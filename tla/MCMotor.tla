------------------------------ MODULE MCMotor ------------------------------
(***************************************************************************)
(* Constants for model-checking MotorNode.                                 *)
(***************************************************************************)
EXTENDS MotorNode

Msg(id, mode, vel) == [id |-> id, mode |-> mode, pos |-> 1, vel |-> vel, trq |-> 0,
                       kp |-> 0, kd |-> 1]

\* A demand above the limit, an empty array, an unknown id, a mode that is
\* unknown followed by one that a CAN motor does not support.
mc_Messages ==
    {<<Msg(1, "VEL", 3)>>,
     <<>>,
     <<Msg(7, "VEL", 1), Msg(N, "VEL", -1)>>,
     <<Msg(1, "other", 1), Msg(N, "HYBRID", 1), Msg(1, "CSV", 1)>>}

mc_EcatMessages ==
    {<<Msg(1, "CSV", 3)>>, <<Msg(1, "other", 1), Msg(N, "CST", 1), Msg(1, "HYBRID", 1)>>}

\* Any message but those for motor 1: an unknown id and an unsupported mode.
mc_ForeignMessages ==
    {<<Msg(1, "VEL", 1)>>, <<Msg(7, "VEL", 1)>>, <<Msg(1, "HYBRID", 1)>>}

mc_InitScalars == [max_velocity |-> 2, max_torque |-> 1, cmd_timeout_ms |-> 2]
mc_InitVectors == [n \in VectorNames |-> [m \in Motors |-> 0]]

Set(name, v) == [name |-> name, value |-> v]

\* The limit is lowered, the watchdog switched off and on again.
mc_ParamLists ==
    {<<Set("cmd_timeout_ms", 0)>>,
     <<Set("max_velocity", 1), Set("motor_type", 0), Set("cmd_timeout_ms", 3)>>}

\* Wrong sizes, both normal sizes, a later assignment that wins, a timeout
\* that does not fit an int, and a negative limit.
mc_VectorLists ==
    {<<Set("pid_kp", <<1>>), Set("pid_kp", <<1, 2, 3>>)>>,
     <<Set("pid_kp", <<>>), Set("pid_kd", [m \in Motors |-> m])>>,
     <<Set("cmd_timeout_ms", 2 * IntHalf - 1), Set("max_velocity", -1)>>,
     <<Set("cmd_timeout_ms", 2 * IntHalf - 1), Set("cmd_timeout_ms", 1)>>}

mc_NoLists == {}

=============================================================================
