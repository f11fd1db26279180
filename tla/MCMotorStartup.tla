--------------------------- MODULE MCMotorStartup ---------------------------
(***************************************************************************)
(* Constants for model-checking MotorStartup.                              *)
(***************************************************************************)
EXTENDS MotorStartup

mc_InitScalars == [max_velocity |-> 2, max_torque |-> 1, cmd_timeout_ms |-> 2]
\* The parameters that hold a value per motor, as in MotorNode!VectorNames.
mc_VectorNames == {"pid_kp", "pid_ki", "pid_kd",
                   "profile_vel", "profile_acc", "profile_dec"}
mc_InitVectors == [n \in mc_VectorNames |-> [m \in 1..N |-> 0]]
=============================================================================
