-------------------------- MODULE MotorNodeProofs --------------------------
(***************************************************************************)
(* Proofs about MotorNode: typing, the supported modes, what disabling     *)
(* guarantees, and the command watchdog.                                   *)
(***************************************************************************)
EXTENDS MotorNode, TLAPS

AnyMoving == \E m \in Motors : Moving(last_cmds[m])

\* Both what the node believes and what the drivers hold is supported.
ModesInv == \A m \in Motors : /\ is_mode_supported(last_cmds[m].mode)
                              /\ is_mode_supported(device[m].mode)

\* While the node is disabled it believes every motor idle.
DisabledInv == ~enabled => \A m \in Motors : last_cmds[m] = IdleCommand

\* While a motor moves, last_cmd_time_ is the time of the last command array;
\* and once the timer has run since the timeout was last set, that time is no
\* further back than the timeout and the time since the timer ran.
WatchdogInv ==
    (enabled /\ AnyMoving)
    => /\ quiet = age
       /\ (scalars["cmd_timeout_ms"] > 0 /\ settled > Period - due)
            => quiet <= scalars["cmd_timeout_ms"] + (Period - due)

IInv == TypeOK /\ ModesInv /\ DisabledInv /\ SentIsStored /\ WatchdogInv

-----------------------------------------------------------------------------
(* What the helpers return.                                                *)

\* The idle command is at rest and of a mode every motor type supports.
LEMMA IdleType == IdleCommand \in Command /\ is_mode_supported(IdleCommand.mode)
                  /\ ~Moving(IdleCommand)
  BY DEF IdleCommand, Command, Modes, is_mode_supported, supported_modes, Moving

\* The anchoring command is at rest, and supported where the node anchors.
LEMMA AnchorType ==
  AnchorCommand \in Command /\ ~Moving(AnchorCommand)
  /\ (AutoEnables => is_mode_supported(AnchorCommand.mode))
  BY DEF AnchorCommand, IdleCommand, Command, Modes, is_mode_supported, supported_modes,
         Moving, AutoEnables

\* A clamped value is an integer, and within the limits if they are in order.
LEMMA ClampBounds ==
  ASSUME NEW v \in Int, NEW hi \in Int
  PROVE  /\ clampf(v, -hi, hi) \in Int
         /\ hi >= 0 => Abs(clampf(v, -hi, hi)) <= hi
  BY DEF clampf, Abs

\* on_cmd stores a command, in the mode that map_mode gives.
LEMMA StoredType ==
  ASSUME TypeOK, NEW m \in Motors, NEW c \in CommandMsg
  PROVE  stored_command(m, c) \in Command
<1>1. "max_velocity" \in ScalarNames /\ "max_torque" \in ScalarNames
      /\ {"pid_kp", "pid_kd", "profile_acc", "profile_dec"} \subseteq VectorNames
  BY DEF ScalarNames, VectorNames
<1>2. scalars["max_velocity"] \in Int /\ scalars["max_torque"] \in Int
  BY <1>1 DEF TypeOK
<1>3. \A n \in {"pid_kp", "pid_kd", "profile_acc", "profile_dec"} : vectors[n][m] \in Int
  BY <1>1 DEF TypeOK
<1>4. map_mode(c.mode) \in Modes
  BY DEF map_mode, Modes
<1>5. /\ c.pos \in Int /\ c.vel \in Int /\ c.trq \in Int /\ c.kp \in Int /\ c.kd \in Int
  BY DEF CommandMsg
<1>6. /\ clampf(c.vel, -scalars["max_velocity"], scalars["max_velocity"]) \in Int
      /\ clampf(c.trq, -scalars["max_torque"], scalars["max_torque"]) \in Int
  BY <1>2, <1>5, ClampBounds
<1>7. QED
  BY <1>3, <1>4, <1>5, <1>6 DEF stored_command, Command

\* What an array makes of the commands: each motor keeps its command or gets
\* one from an accepted element of the array.
LEMMA AppliedCommand ==
  ASSUME NEW msg \in Messages, NEW m \in Motors
  PROVE  \/ applied_commands(msg)[m] = last_cmds[m]
         \/ \E c \in CommandMsg : /\ is_mode_supported(map_mode(c.mode))
                                  /\ applied_commands(msg)[m] = stored_command(m, c)
<1> DEFINE last == LastOf(accepted(msg, m))
<1>1. CASE last = {}
  BY <1>1 DEF applied_commands
<1>2. CASE last # {}
  <2>1. PICK k \in last : k = CHOOSE j \in last : TRUE
    BY <1>2
  <2>2. k \in 1..Len(msg) /\ is_mode_supported(map_mode(msg[k].mode))
    BY <2>1 DEF LastOf, accepted
  <2>3. msg[k] \in CommandMsg
    BY <2>2, MessageAssumption
  <2>4. applied_commands(msg)[m] = stored_command(m, msg[k])
    BY <1>2, <2>1 DEF applied_commands
  <2>5. QED
    BY <2>2, <2>3, <2>4
<1>3. QED
  BY <1>1, <1>2

\* An array leaves every motor a command of a supported mode.
LEMMA AppliedType ==
  ASSUME TypeOK, ModesInv, NEW msg \in Messages
  PROVE  /\ applied_commands(msg) \in [Motors -> Command]
         /\ \A m \in Motors : is_mode_supported(applied_commands(msg)[m].mode)
<1>1. ASSUME NEW m \in Motors
      PROVE  /\ applied_commands(msg)[m] \in Command
             /\ is_mode_supported(applied_commands(msg)[m].mode)
  <2>1. CASE applied_commands(msg)[m] = last_cmds[m]
    BY <2>1 DEF TypeOK, ModesInv
  <2>2. ASSUME NEW c \in CommandMsg, is_mode_supported(map_mode(c.mode)),
               applied_commands(msg)[m] = stored_command(m, c)
        PROVE  /\ applied_commands(msg)[m] \in Command
               /\ is_mode_supported(applied_commands(msg)[m].mode)
    <3>1. stored_command(m, c).mode = map_mode(c.mode)
      BY DEF stored_command
    <3>2. QED
      BY <2>2, <3>1, StoredType
  <2>3. QED
    BY <2>1, <2>2, AppliedCommand
<1>2. applied_commands(msg) = [m \in Motors |-> applied_commands(msg)[m]]
  BY DEF applied_commands
<1>3. QED
  BY <1>1, <1>2

\* motor_set_cmds: drivers hold commands, and those it reached hold the new ones.
LEMMA SetCmds ==
  ASSUME TypeOK, NEW cmds \in [Motors -> Command], NEW took \in SUBSET Motors,
         motor_set_cmds(cmds, took)
  PROVE  /\ device' \in [Motors -> Command]
         /\ missed' \in SUBSET Motors
         /\ \A m \in Motors \ missed' : device'[m] = cmds[m]
         /\ \A m \in Motors : device'[m] = cmds[m] \/ device'[m] = device[m]
  BY DEF TypeOK, motor_set_cmds

\* Parameter updates keep the types: the scalars stay integers, the vectors
\* keep one entry per motor.
LEMMA UpdateTypes ==
  ASSUME NEW u \in ParamUpdate
  PROVE  /\ u.name \in ScalarNames => u.value \in Int
         /\ u.name \in VectorNames => u.value \in Seq(Int)
  BY DEF ParamUpdate, ScalarNames, VectorNames, StaticNames

\* The conversion of a parameter to int yields an int.
LEMMA ToIntType == \A v \in Int : ToInt(v) \in Int /\ ToInt(v) \in Ints
<1>1. ASSUME NEW w \in Int, NEW d \in Nat \ {0} PROVE w % d \in 0..(d - 1)
  BY <1>1
<1>2. ASSUME NEW v \in Int PROVE ToInt(v) \in Int /\ ToInt(v) \in Ints
  <2>1. v + IntHalf \in Int /\ 2 * IntHalf \in Nat \ {0} /\ IntHalf \in Nat \ {0}
    BY TimeAssumption
  <2>2. (v + IntHalf) % (2 * IntHalf) \in 0..(2 * IntHalf - 1)
    BY <1>1, <2>1
  <2>3. QED
    BY <2>1, <2>2 DEF ToInt, Ints
<1>3. QED
  BY <1>2

\* normalize_vec_param yields one value per motor.
LEMMA NormalizedType ==
  ASSUME NEW v \in Seq(Int), normalizable(v)
  PROVE  normalize_vec_param(v) \in [Motors -> Int]
  BY SizeAssumption DEF normalizable, normalize_vec_param, Motors

\* A list of parameters leaves every scalar an integer, the timeout an int, and
\* every vector one integer per motor.
LEMMA UpdatedType ==
  ASSUME TypeOK, NEW list \in ParamLists
  PROVE  /\ applied_scalars(list) \in [ScalarNames -> Int]
         /\ applied_scalars(list)["cmd_timeout_ms"] \in Ints
         /\ applied_vectors(list) \in [VectorNames -> [Motors -> Int]]
<1>1. ASSUME NEW n, NEW k \in LastOf(assignments(list, n))
      PROVE  /\ list[k] \in ParamUpdate /\ list[k].name = n
             /\ n \in VectorNames => normalizable(list[k].value)
  BY <1>1, ParamAssumption DEF LastOf, assignments
<1>2. ASSUME NEW n \in ScalarNames
      PROVE  /\ applied_scalars(list)[n] \in Int
             /\ n = "cmd_timeout_ms" => applied_scalars(list)[n] \in Ints
  <2> DEFINE last == LastOf(assignments(list, n))
  <2>1. CASE last = {}
    BY <2>1 DEF applied_scalars, TypeOK
  <2>2. CASE last # {}
    <3>1. PICK k \in last : k = CHOOSE j \in last : TRUE
      BY <2>2
    <3>2. list[k].value \in Int
      BY <1>1, UpdateTypes
    <3>3. applied_scalars(list)[n] = scalar_value(n, list[k].value)
      BY <2>2, <3>1 DEF applied_scalars
    <3>4. QED
      BY <3>2, <3>3, ToIntType DEF scalar_value
  <2>3. QED
    BY <2>1, <2>2
<1>3. ASSUME NEW n \in VectorNames
      PROVE  applied_vectors(list)[n] \in [Motors -> Int]
  <2> DEFINE last == LastOf(assignments(list, n))
  <2>1. CASE last = {}
    BY <2>1 DEF applied_vectors, TypeOK
  <2>2. CASE last # {}
    <3>1. PICK k \in last : k = CHOOSE j \in last : TRUE
      BY <2>2
    <3>2. list[k].value \in Seq(Int) /\ normalizable(list[k].value)
      BY <1>1, UpdateTypes
    <3>3. applied_vectors(list)[n] = normalize_vec_param(list[k].value)
      BY <2>2, <3>1 DEF applied_vectors
    <3>4. QED
      BY <3>2, <3>3, NormalizedType
  <2>3. QED
    BY <2>1, <2>2
<1>4. "cmd_timeout_ms" \in ScalarNames
  BY DEF ScalarNames
<1>5. QED
  BY <1>2, <1>3, <1>4 DEF applied_scalars, applied_vectors

-----------------------------------------------------------------------------
(* The inductive invariant.                                                *)

\* A watchdog stop keeps the modes and takes all motion out of the commands.
LEMMA StoppedType ==
  ASSUME NEW cmds \in [Motors -> Command]
  PROVE  /\ stopped(cmds) \in [Motors -> Command]
         /\ \A m \in Motors : /\ stopped(cmds)[m].mode = cmds[m].mode
                              /\ ~Moving(stopped(cmds)[m])
<1>1. ASSUME NEW c \in Command
      PROVE  halted(c) \in Command /\ halted(c).mode = c.mode
             /\ halted(c).vel = 0 /\ halted(c).trq = 0
  BY DEF halted, Command
<1>2. QED
  BY <1>1 DEF stopped, Moving

\* Saturating clocks stay in range and advance by at most one.
LEMMA OlderType ==
  ASSUME NEW t \in 0..TimeCap
  PROVE  /\ older(t) \in 0..TimeCap /\ older(t) <= t + 1 /\ t <= older(t)
         /\ older(t) = t => t = TimeCap
  BY TimeAssumption DEF older

\* Every state that the constructor hands over satisfies the invariant.
LEMMA InitInv == Init => IInv
<1> SUFFICES ASSUME Init PROVE IInv
  OBVIOUS
<1>1. /\ last_cmds \in [Motors -> Command]
      /\ \A m \in Motors : is_mode_supported(last_cmds[m].mode) /\ ~Moving(last_cmds[m])
      /\ ~enabled => \A m \in Motors : last_cmds[m] = IdleCommand
  BY IdleType, AnchorType DEF Init
<1>2. /\ device \in [Motors -> Command]
      /\ \A m \in Motors : is_mode_supported(device[m].mode)
  BY IdleType, AnchorType DEF Init
<1>3. enabled \in BOOLEAN
  BY DEF Init, AutoEnables
<1>4. TypeOK
  BY <1>1, <1>2, <1>3, ParamAssumption, TimeAssumption DEF Init, TypeOK
<1>5. QED
  BY <1>1, <1>2, <1>4 DEF Init, IInv, ModesInv, DisabledInv, SentIsStored, WatchdogInv,
                          AnyMoving

\* A command array leaves the invariant: commands are stored and sent together,
\* and both clocks restart.
LEMMA CmdInv ==
  ASSUME IInv, NEW msg \in Messages, NEW took \in SUBSET Motors, on_cmd(msg, took)
  PROVE  IInv'
<1> USE DEF IInv
<1>1. /\ last_cmds' \in [Motors -> Command]
      /\ \A m \in Motors : is_mode_supported(last_cmds'[m].mode)
  BY AppliedType DEF on_cmd
<1>2. /\ device' \in [Motors -> Command]
      /\ missed' \in SUBSET Motors
      /\ \A m \in Motors \ missed' : device'[m] = last_cmds'[m]
      /\ \A m \in Motors : device'[m] = last_cmds'[m] \/ device'[m] = device[m]
  BY <1>1, SetCmds DEF on_cmd
<1>3. TypeOK'
  BY <1>1, <1>2, TimeAssumption DEF TypeOK, on_cmd
<1>4. ModesInv' /\ SentIsStored' /\ DisabledInv'
  BY <1>1, <1>2 DEF ModesInv, SentIsStored, DisabledInv, on_cmd, TypeOK, is_mode_supported
<1>5. WatchdogInv'
  <2>1. scalars["cmd_timeout_ms"] \in Int
    BY DEF TypeOK, ScalarNames
  <2>2. quiet' = 0 /\ age' = 0 /\ scalars' = scalars /\ due' \in 0..Period
    BY DEF on_cmd, TypeOK
  <2>3. QED
    BY <2>1, <2>2, TimeAssumption DEF WatchdogInv
<1>6. QED
  BY <1>3, <1>4, <1>5

\* Disabling makes every command idle; enabling changes no command, and
\* restarts the clock only while all are idle.
LEMMA EnableInv ==
  ASSUME IInv, NEW data \in BOOLEAN, NEW took \in SUBSET Motors, on_enable(data, took)
  PROVE  IInv'
<1> USE DEF IInv
<1>1. CASE ~data
  <2>1. disable(took)
    BY <1>1 DEF on_enable
  <2>2. /\ last_cmds' \in [Motors -> Command]
        /\ \A m \in Motors : last_cmds'[m] = IdleCommand
    BY <2>1, IdleType DEF disable
  <2>3. /\ device' \in [Motors -> Command]
        /\ missed' \in SUBSET Motors
        /\ \A m \in Motors \ missed' : device'[m] = last_cmds'[m]
        /\ \A m \in Motors : device'[m] = last_cmds'[m] \/ device'[m] = device[m]
    BY <2>1, <2>2, SetCmds DEF disable
  <2>4. TypeOK' /\ DisabledInv' /\ SentIsStored'
    BY <2>1, <2>2, <2>3 DEF disable, TypeOK, DisabledInv, SentIsStored
  <2>5. ModesInv'
    BY <2>2, <2>3, IdleType DEF ModesInv, is_mode_supported
  <2>6. WatchdogInv'
    BY <2>1 DEF disable, WatchdogInv
  <2>7. QED
    BY <2>4, <2>5, <2>6
<1>2. CASE data
  <2>1. enable
    BY <1>2 DEF on_enable
  <2>2. TypeOK' /\ ModesInv' /\ DisabledInv' /\ SentIsStored'
    BY <2>1, TimeAssumption DEF enable, TypeOK, ModesInv, DisabledInv, SentIsStored,
                                is_mode_supported
  <2>3. WatchdogInv'
    <3>1. CASE enabled
      BY <2>1, <3>1 DEF enable, WatchdogInv, AnyMoving
    <3>2. CASE ~enabled
      BY <2>1, <3>2, IdleType DEF enable, WatchdogInv, AnyMoving, DisabledInv
    <3>3. QED
      BY <3>1, <3>2
  <2>4. QED
    BY <2>2, <2>3
<1>3. QED
  BY <1>1, <1>2

\* Setting parameters changes no command; a new timeout restarts `settled`.
LEMMA ParamInv ==
  ASSUME IInv, NEW list \in ParamLists, on_set_parameters(list)
  PROVE  IInv'
<1> USE DEF IInv
<1>1. TypeOK'
  BY UpdatedType, TimeAssumption DEF on_set_parameters, TypeOK
<1>2. ModesInv' /\ DisabledInv' /\ SentIsStored'
  BY DEF on_set_parameters, ModesInv, DisabledInv, SentIsStored, is_mode_supported
<1>3. WatchdogInv'
  <2>1. CASE assignments(list, "cmd_timeout_ms") # {}
    BY <2>1, TimeAssumption DEF on_set_parameters, WatchdogInv, AnyMoving, TypeOK
  <2>2. CASE assignments(list, "cmd_timeout_ms") = {}
    <3>1. LastOf(assignments(list, "cmd_timeout_ms")) = {}
      BY <2>2 DEF LastOf
    <3>2. scalars'["cmd_timeout_ms"] = scalars["cmd_timeout_ms"]
      BY <3>1 DEF on_set_parameters, applied_scalars, ScalarNames
    <3>3. QED
      BY <2>2, <3>2 DEF on_set_parameters, WatchdogInv, AnyMoving
  <2>3. QED
    BY <2>1, <2>2
<1>4. QED
  BY <1>1, <1>2, <1>3

\* The timer: it stops the motors, or finds last_cmd_time_ recent enough.
LEMMA TimerInv ==
  ASSUME IInv, NEW took \in SUBSET Motors, publish_state(took)
  PROVE  IInv'
<1> USE DEF IInv
<1>1. CASE TimedOut
  <2>1. safe_stop(took) /\ age' = 0
    BY <1>1 DEF publish_state
  <2>2. /\ last_cmds' \in [Motors -> Command]
        /\ \A m \in Motors : last_cmds'[m].mode = last_cmds[m].mode /\ ~Moving(last_cmds'[m])
    BY <2>1, StoppedType DEF safe_stop, TypeOK
  <2>3. /\ device' \in [Motors -> Command]
        /\ missed' \in SUBSET Motors
        /\ \A m \in Motors \ missed' : device'[m] = last_cmds'[m]
        /\ \A m \in Motors : device'[m] = last_cmds'[m] \/ device'[m] = device[m]
    BY <2>1, <2>2, SetCmds DEF safe_stop
  <2>4. TypeOK'
    BY <2>1, <2>2, <2>3, TimeAssumption DEF publish_state, TypeOK
  <2>5. ModesInv' /\ SentIsStored' /\ DisabledInv'
    BY <1>1, <2>2, <2>3 DEF ModesInv, SentIsStored, DisabledInv, TimedOut, publish_state,
                            is_mode_supported
  <2>6. WatchdogInv'
    BY <2>2 DEF WatchdogInv, AnyMoving
  <2>7. QED
    BY <2>4, <2>5, <2>6
<1>2. CASE ~TimedOut
  <2>1. UNCHANGED <<enabled, last_cmds, device, missed, age, scalars, vectors, quiet, settled>>
        /\ due' = Period
    BY <1>2 DEF publish_state
  <2>2. TypeOK' /\ ModesInv' /\ DisabledInv' /\ SentIsStored'
    BY <2>1, TimeAssumption DEF TypeOK, ModesInv, DisabledInv, SentIsStored, is_mode_supported
  <2>3. WatchdogInv'
    BY <1>2, <2>1, TimeAssumption
       DEF WatchdogInv, AnyMoving, TimedOut, TypeOK, ScalarNames
  <2>4. QED
    BY <2>2, <2>3
<1>3. QED
  BY <1>1, <1>2

\* Time: the clocks advance together, and `due` falls as they rise.
LEMMA TickInv == IInv /\ Tick => IInv'
<1> SUFFICES ASSUME IInv, Tick PROVE IInv'
  OBVIOUS
<1> USE DEF IInv
<1>1. TypeOK'
  BY OlderType, TimeAssumption DEF Tick, TypeOK
<1>2. ModesInv' /\ DisabledInv' /\ SentIsStored'
  BY DEF Tick, ModesInv, DisabledInv, SentIsStored, is_mode_supported
<1>3. WatchdogInv'
  <2> SUFFICES ASSUME enabled, AnyMoving
               PROVE  /\ quiet' = age'
                      /\ (scalars["cmd_timeout_ms"] > 0 /\ settled' > Period - due')
                           => quiet' <= scalars["cmd_timeout_ms"] + (Period - due')
    BY DEF Tick, WatchdogInv, AnyMoving
  <2>1. quiet = age /\ quiet' = age'
    BY DEF Tick, WatchdogInv
  <2>2. scalars["cmd_timeout_ms"] \in Int /\ due' = due - 1
    BY DEF Tick, TypeOK, ScalarNames
  <2>3. settled' > Period - due' => settled > Period - due
    BY <2>2, TimeAssumption DEF Tick, TypeOK, older
  <2>4. quiet' <= quiet + 1
    BY OlderType DEF Tick, TypeOK
  <2>5. quiet \in Int /\ quiet' \in Int /\ due \in Int /\ Period \in Int
    BY <1>1, TimeAssumption DEF TypeOK
  <2>6. QED
    BY <2>1, <2>2, <2>3, <2>4, <2>5 DEF WatchdogInv
<1>4. QED
  BY <1>1, <1>2, <1>3

\* Every step of the node preserves the invariant.
LEMMA StepInv == IInv /\ [Next]_vars => IInv'
<1> SUFFICES ASSUME IInv, [Next]_vars PROVE IInv'
  OBVIOUS
<1>1. CASE \E msg \in Messages, took \in SUBSET Motors : on_cmd(msg, took)
  BY <1>1, CmdInv
<1>2. CASE \E data \in BOOLEAN, took \in SUBSET Motors : on_enable(data, took)
  BY <1>2, EnableInv
<1>3. CASE \E list \in ParamLists : on_set_parameters(list)
  BY <1>3, ParamInv
<1>4. CASE \E took \in SUBSET Motors : publish_state(took)
  BY <1>4, TimerInv
<1>5. CASE Tick
  BY <1>5, TickInv
<1>6. CASE UNCHANGED vars
  BY <1>6 DEF vars, IInv, TypeOK, ModesInv, DisabledInv, SentIsStored, WatchdogInv,
              AnyMoving, is_mode_supported
<1>7. QED
  BY <1>1, <1>2, <1>3, <1>4, <1>5, <1>6 DEF Next

\* The invariant holds in every reachable state of motor_node.
THEOREM Invariance == Spec => []IInv
<1>1. Init => IInv
  BY InitInv
<1>2. IInv /\ [Next]_vars => IInv'
  BY StepInv
<1>3. QED
  BY <1>1, <1>2, PTL DEF Spec

-----------------------------------------------------------------------------
(* The properties.                                                         *)

\* Every variable of motor_node keeps its type; in particular the vectors that
\* on_cmd indexes without a check keep one entry per motor.
THEOREM TypeCorrect == Spec => []TypeOK
  BY Invariance, PTL DEF IInv

\* No driver ever holds a mode that its bus type does not support.
THEOREM ModesSupported == Spec => []OnlySupportedModes
<1>1. IInv => OnlySupportedModes
  BY DEF IInv, ModesInv, OnlySupportedModes
<1>2. QED
  BY <1>1, Invariance, PTL

\* No handler changes last_cmds_ without sending it.
THEOREM StoredIsSent == Spec => []SentIsStored
  BY Invariance, PTL DEF IInv

\* While the node is disabled, every driver that took the last write is idle.
THEOREM DisablingIdles == Spec => []DisabledMotorsIdle
<1>1. IInv => DisabledMotorsIdle
  BY DEF IInv, DisabledInv, SentIsStored, DisabledMotorsIdle
<1>2. QED
  BY <1>1, Invariance, PTL

\* The watchdog of publish_state stops all motors within the timeout and one
\* timer period of the last command array.
THEOREM WatchdogWorks == Spec => []WatchdogStops
<1>1. IInv => WatchdogStops
  <2> SUFFICES ASSUME IInv, enabled, AnyMoving, scalars["cmd_timeout_ms"] > 0,
                      settled > Period, quiet > scalars["cmd_timeout_ms"] + Period
               PROVE  FALSE
    BY DEF WatchdogStops, AnyMoving
  <2>1. /\ scalars["cmd_timeout_ms"] \in Int /\ quiet \in Int /\ settled \in Int
        /\ due \in 0..Period /\ Period \in Int
    BY TimeAssumption DEF IInv, TypeOK, ScalarNames
  <2>2. settled > Period - due
    BY <2>1
  <2>3. quiet <= scalars["cmd_timeout_ms"] + (Period - due)
    BY <2>2 DEF IInv, WatchdogInv
  <2>4. QED
    BY <2>1, <2>3
<1>2. QED
  BY <1>1, Invariance, PTL

\* The watchdog is never early: it stops a moving motor only after a silence
\* longer than the timeout.
THEOREM WatchdogNotEarly == Spec => NeverStopsEarly
<1> DEFINE Stops == \E m \in Motors : Moving(last_cmds[m]) /\ ~Moving(last_cmds'[m])
<1>1. ASSUME IInv, [Next]_vars, enabled, enabled', quiet' # 0, Stops
      PROVE  quiet > scalars["cmd_timeout_ms"]
  <2>1. last_cmds' # last_cmds /\ AnyMoving
    BY <1>1 DEF AnyMoving
  <2>2. ~ \E msg \in Messages, took \in SUBSET Motors : on_cmd(msg, took)
    BY <1>1 DEF on_cmd
  <2>3. ~ \E data \in BOOLEAN, took \in SUBSET Motors : on_enable(data, took)
    BY <1>1, <2>1 DEF on_enable, enable, disable
  <2>4. PICK took \in SUBSET Motors : publish_state(took)
    BY <1>1, <2>1, <2>2, <2>3 DEF Next, on_set_parameters, Tick, vars
  <2>5. TimedOut
    BY <2>1, <2>4 DEF publish_state
  <2>6. quiet = age
    BY <1>1, <2>1 DEF IInv, WatchdogInv
  <2>7. QED
    BY <2>5, <2>6 DEF TimedOut
<1>2. IInv /\ [Next]_vars =>
        [ (enabled /\ enabled' /\ quiet' # 0 /\ Stops)
          => quiet > scalars["cmd_timeout_ms"] ]_vars
  BY <1>1
<1>3. QED
  BY <1>2, Invariance, PTL DEF Spec, NeverStopsEarly

\* Whatever the limits are when a step changes a command, the new command keeps
\* to them.
THEOREM LimitsHold == Spec => ChangesWithinLimits
<1> DEFINE Within(m) ==
             /\ scalars["max_velocity"] >= 0
                   => Abs(last_cmds'[m].vel) <= scalars["max_velocity"]
             /\ scalars["max_torque"] >= 0
                   => Abs(last_cmds'[m].trq) <= scalars["max_torque"]
<1>1. ASSUME IInv, [Next]_vars, NEW m \in Motors, last_cmds'[m] # last_cmds[m]
      PROVE  Within(m)
  <2>1. scalars["max_velocity"] \in Int /\ scalars["max_torque"] \in Int
    BY <1>1 DEF IInv, TypeOK, ScalarNames
  <2>2. CASE last_cmds'[m].vel = 0 /\ last_cmds'[m].trq = 0
    BY <2>1, <2>2 DEF Abs
  <2>3. ASSUME NEW msg \in Messages, NEW took \in SUBSET Motors, on_cmd(msg, took)
        PROVE  Within(m)
    <3>1. PICK c \in CommandMsg : last_cmds'[m] = stored_command(m, c)
      BY <1>1, <2>3, AppliedCommand DEF on_cmd
    <3>2. /\ last_cmds'[m].vel
               = clampf(c.vel, -scalars["max_velocity"], scalars["max_velocity"])
          /\ last_cmds'[m].trq
               = clampf(c.trq, -scalars["max_torque"], scalars["max_torque"])
      BY <3>1 DEF stored_command
    <3>3. c.vel \in Int /\ c.trq \in Int
      BY DEF CommandMsg
    <3>4. QED
      BY <2>1, <3>2, <3>3, ClampBounds
  <2>4. ASSUME NEW data \in BOOLEAN, NEW took \in SUBSET Motors, on_enable(data, took)
        PROVE  Within(m)
    <3>1. last_cmds'[m] = IdleCommand
      BY <1>1, <2>4 DEF on_enable, enable, disable
    <3>2. QED
      BY <2>2, <3>1 DEF IdleCommand
  <2>5. ASSUME NEW took \in SUBSET Motors, publish_state(took)
        PROVE  Within(m)
    <3>1. last_cmds'[m] = halted(last_cmds[m])
      BY <1>1, <2>5 DEF publish_state, safe_stop, stopped
    <3>2. QED
      BY <2>2, <3>1 DEF halted
  <2>6. last_cmds' # last_cmds
    BY <1>1
  <2>7. QED
    BY <1>1, <2>3, <2>4, <2>5, <2>6 DEF Next, on_set_parameters, Tick, vars
<1>2. IInv /\ [Next]_vars => [\A m \in Motors : last_cmds'[m] # last_cmds[m] => Within(m)]_vars
  BY <1>1
<1>3. QED
  BY <1>2, Invariance, PTL DEF Spec, ChangesWithinLimits

=============================================================================
