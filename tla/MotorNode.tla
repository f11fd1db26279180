----------------------------- MODULE MotorNode -----------------------------
(***************************************************************************)
(* The running motor_node (src/motor/src/motor_node.cpp): the command      *)
(* subscription, the enable service, the parameter callback and the state  *)
(* timer with its command watchdog.  A SingleThreadedExecutor runs one     *)
(* callback at a time, so every callback is one action.                    *)
(*                                                                         *)
(* Motors are their indices in devs_.  Demands are integers in some unit.  *)
(* Time is counted in ticks; `age` is now() - last_cmd_time_ and saturates *)
(* at TimeCap, which lies above every timeout that is used.                *)
(***************************************************************************)
EXTENDS Integers, Sequences

CONSTANTS
    N,              \* number of configured motors
    MotorType,      \* parameter motor_type
    WaitForReady,   \* parameter wait_for_ready
    InitScalars,    \* values of the scalar members at start
    InitVectors,    \* values of the per-motor parameters at start, normalized
    Messages,       \* the command arrays that may arrive on /cmd/motor
    ParamLists,     \* the lists of parameters that may be set at run time
    Period,         \* longest time between two runs of the state timer
    TimeCap,        \* bound of the saturating clocks
    IntHalf         \* 2^31 in the code: the range of int is -IntHalf..IntHalf-1

Motors == 1..N
Ints   == -IntHalf..(IntHalf - 1)

MotorTypes  == {"can", "canopen", "uart", "ecat"}
Modes       == {"IDLE", "POS", "VEL", "TRQ", "HYBRID", "CSP", "CSV", "CST", "HM"}
ScalarNames == {"max_velocity", "max_torque", "cmd_timeout_ms"}
VectorNames == {"pid_kp", "pid_ki", "pid_kd",
                "profile_vel", "profile_acc", "profile_dec"}
StaticNames == {"motor_type", "driver_name", "motor_iface", "motor_ids", "baud",
                "slave_indices", "ecat_cycle_ms", "canopen_cycle_ms",
                "wait_for_ready"}

\* One element of a command array: its mode is a number on the wire, and any
\* number that is no MODE_* constant is "other".
CommandMsg == [id : Nat, mode : Modes \cup {"other"},
               pos : Int, vel : Int, trq : Int, kp : Int, kd : Int]

Command == [mode : Modes, pos : Int, vel : Int, trq : Int, kp : Int, kd : Int]

ParamUpdate == [name : ScalarNames, value : Int]
          \cup [name : VectorNames, value : Seq(Int)]
          \cup [name : StaticNames, value : Int]

ASSUME SizeAssumption == N \in Nat \ {0} /\ MotorType \in MotorTypes
                         /\ WaitForReady \in BOOLEAN
ASSUME ParamAssumption == /\ InitScalars \in [ScalarNames -> Int]
                          /\ InitScalars["cmd_timeout_ms"] \in Ints
                          /\ InitVectors \in [VectorNames -> [Motors -> Int]]
                          /\ ParamLists \subseteq Seq(ParamUpdate)
ASSUME MessageAssumption == Messages \subseteq Seq(CommandMsg)
ASSUME TimeAssumption == Period \in Nat \ {0} /\ TimeCap \in Nat /\ TimeCap > Period
                         /\ IntHalf \in Nat \ {0}

VARIABLES
    enabled,     \* enabled_
    last_cmds,   \* last_cmds_
    scalars,     \* max_velocity_, max_torque_, cmd_timeout_ms_
    vectors,     \* pid_kp_, ..., profile_dec_
    age,         \* now() - last_cmd_time_
    due,         \* time left before the state timer has to run
    device,      \* the last command each motor's driver has taken, or IdleCommand
    missed,      \* the motors that the last motor_set_cmds of the node did not reach
    quiet,       \* history: time since on_cmd last handled an array
    settled      \* history: time since cmd_timeout_ms_ was last set

vars == <<enabled, last_cmds, scalars, vectors, age, due, device, missed,
          quiet, settled>>

-----------------------------------------------------------------------------
(* Helpers of the callbacks.                                               *)

IdleCommand   == [mode |-> "IDLE", pos |-> 0, vel |-> 0, trq |-> 0, kp |-> 0, kd |-> 0]
AnchorCommand == [IdleCommand EXCEPT !.mode = "POS"]

map_mode(mode) == IF mode \in Modes THEN mode ELSE "IDLE"

supported_modes ==
    {"IDLE"} \cup
    (CASE MotorType = "can"     -> {"HYBRID", "POS", "VEL", "TRQ"}
       [] MotorType = "uart"    -> {"POS", "VEL"}
       [] MotorType = "ecat"    -> {"POS", "VEL", "TRQ", "CSP", "CSV", "CST", "HM"}
       [] MotorType = "canopen" -> {"POS", "VEL", "HM"})

is_mode_supported(mode) == mode \in supported_modes

clampf(v, lo, hi) == IF v < lo THEN lo ELSE IF v > hi THEN hi ELSE v

\* Mutant: the velocity is not clamped.
stored_unclamped(m, c) ==
    [mode |-> map_mode(c.mode), pos |-> c.pos, vel |-> c.vel, trq |-> c.trq,
     kp |-> c.kp, kd |-> c.kd]

\* The command that on_cmd stores for motor m from the message element c.
stored_command(m, c) ==
    LET kpDefault == vectors[IF MotorType = "ecat" THEN "profile_acc" ELSE "pid_kp"][m]
        kdDefault == vectors[IF MotorType = "ecat" THEN "profile_dec" ELSE "pid_kd"][m]
    IN  [mode |-> map_mode(c.mode),
         pos  |-> c.pos,
         vel  |-> clampf(c.vel, -scalars["max_velocity"], scalars["max_velocity"]),
         trq  |-> clampf(c.trq, -scalars["max_torque"], scalars["max_torque"]),
         kp   |-> IF c.kp = 0 THEN kpDefault ELSE c.kp,
         kd   |-> IF c.kd = 0 THEN kdDefault ELSE c.kd]

\* The last of a set of positions: the loops overwrite, so the last one wins.
LastOf(S) == {k \in S : \A j \in S : j <= k}

\* Mutant: the mode is not validated.
accepted_any_mode(msg, m) == {k \in 1..Len(msg) : msg[k].id = m}

\* The elements of msg that on_cmd applies to motor m.
accepted(msg, m) ==
    {k \in 1..Len(msg) : msg[k].id = m /\ is_mode_supported(map_mode(msg[k].mode))}

applied_commands(msg) ==
    [m \in Motors |->
        LET last == LastOf(accepted(msg, m))
        IN  IF last = {} THEN last_cmds[m]
            ELSE stored_command(m, msg[CHOOSE k \in last : TRUE])]

halted(c) == [mode |-> c.mode, pos |-> c.pos, vel |-> 0, trq |-> 0,
              kp |-> c.kp, kd |-> c.kd]

stopped(cmds) == [m \in Motors |-> halted(cmds[m])]

\* motor_set_cmds: the driver takes the commands of the motors in `took`; the
\* call fails when it does not take all of them.
motor_set_cmds(cmds, took) ==
    /\ device' = [m \in Motors |-> IF m \in took THEN cmds[m] ELSE device[m]]
    /\ missed' = Motors \ took

older(t) == IF t < TimeCap THEN t + 1 ELSE t

-----------------------------------------------------------------------------
(* Parameters.                                                             *)

ToInt(v) == ((v + IntHalf) % (2 * IntHalf)) - IntHalf

normalizable(v) == Len(v) \in {0, 1, N}

\* Mutant: a vector of one value is not spread over the motors.
normalize_keeps_size(v) == v

normalize_vec_param(v) ==
    IF Len(v) = N THEN [m \in Motors |-> v[m]]
    ELSE IF Len(v) = 1 THEN [m \in Motors |-> v[1]]
    ELSE [m \in Motors |-> 0]

\* The positions of list that assign the parameter called name.
assignments(list, name) ==
    {k \in 1..Len(list) : /\ list[k].name = name
                          /\ name \in VectorNames => normalizable(list[k].value)}

scalar_value(name, v) == IF name = "cmd_timeout_ms" THEN ToInt(v) ELSE v

applied_scalars(list) ==
    [n \in ScalarNames |->
        LET last == LastOf(assignments(list, n))
        IN  IF last = {} THEN scalars[n]
            ELSE scalar_value(n, list[CHOOSE k \in last : TRUE].value)]

applied_vectors(list) ==
    [n \in VectorNames |->
        LET last == LastOf(assignments(list, n))
        IN  IF last = {} THEN vectors[n]
            ELSE normalize_vec_param(list[CHOOSE k \in last : TRUE].value)]

-----------------------------------------------------------------------------
(* The constructor hands over one of these states.  MotorStartup models    *)
(* how it gets there.                                                      *)

AutoEnables == MotorType \in {"ecat", "canopen"} /\ WaitForReady

Init ==
    /\ enabled = AutoEnables
    /\ last_cmds \in {[m \in Motors |-> IdleCommand]}
                     \cup (IF AutoEnables THEN {[m \in Motors |-> AnchorCommand]} ELSE {})
    /\ scalars = InitScalars
    /\ vectors = InitVectors
    /\ age \in (IF AutoEnables THEN 0..TimeCap ELSE {0})
    /\ due = Period
    /\ device \in [Motors -> {IdleCommand} \cup (IF AutoEnables THEN {AnchorCommand} ELSE {})]
    /\ missed = Motors
    /\ quiet = TimeCap
    /\ settled = TimeCap

\* Mutant: commands are not dropped while the node is disabled.
on_cmd_unguarded(msg, took) ==
    /\ last_cmds' = applied_commands(msg)
    /\ motor_set_cmds(last_cmds', took)
    /\ age' = 0
    /\ quiet' = 0
    /\ UNCHANGED <<enabled, scalars, vectors, due, settled>>

\* Mutant: last_cmd_time_ is not refreshed.
on_cmd_untimed(msg, took) ==
    /\ enabled
    /\ last_cmds' = applied_commands(msg)
    /\ motor_set_cmds(last_cmds', took)
    /\ quiet' = 0
    /\ UNCHANGED <<enabled, scalars, vectors, age, due, settled>>

on_cmd(msg, took) ==
    /\ enabled
    /\ last_cmds' = applied_commands(msg)
    /\ motor_set_cmds(last_cmds', took)
    /\ age' = 0
    /\ quiet' = 0
    /\ UNCHANGED <<enabled, scalars, vectors, due, settled>>

\* Mutant: set_all_idle in the place of send_all_idle.
disable_unsent(took) ==
    /\ enabled' = FALSE
    /\ last_cmds' = [m \in Motors |-> IdleCommand]
    /\ UNCHANGED <<scalars, vectors, age, due, device, missed, quiet, settled>>

\* The service disables, and sends IDLE to every motor, whatever the state was.
disable(took) ==
    /\ enabled' = FALSE
    /\ last_cmds' = [m \in Motors |-> IdleCommand]
    /\ motor_set_cmds(last_cmds', took)
    /\ UNCHANGED <<scalars, vectors, age, due, quiet, settled>>

enable ==
    /\ enabled' = TRUE
    /\ age' = IF enabled THEN age ELSE 0
    /\ UNCHANGED <<last_cmds, scalars, vectors, due, device, missed, quiet, settled>>

on_enable(data, took) == IF data THEN enable ELSE disable(took)

on_set_parameters(list) ==
    /\ scalars' = applied_scalars(list)
    /\ vectors' = applied_vectors(list)
    /\ settled' = IF assignments(list, "cmd_timeout_ms") # {} THEN 0 ELSE settled
    /\ UNCHANGED <<enabled, last_cmds, age, due, device, missed, quiet>>

\* Mutant: nothing to stop once the stored commands are at rest.
TimedOutMoving == /\ enabled
                  /\ scalars["cmd_timeout_ms"] > 0
                  /\ age > scalars["cmd_timeout_ms"]
                  /\ \E m \in Motors : last_cmds[m].vel # 0 \/ last_cmds[m].trq # 0

TimedOut == /\ enabled
            /\ scalars["cmd_timeout_ms"] > 0
            /\ age > scalars["cmd_timeout_ms"]

safe_stop(took) ==
    /\ last_cmds' = stopped(last_cmds)
    /\ motor_set_cmds(last_cmds', took)

\* Mutant: every run of the timer refreshes last_cmd_time_.
publish_refreshes(took) ==
    /\ due' = Period
    /\ age' = 0
    /\ IF TimedOut THEN safe_stop(took) ELSE UNCHANGED <<last_cmds, device, missed>>
    /\ UNCHANGED <<enabled, scalars, vectors, quiet, settled>>

publish_state(took) ==
    /\ due' = Period
    /\ IF TimedOut THEN safe_stop(took) /\ age' = 0
                   ELSE UNCHANGED <<last_cmds, device, missed, age>>
    /\ UNCHANGED <<enabled, scalars, vectors, quiet, settled>>

\* Time passes only while no run of the state timer is overdue.
Tick ==
    /\ due > 0
    /\ due' = due - 1
    /\ age' = older(age)
    /\ quiet' = older(quiet)
    /\ settled' = older(settled)
    /\ UNCHANGED <<enabled, last_cmds, scalars, vectors, device, missed>>

Next ==
    \/ \E msg \in Messages, took \in SUBSET Motors : on_cmd(msg, took)
    \/ \E data \in BOOLEAN, took \in SUBSET Motors : on_enable(data, took)
    \/ \E list \in ParamLists : on_set_parameters(list)
    \/ \E took \in SUBSET Motors : publish_state(took)
    \/ Tick

Spec == Init /\ [][Next]_vars

\* Time goes on, the executor keeps running the timer, and a driver that is
\* asked to stop again and again takes the command some time.
FairSpec ==
    /\ Spec
    /\ WF_vars(Tick)
    /\ WF_vars(\E took \in SUBSET Motors : publish_state(took))
    /\ SF_vars(TimedOut /\ publish_state(Motors))

-----------------------------------------------------------------------------
(* Properties.                                                             *)

Abs(x) == IF x < 0 THEN -x ELSE x

Moving(c) == c.mode # "IDLE" /\ (c.vel # 0 \/ c.trq # 0)

\* Every variable has its type; the vectors have one entry per motor, so the
\* unchecked indexing of pid_kp_[idx] and profile_acc_[idx] is in range, and the
\* timeout is an int, whatever 64-bit value the parameter is set to.
TypeOK ==
    /\ enabled \in BOOLEAN
    /\ last_cmds \in [Motors -> Command]
    /\ scalars \in [ScalarNames -> Int] /\ scalars["cmd_timeout_ms"] \in Ints
    /\ vectors \in [VectorNames -> [Motors -> Int]]
    /\ age \in 0..TimeCap
    /\ due \in 0..Period
    /\ device \in [Motors -> Command]
    /\ missed \in SUBSET Motors
    /\ quiet \in 0..TimeCap
    /\ settled \in 0..TimeCap

\* No motor's driver ever holds a mode its bus type does not support, however
\* commands, anchoring, stops and failed writes follow each other.
OnlySupportedModes == \A m \in Motors : is_mode_supported(device[m].mode)

\* Disabling reaches the motors: while the node is disabled, the driver of every
\* motor that took the last write holds an IDLE command.  No later callback
\* (a command, the watchdog, a parameter update) brings a motion back.
DisabledMotorsIdle ==
    ~enabled => \A m \in Motors \ missed : device[m] = IdleCommand

\* What a driver holds is what the node believes: no handler changes
\* last_cmds_ and returns without sending it.
SentIsStored == \A m \in Motors \ missed : device[m] = last_cmds[m]

\* The watchdog: once no command array has been handled for cmd_timeout_ms and
\* one timer period, and the timeout has not just been changed, every motor's
\* stored demand is zero.
WatchdogStops ==
    /\ enabled
    /\ scalars["cmd_timeout_ms"] > 0
    /\ quiet > scalars["cmd_timeout_ms"] + Period
    /\ settled > Period
    => \A m \in Motors : ~Moving(last_cmds[m])

\* The watchdog is never early: a moving motor of an enabled node is brought to
\* rest without a command only after a silence longer than the timeout.
NeverStopsEarly ==
    [][ (/\ enabled /\ enabled'
         /\ quiet' # 0
         /\ \E m \in Motors : Moving(last_cmds[m]) /\ ~Moving(last_cmds'[m]))
        => quiet > scalars["cmd_timeout_ms"] ]_vars

\* A step that changes a motor's stored command leaves its speed and torque
\* within the limits in force at that step (limits that are not negative).
ChangesWithinLimits ==
    [][ \A m \in Motors : last_cmds'[m] # last_cmds[m] =>
          /\ scalars["max_velocity"] >= 0
                => Abs(last_cmds'[m].vel) <= scalars["max_velocity"]
          /\ scalars["max_torque"] >= 0
                => Abs(last_cmds'[m].trq) <= scalars["max_torque"] ]_vars

\* A stop that the driver refuses is retried until it takes it: a motor that
\* moves under silence comes to rest, unless a command, a disable or a timeout
\* of 0 takes the watchdog's place.
StopIsRetried ==
    (/\ enabled /\ quiet > 0 /\ scalars["cmd_timeout_ms"] > 0
     /\ \E m \in Motors : Moving(device[m]))
    ~> (\/ ~enabled \/ quiet = 0 \/ scalars["cmd_timeout_ms"] <= 0
        \/ \A m \in Motors : ~Moving(device[m]))

=============================================================================
