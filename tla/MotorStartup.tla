---------------------------- MODULE MotorStartup ----------------------------
(***************************************************************************)
(* The constructor of MotorNode and its destructor: allocating and         *)
(* initializing the devices, then wait_for_motors_ready with its timeout,  *)
(* its anchoring writes and its count of stable readings, then the         *)
(* automatic enable (src/motor/src/motor_node.cpp).                        *)
(*                                                                         *)
(* The drives behave as they like: at every reading any of them may report *)
(* operational or not, and a reading may fail, which leaves the vector     *)
(* `states` of the previous iteration in place.                            *)
(***************************************************************************)
EXTENDS Integers, Sequences

CONSTANTS
    N, MotorType, WaitForReady, InitScalars, InitVectors, Period, TimeCap, IntHalf,
    Timeout,        \* 15 s in the code
    RequiredStable  \* 100 / max(1, cycle_ms), 0 when a cycle exceeds 100 ms

ASSUME StartupAssumption == /\ N \in Nat \ {0}
                            /\ Timeout \in Nat /\ TimeCap \in Nat /\ Timeout < TimeCap
                            /\ RequiredStable \in Nat

VARIABLES
    pc,            \* where the constructor is
    devs,          \* devices in devs_
    released,      \* devices given back with motor_free
    states,        \* states[m]: the last reading says (err & 0x6F) = 0x27
    stable_counts, \* stable_counts
    waited,        \* now() - start_time, and now() - last_cmd_time_ with it
    enabled,       \* enabled_
    last_cmds,     \* last_cmds_
    device,        \* the last command each motor's driver has taken
    ok,            \* rclcpp::ok()
    streak         \* history: iterations in a row that found all motors operational

vars == <<pc, devs, released, states, stable_counts, waited, enabled, last_cmds,
          device, ok, streak>>

\* The node whose initial states the constructor has to reach.
Node == INSTANCE MotorNode
        WITH Messages <- {}, ParamLists <- {},
             age <- waited, due <- Period, missed <- 1..N,
             quiet <- TimeCap, settled <- TimeCap,
             scalars <- InitScalars, vectors <- InitVectors

Motors  == 1..N
Idle    == [m \in Motors |-> Node!IdleCommand]
Anchor  == [m \in Motors |-> Node!AnchorCommand]

Init ==
    /\ pc = "alloc"
    /\ devs = 0
    /\ released = 0
    /\ states = [m \in Motors |-> FALSE]
    /\ stable_counts = 0
    /\ waited = 0
    /\ enabled = FALSE
    /\ last_cmds = <<>>
    /\ device = Idle
    /\ ok = TRUE
    /\ streak = 0

\* One turn of the allocation loop.
AllocMotor ==
    /\ pc = "alloc" /\ devs < N
    /\ devs' = devs + 1
    /\ UNCHANGED <<pc, released, states, stable_counts, waited, enabled, last_cmds,
                   device, ok, streak>>

\* A bad parameter, an unknown motor_type, a null device or a failed
\* motor_init throws; the destructor of a node that is not built does not run.
Throw ==
    /\ pc = "alloc"
    /\ pc' = "failed"
    /\ UNCHANGED <<devs, released, states, stable_counts, waited, enabled, last_cmds,
                   device, ok, streak>>

InitMotors ==
    /\ pc = "alloc" /\ devs = N
    /\ last_cmds' = Idle
    /\ pc' = IF Node!AutoEnables THEN "wait" ELSE "running"
    /\ UNCHANGED <<devs, released, states, stable_counts, waited, enabled, device, ok, streak>>

\* Mutant: the node is not enabled.
EndWaitDisabled == pc' = "running" /\ enabled' = enabled

\* Leaving wait_for_motors_ready, for whatever reason, enables the node.
EndWait ==
    /\ enabled' = TRUE
    /\ pc' = "running"

WaitTimesOut ==
    /\ pc = "wait" /\ ok
    /\ waited > Timeout
    /\ EndWait
    /\ UNCHANGED <<devs, released, states, stable_counts, waited, last_cmds, device,
                   ok, streak>>

\* motor_get_states: a new reading, or a failure that leaves states alone.
read_states(reading) ==
    /\ states' \in {reading, states}
    /\ streak' = IF \A m \in Motors : states'[m] THEN streak + 1 ELSE 0

anchor_write(took) ==
    device' = [m \in Motors |-> IF m \in took THEN Node!AnchorCommand ELSE device[m]]

\* An iteration that finds all motors enabled often enough.
WaitSucceeds(reading, took) ==
    /\ pc = "wait" /\ ok
    /\ waited <= Timeout
    /\ read_states(reading)
    /\ \A m \in Motors : states'[m]
    /\ anchor_write(took)
    /\ stable_counts' = stable_counts + 1
    /\ stable_counts' >= RequiredStable
    /\ last_cmds' = Anchor
    /\ EndWait
    /\ UNCHANGED <<devs, released, waited, ok>>

\* Mutant: an iteration that finds a motor not ready does not reset the count.
WaitKeepsCount(reading, took) ==
    /\ pc = "wait" /\ ok
    /\ waited <= Timeout
    /\ read_states(reading)
    /\ anchor_write(took)
    /\ stable_counts' = IF \A m \in Motors : states'[m] THEN stable_counts + 1
                        ELSE stable_counts
    /\ (\A m \in Motors : states'[m]) => stable_counts' < RequiredStable
    /\ waited' = waited + 1
    /\ UNCHANGED <<pc, devs, released, enabled, last_cmds, ok>>

\* Mutant: start_time is taken anew in every iteration.
WaitRestarts(reading, took) ==
    /\ pc = "wait" /\ ok
    /\ waited <= Timeout
    /\ read_states(reading)
    /\ anchor_write(took)
    /\ stable_counts' = IF \A m \in Motors : states'[m] THEN stable_counts + 1 ELSE 0
    /\ (\A m \in Motors : states'[m]) => stable_counts' < RequiredStable
    /\ waited' = 0
    /\ UNCHANGED <<pc, devs, released, enabled, last_cmds, ok>>

\* Any other iteration; it ends with rate.sleep(), when time passes.
WaitIterates(reading, took) ==
    /\ pc = "wait" /\ ok
    /\ waited <= Timeout
    /\ read_states(reading)
    /\ anchor_write(took)
    /\ stable_counts' = IF \A m \in Motors : states'[m] THEN stable_counts + 1 ELSE 0
    /\ (\A m \in Motors : states'[m]) => stable_counts' < RequiredStable
    /\ waited' = waited + 1
    /\ UNCHANGED <<pc, devs, released, enabled, last_cmds, ok>>

\* A signal shuts the context down.
Interrupt ==
    /\ pc = "wait" /\ ok
    /\ ok' = FALSE
    /\ UNCHANGED <<pc, devs, released, states, stable_counts, waited, enabled, last_cmds,
                   device, streak>>

\* The loop sees rclcpp::ok() false; the constructor enables the node and goes
\* on, and creating an entity in a context that is shut down may throw.
WaitInterrupted ==
    /\ pc = "wait" /\ ~ok
    /\ enabled' = TRUE
    /\ pc' \in {"running", "failed"}
    /\ UNCHANGED <<devs, released, states, stable_counts, waited, last_cmds, device,
                   ok, streak>>

Destroy ==
    /\ pc = "running"
    /\ pc' = "destroyed"
    /\ released' = devs
    /\ devs' = 0
    /\ UNCHANGED <<states, stable_counts, waited, enabled, last_cmds, device,
                   ok, streak>>

Iterate == \E reading \in [Motors -> BOOLEAN], took \in SUBSET Motors :
              WaitSucceeds(reading, took) \/ WaitIterates(reading, took)

Construct == AllocMotor \/ Throw \/ InitMotors \/ Iterate \/ WaitTimesOut \/ WaitInterrupted

Finished == pc \in {"failed", "destroyed"} /\ UNCHANGED vars

Next == Construct \/ Interrupt \/ Destroy \/ Finished

Spec == Init /\ [][Next]_vars

\* The constructor runs in the main thread and never blocks in a driver.
FairSpec == Spec /\ WF_vars(Construct)

-----------------------------------------------------------------------------
(* Properties.                                                             *)

TypeOK ==
    /\ pc \in {"alloc", "wait", "running", "failed", "destroyed"}
    /\ devs \in 0..N
    /\ released \in 0..N
    /\ states \in [Motors -> BOOLEAN]
    /\ stable_counts \in 0..(RequiredStable + 1)
    /\ waited \in 0..(Timeout + 1)
    /\ enabled \in BOOLEAN
    /\ last_cmds \in {<<>>, Idle, Anchor}
    /\ device \in [Motors -> {Node!IdleCommand, Node!AnchorCommand}]
    /\ ok \in BOOLEAN
    /\ streak \in Nat

\* The constructor hands over an initial state of the running node, so what is
\* shown of MotorNode holds of a node started through here.
HandsOverInit == pc = "running" => Node!Init

\* The node takes the motors for anchored only after RequiredStable iterations
\* in a row found every one of them operational: one that did not starts the
\* count again.
AnchoredMeansStable ==
    (pc = "running" /\ last_cmds = Anchor) => streak >= RequiredStable

\* The constructor always ends: the wait is bounded even if no motor is ever
\* ready.
ConstructorEnds == <>(pc \in {"running", "failed"})

\* What the comment at the automatic enable says: the node enables itself
\* after successful initialization, that is, when the last reading has found
\* all motors operational.
AutoEnabledWhenReady == ok /\ enabled => streak > 0

=============================================================================
