-------------------------- MODULE LightSensorNode --------------------------
(***************************************************************************)
(* light_sensor_node (src/light_sensor/src/light_sensor_node.cpp): a timer *)
(* that polls a sensor and publishes what it measured, unless there is no  *)
(* new sample (-EAGAIN) or the poll fails.                                 *)
(***************************************************************************)
EXTENDS Integers, Sequences

CONSTANTS
    Parameters,  \* what the node may be started with
    Levels,      \* illuminances that are told apart
    NaN

VARIABLES
    pc,          \* where the node's thread is
    params,      \* the parameters
    dev,         \* dev_: not there, in use, or given back
    level,       \* the light that falls on the sensor
    topic,       \* the last message
    measured     \* history: what the last poll with rc = 0 measured

vars == <<pc, params, dev, level, topic, measured>>

\* p.named: none of driver, instance, device and topic is "".
validate_config(p) ==
    /\ p.named
    /\ p.i2c_addr \in 0..127
    /\ p.poll_hz # NaN /\ p.poll_hz > 0
    /\ p.variance # NaN /\ p.variance >= 0

Init ==
    /\ pc = "alloc"
    /\ params \in Parameters
    /\ dev = "null"
    /\ level \in Levels
    /\ topic = <<>> /\ measured = <<>>

alloc(ok) ==
    /\ pc = "alloc"
    /\ IF validate_config(params) /\ ok THEN pc' = "init" /\ dev' = "open"
                                        ELSE pc' = "failed" /\ UNCHANGED dev
    /\ UNCHANGED <<params, level, topic, measured>>

\* Mutant: the device of a failed light_sensor_init is not freed.
init_leaks(ok) ==
    /\ pc = "init"
    /\ pc' = IF ok THEN "create" ELSE "failed"
    /\ UNCHANGED <<params, dev, level, topic, measured>>

init(ok) ==
    /\ pc = "init"
    /\ IF ok THEN pc' = "create" /\ UNCHANGED dev
             ELSE pc' = "failed" /\ dev' = "freed"
    /\ UNCHANGED <<params, level, topic, measured>>

\* The publisher and the timer.  What they throw, for a topic that is not a
\* name or a period out of range, skips the destructor: the device stays.
create(ok) ==
    /\ pc = "create"
    /\ pc' = IF ok THEN "spin" ELSE "abandoned"
    /\ UNCHANGED <<params, dev, level, topic, measured>>

Message(lux) == [illuminance |-> lux, variance |-> params.variance]

tick(rc) ==
    /\ pc = "spin"
    /\ dev # "null"
    /\ IF rc = "ok" THEN topic' = <<Message(level)>> /\ measured' = <<level>>
                    ELSE UNCHANGED <<topic, measured>>
    /\ UNCHANGED <<pc, params, dev, level>>

destroy ==
    /\ pc = "spin"
    /\ pc' = "destroyed"
    /\ dev' = "freed"
    /\ UNCHANGED <<params, level, topic, measured>>

light_changes ==
    /\ pc = "spin"
    /\ level' \in Levels
    /\ UNCHANGED <<pc, params, dev, topic, measured>>

Next ==
    \/ \E ok \in BOOLEAN : alloc(ok) \/ init(ok) \/ create(ok)
    \/ \E rc \in {"ok", "again", "error"} : tick(rc)
    \/ destroy
    \/ light_changes

Spec == Init /\ [][Next]_vars

\* The timer keeps firing, and the sensor has a new sample some of the times.
Fairness == SF_vars(tick("ok"))

-----------------------------------------------------------------------------
(* Properties.                                                             *)

\* A running node has parameters that were checked.
TypeOK ==
    /\ pc \in {"alloc", "init", "create", "spin", "failed", "abandoned", "destroyed"}
    /\ params \in Parameters
    /\ dev \in {"null", "open", "freed"}
    /\ level \in Levels
    /\ Len(topic) <= 1 /\ Len(measured) <= 1
    /\ pc = "spin" => params.i2c_addr \in 0..127

\* The sensor is polled only while it is open, and is given back by the
\* destructor and by a failing light_sensor_init.
GivenBack ==
    /\ pc \in {"init", "create", "spin"} => dev = "open"
    /\ pc \in {"failed", "destroyed"} => dev # "open"

\* The last message is the last measurement: the 0 that lux starts with is
\* never published for a poll that measured nothing.
LuxIsTrue == \A k \in 1..Len(topic) : topic[k].illuminance = measured[1]

\* A change of the light gets on the topic, though polls may fail.
ChangeIsShown ==
    \A lux \in Levels :
        pc = "spin" /\ level = lux
            ~> pc # "spin" \/ level # lux \/ topic = <<Message(lux)>>

=============================================================================
