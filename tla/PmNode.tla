------------------------------- MODULE PmNode -------------------------------
(***************************************************************************)
(* pm_node (src/pm/src/pm_node.cpp): a battery that is polled and power    *)
(* switches that are set on request.  The timer and the service share one  *)
(* thread, so each callback is one action; beside them the battery changes *)
(* and any driver call may fail.                                           *)
(*                                                                         *)
(* A float is an integer or NaN, which stands for every value that is not  *)
(* finite.  Names and paths are told apart by being given or empty.        *)
(***************************************************************************)
EXTENDS Integers, Sequences

CONSTANTS
    Parameters,        \* what the node may be started with
    SwitchChannels,    \* parameter switch_channels, "none" for an empty name
    PublishOnStartup,  \* parameter publish_on_startup
    Batteries,         \* the pm_state records the driver may report
    NaN

Statuses == {"UNKNOWN", "DISCHARGING", "CHARGING", "FULL", "FAULT", "SLEEP"}
Float == Int \cup {NaN}

PmAssumption ==
    /\ NaN \notin Int
    /\ SwitchChannels \in Seq(STRING)
    /\ PublishOnStartup \in BOOLEAN
    /\ Batteries \subseteq [status : Statuses, percentage : Float, health : Float,
                            cell_count : Nat]

kMaxCellCount == 16
Drivers == {"generic", "adc", "ina219"}
Channels == {SwitchChannels[k] : k \in 1..Len(SwitchChannels)} \ {"none"}

VARIABLES
    pc,        \* where the node's thread is
    params,    \* the parameters
    dev,       \* dev_: not there, in use, or given back
    battery,   \* the battery's state
    switches,  \* the positions of the power switches
    topic,     \* the status topic's history: QoS(1), transient_local
    reply,     \* the last answer of the switch service
    read       \* history: the state that the last successful reading gave

vars == <<pc, params, dev, battery, switches, topic, reply, read>>

-----------------------------------------------------------------------------
(* Parameters.                                                             *)

\* Underscores are dashes, the case does not matter, and a driver has several names.
normalize_driver(driver) ==
    CASE driver \in {"generic", "GENERIC"}              -> "generic"
      [] driver \in {"adc", "ADC-Linux", "adc_linux"}    -> "adc"
      [] driver \in {"ina219", "INA219", "I2C_INA219"}   -> "ina219"
      [] OTHER                                           -> driver

finite_positive(v) == v # NaN /\ v > 0

\* c.named: neither the instance, the frame, the topic nor the service is "".
validate_config(c) ==
    /\ normalize_driver(c.driver) \in Drivers
    /\ c.named
    /\ \A v \in {c.poll_hz, c.capacity_mah, c.max_voltage, c.min_voltage, c.max_temp} :
          finite_positive(v)
    /\ c.max_voltage > c.min_voltage
    /\ \A v \in {c.warn_voltage, c.crit_voltage} :
          v # NaN /\ v >= c.min_voltage /\ v <= c.max_voltage
    /\ c.warn_voltage >= c.crit_voltage
    /\ Len(SwitchChannels) <= 256
    /\ CASE normalize_driver(c.driver) = "generic" -> c.supplies_given
         [] normalize_driver(c.driver) = "adc"     -> c.device_given /\ finite_positive(c.adc_scale)
         [] normalize_driver(c.driver) = "ina219"  -> c.device_given /\ c.i2c_addr \in 0..127

-----------------------------------------------------------------------------
(* The status.                                                             *)

to_ros_status(status) ==
    CASE status = "DISCHARGING" -> 1
      [] status = "CHARGING"    -> 2
      [] status = "FULL"        -> 3
      [] status = "FAULT"       -> 4
      [] status = "SLEEP"       -> 5
      [] OTHER                  -> 0

\* Mutant: every cell the driver counts is copied.
cells_unbounded(state) == state.cell_count

cells(state) == IF state.cell_count > kMaxCellCount THEN kMaxCellCount ELSE state.cell_count

clamp(v, lo, hi) == IF v < lo THEN lo ELSE IF v > hi THEN hi ELSE v

finite(v) == IF v = NaN THEN 0 ELSE v

to_ros_msg(state) ==
    [status       |-> to_ros_status(state.status),
     percentage   |-> clamp(finite(state.percentage), 0, 100),
     health       |-> finite(state.health),
     cell_count   |-> cells(state) % 256,
     cell_voltages |-> cells(state)]

\* Mutant: only a new status is published.
publish_new_status(rc) ==
    IF rc /\ (topic = <<>> \/ topic[1].status # to_ros_status(battery.status))
    THEN topic' = <<to_ros_msg(battery)>> /\ read' = <<battery>>
    ELSE UNCHANGED <<topic, read>>

\* A reading that fails leaves the topic as it is.
publish_status_snapshot(rc) ==
    IF rc THEN topic' = <<to_ros_msg(battery)>> /\ read' = <<battery>>
          ELSE UNCHANGED <<topic, read>>

-----------------------------------------------------------------------------
(* The node's thread.                                                      *)

Init ==
    /\ pc = "alloc"
    /\ params \in Parameters
    /\ dev = "null"
    /\ battery \in Batteries
    /\ switches = [c \in Channels |-> FALSE]
    /\ topic = <<>> /\ reply = <<>> /\ read = <<>>

\* The publisher goes, and what it retains goes with it.
cleanup_resources ==
    /\ dev' = IF dev = "null" THEN "null" ELSE "freed"
    /\ topic' = <<>>

alloc_device(ok) ==
    /\ pc = "alloc"
    /\ IF validate_config(params) /\ ok
       THEN pc' = "setup" /\ dev' = "open" /\ UNCHANGED topic
       ELSE pc' = "failed" /\ cleanup_resources
    /\ UNCHANGED <<params, battery, switches, reply, read>>

SetupCalls == {"pm_init", "pm_start", "create", "pm_get_state"}

\* pm_init, pm_start, the publisher, the service and the timer; whatever
\* throws is caught, cleaned up and thrown on.
setup(ok) ==
    /\ pc = "setup"
    /\ IF ok["pm_init"] /\ ok["pm_start"] /\ ok["create"]
       THEN /\ pc' = "spin"
            /\ IF PublishOnStartup THEN publish_status_snapshot(ok["pm_get_state"])
                                   ELSE UNCHANGED <<topic, read>>
            /\ UNCHANGED dev
       ELSE /\ pc' = "failed"
            /\ cleanup_resources
            /\ UNCHANGED read
    /\ UNCHANGED <<params, battery, switches, reply>>

poll(rc) ==
    /\ pc = "spin"
    /\ dev # "null"
    /\ publish_status_snapshot(rc)
    /\ UNCHANGED <<pc, params, dev, battery, switches, reply>>

configured(channel) ==
    channel < Len(SwitchChannels) /\ SwitchChannels[channel + 1] # "none"

pm_switch_set(channel, enable, rc) ==
    LET name == SwitchChannels[channel + 1]
    IN  /\ switches' = IF rc THEN [switches EXCEPT ![name] = enable] ELSE switches
        /\ reply' = <<[channel |-> channel, enable |-> enable, success |-> rc]>>

on_set_power_switch(channel, enable, rc) ==
    /\ pc = "spin"
    /\ IF configured(channel) /\ dev # "null"
       THEN pm_switch_set(channel, enable, rc)
       ELSE /\ reply' = <<[channel |-> channel, enable |-> enable, success |-> FALSE]>>
            /\ UNCHANGED switches
    /\ UNCHANGED <<pc, params, dev, battery, topic, read>>

destroy ==
    /\ pc = "spin"
    /\ pc' = "destroyed"
    /\ cleanup_resources
    /\ UNCHANGED <<params, battery, switches, reply, read>>

battery_changes ==
    /\ pc = "spin"
    /\ battery' \in Batteries
    /\ UNCHANGED <<pc, params, dev, switches, topic, reply, read>>

Next ==
    \/ \E ok \in BOOLEAN : alloc_device(ok)
    \/ \E ok \in [SetupCalls -> BOOLEAN] : setup(ok)
    \/ \E rc \in BOOLEAN : poll(rc)
    \/ \E channel \in 0..Len(SwitchChannels), enable, rc \in BOOLEAN :
          on_set_power_switch(channel, enable, rc)
    \/ destroy
    \/ battery_changes

Spec == Init /\ [][Next]_vars

\* The timer keeps firing, and the driver answers some of its readings.
Fairness == SF_vars(poll(TRUE))

-----------------------------------------------------------------------------
(* Properties.                                                             *)

\* The thresholds the driver works with are in order, whatever was configured.
TypeOK ==
    /\ pc \in {"alloc", "setup", "spin", "failed", "destroyed"}
    /\ params \in Parameters
    /\ dev \in {"null", "open", "freed"}
    /\ battery \in Batteries
    /\ switches \in [Channels -> BOOLEAN]
    /\ Len(topic) <= 1 /\ Len(reply) <= 1 /\ Len(read) <= 1
    /\ pc = "spin" => /\ params.min_voltage <= params.crit_voltage
                      /\ params.crit_voltage <= params.warn_voltage
                      /\ params.warn_voltage <= params.max_voltage

\* The driver is called with a device that is open, and every way out, an
\* exception of the constructor included, gives the device back.
GivenBack ==
    /\ pc \in {"setup", "spin"} => dev = "open"
    /\ pc \in {"failed", "destroyed"} => dev # "open"

\* The retained status is the last successful reading, brought into the ranges
\* that PowerStatus.msg documents: no failed reading and no value that is not a
\* number gets on the topic, and as many voltages are sent as are counted.
StatusIsTrue ==
    \A k \in 1..Len(topic) :
        LET msg == topic[k]
            state == read[1]
        IN  /\ msg.percentage \in 0..100
            /\ state.percentage \in 0..100 => msg.percentage = state.percentage
            /\ msg.cell_voltages = msg.cell_count /\ msg.cell_count <= 16
            /\ state.cell_count <= 16 => msg.cell_count = state.cell_count
            /\ msg.status = 0 <=> state.status = "UNKNOWN"

\* An answer of success tells where the switch is: the one that the request's
\* channel names, counted from 0, in the position that was asked for.
AnswerIsTrue ==
    \A k \in 1..Len(reply) :
        reply[k].success =>
            /\ reply[k].channel \in 0..(Len(SwitchChannels) - 1)
            /\ switches[SwitchChannels[reply[k].channel + 1]] = reply[k].enable

\* A change of the battery gets on the topic, though readings may fail.
ChangeIsShown ==
    \A state \in Batteries :
        pc = "spin" /\ battery = state
            ~> pc # "spin" \/ battery # state \/ topic = <<to_ros_msg(state)>>

=============================================================================
