---------------------------- MODULE Modem5gNode ----------------------------
(***************************************************************************)
(* modem_5g_node: nine services that pass requests on to the modem, and    *)
(* the status topic, whose snapshot is put together from one reading after *)
(* the other (src/5g/src/modem_5g_node.cpp).                               *)
(*                                                                         *)
(* Services and timer share one thread.  What runs beside them is the      *)
(* modem: its power and data states change by themselves, by the commands  *)
(* it is given, also those of on_send_at, which leaves no trace in the     *)
(* node, and between two readings of one snapshot.                         *)
(***************************************************************************)
EXTENDS Integers, Sequences

CONSTANTS
    DefaultCid, PublishOnStartup, PowerOnOnStartup, ApplyDefaultPdpOnStartup,
    StartDataOnStartup,
    RequestedCids,           \* what clients write into cid, a byte
    PowerStates, DataStates  \* 0 is OFF and DISCONNECTED

kMinCid == 1
kMaxCid == 20
Connected == 2  \* MODEM_5G_DATA_CONNECTED

ASSUME Modem5gAssumption ==
    /\ DefaultCid \in kMinCid..kMaxCid
    /\ {PublishOnStartup, PowerOnOnStartup, ApplyDefaultPdpOnStartup,
        StartDataOnStartup} \subseteq BOOLEAN
    /\ RequestedCids \subseteq 0..255
    /\ 0 \in PowerStates /\ 0 \in DataStates

VARIABLES
    pc,                  \* where the node's thread is
    dev,                 \* dev_: not there, in use, or given back
    flight_mode_enabled, \* flight_mode_enabled_
    active_cid,          \* active_cid_
    basic_info_cached,   \* basic_info_cached_
    cached_basic_info,   \* cached_basic_info_: "none" (an empty text) or read from the modem
    msg,                 \* the snapshot that is being collected
    retained,            \* the status topic's history: QoS(1), transient_local
    modem,               \* the modem's power and data state
    seen,                \* history: the states the modem had during the last snapshot
    dialled              \* history: see DialledCidShown

node == <<dev, flight_mode_enabled, active_cid, basic_info_cached, cached_basic_info>>
vars == <<pc, node, msg, retained, modem, seen, dialled>>

\* pdp_context and ip_info are the context they were read for, 0 when empty.
Status == [snapshot_ok : BOOLEAN, basic_info : {"none", "info"}, power_state : PowerStates,
           data_state : DataStates, flight_mode_enabled : BOOLEAN, active_cid : 0..kMaxCid,
           pdp_context : 0..kMaxCid, ip_info : 0..kMaxCid]

EmptyStatus == [snapshot_ok |-> TRUE, basic_info |-> "none", power_state |-> 0, data_state |-> 0,
                flight_mode_enabled |-> FALSE, active_cid |-> 0,
                pdp_context |-> 0, ip_info |-> 0]

Init ==
    /\ pc = "alloc"
    /\ dev = "null"
    /\ flight_mode_enabled = FALSE
    /\ active_cid = DefaultCid
    /\ basic_info_cached = FALSE
    /\ cached_basic_info = "none"
    /\ msg = EmptyStatus
    /\ retained = <<>>
    /\ modem \in [power : PowerStates, data : DataStates]
    /\ seen = [power |-> {}, data |-> {}]
    /\ dialled = 0

\* Whatever moves the modem; a snapshot under way may have read it or not.
modem_changes ==
    /\ modem' \in [power : PowerStates, data : DataStates]
    /\ seen' = IF pc \in {"basic", "data"}
               THEN [power |-> seen.power \cup {modem'.power},
                     data  |-> seen.data \cup {modem'.data}]
               ELSE seen
    /\ UNCHANGED <<pc, node, msg, retained, dialled>>

resolve_cid(requested) == IF requested = 0 THEN DefaultCid ELSE requested

\* Mutant: the upper bound is not checked.
valid_cid_from_below(cid) == cid >= kMinCid

valid_cid(cid) == cid >= kMinCid /\ cid <= kMaxCid

\* publish_status_snapshot, to the end of which the handlers run.
begin_snapshot ==
    /\ pc' = "basic"
    /\ seen' = [power |-> {modem.power}, data |-> {modem.data}]
    /\ UNCHANGED <<msg, retained, modem>>

\* Mutant: a failing read fills the cache with an empty answer.
refresh_blindly(ok) ==
    /\ basic_info_cached' = TRUE
    /\ cached_basic_info' = IF ok THEN "info" ELSE "none"

refresh_basic_info_locked(ok) ==
    /\ basic_info_cached' = (basic_info_cached \/ ok)
    /\ cached_basic_info' = IF ok THEN "info" ELSE cached_basic_info

\* Mutant: when modem_5g_deinit fails, the device is not freed.
cleanup_gives_up(deinit_ok) ==
    dev' = IF dev # "null" /\ deinit_ok THEN "freed" ELSE dev

\* The result of modem_5g_deinit is only logged.
cleanup_resources(deinit_ok) == dev' = IF dev = "null" THEN dev ELSE "freed"

-----------------------------------------------------------------------------
(* Construction.                                                           *)

\* The parameters are read and checked, and the device is allocated.
alloc(ok) ==
    /\ pc = "alloc"
    /\ pc' = IF ok THEN "init" ELSE "failed"
    /\ dev' = IF ok THEN "open" ELSE "null"
    /\ UNCHANGED <<flight_mode_enabled, active_cid, basic_info_cached, cached_basic_info,
                   msg, retained, modem, seen, dialled>>

StartupCalls == {"init", "basic_info", "power_on", "set_pdp_context", "data_start"}

startup_fails(ok) ==
    \/ ~ok["init"]
    \/ PowerOnOnStartup /\ ~ok["power_on"]
    \/ ApplyDefaultPdpOnStartup /\ ~ok["set_pdp_context"]
    \/ StartDataOnStartup /\ ~ok["data_start"]

\* A step that fails throws, and the catch block cleans up; reading the basic
\* information may fail.
startup(ok, deinit_ok) ==
    /\ pc = "init"
    /\ IF startup_fails(ok)
       THEN /\ pc' = "failed"
            /\ cleanup_resources(deinit_ok)
            /\ UNCHANGED <<flight_mode_enabled, active_cid, basic_info_cached,
                           cached_basic_info, msg, retained, modem, seen, dialled>>
       ELSE /\ refresh_basic_info_locked(ok["basic_info"])
            /\ dialled' = IF StartDataOnStartup THEN DefaultCid ELSE 0
            /\ IF PublishOnStartup THEN begin_snapshot
               ELSE pc' = "idle" /\ UNCHANGED <<msg, retained, modem, seen>>
            /\ UNCHANGED <<dev, flight_mode_enabled, active_cid>>

-----------------------------------------------------------------------------
(* collect_status_snapshot_locked.                                         *)

Readings == {"basic_info", "power_state", "network"}

\* The basic information, if it is not there yet, and the readings up to the
\* signal; "network" stands for the SIM, the registration and the signal.
collect_basic(ok) ==
    /\ pc = "basic"
    /\ IF basic_info_cached THEN UNCHANGED <<basic_info_cached, cached_basic_info>>
       ELSE refresh_basic_info_locked(ok["basic_info"])
    /\ msg' = [EmptyStatus EXCEPT
                  !.snapshot_ok = basic_info_cached' /\ ok["power_state"] /\ ok["network"],
                  !.basic_info = IF basic_info_cached' THEN cached_basic_info' ELSE "none",
                  !.power_state = IF ok["power_state"] THEN modem.power ELSE 0,
                  !.flight_mode_enabled = flight_mode_enabled]
    /\ pc' = "data"
    /\ UNCHANGED <<dev, flight_mode_enabled, active_cid, retained, modem, seen, dialled>>

DataReadings == {"data_state", "pdp_context", "ip_info"}

\* The snapshot is completed, and published: the context is asked for in any
\* case, the address only when the data state that was read says there is one.
publish_with_data(ok, good) ==
    LET cid  == resolve_cid(active_cid)
        data == IF ok["data_state"] THEN modem.data ELSE 0
    IN  /\ pc = "data"
        /\ msg' = [msg EXCEPT !.snapshot_ok = good,
                              !.data_state = data,
                              !.active_cid = cid,
                              !.pdp_context = IF ok["pdp_context"] THEN cid ELSE 0,
                              !.ip_info = IF data = Connected /\ ok["ip_info"] THEN cid ELSE 0]
        /\ retained' = <<msg'>>
        /\ pc' = "idle"
        /\ UNCHANGED <<node, modem, seen, dialled>>

\* Mutant: a failing read of the data state is not noted.
collect_data_unnoted(ok) == publish_with_data(ok, msg.snapshot_ok)

\* A failing read of the data state is noted; one of the context or of the
\* address is not, and leaves the field empty.
collect_data(ok) == publish_with_data(ok, msg.snapshot_ok /\ ok["data_state"])

\* The status timer.
publish_status_snapshot ==
    /\ pc = "idle"
    /\ begin_snapshot
    /\ UNCHANGED <<node, dialled>>

-----------------------------------------------------------------------------
(* The services.  rc says whether the driver reports success.              *)

\* on_power_on, on_power_off and on_reset differ in the driver's call only.
on_power(rc) ==
    /\ pc = "idle"
    /\ flight_mode_enabled' = (flight_mode_enabled /\ ~rc)
    /\ begin_snapshot
    /\ UNCHANGED <<dev, active_cid, basic_info_cached, cached_basic_info, dialled>>

on_set_flight_mode(enable, rc) ==
    /\ pc = "idle"
    /\ flight_mode_enabled' = IF rc THEN enable ELSE flight_mode_enabled
    /\ begin_snapshot
    /\ UNCHANGED <<dev, active_cid, basic_info_cached, cached_basic_info, dialled>>

\* A radio technology that is known; the answer is not kept.
on_set_prefer_rat ==
    /\ pc = "idle"
    /\ begin_snapshot
    /\ UNCHANGED <<node, dialled>>

\* A request that names no context, type or technology there is, or whose
\* texts are too long: an answer at once, no call, no status.
request_rejected == pc = "idle" /\ UNCHANGED vars

activate(cid) ==
    /\ active_cid' = cid
    /\ UNCHANGED <<dev, flight_mode_enabled, basic_info_cached, cached_basic_info>>

keep_dialled(cid) == dialled' = IF dialled = cid THEN dialled ELSE 0

on_set_pdp_context(requested, rc) ==
    LET cid == resolve_cid(requested)
    IN  /\ pc = "idle" /\ valid_cid(cid)
        /\ IF rc THEN activate(cid) /\ keep_dialled(cid) ELSE UNCHANGED <<node, dialled>>
        /\ begin_snapshot

\* Mutant: the context becomes the active one before the answer is there.
on_get_pdp_context_early(requested, rc) ==
    LET cid == resolve_cid(requested)
    IN  /\ pc = "idle" /\ valid_cid(cid)
        /\ activate(cid)
        /\ IF rc THEN keep_dialled(cid) ELSE UNCHANGED dialled
        /\ begin_snapshot

\* Asking for a context makes it the active one.
on_get_pdp_context(requested, rc) ==
    LET cid == resolve_cid(requested)
    IN  /\ pc = "idle" /\ valid_cid(cid)
        /\ IF rc THEN activate(cid) /\ keep_dialled(cid) ELSE UNCHANGED <<node, dialled>>
        /\ begin_snapshot

on_data_call(requested, start, rc) ==
    LET cid == resolve_cid(requested)
    IN  /\ pc = "idle" /\ valid_cid(cid)
        /\ IF rc THEN activate(cid) /\ dialled' = (IF start THEN cid ELSE 0)
           ELSE UNCHANGED <<node, dialled>>
        /\ begin_snapshot

destroy(deinit_ok) ==
    /\ pc = "idle"
    /\ pc' = "destroyed"
    /\ cleanup_resources(deinit_ok)
    /\ UNCHANGED <<flight_mode_enabled, active_cid, basic_info_cached, cached_basic_info,
                   msg, retained, modem, seen, dialled>>

-----------------------------------------------------------------------------

Construct == \/ \E ok \in BOOLEAN : alloc(ok)
             \/ \E ok \in [StartupCalls -> BOOLEAN], deinit_ok \in BOOLEAN :
                   startup(ok, deinit_ok)

Collect == \/ \E ok \in [Readings -> BOOLEAN] : collect_basic(ok)
           \/ \E ok \in [DataReadings -> BOOLEAN] : collect_data(ok)

Serve ==
    \/ request_rejected
    \/ on_set_prefer_rat
    \/ \E rc \in BOOLEAN :
          \/ on_power(rc)
          \/ \E enable \in BOOLEAN : on_set_flight_mode(enable, rc)
          \/ \E requested \in RequestedCids :
                \/ on_set_pdp_context(requested, rc)
                \/ on_get_pdp_context(requested, rc)
                \/ \E start \in BOOLEAN : on_data_call(requested, start, rc)

Next == \/ Construct \/ Collect \/ Serve \/ publish_status_snapshot \/ modem_changes
        \/ \E deinit_ok \in BOOLEAN : destroy(deinit_ok)

Spec == Init /\ [][Next]_vars

InfoAnswered == \E ok \in [Readings -> BOOLEAN] : ok["basic_info"] /\ collect_basic(ok)

\* The timer keeps firing, every driver call returns, and the modem answers
\* the question for its basic information some of the times.
Fairness == /\ WF_vars(Collect)
            /\ WF_vars(publish_status_snapshot)
            /\ SF_vars(InfoAnswered)

-----------------------------------------------------------------------------
(* Properties.                                                             *)

\* The active context is one there is, whatever clients ask for.
TypeOK ==
    /\ pc \in {"alloc", "init", "idle", "basic", "data", "failed", "destroyed"}
    /\ dev \in {"null", "open", "freed"}
    /\ flight_mode_enabled \in BOOLEAN
    /\ active_cid \in kMinCid..kMaxCid
    /\ basic_info_cached \in BOOLEAN
    /\ cached_basic_info \in {"none", "info"}
    /\ msg \in Status
    /\ retained \in Seq(Status) /\ Len(retained) <= 1
    /\ modem \in [power : PowerStates, data : DataStates]
    /\ seen \in [power : SUBSET PowerStates, data : SUBSET DataStates]
    /\ dialled \in {0} \cup kMinCid..kMaxCid

\* The driver is called with a device that is open, and every way out, be it
\* a construction that fails, gives the device back.
DeviceLifetime ==
    /\ pc \in {"init", "idle", "basic", "data"} => dev = "open"
    /\ pc \in {"failed", "destroyed"} => dev # "open"

\* A status that calls itself ok shows a power and a data state that the modem
\* had while the status was collected, and its basic information, never what a
\* failed reading of them leaves.  It may lack its context and its address, whose
\* failed readings are not noted; what it has of them, ok or not, is that of the
\* context it names, and an address stands beside a connected data state only.
HonestStatus ==
    pc = "idle" =>
        \A k \in 1..Len(retained) :
            /\ retained[k].snapshot_ok => /\ retained[k].power_state \in seen.power
                                         /\ retained[k].data_state \in seen.data
                                         /\ retained[k].basic_info = "info"
            /\ {retained[k].pdp_context, retained[k].ip_info} \subseteq {0, retained[k].active_cid}
            /\ retained[k].ip_info # 0 => retained[k].data_state = Connected

\* The status shows the context of the data connection that was started last,
\* until that is stopped or another context is successfully set, queried,
\* started or stopped: no failing or rejected request moves it.
DialledCidShown ==
    pc = "idle" /\ dialled # 0 =>
        \A k \in 1..Len(retained) : retained[k].active_cid = dialled

\* The basic information gets on the topic and stays there for good, though
\* it is read only until it is cached, and reading it may fail at first.
InfoStays ==
    <>[](\/ pc \in {"alloc", "init", "failed", "destroyed"}
         \/ Len(retained) = 1 /\ retained[1].basic_info = "info")

=============================================================================
