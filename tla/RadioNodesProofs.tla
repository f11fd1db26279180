-------------------------- MODULE RadioNodesProofs --------------------------
(***************************************************************************)
(* Proofs about Modem5gNode, about WifiNode and, from both, about          *)
(* RadioNodes, in which one of the two runs.                               *)
(***************************************************************************)
EXTENDS RadioNodes, TLAPS

-----------------------------------------------------------------------------
(* The modem: typing, the device's life, and what the retained status      *)
(* tells of the modem and of the node.                                     *)

Collecting == pc \in {"basic", "data"}

\* The history of a snapshot under way holds the modem's present state, and
\* what the snapshot has read so far; only an answer of the modem is cached.
SnapshotInv ==
    /\ Collecting => modem.power \in seen.power /\ modem.data \in seen.data
    /\ basic_info_cached => cached_basic_info = "info"
    /\ pc = "data" /\ msg.snapshot_ok => /\ msg.power_state \in seen.power
                                        /\ msg.basic_info = "info"

\* A context that was dialled and has not been left is the active one.
ContextInv == dialled # 0 => dialled = active_cid

\* Before the construction has ended nothing was published or requested.
StartInv ==
    /\ pc = "alloc" => dev = "null"
    /\ pc \in {"alloc", "init"} => retained = <<>> /\ active_cid = DefaultCid

ModemInv == /\ TypeOK /\ DeviceLifetime /\ HonestStatus /\ DialledCidShown
        /\ SnapshotInv /\ ContextInv /\ StartInv

-----------------------------------------------------------------------------

\* The active context is one there is, so it stands for itself in a status.
LEMMA ActiveCid ==
  ASSUME TypeOK
  PROVE  resolve_cid(active_cid) = active_cid
<1>1. active_cid \in 1..20
  BY DEF TypeOK, kMinCid, kMaxCid
<1>2. active_cid # 0
  BY <1>1
<1>3. QED
  BY <1>2 DEF resolve_cid

\* A requested context that passes valid_cid is one there is.
LEMMA RequestedCid ==
  ASSUME NEW requested \in RequestedCids, valid_cid(resolve_cid(requested))
  PROVE  resolve_cid(requested) \in kMinCid..kMaxCid
  BY Modem5gAssumption DEF resolve_cid, valid_cid, kMinCid, kMaxCid

\* A status that is published at the end of a snapshot is the whole history
\* of its topic.
LEMMA OneStatus ==
  ASSUME NEW m \in Status
  PROVE  <<m>> \in Seq(Status) /\ Len(<<m>>) = 1 /\ <<m>>[1] = m
  OBVIOUS

\* The status before anything is read has a status's type.
LEMMA EmptyType == EmptyStatus \in Status
  BY Modem5gAssumption DEF EmptyStatus, Status, kMaxCid

\* Filling in either half of a status keeps its type, whatever is filled in.
LEMMA BasicType ==
  ASSUME NEW m \in Status, NEW ok \in BOOLEAN, NEW flight \in BOOLEAN,
         NEW info \in {"none", "info"}, NEW power \in PowerStates
  PROVE  [m EXCEPT !.snapshot_ok = ok, !.basic_info = info, !.power_state = power,
                   !.flight_mode_enabled = flight] \in Status
  BY DEF Status

LEMMA DataType ==
  ASSUME NEW m \in Status, NEW ok \in BOOLEAN, NEW data \in DataStates,
         NEW cid \in 0..kMaxCid, NEW context \in 0..kMaxCid, NEW address \in 0..kMaxCid
  PROVE  [m EXCEPT !.snapshot_ok = ok, !.data_state = data, !.active_cid = cid,
                   !.pdp_context = context, !.ip_info = address] \in Status
  BY DEF Status

\* A service moves the memory in one of two ways, both of which the status that
\* it asks for can show: the flight mode, or the active context together with
\* what was dialled.
LEMMA ServiceInv ==
  ASSUME ModemInv, pc = "idle", begin_snapshot,
         dev' = dev, basic_info_cached' = basic_info_cached,
         cached_basic_info' = cached_basic_info,
         flight_mode_enabled' \in BOOLEAN,
         active_cid' \in kMinCid..kMaxCid, dialled' \in {0, active_cid'}
  PROVE  ModemInv'
<1> USE DEF ModemInv, TypeOK, begin_snapshot
<1>1. modem.power \in PowerStates /\ modem.data \in DataStates
  OBVIOUS
<1>2. seen'.power = {modem.power} /\ seen'.data = {modem.data}
  OBVIOUS
<1>3. TypeOK'
  BY <1>1
<1>4. SnapshotInv' /\ ContextInv' /\ StartInv'
  BY <1>2 DEF SnapshotInv, ContextInv, StartInv, Collecting
<1>5. DeviceLifetime' /\ HonestStatus' /\ DialledCidShown'
  BY DEF DeviceLifetime, HonestStatus, DialledCidShown
<1>6. QED
  BY <1>3, <1>4, <1>5

\* Every service, and the status timer, preserves the invariant.
LEMMA ServeInv ==
  ASSUME ModemInv, Serve \/ publish_status_snapshot
  PROVE  ModemInv'
<1>1. CASE request_rejected
  BY <1>1 DEF request_rejected, vars, node, ModemInv, TypeOK, DeviceLifetime, HonestStatus,
              DialledCidShown, SnapshotInv, ContextInv, StartInv, Collecting
<1>2. /\ flight_mode_enabled \in BOOLEAN /\ active_cid \in kMinCid..kMaxCid
      /\ dialled \in {0, active_cid}
  BY DEF ModemInv, TypeOK, ContextInv
<1>3. CASE on_set_prefer_rat \/ publish_status_snapshot
  BY <1>2, <1>3, ServiceInv DEF on_set_prefer_rat, publish_status_snapshot, node
<1>4. ASSUME NEW rc \in BOOLEAN, on_power(rc)
      PROVE  ModemInv'
  BY <1>2, <1>4, ServiceInv DEF on_power
<1>5. ASSUME NEW rc \in BOOLEAN, NEW enable \in BOOLEAN, on_set_flight_mode(enable, rc)
      PROVE  ModemInv'
  BY <1>2, <1>5, ServiceInv DEF on_set_flight_mode
<1>6. ASSUME NEW rc \in BOOLEAN, NEW requested \in RequestedCids,
             \/ on_set_pdp_context(requested, rc)
             \/ on_get_pdp_context(requested, rc)
             \/ \E start \in BOOLEAN : on_data_call(requested, start, rc)
      PROVE  ModemInv'
  <2>1. pc = "idle" /\ valid_cid(resolve_cid(requested)) /\ begin_snapshot
    BY <1>6 DEF on_set_pdp_context, on_get_pdp_context, on_data_call
  <2>2. resolve_cid(requested) \in kMinCid..kMaxCid
    BY <2>1, RequestedCid
  <2>3. /\ active_cid' \in {active_cid, resolve_cid(requested)}
        /\ dialled' \in {0, active_cid'}
        /\ UNCHANGED <<dev, flight_mode_enabled, basic_info_cached, cached_basic_info>>
    BY <1>2, <1>6 DEF on_set_pdp_context, on_get_pdp_context, on_data_call, activate,
                      keep_dialled, node
  <2>4. QED
    BY <1>2, <2>1, <2>2, <2>3, ServiceInv
<1>7. QED
  BY <1>1, <1>3, <1>4, <1>5, <1>6 DEF Serve

-----------------------------------------------------------------------------

\* Constructing preserves the invariant: every failing step gives the device
\* back, and the node starts with the default context.
LEMMA ConstructInv ==
  ASSUME ModemInv, Construct
  PROVE  ModemInv'
<1> USE Modem5gAssumption DEF ModemInv, TypeOK, DeviceLifetime, SnapshotInv, ContextInv, StartInv,
                              Collecting
<1>1. ASSUME NEW ok \in BOOLEAN, alloc(ok)
      PROVE  ModemInv'
  BY <1>1 DEF alloc, HonestStatus, DialledCidShown
<1>2. ASSUME NEW ok \in [StartupCalls -> BOOLEAN], NEW deinit_ok \in BOOLEAN,
             startup(ok, deinit_ok)
      PROVE  ModemInv'
  <2>1. pc = "init" /\ dev = "open" /\ retained = <<>> /\ active_cid = DefaultCid
    BY <1>2 DEF startup
  <2>2. CASE startup_fails(ok)
    BY <1>2, <2>1, <2>2 DEF startup, cleanup_resources, HonestStatus, DialledCidShown
  <2>3. CASE ~startup_fails(ok)
    <3>1. ok["basic_info"] \in BOOLEAN
      BY DEF StartupCalls
    <3>2. /\ UNCHANGED <<dev, flight_mode_enabled, active_cid>>
          /\ dialled' \in {0, active_cid'}
          /\ refresh_basic_info_locked(ok["basic_info"])
      BY <1>2, <2>1, <2>3 DEF startup
    <3>3. /\ basic_info_cached' \in BOOLEAN /\ cached_basic_info' \in {"none", "info"}
          /\ basic_info_cached' => cached_basic_info' = "info"
      BY <3>1, <3>2 DEF refresh_basic_info_locked
    <3>4. CASE PublishOnStartup
      <4>1. begin_snapshot
        BY <1>2, <2>3, <3>4 DEF startup
      <4>2. modem.power \in PowerStates /\ modem.data \in DataStates
        OBVIOUS
      <4>3. QED
        BY <2>1, <3>2, <3>3, <4>1, <4>2 DEF begin_snapshot, HonestStatus, DialledCidShown
    <3>5. CASE ~PublishOnStartup
      <4>1. pc' = "idle" /\ UNCHANGED <<msg, retained, modem, seen>>
        BY <1>2, <2>3, <3>5 DEF startup
      <4>2. QED
        BY <2>1, <3>2, <3>3, <4>1 DEF HonestStatus, DialledCidShown
    <3>6. QED
      BY <3>4, <3>5
  <2>4. QED
    BY <2>2, <2>3
<1>3. QED
  BY <1>1, <1>2 DEF Construct

\* Collecting preserves the invariant: what the finished snapshot shows was
\* read from the modem while it was collected, or is not called ok.
LEMMA CollectInv ==
  ASSUME ModemInv, Collect
  PROVE  ModemInv'
<1> USE Modem5gAssumption DEF ModemInv, TypeOK, SnapshotInv, ContextInv, StartInv, Collecting
<1>1. ASSUME NEW ok \in [Readings -> BOOLEAN], collect_basic(ok)
      PROVE  ModemInv'
  <2>1. /\ ok["basic_info"] \in BOOLEAN /\ ok["power_state"] \in BOOLEAN
        /\ ok["network"] \in BOOLEAN
    BY DEF Readings
  <2>2. /\ basic_info_cached' \in BOOLEAN /\ cached_basic_info' \in {"none", "info"}
        /\ basic_info_cached' => cached_basic_info' = "info"
    BY <1>1, <2>1 DEF collect_basic, refresh_basic_info_locked
  <2>3. /\ msg'.snapshot_ok = (basic_info_cached' /\ ok["power_state"] /\ ok["network"])
        /\ msg'.basic_info = IF basic_info_cached' THEN cached_basic_info' ELSE "none"
        /\ msg'.power_state = IF ok["power_state"] THEN modem.power ELSE 0
    BY <1>1, EmptyType DEF collect_basic, EmptyStatus
  <2>4. msg' \in Status
    <3> DEFINE good  == basic_info_cached' /\ ok["power_state"] /\ ok["network"]
               info  == IF basic_info_cached' THEN cached_basic_info' ELSE "none"
               power == IF ok["power_state"] THEN modem.power ELSE 0
    <3>1. msg' = [EmptyStatus EXCEPT !.snapshot_ok = good, !.basic_info = info,
                                     !.power_state = power,
                                     !.flight_mode_enabled = flight_mode_enabled]
      BY <1>1 DEF collect_basic
    <3>2. /\ good \in BOOLEAN /\ flight_mode_enabled \in BOOLEAN
          /\ info \in {"none", "info"} /\ power \in PowerStates
      BY <2>2
    <3> HIDE DEF good, info, power
    <3>3. QED
      BY <3>1, <3>2, EmptyType, BasicType
  <2>5. SnapshotInv'
    BY <1>1, <2>1, <2>2, <2>3 DEF collect_basic
  <2>6. QED
    BY <1>1, <2>2, <2>4, <2>5 DEF collect_basic, DeviceLifetime, HonestStatus, DialledCidShown
<1>2. ASSUME NEW ok \in [DataReadings -> BOOLEAN], collect_data(ok)
      PROVE  ModemInv'
  <2> DEFINE good    == msg.snapshot_ok /\ ok["data_state"]
             data    == IF ok["data_state"] THEN modem.data ELSE 0
             context == IF ok["pdp_context"] THEN active_cid ELSE 0
             address == IF data = Connected /\ ok["ip_info"] THEN active_cid ELSE 0
  <2>1. active_cid \in 0..kMaxCid /\ resolve_cid(active_cid) = active_cid
    BY ActiveCid DEF kMinCid, kMaxCid
  <2>2. /\ msg' \in Status
        /\ msg'.snapshot_ok = good
        /\ msg'.basic_info = msg.basic_info /\ msg'.power_state = msg.power_state
        /\ msg'.data_state = data
        /\ msg'.active_cid = active_cid
        /\ msg'.pdp_context = context /\ msg'.ip_info = address
    <3>1. msg' = [msg EXCEPT !.snapshot_ok = good, !.data_state = data,
                             !.active_cid = active_cid,
                             !.pdp_context = context, !.ip_info = address]
      BY <1>2, <2>1 DEF collect_data, publish_with_data
    <3>2. modem.data \in DataStates /\ msg.snapshot_ok \in BOOLEAN /\ ok["data_state"] \in BOOLEAN
      BY DEF Status, DataReadings
    <3>3. /\ good \in BOOLEAN /\ data \in DataStates
          /\ context \in 0..kMaxCid /\ address \in 0..kMaxCid
      BY <2>1, <3>2 DEF kMaxCid
    <3>4. msg' \in Status
      <4> HIDE DEF good, data, context, address
      <4>1. QED
        BY <2>1, <3>1, <3>3, DataType, Zenon
    <3>5. QED
      <4> HIDE DEF good, data, context, address
      <4>1. QED
        BY <3>1, <3>4 DEF Status
  <2>3. retained' \in Seq(Status) /\ Len(retained') = 1 /\ retained'[1] = msg'
    BY <1>2, <2>2, OneStatus DEF collect_data, publish_with_data
  <2>4. pc = "data" /\ pc' = "idle" /\ UNCHANGED <<node, modem, seen, dialled>>
    BY <1>2 DEF collect_data, publish_with_data
  <2>5. TypeOK'
    BY <2>2, <2>3, <2>4 DEF node
  <2>6. HonestStatus'
    <3>1. msg'.snapshot_ok => /\ msg'.power_state \in seen'.power
                              /\ msg'.data_state \in seen'.data
                              /\ msg'.basic_info = "info"
      BY <2>2, <2>4
    <3>2. /\ {msg'.pdp_context, msg'.ip_info} \subseteq {0, msg'.active_cid}
          /\ msg'.ip_info # 0 => msg'.data_state = Connected
      BY <2>2
    <3>3. \A k \in 1..Len(retained') : retained'[k] = msg'
      BY <2>3
    <3>4. QED
      BY <3>1, <3>2, <3>3 DEF HonestStatus
  <2>7. DialledCidShown'
    BY <2>2, <2>3, <2>4 DEF DialledCidShown, node
  <2>8. QED
    BY <2>4, <2>5, <2>6, <2>7 DEF node, DeviceLifetime
<1>3. QED
  BY <1>1, <1>2 DEF Collect

\* The invariant holds at the start,
LEMMA ModemStart == Init => ModemInv
<1> SUFFICES ASSUME Init PROVE ModemInv
  OBVIOUS
<1>1. TypeOK
  <2>1. <<>> \in Seq(Status) /\ Len(<<>>) <= 1
    OBVIOUS
  <2>2. DefaultCid \in kMinCid..kMaxCid
    BY Modem5gAssumption
  <2>3. QED
    BY <2>1, <2>2, EmptyType DEF Init, TypeOK
<1>2. DeviceLifetime /\ HonestStatus /\ DialledCidShown
  BY DEF Init, DeviceLifetime, HonestStatus, DialledCidShown
<1>3. SnapshotInv /\ ContextInv /\ StartInv
  BY DEF Init, SnapshotInv, ContextInv, StartInv, Collecting
<1>4. QED
  BY <1>1, <1>2, <1>3 DEF ModemInv

\* and is preserved by every step.
LEMMA ModemStep == ModemInv /\ [Next]_vars => ModemInv'
<1> SUFFICES ASSUME ModemInv, [Next]_vars PROVE ModemInv'
  OBVIOUS
<1> USE DEF ModemInv, TypeOK, DeviceLifetime, HonestStatus, DialledCidShown, SnapshotInv,
            ContextInv, StartInv, Collecting
<1>1. CASE modem_changes
  <2>1. modem' \in [power : PowerStates, data : DataStates]
    BY <1>1 DEF modem_changes
  <2>2. CASE Collecting
    <3>1. seen' = [power |-> seen.power \cup {modem'.power},
                   data  |-> seen.data \cup {modem'.data}]
      BY <1>1, <2>2 DEF modem_changes
    <3>2. QED
      BY <1>1, <2>1, <2>2, <3>1 DEF modem_changes, node
  <2>3. CASE ~Collecting
    BY <1>1, <2>1, <2>3 DEF modem_changes, node
  <2>4. QED
    BY <2>2, <2>3
<1>2. CASE \E deinit_ok \in BOOLEAN : destroy(deinit_ok)
  BY <1>2 DEF destroy, cleanup_resources
<1>3. CASE UNCHANGED vars
  BY <1>3 DEF vars, node
<1>4. QED
  BY <1>1, <1>2, <1>3, ConstructInv, CollectInv, ServeInv DEF Next

-----------------------------------------------------------------------------
(* The wifi node: that the retained status was true while it was           *)
(* collected, the library's lifetime, and the answers to scans.            *)


\* The history of a snapshot under way holds the radio's present state, and the
\* half of a status that waits for its details shows a moment with a link.
WifiSnapshotInv ==
    /\ wifi_pc \in {"state", "info"} => radio \in during
    /\ wifi_pc = "info" =>
          \E r \in during :
             /\ Wifi!is_sta_connected(r.sta)
             /\ wifi_msg = <<[mode |-> Wifi!effective_mode(r),
                              connected |-> Wifi!is_sta_connected(r.sta),
                              details |-> Wifi!NoDetails]>>

\* Nothing runs with parameters that validate_config rejects, nor before
\* wifi_init.
WifiStartInv ==
    wifi_pc \in {"enable", "startup_scan", "spin", "state", "info"} => Wifi!validate_config

WifiInv == /\ Wifi!TypeOK /\ Wifi!LibraryLifetime /\ Wifi!StatusWasTrue
           /\ WifiSnapshotInv /\ WifiStartInv

-----------------------------------------------------------------------------

\* Whatever wifi_on does, the radio is in a state it may be in.
LEMMA RadioType ==
  ASSUME NEW ok, radio \in Radios, Wifi!ensure_station_enabled(ok)
  PROVE  radio' \in Radios
  BY DEF Wifi!ensure_station_enabled

\* Beginning a snapshot after a handler that left the topics alone preserves the
\* invariant: its history begins with the radio as the handler left it.
LEMMA WifiBeginInv ==
  ASSUME WifiInv, NEW back \in {"startup_scan", "spin"}, Wifi!begin_snapshot(back),
         wifi_pc \in {"enable", "spin"}, radio' \in Radios, UNCHANGED <<library, scanned>>
  PROVE  WifiInv'
<1> USE DEF WifiInv, Wifi!TypeOK, Wifi!begin_snapshot
<1>1. /\ wifi_pc' = "state" /\ after' = back /\ during' = {radio'} /\ answer' = <<>>
      /\ UNCHANGED <<library, scanned, wifi_msg, wifi_status, wifi_seen>> /\ wifi_msg = <<>>
  OBVIOUS
<1>2. Wifi!TypeOK'
  BY <1>1
<1>3. QED
  BY <1>1, <1>2 DEF Wifi!LibraryLifetime, Wifi!StatusWasTrue, WifiSnapshotInv, WifiStartInv,
                    Wifi!validate_config

\* A scan touches the radio, its own topic and the answer, none of which a
\* status tells of.
LEMMA WifiScanInv ==
  ASSUME WifiInv, wifi_pc \in {"startup_scan", "spin"}, wifi_pc' = "spin", radio' \in Radios,
         UNCHANGED <<after, library, Wifi!statusVars>>, Len(scanned') <= 1, Len(answer') <= 1
  PROVE  WifiInv'
  BY DEF WifiInv, Wifi!TypeOK, Wifi!LibraryLifetime, Wifi!StatusWasTrue, WifiSnapshotInv,
         WifiStartInv, Wifi!statusVars, Wifi!validate_config

\* What a topic of depth one holds after a publication.
LEMMA OneSample == \A x : Len(<<x>>) = 1 /\ <<x>>[1] = x
  OBVIOUS

\* So the scan topic and the answer hold one batch at most.
LEMMA ScanLengths ==
  ASSUME Len(scanned) <= 1, NEW total, NEW ok
  PROVE  /\ Wifi!own_scan(total, ok) => Len(scanned') <= 1 /\ Len(answer') <= 1
         /\ \A request : Wifi!perform_scan(request, total, ok)
                            => Len(scanned') <= 1 /\ Len(answer') <= 1
<1>1. /\ Len(<<>>) <= 1
      /\ \A x : Len(<<x>>) <= 1
  BY OneSample
<1>2. Wifi!own_scan(total, ok) => Len(scanned') <= 1 /\ Len(answer') <= 1
  BY <1>1, Zenon DEF Wifi!own_scan
<1>3. \A request : Wifi!perform_scan(request, total, ok) => Len(scanned') <= 1 /\ Len(answer') <= 1
  BY <1>1, Zenon DEF Wifi!perform_scan
<1>4. QED
  BY <1>2, <1>3

\* Filling in the details of a link leaves the rest of a status.
LEMMA FilledDetails ==
  ASSUME NEW s, NEW m, NEW c, NEW d, NEW e, s = [mode |-> m, connected |-> c, details |-> d]
  PROVE  [s EXCEPT !.details = e] = [mode |-> m, connected |-> c, details |-> e]
  OBVIOUS

\* Both readings preserve the invariant, whatever the radio did between them.
LEMMA WifiCollectInv ==
  ASSUME WifiInv, Wifi!Collect
  PROVE  WifiInv'
<1> USE DEF WifiInv, Wifi!TypeOK, WifiSnapshotInv, Wifi!end_snapshot, Wifi!publish
<1>1. ASSUME NEW ok \in BOOLEAN, Wifi!read_state(ok)
      PROVE  WifiInv'
  <2> DEFINE message == [mode |-> Wifi!effective_mode(radio),
                         connected |-> Wifi!is_sta_connected(radio.sta),
                         details |-> Wifi!NoDetails]
  <2>1. radio \in during /\ wifi_pc = "state" /\ wifi_msg = <<>>
        /\ UNCHANGED <<after, library, radio, scanned, answer>>
    BY <1>1 DEF Wifi!read_state
  <2>2. CASE ~ok
    BY <1>1, <2>1, <2>2 DEF Wifi!read_state, Wifi!LibraryLifetime, Wifi!StatusWasTrue,
                            WifiStartInv, Wifi!validate_config
  <2>3. CASE ok /\ Wifi!is_sta_connected(radio.sta)
    <3>1. /\ wifi_pc' = "info" /\ wifi_msg' = <<message>>
          /\ UNCHANGED <<wifi_status, during, wifi_seen>>
      BY <1>1, <2>3 DEF Wifi!read_state
    <3>2. WifiSnapshotInv'
      BY <2>1, <2>3, <3>1
    <3>3. QED
      BY <2>1, <3>1, <3>2 DEF Wifi!LibraryLifetime, Wifi!StatusWasTrue, WifiStartInv,
                              Wifi!validate_config
  <2>4. CASE ok /\ ~Wifi!is_sta_connected(radio.sta)
    <3>1. /\ wifi_status' = <<message>> /\ wifi_seen' = during /\ wifi_pc' = after
          /\ during' = {} /\ UNCHANGED wifi_msg
      BY <1>1, <2>4 DEF Wifi!read_state
    <3>2. Wifi!StatusWasTrue'
      BY <2>1, <3>1 DEF Wifi!StatusWasTrue
    <3>3. QED
      BY <2>1, <3>1, <3>2 DEF Wifi!LibraryLifetime, WifiStartInv, Wifi!validate_config
  <2>5. QED
    BY <2>2, <2>3, <2>4
<1>2. ASSUME NEW ok \in BOOLEAN, Wifi!read_info(ok)
      PROVE  WifiInv'
  <2>1. radio \in during /\ wifi_pc = "info" /\ UNCHANGED <<after, library, radio, scanned, answer>>
    BY <1>2 DEF Wifi!read_info
  <2>2. PICK r \in during : /\ Wifi!is_sta_connected(r.sta)
                            /\ wifi_msg = <<[mode |-> Wifi!effective_mode(r),
                                             connected |-> Wifi!is_sta_connected(r.sta),
                                             details |-> Wifi!NoDetails]>>
    BY <2>1
  <2> DEFINE details == IF ok THEN radio.details ELSE Wifi!NoDetails
  <2>3. /\ wifi_status' = <<[mode |-> Wifi!effective_mode(r),
                              connected |-> Wifi!is_sta_connected(r.sta),
                              details |-> details]>>
        /\ wifi_seen' = during /\ wifi_pc' = after /\ during' = {} /\ wifi_msg' = <<>>
    <3>1. [wifi_msg[1] EXCEPT !.details = details]
          = [mode |-> Wifi!effective_mode(r), connected |-> Wifi!is_sta_connected(r.sta),
             details |-> details]
      <4>1. wifi_msg[1] = [mode |-> Wifi!effective_mode(r),
                           connected |-> Wifi!is_sta_connected(r.sta),
                           details |-> Wifi!NoDetails]
        BY <2>2, OneSample, Zenon
      <4> HIDE DEF details, WifiInv, Wifi!TypeOK, WifiSnapshotInv
      <4>2. QED
        BY <4>1, FilledDetails
    <3>2. QED
      BY <1>2, <3>1 DEF Wifi!read_info
  <2>4. Wifi!StatusWasTrue'
    <3>1. /\ Len(wifi_status') = 1 /\ wifi_status'[1].mode = Wifi!effective_mode(r)
          /\ wifi_status'[1].connected = Wifi!is_sta_connected(r.sta)
          /\ wifi_status'[1].details = details
      BY <2>3
    <3>2. wifi_status'[1].connected
      BY <2>2, <3>1
    <3>3. details # Wifi!NoDetails => \E q \in during : details = q.details
      BY <2>1
    <3> HIDE DEF details, WifiInv, Wifi!TypeOK, WifiSnapshotInv
    <3>4. \E q \in wifi_seen' : /\ wifi_status'[1].mode = Wifi!effective_mode(q)
                                /\ wifi_status'[1].connected = Wifi!is_sta_connected(q.sta)
      BY <2>3, <3>1
    <3>5. \A k \in 1..Len(wifi_status') : k = 1
      BY <3>1
    <3>6. wifi_status'[1].details # Wifi!NoDetails
             => /\ wifi_status'[1].connected
                /\ \E q \in wifi_seen' : wifi_status'[1].details = q.details
      BY <2>3, <3>1, <3>2, <3>3
    <3>7. QED
      BY <3>4, <3>5, <3>6 DEF Wifi!StatusWasTrue
  <2>5. QED
    BY <2>1, <2>3, <2>4 DEF Wifi!LibraryLifetime, WifiStartInv, Wifi!validate_config
<1>3. QED
  BY <1>1, <1>2 DEF Wifi!Collect

\* Every other step preserves the invariant.
LEMMA WifiOtherInv ==
  ASSUME WifiInv, \/ Wifi!Construct \/ Wifi!Serve \/ Wifi!publish_status_snapshot
                  \/ Wifi!destroy \/ Wifi!radio_changes
  PROVE  WifiInv'
<1>0. radio \in Radios /\ Len(scanned) <= 1 /\ after \in {"startup_scan", "spin"}
  BY DEF WifiInv, Wifi!TypeOK
<1>1. ASSUME NEW ok \in BOOLEAN, Wifi!init_library(ok)
      PROVE  WifiInv'
  BY <1>1 DEF Wifi!init_library, WifiInv, Wifi!TypeOK, Wifi!LibraryLifetime,
              Wifi!StatusWasTrue, WifiSnapshotInv, WifiStartInv, Wifi!statusVars,
              Wifi!validate_config
<1>2. ASSUME NEW created \in BOOLEAN, NEW ok \in [Wifi!Calls -> BOOLEAN], Wifi!startup(created, ok)
      PROVE  WifiInv'
  <2>1. wifi_pc = "enable" /\ radio' \in Radios /\ UNCHANGED <<library, scanned>>
    BY <1>0, <1>2, RadioType DEF Wifi!startup
  <2>2. CASE Wifi!begin_snapshot("startup_scan")
    BY <2>1, <2>2, WifiBeginInv
  <2>3. CASE wifi_pc' = "failed" /\ UNCHANGED <<after, answer, Wifi!statusVars>>
    BY <2>1, <2>3 DEF WifiInv, Wifi!TypeOK, Wifi!LibraryLifetime, Wifi!StatusWasTrue,
                      WifiSnapshotInv, WifiStartInv, Wifi!statusVars
  <2>4. QED
    BY <1>2, <2>2, <2>3 DEF Wifi!startup
<1>3. ASSUME NEW total \in Totals, NEW ok \in [Wifi!Calls -> BOOLEAN],
             Wifi!startup_scan(total, ok) \/ Wifi!publish_periodic_scan(total, ok)
      PROVE  WifiInv'
  <2>1. /\ wifi_pc \in {"startup_scan", "spin"} /\ wifi_pc' = "spin"
        /\ UNCHANGED <<after, library, Wifi!statusVars>>
        /\ Wifi!own_scan(total, ok) \/ UNCHANGED <<radio, scanned, answer>>
    BY <1>3 DEF Wifi!startup_scan, Wifi!publish_periodic_scan
  <2>2. radio' \in Radios
    BY <1>0, <2>1, RadioType DEF Wifi!own_scan
  <2>3. Len(scanned') <= 1 /\ Len(answer') <= 1
    BY <1>0, <2>1, ScanLengths DEF WifiInv, Wifi!TypeOK
  <2>4. QED
    BY <2>1, <2>2, <2>3, WifiScanInv
<1>4. ASSUME NEW request \in Requests, NEW total \in Totals, NEW ok \in [Wifi!Calls -> BOOLEAN],
             Wifi!on_scan(request, total, ok)
      PROVE  WifiInv'
  <2>1. /\ wifi_pc = "spin" /\ wifi_pc' = "spin" /\ UNCHANGED <<after, library, Wifi!statusVars>>
        /\ Wifi!perform_scan(request, total, ok)
    BY <1>4 DEF Wifi!on_scan
  <2>2. radio' \in Radios
    BY <1>0, <2>1, RadioType DEF Wifi!perform_scan
  <2>3. Len(scanned') <= 1 /\ Len(answer') <= 1
    BY <1>0, <2>1, ScanLengths
  <2>4. QED
    BY <2>1, <2>2, <2>3, WifiScanInv
<1>5. ASSUME NEW ok \in [Wifi!Calls -> BOOLEAN],
             Wifi!on_connect(ok) \/ Wifi!on_disconnect \/ Wifi!publish_status_snapshot
      PROVE  WifiInv'
  <2>1. /\ wifi_pc = "spin" /\ Wifi!begin_snapshot("spin") /\ UNCHANGED <<library, scanned>>
        /\ Wifi!ensure_station_enabled(ok) \/ UNCHANGED radio
    BY <1>5 DEF Wifi!on_connect, Wifi!on_disconnect, Wifi!publish_status_snapshot
  <2>2. radio' \in Radios
    BY <1>0, <2>1, RadioType
  <2>3. QED
    BY <2>1, <2>2, WifiBeginInv
<1>6. CASE Wifi!connect_rejected
  BY <1>6 DEF Wifi!connect_rejected, Wifi!vars, Wifi!statusVars, WifiInv, Wifi!TypeOK,
              Wifi!LibraryLifetime, Wifi!StatusWasTrue, WifiSnapshotInv, WifiStartInv
<1>7. CASE Wifi!destroy
  BY <1>7 DEF Wifi!destroy, WifiInv, Wifi!TypeOK, Wifi!LibraryLifetime, Wifi!StatusWasTrue,
              WifiSnapshotInv, WifiStartInv
<1>8. CASE Wifi!radio_changes
  BY <1>8 DEF Wifi!radio_changes, WifiInv, Wifi!TypeOK, Wifi!LibraryLifetime,
              Wifi!StatusWasTrue, WifiSnapshotInv, WifiStartInv, Wifi!validate_config
<1>9. \E ok : ok \in [Wifi!Calls -> BOOLEAN]
  <2>1. [c \in Wifi!Calls |-> TRUE] \in [Wifi!Calls -> BOOLEAN]
    OBVIOUS
  <2>2. QED
    BY <2>1
<1>10. QED
  BY <1>1, <1>2, <1>3, <1>4, <1>5, <1>6, <1>7, <1>8, <1>9 DEF Wifi!Construct, Wifi!Serve

\* The invariant holds at the start and is preserved by every step.
LEMMA WifiStart == Wifi!Init => WifiInv
BY DEF Wifi!Init, WifiInv, Wifi!TypeOK, Wifi!LibraryLifetime, Wifi!StatusWasTrue,
       WifiSnapshotInv, WifiStartInv

LEMMA WifiStep == WifiInv /\ [Wifi!Next]_wifiVars => WifiInv'
<1> SUFFICES ASSUME WifiInv, [Wifi!Next]_wifiVars PROVE WifiInv'
  OBVIOUS
<1>1. CASE UNCHANGED wifiVars
  BY <1>1 DEF wifiVars, WifiInv, Wifi!TypeOK, Wifi!LibraryLifetime, Wifi!StatusWasTrue,
              WifiSnapshotInv, WifiStartInv, Wifi!validate_config
<1>2. QED
  BY <1>1, WifiCollectInv, WifiOtherInv DEF Wifi!Next

-----------------------------------------------------------------------------
(* The answers to scans, for which the parameters must have been valid.    *)

\* What a client gets is bounded by its request or, if that names no limit, by
\* the parameter, and by the upper bound in any case.
LEMMA ScanLimit ==
  ASSUME Wifi!validate_config, NEW request \in Requests, NEW total \in Totals
  PROVE  LET limit   == Wifi!effective_scan_limit(request.max_results)
             results == Wifi!Smaller(total, limit)
         IN  /\ results <= total
             /\ results <= Wifi!kMaxScanResultsUpperBound
             /\ results <= IF request.max_results = 0 THEN ScanMaxResults
                           ELSE request.max_results
<1>1. request.max_results \in Nat /\ total \in Nat /\ ScanMaxResults \in 1..256
  BY WifiIsConfigured DEF Wifi!WifiAssumption, Wifi!validate_config,
                          Wifi!kMaxScanResultsUpperBound
<1>2. QED
  BY <1>1 DEF Wifi!effective_scan_limit, Wifi!Smaller, Wifi!kMaxScanResultsUpperBound

\* A scan service answers with what it publishes, or with nothing.
LEMMA ScanAnswer ==
  ASSUME Wifi!validate_config, NEW request \in Requests, NEW total \in Totals, NEW ok,
         Wifi!perform_scan(request, total, ok)
  PROVE  Wifi!AnswerIsPublished'
<1> DEFINE results == Wifi!Smaller(total, Wifi!effective_scan_limit(request.max_results))
           done    == Wifi!enabled(ok) /\ ok["command"]
           batch   == [filter |-> Wifi!resolve_scan_filter(request.ssid), results |-> results]
           reply   == [request |-> request, success |-> done,
                       results |-> IF done THEN results ELSE 0,
                       total_results |-> IF done THEN total ELSE 0]
<1>1. answer' = <<reply>> /\ scanned' = IF done THEN <<batch>> ELSE scanned
  BY Zenon DEF Wifi!perform_scan
<1>2. Len(answer') = 1 /\ answer'[1] = reply
  BY <1>1, OneSample, Zenon
<1> HIDE DEF results, done
<1>3. /\ answer'[1].request = request /\ answer'[1].success = done
      /\ answer'[1].results = IF done THEN results ELSE 0
      /\ answer'[1].total_results = IF done THEN total ELSE 0
  BY <1>2
<1>4. /\ results <= total /\ results <= Wifi!kMaxScanResultsUpperBound
      /\ results <= IF request.max_results = 0 THEN ScanMaxResults ELSE request.max_results
  BY ScanLimit DEF results
<1>5. batch = [filter |-> IF request.ssid = "none" THEN ScanSsid ELSE request.ssid,
               results |-> results]
  BY DEF Wifi!resolve_scan_filter
<1>6. \A k \in 1..Len(answer') : k = 1
  BY <1>2
<1> HIDE DEF batch, reply
<1>7. ~answer'[1].success => answer'[1].results = 0
  BY <1>3
<1>8. answer'[1].success => scanned' = <<batch>> /\ answer'[1].results = results
                            /\ answer'[1].total_results = total
  BY <1>1, <1>3
<1>9. QED
  BY <1>3, <1>4, <1>5, <1>6, <1>7, <1>8 DEF Wifi!AnswerIsPublished

\* A client that scanned is answered with the very batch on the topic, within
\* the limits of its request and of the node, for every number of networks.
LEMMA WifiAnswerStep ==
  ASSUME WifiInv, Wifi!AnswerIsPublished, [Wifi!Next]_wifiVars
  PROVE  Wifi!AnswerIsPublished'
<1>1. ASSUME answer' = answer, scanned' = scanned PROVE Wifi!AnswerIsPublished'
  BY <1>1 DEF Wifi!AnswerIsPublished
<1>2. ASSUME answer' = <<>> PROVE Wifi!AnswerIsPublished'
  BY <1>2 DEF Wifi!AnswerIsPublished
<1>3. CASE Wifi!Construct
  BY <1>1, <1>2, <1>3 DEF Wifi!Construct, Wifi!init_library, Wifi!startup, Wifi!startup_scan,
                          Wifi!begin_snapshot, Wifi!own_scan
<1>4. CASE Wifi!Collect
  BY <1>1, <1>4 DEF Wifi!Collect, Wifi!read_state, Wifi!read_info
<1>5. CASE Wifi!Serve
  <2>1. ASSUME NEW request \in Requests, NEW total \in Totals,
               NEW ok \in [Wifi!Calls -> BOOLEAN], Wifi!on_scan(request, total, ok)
        PROVE  Wifi!AnswerIsPublished'
    <3>1. Wifi!validate_config /\ Wifi!perform_scan(request, total, ok)
      BY <2>1 DEF Wifi!on_scan, WifiInv, WifiStartInv
    <3>2. QED
      BY <3>1, ScanAnswer
  <2>2. CASE Wifi!connect_rejected
    BY <1>1, <2>2 DEF Wifi!connect_rejected, Wifi!vars
  <2>3. CASE Wifi!on_disconnect
    BY <1>2, <2>3 DEF Wifi!on_disconnect, Wifi!begin_snapshot
  <2>4. ASSUME NEW ok \in [Wifi!Calls -> BOOLEAN], Wifi!on_connect(ok)
        PROVE  Wifi!AnswerIsPublished'
    BY <1>2, <2>4 DEF Wifi!on_connect, Wifi!begin_snapshot
  <2>5. ASSUME NEW total \in Totals, NEW ok \in [Wifi!Calls -> BOOLEAN],
               Wifi!publish_periodic_scan(total, ok)
        PROVE  Wifi!AnswerIsPublished'
    BY <1>2, <2>5 DEF Wifi!publish_periodic_scan, Wifi!own_scan
  <2>6. QED
    BY <1>5, <2>1, <2>2, <2>3, <2>4, <2>5 DEF Wifi!Serve
<1>6. CASE Wifi!publish_status_snapshot
  BY <1>2, <1>6 DEF Wifi!publish_status_snapshot, Wifi!begin_snapshot
<1>7. CASE Wifi!destroy
  BY <1>2, <1>7 DEF Wifi!destroy
<1>8. CASE Wifi!radio_changes
  BY <1>1, <1>8 DEF Wifi!radio_changes
<1>9. CASE UNCHANGED wifiVars
  BY <1>1, <1>9 DEF wifiVars
<1>10. QED
  BY <1>3, <1>4, <1>5, <1>6, <1>7, <1>8, <1>9 DEF Wifi!Next

-----------------------------------------------------------------------------
(* Both nodes.                                                             *)

RadiosInv == ModemInv /\ WifiInv /\ Wifi!AnswerIsPublished

\* The node that does not run stays where it is, so what each node preserves
\* holds whichever of them runs.
THEOREM RadiosInvariance == RadiosSpec => []RadiosInv
<1>1. RadiosInit => RadiosInv
  BY ModemStart, WifiStart DEF RadiosInit, RadiosInv, Wifi!Init, Wifi!AnswerIsPublished
<1>2. RadiosInv /\ [RadiosNext]_allVars => RadiosInv'
  <2>1. [RadiosNext]_allVars => [Next]_vars /\ [Wifi!Next]_wifiVars
    BY DEF RadiosNext, allVars
  <2>2. QED
    BY <2>1, ModemStep, WifiStep, WifiAnswerStep DEF RadiosInv
<1>3. QED
  BY <1>1, <1>2, PTL DEF RadiosSpec

\* Types are kept: the modem's active context stays within its bounds whatever
\* clients ask for, and the wifi library is on whenever its functions are called
\* and off after the node.
THEOREM TypesAreKept == RadiosSpec => []RadioTypes
BY RadiosInvariance, PTL DEF RadiosInv, ModemInv, WifiInv, RadioTypes

\* The modem's driver is called with an open device only, and every way out of
\* the node gives the device back.
THEOREM DeviceIsGivenBack == RadiosSpec => []DeviceLifetime
BY RadiosInvariance, PTL DEF RadiosInv, ModemInv

\* A status that calls itself ok tells what power and data state the modem had
\* while the status was collected, however the modem changes between the readings
\* and whichever of them fail; its context and its address, which may be missing
\* from any status, are never those of a context that it does not name.
THEOREM StatusIsHonest == RadiosSpec => []HonestStatus
BY RadiosInvariance, PTL DEF RadiosInv, ModemInv

\* The status shows the context that was dialled, for every default and every
\* set of requests.
THEOREM DialledContextIsShown == RadiosSpec => []DialledCidShown
BY RadiosInvariance, PTL DEF RadiosInv, ModemInv

\* Whatever the radio does between the two readings, the retained status shows
\* one moment's mode and link, and details only with a link and of that time.
THEOREM RetainedStatusWasTrue == RadiosSpec => []StatusWasTrue
BY RadiosInvariance, PTL DEF RadiosInv, WifiInv, StatusWasTrue

\* A client that scanned is answered with the batch that is retained, within
\* the limit asked for, whatever the scan finds.
THEOREM AnswersArePublished == RadiosSpec => []AnswerIsPublished
BY RadiosInvariance, PTL DEF RadiosInv, AnswerIsPublished

=============================================================================
