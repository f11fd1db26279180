------------------------------ MODULE WifiNode ------------------------------
(***************************************************************************)
(* wifi_node (src/wifi/src/wifi_node.cpp): services that connect,          *)
(* disconnect and scan, and two retained topics, the status and the last   *)
(* scan.  Services and timers share one thread (and api_mutex_); beside it *)
(* the radio changes, also between the two readings of one status: the     *)
(* link's state, which is always asked for, and its details, which the     *)
(* driver has only while there is a link.                                  *)
(*                                                                         *)
(* Scan results are counted; a batch is told apart by its filter.          *)
(***************************************************************************)
EXTENDS Integers, Sequences

CONSTANTS
    EnableOnStartup, ScanOnStartup, PeriodicScan,
    ScanMaxResults,  \* parameter scan_max_results
    ScanSsid,        \* parameter scan_ssid; "none" is the empty text
    Requests,        \* what clients write into ssid and max_results of a scan
    Totals,          \* how many networks a scan may find
    Radios           \* the states the radio may be in

kMaxScanResultsUpperBound == 256

\* The types of the parameter, of requests, and of what the driver counts.
WifiAssumption ==
    /\ ScanMaxResults \in Int
    /\ \A request \in Requests : request.max_results \in Nat
    /\ Totals \subseteq Nat

VARIABLES
    pc,        \* where the node's thread is
    after,     \* where it goes when the snapshot is done
    library,   \* the wifi library: "off" or "on"
    radio,     \* the radio's state
    msg,       \* the status that is being collected, <<>> for none
    status,    \* the status topic's history: QoS(1), transient_local
    scanned,   \* the scan topic's history: QoS(1), transient_local
    answer,    \* the answer of a scan service, until the next handler runs
    during,    \* history: the states of the radio since a snapshot began
    seen       \* history: those up to the publication of `status`

statusVars == <<msg, status, during, seen>>
vars == <<pc, after, library, radio, scanned, answer, statusVars>>

is_sta_connected(sta) == sta \in {"CONNECTED", "OBTAINING_IP", "NET_CONNECTED"}

effective_mode(r) ==
    IF r.mode \in {"STATION", "AP", "STATION_AP"} THEN r.mode
    ELSE IF r.ap THEN "AP"
    ELSE IF r.enabled THEN "STATION" ELSE "UNKNOWN"

NoDetails == [ssid |-> "none", ip_addr |-> "0.0.0.0"]

Smaller(a, b) == IF a < b THEN a ELSE b

-----------------------------------------------------------------------------
(* Snapshots.  Every handler ends with one.                                *)

begin_snapshot(back) ==
    /\ pc' = "state"
    /\ after' = back
    /\ during' = {radio'}
    /\ answer' = <<>>
    /\ UNCHANGED <<msg, status, seen>>

end_snapshot == pc' = after /\ during' = {}

publish(message) == status' = <<message>> /\ seen' = during /\ end_snapshot

\* Mutant: the details of the link are what tells whether there is a link.
read_state_by_info(ok) ==
    /\ pc = "state"
    /\ IF ok /\ is_sta_connected(radio.sta)
       THEN /\ pc' = "info"
            /\ msg' = <<[mode |-> effective_mode(radio), connected |-> TRUE,
                         details |-> NoDetails]>>
            /\ UNCHANGED during
       ELSE end_snapshot /\ UNCHANGED msg
    /\ UNCHANGED <<after, library, radio, scanned, answer, status, seen>>

\* wifi_get_state: if it fails, nothing is published; without a link the
\* status is complete.
read_state(ok) ==
    /\ pc = "state"
    /\ LET connected == is_sta_connected(radio.sta)
           message   == [mode |-> effective_mode(radio), connected |-> connected,
                         details |-> NoDetails]
       IN  \/ ~ok /\ end_snapshot /\ UNCHANGED <<msg, status, seen>>
           \/ /\ ok /\ connected
              /\ pc' = "info" /\ msg' = <<message>>
              /\ UNCHANGED <<status, during, seen>>
           \/ ok /\ ~connected /\ publish(message) /\ UNCHANGED msg
    /\ UNCHANGED <<after, library, radio, scanned, answer>>

\* Mutant: what the last status said stands in for details that cannot be read.
read_info_kept(ok) ==
    /\ pc = "info"
    /\ ok => radio.details # NoDetails
    /\ LET last == IF status = <<>> THEN NoDetails ELSE status[1].details
       IN  publish([msg[1] EXCEPT !.details = IF ok THEN radio.details ELSE last])
    /\ msg' = <<>>
    /\ UNCHANGED <<after, library, radio, scanned, answer>>

\* wifi_sta_get_info, which fails if the link has gone.
read_info(ok) ==
    /\ pc = "info"
    /\ ok => radio.details # NoDetails
    /\ publish([msg[1] EXCEPT !.details = IF ok THEN radio.details ELSE NoDetails])
    /\ msg' = <<>>
    /\ UNCHANGED <<after, library, radio, scanned, answer>>

-----------------------------------------------------------------------------
(* Commands.  ok says which calls of the driver succeed.                   *)

Calls == {"get_state", "wifi_on", "command"}

\* ensure_station_enabled_locked: a radio that is on, in whatever mode, is left
\* alone; otherwise, or if its state cannot be read, wifi_on is called, which may
\* leave the radio in any state in which it is on.
already_on(ok) == ok["get_state"] /\ radio.enabled

ensure_station_enabled(ok) ==
    IF already_on(ok) \/ ~ok["wifi_on"] THEN UNCHANGED radio
    ELSE radio' \in {r \in Radios : r.enabled}

enabled(ok) == already_on(ok) \/ ok["wifi_on"]

resolve_scan_filter(requested_ssid) ==
    IF requested_ssid # "none" THEN requested_ssid ELSE ScanSsid

\* Mutant: the limit of a request is not bounded.
scan_limit_unbounded(requested) == IF requested = 0 THEN ScanMaxResults ELSE requested

effective_scan_limit(requested) ==
    IF requested = 0 THEN ScanMaxResults ELSE Smaller(requested, kMaxScanResultsUpperBound)

\* perform_scan_locked: one batch is published and returned.
perform_scan(request, total, ok) ==
    LET batch == [filter  |-> resolve_scan_filter(request.ssid),
                  results |-> Smaller(total, effective_scan_limit(request.max_results))]
        done  == enabled(ok) /\ ok["command"]
    IN  /\ ensure_station_enabled(ok)
        /\ scanned' = IF done THEN <<batch>> ELSE scanned
        /\ answer' = <<[request |-> request, success |-> done,
                        results |-> IF done THEN batch.results ELSE 0,
                        total_results |-> IF done THEN total ELSE 0]>>

\* The scans of the node itself, whose results go on the topic only.
own_scan(total, ok) ==
    LET results == Smaller(total, effective_scan_limit(ScanMaxResults))
    IN  /\ ensure_station_enabled(ok)
        /\ scanned' = IF enabled(ok) /\ ok["command"]
                      THEN <<[filter |-> resolve_scan_filter("none"), results |-> results]>>
                      ELSE scanned
        /\ answer' = <<>>

on_scan(request, total, ok) ==
    /\ pc = "spin"
    /\ perform_scan(request, total, ok)
    /\ UNCHANGED <<pc, after, library, statusVars>>

publish_periodic_scan(total, ok) ==
    /\ pc = "spin" /\ PeriodicScan
    /\ own_scan(total, ok)
    /\ UNCHANGED <<pc, after, library, statusVars>>

\* What a connection changes, the radio does later; fast_connect and secure of
\* the request are not passed on.
on_connect(ok) ==
    /\ pc = "spin"
    /\ ensure_station_enabled(ok)
    /\ begin_snapshot("spin")
    /\ UNCHANGED <<library, scanned>>

\* An empty ssid is answered at once.
connect_rejected == pc = "spin" /\ UNCHANGED vars

on_disconnect ==
    /\ pc = "spin"
    /\ UNCHANGED radio
    /\ begin_snapshot("spin")
    /\ UNCHANGED <<library, scanned>>

\* The status timer.
publish_status_snapshot ==
    /\ pc = "spin"
    /\ UNCHANGED radio
    /\ begin_snapshot("spin")
    /\ UNCHANGED <<library, scanned>>

-----------------------------------------------------------------------------
(* Construction and destruction.                                           *)

Init ==
    /\ pc = "init" /\ after = "spin"
    /\ library = "off"
    /\ radio \in Radios
    /\ msg = <<>> /\ status = <<>> /\ scanned = <<>> /\ answer = <<>>
    /\ during = {} /\ seen = {}

validate_config == ScanMaxResults \in 1..kMaxScanResultsUpperBound

\* The parameters and wifi_init.
init_library(ok) ==
    /\ pc = "init"
    /\ IF validate_config /\ ok THEN pc' = "enable" /\ library' = "on"
                                ELSE pc' = "failed" /\ UNCHANGED library
    /\ UNCHANGED <<after, radio, scanned, answer, statusVars>>

\* Publishers and services, and the radio.  What throws from here on skips
\* wifi_deinit.  The answer of wifi_sta_auto_reconnect is only logged.
startup(created, ok) ==
    /\ pc = "enable"
    /\ IF EnableOnStartup /\ created THEN ensure_station_enabled(ok) ELSE UNCHANGED radio
    /\ IF created /\ (EnableOnStartup => enabled(ok))
       THEN begin_snapshot("startup_scan")
       ELSE pc' = "failed" /\ UNCHANGED <<after, answer, statusVars>>
    /\ UNCHANGED <<library, scanned>>

startup_scan(total, ok) ==
    /\ pc = "startup_scan"
    /\ pc' = "spin"
    /\ IF ScanOnStartup THEN own_scan(total, ok) ELSE UNCHANGED <<radio, scanned, answer>>
    /\ UNCHANGED <<after, library, statusVars>>

\* The answer of wifi_deinit is only logged; the topics go.
destroy ==
    /\ pc = "spin"
    /\ pc' = "destroyed"
    /\ library' = "off"
    /\ status' = <<>> /\ scanned' = <<>> /\ answer' = <<>>
    /\ UNCHANGED <<after, radio, msg, during, seen>>

\* Whatever moves the radio; a snapshot under way may have read it or not.
radio_changes ==
    /\ library = "on"
    /\ radio' \in Radios
    /\ during' = IF during = {} THEN {} ELSE during \cup {radio'}
    /\ UNCHANGED <<pc, after, library, scanned, answer, msg, status, seen>>

-----------------------------------------------------------------------------

Collect == \E ok \in BOOLEAN : read_state(ok) \/ read_info(ok)

Construct ==
    \/ \E ok \in BOOLEAN : init_library(ok)
    \/ \E created \in BOOLEAN, ok \in [Calls -> BOOLEAN] : startup(created, ok)
    \/ \E total \in Totals, ok \in [Calls -> BOOLEAN] : startup_scan(total, ok)

Serve ==
    \/ connect_rejected \/ on_disconnect
    \/ \E ok \in [Calls -> BOOLEAN] :
          \/ on_connect(ok)
          \/ \E total \in Totals :
                \/ publish_periodic_scan(total, ok)
                \/ \E request \in Requests : on_scan(request, total, ok)

Next == Construct \/ Collect \/ Serve \/ publish_status_snapshot \/ destroy \/ radio_changes

Spec == Init /\ [][Next]_vars

\* The timer keeps firing, the driver's calls return, and the driver tells the
\* link's state some of the times it is asked.
Fairness == /\ WF_vars(Collect)
            /\ WF_vars(publish_status_snapshot)
            /\ SF_vars(read_state(TRUE))

-----------------------------------------------------------------------------
(* Properties.                                                             *)

\* Details are asked for after a state with a link only, and the history of a
\* snapshot is kept as long as it runs.
TypeOK ==
    /\ pc \in {"init", "enable", "startup_scan", "spin", "state", "info", "failed", "destroyed"}
    /\ after \in {"startup_scan", "spin"}
    /\ library \in {"off", "on"}
    /\ radio \in Radios
    /\ msg # <<>> <=> pc = "info"
    /\ Len(status) <= 1 /\ Len(scanned) <= 1 /\ Len(answer) <= 1
    /\ during \subseteq Radios /\ seen \subseteq Radios
    /\ pc \in {"state", "info"} <=> during # {}

\* The driver is called between wifi_init and wifi_deinit only, and a node that
\* was constructed does not leave the library on.
LibraryLifetime ==
    /\ pc \in {"enable", "startup_scan", "spin", "state", "info"} => library = "on"
    /\ pc = "destroyed" => library = "off"

\* The retained status was true while it was collected: the mode and the link
\* are those of one moment, the details are empty or those of a network that
\* the radio was on in that time, and a status without a link has no details,
\* though the link may come, go or move between the two readings.
StatusWasTrue ==
    \A k \in 1..Len(status) :
        LET details == status[k].details
        IN  /\ \E r \in seen : /\ status[k].mode = effective_mode(r)
                               /\ status[k].connected = is_sta_connected(r.sta)
            /\ details # NoDetails => status[k].connected /\ \E r \in seen : details = r.details

\* A link that is lost is shown as lost, or comes back: losing the details with
\* the link does not keep the node from publishing.
LinkLossIsShown ==
    pc = "spin" /\ ~is_sta_connected(radio.sta)
        ~> \/ is_sta_connected(radio.sta) \/ pc = "destroyed"
           \/ status # <<>> /\ ~status[1].connected

\* A client that scanned is answered with the very batch that is on the topic,
\* which is no longer than the client, or else the parameter, allows, and never
\* longer than the total; a failed scan is answered with an empty batch.
AnswerIsPublished ==
    \A k \in 1..Len(answer) :
        LET req == answer[k].request
        IN  IF ~answer[k].success THEN answer[k].results = 0
            ELSE /\ answer[k].results <= answer[k].total_results
                 /\ answer[k].results <= kMaxScanResultsUpperBound
                 /\ answer[k].results <= IF req.max_results = 0 THEN ScanMaxResults
                                         ELSE req.max_results
                 /\ scanned = <<[filter  |-> IF req.ssid = "none" THEN ScanSsid ELSE req.ssid,
                                  results |-> answer[k].results]>>

=============================================================================
