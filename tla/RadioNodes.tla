----------------------------- MODULE RadioNodes -----------------------------
(***************************************************************************)
(* The nodes that report a radio which moves by itself: Modem5gNode and    *)
(* WifiNode.  They are processes of their own and share nothing, so that a *)
(* behaviour of one needs none of the other: `chosen` says which one runs, *)
(* and the other stays where it starts.                                    *)
(***************************************************************************)
EXTENDS Modem5gNode

CONSTANTS  \* of WifiNode
    EnableOnStartup, ScanOnStartup, PeriodicScan, ScanMaxResults, ScanSsid, Requests, Totals,
    Radios

VARIABLES
    chosen,
    wifi_pc, after, library, radio, wifi_msg, wifi_status, scanned, answer, during, wifi_seen

wifiVars == <<wifi_pc, after, library, radio, wifi_msg, wifi_status, scanned, answer, during,
              wifi_seen>>
allVars == <<chosen, vars, wifiVars>>

Wifi == INSTANCE WifiNode
        WITH pc <- wifi_pc, msg <- wifi_msg, status <- wifi_status, seen <- wifi_seen

ASSUME WifiIsConfigured == Wifi!WifiAssumption

-----------------------------------------------------------------------------

\* Where the start is free, the node that does not run starts at one place.
RadiosInit ==
    /\ chosen \in {"modem", "wifi"}
    /\ Init       /\ (chosen # "modem" => modem = [power |-> 0, data |-> 0])
    /\ Wifi!Init  /\ (chosen # "wifi" => radio = CHOOSE r \in Radios : TRUE)

RadiosNext ==
    \/ chosen = "modem" /\ Next /\ UNCHANGED <<chosen, wifiVars>>
    \/ chosen = "wifi" /\ Wifi!Next /\ UNCHANGED <<chosen, vars>>

RadiosSpec == RadiosInit /\ [][RadiosNext]_allVars /\ Fairness /\ Wifi!Fairness

-----------------------------------------------------------------------------
(* Properties.                                                             *)

\* Each node's state has its shape, the modem's active context and the wifi
\* library's lifetime included.
RadioTypes == TypeOK /\ Wifi!TypeOK /\ Wifi!LibraryLifetime

\* See WifiNode: the retained status was true while it was collected.
StatusWasTrue == Wifi!StatusWasTrue

\* See WifiNode: a scan is answered with what is on the topic.
AnswerIsPublished == Wifi!AnswerIsPublished

\* See WifiNode: a link that is lost is shown as lost.
LinkLossIsShown == Wifi!LinkLossIsShown

=============================================================================
