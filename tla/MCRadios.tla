------------------------------ MODULE MCRadios ------------------------------
(***************************************************************************)
(* Constants for model-checking RadioNodes.                                *)
(***************************************************************************)
EXTENDS RadioNodes

Radio(mode, enabled, ap, sta, details) ==
    [mode |-> mode, enabled |-> enabled, ap |-> ap, sta |-> sta, details |-> details]

\* Off, on without a link, on its way to an address, and on another network
\* while it is an access point, too.
mc_Radios ==
    {Radio("UNKNOWN", FALSE, FALSE, "DISCONNECTED", [ssid |-> "none", ip_addr |-> "0.0.0.0"]),
     Radio("STATION", TRUE, FALSE, "DISCONNECTED", [ssid |-> "none", ip_addr |-> "0.0.0.0"]),
     Radio("STATION", TRUE, FALSE, "OBTAINING_IP", [ssid |-> "a", ip_addr |-> "0.0.0.0"]),
     Radio("STATION_AP", TRUE, TRUE, "NET_CONNECTED", [ssid |-> "b", ip_addr |-> "10.0.0.2"])}

\* The default, a filter with a limit, and a limit above every bound.
mc_Requests == {[ssid |-> "none", max_results |-> 0], [ssid |-> "a", max_results |-> 1],
                [ssid |-> "none", max_results |-> 257]}
=============================================================================
