------------------------------- MODULE MCLed -------------------------------
(***************************************************************************)
(* Constants for model-checking LedNode.                                   *)
(***************************************************************************)
EXTENDS LedNode

Cmd(id, color, mode, period, on, count) ==
    [led_id |-> id, color |-> color, brightness |-> 128, mode |-> mode,
     period_ms |-> period, on_ms |-> on, count |-> count]

\* Commands for LED 1: periods that the tick divides, does not divide and
\* exceeds; an on time above the period; black and lit static colours; and
\* commands that are rejected.  Commands for LED 2: one of each mode.
mc_Effects ==
    {Cmd(1, "lit", "BLINK", 75, 25, 3), Cmd(1, "lit", "BLINK", 100, 300, 2),
     Cmd(1, "black", "BLINK", 1, 0, 255), Cmd(1, "lit", "BREATH", 3, 0, 0),
     Cmd(1, "black", "STATIC", 0, 0, 0),
     Cmd(1, "lit", "BLINK", 0, 1, 1), Cmd(1, "lit", "invalid", 1, 1, 1),
     Cmd(7, "lit", "STATIC", 0, 0, 0),
     Cmd(N, "lit", "STATIC", 0, 0, 0), Cmd(N, "lit", "BLINK", 175, 75, 0),
     Cmd(N, "lit", "BREATH", 1, 0, 0)}

mc_TwoLeds ==
    {Cmd(id, "lit", mode, 4, 2, 2) : id \in Leds, mode \in {"STATIC", "BLINK"}}

mc_OddBreath == {Cmd(1, "lit", "BREATH", 511, 0, 0)}
=============================================================================
