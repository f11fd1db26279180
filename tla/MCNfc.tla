-------------------------------- MODULE MCNfc --------------------------------
(***************************************************************************)
(* Constants for model-checking NfcNode.                                   *)
(***************************************************************************)
EXTENDS NfcNode

Reader == [transport |-> "i2c", named |-> TRUE, poll_period_ms |-> 100, poll_timeout_ms |-> 50,
           i2c_addr |-> 40, cs_pin |-> 0, baud |-> 115200]

mc_Readers == {Reader, [Reader EXCEPT !.i2c_addr = 128], [Reader EXCEPT !.transport = "can"]}
=============================================================================
