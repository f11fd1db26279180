---------------------------- MODULE EventStream ----------------------------
(***************************************************************************)
(* What a node with an event topic promises: the events its driver reports *)
(* are published one by one, each once, in the order in which they were    *)
(* reported, and as long as the node is open every one of them is.         *)
(***************************************************************************)
EXTENDS Naturals, Sequences

CONSTANT Event

VARIABLES
    produced,    \* the events reported so far
    delivered,   \* the events published so far
    open         \* the node has not been shut down

vars == <<produced, delivered, open>>

Init == produced = <<>> /\ delivered = <<>> /\ open = TRUE

Produce(e) ==
    /\ produced' = Append(produced, e)
    /\ UNCHANGED <<delivered, open>>

Deliver ==
    /\ open
    /\ Len(delivered) < Len(produced)
    /\ delivered' = Append(delivered, produced[Len(delivered) + 1])
    /\ UNCHANGED <<produced, open>>

Close ==
    /\ open' = FALSE
    /\ UNCHANGED <<produced, delivered>>

Next == (\E e \in Event : Produce(e)) \/ Deliver \/ Close

Spec == Init /\ [][Next]_vars /\ WF_vars(Deliver)

=============================================================================
