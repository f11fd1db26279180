----------------------------- MODULE MiscIoNode -----------------------------
(***************************************************************************)
(* misc_io_node (src/misc_io/src/misc_io_node.cpp): every input has a      *)
(* monitor thread in the misc_io library, which calls on_input_event and   *)
(* so enqueue_event under event_mutex_; the node's thread drains the queue *)
(* and publishes all states in its timer, and handles commands.  The push  *)
(* and the swap hold event_mutex_ throughout, so each is one action        *)
(* (KeyNode shows the same queue with the mutex).  api_mutex_ is taken by  *)
(* the command callback, the state timer and the destructor, none of which *)
(* runs beside another, and by no monitor thread, so it never waits.       *)
(*                                                                         *)
(* An event is the input and its edge's number: odd edges are ACTIVE, even *)
(* ones INACTIVE, and only that is on the wire.                            *)
(***************************************************************************)
EXTENDS Naturals, Sequences

CONSTANTS
    N,          \* number of configured ios
    Inputs,     \* those with dir = INPUT
    MaxEdges    \* bound: edges of each input

Ios     == 1..N
Outputs == Ios \ Inputs
Event   == Inputs \X (1..MaxEdges)

ASSUME MiscIoAssumption == N \in Nat /\ Inputs \subseteq Ios /\ MaxEdges \in Nat

VARIABLES
    main,         \* what the node's thread does
    devs,         \* ios whose misc_dev is allocated
    contexts,     \* ios whose IoContext exists
    event_queue,  \* event_queue_
    local_queue,  \* local_queue of drain_events
    published,    \* misc_io/events
    retained,     \* misc_io/state: the samples a late subscriber gets
    shown,        \* misc_io/state: the last sample of each io, or "none"
    edges,        \* edges of each input's line; odd: active
    driven,       \* whether each output's line is active
    monitor,      \* each input's monitor thread: "wait" or "callback"
    reported,     \* the edge that each monitor thread reported last
    sampled       \* history: the edge at each input's last reading, {} when misc_io_get failed

nodeVars == <<main, devs, contexts, local_queue, published, retained, shown, sampled>>
lineVars == <<edges, driven>>
vars == <<nodeVars, lineVars, event_queue, monitor, reported>>

IsActive(edge) == edge % 2 = 1

Init ==
    /\ main = "construct"
    /\ devs = {} /\ contexts = {}
    /\ event_queue = <<>> /\ local_queue = <<>> /\ published = <<>>
    /\ retained = <<>>
    /\ shown = [i \in Ios |-> "none"]
    /\ edges = [i \in Inputs |-> 0]
    /\ driven = [i \in Outputs |-> FALSE]
    /\ monitor = [i \in Inputs |-> "wait"]
    /\ reported = [i \in Inputs |-> 0]
    /\ sampled = [i \in Inputs |-> {}]

-----------------------------------------------------------------------------
(* Publishing states.                                                      *)

active(i) == IF i \in Inputs THEN IsActive(edges[i]) ELSE driven[i]

label(b) == IF b THEN "active" ELSE "inactive"

\* KeepLast(n), with n the number of ios.
kept(samples) ==
    IF Len(samples) <= N THEN samples
    ELSE SubSeq(samples, Len(samples) - N + 1, Len(samples))

\* Mutant: the loop ends at the first misc_io_get that fails.
publish_until_failure(readable) ==
    LET ok == {i \in Ios : \A j \in 1..i : j \in readable}
    IN  /\ retained' = kept(retained \o SelectSeq([i \in Ios |-> <<i, label(active(i))>>],
                                                  LAMBDA s : s[1] \in ok))
        /\ shown' = [i \in Ios |-> IF i \in ok THEN label(active(i)) ELSE shown[i]]
        /\ sampled' = [i \in Inputs |-> IF i \in ok THEN {edges[i]} ELSE {}]

\* publish_all_states: a sample of every io whose misc_io_get succeeds.
publish_all_states(readable) ==
    /\ retained' = kept(retained \o SelectSeq([i \in Ios |-> <<i, label(active(i))>>],
                                              LAMBDA s : s[1] \in readable))
    /\ shown' = [i \in Ios |-> IF i \in readable THEN label(active(i)) ELSE shown[i]]
    /\ sampled' = [i \in Inputs |-> IF i \in readable THEN {edges[i]} ELSE {}]

-----------------------------------------------------------------------------
(* The node's thread: construction.                                        *)

\* misc_io_alloc succeeds, and an input's monitor thread may call back at once;
\* or it fails, the constructor's handler cleans up and the exception goes on.
register_io(i) ==
    /\ main = "construct" /\ devs = 1..(i - 1)
    /\ \/ /\ devs' = devs \cup {i}
          /\ contexts' = contexts \cup {i}
          /\ main' = main
       \/ main' = "cleanup" /\ UNCHANGED <<devs, contexts>>
    /\ UNCHANGED <<local_queue, published, retained, shown, sampled, lineVars,
                   event_queue, monitor, reported>>

Constructed(readable) ==
    /\ main = "construct" /\ devs = Ios
    /\ publish_all_states(readable)
    /\ main' = "spin"
    /\ UNCHANGED <<devs, contexts, local_queue, published, lineVars,
                   event_queue, monitor, reported>>

-----------------------------------------------------------------------------
(* The node's thread: callbacks.                                           *)

\* Mutant: the queue is copied, not swapped.
drain_copy ==
    /\ main = "spin"
    /\ local_queue' = event_queue
    /\ main' = IF event_queue = <<>> THEN "states" ELSE "drain"
    /\ UNCHANGED <<devs, contexts, event_queue, published, retained, shown, sampled,
                   lineVars, monitor, reported>>

\* on_timer first swaps the queue out.
drain_events ==
    /\ main = "spin"
    /\ local_queue' = event_queue
    /\ event_queue' = <<>>
    /\ main' = IF event_queue = <<>> THEN "states" ELSE "drain"
    /\ UNCHANGED <<devs, contexts, published, retained, shown, sampled,
                   lineVars, monitor, reported>>

publish_event ==
    /\ main = "drain"
    /\ published' = Append(published, Head(local_queue))
    /\ local_queue' = Tail(local_queue)
    /\ main' = IF local_queue' = <<>> THEN "states" ELSE main
    /\ UNCHANGED <<devs, contexts, event_queue, retained, shown, sampled,
                   lineVars, monitor, reported>>

\* Mutant: the states are not published when there were events.
publish_states_rarely(readable) ==
    /\ main = "states"
    /\ main' = "spin"
    /\ IF published # <<>> THEN UNCHANGED <<retained, shown, sampled>>
       ELSE publish_all_states(readable)
    /\ UNCHANGED <<devs, contexts, local_queue, published, lineVars,
                   event_queue, monitor, reported>>

\* ... and then publishes all states.
publish_states(readable) ==
    /\ main = "states"
    /\ main' = "spin"
    /\ publish_all_states(readable)
    /\ UNCHANGED <<devs, contexts, local_queue, published, lineVars,
                   event_queue, monitor, reported>>

\* A command for an output (others are dropped): misc_io_set works, and the
\* state is read back and published if that works; or it fails, and whether
\* the line changed is unknown.
on_command(i, want) ==
    /\ main = "spin" /\ i \in Outputs
    /\ \/ /\ driven' = [driven EXCEPT ![i] = want]
          /\ \/ /\ retained' = kept(Append(retained, <<i, label(want)>>))
                /\ shown' = [shown EXCEPT ![i] = label(want)]
             \/ UNCHANGED <<retained, shown>>
       \/ /\ driven' \in {driven, [driven EXCEPT ![i] = want]}
          /\ UNCHANGED <<retained, shown>>
    /\ UNCHANGED <<main, devs, contexts, local_queue, published, sampled, edges,
                   event_queue, monitor, reported>>

-----------------------------------------------------------------------------
(* The node's thread: the destructor.                                      *)

Shutdown ==
    /\ main = "spin"
    /\ main' = "cleanup"
    /\ UNCHANGED <<devs, contexts, local_queue, published, retained, shown, sampled,
                   lineVars, event_queue, monitor, reported>>

\* misc_io_free joins the monitor thread, which so is in no callback.
cleanup_io(i) ==
    /\ main = "cleanup" /\ i \in devs
    /\ \A j \in devs : i <= j
    /\ i \in Inputs => monitor[i] = "wait"
    /\ devs' = devs \ {i}
    /\ UNCHANGED <<main, contexts, local_queue, published, retained, shown, sampled,
                   lineVars, event_queue, monitor, reported>>

\* Mutant: the contexts go while devices are left.
free_early ==
    /\ main = "cleanup"
    /\ contexts' = {}
    /\ main' = IF devs = {} THEN "gone" ELSE main
    /\ UNCHANGED <<devs, local_queue, published, retained, shown, sampled,
                   lineVars, event_queue, monitor, reported>>

\* ios_.clear() frees the contexts; the queue goes with the node.
free_ios ==
    /\ main = "cleanup" /\ devs = {}
    /\ contexts' = {}
    /\ event_queue' = <<>>
    /\ main' = "gone"
    /\ UNCHANGED <<devs, local_queue, published, retained, shown, sampled,
                   lineVars, monitor, reported>>

-----------------------------------------------------------------------------
(* The inputs' lines and their monitor threads.                            *)

Edge(i) ==
    /\ edges[i] < MaxEdges
    /\ edges' = [edges EXCEPT ![i] = @ + 1]
    /\ UNCHANGED <<nodeVars, driven, event_queue, monitor, reported>>

\* Debounced: only a level that differs from the one reported last.
on_input_event(i) ==
    /\ i \in devs /\ monitor[i] = "wait"
    /\ IsActive(edges[i]) # IsActive(reported[i])
    /\ monitor' = [monitor EXCEPT ![i] = "callback"]
    /\ reported' = [reported EXCEPT ![i] = edges[i]]
    /\ UNCHANGED <<nodeVars, lineVars, event_queue>>

enqueue_event(i) ==
    /\ monitor[i] = "callback"
    /\ event_queue' = Append(event_queue, <<i, reported[i]>>)
    /\ monitor' = [monitor EXCEPT ![i] = "wait"]
    /\ UNCHANGED <<nodeVars, lineVars, reported>>

-----------------------------------------------------------------------------

NodeStep ==
    \/ \E i \in Ios : register_io(i) \/ cleanup_io(i)
    \/ \E readable \in SUBSET Ios : Constructed(readable) \/ publish_states(readable)
    \/ drain_events \/ publish_event
    \/ free_ios

MonitorStep == \E i \in Inputs : on_input_event(i) \/ enqueue_event(i)

Finished == main = "gone" /\ UNCHANGED vars

Next ==
    \/ NodeStep \/ MonitorStep \/ Shutdown \/ Finished
    \/ \E i \in Ios, want \in BOOLEAN : on_command(i, want)
    \/ \E i \in Inputs : Edge(i)

Spec == Init /\ [][Next]_vars

\* The timer keeps firing and cleanup goes on, monitor threads report what they
\* see, and misc_io_get of any one io works some of the time.
FairSpec ==
    /\ Spec
    /\ WF_vars(NodeStep)
    /\ \A i \in Inputs : WF_vars(on_input_event(i)) /\ WF_vars(enqueue_event(i))
    /\ \A i \in Ios : SF_vars(\E r \in SUBSET Ios : i \in r /\ publish_states(r))

-----------------------------------------------------------------------------
(* Properties.                                                             *)

\* retained apart, for whose length and elements see kept.
TypeOK ==
    /\ main \in {"construct", "spin", "drain", "states", "cleanup", "gone"}
    /\ devs \in SUBSET Ios /\ contexts \in SUBSET Ios
    /\ event_queue \in Seq(Event) /\ local_queue \in Seq(Event) /\ published \in Seq(Event)
    /\ shown \in [Ios -> {"none", "active", "inactive"}]
    /\ edges \in [Inputs -> 0..MaxEdges] /\ driven \in [Outputs -> BOOLEAN]
    /\ monitor \in [Inputs -> {"wait", "callback"}]
    /\ reported \in [Inputs -> 0..MaxEdges] /\ sampled \in [Inputs -> SUBSET (0..MaxEdges)]

\* The events of one input arrive on the topic in the order of its edges, and
\* ACTIVE and INACTIVE alternate: none is lost or doubled on the way.
EventsAlternate ==
    \A j, k \in 1..Len(published) :
        (/\ j < k /\ published[j][1] = published[k][1]
         /\ \A l \in (j + 1)..(k - 1) : published[l][1] # published[j][1])
        => /\ published[j][2] < published[k][2]
           /\ IsActive(published[j][2]) # IsActive(published[k][2])

\* The state topic never falls behind the event topic: between two runs of the
\* timer, an input's last state (if it could be read) was read no earlier than
\* the edge of its last published event.
StatesFollowEvents ==
    main = "spin" =>
        \A k \in 1..Len(published) :
            LET i == published[k][1]
            IN  \A edge \in sampled[i] : edge >= published[k][2]

\* A monitor thread never runs a callback whose context or node is freed.
NoCallbackAfterFree ==
    \A i \in Inputs : monitor[i] = "callback" => i \in contexts /\ main # "gone"

\* The state of every io reaches the topic, even if another io cannot be read
\* and even if the command that changed it could not be confirmed; or the node
\* is shut down, and then cleaning up ends, whatever the monitor threads do.
StatesCatchUp ==
    \A i \in Ios : \A b \in BOOLEAN :
        (main = "spin" /\ active(i) = b)
        ~> (main = "gone" \/ active(i) # b \/ shown[i] = label(b))

=============================================================================
