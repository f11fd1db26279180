------------------------------ MODULE KeyNode ------------------------------
(***************************************************************************)
(* key_node (src/key/src/key_node.cpp).  The thread of the key service     *)
(* reports events through on_key_event, which queues them under            *)
(* event_mutex_; the node's own thread constructs the node, drains the     *)
(* queue from a timer, publishes, and tears the node down.                 *)
(*                                                                         *)
(* The key service is external: key_remove ends new callbacks of that key  *)
(* but need not wait for one under way, key_service_stop ends the thread   *)
(* and waits for it.                                                       *)
(***************************************************************************)
EXTENDS Naturals, Sequences, FiniteSets

CONSTANTS
    K,            \* number of configured keys
    KeyEvents,    \* the events the key service reports
    KnownEvents,  \* those to_ros_event_type maps to a message constant
    MaxEvents     \* bound on the events queued in one behaviour

ASSUME KeyAssumption == /\ K \in Nat \ {0}
                        /\ KnownEvents \subseteq KeyEvents
                        /\ MaxEvents \in Nat

VARIABLES
    main,          \* where the node's thread is
    service,       \* service_started_
    handles,       \* the keys the service calls back for
    contexts,      \* the keys whose KeyContext exists
    timer,         \* drain_timer_ exists
    event_queue,   \* event_queue_
    local_queue,   \* local_queue of drain_events
    published,     \* history: what the publisher was given
    lock,          \* event_mutex_: who holds it
    thread,        \* where the key service's thread is
    current,       \* the event it is reporting
    seen_queue,    \* event_queue_ as push_back found it
    enqueued       \* history: the events queued, in order

mainVars   == <<main, service, handles, contexts, timer, local_queue, published>>
threadVars == <<thread, current, seen_queue, enqueued>>
vars == <<mainVars, event_queue, lock, threadVars>>

Keys  == 1..K
Event == Keys \X KnownEvents

Init ==
    /\ main = "start"
    /\ service = FALSE
    /\ handles = {}
    /\ contexts = {}
    /\ timer = FALSE
    /\ event_queue = <<>>
    /\ local_queue = <<>>
    /\ published = <<>>
    /\ lock = "free"
    /\ thread = "scan"
    /\ current = <<>>
    /\ seen_queue = <<>>
    /\ enqueued = <<>>

-----------------------------------------------------------------------------
(* The node's thread: construction.                                        *)

\* A bad configuration or a service that does not start throws, and the
\* handler calls cleanup_resources.
StartService ==
    /\ main = "start"
    /\ \/ main' = "register" /\ service' = TRUE
       \/ main' = "cleanup"  /\ service' = FALSE
    /\ UNCHANGED <<handles, contexts, timer, local_queue, published,
                   event_queue, lock, threadVars>>

\* key_add_gpio succeeds, and the service may call back at once; or it returns
\* a null handle, the context is freed and the constructor throws.
register_key(k) ==
    /\ main = "register" /\ handles = 1..(k - 1)
    /\ \/ /\ handles' = handles \cup {k}
          /\ contexts' = contexts \cup {k}
          /\ main' = main
       \/ main' = "cleanup" /\ UNCHANGED <<handles, contexts>>
    /\ UNCHANGED <<service, timer, local_queue, published, event_queue, lock, threadVars>>

CreateTimer ==
    /\ main = "register" /\ handles = Keys
    /\ main' = "spin"
    /\ timer' = TRUE
    /\ UNCHANGED <<service, handles, contexts, local_queue, published,
                   event_queue, lock, threadVars>>

-----------------------------------------------------------------------------
(* The node's thread: the timer callback drain_events.                     *)

\* Under the mutex: the queue is not empty and is swapped with the local one.
drain_swap ==
    /\ main = "spin" /\ timer
    /\ lock = "free"
    /\ event_queue # <<>>
    /\ local_queue' = event_queue
    /\ event_queue' = <<>>
    /\ main' = "publish"
    /\ UNCHANGED <<service, handles, contexts, timer, published, lock, threadVars>>

\* Mutant: the batch is published from its end.
drain_reversed ==
    /\ main = "publish"
    /\ published' = Append(published, local_queue[Len(local_queue)])
    /\ local_queue' = SubSeq(local_queue, 1, Len(local_queue) - 1)
    /\ main' = IF local_queue' = <<>> THEN "spin" ELSE main
    /\ UNCHANGED <<service, handles, contexts, timer, event_queue, lock, threadVars>>

drain_publish ==
    /\ main = "publish"
    /\ published' = Append(published, Head(local_queue))
    /\ local_queue' = Tail(local_queue)
    /\ main' = IF local_queue' = <<>> THEN "spin" ELSE main
    /\ UNCHANGED <<service, handles, contexts, timer, event_queue, lock, threadVars>>

-----------------------------------------------------------------------------
(* The node's thread: spin returns, the destructor runs cleanup_resources. *)

\* Mutant: cleanup_resources runs under event_mutex_.
ShutdownLocked ==
    /\ main = "spin" /\ lock = "free"
    /\ main' = "cleanup"
    /\ lock' = "node"
    /\ timer' = FALSE
    /\ UNCHANGED <<service, handles, contexts, local_queue, published,
                   event_queue, threadVars>>

Shutdown ==
    /\ main = "spin"
    /\ main' = "cleanup"
    /\ timer' = FALSE
    /\ UNCHANGED <<service, handles, contexts, local_queue, published,
                   event_queue, lock, threadVars>>

cleanup_key(k) ==
    /\ main = "cleanup" /\ k \in handles
    /\ \A j \in handles : k <= j
    /\ handles' = handles \ {k}
    /\ UNCHANGED <<main, service, contexts, timer, local_queue, published,
                   event_queue, lock, threadVars>>

\* Mutant: the service is left running.
cleanup_keys_only ==
    /\ main = "cleanup" /\ handles = {}
    /\ main' = "members"
    /\ UNCHANGED <<service, handles, contexts, timer, local_queue, published,
                   event_queue, lock, threadVars>>

\* key_service_stop joins the thread, which therefore is not in a callback.
cleanup_service ==
    /\ main = "cleanup" /\ handles = {}
    /\ service => thread = "scan"
    /\ service' = FALSE
    /\ main' = "members"
    /\ UNCHANGED <<handles, contexts, timer, local_queue, published,
                   event_queue, lock, threadVars>>

\* The members are destroyed: the contexts, and with the queue what is in it.
FreeMembers ==
    /\ main = "members"
    /\ main' = "gone"
    /\ contexts' = {}
    /\ event_queue' = <<>>
    /\ UNCHANGED <<service, handles, timer, local_queue, published, lock, threadVars>>

-----------------------------------------------------------------------------
(* The key service's thread.                                               *)

ReportEvent(k, e) ==
    /\ service /\ thread = "scan" /\ k \in handles
    /\ Len(enqueued) < MaxEvents
    /\ thread' = "callback"
    /\ current' = <<k, e>>
    /\ UNCHANGED <<mainVars, event_queue, lock, seen_queue, enqueued>>

\* on_key_event drops what to_ros_event_type maps to 0.
on_key_event ==
    /\ thread = "callback"
    /\ thread' = IF current[2] \in KnownEvents THEN "enqueue" ELSE "scan"
    /\ UNCHANGED <<mainVars, event_queue, lock, current, seen_queue, enqueued>>

enqueue_lock ==
    /\ thread = "enqueue"
    /\ lock = "free"
    /\ lock' = "thread"
    /\ seen_queue' = event_queue
    /\ thread' = "push"
    /\ UNCHANGED <<mainVars, event_queue, current, enqueued>>

enqueue_push ==
    /\ thread = "push"
    /\ event_queue' = Append(seen_queue, current)
    /\ enqueued' = Append(enqueued, current)
    /\ seen_queue' = <<>>
    /\ lock' = "free"
    /\ thread' = "scan"
    /\ UNCHANGED <<mainVars, current>>

-----------------------------------------------------------------------------

NodeStep ==
    \/ StartService \/ CreateTimer
    \/ \E k \in Keys : register_key(k) \/ cleanup_key(k)
    \/ drain_swap \/ drain_publish
    \/ cleanup_service \/ FreeMembers

CallbackStep == on_key_event \/ enqueue_lock \/ enqueue_push

\* The process has ended, or the keys stay quiet once MaxEvents were queued.
Finished == main \in {"gone", "spin"} /\ UNCHANGED vars

Next ==
    \/ NodeStep \/ CallbackStep \/ Shutdown \/ Finished
    \/ \E k \in Keys, e \in KeyEvents : ReportEvent(k, e)

Spec == Init /\ [][Next]_vars

\* The node's thread goes on as long as it can, and so does a callback under
\* way; nobody has to press a key or to shut the node down.
FairSpec == Spec /\ WF_vars(NodeStep) /\ WF_vars(CallbackStep)

-----------------------------------------------------------------------------
(* Properties.                                                             *)

Running == main \in {"start", "register", "spin", "publish"}

TypeOK ==
    /\ main \in {"start", "register", "spin", "publish", "cleanup", "members", "gone"}
    /\ service \in BOOLEAN
    /\ handles \in SUBSET Keys
    /\ contexts \in SUBSET Keys
    /\ timer \in BOOLEAN
    /\ event_queue \in Seq(Event)
    /\ local_queue \in Seq(Event)
    /\ published \in Seq(Event)
    /\ lock \in {"free", "thread"}
    /\ thread \in {"scan", "callback", "enqueue", "push"}
    /\ thread # "scan" => current \in Keys \X KeyEvents
    /\ seen_queue \in Seq(Event)
    /\ enqueued \in Seq(Event)

\* Until the members are destroyed, every event that was queued is in exactly
\* one place, in order: published, in the drained batch, or in the queue.  No
\* interleaving of push and swap loses, repeats or reorders one.
NothingLost ==
    main # "gone" => published \o local_queue \o event_queue = enqueued

\* The service's thread never runs a callback whose KeyContext, or whose node,
\* has been freed; removing the keys and stopping the service come first.
NoCallbackAfterFree ==
    thread # "scan" => main # "gone" /\ current[1] \in contexts

\* Shutting down always ends: cleanup never waits for a callback that waits
\* for it.
CleanupEnds == main = "cleanup" ~> main = "gone"

\* key_node keeps the promise of EventStream, its liveness included: an event
\* reported while the node runs is published unless the node is shut down.
Stream == INSTANCE EventStream
          WITH produced <- enqueued, delivered <- published, open <- Running
StreamSpec == Stream!Spec

=============================================================================
