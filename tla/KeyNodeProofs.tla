--------------------------- MODULE KeyNodeProofs ---------------------------
(***************************************************************************)
(* Proofs about KeyNode: typing, the life of the contexts, and that the    *)
(* queue between the two threads implements EventStream (its safety part). *)
(***************************************************************************)
EXTENDS KeyNode, TLAPS

\* The mutex: the service's thread holds it from enqueue_lock to enqueue_push,
\* so the queue it found is still the queue when it writes it back.
LockInv ==
    /\ lock = "thread" <=> thread = "push"
    /\ thread = "push" => seen_queue = event_queue
    /\ thread \in {"enqueue", "push"} => current \in Event

\* The drained batch is not empty while the timer's callback publishes it, and
\* is gone whenever the callback has ended.
BatchInv == main = "publish" <=> local_queue # <<>>

\* A callback runs only while the service does, for a key whose context exists;
\* the service has ended before the members are destroyed.
LifeInv ==
    /\ handles \subseteq contexts
    /\ thread # "scan" => service /\ current[1] \in contexts
    /\ main \in {"start", "members", "gone"} => ~service
    /\ main \in {"members", "gone"} => handles = {}

IInv == TypeOK /\ LockInv /\ BatchInv /\ NothingLost /\ LifeInv

-----------------------------------------------------------------------------
(* What the queues do to the order of the events.                          *)

\* Appending to the last of three parts appends to the whole.
LEMMA AppendToWhole ==
  ASSUME TypeOK, current \in Event
  PROVE  published \o local_queue \o Append(event_queue, current)
         = Append(published \o local_queue \o event_queue, current)
<1>1. published \in Seq(Event) /\ local_queue \in Seq(Event) /\ event_queue \in Seq(Event)
  BY DEF TypeOK
<1>2. QED
  BY <1>1

\* Publishing the head of the batch leaves the whole, of which it is the event
\* after those published.
LEMMA MoveHead ==
  ASSUME TypeOK, local_queue # <<>>
  PROVE  /\ Head(local_queue) \in Event /\ Tail(local_queue) \in Seq(Event)
         /\ Append(published, Head(local_queue)) \o Tail(local_queue) \o event_queue
              = published \o local_queue \o event_queue
         /\ Len(published) < Len(published \o local_queue \o event_queue)
         /\ (published \o local_queue \o event_queue)[Len(published) + 1] = Head(local_queue)
<1>1. published \in Seq(Event) /\ local_queue \in Seq(Event) /\ event_queue \in Seq(Event)
  BY DEF TypeOK
<1>2. QED
  BY <1>1

\* Swapping the queue with an empty batch leaves the whole.
LEMMA SwapBatch ==
  ASSUME NEW S, NEW p \in Seq(S), NEW q \in Seq(S)
  PROVE  p \o q \o <<>> = p \o <<>> \o q
  OBVIOUS

\* There is nothing in three empty queues.
LEMMA EmptyQueues == <<>> \in Seq(Event) /\ <<>> \o <<>> \o <<>> = <<>>
  OBVIOUS

-----------------------------------------------------------------------------
(* The invariant is inductive.                                             *)

\* The steps of the service's thread: they touch the queue only while they
\* hold the mutex, and report only keys that still have a context.
LEMMA ThreadInv ==
  ASSUME IInv, \/ CallbackStep
               \/ \E k \in Keys, e \in KeyEvents : ReportEvent(k, e)
  PROVE  IInv'
<1> USE DEF IInv, TypeOK, LockInv, BatchInv, NothingLost, LifeInv
<1>1. CASE on_key_event
  <2>1. thread = "callback" /\ current \in Keys \X KeyEvents
    BY <1>1 DEF on_key_event
  <2>2. current[2] \in KnownEvents => current \in Event
    BY <2>1 DEF Event
  <2>3. QED
    BY <1>1, <2>1, <2>2 DEF on_key_event, mainVars
<1>2. CASE enqueue_lock
  BY <1>2 DEF enqueue_lock, mainVars
<1>3. CASE enqueue_push
  <2>1. event_queue' = Append(event_queue, current) /\ enqueued' = Append(enqueued, current)
    BY <1>3 DEF enqueue_push
  <2>2. current \in Event
    BY <1>3 DEF enqueue_push
  <2>3. published \o local_queue \o Append(event_queue, current)
        = Append(published \o local_queue \o event_queue, current)
    BY <2>2, AppendToWhole
  <2>4. main # "gone"
    BY <1>3 DEF enqueue_push
  <2>5. NothingLost'
    BY <1>3, <2>1, <2>3, <2>4 DEF enqueue_push, mainVars
  <2>6. TypeOK'
    BY <1>3, <2>1, <2>2 DEF enqueue_push, mainVars
  <2>7. QED
    BY <1>3, <2>5, <2>6 DEF enqueue_push, mainVars
<1>4. ASSUME NEW k \in Keys, NEW e \in KeyEvents, ReportEvent(k, e)
      PROVE  IInv'
  BY <1>4 DEF ReportEvent, mainVars
<1>5. QED
  BY <1>1, <1>2, <1>3, <1>4 DEF CallbackStep

\* The steps of the node's thread, the shutdown among them: the timer's
\* callback moves events on in order, and the contexts go last.
LEMMA NodeInv ==
  ASSUME KeyAssumption, IInv, NodeStep \/ Shutdown
  PROVE  IInv'
<1> USE DEF IInv, TypeOK, LockInv, BatchInv, NothingLost, LifeInv, threadVars
<1>1. CASE StartService
  BY <1>1 DEF StartService
<1>2. CASE CreateTimer
  BY <1>2 DEF CreateTimer
<1>3. ASSUME NEW k \in Keys, register_key(k) PROVE IInv'
  BY <1>3 DEF register_key
<1>4. ASSUME NEW k \in Keys, cleanup_key(k) PROVE IInv'
  BY <1>4 DEF cleanup_key
<1>5. CASE drain_swap
  <2>1. local_queue = <<>>
    BY <1>5 DEF drain_swap
  <2>2. published \o event_queue \o <<>> = published \o <<>> \o event_queue
    BY SwapBatch
  <2>3. NothingLost'
    BY <1>5, <2>1, <2>2 DEF drain_swap
  <2>4. QED
    BY <1>5, <2>3 DEF drain_swap
<1>6. CASE drain_publish
  <2>1. local_queue # <<>>
    BY <1>6 DEF drain_publish
  <2>2. Head(local_queue) \in Event /\ Tail(local_queue) \in Seq(Event)
    BY <2>1, MoveHead
  <2>3. Append(published, Head(local_queue)) \o Tail(local_queue) \o event_queue
        = published \o local_queue \o event_queue
    BY <2>1, MoveHead
  <2>4. NothingLost'
    BY <1>6, <2>3 DEF drain_publish
  <2>5. TypeOK'
    BY <1>6, <2>2 DEF drain_publish
  <2>6. QED
    BY <1>6, <2>4, <2>5 DEF drain_publish
<1>7. CASE cleanup_service
  BY <1>7 DEF cleanup_service
<1>8. CASE FreeMembers
  BY <1>8, EmptyQueues DEF FreeMembers
<1>9. CASE Shutdown
  BY <1>9 DEF Shutdown
<1>10. QED
  BY <1>1, <1>2, <1>3, <1>4, <1>5, <1>6, <1>7, <1>8, <1>9 DEF NodeStep

\* The invariant holds throughout: the mutex, the drained batch, the order of
\* the events and the lives of contexts and service fit together.
THEOREM Invariance == Spec => []IInv
<1>1. Init => IInv
  BY EmptyQueues DEF Init, IInv, TypeOK, LockInv, BatchInv, NothingLost, LifeInv
<1>2. IInv /\ [Next]_vars => IInv'
  <2> SUFFICES ASSUME IInv, [Next]_vars PROVE IInv'
    OBVIOUS
  <2>1. CASE NodeStep \/ Shutdown
    BY <2>1, NodeInv, KeyAssumption
  <2>2. CASE CallbackStep \/ \E k \in Keys, e \in KeyEvents : ReportEvent(k, e)
    BY <2>2, ThreadInv
  <2>3. CASE UNCHANGED vars
    BY <2>3 DEF vars, mainVars, threadVars, IInv, TypeOK, LockInv, BatchInv,
                NothingLost, LifeInv
  <2>4. QED
    BY <2>1, <2>2, <2>3 DEF Next, Finished
<1>3. QED
  BY <1>1, <1>2, PTL DEF Spec

-----------------------------------------------------------------------------

\* Types are kept: only mapped events reach the queues, and the mutex is held
\* by the service's thread alone.
THEOREM TypeCorrect == Spec => []TypeOK
BY Invariance, PTL DEF IInv

\* Until the members are destroyed, no interleaving of push, swap, publishing
\* and shutdown loses, repeats or reorders an event, for any number of keys and
\* events.
THEOREM EventsAreKept == Spec => []NothingLost
BY Invariance, PTL DEF IInv

\* on_key_event never runs with a KeyContext, or a node, that has been freed.
THEOREM CallbacksAreSafe == Spec => []NoCallbackAfterFree
<1>1. IInv => NoCallbackAfterFree
  BY DEF IInv, LifeInv, NoCallbackAfterFree
<1>2. QED
  BY <1>1, Invariance, PTL

\* key_node implements EventStream (all of it but the liveness): enqueue_push
\* produces, drain_publish delivers, shutting down or a failed construction
\* closes, and every other step is invisible to a subscriber.
THEOREM Implements == Spec => Stream!Init /\ [][Stream!Next]_(Stream!vars)
<1>1. Init => Stream!Init
  BY DEF Init, Stream!Init, Running
<1>2. IInv /\ [Next]_vars => [Stream!Next]_(Stream!vars)
  <2> SUFFICES ASSUME IInv, [Next]_vars PROVE [Stream!Next]_(Stream!vars)
    OBVIOUS
  <2> USE DEF Running, Stream!vars
  <2>1. CASE enqueue_push
    <3>1. current \in Event /\ enqueued' = Append(enqueued, current)
      BY <2>1 DEF IInv, LockInv, enqueue_push
    <3>2. published' = published /\ Running' = Running
      BY <2>1 DEF enqueue_push, mainVars
    <3>3. Stream!Produce(current)
      BY <3>1, <3>2 DEF Stream!Produce
    <3>4. QED
      BY <3>1, <3>3 DEF Stream!Next
  <2>2. CASE drain_publish
    <3>1. main = "publish" /\ local_queue # <<>>
      BY <2>2 DEF drain_publish, IInv, BatchInv
    <3>2. /\ Len(published) < Len(enqueued)
          /\ enqueued[Len(published) + 1] = Head(local_queue)
      BY <3>1, MoveHead DEF IInv, NothingLost
    <3>3. /\ published' = Append(published, Head(local_queue))
          /\ enqueued' = enqueued /\ Running' = Running /\ Running
      BY <2>2, <3>1 DEF drain_publish, threadVars
    <3>4. Stream!Deliver
      BY <3>2, <3>3 DEF Stream!Deliver
    <3>5. QED
      BY <3>4 DEF Stream!Next
  <2>3. ASSUME published' = published, enqueued' = enqueued, main' = main \/ ~Running'
        PROVE  [Stream!Next]_(Stream!vars)
    <3>1. CASE main' = main
      BY <2>3, <3>1
    <3>2. CASE ~Running'
      <4>1. Stream!Close
        BY <2>3, <3>2 DEF Stream!Close
      <4>2. QED
        BY <4>1 DEF Stream!Next
    <3>3. QED
      BY <2>3, <3>1, <3>2
  <2>4. CASE StartService
    <3>1. main = "start" /\ main' \in {"register", "cleanup"}
      BY <2>4 DEF StartService
    <3>2. CASE main' = "register"
      BY <2>4, <3>1, <3>2 DEF StartService, threadVars
    <3>3. CASE main' = "cleanup"
      BY <2>4, <2>3, <3>3 DEF StartService, threadVars
    <3>4. QED
      BY <3>1, <3>2, <3>3
  <2>5. CASE CreateTimer
    BY <2>5, <2>3 DEF CreateTimer, threadVars
  <2>6. CASE \E k \in Keys : register_key(k) \/ cleanup_key(k)
    BY <2>6, <2>3 DEF register_key, cleanup_key, threadVars
  <2>7. CASE drain_swap
    BY <2>7, <2>3 DEF drain_swap, threadVars
  <2>8. CASE cleanup_service \/ FreeMembers
    BY <2>8, <2>3 DEF cleanup_service, FreeMembers, threadVars
  <2>9. CASE on_key_event \/ enqueue_lock
    BY <2>9, <2>3 DEF on_key_event, enqueue_lock, mainVars
  <2>10. CASE Shutdown
    BY <2>10, <2>3 DEF Shutdown, threadVars
  <2>11. CASE \E k \in Keys, e \in KeyEvents : ReportEvent(k, e)
    BY <2>11, <2>3 DEF ReportEvent, mainVars
  <2>12. CASE UNCHANGED vars
    BY <2>12, <2>3 DEF vars, mainVars, threadVars
  <2>13. QED
    BY <2>1, <2>2, <2>4, <2>5, <2>6, <2>7, <2>8, <2>9, <2>10, <2>11, <2>12
    DEF Next, NodeStep, CallbackStep, Finished
<1>3. QED
  BY <1>1, <1>2, Invariance, PTL DEF Spec

=============================================================================
