--------------------------- MODULE MiscIoNodeProofs ---------------------------
(***************************************************************************)
(* Proofs about MiscIoNode: typing, the life of the contexts, the order of *)
(* the events, and that the states do not fall behind the events.          *)
(***************************************************************************)
EXTENDS MiscIoNode, TLAPS

\* The events on their way: published, drained, and queued.
Stream == published \o local_queue \o event_queue

\* Input i has no event behind the j-th of s.
LastOfItsInput(s, j) == \A l \in (j + 1)..Len(s) : s[l][1] # s[j][1]

\* EventsAlternate, of any sequence of events.
Alternating(s) ==
    \A j, k \in 1..Len(s) :
        (/\ j < k /\ s[j][1] = s[k][1]
         /\ \A l \in (j + 1)..(k - 1) : s[l][1] # s[j][1])
        => s[j][2] < s[k][2] /\ IsActive(s[j][2]) # IsActive(s[k][2])

\* The last event of an input is the edge its monitor thread reported last, or
\* the one before that while a callback is under way.
FollowedBy(j) ==
    LET i == Stream[j][1]
    IN  IF monitor[i] = "wait" THEN Stream[j][2] = reported[i]
        ELSE Stream[j][2] < reported[i] /\ IsActive(Stream[j][2]) # IsActive(reported[i])

OrderInv ==
    /\ Alternating(published)
    /\ main # "gone" => /\ Alternating(Stream)
                        /\ \A j \in 1..Len(Stream) : LastOfItsInput(Stream, j) => FollowedBy(j)

\* No event is ahead of its input's line.
Behind(s) == \A k \in 1..Len(s) : s[k][2] <= edges[s[k][1]]

EdgeInv ==
    /\ \A i \in Inputs : /\ reported[i] <= edges[i]
                         /\ monitor[i] = "callback" => reported[i] > 0
    /\ Behind(published) /\ Behind(local_queue) /\ Behind(event_queue)

\* There is a drained batch just while on_timer publishes it.
BatchInv == main = "drain" <=> local_queue # <<>>

\* A callback runs only for an io that has a device and so a context, and the
\* node's members go when no device is left.
LifeInv ==
    /\ devs \subseteq contexts
    /\ \A i \in Inputs : monitor[i] = "callback" => i \in devs
    /\ main = "gone" => devs = {}

IInv == TypeOK /\ LifeInv /\ BatchInv /\ EdgeInv /\ StatesFollowEvents /\ OrderInv

-----------------------------------------------------------------------------
(* Sequences of events.                                                    *)

\* The three queues are sequences, and so is the stream.
LEMMA StreamType ==
  ASSUME TypeOK
  PROVE  /\ published \in Seq(Event) /\ local_queue \in Seq(Event)
         /\ event_queue \in Seq(Event) /\ Stream \in Seq(Event)
  BY DEF TypeOK, Stream

\* The first of three parts is the beginning of the whole.
LEMMA FirstPart ==
  ASSUME NEW S, NEW p \in Seq(S), NEW l \in Seq(S), NEW q \in Seq(S)
  PROVE  /\ p \o l \o q \in Seq(S) /\ Len(p) <= Len(p \o l \o q)
         /\ \A j \in 1..Len(p) : p[j] = (p \o l \o q)[j]
  OBVIOUS

\* What begins an alternating sequence alternates.
LEMMA PrefixAlternates ==
  ASSUME NEW S, NEW s \in Seq(S), NEW p \in Seq(S), Len(p) <= Len(s),
         \A j \in 1..Len(p) : p[j] = s[j],
         Alternating(s)
  PROVE  Alternating(p)
<1> SUFFICES ASSUME NEW j \in 1..Len(p), NEW k \in 1..Len(p), j < k, p[j][1] = p[k][1],
                    \A l \in (j + 1)..(k - 1) : p[l][1] # p[j][1]
             PROVE  p[j][2] < p[k][2] /\ IsActive(p[j][2]) # IsActive(p[k][2])
  BY DEF Alternating
<1>1. j \in 1..Len(s) /\ k \in 1..Len(s) /\ p[j] = s[j] /\ p[k] = s[k]
  OBVIOUS
<1>2. \A l \in (j + 1)..(k - 1) : s[l][1] # s[j][1]
  <2>1. \A l \in (j + 1)..(k - 1) : l \in 1..Len(p)
    OBVIOUS
  <2>2. QED
    BY <1>1, <2>1
<1>3. QED
  BY <1>1, <1>2 DEF Alternating

\* An event that follows the last one of its input may be appended.
LEMMA AppendAlternates ==
  ASSUME NEW S, NEW s \in Seq(S), NEW e \in S, Alternating(s),
         \A j \in 1..Len(s) :
            s[j][1] = e[1] /\ LastOfItsInput(s, j)
            => s[j][2] < e[2] /\ IsActive(s[j][2]) # IsActive(e[2])
  PROVE  Alternating(Append(s, e))
<1> DEFINE t == Append(s, e)
<1>1. /\ Len(t) = Len(s) + 1 /\ t[Len(s) + 1] = e
      /\ \A j \in 1..Len(s) : t[j] = s[j]
  OBVIOUS
<1> HIDE DEF t
<1>2. SUFFICES ASSUME NEW j \in 1..Len(t), NEW k \in 1..Len(t), j < k, t[j][1] = t[k][1],
                      \A l \in (j + 1)..(k - 1) : t[l][1] # t[j][1]
               PROVE  t[j][2] < t[k][2] /\ IsActive(t[j][2]) # IsActive(t[k][2])
  BY DEF Alternating, t
<1>3. j \in 1..Len(s) /\ t[j] = s[j] /\ Len(s) \in Nat
  BY <1>1, <1>2
<1>4. \A l \in (j + 1)..(k - 1) : l \in 1..Len(s) /\ t[l] = s[l] /\ s[l][1] # s[j][1]
  BY <1>1, <1>2, <1>3
<1>5. CASE k = Len(s) + 1
  BY <1>1, <1>2, <1>3, <1>4, <1>5 DEF LastOfItsInput
<1>6. CASE k # Len(s) + 1
  <2>1. k \in 1..Len(s) /\ t[k] = s[k]
    BY <1>1, <1>6
  <2>2. QED
    BY <1>2, <1>3, <1>4, <2>1 DEF Alternating
<1>7. QED
  BY <1>5, <1>6

\* Moving the head of the batch to the topic leaves the stream.
LEMMA MoveHead ==
  ASSUME TypeOK, local_queue # <<>>
  PROVE  /\ Head(local_queue) \in Event /\ Tail(local_queue) \in Seq(Event)
         /\ Append(published, Head(local_queue)) \o Tail(local_queue) \o event_queue = Stream
<1>1. published \in Seq(Event) /\ local_queue \in Seq(Event) /\ event_queue \in Seq(Event)
  BY DEF TypeOK
<1>2. QED
  BY <1>1 DEF Stream

\* Swapping the queue with an empty batch leaves the stream.
LEMMA SwapBatch ==
  ASSUME TypeOK, local_queue = <<>>
  PROVE  published \o event_queue \o <<>> = Stream
<1>1. published \in Seq(Event) /\ event_queue \in Seq(Event)
  BY DEF TypeOK
<1>2. QED
  BY <1>1 DEF Stream

\* A queued event ends the stream.
LEMMA AppendToStream ==
  ASSUME TypeOK, NEW e \in Event
  PROVE  published \o local_queue \o Append(event_queue, e) = Append(Stream, e)
<1>1. published \in Seq(Event) /\ local_queue \in Seq(Event) /\ event_queue \in Seq(Event)
  BY DEF TypeOK
<1>2. QED
  BY <1>1 DEF Stream

\* The order outlives a step that leaves the stream and the monitor threads
\* alone; the topic still begins the stream.
LEMMA SameStream ==
  ASSUME IInv, TypeOK', main # "gone", Stream' = Stream, UNCHANGED <<monitor, reported>>
  PROVE  OrderInv'
<1>1. Alternating(Stream)'
  BY DEF IInv, OrderInv, Alternating
<1>2. Alternating(published)'
  <2>1. /\ published' \in Seq(Event) /\ local_queue' \in Seq(Event)
        /\ event_queue' \in Seq(Event)
    BY DEF TypeOK
  <2>2. /\ Stream' \in Seq(Event) /\ Len(published') <= Len(Stream')
        /\ \A j \in 1..Len(published') : published'[j] = Stream'[j]
    <3>1. Stream' = published' \o local_queue' \o event_queue'
      BY DEF Stream
    <3>2. QED
      BY <2>1, <3>1, FirstPart, SMTT(30)
  <2>3. Alternating(Stream')
    BY <1>1 DEF Alternating
  <2>4. Alternating(published')
    BY <2>1, <2>2, <2>3, PrefixAlternates
  <2>5. QED
    BY <2>4 DEF Alternating
<1>3. QED
  BY <1>1, <1>2 DEF IInv, OrderInv, FollowedBy, LastOfItsInput

\* A queued event keeps the order: it follows the last one of its input, which
\* the monitor thread told it apart from.
LEMMA EnqueueOrder ==
  ASSUME IInv, TypeOK', NEW i \in Inputs, enqueue_event(i)
  PROVE  OrderInv'
<1> DEFINE e == <<i, reported[i]>>
<1>1. /\ monitor[i] = "callback" /\ event_queue' = Append(event_queue, e)
      /\ monitor' = [monitor EXCEPT ![i] = "wait"]
      /\ UNCHANGED <<main, published, local_queue, reported>>
  BY DEF enqueue_event, nodeVars
<1>2. main # "gone"
  BY <1>1 DEF IInv, LifeInv
<1>3. /\ Stream \in Seq(Event) /\ monitor \in [Inputs -> {"wait", "callback"}]
      /\ reported \in [Inputs -> 0..MaxEdges]
  BY StreamType DEF IInv, TypeOK
<1>4. e \in Event
  <2>1. event_queue' \in Seq(Event) /\ event_queue \in Seq(Event)
    BY DEF TypeOK, IInv
  <2>2. Len(event_queue') = Len(event_queue) + 1 /\ event_queue'[Len(event_queue) + 1] = e
    BY <1>1, <2>1
  <2>3. Len(event_queue) + 1 \in 1..Len(event_queue')
    BY <2>1, <2>2
  <2>4. event_queue'[Len(event_queue) + 1] \in Event
    BY <2>1, <2>3
  <2>5. QED
    BY <2>2, <2>4
<1>5. Stream' = Append(Stream, e)
  BY <1>1, <1>4, AppendToStream DEF Stream, IInv
<1>6. \A j \in 1..Len(Stream) : Stream[j][1] = e[1] /\ LastOfItsInput(Stream, j)
         => Stream[j][2] < e[2] /\ IsActive(Stream[j][2]) # IsActive(e[2])
  BY <1>1, <1>2 DEF IInv, OrderInv, FollowedBy
<1>7. Alternating(Stream')
  BY <1>2, <1>3, <1>4, <1>5, <1>6, AppendAlternates DEF IInv, OrderInv
<1>8. ASSUME NEW j \in 1..Len(Stream'), LastOfItsInput(Stream', j)
      PROVE  FollowedBy(j)'
  <2>1. /\ Len(Stream') = Len(Stream) + 1 /\ Stream'[Len(Stream) + 1] = e
        /\ \A k \in 1..Len(Stream) : Stream'[k] = Stream[k]
        /\ Len(Stream) \in Nat
    BY <1>3, <1>4, <1>5
  <2>2. CASE j = Len(Stream) + 1
    BY <1>1, <1>3, <2>1, <2>2 DEF FollowedBy
  <2>3. CASE j # Len(Stream) + 1
    <3>1. j \in 1..Len(Stream) /\ Stream'[j] = Stream[j]
      BY <2>1, <2>3
    <3>2. Stream[j][1] # i
      <4>1. Len(Stream) + 1 \in (j + 1)..Len(Stream')
        BY <2>1, <3>1
      <4>2. QED
        BY <1>8, <2>1, <3>1, <4>1 DEF LastOfItsInput
    <3>3. LastOfItsInput(Stream, j)
      <4>1. \A l \in (j + 1)..Len(Stream) : l \in (j + 1)..Len(Stream') /\ Stream'[l] = Stream[l]
        BY <2>1, <3>1
      <4>2. QED
        BY <1>8, <3>1, <4>1 DEF LastOfItsInput
    <3>4. FollowedBy(j)
      BY <1>2, <3>1, <3>3 DEF IInv, OrderInv
    <3>5. Stream[j][1] \in Inputs
      BY <1>3, <3>1 DEF Event
    <3>6. monitor'[Stream[j][1]] = monitor[Stream[j][1]]
      BY <1>1, <1>3, <3>2, <3>5
    <3>7. QED
      BY <1>1, <3>1, <3>4, <3>6 DEF FollowedBy
  <2>4. QED
    BY <2>2, <2>3
<1>9. Alternating(published)'
  BY <1>1 DEF IInv, OrderInv, Alternating
<1>10. Alternating(Stream)'
  BY <1>7 DEF Alternating
<1>11. QED
  BY <1>8, <1>9, <1>10 DEF OrderInv, LastOfItsInput

\* Reporting an edge keeps the order: only a level that differs from the one
\* reported last is reported, and that makes it a later edge.
LEMMA ReportInv ==
  ASSUME IInv, NEW i \in Inputs, on_input_event(i)
  PROVE  IInv'
<1>1. /\ monitor[i] = "wait" /\ i \in devs
      /\ monitor' = [monitor EXCEPT ![i] = "callback"]
      /\ reported' = [reported EXCEPT ![i] = edges[i]]
      /\ IsActive(edges[i]) # IsActive(reported[i])
      /\ UNCHANGED <<main, devs, contexts, published, local_queue, event_queue, sampled, edges>>
  BY DEF on_input_event, nodeVars, lineVars
<1>2. /\ monitor \in [Inputs -> {"wait", "callback"}] /\ edges \in [Inputs -> 0..MaxEdges]
      /\ reported \in [Inputs -> 0..MaxEdges] /\ Stream \in Seq(Event)
  BY StreamType DEF IInv, TypeOK
<1>3. edges[i] \in Nat /\ reported[i] \in Nat /\ reported[i] < edges[i]
  <2>1. edges[i] # reported[i] /\ reported[i] <= edges[i]
    BY <1>1 DEF IInv, EdgeInv
  <2>2. edges[i] \in Nat /\ reported[i] \in Nat
    BY <1>2
  <2>3. QED
    BY <2>1, <2>2
<1>4. TypeOK'
  BY <1>1, <1>2 DEF IInv, TypeOK, on_input_event, nodeVars, lineVars
<1>5. LifeInv' /\ BatchInv' /\ StatesFollowEvents'
  BY <1>1, <1>2 DEF IInv, LifeInv, BatchInv, StatesFollowEvents
<1>6. EdgeInv'
  BY <1>1, <1>2, <1>3 DEF IInv, EdgeInv, Behind
<1>7. Stream' = Stream
  BY <1>1 DEF Stream
<1>8. ASSUME NEW j \in 1..Len(Stream), FollowedBy(j)
      PROVE  FollowedBy(j)'
  <2>1. Stream[j][1] \in Inputs /\ Stream[j][2] \in Nat
    BY <1>2 DEF Event
  <2>2. CASE Stream[j][1] = i
    <3>1. Stream[j][2] = reported[i]
      BY <1>1, <1>8, <2>2 DEF FollowedBy
    <3>2. monitor'[i] = "callback" /\ reported'[i] = edges[i]
      BY <1>1, <1>2
    <3>3. QED
      BY <1>1, <1>3, <1>7, <2>2, <3>1, <3>2 DEF FollowedBy
  <2>3. CASE Stream[j][1] # i
    <3>1. /\ monitor'[Stream[j][1]] = monitor[Stream[j][1]]
          /\ reported'[Stream[j][1]] = reported[Stream[j][1]]
      BY <1>1, <1>2, <2>1, <2>3
    <3>2. QED
      BY <1>7, <1>8, <3>1 DEF FollowedBy
  <2>4. QED
    BY <2>2, <2>3
<1>9. OrderInv'
  <2>1. main' # "gone" => main # "gone"
    BY <1>1
  <2>2. Alternating(published)' /\ (main # "gone" => Alternating(Stream)')
    BY <1>1, <1>7 DEF IInv, OrderInv, Alternating
  <2>3. ASSUME main # "gone", NEW j \in 1..Len(Stream'), LastOfItsInput(Stream', j)
        PROVE  FollowedBy(j)'
    BY <1>7, <1>8, <2>3 DEF IInv, OrderInv, LastOfItsInput
  <2>4. QED
    BY <2>1, <2>2, <2>3 DEF OrderInv, LastOfItsInput
<1>10. QED
  BY <1>4, <1>5, <1>6, <1>9 DEF IInv

\* Queuing a reported edge preserves the invariant.
LEMMA EnqueueInv ==
  ASSUME IInv, NEW i \in Inputs, enqueue_event(i)
  PROVE  IInv'
<1> DEFINE e == <<i, reported[i]>>
<1>1. /\ monitor[i] = "callback" /\ event_queue' = Append(event_queue, e)
      /\ monitor' = [monitor EXCEPT ![i] = "wait"]
      /\ UNCHANGED <<main, devs, contexts, published, local_queue, sampled, edges, reported>>
  BY DEF enqueue_event, nodeVars, lineVars
<1>2. /\ monitor \in [Inputs -> {"wait", "callback"}] /\ event_queue \in Seq(Event)
      /\ reported \in [Inputs -> 0..MaxEdges]
  BY DEF IInv, TypeOK
<1>3. reported[i] \in 0..MaxEdges /\ reported[i] > 0 /\ reported[i] <= edges[i]
  BY <1>1, <1>2 DEF IInv, EdgeInv
<1>4. e \in Event
  <2>1. reported[i] \in 1..MaxEdges
    BY <1>3, MiscIoAssumption
  <2>2. QED
    BY <2>1 DEF Event
<1>5. event_queue' \in Seq(Event)
  BY <1>1, <1>2, <1>4
<1>6. TypeOK'
  BY <1>1, <1>2, <1>5 DEF IInv, TypeOK, enqueue_event, nodeVars, lineVars
<1>7. LifeInv' /\ BatchInv' /\ StatesFollowEvents'
  BY <1>1, <1>2 DEF IInv, LifeInv, BatchInv, StatesFollowEvents
<1>8. Behind(event_queue)'
  <2>1. /\ Len(event_queue') = Len(event_queue) + 1 /\ Len(event_queue) \in Nat
        /\ event_queue'[Len(event_queue) + 1] = e
        /\ \A k \in 1..Len(event_queue) : event_queue'[k] = event_queue[k]
    BY <1>1, <1>2, <1>4
  <2>2. ASSUME NEW k \in 1..Len(event_queue')
        PROVE  event_queue'[k][2] <= edges[event_queue'[k][1]]
    <3>1. CASE k = Len(event_queue) + 1
      BY <1>3, <2>1, <3>1
    <3>2. CASE k \in 1..Len(event_queue)
      BY <2>1, <3>2 DEF IInv, EdgeInv, Behind
    <3>3. QED
      BY <2>1, <3>1, <3>2
  <2>3. QED
    BY <1>1, <2>2 DEF Behind
<1>9. EdgeInv'
  BY <1>1, <1>2, <1>8 DEF IInv, EdgeInv, Behind
<1>10. OrderInv'
  BY <1>6, EnqueueOrder
<1>11. QED
  BY <1>6, <1>7, <1>9, <1>10 DEF IInv

\* publish_all_states samples every input it can read as its line is now, so no
\* later than the events on the topic.
LEMMA Published ==
  ASSUME IInv, NEW readable \in SUBSET Ios, publish_all_states(readable), UNCHANGED published
  PROVE  /\ shown' \in [Ios -> {"none", "active", "inactive"}]
         /\ sampled' \in [Inputs -> SUBSET (0..MaxEdges)]
         /\ StatesFollowEvents'
<1>1. /\ edges \in [Inputs -> 0..MaxEdges] /\ published \in Seq(Event)
      /\ shown \in [Ios -> {"none", "active", "inactive"}]
  BY DEF IInv, TypeOK
<1>2. /\ shown' = [i \in Ios |-> IF i \in readable THEN label(active(i)) ELSE shown[i]]
      /\ sampled' = [i \in Inputs |-> IF i \in readable THEN {edges[i]} ELSE {}]
  BY DEF publish_all_states
<1>3. shown' \in [Ios -> {"none", "active", "inactive"}]
  BY <1>1, <1>2 DEF label
<1>4. sampled' \in [Inputs -> SUBSET (0..MaxEdges)]
  BY <1>1, <1>2
<1>5. ASSUME NEW k \in 1..Len(published), NEW edge \in sampled'[published[k][1]]
      PROVE  edge >= published[k][2]
  <2>1. published[k][1] \in Inputs /\ published[k][2] \in 1..MaxEdges
    BY <1>1 DEF Event
  <2>2. edge = edges[published[k][1]]
    BY <1>2, <1>5, <2>1
  <2>3. edges[published[k][1]] \in Nat /\ published[k][2] <= edges[published[k][1]]
    BY <1>1, <2>1 DEF IInv, EdgeInv, Behind
  <2>4. QED
    BY <2>1, <2>2, <2>3, MiscIoAssumption
<1>6. QED
  BY <1>3, <1>4, <1>5 DEF StatesFollowEvents

\* The steps that leave the events where they are: construction, the states, a
\* command, the shutdown, cleaning up, and an edge.
LEMMA QuietInv ==
  ASSUME IInv,
         \/ \E i \in Ios : register_io(i) \/ cleanup_io(i)
         \/ \E readable \in SUBSET Ios : Constructed(readable) \/ publish_states(readable)
         \/ \E i \in Ios, want \in BOOLEAN : on_command(i, want)
         \/ \E i \in Inputs : Edge(i)
         \/ Shutdown \/ UNCHANGED vars
  PROVE  IInv'
<1> USE DEF nodeVars, lineVars
<1>1. UNCHANGED <<published, local_queue, event_queue, monitor, reported>>
  BY DEF register_io, cleanup_io, Constructed, publish_states, on_command, Edge, Shutdown, vars
<1> DEFINE Quiet ==
        /\ TypeOK' /\ StatesFollowEvents' /\ LifeInv'
        /\ (main' = "drain" <=> main = "drain") /\ (main' = "gone" <=> main = "gone")
        /\ \A i \in Inputs : edges[i] \in Nat /\ edges'[i] \in Nat /\ edges[i] <= edges'[i]
<1>2. Quiet
  <2> USE DEF IInv, TypeOK, LifeInv
  <2>1. ASSUME NEW i \in Ios, register_io(i) PROVE Quiet
    <3>1. main = "construct" /\ main' \in {"construct", "cleanup"} /\ UNCHANGED edges
      BY <2>1 DEF register_io
    <3>2. devs' \in SUBSET Ios /\ contexts' \in SUBSET Ios /\ devs \subseteq devs'
          /\ devs' \subseteq contexts'
      BY <2>1 DEF register_io
    <3>3. TypeOK'
      BY <2>1, <3>1, <3>2 DEF register_io
    <3>4. LifeInv'
      BY <1>1, <3>1, <3>2
    <3>5. StatesFollowEvents' /\ \A j \in Inputs : edges[j] \in Nat
      BY <3>1 DEF StatesFollowEvents
    <3>6. QED
      BY <3>1, <3>3, <3>4, <3>5
  <2>2. ASSUME NEW i \in Ios, cleanup_io(i) PROVE Quiet
    BY <2>2 DEF cleanup_io, StatesFollowEvents
  <2>3. ASSUME NEW readable \in SUBSET Ios, Constructed(readable) \/ publish_states(readable)
        PROVE  Quiet
    BY <2>3, Published DEF Constructed, publish_states
  <2>4. ASSUME NEW i \in Ios, NEW want \in BOOLEAN, on_command(i, want) PROVE Quiet
    <3>1. UNCHANGED <<main, devs, contexts, published, sampled, edges>>
      BY <2>4 DEF on_command
    <3>2. driven' \in [Outputs -> BOOLEAN]
      <4>1. driven' = driven \/ driven' = [driven EXCEPT ![i] = want]
        BY <2>4 DEF on_command
      <4>2. QED
        BY <4>1
    <3>3. shown' \in [Ios -> {"none", "active", "inactive"}]
      BY <2>4 DEF on_command, label
    <3>4. TypeOK'
      BY <1>1, <3>1, <3>2, <3>3
    <3>5. StatesFollowEvents' /\ LifeInv' /\ \A j \in Inputs : edges[j] \in Nat
      BY <1>1, <3>1 DEF StatesFollowEvents
    <3>6. QED
      BY <3>1, <3>4, <3>5
  <2>5. ASSUME NEW i \in Inputs, Edge(i) PROVE Quiet
    BY <2>5, MiscIoAssumption DEF Edge, StatesFollowEvents
  <2>6. CASE Shutdown \/ UNCHANGED vars
    <3>1. /\ main' = main \/ (main = "spin" /\ main' = "cleanup")
          /\ UNCHANGED <<devs, contexts, published, sampled, edges, driven, shown>>
      BY <2>6 DEF Shutdown, vars
    <3>2. TypeOK'
      BY <1>1, <2>6, <3>1 DEF Shutdown, vars
    <3>3. LifeInv'
      BY <1>1, <3>1
    <3>4. StatesFollowEvents'
      BY <1>1, <3>1 DEF StatesFollowEvents
    <3>5. \A j \in Inputs : edges[j] \in Nat
      OBVIOUS
    <3>6. QED
      BY <3>1, <3>2, <3>3, <3>4, <3>5
  <2>7. QED
    BY <2>1, <2>2, <2>3, <2>4, <2>5, <2>6
<1>3. BatchInv' /\ EdgeInv'
  <2>1. Behind(published)' /\ Behind(local_queue)' /\ Behind(event_queue)'
    <3>1. ASSUME NEW s \in Seq(Event), Behind(s), NEW k \in 1..Len(s)
          PROVE  s[k][2] <= edges'[s[k][1]]
      <4>1. s[k][1] \in Inputs /\ s[k][2] \in 1..MaxEdges /\ s[k][2] <= edges[s[k][1]]
        BY <3>1 DEF Behind, Event
      <4>2. QED
        BY <1>2, <4>1, MiscIoAssumption
    <3>2. QED
      BY <1>1, <3>1 DEF IInv, EdgeInv, TypeOK, Behind
  <2>2. \A i \in Inputs : reported[i] \in Nat /\ reported[i] <= edges'[i]
    BY <1>2 DEF IInv, EdgeInv, TypeOK
  <2>3. QED
    BY <1>1, <1>2, <2>1, <2>2 DEF IInv, EdgeInv, BatchInv
<1>4. Stream' = Stream
  BY <1>1 DEF Stream
<1>5. OrderInv'
  <2>1. CASE main # "gone"
    BY <1>1, <1>2, <1>4, <2>1, SameStream
  <2>2. CASE main = "gone"
    BY <1>1, <1>2, <2>2 DEF IInv, OrderInv, Alternating
  <2>3. QED
    BY <2>1, <2>2
<1>6. QED
  BY <1>2, <1>3, <1>5 DEF IInv

\* The steps of the timer that move the events on.
LEMMA DrainInv ==
  ASSUME IInv, drain_events \/ publish_event
  PROVE  IInv'
<1> USE DEF IInv, BatchInv
<1>0. /\ event_queue \in Seq(Event) /\ local_queue \in Seq(Event) /\ published \in Seq(Event)
      /\ Behind(published) /\ Behind(local_queue) /\ Behind(event_queue)
  BY DEF TypeOK, EdgeInv
<1>1. CASE drain_events
  <2>1. /\ main = "spin" /\ main' = IF event_queue = <<>> THEN "states" ELSE "drain"
        /\ local_queue' = event_queue /\ event_queue' = <<>>
        /\ UNCHANGED <<devs, contexts, published, shown, sampled, edges, driven, monitor,
                       reported>>
    BY <1>1 DEF drain_events, lineVars
  <2>2. TypeOK'
    BY <1>0, <2>1 DEF TypeOK
  <2>3. Stream' = Stream
    BY <2>1, SwapBatch DEF Stream
  <2>4. OrderInv'
    BY <2>1, <2>2, <2>3, SameStream
  <2>5. EdgeInv'
    BY <1>0, <2>1 DEF EdgeInv, Behind
  <2>6. LifeInv' /\ BatchInv' /\ StatesFollowEvents'
    BY <2>1 DEF LifeInv, StatesFollowEvents
  <2>7. QED
    BY <2>2, <2>4, <2>5, <2>6
<1>2. CASE publish_event
  <2>1. /\ main = "drain" /\ main' = IF local_queue' = <<>> THEN "states" ELSE "drain"
        /\ published' = Append(published, Head(local_queue))
        /\ local_queue' = Tail(local_queue)
        /\ UNCHANGED <<devs, contexts, event_queue, shown, sampled, edges, driven, monitor,
                       reported>>
    BY <1>2 DEF publish_event, lineVars
  <2>2. Head(local_queue) \in Event /\ Tail(local_queue) \in Seq(Event) /\ local_queue # <<>>
    BY <2>1, MoveHead
  <2>3. TypeOK'
    BY <1>0, <2>1, <2>2 DEF TypeOK
  <2>4. Stream' = Stream
    BY <2>1, <2>2, MoveHead DEF Stream
  <2>5. OrderInv'
    BY <2>1, <2>3, <2>4, SameStream
  <2>6. Behind(published)'
    <3>1. /\ Len(published') = Len(published) + 1 /\ Len(published) \in Nat
          /\ published'[Len(published) + 1] = local_queue[1] /\ 1 \in 1..Len(local_queue)
          /\ \A k \in 1..Len(published) : published'[k] = published[k]
      BY <1>0, <2>1, <2>2
    <3>2. \A k \in 1..Len(published') : k = Len(published) + 1 \/ k \in 1..Len(published)
      BY <3>1
    <3>3. QED
      BY <1>0, <2>1, <3>1, <3>2 DEF Behind
  <2>7. Behind(local_queue)'
    <3>1. \A k \in 1..Len(local_queue') : /\ local_queue'[k] = local_queue[k + 1]
                                          /\ k + 1 \in 1..Len(local_queue)
      BY <1>0, <2>1, <2>2
    <3>2. QED
      BY <1>0, <2>1, <3>1 DEF Behind
  <2>8. EdgeInv'
    BY <1>0, <2>1, <2>6, <2>7 DEF EdgeInv, Behind
  <2>9. LifeInv' /\ BatchInv' /\ StatesFollowEvents'
    BY <2>1 DEF LifeInv, StatesFollowEvents
  <2>10. QED
    BY <2>3, <2>5, <2>8, <2>9
<1>3. QED
  BY <1>1, <1>2

\* Freeing the members drops what was queued; the topic keeps its order.
LEMMA FreeInv ==
  ASSUME IInv, free_ios
  PROVE  IInv'
<1>1. /\ main = "cleanup" /\ main' = "gone" /\ devs = {} /\ contexts' = {} /\ event_queue' = <<>>
      /\ UNCHANGED <<devs, local_queue, published, shown, sampled, edges, driven, monitor,
                     reported>>
  BY DEF free_ios, lineVars
<1>2. TypeOK'
  BY <1>1 DEF IInv, TypeOK
<1>3. LifeInv' /\ BatchInv' /\ StatesFollowEvents'
  BY <1>1 DEF IInv, LifeInv, BatchInv, StatesFollowEvents
<1>4. EdgeInv'
  BY <1>1 DEF IInv, EdgeInv, Behind
<1>5. OrderInv'
  BY <1>1 DEF IInv, OrderInv, Alternating
<1>6. QED
  BY <1>2, <1>3, <1>4, <1>5 DEF IInv

\* The invariant holds throughout.
THEOREM Invariance == Spec => []IInv
<1>1. Init => IInv
  <2> SUFFICES ASSUME Init PROVE IInv
    OBVIOUS
  <2>1. TypeOK /\ LifeInv /\ BatchInv /\ StatesFollowEvents
    BY MiscIoAssumption DEF Init, TypeOK, LifeInv, BatchInv, StatesFollowEvents
  <2>2. EdgeInv
    BY DEF Init, EdgeInv, Behind
  <2>3. Stream = <<>> /\ published = <<>>
    BY DEF Init, Stream
  <2>4. OrderInv
    BY <2>3 DEF OrderInv, Alternating
  <2>5. QED
    BY <2>1, <2>2, <2>4 DEF IInv
<1>2. IInv /\ [Next]_vars => IInv'
  <2> SUFFICES ASSUME IInv, [Next]_vars PROVE IInv'
    OBVIOUS
  <2>1. CASE drain_events \/ publish_event
    BY <2>1, DrainInv
  <2>2. CASE free_ios
    BY <2>2, FreeInv
  <2>3. CASE MonitorStep
    BY <2>3, ReportInv, EnqueueInv DEF MonitorStep
  <2>4. QED
    BY <2>1, <2>2, <2>3, QuietInv DEF Next, NodeStep, Finished
<1>3. QED
  BY <1>1, <1>2, PTL DEF Spec

-----------------------------------------------------------------------------

\* Types are kept.
THEOREM TypeCorrect == Spec => []TypeOK
BY Invariance, PTL DEF IInv

\* No monitor thread runs a callback whose context or node is freed: freeing a
\* device waits for its thread, and contexts go after all devices.
THEOREM CallbacksAreSafe == Spec => []NoCallbackAfterFree
<1>1. IInv => NoCallbackAfterFree
  BY DEF IInv, LifeInv, NoCallbackAfterFree
<1>2. QED
  BY <1>1, Invariance, PTL

\* ACTIVE and INACTIVE alternate on the topic for every input, in the order of
\* its edges, for any number of ios and edges.
THEOREM EventsAreInOrder == Spec => []EventsAlternate
<1>1. IInv => EventsAlternate
  BY DEF IInv, OrderInv, Alternating, EventsAlternate
<1>2. QED
  BY <1>1, Invariance, PTL

\* The states on their topic are no older than the events on theirs.
THEOREM StatesAreCurrent == Spec => []StatesFollowEvents
BY Invariance, PTL DEF IInv

=============================================================================
