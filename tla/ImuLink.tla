------------------------------ MODULE ImuLink ------------------------------
(***************************************************************************)
(* The IMU's way to its subscribers: imu_uart_node                         *)
(* (src/imu/src/imu_uart_node.cpp) or a package that uses MyImuPublisher   *)
(* writes messages through an ImuPublisher; a package that uses            *)
(* MyImuSubscriber is called back for those that its ImuSubscriber takes   *)
(* (src/imu/src/impl).  Writer and reader meet on a DDS topic, best effort *)
(* and volatile: a message may get lost on its way, and the reader drops   *)
(* what arrives late, so what is left stays in order.                      *)
(***************************************************************************)
EXTENDS Integers, Sequences

CONSTANTS
    Rates,        \* what may be asked for with -r
    TopicNames,   \* what the two sides may be told to use
    Timestamps,   \* the device's timestamps in microseconds, 0 for none
    SystemTime,   \* the seconds of gettimeofday, on a boundary of a second
    IntHalf,      \* half of the range of int32_t: 2^31, less in a small model
    MaxSamples,   \* bound: samples the device delivers
    MaxInFlight   \* bound: messages on the way

ImuAssumption ==
    /\ Timestamps \subseteq Nat /\ SystemTime \in Nat /\ IntHalf \in Nat \ {0}
    /\ MaxSamples \in Nat /\ MaxInFlight \in Nat

Sides == {"pub", "sub"}

VARIABLES
    producer,   \* who writes: "uart", or "wrapper" for a user of MyImuPublisher
    topic,      \* the name each side was told
    pc,         \* where each side's thread is
    entities,   \* what each side has created in DDS
    dev,        \* imu_dev_: not there, in use, or given back
    running,    \* g_running
    sampled,    \* what the device delivered last, <<>> before the first sample
    samples,    \* how many samples the device delivered
    net,        \* messages on their way
    callback,   \* callback_ of the listener: "none", being assigned, or "set"
    taken,      \* samples of the listener
    got,        \* history: what the callback was called with
    read        \* history: every sample the device delivered, in order

pubVars == <<producer, dev, running, sampled, samples, read>>
subVars == <<callback, taken, got>>
vars == <<topic, pc, entities, net, pubVars, subVars>>

-----------------------------------------------------------------------------
(* DDS entities.  "group" is the publisher or the subscriber, "endpoint"   *)
(* the writer or the reader.                                               *)

CreationOrder == <<"participant", "group", "topic", "endpoint">>

\* init creates one after the other and returns at the first that fails.
created(n) == {CreationOrder[k] : k \in 1..n}

deletion_order(side) ==
    IF side = "pub" THEN <<"endpoint", "group", "topic", "participant">>
                    ELSE <<"endpoint", "topic", "group", "participant">>

\* DDS refuses to delete what others still need.
needed(kind, S) ==
    \/ kind = "participant" /\ S \ {"participant"} # {}
    \/ kind \in {"group", "topic"} /\ "endpoint" \in S

delete(S, kind) == IF needed(kind, S) THEN S ELSE S \ {kind}

\* The destructors of ImuPublisher and ImuSubscriber.
destroyed(side) ==
    LET kind == deletion_order(side)
    IN  delete(delete(delete(delete(entities[side], kind[1]), kind[2]), kind[3]), kind[4])

\* The DDS name that both wrappers give the topic of a ROS 2 name.
rt_topic(name) ==
    CASE name \in {"imu", "/imu", "rt/imu"} -> "rt/imu"
      [] OTHER                              -> "rt/other"

dds_topic(side) ==
    IF side = "pub" /\ producer = "uart" THEN topic[side] ELSE rt_topic(topic[side])

\* The two sides find each other.
Matched == /\ \A side \in Sides : "endpoint" \in entities[side]
           /\ dds_topic("pub") = dds_topic("sub")

-----------------------------------------------------------------------------
(* Writing.                                                                *)

\* static_cast<int32_t>
int32(v) == ((v + IntHalf) % (2 * IntHalf)) - IntHalf

ros_time(us) == [sec |-> int32(us \div 1000000), nanosec |-> (us % 1000000) * 1000]

timestampUsToRosTime(us) ==
    IF us = 0 THEN [sec |-> int32(SystemTime), nanosec |-> 0] ELSE ros_time(us)

\* A user of MyImuPublisher has stamped the message, and the stamp is copied;
\* its seconds are an int32, too.
Message(data) ==
    [id |-> data.id, stamp |-> IF producer = "uart" THEN timestampUsToRosTime(data.timestamp_us)
                               ELSE ros_time(data.timestamp_us)]

\* A message to nobody is gone: the writer keeps nothing for late readers.
write(data) ==
    net' = IF Matched /\ Len(net) < MaxInFlight THEN Append(net, Message(data)) ELSE net

at(side, from, to) == pc[side] = from /\ pc' = [pc EXCEPT ![side] = to]

create_entities(side, n) == entities' = [entities EXCEPT ![side] = created(n)]

delete_entities(side) == entities' = [entities EXCEPT ![side] = destroyed(side)]

-----------------------------------------------------------------------------
(* imu_uart_node.                                                          *)

Init ==
    /\ producer \in {"uart", "wrapper"}
    /\ topic \in [Sides -> TopicNames]
    /\ pc = [pub |-> "args", sub |-> "construct"]
    /\ entities = [side \in Sides |-> {}]
    /\ dev = "null" /\ running = TRUE
    /\ sampled = <<>> /\ samples = 0 /\ read = <<>>
    /\ net = <<>>
    /\ callback = "none" /\ taken = 0 /\ got = <<>>

\* A rate of 0 or above 1000 ends the program at once.
parse_arguments ==
    /\ producer = "uart"
    /\ \E rate \in Rates : at("pub", "args", IF rate \in 1..1000 THEN "alloc" ELSE "exit")
    /\ UNCHANGED <<topic, entities, net, pubVars, subVars>>

init_device(allocated, initialized) ==
    /\ at("pub", "alloc", IF allocated /\ initialized THEN "dds" ELSE "delete")
    /\ dev' = IF ~allocated THEN "null" ELSE IF initialized THEN "open" ELSE "freed"
    /\ UNCHANGED <<topic, entities, net, producer, running, sampled, samples, read, subVars>>

\* Mutant: the loop begins by setting g_running.
init_publisher_rearms(n) ==
    /\ at("pub", "dds", IF n = 4 THEN "loop" ELSE "free")
    /\ create_entities("pub", n)
    /\ running' = TRUE
    /\ UNCHANGED <<topic, net, producer, dev, sampled, samples, read, subVars>>

init_publisher(n) ==
    /\ at("pub", "dds", IF n = 4 THEN "loop" ELSE "free")
    /\ create_entities("pub", n)
    /\ UNCHANGED <<topic, net, pubVars, subVars>>

\* A sample from the device: a new record with a timestamp of its own.
imu_read(timestamp_us) ==
    /\ samples < MaxSamples
    /\ samples' = samples + 1
    /\ sampled' = <<[id |-> samples', timestamp_us |-> timestamp_us]>>
    /\ read' = Append(read, sampled'[1])

\* Mutant: a failed read goes on to the write.
read_failure_written ==
    /\ running
    /\ at("pub", "loop", "sleep")
    /\ IF sampled # <<>> THEN write(sampled[1]) ELSE UNCHANGED net
    /\ UNCHANGED <<topic, entities, pubVars, subVars>>

read_failure ==
    /\ running
    /\ at("pub", "loop", "sleep")
    /\ UNCHANGED <<topic, entities, net, pubVars, subVars>>

read_and_write ==
    /\ running
    /\ at("pub", "loop", "sleep")
    /\ \E us \in Timestamps : imu_read(us)
    /\ write(sampled'[1])
    /\ UNCHANGED <<topic, entities, producer, dev, running, subVars>>

usleep ==
    /\ at("pub", "sleep", "loop")
    /\ UNCHANGED <<topic, entities, net, pubVars, subVars>>

\* SIGINT or SIGTERM, at any time: init begins by installing the handler.
signalHandler ==
    /\ producer = "uart"
    /\ pc["pub"] \in {"alloc", "dds", "loop", "sleep", "free", "delete"}
    /\ running' = FALSE
    /\ UNCHANGED <<topic, pc, entities, net, producer, dev, sampled, samples, read, subVars>>

leave_loop ==
    /\ ~running
    /\ at("pub", "loop", "free")
    /\ UNCHANGED <<topic, entities, net, pubVars, subVars>>

\* ~ImuUartNode, and then the destructor of its ImuPublisher.
free_device ==
    /\ at("pub", "free", "delete")
    /\ dev' = IF dev = "null" THEN "null" ELSE "freed"
    /\ UNCHANGED <<topic, entities, net, producer, running, sampled, samples, read, subVars>>

delete_publisher ==
    /\ at("pub", "delete", "exit")
    /\ delete_entities("pub")
    /\ UNCHANGED <<topic, net, pubVars, subVars>>

-----------------------------------------------------------------------------
(* A user of MyImuPublisher.  The constructor does not look at what init   *)
(* returns, and publish writes through writer_ whether it is there or not. *)

construct_wrapper(n) ==
    /\ producer = "wrapper"
    /\ at("pub", "args", "use")
    /\ create_entities("pub", n)
    /\ UNCHANGED <<topic, net, pubVars, subVars>>

publish ==
    /\ IF "endpoint" \in entities["pub"]
       THEN /\ at("pub", "use", "use")
            /\ \E us \in Timestamps : imu_read(us)
            /\ write(sampled'[1])
       ELSE /\ at("pub", "use", "crashed")
            /\ UNCHANGED <<net, sampled, samples, read>>
    /\ UNCHANGED <<topic, entities, producer, dev, running, subVars>>

destroy_wrapper ==
    /\ at("pub", "use", "exit")
    /\ delete_entities("pub")
    /\ UNCHANGED <<topic, net, pubVars, subVars>>

-----------------------------------------------------------------------------
(* A user of MyImuSubscriber, and the thread that DDS calls its listener   *)
(* on.                                                                     *)

construct_subscriber(n) ==
    /\ at("sub", "construct", "use")
    /\ create_entities("sub", n)
    /\ UNCHANGED <<topic, net, pubVars, subVars>>

\* callback_ is assigned under callback_mutex_, which the listener does not take.
begin_set_callback ==
    /\ at("sub", "use", "setting")
    /\ callback' = "assigned"
    /\ UNCHANGED <<topic, entities, net, pubVars, taken, got>>

end_set_callback ==
    /\ at("sub", "setting", "use")
    /\ callback' = "set"
    /\ UNCHANGED <<topic, entities, net, pubVars, taken, got>>

take_next_sample == net' = Tail(net)

\* A callback_ that is being assigned may be seen as empty or as it will be,
\* or the call through it may go anywhere.
on_data_available(seen) ==
    /\ net # <<>> /\ "endpoint" \in entities["sub"] /\ pc["sub"] \in {"use", "setting"}
    /\ callback # "assigned" => seen = callback
    /\ take_next_sample
    /\ taken' = taken + 1
    /\ got' = IF seen = "set" THEN Append(got, Head(net)) ELSE got
    /\ pc' = IF seen = "torn" THEN [pc EXCEPT !["sub"] = "crashed"] ELSE pc
    /\ UNCHANGED <<topic, entities, pubVars, callback>>

destroy_subscriber ==
    /\ at("sub", "use", "exit")
    /\ delete_entities("sub")
    /\ net' = <<>>
    /\ UNCHANGED <<topic, pubVars, subVars>>

\* Best effort.
lose ==
    /\ net # <<>>
    /\ net' = Tail(net)
    /\ UNCHANGED <<topic, pc, entities, pubVars, subVars>>

-----------------------------------------------------------------------------

UartStep ==
    \/ parse_arguments
    \/ \E allocated, initialized \in BOOLEAN : init_device(allocated, initialized)
    \/ \E n \in 0..4 : init_publisher(n)
    \/ read_failure \/ read_and_write \/ usleep
    \/ leave_loop \/ free_device \/ delete_publisher

WrapperStep == \/ \E n \in 0..4 : construct_wrapper(n)
               \/ publish \/ destroy_wrapper

SubscriberStep ==
    \/ \E n \in 0..4 : construct_subscriber(n)
    \/ begin_set_callback \/ end_set_callback
    \/ \E seen \in {"none", "set", "torn"} : on_data_available(seen)
    \/ destroy_subscriber

Next == UartStep \/ WrapperStep \/ SubscriberStep \/ signalHandler \/ lose

Spec == Init /\ [][Next]_vars

\* The node's thread keeps going: reads, writes and sleeps return.
Fairness == WF_vars(UartStep)

-----------------------------------------------------------------------------
(* Properties.                                                             *)

\* A crash is only where the wrappers do not look: a publisher that was not
\* created, or a callback that is assigned while data arrives.
TypeOK ==
    /\ entities \in [Sides -> SUBSET {"participant", "group", "topic", "endpoint"}]
    /\ dev \in {"null", "open", "freed"}
    /\ running \in BOOLEAN /\ samples \in 0..MaxSamples
    /\ callback \in {"none", "assigned", "set"}
    /\ Len(net) <= MaxInFlight /\ Len(got) <= taken
    /\ pc["pub"] = "crashed" => producer = "wrapper" /\ "endpoint" \notin entities["pub"]
    /\ pc["sub"] = "crashed" => callback = "assigned"

\* However far init came, the end gives everything back: the device, and every
\* DDS entity, none of which is deleted while another one needs it.
GivenBack ==
    /\ pc["pub"] \in {"dds", "loop", "sleep"} => dev = "open"
    /\ pc["pub"] = "exit" => dev # "open" /\ entities["pub"] = {}
    /\ pc["sub"] = "exit" => entities["sub"] = {}

\* What the callback sees are samples of the device, each at most once and in
\* the order they were read: a failed read publishes nothing, and a lost message
\* loses nothing but itself.  The stamp is the device's time, when it gave one
\* and as long as the seconds fit 32 bits (until January 2038 for times since
\* 1970); beyond that they wrap, and only their range is kept.
DeliveredIsRead ==
    /\ \A k \in 1..Len(got) :
          /\ got[k].id \in 1..Len(read)
          /\ got[k].stamp.sec \in -IntHalf..(IntHalf - 1)
          /\ got[k].stamp.nanosec < 1000000000
          /\ LET us == read[got[k].id].timestamp_us
             IN  us # 0 /\ us \div 1000000 < IntHalf =>
                    got[k].stamp.sec * 1000000 + got[k].stamp.nanosec \div 1000 = us
    /\ \A j, k \in 1..Len(got) : j < k => got[j].id < got[k].id

\* A signal ends the node, with all of its resources given back.
SignalEnds ==
    ~running ~> pc["pub"] = "exit" /\ dev # "open" /\ entities["pub"] = {}

=============================================================================
