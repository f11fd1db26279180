---------------------------- MODULE Lidar2DNode ----------------------------
(***************************************************************************)
(* lidar_2d_node (src/lidar/src/lidar_2d_node.cpp): the driver's thread    *)
(* hands frames of points to publish_scan, which sorts them into the bins  *)
(* of a scan, while the node's thread is constructing the node, serves     *)
(* start_motor and stop_motor, or destroys the node.                       *)
(*                                                                         *)
(* Angles and ranges are integers in some unit.  The driver is external:   *)
(* it reports frames from lidar_start on, and lidar_free waits for the     *)
(* frame that is being reported.                                           *)
(***************************************************************************)
EXTENDS Integers, Sequences

CONSTANTS
    Transport,           \* parameter channel_type
    RangeMin, RangeMax,  \* parameters range_min, range_max
    ScanParams,          \* what angle_min, angle_max and scan_bins may be set to
    Frames               \* what the lidar may report

Point == [angle : Int, range : Int, intensity : Int]

\* Types only: the code looks at no parameter but channel_type, so that a sector
\* may be reversed or without width and the number of bins 0 or negative.
LidarAssumption ==
    /\ RangeMin \in Int /\ RangeMax \in Int
    /\ ScanParams \subseteq [angle_min : Int, angle_max : Int, scan_bins : Int]
    /\ Frames \subseteq Seq(Point)

Transports == {"serial", "uart", "tcp", "ethernet", "sim"}

VARIABLES
    inverted,              \* inverted_
    flip_x_axis,           \* flip_x_axis_
    angle_min, angle_max,  \* angle_min_, angle_max_
    scan_bins,             \* scan_bins_
    pc,        \* where the node's thread is
    dev,       \* dev_: not there, in use, given back, or lost with the node
    started,   \* the driver's thread reports frames
    scan_pub,  \* scan_pub_ exists
    frame,     \* the frame that is being reported, <<>> for none
    scan_msg,  \* the scan that publish_scan makes of it
    i,         \* how many points of it are sorted into the scan
    topic,     \* the last scan
    crashed,   \* a frame met no publisher, or bins that cannot be allocated
    source     \* history: the frame the last scan was made from

params == <<inverted, flip_x_axis, angle_min, angle_max, scan_bins>>
conversion == <<frame, scan_msg, i>>
vars == <<params, pc, dev, started, scan_pub, conversion, topic, crashed, source>>

-----------------------------------------------------------------------------
(* publish_scan: points [angle, range, intensity] become a scan.           *)

Bins == 0..(scan_bins - 1)
Infinity == RangeMax + 1 \* farther than any range that is kept
Blank == [ranges |-> [b \in Bins |-> Infinity], intensities |-> [b \in Bins |-> 0]]

in_range(p) == p.range >= RangeMin /\ p.range <= RangeMax

angle_of(p) == IF inverted THEN -p.angle ELSE p.angle

in_sector(p) == angle_of(p) >= angle_min /\ angle_of(p) <= angle_max

flipped(idx) ==
    LET midpoint == scan_bins \div 2
    IN  IF ~flip_x_axis THEN idx
        ELSE IF idx >= midpoint THEN idx - midpoint ELSE idx + midpoint

\* (angle - angle_min) / angle_increment, cut to an int.  Without a width that
\* is 0 / 0, and what it is cut to is undefined: any bin, or -1 for none.
bins_of(p) ==
    IF angle_min < angle_max
    THEN {flipped(((angle_of(p) - angle_min) * scan_bins) \div (angle_max - angle_min))}
    ELSE -1..(scan_bins - 1)

\* Mutant: the last point of a bin wins.
add_last(scan, p, bin) ==
    IF in_range(p) /\ in_sector(p) /\ bin \in Bins
    THEN [scan EXCEPT !.ranges[bin] = p.range, !.intensities[bin] = p.intensity]
    ELSE scan

add_point(scan, p, bin) ==
    IF in_range(p) /\ in_sector(p) /\ bin \in Bins /\ p.range < scan.ranges[bin]
    THEN [scan EXCEPT !.ranges[bin] = p.range, !.intensities[bin] = p.intensity]
    ELSE scan

-----------------------------------------------------------------------------
(* The node's thread.                                                      *)

Init ==
    /\ inverted \in BOOLEAN /\ flip_x_axis \in BOOLEAN
    /\ \E p \in ScanParams : /\ angle_min = p.angle_min /\ angle_max = p.angle_max
                            /\ scan_bins = p.scan_bins
    /\ pc = "alloc"
    /\ dev = "null"
    /\ started = FALSE /\ scan_pub = FALSE
    /\ frame = <<>> /\ scan_msg = Blank /\ i = 0
    /\ topic = <<>> /\ source = <<>>
    /\ crashed = FALSE

alloc_device(ok) ==
    /\ pc = "alloc"
    /\ IF Transport \in Transports /\ ok THEN pc' = "init" /\ dev' = "open"
                                         ELSE pc' = "failed" /\ UNCHANGED dev
    /\ UNCHANGED <<params, started, scan_pub, conversion, topic, crashed, source>>

\* The exceptions of the constructor skip the destructor, so the device and,
\* once it is started, its thread outlive the node.
lost == pc' = "failed" /\ dev' = "lost"

init_device(ok) ==
    /\ pc = "init"
    /\ IF ok THEN pc' = "start" /\ UNCHANGED dev ELSE lost
    /\ UNCHANGED <<params, started, scan_pub, conversion, topic, crashed, source>>

\* lidar_set_callback and lidar_start.
start_device(ok) ==
    /\ pc = "start"
    /\ IF ok THEN pc' = "create" /\ started' = TRUE /\ UNCHANGED dev
             ELSE lost /\ UNCHANGED started
    /\ UNCHANGED <<params, scan_pub, conversion, topic, crashed, source>>

\* The publisher and the services; a name that is none throws.
create(ok) ==
    /\ pc = "create"
    /\ IF ok THEN pc' = "spin" /\ scan_pub' = TRUE /\ UNCHANGED dev
             ELSE lost /\ UNCHANGED scan_pub
    /\ UNCHANGED <<params, started, conversion, topic, crashed, source>>

\* What lidar_stop and lidar_start answer is not looked at.
stop_motor_callback(ok) ==
    /\ pc = "spin"
    /\ started' = (started /\ ~ok)
    /\ UNCHANGED <<params, pc, dev, scan_pub, conversion, topic, crashed, source>>

start_motor_callback(ok) ==
    /\ pc = "spin"
    /\ started' = (started \/ ok)
    /\ UNCHANGED <<params, pc, dev, scan_pub, conversion, topic, crashed, source>>

\* The destructor: lidar_stop, which may fail, then lidar_free.
stop_device(ok) ==
    /\ pc = "spin"
    /\ pc' = "free"
    /\ started' = (started /\ ~ok)
    /\ UNCHANGED <<params, dev, scan_pub, conversion, topic, crashed, source>>

\* Mutant: the device is only stopped.
free_nothing ==
    /\ pc = "free"
    /\ pc' = "members"
    /\ UNCHANGED <<params, dev, started, scan_pub, conversion, topic, crashed, source>>

free_device ==
    /\ pc = "free" /\ frame = <<>>
    /\ pc' = "members"
    /\ dev' = "freed" /\ started' = FALSE
    /\ UNCHANGED <<params, scan_pub, conversion, topic, crashed, source>>

destroy_members ==
    /\ pc = "members"
    /\ pc' = "destroyed"
    /\ scan_pub' = FALSE
    /\ UNCHANGED <<params, dev, started, conversion, topic, crashed, source>>

-----------------------------------------------------------------------------
(* The driver's thread.                                                    *)

\* publish_scan begins with a scan that is blank; vectors of a negative size
\* throw, in the driver's thread.
report_frame ==
    /\ started /\ ~crashed
    /\ frame = <<>>
    /\ \E points \in Frames :
          IF points # <<>> /\ scan_bins < 0
          THEN crashed' = TRUE /\ UNCHANGED frame
          ELSE frame' = <<points>> /\ UNCHANGED crashed
    /\ scan_msg' = Blank /\ i' = 0
    /\ UNCHANGED <<params, pc, dev, started, scan_pub, topic, source>>

\* One turn of the loop of publish_scan.
sort_point ==
    /\ frame # <<>> /\ i < Len(frame[1])
    /\ LET p == frame[1][i + 1]
       IN  \E bin \in bins_of(p) : scan_msg' = add_point(scan_msg, p, bin)
    /\ i' = i + 1
    /\ UNCHANGED <<params, pc, dev, started, scan_pub, frame, topic, crashed, source>>

\* The end of publish_scan; an empty frame is not published.
publish_scan ==
    /\ frame # <<>> /\ i = Len(frame[1])
    /\ frame' = <<>> /\ scan_msg' = Blank /\ i' = 0
    /\ IF frame[1] = <<>> THEN UNCHANGED <<topic, crashed, source>>
       ELSE IF scan_pub
       THEN topic' = <<scan_msg>> /\ source' = frame /\ UNCHANGED crashed
       ELSE crashed' = TRUE /\ UNCHANGED <<topic, source>>
    /\ UNCHANGED <<params, pc, dev, started, scan_pub>>

NodeStep ==
    \/ \E ok \in BOOLEAN :
          \/ alloc_device(ok) \/ init_device(ok) \/ start_device(ok) \/ create(ok)
          \/ stop_motor_callback(ok) \/ start_motor_callback(ok) \/ stop_device(ok)
    \/ free_device \/ destroy_members

\* A crash is the end of both threads.
Next == \/ ~crashed /\ NodeStep
        \/ report_frame \/ sort_point \/ publish_scan

Spec == Init /\ [][Next]_vars

-----------------------------------------------------------------------------
(* Properties.                                                             *)

\* The driver's thread runs only with a device.
TypeOK ==
    /\ inverted \in BOOLEAN /\ flip_x_axis \in BOOLEAN
    /\ angle_min \in Int /\ angle_max \in Int /\ scan_bins \in Int
    /\ pc \in {"alloc", "init", "start", "create", "spin", "free", "members",
               "failed", "destroyed"}
    /\ dev \in {"null", "open", "freed", "lost"}
    /\ {started, scan_pub, crashed} \subseteq BOOLEAN
    /\ started => dev \in {"open", "lost"}
    /\ Len(frame) <= 1 /\ Len(topic) <= 1 /\ Len(source) <= 1

\* The device is there for every call, and the destructor gives it back.
GivenBack ==
    /\ pc \in {"init", "start", "create", "spin", "free"} => dev = "open"
    /\ pc \in {"members", "destroyed"} => dev = "freed"

\* Unless a negative number of bins is asked for, which the node does not look
\* at, a frame meets a publisher that is not there only while the node is being
\* constructed, or after its construction failed with the device started:
\* neither the services nor the destructor, whose members go after the device,
\* can race with the driver's thread.
FramesAreSafe ==
    [][crashed' # crashed => pc \in {"create", "failed"} \/ scan_bins < 0]_vars

\* The turn, from 0 at angle_min, of the direction of p.
Turn(p) == (IF inverted THEN -p.angle ELSE p.angle) - angle_min

\* p lies in the k-th of the scan_bins parts of the sector.  A part has its lower
\* end; angle_max alone is left for a part of its own, the one after the last.
InSector(p, k) ==
    LET width == angle_max - angle_min
    IN  /\ Turn(p) <= width
        /\ k * width <= Turn(p) * scan_bins /\ Turn(p) * scan_bins < (k + 1) * width

\* The parts that bin b stands for: its own or, with flip_x_axis, those half of
\* the bins away.  Of an even number of bins that is one part, and angle_max
\* goes with angle_min, which it is on a full circle.  Of an odd number the
\* middle bin stands for two parts, and the last one for angle_max alone.
Directions(b) ==
    LET half == scan_bins \div 2
    IN  IF ~flip_x_axis THEN {b}
        ELSE {k \in 0..scan_bins : k = b + half \/ (k = b - half /\ k < half)}

\* The points of P that bin b is to show: in its parts and within the range.
Shown(P, b) ==
    {p \in P : /\ \E k \in Directions(b) : InSector(p, k)
               /\ p.range \in RangeMin..RangeMax}

\* Every bin holds the nearest of its points, or infinity if there is none,
\* and the intensity of such a point.  A sector without a width has no parts
\* (its bin is a quotient 0 / 0), so that nothing is said of it.
Nearest(scan, P) ==
    angle_min # angle_max =>
       \A b \in Bins :
          /\ \A p \in Shown(P, b) : scan.ranges[b] <= p.range
          /\ \/ scan.ranges[b] = Infinity /\ Shown(P, b) = {}
             \/ \E p \in Shown(P, b) : /\ scan.ranges[b] = p.range
                                      /\ scan.intensities[b] = p.intensity

\* The first n points of a frame.
First(points, n) == {points[j] : j \in 1..n}

\* The last scan shows the points of its frame, in whatever order the lidar
\* reported them.
ScanIsNearest ==
    \A k \in 1..Len(topic) : Nearest(topic[k], First(source[1], Len(source[1])))

=============================================================================
