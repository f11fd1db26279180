--------------------------- MODULE LidarImuProofs ---------------------------
(***************************************************************************)
(* Proofs about two of the nodes of SensorNodes, Lidar2DNode and ImuLink:  *)
(* what they start with, and what each of their steps preserves.           *)
(***************************************************************************)
EXTENDS SensorNodes, TLAPS

-----------------------------------------------------------------------------
(* The lidar: how points are sorted into bins.                             *)

\* a \div w is k exactly if a lies in the k-th interval of width w.
LEMMA Quotient ==
  ASSUME NEW a \in Int, NEW w \in Nat \ {0}, NEW k \in Int
  PROVE  a \div w = k <=> k * w <= a /\ a < (k + 1) * w
<1> DEFINE q == a \div w
           r == a % w
<1>1. q \in Int /\ r \in 0..(w - 1) /\ a = w * q + r
  OBVIOUS
<1> HIDE DEF q, r
<1>2. ASSUME q = k PROVE k * w <= a /\ a < (k + 1) * w
  BY <1>1, <1>2
<1>3. ASSUME k * w <= a, a < (k + 1) * w PROVE q = k
  <2>1. CASE q < k
    <3>1. PICK d \in Nat : k = q + 1 + d
      <4>1. k - q - 1 \in Nat /\ k = q + 1 + (k - q - 1)
        BY <1>1, <2>1
      <4>2. QED
        BY <4>1
    <3>2. k * w = q * w + w + d * w
      BY <1>1, <3>1
    <3>3. d * w >= 0
      BY <3>1
    <3>4. QED
      BY <1>1, <1>3, <3>2, <3>3
  <2>2. CASE q > k
    <3>1. PICK d \in Nat : q = k + 1 + d
      <4>1. q - k - 1 \in Nat /\ q = k + 1 + (q - k - 1)
        BY <1>1, <2>2
      <4>2. QED
        BY <4>1
    <3>2. w * q = (k + 1) * w + d * w
      BY <1>1, <3>1
    <3>3. d * w >= 0
      BY <3>1
    <3>4. QED
      BY <1>1, <1>3, <3>2, <3>3
  <2>3. QED
    BY <1>1, <2>1, <2>2
<1>4. QED
  BY <1>2, <1>3 DEF q

\* What the node never looks at: the parameters are of their types, no more.
ParamTypes ==
    /\ inverted \in BOOLEAN /\ flip_x_axis \in BOOLEAN
    /\ angle_min \in Int /\ angle_max \in Int /\ scan_bins \in Int

\* The scans that publish_scan makes.
Scan == [ranges : [Lidar!Bins -> Int], intensities : [Lidar!Bins -> Int]]

\* The index of a point within the angles, before flip_x_axis: the one after the
\* last bin included, it is the number of the part in which the point lies.
LEMMA Index ==
  ASSUME NEW t \in Nat, NEW w \in Nat \ {0}, NEW n \in Nat \ {0}, t <= w
  PROVE  LET idx == (t * n) \div w
         IN  /\ idx \in 0..n
             /\ \A k \in 0..n : idx = k <=> k * w <= t * n /\ t * n < (k + 1) * w
<1> DEFINE idx == (t * n) \div w
<1>1. t * n \in Nat /\ idx \in Int
  OBVIOUS
<1>2. t * n <= n * w
  <2>1. PICK d \in Nat : w = t + d
    <3>1. w - t \in Nat /\ w = t + (w - t)
      OBVIOUS
    <3>2. QED
      BY <3>1
  <2>2. n * w = t * n + d * n /\ d * n >= 0
    BY <2>1
  <2>3. QED
    BY <1>1, <2>2
<1>3. \A k \in Int : idx = k <=> k * w <= t * n /\ t * n < (k + 1) * w
  BY <1>1, Quotient
<1>4. idx * w <= t * n /\ t * n < (idx + 1) * w
  BY <1>1, <1>3
<1> HIDE DEF idx
<1>5. ASSUME idx < 0 PROVE FALSE
  <2>1. PICK d \in Nat : idx + 1 = -d
    <3>1. -(idx + 1) \in Nat /\ idx + 1 = -(-(idx + 1))
      BY <1>1, <1>5
    <3>2. QED
      BY <3>1
  <2>2. (idx + 1) * w = -(d * w) /\ d * w >= 0
    BY <2>1
  <2>3. QED
    BY <1>1, <1>4, <2>1, <2>2
<1>6. ASSUME idx > n PROVE FALSE
  <2>1. PICK d \in Nat : idx = n + 1 + d
    <3>1. idx - n - 1 \in Nat /\ idx = n + 1 + (idx - n - 1)
      BY <1>1, <1>6
    <3>2. QED
      BY <3>1
  <2>2. idx * w = n * w + w + d * w /\ d * w >= 0
    BY <2>1
  <2>3. QED
    BY <1>1, <1>2, <1>4, <2>2
<1>7. QED
  BY <1>1, <1>3, <1>5, <1>6 DEF idx

\* A point lies in a part only if it lies within the angles: none does if
\* angle_max is before angle_min.
LEMMA Within ==
  ASSUME NEW t \in Int, NEW w \in Int, NEW n \in Nat \ {0}, NEW k \in 0..n,
         t <= w, k * w <= t * n, t * n < (k + 1) * w
  PROVE  0 < w /\ 0 <= t
<1>1. (k + 1) * w = k * w + w /\ k * w \in Int /\ t * n \in Int
  OBVIOUS
<1>2. 0 < w
  BY <1>1
<1>3. 0 <= k * w
  BY <1>2
<1>4. ASSUME t < 0 PROVE FALSE
  <2>1. PICK d \in Nat : t = -1 - d
    <3>1. -1 - t \in Nat /\ t = -1 - (-1 - t)
      BY <1>4
    <3>2. QED
      BY <3>1
  <2>2. t * n = -n - d * n /\ d * n >= 0
    BY <2>1
  <2>3. QED
    BY <1>3, <2>2
<1>5. QED
  BY <1>2, <1>4

\* The exchange of the halves, for any number of bins.
LEMMA Flipped ==
  ASSUME ParamTypes, scan_bins \in Nat, NEW idx \in 0..scan_bins, NEW b \in Lidar!Bins
  PROVE  Lidar!flipped(idx) = b <=> idx \in Lidar!Directions(b)
<1> DEFINE m == scan_bins \div 2
<1>1. m \in Nat /\ b \in Nat
  BY DEF Lidar!Bins
<1>2. Lidar!flipped(idx) = IF ~flip_x_axis THEN idx ELSE IF idx >= m THEN idx - m ELSE idx + m
  BY DEF Lidar!flipped
<1>3. idx \in Lidar!Directions(b)
      <=> IF ~flip_x_axis THEN idx = b ELSE idx = b + m \/ (idx = b - m /\ idx < m)
  BY DEF Lidar!Directions
<1> HIDE DEF m
<1>4. QED
  BY <1>1, <1>2, <1>3 DEF ParamTypes

\* add_point sorts a point into the bin that stands for the part it is in.
LEMMA BinOf ==
  ASSUME ParamTypes, angle_min # angle_max,
         NEW p \in Lidar!Point, NEW b \in Lidar!Bins, NEW bin \in Lidar!bins_of(p)
  PROVE  Lidar!in_sector(p) /\ bin = b <=> \E k \in Lidar!Directions(b) : Lidar!InSector(p, k)
<1> DEFINE w   == angle_max - angle_min
           t   == Lidar!Turn(p)
           n   == scan_bins
           idx == (t * n) \div w
           in(k) == t <= w /\ k * w <= t * n /\ t * n < (k + 1) * w
<1>1. w \in Int /\ n \in Nat \ {0} /\ t \in Int /\ b \in 0..(n - 1)
  BY DEF ParamTypes, Lidar!Turn, Lidar!Point, Lidar!Bins
<1>2. Lidar!Directions(b) \subseteq 0..n
  BY <1>1 DEF Lidar!Directions
<1>3. \A k : Lidar!InSector(p, k) <=> in(k)
  BY DEF Lidar!InSector
<1>4. Lidar!in_sector(p) <=> 0 <= t /\ t <= w
  BY DEF ParamTypes, Lidar!in_sector, Lidar!angle_of, Lidar!Turn, Lidar!Point
<1>5. 0 < w => bin = Lidar!flipped(idx)
  BY DEF Lidar!bins_of, Lidar!angle_of, Lidar!Turn, ParamTypes
<1> HIDE DEF w, t, n, idx
<1>6. \A k \in 0..n : in(k) => 0 < w /\ 0 <= t /\ t <= w
  BY <1>1, Within
<1>7. CASE ~(0 <= t /\ t <= w)
  BY <1>2, <1>3, <1>4, <1>6, <1>7
<1>8. CASE 0 <= t /\ t <= w
  <2>1. w \in Nat \ {0} /\ t \in Nat
    BY <1>1, <1>8 DEF w, ParamTypes
  <2>2. idx \in 0..n /\ \A k \in 0..n : idx = k <=> k * w <= t * n /\ t * n < (k + 1) * w
    BY <1>1, <1>8, <2>1, Index DEF idx
  <2>3. \A k \in 0..n : in(k) <=> idx = k
    BY <1>8, <2>2
  <2>4. bin = b <=> idx \in Lidar!Directions(b)
    <3>1. n = scan_bins
      BY DEF n
    <3>2. bin = Lidar!flipped(idx)
      BY <1>5, <2>1
    <3>3. QED
      BY <1>1, <2>2, <3>1, <3>2, Flipped
  <2>5. QED
    BY <1>2, <1>3, <1>4, <1>8, <2>2, <2>3, <2>4
<1>9. QED
  BY <1>7, <1>8

\* So a point is shown by a bin exactly if add_point may put it there.
LEMMA ShownIn ==
  ASSUME ParamTypes, angle_min # angle_max, NEW P \in SUBSET Lidar!Point,
         NEW p \in Lidar!Point, NEW b \in Lidar!Bins, NEW bin \in Lidar!bins_of(p)
  PROVE  LET here == Lidar!in_range(p) /\ Lidar!in_sector(p) /\ bin = b
         IN  /\ here => Lidar!Shown(P \cup {p}, b) = Lidar!Shown(P, b) \cup {p}
             /\ ~here => Lidar!Shown(P \cup {p}, b) = Lidar!Shown(P, b)
<1>1. Lidar!in_range(p) <=> p.range \in RangeMin..RangeMax
  BY LidarIsConfigured DEF Lidar!LidarAssumption, Lidar!in_range, Lidar!Point
<1>2. Lidar!in_sector(p) /\ bin = b <=> \E k \in Lidar!Directions(b) : Lidar!InSector(p, k)
  BY BinOf
<1>3. QED
  BY <1>1, <1>2, Zenon DEF Lidar!Shown

\* One turn of the loop keeps the scan right.
LEMMA AddPoint ==
  ASSUME NEW p \in Lidar!Point, NEW P \in SUBSET Lidar!Point,
         NEW scan \in Scan, Lidar!Nearest(scan, P), ParamTypes, NEW bin \in Lidar!bins_of(p)
  PROVE  /\ Lidar!add_point(scan, p, bin) \in Scan
         /\ Lidar!Nearest(Lidar!add_point(scan, p, bin), P \cup {p})
<1> DEFINE fits == Lidar!in_range(p) /\ Lidar!in_sector(p)
           new  == Lidar!add_point(scan, p, bin)
<1>1. p.range \in Int /\ p.intensity \in Int
  BY DEF Lidar!Point
<1>2. fits /\ bin \in Lidar!Bins /\ p.range < scan.ranges[bin]
      => /\ new \in Scan
         /\ new.ranges = [scan.ranges EXCEPT ![bin] = p.range]
         /\ new.intensities = [scan.intensities EXCEPT ![bin] = p.intensity]
  <2> DEFINE r  == [scan.ranges EXCEPT ![bin] = p.range]
             s  == [scan.intensities EXCEPT ![bin] = p.intensity]
             to == [scan EXCEPT !.ranges = r, !.intensities = s]
  <2>1. fits /\ bin \in Lidar!Bins /\ p.range < scan.ranges[bin] => new = to
    BY DEF Lidar!add_point
  <2>2. r \in [Lidar!Bins -> Int] /\ s \in [Lidar!Bins -> Int]
    BY <1>1 DEF Scan
  <2> HIDE DEF r, s
  <2>3. to \in Scan /\ to.ranges = r /\ to.intensities = s
    BY <2>2 DEF Scan
  <2> HIDE DEF to, new, fits
  <2>4. QED
    BY <2>1, <2>3, Zenon DEF r, s
<1>3. ~(fits /\ bin \in Lidar!Bins /\ p.range < scan.ranges[bin]) => new = scan
  BY DEF Lidar!add_point
<1> HIDE DEF new
<1>4. new \in Scan
  BY <1>2, <1>3
<1>5. ASSUME angle_min # angle_max, NEW b \in Lidar!Bins
      PROVE  /\ \A q \in Lidar!Shown(P \cup {p}, b) : new.ranges[b] <= q.range
             /\ \/ new.ranges[b] = Lidar!Infinity /\ Lidar!Shown(P \cup {p}, b) = {}
                \/ \E q \in Lidar!Shown(P \cup {p}, b) : /\ new.ranges[b] = q.range
                                                         /\ new.intensities[b] = q.intensity
  <2>1. /\ \A q \in Lidar!Shown(P, b) : scan.ranges[b] <= q.range
        /\ \/ scan.ranges[b] = Lidar!Infinity /\ Lidar!Shown(P, b) = {}
           \/ \E q \in Lidar!Shown(P, b) : /\ scan.ranges[b] = q.range
                                           /\ scan.intensities[b] = q.intensity
    BY <1>5 DEF Lidar!Nearest
  <2>2. scan.ranges[b] \in Int /\ b \in DOMAIN scan.ranges /\ b \in DOMAIN scan.intensities
    BY DEF Scan
  <2>3. CASE fits /\ bin = b
    <3>1. Lidar!Shown(P \cup {p}, b) = Lidar!Shown(P, b) \cup {p}
      <4>1. Lidar!in_range(p) /\ Lidar!in_sector(p) /\ bin = b
        BY <2>3
      <4>2. QED
        BY <1>5, <4>1, ShownIn
    <3>2. CASE p.range < scan.ranges[b]
      <4>1. new.ranges[b] = p.range /\ new.intensities[b] = p.intensity
        BY <1>2, <2>2, <2>3, <3>2
      <4>2. \A q \in Lidar!Shown(P, b) : p.range <= q.range
        <5>1. \A q \in Lidar!Shown(P, b) : q.range \in Int
          BY DEF Lidar!Shown, Lidar!Point
        <5>2. QED
          BY <1>1, <2>1, <2>2, <3>2, <5>1
      <4>3. QED
        <5>1. p \in Lidar!Shown(P \cup {p}, b)
          BY <3>1
        <5>2. p.range <= p.range
          BY <1>1
        <5>3. \A q \in Lidar!Shown(P \cup {p}, b) : p.range <= q.range
          BY <3>1, <4>2, <5>2
        <5>4. QED
          BY <4>1, <5>1, <5>3, Zenon
    <3>3. CASE ~(p.range < scan.ranges[b])
      <4>1. new = scan /\ scan.ranges[b] <= p.range
        BY <1>1, <1>3, <2>2, <2>3, <3>3
      <4>2. scan.ranges[b] # Lidar!Infinity
        BY <1>1, <2>3, <4>1, LidarIsConfigured
        DEF Lidar!LidarAssumption, Lidar!Infinity, Lidar!in_range
      <4>3. QED
        BY <2>1, <3>1, <4>1, <4>2
    <3>4. QED
      BY <3>2, <3>3
  <2>4. CASE ~(fits /\ bin = b)
    <3>1. Lidar!Shown(P \cup {p}, b) = Lidar!Shown(P, b)
      <4>1. ~(Lidar!in_range(p) /\ Lidar!in_sector(p) /\ bin = b)
        BY <2>4
      <4>2. QED
        BY <1>5, <4>1, ShownIn
    <3>2. new.ranges[b] = scan.ranges[b] /\ new.intensities[b] = scan.intensities[b]
      BY <1>2, <1>3, <2>2, <2>4
    <3>3. QED
      BY <2>1, <3>1, <3>2
  <2>5. QED
    BY <2>3, <2>4
<1>6. QED
  BY <1>4, <1>5 DEF Lidar!Nearest, new

-----------------------------------------------------------------------------
(* The lidar: the two threads.                                             *)

\* The scan shows the points that are sorted so far, and one that is published
\* all of its frame's.
ScanInv ==
    /\ scan_msg \in Scan
    /\ frame # <<>> => \E points \in Frames :
                          /\ frame = <<points>> /\ lidar_i \in 0..Len(points)
                          /\ Lidar!Nearest(scan_msg, Lidar!First(points, lidar_i))

\* Frames come only from lidar_start on and until lidar_free, which is before
\* the publisher goes.
ThreadInv ==
    /\ started \/ frame # <<>> => lidar_pc \in {"create", "spin", "free", "failed"}
    /\ lidar_pc \in {"spin", "free", "members"} => scan_pub

LidarInv == Lidar!TypeOK /\ Lidar!GivenBack /\ Lidar!ScanIsNearest /\ ScanInv /\ ThreadInv

\* A blank scan shows no points.
LEMMA BlankScan ==
  ASSUME NEW points
  PROVE  Lidar!Blank \in Scan /\ Lidar!Nearest(Lidar!Blank, Lidar!First(points, 0))
<1>1. Lidar!Infinity \in Int /\ Lidar!Bins \subseteq Int
  BY LidarIsConfigured DEF Lidar!LidarAssumption, Lidar!Infinity, Lidar!Bins
<1>2. Lidar!Blank \in Scan
  BY <1>1 DEF Lidar!Blank, Scan
<1>3. \A b \in Lidar!Bins : Lidar!Blank.ranges[b] = Lidar!Infinity
  BY DEF Lidar!Blank
<1>4. Lidar!First(points, 0) = {}
  BY DEF Lidar!First
<1>5. \A b \in Lidar!Bins : Lidar!Shown({}, b) = {}
  BY DEF Lidar!Shown
<1>6. QED
  BY <1>2, <1>3, <1>4, <1>5 DEF Lidar!Nearest

\* The points of a frame are those before the last and the last.
LEMMA FirstGrows ==
  ASSUME NEW points \in Seq(Lidar!Point), NEW n \in 0..Len(points)
  PROVE  /\ Lidar!First(points, n) \in SUBSET Lidar!Point
         /\ n < Len(points) =>
               /\ points[n + 1] \in Lidar!Point
               /\ Lidar!First(points, n + 1) = Lidar!First(points, n) \cup {points[n + 1]}
  BY DEF Lidar!First

LEMMA LidarStart == Lidar!Init => LidarInv
<1> SUFFICES ASSUME Lidar!Init PROVE LidarInv
  OBVIOUS
<1>1. ScanInv
  BY BlankScan DEF Lidar!Init, ScanInv
<1>2. Len(<<>>) = 0 /\ 1..0 = {}
  OBVIOUS
<1>3. Lidar!TypeOK /\ Lidar!GivenBack /\ ThreadInv
  <2>1. {started, scan_pub, lidar_crashed} \subseteq BOOLEAN
    BY DEF Lidar!Init
  <2>2. Len(frame) <= 1 /\ Len(scan_topic) <= 1 /\ Len(scan_source) <= 1
    BY <1>2 DEF Lidar!Init
  <2>3. angle_min \in Int /\ angle_max \in Int /\ scan_bins \in Int
    BY LidarIsConfigured DEF Lidar!Init, Lidar!LidarAssumption
  <2>4. QED
    BY <2>1, <2>2, <2>3 DEF Lidar!Init, Lidar!TypeOK, Lidar!GivenBack, ThreadInv
<1>4. Lidar!ScanIsNearest
  BY <1>2, Zenon DEF Lidar!Init, Lidar!ScanIsNearest
<1>5. QED
  BY <1>1, <1>3, <1>4 DEF LidarInv

LEMMA LidarStep == LidarInv /\ [Lidar!Next]_lidarVars => LidarInv'
<1> SUFFICES ASSUME LidarInv, [Lidar!Next]_lidarVars PROVE LidarInv'
  OBVIOUS
<1> USE DEF LidarInv
<1> DEFINE Keeps == /\ UNCHANGED <<inverted, flip_x_axis, angle_min, angle_max, scan_bins,
                                   frame, scan_msg, lidar_i, scan_topic, scan_source,
                                   lidar_crashed>>
                    /\ Lidar!TypeOK' /\ Lidar!GivenBack' /\ ThreadInv'
<1>1. Keeps => LidarInv'
  <2> SUFFICES ASSUME Keeps PROVE LidarInv'
    OBVIOUS
  <2>1. Lidar!ScanIsNearest'
    BY DEF Lidar!ScanIsNearest, Lidar!Nearest, Lidar!Shown, Lidar!InSector, Lidar!Directions,
           Lidar!Bins, Lidar!Turn
  <2>2. ASSUME NEW points, Lidar!Nearest(scan_msg, Lidar!First(points, lidar_i))
        PROVE  Lidar!Nearest(scan_msg, Lidar!First(points, lidar_i))'
    BY <2>2 DEF Lidar!Nearest, Lidar!Shown, Lidar!InSector, Lidar!Directions, Lidar!Bins,
                Lidar!Turn, Lidar!First
  <2>3. ScanInv'
    BY <2>2 DEF ScanInv, Scan, Lidar!Bins
  <2>4. QED
    BY <2>1, <2>3
<1>2. ASSUME NEW ok \in BOOLEAN, Lidar!alloc_device(ok) PROVE Keeps
  BY <1>2 DEF Lidar!alloc_device, Lidar!params, Lidar!conversion, Lidar!TypeOK,
              Lidar!GivenBack, ThreadInv
<1>3. ASSUME NEW ok \in BOOLEAN, Lidar!init_device(ok) PROVE Keeps
  BY <1>3 DEF Lidar!init_device, Lidar!lost, Lidar!params, Lidar!conversion, Lidar!TypeOK,
              Lidar!GivenBack, ThreadInv
<1>4. ASSUME NEW ok \in BOOLEAN, Lidar!start_device(ok) PROVE Keeps
  BY <1>4 DEF Lidar!start_device, Lidar!lost, Lidar!params, Lidar!conversion, Lidar!TypeOK,
              Lidar!GivenBack, ThreadInv
<1>5. ASSUME NEW ok \in BOOLEAN, Lidar!create(ok) PROVE Keeps
  BY <1>5 DEF Lidar!create, Lidar!lost, Lidar!params, Lidar!conversion, Lidar!TypeOK,
              Lidar!GivenBack, ThreadInv
<1>6. ASSUME NEW ok \in BOOLEAN,
             Lidar!stop_motor_callback(ok) \/ Lidar!start_motor_callback(ok)
                \/ Lidar!stop_device(ok)
      PROVE  Keeps
  BY <1>6 DEF Lidar!stop_motor_callback, Lidar!start_motor_callback, Lidar!stop_device,
              Lidar!params, Lidar!conversion, Lidar!TypeOK, Lidar!GivenBack, ThreadInv
<1>7. CASE Lidar!free_device \/ Lidar!destroy_members
  <2>1. CASE Lidar!free_device
    BY <1>1, <2>1 DEF Lidar!free_device, Lidar!params, Lidar!conversion, Lidar!TypeOK,
                      Lidar!GivenBack, ThreadInv
  <2>2. CASE Lidar!destroy_members
    BY <1>1, <2>2 DEF Lidar!destroy_members, Lidar!params, Lidar!conversion, Lidar!TypeOK,
                      Lidar!GivenBack, ThreadInv
  <2>3. QED
    BY <1>7, <2>1, <2>2
<1>8. CASE UNCHANGED lidarVars
  <2>1. Keeps
    BY <1>8 DEF lidarVars, Lidar!TypeOK, Lidar!GivenBack, ThreadInv
  <2>2. QED
    BY <1>1, <2>1
<1> DEFINE Others == /\ UNCHANGED <<inverted, flip_x_axis, angle_min, angle_max, scan_bins,
                                    lidar_pc, lidar_dev, started, scan_pub>>
                     /\ Lidar!GivenBack'
           Same   == UNCHANGED <<scan_topic, scan_source, lidar_crashed>>
<1>9. Others /\ UNCHANGED <<scan_topic, scan_source>> => Lidar!ScanIsNearest'
  BY DEF Lidar!ScanIsNearest, Lidar!Nearest, Lidar!Shown, Lidar!InSector, Lidar!Directions,
         Lidar!Bins, Lidar!Turn
<1>10. CASE Lidar!report_frame
  <2>1. Others /\ UNCHANGED <<scan_topic, scan_source>>
    BY <1>10 DEF Lidar!report_frame, Lidar!params, Lidar!GivenBack
  <2>2. scan_msg' = Lidar!Blank /\ lidar_i' = 0
    BY <1>10 DEF Lidar!report_frame
  <2>3. CASE frame' = <<>> /\ lidar_crashed' = TRUE
    <3>1. ScanInv'
      BY <2>1, <2>2, <2>3, BlankScan DEF ScanInv, Scan, Lidar!Bins
    <3>2. Len(<<>>) = 0
      OBVIOUS
    <3>3. Lidar!TypeOK' /\ ThreadInv'
      BY <2>1, <2>3, <3>2 DEF Lidar!TypeOK, ThreadInv
    <3>4. QED
      BY <1>9, <2>1, <3>1, <3>3
  <2>4. ASSUME NEW points \in Frames, frame' = <<points>>, UNCHANGED lidar_crashed
        PROVE  LidarInv'
    <3>1. Len(points) \in Nat /\ Len(frame') = 1
      BY <2>4, LidarIsConfigured DEF Lidar!LidarAssumption
    <3>2. lidar_i' \in 0..Len(points)
      BY <2>2, <3>1
    <3>3. ScanInv'
      <4>1. Lidar!Nearest(scan_msg, Lidar!First(points, lidar_i))'
        BY <2>1, <2>2, BlankScan
        DEF Lidar!Nearest, Lidar!Shown, Lidar!InSector, Lidar!Directions, Lidar!Bins,
            Lidar!Turn, Lidar!First
      <4>2. (scan_msg \in Scan)'
        BY <2>1, <2>2, BlankScan DEF Scan, Lidar!Bins
      <4>3. QED
        BY <2>4, <3>2, <4>1, <4>2 DEF ScanInv
    <3>4. Lidar!TypeOK' /\ ThreadInv'
      BY <1>10, <2>1, <2>4, <3>1 DEF Lidar!report_frame, Lidar!TypeOK, ThreadInv
    <3>5. QED
      BY <1>9, <2>1, <2>4, <3>3, <3>4
  <2>5. frame = <<>>
    BY <1>10 DEF Lidar!report_frame
  <2>6. QED
    BY <1>10, <2>3, <2>4, <2>5 DEF Lidar!report_frame
<1>11. CASE Lidar!sort_point
  <2>1. Others /\ Same
    BY <1>11 DEF Lidar!sort_point, Lidar!params, Lidar!GivenBack
  <2>2. PICK points \in Frames :
           /\ frame = <<points>> /\ lidar_i \in 0..Len(points)
           /\ Lidar!Nearest(scan_msg, Lidar!First(points, lidar_i))
    BY <1>11 DEF Lidar!sort_point, ScanInv
  <2>3. points \in Seq(Lidar!Point) /\ Len(points) \in Nat /\ frame[1] = points
    BY <2>2, LidarIsConfigured DEF Lidar!LidarAssumption
  <2> DEFINE p == points[lidar_i + 1]
  <2>4. lidar_i < Len(points) /\ lidar_i' = lidar_i + 1 /\ frame' = frame
    BY <1>11, <2>3 DEF Lidar!sort_point
  <2>5. PICK bin \in Lidar!bins_of(p) : scan_msg' = Lidar!add_point(scan_msg, p, bin)
    BY <1>11, <2>3 DEF Lidar!sort_point
  <2>6. /\ Lidar!First(points, lidar_i) \in SUBSET Lidar!Point
        /\ p \in Lidar!Point
        /\ Lidar!First(points, lidar_i + 1) = Lidar!First(points, lidar_i) \cup {p}
    BY <2>2, <2>3, <2>4, FirstGrows
  <2>7. scan_msg' \in Scan /\ Lidar!Nearest(scan_msg', Lidar!First(points, lidar_i'))
    <3>1. ParamTypes /\ scan_msg \in Scan
      BY DEF Lidar!TypeOK, ParamTypes, ScanInv
    <3> HIDE DEF p
    <3>2. QED
      BY <2>2, <2>4, <2>5, <2>6, <3>1, AddPoint
  <2>8. Lidar!Nearest(scan_msg, Lidar!First(points, lidar_i))'
    BY <2>1, <2>7
    DEF Lidar!Nearest, Lidar!Shown, Lidar!InSector, Lidar!Directions, Lidar!Bins, Lidar!Turn,
        Lidar!First
  <2>9. (scan_msg \in Scan)'
    BY <2>1, <2>7 DEF Scan, Lidar!Bins
  <2>10. ScanInv'
    BY <2>2, <2>3, <2>4, <2>8, <2>9 DEF ScanInv
  <2>11. Lidar!TypeOK' /\ ThreadInv'
    BY <2>1, <2>4 DEF Lidar!TypeOK, ThreadInv
  <2>12. QED
    BY <1>9, <2>1, <2>10, <2>11
<1>12. CASE Lidar!publish_scan
  <2>1. Others
    BY <1>12 DEF Lidar!publish_scan, Lidar!params, Lidar!GivenBack
  <2>2. PICK points \in Frames :
           /\ frame = <<points>> /\ lidar_i \in 0..Len(points)
           /\ Lidar!Nearest(scan_msg, Lidar!First(points, lidar_i))
    BY <1>12 DEF Lidar!publish_scan, ScanInv
  <2>3. frame' = <<>> /\ scan_msg' = Lidar!Blank /\ frame[1] = points /\ lidar_i = Len(points)
    BY <1>12, <2>2 DEF Lidar!publish_scan
  <2>4. ScanInv'
    BY <2>1, <2>3, BlankScan DEF ScanInv, Scan, Lidar!Bins
  <2>5. CASE UNCHANGED <<scan_topic, scan_source>>
    <3>1. Lidar!ScanIsNearest'
      BY <1>9, <2>1, <2>5
    <3>2. Len(<<>>) = 0 /\ (lidar_crashed' = TRUE \/ UNCHANGED lidar_crashed)
      BY <1>12 DEF Lidar!publish_scan
    <3>3. Lidar!TypeOK' /\ ThreadInv'
      <4>1. ({started, scan_pub, lidar_crashed} \subseteq BOOLEAN)'
        BY <2>1, <3>2 DEF Lidar!TypeOK
      <4>2. (Len(frame) <= 1 /\ Len(scan_topic) <= 1 /\ Len(scan_source) <= 1)'
        BY <2>3, <2>5, <3>2 DEF Lidar!TypeOK
      <4>3. QED
        BY <2>1, <2>3, <4>1, <4>2 DEF Lidar!TypeOK, ThreadInv
    <3>4. QED
      BY <2>1, <2>4, <3>1, <3>3
  <2>6. CASE scan_topic' = <<scan_msg>> /\ scan_source' = frame /\ UNCHANGED lidar_crashed
    <3>1. /\ Len(scan_topic') = 1 /\ Len(scan_source') = 1 /\ scan_topic'[1] = scan_msg
          /\ scan_source'[1] = points
      BY <2>2, <2>6
    <3>2. Lidar!Nearest(scan_msg, Lidar!First(points, Len(points)))
      BY <2>2, <2>3
    <3>3. Lidar!ScanIsNearest'
      BY <2>1, <3>1, <3>2, SMTT(30)
      DEF Lidar!ScanIsNearest, Lidar!Nearest, Lidar!Shown, Lidar!InSector,
          Lidar!Directions, Lidar!Bins, Lidar!Turn, Lidar!First
    <3>4. Lidar!TypeOK' /\ ThreadInv'
      BY <2>1, <2>3, <2>6, <3>1 DEF Lidar!TypeOK, ThreadInv
    <3>5. QED
      BY <2>1, <2>4, <3>3, <3>4
  <2>7. QED
    BY <1>12, <2>5, <2>6 DEF Lidar!publish_scan
<1>13. QED
  BY <1>1, <1>2, <1>3, <1>4, <1>5, <1>6, <1>7, <1>8, <1>10, <1>11, <1>12
  DEF Lidar!Next, Lidar!NodeStep

\* Only while the node is constructed, or when that has failed, is there a
\* frame but no publisher; and bins fail to be allocated only below 0 of them.
LEMMA LidarSafe ==
  ASSUME LidarInv, [Lidar!Next]_lidarVars
  PROVE  lidar_crashed' # lidar_crashed => lidar_pc \in {"create", "failed"} \/ scan_bins < 0
<1>1. CASE Lidar!publish_scan
  BY <1>1 DEF Lidar!publish_scan, LidarInv, ThreadInv
<1>2. CASE ~Lidar!publish_scan
  BY <1>2 DEF LidarInv, Lidar!TypeOK, Lidar!Next, Lidar!NodeStep, Lidar!alloc_device,
              Lidar!init_device, Lidar!start_device, Lidar!create, Lidar!stop_motor_callback,
              Lidar!start_motor_callback, Lidar!stop_device, Lidar!free_device,
              Lidar!destroy_members, Lidar!report_frame, Lidar!sort_point, lidarVars
<1>3. QED
  BY <1>1, <1>2

-----------------------------------------------------------------------------
(* The IMU: DDS entities and devices.                                      *)

\* How far init may have come.
LEMMA CreatedSets ==
  /\ Imu!created(0) = {} /\ Imu!created(1) = {"participant"}
  /\ Imu!created(2) = {"participant", "group"}
  /\ Imu!created(3) = {"participant", "group", "topic"}
  /\ Imu!created(4) = {"participant", "group", "topic", "endpoint"}
<1> DEFINE o == Imu!CreationOrder
<1>1. o[1] = "participant" /\ o[2] = "group" /\ o[3] = "topic" /\ o[4] = "endpoint"
  BY DEF Imu!CreationOrder
<1>2. /\ 1..0 = {} /\ 1..1 = {1} /\ 1..2 = {1, 2} /\ 1..3 = {1, 2, 3} /\ 1..4 = {1, 2, 3, 4}
  OBVIOUS
<1> HIDE DEF o
<1>3. \A n : Imu!created(n) = {o[k] : k \in 1..n}
  BY DEF Imu!created, o
<1>4. QED
  BY <1>1, <1>2, <1>3

\* The entities of a side are those of the first steps of its init.
Prefix(S) == \E n \in 0..4 : S = Imu!created(n)

\* However far init came, the destructor deletes everything: nothing is refused.
LEMMA AllDeleted ==
  ASSUME NEW side \in Imu!Sides, Prefix(entities[side])
  PROVE  Imu!destroyed(side) = {}
<1> DEFINE S == entities[side]
<1>1. S \in {{}, {"participant"}, {"participant", "group"}, {"participant", "group", "topic"},
             {"participant", "group", "topic", "endpoint"}}
  <2>1. \A n \in 0..4 : n = 0 \/ n = 1 \/ n = 2 \/ n = 3 \/ n = 4
    OBVIOUS
  <2>2. QED
    BY <2>1, CreatedSets DEF Prefix
<1> DEFINE Del(R, kind) == Imu!delete(R, kind)
           End(a, b)    == Del(Del(Del(Del(S, "endpoint"), a), b), "participant")
<1>2. Imu!destroyed(side) = IF side = "pub" THEN End("group", "topic") ELSE End("topic", "group")
  BY DEF Imu!destroyed, Imu!deletion_order
<1>3. /\ \A R, kind : "endpoint" \notin R /\ kind \in {"group", "topic"} => Del(R, kind) = R \ {kind}
      /\ \A R : Del(R, "endpoint") = R \ {"endpoint"}
      /\ \A R : R \subseteq {"participant"} => Del(R, "participant") = R \ {"participant"}
  BY DEF Imu!delete, Imu!needed
<1> HIDE DEF S, Del
<1>4. ASSUME NEW a, NEW b, {a, b} = {"group", "topic"} PROVE End(a, b) = {}
  <2>1. Del(S, "endpoint") = S \ {"endpoint"}
    BY <1>3
  <2>2. Del(Del(S, "endpoint"), a) = (S \ {"endpoint"}) \ {a}
    BY <1>3, <1>4, <2>1
  <2>3. Del(Del(Del(S, "endpoint"), a), b) = ((S \ {"endpoint"}) \ {a}) \ {b}
    BY <1>3, <1>4, <2>2
  <2>4. ((S \ {"endpoint"}) \ {a}) \ {b} \subseteq {"participant"}
    BY <1>1, <1>4
  <2>5. End(a, b) = (((S \ {"endpoint"}) \ {a}) \ {b}) \ {"participant"}
    BY <1>3, <2>3, <2>4
  <2>6. QED
    BY <2>4, <2>5
<1>5. QED
  BY <1>2, <1>4

-----------------------------------------------------------------------------
(* The IMU: messages on their way.                                         *)

Sample  == [id : Nat, timestamp_us : Nat]
Message == [id : Nat, stamp : [sec : Int, nanosec : Nat]]

\* A message has the device's time of its sample, if the device gave one whose
\* seconds fit.
Stamped(m, us) ==
    /\ m.stamp.sec \in -IntHalf..(IntHalf - 1)
    /\ m.stamp.nanosec < 1000000000
    /\ us # 0 /\ us \div 1000000 < IntHalf =>
          m.stamp.sec * 1000000 + m.stamp.nanosec \div 1000 = us

\* The messages m in q are of samples that were read, those of r.
OfSamples(q, r) ==
    \A k \in 1..Len(q) : q[k].id \in 1..Len(r) /\ Stamped(q[k], r[q[k].id].timestamp_us)

Rising(q)      == \A j, k \in 1..Len(q) : j < k => q[j].id < q[k].id
Before(q1, q2) == \A j \in 1..Len(q1), k \in 1..Len(q2) : q1[j].id < q2[k].id

\* Samples are numbered as they are read; what was delivered comes before what
\* is on its way, and both are in the order of reading.
InOrder(g, n, r) ==
    /\ g \in Seq(Message) /\ n \in Seq(Message) /\ r \in Seq(Sample)
    /\ \A k \in 1..Len(r) : r[k].id = k
    /\ OfSamples(g, r) /\ OfSamples(n, r)
    /\ Rising(g) /\ Rising(n) /\ Before(g, n)

\* Seconds and nanoseconds are the microseconds they are made from.
LEMMA SecondsAndRest ==
  ASSUME NEW us \in Nat, NEW m \in Nat \ {0}, NEW c \in Nat \ {0}
  PROVE  /\ us \div m \in Nat /\ (us % m) * c \in Nat
         /\ (us % m) * c < m * c
         /\ (us \div m) * m + ((us % m) * c) \div c = us
<1> DEFINE q == us \div m
           r == us % m
<1>1. q \in Nat /\ r \in 0..(m - 1) /\ us = m * q + r
  OBVIOUS
<1> HIDE DEF q, r
<1>2. r * c \in Nat /\ r * c < m * c
  <2>1. PICK d \in Nat : m = r + 1 + d
    <3>1. m - r - 1 \in Nat /\ m = r + 1 + (m - r - 1)
      BY <1>1
    <3>2. QED
      BY <3>1
  <2>2. m * c = r * c + c + d * c /\ d * c >= 0 /\ r * c \in Nat
    BY <1>1, <2>1
  <2>3. QED
    BY <1>1, <2>2
<1>3. (r * c) \div c = r
  <2>1. r \in Int /\ r * c \in Int /\ r * c <= r * c /\ r * c < (r + 1) * c
    BY <1>1, <1>2
  <2>2. QED
    BY <2>1, Quotient
<1>4. q * m + r = us
  BY <1>1
<1>5. QED
  BY <1>1, <1>2, <1>3, <1>4 DEF q, r

\* A cast to 32 bits gives 32 bits, and keeps what fits.
LEMMA Cast ==
  ASSUME NEW v \in Nat
  PROVE  /\ Imu!int32(v) \in -IntHalf..(IntHalf - 1)
         /\ v < IntHalf => Imu!int32(v) = v
<1> DEFINE h == IntHalf
           r == (v + h) % (2 * h)
<1>1. h \in Nat \ {0}
  BY ImuIsConfigured DEF Imu!ImuAssumption
<1> HIDE DEF h
<1>2. 2 * h \in Nat \ {0} /\ v + h \in Nat
  BY <1>1
<1>3. r \in 0..(2 * h - 1)
  BY <1>2
<1>4. v < h => r = v + h
  BY <1>1, <1>2
<1>5. Imu!int32(v) = r - h
  BY DEF Imu!int32, h
<1> HIDE DEF r
<1>6. QED
  BY <1>1, <1>3, <1>4, <1>5 DEF h

LEMMA StampIsTrue ==
  ASSUME NEW us \in Nat, NEW n \in Nat
  PROVE  LET m == Imu!Message([id |-> n, timestamp_us |-> us])
         IN  m \in Message /\ m.id = n /\ Stamped(m, us)
<1> DEFINE million == 1000000
           thousand == 1000
           billion == 1000000000
           seconds == us \div million
           rest == (us % million) * thousand
           m == Imu!Message([id |-> n, timestamp_us |-> us])
           m_at(sec, nanosec) == [id |-> n, stamp |-> [sec |-> sec, nanosec |-> nanosec]]
           Seconds == -IntHalf..(IntHalf - 1)
<1>1. /\ million \in Nat \ {0} /\ thousand \in Nat \ {0} /\ billion \in Nat
      /\ million * thousand = billion /\ 0 < billion
  OBVIOUS
<1>2. m = m_at(Imu!int32(seconds), rest) \/ (us = 0 /\ m = m_at(Imu!int32(SystemTime), 0))
  BY DEF Imu!Message, Imu!timestampUsToRosTime, Imu!ros_time
<1>3. \A x : Stamped(x, us) <=>
                /\ x.stamp.sec \in Seconds
                /\ x.stamp.nanosec < billion
                /\ us # 0 /\ seconds < IntHalf =>
                      x.stamp.sec * million + x.stamp.nanosec \div thousand = us
  BY DEF Stamped
<1>4. /\ seconds \in Nat /\ rest \in Nat /\ rest < billion
      /\ seconds * million + rest \div thousand = us
  <2> HIDE DEF million, thousand, billion
  <2>1. QED
    BY <1>1, SecondsAndRest
<1>5. SystemTime \in Nat /\ IntHalf \in Nat
  BY ImuIsConfigured DEF Imu!ImuAssumption
<1>6. /\ Imu!int32(seconds) \in Seconds /\ (seconds < IntHalf => Imu!int32(seconds) = seconds)
      /\ Imu!int32(SystemTime) \in Seconds
  BY <1>4, <1>5, Cast
<1>7. \A sec \in Seconds, nanosec \in Nat :
         /\ m_at(sec, nanosec) \in Message /\ m_at(sec, nanosec).id = n
         /\ m_at(sec, nanosec).stamp.sec = sec /\ m_at(sec, nanosec).stamp.nanosec = nanosec
  BY <1>5 DEF Message
<1> HIDE DEF million, thousand, billion, seconds, rest, m, m_at, Seconds
<1>8. CASE m = m_at(Imu!int32(seconds), rest)
  BY <1>3, <1>4, <1>6, <1>7, <1>8 DEF m
<1>9. CASE us = 0 /\ m = m_at(Imu!int32(SystemTime), 0)
  BY <1>1, <1>3, <1>6, <1>7, <1>9 DEF m
<1>10. QED
  BY <1>2, <1>8, <1>9

\* A new sample comes last, and so does its message.
LEMMA Sampled ==
  ASSUME NEW g, NEW n, NEW r, InOrder(g, n, r),
         NEW s \in Sample, s.id = Len(r) + 1,
         NEW m \in Message, m.id = s.id, Stamped(m, s.timestamp_us)
  PROVE  InOrder(g, n, Append(r, s)) /\ InOrder(g, Append(n, m), Append(r, s))
<1>1. /\ g \in Seq(Message) /\ n \in Seq(Message) /\ r \in Seq(Sample)
      /\ Len(g) \in Nat /\ Len(n) \in Nat /\ Len(r) \in Nat
  BY DEF InOrder
<1>2. /\ Append(r, s) \in Seq(Sample) /\ Len(Append(r, s)) = Len(r) + 1
      /\ \A k \in 1..Len(r) : Append(r, s)[k] = r[k]
      /\ Append(r, s)[Len(r) + 1] = s
  BY <1>1
<1>3. /\ Append(n, m) \in Seq(Message) /\ Len(Append(n, m)) = Len(n) + 1
      /\ \A k \in 1..Len(n) : Append(n, m)[k] = n[k]
      /\ Append(n, m)[Len(n) + 1] = m
  BY <1>1
<1> DEFINE r2 == Append(r, s)
           n2 == Append(n, m)
<1> HIDE DEF r2, n2
<1>4. \A k \in 1..(Len(r) + 1) : r2[k].id = k
  BY <1>1, <1>2 DEF InOrder, r2
<1>5. OfSamples(g, r2) /\ OfSamples(n, r2)
  <2>1. \A k \in 1..Len(r) : k \in 1..Len(r2) /\ r2[k] = r[k]
    BY <1>1, <1>2 DEF r2
  <2>2. QED
    BY <2>1 DEF InOrder, OfSamples
<1>6. OfSamples(n2, r2)
  <2>1. m.id \in 1..Len(r2) /\ Stamped(m, r2[m.id].timestamp_us)
    BY <1>1, <1>2 DEF r2
  <2>2. \A k \in 1..Len(n2) : n2[k] = m \/ \E j \in 1..Len(n) : n2[k] = n[j]
    BY <1>1, <1>3 DEF n2
  <2>3. QED
    BY <1>5, <2>1, <2>2 DEF OfSamples
<1>7. Rising(n2) /\ Before(g, n2)
  <2>1. /\ \A k \in 1..Len(n) : n[k].id < m.id
        /\ \A k \in 1..Len(g) : g[k].id < m.id
    <3>1. /\ \A k \in 1..Len(n) : n[k].id \in 1..Len(r)
          /\ \A k \in 1..Len(g) : g[k].id \in 1..Len(r)
      BY DEF InOrder, OfSamples
    <3>2. \A x \in 1..Len(r) : x < m.id
      BY <1>1
    <3>3. QED
      BY <3>1, <3>2
  <2>2. \A k \in 1..Len(n2) : \/ k \in 1..Len(n) /\ n2[k] = n[k]
                              \/ k = Len(n) + 1 /\ n2[k] = m
    BY <1>1, <1>3 DEF n2
  <2>3. \A j, k \in 1..Len(n2) : j < k => j \in 1..Len(n)
    BY <1>1, <1>3 DEF n2
  <2>4. \A j, k \in 1..Len(n2) : j < k => n2[j] = n[j]
    BY <1>3, <2>3 DEF n2
  <2>5. Rising(n2)
    BY <2>1, <2>2, <2>3, <2>4 DEF InOrder, Rising
  <2>6. Before(g, n2)
    BY <2>1, <2>2 DEF InOrder, Before
  <2>7. QED
    BY <2>5, <2>6
<1>8. QED
  BY <1>1, <1>2, <1>3, <1>4, <1>5, <1>6, <1>7 DEF InOrder, r2, n2

\* The first message on its way is delivered next, or lost.
LEMMA Taken ==
  ASSUME NEW g, NEW n, NEW r, InOrder(g, n, r), n # <<>>
  PROVE  InOrder(g, Tail(n), r) /\ InOrder(Append(g, Head(n)), Tail(n), r)
<1>1. /\ g \in Seq(Message) /\ n \in Seq(Message) /\ r \in Seq(Sample)
      /\ Len(g) \in Nat /\ Len(n) \in Nat /\ Len(n) >= 1
  BY DEF InOrder
<1>2. /\ Tail(n) \in Seq(Message) /\ Len(Tail(n)) = Len(n) - 1
      /\ \A k \in 1..Len(Tail(n)) : Tail(n)[k] = n[k + 1]
      /\ Head(n) = n[1] /\ n[1] \in Message
  BY <1>1
<1>3. /\ Append(g, Head(n)) \in Seq(Message) /\ Len(Append(g, Head(n))) = Len(g) + 1
      /\ \A k \in 1..Len(g) : Append(g, Head(n))[k] = g[k]
      /\ Append(g, Head(n))[Len(g) + 1] = n[1]
  BY <1>1, <1>2
<1> DEFINE g2 == Append(g, Head(n))
           n2 == Tail(n)
<1> HIDE DEF g2, n2
<1>4. OfSamples(n2, r) /\ Rising(n2) /\ Before(g, n2)
  <2>1. \A k \in 1..Len(n2) : k + 1 \in 1..Len(n) /\ n2[k] = n[k + 1]
    BY <1>1, <1>2 DEF n2
  <2>2. \A k \in 1..Len(n2) : k \in Int
    OBVIOUS
  <2>3. \A j, k \in 1..Len(n2) : j < k => j + 1 < k + 1
    OBVIOUS
  <2>4. OfSamples(n2, r)
    BY <2>1 DEF InOrder, OfSamples
  <2>5. Rising(n2)
    BY <2>1, <2>3 DEF InOrder, Rising
  <2>6. Before(g, n2)
    BY <2>1 DEF InOrder, Before
  <2>7. QED
    BY <2>4, <2>5, <2>6
<1>5. OfSamples(g2, r)
  <2>1. \A k \in 1..Len(g2) : g2[k] = n[1] \/ \E j \in 1..Len(g) : g2[k] = g[j]
    BY <1>1, <1>3 DEF g2
  <2>2. 1 \in 1..Len(n)
    BY <1>1
  <2>3. QED
    BY <2>1, <2>2 DEF InOrder, OfSamples
<1>6. Rising(g2)
  <2>1. \A j \in 1..Len(g) : g[j].id < n[1].id
    BY <1>1 DEF InOrder, Before
  <2>2. \A k \in 1..Len(g2) : \/ k \in 1..Len(g) /\ g2[k] = g[k]
                              \/ k = Len(g) + 1 /\ g2[k] = n[1]
    BY <1>1, <1>3 DEF g2
  <2>3. \A j, k \in 1..Len(g2) : j < k => j \in 1..Len(g) /\ g2[j] = g[j]
    <3>1. \A j, k \in 1..Len(g2) : j < k => j \in 1..Len(g)
      BY <1>1, <1>3 DEF g2
    <3>2. QED
      BY <1>3, <3>1 DEF g2
  <2>4. QED
    BY <2>1, <2>2, <2>3 DEF InOrder, Rising
<1>7. Before(g2, n2)
  <2>1. \A k \in 1..Len(n2) : n[1].id < n2[k].id
    BY <1>1, <1>2 DEF InOrder, Rising, n2
  <2>2. \A k \in 1..Len(g2) : g2[k] = n[1] \/ \E j \in 1..Len(g) : g2[k] = g[j]
    BY <1>1, <1>3 DEF g2
  <2>3. QED
    BY <1>4, <2>1, <2>2 DEF Before
<1>8. QED
  BY <1>1, <1>2, <1>3, <1>4, <1>5, <1>6, <1>7 DEF InOrder, g2, n2

-----------------------------------------------------------------------------
(* The IMU: all steps.                                                     *)

\* Each side has the entities that its init created, until they are deleted;
\* before that there are none.
EntityInv ==
    /\ \A side \in Imu!Sides : Prefix(entities[side])
    /\ imu_pc["pub"] \in {"args", "alloc", "dds"} => entities["pub"] = {}
    /\ imu_pc["sub"] = "construct" => entities["sub"] = {}

\* The device belongs to imu_uart_node, which gives it back before its publisher.
DeviceInv ==
    /\ producer = "wrapper" => /\ imu_dev = "null"
                               /\ imu_pc["pub"] \in {"args", "use", "crashed", "exit"}
    /\ producer = "uart" => imu_pc["pub"] \notin {"use", "crashed"}
    /\ imu_pc["pub"] \in {"args", "alloc"} => imu_dev = "null"
    /\ imu_pc["pub"] = "delete" => imu_dev # "open"

MessageInv == InOrder(got, net, imu_read) /\ samples = Len(imu_read) /\ taken \in Nat

\* Where the threads can be.
Places == {"args", "alloc", "dds", "loop", "sleep", "free", "delete", "exit", "use", "crashed",
           "construct", "setting"}

PlaceInv == producer \in {"uart", "wrapper"} /\ imu_pc \in [Imu!Sides -> Places]

ImuInv == /\ Imu!TypeOK /\ Imu!GivenBack
          /\ EntityInv /\ DeviceInv /\ MessageInv /\ PlaceInv

LEMMA ImuDelivered == ImuInv => Imu!DeliveredIsRead
  BY DEF ImuInv, MessageInv, InOrder, OfSamples, Stamped, Rising, Imu!DeliveredIsRead

\* What creating and deleting entities leaves.
LEMMA EntityChange ==
  ASSUME ImuInv, NEW side \in Imu!Sides
  PROVE  /\ \A n \in 0..4 : Imu!create_entities(side, n)
               => /\ entities'[side] = Imu!created(n)
                  /\ \A other \in Imu!Sides \ {side} : entities'[other] = entities[other]
                  /\ entities' \in [Imu!Sides -> SUBSET {"participant", "group", "topic", "endpoint"}]
                  /\ \A each \in Imu!Sides : Prefix(entities'[each])
         /\ Imu!delete_entities(side)
               => /\ entities'[side] = {}
                  /\ \A other \in Imu!Sides \ {side} : entities'[other] = entities[other]
                  /\ entities' \in [Imu!Sides -> SUBSET {"participant", "group", "topic", "endpoint"}]
                  /\ \A each \in Imu!Sides : Prefix(entities'[each])
<1> DEFINE Sets == SUBSET {"participant", "group", "topic", "endpoint"}
<1>1. entities \in [Imu!Sides -> Sets] /\ \A each \in Imu!Sides : Prefix(entities[each])
  BY DEF ImuInv, EntityInv, Imu!TypeOK
<1>2. \A n \in 0..4 : Imu!created(n) \in Sets /\ Prefix(Imu!created(n))
  <2>1. \A n \in 0..4 : n = 0 \/ n = 1 \/ n = 2 \/ n = 3 \/ n = 4
    OBVIOUS
  <2>2. \A n \in 0..4 : Imu!created(n) \in Sets
    BY <2>1, CreatedSets
  <2>3. QED
    BY <2>2 DEF Prefix
<1>3. Imu!destroyed(side) = {} /\ {} \in Sets /\ Prefix({})
  BY <1>1, AllDeleted, CreatedSets DEF Prefix
<1> HIDE DEF Sets
<1>4. ASSUME NEW S \in Sets, Prefix(S), entities' = [entities EXCEPT ![side] = S]
      PROVE  /\ entities'[side] = S
             /\ \A other \in Imu!Sides \ {side} : entities'[other] = entities[other]
             /\ entities' \in [Imu!Sides -> Sets]
             /\ \A each \in Imu!Sides : Prefix(entities'[each])
  <2>1. /\ entities'[side] = S
        /\ \A other \in Imu!Sides \ {side} : entities'[other] = entities[other]
        /\ entities' \in [Imu!Sides -> Sets]
    BY <1>1, <1>4
  <2>2. \A each \in Imu!Sides : entities'[each] = S \/ entities'[each] = entities[each]
    BY <2>1
  <2>3. QED
    BY <1>1, <1>4, <2>1, <2>2
<1>5. QED
  BY <1>2, <1>3, <1>4 DEF Imu!create_entities, Imu!delete_entities, Sets

\* Reading and writing a sample keeps the order and numbers it.
LEMMA ReadAndWrite ==
  ASSUME ImuInv, NEW us \in Timestamps, Imu!imu_read(us), Imu!write(sampled'[1]),
         UNCHANGED <<taken, got>>
  PROVE  MessageInv' /\ samples' \in 0..MaxSamples /\ Len(net') <= MaxInFlight
<1> DEFINE s == [id |-> samples + 1, timestamp_us |-> us]
           m == Imu!Message(s)
<1>1. InOrder(got, net, imu_read) /\ samples = Len(imu_read) /\ taken \in Nat
      /\ imu_read \in Seq(Sample) /\ net \in Seq(Message)
  BY DEF ImuInv, MessageInv, InOrder
<1>2. us \in Nat /\ MaxSamples \in Nat /\ MaxInFlight \in Nat
  BY ImuIsConfigured DEF Imu!ImuAssumption
<1>3. samples' = samples + 1 /\ sampled'[1] = s /\ imu_read' = Append(imu_read, s)
      /\ samples < MaxSamples
  BY DEF Imu!imu_read
<1>4. samples \in Nat /\ samples' \in Nat /\ samples + 1 = Len(imu_read) + 1
  BY <1>1, <1>3
<1>5. s \in Sample /\ s.id = Len(imu_read) + 1 /\ s.timestamp_us = us
  BY <1>2, <1>4 DEF Sample
<1>6. m \in Message /\ m.id = samples + 1 /\ Stamped(m, us)
  BY <1>2, <1>4, StampIsTrue
<1>7. net' = net \/ (Len(net) < MaxInFlight /\ net' = Append(net, m))
  BY <1>3 DEF Imu!write
<1> HIDE DEF s, m
<1>8. InOrder(got, net', imu_read')
  BY <1>1, <1>3, <1>4, <1>5, <1>6, <1>7, Sampled
<1>9. Len(imu_read') = Len(imu_read) + 1
  BY <1>1, <1>3, <1>5
<1>10. samples' \in 0..MaxSamples
  BY <1>2, <1>3, <1>4
<1>11. Len(net') <= MaxInFlight
  <2>1. CASE net' = net
    BY <2>1 DEF ImuInv, Imu!TypeOK
  <2>2. CASE Len(net) < MaxInFlight /\ net' = Append(net, m)
    <3>1. Len(net') = Len(net) + 1 /\ Len(net) \in Nat
      BY <1>1, <1>6, <2>2
    <3>2. QED
      BY <1>2, <2>2, <3>1
  <2>3. QED
    BY <1>7, <2>1, <2>2
<1>12. QED
  BY <1>1, <1>3, <1>8, <1>9, <1>10, <1>11 DEF MessageInv

LEMMA ImuStart == Imu!Init => ImuInv
<1> SUFFICES ASSUME Imu!Init PROVE ImuInv
  OBVIOUS
<1>1. Len(<<>>) = 0 /\ 1..0 = {} /\ <<>> \in Seq(Message) /\ <<>> \in Seq(Sample)
  OBVIOUS
<1>2. InOrder(<<>>, <<>>, <<>>)
  BY <1>1, Zenon DEF InOrder, OfSamples, Rising, Before
<1>3. MessageInv
  BY <1>1, <1>2 DEF Imu!Init, MessageInv
<1>4. EntityInv
  BY CreatedSets DEF Imu!Init, EntityInv, Prefix, Imu!Sides
<1>5. DeviceInv /\ PlaceInv
  BY DEF Imu!Init, DeviceInv, PlaceInv, Imu!Sides, Places
<1>6. Imu!TypeOK
  BY <1>1, ImuIsConfigured DEF Imu!Init, Imu!TypeOK, Imu!Sides, Imu!ImuAssumption
<1>7. Imu!GivenBack
  BY DEF Imu!Init, Imu!GivenBack, Imu!Sides
<1>8. QED
  BY <1>3, <1>4, <1>5, <1>6, <1>7 DEF ImuInv

\* The messages and their bounds, apart from the threads.
Messages == /\ MessageInv /\ samples \in 0..MaxSamples /\ Len(net) <= MaxInFlight
            /\ Len(got) <= taken

\* The threads, their entities and the device, apart from the messages.
Threads ==
    /\ entities \in [Imu!Sides -> SUBSET {"participant", "group", "topic", "endpoint"}]
    /\ imu_dev \in {"null", "open", "freed"} /\ running \in BOOLEAN
    /\ callback \in {"none", "assigned", "set"}
    /\ imu_pc["pub"] = "crashed" => producer = "wrapper" /\ "endpoint" \notin entities["pub"]
    /\ imu_pc["sub"] = "crashed" => callback = "assigned"
    /\ Imu!GivenBack /\ EntityInv /\ DeviceInv /\ PlaceInv

LEMMA ImuParts == ImuInv <=> Messages /\ Threads
  BY DEF ImuInv, Imu!TypeOK, Messages, Threads

\* A thread goes from one place to another.
LEMMA Goes ==
  ASSUME PlaceInv, NEW side \in Imu!Sides, NEW from, NEW to \in Places, Imu!at(side, from, to)
  PROVE  /\ imu_pc[side] = from /\ imu_pc'[side] = to
         /\ \A other \in Imu!Sides \ {side} : imu_pc'[other] = imu_pc[other]
         /\ imu_pc' \in [Imu!Sides -> Places]
  BY DEF PlaceInv, Imu!at

LEMMA PublisherThreads ==
  ASSUME ImuInv, Imu!UartStep \/ Imu!WrapperStep \/ Imu!signalHandler
  PROVE  Threads'
<1> USE DEF Threads, EntityInv, DeviceInv, PlaceInv, Imu!GivenBack
<1>1. Threads /\ "pub" \in Imu!Sides /\ "sub" \in Imu!Sides
      /\ \A side \in Imu!Sides : side = "pub" \/ side = "sub"
  BY ImuParts DEF Imu!Sides
<1>2. CASE Imu!parse_arguments
  <2>1. PICK rate \in Rates : Imu!at("pub", "args", IF rate \in 1..1000 THEN "alloc" ELSE "exit")
    BY <1>2 DEF Imu!parse_arguments
  <2>2. PICK to \in {"alloc", "exit"} : Imu!at("pub", "args", to)
    BY <2>1
  <2>3. /\ imu_pc["pub"] = "args" /\ imu_pc'["pub"] = to /\ imu_pc'["sub"] = imu_pc["sub"]
        /\ imu_pc' \in [Imu!Sides -> Places]
    BY <1>1, <2>2, Goes DEF Places
  <2>4. QED
    BY <1>1, <1>2, <2>3 DEF Imu!parse_arguments, Imu!pubVars, Imu!subVars
<1>3. ASSUME NEW allocated \in BOOLEAN, NEW initialized \in BOOLEAN,
             Imu!init_device(allocated, initialized)
      PROVE  Threads'
  <2>1. PICK to \in {"dds", "delete"} :
           /\ Imu!at("pub", "alloc", to)
           /\ imu_dev' \in {"null", "open", "freed"} /\ (imu_dev' = "open" <=> to = "dds")
    BY <1>3 DEF Imu!init_device
  <2>2. /\ imu_pc["pub"] = "alloc" /\ imu_pc'["pub"] = to /\ imu_pc'["sub"] = imu_pc["sub"]
        /\ imu_pc' \in [Imu!Sides -> Places]
    BY <1>1, <2>1, Goes DEF Places
  <2>3. QED
    BY <1>1, <1>3, <2>1, <2>2 DEF Imu!init_device, Imu!subVars
<1>4. ASSUME NEW n \in 0..4, Imu!init_publisher(n) PROVE Threads'
  <2>1. PICK to \in {"loop", "free"} : Imu!at("pub", "dds", to)
    BY <1>4 DEF Imu!init_publisher
  <2>2. /\ imu_pc["pub"] = "dds" /\ imu_pc'["pub"] = to /\ imu_pc'["sub"] = imu_pc["sub"]
        /\ imu_pc' \in [Imu!Sides -> Places]
    BY <1>1, <2>1, Goes DEF Places
  <2>3. /\ entities' \in [Imu!Sides -> SUBSET {"participant", "group", "topic", "endpoint"}]
        /\ \A each \in Imu!Sides : Prefix(entities'[each])
        /\ entities'["sub"] = entities["sub"]
    BY <1>1, <1>4, EntityChange DEF Imu!init_publisher
  <2>4. QED
    BY <1>1, <1>4, <2>2, <2>3 DEF Imu!init_publisher, Imu!pubVars, Imu!subVars
<1>5. CASE Imu!read_failure \/ Imu!read_and_write \/ Imu!usleep \/ Imu!leave_loop
  <2>1. /\ UNCHANGED <<entities, imu_dev, running, callback, producer>>
        /\ \E from, to \in {"loop", "sleep", "free"} : from # "free" /\ Imu!at("pub", from, to)
    BY <1>5 DEF Imu!read_failure, Imu!read_and_write, Imu!usleep, Imu!leave_loop, Imu!pubVars,
                Imu!subVars
  <2>2. PICK from, to \in {"loop", "sleep", "free"} : from # "free" /\ Imu!at("pub", from, to)
    BY <2>1
  <2>3. /\ imu_pc["pub"] = from /\ imu_pc'["pub"] = to /\ imu_pc'["sub"] = imu_pc["sub"]
        /\ imu_pc' \in [Imu!Sides -> Places]
    BY <1>1, <2>2, Goes DEF Places
  <2>4. QED
    BY <1>1, <2>1, <2>2, <2>3
<1>6. CASE Imu!free_device
  <2>1. /\ imu_pc["pub"] = "free" /\ imu_pc'["pub"] = "delete"
        /\ imu_pc'["sub"] = imu_pc["sub"] /\ imu_pc' \in [Imu!Sides -> Places]
    BY <1>1, <1>6, Goes DEF Imu!free_device, Places
  <2>2. QED
    BY <1>1, <1>6, <2>1 DEF Imu!free_device, Imu!subVars
<1>7. CASE Imu!delete_publisher \/ Imu!destroy_wrapper
  <2>1. PICK from \in {"delete", "use"} : Imu!at("pub", from, "exit")
    BY <1>7 DEF Imu!delete_publisher, Imu!destroy_wrapper
  <2>2. /\ imu_pc["pub"] = from /\ imu_pc'["pub"] = "exit"
        /\ imu_pc'["sub"] = imu_pc["sub"] /\ imu_pc' \in [Imu!Sides -> Places]
    BY <1>1, <2>1, Goes DEF Places
  <2>3. /\ entities' \in [Imu!Sides -> SUBSET {"participant", "group", "topic", "endpoint"}]
        /\ \A each \in Imu!Sides : Prefix(entities'[each])
        /\ entities'["sub"] = entities["sub"] /\ entities'["pub"] = {}
    BY <1>1, <1>7, EntityChange DEF Imu!delete_publisher, Imu!destroy_wrapper
  <2>4. imu_dev # "open"
    BY <1>1, <1>7, <2>2 DEF Imu!delete_publisher, Imu!destroy_wrapper
  <2>5. QED
    BY <1>1, <1>7, <2>2, <2>3, <2>4
    DEF Imu!delete_publisher, Imu!destroy_wrapper, Imu!pubVars, Imu!subVars
<1>8. ASSUME NEW n \in 0..4, Imu!construct_wrapper(n) PROVE Threads'
  <2>1. /\ imu_pc["pub"] = "args" /\ imu_pc'["pub"] = "use"
        /\ imu_pc'["sub"] = imu_pc["sub"] /\ imu_pc' \in [Imu!Sides -> Places]
    BY <1>1, <1>8, Goes DEF Imu!construct_wrapper, Places
  <2>2. /\ entities' \in [Imu!Sides -> SUBSET {"participant", "group", "topic", "endpoint"}]
        /\ \A each \in Imu!Sides : Prefix(entities'[each])
        /\ entities'["sub"] = entities["sub"]
    BY <1>1, <1>8, EntityChange DEF Imu!construct_wrapper
  <2>3. QED
    BY <1>1, <1>8, <2>1, <2>2 DEF Imu!construct_wrapper, Imu!pubVars, Imu!subVars
<1>9. CASE Imu!publish
  <2>1. PICK to \in {"use", "crashed"} :
           /\ Imu!at("pub", "use", to) /\ (to = "crashed" => "endpoint" \notin entities["pub"])
    BY <1>9 DEF Imu!publish
  <2>2. /\ imu_pc["pub"] = "use" /\ imu_pc'["pub"] = to
        /\ imu_pc'["sub"] = imu_pc["sub"] /\ imu_pc' \in [Imu!Sides -> Places]
    BY <1>1, <2>1, Goes DEF Places
  <2>3. QED
    BY <1>1, <1>9, <2>1, <2>2 DEF Imu!publish, Imu!subVars
<1>10. CASE Imu!signalHandler
  BY <1>1, <1>10 DEF Imu!signalHandler, Imu!subVars
<1>11. QED
  BY <1>2, <1>3, <1>4, <1>5, <1>6, <1>7, <1>8, <1>9, <1>10 DEF Imu!UartStep, Imu!WrapperStep

LEMMA PublisherMessages ==
  ASSUME ImuInv, Imu!UartStep \/ Imu!WrapperStep \/ Imu!signalHandler
  PROVE  Messages'
<1> DEFINE Silent == UNCHANGED <<net, samples, imu_read, taken, got>>
<1>1. Silent => Messages'
  BY ImuParts DEF Messages, MessageInv
<1>2. ASSUME NEW us \in Timestamps, Imu!imu_read(us), Imu!write(sampled'[1]),
             UNCHANGED <<taken, got>>
      PROVE  Messages'
  BY <1>2, ReadAndWrite, ImuParts DEF Messages
<1>3. CASE Imu!read_and_write
  BY <1>2, <1>3 DEF Imu!read_and_write, Imu!subVars
<1>4. CASE Imu!publish
  <2>1. CASE "endpoint" \in entities["pub"]
    BY <1>2, <1>4, <2>1 DEF Imu!publish, Imu!subVars
  <2>2. CASE "endpoint" \notin entities["pub"]
    BY <1>1, <1>4, <2>2 DEF Imu!publish, Imu!subVars
  <2>3. QED
    BY <2>1, <2>2
<1>5. CASE Imu!parse_arguments \/ Imu!read_failure \/ Imu!usleep \/ Imu!leave_loop
           \/ Imu!free_device \/ Imu!delete_publisher
  BY <1>1, <1>5 DEF Imu!parse_arguments, Imu!read_failure, Imu!usleep, Imu!leave_loop,
                    Imu!free_device, Imu!delete_publisher, Imu!pubVars, Imu!subVars
<1>6. ASSUME NEW allocated \in BOOLEAN, NEW initialized \in BOOLEAN,
             Imu!init_device(allocated, initialized)
      PROVE  Messages'
  BY <1>1, <1>6 DEF Imu!init_device, Imu!subVars
<1>7. ASSUME NEW n \in 0..4, Imu!init_publisher(n) \/ Imu!construct_wrapper(n)
      PROVE  Messages'
  BY <1>1, <1>7 DEF Imu!init_publisher, Imu!construct_wrapper, Imu!pubVars, Imu!subVars
<1>8. CASE Imu!destroy_wrapper \/ Imu!signalHandler
  BY <1>1, <1>8 DEF Imu!destroy_wrapper, Imu!signalHandler, Imu!pubVars, Imu!subVars
<1>9. QED
  BY <1>3, <1>4, <1>5, <1>6, <1>7, <1>8 DEF Imu!UartStep, Imu!WrapperStep

\* The listener hands over at most what it takes; what is lost is not delivered.
LEMMA Delivery ==
  ASSUME ImuInv, net # <<>>, net' = Tail(net),
         \/ got' = Append(got, Head(net)) /\ taken' = taken + 1
         \/ got' = got /\ (taken' = taken + 1 \/ taken' = taken),
         UNCHANGED <<samples, imu_read>>
  PROVE  Messages'
<1>1. InOrder(got, net, imu_read) /\ samples = Len(imu_read) /\ taken \in Nat
  BY DEF ImuInv, MessageInv
<1>2. InOrder(got', net', imu_read') /\ taken' \in Nat
  <2>1. InOrder(got, Tail(net), imu_read) /\ InOrder(Append(got, Head(net)), Tail(net), imu_read)
    BY <1>1, Taken
  <2>2. taken' \in Nat
    BY <1>1
  <2>3. QED
    BY <2>1, <2>2
<1>3. /\ net \in Seq(Message) /\ got \in Seq(Message) /\ Head(net) \in Message
  BY <1>1 DEF InOrder
<1>4. Len(net) <= MaxInFlight /\ MaxInFlight \in Nat /\ Len(got) <= taken
  BY ImuIsConfigured DEF ImuInv, Imu!TypeOK, Imu!ImuAssumption
<1>5. Len(net') <= MaxInFlight
  <2>1. Len(net') = Len(net) - 1 /\ Len(net) \in Nat
    BY <1>3
  <2>2. QED
    BY <1>4, <2>1
<1>6. Len(got') <= taken'
  <2>1. (got' = Append(got, Head(net)) => Len(got') = Len(got) + 1) /\ Len(got) \in Nat
    BY <1>3
  <2>2. QED
    BY <1>1, <1>4, <2>1
<1>7. QED
  BY <1>1, <1>2, <1>5, <1>6 DEF Messages, MessageInv, ImuInv, Imu!TypeOK

LEMMA SubscriberKeeps ==
  ASSUME ImuInv, Imu!SubscriberStep \/ Imu!lose
  PROVE  Messages' /\ Threads'
<1> DEFINE Silent == UNCHANGED <<net, samples, imu_read, taken, got>>
           Apart  == UNCHANGED <<producer, imu_dev, running>>
<1>1. Threads /\ "pub" \in Imu!Sides /\ "sub" \in Imu!Sides
      /\ \A side \in Imu!Sides : side = "pub" \/ side = "sub"
  BY ImuParts DEF Imu!Sides
<1>2. Silent => Messages'
  BY ImuParts DEF Messages, MessageInv
<1> USE DEF Threads, EntityInv, DeviceInv, PlaceInv, Imu!GivenBack
<1>3. ASSUME NEW n \in 0..4, Imu!construct_subscriber(n) PROVE Messages' /\ Threads'
  <2>1. /\ imu_pc["sub"] = "construct" /\ imu_pc'["sub"] = "use"
        /\ imu_pc'["pub"] = imu_pc["pub"] /\ imu_pc' \in [Imu!Sides -> Places]
    BY <1>1, <1>3, Goes DEF Imu!construct_subscriber, Places
  <2>2. /\ entities' \in [Imu!Sides -> SUBSET {"participant", "group", "topic", "endpoint"}]
        /\ \A each \in Imu!Sides : Prefix(entities'[each])
        /\ entities'["pub"] = entities["pub"]
    BY <1>1, <1>3, EntityChange DEF Imu!construct_subscriber
  <2>3. Silent /\ Apart /\ UNCHANGED callback
    BY <1>3 DEF Imu!construct_subscriber, Imu!pubVars, Imu!subVars
  <2>4. Threads'
    BY <1>1, <2>1, <2>2, <2>3
  <2>5. QED
    BY <1>2, <2>3, <2>4
<1>4. CASE Imu!begin_set_callback \/ Imu!end_set_callback
  <2>1. /\ Silent /\ Apart /\ UNCHANGED entities
        /\ \E from, to \in {"use", "setting"} : Imu!at("sub", from, to)
        /\ callback' \in {"assigned", "set"}
    BY <1>4 DEF Imu!begin_set_callback, Imu!end_set_callback, Imu!pubVars
  <2>2. PICK from, to \in {"use", "setting"} : Imu!at("sub", from, to)
    BY <2>1
  <2>3. /\ imu_pc["sub"] = from /\ imu_pc'["sub"] = to
        /\ imu_pc'["pub"] = imu_pc["pub"] /\ imu_pc' \in [Imu!Sides -> Places]
    BY <1>1, <2>2, Goes DEF Places
  <2>4. Threads'
    BY <1>1, <2>1, <2>2, <2>3
  <2>5. QED
    BY <1>2, <2>1, <2>4
<1>5. ASSUME NEW seen \in {"none", "set", "torn"}, Imu!on_data_available(seen)
      PROVE  Messages' /\ Threads'
  <2>1. Messages'
    BY <1>5, Delivery DEF Imu!on_data_available, Imu!take_next_sample, Imu!pubVars
  <2>2. Apart /\ UNCHANGED <<entities, callback>> /\ imu_pc["sub"] \in {"use", "setting"}
    BY <1>5 DEF Imu!on_data_available, Imu!pubVars
  <2>3. /\ imu_pc'["sub"] = IF seen = "torn" THEN "crashed" ELSE imu_pc["sub"]
        /\ imu_pc'["pub"] = imu_pc["pub"] /\ imu_pc' \in [Imu!Sides -> Places]
    BY <1>1, <1>5 DEF Imu!on_data_available, Places
  <2>4. seen = "torn" => callback = "assigned"
    BY <1>1, <1>5 DEF Imu!on_data_available
  <2>5. QED
    BY <1>1, <2>1, <2>2, <2>3, <2>4
<1>6. CASE Imu!destroy_subscriber
  <2>1. /\ imu_pc["sub"] = "use" /\ imu_pc'["sub"] = "exit"
        /\ imu_pc'["pub"] = imu_pc["pub"] /\ imu_pc' \in [Imu!Sides -> Places]
    BY <1>1, <1>6, Goes DEF Imu!destroy_subscriber, Places
  <2>2. /\ entities' \in [Imu!Sides -> SUBSET {"participant", "group", "topic", "endpoint"}]
        /\ \A each \in Imu!Sides : Prefix(entities'[each])
        /\ entities'["pub"] = entities["pub"] /\ entities'["sub"] = {}
    BY <1>1, <1>6, EntityChange DEF Imu!destroy_subscriber
  <2>3. /\ Apart /\ UNCHANGED <<callback, samples, imu_read, taken, got>> /\ net' = <<>>
    BY <1>6 DEF Imu!destroy_subscriber, Imu!pubVars, Imu!subVars
  <2>4. Threads'
    BY <1>1, <2>1, <2>2, <2>3
  <2>5. Len(<<>>) = 0 /\ 1..0 = {} /\ <<>> \in Seq(Message)
    OBVIOUS
  <2>6. InOrder(got, <<>>, imu_read)
    BY <2>5 DEF ImuInv, MessageInv, InOrder, OfSamples, Rising, Before
  <2>7. MaxInFlight \in Nat
    BY ImuIsConfigured DEF Imu!ImuAssumption
  <2>8. Messages'
    BY <2>3, <2>5, <2>6, <2>7, ImuParts DEF Messages, MessageInv
  <2>9. QED
    BY <2>4, <2>8
<1>7. CASE Imu!lose
  <2>1. Messages'
    BY <1>7, Delivery DEF Imu!lose, Imu!pubVars, Imu!subVars
  <2>2. Threads'
    BY <1>1, <1>7 DEF Imu!lose, Imu!pubVars, Imu!subVars
  <2>3. QED
    BY <2>1, <2>2
<1>8. QED
  BY <1>3, <1>4, <1>5, <1>6, <1>7 DEF Imu!SubscriberStep

LEMMA ImuStep == ImuInv /\ [Imu!Next]_imuVars => ImuInv'
<1> SUFFICES ASSUME ImuInv, [Imu!Next]_imuVars PROVE ImuInv'
  OBVIOUS
<1>1. (Messages /\ Threads)' => ImuInv'
  BY DEF ImuInv, Imu!TypeOK, Messages, Threads
<1>2. CASE UNCHANGED imuVars
  BY <1>2 DEF imuVars, ImuInv, Imu!TypeOK, Imu!GivenBack, EntityInv, DeviceInv, MessageInv,
              PlaceInv
<1>3. QED
  BY <1>1, <1>2, PublisherThreads, PublisherMessages, SubscriberKeeps DEF Imu!Next

=============================================================================
