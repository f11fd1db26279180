-------------------------- MODULE SensorNodesProofs --------------------------
(***************************************************************************)
(* Proofs about NfcNode, PmNode and LightSensorNode and, with those of     *)
(* LidarImuProofs, about SensorNodes, in which one of the five runs.       *)
(***************************************************************************)
EXTENDS LidarImuProofs

-----------------------------------------------------------------------------
(* The NFC reader: what is remembered and what is published.               *)

\* What the code remembers is what the last poll reported, whichever poller it
\* was; as long as it remembers anything, that is the last tag detected, and
\* the topic holds the last tag detected.
MemoryInv ==
    /\ last_tag = polled
    /\ published = detected
    /\ last_tag # <<>> => last_tag = detected

\* Before the construction has ended there is no device and no message.
BeforeInv == pc = "construct" => dev = "null" /\ sent = <<>>

NfcInv == TypeOK /\ GivenBack /\ MemoryInv /\ BeforeInv

\* The history of a topic or of a poll is empty or one value.
LEMMA MaybeCases ==
  ASSUME NEW S, NEW h \in Maybe(S)
  PROVE  h = <<>> \/ \E x \in S : h = <<x>>
  BY DEF Maybe

LEMMA MaybeIntro ==
  ASSUME NEW S
  PROVE  <<>> \in Maybe(S) /\ \A x \in S : <<x>> \in Maybe(S)
  BY DEF Maybe

\* What a sequence of one value is.
LEMMA One == \A x, y : /\ <<x>> # <<>> /\ <<x>>[1] = x
                       /\ <<x>> = <<y>> => x = y
  OBVIOUS

\* A tag measured again is a tag.
LEMMA FadedType ==
  ASSUME NEW info \in TagInfo, NEW r \in Rssi
  PROVE  [info EXCEPT !.rssi_dbm = r] \in TagInfo
  BY DEF TagInfo

\* Handling the result of a poll: with a tag, what is remembered, what was
\* detected and what is on the topic become that tag, be it published or
\* suppressed; without one, only the memory goes.
LEMMA Handled ==
  ASSUME NfcInv, NEW result \in Maybe(TagInfo), handle(result)
  PROVE  /\ last_tag' = result /\ polled' = result
         /\ IF result = <<>> THEN UNCHANGED <<published, detected>> /\ sent' = <<>>
            ELSE published' = result /\ detected' = result
         /\ sent' \in Maybe(TagInfo) /\ announced' \in BOOLEAN
         /\ ~PublishDuplicates /\ sent' # <<>> => sent' # polled
<1> USE DEF handle, NfcInv, TypeOK, MemoryInv
<1>1. CASE result = <<>>
  BY <1>1, MaybeIntro DEF clear_last_tag
<1>2. ASSUME NEW info \in TagInfo, result = <<info>>
      PROVE  /\ last_tag' = result /\ polled' = result
             /\ published' = result /\ detected' = result
             /\ sent' \in Maybe(TagInfo) /\ announced' \in BOOLEAN
             /\ ~PublishDuplicates /\ sent' # <<>> => sent' # polled
  <2>1. /\ result # <<>> /\ result[1] = info
        /\ polled' = result /\ detected' = result /\ publish_detected_tag(info)
    BY <1>2, One DEF handle
  <2>2. CASE ~PublishDuplicates /\ last_tag # <<>> /\ same_tag(info, last_tag[1])
    <3>1. PICK old \in TagInfo : last_tag = <<old>>
      BY <2>2, MaybeCases
    <3>2. last_tag = result
      BY <1>2, <2>2, <3>1, One DEF same_tag
    <3>3. sent' = <<>> /\ UNCHANGED <<published, last_tag, announced>>
      BY <2>1, <2>2 DEF publish_detected_tag
    <3>4. QED
      BY <2>1, <3>2, <3>3, MaybeIntro
  <2>3. CASE ~(~PublishDuplicates /\ last_tag # <<>> /\ same_tag(info, last_tag[1]))
    <3>1. /\ sent' = <<info>> /\ published' = <<info>> /\ last_tag' = <<info>>
          /\ announced' = TRUE
      BY <2>1, <2>3, Zenon DEF publish_detected_tag
    <3>2. ~PublishDuplicates => sent' # polled
      BY <2>3, <3>1, One DEF same_tag
    <3>3. QED
      BY <1>2, <2>1, <3>1, <3>2, MaybeIntro
  <2>4. QED
    BY <2>2, <2>3
<1>3. QED
  BY <1>1, <1>2, MaybeCases

\* Every step preserves the invariant, and publishes no reading twice.
LEMMA NfcStep ==
  ASSUME NfcInv, Next
  PROVE  NfcInv' /\ (~PublishDuplicates /\ sent' # <<>> => sent' # polled)
<1> USE DEF NfcInv, TypeOK, GivenBack, MemoryInv, BeforeInv
<1>1. ASSUME NEW p \in Parameters, NEW ok \in [{"alloc", "init", "create"} -> BOOLEAN],
             construct(p, ok)
      PROVE  NfcInv' /\ sent' = <<>>
  BY <1>1 DEF construct
<1>2. CASE destroy
  BY <1>2, MaybeIntro DEF destroy
<1>3. ASSUME NEW result \in nfc_poll, handle(result)
      PROVE  NfcInv' /\ (~PublishDuplicates /\ sent' # <<>> => sent' # polled)
  <2>1. result \in Maybe(TagInfo)
    BY <1>3, MaybeIntro DEF nfc_poll
  <2>2. pc = "spin" /\ UNCHANGED <<pc, dev, field>>
    BY <1>3 DEF handle, node
  <2>3. QED
    BY <1>3, <2>1, <2>2, Handled
<1>4. CASE Place \/ Remove
  BY <1>4, MaybeIntro DEF Place, Remove, node
<1>5. CASE Fade
  <2>1. PICK info \in TagInfo : field = <<info>>
    BY <1>5, MaybeCases DEF Fade
  <2>2. field' \in Maybe(TagInfo)
    BY <1>5, <2>1, FadedType, MaybeIntro, One DEF Fade
  <2>3. QED
    BY <1>5, <2>2, MaybeIntro DEF Fade, node
<1>6. QED
  BY <1>1, <1>2, <1>3, <1>4, <1>5 DEF Next, poll_once, on_poll

LEMMA NfcStart == Init => NfcInv
  BY MaybeIntro DEF Init, NfcInv, TypeOK, GivenBack, MemoryInv, BeforeInv

LEMMA NfcStutter == NfcInv /\ UNCHANGED vars => NfcInv'
  BY DEF vars, node, NfcInv, TypeOK, GivenBack, MemoryInv, BeforeInv

-----------------------------------------------------------------------------
(* The power monitor: what is published, and what an answer says.          *)

\* The topic holds what the last successful reading gave.
ReadingInv ==
    \/ power_topic = <<>> /\ power_read \in {<<>>} \cup {<<s>> : s \in Batteries}
    \/ \E s \in Batteries : power_topic = <<Pm!to_ros_msg(s)>> /\ power_read = <<s>>

\* The node works with parameters that were checked.
CheckedInv == pm_pc \in {"setup", "spin"} => Pm!validate_config(pm_params)

PmInv == /\ Pm!TypeOK /\ Pm!GivenBack /\ Pm!AnswerIsTrue
         /\ ReadingInv /\ CheckedInv

\* What to_ros_msg makes of what the driver reports.
LEMMA MsgIsTrue ==
  ASSUME NEW s \in Batteries
  PROVE  LET msg == Pm!to_ros_msg(s)
         IN  /\ msg.percentage \in 0..100
             /\ s.percentage \in 0..100 => msg.percentage = s.percentage
             /\ msg.cell_voltages = msg.cell_count /\ msg.cell_count <= 16
             /\ s.cell_count <= 16 => msg.cell_count = s.cell_count
             /\ msg.status = 0 <=> s.status = "UNKNOWN"
<1> DEFINE msg == Pm!to_ros_msg(s)
<1>1. /\ s.status \in Pm!Statuses /\ s.percentage \in Int \cup {NaN}
      /\ s.cell_count \in Nat /\ NaN \notin Int
  BY PmIsConfigured DEF Pm!PmAssumption, Pm!Float
<1>2. /\ msg.percentage = Pm!clamp(Pm!finite(s.percentage), 0, 100)
      /\ msg.cell_count = Pm!cells(s) % 256 /\ msg.cell_voltages = Pm!cells(s)
      /\ msg.status = Pm!to_ros_status(s.status)
  BY DEF Pm!to_ros_msg
<1> HIDE DEF msg
<1>3. Pm!finite(s.percentage) \in Int /\ (s.percentage \in Int => Pm!finite(s.percentage) = s.percentage)
  BY <1>1 DEF Pm!finite
<1>4. msg.percentage \in 0..100 /\ (s.percentage \in 0..100 => msg.percentage = s.percentage)
  BY <1>2, <1>3 DEF Pm!clamp
<1>5. Pm!cells(s) \in 0..16 /\ (s.cell_count <= 16 => Pm!cells(s) = s.cell_count)
  BY <1>1 DEF Pm!cells, Pm!kMaxCellCount
<1>6. Pm!cells(s) % 256 = Pm!cells(s)
  BY <1>5
<1>7. msg.status = 0 <=> s.status = "UNKNOWN"
  BY <1>1, <1>2 DEF Pm!to_ros_status, Pm!Statuses
<1>8. QED
  BY <1>2, <1>4, <1>5, <1>6, <1>7 DEF msg

LEMMA PmReports == PmInv => Pm!StatusIsTrue
<1> SUFFICES ASSUME PmInv PROVE Pm!StatusIsTrue
  OBVIOUS
<1>1. CASE power_topic = <<>>
  <2>1. 1..Len(<<>>) = {}
    OBVIOUS
  <2>2. QED
    BY <1>1, <2>1, Zenon DEF Pm!StatusIsTrue
<1>2. ASSUME NEW s \in Batteries, power_topic = <<Pm!to_ros_msg(s)>>, power_read = <<s>>
      PROVE  Pm!StatusIsTrue
  <2>1. /\ 1..Len(power_topic) = {1} /\ power_topic[1] = Pm!to_ros_msg(s) /\ power_read[1] = s
    BY <1>2
  <2>2. QED
    <3> DEFINE msg == Pm!to_ros_msg(s)
    <3>1. /\ msg.percentage \in 0..100
          /\ s.percentage \in 0..100 => msg.percentage = s.percentage
          /\ msg.cell_voltages = msg.cell_count /\ msg.cell_count <= 16
          /\ s.cell_count <= 16 => msg.cell_count = s.cell_count
          /\ msg.status = 0 <=> s.status = "UNKNOWN"
      BY MsgIsTrue
    <3>2. /\ power_topic[1] = msg /\ power_read[1] = s
          /\ \A k \in 1..Len(power_topic) : k = 1
      BY <2>1
    <3> HIDE DEF msg
    <3>3. QED
      BY <3>1, <3>2 DEF Pm!StatusIsTrue
<1>3. QED
  BY <1>1, <1>2 DEF PmInv, ReadingInv

\* A reading, successful or not, keeps the topic and the history in step.
LEMMA Snapshot ==
  ASSUME PmInv, NEW rc \in BOOLEAN, Pm!publish_status_snapshot(rc)
  PROVE  ReadingInv' /\ Len(power_topic') <= 1 /\ Len(power_read') <= 1
<1>1. CASE rc
  <2>1. power_topic' = <<Pm!to_ros_msg(battery)>> /\ power_read' = <<battery>>
    BY <1>1 DEF Pm!publish_status_snapshot
  <2>2. battery \in Batteries
    BY DEF PmInv, Pm!TypeOK
  <2>3. Len(power_topic') = 1 /\ Len(power_read') = 1
    BY <2>1
  <2>4. QED
    BY <2>1, <2>2, <2>3 DEF ReadingInv
<1>2. CASE ~rc
  BY <1>2 DEF Pm!publish_status_snapshot, ReadingInv, PmInv, Pm!TypeOK
<1>3. QED
  BY <1>1, <1>2

\* The thresholds of parameters that were checked are in order.
LEMMA Thresholds ==
  ASSUME NEW c, Pm!validate_config(c)
  PROVE  /\ c.min_voltage <= c.crit_voltage
         /\ c.crit_voltage <= c.warn_voltage
         /\ c.warn_voltage <= c.max_voltage
  BY DEF Pm!validate_config

LEMMA PmStart == Pm!Init => PmInv
<1> SUFFICES ASSUME Pm!Init PROVE PmInv
  OBVIOUS
<1>1. Len(<<>>) = 0 /\ 1..0 = {}
  OBVIOUS
<1>2. Pm!AnswerIsTrue
  BY <1>1, Zenon DEF Pm!Init, Pm!AnswerIsTrue
<1>3. Pm!TypeOK
  BY <1>1 DEF Pm!Init, Pm!TypeOK
<1>4. QED
  BY <1>2, <1>3 DEF Pm!Init, PmInv, Pm!GivenBack, ReadingInv, CheckedInv

LEMMA PmStep == PmInv /\ [Pm!Next]_pmVars => PmInv'
<1> SUFFICES ASSUME PmInv, [Pm!Next]_pmVars PROVE PmInv'
  OBVIOUS
<1> USE DEF PmInv
<1> DEFINE Answers == UNCHANGED <<switches, switch_reply>>
<1>1. Answers => Pm!AnswerIsTrue'
  BY DEF Pm!AnswerIsTrue
<1>2. Len(<<>>) = 0
  OBVIOUS
<1>3. CheckedInv' /\ pm_params' = pm_params /\ pm_pc' = "spin"
      => /\ pm_params.min_voltage <= pm_params.crit_voltage
         /\ pm_params.crit_voltage <= pm_params.warn_voltage
         /\ pm_params.warn_voltage <= pm_params.max_voltage
  BY Thresholds DEF CheckedInv
<1> DEFINE Cleaned == power_topic' = <<>> /\ power_read' = power_read
<1>4. Cleaned => ReadingInv' /\ Len(power_topic') <= 1 /\ Len(power_read') <= 1
  BY <1>2 DEF ReadingInv, Pm!TypeOK
<1>5. UNCHANGED <<power_topic, power_read>> =>
         ReadingInv' /\ Len(power_topic') <= 1 /\ Len(power_read') <= 1
  BY DEF ReadingInv, Pm!TypeOK
<1>6. ASSUME NEW ok \in BOOLEAN, Pm!alloc_device(ok) PROVE PmInv'
  <2>1. /\ Answers /\ UNCHANGED <<pm_params, battery, power_read>>
        /\ CheckedInv' /\ Pm!GivenBack' /\ pm_pc' \in {"setup", "failed"}
        /\ pm_dev' \in {"null", "open", "freed"}
        /\ Cleaned \/ UNCHANGED <<power_topic, power_read>>
    BY <1>6 DEF Pm!alloc_device, Pm!cleanup_resources, CheckedInv, Pm!GivenBack, Pm!TypeOK
  <2>2. QED
    BY <1>1, <1>4, <1>5, <2>1 DEF Pm!TypeOK
<1>7. ASSUME NEW ok \in [Pm!SetupCalls -> BOOLEAN], Pm!setup(ok) PROVE PmInv'
  <2>1. ok["pm_get_state"] \in BOOLEAN
    BY DEF Pm!SetupCalls
  <2>2. /\ Answers /\ UNCHANGED <<pm_params, battery>>
        /\ CheckedInv' /\ Pm!GivenBack' /\ pm_pc' \in {"spin", "failed"}
        /\ pm_dev' \in {"null", "open", "freed"}
    BY <1>7 DEF Pm!setup, Pm!cleanup_resources, CheckedInv, Pm!GivenBack, Pm!TypeOK
  <2>3. \/ Cleaned \/ UNCHANGED <<power_topic, power_read>>
        \/ Pm!publish_status_snapshot(ok["pm_get_state"])
    BY <1>7 DEF Pm!setup, Pm!cleanup_resources
  <2>4. ReadingInv' /\ Len(power_topic') <= 1 /\ Len(power_read') <= 1
    BY <1>4, <1>5, <2>1, <2>3, Snapshot
  <2>5. QED
    BY <1>1, <1>3, <2>2, <2>4 DEF Pm!TypeOK
<1>8. ASSUME NEW rc \in BOOLEAN, Pm!poll(rc) PROVE PmInv'
  <2>1. ReadingInv' /\ Len(power_topic') <= 1 /\ Len(power_read') <= 1
    BY <1>8, Snapshot DEF Pm!poll
  <2>2. Answers /\ UNCHANGED <<pm_pc, pm_params, pm_dev, battery>>
    BY <1>8 DEF Pm!poll
  <2>3. QED
    BY <1>1, <2>1, <2>2 DEF Pm!TypeOK, Pm!GivenBack, CheckedInv
<1>9. ASSUME NEW channel \in 0..Len(SwitchChannels), NEW enable \in BOOLEAN, NEW rc \in BOOLEAN,
             Pm!on_set_power_switch(channel, enable, rc)
      PROVE  PmInv'
  <2> DEFINE name == SwitchChannels[channel + 1]
             answer(s) == [channel |-> channel, enable |-> enable, success |-> s]
  <2>1. UNCHANGED <<pm_pc, pm_params, pm_dev, battery, power_topic, power_read>>
    BY <1>9 DEF Pm!on_set_power_switch
  <2>2. SwitchChannels \in Seq(STRING) /\ Len(SwitchChannels) \in Nat
    BY PmIsConfigured DEF Pm!PmAssumption
  <2>3. CASE switch_reply' = <<answer(FALSE)>> /\ UNCHANGED switches
    <3>1. Len(switch_reply') = 1 /\ switch_reply'[1] = answer(FALSE)
      BY <2>3
    <3>2. Pm!AnswerIsTrue'
      BY <3>1 DEF Pm!AnswerIsTrue
    <3>3. QED
      BY <1>5, <2>1, <2>3, <3>1, <3>2 DEF Pm!TypeOK, Pm!GivenBack, CheckedInv
  <2>4. CASE /\ Pm!configured(channel) /\ rc /\ switch_reply' = <<answer(TRUE)>>
             /\ switches' = [switches EXCEPT ![name] = enable]
    <3>1. channel \in 0..(Len(SwitchChannels) - 1) /\ name \in Pm!Channels
      BY <2>2, <2>4 DEF Pm!configured, Pm!Channels
    <3>2. switches' \in [Pm!Channels -> BOOLEAN] /\ switches'[name] = enable
      BY <2>4, <3>1 DEF Pm!TypeOK
    <3>3. /\ Len(switch_reply') = 1 /\ switch_reply'[1].channel = channel
          /\ switch_reply'[1].enable = enable
      BY <2>4
    <3>4. Pm!AnswerIsTrue'
      BY <3>1, <3>2, <3>3 DEF Pm!AnswerIsTrue
    <3>5. QED
      BY <1>5, <2>1, <3>2, <3>3, <3>4 DEF Pm!TypeOK, Pm!GivenBack, CheckedInv
  <2>5. QED
    BY <1>9, <2>3, <2>4 DEF Pm!on_set_power_switch, Pm!pm_switch_set
<1>10. CASE Pm!destroy
  <2>1. /\ Answers /\ Cleaned /\ UNCHANGED <<pm_params, battery>>
        /\ pm_pc' = "destroyed" /\ pm_dev' \in {"null", "freed"}
    BY <1>10 DEF Pm!destroy, Pm!cleanup_resources
  <2>2. QED
    BY <1>1, <1>4, <2>1 DEF Pm!TypeOK, Pm!GivenBack, CheckedInv
<1>11. CASE Pm!battery_changes
  <2>1. /\ Answers /\ battery' \in Batteries
        /\ UNCHANGED <<pm_pc, pm_params, pm_dev, power_topic, power_read>>
    BY <1>11 DEF Pm!battery_changes
  <2>2. QED
    BY <1>1, <1>5, <2>1 DEF Pm!TypeOK, Pm!GivenBack, CheckedInv
<1>12. CASE UNCHANGED pmVars
  BY <1>1, <1>5, <1>12 DEF pmVars, Pm!TypeOK, Pm!GivenBack, CheckedInv
<1>13. QED
  BY <1>6, <1>7, <1>8, <1>9, <1>10, <1>11, <1>12 DEF Pm!Next

-----------------------------------------------------------------------------
(* The light sensor.                                                       *)

LightInv ==
    /\ Light!TypeOK /\ Light!GivenBack /\ Light!LuxIsTrue
    /\ light_pc = "alloc" => light_dev = "null"
    /\ light_pc \in {"init", "create", "spin"} => Light!validate_config(light_params)

LEMMA LightStart == Light!Init => LightInv
<1>1. Len(<<>>) = 0 /\ 1..0 = {}
  OBVIOUS
<1>2. Light!Init => Light!LuxIsTrue
  BY <1>1, Zenon DEF Light!Init, Light!LuxIsTrue
<1>3. QED
  BY <1>1, <1>2 DEF Light!Init, LightInv, Light!TypeOK, Light!GivenBack

LEMMA LightStep == LightInv /\ [Light!Next]_lightVars => LightInv'
<1> SUFFICES ASSUME LightInv, [Light!Next]_lightVars PROVE LightInv'
  OBVIOUS
<1> USE DEF LightInv, Light!TypeOK, Light!GivenBack
<1> DEFINE Quiet == UNCHANGED <<light_params, light_topic, light_measured>>
<1>1. Quiet => Light!LuxIsTrue'
  BY DEF Light!LuxIsTrue
<1>2. ASSUME NEW ok \in BOOLEAN, Light!alloc(ok) PROVE LightInv'
  BY <1>1, <1>2 DEF Light!alloc
<1>3. ASSUME NEW ok \in BOOLEAN, Light!init(ok) PROVE LightInv'
  BY <1>1, <1>3 DEF Light!init
<1>4. ASSUME NEW ok \in BOOLEAN, Light!create(ok) PROVE LightInv'
  BY <1>1, <1>4 DEF Light!create, Light!validate_config
<1>5. ASSUME NEW rc \in {"ok", "again", "error"}, Light!tick(rc) PROVE LightInv'
  <2>1. UNCHANGED <<light_pc, light_params, light_dev, level>>
    BY <1>5 DEF Light!tick
  <2>2. CASE rc = "ok"
    <3>1. light_topic' = <<Light!Message(level)>> /\ light_measured' = <<level>>
      BY <1>5, <2>2 DEF Light!tick
    <3>2. /\ Len(light_topic') = 1 /\ Len(light_measured') = 1
          /\ light_topic'[1].illuminance = light_measured'[1]
          /\ \A k \in 1..Len(light_topic') : k = 1
      BY <3>1 DEF Light!Message
    <3>3. Light!LuxIsTrue'
      BY <3>2 DEF Light!LuxIsTrue
    <3>4. QED
      BY <2>1, <3>2, <3>3
  <2>3. CASE rc # "ok"
    BY <1>1, <1>5, <2>1, <2>3 DEF Light!tick
  <2>4. QED
    BY <2>2, <2>3
<1>6. CASE Light!destroy
  BY <1>1, <1>6 DEF Light!destroy
<1>7. CASE Light!light_changes
  BY <1>1, <1>7 DEF Light!light_changes
<1>8. CASE UNCHANGED lightVars
  BY <1>1, <1>8 DEF lightVars
<1>9. QED
  BY <1>2, <1>3, <1>4, <1>5, <1>6, <1>7, <1>8 DEF Light!Next

-----------------------------------------------------------------------------
(* All nodes.                                                              *)

SensorsInv == NfcInv /\ PmInv /\ LightInv /\ LidarInv /\ ImuInv

\* A step is a step of one node, and the others stay where they are.
LEMMA Each ==
  [SensorsNext]_allVars => /\ [Next]_vars /\ [Pm!Next]_pmVars /\ [Light!Next]_lightVars
                           /\ [Lidar!Next]_lidarVars /\ [Imu!Next]_imuVars
  BY DEF SensorsNext, allVars

LEMMA SensorsStep == SensorsInv /\ [SensorsNext]_allVars => SensorsInv'
  BY Each, NfcStep, NfcStutter, PmStep, LightStep, LidarStep, ImuStep DEF SensorsInv

\* What each node preserves holds whichever of them runs.
THEOREM SensorsInvariance == SensorsSpec => []SensorsInv
<1>1. SensorsInit => SensorsInv
  BY NfcStart, PmStart, LightStart, LidarStart, ImuStart DEF SensorsInit, SensorsInv
<1>2. QED
  BY <1>1, SensorsStep, PTL DEF SensorsSpec

\* Types are kept, by every node: a power monitor runs with thresholds that are
\* in order, a light sensor with an address that is one, and the IMU's wrappers
\* crash only where they do not look.
THEOREM TypesAreKept == SensorsSpec => []SensorTypes
<1>1. SensorsInv => SensorTypes
  BY DEF SensorsInv, NfcInv, PmInv, LightInv, LidarInv, ImuInv, SensorTypes
<1>2. QED
  BY <1>1, SensorsInvariance, PTL

\* Every node calls its driver with an open device only and gives it back on
\* every way out that the code handles; the IMU's nodes also delete every DDS
\* entity, however far their init came, and DDS refuses none of the deletions.
THEOREM DevicesAreGivenBack == SensorsSpec => []DevicesGivenBack
<1>1. SensorsInv => DevicesGivenBack
  BY DEF SensorsInv, NfcInv, PmInv, LightInv, LidarInv, ImuInv, DevicesGivenBack
<1>2. QED
  BY <1>1, SensorsInvariance, PTL

\* Suppressing duplicates hides no card: the topic's last message is of the card
\* that either poller detected last, for all cards and signal strengths.
THEOREM NothingHidden == SensorsSpec => []TopicIsCurrent
<1>1. SensorsInv => TopicIsCurrent
  BY DEF SensorsInv, NfcInv, MemoryInv, TopicIsCurrent
<1>2. QED
  BY <1>1, SensorsInvariance, PTL

\* Without publish_duplicates nothing is published that the poll before reported
\* too, be it the timer's or the service's.
THEOREM NothingRepeated == SensorsSpec => NoRepeats
<1>1. SensorsInv /\ [SensorsNext]_allVars
      => [~PublishDuplicates /\ sent' # <<>> => sent' # polled]_vars
  BY Each, NfcStep DEF SensorsInv
<1>2. QED
  BY <1>1, SensorsInvariance, PTL DEF SensorsSpec, NoRepeats

\* Whatever a battery or a sensor reports, what is retained is in the documented
\* ranges and true to the last successful reading, and a switch is where the
\* last answer, if it is one of success, says.
THEOREM ReportsAreHonest == SensorsSpec => []ReportsAreTrue
<1>1. SensorsInv => ReportsAreTrue
  BY PmReports DEF SensorsInv, PmInv, LightInv, ReportsAreTrue
<1>2. QED
  BY <1>1, SensorsInvariance, PTL

\* For every frame, every number of bins, even or odd, and every sector of angles
\* that has a width, a reversed one included, each bin of a scan holds the
\* nearest of the points in the parts of the sector that it stands for.
THEOREM BinsHoldTheNearest == SensorsSpec => []ScanIsNearest
<1>1. SensorsInv => ScanIsNearest
  BY DEF SensorsInv, LidarInv, ScanIsNearest
<1>2. QED
  BY <1>1, SensorsInvariance, PTL

\* Of all interleavings of the lidar's two threads, only those of a construction
\* that is under way or failed let a frame meet no publisher; the only other
\* crash is that of a number of bins below 0.
THEOREM FramesMeetTheirPublisher == SensorsSpec => FramesAreSafe
<1>1. SensorsInv /\ [SensorsNext]_allVars
      => [lidar_crashed' # lidar_crashed => lidar_pc \in {"create", "failed"} \/ scan_bins < 0]_(Lidar!vars)
  BY Each, LidarSafe DEF SensorsInv
<1>2. QED
  BY <1>1, SensorsInvariance, PTL DEF SensorsSpec, FramesAreSafe, Lidar!FramesAreSafe

\* What a subscriber's callback sees are samples that were read, each once and in
\* the order of reading, whatever gets lost on the way, with the device's time as long
\* as its seconds fit the 32 bits they are cast to.
THEOREM DeliveryIsFaithful == SensorsSpec => []DeliveredIsRead
<1>1. SensorsInv => DeliveredIsRead
  BY ImuDelivered DEF SensorsInv, DeliveredIsRead
<1>2. QED
  BY <1>1, SensorsInvariance, PTL

=============================================================================
