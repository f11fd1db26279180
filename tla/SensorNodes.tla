----------------------------- MODULE SensorNodes -----------------------------
(***************************************************************************)
(* The nodes around one input device each: NfcNode, PmNode,                *)
(* LightSensorNode, Lidar2DNode and ImuLink.  They are processes of their  *)
(* own and share nothing, so that a behaviour of one needs none of the     *)
(* others: `chosen` says which one runs, and the others stay where they    *)
(* start.                                                                  *)
(***************************************************************************)
EXTENDS NfcNode

CONSTANTS
    PowerMonitors, SwitchChannels, PublishOnStartup, Batteries, NaN,  \* of PmNode
    LightSensors, Levels,                                             \* of LightSensorNode
    Transport, RangeMin, RangeMax, ScanParams, Frames,                \* of Lidar2DNode
    Rates, TopicNames, Timestamps, SystemTime, IntHalf, MaxSamples, MaxInFlight  \* of ImuLink

VARIABLES
    chosen,
    pm_pc, pm_params, pm_dev, battery, switches, power_topic, switch_reply, power_read,
    light_pc, light_params, light_dev, level, light_topic, light_measured,
    inverted, flip_x_axis, angle_min, angle_max, scan_bins, lidar_pc, lidar_dev, started,
    scan_pub, frame, scan_msg, lidar_i, scan_topic, lidar_crashed, scan_source,
    producer, imu_topic, imu_pc, entities, imu_dev, running, sampled, samples, net,
    callback, taken, got, imu_read

pmVars == <<pm_pc, pm_params, pm_dev, battery, switches, power_topic, switch_reply, power_read>>
lightVars == <<light_pc, light_params, light_dev, level, light_topic, light_measured>>
lidarVars == <<inverted, flip_x_axis, angle_min, angle_max, scan_bins, lidar_pc, lidar_dev,
               started, scan_pub, frame, scan_msg, lidar_i, scan_topic, lidar_crashed,
               scan_source>>
imuVars == <<producer, imu_topic, imu_pc, entities, imu_dev, running, sampled, samples, net,
             callback, taken, got, imu_read>>
allVars == <<chosen, vars, pmVars, lightVars, lidarVars, imuVars>>

Pm == INSTANCE PmNode
      WITH Parameters <- PowerMonitors,
           pc <- pm_pc, params <- pm_params, dev <- pm_dev, topic <- power_topic,
           reply <- switch_reply, read <- power_read

Light == INSTANCE LightSensorNode
         WITH Parameters <- LightSensors,
              pc <- light_pc, params <- light_params, dev <- light_dev,
              topic <- light_topic, measured <- light_measured

Lidar == INSTANCE Lidar2DNode
         WITH pc <- lidar_pc, dev <- lidar_dev, i <- lidar_i, topic <- scan_topic,
              crashed <- lidar_crashed, source <- scan_source

Imu == INSTANCE ImuLink
       WITH topic <- imu_topic, pc <- imu_pc, dev <- imu_dev, read <- imu_read

ASSUME PmIsConfigured    == Pm!PmAssumption
ASSUME LidarIsConfigured == Lidar!LidarAssumption
ASSUME ImuIsConfigured   == Imu!ImuAssumption

-----------------------------------------------------------------------------
(* One of them runs.                                                       *)

\* Where the start is free, the nodes that do not run start at one place, at
\* which nothing is fair that they would have to do.
SensorsInit ==
    /\ chosen \in {"nfc", "pm", "light", "lidar", "imu"}
    /\ Init
    /\ Pm!Init    /\ (chosen # "pm" => /\ pm_params = CHOOSE p \in PowerMonitors : TRUE
                                       /\ battery = CHOOSE b \in Batteries : TRUE)
    /\ Light!Init /\ (chosen # "light" => /\ light_params = CHOOSE p \in LightSensors : TRUE
                                          /\ level = CHOOSE l \in Levels : TRUE)
    /\ Lidar!Init /\ (chosen # "lidar" =>
                         /\ inverted = FALSE /\ flip_x_axis = FALSE
                         /\ LET p == CHOOSE p \in ScanParams : TRUE
                            IN  /\ angle_min = p.angle_min /\ angle_max = p.angle_max
                                /\ scan_bins = p.scan_bins)
    /\ Imu!Init   /\ (chosen # "imu" =>
                         /\ producer = "wrapper"
                         /\ imu_topic = CHOOSE t \in [Imu!Sides -> TopicNames] : TRUE)

SensorsNext ==
    \/ /\ chosen = "nfc" /\ Next
       /\ UNCHANGED <<chosen, pmVars, lightVars, lidarVars, imuVars>>
    \/ /\ chosen = "pm" /\ Pm!Next
       /\ UNCHANGED <<chosen, vars, lightVars, lidarVars, imuVars>>
    \/ /\ chosen = "light" /\ Light!Next
       /\ UNCHANGED <<chosen, vars, pmVars, lidarVars, imuVars>>
    \/ /\ chosen = "lidar" /\ Lidar!Next
       /\ UNCHANGED <<chosen, vars, pmVars, lightVars, imuVars>>
    \/ /\ chosen = "imu" /\ Imu!Next
       /\ UNCHANGED <<chosen, vars, pmVars, lightVars, lidarVars>>

SensorsSpec ==
    /\ SensorsInit /\ [][SensorsNext]_allVars
    /\ Fairness /\ Pm!Fairness /\ Light!Fairness /\ Imu!Fairness

-----------------------------------------------------------------------------
(* Properties that several of the nodes have.                              *)

\* Each node's state has its shape.
SensorTypes == TypeOK /\ Pm!TypeOK /\ Light!TypeOK /\ Lidar!TypeOK /\ Imu!TypeOK

\* A node calls its driver only with a device that is open, and gives it back,
\* the IMU's nodes their DDS entities too, on every way out that the code
\* handles: destructors, signals, failing initializations.
DevicesGivenBack ==
    GivenBack /\ Pm!GivenBack /\ Light!GivenBack /\ Lidar!GivenBack /\ Imu!GivenBack

\* What a node tells of its device is true: the retained power status and the
\* illuminance are the last successful reading, within the documented ranges,
\* and a switch is where a successful answer says.
ReportsAreTrue == Pm!StatusIsTrue /\ Pm!AnswerIsTrue /\ Light!LuxIsTrue

\* A change of the battery or of the light gets on the topic, though some of
\* the readings fail.
ChangesAreShown == Pm!ChangeIsShown /\ Light!ChangeIsShown

\* See Lidar2DNode: a frame meets no publisher only during the construction.
FramesAreSafe == Lidar!FramesAreSafe

\* See Lidar2DNode: every bin holds the nearest point of its parts.
ScanIsNearest == Lidar!ScanIsNearest

\* See ImuLink: what is delivered was read, once and in order.
DeliveredIsRead == Imu!DeliveredIsRead

\* See ImuLink: a signal ends imu_uart_node and gives everything back.
SignalEnds == Imu!SignalEnds

=============================================================================
