------------------------------ MODULE MCSensors ------------------------------
(***************************************************************************)
(* Constants for model-checking SensorNodes.                               *)
(***************************************************************************)
EXTENDS SensorNodes, MCNfc

PowerMonitor ==
    [driver |-> "INA219", named |-> TRUE, poll_hz |-> 1, capacity_mah |-> 5000,
     max_voltage |-> 12, min_voltage |-> 9, warn_voltage |-> 10, crit_voltage |-> 9,
     max_temp |-> 60, adc_scale |-> NaN, i2c_addr |-> 64,
     supplies_given |-> FALSE, device_given |-> TRUE]

\* Every driver, complete and not; limits that are no numbers or out of order.
mc_PowerMonitors ==
    {PowerMonitor,
     [PowerMonitor EXCEPT !.driver = "generic"],
     [PowerMonitor EXCEPT !.driver = "generic", !.supplies_given = TRUE],
     [PowerMonitor EXCEPT !.driver = "ADC-Linux"],
     [PowerMonitor EXCEPT !.warn_voltage = NaN],
     [PowerMonitor EXCEPT !.crit_voltage = 11],
     [PowerMonitor EXCEPT !.i2c_addr = 128]}

Battery(status, percentage, health, cell_count) ==
    [status |-> status, percentage |-> percentage, health |-> health, cell_count |-> cell_count]

\* Values out of range and more cells than a message holds.
mc_Batteries ==
    {Battery("CHARGING", 50, 100, 3), Battery("FULL", 150, NaN, 300),
     Battery("FULL", NaN, -1, 16), Battery("UNKNOWN", -5, 100, 17)}

mc_Switches == <<"usb", "none", "audio">>

Sensor == [named |-> TRUE, i2c_addr |-> 68, poll_hz |-> 10, variance |-> 0]

mc_Sensors == {Sensor, [Sensor EXCEPT !.i2c_addr = 128], [Sensor EXCEPT !.poll_hz = NaN],
               [Sensor EXCEPT !.variance = -1]}

Point(angle, range, intensity) == [angle |-> angle, range |-> range, intensity |-> intensity]

\* No points; both ends of the angles and of the ranges, and beyond; points of
\* one bin, the nearest one first and last.
mc_Frames ==
    {<<>>,
     <<Point(-4, 1, 10), Point(4, 2, 20), Point(5, 2, 30), Point(0, 5, 40), Point(1, 0, 50)>>,
     <<Point(-3, 2, 10), Point(-4, 3, 20), Point(3, 4, 30), Point(2, 3, 40)>>,
     <<Point(0, 3, 10), Point(1, 3, 20), Point(-1, 2, 30), Point(-2, 1, 40)>>}

\* A sector with an even and an odd number of bins, with none and with less;
\* one that is reversed, and one without a width.
Scan(from, to, bins) == [angle_min |-> from, angle_max |-> to, scan_bins |-> bins]

mc_ScanParams ==
    {Scan(-4, 4, 4), Scan(-4, 4, 3), Scan(-4, 4, 0), Scan(-4, 4, -1),
     Scan(4, -4, 4), Scan(0, 0, 2)}
=============================================================================
