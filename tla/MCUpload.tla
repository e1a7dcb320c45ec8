------------------------------ MODULE MCUpload ------------------------------
(* Upload on a device of a coil and a register; one of such a register only; *)
(* one that has an alarm and nothing else; one without points; and one whose *)
(* registers share a measurement.                                            *)
EXTENDS Upload

CONSTANTS anAlarm, anEvent, aStatus, aMeasurement

Bit(k, e, a, at) ==
    [kind |-> k, alarm |-> a, alarmAt |-> at, event |-> e, eventAt |-> 1,
     status |-> None, measurement |-> None, forward |-> FALSE]
Register(k, a, s) ==
    [kind |-> k, alarm |-> a, alarmAt |-> 0, event |-> None, eventAt |-> 0,
     status |-> s, measurement |-> aMeasurement, forward |-> TRUE]

(* The first two make the same messages when the coil calls for nothing.     *)
Types ==
    <<<<Bit("co", anEvent, anAlarm, 1), Register("hr", anAlarm, aStatus)>>,
      <<Register("ir", anAlarm, aStatus)>>,
      <<Bit("di", None, anAlarm, 0)>>,
      <<>>,
      <<Register("hr", None, None), Register("hr", None, None)>>>>

Ranges == <<<<1, 2>>, <<1>>, <<1>>, <<>>, <<2>>>>
=============================================================================
