---------------------------- MODULE DeviceReport ----------------------------
(* What polling promises the platform: the report of a device holds one true *)
(* value of each of its ranges, all read since the sweep reached the device. *)
(* When the line is disturbed, the promise is off until the next device.     *)
CONSTANTS Devices, Ranges   \* Ranges[d]: the ranges that device d has

VARIABLES
    device,    \* the device being read
    known,     \* the ranges whose value is known
    disturbed  \* answers may be taken for one another

vars == <<device, known, disturbed>>

Init == device \in Devices /\ known = {} /\ ~disturbed

Begin == device' \in Devices /\ known' = {} /\ ~disturbed'

Learn ==
    /\ \E r \in Ranges[device] \ known : known' = known \cup {r}
    /\ ~disturbed /\ UNCHANGED <<device, disturbed>>

(* A report needs every range.                                               *)
Report ==
    /\ known = Ranges[device] /\ known' = {}
    /\ ~disturbed /\ UNCHANGED <<device, disturbed>>

Disturb == disturbed' /\ device' \in Devices

Next == Begin \/ Learn \/ Report \/ Disturb

Spec == Init /\ [][Next]_vars
=============================================================================
