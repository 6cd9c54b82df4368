------------------------- MODULE MCDeviceEnrollment --------------------------
(***************************************************************************)
(* Small instances of the device enrolment: one invitation of each kind    *)
(* for two machines that may both follow either link, and one invitation   *)
(* for one machine.                                                        *)
(***************************************************************************)
EXTENDS DeviceEnrollment, TLC

CONSTANTS code, gws, old, new

OneOfEach  == {code, gws}
CodeOnly   == {code}
OldAndNew  == {old, new}
NewOnly    == {new}
NoMachines == {}
NoCodes    == {}

(* A machine that comes back with a second key, one that does not.         *)
OldTwice == (old :> 2) @@ (new :> 1)
NewOnce  == new :> 1

=============================================================================
