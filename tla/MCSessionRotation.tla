-------------------------- MODULE MCSessionRotation --------------------------
(***************************************************************************)
(* A small instance of the session rotation.                               *)
(***************************************************************************)
EXTENDS SessionRotation, TLC

CONSTANTS timer, t1, t2, t3, t4

TimerOnly  == {timer}
FourTokens == {t1, t2, t3, t4}
AnyFault   == FaultKinds

=============================================================================
