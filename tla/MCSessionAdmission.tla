------------------------- MODULE MCSessionAdmission -------------------------
(* Instance of SessionAdmission for TLC: connections are interchangeable.  *)
EXTENDS SessionAdmission, TLC

=============================================================================
