------------------------- MODULE MCCommandDelivery -------------------------
(* Instance of CommandDelivery for TLC.  Each behaviour follows one intent *)
(* of the session that gets a stream: a Lease message along its whole path *)
(* or a Verification request behind a bus that stores it at will.  Workers *)
(* and Gateways are interchangeable.                                       *)
EXTENDS CommandDelivery, TLC

VARIABLE focus  \* the only intent of the behaviour that is ever written

MCGenerationOf == [m \in Messages |-> 2]

PathSymmetry == Permutations(Workers) \cup Permutations(Gateways)

FocusInit == PathInit /\ focus \in Messages

FocusNext ==
  /\ \/ focus \in Leases /\ PathNext
     \/ focus \in Verifications /\ GatewayNext /\ UNCHANGED outboxVars
  /\ \A m \in Messages \ {focus} : basis'[m] = "unwritten"
  /\ UNCHANGED focus

FocusSpec == FocusInit /\ [][FocusNext]_<<pathVars, focus>>

FairFocusSpec == FocusSpec /\ PathFairness
=============================================================================
