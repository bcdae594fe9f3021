------------------------- MODULE CommandRefinement --------------------------
(***************************************************************************)
(* CommandExecution implements AttemptLedger.  The verdict of an Attempt   *)
(* is read from the rows a client of the execution component can see: the  *)
(* Verification evidence, the accepted Result and the Command state.       *)
(***************************************************************************)
EXTENDS CommandExecution

Verdict(c, a) ==
  IF a > command[c].attempt THEN "none"
  ELSE IF a = command[c].attempt /\ command[c].state = "LEASED" THEN "open"
  ELSE IF Shown(c, a, "MATCHED") THEN "applied"
  ELSE IF Shown(c, a, "NOT_APPLIED") THEN "not_applied"
  ELSE IF result[c][a] = "FAILED" THEN "failed"
  ELSE "unknown"

Ledger == INSTANCE AttemptLedger WITH
  ledger <- [c \in Commands |-> [a \in Attempts |-> Verdict(c, a)]]

\* Whatever sessions, fences, expiries and late messages do, the execution
\* tables show an AttemptLedger: no two open Attempts, no new Attempt without
\* proof that all earlier ones were not applied, no verdict changed after it
\* was given.
ImplementsLedger == Ledger!LedgerSpec
=============================================================================
