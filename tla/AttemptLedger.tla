--------------------------- MODULE AttemptLedger ----------------------------
(***************************************************************************)
(* What Command execution promises, without sessions, Leases, messages or  *)
(* clocks: a ledger of verdicts, one per Attempt of a Command.             *)
(*                                                                         *)
(* An Attempt is started only when every earlier one was proved not        *)
(* applied; at most one is open; an open one gets one verdict, and only an *)
(* unknown verdict may later be resolved.                                  *)
(***************************************************************************)
EXTENDS Integers

CONSTANTS Commands, MaxAttempts

VARIABLE ledger  \* verdict of each Attempt, "none" for one not started

Verdicts == {"none", "open", "unknown", "failed", "applied", "not_applied"}

LedgerInit == ledger = [c \in Commands |-> [a \in 1..MaxAttempts |-> "none"]]

StartAttempt(c, a) ==
  /\ ledger[c][a] = "none"
  /\ \A b \in 1..a - 1 : ledger[c][b] = "not_applied"
  /\ ledger' = [ledger EXCEPT ![c][a] = "open"]

DecideAttempt(c, a) ==
  /\ ledger[c][a] = "open"
  /\ \E v \in Verdicts \ {"none", "open"} : ledger' = [ledger EXCEPT ![c][a] = v]

ResolveAttempt(c, a) ==
  /\ ledger[c][a] = "unknown"
  /\ \E v \in {"applied", "not_applied"} : ledger' = [ledger EXCEPT ![c][a] = v]

\* The Leases of a Host are lost together, so several open Attempts may become
\* unknown in one step.
LoseAttempts ==
  \E lost \in SUBSET Commands :
    /\ \A c \in lost : \E a \in 1..MaxAttempts : ledger[c][a] = "open"
    /\ ledger' = [c \in Commands |-> [a \in 1..MaxAttempts |->
                    IF c \in lost /\ ledger[c][a] = "open" THEN "unknown" ELSE ledger[c][a]]]

LedgerNext ==
  \/ LoseAttempts
  \/ \E c \in Commands, a \in 1..MaxAttempts :
       StartAttempt(c, a) \/ DecideAttempt(c, a) \/ ResolveAttempt(c, a)

LedgerSpec == LedgerInit /\ [][LedgerNext]_ledger
=============================================================================
