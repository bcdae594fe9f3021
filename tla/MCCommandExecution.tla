------------------------- MODULE MCCommandExecution -------------------------
(* Instance of CommandExecution for TLC: one Host that owns every Command.   *)
(* "retry" follows one Command through all its Attempts while the Host is    *)
(* approved, quarantined and armed again; "fencing" follows all Commands     *)
(* together, one Attempt each.                                               *)
EXTENDS CommandRefinement

CONSTANTS TheHost,
          TheCommand,    \* the Command that "retry" follows
          FirstAttempt,  \* the session attempt id of the first session
          Parts          \* the parts of a run

VARIABLE part  \* the part a behaviour belongs to

MCHosts == {TheHost}

MCHostOf == [c \in Commands |-> TheHost]

\* Session attempt ids are interchangeable: the first admission takes the first.
AttemptsInOrder == \A h \in Hosts : session'[h].generation = 1 => session'[h].attempt = FirstAttempt

\* The Results and read-backs of "fencing"; "retry" has the others.
FencingOutcomes == {"NONE", "SUCCEEDED", "FAILED"}

FencingEvidence == {"NONE", "MATCHED", "UNKNOWN"}

InPart(p) ==
  \/ /\ p = "retry"
     /\ \A c \in Commands \ {TheCommand} : command'[c].state = "NONE"
     /\ \A a \in Attempts, s \in Sources : evidence'[TheCommand][s][a] # "UNKNOWN"
     /\ observing'[TheCommand].state # "UNKNOWN"
  \/ /\ p = "fencing"
     /\ \A h \in Hosts : identity'[h].generation <= 1
     /\ \A c \in Commands :
          /\ command'[c].attempt <= 1
          /\ observing'[c].state \in FencingEvidence
          /\ \A a \in Attempts :
               /\ result'[c][a] \in FencingOutcomes
               /\ \A s \in Sources : evidence'[c][s][a] \in FencingEvidence

PartInit == Init /\ part \in Parts

PartNext == Next /\ UNCHANGED part /\ AttemptsInOrder /\ InPart(part)

PartSpec == PartInit /\ [][PartNext]_<<vars, part>>

FairPartSpec == PartSpec /\ Fairness
=============================================================================
