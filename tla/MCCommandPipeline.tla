-------------------------- MODULE MCCommandPipeline --------------------------
(***************************************************************************)
(* Instances of CommandPipeline.  r1 and r2 are retries of the command c1  *)
(* and r3, where there is one, is a command c2 of its own.                 *)
(***************************************************************************)
EXTENDS CommandPipeline, TLC

CONSTANTS r1, r2, r3, c1, c2, k1, k2

One == {r1}
Retried == {r1, r2}
Different == {r1, r3}
Three == {r1, r2, r3}

MCCommandOf == [r \in Requests |-> IF r = r3 THEN c2 ELSE c1]
MCKeyOf == [r \in Requests |-> IF r = r3 THEN k2 ELSE k1]
MCCommands == {MCCommandOf[r] : r \in Requests}
MCKeys == {MCKeyOf[r] : r \in Requests}

NoRoutines == {}
NoRoutineOf == [r \in Requests |-> "no routine"]
NoRoutineChannel == [i \in {} |-> 1]

OnThenStop == [r \in Requests |-> IF r = r3 THEN "emergencyStop" ELSE "setPowerOn"]
AllUnsupported == [r \in Requests |-> "unsupported"]

ChannelOne == [r \in Requests |-> 1]
=============================================================================
