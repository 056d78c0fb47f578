--------------------------- MODULE MCCommandService ---------------------------
(***************************************************************************)
(* Instances of CommandService.  Retries: r1 and r2 are retries of one     *)
(* command, and r3 gives the same commandId a key of its own.  Pair: one   *)
(* command and its retry.                                                  *)
(***************************************************************************)
EXTENDS CommandService, TLC

CONSTANTS r1, r2, r3, c1, c2, k1, k2

MCRequests == {r1, r2, r3}
MCPair == {r1, r2}
MCCommands == {c1, c2}
MCKeys == {k1, k2}

OnlyFirst == {r1}
OneCommand == {c1}
RetriesCommandOf == [r \in MCRequests |-> c1]
RetriesKeyOf == (r1 :> k1) @@ (r2 :> k1) @@ (r3 :> k2)

PairCommandOf == [r \in MCPair |-> c1]
SharedKeyOf == [r \in MCPair |-> k1]
=============================================================================
