--------------------------- MODULE MCRunExecution ---------------------------
(* Small plans for TLC. *)
EXTENDS RunExecution, TLC

CONSTANTS a, b

\* two parallel final nodes
PairDeps == a :> {} @@ b :> {}
\* one node behind the other
ChainDeps == a :> {} @@ b :> {a}
\* the host dies or a command is given, not both in one behaviour
ApartSpec == Init /\ [][Next /\ (crashes' = 0 \/ cmds' = 0)]_vars /\ Fairness
=============================================================================
