------------------------- MODULE MCBranchExploration -------------------------
EXTENDS BranchExploration, TLC
Two(a, b) == <<[fork |-> "f", path |-> a, merge |-> "m"], [fork |-> "f", path |-> b, merge |-> "m"]>>
\* two branches, one of two nodes, a reviewer with rework of a branch node
Reviewed(code, planner, adopted) ==
    [kind |-> [n \in {"f", "a", "b", "e", "m", "r"} |->
                  CASE n = "f" -> "fork" [] n = "e" -> "evaluator" [] n = "m" -> "merge" [] n = "r" -> "reviewer" [] OTHER -> "work"],
     deps |-> [n \in {"f", "a", "b", "e", "m", "r"} |->
                  CASE n = "e" -> {"a", "b"} [] n = "m" -> {"e"} [] n = "r" -> {"m"} [] OTHER -> {}],
     branches |-> Two(<<"a">>, <<"b">>),
     auto |-> {"a", "r"}, human |-> {}, adopted |-> adopted, code |-> code, planner |-> planner,
     phases |-> <<[nodes |-> {"f", "a", "b", "e", "m", "r"}, reviewer |-> "r", rework |-> {"a"}]>>]
\* no reviewer, an unchecked branch of two nodes, a final merge that people accept
Merged(code, adopted) ==
    [kind |-> [n \in {"f", "a", "b", "c", "e", "m"} |->
                  CASE n = "f" -> "fork" [] n = "e" -> "evaluator" [] n = "m" -> "merge" [] OTHER -> "work"],
     deps |-> [n \in {"f", "a", "b", "c", "e", "m"} |->
                  CASE n = "b" -> {"a"} [] n = "e" -> {"b", "c"} [] n = "m" -> {"e"} [] OTHER -> {}],
     branches |-> Two(<<"a", "b">>, <<"c">>),
     auto |-> {"c"}, human |-> {"m", "a"}, adopted |-> adopted, code |-> code, planner |-> FALSE, phases |-> <<>>]
MCPlans == {Reviewed(TRUE, FALSE, {"b"}), Reviewed(TRUE, TRUE, {}), Merged(FALSE, {"m"})}
=============================================================================
