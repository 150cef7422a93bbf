----------------------------- MODULE MCPlanGraph -----------------------------
\* Drafts near two plans: one with two phases and one with an exploration.
EXTENDS Naturals

E(source, target, type, branch) ==
    [source |-> source, target |-> target, type |-> type, branch |-> branch]
D(source, target) == E(source, target, "dependency", "none")
B(key, nodes) == [key |-> key, fork |-> "f", nodes |-> nodes, merge |-> "m"]
\* a branch of one node
Through(node, key) == {E("f", node, "exploration", key), E(node, "m", "merge", key)}
P(key, nodes, reviewer, rework) == [key |-> key, nodes |-> nodes, reviewer |-> reviewer, rework |-> rework]

MCFirst == P("p1", {"w", "r"}, "r", {"w"})
MCSecond == P("p2", {"a", "b", "s"}, "s", {"a", "b"})
Chain == [nodes |-> [n \in {"w", "r", "a", "b", "s"} |-> IF n \in {"r", "s"} THEN "reviewer" ELSE "work"],
          edges |-> {D("w", "r"), D("r", "a"), D("a", "b"), D("b", "s")},
          branches |-> <<>>, phases |-> <<MCFirst, MCSecond>>,
          gates |-> [n \in {"r"} |-> "command"], final |-> "command",
          owners |-> [g \in {} |-> "s"], process |-> FALSE]
Frozen == [Chain EXCEPT !.gates = [n \in {} |-> "command"], !.final = "none", !.process = TRUE,
                        !.owners = [g \in {"first", "final"} |-> IF g = "first" THEN "r" ELSE "s"]]
Fork == [Chain EXCEPT
    !.nodes = [n \in {"f", "a", "b", "e", "m", "s"} |->
                CASE n = "f" -> "fork" [] n = "e" -> "evaluator" [] n = "m" -> "merge"
                  [] n = "s" -> "reviewer" [] OTHER -> "work"],
    !.edges = Through("a", "x") \cup Through("b", "y")
              \cup {D("a", "e"), D("b", "e"), D("e", "m"), D("m", "s")},
    !.branches = <<B("x", <<"a">>), B("y", <<"b">>)>>,
    !.phases = <<P("p1", {"f", "a", "b", "e", "m", "s"}, "s", {"m"})>>,
    !.gates = [n \in {} |-> "command"], !.final = "command"]

MCSeeds == {Chain, Frozen, Fork}
MCKinds == [n \in {"r", "a", "b"} |-> IF n = "r" THEN {"reviewer"} ELSE {"work", "reviewer"}]
MCEdges == {E("a", "b", "conditional", "none"), D("a", "b"), D("b", "s"), D("r", "b"), D("w", "b"), D("a", "s"), D("b", "a"),
            D("a", "m"), D("w", "r"), E("f", "a", "exploration", "y"), E("a", "m", "merge", "y"), E("f", "b", "exploration", "y"), E("b", "m", "merge", "y")}
MCBranches == {B("y", <<"a">>), B("y", <<"b">>)}
MCPhases == {MCFirst, MCSecond, P("p2", {"a", "s"}, "s", {"a"})}
MCBudget == [width |-> 2, depth |-> 2, attempts |-> 8]
=============================================================================
