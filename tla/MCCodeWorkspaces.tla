--------------------------- MODULE MCCodeWorkspaces ---------------------------
(* Small plans for CodeWorkspaces; `tries` bounds the Attempts of a Run of each. *)

\* two conflicting branches of which one is merged
Choice ==
    LET b1 == [nodes |-> <<"b1">>, evidence |-> {"b1"}, evaluator |-> "e", merge |-> "m"]
        b2 == [nodes |-> <<"b2">>, evidence |-> {"b2"}, evaluator |-> "e", merge |-> "m"] IN
    [order |-> <<"b1", "b2", "e", "m">>,
     kind |-> [b1 |-> "work", b2 |-> "work", e |-> "evaluator", m |-> "merge"],
     needs |-> [b1 |-> {}, b2 |-> {}, e |-> {"b1", "b2"}, m |-> {"e"}],
     branches |-> {b1, b2},
     phase |-> [nodes |-> {}, rework |-> {}],
     clashes |-> {{"b1", "b2"}}, adopted |-> <<>>,
     faults |-> {"conflict", "stop"}, handoffs |-> 0, tries |-> 6]
\* a reviewed phase {w, r}; x builds on w outside of it, and f on both
Phase ==
    [order |-> <<"f", "r", "w", "x">>,
     kind |-> [w |-> "work", x |-> "work", r |-> "reviewer", f |-> "work"],
     needs |-> [w |-> {}, x |-> {"w"}, r |-> {"w"}, f |-> {"r", "x"}],
     branches |-> {},
     phase |-> [nodes |-> {"w", "r"}, rework |-> {"w"}],
     clashes |-> {{"w", "x"}}, adopted |-> <<>>,
     faults |-> {"reject", "write"}, handoffs |-> 0, tries |-> 6]
\* w was accepted from the predecessor Run
Successor ==
    [order |-> <<"v", "w", "x">>,
     kind |-> [v |-> "work", w |-> "work", x |-> "merge"],
     needs |-> [v |-> {}, w |-> {}, x |-> {"v", "w"}],
     branches |-> {},
     phase |-> [nodes |-> {}, rework |-> {}],
     clashes |-> {{"v", "w"}},
     adopted |-> [w |-> [commit |-> [base |-> 1, has |-> {<<"adopted", "w">>}], deps |-> <<>>]],
     faults |-> {"crash", "conflict", "reject"}, handoffs |-> 0, tries |-> 3]
\* x continues from a handoff of a stopped Attempt, or is refused one over a conflict
Handoff ==
    [order |-> <<"v", "w", "x">>,
     kind |-> [v |-> "work", w |-> "work", x |-> "work"],
     needs |-> [v |-> {}, w |-> {}, x |-> {"v", "w"}],
     branches |-> {},
     phase |-> [nodes |-> {}, rework |-> {}],
     clashes |-> {{"v", "w"}}, adopted |-> [w |-> [commit |-> [base |-> 1, has |-> {<<"adopted", "w">>}], deps |-> <<>>],
                  v |-> [commit |-> [base |-> 1, has |-> {<<"adopted", "v">>}], deps |-> <<>>]],
     faults |-> {"stop"}, handoffs |-> 1, tries |-> 3]
\* restarts and pauses around handoffs
Restart ==
    [order |-> <<"w", "x">>,
     kind |-> [w |-> "work", x |-> "work"],
     needs |-> [w |-> {}, x |-> {"w"}],
     branches |-> {},
     phase |-> [nodes |-> {}, rework |-> {}],
     clashes |-> {}, adopted |-> <<>>,
     faults |-> {"stop", "crash", "pause"}, handoffs |-> 2, tries |-> 6]
MCPlans == {Choice, Phase, Successor, Handoff, Restart}
=============================================================================
