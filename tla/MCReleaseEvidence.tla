------------------------- MODULE MCReleaseEvidence -------------------------
(* Constants for the TLC runs of ReleaseEvidence.                          *)
EXTENDS ReleaseEvidence

SomePrograms == <<"cargo check", "cargo test">>
SomeCrates   == <<"terminal-protocol", "terminal-render-model", "terminal-core">>
CrateDepends ==
    [name \in {SomeCrates[i] : i \in 1..3} |->
       IF name = "terminal-core" THEN {"terminal-protocol", "terminal-render-model"} ELSE {}]
SomeTools == <<"cargo-audit", "cargo-deny">>

PlanWith(order) == [PlanDocument EXCEPT !.order = order]

(* Another good order, a bad one, one without a crate, one that lists a    *)
(* crate twice.                                                            *)
HandWrittenPlans ==
    {PlanWith(<<"terminal-render-model", "terminal-protocol", "terminal-core">>),
     PlanWith(<<"terminal-render-model", "terminal-core", "terminal-protocol">>),
     PlanWith(<<"terminal-protocol", "terminal-render-model">>),
     PlanWith(<<"terminal-core", "terminal-protocol", "terminal-render-model", "terminal-core">>)}
=============================================================================
