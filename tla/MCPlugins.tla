------------------------------ MODULE MCPlugins ------------------------------
(* An instance of Plugins for TLC. *)
EXTENDS Plugins, TLC

CONSTANTS i1, r1, r2

NoFilters == [s \in FilterSets |-> {}]

\* No blocker; one with a shared list and filters; one without, elsewhere; no
\* blocker, but tags.
Plain ==
    [blocker |-> FALSE, tags |-> NoTags, position |-> 0, ignored |-> {}, whitelist |-> None,
     hooks |-> TRUE, shared |-> [l \in {} |-> {}], filters |-> NoFilters]
Shared ==
    [blocker |-> TRUE, tags |-> {"a"}, position |-> 0, ignored |-> {"list", "nowhere"},
     whitelist |-> {"list"}, hooks |-> FALSE, shared |-> ("list" :> {i1}),
     filters |-> [NoFilters EXCEPT !["ingress"] = {i1}, !["ports"] = {i1}]]
Moved ==
    [Plain EXCEPT !.blocker = TRUE, !.position = 3]
TagsOnly == [Moved EXCEPT !.blocker = FALSE, !.tags = {"a"}]

MCConfigs == {Plain, Shared, Moved, TagsOnly}

Rule(tag) == [tag |-> tag, outbound |-> "direct"]
MCRuleLists == {<<Rule("a"), Api, Rule("")>>}
Symmetry == Permutations(Requests)
=============================================================================
