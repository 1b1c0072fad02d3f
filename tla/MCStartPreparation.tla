------------------------- MODULE MCStartPreparation -------------------------
(* An instance of StartPreparation for TLC. *)
EXTENDS StartPreparation, TLC

CONSTANTS c1, c2, new, geo1, geo2, site

\* geo1 and geo2 are two assets of one file name.
MCPathOf == (new :> STAGED) @@ (geo1 :> <<"geo.dat">>) @@ (geo2 :> <<"geo.dat">>)
            @@ (site :> <<"site.dat">>)

Asking(sections) == [starts |-> sections, cleanups |-> {{}}, listens |-> {}]

CorePanel == Asking({[core |-> c, assets |-> {}] : c \in {Stock, c1, c2}})
AssetPanel == Asking({[core |-> Stock, assets |-> {geo1, site}]})
SameNamePanel == Asking({[core |-> Stock, assets |-> {geo1, geo2}]})
SocketPanel ==
    [starts |-> {[core |-> Stock, assets |-> {}]}, listens |-> {"a.sock", "b.sock"},
     cleanups |-> {{}, {[glob |-> FALSE, paths |-> {"a.sock"}],
                        [glob |-> TRUE, paths |-> {"a.sock", "b.sock"}]}}]

\* Either the core is the matter, or the assets, or the sockets.
MCPanels == {CorePanel, AssetPanel, SameNamePanel, SocketPanel}
=============================================================================
