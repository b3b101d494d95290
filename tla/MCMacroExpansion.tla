-------------------------- MODULE MCMacroExpansion --------------------------
(***************************************************************************)
(* Two macros of one or two components on small trees: a Section with two  *)
(* children, and a Section whose generated Section may retain a child past *)
(* the depth quota.                                                        *)
(***************************************************************************)
EXTENDS MacroExpansion

Node(level, section, text) == [level |-> level, section |-> section, text |-> text]

MCCandidates == <<"alpha", "beta">>
MCClaims     == <<{"a", "s"}, {"a"}>>
MCForests    == {<<Node(1, TRUE, "s"), Node(2, FALSE, "a"), Node(2, FALSE, "a")>>,
                 <<Node(1, FALSE, "a"), Node(1, TRUE, "s")>>}
MCFragments  == {<<>>, <<Node(1, FALSE, "a")>>, <<Node(1, FALSE, "a"), Node(1, FALSE, "a")>>,
                 <<Node(1, TRUE, "s"), Node(2, TRUE, "s")>>}
=============================================================================
