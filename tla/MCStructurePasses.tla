--------------------------- MODULE MCStructurePasses ---------------------------
(***************************************************************************)
(* StructurePasses on two roots of at most two candidates each.  A header  *)
(* declares nothing, a function with the span of the first root, one with  *)
(* that of the second, or both, of which the second may be refused.        *)
(***************************************************************************)
EXTENDS StructurePasses

Declares(scope, span) == [name |-> "f", scope |-> scope, span |-> span]

Global == Declares("global", 1)
Local  == Declares("local", 2)

MCHeaders == {<<>>, <<Global>>, <<Local>>, <<Global, Local>>}
=============================================================================
