------------------------ MODULE MCPersistentProject -------------------------
(***************************************************************************)
(* Instances of PersistentProject for TLC.                                 *)
(***************************************************************************)
EXTENDS PersistentProject, TLC

MCSchema == {[id |-> "a", version |-> 1], [id |-> "a", version |-> 2]}
MCParse  == {[project |-> 1, id |-> 1], [project |-> 1, id |-> 2]}

MCThree  == MCParse \cup {[project |-> 1, id |-> 3]}

(* Bounds: a parse uses one namespace; a component declares a namespace    *)
(* under the newer schema only after a crash.                              *)
OneNamespace ==
    \A t \in Parse : Cardinality({n \in Namespace : parse'[t].base[n] # Unknown}) <= 1
NewSchemaLater ==
    crashes = 0 => \A n \in Namespace : declared'[n] # None => declared'[n].version = 1

NamespaceSymmetry == Permutations(Namespace)
=============================================================================
