----------------------------- MODULE StateData ------------------------------
(***************************************************************************)
(* The data of the StateStore (parser-wasm/src/state/mod.rs): scopes,      *)
(* namespaces and values, the contents of a namespace, an overlay of       *)
(* writes, and the quota on what a namespace may hold.                     *)
(***************************************************************************)
EXTENDS Integers, FiniteSets, FiniteSetsExt

CONSTANTS
    Component,        \* component ids
    Namespace,        \* resolved namespace keys
    Owner,            \* [Namespace -> Component]
    Readers,          \* [Namespace -> SUBSET Component]
    Writers,          \* [Namespace -> SUBSET Component]
    Scope,            \* the scopes in use, a subset of AllScopes
    Doc,              \* document ids
    Key,              \* keys of a namespace
    Val,              \* values
    None,             \* "no value": what a read of an absent key returns
    Untouched,        \* "no entry in this overlay"
    Weight,           \* [Val -> Nat], the quota charge of a value
    Quota,            \* max_namespace_bytes
    Parse             \* parse handles, records [doc, revision, id]

Durable  == {"document", "project", "persistent"}
Volatile == {"invocation", "parse"}
AllScopes == Durable \cup Volatile

RevKey  == Scope \X Namespace
Global  == (Scope \cap {"project", "persistent"}) \X Namespace
Unknown == -1
Rev     == Nat \cup {Unknown}
Value   == Val \cup {None}
Cell    == Value \cup {Untouched}

ASSUME ScopesAssumption == Scope \subseteq AllScopes
ASSUME NamespaceAssumption ==
    /\ Owner   \in [Namespace -> Component]
    /\ Readers \in [Namespace -> SUBSET Component]
    /\ Writers \in [Namespace -> SUBSET Component]
ASSUME ValueAssumption ==
    /\ None \notin Val
    /\ Untouched \notin Value
    /\ Weight \in [Val -> Nat]
    /\ Quota \in Nat
ASSUME ParseAssumption ==
    Parse \subseteq [doc : Doc, revision : Nat \ {0}, id : Nat]

Status == {"idle", "open", "committed", "cancelled"}

Empty    == [k \in Key |-> None]
NoWrites == [rk \in RevKey |-> [k \in Key |-> Untouched]]

(* apply_overlay, for every key of a namespace at once *)
Patch(values, cells) ==
    [k \in Key |-> IF cells[k] = Untouched THEN values[k] ELSE cells[k]]

Touches(cells) == \E k \in Key : cells[k] # Untouched

(* namespace_size against max_namespace_bytes *)
Charge(value) == IF value = None THEN 0 ELSE Weight[value]
Size(values) == MapThenSumSet(LAMBDA k : Charge(values[k]), Key)
Fits(values) == Size(values) <= Quota

(* A sum of zeros: the fold cannot be unfolded by the prover.              *)
ASSUME EmptyAssumption == Fits(Empty)

(* StateStoreInner::committed_namespace: the committed contents of a       *)
(* namespace as a parse of document doc sees them.                         *)
At(docs, shared, doc, rk) ==
    CASE rk[1] = "document" -> docs[doc][rk[2]]
      [] rk \in Global      -> shared[rk]
      [] OTHER              -> Empty

(* StateStoreInner::commit_writes on the contents *)
PatchDocument(docs, doc, writes) ==
    IF "document" \notin Scope THEN docs
    ELSE [docs EXCEPT ![doc] =
             [n \in Namespace |-> Patch(@[n], writes[<<"document", n>>])]]

(* Mutant: the overlay replaces the contents instead of patching them.     *)
ReplaceGlobal(shared, writes) == [rk \in Global |-> writes[rk]]

PatchGlobal(shared, writes) == [rk \in Global |-> Patch(shared[rk], writes[rk])]
=============================================================================
