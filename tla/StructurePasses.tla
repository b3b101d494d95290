---------------------------- MODULE StructurePasses ----------------------------
(***************************************************************************)
(* The Structure parser, parse_structures_with_snapshot of                 *)
(* skript-parser/src/structure.rs, over the environment of                 *)
(* parser-wasm/src/host.rs and the FunctionRegistryTransaction of          *)
(* skript-parser/src/function_registry.rs.                                 *)
(*                                                                         *)
(* Every root of a document is matched and the headers of its candidates   *)
(* are entered before any body is parsed; the first candidate whose header *)
(* is accepted is selected.  Then the bodies are parsed in order, and a    *)
(* candidate whose body is rejected gives way to the next one.  Headers    *)
(* write state, declare functions and, without a body, change the context  *)
(* of the roots that follow; bodies look functions up, and the expressions *)
(* of a root are memoized over all attempts at its body.                   *)
(*                                                                         *)
(* Abstractions: a hook call or a body is the work it writes, numbered;    *)
(* the log is the overlay of the parse and the effects recorded with it,   *)
(* saved and restored together.  A context is the headers whose updates it *)
(* holds.  A declaration is a name, a scope and a span: one shape per      *)
(* name, so a duplicate signature and an overload the version refuses are  *)
(* the same.  The component gives the span (function_declaration_from_wit) *)
(* and may give any: the number of the root whose header it is, 0 if none. *)
(***************************************************************************)
EXTENDS Naturals, FiniteSets, SequencesExt

CONSTANTS
    Roots,        \* the number of top-level nodes
    MaxRanked,    \* bound: candidates that match a header
    Headers,      \* the sequences of declarations a header may make
    MaxWork,      \* bound: hook calls and bodies that write
    MaxDeclared   \* bound: headers that declare functions

Scopes == {"local", "global"}
Names  == {d.name : d \in UNION {Range(h) : h \in Headers}}

(* A declaration has one of the two scopes of FunctionScope, any span.     *)
ASSUME PassesAssumption ==
    /\ Roots \in Nat \ {0}
    /\ MaxRanked \in Nat /\ MaxWork \in Nat /\ MaxDeclared \in Nat
    /\ \A h \in Headers : h \in Seq([name : Names, scope : Scopes, span : 0 .. Roots])

VARIABLES
    log,       \* the overlay of the transaction
    works,     \* the number of works so far
    registry,  \* registrations
    order,     \* next_registration_order
    context,   \* the context of the ExpressionSession
    frames,    \* semantic_candidates and semantic_contexts
    memo,      \* the calls that ExpressionSession has memoized
    declared,  \* the number of headers that declared so far
    at,        \* where the parser is
    root,      \* the root it is at
    ranked,    \* the candidates of the root that are still to be tried
    roots      \* by root, what became of it

vars == <<log, works, registry, order, context, frames, memo, declared, at, root, ranked, roots>>

Root  == 1 .. Roots
R     == roots[root]

(* claims: accepted headers, the selected one first.  first: the one the   *)
(* first pass selected, a directive if it has no body.  head, body and     *)
(* declares are a history of the work and of the declarations the          *)
(* selection stands for, rejected one of the bodies that were not.         *)
Unclaimed == [claims |-> <<>>, first |-> 0, directive |-> FALSE, mode |-> "none",
              parent |-> <<>>, context |-> <<>>, head |-> <<>>, body |-> <<>>, declares |-> <<>>,
              calls |-> {}, rejected |-> FALSE, selected |-> 0]

Init ==
    /\ log = <<>> /\ works = 0 /\ registry = <<>> /\ order = 0
    /\ context = <<>> /\ frames = <<>> /\ memo = {} /\ declared = 0
    /\ at = "match" /\ root = 1 /\ ranked = <<>>
    /\ roots = [r \in Root |-> Unclaimed]

-----------------------------------------------------------------------------
(* FunctionRegistryTransaction                                             *)
Taken(reg, d) == \E e \in Range(reg) : e.name = d.name /\ e.scope = d.scope

(* Mutant: the number of registrations stands for the next order.          *)
CountedOrder(s) == Len(s.registry)
OrderOf(s)      == s.order

(* register, of one declaration after the other until one is refused.      *)
(* root, by and late are a history: the root, which header that declares,  *)
(* and that it was in the second pass.                                     *)
Register(t, d, late) ==
    IF t.ok /\ ~Taken(t.registry, d)
    THEN [t EXCEPT !.order = OrderOf(t) + 1,
                   !.registry = Append(@,
                       [name |-> d.name, scope |-> d.scope, span |-> d.span, order |-> OrderOf(t),
                        root |-> root, by |-> declared + 1, late |-> late])]
    ELSE [t EXCEPT !.ok = FALSE]
Registered(s, ds, late) ==
    LET after[i \in 0 .. Len(ds)] ==
            IF i = 0 THEN s ELSE Register(after[i - 1], ds[i], late)
    IN after[Len(ds)]

(* lookup_functions: a local declaration before the global one.            *)
(* Mutant: among the declarations of the roots so far.                     *)
LookupBefore(reg, name) ==
    {e \in Range(reg) : e.name = name /\ e.root < root}
Lookup(reg, name) ==
    LET named == {e \in Range(reg) : e.name = name}
        local == {e \in named : e.scope = "local"}
    IN IF local # {} THEN local ELSE named

(* discard_structure_candidate removes what has the span of the header,    *)
(* whoever declared it.  Mutant: what a rejected body leaves.              *)
Retained(reg)  == reg
Discarded(reg) ==
    LET keep[i \in 0 .. Len(reg)] ==
            IF i = 0 THEN <<>>
            ELSE IF reg[i].span = root THEN keep[i - 1] ELSE Append(keep[i - 1], reg[i])
    IN keep[Len(reg)]

-----------------------------------------------------------------------------
(* Semantic candidates: what is saved, and what a finished one leaves.     *)
Saved(ctx) == [log |-> log, registry |-> Len(registry), order |-> order, context |-> ctx]
Now        == [log |-> log, registry |-> registry, order |-> order, ok |-> TRUE]

(* Mutant: only the registry is rolled back.                               *)
Unregistered(fr, s) == [s EXCEPT !.registry = SubSeq(@, 1, fr.registry), !.order = fr.order]
RolledBack(fr, s)   == [s EXCEPT !.log = fr.log, !.order = fr.order,
                                 !.registry = SubSeq(@, 1, fr.registry)]
Finished(keep, fr, s) == IF keep THEN s ELSE RolledBack(fr, s)

Becomes(s) == log' = s.log /\ registry' = s.registry /\ order' = s.order

Works == {<<>>} \cup (IF works < MaxWork THEN {<<works + 1>>} ELSE {})
Wrote(w) == works' = works + Len(w)

Declarations == {ds \in Headers : ds = <<>> \/ declared < MaxDeclared}
Declared(ds) == declared' = declared + (IF ds = <<>> THEN 0 ELSE 1)

-----------------------------------------------------------------------------
(* The first pass.  match_candidates_at_depth leaves the transaction with  *)
(* the work of the first candidate that matched; each one keeps its own.   *)
MatchHeader ==
    /\ at = "match"
    /\ \E n \in 0 .. MaxRanked : \E writing \in SUBSET (1 .. n) :
        LET Work(i) == IF i \in writing
                       THEN <<works + Cardinality({j \in writing : j <= i})>> ELSE <<>>
            first   == IF n = 0 THEN <<>> ELSE Work(1)
        IN
        /\ works + Cardinality(writing) <= MaxWork
        /\ ranked' = [i \in 1 .. n |-> [cand |-> i, state |-> log \o Work(i)]]
        /\ log' = log \o first
        /\ works' = works + Cardinality(writing)
        /\ roots' = [roots EXCEPT ![root].parent = context, ![root].head = first]
    /\ frames' = <<Saved(context)>>
    /\ at' = "enter"
    /\ UNCHANGED <<registry, order, context, memo, declared, root>>

(* Mutant: the transaction stays as the last candidate left it.            *)
Inactive(c)  == log
Activated(c) == c.state

WorkSince(fr, s) == SubSeq(s, Len(fr.log) + 1, Len(s))

(* activate_pattern_candidate and the EnterBody hook of one candidate, in  *)
(* a semantic candidate; only the first accepted one is kept.              *)
EnterHeader ==
    /\ at = "enter" /\ ranked # <<>>
    /\ \E w \in Works, ds \in Declarations, mode \in {"none", "body"} :
        LET c      == Head(ranked)
            after  == Registered([Now EXCEPT !.log = Activated(c) \o w], ds, FALSE)
            first  == R.claims = <<>>
            own    == Append(frames[1].context, <<root, c.cand>>)
        IN
        /\ Becomes(Finished(first /\ after.ok, Saved(context), after))
        /\ roots' = [roots EXCEPT ![root] =
               IF ~after.ok THEN @
               ELSE IF ~first THEN [@ EXCEPT !.claims = Append(R.claims, c.cand)]
               ELSE [@ EXCEPT !.claims = <<c.cand>>, !.first = c.cand, !.mode = mode,
                              !.directive = mode = "none", !.context = own, !.declares = ds,
                              !.head = WorkSince(frames[1], c.state) \o w]]
        /\ Wrote(w) /\ Declared(ds)
    /\ ranked' = Tail(ranked)
    /\ UNCHANGED <<context, frames, memo, at, root>>

RejectHeader ==
    /\ at = "enter" /\ ranked # <<>>
    /\ \E w \in Works :
        /\ Becomes(RolledBack(Saved(context), [Now EXCEPT !.log = Head(ranked).state \o w]))
        /\ Wrote(w)
    /\ ranked' = Tail(ranked)
    /\ UNCHANGED <<context, frames, memo, declared, at, root, roots>>

(* The context of the next root.  Mutant: that of whatever was selected.   *)
Following(r)        == IF r.first # 0 THEN r.context ELSE r.parent
FollowingContext(r) == IF r.directive THEN r.context ELSE r.parent

ToNextRoot ==
    IF root < Roots THEN at' = "match" /\ root' = root + 1
    ELSE at' = "between" /\ root' = 1

FinishHeader ==
    /\ at = "enter" /\ ranked = <<>>
    /\ context' = FollowingContext(R)
    /\ frames' = <<>>
    /\ ToNextRoot
    /\ UNCHANGED <<log, works, registry, order, memo, declared, ranked, roots>>

(* An extension fault, in matching or in a hook, whose work is undone:     *)
(* finish_recovery_scope(false).                                           *)
HeaderFault ==
    /\ at = "enter"
    /\ Becomes(RolledBack(frames[1], Now))
    /\ context' = R.parent
    /\ roots' = [roots EXCEPT ![root] = Unclaimed]
    /\ ranked' = <<>> /\ frames' = <<>>
    /\ ToNextRoot
    /\ UNCHANGED <<works, memo, declared>>

HeadersOnly ==
    /\ at = "between"
    /\ at' = "frozen"
    /\ roots' = [r \in Root |-> [roots[r] EXCEPT !.selected = roots[r].first]]
    /\ UNCHANGED <<log, works, registry, order, context, frames, memo, declared, root, ranked>>

-----------------------------------------------------------------------------
(* The second pass.                                                        *)
StartBodies ==
    /\ at = "between"
    /\ at' = "bodies"
    /\ UNCHANGED <<log, works, registry, order, context, frames, memo, declared, root, ranked,
                   roots>>

(* No key of another root's text is among those of the next.               *)
NextBody == /\ memo' = {}
            /\ IF root < Roots THEN at' = "bodies" /\ root' = root + 1
               ELSE at' = "frozen" /\ root' = root

(* Of a root without a claim; freeze follows the last root.                *)
SkipBody ==
    /\ at = "bodies" /\ R.claims = <<>>
    /\ NextBody
    /\ UNCHANGED <<log, works, registry, order, context, frames, declared, ranked, roots>>

(* The selected candidate goes on from its header.                         *)
BeginBody ==
    /\ at = "bodies" /\ R.claims # <<>> /\ Head(R.claims) = R.first
    /\ frames' = <<Saved(context)>>
    /\ context' = R.context
    /\ at' = "inside"
    /\ UNCHANGED <<log, works, registry, order, memo, declared, root, ranked, roots>>

(* An alternative is entered again, in the context of its root.  Mutant:   *)
(* in the context of the document.                                         *)
DocumentContext    == context
AlternativeContext == R.parent

Dropped(r) == [r EXCEPT !.claims = Tail(@), !.body = <<>>, !.declares = <<>>, !.calls = {},
                        !.rejected = TRUE]

EnterAlternative ==
    /\ at = "bodies" /\ R.claims # <<>> /\ Head(R.claims) # R.first
    /\ \E w \in Works, ds \in Declarations, mode \in {"none", "body"} :
        LET after == Registered([Now EXCEPT !.log = @ \o w], ds, TRUE) IN
        /\ Wrote(w) /\ Declared(ds)
        /\ \/ /\ after.ok
              /\ frames' = <<Saved(context)>>
              /\ Becomes(after)
              /\ context' = Append(AlternativeContext, <<root, Head(R.claims)>>)
              /\ roots' = [roots EXCEPT ![root] =
                     [@ EXCEPT !.mode = mode, !.body = w, !.declares = ds]]
              /\ at' = "inside"
           \/ LET undone == RolledBack(Saved(context), after) IN
              /\ Becomes([undone EXCEPT !.registry = Discarded(@)])
              /\ roots' = [roots EXCEPT ![root] = Dropped(@)]
              /\ UNCHANGED <<context, frames, at>>
    /\ UNCHANGED <<memo, root, ranked>>

(* Inside a body: its hooks write, its expressions look functions up.      *)
WriteInBody ==
    /\ at = "inside" /\ R.mode = "body"
    /\ \E w \in Works \ {<<>>} :
        /\ log' = log \o w /\ Wrote(w)
        /\ roots' = [roots EXCEPT ![root].body = @ \o w]
    /\ UNCHANGED <<registry, order, context, frames, memo, declared, at, root, ranked>>

(* parse_prefixes looks in the memo first: its key has the text, the       *)
(* context and the revision of the overlay, not that of the registry, and  *)
(* a rejected candidate leaves it as it is.  A call is looked up if its    *)
(* text, its overlay or its context was not met before, else it is what    *)
(* was found then; stale is a history, that the two differ.                *)
Memoized(name) == {m.found : m \in {n \in memo : n.name = name /\ n.log = log}}

CallInBody ==
    /\ at = "inside" /\ R.mode = "body"
    /\ \E name \in Names : \E found \in {Lookup(registry, name)} \cup Memoized(name) :
        /\ memo' = memo \cup {[name |-> name, log |-> log, found |-> found]}
        /\ roots' = [roots EXCEPT ![root].calls = @ \cup
               {[name |-> name, found |-> found, stale |-> found # Lookup(registry, name)]}]
    /\ UNCHANGED <<log, works, registry, order, context, frames, declared, at, root, ranked>>

(* The exit hook accepts: the candidate is selected.                       *)
AcceptBody ==
    /\ at = "inside"
    /\ \E w \in Works :
        /\ log' = log \o w /\ Wrote(w)
        /\ roots' = [roots EXCEPT ![root].body = @ \o w, ![root].selected = Head(R.claims)]
    /\ context' = frames[1].context
    /\ frames' = <<>>
    /\ NextBody
    /\ UNCHANGED <<registry, order, declared, ranked>>

Undone == LET s == RolledBack(frames[1], Now) IN [s EXCEPT !.registry = Discarded(@)]

(* Entries that do not validate, or an exit hook that rejects.             *)
RejectBody ==
    /\ at = "inside"
    /\ Becomes(Undone)
    /\ context' = frames[1].context
    /\ frames' = <<>>
    /\ roots' = [roots EXCEPT ![root] = Dropped(@)]
    /\ at' = "bodies"
    /\ UNCHANGED <<works, memo, declared, root, ranked>>

(* An extension fault in a body, or in entering an alternative, whose work *)
(* is undone: no alternative is tried.                                     *)
BodyFault ==
    /\ at = "inside"
    /\ Becomes(Undone)
    /\ context' = frames[1].context
    /\ frames' = <<>>
    /\ roots' = [roots EXCEPT ![root] = [Dropped(@) EXCEPT !.claims = <<>>]]
    /\ NextBody
    /\ UNCHANGED <<works, declared, ranked>>

(* Cancellation, or an error that is not a fault of an extension: the host *)
(* rolls the transaction back and drops the registry.                      *)
Fail ==
    /\ at \notin {"frozen", "error"}
    /\ at' = "error"
    /\ log' = <<>> /\ registry' = <<>> /\ frames' = <<>> /\ memo' = {}
    /\ UNCHANGED <<works, order, context, declared, root, ranked, roots>>

Next ==
    \/ MatchHeader \/ EnterHeader \/ RejectHeader \/ FinishHeader \/ HeaderFault
    \/ HeadersOnly \/ StartBodies \/ SkipBody \/ BeginBody \/ EnterAlternative
    \/ WriteInBody \/ CallInBody \/ AcceptBody \/ RejectBody \/ BodyFault
    \/ Fail

Spec == Init /\ [][Next]_vars

-----------------------------------------------------------------------------
(* The registry: signatures are declared once, registrations are in the    *)
(* order of their numbers, which name their definitions and are below the  *)
(* next; a savepoint never lies beyond the registrations.                  *)
TypeOK ==
    /\ at \in {"match", "enter", "between", "bodies", "inside", "frozen", "error"}
    /\ root \in Root /\ works \in 0 .. MaxWork /\ declared \in 0 .. MaxDeclared
    /\ \A i, j \in DOMAIN registry : i < j =>
          /\ registry[i].order < registry[j].order
          /\ <<registry[i].name, registry[i].scope>> # <<registry[j].name, registry[j].scope>>
    /\ \A i \in DOMAIN registry : registry[i].order < order
    /\ \A i \in DOMAIN frames : frames[i].registry <= Len(registry)

(* Between the candidates of two roots the transaction holds the work of   *)
(* the headers that were selected, then that of the bodies that were       *)
(* accepted, and no other: whatever order candidates were resumed,         *)
(* rejected and rolled back in.  A header keeps its work when its body is  *)
(* rejected, and a header that nothing claims that of its first match.     *)
KeptWork ==
    /\ at \in {"match", "between", "bodies", "frozen"} =>
          log = FlattenSeq([r \in Root |-> roots[r].head])
                \o FlattenSeq([r \in Root |-> roots[r].body])
    /\ at = "error" => log = <<>>

(* A header is entered, and a body is parsed, in the context of the        *)
(* directives before its root, never that of a root with a body, of an     *)
(* alternative, or of a directive that follows, although all headers have  *)
(* been entered by then; a body adds its own header's.                     *)
DirectivesBefore(r) ==
    FlattenSeq([q \in 1 .. r - 1 |->
                    IF roots[q].directive THEN <<<<q, roots[q].first>>>> ELSE <<>>])
DirectivesScoped ==
    /\ at = "match" => context = DirectivesBefore(root)
    /\ at = "inside" => context = Append(DirectivesBefore(root), <<root, Head(R.claims)>>)

(* The frozen registry has the declarations of the Structures that were    *)
(* selected, all of them and no other: a rejected header, a refused        *)
(* overload, a rejected body or a fault leaves none behind, if the span of *)
(* a declaration is that of its header.  Nothing checks that it is, and    *)
(* exactly these are left out: a header whose body is rejected leaves what *)
(* it declared with another span, and a declaration with the span of       *)
(* another header goes when a body of that one is rejected.                *)
SnapshotOfSelected ==
    at = "frozen" =>
        /\ \A r \in Root : \A d \in Range(roots[r].declares) :
              \/ \E e \in Range(registry) :
                    e.root = r /\ e.name = d.name /\ e.scope = d.scope /\ e.span = d.span
              \/ d.span \in Root \ {r} /\ roots[d.span].rejected
        /\ \A e \in Range(registry) :
              \/ /\ roots[e.root].selected # 0
                 /\ \E d \in Range(roots[e.root].declares) :
                       d.name = e.name /\ d.scope = e.scope /\ d.span = e.span
              \/ e.span # e.root /\ roots[e.root].rejected /\ ~e.late

(* A call in a body that was accepted, before or after the Function in the *)
(* document or inside it, found the declaration the frozen registry gives  *)
(* for the name.  lookup_functions says that every Function header is      *)
(* registered before any body is parsed; exactly these are left out.  What *)
(* was found may be discarded, before the call if it was memoized in a     *)
(* body that was rejected.  A declaration of the name may be late: of an   *)
(* alternative header of a root that follows, or of the root itself if the *)
(* call was memoized before.                                               *)
ForwardReferences ==
    at = "frozen" =>
        \A r \in Root : \A call \in roots[r].calls :
            \/ call.found = Lookup(registry, call.name)
            \/ ~(call.found \subseteq Range(registry))
            \/ \E e \in Range(registry) :
                  /\ e.name = call.name /\ e.late
                  /\ e.root > r \/ (e.root = r /\ call.stale)

=============================================================================
