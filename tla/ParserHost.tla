----------------------------- MODULE ParserHost -----------------------------
(***************************************************************************)
(* The parser host, parser-wasm/src/host.rs: how it runs the hooks of its  *)
(* components inside parse transactions, and keeps two stores together,    *)
(* the StateStore overlay of the transaction and the dynamic syntax layer  *)
(* of its document revision.                                               *)
(*                                                                         *)
(* A host operation has the host to itself (&mut self): what interleaves   *)
(* with its component calls is only what owners of other transactions do.  *)
(*                                                                         *)
(* Abstractions: the work of an accepted call is its number; the overlay   *)
(* of a transaction is the set of works it keeps (StateStore says what is  *)
(* in them), a layer the set of items registered by calls (DynamicRegistry *)
(* says how).  A commit may be refused for a conflict or fail.  A snapshot *)
(* cannot be built while the layer has an unsound item, one whose          *)
(* references do not resolve.  Every component subscribes to every phase,  *)
(* in the order of their numbers; that a selector does not match the       *)
(* payload is a choice.  The host has a catalog, so a dynamic registry.    *)
(***************************************************************************)
EXTENDS Integers, FiniteSets, FiniteSetsExt

CONSTANTS
    Component,    \* components, integers: the order of their subscriptions
    Core,         \* the CoreLibrary
    Doc,          \* document ids
    Txn,          \* transaction handles
    MaxRevision,  \* bound: revisions of a document
    MaxWork,      \* bound: accepted calls
    MaxRounds     \* max_parser_rounds

ASSUME HostAssumption ==
    /\ Component \subseteq Nat \ {0} /\ Core \in Component
    /\ Doc # {} /\ {MaxRevision, MaxWork, MaxRounds} \subseteq Nat

VARIABLES
    component,  \* "absent", "ready", "disabled" or "unloaded"
    initial,    \* the items components registered at their initialization
    latest,     \* latest revision of every document, in both stores
    layer,      \* the dynamic layer of every document
    txn,        \* the transactions
    published,  \* the works committed to the StateStore
    run,        \* the host operation in progress
    works,      \* number of works so far
    failed,     \* history: the works of operations that failed
    withdrawn   \* history: those among them that no open layer may keep

vars == <<component, initial, latest, layer, txn, published, run, works, failed, withdrawn>>

Item  == [by : Component, work : 0..MaxWork, sound : BOOLEAN]
Layer == [revision : 0..MaxRevision, items : SUBSET Item, frozen : BOOLEAN]

(* A savepoint is a set of at most one element.                            *)
The(savepoint) == CHOOSE x \in savepoint : TRUE

(* A host operation.  base and saved are the savepoints of the StateStore  *)
(* and of the layer it began from, cont the one of a continuation; did is  *)
(* a history, the works it accepted.                                       *)
NoRun == [kind |-> "none", txn |-> {}, owned |-> FALSE, next |-> 0, rounds |-> 0,
          base |-> {}, saved |-> {}, cont |-> {}, result |-> "running",
          fault |-> FALSE, did |-> {}]

Running  == run.kind # "none"
Self     == The(run.txn)
Here     == txn[Self].doc
Kept     == txn[Self].kept
(* Document and Preprocess hooks, and Text macros, may change the layer.   *)
Prepass  == run.saved # {}

Buildable(lay) == lay.frozen \/ \A i \in lay.items : i.sound

Closed == [status |-> "idle", doc |-> The(Doc), revision |-> 0, kept |-> {}]

Init ==
    /\ component = [c \in Component |-> IF c = Core THEN "ready" ELSE "absent"]
    /\ initial = {}
    /\ latest = [d \in Doc |-> 0]
    /\ layer = [d \in Doc |-> [revision |-> 0, items |-> {}, frozen |-> FALSE]]
    /\ txn = [t \in Txn |-> Closed]
    /\ published = {}
    /\ run = NoRun
    /\ works = 0
    /\ failed = {}
    /\ withdrawn = {}

-----------------------------------------------------------------------------
(* Components.                                                             *)

(* load_component: a component that fails to initialize or register leaves *)
(* nothing behind; one that was unloaded keeps its id.                     *)
Load(c, items) ==
    /\ ~Running
    /\ component[c] = "absent"
    /\ items \subseteq [by : {c}, work : {0}, sound : BOOLEAN] /\ Cardinality(items) <= 1
    /\ component' = [component EXCEPT ![c] = "ready"]
    /\ initial' = initial \cup items
    /\ UNCHANGED <<latest, layer, txn, published, run, works, failed, withdrawn>>

(* Mutant: unloading forgets the layers.                                   *)
OnlyInitial(items, c) == items
Without(items, c) == {i \in items : i.by # c}
Callable == {"ready", "disabled"}

(* unload_addon, and remove_component of the registry                      *)
Unload(c) ==
    /\ ~Running
    /\ c # Core /\ component[c] \in Callable
    /\ component' = [component EXCEPT ![c] = "unloaded"]
    /\ initial' = {i \in initial : i.by # c}
    /\ layer' = [d \in Doc |-> IF layer[d].frozen THEN layer[d]
                               ELSE [layer[d] EXCEPT !.items = Without(@, c)]]
    /\ UNCHANGED <<latest, txn, published, run, works, failed, withdrawn>>

-----------------------------------------------------------------------------
(* Transactions.                                                           *)

(* begin_parse, on both stores                                             *)
Begun(d, r) ==
    IF r > layer[d].revision
    THEN [revision |-> r, items |-> initial, frozen |-> FALSE]
    ELSE layer[d]

(* The StateStore takes an older revision, the registry refuses it and the *)
(* transaction is cancelled.  Mutant: it may begin.                        *)
AnyRevision(r, d) == TRUE
NotStale(r, d) == r >= latest[d]

NewTxn(t, d, r) ==
    /\ ~Running
    /\ txn[t].status = "idle"
    /\ NotStale(r, d)
    /\ latest' = [latest EXCEPT ![d] = r]

Open(d, r) == [status |-> "open", doc |-> d, revision |-> r, kept |-> {}]

BeginParse(t, d, r) ==
    /\ NewTxn(t, d, r)
    /\ layer' = [layer EXCEPT ![d] = Begun(d, r)]
    /\ txn' = [txn EXCEPT ![t] = Open(d, r)]
    /\ UNCHANGED <<component, initial, published, run, works, failed, withdrawn>>

(* The owner of a transaction ends it; the layer is left as it is.         *)
CommitParse(t) ==
    /\ txn[t].status = "open" /\ {t} # run.txn
    /\ latest[txn[t].doc] = txn[t].revision
    /\ txn' = [txn EXCEPT ![t].status = "committed"]
    /\ published' = published \cup txn[t].kept
    /\ UNCHANGED <<component, initial, latest, layer, run, works, failed, withdrawn>>

CancelParse(t) ==
    /\ txn[t].status = "open" /\ {t} # run.txn
    /\ txn' = [txn EXCEPT ![t].status = "cancelled", ![t].kept = {}]
    /\ UNCHANGED <<component, initial, latest, layer, published, run, works, failed, withdrawn>>

-----------------------------------------------------------------------------
(* dispatch_in_parse and expand_text_in_parse begin: with savepoints, or,  *)
(* in later phases, with a frozen layer.                                   *)
Kinds == {"prepass", "later", "text"}

Enter(kind, t, owned, lay, kept) ==
    [NoRun EXCEPT !.kind = kind, !.txn = {t}, !.owned = owned, !.base = {kept},
                  !.saved = IF kind = "later" THEN {} ELSE {lay.items}]

MayEnter(kind, lay) == IF kind = "later" THEN Buildable(lay) ELSE ~lay.frozen
Entered(kind, lay)  == [lay EXCEPT !.frozen = @ \/ kind = "later"]

(* In a transaction of the caller, who may have begun a newer revision of  *)
(* the document since: the registry then refuses, and nothing happens.     *)
DispatchInParse(t, kind) ==
    LET lay == layer[txn[t].doc] IN
    /\ ~Running
    /\ txn[t].status = "open" /\ latest[txn[t].doc] = txn[t].revision
    /\ MayEnter(kind, lay)
    /\ run' = Enter(kind, t, FALSE, lay, txn[t].kept)
    /\ layer' = [layer EXCEPT ![txn[t].doc] = Entered(kind, lay)]
    /\ UNCHANGED <<component, initial, latest, txn, published, works, failed, withdrawn>>

(* dispatch and expand_text, in a transaction of their own                 *)
Dispatch(t, kind, d, r) ==
    LET lay == Begun(d, r) IN
    /\ NewTxn(t, d, r)
    /\ IF MayEnter(kind, lay)
       THEN /\ run' = Enter(kind, t, TRUE, lay, {})
            /\ layer' = [layer EXCEPT ![d] = Entered(kind, lay)]
            /\ txn' = [txn EXCEPT ![t] = Open(d, r)]
       ELSE /\ layer' = [layer EXCEPT ![d] = lay]
            /\ txn' = [txn EXCEPT ![t] = [Open(d, r) EXCEPT !.status = "cancelled"]]
            /\ UNCHANGED run
    /\ UNCHANGED <<component, initial, published, works, failed, withdrawn>>

-----------------------------------------------------------------------------
(* dispatch_with_transaction and expand_text_with_transaction: the loop    *)
(* over the components, one call at a time.                                *)

Candidates == {c \in Component : c >= run.next /\ component[c] \in Callable}
Calling == Running /\ run.result = "running" /\ Candidates # {}
Callee  == Min(Candidates)
(* A call needs an update of the layer, which a frozen one refuses.        *)
Served  == Calling /\ component[Callee] = "ready" /\ (Prepass => ~layer[Here].frozen)

(* What the nested parses of this component did is undone.                 *)
Undone  == IF run.cont = {} THEN Kept ELSE The(run.cont)
Keep(kept) == txn' = [txn EXCEPT ![Self].kept = kept]
Passed(r)  == [r EXCEPT !.next = Callee + 1, !.cont = {}, !.rounds = 0]

(* The selector does not match the payload: the component is not reached,  *)
(* whatever its state.                                                     *)
NoMatch ==
    /\ Calling /\ run.kind # "text" /\ run.cont = {}
    /\ run' = Passed(run)
    /\ UNCHANGED <<component, initial, latest, layer, txn, published, works, failed, withdrawn>>

(* A disabled component is a fault of the operation.                       *)
Unavailable ==
    /\ Calling /\ component[Callee] = "disabled"
    /\ run' = [run EXCEPT !.result = "fault"]
    /\ UNCHANGED <<component, initial, latest, layer, txn, published, works, failed, withdrawn>>

NotApplicable ==
    /\ Served
    /\ Keep(Undone)
    /\ run' = Passed(run)
    /\ UNCHANGED <<component, initial, latest, layer, published, works, failed, withdrawn>>

(* The component reports an error, its output is invalid, or it traps:     *)
(* then it is disabled.                                                    *)
CallFails(traps) ==
    /\ Served
    /\ Keep(Undone)
    /\ run' = [run EXCEPT !.result = "fault"]
    /\ component' = [component EXCEPT ![Callee] = IF traps THEN "disabled" ELSE @]
    /\ UNCHANGED <<initial, latest, layer, published, works, failed, withdrawn>>

(* apply_hook_output refuses the output: the loop goes on.                 *)
OutputRefused ==
    /\ Served /\ run.kind # "text"
    /\ Keep(Undone)
    /\ run' = Passed([run EXCEPT !.fault = TRUE])
    /\ UNCHANGED <<component, initial, latest, layer, published, works, failed, withdrawn>>

Rejects ==
    /\ Served
    /\ Keep(Undone)
    /\ run' = [run EXCEPT !.result = "reject"]
    /\ UNCHANGED <<component, initial, latest, layer, published, works, failed, withdrawn>>

(* The invocation is merged and the update committed; a terminal decision  *)
(* ends the loop.  If the update cannot be committed the operation fails.  *)
Accepts(item, terminal, refused) ==
    LET w == works + 1 IN
    /\ Served /\ works < MaxWork
    /\ item \subseteq [by : {Callee}, work : {w}, sound : BOOLEAN]
    /\ Cardinality(item) <= 1 /\ (item # {} \/ refused => Prepass)
    /\ works' = w
    /\ Keep(Kept \cup {w})
    /\ layer' = IF refused THEN layer ELSE [layer EXCEPT ![Here].items = @ \cup item]
    /\ run' = [(IF refused THEN [run EXCEPT !.result = "error"]
                ELSE IF terminal THEN [run EXCEPT !.result = "done"]
                ELSE Passed(run)) EXCEPT !.did = @ \cup {w}]
    /\ UNCHANGED <<component, initial, latest, published, failed, withdrawn>>

(* A quota, a failed merge, a frozen layer, or a cancellation, in which    *)
(* case the nested parses are undone here already.                         *)
Errs(cancelled) ==
    /\ Calling /\ component[Callee] = "ready"
    /\ cancelled => run.kind # "text"
    /\ Keep(IF cancelled THEN (IF run.cont = {} THEN The(run.base) ELSE The(run.cont)) ELSE Kept)
    /\ run' = [run EXCEPT !.result = "error"]
    /\ UNCHANGED <<component, initial, latest, layer, published, works, failed, withdrawn>>

(* execute_parse_requests: the call is discarded, nested parses may accept *)
(* calls in the same transaction, and a native one freezes the layer; then *)
(* the component is called again.  A fault in a nested parse undoes them   *)
(* and fails the operation, disabling the components that trapped.         *)
Requests(accepted, native, fails, traps) ==
    LET w == works + 1
        savepoint == IF run.cont = {} THEN {Kept} ELSE run.cont
        unsound == native /\ ~Buildable(layer[Here])
        parsed == [run EXCEPT !.cont = savepoint, !.rounds = @ + 1,
                              !.did = IF accepted THEN @ \cup {w} ELSE @]
    IN
    /\ Served /\ run.kind # "text"
    /\ run.rounds < MaxRounds - 1
    /\ accepted => works < MaxWork /\ ~unsound
    /\ traps # {} => fails /\ \A c \in traps : component[c] = "ready"
    /\ works' = IF accepted THEN w ELSE works
    /\ IF fails \/ unsound
       THEN /\ run' = [parsed EXCEPT !.result = "error"]
            /\ Keep(The(savepoint))
       ELSE /\ run' = parsed
            /\ Keep(IF accepted THEN Kept \cup {w} ELSE Kept)
    /\ component' = [c \in Component |-> IF c \in traps THEN "disabled" ELSE component[c]]
    /\ layer' = [layer EXCEPT ![Here].frozen = @ \/ (native /\ ~unsound)]
    /\ UNCHANGED <<initial, latest, published, failed, withdrawn>>

Calls ==
    \/ NoMatch \/ Unavailable \/ NotApplicable \/ OutputRefused \/ Rejects
    \/ \E traps \in BOOLEAN : CallFails(traps)
    \/ \E sound, terminal, refused, registers \in BOOLEAN :
          Accepts(IF registers
                  THEN {[by |-> Callee, work |-> works + 1, sound |-> sound]}
                  ELSE {}, terminal, refused)
    \/ \E cancelled \in BOOLEAN : Errs(cancelled)
    \/ \E accepted, native, fails \in BOOLEAN, traps \in SUBSET Component :
          Cardinality(traps) <= 1 /\ Requests(accepted, native, fails, traps)

-----------------------------------------------------------------------------
(* The loop is over, and the operation returns.                            *)
Over    == Running /\ (run.result # "running" \/ Candidates = {})
Outcome == IF run.result \in {"running", "done"}
           THEN IF run.fault THEN "fault" ELSE "ok"
           ELSE run.result

(* Mutant: a fault undoes only what the last component did.                *)
LastOnly == IF Outcome \in {"ok", "fault"} THEN Kept ELSE The(run.base)
(* rollback_to of the transaction, after anything but success              *)
Remains == IF Outcome = "ok" THEN Kept ELSE The(run.base)

(* rollback_to of the registry, which refuses a frozen layer               *)
Restored ==
    IF Outcome # "ok" /\ Prepass /\ ~layer[Here].frozen
    THEN [layer[Here] EXCEPT !.items = The(run.saved)]
    ELSE layer[Here]

(* In a transaction of the caller.                                         *)
ReturnInParse ==
    /\ Over /\ ~run.owned
    /\ Keep(Remains)
    /\ layer' = [layer EXCEPT ![Here] = Restored]
    /\ failed' = IF Outcome = "ok" THEN failed ELSE failed \cup run.did
    /\ withdrawn' = IF Outcome = "ok" THEN withdrawn ELSE withdrawn \cup run.did
    /\ run' = NoRun
    /\ UNCHANGED <<component, initial, latest, published, works>>

(* In its own: a success, and a text macro that failed, whose work is      *)
(* undone by now, freeze the layer and commit; everything else, and a      *)
(* snapshot or a commit that fails, ends the transaction without a trace   *)
(* in the StateStore.  When a success comes to nothing that way, the host  *)
(* does not roll the layer back: accepted registrations stay in it, and    *)
(* when there was no snapshot it is still open (host.rs:9695-9701).        *)
Goes == Outcome = "ok" \/ (run.kind = "text" /\ Outcome = "fault")

Return(commits) ==
    LET ends == Goes /\ Buildable(Restored) IN
    /\ Over /\ run.owned
    /\ commits => ends
    /\ layer' = [layer EXCEPT ![Here] = [Restored EXCEPT !.frozen = @ \/ ends]]
    /\ txn' = [txn EXCEPT ![Self].status = IF commits THEN "committed" ELSE "cancelled",
                          ![Self].kept = IF commits THEN Remains ELSE {}]
    /\ published' = IF commits THEN published \cup Remains ELSE published
    /\ failed' = IF Outcome = "ok" /\ commits THEN failed ELSE failed \cup run.did
    /\ withdrawn' = IF Outcome = "ok" /\ (commits \/ ~ends)
                    THEN withdrawn ELSE withdrawn \cup run.did
    /\ run' = NoRun
    /\ UNCHANGED <<component, initial, latest, works>>

Components ==
    \/ \E c \in Component, s \in BOOLEAN :
          Load(c, {}) \/ Load(c, {[by |-> c, work |-> 0, sound |-> s]})
    \/ \E c \in Component : Unload(c)

Owners ==
    \/ \E t \in Txn, d \in Doc, r \in 1..MaxRevision : BeginParse(t, d, r)
    \/ \E t \in Txn : CommitParse(t) \/ CancelParse(t)

Next ==
    \/ Components
    \/ Owners
    \/ \E t \in Txn, kind \in Kinds :
          \/ DispatchInParse(t, kind)
          \/ \E d \in Doc, r \in 1..MaxRevision : Dispatch(t, kind, d, r)
    \/ Calls
    \/ ReturnInParse
    \/ \E commits \in BOOLEAN : Return(commits)

Spec == Init /\ [][Next]_vars

-----------------------------------------------------------------------------
(* Every variable has its type, and the two stores are at one revision of  *)
(* every document (begin_parse, host.rs:8765).                             *)
TypeOK ==
    /\ component \in [Component -> {"absent", "ready", "disabled", "unloaded"}]
    /\ initial \subseteq [by : Component, work : {0}, sound : BOOLEAN]
    /\ latest \in [Doc -> 0..MaxRevision]
    /\ layer \in [Doc -> Layer]
    /\ \A d \in Doc : layer[d].revision = latest[d]
    /\ txn \in [Txn -> [status : {"idle", "open", "committed", "cancelled"}, doc : Doc,
                        revision : 0..MaxRevision, kept : SUBSET (1..MaxWork)]]
    /\ works \in 0..MaxWork
    /\ published \cup failed \subseteq 1..works /\ withdrawn \subseteq failed
    /\ run.did \cup UNION run.base \subseteq 1..works

(* A dispatch or an expansion that faults, rejects or errs, also when its  *)
(* snapshot cannot be built or its commit is refused, leaves none of its   *)
(* work in a transaction or in the store, however many calls it accepted   *)
(* and nested parses it ran (dispatch, host.rs:9680; dispatch_in_parse).   *)
(* Nor in a layer that can still change, with one exception: when every    *)
(* call was accepted and the snapshot could not be built, the              *)
(* registrations stay (host.rs:9695), against parser-wasm/README.md:886.   *)
FailureUndone ==
    ~Running =>
        /\ failed \cap (published \cup UNION {txn[t].kept : t \in Txn}) = {}
        /\ \A d \in Doc : ~layer[d].frozen => \A i \in layer[d].items : i.work \notin withdrawn

(* Once a component is unloaded its items are in no layer that can still   *)
(* be frozen, whatever transactions were open, and none come back          *)
(* (unload_addon, host.rs:9658).                                           *)
NoGhosts ==
    \A c \in Component : component[c] = "unloaded" =>
        /\ \A i \in initial : i.by # c
        /\ \A d \in Doc : ~layer[d].frozen => \A i \in layer[d].items : i.by # c
=============================================================================
