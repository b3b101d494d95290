-------------------------- MODULE DocumentPipeline --------------------------
(***************************************************************************)
(* parse_document, parser-wasm/src/host/document.rs: one document revision *)
(* through its stages, Text macros, Tree macros, Syntax and AST macros, in *)
(* a transaction that commits at the end or leaves nothing, beside the     *)
(* other operations of the host.  The Text stage is expand_text_in_parse   *)
(* of ParserHost; the other stages are walks over nodes.  Every node (or   *)
(* candidate of the parser) has a savepoint; nodes that a call generates   *)
(* have their own, and the walk never returns to that of their parent.     *)
(*                                                                         *)
(* Abstractions: which nodes there are is left to MacroExpansion, a walk   *)
(* may end at any time.                                                    *)
(***************************************************************************)
EXTENDS ParserHost

VARIABLES
    job,    \* the parse_document in progress
    token   \* its cancellation token

docVars == <<vars, job, token>>

Stages == {"text", "tree", "syntax", "ast", "commit"}
After  == [text |-> "tree", tree |-> "syntax", syntax |-> "ast", ast |-> "commit"]

(* inside: the stage has begun; saved: the savepoint of the layer; base,   *)
(* node: the savepoints of the stage and of the node; did: history, the    *)
(* works accepted; dead: history, a cancellation was requested before the  *)
(* last check.                                                             *)
NoJob == [stage |-> "none", inside |-> FALSE, txn |-> {}, saved |-> {}, global |-> FALSE,
          base |-> {}, node |-> {}, did |-> {}, dead |-> FALSE]

Idle       == job.stage = "none"
Mine       == The(job.txn)
MyDoc      == txn[Mine].doc
MyKept     == txn[Mine].kept
At(stage)  == job.stage = stage /\ ~job.inside
Within(st) == job.stage = st /\ job.inside
NowKeep(kept) == txn' = [txn EXCEPT ![Mine].kept = kept]

DocInit == Init /\ job = NoJob /\ token = FALSE

(* The caller may cancel at any time.                                      *)
RequestCancel ==
    /\ ~Idle /\ ~token
    /\ token' = TRUE
    /\ job' = [job EXCEPT !.dead = ~Within("commit")]
    /\ UNCHANGED vars

(* begin_parse and the savepoint of the layer, which must not be frozen.   *)
StartDocument(t, d, r) ==
    LET lay == Begun(d, r) IN
    /\ Idle /\ NewTxn(t, d, r)
    /\ layer' = [layer EXCEPT ![d] = lay]
    /\ IF lay.frozen
       THEN /\ txn' = [txn EXCEPT ![t] = [Open(d, r) EXCEPT !.status = "cancelled"]]
            /\ UNCHANGED job
       ELSE /\ txn' = [txn EXCEPT ![t] = Open(d, r)]
            /\ job' = [NoJob EXCEPT !.stage = "text", !.txn = {t}, !.saved = lay.items]
    /\ UNCHANGED <<component, initial, published, run, works, failed, withdrawn, token>>

(* check_cancelled, before and after every stage                           *)
Cancelled ==
    /\ job.stage \in Stages /\ ~job.inside /\ token
    /\ job' = [job EXCEPT !.stage = "abort"]
    /\ UNCHANGED <<vars, token>>

(* Text macros.  A failure is a fault of the whole document: only the      *)
(* syntax stage follows, over invalid nodes, and nothing is kept.          *)
EnterText ==
    /\ At("text") /\ ~token
    /\ run' = Enter("text", Mine, FALSE, layer[MyDoc], MyKept)
    /\ job' = [job EXCEPT !.inside = TRUE]
    /\ UNCHANGED <<component, initial, latest, layer, txn, published, works,
                  failed, withdrawn, token>>

TextReturns ==
    /\ Within("text")
    /\ ReturnInParse
    /\ job' = [job EXCEPT !.stage = IF Outcome = "error" THEN "abort" ELSE "tree",
                          !.inside = FALSE, !.global = Outcome = "fault",
                          !.did = @ \cup run.did]
    /\ UNCHANGED token

-----------------------------------------------------------------------------
(* The Tree, Syntax and AST stages.                                        *)

(* Mutant: the layer stays open during the syntax stage.                   *)
OpenLayer   == layer[MyDoc]
(* parse_structures_in_parse begins with dynamic_syntax_snapshot.          *)
SyntaxLayer == [layer[MyDoc] EXCEPT !.frozen = TRUE]

EnterStage(stage) ==
    /\ At(stage) /\ ~token
    /\ job' = IF job.global /\ stage # "syntax"
              THEN [job EXCEPT !.stage = After[stage]]
              ELSE IF stage = "syntax" /\ ~Buildable(layer[MyDoc])
              THEN [job EXCEPT !.stage = "abort"]
              ELSE [job EXCEPT !.inside = TRUE, !.base = MyKept, !.node = MyKept]
    /\ layer' = IF stage = "syntax" /\ Buildable(layer[MyDoc])
                THEN [layer EXCEPT ![MyDoc] = SyntaxLayer] ELSE layer
    /\ UNCHANGED <<component, initial, latest, txn, published, run, works,
                  failed, withdrawn, token>>

Walking(stage) == Within(stage) /\ ~job.global

(* A call is accepted.  Replacing the node ends its frame; after any other *)
(* answer the next macro sees the same node.                               *)
CallAccepted(stage, replaces) ==
    LET w == works + 1 IN
    /\ Walking(stage) /\ works < MaxWork
    /\ \E c \in Component : component[c] = "ready"
    /\ stage = "syntax" => ~token
    /\ replaces => stage # "syntax"
    /\ works' = w
    /\ NowKeep(MyKept \cup {w})
    /\ job' = [job EXCEPT !.did = @ \cup {w},
                          !.node = IF replaces THEN MyKept \cup {w} ELSE @]
    /\ UNCHANGED <<component, initial, latest, layer, published, run, failed, withdrawn, token>>

(* A call fails, or its component is disabled: the state is as it was when *)
(* the walk came to the node; the tree is left as it is.  In the Syntax    *)
(* stage a candidate or a statement is given up.                           *)
NodeFails(stage, traps) ==
    /\ Walking(stage)
    /\ \A c \in traps : component[c] = "ready"
    /\ NowKeep(job.node)
    /\ component' = [c \in Component |-> IF c \in traps THEN "disabled" ELSE component[c]]
    /\ UNCHANGED <<initial, latest, layer, published, run, works,
                  failed, withdrawn, job, token>>

NextNode(stage) ==
    /\ Walking(stage) /\ job.node # MyKept
    /\ job' = [job EXCEPT !.node = MyKept]
    /\ UNCHANGED <<vars, token>>

(* A macro rejects: its stage is undone, and the document goes on.         *)
StageRejects(stage) ==
    /\ Walking(stage) /\ stage # "syntax"
    /\ NowKeep(job.base)
    /\ job' = [job EXCEPT !.stage = After[stage], !.inside = FALSE]
    /\ UNCHANGED <<component, initial, latest, layer, published, run, works,
                  failed, withdrawn, token>>

(* A quota, an internal error or, in the Syntax stage, a cancellation      *)
StageErrs(stage) ==
    /\ Within(stage)
    /\ NowKeep(job.base)
    /\ job' = [job EXCEPT !.stage = "abort", !.inside = FALSE]
    /\ UNCHANGED <<component, initial, latest, layer, published, run, works,
                  failed, withdrawn, token>>

StageEnds(stage) ==
    /\ Within(stage)
    /\ job' = [job EXCEPT !.stage = After[stage], !.inside = FALSE]
    /\ UNCHANGED <<vars, token>>

-----------------------------------------------------------------------------
(* Mutant: the last look at the token is missing.                          *)
Unchecked  == TRUE
LastCheck  == ~token

(* A global fault keeps no state; then the token is looked at once more.   *)
EnterCommit ==
    /\ At("commit") /\ LastCheck
    /\ NowKeep(IF job.global THEN {} ELSE MyKept)
    /\ job' = [job EXCEPT !.inside = TRUE]
    /\ UNCHANGED <<component, initial, latest, layer, published, run, works,
                  failed, withdrawn, token>>

CommitDocument(commits) ==
    /\ Within("commit")
    /\ IF commits
       THEN /\ txn' = [txn EXCEPT ![Mine].status = "committed"]
            /\ published' = published \cup MyKept
            /\ job' = NoJob /\ token' = FALSE
       ELSE /\ job' = [job EXCEPT !.stage = "abort"]
            /\ UNCHANGED <<txn, published, token>>
    /\ UNCHANGED <<component, initial, latest, layer, run, works, failed, withdrawn>>

(* Mutant: the layer is rolled back like that of a dispatch.               *)
RolledBack == IF layer[MyDoc].frozen THEN layer[MyDoc]
              ELSE [layer[MyDoc] EXCEPT !.items = job.saved]
(* abort_document_to                                                       *)
Aborted    == [layer[MyDoc] EXCEPT !.items = job.saved, !.frozen = FALSE]

(* rollback_document                                                       *)
RollbackDocument ==
    /\ job.stage = "abort"
    /\ layer' = [layer EXCEPT ![MyDoc] = Aborted]
    /\ txn' = [txn EXCEPT ![Mine].status = "cancelled", ![Mine].kept = {}]
    /\ failed' = failed \cup job.did /\ withdrawn' = withdrawn \cup job.did
    /\ job' = NoJob /\ token' = FALSE
    /\ UNCHANGED <<component, initial, latest, published, run, works>>

Documents ==
    \/ RequestCancel \/ Cancelled \/ EnterText \/ TextReturns \/ EnterCommit \/ RollbackDocument
    \/ \E t \in Txn, d \in Doc, r \in 1..MaxRevision : StartDocument(t, d, r)
    \/ \E commits \in BOOLEAN : CommitDocument(commits)
    \/ \E stage \in {"tree", "syntax", "ast"} :
          \/ EnterStage(stage) \/ NextNode(stage) \/ StageRejects(stage)
          \/ StageErrs(stage) \/ StageEnds(stage)
          \/ \E replaces \in BOOLEAN : CallAccepted(stage, replaces)
          \/ \E traps \in SUBSET Component :
                Cardinality(traps) <= 1 /\ NodeFails(stage, traps)

(* The other operations of the host wait for parse_document, the owners of *)
(* other transactions do not.                                              *)
Others ==
    \/ Idle /\ Next
    \/ /\ ~Idle
       /\ \/ Calls
          \/ \E t \in Txn : {t} # job.txn /\ (CommitParse(t) \/ CancelParse(t))

DocNext == Documents \/ (Others /\ UNCHANGED <<job, token>>)
DocSpec == DocInit /\ [][DocNext]_docVars

-----------------------------------------------------------------------------
(* Every variable has its type, and the AST stage and the commit of a      *)
(* document see a frozen layer (document.rs:462).                          *)
DocTypeOK ==
    /\ TypeOK
    /\ token \in BOOLEAN
    /\ job.stage \in Stages \cup {"none", "abort"}
    /\ job.txn \subseteq Txn /\ (Idle <=> job.txn = {})
    /\ job.base \cup job.node \cup job.did \subseteq 1..works
    /\ ~Idle => txn[Mine].status = "open"
    /\ job.stage \in {"ast", "commit"} => layer[MyDoc].frozen

(* A document that ends without a commit, by a fatal error, a cancellation *)
(* at any stage or a refused commit, leaves nothing it accepted in the     *)
(* store, and the layer as it found it, open for another attempt at the    *)
(* same revision (rollback_document, document.rs:634).                     *)
DocumentAtomic ==
    [][~Idle /\ job'.stage = "none" /\ txn'[Mine].status # "committed"
         => /\ layer'[MyDoc] = [layer[MyDoc] EXCEPT !.items = job.saved, !.frozen = FALSE]
            /\ txn'[Mine].kept = {}
            /\ (job.did \cup run.did) \cap published' = {}]_docVars

(* A document whose cancellation was requested before the last check, at   *)
(* any stage, never commits (check_cancelled, document.rs:344).            *)
CancelledStays ==
    [][job.dead /\ job'.stage = "none" => txn'[Mine].status # "committed"]_docVars
=============================================================================
