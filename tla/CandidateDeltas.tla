--------------------------- MODULE CandidateDeltas ---------------------------
(***************************************************************************)
(* Speculative parsing over the StateStore: how the expression parser uses *)
(* savepoints and deltas (WasmExpressionEnvironment of                     *)
(* parser-wasm/src/host.rs, on StateDelta of parser-wasm/src/state/mod.rs).*)
(*                                                                         *)
(* A candidate runs in a scope: its calls write into the parse, and when   *)
(* the scope closes the parse is put back where the scope began, the work  *)
(* of the candidate captured in a delta.  The delta belongs to a node the  *)
(* parser memoizes under state_revision, the overlay number.  Selecting a  *)
(* node applies its delta: on the branch where it was computed, or, from   *)
(* the memo, on any branch with the same overlay number.                   *)
(*                                                                         *)
(* apply_delta asks for the receipt of the delta itself only: it does not  *)
(* refuse a delta of which a part has been applied.  That no work is done  *)
(* twice is left to the text the parser gives every candidate: a candidate *)
(* selects nodes inside its own text, side by side.                        *)
(*                                                                         *)
(* Abstractions: the memo key is reduced to the overlay number; a node is  *)
(* its delta and its text; a text is a set of positions; the diagnostics   *)
(* and calls deferred with a delta are the bag of the component calls that *)
(* made them (work); a default expression, which has no text, is selected  *)
(* where it is made and counts as calls of the scope around it.            *)
(***************************************************************************)
EXTENDS StateStore, Sequences, SequencesExt

CONSTANTS
    Texts,      \* what an expression candidate may cover, sets of positions
    MaxDepth,   \* bound: candidate scopes open at once
    MaxDelta,   \* bound: deltas of a parse
    MaxOverlay  \* bound: overlay numbers of a parse minted before a selection

(* Left out: candidates that cover no text.                                *)
ASSUME TextAssumption == {} \notin Texts
ASSUME BoundAssumption == {MaxDepth, MaxDelta, MaxOverlay} \subseteq Nat

VARIABLES
    applied,  \* applied_deltas of every parse: the receipts
    work,     \* history: how often the work of each call is on the branch
    stack,    \* candidate_scopes: their kind, text, and where each began
    kept,     \* a matcher candidate saved to be resumed, at a stack depth
    deltas    \* deltas of every parse, next_delta_id being their number

candidates == <<stack, kept, deltas>>
allVars == <<vars, applied, work, candidates>>

(* What a StateSavepoint captures (work with it).                          *)
Branch(p) == [frame |-> frame[p], applied |-> applied[p], work |-> work[p]]

NoBranch == [frame |-> NewFrame, applied |-> {}, work |-> [c \in Call |-> 0]]

(* ParseTransactionInner::restore                                          *)
Restore(p, b) ==
    /\ frame' = [frame EXCEPT ![p] = b.frame]
    /\ applied' = [applied EXCEPT ![p] = b.applied]
    /\ work' = [work EXCEPT ![p] = b.work]

(* The host works on candidates between component calls.                   *)
Ready(p) == status[p] = "open" /\ Quiescent(p)

CandidateInit ==
    /\ Init
    /\ applied = [p \in Parse |-> {}]
    /\ work = [p \in Parse |-> NoBranch.work]
    /\ stack = [p \in Parse |-> <<>>]
    /\ kept = [p \in Parse |-> [depth |-> -1, branch |-> NoBranch]]
    /\ deltas = [p \in Parse |-> <<>>]

-----------------------------------------------------------------------------
(* The text the parser is at work on: that of the innermost candidate.     *)
Extent(p) == IF stack[p] = <<>> THEN UNION Texts ELSE Last(stack[p]).text

Enter(p, kind, text) ==
    stack' = [stack EXCEPT ![p] =
                Append(@, [kind |-> kind, text |-> text, branch |-> Branch(p)])]

(* begin_expression_candidate, for a range inside the one being parsed     *)
Open(p, text) ==
    /\ Ready(p)
    /\ Len(stack[p]) < MaxDepth
    /\ text \subseteq Extent(p)
    /\ Enter(p, "expression", text)
    /\ UNCHANGED <<vars, applied, work, kept, deltas>>

(* begin_semantic_candidate                                                *)
OpenSemantic(p) ==
    /\ Ready(p)
    /\ Len(stack[p]) < MaxDepth
    /\ Enter(p, "semantic", Extent(p))
    /\ UNCHANGED <<vars, applied, work, kept, deltas>>

Within(p, kind) == stack[p] # <<>> /\ Last(stack[p]).kind = kind
Outset(p) == Last(stack[p]).branch

(* A matcher candidate lives as long as the scope it was found in.         *)
Close(p) ==
    /\ stack' = [stack EXCEPT ![p] = Front(@)]
    /\ kept' = [kept EXCEPT ![p] =
                  IF @.depth = Len(stack[p]) THEN [depth |-> -1, branch |-> NoBranch]
                  ELSE @]

(* Mutants: a delta keeps only what is new, observes the committed         *)
(* revision, forgets what it learned.                                      *)
NewCell(now, before) == IF before # Untouched THEN Untouched ELSE now
ObservedBase(f, before, rk) == f.base[rk]
ObservedBefore(f, before, rk) == before.current[rk]

(* ParseTransaction::defer_since.  Every namespace the branch knows counts *)
(* as observed, at the revision it had when the scope began.               *)
ChangedCell(now, before) == IF now = before THEN Untouched ELSE now
Observed(f, before, rk) ==
    IF f.current[rk] # Unknown /\ before.current[rk] = Unknown THEN f.base[rk]
    ELSE before.current[rk]
Nested(now, before) == now \ before

Delta(f, receipts, done, text, b) ==
    LET before == b.frame IN
    [at       |-> before.overlay,
     text     |-> text,
     writes   |-> [rk \in RevKey |-> [k \in Key |->
                     ChangedCell(f.writes[rk][k], before.writes[rk][k])]],
     observed |-> [rk \in RevKey |-> Observed(f, before, rk)],
     saw      |-> {r \in f.saw : \A s \in before.saw : <<s[1], s[2]>> # <<r[1], r[2]>>},
     nested   |-> Nested(receipts, b.applied),
     work     |-> [c \in Call |-> done[c] - b.work[c]],
     result   |-> f.writes]

(* defer_expression_candidate(true)                                        *)
Defer(p) ==
    /\ Ready(p)
    /\ Within(p, "expression") /\ Len(deltas[p]) < MaxDelta
    /\ deltas' = [deltas EXCEPT ![p] =
                    Append(@, Delta(frame[p], applied[p], work[p], Extent(p), Outset(p)))]
    /\ Restore(p, Outset(p))
    /\ Close(p)
    /\ UNCHANGED <<store, status, mint, saves, call>>

(* defer_expression_candidate(false), finish_semantic_candidate(false)     *)
Reject(p) ==
    /\ Ready(p)
    /\ stack[p] # <<>>
    /\ Restore(p, Outset(p))
    /\ Close(p)
    /\ UNCHANGED <<store, status, mint, saves, call, deltas>>

(* finish_semantic_candidate(true)                                         *)
Accept(p) ==
    /\ Ready(p)
    /\ Within(p, "semantic")
    /\ Close(p)
    /\ UNCHANGED <<vars, applied, work, deltas>>

(* restore_candidate_state keeps what a matcher candidate did and goes     *)
(* back for the next one.                                                  *)
Keep(p) ==
    /\ Ready(p)
    /\ Within(p, "expression")
    /\ kept' = [kept EXCEPT ![p] = [depth |-> Len(stack[p]), branch |-> Branch(p)]]
    /\ Restore(p, Outset(p))
    /\ UNCHANGED <<store, status, mint, saves, call, stack, deltas>>

(* begin_semantic_candidate, then restore_pattern_candidate_state resumes  *)
(* the matcher candidate: the scope need not begin where it leads.         *)
Activate(p) ==
    /\ Ready(p)
    /\ kept[p].depth = Len(stack[p]) /\ Len(stack[p]) < MaxDepth
    /\ Enter(p, "semantic", Extent(p))
    /\ Restore(p, kept[p].branch)
    /\ UNCHANGED <<store, status, mint, saves, call, kept, deltas>>

-----------------------------------------------------------------------------
(* Mutant: a piece of a list begins where the one before it ended.         *)
Overlapping(p, i) == TRUE

(* The parser takes the pieces of a candidate one after the other, each    *)
(* behind the last one (the pieces of a list, the operands of an operator, *)
(* the captures of a pattern), so what it selects is apart from everything *)
(* applied before, unless it is the same node once more.                   *)
Apart(p, i) ==
    \A j \in applied[p] \ {i} : deltas[p][i].text \cap deltas[p][j].text = {}

(* A node the parser may select now: one it parsed, or found in the memo,  *)
(* under the current overlay number, for a range of the candidate it is    *)
(* working on.                                                             *)
Selectable(p, i) ==
    /\ Ready(p)
    /\ i \in DOMAIN deltas[p]
    /\ deltas[p][i].at = frame[p].overlay
    /\ deltas[p][i].text \subseteq Extent(p)
    /\ Apart(p, i)

(* A refusal to apply a delta fails the whole parse.                       *)
Applies(p, d) == Observes(frame[p], d) /\ WithinQuota(p, d.writes)

(* ParseTransaction::apply_delta, through select_expression: a delta that  *)
(* is applied already changes nothing.                                     *)
Select(p, i) ==
    /\ Selectable(p, i)
    /\ i \notin applied[p] /\ mint[p] <= MaxOverlay
    /\ LET d == deltas[p][i] IN
       /\ Applies(p, d)
       /\ frame' = [frame EXCEPT ![p] = Absorb(@, d, mint[p])]
       /\ mint' = [mint EXCEPT ![p] = IF Touched(d.writes) = {} THEN @ ELSE @ + 1]
       /\ applied' = [applied EXCEPT ![p] = @ \cup d.nested \cup {i}]
       /\ work' = [work EXCEPT ![p] = [c \in Call |-> @[c] + d.work[c]]]
    /\ UNCHANGED <<store, status, saves, call, candidates>>

(* Calls, one at a time, and the rest of the life of a parse.              *)
Accepted(c) ==
    /\ Merge(c)
    /\ work' = [work EXCEPT ![c.parse][c] = @ + 1]
    /\ UNCHANGED <<applied, candidates>>

Calling(c) ==
    /\ \/ Invoke(c) /\ Quiescent(c.parse)
       \/ \E rk \in RevKey : ScanPrefix(c, rk)
       \/ \E rk \in RevKey, k \in Key, v \in Value : Write(c, rk, k, v)
       \/ Discard(c)
    /\ UNCHANGED <<applied, work, candidates>>

Ending(p) ==
    /\ \/ Begin(p)
       \/ Commit(p) /\ stack[p] = <<>> /\ Quiescent(p)
       \/ Cancel(p) /\ Quiescent(p)
    /\ UNCHANGED <<applied, work, candidates>>

CandidateNext ==
    \/ \E p \in Parse, text \in Texts : Open(p, text)
    \/ \E p \in Parse : OpenSemantic(p)
    \/ \E p \in Parse : Defer(p) \/ Reject(p) \/ Accept(p)
    \/ \E p \in Parse : Keep(p) \/ Activate(p) \/ Ending(p)
    \/ \E p \in Parse, i \in 1..MaxDelta : Select(p, i)
    \/ \E c \in Call : Accepted(c) \/ Calling(c)

CandidateSpec == CandidateInit /\ [][CandidateNext]_allVars

-----------------------------------------------------------------------------
(* Every branch the parser may still continue from.                        *)
Branches(p) ==
    {Branch(p)} \cup {scope.branch : scope \in ToSet(stack[p])}
       \cup (IF kept[p].depth = -1 THEN {} ELSE {kept[p].branch})

(* The overlay number names the contents of the overlay: the memo may use  *)
(* it as a key, whatever was rolled back and redone in between             *)
(* (ParseTransactionInner::next_overlay_revision is never rolled back).    *)
OverlayNamesContents ==
    \A p \in Parse : status[p] = "open" =>
        \A b, c \in Branches(p) :
            b.frame.overlay = c.frame.overlay => b.frame.writes = c.frame.writes

(* Selecting a node puts into the parse exactly the overlay the candidate  *)
(* had built when it was deferred, even if the node comes from the memo    *)
(* and the parse took another way to this overlay number.                  *)
SelectionReplays ==
    [][\A p \in Parse, i \in 1..MaxDelta :
         Select(p, i) => frame'[p].writes = deltas[p][i].result]_allVars

(* The work of an accepted call is on a branch at most once, however the   *)
(* nodes that contain it are deferred, selected, rolled back and resumed:  *)
(* apply_delta refuses only the delta it has applied already, and the      *)
(* texts of the candidates keep a node and a part of it off one branch.    *)
WorkOnce == \A p \in Parse, c \in Call : work[p][c] <= 1

(* Selecting a node fails, and with it the parse, only because of another  *)
(* parse: when nobody else has committed, what the parser took from its    *)
(* memo always applies.                                                    *)
SelectionAlwaysApplies ==
    \A p \in Parse, i \in 1..MaxDelta :
        Selectable(p, i) /\ i \notin applied[p] /\ ~Applies(p, deltas[p][i])
            => \E q \in Parse \ {p} :
                  status[q] = "committed" /\ Touched(frame[q].writes) # {}
=============================================================================
