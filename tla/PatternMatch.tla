---------------------------- MODULE PatternMatch ----------------------------
(***************************************************************************)
(* The pattern matcher, skript-parser/src/pattern_match.rs, over the       *)
(* transaction its WASM hooks write into, WasmPatternHooks of              *)
(* parser-wasm/src/host.rs.                                                *)
(*                                                                         *)
(* The matcher tries candidates in order, every candidate in the scopes    *)
(* Definition, Registration and Pattern, and explores the elements of a    *)
(* pattern with backtracking; hooks run before and after every scope and   *)
(* element, may write, and may override the outcome.  A typed element asks *)
(* for nested Expressions, which re-enter the matcher.  The host keeps a   *)
(* stack of frames, of scopes and of branch checkpoints to put the state   *)
(* of the transaction where each of them needs it.                         *)
(*                                                                         *)
(* Abstractions: a hook call is the work it writes, numbered; the log is   *)
(* the work the transaction holds and the effects recorded with it, which  *)
(* the host always saves and restores together.  Whether a literal         *)
(* matches, a final state consumed the input, or a default completes an    *)
(* omitted capture is a choice.  Recovery of failures is not modelled.     *)
(***************************************************************************)
EXTENDS Naturals, FiniteSets, SequencesExt

CONSTANTS
    Elements,      \* what patterns are made of, with the parts of each
    Patterns,      \* by depth of nesting: the patterns of every candidate
    MaxWork,       \* bound: hook calls that write
    MaxDecisions   \* bound: hook calls that do not just continue

(* A registered syntax has a pattern (register, dynamic.rs:611), and a     *)
(* match that has no candidate is over before it begins.                   *)
ASSUME PatternsAssumption ==
    /\ \A element \in Elements : element.parts \in Seq(Seq(Elements))
    /\ Patterns \in Seq(Seq(Seq(Seq(Elements)))) \ {<<>>}
    /\ \A d \in DOMAIN Patterns : /\ Patterns[d] # <<>>
                                 /\ \A c \in DOMAIN Patterns[d] : Patterns[d][c] # <<>>
    /\ MaxWork \in Nat /\ MaxDecisions \in Nat

VARIABLES
    log,        \* the overlay of the transaction
    works,      \* the number of works so far
    decisions,  \* the number of decisions so far
    engines,    \* the matcher invocations, each with its PatternMatchFrame
    scopes,     \* scope_frames: the logs the open scopes began with
    branches,   \* branch_states: the logs of the checkpoints
    last,       \* last_candidate: at most one log
    result      \* "running", "matched", "unmatched" or "error"

vars == <<log, works, decisions, engines, scopes, branches, last, result>>

Depth   == Len(engines)
E       == engines[Depth]
Running == result = "running"
At(step) == Running /\ E.at = step
Put(e)   == engines' = [engines EXCEPT ![Depth] = e]

PatternsOf(e) == Patterns[Depth][e.cand]

(* begin_match_frame: the savepoint the frame begins from, and where its   *)
(* scopes and checkpoints begin.  path is a history, the work of what the  *)
(* matcher has adopted; undo, what it was when each scope opened; chosen,  *)
(* the candidate whose state is selected.                                  *)
Engine(base, scopeDepth, branchCount) ==
    [base |-> base, selected |-> {}, chosen |-> 0, scopes |-> scopeDepth, branches |-> branchCount,
     cand |-> 1, pat |-> 1, at |-> "before", scope |-> "definition",
     won |-> FALSE, deaf |-> FALSE, val |-> 0, synth |-> <<>>, from |-> "before",
     walk |-> <<>>, finals |-> <<>>, matches |-> <<>>, path |-> base, undo |-> <<>>]

Init ==
    /\ log = <<>> /\ works = 0 /\ decisions = 0
    /\ scopes = <<>> /\ branches = <<>> /\ last = {}
    /\ engines = <<Engine(<<>>, 0, 0)>>
    /\ result = "running"

-----------------------------------------------------------------------------
(* A hook call: the work it writes, which carries the candidate it was     *)
(* written for, and what it decides: nothing, a failure, or a match of its *)
(* input or, for a scope, of a part of it.                                 *)
Writes == {<<>>} \cup
          (IF works < MaxWork THEN {<<[for |-> engines[1].cand, nr |-> works + 1]>>} ELSE {})
Wrote(w) == works' = works + Len(w)

Decisions(scope) ==
    {"continue"} \cup
    (IF decisions >= MaxDecisions THEN {}
     ELSE {"fail", "match"} \cup (IF scope = "element" THEN {} ELSE {"partial"}))

Hook(scope, d, w) ==
    /\ d \in Decisions(scope) /\ w \in Writes
    /\ decisions' = decisions + (IF d = "continue" THEN 0 ELSE 1)
    /\ Wrote(w)

(* hook_outcome_accepted: of a failure, a match of any range is accepted.  *)
(* Mutant: whatever is not a failure is.                                   *)
AnyButFail(won, d)  == d # "fail"
HookAccepts(won, d) == IF won THEN d \in {"continue", "match"} ELSE d \in {"match", "partial"}

-----------------------------------------------------------------------------
(* match_candidate.  won: the scope that closes is a match, of pattern     *)
(* val; deaf: its hook is called, but can no longer override.              *)
Closes(e, scope, won) == [e EXCEPT !.at = "after", !.scope = scope, !.won = won]
Opens(e, scope)       == [e EXCEPT !.at = "before", !.scope = scope]
Synthesize(e, from) ==
    [e EXCEPT !.at = "synthesize", !.from = from,
              !.synth = IF e.scope = "pattern" THEN <<e.pat>>
                        ELSE [p \in DOMAIN PatternsOf(e) |-> p]]

Start(e) == [kind |-> "seq", elems |-> PatternsOf(e)[e.pat],
             agenda |-> <<[s |-> [at |-> 0, path |-> e.path], i |-> 1]>>, found |-> <<>>]

NextPattern(e) ==
    LET none == [e EXCEPT !.won = FALSE, !.val = 0] IN
    IF e.pat < Len(PatternsOf(e)) THEN Opens([none EXCEPT !.pat = @ + 1], "pattern")
    ELSE Closes(none, "registration", FALSE)

(* The loop of match_pattern_candidates_in_environment.                    *)
NextCandidate(e) ==
    LET fresh == [e EXCEPT !.pat = 1, !.won = FALSE, !.deaf = FALSE, !.val = 0,
                           !.undo = <<>>, !.path = e.base] IN
    IF e.cand < Len(Patterns[Depth]) THEN Opens([fresh EXCEPT !.cand = @ + 1], "definition")
    ELSE [fresh EXCEPT !.at = "finish"]

(* take_pattern_candidate_state, of a candidate that matched               *)
Matched(e, states) ==
    NextCandidate([e EXCEPT !.matches =
                       Append(@, [cand |-> e.cand, state |-> states, want |-> e.path])])

(* scope_before; the Definition scope begins where the frame did.          *)
BeforeScope(d, w) ==
    LET e == E
        from  == IF e.scope = "definition" THEN e.base ELSE log
        begun == [e EXCEPT !.path = (IF e.scope = "definition" THEN e.base ELSE @) \o w,
                           !.undo = Append(@, e.path)]
    IN
    /\ At("before") /\ Hook(e.scope, d, w)
    /\ log' = from \o w
    /\ scopes' = IF e.scope = "definition" THEN scopes ELSE Append(scopes, log)
    /\ last' = IF e.scope = "definition" THEN {} ELSE last
    /\ Put(CASE d = "fail"  -> Closes([begun EXCEPT !.val = 0], e.scope, FALSE)
             [] d = "match" -> Synthesize(begun, "before")
             [] OTHER -> IF e.scope = "pattern"
                         THEN [begun EXCEPT !.at = "walk", !.walk = <<Start(begun)>>]
                         ELSE Opens(begun, IF e.scope = "definition" THEN "registration"
                                           ELSE "pattern"))
    /\ UNCHANGED <<branches, result>>

(* What the matcher adopts: scope_after_matched and scope_after_failed.    *)
(* An overridden failure leaves what it did, adopted or not: of a part of  *)
(* the input, or after its captures were not completed, it is not.         *)
Adopts(e, d)    == IF e.won THEN d \in {"continue", "match"} ELSE d = "match" /\ ~e.deaf
Overrides(e, d) == ~e.won /\ d \in {"match", "partial"}
Closed(e, d, w) ==
    [e EXCEPT !.path = IF Overrides(e, d) THEN log \o w
                       ELSE IF Adopts(e, d) THEN e.path \o w ELSE e.undo[Len(e.undo)],
              !.undo = Front(@)]

(* finish_nested_scope                                                     *)
AfterScope(d, w) ==
    LET e == E
        closed == Closed(e, d, w)
        outer == IF e.scope = "pattern" THEN "registration" ELSE "definition"
    IN
    /\ At("after") /\ e.scope # "definition" /\ Hook(e.scope, d, w)
    /\ log' = IF HookAccepts(e.won, d) THEN log \o w ELSE scopes[Len(scopes)]
    /\ scopes' = Front(scopes)
    /\ Put(IF Adopts(e, d)
           THEN IF e.won THEN Closes(closed, outer, TRUE) ELSE Synthesize(closed, "after")
           ELSE IF e.scope = "pattern" THEN NextPattern(closed)
           ELSE Closes(closed, "definition", FALSE))
    /\ UNCHANGED <<branches, last, result>>

(* restore_candidate_state: the first candidate whose Definition scope is  *)
(* accepted is the selected one.  Mutant: the last one.                    *)
LatestSelected(e, now, accepted) == IF accepted THEN {now} ELSE e.selected
Selection(e, now, accepted) == IF accepted /\ e.selected = {} THEN {now} ELSE e.selected

AfterDefinition(d, w) ==
    LET e == E
        now == log \o w
        accepted == IF e.won THEN d \in {"continue", "match"} ELSE d = "match"
        selected == Selection(e, now, accepted)
        first == accepted /\ e.selected = {}
        closed == [Closed(e, d, w) EXCEPT !.selected = selected,
                                          !.chosen = IF first THEN e.cand ELSE @]
        keep == Adopts(e, d) /\ (e.won \/ e.val # 0)
    IN
    /\ At("after") /\ e.scope = "definition" /\ Hook("definition", d, w)
    /\ log' = IF selected = {} THEN e.base ELSE CHOOSE s \in selected : TRUE
    /\ last' = IF keep THEN {} ELSE IF accepted THEN {now} ELSE last
    /\ Put(IF keep THEN Matched(closed, {now})
           ELSE IF Adopts(e, d) THEN Synthesize(closed, "after")
           ELSE NextCandidate(closed))
    /\ UNCHANGED <<scopes, branches, result>>

(* synthetic_candidate_match: a pattern that was not matched natively still *)
(* has to complete its omitted captures.  After the Definition scope the   *)
(* state of the candidate is taken already, and this work is in no state.  *)
Synthetic(completes, w) ==
    LET e == E
        done == [e EXCEPT !.val = Head(e.synth), !.synth = <<>>, !.path = @ \o w]
        none == [e EXCEPT !.synth = Tail(@)]
        outer == IF e.scope = "pattern" THEN "registration" ELSE "definition"
    IN
    /\ At("synthesize") /\ w \in Writes /\ Wrote(w) /\ (completes \/ w = <<>>)
    /\ log' = log \o w
    /\ last' = IF completes /\ e.from = "after" /\ e.scope = "definition" THEN {} ELSE last
    /\ Put(CASE completes /\ e.from = "before" -> Closes(done, e.scope, TRUE)
             [] completes /\ e.from = "after" ->
                  IF e.scope = "definition"
                  THEN Matched([done EXCEPT !.path = e.path], last) ELSE Closes(done, outer, TRUE)
             [] OTHER ->
                  IF none.synth # <<>> THEN none
                  ELSE IF e.scope = "pattern"
                  THEN IF e.from = "before" THEN Closes(none, "pattern", FALSE)
                       ELSE NextPattern(none)
                  ELSE IF e.from = "before"
                  THEN Closes([none EXCEPT !.deaf = TRUE], e.scope, FALSE)
                  ELSE IF e.scope = "registration"
                  THEN Closes([none EXCEPT !.deaf = TRUE], "definition", FALSE)
                  ELSE NextCandidate(none))
    /\ UNCHANGED <<decisions, scopes, branches, result>>

-----------------------------------------------------------------------------
(* The elements of a pattern.  A state of the search has a checkpoint, 0   *)
(* at the beginning, and a history, the work on its path.  A frame of the  *)
(* walk is a match_sequence, with the states still to go through it and    *)
(* those that went, or a match_element.                                    *)
Frame   == E.walk[Len(E.walk)]
Walking(kind) == At("walk") /\ E.walk # <<>> /\ Frame.kind = kind
Step(f) == Put([E EXCEPT !.walk[Len(E.walk)] = f])
Push(f, g) == Put([E EXCEPT !.walk = Front(@) \o <<f, g>>])

(* restore_branch.  Mutant: the search goes on from where it stands.       *)
Onward(s)  == log
Restore(s) == IF s.at = 0 THEN log ELSE branches[s.at]
Checkpoint(logs) == branches' = branches \o logs
Fresh == Len(branches) + 1

Item == Head(Frame.agenda)
Done(f, s) == [f EXCEPT !.agenda = Tail(@), !.found = Append(@, s)]

(* A state has gone through the sequence.                                  *)
EndOfSequence ==
    /\ Walking("seq") /\ Frame.agenda # <<>> /\ Item.i > Len(Frame.elems)
    /\ log' = Restore(Item.s)
    /\ Step(Done(Frame, Item.s))
    /\ UNCHANGED <<works, decisions, scopes, branches, last, result>>

(* match_element: the hook before the element, and a checkpoint after it.  *)
BeforeElement(d, w) ==
    LET s == Item.s
        orig == [at |-> Fresh, path |-> s.path \o w]
    IN
    /\ Walking("seq") /\ Frame.agenda # <<>> /\ Item.i <= Len(Frame.elems)
    /\ Hook("element", d, w)
    /\ log' = Restore(s) \o w
    /\ Checkpoint(<<Restore(s) \o w>>)
    /\ Push(Frame, [kind |-> "elem", elem |-> Frame.elems[Item.i],
                    phase |-> IF d = "continue" THEN "default" ELSE "after", part |-> 1,
                    orig |-> orig, deltas |-> <<>>, kept |-> <<>>,
                    trans |-> IF d = "match" THEN <<orig>> ELSE <<>>])
    /\ UNCHANGED <<scopes, last, result>>

Default == Walking("elem") /\ Frame.phase = "default"
Kind    == Frame.elem.kind

(* A literal, or a regex: with an end or without.                          *)
Literal(matches) ==
    /\ Default /\ Kind = "literal"
    /\ Step([Frame EXCEPT !.phase = "after", !.trans = IF matches THEN <<Frame.orig>> ELSE <<>>])
    /\ UNCHANGED <<log, works, decisions, scopes, branches, last, result>>

(* A choice, a group or an option: every branch from the checkpoint.       *)
Branch ==
    LET f == Frame IN
    /\ Default /\ Kind \in {"choice", "option"}
    /\ IF f.part <= Len(f.elem.parts)
       THEN Push([f EXCEPT !.part = @ + 1],
                 [kind |-> "seq", elems |-> f.elem.parts[f.part],
                  agenda |-> <<[s |-> f.orig, i |-> 1]>>, found |-> <<>>])
       ELSE Step([f EXCEPT !.phase = "after",
                           !.trans = IF Kind = "option" THEN Append(@, f.orig) ELSE @])
    /\ UNCHANGED <<log, works, decisions, scopes, branches, last, result>>

BranchEnds ==
    LET parent == E.walk[Len(E.walk) - 1] IN
    /\ Walking("seq") /\ Frame.agenda = <<>>
    /\ Put(IF Len(E.walk) = 1
           THEN [E EXCEPT !.at = "complete", !.walk = <<>>, !.finals = Frame.found]
           ELSE [E EXCEPT !.walk = Append(SubSeq(@, 1, Len(@) - 2),
                                          [parent EXCEPT !.trans = @ \o Frame.found])])
    /\ UNCHANGED <<log, works, decisions, scopes, branches, last, result>>

(* resolve_type: the leaf parsers answer with deferred work, and nested    *)
(* registrations are matched by an invocation of their own.                *)
AskLeaf(found, w) ==
    /\ Default /\ Kind = "type" /\ Frame.part = 1
    /\ w \in Writes /\ Wrote(w) /\ (found \/ w = <<>>)
    /\ Step([Frame EXCEPT !.part = 2, !.deltas = IF found THEN <<w>> ELSE <<>>])
    /\ UNCHANGED <<log, decisions, scopes, branches, last, result>>

AskNested ==
    /\ Default /\ Kind = "type" /\ Frame.part = 2 /\ Depth < Len(Patterns)
    /\ engines' = Append([engines EXCEPT ![Depth].walk[Len(E.walk)].part = 3],
                         Engine(log, Len(scopes), Len(branches)))
    /\ UNCHANGED <<log, works, decisions, scopes, branches, last, result>>

(* Each resolution is applied to the state before the first of them.       *)
(* Mutant: to what the previous one left.                                  *)
InARow(from, deltas, k)     == from \o FlattenSeq(SubSeq(deltas, 1, k))
Selecting(from, deltas, k)  == from \o deltas[k]
SelectTypes ==
    LET f == Frame IN
    /\ Default /\ Kind = "type" /\ (f.part = 3 \/ (f.part = 2 /\ Depth = Len(Patterns)))
    /\ Checkpoint(IF f.deltas = <<>> THEN <<>>
                  ELSE <<log>> \o [k \in DOMAIN f.deltas |-> Selecting(log, f.deltas, k)])
    /\ Step([f EXCEPT !.phase = "after",
                      !.trans = [k \in DOMAIN f.deltas |->
                                   [at |-> Fresh + k, path |-> f.orig.path \o f.deltas[k]]]])
    /\ UNCHANGED <<log, works, decisions, scopes, last, result>>

(* The element is left: the states it kept go on to the next one.          *)
Leave(kept) ==
    LET parent == E.walk[Len(E.walk) - 1]
        i == Head(parent.agenda).i
    IN Put([E EXCEPT !.walk = Append(SubSeq(@, 1, Len(@) - 2),
               [parent EXCEPT !.agenda = [k \in DOMAIN kept |-> [s |-> kept[k], i |-> i + 1]]
                                         \o Tail(@)])])

(* The hook after an element, for every transition, or for none at all.    *)
AfterElement(d, w) ==
    LET f == Frame
        t == Head(f.trans)
        now == Restore(t) \o w
        kept == IF d = "fail" THEN f.kept
                ELSE Append(f.kept, [at |-> Fresh, path |-> t.path \o w])
    IN
    /\ Walking("elem") /\ f.phase = "after" /\ f.trans # <<>>
    /\ Hook("element", d, w)
    /\ log' = now
    /\ Checkpoint(IF d = "fail" THEN <<>> ELSE <<now>>)
    /\ IF Tail(f.trans) = <<>> THEN Leave(kept)
       ELSE Step([f EXCEPT !.trans = Tail(@), !.kept = kept])
    /\ UNCHANGED <<scopes, last, result>>

AfterFailedElement(d, w) ==
    LET f == Frame
        now == Restore(f.orig) \o w
    IN
    /\ Walking("elem") /\ f.phase = "after" /\ f.trans = <<>> /\ f.kept = <<>>
    /\ Hook("element", d, w)
    /\ log' = now
    /\ Checkpoint(IF d = "match" THEN <<now>> ELSE <<>>)
    /\ Leave(IF d = "match" THEN <<[at |-> Fresh, path |-> f.orig.path \o w]>> ELSE <<>>)
    /\ UNCHANGED <<scopes, last, result>>

(* The final states, until one has consumed the input and its omitted      *)
(* captures are completed; a failed completion is undone.                  *)
Skip ==
    /\ At("complete") /\ E.finals # <<>>
    /\ \E tried \in BOOLEAN : log' = IF tried THEN Restore(Head(E.finals)) ELSE log
    /\ Put([E EXCEPT !.finals = Tail(@)])
    /\ UNCHANGED <<works, decisions, scopes, branches, last, result>>

Complete(w) ==
    LET s == Head(E.finals) IN
    /\ At("complete") /\ E.finals # <<>> /\ w \in Writes /\ Wrote(w)
    /\ log' = Restore(s) \o w
    /\ Put(Closes([E EXCEPT !.finals = <<>>, !.val = E.pat, !.path = s.path \o w],
                  "pattern", TRUE))
    /\ UNCHANGED <<decisions, scopes, branches, last, result>>

Incomplete ==
    /\ At("complete") /\ E.finals = <<>>
    /\ Put(Closes(E, "pattern", FALSE))
    /\ UNCHANGED <<log, works, decisions, scopes, branches, last, result>>

-----------------------------------------------------------------------------
(* finish_match_frame.  Mutant: what the nested match pushed stays.        *)
Leftover(seq, depth) == seq
Truncated(seq, depth) == SubSeq(seq, 1, depth)

Selected == CHOOSE s \in E.selected : TRUE

FinishMatch ==
    /\ At("finish") /\ Depth = 1
    /\ log' = IF E.matches # <<>> THEN Selected ELSE E.base
    /\ scopes' = Truncated(scopes, E.scopes) /\ branches' = Truncated(branches, E.branches)
    /\ result' = IF E.matches # <<>> THEN "matched" ELSE "unmatched"
    /\ UNCHANGED <<works, decisions, engines, last>>

(* A nested match: the first alternative its semantics accept is activated *)
(* in the state it was matched in, its work is deferred, and the state the *)
(* expression began with restored.                                         *)
FinishNested(k) ==
    LET e == E
        base == Len(e.base)
        states == e.matches[k].state
        taken == CHOOSE s \in states : TRUE
        delta == IF k = 0 THEN <<>> ELSE <<SubSeq(taken, base + 1, Len(taken))>>
        parent == engines[Depth - 1]
        top == Len(parent.walk)
    IN
    /\ At("finish") /\ Depth > 1 /\ k \in 0 .. Len(e.matches)
    /\ log' = e.base
    /\ scopes' = Truncated(scopes, e.scopes) /\ branches' = Truncated(branches, e.branches)
    /\ engines' = [Front(engines) EXCEPT ![Depth - 1].walk[top].deltas = @ \o delta]
    /\ UNCHANGED <<works, decisions, last, result>>

(* A fault, a quota or a cancellation ends every open invocation.          *)
Fault ==
    /\ Running /\ E.at # "finish"
    /\ log' = engines[1].base
    /\ scopes' = Truncated(scopes, engines[1].scopes)
    /\ branches' = Truncated(branches, engines[1].branches)
    /\ engines' = <<engines[1]>>
    /\ result' = "error"
    /\ UNCHANGED <<works, decisions, last>>

AllDecisions == {"continue", "match", "partial", "fail"}
Hooks ==
    \E d \in AllDecisions, w \in Writes :
        \/ BeforeScope(d, w) \/ AfterScope(d, w) \/ AfterDefinition(d, w)
        \/ BeforeElement(d, w) \/ AfterElement(d, w) \/ AfterFailedElement(d, w)

Searches ==
    \/ EndOfSequence \/ Branch \/ BranchEnds \/ AskNested \/ SelectTypes
    \/ Skip \/ Incomplete
    \/ \E b \in BOOLEAN : Literal(b)
    \/ \E b \in BOOLEAN, w \in Writes : AskLeaf(b, w) \/ Synthetic(b, w)
    \/ \E w \in Writes : Complete(w)

Next ==
    \/ Running /\ Hooks
    \/ Searches
    \/ FinishMatch
    \/ \E k \in 0 .. Cardinality(DOMAIN E.matches) : FinishNested(k)
    \/ Fault

Spec == Init /\ [][Next]_vars

-----------------------------------------------------------------------------
(* Every state of the search, of every open invocation.                    *)
FrameStates(f) ==
    IF f.kind = "seq" THEN {f.agenda[k].s : k \in DOMAIN f.agenda} \cup Range(f.found)
    ELSE {f.orig} \cup Range(f.trans) \cup Range(f.kept)
StatesOf(e) == (UNION {FrameStates(e.walk[k]) : k \in DOMAIN e.walk}) \cup Range(e.finals)

OpenScopes(e) == Cardinality({k \in DOMAIN e.undo : k > 1})

(* The host keeps what the matcher will ask for: the open scopes are the   *)
(* Registration and Pattern scopes of the open invocations, and every      *)
(* checkpoint of a state still to be explored exists; the end of the       *)
(* outermost invocation leaves none of either.                             *)
TypeOK ==
    /\ result \in {"running", "matched", "unmatched", "error"}
    /\ works \in 0 .. MaxWork /\ decisions \in 0 .. MaxDecisions
    /\ Running \/ (scopes = <<>> /\ branches = <<>>)
    /\ \A k, l \in DOMAIN log : log[k].nr <= works /\ (k < l => log[k].nr < log[l].nr)
    /\ \A k \in DOMAIN engines :
          /\ Len(engines[k].undo) <= 3
          /\ Running => engines[k].scopes + OpenScopes(engines[k])
                        = IF k = Depth THEN Len(scopes) ELSE engines[k + 1].scopes
          /\ \A s \in StatesOf(engines[k]) :
                Running => s.at <= (IF k = Depth THEN Len(branches) ELSE engines[k + 1].branches)

(* Backtracking isolates branches: the checkpoint a state is explored from *)
(* holds the work of the hooks, the nested parses and the defaults on its  *)
(* own path, in their order, and nothing of the branches tried before.     *)
BranchesIsolated ==
    Running => \A k \in DOMAIN engines : \A s \in StatesOf(engines[k]) :
                   s.at # 0 => branches[s.at] = s.path

(* A scope that was not adopted leaves nothing to the next one: whenever a *)
(* Registration or Pattern scope opens, and whenever a match is about to   *)
(* be closed, the transaction holds what the matcher has adopted.  With    *)
(* one exception, which is in the code: when a hook overrides the failure  *)
(* of such a scope with a part of the input, or after its captures were    *)
(* not completed, the matcher does not adopt it and the host keeps what it *)
(* wrote (hook_outcome_accepted, host.rs:3147), and nothing but that.      *)
RejectedScopesUndone ==
    Running /\ ((E.at = "before" /\ E.scope # "definition") \/ (E.at = "after" /\ E.won))
        => log = E.path

(* What is handed to the semantic handlers of a candidate is the state in  *)
(* which its Definition scope was accepted, natively or by an override.    *)
(* When the match is over, the transaction holds the state of the first    *)
(* candidate the host accepted (restore_candidate_state, host.rs:3338):    *)
(* that of the first match, or, when a failed Definition was overridden    *)
(* and the candidate then came to nothing, that of a candidate before it,  *)
(* never of one behind it.  Without a match nothing remains.               *)
SelectedStateKept ==
    /\ \A k \in DOMAIN engines : \A m \in Range(engines[k].matches) : m.state = {m.want}
    /\ Running /\ E.at = "finish" /\ E.matches # <<>> =>
          /\ E.chosen \in 1 .. Head(E.matches).cand
          /\ E.chosen = Head(E.matches).cand => E.selected = {Head(E.matches).want}
    /\ result \in {"unmatched", "error"} => log = engines[1].base

(* parser-wasm/README.md: "Failed candidates and non-selected alternatives *)
(* are rolled back.  Only writes made by the selected candidate remain in  *)
(* the parse transaction."                                                 *)
OnlySelectedRemains ==
    result = "matched" => \A w \in Range(log) : w.for = Head(engines[1].matches).cand
=============================================================================
