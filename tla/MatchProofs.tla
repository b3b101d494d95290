----------------------------- MODULE MatchProofs ----------------------------
(***************************************************************************)
(* Proofs about PatternMatch: the logs the host keeps hold what the        *)
(* matcher believes they hold, of branches, of scopes and of matches.      *)
(***************************************************************************)
EXTENDS PatternProofs

-----------------------------------------------------------------------------
(* Where the log of the transaction is the history the matcher has adopted *)
Following(e) ==
    \/ e.at = "before" /\ e.scope # "definition"
    \/ e.at = "after" /\ e.won
    \/ e.at = "synthesize" /\ ~Overridden(e)

(* A state that is at no checkpoint stands for the log: it is the first of *)
(* the pattern, and the only one there is.                                 *)
Alone(fr) == Len(fr.agenda) + Len(fr.found) = 1
Rooted(walk, lg) ==
    \A j \in DOMAIN walk : \A s \in FrameStates(walk[j]) :
        s.at = 0 => j = 1 /\ Alone(walk[1]) /\ (Len(walk) = 1 => lg = s.path)

(* The logs of the open scopes are what the matcher had when they opened.  *)
Undoes(e, sc) == \A j \in 2 .. Len(e.undo) : sc[e.scopes + j - 1] = e.undo[j]

(* Scope by scope, state by state, the transaction and what the host has   *)
(* put aside are what the matcher believes them to be.                     *)
Traced(e, lg, sc, br) ==
    /\ Following(e) => lg = e.path
    /\ Undoes(e, sc)
    /\ e.deaf => e.at = "after" /\ e.scope # "pattern" /\ ~e.won
    /\ \A s \in StatesOf(e) : s.at # 0 => br[s.at] = s.path
    /\ Rooted(e.walk, lg)
    /\ \A q \in DOMAIN e.finals : e.finals[q].at = 0 =>
          Len(e.finals) = 1 /\ lg = e.finals[q].path
    /\ Asking(e) => lg = Last(e.walk).orig.path

Tracing == Running => \A k \in 1 .. Depth : Traced(engines[k], LogAt(k), scopes, branches)

(* The host selects the state of the first candidate it accepts, which the *)
(* matcher may drop: then a match that comes later is not of that          *)
(* candidate.  A Definition scope that is overridden and has to complete   *)
(* its captures holds its state in last until then.                        *)
Picked(e) ==
    /\ e.selected = {} <=> e.chosen = 0
    /\ e.chosen =< e.cand /\ (e.chosen = e.cand => Overridden(e) \/ e.at = "finish")
    /\ e.matches # <<>> =>
          /\ e.chosen \in 1 .. Head(e.matches).cand
          /\ e.chosen = Head(e.matches).cand => e.selected = {Head(e.matches).want}
    /\ \A k \in DOMAIN e.matches : e.matches[k].state = {e.matches[k].want}
Awaiting(e, states) ==
    Overridden(e) => states = {e.path} /\ (e.chosen = e.cand => e.selected = states)
Picking ==
    /\ \A k \in 1 .. Depth : Picked(engines[k])
    /\ Running => Awaiting(E, last)
    /\ result \in {"unmatched", "error"} => log = engines[1].base

-----------------------------------------------------------------------------
(* The transaction holds what the matcher thinks it does.                  *)
LEMMA TraceFacts ==
    ASSUME Sound, Tracing, Running
    PROVE  Traced(E, log, scopes, branches)
  <1>1. Depth \in 1 .. Depth
    BY TopFacts
  <1> QED BY <1>1 DEF Tracing, LogAt, E

LEMMA TracedLater ==
    ASSUME NEW e, NEW depth, NEW lg, NEW sc, NEW ns \in Nat, NEW br, NEW nb \in Nat, NEW n,
           EngineOK(e, depth, lg, sc, ns, br, nb, n), Traced(e, lg, sc, br),
           NEW sd, NEW bs, Agree(sd, sc, ns), Agree(bs, br, nb)
    PROVE  Traced(e, lg, sd, bs)
  <1>1. e \in Engines /\ ns = e.scopes + Inside(e) /\ Checked(e, nb)
    BY DEF EngineOK
  <1>2. e.scopes \in Nat /\ e.branches \in Nat /\ e.undo \in Seq(Logs)
    BY <1>1 DEF Engines
  <1>3. Undoes(e, sd)
    <2>1. ASSUME NEW j \in 2 .. Len(e.undo) PROVE sd[e.scopes + j - 1] = e.undo[j]
      <3> DEFINE m == Len(e.undo)
                 c == e.scopes
      <3>1. m \in Nat /\ j \in 2 .. m /\ c \in Nat /\ ns = c + (m - 1)
        BY <1>1, <1>2 DEF Inside
      <3>2. sc[c + j - 1] = e.undo[j]
        BY DEF Traced, Undoes
      <3> HIDE DEF m, c
      <3>3. c + j - 1 \in 1 .. ns
        BY <3>1
      <3> QED BY <3>2, <3>3 DEF Agree, c
    <2> QED BY <2>1 DEF Undoes
  <1>4. \A s \in StatesOf(e) : s.at # 0 => bs[s.at] = s.path
    <2>1. ASSUME NEW s \in StatesOf(e), s.at # 0 PROVE bs[s.at] = s.path
      <3>1. s.at \in e.branches + 1 .. nb
        BY <1>1, <2>1 DEF Checked
      <3>2. s.at \in 1 .. nb
        BY <1>2, <3>1
      <3>3. br[s.at] = s.path
        BY <2>1 DEF Traced
      <3> QED BY <3>2, <3>3 DEF Agree
    <2> QED BY <2>1
  <1> QED BY <1>3, <1>4 DEF Traced

LEMMA TopTrace ==
    ASSUME Sound, Tracing, Running, result' = result,
           NEW e, engines' = [engines EXCEPT ![Depth] = e],
           e.base = E.base, e.scopes = E.scopes, e.branches = E.branches,
           \A j \in 1 .. E.scopes : scopes'[j] = scopes[j],
           \A j \in 1 .. E.branches : branches'[j] = branches[j],
           Traced(e, log', scopes', branches')
    PROVE  Tracing'
  <1>1. /\ engines \in Seq(Engines) /\ Depth \in 1 .. Len(Patterns) /\ Depth = Len(engines)
        /\ Len(Patterns) \in Nat
    BY TopFacts DEF Sound
  <1>2. /\ Len(engines') = Len(engines) /\ engines'[Depth] = e
        /\ \A k \in 1 .. Depth : k # Depth => engines'[k] = engines[k]
    BY <1>1
  <1>3. Depth' = Depth /\ E = engines[Depth]
    BY <1>1, <1>2 DEF Depth, E
  <1>4. ASSUME NEW k \in 1 .. Depth PROVE Traced(engines'[k], LogAt(k)', scopes', branches')
    <2>1. CASE k = Depth
      BY <1>2, <1>3, <2>1 DEF LogAt
    <2>2. CASE k # Depth
      <3>1. k + 1 \in 1 .. Depth /\ engines'[k] = engines[k] /\ k + 1 =< Depth
        BY <1>1, <1>2, <2>2
      <3> DEFINE f == engines[k + 1]
      <3>2. engines'[k + 1].base = f.base
        BY <1>2, <1>3, <3>1
      <3>3. LogAt(k) = f.base /\ LogAt(k)' = f.base
        BY <1>3, <2>2, <3>2 DEF LogAt
      <3>4. EngineOK(engines[k], k, f.base, scopes, f.scopes, branches, f.branches, works)
        <4>1. EngineOK(engines[k], k, LogAt(k), scopes, ScopesAt(k), branches, BranchesAt(k), works)
          BY DEF Sound
        <4> QED BY <2>2, <4>1 DEF LogAt, ScopesAt, BranchesAt
      <3>5. Traced(engines[k], f.base, scopes, branches)
        BY <3>3 DEF Tracing
      <3>6. f.scopes \in Nat /\ f.branches \in Nat /\ E.scopes \in Nat /\ E.branches \in Nat
        <4>1. f \in Engines /\ E \in Engines
          BY <1>1, <1>3, <3>1
        <4> QED BY <4>1 DEF Engines
      <3>7. f.scopes =< E.scopes /\ f.branches =< E.branches
        <4>1. k + 1 \in DOMAIN engines /\ Depth \in DOMAIN engines
          BY <1>1, <3>1
        <4> QED BY <1>3, <3>1, <4>1 DEF Sound, Stacked
      <3>8. Agree(scopes', scopes, f.scopes) /\ Agree(branches', branches, f.branches)
        <4>1. 1 .. f.scopes \subseteq 1 .. E.scopes /\ 1 .. f.branches \subseteq 1 .. E.branches
          BY <3>6, <3>7, Within
        <4> QED BY <4>1 DEF Agree
      <3> HIDE DEF f
      <3>9. Traced(engines[k], f.base, scopes', branches')
        BY <3>4, <3>5, <3>6, <3>8, TracedLater
      <3> QED BY <3>1, <3>3, <3>9
    <2> QED BY <2>1, <2>2
  <1> QED BY <1>3, <1>4 DEF Tracing

(* A step outside of the search.                                           *)
LEMMA CalmTrace ==
    ASSUME Sound, Tracing, Running, result' = result, branches' = branches,
           NEW f \in Engines, engines' = [engines EXCEPT ![Depth] = f],
           f.base = E.base, f.scopes = E.scopes, f.branches = E.branches,
           f.walk = <<>>, f.finals = <<>>,
           NEW k, ScopesFit(k), Undoes(f, scopes'),
           Following(f) => log' = f.path,
           f.deaf => f.at = "after" /\ f.scope # "pattern" /\ ~f.won
    PROVE  Tracing'
  <1>1. /\ StatesOf(f) = {} /\ ~Asking(f)
    BY Calm
  <1>2. Rooted(f.walk, log') /\ \A q \in DOMAIN f.finals : FALSE
    BY DEF Rooted
  <1>3. Traced(f, log', scopes', branches')
    BY <1>1, <1>2 DEF Traced
  <1>4. \A j \in 1 .. E.scopes : scopes'[j] = scopes[j]
    BY DEF ScopesFit, FitFor
  <1> QED BY <1>3, <1>4, TopTrace

(* What the scopes began with is put aside and taken back.                 *)
LEMMA UndoMoves ==
    ASSUME Sound, Tracing, Running
    PROVE  /\ Undoes(E, scopes) /\ E.undo \in Seq(Logs) /\ Len(E.undo) \in Nat
           /\ \A f : f.scopes = E.scopes /\ f.undo = E.undo => Undoes(f, scopes)
           /\ \A f : f.scopes = E.scopes /\ f.undo = Append(E.undo, log) /\ Len(E.undo) > 0 =>
                 Undoes(f, Append(scopes, log))
           /\ \A f : f.scopes = E.scopes /\ f.undo = Front(E.undo) /\ Len(E.undo) > 1 =>
                 Undoes(f, Front(scopes)) /\ scopes[Len(scopes)] = E.undo[Len(E.undo)]
           /\ \A f \in Engines : \A sc : Len(f.undo) < 2 => Undoes(f, sc)
  <1> DEFINE m == Len(E.undo)
             c == E.scopes
             ns == Len(scopes)
  <1>1. Undoes(E, scopes) /\ E \in Engines
    BY TraceFacts, TopFacts DEF Traced
  <1>2. /\ E.undo \in Seq(Logs) /\ m \in Nat /\ c \in Nat /\ scopes \in Seq(Logs) /\ ns \in Nat
        /\ log \in Logs
    <2>1. E.undo \in Seq(Logs) /\ c \in Nat
      BY <1>1 DEF Engines
    <2>2. scopes \in Seq(Logs) /\ log \in Logs
      BY DEF Sound
    <2> QED BY <2>1, <2>2
  <1>3. ns = c + Inside(E)
    BY TopFacts DEF EngineOK
  <1>4. m > 0 => ns = c + (m - 1)
    BY <1>2, <1>3 DEF Inside
  <1>5. \A j \in 2 .. m : scopes[c + j - 1] = E.undo[j]
    BY <1>1 DEF Undoes
  <1>6. ASSUME m > 0, NEW f, f.scopes = c, f.undo = Append(E.undo, log)
        PROVE  Undoes(f, Append(scopes, log))
    <2> DEFINE u == E.undo
    <2>1. /\ u \in Seq(Logs) /\ Len(u) = m /\ scopes \in Seq(Logs) /\ Len(scopes) = ns
      BY <1>2
    <2> HIDE DEF m, ns, c, u
    <2>2. /\ Len(Append(u, log)) = m + 1 /\ Append(u, log)[m + 1] = log
          /\ \A j \in 1 .. m : Append(u, log)[j] = u[j]
      BY <1>2, <2>1
    <2>3. /\ Append(scopes, log)[ns + 1] = log
          /\ \A j \in 1 .. ns : Append(scopes, log)[j] = scopes[j]
      BY <1>2, <2>1
    <2>4. ASSUME NEW j \in 2 .. m + 1 PROVE Append(scopes, log)[c + j - 1] = Append(u, log)[j]
      <3>1. CASE j = m + 1
        <4>1. c + j - 1 = ns + 1
          BY <1>2, <1>4, <1>6, <3>1
        <4> QED BY <2>2, <2>3, <3>1, <4>1
      <3>2. CASE j # m + 1
        <4>1. j \in 2 .. m /\ j \in 1 .. m /\ c + j - 1 \in 1 .. ns
          BY <1>2, <1>4, <1>6, <3>2
        <4> QED BY <1>5, <2>2, <2>3, <4>1 DEF u
      <3> QED BY <3>1, <3>2
    <2> QED BY <1>6, <2>2, <2>4 DEF Undoes, u
  <1>7. ASSUME m > 1, NEW f, f.scopes = c, f.undo = Front(E.undo)
        PROVE  Undoes(f, Front(scopes)) /\ scopes[ns] = E.undo[m]
    <2> DEFINE u == E.undo
    <2>1. /\ u \in Seq(Logs) /\ Len(u) = m /\ scopes \in Seq(Logs) /\ Len(scopes) = ns
      BY <1>2
    <2> HIDE DEF m, ns, c, u
    <2>2. ns = c + (m - 1) /\ m > 1 /\ m \in Nat /\ c \in Nat
      BY <1>2, <1>4, <1>7
    <2>3. Len(Front(u)) = m - 1 /\ \A j \in 1 .. m - 1 : Front(u)[j] = u[j]
      BY <2>1, <2>2, FrontFacts
    <2>6. ns > 0 /\ ns \in Nat
      BY <2>2
    <2>4. \A j \in 1 .. ns - 1 : Front(scopes)[j] = scopes[j]
      BY <2>1, <2>6, FrontFacts
    <2>5. ASSUME NEW j \in 2 .. m - 1 PROVE Front(scopes)[c + j - 1] = Front(u)[j]
      <3>1. j \in 2 .. m /\ j \in 1 .. m - 1 /\ c + j - 1 \in 1 .. ns - 1
        BY <2>2
      <3> QED BY <1>5, <2>3, <2>4, <3>1 DEF u
    <2>7. scopes[ns] = u[m]
      <3>1. m \in 2 .. m /\ c + m - 1 = ns
        BY <2>2
      <3> QED BY <1>5, <3>1 DEF u
    <2> QED BY <1>7, <2>3, <2>5, <2>7 DEF Undoes, u
  <1>8. \A f : f.scopes = c /\ f.undo = E.undo => Undoes(f, scopes)
    BY <1>1 DEF Undoes
  <1>9. \A f \in Engines : \A sc : Len(f.undo) < 2 => Undoes(f, sc)
    <2>1. ASSUME NEW f \in Engines, NEW sc, Len(f.undo) < 2 PROVE Undoes(f, sc)
      <3> DEFINE n == Len(f.undo)
      <3>1. f.undo \in Seq(Logs)
        BY DEF Engines
      <3>2. n \in Nat /\ n < 2
        BY <2>1, <3>1
      <3> HIDE DEF n
      <3>3. \A j \in 2 .. n : FALSE
        BY <3>2
      <3> QED BY <3>3 DEF Undoes, n
    <2> QED BY <2>1
  <1> QED BY <1>1, <1>2, <1>6, <1>7, <1>8, <1>9

LEMMA BegunShape ==
    ASSUME NEW e \in Engines, NEW w \in Logs
    PROVE  LET f == [e EXCEPT !.path = (IF e.scope = "definition" THEN e.base ELSE @) \o w,
                              !.undo = Append(@, e.path)]
           IN  /\ Kin(e, f) /\ f.cand = e.cand /\ f.pat = e.pat /\ f.scope = e.scope /\ f.at = e.at
               /\ f.deaf = e.deaf /\ f.won = e.won /\ f.from = e.from
               /\ f.path = (IF e.scope = "definition" THEN e.base ELSE e.path) \o w
               /\ f.undo = Append(e.undo, e.path)
  <1> DEFINE x == (IF e.scope = "definition" THEN e.base ELSE e.path) \o w
             u == Append(e.undo, e.path)
             start == [e EXCEPT !.path = x]
             f == [start EXCEPT !.undo = u]
  <1>1. e.base \in Logs /\ e.path \in Logs /\ e.undo \in Seq(Logs)
    BY DEF Engines
  <1>2. x \in Logs /\ u \in Seq(Logs)
    BY <1>1 DEF Logs
  <1>3. [e EXCEPT !.path = (IF e.scope = "definition" THEN e.base ELSE @) \o w,
                  !.undo = Append(@, e.path)] = f
    BY DEF Engines
  <1>4. x = (IF e.scope = "definition" THEN e.base ELSE e.path) \o w /\ u = Append(e.undo, e.path)
    OBVIOUS
  <1> HIDE DEF x, u
  <1>5. start \in Engines
    BY <1>2 DEF Engines
  <1>6. /\ Kin(e, start) /\ start.cand = e.cand /\ start.pat = e.pat /\ start.scope = e.scope
        /\ start.at = e.at /\ start.deaf = e.deaf /\ start.won = e.won /\ start.from = e.from
        /\ start.path = x
    BY <1>2, <1>5 DEF Kin, Engines
  <1> HIDE DEF start
  <1>7. f \in Engines
    BY <1>2, <1>5 DEF Engines
  <1>8. /\ Kin(start, f) /\ f.cand = start.cand /\ f.pat = start.pat /\ f.scope = start.scope
        /\ f.at = start.at /\ f.deaf = start.deaf /\ f.won = start.won /\ f.from = start.from
        /\ f.path = start.path /\ f.undo = u
    BY <1>2, <1>5, <1>7 DEF Kin, Engines
  <1> HIDE DEF f
  <1>9. /\ Kin(e, f) /\ f.cand = e.cand /\ f.pat = e.pat /\ f.scope = e.scope /\ f.at = e.at
        /\ f.deaf = e.deaf /\ f.won = e.won /\ f.from = e.from /\ f.path = x /\ f.undo = u
    BY <1>6, <1>8 DEF Kin
  <1> QED BY <1>3, <1>4, <1>9

(* The walk through a pattern begins.                                      *)
LEMMA GoingShape ==
    ASSUME NEW e \in Engines, NEW fr \in Frames
    PROVE  LET f == [e EXCEPT !.at = "walk", !.walk = <<fr>>] IN
           /\ f \in Engines /\ f.base = e.base /\ f.scopes = e.scopes /\ f.branches = e.branches
           /\ f.undo = e.undo /\ f.deaf = e.deaf /\ f.finals = e.finals /\ f.walk = <<fr>>
           /\ f.at = "walk" /\ f.path = e.path
  <1> DEFINE wk == <<fr>>
             ready == [e EXCEPT !.at = "walk"]
             f == [ready EXCEPT !.walk = wk]
  <1>1. wk \in Seq(Frames) /\ [e EXCEPT !.at = "walk", !.walk = <<fr>>] = f
    BY DEF Engines
  <1> HIDE DEF wk
  <1>2. ready \in Engines
    BY DEF Engines
  <1>3. /\ ready.base = e.base /\ ready.scopes = e.scopes /\ ready.branches = e.branches
        /\ ready.undo = e.undo /\ ready.deaf = e.deaf /\ ready.finals = e.finals
        /\ ready.at = "walk" /\ ready.path = e.path
    BY <1>2 DEF Engines
  <1> HIDE DEF ready
  <1>4. f \in Engines
    BY <1>1, <1>2 DEF Engines
  <1>5. /\ f.base = ready.base /\ f.scopes = ready.scopes /\ f.branches = ready.branches
        /\ f.undo = ready.undo /\ f.deaf = ready.deaf /\ f.finals = ready.finals
        /\ f.at = ready.at /\ f.path = ready.path /\ f.walk = wk
    BY <1>1, <1>2, <1>4 DEF Engines
  <1> HIDE DEF f
  <1> QED BY <1>1, <1>3, <1>4, <1>5 DEF wk

LEMMA StartShape ==
    ASSUME Sound, Running, NEW e \in Engines, Room(e, Depth)
    PROVE  /\ Start(e) \in SeqFrames /\ Start(e) \in Frames /\ Start(e).kind = "seq"
           /\ Start(e).agenda = <<[s |-> [at |-> 0, path |-> e.path], i |-> 1]>>
           /\ Start(e).found = <<>>
  <1>1. Depth \in 1 .. Len(Patterns) /\ e.path \in Logs /\ 1 \in Count
    BY TopFacts DEF Engines, Count
  <1>2. e.cand \in Count /\ e.pat \in Count
    BY DEF Engines
  <1>3. Len(Patterns[Depth]) \in Nat
    BY <1>1, Patterned
  <1>4. e.cand \in 1 .. Len(Patterns[Depth])
    BY <1>2, <1>3 DEF Room, Count
  <1>5. PatternsOf(e) \in Seq(Seq(Elements)) /\ PatternsOf(e) = Patterns[Depth][e.cand]
    BY <1>1, <1>4, Patterned DEF PatternsOf
  <1>6. e.pat \in 1 .. Len(PatternsOf(e))
    BY <1>2, <1>5 DEF Room, Count
  <1>7. PatternsOf(e)[e.pat] \in Seq(Elements)
    BY <1>5, <1>6
  <1>8. <<[s |-> [at |-> 0, path |-> e.path], i |-> 1]>> \in Seq(Items)
    BY <1>1 DEF Items, States
  <1> QED BY <1>7, <1>8 DEF Start, SeqFrames, Frames

LEMMA BeforeScopeTrace ==
    ASSUME Sound, Tracing, NEW d, NEW w, BeforeScope(d, w)
    PROVE  Tracing'
  <1> DEFINE begun == [E EXCEPT !.path = (IF E.scope = "definition" THEN E.base ELSE @) \o w,
                                !.undo = Append(@, E.path)]
             f == CASE d = "fail"  -> Closes([begun EXCEPT !.val = 0], E.scope, FALSE)
                    [] d = "match" -> Synthesize(begun, "before")
                    [] OTHER -> IF E.scope = "pattern"
                         THEN [begun EXCEPT !.at = "walk", !.walk = <<Start(begun)>>]
                         ELSE Opens(begun, IF E.scope = "definition" THEN "registration"
                                           ELSE "pattern")
  <1>1. /\ Running /\ E.at = "before" /\ result' = result /\ branches' = branches
        /\ log' = (IF E.scope = "definition" THEN E.base ELSE log) \o w
        /\ scopes' = IF E.scope = "definition" THEN scopes ELSE Append(scopes, log)
        /\ engines' = [engines EXCEPT ![Depth] = f]
    BY DEF BeforeScope, At, Put
  <1>2. /\ w \in WritesAt(works) /\ w \in Logs /\ works' \in Nat /\ works' >= works
    BY HookFacts DEF BeforeScope
  <1>3. /\ E \in Engines /\ Room(E, Depth) /\ E.walk = <<>> /\ E.finals = <<>>
        /\ E.undo \in Seq(Logs) /\ Len(E.undo) = Opened(E) /\ E.path \in Logs /\ E.base \in Logs
    BY <1>1, CalmFacts
  <1>4. Traced(E, log, scopes, branches)
    BY <1>1, TraceFacts
  <1>5. ~E.deaf /\ (E.scope # "definition" => log = E.path)
    BY <1>1, <1>4 DEF Traced, Following
  <1>6. /\ Kin(E, begun) /\ begun.cand = E.cand /\ begun.pat = E.pat /\ begun.scope = E.scope
        /\ begun.deaf = E.deaf /\ begun.at = E.at
        /\ begun.path = (IF E.scope = "definition" THEN E.base ELSE E.path) \o w
        /\ begun.undo = Append(E.undo, E.path)
    BY <1>2, <1>3, BegunShape
  <1> HIDE DEF begun
  <1>7. /\ begun \in Engines /\ Room(begun, Depth) /\ log' = begun.path /\ ~begun.deaf
        /\ begun.base = E.base /\ begun.scopes = E.scopes /\ begun.branches = E.branches
        /\ begun.walk = <<>> /\ begun.finals = <<>>
    BY <1>1, <1>3, <1>5, <1>6 DEF Kin, Room
  <1>8. Undoes(begun, scopes')
    <2>1. CASE E.scope = "definition"
      <3>1. Len(E.undo) = 0
        BY <1>1, <1>3, <2>1 DEF Opened, Level
      <3>2. Len(begun.undo) < 2
        BY <1>3, <1>6, <3>1
      <3> QED BY <1>1, <1>7, <3>2, UndoMoves
    <2>2. CASE E.scope # "definition"
      <3>1. Len(E.undo) > 0
        BY <1>1, <1>3, <2>2 DEF Opened, Level
      <3> QED BY <1>1, <1>5, <1>6, <1>7, <2>2, <3>1, UndoMoves
    <2> QED BY <2>1, <2>2
  <1>9. \E k : ScopesFit(k)
    BY <1>1, <1>2, ScopesMove
  <1> DEFINE Same(x) == /\ x \in Engines /\ x.base = begun.base /\ x.scopes = begun.scopes
                        /\ x.branches = begun.branches /\ x.undo = begun.undo /\ x.deaf = begun.deaf
                        /\ x.path = begun.path /\ x.walk = <<>> /\ x.finals = <<>>
  <1>10. ASSUME Same(f) PROVE Tracing'
    <2>1. /\ f \in Engines /\ f.base = E.base /\ f.scopes = E.scopes /\ f.branches = E.branches
          /\ f.walk = <<>> /\ f.finals = <<>> /\ ~f.deaf /\ log' = f.path
      BY <1>7, <1>10
    <2>2. Undoes(f, scopes')
      BY <1>8, <1>10 DEF Undoes
    <2>3. engines' = [engines EXCEPT ![Depth] = f]
      BY <1>1
    <2> HIDE DEF f, Same
    <2> QED BY <1>1, <1>9, <2>1, <2>2, <2>3, CalmTrace
  <1>11. CASE d = "fail"
    <2> DEFINE b == [begun EXCEPT !.val = 0]
    <2>1. b \in Engines
      BY <1>7 DEF Engines
    <2>2. /\ b.base = begun.base /\ b.scopes = begun.scopes /\ b.branches = begun.branches
          /\ b.undo = begun.undo /\ b.deaf = begun.deaf /\ b.path = begun.path
          /\ b.walk = begun.walk /\ b.finals = begun.finals
      BY <1>7, <2>1 DEF Engines
    <2>3. f = Closes(b, E.scope, FALSE) /\ E.scope \in ScopeNames
      BY <1>3, <1>11, Names
    <2> HIDE DEF b, f
    <2>4. LET g == Closes(b, E.scope, FALSE) IN
          Kin(b, g) /\ g.path = b.path /\ g.undo = b.undo /\ g.deaf = b.deaf
      BY <2>1, <2>3, ClosesShape
    <2>5. Same(f)
      BY <1>7, <2>2, <2>3, <2>4 DEF Kin
    <2> QED BY <1>10, <2>5
  <1>12. CASE d = "match"
    <2>1. f = Synthesize(begun, "before")
      BY <1>12
    <2> HIDE DEF f
    <2>2. LET g == Synthesize(begun, "before") IN
          Kin(begun, g) /\ g.path = begun.path /\ g.undo = begun.undo /\ g.deaf = begun.deaf
      BY <1>1, <1>7, SynthesizeShape
    <2>3. Same(f)
      BY <1>7, <2>1, <2>2 DEF Kin
    <2> QED BY <1>10, <2>3
  <1>13. CASE d # "fail" /\ d # "match" /\ E.scope # "pattern"
    <2> DEFINE next == IF E.scope = "definition" THEN "registration" ELSE "pattern"
    <2>1. f = Opens(begun, next) /\ next \in ScopeNames
      BY <1>13, Names
    <2> HIDE DEF f, next
    <2>2. LET g == Opens(begun, next) IN
          Kin(begun, g) /\ g.path = begun.path /\ g.undo = begun.undo /\ g.deaf = begun.deaf
      BY <1>7, <2>1, OpensShape
    <2>3. Same(f)
      BY <1>7, <2>1, <2>2 DEF Kin
    <2> QED BY <1>10, <2>3
  <1>14. CASE d # "fail" /\ d # "match" /\ E.scope = "pattern"
    <2> DEFINE s == Start(begun)
    <2>1. /\ s \in Frames /\ s.kind = "seq" /\ s.found = <<>>
          /\ s.agenda = <<[s |-> [at |-> 0, path |-> begun.path], i |-> 1]>>
      BY <1>1, <1>7, StartShape
    <2>2. f = [begun EXCEPT !.at = "walk", !.walk = <<s>>]
      BY <1>14
    <2> HIDE DEF f, s
    <2>3. /\ f.base = begun.base /\ f.scopes = begun.scopes /\ f.branches = begun.branches
          /\ f.undo = begun.undo /\ f.deaf = begun.deaf /\ f.finals = begun.finals
          /\ f.walk = <<s>> /\ f.at = "walk"
      BY <1>7, <2>1, <2>2, GoingShape
    <2>4. \A x \in FrameStates(s) : x.at = 0 /\ x.path = begun.path
      BY <2>1 DEF FrameStates, Range
    <2>5. \A x \in StatesOf(f) : x.at = 0
      <3>1. \A x \in StatesOf(f) : x \in FrameStates(s)
        BY <1>7, <2>3, StatesParts
      <3> QED BY <2>4, <3>1
    <2>6. Rooted(f.walk, log')
      <3>1. Alone(s)
        BY <2>1 DEF Alone
      <3> QED BY <1>7, <2>3, <2>4, <3>1 DEF Rooted
    <2>7. ~Asking(f) /\ ~Following(f) /\ Undoes(f, scopes')
      BY <1>8, <2>1, <2>3 DEF Asking, Following, Undoes, Last
    <2>8. Traced(f, log', scopes', branches')
      BY <1>7, <2>3, <2>5, <2>6, <2>7 DEF Traced
    <2>9. \A j \in 1 .. E.scopes : scopes'[j] = scopes[j]
      BY <1>9 DEF ScopesFit, FitFor
    <2> QED BY <1>1, <1>7, <2>3, <2>8, <2>9, TopTrace
  <1> QED BY <1>11, <1>12, <1>13, <1>14

LEMMA AfterScopeTrace ==
    ASSUME Sound, Tracing, NEW d, NEW w, AfterScope(d, w)
    PROVE  Tracing'
  <1> DEFINE c == Closed(E, d, w)
             outer == IF E.scope = "pattern" THEN "registration" ELSE "definition"
             f == IF Adopts(E, d)
                  THEN IF E.won THEN Closes(c, outer, TRUE) ELSE Synthesize(c, "after")
                  ELSE IF E.scope = "pattern" THEN NextPattern(c)
                  ELSE Closes(c, "definition", FALSE)
  <1>1. /\ Running /\ E.at = "after" /\ E.scope # "definition" /\ result' = result
        /\ branches' = branches /\ scopes' = Front(scopes)
        /\ log' = IF HookAccepts(E.won, d) THEN log \o w ELSE scopes[Len(scopes)]
        /\ engines' = [engines EXCEPT ![Depth] = f]
    BY DEF AfterScope, At, Put
  <1>2. w \in WritesAt(works) /\ w \in Logs /\ works' \in Nat /\ works' >= works
    BY HookFacts DEF AfterScope
  <1>3. /\ E \in Engines /\ Room(E, Depth) /\ E.walk = <<>> /\ E.finals = <<>>
        /\ E.undo \in Seq(Logs) /\ Len(E.undo) = Opened(E)
    BY <1>1, CalmFacts
  <1>4. E.scope \in {"registration", "pattern"}
    BY <1>1, <1>3, Names DEF ScopeNames
  <1>5. Len(E.undo) > 1 /\ Inside(E) = Level(E.scope) - 1 /\ Level(E.scope) \in {2, 3}
    BY <1>1, <1>3, <1>4 DEF Opened, Level, Inside
  <1>6. ScopesFit(Level(E.scope) - 2)
    BY <1>1, <1>2, <1>5, ScopesMove
  <1>7. Traced(E, log, scopes, branches)
    BY <1>1, TraceFacts
  <1>8. (E.won => log = E.path /\ ~E.deaf) /\ (E.deaf => E.scope # "pattern")
    BY <1>1, <1>7 DEF Traced, Following
  <1>9. /\ c \in Engines /\ Kin(E, c) /\ c.cand = E.cand /\ c.pat = E.pat /\ c.scope = E.scope
        /\ c.undo = Front(E.undo) /\ c.deaf = E.deaf
        /\ c.path = IF Overrides(E, d) THEN log \o w
                    ELSE IF Adopts(E, d) THEN E.path \o w ELSE E.undo[Len(E.undo)]
    <2>1. log \in Logs /\ Len(E.undo) > 0
      BY <1>5 DEF Sound
    <2> QED BY <1>2, <1>3, <2>1, ClosedShape DEF Kin
  <1>10. Room(c, Depth)
    BY <1>3, <1>9 DEF Room
  <1> HIDE DEF c
  <1>11. c.scopes = E.scopes /\ Undoes(c, scopes') /\ scopes[Len(scopes)] = E.undo[Len(E.undo)]
    BY <1>1, <1>5, <1>9, UndoMoves DEF Kin
  <1>12. ASSUME f \in Engines, Kin(c, f), f.undo = c.undo, Following(f) => log' = f.path,
                f.deaf => f.at = "after" /\ f.scope # "pattern" /\ ~f.won
         PROVE  Tracing'
    <2>1. engines' = [engines EXCEPT ![Depth] = f]
      BY <1>1
    <2> HIDE DEF f
    <2>2. /\ f.base = E.base /\ f.scopes = E.scopes /\ f.branches = E.branches
          /\ f.walk = <<>> /\ f.finals = <<>>
      BY <1>3, <1>9, <1>12 DEF Kin
    <2>3. Undoes(f, scopes')
      BY <1>11, <1>12, <2>2 DEF Undoes
    <2> QED BY <1>1, <1>6, <1>12, <2>1, <2>2, <2>3, CalmTrace
  <1>13. CASE Adopts(E, d) /\ E.won
    <2>1. f = Closes(c, outer, TRUE) /\ outer \in ScopeNames
      BY <1>13, Names
    <2>2. log' = c.path
      BY <1>1, <1>8, <1>9, <1>13 DEF Adopts, Overrides, HookAccepts
    <2> HIDE DEF f, outer
    <2>3. LET g == Closes(c, outer, TRUE) IN
          /\ Kin(c, g) /\ g.path = c.path /\ g.undo = c.undo /\ g.deaf = c.deaf
      BY <1>9, <2>1, ClosesShape
    <2> QED BY <1>8, <1>9, <1>12, <1>13, <2>1, <2>2, <2>3 DEF Kin
  <1>14. CASE Adopts(E, d) /\ ~E.won
    <2>1. f = Synthesize(c, "after")
      BY <1>14
    <2>2. log' = c.path /\ ~E.deaf
      BY <1>1, <1>9, <1>14 DEF Adopts, Overrides, HookAccepts
    <2> HIDE DEF f
    <2>3. LET g == Synthesize(c, "after") IN
          /\ Kin(c, g) /\ g.path = c.path /\ g.undo = c.undo /\ g.deaf = c.deaf
      BY <1>1, <1>9, <1>10, SynthesizeShape
    <2> QED BY <1>9, <1>12, <2>1, <2>2, <2>3 DEF Kin
  <1>15. CASE ~Adopts(E, d) /\ E.scope = "pattern"
    <2>1. f = NextPattern(c)
      BY <1>15
    <2>2. ~E.deaf
      BY <1>8, <1>15
    <2>4. log' = c.path
      <3>1. HookAccepts(E.won, d) <=> Overrides(E, d)
        BY <1>15, <2>2 DEF Adopts, Overrides, HookAccepts
      <3> QED BY <1>1, <1>9, <1>11, <1>15, <3>1
    <2> HIDE DEF f
    <2>3. LET g == NextPattern(c) IN
          /\ Kin(c, g) /\ g.path = c.path /\ g.undo = c.undo /\ g.deaf = c.deaf
      BY <1>1, <1>9, <1>10, NextPatternShape
    <2> QED BY <1>9, <1>12, <2>1, <2>2, <2>3, <2>4 DEF Kin
  <1>16. CASE ~Adopts(E, d) /\ E.scope # "pattern"
    <2>1. f = Closes(c, "definition", FALSE) /\ "definition" \in ScopeNames
      BY <1>16, Names
    <2> HIDE DEF f
    <2>2. LET g == Closes(c, "definition", FALSE) IN
          /\ Kin(c, g) /\ g.undo = c.undo /\ g.at = "after" /\ g.scope = "definition"
          /\ g.won = FALSE
      BY <1>9, <2>1, ClosesShape
    <2>3. ~Following(f) /\ f.at = "after" /\ f.scope # "pattern" /\ ~f.won
      BY <2>1, <2>2 DEF Following
    <2> QED BY <1>12, <2>1, <2>2, <2>3 DEF Kin
  <1> QED BY <1>13, <1>14, <1>15, <1>16

LEMMA AfterDefinitionTrace ==
    ASSUME Sound, Tracing, NEW d, NEW w, AfterDefinition(d, w)
    PROVE  Tracing'
  <1> DEFINE now == log \o w
             accepted == IF E.won THEN d \in {"continue", "match"} ELSE d = "match"
             selected == Selection(E, now, accepted)
             c == Closed(E, d, w)
             first == accepted /\ E.selected = {}
             p == [c EXCEPT !.selected = selected, !.chosen = IF first THEN E.cand ELSE @]
             keep == Adopts(E, d) /\ (E.won \/ E.val # 0)
             f == IF keep THEN Matched(p, {now})
                  ELSE IF Adopts(E, d) THEN Synthesize(p, "after")
                  ELSE NextCandidate(p)
  <1>1. /\ Running /\ E.at = "after" /\ E.scope = "definition" /\ result' = result
        /\ branches' = branches /\ scopes' = scopes
        /\ engines' = [engines EXCEPT ![Depth] = f]
    BY DEF AfterDefinition, At, Put
  <1>2. /\ w \in WritesAt(works) /\ w \in Logs /\ works' = works + Len(w)
        /\ works' \in Nat /\ works' >= works
    BY HookFacts DEF AfterDefinition
  <1>3. /\ E \in Engines /\ Room(E, Depth) /\ E.walk = <<>> /\ E.finals = <<>>
        /\ E.undo \in Seq(Logs) /\ Len(E.undo) = Opened(E)
    BY <1>1, CalmFacts
  <1>4. Len(E.undo) = 1 /\ Inside(E) = 0
    BY <1>1, <1>3 DEF Opened, Level, Inside
  <1>5. ScopesFit(0)
    BY <1>1, <1>2, <1>4, ScopesMove
  <1>6. now \in Logs /\ E.selected \subseteq Logs
    <2>1. log \o w \in LogsFrom(E.base, works') /\ LogsFrom(E.base, works') \subseteq Logs
      BY <1>1, <1>2, LogFacts
    <2> QED BY <1>3, <2>1 DEF Engines
  <1>7. /\ c \in Engines /\ Kin(E, c) /\ c.cand = E.cand /\ c.pat = E.pat /\ c.scope = E.scope
        /\ c.deaf = E.deaf /\ Len(c.undo) = 0
    <2>1. log \in Logs /\ Len(E.undo) > 0
      BY <1>4 DEF Sound
    <2>2. LET g == Closed(E, d, w) IN
          /\ Kin(E, g) /\ g.cand = E.cand /\ g.pat = E.pat /\ g.scope = E.scope
          /\ g.deaf = E.deaf /\ Len(g.undo) = Len(E.undo) - 1
      BY <1>2, <1>3, <2>1, ClosedShape
    <2> QED BY <1>4, <2>2 DEF Kin
  <1>8. selected \subseteq Logs
    BY <1>6 DEF Selection
  <1> HIDE DEF c, now, selected, first
  <1>9. p \in Engines
    <2>1. E.cand \in Nat
      BY <1>3 DEF Engines, Count
    <2> QED BY <1>7, <1>8, <2>1 DEF Engines
  <1>10. /\ p.base = E.base /\ p.scopes = E.scopes /\ p.branches = E.branches
         /\ p.walk = <<>> /\ p.finals = <<>> /\ p.cand = E.cand /\ p.pat = E.pat
         /\ p.undo = c.undo /\ p.scope = E.scope /\ p.deaf = E.deaf
    BY <1>3, <1>7, <1>9 DEF Kin, Engines
  <1>11. Room(p, Depth) /\ {now} \in SUBSET Logs
    BY <1>3, <1>6, <1>10 DEF Room
  <1> HIDE DEF p, keep
  <1>12. /\ f \in Engines /\ f.base = p.base /\ f.scopes = p.scopes /\ f.branches = p.branches
         /\ f.walk = p.walk /\ f.finals = p.finals /\ ~f.deaf /\ ~Following(f) /\ Len(f.undo) = 0
    <2>1. CASE keep
      <3>1. f = Matched(p, {now})
        BY <2>1
      <3> HIDE DEF f
      <3>2. LET g == Matched(p, {now}) IN
            /\ g \in Engines /\ g.base = p.base /\ g.scopes = p.scopes
            /\ g.branches = p.branches /\ g.walk = p.walk /\ g.finals = p.finals
            /\ g.undo = <<>> /\ ~g.won /\ ~g.deaf
            /\ \/ g.at = "before" /\ g.scope = "definition"
               \/ g.at = "finish"
        BY <1>1, <1>9, <1>11, MatchedShape
      <3> QED BY <3>1, <3>2 DEF Following
    <2>2. CASE ~keep /\ Adopts(E, d)
      <3>1. f = Synthesize(p, "after")
        BY <2>2
      <3>3. ~E.deaf
        <4>1. ~E.won
          BY <2>2 DEF keep
        <4> QED BY <2>2, <4>1 DEF Adopts
      <3> HIDE DEF f
      <3>2. LET g == Synthesize(p, "after") IN
            /\ Kin(p, g) /\ g.undo = p.undo /\ g.deaf = p.deaf
            /\ g.at = "synthesize" /\ g.scope = p.scope /\ g.from = "after"
        BY <1>1, <1>9, <1>11, SynthesizeShape
      <3> QED BY <1>1, <1>7, <1>10, <3>1, <3>2, <3>3 DEF Kin, Following, Overridden
    <2>3. CASE ~keep /\ ~Adopts(E, d)
      <3>1. f = NextCandidate(p)
        BY <2>3
      <3> HIDE DEF f
      <3>2. LET g == NextCandidate(p) IN
            /\ Kin(p, g) /\ g.undo = <<>> /\ ~g.won /\ ~g.deaf
            /\ \/ g.at = "before" /\ g.scope = "definition"
               \/ g.at = "finish"
        BY <1>1, <1>9, <1>11, NextCandidateShape
      <3> QED BY <3>1, <3>2 DEF Kin, Following
    <2> QED BY <2>1, <2>2, <2>3
  <1> HIDE DEF f
  <1>13. Undoes(f, scopes')
    BY <1>1, <1>12, UndoMoves
  <1>14. /\ f.base = E.base /\ f.scopes = E.scopes /\ f.branches = E.branches
         /\ f.walk = <<>> /\ f.finals = <<>>
    BY <1>10, <1>12
  <1> QED BY <1>1, <1>5, <1>12, <1>13, <1>14, CalmTrace

LEMMA SyntheticTrace ==
    ASSUME Sound, Tracing, NEW completes \in BOOLEAN, NEW w, Synthetic(completes, w)
    PROVE  Tracing'
  <1> DEFINE done == [E EXCEPT !.val = Head(E.synth), !.synth = <<>>, !.path = @ \o w]
             none == [E EXCEPT !.synth = Tail(@)]
             deaf == [none EXCEPT !.deaf = TRUE]
             here == [done EXCEPT !.path = E.path]
             outer == IF E.scope = "pattern" THEN "registration" ELSE "definition"
             f == CASE completes /\ E.from = "before" -> Closes(done, E.scope, TRUE)
                    [] completes /\ E.from = "after" ->
                         IF E.scope = "definition" THEN Matched(here, last) ELSE Closes(done, outer, TRUE)
                    [] OTHER ->
                         IF none.synth # <<>> THEN none
                         ELSE IF E.scope = "pattern"
                         THEN IF E.from = "before" THEN Closes(none, "pattern", FALSE)
                              ELSE NextPattern(none)
                         ELSE IF E.from = "before" THEN Closes(deaf, E.scope, FALSE)
                         ELSE IF E.scope = "registration" THEN Closes(deaf, "definition", FALSE)
                         ELSE NextCandidate(none)
  <1>1. /\ Running /\ E.at = "synthesize" /\ result' = result /\ branches' = branches
        /\ scopes' = scopes /\ log' = log \o w /\ (completes \/ w = <<>>)
        /\ engines' = [engines EXCEPT ![Depth] = f]
    BY DEF Synthetic, At, Put
  <1>2. /\ w \in WritesAt(works) /\ works' = works + Len(w) /\ w \in Logs
        /\ works' \in Nat /\ works' >= works
    BY <1>1, WriteFacts DEF Synthetic, Sound
  <1>3. /\ E \in Engines /\ Room(E, Depth) /\ E.walk = <<>> /\ E.finals = <<>>
        /\ E.undo \in Seq(Logs) /\ Len(E.undo) = Opened(E) /\ E.synth # <<>>
    BY <1>1, CalmFacts
  <1>4. E.scope \in ScopeNames /\ E.from \in {"before", "after"}
    BY <1>3, Names DEF Engines
  <1>5. /\ Kin(E, done) /\ done.cand = E.cand /\ done.pat = E.pat /\ done.scope = E.scope
        /\ done.undo = E.undo /\ done.path = E.path \o w /\ done.deaf = E.deaf
        /\ Kin(E, none) /\ none.cand = E.cand /\ none.pat = E.pat /\ none.scope = E.scope
        /\ none.at = E.at /\ none.undo = E.undo /\ none.from = E.from /\ none.path = E.path
        /\ none.deaf = E.deaf
        /\ Kin(E, deaf) /\ deaf.cand = E.cand /\ deaf.pat = E.pat /\ deaf.undo = E.undo
    BY <1>2, <1>3, SynthShape
  <1> HIDE DEF done, none, deaf
  <1>18. Kin(E, here) /\ here.cand = E.cand /\ here.pat = E.pat
    BY <1>3, <1>5, HereShape
  <1> HIDE DEF here
  <1>6. /\ Room(done, Depth) /\ Room(none, Depth) /\ Room(deaf, Depth) /\ Room(here, Depth)
        /\ done \in Engines /\ none \in Engines /\ deaf \in Engines /\ here \in Engines
    BY <1>3, <1>5, <1>18 DEF Room, Kin
  <1>7. Traced(E, log, scopes, branches)
    BY <1>1, TraceFacts
  <1>8. ~E.deaf /\ (~Overridden(E) => log = E.path)
    BY <1>1, <1>7 DEF Traced, Following
  <1>9. ScopesFit(Inside(E))
    BY <1>1, <1>2, ScopesMove
  <1>16. last \in SUBSET Logs \/ ~Overridden(E)
    <2>1. Overridden(E) => last \subseteq LogsFrom(E.base, works)
      BY <1>1 DEF Sound
    <2> QED BY <2>1 DEF LogsFrom
  <1>17. ~completes => log' = log
    <2>1. log \in Logs
      BY DEF Sound
    <2> QED BY <1>1, <2>1 DEF Logs
  <1>10. ASSUME f \in Engines, Kin(E, f), f.undo = E.undo \/ f.undo = <<>>,
                Following(f) => log' = f.path,
                f.deaf => f.at = "after" /\ f.scope # "pattern" /\ ~f.won
         PROVE  Tracing'
    <2>1. engines' = [engines EXCEPT ![Depth] = f]
      BY <1>1
    <2> HIDE DEF f
    <2>2. /\ f.base = E.base /\ f.scopes = E.scopes /\ f.branches = E.branches
          /\ f.walk = <<>> /\ f.finals = <<>>
      BY <1>3, <1>10 DEF Kin
    <2>3. Undoes(f, scopes')
      <3>1. CASE f.undo = E.undo
        BY <1>1, <2>2, <3>1, UndoMoves
      <3>2. CASE f.undo = <<>>
        <4>1. Len(f.undo) < 2
          BY <3>2
        <4> QED BY <1>1, <1>10, <4>1, UndoMoves
      <3> QED BY <1>10, <3>1, <3>2
    <2> QED BY <1>1, <1>9, <1>10, <2>1, <2>2, <2>3, CalmTrace
  <1>11. CASE completes /\ E.from = "after" /\ E.scope = "definition"
    <2>1. f = Matched(here, last) /\ Overridden(E)
      BY <1>1, <1>11 DEF Overridden
    <2>2. engines' = [engines EXCEPT ![Depth] = f]
      BY <1>1
    <2> HIDE DEF f
    <2>3. LET g == Matched(here, last) IN
          /\ g \in Engines /\ g.base = here.base /\ g.scopes = here.scopes
          /\ g.branches = here.branches /\ g.walk = here.walk /\ g.finals = here.finals
          /\ g.undo = <<>> /\ ~g.won /\ ~g.deaf
          /\ \/ g.at = "before" /\ g.scope = "definition"
             \/ g.at = "finish"
      BY <1>1, <1>6, <1>16, <2>1, MatchedShape
    <2>4. /\ f \in Engines /\ f.base = E.base /\ f.scopes = E.scopes /\ f.branches = E.branches
          /\ f.walk = <<>> /\ f.finals = <<>> /\ ~f.deaf /\ ~Following(f)
      BY <1>3, <1>18, <2>1, <2>3 DEF Kin, Following
    <2>5. Undoes(f, scopes')
      <3>1. Len(f.undo) < 2
        BY <2>1, <2>3
      <3> QED BY <1>1, <2>4, <3>1, UndoMoves
    <2> QED BY <1>1, <1>9, <2>2, <2>4, <2>5, CalmTrace
  <1>12. CASE completes /\ ~(E.from = "after" /\ E.scope = "definition")
    <2> DEFINE scope == IF E.from = "before" THEN E.scope ELSE outer
    <2>1. f = Closes(done, scope, TRUE) /\ scope \in ScopeNames
      BY <1>4, <1>12, Names
    <2>2. log' = done.path
      <3>1. ~Overridden(E)
        BY <1>4, <1>12 DEF Overridden
      <3> QED BY <1>1, <1>5, <1>8, <3>1
    <2> HIDE DEF f, scope
    <2>3. LET g == Closes(done, scope, TRUE) IN
          /\ Kin(done, g) /\ g.path = done.path /\ g.undo = done.undo /\ g.deaf = done.deaf
      BY <1>6, <2>1, ClosesShape
    <2> QED BY <1>5, <1>8, <1>10, <2>1, <2>2, <2>3 DEF Kin
  <1>13. CASE ~completes /\ none.synth # <<>>
    <2>1. f = none
      BY <1>13
    <2>2. Following(none) => log' = none.path
      BY <1>1, <1>5, <1>8, <1>13, <1>17 DEF Following, Overridden
    <2> HIDE DEF f
    <2> QED BY <1>5, <1>6, <1>8, <1>10, <2>1, <2>2
  <1>14. CASE ~completes /\ none.synth = <<>> /\ E.scope = "pattern"
    <2>1. f = IF E.from = "before" THEN Closes(none, "pattern", FALSE) ELSE NextPattern(none)
      BY <1>14
    <2>2. log' = none.path
      <3>1. ~Overridden(E)
        BY <1>14 DEF Overridden
      <3> QED BY <1>5, <1>8, <1>14, <1>17, <3>1
    <2>5. "pattern" \in ScopeNames
      BY Names
    <2> HIDE DEF f
    <2>3. LET g == Closes(none, "pattern", FALSE) IN
          /\ Kin(none, g) /\ g.path = none.path /\ g.undo = none.undo /\ g.deaf = none.deaf
      BY <1>6, <2>5, ClosesShape
    <2>4. LET g == NextPattern(none) IN
          /\ Kin(none, g) /\ g.path = none.path /\ g.undo = none.undo /\ g.deaf = none.deaf
      BY <1>1, <1>6, NextPatternShape
    <2> QED BY <1>5, <1>8, <1>10, <2>1, <2>2, <2>3, <2>4 DEF Kin
  <1>15. CASE ~completes /\ none.synth = <<>> /\ E.scope # "pattern"
    <2>1. CASE E.from = "after" /\ E.scope = "definition"
      <3>1. f = NextCandidate(none)
        BY <1>15, <2>1
      <3> HIDE DEF f
      <3>2. LET g == NextCandidate(none) IN
            /\ Kin(none, g) /\ g.undo = <<>> /\ ~g.won /\ ~g.deaf
            /\ \/ g.at = "before" /\ g.scope = "definition"
               \/ g.at = "finish"
        BY <1>1, <1>6, NextCandidateShape
      <3>3. ~Following(f)
        BY <3>1, <3>2 DEF Following
      <3> QED BY <1>5, <1>10, <3>1, <3>2, <3>3 DEF Kin
    <2>2. CASE ~(E.from = "after" /\ E.scope = "definition")
      <3> DEFINE scope == IF E.from = "before" THEN E.scope ELSE "definition"
      <3>1. f = Closes(deaf, scope, FALSE) /\ scope \in ScopeNames /\ scope # "pattern"
        BY <1>4, <1>15, <2>2, Names DEF ScopeNames
      <3> HIDE DEF f, scope
      <3>2. LET g == Closes(deaf, scope, FALSE) IN
            /\ Kin(deaf, g) /\ g.undo = deaf.undo /\ g.at = "after" /\ g.scope = scope
            /\ g.won = FALSE
        BY <1>6, <3>1, ClosesShape
      <3>3. ~Following(f) /\ f.at = "after" /\ f.scope # "pattern" /\ ~f.won
        BY <3>1, <3>2 DEF Following
      <3> QED BY <1>5, <1>10, <3>1, <3>2, <3>3 DEF Kin
    <2> QED BY <2>1, <2>2
  <1> QED BY <1>11, <1>12, <1>13, <1>14, <1>15

LEMMA FinalTraced ==
    ASSUME Sound, Tracing, Running, E.at = "complete"
    PROVE  /\ ~E.deaf /\ \A j \in DOMAIN E.finals :
                 Restore(E.finals[j]) = E.finals[j].path
                 /\ (E.finals[j].at = 0 => Len(E.finals) = 1)
                 /\ (E.finals[j].at # 0 => branches[E.finals[j].at] = E.finals[j].path)
  <1>1. Traced(E, log, scopes, branches)
    BY TraceFacts
  <1>2. \A j \in DOMAIN E.finals : E.finals[j] \in StatesOf(E)
    BY StatesParts
  <1>3. \A j \in DOMAIN E.finals : E.finals[j].at # 0 => branches[E.finals[j].at] = E.finals[j].path
    BY <1>1, <1>2 DEF Traced
  <1>4. \A j \in DOMAIN E.finals : E.finals[j].at = 0 => Len(E.finals) = 1 /\ log = E.finals[j].path
    BY <1>1 DEF Traced
  <1>5. ~E.deaf
    BY <1>1 DEF Traced
  <1> QED BY <1>3, <1>4, <1>5 DEF Restore

LEMMA SkipTrace ==
    ASSUME Sound, Tracing, Skip
    PROVE  Tracing'
  <1> DEFINE t == Tail(E.finals)
             f == [E EXCEPT !.finals = t]
  <1>1. /\ Running /\ E.at = "complete" /\ E.finals # <<>> /\ result' = result /\ branches' = branches
        /\ scopes' = scopes /\ engines' = [engines EXCEPT ![Depth] = f]
    BY DEF Skip, At, Put
  <1>2. /\ E \in Engines /\ E.walk = <<>> /\ E.finals \in Seq(States)
    BY <1>1, CompleteFacts
  <1>3. /\ t \in Seq(States) /\ Len(E.finals) \in Nat /\ Len(t) = Len(E.finals) - 1
        /\ \A k \in DOMAIN t : k + 1 \in DOMAIN E.finals /\ t[k] = E.finals[k + 1]
    BY <1>1, <1>2, TailFacts
  <1> HIDE DEF t
  <1>4. f \in Engines
    BY <1>2, <1>3 DEF Engines
  <1>5. /\ f.base = E.base /\ f.scopes = E.scopes /\ f.branches = E.branches /\ f.walk = <<>>
        /\ f.finals = t /\ f.at = "complete" /\ f.undo = E.undo /\ f.deaf = E.deaf
    BY <1>1, <1>2, <1>4 DEF Engines
  <1> HIDE DEF f
  <1>6. /\ ~E.deaf /\ \A j \in DOMAIN E.finals :
              (E.finals[j].at = 0 => Len(E.finals) = 1)
              /\ (E.finals[j].at # 0 => branches[E.finals[j].at] = E.finals[j].path)
    BY <1>1, FinalTraced
  <1>7. \A k \in DOMAIN t : t[k].at # 0
    <2>1. ASSUME NEW k \in DOMAIN t, t[k].at = 0 PROVE FALSE
      <3>1. Len(E.finals) = 1
        BY <1>3, <1>6, <2>1
      <3>2. Len(t) = 0
        BY <1>3, <3>1
      <3> QED BY <1>3, <3>2
    <2> QED BY <2>1
  <1>8. \A s \in StatesOf(f) : s.at # 0 => branches'[s.at] = s.path
    <2>1. \A s \in StatesOf(f) : \E k \in DOMAIN t : s = t[k]
      BY <1>5, StatesParts
    <2> QED BY <1>1, <1>3, <1>6, <2>1
  <1>9. Undoes(f, scopes')
    BY <1>1, <1>5, UndoMoves
  <1>10. ~Following(f) /\ ~Asking(f) /\ Rooted(f.walk, log')
    BY <1>5 DEF Following, Asking, Rooted
  <1>11. Traced(f, log', scopes', branches')
    BY <1>5, <1>6, <1>7, <1>8, <1>9, <1>10 DEF Traced
  <1> QED BY <1>1, <1>5, <1>11, TopTrace

LEMMA IncompleteTrace ==
    ASSUME Sound, Tracing, Incomplete
    PROVE  Tracing'
  <1> DEFINE f == Closes(E, "pattern", FALSE)
  <1>1. /\ Running /\ E.at = "complete" /\ E.finals = <<>> /\ result' = result /\ branches' = branches
        /\ scopes' = scopes /\ works' = works /\ engines' = [engines EXCEPT ![Depth] = f]
    BY DEF Incomplete, At, Put
  <1>2. /\ <<>> \in WritesAt(works) /\ works' \in Nat /\ works' >= works
    BY <1>1, Still
  <1>3. /\ E \in Engines /\ E.walk = <<>> /\ ~E.deaf
    BY <1>1, CompleteFacts, FinalTraced
  <1>4. "pattern" \in ScopeNames
    BY Names
  <1>5. LET g == Closes(E, "pattern", FALSE) IN
        /\ Kin(E, g) /\ g.undo = E.undo /\ g.at = "after" /\ g.won = FALSE /\ g.deaf = E.deaf
    BY <1>3, <1>4, ClosesShape
  <1> HIDE DEF f
  <1>6. Kin(E, f) /\ f.undo = E.undo /\ f.at = "after" /\ f.won = FALSE /\ f.deaf = E.deaf
    BY <1>5 DEF f
  <1>7. /\ f \in Engines /\ f.base = E.base /\ f.scopes = E.scopes /\ f.branches = E.branches
        /\ f.walk = <<>> /\ f.finals = <<>> /\ ~Following(f) /\ ~f.deaf
    BY <1>1, <1>3, <1>6 DEF Kin, Following
  <1>8. ScopesFit(Inside(E)) /\ Undoes(f, scopes')
    BY <1>1, <1>2, <1>6, <1>7, ScopesMove, UndoMoves
  <1> QED BY <1>1, <1>7, <1>8, CalmTrace

LEMMA CompleteTrace ==
    ASSUME Sound, Tracing, NEW w, Complete(w)
    PROVE  Tracing'
  <1> DEFINE s == Head(E.finals)
             q == s.path \o w
             a == [E EXCEPT !.finals = <<>>]
             b == [a EXCEPT !.val = E.pat]
             c == [b EXCEPT !.path = q]
             f == Closes(c, "pattern", TRUE)
  <1>1. /\ Running /\ E.at = "complete" /\ E.finals # <<>> /\ result' = result /\ branches' = branches
        /\ scopes' = scopes /\ log' = Restore(s) \o w
        /\ engines' = [engines EXCEPT ![Depth] =
               Closes([E EXCEPT !.finals = <<>>, !.val = E.pat, !.path = s.path \o w], "pattern", TRUE)]
    BY DEF Complete, At, Put
  <1>2. /\ w \in WritesAt(works) /\ w \in Logs /\ works' \in Nat /\ works' >= works
    BY <1>1, WriteFacts DEF Complete, Sound
  <1>3. /\ E \in Engines /\ E.walk = <<>> /\ E.finals \in Seq(States)
    BY <1>1, CompleteFacts
  <1>4. s = E.finals[1] /\ 1 \in DOMAIN E.finals /\ s \in States
    BY <1>1, <1>3, TailFacts
  <1>5. Restore(s) = s.path /\ ~E.deaf
    BY <1>1, <1>4, FinalTraced
  <1>6. q \in Logs /\ E.pat \in Nat /\ <<>> \in Seq(States) /\ log' = q
    <2>1. s.path \in Logs
      BY <1>4 DEF States
    <2>2. E.pat \in Nat
      BY <1>3 DEF Engines, Count
    <2>3. log' = q
      BY <1>1, <1>5
    <2>4. q \in Logs /\ <<>> \in Seq(States)
      BY <1>2, <2>1 DEF Logs
    <2> HIDE DEF q
    <2> QED BY <2>2, <2>3, <2>4
  <1>7. engines' = [engines EXCEPT ![Depth] = f]
    <2>1. [E EXCEPT !.finals = <<>>, !.val = E.pat, !.path = s.path \o w] = c
      BY <1>3 DEF Engines
    <2> QED BY <1>1, <2>1
  <1> HIDE DEF q, s
  <1>8. a \in Engines
    BY <1>3, <1>6 DEF Engines
  <1>9. /\ a.base = E.base /\ a.scopes = E.scopes /\ a.branches = E.branches /\ a.walk = E.walk
        /\ a.finals = <<>> /\ a.undo = E.undo /\ a.deaf = E.deaf
    BY <1>3, <1>8 DEF Engines
  <1> HIDE DEF a
  <1>10. b \in Engines
    BY <1>6, <1>8 DEF Engines
  <1>11. Kin(a, b) /\ b.undo = a.undo /\ b.deaf = a.deaf
    BY <1>8, <1>10 DEF Kin, Engines
  <1> HIDE DEF b
  <1>12. c \in Engines
    BY <1>6, <1>10 DEF Engines
  <1>13. Kin(b, c) /\ c.undo = b.undo /\ c.deaf = b.deaf /\ c.path = q
    BY <1>10, <1>12 DEF Kin, Engines
  <1> HIDE DEF c
  <1>14. "pattern" \in ScopeNames
    BY Names
  <1>15. LET g == Closes(c, "pattern", TRUE) IN
         /\ Kin(c, g) /\ g.undo = c.undo /\ g.path = c.path /\ g.deaf = c.deaf
    BY <1>12, <1>14, ClosesShape
  <1>16. Kin(c, f) /\ f.undo = c.undo /\ f.path = c.path /\ f.deaf = c.deaf
    BY <1>15
  <1> HIDE DEF f
  <1>17. /\ f \in Engines /\ f.base = E.base /\ f.scopes = E.scopes /\ f.branches = E.branches
         /\ f.walk = <<>> /\ f.finals = <<>> /\ f.undo = E.undo /\ ~f.deaf /\ log' = f.path
    BY <1>3, <1>5, <1>6, <1>9, <1>11, <1>13, <1>16 DEF Kin
  <1>18. ScopesFit(Inside(E)) /\ Undoes(f, scopes')
    BY <1>1, <1>2, <1>17, ScopesMove, UndoMoves
  <1> QED BY <1>1, <1>7, <1>17, <1>18, CalmTrace

-----------------------------------------------------------------------------
(* The checkpoint of a state holds the work on its path.                   *)
Marked(s, br) == s.at # 0 /\ br[s.at] = s.path
Marks(fr, br) == \A s \in FrameStates(fr) : s.at # 0 => br[s.at] = s.path

LEMMA WalkTraced ==
    ASSUME Sound, Tracing, Running, E.walk # <<>>
    PROVE  /\ ~E.deaf /\ Undoes(E, scopes) /\ Rooted(E.walk, log)
           /\ \A j \in DOMAIN E.walk : Marks(E.walk[j], branches)
           /\ \A s \in FrameStates(Frame) : Restore(s) = s.path
           /\ Len(E.walk) # 1 => \A s \in FrameStates(Frame) : Marked(s, branches)
           /\ Asks(Frame) => log = Frame.orig.path
  <1> DEFINE m == Len(E.walk)
  <1>1. Traced(E, log, scopes, branches)
    BY TraceFacts
  <1>2. /\ E.at = "walk" /\ m \in Nat \ {0} /\ Frame = E.walk[m] /\ Frame = Last(E.walk)
        /\ m \in DOMAIN E.walk
    BY WalkFacts
  <1> HIDE DEF m
  <1>3. ASSUME NEW j \in DOMAIN E.walk PROVE Marks(E.walk[j], branches)
    <2>1. \A s \in FrameStates(E.walk[j]) : s \in StatesOf(E)
      BY StatesParts
    <2> QED BY <1>1, <2>1 DEF Traced, Marks
  <1>4. Rooted(E.walk, log) /\ ~E.deaf /\ Undoes(E, scopes)
    BY <1>1, <1>2 DEF Traced
  <1>5. \A s \in FrameStates(Frame) : s.at = 0 => m = 1 /\ log = s.path
    BY <1>2, <1>4 DEF Rooted, m
  <1>6. \A s \in FrameStates(Frame) : s.at # 0 => branches[s.at] = s.path
    BY <1>2, <1>3 DEF Marks
  <1>7. \A s \in FrameStates(Frame) : Restore(s) = s.path
    BY <1>5, <1>6 DEF Restore
  <1>8. m # 1 => \A s \in FrameStates(Frame) : Marked(s, branches)
    BY <1>5, <1>6 DEF Marked
  <1>9. Asks(Frame) => log = Frame.orig.path
    BY <1>1, <1>2 DEF Traced, Asking, Asks
  <1> QED BY <1>3, <1>4, <1>7, <1>8, <1>9 DEF m

LEMMA MarksLater ==
    ASSUME Sound, Running, NEW n, Grown(n)
    PROVE  /\ \A s : Past(s, Len(branches)) /\ s.at # 0 => branches'[s.at] = branches[s.at]
           /\ \A s : Past(s, Len(branches)) /\ Marked(s, branches) => Marked(s, branches')
           /\ \A fr : FrameOK(fr, Len(branches)) /\ Marks(fr, branches) => Marks(fr, branches')
  <1>1. E.branches \in Nat /\ Len(branches) \in Nat
    <2>1. E \in Engines
      BY TopFacts
    <2> QED BY <2>1, TopFacts DEF Engines
  <1>2. ASSUME NEW s, Past(s, Len(branches)), s.at # 0 PROVE branches'[s.at] = branches[s.at]
    <2>1. s.at \in E.branches + 1 .. Len(branches)
      BY <1>2 DEF Past
    <2>2. s.at \in 1 .. Len(branches)
      BY <1>1, <2>1
    <2> QED BY <2>2 DEF Grown, Agree
  <1>3. ASSUME NEW fr, FrameOK(fr, Len(branches)), Marks(fr, branches) PROVE Marks(fr, branches')
    <2>1. ASSUME NEW s \in FrameStates(fr), s.at # 0 PROVE branches'[s.at] = s.path
      <3>1. Past(s, Len(branches)) /\ branches[s.at] = s.path
        BY <1>3, <2>1 DEF FrameOK, Marks
      <3> QED BY <1>2, <2>1, <3>1
    <2> QED BY <2>1 DEF Marks
  <1>4. \A s : Past(s, Len(branches)) /\ Marked(s, branches) => Marked(s, branches')
    BY <1>2 DEF Marked
  <1> QED BY <1>2, <1>3, <1>4

LEMMA SearchTrace ==
    ASSUME Sound, Tracing, Running, result' = result, scopes' = scopes, E.walk # <<>>,
           NEW wk \in Seq(Frames), wk # <<>>,
           engines' = [engines EXCEPT ![Depth] = [E EXCEPT !.walk = wk]], NEW n, Grown(n),
           \A j \in DOMAIN wk : Marks(wk[j], branches'), Rooted(wk, log'),
           Asks(Last(wk)) => log' = Last(wk).orig.path
    PROVE  Tracing'
  <1> DEFINE f == [E EXCEPT !.walk = wk]
  <1>1. E \in Engines /\ E.at = "walk" /\ E.finals = <<>> /\ Len(branches) \in Nat /\ E.branches \in Nat
    BY WalkFacts
  <1>2. Alike(E, f) /\ f.walk = wk /\ f.at = "walk" /\ f.finals = <<>>
    BY <1>1, WalkShape
  <1>3. engines' = [engines EXCEPT ![Depth] = f]
    OBVIOUS
  <1> HIDE DEF f
  <1>4. \A s \in StatesOf(f) : s.at # 0 => branches'[s.at] = s.path
    <2>1. \A s \in StatesOf(f) : \E j \in DOMAIN wk : s \in FrameStates(wk[j])
      BY <1>2, StatesParts
    <2> QED BY <2>1 DEF Marks
  <1>5. ~f.deaf /\ Undoes(f, scopes')
    BY <1>2, WalkTraced DEF Alike, Undoes
  <1>6. ~Following(f) /\ (Asking(f) => log' = Last(f.walk).orig.path)
    BY <1>2 DEF Following, Asking, Asks
  <1>7. \A q \in DOMAIN f.finals : FALSE
    BY <1>2
  <1>8. Traced(f, log', scopes', branches')
    BY <1>2, <1>4, <1>5, <1>6, <1>7 DEF Traced
  <1>9. \A j \in 1 .. E.branches : branches'[j] = branches[j]
    <2>1. E.branches =< Len(branches)
      <3>1. EngineOK(E, Depth, log, scopes, Len(scopes), branches, Len(branches), works)
        BY TopFacts
      <3> QED BY <1>1, <3>1 DEF EngineOK
    <2>2. 1 .. E.branches \subseteq 1 .. Len(branches)
      BY <1>1, <2>1, Within
    <2> QED BY <2>2 DEF Grown, Agree
  <1>10. f.base = E.base /\ f.scopes = E.scopes /\ f.branches = E.branches
    BY <1>2 DEF Alike
  <1> QED BY <1>3, <1>8, <1>9, <1>10, TopTrace

LEMMA TopWalkTrace ==
    ASSUME Sound, Tracing, Running, result' = result, scopes' = scopes, E.walk # <<>>,
           NEW g \in Frames, g.kind = Frame.kind, Step(g), NEW n, Grown(n), Marks(g, branches'),
           \A s \in FrameStates(g) : s.at = 0 => Len(E.walk) = 1 /\ Alone(g) /\ log' = s.path,
           Asks(g) => log' = g.orig.path
    PROVE  Tracing'
  <1> DEFINE m == Len(E.walk)
             wk == [E.walk EXCEPT ![m] = g]
  <1>1. /\ E.walk \in Seq(Frames) /\ Walked(E.walk) /\ Frame = E.walk[m] /\ m \in Nat \ {0}
        /\ \A j \in DOMAIN E.walk : FrameOK(E.walk[j], Len(branches))
    BY WalkFacts
  <1>2. /\ wk \in Seq(Frames) /\ Len(wk) = m /\ wk # <<>> /\ Last(wk) = g
        /\ \A j \in DOMAIN wk : wk[j] = IF j = m THEN g ELSE E.walk[j]
    BY <1>1, WalkTop
  <1>3. engines' = [engines EXCEPT ![Depth] = [E EXCEPT !.walk = wk]]
    BY DEF Step, Put
  <1>4. DOMAIN wk = 1 .. m /\ DOMAIN E.walk = 1 .. m
    BY <1>1, <1>2
  <1> HIDE DEF wk, m
  <1>5. \A j \in DOMAIN wk : Marks(wk[j], branches')
    BY <1>1, <1>2, <1>4, WalkTraced, MarksLater
  <1>6. Rooted(wk, log')
    <2>1. Rooted(E.walk, log)
      BY WalkTraced
    <2>2. ASSUME NEW j \in DOMAIN wk, NEW s \in FrameStates(wk[j]), s.at = 0
          PROVE  j = 1 /\ Alone(wk[1]) /\ (Len(wk) = 1 => log' = s.path)
      <3>1. CASE j = m
        <4>1. wk[j] = g
          BY <1>2, <3>1
        <4>2. m = 1 /\ Alone(g) /\ log' = s.path
          BY <2>2, <4>1 DEF m
        <4> QED BY <3>1, <4>1, <4>2
      <3>2. CASE j # m
        <4>1. wk[j] = E.walk[j] /\ j \in DOMAIN E.walk
          BY <1>2, <1>4, <3>2
        <4>2. j = 1 /\ Alone(E.walk[1])
          BY <2>1, <2>2, <4>1 DEF Rooted
        <4> QED BY <1>2, <3>2, <4>1, <4>2
      <3> QED BY <3>1, <3>2
    <2> QED BY <2>2 DEF Rooted
  <1> QED BY <1>2, <1>3, <1>5, <1>6, SearchTrace

LEMMA PushWalkTrace ==
    ASSUME Sound, Tracing, Running, result' = result, scopes' = scopes, E.walk # <<>>,
           NEW g \in Frames, NEW h \in Frames, Push(g, h), FrameStates(g) = FrameStates(Frame),
           Frame.kind = "seq" => g = Frame, NEW n, Grown(n),
           \A s \in FrameStates(h) : Marked(s, branches'),
           Asks(h) => log' = h.orig.path
    PROVE  Tracing'
  <1> DEFINE m == Len(E.walk)
             wk == Front(E.walk) \o <<g, h>>
  <1>1. /\ E.walk \in Seq(Frames) /\ Walked(E.walk) /\ Frame = E.walk[m] /\ m \in Nat \ {0}
        /\ \A j \in DOMAIN E.walk : FrameOK(E.walk[j], Len(branches))
    BY WalkFacts
  <1>2. /\ Front(E.walk) \in Seq(Frames) /\ Len(Front(E.walk)) = m - 1
        /\ \A j \in 1 .. m - 1 : Front(E.walk)[j] = E.walk[j]
    BY <1>1, FrontFacts
  <1>3. /\ wk \in Seq(Frames) /\ Len(wk) = m + 1 /\ wk[m] = g /\ wk[m + 1] = h
        /\ \A j \in 1 .. m - 1 : wk[j] = E.walk[j]
    <2> DEFINE fr == Front(E.walk)
    <2> HIDE DEF fr, m
    <2>1. fr \in Seq(Frames) /\ Len(fr) = m - 1 /\ m \in Nat \ {0}
      BY <1>1, <1>2 DEF fr
    <2>2. /\ fr \o <<g, h>> \in Seq(Frames) /\ Len(fr \o <<g, h>>) = m + 1
          /\ (fr \o <<g, h>>)[m] = g /\ (fr \o <<g, h>>)[m + 1] = h
          /\ \A j \in 1 .. m - 1 : (fr \o <<g, h>>)[j] = fr[j]
      BY <2>1
    <2> QED BY <1>2, <2>2 DEF fr
  <1>4. engines' = [engines EXCEPT ![Depth] = [E EXCEPT !.walk = wk]]
    BY DEF Push, Put
  <1> HIDE DEF wk
  <1>5. wk # <<>> /\ Last(wk) = h /\ DOMAIN wk = 1 .. m + 1 /\ DOMAIN E.walk = 1 .. m
    BY <1>1, <1>3 DEF Last
  <1>6. /\ E.walk[1].kind = "seq" /\ Rooted(E.walk, log)
        /\ \A j \in DOMAIN E.walk : Marks(E.walk[j], branches')
    BY <1>1, WalkTraced, MarksLater DEF Walked
  <1> HIDE DEF m
  <1>7. ASSUME NEW j \in DOMAIN wk
        PROVE  \/ j = m + 1 /\ wk[j] = h
               \/ /\ j \in DOMAIN E.walk /\ FrameStates(wk[j]) = FrameStates(E.walk[j])
                  /\ j = 1 => wk[1] = E.walk[1]
    <2>1. j = m + 1 \/ (j = m /\ j \in 1 .. m) \/ (j \in 1 .. m - 1 /\ j \in 1 .. m)
      BY <1>1, <1>5
    <2>2. CASE j = m /\ j \in 1 .. m
      BY <1>1, <1>3, <1>5, <1>6, <2>2
    <2>3. CASE j \in 1 .. m - 1 /\ j \in 1 .. m
      BY <1>3, <1>5, <2>3
    <2> QED BY <1>3, <2>1, <2>2, <2>3
  <1>8. \A j \in DOMAIN wk : Marks(wk[j], branches')
    BY <1>6, <1>7 DEF Marks, Marked
  <1>9. Rooted(wk, log')
    <2>1. Len(wk) # 1
      BY <1>1, <1>3
    <2>2. ASSUME NEW j \in DOMAIN wk, NEW s \in FrameStates(wk[j]), s.at = 0
          PROVE  j = 1 /\ Alone(wk[1])
      <3>1. ~(j = m + 1 /\ wk[j] = h)
        BY <2>2 DEF Marked
      <3>2. /\ j \in DOMAIN E.walk /\ s \in FrameStates(E.walk[j]) /\ (j = 1 => wk[1] = E.walk[1])
        BY <1>7, <2>2, <3>1
      <3>3. j = 1 /\ Alone(E.walk[1])
        BY <1>6, <2>2, <3>2 DEF Rooted
      <3> QED BY <3>2, <3>3
    <2> QED BY <2>1, <2>2 DEF Rooted
  <1>10. Asks(Last(wk)) => log' = Last(wk).orig.path
    BY <1>5
  <1> QED BY <1>3, <1>4, <1>5, <1>8, <1>9, <1>10, SearchTrace

LEMMA PopWalkTrace ==
    ASSUME Sound, Tracing, Running, result' = result, scopes' = scopes, Len(E.walk) > 1,
           NEW g \in Frames, ~Asks(g),
           Put([E EXCEPT !.walk = Append(SubSeq(@, 1, Len(@) - 2), g)]), NEW n, Grown(n),
           \A s \in FrameStates(g) : Marked(s, branches')
    PROVE  Tracing'
  <1> DEFINE m == Len(E.walk) - 1
             lower == SubSeq(E.walk, 1, Len(E.walk) - 2)
             wk == Append(lower, g)
  <1>0. E.walk # <<>>
    <2>1. E \in Engines
      BY TopFacts
    <2>2. E.walk \in Seq(Frames)
      BY <2>1 DEF Engines
    <2> QED BY <2>2
  <1>1. /\ E.walk \in Seq(Frames) /\ m \in Nat \ {0} /\ Len(E.walk) = m + 1
        /\ \A j \in DOMAIN E.walk : FrameOK(E.walk[j], Len(branches))
    <2>1. /\ E.walk \in Seq(Frames) /\ Len(E.walk) \in Nat
          /\ \A j \in DOMAIN E.walk : FrameOK(E.walk[j], Len(branches))
      BY <1>0, WalkFacts
    <2> QED BY <2>1
  <1>2. Len(E.walk) - 2 = m - 1 /\ m - 1 \in Nat /\ m - 1 =< Len(E.walk)
    <2>1. Len(E.walk) = m + 1 /\ m \in Nat \ {0}
      BY <1>1
    <2> QED BY <2>1
  <1>4. engines' = [engines EXCEPT ![Depth] = [E EXCEPT !.walk = wk]]
    BY DEF Put
  <1> HIDE DEF m
  <1>3. /\ lower \in Seq(Frames) /\ Len(lower) = m - 1 /\ \A j \in 1 .. m - 1 : lower[j] = E.walk[j]
    <2> DEFINE z == m - 1
    <2>1. lower = SubSeq(E.walk, 1, z) /\ z \in Nat /\ z =< Len(E.walk)
      BY <1>2
    <2> HIDE DEF z, lower
    <2>2. /\ SubSeq(E.walk, 1, z) \in Seq(Frames) /\ Len(SubSeq(E.walk, 1, z)) = z
          /\ \A j \in 1 .. z : SubSeq(E.walk, 1, z)[j] = E.walk[j]
      BY <1>1, <2>1, ShortFacts
    <2> QED BY <2>1, <2>2 DEF z
  <1> HIDE DEF lower
  <1>5. /\ wk \in Seq(Frames) /\ Len(wk) = m /\ wk[m] = g /\ \A j \in 1 .. m - 1 : wk[j] = E.walk[j]
    <2>1. /\ wk \in Seq(Frames) /\ Len(wk) = Len(lower) + 1 /\ wk[Len(lower) + 1] = g
          /\ \A j \in 1 .. Len(lower) : wk[j] = lower[j]
      BY <1>3
    <2>2. Len(lower) + 1 = m
      BY <1>1, <1>3
    <2> QED BY <1>3, <2>1, <2>2
  <1> HIDE DEF wk
  <1>6. wk # <<>> /\ Last(wk) = g /\ DOMAIN wk = 1 .. m /\ DOMAIN E.walk = 1 .. m + 1
    BY <1>1, <1>5 DEF Last
  <1>7. Rooted(E.walk, log) /\ \A j \in DOMAIN E.walk : Marks(E.walk[j], branches')
    BY <1>0, <1>1, WalkTraced, MarksLater
  <1>8. ASSUME NEW j \in DOMAIN wk
        PROVE  \/ wk[j] = g
               \/ j \in DOMAIN E.walk /\ wk[j] = E.walk[j] /\ j < m
    <2>1. j = m \/ (j \in 1 .. m - 1 /\ j \in 1 .. m + 1 /\ j < m)
      BY <1>1, <1>6
    <2> QED BY <1>5, <1>6, <2>1
  <1>9. \A j \in DOMAIN wk : Marks(wk[j], branches')
    BY <1>7, <1>8 DEF Marks, Marked
  <1>10. Rooted(wk, log')
    <2>1. ASSUME NEW j \in DOMAIN wk, NEW s \in FrameStates(wk[j]), s.at = 0
          PROVE  j = 1 /\ Alone(wk[1]) /\ Len(wk) # 1
      <3>1. wk[j] # g
        BY <2>1 DEF Marked
      <3>2. j \in DOMAIN E.walk /\ wk[j] = E.walk[j] /\ j < m
        BY <1>8, <3>1
      <3>3. j = 1 /\ Alone(E.walk[1])
        BY <1>7, <2>1, <3>2 DEF Rooted
      <3> QED BY <1>5, <3>2, <3>3
    <2> QED BY <2>1 DEF Rooted
  <1>11. Asks(Last(wk)) => log' = Last(wk).orig.path
    BY <1>6
  <1> QED BY <1>0, <1>4, <1>5, <1>6, <1>9, <1>10, <1>11, SearchTrace

LEMMA TopRoot ==
    ASSUME Sound, Tracing, Running, E.walk # <<>>, NEW s \in FrameStates(Frame), s.at = 0
    PROVE  Len(E.walk) = 1 /\ Alone(Frame) /\ log = s.path
  <1> DEFINE m == Len(E.walk)
  <1>1. Rooted(E.walk, log) /\ m \in DOMAIN E.walk /\ Frame = E.walk[m]
    BY WalkTraced, WalkFacts
  <1> HIDE DEF m
  <1>2. m = 1 /\ Alone(E.walk[1]) /\ (Len(E.walk) = 1 => log = s.path)
    BY <1>1 DEF Rooted
  <1> QED BY <1>1, <1>2 DEF m

LEMMA AloneParts ==
    ASSUME NEW fr \in SeqFrames, Alone(fr)
    PROVE  /\ fr.agenda # <<>> => Len(fr.agenda) = 1 /\ fr.found = <<>>
           /\ fr.agenda = <<>> => Len(fr.found) = 1
  <1> DEFINE a == fr.agenda
             b == fr.found
  <1>1. a \in Seq(Items) /\ b \in Seq(States) /\ Len(a) + Len(b) = 1
    BY DEF SeqFrames, Alone
  <1> HIDE DEF a, b
  <1>2. Len(a) \in Nat /\ Len(b) \in Nat
    BY <1>1
  <1>6. Len(a) = 0 => a = <<>>
    BY <1>1
  <1>3. Len(a) # 0 => Len(a) = 1 /\ Len(b) = 0
    <2> DEFINE x == Len(a)
               y == Len(b)
    <2>1. x \in Nat /\ y \in Nat /\ x + y = 1
      BY <1>1, <1>2
    <2> HIDE DEF x, y
    <2>2. x # 0 => x = 1 /\ y = 0
      BY <2>1
    <2> QED BY <2>2 DEF x, y
  <1>4. Len(b) = 0 => b = <<>>
    BY <1>1
  <1>5. a = <<>> => Len(b) = 1
    BY <1>1, <1>2
  <1> QED BY <1>3, <1>4, <1>5, <1>6 DEF a, b

LEMMA EndOfSequenceTrace ==
    ASSUME Sound, Tracing, EndOfSequence
    PROVE  Tracing'
  <1> DEFINE a == Tail(Frame.agenda)
             b == Append(Frame.found, Item.s)
             g == [Frame EXCEPT !.agenda = a, !.found = b]
  <1>1. /\ Walking("seq") /\ Frame.agenda # <<>> /\ log' = Restore(Item.s) /\ Step(g)
        /\ scopes' = scopes /\ branches' = branches /\ result' = result
    BY DEF EndOfSequence, Done
  <1>2. /\ Running /\ E.walk # <<>> /\ Frame \in SeqFrames /\ Frame.kind = "seq"
        /\ Frame.agenda \in Seq(Items) /\ Frame.found \in Seq(States)
        /\ Item.s \in States /\ Item = Frame.agenda[1] /\ 1 \in DOMAIN Frame.agenda
    BY <1>1, SeqTop
  <1>3. Item.s \in FrameStates(Frame)
    BY <1>2, FrameParts
  <1>4. log' = Item.s.path
    BY <1>1, <1>2, <1>3, WalkTraced
  <1>5. /\ a \in Seq(Items) /\ Len(a) = Len(Frame.agenda) - 1
        /\ \A k \in DOMAIN a : k + 1 \in DOMAIN Frame.agenda /\ a[k] = Frame.agenda[k + 1]
        /\ b \in Seq(States) /\ Len(b) = Len(Frame.found) + 1
        /\ \A k \in DOMAIN b : b[k] = Item.s \/ (k \in DOMAIN Frame.found /\ b[k] = Frame.found[k])
    <2> DEFINE fa == Frame.agenda
               fb == Frame.found
               s == Item.s
    <2>1. fa \in Seq(Items) /\ fa # <<>> /\ fb \in Seq(States) /\ s \in States
      BY <1>1, <1>2
    <2> HIDE DEF fa, fb, s
    <2>2. /\ Tail(fa) \in Seq(Items) /\ Len(Tail(fa)) = Len(fa) - 1
          /\ \A k \in DOMAIN Tail(fa) : k + 1 \in DOMAIN fa /\ Tail(fa)[k] = fa[k + 1]
      BY <2>1, TailFacts
    <2>3. /\ Append(fb, s) \in Seq(States) /\ Len(Append(fb, s)) = Len(fb) + 1
          /\ \A k \in DOMAIN Append(fb, s) : Append(fb, s)[k] = s \/ (k \in DOMAIN fb /\ Append(fb, s)[k] = fb[k])
      BY <2>1
    <2> QED BY <2>2, <2>3 DEF fa, fb, s
  <1> HIDE DEF a, b
  <1>6. g \in Frames /\ g.kind = "seq" /\ g.agenda = a /\ g.found = b
    <2>1. Frame \in SeqFrames /\ a \in Seq(Items) /\ b \in Seq(States)
      BY <1>2, <1>5
    <2>2. g = SeqWith(Frame, a, b)
      BY DEF SeqWith
    <2> HIDE DEF g
    <2> QED BY <2>1, <2>2, NewSeq
  <1> HIDE DEF g
  <1>7. \A s \in FrameStates(g) : \/ \E k \in DOMAIN a : s = a[k].s
                                  \/ \E k \in DOMAIN b : s = b[k]
    BY <1>6, FrameParts
  <1>8. \A s \in FrameStates(g) : s \in FrameStates(Frame)
    <2>1. \A k \in DOMAIN a : a[k].s \in FrameStates(Frame)
      BY <1>2, <1>5, FrameParts
    <2>2. \A k \in DOMAIN b : b[k] \in FrameStates(Frame)
      BY <1>2, <1>3, <1>5, FrameParts
    <2> QED BY <1>7, <2>1, <2>2
  <1>9. ASSUME NEW s \in FrameStates(g), s.at = 0
        PROVE  Len(E.walk) = 1 /\ Alone(g) /\ log' = s.path
    <2>1. Len(E.walk) = 1 /\ Alone(Frame)
      BY <1>2, <1>8, <1>9, TopRoot
    <2>2. Len(Frame.agenda) = 1 /\ Frame.found = <<>>
      BY <1>1, <1>2, <2>1, AloneParts
    <2>3. Len(a) = 0 /\ Len(b) = 1
      BY <1>5, <2>2
    <2>4. DOMAIN a = {}
      BY <1>5, <2>3
    <2>5. \A k \in DOMAIN b : b[k] = Item.s
      BY <1>5, <2>2
    <2>6. s = Item.s
      BY <1>7, <2>4, <2>5
    <2>7. Alone(g)
      BY <1>6, <2>3 DEF Alone
    <2> QED BY <1>4, <2>1, <2>6, <2>7
  <1>10. Marks(g, branches')
    <2>1. Marks(Frame, branches)
      BY <1>2, WalkTraced, WalkFacts
    <2> QED BY <1>1, <1>8, <2>1 DEF Marks
  <1>11. Grown(0) /\ ~Asks(g)
    BY <1>1, <1>6, Unmarked DEF Asks
  <1> QED BY <1>1, <1>2, <1>6, <1>9, <1>10, <1>11, TopWalkTrace

LEMMA BeforeElementTrace ==
    ASSUME Sound, Tracing, NEW d, NEW w, BeforeElement(d, w)
    PROVE  Tracing'
  <1> DEFINE s == Item.s
             orig == [at |-> Fresh, path |-> s.path \o w]
             now == Restore(s) \o w
             h == [kind |-> "elem", elem |-> Frame.elems[Item.i],
                   phase |-> IF d = "continue" THEN "default" ELSE "after", part |-> 1,
                   orig |-> orig, deltas |-> <<>>, kept |-> <<>>,
                   trans |-> IF d = "match" THEN <<orig>> ELSE <<>>]
  <1>1. /\ Walking("seq") /\ Frame.agenda # <<>> /\ log' = now /\ Checkpoint(<<now>>) /\ Push(Frame, h)
        /\ Item.i =< Len(Frame.elems) /\ scopes' = scopes /\ result' = result
    BY DEF BeforeElement
  <1>2. /\ w \in WritesAt(works) /\ works' = works + Len(w) /\ works' \in works .. MaxWork
        /\ w \in Logs /\ works' \in Nat /\ works' >= works /\ decisions' \in 0 .. MaxDecisions
    BY HookFacts DEF BeforeElement
  <1>3. /\ Running /\ E.walk # <<>> /\ Frame \in Frames /\ Frame.kind = "seq"
        /\ Frame.elems \in Seq(Elements) /\ Frame.agenda \in Seq(Items)
        /\ s \in States /\ Item.i \in Count /\ Past(s, Len(branches))
        /\ Item = Frame.agenda[1] /\ 1 \in DOMAIN Frame.agenda
        /\ branches \in Seq(Logs)
    BY <1>1, SeqTop, WalkFacts
  <1>4. now \in LogsFrom(E.base, works') /\ now \in Logs
    BY <1>2, <1>3, RestoreFacts DEF Past
  <1>5. Grown(1) /\ Len(branches') = Len(branches) + 1
    BY <1>1, <1>4, MarkOne
  <1>6. now = orig.path
    <2>1. s \in FrameStates(Frame)
      BY <1>3, FrameParts
    <2>2. Restore(s) = s.path
      BY <1>3, <2>1, WalkTraced
    <2> QED BY <2>2
  <1>7. branches'[Fresh] = now /\ Fresh # 0
    <2>1. branches' = branches \o <<now>>
      BY <1>1 DEF Checkpoint
    <2> HIDE DEF now
    <2>2. (branches \o <<now>>)[Len(branches) + 1] = now /\ Len(branches) \in Nat
      BY <1>3, <1>4, MoreFacts
    <2> QED BY <2>1, <2>2 DEF Fresh
  <1>8. orig.at = Fresh /\ orig \in States
    <2>1. s.path \o w \in Logs
      <3>1. s.path \in Logs
        BY <1>3 DEF States
      <3> QED BY <1>2, <3>1 DEF Logs
    <2> QED BY <1>3, <1>5, <2>1, FreshFacts
  <1> HIDE DEF orig, now
  <1>9. Frame.elems[Item.i] \in Elements
    <2>1. Item.i \in 1 .. Len(Frame.elems)
      BY <1>1, <1>3 DEF Count
    <2> QED BY <1>3, <2>1
  <1>10. h \in ElemFrames /\ h \in Frames
    <2>1. <<orig>> \in Seq(States) /\ <<>> \in Seq(States) /\ <<>> \in Seq(Logs) /\ 1 \in Count
      BY <1>8 DEF Count
    <2> QED BY <1>8, <1>9, <2>1 DEF ElemFrames, Frames
  <1>11. /\ h.kind = "elem" /\ h.orig = orig /\ h.kept = <<>> /\ h.deltas = <<>>
         /\ h.trans = IF d = "match" THEN <<orig>> ELSE <<>>
    OBVIOUS
  <1> HIDE DEF h
  <1>12. \A x \in FrameStates(h) : Marked(x, branches')
    <2>1. /\ \A k \in DOMAIN h.trans : h.trans[k] = orig
          /\ \A k \in DOMAIN h.kept : h.kept[k] = orig
      BY <1>11
    <2>2. \A x \in FrameStates(h) : x = orig
      BY <1>11, <2>1, FrameParts
    <2> QED BY <1>6, <1>7, <1>8, <2>2 DEF Marked
  <1>13. log' = h.orig.path
    BY <1>1, <1>6, <1>11 DEF now
  <1> QED BY <1>1, <1>3, <1>5, <1>10, <1>12, <1>13, PushWalkTrace

LEMMA ElemDeep ==
    ASSUME Sound, Running, E.walk # <<>>, Frame.kind = "elem"
    PROVE  Len(E.walk) # 1 /\ Len(E.walk) > 1
  <1>1. Len(E.walk) > 1
    BY ParentFacts
  <1>2. Len(E.walk) \in Nat
    BY WalkFacts
  <1> DEFINE m == Len(E.walk)
  <1> HIDE DEF m
  <1>3. m > 1 /\ m \in Nat
    BY <1>1, <1>2 DEF m
  <1>4. m # 1
    BY <1>3
  <1> QED BY <1>1, <1>4 DEF m

LEMMA LiteralTrace ==
    ASSUME Sound, Tracing, NEW matches \in BOOLEAN, Literal(matches)
    PROVE  Tracing'
  <1> DEFINE ts == IF matches THEN <<Frame.orig>> ELSE <<>>
             g == ElemWith(Frame, "after", ts)
  <1>1. /\ Walking("elem") /\ Step(g) /\ scopes' = scopes /\ result' = result
        /\ branches' = branches
    BY DEF Literal, Default, ElemWith
  <1>2. /\ Running /\ E.walk # <<>> /\ Frame \in ElemFrames /\ Frame.kind = "elem" /\ Frame.orig \in States
    BY <1>1, ElemTop
  <1>3. ts \in Seq(States) /\ \A k \in DOMAIN ts : ts[k] = Frame.orig
    BY <1>2
  <1> HIDE DEF ts
  <1>4. /\ g \in Frames /\ g.kind = "elem" /\ g.phase = "after" /\ g.trans = ts
        /\ g.orig = Frame.orig /\ g.kept = Frame.kept
    BY <1>2, <1>3, NewElem
  <1> HIDE DEF g
  <1>5. \A s \in FrameStates(g) : s \in FrameStates(Frame)
    BY <1>2, <1>3, <1>4, FrameParts
  <1>6. \A s \in FrameStates(g) : Marked(s, branches')
    <2>1. Len(E.walk) # 1
      BY <1>2, ElemDeep
    <2> QED BY <1>1, <1>2, <1>5, <2>1, WalkTraced
  <1>7. Grown(0) /\ ~Asks(g)
    BY <1>1, <1>4, Unmarked DEF Asks
  <1>8. Marks(g, branches') /\ \A s \in FrameStates(g) : s.at # 0
    BY <1>6 DEF Marks, Marked
  <1> QED BY <1>1, <1>2, <1>4, <1>7, <1>8, TopWalkTrace

LEMMA BranchTrace ==
    ASSUME Sound, Tracing, Branch
    PROVE  Tracing'
  <1> DEFINE g == [Frame EXCEPT !.part = @ + 1]
             h == [kind |-> "seq", elems |-> Frame.elem.parts[Frame.part],
                   agenda |-> <<[s |-> Frame.orig, i |-> 1]>>, found |-> <<>>]
             ts == IF Frame.elem.kind = "option" THEN Append(Frame.trans, Frame.orig) ELSE Frame.trans
  <1>1. /\ Walking("elem") /\ Frame.phase = "default" /\ scopes' = scopes /\ result' = result
        /\ branches' = branches /\ Frame.elem.kind \in {"choice", "option"}
    BY DEF Branch, Default, Kind
  <1>2. /\ Running /\ E.walk # <<>> /\ Frame \in ElemFrames /\ Frame.kind = "elem" /\ Frame.orig \in States
        /\ Frame.elem \in Elements /\ Frame.part \in Count /\ Frame.trans \in Seq(States)
    BY <1>1, ElemTop
  <1>3. Grown(0) /\ Len(E.walk) # 1
    BY <1>1, <1>2, Unmarked, ElemDeep
  <1>4. /\ \A s \in FrameStates(Frame) : Marked(s, branches')
        /\ Frame.orig \in FrameStates(Frame)
        /\ \A k \in DOMAIN Frame.trans : Frame.trans[k] \in FrameStates(Frame)
        /\ \A k \in DOMAIN Frame.kept : Frame.kept[k] \in FrameStates(Frame)
    BY <1>1, <1>2, <1>3, WalkTraced, FrameParts
  <1>6. CASE Frame.part =< Len(Frame.elem.parts)
    <2>1. Push(g, h)
      BY <1>6 DEF Branch
    <2>2. Frame.elem.parts \in Seq(Seq(Elements)) /\ Len(Frame.elem.parts) \in Nat
      <3>1. Frame.elem.parts \in Seq(Seq(Elements))
        BY <1>2, PatternsAssumption
      <3> QED BY <3>1
    <2>3. Frame.elem.parts[Frame.part] \in Seq(Elements)
      <3>1. Frame.part \in 1 .. Len(Frame.elem.parts)
        BY <1>2, <1>6, <2>2 DEF Count
      <3> QED BY <2>2, <3>1
    <2>4. h \in Frames
      <3>1. <<[s |-> Frame.orig, i |-> 1]>> \in Seq(Items) /\ <<>> \in Seq(States)
        BY <1>2 DEF Items, Count
      <3> QED BY <2>3, <3>1 DEF Frames, SeqFrames
    <2>5. h.kind = "seq" /\ h.found = <<>> /\ h.agenda = <<[s |-> Frame.orig, i |-> 1]>>
      OBVIOUS
    <2> HIDE DEF h
    <2>6. \A s \in FrameStates(h) : Marked(s, branches')
      <3>1. \A k \in DOMAIN h.agenda : h.agenda[k].s = Frame.orig
        BY <2>5
      <3>2. \A k \in DOMAIN h.found : FALSE
        BY <2>5
      <3>3. \A s \in FrameStates(h) : s = Frame.orig
        BY <2>5, <3>1, <3>2, FrameParts
      <3> QED BY <1>4, <3>3
    <2> DEFINE c == Frame.part + 1
    <2>7. c \in Count /\ g = [Frame EXCEPT !.part = c]
      <3>1. c \in Count
        BY <1>2 DEF Count
      <3> QED BY <1>2, <3>1 DEF ElemFrames
    <2> HIDE DEF g, c
    <2>8. LET x == [Frame EXCEPT !.part = c] IN
          /\ x \in Frames /\ x.kind = Frame.kind /\ x.elem = Frame.elem /\ x.phase = Frame.phase
          /\ FrameStates(x) = FrameStates(Frame)
      BY <1>2, <2>7, PartShape
    <2>9. g \in Frames /\ FrameStates(g) = FrameStates(Frame) /\ ~Asks(h)
      BY <2>5, <2>7, <2>8 DEF Asks
    <2> QED BY <1>1, <1>2, <1>3, <2>1, <2>4, <2>6, <2>9, PushWalkTrace
  <1>7. CASE ~(Frame.part =< Len(Frame.elem.parts))
    <2> DEFINE n == ElemWith(Frame, "after", ts)
    <2>1. Step(n)
      <3>1. Step([Frame EXCEPT !.phase = "after",
                   !.trans = IF Kind = "option" THEN Append(@, Frame.orig) ELSE @])
        BY <1>7 DEF Branch
      <3>2. [Frame EXCEPT !.phase = "after",
                   !.trans = IF Kind = "option" THEN Append(@, Frame.orig) ELSE @] = n
        BY DEF ElemWith, Kind
      <3> QED BY <3>1, <3>2
    <2>2. ts \in Seq(States) /\ \A k \in DOMAIN ts : ts[k] = Frame.orig \/ (k \in DOMAIN Frame.trans /\ ts[k] = Frame.trans[k])
      <3> DEFINE fb == Frame.trans
                 s == Frame.orig
      <3>1. fb \in Seq(States) /\ s \in States
        BY <1>2
      <3> HIDE DEF fb, s
      <3>2. /\ Append(fb, s) \in Seq(States)
            /\ \A k \in DOMAIN Append(fb, s) : Append(fb, s)[k] = s \/ (k \in DOMAIN fb /\ Append(fb, s)[k] = fb[k])
        BY <3>1
      <3> QED BY <3>1, <3>2 DEF fb, s
    <2> HIDE DEF ts
    <2>3. /\ n \in Frames /\ n.kind = "elem" /\ n.phase = "after" /\ n.trans = ts
          /\ n.orig = Frame.orig /\ n.kept = Frame.kept
      BY <1>2, <2>2, NewElem
    <2> HIDE DEF n
    <2>4. \A s \in FrameStates(n) : Marked(s, branches')
      BY <1>4, <2>2, <2>3, FrameParts
    <2>5. Marks(n, branches') /\ \A s \in FrameStates(n) : s.at # 0
      BY <2>4 DEF Marks, Marked
    <2>6. ~Asks(n)
      BY <2>3 DEF Asks
    <2> QED BY <1>1, <1>2, <1>3, <2>1, <2>3, <2>5, <2>6, TopWalkTrace
  <1> QED BY <1>6, <1>7

(* What waits below the top of the walk was put at a checkpoint, unless it *)
(* is the sequence the walk began with.                                    *)
LEMMA ParentMarked ==
    ASSUME Sound, Tracing, Running, Len(E.walk) > 1, NEW n, Grown(n)
    PROVE  LET parent == E.walk[Len(E.walk) - 1] IN
           /\ \A s \in FrameStates(parent) : s.at # 0 => Marked(s, branches')
           /\ parent.kind = "elem" => \A s \in FrameStates(parent) : s.at # 0
           /\ \A s \in FrameStates(parent) : s.at = 0 => Alone(parent)
  <1> DEFINE m == Len(E.walk)
             u == m - 1
  <1>0. E.walk # <<>> /\ m \in Nat
    <2>1. E \in Engines
      BY TopFacts
    <2>2. E.walk \in Seq(Frames)
      BY <2>1 DEF Engines
    <2> QED BY <2>2
  <1>1. /\ E.walk[1].kind = "seq" /\ Rooted(E.walk, log)
        /\ \A j \in DOMAIN E.walk : Marks(E.walk[j], branches')
    BY <1>0, WalkTraced, WalkFacts, MarksLater DEF Walked
  <1>2. u \in DOMAIN E.walk
    <2>1. E.walk \in Seq(Frames) /\ DOMAIN E.walk = 1 .. m /\ m > 1
      BY <1>0, WalkFacts
    <2>2. u \in 1 .. m
      <3> HIDE DEF m
      <3> QED BY <1>0, <2>1
    <2> QED BY <2>1, <2>2
  <1> HIDE DEF u
  <1>3. \A s \in FrameStates(E.walk[u]) : s.at # 0 => Marked(s, branches')
    BY <1>1, <1>2 DEF Marks, Marked
  <1>4. \A s \in FrameStates(E.walk[u]) : s.at = 0 => u = 1 /\ Alone(E.walk[u])
    BY <1>1, <1>2 DEF Rooted
  <1>5. E.walk[u].kind = "elem" => u # 1
    BY <1>1
  <1> QED BY <1>3, <1>4, <1>5 DEF u

LEMMA BranchEndsTrace ==
    ASSUME Sound, Tracing, BranchEnds
    PROVE  Tracing'
  <1> DEFINE parent == E.walk[Len(E.walk) - 1]
             f == [E EXCEPT !.at = "complete", !.walk = <<>>, !.finals = Frame.found]
             ts == parent.trans \o Frame.found
             g == [parent EXCEPT !.trans = ts]
  <1>1. /\ Walking("seq") /\ Frame.agenda = <<>> /\ scopes' = scopes /\ result' = result
        /\ log' = log /\ branches' = branches
        /\ Put(IF Len(E.walk) = 1 THEN f
               ELSE [E EXCEPT !.walk = Append(SubSeq(@, 1, Len(@) - 2), g)])
    BY DEF BranchEnds
  <1>2. /\ Running /\ E.walk # <<>> /\ Frame \in SeqFrames /\ Frame.kind = "seq"
        /\ Frame.found \in Seq(States)
    BY <1>1, SeqTop
  <1>3. Grown(0)
    BY <1>1, Unmarked
  <1>4. \A k \in DOMAIN Frame.found : Frame.found[k] \in FrameStates(Frame)
    BY <1>2, FrameParts
  <1>6. CASE Len(E.walk) = 1
    <2>1. engines' = [engines EXCEPT ![Depth] = f]
      BY <1>1, <1>6 DEF Put
    <2>2. E \in Engines
      BY <1>2, WalkFacts
    <2>3. Alike(E, f) /\ f.walk = <<>> /\ f.at = "complete" /\ f.finals = Frame.found
      BY <1>2, <2>2, OverShape
    <2> HIDE DEF f
    <2>4. \A s \in StatesOf(f) : s.at # 0 => branches'[s.at] = s.path
      <3>1. \A s \in StatesOf(f) : \E k \in DOMAIN Frame.found : s = Frame.found[k]
        BY <2>3, StatesParts
      <3>2. Marks(Frame, branches)
        BY <1>2, WalkTraced, WalkFacts
      <3> QED BY <1>1, <1>4, <3>1, <3>2 DEF Marks
    <2>5. \A q \in DOMAIN f.finals : f.finals[q].at = 0 => Len(f.finals) = 1 /\ log' = f.finals[q].path
      <3>1. ASSUME NEW q \in DOMAIN Frame.found, Frame.found[q].at = 0
            PROVE  Len(Frame.found) = 1 /\ log = Frame.found[q].path
        <4>1. Alone(Frame) /\ log = Frame.found[q].path
          BY <1>2, <1>4, <3>1, TopRoot
        <4> QED BY <1>1, <1>2, <4>1, AloneParts
      <3> QED BY <1>1, <2>3, <3>1
    <2>6. /\ f.base = E.base /\ f.scopes = E.scopes /\ f.branches = E.branches /\ ~f.deaf
          /\ f.undo = E.undo
      BY <1>2, <2>3, WalkTraced DEF Alike
    <2>7. Undoes(f, scopes')
      BY <1>1, <1>2, <2>6, UndoMoves
    <2>8. ~Following(f) /\ ~Asking(f) /\ Rooted(f.walk, log')
      BY <2>3 DEF Following, Asking, Rooted
    <2>9. Traced(f, log', scopes', branches')
      BY <2>4, <2>5, <2>6, <2>7, <2>8 DEF Traced
    <2> QED BY <1>1, <1>2, <2>1, <2>6, <2>9, TopTrace
  <1>7. CASE Len(E.walk) # 1
    <2>1. /\ Len(E.walk) > 1 /\ parent \in Frames /\ parent.kind = "elem" /\ parent.phase = "default"
          /\ parent.elem.kind \in {"choice", "option"}
      BY <1>2, <1>7, ParentFacts
    <2>2. Put([E EXCEPT !.walk = Append(SubSeq(@, 1, Len(@) - 2), g)])
      BY <1>1, <1>7
    <2>3. parent \in ElemFrames
      BY <2>1, FrameKinds
    <2>4. \A s \in FrameStates(parent) : Marked(s, branches')
      BY <1>2, <1>3, <2>1, ParentMarked
    <2> HIDE DEF parent
    <2>5. /\ parent.trans \in Seq(States)
          /\ parent.orig \in FrameStates(parent)
          /\ \A k \in DOMAIN parent.trans : parent.trans[k] \in FrameStates(parent)
          /\ \A k \in DOMAIN parent.kept : parent.kept[k] \in FrameStates(parent)
      BY <2>1, <2>3, FrameParts DEF ElemFrames
    <2>6. \A k \in DOMAIN Frame.found : Marked(Frame.found[k], branches')
      BY <1>1, <1>2, <1>4, <1>7, WalkTraced
    <2>7. ts \in Seq(States) /\ \A k \in DOMAIN ts : Marked(ts[k], branches')
      <3>1. /\ ts \in Seq(States)
            /\ \A k \in DOMAIN ts : \/ k \in DOMAIN parent.trans /\ ts[k] = parent.trans[k]
                                    \/ \E j \in DOMAIN Frame.found : ts[k] = Frame.found[j]
        <4> DEFINE a == parent.trans
                   b == Frame.found
        <4>1. a \in Seq(States) /\ b \in Seq(States)
          BY <1>2, <2>5
        <4> HIDE DEF a, b
        <4>2. /\ a \o b \in Seq(States)
              /\ \A k \in DOMAIN (a \o b) : \/ k \in DOMAIN a /\ (a \o b)[k] = a[k]
                                           \/ \E j \in DOMAIN b : (a \o b)[k] = b[j]
          BY <4>1, JoinFacts
        <4> QED BY <4>2 DEF a, b
      <3> HIDE DEF ts
      <3> QED BY <2>4, <2>5, <2>6, <3>1
    <2> HIDE DEF ts
    <2>8. g = ElemWith(parent, "default", ts)
      BY <2>1, <2>3 DEF ElemWith, ElemFrames
    <2> HIDE DEF g
    <2>9. /\ g \in Frames /\ g.kind = "elem" /\ g.trans = ts /\ g.orig = parent.orig
          /\ g.kept = parent.kept /\ g.elem = parent.elem
      BY <2>3, <2>7, <2>8, NewElem
    <2>10. \A s \in FrameStates(g) : Marked(s, branches')
      BY <2>4, <2>5, <2>7, <2>9, FrameParts
    <2>11. ~Asks(g)
      BY <2>1, <2>9 DEF Asks
    <2> QED BY <1>1, <1>2, <1>3, <2>1, <2>2, <2>9, <2>10, <2>11, PopWalkTrace
  <1> QED BY <1>6, <1>7

LEMMA AskLeafTrace ==
    ASSUME Sound, Tracing, NEW found \in BOOLEAN, NEW w, AskLeaf(found, w)
    PROVE  Tracing'
  <1> DEFINE ds == IF found THEN <<w>> ELSE <<>>
             h == [Frame EXCEPT !.part = 2]
             g == [h EXCEPT !.deltas = ds]
  <1>1. /\ Walking("elem") /\ Frame.phase = "default" /\ Frame.elem.kind = "type"
        /\ scopes' = scopes /\ result' = result /\ log' = log /\ branches' = branches
        /\ w \in Writes /\ Wrote(w)
        /\ Step([Frame EXCEPT !.part = 2, !.deltas = ds])
    BY DEF AskLeaf, Default, Kind
  <1>2. Running /\ E.walk # <<>> /\ Frame \in ElemFrames /\ Frame.kind = "elem"
    BY <1>1, ElemTop
  <1>3. ds \in Seq(Logs)
    <2>1. w \in Logs
      BY <1>1, <1>2, WriteFacts
    <2> QED BY <2>1
  <1>4. Step(g)
    <2>1. [Frame EXCEPT !.part = 2, !.deltas = ds] = g
      BY <1>2 DEF ElemFrames
    <2> QED BY <1>1, <2>1
  <1> HIDE DEF ds
  <1>5. h \in ElemFrames /\ h.kind = "elem" /\ h.orig = Frame.orig /\ FrameStates(h) = FrameStates(Frame)
    <2> DEFINE n == 2
    <2>1. n \in Count
      BY DEF Count
    <2> HIDE DEF n
    <2>2. LET x == [Frame EXCEPT !.part = n] IN
          /\ x \in ElemFrames /\ x \in Frames /\ x.kind = Frame.kind /\ x.elem = Frame.elem
          /\ x.phase = Frame.phase
          /\ x.deltas = Frame.deltas /\ x.orig = Frame.orig /\ x.part = n
          /\ FrameStates(x) = FrameStates(Frame)
      BY <1>2, <2>1, PartShape
    <2> QED BY <1>2, <2>2 DEF n
  <1> HIDE DEF h
  <1>6. LET x == [h EXCEPT !.deltas = ds] IN
        /\ x \in Frames /\ x.kind = h.kind /\ x.deltas = ds /\ FrameStates(x) = FrameStates(h)
    BY <1>3, <1>5, DeltasShape
  <1>7. g.orig = h.orig
    BY <1>3, <1>5 DEF ElemFrames
  <1> HIDE DEF g
  <1>8. g \in Frames /\ g.kind = "elem" /\ FrameStates(g) = FrameStates(Frame) /\ g.orig = Frame.orig
    BY <1>5, <1>6, <1>7 DEF g
  <1>9. Grown(0) /\ Len(E.walk) # 1
    BY <1>1, <1>2, Unmarked, ElemDeep
  <1>10. \A s \in FrameStates(g) : Marked(s, branches')
    BY <1>1, <1>2, <1>8, <1>9, WalkTraced
  <1>11. log' = g.orig.path
    <2>1. Asks(Frame)
      BY <1>1, <1>2 DEF Asks
    <2> QED BY <1>1, <1>2, <1>8, <2>1, WalkTraced
  <1>12. Marks(g, branches') /\ \A s \in FrameStates(g) : s.at # 0
    BY <1>10 DEF Marks, Marked
  <1> QED BY <1>1, <1>2, <1>4, <1>8, <1>9, <1>11, <1>12, TopWalkTrace

\* What is appended keeps its order, after all that was there.
LEMMA AppendedPlaces ==
    ASSUME NEW S, NEW s \in Seq(S), NEW t \in Seq(S)
    PROVE  /\ s \o t \in Seq(S)
           /\ Len(s \o t) = Len(s) + Len(t)
           /\ \A j \in 1 .. Len(t) : (s \o t)[Len(s) + j] = t[j]
  <1>1. /\ s \o t \in Seq(S) /\ Len(s) \in Nat /\ Len(t) \in Nat
        /\ Len(s \o t) = Len(s) + Len(t)
        /\ \A k \in Len(s) + 1 .. Len(s) + Len(t) : (s \o t)[k] = t[k - Len(s)]
    OBVIOUS
  <1>2. ASSUME NEW j \in 1 .. Len(t)
        PROVE  (s \o t)[Len(s) + j] = t[j]
    <2> DEFINE n == Len(s) + j
    <2>1. n \in Len(s) + 1 .. Len(s) + Len(t) /\ n - Len(s) = j
      BY <1>1, <1>2
    <2> HIDE DEF n
    <2>2. (s \o t)[n] = t[n - Len(s)]
      BY <1>1, <2>1
    <2> QED BY <2>1, <2>2 DEF n
  <1> QED BY <1>1, <1>2

LEMMA SelectedPlaces ==
    ASSUME NEW br \in Seq(Logs), NEW l \in Logs, NEW ds \in Seq(Logs), NEW k \in DOMAIN ds
    PROVE  (br \o (<<l>> \o [j \in DOMAIN ds |-> l \o ds[j]]))[Len(br) + 1 + k] = l \o ds[k]
  <1> DEFINE m == [j \in DOMAIN ds |-> l \o ds[j]]
             ls == <<l>> \o m
  <1>1. /\ DOMAIN ds = 1 .. Len(ds) /\ Len(ds) \in Nat /\ k \in 1 .. Len(ds) /\ Len(br) \in Nat
        /\ \A j \in DOMAIN ds : ds[j] \in Logs
    OBVIOUS
  <1>2. \A j \in DOMAIN ds : l \o ds[j] \in Logs
    BY <1>1 DEF Logs
  <1>3. m \in [1 .. Len(ds) -> Logs] /\ m[k] = l \o ds[k]
    BY <1>1, <1>2
  <1> HIDE DEF m
  <1>4. m \in Seq(Logs) /\ Len(m) = Len(ds)
    BY SMTT(30), <1>1, <1>3
  <1> DEFINE one == <<l>>
             x == l \o ds[k]
  <1>5. one \in Seq(Logs) /\ Len(one) = 1 /\ ls = one \o m
    OBVIOUS
  <1>6. m[k] = x
    BY <1>3
  <1> HIDE DEF one, x, ls
  <1>10. /\ one \o m \in Seq(Logs) /\ Len(one \o m) = 1 + Len(m)
         /\ \A j \in 1 .. Len(m) : (one \o m)[1 + j] = m[j]
    <2>1. one \in Seq(Logs) /\ Len(one) = 1
      BY <1>5
    <2>2. /\ one \o m \in Seq(Logs) /\ Len(one \o m) = Len(one) + Len(m)
          /\ \A j \in 1 .. Len(m) : (one \o m)[Len(one) + j] = m[j]
      BY ZenonT(60), <1>4, <2>1, AppendedPlaces
    <2> QED BY <2>1, <2>2
  <1>7. ls \in Seq(Logs) /\ Len(ls) = 1 + Len(ds) /\ ls[1 + k] = x
    BY <1>1, <1>4, <1>5, <1>6, <1>10
  <1>8. (br \o ls)[Len(br) + (1 + k)] = ls[1 + k]
    <2> DEFINE n == 1 + k
    <2>1. n \in 1 .. Len(ls)
      BY <1>1, <1>7
    <2> HIDE DEF n
    <2>2. (br \o ls)[Len(br) + n] = ls[n]
      BY <1>7, <2>1
    <2> QED BY <2>2 DEF n
  <1>9. Len(br) + 1 + k = Len(br) + (1 + k)
    BY <1>1
  <1> QED BY <1>7, <1>8, <1>9 DEF ls, m, x

LEMMA SelectTypesTrace ==
    ASSUME Sound, Tracing, SelectTypes
    PROVE  Tracing'
  <1> DEFINE ds == Frame.deltas
             ls == IF ds = <<>> THEN <<>> ELSE <<log>> \o [k \in DOMAIN ds |-> log \o ds[k]]
             ts == [k \in DOMAIN ds |-> [at |-> Fresh + k, path |-> Frame.orig.path \o ds[k]]]
             g == ElemWith(Frame, "after", ts)
  <1>1. /\ Walking("elem") /\ Frame.phase = "default" /\ Frame.elem.kind = "type" /\ Step(g)
        /\ branches' = branches \o ls /\ scopes' = scopes /\ result' = result /\ log' = log
        /\ works' = works /\ decisions' = decisions
    BY DEF SelectTypes, Default, Kind, ElemWith, Checkpoint, Selecting
  <1>2. /\ Running /\ E.walk # <<>> /\ Frame \in ElemFrames /\ Frame.kind = "elem"
        /\ Frame.orig \in States /\ ds \in Seq(Logs) /\ branches \in Seq(Logs)
        /\ E.branches \in Nat /\ Len(branches) \in Nat /\ Frame = Last(E.walk)
    BY <1>1, ElemTop, WalkFacts
  <1>3. /\ <<>> \in WritesAt(works) /\ works' = works + Len(<<>>) /\ works' \in works .. MaxWork
        /\ works' \in Nat /\ works' >= works /\ decisions' \in 0 .. MaxDecisions
    BY <1>1, Still
  <1> DEFINE logs == LogsFrom(E.base, works')
  <1>4. logs \in SUBSET Logs /\ log \in logs /\ log \in Logs
    BY <1>1, <1>2, <1>3, LogFacts
  <1>5. \A k \in DOMAIN ds : log \o ds[k] \in logs
    <2>1. EngineOK(E, Depth, log, scopes, Len(scopes), branches, Len(branches), works)
      BY <1>2, TopFacts
    <2>2. Asking(E)
      BY <1>1, <1>2 DEF Asking
    <2> QED BY <1>1, <1>2, <2>1, <2>2 DEF EngineOK, Deferred
  <1>6. log = Frame.orig.path /\ Len(E.walk) # 1
    <2>1. Asks(Frame)
      BY <1>1, <1>2 DEF Asks
    <2> QED BY <1>2, <2>1, WalkTraced, ElemDeep
  <1> HIDE DEF logs, ds
  <1>7. ls \in Seq(Logs) /\ \A k \in DOMAIN ls : ls[k] \in logs
    <2>1. CASE ds = <<>>
      <3>1. ls = <<>>
        BY <2>1
      <3> HIDE DEF ls
      <3> QED BY <2>1, <3>1
    <2>2. CASE ds # <<>>
      <3>1. ls = <<log>> \o [k \in DOMAIN ds |-> log \o ds[k]]
        BY <2>2
      <3>2. LET x == <<log>> \o [k \in DOMAIN ds |-> log \o ds[k]] IN
            x \in Seq(Logs) /\ Len(x) = Len(ds) + 1 /\ \A k \in DOMAIN x : x[k] \in logs
        BY <1>2, <1>4, <1>5, PickedLogs
      <3> HIDE DEF ls
      <3> QED BY <3>1, <3>2
    <2> QED BY <2>1, <2>2
  <1>8. ASSUME NEW k \in DOMAIN ds
        PROVE  branches'[Len(branches) + 1 + k] = log \o ds[k]
    <2>1. ds # <<>>
      BY <1>2, <1>8
    <2>2. ls = <<log>> \o [j \in DOMAIN ds |-> log \o ds[j]]
      BY <2>1
    <2> HIDE DEF ls
    <2>3. (branches \o (<<log>> \o [j \in DOMAIN ds |-> log \o ds[j]]))[Len(branches) + 1 + k] = log \o ds[k]
      BY <1>2, <1>4, <1>8, SelectedPlaces
    <2> QED BY <1>1, <2>2, <2>3
  <1> HIDE DEF ls
  <1>9. Grown(Len(ls))
    BY <1>1, <1>7, CheckpointFacts DEF logs
  <1>10. ASSUME NEW k \in DOMAIN ds
         PROVE  /\ [at |-> Fresh + k, path |-> Frame.orig.path \o ds[k]] \in States
                /\ Marked([at |-> Fresh + k, path |-> Frame.orig.path \o ds[k]], branches')
    <2> DEFINE p == Frame.orig.path \o ds[k]
               c == Fresh + k
    <2>1. p \in Logs
      <3>1. Frame.orig.path \in Logs /\ ds[k] \in Logs
        BY <1>2 DEF States
      <3> QED BY <3>1 DEF Logs
    <2>2. branches'[c] = p
      BY <1>6, <1>8 DEF Fresh
    <2>3. k \in 1 .. Len(ds) /\ Len(ds) \in Nat
      BY <1>2
    <2> HIDE DEF p
    <2>4. c \in Nat /\ c # 0
      BY <1>2, <2>3 DEF Fresh
    <2> HIDE DEF c
    <2>5. [at |-> c, path |-> p] \in States /\ Marked([at |-> c, path |-> p], branches')
      BY <2>1, <2>2, <2>4 DEF States, Marked
    <2> QED BY <2>5 DEF c, p
  <1>11. ts \in Seq(States) /\ \A k \in DOMAIN ts : Marked(ts[k], branches')
    <2>1. DOMAIN ds = 1 .. Len(ds) /\ Len(ds) \in Nat
      BY <1>2
    <2>2. /\ ts \in [1 .. Len(ds) -> States] /\ DOMAIN ts = DOMAIN ds
          /\ \A k \in DOMAIN ds : Marked(ts[k], branches')
      BY <1>10, <2>1
    <2> HIDE DEF ts
    <2> QED BY <2>1, <2>2
  <1> HIDE DEF ts
  <1>12. /\ g \in Frames /\ g.kind = "elem" /\ g.phase = "after" /\ g.trans = ts
         /\ g.orig = Frame.orig /\ g.kept = Frame.kept
    BY <1>2, <1>11, NewElem
  <1> HIDE DEF g
  <1>13. \A s \in FrameStates(Frame) : Marked(s, branches')
    <2>1. \A s \in FrameStates(Frame) : Marked(s, branches) /\ Past(s, Len(branches))
      BY <1>2, <1>6, WalkTraced, WalkFacts DEF FrameOK
    <2> QED BY <1>2, <1>9, <2>1, MarksLater
  <1>14. \A s \in FrameStates(g) : Marked(s, branches')
    <2>1. /\ Frame.orig \in FrameStates(Frame)
          /\ \A k \in DOMAIN Frame.kept : Frame.kept[k] \in FrameStates(Frame)
      BY <1>2, FrameParts
    <2>2. \A s \in FrameStates(g) : \/ s = Frame.orig
                                    \/ \E k \in DOMAIN ts : s = ts[k]
                                    \/ \E k \in DOMAIN Frame.kept : s = Frame.kept[k]
      BY <1>12, FrameParts
    <2> QED BY <1>11, <1>13, <2>1, <2>2
  <1>15. Marks(g, branches') /\ \A s \in FrameStates(g) : s.at # 0
    BY <1>14 DEF Marks, Marked
  <1>16. ~Asks(g)
    BY <1>12 DEF Asks
  <1> QED BY <1>1, <1>2, <1>9, <1>12, <1>15, <1>16, TopWalkTrace

LEMMA LeaveTrace ==
    ASSUME Sound, Tracing, Walking("elem"), result' = result, scopes' = scopes,
           NEW kept \in Seq(States), Leave(kept), NEW n, Grown(n),
           \A k \in DOMAIN kept : Marked(kept[k], branches')
    PROVE  Tracing'
  <1> DEFINE parent == E.walk[Len(E.walk) - 1]
             i == Head(parent.agenda).i
             heads == [k \in DOMAIN kept |-> [s |-> kept[k], i |-> i + 1]]
             a == heads \o Tail(parent.agenda)
             g == [parent EXCEPT !.agenda = a]
  <1>1. Put([E EXCEPT !.walk = Append(SubSeq(@, 1, Len(@) - 2), g)])
    BY DEF Leave
  <1>2. Running /\ E.walk # <<>> /\ Frame.kind = "elem"
    BY ElemTop
  <1>3. Len(E.walk) > 1 /\ parent \in Frames /\ parent.kind = "seq" /\ parent.agenda # <<>>
    BY <1>2, ParentFacts
  <1>4. /\ \A s \in FrameStates(parent) : s.at # 0 => Marked(s, branches')
        /\ \A s \in FrameStates(parent) : s.at = 0 => Alone(parent)
    BY <1>2, <1>3, ParentMarked
  <1> HIDE DEF parent
  <1>5. parent \in SeqFrames
    BY <1>3, FrameKinds
  <1>6. parent.agenda \in Seq(Items) /\ parent.found \in Seq(States)
    BY <1>5 DEF SeqFrames
  <1>7. Head(parent.agenda) \in Items /\ Tail(parent.agenda) \in Seq(Items)
    BY <1>3, <1>6, TailFacts
  <1>8. i + 1 \in Count
    <2>1. i \in Count
      BY <1>7 DEF Items
    <2> HIDE DEF i
    <2> QED BY <2>1 DEF Count
  <1>9. \A k \in DOMAIN Tail(parent.agenda) :
            /\ k + 1 \in DOMAIN parent.agenda /\ Tail(parent.agenda)[k] = parent.agenda[k + 1]
            /\ Len(parent.agenda) # 1
    <2> DEFINE fa == parent.agenda
    <2>1. fa \in Seq(Items) /\ fa # <<>>
      BY <1>3, <1>6
    <2> HIDE DEF fa
    <2>2. /\ \A k \in DOMAIN Tail(fa) : k + 1 \in DOMAIN fa /\ Tail(fa)[k] = fa[k + 1]
          /\ Len(Tail(fa)) = Len(fa) - 1 /\ Tail(fa) \in Seq(Items)
      BY <2>1, TailFacts
    <2>3. Len(fa) = 1 => Tail(fa) = <<>>
      BY <2>2
    <2> QED BY <2>2, <2>3 DEF fa
  <1>10. /\ \A k \in DOMAIN Tail(parent.agenda) : Marked(Tail(parent.agenda)[k].s, branches')
         /\ \A k \in DOMAIN parent.found : Marked(parent.found[k], branches')
    <2>1. ASSUME NEW k \in DOMAIN Tail(parent.agenda) PROVE Marked(Tail(parent.agenda)[k].s, branches')
      <3> DEFINE s == parent.agenda[k + 1].s
      <3>1. s \in FrameStates(parent) /\ Tail(parent.agenda)[k].s = s
        BY <1>3, <1>9, <2>1, FrameParts
      <3>2. ~Alone(parent)
        BY <1>3, <1>5, <1>9, <2>1, AloneParts
      <3> QED BY <1>4, <3>1, <3>2
    <2>2. ASSUME NEW k \in DOMAIN parent.found PROVE Marked(parent.found[k], branches')
      <3>1. parent.found[k] \in FrameStates(parent)
        BY <1>3, <2>2, FrameParts
      <3>2. parent.found # <<>>
        BY <2>2
      <3>3. ~Alone(parent)
        BY <1>3, <1>5, <3>2, AloneParts
      <3> QED BY <1>4, <3>1, <3>3
    <2> QED BY <2>1, <2>2
  <1>11. heads \in Seq(Items) /\ \A k \in DOMAIN heads : k \in DOMAIN kept /\ heads[k].s = kept[k]
    <2> DEFINE nx == i + 1
    <2> HIDE DEF nx
    <2>1. nx \in Count
      BY <1>8 DEF nx
    <2>2. DOMAIN kept = 1 .. Len(kept) /\ Len(kept) \in Nat
      OBVIOUS
    <2>3. \A k \in DOMAIN kept : [s |-> kept[k], i |-> nx] \in Items
      BY <2>1 DEF Items
    <2>4. [k \in DOMAIN kept |-> [s |-> kept[k], i |-> nx]] \in [1 .. Len(kept) -> Items]
      BY <2>2, <2>3
    <2>5. heads = [k \in DOMAIN kept |-> [s |-> kept[k], i |-> nx]]
      BY DEF nx
    <2>6. heads \in [1 .. Len(kept) -> Items]
      BY <2>4, <2>5
    <2>7. DOMAIN heads = DOMAIN kept /\ \A k \in DOMAIN kept : heads[k].s = kept[k]
      BY <2>5
    <2> HIDE DEF heads
    <2> QED BY <2>2, <2>6, <2>7
  <1> HIDE DEF heads, i
  <1>12. /\ a \in Seq(Items)
         /\ \A k \in DOMAIN a : \/ k \in DOMAIN heads /\ a[k] = heads[k]
                                \/ \E j \in DOMAIN Tail(parent.agenda) : a[k] = Tail(parent.agenda)[j]
    <2> DEFINE b == Tail(parent.agenda)
    <2>1. b \in Seq(Items)
      BY <1>7
    <2> HIDE DEF b
    <2>2. /\ heads \o b \in Seq(Items)
          /\ \A k \in DOMAIN (heads \o b) : \/ k \in DOMAIN heads /\ (heads \o b)[k] = heads[k]
                                            \/ \E j \in DOMAIN b : (heads \o b)[k] = b[j]
      BY <1>11, <2>1, JoinFacts
    <2> QED BY <2>2 DEF b
  <1> HIDE DEF a
  <1>13. \A k \in DOMAIN a : Marked(a[k].s, branches')
    <2>1. ASSUME NEW k \in DOMAIN a PROVE Marked(a[k].s, branches')
      <3>1. CASE k \in DOMAIN heads /\ a[k] = heads[k]
        BY <1>11, <3>1
      <3>2. ASSUME NEW j \in DOMAIN Tail(parent.agenda), a[k] = Tail(parent.agenda)[j]
            PROVE  Marked(a[k].s, branches')
        BY <1>10, <3>2
      <3> QED BY <1>12, <3>1, <3>2
    <2> QED BY <2>1
  <1>14. g = SeqWith(parent, a, parent.found)
    BY <1>5 DEF SeqWith, SeqFrames
  <1> HIDE DEF g
  <1>15. g \in Frames /\ g.kind = "seq" /\ g.agenda = a /\ g.found = parent.found
    BY <1>5, <1>6, <1>12, <1>14, NewSeq
  <1>16. \A s \in FrameStates(g) : Marked(s, branches')
    BY <1>10, <1>13, <1>15, FrameParts
  <1>17. ~Asks(g)
    BY <1>15 DEF Asks
  <1> QED BY <1>1, <1>2, <1>3, <1>15, <1>16, <1>17, PopWalkTrace

(* A checkpoint that a hook leads to holds what it has, with the state's   *)
(* history.                                                                *)
LEMMA MarkTrace ==
    ASSUME Sound, Tracing, Running, E.walk # <<>>, NEW s \in FrameStates(Frame), s \in States,
           Past(s, Len(branches)), NEW w \in WritesAt(works), works' = works + Len(w),
           works' \in Nat, works' >= works, w \in Logs, Checkpoint(<<Restore(s) \o w>>)
    PROVE  LET mark == [at |-> Fresh, path |-> s.path \o w] IN
           Grown(1) /\ mark \in States /\ Marked(mark, branches')
  <1> DEFINE now == Restore(s) \o w
             p == s.path \o w
  <1>1. now \in LogsFrom(E.base, works') /\ now \in Logs
    BY RestoreFacts DEF Past
  <1>2. now = p
    BY WalkTraced
  <1>3. p \in Logs
    BY <1>1, <1>2
  <1>4. Checkpoint(<<now>>) /\ branches \in Seq(Logs)
    BY WalkFacts
  <1> HIDE DEF now, p
  <1>5. Grown(1) /\ Len(branches') = Len(branches) + 1
    BY <1>1, <1>4, MarkOne
  <1>6. [at |-> Fresh, path |-> p] \in States
    BY <1>3, <1>5, FreshFacts
  <1>7. (branches \o <<now>>)[Len(branches) + 1] = now /\ Len(branches) \in Nat
    BY <1>1, <1>4, MoreFacts
  <1>8. Fresh # 0 /\ branches'[Fresh] = p
    BY <1>2, <1>4, <1>7 DEF Fresh, Checkpoint
  <1>9. Marked([at |-> Fresh, path |-> p], branches')
    BY <1>8 DEF Marked
  <1> QED BY <1>5, <1>6, <1>9 DEF p

LEMMA AfterFailedElementTrace ==
    ASSUME Sound, Tracing, NEW d, NEW w, AfterFailedElement(d, w)
    PROVE  Tracing'
  <1> DEFINE now == Restore(Frame.orig) \o w
             mark == [at |-> Fresh, path |-> Frame.orig.path \o w]
             kept == IF d = "match" THEN <<mark>> ELSE <<>>
  <1>1. /\ Walking("elem") /\ Checkpoint(IF d = "match" THEN <<now>> ELSE <<>>)
        /\ Leave(kept) /\ scopes' = scopes /\ result' = result
    BY DEF AfterFailedElement
  <1>2. /\ w \in WritesAt(works) /\ works' = works + Len(w)
        /\ w \in Logs /\ works' \in Nat /\ works' >= works
    BY HookFacts DEF AfterFailedElement
  <1>3. /\ Running /\ E.walk # <<>> /\ Frame.kind = "elem" /\ Frame.orig \in States
        /\ Past(Frame.orig, Len(branches))
    BY <1>1, ElemTop
  <1>4. Frame.orig \in FrameStates(Frame)
    BY <1>3, FrameParts
  <1>5. CASE d = "match"
    <2>1. Checkpoint(<<Restore(Frame.orig) \o w>>) /\ kept = <<mark>>
      BY <1>1, <1>5
    <2>2. LET x == [at |-> Fresh, path |-> Frame.orig.path \o w] IN
          Grown(1) /\ x \in States /\ Marked(x, branches')
      BY <1>2, <1>3, <1>4, <2>1, MarkTrace
    <2>3. Grown(1) /\ mark \in States /\ Marked(mark, branches')
      BY <2>2
    <2> HIDE DEF mark
    <2>4. kept \in Seq(States) /\ \A k \in DOMAIN kept : Marked(kept[k], branches')
      BY <2>1, <2>3
    <2> HIDE DEF kept
    <2> QED BY <1>1, <2>3, <2>4, LeaveTrace
  <1>6. CASE d # "match"
    <2>1. Checkpoint(<<>>) /\ kept = <<>>
      BY <1>1, <1>6
    <2>2. Grown(0)
      BY <2>1, MarkNone
    <2>3. kept \in Seq(States) /\ \A k \in DOMAIN kept : Marked(kept[k], branches')
      BY <2>1
    <2> HIDE DEF kept
    <2> QED BY <1>1, <2>2, <2>3, LeaveTrace
  <1> QED BY <1>5, <1>6

LEMMA AfterElementTrace ==
    ASSUME Sound, Tracing, NEW d, NEW w, AfterElement(d, w)
    PROVE  Tracing'
  <1> DEFINE t == Head(Frame.trans)
             now == Restore(t) \o w
             mark == [at |-> Fresh, path |-> t.path \o w]
             kept == IF d = "fail" THEN Frame.kept ELSE Append(Frame.kept, mark)
             rest == Tail(Frame.trans)
             g == KeptWith(Frame, rest, kept)
  <1>1. /\ Walking("elem") /\ Checkpoint(IF d = "fail" THEN <<>> ELSE <<now>>)
        /\ Frame.phase = "after" /\ Frame.trans # <<>> /\ scopes' = scopes /\ result' = result
    BY DEF AfterElement
  <1>2. /\ w \in WritesAt(works) /\ works' = works + Len(w)
        /\ w \in Logs /\ works' \in Nat /\ works' >= works
    BY HookFacts DEF AfterElement
  <1>3. /\ Running /\ E.walk # <<>> /\ Frame \in ElemFrames /\ Frame.kind = "elem"
        /\ Frame.trans \in Seq(States) /\ Frame.kept \in Seq(States)
        /\ \A k \in DOMAIN Frame.trans : Past(Frame.trans[k], Len(branches))
    BY <1>1, ElemTop, WalkFacts
  <1>4. /\ t \in States /\ Past(t, Len(branches)) /\ rest \in Seq(States)
        /\ t \in FrameStates(Frame) /\ \A k \in DOMAIN rest : rest[k] \in FrameStates(Frame)
    <2> DEFINE tr == Frame.trans
    <2>1. /\ tr \in Seq(States) /\ tr # <<>> /\ \A k \in DOMAIN tr : Past(tr[k], Len(branches))
          /\ \A k \in DOMAIN tr : tr[k] \in FrameStates(Frame)
      BY <1>1, <1>3, FrameParts
    <2> HIDE DEF tr
    <2>2. /\ Head(tr) \in States /\ Head(tr) = tr[1] /\ 1 \in DOMAIN tr /\ Tail(tr) \in Seq(States)
          /\ \A k \in DOMAIN Tail(tr) : k + 1 \in DOMAIN tr /\ Tail(tr)[k] = tr[k + 1]
      BY <2>1, TailFacts
    <2>3. /\ Past(Head(tr), Len(branches)) /\ Head(tr) \in FrameStates(Frame)
          /\ \A k \in DOMAIN Tail(tr) : Tail(tr)[k] \in FrameStates(Frame)
      BY <2>1, <2>2
    <2> QED BY <2>2, <2>3 DEF tr
  <1>5. Frame.orig \in FrameStates(Frame) /\ \A k \in DOMAIN Frame.kept : Frame.kept[k] \in FrameStates(Frame)
    BY <1>3, FrameParts
  <1>6. \A s \in FrameStates(Frame) : Marked(s, branches) /\ Past(s, Len(branches))
    BY <1>3, ElemDeep, WalkTraced, WalkFacts DEF FrameOK
  <1>7. ASSUME NEW n, Grown(n), kept \in Seq(States), \A k \in DOMAIN kept : Marked(kept[k], branches')
        PROVE  Tracing'
    <2>1. CASE rest = <<>>
      <3>1. Leave(kept)
        BY <2>1 DEF AfterElement
      <3> HIDE DEF kept
      <3> QED BY <1>1, <1>7, <3>1, LeaveTrace
    <2>2. CASE rest # <<>>
      <3>1. Step(g)
        BY <2>2 DEF AfterElement, KeptWith
      <3> HIDE DEF kept, rest
      <3>2. /\ g \in Frames /\ g.kind = "elem" /\ g.phase = "after" /\ g.trans = rest /\ g.kept = kept
            /\ g.orig = Frame.orig
        <4>1. LET x == KeptWith(Frame, rest, kept) IN
              /\ x \in ElemFrames /\ x \in Frames /\ x.kind = "elem" /\ x.phase = Frame.phase
              /\ x.trans = rest /\ x.kept = kept /\ x.orig = Frame.orig
          BY <1>3, <1>4, <1>7, NewKept
        <4> QED BY <1>1, <4>1
      <3> HIDE DEF g
      <3>3. \A s \in FrameStates(Frame) : Marked(s, branches')
        BY <1>3, <1>6, <1>7, MarksLater
      <3>4. \A s \in FrameStates(g) : Marked(s, branches')
        BY <1>4, <1>5, <1>7, <3>2, <3>3, FrameParts
      <3>5. Marks(g, branches') /\ \A s \in FrameStates(g) : s.at # 0
        BY <3>4 DEF Marks, Marked
      <3>6. ~Asks(g)
        BY <3>2 DEF Asks
      <3> QED BY <1>1, <1>3, <1>7, <3>1, <3>2, <3>5, <3>6, TopWalkTrace
    <2> QED BY <2>1, <2>2
  <1>8. CASE d = "fail"
    <2>1. Checkpoint(<<>>) /\ kept = Frame.kept
      BY <1>1, <1>8
    <2>2. Grown(0) /\ branches' = branches
      BY <2>1, MarkNone
    <2>3. kept \in Seq(States) /\ \A k \in DOMAIN kept : Marked(kept[k], branches')
      BY <1>3, <1>5, <1>6, <2>1, <2>2
    <2> QED BY <1>7, <2>2, <2>3
  <1>9. CASE d # "fail"
    <2>1. Checkpoint(<<Restore(t) \o w>>) /\ kept = Append(Frame.kept, mark)
      BY <1>1, <1>9
    <2>2. Grown(1) /\ mark \in States /\ Marked(mark, branches')
      <3> HIDE DEF t, now
      <3>1. LET x == [at |-> Fresh, path |-> t.path \o w] IN
            Grown(1) /\ x \in States /\ Marked(x, branches')
        BY <1>2, <1>3, <1>4, <2>1, MarkTrace
      <3> QED BY <3>1
    <2>3. \A k \in DOMAIN Frame.kept : Marked(Frame.kept[k], branches')
      BY <1>3, <1>5, <1>6, <2>2, MarksLater
    <2>4. kept \in Seq(States) /\ \A k \in DOMAIN kept : Marked(kept[k], branches')
      <3> DEFINE fb == Frame.kept
      <3> HIDE DEF mark, fb, kept
      <3>1. fb \in Seq(States) /\ \A k \in DOMAIN fb : Marked(fb[k], branches')
        BY <1>3, <2>3 DEF fb
      <3>2. /\ Append(fb, mark) \in Seq(States)
            /\ \A k \in DOMAIN Append(fb, mark) : Append(fb, mark)[k] = mark \/ (k \in DOMAIN fb /\ Append(fb, mark)[k] = fb[k])
        BY <2>2, <3>1
      <3>3. kept = Append(fb, mark)
        BY <2>1 DEF fb
      <3>4. \A k \in DOMAIN Append(fb, mark) : Marked(Append(fb, mark)[k], branches')
        BY <2>2, <3>1, <3>2
      <3> QED BY <3>2, <3>3, <3>4
    <2> QED BY <1>7, <2>2, <2>4
  <1> QED BY <1>8, <1>9

-----------------------------------------------------------------------------
(* Nested matches.                                                         *)
LEMMA TopFrameTrace ==
    ASSUME NEW e \in Engines, NEW lg, NEW sc, NEW br, Traced(e, lg, sc, br), Asking(e),
           Walked(e.walk), NEW g \in Frames,
           LET f == e.walk[Len(e.walk)] IN
           /\ g.kind = f.kind /\ g.elem = f.elem /\ g.phase = f.phase /\ g.orig = f.orig
           /\ FrameStates(g) = FrameStates(f)
    PROVE  Traced([e EXCEPT !.walk = [e.walk EXCEPT ![Len(e.walk)] = g]], lg, sc, br)
  <1> DEFINE m == Len(e.walk)
             wk == [e.walk EXCEPT ![m] = g]
             q == [e EXCEPT !.walk = wk]
  <1>1. e.walk # <<>> /\ e.walk \in Seq(Frames) /\ e.walk[m].kind = "elem"
    BY DEF Asking, Last, Engines
  <1>2. /\ wk \in Seq(Frames) /\ Len(wk) = m /\ wk # <<>> /\ Last(wk) = g
        /\ \A j \in DOMAIN wk : wk[j] = IF j = m THEN g ELSE e.walk[j]
    BY <1>1, WalkTop
  <1>3. m # 1 /\ DOMAIN wk = DOMAIN e.walk /\ m \in DOMAIN e.walk
    BY <1>1, <1>2 DEF Walked
  <1> HIDE DEF wk
  <1>4. Alike(e, q) /\ q.walk = wk /\ q.at = e.at /\ q.finals = e.finals
    BY <1>2, WalkShape
  <1> HIDE DEF q, m
  <1>5. \A j \in DOMAIN wk : j \in DOMAIN e.walk /\ FrameStates(wk[j]) = FrameStates(e.walk[j])
    BY <1>2, <1>3 DEF m
  <1>6. \A s \in StatesOf(q) : s \in StatesOf(e)
    <2>1. \A s \in StatesOf(q) : \/ \E k \in DOMAIN wk : s \in FrameStates(wk[k])
                                 \/ \E k \in DOMAIN e.finals : s = e.finals[k]
      BY <1>4, StatesParts
    <2>2. \A s : (\/ \E k \in DOMAIN e.walk : s \in FrameStates(e.walk[k])
                  \/ \E k \in DOMAIN e.finals : s = e.finals[k]) => s \in StatesOf(e)
      BY StatesParts
    <2> QED BY <1>5, <2>1, <2>2
  <1>7. Rooted(wk, lg)
    <2>1. Rooted(e.walk, lg)
      BY DEF Traced
    <2>2. ASSUME NEW j \in DOMAIN wk, NEW s \in FrameStates(wk[j]), s.at = 0
          PROVE  j = 1 /\ Alone(wk[1]) /\ Len(wk) # 1
      <3>1. j \in DOMAIN e.walk /\ s \in FrameStates(e.walk[j])
        BY <1>5, <2>2
      <3>2. j = 1 /\ Alone(e.walk[1])
        BY <2>1, <2>2, <3>1 DEF Rooted
      <3>3. wk[1] = e.walk[1]
        BY <1>2, <1>3, <2>2, <3>2
      <3> QED BY <1>2, <1>3, <3>2, <3>3
    <2> QED BY <2>2 DEF Rooted
  <1>8. Undoes(q, sc) /\ (q.deaf => q.at = "after" /\ q.scope # "pattern" /\ ~q.won)
    BY <1>4 DEF Traced, Undoes, Alike
  <1>9. Following(q) => lg = q.path
    BY <1>4 DEF Traced, Following, Overridden, Alike
  <1>10. Asking(q) => lg = Last(q.walk).orig.path
    <2>1. lg = e.walk[m].orig.path
      BY DEF Traced, Last, m
    <2> QED BY <1>2, <1>4, <2>1 DEF m
  <1>11. \A k \in DOMAIN q.finals : q.finals[k].at = 0 =>
            Len(q.finals) = 1 /\ lg = q.finals[k].path
    BY <1>4 DEF Traced
  <1>12. \A s \in StatesOf(q) : s.at # 0 => br[s.at] = s.path
    BY <1>6 DEF Traced
  <1>13. Traced(q, lg, sc, br)
    BY <1>4, <1>7, <1>8, <1>9, <1>10, <1>11, <1>12 DEF Traced
  <1> QED BY <1>13 DEF q, wk, m

LEMMA EngineTrace ==
    ASSUME NEW base \in Logs, NEW sd \in Nat, NEW bc \in Nat, NEW sc, NEW br
    PROVE  Traced(Engine(base, sd, bc), base, sc, br)
  <1> DEFINE e == Engine(base, sd, bc)
  <1>1. /\ e.undo = <<>> /\ e.walk = <<>> /\ e.finals = <<>> /\ e.at = "before"
        /\ e.scope = "definition" /\ e.deaf = FALSE
    BY DEF Engine
  <1> HIDE DEF e
  <1>2. StatesOf(e) = {} /\ ~Asking(e)
    BY <1>1, Calm
  <1>3. Undoes(e, sc)
    <2>1. \A j \in 2 .. 0 : FALSE
      OBVIOUS
    <2> QED BY <1>1, <2>1 DEF Undoes
  <1>4. Rooted(e.walk, base) /\ ~Following(e)
    BY <1>1 DEF Rooted, Following
  <1>5. \A k \in DOMAIN e.finals : FALSE
    BY <1>1
  <1>6. Traced(e, base, sc, br)
    BY <1>1, <1>2, <1>3, <1>4, <1>5 DEF Traced
  <1> QED BY <1>6 DEF e

LEMMA AskNestedTrace ==
    ASSUME Sound, Tracing, AskNested
    PROVE  Tracing'
  <1> DEFINE top == E.walk[Len(E.walk)]
             g == [top EXCEPT !.part = 3]
             q == [E EXCEPT !.walk = [E.walk EXCEPT ![Len(E.walk)] = g]]
             e == Engine(log, Len(scopes), Len(branches))
  <1>1. /\ Running /\ E.walk # <<>> /\ top.kind = "elem" /\ top.phase = "default"
        /\ top.elem.kind = "type" /\ log' = log /\ scopes' = scopes /\ branches' = branches
        /\ engines' = Append([engines EXCEPT ![Depth].walk[Len(E.walk)].part = 3], e)
    BY DEF AskNested, Default, Walking, At, Frame, Kind
  <1>2. /\ Depth \in 1 .. Len(Patterns) /\ Depth = Len(engines) /\ Len(Patterns) \in Nat
        /\ Len(scopes) \in Nat /\ Len(branches) \in Nat /\ E \in Engines
        /\ engines \in Seq(Engines) /\ log \in Logs
    BY <1>1, TopFacts DEF Sound
  <1>3. top \in ElemFrames /\ Walked(E.walk) /\ Asking(E)
    <2>1. top \in Frames
      BY <1>1, WalkFacts
    <2> QED BY <1>1, <2>1, FrameKinds, WalkFacts DEF Asking, Last
  <1>4. engines' = Append([engines EXCEPT ![Depth] = q], e)
    <2>1. [engines EXCEPT ![Depth].walk[Len(E.walk)].part = 3] = [engines EXCEPT ![Depth] = q]
      BY DEF E
    <2> QED BY <1>1, <2>1
  <1>5. /\ g \in Frames /\ g.kind = top.kind /\ g.elem = top.elem /\ g.phase = top.phase
        /\ g.orig = top.orig /\ FrameStates(g) = FrameStates(top)
    <2>1. 3 \in Count
      BY DEF Count
    <2> HIDE DEF top
    <2>2. LET h == [top EXCEPT !.part = 3] IN
          /\ h \in Frames /\ h.kind = top.kind /\ h.elem = top.elem /\ h.phase = top.phase
          /\ h.orig = top.orig /\ FrameStates(h) = FrameStates(top)
      BY <1>3, <2>1, PartShape
    <2> QED BY <2>2
  <1> HIDE DEF g
  <1>6. Traced(q, log, scopes, branches)
    <2>1. Traced(E, log, scopes, branches)
      BY <1>1, TraceFacts
    <2> QED BY <1>2, <1>3, <1>5, <2>1, TopFrameTrace
  <1>7. q \in Engines /\ q.base = E.base
    <2>1. [E.walk EXCEPT ![Len(E.walk)] = g] \in Seq(Frames)
      BY <1>1, <1>2, <1>5, WalkFacts, WalkTop
    <2> QED BY <1>2, <2>1, WalkShape DEF Alike
  <1> HIDE DEF q, top
  <1>8. e.base = log /\ e \in Engines /\ Traced(e, log, scopes, branches)
    <2> DEFINE ns == Len(scopes)
               nb == Len(branches)
    <2>1. ns \in Nat /\ nb \in Nat
      BY <1>2
    <2> HIDE DEF ns, nb, e
    <2>2. LET n == Engine(log, ns, nb) IN n \in Engines /\ n.base = log
      <3>1. /\ works \in Nat /\ Sorted(log, works) /\ 1 \in 1 .. Len(Patterns)
        BY <1>1, <1>2, TopFacts DEF Sound
      <3>2. LET n == Engine(log, ns, nb) IN
            /\ EngineOK(n, 1, log, scopes, ns, branches, nb, works) /\ n \in Engines
            /\ ~Overridden(n) /\ n.base = log /\ n.scopes = ns /\ n.branches = nb /\ Len(n.undo) =< 3
        BY SMTT(30), <1>2, <2>1, <3>1, EngineBegins
      <3> QED BY <3>2
    <2>3. Traced(Engine(log, ns, nb), log, scopes, branches)
      BY <1>2, <2>1, EngineTrace
    <2> QED BY <2>2, <2>3 DEF ns, nb, e
  <1> HIDE DEF e
  <1>9. /\ Len(engines') = Depth + 1 /\ engines'[Depth + 1] = e
        /\ engines'[Depth] = q /\ \A k \in 1 .. Depth - 1 : engines'[k] = engines[k]
    BY <1>2, <1>4, <1>7, <1>8
  <1>10. Depth' = Depth + 1
    BY <1>9 DEF Depth
  <1>11. ASSUME NEW k \in 1 .. Depth - 1 PROVE LogAt(k)' = LogAt(k)
    <2>1. k # Depth /\ k # Depth + 1 /\ k + 1 \in 1 .. Depth /\ k \in 1 .. Depth
      BY <1>2
    <2>2. engines'[k + 1].base = engines[k + 1].base
      <3>1. CASE k + 1 = Depth
        BY <1>7, <1>9, <3>1 DEF E
      <3>2. CASE k + 1 # Depth
        BY <1>2, <1>9, <2>1, <3>2
      <3> QED BY <3>1, <3>2
    <2> QED BY <1>10, <2>1, <2>2 DEF LogAt
  <1>12. ASSUME NEW k \in 1 .. Depth' PROVE Traced(engines'[k], LogAt(k)', scopes', branches')
    <2>1. CASE k = Depth + 1
      BY <1>1, <1>8, <1>9, <1>10, <2>1 DEF LogAt
    <2>2. CASE k = Depth
      <3>1. LogAt(k)' = log
        BY <1>2, <1>8, <1>9, <1>10, <2>2 DEF LogAt
      <3> QED BY <1>1, <1>6, <1>9, <2>2, <3>1
    <2>3. CASE k \in 1 .. Depth - 1
      <3>1. engines'[k] = engines[k] /\ LogAt(k)' = LogAt(k) /\ k \in 1 .. Depth
        BY <1>2, <1>9, <1>11, <2>3
      <3>2. Traced(engines[k], LogAt(k), scopes, branches)
        BY <1>1, <3>1 DEF Tracing
      <3> QED BY <1>1, <3>1, <3>2
    <2> QED BY <1>2, <1>10, <2>1, <2>2, <2>3
  <1> QED BY <1>12 DEF Tracing

(* The step in which the outer invocation takes over.                      *)
LEMMA FinishNestedFacts ==
    ASSUME Sound, NEW k, FinishNested(k)
    PROVE  LET up == Depth - 1
               p == engines[up]
               top == p.walk[Len(p.walk)]
           IN  /\ Running /\ up \in 1 .. Depth - 1 /\ up + 1 = Depth /\ log' = E.base
               /\ top \in ElemFrames
               /\ \E ds \in Seq(Logs) :
                     engines' = [Front(engines) EXCEPT ![up] =
                                    [p EXCEPT !.walk = [p.walk EXCEPT ![Len(p.walk)] =
                                                           [top EXCEPT !.deltas = ds]]]]
               /\ scopes' = Truncated(scopes, E.scopes) /\ branches' = Truncated(branches, E.branches)
  <1> DEFINE states == E.matches[k].state
             taken == CHOOSE s \in states : TRUE
             delta == IF k = 0 THEN <<>> ELSE <<SubSeq(taken, Len(E.base) + 1, Len(taken))>>
             up == Depth - 1
             p == engines[up]
             top == p.walk[Len(p.walk)]
             ds == top.deltas \o delta
             q == [p EXCEPT !.walk = [p.walk EXCEPT ![Len(p.walk)] = [top EXCEPT !.deltas = ds]]]
  <1>1. /\ Running /\ Depth > 1 /\ k \in 0 .. Len(E.matches) /\ log' = E.base
        /\ scopes' = Truncated(scopes, E.scopes) /\ branches' = Truncated(branches, E.branches)
        /\ engines' = [Front(engines) EXCEPT ![Depth - 1].walk[Len(p.walk)].deltas = @ \o delta]
    BY DEF FinishNested, At
  <1>2. Depth \in Nat /\ Depth = Len(engines) /\ engines \in Seq(Engines)
    <2>1. Depth \in 1 .. Len(Patterns) /\ Depth = Len(engines) /\ Len(Patterns) \in Nat
      BY <1>1, TopFacts
    <2> QED BY <2>1 DEF Sound
  <1>9. Depth > 1 /\ Depth \in Nat
    BY <1>1, <1>2
  <1>3. up \in 1 .. Depth /\ up \in 1 .. Depth - 1 /\ up + 1 = Depth
    BY <1>9
  <1>4. Asking(p) /\ p \in Engines
    <2>1. Asking(p)
      BY <1>1, <1>3 DEF Sound
    <2> QED BY <1>2, <1>3, <2>1
  <1>5. top \in ElemFrames
    <2>1. p.walk # <<>> /\ p.walk \in Seq(Frames) /\ top.kind = "elem"
      BY <1>4 DEF Asking, Engines, Last
    <2>2. top \in Frames
      BY <2>1
    <2> QED BY <2>1, <2>2, FrameKinds
  <1>6. engines' = [Front(engines) EXCEPT ![up] = q]
    <2>1. Front(engines)[up] = p
      <3>1. engines \in Seq(Engines) /\ Len(engines) > 0 /\ Len(engines) - 1 = up
        BY <1>2, <1>9
      <3>2. \A j \in 1 .. up : Front(engines)[j] = engines[j]
        BY <3>1, FrontFacts
      <3>3. up \in 1 .. up
        BY <1>9
      <3> QED BY <3>2, <3>3
    <2>2. [Front(engines) EXCEPT ![up].walk[Len(p.walk)].deltas = @ \o delta]
          = [Front(engines) EXCEPT ![up] =
                [Front(engines)[up] EXCEPT !.walk =
                   [Front(engines)[up].walk EXCEPT ![Len(p.walk)] =
                      [Front(engines)[up].walk[Len(p.walk)] EXCEPT !.deltas =
                         Front(engines)[up].walk[Len(p.walk)].deltas \o delta]]]]
      OBVIOUS
    <2> QED BY <1>1, <2>1, <2>2
  <1>7. ds \in Seq(Logs)
    <2>1. top.deltas \in Seq(Logs)
      BY <1>5 DEF ElemFrames
    <2>2. delta \in Seq(Logs)
      <3>1. CASE k = 0
        BY <3>1
      <3>2. CASE k # 0
        <4> DEFINE d == SubSeq(taken, Len(E.base) + 1, Len(taken))
        <4>1. d \in Logs
          BY <1>1, <3>2, NestedDelta
        <4>2. delta = <<d>>
          BY <3>2
        <4> HIDE DEF d, delta
        <4> QED BY <4>1, <4>2
      <3> QED BY <3>1, <3>2
    <2> HIDE DEF delta, top
    <2> QED BY <2>1, <2>2
  <1> HIDE DEF ds
  <1>8. \E d \in Seq(Logs) :
            engines' = [Front(engines) EXCEPT ![up] =
                           [p EXCEPT !.walk = [p.walk EXCEPT ![Len(p.walk)] =
                                                  [top EXCEPT !.deltas = d]]]]
    BY <1>6, <1>7
  <1> QED BY <1>1, <1>3, <1>5, <1>8

LEMMA FinishNestedTrace ==
    ASSUME Sound, Tracing, NEW k, FinishNested(k)
    PROVE  Tracing'
  <1> DEFINE up == Depth - 1
             p == engines[up]
             top == p.walk[Len(p.walk)]
  <1>1. /\ Running /\ up \in 1 .. Depth - 1 /\ up + 1 = Depth /\ log' = E.base
        /\ top \in ElemFrames
        /\ scopes' = Truncated(scopes, E.scopes) /\ branches' = Truncated(branches, E.branches)
    BY FinishNestedFacts
  <1>2. PICK ds \in Seq(Logs) :
            engines' = [Front(engines) EXCEPT ![up] =
                           [p EXCEPT !.walk = [p.walk EXCEPT ![Len(p.walk)] =
                                                  [top EXCEPT !.deltas = ds]]]]
    BY FinishNestedFacts
  <1> DEFINE g == [top EXCEPT !.deltas = ds]
             q == [p EXCEPT !.walk = [p.walk EXCEPT ![Len(p.walk)] = g]]
  <1>3. /\ Depth \in Nat /\ Depth = Len(engines) /\ engines \in Seq(Engines) /\ E = engines[Depth]
        /\ E \in Engines
    <2>1. Depth \in 1 .. Len(Patterns) /\ Depth = Len(engines) /\ Len(Patterns) \in Nat
      BY <1>1, TopFacts
    <2> QED BY <1>1, <2>1, TopFacts DEF Sound, E
  <1>4. up \in 1 .. Depth /\ up # Depth /\ Depth \in 1 .. Depth /\ Depth > 1
    <2>1. Depth \in Nat /\ up \in 1 .. Depth - 1 /\ up + 1 = Depth
      BY <1>1, <1>3
    <2> QED BY <2>1
  <1>5. E.scopes \in Nat /\ E.branches \in Nat
    BY <1>3 DEF Engines
  <1>6. Agree(scopes', scopes, E.scopes) /\ Agree(branches', branches, E.branches)
    <2>1. scopes \in Seq(Logs) /\ branches \in Seq(Logs)
      BY DEF Sound
    <2>2. E.scopes =< Len(scopes) /\ E.branches =< Len(branches)
      <3>1. EngineOK(E, Depth, log, scopes, Len(scopes), branches, Len(branches), works)
        BY <1>1, TopFacts
      <3>2. Len(scopes) = E.scopes + Inside(E) /\ Len(branches) >= E.branches
        BY <3>1 DEF EngineOK
      <3>3. Inside(E) \in Nat
        <4>1. E.undo \in Seq(Logs)
          BY <1>3 DEF Engines
        <4> QED BY <4>1 DEF Inside
      <3>4. Len(branches) \in Nat
        BY <2>1
      <3> QED BY <1>5, <3>2, <3>3, <3>4
    <2> QED BY <1>1, <1>5, <2>1, <2>2, ShortFacts DEF Truncated, Agree
  <1>7. /\ EngineOK(p, up, E.base, scopes, E.scopes, branches, E.branches, works) /\ Asking(p)
        /\ Traced(p, E.base, scopes, branches) /\ p \in Engines
    <2>1. /\ EngineOK(engines[up], up, LogAt(up), scopes, ScopesAt(up), branches, BranchesAt(up), works)
          /\ Asking(engines[up]) /\ Traced(engines[up], LogAt(up), scopes, branches)
      BY <1>1, <1>4 DEF Sound, Tracing
    <2>2. LogAt(up) = E.base /\ ScopesAt(up) = E.scopes /\ BranchesAt(up) = E.branches
      BY <1>1, <1>3, <1>4 DEF LogAt, ScopesAt, BranchesAt
    <2>3. p \in Engines
      BY <1>3, <1>4
    <2> QED BY <2>1, <2>2, <2>3
  <1>8. Traced(p, E.base, scopes', branches')
    <2> DEFINE ns == E.scopes
               nb == E.branches
    <2>1. /\ ns \in Nat /\ nb \in Nat /\ EngineOK(p, up, E.base, scopes, ns, branches, nb, works)
          /\ Agree(scopes', scopes, ns) /\ Agree(branches', branches, nb)
          /\ Traced(p, E.base, scopes, branches)
      BY <1>5, <1>6, <1>7
    <2> HIDE DEF ns, nb, up, p
    <2> QED BY <2>1, TracedLater
  <1>9. /\ g \in Frames /\ g.kind = top.kind /\ g.elem = top.elem /\ g.phase = top.phase
        /\ g.orig = top.orig /\ FrameStates(g) = FrameStates(top)
    <2> HIDE DEF top
    <2>1. LET h == [top EXCEPT !.deltas = ds] IN
          /\ h \in Frames /\ h.kind = top.kind /\ h.elem = top.elem /\ h.phase = top.phase
          /\ h.orig = top.orig /\ FrameStates(h) = FrameStates(top)
      BY <1>1, DeltasShape
    <2> QED BY <2>1
  <1> HIDE DEF g
  <1>10. Walked(p.walk) /\ p.walk \in Seq(Frames) /\ p.walk # <<>>
    BY <1>7 DEF EngineOK, Timely, Engines, Asking
  <1>11. Traced(q, E.base, scopes', branches')
    <2> HIDE DEF p
    <2> QED BY <1>7, <1>8, <1>9, <1>10, TopFrameTrace
  <1>12. q \in Engines /\ q.base = p.base
    <2>1. [p.walk EXCEPT ![Len(p.walk)] = g] \in Seq(Frames)
      BY <1>9, <1>10, WalkTop
    <2> HIDE DEF p
    <2> QED BY <1>7, <2>1, WalkShape DEF Alike
  <1>13. engines' = [Front(engines) EXCEPT ![up] = q]
    BY <1>2 DEF g
  <1> HIDE DEF q
  <1>14. /\ Len(engines') = up /\ engines'[up] = q
         /\ \A j \in 1 .. up : j # up => engines'[j] = engines[j]
    <2>1. /\ Front(engines) \in Seq(Engines) /\ Len(Front(engines)) = up
          /\ \A j \in 1 .. up : Front(engines)[j] = engines[j]
      <3>1. engines \in Seq(Engines) /\ Len(engines) > 0 /\ Len(engines) - 1 = up
        BY <1>3, <1>4
      <3> QED BY <3>1, FrontFacts
    <2>2. up \in 1 .. up /\ up \in Nat
      <3>1. up \in 1 .. Depth /\ Depth \in Nat
        BY <1>3, <1>4
      <3> HIDE DEF up
      <3> QED BY <3>1
    <2> HIDE DEF up
    <2>3. /\ Len([Front(engines) EXCEPT ![up] = q]) = up
          /\ [Front(engines) EXCEPT ![up] = q][up] = q
          /\ \A j \in 1 .. up : j # up => [Front(engines) EXCEPT ![up] = q][j] = engines[j]
      BY <1>12, <2>1, <2>2
    <2> QED BY <1>13, <2>3
  <1>15. Depth' = up
    BY <1>14 DEF Depth
  <1>16. Stacked(engines)
    BY <1>1 DEF Sound
  <1>17. ASSUME NEW j \in 1 .. up PROVE Traced(engines'[j], LogAt(j)', scopes', branches')
    <2>1. CASE j = up
      BY <1>1, <1>11, <1>14, <1>15, <2>1 DEF LogAt
    <2>2. CASE j # up
      <3>1. j \in 1 .. Depth /\ j # Depth /\ j + 1 \in 1 .. up /\ j + 1 \in 1 .. Depth /\ j + 1 =< Depth
        <4>1. Depth \in Nat /\ up + 1 = Depth /\ j \in 1 .. up /\ up \in 1 .. Depth
          BY <1>1, <1>3, <1>4
        <4> HIDE DEF up
        <4> QED BY <2>2, <4>1
      <3>2. engines'[j] = engines[j]
        BY <1>14, <2>2
      <3> DEFINE m == engines[j + 1]
      <3>3. engines'[j + 1].base = m.base
        <4>1. CASE j + 1 = up
          BY <1>12, <1>14, <4>1
        <4>2. CASE j + 1 # up
          BY <1>14, <3>1, <4>2
        <4> QED BY <4>1, <4>2
      <3>4. LogAt(j)' = m.base
        BY <1>15, <2>2, <3>3 DEF LogAt
      <3>5. /\ EngineOK(engines[j], j, m.base, scopes, m.scopes, branches, m.branches, works)
            /\ Traced(engines[j], m.base, scopes, branches)
        <4>1. /\ EngineOK(engines[j], j, LogAt(j), scopes, ScopesAt(j), branches, BranchesAt(j), works)
              /\ Traced(engines[j], LogAt(j), scopes, branches)
          BY <1>1, <3>1 DEF Sound, Tracing
        <4> QED BY <3>1, <4>1 DEF LogAt, ScopesAt, BranchesAt
      <3>6. m \in Engines
        BY <1>3, <3>1
      <3>7. m.scopes \in Nat /\ m.branches \in Nat
        BY <3>6 DEF Engines
      <3>8. m.scopes =< E.scopes /\ m.branches =< E.branches
        <4>1. j + 1 \in DOMAIN engines /\ Depth \in DOMAIN engines
          BY <1>3, <1>4, <3>1
        <4> QED BY <1>3, <1>16, <3>1, <4>1 DEF Stacked
      <3>9. Agree(scopes', scopes, m.scopes) /\ Agree(branches', branches, m.branches)
        <4>1. 1 .. m.scopes \subseteq 1 .. E.scopes /\ 1 .. m.branches \subseteq 1 .. E.branches
          BY <1>5, <3>7, <3>8, Within
        <4> QED BY <1>6, <4>1 DEF Agree
      <3> HIDE DEF m
      <3>10. Traced(engines[j], m.base, scopes', branches')
        BY <3>5, <3>7, <3>9, TracedLater
      <3> QED BY <3>2, <3>4, <3>10
    <2> QED BY <2>1, <2>2
  <1> QED BY <1>15, <1>17 DEF Tracing

LEMMA InitTrace ==
    ASSUME Init
    PROVE  Tracing
  <1>1. engines = <<Engine(<<>>, 0, 0)>> /\ log = <<>>
    BY DEF Init
  <1>2. Depth = 1 /\ engines[1] = Engine(<<>>, 0, 0) /\ <<>> \in Logs
    BY <1>1 DEF Depth, Logs
  <1>3. Traced(Engine(<<>>, 0, 0), <<>>, scopes, branches)
    BY <1>2, EngineTrace
  <1> QED BY <1>1, <1>2, <1>3 DEF Tracing, LogAt

LEMMA NextTrace ==
    ASSUME Sound, Tracing, [Next]_vars
    PROVE  Tracing'
  <1>1. ASSUME NEW d \in AllDecisions, NEW w \in Writes,
               \/ BeforeScope(d, w) \/ AfterScope(d, w) \/ AfterDefinition(d, w)
               \/ BeforeElement(d, w) \/ AfterElement(d, w) \/ AfterFailedElement(d, w)
        PROVE  Tracing'
    BY <1>1, BeforeScopeTrace, AfterScopeTrace, AfterDefinitionTrace,
       BeforeElementTrace, AfterElementTrace, AfterFailedElementTrace
  <1>2. ASSUME Searches PROVE Tracing'
    <2>1. ASSUME NEW b \in BOOLEAN, NEW w \in Writes, AskLeaf(b, w) \/ Synthetic(b, w)
          PROVE  Tracing'
      BY <2>1, AskLeafTrace, SyntheticTrace
    <2>2. ASSUME NEW b \in BOOLEAN, Literal(b) PROVE Tracing'
      BY <2>2, LiteralTrace
    <2>3. ASSUME NEW w \in Writes, Complete(w) PROVE Tracing'
      BY <2>3, CompleteTrace
    <2>4. CASE EndOfSequence \/ Branch \/ BranchEnds \/ AskNested
      BY <2>4, EndOfSequenceTrace, BranchTrace, BranchEndsTrace, AskNestedTrace
    <2>5. CASE SelectTypes \/ Skip \/ Incomplete
      BY <2>5, SelectTypesTrace, SkipTrace, IncompleteTrace
    <2> QED BY <1>2, <2>1, <2>2, <2>3, <2>4, <2>5 DEF Searches
  <1>3. CASE FinishMatch
    <2>1. ~Running'
      BY <1>3 DEF FinishMatch, Running
    <2> QED BY <2>1 DEF Tracing
  <1>4. ASSUME NEW k \in 0 .. Cardinality(DOMAIN E.matches), FinishNested(k) PROVE Tracing'
    BY <1>4, FinishNestedTrace
  <1>5. CASE Fault
    <2>1. ~Running'
      BY <1>5 DEF Fault, Running
    <2> QED BY <2>1 DEF Tracing
  <1>6. CASE UNCHANGED vars
    <2>1. log' = log /\ engines' = engines /\ scopes' = scopes /\ branches' = branches /\ result' = result
      BY <1>6 DEF vars
    <2>2. Depth' = Depth /\ (Running' <=> Running)
      BY <2>1 DEF Depth, Running
    <2>3. \A k : LogAt(k)' = LogAt(k)
      BY <2>1, <2>2 DEF LogAt
    <2> QED BY <2>1, <2>2, <2>3 DEF Tracing
  <1>7. Hooks => \E d \in AllDecisions, w \in Writes :
            \/ BeforeScope(d, w) \/ AfterScope(d, w) \/ AfterDefinition(d, w)
            \/ BeforeElement(d, w) \/ AfterElement(d, w) \/ AfterFailedElement(d, w)
    BY DEF Hooks
  <1> QED BY <1>1, <1>2, <1>3, <1>4, <1>5, <1>6, <1>7 DEF Next

LEMMA TracingAlways == Spec => []Tracing
  <1>1. Init => Tracing
    BY InitTrace
  <1>2. Sound /\ Tracing /\ [Next]_vars => Tracing'
    BY NextTrace
  <1> QED BY <1>1, <1>2, SoundAlways, PTL DEF Spec

(* Backtracking isolates branches: whatever patterns, hooks and nested     *)
(* matches, the checkpoint that restore_branch goes back to holds the work *)
(* on the path of that state and nothing else. Where a failed scope that   *)
(* was overridden has left its writes, they are on that path.              *)
THEOREM BranchesCorrect == Spec => []BranchesIsolated
  <1>1. Sound /\ Tracing => BranchesIsolated
    <2>1. ASSUME Sound, Tracing, Running, NEW k \in DOMAIN engines, NEW s \in StatesOf(engines[k]),
                 s.at # 0
          PROVE  branches[s.at] = s.path
      <3>1. k \in 1 .. Depth
        BY <2>1 DEF Depth, Sound
      <3> QED BY <2>1, <3>1 DEF Tracing, Traced
    <2> QED BY <2>1 DEF BranchesIsolated
  <1> QED BY <1>1, SoundAlways, TracingAlways, PTL

(* What a rejected Registration or Pattern scope wrote, its hooks, its     *)
(* elements and its nested matches, is gone when the next scope opens and  *)
(* when a match is closed, for all that hooks may answer; what stays is    *)
(* the log of a failed scope at its override, which the host accepts and   *)
(* the matcher does not (hook_outcome_accepted).                           *)
THEOREM ScopesCorrect == Spec => []RejectedScopesUndone
  <1>1. Sound /\ Tracing => RejectedScopesUndone
    <2>1. ASSUME Sound, Tracing, Running PROVE Following(E) => log = E.path
      BY <2>1, TraceFacts DEF Traced
    <2> QED BY <2>1 DEF RejectedScopesUndone, Following
  <1> QED BY <1>1, SoundAlways, TracingAlways, PTL

-----------------------------------------------------------------------------
(* The first candidate the host accepts is the selected one.  A match is   *)
(* adopted in the state in which it was accepted; where nothing else was   *)
(* accepted before it, that state is the selected one.                     *)
Keeps(e, f) ==
    f.selected = e.selected /\ f.chosen = e.chosen /\ f.cand = e.cand /\ f.matches = e.matches

LEMMA SamePicked ==
    ASSUME NEW e, NEW f, Picked(e), Keeps(e, f),
           \/ ~Overridden(e) /\ e.at # "finish"
           \/ f.at = e.at /\ f.from = e.from /\ f.scope = e.scope
    PROVE  Picked(f)
  BY DEF Picked, Keeps, Overridden

LEMMA TopPicked ==
    ASSUME Sound, Picking, Running, result' = result,
           NEW f, engines' = [engines EXCEPT ![Depth] = f], Picked(f), Awaiting(f, last')
    PROVE  Picking'
  <1>1. engines \in Seq(Engines) /\ Depth = Len(engines) /\ Depth \in Nat /\ Depth \in 1 .. Depth
    BY TopFacts DEF Sound
  <1>2. Depth' = Depth /\ \A k \in 1 .. Depth : engines'[k] = IF k = Depth THEN f ELSE engines[k]
    BY <1>1 DEF Depth
  <1>3. result' \notin {"unmatched", "error"}
    BY DEF Running
  <1>4. E' = f
    BY <1>1, <1>2 DEF E
  <1> QED BY <1>2, <1>3, <1>4 DEF Picking

LEMMA PickedTop ==
    ASSUME Sound, Picking, Running
    PROVE  Picked(E)
  <1>1. Depth \in 1 .. Depth
    BY TopFacts
  <1> QED BY <1>1 DEF Picking, E

(* A step within a pattern changes no match.                               *)
LEMMA WalkPicked ==
    ASSUME Sound, Picking, Running, E.at = "walk", result' = result,
           NEW wk, Put([E EXCEPT !.walk = wk])
    PROVE  Picking'
  <1> DEFINE f == [E EXCEPT !.walk = wk]
  <1>1. E \in Engines
    BY TopFacts
  <1>2. f.at = "walk" /\ Keeps(E, f)
    BY <1>1 DEF Engines, Keeps
  <1>3. engines' = [engines EXCEPT ![Depth] = f]
    BY DEF Put
  <1> HIDE DEF f
  <1>4. Picked(f) /\ Awaiting(f, last')
    BY <1>2, PickedTop, SamePicked DEF Overridden, Awaiting
  <1> QED BY <1>3, <1>4, TopPicked

(* A step between scopes that keeps the matches.                           *)
LEMMA KinPicked ==
    ASSUME Sound, Picking, Running, result' = result, ~Overridden(E), E.at # "finish",
           NEW f, engines' = [engines EXCEPT ![Depth] = f],
           Keeps(E, f), ~Overridden(f)
    PROVE  Picking'
  <1>1. Picked(f) /\ Awaiting(f, last')
    BY PickedTop, SamePicked DEF Awaiting
  <1> QED BY <1>1, TopPicked

LEMMA StepPicked ==
    ASSUME Sound, Picking, Running, E.at = "walk", result' = result, NEW g, Step(g)
    PROVE  Picking'
  <1> DEFINE wk == [E.walk EXCEPT ![Len(E.walk)] = g]
  <1>1. Put([E EXCEPT !.walk = wk])
    BY DEF Step
  <1> HIDE DEF wk
  <1> QED BY <1>1, WalkPicked

LEMMA PushPicked ==
    ASSUME Sound, Picking, Running, E.at = "walk", result' = result, NEW f, NEW g, Push(f, g)
    PROVE  Picking'
  <1> DEFINE wk == Front(E.walk) \o <<f, g>>
  <1>1. Put([E EXCEPT !.walk = wk])
    BY TopFacts DEF Push
  <1> HIDE DEF wk
  <1> QED BY <1>1, WalkPicked

LEMMA LeavePicked ==
    ASSUME Sound, Picking, Running, E.at = "walk", result' = result, NEW kept, Leave(kept)
    PROVE  Picking'
  <1> DEFINE parent == E.walk[Len(E.walk) - 1]
             i == Head(parent.agenda).i
             p == [parent EXCEPT !.agenda = [k \in DOMAIN kept |-> [s |-> kept[k], i |-> i + 1]]
                                            \o Tail(@)]
             wk == Append(SubSeq(E.walk, 1, Len(E.walk) - 2), p)
  <1>1. Put([E EXCEPT !.walk = wk])
    BY TopFacts DEF Leave
  <1> HIDE DEF wk
  <1> QED BY <1>1, WalkPicked

LEMMA WalkingPicked ==
    ASSUME Sound, Picking,
           \/ EndOfSequence \/ Branch \/ SelectTypes
           \/ \E b \in BOOLEAN : Literal(b)
           \/ \E b \in BOOLEAN, w \in Writes : AskLeaf(b, w)
           \/ \E d \in AllDecisions, w \in Writes :
                 BeforeElement(d, w) \/ AfterElement(d, w) \/ AfterFailedElement(d, w)
    PROVE  Picking'
  <1>1. CASE EndOfSequence \/ SelectTypes \/ (\E b \in BOOLEAN : Literal(b))
             \/ \E b \in BOOLEAN, w \in Writes : AskLeaf(b, w)
    <2>1. Running /\ E.at = "walk" /\ result' = result /\ \E g : Step(g)
      BY <1>1 DEF EndOfSequence, SelectTypes, Literal, AskLeaf, Walking, Default, At
    <2> QED BY <2>1, StepPicked
  <1>2. CASE Branch
    <2>1. Running /\ E.at = "walk" /\ result' = result
      BY <1>2 DEF Branch, Walking, Default, At
    <2>2. (\E g : Step(g)) \/ \E f, g : Push(f, g)
      BY <1>2 DEF Branch
    <2> QED BY <2>1, <2>2, StepPicked, PushPicked
  <1>3. ASSUME NEW d \in AllDecisions, NEW w \in Writes, BeforeElement(d, w)
        PROVE  Picking'
    <2>1. Running /\ E.at = "walk" /\ result' = result /\ \E f, g : Push(f, g)
      BY <1>3 DEF BeforeElement, Walking, At
    <2> QED BY <2>1, PushPicked
  <1>4. ASSUME NEW d \in AllDecisions, NEW w \in Writes, AfterElement(d, w)
        PROVE  Picking'
    <2>1. Running /\ E.at = "walk" /\ result' = result
      BY <1>4 DEF AfterElement, Walking, At
    <2>2. (\E g : Step(g)) \/ \E kept : Leave(kept)
      BY <1>4 DEF AfterElement
    <2> QED BY <2>1, <2>2, StepPicked, LeavePicked
  <1>5. ASSUME NEW d \in AllDecisions, NEW w \in Writes, AfterFailedElement(d, w)
        PROVE  Picking'
    <2>1. Running /\ E.at = "walk" /\ result' = result /\ \E kept : Leave(kept)
      BY <1>5 DEF AfterFailedElement, Walking, At
    <2> QED BY <2>1, LeavePicked
  <1> QED BY <1>1, <1>2, <1>3, <1>4, <1>5

LEMMA BranchEndsPicked ==
    ASSUME Sound, Picking, BranchEnds
    PROVE  Picking'
  <1> DEFINE parent == E.walk[Len(E.walk) - 1]
             p == [parent EXCEPT !.trans = @ \o Frame.found]
             wk == Append(SubSeq(E.walk, 1, Len(E.walk) - 2), p)
             f == [E EXCEPT !.at = "complete", !.walk = <<>>, !.finals = Frame.found]
  <1>1. Running /\ E.at = "walk" /\ result' = result /\ E \in Engines
    BY TopFacts DEF BranchEnds, Walking, At
  <1>2. Put(IF Len(E.walk) = 1 THEN f ELSE [E EXCEPT !.walk = wk])
    BY DEF BranchEnds
  <1>3. f.at = "complete" /\ Keeps(E, f)
    BY <1>1 DEF Engines, Keeps
  <1> HIDE DEF f, wk
  <1>4. CASE Len(E.walk) = 1
    <2>1. engines' = [engines EXCEPT ![Depth] = f]
      BY <1>2, <1>4 DEF Put
    <2> QED BY <1>1, <1>3, <2>1, KinPicked DEF Overridden
  <1>5. CASE Len(E.walk) # 1
    BY <1>1, <1>2, <1>5, WalkPicked
  <1> QED BY <1>4, <1>5

LEMMA FinalsPicked ==
    ASSUME Sound, Picking, Skip \/ Incomplete \/ \E w \in Writes : Complete(w)
    PROVE  Picking'
  <1>1. Running /\ E.at = "complete" /\ result' = result /\ E \in Engines
    BY TopFacts DEF Skip, Incomplete, Complete, At
  <1>2. PICK f : /\ engines' = [engines EXCEPT ![Depth] = f]
                 /\ f.at # "synthesize" /\ Keeps(E, f)
    <2>1. CASE Skip
      <3> DEFINE f == [E EXCEPT !.finals = Tail(@)]
      <3>1. f.at = "complete" /\ Keeps(E, f)
        BY <1>1 DEF Engines, Keeps
      <3>2. engines' = [engines EXCEPT ![Depth] = f]
        BY <2>1 DEF Skip, Put
      <3> QED BY <3>1, <3>2
    <2>2. CASE Incomplete
      <3> DEFINE f == Closes(E, "pattern", FALSE)
      <3>1. f.at = "after" /\ Keeps(E, f)
        BY <1>1 DEF Engines, Closes, Keeps
      <3>2. engines' = [engines EXCEPT ![Depth] = f]
        BY <2>2 DEF Incomplete, Put
      <3> QED BY <3>1, <3>2
    <2>3. ASSUME NEW w \in Writes, Complete(w)
          PROVE  \E f : /\ engines' = [engines EXCEPT ![Depth] = f]
                        /\ f.at # "synthesize" /\ Keeps(E, f)
      <3> DEFINE s == Head(E.finals)
                 c == [E EXCEPT !.finals = <<>>, !.val = E.pat, !.path = s.path \o w]
                 f == Closes(c, "pattern", TRUE)
      <3>1. f.at = "after" /\ Keeps(E, f)
        BY <1>1 DEF Engines, Closes, Keeps
      <3>2. engines' = [engines EXCEPT ![Depth] = f]
        BY <2>3 DEF Complete, Put
      <3> QED BY <3>1, <3>2
    <2> QED BY <2>1, <2>2, <2>3
  <1> QED BY <1>1, <1>2, KinPicked DEF Overridden

LEMMA BeforeScopePicked ==
    ASSUME Sound, Picking, NEW d, NEW w, BeforeScope(d, w)
    PROVE  Picking'
  <1> DEFINE begun == [E EXCEPT !.path = (IF E.scope = "definition" THEN E.base ELSE @) \o w,
                                !.undo = Append(@, E.path)]
             f == CASE d = "fail"  -> Closes([begun EXCEPT !.val = 0], E.scope, FALSE)
                    [] d = "match" -> Synthesize(begun, "before")
                    [] OTHER -> IF E.scope = "pattern"
                         THEN [begun EXCEPT !.at = "walk", !.walk = <<Start(begun)>>]
                         ELSE Opens(begun, IF E.scope = "definition" THEN "registration"
                                           ELSE "pattern")
  <1>1. /\ Running /\ E.at = "before" /\ result' = result
        /\ engines' = [engines EXCEPT ![Depth] = f]
    BY DEF BeforeScope, At, Put
  <1>2. w \in Logs
    BY HookFacts DEF BeforeScope
  <1>3. E \in Engines /\ Room(E, Depth)
    BY <1>1, CalmFacts
  <1>4. /\ Kin(E, begun) /\ begun.cand = E.cand /\ begun.pat = E.pat /\ begun.scope = E.scope
    BY <1>2, <1>3, BegunShape
  <1> HIDE DEF begun
  <1>5. begun \in Engines /\ Room(begun, Depth) /\ E.scope \in ScopeNames
    BY <1>3, <1>4, Names DEF Kin, Room
  <1>6. Keeps(begun, f) /\ ~Overridden(f)
    <2>1. CASE d = "fail"
      <3> DEFINE b == [begun EXCEPT !.val = 0]
      <3>1. Keeps(begun, b) /\ b \in Engines
        BY <1>5 DEF Engines, Keeps
      <3>2. f = Closes(b, E.scope, FALSE)
        BY <2>1
      <3> HIDE DEF b, f
      <3>3. LET g == Closes(b, E.scope, FALSE) IN Kin(b, g) /\ g.cand = b.cand /\ g.at = "after"
        BY <1>5, <3>1, ClosesShape
      <3> QED BY <3>1, <3>2, <3>3 DEF Kin, Keeps, Overridden
    <2>2. CASE d = "match"
      <3>1. f = Synthesize(begun, "before")
        BY <2>2
      <3> HIDE DEF f
      <3>2. LET g == Synthesize(begun, "before") IN Kin(begun, g) /\ g.cand = begun.cand /\ g.from = "before"
        BY <1>1, <1>5, SynthesizeShape
      <3> QED BY <3>1, <3>2 DEF Kin, Keeps, Overridden
    <2>3. CASE d # "fail" /\ d # "match" /\ E.scope # "pattern"
      <3> DEFINE next == IF E.scope = "definition" THEN "registration" ELSE "pattern"
      <3>1. f = Opens(begun, next) /\ next \in ScopeNames
        BY <2>3, Names
      <3> HIDE DEF f, next
      <3>2. LET g == Opens(begun, next) IN Kin(begun, g) /\ g.cand = begun.cand /\ g.at = "before"
        BY <1>5, <3>1, OpensShape
      <3> QED BY <3>1, <3>2 DEF Kin, Keeps, Overridden
    <2>4. CASE d # "fail" /\ d # "match" /\ E.scope = "pattern"
      <3> DEFINE s == Start(begun)
      <3>1. f = [begun EXCEPT !.at = "walk", !.walk = <<s>>]
        BY <2>4
      <3> HIDE DEF s
      <3>2. f.at = "walk" /\ Keeps(begun, f)
        BY <1>5, <3>1 DEF Engines, Keeps
      <3> QED BY <3>2 DEF Overridden
    <2> QED BY <2>1, <2>2, <2>3, <2>4
  <1> HIDE DEF f
  <1>7. Keeps(E, f) /\ ~Overridden(E)
    BY <1>1, <1>4, <1>6 DEF Kin, Keeps, Overridden
  <1> QED BY <1>1, <1>6, <1>7, KinPicked

LEMMA AfterScopePicked ==
    ASSUME Sound, Picking, NEW d, NEW w, AfterScope(d, w)
    PROVE  Picking'
  <1> DEFINE c == Closed(E, d, w)
             outer == IF E.scope = "pattern" THEN "registration" ELSE "definition"
             f == IF Adopts(E, d)
                  THEN IF E.won THEN Closes(c, outer, TRUE) ELSE Synthesize(c, "after")
                  ELSE IF E.scope = "pattern" THEN NextPattern(c)
                  ELSE Closes(c, outer, FALSE)
  <1>1. /\ Running /\ E.at = "after" /\ E.scope # "definition" /\ result' = result
        /\ engines' = [engines EXCEPT ![Depth] = f]
    BY DEF AfterScope, At, Put
  <1>2. w \in Logs /\ log \in Logs
    BY HookFacts DEF AfterScope, Sound
  <1>3. E \in Engines /\ Room(E, Depth) /\ Len(E.undo) > 0
    <2>1. E \in Engines /\ Room(E, Depth) /\ Len(E.undo) = Opened(E)
      BY <1>1, CalmFacts
    <2> QED BY <1>1, <2>1 DEF Opened, Level
  <1>4. Kin(E, c) /\ c.cand = E.cand /\ c.pat = E.pat /\ c.scope = E.scope
    BY <1>2, <1>3, ClosedShape
  <1> HIDE DEF c
  <1>5. c \in Engines /\ Room(c, Depth) /\ outer \in ScopeNames
    BY <1>3, <1>4, Names DEF Kin, Room
  <1>6. Keeps(c, f) /\ ~Overridden(f)
    <2> HIDE DEF outer
    <2>1. \A won \in BOOLEAN : LET g == Closes(c, outer, won) IN Kin(c, g) /\ g.cand = c.cand /\ g.at = "after"
      BY <1>5, ClosesShape
    <2>2. LET g == Synthesize(c, "after") IN Kin(c, g) /\ g.cand = c.cand /\ g.scope = c.scope
      BY <1>1, <1>5, SynthesizeShape
    <2>3. LET g == NextPattern(c) IN Kin(c, g) /\ g.cand = c.cand /\ g.at \in {"before", "after"}
      BY <1>1, <1>5, NextPatternShape
    <2>4. f \in {Closes(c, outer, TRUE), Closes(c, outer, FALSE), Synthesize(c, "after"), NextPattern(c)}
      OBVIOUS
    <2> HIDE DEF f
    <2> QED BY <1>1, <1>4, <2>1, <2>2, <2>3, <2>4 DEF Kin, Keeps, Overridden
  <1> HIDE DEF f
  <1>7. Keeps(E, f) /\ ~Overridden(E)
    BY <1>1, <1>4, <1>6 DEF Kin, Keeps, Overridden
  <1> QED BY <1>1, <1>6, <1>7, KinPicked

LEMMA AppendFacts ==
    ASSUME NEW S, NEW s \in Seq(S), NEW x \in S
    PROVE  /\ Append(s, x) # <<>> /\ Head(Append(s, x)) = IF s = <<>> THEN x ELSE Head(s)
           /\ \A k \in DOMAIN Append(s, x) :
                 Append(s, x)[k] = x \/ (k \in DOMAIN s /\ Append(s, x)[k] = s[k])
  <1> DEFINE t == Append(s, x)
  <1>1. /\ t \in Seq(S) /\ Len(t) = Len(s) + 1 /\ Len(s) \in Nat
        /\ \A k \in 1 .. Len(s) + 1 : t[k] = IF k = Len(s) + 1 THEN x ELSE s[k]
    OBVIOUS
  <1>2. DOMAIN t = 1 .. Len(s) + 1 /\ DOMAIN s = 1 .. Len(s)
    BY <1>1
  <1> HIDE DEF t
  <1>3. \A k \in DOMAIN t : t[k] = x \/ (k \in DOMAIN s /\ t[k] = s[k])
    BY <1>1, <1>2
  <1>4. t # <<>> /\ Head(t) = t[1]
    BY <1>1
  <1>5. Head(t) = IF s = <<>> THEN x ELSE Head(s)
    <2>1. CASE s = <<>>
      BY <1>1, <1>4, <2>1
    <2>2. CASE s # <<>>
      <3>1. Len(s) >= 1 /\ Head(s) = s[1]
        BY <2>2
      <3> QED BY <1>1, <1>4, <2>2, <3>1
    <2> QED BY <2>1, <2>2
  <1> QED BY <1>3, <1>4, <1>5 DEF t

(* A match is added to those there are, and the first of them stays first. *)
LEMMA MorePicked ==
    ASSUME NEW e \in Engines, Picked(e), NEW l \in Logs, NEW m \in Matches,
           m.state = {l}, m.want = l, m.cand = e.cand,
           NEW f \in Engines, f.matches = Append(e.matches, m),
           f.cand >= e.cand, f.cand = e.cand => f.at = "finish",
           f.selected # {}, f.chosen \in 1 .. e.cand, f.chosen = e.cand => f.selected = {l},
           e.matches # <<>> => f.selected = e.selected /\ f.chosen = e.chosen
    PROVE  Picked(f)
  <1> DEFINE ms == e.matches
             more == Append(ms, m)
  <1>1. ms \in Seq(Matches) /\ f.matches = more
    BY DEF Engines
  <1>3. /\ more # <<>> /\ Head(more) = IF ms = <<>> THEN m ELSE Head(ms)
        /\ \A k \in DOMAIN more : more[k] = m \/ (k \in DOMAIN ms /\ more[k] = ms[k])
    <2> HIDE DEF ms
    <2> QED BY <1>1, AppendFacts
  <1>2. /\ \A k \in DOMAIN ms : ms[k].state = {ms[k].want}
        /\ ms # <<>> => /\ e.chosen \in 1 .. Head(ms).cand
                        /\ e.chosen = Head(ms).cand => e.selected = {Head(ms).want}
        /\ ms # <<>> => f.selected = e.selected /\ f.chosen = e.chosen
    BY DEF Picked
  <1> HIDE DEF ms, more
  <1>4. /\ f.chosen \in 1 .. Head(more).cand
        /\ f.chosen = Head(more).cand => f.selected = {Head(more).want}
    <2>1. CASE ms = <<>>
      <3>1. Head(more).cand = e.cand /\ Head(more).want = l
        BY <1>3, <2>1
      <3> QED BY <3>1
    <2>2. CASE ms # <<>>
      <3>1. Head(more) = Head(ms)
        BY <1>3, <2>2
      <3>2. f.chosen = e.chosen /\ f.selected = e.selected
        BY <1>2, <2>2
      <3>3. /\ e.chosen \in 1 .. Head(ms).cand
            /\ e.chosen = Head(ms).cand => e.selected = {Head(ms).want}
        BY <1>2, <2>2
      <3> QED BY <3>1, <3>2, <3>3
    <2> QED BY <2>1, <2>2
  <1>5. \A k \in DOMAIN more : more[k].state = {more[k].want}
    BY <1>2, <1>3
  <1>6. e.cand \in Nat /\ f.cand \in Nat /\ f.chosen \in Nat
    BY DEF Engines, Count
  <1>7. f.chosen # 0 /\ f.chosen =< f.cand /\ (f.chosen = f.cand => f.at = "finish")
    BY <1>6
  <1> QED BY <1>1, <1>3, <1>4, <1>5, <1>7 DEF Picked

(* No match is added.                                                      *)
LEMMA OtherPicked ==
    ASSUME NEW e, Picked(e), NEW f, f.matches = e.matches, f.selected = {} <=> f.chosen = 0,
           f.chosen =< f.cand, f.chosen = f.cand => Overridden(f) \/ f.at = "finish",
           e.matches # <<>> => f.selected = e.selected /\ f.chosen = e.chosen
    PROVE  Picked(f)
  BY DEF Picked

LEMMA AfterDefinitionPicked ==
    ASSUME Sound, Tracing, Picking, NEW d, NEW w, AfterDefinition(d, w)
    PROVE  Picking'
  <1> DEFINE now == log \o w
             accepted == IF E.won THEN d \in {"continue", "match"} ELSE d = "match"
             selected == Selection(E, now, accepted)
             first == accepted /\ E.selected = {}
             c == Closed(E, d, w)
             p == [c EXCEPT !.selected = selected, !.chosen = IF first THEN E.cand ELSE @]
             keep == Adopts(E, d) /\ (E.won \/ E.val # 0)
             f == IF keep THEN Matched(p, {now})
                  ELSE IF Adopts(E, d) THEN Synthesize(p, "after")
                  ELSE NextCandidate(p)
  <1>1. /\ Running /\ E.at = "after" /\ E.scope = "definition" /\ result' = result
        /\ last' = IF keep THEN {} ELSE IF accepted THEN {now} ELSE last
        /\ engines' = [engines EXCEPT ![Depth] = f]
    BY DEF AfterDefinition, At, Put
  <1>2. /\ w \in WritesAt(works) /\ w \in Logs /\ works' = works + Len(w)
        /\ works' \in Nat /\ works' >= works
    BY HookFacts DEF AfterDefinition
  <1>3. /\ E \in Engines /\ Room(E, Depth) /\ E.undo \in Seq(Logs) /\ Len(E.undo) = Opened(E)
    BY <1>1, CalmFacts
  <1>4. Len(E.undo) > 0 /\ log \in Logs
    BY <1>1, <1>3 DEF Opened, Level, Sound
  <1>5. now \in Logs
    <2>1. log \o w \in LogsFrom(E.base, works') /\ LogsFrom(E.base, works') \subseteq Logs
      BY <1>1, <1>2, LogFacts
    <2> QED BY <2>1
  <1>6. Picked(E) /\ E.chosen \in Nat /\ E.cand \in Nat /\ E.cand > 0
    BY <1>1, <1>3, PickedTop DEF Engines, Count
  <1>7. /\ E.selected = {} <=> E.chosen = 0
        /\ E.chosen < E.cand /\ (E.matches # <<>> => E.selected # {})
    BY <1>1, <1>6 DEF Picked, Overridden
  <1>8. Adopts(E, d) => accepted
    BY DEF Adopts
  <1>9. selected = (IF first THEN {now} ELSE E.selected) /\ selected \in SUBSET Logs
    BY <1>3, <1>5 DEF Selection, Engines
  <1>10. /\ Kin(E, c) /\ c.cand = E.cand /\ c.pat = E.pat /\ c.scope = E.scope
         /\ c.path = IF Overrides(E, d) THEN log \o w
                     ELSE IF Adopts(E, d) THEN E.path \o w ELSE E.undo[Len(E.undo)]
    BY <1>2, <1>3, <1>4, ClosedShape
  <1>11. E.won => log = E.path
    <2>1. Traced(E, log, scopes, branches)
      BY <1>1, TraceFacts
    <2> QED BY <1>1, <2>1 DEF Traced, Following
  <1>12. Adopts(E, d) => c.path = now
    BY <1>10, <1>11 DEF Adopts, Overrides
  <1> HIDE DEF c, selected, now
  <1> DEFINE ch == IF first THEN E.cand ELSE E.chosen
  <1>13. /\ selected = {} <=> ch = 0
         /\ ch \in Nat /\ ch =< E.cand /\ (ch = E.cand => selected = {now})
         /\ accepted => selected # {}
         /\ E.matches # <<>> => selected = E.selected /\ ch = E.chosen
    BY <1>6, <1>7, <1>9
  <1>14. p \in Engines
    <2> HIDE DEF first
    <2> QED BY <1>6, <1>9, <1>10 DEF Kin, Engines
  <1>15. /\ p.selected = selected /\ p.chosen = ch /\ p.matches = E.matches /\ p.cand = E.cand
         /\ p.pat = E.pat /\ p.path = c.path /\ p.scope = E.scope
    <2> HIDE DEF first
    <2> QED BY <1>10, <1>14 DEF Kin, Engines
  <1>16. Room(p, Depth) /\ {now} \in SUBSET Logs
    BY <1>3, <1>5, <1>15 DEF Room
  <1> HIDE DEF p, ch, first, accepted
  <1>17. CASE keep
    <2> DEFINE m == [cand |-> p.cand, state |-> {now}, want |-> p.path]
    <2>1. f = Matched(p, {now}) /\ Adopts(E, d) /\ accepted
      BY <1>8, <1>17
    <2>2. engines' = [engines EXCEPT ![Depth] = f]
      BY <1>1
    <2> HIDE DEF f, keep
    <2>3. LET g == Matched(p, {now}) IN
          /\ g \in Engines /\ g.selected = p.selected /\ g.chosen = p.chosen
          /\ g.matches = Append(p.matches, m)
          /\ \/ g.at = "before" /\ g.scope = "definition" /\ g.cand = p.cand + 1
             \/ g.at = "finish" /\ g.cand = p.cand
      BY <1>1, <1>14, <1>16, MatchedShape
    <2>4. m \in Matches /\ m.state = {now} /\ m.want = now /\ m.cand = E.cand
      BY <1>5, <1>6, <1>12, <1>15, <2>1 DEF Matches
    <2> HIDE DEF m
    <2>8. /\ f \in Engines /\ f.matches = Append(E.matches, m) /\ f.selected = selected
          /\ f.chosen = ch /\ f.at \in {"before", "finish"}
      BY <1>15, <2>1, <2>3
    <2>9. f.cand = E.cand + 1 \/ (f.cand = E.cand /\ f.at = "finish")
      BY <1>15, <2>1, <2>3
    <2>5. /\ f \in Engines /\ f.matches = Append(E.matches, m)
          /\ f.cand >= E.cand /\ (f.cand = E.cand => f.at = "finish")
          /\ f.selected = selected /\ f.chosen = ch /\ ~Overridden(f)
      BY <1>6, <2>8, <2>9 DEF Overridden
    <2>6. f.selected # {} /\ f.chosen \in 1 .. E.cand
      BY <1>6, <1>13, <2>1, <2>5
    <2>7. Picked(f)
      BY <1>3, <1>5, <1>6, <1>13, <2>4, <2>5, <2>6, MorePicked
    <2> QED BY <1>1, <2>2, <2>5, <2>7, TopPicked DEF Awaiting
  <1>18. CASE ~keep /\ Adopts(E, d)
    <2>1. f = Synthesize(p, "after") /\ last' = {now}
      BY <1>1, <1>8, <1>18
    <2>2. engines' = [engines EXCEPT ![Depth] = f]
      BY <1>1
    <2> HIDE DEF f, keep
    <2>3. LET g == Synthesize(p, "after") IN
          /\ Kin(p, g) /\ g.cand = p.cand /\ g.path = p.path
          /\ g.at = "synthesize" /\ g.scope = p.scope /\ g.from = "after"
      BY <1>1, <1>14, <1>16, SynthesizeShape
    <2>4. /\ f.selected = selected /\ f.chosen = ch /\ f.matches = E.matches /\ f.cand = E.cand
          /\ f.path = now /\ Overridden(f)
      BY <1>1, <1>12, <1>15, <1>18, <2>1, <2>3 DEF Kin, Overridden
    <2>5. Picked(f)
      BY <1>6, <1>13, <2>4, OtherPicked
    <2>6. Awaiting(f, last')
      BY <1>13, <2>1, <2>4 DEF Awaiting
    <2> QED BY <1>1, <2>2, <2>5, <2>6, TopPicked
  <1>19. CASE ~keep /\ ~Adopts(E, d)
    <2>1. f = NextCandidate(p)
      BY <1>19
    <2>2. engines' = [engines EXCEPT ![Depth] = f]
      BY <1>1
    <2> HIDE DEF f, keep
    <2>3. LET g == NextCandidate(p) IN
          /\ Kin(p, g)
          /\ \/ g.at = "before" /\ g.scope = "definition" /\ g.cand = p.cand + 1
             \/ g.at = "finish" /\ g.cand = p.cand
      BY <1>1, <1>14, <1>16, NextCandidateShape
    <2>4. /\ f.selected = selected /\ f.chosen = ch /\ f.matches = E.matches /\ ~Overridden(f)
          /\ f.cand = E.cand + 1 \/ (f.cand = E.cand /\ f.at = "finish")
      BY <1>15, <2>1, <2>3 DEF Kin, Overridden
    <2>5. ch =< f.cand /\ (ch = f.cand => f.at = "finish")
      BY <1>6, <1>13, <2>4
    <2>6. Picked(f)
      BY <1>6, <1>13, <2>4, <2>5, OtherPicked
    <2> QED BY <1>1, <2>2, <2>4, <2>6, TopPicked DEF Awaiting
  <1> QED BY <1>17, <1>18, <1>19

LEMMA SyntheticPicked ==
    ASSUME Sound, Picking, NEW completes \in BOOLEAN, NEW w, Synthetic(completes, w)
    PROVE  Picking'
  <1> DEFINE done == [E EXCEPT !.val = Head(E.synth), !.synth = <<>>, !.path = @ \o w]
             none == [E EXCEPT !.synth = Tail(@)]
             deaf == [none EXCEPT !.deaf = TRUE]
             here == [done EXCEPT !.path = E.path]
             outer == IF E.scope = "pattern" THEN "registration" ELSE "definition"
             f == CASE completes /\ E.from = "before" -> Closes(done, E.scope, TRUE)
                    [] completes /\ E.from = "after" ->
                         IF E.scope = "definition" THEN Matched(here, last) ELSE Closes(done, outer, TRUE)
                    [] OTHER ->
                         IF none.synth # <<>> THEN none
                         ELSE IF E.scope = "pattern"
                         THEN IF E.from = "before" THEN Closes(none, "pattern", FALSE)
                              ELSE NextPattern(none)
                         ELSE IF E.from = "before" THEN Closes(deaf, E.scope, FALSE)
                         ELSE IF E.scope = "registration" THEN Closes(deaf, "definition", FALSE)
                         ELSE NextCandidate(none)
  <1>1. /\ Running /\ E.at = "synthesize" /\ result' = result
        /\ ~completes => last' = last
        /\ engines' = [engines EXCEPT ![Depth] = f]
    BY DEF Synthetic, At, Put
  <1>2. w \in Logs
    BY <1>1, WriteFacts DEF Synthetic, Sound
  <1>3. E \in Engines /\ Room(E, Depth) /\ E.synth # <<>>
    BY <1>1, CalmFacts
  <1>4. E.from \in {"before", "after"} /\ E.scope \in ScopeNames
    BY <1>3, Names DEF Engines
  <1>5. /\ Kin(E, done) /\ done.cand = E.cand /\ done.pat = E.pat
        /\ Kin(E, none) /\ none.cand = E.cand /\ none.pat = E.pat /\ none.from = E.from
        /\ none.scope = E.scope /\ none.at = E.at /\ none.path = E.path
        /\ Kin(E, deaf) /\ deaf.cand = E.cand /\ deaf.pat = E.pat
    BY <1>2, <1>3, SynthShape
  <1> HIDE DEF done, none, deaf
  <1>6. /\ Kin(E, here) /\ here.cand = E.cand /\ here.pat = E.pat /\ here.path = E.path
    BY <1>3, <1>5, HereShape
  <1> HIDE DEF here
  <1>7. /\ Room(none, Depth) /\ done \in Engines /\ none \in Engines /\ deaf \in Engines
        /\ Room(here, Depth) /\ here \in Engines
    BY <1>3, <1>5, <1>6 DEF Room, Kin
  <1>8. Picked(E) /\ E.chosen \in Nat /\ E.cand \in Nat /\ Awaiting(E, last)
    BY <1>1, <1>3, PickedTop DEF Engines, Count, Picking
  <1>9. CASE Overridden(E)
    <2>1. /\ E.from = "after" /\ E.scope = "definition" /\ last = {E.path} /\ E.path \in Logs
          /\ E.chosen = E.cand => E.selected = last
      BY <1>3, <1>8, <1>9 DEF Overridden, Awaiting, Engines
    <2>2. E.selected # {} /\ (E.selected = {} <=> E.chosen = 0) /\ E.chosen =< E.cand
      BY <1>1, <1>8, <1>9 DEF Sound, Picked
    <2>3. engines' = [engines EXCEPT ![Depth] = f]
      BY <1>1
    <2>4. CASE completes
      <3> DEFINE m == [cand |-> here.cand, state |-> last, want |-> here.path]
      <3>1. f = Matched(here, last)
        BY <2>1, <2>4
      <3> HIDE DEF f
      <3>2. LET g == Matched(here, last) IN
            /\ g \in Engines /\ g.selected = here.selected /\ g.chosen = here.chosen
            /\ g.matches = Append(here.matches, m)
            /\ \/ g.at = "before" /\ g.scope = "definition" /\ g.cand = here.cand + 1
               \/ g.at = "finish" /\ g.cand = here.cand
        BY ZenonT(60), <1>1, <1>7, <2>1, MatchedShape
      <3>3. m \in Matches /\ m.state = {E.path} /\ m.want = E.path /\ m.cand = E.cand
        BY <1>6, <1>8, <2>1 DEF Matches
      <3> HIDE DEF m
      <3>4. /\ f \in Engines /\ f.matches = Append(E.matches, m)
            /\ f.cand >= E.cand /\ (f.cand = E.cand => f.at = "finish")
            /\ f.selected = E.selected /\ f.chosen = E.chosen /\ ~Overridden(f)
        BY <1>6, <1>8, <3>1, <3>2 DEF Kin, Overridden
      <3>5. f.selected # {} /\ f.chosen \in 1 .. E.cand /\ (f.chosen = E.cand => f.selected = {E.path})
        BY <1>8, <2>1, <2>2, <3>4
      <3>6. Picked(f)
        BY <1>3, <1>8, <2>1, <3>3, <3>4, <3>5, MorePicked
      <3> QED BY <1>1, <2>3, <3>4, <3>6, TopPicked DEF Awaiting
    <2>5. CASE ~completes /\ none.synth # <<>>
      <3>1. f = none
        BY <2>5
      <3> HIDE DEF f
      <3>2. Keeps(E, f) /\ f.at = E.at /\ f.from = E.from /\ f.scope = E.scope /\ f.path = E.path
        BY <1>5, <3>1 DEF Kin, Keeps
      <3>3. Picked(f) /\ Awaiting(f, last')
        BY <1>1, <1>8, <2>1, <2>5, <3>2, SamePicked DEF Awaiting, Keeps
      <3> QED BY <1>1, <2>3, <3>3, TopPicked
    <2>6. CASE ~completes /\ none.synth = <<>>
      <3>1. f = NextCandidate(none)
        BY <2>1, <2>6
      <3> HIDE DEF f
      <3>2. LET g == NextCandidate(none) IN
            /\ Kin(none, g)
            /\ \/ g.at = "before" /\ g.scope = "definition" /\ g.cand = none.cand + 1
               \/ g.at = "finish" /\ g.cand = none.cand
        BY <1>1, <1>7, NextCandidateShape
      <3>3. /\ f.selected = E.selected /\ f.chosen = E.chosen /\ f.matches = E.matches
            /\ ~Overridden(f)
            /\ f.cand = E.cand + 1 \/ (f.cand = E.cand /\ f.at = "finish")
        BY <1>5, <3>1, <3>2 DEF Kin, Overridden
      <3>4. f.chosen =< f.cand /\ (f.chosen = f.cand => f.at = "finish")
        BY <1>8, <2>2, <3>3
      <3>5. Picked(f)
        BY <1>8, <2>2, <3>3, <3>4, OtherPicked
      <3> QED BY <1>1, <2>3, <3>3, <3>5, TopPicked DEF Awaiting
    <2> QED BY <2>4, <2>5, <2>6
  <1>10. CASE ~Overridden(E)
    <2> DEFINE Ends == {Closes(e, scope, won) : e \in {done, none, deaf}, scope \in ScopeNames, won \in BOOLEAN}
    <2>1. E.from = "before" \/ E.scope # "definition"
      BY <1>1, <1>4, <1>10 DEF Overridden
    <2>2. f \in Ends \/ f = none \/ f = NextPattern(none)
      <3>1. E.scope \in ScopeNames /\ outer \in ScopeNames /\ "pattern" \in ScopeNames /\ "definition" \in ScopeNames
        BY <1>3, Names
      <3> HIDE DEF Ends
      <3>2. \A e \in {done, none, deaf}, scope \in ScopeNames, won \in BOOLEAN : Closes(e, scope, won) \in Ends
        BY DEF Ends
      <3>3. \/ f = Closes(done, E.scope, TRUE) \/ f = Closes(done, outer, TRUE)
            \/ f = Closes(none, "pattern", FALSE) \/ f = Closes(deaf, E.scope, FALSE)
            \/ f = Closes(deaf, "definition", FALSE)
            \/ f = none \/ f = NextPattern(none)
        BY <1>4, <2>1, <3>1 DEF ScopeNames
      <3> HIDE DEF f, outer
      <3> QED BY <3>1, <3>2, <3>3
    <2>3. engines' = [engines EXCEPT ![Depth] = f]
      BY <1>1
    <2> HIDE DEF f
    <2>4. ASSUME NEW e \in {done, none, deaf}, NEW scope \in ScopeNames, NEW won \in BOOLEAN
          PROVE  LET g == Closes(e, scope, won) IN Keeps(E, g) /\ ~Overridden(g)
      <3>1. LET g == Closes(e, scope, won) IN Kin(e, g) /\ g.cand = e.cand /\ g.at = "after"
        BY <1>7, ClosesShape
      <3> QED BY <1>5, <3>1 DEF Kin, Keeps, Overridden
    <2>5. LET g == NextPattern(none) IN Keeps(E, g) /\ ~Overridden(g)
      <3>1. LET g == NextPattern(none) IN
            Kin(none, g) /\ g.cand = none.cand /\ g.at \in {"before", "after"}
        BY <1>1, <1>7, NextPatternShape
      <3> QED BY <1>5, <3>1 DEF Kin, Keeps, Overridden
    <2>6. Keeps(E, none) /\ ~Overridden(none)
      BY <1>5, <2>1 DEF Kin, Keeps, Overridden
    <2>7. Keeps(E, f) /\ ~Overridden(f)
      BY <2>2, <2>4, <2>5, <2>6
    <2> QED BY <1>1, <1>10, <2>3, <2>7, KinPicked
  <1> QED BY <1>9, <1>10

LEMMA AskNestedPicked ==
    ASSUME Sound, Picking, AskNested
    PROVE  Picking'
  <1> DEFINE wk == [E.walk EXCEPT ![Len(E.walk)] = [E.walk[Len(E.walk)] EXCEPT !.part = 3]]
             q == [E EXCEPT !.walk = wk]
             e == Engine(log, Len(scopes), Len(branches))
  <1>1. /\ Running /\ E.at = "walk" /\ result' = result
        /\ engines' = Append([engines EXCEPT ![Depth].walk[Len(E.walk)].part = 3], e)
    BY DEF AskNested, Default, Walking, At, Frame
  <1>2. /\ Depth = Len(engines) /\ Depth \in Nat /\ Depth > 0 /\ E \in Engines
        /\ engines \in Seq(Engines)
    BY <1>1, TopFacts DEF Sound
  <1>3. engines' = Append([engines EXCEPT ![Depth] = q], e)
    <2>1. [engines EXCEPT ![Depth].walk[Len(E.walk)].part = 3] = [engines EXCEPT ![Depth] = q]
      BY DEF E
    <2> QED BY <1>1, <2>1
  <1> HIDE DEF wk
  <1>4. q.at = "walk" /\ Keeps(E, q)
    BY <1>1, <1>2 DEF Engines, Keeps
  <1>5. e.at = "before" /\ e.selected = {} /\ e.chosen = 0 /\ e.cand = 1 /\ e.matches = <<>>
    BY DEF Engine
  <1> HIDE DEF q, e
  <1>6. Picked(q)
    BY <1>1, <1>4, PickedTop, SamePicked DEF Overridden
  <1>7. Picked(e) /\ Awaiting(e, last')
    BY <1>5 DEF Picked, Overridden, Awaiting
  <1>8. /\ Len(engines') = Depth + 1 /\ engines'[Depth + 1] = e
        /\ \A k \in 1 .. Depth : engines'[k] = IF k = Depth THEN q ELSE engines[k]
    <2> DEFINE es == [engines EXCEPT ![Depth] = q]
    <2>1. /\ DOMAIN es = 1 .. Depth /\ Len(es) = Depth
          /\ \A k \in 1 .. Depth : es[k] = IF k = Depth THEN q ELSE engines[k]
      BY <1>2
    <2>2. engines' = Append(es, e)
      BY <1>3
    <2>3. es \in Seq(Engines \cup {q})
      BY <1>2
    <2> HIDE DEF es
    <2> QED BY <1>2, <2>1, <2>2, <2>3
  <1>9. Depth' = Depth + 1 /\ E' = e /\ result' \notin {"unmatched", "error"}
    BY <1>1, <1>8 DEF Depth, E, Running
  <1>10. ASSUME NEW k \in 1 .. Depth + 1 PROVE Picked(engines'[k])
    <2>1. CASE k = Depth + 1
      BY <1>7, <1>8, <2>1
    <2>2. CASE k = Depth
      BY <1>2, <1>6, <1>8, <2>2
    <2>3. CASE k \in 1 .. Depth /\ k # Depth
      BY <1>8, <2>3 DEF Picking
    <2> QED BY <1>2, <2>1, <2>2, <2>3
  <1> QED BY <1>7, <1>9, <1>10 DEF Picking

LEMMA FinishNestedPicked ==
    ASSUME Sound, Picking, NEW k, FinishNested(k)
    PROVE  Picking'
  <1> DEFINE up == Depth - 1
             p == engines[up]
             top == p.walk[Len(p.walk)]
  <1>1. /\ Running /\ up \in 1 .. Depth - 1 /\ up + 1 = Depth
        /\ \E ds \in Seq(Logs) :
              engines' = [Front(engines) EXCEPT ![up] =
                             [p EXCEPT !.walk = [p.walk EXCEPT ![Len(p.walk)] =
                                                    [top EXCEPT !.deltas = ds]]]]
    BY FinishNestedFacts
  <1>2. PICK wk : engines' = [Front(engines) EXCEPT ![up] = [p EXCEPT !.walk = wk]]
    BY <1>1
  <1>3. /\ Depth = Len(engines) /\ Depth \in Nat /\ engines \in Seq(Engines) /\ Depth > 0
        /\ up \in Nat /\ up \in 1 .. Depth
    <2>1. Depth = Len(engines) /\ Depth \in 1 .. Len(Patterns) /\ Len(Patterns) \in Nat
      BY <1>1, TopFacts
    <2>2. Depth \in Nat /\ Depth > 0 /\ engines \in Seq(Engines)
      BY <1>1, <2>1 DEF Sound
    <2> HIDE DEF p
    <2> QED BY <1>1, <2>1, <2>2
  <1>4. p \in Engines /\ Picked(p)
    BY <1>3 DEF Picking
  <1> DEFINE q == [p EXCEPT !.walk = wk]
  <1>12. p.at = "walk"
    <2>1. Asking(p) /\ Phased(p)
      <3>1. Asking(p)
        BY <1>1 DEF Sound
      <3>2. EngineOK(p, up, LogAt(up), scopes, ScopesAt(up), branches, BranchesAt(up), works)
        BY <1>1, <1>3 DEF Sound
      <3> QED BY <3>1, <3>2 DEF EngineOK, Timely
    <2> QED BY <2>1 DEF Asking, Phased
  <1>5. Keeps(p, q) /\ q.at = p.at /\ q.from = p.from /\ q.scope = p.scope
    BY <1>4 DEF Engines, Keeps
  <1>6. engines' = [Front(engines) EXCEPT ![up] = q]
    BY <1>2
  <1> HIDE DEF q, p
  <1>7. Picked(q) /\ Awaiting(q, last')
    BY <1>4, <1>5, <1>12, SamePicked DEF Awaiting, Overridden
  <1>8. /\ Front(engines) \in Seq(Engines) /\ Len(Front(engines)) = up
        /\ \A j \in 1 .. up : Front(engines)[j] = engines[j]
    <2>1. Len(engines) - 1 = up /\ Len(engines) > 0
      BY <1>3
    <2> HIDE DEF up
    <2> QED BY <1>3, <2>1, FrontFacts
  <1>9. Len(engines') = up /\ \A j \in 1 .. up : engines'[j] = IF j = up THEN q ELSE engines[j]
    <2> HIDE DEF up
    <2> QED BY <1>3, <1>6, <1>8
  <1>10. Depth' = up /\ E' = q /\ result' \notin {"unmatched", "error"}
    BY <1>1, <1>3, <1>9 DEF Depth, E, FinishNested, Running
  <1>11. \A j \in 1 .. up : Picked(engines'[j])
    <2>1. \A j \in 1 .. up : j \in 1 .. Depth
      BY <1>3
    <2> HIDE DEF up
    <2> QED BY <1>7, <1>9, <2>1 DEF Picking
  <1> QED BY <1>7, <1>10, <1>11 DEF Picking

LEMMA EndPicked ==
    ASSUME Sound, Picking, FinishMatch \/ Fault
    PROVE  Picking'
  <1>1. Running /\ engines \in Seq(Engines) /\ Len(engines) > 0 /\ 1 \in 1 .. Depth
    <2>1. Running
      BY DEF FinishMatch, Fault, At
    <2>2. Depth \in 1 .. Len(Patterns) /\ Depth = Len(engines) /\ Len(Patterns) \in Nat
      BY <2>1, TopFacts
    <2> QED BY <2>1, <2>2 DEF Sound
  <1>2. CASE FinishMatch
    <2>1. /\ Depth = 1 /\ engines' = engines
          /\ log' = IF E.matches # <<>> THEN Selected ELSE E.base
          /\ result' = IF E.matches # <<>> THEN "matched" ELSE "unmatched"
      BY <1>2 DEF FinishMatch
    <2>2. E = engines[1] /\ Depth' = Depth /\ ~Running'
      BY <2>1 DEF E, Depth, Running
    <2>3. result' \in {"unmatched", "error"} => log' = engines'[1].base
      BY <2>1, <2>2
    <2> QED BY <2>1, <2>2, <2>3 DEF Picking
  <1>3. CASE Fault
    <2>1. engines' = <<engines[1]>> /\ log' = engines[1].base
      BY <1>3 DEF Fault
    <2>2. Depth' = 1 /\ engines'[1] = engines[1] /\ ~Running'
      BY <1>3, <2>1 DEF Depth, Fault, Running
    <2> QED BY <1>1, <2>1, <2>2 DEF Picking
  <1> QED BY <1>2, <1>3

LEMMA InitPicked == Init => Picking
  <1> SUFFICES ASSUME Init PROVE Picking
    OBVIOUS
  <1> DEFINE e == Engine(<<>>, 0, 0)
  <1>1. engines = <<e>> /\ result = "running"
    BY DEF Init
  <1>2. e.at = "before" /\ e.selected = {} /\ e.chosen = 0 /\ e.cand = 1 /\ e.matches = <<>>
    BY DEF Engine
  <1> HIDE DEF e
  <1>3. Depth = 1 /\ engines[1] = e /\ E = e
    BY <1>1 DEF Depth, E
  <1>4. Picked(e) /\ Awaiting(e, last)
    BY <1>2 DEF Picked, Overridden, Awaiting
  <1> QED BY <1>1, <1>3, <1>4 DEF Picking

LEMMA NextPicked ==
    ASSUME Sound, Tracing, Picking, [Next]_vars
    PROVE  Picking'
  <1>1. ASSUME NEW d \in AllDecisions, NEW w \in Writes,
               \/ BeforeScope(d, w) \/ AfterScope(d, w) \/ AfterDefinition(d, w)
               \/ BeforeElement(d, w) \/ AfterElement(d, w) \/ AfterFailedElement(d, w)
        PROVE  Picking'
    BY <1>1, BeforeScopePicked, AfterScopePicked, AfterDefinitionPicked, WalkingPicked
  <1>2. ASSUME Searches PROVE Picking'
    <2>1. ASSUME NEW b \in BOOLEAN, NEW w \in Writes, AskLeaf(b, w) \/ Synthetic(b, w)
          PROVE  Picking'
      BY <2>1, WalkingPicked, SyntheticPicked
    <2>2. ASSUME NEW b \in BOOLEAN, Literal(b) PROVE Picking'
      BY <2>2, WalkingPicked
    <2>3. ASSUME NEW w \in Writes, Complete(w) PROVE Picking'
      BY <2>3, FinalsPicked
    <2>4. CASE EndOfSequence \/ Branch \/ SelectTypes
      BY <2>4, WalkingPicked
    <2>5. CASE BranchEnds \/ AskNested \/ Skip \/ Incomplete
      BY <2>5, BranchEndsPicked, AskNestedPicked, FinalsPicked
    <2> QED BY <1>2, <2>1, <2>2, <2>3, <2>4, <2>5 DEF Searches
  <1>3. CASE FinishMatch \/ Fault
    BY <1>3, EndPicked
  <1>4. ASSUME NEW k \in 0 .. Cardinality(DOMAIN E.matches), FinishNested(k) PROVE Picking'
    BY <1>4, FinishNestedPicked
  <1>5. CASE UNCHANGED vars
    <2>1. log' = log /\ engines' = engines /\ result' = result /\ last' = last
      BY <1>5 DEF vars
    <2>2. Depth' = Depth /\ E' = E /\ (Running' <=> Running)
      BY <2>1 DEF Depth, E, Running
    <2> QED BY <2>1, <2>2 DEF Picking
  <1>6. Hooks => \E d \in AllDecisions, w \in Writes :
            \/ BeforeScope(d, w) \/ AfterScope(d, w) \/ AfterDefinition(d, w)
            \/ BeforeElement(d, w) \/ AfterElement(d, w) \/ AfterFailedElement(d, w)
    BY DEF Hooks
  <1> QED BY <1>1, <1>2, <1>3, <1>4, <1>5, <1>6 DEF Next

(* Every match carries the state in which its candidate was accepted, for  *)
(* all that hooks may answer.  The state selected when the match is over   *)
(* is that of the first candidate the host accepted: of the first match,   *)
(* or of one before it, overridden, that came to nothing; and a match that *)
(* ends without one leaves the transaction as it was.                      *)
THEOREM SelectedCorrect == Spec => []SelectedStateKept
  <1>1. Init => Picking
    BY InitPicked
  <1>2. Sound /\ Tracing /\ Picking /\ [Next]_vars => Picking'
    BY NextPicked
  <1>3. Sound /\ Picking => SelectedStateKept
    <2>1. ASSUME Sound, Picking, NEW k \in DOMAIN engines, NEW m \in Range(engines[k].matches)
          PROVE  m.state = {m.want}
      <3>1. Picked(engines[k])
        BY <2>1 DEF Depth, Sound, Picking
      <3>2. PICK j \in DOMAIN engines[k].matches : m = engines[k].matches[j]
        BY DEF Range
      <3> QED BY <3>1, <3>2 DEF Picked
    <2>2. ASSUME Sound, Picking, Running, E.matches # <<>>
          PROVE  /\ E.chosen \in 1 .. Head(E.matches).cand
                 /\ E.chosen = Head(E.matches).cand => E.selected = {Head(E.matches).want}
      BY <2>2, PickedTop DEF Picked
    <2>3. Picking => (result \in {"unmatched", "error"} => log = engines[1].base)
      BY DEF Picking
    <2> QED BY <2>1, <2>2, <2>3 DEF SelectedStateKept
  <1> QED BY <1>1, <1>2, <1>3, SoundAlways, TracingAlways, PTL DEF Spec
=============================================================================
