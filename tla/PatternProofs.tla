---------------------------- MODULE PatternProofs ----------------------------
(***************************************************************************)
(* Proofs about PatternMatch, for all patterns and all decisions of hooks: *)
(* what the host puts aside is what the matcher will ask for.              *)
(***************************************************************************)
EXTENDS PatternMatch, FiniteSetTheorems, TLAPS

Count      == Nat \ {0}
Written    == [for : Nat, nr : Nat]
Logs       == Seq(Written)
States     == [at : Nat, path : Logs]
Items      == [s : States, i : Count]
SeqFrames  == [kind : {"seq"}, elems : Seq(Elements), agenda : Seq(Items), found : Seq(States)]
ElemFrames == [kind : {"elem"}, elem : Elements, phase : {"default", "after"},
               part : Count, orig : States, deltas : Seq(Logs),
               kept : Seq(States), trans : Seq(States)]
Frames     == SeqFrames \cup ElemFrames
Matches    == [cand : Nat, state : SUBSET Logs, want : Logs]
ScopeNames == {"definition", "registration", "pattern"}
Engines    == [base : Logs, selected : SUBSET Logs, chosen : Nat, scopes : Nat, branches : Nat,
               cand : Count, pat : Count,
               at : {"before", "walk", "complete", "after", "synthesize", "finish"},
               scope : ScopeNames,
               won : BOOLEAN, deaf : BOOLEAN, val : Nat, synth : Seq(Nat),
               from : {"before", "after"}, walk : Seq(Frames), finals : Seq(States),
               matches : Seq(Matches), path : Logs, undo : Seq(Logs)]

(* A log holds the works in their order, up to n; one of an invocation     *)
(* begins with the log the invocation began from.                          *)
Sorted(l, n) == \A i \in DOMAIN l :
    l[i].nr =< n /\ \A j \in DOMAIN l : i < j => l[i].nr < l[j].nr
Begins(b, l) == Len(b) =< Len(l) /\ \A i \in DOMAIN b : l[i] = b[i]
LogsFrom(b, n) == {l \in Logs : Sorted(l, n) /\ Begins(b, l)}

(* The scopes an invocation has open.                                      *)
Level(scope) == IF scope = "definition" THEN 1 ELSE IF scope = "registration" THEN 2 ELSE 3
Opened(e) ==
    IF e.at = "finish" THEN 0
    ELSE IF e.at = "before" \/ (e.at = "synthesize" /\ e.from = "after") THEN Level(e.scope) - 1
    ELSE Level(e.scope)
Inside(e) == IF Len(e.undo) < 2 THEN 0 ELSE Len(e.undo) - 1
Phased(e) ==
    /\ Len(e.undo) = Opened(e)
    /\ e.at \in {"walk", "complete"} => e.scope = "pattern"
    /\ e.at = "walk" <=> e.walk # <<>>
    /\ e.at # "complete" => e.finals = <<>>
    /\ e.at = "synthesize" => e.synth # <<>>

(* Sequences and elements take turns; what is below the top waits for it.  *)
Walked(walk) ==
    /\ walk # <<>> => walk[1].kind = "seq"
    /\ \A j \in DOMAIN walk : j # Len(walk) =>
          /\ walk[j].kind = "seq" <=> walk[j + 1].kind = "elem"
          /\ walk[j].kind = "seq" => walk[j].agenda # <<>>
          /\ walk[j].kind = "elem" => /\ walk[j].elem.kind \in {"choice", "option"}
                                      /\ walk[j].phase = "default"

Asking(e) == /\ e.walk # <<>> /\ Last(e.walk).kind = "elem"
             /\ Last(e.walk).elem.kind = "type" /\ Last(e.walk).phase = "default"

Timely(e, depth) ==
    /\ e.cand =< Len(Patterns[depth]) /\ e.pat =< Len(Patterns[depth][e.cand])
    /\ Phased(e) /\ Walked(e.walk)

(* What the host has put aside for an invocation from the log it began     *)
(* with: the logs of its scopes, of its checkpoints, and its matches.      *)
Aside(seq, from, to, logs) == \A j \in from + 1 .. to : seq[j] \in logs
Found(e, logs) ==
    /\ e.selected \subseteq logs /\ (e.matches # <<>> => e.selected # {})
    /\ \A k \in DOMAIN e.matches : e.matches[k].state # {} /\ e.matches[k].state \subseteq logs
Checked(e, nb) == \A s \in StatesOf(e) : s.at = 0 \/ s.at \in e.branches + 1 .. nb
Deferred(e, lg, logs) ==
    Asking(e) => \A k \in DOMAIN Last(e.walk).deltas : lg \o Last(e.walk).deltas[k] \in logs

EngineOK(e, depth, lg, sc, ns, br, nb, n) ==
    /\ e \in Engines /\ Timely(e, depth)
    /\ Sorted(e.base, n) /\ lg \in LogsFrom(e.base, n)
    /\ ns = e.scopes + Inside(e) /\ Aside(sc, e.scopes, ns, LogsFrom(e.base, n))
    /\ nb >= e.branches /\ Aside(br, e.branches, nb, LogsFrom(e.base, n))
    /\ Found(e, LogsFrom(e.base, n))
    /\ Checked(e, nb)
    /\ Deferred(e, lg, LogsFrom(e.base, n))

LogAt(k)      == IF k = Depth THEN log ELSE engines[k + 1].base
ScopesAt(k)   == IF k = Depth THEN Len(scopes) ELSE engines[k + 1].scopes
BranchesAt(k) == IF k = Depth THEN Len(branches) ELSE engines[k + 1].branches

Overridden(e) == e.at = "synthesize" /\ e.from = "after" /\ e.scope = "definition"

(* What an invocation has put aside lies above what the outer ones have.   *)
Stacked(es) ==
    \A k, l \in DOMAIN es : k =< l =>
        es[k].scopes =< es[l].scopes /\ es[k].branches =< es[l].branches

Sound ==
    /\ works \in 0 .. MaxWork /\ decisions \in 0 .. MaxDecisions
    /\ result \in {"running", "matched", "unmatched", "error"}
    /\ engines \in Seq(Engines) /\ Depth \in 1 .. Len(Patterns)
    /\ scopes \in Seq(Logs) /\ branches \in Seq(Logs)
    /\ log \in Logs /\ Sorted(log, works)
    /\ \A k \in 1 .. Depth : Len(engines[k].undo) =< 3
    /\ Running =>
         /\ engines[1].base = <<>> /\ engines[1].scopes = 0 /\ engines[1].branches = 0
         /\ \A k \in 1 .. Depth :
               EngineOK(engines[k], k, LogAt(k), scopes, ScopesAt(k), branches, BranchesAt(k), works)
         /\ Stacked(engines) /\ \A k \in 1 .. Depth - 1 : Asking(engines[k])
         /\ Overridden(E) => last # {} /\ last \subseteq LogsFrom(E.base, works) /\ E.selected # {}
    /\ ~Running => scopes = <<>> /\ branches = <<>>

-----------------------------------------------------------------------------
(* Sequences.                                                              *)
LEMMA SeqEqual ==
    ASSUME NEW S, NEW s \in Seq(S), NEW t \in Seq(S), Len(s) = Len(t),
           \A i \in 1 .. Len(s) : s[i] = t[i]
    PROVE  s = t
  OBVIOUS

LEMMA ShortFacts ==
    ASSUME NEW S, NEW s \in Seq(S), NEW n \in Nat, n =< Len(s)
    PROVE  /\ SubSeq(s, 1, n) \in Seq(S) /\ Len(SubSeq(s, 1, n)) = n
           /\ \A j \in 1 .. n : SubSeq(s, 1, n)[j] = s[j]
  <1>1. SubSeq(s, 1, n) = [j \in 1 .. n |-> s[j]]
    OBVIOUS
  <1>2. SubSeq(s, 1, n) \in Seq(S)
    OBVIOUS
  <1>3. Len(SubSeq(s, 1, n)) = n
    OBVIOUS
  <1> QED BY <1>1, <1>2, <1>3

LEMMA FrontFacts ==
    ASSUME NEW S, NEW s \in Seq(S), Len(s) > 0
    PROVE  /\ Front(s) \in Seq(S) /\ Len(Front(s)) = Len(s) - 1
           /\ \A j \in 1 .. Len(s) - 1 : Front(s)[j] = s[j]
  <1>1. Len(s) - 1 \in Nat /\ Len(s) - 1 =< Len(s)
    <2>1. Len(s) \in Nat
      OBVIOUS
    <2> QED BY <2>1
  <1> QED BY <1>1, ShortFacts DEF Front

LEMMA MoreFacts ==
    ASSUME NEW S, NEW s \in Seq(S), NEW x \in S
    PROVE  /\ s \o <<x>> \in Seq(S) /\ DOMAIN (s \o <<x>>) = 1 .. Len(s) + 1 /\ Len(s) \in Nat
           /\ (s \o <<x>>)[Len(s) + 1] = x /\ \A j \in 1 .. Len(s) : (s \o <<x>>)[j] = s[j]
  OBVIOUS

LEMMA TailFacts ==
    ASSUME NEW S, NEW s \in Seq(S), s # <<>>
    PROVE  /\ Head(s) = s[1] /\ Head(s) \in S /\ Len(s) > 0 /\ Len(s) \in Nat
           /\ Tail(s) \in Seq(S) /\ Len(Tail(s)) = Len(s) - 1
           /\ \A j \in 1 .. Len(s) - 1 : Tail(s)[j] = s[j + 1]
  OBVIOUS

-----------------------------------------------------------------------------
(* Logs.                                                                   *)
WritesAt(n) == {<<>>} \cup {<<[for |-> c, nr |-> n + 1]>> : c \in Nat}

LEMMA LogNumbers == \A l \in Logs : \A i \in DOMAIN l : l[i].nr \in Nat
  <1>1. ASSUME NEW l \in Logs, NEW i \in DOMAIN l PROVE l[i] \in Written
    BY DEF Logs
  <1> QED BY <1>1 DEF Written

LEMMA LogsLater ==
    ASSUME NEW n \in Nat, NEW m \in Nat, m >= n, NEW b
    PROVE  /\ LogsFrom(b, n) \subseteq LogsFrom(b, m)
           /\ \A l \in Logs : Sorted(l, n) => Sorted(l, m)
  <1>1. ASSUME NEW l \in Logs, Sorted(l, n) PROVE Sorted(l, m)
    <2>1. \A i \in DOMAIN l : l[i].nr \in Nat
      BY LogNumbers
    <2> QED BY <1>1, <2>1 DEF Sorted
  <1> QED BY <1>1 DEF LogsFrom

LEMMA LogsGrow ==
    ASSUME NEW n \in Nat, NEW b \in Logs, NEW l \in LogsFrom(b, n), NEW w \in WritesAt(n)
    PROVE  l \o w \in LogsFrom(b, n + Len(w))
  <1>1. l \in Logs /\ Sorted(l, n) /\ Begins(b, l)
    BY DEF LogsFrom
  <1>2. CASE w = <<>>
    BY <1>1, <1>2 DEF LogsFrom, Logs
  <1>3. ASSUME NEW c \in Nat, w = <<[for |-> c, nr |-> n + 1]>> PROVE l \o w \in LogsFrom(b, n + Len(w))
    <2> DEFINE x == [for |-> c, nr |-> n + 1]
    <2>1. x \in Written /\ x.nr = n + 1
      BY DEF Written
    <2> HIDE DEF x
    <2>2. w = <<x>> /\ Len(w) = 1
      BY <1>3 DEF x
    <2>3. /\ l \o w \in Logs /\ DOMAIN (l \o w) = 1 .. Len(l) + 1 /\ Len(l) \in Nat
          /\ Len(l \o w) = Len(l) + 1
          /\ DOMAIN l = 1 .. Len(l) /\ (l \o w)[Len(l) + 1] = x
          /\ \A i \in DOMAIN l : (l \o w)[i] = l[i]
      BY <1>1, <2>1, <2>2 DEF Logs
    <2>4. \A i \in DOMAIN l : l[i].nr \in Nat
      BY <1>1, LogNumbers
    <2>5. Sorted(l \o w, n + 1)
      BY <1>1, <2>1, <2>3, <2>4 DEF Sorted
    <2>6. Begins(b, l \o w)
      BY <1>1, <2>3 DEF Begins, Logs
    <2> QED BY <2>2, <2>3, <2>5, <2>6 DEF LogsFrom
  <1> QED BY <1>2, <1>3 DEF WritesAt

LEMMA LogsBegin ==
    ASSUME NEW n \in Nat, NEW b \in Logs, Sorted(b, n)
    PROVE  b \in LogsFrom(b, n) /\ b \in LogsFrom(<<>>, n)
  BY DEF LogsFrom, Begins, Logs

(* What a nested match has written is what follows where it began.         *)
LEMMA LogsSince ==
    ASSUME NEW n \in Nat, NEW b \in Logs, NEW l \in LogsFrom(b, n)
    PROVE  /\ SubSeq(l, Len(b) + 1, Len(l)) \in Logs
           /\ b \o SubSeq(l, Len(b) + 1, Len(l)) = l
  <1>1. /\ l \in Logs /\ Len(b) =< Len(l) /\ \A i \in DOMAIN b : l[i] = b[i]
        /\ Len(b) \in Nat /\ Len(l) \in Nat /\ DOMAIN b = 1 .. Len(b)
    BY DEF LogsFrom, Begins, Logs
  <1> DEFINE rest == SubSeq(l, Len(b) + 1, Len(l))
  <1>2. /\ rest \in Logs /\ Len(rest) = Len(l) - Len(b)
        /\ \A i \in 1 .. Len(l) - Len(b) : rest[i] = l[Len(b) + i]
    BY <1>1 DEF Logs
  <1>3. /\ b \o rest \in Logs /\ Len(b \o rest) = Len(l)
        /\ \A i \in 1 .. Len(l) : (b \o rest)[i] = IF i =< Len(b) THEN b[i] ELSE rest[i - Len(b)]
    BY <1>1, <1>2 DEF Logs
  <1>4. \A i \in 1 .. Len(l) : (b \o rest)[i] = l[i]
    BY <1>1, <1>2, <1>3
  <1> QED BY <1>1, <1>2, <1>3, <1>4, SeqEqual DEF Logs

-----------------------------------------------------------------------------
(* Engines.                                                                *)
Agree(new, old, n) == \A j \in 1 .. n : new[j] = old[j]

LEMMA EngineLater ==
    ASSUME NEW n \in Nat, NEW m \in Nat, m >= n, NEW e, NEW depth, NEW lg, NEW sc, NEW ns \in Nat,
           NEW br, NEW nb \in Nat, EngineOK(e, depth, lg, sc, ns, br, nb, n), NEW sd, NEW bs,
           Agree(sd, sc, ns), Agree(bs, br, nb)
    PROVE  EngineOK(e, depth, lg, sd, ns, bs, nb, m)
  <1> DEFINE from == LogsFrom(e.base, n)
             to   == LogsFrom(e.base, m)
  <1>1. e.base \in Logs /\ e.scopes \in Nat /\ e.branches \in Nat
    BY DEF EngineOK, Engines
  <1>2. from \subseteq to /\ Sorted(e.base, m)
    BY <1>1, LogsLater DEF EngineOK
  <1>3. /\ lg \in from /\ Aside(sc, e.scopes, ns, from) /\ Aside(br, e.branches, nb, from)
        /\ Found(e, from) /\ Deferred(e, lg, from)
    BY DEF EngineOK
  <1> HIDE DEF from, to
  <1>4. Aside(sd, e.scopes, ns, to) /\ Aside(bs, e.branches, nb, to)
    BY <1>1, <1>2, <1>3 DEF Aside, Agree
  <1>5. Found(e, to) /\ Deferred(e, lg, to) /\ lg \in to
    BY <1>2, <1>3 DEF Found, Deferred
  <1> QED BY <1>2, <1>4, <1>5 DEF EngineOK, to

LEMMA Within == \A a, b \in Nat : a =< b => 1 .. a \subseteq 1 .. b
  OBVIOUS

LEMMA TopFacts ==
    ASSUME Sound, Running
    PROVE  /\ EngineOK(E, Depth, log, scopes, Len(scopes), branches, Len(branches), works)
           /\ Depth \in 1 .. Len(Patterns) /\ Depth = Len(engines) /\ Len(Patterns) \in Nat
           /\ works \in Nat /\ Len(scopes) \in Nat /\ Len(branches) \in Nat
           /\ E \in Engines /\ engines[1].cand \in Nat
  <1>1. engines \in Seq(Engines) /\ Depth \in 1 .. Len(Patterns) /\ Len(Patterns) \in Nat
    BY PatternsAssumption DEF Sound
  <1>2. EngineOK(engines[Depth], Depth, LogAt(Depth), scopes, ScopesAt(Depth), branches,
                 BranchesAt(Depth), works)
    BY <1>1 DEF Sound
  <1>3. EngineOK(E, Depth, log, scopes, Len(scopes), branches, Len(branches), works)
    BY <1>2 DEF E, LogAt, ScopesAt, BranchesAt
  <1>4. E \in Engines /\ engines[1] \in Engines
    BY <1>1 DEF E, Depth
  <1>5. works \in Nat /\ Len(scopes) \in Nat /\ Len(branches) \in Nat
    BY PatternsAssumption DEF Sound
  <1>6. engines[1].cand \in Nat
    BY <1>4 DEF Engines, Count
  <1> QED BY <1>1, <1>3, <1>4, <1>5, <1>6 DEF Depth

(* The invocations below the top of the stack are not disturbed by a step  *)
(* of the top that keeps what they have put aside.                         *)
LEMMA TopStep ==
    ASSUME Sound, Running, result' = result,
           NEW e, engines' = [engines EXCEPT ![Depth] = e],
           e.base = E.base, e.scopes = E.scopes, e.branches = E.branches, Len(e.undo) =< 3,
           works' \in works .. MaxWork, decisions' \in 0 .. MaxDecisions,
           scopes' \in Seq(Logs), branches' \in Seq(Logs),
           \A j \in 1 .. E.scopes : scopes'[j] = scopes[j],
           \A j \in 1 .. E.branches : branches'[j] = branches[j],
           EngineOK(e, Depth, log', scopes', Len(scopes'), branches', Len(branches'), works'),
           Overridden(e) => last' # {} /\ last' \subseteq LogsFrom(e.base, works') /\ e.selected # {}
    PROVE  Sound'
  <1>1. /\ engines \in Seq(Engines) /\ Depth \in 1 .. Len(Patterns) /\ Depth = Len(engines)
        /\ works \in Nat /\ works' \in Nat /\ Len(Patterns) \in Nat /\ MaxWork \in Nat
    BY SMTT(30), TopFacts, PatternsAssumption DEF Sound
  <1>2. /\ e \in Engines /\ engines' \in Seq(Engines) /\ Len(engines') = Len(engines)
        /\ engines'[Depth] = e /\ \A k \in 1 .. Depth : k # Depth => engines'[k] = engines[k]
    BY <1>1 DEF EngineOK
  <1>3. Depth' = Depth /\ E' = e /\ E = engines[Depth]
    BY <1>1, <1>2 DEF Depth, E
  <1>4. log' \in Logs /\ Sorted(log', works')
    BY DEF EngineOK, LogsFrom
  <1>5. ASSUME NEW k \in 1 .. Depth
        PROVE  EngineOK(engines'[k], k, LogAt(k)', scopes', ScopesAt(k)', branches',
                        BranchesAt(k)', works')
    <2>1. CASE k = Depth
      BY <1>2, <1>3, <2>1 DEF LogAt, ScopesAt, BranchesAt
    <2>2. CASE k # Depth
      <3>1. k \in 1 .. Depth - 1 /\ k + 1 \in 1 .. Depth /\ engines'[k] = engines[k]
        BY <1>1, <1>2, <2>2
      <3>2. /\ engines'[k + 1].base = engines[k + 1].base
            /\ engines'[k + 1].scopes = engines[k + 1].scopes
            /\ engines'[k + 1].branches = engines[k + 1].branches
        BY <1>2, <1>3, <3>1
      <3>3. /\ LogAt(k) = engines[k + 1].base /\ LogAt(k)' = engines[k + 1].base
            /\ ScopesAt(k) = engines[k + 1].scopes /\ ScopesAt(k)' = engines[k + 1].scopes
            /\ BranchesAt(k) = engines[k + 1].branches
            /\ BranchesAt(k)' = engines[k + 1].branches
        BY <1>3, <2>2, <3>2 DEF LogAt, ScopesAt, BranchesAt
      <3>4. EngineOK(engines[k], k, LogAt(k), scopes, ScopesAt(k), branches, BranchesAt(k), works)
        BY DEF Sound
      <3>5. /\ k \in DOMAIN engines /\ k + 1 \in DOMAIN engines /\ Depth \in DOMAIN engines
            /\ k + 1 =< Depth /\ engines[k + 1] \in Engines
        BY <1>1, <3>1
      <3>10. engines[k + 1].scopes \in Nat /\ engines[k + 1].branches \in Nat
        BY <3>5 DEF Engines
      <3>6. engines[k + 1].scopes =< E.scopes /\ engines[k + 1].branches =< E.branches
        BY <1>3, <3>5 DEF Sound, Stacked
      <3>7. E.scopes \in Nat /\ E.branches \in Nat
        BY TopFacts DEF Engines
      <3>8. /\ \A j \in 1 .. engines[k + 1].scopes : scopes'[j] = scopes[j]
            /\ \A j \in 1 .. engines[k + 1].branches : branches'[j] = branches[j]
        <4>1. /\ 1 .. engines[k + 1].scopes \subseteq 1 .. E.scopes
              /\ 1 .. engines[k + 1].branches \subseteq 1 .. E.branches
          BY <3>6, <3>7, <3>10, Within
        <4> QED BY <4>1
      <3>11. EngineOK(engines[k], k, engines[k + 1].base, scopes, engines[k + 1].scopes,
                      branches, engines[k + 1].branches, works)
        BY <3>3, <3>4
      <3>9. EngineOK(engines[k], k, engines[k + 1].base, scopes', engines[k + 1].scopes,
                     branches', engines[k + 1].branches, works')
        <4>1. works \in Nat /\ works' \in Nat /\ works' >= works
          BY <1>1
        <4> DEFINE f == engines[k + 1]
        <4>2. /\ f.scopes \in Nat /\ f.branches \in Nat
              /\ EngineOK(engines[k], k, f.base, scopes, f.scopes, branches, f.branches, works)
              /\ Agree(scopes', scopes, f.scopes) /\ Agree(branches', branches, f.branches)
          BY <3>8, <3>10, <3>11 DEF Agree
        <4> HIDE DEF f
        <4>3. EngineOK(engines[k], k, f.base, scopes', f.scopes, branches', f.branches, works')
          BY <4>1, <4>2, EngineLater
        <4> QED BY <4>3 DEF f
      <3> QED BY <3>1, <3>3, <3>9
    <2> QED BY <2>1, <2>2
  <1>6. \A k \in 1 .. Depth - 1 : Asking(engines'[k])
    BY <1>1, <1>2 DEF Sound
  <1>7. /\ engines'[1].base = <<>> /\ engines'[1].scopes = 0 /\ engines'[1].branches = 0
    BY <1>1, <1>2, <1>3 DEF Sound
  <1>8. \A k \in 1 .. Depth : Len(engines'[k].undo) =< 3
    BY <1>1, <1>2 DEF Sound
  <1>9. Stacked(engines')
    BY <1>1, <1>2, <1>3 DEF Sound, Stacked
  <1> QED
    BY SMTT(30), <1>1, <1>2, <1>3, <1>4, <1>5, <1>6, <1>7, <1>8, <1>9 DEF Sound, Running

LEMMA WriteFacts ==
    ASSUME Sound, NEW w \in Writes, Wrote(w)
    PROVE  /\ w \in WritesAt(works) /\ w \in Logs
           /\ works' = works + Len(w) /\ works' \in works .. MaxWork
           /\ works \in Nat /\ works' \in Nat /\ works' >= works
  <1>1. works \in 0 .. MaxWork /\ MaxWork \in Nat /\ engines[1].cand \in Nat
    <2>1. engines[1] \in Engines
      BY PatternsAssumption DEF Sound, Depth
    <2>2. engines[1].cand \in Nat
      BY <2>1 DEF Engines, Count
    <2> QED BY <2>2, PatternsAssumption DEF Sound
  <1>2. CASE w = <<>>
    BY <1>1, <1>2 DEF Wrote, WritesAt, Logs
  <1>3. CASE works < MaxWork /\ w = <<[for |-> engines[1].cand, nr |-> works + 1]>>
    <2>1. [for |-> engines[1].cand, nr |-> works + 1] \in Written
      BY <1>1 DEF Written
    <2> QED BY <1>1, <1>3, <2>1 DEF Wrote, WritesAt, Logs
  <1> QED BY <1>2, <1>3 DEF Writes

LEMMA HookFacts ==
    ASSUME Sound, NEW scope, NEW d, NEW w, Hook(scope, d, w)
    PROVE  /\ w \in WritesAt(works) /\ w \in Logs
           /\ works' = works + Len(w) /\ works' \in works .. MaxWork
           /\ works \in Nat /\ works' \in Nat /\ works' >= works
           /\ decisions' \in 0 .. MaxDecisions
  <1>1. w \in Writes /\ Wrote(w)
    BY DEF Hook
  <1>2. decisions \in 0 .. MaxDecisions /\ MaxDecisions \in Nat
    BY PatternsAssumption DEF Sound
  <1>3. decisions >= MaxDecisions => d = "continue"
    BY DEF Hook, Decisions
  <1>4. decisions' \in 0 .. MaxDecisions
    BY <1>2, <1>3 DEF Hook
  <1> QED BY <1>1, <1>4, WriteFacts

(* A step outside of the search, which leaves the checkpoints alone.       *)
LEMMA QuietStep ==
    ASSUME Sound, Running, result' = result, branches' = branches,
           NEW f \in Engines, engines' = [engines EXCEPT ![Depth] = f],
           f.base = E.base, f.scopes = E.scopes, f.branches = E.branches,
           Timely(f, Depth), Checked(f, Len(branches)), ~Asking(f),
           works' \in works .. MaxWork, decisions' \in 0 .. MaxDecisions,
           log' \in LogsFrom(E.base, works'),
           scopes' \in Seq(Logs), Len(scopes') = E.scopes + Inside(f),
           \A j \in 1 .. E.scopes : scopes'[j] = scopes[j],
           Aside(scopes', E.scopes, Len(scopes'), LogsFrom(E.base, works')),
           Found(f, LogsFrom(E.base, works')),
           Overridden(f) => last' # {} /\ last' \subseteq LogsFrom(E.base, works') /\ f.selected # {}
    PROVE  Sound'
  <1>1. works \in Nat /\ works' \in Nat /\ works' >= works /\ Len(branches) \in Nat
    BY TopFacts, PatternsAssumption
  <1>2. EngineOK(E, Depth, log, scopes, Len(scopes), branches, Len(branches), works)
    BY TopFacts
  <1>3. E.base \in Logs
    BY <1>2 DEF EngineOK, Engines
  <1>4. Sorted(E.base, works') /\ Aside(branches, E.branches, Len(branches), LogsFrom(E.base, works'))
    BY <1>1, <1>2, <1>3, LogsLater DEF EngineOK, Aside
  <1>5. EngineOK(f, Depth, log', scopes', Len(scopes'), branches', Len(branches'), works')
    BY <1>2, <1>4 DEF EngineOK, Deferred
  <1>6. Len(f.undo) =< 3
    BY DEF Timely, Phased, Opened, Level, Engines
  <1> QED BY <1>5, <1>6, TopStep DEF Sound

LEMMA Calm ==
    ASSUME NEW f, f.walk = <<>>, f.finals = <<>>
    PROVE  /\ StatesOf(f) = {} /\ ~Asking(f) /\ Walked(f.walk)
           /\ \A nb : Checked(f, nb)
  BY DEF StatesOf, Asking, Checked, Walked, Range

(* The logs of the open scopes, when one is opened or closed.              *)
FitFor(old, new, from, k, logs) ==
    /\ new \in Seq(Logs) /\ Len(new) = from + k
    /\ \A j \in 1 .. from : new[j] = old[j]
    /\ Aside(new, from, Len(new), logs)

LEMMA FitMoves ==
    ASSUME NEW logs \in SUBSET Logs, NEW from \in Nat, NEW k \in Nat, NEW old,
           FitFor(old, old, from, k, logs), NEW l \in logs
    PROVE  /\ FitFor(old, Append(old, l), from, k + 1, logs)
           /\ k > 0 => FitFor(old, Front(old), from, k - 1, logs)
  <1>1. /\ old \in Seq(Logs) /\ Len(old) = from + k /\ l \in Logs /\ Len(old) \in Nat
        /\ \A j \in from + 1 .. Len(old) : old[j] \in logs
    BY DEF FitFor, Aside
  <1>2. FitFor(old, Append(old, l), from, k + 1, logs)
    <2> DEFINE new == Append(old, l)
    <2>1. /\ new \in Seq(Logs) /\ Len(new) = Len(old) + 1
          /\ new[Len(old) + 1] = l /\ \A j \in 1 .. Len(old) : new[j] = old[j]
      BY <1>1
    <2> HIDE DEF new
    <2>2. \A j \in from + 1 .. Len(new) : new[j] \in logs
      BY <1>1, <2>1
    <2> QED BY <1>1, <2>1, <2>2 DEF FitFor, Aside, new
  <1>3. ASSUME k > 0 PROVE FitFor(old, Front(old), from, k - 1, logs)
    <2> DEFINE new == Front(old)
    <2>1. /\ new \in Seq(Logs) /\ Len(new) = Len(old) - 1
          /\ \A j \in 1 .. Len(old) - 1 : new[j] = old[j]
      BY <1>1, <1>3, FrontFacts
    <2> HIDE DEF new
    <2>2. \A j \in from + 1 .. Len(new) : new[j] \in logs
      BY <1>1, <2>1
    <2>3. \A j \in 1 .. from : new[j] = old[j]
      BY <1>1, <1>3, <2>1
    <2> QED BY <1>1, <2>1, <2>2, <2>3 DEF FitFor, Aside, new
  <1> QED BY <1>2, <1>3

ScopesFit(k) == FitFor(scopes, scopes', E.scopes, k, LogsFrom(E.base, works'))

LEMMA ScopesMove ==
    ASSUME Sound, Running, works' \in Nat, works' >= works
    PROVE  /\ Inside(E) \in Nat
           /\ scopes' = scopes => ScopesFit(Inside(E))
           /\ scopes' = Append(scopes, log) => ScopesFit(Inside(E) + 1)
           /\ scopes' = Front(scopes) /\ Inside(E) > 0 => ScopesFit(Inside(E) - 1)
  <1> DEFINE old == LogsFrom(E.base, works)
             new == LogsFrom(E.base, works')
  <1>1. /\ E \in Engines /\ works \in Nat /\ log \in old /\ Aside(scopes, E.scopes, Len(scopes), old)
        /\ Len(scopes) = E.scopes + Inside(E)
    BY TopFacts DEF EngineOK
  <1>2. /\ scopes \in Seq(Logs) /\ E.scopes \in Nat /\ Inside(E) \in Nat
        /\ E.base \in Logs /\ new \subseteq Logs
    BY <1>1 DEF Sound, Engines, Inside, LogsFrom
  <1>3. old \subseteq new
    BY <1>1, <1>2, LogsLater
  <1> HIDE DEF old, new
  <1>4. FitFor(scopes, scopes, E.scopes, Inside(E), new) /\ log \in new
    BY <1>1, <1>2, <1>3 DEF FitFor, Aside
  <1> QED BY <1>2, <1>4, FitMoves DEF ScopesFit, new

LEMMA Patterned ==
    ASSUME NEW depth \in 1 .. Len(Patterns)
    PROVE  /\ Len(Patterns[depth]) \in Nat /\ 1 =< Len(Patterns[depth])
           /\ \A c \in 1 .. Len(Patterns[depth]) :
                 /\ Patterns[depth][c] \in Seq(Seq(Elements)) /\ Len(Patterns[depth][c]) \in Nat
                 /\ 1 =< Len(Patterns[depth][c])
  <1>1. /\ Patterns[depth] \in Seq(Seq(Seq(Elements))) /\ Patterns[depth] # <<>>
        /\ \A c \in DOMAIN Patterns[depth] : Patterns[depth][c] # <<>>
    BY PatternsAssumption
  <1>2. ASSUME NEW c \in 1 .. Len(Patterns[depth])
        PROVE  /\ Patterns[depth][c] \in Seq(Seq(Elements)) /\ Len(Patterns[depth][c]) \in Nat
               /\ 1 =< Len(Patterns[depth][c])
    <2>1. Patterns[depth][c] \in Seq(Seq(Elements)) /\ Patterns[depth][c] # <<>>
      BY <1>1
    <2> QED BY <2>1
  <1> QED BY <1>1, <1>2

-----------------------------------------------------------------------------
(* Scopes.                                                                 *)

(* What closing and opening scopes and the choice of the next candidate    *)
(* leave of an engine.                                                     *)
Kin(e, f) ==
    /\ f \in Engines
    /\ f.base = e.base /\ f.scopes = e.scopes /\ f.branches = e.branches
    /\ f.selected = e.selected /\ f.chosen = e.chosen /\ f.matches = e.matches
    /\ f.walk = e.walk /\ f.finals = e.finals
Room(e, depth) == e.cand =< Len(Patterns[depth]) /\ e.pat =< Len(Patterns[depth][e.cand])

LEMMA Names ==
    /\ "definition" \in ScopeNames /\ "registration" \in ScopeNames /\ "pattern" \in ScopeNames
    /\ \A e \in Engines : e.scope \in ScopeNames
  BY DEF ScopeNames, Engines

LEMMA OpensShape ==
    ASSUME NEW e \in Engines, NEW scope \in ScopeNames
    PROVE  LET f == Opens(e, scope) IN
           /\ Kin(e, f) /\ f.cand = e.cand /\ f.pat = e.pat /\ f.path = e.path
           /\ f.undo = e.undo /\ f.at = "before" /\ f.scope = scope /\ f.won = e.won
           /\ f.deaf = e.deaf /\ f.from = e.from
  BY DEF Opens, Kin, Engines, ScopeNames

LEMMA ClosesShape ==
    ASSUME NEW e \in Engines, NEW scope \in ScopeNames, NEW won \in BOOLEAN
    PROVE  LET f == Closes(e, scope, won) IN
           /\ Kin(e, f) /\ f.cand = e.cand /\ f.pat = e.pat /\ f.path = e.path
           /\ f.undo = e.undo /\ f.at = "after" /\ f.scope = scope /\ f.won = won
           /\ f.deaf = e.deaf /\ f.from = e.from
  BY DEF Closes, Kin, Engines, ScopeNames

LEMMA SynthesizeShape ==
    ASSUME NEW e \in Engines, Running, Sound, Room(e, Depth), NEW from \in {"before", "after"}
    PROVE  LET f == Synthesize(e, from) IN
           /\ Kin(e, f) /\ f.cand = e.cand /\ f.pat = e.pat /\ f.path = e.path
           /\ f.undo = e.undo /\ f.at = "synthesize" /\ f.scope = e.scope /\ f.won = e.won
           /\ f.deaf = e.deaf /\ f.from = from /\ f.synth # <<>>
  <1> DEFINE ps == PatternsOf(e)
             tries == IF e.scope = "pattern" THEN <<e.pat>> ELSE [p \in DOMAIN ps |-> p]
  <1>1. Depth \in 1 .. Len(Patterns)
    BY TopFacts
  <1>2. e.cand \in 1 .. Len(Patterns[Depth]) /\ e.pat \in Nat
    BY <1>1, Patterned DEF Room, Engines, Count
  <1>3. ps \in Seq(Seq(Elements)) /\ Len(ps) \in Nat /\ 1 =< Len(ps)
    BY <1>1, <1>2, Patterned DEF PatternsOf
  <1> HIDE DEF ps
  <1>4. tries \in Seq(Nat) /\ tries # <<>>
    BY <1>2, <1>3
  <1> HIDE DEF tries
  <1>5. Synthesize(e, from) = [[[e EXCEPT !.at = "synthesize"] EXCEPT !.from = from] EXCEPT !.synth = tries]
    BY DEF Synthesize, tries, ps, Engines
  <1> QED BY ZenonT(60), <1>4, <1>5 DEF Kin, Engines

LEMMA NextPatternShape ==
    ASSUME NEW e \in Engines, Running, Sound, Room(e, Depth)
    PROVE  LET f == NextPattern(e) IN
           /\ Kin(e, f) /\ Room(f, Depth) /\ f.path = e.path /\ f.undo = e.undo /\ ~f.won
           /\ f.deaf = e.deaf /\ f.from = e.from /\ f.cand = e.cand
           /\ \/ f.at = "before" /\ f.scope = "pattern"
              \/ f.at = "after" /\ f.scope = "registration"
  <1>1. e.pat \in Nat /\ e.pat + 1 \in Count /\ Len(PatternsOf(e)) \in Nat
    <2>1. Depth \in 1 .. Len(Patterns)
      BY TopFacts
    <2>2. e.cand \in 1 .. Len(Patterns[Depth]) /\ e.pat \in Nat
      BY <2>1, Patterned DEF Room, Engines, Count
    <2> QED BY <2>1, <2>2, Patterned DEF PatternsOf, Count
  <1> DEFINE none == [[e EXCEPT !.won = FALSE] EXCEPT !.val = 0]
             more == [none EXCEPT !.pat = @ + 1]
  <1>5. none \in Engines
    BY DEF Engines
  <1>6. /\ Kin(e, none) /\ none.path = e.path /\ none.undo = e.undo /\ ~none.won
        /\ none.deaf = e.deaf /\ none.pat = e.pat /\ none.cand = e.cand /\ none.from = e.from
    BY <1>5 DEF Kin, Engines
  <1> HIDE DEF none
  <1>7. more \in Engines /\ more.pat = none.pat + 1
    BY <1>1, <1>5, <1>6 DEF Engines
  <1>2. /\ Kin(none, more) /\ more.path = none.path /\ more.undo = none.undo
        /\ more.won = none.won /\ more.deaf = none.deaf /\ more.cand = none.cand
        /\ more.from = none.from
    BY <1>5, <1>7 DEF Kin, Engines
  <1> HIDE DEF more
  <1>3. CASE e.pat < Len(PatternsOf(e))
    <2>1. NextPattern(e) = Opens(more, "pattern")
      BY <1>3 DEF NextPattern, more, none
    <2>2. Room(more, Depth)
      BY <1>1, <1>2, <1>3, <1>6, <1>7 DEF Room, PatternsOf
    <2>3. /\ Kin(more, Opens(more, "pattern"))
          /\ LET f == Opens(more, "pattern") IN
             /\ f.cand = more.cand /\ f.pat = more.pat /\ f.path = more.path
             /\ f.undo = more.undo /\ f.at = "before" /\ f.scope = "pattern" /\ f.won = more.won
             /\ f.deaf = more.deaf /\ f.from = more.from
      BY <1>7, OpensShape, Names
    <2> QED BY <1>2, <1>6, <1>7, <2>1, <2>2, <2>3 DEF Kin, Room
  <1>4. CASE ~(e.pat < Len(PatternsOf(e)))
    <2>1. NextPattern(e) = Closes(none, "registration", FALSE)
      BY <1>4 DEF NextPattern, none
    <2>2. /\ Kin(none, Closes(none, "registration", FALSE))
          /\ LET f == Closes(none, "registration", FALSE) IN
             /\ f.cand = none.cand /\ f.pat = none.pat /\ f.path = none.path
             /\ f.undo = none.undo /\ f.at = "after" /\ f.scope = "registration" /\ f.won = FALSE
             /\ f.deaf = none.deaf /\ f.from = none.from
      BY ZenonT(60), <1>5, ClosesShape, Names
    <2> QED BY <1>5, <1>6, <2>1, <2>2 DEF Kin, Room
  <1> QED BY <1>3, <1>4

LEMMA NextCandidateShape ==
    ASSUME NEW e \in Engines, Running, Sound, Room(e, Depth)
    PROVE  LET f == NextCandidate(e) IN
           /\ Kin(e, f) /\ Room(f, Depth) /\ f.path = e.base /\ f.undo = <<>> /\ ~f.won
           /\ ~f.deaf /\ f.from = e.from
           /\ \/ f.at = "before" /\ f.scope = "definition" /\ f.cand = e.cand + 1
              \/ f.at = "finish" /\ f.cand = e.cand
  <1> DEFINE start == [[[e EXCEPT !.pat = 1] EXCEPT !.won = FALSE] EXCEPT !.deaf = FALSE]
             fresh == [[[start EXCEPT !.val = 0] EXCEPT !.undo = <<>>] EXCEPT !.path = e.base]
             more == [fresh EXCEPT !.cand = @ + 1]
             done == [fresh EXCEPT !.at = "finish"]
  <1>1. /\ e.cand \in Nat \ {0} /\ Depth \in 1 .. Len(Patterns) /\ Len(Patterns[Depth]) \in Nat
        /\ \A c \in 1 .. Len(Patterns[Depth]) : 1 =< Len(Patterns[Depth][c])
        /\ 1 \in Count /\ e.cand + 1 \in Count
    <2>1. e.cand \in Count
      BY DEF Engines
    <2>2. Depth \in 1 .. Len(Patterns)
      BY TopFacts
    <2> QED BY SMTT(30), <2>1, <2>2, Patterned DEF Count
  <1>2. NextCandidate(e) = IF e.cand < Len(Patterns[Depth]) THEN Opens(more, "definition") ELSE done
    BY DEF NextCandidate
  <1>3. start \in Engines
    BY <1>1 DEF Engines
  <1>4. /\ Kin(e, start) /\ start.cand = e.cand /\ start.pat = 1 /\ ~start.won /\ ~start.deaf
        /\ start.from = e.from
    BY <1>3 DEF Kin, Engines
  <1> HIDE DEF start
  <1>9. <<>> \in Seq(Logs) /\ e.base \in Logs
    BY DEF Engines
  <1>5. fresh \in Engines
    BY <1>3, <1>9 DEF Engines
  <1>6. /\ Kin(start, fresh) /\ fresh.cand = start.cand /\ fresh.pat = start.pat
        /\ fresh.won = start.won /\ fresh.deaf = start.deaf /\ fresh.from = start.from
        /\ fresh.path = e.base /\ fresh.undo = <<>>
    BY <1>3, <1>5 DEF Kin, Engines
  <1> HIDE DEF fresh
  <1>7. CASE e.cand < Len(Patterns[Depth])
    <2>1. more \in Engines /\ more.cand = fresh.cand + 1
      BY <1>1, <1>4, <1>5, <1>6 DEF Engines
    <2>2. /\ Kin(fresh, more) /\ more.pat = fresh.pat /\ more.path = fresh.path
          /\ more.undo = fresh.undo /\ more.won = fresh.won /\ more.deaf = fresh.deaf
          /\ more.from = fresh.from
      BY <1>5, <2>1 DEF Engines, Kin
    <2> HIDE DEF more
    <2>3. LET f == Opens(more, "definition") IN
          /\ Kin(more, f) /\ f.cand = more.cand /\ f.pat = more.pat /\ f.path = more.path
          /\ f.undo = more.undo /\ f.at = "before" /\ f.scope = "definition" /\ f.won = more.won
          /\ f.deaf = more.deaf /\ f.from = more.from
      BY <2>1, OpensShape, Names
    <2>4. Room(more, Depth)
      BY <1>1, <1>4, <1>6, <1>7, <2>1, <2>2 DEF Room
    <2>5. NextCandidate(e) = Opens(more, "definition")
      BY <1>2, <1>7 DEF more
    <2> QED BY <1>4, <1>6, <2>1, <2>2, <2>3, <2>4, <2>5 DEF Kin, Room
  <1>8. CASE ~(e.cand < Len(Patterns[Depth]))
    <2>1. done \in Engines
      BY <1>5 DEF Engines
    <2>2. /\ Kin(fresh, done) /\ done.cand = fresh.cand /\ done.pat = fresh.pat
          /\ done.path = fresh.path /\ done.undo = fresh.undo /\ done.won = fresh.won
          /\ done.deaf = fresh.deaf /\ done.from = fresh.from /\ done.at = "finish"
      BY <1>5, <2>1 DEF Engines, Kin
    <2>3. Room(done, Depth)
      BY <1>1, <1>4, <1>6, <2>2 DEF Room
    <2>4. NextCandidate(e) = done
      BY <1>2, <1>8
    <2> HIDE DEF done
    <2> QED BY <1>4, <1>6, <2>2, <2>3, <2>4 DEF Kin
  <1> QED BY <1>7, <1>8

LEMMA LogFacts ==
    ASSUME Sound, Running, NEW w \in WritesAt(works), works' = works + Len(w),
           works' \in Nat, works' >= works
    PROVE  LET logs == LogsFrom(E.base, works') IN
           /\ logs \subseteq Logs /\ E.base \in Logs /\ Sorted(E.base, works')
           /\ log \in logs /\ log \o w \in logs /\ E.base \in logs /\ E.base \o w \in logs
           /\ \A j \in E.scopes + 1 .. Len(scopes) : scopes[j] \in logs
           /\ \A j \in E.branches + 1 .. Len(branches) : branches[j] \in logs /\ branches[j] \o w \in logs
           /\ \A f : f.selected = E.selected /\ f.matches = E.matches => Found(f, logs)
  <1> DEFINE old == LogsFrom(E.base, works)
             new == LogsFrom(E.base, works')
  <1>1. /\ E.base \in Logs /\ works \in Nat /\ Sorted(E.base, works) /\ log \in old
        /\ Aside(scopes, E.scopes, Len(scopes), old) /\ Aside(branches, E.branches, Len(branches), old)
        /\ Found(E, old)
    BY TopFacts DEF EngineOK, Engines
  <1>2. old \subseteq new /\ Sorted(E.base, works') /\ new \subseteq Logs
    BY <1>1, LogsLater DEF LogsFrom
  <1>3. \A l \in old : l \o w \in new
    BY <1>1, LogsGrow
  <1>4. E.base \in old
    BY <1>1, LogsBegin
  <1> HIDE DEF old, new
  <1>5. /\ \A j \in E.scopes + 1 .. Len(scopes) : scopes[j] \in new
        /\ \A j \in E.branches + 1 .. Len(branches) : branches[j] \in new /\ branches[j] \o w \in new
    BY <1>1, <1>2, <1>3 DEF Aside
  <1>6. \A f : f.selected = E.selected /\ f.matches = E.matches => Found(f, new)
    BY <1>1, <1>2 DEF Found
  <1> QED BY <1>1, <1>2, <1>3, <1>4, <1>5, <1>6 DEF new

LEMMA CalmStep ==
    ASSUME Sound, Running, result' = result, branches' = branches,
           NEW f \in Engines, engines' = [engines EXCEPT ![Depth] = f],
           f.base = E.base, f.scopes = E.scopes, f.branches = E.branches,
           Room(f, Depth), Phased(f), f.walk = <<>>, f.finals = <<>>,
           works' \in works .. MaxWork, decisions' \in 0 .. MaxDecisions,
           log' \in LogsFrom(E.base, works'), ScopesFit(Inside(f)),
           Found(f, LogsFrom(E.base, works')),
           Overridden(f) => last' # {} /\ last' \subseteq LogsFrom(E.base, works') /\ f.selected # {}
    PROVE  Sound'
  <1>1. Timely(f, Depth) /\ Checked(f, Len(branches)) /\ ~Asking(f)
    BY Calm DEF Timely, Room
  <1> QED BY <1>1, QuietStep DEF ScopesFit, FitFor

(* Outside of the search.                                                  *)
LEMMA CalmFacts ==
    ASSUME Sound, Running, E.at \in {"before", "after", "synthesize", "finish"}
    PROVE  /\ E \in Engines /\ Room(E, Depth) /\ E.walk = <<>> /\ E.finals = <<>>
           /\ E.undo \in Seq(Logs) /\ Len(E.undo) = Opened(E) /\ E.path \in Logs /\ E.base \in Logs
           /\ E.at = "synthesize" => E.synth # <<>>
  BY TopFacts DEF EngineOK, Timely, Phased, Room, Engines

LEMMA BeforeScopeSound ==
    ASSUME Sound, NEW d, NEW w, BeforeScope(d, w)
    PROVE  Sound'
  <1> DEFINE from  == IF E.scope = "definition" THEN E.base ELSE log
             start == [E EXCEPT !.path = (IF E.scope = "definition" THEN E.base ELSE @) \o w]
             begun == [start EXCEPT !.undo = Append(@, E.path)]
  <1>1. /\ Running /\ E.at = "before" /\ result' = result /\ branches' = branches
        /\ log' = from \o w
        /\ scopes' = IF E.scope = "definition" THEN scopes ELSE Append(scopes, log)
    BY DEF BeforeScope, At
  <1>2. /\ w \in WritesAt(works) /\ works' = works + Len(w) /\ works' \in works .. MaxWork
        /\ w \in Logs /\ works' \in Nat /\ works' >= works /\ decisions' \in 0 .. MaxDecisions
    BY HookFacts DEF BeforeScope
  <1>3. /\ E \in Engines /\ Room(E, Depth) /\ E.walk = <<>> /\ E.finals = <<>>
        /\ E.undo \in Seq(Logs) /\ Len(E.undo) = Opened(E) /\ E.path \in Logs /\ E.base \in Logs
    BY <1>1, CalmFacts
  <1>4. log' \in LogsFrom(E.base, works') /\ log \in LogsFrom(E.base, works')
    BY <1>1, <1>2, LogFacts
  <1>5. /\ start \in Engines /\ begun \in Engines
    <2>1. E.path \o w \in Logs /\ E.base \o w \in Logs /\ Append(E.undo, E.path) \in Seq(Logs)
      BY <1>2, <1>3 DEF Logs
    <2>2. start \in Engines /\ start.undo = E.undo
      BY <1>3, <2>1 DEF Engines
    <2> HIDE DEF start
    <2> QED BY <2>1, <2>2 DEF Engines
  <1>14. /\ Kin(E, start) /\ start.cand = E.cand /\ start.pat = E.pat /\ start.scope = E.scope
         /\ start.undo = E.undo /\ start.at = E.at
    <2>1. start = [E EXCEPT !.path = (IF E.scope = "definition" THEN E.base ELSE E.path) \o w]
      BY <1>3 DEF Engines
    <2> DEFINE x == (IF E.scope = "definition" THEN E.base ELSE E.path) \o w
    <2>2. start = [E EXCEPT !.path = x]
      BY <2>1
    <2>3. start \in Engines
      BY <1>5
    <2> HIDE DEF start, x
    <2> QED BY <1>3, <2>2, <2>3 DEF Kin, Engines
  <1>15. /\ Kin(start, begun) /\ begun.cand = start.cand /\ begun.pat = start.pat
         /\ begun.scope = start.scope /\ begun.at = start.at
         /\ begun.undo = Append(start.undo, E.path)
    <2> HIDE DEF start
    <2> QED BY <1>5 DEF Kin, Engines
  <1>6. /\ Kin(E, begun) /\ begun.cand = E.cand /\ begun.pat = E.pat /\ begun.scope = E.scope
        /\ begun.undo = Append(E.undo, E.path) /\ begun.at = E.at
    <2> HIDE DEF start, begun
    <2> QED BY <1>14, <1>15 DEF Kin
  <1>7. Len(begun.undo) = Level(E.scope) /\ Level(E.scope) \in 1 .. 3
    <2>1. Len(E.undo) = Level(E.scope) - 1
      BY <1>1, <1>3 DEF Opened
    <2> QED BY <1>3, <1>6, <2>1 DEF Level
  <1>8. ScopesFit(Level(E.scope) - 1)
    <2>1. Len(E.undo) = Level(E.scope) - 1
      BY <1>1, <1>3 DEF Opened
    <2>2. Inside(E) = IF E.scope = "definition" THEN 0 ELSE Level(E.scope) - 2
      BY <1>3, <2>1 DEF Level, Inside, Engines
    <2> QED BY <1>1, <1>2, <2>2, ScopesMove DEF Level
  <1> DEFINE f == CASE d = "fail"  -> Closes([begun EXCEPT !.val = 0], E.scope, FALSE)
                    [] d = "match" -> Synthesize(begun, "before")
                    [] OTHER -> IF E.scope = "pattern"
                         THEN [begun EXCEPT !.at = "walk", !.walk = <<Start(begun)>>]
                         ELSE Opens(begun, IF E.scope = "definition" THEN "registration"
                                           ELSE "pattern")
  <1>9. engines' = [engines EXCEPT ![Depth] = f]
    BY DEF BeforeScope, Put
  <1>10. Room(begun, Depth)
    BY <1>3, <1>6 DEF Room
  <1> HIDE DEF begun, start, from
  <1>11. ASSUME d = "fail" \/ d = "match" \/ E.scope # "pattern"
         PROVE  /\ f \in Engines /\ Kin(begun, f) /\ f.cand = begun.cand /\ f.pat = begun.pat
                /\ f.undo = begun.undo
                /\ \/ f.at = "after" /\ f.scope = E.scope
                   \/ f.at = "synthesize" /\ f.scope = E.scope /\ f.from = "before" /\ f.synth # <<>>
                   \/ /\ f.at = "before" /\ E.scope # "pattern"
                      /\ f.scope = IF E.scope = "definition" THEN "registration" ELSE "pattern"
    <2>1. CASE d = "fail"
      <3> DEFINE b == [begun EXCEPT !.val = 0]
      <3>1. b \in Engines
        BY <1>5 DEF Engines
      <3>2. Kin(begun, b) /\ b.cand = begun.cand /\ b.pat = begun.pat /\ b.undo = begun.undo
        BY <1>5, <3>1 DEF Kin, Engines
      <3>3. f = Closes(b, E.scope, FALSE) /\ E.scope \in ScopeNames
        BY <1>3, <2>1, Names
      <3> HIDE DEF b, f
      <3>4. LET g == Closes(b, E.scope, FALSE) IN
            /\ Kin(b, g) /\ g.cand = b.cand /\ g.pat = b.pat /\ g.undo = b.undo
            /\ g.at = "after" /\ g.scope = E.scope
        BY <3>1, <3>3, ClosesShape
      <3> QED BY <3>2, <3>3, <3>4 DEF Kin
    <2>2. CASE d = "match"
      <3>1. f = Synthesize(begun, "before")
        BY <2>2
      <3> HIDE DEF f
      <3> QED BY <1>1, <1>5, <1>6, <1>10, <3>1, SynthesizeShape DEF Kin
    <2>3. CASE d # "fail" /\ d # "match" /\ E.scope # "pattern"
      <3> DEFINE next == IF E.scope = "definition" THEN "registration" ELSE "pattern"
      <3>1. f = Opens(begun, next) /\ next \in ScopeNames
        BY <2>3, Names
      <3> HIDE DEF f
      <3> HIDE DEF next
      <3>2. LET g == Opens(begun, next) IN
            /\ Kin(begun, g) /\ g.cand = begun.cand /\ g.pat = begun.pat /\ g.undo = begun.undo
            /\ g.at = "before" /\ g.scope = next
        BY <1>5, <3>1, OpensShape
      <3> QED BY <2>3, <3>1, <3>2 DEF next, Kin
    <2> QED BY <1>11, <2>1, <2>2, <2>3
  <1>12. CASE d = "fail" \/ d = "match" \/ E.scope # "pattern"
    <2>1. /\ Room(f, Depth) /\ f.walk = <<>> /\ f.finals = <<>> /\ f.base = E.base
          /\ f.scopes = E.scopes /\ f.branches = E.branches
          /\ f.selected = E.selected /\ f.matches = E.matches
      BY <1>3, <1>6, <1>10, <1>11, <1>12 DEF Room, Kin
    <2>2. Len(f.undo) = Level(E.scope)
      BY <1>7, <1>11, <1>12
    <2> HIDE DEF f
    <2>3. Len(f.undo) = Opened(f)
      <3>1. E.scope \in {"definition", "registration", "pattern"}
        BY <1>3, Names DEF ScopeNames
      <3> QED BY <1>11, <1>12, <2>2, <3>1 DEF Opened, Level
    <2>4. Phased(f)
      BY <1>11, <1>12, <2>1, <2>3 DEF Phased
    <2>5. Inside(f) = Level(E.scope) - 1
      BY <1>7, <2>2 DEF Inside
    <2>6. Found(f, LogsFrom(E.base, works'))
      BY <1>1, <1>2, <2>1, LogFacts
    <2>7. ~Overridden(f)
      BY <1>11, <1>12 DEF Overridden
    <2> QED
      BY <1>1, <1>2, <1>4, <1>8, <1>9, <1>11, <1>12, <2>1, <2>4, <2>5, <2>6, <2>7, CalmStep
  <1>13. CASE d # "fail" /\ d # "match" /\ E.scope = "pattern"
    <2> DEFINE s == Start(begun)
    <2>1. s \in SeqFrames /\ s.kind = "seq"
      <3>1. Depth \in 1 .. Len(Patterns) /\ begun.path \in Logs /\ 1 \in Count
        BY <1>1, <1>5, TopFacts DEF Engines, Count
      <3>5. begun.cand \in Count /\ begun.pat \in Count
        BY <1>5 DEF Engines
      <3>6. Len(Patterns[Depth]) \in Nat
        BY <3>1, Patterned
      <3>7. begun.cand \in 1 .. Len(Patterns[Depth])
        BY <1>10, <3>5, <3>6 DEF Room, Count
      <3>8. PatternsOf(begun) \in Seq(Seq(Elements)) /\ PatternsOf(begun) = Patterns[Depth][begun.cand]
        BY <3>1, <3>7, Patterned DEF PatternsOf
      <3>2. begun.pat \in 1 .. Len(PatternsOf(begun))
        BY <1>10, <3>5, <3>8 DEF Room, Count
      <3>3. PatternsOf(begun)[begun.pat] \in Seq(Elements)
        BY <3>2, <3>8
      <3>4. <<[s |-> [at |-> 0, path |-> begun.path], i |-> 1]>> \in Seq(Items)
        BY <3>1 DEF Items, States
      <3> QED BY <3>3, <3>4 DEF Start, SeqFrames
    <2>2. s.agenda = <<[s |-> [at |-> 0, path |-> begun.path], i |-> 1]>> /\ s.found = <<>>
      BY DEF Start
    <2> HIDE DEF s
    <2>3. f = [begun EXCEPT !.at = "walk", !.walk = <<s>>] /\ <<s>> \in Seq(Frames)
      BY <1>13, <2>1 DEF s, Frames
    <2> DEFINE ready == [begun EXCEPT !.at = "walk"]
               going == [ready EXCEPT !.walk = <<s>>]
    <2>10. ready \in Engines
      BY <1>5 DEF Engines
    <2>11. /\ Kin(begun, ready) /\ ready.at = "walk" /\ ready.undo = begun.undo
           /\ ready.scope = begun.scope /\ ready.cand = begun.cand /\ ready.pat = begun.pat
      BY <1>5, <2>10 DEF Kin, Engines
    <2> HIDE DEF ready
    <2>12. /\ going \in Engines /\ going.walk = <<s>> /\ going.at = ready.at
           /\ going.undo = ready.undo /\ going.scope = ready.scope /\ going.cand = ready.cand
           /\ going.pat = ready.pat /\ going.base = ready.base /\ going.scopes = ready.scopes
           /\ going.branches = ready.branches /\ going.selected = ready.selected
           /\ going.matches = ready.matches /\ going.finals = ready.finals
      BY <2>3, <2>10 DEF Engines
    <2>13. f = going
      BY <1>5, <2>3 DEF ready, Engines
    <2> HIDE DEF going, f
    <2>4. f \in Engines /\ f.walk = <<s>> /\ f.at = "walk"
      BY <2>11, <2>12, <2>13
    <2>5. /\ f.base = E.base /\ f.scopes = E.scopes /\ f.branches = E.branches
          /\ f.selected = E.selected /\ f.matches = E.matches /\ f.finals = <<>>
          /\ f.scope = "pattern" /\ f.undo = begun.undo /\ f.cand = E.cand /\ f.pat = E.pat
      BY <1>3, <1>6, <1>13, <2>11, <2>12, <2>13 DEF Kin
    <2>6. Timely(f, Depth)
      <3>1. Len(f.undo) = Opened(f)
        BY <1>7, <1>13, <2>4, <2>5 DEF Opened
      <3>2. Walked(f.walk)
        BY <2>1, <2>4 DEF Walked
      <3> QED BY <1>3, <2>4, <2>5, <3>1, <3>2 DEF Timely, Phased, Room
    <2>7. Checked(f, Len(branches)) /\ ~Asking(f)
      <3>1. \A x \in FrameStates(s) : x.at = 0
        BY <2>1, <2>2 DEF FrameStates, Range
      <3>2. StatesOf(f) = FrameStates(s)
        BY <2>4, <2>5 DEF StatesOf, Range
      <3>3. ~Asking(f)
        BY <2>1, <2>4 DEF Asking, Last
      <3> QED BY <3>1, <3>2, <3>3 DEF Checked
    <2>8. Inside(f) = Level(E.scope) - 1
      BY <1>7, <2>5 DEF Inside
    <2>9. Found(f, LogsFrom(E.base, works')) /\ ~Overridden(f)
      BY <1>1, <1>2, <2>4, <2>5, LogFacts DEF Overridden
    <2> QED
      BY <1>1, <1>2, <1>4, <1>8, <1>9, <2>4, <2>5, <2>6, <2>7, <2>8, <2>9, QuietStep
         DEF ScopesFit, FitFor
  <1> QED BY <1>12, <1>13

(* A scope is left: what the matcher had when it opened, or what it adopts. *)
LEMMA ClosedShape ==
    ASSUME NEW e \in Engines, NEW d, NEW w \in Logs, log \in Logs, Len(e.undo) > 0
    PROVE  LET f == Closed(e, d, w) IN
           /\ Kin(e, f) /\ f.cand = e.cand /\ f.pat = e.pat /\ f.at = e.at /\ f.scope = e.scope
           /\ f.won = e.won /\ f.deaf = e.deaf /\ f.val = e.val /\ f.from = e.from
           /\ f.undo = Front(e.undo) /\ Len(f.undo) = Len(e.undo) - 1
           /\ f.path = IF Overrides(e, d) THEN log \o w
                       ELSE IF Adopts(e, d) THEN e.path \o w ELSE e.undo[Len(e.undo)]
  <1> DEFINE v == IF Overrides(e, d) THEN log \o w
                  ELSE IF Adopts(e, d) THEN e.path \o w ELSE e.undo[Len(e.undo)]
             start == [e EXCEPT !.path = v]
             f == [start EXCEPT !.undo = Front(e.undo)]
  <1>1. e.undo \in Seq(Logs) /\ e.path \in Logs
    BY DEF Engines
  <1>2. v \in Logs
    BY <1>1 DEF Logs
  <1>3. Front(e.undo) \in Seq(Logs) /\ Len(Front(e.undo)) = Len(e.undo) - 1
    BY <1>1, FrontFacts
  <1>4. Closed(e, d, w) = f
    BY DEF Closed, Engines
  <1>5. v = IF Overrides(e, d) THEN log \o w
            ELSE IF Adopts(e, d) THEN e.path \o w ELSE e.undo[Len(e.undo)]
    OBVIOUS
  <1> HIDE DEF v
  <1>6. start \in Engines
    BY <1>2 DEF Engines
  <1>7. /\ Kin(e, start) /\ start.cand = e.cand /\ start.pat = e.pat /\ start.at = e.at
        /\ start.scope = e.scope /\ start.won = e.won /\ start.deaf = e.deaf /\ start.val = e.val
        /\ start.from = e.from /\ start.path = v
    BY <1>6 DEF Kin, Engines
  <1> HIDE DEF start
  <1>8. f \in Engines
    BY <1>3, <1>6 DEF Engines
  <1>9. /\ Kin(start, f) /\ f.cand = start.cand /\ f.pat = start.pat /\ f.at = start.at
        /\ f.scope = start.scope /\ f.won = start.won /\ f.deaf = start.deaf /\ f.val = start.val
        /\ f.from = start.from /\ f.path = start.path /\ f.undo = Front(e.undo)
    BY <1>6, <1>8 DEF Kin, Engines
  <1> HIDE DEF f
  <1>10. /\ Kin(e, f) /\ f.cand = e.cand /\ f.pat = e.pat /\ f.at = e.at /\ f.scope = e.scope
         /\ f.won = e.won /\ f.deaf = e.deaf /\ f.val = e.val /\ f.from = e.from
         /\ f.undo = Front(e.undo) /\ f.path = v
    BY <1>7, <1>9 DEF Kin
  <1> QED BY <1>3, <1>4, <1>5, <1>10

LEMMA AfterScopeSound ==
    ASSUME Sound, NEW d, NEW w, AfterScope(d, w)
    PROVE  Sound'
  <1> DEFINE c == Closed(E, d, w)
             outer == IF E.scope = "pattern" THEN "registration" ELSE "definition"
             f == IF Adopts(E, d)
                  THEN IF E.won THEN Closes(c, outer, TRUE) ELSE Synthesize(c, "after")
                  ELSE IF E.scope = "pattern" THEN NextPattern(c)
                  ELSE Closes(c, "definition", FALSE)
  <1>1. /\ Running /\ E.at = "after" /\ E.scope # "definition" /\ result' = result
        /\ branches' = branches /\ scopes' = Front(scopes)
        /\ log' = IF HookAccepts(E.won, d) THEN log \o w ELSE scopes[Len(scopes)]
        /\ engines' = [engines EXCEPT ![Depth] = f]
    BY DEF AfterScope, At, Put
  <1>2. /\ w \in WritesAt(works) /\ works' = works + Len(w) /\ works' \in works .. MaxWork
        /\ w \in Logs /\ works' \in Nat /\ works' >= works /\ decisions' \in 0 .. MaxDecisions
    BY HookFacts DEF AfterScope
  <1>3. /\ E \in Engines /\ Room(E, Depth) /\ E.walk = <<>> /\ E.finals = <<>>
        /\ E.undo \in Seq(Logs) /\ Len(E.undo) = Opened(E)
    BY <1>1, CalmFacts
  <1>4. E.scope \in {"registration", "pattern"}
    BY <1>1, <1>3, Names DEF ScopeNames
  <1>5. /\ Len(E.undo) = Level(E.scope) /\ Level(E.scope) \in {2, 3}
        /\ Level(E.scope) = IF E.scope = "pattern" THEN 3 ELSE 2
    BY <1>1, <1>3, <1>4 DEF Opened, Level
  <1>6. Inside(E) = Level(E.scope) - 1
    BY <1>5 DEF Inside
  <1>7. ScopesFit(Level(E.scope) - 2)
    BY <1>1, <1>2, <1>5, <1>6, ScopesMove
  <1>8. log' \in LogsFrom(E.base, works')
    <2>1. Len(scopes) = E.scopes + Inside(E) /\ E.scopes \in Nat
      BY <1>1, TopFacts DEF EngineOK, Engines
    <2>2. Len(scopes) \in E.scopes + 1 .. Len(scopes)
      BY <1>5, <1>6, <2>1
    <2> QED BY <1>1, <1>2, <2>2, LogFacts
  <1>9. /\ c \in Engines /\ Kin(E, c) /\ c.cand = E.cand /\ c.pat = E.pat /\ c.scope = E.scope
        /\ Len(c.undo) = Level(E.scope) - 1
    <2>1. log \in Logs /\ Len(E.undo) > 0
      BY <1>5 DEF Sound
    <2> QED BY <1>2, <1>3, <1>5, <2>1, ClosedShape DEF Kin
  <1>10. Room(c, Depth)
    BY <1>3, <1>9 DEF Room
  <1> HIDE DEF c
  <1>11. /\ f \in Engines /\ Kin(c, f) /\ Room(f, Depth) /\ f.undo = c.undo
         /\ \/ f.at = "after" /\ f.scope = outer
            \/ f.at = "synthesize" /\ f.scope = E.scope /\ f.from = "after" /\ f.synth # <<>>
            \/ f.at = "before" /\ f.scope = "pattern" /\ E.scope = "pattern"
    <2>1. CASE Adopts(E, d) /\ E.won
      <3>1. f = Closes(c, outer, TRUE) /\ outer \in ScopeNames
        BY <2>1, Names
      <3> HIDE DEF f, outer
      <3>2. LET g == Closes(c, outer, TRUE) IN
            /\ Kin(c, g) /\ g.cand = c.cand /\ g.pat = c.pat /\ g.undo = c.undo
            /\ g.at = "after" /\ g.scope = outer
        BY <1>9, <3>1, ClosesShape
      <3> QED BY <1>10, <3>1, <3>2 DEF Kin, Room
    <2>2. CASE Adopts(E, d) /\ ~E.won
      <3>1. f = Synthesize(c, "after")
        BY <2>2
      <3> HIDE DEF f
      <3> QED BY <1>1, <1>9, <1>10, <3>1, SynthesizeShape DEF Kin, Room
    <2>3. CASE ~Adopts(E, d) /\ E.scope = "pattern"
      <3>1. f = NextPattern(c)
        BY <2>3
      <3> HIDE DEF f
      <3> QED BY <1>1, <1>9, <1>10, <2>3, <3>1, NextPatternShape DEF Kin
    <2>4. CASE ~Adopts(E, d) /\ E.scope # "pattern"
      <3>1. f = Closes(c, "definition", FALSE) /\ outer = "definition"
        BY <2>4
      <3> HIDE DEF f, outer
      <3>2. LET g == Closes(c, "definition", FALSE) IN
            /\ Kin(c, g) /\ g.cand = c.cand /\ g.pat = c.pat /\ g.undo = c.undo
            /\ g.at = "after" /\ g.scope = "definition"
        BY <1>9, Names, ClosesShape
      <3> QED BY <1>10, <3>1, <3>2 DEF Kin, Room
    <2> QED BY <2>1, <2>2, <2>3, <2>4
  <1> HIDE DEF f
  <1>12. /\ f.walk = <<>> /\ f.finals = <<>> /\ f.base = E.base
         /\ f.scopes = E.scopes /\ f.branches = E.branches
         /\ f.selected = E.selected /\ f.matches = E.matches
    BY <1>3, <1>9, <1>11 DEF Kin
  <1>13. Len(f.undo) = Opened(f)
    BY <1>4, <1>5, <1>9, <1>11 DEF Opened, Level
  <1>14. Phased(f)
    BY <1>11, <1>12, <1>13 DEF Phased
  <1>15. Inside(f) = Level(E.scope) - 2
    BY <1>5, <1>9, <1>11 DEF Inside
  <1>16. Found(f, LogsFrom(E.base, works'))
    BY <1>1, <1>2, <1>12, LogFacts
  <1>17. ~Overridden(f)
    BY <1>1, <1>4, <1>11 DEF Overridden
  <1> QED BY <1>1, <1>2, <1>7, <1>8, <1>11, <1>12, <1>14, <1>15, <1>16, <1>17, CalmStep

(* A candidate that matched is kept, and the next one tried.               *)
LEMMA MatchedShape ==
    ASSUME NEW e \in Engines, Running, Sound, Room(e, Depth), NEW states \in SUBSET Logs
    PROVE  LET f == Matched(e, states) IN
           /\ f \in Engines /\ Room(f, Depth) /\ f.base = e.base /\ f.scopes = e.scopes
           /\ f.branches = e.branches /\ f.selected = e.selected /\ f.chosen = e.chosen
           /\ f.walk = e.walk /\ f.finals = e.finals
           /\ f.matches = Append(e.matches, [cand |-> e.cand, state |-> states, want |-> e.path])
           /\ f.path = e.base /\ f.undo = <<>> /\ ~f.won /\ ~f.deaf /\ f.from = e.from
           /\ \/ f.at = "before" /\ f.scope = "definition" /\ f.cand = e.cand + 1
              \/ f.at = "finish" /\ f.cand = e.cand
  <1> DEFINE m == [cand |-> e.cand, state |-> states, want |-> e.path]
             ms == Append(e.matches, m)
             kept == [e EXCEPT !.matches = ms]
  <1>1. Matched(e, states) = NextCandidate(kept)
    BY DEF Matched, Engines
  <1>2. e.cand \in Nat /\ e.path \in Logs /\ e.matches \in Seq(Matches)
    BY DEF Engines, Count
  <1>3. m \in Matches
    BY <1>2 DEF Matches
  <1> HIDE DEF m
  <1>4. ms \in Seq(Matches)
    BY <1>2, <1>3
  <1> HIDE DEF ms
  <1>5. kept \in Engines
    BY <1>4 DEF Engines
  <1>6. /\ kept.base = e.base /\ kept.scopes = e.scopes /\ kept.branches = e.branches
        /\ kept.selected = e.selected /\ kept.chosen = e.chosen /\ kept.walk = e.walk /\ kept.finals = e.finals
        /\ kept.cand = e.cand /\ kept.pat = e.pat /\ kept.from = e.from /\ kept.matches = ms
    BY <1>5 DEF Engines
  <1> HIDE DEF kept
  <1>7. Room(kept, Depth)
    BY <1>6 DEF Room
  <1>8. LET f == NextCandidate(kept) IN
        /\ Kin(kept, f) /\ Room(f, Depth) /\ f.path = kept.base /\ f.undo = <<>> /\ ~f.won
        /\ ~f.deaf /\ f.from = kept.from
        /\ \/ f.at = "before" /\ f.scope = "definition" /\ f.cand = kept.cand + 1
           \/ f.at = "finish" /\ f.cand = kept.cand
    BY <1>5, <1>7, NextCandidateShape
  <1> QED BY <1>1, <1>6, <1>8 DEF Kin, m, ms

LEMMA FoundMore ==
    ASSUME NEW e \in Engines, NEW logs, Found(e, logs), NEW f, f.selected \subseteq logs, f.selected # {},
           NEW m \in Matches, f.matches = e.matches \/ f.matches = Append(e.matches, m),
           m.state # {}, m.state \subseteq logs
    PROVE  Found(f, logs)
  <1>1. e.matches \in Seq(Matches)
    BY DEF Engines
  <1>2. \A k \in DOMAIN f.matches : f.matches[k] = m \/ \E j \in DOMAIN e.matches : f.matches[k] = e.matches[j]
    BY <1>1
  <1> QED BY <1>2 DEF Found

LEMMA AfterDefinitionSound ==
    ASSUME Sound, NEW d, NEW w, AfterDefinition(d, w)
    PROVE  Sound'
  <1> DEFINE now == log \o w
             accepted == IF E.won THEN d \in {"continue", "match"} ELSE d = "match"
             selected == Selection(E, now, accepted)
             logs == LogsFrom(E.base, works')
             first == accepted /\ E.selected = {}
             c == Closed(E, d, w)
             p == [c EXCEPT !.selected = selected, !.chosen = IF first THEN E.cand ELSE @]
             keep == Adopts(E, d) /\ (E.won \/ E.val # 0)
             f == IF keep THEN Matched(p, {now})
                  ELSE IF Adopts(E, d) THEN Synthesize(p, "after")
                  ELSE NextCandidate(p)
  <1>1. /\ Running /\ E.at = "after" /\ E.scope = "definition" /\ result' = result
        /\ branches' = branches /\ scopes' = scopes
        /\ log' = IF selected = {} THEN E.base ELSE CHOOSE s \in selected : TRUE
        /\ last' = IF keep THEN {} ELSE IF accepted THEN {now} ELSE last
        /\ engines' = [engines EXCEPT ![Depth] = f]
    BY DEF AfterDefinition, At, Put
  <1>2. /\ w \in WritesAt(works) /\ works' = works + Len(w) /\ works' \in works .. MaxWork
        /\ w \in Logs /\ works' \in Nat /\ works' >= works /\ decisions' \in 0 .. MaxDecisions
    BY HookFacts DEF AfterDefinition
  <1>3. /\ E \in Engines /\ Room(E, Depth) /\ E.walk = <<>> /\ E.finals = <<>>
        /\ E.undo \in Seq(Logs) /\ Len(E.undo) = Opened(E)
    BY <1>1, CalmFacts
  <1>4. Len(E.undo) = 1 /\ Inside(E) = 0
    BY <1>1, <1>3 DEF Opened, Level, Inside
  <1>5. ScopesFit(0)
    BY <1>1, <1>2, <1>4, ScopesMove
  <1>6. /\ logs \subseteq Logs /\ now \in logs /\ E.base \in logs
        /\ E.selected \subseteq logs /\ Found(E, logs)
    <2>1. Found(E, logs) /\ logs \subseteq Logs /\ now \in logs /\ E.base \in logs
      BY <1>1, <1>2, LogFacts
    <2> QED BY <2>1 DEF Found
  <1>7. /\ c \in Engines /\ Kin(E, c) /\ c.cand = E.cand /\ c.pat = E.pat /\ c.scope = E.scope
        /\ Len(c.undo) = 0 /\ c.undo = Front(E.undo)
    <2>1. log \in Logs /\ Len(E.undo) > 0
      BY <1>4 DEF Sound
    <2>2. LET g == Closed(E, d, w) IN
          /\ Kin(E, g) /\ g.cand = E.cand /\ g.pat = E.pat /\ g.scope = E.scope
          /\ g.undo = Front(E.undo) /\ Len(g.undo) = Len(E.undo) - 1
      BY <1>2, <1>3, <2>1, ClosedShape
    <2> QED BY <1>4, <2>2 DEF Kin
  <1>20. Adopts(E, d) => accepted
    BY DEF Adopts
  <1> HIDE DEF c, now, logs, accepted
  <1>8. selected \subseteq logs /\ (E.selected # {} => selected # {})
    BY <1>6 DEF Selection
  <1>22. accepted => selected # {}
    BY DEF Selection
  <1>9. log' \in logs
    BY <1>1, <1>6, <1>8
  <1> HIDE DEF selected, first
  <1>10. /\ p \in Engines
    <2>1. E.cand \in Nat /\ selected \in SUBSET Logs
      BY <1>3, <1>6, <1>8 DEF Engines, Count
    <2> QED BY <1>7, <2>1 DEF Engines
  <1>11. /\ p.base = E.base /\ p.scopes = E.scopes /\ p.branches = E.branches
         /\ p.selected = selected /\ p.matches = E.matches /\ p.walk = <<>> /\ p.finals = <<>>
         /\ p.cand = E.cand /\ p.pat = E.pat /\ p.undo = c.undo /\ p.scope = E.scope
    BY <1>3, <1>7, <1>10 DEF Kin, Engines
  <1>12. Room(p, Depth)
    BY <1>3, <1>11 DEF Room
  <1> HIDE DEF p
  <1>21. {now} \in SUBSET Logs
    BY <1>6
  <1> HIDE DEF keep
  <1>13. CASE keep
    <2>1. f = Matched(p, {now})
      BY <1>13
    <2> HIDE DEF f
    <2> DEFINE m == [cand |-> p.cand, state |-> {now}, want |-> p.path]
    <2>2. LET g == Matched(p, {now}) IN
          /\ g \in Engines /\ Room(g, Depth) /\ g.base = p.base /\ g.scopes = p.scopes
          /\ g.branches = p.branches /\ g.selected = p.selected
          /\ g.walk = p.walk /\ g.finals = p.finals /\ g.matches = Append(p.matches, m)
          /\ g.undo = <<>>
          /\ \/ g.at = "before" /\ g.scope = "definition"
             \/ g.at = "finish"
      BY <1>1, <1>10, <1>12, <1>21, MatchedShape
    <2>3. m \in Matches /\ m.state = {now}
      <3>1. p.cand \in Nat /\ p.path \in Logs
        BY <1>10 DEF Engines, Count
      <3> QED BY <3>1, <1>21 DEF Matches
    <2> HIDE DEF m
    <2>4. Found(f, logs)
      <3>1. f.matches = Append(E.matches, m) /\ f.selected \subseteq logs /\ f.selected # {}
        BY <1>8, <1>11, <1>13, <1>20, <1>22, <2>1, <2>2 DEF keep
      <3> QED BY <1>3, <1>6, <2>3, <3>1, FoundMore
    <2>5. Phased(f) /\ Inside(f) = 0 /\ ~Overridden(f)
      BY <1>11, <2>1, <2>2 DEF Phased, Opened, Level, Inside, Overridden
    <2>6. /\ f \in Engines /\ f.base = E.base /\ f.scopes = E.scopes /\ f.branches = E.branches
          /\ Room(f, Depth) /\ f.walk = <<>> /\ f.finals = <<>>
      BY <1>11, <2>1, <2>2
    <2> QED BY <1>1, <1>2, <1>5, <1>9, <2>4, <2>5, <2>6, CalmStep DEF logs
  <1>14. CASE ~keep /\ Adopts(E, d)
    <2>1. f = Synthesize(p, "after")
      BY <1>14
    <2> HIDE DEF f
    <2>2. LET g == Synthesize(p, "after") IN
          /\ Kin(p, g) /\ g.cand = p.cand /\ g.pat = p.pat /\ g.undo = p.undo
          /\ g.at = "synthesize" /\ g.scope = p.scope /\ g.from = "after" /\ g.synth # <<>>
      BY <1>1, <1>10, <1>12, SynthesizeShape
    <2>3. /\ f \in Engines /\ f.base = E.base /\ f.scopes = E.scopes /\ f.branches = E.branches
          /\ Room(f, Depth) /\ f.walk = <<>> /\ f.finals = <<>> /\ f.selected = selected
          /\ f.matches = E.matches
      BY <1>11, <1>12, <2>1, <2>2 DEF Kin, Room
    <2>4. Phased(f) /\ Inside(f) = 0
      BY <1>1, <1>7, <1>11, <2>1, <2>2, <2>3 DEF Phased, Opened, Level, Inside
    <2>5. Found(f, logs)
      BY <1>6, <1>8, <2>3 DEF Found
    <2>6. last' # {} /\ last' \subseteq logs /\ f.selected # {}
      BY <1>1, <1>6, <1>14, <1>20, <1>22, <2>3
    <2> QED BY <1>1, <1>2, <1>5, <1>9, <2>3, <2>4, <2>5, <2>6, CalmStep DEF logs
  <1>15. CASE ~keep /\ ~Adopts(E, d)
    <2>1. f = NextCandidate(p)
      BY <1>15
    <2> HIDE DEF f
    <2>2. LET g == NextCandidate(p) IN
          /\ Kin(p, g) /\ Room(g, Depth) /\ g.undo = <<>>
          /\ \/ g.at = "before" /\ g.scope = "definition"
             \/ g.at = "finish"
      BY <1>1, <1>10, <1>12, NextCandidateShape
    <2>3. /\ f \in Engines /\ f.base = E.base /\ f.scopes = E.scopes /\ f.branches = E.branches
          /\ Room(f, Depth) /\ f.walk = <<>> /\ f.finals = <<>> /\ f.selected = selected
          /\ f.matches = E.matches
      BY <1>11, <2>1, <2>2 DEF Kin
    <2>4. Phased(f) /\ Inside(f) = 0 /\ ~Overridden(f)
      BY <2>1, <2>2, <2>3 DEF Phased, Opened, Level, Inside, Overridden
    <2>5. Found(f, logs)
      BY <1>6, <1>8, <2>3 DEF Found
    <2> QED BY <1>1, <1>2, <1>5, <1>9, <2>3, <2>4, <2>5, CalmStep DEF logs
  <1> QED BY <1>13, <1>14, <1>15

(* synthetic_candidate_match: what a pattern that completes or one that    *)
(* does not leave of the engine.                                           *)
LEMMA SynthShape ==
    ASSUME NEW e \in Engines, e.synth # <<>>, NEW w \in Logs
    PROVE  /\ LET f == [e EXCEPT !.val = Head(e.synth), !.synth = <<>>, !.path = @ \o w] IN
              /\ Kin(e, f) /\ f.cand = e.cand /\ f.pat = e.pat /\ f.scope = e.scope /\ f.at = e.at
              /\ f.undo = e.undo /\ f.from = e.from /\ f.deaf = e.deaf /\ f.won = e.won
              /\ f.path = e.path \o w
           /\ LET f == [e EXCEPT !.synth = Tail(@)] IN
              /\ Kin(e, f) /\ f.cand = e.cand /\ f.pat = e.pat /\ f.scope = e.scope /\ f.at = e.at
              /\ f.undo = e.undo /\ f.from = e.from /\ f.deaf = e.deaf /\ f.won = e.won
              /\ f.path = e.path /\ f.synth = Tail(e.synth)
           /\ LET f == [[e EXCEPT !.synth = Tail(@)] EXCEPT !.deaf = TRUE] IN
              /\ Kin(e, f) /\ f.cand = e.cand /\ f.pat = e.pat /\ f.scope = e.scope /\ f.at = e.at
              /\ f.undo = e.undo /\ f.from = e.from /\ f.won = e.won
              /\ f.path = e.path /\ f.synth = Tail(e.synth)
  <1> DEFINE v == Head(e.synth)
             t == Tail(e.synth)
             pw == e.path \o w
             first == [e EXCEPT !.val = v]
             second == [first EXCEPT !.synth = <<>>]
             done == [second EXCEPT !.path = pw]
             none == [e EXCEPT !.synth = t]
             deaf == [none EXCEPT !.deaf = TRUE]
  <1>1. e.synth \in Seq(Nat) /\ e.path \in Logs
    BY DEF Engines
  <1>2. v \in Nat /\ t \in Seq(Nat) /\ pw \in Logs /\ <<>> \in Seq(Nat)
    <2>1. v \in Nat /\ t \in Seq(Nat)
      BY <1>1, TailFacts
    <2>2. pw \in Logs
      BY <1>1 DEF Logs
    <2> QED BY <2>1, <2>2
  <1>3. /\ [e EXCEPT !.val = Head(e.synth), !.synth = <<>>, !.path = @ \o w] = done
        /\ [e EXCEPT !.synth = Tail(@)] = none
    BY DEF Engines
  <1>4. t = Tail(e.synth) /\ pw = e.path \o w
    OBVIOUS
  <1> HIDE DEF v, t, pw
  <1>5. first \in Engines /\ none \in Engines
    BY <1>2 DEF Engines
  <1>6. /\ Kin(e, first) /\ first.cand = e.cand /\ first.pat = e.pat /\ first.scope = e.scope
        /\ first.at = e.at /\ first.undo = e.undo /\ first.from = e.from /\ first.deaf = e.deaf
        /\ first.won = e.won
    BY <1>5 DEF Kin, Engines
  <1>7. /\ Kin(e, none) /\ none.cand = e.cand /\ none.pat = e.pat /\ none.scope = e.scope
        /\ none.at = e.at /\ none.undo = e.undo /\ none.from = e.from /\ none.deaf = e.deaf
        /\ none.won = e.won /\ none.path = e.path /\ none.synth = t
    BY <1>5 DEF Kin, Engines
  <1> HIDE DEF first, none
  <1>8. second \in Engines /\ deaf \in Engines
    BY <1>2, <1>5 DEF Engines
  <1>9. /\ Kin(first, second) /\ second.cand = first.cand /\ second.pat = first.pat
        /\ second.scope = first.scope /\ second.at = first.at /\ second.undo = first.undo
        /\ second.from = first.from /\ second.deaf = first.deaf /\ second.won = first.won
    BY <1>5, <1>8 DEF Kin, Engines
  <1>10. /\ Kin(none, deaf) /\ deaf.cand = none.cand /\ deaf.pat = none.pat
         /\ deaf.scope = none.scope /\ deaf.at = none.at /\ deaf.undo = none.undo
         /\ deaf.from = none.from /\ deaf.won = none.won /\ deaf.path = none.path
         /\ deaf.synth = none.synth
    BY <1>5, <1>8 DEF Kin, Engines
  <1>11. deaf = [[e EXCEPT !.synth = Tail(@)] EXCEPT !.deaf = TRUE]
    BY <1>3 DEF deaf
  <1> HIDE DEF second, deaf
  <1>12. done \in Engines
    BY <1>2, <1>8 DEF Engines
  <1>13. /\ Kin(second, done) /\ done.cand = second.cand /\ done.pat = second.pat
         /\ done.scope = second.scope /\ done.at = second.at /\ done.undo = second.undo
         /\ done.from = second.from /\ done.deaf = second.deaf /\ done.won = second.won
         /\ done.path = pw
    BY <1>8, <1>12 DEF Kin, Engines
  <1> HIDE DEF done
  <1>14. /\ Kin(e, done) /\ done.cand = e.cand /\ done.pat = e.pat /\ done.scope = e.scope
         /\ done.at = e.at /\ done.undo = e.undo /\ done.from = e.from /\ done.deaf = e.deaf
         /\ done.won = e.won /\ done.path = pw
    BY <1>6, <1>9, <1>13 DEF Kin
  <1>15. /\ Kin(e, deaf) /\ deaf.cand = e.cand /\ deaf.pat = e.pat /\ deaf.scope = e.scope
         /\ deaf.at = e.at /\ deaf.undo = e.undo /\ deaf.from = e.from
         /\ deaf.won = e.won /\ deaf.path = e.path /\ deaf.synth = t
    BY <1>7, <1>10 DEF Kin
  <1> QED BY <1>3, <1>4, <1>7, <1>11, <1>14, <1>15

LEMMA HereShape ==
    ASSUME NEW e \in Engines, NEW done, Kin(e, done), done.cand = e.cand, done.pat = e.pat
    PROVE  LET f == [done EXCEPT !.path = e.path] IN
           Kin(e, f) /\ f.cand = e.cand /\ f.pat = e.pat /\ f.path = e.path
  <1> DEFINE f == [done EXCEPT !.path = e.path]
  <1>1. done \in Engines /\ e.path \in Logs
    BY DEF Kin, Engines
  <1>2. f \in Engines
    BY <1>1 DEF Engines
  <1> QED BY <1>1, <1>2 DEF Kin, Engines

LEMMA SyntheticSound ==
    ASSUME Sound, NEW completes \in BOOLEAN, NEW w, Synthetic(completes, w)
    PROVE  Sound'
  <1> DEFINE done == [E EXCEPT !.val = Head(E.synth), !.synth = <<>>, !.path = @ \o w]
             none == [E EXCEPT !.synth = Tail(@)]
             deaf == [none EXCEPT !.deaf = TRUE]
             here == [done EXCEPT !.path = E.path]
             outer == IF E.scope = "pattern" THEN "registration" ELSE "definition"
             logs == LogsFrom(E.base, works')
             f == CASE completes /\ E.from = "before" -> Closes(done, E.scope, TRUE)
                    [] completes /\ E.from = "after" ->
                         IF E.scope = "definition" THEN Matched(here, last) ELSE Closes(done, outer, TRUE)
                    [] OTHER ->
                         IF none.synth # <<>> THEN none
                         ELSE IF E.scope = "pattern"
                         THEN IF E.from = "before" THEN Closes(none, "pattern", FALSE)
                              ELSE NextPattern(none)
                         ELSE IF E.from = "before" THEN Closes(deaf, E.scope, FALSE)
                         ELSE IF E.scope = "registration" THEN Closes(deaf, "definition", FALSE)
                         ELSE NextCandidate(none)
  <1>1. /\ Running /\ E.at = "synthesize" /\ result' = result /\ branches' = branches
        /\ scopes' = scopes /\ log' = log \o w /\ decisions' = decisions
        /\ ~completes => last' = last
        /\ engines' = [engines EXCEPT ![Depth] = f]
    BY DEF Synthetic, At, Put
  <1>2. /\ w \in WritesAt(works) /\ works' = works + Len(w) /\ works' \in works .. MaxWork
        /\ w \in Logs /\ works' \in Nat /\ works' >= works /\ decisions' \in 0 .. MaxDecisions
    BY <1>1, WriteFacts DEF Synthetic, Sound
  <1>3. /\ E \in Engines /\ Room(E, Depth) /\ E.walk = <<>> /\ E.finals = <<>>
        /\ E.undo \in Seq(Logs) /\ Len(E.undo) = Opened(E) /\ E.synth # <<>>
    BY <1>1, CalmFacts
  <1>4. E.scope \in ScopeNames /\ E.from \in {"before", "after"}
    BY <1>3, Names DEF Engines
  <1>5. /\ Kin(E, done) /\ done.cand = E.cand /\ done.pat = E.pat /\ done.scope = E.scope
        /\ done.undo = E.undo /\ done.path = E.path \o w
        /\ Kin(E, none) /\ none.cand = E.cand /\ none.pat = E.pat /\ none.scope = E.scope
        /\ none.at = E.at /\ none.undo = E.undo /\ none.from = E.from
        /\ Kin(E, deaf) /\ deaf.cand = E.cand /\ deaf.pat = E.pat /\ deaf.undo = E.undo
    BY <1>2, <1>3, SynthShape
  <1> HIDE DEF done, none, deaf
  <1>12. /\ Kin(E, here) /\ here.cand = E.cand /\ here.pat = E.pat /\ here.path = E.path
    BY <1>3, <1>5, HereShape
  <1> HIDE DEF here
  <1>6. /\ Room(done, Depth) /\ Room(none, Depth) /\ Room(deaf, Depth) /\ Room(here, Depth)
        /\ done \in Engines /\ none \in Engines /\ deaf \in Engines /\ here \in Engines
    BY <1>3, <1>5, <1>12 DEF Room, Kin
  <1>7. /\ logs \subseteq Logs /\ Found(E, logs) /\ log' \in logs
        /\ \A g : g.selected = E.selected /\ g.matches = E.matches => Found(g, logs)
    BY <1>1, <1>2, LogFacts
  <1>8. Overridden(E) => last # {} /\ last \subseteq logs /\ E.selected # {}
    <2>1. Overridden(E) => last # {} /\ last \subseteq LogsFrom(E.base, works) /\ E.selected # {}
      BY <1>1 DEF Sound
    <2>2. LogsFrom(E.base, works) \subseteq logs
      BY <1>2, LogsLater, TopFacts, <1>1
    <2> QED BY <2>1, <2>2
  <1>9. ScopesFit(Inside(E)) /\ Inside(E) \in Nat
    BY <1>1, <1>2, ScopesMove
  <1> HIDE DEF logs
  <1>10. CASE completes /\ E.from = "after" /\ E.scope = "definition"
    <2>1. f = Matched(here, last) /\ Overridden(E)
      BY <1>1, <1>10 DEF Overridden
    <2> HIDE DEF f
    <2> DEFINE m == [cand |-> here.cand, state |-> last, want |-> here.path]
    <2>2. last \in SUBSET Logs /\ last # {} /\ last \subseteq logs
      BY <1>7, <1>8, <2>1
    <2>3. LET g == Matched(here, last) IN
          /\ g \in Engines /\ Room(g, Depth) /\ g.base = here.base /\ g.scopes = here.scopes
          /\ g.branches = here.branches /\ g.selected = here.selected
          /\ g.walk = here.walk /\ g.finals = here.finals /\ g.matches = Append(here.matches, m)
          /\ g.undo = <<>>
          /\ \/ g.at = "before" /\ g.scope = "definition"
             \/ g.at = "finish"
      BY <1>1, <1>6, <2>2, MatchedShape
    <2>4. m \in Matches /\ m.state = last
      <3>1. here.cand \in Nat /\ here.path \in Logs
        BY <1>6 DEF Engines, Count
      <3> QED BY <2>2, <3>1 DEF Matches
    <2> HIDE DEF m
    <2>5. /\ f \in Engines /\ f.base = E.base /\ f.scopes = E.scopes /\ f.branches = E.branches
          /\ Room(f, Depth) /\ f.walk = <<>> /\ f.finals = <<>> /\ f.selected = E.selected
          /\ f.matches = Append(E.matches, m)
      BY <1>3, <1>5, <1>12, <2>1, <2>3 DEF Kin
    <2>6. Found(f, logs)
      <3>1. f.selected \subseteq logs /\ f.selected # {}
        BY <1>7, <1>8, <2>1, <2>5 DEF Found
      <3> QED BY <1>3, <1>7, <2>2, <2>4, <2>5, <3>1, FoundMore
    <2>7. Phased(f) /\ Inside(f) = 0 /\ ~Overridden(f)
      BY <2>1, <2>3, <2>5 DEF Phased, Opened, Level, Inside, Overridden
    <2>8. Inside(E) = 0
      BY <1>1, <1>3, <1>10 DEF Inside, Opened, Level
    <2> QED BY <1>1, <1>2, <1>7, <1>9, <2>5, <2>6, <2>7, <2>8, CalmStep DEF logs
  <1>11. CASE ~(completes /\ E.from = "after" /\ E.scope = "definition")
    <2>1. /\ Kin(E, f) /\ Room(f, Depth)
          /\ \/ /\ f.undo = E.undo
                /\ \/ f.at = "after" /\ f.scope = E.scope /\ E.from = "before"
                   \/ f.at = "after" /\ f.scope = outer /\ E.from = "after" /\ E.scope # "definition"
                   \/ /\ f.at = "synthesize" /\ f.scope = E.scope /\ f.from = E.from /\ f.synth # <<>>
                      /\ last' = last
                   \/ f.at = "before" /\ f.scope = "pattern" /\ E.scope = "pattern" /\ E.from = "after"
             \/ /\ f.undo = <<>> /\ E.scope = "definition" /\ E.from = "after"
                /\ \/ f.at = "before" /\ f.scope = "definition"
                   \/ f.at = "finish"
      <3>1. CASE completes /\ E.from = "before"
        <4>1. f = Closes(done, E.scope, TRUE)
          BY <3>1
        <4> HIDE DEF f
        <4>2. LET g == Closes(done, E.scope, TRUE) IN
              /\ Kin(done, g) /\ g.cand = done.cand /\ g.pat = done.pat /\ g.undo = done.undo
              /\ g.at = "after" /\ g.scope = E.scope
          BY <1>4, <1>6, ClosesShape
        <4> QED BY <1>5, <1>6, <3>1, <4>1, <4>2 DEF Kin, Room
      <3>2. CASE completes /\ E.from # "before"
        <4>1. f = Closes(done, outer, TRUE) /\ outer \in ScopeNames
          BY <1>4, <1>11, <3>2, Names
        <4> HIDE DEF f, outer
        <4>2. LET g == Closes(done, outer, TRUE) IN
              /\ Kin(done, g) /\ g.cand = done.cand /\ g.pat = done.pat /\ g.undo = done.undo
              /\ g.at = "after" /\ g.scope = outer
          BY <1>6, <4>1, ClosesShape
        <4> QED BY <1>4, <1>5, <1>6, <1>11, <3>2, <4>1, <4>2 DEF Kin, Room
      <3>3. CASE ~completes /\ none.synth # <<>>
        <4>1. f = none
          BY <3>3
        <4> HIDE DEF f
        <4> QED BY <1>1, <1>5, <1>6, <3>3, <4>1
      <3>4. CASE ~completes /\ ~(none.synth # <<>>) /\ E.scope = "pattern" /\ E.from = "before"
        <4>1. f = Closes(none, "pattern", FALSE)
          BY <3>4
        <4> HIDE DEF f
        <4>3. "pattern" \in ScopeNames
          BY Names
        <4>2. LET g == Closes(none, "pattern", FALSE) IN
              /\ Kin(none, g) /\ g.cand = none.cand /\ g.pat = none.pat /\ g.undo = none.undo
              /\ g.at = "after" /\ g.scope = "pattern"
          BY ZenonT(60), <1>6, <4>3, ClosesShape
        <4> QED BY <1>5, <1>6, <3>4, <4>1, <4>2 DEF Kin, Room
      <3>5. CASE ~completes /\ ~(none.synth # <<>>) /\ E.scope = "pattern" /\ E.from # "before"
        <4>1. f = NextPattern(none) /\ outer = "registration" /\ E.from = "after"
          BY <1>4, <3>5
        <4> HIDE DEF f, outer
        <4>2. LET g == NextPattern(none) IN
              /\ Kin(none, g) /\ Room(g, Depth) /\ g.undo = none.undo
              /\ \/ g.at = "before" /\ g.scope = "pattern"
                 \/ g.at = "after" /\ g.scope = "registration"
          BY <1>1, <1>6, NextPatternShape
        <4> QED BY <1>5, <3>5, <4>1, <4>2 DEF Kin
      <3>6. CASE ~completes /\ ~(none.synth # <<>>) /\ E.scope # "pattern" /\ E.from = "before"
        <4>1. f = Closes(deaf, E.scope, FALSE)
          BY <3>6
        <4> HIDE DEF f
        <4>2. LET g == Closes(deaf, E.scope, FALSE) IN
              /\ Kin(deaf, g) /\ g.cand = deaf.cand /\ g.pat = deaf.pat /\ g.undo = deaf.undo
              /\ g.at = "after" /\ g.scope = E.scope
          BY <1>4, <1>6, ClosesShape
        <4> QED BY <1>5, <1>6, <3>6, <4>1, <4>2 DEF Kin, Room
      <3>7. CASE ~completes /\ ~(none.synth # <<>>) /\ E.scope = "registration" /\ E.from # "before"
        <4>1. f = Closes(deaf, "definition", FALSE) /\ outer = "definition" /\ E.from = "after"
          BY <1>4, <3>7
        <4> HIDE DEF f, outer
        <4>3. "definition" \in ScopeNames
          BY Names
        <4>2. LET g == Closes(deaf, "definition", FALSE) IN
              /\ Kin(deaf, g) /\ g.cand = deaf.cand /\ g.pat = deaf.pat /\ g.undo = deaf.undo
              /\ g.at = "after" /\ g.scope = "definition"
          BY ZenonT(60), <1>6, <4>3, ClosesShape
        <4> QED BY <1>5, <1>6, <3>7, <4>1, <4>2 DEF Kin, Room
      <3>8. CASE ~completes /\ ~(none.synth # <<>>) /\ E.scope = "definition" /\ E.from # "before"
        <4>1. f = NextCandidate(none) /\ E.from = "after"
          BY <1>4, <3>8
        <4> HIDE DEF f
        <4>2. LET g == NextCandidate(none) IN
              /\ Kin(none, g) /\ Room(g, Depth) /\ g.undo = <<>>
              /\ \/ g.at = "before" /\ g.scope = "definition"
                 \/ g.at = "finish"
          BY <1>1, <1>6, NextCandidateShape
        <4> QED BY <1>5, <3>8, <4>1, <4>2 DEF Kin
      <3> QED BY <1>4, <3>1, <3>2, <3>3, <3>4, <3>5, <3>6, <3>7, <3>8 DEF ScopeNames
    <2> HIDE DEF f
    <2>2. /\ f \in Engines /\ f.base = E.base /\ f.scopes = E.scopes /\ f.branches = E.branches
          /\ f.walk = <<>> /\ f.finals = <<>> /\ f.selected = E.selected /\ f.matches = E.matches
      BY <1>3, <2>1 DEF Kin
    <2>3. Len(E.undo) = IF E.from = "before" THEN Level(E.scope) ELSE Level(E.scope) - 1
      BY <1>1, <1>3, <1>4 DEF Opened
    <2>4. Len(f.undo) = Opened(f)
      BY <1>4, <2>1, <2>3 DEF Opened, Level, ScopeNames
    <2>5. Phased(f)
      BY <2>1, <2>2, <2>4 DEF Phased
    <2>6. Inside(f) = Inside(E)
      BY <2>1, <2>3 DEF Inside, Level
    <2>7. Found(f, logs)
      BY <1>7, <2>2
    <2>8. Overridden(f) => Overridden(E) /\ last' = last
      BY <1>1, <1>4, <2>1 DEF Overridden, ScopeNames
    <2>9. Overridden(f) => last' # {} /\ last' \subseteq logs /\ f.selected # {}
      BY <1>8, <2>2, <2>8
    <2> QED BY <1>1, <1>2, <1>7, <1>9, <2>1, <2>2, <2>5, <2>6, <2>7, <2>9, CalmStep DEF logs
  <1> QED BY <1>10, <1>11

-----------------------------------------------------------------------------
(* The states of the search.                                               *)
LEMMA Still ==
    ASSUME Sound, works' = works
    PROVE  /\ <<>> \in WritesAt(works) /\ works' = works + Len(<<>>) /\ works' \in works .. MaxWork
           /\ works' \in Nat /\ works' >= works /\ works \in Nat /\ <<>> \in Logs
           /\ \A l \in Logs : l \o <<>> = l
           /\ decisions' = decisions => decisions' \in 0 .. MaxDecisions
  <1>1. works \in 0 .. MaxWork /\ MaxWork \in Nat /\ decisions \in 0 .. MaxDecisions
    BY PatternsAssumption DEF Sound
  <1>2. \A l \in Logs : l \o <<>> = l
    BY DEF Logs
  <1>3. Len(<<>>) = 0 /\ <<>> \in Logs
    BY DEF Logs
  <1> QED BY <1>1, <1>2, <1>3 DEF WritesAt

LEMMA StatesParts ==
    ASSUME NEW e
    PROVE  \A s : s \in StatesOf(e) <=> \/ \E k \in DOMAIN e.walk : s \in FrameStates(e.walk[k])
                                       \/ \E k \in DOMAIN e.finals : s = e.finals[k]
  <1> DEFINE inner == UNION {FrameStates(e.walk[k]) : k \in DOMAIN e.walk}
             outer == Range(e.finals)
  <1>1. StatesOf(e) = inner \cup outer
    BY DEF StatesOf
  <1>2. \A s : s \in inner <=> \E k \in DOMAIN e.walk : s \in FrameStates(e.walk[k])
    OBVIOUS
  <1>3. \A s : s \in outer <=> \E k \in DOMAIN e.finals : s = e.finals[k]
    BY DEF Range
  <1> HIDE DEF inner, outer
  <1> QED BY <1>1, <1>2, <1>3

LEMMA RestoreFacts ==
    ASSUME Sound, Running, NEW w \in WritesAt(works), works' = works + Len(w),
           works' \in Nat, works' >= works, NEW s \in States, s.at = 0 \/ s.at \in E.branches + 1 .. Len(branches)
    PROVE  /\ Restore(s) \in LogsFrom(E.base, works') /\ Restore(s) \o w \in LogsFrom(E.base, works')
           /\ Restore(s) \in Logs /\ Restore(s) \o w \in Logs
  <1> DEFINE logs == LogsFrom(E.base, works')
  <1>1. /\ logs \subseteq Logs /\ log \in logs /\ log \o w \in logs
        /\ \A j \in E.branches + 1 .. Len(branches) : branches[j] \in logs /\ branches[j] \o w \in logs
    BY LogFacts
  <1> HIDE DEF logs
  <1>2. Restore(s) \in logs /\ Restore(s) \o w \in logs
    BY <1>1 DEF Restore
  <1> QED BY <1>1, <1>2 DEF logs

LEMMA CompleteFacts ==
    ASSUME Sound, Running, E.at = "complete"
    PROVE  /\ E \in Engines /\ Room(E, Depth) /\ E.walk = <<>> /\ E.finals \in Seq(States)
           /\ E.scope = "pattern" /\ Len(E.undo) = 3 /\ Inside(E) = 2 /\ E.path \in Logs
           /\ \A k \in DOMAIN E.finals : E.finals[k] \in States /\
                 (E.finals[k].at = 0 \/ E.finals[k].at \in E.branches + 1 .. Len(branches))
  <1>1. /\ E \in Engines /\ Timely(E, Depth) /\ Checked(E, Len(branches))
    BY TopFacts DEF EngineOK
  <1>2. E.finals \in Seq(States) /\ E.path \in Logs
    BY <1>1 DEF Engines
  <1>3. /\ Room(E, Depth) /\ E.walk = <<>> /\ E.scope = "pattern" /\ Len(E.undo) = 3
    BY <1>1 DEF Timely, Phased, Room, Opened, Level
  <1>4. \A k \in DOMAIN E.finals : E.finals[k] \in StatesOf(E)
    BY StatesParts
  <1>5. \A k \in DOMAIN E.finals : E.finals[k].at = 0 \/ E.finals[k].at \in E.branches + 1 .. Len(branches)
    BY <1>1, <1>4 DEF Checked
  <1>6. \A k \in DOMAIN E.finals : E.finals[k] \in States
    BY <1>2
  <1> QED BY <1>1, <1>2, <1>3, <1>5, <1>6 DEF Inside

LEMMA SkipSound ==
    ASSUME Sound, Skip
    PROVE  Sound'
  <1> DEFINE t == Tail(E.finals)
             f == [E EXCEPT !.finals = t]
  <1>1. /\ Running /\ E.at = "complete" /\ E.finals # <<>> /\ result' = result /\ branches' = branches
        /\ scopes' = scopes /\ works' = works /\ decisions' = decisions
        /\ engines' = [engines EXCEPT ![Depth] = f]
        /\ log' = log \/ log' = Restore(Head(E.finals))
    BY DEF Skip, At, Put
  <1>2. /\ <<>> \in WritesAt(works) /\ works' = works + Len(<<>>) /\ works' \in works .. MaxWork
        /\ works' \in Nat /\ works' >= works /\ decisions' \in 0 .. MaxDecisions
    BY <1>1, Still
  <1>3. /\ E \in Engines /\ Room(E, Depth) /\ E.walk = <<>> /\ E.finals \in Seq(States)
        /\ E.scope = "pattern" /\ Len(E.undo) = 3 /\ Inside(E) = 2
        /\ \A k \in DOMAIN E.finals : E.finals[k] \in States /\
              (E.finals[k].at = 0 \/ E.finals[k].at \in E.branches + 1 .. Len(branches))
    BY <1>1, CompleteFacts
  <1>4. /\ Head(E.finals) = E.finals[1] /\ 1 \in DOMAIN E.finals /\ t \in Seq(States)
        /\ \A k \in DOMAIN t : k + 1 \in DOMAIN E.finals /\ t[k] = E.finals[k + 1]
    BY <1>1, <1>3, TailFacts
  <1>5. log' \in LogsFrom(E.base, works')
    BY <1>1, <1>2, <1>3, <1>4, LogFacts, RestoreFacts
  <1> HIDE DEF t
  <1>6. f \in Engines
    BY <1>3, <1>4 DEF Engines
  <1>7. /\ f.base = E.base /\ f.scopes = E.scopes /\ f.branches = E.branches /\ f.walk = <<>>
        /\ f.selected = E.selected /\ f.matches = E.matches /\ f.finals = t /\ f.at = "complete"
        /\ f.undo = E.undo /\ f.scope = "pattern" /\ f.cand = E.cand /\ f.pat = E.pat
    BY <1>1, <1>3, <1>6 DEF Engines
  <1> HIDE DEF f
  <1>8. Timely(f, Depth) /\ ~Asking(f) /\ Inside(f) = 2 /\ ~Overridden(f)
    <2>1. Walked(f.walk) /\ ~Asking(f)
      BY <1>7 DEF Walked, Asking
    <2>2. Phased(f)
      BY <1>3, <1>7 DEF Phased, Opened, Level
    <2>3. Inside(f) = 2 /\ ~Overridden(f)
      BY <1>3, <1>7 DEF Inside, Overridden
    <2> QED BY <1>3, <1>7, <2>1, <2>2, <2>3 DEF Timely, Room
  <1>9. Checked(f, Len(branches))
    <2>1. \A s \in StatesOf(f) : \E k \in DOMAIN t : s = t[k]
      BY <1>7, StatesParts
    <2> QED BY <1>3, <1>4, <1>7, <2>1 DEF Checked
  <1>10. ScopesFit(2)
    BY <1>1, <1>2, <1>3, ScopesMove
  <1>11. Found(f, LogsFrom(E.base, works'))
    BY <1>1, <1>2, <1>7, LogFacts
  <1> QED BY <1>1, <1>2, <1>5, <1>6, <1>7, <1>8, <1>9, <1>10, <1>11, QuietStep DEF ScopesFit, FitFor

LEMMA IncompleteSound ==
    ASSUME Sound, Incomplete
    PROVE  Sound'
  <1> DEFINE f == Closes(E, "pattern", FALSE)
  <1>1. /\ Running /\ E.at = "complete" /\ E.finals = <<>> /\ result' = result /\ branches' = branches
        /\ scopes' = scopes /\ works' = works /\ decisions' = decisions /\ log' = log
        /\ engines' = [engines EXCEPT ![Depth] = f]
    BY DEF Incomplete, At, Put
  <1>2. /\ <<>> \in WritesAt(works) /\ works' = works + Len(<<>>) /\ works' \in works .. MaxWork
        /\ works' \in Nat /\ works' >= works /\ decisions' \in 0 .. MaxDecisions
    BY <1>1, Still
  <1>3. /\ E \in Engines /\ Room(E, Depth) /\ E.walk = <<>> /\ E.finals \in Seq(States)
        /\ E.scope = "pattern" /\ Len(E.undo) = 3 /\ Inside(E) = 2
    BY <1>1, CompleteFacts
  <1>4. log' \in LogsFrom(E.base, works')
    BY <1>1, <1>2, LogFacts
  <1>5. "pattern" \in ScopeNames
    BY Names
  <1>6. LET g == Closes(E, "pattern", FALSE) IN
        /\ Kin(E, g) /\ g.cand = E.cand /\ g.pat = E.pat /\ g.undo = E.undo
        /\ g.at = "after" /\ g.scope = "pattern"
    BY <1>3, <1>5, ClosesShape
  <1> HIDE DEF f
  <1>7. /\ Kin(E, f) /\ f.cand = E.cand /\ f.pat = E.pat /\ f.undo = E.undo
        /\ f.at = "after" /\ f.scope = "pattern"
    BY <1>6 DEF f
  <1>8. /\ f \in Engines /\ f.base = E.base /\ f.scopes = E.scopes /\ f.branches = E.branches
        /\ f.walk = <<>> /\ f.finals = <<>> /\ Room(f, Depth) /\ f.selected = E.selected
        /\ f.matches = E.matches
    BY <1>1, <1>3, <1>7 DEF Kin, Room
  <1>9. Phased(f) /\ Inside(f) = 2 /\ ~Overridden(f)
    BY <1>3, <1>7, <1>8 DEF Phased, Opened, Level, Inside, Overridden
  <1>10. ScopesFit(2)
    BY <1>1, <1>2, <1>3, ScopesMove
  <1>11. Found(f, LogsFrom(E.base, works'))
    BY <1>1, <1>2, <1>8, LogFacts
  <1> QED BY <1>1, <1>2, <1>4, <1>8, <1>9, <1>10, <1>11, CalmStep

LEMMA CompleteSound ==
    ASSUME Sound, NEW w, Complete(w)
    PROVE  Sound'
  <1> DEFINE s == Head(E.finals)
             q == s.path \o w
             a == [E EXCEPT !.finals = <<>>]
             b == [a EXCEPT !.val = E.pat]
             c == [b EXCEPT !.path = q]
             f == Closes(c, "pattern", TRUE)
  <1>1. /\ Running /\ E.at = "complete" /\ E.finals # <<>> /\ result' = result /\ branches' = branches
        /\ scopes' = scopes /\ decisions' = decisions /\ log' = Restore(s) \o w
        /\ engines' = [engines EXCEPT ![Depth] =
               Closes([E EXCEPT !.finals = <<>>, !.val = E.pat, !.path = s.path \o w], "pattern", TRUE)]
    BY DEF Complete, At, Put
  <1>2. /\ w \in WritesAt(works) /\ works' = works + Len(w) /\ works' \in works .. MaxWork
        /\ w \in Logs /\ works' \in Nat /\ works' >= works /\ decisions' \in 0 .. MaxDecisions
    BY <1>1, WriteFacts DEF Complete, Sound
  <1>3. /\ E \in Engines /\ Room(E, Depth) /\ E.walk = <<>> /\ E.finals \in Seq(States)
        /\ E.scope = "pattern" /\ Len(E.undo) = 3 /\ Inside(E) = 2
        /\ \A k \in DOMAIN E.finals : E.finals[k] \in States /\
              (E.finals[k].at = 0 \/ E.finals[k].at \in E.branches + 1 .. Len(branches))
    BY <1>1, CompleteFacts
  <1>4. s = E.finals[1] /\ 1 \in DOMAIN E.finals /\ s \in States
    BY <1>1, <1>3, TailFacts
  <1>5. log' \in LogsFrom(E.base, works')
    BY <1>1, <1>2, <1>3, <1>4, RestoreFacts
  <1>6. q \in Logs /\ E.pat \in Nat /\ <<>> \in Seq(States)
    <2>1. s.path \in Logs
      BY <1>4 DEF States
    <2>2. E.pat \in Nat
      BY <1>3 DEF Engines, Count
    <2> QED BY <1>2, <2>1, <2>2 DEF Logs
  <1>7. engines' = [engines EXCEPT ![Depth] = f]
    <2>1. [E EXCEPT !.finals = <<>>, !.val = E.pat, !.path = s.path \o w] = c
      BY <1>3 DEF Engines
    <2> QED BY <1>1, <2>1
  <1> HIDE DEF q, s
  <1>8. a \in Engines
    BY <1>3, <1>6 DEF Engines
  <1>9. /\ a.base = E.base /\ a.scopes = E.scopes /\ a.branches = E.branches /\ a.walk = E.walk
        /\ a.selected = E.selected /\ a.matches = E.matches /\ a.finals = <<>>
        /\ a.undo = E.undo /\ a.cand = E.cand /\ a.pat = E.pat
    BY <1>3, <1>8 DEF Engines
  <1> HIDE DEF a
  <1>10. b \in Engines
    BY <1>6, <1>8 DEF Engines
  <1>11. Kin(a, b) /\ b.undo = a.undo /\ b.cand = a.cand /\ b.pat = a.pat
    BY <1>8, <1>10 DEF Kin, Engines
  <1> HIDE DEF b
  <1>12. c \in Engines
    BY <1>6, <1>10 DEF Engines
  <1>13. Kin(b, c) /\ c.undo = b.undo /\ c.cand = b.cand /\ c.pat = b.pat
    BY <1>10, <1>12 DEF Kin, Engines
  <1> HIDE DEF c
  <1>14. "pattern" \in ScopeNames
    BY Names
  <1>15. LET g == Closes(c, "pattern", TRUE) IN
         /\ Kin(c, g) /\ g.cand = c.cand /\ g.pat = c.pat /\ g.undo = c.undo
         /\ g.at = "after" /\ g.scope = "pattern"
    BY <1>12, <1>14, ClosesShape
  <1>16. /\ Kin(c, f) /\ f.cand = c.cand /\ f.pat = c.pat /\ f.undo = c.undo
         /\ f.at = "after" /\ f.scope = "pattern"
    BY <1>15
  <1> HIDE DEF f
  <1>17. /\ f \in Engines /\ f.base = E.base /\ f.scopes = E.scopes /\ f.branches = E.branches
         /\ f.walk = <<>> /\ f.finals = <<>> /\ Room(f, Depth) /\ f.selected = E.selected
         /\ f.matches = E.matches /\ f.undo = E.undo
    BY <1>3, <1>9, <1>11, <1>13, <1>16 DEF Kin, Room
  <1>18. Phased(f) /\ Inside(f) = 2 /\ ~Overridden(f)
    BY <1>3, <1>16, <1>17 DEF Phased, Opened, Level, Inside, Overridden
  <1>19. ScopesFit(2)
    BY <1>1, <1>2, <1>3, ScopesMove
  <1>20. Found(f, LogsFrom(E.base, works'))
    BY <1>1, <1>2, <1>17, LogFacts
  <1> QED BY <1>1, <1>2, <1>5, <1>7, <1>17, <1>18, <1>19, <1>20, CalmStep

-----------------------------------------------------------------------------
(* Matches begin and end.                                                  *)
LEMMA InitSound ==
    ASSUME Init
    PROVE  Sound
  <1> DEFINE e == Engine(<<>>, 0, 0)
  <1>1. <<>> \in Logs /\ <<>> \in Seq(Logs) /\ Sorted(<<>>, 0) /\ <<>> \in LogsFrom(<<>>, 0)
    <2>1. <<>> \in Logs /\ <<>> \in Seq(Logs)
      BY DEF Logs
    <2>2. Sorted(<<>>, 0) /\ Begins(<<>>, <<>>)
      BY DEF Sorted, Begins
    <2> QED BY <2>1, <2>2 DEF LogsFrom
  <1>2. e \in Engines
    <2>1. "definition" \in ScopeNames /\ 1 \in Count
      BY Names DEF Count
    <2> QED BY <1>1, <2>1 DEF Engine, Engines
  <1>3. /\ e.base = <<>> /\ e.scopes = 0 /\ e.branches = 0 /\ e.undo = <<>> /\ e.walk = <<>>
        /\ e.finals = <<>> /\ e.at = "before" /\ e.scope = "definition" /\ e.matches = <<>>
        /\ e.selected = {} /\ e.cand = 1 /\ e.pat = 1
    BY DEF Engine
  <1> HIDE DEF e
  <1>4. engines = <<e>> /\ log = <<>> /\ works = 0 /\ decisions = 0 /\ scopes = <<>>
        /\ branches = <<>> /\ result = "running"
    BY DEF Init, e
  <1>5. /\ Depth = 1 /\ engines \in Seq(Engines) /\ engines[1] = e /\ E = e
        /\ Depth \in 1 .. Len(Patterns) /\ Len(Patterns) \in Nat
    <2>1. Depth = 1 /\ engines \in Seq(Engines) /\ engines[1] = e /\ E = e
      BY <1>2, <1>4 DEF Depth, E
    <2>2. Len(Patterns) \in Nat /\ Len(Patterns) # 0
      BY PatternsAssumption
    <2> QED BY <2>1, <2>2
  <1>6. Timely(e, 1)
    <2>1. e.cand =< Len(Patterns[1]) /\ e.pat =< Len(Patterns[1][e.cand])
      BY <1>3, <1>5, Patterned
    <2>2. Phased(e) /\ Walked(e.walk)
      BY <1>3 DEF Phased, Walked, Opened, Level
    <2> QED BY <2>1, <2>2 DEF Timely
  <1>7. EngineOK(e, 1, <<>>, <<>>, 0, <<>>, 0, 0)
    <2>1. Checked(e, 0) /\ ~Asking(e)
      BY <1>3, Calm
    <2>2. Found(e, LogsFrom(<<>>, 0)) /\ Inside(e) = 0
      BY <1>3 DEF Found, Inside
    <2>3. Aside(<<>>, 0, 0, LogsFrom(<<>>, 0))
      BY DEF Aside
    <2> QED BY <1>1, <1>2, <1>3, <1>6, <2>1, <2>2, <2>3 DEF EngineOK, Deferred
  <1>8. \A k \in 1 .. Depth :
          EngineOK(engines[k], k, LogAt(k), scopes, ScopesAt(k), branches, BranchesAt(k), works)
    BY <1>4, <1>5, <1>7 DEF LogAt, ScopesAt, BranchesAt
  <1>9. works \in 0 .. MaxWork /\ decisions \in 0 .. MaxDecisions
    BY <1>4, PatternsAssumption
  <1>10. Stacked(engines)
    <2>1. e.scopes =< e.scopes /\ e.branches =< e.branches /\ DOMAIN engines = {1}
      BY <1>3, <1>4
    <2> QED BY <1>5, <2>1 DEF Stacked
  <1>11. \A k \in 1 .. Depth : Len(engines[k].undo) =< 3
    BY <1>3, <1>5
  <1>12. ~Overridden(E)
    BY <1>3, <1>5 DEF Overridden
  <1> QED BY <1>1, <1>3, <1>4, <1>5, <1>8, <1>9, <1>10, <1>11, <1>12 DEF Sound, Running

(* The outermost match ends, and nothing is put aside any longer.          *)
LEMMA EndSound ==
    ASSUME Sound, Running, result' \in {"matched", "unmatched", "error"},
           works' = works, decisions' = decisions, engines' \in Seq(Engines), Len(engines') = 1,
           Len(engines'[1].undo) =< 3, log' \in LogsFrom(<<>>, works),
           scopes' = <<>>, branches' = <<>>
    PROVE  Sound'
  <1>1. Depth' = 1 /\ 1 \in 1 .. Len(Patterns)
    <2>1. Depth \in 1 .. Len(Patterns) /\ Len(Patterns) \in Nat
      BY TopFacts
    <2> QED BY <2>1 DEF Depth
  <1>2. log' \in Logs /\ Sorted(log', works') /\ scopes' \in Seq(Logs) /\ branches' \in Seq(Logs)
    BY DEF LogsFrom
  <1>3. ~Running'
    BY DEF Running
  <1>4. \A k \in 1 .. Depth' : Len(engines'[k].undo) =< 3
    BY <1>1
  <1>5. works' \in 0 .. MaxWork /\ decisions' \in 0 .. MaxDecisions
    BY DEF Sound
  <1> QED BY <1>1, <1>2, <1>3, <1>4, <1>5 DEF Sound

LEMMA FirstFacts ==
    ASSUME Sound, Running
    PROVE  /\ engines[1] \in Engines /\ engines[1].base = <<>> /\ engines[1].scopes = 0
           /\ engines[1].branches = 0 /\ Len(engines[1].undo) =< 3 /\ engines \in Seq(Engines)
           /\ Truncated(scopes, 0) = <<>> /\ Truncated(branches, 0) = <<>>
           /\ <<>> \in LogsFrom(<<>>, works)
  <1>1. Depth \in 1 .. Len(Patterns) /\ engines \in Seq(Engines) /\ 1 \in 1 .. Depth /\ Depth = Len(engines)
    BY TopFacts DEF Sound
  <1>2. engines[1] \in Engines
    BY <1>1
  <1>3. SubSeq(scopes, 1, 0) = <<>> /\ SubSeq(branches, 1, 0) = <<>>
    BY DEF Sound
  <1>4. <<>> \in LogsFrom(<<>>, works)
    BY DEF LogsFrom, Logs, Sorted, Begins
  <1> QED BY <1>1, <1>2, <1>3, <1>4 DEF Sound, Truncated

LEMMA FinishMatchSound ==
    ASSUME Sound, FinishMatch
    PROVE  Sound'
  <1>1. /\ Running /\ Depth = 1 /\ engines' = engines /\ works' = works /\ decisions' = decisions
        /\ log' = IF E.matches # <<>> THEN Selected ELSE E.base
        /\ scopes' = Truncated(scopes, E.scopes) /\ branches' = Truncated(branches, E.branches)
        /\ result' \in {"matched", "unmatched", "error"}
    BY DEF FinishMatch, At
  <1>2. E = engines[1] /\ Len(engines) = 1
    BY <1>1 DEF E, Depth
  <1>3. log' \in LogsFrom(<<>>, works)
    <2>1. Found(E, LogsFrom(<<>>, works))
      BY <1>1, <1>2, TopFacts, FirstFacts DEF EngineOK
    <2>2. E.matches # <<>> => Selected \in LogsFrom(<<>>, works)
      BY <2>1 DEF Found, Selected
    <2> QED BY <1>1, <1>2, <2>2, FirstFacts
  <1> QED BY <1>1, <1>2, <1>3, FirstFacts, EndSound

LEMMA FaultSound ==
    ASSUME Sound, Fault
    PROVE  Sound'
  <1>1. /\ Running /\ engines' = <<engines[1]>> /\ works' = works /\ decisions' = decisions
        /\ log' = engines[1].base /\ result' \in {"matched", "unmatched", "error"}
        /\ scopes' = Truncated(scopes, engines[1].scopes)
        /\ branches' = Truncated(branches, engines[1].branches)
    BY DEF Fault
  <1>2. engines' \in Seq(Engines) /\ Len(engines') = 1 /\ engines'[1] = engines[1]
    BY <1>1, FirstFacts
  <1> QED BY <1>1, <1>2, FirstFacts, EndSound

LEMMA LogsTrans ==
    ASSUME NEW n \in Nat, NEW a \in Logs, NEW b \in LogsFrom(a, n), NEW l \in LogsFrom(b, n)
    PROVE  l \in LogsFrom(a, n)
  <1>1. /\ b \in Logs /\ l \in Logs /\ Sorted(l, n) /\ Len(a) =< Len(b) /\ Len(b) =< Len(l)
        /\ \A i \in DOMAIN a : b[i] = a[i]
        /\ \A i \in DOMAIN b : l[i] = b[i]
    BY DEF LogsFrom, Begins
  <1>2. DOMAIN a = 1 .. Len(a) /\ DOMAIN b = 1 .. Len(b) /\ Len(a) \in Nat /\ Len(b) \in Nat /\ Len(l) \in Nat
    BY <1>1 DEF Logs
  <1>3. Len(a) =< Len(l) /\ \A i \in DOMAIN a : l[i] = a[i]
    BY <1>1, <1>2
  <1> QED BY <1>1, <1>3 DEF LogsFrom, Begins

LEMMA FrameKinds ==
    ASSUME NEW f \in Frames
    PROVE  /\ f.kind \in {"seq", "elem"} /\ (f.kind = "seq" => f \in SeqFrames)
           /\ (f.kind = "elem" => f \in ElemFrames)
  BY DEF Frames, SeqFrames, ElemFrames

(* The frame on the top of a walk is replaced.                             *)
LEMMA NextIndex == \A n \in Nat : \A j \in 1 .. n : j # n => j + 1 \in 1 .. n
  OBVIOUS

LEMMA WalkTop ==
    ASSUME NEW walk \in Seq(Frames), walk # <<>>, Walked(walk), NEW g \in Frames,
           g.kind = walk[Len(walk)].kind
    PROVE  LET wk == [walk EXCEPT ![Len(walk)] = g] IN
           /\ wk \in Seq(Frames) /\ Len(wk) = Len(walk) /\ wk # <<>> /\ Last(wk) = g /\ Walked(wk)
           /\ wk[Len(walk)] = g
           /\ \A j \in DOMAIN wk : wk[j] = IF j = Len(walk) THEN g ELSE walk[j]
  <1> DEFINE wk == [walk EXCEPT ![Len(walk)] = g]
  <1>1. /\ wk \in Seq(Frames) /\ Len(wk) = Len(walk) /\ wk # <<>> /\ wk[Len(walk)] = g
        /\ DOMAIN wk = 1 .. Len(walk) /\ DOMAIN walk = 1 .. Len(walk) /\ Len(walk) \in Nat \ {0}
        /\ \A j \in 1 .. Len(walk) : wk[j] = IF j = Len(walk) THEN g ELSE walk[j]
    OBVIOUS
  <1> HIDE DEF wk
  <1>2. Walked(wk)
    <2>1. ASSUME NEW j \in 1 .. Len(walk) PROVE wk[j].kind = walk[j].kind
      <3>1. CASE j = Len(walk)
        <4>1. wk[j] = g
          BY <1>1, <3>1
        <4> QED BY <3>1, <4>1
      <3>2. CASE j # Len(walk)
        <4>1. wk[j] = walk[j]
          BY <1>1, <3>2
        <4> QED BY <4>1
      <3> QED BY <3>1, <3>2
    <2>2. ASSUME NEW j \in 1 .. Len(walk), j # Len(walk)
          PROVE  wk[j] = walk[j] /\ j + 1 \in 1 .. Len(walk)
      <3>1. wk[j] = walk[j]
        BY <1>1, <2>2
      <3>2. Len(walk) \in Nat
        BY <1>1
      <3> QED BY <2>2, <3>1, <3>2, NextIndex
    <2>3. wk[1].kind = "seq"
      <3>3. Len(walk) \in Nat \ {0}
        BY <1>1
      <3>1. 1 \in 1 .. Len(walk)
        BY <3>3
      <3>2. walk[1].kind = "seq"
        BY DEF Walked
      <3> QED BY <2>1, <3>1, <3>2
    <2>4. ASSUME NEW j \in DOMAIN wk, j # Len(wk)
          PROVE  /\ wk[j].kind = "seq" <=> wk[j + 1].kind = "elem"
                 /\ wk[j].kind = "seq" => wk[j].agenda # <<>>
                 /\ wk[j].kind = "elem" => /\ wk[j].elem.kind \in {"choice", "option"}
                                           /\ wk[j].phase = "default"
      <3>1. j \in 1 .. Len(walk) /\ j # Len(walk) /\ j + 1 \in 1 .. Len(walk) /\ wk[j] = walk[j]
        BY <1>1, <2>2, <2>4
      <3>2. wk[j + 1].kind = walk[j + 1].kind
        BY <2>1, <3>1
      <3>3. j \in DOMAIN walk
        BY <1>1, <3>1
      <3>4. /\ walk[j].kind = "seq" <=> walk[j + 1].kind = "elem"
            /\ walk[j].kind = "seq" => walk[j].agenda # <<>>
            /\ walk[j].kind = "elem" => /\ walk[j].elem.kind \in {"choice", "option"}
                                        /\ walk[j].phase = "default"
        BY <3>1, <3>3 DEF Walked
      <3> QED BY <3>1, <3>2, <3>4
    <2> QED BY <2>3, <2>4 DEF Walked
  <1>3. Last(wk) = g
    BY <1>1 DEF Last
  <1> QED BY <1>1, <1>2, <1>3 DEF wk

(* The engines that are somewhere else in the same pattern.                *)
Alike(e, f) ==
    /\ f \in Engines /\ f.base = e.base /\ f.scopes = e.scopes /\ f.branches = e.branches
    /\ f.selected = e.selected /\ f.matches = e.matches /\ f.cand = e.cand /\ f.pat = e.pat
    /\ f.scope = e.scope /\ f.undo = e.undo /\ f.path = e.path /\ f.won = e.won
    /\ f.deaf = e.deaf /\ f.from = e.from /\ f.val = e.val /\ f.synth = e.synth

LEMMA WalkShape ==
    ASSUME NEW e \in Engines, NEW wk \in Seq(Frames)
    PROVE  LET f == [e EXCEPT !.walk = wk] IN
           Alike(e, f) /\ f.walk = wk /\ f.at = e.at /\ f.finals = e.finals
  <1> DEFINE f == [e EXCEPT !.walk = wk]
  <1>1. f \in Engines
    BY DEF Engines
  <1> QED BY <1>1 DEF Alike, Engines

LEMMA DeltasShape ==
    ASSUME NEW f \in ElemFrames, NEW ds \in Seq(Logs)
    PROVE  LET g == [f EXCEPT !.deltas = ds] IN
           /\ g \in ElemFrames /\ g \in Frames /\ g.kind = f.kind /\ g.elem = f.elem /\ g.phase = f.phase
           /\ g.deltas = ds /\ g.orig = f.orig /\ g.part = f.part /\ FrameStates(g) = FrameStates(f)
  BY DEF ElemFrames, Frames, FrameStates

LEMMA PartShape ==
    ASSUME NEW f \in ElemFrames, NEW n \in Count
    PROVE  LET g == [f EXCEPT !.part = n] IN
           /\ g \in ElemFrames /\ g \in Frames /\ g.kind = f.kind /\ g.elem = f.elem /\ g.phase = f.phase
           /\ g.deltas = f.deltas /\ g.orig = f.orig /\ g.part = n /\ FrameStates(g) = FrameStates(f)
  BY DEF ElemFrames, Frames, FrameStates

(* The top frame of a walk gets other deltas, or another part.             *)
LEMMA TopFrame ==
    ASSUME NEW e, NEW depth, NEW lg, NEW sc, NEW ns, NEW br, NEW nb, NEW n,
           EngineOK(e, depth, lg, sc, ns, br, nb, n), Asking(e), NEW g \in Frames,
           LET f == e.walk[Len(e.walk)] IN
           /\ g.kind = f.kind /\ g.elem = f.elem /\ g.phase = f.phase
           /\ FrameStates(g) = FrameStates(f),
           \A k \in DOMAIN g.deltas : lg \o g.deltas[k] \in LogsFrom(e.base, n)
    PROVE  LET q == [e EXCEPT !.walk = [e.walk EXCEPT ![Len(e.walk)] = g]] IN
           /\ EngineOK(q, depth, lg, sc, ns, br, nb, n) /\ Asking(q) /\ Alike(e, q)
           /\ q.at = e.at /\ q.walk = [e.walk EXCEPT ![Len(e.walk)] = g] /\ q.finals = e.finals
           /\ ~Overridden(q)
  <1> DEFINE wk == [e.walk EXCEPT ![Len(e.walk)] = g]
             q == [e EXCEPT !.walk = wk]
             logs == LogsFrom(e.base, n)
  <1>1. /\ e \in Engines /\ Timely(e, depth) /\ e.walk # <<>> /\ Walked(e.walk)
        /\ e.walk \in Seq(Frames) /\ Checked(e, nb) /\ Found(e, logs)
    BY DEF EngineOK, Timely, Asking, Engines
  <1>2. /\ wk \in Seq(Frames) /\ Len(wk) = Len(e.walk) /\ wk # <<>> /\ Last(wk) = g /\ Walked(wk)
        /\ \A j \in DOMAIN wk : wk[j] = IF j = Len(e.walk) THEN g ELSE e.walk[j]
    BY <1>1, WalkTop
  <1> HIDE DEF wk
  <1>3. Alike(e, q) /\ q.walk = wk /\ q.at = e.at /\ q.finals = e.finals
    BY <1>1, <1>2, WalkShape
  <1> HIDE DEF q
  <1>4. Timely(q, depth)
    BY <1>1, <1>2, <1>3 DEF Timely, Phased, Alike, Opened
  <1>5. Checked(q, nb)
    <2>1. \A j \in DOMAIN wk : j \in DOMAIN e.walk /\ FrameStates(wk[j]) = FrameStates(e.walk[j])
      BY <1>1, <1>2
    <2>2. \A s \in StatesOf(q) : s \in StatesOf(e)
      <3>1. \A s \in StatesOf(q) : \/ \E k \in DOMAIN wk : s \in FrameStates(wk[k])
                                   \/ \E k \in DOMAIN e.finals : s = e.finals[k]
        BY <1>3, StatesParts
      <3>2. \A s : (\/ \E k \in DOMAIN e.walk : s \in FrameStates(e.walk[k])
                    \/ \E k \in DOMAIN e.finals : s = e.finals[k]) => s \in StatesOf(e)
        BY StatesParts
      <3> QED BY <2>1, <3>1, <3>2
    <2>3. q.branches = e.branches
      BY <1>3 DEF Alike
    <2> QED BY <1>1, <2>2, <2>3 DEF Checked
  <1>6. Last(e.walk) = e.walk[Len(e.walk)]
    BY DEF Last
  <1>7. Asking(q)
    BY <1>2, <1>3, <1>6 DEF Asking
  <1>8. Deferred(q, lg, logs)
    BY <1>2, <1>3 DEF Deferred
  <1>9. Found(q, logs) /\ Inside(q) = Inside(e)
    BY <1>1, <1>3 DEF Found, Inside, Alike
  <1>10. EngineOK(q, depth, lg, sc, ns, br, nb, n)
    BY <1>3, <1>4, <1>5, <1>8, <1>9 DEF EngineOK, Alike
  <1>11. ~Overridden(q)
    BY <1>1, <1>3 DEF Overridden, Timely, Phased
  <1> QED BY <1>3, <1>7, <1>10, <1>11 DEF q, wk

LEMMA EngineBegins ==
    ASSUME NEW base \in Logs, NEW n \in Nat, Sorted(base, n), NEW sd \in Nat, NEW bc \in Nat,
           NEW depth \in 1 .. Len(Patterns), NEW sc, NEW br
    PROVE  LET e == Engine(base, sd, bc) IN
           /\ EngineOK(e, depth, base, sc, sd, br, bc, n) /\ e \in Engines /\ ~Overridden(e)
           /\ e.base = base /\ e.scopes = sd /\ e.branches = bc /\ Len(e.undo) =< 3
  <1> DEFINE e == Engine(base, sd, bc)
  <1>1. base \in LogsFrom(base, n)
    BY LogsBegin
  <1>2. e \in Engines
    <2>1. "definition" \in ScopeNames /\ 1 \in Count
      BY Names DEF Count
    <2> QED BY <2>1 DEF Engine, Engines
  <1>3. /\ e.base = base /\ e.scopes = sd /\ e.branches = bc /\ e.undo = <<>> /\ e.walk = <<>>
        /\ e.finals = <<>> /\ e.at = "before" /\ e.scope = "definition" /\ e.matches = <<>>
        /\ e.selected = {} /\ e.cand = 1 /\ e.pat = 1
    BY DEF Engine
  <1> HIDE DEF e
  <1>4. Timely(e, depth)
    <2>1. e.cand =< Len(Patterns[depth]) /\ e.pat =< Len(Patterns[depth][e.cand])
      BY <1>3, Patterned
    <2>2. Phased(e) /\ Walked(e.walk)
      BY <1>3 DEF Phased, Walked, Opened, Level
    <2> QED BY <2>1, <2>2 DEF Timely
  <1>5. Checked(e, bc) /\ ~Asking(e)
    BY <1>3, Calm
  <1>6. Found(e, LogsFrom(base, n)) /\ Inside(e) = 0
    BY <1>3 DEF Found, Inside
  <1>7. Aside(sc, sd, sd, LogsFrom(base, n)) /\ Aside(br, bc, bc, LogsFrom(base, n))
    BY DEF Aside
  <1>8. EngineOK(e, depth, base, sc, sd, br, bc, n)
    BY <1>1, <1>2, <1>3, <1>4, <1>5, <1>6, <1>7 DEF EngineOK, Deferred
  <1> QED BY <1>2, <1>3, <1>8 DEF e, Overridden

LEMMA AskNestedSound ==
    ASSUME Sound, AskNested
    PROVE  Sound'
  <1> DEFINE top == E.walk[Len(E.walk)]
             g == [top EXCEPT !.part = 3]
             q == [E EXCEPT !.walk = [E.walk EXCEPT ![Len(E.walk)] = g]]
             e == Engine(log, Len(scopes), Len(branches))
  <1>1. /\ Running /\ E.walk # <<>> /\ top.kind = "elem" /\ top.phase = "default"
        /\ top.elem.kind = "type" /\ Depth < Len(Patterns)
        /\ result' = result /\ log' = log /\ works' = works /\ decisions' = decisions
        /\ scopes' = scopes /\ branches' = branches
        /\ engines' = Append([engines EXCEPT ![Depth].walk[Len(E.walk)].part = 3], e)
    BY DEF AskNested, Default, Walking, At, Frame, Kind
  <1>2. /\ EngineOK(E, Depth, log, scopes, Len(scopes), branches, Len(branches), works)
        /\ Depth \in 1 .. Len(Patterns) /\ Depth = Len(engines) /\ Len(Patterns) \in Nat
        /\ works \in Nat /\ Len(scopes) \in Nat /\ Len(branches) \in Nat /\ E \in Engines
        /\ engines \in Seq(Engines) /\ log \in Logs /\ Sorted(log, works)
    BY <1>1, TopFacts DEF Sound
  <1>3. top \in Frames /\ top \in ElemFrames
    <2>1. E.walk \in Seq(Frames)
      BY <1>2 DEF Engines
    <2>2. top \in Frames
      BY <1>1, <2>1
    <2> QED BY <1>1, <2>2, FrameKinds
  <1>4. Asking(E) /\ top = Last(E.walk)
    BY <1>1 DEF Asking, Last
  <1>5. \A k \in DOMAIN top.deltas : log \o top.deltas[k] \in LogsFrom(E.base, works)
    BY <1>2, <1>4 DEF EngineOK, Deferred
  <1>6. engines' = Append([engines EXCEPT ![Depth] = q], e)
    <2>1. [engines EXCEPT ![Depth].walk[Len(E.walk)].part = 3] = [engines EXCEPT ![Depth] = q]
      BY DEF E
    <2> QED BY <1>1, <2>1
  <1>7. /\ g \in Frames /\ g.kind = top.kind /\ g.elem = top.elem /\ g.phase = top.phase
        /\ g.deltas = top.deltas /\ FrameStates(g) = FrameStates(top)
    <2>1. 3 \in Count
      BY DEF Count
    <2> HIDE DEF top
    <2>2. LET h == [top EXCEPT !.part = 3] IN
          /\ h \in Frames /\ h.kind = top.kind /\ h.elem = top.elem /\ h.phase = top.phase
          /\ h.deltas = top.deltas /\ FrameStates(h) = FrameStates(top)
      BY <1>3, <2>1, PartShape
    <2> QED BY <2>2
  <1> HIDE DEF g
  <1>8. /\ EngineOK(q, Depth, log, scopes, Len(scopes), branches, Len(branches), works)
        /\ Asking(q) /\ Alike(E, q)
    BY <1>2, <1>4, <1>5, <1>7, TopFrame
  <1> HIDE DEF q, top
  <1>9. Depth + 1 \in 1 .. Len(Patterns)
    BY <1>1, <1>2
  <1>10. /\ EngineOK(e, Depth + 1, log, scopes, Len(scopes), branches, Len(branches), works)
         /\ e \in Engines /\ ~Overridden(e) /\ e.base = log /\ e.scopes = Len(scopes)
         /\ e.branches = Len(branches) /\ Len(e.undo) =< 3
    <2> DEFINE ns == Len(scopes)
               nb == Len(branches)
               next == Depth + 1
    <2>1. /\ log \in Logs /\ works \in Nat /\ Sorted(log, works) /\ ns \in Nat /\ nb \in Nat
          /\ next \in 1 .. Len(Patterns)
      BY <1>2, <1>9
    <2> HIDE DEF ns, nb, next, e
    <2>2. LET n == Engine(log, ns, nb) IN
          /\ EngineOK(n, next, log, scopes, ns, branches, nb, works) /\ n \in Engines
          /\ ~Overridden(n) /\ n.base = log /\ n.scopes = ns /\ n.branches = nb /\ Len(n.undo) =< 3
      BY <2>1, EngineBegins
    <2> QED BY <2>2 DEF ns, nb, next, e
  <1> HIDE DEF e
  <1>11. /\ engines' \in Seq(Engines) /\ Len(engines') = Depth + 1 /\ engines'[Depth + 1] = e
         /\ engines'[Depth] = q /\ \A k \in 1 .. Depth - 1 : engines'[k] = engines[k]
    <2>1. q \in Engines
      BY <1>8 DEF Alike
    <2> QED BY <1>2, <1>6, <1>10, <2>1
  <1>12. Depth' = Depth + 1 /\ E' = e
    BY <1>11 DEF Depth, E
  <1>13. /\ q.base = E.base /\ q.scopes = E.scopes /\ q.branches = E.branches /\ q.undo = E.undo
    BY <1>8 DEF Alike
  <1>14. ASSUME NEW k \in 1 .. Depth - 1
         PROVE  /\ LogAt(k)' = LogAt(k) /\ ScopesAt(k)' = ScopesAt(k) /\ BranchesAt(k)' = BranchesAt(k)
                /\ EngineOK(engines[k], k, LogAt(k), scopes, ScopesAt(k), branches, BranchesAt(k), works)
    <2>1. k # Depth /\ k # Depth + 1 /\ k + 1 \in 1 .. Depth /\ k \in 1 .. Depth
      BY <1>2
    <2>2. /\ engines'[k + 1].base = engines[k + 1].base
          /\ engines'[k + 1].scopes = engines[k + 1].scopes
          /\ engines'[k + 1].branches = engines[k + 1].branches
      <3>1. CASE k + 1 = Depth
        BY <1>11, <1>13, <3>1 DEF E
      <3>2. CASE k + 1 # Depth
        BY <1>2, <1>11, <2>1, <3>2
      <3> QED BY <3>1, <3>2
    <2>3. EngineOK(engines[k], k, LogAt(k), scopes, ScopesAt(k), branches, BranchesAt(k), works)
      BY <1>1, <2>1 DEF Sound
    <2> QED BY <1>12, <2>1, <2>2, <2>3 DEF LogAt, ScopesAt, BranchesAt
  <1>15. ASSUME NEW k \in 1 .. Depth'
         PROVE  EngineOK(engines'[k], k, LogAt(k)', scopes', ScopesAt(k)', branches', BranchesAt(k)', works')
    <2>1. CASE k = Depth + 1
      BY <1>1, <1>10, <1>11, <1>12, <2>1 DEF LogAt, ScopesAt, BranchesAt
    <2>2. CASE k = Depth
      <3>1. LogAt(k)' = log /\ ScopesAt(k)' = Len(scopes) /\ BranchesAt(k)' = Len(branches)
        BY <1>2, <1>10, <1>11, <1>12, <2>2 DEF LogAt, ScopesAt, BranchesAt
      <3> QED BY <1>1, <1>8, <1>11, <2>2, <3>1
    <2>3. CASE k \in 1 .. Depth - 1
      <3>1. engines'[k] = engines[k] /\ LogAt(k)' = LogAt(k) /\ ScopesAt(k)' = ScopesAt(k)
            /\ BranchesAt(k)' = BranchesAt(k)
        BY <1>11, <1>14, <2>3
      <3>2. EngineOK(engines[k], k, LogAt(k), scopes, ScopesAt(k), branches, BranchesAt(k), works)
        BY <1>14, <2>3
      <3> QED BY <1>1, <3>1, <3>2
    <2> QED BY <1>2, <1>12, <2>1, <2>2, <2>3
  <1>16. \A k \in 1 .. Depth' - 1 : Asking(engines'[k])
    <2>1. \A k \in 1 .. Depth - 1 : Asking(engines[k])
      BY <1>1 DEF Sound
    <2> QED BY <1>2, <1>8, <1>11, <1>12, <2>1
  <1>17. /\ engines'[1].base = <<>> /\ engines'[1].scopes = 0 /\ engines'[1].branches = 0
         /\ \A k \in 1 .. Depth' : Len(engines'[k].undo) =< 3
    <2>1. /\ engines[1].base = <<>> /\ engines[1].scopes = 0 /\ engines[1].branches = 0
          /\ \A k \in 1 .. Depth : Len(engines[k].undo) =< 3
      BY <1>1 DEF Sound
    <2>2. Depth \in 1 .. Depth /\ E = engines[Depth] /\ Depth \in Nat
      BY <1>2 DEF E
    <2>3. Len(q.undo) =< 3
      BY <1>13, <2>1, <2>2
    <2>4. ASSUME NEW k \in 1 .. Depth' PROVE Len(engines'[k].undo) =< 3
      <3>1. CASE k = Depth + 1
        BY <1>10, <1>11, <3>1
      <3>2. CASE k = Depth
        BY <1>11, <2>3, <3>2
      <3>3. CASE k # Depth /\ k # Depth + 1
        <4>1. k \in 1 .. Depth - 1 /\ k \in 1 .. Depth
          BY <1>12, <2>2, <3>3
        <4> QED BY <1>11, <2>1, <4>1
      <3> QED BY <3>1, <3>2, <3>3
    <2>5. /\ engines'[1].base = <<>> /\ engines'[1].scopes = 0 /\ engines'[1].branches = 0
      <3>1. CASE Depth = 1
        BY <1>11, <1>13, <2>1, <2>2, <3>1
      <3>2. CASE Depth # 1
        <4>1. 1 \in 1 .. Depth - 1
          BY <1>2, <3>2
        <4> QED BY <1>11, <2>1, <4>1
      <3> QED BY <3>1, <3>2
    <2> QED BY <2>4, <2>5
  <1>18. Stacked(engines')
    <2>1. \A k, l \in 1 .. Depth : k =< l =>
              engines[k].scopes =< engines[l].scopes /\ engines[k].branches =< engines[l].branches
      BY SMTT(30), <1>1, <1>2 DEF Sound, Stacked
    <2>2. \A k \in 1 .. Depth : engines'[k].scopes = engines[k].scopes /\ engines'[k].branches = engines[k].branches
      BY <1>2, <1>11, <1>13 DEF E
    <2>3. E.scopes =< Len(scopes) /\ E.branches =< Len(branches) /\ E.scopes \in Nat /\ E.branches \in Nat
      <3>1. /\ Len(scopes) = E.scopes + Inside(E) /\ Len(branches) >= E.branches
            /\ E.scopes \in Nat /\ E.branches \in Nat /\ Inside(E) \in Nat
        <4>1. Len(scopes) = E.scopes + Inside(E) /\ Len(branches) >= E.branches
          BY <1>2 DEF EngineOK
        <4>2. E.scopes \in Nat /\ E.branches \in Nat /\ E.undo \in Seq(Logs)
          BY <1>2 DEF Engines
        <4>3. Inside(E) \in Nat
          BY <4>2 DEF Inside
        <4> QED BY <4>1, <4>2, <4>3
      <3> QED BY <1>2, <3>1
    <2>4. \A k \in 1 .. Depth : engines[k].scopes =< E.scopes /\ engines[k].branches =< E.branches
      BY <1>2, <2>1 DEF E
    <2>5. \A k \in 1 .. Depth : engines[k].scopes \in Nat /\ engines[k].branches \in Nat
      <3>1. \A k \in 1 .. Depth : engines[k] \in Engines
        BY <1>2
      <3> QED BY <3>1 DEF Engines
    <2>6. \A k \in 1 .. Depth + 1 : engines'[k].scopes =< Len(scopes) /\ engines'[k].branches =< Len(branches)
      <3>1. ASSUME NEW k \in 1 .. Depth + 1
            PROVE  engines'[k].scopes =< Len(scopes) /\ engines'[k].branches =< Len(branches)
        <4>1. CASE k = Depth + 1
          BY <1>2, <1>10, <1>11, <4>1
        <4>2. CASE k # Depth + 1
          <5>1. k \in 1 .. Depth
            BY <1>2, <4>2
          <5>2. /\ engines'[k].scopes = engines[k].scopes /\ engines'[k].branches = engines[k].branches
                /\ engines[k].scopes =< E.scopes /\ engines[k].branches =< E.branches
                /\ engines[k].scopes \in Nat /\ engines[k].branches \in Nat
            BY <2>2, <2>4, <2>5, <5>1
          <5> QED BY SMTT(30), <1>2, <2>3, <5>2
        <4> QED BY <4>1, <4>2
      <3> QED BY <3>1
    <2>7. \A k, l \in 1 .. Depth + 1 : k =< l =>
              engines'[k].scopes =< engines'[l].scopes /\ engines'[k].branches =< engines'[l].branches
      <3>1. ASSUME NEW k \in 1 .. Depth + 1, NEW l \in 1 .. Depth + 1, k =< l
            PROVE  engines'[k].scopes =< engines'[l].scopes /\ engines'[k].branches =< engines'[l].branches
        <4>1. CASE l = Depth + 1
          BY <1>10, <1>11, <2>6, <4>1
        <4>2. CASE l # Depth + 1
          <5>1. l \in 1 .. Depth /\ k \in 1 .. Depth
            BY <1>2, <3>1, <4>2
          <5> QED BY <2>1, <2>2, <3>1, <5>1
        <4> QED BY <4>1, <4>2
      <3> QED BY <3>1
    <2> QED BY <1>11, <2>7 DEF Stacked
  <1>19. /\ works' \in 0 .. MaxWork /\ decisions' \in 0 .. MaxDecisions /\ scopes' \in Seq(Logs)
         /\ branches' \in Seq(Logs) /\ log' \in Logs /\ Sorted(log', works')
         /\ result' \in {"running", "matched", "unmatched", "error"} /\ Running'
    BY <1>1, <1>2 DEF Sound, Running
  <1> QED
    BY <1>9, <1>10, <1>11, <1>12, <1>15, <1>16, <1>17, <1>18, <1>19 DEF Sound

(* The work of the alternative a nested match activates, for the parent.   *)
LEMMA NestedDelta ==
    ASSUME Sound, Running, NEW k \in 0 .. Len(E.matches), k # 0
    PROVE  LET taken == CHOOSE s \in E.matches[k].state : TRUE
               delta == SubSeq(taken, Len(E.base) + 1, Len(taken))
           IN  delta \in Logs /\ E.base \o delta \in LogsFrom(E.base, works)
  <1> DEFINE taken == CHOOSE s \in E.matches[k].state : TRUE
  <1>1. E \in Engines /\ Found(E, LogsFrom(E.base, works)) /\ works \in Nat
    BY TopFacts DEF EngineOK
  <1>2. E.base \in Logs /\ E.matches \in Seq(Matches)
    BY <1>1 DEF Engines
  <1>3. k \in DOMAIN E.matches
    BY <1>2
  <1>4. taken \in LogsFrom(E.base, works)
    BY <1>1, <1>3 DEF Found
  <1> HIDE DEF taken
  <1>5. /\ SubSeq(taken, Len(E.base) + 1, Len(taken)) \in Logs
        /\ E.base \o SubSeq(taken, Len(E.base) + 1, Len(taken)) = taken
    BY <1>1, <1>2, <1>4, LogsSince
  <1> QED BY <1>4, <1>5 DEF taken

LEMMA FinishNestedSound ==
    ASSUME Sound, NEW k, FinishNested(k)
    PROVE  Sound'
  <1> DEFINE states == E.matches[k].state
             taken == CHOOSE s \in states : TRUE
             delta == IF k = 0 THEN <<>> ELSE <<SubSeq(taken, Len(E.base) + 1, Len(taken))>>
             up == Depth - 1
             p == engines[up]
             top == p.walk[Len(p.walk)]
             ds == top.deltas \o delta
             g == [top EXCEPT !.deltas = ds]
             q == [p EXCEPT !.walk = [p.walk EXCEPT ![Len(p.walk)] = g]]
  <1>1. /\ Running /\ Depth > 1 /\ k \in 0 .. Len(E.matches)
        /\ result' = result /\ log' = E.base /\ works' = works /\ decisions' = decisions
        /\ scopes' = Truncated(scopes, E.scopes) /\ branches' = Truncated(branches, E.branches)
        /\ engines' = [Front(engines) EXCEPT ![Depth - 1].walk[Len(p.walk)].deltas = @ \o delta]
    BY DEF FinishNested, At
  <1>2. /\ Depth \in 1 .. Len(Patterns) /\ Depth = Len(engines) /\ Len(Patterns) \in Nat
        /\ works \in Nat /\ E \in Engines /\ engines \in Seq(Engines) /\ E = engines[Depth]
    BY <1>1, TopFacts DEF Sound, E
  <1>24. Depth > 1 /\ Depth \in Nat
    <2>1. Depth > 1
      BY <1>1
    <2>2. Depth \in Nat
      BY <1>2
    <2> QED BY <2>1, <2>2
  <1>3. up \in 1 .. Depth /\ up \in 1 .. Depth - 1 /\ up # Depth /\ up + 1 = Depth
    <2> QED BY <1>24
  <1>23. /\ Front(engines) \in Seq(Engines) /\ Len(Front(engines)) = up
         /\ \A j \in 1 .. up : Front(engines)[j] = engines[j]
    <2>1. engines \in Seq(Engines) /\ Len(engines) > 0 /\ Len(engines) - 1 = up
      BY <1>2, <1>24
    <2> QED BY <2>1, FrontFacts
  <1>4. /\ EngineOK(p, up, E.base, scopes, E.scopes, branches, E.branches, works) /\ Asking(p)
        /\ p \in Engines
    <2>1. EngineOK(engines[up], up, LogAt(up), scopes, ScopesAt(up), branches, BranchesAt(up), works)
      BY <1>1, <1>3 DEF Sound
    <2>2. LogAt(up) = E.base /\ ScopesAt(up) = E.scopes /\ BranchesAt(up) = E.branches
      BY <1>2, <1>3 DEF LogAt, ScopesAt, BranchesAt
    <2>3. Asking(p)
      BY <1>1, <1>3 DEF Sound
    <2> QED BY <1>2, <1>3, <2>1, <2>2, <2>3
  <1>5. /\ E.base \in Logs /\ E.scopes \in Nat /\ E.branches \in Nat /\ p.base \in Logs
        /\ E.base \in LogsFrom(p.base, works)
    BY <1>2, <1>4 DEF EngineOK, Engines
  <1>6. top \in ElemFrames /\ top \in Frames /\ top = Last(p.walk) /\ p.walk # <<>>
    <2>1. p.walk # <<>> /\ p.walk \in Seq(Frames) /\ top = Last(p.walk) /\ top.kind = "elem"
      BY <1>4 DEF Asking, Engines, Last
    <2>2. top \in Frames
      BY <2>1
    <2> QED BY <2>1, <2>2, FrameKinds
  <1>7. engines' = [Front(engines) EXCEPT ![up] = q]
    <2>1. Front(engines)[up] = p
      BY <1>3, <1>23
    <2>2. [Front(engines) EXCEPT ![up].walk[Len(p.walk)].deltas = @ \o delta]
          = [Front(engines) EXCEPT ![up] =
                [Front(engines)[up] EXCEPT !.walk =
                   [Front(engines)[up].walk EXCEPT ![Len(p.walk)] =
                      [Front(engines)[up].walk[Len(p.walk)] EXCEPT !.deltas =
                         Front(engines)[up].walk[Len(p.walk)].deltas \o delta]]]]
      OBVIOUS
    <2> QED BY <1>1, <2>1, <2>2
  <1>8. ds \in Seq(Logs) /\ \A j \in DOMAIN ds : E.base \o ds[j] \in LogsFrom(p.base, works)
    <2>1. top.deltas \in Seq(Logs)
      BY <1>6 DEF ElemFrames
    <2>2. \A j \in DOMAIN top.deltas : E.base \o top.deltas[j] \in LogsFrom(p.base, works)
      BY <1>4, <1>6 DEF EngineOK, Deferred
    <2>3. CASE k = 0
      BY <2>1, <2>2, <2>3
    <2>4. CASE k # 0
      <3> DEFINE d == SubSeq(taken, Len(E.base) + 1, Len(taken))
      <3>1. d \in Logs /\ E.base \o d \in LogsFrom(E.base, works)
        BY <1>1, <2>4, NestedDelta
      <3>2. E.base \o d \in LogsFrom(p.base, works)
        BY <1>2, <1>5, <3>1, LogsTrans
      <3>3. ds = top.deltas \o <<d>>
        BY <2>4
      <3> HIDE DEF d, ds
      <3> DEFINE old == top.deltas
      <3> HIDE DEF old
      <3>6. old \in Seq(Logs)
        BY <2>1 DEF old
      <3>4. /\ old \o <<d>> \in Seq(Logs) /\ DOMAIN (old \o <<d>>) = 1 .. Len(old) + 1
            /\ DOMAIN old = 1 .. Len(old) /\ Len(old) \in Nat
            /\ (old \o <<d>>)[Len(old) + 1] = d
            /\ \A j \in 1 .. Len(old) : (old \o <<d>>)[j] = old[j]
        BY <3>1, <3>6, MoreFacts
      <3>5. ASSUME NEW j \in 1 .. Len(old) + 1
            PROVE  E.base \o (old \o <<d>>)[j] \in LogsFrom(p.base, works)
        <4>1. CASE j = Len(old) + 1
          BY <3>2, <3>4, <4>1
        <4>2. CASE j # Len(old) + 1
          <5>1. j \in 1 .. Len(old)
            BY <3>4, <4>2
          <5> QED BY <2>2, <3>4, <5>1 DEF old
        <4> QED BY <4>1, <4>2
      <3> QED BY <3>3, <3>4, <3>5 DEF old
    <2> QED BY <2>3, <2>4
  <1> HIDE DEF ds
  <1>9. /\ g \in Frames /\ g.kind = top.kind /\ g.elem = top.elem /\ g.phase = top.phase
        /\ g.deltas = ds /\ FrameStates(g) = FrameStates(top)
    <2> HIDE DEF top
    <2>2. LET h == [top EXCEPT !.deltas = ds] IN
          /\ h \in Frames /\ h.kind = top.kind /\ h.elem = top.elem /\ h.phase = top.phase
          /\ h.deltas = ds /\ FrameStates(h) = FrameStates(top)
      BY <1>6, <1>8, DeltasShape
    <2> QED BY <2>2
  <1> HIDE DEF g
  <1>10. /\ EngineOK(q, up, E.base, scopes, E.scopes, branches, E.branches, works)
         /\ Asking(q) /\ Alike(p, q) /\ ~Overridden(q)
    BY <1>4, <1>8, <1>9, TopFrame
  <1> HIDE DEF q
  <1>11. /\ q \in Engines /\ q.base = p.base /\ q.scopes = p.scopes /\ q.branches = p.branches
         /\ q.undo = p.undo
    BY <1>10 DEF Alike
  <1>12. /\ engines' \in Seq(Engines) /\ Len(engines') = up /\ engines'[up] = q
         /\ \A j \in 1 .. up : j # up => engines'[j] = engines[j]
    <2>1. /\ Front(engines) \in Seq(Engines) /\ Len(Front(engines)) = up
          /\ \A j \in 1 .. up : Front(engines)[j] = engines[j]
      BY <1>23
    <2> HIDE DEF up
    <2>2. /\ [Front(engines) EXCEPT ![up] = q] \in Seq(Engines)
          /\ Len([Front(engines) EXCEPT ![up] = q]) = up
          /\ [Front(engines) EXCEPT ![up] = q][up] = q
          /\ \A j \in 1 .. up : j # up => [Front(engines) EXCEPT ![up] = q][j] = engines[j]
      BY <1>3, <1>11, <2>1
    <2> QED BY <1>7, <2>2
  <1>13. Depth' = up /\ E' = q
    BY <1>12 DEF Depth, E
  <1>14. /\ scopes' \in Seq(Logs) /\ Len(scopes') = E.scopes /\ Agree(scopes', scopes, E.scopes)
         /\ branches' \in Seq(Logs) /\ Len(branches') = E.branches
         /\ Agree(branches', branches, E.branches)
    <2>1. scopes \in Seq(Logs) /\ branches \in Seq(Logs)
      BY DEF Sound
    <2>2. E.scopes =< Len(scopes) /\ E.branches =< Len(branches)
      <3>1. EngineOK(E, Depth, log, scopes, Len(scopes), branches, Len(branches), works)
        BY <1>1, TopFacts
      <3>2. Len(scopes) = E.scopes + Inside(E) /\ Len(branches) >= E.branches
        BY <3>1 DEF EngineOK
      <3>3. Inside(E) \in Nat
        <4>1. E.undo \in Seq(Logs)
          BY <1>2 DEF Engines
        <4> QED BY <4>1 DEF Inside
      <3>4. Len(branches) \in Nat
        BY <2>1
      <3> QED BY <1>5, <3>2, <3>3, <3>4
    <2> QED BY <1>1, <1>5, <2>1, <2>2, ShortFacts DEF Truncated, Agree
  <1>15. /\ Stacked(engines) /\ \A j \in 1 .. Depth - 1 : Asking(engines[j])
         /\ engines[1].base = <<>> /\ engines[1].scopes = 0 /\ engines[1].branches = 0
         /\ \A j \in 1 .. Depth : Len(engines[j].undo) =< 3
    BY <1>1 DEF Sound
  <1>16. ASSUME NEW j \in 1 .. up
         PROVE  EngineOK(engines'[j], j, LogAt(j)', scopes', ScopesAt(j)', branches', BranchesAt(j)', works')
    <2>1. CASE j = up
      <3>1. LogAt(j)' = E.base /\ ScopesAt(j)' = E.scopes /\ BranchesAt(j)' = E.branches
        BY <1>1, <1>13, <1>14, <2>1 DEF LogAt, ScopesAt, BranchesAt
      <3> DEFINE ns == E.scopes
                 nb == E.branches
      <3>2. /\ ns \in Nat /\ nb \in Nat /\ EngineOK(q, up, E.base, scopes, ns, branches, nb, works)
            /\ Agree(scopes', scopes, ns) /\ Agree(branches', branches, nb)
            /\ works \in Nat /\ works >= works
        BY <1>2, <1>5, <1>10, <1>14
      <3> HIDE DEF ns, nb, up
      <3>3. EngineOK(q, up, E.base, scopes', ns, branches', nb, works)
        BY <3>2, EngineLater
      <3> QED BY <1>1, <1>12, <2>1, <3>1, <3>3 DEF ns, nb
    <2>2. CASE j # up
      <3>1. j \in 1 .. Depth /\ j # Depth /\ j + 1 \in 1 .. up /\ j + 1 \in 1 .. Depth /\ engines'[j] = engines[j]
        BY <1>2, <1>12, <2>2
      <3> DEFINE m == engines[j + 1]
      <3>2. engines'[j + 1].base = m.base /\ engines'[j + 1].scopes = m.scopes
            /\ engines'[j + 1].branches = m.branches
        <4>1. CASE j + 1 = up
          BY <1>11, <1>12, <4>1
        <4>2. CASE j + 1 # up
          BY <1>12, <3>1, <4>2
        <4> QED BY <4>1, <4>2
      <3>3. LogAt(j)' = m.base /\ ScopesAt(j)' = m.scopes /\ BranchesAt(j)' = m.branches
        BY <1>13, <2>2, <3>2 DEF LogAt, ScopesAt, BranchesAt
      <3>4. EngineOK(engines[j], j, m.base, scopes, m.scopes, branches, m.branches, works)
        <4>1. EngineOK(engines[j], j, LogAt(j), scopes, ScopesAt(j), branches, BranchesAt(j), works)
          BY <1>1, <3>1 DEF Sound
        <4> QED BY <3>1, <4>1 DEF LogAt, ScopesAt, BranchesAt
      <3>5. m \in Engines
        BY <1>2, <3>1
      <3>6. m.scopes \in Nat /\ m.branches \in Nat
        BY <3>5 DEF Engines
      <3>7. m.scopes =< E.scopes /\ m.branches =< E.branches
        <4>1. j + 1 \in DOMAIN engines /\ Depth \in DOMAIN engines /\ j + 1 =< Depth
          BY <1>2, <3>1
        <4> QED BY <1>2, <1>15, <4>1 DEF Stacked
      <3>8. Agree(scopes', scopes, m.scopes) /\ Agree(branches', branches, m.branches)
        <4>1. 1 .. m.scopes \subseteq 1 .. E.scopes /\ 1 .. m.branches \subseteq 1 .. E.branches
          BY <1>5, <3>6, <3>7, Within
        <4> QED BY <1>14, <4>1 DEF Agree
      <3> HIDE DEF m
      <3>9. works \in Nat /\ works >= works
        BY <1>2
      <3>10. EngineOK(engines[j], j, m.base, scopes', m.scopes, branches', m.branches, works)
        BY <3>4, <3>6, <3>8, <3>9, EngineLater
      <3> QED BY <1>1, <3>1, <3>3, <3>10
    <2> QED BY <2>1, <2>2
  <1>17. \A j \in 1 .. up - 1 : Asking(engines'[j])
    <2>1. ASSUME NEW j \in 1 .. up - 1 PROVE Asking(engines'[j])
      <3>1. j \in 1 .. up /\ j # up /\ j \in 1 .. Depth - 1
        BY <1>2
      <3> QED BY <1>12, <1>15, <3>1
    <2> QED BY <2>1
  <1>18. /\ engines'[1].base = <<>> /\ engines'[1].scopes = 0 /\ engines'[1].branches = 0
    <2>1. CASE up = 1
      BY <1>11, <1>12, <1>15, <2>1
    <2>2. CASE up # 1
      <3>1. 1 \in 1 .. up /\ 1 # up
        BY <1>2, <1>3, <2>2
      <3> QED BY <1>12, <1>15, <3>1
    <2> QED BY <2>1, <2>2
  <1>19. \A j \in 1 .. up : /\ Len(engines'[j].undo) =< 3 /\ engines'[j].scopes = engines[j].scopes
                            /\ engines'[j].branches = engines[j].branches /\ j \in 1 .. Depth
    <2>1. ASSUME NEW j \in 1 .. up
          PROVE  /\ Len(engines'[j].undo) =< 3 /\ engines'[j].scopes = engines[j].scopes
                 /\ engines'[j].branches = engines[j].branches /\ j \in 1 .. Depth
      <3>1. j \in 1 .. Depth
        BY <1>2
      <3>2. CASE j = up
        BY <1>11, <1>12, <1>15, <3>1, <3>2
      <3>3. CASE j # up
        BY <1>12, <1>15, <3>1, <3>3
      <3> QED BY <3>1, <3>2, <3>3
    <2> QED BY <2>1
  <1>20. Stacked(engines')
    <2>1. DOMAIN engines' = 1 .. up /\ DOMAIN engines = 1 .. Depth
      BY <1>2, <1>12
    <2> HIDE DEF up
    <2> QED BY <1>15, <1>19, <2>1 DEF Stacked
  <1>21. /\ works' \in 0 .. MaxWork /\ decisions' \in 0 .. MaxDecisions
         /\ result' \in {"running", "matched", "unmatched", "error"} /\ Running'
    BY <1>1 DEF Sound, Running
  <1>22. log' \in Logs /\ Sorted(log', works') /\ up \in 1 .. Len(Patterns)
    <2>1. E.base \in Logs /\ Sorted(E.base, works)
      BY <1>5 DEF LogsFrom
    <2>3. up \in 1 .. Len(Patterns)
      BY <1>2, <1>24
    <2> QED BY <1>1, <2>1, <2>3
  <1> HIDE DEF up, delta, p
  <1> QED
    BY <1>10, <1>12, <1>13, <1>14, <1>16, <1>17, <1>18, <1>19, <1>20, <1>21, <1>22 DEF Sound

-----------------------------------------------------------------------------
(* The search through a pattern.                                           *)
Past(s, nb)     == s.at = 0 \/ s.at \in E.branches + 1 .. nb
FrameOK(fr, nb) == \A s \in FrameStates(fr) : Past(s, nb)
Asks(fr)        == fr.kind = "elem" /\ fr.elem.kind = "type" /\ fr.phase = "default"

LEMMA FrameParts ==
    ASSUME NEW f
    PROVE  \A s : s \in FrameStates(f) <=>
              IF f.kind = "seq"
              THEN (\E k \in DOMAIN f.agenda : s = f.agenda[k].s) \/ (\E k \in DOMAIN f.found : s = f.found[k])
              ELSE \/ s = f.orig
                   \/ \E k \in DOMAIN f.trans : s = f.trans[k]
                   \/ \E k \in DOMAIN f.kept : s = f.kept[k]
  <1>1. CASE f.kind = "seq"
    <2> DEFINE a == {f.agenda[k].s : k \in DOMAIN f.agenda}
               b == Range(f.found)
    <2>1. FrameStates(f) = a \cup b
      BY <1>1 DEF FrameStates
    <2>2. /\ \A s : s \in a <=> \E k \in DOMAIN f.agenda : s = f.agenda[k].s
          /\ \A s : s \in b <=> \E k \in DOMAIN f.found : s = f.found[k]
      BY DEF Range
    <2> HIDE DEF a, b
    <2> QED BY <1>1, <2>1, <2>2
  <1>2. CASE f.kind # "seq"
    <2> DEFINE a == Range(f.trans)
               b == Range(f.kept)
    <2>1. FrameStates(f) = {f.orig} \cup a \cup b
      BY <1>2 DEF FrameStates
    <2>2. /\ \A s : s \in a <=> \E k \in DOMAIN f.trans : s = f.trans[k]
          /\ \A s : s \in b <=> \E k \in DOMAIN f.kept : s = f.kept[k]
      BY DEF Range
    <2> HIDE DEF a, b
    <2> QED BY <1>2, <2>1, <2>2
  <1> QED BY <1>1, <1>2

LEMMA WalkFacts ==
    ASSUME Sound, Running, E.walk # <<>>
    PROVE  /\ E \in Engines /\ Timely(E, Depth) /\ E.at = "walk" /\ E.finals = <<>>
           /\ E.walk \in Seq(Frames) /\ Len(E.walk) \in Nat \ {0} /\ Walked(E.walk)
           /\ Frame \in Frames /\ Frame = E.walk[Len(E.walk)] /\ Frame = Last(E.walk)
           /\ E.scope = "pattern" /\ Len(E.undo) = 3
           /\ \A j \in DOMAIN E.walk : E.walk[j] \in Frames /\ FrameOK(E.walk[j], Len(branches))
           /\ FrameOK(Frame, Len(branches))
           /\ Len(branches) \in Nat /\ E.branches \in Nat /\ branches \in Seq(Logs)
  <1>1. /\ E \in Engines /\ Timely(E, Depth) /\ Checked(E, Len(branches)) /\ Len(branches) \in Nat
    BY TopFacts DEF EngineOK
  <1>2. E.walk \in Seq(Frames) /\ E.branches \in Nat
    BY <1>1 DEF Engines
  <1>3. E.at = "walk" /\ E.finals = <<>> /\ Walked(E.walk) /\ E.scope = "pattern" /\ Len(E.undo) = 3
    BY <1>1 DEF Timely, Phased, Opened, Level
  <1>4. ASSUME NEW j \in DOMAIN E.walk PROVE E.walk[j] \in Frames /\ FrameOK(E.walk[j], Len(branches))
    <2>1. \A s \in FrameStates(E.walk[j]) : s \in StatesOf(E)
      BY StatesParts
    <2>2. \A s \in FrameStates(E.walk[j]) : Past(s, Len(branches))
      BY <1>1, <2>1 DEF Checked, Past
    <2> QED BY <1>2, <2>2 DEF FrameOK
  <1>5. Len(E.walk) \in Nat \ {0} /\ Len(E.walk) \in DOMAIN E.walk
    BY <1>2
  <1>6. Frame = E.walk[Len(E.walk)] /\ Frame = Last(E.walk)
    BY DEF Frame, Last
  <1>7. branches \in Seq(Logs)
    BY DEF Sound
  <1> QED BY <1>1, <1>2, <1>3, <1>4, <1>5, <1>6, <1>7

(* The checkpoints that a step adds.                                       *)
Grown(n) ==
    /\ n \in Nat /\ branches' \in Seq(Logs) /\ Len(branches') = Len(branches) + n
    /\ Agree(branches', branches, Len(branches))
    /\ Aside(branches', Len(branches), Len(branches'), LogsFrom(E.base, works'))

LEMMA CheckpointFacts ==
    ASSUME Sound, NEW ls \in Seq(Logs), branches' = branches \o ls,
           \A k \in DOMAIN ls : ls[k] \in LogsFrom(E.base, works')
    PROVE  Grown(Len(ls))
  <1>1. branches \in Seq(Logs) /\ Len(ls) \in Nat /\ Len(branches) \in Nat
    BY DEF Sound
  <1> DEFINE logs == LogsFrom(E.base, works')
             new == branches \o ls
  <1> HIDE DEF logs
  <1>2. /\ new \in Seq(Logs) /\ Len(new) = Len(branches) + Len(ls)
        /\ \A j \in 1 .. Len(branches) : new[j] = branches[j]
        /\ \A j \in Len(branches) + 1 .. Len(new) : new[j] = ls[j - Len(branches)]
              /\ j - Len(branches) \in DOMAIN ls
    BY <1>1
  <1> HIDE DEF new
  <1>3. \A j \in Len(branches) + 1 .. Len(new) : new[j] \in logs
    BY <1>2 DEF logs
  <1>4. branches' = new
    BY DEF new
  <1> QED BY <1>1, <1>2, <1>3, <1>4 DEF Grown, Agree, Aside, logs

LEMMA WalkStep ==
    ASSUME Sound, Running, result' = result, scopes' = scopes, E.walk # <<>>,
           NEW f, Alike(E, f), engines' = [engines EXCEPT ![Depth] = f],
           \/ f.at = "walk" /\ f.walk # <<>> /\ f.finals = <<>>
           \/ f.at = "complete" /\ f.walk = <<>>,
           Walked(f.walk), works' \in works .. MaxWork, decisions' \in 0 .. MaxDecisions,
           log' \in LogsFrom(E.base, works'), NEW n, Grown(n), Checked(f, Len(branches')),
           Deferred(f, log', LogsFrom(E.base, works'))
    PROVE  Sound'
  <1> DEFINE logs == LogsFrom(E.base, works')
  <1>1. /\ E \in Engines /\ Timely(E, Depth) /\ E.scope = "pattern" /\ Len(E.undo) = 3
    BY WalkFacts
  <1>2. /\ EngineOK(E, Depth, log, scopes, Len(scopes), branches, Len(branches), works)
        /\ works \in Nat /\ Len(branches) \in Nat /\ Len(scopes) \in Nat
    BY TopFacts
  <1>3. works' \in Nat /\ works' >= works
    BY <1>2, PatternsAssumption
  <1>4. /\ Found(E, LogsFrom(E.base, works)) /\ Sorted(E.base, works) /\ E.base \in Logs
        /\ Aside(scopes, E.scopes, Len(scopes), LogsFrom(E.base, works))
        /\ Aside(branches, E.branches, Len(branches), LogsFrom(E.base, works))
        /\ Len(scopes) = E.scopes + Inside(E) /\ Len(branches) >= E.branches
        /\ E.scopes \in Nat /\ E.branches \in Nat
    BY <1>1, <1>2 DEF EngineOK, Engines
  <1>5. LogsFrom(E.base, works) \subseteq logs /\ Sorted(E.base, works')
    BY <1>2, <1>3, <1>4, LogsLater
  <1> HIDE DEF logs
  <1>6. Found(f, logs) /\ Inside(f) = Inside(E)
    BY <1>4, <1>5 DEF Found, Alike, Inside
  <1>7. Aside(scopes', E.scopes, Len(scopes'), logs)
    BY <1>4, <1>5 DEF Aside
  <1>8. Aside(branches', E.branches, Len(branches'), logs) /\ Len(branches') >= E.branches
    <2>1. ASSUME NEW j \in E.branches + 1 .. Len(branches') PROVE branches'[j] \in logs
      <3>1. CASE j =< Len(branches)
        <4>1. j \in 1 .. Len(branches) /\ j \in E.branches + 1 .. Len(branches)
          BY <1>2, <1>4, <3>1 DEF Grown
        <4> QED BY <1>4, <1>5, <4>1 DEF Grown, Agree, Aside
      <3>2. CASE ~(j =< Len(branches))
        <4>1. j \in Len(branches) + 1 .. Len(branches')
          BY <1>2, <1>4, <3>2 DEF Grown
        <4> QED BY <4>1 DEF Grown, Aside, logs
      <3> QED BY <3>1, <3>2
    <2>2. Len(branches') >= E.branches
      BY <1>2, <1>4 DEF Grown
    <2> QED BY <2>1, <2>2 DEF Aside
  <1>9. Phased(f)
    BY <1>1 DEF Phased, Opened, Level, Alike
  <1>10. Timely(f, Depth)
    BY <1>1, <1>9 DEF Timely, Alike
  <1>11. EngineOK(f, Depth, log', scopes', Len(scopes'), branches', Len(branches'), works')
    BY <1>4, <1>5, <1>6, <1>7, <1>8, <1>10 DEF EngineOK, Alike, logs
  <1>12. ~Overridden(f) /\ Len(f.undo) =< 3
    BY <1>1 DEF Overridden, Alike
  <1>13. /\ f.base = E.base /\ f.scopes = E.scopes /\ f.branches = E.branches
    BY DEF Alike
  <1>14. /\ \A j \in 1 .. E.branches : branches'[j] = branches[j]
         /\ scopes' \in Seq(Logs) /\ branches' \in Seq(Logs)
    <2>1. 1 .. E.branches \subseteq 1 .. Len(branches)
      BY <1>2, <1>4, Within
    <2> QED BY <2>1 DEF Grown, Agree, Sound
  <1> QED BY <1>11, <1>12, <1>13, <1>14, TopStep

LEMMA PastLater ==
    ASSUME NEW fr, NEW m \in Nat, NEW nb \in Nat, nb =< m, E.branches \in Nat, FrameOK(fr, nb)
    PROVE  FrameOK(fr, m)
  <1>1. \A s : s.at \in E.branches + 1 .. nb => s.at \in E.branches + 1 .. m
    OBVIOUS
  <1> QED BY <1>1 DEF FrameOK, Past

(* A step that leaves a walk wk, each of whose frames is one that was      *)
(* there or one that is as well as those.                                  *)
LEMMA SearchStep ==
    ASSUME Sound, Running, result' = result, scopes' = scopes, E.walk # <<>>,
           NEW wk \in Seq(Frames), wk # <<>>, Walked(wk),
           engines' = [engines EXCEPT ![Depth] = [E EXCEPT !.walk = wk]],
           works' \in works .. MaxWork, decisions' \in 0 .. MaxDecisions,
           log' \in LogsFrom(E.base, works'), NEW n, Grown(n),
           \A j \in DOMAIN wk : FrameOK(wk[j], Len(branches')) \/ FrameOK(wk[j], Len(branches)),
           Asks(Last(wk)) => \A k \in DOMAIN Last(wk).deltas :
                                 log' \o Last(wk).deltas[k] \in LogsFrom(E.base, works')
    PROVE  Sound'
  <1> DEFINE f == [E EXCEPT !.walk = wk]
  <1>1. E \in Engines /\ E.at = "walk" /\ E.finals = <<>> /\ Len(branches) \in Nat /\ E.branches \in Nat
    BY WalkFacts
  <1>2. Alike(E, f) /\ f.walk = wk /\ f.at = "walk" /\ f.finals = <<>>
    BY <1>1, WalkShape
  <1> HIDE DEF f
  <1>3. Len(branches') \in Nat /\ Len(branches) =< Len(branches')
    BY <1>1 DEF Grown
  <1>4. \A j \in DOMAIN wk : FrameOK(wk[j], Len(branches'))
    BY <1>1, <1>3, PastLater
  <1>5. Checked(f, Len(branches'))
    <2>1. \A s \in StatesOf(f) : \E j \in DOMAIN wk : s \in FrameStates(wk[j])
      BY <1>2, StatesParts
    <2>2. \A s \in StatesOf(f) : Past(s, Len(branches'))
      BY <1>4, <2>1 DEF FrameOK
    <2>3. f.branches = E.branches
      BY <1>2 DEF Alike
    <2> QED BY <2>2, <2>3 DEF Checked, Past
  <1>6. Deferred(f, log', LogsFrom(E.base, works'))
    BY <1>2 DEF Deferred, Asking, Asks
  <1>7. engines' = [engines EXCEPT ![Depth] = f]
    BY DEF f
  <1> QED BY <1>2, <1>5, <1>6, <1>7, WalkStep

LEMMA TopWalk ==
    ASSUME Sound, Running, result' = result, scopes' = scopes, E.walk # <<>>,
           NEW g \in Frames, g.kind = Frame.kind, Step(g),
           works' \in works .. MaxWork, decisions' \in 0 .. MaxDecisions,
           log' \in LogsFrom(E.base, works'), NEW n, Grown(n), FrameOK(g, Len(branches')),
           Asks(g) => \A k \in DOMAIN g.deltas : log' \o g.deltas[k] \in LogsFrom(E.base, works')
    PROVE  Sound'
  <1> DEFINE wk == [E.walk EXCEPT ![Len(E.walk)] = g]
  <1>1. /\ E.walk \in Seq(Frames) /\ Walked(E.walk) /\ Frame = E.walk[Len(E.walk)]
        /\ \A j \in DOMAIN E.walk : FrameOK(E.walk[j], Len(branches))
    BY WalkFacts
  <1>2. /\ wk \in Seq(Frames) /\ Len(wk) = Len(E.walk) /\ wk # <<>> /\ Last(wk) = g /\ Walked(wk)
        /\ \A j \in DOMAIN wk : wk[j] = IF j = Len(E.walk) THEN g ELSE E.walk[j]
    BY <1>1, WalkTop
  <1>3. engines' = [engines EXCEPT ![Depth] = [E EXCEPT !.walk = wk]]
    BY DEF Step, Put
  <1> HIDE DEF wk
  <1>4. \A j \in DOMAIN wk : FrameOK(wk[j], Len(branches')) \/ FrameOK(wk[j], Len(branches))
    <2>1. DOMAIN wk = DOMAIN E.walk
      BY <1>1, <1>2
    <2> QED BY <1>1, <1>2, <2>1
  <1> QED BY <1>2, <1>3, <1>4, SearchStep

LEMMA PushWalk ==
    ASSUME Sound, Running, result' = result, scopes' = scopes, E.walk # <<>>,
           NEW g \in Frames, NEW h \in Frames, g.kind = Frame.kind, Push(g, h),
           g.kind = "seq" <=> h.kind = "elem", g.kind = "seq" => g.agenda # <<>>,
           g.kind = "elem" => g.elem.kind \in {"choice", "option"} /\ g.phase = "default",
           works' \in works .. MaxWork, decisions' \in 0 .. MaxDecisions,
           log' \in LogsFrom(E.base, works'), NEW n, Grown(n),
           FrameOK(g, Len(branches')) \/ FrameOK(g, Len(branches)), FrameOK(h, Len(branches')),
           Asks(h) => h.deltas = <<>>
    PROVE  Sound'
  <1> DEFINE m == Len(E.walk)
             wk == Front(E.walk) \o <<g, h>>
  <1>1. /\ E.walk \in Seq(Frames) /\ Walked(E.walk) /\ Frame = E.walk[m] /\ m \in Nat \ {0}
        /\ \A j \in DOMAIN E.walk : FrameOK(E.walk[j], Len(branches))
    BY WalkFacts
  <1>2. /\ Front(E.walk) \in Seq(Frames) /\ Len(Front(E.walk)) = m - 1
        /\ \A j \in 1 .. m - 1 : Front(E.walk)[j] = E.walk[j]
    BY <1>1, FrontFacts
  <1>3. /\ wk \in Seq(Frames) /\ Len(wk) = m + 1 /\ wk[m] = g /\ wk[m + 1] = h
        /\ \A j \in 1 .. m - 1 : wk[j] = E.walk[j]
    <2> DEFINE fr == Front(E.walk)
    <2> HIDE DEF fr, m
    <2>1. fr \in Seq(Frames) /\ Len(fr) = m - 1 /\ m \in Nat \ {0}
      BY <1>1, <1>2 DEF fr
    <2>2. /\ fr \o <<g, h>> \in Seq(Frames) /\ Len(fr \o <<g, h>>) = m + 1
          /\ (fr \o <<g, h>>)[m] = g /\ (fr \o <<g, h>>)[m + 1] = h
          /\ \A j \in 1 .. m - 1 : (fr \o <<g, h>>)[j] = fr[j]
      BY <2>1
    <2> QED BY <1>2, <2>2 DEF fr
  <1>4. engines' = [engines EXCEPT ![Depth] = [E EXCEPT !.walk = wk]]
    BY DEF Push, Put
  <1> HIDE DEF wk
  <1>5. wk # <<>> /\ Last(wk) = h /\ DOMAIN wk = 1 .. m + 1
    BY <1>1, <1>3 DEF Last
  <1>6. \A j \in DOMAIN wk : FrameOK(wk[j], Len(branches')) \/ FrameOK(wk[j], Len(branches))
    <2>1. ASSUME NEW j \in 1 .. m + 1
          PROVE  FrameOK(wk[j], Len(branches')) \/ FrameOK(wk[j], Len(branches))
      <3>1. j = m \/ j = m + 1 \/ j \in 1 .. m - 1
        BY <1>1
      <3>2. ASSUME j \in 1 .. m - 1 PROVE FrameOK(wk[j], Len(branches))
        <4>1. j \in DOMAIN E.walk
          BY <1>1, <3>2
        <4> QED BY <1>1, <1>3, <3>2, <4>1
      <3> QED BY <1>3, <3>1, <3>2
    <2> QED BY <1>5, <2>1
  <1>7. Walked(wk)
    <2>1. ASSUME NEW j \in 1 .. m PROVE wk[j].kind = E.walk[j].kind
      <3>1. CASE j = m
        BY <1>1, <1>3, <3>1
      <3>2. CASE j # m
        <4>1. j \in 1 .. m - 1
          BY <1>1, <3>2
        <4> QED BY <1>3, <4>1
      <3> QED BY <3>1, <3>2
    <2>2. 1 \in 1 .. m
      <3>1. m \in Nat \ {0}
        BY <1>1
      <3> HIDE DEF m
      <3> QED BY <3>1
    <2>3. wk[1].kind = "seq"
      BY <1>1, <2>1, <2>2 DEF Walked
    <2>4. ASSUME NEW j \in DOMAIN wk, j # Len(wk)
          PROVE  /\ wk[j].kind = "seq" <=> wk[j + 1].kind = "elem"
                 /\ wk[j].kind = "seq" => wk[j].agenda # <<>>
                 /\ wk[j].kind = "elem" => /\ wk[j].elem.kind \in {"choice", "option"}
                                           /\ wk[j].phase = "default"
      <3>1. j = m \/ j \in 1 .. m - 1
        <4>1. m \in Nat \ {0} /\ j \in 1 .. m + 1 /\ j # m + 1
          BY <1>1, <1>3, <1>5, <2>4
        <4> HIDE DEF m
        <4> QED BY <4>1
      <3>2. CASE j = m
        BY <1>3, <3>2
      <3>3. CASE j \in 1 .. m - 1
        <4>1. j \in DOMAIN E.walk /\ j # m /\ j + 1 \in 1 .. m
          <5>1. m \in Nat \ {0} /\ DOMAIN E.walk = 1 .. m
            BY <1>1
          <5> HIDE DEF m
          <5> QED BY <3>3, <5>1
        <4>2. wk[j] = E.walk[j] /\ wk[j + 1].kind = E.walk[j + 1].kind
          BY <1>3, <2>1, <3>3, <4>1
        <4> QED BY <1>1, <4>1, <4>2 DEF Walked
      <3> QED BY <3>1, <3>2, <3>3
    <2> QED BY <2>3, <2>4 DEF Walked
  <1>8. Asks(Last(wk)) => \A k \in DOMAIN Last(wk).deltas :
            log' \o Last(wk).deltas[k] \in LogsFrom(E.base, works')
    BY <1>5
  <1> QED BY <1>3, <1>4, <1>5, <1>6, <1>7, <1>8, SearchStep

LEMMA PopWalk ==
    ASSUME Sound, Running, result' = result, scopes' = scopes, Len(E.walk) > 1,
           NEW g \in Frames, g.kind = E.walk[Len(E.walk) - 1].kind, ~Asks(g),
           Put([E EXCEPT !.walk = Append(SubSeq(@, 1, Len(@) - 2), g)]),
           works' \in works .. MaxWork, decisions' \in 0 .. MaxDecisions,
           log' \in LogsFrom(E.base, works'), NEW n, Grown(n), FrameOK(g, Len(branches'))
    PROVE  Sound'
  <1> DEFINE m == Len(E.walk) - 1
             lower == SubSeq(E.walk, 1, Len(E.walk) - 2)
             wk == Append(lower, g)
  <1>0. E.walk # <<>>
    <2>1. E \in Engines
      BY TopFacts
    <2>2. E.walk \in Seq(Frames)
      BY <2>1 DEF Engines
    <2> QED BY <2>2
  <1>1. /\ E.walk \in Seq(Frames) /\ Walked(E.walk) /\ m \in Nat \ {0} /\ Len(E.walk) = m + 1
        /\ \A j \in DOMAIN E.walk : FrameOK(E.walk[j], Len(branches))
    <2>1. /\ E.walk \in Seq(Frames) /\ Walked(E.walk) /\ Len(E.walk) \in Nat
          /\ \A j \in DOMAIN E.walk : FrameOK(E.walk[j], Len(branches))
      BY <1>0, WalkFacts
    <2> QED BY <2>1
  <1>2. Len(E.walk) - 2 = m - 1 /\ m - 1 \in Nat /\ m - 1 =< Len(E.walk)
    <2>1. Len(E.walk) = m + 1 /\ m \in Nat \ {0}
      BY <1>1
    <2> QED BY <2>1
  <1>4. engines' = [engines EXCEPT ![Depth] = [E EXCEPT !.walk = wk]]
    BY DEF Put
  <1> HIDE DEF m
  <1>3. /\ lower \in Seq(Frames) /\ Len(lower) = m - 1 /\ \A j \in 1 .. m - 1 : lower[j] = E.walk[j]
    <2> DEFINE z == m - 1
    <2>1. lower = SubSeq(E.walk, 1, z) /\ z \in Nat /\ z =< Len(E.walk)
      BY <1>2
    <2> HIDE DEF z, lower
    <2>2. /\ SubSeq(E.walk, 1, z) \in Seq(Frames) /\ Len(SubSeq(E.walk, 1, z)) = z
          /\ \A j \in 1 .. z : SubSeq(E.walk, 1, z)[j] = E.walk[j]
      BY <1>1, <2>1, ShortFacts
    <2> QED BY <2>1, <2>2 DEF z
  <1> HIDE DEF lower
  <1>5. /\ wk \in Seq(Frames) /\ Len(wk) = m /\ wk[m] = g /\ \A j \in 1 .. m - 1 : wk[j] = E.walk[j]
    <2>1. /\ wk \in Seq(Frames) /\ Len(wk) = Len(lower) + 1 /\ wk[Len(lower) + 1] = g
          /\ \A j \in 1 .. Len(lower) : wk[j] = lower[j]
      BY <1>3
    <2>2. Len(lower) + 1 = m
      BY <1>1, <1>3
    <2> QED BY <1>3, <2>1, <2>2
  <1> HIDE DEF wk
  <1>6. wk # <<>> /\ Last(wk) = g /\ DOMAIN wk = 1 .. m /\ DOMAIN E.walk = 1 .. m + 1
    BY <1>1, <1>5 DEF Last
  <1>7. \A j \in DOMAIN wk : FrameOK(wk[j], Len(branches')) \/ FrameOK(wk[j], Len(branches))
    <2>1. ASSUME NEW j \in 1 .. m
          PROVE  FrameOK(wk[j], Len(branches')) \/ FrameOK(wk[j], Len(branches))
      <3>1. j = m \/ (j \in 1 .. m - 1 /\ j \in 1 .. m + 1)
        BY SMTT(30), <1>1
      <3> QED BY <1>1, <1>5, <1>6, <3>1
    <2> QED BY <1>6, <2>1
  <1>8. Walked(wk)
    <2>1. ASSUME NEW j \in 1 .. m PROVE wk[j].kind = E.walk[j].kind
      <3>1. CASE j = m
        BY <1>5, <3>1 DEF m
      <3>2. CASE j # m
        <4>1. j \in 1 .. m - 1
          BY <1>1, <3>2
        <4> QED BY <1>5, <4>1
      <3> QED BY <3>1, <3>2
    <2>2. 1 \in 1 .. m
      BY <1>1
    <2>3. wk[1].kind = "seq"
      BY <1>0, <1>1, <2>1, <2>2 DEF Walked
    <2>4. ASSUME NEW j \in DOMAIN wk, j # Len(wk)
          PROVE  /\ wk[j].kind = "seq" <=> wk[j + 1].kind = "elem"
                 /\ wk[j].kind = "seq" => wk[j].agenda # <<>>
                 /\ wk[j].kind = "elem" => /\ wk[j].elem.kind \in {"choice", "option"}
                                           /\ wk[j].phase = "default"
      <3>1. j \in 1 .. m /\ j # m /\ m \in Nat
        BY <1>1, <1>5, <1>6, <2>4
      <3>2. j \in 1 .. m - 1 /\ j + 1 \in 1 .. m /\ j \in 1 .. m + 1 /\ j # m + 1
        BY SMTT(30), <3>1
      <3>3. wk[j] = E.walk[j] /\ wk[j + 1].kind = E.walk[j + 1].kind
        BY <1>5, <2>1, <3>2
      <3>4. j \in DOMAIN E.walk /\ j # Len(E.walk)
        BY <1>1, <1>6, <3>2
      <3> QED BY <1>1, <3>3, <3>4 DEF Walked
    <2> QED BY <2>3, <2>4 DEF Walked
  <1>9. Asks(Last(wk)) => \A k \in DOMAIN Last(wk).deltas :
            log' \o Last(wk).deltas[k] \in LogsFrom(E.base, works')
    BY <1>6
  <1> QED BY <1>0, <1>4, <1>5, <1>6, <1>7, <1>8, <1>9, SearchStep

LEMMA SeqOK ==
    ASSUME NEW g, NEW nb, g.kind = "seq", \A k \in DOMAIN g.agenda : Past(g.agenda[k].s, nb),
           \A k \in DOMAIN g.found : Past(g.found[k], nb)
    PROVE  FrameOK(g, nb)
  <1>1. \A s \in FrameStates(g) : \/ \E k \in DOMAIN g.agenda : s = g.agenda[k].s
                                  \/ \E k \in DOMAIN g.found : s = g.found[k]
    BY FrameParts
  <1> QED BY <1>1 DEF FrameOK

LEMMA ElemOK ==
    ASSUME NEW g, NEW nb, g.kind = "elem", Past(g.orig, nb),
           \A k \in DOMAIN g.trans : Past(g.trans[k], nb), \A k \in DOMAIN g.kept : Past(g.kept[k], nb)
    PROVE  FrameOK(g, nb)
  <1>1. \A s \in FrameStates(g) : \/ s = g.orig
                                  \/ \E k \in DOMAIN g.trans : s = g.trans[k]
                                  \/ \E k \in DOMAIN g.kept : s = g.kept[k]
    BY FrameParts
  <1> QED BY <1>1 DEF FrameOK

LEMMA SeqTop ==
    ASSUME Sound, Walking("seq")
    PROVE  /\ Running /\ E.walk # <<>> /\ Frame \in SeqFrames /\ Frame \in Frames /\ Frame.kind = "seq"
           /\ Frame.elems \in Seq(Elements) /\ Frame.agenda \in Seq(Items) /\ Frame.found \in Seq(States)
           /\ \A k \in DOMAIN Frame.agenda : /\ Frame.agenda[k] \in Items
                                             /\ Past(Frame.agenda[k].s, Len(branches))
           /\ \A k \in DOMAIN Frame.found : Past(Frame.found[k], Len(branches))
           /\ Frame.agenda # <<>> => /\ Item = Frame.agenda[1] /\ 1 \in DOMAIN Frame.agenda
                                     /\ Item.s \in States /\ Item.i \in Count
                                     /\ Past(Item.s, Len(branches))
  <1>1. Running /\ E.walk # <<>> /\ Frame.kind = "seq"
    BY DEF Walking, At
  <1>2. Frame \in Frames /\ FrameOK(Frame, Len(branches))
    BY <1>1, WalkFacts
  <1>3. Frame \in SeqFrames
    BY <1>1, <1>2, FrameKinds
  <1>4. Frame.elems \in Seq(Elements) /\ Frame.agenda \in Seq(Items) /\ Frame.found \in Seq(States)
    BY <1>3 DEF SeqFrames
  <1>5. /\ \A k \in DOMAIN Frame.agenda : Past(Frame.agenda[k].s, Len(branches))
        /\ \A k \in DOMAIN Frame.found : Past(Frame.found[k], Len(branches))
    BY <1>1, <1>2, FrameParts DEF FrameOK
  <1>6. \A k \in DOMAIN Frame.agenda : Frame.agenda[k] \in Items
    BY <1>4
  <1>7. ASSUME Frame.agenda # <<>>
        PROVE  /\ Item = Frame.agenda[1] /\ 1 \in DOMAIN Frame.agenda /\ Item.s \in States
               /\ Item.i \in Count
    <2>1. Item = Frame.agenda[1] /\ 1 \in DOMAIN Frame.agenda
      BY <1>4, <1>7, TailFacts DEF Item
    <2>2. Item \in Items
      BY <1>6, <2>1
    <2> QED BY <2>1, <2>2 DEF Items
  <1> QED BY <1>1, <1>2, <1>3, <1>4, <1>5, <1>6, <1>7

LEMMA ElemTop ==
    ASSUME Sound, Walking("elem")
    PROVE  /\ Running /\ E.walk # <<>> /\ Frame \in ElemFrames /\ Frame \in Frames /\ Frame.kind = "elem"
           /\ Frame.elem \in Elements /\ Frame.part \in Count /\ Frame.orig \in States
           /\ Frame.deltas \in Seq(Logs) /\ Frame.kept \in Seq(States) /\ Frame.trans \in Seq(States)
           /\ Past(Frame.orig, Len(branches))
           /\ \A k \in DOMAIN Frame.trans : Past(Frame.trans[k], Len(branches))
           /\ \A k \in DOMAIN Frame.kept : Past(Frame.kept[k], Len(branches))
  <1>1. Running /\ E.walk # <<>> /\ Frame.kind = "elem"
    BY DEF Walking, At
  <1>2. Frame \in Frames /\ FrameOK(Frame, Len(branches))
    BY <1>1, WalkFacts
  <1>3. Frame \in ElemFrames
    BY <1>1, <1>2, FrameKinds
  <1>4. /\ Frame.elem \in Elements /\ Frame.part \in Count /\ Frame.orig \in States
        /\ Frame.deltas \in Seq(Logs) /\ Frame.kept \in Seq(States) /\ Frame.trans \in Seq(States)
    BY <1>3 DEF ElemFrames
  <1>5. /\ Past(Frame.orig, Len(branches))
        /\ \A k \in DOMAIN Frame.trans : Past(Frame.trans[k], Len(branches))
        /\ \A k \in DOMAIN Frame.kept : Past(Frame.kept[k], Len(branches))
    BY <1>1, <1>2, FrameParts DEF FrameOK
  <1> QED BY <1>1, <1>2, <1>3, <1>4, <1>5

(* What waits below the top of the walk.                                   *)
LEMMA ParentFacts ==
    ASSUME Sound, Running, E.walk # <<>>
    PROVE  LET parent == E.walk[Len(E.walk) - 1] IN
           /\ Frame.kind = "elem" => Len(E.walk) > 1
           /\ Len(E.walk) # 1 => Len(E.walk) > 1
           /\ Len(E.walk) > 1 =>
                 /\ parent \in Frames /\ FrameOK(parent, Len(branches))
                 /\ Frame.kind = "elem" => parent.kind = "seq" /\ parent.agenda # <<>>
                 /\ Frame.kind = "seq" => /\ parent.kind = "elem" /\ parent.phase = "default"
                                          /\ parent.elem.kind \in {"choice", "option"}
  <1> DEFINE m == Len(E.walk)
  <1>1. /\ E.walk \in Seq(Frames) /\ m \in Nat \ {0} /\ Walked(E.walk) /\ Frame = E.walk[m]
        /\ \A j \in DOMAIN E.walk : E.walk[j] \in Frames /\ FrameOK(E.walk[j], Len(branches))
    BY WalkFacts
  <1>2. DOMAIN E.walk = 1 .. m
    BY <1>1
  <1>3. E.walk[1].kind = "seq"
    BY <1>1 DEF Walked
  <1>4. Frame.kind = "elem" => m # 1
    BY <1>1, <1>3
  <1>5. ASSUME m > 1
        PROVE  LET parent == E.walk[m - 1] IN
               /\ parent \in Frames /\ FrameOK(parent, Len(branches))
               /\ Frame.kind = "elem" => parent.kind = "seq" /\ parent.agenda # <<>>
               /\ Frame.kind = "seq" => /\ parent.kind = "elem" /\ parent.phase = "default"
                                        /\ parent.elem.kind \in {"choice", "option"}
    <2> DEFINE u == m - 1
    <2>1. u \in 1 .. m /\ u # m /\ u + 1 = m
      <3>1. m \in Nat \ {0}
        BY <1>1
      <3> HIDE DEF m
      <3> QED BY <1>5, <3>1
    <2> HIDE DEF u
    <2>2. u \in DOMAIN E.walk /\ u # Len(E.walk)
      BY <1>2, <2>1
    <2>3. /\ E.walk[u].kind = "seq" <=> E.walk[u + 1].kind = "elem"
          /\ E.walk[u].kind = "seq" => E.walk[u].agenda # <<>>
          /\ E.walk[u].kind = "elem" => /\ E.walk[u].elem.kind \in {"choice", "option"}
                                        /\ E.walk[u].phase = "default"
      BY <1>1, <2>2 DEF Walked
    <2>4. E.walk[u] \in Frames /\ FrameOK(E.walk[u], Len(branches)) /\ E.walk[u + 1] = Frame
      BY <1>1, <2>1, <2>2
    <2>5. E.walk[u].kind \in {"seq", "elem"} /\ Frame.kind \in {"seq", "elem"}
      BY <1>1, <1>2, <2>1, <2>4, FrameKinds
    <2> QED BY <2>3, <2>4, <2>5 DEF u
  <1>6. m # 1 => m > 1
    <2>1. m \in Nat \ {0}
      BY <1>1
    <2> HIDE DEF m
    <2> QED BY <2>1
  <1> QED BY <1>4, <1>5, <1>6

SeqWith(f, a, b)       == [f EXCEPT !.agenda = a, !.found = b]
ElemWith(f, phase, ts) == [f EXCEPT !.phase = phase, !.trans = ts]

LEMMA NewSeq ==
    ASSUME NEW f \in SeqFrames, NEW a \in Seq(Items), NEW b \in Seq(States)
    PROVE  LET g == SeqWith(f, a, b) IN
           /\ g \in SeqFrames /\ g \in Frames /\ g.kind = "seq" /\ g.agenda = a /\ g.found = b
           /\ g.elems = f.elems
  BY DEF SeqWith, SeqFrames, Frames

LEMMA NewElem ==
    ASSUME NEW f \in ElemFrames, NEW ts \in Seq(States), NEW phase \in {"default", "after"}
    PROVE  LET g == ElemWith(f, phase, ts) IN
           /\ g \in ElemFrames /\ g \in Frames /\ g.kind = "elem" /\ g.phase = phase /\ g.trans = ts
           /\ g.orig = f.orig /\ g.kept = f.kept /\ g.elem = f.elem /\ g.part = f.part
           /\ g.deltas = f.deltas
  BY DEF ElemWith, ElemFrames, Frames

(* A step that adds no checkpoint.                                         *)
LEMMA Unmarked ==
    ASSUME Sound, branches' = branches
    PROVE  Grown(0)
  <1>1. branches \in Seq(Logs) /\ Len(branches) \in Nat
    BY DEF Sound
  <1> QED BY <1>1 DEF Grown, Agree, Aside

LEMMA EndOfSequenceSound ==
    ASSUME Sound, EndOfSequence
    PROVE  Sound'
  <1> DEFINE a == Tail(Frame.agenda)
             b == Append(Frame.found, Item.s)
             g == [Frame EXCEPT !.agenda = a, !.found = b]
  <1>1. /\ Walking("seq") /\ Frame.agenda # <<>> /\ log' = Restore(Item.s) /\ Step(g)
        /\ works' = works /\ decisions' = decisions /\ scopes' = scopes /\ branches' = branches
        /\ result' = result
    BY DEF EndOfSequence, Done
  <1>2. /\ Running /\ E.walk # <<>> /\ Frame \in SeqFrames /\ Frame.kind = "seq"
        /\ Frame.agenda \in Seq(Items) /\ Frame.found \in Seq(States)
        /\ \A k \in DOMAIN Frame.agenda : Past(Frame.agenda[k].s, Len(branches))
        /\ \A k \in DOMAIN Frame.found : Past(Frame.found[k], Len(branches))
        /\ Item.s \in States /\ Past(Item.s, Len(branches))
    BY <1>1, SeqTop
  <1>3. /\ <<>> \in WritesAt(works) /\ works' = works + Len(<<>>) /\ works' \in works .. MaxWork
        /\ works' \in Nat /\ works' >= works /\ decisions' \in 0 .. MaxDecisions
    BY <1>1, Still
  <1>4. log' \in LogsFrom(E.base, works')
    BY <1>1, <1>2, <1>3, RestoreFacts DEF Past
  <1>5. /\ a \in Seq(Items) /\ \A k \in DOMAIN a : k + 1 \in DOMAIN Frame.agenda /\ a[k] = Frame.agenda[k + 1]
        /\ b \in Seq(States)
        /\ \A k \in DOMAIN b : b[k] = Item.s \/ (k \in DOMAIN Frame.found /\ b[k] = Frame.found[k])
    <2> DEFINE fa == Frame.agenda
               fb == Frame.found
               s == Item.s
    <2>1. fa \in Seq(Items) /\ fa # <<>> /\ fb \in Seq(States) /\ s \in States
      BY <1>1, <1>2
    <2> HIDE DEF fa, fb, s
    <2>2. /\ Tail(fa) \in Seq(Items)
          /\ \A k \in DOMAIN Tail(fa) : k + 1 \in DOMAIN fa /\ Tail(fa)[k] = fa[k + 1]
      BY <2>1, TailFacts
    <2>3. /\ Append(fb, s) \in Seq(States)
          /\ \A k \in DOMAIN Append(fb, s) : Append(fb, s)[k] = s \/ (k \in DOMAIN fb /\ Append(fb, s)[k] = fb[k])
      BY <2>1
    <2> QED BY <2>2, <2>3 DEF fa, fb, s
  <1> HIDE DEF a, b
  <1>6. g \in Frames /\ g.kind = "seq" /\ g.agenda = a /\ g.found = b
    <2>1. Frame \in SeqFrames /\ a \in Seq(Items) /\ b \in Seq(States)
      BY <1>2, <1>5
    <2>2. g = SeqWith(Frame, a, b)
      BY DEF SeqWith
    <2> HIDE DEF g
    <2> QED BY <2>1, <2>2, NewSeq
  <1> HIDE DEF g
  <1>7. FrameOK(g, Len(branches))
    <2>1. \A k \in DOMAIN g.agenda : Past(g.agenda[k].s, Len(branches))
      BY <1>2, <1>5, <1>6
    <2>2. \A k \in DOMAIN g.found : Past(g.found[k], Len(branches))
      BY <1>2, <1>5, <1>6
    <2> QED BY <1>6, <2>1, <2>2, SeqOK
  <1>8. Grown(0)
    BY <1>1, Unmarked
  <1> QED BY <1>1, <1>2, <1>3, <1>4, <1>6, <1>7, <1>8, TopWalk DEF Asks

(* A checkpoint that a hook, or nothing, leads to.                         *)
LEMMA MarkOne ==
    ASSUME Sound, NEW l \in Logs, l \in LogsFrom(E.base, works'), Checkpoint(<<l>>)
    PROVE  Grown(1) /\ Len(branches') = Len(branches) + 1
  <1>1. <<l>> \in Seq(Logs) /\ Len(<<l>>) = 1 /\ \A k \in DOMAIN <<l>> : <<l>>[k] = l
    OBVIOUS
  <1>2. branches' = branches \o <<l>>
    BY DEF Checkpoint
  <1>3. Grown(Len(<<l>>))
    BY <1>1, <1>2, CheckpointFacts
  <1> QED BY <1>1, <1>3 DEF Grown

LEMMA MarkNone ==
    ASSUME Sound, Checkpoint(<<>>)
    PROVE  branches' = branches /\ Grown(0)
  <1>1. branches' = branches
    BY DEF Checkpoint, Sound
  <1> QED BY <1>1, Unmarked

LEMMA FreshFacts ==
    ASSUME Sound, Running, Len(branches') = Len(branches) + 1, NEW p \in Logs
    PROVE  [at |-> Fresh, path |-> p] \in States /\ Past([at |-> Fresh, path |-> p], Len(branches'))
  <1>1. Len(branches) \in Nat /\ E.branches \in Nat /\ Len(branches) >= E.branches
    <2>1. EngineOK(E, Depth, log, scopes, Len(scopes), branches, Len(branches), works)
      BY TopFacts
    <2> QED BY <2>1 DEF EngineOK, Engines, Sound
  <1>2. Fresh \in Nat /\ Fresh \in E.branches + 1 .. Len(branches')
    BY <1>1 DEF Fresh
  <1> QED BY <1>2 DEF States, Past

LEMMA BeforeElementSound ==
    ASSUME Sound, NEW d, NEW w, BeforeElement(d, w)
    PROVE  Sound'
  <1> DEFINE s == Item.s
             orig == [at |-> Fresh, path |-> s.path \o w]
             now == Restore(s) \o w
             h == [kind |-> "elem", elem |-> Frame.elems[Item.i],
                   phase |-> IF d = "continue" THEN "default" ELSE "after", part |-> 1,
                   orig |-> orig, deltas |-> <<>>, kept |-> <<>>,
                   trans |-> IF d = "match" THEN <<orig>> ELSE <<>>]
  <1>1. /\ Walking("seq") /\ Frame.agenda # <<>> /\ log' = now /\ Checkpoint(<<now>>) /\ Push(Frame, h)
        /\ Item.i =< Len(Frame.elems) /\ scopes' = scopes /\ result' = result
    BY DEF BeforeElement
  <1>2. /\ w \in WritesAt(works) /\ works' = works + Len(w) /\ works' \in works .. MaxWork
        /\ w \in Logs /\ works' \in Nat /\ works' >= works /\ decisions' \in 0 .. MaxDecisions
    BY HookFacts DEF BeforeElement
  <1>3. /\ Running /\ E.walk # <<>> /\ Frame \in Frames /\ Frame.kind = "seq"
        /\ Frame.elems \in Seq(Elements) /\ FrameOK(Frame, Len(branches))
        /\ s \in States /\ Item.i \in Count /\ Past(s, Len(branches))
    BY <1>1, SeqTop, WalkFacts
  <1>4. now \in LogsFrom(E.base, works') /\ now \in Logs
    BY <1>2, <1>3, RestoreFacts DEF Past
  <1>5. Grown(1) /\ Len(branches') = Len(branches) + 1
    BY <1>1, <1>4, MarkOne
  <1>6. orig \in States /\ Past(orig, Len(branches'))
    <2>1. s.path \o w \in Logs
      <3>1. s.path \in Logs
        BY <1>3 DEF States
      <3> QED BY <1>2, <3>1 DEF Logs
    <2> QED BY <1>3, <1>5, <2>1, FreshFacts
  <1> HIDE DEF orig, now
  <1>7. Frame.elems[Item.i] \in Elements
    <2>1. Item.i \in 1 .. Len(Frame.elems)
      BY <1>1, <1>3 DEF Count
    <2> QED BY <1>3, <2>1
  <1>8. h \in ElemFrames /\ h \in Frames
    <2>1. <<orig>> \in Seq(States) /\ <<>> \in Seq(States) /\ <<>> \in Seq(Logs) /\ 1 \in Count
      BY <1>6 DEF Count
    <2> QED BY <1>6, <1>7, <2>1 DEF ElemFrames, Frames
  <1>9. /\ h.kind = "elem" /\ h.orig = orig /\ h.kept = <<>> /\ h.deltas = <<>>
        /\ h.trans = IF d = "match" THEN <<orig>> ELSE <<>>
    OBVIOUS
  <1> HIDE DEF h
  <1>10. FrameOK(h, Len(branches'))
    <2>1. /\ \A k \in DOMAIN h.trans : h.trans[k] = orig
          /\ \A k \in DOMAIN h.kept : h.kept[k] = orig
      BY <1>9
    <2> QED BY <1>6, <1>9, <2>1, ElemOK
  <1> QED BY <1>1, <1>2, <1>3, <1>4, <1>5, <1>8, <1>9, <1>10, PushWalk DEF now

LEMMA LiteralSound ==
    ASSUME Sound, NEW matches \in BOOLEAN, Literal(matches)
    PROVE  Sound'
  <1> DEFINE ts == IF matches THEN <<Frame.orig>> ELSE <<>>
             g == ElemWith(Frame, "after", ts)
  <1>1. /\ Walking("elem") /\ Step(g) /\ scopes' = scopes /\ result' = result /\ log' = log
        /\ branches' = branches /\ works' = works /\ decisions' = decisions
    BY DEF Literal, Default, ElemWith
  <1>2. /\ Running /\ E.walk # <<>> /\ Frame \in ElemFrames /\ Frame.kind = "elem" /\ Frame.orig \in States
        /\ Past(Frame.orig, Len(branches))
        /\ \A k \in DOMAIN Frame.kept : Past(Frame.kept[k], Len(branches))
    BY <1>1, ElemTop
  <1>3. /\ <<>> \in WritesAt(works) /\ works' = works + Len(<<>>) /\ works' \in works .. MaxWork
        /\ works' \in Nat /\ works' >= works /\ decisions' \in 0 .. MaxDecisions
    BY <1>1, Still
  <1>4. log' \in LogsFrom(E.base, works')
    BY <1>1, <1>2, <1>3, LogFacts
  <1>5. ts \in Seq(States) /\ \A k \in DOMAIN ts : ts[k] = Frame.orig
    BY <1>2
  <1> HIDE DEF ts
  <1>6. /\ g \in Frames /\ g.kind = "elem" /\ g.phase = "after" /\ g.trans = ts
        /\ g.orig = Frame.orig /\ g.kept = Frame.kept
    BY <1>2, <1>5, NewElem
  <1> HIDE DEF g
  <1>7. FrameOK(g, Len(branches))
    BY <1>2, <1>5, <1>6, ElemOK
  <1>8. Grown(0)
    BY <1>1, Unmarked
  <1> QED BY <1>1, <1>2, <1>3, <1>4, <1>6, <1>7, <1>8, TopWalk DEF Asks

LEMMA BranchSound ==
    ASSUME Sound, Branch
    PROVE  Sound'
  <1> DEFINE g == [Frame EXCEPT !.part = @ + 1]
             h == [kind |-> "seq", elems |-> Frame.elem.parts[Frame.part],
                   agenda |-> <<[s |-> Frame.orig, i |-> 1]>>, found |-> <<>>]
             ts == IF Frame.elem.kind = "option" THEN Append(Frame.trans, Frame.orig) ELSE Frame.trans
  <1>1. /\ Walking("elem") /\ Frame.phase = "default" /\ scopes' = scopes /\ result' = result
        /\ log' = log /\ branches' = branches /\ works' = works /\ decisions' = decisions
        /\ Frame.elem.kind \in {"choice", "option"}
    BY DEF Branch, Default, Kind
  <1>2. /\ Running /\ E.walk # <<>> /\ Frame \in ElemFrames /\ Frame.kind = "elem" /\ Frame.orig \in States
        /\ Frame.elem \in Elements /\ Frame.part \in Count /\ Frame.trans \in Seq(States)
        /\ Past(Frame.orig, Len(branches))
        /\ \A k \in DOMAIN Frame.trans : Past(Frame.trans[k], Len(branches))
        /\ \A k \in DOMAIN Frame.kept : Past(Frame.kept[k], Len(branches))
        /\ FrameOK(Frame, Len(branches))
    BY <1>1, ElemTop, WalkFacts
  <1>3. /\ <<>> \in WritesAt(works) /\ works' = works + Len(<<>>) /\ works' \in works .. MaxWork
        /\ works' \in Nat /\ works' >= works /\ decisions' \in 0 .. MaxDecisions
    BY <1>1, Still
  <1>4. log' \in LogsFrom(E.base, works')
    BY <1>1, <1>2, <1>3, LogFacts
  <1>5. Grown(0)
    BY <1>1, Unmarked
  <1>6. CASE Frame.part =< Len(Frame.elem.parts)
    <2>1. Push(g, h)
      BY <1>6 DEF Branch
    <2>2. Frame.elem.parts \in Seq(Seq(Elements)) /\ Len(Frame.elem.parts) \in Nat
      <3>1. Frame.elem.parts \in Seq(Seq(Elements))
        BY <1>2, PatternsAssumption
      <3> QED BY <3>1
    <2>3. Frame.elem.parts[Frame.part] \in Seq(Elements)
      <3>1. Frame.part \in 1 .. Len(Frame.elem.parts)
        BY <1>2, <1>6, <2>2 DEF Count
      <3> QED BY <2>2, <3>1
    <2>4. h \in Frames
      <3>1. <<[s |-> Frame.orig, i |-> 1]>> \in Seq(Items) /\ <<>> \in Seq(States)
        BY <1>2 DEF Items, Count
      <3> QED BY <2>3, <3>1 DEF Frames, SeqFrames
    <2>5. h.kind = "seq" /\ h.found = <<>> /\ h.agenda = <<[s |-> Frame.orig, i |-> 1]>>
      OBVIOUS
    <2> HIDE DEF h
    <2>6. FrameOK(h, Len(branches))
      <3>1. \A k \in DOMAIN h.agenda : h.agenda[k].s = Frame.orig
        BY <2>5
      <3>2. \A k \in DOMAIN h.found : FALSE
        BY <2>5
      <3> QED BY <1>2, <2>5, <3>1, <3>2, SeqOK
    <2> DEFINE c == Frame.part + 1
    <2>7. c \in Count /\ g = [Frame EXCEPT !.part = c]
      <3>1. c \in Count
        BY <1>2 DEF Count
      <3> QED BY <1>2, <3>1 DEF ElemFrames
    <2> HIDE DEF g, c
    <2>8. LET x == [Frame EXCEPT !.part = c] IN
          /\ x \in Frames /\ x.kind = Frame.kind /\ x.elem = Frame.elem /\ x.phase = Frame.phase
          /\ FrameStates(x) = FrameStates(Frame)
      BY <1>2, <2>7, PartShape
    <2>9. /\ g \in Frames /\ g.kind = "elem" /\ g.elem = Frame.elem /\ g.phase = "default"
          /\ FrameOK(g, Len(branches))
      BY <1>1, <1>2, <2>7, <2>8 DEF FrameOK
    <2> QED
      BY <1>1, <1>2, <1>3, <1>4, <1>5, <2>1, <2>4, <2>5, <2>6, <2>9, PushWalk DEF Asks
  <1>7. CASE ~(Frame.part =< Len(Frame.elem.parts))
    <2> DEFINE n == ElemWith(Frame, "after", ts)
    <2>1. Step(n)
      <3>1. Step([Frame EXCEPT !.phase = "after",
                   !.trans = IF Kind = "option" THEN Append(@, Frame.orig) ELSE @])
        BY <1>7 DEF Branch
      <3>2. [Frame EXCEPT !.phase = "after",
                   !.trans = IF Kind = "option" THEN Append(@, Frame.orig) ELSE @] = n
        BY DEF ElemWith, Kind
      <3> QED BY <3>1, <3>2
    <2>2. ts \in Seq(States) /\ \A k \in DOMAIN ts : ts[k] = Frame.orig \/ (k \in DOMAIN Frame.trans /\ ts[k] = Frame.trans[k])
      <3> DEFINE fb == Frame.trans
                 s == Frame.orig
      <3>1. fb \in Seq(States) /\ s \in States
        BY <1>2
      <3> HIDE DEF fb, s
      <3>2. /\ Append(fb, s) \in Seq(States)
            /\ \A k \in DOMAIN Append(fb, s) : Append(fb, s)[k] = s \/ (k \in DOMAIN fb /\ Append(fb, s)[k] = fb[k])
        BY <3>1
      <3> QED BY <3>1, <3>2 DEF fb, s
    <2> HIDE DEF ts
    <2>3. /\ n \in Frames /\ n.kind = "elem" /\ n.phase = "after" /\ n.trans = ts
          /\ n.orig = Frame.orig /\ n.kept = Frame.kept
      BY <1>2, <2>2, NewElem
    <2> HIDE DEF n
    <2>4. FrameOK(n, Len(branches))
      BY <1>2, <2>2, <2>3, ElemOK
    <2> QED BY <1>1, <1>2, <1>3, <1>4, <1>5, <2>1, <2>3, <2>4, TopWalk DEF Asks
  <1> QED BY <1>6, <1>7

LEMMA JoinFacts ==
    ASSUME NEW S, NEW s \in Seq(S), NEW t \in Seq(S)
    PROVE  /\ s \o t \in Seq(S)
           /\ \A k \in DOMAIN (s \o t) : \/ k \in DOMAIN s /\ (s \o t)[k] = s[k]
                                         \/ \E j \in DOMAIN t : (s \o t)[k] = t[j]
  <1>1. /\ s \o t \in Seq(S) /\ Len(s) \in Nat /\ Len(t) \in Nat /\ DOMAIN s = 1 .. Len(s)
        /\ DOMAIN t = 1 .. Len(t) /\ DOMAIN (s \o t) = 1 .. Len(s) + Len(t)
        /\ \A k \in 1 .. Len(s) : (s \o t)[k] = s[k]
        /\ \A k \in Len(s) + 1 .. Len(s) + Len(t) : (s \o t)[k] = t[k - Len(s)]
    OBVIOUS
  <1>2. ASSUME NEW k \in DOMAIN (s \o t)
        PROVE  \/ k \in DOMAIN s /\ (s \o t)[k] = s[k]
               \/ \E j \in DOMAIN t : (s \o t)[k] = t[j]
    <2>1. CASE k \in 1 .. Len(s)
      BY <1>1, <2>1
    <2>2. CASE k \notin 1 .. Len(s)
      <3>1. k \in Len(s) + 1 .. Len(s) + Len(t) /\ k - Len(s) \in 1 .. Len(t)
        BY <1>1, <2>2
      <3>2. k - Len(s) \in DOMAIN t /\ (s \o t)[k] = t[k - Len(s)]
        BY <1>1, <3>1
      <3> QED BY <3>2
    <2> QED BY <2>1, <2>2
  <1> QED BY <1>1, <1>2

LEMMA OverShape ==
    ASSUME NEW e \in Engines, NEW fs \in Seq(States)
    PROVE  LET f == [e EXCEPT !.at = "complete", !.walk = <<>>, !.finals = fs] IN
           Alike(e, f) /\ f.walk = <<>> /\ f.at = "complete" /\ f.finals = fs
  <1> DEFINE f == [e EXCEPT !.at = "complete", !.walk = <<>>, !.finals = fs]
  <1>1. <<>> \in Seq(Frames)
    OBVIOUS
  <1>2. f \in Engines
    <2> DEFINE none == <<>>
    <2>1. none \in Seq(Frames)
      BY <1>1
    <2> HIDE DEF none
    <2>2. [e EXCEPT !.at = "complete", !.walk = none, !.finals = fs] \in Engines
      BY <2>1 DEF Engines
    <2> QED BY <2>2 DEF none
  <1>3. /\ f.walk = <<>> /\ f.at = "complete" /\ f.finals = fs
        /\ f.base = e.base /\ f.scopes = e.scopes /\ f.branches = e.branches
        /\ f.selected = e.selected /\ f.matches = e.matches /\ f.cand = e.cand /\ f.pat = e.pat
        /\ f.scope = e.scope /\ f.undo = e.undo /\ f.path = e.path /\ f.won = e.won
        /\ f.deaf = e.deaf /\ f.from = e.from /\ f.val = e.val /\ f.synth = e.synth
    BY DEF Engines
  <1> HIDE DEF f
  <1> QED BY <1>2, <1>3 DEF Alike, f

LEMMA BranchEndsSound ==
    ASSUME Sound, BranchEnds
    PROVE  Sound'
  <1> DEFINE parent == E.walk[Len(E.walk) - 1]
             f == [E EXCEPT !.at = "complete", !.walk = <<>>, !.finals = Frame.found]
             ts == parent.trans \o Frame.found
             g == [parent EXCEPT !.trans = ts]
  <1>1. /\ Walking("seq") /\ Frame.agenda = <<>> /\ scopes' = scopes /\ result' = result
        /\ log' = log /\ branches' = branches /\ works' = works /\ decisions' = decisions
        /\ Put(IF Len(E.walk) = 1 THEN f
               ELSE [E EXCEPT !.walk = Append(SubSeq(@, 1, Len(@) - 2), g)])
    BY DEF BranchEnds
  <1>2. /\ Running /\ E.walk # <<>> /\ Frame \in SeqFrames /\ Frame.kind = "seq"
        /\ Frame.found \in Seq(States)
        /\ \A k \in DOMAIN Frame.found : Past(Frame.found[k], Len(branches))
    BY <1>1, SeqTop
  <1>3. /\ <<>> \in WritesAt(works) /\ works' = works + Len(<<>>) /\ works' \in works .. MaxWork
        /\ works' \in Nat /\ works' >= works /\ decisions' \in 0 .. MaxDecisions
    BY <1>1, Still
  <1>4. log' \in LogsFrom(E.base, works')
    BY <1>1, <1>2, <1>3, LogFacts
  <1>5. Grown(0)
    BY <1>1, Unmarked
  <1>6. CASE Len(E.walk) = 1
    <2>1. engines' = [engines EXCEPT ![Depth] = f]
      BY <1>1, <1>6 DEF Put
    <2>2. E \in Engines
      BY <1>2, WalkFacts
    <2>3. Alike(E, f) /\ f.walk = <<>> /\ f.at = "complete" /\ f.finals = Frame.found
      BY <1>2, <2>2, OverShape
    <2> HIDE DEF f
    <2>4. Checked(f, Len(branches'))
      <3>1. \A s \in StatesOf(f) : \E k \in DOMAIN Frame.found : s = Frame.found[k]
        BY <2>3, StatesParts
      <3>2. f.branches = E.branches
        BY <2>3 DEF Alike
      <3> QED BY <1>1, <1>2, <3>1, <3>2 DEF Checked, Past
    <2>5. Walked(f.walk) /\ Deferred(f, log', LogsFrom(E.base, works'))
      BY <2>3 DEF Walked, Deferred, Asking
    <2> QED BY <1>1, <1>2, <1>3, <1>4, <1>5, <2>1, <2>3, <2>4, <2>5, WalkStep
  <1>7. CASE Len(E.walk) # 1
    <2>1. /\ Len(E.walk) > 1 /\ parent \in Frames /\ parent.kind = "elem" /\ parent.phase = "default"
          /\ parent.elem.kind \in {"choice", "option"} /\ FrameOK(parent, Len(branches))
      BY <1>2, <1>7, ParentFacts
    <2>2. Put([E EXCEPT !.walk = Append(SubSeq(@, 1, Len(@) - 2), g)])
      BY <1>1, <1>7
    <2>3. parent \in ElemFrames
      BY <2>1, FrameKinds
    <2>4. parent.kind = E.walk[Len(E.walk) - 1].kind
      OBVIOUS
    <2> HIDE DEF parent
    <2>5. /\ parent.trans \in Seq(States) /\ Past(parent.orig, Len(branches))
          /\ \A k \in DOMAIN parent.trans : Past(parent.trans[k], Len(branches))
          /\ \A k \in DOMAIN parent.kept : Past(parent.kept[k], Len(branches))
      BY <2>1, <2>3, FrameParts DEF FrameOK, ElemFrames
    <2>6. ts \in Seq(States) /\ \A k \in DOMAIN ts : Past(ts[k], Len(branches))
      <3>1. /\ ts \in Seq(States)
            /\ \A k \in DOMAIN ts : \/ k \in DOMAIN parent.trans /\ ts[k] = parent.trans[k]
                                    \/ \E j \in DOMAIN Frame.found : ts[k] = Frame.found[j]
        <4> DEFINE a == parent.trans
                   b == Frame.found
        <4>1. a \in Seq(States) /\ b \in Seq(States)
          BY <1>2, <2>5
        <4> HIDE DEF a, b
        <4>2. /\ a \o b \in Seq(States)
              /\ \A k \in DOMAIN (a \o b) : \/ k \in DOMAIN a /\ (a \o b)[k] = a[k]
                                           \/ \E j \in DOMAIN b : (a \o b)[k] = b[j]
          BY <4>1, JoinFacts
        <4> QED BY <4>2 DEF a, b
      <3> HIDE DEF ts
      <3> QED BY <1>2, <2>5, <3>1
    <2> HIDE DEF ts
    <2>7. g = ElemWith(parent, "default", ts)
      BY <2>1, <2>3 DEF ElemWith, ElemFrames
    <2> HIDE DEF g
    <2>8. /\ g \in Frames /\ g.kind = "elem" /\ g.trans = ts /\ g.orig = parent.orig
          /\ g.kept = parent.kept /\ g.elem = parent.elem
      BY <2>3, <2>6, <2>7, NewElem
    <2>9. FrameOK(g, Len(branches'))
      BY <1>1, <2>5, <2>6, <2>8, ElemOK
    <2>10. ~Asks(g)
      BY <2>1, <2>8 DEF Asks
    <2>11. g.kind = E.walk[Len(E.walk) - 1].kind
      BY <2>1, <2>4, <2>8
    <2> QED
      BY <1>1, <1>2, <1>3, <1>4, <1>5, <2>1, <2>2, <2>8, <2>9, <2>10, <2>11, PopWalk
  <1> QED BY <1>6, <1>7

(* The deltas of the leaves, and then of the nested match, are deferred.   *)
AskedWith(f, ds) == [f EXCEPT !.part = 2, !.deltas = ds]

LEMMA NewAsked ==
    ASSUME NEW f \in ElemFrames, NEW ds \in Seq(Logs)
    PROVE  LET g == AskedWith(f, ds) IN
           /\ g \in Frames /\ g.kind = "elem" /\ g.deltas = ds /\ FrameStates(g) = FrameStates(f)
  <1> DEFINE h == [f EXCEPT !.part = 2]
  <1>1. h \in ElemFrames /\ h.kind = f.kind /\ FrameStates(h) = FrameStates(f)
    <2>1. 2 \in Count
      BY DEF Count
    <2> DEFINE n == 2
    <2> HIDE DEF n
    <2>2. n \in Count
      BY <2>1 DEF n
    <2>3. LET g == [f EXCEPT !.part = n] IN
          /\ g \in ElemFrames /\ g \in Frames /\ g.kind = f.kind /\ g.elem = f.elem /\ g.phase = f.phase
          /\ g.deltas = f.deltas /\ g.orig = f.orig /\ g.part = n /\ FrameStates(g) = FrameStates(f)
      BY <2>2, PartShape
    <2> QED BY <2>3 DEF n
  <1>2. AskedWith(f, ds) = [h EXCEPT !.deltas = ds]
    BY DEF AskedWith, ElemFrames
  <1> HIDE DEF h
  <1>3. f.kind = "elem"
    BY DEF ElemFrames
  <1>4. LET g == [h EXCEPT !.deltas = ds] IN
        /\ g \in Frames /\ g.kind = h.kind /\ g.deltas = ds /\ FrameStates(g) = FrameStates(h)
    BY <1>1, DeltasShape
  <1> QED BY <1>1, <1>2, <1>3, <1>4

LEMMA AskLeafSound ==
    ASSUME Sound, NEW found \in BOOLEAN, NEW w, AskLeaf(found, w)
    PROVE  Sound'
  <1> DEFINE ds == IF found THEN <<w>> ELSE <<>>
             g == AskedWith(Frame, ds)
  <1>1. /\ Walking("elem") /\ Step(g) /\ scopes' = scopes /\ result' = result /\ log' = log
        /\ branches' = branches /\ w \in Writes /\ Wrote(w) /\ decisions' = decisions
    BY DEF AskLeaf, Default, AskedWith
  <1>2. /\ Running /\ E.walk # <<>> /\ Frame \in ElemFrames /\ Frame.kind = "elem"
        /\ FrameOK(Frame, Len(branches))
    BY <1>1, ElemTop, WalkFacts
  <1>3. /\ w \in WritesAt(works) /\ w \in Logs /\ works' = works + Len(w)
        /\ works' \in works .. MaxWork /\ works' \in Nat /\ works' >= works
    BY <1>1, WriteFacts
  <1>4. decisions' \in 0 .. MaxDecisions
    BY <1>1 DEF Sound
  <1>5. log' \in LogsFrom(E.base, works') /\ log' \o w \in LogsFrom(E.base, works')
    BY <1>1, <1>2, <1>3, LogFacts
  <1>6. ds \in Seq(Logs) /\ \A k \in DOMAIN ds : ds[k] = w
    BY <1>3
  <1> HIDE DEF ds
  <1>7. g \in Frames /\ g.kind = "elem" /\ g.deltas = ds /\ FrameStates(g) = FrameStates(Frame)
    BY <1>2, <1>6, NewAsked
  <1> HIDE DEF g
  <1>8. FrameOK(g, Len(branches'))
    BY <1>1, <1>2, <1>7 DEF FrameOK
  <1>9. Grown(0)
    BY <1>1, Unmarked
  <1>10. \A k \in DOMAIN g.deltas : log' \o g.deltas[k] \in LogsFrom(E.base, works')
    BY <1>5, <1>6, <1>7
  <1> QED BY <1>1, <1>2, <1>3, <1>4, <1>5, <1>7, <1>8, <1>9, <1>10, TopWalk

LEMMA PickedLogs ==
    ASSUME NEW logs \in SUBSET Logs, NEW l \in logs, NEW ds \in Seq(Logs),
           \A k \in DOMAIN ds : l \o ds[k] \in logs
    PROVE  LET ls == <<l>> \o [k \in DOMAIN ds |-> l \o ds[k]] IN
           ls \in Seq(Logs) /\ Len(ls) = Len(ds) + 1 /\ \A k \in DOMAIN ls : ls[k] \in logs
  <1> DEFINE m == [k \in DOMAIN ds |-> l \o ds[k]]
  <1>1. DOMAIN ds = 1 .. Len(ds) /\ Len(ds) \in Nat
    OBVIOUS
  <1>2. m \in [1 .. Len(ds) -> logs]
    BY <1>1
  <1> HIDE DEF m
  <1>3. m \in Seq(logs) /\ Len(m) = Len(ds)
    BY <1>1, <1>2
  <1>4. <<l>> \in Seq(logs) /\ Len(<<l>>) = 1
    OBVIOUS
  <1> DEFINE ls == <<l>> \o m
  <1>5. ls \in Seq(logs) /\ Len(ls) = Len(ds) + 1
    BY <1>1, <1>3, <1>4
  <1> HIDE DEF ls
  <1>6. \A k \in DOMAIN ls : ls[k] \in logs
    BY <1>5
  <1>7. ls \in Seq(Logs)
    BY <1>5
  <1> QED BY <1>5, <1>6, <1>7 DEF ls, m

LEMMA SelectTypesSound ==
    ASSUME Sound, SelectTypes
    PROVE  Sound'
  <1> DEFINE ds == Frame.deltas
             ls == IF ds = <<>> THEN <<>> ELSE <<log>> \o [k \in DOMAIN ds |-> log \o ds[k]]
             ts == [k \in DOMAIN ds |-> [at |-> Fresh + k, path |-> Frame.orig.path \o ds[k]]]
             g == ElemWith(Frame, "after", ts)
  <1>1. /\ Walking("elem") /\ Frame.phase = "default" /\ Frame.elem.kind = "type" /\ Step(g)
        /\ branches' = branches \o ls /\ scopes' = scopes /\ result' = result /\ log' = log
        /\ works' = works /\ decisions' = decisions
    BY DEF SelectTypes, Default, Kind, ElemWith, Checkpoint, Selecting
  <1>2. /\ Running /\ E.walk # <<>> /\ Frame \in ElemFrames /\ Frame.kind = "elem"
        /\ Frame.orig \in States /\ ds \in Seq(Logs)
        /\ Past(Frame.orig, Len(branches))
        /\ \A k \in DOMAIN Frame.kept : Past(Frame.kept[k], Len(branches))
        /\ E.branches \in Nat /\ Len(branches) \in Nat /\ Frame = Last(E.walk)
    BY <1>1, ElemTop, WalkFacts
  <1>3. /\ <<>> \in WritesAt(works) /\ works' = works + Len(<<>>) /\ works' \in works .. MaxWork
        /\ works' \in Nat /\ works' >= works /\ decisions' \in 0 .. MaxDecisions
    BY <1>1, Still
  <1> DEFINE logs == LogsFrom(E.base, works')
  <1>4. logs \in SUBSET Logs /\ log \in logs
    BY <1>1, <1>2, <1>3, LogFacts
  <1>5. (\A k \in DOMAIN ds : log \o ds[k] \in logs) /\ Len(branches) >= E.branches
    <2>1. EngineOK(E, Depth, log, scopes, Len(scopes), branches, Len(branches), works)
      BY <1>2, TopFacts
    <2>2. Asking(E)
      BY <1>1, <1>2 DEF Asking
    <2> QED BY <1>1, <1>2, <2>1, <2>2 DEF EngineOK, Deferred
  <1> HIDE DEF logs, ds
  <1>6. /\ ls \in Seq(Logs) /\ \A k \in DOMAIN ls : ls[k] \in logs
        /\ ds # <<>> => Len(ls) = Len(ds) + 1
    <2>1. CASE ds = <<>>
      <3>1. ls = <<>>
        BY <2>1
      <3> HIDE DEF ls
      <3> QED BY <2>1, <3>1
    <2>2. CASE ds # <<>>
      <3>1. ls = <<log>> \o [k \in DOMAIN ds |-> log \o ds[k]]
        BY <2>2
      <3>2. LET x == <<log>> \o [k \in DOMAIN ds |-> log \o ds[k]] IN
            x \in Seq(Logs) /\ Len(x) = Len(ds) + 1 /\ \A k \in DOMAIN x : x[k] \in logs
        BY <1>2, <1>4, <1>5, PickedLogs
      <3> HIDE DEF ls
      <3> QED BY <3>1, <3>2
    <2> QED BY <2>1, <2>2
  <1> HIDE DEF ls
  <1>7. Grown(Len(ls))
    BY <1>1, <1>6, CheckpointFacts DEF logs
  <1>8. ASSUME NEW k \in DOMAIN ds
        PROVE  /\ [at |-> Fresh + k, path |-> Frame.orig.path \o ds[k]] \in States
               /\ Past([at |-> Fresh + k, path |-> Frame.orig.path \o ds[k]], Len(branches'))
    <2> DEFINE p == Frame.orig.path \o ds[k]
               c == Fresh + k
    <2>1. p \in Logs
      <3>1. Frame.orig.path \in Logs /\ ds[k] \in Logs
        BY <1>2 DEF States
      <3> QED BY <3>1 DEF Logs
    <2>2. k \in 1 .. Len(ds) /\ Len(ds) \in Nat /\ ds # <<>>
      BY <1>2
    <2>3. Len(branches') = Len(branches) + (Len(ds) + 1)
      BY <1>6, <1>7, <2>2 DEF Grown
    <2> HIDE DEF p
    <2>4. c \in Nat /\ c \in E.branches + 1 .. Len(branches')
      <3> DEFINE nd == Len(ds)
                 nb == Len(branches)
                 eb == E.branches
      <3>1. /\ k \in 1 .. nd /\ nd \in Nat /\ nb \in Nat /\ eb \in Nat /\ nb >= eb /\ c = nb + 1 + k
            /\ Len(branches') = nb + (nd + 1)
        BY <1>2, <1>5, <2>2, <2>3 DEF Fresh
      <3> HIDE DEF nd, nb, eb, c
      <3>2. c \in Nat /\ c \in eb + 1 .. nb + (nd + 1)
        BY <3>1
      <3> QED BY <3>1, <3>2 DEF eb
    <2> HIDE DEF c
    <2>5. [at |-> c, path |-> p] \in States /\ Past([at |-> c, path |-> p], Len(branches'))
      BY <2>1, <2>4 DEF States, Past
    <2> QED BY <2>5 DEF c, p
  <1>9. ts \in Seq(States) /\ \A k \in DOMAIN ts : Past(ts[k], Len(branches'))
    <2>1. DOMAIN ds = 1 .. Len(ds) /\ Len(ds) \in Nat
      BY <1>2
    <2>2. /\ ts \in [1 .. Len(ds) -> States] /\ DOMAIN ts = DOMAIN ds
          /\ \A k \in DOMAIN ds : Past(ts[k], Len(branches'))
      BY <1>8, <2>1
    <2> HIDE DEF ts
    <2> QED BY <2>1, <2>2
  <1> HIDE DEF ts
  <1>10. /\ g \in Frames /\ g.kind = "elem" /\ g.phase = "after" /\ g.trans = ts
         /\ g.orig = Frame.orig /\ g.kept = Frame.kept
    BY <1>2, <1>9, NewElem
  <1> HIDE DEF g
  <1>11. FrameOK(g, Len(branches'))
    <2>1. Len(branches) =< Len(branches')
      BY <1>2, <1>7 DEF Grown
    <2>2. \A s : Past(s, Len(branches)) => Past(s, Len(branches'))
      <3>1. Len(branches') \in Nat
        BY <1>7, <1>2 DEF Grown
      <3> QED BY <1>2, <2>1, <3>1 DEF Past
    <2> QED BY <1>2, <1>9, <1>10, <2>2, ElemOK
  <1>12. log' \in LogsFrom(E.base, works')
    BY <1>1, <1>4 DEF logs
  <1> QED BY <1>1, <1>2, <1>3, <1>7, <1>10, <1>11, <1>12, TopWalk DEF Asks

(* The states an element kept go on to the next element of its sequence.   *)
LEMMA LeaveSound ==
    ASSUME Sound, Walking("elem"), result' = result, scopes' = scopes,
           NEW kept \in Seq(States), Leave(kept),
           works' \in works .. MaxWork, decisions' \in 0 .. MaxDecisions,
           log' \in LogsFrom(E.base, works'), NEW n, Grown(n),
           \A k \in DOMAIN kept : Past(kept[k], Len(branches'))
    PROVE  Sound'
  <1> DEFINE parent == E.walk[Len(E.walk) - 1]
             i == Head(parent.agenda).i
             heads == [k \in DOMAIN kept |-> [s |-> kept[k], i |-> i + 1]]
             a == heads \o Tail(parent.agenda)
             g == [parent EXCEPT !.agenda = a]
  <1>1. Put([E EXCEPT !.walk = Append(SubSeq(@, 1, Len(@) - 2), g)])
    BY DEF Leave
  <1>2. /\ Running /\ E.walk # <<>> /\ Frame.kind = "elem" /\ Len(branches) \in Nat /\ E.branches \in Nat
    BY ElemTop, WalkFacts
  <1>3. /\ Len(E.walk) > 1 /\ parent \in Frames /\ parent.kind = "seq" /\ parent.agenda # <<>>
        /\ FrameOK(parent, Len(branches)) /\ parent.kind = E.walk[Len(E.walk) - 1].kind
    BY <1>2, ParentFacts
  <1> HIDE DEF parent
  <1>4. parent \in SeqFrames
    BY <1>3, FrameKinds
  <1>5. parent.agenda \in Seq(Items) /\ parent.found \in Seq(States)
    BY <1>4 DEF SeqFrames
  <1>6. Head(parent.agenda) \in Items /\ Tail(parent.agenda) \in Seq(Items)
    BY <1>3, <1>5, TailFacts
  <1>7. i + 1 \in Count
    <2>1. i \in Count
      BY <1>6 DEF Items
    <2> HIDE DEF i
    <2> QED BY <2>1 DEF Count
  <1>8. \A k \in DOMAIN Tail(parent.agenda) : k + 1 \in DOMAIN parent.agenda /\ Tail(parent.agenda)[k] = parent.agenda[k + 1]
    <2> DEFINE fa == parent.agenda
    <2>1. fa \in Seq(Items) /\ fa # <<>>
      BY <1>3, <1>5
    <2> HIDE DEF fa
    <2>2. \A k \in DOMAIN Tail(fa) : k + 1 \in DOMAIN fa /\ Tail(fa)[k] = fa[k + 1]
      BY <2>1, TailFacts
    <2> QED BY <2>2 DEF fa
  <1>9. FrameOK(parent, Len(branches'))
    <2>1. Len(branches') \in Nat /\ Len(branches) =< Len(branches')
      BY <1>2 DEF Grown
    <2> QED BY <1>2, <1>3, <2>1, PastLater
  <1>10. /\ \A k \in DOMAIN parent.agenda : Past(parent.agenda[k].s, Len(branches'))
         /\ \A k \in DOMAIN parent.found : Past(parent.found[k], Len(branches'))
    BY <1>3, <1>9, FrameParts DEF FrameOK
  <1>11. heads \in Seq(Items) /\ \A k \in DOMAIN heads : k \in DOMAIN kept /\ heads[k].s = kept[k]
    <2> DEFINE nx == i + 1
    <2> HIDE DEF nx
    <2>1. nx \in Count
      BY <1>7 DEF nx
    <2>2. DOMAIN kept = 1 .. Len(kept) /\ Len(kept) \in Nat
      OBVIOUS
    <2>3. \A k \in DOMAIN kept : [s |-> kept[k], i |-> nx] \in Items
      BY <2>1 DEF Items
    <2>4. [k \in DOMAIN kept |-> [s |-> kept[k], i |-> nx]] \in [1 .. Len(kept) -> Items]
      BY <2>2, <2>3
    <2>5. heads = [k \in DOMAIN kept |-> [s |-> kept[k], i |-> nx]]
      BY DEF nx
    <2>6. heads \in [1 .. Len(kept) -> Items]
      BY <2>4, <2>5
    <2>7. DOMAIN heads = DOMAIN kept /\ \A k \in DOMAIN kept : heads[k].s = kept[k]
      BY <2>5
    <2> HIDE DEF heads
    <2> QED BY <2>2, <2>6, <2>7
  <1> HIDE DEF heads, i
  <1>12. /\ a \in Seq(Items)
         /\ \A k \in DOMAIN a : \/ k \in DOMAIN heads /\ a[k] = heads[k]
                                \/ \E j \in DOMAIN Tail(parent.agenda) : a[k] = Tail(parent.agenda)[j]
    <2> DEFINE b == Tail(parent.agenda)
    <2>1. b \in Seq(Items)
      BY <1>6
    <2> HIDE DEF b
    <2>2. /\ heads \o b \in Seq(Items)
          /\ \A k \in DOMAIN (heads \o b) : \/ k \in DOMAIN heads /\ (heads \o b)[k] = heads[k]
                                            \/ \E j \in DOMAIN b : (heads \o b)[k] = b[j]
      BY <1>11, <2>1, JoinFacts
    <2> QED BY <2>2 DEF b
  <1> HIDE DEF a
  <1>13. \A k \in DOMAIN a : Past(a[k].s, Len(branches'))
    <2>1. ASSUME NEW k \in DOMAIN a PROVE Past(a[k].s, Len(branches'))
      <3>1. CASE k \in DOMAIN heads /\ a[k] = heads[k]
        BY <1>11, <3>1
      <3>2. ASSUME NEW j \in DOMAIN Tail(parent.agenda), a[k] = Tail(parent.agenda)[j]
            PROVE  Past(a[k].s, Len(branches'))
        <4>1. j + 1 \in DOMAIN parent.agenda /\ a[k] = parent.agenda[j + 1]
          BY <1>8, <3>2
        <4> QED BY <1>10, <4>1
      <3> QED BY <1>12, <3>1, <3>2
    <2> QED BY <2>1
  <1>14. g = SeqWith(parent, a, parent.found)
    BY <1>4 DEF SeqWith, SeqFrames
  <1> HIDE DEF g
  <1>15. g \in Frames /\ g.kind = "seq" /\ g.agenda = a /\ g.found = parent.found
    BY <1>4, <1>5, <1>12, <1>14, NewSeq
  <1>16. FrameOK(g, Len(branches'))
    BY <1>10, <1>13, <1>15, SeqOK
  <1>17. ~Asks(g) /\ g.kind = E.walk[Len(E.walk) - 1].kind
    BY <1>3, <1>15 DEF Asks
  <1> QED BY <1>1, <1>2, <1>3, <1>15, <1>16, <1>17, PopWalk

LEMMA AfterFailedElementSound ==
    ASSUME Sound, NEW d, NEW w, AfterFailedElement(d, w)
    PROVE  Sound'
  <1> DEFINE now == Restore(Frame.orig) \o w
             mark == [at |-> Fresh, path |-> Frame.orig.path \o w]
             kept == IF d = "match" THEN <<mark>> ELSE <<>>
  <1>1. /\ Walking("elem") /\ log' = now /\ Checkpoint(IF d = "match" THEN <<now>> ELSE <<>>)
        /\ Leave(kept) /\ scopes' = scopes /\ result' = result
    BY DEF AfterFailedElement
  <1>2. /\ w \in WritesAt(works) /\ works' = works + Len(w) /\ works' \in works .. MaxWork
        /\ w \in Logs /\ works' \in Nat /\ works' >= works /\ decisions' \in 0 .. MaxDecisions
    BY HookFacts DEF AfterFailedElement
  <1>3. Running /\ Frame.orig \in States /\ Past(Frame.orig, Len(branches))
    BY <1>1, ElemTop
  <1>4. now \in LogsFrom(E.base, works') /\ now \in Logs
    BY <1>2, <1>3, RestoreFacts DEF Past
  <1> HIDE DEF now
  <1>5. CASE d = "match"
    <2>1. Checkpoint(<<now>>) /\ kept = <<mark>>
      BY <1>1, <1>5
    <2>2. Grown(1) /\ Len(branches') = Len(branches) + 1
      BY <1>4, <2>1, MarkOne
    <2>3. mark \in States /\ Past(mark, Len(branches'))
      <3>1. Frame.orig.path \o w \in Logs
        <4>1. Frame.orig.path \in Logs
          BY <1>3 DEF States
        <4> QED BY <1>2, <4>1 DEF Logs
      <3> QED BY <1>3, <2>2, <3>1, FreshFacts
    <2> HIDE DEF mark
    <2>4. kept \in Seq(States) /\ \A k \in DOMAIN kept : Past(kept[k], Len(branches'))
      BY <2>1, <2>3
    <2> HIDE DEF kept
    <2> QED BY <1>1, <1>2, <1>4, <2>2, <2>4, LeaveSound
  <1>6. CASE d # "match"
    <2>1. Checkpoint(<<>>) /\ kept = <<>>
      BY <1>1, <1>6
    <2>2. Grown(0)
      BY <2>1, MarkNone
    <2>3. kept \in Seq(States) /\ \A k \in DOMAIN kept : Past(kept[k], Len(branches'))
      BY <2>1
    <2> HIDE DEF kept
    <2> QED BY <1>1, <1>2, <1>4, <2>2, <2>3, LeaveSound
  <1> QED BY <1>5, <1>6

KeptWith(f, ts, ks) == [f EXCEPT !.trans = ts, !.kept = ks]

LEMMA NewKept ==
    ASSUME NEW f \in ElemFrames, NEW ts \in Seq(States), NEW ks \in Seq(States)
    PROVE  LET g == KeptWith(f, ts, ks) IN
           /\ g \in ElemFrames /\ g \in Frames /\ g.kind = "elem" /\ g.phase = f.phase
           /\ g.trans = ts /\ g.kept = ks /\ g.orig = f.orig
  BY DEF KeptWith, ElemFrames, Frames

LEMMA AfterElementSound ==
    ASSUME Sound, NEW d, NEW w, AfterElement(d, w)
    PROVE  Sound'
  <1> DEFINE t == Head(Frame.trans)
             now == Restore(t) \o w
             mark == [at |-> Fresh, path |-> t.path \o w]
             kept == IF d = "fail" THEN Frame.kept ELSE Append(Frame.kept, mark)
             rest == Tail(Frame.trans)
             g == KeptWith(Frame, rest, kept)
  <1>1. /\ Walking("elem") /\ log' = now /\ Checkpoint(IF d = "fail" THEN <<>> ELSE <<now>>)
        /\ Frame.phase = "after" /\ Frame.trans # <<>> /\ scopes' = scopes /\ result' = result
    BY DEF AfterElement
  <1>2. /\ w \in WritesAt(works) /\ works' = works + Len(w) /\ works' \in works .. MaxWork
        /\ w \in Logs /\ works' \in Nat /\ works' >= works /\ decisions' \in 0 .. MaxDecisions
    BY HookFacts DEF AfterElement
  <1>3. /\ Running /\ E.walk # <<>> /\ Frame \in ElemFrames /\ Frame.kind = "elem"
        /\ Frame.trans \in Seq(States) /\ Frame.kept \in Seq(States)
        /\ Past(Frame.orig, Len(branches))
        /\ \A k \in DOMAIN Frame.trans : Past(Frame.trans[k], Len(branches))
        /\ \A k \in DOMAIN Frame.kept : Past(Frame.kept[k], Len(branches))
        /\ Len(branches) \in Nat /\ E.branches \in Nat
    BY <1>1, ElemTop, WalkFacts
  <1>4. /\ t \in States /\ Past(t, Len(branches)) /\ rest \in Seq(States)
        /\ \A k \in DOMAIN rest : Past(rest[k], Len(branches))
    <2> DEFINE tr == Frame.trans
    <2>1. tr \in Seq(States) /\ tr # <<>> /\ \A k \in DOMAIN tr : Past(tr[k], Len(branches))
      BY <1>1, <1>3
    <2> HIDE DEF tr
    <2>2. /\ Head(tr) \in States /\ Head(tr) = tr[1] /\ 1 \in DOMAIN tr /\ Tail(tr) \in Seq(States)
          /\ \A k \in DOMAIN Tail(tr) : k + 1 \in DOMAIN tr /\ Tail(tr)[k] = tr[k + 1]
      BY <2>1, TailFacts
    <2>3. Past(Head(tr), Len(branches)) /\ \A k \in DOMAIN Tail(tr) : Past(Tail(tr)[k], Len(branches))
      BY <2>1, <2>2
    <2> QED BY <2>2, <2>3 DEF tr
  <1>5. now \in LogsFrom(E.base, works') /\ now \in Logs
    <2> HIDE DEF t
    <2> QED BY <1>2, <1>3, <1>4, RestoreFacts DEF Past
  <1> HIDE DEF now
  <1>6. ASSUME NEW n, Grown(n), kept \in Seq(States), \A k \in DOMAIN kept : Past(kept[k], Len(branches'))
        PROVE  Sound'
    <2>1. CASE rest = <<>>
      <3>1. Leave(kept)
        BY <2>1 DEF AfterElement
      <3> HIDE DEF kept
      <3> QED BY <1>1, <1>2, <1>5, <1>6, <3>1, LeaveSound
    <2>2. CASE rest # <<>>
      <3>1. Step(g)
        BY <2>2 DEF AfterElement, KeptWith
      <3> HIDE DEF kept, rest
      <3>2. /\ g \in Frames /\ g.kind = "elem" /\ g.phase = "after" /\ g.trans = rest /\ g.kept = kept
            /\ g.orig = Frame.orig
        <4>1. LET x == KeptWith(Frame, rest, kept) IN
              /\ x \in ElemFrames /\ x \in Frames /\ x.kind = "elem" /\ x.phase = Frame.phase
              /\ x.trans = rest /\ x.kept = kept /\ x.orig = Frame.orig
          BY <1>3, <1>4, <1>6, NewKept
        <4> QED BY <1>1, <4>1
      <3> HIDE DEF g
      <3>3. \A s : Past(s, Len(branches)) => Past(s, Len(branches'))
        BY <1>3, <1>6 DEF Past, Grown
      <3>4. FrameOK(g, Len(branches'))
        BY <1>3, <1>4, <1>6, <3>2, <3>3, ElemOK
      <3> QED BY <1>1, <1>2, <1>3, <1>5, <1>6, <3>1, <3>2, <3>4, TopWalk DEF Asks
    <2> QED BY <2>1, <2>2
  <1>7. CASE d = "fail"
    <2>1. Checkpoint(<<>>) /\ kept = Frame.kept
      BY <1>1, <1>7
    <2>2. Grown(0) /\ branches' = branches
      BY <2>1, MarkNone
    <2>3. kept \in Seq(States) /\ \A k \in DOMAIN kept : Past(kept[k], Len(branches'))
      BY <1>3, <2>1, <2>2
    <2> QED BY <1>6, <2>2, <2>3
  <1>8. CASE d # "fail"
    <2>1. Checkpoint(<<now>>) /\ kept = Append(Frame.kept, mark)
      BY <1>1, <1>8
    <2>2. Grown(1) /\ Len(branches') = Len(branches) + 1
      BY <1>5, <2>1, MarkOne
    <2>3. mark \in States /\ Past(mark, Len(branches'))
      <3>1. t.path \o w \in Logs
        <4>1. t.path \in Logs
          BY <1>4 DEF States
        <4> QED BY <1>2, <4>1 DEF Logs
      <3> QED BY <1>3, <2>2, <3>1, FreshFacts
    <2>4. \A s : Past(s, Len(branches)) => Past(s, Len(branches'))
      BY <1>3, <2>2 DEF Past, Grown
    <2>5. kept \in Seq(States) /\ \A k \in DOMAIN kept : Past(kept[k], Len(branches'))
      <3> DEFINE fb == Frame.kept
      <3> HIDE DEF mark, fb, kept
      <3>1. fb \in Seq(States) /\ \A k \in DOMAIN fb : Past(fb[k], Len(branches))
        BY <1>3 DEF fb
      <3>2. /\ Append(fb, mark) \in Seq(States)
            /\ \A k \in DOMAIN Append(fb, mark) : Append(fb, mark)[k] = mark \/ (k \in DOMAIN fb /\ Append(fb, mark)[k] = fb[k])
        BY <2>3, <3>1
      <3>3. kept = Append(fb, mark)
        BY <2>1 DEF fb
      <3>4. \A k \in DOMAIN Append(fb, mark) : Past(Append(fb, mark)[k], Len(branches'))
        BY <2>3, <2>4, <3>1, <3>2
      <3> QED BY <3>2, <3>3, <3>4
    <2> QED BY <1>6, <2>2, <2>5
  <1> QED BY <1>7, <1>8

-----------------------------------------------------------------------------
(* The invariant is inductive.                                             *)
LEMMA NextSound ==
    ASSUME Sound, [Next]_vars
    PROVE  Sound'
  <1>1. ASSUME NEW d \in AllDecisions, NEW w \in Writes,
               \/ BeforeScope(d, w) \/ AfterScope(d, w) \/ AfterDefinition(d, w)
               \/ BeforeElement(d, w) \/ AfterElement(d, w) \/ AfterFailedElement(d, w)
        PROVE  Sound'
    BY <1>1, BeforeScopeSound, AfterScopeSound, AfterDefinitionSound,
       BeforeElementSound, AfterElementSound, AfterFailedElementSound
  <1>2. ASSUME Searches PROVE Sound'
    <2>1. ASSUME NEW b \in BOOLEAN, NEW w \in Writes, AskLeaf(b, w) \/ Synthetic(b, w)
          PROVE  Sound'
      BY <2>1, AskLeafSound, SyntheticSound
    <2>2. ASSUME NEW b \in BOOLEAN, Literal(b) PROVE Sound'
      BY <2>2, LiteralSound
    <2>3. ASSUME NEW w \in Writes, Complete(w) PROVE Sound'
      BY <2>3, CompleteSound
    <2>4. CASE EndOfSequence \/ Branch \/ BranchEnds \/ AskNested
      BY <2>4, EndOfSequenceSound, BranchSound, BranchEndsSound, AskNestedSound
    <2>5. CASE SelectTypes \/ Skip \/ Incomplete
      BY <2>5, SelectTypesSound, SkipSound, IncompleteSound
    <2> QED BY <1>2, <2>1, <2>2, <2>3, <2>4, <2>5 DEF Searches
  <1>3. CASE FinishMatch
    BY <1>3, FinishMatchSound
  <1>4. ASSUME NEW k \in 0 .. Cardinality(DOMAIN E.matches), FinishNested(k) PROVE Sound'
    BY <1>4, FinishNestedSound
  <1>5. CASE Fault
    BY <1>5, FaultSound
  <1>6. CASE UNCHANGED vars
    <2>1. /\ log' = log /\ works' = works /\ decisions' = decisions /\ engines' = engines
          /\ scopes' = scopes /\ branches' = branches /\ last' = last /\ result' = result
      BY <1>6 DEF vars
    <2>2. Depth' = Depth
      BY <2>1 DEF Depth
    <2>3. E' = E /\ (Running' <=> Running)
      BY <2>1, <2>2 DEF E, Running
    <2>4. \A k : LogAt(k)' = LogAt(k) /\ ScopesAt(k)' = ScopesAt(k) /\ BranchesAt(k)' = BranchesAt(k)
      BY <2>1, <2>2 DEF LogAt, ScopesAt, BranchesAt
    <2> QED BY <2>1, <2>2, <2>3, <2>4 DEF Sound
  <1>7. Hooks => \E d \in AllDecisions, w \in Writes :
            \/ BeforeScope(d, w) \/ AfterScope(d, w) \/ AfterDefinition(d, w)
            \/ BeforeElement(d, w) \/ AfterElement(d, w) \/ AfterFailedElement(d, w)
    BY DEF Hooks
  <1> QED BY <1>1, <1>2, <1>3, <1>4, <1>5, <1>6, <1>7 DEF Next

(* What the host has put aside is what the matcher will ask for, and       *)
(* belongs to the invocation that asks: savepoints, scope frames and       *)
(* branch checkpoints hold logs of the invocation that made them, those of *)
(* the outer invocations stay below, and what a nested match has deferred  *)
(* extends the log it was asked from.                                      *)
THEOREM SoundAlways == Spec => []Sound
  <1>1. Init => Sound
    BY InitSound
  <1>2. Sound /\ [Next]_vars => Sound'
    BY NextSound
  <1> QED BY <1>1, <1>2, PTL DEF Spec

LEMMA OpenInside ==
    ASSUME NEW e \in Engines, Len(e.undo) =< 3
    PROVE  OpenScopes(e) = Inside(e)
  <1> DEFINE n == Len(e.undo)
             open == {k \in DOMAIN e.undo : k > 1}
  <1>1. e.undo \in Seq(Logs)
    BY DEF Engines
  <1>2. n \in {0, 1, 2, 3} /\ DOMAIN e.undo = 1 .. n
    <2>1. n \in Nat /\ n =< 3 /\ DOMAIN e.undo = 1 .. n
      BY <1>1
    <2> HIDE DEF n
    <2> QED BY <2>1
  <1> HIDE DEF n
  <1>3. open = {k \in 1 .. n : k > 1}
    BY <1>2
  <1>4. CASE n \in {0, 1}
    <2>1. open = {}
      BY <1>3, <1>4
    <2>2. Cardinality({}) = 0
      BY FS_EmptySet
    <2>3. OpenScopes(e) = 0
      BY <2>1, <2>2 DEF OpenScopes
    <2>4. Inside(e) = 0
      BY <1>4 DEF Inside, n
    <2> QED BY <2>3, <2>4
  <1>5. CASE n = 2
    <2>1. open = {2}
      BY <1>3, <1>5
    <2>2. Cardinality({2}) = 1
      BY FS_Singleton
    <2> QED BY <1>5, <2>1, <2>2 DEF OpenScopes, Inside, n
  <1>6. CASE n = 3
    <2> DEFINE one == {2}
    <2>1. open = one \cup {3}
      BY <1>3, <1>6
    <2>2. IsFiniteSet(one) /\ Cardinality(one) = 1
      BY FS_Singleton
    <2>3. 3 \notin one
      OBVIOUS
    <2> HIDE DEF one
    <2>4. Cardinality(one \cup {3}) = Cardinality(one) + 1
      BY <2>2, <2>3, FS_AddElement
    <2>5. Cardinality(one \cup {3}) = 2
      BY <2>2, <2>4
    <2>6. OpenScopes(e) = 2
      BY <2>1, <2>5 DEF OpenScopes
    <2> QED BY <1>6, <2>6 DEF Inside, n
  <1> QED BY <1>2, <1>4, <1>5, <1>6

LEMMA SoundTyped ==
    ASSUME Sound
    PROVE  TypeOK
  <1>1. /\ engines \in Seq(Engines) /\ DOMAIN engines = 1 .. Depth
        /\ \A k \in 1 .. Depth : engines[k] \in Engines /\ Len(engines[k].undo) =< 3
    BY DEF Sound, Depth
  <1>2. \A k, l \in DOMAIN log : log[k].nr =< works /\ (k < l => log[k].nr < log[l].nr)
    BY DEF Sound, Sorted
  <1>3. ASSUME NEW k \in DOMAIN engines, Running
        PROVE  /\ engines[k].scopes + OpenScopes(engines[k])
                  = IF k = Depth THEN Len(scopes) ELSE engines[k + 1].scopes
               /\ \A s \in StatesOf(engines[k]) :
                     s.at =< (IF k = Depth THEN Len(branches) ELSE engines[k + 1].branches)
    <2>1. /\ k \in 1 .. Depth
          /\ EngineOK(engines[k], k, LogAt(k), scopes, ScopesAt(k), branches, BranchesAt(k), works)
      BY <1>1, <1>3 DEF Sound
    <2>2. ScopesAt(k) = engines[k].scopes + OpenScopes(engines[k])
      BY <1>1, <2>1, OpenInside DEF EngineOK
    <2>3. /\ Checked(engines[k], BranchesAt(k)) /\ BranchesAt(k) >= engines[k].branches
          /\ engines[k].branches \in Nat
      BY <2>1 DEF EngineOK, Engines
    <2>4. BranchesAt(k) \in Nat
      <3>1. CASE k = Depth
        BY <3>1 DEF BranchesAt, Sound
      <3>2. CASE k # Depth
        <4>1. Depth \in Nat
          BY PatternsAssumption DEF Sound
        <4>2. k + 1 \in 1 .. Depth
          BY <2>1, <3>2, <4>1, NextIndex
        <4>3. engines[k + 1].branches \in Nat
          BY <1>1, <4>2 DEF Engines
        <4> QED BY <3>2, <4>3 DEF BranchesAt
      <3> QED BY <3>1, <3>2
    <2>5. \A s \in StatesOf(engines[k]) : s.at =< BranchesAt(k)
      BY <2>3, <2>4 DEF Checked
    <2> QED BY <2>2, <2>5 DEF ScopesAt, BranchesAt
  <1> QED BY <1>1, <1>2, <1>3 DEF TypeOK, Sound

(* The host's stacks fit the matcher's: as many scope_frames as open       *)
(* Registration and Pattern scopes (finish_nested_scope), a checkpoint for *)
(* every state still to be explored (checkpoint_branch_state,              *)
(* restore_branch_state), works in their order, and nothing left of either *)
(* when the outermost match is over.                                       *)
THEOREM TypeCorrect == Spec => []TypeOK
  <1>1. Sound => TypeOK
    BY SoundTyped
  <1> QED BY <1>1, SoundAlways, PTL
=============================================================================
