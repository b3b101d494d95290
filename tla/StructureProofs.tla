-------------------------- MODULE StructureProofs --------------------------
(***************************************************************************)
(* The two passes of the Structure parser, for any number of roots and of  *)
(* candidates and any declarations: the work that is kept, the contexts,   *)
(* the functions of the frozen registry and what calls found.              *)
(***************************************************************************)
EXTENDS StructurePasses, SequenceTheorems, FiniteSetTheorems, TLAPS

-----------------------------------------------------------------------------
(* The sets the variables range over.                                      *)
Candidate == Nat \ {0}
Work      == Seq(Nat)
Ctx       == Seq(Root \X Nat)
Span      == 0 .. Roots
Decl      == [name : Names, scope : Scopes, span : Span]
Entry     == [name : Names, scope : Scopes, span : Span, order : Nat, root : Root, by : Nat,
              late : BOOLEAN]
Mark      == [log : Work, registry : Nat, order : Nat, context : Ctx]
Match     == [cand : Candidate, state : Work]
Call      == [name : Names, found : SUBSET Entry, stale : BOOLEAN]
Memory    == [name : Names, log : Work, found : SUBSET Entry]
Claim     == [claims : Seq(Candidate), first : Nat, directive : BOOLEAN, mode : {"none", "body"},
              parent : Ctx, context : Ctx, head : Work, body : Work, declares : Seq(Decl),
              calls : SUBSET Call, rejected : BOOLEAN, selected : Nat]
Fr        == frames[1]

Types ==
    /\ log \in Work /\ works \in 0 .. MaxWork /\ declared \in 0 .. MaxDeclared
    /\ registry \in Seq(Entry) /\ order \in Nat
    /\ context \in Ctx /\ frames \in Seq(Mark) /\ memo \in SUBSET Memory
    /\ at \in {"match", "enter", "between", "bodies", "inside", "frozen", "error"}
    /\ root \in Root /\ ranked \in Seq(Match) /\ roots \in [Root -> Claim]
    /\ Len(frames) = IF at \in {"enter", "inside"} THEN 1 ELSE 0

(* A registry is in the order of its numbers, without a signature twice.   *)
Numbered(reg, n) ==
    /\ \A i, j \in DOMAIN reg : i < j =>
          /\ reg[i].order < reg[j].order
          /\ <<reg[i].name, reg[i].scope>> # <<reg[j].name, reg[j].scope>>
    /\ \A i \in DOMAIN reg : reg[i].order < n

(* What is registered since the savepoint is of the root in progress.      *)
Marked ==
    /\ Fr.registry =< Len(registry) /\ Fr.order =< order
    /\ \A i \in DOMAIN registry :
          IF i =< Fr.registry THEN registry[i].order < Fr.order ELSE registry[i].root = root

Passed ==
    /\ at = "match" => \A i \in DOMAIN registry : registry[i].root < root
    /\ at = "enter" => \A i \in DOMAIN registry : i =< Fr.registry => registry[i].root < root

Registry ==
    /\ Numbered(registry, order)
    /\ at \in {"enter", "inside"} => Marked
    /\ Passed

(* Which declarations a registry, the entries E, holds of what the roots   *)
(* declare, D: all of them but those with the span of a header, in X, that *)
(* had a body rejected, and besides those that such a header left, which   *)
(* have another span than its own.                                         *)
DeclOf(e) == [name |-> e.name, scope |-> e.scope, span |-> e.span]
Held(E, r, d)      == \E e \in E : e.root = r /\ DeclOf(e) = d
Account(E, r, D, X) ==
    /\ \A d \in D : Held(E, r, d) \/ d.span \in X \ {r}
    /\ \A e \in E : e.root = r =>
          DeclOf(e) \in D \/ (e.span # r /\ r \in X /\ ~e.late)
Accounts(E, D, X)  == \A r \in Root : Account(E, r, D[r], X)

Declarers == [r \in Root |-> Range(roots[r].declares)]
Rejected  == {r \in Root : roots[r].rejected}

FirstPass  == at \in {"match", "enter", "between"}
Pending(r) == FirstPass \/ (at = "bodies" /\ r >= root) \/ (at = "inside" /\ r > root)
Over(r)    == at = "frozen" \/ (at \in {"bodies", "inside"} /\ r < root)

(* How far each root has come.                                             *)
Unseen(r)    == (at = "match" /\ r >= root) \/ (at = "enter" /\ r > root)
Progress ==
    /\ \A r \in Root :
          /\ Unseen(r) => roots[r] = Unclaimed
          /\ FirstPass => /\ roots[r].claims # <<>> => Head(roots[r].claims) = roots[r].first
                          /\ roots[r].directive => roots[r].claims # <<>>
          /\ Pending(r) =>
                /\ roots[r].body = <<>> /\ roots[r].calls = {}
                /\ roots[r].claims # <<>> /\ Head(roots[r].claims) # roots[r].first =>
                      roots[r].declares = <<>>
          /\ roots[r].claims = <<>> => roots[r].declares = <<>>
          /\ Over(r) /\ roots[r].declares # <<>> => roots[r].selected # 0
    /\ at = "inside" => R.claims # <<>>
    /\ at = "between" => root = 1

(* No registration is later than the last header that declared; those of   *)
(* the second pass are of the roots before, until a body is entered.       *)
Histories ==
    at # "error" =>
        /\ Accounts(Range(registry), Declarers, Rejected)
        /\ \A e \in Range(registry) : e.by =< declared
        /\ FirstPass => /\ Rejected = {} /\ memo = {}
                        /\ \A e \in Range(registry) : ~e.late
        /\ at = "bodies" => \A e \in Range(registry) : e.late => e.root < root
        /\ at = "inside" => \A i \in DOMAIN registry :
              i =< Fr.registry => (registry[i].late => registry[i].root < root)

Contexts ==
    /\ \A r \in Root : at # "error" /\ roots[r].claims # <<>> =>
          /\ roots[r].parent = DirectivesBefore(r)
          /\ roots[r].context = Append(roots[r].parent, <<r, roots[r].first>>)
    /\ at = "enter" => /\ R.parent = DirectivesBefore(root)
                       /\ context = R.parent /\ Fr.context = context

Heads    == [r \in Root |-> roots[r].head]
Bodies   == [r \in Root |-> roots[r].body]
Less(s)  == [s EXCEPT ![root] = <<>>]
Extends(s, t) == Len(s) =< Len(t) /\ SubSeq(t, 1, Len(s)) = s

Logs ==
    /\ at # "error" => log = FlattenSeq(Heads) \o FlattenSeq(Bodies)
    /\ at = "error" => log = <<>>
    /\ at = "enter" => /\ Fr.log = FlattenSeq(Less(Heads))
                       /\ \A i \in DOMAIN ranked : Extends(Fr.log, ranked[i].state)
    /\ at = "inside" => Fr.log = FlattenSeq(Heads) \o FlattenSeq(Less(Bodies))

(* A call of root r found the one declaration that the registry still has, *)
(* unless one of its name came late for it; or a declaration that is gone  *)
(* and, being of header n at the latest, does not come back; or none.      *)
Locals(E, name)     == {e \in E : e.name = name /\ e.scope = "local"}
Lately(e, r, stale) == e.late /\ (e.root > r \/ (e.root = r /\ stale))
Right(E, call, r, x) ==
    /\ x.name = call.name
    /\ x.scope = "local" \/ \A d \in Locals(E, call.name) : Lately(d, r, call.stale)
CallOK(E, call, r, n) ==
    \/ /\ call.found = {}
       /\ \A e \in E : e.name = call.name => Lately(e, r, call.stale)
    \/ \E x \in call.found : x.by =< n /\ call.found = {x} /\ (x \in E => Right(E, call, r, x))

(* A memoized call, if it is made now.                                     *)
Again(m) == [name |-> m.name, found |-> m.found, stale |-> TRUE]

Calls ==
    at # "error" =>
        /\ \A r \in Root : \A call \in roots[r].calls : CallOK(Range(registry), call, r, declared)
        /\ \A m \in memo : CallOK(Range(registry), Again(m), root, declared)

PassesInv == /\ Types /\ Registry /\ Progress /\ Histories /\ Contexts /\ DirectivesScoped
             /\ Logs /\ Calls

-----------------------------------------------------------------------------
(* Induction up to a number, and functions defined by recursion on it.     *)
LEMMA UpTo ==
    ASSUME NEW n \in Nat, NEW S, 0 \in S, \A i \in 1 .. n : i - 1 \in S => i \in S
    PROVE  0 .. n \subseteq S
  <1> DEFINE T == {i \in 0 .. n : i \notin S}
  <1> SUFFICES ASSUME T # {} PROVE FALSE
    OBVIOUS
  <1>1. \E x \in T : \A y \in T : ~(<<y, x>> \in OpToRel(<, Nat))
    <2>1. T \subseteq Nat
      OBVIOUS
    <2> HIDE DEF T
    <2> QED BY <2>1, NatLessThanWellFounded, WFMin
  <1>2. \A x, y \in Nat : <<y, x>> \in OpToRel(<, Nat) <=> y < x
    BY DEF OpToRel
  <1>3. PICK x \in T : \A y \in T : ~(<<y, x>> \in OpToRel(<, Nat))
    BY <1>1
  <1>4. x \in 1 .. n /\ x - 1 \in 0 .. n
    OBVIOUS
  <1>5. x - 1 \notin T
    <2>1. x \in Nat /\ x - 1 \in Nat /\ x - 1 < x
      BY <1>4
    <2>2. <<x - 1, x>> \in OpToRel(<, Nat)
      BY <1>2, <2>1
    <2> HIDE DEF T
    <2> QED BY <1>3, <2>2
  <1> QED BY <1>4, <1>5

Steps(step, n, X) == n \in Nat /\ step \in [X \X (1 .. n) -> X]
Recurs(f, step, n, X, base) ==
    /\ f \in [0 .. n -> X]
    /\ f[0] = base /\ \A i \in 1 .. n : f[i] = step[<<f[i - 1], i>>]

LEMMA Recursion ==
    ASSUME NEW n, NEW X, NEW base \in X, NEW step, Steps(step, n, X)
    PROVE  \E f : Recurs(f, step, n, X, base)
  <1> USE DEF Steps
  <1> DEFINE Fits(f, k) == \A i \in 0 .. k :
                               f[i] = IF i = 0 THEN base ELSE step[<<f[i - 1], i>>]
             S == {k \in 0 .. n : \E f \in [0 .. k -> X] : Fits(f, k)}
  <1>1. 0 \in S
    <2> DEFINE f == [i \in 0 .. 0 |-> base]
    <2>1. f \in [0 .. 0 -> X] /\ \A i \in 0 .. 0 : f[i] = base /\ i = 0
      OBVIOUS
    <2> HIDE DEF f
    <2>2. Fits(f, 0)
      BY <2>1
    <2>3. \E h \in [0 .. 0 -> X] : Fits(h, 0)
      BY <2>1, <2>2
    <2>4. 0 \in 0 .. n
      OBVIOUS
    <2> HIDE DEF Fits
    <2> QED BY <2>3, <2>4
  <1>2. ASSUME NEW k \in 1 .. n, k - 1 \in S PROVE k \in S
    <2>1. PICK f \in [0 .. k - 1 -> X] : Fits(f, k - 1)
      BY <1>2
    <2> DEFINE g == [i \in 0 .. k |-> IF i = k THEN step[<<f[k - 1], k>>] ELSE f[i]]
    <2>2. f[k - 1] \in X /\ step[<<f[k - 1], k>>] \in X
      OBVIOUS
    <2>3. g \in [0 .. k -> X]
      BY <2>2
    <2>4. ASSUME NEW i \in 0 .. k
          PROVE  g[i] = IF i = 0 THEN base ELSE step[<<g[i - 1], i>>]
      <3>1. CASE i = k
        <4>1. g[k] = step[<<f[k - 1], k>>] /\ g[k - 1] = f[k - 1] /\ k # 0
          OBVIOUS
        <4> HIDE DEF g
        <4> QED BY <3>1, <4>1
      <3>2. CASE i # k
        <4>1. i \in 0 .. k - 1 /\ g[i] = f[i] /\ (i # 0 => g[i - 1] = f[i - 1])
          BY <3>2
        <4>2. f[i] = IF i = 0 THEN base ELSE step[<<f[i - 1], i>>]
          BY <2>1, <4>1
        <4> HIDE DEF g
        <4> QED BY <4>1, <4>2
      <3> QED BY <3>1, <3>2
    <2> HIDE DEF g
    <2> QED BY <2>3, <2>4
  <1>3. n \in S
    <2> HIDE DEF S
    <2>1. \A i \in 1 .. n : i - 1 \in S => i \in S
      BY <1>2
    <2>2. 0 .. n \subseteq S
      BY <1>1, <2>1, UpTo
    <2> QED BY <2>2
  <1>4. PICK f \in [0 .. n -> X] : Fits(f, n)
    BY <1>3
  <1>5. \A i \in 0 .. n : f[i] = IF i = 0 THEN base ELSE step[<<f[i - 1], i>>]
    BY <1>4
  <1>6. 0 \in 0 .. n /\ \A i \in 1 .. n : i \in 0 .. n /\ i # 0
    OBVIOUS
  <1>7. f[0] = base /\ \A i \in 1 .. n : f[i] = step[<<f[i - 1], i>>]
    BY <1>5, <1>6
  <1> QED BY <1>7 DEF Recurs

-----------------------------------------------------------------------------
(* FlattenSeq, by its prefixes.                                            *)
Flattens(f, s) ==
    /\ f[1] = s[1]
    /\ \A i \in 2 .. Len(s) : f[i] = f[i - 1] \o s[i]

LEMMA FlattenIs ==
    ASSUME NEW X, NEW s \in Seq(Seq(X)), s # <<>>
    PROVE  \E f \in [1 .. Len(s) -> Seq(X)] : Flattens(f, s) /\ FlattenSeq(s) = f[Len(s)]
  <1> DEFINE n == Len(s)
             step == [p \in Seq(X) \X (1 .. n) |-> p[1] \o s[p[2]]]
             Eq(g) == g = [i \in 1 .. n |-> IF i = 1 THEN s[i] ELSE g[i - 1] \o s[i]]
             f == CHOOSE g : Eq(g)
  <1>1. n \in Nat /\ n >= 1 /\ \A i \in 1 .. n : s[i] \in Seq(X)
    BY EmptySeq, LenProperties, ElementOfSeq
  <1>2. FlattenSeq(s) = f[n]
    BY <1>1 DEF FlattenSeq
  <1>3. ASSUME NEW h, Eq(h) PROVE Eq(f)
    <2> HIDE DEF Eq
    <2> QED BY <1>3
  <1> HIDE DEF f, n
  <1>4. step \in [Seq(X) \X (1 .. n) -> Seq(X)]
    <2>1. ASSUME NEW a \in Seq(X), NEW i \in 1 .. n PROVE a \o s[i] \in Seq(X)
      BY <1>1, ConcatProperties
    <2> QED BY <2>1
  <1>5. \E g : Recurs(g, step, n, Seq(X), <<>>)
    <2>1. <<>> \in Seq(X)
      BY EmptySeq
    <2>2. Steps(step, n, Seq(X))
      BY <1>1, <1>4 DEF Steps
    <2> HIDE DEF step
    <2> QED BY <2>1, <2>2, Recursion
  <1>6. PICK g \in [0 .. n -> Seq(X)] :
            g[0] = <<>> /\ \A i \in 1 .. n : g[i] = step[<<g[i - 1], i>>]
    <2> HIDE DEF step
    <2> QED BY <1>5 DEF Recurs
  <1>7. \A i \in 1 .. n : g[i] = g[i - 1] \o s[i]
    <2> SUFFICES ASSUME NEW i \in 1 .. n PROVE g[i] = g[i - 1] \o s[i]
      OBVIOUS
    <2>1. i - 1 \in 0 .. n
      BY <1>1
    <2>2. g[i - 1] \in Seq(X)
      BY <2>1
    <2> QED BY <1>6, <2>2
  <1> HIDE DEF step
  <1> DEFINE h == [i \in 1 .. n |-> g[i]]
  <1>8. h = [i \in 1 .. n |-> IF i = 1 THEN s[i] ELSE h[i - 1] \o s[i]]
    <2>1. ASSUME NEW i \in 1 .. n PROVE h[i] = IF i = 1 THEN s[i] ELSE h[i - 1] \o s[i]
      <3>1. CASE i = 1
        <4> HIDE DEF h
        <4>3. 1 \in 1 .. n /\ 1 - 1 = 0
          BY <1>1
        <4>4. g[1] = g[1 - 1] \o s[1]
          BY <1>7, <4>3
        <4>1. g[1] = <<>> \o s[1] /\ s[1] \in Seq(X)
          BY <1>1, <1>6, <4>3, <4>4
        <4>2. g[1] = s[1]
          BY <4>1, ConcatEmptySeq
        <4> QED BY <3>1, <4>2 DEF h
      <3>2. CASE i # 1
        <4>1. i - 1 \in 1 .. n
          BY <1>1, <3>2
        <4>2. h[i - 1] = g[i - 1] /\ h[i] = g[i]
          BY <4>1
        <4> HIDE DEF h
        <4> QED BY <1>7, <3>2, <4>2
      <3> QED BY <3>1, <3>2
    <2>2. DOMAIN h = 1 .. n
      OBVIOUS
    <2>3. h = [i \in 1 .. n |-> h[i]]
      OBVIOUS
    <2> HIDE DEF h
    <2> QED BY <2>1, <2>3
  <1>9. f = [i \in 1 .. n |-> IF i = 1 THEN s[i] ELSE f[i - 1] \o s[i]]
    <2>1. Eq(h)
      BY <1>8
    <2>2. Eq(f)
      <3> HIDE DEF h, Eq
      <3> QED BY <1>3, <2>1
    <2> QED BY <2>2
  <1>10. f[1] = s[1] /\ \A i \in 2 .. n : f[i] = f[i - 1] \o s[i]
    <2>1. \A i \in 1 .. n : f[i] = IF i = 1 THEN s[i] ELSE f[i - 1] \o s[i]
      BY <1>9
    <2>2. 1 \in 1 .. n /\ \A i \in 2 .. n : i \in 1 .. n /\ i # 1
      BY <1>1
    <2> QED BY <2>1, <2>2
  <1> DEFINE S == {0} \cup {i \in 1 .. n : f[i] \in Seq(X)}
  <1>11. ASSUME NEW i \in 1 .. n, i - 1 \in S PROVE i \in S
    <2>1. CASE i = 1
      BY <1>1, <1>10, <2>1
    <2>2. CASE i # 1
      <3>1. i \in 2 .. n /\ f[i - 1] \in Seq(X) /\ s[i] \in Seq(X)
        BY <1>1, <1>11, <2>2
      <3>2. f[i] \in Seq(X)
        BY <1>10, <3>1, ConcatProperties
      <3> QED BY <3>2
    <2> QED BY <2>1, <2>2
  <1>12. 0 .. n \subseteq S
    <2>1. 0 \in S
      OBVIOUS
    <2> HIDE DEF S
    <2> QED BY <1>1, <1>11, <2>1, UpTo
  <1>13. \A i \in 1 .. n : f[i] \in Seq(X)
    <2>1. \A i \in 1 .. n : i \in 0 .. n /\ i # 0
      BY <1>1
    <2>2. \A i \in S : i # 0 => f[i] \in Seq(X)
      OBVIOUS
    <2> HIDE DEF S
    <2> QED BY <1>12, <2>1, <2>2
  <1>14. f \in [1 .. n -> Seq(X)]
    <2>1. f = [i \in 1 .. n |-> f[i]]
      BY <1>9
    <2> HIDE DEF S
    <2> QED BY <1>13, <2>1
  <1> QED BY <1>2, <1>10, <1>14 DEF Flattens, n

LEMMA FlattenEmpty == FlattenSeq(<<>>) = <<>>
  BY DEF FlattenSeq

LEMMA FlattenType ==
    ASSUME NEW X, NEW s \in Seq(Seq(X))
    PROVE  FlattenSeq(s) \in Seq(X)
  <1>1. CASE s = <<>>
    BY <1>1, FlattenEmpty, EmptySeq
  <1>2. CASE s # <<>>
    <2>1. Len(s) \in 1 .. Len(s)
      BY <1>2, EmptySeq
    <2>2. PICK f \in [1 .. Len(s) -> Seq(X)] : FlattenSeq(s) = f[Len(s)]
      BY <1>2, FlattenIs
    <2>3. f[Len(s)] \in Seq(X)
      BY <2>1
    <2> QED BY <2>2, <2>3
  <1> QED BY <1>1, <1>2

Agree(s, t, k) ==
    /\ k \in Nat /\ Len(s) \in Nat /\ Len(t) \in Nat
    /\ k =< Len(s) /\ k =< Len(t) /\ \A i \in 1 .. k : s[i] = t[i]

Same(f, g, k) == \A i \in 1 .. k : f[i] = g[i]

LEMMA PrefixesAgree ==
    ASSUME NEW s, NEW t, NEW f, NEW g, Flattens(f, s), Flattens(g, t), NEW k, Agree(s, t, k)
    PROVE  Same(f, g, k)
  <1> USE DEF Agree, Same
  <1> DEFINE S == {0} \cup {i \in 1 .. k : f[i] = g[i]}
  <1>1. ASSUME NEW i \in 1 .. k, i - 1 \in S PROVE i \in S
    <2>1. CASE i = 1
      BY <2>1 DEF Flattens
    <2>2. CASE i # 1
      <3>1. i \in 2 .. Len(s) /\ i \in 2 .. Len(t) /\ f[i - 1] = g[i - 1]
        BY <1>1, <2>2
      <3> QED BY <3>1 DEF Flattens
    <2> QED BY <2>1, <2>2
  <1>2. 0 .. k \subseteq S
    <2>1. 0 \in S
      OBVIOUS
    <2> HIDE DEF S
    <2> QED BY <1>1, <2>1, UpTo
  <1> QED BY <1>2

LEMMA FlattenAppend ==
    ASSUME NEW X, NEW s \in Seq(Seq(X)), NEW x \in Seq(X)
    PROVE  FlattenSeq(Append(s, x)) = FlattenSeq(s) \o x
  <1> DEFINE t == Append(s, x)
             n == Len(s)
  <1>1. t \in Seq(Seq(X)) /\ Len(t) = n + 1 /\ t[n + 1] = x /\ \A i \in 1 .. n : t[i] = s[i]
    BY AppendProperties
  <1>2. n \in Nat
    BY LenProperties
  <1> HIDE DEF t, n
  <1>3. t # <<>>
    BY <1>1, <1>2, EmptySeq
  <1>4. PICK g \in [1 .. n + 1 -> Seq(X)] : Flattens(g, t) /\ FlattenSeq(t) = g[n + 1]
    BY <1>1, <1>3, FlattenIs
  <1>5. CASE s = <<>>
    <2>1. n = 0
      BY <1>5, EmptySeq DEF n
    <2>2. g[1] = x
      BY <1>1, <1>4, <2>1 DEF Flattens
    <2>3. <<>> \o x = x
      BY ConcatEmptySeq
    <2> QED BY <1>4, <1>5, <2>1, <2>2, <2>3, FlattenEmpty DEF t
  <1>6. CASE s # <<>>
    <2>1. PICK f \in [1 .. n -> Seq(X)] : Flattens(f, s) /\ FlattenSeq(s) = f[n]
      BY <1>6, FlattenIs DEF n
    <2>2. n >= 1
      BY <1>2, <1>6, EmptySeq DEF n
    <2>3. \A i \in 1 .. n : f[i] = g[i]
      <3>1. Agree(s, t, n)
        BY <1>1, <1>2 DEF n, Agree
      <3>2. Same(f, g, n)
        BY <1>4, <2>1, <3>1, PrefixesAgree
      <3> QED BY <3>2 DEF Same
    <2>4. n \in 1 .. n /\ n + 1 \in 2 .. Len(t) /\ (n + 1) - 1 = n
      BY <1>1, <1>2, <2>2
    <2>5. g[n + 1] = g[n] \o x
      BY <1>1, <1>4, <2>4 DEF Flattens
    <2> QED BY <1>4, <2>1, <2>3, <2>4, <2>5 DEF t
  <1> QED BY <1>5, <1>6

(* What the last sequence that is not empty adds.                          *)
LEMMA FlattenLast ==
    ASSUME NEW X, NEW s \in Seq(Seq(X)), NEW k \in 1 .. Len(s),
           \A j \in k + 1 .. Len(s) : s[j] = <<>>
    PROVE  FlattenSeq(s) = FlattenSeq([s EXCEPT ![k] = <<>>]) \o s[k]
  <1> DEFINE t == [s EXCEPT ![k] = <<>>]
             n == Len(s)
  <1>1. /\ t \in Seq(Seq(X)) /\ Len(t) = n
        /\ \A i \in 1 .. n : t[i] = IF i = k THEN <<>> ELSE s[i]
    <2>1. <<>> \in Seq(X)
      BY EmptySeq
    <2> QED BY <2>1, ExceptSeq
  <1>2. n \in Nat /\ k \in 1 .. n /\ n >= 1
    BY LenProperties
  <1>3. \A j \in k + 1 .. n : s[j] = <<>>
    OBVIOUS
  <1>4. \A i \in 1 .. n : s[i] \in Seq(X)
    BY ElementOfSeq
  <1> HIDE DEF t, n
  <1>5. s # <<>> /\ t # <<>>
    BY <1>1, <1>2, EmptySeq DEF n
  <1>6. PICK f \in [1 .. n -> Seq(X)] : Flattens(f, s) /\ FlattenSeq(s) = f[n]
    BY <1>5, FlattenIs DEF n
  <1>7. PICK g \in [1 .. n -> Seq(X)] : Flattens(g, t) /\ FlattenSeq(t) = g[n]
    BY <1>1, <1>5, FlattenIs
  <1>8. f[1] = s[1] /\ \A i \in 2 .. n : f[i] = f[i - 1] \o s[i]
    BY <1>6 DEF Flattens, n
  <1>9. g[1] = t[1] /\ \A i \in 2 .. n : g[i] = g[i - 1] \o t[i]
    BY <1>1, <1>7 DEF Flattens
  <1>10. f[k] = g[k] \o s[k]
    <2>1. CASE k = 1
      <3>1. g[1] = <<>>
        BY <1>1, <1>2, <1>9, <2>1
      <3>2. <<>> \o s[k] = s[k]
        BY <1>2, <1>4, ConcatEmptySeq
      <3> QED BY <1>8, <2>1, <3>1, <3>2
    <2>2. CASE k # 1
      <3>1. k \in 2 .. n /\ k - 1 \in 1 .. n /\ k - 1 \in 1 .. k - 1
        BY <1>2, <2>2
      <3>2. f[k] = f[k - 1] \o s[k] /\ g[k] = g[k - 1] \o <<>>
        BY <1>1, <1>2, <1>8, <1>9, <3>1
      <3>3. \A i \in 1 .. k - 1 : f[i] = g[i]
        <4>1. k - 1 \in Nat /\ k - 1 =< Len(s) /\ k - 1 =< Len(t)
          BY <1>1, <1>2, <3>1 DEF n
        <4>2. ASSUME NEW i \in 1 .. k - 1 PROVE s[i] = t[i]
          <5>1. i \in 1 .. n /\ i # k
            BY <1>2
          <5> QED BY <1>1, <5>1
        <4>3. Agree(s, t, k - 1)
          BY <1>1, <1>2, <4>1, <4>2 DEF Agree, n
        <4>4. Same(f, g, k - 1)
          BY <1>6, <1>7, <4>3, PrefixesAgree
        <4> QED BY <4>4 DEF Same
      <3>4. g[k - 1] \in Seq(X)
        BY <3>1
      <3>5. g[k - 1] \o <<>> = g[k - 1]
        BY <3>4, ConcatEmptySeq
      <3> QED BY <3>1, <3>2, <3>3, <3>5
    <2> QED BY <2>1, <2>2
  <1> DEFINE S == {i \in 0 .. n : i >= k => f[i] = g[i] \o s[k]}
  <1>11. ASSUME NEW i \in 1 .. n, i - 1 \in S PROVE i \in S
    <2>1. CASE i < k
      BY <1>2, <2>1
    <2>2. CASE i = k
      BY <1>2, <1>10, <2>2
    <2>3. CASE i > k
      <3>1. i \in 2 .. n /\ i \in k + 1 .. n /\ i - 1 \in 1 .. n
        BY <1>2, <2>3
      <3>7. s[i] = <<>> /\ t[i] = <<>>
        BY <1>1, <1>3, <3>1
      <3>2. f[i] = f[i - 1] \o <<>> /\ g[i] = g[i - 1] \o <<>>
        BY <1>8, <1>9, <3>1, <3>7
      <3>3. f[i - 1] \in Seq(X) /\ g[i - 1] \in Seq(X)
        BY <3>1
      <3>4. f[i] = f[i - 1] /\ g[i] = g[i - 1]
        BY <3>2, <3>3, ConcatEmptySeq
      <3>8. i - 1 >= k
        BY <1>2, <2>3
      <3>5. f[i - 1] = g[i - 1] \o s[k]
        BY <1>11, <3>8
      <3>6. f[i] = g[i] \o s[k] /\ i \in 0 .. n
        BY <3>4, <3>5
      <3> QED BY <3>6
    <2> QED BY <1>2, <2>1, <2>2, <2>3
  <1>12. 0 .. n \subseteq S
    <2>1. 0 \in S
      BY <1>2
    <2> HIDE DEF S
    <2> QED BY <1>2, <1>11, <2>1, UpTo
  <1>13. f[n] = g[n] \o s[k]
    <2>1. n \in S /\ n >= k
      <3> HIDE DEF S
      <3> QED BY <1>2, <1>12
    <2> QED BY <2>1
  <1> QED BY <1>6, <1>7, <1>13 DEF t

-----------------------------------------------------------------------------
(* The registry.                                                           *)
State == [log : Work, registry : Seq(Entry), order : Nat, ok : BOOLEAN]
Added(t, d, late) == [name |-> d.name, scope |-> d.scope, span |-> d.span, order |-> t.order,
                      root |-> root, by |-> declared + 1, late |-> late]

(* One declaration.                                                        *)
Taking(t, u, d, late) ==
    \/ /\ t.ok /\ ~Taken(t.registry, d)
       /\ u = [log |-> t.log, registry |-> Append(t.registry, Added(t, d, late)),
               order |-> t.order + 1, ok |-> TRUE]
    \/ u = [log |-> t.log, registry |-> t.registry, order |-> t.order, ok |-> FALSE]

LEMMA RegisterIs ==
    ASSUME NEW t \in State, NEW d \in Decl, NEW late \in BOOLEAN, root \in Root, declared \in Nat
    PROVE  Register(t, d, late) \in State /\ Taking(t, Register(t, d, late), d, late)
  <1>1. t = [log |-> t.log, registry |-> t.registry, order |-> t.order, ok |-> t.ok]
    BY DEF State
  <1>2. t.log \in Work /\ t.registry \in Seq(Entry) /\ t.order \in Nat /\ t.ok \in BOOLEAN
    BY DEF State
  <1>3. Added(t, d, late) \in Entry
    BY <1>2 DEF Added, Entry, Decl
  <1>4. Append(t.registry, Added(t, d, late)) \in Seq(Entry)
    BY <1>2, <1>3, AppendProperties
  <1>5. CASE t.ok /\ ~Taken(t.registry, d)
    <2>1. Register(t, d, late) = [log |-> t.log, order |-> t.order + 1, ok |-> TRUE,
                                  registry |-> Append(t.registry, Added(t, d, late))]
      <3>1. Register(t, d, late) = [t EXCEPT !.order = t.order + 1,
                                             !.registry = Append(@, Added(t, d, late))]
        BY <1>5 DEF Register, OrderOf, Added
      <3>2. t.ok = TRUE
        BY <1>2, <1>5
      <3> QED BY <1>1, <3>1, <3>2
    <2> QED BY <1>2, <1>4, <1>5, <2>1 DEF Taking, State
  <1>6. CASE ~(t.ok /\ ~Taken(t.registry, d))
    <2>1. Register(t, d, late) = [log |-> t.log, registry |-> t.registry, order |-> t.order,
                                  ok |-> FALSE]
      <3>1. Register(t, d, late) = [t EXCEPT !.ok = FALSE]
        BY <1>6 DEF Register
      <3> QED BY <1>1, <3>1
    <2> QED BY <1>2, <2>1 DEF Taking, State
  <1> QED BY <1>5, <1>6

Registers(f, s, ds, late) ==
    /\ f[0] = s
    /\ \A i \in 1 .. Len(ds) : f[i] = Register(f[i - 1], ds[i], late)

LEMMA RegisteredIs ==
    ASSUME NEW s \in State, NEW ds \in Seq(Decl), NEW late \in BOOLEAN, root \in Root,
           declared \in Nat
    PROVE  \E f : /\ Registers(f, s, ds, late) /\ Registered(s, ds, late) = f[Len(ds)]
                  /\ \A i \in 0 .. Len(ds) : f[i] \in State
  <1> DEFINE n == Len(ds)
             step == [p \in State \X (1 .. n) |-> Register(p[1], ds[p[2]], late)]
             Eq(g) == g = [i \in 0 .. n |-> IF i = 0 THEN s ELSE Register(g[i - 1], ds[i], late)]
             f == CHOOSE g : Eq(g)
  <1>1. n \in Nat /\ \A i \in 1 .. n : ds[i] \in Decl
    BY LenProperties, ElementOfSeq
  <1>2. Registered(s, ds, late) = f[n]
    BY DEF Registered
  <1>3. ASSUME NEW h, Eq(h) PROVE Eq(f)
    <2> HIDE DEF Eq
    <2> QED BY <1>3
  <1> HIDE DEF f, n
  <1>4. step \in [State \X (1 .. n) -> State]
    <2>1. ASSUME NEW a \in State, NEW i \in 1 .. n PROVE Register(a, ds[i], late) \in State
      BY <1>1, RegisterIs
    <2> QED BY <2>1
  <1>5. \E g : Recurs(g, step, n, State, s)
    <2>1. Steps(step, n, State)
      BY <1>1, <1>4 DEF Steps
    <2> HIDE DEF step
    <2> QED BY <2>1, Recursion
  <1>6. PICK g \in [0 .. n -> State] :
            g[0] = s /\ \A i \in 1 .. n : g[i] = step[<<g[i - 1], i>>]
    <2> HIDE DEF step
    <2> QED BY <1>5 DEF Recurs
  <1>7. \A i \in 1 .. n : g[i] = Register(g[i - 1], ds[i], late)
    <2> SUFFICES ASSUME NEW i \in 1 .. n PROVE g[i] = Register(g[i - 1], ds[i], late)
      OBVIOUS
    <2>1. i - 1 \in 0 .. n
      BY <1>1
    <2>2. g[i - 1] \in State
      BY <2>1
    <2> QED BY <1>6, <2>2
  <1> HIDE DEF step
  <1>8. Eq(g)
    <2>1. ASSUME NEW i \in 0 .. n
          PROVE  g[i] = IF i = 0 THEN s ELSE Register(g[i - 1], ds[i], late)
      BY <1>1, <1>6, <1>7
    <2>2. g = [i \in 0 .. n |-> g[i]]
      OBVIOUS
    <2> QED BY <2>1, <2>2
  <1>9. Eq(f)
    <2> HIDE DEF Eq
    <2> QED BY <1>3, <1>8
  <1>10. \A i \in 0 .. n : f[i] = IF i = 0 THEN s ELSE Register(f[i - 1], ds[i], late)
    BY <1>9
  <1> HIDE DEF Eq
  <1>11. f[0] = s /\ \A i \in 1 .. n : f[i] = Register(f[i - 1], ds[i], late)
    <2>1. 0 \in 0 .. n /\ \A i \in 1 .. n : i \in 0 .. n /\ i # 0
      BY <1>1
    <2> QED BY <1>10, <2>1
  <1> DEFINE S == {i \in 0 .. n : f[i] \in State}
  <1>12. ASSUME NEW i \in 1 .. n, i - 1 \in S PROVE i \in S
    <2>1. f[i - 1] \in State /\ i \in 0 .. n
      BY <1>12
    <2>2. Register(f[i - 1], ds[i], late) \in State
      BY <1>1, <2>1, RegisterIs
    <2> QED BY <1>11, <2>1, <2>2
  <1>13. 0 .. n \subseteq S
    <2>1. 0 \in S
      BY <1>1, <1>11
    <2> HIDE DEF S
    <2> QED BY <1>1, <1>12, <2>1, UpTo
  <1>14. \A i \in 0 .. n : f[i] \in State
    BY <1>13
  <1>15. Registers(f, s, ds, late)
    BY <1>11 DEF Registers, n
  <1> HIDE DEF S
  <1> QED BY <1>2, <1>14, <1>15 DEF n

(* What registering leaves of what there was, and what it adds.            *)
Grown(s, t, late) ==
    /\ t.log = s.log /\ s.order =< t.order /\ Len(s.registry) =< Len(t.registry)
    /\ \A j \in 1 .. Len(s.registry) : t.registry[j] = s.registry[j]
    /\ \A j \in Len(s.registry) + 1 .. Len(t.registry) :
          /\ t.registry[j].root = root /\ t.registry[j].late = late
          /\ t.registry[j].by = declared + 1
    /\ Numbered(t.registry, t.order)

News(s, t) == {DeclOf(t.registry[j]) : j \in Len(s.registry) + 1 .. Len(t.registry)}

LEMMA TakingGrows ==
    ASSUME NEW s \in State, NEW t \in State, NEW u \in State, NEW d \in Decl,
           NEW late \in BOOLEAN, root \in Root, declared \in Nat, Grown(s, t, late),
           Taking(t, u, d, late)
    PROVE  /\ Grown(s, u, late)
           /\ u.ok => t.ok /\ News(s, u) = News(s, t) \cup {d}
  <1> DEFINE e == Added(t, d, late)
  <1>1. /\ s.registry \in Seq(Entry) /\ t.registry \in Seq(Entry)
        /\ s.order \in Nat /\ t.order \in Nat
    BY DEF State
  <1>2. CASE u = [log |-> t.log, registry |-> t.registry, order |-> t.order, ok |-> FALSE]
    <2>1. u.log = t.log /\ u.registry = t.registry /\ u.order = t.order /\ ~u.ok
      BY <1>2
    <2> QED BY <2>1 DEF Grown
  <1>3. CASE /\ t.ok /\ ~Taken(t.registry, d)
             /\ u = [log |-> t.log, registry |-> Append(t.registry, Added(t, d, late)),
                     order |-> t.order + 1, ok |-> TRUE]
    <2>1. u.log = t.log /\ u.registry = Append(t.registry, e) /\ u.order = t.order + 1
      BY <1>3
    <2>2. /\ e \in Entry /\ e.root = root /\ e.late = late /\ e.order = t.order
          /\ e.name = d.name /\ e.scope = d.scope /\ e.by = declared + 1 /\ DeclOf(e) = d
      BY <1>1 DEF Added, Entry, Decl, DeclOf
    <2> DEFINE m == Len(t.registry)
               l == Len(s.registry)
    <2>3. m \in Nat /\ l \in Nat
      BY <1>1, LenProperties
    <2>4. Len(u.registry) = m + 1 /\ u.registry[m + 1] = e
          /\ \A j \in 1 .. m : u.registry[j] = t.registry[j]
      BY <1>1, <2>1, <2>2, AppendProperties
    <2>5. DOMAIN u.registry = 1 .. m + 1 /\ DOMAIN t.registry = 1 .. m
      <3>1. u.registry \in Seq(Entry)
        BY DEF State
      <3> QED BY <1>1, <2>4, <3>1, LenProperties
    <2>6. \A j \in 1 .. m : /\ t.registry[j] \in Entry
                            /\ t.registry[j].order \in Nat
      <3>1. \A j \in 1 .. m : t.registry[j] \in Entry
        BY <1>1, ElementOfSeq
      <3> QED BY <3>1 DEF Entry
    <2> HIDE DEF e, m, l
    <2>7. /\ t.log = s.log /\ s.order =< t.order /\ l =< m
          /\ \A j \in 1 .. l : t.registry[j] = s.registry[j]
          /\ \A j \in l + 1 .. m :
                /\ t.registry[j].root = root /\ t.registry[j].late = late
                /\ t.registry[j].by = declared + 1
          /\ Numbered(t.registry, t.order)
      BY DEF Grown, m, l
    <2>8. \A j \in 1 .. m : /\ t.registry[j].order < t.order
                            /\ <<t.registry[j].name, t.registry[j].scope>> # <<e.name, e.scope>>
      <3> SUFFICES ASSUME NEW j \in 1 .. m
                   PROVE  /\ t.registry[j].order < t.order
                          /\ <<t.registry[j].name, t.registry[j].scope>> # <<e.name, e.scope>>
        OBVIOUS
      <3>1. t.registry[j] \in Range(t.registry)
        BY <2>5 DEF Range
      <3> QED BY <1>3, <2>2, <2>5, <2>7, <3>1 DEF Taken, Numbered
    <2>9. Numbered(u.registry, u.order)
      <3>1. ASSUME NEW i \in 1 .. m + 1, NEW j \in 1 .. m + 1, i < j
            PROVE  /\ u.registry[i].order < u.registry[j].order
                   /\ <<u.registry[i].name, u.registry[i].scope>>
                          # <<u.registry[j].name, u.registry[j].scope>>
        <4>1. i \in 1 .. m
          BY <2>3, <3>1
        <4>2. CASE j = m + 1
          BY <2>2, <2>4, <2>8, <4>1, <4>2
        <4>3. CASE j # m + 1
          <5>1. j \in 1 .. m
            BY <2>3, <4>3
          <5> QED BY <2>4, <2>5, <2>7, <3>1, <4>1, <5>1 DEF Numbered
        <4> QED BY <4>2, <4>3
      <3>2. ASSUME NEW i \in 1 .. m + 1 PROVE u.registry[i].order < u.order
        <4>1. CASE i = m + 1
          BY <1>1, <2>1, <2>2, <2>4, <4>1
        <4>2. CASE i # m + 1
          <5>1. i \in 1 .. m
            BY <2>3, <4>2
          <5> QED BY <1>1, <2>1, <2>4, <2>6, <2>8, <5>1
        <4> QED BY <4>1, <4>2
      <3> QED BY <2>5, <3>1, <3>2 DEF Numbered
    <2>10. Grown(s, u, late)
      <3>1. u.log = s.log /\ s.order =< u.order /\ l =< m + 1
        BY <1>1, <2>1, <2>3, <2>7
      <3>2. ASSUME NEW j \in 1 .. l PROVE u.registry[j] = s.registry[j]
        <4>1. j \in 1 .. m
          BY <2>3, <2>7
        <4> QED BY <2>4, <2>7, <4>1
      <3>3. ASSUME NEW j \in l + 1 .. m + 1
            PROVE  /\ u.registry[j].root = root /\ u.registry[j].late = late
                   /\ u.registry[j].by = declared + 1
        <4>1. CASE j = m + 1
          BY <2>2, <2>4, <2>7, <4>1
        <4>2. CASE j # m + 1
          <5>1. j \in l + 1 .. m /\ j \in 1 .. m
            BY <2>3, <4>2
          <5> QED BY <2>4, <2>7, <5>1
        <4> QED BY <4>1, <4>2
      <3> QED BY <2>4, <2>9, <3>1, <3>2, <3>3 DEF Grown, l
    <2>11. News(s, u) = News(s, t) \cup {d}
      <3>1. \A j : j \in l + 1 .. m + 1 <=> j \in l + 1 .. m \/ j = m + 1
        BY <2>3, <2>7
      <3>2. \A j \in l + 1 .. m : u.registry[j] = t.registry[j]
        BY <2>3, <2>4
      <3>3. DeclOf(u.registry[m + 1]) = d
        BY <2>2, <2>4
      <3>4. News(s, u) = {DeclOf(u.registry[j]) : j \in l + 1 .. m + 1}
        BY <2>4 DEF News, l
      <3>5. News(s, t) = {DeclOf(t.registry[j]) : j \in l + 1 .. m}
        BY DEF News, l, m
      <3> QED BY <3>1, <3>2, <3>3, <3>4, <3>5
    <2> QED BY <1>3, <2>10, <2>11
  <1> QED BY <1>2, <1>3 DEF Taking

LEMMA RegisteredGrows ==
    ASSUME NEW s \in State, NEW ds \in Seq(Decl), NEW late \in BOOLEAN, root \in Root,
           declared \in Nat, Numbered(s.registry, s.order)
    PROVE  LET t == Registered(s, ds, late) IN
           /\ t \in State /\ Grown(s, t, late)
           /\ t.ok => News(s, t) = Range(ds)
  <1> DEFINE n == Len(ds)
  <1>1. PICK f : /\ Registers(f, s, ds, late) /\ Registered(s, ds, late) = f[n]
                 /\ \A i \in 0 .. n : f[i] \in State
    BY RegisteredIs
  <1>2. n \in Nat /\ DOMAIN ds = 1 .. n /\ \A i \in 1 .. n : ds[i] \in Decl
    BY LenProperties, ElementOfSeq
  <1>3. f[0] = s /\ \A i \in 1 .. n : f[i] = Register(f[i - 1], ds[i], late)
    BY <1>1 DEF Registers
  <1> HIDE DEF n
  <1> DEFINE Part(i) == {ds[k] : k \in 1 .. i}
             Good(i) == Grown(s, f[i], late) /\ (f[i].ok => News(s, f[i]) = Part(i))
             S == {i \in 0 .. n : Good(i)}
  <1>4. Good(0)
    <2>1. Grown(s, s, late)
      <3>1. s.order \in Nat /\ Len(s.registry) \in Nat
        BY LenProperties DEF State
      <3> QED BY <3>1 DEF Grown
    <2>2. News(s, s) = {}
      <3>1. Len(s.registry) \in Nat
        BY LenProperties DEF State
      <3> QED BY <3>1 DEF News
    <2> QED BY <1>3, <2>1, <2>2
  <1>5. ASSUME NEW i \in 1 .. n, Good(i - 1) PROVE Good(i)
    <2>1. i - 1 \in 0 .. n /\ i \in 0 .. n
      BY <1>2
    <2>2. f[i - 1] \in State /\ f[i] \in State /\ ds[i] \in Decl
      BY <1>1, <1>2, <2>1
    <2>3. Taking(f[i - 1], f[i], ds[i], late)
      BY <1>3, <2>2, RegisterIs
    <2>4. /\ Grown(s, f[i], late)
          /\ f[i].ok => f[i - 1].ok /\ News(s, f[i]) = News(s, f[i - 1]) \cup {ds[i]}
      BY <1>5, <2>2, <2>3, TakingGrows
    <2>5. Part(i) = Part(i - 1) \cup {ds[i]}
      <3>1. \A k : k \in 1 .. i <=> k \in 1 .. i - 1 \/ k = i
        BY <1>2
      <3> QED BY <3>1
    <2> HIDE DEF Part
    <2> QED BY <1>5, <2>4, <2>5
  <1> HIDE DEF Good
  <1>6. 0 .. n \subseteq S
    <2>1. 0 \in S
      BY <1>2, <1>4
    <2>2. ASSUME NEW i \in 1 .. n, i - 1 \in S PROVE i \in S
      BY <1>2, <1>5, <2>2
    <2> HIDE DEF S
    <2> QED BY <1>2, <2>1, <2>2, UpTo
  <1>7. Good(n) /\ f[n] \in State
    <2>1. n \in 0 .. n
      BY <1>2
    <2> QED BY <1>1, <1>6, <2>1
  <1>8. Part(n) = Range(ds)
    BY <1>2 DEF Range
  <1> HIDE DEF Part
  <1> QED BY <1>1, <1>7, <1>8 DEF Good

(* The registry without what has the span of the root.                     *)
Keeps(f, reg) ==
    /\ f[0] = <<>>
    /\ \A i \in 1 .. Len(reg) :
          f[i] = IF reg[i].span = root THEN f[i - 1] ELSE Append(f[i - 1], reg[i])

LEMMA DiscardedIs ==
    ASSUME NEW reg \in Seq(Entry)
    PROVE  \E f : /\ Keeps(f, reg) /\ Discarded(reg) = f[Len(reg)]
                  /\ \A i \in 0 .. Len(reg) : f[i] \in Seq(Entry)
  <1> DEFINE n == Len(reg)
             With(a, i) == IF reg[i].span = root THEN a ELSE Append(a, reg[i])
             step == [p \in Seq(Entry) \X (1 .. n) |-> With(p[1], p[2])]
             Eq(g) == g = [i \in 0 .. n |-> IF i = 0 THEN <<>> ELSE With(g[i - 1], i)]
             f == CHOOSE g : Eq(g)
  <1>1. n \in Nat /\ \A i \in 1 .. n : reg[i] \in Entry
    BY LenProperties, ElementOfSeq
  <1>2. Discarded(reg) = f[n]
    BY DEF Discarded
  <1>3. ASSUME NEW h, Eq(h) PROVE Eq(f)
    <2> HIDE DEF Eq
    <2> QED BY <1>3
  <1>4. ASSUME NEW a \in Seq(Entry), NEW i \in 1 .. n PROVE With(a, i) \in Seq(Entry)
    BY <1>1, AppendProperties
  <1>5. <<>> \in Seq(Entry)
    BY EmptySeq
  <1> HIDE DEF f, n, With
  <1>6. step \in [Seq(Entry) \X (1 .. n) -> Seq(Entry)]
    BY <1>4
  <1>7. \E g : Recurs(g, step, n, Seq(Entry), <<>>)
    <2>1. Steps(step, n, Seq(Entry))
      BY <1>1, <1>6 DEF Steps
    <2> HIDE DEF step
    <2> QED BY <1>5, <2>1, Recursion
  <1>8. PICK g \in [0 .. n -> Seq(Entry)] :
            g[0] = <<>> /\ \A i \in 1 .. n : g[i] = step[<<g[i - 1], i>>]
    <2> HIDE DEF step
    <2> QED BY <1>7 DEF Recurs
  <1>9. \A i \in 1 .. n : g[i] = With(g[i - 1], i)
    <2> SUFFICES ASSUME NEW i \in 1 .. n PROVE g[i] = With(g[i - 1], i)
      OBVIOUS
    <2>1. i - 1 \in 0 .. n
      BY <1>1
    <2>2. g[i - 1] \in Seq(Entry)
      BY <2>1
    <2> QED BY <1>8, <2>2
  <1> HIDE DEF step
  <1>10. Eq(g)
    <2>1. ASSUME NEW i \in 0 .. n
          PROVE  g[i] = IF i = 0 THEN <<>> ELSE With(g[i - 1], i)
      BY <1>1, <1>8, <1>9
    <2>2. g = [i \in 0 .. n |-> g[i]]
      OBVIOUS
    <2> QED BY <2>1, <2>2
  <1>11. Eq(f)
    <2> HIDE DEF Eq
    <2> QED BY <1>3, <1>10
  <1>12. \A i \in 0 .. n : f[i] = IF i = 0 THEN <<>> ELSE With(f[i - 1], i)
    BY <1>11
  <1> HIDE DEF Eq
  <1>13. f[0] = <<>> /\ \A i \in 1 .. n : f[i] = With(f[i - 1], i)
    <2>1. 0 \in 0 .. n /\ \A i \in 1 .. n : i \in 0 .. n /\ i # 0
      BY <1>1
    <2> QED BY <1>12, <2>1
  <1> DEFINE S == {i \in 0 .. n : f[i] \in Seq(Entry)}
  <1>14. ASSUME NEW i \in 1 .. n, i - 1 \in S PROVE i \in S
    <2>1. f[i - 1] \in Seq(Entry) /\ i \in 0 .. n
      BY <1>14
    <2> QED BY <1>4, <1>13, <2>1
  <1>15. 0 .. n \subseteq S
    <2>1. 0 \in S
      <3>1. f[0] \in Seq(Entry)
        BY <1>5, <1>13, Zenon
      <3>2. 0 \in 0 .. n
        BY <1>1
      <3> QED BY <3>1, <3>2
    <2> HIDE DEF S
    <2> QED BY <1>1, <1>14, <2>1, UpTo
  <1>16. \A i \in 0 .. n : f[i] \in Seq(Entry)
    BY <1>15
  <1>17. Keeps(f, reg)
    BY <1>13 DEF Keeps, n, With
  <1> HIDE DEF S
  <1> QED BY <1>2, <1>16, <1>17 DEF n

LEMMA RangeAppend ==
    ASSUME NEW X, NEW s \in Seq(X), NEW x \in X
    PROVE  Range(Append(s, x)) = Range(s) \cup {x}
  <1> DEFINE t == Append(s, x)
  <1>1. /\ Len(s) \in Nat /\ DOMAIN s = 1 .. Len(s) /\ DOMAIN t = 1 .. Len(s) + 1
        /\ t[Len(s) + 1] = x /\ \A i \in 1 .. Len(s) : t[i] = s[i]
    <2>1. t \in Seq(X) /\ Len(t) = Len(s) + 1
      BY AppendProperties
    <2> QED BY <2>1, LenProperties, AppendProperties
  <1> HIDE DEF t
  <1>2. \A i : i \in DOMAIN t <=> i \in DOMAIN s \/ i = Len(s) + 1
    BY <1>1
  <1>3. \A i \in DOMAIN s : t[i] = s[i]
    BY <1>1
  <1>4. Range(t) = Range(s) \cup {x}
    BY <1>1, <1>2, <1>3 DEF Range
  <1> QED BY <1>4 DEF t

LEMMA DiscardedLaws ==
    ASSUME NEW reg \in Seq(Entry), NEW n, Numbered(reg, n)
    PROVE  /\ Discarded(reg) \in Seq(Entry) /\ Numbered(Discarded(reg), n)
           /\ Range(Discarded(reg)) = {e \in Range(reg) : e.span # root}
  <1> DEFINE m == Len(reg)
  <1>1. PICK f : /\ Keeps(f, reg) /\ Discarded(reg) = f[m]
                 /\ \A i \in 0 .. m : f[i] \in Seq(Entry)
    BY DiscardedIs
  <1>2. m \in Nat /\ DOMAIN reg = 1 .. m /\ \A i \in 1 .. m : reg[i] \in Entry
    BY LenProperties, ElementOfSeq
  <1>3. /\ f[0] = <<>>
        /\ \A i \in 1 .. m : f[i] = IF reg[i].span = root THEN f[i - 1] ELSE Append(f[i - 1], reg[i])
    BY <1>1 DEF Keeps
  <1>4. /\ \A i, j \in 1 .. m : i < j =>
              /\ reg[i].order < reg[j].order
              /\ <<reg[i].name, reg[i].scope>> # <<reg[j].name, reg[j].scope>>
        /\ \A i \in 1 .. m : reg[i].order < n
    BY <1>2 DEF Numbered
  <1> HIDE DEF m
  <1> DEFINE Of(i) == {e \in {reg[j] : j \in 1 .. i} : e.span # root}
             Good(i) == Range(f[i]) = Of(i) /\ Numbered(f[i], n)
             S == {i \in 0 .. m : Good(i)}
  <1>5. Good(0)
    <2>1. DOMAIN f[0] = {}
      BY <1>3
    <2> QED BY <2>1 DEF Range, Numbered
  <1>6. ASSUME NEW i \in 1 .. m, Good(i - 1) PROVE Good(i)
    <2>1. \A j : j \in 1 .. i <=> j \in 1 .. i - 1 \/ j = i
      BY <1>2
    <2>2. CASE reg[i].span = root
      <3>1. Of(i) = Of(i - 1)
        BY <2>1, <2>2
      <3> QED BY <1>3, <1>6, <2>2, <3>1
    <2>3. CASE reg[i].span # root
      <3>1. Of(i) = Of(i - 1) \cup {reg[i]}
        BY <2>1, <2>3
      <3> DEFINE a == f[i - 1]
                 k == Len(a)
                 b == Append(a, reg[i])
      <3>2. a \in Seq(Entry) /\ reg[i] \in Entry /\ f[i] = b
        <4>1. i - 1 \in 0 .. m
          BY <1>2
        <4>2. f[i] = b
          BY <1>3, <2>3, Zenon
        <4> HIDE DEF b
        <4> QED BY <1>1, <1>2, <4>1, <4>2
      <3>3. Range(a) = Of(i - 1) /\ Numbered(a, n)
        BY <1>6
      <3> HIDE DEF a, Of
      <3>4. Range(b) = Of(i)
        BY <3>1, <3>2, <3>3, RangeAppend
      <3>5. /\ k \in Nat /\ DOMAIN a = 1 .. k /\ DOMAIN b = 1 .. k + 1
            /\ b[k + 1] = reg[i] /\ \A j \in 1 .. k : b[j] = a[j]
        <4>1. b \in Seq(Entry) /\ Len(b) = k + 1
          BY <3>2, AppendProperties
        <4> QED BY <3>2, <4>1, LenProperties, AppendProperties
      <3> HIDE DEF k, b
      <3>6. ASSUME NEW j \in 1 .. k
            PROVE  /\ a[j].order < reg[i].order
                   /\ <<a[j].name, a[j].scope>> # <<reg[i].name, reg[i].scope>>
        <4>1. a[j] \in Of(i - 1)
          BY <3>3, <3>5 DEF Range
        <4>2. PICK l \in 1 .. i - 1 : a[j] = reg[l]
          BY <4>1 DEF Of
        <4>3. l \in 1 .. m /\ l < i
          BY <1>2
        <4> QED BY <1>4, <4>2, <4>3
      <3>8. \A x, y \in 1 .. k : x < y => /\ a[x].order < a[y].order
                                         /\ <<a[x].name, a[x].scope>> # <<a[y].name, a[y].scope>>
        BY <3>3, <3>5 DEF Numbered
      <3>7. Numbered(b, n)
        <4>1. ASSUME NEW p \in 1 .. k + 1, NEW q \in 1 .. k + 1, p < q
              PROVE  /\ b[p].order < b[q].order
                     /\ <<b[p].name, b[p].scope>> # <<b[q].name, b[q].scope>>
          <5>1. p \in 1 .. k
            BY <3>5, <4>1
          <5>2. CASE q = k + 1
            BY <3>5, <3>6, <5>1, <5>2
          <5>3. CASE q # k + 1
            <6>1. q \in 1 .. k
              BY <3>5, <5>3
            <6>2. b[p] = a[p] /\ b[q] = a[q]
              BY <3>5, <5>1, <6>1
            <6> QED BY <3>8, <4>1, <5>1, <6>1, <6>2
          <5> QED BY <5>2, <5>3
        <4>2. ASSUME NEW p \in 1 .. k + 1 PROVE b[p].order < n
          <5>1. CASE p = k + 1
            BY <1>4, <3>5, <5>1
          <5>2. CASE p # k + 1
            <6>1. p \in 1 .. k
              BY <3>5, <5>2
            <6> QED BY <3>3, <3>5, <6>1 DEF Numbered
          <5> QED BY <5>1, <5>2
        <4> QED BY <3>5, <4>1, <4>2 DEF Numbered
      <3> QED BY <3>2, <3>4, <3>7
    <2> QED BY <2>2, <2>3
  <1> HIDE DEF Good
  <1>7. 0 .. m \subseteq S
    <2>1. 0 \in S
      BY <1>2, <1>5
    <2>2. ASSUME NEW i \in 1 .. m, i - 1 \in S PROVE i \in S
      BY <1>2, <1>6, <2>2
    <2> HIDE DEF S
    <2> QED BY <1>2, <2>1, <2>2, UpTo
  <1>8. Good(m) /\ f[m] \in Seq(Entry)
    <2>1. m \in 0 .. m
      BY <1>2
    <2> QED BY <1>1, <1>7, <2>1
  <1>9. Of(m) = {e \in Range(reg) : e.span # root}
    BY <1>2 DEF Range
  <1> HIDE DEF Of
  <1> QED BY <1>1, <1>8, <1>9 DEF Good

(* A savepoint's part of the registry.                                     *)
LEMMA CutLaws ==
    ASSUME NEW reg \in Seq(Entry), NEW k \in Nat, k =< Len(reg), NEW n, NEW l,
           Numbered(reg, n), \A i \in DOMAIN reg : i =< k => reg[i].order < l
    PROVE  LET cut == SubSeq(reg, 1, k) IN
           /\ cut \in Seq(Entry) /\ Len(cut) = k /\ Numbered(cut, l)
           /\ \A i \in 1 .. k : cut[i] = reg[i]
           /\ Range(cut) = {reg[i] : i \in 1 .. k}
  <1> DEFINE cut == SubSeq(reg, 1, k)
  <1>1. Len(reg) \in Nat /\ DOMAIN reg = 1 .. Len(reg) /\ \A i \in 1 .. Len(reg) : reg[i] \in Entry
    BY LenProperties, ElementOfSeq
  <1>2. cut \in Seq(Entry) /\ Len(cut) = k /\ \A i \in 1 .. k : cut[i] = reg[i]
    <2>1. \A i \in 1 .. k : reg[i] \in Entry
      BY <1>1
    <2>2. /\ cut \in Seq(Entry) /\ Len(cut) = IF 1 =< k THEN k - 1 + 1 ELSE 0
          /\ \A i \in 1 .. k - 1 + 1 : cut[i] = reg[1 + i - 1]
      <3> HIDE DEF cut
      <3> QED BY <2>1, SubSeqProperties DEF cut
    <2>3. k - 1 + 1 = k /\ \A i \in 1 .. k : 1 + i - 1 = i
      OBVIOUS
    <2> HIDE DEF cut
    <2> QED BY <2>2, <2>3
  <1> HIDE DEF cut
  <1>3. DOMAIN cut = 1 .. k
    BY <1>2, LenProperties
  <1>4. \A i \in 1 .. k : i \in DOMAIN reg /\ i =< k
    BY <1>1
  <1>5. Numbered(cut, l)
    BY <1>2, <1>3, <1>4 DEF Numbered
  <1>6. Range(cut) = {reg[i] : i \in 1 .. k}
    BY <1>2, <1>3 DEF Range
  <1> QED BY <1>2, <1>5, <1>6 DEF cut

-----------------------------------------------------------------------------
(* Which declarations a registry holds.                                    *)
LEMMA AccountsGrown ==
    ASSUME NEW E, NEW N, NEW D, NEW D2, NEW X, root \in Root, Accounts(E, D, X),
           \A e \in N : e.root = root,
           D[root] = {}, D2[root] = {DeclOf(e) : e \in N},
           \A r \in Root : r # root => D2[r] = D[r]
    PROVE  Accounts(E \cup N, D2, X)
  <1> SUFFICES ASSUME NEW r \in Root PROVE Account(E \cup N, r, D2[r], X)
    BY DEF Accounts
  <1>1. Account(E, r, D[r], X)
    BY DEF Accounts
  <1>2. CASE r = root
    <2>1. ASSUME NEW d \in D2[r] PROVE Held(E \cup N, r, d)
      BY <1>2, <2>1 DEF Held
    <2>2. ASSUME NEW e \in E \cup N, e.root = r
          PROVE  DeclOf(e) \in D2[r] \/ (e.span # r /\ r \in X /\ ~e.late)
      BY <1>1, <1>2, <2>2 DEF Account
    <2> QED BY <2>1, <2>2 DEF Account
  <1>3. CASE r # root
    BY <1>1, <1>3 DEF Account, Held
  <1> QED BY <1>2, <1>3

(* What is left of E once a body of the root is rejected: C are those that *)
(* the savepoint of the body has.                                          *)
Leaves(E, C) ==
    /\ C \subseteq E /\ \A e \in E : e \in C \/ e.root = root
    /\ \A e \in C : e.root = root => ~e.late
    /\ \A e \in E : e.root \in Root

LEMMA AccountsDiscarded ==
    ASSUME NEW E, NEW C, NEW D, NEW D2, NEW X, root \in Root, Accounts(E, D, X), Leaves(E, C),
           D2[root] = {}, \A r \in Root : r # root => D2[r] = D[r]
    PROVE  Accounts({e \in C : e.span # root}, D2, X \cup {root})
  <1> DEFINE Rest == {e \in C : e.span # root}
             Y == X \cup {root}
  <1> SUFFICES ASSUME NEW r \in Root PROVE Account(Rest, r, D2[r], Y)
    BY DEF Accounts
  <1>1. Account(E, r, D[r], X)
    BY DEF Accounts
  <1>2. CASE r = root
    BY <1>2 DEF Account, Leaves
  <1>3. CASE r # root
    <2>1. ASSUME NEW d \in D2[r] PROVE Held(Rest, r, d) \/ d.span \in Y \ {r}
      <3>1. CASE d.span \in X \ {r}
        BY <3>1
      <3>2. CASE Held(E, r, d)
        <4>1. PICK e \in E : e.root = r /\ DeclOf(e) = d
          BY <3>2 DEF Held
        <4>2. e \in C /\ e.span = d.span
          BY <1>3, <4>1 DEF Leaves, DeclOf
        <4>3. CASE e.span = root
          BY <1>3, <4>2, <4>3
        <4>4. CASE e.span # root
          BY <4>1, <4>2, <4>4 DEF Held
        <4> QED BY <4>3, <4>4
      <3> QED BY <1>1, <1>3, <2>1, <3>1, <3>2 DEF Account
    <2>2. ASSUME NEW e \in Rest, e.root = r
          PROVE  DeclOf(e) \in D2[r] \/ (e.span # r /\ r \in Y /\ ~e.late)
      <3>1. e \in E
        BY DEF Leaves
      <3> QED BY <1>1, <1>3, <2>2, <3>1 DEF Account
    <2> QED BY <2>1, <2>2 DEF Account
  <1> QED BY <1>2, <1>3

(* What is left of E once the header of the root faults.                   *)
LEMMA AccountsCut ==
    ASSUME NEW E, NEW C, NEW D, NEW D2, NEW X, root \in Root, Accounts(E, D, X),
           C \subseteq E, \A e \in E : e \in C \/ e.root = root, \A e \in C : e.root # root,
           D2[root] = {}, \A r \in Root : r # root => D2[r] = D[r]
    PROVE  Accounts(C, D2, X)
  <1> SUFFICES ASSUME NEW r \in Root PROVE Account(C, r, D2[r], X)
    BY DEF Accounts
  <1>1. Account(E, r, D[r], X)
    BY DEF Accounts
  <1>2. CASE r = root
    BY <1>2 DEF Account
  <1>3. CASE r # root
    BY <1>1, <1>3 DEF Account, Held
  <1> QED BY <1>2, <1>3

-----------------------------------------------------------------------------
(* Savepoints.                                                             *)
LEMMA WithLog ==
    ASSUME NEW t \in State, NEW x \in Work
    PROVE  /\ [t EXCEPT !.log = x] =
                  [log |-> x, registry |-> t.registry, order |-> t.order, ok |-> t.ok]
           /\ [t EXCEPT !.log = x] \in State
  <1> DEFINE u == [t EXCEPT !.log = x]
  <1>1. t = [log |-> t.log, registry |-> t.registry, order |-> t.order, ok |-> t.ok]
    BY DEF State
  <1>2. /\ DOMAIN u = DOMAIN t /\ u.log = x
        /\ u.registry = t.registry /\ u.order = t.order /\ u.ok = t.ok
    BY <1>1
  <1>3. u = [log |-> x, registry |-> t.registry, order |-> t.order, ok |-> t.ok]
    BY <1>1, <1>2
  <1>4. u \in State
    BY DEF State
  <1> QED BY <1>3, <1>4

LEMMA NowIs ==
    ASSUME log \in Work, registry \in Seq(Entry), order \in Nat, NEW x \in Work
    PROVE  /\ Now \in State /\ Now.log = log /\ Now.registry = registry /\ Now.order = order
           /\ Now.ok = TRUE
           /\ [Now EXCEPT !.log = x] =
                  [log |-> x, registry |-> registry, order |-> order, ok |-> TRUE]
           /\ [Now EXCEPT !.log = x] \in State
  <1>1. /\ Now \in State /\ Now.log = log /\ Now.registry = registry /\ Now.order = order
        /\ Now.ok = TRUE
    BY DEF Now, State
  <1>2. /\ [Now EXCEPT !.log = x] =
                  [log |-> x, registry |-> Now.registry, order |-> Now.order, ok |-> Now.ok]
        /\ [Now EXCEPT !.log = x] \in State
    BY <1>1, WithLog
  <1> QED BY <1>1, <1>2

LEMMA RolledBackIs ==
    ASSUME NEW fr, NEW s \in State
    PROVE  RolledBack(fr, s) = [log |-> fr.log, registry |-> SubSeq(s.registry, 1, fr.registry),
                                order |-> fr.order, ok |-> s.ok]
  <1>1. s = [log |-> s.log, registry |-> s.registry, order |-> s.order, ok |-> s.ok]
    BY DEF State
  <1>2. RolledBack(fr, s) = [s EXCEPT !.log = fr.log, !.order = fr.order,
                                      !.registry = SubSeq(@, 1, fr.registry)]
    BY DEF RolledBack
  <1>3. DOMAIN RolledBack(fr, s) = {"log", "registry", "order", "ok"}
    BY <1>1, <1>2
  <1> QED BY <1>1, <1>2, <1>3

(* What is rolled back to the present savepoint was never done.            *)
LEMMA UndoneNow ==
    ASSUME registry \in Seq(Entry), order \in Nat, log \in Work,
           NEW s \in State, s.registry = registry,
           NEW t \in State, NEW late, Grown(s, t, late)
    PROVE  RolledBack(Saved(context), t) =
               [log |-> log, registry |-> registry, order |-> order, ok |-> t.ok]
  <1> DEFINE l == Len(registry)
             cut == SubSeq(t.registry, 1, l)
  <1>1. /\ l \in Nat /\ Len(t.registry) \in Nat /\ l =< Len(t.registry)
        /\ \A j \in 1 .. l : t.registry[j] = registry[j]
    BY LenProperties DEF State, Grown
  <1>2. t.registry \in Seq(Entry) /\ \A i \in 1 .. Len(t.registry) : t.registry[i] \in Entry
    BY ElementOfSeq DEF State
  <1>3. cut \in Seq(Entry) /\ Len(cut) = l /\ \A i \in 1 .. l : cut[i] = t.registry[i]
    <2>1. \A i \in 1 .. l : t.registry[i] \in Entry
      BY <1>1, <1>2
    <2>2. /\ cut \in Seq(Entry) /\ Len(cut) = IF 1 =< l THEN l - 1 + 1 ELSE 0
          /\ \A i \in 1 .. l - 1 + 1 : cut[i] = t.registry[1 + i - 1]
      <3> HIDE DEF cut, l
      <3> QED BY <1>1, <2>1, SubSeqProperties DEF cut
    <2>3. l - 1 + 1 = l /\ \A i \in 1 .. l : 1 + i - 1 = i
      BY <1>1
    <2> HIDE DEF cut, l
    <2> QED BY <1>1, <2>2, <2>3
  <1> HIDE DEF cut
  <1>4. cut = registry
    BY <1>1, <1>3, SeqEqual
  <1>5. Saved(context).log = log /\ Saved(context).registry = l /\ Saved(context).order = order
    BY DEF Saved
  <1> QED BY <1>4, <1>5, RolledBackIs DEF cut

LEMMA ExtendsIs ==
    ASSUME NEW s \in Work, NEW t \in Work, Extends(s, t)
    PROVE  /\ SubSeq(t, Len(s) + 1, Len(t)) \in Work
           /\ t = s \o SubSeq(t, Len(s) + 1, Len(t))
  <1> USE DEF Work
  <1>1. Len(s) \in Nat /\ Len(t) \in Nat /\ Len(s) =< Len(t) /\ SubSeq(t, 1, Len(s)) = s
    BY LenProperties DEF Extends
  <1>2. SubSeq(t, 1, Len(s)) \o SubSeq(t, Len(s) + 1, Len(t)) = SubSeq(t, 1, Len(t))
    <2>1. 1 \in 1 .. Len(t) + 1 /\ Len(s) \in 1 - 1 .. Len(t) /\ Len(t) \in Len(s) .. Len(t)
      BY <1>1
    <2> QED BY <2>1, ConcatAdjacentSubSeq
  <1>3. SubSeq(t, 1, Len(t)) = t
    BY SubSeqFull
  <1>4. SubSeq(t, Len(s) + 1, Len(t)) \in Seq(Nat)
    <2>1. \A i \in Len(s) + 1 .. Len(t) : t[i] \in Nat
      BY <1>1, ElementOfSeq
    <2>2. Len(s) + 1 \in Int /\ Len(t) \in Int
      BY <1>1
    <2> QED BY <2>1, <2>2, SubSeqProperties
  <1> QED BY <1>1, <1>2, <1>3, <1>4

LEMMA ConcatExtends ==
    ASSUME NEW s \in Work, NEW w \in Work
    PROVE  s \o w \in Work /\ Extends(s, s \o w)
  <1> USE DEF Work
  <1>1. /\ s \o w \in Seq(Nat) /\ Len(s \o w) = Len(s) + Len(w)
        /\ \A i \in 1 .. Len(s) + Len(w) : (s \o w)[i] = IF i <= Len(s) THEN s[i] ELSE w[i - Len(s)]
    BY ConcatProperties
  <1>2. Len(s) \in Nat /\ Len(w) \in Nat
    BY LenProperties
  <1>3. SubSeq(s \o w, 1, Len(s)) = s
    <2>1. CASE Len(s) = 0
      <3>1. SubSeq(s \o w, 1, 0) = <<>>
        BY SubSeqEmpty
      <3>2. s = <<>>
        BY <2>1, EmptySeq
      <3> QED BY <2>1, <3>1, <3>2
    <2>2. CASE Len(s) # 0
      <3>1. 1 \in 1 .. Len(s) /\ Len(s) \in 1 .. Len(s)
        BY <1>2, <2>2
      <3>2. SubSeq(s \o w, 1, Len(s)) = SubSeq(s, 1, Len(s))
        BY <3>1, SubSeqOfConcat1
      <3> QED BY <3>2, SubSeqFull
    <2> QED BY <2>1, <2>2
  <1> QED BY <1>1, <1>2, <1>3 DEF Extends

-----------------------------------------------------------------------------
(* What calls found.                                                       *)
LEMMA EntryOf ==
    ASSUME NEW reg \in Seq(Entry)
    PROVE  \A e \in Range(reg) : e \in Entry /\ \E i \in DOMAIN reg : e = reg[i]
  <1>1. DOMAIN reg = 1 .. Len(reg) /\ \A i \in 1 .. Len(reg) : reg[i] \in Entry
    BY LenProperties, ElementOfSeq
  <1> QED BY <1>1 DEF Range

LEMMA OneEntry ==
    ASSUME NEW reg \in Seq(Entry), NEW n, Numbered(reg, n), NEW d \in Range(reg), NEW e \in Range(reg),
           d.order = e.order \/ (d.name = e.name /\ d.scope = e.scope)
    PROVE  d = e
  <1>1. PICK i \in DOMAIN reg : d = reg[i]
    BY EntryOf
  <1>2. PICK j \in DOMAIN reg : e = reg[j]
    BY EntryOf
  <1>3. d.order \in Nat /\ e.order \in Nat
    BY EntryOf DEF Entry
  <1>4. i \in Nat /\ j \in Nat
    BY LenProperties
  <1>5. ~(i < j) /\ ~(j < i)
    BY <1>1, <1>2, <1>3 DEF Numbered
  <1> QED BY <1>1, <1>2, <1>4, <1>5

LEMMA CallFewer ==
    ASSUME NEW E, NEW F, F \subseteq E, NEW call, NEW r, NEW n, CallOK(E, call, r, n)
    PROVE  CallOK(F, call, r, n)
  <1>1. CASE call.found = {} /\ \A e \in E : e.name = call.name => Lately(e, r, call.stale)
    BY <1>1 DEF CallOK
  <1>2. CASE \E x \in call.found :
                 x.by =< n /\ call.found = {x} /\ (x \in E => Right(E, call, r, x))
    <2>1. PICK x \in call.found : x.by =< n /\ call.found = {x} /\ (x \in E => Right(E, call, r, x))
      BY <1>2
    <2>2. x \in F => Right(F, call, r, x)
      BY <2>1 DEF Right, Locals
    <2> QED BY <2>1, <2>2 DEF CallOK
  <1> QED BY <1>1, <1>2 DEF CallOK

LEMMA CallLater ==
    ASSUME NEW E, NEW call \in Call, NEW r, NEW n \in Nat, NEW m \in Nat, n =< m,
           CallOK(E, call, r, n)
    PROVE  CallOK(E, call, r, m)
  <1>1. \A x \in call.found : x.by \in Nat /\ (x.by =< n => x.by =< m)
    BY DEF Call, Entry
  <1> QED BY <1>1 DEF CallOK

LEMMA CallGrown ==
    ASSUME NEW E, NEW N, NEW call \in Call, NEW r, NEW n \in Nat, CallOK(E, call, r, n),
           \A e \in N : e.by = n + 1 /\ Lately(e, r, call.stale)
    PROVE  CallOK(E \cup N, call, r, n)
  <1>1. CASE call.found = {} /\ \A e \in E : e.name = call.name => Lately(e, r, call.stale)
    BY <1>1 DEF CallOK
  <1>2. CASE \E x \in call.found :
                 x.by =< n /\ call.found = {x} /\ (x \in E => Right(E, call, r, x))
    <2>1. PICK x \in call.found : x.by =< n /\ call.found = {x} /\ (x \in E => Right(E, call, r, x))
      BY <1>2
    <2>2. x \notin N
      <3>1. x.by \in Nat
        BY DEF Call, Entry
      <3> QED BY <2>1, <3>1
    <2>3. x \in E \cup N => Right(E \cup N, call, r, x)
      BY <2>1, <2>2 DEF Right, Locals
    <2> QED BY <2>1, <2>3 DEF CallOK
  <1> QED BY <1>1, <1>2 DEF CallOK

LEMMA CallMade ==
    ASSUME NEW reg \in Seq(Entry), NEW o, Numbered(reg, o), NEW name \in Names, NEW r,
           NEW stale \in BOOLEAN, NEW n, \A e \in Range(reg) : e.by =< n
    PROVE  LET call == [name |-> name, found |-> Lookup(reg, name), stale |-> stale] IN
           call \in Call /\ CallOK(Range(reg), call, r, n)
  <1> DEFINE call == [name |-> name, found |-> Lookup(reg, name), stale |-> stale]
             named == {e \in Range(reg) : e.name = name}
             local == {e \in named : e.scope = "local"}
  <1>1. \A e \in Range(reg) : e \in Entry
    BY EntryOf
  <1>2. Lookup(reg, name) = IF local # {} THEN local ELSE named
    BY DEF Lookup
  <1>3. call \in Call
    BY <1>1, <1>2 DEF Call
  <1>4. call.name = name /\ call.found = Lookup(reg, name)
    OBVIOUS
  <1> HIDE DEF call
  <1>5. CASE named = {}
    <2>1. Lookup(reg, name) = {} /\ \A e \in Range(reg) : e.name # name
      BY <1>2, <1>5
    <2> HIDE DEF named, local
    <2> QED BY <1>3, <1>4, <2>1 DEF CallOK, call
  <1>6. CASE local # {}
    <2>1. PICK e \in local : TRUE
      BY <1>6
    <2>2. e \in Range(reg) /\ e.name = name /\ e.scope = "local" /\ e.by =< n
      BY <2>1
    <2>3. \A d \in local : d = e
      BY <2>1, OneEntry
    <2>4. Lookup(reg, name) = {e}
      BY <1>2, <1>6, <2>1, <2>3
    <2> HIDE DEF named, local
    <2>5. Right(Range(reg), call, r, e)
      BY <1>4, <2>2 DEF Right
    <2>6. CallOK(Range(reg), call, r, n)
      BY <1>4, <2>2, <2>4, <2>5 DEF CallOK
    <2> QED BY <1>3, <2>6 DEF call
  <1>7. CASE named # {} /\ local = {}
    <2>1. PICK e \in named : TRUE
      BY <1>7
    <2>2. \A d \in named : d.scope = "global"
      BY <1>1, <1>7 DEF Entry, Scopes
    <2>3. \A d \in named : d = e
      BY <2>1, <2>2, OneEntry
    <2>4. Lookup(reg, name) = {e} /\ e \in Range(reg) /\ e.name = name /\ e.by =< n
      BY <1>2, <1>7, <2>1, <2>3
    <2>5. Locals(Range(reg), call.name) = {}
      BY <1>4, <1>7 DEF Locals
    <2> HIDE DEF named, local
    <2>6. Right(Range(reg), call, r, e)
      BY <1>4, <2>4, <2>5 DEF Right
    <2>7. CallOK(Range(reg), call, r, n)
      BY <1>4, <2>4, <2>6 DEF CallOK
    <2> QED BY <1>3, <2>7 DEF call
  <1> QED BY <1>5, <1>6, <1>7

(* What CallOK says of the frozen registry.                                *)
LEMMA CallMeans ==
    ASSUME NEW reg \in Seq(Entry), NEW o, Numbered(reg, o), NEW call, NEW r, NEW n,
           CallOK(Range(reg), call, r, n)
    PROVE  \/ call.found = Lookup(reg, call.name)
           \/ ~(call.found \subseteq Range(reg))
           \/ \E e \in Range(reg) : e.name = call.name /\ Lately(e, r, call.stale)
  <1> DEFINE named == {e \in Range(reg) : e.name = call.name}
             local == {e \in named : e.scope = "local"}
  <1>1. SUFFICES ASSUME \A e \in Range(reg) : e.name = call.name => ~Lately(e, r, call.stale),
                        call.found \subseteq Range(reg)
                 PROVE  call.found = Lookup(reg, call.name)
    OBVIOUS
  <1>2. Lookup(reg, call.name) = IF local # {} THEN local ELSE named
    BY DEF Lookup
  <1>3. CASE /\ call.found = {}
             /\ \A e \in Range(reg) : e.name = call.name => Lately(e, r, call.stale)
    <2>1. named = {}
      BY <1>1, <1>3
    <2> QED BY <1>2, <1>3, <2>1
  <1>4. CASE \E x \in call.found : /\ x.by =< n /\ call.found = {x}
                                   /\ x \in Range(reg) => Right(Range(reg), call, r, x)
    <2>1. PICK x \in call.found : /\ call.found = {x}
                                  /\ x \in Range(reg) => Right(Range(reg), call, r, x)
      BY <1>4
    <2>2. x \in Range(reg) /\ Right(Range(reg), call, r, x)
      BY <1>1, <2>1
    <2>3. CASE x.scope = "local"
      <3>1. x \in local /\ \A d \in local : d = x
        BY <2>2, <2>3, OneEntry DEF Right
      <3> QED BY <1>2, <2>1, <3>1
    <2>4. CASE x.scope # "local"
      <3>1. local = {}
        BY <1>1, <2>2, <2>4 DEF Locals, Right
      <3>2. \A d \in named : d.scope = "global"
        BY <3>1, EntryOf DEF Entry, Scopes
      <3>3. x \in named /\ \A d \in named : d = x
        BY <2>2, <3>2, OneEntry DEF Right
      <3> QED BY <1>2, <2>1, <3>1, <3>3
    <2> QED BY <2>3, <2>4
  <1> QED BY <1>3, <1>4 DEF CallOK

-----------------------------------------------------------------------------
(* The work of all the roots, and the directives before one.               *)
HeadsOf(rs)  == [r \in Root |-> rs[r].head]
BodiesOf(rs) == [r \in Root |-> rs[r].body]
Without(s, k) == [s EXCEPT ![k] = <<>>]

LEMMA RootIs == Root = 1 .. Roots /\ Roots \in Nat /\ Roots >= 1
  BY PassesAssumption DEF Root

LEMMA WorkSeqs ==
    ASSUME NEW s \in [Root -> Work]
    PROVE  s \in Seq(Seq(Nat)) /\ Len(s) = Roots /\ s # <<>>
  <1>1. s \in [1 .. Roots -> Seq(Nat)]
    BY RootIs DEF Work
  <1>2. s \in UNION {[1 .. n -> Seq(Nat)] : n \in Nat}
    BY <1>1, RootIs
  <1>3. s \in Seq(Seq(Nat))
    BY <1>2, SeqDef, Zenon
  <1>4. DOMAIN s = 1 .. Roots /\ DOMAIN s = 1 .. Len(s) /\ Len(s) \in Nat
    BY <1>1, <1>3, LenProperties
  <1>5. Len(s) = Roots
    BY <1>4, RootIs
  <1> QED BY <1>3, <1>5, RootIs, EmptySeq

LEMMA FlattenWork ==
    ASSUME NEW s \in [Root -> Work]
    PROVE  FlattenSeq(s) \in Work
  BY WorkSeqs, FlattenType DEF Work

LEMMA FlattenOne ==
    ASSUME NEW s \in [Root -> Work], NEW k \in Root,
           \A j \in Root : j > k => s[j] = <<>>
    PROVE  FlattenSeq(s) = FlattenSeq(Without(s, k)) \o s[k]
  <1>1. s \in Seq(Seq(Nat)) /\ Len(s) = Roots
    BY WorkSeqs
  <1>2. k \in 1 .. Len(s) /\ \A j \in k + 1 .. Len(s) : s[j] = <<>>
    BY <1>1, RootIs
  <1> QED BY <1>1, <1>2, FlattenLast DEF Without

LEMMA FlattenNone ==
    ASSUME NEW s \in [Root -> Work], \A j \in Root : s[j] = <<>>
    PROVE  FlattenSeq(s) = <<>>
  <1>1. PICK f \in [1 .. Roots -> Seq(Nat)] : Flattens(f, s) /\ FlattenSeq(s) = f[Roots]
    BY WorkSeqs, FlattenIs
  <1>2. f[1] = <<>> /\ \A i \in 2 .. Roots : f[i] = f[i - 1] \o <<>>
    <2>1. Len(s) = Roots
      BY WorkSeqs
    <2>2. f[1] = s[1] /\ \A i \in 2 .. Roots : f[i] = f[i - 1] \o s[i]
      BY <1>1, <2>1 DEF Flattens
    <2>3. s[1] = <<>> /\ \A i \in 2 .. Roots : s[i] = <<>>
      BY RootIs
    <2> QED BY <2>2, <2>3
  <1> DEFINE S == {0} \cup {i \in 1 .. Roots : f[i] = <<>>}
  <1>3. ASSUME NEW i \in 1 .. Roots, i - 1 \in S PROVE i \in S
    <2>1. CASE i = 1
      BY <1>2, <2>1
    <2>2. CASE i # 1
      <3>1. i \in 2 .. Roots /\ f[i - 1] = <<>>
        BY <1>3, <2>2
      <3>2. <<>> \o <<>> = <<>>
        OBVIOUS
      <3>3. f[i] = <<>>
        BY <1>2, <3>1, <3>2
      <3> QED BY <3>3
    <2> QED BY <2>1, <2>2
  <1>4. 0 .. Roots \subseteq S
    <2>1. 0 \in S
      OBVIOUS
    <2> HIDE DEF S
    <2> QED BY <1>3, <2>1, UpTo, RootIs
  <1>5. f[Roots] = <<>>
    <2>1. Roots \in S /\ Roots # 0
      <3> HIDE DEF S
      <3> QED BY <1>4, RootIs
    <2> QED BY <2>1
  <1> QED BY <1>1, <1>5

LEMMA EmptyWork == <<>> \in Work /\ \A w \in Work : w \o <<>> = w /\ <<>> \o w = w
  BY EmptySeq, ConcatEmptySeq DEF Work

LEMMA WorkJoin ==
    \A a, b, c \in Work : a \o b \in Work /\ (a \o b) \o c = a \o (b \o c)
  BY SMTT(30), ConcatProperties, ConcatAssociative DEF Work

(* One root's record is replaced.                                          *)
Replaced(rs, new, k) ==
    /\ HeadsOf(rs) \in [Root -> Work] /\ BodiesOf(rs) \in [Root -> Work]
    /\ HeadsOf(new) \in [Root -> Work] /\ BodiesOf(new) \in [Root -> Work]
    /\ Without(HeadsOf(rs), k) \in [Root -> Work] /\ Without(BodiesOf(rs), k) \in [Root -> Work]
    /\ Without(HeadsOf(new), k) = Without(HeadsOf(rs), k)
    /\ Without(BodiesOf(new), k) = Without(BodiesOf(rs), k)
    /\ new[k].head = rs[k].head => HeadsOf(new) = HeadsOf(rs)
    /\ new[k].body = rs[k].body => BodiesOf(new) = BodiesOf(rs)
    /\ new[k].head = <<>> => HeadsOf(new) = Without(HeadsOf(rs), k)
    /\ new[k].body = <<>> => BodiesOf(new) = Without(BodiesOf(rs), k)
    /\ rs[k].head = <<>> => HeadsOf(rs) = Without(HeadsOf(rs), k)
    /\ rs[k].body = <<>> => BodiesOf(rs) = Without(BodiesOf(rs), k)

LEMMA RootsChanged ==
    ASSUME NEW rs \in [Root -> Claim], NEW new \in [Root -> Claim], NEW k \in Root,
           \A r \in Root : r # k => new[r] = rs[r]
    PROVE  Replaced(rs, new, k)
  <1>1. \A x \in Claim : x.head \in Work /\ x.body \in Work
    BY DEF Claim
  <1>2. /\ HeadsOf(rs) \in [Root -> Work] /\ BodiesOf(rs) \in [Root -> Work]
        /\ HeadsOf(new) \in [Root -> Work] /\ BodiesOf(new) \in [Root -> Work]
    BY <1>1 DEF HeadsOf, BodiesOf
  <1>3. /\ Without(HeadsOf(rs), k) = [r \in Root |-> IF r = k THEN <<>> ELSE rs[r].head]
        /\ Without(BodiesOf(rs), k) = [r \in Root |-> IF r = k THEN <<>> ELSE rs[r].body]
        /\ Without(HeadsOf(new), k) = [r \in Root |-> IF r = k THEN <<>> ELSE new[r].head]
        /\ Without(BodiesOf(new), k) = [r \in Root |-> IF r = k THEN <<>> ELSE new[r].body]
    BY DEF HeadsOf, BodiesOf, Without
  <1>4. /\ Without(HeadsOf(new), k) = Without(HeadsOf(rs), k)
        /\ Without(BodiesOf(new), k) = Without(BodiesOf(rs), k)
    BY <1>3
  <1>5. /\ Without(HeadsOf(rs), k) \in [Root -> Work]
        /\ Without(BodiesOf(rs), k) \in [Root -> Work]
    BY <1>1, <1>3, EmptyWork
  <1>6. /\ new[k].head = rs[k].head => HeadsOf(new) = HeadsOf(rs)
        /\ new[k].body = rs[k].body => BodiesOf(new) = BodiesOf(rs)
    BY DEF HeadsOf, BodiesOf
  <1>7. /\ new[k].head = <<>> => HeadsOf(new) = Without(HeadsOf(rs), k)
        /\ new[k].body = <<>> => BodiesOf(new) = Without(BodiesOf(rs), k)
    BY <1>3 DEF HeadsOf, BodiesOf
  <1>8. /\ rs[k].head = <<>> => HeadsOf(rs) = Without(HeadsOf(rs), k)
        /\ rs[k].body = <<>> => BodiesOf(rs) = Without(BodiesOf(rs), k)
    BY <1>3 DEF HeadsOf, BodiesOf
  <1> QED BY <1>2, <1>4, <1>5, <1>6, <1>7, <1>8 DEF Replaced

One(rs, q)        == IF rs[q].directive THEN <<<<q, rs[q].first>>>> ELSE <<>>
Directives(rs, r) == [q \in 1 .. r - 1 |-> One(rs, q)]
DirectivesOf(rs, r) == FlattenSeq(Directives(rs, r))

LEMMA DirectivesAre == \A r : DirectivesBefore(r) = DirectivesOf(roots, r)
  BY DEF DirectivesBefore, DirectivesOf, Directives, One

LEMMA DirectivesSame ==
    ASSUME NEW rs, NEW new, NEW r \in Root,
           \A q \in Root : q < r => /\ new[q].directive = rs[q].directive
                                    /\ new[q].first = rs[q].first
    PROVE  DirectivesOf(new, r) = DirectivesOf(rs, r)
  <1>1. \A q \in 1 .. r - 1 : q \in Root /\ q < r
    BY RootIs
  <1>2. \A q \in 1 .. r - 1 : One(new, q) = One(rs, q)
    BY <1>1 DEF One
  <1>3. Directives(new, r) = Directives(rs, r)
    BY <1>2 DEF Directives
  <1> QED BY <1>3 DEF DirectivesOf

LEMMA OneType ==
    ASSUME NEW rs \in [Root -> Claim], NEW q \in Root
    PROVE  One(rs, q) \in Ctx /\ <<q, rs[q].first>> \in Root \X Nat
  <1>1. <<q, rs[q].first>> \in Root \X Nat
    BY DEF Claim
  <1>2. <<<<q, rs[q].first>>>> \in Ctx /\ <<>> \in Ctx
    BY <1>1 DEF Ctx
  <1> QED BY <1>1, <1>2 DEF One

LEMMA DirectivesType ==
    ASSUME NEW rs \in [Root -> Claim], NEW r \in Root
    PROVE  /\ Directives(rs, r) \in Seq(Ctx) /\ Len(Directives(rs, r)) = r - 1
           /\ \A q \in 1 .. r - 1 : Directives(rs, r)[q] = One(rs, q)
           /\ DirectivesOf(rs, r) \in Ctx
  <1> DEFINE s == Directives(rs, r)
  <1>1. r - 1 \in Nat /\ \A q \in 1 .. r - 1 : q \in Root
    BY RootIs
  <1>2. s \in [1 .. r - 1 -> Ctx] /\ \A q \in 1 .. r - 1 : s[q] = One(rs, q)
    BY <1>1, OneType DEF Directives
  <1> HIDE DEF s
  <1>3. s \in UNION {[1 .. n -> Ctx] : n \in Nat}
    BY <1>1, <1>2
  <1>4. s \in Seq(Ctx)
    BY <1>3, SeqDef, Zenon
  <1>5. Len(s) = r - 1
    <2>1. DOMAIN s = 1 .. Len(s) /\ Len(s) \in Nat
      BY <1>4, LenProperties
    <2>2. DOMAIN s = 1 .. r - 1
      BY <1>2
    <2> QED BY <1>1, <2>1, <2>2
  <1>6. FlattenSeq(s) \in Ctx
    BY <1>4, FlattenType DEF Ctx
  <1> QED BY <1>2, <1>4, <1>5, <1>6 DEF DirectivesOf, s

LEMMA DirectivesNext ==
    ASSUME NEW rs \in [Root -> Claim], NEW r \in Root, r + 1 \in Root
    PROVE  DirectivesOf(rs, r + 1) = IF rs[r].directive
                                     THEN Append(DirectivesOf(rs, r), <<r, rs[r].first>>)
                                     ELSE DirectivesOf(rs, r)
  <1> DEFINE s == Directives(rs, r)
             t == Directives(rs, r + 1)
             x == One(rs, r)
  <1>1. /\ s \in Seq(Ctx) /\ Len(s) = r - 1
        /\ \A q \in 1 .. r - 1 : s[q] = One(rs, q)
    BY DirectivesType
  <1>2. /\ t \in Seq(Ctx) /\ Len(t) = r + 1 - 1
        /\ \A q \in 1 .. r + 1 - 1 : t[q] = One(rs, q)
    <2> DEFINE n == r + 1
    <2>1. n \in Root
      OBVIOUS
    <2> HIDE DEF n
    <2>2. /\ Directives(rs, n) \in Seq(Ctx) /\ Len(Directives(rs, n)) = n - 1
          /\ \A q \in 1 .. n - 1 : Directives(rs, n)[q] = One(rs, q)
      BY <2>1, DirectivesType
    <2> QED BY <2>2 DEF n
  <1>3. r \in Nat /\ r >= 1 /\ r + 1 - 1 = r
    BY RootIs
  <1>4. x \in Ctx /\ <<r, rs[r].first>> \in Root \X Nat
    BY OneType
  <1>5. FlattenSeq(s) = DirectivesOf(rs, r) /\ FlattenSeq(t) = DirectivesOf(rs, r + 1)
    BY DEF DirectivesOf
  <1>6. t = Append(s, x)
    <2> DEFINE u == Append(s, x)
    <2>1. /\ u \in Seq(Ctx) /\ Len(u) = r /\ u[r] = x
          /\ \A i \in 1 .. r - 1 : u[i] = s[i]
      <3> HIDE DEF s, x
      <3> QED BY <1>1, <1>3, <1>4, AppendProperties
    <2> HIDE DEF u
    <2>2. ASSUME NEW i \in 1 .. r PROVE t[i] = u[i]
      <3>1. CASE i = r
        <4>1. t[r] = x
          BY <1>2, <1>3
        <4> QED BY <2>1, <3>1, <4>1
      <3>2. CASE i # r
        <4>1. i \in 1 .. r - 1
          BY <1>3, <3>2
        <4>2. t[i] = One(rs, i) /\ u[i] = One(rs, i)
          BY <1>1, <1>2, <1>3, <2>1, <4>1
        <4> QED BY <4>2
      <3> QED BY <3>1, <3>2
    <2>3. Len(t) = Len(u) /\ \A i \in 1 .. Len(t) : t[i] = u[i]
      BY <1>2, <1>3, <2>1, <2>2
    <2> HIDE DEF t
    <2>4. t = u
      BY <1>2, <2>1, <2>3, SeqEqual
    <2> QED BY <2>4 DEF u
  <1> HIDE DEF s, t, x
  <1>7. FlattenSeq(t) = FlattenSeq(s) \o x
    BY <1>1, <1>4, <1>6, FlattenAppend DEF Ctx
  <1>8. FlattenSeq(s) \in Ctx
    BY <1>1, FlattenType DEF Ctx
  <1>9. CASE rs[r].directive
    <2>1. x = <<<<r, rs[r].first>>>>
      BY <1>9 DEF x, One
    <2>2. FlattenSeq(s) \o <<<<r, rs[r].first>>>> = Append(FlattenSeq(s), <<r, rs[r].first>>)
      BY <1>4, <1>8, AppendIsConcat DEF Ctx
    <2> QED BY <1>5, <1>7, <1>9, <2>1, <2>2
  <1>10. CASE ~rs[r].directive
    <2>1. x = <<>>
      BY <1>10 DEF x, One
    <2>2. FlattenSeq(s) \o <<>> = FlattenSeq(s)
      BY <1>8, ConcatEmptySeq DEF Ctx
    <2> QED BY <1>5, <1>7, <1>10, <2>1, <2>2
  <1> QED BY <1>9, <1>10

LEMMA DirectivesFirst == ASSUME NEW rs PROVE DirectivesOf(rs, 1) = <<>>
  <1>1. Directives(rs, 1) = <<>>
    BY DEF Directives
  <1> QED BY <1>1, FlattenEmpty DEF DirectivesOf

-----------------------------------------------------------------------------
(* What an action changes of the roots.                                    *)
OnlyRoot == roots' \in [Root -> Claim] /\ \A r \in Root : r # root => roots'[r] = roots[r]

LEMMA Changed ==
    ASSUME roots \in [Root -> Claim], root \in Root, OnlyRoot
    PROVE  /\ Heads \in [Root -> Work] /\ Bodies \in [Root -> Work]
           /\ Heads' \in [Root -> Work] /\ Bodies' \in [Root -> Work]
           /\ Less(Heads) \in [Root -> Work] /\ Less(Bodies) \in [Root -> Work]
           /\ Without(Heads', root) = Less(Heads) /\ Without(Bodies', root) = Less(Bodies)
           /\ Heads'[root] = roots'[root].head /\ Bodies'[root] = roots'[root].body
           /\ roots'[root].head = R.head => Heads' = Heads
           /\ roots'[root].body = R.body => Bodies' = Bodies
           /\ roots'[root].head = <<>> => Heads' = Less(Heads)
           /\ roots'[root].body = <<>> => Bodies' = Less(Bodies)
           /\ R.head = <<>> => Heads = Less(Heads)
           /\ R.body = <<>> => Bodies = Less(Bodies)
  <1>1. Replaced(roots, roots', root)
    BY RootsChanged DEF OnlyRoot
  <1>2. /\ Heads = HeadsOf(roots) /\ Bodies = BodiesOf(roots)
        /\ Heads' = HeadsOf(roots') /\ Bodies' = BodiesOf(roots')
        /\ Less(Heads) = Without(Heads, root) /\ Less(Bodies) = Without(Bodies, root)
    BY DEF Heads, Bodies, HeadsOf, BodiesOf, Less, Without
  <1>3. Heads'[root] = roots'[root].head /\ Bodies'[root] = roots'[root].body
    BY DEF Heads, Bodies
  <1> QED BY <1>1, <1>2, <1>3 DEF Replaced, R

LEMMA DirectivesKept ==
    ASSUME NEW r \in Root,
           \A q \in Root : q < r => /\ roots'[q].directive = roots[q].directive
                                    /\ roots'[q].first = roots[q].first
    PROVE  DirectivesBefore(r)' = DirectivesBefore(r)
  <1>1. DirectivesOf(roots', r) = DirectivesOf(roots, r)
    BY DirectivesSame
  <1>2. DirectivesBefore(r)' = DirectivesOf(roots', r)
    BY DEF DirectivesBefore, DirectivesOf, Directives, One
  <1> QED BY <1>1, <1>2, DirectivesAre

LEMMA RootsSame ==
    ASSUME roots' = roots
    PROVE  /\ Heads' = Heads /\ Bodies' = Bodies
           /\ \A r : DirectivesBefore(r)' = DirectivesBefore(r)
           /\ Declarers' = Declarers /\ Rejected' = Rejected
  BY DEF Heads, Bodies, DirectivesBefore, Declarers, Rejected

LEMMA HistorySame ==
    ASSUME \A r \in Root : /\ roots'[r].declares = roots[r].declares
                           /\ roots'[r].rejected = roots[r].rejected
    PROVE  Declarers' = Declarers /\ Rejected' = Rejected
  BY DEF Declarers, Rejected

(* The log when the bodies from the root on are empty, and the work of the *)
(* roots after it.                                                         *)
LEMMA LogOfHeaders ==
    ASSUME Types, OnlyRoot, \A r \in Root : roots'[r].body = <<>>,
           \A r \in Root : r > root => roots'[r].head = <<>>
    PROVE  /\ FlattenSeq(Bodies') = <<>> /\ FlattenSeq(Less(Heads)) \in Work
           /\ FlattenSeq(Heads') = FlattenSeq(Less(Heads)) \o roots'[root].head
           /\ FlattenSeq(Heads') \o FlattenSeq(Bodies') =
                  FlattenSeq(Less(Heads)) \o roots'[root].head
  <1>1. /\ Heads' \in [Root -> Work] /\ Bodies' \in [Root -> Work]
        /\ Less(Heads) \in [Root -> Work] /\ Without(Heads', root) = Less(Heads)
        /\ Heads'[root] = roots'[root].head
    BY Changed DEF Types
  <1>2. /\ \A r \in Root : Bodies'[r] = <<>>
        /\ \A r \in Root : r > root => Heads'[r] = <<>>
    BY DEF Heads, Bodies
  <1>3. FlattenSeq(Bodies') = <<>>
    BY <1>1, <1>2, FlattenNone
  <1>4. FlattenSeq(Heads') = FlattenSeq(Less(Heads)) \o roots'[root].head
    <2>1. FlattenSeq(Heads') = FlattenSeq(Without(Heads', root)) \o Heads'[root]
      BY <1>1, <1>2, FlattenOne DEF Types
    <2> QED BY <1>1, <2>1
  <1>5. FlattenSeq(Less(Heads)) \in Work /\ FlattenSeq(Heads') \in Work
    BY <1>1, FlattenWork
  <1>6. FlattenSeq(Heads') \o <<>> = FlattenSeq(Heads')
    BY <1>5, EmptyWork
  <1> QED BY <1>3, <1>4, <1>5, <1>6

LEMMA LogOfBodies ==
    ASSUME Types, OnlyRoot, roots'[root].head = R.head,
           \A r \in Root : r > root => roots'[r].body = <<>>
    PROVE  /\ FlattenSeq(Heads) \in Work /\ FlattenSeq(Less(Bodies)) \in Work
           /\ Heads' = Heads
           /\ FlattenSeq(Heads') \o FlattenSeq(Bodies') =
                  (FlattenSeq(Heads) \o FlattenSeq(Less(Bodies))) \o roots'[root].body
  <1>1. /\ Heads \in [Root -> Work] /\ Heads' = Heads /\ Bodies' \in [Root -> Work]
        /\ Less(Bodies) \in [Root -> Work] /\ Without(Bodies', root) = Less(Bodies)
        /\ Bodies'[root] = roots'[root].body
    BY Changed DEF Types
  <1>2. \A r \in Root : r > root => Bodies'[r] = <<>>
    BY DEF Bodies
  <1>3. FlattenSeq(Bodies') = FlattenSeq(Without(Bodies', root)) \o Bodies'[root]
    BY <1>1, <1>2, FlattenOne DEF Types
  <1>4. FlattenSeq(Heads) \in Work /\ FlattenSeq(Less(Bodies)) \in Work
    BY <1>1, FlattenWork
  <1>5. roots'[root].body \in Work
    BY DEF OnlyRoot, Claim, Types
  <1>6. FlattenSeq(Bodies') = FlattenSeq(Less(Bodies)) \o roots'[root].body
    BY <1>1, <1>3
  <1>7. FlattenSeq(Heads) \o (FlattenSeq(Less(Bodies)) \o roots'[root].body) =
            (FlattenSeq(Heads) \o FlattenSeq(Less(Bodies))) \o roots'[root].body
    BY <1>4, <1>5, WorkJoin
  <1> QED BY <1>1, <1>4, <1>6, <1>7

LEMMA SavedIs ==
    ASSUME Types
    PROVE  /\ Saved(context) \in Mark /\ Saved(context).log = log
           /\ Saved(context).registry = Len(registry) /\ Saved(context).order = order
           /\ Saved(context).context = context
           /\ <<Saved(context)>> \in Seq(Mark) /\ Len(<<Saved(context)>>) = 1
           /\ <<Saved(context)>>[1] = Saved(context)
  BY LenProperties DEF Types, Saved, Mark

LEMMA MarkIs ==
    ASSUME Types, at \in {"enter", "inside"}
    PROVE  /\ Fr \in Mark /\ Fr.log \in Work /\ Fr.registry \in Nat /\ Fr.order \in Nat
           /\ Fr.context \in Ctx
  <1>1. 1 \in 1 .. Len(frames)
    BY DEF Types
  <1>2. frames[1] \in Mark
    BY <1>1, ElementOfSeq DEF Types
  <1> QED BY <1>2 DEF Fr, Mark

LEMMA Bounds == MaxWork \in Nat /\ MaxDeclared \in Nat /\ MaxRanked \in Nat
  BY PassesAssumption

LEMMA WorkIs ==
    ASSUME Types, NEW w \in Works
    PROVE  w \in Work /\ works + Len(w) \in 0 .. MaxWork
  <1>1. works \in Nat /\ works =< MaxWork /\ MaxWork \in Nat
    BY Bounds DEF Types
  <1>2. CASE w = <<>>
    <2>1. Len(w) = 0 /\ w \in Work
      BY <1>2, EmptySeq DEF Work
    <2> QED BY <1>1, <2>1
  <1>3. CASE works < MaxWork /\ w = <<works + 1>>
    <2>1. Len(w) = 1 /\ w \in Work
      BY <1>1, <1>3 DEF Work
    <2> QED BY <1>1, <1>3, <2>1
  <1> QED BY <1>2, <1>3 DEF Works

LEMMA DeclarationIs ==
    ASSUME Types, NEW ds \in Declarations
    PROVE  /\ ds \in Seq(Decl)
           /\ declared + (IF ds = <<>> THEN 0 ELSE 1) \in 0 .. MaxDeclared
  <1>1. ds \in Headers /\ (ds = <<>> \/ declared < MaxDeclared)
    BY DEF Declarations
  <1>2. ds \in Seq(Decl)
    BY <1>1, PassesAssumption DEF Decl, Span
  <1>3. declared \in 0 .. MaxDeclared
    BY DEF Types
  <1> QED BY <1>1, <1>2, <1>3, Bounds

-----------------------------------------------------------------------------
(* What declarations and calls become.                                     *)
LEMMA EntriesAre ==
    ASSUME Types
    PROVE  /\ registry \in Seq(Entry) /\ declared \in Nat /\ root \in Nat
           /\ DOMAIN registry = 1 .. Len(registry) /\ Len(registry) \in Nat
           /\ \A i \in DOMAIN registry : registry[i] \in Range(registry)
           /\ \A e \in Range(registry) : /\ e \in Entry /\ e.root \in Root /\ e.root \in Nat
                                         /\ e.by \in Nat
  <1>1. registry \in Seq(Entry) /\ declared \in Nat /\ root \in Nat
    BY Bounds, RootIs DEF Types
  <1>2. \A e \in Range(registry) : e \in Entry
    BY <1>1, EntryOf
  <1> QED BY SMTT(30), <1>1, <1>2, LenProperties, RootIs DEF Entry, Range

LEMMA HistoriesKept ==
    ASSUME PassesInv, at # "error", registry' = registry, declared' \in Nat, declared =< declared',
           Declarers' = Declarers, Rejected' = Rejected,
           FirstPass' => FirstPass /\ memo' = memo,
           at' = "bodies" => \/ FirstPass
                             \/ at \in {"bodies", "inside"} /\ root' = root + 1
                             \/ at = "bodies" /\ root' = root,
           at' = "inside" => root' = root /\ (at = "bodies" \/ (at = "inside" /\ Fr' = Fr))
    PROVE  Histories'
  <1> DEFINE E == Range(registry)
  <1>1. Types /\ Histories
    BY DEF PassesInv
  <1>2. /\ Accounts(E, Declarers, Rejected) /\ \A e \in E : e.by =< declared
        /\ FirstPass => /\ Rejected = {} /\ memo = {} /\ \A e \in E : ~e.late
        /\ at = "bodies" => \A e \in E : e.late => e.root < root
        /\ at = "inside" => \A i \in DOMAIN registry :
              i =< Fr.registry => (registry[i].late => registry[i].root < root)
    BY <1>1 DEF Histories
  <1>3. /\ DOMAIN registry = 1 .. Len(registry) /\ root \in Nat /\ declared \in Nat
        /\ \A e \in E : e.root \in Nat /\ e.by \in Nat
        /\ \A i \in DOMAIN registry : registry[i] \in E
    BY <1>1, EntriesAre
  <1>4. E' = E
    OBVIOUS
  <1>5. \A e \in E : e.by =< declared'
    BY <1>2, <1>3
  <1>6. ASSUME at' = "bodies", NEW e \in E, e.late PROVE e.root < root'
    <2>1. CASE FirstPass
      BY <1>2, <1>6, <2>1
    <2>2. CASE at = "bodies" /\ root' = root
      BY <1>2, <1>6, <2>2
    <2>3. CASE at = "bodies" /\ root' = root + 1
      <3>1. e.root < root
        BY <1>2, <1>6, <2>3
      <3> QED BY <1>3, <2>3, <3>1
    <2>4. CASE at = "inside" /\ root' = root + 1
      <3>1. PICK i \in DOMAIN registry : e = registry[i]
        BY <1>1, <1>6, EntryOf DEF Types
      <3>2. e.root < root \/ e.root = root
        BY <1>2, <1>6, <2>4, <3>1 DEF PassesInv, Registry, Marked
      <3> QED BY <1>3, <2>4, <3>2
    <2> QED BY <1>6, <2>1, <2>2, <2>3, <2>4
  <1>7. ASSUME at' = "inside", NEW i \in DOMAIN registry, i =< Fr'.registry, registry[i].late
        PROVE  registry[i].root < root'
    <2>1. CASE at = "bodies"
      BY <1>2, <1>3, <1>7, <2>1
    <2>2. CASE at = "inside" /\ Fr' = Fr
      BY <1>2, <1>7, <2>2
    <2> QED BY <1>7, <2>1, <2>2
  <1> HIDE DEF E
  <1>8. FirstPass' => /\ Rejected' = {} /\ memo' = {} /\ \A e \in E : ~e.late
    BY <1>2
  <1>9. Accounts(E, Declarers', Rejected')
    BY <1>2
  <1> QED BY <1>4, <1>5, <1>6, <1>7, <1>8, <1>9 DEF Histories, E

LEMMA CallsKept ==
    ASSUME PassesInv, at # "error", Range(registry') \subseteq Range(registry),
           declared' \in Nat, declared =< declared',
           \A r \in Root : roots'[r].calls \subseteq roots[r].calls,
           memo' = {} \/ (memo' = memo /\ root' = root)
    PROVE  Calls'
  <1>1. declared \in Nat
    BY EntriesAre DEF PassesInv
  <1>2. ASSUME NEW call \in Call, NEW r, CallOK(Range(registry), call, r, declared)
        PROVE  CallOK(Range(registry'), call, r, declared')
    <2>1. CallOK(Range(registry), call, r, declared')
      BY <1>1, <1>2, CallLater
    <2> QED BY <2>1, CallFewer
  <1>3. ASSUME NEW r \in Root, NEW call \in roots'[r].calls
        PROVE  CallOK(Range(registry'), call, r, declared')
    <2>1. call \in roots[r].calls
      OBVIOUS
    <2>2. call \in Call /\ CallOK(Range(registry), call, r, declared)
      BY <2>1 DEF PassesInv, Types, Claim, Calls
    <2> QED BY <1>2, <2>2
  <1>4. ASSUME NEW m \in memo' PROVE CallOK(Range(registry'), Again(m), root', declared')
    <2>1. m \in memo /\ root' = root
      OBVIOUS
    <2>2. Again(m) \in Call /\ CallOK(Range(registry), Again(m), root, declared)
      BY <2>1 DEF PassesInv, Types, Calls, Again, Memory, Call
    <2> QED BY <1>2, <2>1, <2>2
  <1>5. \A m : Again(m)' = Again(m)
    BY DEF Again
  <1> QED BY <1>3, <1>4 DEF Calls

(* A header that declares ds: N are the registrations.                     *)
Adds(E, N, ds, late) ==
    /\ E = Range(registry) \cup N
    /\ \A e \in N : e.root = root /\ e.late = late /\ e.by = declared + 1
    /\ Range(ds) = {DeclOf(e) : e \in N}

LEMMA DeclaredHistory ==
    ASSUME PassesInv, at # "error", OnlyRoot, NEW ds \in Seq(Decl), NEW N, NEW late,
           Adds(Range(registry'), N, ds, late), Declared(ds), R.declares = <<>>,
           roots'[root].declares = ds, roots'[root].rejected = R.rejected
    PROVE  /\ Accounts(Range(registry'), Declarers', Rejected') /\ Rejected' = Rejected
           /\ \A e \in Range(registry') : e.by =< declared'
           /\ declared' \in Nat /\ declared =< declared'
  <1>1. /\ root \in Root /\ declared \in Nat /\ \A e \in Range(registry) : e.by \in Nat
        /\ Accounts(Range(registry), Declarers, Rejected)
        /\ \A e \in Range(registry) : e.by =< declared
    BY EntriesAre DEF PassesInv, Types, Histories
  <1>2. declared' = IF ds = <<>> THEN declared ELSE declared + 1
    BY <1>1 DEF Declared
  <1>3. N # {} => ds # <<>>
    <2>1. Range(<<>>) = {}
      BY DEF Range
    <2>2. N # {} => {DeclOf(e) : e \in N} # {}
      OBVIOUS
    <2> QED BY <2>1, <2>2 DEF Adds
  <1>4. \A r \in Root : r # root => roots'[r] = roots[r]
    BY DEF OnlyRoot
  <1>5. Rejected' = Rejected
    BY <1>4 DEF Rejected, R
  <1>6. /\ Declarers[root] = {} /\ Declarers'[root] = {DeclOf(e) : e \in N}
        /\ \A r \in Root : r # root => Declarers'[r] = Declarers[r]
    <2>1. Range(<<>>) = {}
      BY DEF Range
    <2>2. \A r \in Root : /\ Declarers[r] = Range(roots[r].declares)
                          /\ Declarers'[r] = Range(roots'[r].declares)
      BY DEF Declarers
    <2> QED BY <1>1, <1>4, <2>1, <2>2 DEF Adds, R
  <1>7. Accounts(Range(registry) \cup N, Declarers', Rejected)
    <2>1. \A e \in N : e.root = root
      BY DEF Adds
    <2> QED BY <1>1, <1>6, <2>1, AccountsGrown
  <1>8. \A e \in Range(registry') : e.by =< declared'
    BY <1>1, <1>2, <1>3 DEF Adds
  <1> QED BY <1>1, <1>2, <1>5, <1>7, <1>8 DEF Adds

(* A body that is rejected: C are the registrations its savepoint has.     *)
Remains(E) ==
    \E C : /\ Leaves(Range(registry), C) /\ E = {e \in C : e.span # root}
          /\ \A e \in C : e.late => e.root < root

LEMMA DiscardedHistory ==
    ASSUME PassesInv, at \in {"bodies", "inside"}, at' \in {"bodies", "frozen"}, OnlyRoot,
           Remains(Range(registry')), declared' \in Nat, declared =< declared',
           roots'[root].declares = <<>>, roots'[root].rejected,
           at' = "bodies" => root' = root \/ root' = root + 1
    PROVE  Histories'
  <1>1. PICK C : /\ Leaves(Range(registry), C) /\ Range(registry') = {e \in C : e.span # root}
                 /\ \A e \in C : e.late => e.root < root
    BY DEF Remains
  <1>2. /\ root \in Root /\ root \in Nat /\ declared \in Nat
        /\ \A e \in Range(registry) : e.by \in Nat /\ e.root \in Nat
        /\ Accounts(Range(registry), Declarers, Rejected)
        /\ \A e \in Range(registry) : e.by =< declared
    BY EntriesAre DEF PassesInv, Types, Histories
  <1>3. \A r \in Root : r # root => roots'[r] = roots[r]
    BY DEF OnlyRoot
  <1>4. Rejected' = Rejected \cup {root}
    BY <1>2, <1>3 DEF Rejected
  <1>5. Declarers'[root] = {} /\ \A r \in Root : r # root => Declarers'[r] = Declarers[r]
    <2>1. Range(<<>>) = {}
      BY DEF Range
    <2>2. \A r \in Root : /\ Declarers[r] = Range(roots[r].declares)
                          /\ Declarers'[r] = Range(roots'[r].declares)
      BY DEF Declarers
    <2> QED BY <1>2, <1>3, <2>1, <2>2
  <1>6. Accounts(Range(registry'), Declarers', Rejected')
    BY <1>1, <1>2, <1>4, <1>5, AccountsDiscarded
  <1>7. \A e \in Range(registry') : e \in C /\ e \in Range(registry)
    BY <1>1 DEF Leaves
  <1>8. \A e \in Range(registry') : e.by =< declared'
    BY <1>2, <1>7
  <1>9. at' = "bodies" => \A e \in Range(registry') : e.late => e.root < root'
    BY <1>1, <1>2, <1>7
  <1>10. at' # "inside" /\ ~FirstPass'
    BY DEF FirstPass
  <1> QED BY <1>6, <1>8, <1>9, <1>10 DEF Histories

-----------------------------------------------------------------------------
(* The actions that change no root.                                        *)
LEMMA FailKeeps ==
    ASSUME PassesInv, Fail
    PROVE  PassesInv'
  <1> USE DEF Fail
  <1>1. <<>> \in Seq(Entry) /\ <<>> \in Seq(Mark) /\ <<>> \in Work /\ Len(<<>>) = 0
    BY EmptySeq DEF Work
  <1>2. Types'
    BY <1>1 DEF PassesInv, Types
  <1>3. Registry'
    <2>1. DOMAIN registry' = {}
      OBVIOUS
    <2> QED BY <2>1 DEF Registry, Numbered, Passed
  <1>4. Progress'
    BY DEF PassesInv, Progress, FirstPass, Pending, Over, Unseen
  <1>5. Contexts' /\ DirectivesScoped'
    BY DEF Contexts, DirectivesScoped
  <1>6. Logs' /\ Calls' /\ Histories'
    BY DEF Logs, Calls, Histories
  <1> QED BY <1>2, <1>3, <1>4, <1>5, <1>6 DEF PassesInv

LEMMA StartBodiesKeeps ==
    ASSUME PassesInv, StartBodies
    PROVE  PassesInv'
  <1> USE DEF StartBodies
  <1>1. Types'
    BY DEF PassesInv, Types
  <1>2. Registry'
    BY RootsSame DEF PassesInv, Registry, Passed
  <1>3. Progress'
    <2>1. root = 1 /\ \A r \in Root : r >= root
      BY RootIs DEF PassesInv, Progress
    <2> QED BY <2>1, RootIs DEF PassesInv, Progress, FirstPass, Pending, Over, Unseen
  <1>4. Contexts' /\ DirectivesScoped'
    BY RootsSame DEF PassesInv, Contexts, DirectivesScoped
  <1>5. Logs'
    BY RootsSame DEF PassesInv, Logs
  <1>6. declared \in Nat /\ declared =< declared'
    BY EntriesAre DEF PassesInv
  <1>7. Calls'
    BY <1>6, CallsKept
  <1>8. Histories'
    BY <1>6, RootsSame, HistoriesKept DEF FirstPass
  <1> QED BY <1>1, <1>2, <1>3, <1>4, <1>5, <1>7, <1>8 DEF PassesInv

LEMMA SkipBodyKeeps ==
    ASSUME PassesInv, SkipBody
    PROVE  PassesInv'
  <1> USE DEF SkipBody, NextBody
  <1>1. root \in Nat /\ root =< Roots /\ Roots \in Nat /\ \A r \in Root : r \in Nat /\ r =< Roots
    BY RootIs DEF PassesInv, Types
  <1>2. Types'
    BY RootIs DEF PassesInv, Types
  <1>3. Registry'
    BY RootsSame DEF PassesInv, Registry, Passed
  <1>4. Progress'
    <2>1. ASSUME NEW r \in Root, Over(r)' PROVE Over(r) \/ r = root
      BY <1>1, <2>1 DEF Over
    <2>2. ASSUME NEW r \in Root, Pending(r)' PROVE Pending(r)
      BY <1>1, <2>2 DEF Pending, FirstPass
    <2> QED BY <2>1, <2>2 DEF PassesInv, Progress, FirstPass, Unseen, R
  <1>5. Contexts' /\ DirectivesScoped'
    BY RootsSame DEF PassesInv, Contexts, DirectivesScoped
  <1>6. Logs'
    BY RootsSame DEF PassesInv, Logs
  <1>7. declared \in Nat /\ declared =< declared'
    BY EntriesAre DEF PassesInv
  <1>8. Calls'
    BY <1>7, CallsKept
  <1>9. Histories'
    BY <1>7, RootsSame, HistoriesKept DEF FirstPass
  <1> QED BY <1>2, <1>3, <1>4, <1>5, <1>6, <1>8, <1>9 DEF PassesInv

LEMMA BeginBodyKeeps ==
    ASSUME PassesInv, BeginBody
    PROVE  PassesInv'
  <1> USE DEF BeginBody
  <1>1. root \in Nat /\ \A r \in Root : r \in Nat
    BY RootIs DEF PassesInv, Types
  <1>2. R \in Claim /\ R.context \in Ctx
    BY DEF PassesInv, Types, R, Claim
  <1>3. /\ Fr'.log = log /\ Fr'.registry = Len(registry) /\ Fr'.order = order
        /\ Fr'.context = context /\ frames' \in Seq(Mark) /\ Len(frames') = 1
    BY SavedIs DEF PassesInv, Fr
  <1>4. Types'
    BY <1>2, <1>3 DEF PassesInv, Types
  <1>5. Registry'
    <2>1. DOMAIN registry = 1 .. Len(registry) /\ Len(registry) \in Nat /\ order \in Nat
      BY LenProperties DEF PassesInv, Types
    <2>2. Marked'
      BY <1>3, <2>1 DEF PassesInv, Registry, Numbered, Marked
    <2> QED BY <2>2, RootsSame DEF PassesInv, Registry, Passed
  <1>6. Progress'
    BY <1>1 DEF PassesInv, Progress, FirstPass, Pending, Over, Unseen, R
  <1>7. Contexts'
    BY RootsSame DEF PassesInv, Contexts
  <1>8. DirectivesScoped'
    BY RootsSame DEF PassesInv, Types, Contexts, DirectivesScoped, R
  <1>9. Logs'
    <2>1. R.body = <<>>
      BY <1>1 DEF PassesInv, Types, Progress, Pending, R
    <2>2. OnlyRoot /\ root \in Root /\ roots \in [Root -> Claim]
      BY DEF OnlyRoot, PassesInv, Types
    <2>3. Bodies = Less(Bodies) /\ Less(Bodies)' = Less(Bodies)
      <3>1. Bodies = Less(Bodies)
        BY <2>1, <2>2, Changed
      <3> QED BY <3>1 DEF Less, Bodies
    <2> QED BY <1>3, <2>3, RootsSame DEF PassesInv, Logs
  <1>10. declared \in Nat /\ declared =< declared'
    BY EntriesAre DEF PassesInv
  <1>11. Calls'
    BY <1>10, CallsKept
  <1>12. Histories'
    BY <1>10, RootsSame, HistoriesKept DEF FirstPass
  <1> QED BY <1>4, <1>5, <1>6, <1>7, <1>8, <1>9, <1>11, <1>12 DEF PassesInv

(* A savepoint rolled back to at once leaves nothing.                      *)
LEMMA NothingDone ==
    ASSUME Types, Numbered(registry, order), NEW x \in Work
    PROVE  LET t == RolledBack(Saved(context), [Now EXCEPT !.log = x]) IN
           t.log = log /\ t.registry = registry /\ t.order = order
  <1> DEFINE s == [Now EXCEPT !.log = x]
  <1>1. s \in State /\ s.log = x /\ s.registry = registry /\ s.order = order
    BY NowIs DEF Types
  <1> HIDE DEF s
  <1>2. Grown(s, s, TRUE)
    <2>1. Len(registry) \in Nat /\ order \in Nat
      BY LenProperties DEF Types
    <2> QED BY <1>1, <2>1 DEF Grown
  <1>3. RolledBack(Saved(context), s) =
            [log |-> log, registry |-> registry, order |-> order, ok |-> s.ok]
    BY <1>1, <1>2, UndoneNow DEF Types
  <1> QED BY <1>3 DEF s

LEMMA RankedIs ==
    ASSUME Types, ranked # <<>>
    PROVE  /\ Head(ranked) \in Match /\ Head(ranked).state \in Work /\ Head(ranked).cand \in Candidate
           /\ Head(ranked) = ranked[1] /\ 1 \in DOMAIN ranked
           /\ Tail(ranked) \in Seq(Match)
           /\ \A i \in DOMAIN Tail(ranked) : i + 1 \in DOMAIN ranked /\ Tail(ranked)[i] = ranked[i + 1]
  <1>1. /\ Len(ranked) \in Nat /\ Len(ranked) >= 1 /\ DOMAIN ranked = 1 .. Len(ranked)
        /\ Head(ranked) = ranked[1]
    BY LenProperties, EmptySeq DEF Types
  <1>2. ranked[1] \in Match
    BY <1>1, ElementOfSeq DEF Types
  <1>3. /\ Tail(ranked) \in Seq(Match) /\ Len(Tail(ranked)) = Len(ranked) - 1
        /\ \A i \in 1 .. Len(Tail(ranked)) : Tail(ranked)[i] = ranked[i + 1]
    BY HeadTailProperties DEF Types
  <1>4. DOMAIN Tail(ranked) = 1 .. Len(Tail(ranked))
    BY <1>3, LenProperties
  <1> QED BY <1>1, <1>2, <1>3, <1>4 DEF Match

(* Nothing but the candidates that are left and the counts changes.        *)
TriedNext ==
    /\ at = "enter" /\ ranked # <<>> /\ ranked' = Tail(ranked)
    /\ log' = log /\ registry' = registry /\ order' = order
    /\ works' \in 0 .. MaxWork /\ declared' \in 0 .. MaxDeclared /\ declared =< declared'
    /\ UNCHANGED <<context, frames, memo, at, root>>

LEMMA RejectIsNext ==
    ASSUME PassesInv, RejectHeader
    PROVE  TriedNext /\ roots' = roots
  <1>1. Types /\ Numbered(registry, order) /\ ranked # <<>>
    BY DEF PassesInv, Registry, RejectHeader
  <1>2. PICK w \in Works :
            /\ Becomes(RolledBack(Saved(context), [Now EXCEPT !.log = Head(ranked).state \o w]))
            /\ Wrote(w)
    BY DEF RejectHeader
  <1>3. w \in Work /\ works' \in 0 .. MaxWork
    BY <1>1, <1>2, WorkIs DEF Wrote
  <1>4. Head(ranked).state \o w \in Work
    BY <1>1, <1>3, RankedIs, WorkJoin
  <1>5. log' = log /\ registry' = registry /\ order' = order
    BY <1>1, <1>2, <1>4, NothingDone DEF Becomes
  <1>6. declared' = declared /\ declared =< declared'
    BY EntriesAre DEF RejectHeader, PassesInv
  <1> QED BY <1>3, <1>5, <1>6 DEF RejectHeader, TriedNext, PassesInv, Types

LEMMA TriedKeeps ==
    ASSUME PassesInv, TriedNext, roots' = roots
    PROVE  PassesInv'
  <1>1. TriedNext /\ roots' = roots
    OBVIOUS
  <1> USE DEF TriedNext
  <1>2. Tail(ranked) \in Seq(Match)
        /\ \A i \in DOMAIN Tail(ranked) : i + 1 \in DOMAIN ranked /\ Tail(ranked)[i] = ranked[i + 1]
    BY <1>1, RankedIs DEF PassesInv
  <1>3. Types'
    BY <1>1, <1>2 DEF PassesInv, Types
  <1>4. Registry'
    BY <1>1, RootsSame DEF PassesInv, Registry, Marked, Passed, Fr
  <1>5. Progress'
    BY <1>1 DEF PassesInv, Progress, FirstPass, Pending, Over, Unseen, R
  <1>6. Contexts' /\ DirectivesScoped'
    BY <1>1, RootsSame DEF PassesInv, Contexts, DirectivesScoped, Fr, R
  <1>7. Logs'
    <2>1. Less(Heads)' = Less(Heads)
      BY <1>1 DEF Less, Heads
    <2> QED BY <1>1, <1>2, <2>1, RootsSame DEF PassesInv, Logs, Fr
  <1>8. declared' \in Nat /\ declared =< declared'
    BY Bounds
  <1>9. Calls'
    BY <1>8, CallsKept
  <1>10. Histories'
    BY <1>8, RootsSame, HistoriesKept DEF FirstPass
  <1> QED BY <1>3, <1>4, <1>5, <1>6, <1>7, <1>9, <1>10 DEF PassesInv

LEMMA RejectHeaderKeeps ==
    ASSUME PassesInv, RejectHeader
    PROVE  PassesInv'
  BY RejectIsNext, TriedKeeps

LEMMA FinishHeaderKeeps ==
    ASSUME PassesInv, FinishHeader
    PROVE  PassesInv'
  <1> USE DEF FinishHeader, ToNextRoot
  <1>1. root \in Nat /\ root =< Roots /\ Roots \in Nat /\ \A r \in Root : r \in Nat /\ r =< Roots
    BY RootIs DEF PassesInv, Types
  <1>2. R \in Claim /\ R.context \in Ctx /\ R.parent \in Ctx
    BY DEF PassesInv, Types, R, Claim
  <1>3. Types'
    BY <1>2, RootIs, EmptySeq DEF PassesInv, Types, FollowingContext
  <1>4. Registry'
    <2>1. ASSUME NEW i \in DOMAIN registry PROVE registry[i].root < root + 1
      <3>1. DOMAIN registry = 1 .. Len(registry) /\ registry[i] \in Entry
        BY ElementOfSeq, LenProperties DEF PassesInv, Types
      <3>2. registry[i].root \in Nat
        BY <3>1, RootIs DEF Entry
      <3> QED BY <1>1, <3>2 DEF PassesInv, Registry, Marked, Passed
    <2> QED BY <2>1, RootsSame DEF PassesInv, Registry, Passed
  <1>5. Progress'
    <2>1. ASSUME NEW r \in Root, Unseen(r)' PROVE Unseen(r)
      BY <1>1, <2>1 DEF Unseen
    <2> QED BY <2>1 DEF PassesInv, Progress, FirstPass, Pending, Over
  <1>6. Contexts'
    BY RootsSame DEF PassesInv, Contexts
  <1>7. DirectivesScoped'
    <2> SUFFICES ASSUME root < Roots
                 PROVE  context' = DirectivesBefore(root + 1)
      BY <1>1, RootsSame DEF DirectivesScoped
    <2>1. root \in Root /\ root + 1 \in Root /\ roots \in [Root -> Claim]
      BY <1>1, RootIs DEF PassesInv, Types
    <2>2. R.parent = DirectivesOf(roots, root)
      BY DirectivesAre DEF PassesInv, Contexts
    <2>3. R.directive => R.context = Append(R.parent, <<root, R.first>>)
      BY <2>1 DEF PassesInv, Progress, FirstPass, Contexts, R
    <2>4. DirectivesOf(roots, root + 1) = IF R.directive
                                          THEN Append(DirectivesOf(roots, root), <<root, R.first>>)
                                          ELSE DirectivesOf(roots, root)
      BY <2>1, DirectivesNext DEF R
    <2> QED BY <2>2, <2>3, <2>4, DirectivesAre DEF FollowingContext
  <1>8. Logs'
    BY RootsSame DEF PassesInv, Logs
  <1>9. declared \in Nat /\ declared =< declared' /\ memo = {}
    BY EntriesAre DEF PassesInv, Histories, FirstPass
  <1>10. Calls'
    BY <1>9, CallsKept
  <1>11. Histories'
    BY <1>9, RootsSame, HistoriesKept DEF FirstPass
  <1> QED BY <1>3, <1>4, <1>5, <1>6, <1>7, <1>8, <1>10, <1>11 DEF PassesInv

LEMMA StutteringKeeps ==
    ASSUME PassesInv, UNCHANGED vars
    PROVE  PassesInv'
  <1> USE DEF vars
  <1>1. Types'
    BY DEF PassesInv, Types
  <1>2. Registry'
    BY RootsSame DEF PassesInv, Registry, Marked, Passed, Fr
  <1>3. Progress'
    BY DEF PassesInv, Progress, FirstPass, Pending, Over, Unseen, R
  <1>4. Contexts' /\ DirectivesScoped'
    BY RootsSame DEF PassesInv, Contexts, DirectivesScoped, Fr, R
  <1>5. Logs'
    <2>1. Less(Heads)' = Less(Heads) /\ Less(Bodies)' = Less(Bodies)
      BY DEF Less, Heads, Bodies
    <2> QED BY <2>1, RootsSame DEF PassesInv, Logs, Fr
  <1>6. Calls' /\ Histories'
    <2>1. CASE at = "error"
      BY <2>1 DEF Calls, Histories
    <2>2. CASE at # "error"
      <3>1. declared \in Nat /\ declared =< declared'
        BY EntriesAre DEF PassesInv
      <3>2. Calls'
        BY <2>2, <3>1, CallsKept
      <3>3. Fr' = Fr
        BY DEF Fr
      <3>4. Histories'
        BY <2>2, <3>1, <3>3, RootsSame, HistoriesKept DEF FirstPass
      <3> QED BY <3>2, <3>4
    <2> QED BY <2>1, <2>2
  <1> QED BY <1>1, <1>2, <1>3, <1>4, <1>5, <1>6 DEF PassesInv

-----------------------------------------------------------------------------
(* Bodies: what was found out about headers stays.                         *)
SameHeader ==
    /\ OnlyRoot
    /\ roots'[root].directive = R.directive /\ roots'[root].first = R.first
    /\ roots'[root].parent = R.parent /\ roots'[root].context = R.context
    /\ roots'[root].head = R.head
    /\ roots'[root].claims # <<>> => R.claims # <<>>

LEMMA HeadersStay ==
    ASSUME PassesInv, SameHeader, at # "error", at' # "enter"
    PROVE  Contexts' /\ \A r \in Root : DirectivesBefore(r)' = DirectivesBefore(r)
  <1>1. \A r \in Root : /\ roots'[r].directive = roots[r].directive
                        /\ roots'[r].first = roots[r].first
                        /\ roots'[r].parent = roots[r].parent
                        /\ roots'[r].context = roots[r].context
                        /\ roots'[r].claims # <<>> => roots[r].claims # <<>>
    BY DEF SameHeader, OnlyRoot, R
  <1>2. \A r \in Root : DirectivesBefore(r)' = DirectivesBefore(r)
    BY <1>1, DirectivesKept
  <1>3. Contexts'
    BY <1>1, <1>2 DEF PassesInv, Contexts
  <1> QED BY <1>2, <1>3

LEMMA ClaimIs ==
    ASSUME Types
    PROVE  /\ R \in Claim /\ R.claims \in Seq(Candidate) /\ R.body \in Work /\ R.head \in Work
           /\ R.parent \in Ctx /\ R.context \in Ctx /\ R.first \in Nat /\ R.calls \in SUBSET Call
           /\ R.claims # <<>> => /\ Head(R.claims) \in Candidate /\ Tail(R.claims) \in Seq(Candidate)
                                 /\ Head(R.claims) = R.claims[1]
  <1>1. R \in Claim
    BY DEF Types, R
  <1>2. R.claims \in Seq(Candidate)
    BY <1>1 DEF Claim
  <1>3. R.claims # <<>> => /\ Head(R.claims) \in Candidate /\ Tail(R.claims) \in Seq(Candidate)
                           /\ Head(R.claims) = R.claims[1]
    BY <1>2, HeadTailProperties
  <1> QED BY <1>1, <1>2, <1>3 DEF Claim

LEMMA RootNumbers ==
    ASSUME Types
    PROVE  root \in Root /\ root \in Nat /\ root =< Roots /\ Roots \in Nat
           /\ \A r \in Root : r \in Nat /\ r =< Roots
  BY RootIs DEF Types

Calling(name, found) ==
    /\ memo' = memo \cup {[name |-> name, log |-> log, found |-> found]}
    /\ roots' = [roots EXCEPT ![root].calls = @ \cup
           {[name |-> name, found |-> found, stale |-> found # Lookup(registry, name)]}]

LEMMA CallInBodyKeeps ==
    ASSUME PassesInv, CallInBody
    PROVE  PassesInv'
  <1>1. PICK name \in Names : \E found \in {Lookup(registry, name)} \cup Memoized(name) :
            Calling(name, found)
    BY DEF CallInBody, Calling
  <1>14. PICK found \in {Lookup(registry, name)} \cup Memoized(name) : Calling(name, found)
    BY <1>1
  <1> DEFINE looked == Lookup(registry, name)
             call   == [name |-> name, found |-> found, stale |-> found # looked]
             mark   == [name |-> name, log |-> log, found |-> found]
  <1>2. /\ at = "inside" /\ at' = at /\ R.claims # <<>>
        /\ UNCHANGED <<log, works, registry, order, context, frames, declared, root, ranked>>
    BY DEF CallInBody, PassesInv, Progress
  <1>15. /\ Types /\ declared \in Nat /\ \A e \in Range(registry) : e.by =< declared
    BY <1>2, EntriesAre DEF PassesInv, Histories
  <1>16. ASSUME NEW stale \in BOOLEAN, stale \/ found = looked
         PROVE  LET made == [name |-> name, found |-> found, stale |-> stale] IN
                made \in Call /\ CallOK(Range(registry), made, root, declared)
    <2>1. CASE found = looked
      BY <1>15, <2>1, CallMade DEF PassesInv, Types, Registry
    <2>2. CASE found # looked
      <3>1. found \in Memoized(name) /\ stale = TRUE
        BY <1>16, <2>2
      <3>2. PICK m \in memo : m.name = name /\ m.found = found
        BY <3>1 DEF Memoized
      <3>3. m \in Memory /\ CallOK(Range(registry), Again(m), root, declared)
        BY <1>2, <3>2 DEF PassesInv, Types, Calls
      <3> QED BY <3>1, <3>2, <3>3 DEF Again, Memory, Call
    <2> QED BY <2>1, <2>2
  <1>3. call \in Call /\ CallOK(Range(registry), call, root, declared)
    <2>1. (found # looked) \in BOOLEAN /\ ((found # looked) \/ found = looked)
      OBVIOUS
    <2> QED BY <1>16, <2>1
  <1>17. /\ mark \in Memory /\ CallOK(Range(registry), Again(mark), root, declared)
         /\ memo' = memo \cup {mark}
    <2>1. /\ Again(mark) = [name |-> name, found |-> found, stale |-> TRUE]
          /\ found \in SUBSET Entry
      BY <1>3 DEF Again, Call
    <2>2. CallOK(Range(registry), Again(mark), root, declared)
      BY <1>16, <2>1
    <2>3. mark \in Memory
      BY <1>15, <2>1 DEF Memory, Types
    <2>4. memo' = memo \cup {mark}
      BY <1>14 DEF Calling
    <2> QED BY <2>2, <2>3, <2>4
  <1>18. roots' = [roots EXCEPT ![root].calls = @ \cup {call}]
    BY <1>14 DEF Calling
  <1> HIDE DEF call, mark, looked
  <1>4. roots' = [roots EXCEPT ![root] = [R EXCEPT !.calls = R.calls \cup {call}]]
    BY <1>18 DEF R, PassesInv, Types
  <1>5. SameHeader
    <2>1. [R EXCEPT !.calls = R.calls \cup {call}] \in Claim
      BY <1>3, ClaimIs DEF PassesInv, Claim
    <2> QED BY <1>4, <2>1, ClaimIs DEF SameHeader, OnlyRoot, PassesInv, Types, Claim
  <1>6. /\ roots'[root].calls = R.calls \cup {call} /\ roots'[root].claims = R.claims
        /\ roots'[root].body = R.body /\ roots'[root].declares = R.declares
        /\ roots'[root].selected = R.selected /\ roots'[root].first = R.first
        /\ roots'[root].rejected = R.rejected
    BY <1>4, ClaimIs DEF PassesInv, Types, Claim
  <1>7. \A r \in Root : r # root => roots'[r] = roots[r]
    BY <1>5 DEF SameHeader, OnlyRoot
  <1>8. Types'
    BY <1>2, <1>5, <1>17 DEF PassesInv, Types, SameHeader, OnlyRoot
  <1>9. Registry'
    BY <1>2 DEF PassesInv, Registry, Marked, Passed, Fr
  <1>10. Progress'
    <2>1. \A r \in Root : /\ Pending(r)' => r # root /\ Pending(r)
                          /\ Over(r)' => r # root /\ Over(r)
      BY <1>2, RootNumbers DEF PassesInv, Pending, Over, FirstPass
    <2>2. ASSUME NEW r \in Root
          PROVE  /\ Pending(r)' =>
                       /\ roots'[r].body = <<>> /\ roots'[r].calls = {}
                       /\ roots'[r].claims # <<>> /\ Head(roots'[r].claims) # roots'[r].first =>
                             roots'[r].declares = <<>>
                 /\ Over(r)' /\ roots'[r].declares # <<>> => roots'[r].selected # 0
      BY <1>7, <2>1 DEF PassesInv, Progress
    <2>3. ASSUME NEW r \in Root PROVE roots'[r].claims = <<>> => roots'[r].declares = <<>>
      BY <1>6, <1>7 DEF PassesInv, Progress, R
    <2>4. roots'[root].claims # <<>>
      BY <1>2, <1>6
    <2> QED BY <1>2, <2>2, <2>3, <2>4 DEF Progress, FirstPass, Unseen, R
  <1>11. Contexts' /\ DirectivesScoped'
    BY <1>2, <1>5, <1>6, HeadersStay, RootNumbers DEF PassesInv, DirectivesScoped, R
  <1>12. Logs'
    <2>1. Heads' = Heads /\ Bodies' = Bodies
      BY <1>5, <1>6, Changed DEF SameHeader, PassesInv, Types
    <2>2. Less(Bodies)' = Less(Bodies)
      BY <1>2, <2>1 DEF Less
    <2> QED BY <1>2, <2>1, <2>2 DEF PassesInv, Logs, Fr
  <1>13. Calls'
    <2>1. ASSUME NEW r \in Root, NEW c \in roots'[r].calls
          PROVE  CallOK(Range(registry), c, r, declared)
      <3>1. CASE c \in roots[r].calls
        BY <1>2, <3>1 DEF PassesInv, Calls
      <3>2. CASE c \notin roots[r].calls
        <4>1. r = root /\ c = call
          BY <1>6, <1>7, <3>2 DEF R
        <4> QED BY <1>3, <4>1
      <3> QED BY <3>1, <3>2
    <2>2. ASSUME NEW m \in memo' PROVE CallOK(Range(registry), Again(m), root, declared)
      BY <1>2, <1>17 DEF PassesInv, Calls
    <2> QED BY <1>2, <2>1, <2>2 DEF Calls
  <1>19. Histories'
    <2>1. Declarers' = Declarers /\ Rejected' = Rejected
      BY <1>6, <1>7, HistorySame DEF R
    <2>2. Fr' = Fr /\ ~FirstPass' /\ declared =< declared'
      BY <1>2, <1>15 DEF Fr, FirstPass
    <2> QED BY <1>2, <1>15, <2>1, <2>2, HistoriesKept
  <1> QED BY <1>8, <1>9, <1>10, <1>11, <1>12, <1>13, <1>19 DEF PassesInv

LEMMA WorkType == ASSUME NEW h \in Work, NEW k \in Work PROVE h \o k \in Work
  BY ConcatProperties DEF Work

LEMMA WorkAssociative ==
    ASSUME NEW h \in Work, NEW k \in Work, NEW x \in Work
    PROVE  (h \o k) \o x = h \o (k \o x)
  BY WorkJoin

Regrouped(h, k, x, y) == (h \o (k \o x)) \o y = (h \o k) \o (x \o y)

LEMMA WorkRegrouped ==
    ASSUME NEW h \in Work, NEW k \in Work, NEW x \in Work, NEW y \in Work
    PROVE  Regrouped(h, k, x, y)
  <1>1. h \o k \in Work
    BY WorkType
  <1>2. (h \o k) \o x = h \o (k \o x)
    BY WorkAssociative
  <1>3. ((h \o k) \o x) \o y = (h \o k) \o (x \o y)
    BY <1>1, WorkAssociative
  <1> QED BY <1>2, <1>3 DEF Regrouped

LEMMA WrittenLog ==
    ASSUME PassesInv, at = "inside", SameHeader, NEW w \in Work,
           log' = log \o w, roots'[root].body = R.body \o w
    PROVE  /\ log' \in Work /\ log' = FlattenSeq(Heads') \o FlattenSeq(Bodies')
           /\ Heads' = Heads /\ Without(Bodies', root) = Less(Bodies)
  <1>0. /\ Types /\ log = FlattenSeq(Heads) \o FlattenSeq(Bodies)
        /\ root \in Root /\ root \in Nat /\ R.body \in Work /\ log \in Work
        /\ \A r \in Root : r \in Nat
    BY RootNumbers, ClaimIs DEF PassesInv, Logs, Types
  <1>1. \A r \in Root : r > root => roots[r].body = <<>>
    BY DEF PassesInv, Progress, Pending
  <1>2. \A r \in Root : r > root => roots'[r].body = <<>>
    <2>1. \A r \in Root : r > root => r # root
      BY <1>0
    <2>2. \A r \in Root : r # root => roots'[r] = roots[r]
      BY DEF SameHeader, OnlyRoot
    <2> QED BY <1>1, <2>1, <2>2
  <1>3. OnlyRoot /\ roots'[root].head = R.head
    BY DEF SameHeader
  <1>4. /\ Heads \in [Root -> Work] /\ Bodies \in [Root -> Work]
        /\ Without(Bodies', root) = Less(Bodies)
    BY <1>0, <1>3, Changed DEF Types
  <1>5. FlattenSeq(Bodies) = FlattenSeq(Less(Bodies)) \o R.body
    <2>1. (\A r \in Root : r > root => Bodies[r] = <<>>) /\ Bodies[root] = R.body
      BY <1>0, <1>1 DEF Bodies, R
    <2>2. FlattenSeq(Bodies) = FlattenSeq(Without(Bodies, root)) \o Bodies[root]
      BY <1>0, <1>4, <2>1, FlattenOne
    <2> QED BY <2>1, <2>2 DEF Less, Without
  <1>6. /\ FlattenSeq(Heads) \in Work /\ FlattenSeq(Less(Bodies)) \in Work /\ Heads' = Heads
        /\ FlattenSeq(Heads') \o FlattenSeq(Bodies') =
               (FlattenSeq(Heads) \o FlattenSeq(Less(Bodies))) \o (R.body \o w)
    BY <1>0, <1>2, <1>3, LogOfBodies
  <1> DEFINE heads == FlattenSeq(Heads)
             bodies == FlattenSeq(Less(Bodies))
             body == R.body
  <1>7. log = heads \o (bodies \o body)
    BY <1>0, <1>5
  <1>8. heads \in Work /\ bodies \in Work /\ body \in Work /\ log \in Work
    BY <1>0, <1>6
  <1> HIDE DEF heads, bodies, body
  <1>9. Regrouped(heads, bodies, body, w)
    BY <1>8, WorkRegrouped
  <1>11. log \o w = (heads \o bodies) \o (body \o w)
    BY <1>7, <1>9 DEF Regrouped
  <1>10. log \o w \in Work
    BY <1>8, WorkType
  <1> QED BY <1>4, <1>6, <1>10, <1>11 DEF heads, bodies, body

LEMMA WriteInBodyKeeps ==
    ASSUME PassesInv, WriteInBody
    PROVE  PassesInv'
  <1>1. PICK w \in Works : /\ log' = log \o w /\ Wrote(w)
                           /\ roots' = [roots EXCEPT ![root].body = @ \o w]
    BY DEF WriteInBody
  <1>2. /\ at = "inside" /\ at' = at /\ R.claims # <<>>
        /\ UNCHANGED <<registry, order, context, frames, memo, declared, root, ranked>>
    BY DEF WriteInBody, PassesInv, Progress
  <1>3. w \in Work /\ works' \in 0 .. MaxWork /\ R.body \o w \in Work
    BY <1>1, WorkIs, ClaimIs, WorkJoin DEF Wrote, PassesInv
  <1>4. roots' = [roots EXCEPT ![root] = [R EXCEPT !.body = R.body \o w]]
    BY <1>1 DEF R, PassesInv, Types
  <1>5. SameHeader
    <2>1. [R EXCEPT !.body = R.body \o w] \in Claim
      BY <1>3, ClaimIs DEF PassesInv, Claim
    <2> QED BY <1>4, <2>1, ClaimIs DEF SameHeader, OnlyRoot, PassesInv, Types, Claim
  <1>6. /\ roots'[root].calls = R.calls /\ roots'[root].claims = R.claims
        /\ roots'[root].body = R.body \o w /\ roots'[root].declares = R.declares
        /\ roots'[root].selected = R.selected /\ roots'[root].first = R.first
        /\ roots'[root].rejected = R.rejected
    BY <1>4, ClaimIs DEF PassesInv, Types, Claim
  <1>7. \A r \in Root : r # root => roots'[r] = roots[r]
    BY <1>5 DEF SameHeader, OnlyRoot
  <1>8. /\ log' \in Work /\ log' = FlattenSeq(Heads') \o FlattenSeq(Bodies')
        /\ Heads' = Heads /\ Without(Bodies', root) = Less(Bodies)
    BY <1>1, <1>2, <1>3, <1>5, <1>6, WrittenLog
  <1>9. Types'
    BY <1>2, <1>3, <1>5, <1>8 DEF PassesInv, Types, SameHeader, OnlyRoot
  <1>10. Registry'
    BY <1>2 DEF PassesInv, Registry, Marked, Passed, Fr
  <1>11. Progress'
    <2>1. \A r \in Root : /\ Pending(r)' => r # root /\ Pending(r)
                          /\ Over(r)' => r # root /\ Over(r)
      BY <1>2, RootNumbers DEF PassesInv, Pending, Over, FirstPass
    <2>2. ASSUME NEW r \in Root
          PROVE  /\ Pending(r)' =>
                       /\ roots'[r].body = <<>> /\ roots'[r].calls = {}
                       /\ roots'[r].claims # <<>> /\ Head(roots'[r].claims) # roots'[r].first =>
                             roots'[r].declares = <<>>
                 /\ Over(r)' /\ roots'[r].declares # <<>> => roots'[r].selected # 0
      BY <1>7, <2>1 DEF PassesInv, Progress
    <2>3. ASSUME NEW r \in Root PROVE roots'[r].claims = <<>> => roots'[r].declares = <<>>
      BY <1>6, <1>7 DEF PassesInv, Progress, R
    <2>4. roots'[root].claims # <<>>
      BY <1>2, <1>6
    <2> QED BY <1>2, <2>2, <2>3, <2>4 DEF Progress, FirstPass, Unseen, R
  <1>12. Contexts' /\ DirectivesScoped'
    BY <1>2, <1>5, <1>6, HeadersStay, RootNumbers DEF PassesInv, DirectivesScoped, R
  <1>13. Logs'
    <2>1. Less(Bodies)' = Less(Bodies)
      BY <1>2, <1>8 DEF Less, Without
    <2> QED BY <1>2, <1>8, <2>1 DEF PassesInv, Logs, Fr
  <1>14. Calls'
    <2>1. \A r \in Root : roots'[r].calls = roots[r].calls
      BY <1>6, <1>7 DEF R
    <2>2. declared \in Nat /\ declared =< declared'
      BY <1>2, EntriesAre DEF PassesInv
    <2> QED BY <1>2, <2>1, <2>2, CallsKept
  <1>15. Histories'
    <2>1. Declarers' = Declarers /\ Rejected' = Rejected
      BY <1>6, <1>7, HistorySame DEF R
    <2>2. Fr' = Fr /\ ~FirstPass' /\ declared \in Nat /\ declared =< declared'
      BY <1>2, EntriesAre DEF Fr, FirstPass, PassesInv
    <2> QED BY <1>2, <2>1, <2>2, HistoriesKept
  <1> QED BY <1>9, <1>10, <1>11, <1>12, <1>13, <1>14, <1>15 DEF PassesInv

LEMMA AcceptBodyKeeps ==
    ASSUME PassesInv, AcceptBody
    PROVE  PassesInv'
  <1> USE DEF NextBody
  <1>1. PICK w \in Works :
            /\ log' = log \o w /\ Wrote(w)
            /\ roots' = [roots EXCEPT ![root].body = @ \o w, ![root].selected = Head(R.claims)]
    BY DEF AcceptBody
  <1>2. /\ at = "inside" /\ R.claims # <<>> /\ context' = Fr.context /\ frames' = <<>>
        /\ NextBody
        /\ UNCHANGED <<registry, order, declared, ranked>>
    BY DEF AcceptBody, PassesInv, Progress, Fr
  <1>3. w \in Work /\ works' \in 0 .. MaxWork /\ R.body \o w \in Work
    BY <1>1, WorkIs, ClaimIs, WorkJoin DEF Wrote, PassesInv
  <1>4. Head(R.claims) \in Candidate
    BY <1>2, ClaimIs DEF PassesInv
  <1> DEFINE c == [R EXCEPT !.body = R.body \o w, !.selected = Head(R.claims)]
  <1>5. roots' = [roots EXCEPT ![root] = c]
    BY <1>1 DEF R, PassesInv, Types
  <1>6. /\ c \in Claim /\ c.directive = R.directive /\ c.first = R.first /\ c.parent = R.parent
        /\ c.context = R.context /\ c.head = R.head /\ c.claims = R.claims
        /\ c.calls = R.calls /\ c.body = R.body \o w /\ c.declares = R.declares
        /\ c.selected = Head(R.claims) /\ c.rejected = R.rejected
    BY <1>3, <1>4, ClaimIs DEF PassesInv, Claim, Candidate
  <1> HIDE DEF c
  <1>7. SameHeader /\ roots'[root] = c
    BY <1>5, <1>6 DEF SameHeader, OnlyRoot, PassesInv, Types
  <1>8. \A r \in Root : r # root => roots'[r] = roots[r]
    BY <1>7 DEF SameHeader, OnlyRoot
  <1>9. log' \in Work /\ log' = FlattenSeq(Heads') \o FlattenSeq(Bodies')
    BY <1>1, <1>2, <1>3, <1>6, <1>7, WrittenLog
  <1>10. Types'
    <2>1. Fr.context \in Ctx /\ <<>> \in Seq(Mark) /\ Len(<<>>) = 0
      BY <1>2, MarkIs, EmptySeq DEF PassesInv
    <2> QED BY <1>2, <1>3, <1>7, <1>9, <2>1, RootIs DEF PassesInv, Types, SameHeader, OnlyRoot
  <1>11. Registry'
    BY <1>2 DEF PassesInv, Registry, Passed
  <1>12. Progress'
    <2>1. \A r \in Root : /\ Pending(r)' => r # root /\ Pending(r)
                          /\ Over(r)' => r = root \/ Over(r)
      BY <1>2, RootNumbers DEF PassesInv, Pending, Over, FirstPass
    <2>2. c.selected # 0
      BY <1>4, <1>6 DEF Candidate
    <2>3. ASSUME NEW r \in Root
          PROVE  /\ Pending(r)' =>
                       /\ roots'[r].body = <<>> /\ roots'[r].calls = {}
                       /\ roots'[r].claims # <<>> /\ Head(roots'[r].claims) # roots'[r].first =>
                             roots'[r].declares = <<>>
                 /\ Over(r)' /\ roots'[r].declares # <<>> => roots'[r].selected # 0
      BY <1>7, <1>8, <2>1, <2>2 DEF PassesInv, Progress
    <2>4. ASSUME NEW r \in Root PROVE roots'[r].claims = <<>> => roots'[r].declares = <<>>
      BY <1>6, <1>7, <1>8 DEF PassesInv, Progress, R
    <2> QED BY <1>2, <2>3, <2>4 DEF Progress, FirstPass, Unseen
  <1>13. Contexts' /\ DirectivesScoped'
    BY <1>2, <1>7, HeadersStay DEF DirectivesScoped
  <1>14. Logs'
    BY <1>2, <1>9 DEF Logs
  <1>15. Calls'
    <2>1. \A r \in Root : roots'[r].calls = roots[r].calls
      BY <1>6, <1>7, <1>8 DEF R
    <2>2. declared \in Nat /\ declared =< declared'
      BY <1>2, EntriesAre DEF PassesInv
    <2> QED BY <1>2, <2>1, <2>2, CallsKept
  <1>16. Histories'
    <2>1. Declarers' = Declarers /\ Rejected' = Rejected
      BY <1>6, <1>7, <1>8, HistorySame DEF R
    <2>2. ~FirstPass' /\ declared \in Nat /\ declared =< declared'
      BY <1>2, EntriesAre DEF FirstPass, PassesInv
    <2>3. at' # "inside" /\ (at' = "bodies" => root' = root + 1)
      BY <1>2
    <2> QED BY <1>2, <2>1, <2>2, <2>3, HistoriesKept
  <1> QED BY <1>10, <1>11, <1>12, <1>13, <1>14, <1>15, <1>16 DEF PassesInv

LEMMA UndoneIs ==
    ASSUME PassesInv, at = "inside"
    PROVE  /\ Undone.log = Fr.log /\ Undone.order = Fr.order
           /\ Undone.registry \in Seq(Entry) /\ Numbered(Undone.registry, Fr.order)
           /\ Range(Undone.registry) \subseteq Range(registry)
           /\ Remains(Range(Undone.registry))
  <1> DEFINE k == Fr.registry
             cut == SubSeq(registry, 1, k)
             new == Discarded(cut)
  <1>1. /\ Types /\ registry \in Seq(Entry) /\ log \in Work /\ order \in Nat
        /\ Numbered(registry, order) /\ Marked
    BY DEF PassesInv, Types, Registry
  <1>2. /\ Fr.log \in Work /\ k \in Nat /\ Fr.order \in Nat /\ k =< Len(registry)
        /\ \A i \in DOMAIN registry :
              IF i =< k THEN registry[i].order < Fr.order ELSE registry[i].root = root
    BY <1>1, MarkIs DEF Marked
  <1>3. /\ Len(registry) \in Nat /\ DOMAIN registry = 1 .. Len(registry)
        /\ Range(registry) = {registry[i] : i \in 1 .. Len(registry)}
    BY <1>1, LenProperties DEF Range
  <1> HIDE DEF k, new
  <1>4. /\ cut \in Seq(Entry) /\ Len(cut) = k /\ Numbered(cut, Fr.order)
        /\ Range(cut) = {registry[i] : i \in 1 .. k}
    BY <1>1, <1>2, CutLaws
  <1> HIDE DEF cut
  <1>5. /\ new \in Seq(Entry) /\ Numbered(new, Fr.order)
        /\ Range(new) = {e \in Range(cut) : e.span # root}
    BY <1>4, DiscardedLaws DEF new
  <1>6. Undone = [log |-> Fr.log, registry |-> new, order |-> Fr.order, ok |-> TRUE]
    <2>1. Now \in State /\ Now.registry = registry /\ Now.ok = TRUE
      BY <1>1, NowIs
    <2>2. RolledBack(Fr, Now) = [log |-> Fr.log, registry |-> cut, order |-> Fr.order, ok |-> TRUE]
      BY <2>1, RolledBackIs DEF cut, k
    <2> DEFINE s == RolledBack(Fr, Now)
               u == [s EXCEPT !.registry = Discarded(@)]
    <2>3. Undone = u
      BY DEF Undone, Fr
    <2>4. /\ DOMAIN s = {"log", "registry", "order", "ok"}
          /\ s.log = Fr.log /\ s.registry = cut /\ s.order = Fr.order /\ s.ok = TRUE
      BY <2>2
    <2> HIDE DEF s
    <2>5. /\ DOMAIN u = {"log", "registry", "order", "ok"}
          /\ u.log = Fr.log /\ u.registry = new /\ u.order = Fr.order /\ u.ok = TRUE
      BY <2>4 DEF new
    <2>6. u = [log |-> u.log, registry |-> u.registry, order |-> u.order, ok |-> u.ok]
      BY <2>5
    <2> HIDE DEF u
    <2> QED BY <2>3, <2>5, <2>6
  <1>7. Range(cut) \subseteq Range(registry)
    BY <1>2, <1>3, <1>4
  <1>8. Remains(Range(new))
    <2>1. \A i \in 1 .. k : i \in DOMAIN registry /\ (registry[i].late => registry[i].root < root)
      BY <1>2, <1>3 DEF PassesInv, Histories, k
    <2>2. \A e \in Range(cut) : e.late => e.root < root
      BY <1>4, <2>1
    <2>3. Leaves(Range(registry), Range(cut))
      <3>1. ASSUME NEW e \in Range(registry) PROVE e \in Range(cut) \/ e.root = root
        <4>1. PICK i \in 1 .. Len(registry) : e = registry[i]
          BY <1>3
        <4>2. i \in 1 .. k \/ ~(i =< k)
          BY <1>2
        <4> QED BY <1>2, <1>3, <1>4, <4>1, <4>2
      <3>2. \A e \in Range(cut) : e.root = root => ~e.late
        BY <1>1, <1>7, <2>2, EntriesAre
      <3>3. \A e \in Range(registry) : e.root \in Root
        BY <1>1, EntriesAre
      <3> QED BY <1>7, <3>1, <3>2, <3>3 DEF Leaves
    <2> QED BY <1>5, <2>2, <2>3 DEF Remains
  <1> QED BY <1>5, <1>6, <1>7, <1>8

(* A body that is rejected or faults: the work of the body, its functions  *)
(* and its calls are gone, whatever is tried next.                         *)
BodyGone ==
    /\ at = "inside" /\ Becomes(Undone)
    /\ context' = frames[1].context /\ frames' = <<>>
    /\ SameHeader /\ roots'[root].body = <<>> /\ roots'[root].declares = <<>>
    /\ roots'[root].calls = {} /\ roots'[root].rejected
    /\ at' \in {"bodies", "frozen"} /\ root' \in Root
    /\ at' = "bodies" => root' = root \/ root' = root + 1
    /\ memo' = {} \/ (memo' = memo /\ root' = root)
    /\ UNCHANGED <<works, declared, ranked>>

LEMMA BodyGoneKeeps ==
    ASSUME PassesInv, BodyGone
    PROVE  /\ Types' /\ Registry' /\ Histories' /\ Contexts' /\ DirectivesScoped' /\ Logs'
           /\ Calls'
  <1> USE DEF BodyGone
  <1>1. /\ log' = Fr.log /\ order' = Fr.order
        /\ registry' \in Seq(Entry) /\ Numbered(registry', order')
        /\ Range(registry') \subseteq Range(registry)
        /\ Remains(Range(registry'))
    BY UndoneIs DEF Becomes
  <1>2. /\ Fr.log \in Work /\ Fr.order \in Nat /\ Fr.context \in Ctx
        /\ <<>> \in Seq(Mark) /\ Len(<<>>) = 0
    BY MarkIs, EmptySeq DEF PassesInv
  <1>3. OnlyRoot /\ \A r \in Root : r # root => roots'[r] = roots[r]
    BY DEF SameHeader, OnlyRoot
  <1>4. Types'
    BY <1>1, <1>2, <1>3 DEF PassesInv, Types, OnlyRoot, Fr
  <1>5. Registry'
    BY <1>1 DEF Registry, Passed
  <1>6. Contexts' /\ DirectivesScoped'
    BY HeadersStay DEF DirectivesScoped
  <1>7. Logs'
    <2>1. Heads' = Heads /\ Bodies' = Less(Bodies)
      BY <1>3, Changed DEF SameHeader, PassesInv, Types
    <2> QED BY <1>1, <2>1 DEF PassesInv, Logs
  <1>8. declared \in Nat /\ declared =< declared'
    BY EntriesAre DEF PassesInv
  <1>9. Calls'
    <2>1. \A r \in Root : roots'[r].calls \subseteq roots[r].calls
      BY <1>3
    <2> QED BY <1>1, <1>8, <2>1, CallsKept
  <1>10. Histories'
    BY <1>1, <1>3, <1>8, DiscardedHistory
  <1> QED BY <1>4, <1>5, <1>6, <1>7, <1>9, <1>10

LEMMA DroppedIs ==
    ASSUME Types, R.claims # <<>>
    PROVE  /\ Dropped(R) \in Claim /\ Dropped(R).claims = Tail(R.claims)
           /\ Dropped(R).directive = R.directive /\ Dropped(R).first = R.first
           /\ Dropped(R).parent = R.parent /\ Dropped(R).context = R.context
           /\ Dropped(R).head = R.head /\ Dropped(R).body = <<>>
           /\ Dropped(R).declares = <<>> /\ Dropped(R).calls = {}
           /\ Dropped(R).selected = R.selected /\ Dropped(R).rejected = TRUE
  <1>1. /\ R \in Claim /\ Tail(R.claims) \in Seq(Candidate) /\ <<>> \in Work /\ <<>> \in Seq(Decl)
        /\ {} \in SUBSET Call
    BY ClaimIs, EmptyWork, EmptySeq
  <1> QED BY <1>1 DEF Dropped, Claim

LEMMA RejectBodyKeeps ==
    ASSUME PassesInv, RejectBody
    PROVE  PassesInv'
  <1>1. /\ at = "inside" /\ R.claims # <<>> /\ at' = "bodies"
        /\ UNCHANGED <<works, memo, declared, root, ranked>>
    BY DEF RejectBody, PassesInv, Progress
  <1>2. roots' = [roots EXCEPT ![root] = Dropped(R)]
    BY DEF RejectBody, R, PassesInv, Types
  <1>3. BodyGone
    BY <1>1, <1>2, DroppedIs DEF BodyGone, RejectBody, SameHeader, OnlyRoot, PassesInv, Types
  <1>4. roots'[root] = Dropped(R) /\ \A r \in Root : r # root => roots'[r] = roots[r]
    BY <1>2 DEF PassesInv, Types
  <1>5. Progress'
    <2>1. \A r \in Root : /\ Pending(r)' => r = root \/ Pending(r)
                          /\ Over(r)' => r # root /\ Over(r)
      BY <1>1, RootNumbers DEF PassesInv, Pending, Over, FirstPass
    <2>2. ASSUME NEW r \in Root
          PROVE  /\ Pending(r)' =>
                       /\ roots'[r].body = <<>> /\ roots'[r].calls = {}
                       /\ roots'[r].claims # <<>> /\ Head(roots'[r].claims) # roots'[r].first =>
                             roots'[r].declares = <<>>
                 /\ Over(r)' /\ roots'[r].declares # <<>> => roots'[r].selected # 0
      BY <1>1, <1>4, <2>1, DroppedIs DEF PassesInv, Progress
    <2>3. ASSUME NEW r \in Root PROVE roots'[r].claims = <<>> => roots'[r].declares = <<>>
      BY <1>1, <1>4, DroppedIs DEF PassesInv, Progress
    <2> QED BY <1>1, <2>2, <2>3 DEF Progress, FirstPass, Unseen
  <1> QED BY <1>3, <1>5, BodyGoneKeeps DEF PassesInv

LEMMA BodyFaultKeeps ==
    ASSUME PassesInv, BodyFault
    PROVE  PassesInv'
  <1> USE DEF NextBody
  <1> DEFINE c == [Dropped(R) EXCEPT !.claims = <<>>]
  <1>1. /\ at = "inside" /\ R.claims # <<>> /\ NextBody
        /\ UNCHANGED <<works, declared, ranked>>
    BY DEF BodyFault, PassesInv, Progress
  <1>2. roots' = [roots EXCEPT ![root] = c]
    BY DEF BodyFault, R, PassesInv, Types
  <1>3. /\ c \in Claim /\ c.claims = <<>> /\ c.directive = R.directive /\ c.first = R.first
        /\ c.parent = R.parent /\ c.context = R.context /\ c.head = R.head
        /\ c.body = <<>> /\ c.declares = <<>> /\ c.calls = {} /\ c.rejected = TRUE
    BY <1>1, DroppedIs, EmptySeq DEF PassesInv, Claim
  <1> HIDE DEF c
  <1>4. roots'[root] = c /\ \A r \in Root : r # root => roots'[r] = roots[r]
    BY <1>2 DEF PassesInv, Types
  <1>5. BodyGone
    <2>1. SameHeader
      BY <1>2, <1>3 DEF SameHeader, OnlyRoot, PassesInv, Types
    <2>2. /\ at' \in {"bodies", "frozen"} /\ root' \in Root
          /\ at' = "bodies" => root' = root + 1
      BY <1>1, RootIs DEF PassesInv, Types
    <2> QED BY <1>1, <1>3, <1>4, <2>1, <2>2 DEF BodyGone, BodyFault
  <1>6. Progress'
    <2>1. \A r \in Root : /\ Pending(r)' => r # root /\ Pending(r)
                          /\ Over(r)' => r = root \/ Over(r)
      BY <1>1, RootNumbers DEF PassesInv, Pending, Over, FirstPass
    <2>2. ASSUME NEW r \in Root
          PROVE  /\ Pending(r)' =>
                       /\ roots'[r].body = <<>> /\ roots'[r].calls = {}
                       /\ roots'[r].claims # <<>> /\ Head(roots'[r].claims) # roots'[r].first =>
                             roots'[r].declares = <<>>
                 /\ Over(r)' /\ roots'[r].declares # <<>> => roots'[r].selected # 0
      BY <1>3, <1>4, <2>1 DEF PassesInv, Progress
    <2>3. ASSUME NEW r \in Root PROVE roots'[r].claims = <<>> => roots'[r].declares = <<>>
      BY <1>3, <1>4 DEF PassesInv, Progress
    <2> QED BY <1>1, <2>2, <2>3 DEF Progress, FirstPass, Unseen
  <1> QED BY <1>5, <1>6, BodyGoneKeeps DEF PassesInv

-----------------------------------------------------------------------------
(* What a header that is entered declares.                                 *)
Declaring(t, x, ds, late) ==
    /\ t.log = x /\ t.registry \in Seq(Entry) /\ t.order \in Nat /\ order =< t.order
    /\ t.ok \in BOOLEAN /\ Numbered(t.registry, t.order) /\ Len(registry) =< Len(t.registry)
    /\ \A j \in 1 .. Len(registry) : t.registry[j] = registry[j]
    /\ \A j \in Len(registry) + 1 .. Len(t.registry) : t.registry[j].root = root
    /\ t.ok => \E N : Adds(Range(t.registry), N, ds, late)
    /\ RolledBack(Saved(context), t) =
           [log |-> log, registry |-> registry, order |-> order, ok |-> t.ok]

LEMMA DeclaringIs ==
    ASSUME Types, Numbered(registry, order), NEW x \in Work, NEW ds \in Seq(Decl),
           NEW late \in BOOLEAN
    PROVE  Declaring(Registered([Now EXCEPT !.log = x], ds, late), x, ds, late)
  <1> DEFINE s == [Now EXCEPT !.log = x]
             t == Registered(s, ds, late)
  <1>1. s \in State /\ s.log = x /\ s.registry = registry /\ s.order = order
    BY NowIs DEF Types
  <1> HIDE DEF s
  <1>7. declared \in Nat /\ root \in Root
    BY EntriesAre DEF Types
  <1>2. t \in State /\ Grown(s, t, late) /\ (t.ok => News(s, t) = Range(ds))
    BY <1>1, <1>7, RegisteredGrows
  <1> HIDE DEF t
  <1>3. t.registry \in Seq(Entry) /\ t.order \in Nat /\ t.ok \in BOOLEAN
    BY <1>2 DEF State
  <1>4. /\ t.log = x /\ order =< t.order /\ Numbered(t.registry, t.order)
        /\ Len(registry) =< Len(t.registry)
        /\ \A j \in 1 .. Len(registry) : t.registry[j] = registry[j]
        /\ \A j \in Len(registry) + 1 .. Len(t.registry) : t.registry[j].root = root
    BY <1>1, <1>2 DEF Grown
  <1>5. ASSUME t.ok PROVE \E N : Adds(Range(t.registry), N, ds, late)
    <2> DEFINE l == Len(registry)
               m == Len(t.registry)
               N == {t.registry[j] : j \in l + 1 .. m}
    <2>1. /\ l \in Nat /\ m \in Nat /\ l =< m
          /\ DOMAIN registry = 1 .. l /\ DOMAIN t.registry = 1 .. m
      BY <1>3, <1>4, LenProperties DEF Types
    <2>2. \A j \in l + 1 .. m : /\ t.registry[j].root = root /\ t.registry[j].late = late
                               /\ t.registry[j].by = declared + 1
      BY <1>1, <1>2 DEF Grown
    <2>3. \A j \in 1 .. l : t.registry[j] = registry[j]
      BY <1>4
    <2>4. Range(ds) = {DeclOf(t.registry[j]) : j \in l + 1 .. m}
      BY <1>1, <1>2, <1>5 DEF News
    <2> HIDE DEF l, m
    <2>5. Range(t.registry) = Range(registry) \cup N
      <3>1. \A j : j \in 1 .. m <=> j \in 1 .. l \/ j \in l + 1 .. m
        BY <2>1
      <3>2. /\ Range(registry) = {registry[j] : j \in 1 .. l}
            /\ Range(t.registry) = {t.registry[j] : j \in 1 .. m}
        BY <2>1 DEF Range
      <3> QED BY <2>3, <3>1, <3>2
    <2>6. Range(ds) = {DeclOf(e) : e \in N}
      BY <2>4
    <2>7. \A e \in N : e.root = root /\ e.late = late /\ e.by = declared + 1
      BY <2>2
    <2> HIDE DEF N
    <2>8. Adds(Range(t.registry), N, ds, late)
      BY <2>5, <2>6, <2>7 DEF Adds
    <2> QED BY <2>8
  <1>6. RolledBack(Saved(context), t) =
            [log |-> log, registry |-> registry, order |-> order, ok |-> t.ok]
    BY <1>1, <1>2, UndoneNow DEF Types
  <1> QED BY <1>3, <1>4, <1>5, <1>6 DEF Declaring, s, t

-----------------------------------------------------------------------------
(* An alternative: entered for its body, or given up at once.              *)
Entered(t, w, ds, mode) ==
    /\ t.ok /\ frames' = <<Saved(context)>> /\ Becomes(t)
    /\ context' = Append(AlternativeContext, <<root, Head(R.claims)>>)
    /\ roots' = [roots EXCEPT ![root] =
                    [@ EXCEPT !.mode = mode, !.body = w, !.declares = ds]]
    /\ at' = "inside"
GivenUp(t) ==
    LET undone == RolledBack(Saved(context), t) IN
    /\ Becomes([undone EXCEPT !.registry = Discarded(@)])
    /\ roots' = [roots EXCEPT ![root] = Dropped(@)]
    /\ UNCHANGED <<context, frames, at>>
Alternative ==
    /\ at = "bodies" /\ R.claims # <<>> /\ Head(R.claims) # R.first
    /\ works' \in 0 .. MaxWork /\ declared' \in 0 .. MaxDeclared /\ declared =< declared'
    /\ UNCHANGED <<memo, root, ranked>>

LEMMA AlternativeIs ==
    ASSUME PassesInv, EnterAlternative
    PROVE  /\ Alternative
           /\ \E t : \E w \in Work, ds \in Seq(Decl), mode \in {"none", "body"} :
                 /\ Declaring(t, log \o w, ds, TRUE) /\ Declared(ds)
                 /\ Entered(t, w, ds, mode) \/ GivenUp(t)
  <1>1. PICK w \in Works, ds \in Declarations, mode \in {"none", "body"} :
            LET after == Registered([Now EXCEPT !.log = @ \o w], ds, TRUE) IN
            /\ Wrote(w) /\ Declared(ds)
            /\ Entered(after, w, ds, mode) \/ GivenUp(after)
    BY DEF EnterAlternative, Entered, GivenUp
  <1>2. Types /\ Numbered(registry, order) /\ log \in Work
    BY DEF PassesInv, Registry, Types
  <1>3. w \in Work /\ works' \in 0 .. MaxWork
    BY <1>1, <1>2, WorkIs DEF Wrote
  <1>4. /\ ds \in Seq(Decl) /\ declared' \in 0 .. MaxDeclared /\ declared =< declared'
        /\ Declared(ds)
    BY <1>1, <1>2, DeclarationIs, EntriesAre DEF Declared
  <1>5. log \o w \in Work
    BY <1>2, <1>3, WorkType
  <1> DEFINE t == Registered([Now EXCEPT !.log = log \o w], ds, TRUE)
  <1>6. Declaring(t, log \o w, ds, TRUE)
    BY <1>2, <1>4, <1>5, DeclaringIs
  <1>7. Entered(t, w, ds, mode) \/ GivenUp(t)
    <2>1. Now.log = log
      BY DEF Now
    <2> QED BY <1>1, <2>1
  <1> HIDE DEF t
  <1>8. Alternative
    BY <1>3, <1>4 DEF EnterAlternative, Alternative
  <1> QED BY <1>3, <1>4, <1>6, <1>7, <1>8

LEMMA GivenUpKeeps ==
    ASSUME PassesInv, Alternative, NEW t, NEW x, NEW ds, Declaring(t, x, ds, TRUE), GivenUp(t)
    PROVE  PassesInv'
  <1>1. /\ at = "bodies" /\ R.claims # <<>> /\ Head(R.claims) # R.first
        /\ works' \in 0 .. MaxWork /\ declared' \in 0 .. MaxDeclared /\ declared =< declared'
        /\ UNCHANGED <<memo, root, ranked, context, frames, at>>
    BY DEF Alternative, GivenUp
  <1> DEFINE u == RolledBack(Saved(context), t)
             v == [u EXCEPT !.registry = Discarded(@)]
  <1>2. u = [log |-> log, registry |-> registry, order |-> order, ok |-> t.ok]
    BY DEF Declaring
  <1>3. Becomes(v)
    BY DEF GivenUp
  <1>4. u.log = log /\ u.order = order /\ u.registry = registry /\ "registry" \in DOMAIN u
    BY <1>2
  <1> HIDE DEF u
  <1>5. v.log = log /\ v.order = order /\ v.registry = Discarded(registry)
    BY <1>4
  <1>6. log' = log /\ order' = order /\ registry' = Discarded(registry)
    BY <1>3, <1>5 DEF Becomes
  <1> HIDE DEF v
  <1>7. /\ registry \in Seq(Entry) /\ Numbered(registry, order)
        /\ registry' \in Seq(Entry) /\ Numbered(registry', order)
        /\ Range(registry') = {e \in Range(registry) : e.span # root}
    BY <1>6, DiscardedLaws DEF PassesInv, Types, Registry
  <1>8. roots' = [roots EXCEPT ![root] = Dropped(R)]
    BY DEF GivenUp, R, PassesInv, Types
  <1>9. roots'[root] = Dropped(R) /\ \A r \in Root : r # root => roots'[r] = roots[r]
    BY <1>8 DEF PassesInv, Types
  <1>10. SameHeader
    BY <1>1, <1>8, DroppedIs DEF SameHeader, OnlyRoot, PassesInv, Types
  <1>11. Types'
    BY <1>1, <1>6, <1>7, <1>10 DEF PassesInv, Types, SameHeader, OnlyRoot
  <1>12. R.body = <<>> /\ R.declares = <<>>
    BY <1>1, RootNumbers DEF PassesInv, Progress, Pending, R
  <1>13. Registry'
    BY <1>1, <1>6, <1>7 DEF Registry, Passed
  <1>14. Progress'
    <2>1. \A r \in Root : /\ Pending(r)' => Pending(r)
                          /\ Over(r)' => r # root /\ Over(r)
      BY <1>1, RootNumbers DEF PassesInv, Pending, Over, FirstPass
    <2>2. ASSUME NEW r \in Root
          PROVE  /\ Pending(r)' =>
                       /\ roots'[r].body = <<>> /\ roots'[r].calls = {}
                       /\ roots'[r].claims # <<>> /\ Head(roots'[r].claims) # roots'[r].first =>
                             roots'[r].declares = <<>>
                 /\ Over(r)' /\ roots'[r].declares # <<>> => roots'[r].selected # 0
      BY <1>1, <1>9, <2>1, DroppedIs DEF PassesInv, Progress
    <2>3. ASSUME NEW r \in Root PROVE roots'[r].claims = <<>> => roots'[r].declares = <<>>
      BY <1>1, <1>9, DroppedIs DEF PassesInv, Progress
    <2> QED BY <1>1, <2>2, <2>3 DEF Progress, FirstPass, Unseen
  <1>15. Contexts' /\ DirectivesScoped'
    BY <1>1, <1>10, HeadersStay DEF DirectivesScoped
  <1>16. Logs'
    <2>1. Heads' = Heads /\ Bodies' = Bodies
      <3>1. roots'[root].head = R.head /\ roots'[root].body = R.body
        BY <1>1, <1>9, <1>12, DroppedIs DEF PassesInv
      <3> QED BY <1>10, <3>1, Changed DEF SameHeader, PassesInv, Types
    <2> QED BY <1>1, <1>6, <2>1 DEF PassesInv, Logs
  <1>17. Calls'
    <2>1. \A r \in Root : roots'[r].calls \subseteq roots[r].calls
      BY <1>1, <1>9, DroppedIs DEF PassesInv
    <2>2. declared' \in Nat /\ Range(registry') \subseteq Range(registry)
      BY <1>1, <1>7, Bounds
    <2> QED BY <1>1, <2>1, <2>2, CallsKept
  <1>18. Histories'
    <2>1. \A e \in Range(registry) : e.late => e.root < root
      BY <1>1 DEF PassesInv, Histories
    <2>2. Leaves(Range(registry), Range(registry))
      BY <2>1, EntriesAre DEF PassesInv, Leaves
    <2>3. Remains(Range(registry'))
      BY <1>7, <2>1, <2>2 DEF Remains
    <2>4. /\ roots'[root].declares = <<>> /\ roots'[root].rejected /\ OnlyRoot
          /\ declared' \in Nat
      <3>1. roots'[root].declares = <<>> /\ roots'[root].rejected = TRUE
        BY <1>1, <1>9, DroppedIs DEF PassesInv
      <3> QED BY <1>1, <1>10, <3>1, Bounds DEF SameHeader
    <2> QED BY <1>1, <2>3, <2>4, DiscardedHistory
  <1> QED BY <1>11, <1>13, <1>14, <1>15, <1>16, <1>17, <1>18 DEF PassesInv

LEMMA EnteredKeeps ==
    ASSUME PassesInv, Alternative, NEW w \in Work, NEW ds \in Seq(Decl), NEW mode \in {"none", "body"},
           NEW t, Declaring(t, log \o w, ds, TRUE), Declared(ds), Entered(t, w, ds, mode)
    PROVE  PassesInv'
  <1>1. /\ at = "bodies" /\ R.claims # <<>> /\ Head(R.claims) # R.first
        /\ works' \in 0 .. MaxWork /\ declared' \in 0 .. MaxDeclared
        /\ UNCHANGED <<memo, root, ranked>> /\ at' = "inside"
        /\ context' = Append(R.parent, <<root, Head(R.claims)>>)
    BY DEF Alternative, Entered, AlternativeContext
  <1>2. /\ Fr'.log = log /\ Fr'.registry = Len(registry) /\ Fr'.order = order
        /\ Fr'.context = context /\ frames' \in Seq(Mark) /\ Len(frames') = 1
    BY SavedIs DEF PassesInv, Fr, Entered
  <1>3. /\ log' = log \o w /\ registry' = t.registry /\ order' = t.order
        /\ registry' \in Seq(Entry) /\ order' \in Nat /\ order =< order'
        /\ Numbered(registry', order') /\ Len(registry) =< Len(registry')
        /\ \A j \in 1 .. Len(registry) : registry'[j] = registry[j]
        /\ \A j \in Len(registry) + 1 .. Len(registry') : registry'[j].root = root
        /\ \E N : Adds(Range(registry'), N, ds, TRUE)
    BY DEF Declaring, Entered, Becomes
  <1> DEFINE c == [R EXCEPT !.mode = mode, !.body = w, !.declares = ds]
  <1>4. roots' = [roots EXCEPT ![root] = c]
    BY DEF Entered, R, PassesInv, Types
  <1>5. /\ c \in Claim /\ c.claims = R.claims /\ c.directive = R.directive /\ c.first = R.first
        /\ c.parent = R.parent /\ c.context = R.context /\ c.head = R.head
        /\ c.body = w /\ c.declares = ds /\ c.calls = R.calls /\ c.rejected = R.rejected
    BY ClaimIs DEF PassesInv, Claim
  <1> HIDE DEF c
  <1>6. roots'[root] = c /\ \A r \in Root : r # root => roots'[r] = roots[r]
    BY <1>4 DEF PassesInv, Types
  <1>7. SameHeader
    BY <1>1, <1>4, <1>5 DEF SameHeader, OnlyRoot, PassesInv, Types
  <1>8. Types'
    <2>1. context' \in Ctx
      <3>1. R.parent \in Ctx /\ <<root, Head(R.claims)>> \in Root \X Nat
        BY <1>1, ClaimIs DEF PassesInv, Types, Candidate
      <3> QED BY <1>1, <3>1, AppendProperties DEF Ctx
    <2>2. log' \in Work
      BY <1>3, WorkType DEF PassesInv, Types
    <2> QED BY <1>1, <1>2, <1>3, <1>7, <2>1, <2>2 DEF PassesInv, Types, SameHeader, OnlyRoot
  <1>9. R.body = <<>> /\ R.declares = <<>> /\ R.calls = {}
    BY <1>1, RootNumbers DEF PassesInv, Progress, Pending, R
  <1>10. Registry'
    <2>1. /\ DOMAIN registry = 1 .. Len(registry) /\ Len(registry) \in Nat
          /\ DOMAIN registry' = 1 .. Len(registry') /\ Len(registry') \in Nat
      BY <1>3, LenProperties DEF PassesInv, Types
    <2>2. Marked'
      <3>1. ASSUME NEW i \in DOMAIN registry'
            PROVE  IF i =< Len(registry) THEN registry'[i].order < order ELSE registry'[i].root = root
        <4>1. CASE i =< Len(registry)
          <5>1. i \in DOMAIN registry /\ registry'[i] = registry[i]
            BY <1>3, <2>1, <4>1
          <5>2. registry[i].order < order
            BY <5>1 DEF PassesInv, Registry, Numbered
          <5> QED BY <4>1, <5>1, <5>2
        <4>2. CASE ~(i =< Len(registry))
          BY <1>3, <2>1, <4>2
        <4> QED BY <4>1, <4>2
      <3> QED BY <1>1, <1>2, <1>3, <3>1 DEF Marked
    <2> QED BY <1>1, <1>3, <2>2 DEF Registry, Passed
  <1>11. Progress'
    <2>1. \A r \in Root : /\ Pending(r)' => r # root /\ Pending(r)
                          /\ Over(r)' => r # root /\ Over(r)
      BY <1>1, RootNumbers DEF PassesInv, Pending, Over, FirstPass
    <2>2. ASSUME NEW r \in Root
          PROVE  /\ Pending(r)' =>
                       /\ roots'[r].body = <<>> /\ roots'[r].calls = {}
                       /\ roots'[r].claims # <<>> /\ Head(roots'[r].claims) # roots'[r].first =>
                             roots'[r].declares = <<>>
                 /\ Over(r)' /\ roots'[r].declares # <<>> => roots'[r].selected # 0
      BY <1>6, <2>1 DEF PassesInv, Progress
    <2>3. ASSUME NEW r \in Root PROVE roots'[r].claims = <<>> => roots'[r].declares = <<>>
      BY <1>1, <1>5, <1>6 DEF PassesInv, Progress
    <2>4. roots'[root].claims # <<>>
      BY <1>1, <1>5, <1>6
    <2> QED BY <1>1, <2>2, <2>3, <2>4 DEF Progress, FirstPass, Unseen, R
  <1>12. Contexts' /\ DirectivesScoped'
    <2>1. Contexts' /\ \A r \in Root : DirectivesBefore(r)' = DirectivesBefore(r)
      BY <1>1, <1>7, HeadersStay
    <2>2. R.parent = DirectivesBefore(root) /\ root \in Root
      BY <1>1 DEF PassesInv, Types, Contexts, R
    <2>3. Head(roots'[root].claims) = Head(R.claims)
      BY <1>5, <1>6
    <2> QED BY <1>1, <2>1, <2>2, <2>3 DEF DirectivesScoped, R
  <1>13. Logs'
    <2>1. \A r \in Root : r > root => roots[r].body = <<>>
      BY <1>1, RootNumbers DEF PassesInv, Progress, Pending
    <2>2. \A r \in Root : r > root => roots'[r].body = <<>>
      <3>1. \A r \in Root : r > root => r # root
        BY RootNumbers DEF PassesInv
      <3> QED BY <1>6, <2>1, <3>1
    <2>3. OnlyRoot /\ roots'[root].head = R.head /\ root \in Root /\ roots \in [Root -> Claim]
      BY <1>7 DEF SameHeader, PassesInv, Types
    <2>4. Bodies = Less(Bodies) /\ Without(Bodies', root) = Less(Bodies)
      BY <1>9, <2>3, Changed
    <2>5. /\ Heads' = Heads
          /\ FlattenSeq(Heads') \o FlattenSeq(Bodies') =
                 (FlattenSeq(Heads) \o FlattenSeq(Less(Bodies))) \o roots'[root].body
      BY <2>2, <2>3, LogOfBodies DEF PassesInv
    <2>6. log = FlattenSeq(Heads) \o FlattenSeq(Less(Bodies))
      BY <1>1, <2>4 DEF PassesInv, Logs
    <2>7. Less(Bodies)' = Less(Bodies)
      BY <1>1, <2>4 DEF Less, Without
    <2>8. log' = FlattenSeq(Heads') \o FlattenSeq(Bodies')
      <3>1. roots'[root].body = w
        BY <1>5, <1>6
      <3> QED BY <1>3, <2>5, <2>6, <3>1
    <2>9. Fr'.log = FlattenSeq(Heads') \o FlattenSeq(Less(Bodies)')
      BY <1>2, <2>5, <2>6, <2>7
    <2> QED BY <1>1, <2>8, <2>9 DEF Logs
  <1>14. PICK N : Adds(Range(registry'), N, ds, TRUE)
    BY <1>3
  <1>15. /\ Accounts(Range(registry'), Declarers', Rejected') /\ declared \in Nat
         /\ \A e \in Range(registry') : e.by =< declared'
         /\ declared' \in Nat /\ declared =< declared'
    <2>1. OnlyRoot /\ roots'[root].declares = ds /\ roots'[root].rejected = R.rejected
      BY <1>5, <1>6, <1>7 DEF SameHeader
    <2> QED BY <1>1, <1>9, <1>14, <2>1, DeclaredHistory, EntriesAre DEF PassesInv
  <1>16. ASSUME NEW call \in Call, NEW r, r < root \/ (r = root /\ call.stale),
                CallOK(Range(registry), call, r, declared)
         PROVE  CallOK(Range(registry'), call, r, declared')
    <2>1. \A e \in N : e.by = declared + 1 /\ Lately(e, r, call.stale)
      BY <1>14, <1>16 DEF Adds, Lately
    <2>2. CallOK(Range(registry'), call, r, declared)
      <3>1. CallOK(Range(registry) \cup N, call, r, declared)
        BY <1>15, <1>16, <2>1, CallGrown
      <3> QED BY <1>14, <3>1 DEF Adds
    <2> QED BY <1>15, <2>2, CallLater
  <1>17. Calls'
    <2>1. ASSUME NEW r \in Root, NEW call \in roots'[r].calls
          PROVE  CallOK(Range(registry'), call, r, declared')
      <3>1. r # root /\ call \in roots[r].calls
        BY <1>5, <1>6, <1>9
      <3>2. call \in Call /\ CallOK(Range(registry), call, r, declared)
        BY <1>1, <3>1 DEF PassesInv, Types, Claim, Calls
      <3>3. r < root
        BY <1>1, <3>1, RootNumbers DEF PassesInv, Progress, Pending
      <3> QED BY <1>16, <3>2, <3>3
    <2>2. ASSUME NEW m \in memo PROVE CallOK(Range(registry'), Again(m), root, declared')
      <3>1. Again(m) \in Call /\ Again(m).stale /\ CallOK(Range(registry), Again(m), root, declared)
        BY <1>1 DEF PassesInv, Types, Calls, Again, Memory, Call
      <3> QED BY <1>16, <3>1
    <2> QED BY <1>1, <2>1, <2>2 DEF Calls
  <1>18. Histories'
    <2>1. ASSUME NEW i \in DOMAIN registry', i =< Fr'.registry, registry'[i].late
          PROVE  registry'[i].root < root'
      <3>1. i \in DOMAIN registry /\ registry'[i] = registry[i]
        BY <1>2, <1>3, <2>1, LenProperties, EntriesAre DEF PassesInv
      <3>2. registry[i] \in Range(registry)
        BY <3>1, EntriesAre DEF PassesInv
      <3> QED BY <1>1, <2>1, <3>1, <3>2 DEF PassesInv, Histories
    <2>2. ~FirstPass' /\ at' # "bodies"
      BY <1>1 DEF FirstPass
    <2> QED BY <1>1, <1>15, <2>1, <2>2 DEF Histories
  <1> QED BY <1>8, <1>10, <1>11, <1>12, <1>13, <1>17, <1>18 DEF PassesInv

LEMMA EnterAlternativeKeeps ==
    ASSUME PassesInv, EnterAlternative
    PROVE  PassesInv'
  <1>1. PICK t : \E w \in Work, ds \in Seq(Decl), mode \in {"none", "body"} :
            /\ Declaring(t, log \o w, ds, TRUE) /\ Declared(ds)
            /\ Entered(t, w, ds, mode) \/ GivenUp(t)
    BY AlternativeIs
  <1>2. PICK w \in Work, ds \in Seq(Decl), mode \in {"none", "body"} :
            /\ Declaring(t, log \o w, ds, TRUE) /\ Declared(ds)
            /\ Entered(t, w, ds, mode) \/ GivenUp(t)
    BY <1>1
  <1>3. Alternative
    BY AlternativeIs
  <1> QED BY <1>2, <1>3, EnteredKeeps, GivenUpKeeps

(* Without a second pass the first candidate is the selected one.          *)
LEMMA HeadersOnlyKeeps ==
    ASSUME PassesInv, HeadersOnly
    PROVE  PassesInv'
  <1>1. /\ at = "between" /\ at' = "frozen"
        /\ roots' = [r \in Root |-> [roots[r] EXCEPT !.selected = roots[r].first]]
        /\ UNCHANGED <<log, works, registry, order, context, frames, memo, declared, root, ranked>>
    BY DEF HeadersOnly
  <1>2. ASSUME NEW r \in Root
        PROVE  /\ roots'[r] \in Claim /\ roots'[r].selected = roots[r].first
               /\ roots'[r].claims = roots[r].claims /\ roots'[r].first = roots[r].first
               /\ roots'[r].directive = roots[r].directive /\ roots'[r].parent = roots[r].parent
               /\ roots'[r].context = roots[r].context /\ roots'[r].head = roots[r].head
               /\ roots'[r].body = roots[r].body /\ roots'[r].declares = roots[r].declares
               /\ roots'[r].calls = roots[r].calls /\ roots'[r].rejected = roots[r].rejected
    <2>1. roots[r] \in Claim
      BY DEF PassesInv, Types
    <2>2. roots'[r] = [roots[r] EXCEPT !.selected = roots[r].first]
      BY <1>1
    <2> QED BY <2>1, <2>2 DEF Claim
  <1>3. roots' \in [Root -> Claim]
    BY <1>1, <1>2
  <1>4. Types'
    BY <1>1, <1>3 DEF PassesInv, Types
  <1>5. Registry'
    BY <1>1 DEF PassesInv, Registry, Passed
  <1>6. Progress'
    <2>1. ASSUME NEW r \in Root, roots[r].declares # <<>> PROVE roots[r].first # 0
      <3>1. roots[r].claims # <<>> /\ Head(roots[r].claims) = roots[r].first
        BY <1>1, <2>1 DEF PassesInv, Progress, FirstPass
      <3>2. roots[r].claims \in Seq(Candidate)
        BY DEF PassesInv, Types, Claim
      <3>3. Head(roots[r].claims) \in Candidate
        BY <3>1, <3>2, HeadTailProperties
      <3> QED BY <3>1, <3>3 DEF Candidate
    <2>2. ASSUME NEW r \in Root, roots'[r].claims = <<>> PROVE roots'[r].declares = <<>>
      BY <1>2, <2>2 DEF PassesInv, Progress
    <2>3. ASSUME NEW r \in Root, roots'[r].declares # <<>> PROVE roots'[r].selected # 0
      BY <1>2, <2>1, <2>3
    <2> QED BY <1>1, <2>2, <2>3 DEF Progress, FirstPass, Pending, Over, Unseen
  <1>7. Contexts' /\ DirectivesScoped'
    <2>1. \A r \in Root : DirectivesBefore(r)' = DirectivesBefore(r)
      BY <1>2, DirectivesKept
    <2> QED BY <1>1, <1>2, <2>1 DEF PassesInv, Contexts, DirectivesScoped
  <1>8. Logs'
    <2>1. Heads' = Heads /\ Bodies' = Bodies
      BY <1>2 DEF Heads, Bodies
    <2> QED BY <1>1, <2>1 DEF PassesInv, Logs
  <1>9. declared \in Nat /\ declared =< declared'
    BY <1>1, EntriesAre DEF PassesInv
  <1>10. Calls'
    BY <1>1, <1>2, <1>9, CallsKept
  <1>11. Histories'
    <2>1. Declarers' = Declarers /\ Rejected' = Rejected
      BY <1>2, HistorySame
    <2>2. ~FirstPass' /\ at' # "bodies" /\ at' # "inside"
      BY <1>1 DEF FirstPass
    <2> QED BY <1>1, <1>9, <2>1, <2>2, HistoriesKept
  <1> QED BY <1>4, <1>5, <1>6, <1>7, <1>8, <1>10, <1>11 DEF PassesInv

-----------------------------------------------------------------------------
(* The first pass.                                                         *)
LEMMA FirstPassRoots ==
    ASSUME PassesInv, at \in {"match", "enter"}
    PROVE  /\ \A r \in Root : roots[r].body = <<>> /\ roots[r].calls = {}
           /\ \A r \in Root : r > root => roots[r] = Unclaimed
           /\ at = "match" => R = Unclaimed
           /\ FlattenSeq(Bodies) = <<>> /\ log = FlattenSeq(Heads)
           /\ memo = {} /\ Rejected = {} /\ \A e \in Range(registry) : ~e.late
  <1>1. \A r \in Root : roots[r].body = <<>> /\ roots[r].calls = {}
    BY DEF PassesInv, Progress, Pending, FirstPass
  <1>2. /\ \A r \in Root : r > root => roots[r] = Unclaimed
        /\ at = "match" => R = Unclaimed
    BY RootNumbers DEF PassesInv, Progress, Unseen, R
  <1>3. Heads \in [Root -> Work] /\ Bodies \in [Root -> Work]
    BY DEF Heads, Bodies, PassesInv, Types, Claim
  <1>4. FlattenSeq(Bodies) = <<>>
    <2>1. \A r \in Root : Bodies[r] = <<>>
      BY <1>1 DEF Bodies
    <2> QED BY <1>3, <2>1, FlattenNone
  <1>5. log = FlattenSeq(Heads)
    <2>1. FlattenSeq(Heads) \in Work
      BY <1>3, FlattenWork
    <2>2. log = FlattenSeq(Heads) \o <<>>
      BY <1>4 DEF PassesInv, Logs
    <2>3. FlattenSeq(Heads) \o <<>> = FlattenSeq(Heads)
      BY <2>1, EmptyWork
    <2> QED BY <2>2, <2>3
  <1>6. memo = {} /\ Rejected = {} /\ \A e \in Range(registry) : ~e.late
    BY DEF PassesInv, Histories, FirstPass
  <1> QED BY <1>1, <1>2, <1>4, <1>5, <1>6

(* A header faults: the root is as if it had not been there.               *)
LEMMA HeaderFaultKeeps ==
    ASSUME PassesInv, HeaderFault
    PROVE  PassesInv'
  <1>1. /\ at = "enter" /\ context' = R.parent /\ ranked' = <<>> /\ frames' = <<>>
        /\ ToNextRoot /\ UNCHANGED <<works, memo, declared>> /\ Becomes(RolledBack(Fr, Now))
        /\ roots' = [roots EXCEPT ![root] = Unclaimed]
    BY DEF HeaderFault, Fr
  <1> DEFINE k == Fr.registry
             cut == SubSeq(registry, 1, k)
  <1>2. /\ Types /\ registry \in Seq(Entry) /\ log \in Work /\ order \in Nat
        /\ Numbered(registry, order) /\ Marked
        /\ root \in Root /\ roots \in [Root -> Claim]
    BY <1>1 DEF PassesInv, Types, Registry
  <1>3. /\ Fr.log \in Work /\ k \in Nat /\ Fr.order \in Nat /\ k =< Len(registry)
        /\ \A i \in DOMAIN registry :
              IF i =< k THEN registry[i].order < Fr.order ELSE registry[i].root = root
        /\ \A i \in DOMAIN registry : i =< k => registry[i].root < root
    BY <1>1, <1>2, MarkIs DEF Marked, PassesInv, Registry, Passed
  <1>4. /\ Len(registry) \in Nat /\ DOMAIN registry = 1 .. Len(registry)
        /\ Range(registry) = {registry[i] : i \in 1 .. Len(registry)}
    BY <1>2, LenProperties DEF Range
  <1> HIDE DEF k
  <1>5. /\ cut \in Seq(Entry) /\ Len(cut) = k /\ Numbered(cut, Fr.order)
        /\ \A i \in 1 .. k : cut[i] = registry[i]
        /\ Range(cut) = {registry[i] : i \in 1 .. k}
    BY <1>2, <1>3, CutLaws
  <1>6. RolledBack(Fr, Now) = [log |-> Fr.log, registry |-> cut, order |-> Fr.order, ok |-> TRUE]
    <2>1. Now \in State /\ Now.registry = registry /\ Now.ok = TRUE
      BY <1>2, NowIs
    <2> QED BY <2>1, RolledBackIs DEF k
  <1> HIDE DEF cut
  <1>7. log' = Fr.log /\ registry' = cut /\ order' = Fr.order
    <2> DEFINE u == RolledBack(Fr, Now)
    <2>1. u.log = Fr.log /\ u.registry = cut /\ u.order = Fr.order
      BY <1>6
    <2>2. Becomes(u)
      BY <1>1
    <2> HIDE DEF u
    <2> QED BY <2>1, <2>2 DEF Becomes
  <1>8. Unclaimed \in Claim
    BY EmptySeq DEF Unclaimed, Claim, Ctx, Work
  <1>9. roots'[root] = Unclaimed /\ OnlyRoot /\ \A r \in Root : r # root => roots'[r] = roots[r]
    BY <1>1, <1>2, <1>8 DEF OnlyRoot
  <1>10. Types'
    <2>1. root' \in Root /\ at' \in {"match", "between"}
      BY <1>1, <1>2, RootIs DEF ToNextRoot
    <2>2. <<>> \in Seq(Mark) /\ <<>> \in Seq(Match) /\ Len(<<>>) = 0 /\ R.parent \in Ctx
      BY <1>2, ClaimIs, EmptySeq
    <2> QED BY <1>1, <1>2, <1>3, <1>5, <1>7, <1>9, <2>1, <2>2 DEF Types, OnlyRoot
  <1>11. Registry'
    <2>1. ASSUME NEW i \in DOMAIN registry' PROVE registry'[i].root < root + 1
      <3>1. i \in 1 .. k /\ registry'[i] = registry[i] /\ i \in DOMAIN registry
        BY <1>3, <1>4, <1>5, <1>7, LenProperties
      <3>2. registry[i].root < root
        BY <1>3, <3>1
      <3>3. registry[i].root \in Nat /\ root \in Nat
        <4>1. registry[i] \in Entry
          BY <1>2, <1>4, <3>1, ElementOfSeq
        <4> QED BY <1>2, <4>1, RootNumbers DEF Entry
      <3> QED BY <3>1, <3>2, <3>3
    <2> QED BY <1>1, <1>5, <1>7, <2>1 DEF Registry, Passed, ToNextRoot
  <1>12. \A r \in Root : /\ roots'[r].body = <<>> /\ roots'[r].calls = {}
                         /\ r > root => roots'[r] = Unclaimed
    BY <1>1, <1>9, FirstPassRoots DEF Unclaimed
  <1>13. Progress'
    <2>1. ASSUME NEW r \in Root, Unseen(r)' PROVE roots'[r] = Unclaimed
      BY <1>1, <1>12, <2>1, RootNumbers DEF PassesInv, Unseen, ToNextRoot
    <2>2. ASSUME NEW r \in Root
          PROVE  /\ roots'[r].claims # <<>> => Head(roots'[r].claims) = roots'[r].first
                 /\ roots'[r].directive => roots'[r].claims # <<>>
                 /\ roots'[r].claims = <<>> => roots'[r].declares = <<>>
      BY <1>1, <1>9 DEF Unclaimed, PassesInv, Progress, FirstPass
    <2>3. at' \in {"match", "between"} /\ (at' = "between" => root' = 1)
      BY <1>1 DEF ToNextRoot
    <2> QED BY <1>12, <2>1, <2>2, <2>3 DEF Progress, FirstPass, Pending, Over
  <1>14. Contexts'
    <2>1. ASSUME NEW r \in Root, roots'[r].claims # <<>>
          PROVE  /\ roots'[r].parent = DirectivesBefore(r)'
                 /\ roots'[r].context = Append(roots'[r].parent, <<r, roots'[r].first>>)
      <3>1. r < root /\ roots'[r] = roots[r]
        BY <1>2, <1>9, <1>12, <2>1, RootNumbers DEF Unclaimed
      <3>2. \A q \in Root : q < r => q # root
        BY <1>2, <3>1, RootNumbers
      <3>3. DirectivesBefore(r)' = DirectivesBefore(r)
        BY <1>9, <3>2, DirectivesKept
      <3> QED BY <1>1, <2>1, <3>1, <3>3 DEF PassesInv, Contexts
    <2> QED BY <1>1, <2>1 DEF Contexts, ToNextRoot
  <1>15. DirectivesScoped'
    <2>1. ASSUME root < Roots PROVE context' = DirectivesOf(roots', root + 1)
      <3> DEFINE rs == roots'
      <3>1. root + 1 \in Root /\ rs \in [Root -> Claim] /\ root \in Root
        BY <1>2, <1>9, <2>1, RootIs DEF OnlyRoot
      <3>2. rs[root].directive = FALSE
        BY <1>9 DEF Unclaimed
      <3>3. \A q \in Root : q < root => rs[q] = roots[q]
        BY <1>2, <1>9, RootNumbers
      <3> HIDE DEF rs
      <3>4. DirectivesOf(rs, root) = DirectivesOf(roots, root)
        BY <3>1, <3>3, DirectivesSame
      <3>5. DirectivesOf(rs, root + 1) = DirectivesOf(rs, root)
        BY <3>1, <3>2, DirectivesNext
      <3>6. R.parent = DirectivesOf(roots, root)
        BY <1>1, DirectivesAre DEF PassesInv, Contexts
      <3> QED BY <1>1, <3>4, <3>5, <3>6 DEF rs
    <2>2. \A r : DirectivesBefore(r)' = DirectivesOf(roots', r)
      BY DEF DirectivesBefore, DirectivesOf, Directives, One
    <2>3. at' = "match" => root < Roots /\ root' = root + 1
      BY <1>1 DEF ToNextRoot
    <2>4. at' # "inside"
      BY <1>1 DEF ToNextRoot
    <2> QED BY <2>1, <2>2, <2>3, <2>4 DEF DirectivesScoped
  <1>16. Logs'
    <2>1. Heads' = Less(Heads) /\ Heads' \in [Root -> Work]
      BY <1>2, <1>9, Changed DEF Unclaimed
    <2>2. FlattenSeq(Bodies') = <<>>
      <3>1. Bodies' \in [Root -> Work] /\ \A r \in Root : Bodies'[r] = <<>>
        BY <1>2, <1>9, <1>12, Changed DEF Bodies
      <3> QED BY <3>1, FlattenNone
    <2>3. log' = FlattenSeq(Heads') \o <<>>
      <3>1. log' = FlattenSeq(Heads')
        BY <1>1, <1>7, <2>1 DEF PassesInv, Logs
      <3>2. FlattenSeq(Heads') \o <<>> = FlattenSeq(Heads')
        BY <2>1, FlattenWork, EmptyWork
      <3> QED BY <3>1, <3>2
    <2> QED BY <1>1, <2>2, <2>3 DEF Logs, ToNextRoot
  <1>17. memo = {} /\ Rejected = {} /\ \A e \in Range(registry) : ~e.late
    BY <1>1, FirstPassRoots
  <1>18. Calls'
    BY <1>1, <1>12, <1>17 DEF Calls
  <1>19. Histories'
    <2> DEFINE C == Range(cut)
    <2>1. /\ Accounts(Range(registry), Declarers, Rejected)
          /\ \A e \in Range(registry) : e.by =< declared
      BY <1>1 DEF PassesInv, Histories
    <2>2. C \subseteq Range(registry)
      BY <1>3, <1>4, <1>5
    <2>3. \A e \in Range(registry) : e \in C \/ e.root = root
      BY <1>3, <1>4, <1>5
    <2>4. \A e \in C : e.root # root
      <3>1. ASSUME NEW i \in 1 .. k PROVE registry[i].root # root
        <4>1. registry[i].root < root
          BY <1>3, <1>4
        <4> QED BY <1>2, <4>1, RootNumbers
      <3> QED BY <1>5, <3>1
    <2>5. Declarers'[root] = {} /\ \A r \in Root : r # root => Declarers'[r] = Declarers[r]
      <3>1. Range(<<>>) = {} /\ roots'[root].declares = <<>>
        BY <1>9 DEF Range, Unclaimed
      <3>2. \A r \in Root : /\ Declarers[r] = Range(roots[r].declares)
                            /\ Declarers'[r] = Range(roots'[r].declares)
        BY DEF Declarers
      <3> QED BY <1>2, <1>9, <3>1, <3>2
    <2>6. Rejected' = Rejected
      <3>1. \A r \in Root : roots'[r].rejected => roots[r].rejected
        BY <1>9 DEF Unclaimed
      <3> QED BY <1>17, <3>1 DEF Rejected
    <2> HIDE DEF C
    <2>7. Accounts(C, Declarers', Rejected')
      BY <1>2, <2>1, <2>2, <2>3, <2>4, <2>5, <2>6, AccountsCut
    <2>8. Range(registry') = C
      BY <1>7 DEF C
    <2>9. at' # "bodies" /\ at' # "inside" /\ memo' = {}
      BY <1>1, <1>17 DEF ToNextRoot
    <2> QED BY <1>1, <1>17, <2>1, <2>2, <2>6, <2>7, <2>8, <2>9 DEF Histories
  <1> QED BY <1>10, <1>11, <1>13, <1>14, <1>15, <1>16, <1>18, <1>19 DEF PassesInv

(* A header that is accepted after another: one claim more.                *)
OneMore == [R EXCEPT !.claims = Append(R.claims, Head(ranked).cand)]

LEMMA OneMoreKeeps ==
    ASSUME PassesInv, TriedNext, R.claims # <<>>, roots' = [roots EXCEPT ![root] = OneMore]
    PROVE  PassesInv'
  <1>1. /\ at = "enter" /\ at' = at /\ ranked # <<>> /\ ranked' = Tail(ranked)
        /\ log' = log /\ registry' = registry /\ order' = order
        /\ works' \in 0 .. MaxWork /\ declared' \in 0 .. MaxDeclared /\ declared =< declared'
        /\ UNCHANGED <<context, frames, memo, root>>
    BY DEF TriedNext
  <1>2. /\ Tail(ranked) \in Seq(Match) /\ Head(ranked).cand \in Candidate
        /\ \A i \in DOMAIN Tail(ranked) : i + 1 \in DOMAIN ranked /\ Tail(ranked)[i] = ranked[i + 1]
    BY <1>1, RankedIs DEF PassesInv
  <1>3. /\ Append(R.claims, Head(ranked).cand) \in Seq(Candidate)
        /\ Append(R.claims, Head(ranked).cand) # <<>>
        /\ Head(Append(R.claims, Head(ranked).cand)) = Head(R.claims)
    <2> DEFINE s == R.claims
               x == Head(ranked).cand
               u == Append(s, x)
    <2>1. s \in Seq(Candidate) /\ s # <<>> /\ Head(s) = s[1] /\ x \in Candidate
      BY <1>2, ClaimIs DEF PassesInv
    <2> HIDE DEF s, x
    <2>2. Len(s) \in Nat /\ Len(s) >= 1
      BY <2>1, LenProperties, EmptySeq
    <2>3. /\ u \in Seq(Candidate) /\ Len(u) = Len(s) + 1
          /\ \A i \in 1 .. Len(s) : u[i] = s[i]
      BY <2>1, AppendProperties
    <2> HIDE DEF u
    <2>4. u # <<>> /\ u[1] = s[1]
      BY <2>2, <2>3, EmptySeq
    <2>5. Head(u) = u[1]
      BY <2>3, <2>4, HeadTailProperties
    <2> QED BY <2>1, <2>3, <2>4, <2>5 DEF s, x, u
  <1>4. /\ OneMore \in Claim /\ OneMore.claims = Append(R.claims, Head(ranked).cand)
        /\ OneMore.directive = R.directive /\ OneMore.first = R.first
        /\ OneMore.parent = R.parent /\ OneMore.context = R.context /\ OneMore.head = R.head
        /\ OneMore.body = R.body /\ OneMore.declares = R.declares /\ OneMore.calls = R.calls
        /\ OneMore.selected = R.selected /\ OneMore.rejected = R.rejected
    BY <1>3, ClaimIs DEF OneMore, PassesInv, Claim
  <1>5. roots'[root] = OneMore /\ OnlyRoot /\ \A r \in Root : r # root => roots'[r] = roots[r]
    BY <1>4 DEF OnlyRoot, PassesInv, Types
  <1>6. ASSUME NEW r \in Root
        PROVE  /\ roots'[r].directive = roots[r].directive /\ roots'[r].first = roots[r].first
               /\ roots'[r].parent = roots[r].parent /\ roots'[r].context = roots[r].context
               /\ roots'[r].head = roots[r].head /\ roots'[r].body = roots[r].body
               /\ roots'[r].declares = roots[r].declares /\ roots'[r].calls = roots[r].calls
               /\ roots'[r].rejected = roots[r].rejected
               /\ roots'[r].claims = <<>> <=> roots[r].claims = <<>>
               /\ roots'[r].claims # <<>> => Head(roots'[r].claims) = Head(roots[r].claims)
    BY <1>3, <1>4, <1>5 DEF R
  <1>7. \A r \in Root : DirectivesBefore(r)' = DirectivesBefore(r)
    BY <1>6, DirectivesKept
  <1>8. Types'
    BY <1>1, <1>2, <1>5 DEF PassesInv, Types, OnlyRoot
  <1>9. Registry'
    BY <1>1 DEF PassesInv, Registry, Marked, Passed, Fr
  <1>10. Progress'
    <2>1. \A r \in Root : Unseen(r)' => r # root /\ Unseen(r)
      BY <1>1, RootNumbers DEF PassesInv, Unseen
    <2>2. ASSUME NEW r \in Root, Unseen(r)' PROVE roots'[r] = Unclaimed
      BY <1>5, <2>1, <2>2 DEF PassesInv, Progress
    <2>3. ASSUME NEW r \in Root
          PROVE  /\ roots'[r].claims # <<>> => Head(roots'[r].claims) = roots'[r].first
                 /\ roots'[r].directive => roots'[r].claims # <<>>
                 /\ roots'[r].body = <<>> /\ roots'[r].calls = {}
                 /\ roots'[r].claims = <<>> => roots'[r].declares = <<>>
      BY <1>1, <1>6 DEF PassesInv, Progress, FirstPass, Pending
    <2> QED BY <1>1, <2>2, <2>3 DEF Progress, FirstPass, Pending, Over
  <1>11. Contexts' /\ DirectivesScoped'
    BY <1>1, <1>6, <1>7, RootNumbers DEF PassesInv, Contexts, DirectivesScoped, Fr, R
  <1>12. Logs'
    <2>1. Heads' = Heads /\ Bodies' = Bodies
      BY <1>6 DEF Heads, Bodies
    <2>2. Less(Heads)' = Less(Heads)
      BY <1>1, <2>1 DEF Less
    <2> QED BY <1>1, <1>2, <2>1, <2>2 DEF PassesInv, Logs, Fr
  <1>13. declared' \in Nat /\ declared =< declared'
    BY <1>1, Bounds
  <1>14. Calls'
    BY <1>1, <1>6, <1>13, CallsKept
  <1>15. Histories'
    <2>1. Declarers' = Declarers /\ Rejected' = Rejected
      BY <1>6, HistorySame
    <2>2. FirstPass
      BY <1>1 DEF FirstPass
    <2> QED BY <1>1, <1>13, <2>1, <2>2, HistoriesKept
  <1> QED BY <1>8, <1>9, <1>10, <1>11, <1>12, <1>14, <1>15 DEF PassesInv

(* The first header that is accepted: its work and its declarations.       *)
FirstOne(w, ds, mode) ==
    [R EXCEPT !.claims = <<Head(ranked).cand>>, !.first = Head(ranked).cand, !.mode = mode,
              !.directive = mode = "none", !.context = Append(Fr.context, <<root, Head(ranked).cand>>),
              !.declares = ds, !.head = WorkSince(Fr, Head(ranked).state) \o w]
Claiming ==
    /\ at = "enter" /\ ranked # <<>> /\ ranked' = Tail(ranked)
    /\ works' \in 0 .. MaxWork /\ declared' \in 0 .. MaxDeclared /\ declared =< declared'
    /\ UNCHANGED <<context, frames, memo, at, root>>

LEMMA FirstOneKeeps ==
    ASSUME PassesInv, Claiming, R.claims = <<>>,
           NEW w \in Work, NEW ds \in Seq(Decl), NEW mode \in {"none", "body"},
           NEW t, Declaring(t, Head(ranked).state \o w, ds, FALSE), t.ok, Becomes(t), Declared(ds),
           roots' = [roots EXCEPT ![root] = FirstOne(w, ds, mode)]
    PROVE  PassesInv'
  <1> DEFINE x == Head(ranked).cand
             state == Head(ranked).state
             c == FirstOne(w, ds, mode)
  <1>1. /\ at = "enter" /\ at' = at /\ ranked # <<>> /\ ranked' = Tail(ranked)
        /\ works' \in 0 .. MaxWork /\ declared' \in 0 .. MaxDeclared
        /\ UNCHANGED <<context, frames, memo, root>>
    BY DEF Claiming
  <1>2. /\ Tail(ranked) \in Seq(Match) /\ x \in Candidate /\ state \in Work
        /\ \A i \in DOMAIN Tail(ranked) : i + 1 \in DOMAIN ranked /\ Tail(ranked)[i] = ranked[i + 1]
        /\ state = ranked[1].state /\ 1 \in DOMAIN ranked
    BY <1>1, RankedIs DEF PassesInv
  <1>3. /\ log' = state \o w /\ registry' = t.registry /\ order' = t.order
        /\ registry' \in Seq(Entry) /\ order' \in Nat /\ order =< order'
        /\ Numbered(registry', order') /\ Len(registry) =< Len(registry')
        /\ \A j \in 1 .. Len(registry) : registry'[j] = registry[j]
        /\ \A j \in Len(registry) + 1 .. Len(registry') : registry'[j].root = root
        /\ \E N : Adds(Range(registry'), N, ds, FALSE)
    BY DEF Declaring, Becomes
  <1>4. /\ Types /\ root \in Root /\ roots \in [Root -> Claim]
        /\ Fr.log \in Work /\ Fr.context \in Ctx /\ Fr.registry \in Nat /\ Fr.order \in Nat
        /\ Fr.log = FlattenSeq(Less(Heads)) /\ Extends(Fr.log, state)
    BY <1>1, <1>2, MarkIs DEF PassesInv, Types, Logs
  <1> DEFINE since == WorkSince(Fr, state)
  <1>5. since \in Work /\ state = Fr.log \o since /\ since \o w \in Work
    <2>1. since = SubSeq(state, Len(Fr.log) + 1, Len(state))
      BY DEF WorkSince
    <2> HIDE DEF since, state
    <2>2. since \in Work /\ state = Fr.log \o since
      BY <1>2, <1>4, <2>1, ExtendsIs
    <2> QED BY <2>2, WorkType
  <1>6. <<x>> \in Seq(Candidate) /\ <<x>> # <<>> /\ Head(<<x>>) = x /\ x \in Nat
    <2> HIDE DEF x
    <2> QED BY <1>2 DEF Candidate
  <1>7. Append(Fr.context, <<root, x>>) \in Ctx
    <2>1. <<root, x>> \in Root \X Nat
      BY <1>4, <1>6
    <2> HIDE DEF x
    <2> QED BY <1>4, <2>1, AppendProperties DEF Ctx
  <1>8. /\ c \in Claim /\ c.claims = <<x>> /\ c.first = x
        /\ c.context = Append(Fr.context, <<root, x>>) /\ c.declares = ds
        /\ c.head = since \o w /\ c.parent = R.parent /\ c.body = R.body /\ c.calls = R.calls
        /\ c.rejected = R.rejected
    <2> HIDE DEF x, since, state
    <2>1. c = [R EXCEPT !.claims = <<x>>, !.first = x, !.mode = mode,
                  !.directive = mode = "none", !.context = Append(Fr.context, <<root, x>>),
                  !.declares = ds, !.head = since \o w]
      BY DEF FirstOne, x, since, state
    <2> HIDE DEF c
    <2>2. R \in Claim
      BY <1>4, ClaimIs
    <2> QED BY <1>5, <1>6, <1>7, <2>1, <2>2 DEF Claim
  <1> HIDE DEF c, x, state, since
  <1>9. roots'[root] = c /\ OnlyRoot /\ \A r \in Root : r # root => roots'[r] = roots[r]
    BY <1>4, <1>8 DEF OnlyRoot, c
  <1>10. /\ \A r \in Root : roots'[r].body = <<>> /\ roots'[r].calls = {}
         /\ \A r \in Root : r > root => roots'[r] = Unclaimed
    BY <1>1, <1>4, <1>8, <1>9, FirstPassRoots, RootNumbers DEF R
  <1>11. Types'
    <2>1. log' \in Work
      BY <1>2, <1>3, WorkType
    <2> QED BY <1>1, <1>2, <1>3, <1>4, <1>9, <2>1 DEF Types, OnlyRoot
  <1>12. Registry'
    <2>1. /\ DOMAIN registry = 1 .. Len(registry) /\ Len(registry) \in Nat
          /\ DOMAIN registry' = 1 .. Len(registry') /\ Len(registry') \in Nat
      BY <1>3, <1>4, LenProperties DEF Types
    <2>2. Marked /\ \A i \in DOMAIN registry : i =< Fr.registry => registry[i].root < root
      BY <1>1 DEF PassesInv, Registry, Passed
    <2>3. ASSUME NEW i \in DOMAIN registry'
          PROVE  /\ IF i =< Fr.registry THEN registry'[i].order < Fr.order ELSE registry'[i].root = root
                 /\ i =< Fr.registry => registry'[i].root < root
      <3>1. CASE i =< Len(registry)
        <4>1. i \in DOMAIN registry /\ registry'[i] = registry[i]
          BY <1>3, <2>1, <3>1
        <4> QED BY <2>2, <4>1 DEF Marked
      <3>2. CASE ~(i =< Len(registry))
        <4>1. registry'[i].root = root /\ ~(i =< Fr.registry)
          BY <1>3, <1>4, <2>1, <2>2, <3>2 DEF Marked
        <4> QED BY <4>1
      <3> QED BY <3>1, <3>2
    <2>4. Marked' /\ Passed'
      <3>1. Fr.registry =< Len(registry') /\ Fr.order =< order'
        BY SMTT(30), <1>3, <1>4, <2>1, <2>2 DEF Marked, Types
      <3>2. Fr' = Fr
        BY <1>1 DEF Fr
      <3> QED BY <1>1, <2>3, <3>1, <3>2 DEF Marked, Passed
    <2> QED BY <1>1, <1>3, <2>4 DEF Registry
  <1>13. Progress'
    <2>1. \A r \in Root : Unseen(r)' => r > root
      BY <1>1 DEF Unseen
    <2>2. ASSUME NEW r \in Root
          PROVE  /\ roots'[r].claims # <<>> => Head(roots'[r].claims) = roots'[r].first
                 /\ roots'[r].directive => roots'[r].claims # <<>>
                 /\ roots'[r].claims = <<>> => roots'[r].declares = <<>>
      <3>1. CASE r = root
        <4>1. roots'[r].claims = <<x>> /\ roots'[r].first = x
          BY <1>8, <1>9, <3>1
        <4> QED BY <1>6, <4>1
      <3>2. CASE r # root
        BY <1>1, <1>9, <3>2 DEF PassesInv, Progress, FirstPass
      <3> QED BY <3>1, <3>2
    <2> QED BY <1>1, <1>10, <2>1, <2>2 DEF Progress, FirstPass, Pending, Over
  <1>14. Contexts' /\ DirectivesScoped'
    <2>1. ASSUME NEW r \in Root, r =< root PROVE DirectivesBefore(r)' = DirectivesBefore(r)
      <3>1. \A q \in Root : q < r => q # root
        BY <1>4, <2>1, RootNumbers
      <3> QED BY <1>9, <3>1, DirectivesKept
    <2>2. R.parent = DirectivesBefore(root) /\ context = R.parent /\ Fr.context = context
      BY <1>1 DEF PassesInv, Contexts
    <2>3. root =< root
      BY <1>4, RootNumbers
    <2>4. ASSUME NEW r \in Root, roots'[r].claims # <<>>
          PROVE  /\ roots'[r].parent = DirectivesBefore(r)'
                 /\ roots'[r].context = Append(roots'[r].parent, <<r, roots'[r].first>>)
      <3>1. CASE r = root
        BY <1>4, <1>8, <1>9, <2>1, <2>2, <2>3, <3>1
      <3>2. CASE r # root
        <4>1. r =< root /\ roots'[r] = roots[r]
          BY <1>4, <1>9, <1>10, <2>4, <3>2, RootNumbers DEF Unclaimed
        <4> QED BY <1>1, <2>1, <2>4, <4>1 DEF PassesInv, Contexts
      <3> QED BY <3>1, <3>2
    <2>5. R' = c /\ Fr' = Fr
      BY <1>1, <1>9 DEF R, Fr
    <2>6. DirectivesBefore(root)' = DirectivesBefore(root)
      <3>1. root' = root
        BY <1>1
      <3> QED BY <1>4, <2>1, <2>3, <3>1
    <2>7. Contexts'
      BY <1>1, <1>8, <2>2, <2>4, <2>5, <2>6 DEF Contexts
    <2> QED BY <1>1, <2>7 DEF DirectivesScoped
  <1>15. Logs'
    <2>1. /\ \A r \in Root : r > root => roots'[r].head = <<>>
          /\ \A r \in Root : roots'[r].body = <<>>
      BY <1>10 DEF Unclaimed
    <2>2. FlattenSeq(Heads') \o FlattenSeq(Bodies') =
              FlattenSeq(Less(Heads)) \o roots'[root].head
      BY <1>4, <1>9, <2>1, LogOfHeaders
    <2>3. log' = FlattenSeq(Heads') \o FlattenSeq(Bodies')
      <3>1. (Fr.log \o since) \o w = Fr.log \o (since \o w)
        BY <1>4, <1>5, WorkAssociative
      <3>2. roots'[root].head = since \o w
        BY <1>8, <1>9
      <3> QED BY <1>3, <1>4, <1>5, <2>2, <3>1, <3>2
    <2>4. Less(Heads)' = Less(Heads)
      <3>1. Without(Heads', root) = Less(Heads)
        BY <1>4, <1>9, Changed
      <3> QED BY <1>1, <3>1 DEF Less, Without
    <2>5. Fr' = Fr
      BY <1>1 DEF Fr
    <2> QED BY <1>1, <1>2, <2>3, <2>4, <2>5 DEF PassesInv, Logs
  <1>16. memo = {} /\ Rejected = {} /\ \A e \in Range(registry) : ~e.late
    BY <1>1, FirstPassRoots
  <1>17. Calls'
    BY <1>1, <1>10, <1>16 DEF Calls
  <1>18. Histories'
    <2>1. PICK N : Adds(Range(registry'), N, ds, FALSE)
      BY <1>3
    <2>2. /\ R.declares = <<>> /\ roots'[root].declares = ds /\ roots'[root].rejected = R.rejected
      BY <1>4, <1>8, <1>9 DEF PassesInv, Progress, R
    <2>3. /\ Accounts(Range(registry'), Declarers', Rejected') /\ Rejected' = Rejected
          /\ \A e \in Range(registry') : e.by =< declared'
      BY <1>1, <1>9, <2>1, <2>2, DeclaredHistory
    <2>4. \A e \in Range(registry') : ~e.late
      BY <1>16, <2>1 DEF Adds
    <2> QED BY <1>1, <1>16, <2>3, <2>4 DEF Histories
  <1> QED BY <1>11, <1>12, <1>13, <1>14, <1>15, <1>17, <1>18 DEF PassesInv

HeaderEntered(t, w, ds, mode) ==
    IF R.claims = <<>> /\ t.ok
    THEN Becomes(t) /\ roots' = [roots EXCEPT ![root] = FirstOne(w, ds, mode)]
    ELSE /\ log' = log /\ registry' = registry /\ order' = order
         /\ roots' = IF t.ok THEN [roots EXCEPT ![root] = OneMore] ELSE roots

LEMMA EnterHeaderIs ==
    ASSUME PassesInv, EnterHeader
    PROVE  /\ Claiming
           /\ \E t : \E w \in Work, ds \in Seq(Decl), mode \in {"none", "body"} :
                 /\ Declaring(t, Head(ranked).state \o w, ds, FALSE) /\ Declared(ds)
                 /\ HeaderEntered(t, w, ds, mode)
  <1>1. PICK w \in Works, ds \in Declarations, mode \in {"none", "body"} :
            LET c     == Head(ranked)
                after == Registered([Now EXCEPT !.log = Activated(c) \o w], ds, FALSE)
                first == R.claims = <<>>
                own   == Append(frames[1].context, <<root, c.cand>>)
            IN
            /\ Becomes(Finished(first /\ after.ok, Saved(context), after))
            /\ roots' = [roots EXCEPT ![root] =
                   IF ~after.ok THEN @
                   ELSE IF ~first THEN [@ EXCEPT !.claims = Append(R.claims, c.cand)]
                   ELSE [@ EXCEPT !.claims = <<c.cand>>, !.first = c.cand, !.mode = mode,
                                  !.directive = mode = "none", !.context = own, !.declares = ds,
                                  !.head = WorkSince(frames[1], c.state) \o w]]
            /\ Wrote(w) /\ Declared(ds)
    BY DEF EnterHeader
  <1>2. Types /\ Numbered(registry, order) /\ ranked # <<>> /\ root \in Root /\ roots \in [Root -> Claim]
    BY DEF PassesInv, Registry, Types, EnterHeader
  <1>3. w \in Work /\ works' \in 0 .. MaxWork
    BY <1>1, <1>2, WorkIs DEF Wrote
  <1>4. ds \in Seq(Decl) /\ declared' \in 0 .. MaxDeclared /\ declared =< declared' /\ Declared(ds)
    <2>1. Declared(ds) /\ declared \in Nat
      BY <1>1, <1>2, EntriesAre
    <2> QED BY <1>1, <1>2, <2>1, DeclarationIs DEF Declared
  <1> DEFINE x == Head(ranked).state \o w
             t == Registered([Now EXCEPT !.log = x], ds, FALSE)
  <1>5. x \in Work
    BY <1>2, <1>3, RankedIs, WorkType
  <1>6. Declaring(t, x, ds, FALSE)
    BY <1>2, <1>4, <1>5, DeclaringIs
  <1>7. Becomes(Finished(R.claims = <<>> /\ t.ok, Saved(context), t))
    BY <1>1 DEF Activated
  <1>8. roots' = [roots EXCEPT ![root] =
                     IF ~t.ok THEN R ELSE IF R.claims # <<>> THEN OneMore ELSE FirstOne(w, ds, mode)]
    <2>1. roots' = [roots EXCEPT ![root] =
               IF ~t.ok THEN @
               ELSE IF ~(R.claims = <<>>) THEN [@ EXCEPT !.claims = Append(R.claims, Head(ranked).cand)]
               ELSE [@ EXCEPT !.claims = <<Head(ranked).cand>>, !.first = Head(ranked).cand,
                              !.mode = mode, !.directive = mode = "none",
                              !.context = Append(Fr.context, <<root, Head(ranked).cand>>),
                              !.declares = ds, !.head = WorkSince(Fr, Head(ranked).state) \o w]]
      BY <1>1 DEF Activated, Fr
    <2> HIDE DEF t, x
    <2>2. CASE ~t.ok
      BY <1>2, <2>1, <2>2 DEF R
    <2>3. CASE t.ok /\ R.claims # <<>>
      <3>1. roots' = [roots EXCEPT ![root] = [@ EXCEPT !.claims = Append(R.claims, Head(ranked).cand)]]
        BY <2>1, <2>3
      <3>2. roots' = [roots EXCEPT ![root] = OneMore]
        BY <1>2, <3>1 DEF R, OneMore
      <3> QED BY <2>3, <3>2
    <2>4. CASE t.ok /\ R.claims = <<>>
      BY <1>2, <2>1, <2>4 DEF R, FirstOne
    <2> QED BY <2>2, <2>3, <2>4
  <1> HIDE DEF t
  <1>9. HeaderEntered(t, w, ds, mode)
    <2>1. CASE R.claims = <<>> /\ t.ok
      BY <1>7, <1>8, <2>1 DEF HeaderEntered, Finished
    <2>2. CASE ~(R.claims = <<>> /\ t.ok)
      <3>1. RolledBack(Saved(context), t) =
                [log |-> log, registry |-> registry, order |-> order, ok |-> t.ok]
        BY <1>6 DEF Declaring
      <3>2. Becomes(RolledBack(Saved(context), t))
        BY <1>7, <2>2 DEF Finished
      <3>3. log' = log /\ registry' = registry /\ order' = order
        BY <3>1, <3>2 DEF Becomes
      <3>4. roots' = IF t.ok THEN [roots EXCEPT ![root] = OneMore] ELSE roots
        <4>1. [roots EXCEPT ![root] = R] = roots
          BY <1>2 DEF R
        <4> QED BY <1>8, <2>2, <4>1
      <3> QED BY <2>2, <3>3, <3>4 DEF HeaderEntered
    <2> QED BY <2>1, <2>2
  <1>10. Claiming
    BY <1>3, <1>4 DEF EnterHeader, Claiming
  <1> QED BY <1>3, <1>4, <1>6, <1>9, <1>10

LEMMA EnterHeaderKeeps ==
    ASSUME PassesInv, EnterHeader
    PROVE  PassesInv'
  <1>1. PICK t : \E w \in Work, ds \in Seq(Decl), mode \in {"none", "body"} :
            /\ Declaring(t, Head(ranked).state \o w, ds, FALSE) /\ Declared(ds)
            /\ HeaderEntered(t, w, ds, mode)
    BY EnterHeaderIs
  <1>2. PICK w \in Work, ds \in Seq(Decl), mode \in {"none", "body"} :
            /\ Declaring(t, Head(ranked).state \o w, ds, FALSE) /\ Declared(ds)
            /\ HeaderEntered(t, w, ds, mode)
    BY <1>1
  <1>3. Claiming
    BY EnterHeaderIs
  <1>4. CASE R.claims = <<>> /\ t.ok
    BY <1>2, <1>3, <1>4, FirstOneKeeps DEF HeaderEntered
  <1>5. CASE ~(R.claims = <<>> /\ t.ok)
    <2>1. /\ log' = log /\ registry' = registry /\ order' = order
          /\ roots' = IF t.ok THEN [roots EXCEPT ![root] = OneMore] ELSE roots
      BY <1>2, <1>5 DEF HeaderEntered
    <2>2. TriedNext
      BY <1>3, <2>1 DEF Claiming, TriedNext
    <2> QED BY <1>5, <2>1, <2>2, OneMoreKeeps, TriedKeeps
  <1> QED BY <1>4, <1>5

(* The headers of a root are matched.                                      *)
Matching(n, writing) ==
    LET Done(i) == IF i \in writing
                   THEN <<works + Cardinality({j \in writing : j <= i})>> ELSE <<>>
        first   == IF n = 0 THEN <<>> ELSE Done(1)
    IN
    /\ works + Cardinality(writing) <= MaxWork
    /\ ranked' = [i \in 1 .. n |-> [cand |-> i, state |-> log \o Done(i)]]
    /\ log' = log \o first
    /\ works' = works + Cardinality(writing)
    /\ roots' = [roots EXCEPT ![root].parent = context, ![root].head = first]

LEMMA MatchHeaderKeeps ==
    ASSUME PassesInv, MatchHeader
    PROVE  PassesInv'
  <1>0. PICK n \in 0 .. MaxRanked : \E writing \in SUBSET (1 .. n) : Matching(n, writing)
    BY DEF MatchHeader, Matching
  <1>1. PICK writing \in SUBSET (1 .. n) : Matching(n, writing)
    BY <1>0
  <1> DEFINE Done(i) == IF i \in writing
                        THEN <<works + Cardinality({j \in writing : j <= i})>> ELSE <<>>
             first   == IF n = 0 THEN <<>> ELSE Done(1)
  <1>2. /\ works + Cardinality(writing) <= MaxWork
        /\ ranked' = [i \in 1 .. n |-> [cand |-> i, state |-> log \o Done(i)]]
        /\ log' = log \o first
        /\ works' = works + Cardinality(writing)
        /\ roots' = [roots EXCEPT ![root].parent = context, ![root].head = first]
    BY <1>1 DEF Matching
  <1>3. /\ at = "match" /\ at' = "enter" /\ frames' = <<Saved(context)>>
        /\ UNCHANGED <<registry, order, context, memo, declared, root>>
    BY DEF MatchHeader
  <1>4. /\ Types /\ root \in Root /\ roots \in [Root -> Claim] /\ context \in Ctx /\ log \in Work
        /\ works \in Nat /\ n \in Nat
    BY Bounds DEF PassesInv, Types
  <1>5. /\ Fr'.log = log /\ Fr'.registry = Len(registry) /\ Fr'.order = order
        /\ Fr'.context = context /\ frames' \in Seq(Mark) /\ Len(frames') = 1
    BY <1>3, <1>4, SavedIs DEF Fr
  <1>6. \A s \in SUBSET writing : Cardinality(s) \in Nat
    <2>1. IsFiniteSet(1 .. n)
      BY <1>4, FS_Interval
    <2> QED BY <2>1, FS_Subset, FS_CardinalityType
  <1>7. \A i : Done(i) \in Work
    <2>1. \A k \in Nat : <<works + k>> \in Work
      BY <1>4 DEF Work
    <2>2. \A i : Cardinality({j \in writing : j <= i}) \in Nat
      BY <1>6
    <2> QED BY <2>1, <2>2, EmptyWork
  <1> HIDE DEF Done
  <1>8. first \in Work
    BY <1>7, EmptyWork
  <1> HIDE DEF first
  <1>9. works' \in 0 .. MaxWork
    BY <1>2, <1>4, <1>6, Bounds
  <1>10. ranked' \in Seq(Match) /\ \A i \in DOMAIN ranked' : Extends(log, ranked'[i].state)
    <2>1. \A i \in 1 .. n : log \o Done(i) \in Work /\ Extends(log, log \o Done(i))
      BY <1>4, <1>7, ConcatExtends
    <2>2. \A i \in 1 .. n : [cand |-> i, state |-> log \o Done(i)] \in Match
      BY <2>1 DEF Match, Candidate
    <2>3. ranked' \in [1 .. n -> Match]
      BY <1>2, <2>2
    <2>4. ranked' \in Seq(Match)
      <3>1. ranked' \in UNION {[1 .. m -> Match] : m \in Nat}
        BY <1>4, <2>3
      <3> QED BY <3>1, SeqDef, Zenon
    <2> QED BY <1>2, <2>1, <2>4
  <1> DEFINE c == [Unclaimed EXCEPT !.parent = context, !.head = first]
  <1>11. R = Unclaimed
    BY <1>3, FirstPassRoots
  <1>12. roots' = [roots EXCEPT ![root] = c]
    BY <1>2, <1>4, <1>11 DEF R
  <1>13. /\ c \in Claim /\ c.claims = <<>> /\ c.directive = FALSE /\ c.first = 0
         /\ c.parent = context /\ c.head = first /\ c.body = <<>> /\ c.declares = <<>>
         /\ c.calls = {} /\ c.rejected = FALSE
    <2>1. Unclaimed \in Claim
      BY EmptySeq DEF Unclaimed, Claim, Ctx, Work
    <2>2. c \in Claim
      BY <1>4, <1>8, <2>1 DEF Claim
    <2> QED BY <2>2 DEF Unclaimed
  <1> HIDE DEF c
  <1>14. roots'[root] = c /\ OnlyRoot /\ \A r \in Root : r # root => roots'[r] = roots[r]
    BY <1>4, <1>12, <1>13 DEF OnlyRoot
  <1>15. /\ \A r \in Root : roots'[r].body = <<>> /\ roots'[r].calls = {}
         /\ \A r \in Root : r > root => roots'[r] = Unclaimed
    BY <1>3, <1>4, <1>13, <1>14, FirstPassRoots, RootNumbers
  <1>16. Types'
    <2>1. log' \in Work
      BY <1>2, <1>4, <1>8, WorkType
    <2> QED BY <1>3, <1>4, <1>5, <1>9, <1>10, <1>14, <2>1 DEF Types, OnlyRoot
  <1>17. Registry'
    <2>1. DOMAIN registry = 1 .. Len(registry) /\ Len(registry) \in Nat /\ order \in Nat
      BY <1>4, LenProperties DEF Types
    <2>2. Marked' /\ Passed'
      BY <1>3, <1>5, <2>1 DEF PassesInv, Registry, Numbered, Marked, Passed
    <2> QED BY <1>3, <2>2 DEF PassesInv, Registry
  <1>18. Progress'
    <2>1. \A r \in Root : Unseen(r)' => r > root
      BY <1>3 DEF Unseen
    <2>2. ASSUME NEW r \in Root
          PROVE  /\ roots'[r].claims # <<>> => Head(roots'[r].claims) = roots'[r].first
                 /\ roots'[r].directive => roots'[r].claims # <<>>
                 /\ roots'[r].claims = <<>> => roots'[r].declares = <<>>
      BY <1>3, <1>13, <1>14 DEF PassesInv, Progress, FirstPass
    <2> QED BY <1>3, <1>15, <2>1, <2>2 DEF Progress, FirstPass, Pending, Over
  <1>19. Contexts' /\ DirectivesScoped'
    <2>1. \A r \in Root : /\ roots'[r].directive = roots[r].directive
                          /\ roots'[r].first = roots[r].first
      <3>1. R.directive = FALSE /\ R.first = 0
        BY <1>11 DEF Unclaimed
      <3> QED BY <1>13, <1>14, <3>1 DEF R
    <2>2. \A r \in Root : DirectivesBefore(r)' = DirectivesBefore(r)
      BY <2>1, DirectivesKept
    <2>3. context = DirectivesBefore(root)
      BY <1>3 DEF PassesInv, DirectivesScoped
    <2>4. R' = c
      BY <1>3, <1>14 DEF R
    <2>5. ASSUME NEW r \in Root, roots'[r].claims # <<>>
          PROVE  /\ roots'[r].parent = DirectivesBefore(r)
                 /\ roots'[r].context = Append(roots'[r].parent, <<r, roots'[r].first>>)
      BY <1>3, <1>13, <1>14, <2>5 DEF PassesInv, Contexts
    <2>6. Contexts'
      BY <1>3, <1>4, <1>5, <1>13, <2>2, <2>3, <2>4, <2>5 DEF Contexts
    <2> QED BY <1>3, <2>6 DEF DirectivesScoped
  <1>20. Logs'
    <2>1. /\ \A r \in Root : r > root => roots'[r].head = <<>>
          /\ \A r \in Root : roots'[r].body = <<>>
      BY <1>15 DEF Unclaimed
    <2>2. FlattenSeq(Heads') \o FlattenSeq(Bodies') =
              FlattenSeq(Less(Heads)) \o roots'[root].head
      BY <1>4, <1>14, <2>1, LogOfHeaders
    <2>3. log = FlattenSeq(Less(Heads))
      <3>1. Heads = Less(Heads)
        BY <1>4, <1>11, <1>14, Changed DEF Unclaimed
      <3> QED BY <1>3, <3>1, FirstPassRoots
    <2>4. log' = FlattenSeq(Heads') \o FlattenSeq(Bodies')
      BY <1>2, <1>13, <1>14, <2>2, <2>3
    <2>5. Less(Heads)' = Less(Heads)
      <3>1. Without(Heads', root) = Less(Heads)
        BY <1>4, <1>14, Changed
      <3> QED BY <1>3, <3>1 DEF Less, Without
    <2> QED BY <1>3, <1>5, <1>10, <2>3, <2>4, <2>5 DEF Logs
  <1>21. Calls'
    BY <1>3, <1>15, FirstPassRoots DEF Calls
  <1>22. Histories'
    <2>1. \A r \in Root : /\ roots'[r].declares = roots[r].declares
                          /\ roots'[r].rejected = roots[r].rejected
      <3>1. R.declares = <<>> /\ R.rejected = FALSE
        BY <1>11 DEF Unclaimed
      <3>2. roots'[root].declares = R.declares /\ roots'[root].rejected = R.rejected
        BY <1>13, <1>14, <3>1
      <3> QED BY <1>14, <3>2 DEF R
    <2>2. Declarers' = Declarers /\ Rejected' = Rejected
      BY <2>1, HistorySame
    <2>3. FirstPass /\ declared' \in Nat /\ declared =< declared'
      BY <1>3, <1>4, EntriesAre DEF FirstPass
    <2> QED BY <1>3, <2>2, <2>3, HistoriesKept
  <1> QED BY <1>16, <1>17, <1>18, <1>19, <1>20, <1>21, <1>22 DEF PassesInv

-----------------------------------------------------------------------------
(* The invariant and what follows from it.                                 *)
LEMMA InitPasses ==
    ASSUME Init
    PROVE  PassesInv
  <1> USE DEF Init
  <1>1. Unclaimed \in Claim
    BY EmptySeq DEF Unclaimed, Claim, Ctx, Work
  <1>2. roots \in [Root -> Claim] /\ \A r \in Root : roots[r] = Unclaimed
    BY <1>1
  <1>3. \A r \in Root : /\ roots[r].claims = <<>> /\ roots[r].declares = <<>>
                        /\ roots[r].directive = FALSE /\ roots[r].calls = {}
                        /\ roots[r].rejected = FALSE
                        /\ roots[r].head = <<>> /\ roots[r].body = <<>>
    BY <1>2 DEF Unclaimed
  <1>4. Types
    BY <1>2, RootIs, Bounds, EmptySeq DEF Types, Work, Ctx
  <1>5. Registry
    <2>1. DOMAIN registry = {}
      OBVIOUS
    <2> QED BY <2>1 DEF Registry, Numbered, Passed
  <1>6. Progress
    BY <1>2, <1>3 DEF Progress, FirstPass, Pending, Over, Unseen
  <1>7. Contexts
    BY <1>3 DEF Contexts
  <1>8. DirectivesScoped
    <2>1. DirectivesBefore(1) = <<>>
      BY DirectivesFirst, DirectivesAre
    <2> QED BY <2>1 DEF DirectivesScoped
  <1>9. Logs
    <2>1. Heads \in [Root -> Work] /\ Bodies \in [Root -> Work]
      BY <1>3, EmptyWork DEF Heads, Bodies
    <2>2. \A r \in Root : Heads[r] = <<>> /\ Bodies[r] = <<>>
      BY <1>3 DEF Heads, Bodies
    <2>3. FlattenSeq(Heads) = <<>> /\ FlattenSeq(Bodies) = <<>>
      BY <2>1, <2>2, FlattenNone
    <2>4. <<>> = FlattenSeq(Heads) \o FlattenSeq(Bodies)
      BY <2>3, EmptyWork
    <2> QED BY <2>4 DEF Logs
  <1>10. Calls
    BY <1>3 DEF Calls
  <1>11. Histories
    <2>1. Range(registry) = {}
      BY DEF Range
    <2>2. Declarers = [r \in Root |-> {}] /\ Rejected = {}
      <3>1. \A r \in Root : Range(roots[r].declares) = {}
        BY <1>3 DEF Range
      <3> QED BY <1>3, <3>1 DEF Declarers, Rejected
    <2>3. Accounts({}, [r \in Root |-> {}], {})
      BY DEF Accounts, Account
    <2> QED BY <2>1, <2>2, <2>3 DEF Histories
  <1> QED BY <1>4, <1>5, <1>6, <1>7, <1>8, <1>9, <1>10, <1>11 DEF PassesInv

LEMMA NextPasses ==
    ASSUME PassesInv, [Next]_vars
    PROVE  PassesInv'
  <1>1. CASE MatchHeader
    BY <1>1, MatchHeaderKeeps
  <1>2. CASE EnterHeader
    BY <1>2, EnterHeaderKeeps
  <1>3. CASE RejectHeader
    BY <1>3, RejectHeaderKeeps
  <1>4. CASE FinishHeader
    BY <1>4, FinishHeaderKeeps
  <1>5. CASE HeaderFault
    BY <1>5, HeaderFaultKeeps
  <1>6. CASE HeadersOnly
    BY <1>6, HeadersOnlyKeeps
  <1>7. CASE StartBodies
    BY <1>7, StartBodiesKeeps
  <1>8. CASE SkipBody
    BY <1>8, SkipBodyKeeps
  <1>9. CASE BeginBody
    BY <1>9, BeginBodyKeeps
  <1>10. CASE EnterAlternative
    BY <1>10, EnterAlternativeKeeps
  <1>11. CASE WriteInBody
    BY <1>11, WriteInBodyKeeps
  <1>12. CASE CallInBody
    BY <1>12, CallInBodyKeeps
  <1>13. CASE AcceptBody
    BY <1>13, AcceptBodyKeeps
  <1>14. CASE RejectBody
    BY <1>14, RejectBodyKeeps
  <1>15. CASE BodyFault
    BY <1>15, BodyFaultKeeps
  <1>16. CASE Fail
    BY <1>16, FailKeeps
  <1>17. CASE UNCHANGED vars
    BY <1>17, StutteringKeeps
  <1> QED BY <1>1, <1>2, <1>3, <1>4, <1>5, <1>6, <1>7, <1>8, <1>9, <1>10, <1>11, <1>12, <1>13,
             <1>14, <1>15, <1>16, <1>17 DEF Next

LEMMA PassesInvariant == Spec => []PassesInv
  <1>1. Init => PassesInv
    BY InitPasses
  <1>2. PassesInv /\ [Next]_vars => PassesInv'
    BY NextPasses
  <1> QED BY <1>1, <1>2, PTL DEF Spec

LEMMA PassesTyped == ASSUME PassesInv PROVE TypeOK
  <1>1. /\ Types /\ Numbered(registry, order)
        /\ at \in {"enter", "inside"} => Fr.registry =< Len(registry)
    BY DEF PassesInv, Registry, Marked
  <1>2. \A i \in DOMAIN frames : frames[i].registry =< Len(registry)
    <2>1. DOMAIN frames = 1 .. Len(frames)
      BY <1>1, LenProperties DEF Types
    <2>2. CASE at \in {"enter", "inside"}
      <3>1. \A i \in DOMAIN frames : i = 1
        BY <1>1, <2>1, <2>2 DEF Types
      <3> QED BY <1>1, <2>2, <3>1 DEF Fr
    <2>3. CASE at \notin {"enter", "inside"}
      <3>1. DOMAIN frames = {}
        BY <1>1, <2>1, <2>3 DEF Types
      <3> QED BY <3>1
    <2> QED BY <2>2, <2>3
  <1> QED BY <1>1, <1>2 DEF TypeOK, Types, Numbered

LEMMA PassesKept == ASSUME PassesInv PROVE KeptWork
  BY DEF PassesInv, Logs, KeptWork, Heads, Bodies

LEMMA PassesSelected == ASSUME PassesInv PROVE SnapshotOfSelected
  <1> SUFFICES ASSUME at = "frozen"
               PROVE  /\ \A r \in Root : \A d \in Range(roots[r].declares) :
                            \/ \E e \in Range(registry) :
                                  e.root = r /\ e.name = d.name /\ e.scope = d.scope /\ e.span = d.span
                            \/ d.span \in Root \ {r} /\ roots[d.span].rejected
                      /\ \A e \in Range(registry) :
                            \/ /\ roots[e.root].selected # 0
                               /\ \E d \in Range(roots[e.root].declares) :
                                     d.name = e.name /\ d.scope = e.scope /\ d.span = e.span
                            \/ e.span # e.root /\ roots[e.root].rejected /\ ~e.late
    BY DEF SnapshotOfSelected
  <1>1. Accounts(Range(registry), Declarers, Rejected)
    BY DEF PassesInv, Histories
  <1>2. /\ \A e \in Range(registry) : e.root \in Root
        /\ \A r \in Root : Declarers[r] = Range(roots[r].declares)
    BY EntriesAre DEF PassesInv, Declarers
  <1>3. ASSUME NEW r \in Root, NEW d \in Range(roots[r].declares)
        PROVE  \/ \E e \in Range(registry) :
                     e.root = r /\ e.name = d.name /\ e.scope = d.scope /\ e.span = d.span
               \/ d.span \in Root \ {r} /\ roots[d.span].rejected
    <2>1. Held(Range(registry), r, d) \/ d.span \in Rejected \ {r}
      BY <1>1, <1>2 DEF Accounts, Account
    <2>2. CASE Held(Range(registry), r, d)
      <3>1. PICK e \in Range(registry) : e.root = r /\ DeclOf(e) = d
        BY <2>2 DEF Held
      <3> QED BY <3>1 DEF DeclOf
    <2>3. CASE d.span \in Rejected \ {r}
      BY <2>3 DEF Rejected
    <2> QED BY <2>1, <2>2, <2>3
  <1>4. ASSUME NEW e \in Range(registry)
        PROVE  \/ /\ roots[e.root].selected # 0
                  /\ \E d \in Range(roots[e.root].declares) :
                        d.name = e.name /\ d.scope = e.scope /\ d.span = e.span
               \/ e.span # e.root /\ roots[e.root].rejected /\ ~e.late
    <2>1. \/ DeclOf(e) \in Range(roots[e.root].declares)
          \/ e.span # e.root /\ e.root \in Rejected /\ ~e.late
      BY <1>1, <1>2 DEF Accounts, Account
    <2>2. CASE DeclOf(e) \in Range(roots[e.root].declares)
      <3>1. roots[e.root].declares # <<>>
        BY <2>2 DEF Range
      <3>2. roots[e.root].selected # 0
        BY <1>2, <3>1 DEF PassesInv, Progress, Over
      <3> QED BY <2>2, <3>2 DEF DeclOf
    <2> QED BY <2>1, <2>2 DEF Rejected
  <1> QED BY <1>3, <1>4

LEMMA PassesForward == ASSUME PassesInv PROVE ForwardReferences
  <1> SUFFICES ASSUME at = "frozen", NEW r \in Root, NEW call \in roots[r].calls
               PROVE  \/ call.found = Lookup(registry, call.name)
                      \/ ~(call.found \subseteq Range(registry))
                      \/ \E e \in Range(registry) :
                            /\ e.name = call.name /\ e.late
                            /\ e.root > r \/ (e.root = r /\ call.stale)
    BY DEF ForwardReferences
  <1>1. registry \in Seq(Entry) /\ Numbered(registry, order)
    BY DEF PassesInv, Types, Registry
  <1>2. CallOK(Range(registry), call, r, declared)
    BY DEF PassesInv, Calls
  <1>3. \/ call.found = Lookup(registry, call.name)
        \/ ~(call.found \subseteq Range(registry))
        \/ \E e \in Range(registry) : e.name = call.name /\ Lately(e, r, call.stale)
    BY <1>1, <1>2, CallMeans
  <1> QED BY <1>3 DEF Lately

(* The registry is in the order of its numbers, without two declarations   *)
(* of one name and scope, and never shorter than a savepoint in it.        *)
THEOREM PassesTypeCorrect == Spec => []TypeOK
  BY PassesInvariant, PassesTyped, PTL

(* Whatever order candidates are resumed, rejected and rolled back in, the *)
(* transaction holds the work of the selected headers and accepted bodies, *)
(* in the order of their roots, and no other.                              *)
THEOREM KeptWorkCorrect == Spec => []KeptWork
  BY PassesInvariant, PassesKept, PTL

(* A header is entered and a body is parsed in the context of the          *)
(* directives before its root and of no other root.                        *)
THEOREM DirectivesCorrect == Spec => []DirectivesScoped
  <1>1. PassesInv => DirectivesScoped
    BY DEF PassesInv
  <1> QED BY <1>1, PassesInvariant, PTL

(* The frozen registry holds the declarations of the selected Structures,  *)
(* each of them and no other, but for the declarations whose span is not   *)
(* that of their header: one that has the span of another header goes when *)
(* a body of that header is rejected, one of a header whose body is        *)
(* rejected stays.                                                         *)
THEOREM SnapshotCorrect == Spec => []SnapshotOfSelected
  BY PassesInvariant, PassesSelected, PTL

(* What a call in an accepted body found is what the frozen registry gives *)
(* for its name, unless it found a declaration that was discarded, before  *)
(* the call or after it, or the name has a late declaration: of a root     *)
(* after the call, or of its own root if the call was memoized.            *)
THEOREM ForwardReferencesCorrect == Spec => []ForwardReferences
  BY PassesInvariant, PassesForward, PTL
=============================================================================
