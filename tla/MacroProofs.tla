----------------------------- MODULE MacroProofs ----------------------------
(***************************************************************************)
(* The walk of Tree and AST macros, for any trees, macros and quotas: the  *)
(* paths of the frames, the node each of them leads to after every edit,   *)
(* and how far the walk has come.                                          *)
(***************************************************************************)
EXTENDS MacroExpansion, Integers, SequenceTheorems, FiniteSetTheorems, NaturalsInduction, TLAPS

-----------------------------------------------------------------------------
(* The sets the variables range over.                                      *)
Spans   == SUBSET (Nat \X Nat)
Marks   == {"new", "walked", "failed", "again"}
TreeNode == [level : Nat, section : BOOLEAN, text : Texts, at : Spans, by : Nat,
             how : {"parsed", "node", "children"}, mark : Marks]
Shapes  == UNION {[0 .. n -> Int \X BOOLEAN \X Texts \X Spans] : n \in Nat}
Keys    == {<<>>} \cup (Nat \X Spans \X Shapes)
Path    == Seq(Nat) \ {<<>>}
Call    == [path : Path, depth : Nat, todo : SUBSET DOMAIN Candidates, kept : SUBSET Nat,
            phase : {"macros", "generated", "children"}, key : Keys, left : Nat, pos : Nat,
            target : Int]

(* Trees on a level l, in preorder: a node is at most one level below the  *)
(* one before it.                                                          *)
Hangs(f, l) ==
    \A i \in DOMAIN f : f[i].level \in l .. (IF i = 1 THEN l ELSE f[i - 1].level + 1)
Forest == {f \in Seq(TreeNode) : Hangs(f, 1)}

Types ==
    /\ input.stage \in {"tree", "ast"} /\ input.order \in {"preorder", "postorder"}
    /\ InTree => input.order = "preorder"
    /\ input.forest \in Forest
    /\ numbering = IF edited THEN "preorder" ELSE input.order
    /\ forest \in Forest
    /\ edited \in BOOLEAN /\ root \in Nat
    /\ stack \in Seq(Call) /\ active \in Seq(Keys)
    /\ calls \in 0 .. MaxCalls /\ kept \in SUBSET (1 .. calls)
    /\ \A k \in DOMAIN stack : stack[k].kept \in SUBSET (1 .. calls)
    /\ disabled \in SUBSET Range(Candidates)
    /\ result \in {"running", "ok", "reject", "error"}
    /\ ~Running => stack = <<>>

(* How many of the first n calls of a stack are walking what they          *)
(* generated; pipeline.active is the keys of these calls.                  *)
Count(s, n) == Cardinality({k \in 1 .. n : s[k].phase = "generated"})
Keyed ==
    /\ Len(active) = Count(stack, Len(stack))
    /\ \A k \in DOMAIN stack :
          stack[k].phase = "generated" => active[Count(stack, k)] = stack[k].key

(* The path the frame goes to next.                                        *)
Step(frame) == IF frame.phase = "children" THEN Append(frame.path, frame.pos)
                                           ELSE GeneratedPath(frame)
NextPath    == IF stack = <<>> THEN <<root>> ELSE Step(Top)

Under(p, q) == Len(p) < Len(q) /\ \A x \in 1 .. Len(p) : p[x] = q[x]

(* Each frame is where the one below it was going; only the one on top     *)
(* still offers its node, which then exists.                               *)
Linked ==
    /\ stack # <<>> => stack[1].path = <<root>>
    /\ \A k \in 1 .. Len(stack) - 1 : /\ stack[k].phase # "macros"
                                      /\ stack[k + 1].path = Step(stack[k])
    /\ \A k, m \in DOMAIN stack :
          k < m /\ stack[k].phase = "children" => Under(stack[k].path, stack[m].path)
    /\ stack # <<>> /\ Top.phase = "macros" => Top.pos = 0 /\ Here # 0

(* The writes of an edit that replaced a node are kept, also if the frame  *)
(* on top fails.                                                           *)
Kept ==
    Running \/ result = "ok" =>
        \A i \in DOMAIN forest : forest[i].how = "node" =>
            /\ forest[i].by \in kept
            /\ stack # <<>> /\ Top.phase = "macros" => forest[i].by \in Top.kept

(* What was walked is not too deep, and nothing is in an edited AST.       *)
Depths ==
    /\ Running \/ result = "ok" =>
          \A i \in DOMAIN forest :
              forest[i].mark # "new" \/ (InAst /\ edited) => forest[i].level <= MaxRawDepth
    /\ \A k \in DOMAIN stack : Len(stack[k].path) <= MaxRawDepth

-----------------------------------------------------------------------------
(* A place in a forest: the position c, for a node of level l.             *)
Ancestors(f, c, l) == {j \in 1 .. c - 1 : /\ f[j].level < l
                                          /\ \A k \in j + 1 .. c - 1 : f[k].level > f[j].level}
Before(f, c, l)    == {j \in 1 .. c - 1 : /\ f[j].level = l
                                          /\ Ancestors(f, j, l) = Ancestors(f, c, l)}
Rank(f, c, l)      == Cardinality(Before(f, c, l))
Place(f, c, l, p)  ==
    /\ \A j \in Ancestors(f, c, l) : Rank(f, j, f[j].level) = p[f[j].level]
    /\ Rank(f, c, l) = p[l]
(* A node of the level can be inserted at the position.                    *)
Fits(f, c, l) ==
    /\ c \in 1 .. Len(f) + 1
    /\ l \in 1 .. (IF c = 1 THEN 1 ELSE f[c - 1].level + 1)

(* The position is where the walk arrives when it goes to the path: at the *)
(* node with that path, or after the siblings if there is no such node.    *)
Frontier(f, c, p) ==
    /\ Fits(f, c, Len(p)) /\ Place(f, c, Len(p), p)
    /\ c \in DOMAIN f => f[c].level <= Len(p)

Fallen(f, i)   == \E j \in Above(f, i) : f[j].mark = "failed"
Settled(f, i)  == \/ f[i].mark \in {"walked", "failed"}
                  \/ f[i].mark = "new" /\ Fallen(f, i)
Swept(f, c) ==
    /\ \A i \in 1 .. c - 1 : Settled(f, i)
    /\ \A i \in c .. Len(f) : f[i].mark = "new"

(* The identities of nodes are those of the parser or no longer matter.    *)
Exact == input.order = "preorder" \/ ~edited

Targets ==
    Exact => \A k \in DOMAIN stack : stack[k].phase = "children" =>
        \E i \in DOMAIN forest : /\ At(forest, i, stack[k].path)
                                 /\ stack[k].target = Identity(forest, numbering, i)

Walk ==
    /\ Exact /\ Running =>
          IF stack # <<>> /\ Top.phase = "macros" THEN Swept(forest, Here + 1)
          ELSE \E c \in 1 .. Len(forest) + 1 : Frontier(forest, c, NextPath) /\ Swept(forest, c)
    /\ Exact /\ result = "ok" => Swept(forest, Len(forest) + 1)

MacroInv == Types /\ Keyed /\ Linked /\ Kept /\ Depths /\ Targets /\ Walk

-----------------------------------------------------------------------------
(* Numbers: a set of them has a least one, and a largest if it is bounded. *)
LEMMA LeastNat ==
    ASSUME NEW S \in SUBSET Nat, S # {}
    PROVE  \E x \in S : \A y \in S : x <= y
  <1>1. \E x \in S : \A y \in S : ~(<<y, x>> \in OpToRel(<, Nat))
    BY NatLessThanWellFounded, WFMin
  <1>2. \A x, y \in Nat : <<y, x>> \in OpToRel(<, Nat) <=> y < x
    BY DEF OpToRel
  <1>3. PICK x \in S : \A y \in S : ~(<<y, x>> \in OpToRel(<, Nat))
    BY <1>1
  <1>4. ASSUME NEW y \in S PROVE x <= y
    <2>1. x \in Nat /\ y \in Nat /\ ~(y < x)
      BY <1>2, <1>3
    <2> QED BY <2>1
  <1> QED BY <1>4

LEMMA LargestNat ==
    ASSUME NEW n \in Nat, NEW S \in SUBSET (0 .. n), S # {}
    PROVE  \E x \in S : \A y \in S : y <= x
  <1> DEFINE T == {n - x : x \in S}
  <1>1. T \in SUBSET Nat /\ T # {}
    <2>1. \A x \in S : n - x \in Nat
      OBVIOUS
    <2>2. T # {}
      OBVIOUS
    <2> QED BY <2>1, <2>2
  <1>2. PICK t \in T : \A u \in T : t <= u
    <2> HIDE DEF T
    <2> QED BY <1>1, LeastNat
  <1>3. PICK x \in S : t = n - x
    OBVIOUS
  <1>4. ASSUME NEW y \in S PROVE y <= x
    <2>1. n - y \in T
      OBVIOUS
    <2> HIDE DEF T
    <2>2. n - x <= n - y
      BY <1>2, <1>3, <2>1
    <2> QED BY <2>2
  <1> QED BY <1>4

LEMMA MinIs ==
    ASSUME NEW S \in SUBSET Nat, S # {}
    PROVE  Min(S) \in S
  BY LeastNat DEF Min

LEMMA MaxIs ==
    ASSUME NEW n \in Nat, NEW S \in SUBSET (0 .. n), S # {}
    PROVE  Max(S) \in S /\ \A y \in S : y <= Max(S)
  <1>1. \E x \in S : \A y \in S : x >= y
    <2>1. PICK x \in S : \A y \in S : y <= x
      BY LargestNat
    <2> QED BY <2>1
  <1>2. Max(S) \in S /\ \A y \in S : Max(S) >= y
    BY <1>1 DEF Max
  <1>3. \A x \in S : x \in Nat
    OBVIOUS
  <1> QED BY <1>2, <1>3

-----------------------------------------------------------------------------
(* Levels: they rise by one at most, so that a node has an ancestor on     *)
(* every level above its own, and its block is bounded.                    *)
LEMMA LevelIs ==
    ASSUME NEW f \in Forest, NEW i \in DOMAIN f
    PROVE  /\ Len(f) \in Nat /\ DOMAIN f = 1 .. Len(f) /\ i \in Nat /\ i >= 1 /\ i <= Len(f)
           /\ f[i] \in TreeNode /\ f[i].level \in Nat /\ f[i].level >= 1
           /\ i = 1 => f[i].level = 1
           /\ i # 1 => i - 1 \in DOMAIN f /\ f[i].level <= f[i - 1].level + 1
           /\ Fits(f, i, f[i].level)
  <1>1. f \in Seq(TreeNode) /\ Hangs(f, 1)
    BY DEF Forest
  <1>2. Len(f) \in Nat /\ DOMAIN f = 1 .. Len(f)
    BY <1>1, LenProperties
  <1>3. ASSUME NEW k \in DOMAIN f PROVE f[k] \in TreeNode /\ f[k].level \in Nat
    <2>1. f[k] \in TreeNode
      BY <1>1, <1>2, ElementOfSeq
    <2> QED BY <2>1 DEF TreeNode
  <1>4. f[i].level \in 1 .. (IF i = 1 THEN 1 ELSE f[i - 1].level + 1)
    BY <1>1 DEF Hangs
  <1>5. CASE i = 1
    BY <1>2, <1>3, <1>4, <1>5 DEF Fits
  <1>6. CASE i # 1
    <2>1. i - 1 \in DOMAIN f
      BY <1>2, <1>6
    <2> QED BY <1>2, <1>3, <1>4, <1>6, <2>1 DEF Fits
  <1> QED BY <1>5, <1>6

LEMMA EndOf ==
    ASSUME NEW f, Len(f) \in Nat, DOMAIN f = 1 .. Len(f), NEW i \in DOMAIN f,
           \A k \in DOMAIN f : f[k].level \in Nat
    PROVE  /\ End(f, i) \in i .. Len(f)
           /\ \A k \in i + 1 .. End(f, i) : f[k].level > f[i].level
           /\ End(f, i) = Len(f) \/ f[End(f, i) + 1].level <= f[i].level
  <1> DEFINE S == {j \in i .. Len(f) : j = Len(f) \/ f[j + 1].level <= f[i].level}
  <1>1. i \in Nat /\ i >= 1 /\ i <= Len(f) /\ Len(f) \in Nat /\ DOMAIN f = 1 .. Len(f)
    OBVIOUS
  <1>2. \A k \in DOMAIN f : f[k].level \in Nat
    OBVIOUS
  <1>3. S \in SUBSET Nat /\ S # {}
    <2>1. Len(f) \in S
      BY <1>1
    <2> QED BY <1>1, <2>1
  <1>4. PICK j \in S : \A y \in S : j <= y
    <2> HIDE DEF S
    <2> QED BY <1>3, LeastNat
  <1>5. ASSUME NEW k \in i + 1 .. j PROVE f[k].level > f[i].level
    <2>0. j \in i .. Len(f)
      OBVIOUS
    <2> HIDE DEF S
    <2>1. k - 1 \in i .. Len(f) /\ k \in DOMAIN f /\ k - 1 < j /\ k - 1 + 1 = k /\ k - 1 # Len(f)
      BY <1>1, <2>0
    <2>2. k - 1 \notin S
      BY <1>3, <1>4, <2>0, <2>1
    <2>3. ~(f[k].level <= f[i].level)
      BY <2>1, <2>2 DEF S
    <2>4. f[k].level \in Nat /\ f[i].level \in Nat
      BY <1>2, <2>1
    <2> QED BY <2>3, <2>4
  <1>6. \E e \in i .. Len(f) : /\ \A k \in i + 1 .. e : f[k].level > f[i].level
                               /\ e = Len(f) \/ f[e + 1].level <= f[i].level
    BY <1>4, <1>5
  <1> HIDE DEF S
  <1> QED BY <1>6 DEF End

LEMMA EndIs ==
    ASSUME NEW f \in Forest, NEW i \in DOMAIN f
    PROVE  /\ End(f, i) \in i .. Len(f)
           /\ \A k \in i + 1 .. End(f, i) : f[k].level > f[i].level
           /\ End(f, i) = Len(f) \/ f[End(f, i) + 1].level <= f[i].level
  <1>1. Len(f) \in Nat /\ DOMAIN f = 1 .. Len(f) /\ \A k \in DOMAIN f : f[k].level \in Nat
    BY LevelIs
  <1> QED BY <1>1, EndOf

LEMMA LevelBounded ==
    ASSUME NEW f \in Forest, NEW i \in DOMAIN f
    PROVE  f[i].level <= Len(f)
  <1> DEFINE S == {k \in DOMAIN f : f[k].level > k}
  <1>1. Len(f) \in Nat /\ DOMAIN f = 1 .. Len(f) /\ \A k \in DOMAIN f : f[k].level \in Nat
    BY LevelIs
  <1>2. ASSUME S # {} PROVE FALSE
    <2>1. S \in SUBSET Nat
      BY <1>1
    <2>2. PICK x \in S : \A y \in S : x <= y
      <3> HIDE DEF S
      <3> QED BY <1>2, <2>1, LeastNat
    <2>3. x \in DOMAIN f /\ f[x].level > x
      OBVIOUS
    <2>4. /\ x = 1 => f[x].level = 1
          /\ x # 1 => x - 1 \in DOMAIN f /\ f[x].level <= f[x - 1].level + 1
      BY <2>3, LevelIs
    <2>5. x # 1 /\ x - 1 \in DOMAIN f /\ f[x - 1].level > x - 1
      BY <1>1, <2>3, <2>4
    <2>6. x - 1 \in S
      BY <2>5
    <2> HIDE DEF S
    <2> QED BY <1>1, <2>2, <2>3, <2>6
  <1>3. ~(f[i].level > i)
    BY <1>2
  <1> QED BY <1>1, <1>3

LEMMA DeepestIs ==
    ASSUME NEW f \in Forest
    PROVE  Deepest(f) \in Nat /\ \A i \in DOMAIN f : f[i].level <= Deepest(f)
  <1> DEFINE S == {0} \cup {f[k].level : k \in DOMAIN f}
  <1>1. Len(f) \in Nat /\ \A k \in DOMAIN f : f[k].level \in 0 .. Len(f)
    <2>1. Len(f) \in Nat
      BY DEF Forest
    <2>2. \A k \in DOMAIN f : f[k].level \in Nat /\ f[k].level <= Len(f)
      BY LevelIs, LevelBounded
    <2> QED BY <2>1, <2>2
  <1>2. S \in SUBSET (0 .. Len(f)) /\ S # {} /\ \A i \in DOMAIN f : f[i].level \in S
    BY <1>1
  <1>3. Deepest(f) = Max(S)
    BY DEF Deepest
  <1> HIDE DEF S
  <1>4. Max(S) \in S /\ \A y \in S : y <= Max(S)
    BY <1>1, <1>2, MaxIs
  <1>5. \A x \in 0 .. Len(f) : x \in Nat
    OBVIOUS
  <1> QED BY <1>2, <1>3, <1>4, <1>5

-----------------------------------------------------------------------------
(* Ancestors of a place.                                                   *)
LEMMA AncestorIs ==
    ASSUME NEW f \in Forest, NEW c \in 1 .. Len(f) + 1, NEW l, NEW j \in Ancestors(f, c, l)
    PROVE  /\ j \in DOMAIN f /\ j \in Nat /\ c \in Nat /\ j < c
           /\ f[j].level \in Nat /\ f[j].level >= 1 /\ f[j].level < l
           /\ \A k \in j + 1 .. c - 1 : f[k].level > f[j].level
  <1>1. Len(f) \in Nat /\ DOMAIN f = 1 .. Len(f)
    BY LenProperties DEF Forest
  <1>2. j \in DOMAIN f /\ j < c
    BY <1>1 DEF Ancestors
  <1>3. f[j].level \in Nat /\ f[j].level >= 1
    BY <1>2, LevelIs
  <1> QED BY <1>1, <1>2, <1>3 DEF Ancestors

LEMMA AboveIs ==
    ASSUME NEW f \in Forest, NEW i \in DOMAIN f
    PROVE  Above(f, i) = Ancestors(f, i, f[i].level)
  <1>1. Len(f) \in Nat /\ DOMAIN f = 1 .. Len(f) /\ i \in 1 .. Len(f)
    BY LevelIs
  <1>2. ASSUME NEW j \in 1 .. i - 1
        PROVE  i <= End(f, j) <=> /\ f[j].level < f[i].level
                                  /\ \A k \in j + 1 .. i - 1 : f[k].level > f[j].level
    <2>1. j \in DOMAIN f
      BY <1>1
    <2>2. /\ End(f, j) \in j .. Len(f)
          /\ \A k \in j + 1 .. End(f, j) : f[k].level > f[j].level
          /\ End(f, j) = Len(f) \/ f[End(f, j) + 1].level <= f[j].level
      BY <2>1, EndIs
    <2>3. \A k \in DOMAIN f : f[k].level \in Nat
      BY LevelIs
    <2>4. CASE i <= End(f, j)
      <3>1. i \in j + 1 .. End(f, j) /\ \A k \in j + 1 .. i - 1 : k \in j + 1 .. End(f, j)
        BY <1>1, <2>2, <2>4
      <3> QED BY <1>1, <2>1, <2>2, <2>3, <2>4, <3>1
    <2>5. CASE i > End(f, j)
      <3> DEFINE e == End(f, j) + 1
      <3>1. e \in j + 1 .. i /\ e \in DOMAIN f /\ f[e].level <= f[j].level
        BY <1>1, <2>2, <2>5
      <3> HIDE DEF e
      <3>2. ~(f[e].level > f[j].level)
        BY <2>1, <2>3, <3>1
      <3>3. e = i \/ e \in j + 1 .. i - 1
        BY <1>1, <3>1
      <3>4. ~(i <= End(f, j))
        BY <1>1, <2>2, <2>5
      <3>5. ~(f[j].level < f[i].level /\ \A k \in j + 1 .. i - 1 : f[k].level > f[j].level)
        BY <1>1, <2>1, <2>3, <3>1, <3>2, <3>3
      <3> QED BY <3>4, <3>5
    <2> QED BY <1>1, <2>2, <2>4, <2>5
  <1> QED BY <1>2 DEF Above, Ancestors

LEMMA AncestorOn ==
    ASSUME NEW f \in Forest, NEW c, NEW l, Fits(f, c, l), NEW m \in 1 .. l - 1
    PROVE  \E j \in Ancestors(f, c, l) : f[j].level = m
  <1>1. Len(f) \in Nat /\ DOMAIN f = 1 .. Len(f)
    BY LenProperties DEF Forest
  <1>2. c \in 1 .. Len(f) + 1 /\ l \in 1 .. (IF c = 1 THEN 1 ELSE f[c - 1].level + 1)
    BY DEF Fits
  <1>3. \A k \in DOMAIN f : f[k].level \in Nat
    BY LevelIs
  <1>4. c > 1 /\ c - 1 \in DOMAIN f /\ l <= f[c - 1].level + 1 /\ l \in Nat /\ m \in Nat /\ m < l /\ m >= 1
    <2>1. c # 1
      BY <1>2
    <2>2. c - 1 \in DOMAIN f
      BY <1>1, <1>2, <2>1
    <2> QED BY <1>2, <1>3, <2>1, <2>2
  <1> DEFINE S == {j \in 1 .. c - 1 : f[j].level <= m}
  <1>5. 1 \in S
    <2>1. 1 \in DOMAIN f /\ f[1].level = 1
      BY <1>1, <1>2, <1>4, LevelIs
    <2> QED BY <1>2, <1>4, <2>1
  <1>6. PICK j \in S : \A y \in S : y <= j
    <2>1. c - 1 \in Nat /\ S \in SUBSET (0 .. c - 1) /\ S # {}
      BY <1>2, <1>5
    <2> HIDE DEF S
    <2> QED BY <2>1, LargestNat
  <1>7. j \in 1 .. c - 1 /\ j \in DOMAIN f /\ f[j].level <= m
    BY <1>1, <1>2
  <1>8. ASSUME NEW k \in j + 1 .. c - 1 PROVE k \in DOMAIN f /\ f[k].level > m
    <2>1. k \in 1 .. c - 1 /\ k \in DOMAIN f /\ ~(k <= j)
      BY <1>1, <1>2, <1>7
    <2>2. k \notin S
      <3> HIDE DEF S
      <3> QED BY <1>6, <2>1
    <2>3. ~(f[k].level <= m)
      BY <2>1, <2>2
    <2> QED BY <1>3, <1>4, <2>1, <2>3
  <1> HIDE DEF S
  <1>9. f[j].level = m
    <2>1. CASE j = c - 1
      BY <1>3, <1>4, <1>7, <2>1
    <2>2. CASE j # c - 1
      <3>1. j + 1 \in j + 1 .. c - 1 /\ j + 1 # 1 /\ j + 1 - 1 = j
        BY <1>2, <1>7, <2>2
      <3>2. j + 1 \in DOMAIN f /\ f[j + 1].level > m
        BY <1>8, <3>1
      <3>3. f[j + 1].level <= f[j].level + 1
        <4> DEFINE i == j + 1
        <4>1. i \in DOMAIN f /\ i # 1 /\ i - 1 = j
          BY <1>1, <1>7, <3>1, <3>2
        <4> HIDE DEF i
        <4>2. f[i].level <= f[i - 1].level + 1
          BY <4>1, LevelIs
        <4>3. f[i].level <= f[j].level + 1
          BY <4>1, <4>2
        <4> QED BY <4>3 DEF i
      <3> QED BY <1>3, <1>4, <1>7, <3>2, <3>3
    <2> QED BY <2>1, <2>2
  <1>10. j \in Ancestors(f, c, l)
    BY <1>4, <1>7, <1>8, <1>9 DEF Ancestors
  <1> QED BY <1>9, <1>10

LEMMA AncestorUnder ==
    ASSUME NEW f \in Forest, NEW c \in 1 .. Len(f) + 1, NEW l \in Nat, NEW j \in Ancestors(f, c, l)
    PROVE  Ancestors(f, j, f[j].level) = {k \in Ancestors(f, c, l) : f[k].level < f[j].level}
  <1>1. /\ j \in DOMAIN f /\ j \in Nat /\ c \in Nat /\ j < c
        /\ f[j].level \in Nat /\ f[j].level < l
        /\ \A k \in j + 1 .. c - 1 : f[k].level > f[j].level
    BY AncestorIs
  <1>2. Len(f) \in Nat /\ DOMAIN f = 1 .. Len(f) /\ \A k \in DOMAIN f : f[k].level \in Nat
    BY <1>1, LevelIs
  <1>3. ASSUME NEW k \in Ancestors(f, j, f[j].level)
        PROVE  k \in Ancestors(f, c, l) /\ f[k].level < f[j].level
    <2>1. j \in 1 .. Len(f) + 1
      BY <1>1, <1>2
    <2>2. /\ k \in DOMAIN f /\ k < j /\ f[k].level < f[j].level
          /\ \A x \in k + 1 .. j - 1 : f[x].level > f[k].level
      BY <2>1, AncestorIs
    <2>3. ASSUME NEW x \in k + 1 .. c - 1 PROVE f[x].level > f[k].level
      <3>1. x \in DOMAIN f
        BY <1>1, <1>2, <2>2
      <3>2. x \in k + 1 .. j - 1 \/ x = j \/ x \in j + 1 .. c - 1
        BY <1>1, <1>2, <2>2
      <3>3. f[x].level \in Nat /\ f[k].level \in Nat
        BY <1>2, <2>2, <3>1
      <3>4. CASE x \in k + 1 .. j - 1
        BY <2>2, <3>4
      <3>5. CASE x = j
        <4>1. f[k].level < f[j].level /\ f[j].level \in Nat
          BY <1>1, <2>2
        <4> QED BY <3>3, <3>5, <4>1
      <3>6. CASE x \in j + 1 .. c - 1
        <4>1. f[x].level > f[j].level /\ f[k].level < f[j].level /\ f[j].level \in Nat
          BY <1>1, <2>2, <3>6
        <4> QED BY <3>3, <4>1
      <3> QED BY <3>2, <3>4, <3>5, <3>6
    <2> QED BY <1>1, <1>2, <2>2, <2>3 DEF Ancestors
  <1>4. ASSUME NEW k \in Ancestors(f, c, l), f[k].level < f[j].level
        PROVE  k \in Ancestors(f, j, f[j].level)
    <2>1. /\ k \in DOMAIN f /\ k < c
          /\ \A x \in k + 1 .. c - 1 : f[x].level > f[k].level
      BY AncestorIs
    <2>2. k < j
      <3>1. SUFFICES ASSUME k \in j + 1 .. c - 1 PROVE FALSE
        BY <1>1, <1>2, <1>4, <2>1
      <3> QED BY <1>1, <1>2, <1>4, <2>1, <3>1
    <2>3. \A x \in k + 1 .. j - 1 : x \in k + 1 .. c - 1
      BY <1>1, <1>2, <2>1
    <2> QED BY <1>2, <1>4, <2>1, <2>2, <2>3 DEF Ancestors
  <1> QED BY <1>3, <1>4

LEMMA BeforeIs ==
    ASSUME NEW f \in Forest, NEW c \in 1 .. Len(f) + 1, NEW l
    PROVE  IsFiniteSet(Before(f, c, l)) /\ Rank(f, c, l) \in Nat
  <1>1. Len(f) \in Nat /\ c - 1 \in Int
    BY LenProperties DEF Forest
  <1>2. IsFiniteSet(1 .. c - 1)
    BY <1>1, FS_Interval
  <1>4. Before(f, c, l) \in SUBSET (1 .. c - 1)
    BY DEF Before
  <1>3. IsFiniteSet(Before(f, c, l))
    BY <1>2, <1>4, FS_Subset
  <1> QED BY <1>3, FS_CardinalityType DEF Rank

(* A place is known by what is before it.                                  *)
Agrees(f, g, n) == \A k \in 1 .. n : f[k].level = g[k].level

LEMMA SamePlace ==
    ASSUME NEW f \in Forest, NEW g \in Forest, NEW l, NEW p,
           NEW c \in 1 .. Len(f) + 1, c <= Len(g) + 1, Agrees(f, g, c - 1)
    PROVE  /\ Ancestors(g, c, l) = Ancestors(f, c, l)
           /\ Rank(g, c, l) = Rank(f, c, l)
           /\ Place(g, c, l, p) <=> Place(f, c, l, p)
  <1>1. Len(f) \in Nat /\ c \in Nat
    BY LenProperties DEF Forest
  <1>2. ASSUME NEW d \in 1 .. c, NEW m PROVE Ancestors(g, d, m) = Ancestors(f, d, m)
    <2>1. \A j \in 1 .. d - 1 : j \in 1 .. c - 1
      BY <1>1
    <2>2. \A j \in 1 .. d - 1 : \A k \in j + 1 .. d - 1 : k \in 1 .. c - 1
      BY <1>1
    <2> QED BY <2>1, <2>2 DEF Ancestors, Agrees
  <1>3. ASSUME NEW d \in 1 .. c, NEW m PROVE Rank(g, d, m) = Rank(f, d, m)
    <2>1. \A j \in 1 .. d - 1 : j \in 1 .. c - 1 /\ j \in 1 .. c
      BY <1>1
    <2>2. Before(g, d, m) = Before(f, d, m)
      BY <1>2, <2>1 DEF Before, Agrees
    <2> QED BY <2>2 DEF Rank
  <1>4. c \in 1 .. c
    BY <1>1
  <1>5. \A j \in Ancestors(f, c, l) : j \in 1 .. c /\ j \in 1 .. c - 1
    BY <1>1 DEF Ancestors
  <1>6. \A j \in Ancestors(f, c, l) : /\ f[j].level = g[j].level
                                      /\ Rank(g, j, g[j].level) = Rank(f, j, f[j].level)
    BY <1>3, <1>5 DEF Agrees
  <1> QED BY <1>2, <1>3, <1>4, <1>6 DEF Place

-----------------------------------------------------------------------------
(* A path leads to one place.                                              *)
LEMMA PlaceUp ==
    ASSUME NEW f \in Forest, NEW c \in 1 .. Len(f) + 1, NEW l \in Nat, NEW p,
           Place(f, c, l, p), NEW j \in Ancestors(f, c, l)
    PROVE  Place(f, j, f[j].level, p)
  <1>1. Ancestors(f, j, f[j].level) \subseteq Ancestors(f, c, l)
    BY AncestorUnder
  <1> QED BY <1>1 DEF Place

LEMMA PlaceOfPath ==
    ASSUME NEW f \in Forest, NEW l \in Nat \ {0}, NEW c \in 1 .. Len(f) + 1, NEW p, NEW q,
           \A x \in 1 .. l : p[x] = q[x], Place(f, c, l, p)
    PROVE  Place(f, c, l, q)
  <1>1. \A j \in Ancestors(f, c, l) : f[j].level \in 1 .. l
    <2>1. ASSUME NEW j \in Ancestors(f, c, l) PROVE f[j].level \in 1 .. l
      BY AncestorIs
    <2> QED BY <2>1
  <1>2. Rank(f, c, l) = q[l]
    BY DEF Place
  <1>3. \A j \in Ancestors(f, c, l) : Rank(f, j, f[j].level) = q[f[j].level]
    BY <1>1 DEF Place
  <1> QED BY <1>2, <1>3 DEF Place

(* Two nodes of a level with the same ancestors differ in rank.            *)
LEMMA RankGrows ==
    ASSUME NEW f \in Forest, NEW c \in 1 .. Len(f) + 1, NEW l \in Nat,
           NEW i \in 1 .. c - 1, f[i].level = l, Ancestors(f, i, l) = Ancestors(f, c, l)
    PROVE  Rank(f, i, l) # Rank(f, c, l)
  <1>1. Len(f) \in Nat /\ i \in 1 .. Len(f) + 1 /\ c \in Nat
    BY LenProperties DEF Forest
  <1>2. IsFiniteSet(Before(f, c, l)) /\ Rank(f, c, l) \in Nat
    BY BeforeIs
  <1>3. Before(f, i, l) \in SUBSET Before(f, c, l)
    <2>1. \A j \in 1 .. i - 1 : j \in 1 .. c - 1
      BY <1>1
    <2> QED BY <2>1 DEF Before
  <1>4. i \in Before(f, c, l) /\ i \notin Before(f, i, l)
    BY <1>1 DEF Before
  <1>5. Cardinality(Before(f, c, l)) = Cardinality(Before(f, i, l)) =>
            Before(f, c, l) = Before(f, i, l)
    BY <1>2, <1>3, FS_Subset
  <1> QED BY <1>4, <1>5 DEF Rank

(* A node at i and a later place of its level are not on the same path.    *)
Twins(f, i, c, l, p) ==
    /\ i \in 1 .. c - 1 /\ f[i].level = l /\ Fits(f, c, l)
    /\ Place(f, i, l, p) /\ Place(f, c, l, p)

LEMMA Unique ==
    ASSUME NEW f \in Forest, NEW i, NEW c, NEW l, NEW p, Twins(f, i, c, l, p)
    PROVE  FALSE
  <1> DEFINE S == {m \in Nat : \E a, b : Twins(f, a, b, m, p)}
  <1>0. Len(f) \in Nat /\ DOMAIN f = 1 .. Len(f)
    BY LenProperties DEF Forest
  <1>1. \A k \in DOMAIN f : f[k].level \in Nat
    BY LevelIs
  <1>2. ASSUME NEW a, NEW b, NEW m, Twins(f, a, b, m, p)
        PROVE  a \in DOMAIN f /\ a < b /\ b \in 1 .. Len(f) + 1 /\ m \in Nat /\ m >= 1
    <2>1. b \in 1 .. Len(f) + 1 /\ a \in 1 .. b - 1 /\ f[a].level = m
      BY <1>2 DEF Twins, Fits
    <2>2. a \in DOMAIN f /\ a < b
      BY <1>0, <2>1
    <2>3. f[a].level >= 1
      BY <2>2, LevelIs
    <2> QED BY <1>1, <2>1, <2>2, <2>3
  <1>3. S \in SUBSET Nat /\ S # {}
    BY <1>2
  <1>4. PICK m \in S : \A y \in S : m <= y
    <2> HIDE DEF S
    <2> QED BY <1>3, LeastNat
  <1>5. PICK a, b : Twins(f, a, b, m, p)
    OBVIOUS
  <1>6. a \in DOMAIN f /\ a < b /\ b \in 1 .. Len(f) + 1 /\ m \in Nat /\ m >= 1
    BY <1>2, <1>5
  <1>7. /\ f[a].level = m /\ Fits(f, b, m) /\ Fits(f, a, m)
        /\ Place(f, a, m, p) /\ Place(f, b, m, p) /\ a \in 1 .. b - 1 /\ a \in 1 .. Len(f) + 1
    <2>1. Fits(f, a, f[a].level)
      BY <1>6, LevelIs
    <2> QED BY <1>0, <1>5, <1>6, <2>1 DEF Twins
  <1>8. Ancestors(f, a, m) # Ancestors(f, b, m)
    <2>1. SUFFICES ASSUME Ancestors(f, a, m) = Ancestors(f, b, m) PROVE FALSE
      OBVIOUS
    <2>2. Rank(f, a, m) # Rank(f, b, m)
      BY <1>6, <1>7, <2>1, RankGrows
    <2> QED BY <1>7, <2>2 DEF Place
  <1>9. \E n \in 1 .. m - 1 : \E x \in Ancestors(f, a, m), y \in Ancestors(f, b, m) :
            x # y /\ f[x].level = n /\ f[y].level = n
    <2>1. CASE \E x \in Ancestors(f, a, m) : x \notin Ancestors(f, b, m)
      <3>1. PICK x \in Ancestors(f, a, m) : x \notin Ancestors(f, b, m)
        BY <2>1
      <3>2. f[x].level \in 1 .. m - 1
        BY <1>6, <1>7, AncestorIs
      <3>3. PICK y \in Ancestors(f, b, m) : f[y].level = f[x].level
        BY <1>7, <3>2, AncestorOn
      <3> QED BY <3>1, <3>2, <3>3
    <2>2. CASE \E y \in Ancestors(f, b, m) : y \notin Ancestors(f, a, m)
      <3>1. PICK y \in Ancestors(f, b, m) : y \notin Ancestors(f, a, m)
        BY <2>2
      <3>2. f[y].level \in 1 .. m - 1
        BY <1>6, AncestorIs
      <3>3. PICK x \in Ancestors(f, a, m) : f[x].level = f[y].level
        BY <1>7, <3>2, AncestorOn
      <3> QED BY <3>1, <3>2, <3>3
    <2> QED BY <1>8, <2>1, <2>2
  <1>10. PICK n \in 1 .. m - 1 : \E x \in Ancestors(f, a, m), y \in Ancestors(f, b, m) :
            x # y /\ f[x].level = n /\ f[y].level = n
    BY <1>9
  <1>11. PICK x \in Ancestors(f, a, m), y \in Ancestors(f, b, m) :
            x # y /\ f[x].level = n /\ f[y].level = n
    BY <1>10
  <1>12. n \in Nat /\ n < m
    BY <1>6
  <1>13. Place(f, x, n, p) /\ Place(f, y, n, p)
    BY <1>6, <1>7, <1>11, PlaceUp
  <1>14. x \in DOMAIN f /\ y \in DOMAIN f
    BY <1>6, <1>7, AncestorIs
  <1>15. Fits(f, x, n) /\ Fits(f, y, n)
    BY <1>11, <1>14, LevelIs
  <1>16. Twins(f, x, y, n, p) \/ Twins(f, y, x, n, p)
    <2>1. x \in 1 .. y - 1 \/ y \in 1 .. x - 1
      BY <1>0, <1>11, <1>14
    <2> QED BY <1>11, <1>13, <1>15, <2>1 DEF Twins
  <1>17. n \in S
    BY <1>12, <1>16
  <1> HIDE DEF S
  <1> QED BY <1>4, <1>6, <1>12, <1>17

LEMMA AtIs ==
    ASSUME NEW f \in Forest, NEW i \in DOMAIN f, NEW p
    PROVE  At(f, i, p) <=> f[i].level = Len(p) /\ Place(f, i, Len(p), p)
  <1>0. Len(f) \in Nat /\ DOMAIN f = 1 .. Len(f) /\ i \in 1 .. Len(f) /\ f[i].level \in Nat
    BY LevelIs
  <1>1. \A j \in 1 .. i : j \in DOMAIN f
    BY <1>0
  <1>2. \A j \in 1 .. i : Above(f, j) = Ancestors(f, j, f[j].level)
    BY <1>1, AboveIs
  <1>3. ASSUME NEW j \in 1 .. i PROVE Ordinal(f, j) = Rank(f, j, f[j].level)
    <2>1. \A k \in 1 .. j - 1 : k \in 1 .. i
      BY <1>0
    <2>2. Before(f, j, f[j].level) =
            {k \in 1 .. j - 1 : f[k].level = f[j].level /\ Above(f, k) = Above(f, j)}
      BY <1>2, <2>1 DEF Before
    <2> QED BY <2>2 DEF Ordinal, Rank
  <1>4. i \in 1 .. i /\ \A j \in Above(f, i) : j \in 1 .. i
    BY <1>0 DEF Above
  <1>5. Above(f, i) = Ancestors(f, i, f[i].level)
    BY <1>2, <1>4
  <1> QED BY <1>3, <1>4, <1>5 DEF At, Place

LEMMA NodeAtFound ==
    ASSUME NEW f \in Forest, NEW p, NodeAt(f, p) # 0
    PROVE  NodeAt(f, p) \in DOMAIN f /\ At(f, NodeAt(f, p), p)
  BY DEF NodeAt

LEMMA NodeAtIs ==
    ASSUME NEW f \in Forest, NEW i \in DOMAIN f, NEW p, At(f, i, p)
    PROVE  NodeAt(f, p) = i
  <1> DEFINE j == NodeAt(f, p)
  <1>1. j \in DOMAIN f /\ At(f, j, p)
    BY DEF NodeAt
  <1> HIDE DEF j
  <1>2. /\ f[i].level = Len(p) /\ Place(f, i, Len(p), p) /\ Fits(f, i, Len(p))
        /\ f[j].level = Len(p) /\ Place(f, j, Len(p), p) /\ Fits(f, j, Len(p))
    BY <1>1, AtIs, LevelIs
  <1>3. Len(f) \in Nat /\ DOMAIN f = 1 .. Len(f)
    BY LevelIs
  <1>4. SUFFICES ASSUME i # j PROVE FALSE
    BY DEF j
  <1>5. i \in 1 .. j - 1 \/ j \in 1 .. i - 1
    BY <1>1, <1>3, <1>4
  <1>6. Twins(f, i, j, Len(p), p) \/ Twins(f, j, i, Len(p), p)
    BY <1>2, <1>5 DEF Twins
  <1> QED BY <1>6, Unique

-----------------------------------------------------------------------------
(* Where the walk arrives.                                                 *)
LEMMA ArriveIs ==
    ASSUME NEW f \in Forest, NEW c, NEW p, Frontier(f, c, p),
           NEW i \in DOMAIN f, At(f, i, p)
    PROVE  i = c
  <1> DEFINE l == Len(p)
  <1>1. Len(f) \in Nat /\ DOMAIN f = 1 .. Len(f) /\ \A k \in DOMAIN f : f[k].level \in Nat
    BY LevelIs
  <1>2. /\ f[i].level = l /\ Place(f, i, l, p) /\ Fits(f, i, l) /\ l \in Nat
        /\ Place(f, c, l, p) /\ Fits(f, c, l)
        /\ c \in 1 .. Len(f) + 1 /\ (c \in DOMAIN f => f[c].level <= l)
    <2>1. f[i].level = l /\ Place(f, i, l, p) /\ Fits(f, i, l)
      BY AtIs, LevelIs
    <2>2. Place(f, c, l, p) /\ Fits(f, c, l) /\ (c \in DOMAIN f => f[c].level <= l)
      BY DEF Frontier
    <2> QED BY <1>1, <2>1, <2>2 DEF Fits
  <1> HIDE DEF l
  <1>3. ASSUME i < c PROVE FALSE
    <2>1. i \in 1 .. c - 1
      BY <1>1, <1>2, <1>3
    <2>2. Twins(f, i, c, l, p)
      BY <1>2, <2>1 DEF Twins
    <2> QED BY <2>2, Unique
  <1>4. ASSUME c < i PROVE FALSE
    <2>1. c \in DOMAIN f /\ c \in 1 .. i - 1 /\ i \in 1 .. Len(f) + 1
      BY <1>1, <1>2, <1>4
    <2>2. f[c].level \in Nat /\ f[c].level >= 1 /\ f[c].level <= l
      BY <1>2, <2>1, LevelIs
    <2>3. CASE f[c].level = l
      <3>1. Twins(f, c, i, l, p)
        BY <1>2, <2>1, <2>3 DEF Twins
      <3> QED BY <3>1, Unique
    <2>4. CASE f[c].level < l
      <3> DEFINE m == f[c].level
      <3>1. m \in 1 .. l - 1
        BY <1>2, <2>2, <2>4
      <3>2. PICK a \in Ancestors(f, i, l) : f[a].level = m
        BY <1>2, <3>1, AncestorOn
      <3>3. PICK b \in Ancestors(f, c, l) : f[b].level = m
        BY <1>2, <3>1, AncestorOn
      <3>4. Place(f, a, m, p) /\ Place(f, b, m, p)
        BY <1>2, <2>1, <3>2, <3>3, PlaceUp
      <3>5. /\ a \in DOMAIN f /\ a < i /\ \A k \in a + 1 .. i - 1 : f[k].level > f[a].level
            /\ b \in DOMAIN f /\ b < c
        BY <1>2, <2>1, AncestorIs
      <3>6. ~(a < c)
        <4>1. SUFFICES ASSUME a < c PROVE FALSE
          OBVIOUS
        <4>2. c \in a + 1 .. i - 1
          BY <1>1, <2>1, <3>5, <4>1
        <4> QED BY <2>2, <3>2, <3>5, <4>2
      <3>7. b \in 1 .. a - 1
        BY <1>1, <2>1, <3>5, <3>6
      <3>8. Fits(f, a, m)
        BY <3>2, <3>5, LevelIs
      <3>9. Twins(f, b, a, m, p)
        BY <3>3, <3>4, <3>7, <3>8 DEF Twins
      <3> QED BY <3>9, Unique
    <2> QED BY <1>2, <2>2, <2>3, <2>4
  <1> QED BY <1>1, <1>2, <1>3, <1>4

(* To the first child of a node.                                           *)
LEMMA Down ==
    ASSUME NEW f \in Forest, NEW i \in DOMAIN f, NEW p \in Path, At(f, i, p)
    PROVE  Frontier(f, i + 1, Append(p, 0))
  <1> DEFINE l == Len(p)  q == Append(p, 0)
  <1>1. Len(f) \in Nat /\ DOMAIN f = 1 .. Len(f) /\ i \in 1 .. Len(f)
        /\ \A k \in DOMAIN f : f[k].level \in Nat
    BY LevelIs
  <1>2. l \in Nat \ {0} /\ Len(q) = l + 1 /\ q[l + 1] = 0 /\ \A x \in 1 .. l : p[x] = q[x]
    BY DEF Path
  <1>3. f[i].level = l /\ Place(f, i, l, p)
    BY AtIs
  <1> HIDE DEF l, q
  <1>4. Place(f, i, l, q)
    <2>1. i \in 1 .. Len(f) + 1
      BY <1>1
    <2> QED BY <1>2, <1>3, <2>1, PlaceOfPath
  <1>5. Ancestors(f, i + 1, l + 1) = Ancestors(f, i, l) \cup {i}
    <2>1. i + 1 - 1 = i /\ 1 .. i = (1 .. i - 1) \cup {i}
      BY <1>1
    <2>2. ASSUME NEW j \in 1 .. i - 1
          PROVE  j \in Ancestors(f, i + 1, l + 1) <=> j \in Ancestors(f, i, l)
      <3>1. f[j].level \in Nat
        BY <1>1
      <3>2. j + 1 .. i = (j + 1 .. i - 1) \cup {i}
        BY <1>1
      <3>3. (\A k \in j + 1 .. i : f[k].level > f[j].level)
              <=> (\A k \in j + 1 .. i - 1 : f[k].level > f[j].level) /\ f[j].level < l
        BY <1>2, <1>3, <3>1, <3>2
      <3>4. f[j].level < l => f[j].level < l + 1
        BY <1>2, <3>1
      <3> QED BY <2>1, <3>3, <3>4 DEF Ancestors
    <2>3. i \in Ancestors(f, i + 1, l + 1)
      BY <1>1, <1>2, <1>3 DEF Ancestors
    <2> QED BY <2>1, <2>2, <2>3 DEF Ancestors
  <1>6. Rank(f, i + 1, l + 1) = 0
    <2>1. ASSUME NEW j \in Before(f, i + 1, l + 1) PROVE FALSE
      <3>1. j \in 1 .. i /\ f[j].level = l + 1 /\ i \in Ancestors(f, j, l + 1)
        BY <1>1, <1>5 DEF Before
      <3>2. i \in 1 .. j - 1
        BY <3>1 DEF Ancestors
      <3> QED BY <1>1, <3>1, <3>2
    <2>2. Before(f, i + 1, l + 1) = {}
      BY <2>1
    <2> QED BY <2>2, FS_EmptySet DEF Rank
  <1>7. Place(f, i + 1, l + 1, q)
    BY <1>2, <1>3, <1>4, <1>5, <1>6 DEF Place
  <1>8. Fits(f, i + 1, l + 1)
    BY <1>1, <1>2, <1>3 DEF Fits
  <1>9. i + 1 \in DOMAIN f => f[i + 1].level <= l + 1
    <2> DEFINE j == i + 1
    <2>1. j # 1 /\ j - 1 = i
      BY <1>1
    <2> HIDE DEF j
    <2>2. j \in DOMAIN f => f[j].level <= f[j - 1].level + 1
      BY <2>1, LevelIs
    <2> QED BY <1>3, <2>1, <2>2 DEF j
  <1>10. Frontier(f, i + 1, q)
    BY <1>2, <1>7, <1>8, <1>9 DEF Frontier
  <1> QED BY <1>10 DEF q

(* To the next sibling of a node, past its block.                          *)
Onward(p, n) == [p EXCEPT ![Len(p)] = @ + n]

LEMMA OnwardIs ==
    ASSUME NEW p \in Path, NEW n \in Nat
    PROVE  /\ Onward(p, n) \in Path /\ Len(Onward(p, n)) = Len(p)
           /\ Onward(p, n)[Len(p)] = p[Len(p)] + n
           /\ \A x \in 1 .. Len(p) - 1 : Onward(p, n)[x] = p[x]
           /\ Len(p) \in Nat \ {0} /\ p[Len(p)] \in Nat
  <1> DEFINE q == Onward(p, n)  m == Len(p)
  <1>1. p \in Seq(Nat) /\ p # <<>>
    BY DEF Path
  <1>2. m \in Nat \ {0} /\ DOMAIN p = 1 .. m /\ m = Len(p)
    BY <1>1, EmptySeq, LenProperties
  <1>3. \A x \in 1 .. m : p[x] \in Nat
    BY <1>1, <1>2, ElementOfSeq
  <1>4. q = [p EXCEPT ![m] = p[m] + n]
    BY DEF Onward
  <1> HIDE DEF q, m
  <1>0. m \in Nat /\ m >= 1
    BY <1>2
  <1>5. m \in 1 .. m /\ \A x \in 1 .. m : x = m \/ x \in 1 .. m - 1
    BY <1>0
  <1>6. \A x \in 1 .. m - 1 : x \in 1 .. m /\ x # m
    BY <1>0
  <1>7. DOMAIN q = 1 .. m /\ q[m] = p[m] + n /\ \A x \in 1 .. m - 1 : q[x] = p[x]
    BY <1>2, <1>4, <1>5, <1>6
  <1>8. \A x \in 1 .. m : q[x] \in Nat
    BY <1>3, <1>5, <1>6, <1>7
  <1>9. q \in Seq(Nat) /\ Len(q) = m
    <2>1. q = [x \in 1 .. m |-> q[x]]
      BY <1>2, <1>4, <1>7
    <2>2. q \in [1 .. m -> Nat]
      BY <1>8, <2>1
    <2>3. q \in Seq(Nat)
      BY <1>2, <2>2, SeqDef
    <2> QED BY <1>2, <1>7, <2>3, LenProperties
  <1>10. q # <<>>
    BY <1>2, <1>9, EmptySeq
  <1>11. q \in Path
    BY <1>9, <1>10 DEF Path
  <1> QED BY <1>2, <1>3, <1>5, <1>7, <1>9, <1>11 DEF q

LEMMA Past ==
    ASSUME NEW f \in Forest, NEW i \in DOMAIN f, NEW p \in Path, At(f, i, p)
    PROVE  Frontier(f, End(f, i) + 1, Onward(p, 1))
  <1> DEFINE l == Len(p)  q == Onward(p, 1)  c == End(f, i) + 1
  <1>1. Len(f) \in Nat /\ DOMAIN f = 1 .. Len(f) /\ i \in 1 .. Len(f)
        /\ \A k \in DOMAIN f : f[k].level \in Nat
    BY LevelIs
  <1>2. /\ l \in Nat \ {0} /\ Len(q) = l /\ q[l] = p[l] + 1 /\ p[l] \in Nat
        /\ \A x \in 1 .. l - 1 : p[x] = q[x]
    BY OnwardIs
  <1>3. f[i].level = l /\ Place(f, i, l, p)
    BY AtIs
  <1>4. /\ c \in i + 1 .. Len(f) + 1
        /\ \A k \in i + 1 .. c - 1 : k \in DOMAIN f /\ f[k].level > l
        /\ c \in DOMAIN f => f[c].level <= l
    <2>1. /\ End(f, i) \in i .. Len(f)
          /\ \A k \in i + 1 .. End(f, i) : f[k].level > l
          /\ End(f, i) = Len(f) \/ f[End(f, i) + 1].level <= l
      BY <1>3, EndIs
    <2>2. c - 1 = End(f, i) /\ c \in i + 1 .. Len(f) + 1
      BY <1>1, <2>1
    <2>3. \A k \in i + 1 .. c - 1 : k \in DOMAIN f /\ k \in i + 1 .. End(f, i)
      BY <1>1, <2>1, <2>2
    <2>4. c \in DOMAIN f => End(f, i) # Len(f)
      BY <1>1, <2>2
    <2> QED BY <2>1, <2>2, <2>3, <2>4
  <1> HIDE DEF l, q, c
  <1>5. c \in Nat /\ 1 .. c - 1 = (1 .. i - 1) \cup {i} \cup (i + 1 .. c - 1)
    BY <1>1, <1>4
  <1>6. Ancestors(f, c, l) = Ancestors(f, i, l)
    <2>1. ASSUME NEW j \in 1 .. i - 1
          PROVE  j \in Ancestors(f, c, l) <=> j \in Ancestors(f, i, l)
      <3>1. f[j].level \in Nat /\ j \in 1 .. c - 1
        BY <1>1, <1>4
      <3>2. j + 1 .. c - 1 = (j + 1 .. i - 1) \cup {i} \cup (i + 1 .. c - 1)
        BY <1>1, <1>4
      <3>3. f[j].level < l => \A k \in {i} \cup (i + 1 .. c - 1) : f[k].level > f[j].level
        BY <1>1, <1>2, <1>3, <1>4, <3>1
      <3> QED BY <3>1, <3>2, <3>3 DEF Ancestors
    <2>2. ASSUME NEW j \in {i} \cup (i + 1 .. c - 1) PROVE j \notin Ancestors(f, c, l)
      BY <1>1, <1>2, <1>3, <1>4 DEF Ancestors
    <2>3. \A j \in Ancestors(f, c, l) : j \in 1 .. c - 1
      BY DEF Ancestors
    <2>4. \A j \in Ancestors(f, i, l) : j \in 1 .. i - 1
      BY DEF Ancestors
    <2> QED BY <1>5, <2>1, <2>2, <2>3, <2>4
  <1>7. Before(f, c, l) = Before(f, i, l) \cup {i}
    <2>1. ASSUME NEW j \in i + 1 .. c - 1 PROVE f[j].level # l
      BY <1>2, <1>4
    <2>2. i \in Before(f, c, l)
      BY <1>3, <1>5, <1>6 DEF Before
    <2>3. ASSUME NEW j \in 1 .. i - 1 PROVE j \in Before(f, c, l) <=> j \in Before(f, i, l)
      BY <1>5, <1>6 DEF Before
    <2>4. \A j \in Before(f, c, l) : j \in 1 .. c - 1 /\ f[j].level = l
      BY DEF Before
    <2>5. \A j \in Before(f, i, l) : j \in 1 .. i - 1
      BY DEF Before
    <2> QED BY <1>5, <2>1, <2>2, <2>3, <2>4, <2>5
  <1>8. Rank(f, c, l) = Rank(f, i, l) + 1
    <2>1. IsFiniteSet(Before(f, i, l)) /\ i \notin Before(f, i, l)
      <3>1. i \in 1 .. Len(f) + 1
        BY <1>1
      <3>2. IsFiniteSet(Before(f, i, l))
        BY <3>1, BeforeIs
      <3>3. i \notin 1 .. i - 1
        BY <1>1
      <3> QED BY <3>2, <3>3 DEF Before
    <2> QED BY <1>7, <2>1, FS_AddElement DEF Rank
  <1>9. Place(f, c, l, q)
    <2>1. Rank(f, c, l) = q[l]
      BY <1>2, <1>3, <1>8 DEF Place
    <2>2. \A j \in Ancestors(f, c, l) : f[j].level \in 1 .. l - 1
      <3>1. ASSUME NEW j \in Ancestors(f, c, l) PROVE f[j].level \in 1 .. l - 1
        <4>1. c \in 1 .. Len(f) + 1
          BY <1>1, <1>4
        <4>2. f[j].level \in Nat /\ f[j].level >= 1 /\ f[j].level < l
          BY <4>1, AncestorIs
        <4> QED BY <1>2, <4>2
      <3> QED BY <3>1
    <2>3. \A j \in Ancestors(f, c, l) : Rank(f, j, f[j].level) = p[f[j].level]
      BY <1>3, <1>6 DEF Place
    <2>4. \A j \in Ancestors(f, c, l) : Rank(f, j, f[j].level) = q[f[j].level]
      BY <1>2, <2>2, <2>3
    <2> QED BY <2>1, <2>4 DEF Place
  <1>10. Fits(f, c, l)
    <2>1. c # 1 /\ c - 1 \in DOMAIN f /\ (c - 1 = i \/ c - 1 \in i + 1 .. c - 1)
      BY <1>1, <1>4
    <2>2. f[c - 1].level \in Nat /\ f[c - 1].level >= l
      BY <1>1, <1>2, <1>3, <1>4, <2>1
    <2> QED BY <1>1, <1>2, <1>4, <2>1, <2>2 DEF Fits
  <1>11. Frontier(f, c, q)
    BY <1>2, <1>4, <1>9, <1>10 DEF Frontier
  <1> QED BY <1>11 DEF c, q

(* When all children of a node are behind, the walk is past its block.     *)
LEMMA ChildrenOver ==
    ASSUME NEW f \in Forest, NEW i \in DOMAIN f, NEW p \in Path, At(f, i, p),
           NEW o \in Nat, NEW c, Frontier(f, c, Append(p, o)), Cardinality(Kids(f, i)) <= o
    PROVE  c = End(f, i) + 1
  <1> DEFINE l == Len(p)  q == Append(p, o)  m == l + 1
  <1>1. Len(f) \in Nat /\ DOMAIN f = 1 .. Len(f) /\ i \in 1 .. Len(f)
        /\ \A k \in DOMAIN f : f[k].level \in Nat
    BY LevelIs
  <1>2. l \in Nat \ {0} /\ Len(q) = m /\ q[m] = o /\ \A x \in 1 .. l : p[x] = q[x]
    BY DEF Path
  <1>3. f[i].level = l
    BY AtIs
  <1>4. Fits(f, c, Len(q)) /\ Place(f, c, Len(q), q) /\ (c \in DOMAIN f => f[c].level <= Len(q))
    BY DEF Frontier
  <1>5. Fits(f, c, m) /\ Place(f, c, m, q) /\ (c \in DOMAIN f => f[c].level <= m)
        /\ c \in 1 .. Len(f) + 1
    BY <1>2, <1>4 DEF Fits
  <1>6. End(f, i) \in i .. Len(f) /\ (End(f, i) = Len(f) \/ f[End(f, i) + 1].level <= l)
    BY <1>3, EndIs
  <1>7. At(f, i, p)
    OBVIOUS
  <1> HIDE DEF l, q
  <1>8. i \in Ancestors(f, c, m)
    <2>1. l \in 1 .. m - 1 /\ m \in Nat
      BY <1>2
    <2>2. PICK a \in Ancestors(f, c, m) : f[a].level = l
      BY <1>5, <2>1, AncestorOn
    <2>3. a \in DOMAIN f
      BY <1>5, AncestorIs
    <2>4. Place(f, a, l, q)
      BY <1>5, <2>1, <2>2, PlaceUp
    <2>5. a \in 1 .. Len(f) + 1
      BY <1>1, <2>3
    <2>6. Place(f, a, l, p)
      BY <1>2, <2>4, <2>5, PlaceOfPath
    <2>7. At(f, a, p)
      BY <2>2, <2>3, <2>6, AtIs DEF l
    <2>8. a = i
      BY <1>7, <2>3, <2>7, NodeAtIs
    <2> QED BY <2>2, <2>8
  <1>9. i < c /\ c \in Nat /\ \A k \in i + 1 .. c - 1 : f[k].level > l
    BY <1>3, <1>5, <1>8, AncestorIs
  <1>10. c <= End(f, i) + 1
    <2>1. SUFFICES ASSUME End(f, i) + 1 < c PROVE FALSE
      BY <1>1, <1>6, <1>9
    <2> DEFINE e == End(f, i) + 1
    <2>2. e \in i + 1 .. c - 1 /\ e \in DOMAIN f /\ f[e].level <= l
      BY <1>1, <1>5, <1>6, <1>9, <2>1
    <2> HIDE DEF e
    <2> QED BY <1>1, <1>2, <1>9, <2>2
  <1>11. ASSUME c <= End(f, i) PROVE FALSE
    <2>1. c \in i + 1 .. End(f, i) /\ c \in DOMAIN f
      BY <1>1, <1>5, <1>6, <1>9, <1>11
    <2>2. f[c].level = m
      <3>1. f[c].level > l
        BY <1>3, <2>1, EndIs
      <3> QED BY <1>1, <1>2, <1>5, <2>1, <3>1
    <2>3. IsFiniteSet(Kids(f, i))
      <3>1. IsFiniteSet(i + 1 .. End(f, i))
        BY <1>1, <1>6, FS_Interval
      <3>2. Kids(f, i) \in SUBSET (i + 1 .. End(f, i))
        BY DEF Kids
      <3> QED BY <3>1, <3>2, FS_Subset
    <2>4. Before(f, c, m) \in SUBSET Kids(f, i)
      <3>1. ASSUME NEW j \in Before(f, c, m) PROVE j \in Kids(f, i)
        <4>1. j \in 1 .. c - 1 /\ f[j].level = m /\ i \in Ancestors(f, j, m)
          BY <1>8 DEF Before
        <4>2. i \in 1 .. j - 1
          BY <4>1 DEF Ancestors
        <4>3. j \in i + 1 .. End(f, i)
          <5> DEFINE e == End(f, i)
          <5>1. e \in Nat /\ i \in Nat /\ j \in 1 .. c - 1 /\ i \in 1 .. j - 1 /\ c \in i + 1 .. e
            BY <1>1, <1>6, <2>1, <4>1, <4>2
          <5> HIDE DEF e, m
          <5>2. j \in i + 1 .. e
            BY <5>1
          <5> QED BY <5>2 DEF e
        <4> QED BY <1>3, <4>1, <4>3 DEF Kids
      <3> QED BY <3>1
    <2>5. c \in Kids(f, i) /\ c \notin Before(f, c, m)
      <3>1. c \notin 1 .. c - 1
        BY <1>9
      <3> QED BY <1>3, <2>1, <2>2, <3>1 DEF Kids, Before
    <2>6. /\ Cardinality(Before(f, c, m)) <= Cardinality(Kids(f, i))
          /\ Cardinality(Before(f, c, m)) # Cardinality(Kids(f, i))
      BY <2>3, <2>4, <2>5, FS_Subset
    <2>7. Cardinality(Kids(f, i)) \in Nat /\ Cardinality(Before(f, c, m)) \in Nat
      <3>1. IsFiniteSet(Before(f, c, m))
        BY <2>3, <2>4, FS_Subset
      <3> QED BY <2>3, <3>1, FS_CardinalityType
    <2>8. Cardinality(Before(f, c, m)) = o
      BY <1>2, <1>5 DEF Place, Rank
    <2> QED BY <2>6, <2>7, <2>8
  <1> QED BY <1>1, <1>5, <1>6, <1>10, <1>11

LEMMA RootsOver ==
    ASSUME NEW f \in Forest, NEW o \in Nat, NEW c, Frontier(f, c, <<o>>), RootsOf(f) <= o
    PROVE  c = Len(f) + 1
  <1>1. Len(f) \in Nat /\ DOMAIN f = 1 .. Len(f)
    BY LenProperties DEF Forest
  <1>2. Len(<<o>>) = 1 /\ <<o>>[1] = o
    OBVIOUS
  <1>3. /\ c \in 1 .. Len(f) + 1 /\ Rank(f, c, 1) = o
        /\ c \in DOMAIN f => f[c].level <= 1
    BY <1>2 DEF Frontier, Fits, Place
  <1>4. ASSUME c \in DOMAIN f PROVE FALSE
    <2>1. f[c].level = 1
      <3>1. f[c].level \in Nat /\ f[c].level >= 1
        BY <1>4, LevelIs
      <3> QED BY <1>3, <1>4, <3>1
    <2>2. IsFiniteSet(Roots(f))
      <3>1. IsFiniteSet(1 .. Len(f))
        BY <1>1, FS_Interval
      <3>2. Roots(f) \in SUBSET (1 .. Len(f))
        BY <1>1 DEF Roots
      <3> QED BY <3>1, <3>2, FS_Subset
    <2>3. Before(f, c, 1) \in SUBSET Roots(f)
      <3>1. \A j \in 1 .. c - 1 : j \in DOMAIN f
        BY <1>1, <1>3
      <3> QED BY <3>1 DEF Before, Roots
    <2>4. c \in Roots(f) /\ c \notin Before(f, c, 1)
      <3>1. c \notin 1 .. c - 1
        BY <1>1, <1>3
      <3> QED BY <1>4, <2>1, <3>1 DEF Roots, Before
    <2>5. /\ Cardinality(Before(f, c, 1)) <= Cardinality(Roots(f))
          /\ Cardinality(Before(f, c, 1)) # Cardinality(Roots(f))
      BY <2>2, <2>3, <2>4, FS_Subset
    <2>6. Cardinality(Roots(f)) \in Nat
      BY <2>2, FS_CardinalityType
    <2> QED BY <1>3, <2>5, <2>6 DEF Rank, RootsOf
  <1> QED BY <1>1, <1>3, <1>4

LEMMA Start == ASSUME NEW f \in Forest PROVE Frontier(f, 1, <<0>>)
  <1>1. Len(f) \in Nat /\ DOMAIN f = 1 .. Len(f) /\ Len(<<0>>) = 1 /\ <<0>>[1] = 0
    BY LenProperties DEF Forest
  <1>2. Ancestors(f, 1, 1) = {} /\ Before(f, 1, 1) = {}
    BY DEF Ancestors, Before
  <1>3. Place(f, 1, 1, <<0>>)
    BY <1>1, <1>2, FS_EmptySet DEF Place, Rank
  <1>4. Fits(f, 1, 1)
    BY <1>1 DEF Fits
  <1>5. 1 \in DOMAIN f => f[1].level <= 1
    <2>1. SUFFICES ASSUME 1 \in DOMAIN f PROVE f[1].level <= 1
      OBVIOUS
    <2>2. f[1].level = 1
      BY <2>1, LevelIs
    <2> QED BY <2>2
  <1> QED BY <1>1, <1>3, <1>4, <1>5 DEF Frontier

-----------------------------------------------------------------------------
(* Marks: a tree keeps its shape and its paths.                            *)
Marked(f, i, m) == [f EXCEPT ![i].mark = m]

LEMMA Marking ==
    ASSUME NEW f \in Forest, NEW i \in DOMAIN f, NEW m \in Marks, NEW g,
           g = Marked(f, i, m)
    PROVE  /\ g \in Forest /\ Len(g) = Len(f) /\ DOMAIN g = DOMAIN f
           /\ g[i].mark = m
           /\ \A k \in DOMAIN f : k # i => g[k].mark = f[k].mark
           /\ \A k \in DOMAIN f : /\ g[k].level = f[k].level /\ g[k].by = f[k].by
                                  /\ g[k].how = f[k].how
  <1>1. f \in Seq(TreeNode) /\ Len(f) \in Nat /\ DOMAIN f = 1 .. Len(f) /\ i \in 1 .. Len(f)
        /\ f[i] \in TreeNode
    BY LevelIs DEF Forest
  <1> DEFINE n == [f[i] EXCEPT !.mark = m]
  <1>2. n \in TreeNode /\ n.level = f[i].level /\ n.by = f[i].by /\ n.how = f[i].how /\ n.mark = m
    BY <1>1 DEF TreeNode
  <1>3. g = [f EXCEPT ![i] = n]
    BY DEF Marked
  <1> HIDE DEF n
  <1>4. /\ g \in Seq(TreeNode) /\ Len(g) = Len(f)
        /\ \A k \in 1 .. Len(f) : g[k] = IF k = i THEN n ELSE f[k]
    BY <1>1, <1>2, <1>3, ExceptSeq
  <1>5. DOMAIN g = DOMAIN f
    BY <1>3
  <1>6. \A k \in DOMAIN f : g[k].level = f[k].level /\ g[k].by = f[k].by /\ g[k].how = f[k].how
    BY <1>1, <1>2, <1>4
  <1>7. Hangs(g, 1)
    <2>1. \A k \in DOMAIN f : k # 1 => k - 1 \in DOMAIN f
      BY LevelIs
    <2>2. Hangs(f, 1)
      BY DEF Forest
    <2> QED BY <1>5, <1>6, <2>1, <2>2 DEF Hangs
  <1> QED BY <1>1, <1>2, <1>4, <1>5, <1>6, <1>7 DEF Forest

LEMMA SameShape ==
    ASSUME NEW f \in Forest, NEW g \in Forest, Len(g) = Len(f), Agrees(f, g, Len(f))
    PROVE  /\ \A i \in DOMAIN f : /\ End(g, i) = End(f, i) /\ Above(g, i) = Above(f, i)
                                  /\ \A p : At(g, i, p) <=> At(f, i, p)
                                  /\ \A o : Identity(g, o, i) = Identity(f, o, i)
           /\ \A p : NodeAt(g, p) = NodeAt(f, p)
           /\ \A c, p : Frontier(f, c, p) => Frontier(g, c, p)
  <1>1. /\ Len(f) \in Nat /\ DOMAIN f = 1 .. Len(f) /\ DOMAIN g = 1 .. Len(f)
        /\ \A i \in DOMAIN f : g[i].level = f[i].level
    <2>1. Len(f) \in Nat /\ DOMAIN f = 1 .. Len(f) /\ DOMAIN g = 1 .. Len(g)
      BY LenProperties DEF Forest
    <2> QED BY <2>1 DEF Agrees
  <1>2. ASSUME NEW i \in DOMAIN f PROVE End(g, i) = End(f, i)
    <2>1. ASSUME NEW j \in i .. Len(f)
          PROVE  /\ \A k \in i + 1 .. j : k \in DOMAIN f
                 /\ j # Len(f) => j + 1 \in DOMAIN f
      <3>1. i \in 1 .. Len(f)
        BY <1>1
      <3>2. \A k \in i + 1 .. j : k \in 1 .. Len(f)
        BY <3>1
      <3>3. j # Len(f) => j + 1 \in 1 .. Len(f)
        BY <3>1
      <3> QED BY <1>1, <3>2, <3>3
    <2> QED BY <1>1, <2>1 DEF End
  <1>3. ASSUME NEW i \in DOMAIN f PROVE Above(g, i) = Above(f, i)
    <2>1. \A j \in 1 .. i - 1 : j \in DOMAIN f
      BY <1>1
    <2> QED BY <1>2, <2>1 DEF Above
  <1>4. ASSUME NEW i \in DOMAIN f, NEW p PROVE At(g, i, p) <=> At(f, i, p)
    <2>1. i \in 1 .. Len(f) + 1 /\ i <= Len(g) + 1 /\ \A k \in 1 .. i - 1 : k \in 1 .. Len(f)
      BY <1>1
    <2>2. Agrees(f, g, i - 1)
      BY <2>1 DEF Agrees
    <2>3. Place(g, i, Len(p), p) <=> Place(f, i, Len(p), p)
      BY <2>1, <2>2, SamePlace
    <2>4. At(f, i, p) <=> f[i].level = Len(p) /\ Place(f, i, Len(p), p)
      BY AtIs
    <2>5. At(g, i, p) <=> g[i].level = Len(p) /\ Place(g, i, Len(p), p)
      BY <1>1, AtIs
    <2> QED BY <1>1, <2>3, <2>4, <2>5
  <1>5. ASSUME NEW i \in DOMAIN f, NEW o PROVE Identity(g, o, i) = Identity(f, o, i)
    BY <1>1, <1>2 DEF Identity
  <1>6. ASSUME NEW p PROVE NodeAt(g, p) = NodeAt(f, p)
    <2> DEFINE F == {i \in DOMAIN f : At(f, i, p)}  G == {i \in DOMAIN g : At(g, i, p)}
    <2>1. G = F
      BY <1>1, <1>4
    <2>2. /\ NodeAt(f, p) = IF F = {} THEN 0 ELSE CHOOSE i \in F : TRUE
          /\ NodeAt(g, p) = IF G = {} THEN 0 ELSE CHOOSE i \in G : TRUE
      BY Zenon DEF NodeAt
    <2> HIDE DEF F, G
    <2> QED BY <2>1, <2>2
  <1>7. ASSUME NEW c, NEW p, Frontier(f, c, p) PROVE Frontier(g, c, p)
    <2>1. c \in 1 .. Len(f) + 1 /\ Fits(f, c, Len(p)) /\ Place(f, c, Len(p), p)
          /\ (c \in DOMAIN f => f[c].level <= Len(p))
      BY <1>7 DEF Frontier, Fits
    <2>2. c <= Len(g) + 1 /\ \A k \in 1 .. c - 1 : k \in 1 .. Len(f)
      BY <1>1, <2>1
    <2>3. Agrees(f, g, c - 1)
      BY <2>2 DEF Agrees
    <2>4. Place(g, c, Len(p), p)
      BY <2>1, <2>2, <2>3, SamePlace
    <2>5. c # 1 => c - 1 \in DOMAIN f
      BY <1>1, <2>1
    <2>6. Fits(g, c, Len(p))
      BY <1>1, <2>1, <2>5 DEF Fits
    <2> QED BY <1>1, <2>1, <2>4, <2>6 DEF Frontier
  <1> QED BY <1>2, <1>3, <1>4, <1>5, <1>6, <1>7

LEMMA MarkingShape ==
    ASSUME NEW f \in Forest, NEW i \in DOMAIN f, NEW m \in Marks, NEW g,
           g = Marked(f, i, m)
    PROVE  /\ g \in Forest /\ Len(g) = Len(f) /\ Agrees(f, g, Len(f))
  <1>1. DOMAIN f = 1 .. Len(f)
    BY LevelIs
  <1>2. g \in Forest /\ Len(g) = Len(f) /\ \A k \in DOMAIN f : g[k].level = f[k].level
    BY Marking
  <1>3. Agrees(f, g, Len(f))
    BY <1>1, <1>2 DEF Agrees
  <1> QED BY <1>2, <1>3

(* The walk enters the node it arrived at, or passes a node that failed.   *)
LEMMA SweptEnter ==
    ASSUME NEW f \in Forest, NEW c \in DOMAIN f, Swept(f, c), NEW g,
           g = Marked(f, c, "walked")
    PROVE  Swept(g, c + 1)
  <1>0. "walked" \in Marks
    BY DEF Marks
  <1>1. Len(f) \in Nat /\ DOMAIN f = 1 .. Len(f) /\ c \in Nat /\ c >= 1 /\ c <= Len(f)
    BY LevelIs
  <1>2. /\ Len(g) = Len(f) /\ g[c].mark = "walked"
        /\ \A k \in DOMAIN f : k # c => g[k].mark = f[k].mark
    BY <1>0, Marking
  <1>3. \A i \in DOMAIN f : Above(g, i) = Above(f, i)
    BY <1>0, MarkingShape, SameShape
  <1>4. ASSUME NEW i \in 1 .. c - 1 PROVE Settled(g, i)
    <2>1. i \in DOMAIN f /\ i # c
      BY <1>1
    <2>2. \A j \in Above(f, i) : j \in 1 .. i - 1
      BY DEF Above
    <2>3. \A j \in Above(f, i) : j \in DOMAIN f /\ j # c
      BY <1>1, <2>2
    <2>4. Fallen(f, i) => Fallen(g, i)
      BY <1>2, <1>3, <2>1, <2>3 DEF Fallen
    <2>5. g[i].mark = f[i].mark /\ Settled(f, i)
      BY <1>2, <2>1 DEF Swept
    <2> QED BY <2>4, <2>5 DEF Settled
  <1>5. Settled(g, c)
    BY <1>2 DEF Settled
  <1>6. \A i \in 1 .. c + 1 - 1 : i \in 1 .. c - 1 \/ i = c
    BY <1>1
  <1>7. \A i \in c + 1 .. Len(f) : i \in c .. Len(f) /\ i \in DOMAIN f /\ i # c
    BY <1>1
  <1>8. \A i \in c + 1 .. Len(g) : g[i].mark = "new"
    BY <1>2, <1>7 DEF Swept
  <1>9. \A i \in 1 .. c + 1 - 1 : Settled(g, i)
    BY <1>4, <1>5, <1>6
  <1> QED BY <1>8, <1>9 DEF Swept

LEMMA SweptFail ==
    ASSUME NEW f \in Forest, NEW c \in DOMAIN f, Swept(f, c + 1), NEW g,
           g = Marked(f, c, "failed")
    PROVE  Swept(g, End(f, c) + 1)
  <1> DEFINE e == End(f, c)
  <1>0. "failed" \in Marks
    BY DEF Marks
  <1>1. Len(f) \in Nat /\ DOMAIN f = 1 .. Len(f) /\ c \in Nat /\ c >= 1 /\ c <= Len(f)
    BY LevelIs
  <1>2. /\ Len(g) = Len(f) /\ g[c].mark = "failed"
        /\ \A k \in DOMAIN f : k # c => g[k].mark = f[k].mark
    BY <1>0, Marking
  <1>3. \A i \in DOMAIN f : Above(g, i) = Above(f, i)
    BY <1>0, MarkingShape, SameShape
  <1>4. e \in c .. Len(f)
    BY EndIs
  <1>5. \A i \in 1 .. c - 1 : i \in 1 .. c + 1 - 1
    BY <1>1
  <1>6. ASSUME NEW i \in 1 .. c - 1 PROVE Settled(g, i)
    <2>1. i \in DOMAIN f /\ i # c
      BY <1>1
    <2>2. \A j \in Above(f, i) : j \in 1 .. i - 1
      BY DEF Above
    <2>3. \A j \in Above(f, i) : j \in DOMAIN f /\ j # c
      BY <1>1, <2>2
    <2>4. Fallen(f, i) => Fallen(g, i)
      BY <1>2, <1>3, <2>1, <2>3 DEF Fallen
    <2>5. g[i].mark = f[i].mark /\ Settled(f, i)
      BY <1>2, <1>5, <2>1 DEF Swept
    <2> QED BY <2>4, <2>5 DEF Settled
  <1>7. ASSUME NEW i \in c + 1 .. e PROVE Settled(g, i)
    <2>1. i \in DOMAIN f /\ i # c /\ i \in c + 1 .. Len(f) /\ c \in 1 .. i - 1 /\ i <= e
      BY <1>1, <1>4
    <2>2. c \in Above(f, i)
      BY <2>1 DEF Above
    <2>3. f[i].mark = "new"
      BY <2>1 DEF Swept
    <2>4. Fallen(g, i)
      BY <1>2, <1>3, <2>1, <2>2 DEF Fallen
    <2> QED BY <1>2, <2>1, <2>3, <2>4 DEF Settled
  <1>8. Settled(g, c)
    BY <1>2 DEF Settled
  <1> HIDE DEF e
  <1>9. \A i \in 1 .. e + 1 - 1 : i \in 1 .. c - 1 \/ i = c \/ i \in c + 1 .. e
    BY <1>1, <1>4
  <1>10. \A i \in e + 1 .. Len(f) : i \in c + 1 .. Len(f) /\ i \in DOMAIN f /\ i # c
    BY <1>1, <1>4
  <1>11. \A i \in e + 1 .. Len(g) : g[i].mark = "new"
    BY <1>2, <1>10 DEF Swept
  <1>12. \A i \in 1 .. e + 1 - 1 : Settled(g, i)
    BY <1>6, <1>7, <1>8, <1>9
  <1>13. Swept(g, e + 1)
    <2>1. e \in Nat
      BY <1>1, <1>4
    <2> QED BY ONLY <1>11, <1>12, <2>1 DEF Swept
  <1> QED BY <1>13 DEF e

-----------------------------------------------------------------------------
(* A splice: nodes i to e of a tree give way to other trees.               *)
Splice(f, i, e, new) == Block(f, 1, i - 1) \o new \o Block(f, e + 1, Len(f))

Spliced(s, f, i, e, new) ==
    /\ s \in Seq(TreeNode)
    /\ Len(s) = i - 1 + Len(new) + Len(f) - e
    /\ \A n \in 1 .. Len(s) : n < i => n \in 1 .. Len(f) /\ s[n] = f[n]
    /\ \A n \in 1 .. Len(s) : n >= i /\ n < i + Len(new) =>
          n - i + 1 \in 1 .. Len(new) /\ s[n] = new[n - i + 1]
    /\ \A n \in 1 .. Len(s) : n >= i + Len(new) =>
          /\ n - i - Len(new) + 1 + e \in e + 1 .. Len(f)
          /\ s[n] = f[n - i - Len(new) + 1 + e]

LEMMA SpliceIs ==
    ASSUME NEW f \in Seq(TreeNode), NEW i \in 1 .. Len(f) + 1, NEW e \in i - 1 .. Len(f),
           NEW new \in Seq(TreeNode), NEW s, s = Splice(f, i, e, new)
    PROVE  Spliced(s, f, i, e, new)
  <1> DEFINE A == Block(f, 1, i - 1)  B == Block(f, e + 1, Len(f))  T == A \o new
             m == Len(f)  k == Len(new)
  <1>0. m \in Nat /\ k \in Nat /\ i \in Nat /\ i >= 1 /\ i <= m + 1 /\ e \in Nat
        /\ i - 1 <= e /\ e <= m
    <2>1. m \in Nat /\ k \in Nat
      BY LenProperties
    <2> HIDE DEF k
    <2> QED BY <2>1
  <1>1. A \in Seq(TreeNode) /\ Len(A) = i - 1 /\ \A n \in 1 .. i - 1 : A[n] = f[n]
    <2>1. \A n \in 1 .. i - 1 : f[n] \in TreeNode
      <3>1. \A n \in 1 .. i - 1 : n \in 1 .. Len(f)
        BY <1>0
      <3> QED BY <3>1, ElementOfSeq
    <2>2. 1 \in Int /\ i - 1 \in Int
      BY <1>0
    <2>3. /\ A \in Seq(TreeNode) /\ Len(A) = IF 1 <= i - 1 THEN i - 1 - 1 + 1 ELSE 0
          /\ \A n \in 1 .. i - 1 - 1 + 1 : A[n] = f[1 + n - 1]
      BY <2>1, <2>2, SubSeqProperties DEF Block
    <2> HIDE DEF A
    <2>4. Len(A) = i - 1
      BY <1>0, <2>3
    <2>5. \A n \in 1 .. i - 1 : n \in 1 .. i - 1 - 1 + 1 /\ 1 + n - 1 = n
      BY <1>0
    <2> QED BY <2>3, <2>4, <2>5
  <1>2. B \in Seq(TreeNode) /\ Len(B) = m - e /\ \A n \in 1 .. m - e : B[n] = f[e + n]
    <2>1. \A n \in e + 1 .. m : f[n] \in TreeNode
      <3>1. \A n \in e + 1 .. m : n \in 1 .. Len(f)
        BY <1>0
      <3> QED BY <3>1, ElementOfSeq
    <2>2. e + 1 \in Int /\ m \in Int
      BY <1>0
    <2>3. /\ B \in Seq(TreeNode) /\ Len(B) = IF e + 1 <= m THEN m - (e + 1) + 1 ELSE 0
          /\ \A n \in 1 .. m - (e + 1) + 1 : B[n] = f[e + 1 + n - 1]
      BY <2>1, <2>2, SubSeqProperties DEF Block
    <2> HIDE DEF B, m
    <2>4. Len(B) = m - e
      BY <1>0, <2>3
    <2>5. \A n \in 1 .. m - e : n \in 1 .. m - (e + 1) + 1 /\ e + 1 + n - 1 = e + n
      BY <1>0
    <2> QED BY <2>3, <2>4, <2>5
  <1> DEFINE U == T \o B
  <1>3. s = U
    BY DEF Splice
  <1> HIDE DEF A, B
  <1>4. /\ T \in Seq(TreeNode) /\ Len(T) = Len(A) + k
        /\ \A n \in 1 .. Len(A) + k : T[n] = IF n <= Len(A) THEN A[n] ELSE new[n - Len(A)]
    BY <1>1, ConcatProperties
  <1> HIDE DEF T
  <1>5. /\ s \in Seq(TreeNode) /\ Len(s) = Len(T) + Len(B)
        /\ \A n \in 1 .. Len(T) + Len(B) : s[n] = IF n <= Len(T) THEN T[n] ELSE B[n - Len(T)]
    <2>1. B \in Seq(TreeNode) /\ T \in Seq(TreeNode)
      BY <1>2, <1>4
    <2>2. /\ U \in Seq(TreeNode) /\ Len(U) = Len(T) + Len(B)
          /\ \A n \in 1 .. Len(T) + Len(B) : U[n] = IF n <= Len(T) THEN T[n] ELSE B[n - Len(T)]
      BY <2>1, ConcatProperties
    <2> HIDE DEF U
    <2> QED BY <1>3, <2>2
  <1>6. Len(T) = i - 1 + k /\ Len(s) = i - 1 + k + m - e
    <2> HIDE DEF m, k
    <2> QED BY <1>0, <1>1, <1>2, <1>4, <1>5
  <1> HIDE DEF m, k
  <1>7. ASSUME NEW n \in 1 .. Len(s), n < i PROVE n \in 1 .. m /\ s[n] = f[n]
    <2>1. n \in 1 .. i - 1 /\ n \in 1 .. i - 1 + k /\ n <= i - 1 /\ n <= i - 1 + k /\ n \in 1 .. m
      BY <1>0, <1>6, <1>7
    <2> QED BY <1>1, <1>4, <1>5, <1>6, <2>1
  <1>8. ASSUME NEW n \in 1 .. Len(s), n >= i, n < i + k
        PROVE  n - i + 1 \in 1 .. k /\ s[n] = new[n - i + 1]
    <2>1. n \in 1 .. i - 1 + k /\ ~(n <= i - 1) /\ n <= i - 1 + k /\ n - i + 1 \in 1 .. k
          /\ n - (i - 1) = n - i + 1
      BY <1>0, <1>6, <1>8
    <2>2. s[n] = T[n]
      BY <1>5, <1>6, <2>1
    <2>3. T[n] = new[n - (i - 1)]
      BY <1>1, <1>4, <2>1
    <2> QED BY <2>1, <2>2, <2>3
  <1>9. ASSUME NEW n \in 1 .. Len(s), n >= i + k
        PROVE  n - i - k + 1 + e \in e + 1 .. m /\ s[n] = f[n - i - k + 1 + e]
    <2>1. ~(n <= i - 1 + k) /\ n - (i - 1 + k) \in 1 .. m - e
          /\ e + (n - (i - 1 + k)) = n - i - k + 1 + e /\ n - i - k + 1 + e \in e + 1 .. m
      BY <1>0, <1>6, <1>9
    <2>2. s[n] = B[n - (i - 1 + k)]
      BY <1>5, <1>6, <2>1
    <2>3. B[n - (i - 1 + k)] = f[e + (n - (i - 1 + k))]
      BY <1>2, <2>1
    <2> QED BY <2>1, <2>2, <2>3
  <1> QED BY <1>5, <1>6, <1>7, <1>8, <1>9 DEF Spliced, m, k

(* Trees may take the place of a block if they hang where it hung.         *)
LEMMA Graft ==
    ASSUME NEW f \in Seq(TreeNode), NEW l \in Nat, Hangs(f, l),
           NEW i \in 1 .. Len(f) + 1, NEW e \in i - 1 .. Len(f),
           NEW m \in l .. (IF i = 1 THEN l ELSE f[i - 1].level + 1),
           NEW new \in Seq(TreeNode), Hangs(new, m),
           e + 1 \in DOMAIN f => f[e + 1].level <= m,
           NEW s, s = Splice(f, i, e, new)
    PROVE  Hangs(s, l)
  <1> DEFINE d == Len(f)  k == Len(new)
  <1>1. d \in Nat /\ DOMAIN f = 1 .. d /\ k \in Nat /\ DOMAIN new = 1 .. k
    BY LenProperties
  <1>2. /\ s \in Seq(TreeNode)
        /\ Len(s) = i - 1 + k + d - e
        /\ \A n \in 1 .. Len(s) : n < i => n \in 1 .. d /\ s[n] = f[n]
        /\ \A n \in 1 .. Len(s) : n >= i /\ n < i + k =>
              n - i + 1 \in 1 .. k /\ s[n] = new[n - i + 1]
        /\ \A n \in 1 .. Len(s) : n >= i + k =>
              n - i - k + 1 + e \in e + 1 .. d /\ s[n] = f[n - i - k + 1 + e]
    <2>1. Spliced(s, f, i, e, new)
      BY SpliceIs
    <2> QED BY <2>1 DEF Spliced
  <1>3. DOMAIN s = 1 .. Len(s) /\ Len(s) \in Nat
    BY <1>2, LenProperties
  <1>4. \A x \in 1 .. d : f[x].level \in Nat /\ f[x].level >= l
    <2>1. \A x \in 1 .. d : f[x] \in TreeNode
      BY ElementOfSeq
    <2>2. \A x \in 1 .. d : f[x].level \in Nat
      BY <2>1 DEF TreeNode
    <2>3. \A x \in 1 .. d : f[x].level \in l .. (IF x = 1 THEN l ELSE f[x - 1].level + 1)
      BY <1>1 DEF Hangs
    <2> HIDE DEF d
    <2> QED BY <2>2, <2>3
  <1>5. i \in Nat /\ i >= 1 /\ i <= d + 1 /\ e \in Nat /\ i - 1 <= e /\ e <= d
    <2> HIDE DEF k
    <2> QED BY <1>1
  <1>6. m \in Nat /\ m >= l /\ m <= (IF i = 1 THEN l ELSE f[i - 1].level + 1)
    <2>1. CASE i = 1
      BY <2>1
    <2>2. CASE i # 1
      <3>1. i - 1 \in 1 .. d
        BY <1>5, <2>2
      <3>2. f[i - 1].level \in Nat
        BY <1>4, <3>1
      <3> QED BY <2>2, <3>2
    <2> QED BY <2>1, <2>2
  <1>7. \A x \in 1 .. d : f[x].level \in l .. (IF x = 1 THEN l ELSE f[x - 1].level + 1)
    BY <1>1 DEF Hangs
  <1>8. \A x \in 1 .. k : new[x].level \in m .. (IF x = 1 THEN m ELSE new[x - 1].level + 1)
    BY <1>1 DEF Hangs
  <1>9. \A x \in 1 .. k : new[x].level \in Nat /\ new[x].level >= m
    <2>1. \A x \in 1 .. k : new[x] \in TreeNode
      BY ElementOfSeq
    <2>2. \A x \in 1 .. k : new[x].level \in Nat
      BY <2>1 DEF TreeNode
    <2> HIDE DEF k
    <2> QED BY <1>6, <1>8, <2>2
  <1>10. e + 1 \in 1 .. d => f[e + 1].level <= m
    BY <1>1
  <1> HIDE DEF d, k
  <1> SUFFICES ASSUME NEW n \in 1 .. Len(s)
               PROVE  s[n].level \in l .. (IF n = 1 THEN l ELSE s[n - 1].level + 1)
    BY <1>3 DEF Hangs
  <1>11. n \in Nat /\ n >= 1 /\ n <= Len(s) /\ (n # 1 => n - 1 \in 1 .. Len(s))
    BY <1>3
  <1>12. CASE n < i
    <2>1. n \in 1 .. d /\ s[n] = f[n]
      BY <1>2, <1>12
    <2>2. n # 1 => s[n - 1] = f[n - 1]
      BY <1>2, <1>5, <1>11, <1>12
    <2> QED BY <1>7, <2>1, <2>2
  <1>13. CASE n >= i /\ n < i + k
    <2> DEFINE x == n - i + 1
    <2>1. x \in 1 .. k /\ s[n] = new[x] /\ x \in Nat
      BY <1>1, <1>2, <1>13
    <2>2. CASE n = i
      <3>1. x = 1
        BY <1>5, <2>2
      <3> HIDE DEF x
      <3>2. s[n].level = m
        BY <1>6, <1>8, <1>9, <2>1, <3>1
      <3>3. i # 1 => s[n - 1] = f[i - 1]
        BY <1>2, <1>5, <1>11, <2>2
      <3> QED BY <1>6, <2>2, <3>2, <3>3
    <2>3. CASE n # i
      <3>1. n - 1 >= i /\ n - 1 < i + k /\ n # 1 /\ n - 1 - i + 1 = x - 1 /\ x # 1
        BY <1>1, <1>5, <1>11, <1>13, <2>3
      <3>2. s[n - 1] = new[x - 1] /\ x - 1 \in 1 .. k
        BY <1>2, <1>11, <3>1
      <3> HIDE DEF x
      <3>3. new[x].level \in m .. new[x - 1].level + 1 /\ new[x - 1].level \in Nat
        BY <1>8, <1>9, <2>1, <3>1, <3>2
      <3>4. s[n].level \in l .. new[x - 1].level + 1
        BY <1>6, <2>1, <3>3
      <3> QED BY <3>1, <3>2, <3>4
    <2> QED BY <2>2, <2>3
  <1>14. CASE n >= i + k
    <2> DEFINE x == n - i - k + 1 + e
    <2>1. x \in e + 1 .. d /\ s[n] = f[x] /\ x \in Nat /\ x \in 1 .. d
      BY <1>1, <1>2, <1>5, <1>14
    <2>2. f[x].level \in Nat /\ f[x].level >= l
      BY <1>4, <2>1
    <2>3. CASE n > i + k
      <3>1. n - 1 >= i + k /\ n # 1 /\ n - 1 - i - k + 1 + e = x - 1 /\ x # 1 /\ x - 1 \in 1 .. d
        BY <1>1, <1>5, <1>11, <2>1, <2>3
      <3>2. s[n - 1] = f[x - 1]
        BY <1>2, <1>11, <3>1
      <3> HIDE DEF x
      <3>3. f[x].level \in l .. f[x - 1].level + 1
        BY <1>7, <2>1, <3>1
      <3> QED BY <2>1, <3>1, <3>2, <3>3
    <2>4. CASE n = i + k
      <3>1. x = e + 1
        BY <1>1, <1>5, <2>4
      <3> HIDE DEF x
      <3>2. f[x].level <= m
        BY <1>10, <2>1, <3>1
      <3>3. CASE k = 0
        <4>1. n = i /\ (i # 1 => s[n - 1] = f[i - 1])
          BY <1>1, <1>2, <1>5, <1>11, <2>4, <3>3
        <4>2. f[x].level <= (IF i = 1 THEN l ELSE f[i - 1].level + 1)
          <5>1. CASE i = 1
            BY <1>6, <2>2, <3>2, <5>1
          <5>2. CASE i # 1
            <6>1. i - 1 \in 1 .. d
              BY <1>1, <1>5, <5>2
            <6>2. f[i - 1].level \in Nat
              BY <1>4, <6>1
            <6>3. m \in Nat /\ m <= f[i - 1].level + 1
              BY <1>6, <5>2
            <6>4. f[x].level <= f[i - 1].level + 1
              BY <2>2, <3>2, <6>2, <6>3
            <6> QED BY <5>2, <6>4
          <5> QED BY <5>1, <5>2
        <4>3. CASE i = 1
          BY <2>1, <2>2, <4>1, <4>2, <4>3
        <4>4. CASE i # 1
          <5>1. i - 1 \in 1 .. d
            BY <1>1, <1>5, <4>4
          <5>2. f[i - 1].level \in Nat
            BY <1>4, <5>1
          <5>3. n # 1 /\ s[n] = f[x] /\ s[n - 1] = f[i - 1]
            BY <2>1, <4>1, <4>4
          <5>4. f[x].level \in l .. f[i - 1].level + 1
            BY <2>2, <4>2, <4>4, <5>2
          <5> QED BY <5>3, <5>4
        <4> QED BY <4>3, <4>4
      <3>4. CASE k # 0
        <4>1. n - 1 >= i /\ n - 1 < i + k /\ n # 1 /\ n - 1 - i + 1 = k /\ k \in 1 .. k
          BY <1>1, <1>5, <1>11, <2>4, <3>4
        <4>2. s[n - 1] = new[k]
          BY <1>2, <1>11, <4>1
        <4>3. new[k].level \in Nat /\ new[k].level >= m
          BY <1>9, <4>1
        <4>4. f[x].level \in l .. new[k].level + 1
          <5>1. m \in Nat
            BY <1>6
          <5> DEFINE a == f[x].level  b == new[k].level
          <5>2. a <= b + 1
            <6>1. a \in Nat /\ a <= m /\ m <= b /\ b \in Nat
              BY <2>2, <3>2, <4>3, <5>1
            <6> HIDE DEF a, b
            <6> QED BY ONLY <5>1, <6>1
          <5> QED BY <2>2, <4>3, <5>2
        <4> QED BY <2>1, <4>1, <4>2, <4>4
      <3> QED BY <3>3, <3>4
    <2> QED BY <1>1, <1>5, <1>11, <1>14, <2>3, <2>4
  <1> QED BY <1>1, <1>5, <1>11, <1>12, <1>13, <1>14

-----------------------------------------------------------------------------
(* What is before a splice keeps its place.                                *)
LEMMA SameAt ==
    ASSUME NEW f \in Forest, NEW g \in Forest, NEW n \in DOMAIN f, n \in DOMAIN g, Agrees(f, g, n)
    PROVE  Above(g, n) = Above(f, n) /\ \A p : At(g, n, p) <=> At(f, n, p)
  <1>1. /\ Len(f) \in Nat /\ Len(g) \in Nat /\ n \in 1 .. Len(f) /\ n \in 1 .. Len(g)
        /\ f[n].level = g[n].level
    <2>1. Len(f) \in Nat /\ Len(g) \in Nat /\ n \in 1 .. Len(f) /\ n \in 1 .. Len(g)
      BY LevelIs
    <2>2. n \in 1 .. n
      BY <2>1
    <2> QED BY <2>1, <2>2 DEF Agrees
  <1>2. n \in 1 .. Len(f) + 1 /\ n <= Len(g) + 1 /\ \A k \in 1 .. n - 1 : k \in 1 .. n
    BY <1>1
  <1>3. Agrees(f, g, n - 1)
    BY <1>2 DEF Agrees
  <1>4. \A l, p : /\ Ancestors(g, n, l) = Ancestors(f, n, l)
                  /\ Place(g, n, l, p) <=> Place(f, n, l, p)
    BY <1>2, <1>3, SamePlace
  <1>5. Above(g, n) = Above(f, n)
    BY <1>1, <1>4, AboveIs
  <1>6. ASSUME NEW p PROVE At(g, n, p) <=> At(f, n, p)
    <2>1. At(f, n, p) <=> f[n].level = Len(p) /\ Place(f, n, Len(p), p)
      BY AtIs
    <2>2. At(g, n, p) <=> g[n].level = Len(p) /\ Place(g, n, Len(p), p)
      BY AtIs
    <2> QED BY <1>1, <1>4, <2>1, <2>2
  <1> QED BY <1>5, <1>6

(* The tree g is f up to a place for trees of level m, and there are new   *)
(* nodes, each meeting P, and the nodes of f after the position e.         *)
Regrown(f, g, i, e, m, P) ==
    /\ g \in Forest /\ i <= Len(g) + 1
    /\ \A n \in 1 .. i - 1 : n \in DOMAIN f /\ n \in DOMAIN g /\ g[n] = f[n]
    /\ i \in DOMAIN g => g[i].level <= m
    /\ \A n \in i .. Len(g) : g[n] \in P \/ \E x \in e + 1 .. Len(f) : g[n] = f[x]

LEMMA Regrow ==
    ASSUME NEW f \in Forest, NEW i \in 1 .. Len(f) + 1, NEW e \in i - 1 .. Len(f),
           NEW m, Fits(f, i, m), NEW P,
           NEW new \in Seq(TreeNode), Hangs(new, m), \A k \in DOMAIN new : new[k] \in P,
           e + 1 \in DOMAIN f => f[e + 1].level <= m,
           NEW g, g = Splice(f, i, e, new)
    PROVE  Regrown(f, g, i, e, m, P)
  <1> DEFINE d == Len(f)  k == Len(new)
  <1>1. f \in Seq(TreeNode) /\ Hangs(f, 1) /\ 1 \in Nat
        /\ m \in 1 .. (IF i = 1 THEN 1 ELSE f[i - 1].level + 1)
    BY DEF Forest, Fits
  <1>2. Hangs(g, 1)
    BY <1>1, Graft
  <1>3. Spliced(g, f, i, e, new)
    BY <1>1, SpliceIs
  <1>4. d \in Nat /\ DOMAIN f = 1 .. d /\ k \in Nat /\ DOMAIN new = 1 .. k
    BY <1>1, LenProperties
  <1>5. g \in Forest
    BY <1>2, <1>3 DEF Forest, Spliced
  <1>6. DOMAIN g = 1 .. Len(g) /\ Len(g) \in Nat
    BY <1>5, LenProperties DEF Forest
  <1>7. /\ Len(g) = i - 1 + k + d - e
        /\ \A n \in 1 .. Len(g) : n < i => n \in 1 .. d /\ g[n] = f[n]
        /\ \A n \in 1 .. Len(g) : n >= i /\ n < i + k =>
              n - i + 1 \in 1 .. k /\ g[n] = new[n - i + 1]
        /\ \A n \in 1 .. Len(g) : n >= i + k =>
              n - i - k + 1 + e \in e + 1 .. d /\ g[n] = f[n - i - k + 1 + e]
    BY <1>3 DEF Spliced
  <1>8. i \in Nat /\ i >= 1 /\ i <= d + 1 /\ e \in Nat /\ i - 1 <= e /\ e <= d
    <2> HIDE DEF k
    <2> QED BY <1>4
  <1>9. e + 1 \in 1 .. d => f[e + 1].level <= m
    BY <1>4
  <1>10. \A x \in 1 .. k : new[x] \in P
    BY <1>4
  <1> HIDE DEF d, k
  <1>11. i <= Len(g) + 1
    BY <1>4, <1>7, <1>8
  <1>12. ASSUME NEW n \in 1 .. i - 1 PROVE n \in DOMAIN f /\ n \in DOMAIN g /\ g[n] = f[n]
    <2>1. n \in 1 .. Len(g) /\ n < i
      BY <1>6, <1>8, <1>11
    <2> QED BY <1>4, <1>6, <1>7, <2>1
  <1>13. ASSUME NEW n \in i .. Len(g) PROVE g[n] \in P \/ \E x \in e + 1 .. d : g[n] = f[x]
    <2>1. n \in 1 .. Len(g) /\ n >= i /\ (n < i + k \/ n >= i + k)
      BY <1>4, <1>6, <1>8
    <2>2. CASE n < i + k
      BY <1>7, <1>10, <2>1, <2>2
    <2>3. CASE n >= i + k
      BY <1>7, <2>1, <2>3
    <2> QED BY <2>1, <2>2, <2>3
  <1>14. ASSUME i \in DOMAIN g PROVE g[i].level <= m
    <2>1. i \in 1 .. Len(g)
      BY <1>6, <1>14
    <2>2. CASE k = 0
      <3>1. i >= i + k /\ i - i - k + 1 + e = e + 1
        BY <1>4, <1>8, <2>2
      <3>2. e + 1 \in e + 1 .. d /\ g[i] = f[e + 1]
        BY <1>7, <2>1, <3>1
      <3>3. e + 1 \in 1 .. d
        BY <1>8, <3>2
      <3> QED BY <1>9, <3>2, <3>3
    <2>3. CASE k # 0
      <3>1. i >= i /\ i < i + k /\ i - i + 1 = 1 /\ 1 \in 1 .. k
        BY <1>4, <1>8, <2>3
      <3>2. g[i] = new[1]
        BY <1>7, <2>1, <3>1
      <3>3. new[1].level \in m .. m
        BY <1>4, <3>1 DEF Hangs
      <3>4. m \in Int
        <4>1. CASE i = 1
          BY <1>1, <4>1
        <4>2. CASE i # 1
          <5>1. i - 1 \in DOMAIN f
            BY <1>4, <1>8, <4>2
          <5>2. f[i - 1].level \in Nat
            BY <5>1, LevelIs
          <5> QED BY <1>1, <4>2, <5>2
        <4> QED BY <4>1, <4>2
      <3> QED BY <3>2, <3>3, <3>4
    <2> QED BY <2>2, <2>3
  <1>15. \A n \in i .. Len(g) : g[n] \in P \/ \E x \in e + 1 .. Len(f) : g[n] = f[x]
    BY <1>13 DEF d
  <1> QED BY <1>5, <1>11, <1>12, <1>14, <1>15 DEF Regrown

LEMMA RegrownBefore ==
    ASSUME NEW f \in Forest, NEW i \in 1 .. Len(f) + 1, NEW e, NEW m, NEW P, NEW g,
           Regrown(f, g, i, e, m, P)
    PROVE  /\ Agrees(f, g, i - 1)
           /\ \A n \in 1 .. i - 1 : Above(g, n) = Above(f, n) /\ \A p : At(g, n, p) <=> At(f, n, p)
  <1>1. Agrees(f, g, i - 1)
    BY DEF Agrees, Regrown
  <1>2. Len(f) \in Nat /\ i \in Nat
    BY LenProperties DEF Forest
  <1>3. ASSUME NEW n \in 1 .. i - 1
        PROVE  Above(g, n) = Above(f, n) /\ \A p : At(g, n, p) <=> At(f, n, p)
    <2>1. \A x \in 1 .. n : x \in 1 .. i - 1
      BY <1>2
    <2>2. n \in DOMAIN f /\ n \in DOMAIN g /\ g \in Forest
      BY DEF Regrown
    <2>3. Agrees(f, g, n)
      BY <1>1, <2>1 DEF Agrees
    <2> QED BY <2>2, <2>3, SameAt
  <1> QED BY <1>1, <1>3

(* The walk arrives at the first of the new nodes.                         *)
LEMMA RegrownFrontier ==
    ASSUME NEW f \in Forest, NEW i \in DOMAIN f, NEW e, NEW P, NEW g, NEW p, At(f, i, p),
           Regrown(f, g, i, e, f[i].level, P)
    PROVE  Frontier(g, i, p)
  <1>1. Len(f) \in Nat /\ i \in 1 .. Len(f) + 1 /\ Fits(f, i, f[i].level)
    BY LevelIs
  <1>2. f[i].level = Len(p) /\ Place(f, i, Len(p), p)
    BY AtIs
  <1>3. g \in Forest /\ i <= Len(g) + 1 /\ (i \in DOMAIN g => g[i].level <= Len(p))
    BY <1>2 DEF Regrown
  <1>4. Agrees(f, g, i - 1)
    BY <1>1, RegrownBefore
  <1>5. Place(g, i, Len(p), p)
    BY <1>1, <1>2, <1>3, <1>4, SamePlace
  <1>6. i # 1 => i - 1 \in 1 .. i - 1
    BY <1>1
  <1>7. i # 1 => g[i - 1].level = f[i - 1].level
    BY <1>4, <1>6 DEF Agrees
  <1>8. Len(g) \in Nat
    BY <1>3, LenProperties DEF Forest
  <1>9. i \in 1 .. Len(g) + 1
    BY <1>1, <1>3, <1>8
  <1>10. Fits(g, i, Len(p))
    BY <1>1, <1>2, <1>7, <1>9 DEF Fits
  <1> QED BY <1>3, <1>5, <1>10 DEF Frontier

LEMMA RegrownSwept ==
    ASSUME NEW f \in Forest, NEW i \in 1 .. Len(f) + 1, NEW e, NEW m, NEW P, NEW g,
           Regrown(f, g, i, e, m, P), \A n \in P : n.mark = "new",
           \A n \in 1 .. i - 1 : Settled(f, n), \A n \in e + 1 .. Len(f) : f[n].mark = "new"
    PROVE  Swept(g, i)
  <1>1. ASSUME NEW n \in 1 .. i - 1 PROVE Settled(g, n)
    <2>1. Len(f) \in Nat /\ i \in Nat
      BY LenProperties DEF Forest
    <2>2. Above(g, n) = Above(f, n)
      BY RegrownBefore
    <2>3. \A j \in Above(f, n) : j \in 1 .. n - 1
      BY DEF Above
    <2>4. \A j \in 1 .. n - 1 : j \in 1 .. i - 1
      BY <2>1
    <2>5. g[n] = f[n] /\ \A j \in Above(f, n) : g[j] = f[j]
      BY <2>3, <2>4 DEF Regrown
    <2> QED BY <2>2, <2>5 DEF Settled, Fallen
  <1>2. \A n \in i .. Len(g) : g[n].mark = "new"
    BY DEF Regrown
  <1> QED BY <1>1, <1>2 DEF Swept

-----------------------------------------------------------------------------
(* What a macro generates.                                                 *)
LEMMA TreeIs ==
    ASSUME NEW t \in Trees
    PROVE  /\ Len(t) \in Nat /\ DOMAIN t = 1 .. Len(t)
           /\ \A k \in DOMAIN t : /\ t[k].section \in BOOLEAN /\ t[k].text \in Texts
                                  /\ t[k].level \in Nat
                                  /\ t[k].level \in 1 .. (IF k = 1 THEN 1 ELSE t[k - 1].level + 1)
  <1> DEFINE R == [level : Nat, section : BOOLEAN, text : Texts]
  <1>1. t \in Seq(R)
    BY DEF Trees
  <1>2. \A k \in DOMAIN t : t[k].level \in 1 .. (IF k = 1 THEN 1 ELSE t[k - 1].level + 1)
    BY DEF Trees
  <1>3. Len(t) \in Nat /\ DOMAIN t = 1 .. Len(t)
    <2> HIDE DEF R
    <2> QED BY <1>1, LenProperties
  <1>4. \A k \in DOMAIN t : t[k] \in R
    <2> HIDE DEF R
    <2> QED BY <1>1, <1>3, ElementOfSeq
  <1>5. \A k \in DOMAIN t : /\ t[k].section \in BOOLEAN /\ t[k].text \in Texts
                            /\ t[k].level \in Nat
    BY <1>4
  <1> QED BY <1>2, <1>3, <1>5

LEMMA NodeIs ==
    ASSUME Types, NEW i \in DOMAIN forest
    PROVE  /\ forest \in Forest /\ forest[i] \in TreeNode /\ forest[i].at \in Spans
           /\ Span(forest, i) \in Spans
  <1>1. forest \in Forest
    BY DEF Types
  <1>2. /\ Len(forest) \in Nat /\ DOMAIN forest = 1 .. Len(forest) /\ i \in Nat
        /\ i >= 1 /\ i <= Len(forest)
        /\ \A k \in DOMAIN forest : forest[k] \in TreeNode
    BY <1>1, LevelIs
  <1>3. \A k \in DOMAIN forest : forest[k].at \in Spans
    BY <1>2 DEF TreeNode
  <1>4. End(forest, i) \in i .. Len(forest)
    BY <1>1, EndIs
  <1> DEFINE e == End(forest, i)
  <1> HIDE DEF e
  <1>5. e \in Nat /\ \A k \in i .. e : k \in 1 .. Len(forest)
    <2>1. e \in i .. Len(forest)
      BY <1>4 DEF e
    <2> QED BY <1>2, <2>1
  <1>6. UNION {forest[j].at : j \in i .. e} \in Spans
    <2>1. \A j \in i .. e : forest[j].at \in SUBSET (Nat \X Nat)
      BY <1>2, <1>3, <1>5 DEF Spans
    <2> QED BY <2>1 DEF Spans
  <1>7. {<<i, e>>} \in Spans
    BY <1>2, <1>5 DEF Spans
  <1>8. Span(forest, i) = IF edited THEN UNION {forest[j].at : j \in i .. e} ELSE {<<i, e>>}
    BY DEF Span, e
  <1> QED BY <1>1, <1>2, <1>3, <1>6, <1>7, <1>8

LEMMA KeyIs ==
    ASSUME Types, NEW i \in DOMAIN forest, NEW m \in Nat
    PROVE  CycleKey(m, i) \in Keys
  <1>1. forest \in Forest /\ Span(forest, i) \in Spans
    BY NodeIs
  <1>2. /\ Len(forest) \in Nat /\ DOMAIN forest = 1 .. Len(forest) /\ i \in Nat
        /\ i >= 1 /\ i <= Len(forest)
        /\ \A k \in DOMAIN forest : forest[k] \in TreeNode
    BY <1>1, LevelIs
  <1> DEFINE e == End(forest, i)
  <1>3. e \in i .. Len(forest)
    BY <1>1, EndIs
  <1> HIDE DEF e
  <1>4. e - i \in Nat /\ \A k \in 0 .. e - i : i + k \in 1 .. Len(forest)
    BY <1>2, <1>3
  <1> DEFINE row(k) == <<forest[i + k].level - forest[i].level, forest[i + k].section,
                         forest[i + k].text, IF InAst THEN forest[i + k].at ELSE {}>>
             T == Int \X BOOLEAN \X Texts \X Spans
  <1>5. \A k \in 0 .. e - i : row(k) \in T
    <2>1. {} \in Spans
      BY DEF Spans
    <2>2. ASSUME NEW k \in 0 .. e - i PROVE row(k) \in T
      <3>1. forest[i + k] \in TreeNode /\ forest[i] \in TreeNode
        BY <1>2, <1>4
      <3>2. /\ forest[i + k].level \in Nat /\ forest[i].level \in Nat
            /\ forest[i + k].section \in BOOLEAN /\ forest[i + k].text \in Texts
            /\ forest[i + k].at \in Spans
        BY <3>1 DEF TreeNode
      <3>3. forest[i + k].level - forest[i].level \in Int
        BY <3>2
      <3>4. (IF InAst THEN forest[i + k].at ELSE {}) \in Spans
        BY <2>1, <3>2
      <3> QED BY <3>2, <3>3, <3>4
    <2> QED BY <2>2
  <1>6. Shape(forest, i) = [k \in 0 .. e - i |-> row(k)]
    BY DEF Shape, e
  <1> HIDE DEF row, T
  <1>7. Shape(forest, i) \in [0 .. e - i -> T]
    BY <1>5, <1>6
  <1>8. Shape(forest, i) \in Shapes
    BY <1>4, <1>7 DEF Shapes, T
  <1>9. (IF InTree THEN Span(forest, i) ELSE {}) \in Spans
    BY <1>1 DEF Spans
  <1> QED BY <1>8, <1>9 DEF CycleKey, Keys

LEMMA GenerateIs ==
    ASSUME Types, NEW i \in DOMAIN forest, NEW frag \in Trees, NEW shift \in Nat,
           NEW how \in {"node", "children"}, NEW g, g = Generate(frag, i, shift, how)
    PROVE  /\ g \in Seq(TreeNode) /\ Len(g) = Len(frag) /\ DOMAIN g = DOMAIN frag
           /\ Hangs(g, shift + 1)
           /\ \A k \in DOMAIN g : g[k].mark = "new" /\ g[k].how = how /\ g[k].by = calls + 1
  <1>1. /\ Len(frag) \in Nat /\ DOMAIN frag = 1 .. Len(frag)
        /\ \A k \in DOMAIN frag : /\ frag[k].section \in BOOLEAN /\ frag[k].text \in Texts
                                  /\ frag[k].level \in Nat
                                  /\ frag[k].level \in 1 .. (IF k = 1 THEN 1 ELSE frag[k - 1].level + 1)
    BY TreeIs
  <1> DEFINE at == IF InTree THEN Span(forest, i) ELSE forest[i].at
             n(k) == [level |-> frag[k].level + shift, section |-> frag[k].section,
                      text |-> frag[k].text, at |-> at, by |-> calls + 1, how |-> how,
                      mark |-> "new"]
  <1>2. at \in Spans
    BY NodeIs
  <1>3. g = [k \in DOMAIN frag |-> n(k)]
    BY DEF Generate
  <1> HIDE DEF at
  <1>4. ASSUME NEW k \in DOMAIN frag
        PROVE  /\ n(k) \in TreeNode /\ n(k).level = frag[k].level + shift
               /\ n(k).mark = "new" /\ n(k).how = how /\ n(k).by = calls + 1
    <2>1. calls + 1 \in Nat
      <3>1. MaxCalls \in Nat /\ calls \in 0 .. MaxCalls
        BY MacroAssumption DEF Types
      <3> QED BY <3>1
    <2>2. frag[k].level + shift \in Nat
      BY <1>1
    <2> QED BY <1>1, <1>2, <2>1, <2>2 DEF TreeNode, Marks
  <1> HIDE DEF n
  <1>5. g \in Seq(TreeNode) /\ Len(g) = Len(frag) /\ DOMAIN g = DOMAIN frag
    <2>1. g \in [1 .. Len(frag) -> TreeNode]
      BY <1>1, <1>3, <1>4
    <2>2. g \in Seq(TreeNode)
      BY <1>1, <2>1, SeqDef
    <2> QED BY <1>1, <1>3, <2>2, LenProperties
  <1>6. Hangs(g, shift + 1)
    <2>1. ASSUME NEW k \in DOMAIN g
          PROVE  g[k].level \in shift + 1 .. (IF k = 1 THEN shift + 1 ELSE g[k - 1].level + 1)
      <3>1. g[k].level = frag[k].level + shift /\ k \in DOMAIN frag
        BY <1>3, <1>4
      <3>2. CASE k = 1
        BY <1>1, <3>1, <3>2
      <3>3. CASE k # 1
        <4>1. k - 1 \in DOMAIN frag
          BY <1>1, <3>1, <3>3
        <4>2. g[k - 1].level = frag[k - 1].level + shift
          BY <1>3, <1>4, <4>1
        <4>3. frag[k].level \in 1 .. frag[k - 1].level + 1 /\ frag[k - 1].level \in Nat
          BY <1>1, <3>1, <3>3, <4>1
        <4>4. frag[k].level + shift \in shift + 1 .. frag[k - 1].level + shift + 1
          BY <4>3
        <4> QED BY <3>1, <3>3, <4>2, <4>4
      <3> QED BY <3>2, <3>3
    <2> QED BY <2>1 DEF Hangs
  <1> QED BY <1>3, <1>4, <1>5, <1>6

(* The children of a node, below another one.                              *)
Hung(s, f, i, l) ==
    /\ s \in Seq(TreeNode) /\ Hangs(s, l)
    /\ \A k \in DOMAIN s : \E x \in i + 1 .. End(f, i) :
          s[k].mark = f[x].mark /\ s[k].how = f[x].how /\ s[k].by = f[x].by

LEMMA ShiftedIs ==
    ASSUME NEW f \in Forest, NEW i \in DOMAIN f, NEW by \in Nat
    PROVE  Hung(Shifted(Block(f, i + 1, End(f, i)), by, f[i].level), f, i, by + 1)
  <1> DEFINE e == End(f, i)  B == Block(f, i + 1, e)  l == f[i].level
             s == Shifted(B, by, l)
  <1>1. /\ Len(f) \in Nat /\ DOMAIN f = 1 .. Len(f) /\ i \in Nat /\ i >= 1 /\ i <= Len(f)
        /\ l \in Nat /\ l >= 1
    BY LevelIs
  <1>2. e \in i .. Len(f) /\ \A k \in i + 1 .. e : f[k].level > l
    BY EndIs
  <1> HIDE DEF e, l
  <1>3. \A k \in i + 1 .. e : k \in DOMAIN f
    BY <1>1, <1>2
  <1>4. \A k \in i + 1 .. e : f[k] \in TreeNode /\ f[k].level \in Nat
    BY <1>3, LevelIs
  <1>5. /\ B \in Seq(TreeNode) /\ Len(B) = e - i
        /\ \A n \in 1 .. e - i : n + i \in i + 1 .. e /\ B[n] = f[n + i]
    <2>1. i + 1 \in Int /\ e \in Int
      BY <1>1, <1>2
    <2>2. /\ B \in Seq(TreeNode) /\ Len(B) = IF i + 1 <= e THEN e - (i + 1) + 1 ELSE 0
          /\ \A n \in 1 .. e - (i + 1) + 1 : B[n] = f[i + 1 + n - 1]
      BY <1>4, <2>1, SubSeqProperties DEF Block
    <2> HIDE DEF B
    <2>3. Len(B) = e - i
      BY <1>1, <1>2, <2>2
    <2>4. \A n \in 1 .. e - i : n + i \in i + 1 .. e /\ n \in 1 .. e - (i + 1) + 1 /\ i + 1 + n - 1 = n + i
      <3>1. i \in Nat /\ e \in Nat
        BY <1>1, <1>2
      <3> QED BY ONLY <3>1
    <2> QED BY <2>2, <2>3, <2>4
  <1>6. s = [k \in DOMAIN B |-> [B[k] EXCEPT !.level = B[k].level + by - l]]
    BY DEF Shifted, e, l
  <1> HIDE DEF B, s
  <1>7. DOMAIN B = 1 .. e - i /\ e - i \in Nat
    <2>1. DOMAIN B = 1 .. Len(B)
      BY <1>5, LenProperties
    <2>2. e - i \in Nat
      BY <1>1, <1>2
    <2> QED BY <1>5, <2>1, <2>2
  <1>8. ASSUME NEW k \in 1 .. e - i
        PROVE  /\ s[k] \in TreeNode /\ s[k].level = f[k + i].level + by - l
               /\ s[k].mark = f[k + i].mark /\ s[k].how = f[k + i].how /\ s[k].by = f[k + i].by
    <2>1. B[k] = f[k + i] /\ k + i \in i + 1 .. e
      BY <1>5
    <2>2. f[k + i] \in TreeNode /\ f[k + i].level \in Nat /\ f[k + i].level > l
      BY <1>2, <1>4, <2>1
    <2>3. f[k + i].level + by - l \in Nat
      BY <1>1, <2>2
    <2>4. s[k] = [f[k + i] EXCEPT !.level = f[k + i].level + by - l]
      BY <1>6, <1>7, <2>1
    <2> DEFINE v == f[k + i].level + by - l  n == f[k + i]
    <2>5. n \in TreeNode /\ v \in Nat /\ s[k] = [n EXCEPT !.level = v]
      BY <2>2, <2>3, <2>4
    <2> HIDE DEF v, n
    <2>6. s[k] \in TreeNode /\ s[k].level = v /\ s[k].mark = n.mark /\ s[k].how = n.how /\ s[k].by = n.by
      BY <2>5 DEF TreeNode
    <2> QED BY <2>6 DEF v, n
  <1>9. DOMAIN s = 1 .. e - i
    BY <1>6, <1>7
  <1>10. s \in Seq(TreeNode)
    <2>1. s \in [1 .. e - i -> TreeNode]
      BY <1>6, <1>7, <1>8
    <2> QED BY <1>7, <2>1, SeqDef
  <1>11. Hangs(s, by + 1)
    <2>1. ASSUME NEW k \in 1 .. e - i
          PROVE  s[k].level \in by + 1 .. (IF k = 1 THEN by + 1 ELSE s[k - 1].level + 1)
      <3> DEFINE x == k + i
      <3>1. x \in i + 1 .. e /\ x \in DOMAIN f /\ x # 1 /\ x \in Nat
        <4>1. x \in i + 1 .. e
          BY <1>1, <1>2
        <4> QED BY <1>1, <1>3, <4>1
      <3>2. s[k].level = f[x].level + by - l
        BY <1>8
      <3> HIDE DEF x
      <3>3. f[x].level \in Nat /\ f[x].level > l /\ x - 1 \in DOMAIN f /\ f[x].level <= f[x - 1].level + 1
        BY <1>2, <3>1, LevelIs
      <3>4. f[x - 1].level \in Nat
        BY <3>3, LevelIs
      <3>5. CASE k = 1
        <4>1. x - 1 = i
          BY <1>1, <3>5 DEF x
        <4>2. f[x].level <= l + 1
          BY <3>3, <4>1 DEF l
        <4> QED BY <1>1, <3>2, <3>3, <3>5, <4>2
      <3>6. CASE k # 1
        <4>1. k - 1 \in 1 .. e - i /\ k - 1 + i = x - 1
          BY <1>1, <1>7, <3>6 DEF x
        <4>2. s[k - 1].level = f[x - 1].level + by - l
          BY <1>8, <4>1
        <4>3. s[k].level \in by + 1 .. s[k - 1].level + 1
          <5> DEFINE a == f[x].level  b == f[x - 1].level
          <5>1. a \in Nat /\ b \in Nat /\ l \in Nat /\ a > l /\ a <= b + 1
            BY <1>1, <3>3, <3>4
          <5>2. s[k].level = a + by - l /\ s[k - 1].level = b + by - l
            BY <3>2, <4>2
          <5> HIDE DEF a, b
          <5>3. a + by - l \in by + 1 .. b + by - l + 1
            BY <5>1
          <5> QED BY <5>2, <5>3
        <4> QED BY <3>6, <4>3
      <3> QED BY <3>5, <3>6
    <2> QED BY <1>9, <2>1 DEF Hangs
  <1>12. \A k \in DOMAIN s : \E x \in i + 1 .. e :
              s[k].mark = f[x].mark /\ s[k].how = f[x].how /\ s[k].by = f[x].by
    BY <1>5, <1>8, <1>9
  <1>13. Hung(s, f, i, by + 1)
    BY <1>10, <1>11, <1>12 DEF Hung, e
  <1> QED BY <1>13 DEF s, B, e, l

-----------------------------------------------------------------------------
(* The nodes an edit brings: they are new, and those that replaced a node  *)
(* are of this call or of an earlier one whose edit is in the tree.        *)
Grown == {n \in TreeNode :
             /\ n.mark = "new"
             /\ n.how = "node" => \/ n.by = calls + 1
                                  \/ \E x \in DOMAIN forest : /\ forest[x].how = "node"
                                                              /\ forest[x].by = n.by}
Bred  == {n \in TreeNode : n.mark = "new" /\ n.how = "children"}

LEMMA ReplacedChildrenIs ==
    ASSUME Types, NEW i \in DOMAIN forest, NEW frag \in Trees
    PROVE  Regrown(forest, ReplacedChildren(i, frag), i + 1, End(forest, i), forest[i].level + 1, Bred)
  <1> DEFINE g == Generate(frag, i, forest[i].level, "children")  e == End(forest, i)
             l == forest[i].level
  <1>1. forest \in Forest
    BY DEF Types
  <1>2. /\ Len(forest) \in Nat /\ DOMAIN forest = 1 .. Len(forest) /\ i \in Nat
        /\ i >= 1 /\ i <= Len(forest) /\ l \in Nat /\ l >= 1
    BY <1>1, LevelIs
  <1>3. e \in i .. Len(forest) /\ (e = Len(forest) \/ forest[e + 1].level <= l)
    BY <1>1, EndIs
  <1>4. /\ g \in Seq(TreeNode) /\ Hangs(g, l + 1)
        /\ \A k \in DOMAIN g : g[k].mark = "new" /\ g[k].how = "children"
    BY <1>2, GenerateIs
  <1>5. ReplacedChildren(i, frag) = Splice(forest, i + 1, e, g)
    <2>1. (i + 1) - 1 = i
      BY <1>2
    <2>2. ReplacedChildren(i, frag) = Block(forest, 1, i) \o g \o Block(forest, e + 1, Len(forest))
      BY DEF ReplacedChildren
    <2> HIDE DEF g, e
    <2>3. Splice(forest, i + 1, e, g)
            = Block(forest, 1, (i + 1) - 1) \o g \o Block(forest, e + 1, Len(forest))
      BY Zenon DEF Splice
    <2> QED BY <2>1, <2>2, <2>3, Zenon
  <1> HIDE DEF g, e
  <1>6. \A k \in DOMAIN g : g[k] \in Bred
    <2>1. Len(g) \in Nat /\ DOMAIN g = 1 .. Len(g)
      BY <1>4, LenProperties
    <2>2. \A k \in DOMAIN g : g[k] \in TreeNode
      BY <1>4, <2>1, ElementOfSeq
    <2> QED BY <1>4, <2>2 DEF Bred
  <1>7. i + 1 \in 1 .. Len(forest) + 1 /\ e \in i + 1 - 1 .. Len(forest)
    <2>1. Len(forest) \in Nat /\ i \in Nat /\ i >= 1 /\ i <= Len(forest) /\ e \in i .. Len(forest)
      BY <1>2, <1>3
    <2> QED BY ONLY <2>1
  <1>8. Fits(forest, i + 1, l + 1)
    BY <1>2, <1>7 DEF Fits
  <1>9. e + 1 \in DOMAIN forest => forest[e + 1].level <= l + 1
    <2>1. ASSUME e + 1 \in DOMAIN forest PROVE forest[e + 1].level <= l + 1
      <3>1. e # Len(forest)
        <4>1. Len(forest) \in Nat /\ e + 1 \in 1 .. Len(forest)
          BY <1>2, <2>1
        <4> QED BY ONLY <4>1
      <3>2. forest[e + 1].level \in Nat
        BY <1>1, <2>1, LevelIs
      <3>3. forest[e + 1].level <= l /\ l \in Nat
        BY <1>2, <1>3, <3>1
      <3> HIDE DEF l
      <3> QED BY <3>2, <3>3
    <2> QED BY <2>1
  <1> HIDE DEF l
  <1>10. Regrown(forest, ReplacedChildren(i, frag), i + 1, e, l + 1, Bred)
    BY <1>1, <1>4, <1>5, <1>6, <1>7, <1>8, <1>9, Regrow
  <1> QED BY <1>10 DEF e, l

GrownTrees(new, l) ==
    new \in Seq(TreeNode) /\ Hangs(new, l) /\ \A k \in DOMAIN new : new[k] \in Grown
Retained(i, gen, p, cut) ==
    Block(gen, 1, cut)
    \o Shifted(Block(forest, i + 1, End(forest, i)), gen[p].level, forest[i].level)
    \o Block(gen, cut + 1, Len(gen))

LEMMA RetainedIs ==
    ASSUME Types, NEW i \in DOMAIN forest, NEW frag \in Trees, NEW p \in DOMAIN frag,
           NEW gen, gen = Generate(frag, i, forest[i].level - 1, "node"),
           NEW cut, cut = p \/ cut = End(gen, p),
           \A x \in i + 1 .. End(forest, i) : forest[x].mark = "new"
    PROVE  GrownTrees(Retained(i, gen, p, cut), forest[i].level)
  <1> DEFINE l == forest[i].level  c == cut + 1  new == Retained(i, gen, p, cut)
             kids == Shifted(Block(forest, i + 1, End(forest, i)), gen[p].level, l)
  <1>1. forest \in Forest
    BY DEF Types
  <1>2. l \in Nat /\ l >= 1 /\ l - 1 \in Nat /\ l - 1 + 1 = l
    <2>1. l \in Nat /\ l >= 1
      BY <1>1, LevelIs
    <2> HIDE DEF l
    <2> QED BY <2>1
  <1>3. /\ gen \in Seq(TreeNode) /\ Len(gen) = Len(frag) /\ DOMAIN gen = DOMAIN frag
        /\ Hangs(gen, l)
        /\ \A k \in DOMAIN gen : gen[k].mark = "new" /\ gen[k].how = "node" /\ gen[k].by = calls + 1
    <2>1. "node" \in {"node", "children"}
      OBVIOUS
    <2>2. /\ gen \in Seq(TreeNode) /\ Len(gen) = Len(frag) /\ DOMAIN gen = DOMAIN frag
          /\ Hangs(gen, l - 1 + 1)
          /\ \A k \in DOMAIN gen : gen[k].mark = "new" /\ gen[k].how = "node" /\ gen[k].by = calls + 1
      BY <1>2, <2>1, GenerateIs
    <2> QED BY <1>2, <2>2
  <1>4. /\ Len(gen) \in Nat /\ DOMAIN gen = 1 .. Len(gen) /\ p \in DOMAIN gen
        /\ \A k \in DOMAIN gen : gen[k] \in TreeNode /\ gen[k].level \in Nat
    <2>1. Len(gen) \in Nat /\ DOMAIN gen = 1 .. Len(gen)
      BY <1>3, LenProperties
    <2>2. \A k \in DOMAIN gen : gen[k] \in TreeNode
      BY <1>3, <2>1, ElementOfSeq
    <2> QED BY <1>3, <2>1, <2>2 DEF TreeNode
  <1> DEFINE m == gen[p].level
  <1>5. m \in Nat /\ m >= l
    <2>1. m \in Nat /\ m \in l .. (IF p = 1 THEN l ELSE gen[p - 1].level + 1)
      BY <1>3, <1>4 DEF Hangs
    <2>2. CASE p = 1
      BY <2>1, <2>2
    <2>3. CASE p # 1
      <3>1. p - 1 \in DOMAIN gen
        BY <1>4, <2>3
      <3>2. gen[p - 1].level \in Nat
        BY <1>4, <3>1
      <3> QED BY <1>2, <2>1, <2>3, <3>2
    <2> QED BY <2>2, <2>3
  <1>6. /\ kids \in Seq(TreeNode) /\ Hangs(kids, m + 1)
        /\ \A k \in DOMAIN kids : \E x \in i + 1 .. End(forest, i) :
              kids[k].mark = forest[x].mark /\ kids[k].how = forest[x].how /\ kids[k].by = forest[x].by
    <2>1. Hung(kids, forest, i, m + 1)
      BY <1>1, <1>5, ShiftedIs
    <2> HIDE DEF kids, m
    <2> QED BY <2>1 DEF Hung
  <1>7. /\ End(gen, p) \in p .. Len(gen)
        /\ \A k \in p + 1 .. End(gen, p) : gen[k].level > m
        /\ End(gen, p) = Len(gen) \/ gen[End(gen, p) + 1].level <= m
    BY <1>4, EndOf
  <1>8. /\ cut \in Nat /\ cut >= 1 /\ cut <= Len(gen)
        /\ gen[cut].level >= m
        /\ cut + 1 \in DOMAIN gen => gen[cut + 1].level <= m + 1
    <2>1. CASE cut = p
      <3>1. cut \in Nat /\ cut >= 1 /\ cut <= Len(gen)
        BY <1>4, <2>1
      <3>2. cut + 1 \in DOMAIN gen => gen[cut + 1].level <= m + 1
        <4> DEFINE x == cut + 1
        <4>1. x # 1 /\ x - 1 = p
          BY <2>1, <3>1
        <4> HIDE DEF x
        <4>2. x \in DOMAIN gen => gen[x].level \in l .. m + 1
          BY <1>3, <4>1 DEF Hangs
        <4>3. x \in DOMAIN gen => gen[x].level <= m + 1
          BY <1>2, <1>5, <4>2
        <4> QED BY <4>3 DEF x
      <3>3. gen[cut].level >= m
        BY <1>5, <2>1
      <3> QED BY <3>1, <3>2, <3>3
    <2>2. CASE cut = End(gen, p)
      <3>1. cut \in Nat /\ cut >= 1 /\ cut <= Len(gen) /\ (cut = p \/ cut \in p + 1 .. End(gen, p))
        <4>1. cut \in p .. Len(gen) /\ p \in 1 .. Len(gen)
          BY <1>4, <1>7, <2>2
        <4> QED BY <1>4, <2>2, <4>1
      <3>2. gen[cut].level \in Nat /\ gen[cut].level >= m
        <4>1. cut \in DOMAIN gen
          BY <1>4, <3>1
        <4>2. gen[cut].level \in Nat /\ (gen[cut].level > m \/ cut = p)
          BY <1>4, <1>7, <3>1, <4>1
        <4> QED BY <1>5, <4>2
      <3>3. cut + 1 \in DOMAIN gen => gen[cut + 1].level <= m + 1
        <4>1. ASSUME cut + 1 \in DOMAIN gen PROVE gen[cut + 1].level <= m + 1
          <5>1. cut # Len(gen)
            BY <1>4, <3>1, <4>1
          <5>2. gen[cut + 1].level \in Nat /\ gen[cut + 1].level <= m
            BY <1>4, <1>7, <2>2, <4>1, <5>1
          <5> HIDE DEF m
          <5> QED BY <1>5, <5>2
        <4> QED BY <4>1
      <3> QED BY <3>1, <3>2, <3>3
    <2> QED BY <2>1, <2>2
  <1>9. new = Splice(gen, c, cut, kids)
    <2>1. c - 1 = cut
      BY <1>8
    <2> QED BY <2>1 DEF Splice, Retained
  <1> HIDE DEF kids, new
  <1>10. c \in 1 .. Len(gen) + 1 /\ cut \in c - 1 .. Len(gen) /\ c # 1 /\ c - 1 = cut
    BY <1>4, <1>8
  <1> HIDE DEF c
  <1>11. m + 1 \in l .. (IF c = 1 THEN l ELSE gen[c - 1].level + 1)
    <2>1. gen[cut].level \in Nat
      BY <1>4, <1>8
    <2>2. m + 1 \in l .. gen[cut].level + 1
      <3> HIDE DEF m, l
      <3> QED BY <1>2, <1>5, <1>8, <2>1
    <2> QED BY <1>10, <2>2
  <1> HIDE DEF m, l
  <1>12. Hangs(new, l)
    <2>1. gen \in Seq(TreeNode) /\ Hangs(gen, l) /\ kids \in Seq(TreeNode) /\ Hangs(kids, m + 1)
      BY <1>3, <1>6
    <2>2. cut + 1 \in DOMAIN gen => gen[cut + 1].level <= m + 1
      BY <1>8
    <2>3. l \in Nat
      BY <1>2
    <2> QED BY ONLY <1>9, <1>10, <1>11, <2>1, <2>2, <2>3, Graft
  <1>13. Spliced(new, gen, c, cut, kids)
    BY <1>3, <1>6, <1>9, <1>10, SpliceIs
  <1>14. DOMAIN new = 1 .. Len(new) /\ Len(new) \in Nat /\ new \in Seq(TreeNode)
    <2>1. new \in Seq(TreeNode)
      BY <1>13 DEF Spliced
    <2> QED BY <2>1, LenProperties
  <1>15. \A k \in DOMAIN gen : gen[k] \in Grown
    BY <1>3, <1>4 DEF Grown
  <1>16. \A k \in DOMAIN kids : kids[k] \in Grown
    <2>1. DOMAIN kids = 1 .. Len(kids) /\ \A k \in 1 .. Len(kids) : kids[k] \in TreeNode
      BY <1>6, LenProperties, ElementOfSeq
    <2>2. ASSUME NEW k \in DOMAIN kids PROVE kids[k] \in Grown
      <3>1. PICK x \in i + 1 .. End(forest, i) :
              kids[k].mark = forest[x].mark /\ kids[k].how = forest[x].how /\ kids[k].by = forest[x].by
        BY <1>6
      <3>2. x \in DOMAIN forest
        <4>1. /\ Len(forest) \in Nat /\ DOMAIN forest = 1 .. Len(forest) /\ i \in Nat
              /\ End(forest, i) \in i .. Len(forest)
          BY <1>1, LevelIs, EndIs
        <4> QED BY <4>1
      <3> QED BY <2>1, <3>1, <3>2 DEF Grown
    <2> QED BY <2>2
  <1>17. ASSUME NEW k \in DOMAIN new PROVE new[k] \in Grown
    <2> DEFINE b == Len(kids)
    <2>1. /\ DOMAIN kids = 1 .. b /\ b \in Nat
      BY <1>6, LenProperties
    <2>2. /\ k < c => k \in 1 .. Len(gen) /\ new[k] = gen[k]
          /\ k >= c /\ k < c + b => k - c + 1 \in 1 .. b /\ new[k] = kids[k - c + 1]
          /\ k >= c + b => /\ k - c - b + 1 + cut \in cut + 1 .. Len(gen)
                           /\ new[k] = gen[k - c - b + 1 + cut]
      BY <1>13, <1>14 DEF Spliced
    <2> HIDE DEF b
    <2>3. k < c \/ (k >= c /\ k < c + b) \/ k >= c + b
      BY <1>4, <1>10, <1>14, <2>1
    <2>4. \A y \in cut + 1 .. Len(gen) : y \in 1 .. Len(gen)
      BY <1>4, <1>8
    <2> QED BY <1>4, <1>15, <1>16, <2>1, <2>2, <2>3, <2>4
  <1>18. GrownTrees(new, l)
    BY <1>12, <1>14, <1>17 DEF GrownTrees
  <1> QED BY <1>18 DEF l, new

LEMMA ReplacedNodeIs ==
    ASSUME Types, NEW i \in DOMAIN forest, NEW frag \in Trees, NEW retained \in Retentions(frag),
           retained.where # "none" => \A x \in i + 1 .. End(forest, i) : forest[x].mark = "new"
    PROVE  Regrown(forest, ReplacedNode(i, frag, retained), i, End(forest, i), forest[i].level, Grown)
  <1> DEFINE l == forest[i].level  e == End(forest, i)  p == retained.parent
             gen == Generate(frag, i, l - 1, "node")
             cut == IF retained.where = "prepend" THEN p ELSE End(gen, p)
             new == IF retained.where = "none" THEN gen ELSE Retained(i, gen, p, cut)
  <1>1. forest \in Forest
    BY DEF Types
  <1>2. /\ Len(forest) \in Nat /\ DOMAIN forest = 1 .. Len(forest) /\ i \in Nat
        /\ i >= 1 /\ i <= Len(forest) /\ l \in Nat /\ l >= 1 /\ Fits(forest, i, l)
    BY <1>1, LevelIs
  <1>3. e \in i .. Len(forest) /\ (e = Len(forest) \/ forest[e + 1].level <= l)
    BY <1>1, EndIs
  <1>4. ReplacedNode(i, frag, retained) = Splice(forest, i, e, new)
    BY Zenon DEF ReplacedNode, Splice, Retained
  <1>5. GrownTrees(new, l)
    <2>1. CASE retained.where = "none"
      <3>1. new = gen
        BY <2>1
      <3>2. l - 1 \in Nat /\ l - 1 + 1 = l /\ "node" \in {"node", "children"}
        <4> HIDE DEF l
        <4> QED BY <1>2
      <3>3. /\ gen \in Seq(TreeNode) /\ Hangs(gen, l - 1 + 1)
            /\ \A k \in DOMAIN gen : gen[k].mark = "new" /\ gen[k].how = "node" /\ gen[k].by = calls + 1
        BY <3>2, GenerateIs
      <3> HIDE DEF gen, new
      <3>4. \A k \in DOMAIN gen : gen[k] \in TreeNode
        <4>1. DOMAIN gen = 1 .. Len(gen)
          BY <3>3, LenProperties
        <4> QED BY <3>3, <4>1, ElementOfSeq
      <3>5. \A k \in DOMAIN gen : gen[k] \in Grown
        BY <3>3, <3>4 DEF Grown
      <3> QED BY <3>1, <3>2, <3>3, <3>5 DEF GrownTrees
    <2>2. CASE retained.where # "none"
      <3>1. p \in DOMAIN frag
        BY <2>2 DEF Retentions
      <3>2. cut = p \/ cut = End(gen, p)
        OBVIOUS
      <3>3. new = Retained(i, gen, p, cut)
        BY <2>2
      <3>4. \A x \in i + 1 .. End(forest, i) : forest[x].mark = "new"
        BY <2>2
      <3>5. gen = Generate(frag, i, forest[i].level - 1, "node")
        OBVIOUS
      <3> HIDE DEF gen, cut, new, p
      <3>6. GrownTrees(Retained(i, gen, p, cut), forest[i].level)
        BY <3>1, <3>2, <3>4, <3>5, RetainedIs
      <3> QED BY <3>3, <3>6
    <2> QED BY <2>1, <2>2
  <1> HIDE DEF gen, cut, p, new, e
  <1>6. i \in 1 .. Len(forest) + 1 /\ e \in i - 1 .. Len(forest)
    <2>1. Len(forest) \in Nat /\ i \in Nat /\ i >= 1 /\ i <= Len(forest) /\ e \in i .. Len(forest)
      BY <1>2, <1>3
    <2> QED BY ONLY <2>1
  <1>7. e + 1 \in DOMAIN forest => forest[e + 1].level <= l
    <2>1. ASSUME e + 1 \in DOMAIN forest PROVE e # Len(forest)
      <3>1. e + 1 \in 1 .. Len(forest) /\ Len(forest) \in Nat
        BY <1>2, <2>1
      <3> QED BY ONLY <3>1
    <2> QED BY <1>3, <2>1
  <1>8. new \in Seq(TreeNode) /\ Hangs(new, l) /\ \A k \in DOMAIN new : new[k] \in Grown
    BY <1>5 DEF GrownTrees
  <1> HIDE DEF l
  <1>9. Regrown(forest, ReplacedNode(i, frag, retained), i, e, l, Grown)
    BY <1>1, <1>2, <1>4, <1>6, <1>7, <1>8, Regrow
  <1> QED BY <1>9 DEF e, l

-----------------------------------------------------------------------------
(* Paths that lead to siblings.                                            *)
LEMMA PathIs ==
    ASSUME NEW p \in Path
    PROVE  /\ p \in Seq(Nat) /\ p # <<>> /\ Len(p) \in Nat /\ Len(p) >= 1
           /\ \A x \in 1 .. Len(p) : p[x] \in Nat
  <1>1. p \in Seq(Nat) /\ p # <<>>
    BY DEF Path
  <1>2. Len(p) \in Nat \ {0}
    BY <1>1, EmptySeq
  <1>3. \A x \in 1 .. Len(p) : p[x] \in Nat
    BY <1>1, ElementOfSeq
  <1>4. Len(p) \in Nat /\ Len(p) >= 1
    BY <1>2
  <1> QED BY <1>1, <1>3, <1>4

LEMMA PathsEqual ==
    ASSUME NEW p \in Path, NEW q \in Path, Len(p) = Len(q), p[Len(p)] = q[Len(q)],
           \A x \in 1 .. Len(p) - 1 : p[x] = q[x]
    PROVE  p = q
  <1>1. p \in Seq(Nat) /\ q \in Seq(Nat) /\ Len(p) \in Nat /\ Len(p) >= 1
    BY PathIs
  <1>2. \A x \in 1 .. Len(p) : x \in 1 .. Len(p) - 1 \/ x = Len(p)
    BY <1>1
  <1>3. \A x \in 1 .. Len(p) : p[x] = q[x]
    BY <1>2
  <1> QED BY <1>1, <1>3, SeqEqual

LEMMA ChildPath ==
    ASSUME NEW p \in Path, NEW o \in Nat
    PROVE  /\ Append(p, o) \in Path /\ Len(Append(p, o)) = Len(p) + 1
           /\ Append(p, o)[Len(p) + 1] = o
           /\ \A x \in 1 .. Len(p) : Append(p, o)[x] = p[x]
  <1>1. p \in Seq(Nat)
    BY PathIs
  <1>2. /\ Append(p, o) \in Seq(Nat) /\ Append(p, o) # <<>> /\ Len(Append(p, o)) = Len(p) + 1
        /\ \A x \in 1 .. Len(p) : Append(p, o)[x] = p[x]
        /\ Append(p, o)[Len(p) + 1] = o
    BY <1>1, AppendProperties
  <1> QED BY <1>2 DEF Path

LEMMA OnwardOfChild ==
    ASSUME NEW p \in Path, NEW o \in Nat, NEW n \in Nat
    PROVE  Onward(Append(p, o), n) = Append(p, o + n)
  <1> DEFINE q == Append(p, o)  r == Append(p, o + n)  t == Onward(q, n)  l == Len(p)
  <1>0. l \in Nat /\ l >= 1
    BY PathIs
  <1>1. q \in Path /\ Len(q) = l + 1 /\ q[l + 1] = o /\ \A x \in 1 .. l : q[x] = p[x]
    BY ChildPath
  <1>2. r \in Path /\ Len(r) = l + 1 /\ r[l + 1] = o + n /\ \A x \in 1 .. l : r[x] = p[x]
    <2>1. o + n \in Nat
      OBVIOUS
    <2> QED BY <2>1, ChildPath
  <1> HIDE DEF q, r
  <1>3. /\ t \in Path /\ Len(t) = Len(q) /\ t[Len(q)] = q[Len(q)] + n
        /\ \A x \in 1 .. Len(q) - 1 : t[x] = q[x]
    BY <1>1, OnwardIs
  <1> HIDE DEF t, l
  <1>5. Len(t) = l + 1 /\ Len(r) = l + 1
    BY <1>1, <1>2, <1>3
  <1>6. t[l + 1] = r[l + 1]
    BY <1>1, <1>2, <1>3
  <1>7. \A x \in 1 .. l : t[x] = r[x]
    <2>1. Len(q) - 1 = l
      BY <1>0, <1>1
    <2>2. \A x \in 1 .. l : t[x] = q[x]
      BY <1>3, <2>1
    <2> QED BY <1>1, <1>2, <2>2
  <1>8. Len(t) = Len(r) /\ t[Len(t)] = r[Len(r)] /\ Len(t) - 1 = l
    BY <1>0, <1>5, <1>6
  <1>9. \A x \in 1 .. Len(t) - 1 : t[x] = r[x]
    BY <1>7, <1>8
  <1>10. t = r
    BY <1>2, <1>3, <1>8, <1>9, PathsEqual
  <1> QED BY <1>10 DEF t, r, q

LEMMA OnwardTwice ==
    ASSUME NEW p \in Path, NEW o \in Nat, NEW n \in Nat
    PROVE  Onward(Onward(p, o), n) = Onward(p, o + n)
  <1> DEFINE q == Onward(p, o)  r == Onward(p, o + n)  t == Onward(q, n)
  <1>1. /\ q \in Path /\ Len(q) = Len(p) /\ q[Len(p)] = p[Len(p)] + o /\ p[Len(p)] \in Nat
        /\ \A x \in 1 .. Len(p) - 1 : q[x] = p[x]
    BY OnwardIs
  <1>2. /\ r \in Path /\ Len(r) = Len(p) /\ r[Len(p)] = p[Len(p)] + (o + n)
        /\ \A x \in 1 .. Len(p) - 1 : r[x] = p[x]
    <2>1. o + n \in Nat
      OBVIOUS
    <2> QED BY <2>1, OnwardIs
  <1> HIDE DEF q, r
  <1>3. /\ t \in Path /\ Len(t) = Len(q) /\ t[Len(q)] = q[Len(q)] + n
        /\ \A x \in 1 .. Len(q) - 1 : t[x] = q[x]
    BY <1>1, OnwardIs
  <1> HIDE DEF t
  <1>4. t[Len(t)] = r[Len(r)]
    BY <1>1, <1>2, <1>3
  <1>5. Len(t) = Len(r) /\ \A x \in 1 .. Len(t) - 1 : t[x] = r[x]
    BY <1>1, <1>2, <1>3
  <1>6. t = r
    BY <1>2, <1>3, <1>4, <1>5, PathsEqual
  <1> QED BY <1>6 DEF t, r, q

LEMMA GeneratedIs ==
    ASSUME NEW frame \in Call
    PROVE  /\ GeneratedPath(frame) = Onward(frame.path, frame.pos)
           /\ GeneratedPath(frame) \in Path
  <1> DEFINE p == frame.path  n == frame.pos  A == Front(p)  B == <<p[Len(p)] + n>>  t == A \o B
             q == Onward(p, n)
  <1>1. p \in Path /\ n \in Nat
    BY DEF Call
  <1> HIDE DEF p, n
  <1>2. p \in Seq(Nat) /\ Len(p) \in Nat /\ Len(p) >= 1 /\ \A x \in 1 .. Len(p) : p[x] \in Nat
    BY <1>1, PathIs
  <1>3. /\ q \in Path /\ Len(q) = Len(p) /\ q[Len(p)] = p[Len(p)] + n /\ p[Len(p)] \in Nat
        /\ \A x \in 1 .. Len(p) - 1 : q[x] = p[x]
    BY <1>1, OnwardIs
  <1>4. A \in Seq(Nat) /\ Len(A) = Len(p) - 1 /\ \A x \in 1 .. Len(p) - 1 : A[x] = p[x]
    <2>1. 1 \in Int /\ Len(p) - 1 \in Int /\ \A x \in 1 .. Len(p) - 1 : x \in 1 .. Len(p)
      BY <1>2
    <2>2. \A x \in 1 .. Len(p) - 1 : p[x] \in Nat
      BY <1>2, <2>1
    <2>3. /\ A \in Seq(Nat) /\ Len(A) = IF 1 <= Len(p) - 1 THEN Len(p) - 1 - 1 + 1 ELSE 0
          /\ \A x \in 1 .. Len(p) - 1 - 1 + 1 : A[x] = p[1 + x - 1]
      BY <2>1, <2>2, SubSeqProperties DEF Front
    <2> HIDE DEF A
    <2>4. Len(A) = Len(p) - 1
      <3>1. Len(A) = IF 1 <= Len(p) - 1 THEN Len(p) - 1 - 1 + 1 ELSE 0
        BY <2>3
      <3>2. Len(p) \in Nat /\ Len(p) >= 1
        BY <1>2
      <3> DEFINE d == Len(p)  a == Len(A)
      <3>3. a = (IF 1 <= d - 1 THEN d - 1 - 1 + 1 ELSE 0) /\ d \in Nat /\ d >= 1
        BY <3>1, <3>2
      <3> HIDE DEF d, a
      <3>4. a = d - 1
        BY <3>3
      <3> QED BY <3>4 DEF a, d
    <2>5. \A x \in 1 .. Len(p) - 1 : x \in 1 .. Len(p) - 1 - 1 + 1 /\ 1 + x - 1 = x
      BY <1>2
    <2> QED BY <2>3, <2>4, <2>5
  <1>5. B \in Seq(Nat) /\ Len(B) = 1 /\ B[1] = q[Len(p)]
    <2>1. p[Len(p)] + n \in Nat
      BY <1>1, <1>3
    <2> QED BY <1>3, <2>1
  <1> HIDE DEF A, B, q
  <1>6. /\ t \in Seq(Nat) /\ Len(t) = Len(A) + Len(B)
        /\ \A x \in 1 .. Len(A) + Len(B) : t[x] = IF x <= Len(A) THEN A[x] ELSE B[x - Len(A)]
    BY <1>4, <1>5, ConcatProperties
  <1> HIDE DEF t
  <1>7. Len(t) = Len(p)
    BY <1>2, <1>4, <1>5, <1>6
  <1>8. \A x \in 1 .. Len(t) : t[x] = q[x]
    <2>1. ASSUME NEW x \in 1 .. Len(p) PROVE t[x] = q[x]
      <3>1. x \in 1 .. Len(A) + Len(B)
        BY <1>2, <1>4, <1>5
      <3>2. CASE x = Len(p)
        <4>1. ~(x <= Len(A)) /\ x - Len(A) = 1
          BY <1>2, <1>4, <3>2
        <4> QED BY <1>5, <1>6, <3>1, <3>2, <4>1
      <3>3. CASE x # Len(p)
        <4>1. x <= Len(A) /\ x \in 1 .. Len(p) - 1
          BY <1>2, <1>4, <3>3
        <4> QED BY <1>3, <1>4, <1>6, <3>1, <4>1
      <3> QED BY <3>2, <3>3
    <2> QED BY <1>7, <2>1
  <1>9. t = q
    <2>1. q \in Seq(Nat)
      BY <1>3, PathIs
    <2> QED BY <1>3, <1>6, <1>7, <1>8, <2>1, SeqEqual
  <1>10. GeneratedPath(frame) = t
    BY DEF GeneratedPath, t, A, B, p, n
  <1> QED BY <1>3, <1>9, <1>10 DEF q, p, n

LEMMA OnwardZero == ASSUME NEW p \in Path PROVE Onward(p, 0) = p
  <1>1. p \in Seq(Nat) /\ Len(p) \in Nat /\ Len(p) >= 1 /\ \A x \in 1 .. Len(p) : p[x] \in Nat
    BY PathIs
  <1> DEFINE q == Onward(p, 0)
  <1>2. /\ q \in Path /\ Len(q) = Len(p) /\ q[Len(p)] = p[Len(p)] + 0 /\ p[Len(p)] \in Nat
        /\ \A x \in 1 .. Len(p) - 1 : q[x] = p[x]
    BY OnwardIs
  <1> HIDE DEF q
  <1>3. q[Len(p)] = p[Len(p)]
    BY <1>2
  <1>4. q = p
    BY <1>2, <1>3, PathsEqual
  <1> QED BY <1>4 DEF q

-----------------------------------------------------------------------------
(* How many calls of a stack are walking what they generated.              *)
LEMMA CountIs ==
    ASSUME NEW s, NEW n \in Nat
    PROVE  Count(s, n) \in Nat /\ IsFiniteSet({k \in 1 .. n : s[k].phase = "generated"})
  <1>1. IsFiniteSet(1 .. n)
    BY FS_Interval
  <1>2. IsFiniteSet({k \in 1 .. n : s[k].phase = "generated"})
    BY <1>1, FS_Subset
  <1> QED BY <1>2, FS_CardinalityType DEF Count

LEMMA CountSame ==
    ASSUME NEW s, NEW t, NEW n \in Nat,
           \A k \in 1 .. n : s[k].phase = "generated" <=> t[k].phase = "generated"
    PROVE  Count(s, n) = Count(t, n)
  <1>1. {k \in 1 .. n : s[k].phase = "generated"} = {k \in 1 .. n : t[k].phase = "generated"}
    OBVIOUS
  <1> QED BY <1>1 DEF Count

LEMMA CountStep ==
    ASSUME NEW s, NEW n \in Nat
    PROVE  /\ s[n + 1].phase = "generated" => Count(s, n + 1) = Count(s, n) + 1
           /\ s[n + 1].phase # "generated" => Count(s, n + 1) = Count(s, n)
  <1> DEFINE A == {k \in 1 .. n : s[k].phase = "generated"}
             B == {k \in 1 .. n + 1 : s[k].phase = "generated"}
  <1>1. \A k \in 1 .. n + 1 : k \in 1 .. n \/ k = n + 1
    OBVIOUS
  <1>2. n + 1 \notin 1 .. n /\ n + 1 \in 1 .. n + 1 /\ \A k \in 1 .. n : k \in 1 .. n + 1
    OBVIOUS
  <1>3. IsFiniteSet(A)
    BY CountIs
  <1>4. ASSUME s[n + 1].phase = "generated" PROVE Count(s, n + 1) = Count(s, n) + 1
    <2>1. B = A \cup {n + 1} /\ n + 1 \notin A
      BY <1>1, <1>2, <1>4
    <2> HIDE DEF A, B
    <2>2. Cardinality(B) = Cardinality(A) + 1
      BY <1>3, <2>1, FS_AddElement
    <2> QED BY <2>2 DEF Count, A, B
  <1>5. ASSUME s[n + 1].phase # "generated" PROVE Count(s, n + 1) = Count(s, n)
    <2>1. B = A
      BY <1>1, <1>2, <1>5
    <2> QED BY <2>1 DEF Count
  <1> QED BY <1>4, <1>5

LEMMA CountLeast ==
    ASSUME NEW s, NEW n \in Nat, NEW k \in 1 .. n
    PROVE  /\ Count(s, k) <= Count(s, n)
           /\ s[k].phase = "generated" => Count(s, k) >= 1
  <1> DEFINE A == {x \in 1 .. k : s[x].phase = "generated"}
             B == {x \in 1 .. n : s[x].phase = "generated"}
  <1>1. k \in Nat /\ \A x \in 1 .. k : x \in 1 .. n
    OBVIOUS
  <1>2. IsFiniteSet(A) /\ IsFiniteSet(B) /\ Count(s, k) \in Nat
    BY <1>1, CountIs
  <1>3. A \in SUBSET B
    BY <1>1
  <1>4. Count(s, k) <= Count(s, n)
    BY <1>2, <1>3, FS_Subset DEF Count
  <1>5. ASSUME s[k].phase = "generated" PROVE Count(s, k) >= 1
    <2>1. k \in A
      BY <1>1, <1>5
    <2> HIDE DEF A
    <2>2. Cardinality(A) # 0
      BY <1>2, <2>1, FS_EmptySet
    <2>3. Count(s, k) # 0
      BY <2>2 DEF Count, A
    <2> QED BY <1>2, <2>3
  <1> QED BY <1>4, <1>5

-----------------------------------------------------------------------------
(* The stack of calls.                                                     *)
LEMMA StackIs ==
    ASSUME Types
    PROVE  /\ stack \in Seq(Call) /\ Len(stack) \in Nat /\ DOMAIN stack = 1 .. Len(stack)
           /\ \A k \in DOMAIN stack : stack[k] \in Call
           /\ stack # <<>> => /\ Len(stack) >= 1 /\ Len(stack) \in DOMAIN stack
                              /\ Top \in Call /\ Running
  <1>1. stack \in Seq(Call)
    BY DEF Types
  <1>2. Len(stack) \in Nat /\ DOMAIN stack = 1 .. Len(stack)
    BY <1>1, LenProperties
  <1>3. \A k \in DOMAIN stack : stack[k] \in Call
    BY <1>1, <1>2, ElementOfSeq
  <1>4. ASSUME stack # <<>> PROVE Len(stack) >= 1 /\ Len(stack) \in DOMAIN stack
    <2>1. Len(stack) \in Nat \ {0}
      BY <1>1, <1>4, EmptySeq
    <2> QED BY <1>2, <2>1
  <1>5. stack # <<>> => Running
    BY DEF Types
  <1> QED BY <1>1, <1>2, <1>3, <1>4, <1>5 DEF Top

LEMMA CallIs ==
    ASSUME NEW frame \in Call
    PROVE  /\ frame.path \in Path /\ frame.depth \in Nat /\ frame.todo \in SUBSET DOMAIN Candidates
           /\ frame.kept \in SUBSET Nat /\ frame.phase \in {"macros", "generated", "children"}
           /\ frame.key \in Keys /\ frame.left \in Nat /\ frame.pos \in Nat /\ frame.target \in Int
  BY DEF Call

Advanced(g, frame, n) ==
    /\ g \in Call /\ g.path = frame.path /\ g.phase = frame.phase /\ g.key = frame.key
    /\ g.kept = frame.kept /\ g.target = frame.target
    /\ Step(g) = Onward(Step(frame), n)

LEMMA Advance ==
    ASSUME NEW frame \in Call, NEW n \in Nat
    PROVE  /\ Advanced([frame EXCEPT !.pos = frame.pos + n], frame, n)
           /\ Step(frame) \in Path
  <1> DEFINE g == [frame EXCEPT !.pos = frame.pos + n]
  <1>1. frame.path \in Path /\ frame.pos \in Nat /\ frame.pos + n \in Nat
    BY CallIs
  <1>2. /\ g \in Call /\ g.path = frame.path /\ g.phase = frame.phase /\ g.key = frame.key
        /\ g.kept = frame.kept /\ g.target = frame.target /\ g.pos = frame.pos + n
    <2> DEFINE v == frame.pos + n
    <2>1. v \in Nat
      BY <1>1
    <2> HIDE DEF v
    <2> QED BY <2>1 DEF Call
  <1> HIDE DEF g
  <1>3. CASE frame.phase = "children"
    <2>1. Step(frame) = Append(frame.path, frame.pos) /\ Step(g) = Append(frame.path, frame.pos + n)
      BY <1>2, <1>3 DEF Step
    <2>2. Onward(Append(frame.path, frame.pos), n) = Append(frame.path, frame.pos + n)
      BY <1>1, OnwardOfChild
    <2>3. Append(frame.path, frame.pos) \in Path
      BY <1>1, ChildPath
    <2> QED BY <1>2, <2>1, <2>2, <2>3 DEF g, Advanced
  <1>4. CASE frame.phase # "children"
    <2>1. Step(frame) = GeneratedPath(frame) /\ Step(g) = GeneratedPath(g)
      BY <1>2, <1>4 DEF Step
    <2>2. GeneratedPath(frame) = Onward(frame.path, frame.pos) /\ GeneratedPath(frame) \in Path
      BY GeneratedIs
    <2>3. GeneratedPath(g) = Onward(g.path, g.pos)
      BY <1>2, GeneratedIs
    <2>4. Onward(Onward(frame.path, frame.pos), n) = Onward(frame.path, frame.pos + n)
      BY <1>1, OnwardTwice
    <2>5. Step(g) = Onward(Step(frame), n)
      BY <1>2, <2>1, <2>2, <2>3, <2>4
    <2> QED BY <1>2, <2>1, <2>2, <2>5 DEF g, Advanced
  <1> QED BY <1>3, <1>4

(* When a call returns, the one below it goes on past the siblings.        *)
Alike(s, t, n) ==
    \A k \in 1 .. n : /\ s[k].path = t[k].path /\ s[k].phase = t[k].phase
                      /\ s[k].key = t[k].key /\ s[k].kept = t[k].kept
                      /\ s[k].target = t[k].target

LEMMA Returned ==
    ASSUME Types, Linked, stack # <<>>, NEW n \in Nat, Return(n)
    PROVE  /\ stack' \in Seq(Call) /\ root' \in Nat /\ Len(stack') = Len(stack) - 1
           /\ Alike(stack', stack, Len(stack) - 1)
           /\ Linked' /\ NextPath' = Onward(Top.path, n)
           /\ stack' # <<>> => stack'[Len(stack')].phase # "macros"
  <1> DEFINE d == Len(stack) - 1  B == Below
  <1>1. /\ stack \in Seq(Call) /\ Len(stack) \in Nat /\ DOMAIN stack = 1 .. Len(stack)
        /\ \A k \in DOMAIN stack : stack[k] \in Call
        /\ Len(stack) >= 1 /\ Top \in Call /\ Top.path \in Path
    BY StackIs, CallIs
  <1>2. d \in Nat /\ d + 1 = Len(stack) /\ \A k \in 1 .. d : k \in DOMAIN stack
    BY <1>1
  <1>3. B \in Seq(Call) /\ Len(B) = d /\ \A k \in 1 .. d : B[k] = stack[k]
    <2>1. 1 \in Int /\ d \in Int
      BY <1>2
    <2>2. \A k \in 1 .. d : stack[k] \in Call
      BY <1>1, <1>2
    <2>3. B = SubSeq(stack, 1, d)
      BY DEF Below, Front
    <2> HIDE DEF d
    <2>4. /\ B \in Seq(Call) /\ Len(B) = IF 1 <= d THEN d - 1 + 1 ELSE 0
          /\ \A k \in 1 .. d - 1 + 1 : B[k] = stack[1 + k - 1]
      BY <2>1, <2>2, <2>3, SubSeqProperties
    <2> HIDE DEF B
    <2>5. Len(B) = d
      BY <1>2, <2>4
    <2>6. \A k \in 1 .. d : k \in 1 .. d - 1 + 1 /\ 1 + k - 1 = k
      BY <1>2
    <2> QED BY <2>4, <2>5, <2>6
  <1>4. B = <<>> <=> d = 0
    <2> HIDE DEF B, d
    <2> QED BY <1>3, EmptySeq
  <1>5. /\ \A k \in 1 .. d : stack[k].phase # "macros" /\ stack[k + 1].path = Step(stack[k])
        /\ stack[1].path = <<root>>
        /\ \A k, m \in DOMAIN stack :
              k < m /\ stack[k].phase = "children" => Under(stack[k].path, stack[m].path)
    BY DEF Linked
  <1>6. CASE d = 0
    <2>1. stack' = <<>> /\ root' = root + n
      BY <1>4, <1>6 DEF Return
    <2>2. root \in Nat
      BY DEF Types
    <2>3. Top.path = <<root>>
      <3>1. Len(stack) = 1
        <4>1. d = 0 /\ d + 1 = Len(stack)
          BY <1>2, <1>6
        <4> HIDE DEF d
        <4>2. Len(stack) = 0 + 1
          BY <4>1
        <4> QED BY <4>2
      <3> QED BY <1>5, <3>1 DEF Top
    <2>4. Onward(<<root>>, n) = <<root + n>>
      <3> DEFINE p == <<root>>  q == <<root + n>>  t == Onward(p, n)
      <3>1. p \in Path /\ q \in Path /\ Len(p) = 1 /\ Len(q) = 1 /\ p[1] = root /\ q[1] = root + n
        BY <2>2 DEF Path
      <3> HIDE DEF p, q
      <3>2. t \in Path /\ Len(t) = Len(p) /\ t[Len(p)] = p[Len(p)] + n
        BY <3>1, OnwardIs
      <3> HIDE DEF t
      <3>3. Len(t) = 1 /\ t[1] = q[1]
        BY <3>1, <3>2
      <3>4. \A x \in 1 .. Len(t) - 1 : t[x] = q[x]
        BY <3>3
      <3>5. Len(t) = Len(q) /\ t[Len(t)] = q[Len(q)]
        BY <3>1, <3>3
      <3>6. t = q
        BY <3>1, <3>2, <3>4, <3>5, PathsEqual
      <3> QED BY <3>6 DEF t, q, p
    <2>5. NextPath' = Onward(Top.path, n)
      BY <2>1, <2>3, <2>4 DEF NextPath
    <2>6. Len(stack') = 0 /\ stack' \in Seq(Call) /\ DOMAIN stack' = {}
      BY <2>1
    <2>7. Linked'
      BY <2>1, <2>6 DEF Linked
    <2>8. Alike(stack', stack, d)
      <3>1. \A k \in 1 .. d : FALSE
        <4> HIDE DEF d
        <4> QED BY <1>6
      <3> QED BY <3>1 DEF Alike
    <2>9. root + n \in Nat
      BY <2>2
    <2> HIDE DEF B
    <2> QED BY <1>6, <2>1, <2>5, <2>6, <2>7, <2>8, <2>9
  <1>7. CASE d # 0
    <2> DEFINE g == [stack[d] EXCEPT !.pos = stack[d].pos + n]
    <2>1. d \in 1 .. d /\ d >= 1
      BY <1>2, <1>7
    <2>2. stack' = [B EXCEPT ![d] = g] /\ root' = root
      <3>1. stack' = [B EXCEPT ![Len(B)].pos = @ + n] /\ root' = root
        BY <1>4, <1>7 DEF Return
      <3>2. B[d] = stack[d]
        BY <1>3, <2>1
      <3> HIDE DEF B, d
      <3> QED BY <1>3, <3>1, <3>2
    <2>3. stack[d] \in Call
      BY <1>1, <1>2, <2>1
    <2>4. Advanced(g, stack[d], n) /\ Step(stack[d]) \in Path
      BY <2>3, Advance
    <2> HIDE DEF g, B, d
    <2>5. g \in Call /\ g.path = stack[d].path /\ g.phase = stack[d].phase
          /\ g.key = stack[d].key /\ g.kept = stack[d].kept /\ g.target = stack[d].target
          /\ Step(g) = Onward(Step(stack[d]), n)
      BY <2>4 DEF Advanced
    <2>6. /\ stack' \in Seq(Call) /\ Len(stack') = d
          /\ \A k \in 1 .. d : stack'[k] = IF k = d THEN g ELSE B[k]
      BY <1>3, <2>1, <2>2, <2>5, ExceptSeq
    <2>7. stack'[d] = g /\ \A k \in 1 .. d : k # d => stack'[k] = stack[k]
      BY <1>3, <2>1, <2>6
    <2>8. Alike(stack', stack, d)
      BY <2>5, <2>7 DEF Alike
    <2>9. Top.path = Step(stack[d]) /\ stack[d].phase # "macros"
      BY <1>2, <1>5, <2>1 DEF Top
    <2>10. stack' # <<>>
      BY <2>1, <2>6
    <2>11. NextPath' = Onward(Top.path, n)
      BY <2>5, <2>6, <2>7, <2>9, <2>10 DEF NextPath, Top
    <2>12. DOMAIN stack' = 1 .. d
      BY <2>6, LenProperties
    <2>13. \A k \in 1 .. d - 1 : k \in 1 .. d /\ k # d /\ k + 1 \in 1 .. d
      BY <1>2
    <2>14. \A k \in 1 .. d : stack'[k].path = stack[k].path /\ stack'[k].phase = stack[k].phase
      BY <2>8 DEF Alike
    <2>15. \A k \in 1 .. Len(stack') - 1 : /\ stack'[k].phase # "macros"
                                          /\ stack'[k + 1].path = Step(stack'[k])
      <3>1. ASSUME NEW k \in 1 .. d - 1
            PROVE  stack'[k].phase # "macros" /\ stack'[k + 1].path = Step(stack'[k])
        <4>1. k \in 1 .. d /\ k # d /\ k + 1 \in 1 .. d
          BY <2>13
        <4>2. stack'[k] = stack[k] /\ stack'[k + 1].path = stack[k + 1].path
          BY <2>7, <2>14, <4>1
        <4> QED BY <1>5, <4>1, <4>2
      <3> QED BY <2>6, <3>1
    <2>16. \A k, m \in DOMAIN stack' :
              k < m /\ stack'[k].phase = "children" => Under(stack'[k].path, stack'[m].path)
      BY <1>2, <1>5, <2>12, <2>14
    <2>17. stack'[1].path = <<root'>>
      <3>1. 1 \in 1 .. d
        BY <1>2, <2>1
      <3> QED BY <1>5, <2>2, <2>14, <3>1
    <2>18. stack'[Len(stack')].phase # "macros"
      BY <2>5, <2>6, <2>7, <2>9
    <2>19. Linked'
      BY <2>15, <2>16, <2>17, <2>18 DEF Linked, Top
    <2>20. root' \in Nat
      BY <2>2 DEF Types
    <2> QED BY <2>6, <2>8, <2>11, <2>18, <2>19, <2>20 DEF d
  <1> QED BY <1>6, <1>7

-----------------------------------------------------------------------------
(* The stage stops without a tree.                                         *)
LEMMA Stopped ==
    ASSUME MacroInv, NEW how \in {"reject", "error"}, Stop(how),
           forest' \in Forest, calls' \in 0 .. MaxCalls, kept' = {}
    PROVE  MacroInv'
  <1>1. /\ input' = input /\ numbering' = numbering /\ edited' = edited /\ root' = root
        /\ disabled' = disabled /\ result' = how /\ stack' = <<>> /\ active' = <<>>
    BY DEF Stop
  <1>2. ~Running' /\ result' # "ok"
    BY <1>1 DEF Running
  <1>3. DOMAIN stack' = {} /\ Len(stack') = 0 /\ Len(active') = 0
    BY <1>1
  <1>4. Types'
    <2>1. Types
      BY DEF MacroInv
    <2>2. stack' \in Seq(Call) /\ active' \in Seq(Keys)
      BY <1>1
    <2>3. kept' \in SUBSET (1 .. calls')
      OBVIOUS
    <2>4. ~Running' => stack' = <<>>
      BY <1>1
    <2>5. result' \in {"running", "ok", "reject", "error"}
      BY <1>1
    <2>6. (InTree => input.order = "preorder")'
      BY <1>1, <2>1 DEF Types, InTree
    <2> QED BY <1>1, <1>3, <2>1, <2>2, <2>3, <2>4, <2>5, <2>6 DEF Types
  <1>5. Keyed'
    <2>1. {k \in 1 .. 0 : stack'[k].phase = "generated"} = {}
      OBVIOUS
    <2>2. Count(stack', 0) = 0
      BY <2>1, FS_EmptySet DEF Count
    <2> QED BY <1>3, <2>2 DEF Keyed
  <1>6. Linked'
    BY <1>1, <1>3 DEF Linked
  <1>7. Kept' /\ Depths' /\ Targets' /\ Walk'
    BY <1>2, <1>3 DEF Kept, Depths, Targets, Walk
  <1> QED BY <1>4, <1>5, <1>6, <1>7 DEF MacroInv

LEMMA Failed == ASSUME MacroInv, Error PROVE MacroInv'
  <1>1. Stop("error") /\ kept' = {} /\ forest' = forest /\ calls' = calls
    BY DEF Error
  <1>2. forest \in Forest /\ calls \in 0 .. MaxCalls
    BY DEF MacroInv, Types
  <1> QED BY <1>1, <1>2, Stopped

(* The next path is below the nodes whose children are walked.             *)
LEMMA NextPathIs ==
    ASSUME Types, Linked
    PROVE  /\ NextPath \in Path
           /\ \A k \in DOMAIN stack :
                 stack[k].phase = "children" => Under(stack[k].path, NextPath)
  <1>1. /\ DOMAIN stack = 1 .. Len(stack) /\ Len(stack) \in Nat
        /\ \A k \in DOMAIN stack : stack[k] \in Call
        /\ stack # <<>> => Len(stack) >= 1 /\ Len(stack) \in DOMAIN stack /\ Top \in Call
    BY StackIs
  <1>2. CASE stack = <<>>
    <2>1. NextPath = <<root>> /\ DOMAIN stack = {} /\ root \in Nat
      BY <1>2 DEF NextPath, Types
    <2>2. <<root>> \in Path
      BY <2>1 DEF Path
    <2> QED BY <2>1, <2>2
  <1>3. CASE stack # <<>>
    <2> DEFINE p == Top.path  q == NextPath
    <2>1. q = Step(Top)
      BY <1>3 DEF NextPath
    <2>2. q \in Path
      <3>1. 0 \in Nat
        OBVIOUS
      <3> QED BY <1>1, <1>3, <2>1, <3>1, Advance
    <2>3. p \in Path /\ Top.pos \in Nat
      BY <1>1, <1>3, CallIs
    <2>4. Len(p) \in Nat /\ Len(p) >= 1
      BY <2>3, PathIs
    <2>5. Len(q) >= Len(p) /\ Len(q) \in Nat /\ \A x \in 1 .. Len(p) - 1 : p[x] = q[x]
      <3>1. CASE Top.phase = "children"
        <4>1. q = Append(p, Top.pos)
          BY <2>1, <3>1 DEF Step
        <4>2. Len(q) = Len(p) + 1 /\ \A x \in 1 .. Len(p) : q[x] = p[x]
          BY <2>3, <4>1, ChildPath
        <4>3. \A x \in 1 .. Len(p) - 1 : x \in 1 .. Len(p)
          BY <2>4
        <4>4. Len(q) >= Len(p) /\ Len(q) \in Nat
          BY <2>4, <4>2
        <4> QED BY <4>2, <4>3, <4>4
      <3>2. CASE Top.phase # "children"
        <4>1. q = Onward(p, Top.pos)
          BY <1>1, <1>3, <2>1, <3>2, GeneratedIs DEF Step
        <4>2. Len(q) = Len(p) /\ \A x \in 1 .. Len(p) - 1 : q[x] = p[x]
          BY <2>3, <4>1, OnwardIs
        <4> QED BY <2>4, <4>2
      <3> QED BY <3>1, <3>2
    <2>6. ASSUME NEW k \in DOMAIN stack, stack[k].phase = "children"
          PROVE  Under(stack[k].path, q)
      <3>1. CASE k = Len(stack)
        <4>1. Top.phase = "children" /\ stack[k].path = p
          BY <2>6, <3>1 DEF Top
        <4>2. q = Append(p, Top.pos)
          BY <2>1, <4>1 DEF Step
        <4>3. Len(q) = Len(p) + 1 /\ \A x \in 1 .. Len(p) : q[x] = p[x]
          BY <2>3, <4>2, ChildPath
        <4>4. Len(p) < Len(q)
          BY <2>4, <4>3
        <4> QED BY <4>1, <4>3, <4>4 DEF Under
      <3>2. CASE k # Len(stack)
        <4>1. k < Len(stack) /\ Len(stack) \in DOMAIN stack
          BY <1>1, <1>3, <3>2
        <4>2. Under(stack[k].path, p)
          BY <2>6, <4>1 DEF Linked, Top
        <4> DEFINE u == stack[k].path
        <4>3. u \in Path
          BY <1>1, CallIs
        <4>4. Len(u) \in Nat
          BY <4>3, PathIs
        <4> HIDE DEF u, p, q
        <4>5. Len(u) < Len(p) /\ \A x \in 1 .. Len(u) : u[x] = p[x]
          BY <4>2 DEF Under, u, p
        <4>6. Len(u) < Len(q) /\ \A x \in 1 .. Len(u) : x \in 1 .. Len(p) - 1
          BY <2>4, <2>5, <4>4, <4>5
        <4>7. Under(u, q)
          BY <2>5, <4>5, <4>6 DEF Under
        <4> QED BY <4>7 DEF u
      <3> QED BY <3>1, <3>2
    <2> QED BY <2>2, <2>6
  <1> QED BY <1>2, <1>3

-----------------------------------------------------------------------------
(* A call begins: the node is offered to the macros.                       *)
Ready(callers) ==
    /\ callers \in Seq(Call) /\ Len(callers) = Len(stack)
    /\ Alike(callers, stack, Len(stack))
    /\ \A k \in 1 .. Len(stack) : Step(callers[k]) = Step(stack[k])

LEMMA FrameIs ==
    ASSUME Types, NEW path \in Path, NEW depth \in Nat, NEW i
    PROVE  Frame(path, depth, i) \in Call
  <1> DEFINE todo == Matching(forest[i].text)
  <1>1. todo \in SUBSET DOMAIN Candidates
    BY DEF Matching
  <1>2. kept \in SUBSET Nat
    <2>1. \A x \in 1 .. calls : x \in Nat
      OBVIOUS
    <2> QED BY <2>1 DEF Types
  <1>3. <<>> \in Keys
    BY DEF Keys
  <1> HIDE DEF todo
  <1>4. [path |-> path, depth |-> depth, todo |-> todo, kept |-> kept, phase |-> "macros",
         key |-> <<>>, left |-> 0, pos |-> 0, target |-> 0] \in Call
    BY <1>1, <1>2, <1>3 DEF Call
  <1> QED BY <1>4 DEF Frame, todo

LEMMA Entered ==
    ASSUME MacroInv, Running, stack # <<>> => Top.phase # "macros",
           NEW depth \in Nat, NEW callers, Ready(callers), Enter(NextPath, depth, callers)
    PROVE  MacroInv'
  <1> DEFINE path == NextPath  i == NodeAt(forest, path)  n == Len(stack)
             m == IF forest[i].mark = "new" THEN "walked" ELSE "again"
             F == Frame(path, depth, i)
  <1>1. Types /\ Keyed /\ Linked /\ Kept /\ Depths /\ Targets /\ Walk
    BY DEF MacroInv
  <1>2. CASE TooDeep(path, depth) \/ i = 0
    <2>1. Error
      BY <1>2 DEF Enter
    <2> QED BY <2>1, Failed
  <1>3. CASE ~(TooDeep(path, depth) \/ i = 0)
    <2>1. /\ stack' = Append(callers, F) /\ forest' = Marked(forest, i, m)
          /\ input' = input /\ numbering' = numbering /\ edited' = edited /\ root' = root
          /\ active' = active /\ calls' = calls /\ kept' = kept /\ disabled' = disabled
          /\ result' = result
      BY <1>3 DEF Enter, Marked
    <2>2. i # 0 /\ Len(path) <= MaxRawDepth
      <3>1. Len(path) \in Nat /\ MaxRawDepth \in Nat
        BY <1>1, NextPathIs, PathIs, MacroAssumption
      <3> QED BY <1>3, <3>1 DEF TooDeep
    <2>3. path \in Path /\ \A k \in DOMAIN stack :
                 stack[k].phase = "children" => Under(stack[k].path, path)
      BY <1>1, NextPathIs
    <2>4. /\ n \in Nat /\ DOMAIN stack = 1 .. n
          /\ \A k \in DOMAIN stack : stack[k] \in Call
          /\ stack # <<>> => n >= 1
      BY <1>1, StackIs
    <2>5. F \in Call /\ F.path = path /\ F.phase = "macros" /\ F.pos = 0 /\ F.kept = kept
      BY <1>1, <2>3, FrameIs DEF Frame
    <2>6. forest \in Forest /\ i \in DOMAIN forest /\ At(forest, i, path)
      BY <1>1, <2>2, NodeAtFound DEF Types
    <2>7. m \in Marks /\ (forest[i].mark = "new" => m = "walked")
      BY DEF Marks
    <2> HIDE DEF F, m, path, i, n
    <2>8. callers \in Seq(Call) /\ Len(callers) = n /\ Alike(callers, stack, n)
          /\ \A k \in 1 .. n : Step(callers[k]) = Step(stack[k])
      BY DEF Ready, n
    <2>9. /\ stack' \in Seq(Call) /\ Len(stack') = n + 1 /\ stack'[n + 1] = F
          /\ \A k \in 1 .. n : stack'[k] = callers[k]
      BY <2>1, <2>5, <2>8, AppendProperties
    <2>10. DOMAIN stack' = 1 .. n + 1 /\ stack' # <<>> /\ Top' = F
      <3>1. DOMAIN stack' = 1 .. n + 1
        BY <2>9, LenProperties
      <3>2. stack' # <<>>
        BY <2>1, <2>5, <2>8, AppendProperties
      <3> QED BY <2>9, <3>1, <3>2 DEF Top
    <2>11. \A k \in 1 .. n + 1 : k \in 1 .. n \/ k = n + 1
      BY <2>4
    <2>12. \A k \in 1 .. n : /\ stack'[k].path = stack[k].path /\ stack'[k].phase = stack[k].phase
                             /\ stack'[k].key = stack[k].key /\ stack'[k].kept = stack[k].kept
                             /\ stack'[k].target = stack[k].target
                             /\ Step(stack'[k]) = Step(stack[k])
      BY <2>8, <2>9 DEF Alike
    <2>13. /\ forest' \in Forest /\ Len(forest') = Len(forest) /\ DOMAIN forest' = DOMAIN forest
           /\ forest'[i].mark = m
           /\ \A k \in DOMAIN forest : k # i => forest'[k].mark = forest[k].mark
           /\ \A k \in DOMAIN forest : /\ forest'[k].level = forest[k].level
                                       /\ forest'[k].by = forest[k].by
                                       /\ forest'[k].how = forest[k].how
      BY <2>1, <2>6, <2>7, Marking
    <2>14. Agrees(forest, forest', Len(forest))
      BY <2>1, <2>6, <2>7, MarkingShape
    <2>15. /\ \A k \in DOMAIN forest : /\ \A p : At(forest', k, p) <=> At(forest, k, p)
                                       /\ \A o : Identity(forest', o, k) = Identity(forest, o, k)
           /\ \A p : NodeAt(forest', p) = NodeAt(forest, p)
      BY <2>6, <2>13, <2>14, SameShape
    <2>16. Here' = i
      <3>1. Here' = NodeAt(forest', path)
        BY <2>5, <2>10 DEF Here
      <3>2. NodeAt(forest', path) = NodeAt(forest, path)
        BY <2>15
      <3> QED BY <3>1, <3>2 DEF i
    <2>17. Types'
      <3>1. \A k \in DOMAIN stack' : stack'[k].kept \in SUBSET (1 .. calls')
        BY <1>1, <2>1, <2>4, <2>5, <2>9, <2>10, <2>11, <2>12 DEF Types
      <3>2. (InTree => input.order = "preorder")'
        BY <1>1, <2>1 DEF Types, InTree
      <3>3. ~Running' => stack' = <<>>
        BY <2>1 DEF Running
      <3> QED BY <1>1, <2>1, <2>9, <2>13, <3>1, <3>2, <3>3 DEF Types
    <2>18. Keyed'
      <3>1. \A k \in 1 .. n : Count(stack', k) = Count(stack, k)
        <4>1. ASSUME NEW k \in 1 .. n PROVE Count(stack', k) = Count(stack, k)
          <5>1. k \in Nat /\ \A x \in 1 .. k : x \in 1 .. n
            BY <2>4
          <5>2. \A x \in 1 .. k : stack'[x].phase = "generated" <=> stack[x].phase = "generated"
            BY <2>12, <5>1
          <5> QED BY <5>1, <5>2, CountSame
        <4> QED BY <4>1
      <3>2. Count(stack', n + 1) = Count(stack', n)
        <4>1. stack'[n + 1].phase # "generated"
          BY <2>5, <2>9
        <4> QED BY <2>4, <4>1, CountStep
      <3>3. Count(stack', n) = Count(stack, n)
        BY <2>4, <2>12, CountSame
      <3>4. Len(active) = Count(stack, n) /\ \A k \in 1 .. n :
                stack[k].phase = "generated" => active[Count(stack, k)] = stack[k].key
        BY <1>1, <2>4 DEF Keyed, n
      <3>5. Len(active') = Count(stack', Len(stack'))
        BY <2>1, <2>9, <3>2, <3>3, <3>4
      <3>6. ASSUME NEW k \in DOMAIN stack', stack'[k].phase = "generated"
            PROVE  active'[Count(stack', k)] = stack'[k].key
        <4>1. k \in 1 .. n
          BY <2>5, <2>9, <2>10, <2>11, <3>6
        <4> QED BY <2>1, <2>12, <3>1, <3>4, <3>6, <4>1
      <3> QED BY <3>5, <3>6 DEF Keyed
    <2>19. Linked'
      <3>1. stack'[1].path = <<root'>>
        <4>1. CASE stack = <<>>
          <5>1. n = 0 /\ path = <<root>>
            BY <4>1 DEF n, path, NextPath
          <5>2. n + 1 = 1
            BY <5>1
          <5>3. stack'[1] = F
            BY <2>9, <5>2
          <5> QED BY <2>1, <2>5, <5>1, <5>3
        <4>2. CASE stack # <<>>
          <5>1. 1 \in 1 .. n
            BY <2>4, <4>2
          <5> QED BY <1>1, <2>1, <2>12, <4>2, <5>1 DEF Linked
        <4> QED BY <4>1, <4>2
      <3>2. ASSUME NEW k \in 1 .. n
            PROVE  stack'[k].phase # "macros" /\ stack'[k + 1].path = Step(stack'[k])
        <4>1. CASE k = n
          <5>1. stack # <<>> /\ stack[n] = Top
            BY <2>4, <4>1 DEF n, Top
          <5>2. path = Step(stack[n]) /\ stack[n].phase # "macros"
            BY <5>1 DEF path, NextPath
          <5> QED BY <2>5, <2>9, <2>12, <4>1, <5>2
        <4>2. CASE k # n
          <5>1. k \in 1 .. n - 1 /\ k + 1 \in 1 .. n
            BY <2>4, <4>2
          <5>2. stack[k].phase # "macros" /\ stack[k + 1].path = Step(stack[k])
            BY <1>1, <5>1 DEF Linked, n
          <5> QED BY <2>12, <5>1, <5>2
        <4> QED BY <4>1, <4>2
      <3>3. ASSUME NEW k \in DOMAIN stack', NEW x \in DOMAIN stack', k < x,
                   stack'[k].phase = "children"
            PROVE  Under(stack'[k].path, stack'[x].path)
        <4>1. k \in 1 .. n /\ k \in DOMAIN stack /\ stack[k].phase = "children"
          BY <2>4, <2>10, <2>11, <2>12, <3>3
        <4>2. CASE x \in 1 .. n
          <5>1. Under(stack[k].path, stack[x].path)
            BY <1>1, <2>4, <3>3, <4>1, <4>2 DEF Linked
          <5> QED BY <2>12, <4>1, <4>2, <5>1
        <4>3. CASE x = n + 1
          BY <2>3, <2>5, <2>9, <2>12, <4>1, <4>3
        <4> QED BY <2>10, <2>11, <4>2, <4>3
      <3>4. Len(stack') - 1 = n
        BY <2>4, <2>9
      <3>5. Top'.pos = 0 /\ Here' # 0
        BY <2>2, <2>5, <2>10, <2>16
      <3> QED BY <3>1, <3>2, <3>3, <3>4, <3>5 DEF Linked
    <2>20. Kept'
      <3>1. Top'.kept = kept'
        BY <2>1, <2>5, <2>10
      <3>2. \A k \in DOMAIN forest : forest[k].how = "node" => forest[k].by \in kept
        BY <1>1 DEF Kept
      <3> QED BY <2>1, <2>13, <3>1, <3>2 DEF Kept
    <2>21. Depths'
      <3>1. ASSUME NEW k \in DOMAIN forest', forest'[k].mark # "new" \/ (InAst /\ edited)'
            PROVE  forest'[k].level <= MaxRawDepth
        <4>1. CASE k = i
          <5>1. forest[i].level = Len(path)
            BY <2>6, AtIs
          <5> QED BY <2>2, <2>13, <4>1, <5>1
        <4>2. CASE k # i
          <5>1. k \in DOMAIN forest /\ (forest[k].mark # "new" \/ (InAst /\ edited))
            BY <2>1, <2>13, <3>1, <4>2 DEF InAst
          <5>2. forest[k].level <= MaxRawDepth
            BY <1>1, <5>1 DEF Depths
          <5> QED BY <2>13, <5>1, <5>2
        <4> QED BY <4>1, <4>2
      <3>2. ASSUME NEW k \in DOMAIN stack' PROVE Len(stack'[k].path) <= MaxRawDepth
        <4>1. CASE k \in 1 .. n
          BY <1>1, <2>4, <2>12, <4>1 DEF Depths
        <4>2. CASE k = n + 1
          BY <2>2, <2>5, <2>9, <4>2
        <4> QED BY <2>10, <2>11, <4>1, <4>2
      <3> QED BY <3>1, <3>2 DEF Depths
    <2>22. Exact' <=> Exact
      BY <2>1 DEF Exact
    <2>23. Targets'
      <3>1. ASSUME Exact, NEW k \in DOMAIN stack', stack'[k].phase = "children"
            PROVE  \E x \in DOMAIN forest' : /\ At(forest', x, stack'[k].path)
                                             /\ stack'[k].target = Identity(forest', numbering', x)
        <4>1. k \in 1 .. n
          BY <2>5, <2>9, <2>10, <2>11, <3>1
        <4>2. PICK x \in DOMAIN forest : /\ At(forest, x, stack[k].path)
                                         /\ stack[k].target = Identity(forest, numbering, x)
          BY <1>1, <2>4, <2>12, <3>1, <4>1 DEF Targets
        <4> QED BY <2>1, <2>12, <2>13, <2>15, <4>1, <4>2
      <3> QED BY <2>22, <3>1 DEF Targets
    <2>24. Walk'
      <3>1. ASSUME Exact PROVE Swept(forest', Here' + 1)
        <4>1. PICK c \in 1 .. Len(forest) + 1 : Frontier(forest, c, path) /\ Swept(forest, c)
          BY <1>1, <3>1 DEF Walk, path
        <4>2. c = i
          BY <2>6, <4>1, ArriveIs
        <4>3. forest[i].mark = "new"
          <5>1. Len(forest) \in Nat /\ DOMAIN forest = 1 .. Len(forest)
            BY <2>6, LevelIs
          <5>2. c \in c .. Len(forest)
            BY <2>6, <4>2, <5>1
          <5> QED BY <4>1, <4>2, <5>2 DEF Swept
        <4>4. Swept(forest', i + 1)
          <5>1. forest' = Marked(forest, i, "walked") /\ Swept(forest, i)
            BY <2>1, <2>7, <4>1, <4>2, <4>3
          <5> QED BY <2>6, <5>1, SweptEnter
        <4> QED BY <2>16, <4>4
      <3>2. result' # "ok"
        BY <2>1 DEF Running
      <3> QED BY <2>5, <2>10, <2>22, <3>1, <3>2 DEF Walk
    <2> QED BY <2>17, <2>18, <2>19, <2>20, <2>21, <2>23, <2>24 DEF MacroInv
  <1> QED BY <1>2, <1>3

-----------------------------------------------------------------------------
(* The node on top.                                                        *)
LEMMA HereIs ==
    ASSUME MacroInv, Doing("macros")
    PROVE  /\ stack # <<>> /\ Running /\ Top.phase = "macros" /\ Top \in Call /\ Top.path \in Path
           /\ Top.pos = 0 /\ Top = stack[Len(stack)]
           /\ forest \in Forest /\ Here \in DOMAIN forest /\ At(forest, Here, Top.path)
           /\ forest[Here].level = Len(Top.path) /\ Len(Top.path) <= MaxRawDepth
           /\ Exact => Swept(forest, Here + 1)
           /\ \A x \in DOMAIN forest : forest[x].how = "node" => forest[x].by \in Top.kept
  <1>1. stack # <<>> /\ Running /\ Top.phase = "macros"
    BY DEF Doing
  <1>2. Types /\ Linked /\ Kept /\ Depths /\ Walk
    BY DEF MacroInv
  <1>3. Top \in Call /\ Top.path \in Path /\ Len(stack) \in DOMAIN stack
    BY <1>1, <1>2, StackIs, CallIs
  <1>4. Top.pos = 0 /\ Here # 0
    BY <1>1, <1>2 DEF Linked
  <1>5. forest \in Forest
    BY <1>2 DEF Types
  <1>6. Here \in DOMAIN forest /\ At(forest, Here, Top.path)
    BY <1>4, <1>5, NodeAtFound DEF Here
  <1>7. forest[Here].level = Len(Top.path)
    BY <1>6 DEF At
  <1>8. Len(Top.path) <= MaxRawDepth
    BY <1>2, <1>3 DEF Depths, Top
  <1>9. Exact => Swept(forest, Here + 1)
    BY <1>1, <1>2 DEF Walk
  <1>10. \A x \in DOMAIN forest : forest[x].how = "node" => forest[x].by \in Top.kept
    BY <1>1, <1>2 DEF Kept
  <1> QED BY <1>1, <1>3, <1>4, <1>5, <1>6, <1>7, <1>8, <1>9, <1>10 DEF Top

(* pipeline.active when a call returns.                                    *)
LEMMA KeyedBelow ==
    ASSUME Types, Keyed, stack # <<>>, stack' \in Seq(Call), Len(stack') = Len(stack) - 1,
           Alike(stack', stack, Len(stack) - 1),
           \/ Top.phase = "generated" /\ active' = Popped
           \/ Top.phase # "generated" /\ active' = active
    PROVE  active' \in Seq(Keys) /\ Keyed'
  <1> DEFINE d == Len(stack) - 1
  <1>1. /\ Len(stack) \in Nat /\ DOMAIN stack = 1 .. Len(stack) /\ Len(stack) >= 1
        /\ active \in Seq(Keys)
    BY StackIs DEF Types
  <1>2. d \in Nat /\ d + 1 = Len(stack) /\ \A k \in 1 .. d : k \in DOMAIN stack
    BY <1>1
  <1>3. DOMAIN stack' = 1 .. d /\ Len(stack') = d
    BY LenProperties
  <1>4. /\ Alike(stack', stack, d)
        /\ Top = stack[d + 1]
    BY <1>2 DEF Top
  <1>5. /\ Len(active) = Count(stack, d + 1)
        /\ \A k \in DOMAIN stack :
              stack[k].phase = "generated" => active[Count(stack, k)] = stack[k].key
    BY <1>2 DEF Keyed
  <1> HIDE DEF d
  <1>6. \A k \in 1 .. d : stack'[k].phase = stack[k].phase /\ stack'[k].key = stack[k].key
    BY <1>4 DEF Alike
  <1>7. ASSUME NEW k \in 0 .. d PROVE Count(stack', k) = Count(stack, k)
    <2>1. k \in Nat /\ \A x \in 1 .. k : x \in 1 .. d
      BY <1>2
    <2>2. \A x \in 1 .. k : stack'[x].phase = "generated" <=> stack[x].phase = "generated"
      BY <1>6, <2>1
    <2> QED BY <2>1, <2>2, CountSame
  <1>8. d \in 0 .. d /\ \A k \in 1 .. d : k \in 0 .. d
    BY <1>2
  <1>9. CASE Top.phase = "generated"
    <2>1. active' = Front(active)
      BY <1>9 DEF Popped
    <2>2. Count(stack, d + 1) = Count(stack, d) + 1
      BY <1>2, <1>4, <1>9, CountStep
    <2>3. Count(stack, d) \in Nat
      BY <1>2, CountIs
    <2> DEFINE c == Count(stack, d)
    <2>4. Len(active) = c + 1 /\ c \in Nat
      BY <1>5, <2>2, <2>3
    <2> HIDE DEF c
    <2>5. 1 \in Int /\ c \in Int /\ Len(active) - 1 = c
      BY <2>4
    <2>6. \A x \in 1 .. c : active[x] \in Keys
      <3>1. \A x \in 1 .. c : x \in 1 .. Len(active)
        BY <2>4
      <3> QED BY <1>1, <3>1, ElementOfSeq
    <2>7. active' = SubSeq(active, 1, c)
      BY <2>1, <2>5 DEF Front
    <2>8. /\ active' \in Seq(Keys) /\ Len(active') = IF 1 <= c THEN c - 1 + 1 ELSE 0
          /\ \A x \in 1 .. c - 1 + 1 : active'[x] = active[1 + x - 1]
      BY <2>5, <2>6, <2>7, SubSeqProperties
    <2>9. Len(active') = c
      BY <2>4, <2>8
    <2>10. \A x \in 1 .. c : x \in 1 .. c - 1 + 1 /\ 1 + x - 1 = x
      BY <2>4
    <2>11. \A x \in 1 .. c : active'[x] = active[x]
      BY <2>8, <2>10
    <2>12. Len(active') = Count(stack', Len(stack'))
      BY <1>3, <1>7, <1>8, <2>9 DEF c
    <2>13. ASSUME NEW k \in DOMAIN stack', stack'[k].phase = "generated"
           PROVE  active'[Count(stack', k)] = stack'[k].key
      <3>1. k \in 1 .. d /\ stack[k].phase = "generated" /\ stack'[k].key = stack[k].key
        BY <1>3, <1>6, <2>13
      <3>2. Count(stack, k) <= c /\ Count(stack, k) >= 1
        BY <1>2, <3>1, CountLeast DEF c
      <3>3. k \in Nat
        BY <3>1
      <3>4. Count(stack, k) \in Nat
        BY <3>3, CountIs
      <3>5. Count(stack, k) \in 1 .. c
        BY <2>4, <3>2, <3>4
      <3> QED BY <1>2, <1>5, <1>7, <1>8, <2>11, <3>1, <3>5
    <2> QED BY <2>8, <2>12, <2>13 DEF Keyed
  <1>10. CASE Top.phase # "generated"
    <2>1. active' = active
      BY <1>10
    <2>2. Count(stack, d + 1) = Count(stack, d)
      BY <1>2, <1>4, <1>10, CountStep
    <2>3. Len(active') = Count(stack', Len(stack'))
      BY <1>3, <1>5, <1>7, <1>8, <2>1, <2>2
    <2>4. \A k \in DOMAIN stack' :
              stack'[k].phase = "generated" => active'[Count(stack', k)] = stack'[k].key
      BY <1>2, <1>3, <1>5, <1>6, <1>7, <1>8, <2>1
    <2> QED BY <1>1, <2>1, <2>3, <2>4 DEF Keyed
  <1> QED BY <1>9, <1>10

(* A call returns; the forest is as it was, or a node in it was marked.    *)
LEMMA CallReturns ==
    ASSUME MacroInv, Running, stack # <<>>, NEW n \in Nat, Return(n),
           \/ Top.phase = "generated" /\ active' = Popped
           \/ Top.phase # "generated" /\ active' = active,
           input' = input /\ numbering' = numbering /\ edited' = edited /\ result' = result,
           calls' \in calls .. MaxCalls, disabled' \in SUBSET Range(Candidates),
           kept' \in SUBSET (1 .. calls),
           \A x \in DOMAIN forest : forest[x].how = "node" => forest[x].by \in kept',
           \/ forest' = forest
           \/ \E i \in DOMAIN forest :
                 /\ forest[i].level <= MaxRawDepth /\ forest' = Marked(forest, i, "failed"),
           Exact => \E c \in 1 .. Len(forest) + 1 :
                        Frontier(forest, c, Onward(Top.path, n)) /\ Swept(forest', c)
    PROVE  MacroInv'
  <1> DEFINE d == Len(stack) - 1
  <1>1. Types /\ Keyed /\ Linked /\ Kept /\ Depths /\ Targets /\ Walk
    BY DEF MacroInv
  <1>2. /\ stack' \in Seq(Call) /\ root' \in Nat /\ Len(stack') = d
        /\ Alike(stack', stack, d) /\ Linked' /\ NextPath' = Onward(Top.path, n)
        /\ stack' # <<>> => stack'[Len(stack')].phase # "macros"
    BY <1>1, Returned
  <1>3. active' \in Seq(Keys) /\ Keyed'
    BY <1>1, <1>2, KeyedBelow
  <1>4. DOMAIN stack = 1 .. Len(stack) /\ Len(stack) \in Nat /\ Len(stack) >= 1
    BY <1>1, StackIs
  <1>5. DOMAIN stack' = 1 .. d /\ \A k \in 1 .. d : k \in DOMAIN stack
    <2>1. DOMAIN stack' = 1 .. d
      BY <1>2, LenProperties
    <2> HIDE DEF d
    <2>2. \A k \in 1 .. d : k \in 1 .. Len(stack)
      BY <1>4 DEF d
    <2> QED BY <1>4, <2>1, <2>2
  <1>6. \A k \in DOMAIN stack' :
            /\ k \in DOMAIN stack
            /\ stack'[k].path = stack[k].path /\ stack'[k].phase = stack[k].phase
            /\ stack'[k].kept = stack[k].kept /\ stack'[k].target = stack[k].target
    BY <1>2, <1>5 DEF Alike
  <1>7. stack' # <<>> => Top'.phase # "macros"
    BY <1>2 DEF Top
  <1>8. forest \in Forest
    BY <1>1 DEF Types
  <1>9. /\ forest' \in Forest /\ Len(forest') = Len(forest) /\ DOMAIN forest' = DOMAIN forest
        /\ \A k \in DOMAIN forest : /\ forest'[k].level = forest[k].level
                                    /\ forest'[k].by = forest[k].by
                                    /\ forest'[k].how = forest[k].how
                                    /\ \/ forest'[k].mark = forest[k].mark
                                       \/ forest[k].level <= MaxRawDepth
        /\ Agrees(forest, forest', Len(forest))
    <2>1. CASE forest' = forest
      BY <1>8, <2>1 DEF Agrees
    <2>2. CASE forest' # forest
      <3>1. PICK i \in DOMAIN forest : /\ forest[i].level <= MaxRawDepth
                                       /\ forest' = Marked(forest, i, "failed")
        BY <2>2
      <3>2. "failed" \in Marks
        BY DEF Marks
      <3>3. /\ forest' \in Forest /\ Len(forest') = Len(forest) /\ DOMAIN forest' = DOMAIN forest
            /\ \A k \in DOMAIN forest : k # i => forest'[k].mark = forest[k].mark
            /\ \A k \in DOMAIN forest : /\ forest'[k].level = forest[k].level
                                        /\ forest'[k].by = forest[k].by
                                        /\ forest'[k].how = forest[k].how
        BY <1>8, <3>1, <3>2, Marking
      <3>4. Agrees(forest, forest', Len(forest))
        BY <1>8, <3>1, <3>2, MarkingShape
      <3> QED BY <3>1, <3>3, <3>4
    <2> QED BY <2>1, <2>2
  <1>10. /\ \A k \in DOMAIN forest : /\ \A p : At(forest', k, p) <=> At(forest, k, p)
                                     /\ \A o : Identity(forest', o, k) = Identity(forest, o, k)
         /\ \A c, p : Frontier(forest, c, p) => Frontier(forest', c, p)
    BY <1>8, <1>9, SameShape
  <1>11. calls \in 0 .. MaxCalls /\ MaxCalls \in Nat
    BY <1>1, MacroAssumption DEF Types
  <1>12. calls' \in 0 .. MaxCalls /\ \A x \in 1 .. calls : x \in 1 .. calls'
    BY <1>11
  <1>13. Types'
    <2>1. \A k \in DOMAIN stack' : stack'[k].kept \in SUBSET (1 .. calls')
      <3>1. \A k \in DOMAIN stack' : stack'[k].kept \in SUBSET (1 .. calls)
        BY <1>1, <1>6 DEF Types
      <3> QED BY <1>12, <3>1
    <2>2. kept' \in SUBSET (1 .. calls')
      BY <1>12
    <2>3. (InTree => input.order = "preorder")'
      BY <1>1 DEF Types, InTree
    <2>4. ~Running' => stack' = <<>>
      BY DEF Running
    <2> QED BY <1>1, <1>2, <1>3, <1>9, <1>12, <2>1, <2>2, <2>3, <2>4 DEF Types
  <1>14. Kept'
    BY <1>7, <1>9 DEF Kept
  <1>15. Depths'
    <2>1. ASSUME NEW k \in DOMAIN forest', forest'[k].mark # "new" \/ (InAst /\ edited)'
          PROVE  forest'[k].level <= MaxRawDepth
      <3>1. k \in DOMAIN forest /\ forest'[k].level = forest[k].level
            /\ (forest'[k].mark = forest[k].mark \/ forest[k].level <= MaxRawDepth)
        BY <1>9, <2>1
      <3>2. CASE forest'[k].mark = forest[k].mark
        <4>1. forest[k].mark # "new" \/ (InAst /\ edited)
          BY <2>1, <3>2 DEF InAst
        <4> QED BY <1>1, <3>1, <4>1 DEF Depths
      <3> QED BY <3>1, <3>2
    <2>2. \A k \in DOMAIN stack' : Len(stack'[k].path) <= MaxRawDepth
      BY <1>1, <1>6 DEF Depths
    <2> QED BY <2>1, <2>2 DEF Depths
  <1>16. Exact' <=> Exact
    BY DEF Exact
  <1>17. Targets'
    <2>1. ASSUME Exact, NEW k \in DOMAIN stack', stack'[k].phase = "children"
          PROVE  \E x \in DOMAIN forest' : /\ At(forest', x, stack'[k].path)
                                           /\ stack'[k].target = Identity(forest', numbering', x)
      <3>1. PICK x \in DOMAIN forest : /\ At(forest, x, stack[k].path)
                                       /\ stack[k].target = Identity(forest, numbering, x)
        BY <1>1, <1>6, <2>1 DEF Targets
      <3> QED BY <1>6, <1>9, <1>10, <3>1
    <2> QED BY <1>16, <2>1 DEF Targets
  <1>18. Walk'
    <2>1. ASSUME Exact
          PROVE  \E c \in 1 .. Len(forest') + 1 : Frontier(forest', c, NextPath') /\ Swept(forest', c)
      <3>1. PICK c \in 1 .. Len(forest) + 1 :
                        Frontier(forest, c, Onward(Top.path, n)) /\ Swept(forest', c)
        BY <2>1
      <3> QED BY <1>2, <1>9, <1>10, <3>1
    <2>2. result' # "ok"
      BY DEF Running
    <2> QED BY <1>7, <1>16, <2>1, <2>2 DEF Walk
  <1> QED BY <1>2, <1>3, <1>13, <1>14, <1>15, <1>17, <1>18 DEF MacroInv

LEMMA FailedNode ==
    ASSUME MacroInv, Offering, FailNode, calls' \in calls .. MaxCalls,
           disabled' \in SUBSET Range(Candidates)
    PROVE  MacroInv'
  <1>0. Doing("macros")
    BY DEF Offering
  <1>1. /\ stack # <<>> /\ Running /\ Top.phase = "macros" /\ Top \in Call /\ Top.path \in Path
        /\ Top = stack[Len(stack)]
        /\ forest \in Forest /\ Here \in DOMAIN forest /\ At(forest, Here, Top.path)
        /\ forest[Here].level = Len(Top.path) /\ Len(Top.path) <= MaxRawDepth
        /\ Exact => Swept(forest, Here + 1)
        /\ \A x \in DOMAIN forest : forest[x].how = "node" => forest[x].by \in Top.kept
    BY <1>0, HereIs
  <1>2. /\ kept' = Top.kept /\ forest' = Marked(forest, Here, "failed") /\ Return(1)
        /\ input' = input /\ numbering' = numbering /\ edited' = edited /\ active' = active
        /\ result' = result
    BY DEF FailNode, NodeState, Siblings, Marked
  <1>3. kept' \in SUBSET (1 .. calls)
    <2>1. Types
      BY DEF MacroInv
    <2>2. Len(stack) \in DOMAIN stack
      BY <1>1, <2>1, StackIs
    <2> QED BY <1>1, <1>2, <2>1, <2>2 DEF Types
  <1>4. ASSUME Exact
        PROVE  \E c \in 1 .. Len(forest) + 1 :
                  Frontier(forest, c, Onward(Top.path, 1)) /\ Swept(forest', c)
    <2>1. Frontier(forest, End(forest, Here) + 1, Onward(Top.path, 1))
      BY <1>1, Past
    <2>2. Swept(forest', End(forest, Here) + 1)
      BY <1>1, <1>2, <1>4, SweptFail
    <2>3. End(forest, Here) + 1 \in 1 .. Len(forest) + 1
      <3>1. End(forest, Here) \in Here .. Len(forest) /\ Here \in Nat /\ Here >= 1
        BY <1>1, EndIs, LevelIs
      <3> QED BY <3>1
    <2> QED BY <2>1, <2>2, <2>3
  <1>5. \E i \in DOMAIN forest :
            forest[i].level <= MaxRawDepth /\ forest' = Marked(forest, i, "failed")
    BY <1>1, <1>2
  <1>6. Top.phase # "generated" /\ active' = active /\ 1 \in Nat
    BY <1>1, <1>2
  <1>7. \A x \in DOMAIN forest : forest[x].how = "node" => forest[x].by \in kept'
    BY <1>1, <1>2
  <1> QED BY <1>1, <1>2, <1>3, <1>4, <1>5, <1>6, <1>7, CallReturns

-----------------------------------------------------------------------------
(* The identities of the nodes of a tree differ, in either order.          *)
LEMMA Rise ==
    ASSUME NEW f \in Forest, NEW i \in DOMAIN f, NEW j \in i .. Len(f)
    PROVE  f[j].level <= f[i].level + j - i
  <1> DEFINE S == {x \in i .. Len(f) : f[x].level > f[i].level + x - i}
  <1>1. i \in Nat /\ i >= 1 /\ Len(f) \in Nat /\ f[i].level \in Nat /\ DOMAIN f = 1 .. Len(f)
    BY LevelIs
  <1>2. SUFFICES ASSUME S # {} PROVE FALSE
    <2>1. S = {} => ~(f[j].level > f[i].level + j - i)
      OBVIOUS
    <2>2. j \in DOMAIN f /\ j \in Nat
      BY <1>1
    <2>3. f[j].level \in Nat
      BY <2>2, LevelIs
    <2> QED BY <1>1, <2>1, <2>2, <2>3
  <1>3. S \in SUBSET Nat
    BY <1>1
  <1>4. PICK x \in S : \A y \in S : x <= y
    BY <1>2, <1>3, LeastNat
  <1>5. x \in i .. Len(f) /\ f[x].level > f[i].level + x - i /\ x \in DOMAIN f /\ x \in Nat
    BY <1>1, <1>4
  <1>6. x # i
    BY <1>1, <1>5
  <1>7. x # 1 /\ x - 1 \in i .. Len(f) /\ x - 1 \in DOMAIN f /\ ~(x <= x - 1)
    BY <1>1, <1>5, <1>6
  <1>8. f[x].level \in Nat /\ f[x - 1].level \in Nat /\ f[x].level <= f[x - 1].level + 1
    BY <1>5, <1>7, LevelIs
  <1>9. x - 1 \notin S
    BY <1>4, <1>7
  <1>10. ~(f[x - 1].level > f[i].level + (x - 1) - i)
    BY <1>7, <1>9
  <1> QED BY <1>1, <1>5, <1>8, <1>10

LEMMA PostorderGrows ==
    ASSUME NEW f \in Forest, NEW i \in DOMAIN f, NEW j \in DOMAIN f, i < j
    PROVE  End(f, i) - (f[i].level - 1) # End(f, j) - (f[j].level - 1)
  <1> DEFINE e == End(f, i)  d == End(f, j)
  <1>1. /\ i \in Nat /\ j \in Nat /\ Len(f) \in Nat /\ f[i].level \in Nat /\ f[j].level \in Nat
        /\ j <= Len(f) /\ i >= 1
    BY LevelIs
  <1>0. DOMAIN f = 1 .. Len(f)
    BY LevelIs
  <1>2. /\ e \in i .. Len(f) /\ \A k \in i + 1 .. e : f[k].level > f[i].level
        /\ e = Len(f) \/ f[e + 1].level <= f[i].level
    BY EndIs
  <1>3. d \in j .. Len(f) /\ \A k \in j + 1 .. d : f[k].level > f[j].level
    BY EndIs
  <1> HIDE DEF e, d
  <1>6. e \in Nat /\ d \in Nat /\ e >= i /\ e <= Len(f) /\ d >= j /\ d <= Len(f)
    BY <1>1, <1>2, <1>3
  <1>7. SUFFICES e - (f[i].level - 1) # d - (f[j].level - 1)
    BY DEF e, d
  <1>4. CASE j <= e
    <2>1. f[j].level > f[i].level
      <3>1. j \in i + 1 .. e
        BY <1>1, <1>4, <1>6
      <3> QED BY <1>2, <3>1
    <2>2. CASE d <= e
      BY <1>1, <1>6, <2>1, <2>2
    <2>3. CASE ~(d <= e)
      <3>0. e + 1 \in j + 1 .. d /\ e # Len(f) /\ e + 1 \in 1 .. Len(f)
        BY <1>1, <1>6, <1>4, <2>3
      <3>1. e + 1 \in j + 1 .. d /\ e # Len(f) /\ e + 1 \in DOMAIN f
        BY <1>0, <3>0
      <3>2. f[e + 1].level > f[j].level /\ f[e + 1].level <= f[i].level
        BY <1>2, <1>3, <3>1
      <3>3. f[e + 1].level \in Nat
        BY <3>1, LevelIs
      <3> QED BY <1>1, <2>1, <3>2, <3>3
    <2> QED BY <2>2, <2>3
  <1>5. CASE ~(j <= e)
    <2>0. e + 1 \in 1 .. Len(f) /\ e # Len(f) /\ j \in e + 1 .. Len(f)
      BY <1>1, <1>6, <1>5
    <2>1. e + 1 \in DOMAIN f /\ e # Len(f) /\ j \in e + 1 .. Len(f)
      BY <1>0, <2>0
    <2> DEFINE s == e + 1
    <2>2. s \in DOMAIN f /\ j \in s .. Len(f) /\ f[s].level <= f[i].level
      BY <1>2, <2>1
    <2>3. s \in Nat /\ s = e + 1
      BY <1>6
    <2> HIDE DEF s
    <2>4. f[s].level \in Nat /\ f[j].level <= f[s].level + j - s
      BY <2>2, Rise, LevelIs
    <2>5. f[s].level <= f[i].level
      BY <2>2
    <2> DEFINE a == f[i].level  b == f[j].level  r == f[s].level
    <2>6. a \in Nat /\ b \in Nat /\ r \in Nat /\ b <= r + j - s /\ r <= a
      BY <1>1, <2>4, <2>5
    <2> HIDE DEF a, b, r
    <2>7. e - (a - 1) < d - (b - 1)
      BY <1>1, <1>6, <2>3, <2>6
    <2>8. e - (a - 1) # d - (b - 1)
      BY <1>1, <1>6, <2>3, <2>6, <2>7
    <2> QED BY <2>8 DEF a, b
  <1> QED BY <1>4, <1>5

LEMMA NamedIs ==
    ASSUME NEW f \in Forest, NEW i \in DOMAIN f, NEW order
    PROVE  Named(f, order, Identity(f, order, i)) = {i}
  <1>1. ASSUME NEW j \in DOMAIN f, j # i PROVE Identity(f, order, j) # Identity(f, order, i)
    <2>1. i < j \/ j < i
      <3>1. i \in Nat /\ j \in Nat
        BY LevelIs
      <3> QED BY <1>1, <3>1
    <2>2. End(f, i) - (f[i].level - 1) # End(f, j) - (f[j].level - 1)
      BY <2>1, PostorderGrows
    <2>3. CASE order = "preorder"
      BY <1>1, <2>3 DEF Identity
    <2>4. CASE order # "preorder"
      BY <2>2, <2>4 DEF Identity
    <2> QED BY <2>3, <2>4
  <1> QED BY <1>1 DEF Named

LEMMA ChildrenOfIs ==
    ASSUME Types, NEW i \in DOMAIN forest
    PROVE  ChildrenOf(Identity(forest, numbering, i)) = Kids(forest, i)
  <1>1. forest \in Forest
    BY DEF Types
  <1>2. Named(forest, numbering, Identity(forest, numbering, i)) = {i}
    BY <1>1, NamedIs
  <1>3. {Kids(forest, x) : x \in {i}} = {Kids(forest, i)}
    OBVIOUS
  <1> QED BY <1>2, <1>3 DEF ChildrenOf

LEMMA RootsOfIs == ASSUME NEW f \in Forest PROVE RootsOf(f) \in Nat
  <1>1. Len(f) \in Nat /\ DOMAIN f = 1 .. Len(f)
    BY DEF Forest
  <1>2. IsFiniteSet(DOMAIN f)
    <2>1. 1 \in Int /\ Len(f) \in Int
      BY <1>1
    <2> QED BY <1>1, <2>1, FS_Interval
  <1>3. Roots(f) \in SUBSET DOMAIN f
    BY DEF Roots
  <1>4. IsFiniteSet(Roots(f))
    BY <1>2, <1>3, FS_Subset
  <1> QED BY <1>4, FS_CardinalityType DEF RootsOf

LEMMA KidsIs == ASSUME NEW f \in Forest, NEW i \in DOMAIN f PROVE Cardinality(Kids(f, i)) \in Nat
  <1>1. i \in Int /\ i + 1 \in Int /\ End(f, i) \in Int
    <2>1. i \in Nat
      BY LevelIs
    <2>2. End(f, i) \in i .. Len(f)
      BY EndIs
    <2> QED BY <2>1, <2>2
  <1>2. IsFiniteSet(i + 1 .. End(f, i))
    BY <1>1, FS_Interval
  <1>3. Kids(f, i) \in SUBSET (i + 1 .. End(f, i))
    BY DEF Kids
  <1>4. IsFiniteSet(Kids(f, i))
    BY <1>2, <1>3, FS_Subset
  <1> QED BY <1>4, FS_CardinalityType

-----------------------------------------------------------------------------
(* The steps of the walk.                                                  *)
LEMMA WalkRootsKeeps == ASSUME MacroInv, WalkRoots PROVE MacroInv'
  <1>1. Types /\ Keyed /\ Linked /\ Kept /\ Depths /\ Targets /\ Walk
    BY DEF MacroInv
  <1>2. Running /\ stack = <<>> /\ NextPath = <<root>> /\ root \in Nat /\ forest \in Forest
    BY <1>1 DEF WalkRoots, NextPath, Types
  <1>3. CASE root < RootsOf(forest)
    <2>1. Enter(NextPath, 0, <<>>)
      BY <1>2, <1>3 DEF WalkRoots
    <2>2. Ready(<<>>)
      BY <1>2 DEF Ready, Alike
    <2>3. 0 \in Nat
      OBVIOUS
    <2> QED BY <1>2, <2>1, <2>2, <2>3, Entered
  <1>4. CASE ~(root < RootsOf(forest))
    <2>1. /\ input' = input /\ numbering' = numbering /\ edited' = edited /\ root' = root
          /\ disabled' = disabled /\ result' = "ok" /\ stack' = <<>> /\ active' = <<>>
          /\ forest' = forest /\ calls' = calls /\ kept' = kept
      BY <1>4 DEF WalkRoots, Stop
    <2>2. ~Running'
      BY <2>1 DEF Running
    <2>3. DOMAIN stack' = {} /\ Len(stack') = 0 /\ Len(active') = 0
      BY <2>1
    <2>4. Types'
      <3>1. stack' \in Seq(Call) /\ active' \in Seq(Keys)
        BY <2>1
      <3>2. (InTree => input.order = "preorder")'
        BY <1>1, <2>1 DEF Types, InTree
      <3> QED BY <1>1, <2>1, <2>3, <3>1, <3>2 DEF Types
    <2>5. Keyed'
      <3>1. {k \in 1 .. 0 : stack'[k].phase = "generated"} = {}
        OBVIOUS
      <3>2. Count(stack', 0) = 0
        BY <3>1, FS_EmptySet DEF Count
      <3> QED BY <2>3, <3>2 DEF Keyed
    <2>6. Linked'
      BY <2>1, <2>3 DEF Linked
    <2>7. Kept' /\ Targets'
      <3>1. \A x \in DOMAIN forest : forest[x].how = "node" => forest[x].by \in kept
        BY <1>1, <1>2 DEF Kept
      <3> QED BY <2>1, <2>3, <3>1 DEF Kept, Targets
    <2>8. Depths'
      <3>1. \A x \in DOMAIN forest :
                forest[x].mark # "new" \/ (InAst /\ edited) => forest[x].level <= MaxRawDepth
        BY <1>1, <1>2 DEF Depths
      <3> QED BY <2>1, <2>3, <3>1 DEF Depths, InAst
    <2>9. Walk'
      <3>1. ASSUME Exact PROVE Swept(forest, Len(forest) + 1)
        <4>1. PICK c \in 1 .. Len(forest) + 1 : Frontier(forest, c, <<root>>) /\ Swept(forest, c)
          BY <1>1, <1>2, <3>1 DEF Walk
        <4>2. RootsOf(forest) \in Nat /\ RootsOf(forest) <= root
          <5>1. RootsOf(forest) \in Nat
            BY <1>2, RootsOfIs
          <5> QED BY <1>2, <1>4, <5>1
        <4>3. c = Len(forest) + 1
          BY <1>2, <4>1, <4>2, RootsOver
        <4> QED BY <4>1, <4>3
      <3>2. Exact' <=> Exact
        BY <2>1 DEF Exact
      <3> QED BY <2>1, <2>2, <3>1, <3>2 DEF Walk
    <2> QED BY <2>4, <2>5, <2>6, <2>7, <2>8, <2>9 DEF MacroInv
  <1> QED BY <1>3, <1>4

LEMMA WalkGeneratedKeeps == ASSUME MacroInv, WalkGenerated PROVE MacroInv'
  <1>1. Types /\ Keyed /\ Linked /\ Kept /\ Depths /\ Targets /\ Walk
    BY DEF MacroInv
  <1>2. Running /\ stack # <<>> /\ Top.phase = "generated"
    BY DEF WalkGenerated, Doing
  <1>3. /\ stack \in Seq(Call) /\ Len(stack) \in Nat /\ DOMAIN stack = 1 .. Len(stack)
        /\ Len(stack) \in DOMAIN stack /\ Top \in Call /\ Top = stack[Len(stack)]
    BY <1>1, <1>2, StackIs DEF Top
  <1>4. /\ Top.path \in Path /\ Top.depth \in Nat /\ Top.left \in Nat /\ Top.pos \in Nat
    BY <1>3, CallIs
  <1>5. NextPath = GeneratedPath(Top) /\ NextPath = Onward(Top.path, Top.pos)
    BY <1>2, <1>3, GeneratedIs DEF NextPath, Step
  <1>6. CASE Top.left > 0
    <2> DEFINE left == Top.left - 1
               t == [Top EXCEPT !.left = left]
               callers == Set(t)
    <2>1. Enter(NextPath, Top.depth + 1, callers)
      BY <1>5, <1>6 DEF WalkGenerated
    <2>2. left \in Nat /\ Top.depth + 1 \in Nat
      BY <1>4, <1>6
    <2> HIDE DEF left
    <2>3. t \in Call
      BY <1>3, <2>2 DEF Call
    <2>4. t.path = Top.path /\ t.phase = Top.phase /\ t.key = Top.key /\ t.kept = Top.kept
          /\ t.target = Top.target /\ t.pos = Top.pos
      BY <1>3 DEF Call
    <2>5. Step(t) = Step(Top)
      BY <2>4 DEF Step, GeneratedPath
    <2> HIDE DEF t
    <2>6. /\ callers \in Seq(Call) /\ Len(callers) = Len(stack) /\ callers[Len(stack)] = t
          /\ \A k \in 1 .. Len(stack) : k # Len(stack) => callers[k] = stack[k]
      BY <1>3, <2>3, ExceptSeq DEF Set
    <2> HIDE DEF callers
    <2>7. Alike(callers, stack, Len(stack)) /\ \A k \in 1 .. Len(stack) : Step(callers[k]) = Step(stack[k])
      BY <1>3, <2>4, <2>5, <2>6 DEF Alike
    <2>8. Ready(callers)
      BY <2>6, <2>7 DEF Ready
    <2> QED BY <1>2, <2>1, <2>2, <2>8, Entered
  <1>7. CASE ~(Top.left > 0)
    <2>1. /\ active' = Popped /\ Return(Top.pos)
          /\ input' = input /\ numbering' = numbering /\ forest' = forest /\ edited' = edited
          /\ calls' = calls /\ kept' = kept /\ disabled' = disabled /\ result' = result
      BY <1>7 DEF WalkGenerated
    <2>2. ASSUME Exact
          PROVE  \E c \in 1 .. Len(forest) + 1 :
                    Frontier(forest, c, Onward(Top.path, Top.pos)) /\ Swept(forest', c)
      BY <1>1, <1>2, <1>5, <2>1, <2>2 DEF Walk
    <2>3. /\ calls' \in calls .. MaxCalls /\ disabled' \in SUBSET Range(Candidates)
          /\ kept' \in SUBSET (1 .. calls)
          /\ \A x \in DOMAIN forest : forest[x].how = "node" => forest[x].by \in kept'
      <3>1. calls \in calls .. MaxCalls
        BY <1>1, MacroAssumption DEF Types
      <3>2. \A x \in DOMAIN forest : forest[x].how = "node" => forest[x].by \in kept
        BY <1>1, <1>2 DEF Kept
      <3> QED BY <1>1, <2>1, <3>1, <3>2 DEF Types
    <2> QED BY <1>2, <1>4, <2>1, <2>2, <2>3, CallReturns
  <1> QED BY <1>6, <1>7

LEMMA WalkChildrenKeeps == ASSUME MacroInv, WalkChildren PROVE MacroInv'
  <1>1. Types /\ Keyed /\ Linked /\ Kept /\ Depths /\ Targets /\ Walk
    BY DEF MacroInv
  <1>2. Running /\ stack # <<>> /\ Top.phase = "children"
    BY DEF WalkChildren, Doing
  <1>3. /\ Len(stack) \in Nat /\ Len(stack) \in DOMAIN stack /\ Top \in Call
        /\ Top = stack[Len(stack)] /\ stack \in Seq(Call)
    BY <1>1, <1>2, StackIs DEF Top
  <1>4. /\ Top.path \in Path /\ Top.depth \in Nat /\ Top.pos \in Nat
    BY <1>3, CallIs
  <1>5. NextPath = Append(Top.path, Top.pos)
    BY <1>2 DEF NextPath, Step
  <1>6. CASE Top.pos < Cardinality(ChildrenOf(Top.target))
    <2>1. Enter(NextPath, Top.depth, stack)
      BY <1>5, <1>6 DEF WalkChildren
    <2>2. Ready(stack)
      BY <1>3 DEF Ready, Alike
    <2> QED BY <1>2, <1>4, <2>1, <2>2, Entered
  <1>7. CASE ~(Top.pos < Cardinality(ChildrenOf(Top.target)))
    <2>1. /\ active' = active /\ Return(1)
          /\ input' = input /\ numbering' = numbering /\ forest' = forest /\ edited' = edited
          /\ calls' = calls /\ kept' = kept /\ disabled' = disabled /\ result' = result
      BY <1>7 DEF WalkChildren
    <2>2. ASSUME Exact
          PROVE  \E c \in 1 .. Len(forest) + 1 :
                    Frontier(forest, c, Onward(Top.path, 1)) /\ Swept(forest', c)
      <3>1. PICK c \in 1 .. Len(forest) + 1 :
                    Frontier(forest, c, Append(Top.path, Top.pos)) /\ Swept(forest, c)
        BY <1>1, <1>2, <1>5, <2>2 DEF Walk
      <3>2. PICK i \in DOMAIN forest : /\ At(forest, i, Top.path)
                                       /\ Top.target = Identity(forest, numbering, i)
        BY <1>1, <1>2, <1>3, <2>2 DEF Targets
      <3>3. forest \in Forest
        BY <1>1 DEF Types
      <3>4. ChildrenOf(Top.target) = Kids(forest, i)
        BY <1>1, <3>2, ChildrenOfIs
      <3>5. Cardinality(Kids(forest, i)) <= Top.pos
        <4>1. Cardinality(Kids(forest, i)) \in Nat
          BY <3>3, KidsIs
        <4> QED BY <1>4, <1>7, <3>4, <4>1
      <3>6. c = End(forest, i) + 1
        BY <1>4, <3>1, <3>2, <3>3, <3>5, ChildrenOver
      <3>7. Frontier(forest, c, Onward(Top.path, 1))
        BY <1>4, <3>2, <3>3, <3>6, Past
      <3> QED BY <2>1, <3>1, <3>7
    <2>3. /\ calls' \in calls .. MaxCalls /\ disabled' \in SUBSET Range(Candidates)
          /\ kept' \in SUBSET (1 .. calls)
          /\ \A x \in DOMAIN forest : forest[x].how = "node" => forest[x].by \in kept'
      <3>1. calls \in calls .. MaxCalls
        BY <1>1, MacroAssumption DEF Types
      <3>2. \A x \in DOMAIN forest : forest[x].how = "node" => forest[x].by \in kept
        BY <1>1, <1>2 DEF Kept
      <3> QED BY <1>1, <2>1, <3>1, <3>2 DEF Types
    <2>4. Top.phase # "generated" /\ 1 \in Nat
      BY <1>2
    <2> QED BY <1>2, <2>1, <2>2, <2>3, <2>4, CallReturns
  <1> QED BY <1>6, <1>7

-----------------------------------------------------------------------------
(* The frame on top gives way to another one for the same node.            *)
Turned(t) ==
    /\ t \in Call /\ t.path = Top.path /\ t.kept = Top.kept /\ t.pos = 0
    /\ stack' = Set(t)
    /\ \/ t.phase = "generated" /\ active' = Append(active, t.key)
       \/ t.phase # "generated" /\ active' = active

LEMMA TurnedIs ==
    ASSUME Types, Doing("macros"), NEW t, Turned(t)
    PROVE  /\ stack' \in Seq(Call) /\ Len(stack') = Len(stack) /\ DOMAIN stack' = DOMAIN stack
           /\ stack' # <<>> /\ Top' = t /\ stack'[Len(stack)] = t
           /\ \A k \in DOMAIN stack : k # Len(stack) => stack'[k] = stack[k]
           /\ \A k \in DOMAIN stack : /\ stack'[k].path = stack[k].path
                                      /\ stack'[k].kept = stack[k].kept
           /\ NextPath' = Step(t)
  <1>1. /\ stack \in Seq(Call) /\ Len(stack) \in Nat /\ DOMAIN stack = 1 .. Len(stack)
        /\ Len(stack) \in DOMAIN stack /\ Len(stack) >= 1 /\ Top = stack[Len(stack)]
    BY StackIs DEF Doing, Top
  <1>2. t \in Call /\ t.path = Top.path /\ t.kept = Top.kept /\ stack' = Set(t)
    BY DEF Turned
  <1>3. /\ stack' \in Seq(Call) /\ Len(stack') = Len(stack) /\ stack'[Len(stack)] = t
        /\ \A k \in DOMAIN stack : k # Len(stack) => stack'[k] = stack[k]
    BY <1>1, <1>2, ExceptSeq DEF Set
  <1>4. DOMAIN stack' = DOMAIN stack
    BY <1>1, <1>3, LenProperties
  <1>5. Top' = t
    BY <1>3 DEF Top
  <1>6. stack' # <<>>
    BY <1>1, <1>3
  <1>7. NextPath' = Step(t)
    BY <1>5, <1>6 DEF NextPath
  <1> QED BY <1>1, <1>2, <1>3, <1>4, <1>5, <1>6, <1>7

LEMMA TurnedKeyed ==
    ASSUME Types, Keyed, Doing("macros"), NEW t, Turned(t)
    PROVE  active' \in Seq(Keys) /\ Keyed'
  <1> DEFINE d == Len(stack) - 1
  <1>1. /\ stack' \in Seq(Call) /\ Len(stack') = Len(stack) /\ DOMAIN stack' = DOMAIN stack
        /\ stack'[Len(stack)] = t
        /\ \A k \in DOMAIN stack : k # Len(stack) => stack'[k] = stack[k]
    BY TurnedIs
  <1>2. /\ Len(stack) \in Nat /\ DOMAIN stack = 1 .. Len(stack) /\ Len(stack) >= 1
        /\ stack[Len(stack)].phase = "macros" /\ active \in Seq(Keys)
    BY StackIs DEF Doing, Top, Types
  <1>3. /\ d \in Nat /\ d + 1 = Len(stack) /\ Len(stack') = d + 1
        /\ \A k \in 1 .. d : k \in 1 .. Len(stack) /\ k # Len(stack)
        /\ \A k \in 1 .. Len(stack) : k \in 1 .. d \/ k = d + 1
    <2>1. Len(stack) \in Nat /\ Len(stack) >= 1
      BY <1>2
    <2>2. d \in Nat /\ d + 1 = Len(stack)
      BY <2>1
    <2>3. /\ \A k \in 1 .. d : k \in 1 .. Len(stack) /\ k # Len(stack)
          /\ \A k \in 1 .. Len(stack) : k \in 1 .. d \/ k = d + 1
      BY <2>1
    <2> QED BY <1>1, <2>2, <2>3
  <1>4. t \in Call /\ t.key \in Keys
    BY CallIs DEF Turned
  <1>5. /\ Len(active) = Count(stack, d + 1)
        /\ \A k \in DOMAIN stack :
              stack[k].phase = "generated" => active[Count(stack, k)] = stack[k].key
    BY <1>3 DEF Keyed
  <1> HIDE DEF d
  <1>6. \A k \in 1 .. d : stack'[k] = stack[k] /\ k \in DOMAIN stack
    BY <1>1, <1>2, <1>3
  <1>7. stack'[d + 1] = t /\ stack[d + 1].phase = "macros"
    BY <1>1, <1>2, <1>3
  <1>8. ASSUME NEW k \in 0 .. d PROVE Count(stack', k) = Count(stack, k)
    <2>1. k \in Nat /\ \A x \in 1 .. k : x \in 1 .. d
      BY <1>3
    <2>2. \A x \in 1 .. k : stack'[x].phase = "generated" <=> stack[x].phase = "generated"
      BY <1>6, <2>1
    <2> QED BY <2>1, <2>2, CountSame
  <1>9. d \in 0 .. d /\ \A k \in 1 .. d : k \in 0 .. d
    BY <1>3
  <1>10. Count(stack, d + 1) = Count(stack, d) /\ Count(stack, d) \in Nat
    BY <1>3, <1>7, CountStep, CountIs
  <1>11. /\ \A k \in 1 .. d : Count(stack', k) = Count(stack, k)
         /\ Count(stack', d) = Count(stack, d)
    BY <1>8, <1>9
  <1>12. CASE t.phase = "generated"
    <2>1. active' = Append(active, t.key)
      BY <1>12 DEF Turned
    <2>2. Count(stack', d + 1) = Count(stack', d) + 1
      BY <1>3, <1>7, <1>12, CountStep
    <2> DEFINE c == Count(stack, d)
    <2>3. c \in Nat /\ Len(active) = c /\ Count(stack', d + 1) = c + 1
      BY <1>5, <1>10, <1>11, <2>2
    <2>4. ASSUME NEW k \in 1 .. d, stack[k].phase = "generated"
          PROVE  Count(stack, k) \in 1 .. c
      <3>1. Count(stack, k) <= c /\ Count(stack, k) >= 1
        BY <1>3, <2>4, CountLeast
      <3>2. k \in Nat
        BY <1>3
      <3>3. Count(stack, k) \in Nat
        BY <3>2, CountIs
      <3> QED BY <2>3, <3>1, <3>3
    <2> HIDE DEF c
    <2>5. /\ active' \in Seq(Keys) /\ Len(active') = c + 1 /\ active'[c + 1] = t.key
          /\ \A x \in 1 .. c : active'[x] = active[x]
      BY <1>2, <1>4, <2>1, <2>3, AppendProperties
    <2>6. ASSUME NEW k \in DOMAIN stack', stack'[k].phase = "generated"
          PROVE  active'[Count(stack', k)] = stack'[k].key
      <3>1. CASE k \in 1 .. d
        BY <1>5, <1>6, <1>11, <2>4, <2>5, <2>6, <3>1
      <3>2. CASE k = d + 1
        BY <1>7, <2>3, <2>5, <3>2
      <3> QED BY <1>1, <1>2, <1>3, <3>1, <3>2
    <2>7. Len(active') = Count(stack', Len(stack'))
      BY <1>3, <2>3, <2>5
    <2> QED BY <2>5, <2>6, <2>7 DEF Keyed
  <1>13. CASE t.phase # "generated"
    <2>1. active' = active
      BY <1>13 DEF Turned
    <2>2. Count(stack', d + 1) = Count(stack', d)
      BY <1>3, <1>7, <1>13, CountStep
    <2>3. Len(active') = Count(stack', Len(stack'))
      BY <1>3, <1>5, <1>10, <1>11, <2>1, <2>2
    <2>4. ASSUME NEW k \in DOMAIN stack', stack'[k].phase = "generated"
          PROVE  active'[Count(stack', k)] = stack'[k].key
      <3>1. k \in 1 .. d
        BY <1>1, <1>2, <1>3, <1>7, <1>13, <2>4
      <3> QED BY <1>5, <1>6, <1>11, <2>1, <2>4, <3>1
    <2> QED BY <1>2, <2>1, <2>3, <2>4 DEF Keyed
  <1> QED BY <1>12, <1>13

LEMMA TurnedLinked ==
    ASSUME Types, Linked, Doing("macros"), NEW t, Turned(t), root' = root,
           t.phase = "macros" => Here' # 0
    PROVE  Linked'
  <1> DEFINE n == Len(stack)
  <1>1. /\ Len(stack') = n /\ DOMAIN stack' = DOMAIN stack /\ Top' = t /\ stack'[n] = t
        /\ \A k \in DOMAIN stack : k # n => stack'[k] = stack[k]
        /\ \A k \in DOMAIN stack : stack'[k].path = stack[k].path
    BY TurnedIs
  <1>2. n \in Nat /\ DOMAIN stack = 1 .. n /\ n >= 1 /\ stack # <<>> /\ n \in DOMAIN stack
    BY StackIs DEF Doing
  <1> HIDE DEF n
  <1>3. stack'[1].path = <<root'>>
    <2>1. 1 \in DOMAIN stack
      BY <1>2
    <2> QED BY <1>1, <1>2, <2>1 DEF Linked
  <1>4. ASSUME NEW k \in 1 .. n - 1
        PROVE  stack'[k].phase # "macros" /\ stack'[k + 1].path = Step(stack'[k])
    <2>1. k \in 1 .. n /\ k + 1 \in 1 .. n /\ k # n
      BY <1>2
    <2>2. stack[k].phase # "macros" /\ stack[k + 1].path = Step(stack[k])
      BY DEF Linked, n
    <2> QED BY <1>1, <1>2, <2>1, <2>2
  <1>5. ASSUME NEW k \in DOMAIN stack', NEW m \in DOMAIN stack', k < m, stack'[k].phase = "children"
        PROVE  Under(stack'[k].path, stack'[m].path)
    <2>1. k # n /\ k \in DOMAIN stack /\ m \in DOMAIN stack
      BY <1>1, <1>2, <1>5
    <2>2. stack[k].phase = "children"
      BY <1>1, <1>5, <2>1
    <2> QED BY <1>1, <1>5, <2>1, <2>2 DEF Linked
  <1>6. t.pos = 0
    BY DEF Turned
  <1> QED BY <1>1, <1>3, <1>4, <1>5, <1>6 DEF Linked

LEMMA TurnedTypes ==
    ASSUME Types, Keyed, Doing("macros"), NEW t, Turned(t),
           input' = input /\ root' = root /\ result' = result /\ disabled' = disabled,
           calls' \in calls .. MaxCalls, kept' \in SUBSET (1 .. calls'), forest' \in Forest,
           edited' \in BOOLEAN, numbering' = IF edited' THEN "preorder" ELSE input.order
    PROVE  Types'
  <1>1. /\ stack' \in Seq(Call) /\ DOMAIN stack' = DOMAIN stack
        /\ \A k \in DOMAIN stack : stack'[k].kept = stack[k].kept
    BY TurnedIs
  <1>2. active' \in Seq(Keys)
    BY TurnedKeyed
  <1>3. calls \in 0 .. MaxCalls /\ MaxCalls \in Nat
    BY MacroAssumption DEF Types
  <1>4. calls' \in 0 .. MaxCalls /\ \A x \in 1 .. calls : x \in 1 .. calls'
    BY <1>3
  <1>5. \A k \in DOMAIN stack' : stack'[k].kept \in SUBSET (1 .. calls')
    <2>1. \A k \in DOMAIN stack' : stack'[k].kept \in SUBSET (1 .. calls)
      BY <1>1 DEF Types
    <2> QED BY <1>4, <2>1
  <1>6. (InTree => input.order = "preorder")'
    BY DEF Types, InTree
  <1>7. ~Running' => stack' = <<>>
    BY DEF Doing, Running
  <1> QED BY <1>1, <1>2, <1>4, <1>5, <1>6, <1>7 DEF Types

(* The walk goes on at the node on top, or to its children.                *)
LEMMA GoesOn ==
    ASSUME MacroInv, Doing("macros"), NEW t, Turned(t), t.phase \in {"macros", "children"},
           t.phase = "children" => t.target = Identity(forest, numbering, Here),
           input' = input /\ root' = root /\ result' = result /\ disabled' = disabled,
           numbering' = numbering /\ edited' = edited /\ forest' = forest,
           calls' \in calls .. MaxCalls, kept' \in SUBSET (1 .. calls'), kept \in SUBSET kept'
    PROVE  MacroInv'
  <1>1. Types /\ Keyed /\ Linked /\ Kept /\ Depths /\ Targets /\ Walk
    BY DEF MacroInv
  <1>2. /\ stack # <<>> /\ Running /\ Top.phase = "macros" /\ Top.path \in Path
        /\ forest \in Forest /\ Here \in DOMAIN forest /\ At(forest, Here, Top.path)
        /\ Exact => Swept(forest, Here + 1)
        /\ \A x \in DOMAIN forest : forest[x].how = "node" => forest[x].by \in Top.kept
    BY HereIs
  <1>3. /\ DOMAIN stack' = DOMAIN stack /\ Top' = t /\ stack'[Len(stack)] = t /\ stack' # <<>>
        /\ \A k \in DOMAIN stack : k # Len(stack) => stack'[k] = stack[k]
        /\ \A k \in DOMAIN stack : stack'[k].path = stack[k].path
        /\ NextPath' = Step(t)
    BY <1>1, TurnedIs
  <1>4. t.path = Top.path /\ t.kept = Top.kept /\ t.pos = 0
    BY DEF Turned
  <1>5. Here' = Here
    BY <1>3, <1>4 DEF Here
  <1>6. Types'
    <2>1. edited' \in BOOLEAN /\ numbering' = (IF edited' THEN "preorder" ELSE input.order)
      BY <1>1 DEF Types
    <2> QED BY <1>1, <1>2, <2>1, TurnedTypes
  <1>7. Keyed'
    BY <1>1, TurnedKeyed
  <1>8. Linked'
    <2>1. Here # 0
      BY <1>1, <1>2 DEF Linked
    <2> QED BY <1>1, <1>5, <2>1, TurnedLinked
  <1>9. Kept'
    <2>1. \A x \in DOMAIN forest : forest[x].how = "node" => forest[x].by \in kept
      BY <1>1, <1>2 DEF Kept
    <2> QED BY <1>2, <1>3, <1>4, <2>1 DEF Kept
  <1>10. Depths'
    <2>1. \A k \in DOMAIN stack' : Len(stack'[k].path) <= MaxRawDepth
      BY <1>1, <1>3 DEF Depths
    <2>2. \A x \in DOMAIN forest :
                forest[x].mark # "new" \/ (InAst /\ edited) => forest[x].level <= MaxRawDepth
      BY <1>1, <1>2 DEF Depths
    <2> QED BY <2>1, <2>2 DEF Depths, InAst
  <1>11. Exact' <=> Exact
    BY DEF Exact
  <1>12. Targets'
    <2>1. ASSUME Exact, NEW k \in DOMAIN stack', stack'[k].phase = "children"
          PROVE  \E x \in DOMAIN forest' : /\ At(forest', x, stack'[k].path)
                                           /\ stack'[k].target = Identity(forest', numbering', x)
      <3>1. CASE k = Len(stack)
        <4>1. /\ stack'[k].path = Top.path
              /\ stack'[k].target = Identity(forest, numbering, Here)
          BY <1>3, <1>4, <2>1, <3>1
        <4> QED BY <1>2, <4>1
      <3>2. CASE k # Len(stack)
        <4>1. k \in DOMAIN stack /\ stack'[k] = stack[k]
          BY <1>3, <3>2
        <4>2. \E x \in DOMAIN forest : /\ At(forest, x, stack[k].path)
                                       /\ stack[k].target = Identity(forest, numbering, x)
          BY <1>1, <2>1, <4>1 DEF Targets
        <4> QED BY <4>1, <4>2
      <3> QED BY <3>1, <3>2
    <2> QED BY <1>11, <2>1 DEF Targets
  <1>13. Walk'
    <2>1. result' # "ok"
      BY <1>2 DEF Running
    <2>2. CASE t.phase = "macros"
      BY <1>2, <1>3, <1>5, <1>11, <2>1, <2>2 DEF Walk
    <2>3. CASE t.phase = "children"
      <3>1. Step(t) = Append(Top.path, 0)
        BY <1>4, <2>3 DEF Step
      <3> DEFINE c == Here + 1
      <3>2. Frontier(forest, c, Step(t))
        BY <1>2, <3>1, Down
      <3>3. c \in 1 .. Len(forest) + 1
        BY <3>2 DEF Frontier, Fits
      <3>4. Exact => Swept(forest, c)
        BY <1>2
      <3> HIDE DEF c
      <3>5. Exact => \E x \in 1 .. Len(forest') + 1 : Frontier(forest', x, NextPath') /\ Swept(forest', x)
        BY <1>3, <3>2, <3>3, <3>4
      <3> QED BY <1>3, <1>11, <2>1, <2>3, <3>5 DEF Walk
    <2> QED BY <2>2, <2>3
  <1> QED BY <1>6, <1>7, <1>8, <1>9, <1>10, <1>12, <1>13 DEF MacroInv

(* What a call of a macro does to the counters.                            *)
LEMMA CallCounts ==
    ASSUME Types, Callable
    PROVE  /\ calls + 1 \in calls .. MaxCalls /\ calls \in 0 .. MaxCalls
           /\ kept \in SUBSET (1 .. calls + 1) /\ kept \cup {calls + 1} \in SUBSET (1 .. calls + 1)
  <1>1. calls \in 0 .. MaxCalls /\ MaxCalls \in Nat /\ calls < MaxCalls
    BY MacroAssumption DEF Types, Callable
  <1>2. calls + 1 \in calls .. MaxCalls /\ calls + 1 \in 1 .. calls + 1
    BY <1>1
  <1>3. \A x \in 1 .. calls : x \in 1 .. calls + 1
    BY <1>1
  <1>4. kept \in SUBSET (1 .. calls)
    BY DEF Types
  <1> QED BY <1>1, <1>2, <1>3, <1>4

LEMMA ContinueIs ==
    ASSUME MacroInv, Doing("macros"), NEW handled, Continue(handled), active' = active
    PROVE  \E t : Turned(t) /\ t.phase = "macros"
  <1> DEFINE todo == IF handled THEN {} ELSE Top.todo \ {Macro}
             t == [Top EXCEPT !.todo = todo]
  <1>1. Top \in Call /\ Top.pos = 0 /\ Top.phase = "macros"
    BY HereIs
  <1>2. todo \in SUBSET DOMAIN Candidates
    BY <1>1, CallIs
  <1>3. stack' = Set(t)
    BY DEF Continue
  <1> HIDE DEF todo
  <1>4. t \in Call
    BY <1>1, <1>2 DEF Call
  <1>5. t.path = Top.path /\ t.kept = Top.kept /\ t.pos = 0 /\ t.phase = "macros"
    BY <1>1 DEF Call
  <1> HIDE DEF t
  <1>6. Turned(t)
    BY <1>3, <1>4, <1>5 DEF Turned
  <1> QED BY <1>5, <1>6

LEMMA NotApplicableKeeps == ASSUME MacroInv, NotApplicable PROVE MacroInv'
  <1>1. Types /\ Callable /\ Doing("macros")
    BY DEF MacroInv, NotApplicable, Invoked, Callable, Usable, Offering
  <1>2. /\ calls' = calls + 1 /\ kept' = kept /\ Continue(FALSE)
        /\ input' = input /\ root' = root /\ result' = result /\ disabled' = disabled
        /\ numbering' = numbering /\ edited' = edited /\ forest' = forest /\ active' = active
    BY DEF NotApplicable
  <1>3. PICK t : Turned(t) /\ t.phase = "macros"
    BY <1>1, <1>2, ContinueIs
  <1>4. calls' \in calls .. MaxCalls /\ kept' \in SUBSET (1 .. calls')
    BY <1>1, <1>2, CallCounts
  <1> QED BY <1>1, <1>2, <1>3, <1>4, GoesOn

LEMMA AcceptKeeps == ASSUME MacroInv, NEW handled, Accept(handled) PROVE MacroInv'
  <1>1. Types /\ Callable /\ Doing("macros")
    BY DEF MacroInv, Accept, Invoked, Callable, Usable, Offering
  <1>2. /\ calls' = calls + 1 /\ kept' = kept \cup {calls + 1} /\ Continue(handled)
        /\ input' = input /\ root' = root /\ result' = result /\ disabled' = disabled
        /\ numbering' = numbering /\ edited' = edited /\ forest' = forest /\ active' = active
    BY DEF Accept, Adopted
  <1>3. PICK t : Turned(t) /\ t.phase = "macros"
    BY <1>1, <1>2, ContinueIs
  <1>4. calls' \in calls .. MaxCalls /\ kept' \in SUBSET (1 .. calls')
    BY <1>1, <1>2, CallCounts
  <1>5. kept \in SUBSET kept'
    BY <1>2
  <1> QED BY <1>1, <1>2, <1>3, <1>4, <1>5, GoesOn

LEMMA BeginChildrenKeeps == ASSUME MacroInv, BeginChildren PROVE MacroInv'
  <1> DEFINE id == Identity(forest, numbering, Here)
             t == [Top EXCEPT !.phase = "children", !.target = id]
  <1>1. Types /\ Doing("macros")
    BY DEF MacroInv, BeginChildren
  <1>2. /\ stack' = Set(t)
        /\ input' = input /\ root' = root /\ result' = result /\ disabled' = disabled
        /\ numbering' = numbering /\ edited' = edited /\ forest' = forest /\ active' = active
        /\ calls' = calls /\ kept' = kept
    BY DEF BeginChildren
  <1>3. Top \in Call /\ Top.pos = 0 /\ forest \in Forest /\ Here \in DOMAIN forest
    BY <1>1, HereIs
  <1>4. id \in Int
    <2>1. Here \in Nat /\ End(forest, Here) \in Here .. Len(forest) /\ forest[Here].level \in Nat
      BY <1>3, LevelIs, EndIs
    <2> QED BY <2>1 DEF Identity
  <1> HIDE DEF id
  <1>5. t \in Call
    BY <1>3, <1>4 DEF Call
  <1>6. t.path = Top.path /\ t.kept = Top.kept /\ t.pos = 0 /\ t.phase = "children" /\ t.target = id
    BY <1>3 DEF Call
  <1> HIDE DEF t
  <1>7. Turned(t)
    BY <1>2, <1>5, <1>6 DEF Turned
  <1>8. calls' \in calls .. MaxCalls /\ kept' \in SUBSET (1 .. calls')
    BY <1>1, <1>2, MacroAssumption DEF Types
  <1>9. t.target = Identity(forest, numbering, Here)
    BY <1>6 DEF id
  <1> QED BY <1>1, <1>2, <1>6, <1>7, <1>8, <1>9, GoesOn

-----------------------------------------------------------------------------
(* The steps that fail the node, end the stage, or do nothing.             *)
LEMMA MacroIs ==
    ASSUME Types, Offering
    PROVE  Macro \in DOMAIN Candidates /\ Macro \in Nat /\ Candidates[Macro] \in Range(Candidates)
  <1>1. stack # <<>> /\ Top.todo # {}
    BY DEF Offering, Doing
  <1>2. Top.todo \in SUBSET DOMAIN Candidates
    BY <1>1, StackIs, CallIs
  <1>3. DOMAIN Candidates \in SUBSET Nat
    BY MacroAssumption
  <1>4. Top.todo \in SUBSET Nat
    BY <1>2, <1>3
  <1>5. Macro \in Top.todo
    BY <1>1, <1>4, MinIs DEF Macro
  <1> QED BY <1>2, <1>4, <1>5 DEF Range

LEMMA UnavailableKeeps == ASSUME MacroInv, Unavailable PROVE MacroInv'
  <1>1. Offering /\ FailNode /\ calls' = calls /\ disabled' = disabled
    BY DEF Unavailable
  <1>2. calls' \in calls .. MaxCalls /\ disabled' \in SUBSET Range(Candidates)
    BY <1>1, MacroAssumption DEF MacroInv, Types
  <1> QED BY <1>1, <1>2, FailedNode

LEMMA CycleKeeps == ASSUME MacroInv, Cycle PROVE MacroInv'
  <1>1. Offering /\ Callable /\ FailNode /\ calls' = calls + 1 /\ disabled' = disabled
    BY DEF Cycle, Callable, Usable
  <1>2. calls' \in calls .. MaxCalls /\ disabled' \in SUBSET Range(Candidates)
    BY <1>1, CallCounts DEF MacroInv, Types
  <1> QED BY <1>1, <1>2, FailedNode

LEMMA FailKeeps == ASSUME MacroInv, Fail PROVE MacroInv'
  <1>1. /\ Offering /\ Callable /\ FailNode /\ calls' = calls + 1
        /\ disabled' \in {disabled, disabled \cup {Candidates[Macro]}}
    BY DEF Fail, Invoked, Callable, Usable
  <1>2. Types
    BY DEF MacroInv
  <1>3. calls' \in calls .. MaxCalls
    BY <1>1, <1>2, CallCounts
  <1>4. disabled' \in SUBSET Range(Candidates)
    <2>1. disabled \in SUBSET Range(Candidates)
      BY <1>2 DEF Types
    <2>2. Candidates[Macro] \in Range(Candidates)
      BY <1>1, <1>2, MacroIs
    <2> QED BY <1>1, <2>1, <2>2
  <1> QED BY <1>1, <1>3, <1>4, FailedNode

LEMMA OutOfCallsKeeps == ASSUME MacroInv, OutOfCalls PROVE MacroInv'
  BY Failed DEF OutOfCalls

LEMMA RejectKeeps == ASSUME MacroInv, Reject PROVE MacroInv'
  <1>1. Stop("reject") /\ forest' = input.forest /\ kept' = {} /\ calls' = calls + 1 /\ Callable
    BY DEF Reject, Invoked
  <1>2. Types
    BY DEF MacroInv
  <1>3. calls + 1 \in calls .. MaxCalls /\ calls \in 0 .. MaxCalls
    BY <1>1, <1>2, CallCounts
  <1>4. calls' \in 0 .. MaxCalls
    BY <1>1, <1>3, MacroAssumption
  <1>5. forest' \in Forest
    BY <1>1, <1>2 DEF Types
  <1> QED BY <1>1, <1>4, <1>5, Stopped

LEMMA StutterKeeps == ASSUME MacroInv, UNCHANGED vars PROVE MacroInv'
  <1>1. /\ input' = input /\ numbering' = numbering /\ forest' = forest /\ edited' = edited
        /\ root' = root /\ stack' = stack /\ active' = active /\ calls' = calls /\ kept' = kept
        /\ disabled' = disabled /\ result' = result
    BY DEF vars
  <1>2. Types' /\ Keyed' /\ Linked' /\ Kept'
    BY <1>1 DEF MacroInv, Types, Keyed, Linked, Kept, InTree, Running, Top, Here, Step, GeneratedPath
  <1>3. Depths' /\ Targets' /\ Walk'
    BY <1>1 DEF MacroInv, Depths, Targets, Walk, InAst, Exact, Running, Top, Here, NextPath, Step,
                GeneratedPath
  <1> QED BY <1>2, <1>3 DEF MacroInv

-----------------------------------------------------------------------------
(* The edits.  A node above another one comes before it.                   *)
LEMMA Ahead ==
    ASSUME NEW f \in Forest, NEW i \in DOMAIN f, NEW j \in DOMAIN f, NEW p \in Path, NEW q \in Path,
           At(f, i, p), At(f, j, q), Under(p, q)
    PROVE  i \in 1 .. j - 1
  <1> DEFINE m == Len(p)  l == Len(q)
  <1>1. m \in Nat /\ m >= 1 /\ l \in Nat /\ m < l /\ \A x \in 1 .. m : p[x] = q[x]
    BY PathIs DEF Under
  <1>2. Fits(f, j, l) /\ Place(f, j, l, q) /\ f[j].level = l
    <2>1. f[j].level = l /\ Place(f, j, l, q)
      BY AtIs
    <2> QED BY <2>1, LevelIs
  <1>3. j \in 1 .. Len(f) + 1
    BY <1>2 DEF Fits
  <1> HIDE DEF m, l
  <1>4. m \in 1 .. l - 1
    BY <1>1
  <1>5. PICK a \in Ancestors(f, j, l) : f[a].level = m
    BY <1>2, <1>4, AncestorOn
  <1>6. a \in DOMAIN f /\ a \in Nat /\ j \in Nat /\ a < j
    BY <1>3, AncestorIs
  <1>7. Place(f, a, m, q)
    BY <1>1, <1>2, <1>3, <1>5, PlaceUp
  <1>8. a \in 1 .. Len(f) + 1
    <2>1. Len(f) \in Nat /\ a \in Nat /\ a >= 1 /\ a <= Len(f)
      BY <1>6, LevelIs
    <2> QED BY <2>1
  <1>9. Place(f, a, m, p)
    <2>1. m \in Nat \ {0} /\ \A x \in 1 .. m : q[x] = p[x]
      BY <1>1
    <2> QED BY <1>7, <1>8, <2>1, PlaceOfPath
  <1>10. At(f, a, p)
    BY <1>5, <1>6, <1>9, AtIs DEF m
  <1>11. a = i
    BY <1>6, <1>10, NodeAtIs
  <1>12. a >= 1
    BY <1>6, LevelIs
  <1> QED BY <1>6, <1>11, <1>12

(* An edit from the position i on leaves the identities of the nodes that  *)
(* are being walked.                                                       *)
LEMMA EditTargets ==
    ASSUME MacroInv, Doing("macros"), NEW t, Turned(t), t.phase # "children",
           NEW i \in {Here, Here + 1}, NEW e, NEW m, NEW P, Regrown(forest, forest', i, e, m, P),
           input' = input, edited' = TRUE, numbering' = "preorder"
    PROVE  Targets'
  <1>1. Types /\ Linked /\ Targets
    BY DEF MacroInv
  <1>2. /\ Top.path \in Path /\ forest \in Forest /\ Here \in DOMAIN forest
        /\ At(forest, Here, Top.path)
    BY HereIs
  <1>3. /\ DOMAIN stack' = DOMAIN stack /\ stack'[Len(stack)] = t
        /\ \A k \in DOMAIN stack : k # Len(stack) => stack'[k] = stack[k]
    BY <1>1, TurnedIs
  <1>4. Here \in Nat /\ Here >= 1 /\ Here <= Len(forest) /\ Len(forest) \in Nat
    BY <1>2, LevelIs
  <1>5. i \in 1 .. Len(forest) + 1 /\ \A n \in 1 .. Here - 1 : n \in 1 .. i - 1
    BY <1>4
  <1>6. \A n \in 1 .. i - 1 : \A p : At(forest', n, p) <=> At(forest, n, p)
    BY <1>2, <1>5, RegrownBefore
  <1>7. \A n \in 1 .. i - 1 : n \in DOMAIN forest'
    BY DEF Regrown
  <1>8. /\ stack # <<>> /\ DOMAIN stack = 1 .. Len(stack) /\ Len(stack) \in DOMAIN stack
        /\ Len(stack) \in Nat /\ \A k \in DOMAIN stack : stack[k] \in Call
    BY <1>1, StackIs DEF Doing
  <1>9. ASSUME Exact', NEW k \in DOMAIN stack', stack'[k].phase = "children"
        PROVE  \E x \in DOMAIN forest' : /\ At(forest', x, stack'[k].path)
                                         /\ stack'[k].target = Identity(forest', numbering', x)
    <2>1. k # Len(stack) /\ k \in DOMAIN stack /\ stack'[k] = stack[k]
      BY <1>3, <1>9
    <2>2. k < Len(stack)
      BY <1>8, <2>1
    <2>3. input.order = "preorder" /\ Exact /\ numbering = "preorder"
      BY <1>1, <1>9 DEF Exact, Types
    <2>4. PICK x \in DOMAIN forest : /\ At(forest, x, stack[k].path)
                                     /\ stack[k].target = Identity(forest, numbering, x)
      BY <1>1, <1>9, <2>1, <2>3 DEF Targets
    <2>5. Under(stack[k].path, Top.path)
      BY <1>1, <1>8, <1>9, <2>1, <2>2 DEF Linked, Top
    <2>6. stack[k].path \in Path
      BY <1>8, <2>1, CallIs
    <2>7. x \in 1 .. Here - 1
      BY <1>2, <2>4, <2>5, <2>6, Ahead
    <2>8. stack[k].target = x /\ Identity(forest', numbering', x) = x
      BY <2>3, <2>4 DEF Identity
    <2> QED BY <1>5, <1>6, <1>7, <2>1, <2>4, <2>7, <2>8
  <1> QED BY <1>9 DEF Targets

LEMMA EditDepths ==
    ASSUME MacroInv, Doing("macros"), NEW t, Turned(t), input' = input,
           NEW i \in {Here, Here + 1}, NEW m, NEW P, \A n \in P : n.mark = "new",
           Regrown(forest, forest', i, End(forest, Here), m, P),
           InAst => Deepest(forest') <= MaxRawDepth
    PROVE  Depths'
  <1>1. Types /\ Depths
    BY DEF MacroInv
  <1>2. forest \in Forest /\ Here \in DOMAIN forest /\ Running
    BY HereIs
  <1>3. Here \in Nat /\ Here >= 1 /\ Here <= Len(forest) /\ DOMAIN forest = 1 .. Len(forest)
    BY <1>2, LevelIs
  <1>4. End(forest, Here) \in Here .. Len(forest)
    BY <1>2, EndIs
  <1>5. \A x \in DOMAIN forest : forest[x].mark # "new" => forest[x].level <= MaxRawDepth
    BY <1>1, <1>2 DEF Depths
  <1>6. /\ forest' \in Forest
        /\ \A n \in 1 .. i - 1 : n \in DOMAIN forest /\ forest'[n] = forest[n]
        /\ \A n \in i .. Len(forest') :
              forest'[n] \in P \/ \E x \in End(forest, Here) + 1 .. Len(forest) : forest'[n] = forest[x]
    BY DEF Regrown
  <1>7. ASSUME NEW n \in DOMAIN forest', forest'[n].mark # "new"
        PROVE  forest'[n].level <= MaxRawDepth
    <2>1. n \in Nat /\ n >= 1 /\ n <= Len(forest') /\ Len(forest') \in Nat
      BY <1>6, LevelIs
    <2>2. i \in Nat
      BY <1>3
    <2>3. n \in 1 .. i - 1 \/ n \in i .. Len(forest')
      BY <2>1, <2>2
    <2>4. CASE n \in 1 .. i - 1
      BY <1>5, <1>6, <1>7, <2>4
    <2>5. CASE n \in i .. Len(forest')
      <3>1. PICK x \in End(forest, Here) + 1 .. Len(forest) : forest'[n] = forest[x]
        BY <1>6, <1>7, <2>5
      <3>2. x \in 1 .. Len(forest)
        BY <1>3, <1>4
      <3> QED BY <1>3, <1>5, <1>7, <3>1, <3>2
    <2> QED BY <2>3, <2>4, <2>5
  <1>8. ASSUME InAst, NEW n \in DOMAIN forest' PROVE forest'[n].level <= MaxRawDepth
    <2>1. Deepest(forest') \in Nat /\ forest'[n].level <= Deepest(forest')
      BY <1>6, DeepestIs
    <2>2. forest'[n].level \in Nat
      BY <1>6, LevelIs
    <2>3. Deepest(forest') <= MaxRawDepth /\ MaxRawDepth \in Nat
      BY <1>8, MacroAssumption
    <2> QED BY <2>1, <2>2, <2>3
  <1>9. \A k \in DOMAIN stack' : Len(stack'[k].path) <= MaxRawDepth
    <2>1. DOMAIN stack' = DOMAIN stack /\ \A k \in DOMAIN stack : stack'[k].path = stack[k].path
      BY <1>1, TurnedIs
    <2> QED BY <1>1, <2>1 DEF Depths
  <1>10. InAst' <=> InAst
    BY DEF InAst
  <1> QED BY <1>7, <1>8, <1>9, <1>10 DEF Depths

(* A quota stops the edit, or the node gives way to what was generated.    *)
LEMMA FragmentIs == ASSUME NEW frag \in Fragments PROVE frag \in Trees /\ RootsOf(frag) \in Nat
  <1>1. frag \in Trees
    BY MacroAssumption
  <1>2. Len(frag) \in Nat /\ DOMAIN frag = 1 .. Len(frag)
    BY <1>1, TreeIs
  <1>3. IsFiniteSet(DOMAIN frag)
    <2>1. 1 \in Int /\ Len(frag) \in Int
      BY <1>2
    <2> QED BY <1>2, <2>1, FS_Interval
  <1>4. Roots(frag) \in SUBSET DOMAIN frag
    BY DEF Roots
  <1>5. IsFiniteSet(Roots(frag))
    BY <1>3, <1>4, FS_Subset
  <1> QED BY <1>1, <1>5, FS_CardinalityType DEF RootsOf

LEMMA ReplaceNodeAdopts ==
    ASSUME MacroInv, NEW frag \in Fragments, NEW retained \in Retentions(frag), Invoked,
           InAst => retained.where = "none",
           Adopted, Replaced(ReplacedNode(Here, frag, retained)),
           InAst => ~(Deepest(ReplacedNode(Here, frag, retained)) > MaxRawDepth),
           active' = Append(active, Key),
           stack' = Set([Top EXCEPT !.phase = "generated", !.key = Key, !.left = RootsOf(frag)])
    PROVE  MacroInv'
  <1> DEFINE new == ReplacedNode(Here, frag, retained)  left == RootsOf(frag)
             t == [Top EXCEPT !.phase = "generated", !.key = Key, !.left = left]
             e == End(forest, Here)
  <1>1. Types /\ Keyed /\ Linked /\ Kept /\ Depths /\ Targets /\ Walk
    BY DEF MacroInv
  <1>2. Offering /\ Callable /\ Doing("macros")
    BY DEF Invoked, Callable, Usable, Offering
  <1>3. /\ Running /\ Top \in Call /\ Top.path \in Path /\ Top.pos = 0
        /\ forest \in Forest /\ Here \in DOMAIN forest /\ At(forest, Here, Top.path)
        /\ Exact => Swept(forest, Here + 1)
        /\ \A x \in DOMAIN forest : forest[x].how = "node" => forest[x].by \in Top.kept
    BY <1>2, HereIs
  <1>4. /\ calls' = calls + 1 /\ kept' = kept \cup {calls + 1}
        /\ forest' = new /\ edited' = TRUE /\ numbering' = "preorder"
        /\ input' = input /\ root' = root /\ disabled' = disabled /\ result' = result
    BY DEF Adopted, Replaced
  <1>5. frag \in Trees /\ left \in Nat
    BY FragmentIs
  <1>6. Key \in Keys
    BY <1>1, <1>2, <1>3, MacroIs, KeyIs DEF Key
  <1>7. stack' = Set(t)
    OBVIOUS
  <1> HIDE DEF left
  <1>8. t \in Call
    BY <1>3, <1>5, <1>6 DEF Call
  <1>9. t.path = Top.path /\ t.kept = Top.kept /\ t.pos = 0 /\ t.phase = "generated" /\ t.key = Key
    BY <1>3 DEF Call
  <1> HIDE DEF t, new
  <1>10. Turned(t)
    BY <1>7, <1>8, <1>9 DEF Turned
  <1>11. /\ Here \in Nat /\ Here >= 1 /\ Here <= Len(forest) /\ DOMAIN forest = 1 .. Len(forest)
         /\ Len(forest) \in Nat /\ e \in Here .. Len(forest)
    BY <1>3, LevelIs, EndIs
  <1> HIDE DEF e
  <1>12. Exact =>
            /\ \A x \in 1 .. Here - 1 : Settled(forest, x)
            /\ \A x \in Here + 1 .. Len(forest) : forest[x].mark = "new"
    <2>1. \A x \in 1 .. Here - 1 : x \in 1 .. Here + 1 - 1
      BY <1>11
    <2> QED BY <1>3, <2>1 DEF Swept
  <1>13. retained.where # "none" => \A x \in Here + 1 .. e : forest[x].mark = "new"
    <2>1. ASSUME retained.where # "none" PROVE Exact
      <3>1. InTree
        BY <1>1, <2>1 DEF Types, InTree, InAst
      <3> QED BY <1>1, <3>1 DEF Types, Exact
    <2>2. \A x \in Here + 1 .. e : x \in Here + 1 .. Len(forest)
      BY <1>11
    <2> QED BY <1>12, <2>1, <2>2
  <1>14. Regrown(forest, forest', Here, e, forest[Here].level, Grown)
    BY <1>1, <1>3, <1>4, <1>5, <1>13, ReplacedNodeIs DEF new, e
  <1>15. forest' \in Forest
    BY <1>14 DEF Regrown
  <1>16. Types'
    <2>1. calls' \in calls .. MaxCalls /\ kept' \in SUBSET (1 .. calls')
      BY <1>1, <1>2, <1>4, CallCounts
    <2>2. edited' \in BOOLEAN /\ numbering' = (IF edited' THEN "preorder" ELSE input.order)
      BY <1>4
    <2> QED BY <1>1, <1>2, <1>4, <1>10, <1>15, <2>1, <2>2, TurnedTypes
  <1>17. Keyed'
    BY <1>1, <1>2, <1>10, TurnedKeyed
  <1>18. Linked'
    <2>1. t.phase # "macros"
      BY <1>9
    <2> QED BY <1>1, <1>2, <1>4, <1>10, <2>1, TurnedLinked
  <1>19. Top' = t /\ stack' # <<>> /\ NextPath' = Step(t)
    BY <1>1, <1>2, <1>10, TurnedIs
  <1>20. \A n \in Grown : n.mark = "new"
    BY DEF Grown
  <1>21. Here \in {Here, Here + 1}
    OBVIOUS
  <1>22. Targets'
    <2>1. t.phase # "children"
      BY <1>9
    <2> QED BY <1>2, <1>4, <1>10, <1>14, <1>21, <2>1, EditTargets
  <1>23. Depths'
    <2>1. ASSUME InAst PROVE Deepest(forest') <= MaxRawDepth
      <3>1. ~(Deepest(forest') > MaxRawDepth)
        BY <1>4, <2>1 DEF new
      <3>2. Deepest(forest') \in Nat /\ MaxRawDepth \in Nat
        BY <1>15, DeepestIs, MacroAssumption
      <3> QED BY <3>1, <3>2
    <2> QED BY <1>2, <1>4, <1>10, <1>14, <1>20, <1>21, <2>1, EditDepths DEF e
  <1>24. Kept'
    <2>1. \A x \in DOMAIN forest : forest[x].how = "node" => forest[x].by \in kept
      BY <1>1, <1>3 DEF Kept
    <2>2. ASSUME NEW n \in DOMAIN forest', forest'[n].how = "node" PROVE forest'[n].by \in kept'
      <3>1. n \in 1 .. Here - 1 \/ n \in Here .. Len(forest')
        <4>1. n \in Nat /\ n >= 1 /\ n <= Len(forest') /\ Len(forest') \in Nat
          BY <1>15, LevelIs
        <4> QED BY <1>11, <4>1
      <3>2. CASE n \in 1 .. Here - 1
        BY <1>4, <1>14, <2>1, <2>2, <3>2 DEF Regrown
      <3>3. CASE n \in Here .. Len(forest')
        <4>1. forest'[n] \in Grown \/ \E x \in e + 1 .. Len(forest) : forest'[n] = forest[x]
          BY <1>14, <3>3 DEF Regrown
        <4>2. CASE forest'[n] \in Grown
          BY <1>4, <2>1, <2>2, <4>2 DEF Grown
        <4>3. CASE \E x \in e + 1 .. Len(forest) : forest'[n] = forest[x]
          <5>1. \A x \in e + 1 .. Len(forest) : x \in 1 .. Len(forest)
            BY <1>11
          <5> QED BY <1>4, <1>11, <2>1, <2>2, <4>3, <5>1
        <4> QED BY <4>1, <4>2, <4>3
      <3> QED BY <3>1, <3>2, <3>3
    <2> QED BY <1>9, <1>19, <2>2 DEF Kept
  <1>25. Walk'
    <2>1. Step(t) = Top.path
      <3>1. Step(t) = GeneratedPath(t)
        BY <1>9 DEF Step
      <3>2. GeneratedPath(t) = Onward(Top.path, 0)
        BY <1>8, <1>9, GeneratedIs
      <3> QED BY <1>3, <3>1, <3>2, OnwardZero
    <2>2. Frontier(forest', Here, Top.path)
      BY <1>3, <1>14, RegrownFrontier
    <2>3. ASSUME Exact PROVE Swept(forest', Here)
      <3>1. \A x \in e + 1 .. Len(forest) : forest[x].mark = "new"
        <4>1. \A x \in e + 1 .. Len(forest) : x \in Here + 1 .. Len(forest)
          BY <1>11
        <4> QED BY <1>12, <2>3, <4>1
      <3>2. \A x \in 1 .. Here - 1 : Settled(forest, x)
        BY <1>12, <2>3
      <3>3. Here \in 1 .. Len(forest) + 1
        BY <1>11
      <3> QED BY <1>3, <1>14, <1>20, <3>1, <3>2, <3>3, RegrownSwept
    <2>4. Exact' => Exact
      BY <1>4 DEF Exact
    <2>5. Here \in 1 .. Len(forest') + 1
      BY <2>2 DEF Frontier, Fits
    <2>6. Top'.phase # "macros" /\ result' # "ok" /\ NextPath' = Top.path
      BY <1>3, <1>4, <1>9, <1>19, <2>1 DEF Running
    <2>7. Exact' => \E c \in 1 .. Len(forest') + 1 : Frontier(forest', c, NextPath') /\ Swept(forest', c)
      BY <2>2, <2>3, <2>4, <2>5, <2>6
    <2> QED BY <2>6, <2>7 DEF Walk
  <1> QED BY <1>16, <1>17, <1>18, <1>22, <1>23, <1>24, <1>25 DEF MacroInv

LEMMA ReplaceNodeKeeps ==
    ASSUME MacroInv, NEW frag \in Fragments, NEW retained \in Retentions(frag),
           ReplaceNode(frag, retained)
    PROVE  MacroInv'
  <1> DEFINE new == ReplacedNode(Here, frag, retained)
             A == InTree /\ Len(Top.path) - 1 + Deepest(frag) > MaxRawDepth
             B == InTree /\ Len(new) > MaxNodes
             C == InAst /\ (Len(new) > MaxNodes \/ Deepest(new) > MaxRawDepth)
             Fails == FailNode /\ calls' = calls + 1 /\ UNCHANGED disabled
             Adopts == /\ Adopted /\ Replaced(new)
                       /\ active' = Append(active, Key)
                       /\ stack' = Set([Top EXCEPT !.phase = "generated", !.key = Key,
                                                   !.left = RootsOf(frag)])
  <1>1. /\ Invoked /\ (InAst => retained.where = "none")
        /\ CASE A -> Error [] B -> Error [] C -> Fails [] OTHER -> Adopts
    BY DEF ReplaceNode
  <1>2. A \/ B => ~C
    BY DEF InTree, InAst
  <1> HIDE DEF A, B, C, Fails, Adopts
  <1>3. \/ Error
        \/ Fails
        \/ ~C /\ Adopts
    BY <1>1, <1>2
  <1>4. CASE Error
    BY <1>4, Failed
  <1>5. CASE Fails
    <2>1. Types /\ Offering /\ Callable
      BY <1>1 DEF MacroInv, Invoked, Callable, Usable
    <2>2. FailNode /\ calls' = calls + 1 /\ disabled' = disabled
      BY <1>5 DEF Fails
    <2>3. calls' \in calls .. MaxCalls /\ disabled' \in SUBSET Range(Candidates)
      BY <2>1, <2>2, CallCounts DEF Types
    <2> QED BY <2>1, <2>2, <2>3, FailedNode
  <1>6. CASE ~C /\ Adopts
    <2>1. InAst => ~(Deepest(ReplacedNode(Here, frag, retained)) > MaxRawDepth)
      BY <1>6 DEF C
    <2>2. /\ Adopted /\ Replaced(ReplacedNode(Here, frag, retained))
          /\ active' = Append(active, Key)
          /\ stack' = Set([Top EXCEPT !.phase = "generated", !.key = Key, !.left = RootsOf(frag)])
      BY <1>6 DEF Adopts
    <2> QED BY <1>1, <2>1, <2>2, ReplaceNodeAdopts
  <1> QED BY <1>3, <1>4, <1>5, <1>6

LEMMA ReplaceChildrenAdopts ==
    ASSUME MacroInv, NEW frag \in Fragments, NEW handled, Invoked, InTree,
           Adopted, Replaced(ReplacedChildren(Here, frag)), Continue(handled), active' = active
    PROVE  MacroInv'
  <1> DEFINE new == ReplacedChildren(Here, frag)  e == End(forest, Here)  i == Here + 1
  <1>1. Types /\ Keyed /\ Linked /\ Kept /\ Depths /\ Targets /\ Walk
    BY DEF MacroInv
  <1>2. Offering /\ Callable /\ Doing("macros")
    BY DEF Invoked, Callable, Usable, Offering
  <1>3. /\ Running /\ Top.path \in Path
        /\ forest \in Forest /\ Here \in DOMAIN forest /\ At(forest, Here, Top.path)
        /\ Exact => Swept(forest, Here + 1)
        /\ \A x \in DOMAIN forest : forest[x].how = "node" => forest[x].by \in Top.kept
    BY <1>2, HereIs
  <1>4. /\ calls' = calls + 1 /\ kept' = kept \cup {calls + 1}
        /\ forest' = new /\ edited' = TRUE /\ numbering' = "preorder"
        /\ input' = input /\ root' = root /\ disabled' = disabled /\ result' = result
    BY DEF Adopted, Replaced
  <1> HIDE DEF new
  <1>5. PICK t : Turned(t) /\ t.phase = "macros"
    BY <1>2, ContinueIs
  <1>6. t.path = Top.path /\ t.kept = Top.kept
    BY <1>5 DEF Turned
  <1>7. /\ Here \in Nat /\ Here >= 1 /\ Here <= Len(forest) /\ DOMAIN forest = 1 .. Len(forest)
        /\ Len(forest) \in Nat /\ e \in Here .. Len(forest)
    BY <1>3, LevelIs, EndIs
  <1>8. i \in 1 .. Len(forest) + 1 /\ Here \in 1 .. i - 1 /\ i \in {Here, Here + 1}
        /\ i - 1 = Here
    BY <1>7
  <1>9. Regrown(forest, forest', i, e, forest[Here].level + 1, Bred)
    BY <1>1, <1>3, <1>4, FragmentIs, ReplacedChildrenIs DEF new
  <1>10. Exact =>
            /\ \A x \in 1 .. i - 1 : Settled(forest, x)
            /\ \A x \in i .. Len(forest) : forest[x].mark = "new"
    BY <1>3 DEF Swept
  <1>11. \A x \in e + 1 .. Len(forest) : x \in i .. Len(forest) /\ x \in 1 .. Len(forest)
    BY <1>7
  <1> HIDE DEF i, e
  <1>12. forest' \in Forest /\ \A n \in 1 .. i - 1 : n \in DOMAIN forest'
    BY <1>9 DEF Regrown
  <1>13. Here \in DOMAIN forest' /\ At(forest', Here, Top.path)
    <2>1. Here \in DOMAIN forest'
      BY <1>8, <1>12
    <2>2. \A p : At(forest', Here, p) <=> At(forest, Here, p)
      BY <1>3, <1>8, <1>9, RegrownBefore
    <2> QED BY <1>3, <2>1, <2>2
  <1>14. Top' = t /\ stack' # <<>>
    BY <1>1, <1>2, <1>5, TurnedIs
  <1>15. Here' = Here
    <2>1. NodeAt(forest', Top.path) = Here
      BY <1>12, <1>13, NodeAtIs
    <2>2. Here' = NodeAt(forest', Top'.path)
      BY DEF Here
    <2> QED BY <1>6, <1>14, <2>1, <2>2
  <1>16. Types'
    <2>1. calls' \in calls .. MaxCalls /\ kept' \in SUBSET (1 .. calls')
      BY <1>1, <1>2, <1>4, CallCounts
    <2>2. edited' \in BOOLEAN /\ numbering' = (IF edited' THEN "preorder" ELSE input.order)
      BY <1>4
    <2> QED BY <1>1, <1>2, <1>4, <1>5, <1>12, <2>1, <2>2, TurnedTypes
  <1>17. Keyed'
    BY <1>1, <1>2, <1>5, TurnedKeyed
  <1>18. Linked'
    <2>1. Here' # 0
      BY <1>7, <1>15
    <2> QED BY <1>1, <1>2, <1>4, <1>5, <2>1, TurnedLinked
  <1>19. \A n \in Bred : n.mark = "new" /\ n.how = "children"
    BY DEF Bred
  <1>20. Targets'
    <2>1. t.phase # "children"
      BY <1>5
    <2> QED BY <1>2, <1>4, <1>5, <1>8, <1>9, <2>1, EditTargets
  <1>21. Depths'
    <2>1. ~InAst
      BY DEF InTree, InAst
    <2> QED BY <1>2, <1>4, <1>5, <1>8, <1>9, <1>19, <2>1, EditDepths DEF e
  <1>22. Kept'
    <2>1. \A x \in DOMAIN forest : forest[x].how = "node" => forest[x].by \in kept
      BY <1>1, <1>3 DEF Kept
    <2>2. ASSUME NEW n \in DOMAIN forest', forest'[n].how = "node"
          PROVE  \E x \in DOMAIN forest : forest'[n] = forest[x]
      <3>1. n \in 1 .. i - 1 \/ n \in i .. Len(forest')
        <4>1. n \in Nat /\ n >= 1 /\ n <= Len(forest') /\ Len(forest') \in Nat
          BY <1>12, LevelIs
        <4>2. i \in Nat
          BY <1>7, <1>8
        <4> QED BY <4>1, <4>2
      <3>2. CASE n \in 1 .. i - 1
        BY <1>9, <3>2 DEF Regrown
      <3>3. CASE n \in i .. Len(forest')
        <4>1. forest'[n] \in Bred \/ \E x \in e + 1 .. Len(forest) : forest'[n] = forest[x]
          BY <1>9, <3>3 DEF Regrown
        <4> QED BY <1>7, <1>11, <1>19, <2>2, <4>1
      <3> QED BY <3>1, <3>2, <3>3
    <2>3. \A n \in DOMAIN forest' : forest'[n].how = "node" =>
              forest'[n].by \in kept' /\ forest'[n].by \in Top'.kept
      BY <1>3, <1>4, <1>6, <1>14, <2>1, <2>2
    <2> QED BY <2>3 DEF Kept
  <1>23. Walk'
    <2>1. ASSUME Exact PROVE Swept(forest', i)
      <3>1. \A x \in e + 1 .. Len(forest) : forest[x].mark = "new"
        BY <1>10, <1>11, <2>1
      <3>2. \A x \in 1 .. i - 1 : Settled(forest, x)
        BY <1>10, <2>1
      <3> QED BY <1>3, <1>8, <1>9, <1>19, <3>1, <3>2, RegrownSwept
    <2>2. Exact' => Exact
      BY <1>4 DEF Exact
    <2>3. stack' # <<>> /\ Top'.phase = "macros" /\ result' # "ok"
      BY <1>3, <1>4, <1>5, <1>14 DEF Running
    <2>4. Exact' => Swept(forest', Here' + 1)
      BY <1>15, <2>1, <2>2 DEF i
    <2> QED BY <2>3, <2>4 DEF Walk
  <1> QED BY <1>16, <1>17, <1>18, <1>20, <1>21, <1>22, <1>23 DEF MacroInv

LEMMA ReplaceChildrenKeeps ==
    ASSUME MacroInv, NEW frag \in Fragments, NEW handled, ReplaceChildren(frag, handled)
    PROVE  MacroInv'
  <1>1. \/ Error
        \/ /\ Adopted /\ Replaced(ReplacedChildren(Here, frag))
           /\ Continue(handled) /\ active' = active
    BY DEF ReplaceChildren
  <1>2. Invoked /\ InTree
    BY DEF ReplaceChildren
  <1> QED BY <1>1, <1>2, Failed, ReplaceChildrenAdopts

-----------------------------------------------------------------------------
(* The tree the stage starts from.                                         *)
LEMMA PlantedIs ==
    ASSUME NEW f \in Trees
    PROVE  /\ Planted(f) \in Forest
           /\ \A i \in DOMAIN Planted(f) : Planted(f)[i].how = "parsed" /\ Planted(f)[i].mark = "new"
  <1> DEFINE g == Planted(f)
  <1>1. /\ Len(f) \in Nat /\ DOMAIN f = 1 .. Len(f)
        /\ \A k \in DOMAIN f : /\ f[k].section \in BOOLEAN /\ f[k].text \in Texts
                               /\ f[k].level \in Nat
                               /\ f[k].level \in 1 .. (IF k = 1 THEN 1 ELSE f[k - 1].level + 1)
    BY TreeIs
  <1>2. ASSUME NEW k \in DOMAIN f PROVE {<<k, End(f, k)>>} \in Spans
    <2>1. End(f, k) \in k .. Len(f)
      BY <1>1, EndOf
    <2>2. k \in Nat
      BY <1>1
    <2>3. End(f, k) \in Nat
      BY <1>1, <2>1, <2>2
    <2> QED BY <2>2, <2>3 DEF Spans
  <1>3. DOMAIN g = DOMAIN f /\ \A k \in DOMAIN f :
            g[k] = [level |-> f[k].level, section |-> f[k].section, text |-> f[k].text,
                    at |-> {<<k, End(f, k)>>}, by |-> 0, how |-> "parsed", mark |-> "new"]
    BY DEF Planted
  <1>4. \A k \in DOMAIN f : g[k] \in TreeNode
    <2>1. ASSUME NEW k \in DOMAIN f PROVE g[k] \in TreeNode
      <3>1. f[k].level \in Nat /\ f[k].section \in BOOLEAN /\ f[k].text \in Texts
        BY <1>1
      <3>2. 0 \in Nat /\ "new" \in Marks
        BY DEF Marks
      <3> QED BY <1>2, <1>3, <3>1, <3>2 DEF TreeNode
    <2> QED BY <2>1
  <1>5. g = [k \in 1 .. Len(f) |-> g[k]]
    BY <1>1 DEF Planted
  <1>6. g \in Seq(TreeNode)
    <2>1. \A k \in 1 .. Len(f) : g[k] \in TreeNode
      BY <1>1, <1>4
    <2> HIDE DEF g
    <2>2. g \in [1 .. Len(f) -> TreeNode]
      BY <1>5, <2>1
    <2>3. Len(f) \in Nat
      BY <1>1
    <2> QED BY <2>2, <2>3, SeqDef
  <1>7. \A k \in DOMAIN g : g[k].level = f[k].level
    BY <1>3
  <1>8. Hangs(g, 1)
    <2>1. ASSUME NEW k \in DOMAIN g
          PROVE  g[k].level \in 1 .. (IF k = 1 THEN 1 ELSE g[k - 1].level + 1)
      <3>1. CASE k = 1
        BY <1>1, <1>3, <1>7, <3>1
      <3>2. CASE k # 1
        <4>1. k \in 1 .. Len(f) /\ Len(f) \in Nat
          BY <1>1, <1>3
        <4>2. k - 1 \in 1 .. Len(f)
          BY <3>2, <4>1
        <4> QED BY <1>1, <1>3, <1>7, <3>2, <4>2
      <3> QED BY <3>1, <3>2
    <2> HIDE DEF g
    <2> QED BY <2>1 DEF Hangs
  <1>9. \A k \in DOMAIN g : g[k].how = "parsed" /\ g[k].mark = "new"
    BY <1>3
  <1> HIDE DEF g
  <1>10. g \in Forest
    BY <1>6, <1>8 DEF Forest
  <1> QED BY <1>9, <1>10 DEF g

LEMMA MacroInit == Init => MacroInv
  <1> SUFFICES ASSUME Init PROVE MacroInv
    OBVIOUS
  <1>1. PICK f \in Forests, s \in {"tree", "ast"}, order \in {"preorder", "postorder"} :
            /\ s = "tree" => order = "preorder"
            /\ input = [stage |-> s, order |-> order, forest |-> Planted(f)]
    BY DEF Init
  <1>2. /\ numbering = input.order /\ forest = input.forest
        /\ edited = FALSE /\ root = 0 /\ stack = <<>> /\ active = <<>>
        /\ calls = 0 /\ kept = {} /\ disabled = {} /\ result = "running"
    BY DEF Init
  <1>3. input.stage = s /\ input.order = order /\ input.forest = Planted(f)
    BY <1>1
  <1>4. f \in Trees
    BY MacroAssumption
  <1>5. /\ forest \in Forest
        /\ \A i \in DOMAIN forest : forest[i].how = "parsed" /\ forest[i].mark = "new"
    BY <1>2, <1>3, <1>4, PlantedIs
  <1>6. DOMAIN stack = {} /\ Len(stack) = 0 /\ Len(active) = 0
    BY <1>2
  <1>7. Types
    <2>1. stack \in Seq(Call) /\ active \in Seq(Keys)
      BY <1>2
    <2>2. calls \in 0 .. MaxCalls
      BY <1>2, MacroAssumption
    <2>3. InTree => input.order = "preorder"
      BY <1>1, <1>3 DEF InTree
    <2>4. input.stage \in {"tree", "ast"} /\ input.order \in {"preorder", "postorder"}
      BY <1>3
    <2>5. input.forest \in Forest
      BY <1>2, <1>5
    <2>6. disabled \in SUBSET Range(Candidates) /\ kept \in SUBSET (1 .. calls)
      BY <1>2
    <2>7. root \in Nat /\ edited \in BOOLEAN /\ result \in {"running", "ok", "reject", "error"}
          /\ numbering = (IF edited THEN "preorder" ELSE input.order)
      BY <1>2
    <2>8. ~Running => stack = <<>>
      BY <1>2
    <2> QED BY <1>5, <1>6, <2>1, <2>2, <2>3, <2>4, <2>5, <2>6, <2>7, <2>8 DEF Types
  <1>8. Keyed
    <2>1. {k \in 1 .. 0 : stack[k].phase = "generated"} = {}
      OBVIOUS
    <2>2. Count(stack, 0) = 0
      BY <2>1, FS_EmptySet DEF Count
    <2> QED BY <1>6, <2>2 DEF Keyed
  <1>9. Linked
    BY <1>2, <1>6 DEF Linked
  <1>10. Kept /\ Depths /\ Targets
    BY <1>2, <1>5, <1>6 DEF Kept, Depths, Targets
  <1>11. Walk
    <2>1. Frontier(forest, 1, <<0>>)
      BY <1>5, Start
    <2>2. 1 \in 1 .. Len(forest) + 1
      BY <2>1 DEF Frontier, Fits
    <2>3. Swept(forest, 1)
      <3>1. \A i \in 1 .. Len(forest) : forest[i].mark = "new"
        <4>1. DOMAIN forest = 1 .. Len(forest)
          BY <1>5 DEF Forest
        <4> QED BY <1>5, <4>1
      <3> QED BY <3>1 DEF Swept
    <2>4. NextPath = <<0>>
      BY <1>2 DEF NextPath
    <2> QED BY <1>2, <2>1, <2>2, <2>3, <2>4 DEF Walk
  <1> QED BY <1>7, <1>8, <1>9, <1>10, <1>11 DEF MacroInv

LEMMA MacroStep == MacroInv /\ [Next]_vars => MacroInv'
  <1> SUFFICES ASSUME MacroInv, [Next]_vars PROVE MacroInv'
    OBVIOUS
  <1>1. CASE WalkRoots
    BY <1>1, WalkRootsKeeps
  <1>2. CASE WalkGenerated
    BY <1>2, WalkGeneratedKeeps
  <1>3. CASE BeginChildren
    BY <1>3, BeginChildrenKeeps
  <1>4. CASE WalkChildren
    BY <1>4, WalkChildrenKeeps
  <1>5. CASE Unavailable
    BY <1>5, UnavailableKeeps
  <1>6. CASE OutOfCalls
    BY <1>6, OutOfCallsKeeps
  <1>7. CASE Cycle
    BY <1>7, CycleKeeps
  <1>8. CASE Answers
    <2>1. CASE Reject
      BY <2>1, RejectKeeps
    <2>2. CASE NotApplicable
      BY <2>2, NotApplicableKeeps
    <2>3. CASE Fail
      BY <2>3, FailKeeps
    <2>4. CASE \E handled \in BOOLEAN : Accept(handled)
      BY <2>4, AcceptKeeps
    <2>5. ASSUME NEW frag \in Fragments, NEW retained \in Retentions(frag),
                 ReplaceNode(frag, retained)
          PROVE  MacroInv'
      BY <2>5, ReplaceNodeKeeps
    <2>6. ASSUME NEW frag \in Fragments, NEW handled \in BOOLEAN, ReplaceChildren(frag, handled)
          PROVE  MacroInv'
      BY <2>6, ReplaceChildrenKeeps
    <2> QED BY <1>8, <2>1, <2>2, <2>3, <2>4, <2>5, <2>6 DEF Answers
  <1>9. CASE UNCHANGED vars
    BY <1>9, StutterKeeps
  <1> QED BY <1>1, <1>2, <1>3, <1>4, <1>5, <1>6, <1>7, <1>8, <1>9 DEF Next

(* In every state of the walk each frame is where the one below it was     *)
(* going, the position the walk has come to is where the path on top       *)
(* leads, and all before it is offered and nothing after it.               *)
(* expand_tree_in_parse, expand_ast_in_parse: a path is resolved again     *)
(* whenever the walk goes on, host.rs:10746-10793.                         *)
THEOREM MacroInvariant == Spec => []MacroInv
  <1>1. Init => MacroInv
    BY MacroInit
  <1>2. MacroInv /\ [Next]_vars => MacroInv'
    BY MacroStep
  <1> QED BY <1>1, <1>2, PTL DEF Spec

-----------------------------------------------------------------------------
(* The forest is the preorder of trees, and pipeline.active is the keys of *)
(* the calls whose generated nodes are being walked, in order, whatever    *)
(* the macros generate and however the nodes end: a cycle is reported only *)
(* when a macro meets what it is expanding already.                        *)
THEOREM MacroTypes == Spec => []TypeOK
  <1>1. MacroInv => TypeOK
    <2> SUFFICES ASSUME MacroInv PROVE TypeOK
      OBVIOUS
    <2>1. Types /\ Keyed
      BY DEF MacroInv
    <2>2. numbering \in {"preorder", "postorder"} /\ edited \in BOOLEAN
      BY <2>1 DEF Types
    <2>3. \A i \in DOMAIN forest :
            /\ forest[i].level \in 1 .. (IF i = 1 THEN 1 ELSE forest[i - 1].level + 1)
            /\ forest[i].mark \in {"new", "walked", "failed", "again"}
      <3>1. forest \in Forest
        BY <2>1 DEF Types
      <3>2. \A i \in DOMAIN forest : forest[i] \in TreeNode
        BY <3>1, LevelIs
      <3>3. \A i \in DOMAIN forest : forest[i].mark \in Marks
        BY <3>2 DEF TreeNode
      <3> QED BY <3>1, <3>3 DEF Forest, Hangs, Marks
    <2>4. calls \in 0 .. MaxCalls /\ kept \subseteq 1 .. calls
          /\ result \in {"running", "ok", "reject", "error"}
      BY <2>1 DEF Types
    <2>5. disabled \subseteq ToSet(Candidates)
      BY <2>1 DEF Types, Range, ToSet
    <2>6. \A n : Expanding(n) = Count(stack, n)
      BY DEF Expanding, Count
    <2>7. Len(active) = Expanding(Len(stack)) /\ \A k \in DOMAIN stack :
            stack[k].phase = "generated" => active[Expanding(k)] = stack[k].key
      BY <2>1, <2>6 DEF Keyed
    <2> QED BY <2>2, <2>3, <2>4, <2>5, <2>7 DEF TypeOK
  <1> QED BY <1>1, MacroInvariant, PTL

(* A stage that ends with a tree has offered every node of it to the       *)
(* macros exactly once, those that macros generated among them, except     *)
(* below a node that failed; when identities are in preorder.              *)
(* expand_tree_node, expand_ast_node, host.rs:10746-10793.                 *)
THEOREM MacroWalkComplete == Spec => []WalkComplete
  <1>1. MacroInv => WalkComplete
    <2> SUFFICES ASSUME MacroInv, result = "ok", input.order = "preorder" PROVE Offered
      BY DEF WalkComplete
    <2>1. Swept(forest, Len(forest) + 1) /\ forest \in Forest
      BY DEF MacroInv, Walk, Exact, Types
    <2>2. ASSUME NEW i \in DOMAIN forest PROVE Settled(forest, i)
      <3>1. i \in Nat /\ i >= 1 /\ i <= Len(forest) /\ Len(forest) \in Nat
        BY <2>1, LevelIs
      <3>2. i \in 1 .. Len(forest) + 1 - 1
        BY <3>1
      <3> QED BY <2>1, <3>2 DEF Swept
    <2> QED BY <2>2 DEF Offered, BelowFailure, Settled, Fallen
  <1> QED BY <1>1, MacroInvariant, PTL

(* A stage that ends with a tree has nothing nested deeper than the quota, *)
(* except below a node that failed: in a Tree every node is measured when  *)
(* the walk enters it, in an AST every edit is measured as a whole too.    *)
(* expand_tree_node of host.rs, validate_ast_tree of host/ast_macro.rs.    *)
THEOREM MacroNestingBounded == Spec => []NestingBounded
  <1>1. MacroInv => NestingBounded
    <2> SUFFICES ASSUME MacroInv, result = "ok", NEW i \in DOMAIN forest,
                        forest[i].level > MaxRawDepth
                 PROVE  BelowFailure(i)
      BY DEF NestingBounded
    <2>1. Types /\ Depths /\ Walk
      BY DEF MacroInv
    <2>2. forest \in Forest
      BY <2>1 DEF Types
    <2>3. i \in Nat /\ i >= 1 /\ i <= Len(forest) /\ Len(forest) \in Nat /\ forest[i].level \in Nat
      BY <2>2, LevelIs
    <2>4. ~(forest[i].level <= MaxRawDepth)
      BY <2>3, MacroAssumption
    <2>5. forest[i].mark = "new" /\ ~(InAst /\ edited)
      BY <2>1, <2>4 DEF Depths
    <2>6. Exact
      BY <2>1, <2>5 DEF Exact, Types, InTree, InAst
    <2>7. Swept(forest, Len(forest) + 1)
      BY <2>1, <2>6 DEF Walk
    <2>8. i \in 1 .. Len(forest) + 1 - 1
      BY <2>3
    <2>9. Settled(forest, i)
      BY <2>7, <2>8 DEF Swept
    <2> QED BY <2>5, <2>9 DEF Settled, Fallen, BelowFailure
  <1> QED BY <1>1, MacroInvariant, PTL

(* An edit that replaced a node and is in the tree at the end was made by  *)
(* a call whose writes the transaction kept: what a failed node rolls back *)
(* never takes with it the writes of an edit that stays.                   *)
THEOREM MacroEditsKept == Spec => []EditsKept
  <1>1. MacroInv => EditsKept
    BY DEF MacroInv, Kept, EditsKept
  <1> QED BY <1>1, MacroInvariant, PTL
=============================================================================
