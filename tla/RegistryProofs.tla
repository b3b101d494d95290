--------------------------- MODULE RegistryProofs ---------------------------
(***************************************************************************)
(* Proofs about DynamicRegistry: declaration orders, snapshots and handles *)
(* for all values of the constants.                                        *)
(***************************************************************************)
EXTENDS DynamicRegistry, FiniteSetTheorems, TLAPS

Op        == [add : BOOLEAN, local : Local]
Layers    == UNION {[C -> [Local -> Nat]] : C \in SUBSET Component}
Snapshots == [components : Layers, at : Nat]
DocLayers == [revision : Nat, components : Layers, frozen : [components : Layers, at : Int]]
Handles   == [state : {"open"}, component : Component, doc : Doc,
              revision : 0..MaxDocRevision, known : SUBSET Local, ops : Seq(Op)]
Marks     == [state : {"taken"}, doc : Doc, revision : Nat, components : Layers, at : Nat]

Types ==
    /\ initial \in Layers
    /\ layers \in [Doc -> DocLayers]
    /\ latest \in [Doc -> 0..MaxDocRevision]
    /\ order \in Nat \ {0}
    /\ revision \in 0..MaxRegistry
    /\ update \in [Update -> Handles \cup [state : {"idle", "done"}]]
    /\ saves \in [Slot -> Marks \cup [state : {"idle"}]]
    /\ issued \subseteq [doc : Doc, revision : Nat, snapshot : Snapshots]

Taken(s) == saves[s].state = "taken"
Bounded ==
    /\ \A d \in Doc : /\ layers[d].revision =< latest[d]
                      /\ Frozen(d) => layers[d].frozen.at \in 0..revision
    /\ \A s \in Slot : Taken(s) => /\ saves[s].at =< revision
                                   /\ saves[s].revision \in 1..latest[saves[s].doc]

(* A layer that is in use: few items, with different orders below n.       *)
Good(components, n) ==
    /\ components \in Layers
    /\ \A c \in Component : Cardinality(Of(components, c)) =< MaxItems
    /\ \A i \in Present(components) : components[i[1]][i[2]] < n
    /\ \A i, j \in Present(components) :
          components[i[1]][i[2]] = components[j[1]][j[2]] => i = j

Ordered ==
    /\ Good(initial, order)
    /\ \A d \in Doc : Good(layers[d].components, order)
    /\ \A s \in Slot : Taken(s) => Good(saves[s].components, order)

(* The snapshots made of the revision a layer has are its own, or older.   *)
Stamped ==
    \A x \in issued : LET d == x.doc IN
        /\ x.revision =< layers[d].revision
        /\ x.revision = layers[d].revision =>
             IF Frozen(d)
             THEN x.snapshot = layers[d].frozen \/ x.snapshot.at < layers[d].frozen.at
             ELSE x.snapshot.at < revision

Sound == Types /\ Bounded /\ Ordered /\ Stamped /\ SnapshotIsLayer /\ SnapshotsNamed

-----------------------------------------------------------------------------
(* Registrations among the first staged operations.                        *)
LEMMA AddsCount ==
    ASSUME NEW ops \in Seq(Op), NEW i \in Nat
    PROVE  /\ Adds(ops, i) \in Nat
           /\ \A j \in 0..i : Adds(ops, j) \in Nat /\ Adds(ops, j) =< Adds(ops, i)
           /\ i # 0 /\ ops[i].add => Adds(ops, i - 1) < Adds(ops, i)
  <1> DEFINE A(k) == {j \in 1..k : ops[j].add}
  <1>1. ASSUME NEW k \in Nat PROVE IsFiniteSet(A(k)) /\ Cardinality(A(k)) \in Nat
    <2>1. IsFiniteSet(1..k)
      BY FS_Interval
    <2>2. IsFiniteSet(A(k))
      BY <2>1, FS_Subset
    <2> QED BY <2>2, FS_CardinalityType
  <1>2. ASSUME NEW j \in 0..i PROVE Adds(ops, j) \in Nat /\ Adds(ops, j) =< Adds(ops, i)
    <2>1. A(j) \subseteq A(i)
      OBVIOUS
    <2>2. Cardinality(A(j)) =< Cardinality(A(i)) /\ Cardinality(A(j)) \in Nat
      BY <1>1, <2>1, FS_Subset
    <2> QED BY <2>2 DEF Adds
  <1>3. ASSUME i # 0, ops[i].add PROVE Adds(ops, i - 1) < Adds(ops, i)
    <2>1. i - 1 \in Nat /\ A(i - 1) \subseteq A(i) /\ i \in A(i) /\ i \notin A(i - 1)
      BY <1>3
    <2>2. /\ Cardinality(A(i - 1)) =< Cardinality(A(i))
          /\ Cardinality(A(i)) = Cardinality(A(i - 1)) => A(i) = A(i - 1)
      BY <1>1, <2>1, FS_Subset
    <2>3. Cardinality(A(i - 1)) # Cardinality(A(i))
      BY <2>1, <2>2
    <2>4. Cardinality(A(i - 1)) \in Nat /\ Cardinality(A(i)) \in Nat
      BY <1>1, <2>1
    <2> HIDE DEF A
    <2>5. Cardinality(A(i - 1)) < Cardinality(A(i))
      BY <2>2, <2>3, <2>4
    <2> QED BY <2>5 DEF Adds, A
  <1>4. Adds(ops, i) \in Nat
    BY <1>1 DEF Adds
  <1> QED BY <1>2, <1>3, <1>4

(* The last operation on an item.                                          *)
LEMMA LastOn ==
    ASSUME NEW ops \in Seq(Op), NEW l \in Local, On(ops, l) # {}
    PROVE  Max(On(ops, l)) \in On(ops, l)
  <1> DEFINE back == {Len(ops) - i : i \in On(ops, l)}
  <1>1. Len(ops) \in Nat /\ On(ops, l) \subseteq 1..Len(ops)
    BY DEF On
  <1>2. back \subseteq Nat /\ back # {}
    BY <1>1
  <1>3. \E b \in back : \A d \in back : ~(<<d, b>> \in OpToRel(<, Nat))
    BY <1>2, NatLessThanWellFounded, WFMin
  <1>4. \A x, y \in Nat : <<y, x>> \in OpToRel(<, Nat) <=> y < x
    BY DEF OpToRel
  <1>5. PICK i \in On(ops, l) : \A d \in back : ~(<<d, Len(ops) - i>> \in OpToRel(<, Nat))
    BY <1>3
  <1>6. ASSUME NEW j \in On(ops, l) PROVE i >= j
    <2>1. Len(ops) - j \in back
      OBVIOUS
    <2>2. i \in Int /\ j \in Int /\ Len(ops) - j \in Nat /\ Len(ops) - i \in Nat
      BY <1>1
    <2>3. ~(Len(ops) - j < Len(ops) - i)
      BY <1>4, <1>5, <2>1, <2>2
    <2> QED BY <1>1, <2>2, <2>3
  <1> QED BY <1>6 DEF Max

(* What an update makes of the items of its component: each keeps its      *)
(* number, is gone, or has a new number of its own.                        *)
LEMMA OutcomeOf ==
    ASSUME order \in Nat \ {0}, NEW items \in [Local -> Nat], NEW ops \in Seq(Op),
           NEW l \in Local
    PROVE  \/ Outcome(items, ops, l) \in {items[l], Absent}
           \/ LET last == Max(On(ops, l)) IN
              /\ last \in 1..Len(ops) /\ ops[last].local = l
              /\ Adds(ops, last - 1) \in Nat
              /\ Adds(ops, last - 1) < Adds(ops, last) /\ Adds(ops, last) =< Adds(ops, Len(ops))
              /\ Outcome(items, ops, l) = order + Adds(ops, last - 1)
  <1> DEFINE last == Max(On(ops, l))
  <1>1. CASE On(ops, l) = {}
    BY <1>1 DEF Outcome
  <1>2. CASE On(ops, l) # {}
    <2>1. last \in 1..Len(ops) /\ ops[last].local = l /\ Len(ops) \in Nat
      BY <1>2, LastOn DEF On
    <2>2. CASE ~ops[last].add
      BY <1>2, <2>2 DEF Outcome
    <2>3. CASE ops[last].add
      <3>1. Outcome(items, ops, l) = order + Adds(ops, last - 1)
        BY <1>2, <2>3 DEF Outcome, DeclarationOrder
      <3>2. /\ last \in Nat /\ last # 0 /\ last \in 0..Len(ops)
            /\ last - 1 \in 0..last
        BY <2>1
      <3>3. Adds(ops, last - 1) \in Nat /\ Adds(ops, last - 1) < Adds(ops, last)
        BY <2>3, <3>2, AddsCount
      <3>4. Adds(ops, last) =< Adds(ops, Len(ops))
        BY <2>1, <3>2, AddsCount
      <3> QED BY <2>1, <3>1, <3>3, <3>4
    <2> QED BY <2>2, <2>3
  <1> QED BY <1>1, <1>2

(* The items of a component after an update have different numbers, below  *)
(* the next one.                                                           *)
LEMMA AppliedItems ==
    ASSUME order \in Nat \ {0}, NEW items \in [Local -> Nat], NEW ops \in Seq(Op),
           \A l \in Local : items[l] < order,
           \A l, m \in Local : items[l] # Absent /\ items[l] = items[m] => l = m
    PROVE  LET new == Applied(items, ops) IN
           /\ new.next \in Nat \ {0} /\ order =< new.next
           /\ new.items \in [Local -> Nat]
           /\ \A l \in Local : new.items[l] < new.next
           /\ \A l \in Local : new.items[l] \in {items[l], Absent} \/ new.items[l] >= order
           /\ \A l, m \in Local :
                 new.items[l] # Absent /\ new.items[l] = new.items[m] => l = m
  <1> DEFINE new == Applied(items, ops)
             next == order + Adds(ops, Len(ops))
             Last(l) == Max(On(ops, l))
             Numbered(l) ==
                /\ Last(l) \in 1..Len(ops) /\ ops[Last(l)].local = l
                /\ Adds(ops, Last(l) - 1) \in Nat
                /\ Adds(ops, Last(l) - 1) < Adds(ops, Last(l))
                /\ Adds(ops, Last(l)) =< Adds(ops, Len(ops))
                /\ Outcome(items, ops, l) = order + Adds(ops, Last(l) - 1)
  <1>1. /\ new.next = next /\ new.items = [l \in Local |-> Outcome(items, ops, l)]
        /\ Len(ops) \in Nat
    BY DEF Applied
  <1>2. \A i \in 0..Len(ops) : Adds(ops, i) \in Nat
    BY <1>1, AddsCount
  <1>3. \A l \in Local : Outcome(items, ops, l) \in {items[l], Absent} \/ Numbered(l)
    BY OutcomeOf
  <1>4. next \in Nat \ {0} /\ order =< next
    BY <1>1, <1>2
  <1>5. ASSUME NEW l \in Local
        PROVE  /\ Outcome(items, ops, l) \in Nat /\ Outcome(items, ops, l) < next
               /\ Outcome(items, ops, l) \in {items[l], Absent} \/ Outcome(items, ops, l) >= order
    <2>1. CASE Outcome(items, ops, l) \in {items[l], Absent}
      BY <1>4, <2>1 DEF Absent
    <2>2. CASE Numbered(l)
      <3>1. Adds(ops, Last(l)) \in Nat /\ Adds(ops, Len(ops)) \in Nat
        BY <1>1, <1>2, <2>2
      <3> HIDE DEF Last
      <3> QED BY <2>2, <3>1
    <2> QED BY <1>3, <2>1, <2>2
  <1>6. ASSUME NEW l \in Local, NEW m \in Local, Outcome(items, ops, l) # Absent,
               Outcome(items, ops, l) = Outcome(items, ops, m)
        PROVE  l = m
    <2>1. CASE /\ Outcome(items, ops, l) \in {items[l], Absent}
               /\ Outcome(items, ops, m) \in {items[m], Absent}
      BY <1>6, <2>1
    <2>2. CASE Numbered(l) /\ ~Numbered(m)
      <3>1. Outcome(items, ops, m) < order
        BY <1>3, <2>2 DEF Absent
      <3>2. Outcome(items, ops, l) >= order
        <4> HIDE DEF Last
        <4> QED BY <2>2
      <3>3. Outcome(items, ops, l) \in Nat
        BY <1>5
      <3> QED BY <1>6, <3>1, <3>2, <3>3
    <2>3. CASE Numbered(m) /\ ~Numbered(l)
      <3>1. Outcome(items, ops, l) < order
        BY <1>3, <2>3 DEF Absent
      <3>2. Outcome(items, ops, m) >= order
        <4> HIDE DEF Last
        <4> QED BY <2>3
      <3>3. Outcome(items, ops, m) \in Nat
        BY <1>5
      <3> QED BY <1>6, <3>1, <3>2, <3>3
    <2>4. CASE Numbered(l) /\ Numbered(m)
      <3>1. Last(l) \in Nat /\ Last(m) \in Nat
        BY <2>4
      <3>2. Adds(ops, Last(l) - 1) = Adds(ops, Last(m) - 1)
        <4>1. /\ Adds(ops, Last(l) - 1) \in Nat /\ Adds(ops, Last(m) - 1) \in Nat
              /\ order + Adds(ops, Last(l) - 1) = order + Adds(ops, Last(m) - 1)
          BY <1>6, <2>4
        <4> HIDE DEF Last
        <4> QED BY <4>1
      <3>3. ASSUME Last(l) < Last(m) PROVE FALSE
        <4>1. /\ Last(m) - 1 \in Nat /\ Last(l) \in 0..(Last(m) - 1)
          BY <2>4, <3>1, <3>3
        <4>2. Adds(ops, Last(l)) =< Adds(ops, Last(m) - 1)
              /\ Adds(ops, Last(l)) \in Nat
          BY <4>1, AddsCount
        <4> HIDE DEF Last
        <4> QED BY <2>4, <3>2, <4>2
      <3>4. ASSUME Last(m) < Last(l) PROVE FALSE
        <4>1. /\ Last(l) - 1 \in Nat /\ Last(m) \in 0..(Last(l) - 1)
          BY <2>4, <3>1, <3>4
        <4>2. Adds(ops, Last(m)) =< Adds(ops, Last(l) - 1)
              /\ Adds(ops, Last(m)) \in Nat
          BY <4>1, AddsCount
        <4> HIDE DEF Last
        <4> QED BY <2>4, <3>2, <4>2
      <3>5. Last(l) = Last(m)
        BY <3>1, <3>3, <3>4
      <3> QED BY <2>4, <3>5
    <2> QED BY <1>3, <2>1, <2>2, <2>3, <2>4
  <1> HIDE DEF new, next, Last, Numbered
  <1>7. /\ new.items \in [Local -> Nat]
        /\ \A l \in Local : new.items[l] < new.next
        /\ \A l \in Local : new.items[l] \in {items[l], Absent} \/ new.items[l] >= order
        /\ \A l, m \in Local :
              new.items[l] # Absent /\ new.items[l] = new.items[m] => l = m
    BY <1>1, <1>5, <1>6
  <1> QED BY <1>1, <1>4, <1>7 DEF new

-----------------------------------------------------------------------------
(* Layers, by the items of each component.                                 *)
LEMMA LayerItems ==
    ASSUME NEW L \in Layers
    PROVE  /\ IsLayer(L)
           /\ \A c \in Component : Items(L, c) \in [Local -> Nat]
           /\ L = [c \in DOMAIN L |-> L[c]]
  <1>1. PICK C \in SUBSET Component : L \in [C -> [Local -> Nat]]
    BY DEF Layers
  <1>2. NoItem \in [Local -> Nat]
    BY DEF NoItem, Absent
  <1> QED BY <1>1, <1>2 DEF IsLayer, Items

LEMMA LayerMade ==
    ASSUME NEW C \in SUBSET Component, NEW L \in [C -> [Local -> Nat]]
    PROVE  L \in Layers
  BY DEF Layers

(* Good, by items: numbers are below n, and none is used twice.            *)
Apart(L, n) ==
    /\ \A c \in Component, l \in Local : Items(L, c)[l] < n
    /\ \A c, d \in Component, l, m \in Local :
          Items(L, c)[l] # Absent /\ Items(L, c)[l] = Items(L, d)[m] => c = d /\ l = m

LEMMA GoodItems ==
    ASSUME NEW L \in Layers, NEW n \in Nat \ {0}
    PROVE  Good(L, n) <=> /\ Apart(L, n)
                          /\ \A c \in Component : Cardinality(Of(L, c)) =< MaxItems
  <1>1. \A i \in Id : i \in Present(L) <=> Items(L, i[1])[i[2]] # Absent
    BY DEF Present, Of, Id
  <1>2. \A i \in Present(L) :
           /\ i \in Id /\ i[1] \in Component /\ i[2] \in Local
           /\ L[i[1]][i[2]] = Items(L, i[1])[i[2]]
    BY DEF Present, Of, Items, NoItem, Id
  <1>3. \A i, j \in Id : i[1] = j[1] /\ i[2] = j[2] => i = j
    BY DEF Id
  <1>4. \A c \in Component, l \in Local :
           /\ <<c, l>> \in Id /\ <<c, l>>[1] = c /\ <<c, l>>[2] = l
           /\ Items(L, c)[l] \in Nat
    BY LayerItems DEF Id
  <1>5. ASSUME Good(L, n) PROVE Apart(L, n)
    <2>1. ASSUME NEW c \in Component, NEW l \in Local
          PROVE  Items(L, c)[l] < n
      <3>1. CASE Items(L, c)[l] = Absent
        BY <3>1 DEF Absent
      <3>2. CASE Items(L, c)[l] # Absent
        <4>1. <<c, l>> \in Present(L)
          BY <1>1, <1>4, <3>2
        <4> QED BY <1>2, <1>4, <1>5, <4>1 DEF Good
      <3> QED BY <3>1, <3>2
    <2>2. ASSUME NEW c \in Component, NEW d \in Component, NEW l \in Local, NEW m \in Local,
                 Items(L, c)[l] # Absent, Items(L, c)[l] = Items(L, d)[m]
          PROVE  c = d /\ l = m
      <3>1. <<c, l>> \in Present(L) /\ <<d, m>> \in Present(L)
        BY <1>1, <1>4, <2>2
      <3>2. L[c][l] = L[d][m]
        BY <1>2, <1>4, <2>2, <3>1
      <3>3. <<c, l>> = <<d, m>>
        BY <1>4, <1>5, <3>1, <3>2 DEF Good
      <3> QED BY <3>3
    <2> QED BY <2>1, <2>2 DEF Apart
  <1>6. ASSUME Apart(L, n), \A c \in Component : Cardinality(Of(L, c)) =< MaxItems
        PROVE  Good(L, n)
    <2>1. \A i \in Present(L) : L[i[1]][i[2]] < n
      BY <1>2, <1>6 DEF Apart
    <2>2. ASSUME NEW i \in Present(L), NEW j \in Present(L), L[i[1]][i[2]] = L[j[1]][j[2]]
          PROVE  i = j
      BY <1>1, <1>2, <1>3, <1>6, <2>2 DEF Apart
    <2> QED BY <1>6, <2>1, <2>2 DEF Good
  <1> QED BY <1>5, <1>6 DEF Good

LEMMA GoodLater ==
    ASSUME NEW L, NEW n \in Nat, NEW m \in Nat, n =< m, Good(L, n)
    PROVE  Good(L, m)
  <1>1. \A i \in Present(L) : L[i[1]][i[2]] \in Nat
    BY DEF Good, Present, Of, Items, Layers, NoItem, Id
  <1> QED BY <1>1 DEF Good

LEMMA GoodNothing ==
    ASSUME NEW n \in Nat \ {0}
    PROVE  Good(NoLayer, n)
  <1>1. NoLayer \in Layers
    <2>1. NoLayer \in [{} -> [Local -> Nat]] /\ {} \in SUBSET Component
      BY DEF NoLayer
    <2> QED BY <2>1, LayerMade
  <1>2. \A c \in Component : Items(NoLayer, c) = NoItem
    BY DEF Items, NoLayer
  <1>3. Apart(NoLayer, n)
    BY <1>2 DEF Apart, NoItem, Absent
  <1>4. \A c \in Component : Cardinality(Of(NoLayer, c)) =< MaxItems
    BY <1>2, FS_EmptySet, RegistryAssumption DEF Of, NoItem
  <1> QED BY <1>1, <1>3, <1>4, GoodItems

LEMMA GoodWithout ==
    ASSUME NEW L, NEW n \in Nat \ {0}, Good(L, n), NEW c \in Component
    PROVE  Good(Without(L, c), n)
  <1> DEFINE M == Without(L, c)
  <1>1. L \in Layers /\ Apart(L, n) /\ \A d \in Component : Cardinality(Of(L, d)) =< MaxItems
    BY GoodItems DEF Good
  <1>2. M \in Layers
    <2>1. DOMAIN L \subseteq Component /\ \A d \in DOMAIN L : L[d] \in [Local -> Nat]
      BY <1>1, LayerItems DEF IsLayer
    <2>2. M \in [DOMAIN L \ {c} -> [Local -> Nat]] /\ DOMAIN L \ {c} \in SUBSET Component
      BY <2>1 DEF Without
    <2> HIDE DEF M
    <2> QED BY <2>2, LayerMade
  <1>3. \A d \in Component : Items(M, d) = IF d = c THEN NoItem ELSE Items(L, d)
    BY DEF Items, Without
  <1>4. Apart(M, n)
    <2>1. \A l \in Local : NoItem[l] = Absent
      BY DEF NoItem
    <2>2. ASSUME NEW d \in Component, NEW l \in Local PROVE Items(M, d)[l] < n
      BY <1>1, <1>3, <2>1 DEF Apart, Absent
    <2>3. ASSUME NEW d \in Component, NEW e \in Component, NEW l \in Local, NEW m \in Local,
                 Items(M, d)[l] # Absent, Items(M, d)[l] = Items(M, e)[m]
          PROVE  d = e /\ l = m
      <3>1. d # c /\ e # c
        BY <1>3, <2>1, <2>3
      <3> QED BY <1>1, <1>3, <2>3, <3>1 DEF Apart
    <2> HIDE DEF M
    <2> QED BY <2>2, <2>3 DEF Apart
  <1>5. \A d \in Component : Cardinality(Of(M, d)) =< MaxItems
    <2>1. Of(M, c) = {}
      BY <1>3 DEF Of, NoItem
    <2>2. \A d \in Component : d # c => Of(M, d) = Of(L, d)
      BY <1>3 DEF Of
    <2> QED BY <1>1, <2>1, <2>2, FS_EmptySet, RegistryAssumption
  <1> HIDE DEF M
  <1>6. Good(M, n)
    BY <1>2, <1>4, <1>5, GoodItems
  <1> QED BY <1>6 DEF M

(* A component's items after an update, in their layer.                    *)
LEMMA GoodWith ==
    ASSUME order \in Nat \ {0}, NEW L, Good(L, order), NEW c \in Component, NEW ops \in Seq(Op)
    PROVE  LET new == Applied(Items(L, c), ops) IN
           /\ new.next \in Nat \ {0} /\ order =< new.next
           /\ Fits(new.items) => Good(With(L, c, new.items), new.next)
  <1> DEFINE new == Applied(Items(L, c), ops)
             M == With(L, c, new.items)
  <1>1. L \in Layers /\ Apart(L, order) /\ \A d \in Component : Cardinality(Of(L, d)) =< MaxItems
    BY GoodItems DEF Good
  <1>2. Items(L, c) \in [Local -> Nat]
    BY <1>1, LayerItems
  <1>3. /\ new.next \in Nat \ {0} /\ order =< new.next
        /\ new.items \in [Local -> Nat]
        /\ \A l \in Local : new.items[l] < new.next
        /\ \A l \in Local : new.items[l] \in {Items(L, c)[l], Absent} \/ new.items[l] >= order
        /\ \A l, m \in Local :
              new.items[l] # Absent /\ new.items[l] = new.items[m] => l = m
    BY <1>1, <1>2, AppliedItems DEF Apart
  <1> HIDE DEF new
  <1>4. ASSUME Fits(new.items) PROVE Good(M, new.next)
    <2>1. M \in Layers
      <3>1. DOMAIN L \subseteq Component /\ \A d \in DOMAIN L : L[d] \in [Local -> Nat]
        BY <1>1, LayerItems DEF IsLayer
      <3>2. M \in [DOMAIN L \cup {c} -> [Local -> Nat]] /\ DOMAIN L \cup {c} \in SUBSET Component
        BY <1>3, <3>1 DEF With
      <3> HIDE DEF M
      <3> QED BY <3>2, LayerMade
    <2>2. \A d \in Component : Items(M, d) = IF d = c THEN new.items ELSE Items(L, d)
      BY DEF Items, With
    <2>3. \A d \in Component, l \in Local : Items(L, d)[l] \in Nat /\ Items(L, d)[l] < order
      BY <1>1, LayerItems DEF Apart
    <2>4. \A l \in Local : new.items[l] \in Nat
      BY <1>3
    <2> HIDE DEF M
    <2>5. ASSUME NEW d \in Component, NEW l \in Local PROVE Items(M, d)[l] < new.next
      BY <1>3, <2>2, <2>3
    <2>6. ASSUME NEW d \in Component, d # c, NEW l \in Local, NEW m \in Local,
                 new.items[l] = Items(L, d)[m]
          PROVE  new.items[l] = Absent
      <3>1. new.items[l] < order
        BY <2>3, <2>6
      <3>2. CASE new.items[l] = Items(L, c)[l]
        <4>1. Items(L, c)[l] = Items(L, d)[m]
          BY <2>6, <3>2
        <4>2. Items(L, c)[l] # Absent => c = d
          BY <1>1, <4>1 DEF Apart
        <4> QED BY <2>6, <3>2, <4>2
      <3>3. CASE new.items[l] # Items(L, c)[l]
        BY <1>3, <2>4, <3>1, <3>3
      <3> QED BY <3>2, <3>3
    <2>7. ASSUME NEW d \in Component, NEW e \in Component, NEW l \in Local, NEW m \in Local,
                 Items(M, d)[l] # Absent, Items(M, d)[l] = Items(M, e)[m]
          PROVE  d = e /\ l = m
      <3>1. CASE d = c /\ e = c
        BY <1>3, <2>2, <2>7, <3>1
      <3>2. CASE d # c /\ e # c
        BY <1>1, <2>2, <2>7, <3>2 DEF Apart
      <3>3. CASE d = c /\ e # c
        BY <2>2, <2>6, <2>7, <3>3
      <3>4. CASE d # c /\ e = c
        <4>1. new.items[m] = Items(L, d)[l]
          BY <2>2, <2>7, <3>4
        <4> QED BY <2>2, <2>6, <2>7, <3>4, <4>1
      <3> QED BY <3>1, <3>2, <3>3, <3>4
    <2>8. Apart(M, new.next)
      BY <2>5, <2>7 DEF Apart
    <2>9. \A d \in Component : Cardinality(Of(M, d)) =< MaxItems
      <3>1. Of(M, c) = {l \in Local : new.items[l] # Absent}
        BY <2>2 DEF Of
      <3>2. \A d \in Component : d # c => Of(M, d) = Of(L, d)
        BY <2>2 DEF Of
      <3> QED BY <1>1, <1>4, <3>1, <3>2 DEF Fits
    <2> QED BY <1>3, <2>1, <2>8, <2>9, GoodItems
  <1> QED BY <1>3, <1>4 DEF new, M

-----------------------------------------------------------------------------
LEMMA InitSound == Init => Sound
  <1> SUFFICES ASSUME Init PROVE Sound
    OBVIOUS
  <1>1. Good(NoLayer, 1) /\ NoLayer \in Layers
    BY GoodNothing DEF Good
  <1>2. Types
    BY <1>1, RegistryAssumption DEF Init, Types, DocLayers, None
  <1>3. \A d \in Doc : layers[d].revision = 0 /\ ~Frozen(d) /\ layers[d].components = NoLayer
    BY DEF Init, Frozen
  <1>4. \A s \in Slot : ~Taken(s)
    BY DEF Init, Taken
  <1>5. Bounded
    BY <1>3, <1>4 DEF Init, Bounded
  <1>6. Ordered
    BY <1>1, <1>3, <1>4 DEF Init, Ordered
  <1>7. Stamped /\ SnapshotIsLayer /\ SnapshotsNamed
    BY <1>3 DEF Init, Stamped, SnapshotIsLayer, SnapshotsNamed
  <1> QED BY <1>2, <1>5, <1>6, <1>7 DEF Sound

(* Handles alone.                                                          *)
LEMMA HandlesSound ==
    ASSUME Sound, UNCHANGED <<registry, saves, issued>>,
           update' \in [Update -> Handles \cup [state : {"idle", "done"}]]
    PROVE  Sound'
  <1>1. Types' /\ Bounded'
    BY DEF Sound, Types, Bounded, registry, Taken, Frozen
  <1>2. Ordered' /\ Stamped' /\ SnapshotIsLayer' /\ SnapshotsNamed'
    BY DEF Sound, Ordered, Stamped, SnapshotIsLayer, SnapshotsNamed, registry, Taken, Frozen
  <1> QED BY <1>1, <1>2 DEF Sound

LEMMA BeginUpdateSound ==
    ASSUME Sound, NEW u \in Update, NEW c \in Component,
           \/ BeginInitialUpdate(u, c)
           \/ \E d \in Doc, r \in 1..MaxDocRevision : BeginDocumentUpdate(u, c, d, r)
    PROVE  Sound'
  <1>1. \A d \in Doc, r \in 0..MaxDocRevision, L \in Layers : NewUpdate(c, d, r, L) \in Handles
    BY DEF NewUpdate, Handles, Of
  <1>2. MaxDocRevision \in Nat /\ 0 \in 0..MaxDocRevision /\ 1..MaxDocRevision \subseteq 0..MaxDocRevision
    BY RegistryAssumption
  <1>3. \E d \in Doc, r \in 0..MaxDocRevision, L \in Layers :
           update' = [update EXCEPT ![u] = NewUpdate(c, d, r, L)]
    BY <1>2 DEF BeginInitialUpdate, BeginDocumentUpdate, Sound, Types, DocLayers
  <1>4. update' \in [Update -> Handles \cup [state : {"idle", "done"}]]
    BY <1>1, <1>3 DEF Sound, Types
  <1> QED BY <1>4, HandlesSound DEF BeginInitialUpdate, BeginDocumentUpdate

LEMMA StageSound ==
    ASSUME Sound, NEW u \in Update, NEW l \in Local, Register(u, l) \/ Remove(u, l)
    PROVE  Sound'
  <1>1. update[u] \in Handles
    BY DEF Sound, Types, Register, Remove
  <1>2. PICK op \in Op, known \in SUBSET Local :
           update' = [update EXCEPT ![u].known = known, ![u].ops = Append(update[u].ops, op)]
    <2>1. CASE Register(u, l)
      BY <1>1, <2>1 DEF Register, Op, Handles, Sound, Types
    <2>2. CASE Remove(u, l)
      BY <1>1, <2>2 DEF Remove, Op, Handles, Sound, Types
    <2> QED BY <2>1, <2>2
  <1>3. Append(update[u].ops, op) \in Seq(Op)
    BY <1>1 DEF Handles
  <1>4. [update[u] EXCEPT !.known = known, !.ops = Append(update[u].ops, op)] \in Handles
    BY <1>1, <1>3 DEF Handles
  <1>5. update' = [update EXCEPT ![u] =
                     [update[u] EXCEPT !.known = known, !.ops = Append(update[u].ops, op)]]
    BY <1>2 DEF Sound, Types
  <1>6. update' \in [Update -> Handles \cup [state : {"idle", "done"}]]
    BY <1>4, <1>5 DEF Sound, Types
  <1> QED BY <1>6, HandlesSound DEF Register, Remove

LEMMA DropSound ==
    ASSUME Sound, NEW u \in Update, DropUpdate(u)
    PROVE  Sound'
  <1>1. update' \in [Update -> Handles \cup [state : {"idle", "done"}]]
    BY DEF DropUpdate, Sound, Types
  <1> QED BY <1>1, HandlesSound DEF DropUpdate

-----------------------------------------------------------------------------
(* The layers of documents keep their revision and what is frozen of them, *)
(* or change as a whole: all other variables of a step, and the conditions *)
(* under which it keeps the invariant.                                     *)
Keeps ==
    /\ layers' \in [Doc -> DocLayers] /\ initial' \in Layers
    /\ order' \in Nat \ {0} /\ order =< order'
    /\ revision' \in 0..MaxRegistry /\ revision =< revision'
    /\ update' \in [Update -> Handles \cup [state : {"idle", "done"}]]
    /\ Good(initial', order')
    /\ UNCHANGED <<latest, saves, issued>>
    /\ \A d \in Doc :
          /\ layers'[d].revision = layers[d].revision
          /\ layers'[d].frozen = layers[d].frozen
          /\ Good(layers'[d].components, order')
          /\ Frozen(d) => layers'[d].components = layers[d].components

LEMMA KeepsSound ==
    ASSUME Sound, Keeps
    PROVE  Sound'
  <1>1. Types'
    BY DEF Keeps, Sound, Types
  <1>2. \A d \in Doc : Frozen(d)' <=> Frozen(d)
    BY DEF Keeps, Frozen
  <1>3. \A s \in Slot : /\ Taken(s)' <=> Taken(s)
                        /\ Taken(s) => saves[s] \in Marks
    BY DEF Keeps, Taken, Sound, Types
  <1>4. /\ revision \in Nat /\ revision' \in Nat /\ revision =< revision'
        /\ order \in Nat /\ order' \in Nat /\ order =< order'
        /\ layers \in [Doc -> DocLayers]
        /\ issued' = issued /\ issued \subseteq [doc : Doc, revision : Nat, snapshot : Snapshots]
    BY RegistryAssumption DEF Keeps, Sound, Types
  <1>5. Bounded'
    <2>1. ASSUME NEW d \in Doc
          PROVE  /\ layers'[d].revision =< latest'[d]
                 /\ Frozen(d)' => layers'[d].frozen.at \in 0..revision'
      BY <1>2, <1>4 DEF Keeps, Sound, Bounded
    <2>2. ASSUME NEW s \in Slot, Taken(s)'
          PROVE  /\ saves'[s].at =< revision'
                 /\ saves'[s].revision \in 1..latest'[saves'[s].doc]
      <3>1. Taken(s) /\ saves'[s] = saves[s] /\ latest' = latest
        BY <1>3, <2>2 DEF Keeps
      <3>2. saves[s].at \in Nat /\ saves[s].at =< revision
        BY <1>3, <3>1 DEF Sound, Bounded, Marks
      <3> QED BY <1>4, <3>1, <3>2 DEF Sound, Bounded
    <2> QED BY <2>1, <2>2 DEF Bounded
  <1>6. Ordered'
    <2>1. ASSUME NEW s \in Slot, Taken(s)' PROVE Good(saves'[s].components, order')
      <3>1. Taken(s) /\ saves'[s] = saves[s]
        BY <1>3, <2>1 DEF Keeps
      <3>2. Good(saves[s].components, order)
        BY <3>1 DEF Sound, Ordered
      <3> QED BY <1>4, <3>1, <3>2, GoodLater
    <2> QED BY <2>1 DEF Keeps, Ordered
  <1>7. Stamped'
    <2> SUFFICES ASSUME NEW x \in issued
                 PROVE  /\ x.revision =< layers'[x.doc].revision
                        /\ x.revision = layers'[x.doc].revision =>
                              IF Frozen(x.doc)'
                              THEN \/ x.snapshot = layers'[x.doc].frozen
                                   \/ x.snapshot.at < layers'[x.doc].frozen.at
                              ELSE x.snapshot.at < revision'
      BY <1>4 DEF Stamped, Frozen
    <2>1. x.doc \in Doc /\ x.snapshot.at \in Nat
      BY <1>4 DEF Snapshots
    <2>2. /\ layers'[x.doc].revision = layers[x.doc].revision
          /\ layers'[x.doc].frozen = layers[x.doc].frozen
          /\ Frozen(x.doc)' <=> Frozen(x.doc)
      BY <1>2, <2>1 DEF Keeps
    <2>3. /\ x.revision =< layers[x.doc].revision
          /\ x.revision = layers[x.doc].revision =>
                IF Frozen(x.doc)
                THEN \/ x.snapshot = layers[x.doc].frozen
                     \/ x.snapshot.at < layers[x.doc].frozen.at
                ELSE x.snapshot.at < revision
      BY DEF Sound, Stamped
    <2> QED BY <1>4, <2>1, <2>2, <2>3
  <1>8. SnapshotIsLayer' /\ SnapshotsNamed'
    BY <1>2 DEF Keeps, Sound, SnapshotIsLayer, SnapshotsNamed
  <1> QED BY <1>1, <1>5, <1>6, <1>7, <1>8 DEF Sound

(* A commit reaches one layer that may change, or none.                    *)
LEMMA CommitKeeps ==
    ASSUME Sound, NEW u \in Update, CommitUpdate(u)
    PROVE  /\ Keeps
           /\ \A v \in Update : v # u => update'[v] = update[v]
           /\ \A d \in Doc : layers'[d].components # layers[d].components =>
                 /\ update[u].doc = d /\ update[u].revision = latest[d] /\ ~Frozen(d)
  <1> DEFINE up == update[u]
             L == IF up.revision = 0 THEN initial ELSE layers[up.doc].components
             new == Applied(Items(L, up.component), up.ops)
  <1>1. up \in Handles /\ up.component \in Component /\ up.doc \in Doc /\ up.ops \in Seq(Op)
        /\ up.revision \in Nat
    <2>1. update[u] \in Handles \cup [state : {"idle", "done"}] /\ update[u].state = "open"
      BY DEF CommitUpdate, Sound, Types
    <2>2. update[u] \in Handles
      BY <2>1
    <2> QED BY <2>2, RegistryAssumption DEF Handles
  <1>2. Good(initial, order) /\ Good(L, order) /\ \A d \in Doc : Good(layers[d].components, order)
    BY <1>1 DEF Sound, Ordered
  <1>3. /\ order \in Nat \ {0} /\ revision \in 0..MaxRegistry /\ MaxRegistry \in Nat
        /\ layers \in [Doc -> DocLayers] /\ initial \in Layers
        /\ revision < MaxRegistry
        /\ UNCHANGED <<latest, saves, issued>>
    BY RegistryAssumption DEF CommitUpdate, registry, Sound, Types
  <1>4. /\ new.next \in Nat \ {0} /\ order =< new.next
        /\ Fits(new.items) => Good(With(L, up.component, new.items), new.next)
    BY <1>1, <1>2, <1>3, GoodWith
  <1>5. /\ update' \in [Update -> Handles \cup [state : {"idle", "done"}]]
        /\ \A v \in Update : v # u => update'[v] = update[v]
    BY DEF CommitUpdate, Sound, Types
  <1>6. /\ Good(initial, new.next)
        /\ \A d \in Doc : Good(layers[d].components, new.next)
    BY <1>2, <1>3, <1>4, GoodLater
  <1>7. CASE up.revision # 0 /\ ~Mutable(up.doc, up.revision)
    <2>1. UNCHANGED registry
      BY <1>7 DEF CommitUpdate
    <2> QED BY <1>2, <1>3, <1>5, <2>1 DEF Keeps, registry
  <1>8. CASE ~(up.revision # 0 /\ ~Mutable(up.doc, up.revision)) /\ ~Fits(new.items)
    <2>1. order' = new.next /\ UNCHANGED <<initial, layers, revision>>
      BY <1>8 DEF CommitUpdate
    <2> HIDE DEF new
    <2> QED BY <1>3, <1>4, <1>5, <1>6, <2>1 DEF Keeps
  <1>9. CASE up.revision = 0 /\ Fits(new.items)
    <2>1. /\ order' = new.next /\ revision' = revision + 1 /\ layers' = layers
          /\ initial' = With(L, up.component, new.items)
      BY <1>9 DEF CommitUpdate
    <2> HIDE DEF new, L
    <2>2. Good(initial', order') /\ initial' \in Layers
      BY <1>4, <1>9, <2>1 DEF Good
    <2> QED BY <1>3, <1>4, <1>5, <1>6, <2>1, <2>2 DEF Keeps
  <1>10. CASE up.revision # 0 /\ Mutable(up.doc, up.revision) /\ Fits(new.items)
    <2> DEFINE M == With(L, up.component, new.items)
    <2>1. /\ order' = new.next /\ revision' = revision + 1 /\ initial' = initial
          /\ layers' = [layers EXCEPT ![up.doc].components = M]
      BY <1>10 DEF CommitUpdate
    <2>2. Good(M, new.next) /\ M \in Layers
      BY <1>4, <1>10 DEF Good
    <2>3. ~Frozen(up.doc) /\ up.revision = latest[up.doc]
      BY <1>10 DEF Mutable, Current
    <2> HIDE DEF new, L, M
    <2>4. layers[up.doc] \in DocLayers
      BY <1>1, <1>3
    <2>5. layers' \in [Doc -> DocLayers]
      BY <1>3, <2>1, <2>2, <2>4 DEF DocLayers
    <2>6. \A d \in Doc : /\ layers'[d].revision = layers[d].revision
                         /\ layers'[d].frozen = layers[d].frozen
                         /\ layers'[d].components = IF d = up.doc THEN M ELSE layers[d].components
      BY <1>3, <2>1, <2>4 DEF DocLayers
    <2>7. Good(initial', order') /\ initial' \in Layers
      BY <1>3, <1>6, <2>1
    <2>8. \A d \in Doc : Good(layers'[d].components, order')
      BY <1>6, <2>1, <2>2, <2>6
    <2>9. Keeps
      BY <1>3, <1>4, <1>5, <2>1, <2>3, <2>5, <2>6, <2>7, <2>8 DEF Keeps
    <2> QED BY <1>5, <2>3, <2>6, <2>9
  <1> QED BY <1>7, <1>8, <1>9, <1>10

LEMMA RemoveKeeps ==
    ASSUME Sound, NEW c \in Component, RemoveComponent(c)
    PROVE  Keeps
  <1>1. /\ order \in Nat \ {0} /\ revision \in 0..MaxRegistry /\ MaxRegistry \in Nat
        /\ layers \in [Doc -> DocLayers] /\ initial \in Layers
        /\ update \in [Update -> Handles \cup [state : {"idle", "done"}]]
    BY RegistryAssumption DEF Sound, Types
  <1>2. /\ Good(Without(initial, c), order)
        /\ \A d \in Doc : Good(Without(layers[d].components, c), order)
    BY <1>1, GoodWithout DEF Sound, Ordered
  <1>3. /\ revision < MaxRegistry /\ revision' = revision + 1
        /\ initial' = Without(initial, c) /\ UNCHANGED <<latest, order, update, saves, issued>>
        /\ layers' = [d \in Doc |-> IF Frozen(d) THEN layers[d]
                        ELSE [layers[d] EXCEPT !.components = Without(layers[d].components, c)]]
    BY DEF RemoveComponent, Reached
  <1>4. ASSUME NEW d \in Doc
        PROVE  /\ layers'[d] \in DocLayers
               /\ layers'[d].revision = layers[d].revision
               /\ layers'[d].frozen = layers[d].frozen
               /\ Good(layers'[d].components, order')
               /\ Frozen(d) => layers'[d].components = layers[d].components
    <2>1. layers[d] \in DocLayers
      BY <1>1
    <2>2. CASE Frozen(d)
      BY <1>3, <2>1, <2>2 DEF Sound, Ordered
    <2>3. CASE ~Frozen(d)
      <3>1. layers'[d] = [layers[d] EXCEPT !.components = Without(layers[d].components, c)]
        BY <1>3, <2>3
      <3>2. Without(layers[d].components, c) \in Layers
        BY <1>2 DEF Good
      <3> QED BY <1>2, <1>3, <2>1, <2>3, <3>1, <3>2 DEF DocLayers
    <2> QED BY <2>2, <2>3
  <1>5. layers' \in [Doc -> DocLayers]
    BY <1>3, <1>4
  <1>6. initial' \in Layers /\ Good(initial', order')
    BY <1>2, <1>3 DEF Good
  <1>7. revision' \in 0..MaxRegistry /\ revision =< revision' /\ order =< order'
    BY <1>1, <1>3
  <1>8. \A d \in Doc : /\ layers'[d].revision = layers[d].revision
                       /\ layers'[d].frozen = layers[d].frozen
                       /\ Good(layers'[d].components, order')
                       /\ Frozen(d) => layers'[d].components = layers[d].components
    BY <1>4
  <1> QED BY <1>1, <1>3, <1>5, <1>6, <1>7, <1>8 DEF Keeps

-----------------------------------------------------------------------------
(* A newer revision starts from the initial layer, unfrozen.               *)
LEMMA BeginSound ==
    ASSUME Sound, NEW d \in Doc, NEW r \in 1..MaxDocRevision, BeginDocument(d, r)
    PROVE  Sound'
  <1>1. /\ layers \in [Doc -> DocLayers] /\ latest \in [Doc -> 0..MaxDocRevision]
        /\ initial \in Layers /\ MaxDocRevision \in Nat /\ r \in Nat /\ r \in 0..MaxDocRevision
        /\ order \in Nat \ {0}
    BY RegistryAssumption DEF Sound, Types
  <1>2. /\ r >= latest[d] /\ latest' = [latest EXCEPT ![d] = r]
        /\ layers' = [layers EXCEPT ![d] = Begun(d, r)]
        /\ UNCHANGED <<initial, order, revision, update, saves, issued>>
    BY DEF BeginDocument
  <1>3. CASE r > layers[d].revision
    <2> DEFINE fresh == [revision |-> r, components |-> initial, frozen |-> None]
    <2>1. fresh \in DocLayers
      BY <1>1, GoodNothing DEF DocLayers, None, Good
    <2>2. /\ layers'[d] = fresh /\ \A e \in Doc : e # d => layers'[e] = layers[e]
          /\ layers' \in [Doc -> DocLayers]
      BY <1>1, <1>2, <1>3, <2>1 DEF Begun
    <2>3. /\ latest' \in [Doc -> 0..MaxDocRevision] /\ latest'[d] = r
          /\ \A e \in Doc : e # d => latest'[e] = latest[e]
          /\ \A e \in Doc : latest[e] \in Nat /\ latest'[e] \in Nat /\ latest[e] =< latest'[e]
      BY <1>1, <1>2
    <2>4. ~Frozen(d)' /\ \A e \in Doc : e # d => (Frozen(e)' <=> Frozen(e))
      BY <2>2 DEF Frozen
    <2>5. Types'
      BY <1>2, <2>2, <2>3 DEF Sound, Types
    <2>6. Bounded'
      <3>1. ASSUME NEW e \in Doc
            PROVE  /\ layers'[e].revision =< latest'[e]
                   /\ Frozen(e)' => layers'[e].frozen.at \in 0..revision'
        BY <1>1, <1>2, <2>2, <2>3, <2>4 DEF Sound, Bounded
      <3>2. ASSUME NEW s \in Slot, Taken(s)'
            PROVE  /\ saves'[s].at =< revision'
                   /\ saves'[s].revision \in 1..latest'[saves'[s].doc]
        <4>1. /\ saves' = saves /\ revision' = revision /\ Taken(s) /\ saves[s].doc \in Doc
              /\ saves[s] \in Marks
          BY <1>2, <3>2 DEF Taken, Sound, Types, Marks
        <4> QED BY <2>3, <4>1 DEF Sound, Bounded, Marks
      <3> QED BY <3>1, <3>2 DEF Bounded
    <2>7. Ordered'
      BY <1>2, <2>2 DEF Sound, Ordered, Taken
    <2>8. Stamped'
      <3> SUFFICES ASSUME NEW x \in issued
                   PROVE  /\ x.revision =< layers'[x.doc].revision
                          /\ x.revision = layers'[x.doc].revision =>
                                IF Frozen(x.doc)'
                                THEN \/ x.snapshot = layers'[x.doc].frozen
                                     \/ x.snapshot.at < layers'[x.doc].frozen.at
                                ELSE x.snapshot.at < revision'
        BY <1>2 DEF Stamped, Frozen
      <3>1. x.doc \in Doc /\ x.revision \in Nat /\ x.revision =< layers[x.doc].revision
        BY DEF Sound, Types, Stamped
      <3>2. CASE x.doc = d
        <4>1. x.revision < r /\ layers'[x.doc].revision = r
          BY <1>1, <1>3, <2>2, <3>1, <3>2 DEF DocLayers
        <4> QED BY <1>1, <3>1, <4>1
      <3>3. CASE x.doc # d
        BY <1>2, <2>2, <2>4, <3>1, <3>3 DEF Sound, Stamped
      <3> QED BY <3>2, <3>3
    <2>9. SnapshotIsLayer' /\ SnapshotsNamed'
      BY <1>2, <2>2, <2>4 DEF Sound, SnapshotIsLayer, SnapshotsNamed
    <2> QED BY <2>5, <2>6, <2>7, <2>8, <2>9 DEF Sound
  <1>4. CASE ~(r > layers[d].revision)
    <2>1. layers' = layers
      BY <1>1, <1>2, <1>4 DEF Begun
    <2>2. layers[d].revision =< latest[d] /\ layers[d].revision \in Nat /\ latest[d] \in Nat
      BY <1>1 DEF Sound, Bounded, DocLayers
    <2>3. latest' = latest
      BY <1>1, <1>2, <1>4, <2>2
    <2> QED BY <1>2, <2>1, <2>3, HandlesSound DEF registry, Sound, Types
  <1> QED BY <1>3, <1>4

LEMMA SavepointSound ==
    ASSUME Sound, NEW s \in Slot, NEW d \in Doc, Savepoint(s, d)
    PROVE  Sound'
  <1> DEFINE mark == [state |-> "taken", doc |-> d, revision |-> layers[d].revision,
                      components |-> layers[d].components, at |-> revision]
  <1>1. /\ layers[d] \in DocLayers /\ latest[d] \in Nat /\ revision \in Nat
        /\ layers[d].revision = latest[d] /\ layers[d].revision # 0
        /\ saves' = [saves EXCEPT ![s] = mark]
        /\ UNCHANGED <<registry, update, issued>>
        /\ saves \in [Slot -> Marks \cup [state : {"idle"}]]
    BY RegistryAssumption DEF Savepoint, Current, Sound, Types
  <1>2. mark \in Marks
    BY <1>1 DEF Marks, DocLayers
  <1>3. /\ saves' \in [Slot -> Marks \cup [state : {"idle"}]]
        /\ saves'[s] = mark /\ \A t \in Slot : t # s => saves'[t] = saves[t]
    BY <1>1, <1>2
  <1>4. Types'
    BY <1>1, <1>3 DEF Sound, Types, registry
  <1>5. Bounded'
    <2>1. mark.at =< revision /\ mark.revision \in 1..latest[mark.doc]
      BY <1>1 DEF DocLayers
    <2>2. \A e \in Doc : /\ layers'[e].revision =< latest'[e]
                         /\ Frozen(e)' => layers'[e].frozen.at \in 0..revision'
      BY <1>1 DEF Sound, Bounded, Frozen, registry
    <2>3. UNCHANGED <<revision, latest>>
      BY <1>1 DEF registry
    <2> HIDE DEF mark
    <2>4. ASSUME NEW t \in Slot, Taken(t)'
          PROVE  /\ saves'[t].at =< revision'
                 /\ saves'[t].revision \in 1..latest'[saves'[t].doc]
      BY <1>3, <2>1, <2>3, <2>4 DEF Sound, Bounded, Taken
    <2> QED BY <2>2, <2>4 DEF Bounded
  <1>6. Ordered'
    BY <1>1, <1>3 DEF Sound, Ordered, Taken, registry
  <1>7. Stamped' /\ SnapshotIsLayer' /\ SnapshotsNamed'
    BY <1>1 DEF Sound, Stamped, SnapshotIsLayer, SnapshotsNamed, Frozen, registry
  <1> QED BY <1>4, <1>5, <1>6, <1>7 DEF Sound

(* A rollback, or an abort that unfreezes: every snapshot so far is older. *)
LEMMA RestoreSound ==
    ASSUME Sound, NEW s \in Slot, NEW abort \in BOOLEAN, Restore(s, abort),
           NEW d \in Doc, saves[s].doc = d
    PROVE  Sound'
  <1>1. /\ saves[s] \in Marks /\ Taken(s) /\ saves[s].at \in Nat
        /\ saves[s].components \in Layers
        /\ layers \in [Doc -> DocLayers] /\ layers[d] \in DocLayers
        /\ revision \in 0..MaxRegistry /\ MaxRegistry \in Nat
    BY RegistryAssumption DEF Restore, Sound, Types, Taken, Marks
  <1>2. /\ layers' = [layers EXCEPT ![d].components = saves[s].components, ![d].frozen = None]
        /\ revision < MaxRegistry
        /\ UNCHANGED <<initial, latest, order, update, saves, issued>>
    BY DEF Restore
  <1>3. revision' = revision + 1
    BY <1>1 DEF Restore, NextRevision, Sound, Bounded
  <1> DEFINE new == [revision |-> layers[d].revision, components |-> saves[s].components,
                     frozen |-> None]
  <1>4. new \in DocLayers
    BY <1>1, GoodNothing DEF DocLayers, None, Good
  <1>5. layers' = [layers EXCEPT ![d] = new]
    <2>1. layers' = [layers EXCEPT ![d] = [layers[d] EXCEPT !.components = saves[s].components,
                                                            !.frozen = None]]
      <3> DEFINE a == saves[s].components
                 b == None
      <3>1. layers' = [layers EXCEPT ![d].components = a, ![d].frozen = b]
        BY <1>2
      <3> HIDE DEF a, b
      <3> QED BY <1>1, <3>1 DEF a, b
    <2>2. [layers[d] EXCEPT !.components = saves[s].components, !.frozen = None] = new
      <3> DEFINE a == saves[s].components
                 b == None
                 x == layers[d].revision
                 y == layers[d].components
                 z == layers[d].frozen
      <3>1. layers[d] = [revision |-> layers[d].revision, components |-> layers[d].components,
                         frozen |-> layers[d].frozen]
        BY <1>1 DEF DocLayers
      <3> HIDE DEF a, b, x, y, z
      <3>2. [layers[d] EXCEPT !.components = a, !.frozen = b]
              = [revision |-> x, components |-> a, frozen |-> b]
        <4>1. layers[d] = [revision |-> x, components |-> y, frozen |-> z]
          BY <3>1 DEF x, y, z
        <4>2. [layers[d] EXCEPT !.components = a]
                = [revision |-> x, components |-> a, frozen |-> z]
          BY <4>1
        <4>3. [layers[d] EXCEPT !.components = a, !.frozen = b]
                = [[layers[d] EXCEPT !.components = a] EXCEPT !.frozen = b]
          BY Zenon
        <4>4. [[revision |-> x, components |-> a, frozen |-> z] EXCEPT !.frozen = b]
                = [revision |-> x, components |-> a, frozen |-> b]
          OBVIOUS
        <4> QED BY <4>2, <4>3, <4>4
      <3> QED BY <3>2 DEF a, b, x
    <2> HIDE DEF new
    <2> QED BY <2>1, <2>2
  <1>6. /\ layers' \in [Doc -> DocLayers] /\ layers'[d] = new
        /\ \A e \in Doc : e # d => layers'[e] = layers[e]
    BY <1>1, <1>4, <1>5
  <1>7. ~Frozen(d)' /\ \A e \in Doc : e # d => (Frozen(e)' <=> Frozen(e))
    BY <1>6 DEF Frozen
  <1>8. Types'
    BY <1>1, <1>2, <1>3, <1>6 DEF Sound, Types
  <1>9. Bounded'
    <2>1. ASSUME NEW e \in Doc
          PROVE  /\ layers'[e].revision =< latest'[e]
                 /\ Frozen(e)' => layers'[e].frozen.at \in 0..revision'
      BY <1>1, <1>2, <1>3, <1>6, <1>7 DEF Sound, Bounded
    <2>2. ASSUME NEW t \in Slot, Taken(t)'
          PROVE  /\ saves'[t].at =< revision'
                 /\ saves'[t].revision \in 1..latest'[saves'[t].doc]
      <3>1. Taken(t) /\ saves' = saves /\ latest' = latest /\ saves[t].at \in Nat
        BY <1>2, <2>2 DEF Taken, Sound, Types, Marks
      <3> QED BY <1>1, <1>3, <3>1 DEF Sound, Bounded
    <2> QED BY <2>1, <2>2 DEF Bounded
  <1>10. Ordered'
    <2>1. Good(saves[s].components, order)
      BY <1>1 DEF Sound, Ordered
    <2> QED BY <1>2, <1>6, <2>1 DEF Sound, Ordered, Taken
  <1>11. Stamped'
    <2> SUFFICES ASSUME NEW x \in issued
                 PROVE  /\ x.revision =< layers'[x.doc].revision
                        /\ x.revision = layers'[x.doc].revision =>
                              IF Frozen(x.doc)'
                              THEN \/ x.snapshot = layers'[x.doc].frozen
                                   \/ x.snapshot.at < layers'[x.doc].frozen.at
                              ELSE x.snapshot.at < revision'
      BY <1>2 DEF Stamped, Frozen
    <2>1. /\ x.doc \in Doc /\ x.snapshot.at \in Nat
          /\ x.revision =< layers[x.doc].revision
          /\ x.revision = layers[x.doc].revision =>
                IF Frozen(x.doc)
                THEN \/ x.snapshot = layers[x.doc].frozen
                     \/ x.snapshot.at < layers[x.doc].frozen.at
                ELSE x.snapshot.at < revision
      BY DEF Sound, Types, Stamped, Snapshots
    <2>2. layers'[x.doc].revision = layers[x.doc].revision
      BY <1>6, <2>1
    <2>3. /\ layers[x.doc].frozen.at \in Int
          /\ Frozen(x.doc) => layers[x.doc].frozen.at =< revision
      BY <1>1, <2>1 DEF Sound, Bounded, DocLayers
    <2>4. x.revision = layers[x.doc].revision => x.snapshot.at < revision'
      BY <1>1, <1>3, <2>1, <2>3
    <2>5. CASE x.doc = d
      BY <1>7, <2>1, <2>2, <2>4, <2>5
    <2>6. CASE x.doc # d
      BY <1>6, <1>7, <2>1, <2>2, <2>4, <2>6
    <2> QED BY <2>5, <2>6
  <1>12. SnapshotIsLayer' /\ SnapshotsNamed'
    BY <1>2, <1>6, <1>7 DEF Sound, SnapshotIsLayer, SnapshotsNamed
  <1> QED BY <1>8, <1>9, <1>10, <1>11, <1>12 DEF Sound

(* A snapshot carries a number that no other one of its revision has.      *)
LEMMA FreezeSound ==
    ASSUME Sound, NEW d \in Doc, Freeze(d)
    PROVE  Sound'
  <1> DEFINE snapshot == [components |-> layers[d].components, at |-> revision]
             new == [revision |-> layers[d].revision, components |-> layers[d].components,
                     frozen |-> snapshot]
             entry == [doc |-> d, revision |-> layers[d].revision, snapshot |-> snapshot]
  <1>1. /\ layers \in [Doc -> DocLayers] /\ layers[d] \in DocLayers
        /\ revision \in 0..MaxRegistry /\ revision \in Nat /\ ~Frozen(d)
        /\ layers' = [layers EXCEPT ![d].frozen = snapshot]
        /\ UNCHANGED <<initial, latest, order, revision, update, saves>>
    BY RegistryAssumption DEF Freeze, Stamp, Sound, Types
  <1>2. snapshot \in Snapshots /\ new \in DocLayers /\ snapshot.at = revision
        /\ entry \in [doc : Doc, revision : Nat, snapshot : Snapshots]
    BY <1>1 DEF Snapshots, DocLayers
  <1>3. layers' = [layers EXCEPT ![d] = new]
    <2>1. layers' = [layers EXCEPT ![d] = [layers[d] EXCEPT !.frozen = snapshot]]
      <3> HIDE DEF snapshot
      <3> QED BY <1>1
    <2>2. [layers[d] EXCEPT !.frozen = snapshot] = new
      <3> HIDE DEF snapshot
      <3> QED BY <1>1 DEF DocLayers
    <2> HIDE DEF new, snapshot
    <2> QED BY <2>1, <2>2
  <1>4. /\ layers' \in [Doc -> DocLayers] /\ layers'[d] = new
        /\ \A e \in Doc : e # d => layers'[e] = layers[e]
    BY <1>1, <1>2, <1>3
  <1>5. issued' = issued \cup {entry}
    BY <1>1, <1>4 DEF Freeze
  <1>6. Frozen(d)' /\ \A e \in Doc : e # d => (Frozen(e)' <=> Frozen(e))
    <2>1. snapshot # None
      BY <1>1 DEF None
    <2> HIDE DEF snapshot
    <2> QED BY <1>4, <2>1 DEF Frozen
  <1>7. /\ entry.doc = d /\ entry.revision = layers[d].revision
        /\ entry.snapshot.at = revision /\ entry.snapshot = snapshot
        /\ new.frozen = snapshot /\ new.revision = layers[d].revision
        /\ new.components = layers[d].components /\ snapshot.components = layers[d].components
    OBVIOUS
  <1> HIDE DEF snapshot, new, entry
  <1>8. Types'
    BY <1>1, <1>2, <1>4, <1>5 DEF Sound, Types
  <1>9. Bounded'
    <2>1. ASSUME NEW e \in Doc
          PROVE  /\ layers'[e].revision =< latest'[e]
                 /\ Frozen(e)' => layers'[e].frozen.at \in 0..revision'
      BY <1>1, <1>2, <1>4, <1>6, <1>7 DEF Sound, Bounded
    <2> QED BY <1>1, <2>1 DEF Sound, Bounded, Taken
  <1>10. Ordered'
    BY <1>1, <1>4, <1>7 DEF Sound, Ordered, Taken
  <1>11. ASSUME NEW x \in issued, x.doc = d, x.revision = layers[d].revision
         PROVE  x.snapshot.at < revision
    BY <1>1, <1>11 DEF Sound, Stamped
  <1>12. Stamped'
    <2> SUFFICES ASSUME NEW x \in issued \cup {entry}
                 PROVE  /\ x.revision =< layers'[x.doc].revision
                        /\ x.revision = layers'[x.doc].revision =>
                              IF Frozen(x.doc)'
                              THEN \/ x.snapshot = layers'[x.doc].frozen
                                   \/ x.snapshot.at < layers'[x.doc].frozen.at
                              ELSE x.snapshot.at < revision'
      BY <1>5 DEF Stamped, Frozen
    <2>1. CASE x = entry
      BY <1>1, <1>4, <1>6, <1>7, <2>1 DEF DocLayers
    <2>2. CASE x \in issued /\ x.doc = d
      <3>1. x.revision =< layers[d].revision
        BY <2>2 DEF Sound, Stamped
      <3> QED BY <1>2, <1>4, <1>6, <1>7, <1>11, <2>2, <3>1
    <2>3. CASE x \in issued /\ x.doc # d
      <3>1. x.doc \in Doc
        BY <2>3 DEF Sound, Types
      <3> QED BY <1>1, <1>4, <1>6, <2>3, <3>1 DEF Sound, Stamped
    <2> QED BY <2>1, <2>2, <2>3
  <1>13. SnapshotIsLayer'
    BY <1>4, <1>6, <1>7 DEF Sound, SnapshotIsLayer
  <1>14. SnapshotsNamed'
    <2> SUFFICES ASSUME NEW a \in issued', NEW b \in issued', a.doc = b.doc,
                        a.revision = b.revision, a.snapshot.at = b.snapshot.at
                 PROVE  a.snapshot.components = b.snapshot.components
      BY DEF SnapshotsNamed
    <2>1. CASE a \in issued /\ b \in issued
      BY <2>1 DEF Sound, SnapshotsNamed
    <2>2. CASE a = entry /\ b = entry
      BY <2>2
    <2>3. CASE a \in issued /\ b = entry
      BY <1>1, <1>7, <1>11, <2>3
    <2>4. CASE a = entry /\ b \in issued
      BY <1>1, <1>7, <1>11, <2>4
    <2> QED BY <1>5, <2>1, <2>2, <2>3, <2>4
  <1> QED BY <1>8, <1>9, <1>10, <1>12, <1>13, <1>14 DEF Sound

LEMMA StepSound ==
    ASSUME Sound, [Next]_vars
    PROVE  Sound'
  <1>1. CASE \E d \in Doc, r \in 1..MaxDocRevision : BeginDocument(d, r)
    BY <1>1, BeginSound
  <1>2. CASE \E u \in Update, c \in Component :
                \/ BeginInitialUpdate(u, c)
                \/ \E d \in Doc, r \in 1..MaxDocRevision : BeginDocumentUpdate(u, c, d, r)
    BY <1>2, BeginUpdateSound
  <1>3. CASE \E u \in Update, l \in Local : Register(u, l) \/ Remove(u, l)
    BY <1>3, StageSound
  <1>4. CASE \E u \in Update : CommitUpdate(u) \/ DropUpdate(u)
    BY <1>4, CommitKeeps, KeepsSound, DropSound
  <1>5. CASE \E s \in Slot, d \in Doc : Savepoint(s, d)
    BY <1>5, SavepointSound
  <1>6. CASE \E s \in Slot, abort \in BOOLEAN : Restore(s, abort)
    <2>1. PICK s \in Slot, abort \in BOOLEAN : Restore(s, abort)
      BY <1>6
    <2>2. saves[s].doc \in Doc
      BY <2>1 DEF Restore, Sound, Types, Marks
    <2>3. PICK d \in Doc : saves[s].doc = d
      BY <2>2
    <2> QED BY <2>1, <2>3, RestoreSound
  <1>7. CASE \E d \in Doc : Freeze(d)
    BY <1>7, FreezeSound
  <1>8. CASE \E c \in Component : RemoveComponent(c)
    BY <1>8, RemoveKeeps, KeepsSound
  <1>9. CASE UNCHANGED vars
    BY <1>9, HandlesSound DEF vars, Sound, Types
  <1> QED BY <1>1, <1>2, <1>3, <1>4, <1>5, <1>6, <1>7, <1>8, <1>9 DEF Next

LEMMA AlwaysSound == Spec => []Sound
  <1>1. Init => Sound
    BY InitSound
  <1>2. Sound /\ [Next]_vars => Sound'
    BY StepSound
  <1> QED BY <1>1, <1>2, PTL DEF Spec

-----------------------------------------------------------------------------
(* Every variable of the registry keeps its type; no layer is ahead of the *)
(* latest revision of its document, and no snapshot or savepoint of the    *)
(* registry's (dynamic.rs:239).                                            *)
THEOREM TypeCorrect == Spec => []TypeOK
  <1>1. ASSUME Sound PROVE TypeOK
    <2>1. \A components \in Contents : IsLayer(components)
      BY <1>1, LayerItems DEF Sound, Types, Contents, DocLayers
    <2>2. \A d \in Doc : /\ layers[d].revision \in 0..latest[d]
                         /\ Frozen(d) => layers[d].frozen.at \in 0..revision
      BY <1>1, RegistryAssumption DEF Sound, Types, Bounded, DocLayers
    <2>3. \A u \in Update : update[u].state = "open" => update[u] \in Handles
      BY <1>1 DEF Sound, Types
    <2>4. ASSUME NEW s \in Slot, saves[s].state = "taken"
          PROVE  /\ IsLayer(saves[s].components)
                 /\ saves[s].at \in 0..revision
                 /\ saves[s].revision \in 1..latest[saves[s].doc]
      <3>1. saves[s] \in Marks /\ Taken(s)
        BY <1>1, <2>4 DEF Sound, Types, Taken
      <3>2. saves[s].at =< revision /\ saves[s].revision \in 1..latest[saves[s].doc]
        BY <1>1, <3>1 DEF Sound, Bounded
      <3> QED BY <1>1, <3>1, <3>2, LayerItems, RegistryAssumption DEF Marks, Sound, Types
    <2> QED BY <1>1, <2>1, <2>2, <2>3, <2>4 DEF TypeOK, Sound, Types, Handles, Op
  <1> QED BY <1>1, AlwaysSound, PTL

(* A frozen layer is its snapshot, whatever updates, rollbacks and         *)
(* unloadings were under way when it was frozen (freeze, dynamic.rs:475).  *)
THEOREM SnapshotCorrect == Spec => []SnapshotIsLayer
  <1>1. Sound => SnapshotIsLayer
    BY DEF Sound
  <1> QED BY <1>1, AlwaysSound, PTL

(* A document revision never has two snapshots of one number with          *)
(* different contents: what is frozen again after an abort has a newer     *)
(* number (abort_document_to, dynamic.rs:455).                             *)
THEOREM NamesCorrect == Spec => []SnapshotsNamed
  <1>1. Sound => SnapshotsNamed
    BY DEF Sound
  <1> QED BY <1>1, AlwaysSound, PTL

(* Two items of a layer never have one declaration order: numbers survive  *)
(* copies of the initial layer, rollbacks and replacements, but are never  *)
(* given twice (commit, dynamic.rs:703).                                   *)
THEOREM OrdersCorrect == Spec => []OrdersUnique
  <1>1. Sound => OrdersUnique
    BY DEF Sound, Ordered, Good, OrdersUnique, Contents
  <1> QED BY <1>1, AlwaysSound, PTL

(* No component exceeds its number of items in any layer, however many of  *)
(* its updates are open at once (commit, dynamic.rs:782).                  *)
THEOREM ItemsCorrect == Spec => []ItemsBounded
  <1>1. Sound => ItemsBounded
    BY DEF Sound, Ordered, Good, ItemsBounded, Contents
  <1> QED BY <1>1, AlwaysSound, PTL

HandlesStep ==
    \A u \in Update, d \in Doc :
        /\ update[u].state = "open" /\ update'[u].state = "done"
        /\ layers'[d].components # layers[d].components
        => /\ update[u].doc = d /\ update[u].revision = latest[d]
           /\ ~Frozen(d)

LEMMA StepHandles ==
    ASSUME Sound, [Next]_vars
    PROVE  HandlesStep
  <1>1. ASSUME NEW u \in Update, CommitUpdate(u) PROVE HandlesStep
    BY <1>1, CommitKeeps DEF HandlesStep
  <1>2. CASE UNCHANGED layers
    BY <1>2 DEF HandlesStep
  <1>3. CASE UNCHANGED update
    BY <1>3 DEF HandlesStep
  <1>4. \/ \E u \in Update : CommitUpdate(u)
        \/ UNCHANGED layers
        \/ UNCHANGED update
    BY DEF Next, vars, registry, BeginDocument, BeginInitialUpdate, BeginDocumentUpdate, Register,
           Remove, DropUpdate, Savepoint, Restore, Freeze, RemoveComponent
  <1> QED BY <1>1, <1>2, <1>3, <1>4

(* A handle taken for one revision of a document changes no other, and no  *)
(* frozen layer, however late it commits (commit, dynamic.rs:703).         *)
THEOREM HandlesCorrect == Spec => StaleHandlesHarmless
  <1>1. Sound /\ [Next]_vars => [HandlesStep]_vars
    BY StepHandles
  <1> QED BY <1>1, AlwaysSound, PTL DEF Spec, StaleHandlesHarmless, HandlesStep

=============================================================================
