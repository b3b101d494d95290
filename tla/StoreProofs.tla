----------------------------- MODULE StoreProofs ----------------------------
(***************************************************************************)
(* Proofs about StateStore, for every number of documents, parses, calls,  *)
(* savepoints, namespaces, keys and values, and that it implements         *)
(* SerialStore: the committed parses are serializable in commit order.     *)
(* Then about CandidateDeltas: the overlay number as a key of the memo,    *)
(* what selecting a node does, and what speculation leaves of the promises *)
(* of the store.                                                           *)
(***************************************************************************)
EXTENDS CandidateDeltas, TLAPS

-----------------------------------------------------------------------------
(* Facts about the data.                                                   *)

(* An overlay of well-typed contents is well typed.                        *)
LEMMA PatchType ==
    ASSUME NEW values \in [Key -> Value], NEW cells \in [Key -> Cell]
    PROVE  Patch(values, cells) \in [Key -> Value]
  BY DEF Patch, Cell

(* An overlay without entries changes nothing.                             *)
LEMMA PatchUntouched ==
    ASSUME NEW values \in [Key -> Value], NEW cells \in [Key -> Cell],
           ~Touches(cells)
    PROVE  Patch(values, cells) = values
  BY DEF Patch, Touches

(* Two overlays one after the other are one overlay, the second on top.    *)
LEMMA PatchTwice ==
    ASSUME NEW values \in [Key -> Value],
           NEW low \in [Key -> Cell], NEW high \in [Key -> Cell]
    PROVE  Patch(Patch(values, low), high) =
             Patch(values, [k \in Key |-> IF high[k] # Untouched THEN high[k] ELSE low[k]])
  BY DEF Patch

(* An untouched overlay touches nothing.                                   *)
LEMMA NoWritesTouch == \A rk \in RevKey : ~Touches(NoWrites[rk])
  BY DEF NoWrites, Touches

(* What a parse reads of committed contents is well typed.                 *)
LEMMA CommittedType ==
    ASSUME docs \in [Doc -> [Namespace -> [Key -> Value]]],
           shared \in [Global -> [Key -> Value]],
           NEW doc \in Doc, NEW rk \in RevKey
    PROVE  Committed(doc, rk) \in [Key -> Value]
  <1>1. Empty \in [Key -> Value]
    BY DEF Empty, Value
  <1>2. rk[2] \in Namespace
    BY DEF RevKey
  <1> QED BY <1>1, <1>2 DEF Committed, At

-----------------------------------------------------------------------------
(* Type correctness.                                                       *)

LEMMA NewFrameType == NewFrame \in Frame
  BY ValueAssumption DEF NewFrame, Frame, NoWrites, NoRevs, Cell, Rev, Unknown

LEMMA NewCallType ==
    ASSUME NEW s \in {"idle", "live", "merged", "dropped"}
    PROVE  NewCall(s) \in CallState
  BY ValueAssumption DEF NewCall, CallState, NoWrites, NoRevs, Cell, Rev, Unknown

LEMMA LearnType ==
    ASSUME rev \in [RevKey -> Nat], NEW f \in Frame, NEW rk \in RevKey
    PROVE  /\ Learn(f, rk) \in Frame
           /\ Learn(f, rk).current[rk] \in Rev
  BY DEF Learn, Frame, Rev, Unknown

LEMMA AbsorbType ==
    ASSUME NEW f \in Frame, NEW cs \in CallState, NEW n \in Nat
    PROVE  Absorb(f, cs, n) \in Frame
  <1> DEFINE base == [rk \in RevKey |->
                    IF f.base[rk] = Unknown THEN cs.observed[rk] ELSE f.base[rk]]
             known == [rk \in RevKey |->
                    IF f.current[rk] = Unknown THEN cs.observed[rk] ELSE f.current[rk]]
             touched == Touched(cs.writes)
             writes == [rk \in RevKey |-> [k \in Key |->
                        IF rk \in touched /\ cs.writes[rk][k] # Untouched
                        THEN cs.writes[rk][k] ELSE f.writes[rk][k]]]
             current == [rk \in RevKey |->
                        IF rk \notin touched THEN known[rk]
                        ELSE IF known[rk] = Unknown THEN 1 ELSE known[rk] + 1]
  <1>1. base \in [RevKey -> Rev] /\ known \in [RevKey -> Rev]
    BY DEF Frame, CallState
  <1>2. writes \in [RevKey -> [Key -> Cell]]
    BY DEF Frame, CallState
  <1>3. current \in [RevKey -> Rev]
    BY <1>1 DEF Rev, Unknown
  <1>4. f.saw \cup cs.saw \in SUBSET (RevKey \X Key \X Value)
    BY DEF Frame, CallState
  <1>5. (IF touched = {} THEN f.overlay ELSE n) \in Nat
    BY DEF Frame
  <1> HIDE DEF writes, base, current
  <1> QED BY <1>1, <1>2, <1>3, <1>4, <1>5 DEF Absorb, OverlayNumber, Frame, writes, base, current

(* What publishing an overlay leaves behind is well typed.                 *)
LEMMA PublishType ==
    ASSUME TypeOK, NEW p \in Parse, Publish(p)
    PROVE  /\ docs' \in [Doc -> [Namespace -> [Key -> Value]]]
           /\ shared' \in [Global -> [Key -> Value]]
           /\ rev' \in [RevKey -> Nat]
  <1> DEFINE w == frame[p].writes
  <1>1. w \in [RevKey -> [Key -> Cell]] /\ p.doc \in Doc
    BY ParseAssumption DEF TypeOK, Frame
  <1>2. docs' \in [Doc -> [Namespace -> [Key -> Value]]]
    <2>1. CASE "document" \notin Scope
      BY <2>1 DEF Publish, PatchDocument, TypeOK
    <2>2. CASE "document" \in Scope
      <3>1. \A n \in Namespace : w[<<"document", n>>] \in [Key -> Cell]
        BY <1>1, <2>2 DEF RevKey
      <3>2. \A n \in Namespace : docs[p.doc][n] \in [Key -> Value]
        BY <1>1 DEF TypeOK
      <3>3. \A n \in Namespace :
               Patch(docs[p.doc][n], w[<<"document", n>>]) \in [Key -> Value]
        BY <3>1, <3>2, PatchType
      <3> QED BY <1>1, <2>2, <3>3 DEF Publish, PatchDocument, TypeOK
    <2> QED BY <2>1, <2>2
  <1>3. shared' \in [Global -> [Key -> Value]]
    <2>1. \A rk \in Global : Patch(shared[rk], w[rk]) \in [Key -> Value]
      <3> SUFFICES ASSUME NEW rk \in Global
                   PROVE  Patch(shared[rk], w[rk]) \in [Key -> Value]
        OBVIOUS
      <3>1. shared[rk] \in [Key -> Value]
        BY DEF TypeOK
      <3>2. w[rk] \in [Key -> Cell]
        BY <1>1 DEF Global, RevKey
      <3> QED BY <3>1, <3>2, PatchType
    <2> QED BY <2>1 DEF Publish, PatchGlobal
  <1>4. rev' \in [RevKey -> Nat]
    BY DEF Publish, TypeOK
  <1> QED BY <1>2, <1>3, <1>4

(* A call that touches a namespace stays well typed.                       *)
LEMMA ObserveType ==
    ASSUME NEW cs \in CallState, NEW rk \in RevKey, NEW r \in Rev
    PROVE  Observe(cs, rk, r) \in CallState
  BY DEF Observe, CallState

LEMMA VisibleType ==
    ASSUME TypeOK, NEW c \in Call, NEW rk \in RevKey
    PROVE  Visible(c, rk) \in [Key -> Value]
  <1>1. c.parse \in Parse /\ c.parse.doc \in Doc
    BY CallAssumption, ParseAssumption
  <1>2. Committed(c.parse.doc, rk) \in [Key -> Value]
    BY <1>1, CommittedType DEF TypeOK
  <1>3. frame[c.parse].writes[rk] \in [Key -> Cell]
    BY <1>1 DEF TypeOK, Frame
  <1>4. call[c].writes[rk] \in [Key -> Cell]
    BY DEF TypeOK, CallState
  <1> QED BY <1>2, <1>3, <1>4, PatchType DEF Visible

LEMMA ReadType ==
    ASSUME TypeOK, NEW c \in Call, NEW rk \in RevKey, NEW keys \in SUBSET Key,
           Read(c, rk, keys)
    PROVE  TypeOK'
  <1> DEFINE f == Learn(frame[c.parse], rk)
             o == Observe(call[c], rk, f.current[rk])
             made == {<<rk, k, Committed(c.parse.doc, rk)[k]>> : k \in keys}
  <1>1. c.parse \in Parse /\ c.parse.doc \in Doc
    BY CallAssumption, ParseAssumption
  <1>2. f \in Frame /\ f.current[rk] \in Rev
    BY <1>1, LearnType DEF TypeOK
  <1>3. o \in CallState
    BY <1>2, ObserveType DEF TypeOK
  <1>4. made \in SUBSET (RevKey \X Key \X Value)
    BY <1>1, CommittedType DEF TypeOK
  <1> HIDE DEF f, o, made
  <1>5. [o EXCEPT !.saw = @ \cup made] \in CallState
    BY <1>3, <1>4 DEF CallState
  <1>6. frame' = [frame EXCEPT ![c.parse] = f]
    BY DEF Read, f
  <1>7. call' = [call EXCEPT ![c] = [o EXCEPT !.saw = @ \cup made]]
    BY DEF Read, f, o, made
  <1> QED BY <1>1, <1>2, <1>5, <1>6, <1>7 DEF Read, TypeOK, store

LEMMA WriteType ==
    ASSUME TypeOK, NEW c \in Call, NEW rk \in RevKey, NEW k \in Key,
           NEW value \in Value, Write(c, rk, k, value)
    PROVE  TypeOK'
  <1> DEFINE f == Learn(frame[c.parse], rk)
             o == Observe(call[c], rk, f.current[rk])
  <1>1. c.parse \in Parse
    BY CallAssumption
  <1>2. f \in Frame /\ f.current[rk] \in Rev
    BY <1>1, LearnType DEF TypeOK
  <1>3. o \in CallState
    BY <1>2, ObserveType DEF TypeOK
  <1> HIDE DEF f, o
  <1>4. [o EXCEPT !.writes[rk][k] = value] \in CallState
    BY <1>3 DEF CallState, Cell
  <1>5. frame' = [frame EXCEPT ![c.parse] = f]
    BY DEF Write, f
  <1>6. \/ call' = call
        \/ call' = [call EXCEPT ![c] = [o EXCEPT !.writes[rk][k] = value]]
    BY DEF Write, f, o
  <1> QED BY <1>1, <1>2, <1>4, <1>5, <1>6 DEF Write, TypeOK, store

LEMMA MergeType ==
    ASSUME TypeOK, NEW c \in Call, Merge(c)
    PROVE  TypeOK'
  <1>1. c.parse \in Parse
    BY CallAssumption
  <1>2. Absorb(frame[c.parse], call[c], mint[c.parse]) \in Frame
    BY <1>1, AbsorbType DEF TypeOK
  <1>3. frame' = [frame EXCEPT ![c.parse] =
                     Absorb(frame[c.parse], call[c], mint[c.parse])]
    BY DEF Merge
  <1>4. NewCall("merged") \in CallState
    BY NewCallType
  <1>5. mint' \in [Parse -> Nat]
    BY <1>1 DEF Merge, TypeOK
  <1> QED BY <1>1, <1>2, <1>3, <1>4, <1>5 DEF Merge, TypeOK, store

(* Which steps change what.                                                *)

(* A component call never touches the store or the life of a parse.        *)
LEMMA CallStepKeeps ==
    ASSUME NEW c \in Call, CallStep(c)
    PROVE  UNCHANGED <<docs, shared, rev, latest, status>>
  <1>1. ASSUME Invoke(c) PROVE UNCHANGED <<docs, shared, rev, latest, status>>
    BY <1>1 DEF Invoke, store
  <1>2. ASSUME NEW rk \in RevKey, NEW keys, Read(c, rk, keys)
        PROVE  UNCHANGED <<docs, shared, rev, latest, status>>
    BY <1>2 DEF Read, store
  <1>3. ASSUME NEW rk \in RevKey, NEW k \in Key, NEW v \in Value, Write(c, rk, k, v)
        PROVE  UNCHANGED <<docs, shared, rev, latest, status>>
    BY <1>3 DEF Write, store
  <1>4. ASSUME Merge(c) PROVE UNCHANGED <<docs, shared, rev, latest, status>>
    BY <1>4 DEF Merge, store
  <1>5. ASSUME Discard(c) PROVE UNCHANGED <<docs, shared, rev, latest, status>>
    BY <1>5 DEF Discard, store
  <1> QED BY <1>1, <1>2, <1>3, <1>4, <1>5 DEF CallStep, Get, ScanPrefix

(* Nor does a savepoint, or going back to one.                             *)
LEMMA SlotStepKeeps ==
    ASSUME NEW s \in Slot, Savepoint(s) \/ RollbackTo(s)
    PROVE  UNCHANGED <<docs, shared, rev, latest, status>>
  <1>1. CASE Savepoint(s)
    BY <1>1 DEF Savepoint, store
  <1>2. CASE RollbackTo(s)
    BY <1>2 DEF RollbackTo, store
  <1> QED BY <1>1, <1>2

(* Parses begin, commit and are cancelled by steps of their own.           *)
LEMMA LifeChanges ==
    ASSUME [Next]_vars, ~\E p \in Parse : Begin(p) \/ Commit(p) \/ Cancel(p)
    PROVE  UNCHANGED <<docs, shared, rev, latest, status>>
  <1>1. CASE UNCHANGED vars
    BY <1>1 DEF vars
  <1>2. CASE \E s \in Slot : Savepoint(s) \/ RollbackTo(s)
    BY <1>2, SlotStepKeeps
  <1>3. CASE \E c \in Call : CallStep(c)
    BY <1>3, CallStepKeeps
  <1> QED BY <1>1, <1>2, <1>3 DEF Next

(* Only a commit changes what is committed.                                *)
LEMMA StoreChanges ==
    ASSUME [Next]_vars, ~\E p \in Parse : Commit(p)
    PROVE  UNCHANGED <<docs, shared, rev>>
  <1>1. ASSUME NEW p \in Parse, Begin(p) PROVE UNCHANGED <<docs, shared, rev>>
    BY <1>1 DEF Begin
  <1>2. ASSUME NEW p \in Parse, Cancel(p) PROVE UNCHANGED <<docs, shared, rev>>
    BY <1>2 DEF Cancel, store
  <1> QED BY <1>1, <1>2, LifeChanges

LEMMA TypeStep == TypeOK /\ [Next]_vars => TypeOK'
  <1> SUFFICES ASSUME TypeOK, [Next]_vars
               PROVE  TypeOK'
    OBVIOUS
  <1>1. ASSUME NEW p \in Parse, Begin(p) PROVE TypeOK'
    <2>1. p.doc \in Doc /\ p.revision \in Nat
      BY ParseAssumption
    <2> QED BY <1>1, <2>1 DEF Begin, TypeOK, Status
  <1>2. ASSUME NEW p \in Parse, Commit(p) PROVE TypeOK'
    <2>1. /\ docs' \in [Doc -> [Namespace -> [Key -> Value]]]
          /\ shared' \in [Global -> [Key -> Value]]
          /\ rev' \in [RevKey -> Nat]
      BY <1>2, PublishType DEF Commit
    <2> QED BY <1>2, <2>1 DEF Commit, TypeOK, Status
  <1>3. ASSUME NEW p \in Parse, Cancel(p) PROVE TypeOK'
    <2>1. NoWrites \in [RevKey -> [Key -> Cell]]
      BY NewFrameType DEF NewFrame, Frame
    <2>2. [frame[p] EXCEPT !.writes = NoWrites] \in Frame
      <3>1. frame[p] \in Frame
        BY DEF TypeOK
      <3> QED BY <2>1, <3>1 DEF Frame
    <2>3. frame' \in [Parse -> Frame]
      BY <1>3, <2>2 DEF Cancel, TypeOK
    <2>4. status' \in [Parse -> Status]
      BY <1>3 DEF Cancel, TypeOK, Status
    <2> QED BY <1>3, <2>3, <2>4 DEF Cancel, TypeOK, store
  <1>4. ASSUME NEW s \in Slot, Savepoint(s) PROVE TypeOK'
    <2>1. s.parse \in Parse
      BY SlotAssumption
    <2> QED BY <1>4, <2>1 DEF Savepoint, TypeOK, store
  <1>5. ASSUME NEW s \in Slot, RollbackTo(s) PROVE TypeOK'
    <2>1. s.parse \in Parse
      BY SlotAssumption
    <2> QED BY <1>5, <2>1 DEF RollbackTo, TypeOK, store
  <1>6. ASSUME NEW c \in Call, Invoke(c) PROVE TypeOK'
    BY <1>6, NewCallType DEF Invoke, TypeOK, store
  <1>7. ASSUME NEW c \in Call, NEW rk \in RevKey, NEW k \in Key, Get(c, rk, k)
        PROVE  TypeOK'
    BY <1>7, ReadType DEF Get
  <1>8. ASSUME NEW c \in Call, NEW rk \in RevKey, ScanPrefix(c, rk)
        PROVE  TypeOK'
    BY <1>8, ReadType DEF ScanPrefix
  <1>9. ASSUME NEW c \in Call, NEW rk \in RevKey, NEW k \in Key,
               NEW v \in Value, Write(c, rk, k, v)
        PROVE  TypeOK'
    BY <1>9, WriteType
  <1>10. ASSUME NEW c \in Call, Merge(c) PROVE TypeOK'
    BY <1>10, MergeType
  <1>11. ASSUME NEW c \in Call, Discard(c) PROVE TypeOK'
    BY <1>11, NewCallType DEF Discard, TypeOK, store
  <1>12. CASE UNCHANGED vars
    BY <1>12 DEF vars, TypeOK
  <1> QED BY <1>1, <1>2, <1>3, <1>4, <1>5, <1>6, <1>7, <1>8, <1>9, <1>10,
            <1>11, <1>12 DEF Next, CallStep

LEMMA TypeInit == Init => TypeOK
  <1> SUFFICES ASSUME Init PROVE TypeOK
    OBVIOUS
  <1>1. Empty \in [Key -> Value]
    BY DEF Empty, Value
  <1> QED BY <1>1, NewFrameType, NewCallType DEF Init, TypeOK, Status

(* Every state of the store is well typed: what the store publishes is a   *)
(* value or nothing, never the mark of an absent overlay entry.            *)
THEOREM TypeCorrect == Spec => []TypeOK
  <1>1. Init => TypeOK
    BY TypeInit
  <1>2. TypeOK /\ [Next]_vars => TypeOK'
    BY TypeStep
  <1> QED BY <1>1, <1>2, PTL DEF Spec

-----------------------------------------------------------------------------
(* The inductive invariant.                                                *)

(* While the store stands still, a sound frame stays sound.                *)
LEMMA FrameKept ==
    ASSUME NEW doc \in Doc, NEW f \in Frame,
           FrameSound(doc, f), UNCHANGED <<docs, shared, rev>>
    PROVE  FrameSound(doc, f)'
  BY DEF FrameSound, BaseKnown, ReadsSound, WritesSound, Committed

(* Nobody can invalidate a call by extending the dependencies of its parse.*)
LEMMA CallKept ==
    ASSUME TypeOK, NEW c \in Call, CallSound(c),
           call'[c] = call[c], UNCHANGED <<docs, shared, rev>>,
           \A rk \in RevKey : frame[c.parse].base[rk] # Unknown =>
               frame'[c.parse].base[rk] = frame[c.parse].base[rk]
    PROVE  CallSound(c)'
  <1>1. \A r \in call[c].saw : r[1] \in RevKey
    BY DEF TypeOK, CallState
  <1> QED BY <1>1 DEF CallSound, ReadsSound, Committed

(* Learning a revision makes a sound frame depend on one more namespace.   *)
LEMMA LearnSound ==
    ASSUME TypeOK, NEW doc \in Doc, NEW f \in Frame, FrameSound(doc, f),
           NEW rk \in RevKey
    PROVE  LET g == Learn(f, rk) IN
           /\ FrameSound(doc, g)
           /\ g.base[rk] # Unknown /\ g.current[rk] # Unknown
           /\ \A x \in RevKey : f.base[x] # Unknown => g.base[x] = f.base[x]
  <1> DEFINE g == Learn(f, rk)
  <1>1. CASE f.current[rk] # Unknown
    BY <1>1 DEF Learn, FrameSound, BaseKnown
  <1>2. CASE f.current[rk] = Unknown
    <2>1. /\ g.base = [f.base EXCEPT ![rk] = rev[rk]]
          /\ g.current = [f.current EXCEPT ![rk] = rev[rk]]
          /\ g.writes = f.writes
          /\ g.saw = f.saw
      BY <1>2 DEF Learn, Frame
    <2>2. rev[rk] \in Nat /\ rev[rk] # Unknown
      BY DEF TypeOK, Unknown
    <2>3. f.base[rk] = Unknown
      BY <1>2 DEF FrameSound, BaseKnown
    <2>4. f.base \in [RevKey -> Rev] /\ f.current \in [RevKey -> Rev]
      BY DEF Frame
    <2> HIDE DEF g
    <2>5. \A x \in RevKey : f.base[x] # Unknown => g.base[x] = f.base[x]
      BY <2>1, <2>3, <2>4
    <2>6. BaseKnown(g)
      BY <2>1, <2>2, <2>4 DEF FrameSound, BaseKnown
    <2>7. ReadsSound(doc, g.base, g.saw)
      <3>1. \A r \in f.saw : r[1] \in RevKey
        BY DEF Frame
      <3> QED BY <2>1, <2>5, <3>1 DEF FrameSound, ReadsSound
    <2>8. WritesSound(doc, g)
      BY <2>1, <2>5 DEF FrameSound, WritesSound
    <2>9. g.base[rk] # Unknown /\ g.current[rk] # Unknown
      BY <2>1, <2>2, <2>4
    <2> QED BY <2>5, <2>6, <2>7, <2>8, <2>9 DEF FrameSound, g
  <1> QED BY <1>1, <1>2

(* Accepting a call into a sound frame: its dependencies are already       *)
(* dependencies of the parse, and the merged overlay is the one whose      *)
(* quota was checked.                                                      *)
LEMMA AbsorbSound ==
    ASSUME TypeOK, NEW c \in Call, CallSound(c),
           FrameSound(c.parse.doc, frame[c.parse]),
           WithinQuota(c.parse, call[c].writes), NEW n \in Nat
    PROVE  LET g == Absorb(frame[c.parse], call[c], n) IN
           /\ FrameSound(c.parse.doc, g)
           /\ g.base = frame[c.parse].base
  <1> DEFINE doc == c.parse.doc
             f == frame[c.parse]
             cs == call[c]
             g == Absorb(f, cs, n)
             known == [rk \in RevKey |->
                    IF f.current[rk] = Unknown THEN cs.observed[rk] ELSE f.current[rk]]
  <1>1. c.parse \in Parse /\ doc \in Doc
    BY CallAssumption, ParseAssumption
  <1>2. f \in Frame /\ cs \in CallState
    BY <1>1 DEF TypeOK
  <1>3. /\ f.base \in [RevKey -> Rev] /\ f.current \in [RevKey -> Rev]
        /\ f.writes \in [RevKey -> [Key -> Cell]]
        /\ cs.writes \in [RevKey -> [Key -> Cell]]
        /\ cs.observed \in [RevKey -> Rev]
    BY <1>2 DEF Frame, CallState
  <1>4. /\ g.saw = f.saw \cup cs.saw
        /\ g.base = [rk \in RevKey |->
                       IF f.base[rk] = Unknown THEN cs.observed[rk] ELSE f.base[rk]]
        /\ g.writes = [rk \in RevKey |-> [k \in Key |->
                        IF rk \in Touched(cs.writes) /\ cs.writes[rk][k] # Untouched
                        THEN cs.writes[rk][k] ELSE f.writes[rk][k]]]
        /\ g.current = [rk \in RevKey |->
                        IF rk \notin Touched(cs.writes) THEN known[rk]
                        ELSE IF known[rk] = Unknown THEN 1 ELSE known[rk] + 1]
    BY DEF Absorb
  <1>5. \A rk \in RevKey :
           /\ Touches(cs.writes[rk]) => cs.observed[rk] # Unknown
           /\ cs.observed[rk] # Unknown => f.base[rk] # Unknown
    BY DEF CallSound
  <1>6. BaseKnown(f) /\ ReadsSound(doc, f.base, f.saw) /\ WritesSound(doc, f)
        /\ ReadsSound(doc, f.base, cs.saw)
    BY DEF FrameSound, CallSound
  <1> HIDE DEF doc, f, cs, g
  <1>7. g.base = f.base
    BY <1>3, <1>4, <1>5
  <1>8. BaseKnown(g)
    <2> SUFFICES ASSUME NEW rk \in RevKey
                 PROVE  /\ g.base[rk] = Unknown <=> g.current[rk] = Unknown
                        /\ g.base[rk] # Unknown => g.base[rk] <= rev[rk]
      BY DEF BaseKnown
    <2>1. /\ f.base[rk] = Unknown <=> f.current[rk] = Unknown
          /\ f.base[rk] # Unknown => f.base[rk] <= rev[rk]
      BY <1>6 DEF BaseKnown
    <2>2. known[rk] = f.current[rk]
      BY <1>5, <2>1
    <2>3. rk \in Touched(cs.writes) => f.base[rk] # Unknown
      BY <1>5 DEF Touched
    <2>4. f.current[rk] \in Nat \cup {-1}
      BY <1>3 DEF Rev, Unknown
    <2>5. f.current[rk] # Unknown => f.current[rk] + 1 # Unknown
      BY <2>4 DEF Unknown
    <2> QED BY <1>4, <1>7, <2>1, <2>2, <2>3, <2>5
  <1>9. ReadsSound(doc, g.base, g.saw)
    BY <1>4, <1>6, <1>7 DEF ReadsSound
  <1>10. WritesSound(doc, g)
    <2> SUFFICES ASSUME NEW rk \in RevKey, Touches(g.writes[rk])
                 PROVE  /\ g.base[rk] # Unknown
                        /\ g.base[rk] = rev[rk] =>
                              Fits(Patch(Committed(doc, rk), g.writes[rk]))
      BY DEF WritesSound
    <2>1. CASE rk \in Touched(cs.writes)
      <3>1. f.base[rk] # Unknown
        BY <1>5, <2>1 DEF Touched
      <3>2. Fits(Patch(Patch(Committed(doc, rk), f.writes[rk]), cs.writes[rk]))
        BY <2>1 DEF WithinQuota, doc, f, cs
      <3>3. Committed(doc, rk) \in [Key -> Value]
        BY <1>1, CommittedType DEF TypeOK
      <3>4. g.writes[rk] = [k \in Key |-> IF cs.writes[rk][k] # Untouched
                              THEN cs.writes[rk][k] ELSE f.writes[rk][k]]
        BY <1>4, <2>1
      <3>5. f.writes[rk] \in [Key -> Cell] /\ cs.writes[rk] \in [Key -> Cell]
        BY <1>3
      <3>6. Patch(Patch(Committed(doc, rk), f.writes[rk]), cs.writes[rk]) =
              Patch(Committed(doc, rk), g.writes[rk])
        BY <3>3, <3>4, <3>5, PatchTwice
      <3> QED BY <1>7, <3>1, <3>2, <3>6
    <2>2. CASE rk \notin Touched(cs.writes)
      <3>1. g.writes[rk] = f.writes[rk]
        BY <1>3, <1>4, <2>2
      <3> QED BY <1>6, <1>7, <3>1 DEF WritesSound
    <2> QED BY <2>1, <2>2
  <1> QED BY <1>7, <1>8, <1>9, <1>10 DEF FrameSound, doc, f, cs, g

(* A commit leaves a namespace alone, contents and revision, or advances   *)
(* its revision.                                                           *)
LEMMA PublishMoves ==
    ASSUME TypeOK, NEW p \in Parse, Publish(p), NEW rk \in RevKey
    PROVE  \/ rev'[rk] = rev[rk] + 1
           \/ /\ rev'[rk] = rev[rk]
              /\ \A d \in Doc : Committed(d, rk)' = Committed(d, rk)
  <1> DEFINE w == frame[p].writes
  <1>1. w \in [RevKey -> [Key -> Cell]] /\ p.doc \in Doc
    BY ParseAssumption DEF TypeOK, Frame
  <1>2. CASE rk[1] \in Durable /\ Touches(w[rk])
    BY <1>2 DEF Publish
  <1>3. CASE ~(rk[1] \in Durable /\ Touches(w[rk]))
    <2>1. rev'[rk] = rev[rk]
      BY <1>3 DEF Publish
    <2> SUFFICES ASSUME NEW d \in Doc
                 PROVE  Committed(d, rk)' = Committed(d, rk)
      BY <2>1
    <2>2. CASE rk[1] = "document"
      <3> DEFINE n == rk[2]
      <3>1. rk = <<"document", n>> /\ n \in Namespace /\ "document" \in Scope
        BY <2>2 DEF RevKey
      <3>2. Patch(docs[p.doc][n], w[<<"document", n>>]) = docs[p.doc][n]
        <4>1. docs[p.doc][n] \in [Key -> Value]
          BY <1>1, <3>1 DEF TypeOK
        <4>2. w[<<"document", n>>] \in [Key -> Cell]
              /\ ~Touches(w[<<"document", n>>])
          BY <1>1, <1>3, <2>2, <3>1 DEF Durable
        <4> QED BY <4>1, <4>2, PatchUntouched
      <3>3. docs'[d][n] = docs[d][n]
        BY <1>1, <3>1, <3>2 DEF Publish, PatchDocument, TypeOK
      <3> QED BY <2>2, <3>3 DEF Committed, At
    <2>3. CASE rk[1] # "document" /\ rk \in Global
      <3>1. shared[rk] \in [Key -> Value] /\ w[rk] \in [Key -> Cell]
        BY <1>1, <2>3 DEF TypeOK
      <3>2. ~Touches(w[rk])
        BY <1>3, <2>3 DEF Global, Durable
      <3>3. shared'[rk] = shared[rk]
        BY <2>3, <3>1, <3>2, PatchUntouched DEF Publish, PatchGlobal
      <3> QED BY <2>3, <3>3 DEF Committed, At
    <2>4. CASE rk[1] # "document" /\ rk \notin Global
      BY <2>4 DEF Committed, At
    <2> QED BY <2>2, <2>3, <2>4
  <1> QED BY <1>2, <1>3

(* So what was derived from a namespace is still true, or is known stale.  *)
LEMMA PublishSound ==
    ASSUME TypeOK, NEW p \in Parse, Publish(p)
    PROVE  /\ \A doc \in Doc, f \in Frame : FrameSound(doc, f) => FrameSound(doc, f)'
           /\ \A doc \in Doc, f \in Frame, saw \in SUBSET (RevKey \X Key \X Value) :
                 BaseKnown(f) /\ ReadsSound(doc, f.base, saw)
                     => ReadsSound(doc, f.base, saw)'
  <1>1. ASSUME NEW f \in Frame, BaseKnown(f), NEW rk \in RevKey,
               f.base[rk] # Unknown, NEW doc \in Doc
        PROVE  /\ f.base[rk] <= rev'[rk]
               /\ f.base[rk] = rev'[rk] =>
                     /\ f.base[rk] = rev[rk]
                     /\ Committed(doc, rk)' = Committed(doc, rk)
    <2>1. rev[rk] \in Nat /\ f.base[rk] \in Nat /\ f.base[rk] <= rev[rk]
      BY <1>1 DEF TypeOK, Frame, Rev, BaseKnown
    <2> QED BY <2>1, PublishMoves
  <1>2. ASSUME NEW doc \in Doc, NEW f \in Frame,
               NEW saw \in SUBSET (RevKey \X Key \X Value),
               BaseKnown(f), ReadsSound(doc, f.base, saw)
        PROVE  ReadsSound(doc, f.base, saw)'
    <2> SUFFICES ASSUME NEW r \in saw
                 PROVE  /\ f.base[r[1]] # Unknown
                        /\ f.base[r[1]] = rev'[r[1]] =>
                              Committed(doc, r[1])'[r[2]] = r[3]
      BY DEF ReadsSound
    <2>1. r[1] \in RevKey
      OBVIOUS
    <2>2. /\ f.base[r[1]] # Unknown
          /\ f.base[r[1]] = rev[r[1]] => Committed(doc, r[1])[r[2]] = r[3]
      BY <1>2 DEF ReadsSound
    <2> QED BY <1>1, <1>2, <2>1, <2>2
  <1>3. ASSUME NEW doc \in Doc, NEW f \in Frame, FrameSound(doc, f)
        PROVE  FrameSound(doc, f)'
    <2>1. BaseKnown(f) /\ ReadsSound(doc, f.base, f.saw) /\ WritesSound(doc, f)
      BY <1>3 DEF FrameSound
    <2>2. BaseKnown(f)'
      BY <1>1, <2>1 DEF BaseKnown
    <2>3. ReadsSound(doc, f.base, f.saw)'
      BY <1>2, <2>1 DEF Frame
    <2>4. WritesSound(doc, f)'
      <3> SUFFICES ASSUME NEW rk \in RevKey, Touches(f.writes[rk])
                   PROVE  /\ f.base[rk] # Unknown
                          /\ f.base[rk] = rev'[rk] =>
                                Fits(Patch(Committed(doc, rk)', f.writes[rk]))
        BY DEF WritesSound
      <3>1. /\ f.base[rk] # Unknown
            /\ f.base[rk] = rev[rk] => Fits(Patch(Committed(doc, rk), f.writes[rk]))
        BY <2>1 DEF WritesSound
      <3> QED BY <1>1, <2>1, <3>1
    <2> QED BY <2>2, <2>3, <2>4 DEF FrameSound
  <1> QED BY <1>2, <1>3

-----------------------------------------------------------------------------
(* The invariant, action by action.                                        *)

LEMMA ReadSound ==
    ASSUME TypeOK, DependenciesSound, NEW c \in Call, NEW rk \in RevKey,
           NEW keys \in SUBSET Key, Read(c, rk, keys)
    PROVE  DependenciesSound'
  <1> DEFINE doc == c.parse.doc
             f == Learn(frame[c.parse], rk)
             made == {<<rk, k, Committed(doc, rk)[k]>> : k \in keys}
  <1>1. c.parse \in Parse /\ doc \in Doc /\ frame[c.parse] \in Frame
    BY CallAssumption, ParseAssumption DEF TypeOK
  <1>2. /\ FrameSound(doc, f) /\ f \in Frame
        /\ f.base[rk] # Unknown /\ f.current[rk] # Unknown
        /\ \A x \in RevKey :
              frame[c.parse].base[x] # Unknown => f.base[x] = frame[c.parse].base[x]
    BY <1>1, LearnSound, LearnType DEF DependenciesSound, TypeOK
  <1>3. frame' = [frame EXCEPT ![c.parse] = f] /\ UNCHANGED <<docs, shared, rev, saves>>
    BY DEF Read, store
  <1>4. /\ \A e \in Call \ {c} : call'[e] = call[e]
        /\ call[c].state = "live"
        /\ call'[c].writes = call[c].writes
        /\ call'[c].observed = [call[c].observed EXCEPT ![rk] = f.current[rk]]
        /\ call'[c].saw = call[c].saw \cup made
    BY DEF Read, Live, Observe, TypeOK, CallState
  <1> HIDE DEF f
  <1>5. \A p \in Parse : FrameSound(p.doc, frame[p])'
    BY <1>1, <1>2, <1>3, FrameKept, ParseAssumption DEF DependenciesSound, TypeOK
  <1>6. \A s \in Slot : FrameSound(s.parse.doc, saves[s])'
    BY <1>3, FrameKept, ParseAssumption, SlotAssumption DEF DependenciesSound, TypeOK
  <1>7. \A e \in Call \ {c} : call'[e].state = "live" => CallSound(e)'
    BY <1>1, <1>2, <1>3, <1>4, CallKept, CallAssumption DEF DependenciesSound, TypeOK
  <1>8. CallSound(c)'
    <2>1. CallSound(c)
      BY <1>4 DEF DependenciesSound
    <2>2. frame'[c.parse] = f
      BY <1>1, <1>3 DEF TypeOK
    <2>3. ASSUME NEW x \in RevKey
          PROVE  /\ Touches(call'[c].writes[x]) => call'[c].observed[x] # Unknown
                 /\ call'[c].observed[x] # Unknown => f.base[x] # Unknown
      BY <1>2, <1>4, <2>1 DEF CallSound, TypeOK, CallState
    <2>4. ASSUME NEW r \in call'[c].saw
          PROVE  /\ f.base[r[1]] # Unknown
                 /\ f.base[r[1]] = rev[r[1]] => Committed(doc, r[1])[r[2]] = r[3]
      <3>1. CASE r \in made
        BY <1>2, <3>1
      <3>2. CASE r \in call[c].saw
        <4>1. r[1] \in RevKey
          BY <3>2 DEF TypeOK, CallState
        <4> QED BY <1>2, <2>1, <3>2, <4>1 DEF CallSound, ReadsSound
      <3> QED BY <1>4, <2>4, <3>1, <3>2
    <2> QED BY <1>3, <2>2, <2>3, <2>4 DEF CallSound, ReadsSound, Committed
  <1> QED BY <1>5, <1>6, <1>7, <1>8 DEF DependenciesSound

LEMMA WriteSound ==
    ASSUME TypeOK, DependenciesSound, NEW c \in Call, NEW rk \in RevKey,
           NEW k \in Key, NEW value \in Value, Write(c, rk, k, value)
    PROVE  DependenciesSound'
  <1> DEFINE doc == c.parse.doc
             f == Learn(frame[c.parse], rk)
  <1>1. c.parse \in Parse /\ doc \in Doc /\ frame[c.parse] \in Frame
    BY CallAssumption, ParseAssumption DEF TypeOK
  <1>2. /\ FrameSound(doc, f) /\ f \in Frame
        /\ f.base[rk] # Unknown /\ f.current[rk] # Unknown
        /\ \A x \in RevKey :
              frame[c.parse].base[x] # Unknown => f.base[x] = frame[c.parse].base[x]
    BY <1>1, LearnSound, LearnType DEF DependenciesSound, TypeOK
  <1>3. frame' = [frame EXCEPT ![c.parse] = f] /\ UNCHANGED <<docs, shared, rev, saves>>
    BY DEF Write, store
  <1>4. \A e \in Call \ {c} : call'[e] = call[e]
    BY DEF Write, TypeOK
  <1>5. \/ call'[c] = call[c]
        \/ /\ call'[c].writes = [call[c].writes EXCEPT ![rk][k] = value]
           /\ call'[c].observed = [call[c].observed EXCEPT ![rk] = f.current[rk]]
           /\ call'[c].saw = call[c].saw
    BY DEF Write, Observe, TypeOK, CallState
  <1>6. call[c].state = "live"
    BY DEF Write, Live
  <1> HIDE DEF f
  <1>7. \A p \in Parse : FrameSound(p.doc, frame[p])'
    BY <1>1, <1>2, <1>3, FrameKept, ParseAssumption DEF DependenciesSound, TypeOK
  <1>8. \A s \in Slot : FrameSound(s.parse.doc, saves[s])'
    BY <1>3, FrameKept, ParseAssumption, SlotAssumption DEF DependenciesSound, TypeOK
  <1>9. \A e \in Call \ {c} : call'[e].state = "live" => CallSound(e)'
    BY <1>1, <1>2, <1>3, <1>4, CallKept, CallAssumption DEF DependenciesSound, TypeOK
  <1>10. CallSound(c)'
    <2>1. CallSound(c)
      BY <1>6 DEF DependenciesSound
    <2>2. frame'[c.parse] = f
      BY <1>1, <1>3 DEF TypeOK
    <2>3. CASE call'[c] = call[c]
      BY <1>1, <1>2, <1>3, <2>1, <2>2, <2>3, CallKept
    <2>4. CASE /\ call'[c].writes = [call[c].writes EXCEPT ![rk][k] = value]
               /\ call'[c].observed = [call[c].observed EXCEPT ![rk] = f.current[rk]]
               /\ call'[c].saw = call[c].saw
      <3>1. ASSUME NEW x \in RevKey
            PROVE  /\ Touches(call'[c].writes[x]) => call'[c].observed[x] # Unknown
                   /\ call'[c].observed[x] # Unknown => f.base[x] # Unknown
        <4>1. call[c].writes \in [RevKey -> [Key -> Cell]]
              /\ call[c].observed \in [RevKey -> Rev]
          BY DEF TypeOK, CallState
        <4>2. CASE x = rk
          BY <1>2, <2>4, <4>1, <4>2
        <4>3. CASE x # rk
          <5>1. call'[c].writes[x] = call[c].writes[x]
                /\ call'[c].observed[x] = call[c].observed[x]
            BY <2>4, <4>1, <4>3
          <5> QED BY <1>2, <2>1, <5>1 DEF CallSound
        <4> QED BY <4>2, <4>3
      <3>2. ASSUME NEW r \in call[c].saw
            PROVE  /\ f.base[r[1]] # Unknown
                   /\ f.base[r[1]] = rev[r[1]] => Committed(doc, r[1])[r[2]] = r[3]
        <4>1. r[1] \in RevKey
          BY DEF TypeOK, CallState
        <4> QED BY <1>2, <2>1, <4>1 DEF CallSound, ReadsSound
      <3> QED BY <1>3, <2>2, <2>4, <3>1, <3>2 DEF CallSound, ReadsSound, Committed
    <2> QED BY <1>5, <2>3, <2>4
  <1> QED BY <1>7, <1>8, <1>9, <1>10 DEF DependenciesSound

LEMMA MergeSound ==
    ASSUME TypeOK, DependenciesSound, NEW c \in Call, Merge(c)
    PROVE  DependenciesSound'
  <1> DEFINE g == Absorb(frame[c.parse], call[c], mint[c.parse])
  <1>1. c.parse \in Parse /\ c.parse.doc \in Doc /\ mint[c.parse] \in Nat
    BY CallAssumption, ParseAssumption DEF TypeOK
  <1>2. CallSound(c)
    BY DEF Merge, Live, DependenciesSound
  <1>3. FrameSound(c.parse.doc, g) /\ g.base = frame[c.parse].base
    BY <1>1, <1>2, AbsorbSound DEF Merge, DependenciesSound
  <1>4. g \in Frame
    BY <1>1, AbsorbType DEF TypeOK
  <1>5. frame' = [frame EXCEPT ![c.parse] = g] /\ UNCHANGED <<docs, shared, rev, saves>>
    BY DEF Merge, store
  <1>6. /\ \A e \in Call \ {c} : call'[e] = call[e]
        /\ call'[c].state = "merged"
    BY DEF Merge, NewCall, TypeOK
  <1> HIDE DEF g
  <1>7. \A p \in Parse : FrameSound(p.doc, frame[p])'
    BY <1>1, <1>3, <1>4, <1>5, FrameKept, ParseAssumption DEF DependenciesSound, TypeOK
  <1>8. \A s \in Slot : FrameSound(s.parse.doc, saves[s])'
    BY <1>5, FrameKept, ParseAssumption, SlotAssumption DEF DependenciesSound, TypeOK
  <1>9. \A e \in Call \ {c} : call'[e].state = "live" => CallSound(e)'
    BY <1>1, <1>3, <1>5, <1>6, CallKept, CallAssumption DEF DependenciesSound, TypeOK
  <1> QED BY <1>6, <1>7, <1>8, <1>9 DEF DependenciesSound

LEMMA CommitSound ==
    ASSUME TypeOK, DependenciesSound, NEW p \in Parse, Commit(p)
    PROVE  DependenciesSound'
  <1>1. Publish(p) /\ UNCHANGED <<frame, saves, call>>
    BY DEF Commit
  <1>2. \A q \in Parse : q.doc \in Doc /\ frame[q] \in Frame
    BY ParseAssumption DEF TypeOK
  <1>3. \A q \in Parse : FrameSound(q.doc, frame[q])'
    BY <1>1, <1>2, PublishSound DEF DependenciesSound
  <1>4. \A s \in Slot : FrameSound(s.parse.doc, saves[s])'
    BY <1>1, PublishSound, ParseAssumption, SlotAssumption DEF DependenciesSound, TypeOK
  <1>5. ASSUME NEW c \in Call, call[c].state = "live" PROVE CallSound(c)'
    <2> DEFINE doc == c.parse.doc
               base == frame[c.parse].base
    <2>1. c.parse \in Parse /\ call[c].saw \in SUBSET (RevKey \X Key \X Value)
      BY CallAssumption DEF TypeOK, CallState
    <2>2. CallSound(c)
      BY <1>5 DEF DependenciesSound
    <2>3. BaseKnown(frame[c.parse])
      BY <2>1 DEF DependenciesSound, FrameSound
    <2>4. ReadsSound(doc, base, call[c].saw)'
      BY <1>1, <1>2, <2>1, <2>2, <2>3, PublishSound DEF CallSound
    <2> QED BY <1>1, <2>2, <2>4 DEF CallSound
  <1> QED BY <1>1, <1>3, <1>4, <1>5 DEF DependenciesSound

(* Every step but a rollback; and going back to a sound frame, between     *)
(* calls.                                                                  *)
Forward ==
    \/ \E p \in Parse : Begin(p) \/ Commit(p) \/ Cancel(p)
    \/ \E s \in Slot : Savepoint(s)
    \/ \E c \in Call : CallStep(c)
    \/ UNCHANGED vars

LEMMA GoForward ==
    ASSUME TypeOK, DependenciesSound, Forward
    PROVE  DependenciesSound'
  <1>0. /\ \A p \in Parse : p.doc \in Doc /\ frame[p] \in Frame
        /\ \A s \in Slot : s.parse \in Parse /\ saves[s] \in Frame
        /\ \A c \in Call : c.parse \in Parse
    BY ParseAssumption, SlotAssumption, CallAssumption DEF TypeOK
  <1>1. ASSUME UNCHANGED <<docs, shared, rev, frame, saves>>,
               \A c \in Call : call'[c].state = "live"
                   => CallSound(c) /\ call'[c] = call[c]
        PROVE  DependenciesSound'
    BY <1>0, <1>1, FrameKept, CallKept DEF DependenciesSound
  <1>2. ASSUME NEW p \in Parse, Begin(p) PROVE DependenciesSound'
    BY <1>1, <1>2 DEF Begin, DependenciesSound
  <1>3. ASSUME NEW p \in Parse, Commit(p) PROVE DependenciesSound'
    BY <1>3, CommitSound
  <1>4. ASSUME NEW p \in Parse, Cancel(p) PROVE DependenciesSound'
    <2> DEFINE g == [frame[p] EXCEPT !.writes = NoWrites]
    <2>1. /\ frame' = [frame EXCEPT ![p] = g]
          /\ UNCHANGED <<docs, shared, rev, saves, call>>
      BY <1>4 DEF Cancel, store
    <2>2. /\ g.base = frame[p].base /\ g.current = frame[p].current
          /\ g.saw = frame[p].saw /\ g.writes = NoWrites
          /\ g \in Frame
      <3>1. NoWrites \in [RevKey -> [Key -> Cell]]
        BY NewFrameType DEF NewFrame, Frame
      <3> QED BY <1>0, <3>1 DEF Frame
    <2>3. FrameSound(p.doc, g)
      BY <2>2, NoWritesTouch
      DEF DependenciesSound, FrameSound, BaseKnown, ReadsSound, WritesSound
    <2> HIDE DEF g
    <2>4. \A q \in Parse : FrameSound(q.doc, frame[q])'
      BY <1>0, <2>1, <2>2, <2>3, FrameKept DEF DependenciesSound, TypeOK
    <2>5. \A s \in Slot : FrameSound(s.parse.doc, saves[s])'
      BY <1>0, <2>1, FrameKept DEF DependenciesSound
    <2>6. \A c \in Call : call'[c].state = "live" => CallSound(c)'
      BY <1>0, <2>1, <2>2, CallKept DEF DependenciesSound, TypeOK
    <2> QED BY <2>4, <2>5, <2>6 DEF DependenciesSound
  <1>5. ASSUME NEW s \in Slot, Savepoint(s) PROVE DependenciesSound'
    <2>1. /\ saves' = [saves EXCEPT ![s] = frame[s.parse]]
          /\ UNCHANGED <<docs, shared, rev, frame, call>>
      BY <1>5 DEF Savepoint, store
    <2>2. \A t \in Slot : FrameSound(t.parse.doc, saves[t])'
      BY <1>0, <2>1, FrameKept DEF DependenciesSound, TypeOK
    <2>3. \A p \in Parse : FrameSound(p.doc, frame[p])'
      BY <1>0, <2>1, FrameKept DEF DependenciesSound
    <2>4. \A c \in Call : call'[c].state = "live" => CallSound(c)'
      BY <2>1, CallKept DEF DependenciesSound
    <2> QED BY <2>2, <2>3, <2>4 DEF DependenciesSound
  <1>7. ASSUME NEW c \in Call, Invoke(c) PROVE DependenciesSound'
    <2>1. /\ call' = [call EXCEPT ![c] = NewCall("live")]
          /\ UNCHANGED <<docs, shared, rev, frame, saves>>
      BY <1>7 DEF Invoke, store
    <2>2. CallSound(c)'
      BY <2>1, NoWritesTouch DEF CallSound, NewCall, NoRevs, ReadsSound, TypeOK
    <2>3. \A e \in Call \ {c} : call'[e].state = "live" => CallSound(e)'
      BY <2>1, CallKept DEF DependenciesSound, TypeOK
    <2>4. /\ \A p \in Parse : FrameSound(p.doc, frame[p])'
          /\ \A s \in Slot : FrameSound(s.parse.doc, saves[s])'
      BY <1>0, <2>1, FrameKept DEF DependenciesSound
    <2> QED BY <2>2, <2>3, <2>4 DEF DependenciesSound
  <1>8. ASSUME NEW c \in Call, NEW rk \in RevKey, NEW k \in Key, Get(c, rk, k)
        PROVE  DependenciesSound'
    BY <1>8, ReadSound DEF Get
  <1>9. ASSUME NEW c \in Call, NEW rk \in RevKey, ScanPrefix(c, rk)
        PROVE  DependenciesSound'
    BY <1>9, ReadSound DEF ScanPrefix
  <1>10. ASSUME NEW c \in Call, NEW rk \in RevKey, NEW k \in Key,
                NEW v \in Value, Write(c, rk, k, v)
         PROVE  DependenciesSound'
    BY <1>10, WriteSound
  <1>11. ASSUME NEW c \in Call, Merge(c) PROVE DependenciesSound'
    BY <1>11, MergeSound
  <1>12. ASSUME NEW c \in Call, Discard(c) PROVE DependenciesSound'
    BY <1>1, <1>12 DEF Discard, NewCall, DependenciesSound, TypeOK, store
  <1>13. CASE UNCHANGED vars
    BY <1>1, <1>13 DEF vars, DependenciesSound
  <1> QED BY <1>2, <1>3, <1>4, <1>5, <1>7, <1>8, <1>9, <1>10, <1>11,
            <1>12, <1>13 DEF Forward, CallStep

LEMMA GoBack ==
    ASSUME TypeOK, DependenciesSound, NEW p \in Parse, Quiescent(p),
           NEW g \in Frame, FrameSound(p.doc, g), frame' = [frame EXCEPT ![p] = g],
           UNCHANGED <<docs, shared, rev, saves, call>>
    PROVE  DependenciesSound'
  <1>1. /\ \A q \in Parse : q.doc \in Doc /\ frame[q] \in Frame
        /\ \A s \in Slot : s.parse \in Parse /\ saves[s] \in Frame
        /\ \A c \in Call : c.parse \in Parse
    BY ParseAssumption, SlotAssumption, CallAssumption DEF TypeOK
  <1>2. \A q \in Parse : FrameSound(q.doc, frame[q])'
    BY <1>1, FrameKept DEF DependenciesSound, TypeOK
  <1>3. \A t \in Slot : FrameSound(t.parse.doc, saves[t])'
    BY <1>1, FrameKept DEF DependenciesSound
  <1>4. ASSUME NEW c \in Call, call'[c].state = "live" PROVE CallSound(c)'
    <2>1. c.parse # p /\ call[c].state = "live"
      BY <1>4 DEF Quiescent
    <2>2. frame'[c.parse] = frame[c.parse]
      BY <1>1, <2>1 DEF TypeOK
    <2> QED BY <2>1, <2>2, CallKept DEF DependenciesSound
  <1> QED BY <1>2, <1>3, <1>4 DEF DependenciesSound

LEMMA InitialSound == Init => DependenciesSound
  <1> SUFFICES ASSUME Init, NEW doc \in Doc PROVE FrameSound(doc, NewFrame)
    BY ParseAssumption, SlotAssumption DEF Init, DependenciesSound, NewCall
  <1>1. BaseKnown(NewFrame)
    BY DEF BaseKnown, NewFrame, NoRevs
  <1>2. ReadsSound(doc, NewFrame.base, NewFrame.saw)
    BY DEF ReadsSound, NewFrame
  <1>3. WritesSound(doc, NewFrame)
    BY NoWritesTouch DEF WritesSound, NewFrame
  <1> QED BY <1>1, <1>2, <1>3 DEF FrameSound

-----------------------------------------------------------------------------
(* The theorems.                                                           *)

(* While its base revision is the committed one, everything a parse, a     *)
(* savepoint or a live call derived from a namespace is still true of it.  *)
(* The discipline of the parser host (no rollback under a live call) is    *)
(* needed: TLC finds a counterexample without it.                          *)
THEOREM DependenciesCorrect ==
    ASSUME ~RollbackDuringCall
    PROVE  Spec => []DependenciesSound
  <1>1. Init => DependenciesSound
    BY InitialSound
  <1>2. TypeOK /\ DependenciesSound /\ [Next]_vars => DependenciesSound'
    <2> SUFFICES ASSUME TypeOK, DependenciesSound, [Next]_vars
                 PROVE  DependenciesSound'
      OBVIOUS
    <2>1. ASSUME NEW s \in Slot, RollbackTo(s) PROVE DependenciesSound'
      <3>1. s.parse \in Parse /\ saves[s] \in Frame /\ FrameSound(s.parse.doc, saves[s])
        BY SlotAssumption DEF TypeOK, DependenciesSound
      <3> QED BY <2>1, <3>1, GoBack DEF RollbackTo, store
    <2> QED BY <2>1, GoForward DEF Next, Forward
  <1> QED BY <1>1, <1>2, TypeCorrect, PTL DEF Spec

LEMMA QuotaStep ==
    TypeOK /\ DependenciesSound /\ QuotaRespected /\ [Next]_vars => QuotaRespected'
  <1> SUFFICES ASSUME TypeOK, DependenciesSound, QuotaRespected, [Next]_vars
               PROVE  QuotaRespected'
    OBVIOUS
  <1>1. CASE UNCHANGED <<docs, shared>>
    BY <1>1 DEF QuotaRespected
  <1>2. ASSUME NEW p \in Parse, Commit(p) PROVE QuotaRespected'
    <2> DEFINE w == frame[p].writes
    <2>1. w \in [RevKey -> [Key -> Cell]] /\ p.doc \in Doc /\ frame[p] \in Frame
      BY ParseAssumption DEF TypeOK, Frame
    <2>2. ASSUME NEW rk \in RevKey, rk[1] \in Durable
          PROVE  Touches(w[rk]) => Fits(Patch(Committed(p.doc, rk), w[rk]))
      <3>1. rk[1] \notin Volatile
        BY <2>2 DEF Durable, Volatile
      <3> QED BY <1>2, <3>1
        DEF Commit, CommitAllowed, DependenciesSound, FrameSound, WritesSound
    <2>3. ASSUME NEW d \in Doc, NEW n \in Namespace PROVE Fits(docs'[d][n])
      <3> DEFINE rk == <<"document", n>>
      <3>1. CASE "document" \in Scope /\ d = p.doc
        <4>1. rk \in RevKey /\ rk[1] \in Durable /\ rk[1] = "document" /\ rk[2] = n
          BY <3>1 DEF RevKey, Durable
        <4>2. docs'[d][n] = Patch(docs[d][n], w[rk])
          BY <1>2, <2>1, <3>1 DEF Commit, Publish, PatchDocument, TypeOK
        <4> HIDE DEF rk
        <4>3. Committed(p.doc, rk) = docs[d][n]
          BY <3>1, <4>1 DEF Committed, At, Global
        <4>4. docs[d][n] \in [Key -> Value] /\ w[rk] \in [Key -> Cell]
          BY <2>1, <4>1 DEF TypeOK
        <4>5. CASE Touches(w[rk])
          BY <2>2, <4>1, <4>2, <4>3, <4>5
        <4>6. CASE ~Touches(w[rk])
          BY <4>2, <4>4, <4>6, PatchUntouched DEF QuotaRespected
        <4> QED BY <4>5, <4>6
      <3>2. CASE ~("document" \in Scope /\ d = p.doc)
        BY <1>2, <2>1, <3>2 DEF Commit, Publish, PatchDocument, TypeOK, QuotaRespected
      <3> QED BY <3>1, <3>2
    <2>4. ASSUME NEW rk \in Global PROVE Fits(shared'[rk])
      <3>1. rk \in RevKey /\ rk[1] \in Durable /\ rk[1] # "document"
        BY DEF Global, RevKey, Durable
      <3>2. shared'[rk] = Patch(shared[rk], w[rk])
        BY <1>2 DEF Commit, Publish, PatchGlobal
      <3>3. Committed(p.doc, rk) = shared[rk]
        BY <3>1 DEF Committed, At
      <3>4. shared[rk] \in [Key -> Value] /\ w[rk] \in [Key -> Cell]
        BY <2>1, <3>1 DEF TypeOK
      <3>5. CASE Touches(w[rk])
        BY <2>2, <3>1, <3>2, <3>3, <3>5
      <3>6. CASE ~Touches(w[rk])
        BY <3>2, <3>4, <3>6, PatchUntouched DEF QuotaRespected
      <3> QED BY <3>5, <3>6
    <2> QED BY <2>3, <2>4 DEF QuotaRespected
  <1>3. CASE ~\E p \in Parse : Commit(p)
    BY <1>1, <1>3, StoreChanges
  <1> QED BY <1>2, <1>3

(* No namespace a document revision publishes to exceeds its quota: the    *)
(* check made when a call merges is still good when the parse commits.     *)
THEOREM QuotaCorrect ==
    ASSUME ~RollbackDuringCall
    PROVE  Spec => []QuotaRespected
  <1>1. Init => QuotaRespected
    BY EmptyAssumption DEF Init, QuotaRespected
  <1>2. TypeOK /\ DependenciesSound /\ QuotaRespected /\ [Next]_vars
            => QuotaRespected'
    BY QuotaStep
  <1> QED BY <1>1, <1>2, TypeCorrect, DependenciesCorrect, PTL DEF Spec

-----------------------------------------------------------------------------
(* A parse that was begun is known to its document.                        *)
LatestKnown == \A p \in Parse : status[p] # "idle" => latest[p.doc] >= p.revision

LEMMA LatestCorrect == Spec => []LatestKnown
  <1>1. Init => LatestKnown
    BY DEF Init, LatestKnown
  <1>2. TypeOK /\ LatestKnown /\ [Next]_vars => LatestKnown'
    <2> SUFFICES ASSUME TypeOK, LatestKnown, [Next]_vars
                 PROVE  LatestKnown'
      OBVIOUS
    <2>0. \A p \in Parse : p.doc \in Doc /\ p.revision \in Nat
      BY ParseAssumption
    <2>1. ASSUME NEW p \in Parse, Begin(p) PROVE LatestKnown'
      <3>1. ASSUME NEW d \in Doc
            PROVE  latest'[d] >= latest[d] /\ latest'[d] \in Nat
        <4>1. latest[d] \in Nat /\ latest[p.doc] \in Nat
          BY <2>0 DEF TypeOK
        <4>2. latest'[d] = IF d = p.doc /\ p.revision >= latest[d]
                           THEN p.revision ELSE latest[d]
          BY <2>0, <2>1, <4>1 DEF Begin, TypeOK
        <4> QED BY <2>0, <4>1, <4>2
      <3>2. latest'[p.doc] >= p.revision
        BY <2>0, <2>1 DEF Begin, TypeOK
      <3>3. ASSUME NEW q \in Parse, status'[q] # "idle"
            PROVE  latest'[q.doc] >= q.revision
        <4>1. CASE q = p
          BY <3>2, <4>1
        <4>2. CASE q # p
          <5>1. status[q] # "idle"
            BY <2>1, <3>3, <4>2 DEF Begin, TypeOK
          <5>2. latest[q.doc] >= q.revision /\ latest[q.doc] \in Nat
            BY <2>0, <5>1 DEF LatestKnown, TypeOK
          <5> QED BY <2>0, <3>1, <5>2
        <4> QED BY <4>1, <4>2
      <3> QED BY <3>3 DEF LatestKnown
    <2>2. ASSUME NEW p \in Parse, Commit(p) \/ Cancel(p) PROVE LatestKnown'
      BY <2>2 DEF Commit, Cancel, LatestKnown, TypeOK, store
    <2>3. CASE UNCHANGED <<latest, status>>
      BY <2>3 DEF LatestKnown
    <2>4. CASE ~\E p \in Parse : Begin(p) \/ Commit(p) \/ Cancel(p)
      BY <2>3, <2>4, LifeChanges
    <2> QED BY <2>1, <2>2, <2>4
  <1> QED BY <1>1, <1>2, TypeCorrect, PTL DEF Spec

(* A document is never overwritten by an older revision of itself.         *)
THEOREM NewerRevisionCorrect == Spec => NewerRevisionWins
  <1>1. TypeOK /\ LatestKnown /\ [Next]_vars =>
          [\A p, q \in Parse :
             /\ status[p] = "open" /\ status'[p] = "committed"
             /\ q.doc = p.doc /\ q.revision > p.revision
             => status[q] = "idle"]_vars
    <2> SUFFICES ASSUME TypeOK, LatestKnown, Next,
                        NEW p \in Parse, NEW q \in Parse,
                        status[p] = "open", status'[p] = "committed",
                        q.doc = p.doc, q.revision > p.revision
                 PROVE  status[q] = "idle"
      BY DEF vars
    <2>1. p.revision \in Nat /\ q.revision \in Nat /\ p.doc \in Doc
      BY ParseAssumption
    <2>2. Commit(p)
      <3>1. ASSUME NEW o \in Parse, Begin(o) PROVE FALSE
        BY <3>1 DEF Begin, TypeOK
      <3>2. ASSUME NEW o \in Parse, Cancel(o) PROVE FALSE
        BY <3>2 DEF Cancel, TypeOK
      <3>3. ASSUME NEW o \in Parse, o # p, Commit(o) PROVE FALSE
        BY <3>3 DEF Commit, TypeOK
      <3> QED BY <3>1, <3>2, <3>3, LifeChanges
    <2>3. latest[p.doc] = p.revision
      BY <2>2 DEF Commit, CommitAllowed
    <2> QED BY <2>1, <2>3 DEF LatestKnown
  <1> QED BY <1>1, TypeCorrect, LatestCorrect, PTL DEF Spec, NewerRevisionWins
-----------------------------------------------------------------------------
(* Why dependencies go stale.                                              *)

Running(p) == status[p] \in {"idle", "open"}

(* A dependency of p that has moved was moved by another parse.            *)
Cause(p, base) ==
    \A rk \in RevKey : base[rk] \notin {Unknown, rev[rk]} =>
        /\ rk[1] \in Durable
        /\ \E q \in Parse \ {p} :
              status[q] = "committed" /\ Touches(frame[q].writes[rk])

(* What a committed parse wrote stays on record, and every move of a       *)
(* revision is the commit of a parse that wrote to the namespace.          *)
Lasting ==
    /\ \A q \in Parse : status[q] = "committed" =>
          status'[q] = "committed" /\ frame'[q] = frame[q]
    /\ \A rk \in RevKey : rev'[rk] # rev[rk] =>
          /\ rk[1] \in Durable
          /\ \E q \in Parse : /\ status'[q] = "committed" /\ frame'[q] = frame[q]
                              /\ Touches(frame[q].writes[rk])

LEMMA CallLasts ==
    ASSUME TypeOK, NEW c \in Call, CallStep(c)
    PROVE  Lasting
  <1>1. UNCHANGED <<rev, status>> /\ c.parse \in Parse
    BY CallStepKeeps, CallAssumption
  <1>2. UNCHANGED frame \/ \E f : status[c.parse] = "open" /\ frame' = [frame EXCEPT ![c.parse] = f]
    BY DEF CallStep, Invoke, Get, ScanPrefix, Read, Write, Merge, Discard, Live
  <1>3. \A q \in Parse : status[q] = "committed" => frame'[q] = frame[q]
    BY <1>1, <1>2 DEF TypeOK
  <1> QED BY <1>1, <1>3 DEF Lasting

LEMMA CommitLasts ==
    ASSUME TypeOK, NEW p \in Parse, Commit(p)
    PROVE  Lasting
  <1>1. /\ status' = [status EXCEPT ![p] = "committed"] /\ frame' = frame
        /\ \A rk \in RevKey : rev'[rk] # rev[rk] =>
              rk[1] \in Durable /\ Touches(frame[p].writes[rk])
    BY DEF Commit, Publish
  <1> QED BY <1>1 DEF Lasting, TypeOK

LEMMA StepLasts ==
    ASSUME TypeOK, [Next]_vars
    PROVE  Lasting
  <1>1. ASSUME NEW p \in Parse, Begin(p) PROVE Lasting
    BY <1>1 DEF Begin, Lasting, TypeOK
  <1>2. ASSUME NEW p \in Parse, Cancel(p) PROVE Lasting
    BY <1>2 DEF Cancel, store, Lasting, TypeOK
  <1>3. ASSUME NEW s \in Slot, Savepoint(s) PROVE Lasting
    BY <1>3 DEF Savepoint, store, Lasting
  <1>4. ASSUME NEW s \in Slot, RollbackTo(s) PROVE Lasting
    BY <1>4 DEF RollbackTo, store, Lasting, TypeOK
  <1>5. CASE UNCHANGED vars
    BY <1>5 DEF vars, Lasting
  <1> QED BY <1>1, <1>2, <1>3, <1>4, <1>5, CallLasts, CommitLasts DEF Next

LEMMA CauseKept ==
    ASSUME Lasting, NEW p \in Parse, Running(p)', NEW base, Cause(p, base)
    PROVE  Cause(p, base)'
  <1> SUFFICES ASSUME NEW rk \in RevKey, base[rk] \notin {Unknown, rev'[rk]}
               PROVE  /\ rk[1] \in Durable
                      /\ \E q \in Parse \ {p} :
                            status'[q] = "committed" /\ Touches(frame'[q].writes[rk])
    BY DEF Cause
  <1>1. CASE base[rk] # rev[rk]
    BY <1>1 DEF Cause, Lasting
  <1>2. CASE base[rk] = rev[rk]
    <2>1. PICK q \in Parse : /\ status'[q] = "committed" /\ frame'[q] = frame[q]
                             /\ Touches(frame[q].writes[rk])
      BY <1>2 DEF Lasting
    <2>2. q # p
      BY <2>1 DEF Running
    <2> QED BY <1>2, <2>1, <2>2 DEF Lasting
  <1> QED BY <1>1, <1>2

(* A call adds to the dependencies of its parse the revisions it finds.    *)
LEMMA CallDepends ==
    ASSUME TypeOK, DependenciesSound, NEW c \in Call, CallStep(c)
    PROVE  /\ UNCHANGED <<rev, saves>> /\ c.parse \in Parse
           /\ \A p \in Parse \ {c.parse} : frame'[p] = frame[p]
           /\ \A rk \in RevKey :
                 frame'[c.parse].base[rk] \in {frame[c.parse].base[rk], rev[rk]}
  <1>1. c.parse \in Parse /\ frame[c.parse] \in Frame
    BY CallAssumption DEF TypeOK
  <1>2. ASSUME NEW rk \in RevKey, NEW x \in RevKey
        PROVE  Learn(frame[c.parse], rk).base[x] \in {frame[c.parse].base[x], rev[x]}
    BY <1>1 DEF Learn, Frame
  <1>3. CASE Merge(c)
    <2>1. CallSound(c) /\ FrameSound(c.parse.doc, frame[c.parse]) /\ mint[c.parse] \in Nat
      BY <1>1, <1>3 DEF Merge, Live, DependenciesSound, TypeOK
    <2>2. Absorb(frame[c.parse], call[c], mint[c.parse]).base = frame[c.parse].base
      BY <1>3, <2>1, AbsorbSound DEF Merge
    <2>3. /\ frame' = [frame EXCEPT ![c.parse] = Absorb(frame[c.parse], call[c], mint[c.parse])]
          /\ UNCHANGED <<rev, saves>>
      BY <1>3 DEF Merge, store
    <2> QED BY <1>1, <2>2, <2>3 DEF TypeOK
  <1>4. CASE Invoke(c) \/ Discard(c)
    BY <1>1, <1>4 DEF Invoke, Discard, store
  <1>5. ASSUME NEW rk \in RevKey, NEW keys, Read(c, rk, keys)
        PROVE  /\ frame' = [frame EXCEPT ![c.parse] = Learn(frame[c.parse], rk)]
               /\ UNCHANGED <<rev, saves>>
    BY <1>5 DEF Read, store
  <1>6. ASSUME NEW rk \in RevKey, NEW k \in Key, NEW v \in Value, Write(c, rk, k, v)
        PROVE  /\ frame' = [frame EXCEPT ![c.parse] = Learn(frame[c.parse], rk)]
               /\ UNCHANGED <<rev, saves>>
    BY <1>6 DEF Write, store
  <1>7. CASE \E rk \in RevKey : /\ frame' = [frame EXCEPT ![c.parse] = Learn(frame[c.parse], rk)]
                                /\ UNCHANGED <<rev, saves>>
    BY <1>1, <1>2, <1>7 DEF TypeOK
  <1> QED BY <1>3, <1>4, <1>5, <1>6, <1>7 DEF CallStep, Get, ScanPrefix

CausesKnown ==
    /\ \A p \in Parse : Running(p) => Cause(p, frame[p].base)
    /\ \A s \in Slot : Running(s.parse) => Cause(s.parse, saves[s].base)

LEMMA CausesStep ==
    ASSUME TypeOK, DependenciesSound, CausesKnown, [Next]_vars
    PROVE  CausesKnown'
  <1>1. Lasting
    BY StepLasts
  <1>2. \A s \in Slot : s.parse \in Parse
    BY SlotAssumption
  <1>3. ASSUME NEW c \in Call, CallStep(c) PROVE CausesKnown'
    <2>1. /\ UNCHANGED <<rev, saves, status>> /\ c.parse \in Parse
          /\ \A p \in Parse \ {c.parse} : frame'[p] = frame[p]
          /\ \A rk \in RevKey :
                frame'[c.parse].base[rk] \in {frame[c.parse].base[rk], rev[rk]}
      BY <1>3, CallDepends, CallStepKeeps
    <2>2. ASSUME NEW p \in Parse, Running(p)' PROVE Cause(p, frame[p].base)'
      <3>1. Cause(p, frame[p].base)
        BY <2>1, <2>2 DEF CausesKnown, Running
      <3>2. Cause(p, frame'[p].base)
        BY <2>1, <3>1 DEF Cause
      <3> QED BY <1>1, <2>2, <3>2, CauseKept
    <2>3. ASSUME NEW s \in Slot, Running(s.parse)' PROVE Cause(s.parse, saves[s].base)'
      <3>1. Cause(s.parse, saves[s].base)
        BY <2>1, <2>3 DEF CausesKnown, Running
      <3> QED BY <1>1, <1>2, <2>1, <2>3, <3>1, CauseKept
    <2> QED BY <2>2, <2>3 DEF CausesKnown
  <1>4. ASSUME \A p \in Parse : Running(p)' =>
                  Running(p) /\ frame'[p].base \in
                     {frame[p].base} \cup {saves[s].base : s \in {t \in Slot : t.parse = p}},
               \A s \in Slot : Running(s.parse)' =>
                  Running(s.parse) /\ saves'[s].base \in {saves[s].base, frame[s.parse].base}
        PROVE  CausesKnown'
    <2>1. ASSUME NEW p \in Parse, Running(p)' PROVE Cause(p, frame[p].base)'
      <3>1. Cause(p, frame'[p].base)
        BY <1>4, <2>1 DEF CausesKnown
      <3> QED BY <1>1, <2>1, <3>1, CauseKept
    <2>2. ASSUME NEW s \in Slot, Running(s.parse)' PROVE Cause(s.parse, saves[s].base)'
      <3>1. Cause(s.parse, saves'[s].base)
        BY <1>2, <1>4, <2>2 DEF CausesKnown
      <3> QED BY <1>1, <1>2, <2>2, <3>1, CauseKept
    <2> QED BY <2>1, <2>2 DEF CausesKnown
  <1>5. ASSUME NEW p \in Parse, Begin(p) PROVE CausesKnown'
    BY <1>2, <1>4, <1>5 DEF Begin, Running, TypeOK
  <1>6. ASSUME NEW p \in Parse, Commit(p) PROVE CausesKnown'
    BY <1>2, <1>4, <1>6 DEF Commit, Running, TypeOK
  <1>7. ASSUME NEW p \in Parse, Cancel(p) PROVE CausesKnown'
    <2>1. /\ status' = [status EXCEPT ![p] = "cancelled"] /\ saves' = saves
          /\ \A q \in Parse \ {p} : frame'[q] = frame[q]
      BY <1>7 DEF Cancel, TypeOK
    <2>2. ~Running(p)' /\ \A q \in Parse : Running(q)' => Running(q) /\ q # p
      BY <2>1 DEF Running, TypeOK
    <2> QED BY <1>2, <1>4, <2>1, <2>2
  <1>8. ASSUME NEW s \in Slot, Savepoint(s) PROVE CausesKnown'
    BY <1>2, <1>4, <1>8 DEF Savepoint, Running, TypeOK
  <1>9. ASSUME NEW s \in Slot, RollbackTo(s) PROVE CausesKnown'
    BY <1>2, <1>4, <1>9 DEF RollbackTo, Running, TypeOK
  <1>10. CASE UNCHANGED vars
    BY <1>4, <1>10 DEF vars, Running
  <1> QED BY <1>3, <1>5, <1>6, <1>7, <1>8, <1>9, <1>10 DEF Next

(* An open parse meets a conflict only because another parse committed a   *)
(* write to the namespace: its own calls and rollbacks never make its      *)
(* dependencies stale (ParseTransactionInner::revision, mod.rs:645).       *)
THEOREM ConflictsCorrect ==
    ASSUME ~RollbackDuringCall
    PROVE  Spec => []ConflictHasCause
  <1>1. Init => CausesKnown
    BY SlotAssumption DEF Init, CausesKnown, Cause, NewFrame, NoRevs
  <1>2. TypeOK /\ DependenciesSound /\ CausesKnown /\ [Next]_vars => CausesKnown'
    BY CausesStep
  <1>3. CausesKnown => ConflictHasCause
    BY DEF CausesKnown, Cause, Running, ConflictHasCause
  <1> QED BY <1>1, <1>2, <1>3, TypeCorrect, DependenciesCorrect, PTL DEF Spec

-----------------------------------------------------------------------------
(* The two specifications talk about the same data.                        *)
LEMMA SameData ==
    /\ Serial!Empty = Empty /\ Serial!NoWrites = NoWrites
    /\ Serial!Global = Global /\ Serial!RevKey = RevKey
    /\ Serial!Cell = Cell /\ Serial!Value = Value
  BY DEF Serial!Empty, Empty, Serial!NoWrites, NoWrites, Serial!Global, Global,
         Serial!RevKey, RevKey, Serial!Cell, Cell, Serial!Value, Value

LEMMA SameFits == \A values : Serial!Fits(values) <=> Fits(values)
  BY DEF Serial!Fits, Fits, Serial!Size, Size, Serial!MapThenSumSet, MapThenSumSet,
         Serial!Charge, Charge, Serial!MapThenFoldSet, MapThenFoldSet

LEMMA SamePublish ==
    ASSUME NEW d, NEW s, NEW doc, NEW w
    PROVE  /\ Serial!PatchDocument(d, doc, w) = PatchDocument(d, doc, w)
           /\ Serial!PatchGlobal(s, w) = PatchGlobal(s, w)
  BY DEF Serial!PatchDocument, PatchDocument, Serial!PatchGlobal, PatchGlobal,
         Serial!Patch, Patch, Serial!Global, Global

LEMMA SameAt ==
    ASSUME NEW d, NEW s, NEW doc, NEW rk
    PROVE  Serial!At(d, s, doc, rk) = At(d, s, doc, rk)
  BY DEF Serial!At, At, Serial!Global, Global, Serial!Empty, Empty

-----------------------------------------------------------------------------
(* Nothing commits to a namespace of the volatile scopes.                  *)
VolatileStill == \A rk \in RevKey : rk[1] \in Volatile => rev[rk] = 0

LEMMA VolatileStep ==
    VolatileStill /\ [Next]_vars => VolatileStill'
  <1> SUFFICES ASSUME VolatileStill, [Next]_vars
               PROVE  VolatileStill'
    OBVIOUS
  <1>1. ASSUME NEW p \in Parse, Commit(p) PROVE VolatileStill'
    BY <1>1 DEF Commit, Publish, VolatileStill, Volatile, Durable
  <1>2. CASE ~\E p \in Parse : Commit(p)
    BY <1>2, StoreChanges DEF VolatileStill
  <1> QED BY <1>1, <1>2

LEMMA VolatileCorrect == Spec => []VolatileStill
  <1>1. Init => VolatileStill
    BY DEF Init, VolatileStill
  <1>2. VolatileStill /\ [Next]_vars => VolatileStill'
    BY VolatileStep
  <1> QED BY <1>1, <1>2, PTL DEF Spec

-----------------------------------------------------------------------------
pending == [p \in Parse |-> frame[p].writes]
saw     == [p \in Parse |-> frame[p].saw]

(* A change of one frame is, in the abstract store, work of its parse.     *)
LEMMA FrameStep ==
    ASSUME TypeOK, NEW p \in Parse, NEW g \in Frame, status[p] = "open",
           frame' = [frame EXCEPT ![p] = g],
           UNCHANGED <<docs, shared, latest, status>>
    PROVE  Serial!Work(p)
  <1>1. g.writes \in Serial!Writes /\ g.saw \in Serial!Reads
    BY SameData DEF Frame, Serial!Writes, Serial!Reads
  <1>2. pending' = [pending EXCEPT ![p] = g.writes]
    BY DEF pending, TypeOK
  <1>3. saw' = [saw EXCEPT ![p] = g.saw]
    BY DEF saw, TypeOK
  <1> QED BY <1>1, <1>2, <1>3 DEF Serial!Work, pending, saw

(* A commit the code allows is one the abstract store allows: the revision *)
(* check stands for a check of every read the parse kept.                  *)
LEMMA CommitStep ==
    ASSUME TypeOK, DependenciesSound, VolatileStill, QuotaRespected',
           NEW p \in Parse, Commit(p)
    PROVE  Serial!Commit(p)
  <1>1. frame[p] \in Frame
    BY DEF TypeOK
  <1>2. ASSUME NEW r \in frame[p].saw
        PROVE  At(docs, shared, p.doc, r[1])[r[2]] = r[3]
    <2>1. r[1] \in RevKey /\ frame[p].base[r[1]] \in Rev
      BY <1>1 DEF Frame
    <2>2. /\ frame[p].base[r[1]] # Unknown
          /\ frame[p].base[r[1]] = rev[r[1]] => Committed(p.doc, r[1])[r[2]] = r[3]
          /\ frame[p].base[r[1]] <= rev[r[1]]
      BY <2>1 DEF DependenciesSound, FrameSound, ReadsSound, BaseKnown
    <2>3. CASE r[1][1] \in Volatile
      <3>1. rev[r[1]] = 0
        BY <2>1, <2>3 DEF VolatileStill
      <3>2. frame[p].base[r[1]] = rev[r[1]]
        BY <2>1, <2>2, <3>1 DEF Rev, Unknown
      <3> QED BY <2>2, <3>2 DEF Committed
    <2>4. CASE r[1][1] \notin Volatile
      BY <2>1, <2>2, <2>4 DEF Commit, CommitAllowed, Committed
    <2> QED BY <2>3, <2>4
  <1>3. Serial!ReadsHold(p)
    BY <1>2, SameAt DEF Serial!ReadsHold
  <1>4. Serial!QuotaHolds(docs', shared')
    BY SameFits, SameData DEF QuotaRespected, Serial!QuotaHolds
  <1>5. /\ docs' = Serial!PatchDocument(docs, p.doc, pending[p])
        /\ shared' = Serial!PatchGlobal(shared, pending[p])
    BY SamePublish DEF Commit, Publish, pending
  <1>6. pending' = pending /\ saw' = saw
    BY DEF Commit, pending, saw
  <1> QED BY <1>3, <1>4, <1>5, <1>6
          DEF Commit, CommitAllowed, Serial!Commit, pending, saw

LEMMA SerialInit ==
    Init => Serial!Init
  <1> SUFFICES ASSUME Init PROVE Serial!Init
    OBVIOUS
  <1>1. /\ [p \in Parse |-> frame[p].writes] = [p \in Parse |-> NoWrites]
        /\ [p \in Parse |-> frame[p].saw] = [p \in Parse |-> {}]
    BY DEF Init, NewFrame
  <1> QED BY <1>1, SameData DEF Init, Serial!Init

LEMMA SerialStep ==
    TypeOK /\ DependenciesSound /\ VolatileStill /\ QuotaRespected' /\ [Next]_vars
        => [Serial!Next]_(Serial!vars)
  <1> SUFFICES ASSUME TypeOK, DependenciesSound, VolatileStill, QuotaRespected',
                      [Next]_vars
               PROVE  Serial!Next \/ UNCHANGED Serial!vars
    OBVIOUS
  <1>0. ASSUME UNCHANGED <<docs, shared, latest, status, frame>>
        PROVE  UNCHANGED Serial!vars
    BY <1>0 DEF Serial!vars
  <1>1. ASSUME NEW p \in Parse, Begin(p) PROVE Serial!Begin(p)
    BY <1>1 DEF Begin, Serial!Begin
  <1>2. ASSUME NEW p \in Parse, Commit(p) PROVE Serial!Commit(p)
    BY <1>2, CommitStep
  <1>3. ASSUME NEW p \in Parse, Cancel(p) PROVE Serial!Cancel(p)
    <2>1. pending' = [pending EXCEPT ![p] = NoWrites] /\ saw' = saw
      BY <1>3 DEF Cancel, pending, saw, TypeOK, Frame
    <2> QED BY <1>3, <2>1, SameData DEF Cancel, Serial!Cancel, pending, saw, store
  <1>4. ASSUME NEW s \in Slot, RollbackTo(s) PROVE Serial!Work(s.parse)
    BY <1>4, SlotAssumption, FrameStep DEF RollbackTo, TypeOK, store
  <1>5. ASSUME NEW c \in Call, Merge(c) PROVE Serial!Work(c.parse)
    <2>1. c.parse \in Parse
      BY CallAssumption
    <2>2. Absorb(frame[c.parse], call[c], mint[c.parse]) \in Frame
      BY <2>1, AbsorbType DEF TypeOK
    <2> QED BY <1>5, <2>1, <2>2, FrameStep DEF Merge, Live, store
  <1>6. ASSUME NEW c \in Call, NEW f \in Frame,
               frame' = [frame EXCEPT ![c.parse] = f],
               f.writes = frame[c.parse].writes, f.saw = frame[c.parse].saw,
               UNCHANGED <<docs, shared, latest, status>>
        PROVE  UNCHANGED Serial!vars
    <2>1. c.parse \in Parse
      BY CallAssumption
    <2>2. pending' = pending /\ saw' = saw
      BY <1>6, <2>1 DEF pending, saw, TypeOK
    <2> QED BY <1>6, <2>2 DEF Serial!vars, pending, saw
  <1>7. ASSUME NEW c \in Call, NEW rk \in RevKey
        PROVE  LET f == Learn(frame[c.parse], rk) IN
               /\ f \in Frame
               /\ f.writes = frame[c.parse].writes /\ f.saw = frame[c.parse].saw
    <2>1. frame[c.parse] \in Frame
      BY CallAssumption DEF TypeOK
    <2>2. Learn(frame[c.parse], rk) \in Frame
      BY <2>1, LearnType DEF TypeOK
    <2> QED BY <2>1, <2>2 DEF Learn, Frame
  <1>8. ASSUME NEW c \in Call, NEW rk \in RevKey, NEW keys \in SUBSET Key,
               Read(c, rk, keys)
        PROVE  UNCHANGED Serial!vars
    BY <1>6, <1>7, <1>8 DEF Read, store
  <1>9. ASSUME NEW c \in Call, NEW rk \in RevKey, NEW k \in Key, NEW v \in Value,
               Write(c, rk, k, v)
        PROVE  UNCHANGED Serial!vars
    BY <1>6, <1>7, <1>9 DEF Write, store
  <1>10. ASSUME NEW c \in Call, CallStep(c)
         PROVE  Serial!Next \/ UNCHANGED Serial!vars
    <2>1. c.parse \in Parse
      BY CallAssumption
    <2>2. CASE Invoke(c) \/ Discard(c)
      BY <1>0, <2>2 DEF Invoke, Discard, store
    <2> QED BY <1>5, <1>8, <1>9, <1>10, <2>1, <2>2
            DEF CallStep, Get, ScanPrefix, Serial!Next
  <1>11. ASSUME NEW s \in Slot, Savepoint(s) \/ RollbackTo(s)
         PROVE  Serial!Next \/ UNCHANGED Serial!vars
    <2>1. s.parse \in Parse
      BY SlotAssumption
    <2>2. CASE Savepoint(s)
      BY <1>0, <2>2 DEF Savepoint, store
    <2> QED BY <1>4, <1>11, <2>1, <2>2 DEF Serial!Next
  <1>12. CASE UNCHANGED vars
    BY <1>0, <1>12 DEF vars
  <1> QED BY <1>1, <1>2, <1>3, <1>10, <1>11, <1>12 DEF Next, Serial!Next

(* The committed parses are serializable in commit order.                  *)
THEOREM SerializableCorrect ==
    ASSUME ~RollbackDuringCall
    PROVE  Spec => Serializable
  <1>1. Init => Serial!Init
    BY SerialInit
  <1>2. TypeOK /\ DependenciesSound /\ VolatileStill /\ QuotaRespected' /\ [Next]_vars
            => [Serial!Next]_(Serial!vars)
    BY SerialStep
  <1> QED BY <1>1, <1>2, TypeCorrect, DependenciesCorrect, VolatileCorrect,
            QuotaCorrect, PTL DEF Spec, Serializable, Serial!Spec

-----------------------------------------------------------------------------
(* Speculation: the branches, scopes and deltas of a parse.                *)
BranchOf == [frame : Frame, applied : SUBSET Nat, work : [Call -> {0, 1}]]
Covered  == UNION Texts
Scopes   == [kind : {"expression", "semantic"}, text : SUBSET Covered, branch : BranchOf]
Saves    == [depth : Nat \cup {-1}, branch : BranchOf]
Deltas   == [at : Nat, text : SUBSET Covered, writes : [RevKey -> [Key -> Cell]], observed : [RevKey -> Rev],
             saw : SUBSET (RevKey \X Key \X Value), nested : SUBSET Nat,
             work : [Call -> {0, 1}], result : [RevKey -> [Key -> Cell]]]

(* A parse is looked at as its branch b, its scopes s, what it has kept k  *)
(* and its deltas d.  Where it may be, inside a scope and outside of it.   *)
Points(b, s, k) == {b, k.branch, NoBranch} \cup {s[i].branch : i \in DOMAIN s}
Inner(b, s, k, t) ==
    {b} \cup {s[u].branch : u \in {v \in DOMAIN s : v >= t}}
        \cup (IF k.depth >= t THEN {k.branch} ELSE {})
Outer(s, k, t) ==
    {NoBranch} \cup {s[u].branch : u \in {v \in DOMAIN s : v < t}}
        \cup (IF k.depth < t THEN {k.branch} ELSE {})

Agree(f, g) == f.overlay = g.overlay =>
    /\ f.writes = g.writes
    /\ \A rk \in RevKey : Touches(f.writes[rk]) =>
          f.base[rk] = g.base[rk] /\ f.current[rk] = g.current[rk]
Regular(f) == \A rk \in RevKey :
    /\ f.current[rk] # f.base[rk] => Touches(f.writes[rk])
    /\ rk[1] = "invocation" => ~Touches(f.writes[rk])
Onward(f, g) == \A rk \in RevKey :
    /\ f.base[rk] # Unknown => g.base[rk] = f.base[rk]
    /\ \A k \in Key : f.writes[rk][k] # Untouched => g.writes[rk][k] # Untouched
Extends(x, y) ==
    /\ Onward(x.frame, y.frame)
    /\ x.applied \subseteq y.applied
    /\ \A c \in Call : x.work[c] = 1 => y.work[c] = 1

Common(d, A, B, c) == \E j \in A \cap B : d[j].work[c] = 1
Receipts(d, i) == d[i].nested \cup {i}

(* Among the rest, what is applied in a scope is of its text.              *)
ScopeKept(d, x, text, in, out) ==
    /\ \A y \in in : Extends(x, y)
    /\ \A y \in in, z \in out, c \in Call :
          y.work[c] = 1 /\ z.work[c] = 1 /\ x.work[c] = 0 => Common(d, y.applied, z.applied, c)
    /\ \A y \in in : \A j \in y.applied \ x.applied, c \in Call :
          d[j].work[c] = 1 => x.work[c] = 0
    /\ \A y \in in : \A j \in y.applied \ x.applied : d[j].text \subseteq text
Narrowing(s) ==
    /\ \A t \in DOMAIN s : s[t].kind = "expression" => s[t].text # {}
    /\ \A t, u \in DOMAIN s : t =< u => s[u].text \subseteq s[t].text
Scoped(b, s, k, d) ==
    /\ k.depth =< Len(s)
    /\ Narrowing(s)
    /\ \A t \in DOMAIN s : s[t].kind = "expression" =>
          ScopeKept(d, s[t].branch, s[t].text, Inner(b, s, k, t), Outer(s, k, t))
Worked(P, d) ==
    /\ \A x \in P : \A j \in x.applied :
          j \in DOMAIN d /\ \A c \in Call : d[j].work[c] = 1 => x.work[c] = 1
    /\ \A i \in DOMAIN d : d[i].text # {} /\ \A j \in d[i].nested : d[j].text \subseteq d[i].text
    /\ \A i \in DOMAIN d : \A j \in d[i].nested :
          j \in DOMAIN d /\ \A c \in Call : d[j].work[c] = 1 => d[i].work[c] = 1
    /\ \A i \in DOMAIN d, x \in P, c \in Call :
          d[i].work[c] = 1 /\ x.work[c] = 1 => Common(d, Receipts(d, i), x.applied, c)
    /\ \A i, j \in DOMAIN d, c \in Call :
          d[i].work[c] = 1 /\ d[j].work[c] = 1 => Common(d, Receipts(d, i), Receipts(d, j), c)

-----------------------------------------------------------------------------
(* Scopes.                                                                 *)

LEMMA NoBranchType == NoBranch \in BranchOf
  BY NewFrameType DEF NoBranch, BranchOf

LEMMA ExtendsSelf == ASSUME NEW x PROVE Extends(x, x)
  BY DEF Extends, Onward

LEMMA ExtendsOn ==
    ASSUME NEW x, NEW y, NEW z, Extends(x, y), Extends(y, z)
    PROVE  Extends(x, z)
  BY DEF Extends, Onward

LEMMA FewerInScope ==
    ASSUME NEW d, NEW x, NEW text, NEW in, NEW out, ScopeKept(d, x, text, in, out),
           NEW less \in SUBSET in, NEW left \in SUBSET out
    PROVE  ScopeKept(d, x, text, less, left)
  BY DEF ScopeKept

(* Where a scope begins, nothing is in it yet.                             *)
LEMMA ScopeBegins ==
    ASSUME NEW d, NEW x, NEW text, NEW out
    PROVE  ScopeKept(d, x, text, {x}, out)
  BY ExtendsSelf DEF ScopeKept

(* A scope opened inside the others covers no more than they do.           *)
LEMMA NarrowingOn ==
    ASSUME NEW s \in Seq(Scopes), NEW t, DOMAIN t = 1..(Len(s) + 1), Narrowing(s),
           \A i \in DOMAIN s : t[i] = s[i],
           t[Len(s) + 1].kind = "expression" => t[Len(s) + 1].text # {},
           s # <<>> => t[Len(s) + 1].text \subseteq Last(s).text
    PROVE  Narrowing(t)
  <1> DEFINE n == Len(s) + 1
  <1>1. n \in Nat /\ DOMAIN s = 1..(n - 1) /\ DOMAIN t = 1..n
    OBVIOUS
  <1>2. ASSUME NEW i \in DOMAIN t, NEW u \in DOMAIN t, i =< u
        PROVE  t[u].text \subseteq t[i].text
    <2>1. CASE i = n
      BY <1>1, <1>2, <2>1
    <2>2. CASE u # n
      BY <1>1, <1>2, <2>2 DEF Narrowing
    <2>3. CASE i # n /\ u = n
      <3>1. s # <<>> /\ Last(s) = s[n - 1] /\ i \in DOMAIN s /\ n - 1 \in DOMAIN s /\ i =< n - 1
        BY <1>1, <1>2, <2>3 DEF Last
      <3>2. s[n - 1].text \subseteq s[i].text
        BY <3>1 DEF Narrowing
      <3> QED BY <2>3, <3>1, <3>2
    <2> QED BY <2>1, <2>2, <2>3
  <1>3. ASSUME NEW i \in DOMAIN t, t[i].kind = "expression" PROVE t[i].text # {}
    BY <1>1, <1>3 DEF Narrowing
  <1> QED BY <1>2, <1>3 DEF Narrowing

LEMMA OpenScoped ==
    ASSUME NEW b \in BranchOf, NEW s \in Seq(Scopes), NEW k \in Saves, NEW d,
           Scoped(b, s, k, d), NEW kind \in {"expression", "semantic"},
           NEW text \in SUBSET Covered, kind = "expression" => text # {},
           s # <<>> => text \subseteq Last(s).text
    PROVE  LET t == Append(s, [kind |-> kind, text |-> text, branch |-> b]) IN
           /\ t \in Seq(Scopes)
           /\ Scoped(b, t, k, d)
           /\ Points(b, t, k) \subseteq Points(b, s, k)
  <1> DEFINE top == [kind |-> kind, text |-> text, branch |-> b]
             t == Append(s, top)
  <1>1. top \in Scopes
    BY DEF Scopes
  <1>2. top.kind = kind /\ top.text = text /\ top.branch = b
    OBVIOUS
  <1> HIDE DEF top
  <1>3. /\ t \in Seq(Scopes) /\ Len(t) = Len(s) + 1 /\ DOMAIN t = 1..(Len(s) + 1)
        /\ DOMAIN s = 1..Len(s) /\ t[Len(s) + 1] = top /\ Len(s) \in Nat
        /\ \A i \in DOMAIN s : t[i] = s[i]
    BY <1>1
  <1> HIDE DEF t
  <1>4. Points(b, t, k) \subseteq Points(b, s, k)
    BY <1>2, <1>3 DEF Points
  <1>5. k.depth =< Len(s) /\ k.depth \in Int
    BY DEF Scoped, Saves
  <1>6. ASSUME NEW i \in DOMAIN t, t[i].kind = "expression"
        PROVE  ScopeKept(d, t[i].branch, t[i].text, Inner(b, t, k, i), Outer(t, k, i))
    <2>1. CASE i = Len(s) + 1
      <3>1. t[i].branch = b
        BY <1>2, <1>3, <2>1
      <3>2. ~(k.depth >= i)
        BY <1>3, <1>5, <2>1
      <3>3. \A u \in {v \in DOMAIN t : v >= i} : t[u].branch = b
        BY <1>2, <1>3, <2>1
      <3>4. Inner(b, t, k, i) = {b}
        BY <3>2, <3>3 DEF Inner
      <3> QED BY <3>1, <3>4, ScopeBegins
    <2>2. CASE i # Len(s) + 1
      <3>1. i \in DOMAIN s /\ t[i] = s[i]
        BY <1>3, <2>2
      <3>2. \A u \in {v \in DOMAIN t : v >= i} : t[u].branch \in Inner(b, s, k, i)
        BY <1>2, <1>3 DEF Inner
      <3>3. Inner(b, t, k, i) \subseteq Inner(b, s, k, i)
        BY <3>2 DEF Inner
      <3>4. \A u \in {v \in DOMAIN t : v < i} : u \in DOMAIN s /\ t[u] = s[u]
        BY <1>3
      <3>5. Outer(t, k, i) \subseteq Outer(s, k, i)
        BY <3>4 DEF Outer
      <3> QED BY <1>6, <3>1, <3>3, <3>5, FewerInScope DEF Scoped
    <2> QED BY <2>1, <2>2
  <1>7. Narrowing(t)
    BY <1>2, <1>3, NarrowingOn DEF Scoped
  <1>8. Scoped(b, t, k, d)
    BY <1>3, <1>5, <1>6, <1>7 DEF Scoped
  <1> QED BY <1>3, <1>4, <1>8 DEF t, top

LEMMA FrontOf ==
    ASSUME NEW S, NEW s \in Seq(S), s # <<>>
    PROVE  /\ Len(s) \in Nat \ {0} /\ DOMAIN s = 1..Len(s) /\ s[Len(s)] \in S
           /\ Front(s) \in Seq(S) /\ Len(Front(s)) = Len(s) - 1
           /\ DOMAIN Front(s) = 1..(Len(s) - 1)
           /\ \A i \in 1..(Len(s) - 1) : Front(s)[i] = s[i]
  <1> DEFINE n == Len(s)
  <1>1. n \in Nat \ {0} /\ DOMAIN s = 1..n /\ \A i \in 1..n : s[i] \in S
    OBVIOUS
  <1>2. Front(s) = [i \in 1..(n - 1) |-> s[i]]
    BY <1>1 DEF Front
  <1>3. Front(s) \in Seq(S)
    BY <1>1 DEF Front
  <1>4. Len(Front(s)) = n - 1
    BY <1>1 DEF Front
  <1> QED BY <1>1, <1>2, <1>3, <1>4

(* A scope is left, where it began or where it led to.                     *)
Forgotten(k, n) == IF k.depth = n THEN [depth |-> -1, branch |-> NoBranch] ELSE k

LEMMA CloseScoped ==
    ASSUME NEW b \in BranchOf, NEW s \in Seq(Scopes), NEW k \in Saves, NEW d,
           Scoped(b, s, k, d), s # <<>>, NEW e \in {b, Last(s).branch}
    PROVE  /\ Front(s) \in Seq(Scopes) /\ Forgotten(k, Len(s)) \in Saves
           /\ Last(s) \in Scopes
           /\ Scoped(e, Front(s), Forgotten(k, Len(s)), d)
           /\ Points(e, Front(s), Forgotten(k, Len(s))) \subseteq Points(b, s, k)
  <1> DEFINE t == Front(s)
             n == Len(s)
             l == Forgotten(k, Len(s))
  <1>1. /\ n \in Nat \ {0} /\ DOMAIN s = 1..n
        /\ t \in Seq(Scopes) /\ Len(t) = n - 1 /\ DOMAIN t = 1..(n - 1)
        /\ \A i \in DOMAIN t : t[i] = s[i]
        /\ Last(s) = s[n] /\ s[n] \in Scopes
    BY FrontOf DEF Last
  <1>2. k.depth \in Nat \cup {-1} /\ k.depth =< n
    BY DEF Scoped, Saves
  <1>3. /\ l \in Saves /\ l.depth =< n - 1
        /\ l = k \/ (l.depth = -1 /\ l.branch = NoBranch)
    BY <1>1, <1>2, NoBranchType DEF Forgotten, Saves
  <1> HIDE DEF t, n, l
  <1>4. Points(e, t, l) \subseteq Points(b, s, k)
    BY <1>1, <1>3 DEF Points
  <1>5. ASSUME NEW i \in DOMAIN t, t[i].kind = "expression"
        PROVE  ScopeKept(d, t[i].branch, t[i].text, Inner(e, t, l, i), Outer(t, l, i))
    <2>1. i \in DOMAIN s /\ t[i] = s[i] /\ i \in 1..(n - 1)
      BY <1>1
    <2>2. \A u \in {v \in DOMAIN t : v >= i} : t[u].branch \in Inner(b, s, k, i)
      BY <1>1 DEF Inner
    <2>3. e \in Inner(b, s, k, i)
      BY <1>1, <2>1 DEF Inner
    <2>4. l.depth >= i => l.branch \in Inner(b, s, k, i)
      BY <1>3, <2>1 DEF Inner
    <2>5. Inner(e, t, l, i) \subseteq Inner(b, s, k, i)
      BY <2>2, <2>3, <2>4 DEF Inner
    <2>6. \A u \in {v \in DOMAIN t : v < i} : t[u].branch \in Outer(s, k, i)
      BY <1>1 DEF Outer
    <2>7. l.depth < i => l.branch \in Outer(s, k, i)
      BY <1>3 DEF Outer
    <2>8. Outer(t, l, i) \subseteq Outer(s, k, i)
      BY <2>6, <2>7 DEF Outer
    <2> QED BY <1>5, <2>1, <2>5, <2>8, FewerInScope DEF Scoped
  <1>6. Scoped(e, t, l, d)
    <2>1. Narrowing(t)
      BY <1>1 DEF Scoped, Narrowing
    <2> QED BY <1>1, <1>3, <1>5, <2>1 DEF Scoped
  <1> QED BY <1>1, <1>3, <1>4, <1>6 DEF t, l, n

(* What the innermost scope did is kept, and it begins again.              *)
LEMMA KeepScoped ==
    ASSUME NEW b \in BranchOf, NEW s \in Seq(Scopes), NEW k \in Saves, NEW d,
           Scoped(b, s, k, d), s # <<>>
    PROVE  LET l == [depth |-> Len(s), branch |-> b] IN
           /\ l \in Saves /\ Last(s) \in Scopes
           /\ Scoped(Last(s).branch, s, l, d)
           /\ Points(Last(s).branch, s, l) \subseteq Points(b, s, k)
  <1> DEFINE l == [depth |-> Len(s), branch |-> b]
             n == Len(s)
             e == Last(s).branch
  <1>1. /\ n \in Nat \ {0} /\ DOMAIN s = 1..n
        /\ Last(s) = s[n] /\ s[n] \in Scopes /\ e = s[n].branch
    BY DEF Last
  <1>2. l \in Saves /\ l.depth = n /\ l.branch = b
    BY <1>1 DEF Saves
  <1> HIDE DEF l, n, e
  <1>3. Points(e, s, l) \subseteq Points(b, s, k)
    BY <1>1, <1>2 DEF Points
  <1>4. ASSUME NEW i \in DOMAIN s, s[i].kind = "expression"
        PROVE  ScopeKept(d, s[i].branch, s[i].text, Inner(e, s, l, i), Outer(s, l, i))
    <2>1. Inner(e, s, l, i) \subseteq Inner(b, s, k, i)
      BY <1>1, <1>2 DEF Inner
    <2>2. ~(l.depth < i)
      BY <1>1, <1>2
    <2>3. Outer(s, l, i) \subseteq Outer(s, k, i)
      BY <2>2 DEF Outer
    <2> QED BY <1>4, <2>1, <2>3, FewerInScope DEF Scoped
  <1>5. Scoped(e, s, l, d)
    BY <1>1, <1>2, <1>4 DEF Scoped, n
  <1> QED BY <1>1, <1>2, <1>3, <1>5 DEF l, e, n

(* What was kept is resumed, in a scope of its own.                        *)
LEMMA ActivateScoped ==
    ASSUME NEW b \in BranchOf, NEW s \in Seq(Scopes), NEW k \in Saves, NEW d,
           Scoped(b, s, k, d), k.depth = Len(s), NEW text \in SUBSET Covered,
           s # <<>> => text \subseteq Last(s).text
    PROVE  LET t == Append(s, [kind |-> "semantic", text |-> text, branch |-> b]) IN
           /\ t \in Seq(Scopes)
           /\ Scoped(k.branch, t, k, d)
           /\ Points(k.branch, t, k) \subseteq Points(b, s, k)
  <1> DEFINE top == [kind |-> "semantic", text |-> text, branch |-> b]
             t == Append(s, top)
  <1>1. top \in Scopes
    BY DEF Scopes
  <1>2. top.kind = "semantic" /\ top.text = text /\ top.branch = b
    OBVIOUS
  <1> HIDE DEF top
  <1>3. /\ t \in Seq(Scopes) /\ Len(t) = Len(s) + 1 /\ DOMAIN t = 1..(Len(s) + 1)
        /\ DOMAIN s = 1..Len(s) /\ t[Len(s) + 1] = top /\ Len(s) \in Nat
        /\ \A i \in DOMAIN s : t[i] = s[i]
    BY <1>1
  <1> HIDE DEF t
  <1>4. Points(k.branch, t, k) \subseteq Points(b, s, k)
    BY <1>2, <1>3 DEF Points
  <1>5. ASSUME NEW i \in DOMAIN t, t[i].kind = "expression"
        PROVE  ScopeKept(d, t[i].branch, t[i].text, Inner(k.branch, t, k, i), Outer(t, k, i))
    <2>1. i # Len(s) + 1
      BY <1>2, <1>3, <1>5
    <2>2. i \in DOMAIN s /\ t[i] = s[i] /\ k.depth >= i
      BY <1>3, <2>1
    <2>3. \A u \in {v \in DOMAIN t : v >= i} : t[u].branch \in Inner(b, s, k, i)
      BY <1>2, <1>3 DEF Inner
    <2>4. Inner(k.branch, t, k, i) \subseteq Inner(b, s, k, i)
      BY <2>2, <2>3 DEF Inner
    <2>5. \A u \in {v \in DOMAIN t : v < i} : u \in DOMAIN s /\ t[u] = s[u]
      BY <1>3, <2>2
    <2>6. Outer(t, k, i) \subseteq Outer(s, k, i)
      BY <2>5 DEF Outer
    <2> QED BY <1>5, <2>2, <2>4, <2>6, FewerInScope DEF Scoped
  <1>6. Scoped(k.branch, t, k, d)
    <2>1. Narrowing(t)
      BY <1>2, <1>3, NarrowingOn DEF Scoped
    <2> QED BY <1>3, <1>5, <2>1 DEF Scoped
  <1> QED BY <1>3, <1>4, <1>6 DEF t, top

(* A branch goes on from b to e: whatever work it adds, the other branches *)
(* that have it, P, share a receipt with it, and the receipts it adds are  *)
(* for new work only.                                                      *)
Adds(b, e, P, d) ==
    /\ Extends(b, e)
    /\ \A z \in P, c \in Call :
          e.work[c] = 1 /\ b.work[c] # 1 /\ z.work[c] = 1 => Common(d, e.applied, z.applied, c)
    /\ \A j \in e.applied \ b.applied, c \in Call : d[j].work[c] = 1 => b.work[c] # 1

(* The nodes it adds are of the text of every candidate being parsed.      *)
Inside(b, e, s, d) ==
    \A j \in e.applied \ b.applied, t \in DOMAIN s :
        s[t].kind = "expression" => d[j].text \subseteq s[t].text

LEMMA GrowScoped ==
    ASSUME NEW b \in BranchOf, NEW e \in BranchOf, NEW s \in Seq(Scopes), NEW k \in Saves, NEW d,
           Scoped(b, s, k, d), Adds(b, e, Points(b, s, k), d), Inside(b, e, s, d)
    PROVE  Scoped(e, s, k, d)
  <1> SUFFICES ASSUME NEW t \in DOMAIN s, s[t].kind = "expression"
               PROVE  ScopeKept(d, s[t].branch, s[t].text, Inner(e, s, k, t), Outer(s, k, t))
    BY DEF Scoped
  <1> DEFINE x == s[t].branch
             in == Inner(b, s, k, t)
             out == Outer(s, k, t)
  <1>1. ScopeKept(d, x, s[t].text, in, out)
    BY DEF Scoped
  <1>2. x \in BranchOf
    <2>1. s[t] \in Scopes
      OBVIOUS
    <2> QED BY <2>1 DEF Scopes
  <1>3. Inner(e, s, k, t) \subseteq in \cup {e} /\ b \in in
    BY DEF Inner
  <1>4. out \subseteq Points(b, s, k)
    BY DEF Outer, Points
  <1> HIDE DEF x, in, out
  <1>5. Extends(x, b) /\ Extends(x, e)
    BY <1>1, <1>3, ExtendsOn DEF ScopeKept, Adds
  <1>6. ASSUME NEW z \in out, NEW c \in Call,
               e.work[c] = 1, z.work[c] = 1, x.work[c] = 0
        PROVE  Common(d, e.applied, z.applied, c)
    <2>1. CASE b.work[c] = 1
      <3>1. Common(d, b.applied, z.applied, c)
        BY <1>1, <1>3, <1>6, <2>1 DEF ScopeKept
      <3> QED BY <3>1 DEF Adds, Extends, Common
    <2>2. CASE b.work[c] # 1
      BY <1>4, <1>6, <2>2 DEF Adds
    <2> QED BY <2>1, <2>2
  <1>7. ASSUME NEW j \in e.applied \ x.applied, NEW c \in Call, d[j].work[c] = 1
        PROVE  x.work[c] = 0
    <2>1. CASE j \in b.applied
      BY <1>1, <1>3, <1>7, <2>1 DEF ScopeKept
    <2>2. CASE j \notin b.applied
      <3>1. b.work[c] # 1
        BY <1>7, <2>2 DEF Adds
      <3>2. x.work[c] # 1
        BY <1>5, <3>1 DEF Extends
      <3> QED BY <1>2, <3>2 DEF BranchOf
    <2> QED BY <2>1, <2>2
  <1>8. \A j \in e.applied \ x.applied : d[j].text \subseteq s[t].text
    BY <1>1, <1>3 DEF ScopeKept, Inside
  <1>9. ScopeKept(d, x, s[t].text, in \cup {e}, out)
    BY <1>1, <1>5, <1>6, <1>7, <1>8 DEF ScopeKept
  <1> QED BY <1>3, <1>9, FewerInScope DEF x, out

-----------------------------------------------------------------------------
(* Work.                                                                   *)

(* An accepted call is new to every branch and delta.                      *)
LEMMA AcceptedAdds ==
    ASSUME NEW b \in BranchOf, NEW e \in BranchOf, NEW P, NEW d \in Seq(Deltas),
           NEW c \in Call, \A z \in P : z.work[c] = 0,
           Onward(b.frame, e.frame), e.applied = b.applied, b \in P,
           e.work = [b.work EXCEPT ![c] = 1]
    PROVE  Adds(b, e, P, d)
  <1>1. /\ e.work[c] = 1 /\ b.work[c] = 0
        /\ \A a \in Call \ {c} : e.work[a] = b.work[a]
    BY DEF BranchOf
  <1> QED BY <1>1 DEF Adds, Extends

LEMMA AcceptedWorked ==
    ASSUME NEW P, NEW d \in Seq(Deltas), Worked(P, d), NEW b \in P, NEW e,
           NEW c \in Call, \A z \in P : z.work[c] = 0,
           \A i \in DOMAIN d : d[i].work[c] = 0,
           e.applied = b.applied, e.work = [b.work EXCEPT ![c] = 1], b \in BranchOf
    PROVE  Worked(P \cup {e}, d)
  <1>1. /\ e.work[c] = 1 /\ \A a \in Call \ {c} : e.work[a] = b.work[a]
    BY DEF BranchOf
  <1>2. \A j \in e.applied :
           j \in DOMAIN d /\ \A a \in Call : d[j].work[a] = 1 => e.work[a] = 1
    BY <1>1 DEF Worked
  <1>3. \A i \in DOMAIN d, a \in Call :
           d[i].work[a] = 1 /\ e.work[a] = 1 => Common(d, Receipts(d, i), e.applied, a)
    BY <1>1 DEF Worked
  <1> QED BY <1>2, <1>3 DEF Worked

(* A branch that has neither receipts nor work of its own.                 *)
LEMMA SameWorked ==
    ASSUME NEW P, NEW d, Worked(P, d), NEW b \in P, NEW e,
           e.applied = b.applied, e.work = b.work
    PROVE  Worked(P \cup {e}, d)
  BY DEF Worked

LEMMA FewerWorked ==
    ASSUME NEW P, NEW d, Worked(P, d), NEW Q \in SUBSET P
    PROVE  Worked(Q, d)
  BY DEF Worked

(* What a selected delta adds.                                             *)
Selects(b, e, d, i) ==
    /\ Receipts(d, i) \cap b.applied = {}
    /\ e.applied = b.applied \cup Receipts(d, i)
    /\ e.work = [c \in Call |-> b.work[c] + d[i].work[c]]

LEMMA SelectedOnce ==
    ASSUME NEW P, NEW d \in Seq(Deltas), Worked(P, d), NEW b \in P, b \in BranchOf, NEW e,
           NEW i \in DOMAIN d, Selects(b, e, d, i)
    PROVE  /\ \A c \in Call : ~(d[i].work[c] = 1 /\ b.work[c] = 1)
           /\ e.work \in [Call -> {0, 1}]
           /\ \A c \in Call : e.work[c] = 1 <=> b.work[c] = 1 \/ d[i].work[c] = 1
  <1>1. ASSUME NEW c \in Call PROVE ~(d[i].work[c] = 1 /\ b.work[c] = 1)
    BY DEF Worked, Common, Selects
  <1>2. d[i] \in Deltas
    OBVIOUS
  <1>3. ASSUME NEW c \in Call PROVE b.work[c] \in {0, 1} /\ d[i].work[c] \in {0, 1}
    BY <1>2 DEF BranchOf, Deltas
  <1>4. ASSUME NEW c \in Call
        PROVE  /\ b.work[c] + d[i].work[c] \in {0, 1}
               /\ b.work[c] + d[i].work[c] = 1 <=> b.work[c] = 1 \/ d[i].work[c] = 1
    BY <1>1, <1>3
  <1> QED BY <1>1, <1>4 DEF Selects

LEMMA SelectAdds ==
    ASSUME NEW P, NEW d \in Seq(Deltas), Worked(P, d), NEW b \in P, b \in BranchOf, NEW e,
           NEW i \in DOMAIN d, Selects(b, e, d, i), Onward(b.frame, e.frame)
    PROVE  Adds(b, e, P, d) /\ Worked(P \cup {e}, d)
  <1>1. /\ \A c \in Call : ~(d[i].work[c] = 1 /\ b.work[c] = 1)
        /\ \A c \in Call : e.work[c] = 1 <=> b.work[c] = 1 \/ d[i].work[c] = 1
    BY SelectedOnce
  <1>2. e.applied = b.applied \cup Receipts(d, i)
    BY DEF Selects
  <1>3. ASSUME NEW j \in Receipts(d, i)
        PROVE  /\ j \in DOMAIN d
               /\ \A c \in Call : d[j].work[c] = 1 => d[i].work[c] = 1
    BY DEF Receipts, Worked
  <1>4. Extends(b, e)
    BY <1>1, <1>2 DEF Extends
  <1>5. ASSUME NEW z \in P, NEW c \in Call, e.work[c] = 1, b.work[c] # 1, z.work[c] = 1
        PROVE  Common(d, e.applied, z.applied, c)
    <2>1. Common(d, Receipts(d, i), z.applied, c)
      BY <1>1, <1>5 DEF Worked
    <2> QED BY <1>2, <2>1 DEF Common
  <1>6. \A j \in e.applied \ b.applied, c \in Call : d[j].work[c] = 1 => b.work[c] # 1
    BY <1>1, <1>2, <1>3
  <1>7. Adds(b, e, P, d)
    BY <1>4, <1>5, <1>6 DEF Adds
  <1>8. \A j \in e.applied :
           j \in DOMAIN d /\ \A c \in Call : d[j].work[c] = 1 => e.work[c] = 1
    BY <1>1, <1>2, <1>3 DEF Worked
  <1>9. ASSUME NEW n \in DOMAIN d, NEW c \in Call, d[n].work[c] = 1, e.work[c] = 1
        PROVE  Common(d, Receipts(d, n), e.applied, c)
    <2>1. CASE b.work[c] = 1
      <3>1. Common(d, Receipts(d, n), b.applied, c)
        BY <1>9, <2>1 DEF Worked
      <3> QED BY <1>2, <3>1 DEF Common
    <2>2. CASE d[i].work[c] = 1
      <3>1. Common(d, Receipts(d, n), Receipts(d, i), c)
        BY <1>9, <2>2 DEF Worked
      <3> QED BY <1>2, <3>1 DEF Common
    <2> QED BY <1>1, <1>9, <2>1, <2>2
  <1>10. Worked(P \cup {e}, d)
    BY <1>8, <1>9 DEF Worked
  <1> QED BY <1>7, <1>10
(* A new delta at the end leaves what is known about the others.           *)
Longer(d, e) == DOMAIN d \subseteq DOMAIN e /\ \A j \in DOMAIN d : e[j] = d[j]

LEMMA MoreScoped ==
    ASSUME NEW b, NEW s, NEW k, NEW d, NEW e, Scoped(b, s, k, d),
           Worked(Points(b, s, k), d), Longer(d, e)
    PROVE  Scoped(b, s, k, e)
  <1> SUFFICES ASSUME NEW t \in DOMAIN s, s[t].kind = "expression"
               PROVE  ScopeKept(e, s[t].branch, s[t].text, Inner(b, s, k, t), Outer(s, k, t))
    BY DEF Scoped
  <1> DEFINE x == s[t].branch
             in == Inner(b, s, k, t)
             out == Outer(s, k, t)
             P == Points(b, s, k)
  <1>1. ScopeKept(d, x, s[t].text, in, out)
    BY DEF Scoped
  <1>2. in \subseteq P /\ out \subseteq P
    BY DEF Inner, Outer, Points
  <1>3. \A y \in P : y.applied \subseteq DOMAIN d
    BY DEF Worked
  <1> HIDE DEF x, in, out, P
  <1>4. \A y \in in, z \in out, c \in Call :
           Common(d, y.applied, z.applied, c) => Common(e, y.applied, z.applied, c)
    BY <1>2, <1>3 DEF Common, Longer
  <1>5. \A y \in in : \A j \in y.applied \ x.applied : e[j] = d[j]
    BY <1>2, <1>3 DEF Longer
  <1> QED BY <1>1, <1>4, <1>5 DEF ScopeKept, x, in, out

(* What a delta holds of the work of a branch since x.                     *)
Holds(delta, b, x) ==
    /\ delta.nested = b.applied \ x.applied
    /\ \A c \in Call : delta.work[c] = 1 <=> b.work[c] = 1 /\ x.work[c] # 1

LEMMA DeferWorked ==
    ASSUME NEW P, NEW out \in SUBSET P, NEW d, Worked(P, d), NEW b \in P, NEW x \in P,
           NEW text, text # {}, ScopeKept(d, x, text, {b}, out), \A c \in Call : x.work[c] \in {0, 1},
           NEW n, n \notin DOMAIN d, NEW e, DOMAIN e = DOMAIN d \cup {n}, Longer(d, e),
           Holds(e[n], b, x), e[n].text = text
    PROVE  Worked(out \cup {x}, e)
  <1> DEFINE Q == out \cup {x}
  <1>1. /\ \A y \in P : \A j \in y.applied :
              j \in DOMAIN d /\ \A c \in Call : d[j].work[c] = 1 => y.work[c] = 1
        /\ \A i \in DOMAIN d : \A j \in d[i].nested :
              j \in DOMAIN d /\ \A c \in Call : d[j].work[c] = 1 => d[i].work[c] = 1
        /\ \A i \in DOMAIN d, y \in P, c \in Call :
              d[i].work[c] = 1 /\ y.work[c] = 1 => Common(d, Receipts(d, i), y.applied, c)
        /\ \A i, j \in DOMAIN d, c \in Call :
              d[i].work[c] = 1 /\ d[j].work[c] = 1
                => Common(d, Receipts(d, i), Receipts(d, j), c)
    BY DEF Worked
  <1>2. /\ e[n].nested = b.applied \ x.applied
        /\ \A c \in Call : e[n].work[c] = 1 <=> b.work[c] = 1 /\ x.work[c] # 1
        /\ DOMAIN e = DOMAIN d \cup {n} /\ \A j \in DOMAIN d : e[j] = d[j]
    BY DEF Holds, Longer
  <1>3. \A j \in e[n].nested :
           j \in DOMAIN d /\ \A c \in Call : d[j].work[c] = 1 => e[n].work[c] = 1
    BY <1>1, <1>2 DEF ScopeKept
  <1>4. ASSUME NEW i \in DOMAIN d
        PROVE  Receipts(e, i) = Receipts(d, i) /\ Receipts(d, i) \subseteq DOMAIN d
    BY <1>1, <1>2 DEF Receipts
  <1>5. ASSUME NEW A, NEW B, A \subseteq DOMAIN d \/ B \subseteq DOMAIN d, NEW c \in Call,
               Common(d, A, B, c)
        PROVE  Common(e, A, B, c)
    BY <1>2, <1>5 DEF Common
  <1>6. Q \subseteq P /\ \A y \in Q : y.applied \subseteq DOMAIN d
    BY <1>1
  <1>7. ASSUME NEW y \in Q, NEW c \in Call, e[n].work[c] = 1, y.work[c] = 1
        PROVE  Common(e, Receipts(e, n), y.applied, c)
    <2>1. y \in out /\ b.work[c] = 1 /\ x.work[c] = 0
      BY <1>2, <1>7
    <2>2. PICK j \in b.applied \cap y.applied : d[j].work[c] = 1
      BY <1>7, <2>1 DEF ScopeKept, Common
    <2>3. j \in e[n].nested /\ e[j].work[c] = 1
      BY <1>1, <1>2, <2>1, <2>2
    <2> QED BY <2>2, <2>3 DEF Common, Receipts
  <1>8. ASSUME NEW i \in DOMAIN d, NEW c \in Call, e[n].work[c] = 1, d[i].work[c] = 1
        PROVE  Common(e, Receipts(e, n), Receipts(e, i), c) /\ Common(e, Receipts(e, i), Receipts(e, n), c)
    <2>1. b.work[c] = 1 /\ x.work[c] # 1
      BY <1>2, <1>8
    <2>2. PICK j \in Receipts(d, i) \cap b.applied : d[j].work[c] = 1
      BY <1>1, <1>8, <2>1 DEF Common
    <2>3. j \in e[n].nested /\ e[j].work[c] = 1
      BY <1>1, <1>2, <2>1, <2>2
    <2> QED BY <1>4, <2>2, <2>3 DEF Common, Receipts
  <1>9. \A c \in Call : e[n].work[c] = 1 => Common(e, Receipts(e, n), Receipts(e, n), c)
    BY DEF Common, Receipts
  <1>10. /\ \A y \in Q : \A j \in y.applied :
               j \in DOMAIN e /\ \A c \in Call : e[j].work[c] = 1 => y.work[c] = 1
         /\ \A i \in DOMAIN e : \A j \in e[i].nested :
               j \in DOMAIN e /\ \A c \in Call : e[j].work[c] = 1 => e[i].work[c] = 1
    BY <1>1, <1>2, <1>3, <1>6
  <1>11. ASSUME NEW i \in DOMAIN e, NEW y \in Q, NEW c \in Call, e[i].work[c] = 1, y.work[c] = 1
         PROVE  Common(e, Receipts(e, i), y.applied, c)
    <2>1. CASE i = n
      BY <1>7, <1>11, <2>1
    <2>2. CASE i # n
      <3>1. i \in DOMAIN d /\ y \in P /\ d[i].work[c] = 1
        BY <1>2, <1>6, <1>11, <2>2
      <3>2. Common(d, Receipts(d, i), y.applied, c)
        BY <1>1, <1>11, <3>1
      <3> QED BY <1>4, <1>5, <3>1, <3>2
    <2> QED BY <2>1, <2>2
  <1>12. ASSUME NEW i \in DOMAIN e, NEW j \in DOMAIN e, NEW c \in Call,
                e[i].work[c] = 1, e[j].work[c] = 1
         PROVE  Common(e, Receipts(e, i), Receipts(e, j), c)
    <2>1. CASE i = n \/ j = n
      BY <1>2, <1>8, <1>9, <1>12, <2>1
    <2>2. CASE i # n /\ j # n
      <3>1. i \in DOMAIN d /\ j \in DOMAIN d /\ d[i].work[c] = 1 /\ d[j].work[c] = 1
        BY <1>2, <1>12, <2>2
      <3>2. Common(d, Receipts(d, i), Receipts(d, j), c)
        BY <1>1, <3>1
      <3> QED BY <1>4, <1>5, <3>1, <3>2
    <2> QED BY <2>1, <2>2
  <1>13. \A i \in DOMAIN e : e[i].text # {} /\ \A j \in e[i].nested : e[j].text \subseteq e[i].text
    <2>1. \A j \in e[n].nested : j \in DOMAIN d /\ d[j].text \subseteq text
      BY <1>2, <1>3 DEF ScopeKept
    <2>2. \A i \in DOMAIN d : d[i].text # {} /\ \A j \in d[i].nested : d[j].text \subseteq d[i].text
      BY DEF Worked
    <2> QED BY <1>1, <1>2, <2>1, <2>2
  <1> QED BY <1>10, <1>11, <1>12, <1>13 DEF Worked
-----------------------------------------------------------------------------
(* Frames.                                                                 *)

(* A frame the parse p may continue from: what it knows holds of the       *)
(* store, and if it does not, another parse has committed.                 *)
Held(p, f) ==
    /\ f \in Frame
    /\ FrameSound(p.doc, f) /\ Regular(f) /\ Cause(p, f.base)

(* The frame goes on from f to g, under the same overlay number or a new   *)
(* one: m before the step, n after it.                                     *)
SameName(f, g) ==
    /\ g.overlay = f.overlay /\ g.writes = f.writes
    /\ \A rk \in RevKey : Touches(f.writes[rk]) =>
          g.base[rk] = f.base[rk] /\ g.current[rk] = f.current[rk]
Grows(f, g, m, n) ==
    /\ Onward(f, g)
    /\ \/ SameName(f, g) /\ n = m
       \/ g.overlay = m /\ n = m + 1

LEMMA NewHeld ==
    ASSUME NEW p \in Parse, FrameSound(p.doc, NewFrame)
    PROVE  Held(p, NewFrame)
  <1>1. \A rk \in RevKey : NewFrame.base[rk] = Unknown /\ NewFrame.current[rk] = Unknown
    BY DEF NewFrame, NoRevs
  <1>2. \A rk \in RevKey : ~Touches(NewFrame.writes[rk])
    BY NoWritesTouch DEF NewFrame
  <1> QED BY <1>1, <1>2, NewFrameType DEF Held, Regular, Cause

LEMMA LearnHeld ==
    ASSUME TypeOK, NEW p \in Parse, NEW f, Held(p, f), NEW rk \in RevKey, NEW m \in Nat
    PROVE  Held(p, Learn(f, rk)) /\ Grows(f, Learn(f, rk), m, m)
  <1> DEFINE g == Learn(f, rk)
  <1>1. f \in Frame /\ FrameSound(p.doc, f) /\ Regular(f) /\ Cause(p, f.base) /\ p.doc \in Doc
    BY ParseAssumption DEF Held
  <1>2. g \in Frame /\ FrameSound(p.doc, g)
    BY <1>1, LearnType, LearnSound DEF TypeOK
  <1>3. g.writes = f.writes /\ g.overlay = f.overlay
    BY <1>1 DEF Learn, Frame
  <1>4. ASSUME NEW x \in RevKey
        PROVE  \/ g.base[x] = f.base[x] /\ g.current[x] = f.current[x]
               \/ f.current[x] = Unknown /\ g.base[x] = rev[x] /\ g.current[x] = rev[x]
    BY <1>1 DEF Learn, Frame
  <1>5. \A x \in RevKey : f.current[x] = Unknown => f.base[x] = Unknown /\ ~Touches(f.writes[x])
    BY <1>1 DEF FrameSound, BaseKnown, WritesSound
  <1> HIDE DEF g
  <1>6. Regular(g) /\ Cause(p, g.base)
    BY <1>1, <1>3, <1>4 DEF Regular, Cause
  <1>7. SameName(f, g) /\ Onward(f, g)
    BY <1>3, <1>4, <1>5 DEF SameName, Onward
  <1> QED BY <1>2, <1>6, <1>7 DEF Held, Grows, g

(* What applying a call or a delta to a frame does.                        *)
Absorbs(g, cs, m, h) ==
    /\ h \in Frame
    /\ h.overlay = IF Touched(cs.writes) = {} THEN g.overlay ELSE m
    /\ h.saw = g.saw \cup cs.saw
    /\ \A rk \in RevKey :
          /\ h.base[rk] = IF g.base[rk] = Unknown THEN cs.observed[rk] ELSE g.base[rk]
          /\ rk \notin Touched(cs.writes) =>
                h.current[rk] = IF g.current[rk] = Unknown THEN cs.observed[rk]
                                ELSE g.current[rk]
          /\ rk \in Touched(cs.writes) => h.current[rk] # Unknown
          /\ \A k \in Key : h.writes[rk][k] =
                IF rk \in Touched(cs.writes) /\ cs.writes[rk][k] # Untouched
                THEN cs.writes[rk][k] ELSE g.writes[rk][k]

LEMMA AbsorbFields ==
    ASSUME NEW g \in Frame, NEW cs, cs.writes \in [RevKey -> [Key -> Cell]],
           cs.observed \in [RevKey -> Rev], cs.saw \in SUBSET (RevKey \X Key \X Value),
           NEW m \in Nat
    PROVE  Absorbs(g, cs, m, Absorb(g, cs, m))
  <1> DEFINE known == [rk \in RevKey |->
                    IF g.current[rk] = Unknown THEN cs.observed[rk] ELSE g.current[rk]]
             base == [rk \in RevKey |->
                    IF g.base[rk] = Unknown THEN cs.observed[rk] ELSE g.base[rk]]
             writes == [rk \in RevKey |-> [k \in Key |->
                        IF rk \in Touched(cs.writes) /\ cs.writes[rk][k] # Untouched
                        THEN cs.writes[rk][k] ELSE g.writes[rk][k]]]
             current == [rk \in RevKey |->
                        IF rk \notin Touched(cs.writes) THEN known[rk]
                        ELSE IF known[rk] = Unknown THEN 1 ELSE known[rk] + 1]
             overlay == IF Touched(cs.writes) = {} THEN g.overlay ELSE m
  <1>1. /\ cs.writes \in [RevKey -> [Key -> Cell]] /\ cs.observed \in [RevKey -> Rev]
        /\ cs.saw \in SUBSET (RevKey \X Key \X Value)
        /\ g.writes \in [RevKey -> [Key -> Cell]] /\ g.base \in [RevKey -> Rev]
        /\ g.current \in [RevKey -> Rev] /\ g.overlay \in Nat
        /\ g.saw \in SUBSET (RevKey \X Key \X Value)
    BY DEF Frame
  <1>2. known \in [RevKey -> Rev] /\ base \in [RevKey -> Rev]
    BY <1>1
  <1>3. writes \in [RevKey -> [Key -> Cell]]
    BY <1>1
  <1>4. \A rk \in RevKey : known[rk] = Unknown \/ (known[rk] \in Nat /\ known[rk] + 1 # Unknown)
    BY <1>2 DEF Rev, Unknown
  <1>5. current \in [RevKey -> Rev]
    BY <1>4 DEF Rev
  <1>6. \A rk \in RevKey : rk \in Touched(cs.writes) => current[rk] # Unknown
    BY <1>4 DEF Unknown
  <1>7. overlay \in Nat /\ g.saw \cup cs.saw \in SUBSET (RevKey \X Key \X Value)
    BY <1>1
  <1>8. Absorb(g, cs, m) = [writes |-> writes, base |-> base, current |-> current,
                            overlay |-> overlay, saw |-> g.saw \cup cs.saw]
    BY DEF Absorb, OverlayNumber
  <1>9. \A rk \in RevKey : rk \notin Touched(cs.writes) => current[rk] = known[rk]
    OBVIOUS
  <1> HIDE DEF writes, current
  <1>10. Absorb(g, cs, m) \in Frame
    BY <1>2, <1>3, <1>5, <1>7, <1>8 DEF Frame
  <1> QED BY <1>6, <1>8, <1>9, <1>10 DEF Absorbs, writes

LEMMA MergeHeld ==
    ASSUME TypeOK, NEW c \in Call, CallSound(c), Held(c.parse, frame[c.parse]),
           WithinQuota(c.parse, call[c].writes), NEW m \in Nat
    PROVE  LET g == Absorb(frame[c.parse], call[c], m)
               n == IF Touched(call[c].writes) = {} THEN m ELSE m + 1 IN
           Held(c.parse, g) /\ Grows(frame[c.parse], g, m, n)
  <1> DEFINE p == c.parse
             f == frame[c.parse]
             cs == call[c]
             T == Touched(call[c].writes)
             g == Absorb(frame[c.parse], call[c], m)
             n == IF T = {} THEN m ELSE m + 1
  <1>1. p \in Parse /\ f \in Frame /\ cs \in CallState
    BY CallAssumption DEF TypeOK
  <1>2. FrameSound(p.doc, f) /\ Regular(f) /\ Cause(p, f.base)
    BY DEF Held
  <1>3. FrameSound(p.doc, g) /\ g.base = f.base
    BY <1>2, AbsorbSound
  <1>4. Absorbs(f, cs, m, g)
    <2>1. /\ cs.writes \in [RevKey -> [Key -> Cell]] /\ cs.observed \in [RevKey -> Rev]
          /\ cs.saw \in SUBSET (RevKey \X Key \X Value)
      BY <1>1 DEF CallState
    <2> QED BY <1>1, <2>1, AbsorbFields
  <1>5. \A rk \in RevKey : f.current[rk] = Unknown => cs.observed[rk] = Unknown
    BY <1>2 DEF CallSound, FrameSound, BaseKnown
  <1>6. \A rk \in RevKey : rk \in T =>
           rk[1] # "invocation" /\ \E k \in Key : cs.writes[rk][k] # Untouched
    BY DEF Touched, Touches
  <1>7. f.writes \in [RevKey -> [Key -> Cell]] /\ g.writes \in [RevKey -> [Key -> Cell]]
    BY <1>1, <1>4 DEF Absorbs, Frame
  <1> HIDE DEF p, f, cs, g
  <1>8. Onward(f, g)
    BY <1>3, <1>4 DEF Onward, Absorbs
  <1>9. \A rk \in RevKey : rk \notin T =>
           g.current[rk] = f.current[rk] /\ g.writes[rk] = f.writes[rk]
    BY <1>4, <1>5, <1>7 DEF Absorbs, cs
  <1>10. \A rk \in RevKey : rk \in T => Touches(g.writes[rk])
    BY <1>4, <1>6 DEF Touches, Absorbs, cs
  <1>11. Regular(g)
    BY <1>2, <1>3, <1>6, <1>9, <1>10 DEF Regular
  <1>12. T = {} => SameName(f, g)
    <2>1. T = {} => g.writes = f.writes
      BY <1>7, <1>9
    <2> QED BY <1>3, <1>4, <1>9, <2>1 DEF SameName, Absorbs, cs
  <1> QED BY <1>2, <1>3, <1>4, <1>8, <1>11, <1>12 DEF Held, Grows, Absorbs, p, f, cs, g
(* A delta is what was done from the frame o to the frame f.               *)
Made(delta, o, f) ==
    /\ delta.at = o.overlay /\ delta.result = f.writes
    /\ \A r \in delta.saw : r \in f.saw
    /\ \A rk \in RevKey :
          /\ delta.observed[rk] = Observed(f, o, rk)
          /\ \A k \in Key :
                delta.writes[rk][k] = ChangedCell(f.writes[rk][k], o.writes[rk][k])

(* What was done from o to f is done again from g.                         *)
Again(p, delta, o, f, g) ==
    /\ Held(p, o) /\ Held(p, f) /\ Held(p, g)
    /\ Onward(o, f) /\ Made(delta, o, f)
    /\ Agree(o, g) /\ g.overlay = o.overlay

LEMMA AgainFacts ==
    ASSUME NEW p \in Parse, NEW delta \in Deltas, NEW o, NEW f, NEW g, Again(p, delta, o, f, g)
    PROVE  /\ g.writes = o.writes
           /\ \A rk \in RevKey :
                 /\ rk \in Touched(delta.writes) => Touches(f.writes[rk])
                 /\ \A k \in Key :
                       IF f.writes[rk][k] = o.writes[rk][k]
                       THEN delta.writes[rk][k] = Untouched
                       ELSE /\ delta.writes[rk][k] = f.writes[rk][k]
                            /\ f.writes[rk][k] # Untouched /\ rk \in Touched(delta.writes)
                 /\ f.base[rk] # Unknown => delta.observed[rk] # Unknown
                 /\ f.base[rk] = Unknown => delta.observed[rk] = Unknown
                 /\ g.current[rk] = Unknown => delta.observed[rk] = f.base[rk]
                 /\ g.current[rk] # Unknown /\ f.base[rk] # Unknown =>
                       \/ g.base[rk] = f.base[rk] /\ g.current[rk] = delta.observed[rk]
                       \/ /\ g.base[rk] = g.current[rk] /\ f.base[rk] = delta.observed[rk]
  <1>1. /\ o \in Frame /\ f \in Frame /\ g \in Frame
        /\ g.writes = o.writes
        /\ \A rk \in RevKey : Touches(o.writes[rk]) =>
              o.base[rk] = g.base[rk] /\ o.current[rk] = g.current[rk]
    BY DEF Again, Held, Agree
  <1>2. ASSUME NEW x \in {o, f, g}, NEW rk \in RevKey
        PROVE  /\ x.base[rk] = Unknown <=> x.current[rk] = Unknown
               /\ Touches(x.writes[rk]) => x.base[rk] # Unknown
               /\ ~Touches(x.writes[rk]) => x.current[rk] = x.base[rk]
               /\ rk[1] = "invocation" => ~Touches(x.writes[rk])
    BY DEF Again, Held, FrameSound, BaseKnown, WritesSound, Regular
  <1>3. ASSUME NEW rk \in RevKey
        PROVE  /\ o.base[rk] # Unknown => f.base[rk] = o.base[rk]
               /\ \A k \in Key : o.writes[rk][k] # Untouched => f.writes[rk][k] # Untouched
               /\ delta.observed[rk] = Observed(f, o, rk)
               /\ \A k \in Key :
                     delta.writes[rk][k] = ChangedCell(f.writes[rk][k], o.writes[rk][k])
    BY DEF Again, Onward, Made
  <1>4. ASSUME NEW rk \in RevKey, rk \in Touched(delta.writes) PROVE Touches(f.writes[rk])
    BY <1>3, <1>4 DEF Touched, Touches, ChangedCell
  <1>5. ASSUME NEW rk \in RevKey, NEW k \in Key
        PROVE  IF f.writes[rk][k] = o.writes[rk][k]
               THEN delta.writes[rk][k] = Untouched
               ELSE /\ delta.writes[rk][k] = f.writes[rk][k]
                    /\ f.writes[rk][k] # Untouched /\ rk \in Touched(delta.writes)
    <2>1. CASE f.writes[rk][k] = o.writes[rk][k]
      BY <1>3, <2>1 DEF ChangedCell
    <2>2. CASE f.writes[rk][k] # o.writes[rk][k]
      <3>1. delta.writes[rk][k] = f.writes[rk][k]
        BY <1>3, <2>2 DEF ChangedCell
      <3>2. f.writes[rk][k] # Untouched
        BY <1>3, <2>2
      <3>3. rk[1] # "invocation"
        BY <1>2, <3>2 DEF Touches
      <3> QED BY <2>2, <3>1, <3>2, <3>3 DEF Touched, Touches
    <2> QED BY <2>1, <2>2
  <1>6. ASSUME NEW rk \in RevKey
        PROVE  /\ f.base[rk] # Unknown => delta.observed[rk] # Unknown
               /\ f.base[rk] = Unknown => delta.observed[rk] = Unknown
               /\ g.current[rk] = Unknown => delta.observed[rk] = f.base[rk]
               /\ g.current[rk] # Unknown /\ f.base[rk] # Unknown =>
                     \/ g.base[rk] = f.base[rk] /\ g.current[rk] = delta.observed[rk]
                     \/ /\ g.base[rk] = g.current[rk] /\ f.base[rk] = delta.observed[rk]
    BY <1>1, <1>2, <1>3 DEF Observed
  <1> QED BY <1>1, <1>4, <1>5, <1>6

(* Going on from g with the delta leads to the overlay of f, and to a      *)
(* frame that is as good as f and g.                                       *)
LEMMA ReplayHeld ==
    ASSUME TypeOK, NEW p \in Parse, NEW delta \in Deltas, NEW o, NEW f, NEW g,
           Again(p, delta, o, f, g), Observes(g, delta), NEW m \in Nat
    PROVE  LET h == Absorb(g, delta, m)
               n == IF Touched(delta.writes) = {} THEN m ELSE m + 1 IN
           h.writes = f.writes /\ Held(p, h) /\ Grows(g, h, m, n)
  <1> DEFINE h == Absorb(g, delta, m)
             T == Touched(delta.writes)
             n == IF T = {} THEN m ELSE m + 1
             doc == p.doc
  <1>1. o \in Frame /\ f \in Frame /\ g \in Frame /\ doc \in Doc
    BY ParseAssumption DEF Again, Held
  <1>2. Absorbs(g, delta, m, h)
    BY <1>1, AbsorbFields DEF Deltas
  <1>3. /\ g.writes = o.writes
        /\ \A rk \in RevKey :
              /\ rk \in T => Touches(f.writes[rk])
              /\ \A k \in Key :
                    IF f.writes[rk][k] = o.writes[rk][k]
                    THEN delta.writes[rk][k] = Untouched
                    ELSE /\ delta.writes[rk][k] = f.writes[rk][k]
                         /\ f.writes[rk][k] # Untouched /\ rk \in T
              /\ f.base[rk] # Unknown => delta.observed[rk] # Unknown
              /\ f.base[rk] = Unknown => delta.observed[rk] = Unknown
              /\ g.current[rk] = Unknown => delta.observed[rk] = f.base[rk]
              /\ g.current[rk] # Unknown /\ f.base[rk] # Unknown =>
                    \/ g.base[rk] = f.base[rk] /\ g.current[rk] = delta.observed[rk]
                    \/ /\ g.base[rk] = g.current[rk] /\ f.base[rk] = delta.observed[rk]
    BY AgainFacts
  <1>4. ASSUME NEW x \in {f, g}
        PROVE  /\ FrameSound(doc, x) /\ Regular(x) /\ Cause(p, x.base)
               /\ \A rk \in RevKey :
                     /\ x.base[rk] = Unknown <=> x.current[rk] = Unknown
                     /\ x.base[rk] # Unknown => x.base[rk] =< rev[rk]
                     /\ Touches(x.writes[rk]) => x.base[rk] # Unknown
    BY DEF Again, Held, FrameSound, BaseKnown, WritesSound
  <1>5. /\ f.saw \in SUBSET (RevKey \X Key \X Value) /\ g.saw \in SUBSET (RevKey \X Key \X Value)
        /\ delta.saw \subseteq f.saw
        /\ f.writes \in [RevKey -> [Key -> Cell]] /\ h.writes \in [RevKey -> [Key -> Cell]]
        /\ g.writes \in [RevKey -> [Key -> Cell]]
    BY <1>1, <1>2 DEF Again, Made, Frame, Absorbs
  <1>6. \A rk \in RevKey, k \in Key :
           o.writes[rk][k] # Untouched => f.writes[rk][k] # Untouched
    BY DEF Again, Onward
  <1> HIDE DEF h, T, doc
  <1>7. /\ h \in Frame /\ h.saw = g.saw \cup delta.saw
        /\ h.overlay = IF T = {} THEN g.overlay ELSE m
        /\ \A rk \in RevKey :
              /\ h.base[rk] = IF g.base[rk] = Unknown THEN delta.observed[rk] ELSE g.base[rk]
              /\ rk \notin T =>
                    h.current[rk] = IF g.current[rk] = Unknown THEN delta.observed[rk]
                                    ELSE g.current[rk]
              /\ rk \in T => h.current[rk] # Unknown
              /\ \A k \in Key : h.writes[rk][k] =
                    IF rk \in T /\ delta.writes[rk][k] # Untouched
                    THEN delta.writes[rk][k] ELSE g.writes[rk][k]
    BY <1>2 DEF Absorbs, T
  <1>8. h.writes = f.writes
    <2>1. \A rk \in RevKey, k \in Key : h.writes[rk][k] = f.writes[rk][k]
      BY <1>3, <1>7
    <2> QED BY <1>5, <2>1
  <1>9. ASSUME NEW rk \in RevKey
        PROVE  /\ f.base[rk] # Unknown => h.base[rk] = f.base[rk]
               /\ g.base[rk] # Unknown => h.base[rk] = g.base[rk]
               /\ f.base[rk] = Unknown => h.base[rk] = g.base[rk]
    <2>1. g.base[rk] = Unknown <=> g.current[rk] = Unknown
      BY <1>4
    <2>2. delta.observed[rk] = Unknown \/ g.current[rk] = Unknown
             \/ g.current[rk] = delta.observed[rk]
      BY DEF Observes
    <2> QED BY <1>3, <1>7, <2>1, <2>2
  <1>10. \A rk \in RevKey : h.base[rk] = f.base[rk] \/ h.base[rk] = g.base[rk]
    BY <1>9
  <1>11. FrameSound(doc, h)
    <2>1. BaseKnown(h)
      <3> SUFFICES ASSUME NEW rk \in RevKey
                   PROVE  /\ h.base[rk] = Unknown <=> h.current[rk] = Unknown
                          /\ h.base[rk] # Unknown => h.base[rk] =< rev[rk]
        BY DEF BaseKnown
      <3>1. h.base[rk] # Unknown => h.base[rk] =< rev[rk]
        BY <1>4, <1>10
      <3>2. h.base[rk] = Unknown <=> h.current[rk] = Unknown
        BY <1>3, <1>4, <1>7, <1>9
      <3> QED BY <3>1, <3>2
    <2>2. ReadsSound(doc, h.base, h.saw)
      <3> SUFFICES ASSUME NEW r \in h.saw
                   PROVE  /\ h.base[r[1]] # Unknown
                          /\ h.base[r[1]] = rev[r[1]] => Committed(doc, r[1])[r[2]] = r[3]
        BY DEF ReadsSound
      <3>1. r[1] \in RevKey /\ (r \in f.saw \/ r \in g.saw)
        BY <1>5, <1>7
      <3>2. CASE r \in f.saw
        BY <1>4, <1>9, <3>1, <3>2 DEF FrameSound, ReadsSound
      <3>3. CASE r \in g.saw
        BY <1>4, <1>9, <3>1, <3>3 DEF FrameSound, ReadsSound
      <3> QED BY <3>1, <3>2, <3>3
    <2>3. WritesSound(doc, h)
      BY <1>4, <1>8, <1>9 DEF FrameSound, WritesSound
    <2> QED BY <2>1, <2>2, <2>3 DEF FrameSound
  <1>12. Regular(h)
    <2> SUFFICES ASSUME NEW rk \in RevKey
                 PROVE  /\ h.current[rk] # h.base[rk] => Touches(h.writes[rk])
                        /\ rk[1] = "invocation" => ~Touches(h.writes[rk])
      BY DEF Regular
    <2>1. Touches(g.writes[rk]) => Touches(h.writes[rk])
      BY <1>3, <1>6, <1>8 DEF Touches
    <2>2. CASE rk \in T
      BY <1>3, <1>4, <1>8, <2>2 DEF Regular
    <2>3. CASE rk \notin T
      <3>1. g.base[rk] = Unknown <=> g.current[rk] = Unknown
        BY <1>4
      <3>2. g.current[rk] # g.base[rk] => Touches(g.writes[rk])
        BY <1>4 DEF Regular
      <3> QED BY <1>4, <1>7, <1>8, <2>1, <2>3, <3>1, <3>2 DEF Regular
    <2> QED BY <2>2, <2>3
  <1>13. Cause(p, h.base)
    BY <1>4, <1>10 DEF Cause
  <1>14. Onward(g, h)
    BY <1>3, <1>6, <1>8, <1>9 DEF Onward
  <1>15. T = {} => SameName(g, h)
    <2> SUFFICES ASSUME T = {} PROVE SameName(g, h)
      OBVIOUS
    <2>1. h.writes = g.writes
      <3>1. \A rk \in RevKey, k \in Key : h.writes[rk][k] = g.writes[rk][k]
        BY <1>7
      <3> QED BY <1>5, <3>1
    <2>2. \A rk \in RevKey : Touches(g.writes[rk]) =>
             h.base[rk] = g.base[rk] /\ h.current[rk] = g.current[rk]
      BY <1>4, <1>7
    <2> QED BY <1>7, <2>1, <2>2 DEF SameName
  <1> QED BY <1>7, <1>8, <1>11, <1>12, <1>13, <1>14, <1>15 DEF Held, Grows, h, T, doc

(* If the delta does not apply, another parse has committed.               *)
LEMMA RefusalCause ==
    ASSUME TypeOK, NEW p \in Parse, NEW delta \in Deltas, NEW o, NEW f,
           Again(p, delta, o, f, frame[p]), ~Applies(p, delta)
    PROVE  \E q \in Parse \ {p} : status[q] = "committed" /\ Touched(frame[q].writes) # {}
  <1> DEFINE g == frame[p]
  <1>1. o \in Frame /\ f \in Frame /\ g \in Frame /\ p.doc \in Doc
    BY ParseAssumption DEF Again, Held
  <1>2. /\ g.writes = o.writes
        /\ \A rk \in RevKey :
              /\ rk \in Touched(delta.writes) => Touches(f.writes[rk])
              /\ \A k \in Key :
                    IF f.writes[rk][k] = o.writes[rk][k]
                    THEN delta.writes[rk][k] = Untouched
                    ELSE /\ delta.writes[rk][k] = f.writes[rk][k]
                         /\ f.writes[rk][k] # Untouched /\ rk \in Touched(delta.writes)
              /\ f.base[rk] # Unknown => delta.observed[rk] # Unknown
              /\ f.base[rk] = Unknown => delta.observed[rk] = Unknown
              /\ g.current[rk] = Unknown => delta.observed[rk] = f.base[rk]
              /\ g.current[rk] # Unknown /\ f.base[rk] # Unknown =>
                    \/ g.base[rk] = f.base[rk] /\ g.current[rk] = delta.observed[rk]
                    \/ /\ g.base[rk] = g.current[rk] /\ f.base[rk] = delta.observed[rk]
    BY AgainFacts
  <1>3. ASSUME NEW x \in {f, g}
        PROVE  /\ WritesSound(p.doc, x) /\ Cause(p, x.base)
               /\ \A rk \in RevKey : x.base[rk] = Unknown <=> x.current[rk] = Unknown
    BY DEF Again, Held, FrameSound, BaseKnown
  <1>4. \E rk \in RevKey, x \in {f, g} : x.base[rk] \notin {Unknown, rev[rk]}
    <2>1. CASE ~Observes(g, delta)
      <3>1. PICK rk \in RevKey : /\ delta.observed[rk] # Unknown /\ g.current[rk] # Unknown
                                 /\ g.current[rk] # delta.observed[rk]
        BY <2>1 DEF Observes
      <3>2. f.base[rk] # Unknown /\ g.base[rk] # Unknown /\ g.base[rk] # f.base[rk]
        BY <1>2, <1>3, <3>1
      <3> QED BY <3>2
    <2>2. CASE ~WithinQuota(p, delta.writes)
      <3>1. PICK rk \in Touched(delta.writes) :
               ~Fits(Patch(Patch(Committed(p.doc, rk), g.writes[rk]), delta.writes[rk]))
        BY <2>2 DEF WithinQuota
      <3>2. rk \in RevKey /\ Touches(f.writes[rk])
        BY <1>2, <3>1 DEF Touched
      <3>3. Committed(p.doc, rk) \in [Key -> Value]
        BY <1>1, <3>2, CommittedType DEF TypeOK
      <3>4. /\ g.writes[rk] \in [Key -> Cell] /\ delta.writes[rk] \in [Key -> Cell]
            /\ f.writes[rk] \in [Key -> Cell]
        BY <1>1, <3>2 DEF Frame, Deltas
      <3>5. f.writes[rk] = [k \in Key |-> IF delta.writes[rk][k] # Untouched
                                         THEN delta.writes[rk][k] ELSE g.writes[rk][k]]
        BY <1>2, <3>2, <3>4
      <3>6. ~Fits(Patch(Committed(p.doc, rk), f.writes[rk]))
        BY <3>1, <3>3, <3>4, <3>5, PatchTwice
      <3>7. f.base[rk] # Unknown /\ f.base[rk] # rev[rk]
        BY <1>3, <3>2, <3>6 DEF WritesSound
      <3> QED BY <3>2, <3>7
    <2> QED BY <2>1, <2>2 DEF Applies
  <1>5. PICK rk \in RevKey : rk[1] \in Durable /\ \E q \in Parse \ {p} :
           status[q] = "committed" /\ Touches(frame[q].writes[rk])
    BY <1>3, <1>4 DEF Cause
  <1>6. rk[1] # "invocation"
    BY <1>5 DEF Durable
  <1> QED BY <1>5, <1>6 DEF Touched
-----------------------------------------------------------------------------
(* Speculation: what holds of a parse with the branch b, the scopes s,     *)
(* what it kept k, the deltas d, and m the next overlay number, where done *)
(* are the accepted calls and held the frames it may continue from.        *)

Done(P, d) == {c \in Call : \/ \E x \in P : x.work[c] = 1
                            \/ \E i \in DOMAIN d : d[i].work[c] = 1}

(* Every delta was made between two frames, and its overlay number still   *)
(* names the contents of the first.                                        *)
MadeFrom(delta, P, m, held) ==
    \E o, f \in held :
        /\ Onward(o, f) /\ Made(delta, o, f)
        /\ o.overlay < m
        /\ \A x \in P : Agree(o, x.frame)

Usable(P, d, m, done, held) ==
    /\ \A x \in P : x.frame \in held /\ x.frame.overlay < m
    /\ \A x, y \in P : Agree(x.frame, y.frame)
    /\ \A i \in DOMAIN d : MadeFrom(d[i], P, m, held)
    /\ Worked(P, d)
    /\ Done(P, d) \subseteq done

Speculating(b, s, k, d, m, done, held) ==
    /\ b \in BranchOf /\ s \in Seq(Scopes) /\ k \in Saves /\ d \in Seq(Deltas) /\ m \in Nat
    /\ Scoped(b, s, k, d)
    /\ Usable(Points(b, s, k), d, m, done, held)

LEMMA FewerUsable ==
    ASSUME NEW P, NEW d, NEW m, NEW done, NEW held, Usable(P, d, m, done, held),
           NEW Q \in SUBSET P
    PROVE  Usable(Q, d, m, done, held)
  <1>1. Worked(Q, d)
    BY FewerWorked DEF Usable
  <1>2. Done(Q, d) \subseteq done
    BY DEF Usable, Done
  <1>3. \A i \in DOMAIN d : MadeFrom(d[i], Q, m, held)
    BY DEF Usable, MadeFrom
  <1> QED BY <1>1, <1>2, <1>3 DEF Usable

LEMMA StillSpeculating ==
    ASSUME NEW b, NEW s, NEW k, NEW d, NEW m, NEW done, NEW held,
           Speculating(b, s, k, d, m, done, held),
           NEW more, done \subseteq more, NEW hold, held \subseteq hold
    PROVE  Speculating(b, s, k, d, m, more, hold)
  <1>1. \A i \in DOMAIN d : MadeFrom(d[i], Points(b, s, k), m, hold)
    BY DEF Speculating, Usable, MadeFrom
  <1> QED BY <1>1 DEF Speculating, Usable

LEMMA OpenKeeps ==
    ASSUME NEW b, NEW s, NEW k, NEW d, NEW m, NEW done, NEW held,
           Speculating(b, s, k, d, m, done, held), NEW kind \in {"expression", "semantic"},
           NEW text \in SUBSET Covered, kind = "expression" => text # {},
           s # <<>> => text \subseteq Last(s).text
    PROVE  Speculating(b, Append(s, [kind |-> kind, text |-> text, branch |-> b]), k,
                       d, m, done, held)
  BY OpenScoped, FewerUsable DEF Speculating

LEMMA CloseKeeps ==
    ASSUME NEW b, NEW s, NEW k, NEW d, NEW m, NEW done, NEW held,
           Speculating(b, s, k, d, m, done, held), s # <<>>, NEW e \in {b, Last(s).branch}
    PROVE  Speculating(e, Front(s), Forgotten(k, Len(s)), d, m, done, held)
  <1> DEFINE t == Front(s)
             l == Forgotten(k, Len(s))
  <1>1. /\ t \in Seq(Scopes) /\ l \in Saves /\ Last(s) \in Scopes /\ Scoped(e, t, l, d)
        /\ Points(e, t, l) \subseteq Points(b, s, k)
    BY CloseScoped DEF Speculating
  <1>2. e \in BranchOf
    BY <1>1 DEF Speculating, Scopes
  <1> QED BY <1>1, <1>2, FewerUsable DEF Speculating

LEMMA KeepKeeps ==
    ASSUME NEW b, NEW s, NEW k, NEW d, NEW m, NEW done, NEW held,
           Speculating(b, s, k, d, m, done, held), s # <<>>
    PROVE  Speculating(Last(s).branch, s, [depth |-> Len(s), branch |-> b], d, m, done, held)
  <1> DEFINE l == [depth |-> Len(s), branch |-> b]
             e == Last(s).branch
  <1>1. /\ l \in Saves /\ Last(s) \in Scopes /\ Scoped(e, s, l, d)
        /\ Points(e, s, l) \subseteq Points(b, s, k)
    BY KeepScoped DEF Speculating
  <1>2. e \in BranchOf
    BY <1>1 DEF Scopes
  <1> QED BY <1>1, <1>2, FewerUsable DEF Speculating

LEMMA ActivateKeeps ==
    ASSUME NEW b, NEW s, NEW k, NEW d, NEW m, NEW done, NEW held,
           Speculating(b, s, k, d, m, done, held), k.depth = Len(s),
           NEW text \in SUBSET Covered, s # <<>> => text \subseteq Last(s).text
    PROVE  Speculating(k.branch, Append(s, [kind |-> "semantic", text |-> text, branch |-> b]), k,
                       d, m, done, held)
  <1>1. k.branch \in BranchOf
    BY DEF Speculating, Saves
  <1> QED BY <1>1, ActivateScoped, FewerUsable DEF Speculating

(* The branch grows from b to e.                                           *)
LEMMA GrowAgrees ==
    ASSUME NEW f, NEW g, NEW m \in Nat, NEW n, Grows(f, g, m, n), NEW o, Agree(o, f),
           o.overlay < m, o.overlay \in Nat
    PROVE  Agree(o, g) /\ Agree(g, o)
  BY DEF Grows, SameName, Agree

LEMMA GrowKeeps ==
    ASSUME NEW b, NEW s, NEW k, NEW d, NEW m, NEW done, NEW held \in SUBSET Frame,
           Speculating(b, s, k, d, m, done, held),
           NEW e \in BranchOf, e.frame \in held, NEW n, Grows(b.frame, e.frame, m, n),
           Adds(b, e, Points(b, s, k), d), Inside(b, e, s, d),
           Worked(Points(b, s, k) \cup {e}, d),
           NEW more, done \subseteq more, \A c \in Call : e.work[c] = 1 => c \in more
    PROVE  Speculating(e, s, k, d, n, more, held)
  <1> DEFINE P == Points(b, s, k)
             Q == P \cup {e}
  <1>1. Scoped(e, s, k, d)
    BY GrowScoped DEF Speculating
  <1>2. Points(e, s, k) \subseteq Q /\ b \in P
    BY DEF Points
  <1>3. Usable(P, d, m, done, held) /\ m \in Nat
    BY DEF Speculating
  <1> HIDE DEF P
  <1>4. n \in Nat /\ n >= m /\ e.frame.overlay < n
    BY <1>2, <1>3 DEF Grows, SameName, Usable, Frame
  <1>5. \A x \in P : x.frame.overlay \in Nat /\ x.frame.overlay < m /\ Agree(x.frame, b.frame)
    BY <1>2, <1>3 DEF Usable, Frame
  <1>6. \A x \in Q : x.frame \in held /\ x.frame.overlay < n
    BY <1>3, <1>4, <1>5 DEF Usable
  <1>7. \A x \in P : Agree(x.frame, e.frame) /\ Agree(e.frame, x.frame)
    BY <1>3, <1>5, GrowAgrees
  <1>8. Agree(e.frame, e.frame)
    BY DEF Agree
  <1>9. \A x, y \in Q : Agree(x.frame, y.frame)
    BY <1>3, <1>7, <1>8 DEF Usable
  <1>10. ASSUME NEW i \in DOMAIN d PROVE MadeFrom(d[i], Q, n, held)
    <2>1. PICK o \in held, f \in held :
             /\ Onward(o, f) /\ Made(d[i], o, f) /\ o.overlay < m
             /\ \A x \in P : Agree(o, x.frame)
      BY <1>3 DEF Usable, MadeFrom
    <2>2. o.overlay \in Nat
      BY DEF Frame
    <2>3. Agree(o, e.frame)
      BY <1>2, <1>3, <2>1, <2>2, GrowAgrees
    <2>4. o.overlay < n
      BY <1>3, <1>4, <2>1, <2>2
    <2> QED BY <2>1, <2>3, <2>4 DEF MadeFrom
  <1>11. Done(Q, d) \subseteq more
    BY <1>3 DEF Usable, Done
  <1>12. Usable(Q, d, n, more, held)
    BY <1>6, <1>9, <1>10, <1>11 DEF Usable, P
  <1>13. Usable(Points(e, s, k), d, n, more, held)
    BY <1>2, <1>12, FewerUsable
  <1> QED BY <1>1, <1>4, <1>13 DEF Speculating

(* The branch is deferred since the innermost scope began.                 *)
LEMMA DeltaType ==
    ASSUME NEW b \in BranchOf, NEW x \in BranchOf, Extends(x, b), NEW text \in SUBSET Covered
    PROVE  LET delta == Delta(b.frame, b.applied, b.work, text, x) IN
           /\ delta \in Deltas /\ delta.text = text /\ Made(delta, x.frame, b.frame) /\ Holds(delta, b, x)
  <1> DEFINE f == b.frame
             o == x.frame
             writes == [rk \in RevKey |-> [k \in Key |->
                          ChangedCell(f.writes[rk][k], o.writes[rk][k])]]
             observed == [rk \in RevKey |-> Observed(f, o, rk)]
             seen == {r \in f.saw : \A t \in o.saw : <<t[1], t[2]>> # <<r[1], r[2]>>}
             nested == b.applied \ x.applied
             done == [c \in Call |-> b.work[c] - x.work[c]]
             delta == Delta(b.frame, b.applied, b.work, text, x)
  <1>1. /\ f \in Frame /\ o \in Frame /\ b.applied \in SUBSET Nat
        /\ b.work \in [Call -> {0, 1}] /\ x.work \in [Call -> {0, 1}]
    BY DEF BranchOf
  <1>2. delta = [at |-> o.overlay, text |-> text, writes |-> writes, observed |-> observed, saw |-> seen,
                 nested |-> nested, work |-> done, result |-> f.writes]
    BY DEF Delta, Nested
  <1>3. writes \in [RevKey -> [Key -> Cell]]
    BY <1>1 DEF Frame, ChangedCell, Cell
  <1>4. observed \in [RevKey -> Rev]
    BY <1>1 DEF Frame, Observed
  <1>5. seen \in SUBSET (RevKey \X Key \X Value) /\ o.overlay \in Nat
        /\ f.writes \in [RevKey -> [Key -> Cell]]
    BY <1>1 DEF Frame
  <1>6. ASSUME NEW c \in Call
        PROVE  /\ done[c] \in {0, 1}
               /\ done[c] = 1 <=> b.work[c] = 1 /\ x.work[c] # 1
    <2>1. b.work[c] \in {0, 1} /\ x.work[c] \in {0, 1} /\ (x.work[c] = 1 => b.work[c] = 1)
      BY <1>1 DEF Extends
    <2> QED BY <2>1
  <1>7. done \in [Call -> {0, 1}]
    BY <1>6
  <1>8. /\ \A r \in seen : r \in f.saw
        /\ \A rk \in RevKey :
              /\ observed[rk] = Observed(f, o, rk)
              /\ \A k \in Key : writes[rk][k] = ChangedCell(f.writes[rk][k], o.writes[rk][k])
    OBVIOUS
  <1> HIDE DEF f, o, writes, observed, seen, done, delta
  <1>9. delta \in Deltas
    BY <1>1, <1>2, <1>3, <1>4, <1>5, <1>7 DEF Deltas
  <1>10. Made(delta, o, f)
    BY <1>2, <1>8 DEF Made
  <1>11. Holds(delta, b, x)
    BY <1>2, <1>6 DEF Holds
  <1>12. delta.text = text
    BY <1>2
  <1> QED BY <1>9, <1>10, <1>11, <1>12 DEF f, o, delta

LEMMA DeferKeeps ==
    ASSUME NEW b, NEW s, NEW k, NEW d, NEW m, NEW done, NEW held,
           Speculating(b, s, k, d, m, done, held), s # <<>>, Last(s).kind = "expression",
           NEW x, x = Last(s).branch, NEW delta,
           delta = Delta(b.frame, b.applied, b.work, Last(s).text, x)
    PROVE  Speculating(x, Front(s), Forgotten(k, Len(s)), Append(d, delta), m, done, held)
  <1> DEFINE t == Front(s)
             l == Forgotten(k, Len(s))
             n == Len(d) + 1
             e == Append(d, delta)
             P == Points(b, s, k)
             out == Outer(s, k, Len(s))
             text == Last(s).text
  <1>1. /\ b \in BranchOf /\ s \in Seq(Scopes) /\ k \in Saves /\ d \in Seq(Deltas)
        /\ Scoped(b, s, k, d) /\ Usable(P, d, m, done, held)
    BY DEF Speculating
  <1>2. Speculating(x, t, l, d, m, done, held)
    BY CloseKeeps
  <1>3. /\ Len(s) \in Nat \ {0} /\ DOMAIN s = 1..Len(s) /\ s[Len(s)] \in Scopes
        /\ Len(t) = Len(s) - 1 /\ DOMAIN t = 1..(Len(s) - 1)
        /\ \A i \in DOMAIN t : t[i] = s[i]
    BY <1>1, FrontOf
  <1>4. /\ x = s[Len(s)].branch /\ s[Len(s)].kind = "expression" /\ x \in BranchOf
        /\ text = s[Len(s)].text /\ text \in SUBSET Covered /\ text # {}
    BY <1>1, <1>3 DEF Last, Scopes, Scoped, Narrowing
  <1>5. ScopeKept(d, x, text, Inner(b, s, k, Len(s)), out)
    BY <1>1, <1>3, <1>4 DEF Scoped
  <1>6. b \in Inner(b, s, k, Len(s)) /\ b \in P /\ x \in P /\ out \subseteq P
    BY <1>3, <1>4 DEF Inner, Outer, Points
  <1>7. Extends(x, b) /\ ScopeKept(d, x, text, {b}, out)
    BY <1>5, <1>6 DEF ScopeKept
  <1>8. delta \in Deltas /\ delta.text = text /\ Made(delta, x.frame, b.frame) /\ Holds(delta, b, x)
    BY <1>1, <1>4, <1>7, DeltaType
  <1>9. /\ e \in Seq(Deltas) /\ DOMAIN e = DOMAIN d \cup {n} /\ n \notin DOMAIN d
        /\ e[n] = delta /\ \A i \in DOMAIN d : e[i] = d[i]
    BY <1>1, <1>8
  <1>10. Points(x, t, l) \subseteq out \cup {x}
    <2>1. \A i \in DOMAIN t : i \in DOMAIN s /\ i < Len(s) /\ t[i] = s[i]
      BY <1>3
    <2>2. l.branch = NoBranch \/ (l = k /\ k.depth < Len(s))
      BY <1>1, <1>3 DEF Forgotten, Scoped, Saves
    <2> QED BY <2>1, <2>2 DEF Points, Outer
  <1> HIDE DEF t, l, n, e, P, out, text
  <1>11. Longer(d, e)
    BY <1>9 DEF Longer
  <1>12. Worked(P, d)
    BY <1>1 DEF Usable
  <1>13. Worked(out \cup {x}, e)
    <2>1. \A c \in Call : x.work[c] \in {0, 1}
      BY <1>4 DEF BranchOf
    <2>2. Holds(e[n], b, x) /\ e[n].text = text /\ DOMAIN e = DOMAIN d \cup {n} /\ n \notin DOMAIN d
      BY <1>8, <1>9
    <2>3. text # {} /\ ScopeKept(d, x, text, {b}, out) /\ out \in SUBSET P /\ b \in P /\ x \in P
      BY <1>4, <1>6, <1>7
    <2> QED BY <1>11, <1>12, <2>1, <2>2, <2>3, DeferWorked
  <1>14. Worked(Points(x, t, l), e)
    BY <1>10, <1>13, FewerWorked
  <1>15. Scoped(x, t, l, e)
    BY <1>2, <1>11, MoreScoped DEF Speculating, Usable
  <1>16. ASSUME NEW i \in DOMAIN e PROVE MadeFrom(e[i], Points(x, t, l), m, held)
    <2>1. CASE i \in DOMAIN d
      BY <1>2, <1>9, <2>1 DEF Speculating, Usable
    <2>2. CASE i = n
      <3>1. Points(x, t, l) \subseteq P
        BY <1>6, <1>10
      <3>2. /\ x.frame \in held /\ b.frame \in held /\ x.frame.overlay < m
            /\ \A y \in Points(x, t, l) : Agree(x.frame, y.frame)
        BY <1>1, <1>6, <3>1 DEF Usable
      <3> QED BY <1>7, <1>8, <1>9, <2>2, <3>2 DEF MadeFrom, Extends
    <2> QED BY <1>9, <2>1, <2>2
  <1>17. Done(Points(x, t, l), e) \subseteq done
    <2>1. \A c \in Call : e[n].work[c] = 1 => b.work[c] = 1
      BY <1>8, <1>9 DEF Holds
    <2>2. Done(P, d) \subseteq done /\ Points(x, t, l) \subseteq P
      BY <1>1, <1>6, <1>10 DEF Usable
    <2> QED BY <1>6, <1>9, <2>1, <2>2 DEF Done
  <1>18. /\ \A y \in Points(x, t, l) : y.frame \in held /\ y.frame.overlay < m
         /\ \A y, z \in Points(x, t, l) : Agree(y.frame, z.frame)
    BY <1>2 DEF Speculating, Usable
  <1>19. Usable(Points(x, t, l), e, m, done, held)
    BY <1>14, <1>16, <1>17, <1>18 DEF Usable
  <1>20. x \in BranchOf /\ t \in Seq(Scopes) /\ l \in Saves /\ m \in Nat /\ e \in Seq(Deltas)
    BY <1>2, <1>9 DEF Speculating
  <1>21. Speculating(x, t, l, e, m, done, held)
    BY <1>15, <1>19, <1>20 DEF Speculating
  <1> QED BY <1>21 DEF t, l, e
-----------------------------------------------------------------------------
(* The inductive invariant.                                                *)

Histories ==
    /\ applied \in [Parse -> SUBSET Nat]
    /\ work \in [Parse -> [Call -> {0, 1}]]
    /\ stack \in [Parse -> Seq(Scopes)]
    /\ kept \in [Parse -> Saves]
    /\ deltas \in [Parse -> Seq(Deltas)]

Merged    == {c \in Call : call[c].state = "merged"}
HeldBy(p) == {f \in Frame : Held(p, f)}

Speculates(p) ==
    \E b, s, k, d, m, done, held :
        /\ b = Branch(p) /\ s = stack[p] /\ k = kept[p] /\ d = deltas[p] /\ m = mint[p]
        /\ done = Merged /\ held = HeldBy(p)
        /\ Speculating(b, s, k, d, m, done, held)

Consistent ==
    /\ TypeOK /\ DependenciesSound /\ VolatileStill /\ QuotaRespected /\ Histories
    /\ \A p \in Parse : Running(p) => Speculates(p)

LEMMA PointsType ==
    ASSUME NEW b, NEW s, NEW k, NEW d, NEW m, NEW done, NEW held,
           Speculating(b, s, k, d, m, done, held)
    PROVE  Points(b, s, k) \subseteq BranchOf
  <1>1. b \in BranchOf /\ k.branch \in BranchOf /\ \A i \in DOMAIN s : s[i] \in Scopes
    BY DEF Speculating, Saves
  <1>2. \A i \in DOMAIN s : s[i].branch \in BranchOf
    BY <1>1 DEF Scopes
  <1> QED BY <1>1, <1>2, NoBranchType DEF Points

(* Where the parse p is after a step, as a state and as a step.            *)
Became(p, b, s, k, d, m) ==
    /\ frame'[p] = b.frame /\ applied'[p] = b.applied /\ work'[p] = b.work
    /\ stack'[p] = s /\ kept'[p] = k /\ deltas'[p] = d /\ mint'[p] = m

Moves(p, b, s, k, d, m) ==
    /\ status[p] = "open" /\ Quiescent(p)
    /\ frame' = [frame EXCEPT ![p] = b.frame]
    /\ applied' = [applied EXCEPT ![p] = b.applied]
    /\ work' = [work EXCEPT ![p] = b.work]
    /\ stack' = [stack EXCEPT ![p] = s]
    /\ kept' = [kept EXCEPT ![p] = k]
    /\ deltas' = [deltas EXCEPT ![p] = d]
    /\ mint' = [mint EXCEPT ![p] = m]
    /\ UNCHANGED <<store, status, saves, call>>

LEMMA HeldLasts ==
    ASSUME TypeOK, Lasting, NEW p \in Parse, Running(p)', NEW f, Held(p, f),
           UNCHANGED <<docs, shared, rev>> \/ \E q \in Parse : Publish(q)
    PROVE  Held(p, f)'
  <1>1. f \in Frame /\ FrameSound(p.doc, f) /\ Regular(f) /\ p.doc \in Doc
    BY ParseAssumption DEF Held
  <1>2. FrameSound(p.doc, f)'
    BY <1>1, FrameKept, PublishSound
  <1>3. Cause(p, f.base)'
    <2> DEFINE base == f.base
    <2>1. Cause(p, base)
      BY DEF Held
    <2> HIDE DEF base
    <2>2. Cause(p, base)'
      BY <2>1, CauseKept
    <2> QED BY <2>2 DEF base
  <1> QED BY <1>1, <1>2, <1>3 DEF Held

LEMMA GoOn ==
    ASSUME NEW p \in Parse, NEW b, NEW s, NEW k, NEW d, NEW m, NEW done, NEW held,
           Speculating(b, s, k, d, m, done, held), Became(p, b, s, k, d, m),
           done \subseteq Merged', \A f \in held : f \in HeldBy(p)'
    PROVE  Speculates(p)'
  <1>1. PICK more, hold : more = Merged' /\ hold = HeldBy(p)'
    OBVIOUS
  <1>2. Speculating(b, s, k, d, m, more, hold)
    BY <1>1, StillSpeculating
  <1>3. b = Branch(p)'
    BY DEF Speculating, BranchOf, Branch, Became
  <1> QED BY <1>1, <1>2, <1>3 DEF Speculates, Became

LEMMA SpeculatesNow ==
    ASSUME Consistent, NEW p \in Parse, Running(p)
    PROVE  Speculating(Branch(p), stack[p], kept[p], deltas[p], mint[p], Merged, HeldBy(p))
  BY DEF Consistent, Speculates

(* A step of the host between two calls.                                   *)
LEMMA HostMoves ==
    ASSUME Consistent, NEW p \in Parse, NEW b, NEW s, NEW k, NEW d, NEW m,
           Moves(p, b, s, k, d, m),
           Speculating(b, s, k, d, m, Merged, HeldBy(p))
    PROVE  Consistent' /\ Serial!Work(p)
  <1>1. /\ b \in BranchOf /\ s \in Seq(Scopes) /\ k \in Saves /\ d \in Seq(Deltas) /\ m \in Nat
        /\ b.frame \in Frame /\ b.applied \in SUBSET Nat /\ b.work \in [Call -> {0, 1}]
    BY DEF Speculating, BranchOf
  <1>2. Held(p, b.frame)
    BY DEF Speculating, Usable, Points, HeldBy
  <1>3. TypeOK /\ DependenciesSound /\ VolatileStill /\ QuotaRespected /\ Histories
    BY DEF Consistent
  <1>4. TypeOK' /\ Histories'
    BY <1>1, <1>3 DEF TypeOK, Histories, Moves, store
  <1>5. VolatileStill' /\ QuotaRespected'
    BY <1>3 DEF Moves, store, VolatileStill, QuotaRespected
  <1>6. DependenciesSound'
    <2> DEFINE g == b.frame
    <2>1. /\ g \in Frame /\ FrameSound(p.doc, g) /\ frame' = [frame EXCEPT ![p] = g]
          /\ Quiescent(p) /\ UNCHANGED <<docs, shared, rev, saves, call>>
      BY <1>2 DEF Held, Moves, store
    <2> HIDE DEF g
    <2> QED BY <1>3, <2>1, GoBack
  <1>7. Lasting
    BY <1>3 DEF Lasting, Moves, store, TypeOK
  <1>8. ASSUME NEW q \in Parse, Running(q)' PROVE Speculates(q)'
    <2>1. Running(q)
      BY <1>8 DEF Running, Moves
    <2>2. \A f \in HeldBy(q) : f \in HeldBy(q)'
      BY <1>3, <1>7, <1>8, HeldLasts DEF HeldBy, Moves, store
    <2>3. Merged \subseteq Merged'
      BY DEF Merged, Moves
    <2>4. PICK b1, s1, k1, d1, m1 : /\ Became(q, b1, s1, k1, d1, m1)
                                   /\ Speculating(b1, s1, k1, d1, m1, Merged, HeldBy(q))
      <3>1. CASE q = p
        <4>1. Became(p, b, s, k, d, m)
          BY <1>3 DEF Became, Moves, TypeOK, Histories
        <4> QED BY <3>1, <4>1
      <3>2. CASE q # p
        <4>1. Became(q, Branch(q), stack[q], kept[q], deltas[q], mint[q])
          BY <1>3, <3>2 DEF Became, Moves, TypeOK, Histories, Branch
        <4> QED BY <2>1, <4>1, SpeculatesNow
      <3> QED BY <3>1, <3>2
    <2>5. PICK done, held : done = Merged /\ held = HeldBy(q)
      OBVIOUS
    <2> QED BY <2>2, <2>3, <2>4, <2>5, GoOn
  <1>9. Serial!Work(p)
    BY <1>1, <1>3, FrameStep DEF Moves, store
  <1> QED BY <1>4, <1>5, <1>6, <1>8, <1>9 DEF Consistent

(* A step of the store.                                                    *)
LEMMA StoreMoves ==
    ASSUME Consistent, Forward, Next \/ UNCHANGED vars, Histories', Merged \subseteq Merged',
           \A p \in Parse : Running(p)' => Running(p) /\
               \E b, s, k, d, m : /\ Became(p, b, s, k, d, m)
                                  /\ Speculating(b, s, k, d, m, Merged', HeldBy(p))
    PROVE  Consistent' /\ [Serial!Next]_(Serial!vars)
  <1>1. TypeOK /\ DependenciesSound /\ VolatileStill /\ QuotaRespected /\ Histories
    BY DEF Consistent
  <1>2. [Next]_vars
    OBVIOUS
  <1>3. TypeOK' /\ VolatileStill' /\ QuotaRespected' /\ DependenciesSound'
    BY <1>1, <1>2, TypeStep, VolatileStep, QuotaStep, GoForward
  <1>4. Lasting
    BY <1>1, <1>2, StepLasts
  <1>5. UNCHANGED <<docs, shared, rev>> \/ \E q \in Parse : Publish(q)
    BY <1>2, StoreChanges DEF Commit
  <1>6. ASSUME NEW p \in Parse, Running(p)' PROVE Speculates(p)'
    <2>1. PICK b, s, k, d, m : /\ Became(p, b, s, k, d, m)
                               /\ Speculating(b, s, k, d, m, Merged', HeldBy(p))
      BY <1>6
    <2>2. \A f \in HeldBy(p) : f \in HeldBy(p)'
      BY <1>1, <1>4, <1>5, <1>6, HeldLasts DEF HeldBy
    <2>3. PICK done, held : done = Merged' /\ held = HeldBy(p)
      OBVIOUS
    <2> QED BY <2>1, <2>2, <2>3, GoOn
  <1>7. [Serial!Next]_(Serial!vars)
    BY <1>1, <1>2, <1>3, SerialStep
  <1> QED BY <1>3, <1>6, <1>7 DEF Consistent
-----------------------------------------------------------------------------
(* The steps, one by one.                                                  *)

LEMMA ReadyNow ==
    ASSUME Consistent, NEW p \in Parse, Ready(p)
    PROVE  /\ TypeOK /\ Histories /\ status[p] = "open" /\ Quiescent(p)
           /\ Speculating(Branch(p), stack[p], kept[p], deltas[p], mint[p], Merged, HeldBy(p))
           /\ Branch(p).frame = frame[p] /\ Branch(p).applied = applied[p]
           /\ Branch(p).work = work[p]
  BY SpeculatesNow DEF Consistent, Ready, Running, Branch

(* The text a parse is at work on is that of its innermost scope.          *)
LEMMA ExtentNow ==
    ASSUME Consistent, NEW p \in Parse, Ready(p)
    PROVE  /\ Extent(p) \in SUBSET Covered
           /\ stack[p] # <<>> => Extent(p) = Last(stack[p]).text
  <1>1. stack[p] \in Seq(Scopes)
    BY ReadyNow DEF Histories
  <1>2. CASE stack[p] = <<>>
    BY <1>2 DEF Extent, Covered
  <1>3. CASE stack[p] # <<>>
    <2>1. Last(stack[p]) \in Scopes
      BY <1>1, <1>3 DEF Last
    <2> QED BY <1>3, <2>1 DEF Extent, Scopes
  <1> QED BY <1>2, <1>3

LEMMA EnterStep ==
    ASSUME Consistent, NEW p \in Parse, NEW kind \in {"expression", "semantic"},
           NEW text \in SUBSET Extent(p), kind = "expression" => text # {},
           Ready(p), Enter(p, kind, text), UNCHANGED <<vars, applied, work, kept, deltas>>
    PROVE  Consistent' /\ Serial!Work(p)
  <1> DEFINE b == Branch(p)
             s == Append(stack[p], [kind |-> kind, text |-> text, branch |-> Branch(p)])
  <1>1. text \in SUBSET Covered /\ (stack[p] # <<>> => text \subseteq Last(stack[p]).text)
    BY ExtentNow
  <1>2. Speculating(b, s, kept[p], deltas[p], mint[p], Merged, HeldBy(p))
    BY <1>1, ReadyNow, OpenKeeps
  <1>3. Moves(p, b, s, kept[p], deltas[p], mint[p])
    BY ReadyNow DEF Enter, Moves, vars, store, TypeOK, Histories
  <1> HIDE DEF b, s
  <1> QED BY <1>2, <1>3, HostMoves

LEMMA OpenStep ==
    ASSUME Consistent, NEW p \in Parse, (\E text \in Texts : Open(p, text)) \/ OpenSemantic(p)
    PROVE  Consistent' /\ Serial!Work(p)
  <1>1. CASE \E text \in Texts : Open(p, text)
    BY <1>1, EnterStep, TextAssumption DEF Open
  <1>2. CASE OpenSemantic(p)
    BY <1>2, EnterStep DEF OpenSemantic
  <1> QED BY <1>1, <1>2

LEMMA CloseMoves ==
    ASSUME Consistent, NEW p \in Parse, Close(p)
    PROVE  /\ stack' = [stack EXCEPT ![p] = Front(stack[p])]
           /\ kept' = [kept EXCEPT ![p] = Forgotten(kept[p], Len(stack[p]))]
  BY DEF Close, Forgotten

LEMMA DeferStep ==
    ASSUME Consistent, NEW p \in Parse, Defer(p)
    PROVE  Consistent' /\ Serial!Work(p)
  <1> DEFINE x == Last(stack[p]).branch
             delta == Delta(frame[p], applied[p], work[p], Extent(p), x)
             d == Append(deltas[p], delta)
             s == Front(stack[p])
             k == Forgotten(kept[p], Len(stack[p]))
  <1>1. Ready(p) /\ stack[p] # <<>> /\ Last(stack[p]).kind = "expression"
    BY DEF Defer, Within
  <1>2. delta = Delta(Branch(p).frame, Branch(p).applied, Branch(p).work,
                      Last(stack[p]).text, x)
    BY <1>1 DEF Branch, Extent
  <1>3. /\ stack' = [stack EXCEPT ![p] = s] /\ kept' = [kept EXCEPT ![p] = k]
        /\ deltas' = [deltas EXCEPT ![p] = d]
        /\ frame' = [frame EXCEPT ![p] = x.frame]
        /\ applied' = [applied EXCEPT ![p] = x.applied]
        /\ work' = [work EXCEPT ![p] = x.work]
        /\ UNCHANGED <<store, status, mint, saves, call>>
    BY CloseMoves DEF Defer, Restore, Outset
  <1> HIDE DEF x, delta
  <1>4. Speculating(x, s, k, d, mint[p], Merged, HeldBy(p))
    BY <1>1, <1>2, ReadyNow, DeferKeeps DEF x
  <1> HIDE DEF d, s, k
  <1>5. Moves(p, x, s, k, d, mint[p])
    BY <1>1, <1>3, ReadyNow DEF Moves, TypeOK
  <1> QED BY <1>4, <1>5, HostMoves

LEMMA RejectStep ==
    ASSUME Consistent, NEW p \in Parse, Reject(p)
    PROVE  Consistent' /\ Serial!Work(p)
  <1> DEFINE x == Last(stack[p]).branch
             s == Front(stack[p])
             k == Forgotten(kept[p], Len(stack[p]))
  <1>1. Ready(p) /\ stack[p] # <<>>
    BY DEF Reject
  <1>2. /\ stack' = [stack EXCEPT ![p] = s] /\ kept' = [kept EXCEPT ![p] = k]
        /\ frame' = [frame EXCEPT ![p] = x.frame]
        /\ applied' = [applied EXCEPT ![p] = x.applied]
        /\ work' = [work EXCEPT ![p] = x.work]
        /\ UNCHANGED <<store, status, mint, saves, call, deltas>>
    BY CloseMoves DEF Reject, Restore, Outset
  <1>3. Speculating(x, s, k, deltas[p], mint[p], Merged, HeldBy(p))
    BY <1>1, ReadyNow, CloseKeeps
  <1> HIDE DEF x, s, k
  <1>4. Moves(p, x, s, k, deltas[p], mint[p])
    BY <1>1, <1>2, ReadyNow DEF Moves, TypeOK, Histories
  <1> QED BY <1>3, <1>4, HostMoves

LEMMA AcceptStep ==
    ASSUME Consistent, NEW p \in Parse, Accept(p)
    PROVE  Consistent' /\ Serial!Work(p)
  <1> DEFINE b == Branch(p)
             s == Front(stack[p])
             k == Forgotten(kept[p], Len(stack[p]))
  <1>1. Ready(p) /\ stack[p] # <<>>
    BY DEF Accept, Within
  <1>2. /\ stack' = [stack EXCEPT ![p] = s] /\ kept' = [kept EXCEPT ![p] = k]
        /\ UNCHANGED <<vars, applied, work, deltas>>
    BY CloseMoves DEF Accept
  <1>3. Speculating(b, s, k, deltas[p], mint[p], Merged, HeldBy(p))
    BY <1>1, ReadyNow, CloseKeeps
  <1> HIDE DEF s, k
  <1>4. Moves(p, b, s, k, deltas[p], mint[p])
    BY <1>1, <1>2, ReadyNow DEF Moves, vars, store, TypeOK, Histories
  <1> HIDE DEF b
  <1> QED BY <1>3, <1>4, HostMoves

LEMMA KeepStep ==
    ASSUME Consistent, NEW p \in Parse, Keep(p)
    PROVE  Consistent' /\ Serial!Work(p)
  <1> DEFINE x == Last(stack[p]).branch
             k == [depth |-> Len(stack[p]), branch |-> Branch(p)]
  <1>1. Ready(p) /\ stack[p] # <<>>
    BY DEF Keep, Within
  <1>2. /\ kept' = [kept EXCEPT ![p] = k]
        /\ frame' = [frame EXCEPT ![p] = x.frame]
        /\ applied' = [applied EXCEPT ![p] = x.applied]
        /\ work' = [work EXCEPT ![p] = x.work]
        /\ UNCHANGED <<store, status, mint, saves, call, stack, deltas>>
    BY DEF Keep, Restore, Outset
  <1>3. Speculating(x, stack[p], k, deltas[p], mint[p], Merged, HeldBy(p))
    BY <1>1, ReadyNow, KeepKeeps
  <1> HIDE DEF x, k
  <1>4. Moves(p, x, stack[p], k, deltas[p], mint[p])
    BY <1>1, <1>2, ReadyNow DEF Moves, TypeOK, Histories
  <1> QED BY <1>3, <1>4, HostMoves

LEMMA ActivateStep ==
    ASSUME Consistent, NEW p \in Parse, Activate(p)
    PROVE  Consistent' /\ Serial!Work(p)
  <1> DEFINE x == kept[p].branch
             s == Append(stack[p], [kind |-> "semantic", text |-> Extent(p),
                                    branch |-> Branch(p)])
  <1>1. Ready(p) /\ kept[p].depth = Len(stack[p])
    BY DEF Activate
  <1>2. /\ stack' = [stack EXCEPT ![p] = s]
        /\ frame' = [frame EXCEPT ![p] = x.frame]
        /\ applied' = [applied EXCEPT ![p] = x.applied]
        /\ work' = [work EXCEPT ![p] = x.work]
        /\ UNCHANGED <<store, status, mint, saves, call, kept, deltas>>
    BY DEF Activate, Enter, Restore
  <1>3. Speculating(x, s, kept[p], deltas[p], mint[p], Merged, HeldBy(p))
    <2>1. Extent(p) \in SUBSET Covered /\ (stack[p] # <<>> => Extent(p) \subseteq Last(stack[p]).text)
      BY <1>1, ExtentNow
    <2> QED BY <1>1, <2>1, ReadyNow, ActivateKeeps
  <1> HIDE DEF x, s
  <1>4. Moves(p, x, s, kept[p], deltas[p], mint[p])
    BY <1>1, <1>2, ReadyNow DEF Moves, TypeOK, Histories
  <1> QED BY <1>3, <1>4, HostMoves

(* A delta of the current overlay number is done again.                    *)
LEMMA SelectableAgain ==
    ASSUME Consistent, NEW p \in Parse, NEW i, Selectable(p, i)
    PROVE  \E o, f : Again(p, deltas[p][i], o, f, frame[p])
  <1> DEFINE b == Branch(p)
             P == Points(b, stack[p], kept[p])
  <1>1. /\ Ready(p) /\ i \in DOMAIN deltas[p] /\ deltas[p][i].at = frame[p].overlay
    BY DEF Selectable
  <1>2. /\ Usable(P, deltas[p], mint[p], Merged, HeldBy(p)) /\ b \in P /\ b.frame = frame[p]
    BY <1>1, ReadyNow DEF Speculating, Points
  <1>3. PICK o \in HeldBy(p), f \in HeldBy(p) :
           /\ Onward(o, f) /\ Made(deltas[p][i], o, f)
           /\ \A x \in P : Agree(o, x.frame)
    BY <1>1, <1>2 DEF Usable, MadeFrom
  <1>4. Held(p, o) /\ Held(p, f) /\ Held(p, frame[p]) /\ Agree(o, frame[p])
    BY <1>2, <1>3 DEF HeldBy, Usable
  <1>5. frame[p].overlay = o.overlay
    BY <1>1, <1>3 DEF Made
  <1> QED BY <1>3, <1>4, <1>5 DEF Again

(* Of a delta not applied yet that the parser may select, no part is       *)
(* applied: a part is of the text of the delta, and what is applied is     *)
(* apart from it.  Nothing in apply_delta checks this.                     *)
LEMMA SelectableApart ==
    ASSUME Consistent, NEW p \in Parse, NEW i, Selectable(p, i), i \notin applied[p]
    PROVE  deltas[p][i].nested \cap applied[p] = {}
  <1>1. Ready(p) /\ i \in DOMAIN deltas[p] /\ Apart(p, i)
    BY DEF Selectable
  <1>2. Worked(Points(Branch(p), stack[p], kept[p]), deltas[p])
    BY <1>1, ReadyNow DEF Speculating, Usable
  <1>3. Branch(p) \in Points(Branch(p), stack[p], kept[p]) /\ Branch(p).applied = applied[p]
    BY <1>1, ReadyNow DEF Points
  <1> SUFFICES ASSUME NEW j \in deltas[p][i].nested, j \in applied[p] PROVE FALSE
    OBVIOUS
  <1>4. j \in DOMAIN deltas[p] /\ deltas[p][j].text # {}
    BY <1>1, <1>2 DEF Worked
  <1>5. deltas[p][j].text \subseteq deltas[p][i].text
    BY <1>1, <1>2 DEF Worked
  <1>6. deltas[p][i].text \cap deltas[p][j].text = {}
    BY <1>1 DEF Apart
  <1> QED BY <1>4, <1>5, <1>6

(* What a selected delta brings is of the text of every open candidate.    *)
LEMMA SelectedInside ==
    ASSUME Consistent, NEW p \in Parse, NEW i, Selectable(p, i)
    PROVE  \A j \in Receipts(deltas[p], i), t \in DOMAIN stack[p] :
              deltas[p][j].text \subseteq stack[p][t].text
  <1>1. Ready(p) /\ i \in DOMAIN deltas[p] /\ deltas[p][i].text \subseteq Extent(p)
    BY DEF Selectable
  <1>2. /\ Worked(Points(Branch(p), stack[p], kept[p]), deltas[p])
        /\ Narrowing(stack[p]) /\ stack[p] \in Seq(Scopes)
    BY <1>1, ReadyNow DEF Speculating, Usable, Scoped
  <1>3. ASSUME NEW j \in Receipts(deltas[p], i)
        PROVE  deltas[p][j].text \subseteq deltas[p][i].text
    BY <1>1, <1>2 DEF Receipts, Worked
  <1>4. ASSUME NEW t \in DOMAIN stack[p] PROVE Extent(p) \subseteq stack[p][t].text
    <2>1. stack[p] # <<>> /\ Len(stack[p]) \in DOMAIN stack[p] /\ t =< Len(stack[p])
      BY <1>2
    <2>2. Extent(p) = stack[p][Len(stack[p])].text
      BY <1>1, <2>1, ExtentNow DEF Last
    <2> QED BY <1>2, <2>1, <2>2 DEF Narrowing
  <1> QED BY <1>1, <1>3, <1>4

LEMMA SelectStep ==
    ASSUME Consistent, NEW p \in Parse, NEW i, Select(p, i)
    PROVE  /\ Consistent' /\ Serial!Work(p)
           /\ frame'[p].writes = deltas[p][i].result
  <1> DEFINE delta == deltas[p][i]
             g == frame[p]
             h == Absorb(frame[p], deltas[p][i], mint[p])
             n == IF Touched(deltas[p][i].writes) = {} THEN mint[p] ELSE mint[p] + 1
             b == Branch(p)
             P == Points(Branch(p), stack[p], kept[p])
             e == [frame |-> h, applied |-> applied[p] \cup Receipts(deltas[p], i),
                   work |-> [c \in Call |-> work[p][c] + deltas[p][i].work[c]]]
  <1>1. /\ Ready(p) /\ Selectable(p, i) /\ i \in DOMAIN deltas[p]
        /\ delta.nested \cap applied[p] = {} /\ i \notin applied[p]
        /\ Observes(g, delta)
        /\ frame' = [frame EXCEPT ![p] = h]
        /\ mint' = [mint EXCEPT ![p] = n]
        /\ applied' = [applied EXCEPT ![p] = applied[p] \cup delta.nested \cup {i}]
        /\ work' = [work EXCEPT ![p] = [c \in Call |-> work[p][c] + delta.work[c]]]
        /\ UNCHANGED <<store, status, saves, call, stack, kept, deltas>>
    BY SelectableApart DEF Select, Selectable, Applies, candidates
  <1>2. /\ TypeOK /\ Histories /\ status[p] = "open" /\ Quiescent(p)
        /\ Speculating(b, stack[p], kept[p], deltas[p], mint[p], Merged, HeldBy(p))
        /\ b.frame = g /\ b.applied = applied[p] /\ b.work = work[p]
    BY <1>1, ReadyNow
  <1>3. /\ deltas[p] \in Seq(Deltas) /\ delta \in Deltas /\ mint[p] \in Nat /\ b \in BranchOf
        /\ Worked(P, deltas[p]) /\ b \in P
    BY <1>1, <1>2 DEF Speculating, Usable, Points
  <1>4. PICK o, f : Again(p, delta, o, f, g)
    BY <1>1, SelectableAgain
  <1>5. h.writes = f.writes /\ Held(p, h) /\ Grows(g, h, mint[p], n)
    BY <1>1, <1>2, <1>3, <1>4, ReplayHeld
  <1>6. h.writes = delta.result
    BY <1>4, <1>5 DEF Again, Made
  <1>7. e.frame = h /\ Selects(b, e, deltas[p], i)
    BY <1>1, <1>2 DEF Selects, Receipts
  <1> HIDE DEF h, n, P, e, b
  <1>8. /\ e.work \in [Call -> {0, 1}]
        /\ \A c \in Call : e.work[c] = 1 <=> b.work[c] = 1 \/ delta.work[c] = 1
    BY <1>1, <1>3, <1>7, SelectedOnce
  <1>9. e \in BranchOf
    <2>1. h \in Frame
      BY <1>5 DEF Held
    <2>2. applied[p] \cup Receipts(deltas[p], i) \in SUBSET Nat
      BY <1>1, <1>2, <1>3 DEF Receipts, Deltas, Histories
    <2> QED BY <1>8, <2>1, <2>2 DEF BranchOf, e
  <1>10. Onward(b.frame, e.frame)
    BY <1>2, <1>5, <1>7 DEF Grows
  <1>11. Adds(b, e, P, deltas[p]) /\ Worked(P \cup {e}, deltas[p])
    BY <1>1, <1>3, <1>7, <1>10, SelectAdds
  <1>12. \A c \in Call : e.work[c] = 1 => c \in Merged
    <2>1. Done(P, deltas[p]) \subseteq Merged
      BY <1>2 DEF Speculating, Usable, P, b
    <2> QED BY <1>1, <1>3, <1>8, <2>1 DEF Done
  <1>13. Speculating(e, stack[p], kept[p], deltas[p], n, Merged, HeldBy(p))
    <2>1. e.frame \in HeldBy(p) /\ HeldBy(p) \in SUBSET Frame
      BY <1>5, <1>7 DEF HeldBy, Held
    <2>2. Grows(b.frame, e.frame, mint[p], n)
      BY <1>2, <1>5, <1>7
    <2>3. /\ Adds(b, e, Points(b, stack[p], kept[p]), deltas[p])
          /\ Worked(Points(b, stack[p], kept[p]) \cup {e}, deltas[p])
      BY <1>11 DEF P, b
    <2>4. PICK s, k, d, m, held : s = stack[p] /\ k = kept[p] /\ d = deltas[p] /\ m = mint[p]
                                  /\ held = HeldBy(p)
      OBVIOUS
    <2>5. Inside(b, e, stack[p], deltas[p])
      <3>1. \A j \in e.applied \ b.applied : j \in Receipts(deltas[p], i)
        BY <1>7 DEF Selects
      <3> QED BY <1>1, <3>1, SelectedInside DEF Inside
    <2>6. Speculating(b, s, k, d, m, Merged, held) /\ Adds(b, e, Points(b, s, k), d)
          /\ Inside(b, e, s, d)
          /\ Worked(Points(b, s, k) \cup {e}, d) /\ Grows(b.frame, e.frame, m, n)
          /\ e.frame \in held /\ held \in SUBSET Frame
      BY <1>2, <2>1, <2>2, <2>3, <2>4, <2>5
    <2>7. Speculating(e, s, k, d, n, Merged, held)
      BY <1>9, <1>12, <2>6, GrowKeeps
    <2> QED BY <2>4, <2>7
  <1>14. Moves(p, e, stack[p], kept[p], deltas[p], n)
    <2>1. e.frame = h /\ e.applied = applied[p] \cup delta.nested \cup {i}
          /\ e.work = [c \in Call |-> work[p][c] + delta.work[c]]
      BY DEF e, Receipts
    <2> HIDE DEF delta
    <2> QED BY <1>1, <1>2, <2>1 DEF Moves, TypeOK, Histories
  <1>15. Consistent' /\ Serial!Work(p)
    BY <1>13, <1>14, HostMoves
  <1>16. frame'[p].writes = delta.result
    BY <1>1, <1>2, <1>6 DEF TypeOK
  <1> QED BY <1>15, <1>16
(* A step of the store that learns at most of a namespace.                 *)
LEMMA LearnKeeps ==
    ASSUME Consistent, NEW p \in Parse, Running(p), NEW rk \in RevKey, NEW e,
           e = [frame |-> Learn(frame[p], rk), applied |-> applied[p], work |-> work[p]]
    PROVE  Speculating(e, stack[p], kept[p], deltas[p], mint[p], Merged, HeldBy(p))
  <1> DEFINE b == Branch(p)
  <1>1. PICK s, k, d, m, held :
           /\ s = stack[p] /\ k = kept[p] /\ d = deltas[p] /\ m = mint[p] /\ held = HeldBy(p)
    OBVIOUS
  <1>2. Speculating(b, s, k, d, m, Merged, held)
    BY <1>1, SpeculatesNow
  <1>3. /\ b \in BranchOf /\ m \in Nat /\ b \in Points(b, s, k)
        /\ Usable(Points(b, s, k), d, m, Merged, held)
        /\ b.frame = frame[p] /\ b.applied = applied[p] /\ b.work = work[p]
    BY <1>2 DEF Speculating, Points, Branch
  <1>4. Held(p, b.frame)
    BY <1>1, <1>3 DEF Usable, HeldBy
  <1>5. Held(p, e.frame) /\ Grows(b.frame, e.frame, m, m)
    BY <1>3, <1>4, LearnHeld DEF Consistent
  <1>6. e.applied = b.applied /\ e.work = b.work /\ Onward(b.frame, e.frame)
    BY <1>3, <1>5 DEF Grows
  <1>7. e \in BranchOf
    <2>1. e.frame \in Frame
      BY <1>5 DEF Held
    <2> QED BY <1>3, <1>6, <2>1 DEF BranchOf
  <1> HIDE DEF b
  <1>8. Adds(b, e, Points(b, s, k), d) /\ Inside(b, e, s, d)
    BY <1>6 DEF Adds, Extends, Inside
  <1>9. Worked(Points(b, s, k) \cup {e}, d)
    BY <1>3, <1>6, SameWorked DEF Usable
  <1>10. \A c \in Call : e.work[c] = 1 => c \in Merged
    BY <1>3, <1>6 DEF Usable, Done
  <1>11. e.frame \in held /\ held \in SUBSET Frame
    BY <1>1, <1>5 DEF HeldBy, Held
  <1>12. Speculating(e, s, k, d, m, Merged, held)
    BY <1>2, <1>5, <1>7, <1>8, <1>9, <1>10, <1>11, GrowKeeps
  <1> QED BY <1>1, <1>12

LEMMA LearnMoves ==
    ASSUME Consistent, Forward, Next \/ UNCHANGED vars, UNCHANGED <<applied, work, candidates>>,
           mint' = mint, Merged \subseteq Merged',
           \A p \in Parse : Running(p)' =>
               /\ Running(p)
               /\ frame'[p] = frame[p] \/ \E rk \in RevKey : frame'[p] = Learn(frame[p], rk)
    PROVE  Consistent' /\ [Serial!Next]_(Serial!vars)
  <1>1. Histories'
    BY DEF Consistent, Histories, candidates
  <1>2. ASSUME NEW p \in Parse, Running(p)'
        PROVE  /\ Running(p)
               /\ \E b, s, k, d, m : /\ Became(p, b, s, k, d, m)
                                     /\ Speculating(b, s, k, d, m, Merged', HeldBy(p))
    <2>1. Running(p)
      BY <1>2
    <2>2. PICK b : /\ b.frame = frame'[p] /\ b.applied = applied[p] /\ b.work = work[p]
                   /\ Speculating(b, stack[p], kept[p], deltas[p], mint[p], Merged, HeldBy(p))
      <3>1. CASE frame'[p] = frame[p]
        <4>1. Branch(p).frame = frame'[p] /\ Branch(p).applied = applied[p]
              /\ Branch(p).work = work[p]
          BY <3>1 DEF Branch
        <4> QED BY <2>1, <4>1, SpeculatesNow
      <3>2. CASE \E rk \in RevKey : frame'[p] = Learn(frame[p], rk)
        <4>1. PICK rk \in RevKey : frame'[p] = Learn(frame[p], rk)
          BY <3>2
        <4>2. PICK e : e = [frame |-> Learn(frame[p], rk), applied |-> applied[p],
                            work |-> work[p]]
          OBVIOUS
        <4>3. e.frame = frame'[p] /\ e.applied = applied[p] /\ e.work = work[p]
          BY <4>1, <4>2
        <4> QED BY <2>1, <4>2, <4>3, LearnKeeps
      <3> QED BY <1>2, <3>1, <3>2
    <2>3. Became(p, b, stack[p], kept[p], deltas[p], mint[p])
      BY <2>2 DEF Became, candidates
    <2>4. Speculating(b, stack[p], kept[p], deltas[p], mint[p], Merged', HeldBy(p))
      BY <2>2, StillSpeculating
    <2> QED BY <2>1, <2>3, <2>4
  <1> QED BY <1>1, <1>2, StoreMoves

LEMMA EndingStep ==
    ASSUME Consistent, NEW p \in Parse, Ending(p)
    PROVE  Consistent' /\ [Serial!Next]_(Serial!vars)
  <1>1. TypeOK /\ UNCHANGED <<applied, work, candidates>>
    BY DEF Consistent, Ending
  <1>2. CASE Begin(p)
    BY <1>1, <1>2, LearnMoves DEF Forward, Next, Begin, Running, Merged, TypeOK
  <1>3. CASE Commit(p)
    BY <1>1, <1>3, LearnMoves DEF Forward, Next, Commit, Running, Merged, TypeOK
  <1>4. CASE Cancel(p)
    <2>1. /\ status' = [status EXCEPT ![p] = "cancelled"] /\ UNCHANGED <<mint, call>>
          /\ \A q \in Parse \ {p} : frame'[q] = frame[q]
      BY <1>1, <1>4 DEF Cancel, TypeOK
    <2> QED BY <1>1, <1>4, <2>1, LearnMoves DEF Forward, Next, Running, Merged, TypeOK
  <1> QED BY <1>2, <1>3, <1>4 DEF Ending

LEMMA CallingStep ==
    ASSUME Consistent, NEW c \in Call, Calling(c)
    PROVE  Consistent' /\ [Serial!Next]_(Serial!vars)
  <1>1. /\ TypeOK /\ UNCHANGED <<applied, work, candidates>> /\ c.parse \in Parse
        /\ CallStep(c)
    BY CallAssumption DEF Consistent, Calling, CallStep
  <1>2. Forward /\ Next
    BY <1>1 DEF Forward, Next
  <1>3. UNCHANGED status
    BY <1>1, CallStepKeeps
  <1>4. ASSUME NEW rk \in RevKey, frame' = [frame EXCEPT ![c.parse] = Learn(frame[c.parse], rk)],
               mint' = mint, Merged \subseteq Merged'
        PROVE  Consistent' /\ [Serial!Next]_(Serial!vars)
    <2>1. \A p \in Parse : frame'[p] = frame[p] \/ frame'[p] = Learn(frame[p], rk)
      BY <1>1, <1>4 DEF TypeOK
    <2> QED BY <1>1, <1>2, <1>3, <1>4, <2>1, LearnMoves DEF Running
  <1>5. CASE Invoke(c) \/ Discard(c)
    <2>1. UNCHANGED <<frame, mint>> /\ Merged \subseteq Merged'
      BY <1>1, <1>5 DEF Invoke, Discard, Merged, NewCall, TypeOK
    <2> QED BY <1>1, <1>2, <1>3, <2>1, LearnMoves DEF Running
  <1>6. ASSUME NEW rk \in RevKey, ScanPrefix(c, rk)
        PROVE  Consistent' /\ [Serial!Next]_(Serial!vars)
    <2>1. /\ frame' = [frame EXCEPT ![c.parse] = Learn(frame[c.parse], rk)] /\ mint' = mint
          /\ call[c].state = "live" /\ \A e \in Call \ {c} : call'[e] = call[e]
      BY <1>1, <1>6 DEF ScanPrefix, Read, Live, TypeOK
    <2>2. Merged \subseteq Merged'
      BY <2>1 DEF Merged
    <2> QED BY <1>4, <2>1, <2>2
  <1>7. ASSUME NEW rk \in RevKey, NEW k \in Key, NEW v \in Value, Write(c, rk, k, v)
        PROVE  Consistent' /\ [Serial!Next]_(Serial!vars)
    <2>1. /\ frame' = [frame EXCEPT ![c.parse] = Learn(frame[c.parse], rk)] /\ mint' = mint
          /\ call[c].state = "live" /\ \A e \in Call \ {c} : call'[e] = call[e]
      BY <1>1, <1>7 DEF Write, Live, TypeOK
    <2>2. Merged \subseteq Merged'
      BY <2>1 DEF Merged
    <2> QED BY <1>4, <2>1, <2>2
  <1> QED BY <1>5, <1>6, <1>7 DEF Calling

LEMMA AcceptedStep ==
    ASSUME Consistent, NEW c \in Call, Accepted(c)
    PROVE  Consistent' /\ [Serial!Next]_(Serial!vars)
  <1> DEFINE p == c.parse
             b == Branch(p)
             h == Absorb(frame[p], call[c], mint[p])
             n == IF Touched(call[c].writes) = {} THEN mint[p] ELSE mint[p] + 1
             done == [work[p] EXCEPT ![c] = 1]
             e == [frame |-> h, applied |-> applied[p], work |-> done]
  <1>1. /\ TypeOK /\ DependenciesSound /\ Histories /\ p \in Parse /\ Merge(c) /\ CallStep(c)
        /\ status[p] = "open" /\ call[c].state = "live" /\ Running(p)
        /\ WithinQuota(p, call[c].writes)
        /\ work' = [work EXCEPT ![p][c] = work[p][c] + 1]
        /\ UNCHANGED <<applied, stack, kept, deltas>>
    BY CallAssumption DEF Consistent, Accepted, Merge, CallStep, Live, Running, candidates
  <1>2. /\ frame' = [frame EXCEPT ![p] = h] /\ mint' = [mint EXCEPT ![p] = n]
        /\ call' = [call EXCEPT ![c] = NewCall("merged")]
        /\ UNCHANGED status
    BY <1>1 DEF Merge
  <1>3. Forward /\ Next
    BY <1>1 DEF Forward, Next
  <1>4. Merged' = Merged \cup {c} /\ c \notin Merged
    BY <1>1, <1>2 DEF Merged, NewCall, TypeOK
  <1>5. PICK s, k, d, m, held :
           /\ s = stack[p] /\ k = kept[p] /\ d = deltas[p] /\ m = mint[p] /\ held = HeldBy(p)
    OBVIOUS
  <1>6. Speculating(b, s, k, d, m, Merged, held)
    BY <1>1, <1>5, SpeculatesNow
  <1>7. /\ b \in BranchOf /\ m \in Nat /\ b \in Points(b, s, k) /\ d \in Seq(Deltas)
        /\ Usable(Points(b, s, k), d, m, Merged, held)
        /\ b.frame = frame[p] /\ b.applied = applied[p] /\ b.work = work[p]
    BY <1>6 DEF Speculating, Points, Branch
  <1>8. Held(p, frame[p])
    BY <1>5, <1>7 DEF Usable, HeldBy
  <1>9. Held(p, h) /\ Grows(frame[p], h, m, n)
    BY <1>1, <1>5, <1>7, <1>8, MergeHeld DEF DependenciesSound
  <1>10. \A z \in Points(b, s, k) : z.work[c] = 0
    BY <1>4, <1>6, <1>7, PointsType DEF Usable, Done, BranchOf
  <1>11. \A i \in DOMAIN d : d[i].work[c] = 0
    <2>1. \A i \in DOMAIN d : d[i] \in Deltas
      BY <1>7
    <2> QED BY <1>4, <1>7, <2>1 DEF Usable, Done, Deltas
  <1>12. work[p][c] = 0 /\ work[p] \in [Call -> {0, 1}]
    BY <1>1, <1>7, <1>10 DEF Histories
  <1>13. work' = [work EXCEPT ![p] = done] /\ done \in [Call -> {0, 1}]
    BY <1>1, <1>12 DEF Histories
  <1>14. e.frame = h /\ e.applied = b.applied /\ e.work = [b.work EXCEPT ![c] = 1]
    BY <1>7
  <1>15. e \in BranchOf
    BY <1>1, <1>9, <1>13 DEF BranchOf, Held, Histories
  <1> HIDE DEF p, b, h, n, done, e
  <1>16. Onward(b.frame, e.frame) /\ Grows(b.frame, e.frame, m, n)
    BY <1>7, <1>9, <1>14 DEF Grows
  <1>17. Adds(b, e, Points(b, s, k), d)
    BY <1>7, <1>10, <1>14, <1>15, <1>16, AcceptedAdds
  <1>18. Worked(Points(b, s, k) \cup {e}, d)
    BY <1>7, <1>10, <1>11, <1>14, AcceptedWorked DEF Usable
  <1>19. \A a \in Call : e.work[a] = 1 => a \in Merged'
    BY <1>4, <1>7, <1>14 DEF Usable, Done, BranchOf
  <1>20. e.frame \in held /\ held \in SUBSET Frame
    BY <1>5, <1>9, <1>14 DEF HeldBy, Held
  <1>21. Speculating(e, s, k, d, n, Merged', held)
    <2>1. Inside(b, e, s, d)
      BY <1>14 DEF Inside
    <2>2. PICK more : more = Merged' /\ Merged \subseteq more
      BY <1>4
    <2>3. Speculating(e, s, k, d, n, more, held)
      BY <1>6, <1>15, <1>16, <1>17, <1>18, <1>19, <1>20, <2>2, <2>1, GrowKeeps
    <2> QED BY <2>2, <2>3
  <1>22. Became(p, e, s, k, d, n)
    BY <1>1, <1>2, <1>5, <1>7, <1>13, <1>14 DEF Became, TypeOK, Histories, e
  <1>23. ASSUME NEW q \in Parse, Running(q)'
         PROVE  /\ Running(q)
                /\ \E b1, s1, k1, d1, m1 : /\ Became(q, b1, s1, k1, d1, m1)
                                           /\ Speculating(b1, s1, k1, d1, m1, Merged', HeldBy(q))
    <2>1. Running(q)
      BY <1>2, <1>23 DEF Running
    <2>2. CASE q = p
      BY <1>5, <1>21, <1>22, <2>1, <2>2
    <2>3. CASE q # p
      <3>1. Became(q, Branch(q), stack[q], kept[q], deltas[q], mint[q])
        BY <1>1, <1>2, <1>13, <2>3 DEF Became, Branch, TypeOK, Histories
      <3>2. Speculating(Branch(q), stack[q], kept[q], deltas[q], mint[q], Merged', HeldBy(q))
        BY <1>4, <2>1, SpeculatesNow, StillSpeculating
      <3> QED BY <2>1, <3>1, <3>2
    <2> QED BY <2>2, <2>3
  <1>24. Histories'
    BY <1>1, <1>13 DEF Histories
  <1> QED BY <1>3, <1>4, <1>23, <1>24, StoreMoves
LEMMA CandidatesInit == CandidateInit => Consistent
  <1> SUFFICES ASSUME CandidateInit PROVE Consistent
    OBVIOUS
  <1>1. Init
    BY DEF CandidateInit
  <1>2. TypeOK /\ DependenciesSound
    BY <1>1, TypeInit, InitialSound
  <1>3. VolatileStill /\ QuotaRespected
    BY <1>1, EmptyAssumption DEF Init, VolatileStill, QuotaRespected
  <1> DEFINE k == [depth |-> -1, branch |-> NoBranch]
  <1>4. k \in Saves /\ NoBranch.work \in [Call -> {0, 1}]
    BY NoBranchType DEF Saves, BranchOf
  <1>5. Histories
    BY <1>4 DEF CandidateInit, Histories
  <1>6. ASSUME NEW p \in Parse PROVE Speculates(p)
    <2>1. /\ frame[p] = NewFrame /\ applied[p] = {} /\ work[p] = NoBranch.work
          /\ stack[p] = <<>> /\ kept[p] = k /\ deltas[p] = <<>> /\ mint[p] = 1
      BY DEF CandidateInit, Init
    <2>2. Branch(p) = NoBranch
      BY <2>1 DEF Branch, NoBranch
    <2>3. /\ k.depth = -1 /\ k.branch = NoBranch /\ NoBranch.frame = NewFrame
          /\ NoBranch.applied = {} /\ NewFrame.overlay = 0
          /\ \A c \in Call : NoBranch.work[c] = 0
      BY DEF NoBranch, NewFrame
    <2>4. Held(p, NewFrame)
      BY <1>2, <2>1, NewHeld DEF DependenciesSound
    <2> HIDE DEF k
    <2>5. PICK e : e = <<>>
      OBVIOUS
    <2>6. e \in Seq(Scopes) /\ e \in Seq(Deltas) /\ DOMAIN e = {} /\ Len(e) = 0
      BY <2>5
    <2>7. Points(NoBranch, e, k) = {NoBranch}
      BY <2>3, <2>6 DEF Points
    <2>8. NewFrame \in HeldBy(p)
      BY <2>4 DEF HeldBy, Held
    <2>9. Worked({NoBranch}, e) /\ Done({NoBranch}, e) = {}
      BY <2>3, <2>6 DEF Worked, Done
    <2>10. Usable({NoBranch}, e, 1, Merged, HeldBy(p))
      <3>1. \A x \in {NoBranch} : x.frame \in HeldBy(p) /\ x.frame.overlay < 1
        BY <2>3, <2>8
      <3>2. \A x, y \in {NoBranch} : Agree(x.frame, y.frame)
        BY DEF Agree
      <3>3. \A i \in DOMAIN e : MadeFrom(e[i], {NoBranch}, 1, HeldBy(p))
        BY <2>6
      <3> QED BY <2>9, <3>1, <3>2, <3>3 DEF Usable
    <2>11. Scoped(NoBranch, e, k, e)
      BY <2>3, <2>6 DEF Scoped, Narrowing
    <2>12. Speculating(NoBranch, e, k, e, 1, Merged, HeldBy(p))
      BY <1>4, <2>6, <2>7, <2>10, <2>11, NoBranchType DEF Speculating
    <2> QED BY <2>1, <2>2, <2>5, <2>12 DEF Speculates
  <1> QED BY <1>2, <1>3, <1>5, <1>6 DEF Consistent

LEMMA CandidatesStep ==
    ASSUME Consistent, [CandidateNext]_allVars
    PROVE  Consistent' /\ [Serial!Next]_(Serial!vars)
  <1>1. ASSUME NEW p \in Parse, (\E text \in Texts : Open(p, text)) \/ OpenSemantic(p)
        PROVE  Consistent' /\ Serial!Work(p)
    BY <1>1, OpenStep
  <1>2. ASSUME NEW p \in Parse, Defer(p) \/ Reject(p) \/ Accept(p)
        PROVE  Consistent' /\ Serial!Work(p)
    BY <1>2, DeferStep, RejectStep, AcceptStep
  <1>3. ASSUME NEW p \in Parse, Keep(p) \/ Activate(p)
        PROVE  Consistent' /\ Serial!Work(p)
    BY <1>3, KeepStep, ActivateStep
  <1>4. ASSUME NEW p \in Parse, NEW i, Select(p, i)
        PROVE  Consistent' /\ Serial!Work(p)
    BY <1>4, SelectStep
  <1>5. CASE \E p \in Parse : Ending(p)
    BY <1>5, EndingStep
  <1>6. CASE \E c \in Call : Accepted(c) \/ Calling(c)
    BY <1>6, AcceptedStep, CallingStep
  <1>7. CASE UNCHANGED allVars
    <2>1. /\ UNCHANGED vars /\ UNCHANGED <<applied, work, candidates>> /\ mint' = mint
          /\ frame' = frame /\ status' = status /\ call' = call
      BY <1>7 DEF allVars, vars
    <2>2. Forward /\ Merged' = Merged
      BY <2>1 DEF Forward, Merged
    <2> QED BY <2>1, <2>2, LearnMoves DEF Running
  <1>8. (\E p \in Parse : Serial!Work(p)) => Serial!Next
    BY DEF Serial!Next
  <1> QED BY <1>1, <1>2, <1>3, <1>4, <1>5, <1>6, <1>7, <1>8 DEF CandidateNext

LEMMA CandidatesCorrect == CandidateSpec => []Consistent
  <1>1. Consistent /\ [CandidateNext]_allVars => Consistent'
    BY CandidatesStep
  <1> QED BY <1>1, CandidatesInit, PTL DEF CandidateSpec

-----------------------------------------------------------------------------
(* The theorems.                                                           *)

(* Speculation leaves the promises of the store alone: whatever is opened, *)
(* deferred, kept, resumed and selected, what a parse derived from a       *)
(* namespace holds as long as its revision does, no namespace exceeds its  *)
(* quota, and a conflict is the work of another parse.  No assumption on   *)
(* the clients is needed: the host rolls back between calls only           *)
(* (defer_expression_candidate, host.rs).                                  *)
THEOREM SpeculationSound ==
    CandidateSpec => [](TypeOK /\ DependenciesSound /\ QuotaRespected /\ ConflictHasCause)
  <1>1. ASSUME Consistent PROVE ConflictHasCause
    <2>1. ASSUME NEW p \in Parse, Running(p) PROVE Cause(p, frame[p].base)
      <3>1. Speculating(Branch(p), stack[p], kept[p], deltas[p], mint[p], Merged, HeldBy(p))
        BY <1>1, <2>1, SpeculatesNow
      <3>2. /\ Branch(p) \in Points(Branch(p), stack[p], kept[p])
            /\ Branch(p).frame = frame[p]
        BY DEF Points, Branch
      <3>3. frame[p] \in HeldBy(p)
        BY <3>1, <3>2 DEF Speculating, Usable
      <3> QED BY <3>3 DEF HeldBy, Held
    <2> QED BY <2>1 DEF ConflictHasCause, Running, Cause
  <1>2. Consistent => TypeOK /\ DependenciesSound /\ QuotaRespected /\ ConflictHasCause
    BY <1>1 DEF Consistent
  <1> QED BY <1>2, CandidatesCorrect, PTL

(* With candidates, too, the committed parses are serializable in commit   *)
(* order: a selected delta brings its reads and their revisions with it    *)
(* (ParseTransaction::apply_delta).                                        *)
THEOREM CandidatesSerializable == CandidateSpec => Serializable
  <1>1. CandidateInit => Serial!Init
    BY SerialInit DEF CandidateInit
  <1>2. Consistent /\ [CandidateNext]_allVars => [Serial!Next]_(Serial!vars)
    BY CandidatesStep
  <1> QED BY <1>1, <1>2, CandidatesCorrect, PTL DEF CandidateSpec, Serializable, Serial!Spec

(* The overlay number names the contents of the overlay on every branch    *)
(* the parser may continue from, so it is fit to be the key of the memo    *)
(* (state_revision).                                                       *)
THEOREM OverlayNamesCorrect == CandidateSpec => []OverlayNamesContents
  <1>1. Consistent => OverlayNamesContents
    <2> SUFFICES ASSUME Consistent, NEW p \in Parse, status[p] = "open",
                        NEW b \in Branches(p), NEW c \in Branches(p),
                        b.frame.overlay = c.frame.overlay
                 PROVE  b.frame.writes = c.frame.writes
      BY DEF OverlayNamesContents
    <2>1. Speculating(Branch(p), stack[p], kept[p], deltas[p], mint[p], Merged, HeldBy(p))
      BY SpeculatesNow DEF Running
    <2>2. ToSet(stack[p]) = {stack[p][i] : i \in DOMAIN stack[p]}
      BY DEF ToSet
    <2>3. Branches(p) \subseteq Points(Branch(p), stack[p], kept[p])
      BY <2>2 DEF Branches, Points
    <2>4. Agree(b.frame, c.frame)
      BY <2>1, <2>3 DEF Speculating, Usable
    <2> QED BY <2>4 DEF Agree
  <1> QED BY <1>1, CandidatesCorrect, PTL

(* No accepted call has its work on a branch twice, however the nodes that *)
(* contain it were deferred, selected, rolled back and resumed.  The       *)
(* receipts (applied_deltas) keep a node from being applied again; that no *)
(* node is applied beside a part of itself follows from the texts of the   *)
(* candidates (SelectableApart), not from a check of apply_delta.          *)
THEOREM WorkOnceCorrect == CandidateSpec => []WorkOnce
  <1>1. Consistent => WorkOnce
    <2> SUFFICES ASSUME Consistent, NEW p \in Parse, NEW c \in Call
                 PROVE  work[p][c] =< 1
      BY DEF WorkOnce
    <2>1. work[p][c] \in {0, 1}
      BY DEF Consistent, Histories
    <2> QED BY <2>1
  <1> QED BY <1>1, CandidatesCorrect, PTL

(* The refusal of a delta the parser may select has a cause outside of the *)
(* parse: another one has committed.                                       *)
THEOREM SelectionAppliesCorrect == CandidateSpec => []SelectionAlwaysApplies
  <1>1. Consistent => SelectionAlwaysApplies
    <2> SUFFICES ASSUME Consistent, NEW p \in Parse, NEW i,
                        Selectable(p, i), ~Applies(p, deltas[p][i])
                 PROVE  \E q \in Parse \ {p} :
                           status[q] = "committed" /\ Touched(frame[q].writes) # {}
      BY DEF SelectionAlwaysApplies
    <2>1. PICK o, f : Again(p, deltas[p][i], o, f, frame[p])
      BY SelectableAgain
    <2>2. Ready(p) /\ i \in DOMAIN deltas[p]
      BY DEF Selectable
    <2>3. deltas[p][i] \in Deltas /\ TypeOK
      BY <2>2, ReadyNow DEF Speculating
    <2> QED BY <2>1, <2>3, RefusalCause
  <1> QED BY <1>1, CandidatesCorrect, PTL

(* Selecting a node puts into the parse exactly the overlay its candidate  *)
(* had built, also when it comes from the memo and the parse took another  *)
(* way to this overlay number (ParseTransaction::apply_delta).             *)
THEOREM SelectionReplaysCorrect == CandidateSpec => SelectionReplays
  <1>1. Consistent /\ [CandidateNext]_allVars =>
           [\A p \in Parse, i \in 1..MaxDelta :
               Select(p, i) => frame'[p].writes = deltas[p][i].result]_allVars
    BY SelectStep
  <1> QED BY <1>1, CandidatesCorrect, PTL DEF CandidateSpec, SelectionReplays
=============================================================================
