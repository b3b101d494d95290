----------------------------- MODULE HostProofs -----------------------------
(***************************************************************************)
(* The host and its documents, for every set of components, documents and  *)
(* transactions: types, what is kept together between the operation in     *)
(* progress and the document in progress, what unloading leaves, and where *)
(* the work of a call can be: what fails leaves nothing behind, neither an *)
(* operation of the host nor a document.                                   *)
(***************************************************************************)
EXTENDS DocumentPipeline, WellFoundedInduction, TLAPS

-----------------------------------------------------------------------------
LEMMA TheOne == \A x : The({x}) = x
  BY DEF The

LEMMA TheIn == ASSUME NEW S, S # {} PROVE The(S) \in S
  BY DEF The

LEMMA MinIn == ASSUME NEW S \in SUBSET Nat, S # {} PROVE Min(S) \in S
  <1>1. \E x \in S : \A y \in S : ~(<<y, x>> \in OpToRel(<, Nat))
    BY NatLessThanWellFounded, WFMin
  <1>2. \A x, y \in Nat : <<y, x>> \in OpToRel(<, Nat) <=> y < x
    BY DEF OpToRel
  <1>3. PICK x \in S : \A y \in S : ~(<<y, x>> \in OpToRel(<, Nat))
    BY <1>1
  <1>4. \A y \in S : x =< y
    <2> SUFFICES ASSUME NEW y \in S PROVE x =< y
      OBVIOUS
    <2>1. x \in Nat /\ y \in Nat
      OBVIOUS
    <2>2. ~(y < x)
      BY <1>2, <1>3, <2>1
    <2> QED BY <2>1, <2>2
  <1> QED BY <1>4 DEF Min

-----------------------------------------------------------------------------
(* The sets the variables range over.                                      *)
States  == {"absent", "ready", "disabled", "unloaded"}
Handle  == [status : {"idle", "open", "committed", "cancelled"}, doc : Doc,
            revision : 0..MaxRevision, kept : SUBSET Nat]
RunData == [kind : Kinds \cup {"none"}, txn : SUBSET Txn, owned : BOOLEAN,
            next : Nat, rounds : Nat, base : SUBSET SUBSET Nat,
            saved : SUBSET SUBSET Item, cont : SUBSET SUBSET Nat,
            result : {"running", "done", "fault", "reject", "error"},
            fault : BOOLEAN, did : SUBSET Nat]
JobData == [stage : Stages \cup {"none", "abort"}, inside : BOOLEAN,
            txn : SUBSET Txn, saved : SUBSET Item, global : BOOLEAN,
            base : SUBSET Nat, node : SUBSET Nat, did : SUBSET Nat, dead : BOOLEAN]

Types ==
    /\ component \in [Component -> States]
    /\ initial \subseteq [by : Component, work : {0}, sound : BOOLEAN]
    /\ latest \in [Doc -> 0..MaxRevision]
    /\ layer \in [Doc -> Layer]
    /\ txn \in [Txn -> Handle]
    /\ published \in SUBSET Nat
    /\ run \in RunData
    /\ works \in 0..MaxWork
    /\ failed \in SUBSET Nat
    /\ \A d \in Doc : layer[d].revision = latest[d]

(* The operation in progress has an open transaction and a savepoint.      *)
RunSound ==
    /\ Running => /\ run.txn = {Self} /\ Self \in Txn
                  /\ txn[Self].status = "open"
                  /\ run.base # {}
    /\ ~Running => run = NoRun

LEMMA InitTypes == Init => Types /\ RunSound
  <1> SUFFICES ASSUME Init PROVE Types /\ RunSound
    OBVIOUS
  <1> USE HostAssumption DEF Init
  <1>1. The(Doc) \in Doc
    BY TheIn
  <1>2. Closed \in Handle
    BY <1>1 DEF Closed, Handle
  <1>3. component \in [Component -> States]
    BY DEF States
  <1>4. run \in RunData
    BY DEF NoRun, RunData
  <1>5. layer \in [Doc -> Layer]
    BY DEF Layer
  <1> QED BY <1>2, <1>3, <1>4, <1>5 DEF Types, RunSound, Running, NoRun

-----------------------------------------------------------------------------
(* Who is called.                                                          *)
LEMMA CalleeIn ==
    ASSUME Types, Calling
    PROVE  Callee \in Component /\ Callee \in Nat /\ component[Callee] \in Callable
  <1>1. Candidates \in SUBSET Nat /\ Candidates # {}
    BY HostAssumption DEF Candidates, Calling
  <1>2. Callee \in Candidates
    BY <1>1, MinIn DEF Callee
  <1> QED BY <1>2, HostAssumption DEF Candidates

LEMMA HereIn ==
    ASSUME Types, RunSound, Running
    PROVE  /\ Self \in Txn /\ Here \in Doc /\ Kept \in SUBSET Nat
           /\ Undone \in SUBSET Nat /\ The(run.base) \in SUBSET Nat
           /\ Prepass => The(run.saved) \in SUBSET Item
  <1>1. Self \in Txn /\ txn[Self] \in Handle
    BY DEF Types, RunSound
  <1>2. The(run.base) \in SUBSET Nat
    BY TheIn DEF Types, RunSound, RunData
  <1>3. Undone \in SUBSET Nat
    BY <1>1, TheIn DEF Undone, Kept, Types, RunData, Handle
  <1>4. Prepass => The(run.saved) \in SUBSET Item
    BY TheIn DEF Prepass, Types, RunData
  <1> QED BY <1>1, <1>2, <1>3, <1>4 DEF Here, Kept, Handle

-----------------------------------------------------------------------------
(* What a step of the loop over the components may change: the overlay of  *)
(* its own transaction, items of components that are ready, and whether a  *)
(* component is disabled.                                                  *)
New == {w \in Nat : works < w /\ w =< works'}
CallEffect ==
    /\ run'.kind = run.kind /\ run'.txn = run.txn /\ run'.owned = run.owned
    /\ run'.base = run.base /\ run'.saved = run.saved
    /\ run'.cont \subseteq run.cont \cup {Kept}
    /\ run'.did \subseteq run.did \cup New
    /\ \A t \in Txn : txn'[t].status = txn[t].status /\ txn'[t].doc = txn[t].doc
    /\ \A t \in Txn \ {Self} : txn'[t].kept = txn[t].kept
    /\ txn'[Self].kept \subseteq Kept \cup (UNION run.base) \cup (UNION run.cont) \cup New
    /\ UNCHANGED <<initial, latest, published, failed, withdrawn>>
    /\ works' \in {works, works + 1}
    /\ \A c \in Component : component'[c] = "unloaded" <=> component[c] = "unloaded"
    /\ \A d \in Doc :
          /\ layer'[d].revision = layer[d].revision
          /\ layer[d].frozen => layer'[d] = layer[d]
          /\ d # Here \/ ~Prepass => layer'[d].items = layer[d].items
          /\ \A i \in layer'[d].items :
                i \in layer[d].items \/ (component[i.by] = "ready" /\ i.work \in New)

LEMMA KeepTypes ==
    ASSUME Types, RunSound, Running, NEW kept \in SUBSET Nat, Keep(kept)
    PROVE  /\ txn' \in [Txn -> Handle]
           /\ \A t \in Txn : txn'[t].status = txn[t].status /\ txn'[t].doc = txn[t].doc
           /\ \A t \in Txn \ {Self} : txn'[t] = txn[t]
           /\ txn'[Self].kept = kept
  BY HereIn DEF Keep, Types, Handle

(* The steps that leave the works and the layers alone.                    *)
LEMMA PlainCall ==
    ASSUME Types, RunSound, Running, NEW kept, Keep(kept),
           kept \in {Kept, Undone, The(run.base)},
           component' \in [Component -> States],
           \A c \in Component : component'[c] = "unloaded" <=> component[c] = "unloaded",
           run' \in RunData,
           run'.kind = run.kind, run'.txn = run.txn, run'.owned = run.owned,
           run'.base = run.base, run'.saved = run.saved,
           run'.cont \subseteq run.cont, run'.did = run.did,
           UNCHANGED <<initial, latest, layer, published, works, failed, withdrawn>>
    PROVE  Types' /\ CallEffect
  <1>1. kept \in SUBSET Nat
    BY HereIn
  <1>2. kept \subseteq Kept \cup (UNION run.base) \cup (UNION run.cont)
    BY TheIn DEF Undone, RunSound
  <1>3. Types'
    BY <1>1, KeepTypes DEF Types
  <1> QED BY <1>1, <1>2, <1>3, KeepTypes DEF CallEffect, Types

(* The next component is called with what an operation keeps.              *)
SameRun(r) ==
    /\ r.kind = run.kind /\ r.txn = run.txn /\ r.owned = run.owned
    /\ r.base = run.base /\ r.saved = run.saved

LEMMA PassedIn ==
    ASSUME NEW r \in RunData, Callee \in Nat
    PROVE  /\ Passed(r) \in RunData
           /\ SameRun(r) => SameRun(Passed(r))
           /\ Passed(r).cont = {} /\ Passed(r).did = r.did
  <1> DEFINE a == [r EXCEPT !.next = Callee + 1]
             b == [a EXCEPT !.cont = {}]
  <1>1. a \in RunData /\ (SameRun(r) => SameRun(a)) /\ a.did = r.did
    BY DEF RunData, SameRun
  <1> HIDE DEF a
  <1>2. b \in RunData /\ (SameRun(r) => SameRun(b)) /\ b.did = r.did /\ b.cont = {}
    BY <1>1 DEF RunData, SameRun
  <1> HIDE DEF b
  <1>3. Passed(r) = [b EXCEPT !.rounds = 0]
    BY DEF Passed, a, b
  <1> QED BY <1>2, <1>3 DEF RunData, SameRun

LEMMA CallTypes ==
    ASSUME Types, RunSound, Calls
    PROVE  Types' /\ RunSound' /\ Running' /\ CallEffect
  <1> DEFINE Good == Types' /\ CallEffect
  <1>0. Running
    BY DEF Calls, NoMatch, Unavailable, NotApplicable, OutputRefused, Rejects, CallFails,
           Accepts, Errs, Requests, Served, Calling
  <1>1. txn = [txn EXCEPT ![Self].kept = Kept]
    BY <1>0, HereIn DEF Types, Handle, Kept
  <1>2. ASSUME NoMatch PROVE Good
    <2>1. Keep(Kept)
      BY <1>1, <1>2 DEF NoMatch, Keep
    <2>2. run' \in RunData
      BY <1>2, CalleeIn, PassedIn DEF NoMatch, Types
    <2>3. SameRun(run') /\ run'.cont = {} /\ run'.did = run.did
      BY <1>2, CalleeIn, PassedIn DEF NoMatch, Types, SameRun
    <2> QED
      BY <1>0, <1>2, <2>1, <2>2, <2>3, PlainCall DEF NoMatch, Types, SameRun
  <1>3. ASSUME Unavailable PROVE Good
    <2>1. Keep(Kept)
      BY <1>1, <1>3 DEF Unavailable, Keep
    <2> QED
      BY <1>0, <1>3, <2>1, PlainCall DEF Unavailable, Types, RunData
  <1>4. ASSUME NotApplicable \/ OutputRefused PROVE Good
    <2>1. Callee \in Nat
      BY <1>4, CalleeIn DEF NotApplicable, OutputRefused, Served
    <2> DEFINE Fits(r) == r \in RunData /\ SameRun(r) /\ r.did = run.did
    <2>2. PICK r : run' = Passed(r) /\ Fits(r)
      <3>1. Fits(run) /\ Fits([run EXCEPT !.fault = TRUE])
        BY DEF RunData, Types, SameRun
      <3> HIDE DEF Fits
      <3> QED BY <1>4, <3>1 DEF NotApplicable, OutputRefused
    <2>3. run' \in RunData /\ SameRun(run') /\ run'.cont = {} /\ run'.did = run.did
      BY <2>1, <2>2, PassedIn
    <2> QED
      BY <1>0, <1>4, <2>3, PlainCall DEF NotApplicable, OutputRefused, Types, SameRun
  <1>5. ASSUME Rejects PROVE Good
    BY <1>0, <1>5, PlainCall DEF Rejects, Types, RunData
  <1>6. ASSUME NEW traps \in BOOLEAN, CallFails(traps) PROVE Good
    <2>1. Callee \in Component /\ component[Callee] = "ready"
      BY <1>6, CalleeIn DEF CallFails, Served
    <2>2. /\ component' \in [Component -> States]
          /\ \A c \in Component : component'[c] = "unloaded" <=> component[c] = "unloaded"
      BY <1>6, <2>1 DEF CallFails, Types, States
    <2> QED
      BY <1>0, <1>6, <2>2, PlainCall DEF CallFails, Types, RunData
  <1>7. ASSUME NEW cancelled \in BOOLEAN, Errs(cancelled) PROVE Good
    <2>1. PICK kept \in {Kept, Undone, The(run.base)} : Keep(kept)
      BY <1>7 DEF Errs, Undone
    <2> QED
      BY <1>0, <1>7, <2>1, PlainCall DEF Errs, Types, RunData
  <1>8. ASSUME NEW item, NEW terminal \in BOOLEAN, NEW refused \in BOOLEAN,
               Accepts(item, terminal, refused)
        PROVE  Good
    <2>1. Callee \in Component /\ Callee \in Nat /\ component[Callee] = "ready"
      BY <1>8, CalleeIn DEF Accepts, Served
    <2>2. works' = works + 1 /\ works' \in 0..MaxWork /\ New = {works'} /\ works' \in Nat
      BY <1>8, HostAssumption DEF Accepts, Types, New
    <2>3. item \subseteq Item /\ \A i \in item : i.by = Callee /\ i.work = works'
      BY <1>8, <2>1, <2>2 DEF Accepts, Item
    <2>4. /\ layer' \in [Doc -> Layer]
          /\ \A d \in Doc :
                /\ layer'[d].revision = layer[d].revision
                /\ layer[d].frozen => layer'[d] = layer[d]
                /\ d # Here \/ ~Prepass => layer'[d].items = layer[d].items
                /\ \A i \in layer'[d].items :
                      i \in layer[d].items \/ (component[i.by] = "ready" /\ i.work \in New)
      <3>1. Here \in Doc
        BY <1>0, HereIn
      <3>2. CASE refused
        BY <1>8, <3>2 DEF Accepts, Types, Layer
      <3>3. CASE ~refused
        <4>1. layer' = [layer EXCEPT ![Here].items = @ \cup item]
          BY <1>8, <3>3 DEF Accepts
        <4>2. (layer[Here].frozen => item = {}) /\ (~Prepass => item = {})
          BY <1>8 DEF Accepts, Served
        <4> DEFINE lay == [layer[Here] EXCEPT !.items = @ \cup item]
        <4>3. layer \in [Doc -> Layer] /\ layer[Here] \in Layer
          BY <3>1 DEF Types
        <4>4. /\ lay \in Layer /\ lay.revision = layer[Here].revision
              /\ lay.items = layer[Here].items \cup item
          BY <2>3, <4>3 DEF Layer
        <4>5. lay = layer[Here] \/ item # {}
          BY <4>3 DEF Layer
        <4>6. layer' = [layer EXCEPT ![Here] = lay]
          BY <4>1
        <4>7. \A i \in item : component[i.by] = "ready" /\ i.work \in New
          BY <2>1, <2>2, <2>3
        <4> HIDE DEF lay
        <4> QED BY <3>1, <4>2, <4>3, <4>4, <4>5, <4>6, <4>7
      <3> QED BY <3>2, <3>3
    <2>5. /\ run' \in RunData /\ SameRun(run')
          /\ run'.cont \subseteq run.cont /\ run'.did = run.did \cup {works'}
      <3> DEFINE r == IF refused THEN [run EXCEPT !.result = "error"]
                      ELSE IF terminal THEN [run EXCEPT !.result = "done"]
                      ELSE Passed(run)
      <3>1. run \in RunData /\ SameRun(run)
        BY DEF Types, SameRun
      <3>2. r \in RunData /\ SameRun(r) /\ r.cont \subseteq run.cont /\ r.did = run.did
        <4>1. CASE refused
          BY <3>1, <4>1 DEF RunData, SameRun
        <4>2. CASE ~refused /\ terminal
          BY <3>1, <4>2 DEF RunData, SameRun
        <4>3. CASE ~refused /\ ~terminal
          BY <2>1, <3>1, <4>3, PassedIn
        <4> QED BY <4>1, <4>2, <4>3
      <3>3. run' = [r EXCEPT !.did = @ \cup {works'}]
        BY <1>8, <2>2 DEF Accepts
      <3> HIDE DEF r
      <3> QED BY <2>2, <3>2, <3>3 DEF RunData, SameRun
    <2>6. Kept \cup {works'} \in SUBSET Nat /\ Keep(Kept \cup {works'})
      BY <1>0, <1>8, <2>2, HereIn DEF Accepts
    <2>7. UNCHANGED <<component, initial, latest, published, failed, withdrawn>>
      BY <1>8 DEF Accepts
    <2>8. Types'
      BY <1>0, <2>2, <2>4, <2>5, <2>6, <2>7, KeepTypes DEF Types
    <2> QED BY <1>0, <2>2, <2>4, <2>5, <2>6, <2>7, <2>8, KeepTypes
      DEF CallEffect, SameRun
  <1>9. ASSUME NEW accepted \in BOOLEAN, NEW native \in BOOLEAN, NEW fails \in BOOLEAN,
               NEW traps \in SUBSET Component, Requests(accepted, native, fails, traps)
        PROVE  Good
    <2>1. /\ works' = IF accepted THEN works + 1 ELSE works
          /\ works' \in 0..MaxWork /\ works' \in Nat
          /\ accepted => New = {works + 1}
      BY <1>9, HostAssumption DEF Requests, Types, New
    <2>2. Here \in Doc /\ Kept \in SUBSET Nat
      BY <1>0, HereIn
    <2>3. /\ layer' \in [Doc -> Layer]
          /\ \A d \in Doc :
                /\ layer'[d].revision = layer[d].revision
                /\ layer[d].frozen => layer'[d] = layer[d]
                /\ layer'[d].items = layer[d].items
      BY <1>9, <2>2 DEF Requests, Types, Layer
    <2>4. /\ component' \in [Component -> States]
          /\ \A c \in Component : component'[c] = "unloaded" <=> component[c] = "unloaded"
      BY <1>9 DEF Requests, Types, States
    <2>5. /\ run' \in RunData /\ SameRun(run')
          /\ run'.cont \subseteq run.cont \cup {Kept} /\ run'.did \subseteq run.did \cup New
      <3> DEFINE cont == IF run.cont = {} THEN {Kept} ELSE run.cont
                 did  == IF accepted THEN run.did \cup {works + 1} ELSE run.did
                 a    == [run EXCEPT !.cont = cont]
                 b    == [a EXCEPT !.rounds = @ + 1]
                 r    == [run EXCEPT !.cont = cont, !.rounds = @ + 1, !.did = did]
      <3>1. /\ cont \in SUBSET SUBSET Nat /\ cont \subseteq run.cont \cup {Kept}
            /\ did \in SUBSET Nat /\ did \subseteq run.did \cup New
        BY <2>1, <2>2, HostAssumption DEF Types, RunData
      <3>2. run' = r \/ run' = [r EXCEPT !.result = "error"]
        BY <1>9 DEF Requests
      <3> HIDE DEF cont, did
      <3>3. run \in RunData
        BY DEF Types
      <3>4. r \in RunData /\ SameRun(r) /\ r.cont = cont /\ r.did = did
        <4>1. a \in RunData /\ SameRun(a) /\ a.cont = cont /\ a.rounds = run.rounds
          BY <3>1, <3>3 DEF RunData, SameRun
        <4> HIDE DEF a
        <4>2. b \in RunData /\ SameRun(b) /\ b.cont = cont
          BY <4>1 DEF RunData, SameRun
        <4> HIDE DEF b
        <4>3. r = [b EXCEPT !.did = did]
          BY <4>1 DEF a, b
        <4> QED BY <3>1, <4>2, <4>3 DEF RunData, SameRun
      <3> HIDE DEF r
      <3>5. run' \in RunData /\ SameRun(run') /\ run'.cont = cont /\ run'.did = did
        BY <3>2, <3>4 DEF RunData, SameRun
      <3> QED BY <3>1, <3>5
    <2>6. PICK kept \in {Undone, Kept, Kept \cup New} : Keep(kept)
      BY <1>9, <2>1, TheOne DEF Requests, Undone
    <2>7. /\ kept \in SUBSET Nat
          /\ kept \subseteq Kept \cup (UNION run.base) \cup (UNION run.cont) \cup New
      BY <1>0, <2>6, HereIn, TheIn DEF Undone, New
    <2>8. UNCHANGED <<initial, latest, published, failed, withdrawn>>
      BY <1>9 DEF Requests
    <2>9. Types'
      BY <1>0, <2>1, <2>3, <2>4, <2>5, <2>6, <2>7, <2>8, KeepTypes DEF Types
    <2>10. /\ \A t \in Txn : txn'[t].status = txn[t].status /\ txn'[t].doc = txn[t].doc
           /\ \A t \in Txn \ {Self} : txn'[t].kept = txn[t].kept
           /\ txn'[Self].kept = kept
      BY <1>0, <2>6, <2>7, KeepTypes
    <2>11. works' \in {works, works + 1}
      BY <2>1
    <2>12. \A d \in Doc :
             /\ layer'[d].revision = layer[d].revision
             /\ layer[d].frozen => layer'[d] = layer[d]
             /\ d # Here \/ ~Prepass => layer'[d].items = layer[d].items
             /\ \A i \in layer'[d].items :
                   i \in layer[d].items \/ (component[i.by] = "ready" /\ i.work \in New)
      BY <2>3
    <2> HIDE DEF Good
    <2>13. CallEffect
      BY <2>4, <2>5, <2>7, <2>8, <2>10, <2>11, <2>12 DEF CallEffect, SameRun
    <2> QED BY <2>9, <2>13 DEF Good
  <1>10. Good
    <2> HIDE DEF Good
    <2>1. ASSUME NEW sound \in BOOLEAN, NEW terminal \in BOOLEAN, NEW refused \in BOOLEAN,
                 NEW registers \in BOOLEAN,
                 Accepts(IF registers
                         THEN {[by |-> Callee, work |-> works + 1, sound |-> sound]}
                         ELSE {}, terminal, refused)
          PROVE  Good
      BY <1>8, <2>1, Zenon
    <2> QED BY <1>2, <1>3, <1>4, <1>5, <1>6, <1>7, <1>9, <2>1, Zenon DEF Calls
  <1>11. Running' /\ Self' = Self
    BY <1>0, <1>10 DEF CallEffect, Running, Self
  <1> QED
    BY <1>0, <1>10, <1>11 DEF CallEffect, RunSound

-----------------------------------------------------------------------------
(* The other steps of the host.                                            *)
LEMMA BegunIn ==
    ASSUME Types, NEW d \in Doc, NEW r \in 1..MaxRevision, NotStale(r, d)
    PROVE  Begun(d, r) \in Layer /\ Begun(d, r).revision = r
  <1>1. layer[d] \in Layer /\ layer[d].revision = latest[d] /\ r \in 0..MaxRevision
        /\ latest[d] \in 0..MaxRevision
    BY HostAssumption DEF Types
  <1>2. initial \in SUBSET Item
    BY HostAssumption DEF Types, Item
  <1> QED BY <1>1, <1>2, HostAssumption DEF Begun, Layer, NotStale

LEMMA OpenIn ==
    ASSUME NEW d \in Doc, NEW r \in 1..MaxRevision
    PROVE  /\ Open(d, r) \in Handle /\ Open(d, r).status = "open" /\ Open(d, r).doc = d
           /\ Open(d, r).kept = {}
           /\ LET e == [Open(d, r) EXCEPT !.status = "cancelled"]
              IN  e \in Handle /\ e.doc = d /\ e.kept = {}
  BY HostAssumption DEF Open, Handle

EnterFacts(r, kind, t, lay, kept) ==
    /\ r \in RunData /\ r.kind = kind /\ r.txn = {t}
    /\ r.base = {kept} /\ r.cont = {} /\ r.did = {}
    /\ r.saved = IF kind = "later" THEN {} ELSE {lay.items}

LEMMA EnterOne ==
    ASSUME NEW kind \in Kinds, NEW t \in Txn, NEW owned \in BOOLEAN, NEW lay \in Layer,
           NEW kept \in SUBSET Nat
    PROVE  LET r == Enter(kind, t, owned, lay, kept)
           IN  EnterFacts(r, kind, t, lay, kept) /\ r.owned = owned
  <1> DEFINE saved == IF kind = "later" THEN {} ELSE {lay.items}
             a == [NoRun EXCEPT !.kind = kind]
             b == [a EXCEPT !.txn = {t}]
             c == [b EXCEPT !.owned = owned]
             e == [c EXCEPT !.base = {kept}]
             Rest(r) == r \in RunData /\ r.cont = {} /\ r.did = {} /\ r.kind = kind
  <1>1. NoRun \in RunData /\ NoRun.cont = {} /\ NoRun.did = {}
    BY DEF NoRun, RunData
  <1>2. Rest(a)
    BY <1>1 DEF RunData
  <1> HIDE DEF a
  <1>3. Rest(b) /\ b.txn = {t}
    BY <1>2 DEF RunData
  <1> HIDE DEF b
  <1>4. Rest(c) /\ c.txn = {t} /\ c.owned = owned
    BY <1>3 DEF RunData
  <1> HIDE DEF c
  <1>5. Rest(e) /\ e.txn = {t} /\ e.owned = owned /\ e.base = {kept}
    BY <1>4 DEF RunData
  <1> HIDE DEF e
  <1>6. saved \in SUBSET SUBSET Item
    BY DEF Layer
  <1>7. Enter(kind, t, owned, lay, kept) = [e EXCEPT !.saved = saved]
    BY DEF Enter, a, b, c, e
  <1> HIDE DEF saved
  <1>8. LET r == Enter(kind, t, owned, lay, kept) IN
        /\ Rest(r) /\ r.txn = {t} /\ r.owned = owned /\ r.base = {kept} /\ r.saved = saved
    BY <1>5, <1>6, <1>7 DEF RunData
  <1> QED BY <1>8 DEF saved, EnterFacts

LEMMA EnterIn ==
    ASSUME NEW kind \in Kinds, NEW t \in Txn, NEW lay \in Layer, NEW kept \in SUBSET Nat
    PROVE  /\ EnterFacts(Enter(kind, t, TRUE, lay, kept), kind, t, lay, kept)
           /\ EnterFacts(Enter(kind, t, FALSE, lay, kept), kind, t, lay, kept)
           /\ Enter(kind, t, TRUE, lay, kept).owned
           /\ ~Enter(kind, t, FALSE, lay, kept).owned
  BY EnterOne, Zenon

LEMMA QuietRun == ASSUME ~Running, run' = run, RunSound PROVE RunSound'
  BY DEF RunSound, Running, Self

LEMMA ComponentTypes ==
    ASSUME Types, RunSound, Components
    PROVE  Types' /\ RunSound'
  <1>1. ASSUME NEW c \in Component, NEW items, Load(c, items) PROVE Types' /\ RunSound'
    <2>1. component' \in [Component -> States]
      BY <1>1 DEF Load, Types, States
    <2>2. initial' \subseteq [by : Component, work : {0}, sound : BOOLEAN]
      BY <1>1 DEF Load, Types
    <2> QED BY <1>1, <2>1, <2>2, QuietRun DEF Load, Types
  <1>2. ASSUME NEW c \in Component, Unload(c) PROVE Types' /\ RunSound'
    <2>1. component' \in [Component -> States]
      BY <1>2 DEF Unload, Types, States
    <2>2. /\ layer' \in [Doc -> Layer]
          /\ \A d \in Doc : layer'[d].revision = layer[d].revision
      <3> SUFFICES ASSUME NEW d \in Doc
                   PROVE  layer'[d] \in Layer /\ layer'[d].revision = layer[d].revision
        BY <1>2 DEF Unload
      <3>1. layer[d] \in Layer
        BY DEF Types
      <3>2. layer'[d] = layer[d] \/ layer'[d] = [layer[d] EXCEPT !.items = Without(@, c)]
        BY <1>2 DEF Unload
      <3> QED BY <3>1, <3>2 DEF Layer, Without
    <2> QED BY <1>2, <2>1, <2>2, QuietRun DEF Unload, Types
  <1> QED BY <1>1, <1>2 DEF Components

(* A transaction begins, or ends by its owner.                             *)
LEMMA BeginTypes ==
    ASSUME Types, RunSound, NEW t \in Txn, NEW d \in Doc, NEW r \in 1..MaxRevision,
           NewTxn(t, d, r), NEW lay \in Layer, lay.revision = r, NEW h \in Handle,
           layer' = [layer EXCEPT ![d] = lay], txn' = [txn EXCEPT ![t] = h],
           UNCHANGED <<component, initial, published, works, failed, withdrawn>>, run' \in RunData
    PROVE  Types'
  <1>1. latest' \in [Doc -> 0..MaxRevision] /\ latest' = [latest EXCEPT ![d] = r]
    BY HostAssumption DEF NewTxn, Types
  <1>2. layer' \in [Doc -> Layer] /\ \A e \in Doc : layer'[e].revision = latest'[e]
    BY <1>1 DEF Types
  <1> QED BY <1>1, <1>2 DEF Types

LEMMA OwnerTypes ==
    ASSUME Types, RunSound, NEW t \in Txn, CommitParse(t) \/ CancelParse(t)
    PROVE  Types' /\ RunSound'
  <1>1. /\ txn' \in [Txn -> Handle] /\ \A u \in Txn \ {t} : txn'[u] = txn[u]
        /\ published' \in SUBSET Nat /\ run.txn # {t}
        /\ UNCHANGED <<component, initial, latest, layer, run, works, failed, withdrawn>>
    <2>1. txn[t] \in Handle
      BY DEF Types
    <2>2. CASE CommitParse(t)
      BY <2>1, <2>2 DEF CommitParse, Types, Handle
    <2>3. CASE CancelParse(t)
      <3>1. PICK h \in Handle : txn' = [txn EXCEPT ![t] = h]
        BY <2>1, <2>3 DEF CancelParse, Types, Handle
      <3> QED BY <2>3, <3>1 DEF CancelParse, Types
    <2> QED BY <2>2, <2>3
  <1>2. Types'
    BY <1>1 DEF Types
  <1>3. RunSound'
    BY <1>1 DEF RunSound, Running, Self
  <1> QED BY <1>2, <1>3

(* A dispatch or an expansion begins, or a transaction.                    *)
LEMMA BeginOnly ==
    ASSUME Types, RunSound, NEW t \in Txn, NEW d \in Doc, NEW r \in 1..MaxRevision,
           BeginParse(t, d, r)
    PROVE  Types' /\ RunSound'
  <1>1. Begun(d, r) \in Layer /\ Begun(d, r).revision = r /\ Open(d, r) \in Handle
    BY BegunIn, OpenIn DEF BeginParse, NewTxn
  <1>2. run' = run /\ ~Running /\ run' \in RunData
    BY DEF BeginParse, NewTxn, Types
  <1>3. Types'
    BY <1>1, <1>2, BeginTypes DEF BeginParse
  <1> QED BY <1>2, <1>3, QuietRun

LEMMA DispatchTypes ==
    ASSUME Types, RunSound, NEW t \in Txn, NEW kind \in Kinds, NEW d \in Doc,
           NEW r \in 1..MaxRevision, Dispatch(t, kind, d, r)
    PROVE  Types' /\ RunSound'
  <1> DEFINE lay == Begun(d, r)
             ent == Entered(kind, lay)
  <1>1. /\ NewTxn(t, d, r) /\ ~Running /\ NotStale(r, d)
        /\ UNCHANGED <<component, initial, published, works, failed, withdrawn>>
    BY DEF Dispatch, NewTxn
  <1>2. lay \in Layer /\ lay.revision = r
    BY <1>1, BegunIn
  <1>3. ent \in Layer /\ ent.revision = r
    BY <1>2 DEF Entered, Layer
  <1>4. CASE MayEnter(kind, lay)
    <2> DEFINE q == Enter(kind, t, TRUE, lay, {})
    <2>1. run' = q /\ layer' = [layer EXCEPT ![d] = ent] /\ txn' = [txn EXCEPT ![t] = Open(d, r)]
      BY <1>4 DEF Dispatch
    <2> HIDE DEF lay, ent
    <2>2. /\ run' \in RunData /\ run'.txn = {t} /\ run'.base = {{}} /\ run'.kind = kind
      <3>1. EnterFacts(Enter(kind, t, TRUE, lay, {}), kind, t, lay, {})
        BY <1>2, EnterIn
      <3> QED BY <2>1, <3>1 DEF EnterFacts
    <2>3. Open(d, r) \in Handle /\ Open(d, r).status = "open"
      BY OpenIn
    <2>4. Types'
      BY <1>1, <1>3, <2>1, <2>2, <2>3, BeginTypes
    <2>5. Self' = t /\ txn'[t].status = "open" /\ Running'
      BY <2>1, <2>2, <2>3, TheOne DEF Self, Types, Running, Kinds
    <2> QED BY <2>2, <2>4, <2>5 DEF RunSound
  <1>5. CASE ~MayEnter(kind, lay)
    <2> DEFINE h == [Open(d, r) EXCEPT !.status = "cancelled"]
    <2>1. run' = run /\ layer' = [layer EXCEPT ![d] = lay] /\ txn' = [txn EXCEPT ![t] = h]
      BY <1>5 DEF Dispatch
    <2>2. h \in Handle
      BY OpenIn
    <2> HIDE DEF lay, ent, h
    <2>3. run' \in RunData
      BY <2>1 DEF Types
    <2>4. Types'
      BY <1>1, <1>2, <2>1, <2>2, <2>3, BeginTypes
    <2> QED BY <1>1, <2>1, <2>4, QuietRun
  <1> QED BY <1>4, <1>5

LEMMA DispatchInTypes ==
    ASSUME Types, RunSound, NEW t \in Txn, NEW kind \in Kinds, DispatchInParse(t, kind)
    PROVE  Types' /\ RunSound'
  <1> DEFINE d == txn[t].doc
             ent == Entered(kind, layer[d])
  <1>1. d \in Doc /\ layer[d] \in Layer /\ txn[t].kept \in SUBSET Nat /\ txn[t].status = "open"
    BY DEF DispatchInParse, Types, Handle
  <1>2. ent \in Layer /\ ent.revision = layer[d].revision
    BY <1>1 DEF Entered, Layer
  <1>3. /\ run' = Enter(kind, t, FALSE, layer[d], txn[t].kept)
        /\ layer' = [layer EXCEPT ![d] = ent]
        /\ UNCHANGED <<component, initial, latest, txn, published, works, failed, withdrawn>>
    BY DEF DispatchInParse
  <1> HIDE DEF ent, d
  <1>4. /\ run' \in RunData /\ run'.txn = {t} /\ run'.base = {txn[t].kept} /\ run'.kind = kind
    <2>1. EnterFacts(Enter(kind, t, FALSE, layer[d], txn[t].kept), kind, t, layer[d], txn[t].kept)
      BY <1>1, EnterIn
    <2> QED BY <1>3, <2>1 DEF EnterFacts
  <1>5. Types'
    BY <1>1, <1>2, <1>3, <1>4 DEF Types
  <1>6. Self' = t /\ txn'[t].status = "open" /\ Running'
    BY <1>1, <1>3, <1>4, TheOne DEF Self, Running, Kinds
  <1> QED BY <1>4, <1>5, <1>6 DEF RunSound

-----------------------------------------------------------------------------
(* An operation returns.                                                   *)
LEMMA NoRunIn == NoRun \in RunData /\ NoRun.kind = "none" /\ NoRun.did = {}
  BY DEF NoRun, RunData

LEMMA RestoredIn ==
    ASSUME Types, RunSound, Running
    PROVE  /\ Restored \in Layer /\ Restored.revision = layer[Here].revision
           /\ Restored.frozen = layer[Here].frozen
           /\ Remains \in SUBSET Nat
  <1>1. Here \in Doc /\ layer[Here] \in Layer
    BY HereIn DEF Types
  <1>2. Prepass => The(run.saved) \in SUBSET Item
    BY HereIn
  <1>3. Remains \in SUBSET Nat
    BY HereIn DEF Remains
  <1> QED BY <1>1, <1>2, <1>3 DEF Restored, Layer

LEMMA ReturnTypes ==
    ASSUME Types, RunSound, ReturnInParse \/ \E commits \in BOOLEAN : Return(commits)
    PROVE  Types' /\ RunSound' /\ run' = NoRun
  <1>1. Running /\ run' = NoRun
    BY DEF ReturnInParse, Return, Over
  <1>2. RunSound'
    BY <1>1, NoRunIn DEF RunSound, Running
  <1>3. Self \in Txn /\ Here \in Doc /\ txn[Self] \in Handle
    BY <1>1, HereIn DEF Types
  <1>4. failed' \in SUBSET Nat
    BY DEF ReturnInParse, Return, Types, RunData
  <1>5. PICK lay \in Layer : lay.revision = layer[Here].revision /\ layer' = [layer EXCEPT ![Here] = lay]
    <2>1. CASE ReturnInParse
      BY <1>1, <2>1, RestoredIn DEF ReturnInParse
    <2>2. ASSUME NEW commits \in BOOLEAN, Return(commits)
          PROVE  \E lay \in Layer : /\ lay.revision = layer[Here].revision
                                    /\ layer' = [layer EXCEPT ![Here] = lay]
      <3> DEFINE ends == Goes /\ Buildable(Restored)
                 lay  == [Restored EXCEPT !.frozen = @ \/ ends]
      <3>1. lay \in Layer /\ lay.revision = layer[Here].revision
        BY <1>1, RestoredIn DEF Layer
      <3>2. layer' = [layer EXCEPT ![Here] = lay]
        BY <2>2 DEF Return
      <3> QED BY <3>1, <3>2
    <2> QED BY <2>1, <2>2
  <1>6. txn' \in [Txn -> Handle] /\ published' \in SUBSET Nat
    <2>1. CASE ReturnInParse
      BY <1>1, <2>1, RestoredIn, KeepTypes DEF ReturnInParse, Types
    <2>2. ASSUME NEW commits \in BOOLEAN, Return(commits)
          PROVE  txn' \in [Txn -> Handle] /\ published' \in SUBSET Nat
      <3>1. CASE commits
        <4>1. txn' = [txn EXCEPT ![Self].status = "committed", ![Self].kept = Remains]
          BY <2>2, <3>1 DEF Return
        <4>2. published' = published \cup Remains
          BY <2>2, <3>1 DEF Return
        <4>3. Remains \in SUBSET Nat
          BY <1>1, RestoredIn
        <4> QED BY <1>3, <4>1, <4>2, <4>3 DEF Types, Handle
      <3>2. CASE ~commits
        <4>1. txn' = [txn EXCEPT ![Self].status = "cancelled", ![Self].kept = {}]
          BY <2>2, <3>2 DEF Return
        <4>2. published' = published
          BY <2>2, <3>2 DEF Return
        <4> QED BY <1>3, <4>1, <4>2 DEF Types, Handle
      <3> QED BY <3>1, <3>2
    <2> QED BY <2>1, <2>2
  <1>7. UNCHANGED <<component, initial, latest, works>>
    BY DEF ReturnInParse, Return
  <1> QED BY <1>1, <1>2, <1>3, <1>4, <1>5, <1>6, <1>7, NoRunIn DEF Types

LEMMA NextTypes ==
    ASSUME Types, RunSound, Next
    PROVE  Types' /\ RunSound'
  BY CallTypes, ComponentTypes, OwnerTypes, BeginOnly, DispatchTypes, DispatchInTypes,
     ReturnTypes DEF Next, Owners

-----------------------------------------------------------------------------
(* The document in progress: it has an open transaction, an operation of   *)
(* the host runs only inside its Text stage, and the layer is frozen from  *)
(* the Syntax stage on.                                                    *)
JobSound ==
    /\ job \in JobData /\ token \in BOOLEAN
    /\ Idle => job.txn = {} /\ ~job.dead /\ ~job.inside
    /\ ~Idle => /\ job.txn = {Mine} /\ Mine \in Txn /\ txn[Mine].status = "open"
                /\ Running <=> Within("text")
                /\ Running => run.txn = job.txn /\ run.kind = "text"
    /\ At("text") => ~layer[MyDoc].frozen
    /\ Within("syntax") \/ job.stage \in {"ast", "commit"} => layer[MyDoc].frozen
    /\ job.dead => token /\ ~Within("commit")

HostInv == Types /\ RunSound /\ JobSound

LEMMA NoJobIn ==
    NoJob \in JobData /\ NoJob.stage = "none" /\ NoJob.txn = {} /\ ~NoJob.dead /\ ~NoJob.inside
    /\ NoJob.did = {}
  BY DEF NoJob, JobData

LEMMA MineIn ==
    ASSUME HostInv, ~Idle
    PROVE  /\ Mine \in Txn /\ MyDoc \in Doc /\ MyKept \in SUBSET Nat
           /\ job \in JobData /\ layer[MyDoc] \in Layer
  BY DEF HostInv, JobSound, Types, Handle, MyDoc, MyKept

LEMMA NowKeepTypes ==
    ASSUME HostInv, ~Idle, NEW kept \in SUBSET Nat, NowKeep(kept)
    PROVE  /\ txn' \in [Txn -> Handle]
           /\ \A t \in Txn : txn'[t].status = txn[t].status /\ txn'[t].doc = txn[t].doc
           /\ \A t \in Txn \ {Mine} : txn'[t] = txn[t]
           /\ txn'[Mine].kept = kept
  BY MineIn DEF NowKeep, HostInv, Types, Handle

LEMMA QuietJob ==
    ASSUME RunSound, JobSound, Idle, UNCHANGED <<job, token>>
    PROVE  JobSound'
  BY DEF JobSound, Idle, At, Within

(* A step of the document that leaves its transaction open, outside its    *)
(* Text stage.                                                             *)
LEMMA JobStep ==
    ASSUME HostInv, ~Idle, ~Running, run' = run,
           job' \in JobData, job'.txn = job.txn, job'.stage \notin {"none", "text"},
           token' \in BOOLEAN,
           \A t \in Txn : txn'[t].status = txn[t].status /\ txn'[t].doc = txn[t].doc,
           (job'.stage = "syntax" /\ job'.inside) \/ job'.stage \in {"ast", "commit"}
             => layer'[MyDoc].frozen,
           job'.dead => token' /\ ~(job'.stage = "commit" /\ job'.inside)
    PROVE  RunSound' /\ JobSound'
  <1>1. ~Running' /\ RunSound'
    BY DEF HostInv, RunSound, Running
  <1>2. Mine' = Mine /\ MyDoc' = MyDoc /\ Mine \in Txn /\ job'.txn = {Mine}
    BY DEF HostInv, JobSound, Mine, MyDoc
  <1>3. txn'[Mine].status = "open"
    BY <1>2 DEF HostInv, JobSound
  <1> QED BY <1>1, <1>2, <1>3 DEF JobSound, Idle, At, Within

LEMMA OthersStep ==
    ASSUME HostInv, Others, UNCHANGED <<job, token>>
    PROVE  HostInv'
  <1>1. CASE Idle /\ Next
    BY <1>1, NextTypes, QuietJob DEF HostInv
  <1>2. CASE ~Idle /\ Calls
    <2>1. Types' /\ RunSound' /\ Running' /\ CallEffect
      BY <1>2, CallTypes DEF HostInv
    <2>2. Mine' = Mine /\ Mine \in Txn /\ MyDoc' = MyDoc /\ MyDoc \in Doc
      BY <1>2, <2>1, MineIn DEF CallEffect, Mine, MyDoc
    <2>3. Running
      BY <2>1 DEF CallEffect, Running
    <2>4. layer[MyDoc].frozen => layer'[MyDoc].frozen
      BY <2>1, <2>2 DEF CallEffect
    <2>5. JobSound'
      BY <1>2, <2>1, <2>2, <2>3, <2>4
      DEF HostInv, JobSound, CallEffect, Idle, At, Within
    <2> QED BY <2>1, <2>5 DEF HostInv
  <1>3. ASSUME ~Idle, NEW t \in Txn, {t} # job.txn, CommitParse(t) \/ CancelParse(t)
        PROVE  HostInv'
    <2>1. Types' /\ RunSound'
      BY <1>3, OwnerTypes DEF HostInv
    <2>2. Mine' = Mine /\ Mine \in Txn /\ Mine # t
      BY <1>3, MineIn DEF HostInv, JobSound, Mine
    <2>3. txn'[Mine] = txn[Mine] /\ UNCHANGED <<layer, run>>
      BY <1>3, <2>2 DEF CommitParse, CancelParse, HostInv, Types
    <2>4. MyDoc' = MyDoc
      BY <2>2, <2>3 DEF MyDoc
    <2>5. JobSound'
      BY <1>3, <2>2, <2>3, <2>4 DEF HostInv, JobSound, Idle, At, Within, Running
    <2> QED BY <2>1, <2>5 DEF HostInv
  <1> QED BY <1>1, <1>2, <1>3 DEF Others

-----------------------------------------------------------------------------
(* The steps of parse_document.                                            *)
LEMMA StartStep ==
    ASSUME HostInv, NEW t \in Txn, NEW d \in Doc, NEW r \in 1..MaxRevision,
           StartDocument(t, d, r)
    PROVE  HostInv'
  <1> DEFINE lay == Begun(d, r)
  <1>1. /\ Idle /\ NewTxn(t, d, r) /\ ~Running /\ NotStale(r, d)
        /\ layer' = [layer EXCEPT ![d] = lay]
        /\ UNCHANGED <<component, initial, published, run, works, failed, withdrawn, token>>
    BY DEF StartDocument, NewTxn
  <1>2. lay \in Layer /\ lay.revision = r
    BY <1>1, BegunIn DEF HostInv
  <1>3. ~Running' /\ RunSound' /\ run' \in RunData
    BY <1>1, QuietRun DEF HostInv, Running, Types
  <1>4. CASE lay.frozen
    <2> DEFINE h == [Open(d, r) EXCEPT !.status = "cancelled"]
    <2>1. txn' = [txn EXCEPT ![t] = h] /\ UNCHANGED job
      BY <1>4 DEF StartDocument
    <2>2. h \in Handle
      BY OpenIn
    <2> HIDE DEF h, lay
    <2>3. Types'
      BY <1>1, <1>2, <1>3, <2>1, <2>2, BeginTypes DEF HostInv
    <2> QED BY <1>1, <1>3, <2>1, <2>3, QuietJob DEF HostInv
  <1>5. CASE ~lay.frozen
    <2>1. /\ txn' = [txn EXCEPT ![t] = Open(d, r)]
          /\ job' = [NoJob EXCEPT !.stage = "text", !.txn = {t}, !.saved = lay.items]
      BY <1>5 DEF StartDocument
    <2> HIDE DEF lay
    <2>2. Types'
      BY <1>1, <1>2, <1>3, <2>1, OpenIn, BeginTypes DEF HostInv
    <2>3. /\ job' \in JobData /\ job'.stage = "text" /\ job'.txn = {t} /\ ~job'.inside
          /\ ~job'.dead
      <3> DEFINE a == [NoJob EXCEPT !.stage = "text"]
                 b == [a EXCEPT !.txn = {t}]
      <3>1. a \in JobData /\ a.stage = "text" /\ ~a.inside /\ ~a.dead
        BY NoJobIn DEF JobData, Stages
      <3> HIDE DEF a
      <3>2. b \in JobData /\ b.stage = "text" /\ ~b.inside /\ ~b.dead /\ b.txn = {t}
        BY <3>1 DEF JobData
      <3> HIDE DEF b
      <3>3. job' = [b EXCEPT !.saved = lay.items]
        BY <2>1 DEF a, b
      <3> QED BY <1>2, <3>2, <3>3 DEF JobData, Layer
    <2>4. Mine' = t /\ txn'[t] = Open(d, r) /\ layer'[d] = lay
      BY <1>1, <2>1, <2>3, TheOne DEF Mine, HostInv, Types
    <2>5. MyDoc' = d /\ txn'[Mine'].status = "open"
      <3>1. Open(d, r).doc = d /\ Open(d, r).status = "open"
        BY DEF Open
      <3> QED BY <2>4, <3>1 DEF MyDoc
    <2>6. JobSound'
      BY <1>1, <1>3, <1>5, <2>3, <2>4, <2>5 DEF JobSound, HostInv, Idle, At, Within
    <2> QED BY <1>3, <2>2, <2>6 DEF HostInv
  <1> QED BY <1>4, <1>5

LEMMA RequestStep == ASSUME HostInv, RequestCancel PROVE HostInv'
  <1>1. /\ ~Idle /\ token' = TRUE /\ UNCHANGED vars
        /\ job' = [job EXCEPT !.dead = ~Within("commit")]
    BY DEF RequestCancel
  <1>2. Types' /\ RunSound'
    BY <1>1 DEF HostInv, Types, RunSound, vars, Running, Self
  <1>3. /\ job' \in JobData /\ job'.stage = job.stage /\ job'.inside = job.inside
        /\ job'.txn = job.txn /\ job'.dead = ~Within("commit")
    BY <1>1 DEF HostInv, JobSound, JobData
  <1>4. Mine' = Mine /\ MyDoc' = MyDoc
    BY <1>1, <1>3 DEF Mine, MyDoc, vars
  <1>5. JobSound'
    BY <1>1, <1>3, <1>4 DEF HostInv, JobSound, Idle, At, Within, vars, Running
  <1> QED BY <1>2, <1>5 DEF HostInv

LEMMA EnterTextStep == ASSUME HostInv, EnterText PROVE HostInv' /\ Running'
  <1> DEFINE q == Enter("text", Mine, FALSE, layer[MyDoc], MyKept)
  <1>1. /\ At("text") /\ ~token /\ run' = q
        /\ UNCHANGED <<component, initial, latest, layer, txn, published, works, failed, withdrawn, token>>
        /\ job' = [job EXCEPT !.inside = TRUE]
    BY DEF EnterText
  <1>2. ~Idle /\ ~Running
    BY <1>1 DEF At, HostInv, JobSound, Within, Idle
  <1>3. Mine \in Txn /\ MyDoc \in Doc /\ MyKept \in SUBSET Nat /\ layer[MyDoc] \in Layer
    BY <1>2, MineIn
  <1>4. EnterFacts(q, "text", Mine, layer[MyDoc], MyKept)
    BY <1>3, EnterIn DEF Kinds
  <1> HIDE DEF q
  <1>5. run' \in RunData /\ run'.kind = "text" /\ run'.txn = {Mine} /\ run'.base # {}
    BY <1>1, <1>4 DEF EnterFacts
  <1>6. Types'
    BY <1>1, <1>5 DEF HostInv, Types
  <1>7. Running' /\ Self' = Mine
    BY <1>5, TheOne DEF Running, Self
  <1>8. RunSound'
    BY <1>1, <1>2, <1>5, <1>7 DEF RunSound, HostInv, JobSound
  <1>9. /\ job' \in JobData /\ job'.stage = "text" /\ job'.inside
        /\ job'.txn = job.txn /\ job'.dead = job.dead
    BY <1>1 DEF HostInv, JobSound, JobData, At
  <1>10. Mine' = Mine /\ MyDoc' = MyDoc
    BY <1>1, <1>9 DEF Mine, MyDoc
  <1>11. JobSound'
    BY <1>1, <1>2, <1>5, <1>7, <1>9, <1>10 DEF HostInv, JobSound, Idle, At, Within
  <1> QED BY <1>6, <1>7, <1>8, <1>11 DEF HostInv

LEMMA TextReturnsStep == ASSUME HostInv, TextReturns PROVE HostInv'
  <1>1. Within("text") /\ ReturnInParse /\ UNCHANGED token /\ ~Idle
    BY DEF TextReturns, Within, Idle
  <1>2. Types' /\ RunSound' /\ run' = NoRun /\ ~Running'
    BY <1>1, ReturnTypes, NoRunIn DEF HostInv, Running
  <1>3. Running
    BY <1>1 DEF HostInv, JobSound
  <1>4. \A t \in Txn : txn'[t].status = txn[t].status /\ txn'[t].doc = txn[t].doc
    BY <1>1, <1>3, KeepTypes, RestoredIn DEF ReturnInParse, HostInv
  <1>5. /\ job' \in JobData /\ job'.stage \in {"tree", "abort"} /\ ~job'.inside
        /\ job'.txn = job.txn /\ job'.dead = job.dead
    <2> DEFINE st == IF Outcome = "error" THEN "abort" ELSE "tree"
               did == job.did \cup run.did
               a == [job EXCEPT !.stage = st]
               b == [a EXCEPT !.inside = FALSE]
               c == [b EXCEPT !.global = (Outcome = "fault")]
    <2>1. st \in {"tree", "abort"} /\ did \in SUBSET Nat
      BY DEF HostInv, Types, RunData, JobSound, JobData
    <2> HIDE DEF st, did
    <2>2. a \in JobData /\ a.stage = st /\ a.txn = job.txn /\ a.dead = job.dead
      BY <2>1 DEF HostInv, JobSound, JobData, Stages
    <2> HIDE DEF a
    <2>3. b \in JobData /\ b.stage = st /\ b.txn = job.txn /\ b.dead = job.dead /\ ~b.inside
      BY <2>2 DEF JobData
    <2> HIDE DEF b
    <2>4. c \in JobData /\ c.stage = st /\ c.txn = job.txn /\ c.dead = job.dead /\ ~c.inside
      BY <2>3 DEF JobData
    <2> HIDE DEF c
    <2>5. job' = [c EXCEPT !.did = did]
      BY <2>2, <2>3, <2>4 DEF TextReturns, a, b, c, st, did
    <2> QED BY <2>1, <2>4, <2>5 DEF JobData
  <1>6. Mine' = Mine /\ Mine \in Txn /\ MyDoc' = MyDoc
    BY <1>1, <1>4, <1>5, MineIn DEF Mine, MyDoc
  <1>7. JobSound'
    BY <1>1, <1>2, <1>4, <1>5, <1>6 DEF HostInv, JobSound, Idle, At, Within
  <1> QED BY <1>2, <1>7 DEF HostInv

(* No operation of the host runs outside the Text stage.                   *)
LEMMA Alone == ASSUME HostInv, ~Idle, ~Within("text") PROVE ~Running
  BY DEF HostInv, JobSound

LEMMA CancelledStep == ASSUME HostInv, Cancelled PROVE HostInv'
  <1>1. /\ ~Idle /\ ~job.inside /\ UNCHANGED <<vars, token>>
        /\ job' = [job EXCEPT !.stage = "abort"]
    BY DEF Cancelled, Idle, Stages
  <1>2. ~Running
    BY <1>1, Alone DEF Within
  <1>3. job' \in JobData /\ job'.stage = "abort" /\ job'.txn = job.txn /\ job'.dead = job.dead
    BY <1>1 DEF HostInv, JobSound, JobData
  <1>4. Types'
    BY <1>1 DEF HostInv, Types, vars
  <1>5. token' \in BOOLEAN /\ run' = run /\ txn' = txn /\ (job'.dead => token')
    BY <1>1, <1>3 DEF HostInv, JobSound, vars
  <1> QED BY <1>1, <1>2, <1>3, <1>4, <1>5, JobStep DEF HostInv

LEMMA EnterStageStep ==
    ASSUME HostInv, NEW stage \in {"tree", "syntax", "ast"}, EnterStage(stage)
    PROVE  HostInv'
  <1>1. /\ job.stage = stage /\ ~job.inside /\ ~Idle /\ ~token
        /\ UNCHANGED <<component, initial, latest, txn, published, run, works, failed, withdrawn, token>>
    BY DEF EnterStage, At, Idle
  <1>2. ~Running
    BY <1>1, Alone DEF Within
  <1>3. Mine \in Txn /\ MyDoc \in Doc /\ MyKept \in SUBSET Nat /\ layer[MyDoc] \in Layer
    BY <1>1, MineIn
  <1>4. job \in JobData /\ (stage = "ast" => layer[MyDoc].frozen) /\ token \in BOOLEAN /\ ~job.dead
    BY <1>1 DEF HostInv, JobSound
  <1>5. /\ layer' \in [Doc -> Layer]
        /\ \A d \in Doc : layer'[d].revision = layer[d].revision
        /\ layer[MyDoc].frozen => layer'[MyDoc].frozen
        /\ stage = "syntax" /\ Buildable(layer[MyDoc]) => layer'[MyDoc].frozen
    <2>1. SyntaxLayer \in Layer /\ SyntaxLayer.revision = layer[MyDoc].revision /\ SyntaxLayer.frozen
      BY <1>3 DEF SyntaxLayer, Layer
    <2>2. \/ layer' = [layer EXCEPT ![MyDoc] = SyntaxLayer]
          \/ layer' = layer /\ ~(stage = "syntax" /\ Buildable(layer[MyDoc]))
      BY DEF EnterStage
    <2> QED BY <1>3, <2>1, <2>2 DEF HostInv, Types
  <1>6. Types'
    BY <1>1, <1>5 DEF HostInv, Types
  <1>7. /\ job' \in JobData /\ job'.txn = job.txn /\ ~job'.dead
        /\ \/ job'.stage = After[stage] /\ ~job'.inside /\ stage # "syntax"
           \/ job'.stage = "abort"
           \/ job'.stage = stage /\ (stage = "syntax" => Buildable(layer[MyDoc]))
    <2>1. CASE job.global /\ stage # "syntax"
      <3>1. job' = [job EXCEPT !.stage = After[stage]]
        BY <2>1 DEF EnterStage
      <3> QED BY <1>1, <1>4, <2>1, <3>1 DEF JobData, After, Stages
    <2>2. CASE ~(job.global /\ stage # "syntax") /\ stage = "syntax" /\ ~Buildable(layer[MyDoc])
      <3>1. job' = [job EXCEPT !.stage = "abort"]
        BY <2>2 DEF EnterStage
      <3> QED BY <1>4, <3>1 DEF JobData
    <2>3. CASE ~(job.global /\ stage # "syntax") /\ ~(stage = "syntax" /\ ~Buildable(layer[MyDoc]))
      <3> DEFINE a == [job EXCEPT !.inside = TRUE]
                 b == [a EXCEPT !.base = MyKept]
      <3>1. a \in JobData /\ a.stage = stage /\ a.txn = job.txn /\ ~a.dead
        BY <1>1, <1>4 DEF JobData
      <3> HIDE DEF a
      <3>2. b \in JobData /\ b.stage = stage /\ b.txn = job.txn /\ ~b.dead
        BY <1>3, <3>1 DEF JobData
      <3> HIDE DEF b
      <3>3. job' = [b EXCEPT !.node = MyKept]
        BY <2>3 DEF EnterStage, a, b
      <3> QED BY <1>3, <2>3, <3>2, <3>3 DEF JobData
    <2> QED BY <2>1, <2>2, <2>3
  <1>8. /\ job'.stage \notin {"none", "text"}
        /\ (job'.stage = "syntax" /\ job'.inside) \/ job'.stage \in {"ast", "commit"}
             => layer'[MyDoc].frozen
    BY <1>4, <1>5, <1>7 DEF After
  <1> QED BY <1>1, <1>2, <1>4, <1>6, <1>7, <1>8, JobStep DEF HostInv

(* What the steps within a stage have in common.                           *)
LEMMA WithinStep ==
    ASSUME HostInv, NEW stage \in {"tree", "syntax", "ast"}, Within(stage),
           NEW kept \in SUBSET Nat, NowKeep(kept),
           component' \in [Component -> States], works' \in 0..MaxWork,
           UNCHANGED <<initial, latest, layer, published, run, failed, withdrawn, token>>,
           job' \in JobData, job'.txn = job.txn, job'.dead = job.dead,
           \/ job'.stage = stage /\ job'.inside = job.inside
           \/ job'.stage = After[stage] /\ ~job'.inside
           \/ job'.stage = "abort"
    PROVE  HostInv'
  <1>1. ~Idle /\ ~Running /\ job.stage = stage /\ job.inside
    BY Alone DEF Within, Idle
  <1>2. /\ txn' \in [Txn -> Handle]
        /\ \A t \in Txn : txn'[t].status = txn[t].status /\ txn'[t].doc = txn[t].doc
    BY <1>1, NowKeepTypes
  <1>3. Types'
    BY <1>2 DEF HostInv, Types
  <1>4. /\ stage \in {"syntax", "ast"} => layer'[MyDoc].frozen
        /\ job'.dead => token' /\ token' \in BOOLEAN
        /\ token' \in BOOLEAN
    BY <1>1 DEF HostInv, JobSound, Within
  <1>5. /\ job'.stage \notin {"none", "text"} /\ ~(job'.stage = "commit" /\ job'.inside)
        /\ (job'.stage = "syntax" /\ job'.inside) \/ job'.stage \in {"ast", "commit"}
             => layer'[MyDoc].frozen
    BY <1>4 DEF After
  <1> QED BY <1>1, <1>2, <1>3, <1>4, <1>5, JobStep DEF HostInv

LEMMA NowKept == ASSUME HostInv, ~Idle, UNCHANGED txn PROVE NowKeep(MyKept)
  <1>1. Mine \in Txn /\ txn[Mine] \in Handle /\ txn \in [Txn -> Handle]
    BY MineIn DEF HostInv, Types
  <1> QED BY <1>1 DEF NowKeep, MyKept, Handle

LEMMA NodeStep ==
    ASSUME HostInv, NEW stage \in {"tree", "syntax", "ast"},
           \/ \E replaces \in BOOLEAN : CallAccepted(stage, replaces)
           \/ \E traps \in SUBSET Component : NodeFails(stage, traps)
           \/ NextNode(stage)
    PROVE  HostInv'
  <1>1. Within(stage) /\ ~Idle
    BY DEF CallAccepted, NodeFails, NextNode, Walking, Within, Idle
  <1>2. /\ MyKept \in SUBSET Nat /\ job \in JobData /\ works \in 0..MaxWork
        /\ component \in [Component -> States]
    BY <1>1, MineIn DEF HostInv, Types
  <1>3. ASSUME NEW replaces \in BOOLEAN, CallAccepted(stage, replaces) PROVE HostInv'
    <2> DEFINE kept == MyKept \cup {works + 1}
               did  == job.did \cup {works + 1}
               node == IF replaces THEN kept ELSE job.node
               a    == [job EXCEPT !.did = did]
    <2>1. /\ works' = works + 1 /\ works' \in 0..MaxWork /\ NowKeep(kept)
          /\ job' = [job EXCEPT !.did = did, !.node = node]
          /\ UNCHANGED <<component, initial, latest, layer, published, run, failed, withdrawn, token>>
      <3>1. works < MaxWork /\ works' = works + 1 /\ NowKeep(kept)
        BY <1>3 DEF CallAccepted
      <3>2. job' = [job EXCEPT !.did = did, !.node = node]
        BY <1>3 DEF CallAccepted
      <3>3. UNCHANGED <<component, initial, latest, layer, published, run, failed, withdrawn, token>>
        BY <1>3 DEF CallAccepted
      <3> QED BY <1>2, <3>1, <3>2, <3>3, HostAssumption
    <2>2. kept \in SUBSET Nat /\ did \in SUBSET Nat /\ node \in SUBSET Nat
      BY <1>2, HostAssumption DEF JobData
    <2> HIDE DEF kept, did, node
    <2>3. a \in JobData /\ a.stage = job.stage /\ a.inside = job.inside /\ a.txn = job.txn
          /\ a.dead = job.dead
      BY <1>2, <2>2 DEF JobData
    <2> HIDE DEF a
    <2>4. job' = [a EXCEPT !.node = node]
      BY <2>1 DEF a
    <2>5. job' \in JobData /\ job'.stage = job.stage /\ job'.inside = job.inside
          /\ job'.txn = job.txn /\ job'.dead = job.dead
      BY <2>2, <2>3, <2>4 DEF JobData
    <2> QED BY <1>1, <1>2, <2>1, <2>2, <2>5, WithinStep DEF Within
  <1>4. ASSUME NEW traps \in SUBSET Component, NodeFails(stage, traps) PROVE HostInv'
    <2>1. component' \in [Component -> States]
      BY <1>2, <1>4 DEF NodeFails, States
    <2>2. job.node \in SUBSET Nat
      BY <1>2 DEF JobData
    <2> QED BY <1>1, <1>2, <1>4, <2>1, <2>2, WithinStep DEF NodeFails, Within
  <1>5. ASSUME NextNode(stage) PROVE HostInv'
    <2>1. /\ job' \in JobData /\ job'.stage = job.stage /\ job'.inside = job.inside
          /\ job'.txn = job.txn /\ job'.dead = job.dead
      BY <1>2, <1>5 DEF NextNode, JobData
    <2>2. NowKeep(MyKept) /\ UNCHANGED <<vars, token>>
      BY <1>1, <1>5, NowKept DEF NextNode, vars
    <2> QED BY <1>1, <1>2, <2>1, <2>2, WithinStep DEF Within, vars
  <1> QED BY <1>3, <1>4, <1>5

LEMMA LeaveStep ==
    ASSUME HostInv, NEW stage \in {"tree", "syntax", "ast"},
           StageRejects(stage) \/ StageErrs(stage) \/ StageEnds(stage)
    PROVE  HostInv'
  <1>1. Within(stage) /\ ~Idle
    BY DEF StageRejects, StageErrs, StageEnds, Walking, Within, Idle
  <1>2. /\ MyKept \in SUBSET Nat /\ job \in JobData /\ job.base \in SUBSET Nat
        /\ works \in 0..MaxWork /\ component \in [Component -> States]
    BY <1>1, MineIn DEF HostInv, Types, JobData
  <1>3. /\ UNCHANGED <<component, initial, latest, layer, published, run, works, failed, withdrawn, token>>
        /\ NowKeep(job.base) \/ NowKeep(MyKept)
    BY <1>1, NowKept DEF StageRejects, StageErrs, StageEnds, vars
  <1>4. /\ job' \in JobData /\ job'.txn = job.txn /\ job'.dead = job.dead /\ ~job'.inside
        /\ job'.stage \in {After[stage], "abort"}
    <2>1. PICK st \in {After[stage], "abort"} : job' = [job EXCEPT !.stage = st, !.inside = FALSE]
      BY DEF StageRejects, StageErrs, StageEnds
    <2>2. st \in Stages \cup {"none", "abort"}
      BY DEF After, Stages
    <2> QED BY <1>2, <2>1, <2>2 DEF JobData
  <1> QED BY <1>1, <1>2, <1>3, <1>4, WithinStep

LEMMA CommitStep ==
    ASSUME HostInv, EnterCommit \/ \E commits \in BOOLEAN : CommitDocument(commits)
    PROVE  HostInv'
  <1>1. ~Idle /\ job.stage = "commit" /\ ~Running
    BY Alone DEF EnterCommit, CommitDocument, At, Within, Idle
  <1>2. /\ Mine \in Txn /\ MyKept \in SUBSET Nat /\ job \in JobData /\ layer[MyDoc].frozen
        /\ token \in BOOLEAN
    BY <1>1, MineIn DEF HostInv, JobSound
  <1>3. CASE EnterCommit
    <2>1. PICK kept \in {{}, MyKept} : NowKeep(kept)
      BY <1>3 DEF EnterCommit
    <2>2. /\ txn' \in [Txn -> Handle]
          /\ \A t \in Txn : txn'[t].status = txn[t].status /\ txn'[t].doc = txn[t].doc
      BY <1>1, <1>2, <2>1, NowKeepTypes
    <2>3. Types'
      BY <1>3, <2>2 DEF EnterCommit, HostInv, Types
    <2>4. job' \in JobData /\ job'.stage = "commit" /\ job'.txn = job.txn /\ job'.dead = job.dead
      BY <1>1, <1>2, <1>3 DEF EnterCommit, JobData
    <2>5. ~job.dead
      BY <1>3 DEF EnterCommit, LastCheck, HostInv, JobSound
    <2>6. UNCHANGED <<layer, run, token>>
      BY <1>3 DEF EnterCommit
    <2> QED BY <1>1, <1>2, <2>2, <2>3, <2>4, <2>5, <2>6, JobStep DEF HostInv
  <1>4. CASE CommitDocument(TRUE)
    <2>1. /\ txn' = [txn EXCEPT ![Mine].status = "committed"]
          /\ published' = published \cup MyKept
          /\ job' = NoJob /\ token' = FALSE
          /\ UNCHANGED <<component, initial, latest, layer, run, works, failed, withdrawn>>
      BY <1>4 DEF CommitDocument
    <2>2. txn' \in [Txn -> Handle]
      BY <1>2, <2>1 DEF HostInv, Types, Handle
    <2>3. Types'
      BY <1>2, <2>1, <2>2 DEF HostInv, Types
    <2>4. RunSound'
      BY <1>1, <2>1, QuietRun DEF HostInv
    <2>5. JobSound'
      BY <2>1, NoJobIn DEF JobSound, Idle, At, Within
    <2> QED BY <2>3, <2>4, <2>5 DEF HostInv
  <1>5. CASE CommitDocument(FALSE)
    <2>1. /\ job' = [job EXCEPT !.stage = "abort"]
          /\ UNCHANGED <<component, initial, latest, layer, txn, published, run, works, failed, withdrawn, token>>
      BY <1>5 DEF CommitDocument
    <2>2. job' \in JobData /\ job'.stage = "abort" /\ job'.txn = job.txn /\ job'.dead = job.dead
      BY <1>2, <2>1 DEF JobData
    <2>3. Types' /\ (job'.dead => token')
      BY <2>1, <2>2 DEF HostInv, JobSound, Types
    <2> QED BY <1>1, <1>2, <2>1, <2>2, <2>3, JobStep DEF HostInv
  <1> QED BY <1>3, <1>4, <1>5

LEMMA AbortedIn ==
    ASSUME HostInv, ~Idle
    PROVE  /\ Aborted \in Layer /\ Aborted.revision = layer[MyDoc].revision
           /\ Aborted.items = job.saved
  <1>1. layer[MyDoc] \in Layer /\ job.saved \in SUBSET Item
    BY MineIn DEF JobData
  <1> QED BY <1>1 DEF Aborted, Layer

LEMMA RollbackStep == ASSUME HostInv, RollbackDocument PROVE HostInv'
  <1>1. ~Idle /\ ~Running
    BY Alone DEF RollbackDocument, Within, Idle
  <1>2. Mine \in Txn /\ MyDoc \in Doc /\ job \in JobData
    BY <1>1, MineIn
  <1>3. /\ layer' = [layer EXCEPT ![MyDoc] = Aborted]
        /\ txn' = [txn EXCEPT ![Mine].status = "cancelled", ![Mine].kept = {}]
        /\ failed' = failed \cup job.did
        /\ job' = NoJob /\ token' = FALSE
        /\ UNCHANGED <<component, initial, latest, published, run, works>>
    BY DEF RollbackDocument
  <1>4. txn' \in [Txn -> Handle]
    <2>1. txn \in [Txn -> Handle] /\ txn[Mine] \in Handle
      BY <1>2 DEF HostInv, Types
    <2> QED BY <1>2, <1>3, <2>1 DEF Handle
  <1>5. failed' \in SUBSET Nat
    BY <1>2, <1>3 DEF HostInv, Types, JobData
  <1>6. Types'
    BY <1>1, <1>2, <1>3, <1>4, <1>5, AbortedIn DEF HostInv, Types
  <1>7. RunSound' /\ JobSound'
    BY <1>1, <1>3, QuietRun, NoJobIn DEF HostInv, JobSound, Idle, At, Within
  <1> QED BY <1>6, <1>7 DEF HostInv

LEMMA HostStep == ASSUME HostInv, [DocNext]_docVars PROVE HostInv'
  <1>1. CASE Documents
    BY <1>1, RequestStep, CancelledStep, EnterTextStep, TextReturnsStep, CommitStep, RollbackStep,
       StartStep, EnterStageStep, NodeStep, LeaveStep
    DEF Documents
  <1>2. CASE Others /\ UNCHANGED <<job, token>>
    BY <1>2, OthersStep
  <1>3. CASE UNCHANGED docVars
    BY <1>3
    DEF docVars, vars, HostInv, Types, RunSound, Running, Self, JobSound, Idle, At, Within, Mine, MyDoc
  <1> QED BY <1>1, <1>2, <1>3 DEF DocNext

LEMMA HostCorrect == DocSpec => []HostInv
  <1>1. DocInit => HostInv
    BY InitTypes, NoJobIn DEF DocInit, HostInv, JobSound, Idle, At, Within
  <1> QED BY <1>1, HostStep, PTL DEF DocSpec

-----------------------------------------------------------------------------
(* A document ends in two ways; until then its transaction and what it     *)
(* saved of the layer stay the same.                                       *)
Moved(j) == j.stage # "none" /\ j.saved = job.saved /\ j.txn = job.txn

LEMMA Ends ==
    ASSUME HostInv, DocNext, ~Idle
    PROVE  CommitDocument(TRUE) \/ RollbackDocument \/ Moved(job')
  <1>1. job \in JobData /\ Moved(job)
    BY DEF HostInv, JobSound, Idle, Moved
  <1>2. CASE Others /\ UNCHANGED <<job, token>>
    BY <1>1, <1>2
  <1>3. CASE RequestCancel \/ Cancelled \/ EnterText \/ EnterCommit \/ CommitDocument(FALSE)
    <2>1. \A v : /\ Moved([job EXCEPT !.dead = v]) /\ Moved([job EXCEPT !.stage = "abort"])
                /\ Moved([job EXCEPT !.inside = TRUE])
      BY <1>1 DEF JobData, Moved
    <2> QED BY <1>3, <2>1 DEF RequestCancel, Cancelled, EnterText, EnterCommit, CommitDocument
  <1>4. CASE TextReturns
    <2> DEFINE st == IF Outcome = "error" THEN "abort" ELSE "tree"
               fault == Outcome = "fault"
               did == job.did \cup run.did
               a == [job EXCEPT !.stage = st]
               b == [a EXCEPT !.inside = FALSE]
               c == [b EXCEPT !.global = fault]
    <2>1. job' = [c EXCEPT !.did = did]
      BY <1>1, <1>4 DEF TextReturns, JobData
    <2>2. st # "none"
      OBVIOUS
    <2> HIDE DEF st, fault, did
    <2>3. Moved(a) /\ DOMAIN a = DOMAIN job
      BY <1>1, <2>2 DEF Moved, JobData
    <2> HIDE DEF a
    <2>4. Moved(b) /\ DOMAIN b = DOMAIN job
      BY <1>1, <2>3 DEF Moved, JobData
    <2> HIDE DEF b
    <2>5. Moved(c) /\ DOMAIN c = DOMAIN job
      BY <1>1, <2>4 DEF Moved, JobData
    <2> HIDE DEF c
    <2> QED BY <1>1, <2>1, <2>5 DEF Moved, JobData
  <1>5. ASSUME NEW t \in Txn, NEW d \in Doc, NEW r \in 1..MaxRevision
        PROVE  ~StartDocument(t, d, r)
    BY DEF StartDocument
  <1>6. ASSUME NEW stage \in {"tree", "syntax", "ast"},
               \/ EnterStage(stage) \/ NextNode(stage) \/ StageRejects(stage)
               \/ StageErrs(stage) \/ StageEnds(stage)
        PROVE  Moved(job')
    <2>1. After[stage] # "none"
      BY DEF After
    <2>2. \A v : /\ Moved([job EXCEPT !.stage = After[stage]])
                /\ Moved([job EXCEPT !.stage = After[stage], !.inside = FALSE])
                /\ Moved([job EXCEPT !.stage = "abort"])
                /\ Moved([job EXCEPT !.stage = "abort", !.inside = FALSE])
                /\ Moved([job EXCEPT !.node = v])
                /\ Moved([job EXCEPT !.inside = TRUE, !.base = v, !.node = v])
      BY <1>1, <2>1 DEF JobData, Moved
    <2> HIDE DEF Moved
    <2>3. CASE EnterStage(stage) \/ NextNode(stage)
      BY <2>2, <2>3 DEF EnterStage, NextNode
    <2> QED BY <1>6, <2>2, <2>3 DEF StageRejects, StageErrs, StageEnds
  <1>7. ASSUME NEW stage \in {"tree", "syntax", "ast"}, NEW replaces \in BOOLEAN,
               CallAccepted(stage, replaces)
        PROVE  Moved(job')
    <2> DEFINE did == job.did \cup {works + 1}
               node == IF replaces THEN MyKept \cup {works + 1} ELSE job.node
    <2>1. job' = [job EXCEPT !.did = did, !.node = node]
      BY <1>7 DEF CallAccepted
    <2> HIDE DEF did, node
    <2> QED BY <1>1, <2>1 DEF JobData, Moved
  <1>8. ASSUME NEW stage \in {"tree", "syntax", "ast"}, NEW traps \in SUBSET Component,
               NodeFails(stage, traps)
        PROVE  Moved(job')
    BY <1>1, <1>8 DEF NodeFails, Moved
  <1> QED BY <1>2, <1>3, <1>4, <1>5, <1>6, <1>7, <1>8 DEF DocNext, Documents

(* No cancelled document commits (CancelledStays): between the request and *)
(* the end of the document there is a check (document.rs:344).             *)
THEOREM CancelledCorrect == DocSpec => CancelledStays
  <1>1. ASSUME HostInv, DocNext, job.dead, job'.stage = "none"
        PROVE  txn'[Mine].status # "committed"
    <2>1. ~Idle /\ ~Within("commit")
      BY <1>1 DEF HostInv, JobSound
    <2>2. RollbackDocument
      BY <1>1, <2>1, Ends DEF CommitDocument, Moved
    <2>3. Mine \in Txn /\ txn \in [Txn -> Handle] /\ txn[Mine] \in Handle
      BY <1>1, <2>1, MineIn DEF HostInv, Types
    <2> QED BY <2>2, <2>3 DEF RollbackDocument, Handle
  <1>2. HostInv /\ [DocNext]_docVars
        => [job.dead /\ job'.stage = "none" => txn'[Mine].status # "committed"]_docVars
    BY <1>1
  <1> QED BY <1>2, HostCorrect, PTL DEF DocSpec, CancelledStays

-----------------------------------------------------------------------------
(* Unloaded components.  What a savepoint of a layer holds matters as much *)
(* as the layer itself, because it can be restored.                        *)
Live == {i \in Item : component[i.by] # "unloaded"}
GhostInv ==
    /\ initial \subseteq Live
    /\ \A d \in Doc : ~layer[d].frozen => layer[d].items \subseteq Live
    /\ \A items \in run.saved : items \subseteq Live
    /\ ~Idle => job.saved \subseteq Live

LEMMA GhostMeans == GhostInv => NoGhosts
  BY DEF GhostInv, Live, NoGhosts

LEMMA LiveStill ==
    ASSUME \A c \in Component : component'[c] = "unloaded" <=> component[c] = "unloaded"
    PROVE  Live' = Live
  BY DEF Live, Item

LEMMA BegunLive ==
    ASSUME GhostInv, NEW d \in Doc, NEW r, ~Begun(d, r).frozen
    PROVE  Begun(d, r).items \subseteq Live
  BY DEF Begun, GhostInv

(* Steps that change neither the layers nor who is unloaded.               *)
LEMMA GhostSame ==
    ASSUME GhostInv, Live' = Live, UNCHANGED <<initial, layer>>,
           run'.saved \subseteq run.saved \/ \E items \in SUBSET Live : run'.saved = {items},
           job'.stage = "none" \/ (~Idle /\ job'.saved = job.saved)
    PROVE  GhostInv'
  BY DEF GhostInv, Idle

(* Steps that change one layer.                                            *)
LEMMA GhostLayer ==
    ASSUME HostInv, GhostInv, Live' = Live, UNCHANGED initial,
           NEW d \in Doc, NEW lay \in Layer, layer' = [layer EXCEPT ![d] = lay],
           ~lay.frozen => lay.items \subseteq Live,
           run'.saved = {} \/ run'.saved = run.saved \/ \E items \in SUBSET Live : run'.saved = {items},
           \/ job'.stage = "none"
           \/ ~Idle /\ job'.saved = job.saved
           \/ job'.saved \subseteq Live
    PROVE  GhostInv'
  BY DEF GhostInv, Idle, HostInv, Types

LEMMA RestoredLive ==
    ASSUME HostInv, GhostInv, Running, ~Restored.frozen
    PROVE  Restored.items \subseteq Live
  <1>1. Here \in Doc /\ layer[Here] \in Layer /\ Restored.frozen = layer[Here].frozen
    BY HereIn, RestoredIn DEF HostInv, Types
  <1>2. CASE Outcome # "ok" /\ Prepass
    <2>1. The(run.saved) \in run.saved
      BY <1>2, TheIn DEF Prepass
    <2>2. Restored = [layer[Here] EXCEPT !.items = The(run.saved)]
      BY <1>1, <1>2 DEF Restored
    <2> QED BY <1>1, <2>1, <2>2 DEF GhostInv, Layer
  <1>3. CASE ~(Outcome # "ok" /\ Prepass)
    BY <1>1, <1>3 DEF Restored, GhostInv
  <1> QED BY <1>2, <1>3

LEMMA GhostOther ==
    ASSUME HostInv, GhostInv, Idle, Next, UNCHANGED job
    PROVE  GhostInv'
  <1>0. job'.stage = "none"
    BY DEF Idle
  <1>1. ASSUME NEW c \in Component, NEW items, Load(c, items) PROVE GhostInv'
    <2>1. /\ initial' = initial \cup items /\ component' = [component EXCEPT ![c] = "ready"]
          /\ component[c] = "absent" /\ UNCHANGED <<layer, run>>
          /\ items \subseteq [by : {c}, work : {0}, sound : BOOLEAN]
      BY <1>1 DEF Load
    <2>2. Live' = Live
      BY <2>1, LiveStill DEF HostInv, Types
    <2>3. items \subseteq Live
      BY <2>1, HostAssumption DEF Live, Item
    <2> QED BY <1>0, <2>1, <2>2, <2>3 DEF GhostInv, Idle
  <1>2. ASSUME NEW c \in Component, Unload(c) PROVE GhostInv'
    <2>1. /\ component' = [component EXCEPT ![c] = "unloaded"]
          /\ initial' = {i \in initial : i.by # c} /\ UNCHANGED run /\ ~Running
      BY <1>2 DEF Unload
    <2>2. Live' = {i \in Live : i.by # c}
      BY <2>1 DEF HostInv, Types, Live, Item
    <2>3. ASSUME NEW d \in Doc, ~layer'[d].frozen PROVE layer'[d].items \subseteq Live'
      <3>1. layer[d] \in Layer
        BY DEF HostInv, Types
      <3>2. layer'[d] = IF layer[d].frozen THEN layer[d]
                        ELSE [layer[d] EXCEPT !.items = Without(layer[d].items, c)]
        BY <1>2 DEF Unload
      <3>3. ~layer[d].frozen /\ layer'[d].items = Without(layer[d].items, c)
        BY <2>3, <3>1, <3>2 DEF Layer
      <3> QED BY <2>2, <3>3 DEF GhostInv, Without
    <2>4. run'.saved = {}
      BY <2>1 DEF HostInv, RunSound, NoRun
    <2> QED BY <1>0, <2>1, <2>2, <2>3, <2>4 DEF GhostInv, Idle
  <1>3. ASSUME NEW t \in Txn, NEW d \in Doc, NEW r \in 1..MaxRevision, BeginParse(t, d, r)
        PROVE  GhostInv'
    <2>1. /\ layer' = [layer EXCEPT ![d] = Begun(d, r)]
          /\ UNCHANGED <<component, initial, run>>
      BY <1>3 DEF BeginParse
    <2>2. Begun(d, r) \in Layer
      BY <1>3, BegunIn DEF BeginParse, NewTxn, HostInv
    <2>3. Live' = Live
      BY <2>1, LiveStill
    <2> QED BY <1>0, <2>1, <2>2, <2>3, BegunLive, GhostLayer
  <1>4. ASSUME NEW t \in Txn, CommitParse(t) \/ CancelParse(t) PROVE GhostInv'
    <2>1. UNCHANGED <<component, initial, layer, run>>
      BY <1>4 DEF CommitParse, CancelParse
    <2> QED BY <1>0, <2>1, LiveStill, GhostSame
  <1>5. ASSUME NEW t \in Txn, NEW kind \in Kinds, DispatchInParse(t, kind) PROVE GhostInv'
    <2> DEFINE d == txn[t].doc
               ent == Entered(kind, layer[d])
    <2>1. /\ MayEnter(kind, layer[d])
          /\ run' = Enter(kind, t, FALSE, layer[d], txn[t].kept)
          /\ layer' = [layer EXCEPT ![d] = ent]
          /\ UNCHANGED <<component, initial>>
      BY <1>5 DEF DispatchInParse
    <2>2. d \in Doc /\ layer[d] \in Layer /\ txn[t].kept \in SUBSET Nat
      BY DEF HostInv, Types, Handle
    <2>3. ent \in Layer /\ ent.items = layer[d].items
          /\ (~ent.frozen => ~layer[d].frozen)
      BY <2>2 DEF Entered, Layer
    <2>4. run'.saved = IF kind = "later" THEN {} ELSE {layer[d].items}
      <3>1. EnterFacts(Enter(kind, t, FALSE, layer[d], txn[t].kept), kind, t, layer[d], txn[t].kept)
        BY <2>2, EnterIn
      <3> QED BY <2>1, <3>1 DEF EnterFacts
    <2>5. kind # "later" => ~layer[d].frozen
      BY <2>1 DEF MayEnter
    <2>6. ~layer[d].frozen => layer[d].items \subseteq Live
      BY <2>2 DEF GhostInv
    <2>7. Live' = Live
      BY <2>1, LiveStill
    <2>8. run'.saved = {} \/ \E items \in SUBSET Live : run'.saved = {items}
      BY <2>4, <2>5, <2>6
    <2> HIDE DEF d, ent
    <2> QED BY <1>0, <2>1, <2>2, <2>3, <2>6, <2>7, <2>8, GhostLayer
  <1>6. ASSUME NEW t \in Txn, NEW kind \in Kinds, NEW d \in Doc, NEW r \in 1..MaxRevision,
               Dispatch(t, kind, d, r)
        PROVE  GhostInv'
    <2> DEFINE lay == Begun(d, r)
               ent == Entered(kind, lay)
    <2>1. UNCHANGED <<component, initial>> /\ ~Running
      BY <1>6 DEF Dispatch, NewTxn
    <2>2. lay \in Layer
      BY <1>6, BegunIn DEF Dispatch, NewTxn, HostInv
    <2>3. ent \in Layer /\ ent.items = lay.items /\ (~ent.frozen => ~lay.frozen)
      BY <2>2 DEF Entered, Layer
    <2>4. ~lay.frozen => lay.items \subseteq Live
      BY BegunLive
    <2>5. Live' = Live
      BY <2>1, LiveStill
    <2>6. CASE MayEnter(kind, lay)
      <3>1. run' = Enter(kind, t, TRUE, lay, {}) /\ layer' = [layer EXCEPT ![d] = ent]
        BY <1>6, <2>6 DEF Dispatch
      <3>2. EnterFacts(Enter(kind, t, TRUE, lay, {}), kind, t, lay, {})
        BY <2>2, EnterIn
      <3>3. kind # "later" => ~lay.frozen
        BY <2>6 DEF MayEnter
      <3>4. run'.saved = {} \/ \E items \in SUBSET Live : run'.saved = {items}
        BY <2>4, <3>1, <3>2, <3>3 DEF EnterFacts
      <3> HIDE DEF lay, ent
      <3> QED BY <1>0, <2>1, <2>3, <2>4, <2>5, <3>1, <3>4, GhostLayer
    <2>7. CASE ~MayEnter(kind, lay)
      <3>1. run' = run /\ layer' = [layer EXCEPT ![d] = lay]
        BY <1>6, <2>7 DEF Dispatch
      <3> HIDE DEF lay, ent
      <3> QED BY <1>0, <2>1, <2>2, <2>4, <2>5, <3>1, GhostLayer
    <2> QED BY <2>6, <2>7
  <1>7. ASSUME Calls PROVE GhostInv'
    <2>1. Types' /\ CallEffect
      BY <1>7, CallTypes DEF HostInv
    <2>2. Live' = Live /\ UNCHANGED initial /\ run'.saved = run.saved
      BY <2>1, LiveStill DEF CallEffect
    <2>3. \A d \in Doc : layer'[d].items \subseteq Item
      BY <2>1 DEF Types, Layer
    <2>4. \A d \in Doc : ~layer'[d].frozen => layer'[d].items \subseteq Live
      BY <2>1, <2>3 DEF CallEffect, GhostInv, Live
    <2> QED BY <1>0, <2>2, <2>4 DEF GhostInv, Idle
  <1>8. ASSUME ReturnInParse \/ \E commits \in BOOLEAN : Return(commits) PROVE GhostInv'
    <2>1. Running /\ run' = NoRun /\ UNCHANGED <<component, initial>>
      BY <1>8 DEF ReturnInParse, Return, Over
    <2>2. Here \in Doc /\ Restored \in Layer
      BY <2>1, HereIn, RestoredIn DEF HostInv
    <2>3. ~Restored.frozen => Restored.items \subseteq Live
      BY <2>1, <2>2, RestoredLive
    <2>4. Live' = Live
      BY <2>1, LiveStill
    <2>5. run'.saved = {}
      BY <2>1 DEF NoRun
    <2>6. CASE ReturnInParse
      BY <1>0, <2>1, <2>2, <2>3, <2>4, <2>5, <2>6, GhostLayer DEF ReturnInParse
    <2>7. ASSUME NEW commits \in BOOLEAN, Return(commits) PROVE GhostInv'
      <3> DEFINE ends == Goes /\ Buildable(Restored)
                 lay  == [Restored EXCEPT !.frozen = @ \/ ends]
      <3>1. lay \in Layer /\ lay.items = Restored.items /\ (~lay.frozen => ~Restored.frozen)
        BY <2>2 DEF Layer
      <3>2. layer' = [layer EXCEPT ![Here] = lay]
        BY <2>7 DEF Return
      <3> HIDE DEF lay
      <3> QED BY <1>0, <2>1, <2>2, <2>3, <2>4, <2>5, <3>1, <3>2, GhostLayer
    <2> QED BY <1>8, <2>6, <2>7
  <1> QED
    BY <1>1, <1>2, <1>3, <1>4, <1>5, <1>6, <1>7, <1>8 DEF Next, Components, Owners

LEMMA GhostStep ==
    ASSUME HostInv, GhostInv, [DocNext]_docVars
    PROVE  GhostInv'
  <1>1. CASE Idle /\ Next /\ UNCHANGED <<job, token>>
    BY <1>1, GhostOther
  <1>2. CASE ~Idle /\ Calls /\ UNCHANGED <<job, token>>
    <2>1. Types' /\ CallEffect
      BY <1>2, CallTypes DEF HostInv
    <2>2. Live' = Live /\ UNCHANGED initial /\ run'.saved = run.saved
      BY <2>1, LiveStill DEF CallEffect
    <2>3. \A d \in Doc : layer'[d].items \subseteq Item
      BY <2>1 DEF Types, Layer
    <2>4. \A d \in Doc : ~layer'[d].frozen => layer'[d].items \subseteq Live
      BY <2>1, <2>3 DEF CallEffect, GhostInv, Live
    <2> QED BY <1>2, <2>2, <2>4 DEF GhostInv, Idle
  <1>3. ASSUME NEW t \in Txn, ~Idle, UNCHANGED <<job, token>>, CommitParse(t) \/ CancelParse(t)
        PROVE  GhostInv'
    BY <1>3, LiveStill, GhostSame DEF CommitParse, CancelParse
  <1>4. ASSUME NEW t \in Txn, NEW d \in Doc, NEW r \in 1..MaxRevision, StartDocument(t, d, r)
        PROVE  GhostInv'
    <2> DEFINE lay == Begun(d, r)
    <2>1. layer' = [layer EXCEPT ![d] = lay] /\ UNCHANGED <<component, initial, run>> /\ Idle
      BY <1>4 DEF StartDocument
    <2>2. lay \in Layer
      BY <1>4, BegunIn DEF StartDocument, NewTxn, HostInv
    <2>3. ~lay.frozen => lay.items \subseteq Live
      BY BegunLive
    <2>4. job'.stage = "none" \/ job'.saved \subseteq Live
      <3>1. CASE lay.frozen
        BY <1>4, <2>1, <3>1 DEF StartDocument, Idle
      <3>2. CASE ~lay.frozen
        <4>1. job' = [NoJob EXCEPT !.stage = "text", !.txn = {t}, !.saved = lay.items]
          BY <1>4, <3>2 DEF StartDocument
        <4> HIDE DEF lay
        <4>2. job'.saved = lay.items
          BY <4>1, NoJobIn DEF JobData
        <4> QED BY <2>3, <3>2, <4>2
      <3> QED BY <3>1, <3>2
    <2> HIDE DEF lay
    <2> QED BY <2>1, <2>2, <2>3, <2>4, LiveStill, GhostLayer
  <1>5. CASE EnterText
    <2>1. ~Idle /\ Moved(job')
      BY <1>5, Ends DEF EnterText, At, Idle, CommitDocument, RollbackDocument, Within, DocNext, Documents
    <2>2. Mine \in Txn /\ MyDoc \in Doc /\ MyKept \in SUBSET Nat /\ layer[MyDoc] \in Layer
      BY <2>1, MineIn
    <2>3. EnterFacts(Enter("text", Mine, FALSE, layer[MyDoc], MyKept), "text", Mine, layer[MyDoc], MyKept)
      BY <2>2, EnterIn DEF Kinds
    <2>4. run'.saved = {layer[MyDoc].items}
      BY <1>5, <2>3 DEF EnterText, EnterFacts
    <2>5. layer[MyDoc].items \subseteq Live
      BY <1>5, <2>2 DEF EnterText, GhostInv, HostInv, JobSound
    <2>6. UNCHANGED <<component, initial, layer>>
      BY <1>5 DEF EnterText
    <2> QED BY <2>1, <2>4, <2>5, <2>6, LiveStill, GhostSame DEF Moved
  <1>6. CASE TextReturns
    <2>1. ~Idle /\ Running /\ ReturnInParse
      BY <1>6 DEF TextReturns, HostInv, JobSound, Within, Idle
    <2>2. Moved(job')
      BY <1>6, <2>1, Ends DEF TextReturns, CommitDocument, RollbackDocument, Within, DocNext, Documents
    <2>3. Here \in Doc /\ Restored \in Layer
      BY <2>1, HereIn, RestoredIn DEF HostInv
    <2>4. run'.saved = {} /\ layer' = [layer EXCEPT ![Here] = Restored] /\ UNCHANGED <<component, initial>>
      BY <2>1 DEF ReturnInParse, NoRun
    <2> QED BY <2>1, <2>2, <2>3, <2>4, LiveStill, RestoredLive, GhostLayer DEF Moved
  <1>7. CASE RollbackDocument
    <2>1. ~Idle /\ layer' = [layer EXCEPT ![MyDoc] = Aborted] /\ UNCHANGED <<component, initial, run>>
          /\ job' = NoJob
      BY <1>7 DEF RollbackDocument, Idle
    <2>2. MyDoc \in Doc /\ Aborted \in Layer /\ Aborted.items \subseteq Live
      BY <2>1, MineIn, AbortedIn DEF GhostInv
    <2> QED BY <2>1, <2>2, LiveStill, NoJobIn, GhostLayer
  <1>8. ASSUME NEW stage \in {"tree", "syntax", "ast"}, EnterStage(stage) PROVE GhostInv'
    <2>1. ~Idle /\ UNCHANGED <<component, initial, run>> /\ job.stage = stage
      BY <1>8 DEF EnterStage, At, Idle
    <2>2. Moved(job')
      BY <1>8, <2>1, Ends DEF CommitDocument, RollbackDocument, Within, DocNext, Documents
    <2>3. MyDoc \in Doc /\ layer[MyDoc] \in Layer
      BY <2>1, MineIn
    <2>4. CASE UNCHANGED layer
      BY <2>1, <2>2, <2>4, LiveStill, GhostSame DEF Moved
    <2>5. CASE layer' = [layer EXCEPT ![MyDoc] = SyntaxLayer]
      <3>1. SyntaxLayer \in Layer /\ SyntaxLayer.frozen
        BY <2>3 DEF SyntaxLayer, Layer
      <3> QED BY <2>1, <2>2, <2>3, <2>5, <3>1, LiveStill, GhostLayer DEF Moved
    <2> QED BY <1>8, <2>4, <2>5 DEF EnterStage
  <1>9. ASSUME NEW stage \in {"tree", "syntax", "ast"}, NEW traps \in SUBSET Component,
               NodeFails(stage, traps)
        PROVE  GhostInv'
    <2>1. \A c \in Component : component'[c] = "unloaded" <=> component[c] = "unloaded"
      BY <1>9 DEF NodeFails
    <2> QED BY <1>9, <2>1, LiveStill, GhostSame DEF NodeFails, Walking, Within, Idle
  <1>10. ASSUME ~Idle, UNCHANGED <<component, initial, layer, run>>, DocNext PROVE GhostInv'
    <2>1. CASE Moved(job')
      BY <1>10, <2>1, LiveStill, GhostSame DEF Moved
    <2>2. CASE CommitDocument(TRUE)
      BY <1>10, <2>2, LiveStill, GhostSame, NoJobIn DEF CommitDocument
    <2> QED BY <1>7, <1>10, <2>1, <2>2, Ends
  <1>11. ASSUME RequestCancel \/ Cancelled \/ EnterCommit \/ \E commits \in BOOLEAN : CommitDocument(commits)
         PROVE  ~Idle /\ UNCHANGED <<component, initial, layer, run>> /\ DocNext
    BY <1>11
    DEF RequestCancel, Cancelled, EnterCommit, CommitDocument, vars, At, Within, Idle, Stages,
        DocNext, Documents
  <1>12. ASSUME NEW stage \in {"tree", "syntax", "ast"},
                \/ NextNode(stage) \/ StageRejects(stage) \/ StageErrs(stage) \/ StageEnds(stage)
                \/ \E replaces \in BOOLEAN : CallAccepted(stage, replaces)
         PROVE  ~Idle /\ UNCHANGED <<component, initial, layer, run>> /\ DocNext
    BY <1>12
    DEF NextNode, StageRejects, StageErrs, StageEnds, CallAccepted, vars, Walking, Within, Idle,
        DocNext, Documents
  <1>13. CASE UNCHANGED docVars
    BY <1>13 DEF docVars, vars, GhostInv, Live, Idle
  <1> QED
    BY <1>1, <1>2, <1>3, <1>4, <1>5, <1>6, <1>7, <1>8, <1>9, <1>10, <1>11, <1>12, <1>13
    DEF DocNext, Documents, Others

(* Nothing of an unloaded component is in a layer that can still be frozen *)
(* (NoGhosts), nor in a savepoint from which one could be restored: the    *)
(* host does not unload while an operation or a document holds one         *)
(* (unload_addon, host.rs:9658).                                           *)
THEOREM NoGhostsCorrect == DocSpec => []NoGhosts
  <1>1. DocInit => GhostInv
    BY NoJobIn DEF DocInit, Init, GhostInv, Idle, NoRun
  <1>2. HostInv /\ GhostInv /\ [DocNext]_docVars => GhostInv'
    BY GhostStep
  <1> QED BY <1>1, <1>2, GhostMeans, HostCorrect, PTL DEF DocSpec

-----------------------------------------------------------------------------
Free(B, items) == \A i \in items : i.work \notin B

(* The works B are in no transaction but those in T, nor published, and    *)
(* the works G in no open layer but those of the documents D.              *)
Absent(B, G, T, D, pub, tx, lay) ==
    /\ B \cap pub = {}
    /\ \A t \in Txn \ T : B \cap tx[t].kept = {}
    /\ \A d \in Doc \ D : ~lay[d].frozen => Free(G, lay[d].items)

(* Works are numbered as they are accepted.                                *)
Low(items, n) == \A i \in items : i.work =< n
Counted ==
    /\ published \subseteq 1..works /\ failed \subseteq 1..works
    /\ \A t \in Txn : txn[t].kept \subseteq 1..works
    /\ run.did \subseteq 1..works
    /\ \A s \in run.base \cup run.cont : s \subseteq 1..works
    /\ job.did \subseteq 1..works /\ job.base \subseteq 1..works /\ job.node \subseteq 1..works
    /\ \A d \in Doc : Low(layer[d].items, works)
    /\ \A items \in run.saved : Low(items, works)
    /\ Low(job.saved, works)

(* The works of operations that failed are in no transaction, and those    *)
(* that are withdrawn in no open layer either; those of the operation      *)
(* in progress only in its transaction and its layer; those of a document  *)
(* in progress likewise.  No savepoint holds what began after it.          *)
FailedGone ==
    /\ Absent(failed, withdrawn, {}, {}, published, txn, layer)
    /\ \A s \in run.base \cup run.cont : s \cap failed = {}
    /\ \A items \in run.saved : Free(withdrawn, items)
    /\ run.did \cap failed = {}
    /\ withdrawn \subseteq failed
    /\ ~Idle => Free(withdrawn, job.saved) /\ failed \cap (job.base \cup job.node) = {}

Reach == IF Prepass THEN {Here} ELSE {}
RunApart ==
    Running => /\ Absent(run.did, run.did, {Self}, Reach, published, txn, layer)
               /\ \A s \in run.base : s \cap run.did = {}
               /\ \A items \in run.saved : Free(run.did, items)
               /\ ~Idle => Free(run.did, job.saved) /\ run.did \cap (job.base \cup job.node) = {}

JobApart ==
    ~Idle => /\ Absent(job.did, job.did, {Mine}, {MyDoc}, published, txn, layer)
             /\ Free(job.did, job.saved)

WorkInv == Counted /\ FailedGone /\ RunApart /\ JobApart

-----------------------------------------------------------------------------
LEMMA InitWork == DocInit => WorkInv
  <1> SUFFICES ASSUME DocInit PROVE WorkInv
    OBVIOUS
  <1>1. run.did = {} /\ run.base = {} /\ run.cont = {} /\ run.saved = {} /\ ~Running
    BY DEF DocInit, Init, NoRun, Running
  <1>2. job.did = {} /\ job.base = {} /\ job.node = {} /\ job.saved = {} /\ Idle
    BY DEF DocInit, NoJob, Idle
  <1>3. /\ published = {} /\ failed = {} /\ withdrawn = {} /\ \A t \in Txn : txn[t].kept = {}
        /\ \A d \in Doc : layer[d].items = {}
    BY DEF DocInit, Init, Closed
  <1> QED
    BY <1>1, <1>2, <1>3
    DEF WorkInv, Counted, FailedGone, RunApart, JobApart, Absent, Free, Low

(* A step of the loop: what is accepted is new.                            *)
LEMMA NewIn ==
    ASSUME Types, works' \in {works, works + 1}
    PROVE  /\ works \in Nat /\ works' \in Nat /\ 1..works \subseteq 1..works'
           /\ New \subseteq 1..works' /\ New \cap (1..works) = {}
           /\ \A i : i =< works /\ i \in Nat => i \notin New
  BY HostAssumption DEF Types, New

LEMMA LowNext ==
    ASSUME NEW items \in SUBSET Item, NEW m \in Nat, NEW n \in Nat, m =< n, Low(items, m)
    PROVE  Low(items, n)
  BY HostAssumption DEF Low, Item

LEMMA CallCounted ==
    ASSUME HostInv, WorkInv, Calls, UNCHANGED job
    PROVE  Counted'
  <1>1. Types' /\ CallEffect /\ Running
    BY CallTypes DEF HostInv, CallEffect, Running
  <1>2. /\ works \in Nat /\ works' \in Nat /\ works =< works' /\ 1..works \subseteq 1..works'
        /\ New \subseteq 1..works'
    BY <1>1, NewIn, HostAssumption DEF HostInv, CallEffect, Types
  <1>3. Self \in Txn /\ Kept \subseteq 1..works
    BY <1>1, HereIn DEF HostInv, WorkInv, Counted, Kept
  <1>4. ASSUME NEW t \in Txn PROVE txn'[t].kept \subseteq 1..works'
    <2>1. CASE t = Self
      <3>1. (UNION run.base) \cup (UNION run.cont) \subseteq 1..works
        BY DEF WorkInv, Counted
      <3>2. txn'[Self].kept \subseteq Kept \cup (UNION run.base) \cup (UNION run.cont) \cup New
        BY <1>1 DEF CallEffect
      <3> QED BY <1>2, <1>3, <2>1, <3>1, <3>2
    <2>2. CASE t # Self
      <3>1. txn'[t].kept = txn[t].kept
        BY <1>1, <2>2 DEF CallEffect
      <3> QED BY <1>2, <3>1 DEF WorkInv, Counted
    <2> QED BY <2>1, <2>2
  <1>5. ASSUME NEW d \in Doc PROVE Low(layer'[d].items, works')
    <2>1. \A i \in layer'[d].items : i.work \in Nat
      BY <1>1, HostAssumption DEF Types, Layer, Item
    <2>2. \A i \in layer'[d].items : i \in layer[d].items \/ i.work \in New
      BY <1>1 DEF CallEffect
    <2>3. \A i \in layer[d].items : i.work =< works
      BY DEF WorkInv, Counted, Low
    <2> QED BY <1>2, <2>1, <2>2, <2>3 DEF Low, New
  <1>6. \A items \in run'.saved : Low(items, works')
    <2>1. run'.saved = run.saved /\ run.saved \subseteq SUBSET Item
      BY <1>1 DEF CallEffect, HostInv, Types, RunData
    <2>2. \A items \in run.saved : Low(items, works)
      BY DEF WorkInv, Counted
    <2> QED BY <1>2, <2>1, <2>2, LowNext
  <1>7. Low(job'.saved, works')
    <2>1. job'.saved \in SUBSET Item /\ Low(job'.saved, works)
      BY DEF HostInv, JobSound, JobData, WorkInv, Counted
    <2> QED BY <1>2, <2>1, LowNext
  <1>8. /\ published' \subseteq 1..works' /\ failed' \subseteq 1..works'
        /\ run'.did \subseteq 1..works'
        /\ job'.did \subseteq 1..works' /\ job'.base \subseteq 1..works' /\ job'.node \subseteq 1..works'
    BY <1>1, <1>2 DEF CallEffect, WorkInv, Counted
  <1>9. \A s \in run'.base \cup run'.cont : s \subseteq 1..works'
    <2>1. run'.base \cup run'.cont \subseteq run.base \cup run.cont \cup {Kept}
      BY <1>1 DEF CallEffect
    <2> QED BY <1>2, <1>3, <2>1 DEF WorkInv, Counted
  <1> QED BY <1>4, <1>5, <1>6, <1>7, <1>8, <1>9 DEF Counted

LEMMA CallWork ==
    ASSUME HostInv, WorkInv, Calls, UNCHANGED job
    PROVE  WorkInv'
  <1>1. Types' /\ CallEffect /\ Running /\ Running'
    BY CallTypes DEF HostInv, CallEffect, Running
  <1>2. New \cap (1..works) = {} /\ \A i : i =< works /\ i \in Nat => i \notin New
    BY <1>1, NewIn DEF HostInv, CallEffect
  <1>3. Self \in Txn /\ Here \in Doc /\ Kept = txn[Self].kept
    BY <1>1, HereIn DEF HostInv, Kept
  <1>4. Self' = Self /\ Here' = Here /\ Reach' = Reach
    <2>1. run'.txn = run.txn /\ run'.saved = run.saved /\ txn'[Self].doc = txn[Self].doc
      BY <1>1, <1>3 DEF CallEffect
    <2>2. Self' = Self
      BY <2>1 DEF Self
    <2>3. Here' = Here
      BY <2>1, <2>2 DEF Here
    <2> QED BY <2>1, <2>2, <2>3 DEF Reach, Prepass
  <1>5. ASSUME NEW d \in Doc, ~layer'[d].frozen, NEW i \in layer'[d].items
        PROVE  /\ ~layer[d].frozen /\ (i \in layer[d].items \/ i.work \in New)
               /\ d \notin Reach => i \in layer[d].items
    BY <1>1, <1>5 DEF CallEffect, Reach
  <1>6. \A d \in Doc : \A i \in layer[d].items : i.work \notin New
    <2>1. \A d \in Doc : \A i \in layer[d].items : i.work \in Nat /\ i.work =< works
      BY HostAssumption DEF HostInv, Types, Layer, Item, WorkInv, Counted, Low
    <2> QED BY <1>2, <2>1
  <1>7. \A B, G : B \cap New = {} /\ G \subseteq B
                 /\ Absent(B, G, {}, {}, published, txn, layer)
                 /\ (\A s \in run.base \cup run.cont : s \cap B = {})
                 => Absent(B, G, {}, {}, published', txn', layer')
    <2> SUFFICES ASSUME NEW B, NEW G, B \cap New = {}, G \subseteq B,
                        Absent(B, G, {}, {}, published, txn, layer),
                        \A s \in run.base \cup run.cont : s \cap B = {}
                 PROVE  Absent(B, G, {}, {}, published', txn', layer')
      OBVIOUS
    <2>1. ASSUME NEW t \in Txn PROVE B \cap txn'[t].kept = {}
      <3>1. CASE t = Self
        <4>1. txn'[Self].kept \subseteq Kept \cup (UNION run.base) \cup (UNION run.cont) \cup New
          BY <1>1 DEF CallEffect
        <4>2. B \cap Kept = {}
          BY <1>3 DEF Absent
        <4> QED BY <3>1, <4>1, <4>2
      <3>2. CASE t # Self
        BY <1>1, <3>2 DEF CallEffect, Absent
      <3> QED BY <3>1, <3>2
    <2>2. ASSUME NEW d \in Doc, ~layer'[d].frozen PROVE Free(G, layer'[d].items)
      BY <1>5, <2>2 DEF Absent, Free
    <2> QED BY <1>1, <2>1, <2>2 DEF Absent, CallEffect
  <1>8. FailedGone'
    <2>1. failed' = failed /\ withdrawn' = withdrawn /\ failed \cap New = {}
          /\ withdrawn \subseteq failed
      <3>1. failed \subseteq 1..works /\ withdrawn \subseteq failed
        BY DEF WorkInv, Counted, FailedGone
      <3>2. failed' = failed /\ withdrawn' = withdrawn
        BY <1>1 DEF CallEffect
      <3> QED BY <1>2, <3>1, <3>2
    <2>2. Absent(failed', withdrawn', {}, {}, published', txn', layer')
      BY <1>7, <2>1 DEF WorkInv, FailedGone
    <2>3. \A s \in run'.base \cup run'.cont : s \cap failed' = {}
      <3>1. Kept \cap failed = {}
        BY <1>3 DEF WorkInv, FailedGone, Absent
      <3> QED BY <1>1, <2>1, <3>1 DEF CallEffect, WorkInv, FailedGone
    <2>4. run'.did \cap failed' = {}
      BY <1>1, <2>1 DEF CallEffect, WorkInv, FailedGone
    <2>5. run'.saved = run.saved /\ job' = job
      BY <1>1 DEF CallEffect
    <2>6. \A items \in run.saved : Free(withdrawn, items)
      BY DEF WorkInv, FailedGone
    <2>7. ~Idle => Free(withdrawn, job.saved) /\ failed \cap (job.base \cup job.node) = {}
      BY DEF WorkInv, FailedGone
    <2> QED BY <2>1, <2>2, <2>3, <2>4, <2>5, <2>6, <2>7 DEF FailedGone, Idle
  <1>9. RunApart'
    <2>1. run'.did \subseteq run.did \cup New /\ published' = published /\ run'.base = run.base
          /\ run'.saved = run.saved
      BY <1>1 DEF CallEffect
    <2>2. Absent(run.did, run.did, {Self}, Reach, published, txn, layer)
      BY <1>1 DEF WorkInv, RunApart
    <2>3. ASSUME NEW t \in Txn \ {Self} PROVE run'.did \cap txn'[t].kept = {}
      <3>1. txn'[t].kept = txn[t].kept /\ txn[t].kept \subseteq 1..works
        BY <1>1 DEF CallEffect, WorkInv, Counted
      <3> QED BY <1>2, <2>1, <2>2, <3>1 DEF Absent
    <2>4. ASSUME NEW d \in Doc \ Reach, ~layer'[d].frozen PROVE Free(run'.did, layer'[d].items)
      BY <1>5, <1>6, <2>1, <2>2, <2>4 DEF Absent, Free
    <2>5. run'.did \cap published' = {}
      BY <1>2, <2>1, <2>2 DEF Absent, WorkInv, Counted
    <2>6. \A s \in run'.base : s \cap run'.did = {}
      BY <1>1, <1>2, <2>1 DEF WorkInv, Counted, RunApart
    <2>7. \A items \in run'.saved : Free(run'.did, items)
      <3>1. \A items \in run.saved : \A i \in items : i.work \in Nat /\ i.work =< works
        BY HostAssumption DEF HostInv, Types, RunData, Item, WorkInv, Counted, Low
      <3> QED BY <1>1, <1>2, <2>1, <3>1 DEF WorkInv, RunApart, Free
    <2>8. ~Idle => Free(run'.did, job.saved) /\ run'.did \cap (job.base \cup job.node) = {}
      <3>1. \A i \in job.saved : i.work \in Nat /\ i.work =< works
        BY HostAssumption DEF HostInv, JobSound, JobData, Item, WorkInv, Counted, Low
      <3>2. ~Idle => Free(run'.did, job.saved)
        BY <1>1, <1>2, <2>1, <3>1 DEF WorkInv, RunApart, Free
      <3>3. ~Idle => run'.did \cap (job.base \cup job.node) = {}
        BY <1>1, <1>2, <2>1 DEF WorkInv, RunApart, Counted
      <3> QED BY <3>2, <3>3
    <2>9. Absent(run'.did, run'.did, {Self}, Reach, published', txn', layer')
      BY <2>3, <2>4, <2>5 DEF Absent
    <2> QED BY <1>4, <2>6, <2>7, <2>8, <2>9 DEF RunApart, Idle
  <1>10. JobApart'
    <2> SUFFICES ASSUME ~Idle PROVE /\ Absent(job.did, job.did, {Mine}, {MyDoc}, published', txn', layer')
                                   /\ Free(job.did, job.saved) /\ Mine' = Mine /\ MyDoc' = MyDoc
      BY DEF JobApart, Idle
    <2>1. Mine = Self /\ MyDoc = Here /\ Mine' = Mine
      BY <1>1 DEF HostInv, JobSound, Mine, Self, MyDoc, Here
    <2>2. Absent(job.did, job.did, {Mine}, {MyDoc}, published, txn, layer) /\ Free(job.did, job.saved)
      BY DEF WorkInv, JobApart
    <2>3. \A t \in Txn \ {Mine} : txn'[t].kept = txn[t].kept
      BY <1>1, <2>1 DEF CallEffect
    <2>4. ASSUME NEW d \in Doc \ {MyDoc}, ~layer'[d].frozen PROVE Free(job.did, layer'[d].items)
      BY <1>5, <2>1, <2>2, <2>4 DEF Absent, Free, Reach
    <2>5. Absent(job.did, job.did, {Mine}, {MyDoc}, published', txn', layer')
      BY <1>1, <2>2, <2>3, <2>4 DEF Absent, CallEffect
    <2> QED BY <1>3, <1>4, <2>1, <2>2, <2>5 DEF MyDoc, Here
  <1> QED BY <1>8, <1>9, <1>10, CallCounted DEF WorkInv

-----------------------------------------------------------------------------
(* A step that changes one transaction and one layer, and accepts nothing: *)
(* what it leaves must be counted and free of what failed.                 *)
Good(s, n, bad)       == s \subseteq 1..n /\ s \cap bad = {}
GoodItems(its, n, bad) == Low(its, n) /\ Free(bad, its)
GoodRun(r, n, bad, gone) ==
    /\ \A s \in r.base \cup r.cont : Good(s, n, bad)
    /\ \A its \in r.saved : GoodItems(its, n, gone)
    /\ Good(r.did, n, bad)
GoodJob(j, n, bad, gone) ==
    /\ j.did \subseteq 1..n /\ Good(j.base, n, bad) /\ Good(j.node, n, bad)
    /\ GoodItems(j.saved, n, gone)
(* All but one transaction and one layer.                                  *)
GoodRest(t, d, n, bad, gone) ==
    /\ \A u \in Txn \ {t} : Good(txn[u].kept, n, bad)
    /\ \A e \in Doc \ {d} : /\ Low(layer[e].items, n)
                            /\ ~layer[e].frozen => Free(gone, layer[e].items)

LEMMA GoodNow ==
    ASSUME HostInv, WorkInv
    PROVE  /\ GoodRun(run, works, failed, withdrawn) /\ (~Idle => GoodJob(job, works, failed, withdrawn))
           /\ \A t, d : GoodRest(t, d, works, failed, withdrawn)
           /\ \A t \in Txn : Good(txn[t].kept, works, failed)
           /\ \A d \in Doc : Low(layer[d].items, works)
                             /\ (~layer[d].frozen => Free(withdrawn, layer[d].items))
           /\ Good(published, works, failed) /\ failed \subseteq 1..works
           /\ withdrawn \subseteq failed
           /\ \A its \in SUBSET initial : GoodItems(its, works, withdrawn)
  <1>1. /\ Counted /\ FailedGone /\ Absent(failed, withdrawn, {}, {}, published, txn, layer)
        /\ withdrawn \subseteq failed
    BY DEF WorkInv, FailedGone
  <1>2. GoodRun(run, works, failed, withdrawn)
    BY <1>1 DEF Counted, FailedGone, GoodRun, Good, GoodItems
  <1>3. ~Idle => GoodJob(job, works, failed, withdrawn)
    BY <1>1 DEF Counted, FailedGone, GoodJob, Good, GoodItems
  <1>4. /\ \A t \in Txn : Good(txn[t].kept, works, failed)
        /\ \A d \in Doc : Low(layer[d].items, works)
                          /\ (~layer[d].frozen => Free(withdrawn, layer[d].items))
        /\ Good(published, works, failed) /\ failed \subseteq 1..works
    BY <1>1 DEF Counted, Absent, Good
  <1>5. ASSUME NEW its \in SUBSET initial PROVE GoodItems(its, works, withdrawn)
    <2>1. works \in Nat /\ \A i \in its : i.work = 0
      BY HostAssumption DEF HostInv, Types
    <2> QED BY <1>1, <1>4, <2>1 DEF GoodItems, Low, Free
  <1> QED BY <1>1, <1>2, <1>3, <1>4, <1>5 DEF GoodRest

LEMMA WorkStep ==
    ASSUME NEW t \in Txn, NEW d \in Doc, UNCHANGED works,
           \A u \in Txn \ {t} : txn'[u].kept = txn[u].kept,
           \A e \in Doc \ {d} : layer'[e] = layer[e],
           GoodRest(t, d, works, failed', withdrawn'),
           Good(txn'[t].kept, works, failed'),
           Low(layer'[d].items, works), layer'[d].frozen \/ Free(withdrawn', layer'[d].items),
           Good(published', works, failed'), failed' \subseteq 1..works,
           withdrawn' \subseteq failed',
           GoodRun(run', works, failed', withdrawn'), RunApart', JobApart',
           GoodJob(job', works, failed', withdrawn') \/ (Counted /\ Idle' /\ job' = job)
    PROVE  WorkInv'
  <1>1. \A u \in Txn : Good(txn'[u].kept, works, failed')
    BY DEF GoodRest
  <1>2. \A e \in Doc : /\ Low(layer'[e].items, works)
                       /\ ~layer'[e].frozen => Free(withdrawn', layer'[e].items)
    BY DEF GoodRest
  <1>3. Counted'
    BY <1>1, <1>2 DEF Counted, Good, GoodRun, GoodJob, GoodItems
  <1>4. Absent(failed', withdrawn', {}, {}, published', txn', layer')
    BY <1>1, <1>2 DEF Absent, Good
  <1>5. FailedGone'
    BY <1>4 DEF FailedGone, Good, GoodRun, GoodJob, GoodItems
  <1> QED BY <1>3, <1>5 DEF WorkInv

(* Nothing is an operation of the host that has accepted nothing, nor a    *)
(* document that has.                                                      *)
LEMMA NoneApart ==
    /\ run'.did = {} \/ ~Running' => RunApart'
    /\ Idle' => JobApart'
  BY DEF RunApart, JobApart, Absent, Free

LEMMA NoneGood ==
    ASSUME NEW n, NEW bad, NEW gone
    PROVE  GoodRun(NoRun, n, bad, gone) /\ GoodJob(NoJob, n, bad, gone)
  BY DEF GoodRun, GoodJob, GoodItems, Good, Low, Free, NoRun, NoJob

(* The document in progress after a step of its own.                       *)
LEMMA JobStays ==
    ASSUME HostInv, WorkInv, ~Idle, Mine' = Mine, MyDoc' = MyDoc,
           job'.did = job.did, job'.saved = job.saved,
           \A t \in Txn \ {Mine} : txn'[t].kept = txn[t].kept,
           \A d \in Doc \ {MyDoc} : layer'[d] = layer[d],
           published' = published
    PROVE  JobApart'
  <1>1. Absent(job.did, job.did, {Mine}, {MyDoc}, published, txn, layer) /\ Free(job.did, job.saved)
    BY DEF WorkInv, JobApart
  <1>2. Absent(job.did, job.did, {Mine}, {MyDoc}, published', txn', layer')
    BY <1>1 DEF Absent
  <1> QED BY <1>1, <1>2 DEF JobApart

-----------------------------------------------------------------------------
(* The other steps of the host, without a document.                        *)
LEMMA OwnerWork ==
    ASSUME HostInv, WorkInv, NEW t \in Txn, CommitParse(t) \/ CancelParse(t),
           {t} # job.txn, UNCHANGED <<job, token>>
    PROVE  WorkInv'
  <1>1. /\ {t} # run.txn /\ UNCHANGED <<layer, run, works, failed, withdrawn>>
        /\ txn[t] \in Handle /\ txn \in [Txn -> Handle]
    BY DEF CommitParse, CancelParse, HostInv, Types
  <1>2. /\ \A u \in Txn \ {t} : txn'[u] = txn[u]
        /\ txn'[t].doc = txn[t].doc /\ txn'[t].kept \subseteq txn[t].kept
        /\ published' \subseteq published \cup txn[t].kept
    <2>1. CASE CommitParse(t)
      BY <1>1, <2>1 DEF CommitParse, Handle
    <2>2. CASE CancelParse(t)
      <3>1. txn' = [txn EXCEPT ![t] = [txn[t] EXCEPT !.status = "cancelled", !.kept = {}]]
            /\ published' = published
        BY <1>1, <2>2 DEF CancelParse, Handle
      <3> QED BY <1>1, <3>1 DEF Handle
    <2> QED BY <2>1, <2>2
  <1>3. \A B, G, T, D : t \notin T /\ Absent(B, G, T, D, published, txn, layer)
                        => Absent(B, G, T, D, published', txn', layer')
    BY <1>1, <1>2 DEF Absent
  <1>4. Self' = Self /\ Mine' = Mine /\ Running' = Running /\ Idle' = Idle
        /\ (Running => t # Self) /\ (~Idle => t # Mine)
    BY <1>1 DEF Self, Mine, Running, Idle, HostInv, RunSound, JobSound
  <1>5. RunApart'
    <2> SUFFICES ASSUME Running PROVE RunApart'
      BY <1>4 DEF RunApart
    <2>1. Self \in Txn /\ Here' = Here
      BY <1>2, <1>4 DEF Here, HostInv, RunSound
    <2>2. Reach' = Reach
      BY <1>1, <2>1 DEF Reach, Prepass
    <2>3. Absent(run.did, run.did, {Self}, Reach, published', txn', layer')
      BY <1>3, <1>4 DEF WorkInv, RunApart
    <2> QED BY <1>1, <1>4, <2>2, <2>3 DEF WorkInv, RunApart
  <1>6. JobApart'
    <2> SUFFICES ASSUME ~Idle PROVE JobApart'
      BY <1>4 DEF JobApart
    <2>1. Mine \in Txn /\ MyDoc' = MyDoc
      BY <1>2, <1>4, MineIn DEF MyDoc
    <2>2. Absent(job.did, job.did, {Mine}, {MyDoc}, published', txn', layer')
      BY <1>3, <1>4 DEF WorkInv, JobApart
    <2> QED BY <1>4, <2>1, <2>2 DEF WorkInv, JobApart
  <1>7. Counted'
    <2>1. published' \subseteq 1..works /\ \A u \in Txn : txn'[u].kept \subseteq 1..works
      BY <1>2 DEF WorkInv, Counted
    <2> QED BY <1>1, <2>1 DEF WorkInv, Counted
  <1>8. FailedGone'
    <2>1. Absent(failed, withdrawn, {}, {}, published', txn', layer')
      BY <1>3 DEF WorkInv, FailedGone
    <2> QED BY <1>1, <1>4, <2>1 DEF WorkInv, FailedGone
  <1> QED BY <1>5, <1>6, <1>7, <1>8 DEF WorkInv

LEMMA ComponentWork ==
    ASSUME HostInv, WorkInv, Idle, Components, UNCHANGED <<job, token>>
    PROVE  WorkInv'
  <1>1. ~Running /\ run' = run /\ UNCHANGED <<latest, txn, published, works, failed, withdrawn>>
    BY DEF Components, Load, Unload
  <1>2. \A d \in Doc : layer'[d].frozen = layer[d].frozen /\ layer'[d].items \subseteq layer[d].items
    <2>1. ASSUME NEW c \in Component, NEW items, Load(c, items)
          PROVE  \A d \in Doc : layer'[d].frozen = layer[d].frozen
                                /\ layer'[d].items \subseteq layer[d].items
      BY <2>1 DEF Load
    <2>2. ASSUME NEW c \in Component, Unload(c), NEW d \in Doc
          PROVE  layer'[d].frozen = layer[d].frozen /\ layer'[d].items \subseteq layer[d].items
      <3>1. layer[d] \in Layer
        BY DEF HostInv, Types
      <3>2. layer'[d] = IF layer[d].frozen THEN layer[d]
                        ELSE [layer[d] EXCEPT !.items = Without(layer[d].items, c)]
        BY <2>2 DEF Unload
      <3> QED BY <3>1, <3>2 DEF Layer, Without
    <2> QED BY <2>1, <2>2 DEF Components
  <1>3. \A B, G : Absent(B, G, {}, {}, published, txn, layer)
                 => Absent(B, G, {}, {}, published', txn', layer')
    BY <1>1, <1>2 DEF Absent, Free
  <1>4. Counted'
    <2>1. \A d \in Doc : Low(layer'[d].items, works)
      BY <1>2 DEF WorkInv, Counted, Low
    <2> QED BY <1>1, <2>1 DEF WorkInv, Counted
  <1>5. FailedGone'
    BY <1>1, <1>3 DEF WorkInv, FailedGone, Idle
  <1> QED BY <1>1, <1>4, <1>5, NoneApart DEF WorkInv, Running, Idle

LEMMA BegunGood ==
    ASSUME HostInv, WorkInv, NEW d \in Doc, NEW r
    PROVE  Low(Begun(d, r).items, works)
           /\ (~Begun(d, r).frozen => GoodItems(Begun(d, r).items, works, withdrawn))
  BY GoodNow DEF Begun, GoodItems

(* A transaction begins, alone or with an operation of the host.           *)
LEMMA BeginWork ==
    ASSUME HostInv, WorkInv, NEW t \in Txn, NEW d \in Doc, NEW lay \in Layer, NEW h \in Handle,
           layer' = [layer EXCEPT ![d] = lay], txn' = [txn EXCEPT ![t] = h],
           UNCHANGED <<published, works, failed, withdrawn>>,
           Low(lay.items, works), ~lay.frozen => GoodItems(lay.items, works, withdrawn),
           Good(h.kept, works, failed),
           GoodRun(run', works, failed, withdrawn), run'.did = {}, JobApart',
           GoodJob(job', works, failed, withdrawn) \/ (Idle' /\ job' = job)
    PROVE  WorkInv'
  <1>1. txn'[t] = h /\ layer'[d] = lay
    BY DEF HostInv, Types
  <1>2. /\ \A u \in Txn \ {t} : txn'[u].kept = txn[u].kept
        /\ \A e \in Doc \ {d} : layer'[e] = layer[e]
    BY DEF HostInv, Types
  <1>3. GoodRest(t, d, works, failed, withdrawn) /\ Good(published, works, failed) /\ failed \subseteq 1..works
        /\ withdrawn \subseteq failed
    BY GoodNow
  <1>4. RunApart'
    BY NoneApart
  <1> QED BY <1>1, <1>2, <1>3, <1>4, WorkStep DEF GoodItems, WorkInv

LEMMA EnteredGood ==
    ASSUME NEW r, NEW kind, NEW t, NEW lay, NEW kept, NEW n, NEW bad, NEW gone,
           EnterFacts(r, kind, t, lay, kept), Good(kept, n, bad),
           kind # "later" => GoodItems(lay.items, n, gone)
    PROVE  GoodRun(r, n, bad, gone) /\ r.did = {}
  BY DEF EnterFacts, GoodRun, Good

LEMMA DispatchInWork ==
    ASSUME HostInv, WorkInv, Idle, NEW t \in Txn, NEW kind \in Kinds, DispatchInParse(t, kind),
           UNCHANGED job
    PROVE  WorkInv'
  <1> DEFINE d == txn[t].doc
             ent == Entered(kind, layer[d])
  <1>1. /\ MayEnter(kind, layer[d])
        /\ run' = Enter(kind, t, FALSE, layer[d], txn[t].kept)
        /\ layer' = [layer EXCEPT ![d] = ent]
        /\ UNCHANGED <<txn, published, works, failed, withdrawn>>
    BY DEF DispatchInParse
  <1>2. d \in Doc /\ layer[d] \in Layer /\ txn[t] \in Handle /\ txn[t].kept \in SUBSET Nat
        /\ txn = [txn EXCEPT ![t] = txn[t]]
    BY DEF HostInv, Types, Handle
  <1>3. ent \in Layer /\ ent.items = layer[d].items /\ (~ent.frozen => ~layer[d].frozen)
    BY <1>2 DEF Entered, Layer
  <1>4. /\ Low(layer[d].items, works) /\ Good(txn[t].kept, works, failed)
        /\ ~layer[d].frozen => GoodItems(layer[d].items, works, withdrawn)
    BY <1>2, GoodNow DEF GoodItems
  <1>5. EnterFacts(run', kind, t, layer[d], txn[t].kept)
    BY <1>1, <1>2, EnterIn
  <1>6. kind # "later" => ~layer[d].frozen
    BY <1>1 DEF MayEnter
  <1> HIDE DEF ent, d
  <1>7. GoodRun(run', works, failed, withdrawn) /\ run'.did = {}
    BY <1>4, <1>5, <1>6, EnteredGood
  <1>8. Idle' /\ JobApart'
    BY NoneApart DEF Idle
  <1>9. txn' = [txn EXCEPT ![t] = txn[t]]
    BY <1>1, <1>2
  <1> QED BY <1>1, <1>2, <1>3, <1>4, <1>7, <1>8, <1>9, BeginWork

LEMMA DispatchWork ==
    ASSUME HostInv, WorkInv, Idle, NEW t \in Txn, NEW kind \in Kinds, NEW d \in Doc,
           NEW r \in 1..MaxRevision, Dispatch(t, kind, d, r), UNCHANGED job
    PROVE  WorkInv'
  <1> DEFINE lay == Begun(d, r)
             ent == Entered(kind, lay)
             dead == [Open(d, r) EXCEPT !.status = "cancelled"]
  <1>1. UNCHANGED <<published, works, failed, withdrawn>> /\ Idle' /\ JobApart' /\ ~Running
    BY NoneApart DEF Dispatch, NewTxn, Idle
  <1>2. lay \in Layer
    BY BegunIn DEF Dispatch, NewTxn, HostInv
  <1>3. ent \in Layer /\ ent.items = lay.items /\ (~ent.frozen => ~lay.frozen)
    BY <1>2 DEF Entered, Layer
  <1>4. Low(lay.items, works) /\ (~lay.frozen => GoodItems(lay.items, works, withdrawn))
    BY BegunGood
  <1>5. Open(d, r) \in Handle /\ Open(d, r).kept = {} /\ dead \in Handle /\ dead.kept = {}
    BY OpenIn
  <1>6. Good({}, works, failed)
    BY DEF Good
  <1>7. CASE MayEnter(kind, lay)
    <2>1. /\ run' = Enter(kind, t, TRUE, lay, {}) /\ layer' = [layer EXCEPT ![d] = ent]
          /\ txn' = [txn EXCEPT ![t] = Open(d, r)]
      BY <1>7 DEF Dispatch
    <2>2. EnterFacts(run', kind, t, lay, {})
      BY <1>2, <2>1, EnterIn
    <2>3. kind # "later" => ~lay.frozen
      BY <1>7 DEF MayEnter
    <2> HIDE DEF lay, ent
    <2>4. GoodRun(run', works, failed, withdrawn) /\ run'.did = {}
      BY <1>4, <1>6, <2>2, <2>3, EnteredGood
    <2> QED BY <1>1, <1>3, <1>4, <1>5, <1>6, <2>1, <2>4, BeginWork
  <1>8. CASE ~MayEnter(kind, lay)
    <2>1. /\ run' = run /\ layer' = [layer EXCEPT ![d] = lay] /\ txn' = [txn EXCEPT ![t] = dead]
      BY <1>8 DEF Dispatch
    <2>2. run = NoRun
      BY <1>1 DEF HostInv, RunSound
    <2> HIDE DEF lay, ent, dead
    <2>3. GoodRun(run', works, failed, withdrawn) /\ run'.did = {}
      BY <2>1, <2>2, NoneGood, NoRunIn
    <2> QED BY <1>1, <1>2, <1>4, <1>5, <1>6, <2>1, <2>3, BeginWork
  <1> QED BY <1>7, <1>8

LEMMA BeginOnlyWork ==
    ASSUME HostInv, WorkInv, Idle, NEW t \in Txn, NEW d \in Doc,
           NEW r \in 1..MaxRevision, BeginParse(t, d, r), UNCHANGED job
    PROVE  WorkInv'
  <1>1. UNCHANGED <<published, works, failed, withdrawn, run>> /\ Idle' /\ JobApart' /\ ~Running
    BY NoneApart DEF BeginParse, NewTxn, Idle
  <1>2. Begun(d, r) \in Layer
    BY BegunIn DEF BeginParse, NewTxn, HostInv
  <1>3. run = NoRun
    BY <1>1 DEF HostInv, RunSound
  <1>4. GoodRun(run', works, failed, withdrawn) /\ run'.did = {}
    BY <1>1, <1>3, NoneGood, NoRunIn
  <1>5. Open(d, r) \in Handle /\ Good(Open(d, r).kept, works, failed)
    BY OpenIn DEF Good
  <1>6. /\ Low(Begun(d, r).items, works)
        /\ ~Begun(d, r).frozen => GoodItems(Begun(d, r).items, works, withdrawn)
    BY BegunGood
  <1>7. layer' = [layer EXCEPT ![d] = Begun(d, r)] /\ txn' = [txn EXCEPT ![t] = Open(d, r)]
    BY DEF BeginParse
  <1> QED BY <1>1, <1>2, <1>4, <1>5, <1>6, <1>7, BeginWork

-----------------------------------------------------------------------------
(* An operation returns: what remains in its transaction, and in the layer *)
(* when that is still open.                                                *)
Fallen   == IF Outcome = "ok" THEN failed ELSE failed \cup run.did
Withdrew == IF Outcome = "ok" THEN withdrawn ELSE withdrawn \cup run.did

LEMMA ReturnedRest ==
    ASSUME HostInv, WorkInv, Running, NEW bad \in {failed, failed \cup run.did},
           NEW gone \in {withdrawn, withdrawn \cup run.did}
    PROVE  /\ GoodRest(Self, Here, works, bad, gone)
           /\ Good(published, works, bad) /\ bad \subseteq 1..works
  <1>1. /\ Absent(run.did, run.did, {Self}, Reach, published, txn, layer)
        /\ Reach \subseteq {Here}
    BY DEF WorkInv, RunApart, Reach
  <1>2. Good(published, works, bad) /\ bad \subseteq 1..works
    BY <1>1, GoodNow DEF Good, Absent, GoodRun
  <1>3. GoodRest(Self, Here, works, failed, withdrawn)
    BY GoodNow
  <1>4. GoodRest(Self, Here, works, bad, gone)
    BY <1>1, <1>3 DEF GoodRest, Good, Absent, Free
  <1> QED BY <1>2, <1>4

LEMMA ReturnedGood ==
    ASSUME HostInv, WorkInv, Running
    PROVE  /\ Good(Remains, works, Fallen) /\ Withdrew \subseteq Fallen
           /\ Low(Restored.items, works)
           /\ ~Restored.frozen => Free(Withdrew, Restored.items)
  <1>1. Self \in Txn /\ Here \in Doc /\ Kept = txn[Self].kept /\ layer[Here] \in Layer
    BY HereIn DEF HostInv, Kept, Types
  <1>2. /\ Absent(run.did, run.did, {Self}, Reach, published, txn, layer)
        /\ Reach \subseteq {Here} /\ (Prepass \/ Reach = {})
    BY DEF WorkInv, RunApart, Reach
  <1>3. Withdrew \subseteq Fallen
    BY GoodNow DEF Fallen, Withdrew
  <1>4. Good(Remains, works, Fallen)
    <2>1. CASE Outcome = "ok"
      BY <1>1, <2>1, GoodNow DEF Remains, Fallen
    <2>2. CASE Outcome # "ok"
      <3>1. The(run.base) \in run.base
        BY TheIn DEF HostInv, RunSound
      <3>2. Good(The(run.base), works, failed) /\ The(run.base) \cap run.did = {}
        BY <3>1, GoodNow DEF GoodRun, WorkInv, RunApart
      <3> QED BY <2>2, <3>2 DEF Remains, Fallen, Good
    <2> QED BY <2>1, <2>2
  <1>5. Low(Restored.items, works) /\ (~Restored.frozen => Free(Withdrew, Restored.items))
    <2>1. /\ Low(layer[Here].items, works)
          /\ ~layer[Here].frozen => Free(withdrawn, layer[Here].items)
      BY <1>1, GoodNow
    <2>2. CASE Outcome # "ok" /\ Prepass /\ ~layer[Here].frozen
      <3>1. Restored.items = The(run.saved)
        BY <1>1, <2>2 DEF Restored, Layer
      <3>2. The(run.saved) \in run.saved
        BY <2>2, TheIn DEF Prepass
      <3>3. GoodItems(The(run.saved), works, withdrawn) /\ Free(run.did, The(run.saved))
        BY <3>2, GoodNow DEF GoodRun, WorkInv, RunApart
      <3> QED BY <2>2, <3>1, <3>3 DEF GoodItems, Free, Withdrew
    <2>3. CASE Outcome = "ok"
      BY <2>1, <2>3 DEF Restored, Withdrew
    <2>4. CASE Outcome # "ok" /\ ~(Prepass /\ ~layer[Here].frozen)
      <3>1. Restored = layer[Here]
        BY <2>4 DEF Restored
      <3>2. ~layer[Here].frozen => Free(run.did, layer[Here].items)
        BY <1>1, <1>2, <2>4 DEF Absent
      <3> QED BY <2>1, <2>4, <3>1, <3>2 DEF Free, Withdrew
    <2> QED BY <2>2, <2>3, <2>4
  <1> QED BY <1>3, <1>4, <1>5

LEMMA ReturnWork ==
    ASSUME HostInv, WorkInv, Idle, UNCHANGED job,
           ReturnInParse \/ \E commits \in BOOLEAN : Return(commits)
    PROVE  WorkInv'
  <1>1. /\ Running /\ run' = NoRun /\ UNCHANGED works
        /\ failed' \in {failed, failed \cup run.did}
        /\ withdrawn' \in {withdrawn, withdrawn \cup run.did}
    BY DEF ReturnInParse, Return, Over
  <1>2. Self \in Txn /\ Here \in Doc /\ txn[Self] \in Handle /\ Restored \in Layer
        /\ layer \in [Doc -> Layer] /\ txn \in [Txn -> Handle] /\ Remains \in SUBSET Nat
    BY <1>1, HereIn, RestoredIn DEF HostInv, Types
  <1>3. /\ \A e \in Doc \ {Here} : layer'[e] = layer[e]
        /\ layer'[Here].items = Restored.items /\ (~layer'[Here].frozen => ~Restored.frozen)
    <2>1. CASE ReturnInParse
      BY <1>2, <2>1 DEF ReturnInParse
    <2>2. ASSUME NEW commits \in BOOLEAN, Return(commits)
          PROVE  /\ \A e \in Doc \ {Here} : layer'[e] = layer[e]
                 /\ layer'[Here].items = Restored.items
                 /\ ~layer'[Here].frozen => ~Restored.frozen
      <3> DEFINE ends == Goes /\ Buildable(Restored)
                 lay  == [Restored EXCEPT !.frozen = @ \/ ends]
      <3>1. lay.items = Restored.items /\ (~lay.frozen => ~Restored.frozen)
        BY <1>2 DEF Layer
      <3>2. layer' = [layer EXCEPT ![Here] = lay]
        BY <2>2 DEF Return
      <3> HIDE DEF lay
      <3> QED BY <1>2, <3>1, <3>2
    <2> QED BY <2>1, <2>2
  <1>4. /\ \A u \in Txn \ {Self} : txn'[u].kept = txn[u].kept
        /\ txn'[Self].kept \subseteq Remains
        /\ published' \subseteq published \cup Remains
    <2>1. CASE ReturnInParse
      BY <1>1, <1>2, <2>1, KeepTypes DEF ReturnInParse, HostInv
    <2>2. CASE Return(TRUE)
      <3>1. txn' = [txn EXCEPT ![Self].status = "committed", ![Self].kept = Remains]
            /\ published' = published \cup Remains
        BY <2>2 DEF Return
      <3> QED BY <1>2, <3>1 DEF Handle
    <2>3. CASE Return(FALSE)
      <3>1. txn' = [txn EXCEPT ![Self].status = "cancelled", ![Self].kept = {}]
            /\ published' = published
        BY <2>3 DEF Return
      <3> QED BY <1>2, <3>1 DEF Handle
    <2> QED BY <2>1, <2>2, <2>3
  <1>5. /\ Good(txn'[Self].kept, works, failed') /\ Good(published', works, failed')
        /\ withdrawn' \subseteq failed'
        /\ layer'[Here].frozen \/ Free(withdrawn', layer'[Here].items)
    <2>1. Good(published, works, failed') /\ failed' \subseteq 1..works
      BY <1>1, ReturnedRest
    <2>2. CASE ReturnInParse \/ Return(TRUE)
      <3>1. failed' = Fallen /\ withdrawn' = Withdrew
        BY <2>2 DEF ReturnInParse, Return, Fallen, Withdrew
      <3> QED BY <1>1, <1>3, <1>4, <2>1, <3>1, ReturnedGood DEF Good
    <2>3. CASE Return(FALSE)
      <3>1. txn' = [txn EXCEPT ![Self].status = "cancelled", ![Self].kept = {}]
            /\ published' = published /\ failed' = failed \cup run.did
        BY <2>3 DEF Return
      <3>2. txn'[Self].kept = {}
        BY <1>2, <3>1 DEF Handle
      <3>3. withdrawn' \subseteq failed'
        BY <1>1, <3>1, GoodNow
      <3>4. layer'[Here].frozen \/ Free(withdrawn', layer'[Here].items)
        <4>1. CASE Goes /\ Buildable(Restored)
          <5>1. layer' = [layer EXCEPT ![Here] = [Restored EXCEPT !.frozen = TRUE]]
            BY <2>3, <4>1 DEF Return
          <5> QED BY <1>2, <5>1 DEF Layer
        <4>2. CASE ~(Goes /\ Buildable(Restored))
          <5>1. withdrawn' = Withdrew
            BY <2>3, <4>2 DEF Return, Withdrew
          <5> QED BY <1>1, <1>3, <5>1, ReturnedGood
        <4> QED BY <4>1, <4>2
      <3> QED BY <2>1, <3>1, <3>2, <3>3, <3>4 DEF Good
    <2> QED BY <2>2, <2>3
  <1>7. /\ failed' \subseteq 1..works /\ GoodRest(Self, Here, works, failed', withdrawn')
        /\ Low(layer'[Here].items, works)
    BY <1>1, <1>3, ReturnedRest, ReturnedGood
  <1>6. /\ GoodRun(run', works, failed', withdrawn') /\ RunApart' /\ JobApart' /\ Idle' /\ job' = job /\ Counted
    BY <1>1, NoneGood, NoneApart, NoRunIn DEF Idle, WorkInv
  <1> QED BY <1>1, <1>2, <1>3, <1>4, <1>5, <1>6, <1>7, WorkStep

LEMMA OthersWork ==
    ASSUME HostInv, WorkInv, Others, UNCHANGED <<job, token>>
    PROVE  WorkInv'
  <1>1. CASE Calls
    BY <1>1, CallWork
  <1>2. ASSUME NEW t \in Txn, CommitParse(t) \/ CancelParse(t), {t} # job.txn PROVE WorkInv'
    BY <1>2, OwnerWork
  <1>3. CASE Idle /\ Next
    <2>1. \A t \in Txn : {t} # job.txn
      BY <1>3 DEF HostInv, JobSound
    <2> QED
      BY <1>1, <1>2, <1>3, <2>1, ComponentWork, BeginOnlyWork, DispatchWork, DispatchInWork, ReturnWork
      DEF Next, Owners
  <1> QED BY <1>1, <1>2, <1>3 DEF Others

-----------------------------------------------------------------------------
(* The steps of parse_document.                                            *)
LEMMA StartWork ==
    ASSUME HostInv, WorkInv, NEW t \in Txn, NEW d \in Doc, NEW r \in 1..MaxRevision,
           StartDocument(t, d, r)
    PROVE  WorkInv'
  <1> DEFINE lay  == Begun(d, r)
             dead == [Open(d, r) EXCEPT !.status = "cancelled"]
  <1>1. /\ Idle /\ ~Running /\ layer' = [layer EXCEPT ![d] = lay]
        /\ UNCHANGED <<published, run, works, failed, withdrawn>>
    BY DEF StartDocument, NewTxn
  <1>2. lay \in Layer
    BY BegunIn DEF StartDocument, NewTxn, HostInv
  <1>3. Low(lay.items, works) /\ (~lay.frozen => GoodItems(lay.items, works, withdrawn))
    BY BegunGood
  <1>4. Open(d, r) \in Handle /\ Open(d, r).kept = {} /\ dead \in Handle /\ dead.kept = {}
    BY OpenIn
  <1>5. Good({}, works, failed) /\ GoodRun(run', works, failed, withdrawn) /\ run'.did = {}
    BY <1>1, NoneGood, NoRunIn DEF Good, HostInv, RunSound
  <1>6. CASE lay.frozen
    <2>1. txn' = [txn EXCEPT ![t] = dead] /\ UNCHANGED job
      BY <1>6 DEF StartDocument
    <2>2. Idle' /\ JobApart'
      BY <1>1, <2>1, NoneApart DEF Idle
    <2> HIDE DEF lay, dead
    <2> QED BY <1>1, <1>2, <1>3, <1>4, <1>5, <2>1, <2>2, BeginWork
  <1>7. CASE ~lay.frozen
    <2>1. /\ txn' = [txn EXCEPT ![t] = Open(d, r)]
          /\ job' = [NoJob EXCEPT !.stage = "text", !.txn = {t}, !.saved = lay.items]
      BY <1>7 DEF StartDocument
    <2> HIDE DEF lay, dead
    <2>2. job'.did = {} /\ job'.base = {} /\ job'.node = {} /\ job'.saved = lay.items
      BY <2>1 DEF NoJob
    <2>3. GoodJob(job', works, failed, withdrawn)
      BY <1>3, <1>7, <2>2 DEF GoodJob, Good
    <2>4. JobApart'
      BY <2>2 DEF JobApart, Absent, Free
    <2> QED BY <1>1, <1>2, <1>3, <1>4, <1>5, <2>1, <2>3, <2>4, BeginWork
  <1> QED BY <1>6, <1>7

(* A step of the document outside its Text stage, that accepts nothing.    *)
LEMMA JobWork ==
    ASSUME HostInv, WorkInv, ~Idle, ~Running', NEW kept, Good(kept, works, failed),
           UNCHANGED <<published, works, failed, withdrawn>>, GoodRun(run', works, failed, withdrawn),
           \A t \in Txn \ {Mine} : txn'[t].kept = txn[t].kept,
           txn'[Mine].kept = kept, txn'[Mine].doc = txn[Mine].doc,
           \A d \in Doc \ {MyDoc} : layer'[d] = layer[d],
           layer'[MyDoc].items = layer[MyDoc].items,
           ~layer'[MyDoc].frozen => ~layer[MyDoc].frozen,
           job'.txn = job.txn, job'.did = job.did, job'.saved = job.saved,
           Good(job'.base, works, failed), Good(job'.node, works, failed)
    PROVE  WorkInv'
  <1>1. Mine \in Txn /\ MyDoc \in Doc /\ Mine' = Mine /\ MyDoc' = MyDoc
    BY MineIn DEF Mine, MyDoc
  <1>2. JobApart'
    BY <1>1, JobStays
  <1>3. RunApart'
    BY NoneApart
  <1>4. GoodJob(job', works, failed, withdrawn)
    BY GoodNow DEF GoodJob
  <1>5. /\ Low(layer'[MyDoc].items, works)
        /\ layer'[MyDoc].frozen \/ Free(withdrawn, layer'[MyDoc].items)
    BY <1>1, GoodNow
  <1>6. GoodRest(Mine, MyDoc, works, failed, withdrawn) /\ Good(published, works, failed) /\ failed \subseteq 1..works
        /\ withdrawn \subseteq failed
    BY GoodNow
  <1> QED BY <1>1, <1>2, <1>3, <1>4, <1>5, <1>6, WorkStep

(* A request to cancel, whether an operation runs or not.                  *)
LEMMA RequestWork == ASSUME HostInv, WorkInv, RequestCancel PROVE WorkInv'
  <1>1. /\ ~Idle /\ UNCHANGED <<layer, txn, published, run, works, failed, withdrawn>>
        /\ job' = [job EXCEPT !.dead = ~Within("commit")] /\ job \in JobData
    BY DEF RequestCancel, vars, HostInv, JobSound
  <1>2. /\ job'.did = job.did /\ job'.base = job.base /\ job'.node = job.node
        /\ job'.saved = job.saved /\ job'.txn = job.txn /\ job'.stage = job.stage
    BY <1>1 DEF JobData
  <1>3. Mine' = Mine /\ MyDoc' = MyDoc /\ Self' = Self /\ Idle' = Idle /\ Running' = Running
    BY <1>1, <1>2 DEF Mine, MyDoc, Self, Idle, Running
  <1>4. Reach' = Reach
    BY <1>1, <1>3 DEF Reach, Prepass, Here
  <1> QED BY <1>1, <1>2, <1>3, <1>4 DEF WorkInv, Counted, FailedGone, RunApart, JobApart

LEMMA EnterTextWork == ASSUME HostInv, WorkInv, EnterText PROVE WorkInv'
  <1>1. /\ At("text") /\ ~Idle
        /\ run' = Enter("text", Mine, FALSE, layer[MyDoc], MyKept)
        /\ UNCHANGED <<layer, txn, published, works, failed, withdrawn>>
        /\ job' = [job EXCEPT !.inside = TRUE]
    BY DEF EnterText, At, Idle
  <1>2. /\ Mine \in Txn /\ MyDoc \in Doc /\ MyKept \in SUBSET Nat /\ layer[MyDoc] \in Layer
        /\ job \in JobData
    BY <1>1, MineIn
  <1>3. EnterFacts(run', "text", Mine, layer[MyDoc], MyKept)
    BY <1>1, <1>2, EnterIn DEF Kinds
  <1>4. Good(MyKept, works, failed) /\ GoodItems(layer[MyDoc].items, works, withdrawn)
    BY <1>1, <1>2, GoodNow DEF MyKept, GoodItems, HostInv, JobSound
  <1>5. GoodRun(run', works, failed, withdrawn) /\ run'.did = {}
    BY <1>3, <1>4, EnteredGood
  <1>6. /\ job'.did = job.did /\ job'.base = job.base /\ job'.node = job.node
        /\ job'.saved = job.saved /\ job'.txn = job.txn
    BY <1>1, <1>2 DEF JobData
  <1>7. GoodJob(job', works, failed, withdrawn)
    BY <1>1, <1>6, GoodNow DEF GoodJob
  <1>8. Mine' = Mine /\ MyDoc' = MyDoc
    BY <1>1, <1>6 DEF Mine, MyDoc
  <1>9. JobApart' /\ RunApart'
    BY <1>1, <1>5, <1>6, <1>8, JobStays, NoneApart
  <1>10. /\ GoodRest(Mine, MyDoc, works, failed, withdrawn) /\ Good(published, works, failed)
         /\ failed \subseteq 1..works /\ withdrawn \subseteq failed
         /\ Low(layer[MyDoc].items, works)
         /\ layer[MyDoc].frozen \/ Free(withdrawn, layer[MyDoc].items)
    BY <1>2, GoodNow
  <1>11. Good(txn'[Mine].kept, works, failed)
    BY <1>1, <1>4 DEF MyKept
  <1> QED BY <1>1, <1>2, <1>5, <1>7, <1>9, <1>10, <1>11, WorkStep

(* The works of the Text stage become works of the document.               *)
LEMMA TextReturnsWork == ASSUME HostInv, WorkInv, TextReturns PROVE WorkInv'
  <1>1. /\ ~Idle /\ Running /\ ReturnInParse /\ run' = NoRun /\ UNCHANGED <<published, works>>
        /\ failed' = Fallen /\ withdrawn' = Withdrew
    BY DEF TextReturns, ReturnInParse, HostInv, JobSound, Within, Idle, Fallen, Withdrew
  <1>2. Mine = Self /\ MyDoc = Here /\ Self \in Txn /\ Here \in Doc /\ job \in JobData
    BY <1>1, MineIn DEF HostInv, JobSound, Mine, Self, MyDoc, Here
  <1>3. /\ \A t \in Txn : txn'[t].doc = txn[t].doc
        /\ \A t \in Txn \ {Self} : txn'[t] = txn[t]
        /\ txn'[Self].kept = Remains
    BY <1>1, KeepTypes, RestoredIn DEF ReturnInParse, HostInv
  <1>4. layer' = [layer EXCEPT ![Here] = Restored] /\ layer'[Here] = Restored
    BY <1>1, <1>2 DEF ReturnInParse, HostInv, Types
  <1>5. /\ job'.did = job.did \cup run.did /\ job'.saved = job.saved /\ job'.txn = job.txn
        /\ job'.base = job.base /\ job'.node = job.node
    <2> DEFINE st == IF Outcome = "error" THEN "abort" ELSE "tree"
               fault == Outcome = "fault"
               did == job.did \cup run.did
    <2>1. job' = [job EXCEPT !.stage = st, !.inside = FALSE, !.global = fault, !.did = did]
      BY <1>2 DEF TextReturns, JobData
    <2> HIDE DEF st, fault, did
    <2>2. /\ job'.did = did /\ job'.saved = job.saved /\ job'.txn = job.txn
          /\ job'.base = job.base /\ job'.node = job.node
      BY <1>2, <2>1 DEF JobData
    <2> QED BY <2>2 DEF did
  <1>6. Mine' = Mine /\ MyDoc' = MyDoc
    BY <1>2, <1>3, <1>5 DEF Mine, MyDoc
  <1>7. /\ Absent(run.did, run.did, {Self}, Reach, published, txn, layer) /\ Reach \subseteq {Here}
        /\ Free(run.did, job.saved) /\ run.did \cap (job.base \cup job.node) = {}
        /\ Absent(job.did, job.did, {Mine}, {MyDoc}, published, txn, layer) /\ Free(job.did, job.saved)
    BY <1>1 DEF WorkInv, RunApart, JobApart, Reach
  <1>8. JobApart'
    <2>1. Absent(job'.did, job'.did, {Mine}, {MyDoc}, published', txn', layer')
      BY <1>1, <1>2, <1>3, <1>4, <1>5, <1>7 DEF Absent, Free, HostInv, Types
    <2>2. Free(job'.did, job'.saved)
      BY <1>5, <1>7 DEF Free
    <2> QED BY <1>6, <2>1, <2>2 DEF JobApart
  <1>9. GoodJob(job', works, failed', withdrawn')
    <2>1. GoodJob(job, works, failed, withdrawn) /\ run.did \subseteq 1..works
      BY <1>1, GoodNow DEF GoodRun, Good
    <2> QED BY <1>1, <1>5, <1>7, <2>1 DEF GoodJob, Good, GoodItems, Free, Fallen, Withdrew
  <1>10. GoodRun(run', works, failed', withdrawn') /\ RunApart'
    BY <1>1, NoneGood, NoneApart, NoRunIn
  <1>11. /\ Good(txn'[Self].kept, works, failed') /\ Good(published', works, failed')
         /\ failed' \subseteq 1..works /\ GoodRest(Self, Here, works, failed', withdrawn')
         /\ withdrawn' \subseteq failed'
         /\ Low(layer'[Here].items, works)
         /\ layer'[Here].frozen \/ Free(withdrawn', layer'[Here].items)
    <2>1. failed' \in {failed, failed \cup run.did}
          /\ withdrawn' \in {withdrawn, withdrawn \cup run.did}
      BY <1>1 DEF Fallen, Withdrew
    <2> QED BY <1>1, <1>3, <1>4, <2>1, ReturnedGood, ReturnedRest
  <1>12. /\ \A u \in Txn \ {Self} : txn'[u].kept = txn[u].kept
         /\ \A e \in Doc \ {Here} : layer'[e] = layer[e]
    BY <1>3, <1>4 DEF HostInv, Types
  <1> QED BY <1>1, <1>2, <1>8, <1>9, <1>10, <1>11, <1>12, WorkStep

(* The document alone: no operation of the host is in progress.            *)
LEMMA AloneRun ==
    ASSUME HostInv, WorkInv, ~Idle, ~Within("text"), UNCHANGED run
    PROVE  ~Running' /\ GoodRun(run', works, failed, withdrawn) /\ run = NoRun /\ RunApart'
  BY Alone, GoodNow, NoneApart DEF HostInv, RunSound, Running

LEMMA KeptGood ==
    ASSUME HostInv, WorkInv, ~Idle
    PROVE  /\ Good(MyKept, works, failed) /\ Good({}, works, failed)
           /\ Good(job.base, works, failed) /\ Good(job.node, works, failed)
           /\ MyKept \in SUBSET Nat /\ job.base \in SUBSET Nat /\ job.node \in SUBSET Nat
  <1>1. Mine \in Txn /\ MyKept \in SUBSET Nat /\ job \in JobData
    BY MineIn
  <1> QED BY <1>1, GoodNow DEF GoodJob, Good, MyKept, JobData

(* A step that keeps one of the savepoints, or all.                        *)
LEMMA SavepointWork ==
    ASSUME HostInv, WorkInv, ~Idle, ~Within("text"),
           NEW kept \in {MyKept, {}, job.base, job.node}, NowKeep(kept),
           UNCHANGED <<layer, published, run, works, failed, withdrawn>>,
           job'.txn = job.txn, job'.did = job.did, job'.saved = job.saved,
           job'.base = job.base, job'.node \in {job.node, MyKept}
    PROVE  WorkInv'
  <1>1. Good(kept, works, failed) /\ kept \in SUBSET Nat
    BY KeptGood
  <1>2. /\ txn'[Mine].kept = kept /\ txn'[Mine].doc = txn[Mine].doc
        /\ \A t \in Txn \ {Mine} : txn'[t].kept = txn[t].kept
    BY <1>1, NowKeepTypes, MineIn
  <1>3. Good(job'.base, works, failed) /\ Good(job'.node, works, failed)
    BY KeptGood
  <1>4. ~Running' /\ GoodRun(run', works, failed, withdrawn)
    BY AloneRun
  <1> QED BY <1>1, <1>2, <1>3, <1>4, JobWork

LEMMA StageWork ==
    ASSUME HostInv, WorkInv,
           \/ Cancelled /\ ~Within("text")
           \/ EnterCommit
           \/ CommitDocument(FALSE)
           \/ \E stage \in {"tree", "syntax", "ast"} :
                 \/ NextNode(stage) \/ StageRejects(stage) \/ StageErrs(stage) \/ StageEnds(stage)
                 \/ \E traps \in SUBSET Component : NodeFails(stage, traps)
    PROVE  WorkInv'
  <1>1. ~Idle /\ ~Within("text") /\ UNCHANGED <<layer, published, run, works, failed, withdrawn>>
    BY DEF Cancelled, EnterCommit, CommitDocument, NextNode, StageRejects, StageErrs, StageEnds,
           NodeFails, Walking, Within, At, Idle, Stages, vars
  <1>2. job \in JobData
    BY <1>1, MineIn
  <1>3. PICK kept \in {MyKept, {}, job.base, job.node} : NowKeep(kept)
    BY <1>1, NowKept
    DEF Cancelled, EnterCommit, CommitDocument, NextNode, StageRejects, StageErrs, StageEnds,
        NodeFails, vars
  <1>4. /\ job'.txn = job.txn /\ job'.did = job.did /\ job'.saved = job.saved
        /\ job'.base = job.base /\ job'.node \in {job.node, MyKept}
    BY <1>2
    DEF Cancelled, EnterCommit, CommitDocument, NextNode, StageRejects, StageErrs, StageEnds,
        NodeFails, JobData
  <1> QED BY <1>1, <1>3, <1>4, SavepointWork

LEMMA EnterStageWork ==
    ASSUME HostInv, WorkInv, NEW stage \in {"tree", "syntax", "ast"}, EnterStage(stage)
    PROVE  WorkInv'
  <1>1. ~Idle /\ ~Within("text") /\ UNCHANGED <<txn, published, run, works, failed, withdrawn>>
    BY DEF EnterStage, At, Within, Idle
  <1>2. job \in JobData /\ Mine \in Txn /\ MyDoc \in Doc /\ layer[MyDoc] \in Layer
    BY <1>1, MineIn
  <1>3. /\ job'.txn = job.txn /\ job'.did = job.did /\ job'.saved = job.saved
        /\ job'.base \in {job.base, MyKept} /\ job'.node \in {job.node, MyKept}
    <2>1. \/ job' = [job EXCEPT !.stage = After[stage]] \/ job' = [job EXCEPT !.stage = "abort"]
          \/ job' = [job EXCEPT !.inside = TRUE, !.base = MyKept, !.node = MyKept]
      BY DEF EnterStage
    <2> QED BY <1>2, <2>1 DEF JobData
  <1>4. /\ \A d \in Doc \ {MyDoc} : layer'[d] = layer[d]
        /\ layer'[MyDoc].items = layer[MyDoc].items
        /\ ~layer'[MyDoc].frozen => ~layer[MyDoc].frozen
    <2>1. SyntaxLayer.items = layer[MyDoc].items /\ SyntaxLayer.frozen
      BY <1>2 DEF SyntaxLayer, Layer
    <2>2. layer' = layer \/ layer' = [layer EXCEPT ![MyDoc] = SyntaxLayer]
      BY DEF EnterStage
    <2> QED BY <1>2, <2>1, <2>2 DEF HostInv, Types
  <1>5. Good(MyKept, works, failed) /\ Good(job'.base, works, failed) /\ Good(job'.node, works, failed)
    BY <1>1, <1>3, KeptGood
  <1>6. ~Running' /\ GoodRun(run', works, failed, withdrawn) /\ txn'[Mine].kept = MyKept
    BY <1>1, AloneRun DEF MyKept
  <1> QED BY <1>1, <1>3, <1>4, <1>5, <1>6, JobWork

(* A call of the walk is accepted: its work is new.                        *)
LEMMA AcceptedWork ==
    ASSUME HostInv, WorkInv, NEW stage \in {"tree", "syntax", "ast"}, NEW replaces \in BOOLEAN,
           CallAccepted(stage, replaces)
    PROVE  WorkInv'
  <1> DEFINE w    == works + 1
             kept == MyKept \cup {w}
             did  == job.did \cup {w}
             node == IF replaces THEN kept ELSE job.node
  <1>1. ~Idle /\ ~Within("text")
    BY DEF CallAccepted, Walking, Within, Idle
  <1>2. /\ works' = w /\ NowKeep(kept) /\ UNCHANGED <<layer, published, run, failed, withdrawn>>
        /\ job' = [job EXCEPT !.did = did, !.node = node]
    BY DEF CallAccepted
  <1>3. /\ works \in Nat /\ w \in Nat /\ 1..works \subseteq 1..w /\ w \in 1..w /\ w \notin 1..works
        /\ works =< w
    BY HostAssumption DEF HostInv, Types
  <1>4. job \in JobData /\ Mine \in Txn /\ MyDoc \in Doc /\ MyKept \in SUBSET Nat /\ MyKept \subseteq 1..works
    BY <1>1, MineIn DEF MyKept, WorkInv, Counted
  <1>5. /\ job'.did = did /\ job'.node = node /\ job'.base = job.base /\ job'.saved = job.saved
        /\ job'.txn = job.txn /\ job'.stage = job.stage
    <2> HIDE DEF did, node
    <2> QED BY <1>2, <1>4 DEF JobData
  <1>6. /\ \A t \in Txn : txn'[t].doc = txn[t].doc
        /\ \A t \in Txn \ {Mine} : txn'[t] = txn[t]
        /\ txn'[Mine].kept = kept
    <2>1. kept \in SUBSET Nat
      BY <1>3, <1>4
    <2> HIDE DEF kept
    <2> QED BY <1>1, <1>2, <2>1, NowKeepTypes
  <1>7. Mine' = Mine /\ MyDoc' = MyDoc /\ Idle' = Idle
    BY <1>4, <1>5, <1>6 DEF Mine, MyDoc, Idle
  <1>8. RunApart' /\ run = NoRun
    BY <1>1, <1>2, AloneRun
  <1>9. \A items : Low(items, works) /\ items \subseteq Item => Low(items, w)
    BY <1>3, LowNext DEF HostInv
  <1>10. Counted'
    <2>1. \A t \in Txn : txn'[t].kept \subseteq 1..w
      BY <1>3, <1>4, <1>6 DEF WorkInv, Counted
    <2>2. \A d \in Doc : Low(layer'[d].items, w)
      BY <1>2, <1>9 DEF WorkInv, Counted, HostInv, Types, Layer
    <2>3. Low(job'.saved, w)
      BY <1>4, <1>5, <1>9 DEF WorkInv, Counted, JobData
    <2>4. job'.did \subseteq 1..w /\ job'.base \subseteq 1..w /\ job'.node \subseteq 1..w
      BY <1>3, <1>4, <1>5 DEF WorkInv, Counted
    <2>5. published' \subseteq 1..w /\ failed' \subseteq 1..w
      BY <1>2, <1>3 DEF WorkInv, Counted
    <2>6. run'.did = {} /\ run'.base = {} /\ run'.cont = {} /\ run'.saved = {}
      BY <1>2, <1>8 DEF NoRun
    <2> QED BY <1>2, <2>1, <2>2, <2>3, <2>4, <2>5, <2>6 DEF Counted
  <1>11. FailedGone'
    <2>1. w \notin failed /\ MyKept \cap failed = {} /\ withdrawn \subseteq failed
      BY <1>1, <1>3, KeptGood DEF WorkInv, Counted, Good, FailedGone
    <2>2. Absent(failed, withdrawn, {}, {}, published', txn', layer')
      BY <1>2, <1>4, <1>6, <2>1 DEF WorkInv, FailedGone, Absent
    <2>3. Free(withdrawn, job'.saved) /\ failed \cap (job'.base \cup job'.node) = {}
      BY <1>1, <1>5, <2>1 DEF WorkInv, FailedGone
    <2> QED BY <1>2, <2>2, <2>3 DEF WorkInv, FailedGone
  <1>12. JobApart'
    <2>1. Absent(job.did, job.did, {Mine}, {MyDoc}, published, txn, layer) /\ Free(job.did, job.saved)
      BY <1>1 DEF WorkInv, JobApart
    <2>2. w \notin published /\ \A t \in Txn : w \notin txn[t].kept
      BY <1>3 DEF WorkInv, Counted
    <2>3. Free({w}, job.saved) /\ \A d \in Doc : Free({w}, layer[d].items)
      <3>1. \A items : Low(items, works) /\ items \subseteq Item => Free({w}, items)
        BY <1>3, HostAssumption DEF Low, Free, Item
      <3> QED BY <1>4, <3>1 DEF WorkInv, Counted, HostInv, Types, Layer, JobData
    <2>4. Absent(did, did, {Mine}, {MyDoc}, published', txn', layer')
      BY <1>2, <1>6, <2>1, <2>2, <2>3 DEF Absent, Free
    <2>5. Free(did, job.saved)
      BY <2>1, <2>3 DEF Free
    <2> HIDE DEF did
    <2> QED BY <1>5, <1>7, <2>4, <2>5 DEF JobApart
  <1> QED BY <1>8, <1>10, <1>11, <1>12 DEF WorkInv

(* The document ends.                                                      *)
LEMMA CommitWork == ASSUME HostInv, WorkInv, CommitDocument(TRUE) PROVE WorkInv'
  <1>1. /\ ~Idle /\ ~Within("text") /\ published' = published \cup MyKept /\ job' = NoJob
        /\ txn' = [txn EXCEPT ![Mine].status = "committed"]
        /\ UNCHANGED <<layer, run, works, failed, withdrawn>>
    BY DEF CommitDocument, Within, Idle
  <1>2. Mine \in Txn /\ MyDoc \in Doc
    BY <1>1, MineIn
  <1>3. \A t \in Txn : txn'[t].kept = txn[t].kept
    BY <1>1, <1>2 DEF HostInv, Types, Handle
  <1>4. GoodRun(run', works, failed, withdrawn) /\ RunApart' /\ GoodJob(job', works, failed, withdrawn) /\ JobApart'
    BY <1>1, AloneRun, NoneGood, NoneApart, NoJobIn DEF Idle
  <1>5. Good(published', works, failed) /\ Good(txn'[Mine].kept, works, failed)
    BY <1>1, <1>2, <1>3, KeptGood, GoodNow DEF Good
  <1>6. /\ GoodRest(Mine, MyDoc, works, failed, withdrawn)
        /\ failed \subseteq 1..works /\ withdrawn \subseteq failed
        /\ Low(layer[MyDoc].items, works) /\ (layer[MyDoc].frozen \/ Free(withdrawn, layer[MyDoc].items))
    BY <1>2, GoodNow
  <1> QED BY <1>1, <1>2, <1>3, <1>4, <1>5, <1>6, WorkStep

LEMMA RollbackWork == ASSUME HostInv, WorkInv, RollbackDocument PROVE WorkInv'
  <1>1. /\ ~Idle /\ ~Within("text") /\ job' = NoJob
        /\ failed' = failed \cup job.did /\ withdrawn' = withdrawn \cup job.did
        /\ layer' = [layer EXCEPT ![MyDoc] = Aborted]
        /\ txn' = [txn EXCEPT ![Mine].status = "cancelled", ![Mine].kept = {}]
        /\ UNCHANGED <<published, run, works>>
    BY DEF RollbackDocument, Within, Idle
  <1>2. Mine \in Txn /\ MyDoc \in Doc /\ Aborted.items = job.saved
    BY <1>1, MineIn, AbortedIn
  <1>3. txn'[Mine].kept = {} /\ \A t \in Txn \ {Mine} : txn'[t].kept = txn[t].kept
    BY <1>1, <1>2 DEF HostInv, Types, Handle
  <1>4. layer'[MyDoc].items = job.saved /\ \A d \in Doc \ {MyDoc} : layer'[d] = layer[d]
    BY <1>1, <1>2 DEF HostInv, Types
  <1>5. Absent(job.did, job.did, {Mine}, {MyDoc}, published, txn, layer) /\ Free(job.did, job.saved)
        /\ GoodJob(job, works, failed, withdrawn)
    BY <1>1, GoodNow DEF WorkInv, JobApart
  <1>6. /\ GoodRest(Mine, MyDoc, works, failed', withdrawn') /\ Good(published, works, failed')
        /\ failed' \subseteq 1..works /\ withdrawn' \subseteq failed'
    <2>1. GoodRest(Mine, MyDoc, works, failed, withdrawn) /\ Good(published, works, failed) /\ failed \subseteq 1..works
          /\ withdrawn \subseteq failed
      BY GoodNow
    <2> QED BY <1>1, <1>5, <2>1 DEF GoodRest, Good, GoodJob, Absent, Free
  <1>7. Low(job.saved, works) /\ Free(withdrawn', job.saved)
    BY <1>1, <1>5 DEF GoodJob, GoodItems, Free
  <1>8. RunApart' /\ GoodRun(run', works, failed', withdrawn') /\ GoodJob(job', works, failed', withdrawn') /\ JobApart'
    BY <1>1, AloneRun, NoneGood, NoneApart, NoJobIn DEF Idle
  <1>9. Good(txn'[Mine].kept, works, failed')
    BY <1>3 DEF Good
  <1> QED BY <1>1, <1>2, <1>3, <1>4, <1>6, <1>7, <1>8, <1>9, WorkStep

LEMMA WorkNext == ASSUME HostInv, WorkInv, [DocNext]_docVars PROVE WorkInv'
  <1>1. CASE Others /\ UNCHANGED <<job, token>>
    BY <1>1, OthersWork
  <1>2. CASE UNCHANGED docVars
    BY <1>2
    DEF docVars, vars, WorkInv, Counted, FailedGone, RunApart, JobApart, Running, Idle, Self, Mine,
        MyDoc, Here, Reach, Prepass
  <1>3. ASSUME Cancelled PROVE WorkInv'
    BY <1>3, StageWork DEF Cancelled, Within
  <1>4. ASSUME NEW commits \in BOOLEAN, CommitDocument(commits) PROVE WorkInv'
    <2>1. commits = TRUE \/ commits = FALSE
      OBVIOUS
    <2> QED BY <1>4, <2>1, CommitWork, StageWork
  <1>5. CASE Documents
    BY <1>3, <1>4, <1>5, RequestWork, EnterTextWork, TextReturnsWork, RollbackWork, StartWork, StageWork,
       EnterStageWork, AcceptedWork
    DEF Documents
  <1> QED BY <1>1, <1>2, <1>5 DEF DocNext

LEMMA WorkCorrect == DocSpec => []WorkInv
  <1>1. HostInv /\ WorkInv /\ [DocNext]_docVars => WorkInv'
    BY WorkNext
  <1> QED BY <1>1, InitWork, HostCorrect, PTL DEF DocSpec

-----------------------------------------------------------------------------
(* A dispatch or an expansion that does not succeed, also at its snapshot  *)
(* or its commit, and a document that does not commit, leave none of their *)
(* work in a transaction, in the store, or, but for the registrations of a *)
(* dispatch whose snapshot could not be built, in a layer that can still   *)
(* change (FailureUndone; dispatch, host.rs:9680, and dispatch_in_parse).  *)
THEOREM FailureCorrect == DocSpec => []FailureUndone
  <1>1. WorkInv => FailureUndone
    BY DEF WorkInv, FailedGone, Absent, Free, FailureUndone
  <1> QED BY <1>1, WorkCorrect, PTL

(* A document that ends without a commit leaves nothing it accepted in the *)
(* store and gives the layer back as it found it (DocumentAtomic;          *)
(* rollback_document, document.rs:634).                                    *)
THEOREM DocumentCorrect == DocSpec => DocumentAtomic
  <1> DEFINE Ended == ~Idle /\ job'.stage = "none" /\ txn'[Mine].status # "committed"
             Undoes == /\ layer'[MyDoc] = [layer[MyDoc] EXCEPT !.items = job.saved, !.frozen = FALSE]
                       /\ txn'[Mine].kept = {}
                       /\ (job.did \cup run.did) \cap published' = {}
  <1>1. ASSUME HostInv, WorkInv, DocNext, Ended PROVE Undoes
    <2>1. Mine \in Txn /\ MyDoc \in Doc /\ txn \in [Txn -> Handle] /\ layer \in [Doc -> Layer]
      BY <1>1, MineIn DEF HostInv, Types
    <2>2. ~CommitDocument(TRUE)
      BY <1>1, <2>1 DEF CommitDocument, Handle
    <2>3. RollbackDocument
      BY <1>1, <2>2, Ends DEF Moved
    <2>4. layer'[MyDoc] = Aborted /\ txn'[Mine].kept = {} /\ published' = published
      BY <2>1, <2>3 DEF RollbackDocument, Handle
    <2>5. run = NoRun
      BY <1>1, <2>3, Alone DEF RollbackDocument, Within, HostInv, RunSound
    <2>6. job.did \cap published = {}
      BY <1>1 DEF WorkInv, JobApart, Absent
    <2> QED BY <2>4, <2>5, <2>6, NoRunIn DEF Aborted
  <1> HIDE DEF Ended, Undoes
  <1>2. HostInv /\ WorkInv /\ [DocNext]_docVars => [Ended => Undoes]_docVars
    BY <1>1
  <1>3. DocSpec => [][Ended => Undoes]_docVars
    BY <1>2, HostCorrect, WorkCorrect, PTL DEF DocSpec
  <1> QED BY <1>3 DEF DocumentAtomic, Ended, Undoes

(* The types of the host and of its documents, and that the AST stage and  *)
(* the commit of a document see a frozen layer (DocTypeOK;                 *)
(* document.rs:462).                                                       *)
THEOREM TypesCorrect == DocSpec => []DocTypeOK
  <1>1. ASSUME HostInv, WorkInv PROVE DocTypeOK
    <2>1. works \in Nat /\ works =< MaxWork /\ 1..works \subseteq 1..MaxWork
      BY <1>1, HostAssumption DEF HostInv, Types
    <2>2. txn \in [Txn -> [status : {"idle", "open", "committed", "cancelled"}, doc : Doc,
                           revision : 0..MaxRevision, kept : SUBSET (1..MaxWork)]]
      <3>1. \A t \in Txn : txn[t] \in Handle /\ txn[t].kept \in SUBSET (1..MaxWork)
        BY <1>1, <2>1 DEF HostInv, Types, WorkInv, Counted
      <3> QED BY <1>1, <3>1 DEF HostInv, Types, Handle
    <2>3. TypeOK
      BY <1>1, <2>2 DEF HostInv, Types, States, WorkInv, Counted, FailedGone, TypeOK
    <2>4. job \in JobData /\ token \in BOOLEAN /\ (Idle <=> job.txn = {})
          /\ (~Idle => txn[Mine].status = "open")
          /\ (job.stage \in {"ast", "commit"} => layer[MyDoc].frozen)
      BY <1>1 DEF HostInv, JobSound
    <2>5. job.base \cup job.node \cup job.did \subseteq 1..works
      BY <1>1 DEF WorkInv, Counted
    <2> QED BY <2>3, <2>4, <2>5 DEF DocTypeOK, JobData
  <1> QED BY <1>1, HostCorrect, WorkCorrect, PTL
=============================================================================
