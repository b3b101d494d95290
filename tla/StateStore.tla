----------------------------- MODULE StateStore -----------------------------
(***************************************************************************)
(* The transactional StateStore of parser-wasm/src/state/mod.rs, for one   *)
(* project.                                                                *)
(*                                                                         *)
(* A parse of one document revision owns an overlay of writes (its frame); *)
(* a component call owns a second overlay on top of it (an                 *)
(* InvocationTransaction).  A call reads through both overlays down to the *)
(* live committed values, merges into the parse when it is accepted, and   *)
(* the parse publishes its overlay when no namespace it depends on moved.  *)
(* Conflicts are detected through one revision per (scope, namespace), the *)
(* RevisionKey of the code: base is the revision the parse depends on,     *)
(* current the same number advanced by the parse's own accepted writes.    *)
(*                                                                         *)
(* Every operation takes the parse mutex and then the store mutex, so each *)
(* is one atomic action.  A savepoint slot holds the frame of the start of *)
(* the parse until the client takes another one.                           *)
(*                                                                         *)
(* Abstractions: one project (everything is keyed by project first);       *)
(* namespaces are resolved keys, already registered; a value is an element *)
(* of Val with a Weight, standing for its stored size; 64-bit revisions do *)
(* not saturate; parse and call handles are used once, so their number     *)
(* bounds every counter.                                                   *)
(***************************************************************************)
EXTENDS StateData

CONSTANTS
    Call,              \* call handles, records [parse, component, id]
    Slot,              \* places for a savepoint, records [parse, id]
    RollbackDuringCall \* may a client roll back while a call is in progress?

ASSUME CallAssumption == Call \subseteq [parse : Parse, component : Component, id : Nat]
ASSUME SlotAssumption == Slot \subseteq [parse : Parse, id : Nat]
ASSUME DisciplineAssumption == RollbackDuringCall \in BOOLEAN

VARIABLES
    docs,    \* committed document-scope contents, per document and namespace
    shared,  \* committed project and persistent-project contents
    rev,     \* committed revision of every RevKey
    latest,  \* newest revision begun of every document, 0 when none
    status,  \* life cycle of every parse handle
    frame,   \* the rollbackable part of every parse
    mint,    \* next_overlay_revision of every parse, never rolled back
    saves,   \* the savepoints the clients hold
    call     \* the component calls

store == <<docs, shared, rev, latest>>
vars  == <<docs, shared, rev, latest, status, frame, mint, saves, call>>

NoRevs == [rk \in RevKey |-> Unknown]

(* The part of ParseTransactionInner a savepoint captures.  saw is the     *)
(* accepted part of read_write_set.reads, each read with the committed     *)
(* value that lay below the overlays when it was made (a history variable: *)
(* the code keeps only the keys).                                          *)
Frame == [writes  : [RevKey -> [Key -> Cell]],
          base    : [RevKey -> Rev],
          current : [RevKey -> Rev],
          overlay : Nat,
          saw     : SUBSET (RevKey \X Key \X Value)]

NewFrame == [writes |-> NoWrites, base |-> NoRevs, current |-> NoRevs,
             overlay |-> 0, saw |-> {}]

(* An InvocationTransaction.                                               *)
CallState == [state    : {"idle", "live", "merged", "dropped"},
              writes   : [RevKey -> [Key -> Cell]],
              observed : [RevKey -> Rev],
              saw      : SUBSET (RevKey \X Key \X Value)]

NewCall(s) == [state |-> s, writes |-> NoWrites, observed |-> NoRevs, saw |-> {}]

-----------------------------------------------------------------------------
(* Reading through the overlays.                                           *)

Touched(writes) == {rk \in RevKey : rk[1] # "invocation" /\ Touches(writes[rk])}

Committed(doc, rk) == At(docs, shared, doc, rk)

(* Mutant: every access moves the dependency to the newest revision.       *)
LearnAgain(f, rk) ==
    [f EXCEPT !.base[rk] = rev[rk],
              !.current[rk] = IF @ = Unknown THEN rev[rk] ELSE @]

(* ParseTransactionInner::revision: the first access to a namespace makes  *)
(* its committed revision a dependency of the parse, accepted or not.      *)
Learn(f, rk) ==
    IF f.current[rk] # Unknown THEN f
    ELSE [f EXCEPT !.base[rk] = rev[rk], !.current[rk] = rev[rk]]

CanRead(component, ns)  == component \in {Owner[ns]} \cup Readers[ns] \cup Writers[ns]
CanWrite(component, ns) == component \in {Owner[ns]} \cup Writers[ns]

Live(c) == status[c.parse] = "open" /\ call[c].state = "live"

Visible(c, rk) ==
    Patch(Patch(Committed(c.parse.doc, rk), frame[c.parse].writes[rk]),
          call[c].writes[rk])

(* observed_revisions.insert: the newest observation replaces older ones.  *)
Observe(cs, rk, r) == [cs EXCEPT !.observed[rk] = r]

-----------------------------------------------------------------------------
Init ==
    /\ docs = [d \in Doc |-> [n \in Namespace |-> Empty]]
    /\ shared = [rk \in Global |-> Empty]
    /\ rev = [rk \in RevKey |-> 0]
    /\ latest = [d \in Doc |-> 0]
    /\ status = [p \in Parse |-> "idle"]
    /\ frame = [p \in Parse |-> NewFrame]
    /\ mint = [p \in Parse |-> 1]
    /\ saves = [s \in Slot |-> NewFrame]
    /\ call = [c \in Call |-> NewCall("idle")]

(* StateStore::begin_parse *)
Begin(p) ==
    /\ status[p] = "idle"
    /\ status' = [status EXCEPT ![p] = "open"]
    /\ latest' = [latest EXCEPT ![p.doc] = IF @ > p.revision THEN @ ELSE p.revision]
    /\ UNCHANGED <<docs, shared, rev, frame, mint, saves, call>>

(* ParseTransaction::begin_invocation.  Handles are anonymous: they are    *)
(* taken in the order of their ids.                                        *)
Invoke(c) ==
    /\ status[c.parse] = "open"
    /\ call[c].state = "idle"
    /\ \A e \in Call : e.parse = c.parse /\ e.id < c.id => call[e].state # "idle"
    /\ call' = [call EXCEPT ![c] = NewCall("live")]
    /\ UNCHANGED <<store, status, frame, mint, saves>>

(* InvocationTransaction::get (one key) and scan_prefix (a set of keys,    *)
(* whose absent members are a dependency too): the values are read live.   *)
Read(c, rk, keys) ==
    /\ Live(c)
    /\ CanRead(c.component, rk[2])
    /\ LET f == Learn(frame[c.parse], rk) IN
       /\ frame' = [frame EXCEPT ![c.parse] = f]
       /\ call' = [call EXCEPT ![c] =
             [Observe(call[c], rk, f.current[rk]) EXCEPT
                !.saw = @ \cup {<<rk, k, Committed(c.parse.doc, rk)[k]>> : k \in keys}]]
    /\ UNCHANGED <<store, status, mint, saves>>

Get(c, rk, k) == Read(c, rk, {k})
ScanPrefix(c, rk) == Read(c, rk, Key)

(* InvocationTransaction::write, for put (value in Val) and delete (None). *)
(* A write over the quota is refused after the namespace was touched.      *)
(* compare_and_swap is a get and then, if the value is the expected one, a *)
(* write, each under its own lock: two steps.                              *)
Write(c, rk, k, value) ==
    /\ Live(c)
    /\ CanWrite(c.component, rk[2])
    /\ LET f == Learn(frame[c.parse], rk)
           values == [Visible(c, rk) EXCEPT ![k] = value]
       IN  /\ frame' = [frame EXCEPT ![c.parse] = f]
           /\ call' = IF ~Fits(values) THEN call
                      ELSE [call EXCEPT ![c] =
                              [Observe(call[c], rk, f.current[rk]) EXCEPT
                                 !.writes[rk][k] = value]]
    /\ UNCHANGED <<store, status, mint, saves>>

(* InvocationTransaction::merge_into: what it checks ...                   *)
Observes(f, cs) ==
    \A rk \in RevKey :
        \/ cs.observed[rk] = Unknown
        \/ f.current[rk] = Unknown
        \/ f.current[rk] = cs.observed[rk]

WithinQuota(p, writes) ==
    \A rk \in Touched(writes) :
        Fits(Patch(Patch(Committed(p.doc, rk), frame[p].writes[rk]), writes[rk]))

(* Mutant: the overlay number counts the writes of the branch.             *)
NextOverlay(f, next) == f.overlay + 1
OverlayNumber(f, next) == next

(* ... and what it does: the writes join the overlay (invocation-scope     *)
(* ones are dropped), an observation becomes a dependency unless there is  *)
(* one, and each namespace written advances the parse's own revision.      *)
Absorb(f, cs, next) ==
    LET base == [rk \in RevKey |->
                    IF f.base[rk] = Unknown THEN cs.observed[rk] ELSE f.base[rk]]
        known == [rk \in RevKey |->
                    IF f.current[rk] = Unknown THEN cs.observed[rk] ELSE f.current[rk]]
        touched == Touched(cs.writes)
    IN  [writes  |-> [rk \in RevKey |-> [k \in Key |->
                        IF rk \in touched /\ cs.writes[rk][k] # Untouched
                        THEN cs.writes[rk][k] ELSE f.writes[rk][k]]],
         base    |-> base,
         current |-> [rk \in RevKey |->
                        IF rk \notin touched THEN known[rk]
                        ELSE IF known[rk] = Unknown THEN 1 ELSE known[rk] + 1],
         overlay |-> IF touched = {} THEN f.overlay ELSE OverlayNumber(f, next),
         saw     |-> f.saw \cup cs.saw]

(* InvocationTransaction::commit, accepted *)
Merge(c) ==
    /\ Live(c)
    /\ Observes(frame[c.parse], call[c])
    /\ WithinQuota(c.parse, call[c].writes)
    /\ frame' = [frame EXCEPT ![c.parse] = Absorb(@, call[c], mint[c.parse])]
    /\ mint' = [mint EXCEPT ![c.parse] =
                  IF Touched(call[c].writes) = {} THEN @ ELSE @ + 1]
    /\ call' = [call EXCEPT ![c] = NewCall("merged")]
    /\ UNCHANGED <<store, status, saves>>

(* InvocationTransaction::rollback, a drop, or a commit that fails: the    *)
(* handle is consumed and the parse is left alone.                         *)
Discard(c) ==
    /\ call[c].state = "live"
    /\ call' = [call EXCEPT ![c] = NewCall("dropped")]
    /\ UNCHANGED <<store, status, frame, mint, saves>>

Quiescent(p) == \A c \in Call : c.parse = p => call[c].state # "live"

(* ParseTransaction::savepoint *)
Savepoint(s) ==
    /\ status[s.parse] = "open"
    /\ saves' = [saves EXCEPT ![s] = frame[s.parse]]
    /\ UNCHANGED <<store, status, frame, mint, call>>

(* Mutant: a client rolls back under a call in progress.                   *)
RollbackUnderCall(s) ==
    /\ status[s.parse] = "open"
    /\ frame' = [frame EXCEPT ![s.parse] = saves[s]]
    /\ UNCHANGED <<store, status, mint, saves, call>>

(* ParseTransaction::rollback_to.  The parser host only rolls back between *)
(* calls; the API does not insist on it.                                   *)
RollbackTo(s) ==
    /\ status[s.parse] = "open"
    /\ RollbackDuringCall \/ Quiescent(s.parse)
    /\ frame' = [frame EXCEPT ![s.parse] = saves[s]]
    /\ UNCHANGED <<store, status, mint, saves, call>>

(* Mutants: a commit checks only the document, or only the namespaces.     *)
NewestOnly(p) == latest[p.doc] = p.revision
UnmovedOnly(p) ==
    \A rk \in RevKey : rk[1] \in Volatile \/ frame[p].base[rk] \in {Unknown, rev[rk]}

(* ParseTransaction::commit: refused (the parse stays open) unless the     *)
(* document revision is still the newest one begun and no namespace the    *)
(* parse depends on has moved.                                             *)
CommitAllowed(p) ==
    /\ latest[p.doc] = p.revision
    /\ \A rk \in RevKey :
          \/ rk[1] \in Volatile
          \/ frame[p].base[rk] = Unknown
          \/ frame[p].base[rk] = rev[rk]

(* Mutant: a commit also advances the namespaces it only read.             *)
PublishReads(p) ==
    LET w == frame[p].writes IN
    /\ docs' = PatchDocument(docs, p.doc, w)
    /\ shared' = PatchGlobal(shared, w)
    /\ rev' = [rk \in RevKey |->
                 IF rk[1] \in Durable /\ frame[p].base[rk] # Unknown
                 THEN rev[rk] + 1 ELSE rev[rk]]

(* StateStoreInner::commit_writes.  The revision of a document-scope       *)
(* namespace is shared by all documents.                                   *)
Publish(p) ==
    LET w == frame[p].writes IN
    /\ docs' = PatchDocument(docs, p.doc, w)
    /\ shared' = PatchGlobal(shared, w)
    /\ rev' = [rk \in RevKey |->
                 IF rk[1] \in Durable /\ Touches(w[rk]) THEN rev[rk] + 1 ELSE rev[rk]]

Commit(p) ==
    /\ status[p] = "open"
    /\ CommitAllowed(p)
    /\ Publish(p)
    /\ status' = [status EXCEPT ![p] = "committed"]
    /\ UNCHANGED <<latest, frame, mint, saves, call>>

(* ParseTransaction::cancel *)
Cancel(p) ==
    /\ status[p] = "open"
    /\ status' = [status EXCEPT ![p] = "cancelled"]
    /\ frame' = [frame EXCEPT ![p].writes = NoWrites]
    /\ UNCHANGED <<store, mint, saves, call>>

CallStep(c) ==
    \/ Invoke(c)
    \/ \E rk \in RevKey, k \in Key : Get(c, rk, k)
    \/ \E rk \in RevKey : ScanPrefix(c, rk)
    \/ \E rk \in RevKey, k \in Key, v \in Value : Write(c, rk, k, v)
    \/ Merge(c)
    \/ Discard(c)

Next ==
    \/ \E p \in Parse : Begin(p) \/ Commit(p) \/ Cancel(p)
    \/ \E s \in Slot : Savepoint(s) \/ RollbackTo(s)
    \/ \E c \in Call : CallStep(c)

Spec == Init /\ [][Next]_vars

-----------------------------------------------------------------------------
TypeOK ==
    /\ docs \in [Doc -> [Namespace -> [Key -> Value]]]
    /\ shared \in [Global -> [Key -> Value]]
    /\ rev \in [RevKey -> Nat]
    /\ latest \in [Doc -> Nat]
    /\ status \in [Parse -> Status]
    /\ frame \in [Parse -> Frame]
    /\ mint \in [Parse -> Nat]
    /\ saves \in [Slot -> Frame]
    /\ call \in [Call -> CallState]

-----------------------------------------------------------------------------
(* The namespaces a document revision may publish to never exceed their    *)
(* quota, although the quota is checked when a call merges and not when    *)
(* the parse commits: two parses that fit alone may not fit together.      *)
QuotaRespected ==
    /\ \A d \in Doc, n \in Namespace : Fits(docs[d][n])
    /\ \A rk \in Global : Fits(shared[rk])

(* What a frame knows about the store.  A read it kept, and the quota of a *)
(* namespace it writes, were established at the base revision: they still  *)
(* hold of the committed contents unless the revision has moved since.     *)
BaseKnown(f) ==
    \A rk \in RevKey :
        /\ f.base[rk] = Unknown <=> f.current[rk] = Unknown
        /\ f.base[rk] # Unknown => f.base[rk] <= rev[rk]

ReadsSound(doc, base, saw) ==
    \A r \in saw :
        /\ base[r[1]] # Unknown
        /\ base[r[1]] = rev[r[1]] => Committed(doc, r[1])[r[2]] = r[3]

WritesSound(doc, f) ==
    \A rk \in RevKey : Touches(f.writes[rk]) =>
        /\ f.base[rk] # Unknown
        /\ f.base[rk] = rev[rk] => Fits(Patch(Committed(doc, rk), f.writes[rk]))

FrameSound(doc, f) ==
    /\ BaseKnown(f)
    /\ ReadsSound(doc, f.base, f.saw)
    /\ WritesSound(doc, f)

(* A live call leans on its parse: whatever it observed is a dependency of *)
(* the parse, because nobody rolls the parse back underneath it.           *)
CallSound(c) ==
    LET base == frame[c.parse].base IN
    /\ \A rk \in RevKey :
          /\ Touches(call[c].writes[rk]) => call[c].observed[rk] # Unknown
          /\ call[c].observed[rk] # Unknown => base[rk] # Unknown
    /\ ReadsSound(c.parse.doc, base, call[c].saw)

(* The inductive invariant behind serializability and the quota: while its *)
(* base revision is the committed one, everything a parse, a savepoint or  *)
(* a live call derived from a namespace is still true of it.               *)
DependenciesSound ==
    /\ \A p \in Parse : FrameSound(p.doc, frame[p])
    /\ \A s \in Slot : FrameSound(s.parse.doc, saves[s])
    /\ \A c \in Call : call[c].state = "live" => CallSound(c)

(* A dependency of an open parse goes stale, and its commit is refused as  *)
(* a conflict, only because another parse committed a write to that very   *)
(* namespace: never because of the parse's own calls, discarded ones or    *)
(* candidates it rolled back.                                              *)
ConflictHasCause ==
    \A p \in Parse, rk \in RevKey :
        status[p] = "open" /\ frame[p].base[rk] \notin {Unknown, rev[rk]}
            => \E q \in Parse \ {p} :
                  status[q] = "committed" /\ Touches(frame[q].writes[rk])

(* A document is never overwritten by an older revision of itself: parses  *)
(* of one document commit in revision order, and none commits once a newer *)
(* revision was begun.                                                     *)
NewerRevisionWins ==
    [][\A p, q \in Parse :
         /\ status[p] = "open" /\ status'[p] = "committed"
         /\ q.doc = p.doc /\ q.revision > p.revision
         => status[q] = "idle"]_vars

(* Committed parses are serializable: every step is a step of the store    *)
(* without overlays, where a commit checks the reads themselves.           *)
Serial == INSTANCE SerialStore WITH
    pending <- [p \in Parse |-> frame[p].writes],
    saw <- [p \in Parse |-> frame[p].saw]
Serializable == Serial!Spec
=============================================================================
