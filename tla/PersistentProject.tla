------------------------- MODULE PersistentProject --------------------------
(***************************************************************************)
(* The persistent-project scope of the StateStore, across crashes and      *)
(* restarts (parser-wasm/src/state/persistent.rs, and the part of          *)
(* parser-wasm/src/state/mod.rs that opens and commits to it).             *)
(*                                                                         *)
(* A project has a database on disk and, once some parse has touched the   *)
(* scope, a copy of it in memory.  Three places know the revision of a     *)
(* namespace: its metadata on disk, the copy, and the table of revisions   *)
(* that commits are checked against.  Namespaces are declared by the       *)
(* components loaded after every start, before or after the copy is made,  *)
(* possibly under another schema: its contents are then reset.             *)
(*                                                                         *)
(* Abstractions: a database transaction is atomic (redb, external); calls  *)
(* and overlays are those of StateStore, so a parse accesses a namespace   *)
(* and stages its writes directly; quotas are left out.                    *)
(***************************************************************************)
EXTENDS Integers, FiniteSets

CONSTANTS
    Project,    \* projects, integers: the order of the map of projects
    Namespace,  \* namespace keys
    Schema,     \* the schemas of their declarations, records [id, version]
    Key, Val,
    None,       \* no value, no metadata, no declaration
    Untouched,  \* no write
    Parse,      \* parse handles, records [project, id]
    MaxCrash,   \* bound: crashes of the server
    MaxFault    \* bound: registrations that fail

(* A value carries the schema it was written under: the id is stored with  *)
(* it, the version is a history of the model.  Metadata of a namespace is  *)
(* its schema and its revision, or None.                                   *)
Unknown == -1
Stored  == [value : Val, schema : Schema]
Meta    == [schema : Schema, revision : Nat]

ASSUME ProjectAssumption ==
    /\ Project \subseteq Int
    /\ Parse \subseteq [project : Project, id : Nat]
    /\ MaxCrash \in Nat /\ MaxFault \in Nat
    /\ None \notin Val /\ Untouched \notin Val \cup {None}
    /\ None \notin Schema /\ None \notin Stored /\ None \notin Meta

VARIABLES
    disk,      \* the database of every project: values and metadata
    declared,  \* registry records: the schema of every declared namespace
    opened,    \* the projects with a copy in memory
    cache,     \* the copy: values and revisions
    revisions, \* ProjectState::revisions, 0 when there is no entry
    parse,     \* the parses: status, dependencies, reads, writes
    damaged,   \* history: the projects whose copy could not be reloaded
    suspect,   \* history: those that ever were since the server started
    crashes,
    faults

bounds == <<crashes, faults>>
memory == <<declared, opened, cache, revisions, parse, damaged, suspect>>
vars   == <<disk, memory, bounds>>

NoValues == [n \in Namespace |-> [k \in Key |-> None]]
NoCopy   == [values |-> NoValues, revisions |-> [n \in Namespace |-> Unknown]]
NewParse == [status |-> "open", base |-> [n \in Namespace |-> Unknown],
             writes |-> [n \in Namespace |-> [k \in Key |-> Untouched]],
             saw |-> {}]
Closed   == [NewParse EXCEPT !.status = "closed"]

Init ==
    /\ disk = [p \in Project |->
                 [values |-> NoValues, meta |-> [n \in Namespace |-> None]]]
    /\ declared = [n \in Namespace |-> None]
    /\ opened = {}
    /\ cache = [p \in Project |-> NoCopy]
    /\ revisions = [p \in Project |-> [n \in Namespace |-> 0]]
    /\ parse = [t \in Parse |-> NewParse]
    /\ damaged = {} /\ suspect = {}
    /\ crashes = 0 /\ faults = 0

-----------------------------------------------------------------------------
(* PersistentProject::synchronize, on the database ...                     *)

(* Mutant: the version of a schema is not compared.                        *)
OtherId(meta, schema) == meta # None /\ meta.schema.id # schema.id
Changed(meta, schema) == meta # None /\ meta.schema # schema

(* Mutant: a change of one schema resets the database.                     *)
ResetAll(db, records, n) ==
    \E m \in Namespace : records[m] # None /\ Changed(db.meta[m], records[m])
Reset(db, records, n) == records[n] # None /\ Changed(db.meta[n], records[n])

(* Mutant: metadata is written only for new namespaces.                    *)
SynchronizedOnce(db, records) ==
    [values |-> [n \in Namespace |->
                   IF Reset(db, records, n) THEN NoValues[n] ELSE db.values[n]],
     meta   |-> [n \in Namespace |->
                   IF records[n] = None \/ db.meta[n] # None THEN db.meta[n]
                   ELSE [schema |-> records[n], revision |-> 0]]]

Synchronized(db, records) ==
    [values |-> [n \in Namespace |->
                   IF Reset(db, records, n) THEN NoValues[n] ELSE db.values[n]],
     meta   |-> [n \in Namespace |->
                   IF records[n] = None THEN db.meta[n]
                   ELSE [schema   |-> records[n],
                         revision |-> IF db.meta[n] = None THEN 0
                                      ELSE IF Changed(db.meta[n], records[n])
                                      THEN db.meta[n].revision + 1
                                      ELSE db.meta[n].revision]]]

(* ... and PersistentProject::reload.  A value of another schema id is     *)
(* skipped; its version is not stored with it.                             *)
Loaded(db, records) ==
    [values |-> [n \in Namespace |-> [k \in Key |->
                   IF /\ records[n] # None /\ db.values[n][k] # None
                      /\ db.values[n][k].schema.id = records[n].id
                   THEN db.values[n][k] ELSE None]],
     revisions |-> [n \in Namespace |->
                   IF /\ records[n] # None /\ db.meta[n] # None
                      /\ db.meta[n].schema = records[n]
                   THEN db.meta[n].revision ELSE Unknown]]

(* A reload that fails has cleared the copy and read a part of it.         *)
PartlyLoaded(copy, haveRevisions, read) ==
    [values |-> [n \in Namespace |-> [k \in Key |->
                   IF <<n, k>> \in read THEN copy.values[n][k] ELSE None]],
     revisions |-> IF haveRevisions THEN copy.revisions ELSE NoCopy.revisions]

-----------------------------------------------------------------------------
(* StateStore::register_component, for one namespace: every project in     *)
(* memory is synchronized with the new declaration, then it is published.  *)
Register(n, schema) ==
    LET records == [declared EXCEPT ![n] = schema] IN
    /\ declared[n] = None
    /\ declared' = records
    /\ disk' = [p \in Project |->
                  IF p \in opened THEN Synchronized(disk[p], records) ELSE disk[p]]
    /\ cache' = [p \in Project |->
                  IF p \in opened THEN Loaded(disk'[p], records) ELSE cache[p]]
    /\ damaged' = damaged \ opened
    /\ UNCHANGED <<opened, revisions, parse, suspect, bounds>>

(* It fails at project q: the projects before q are synchronized already.  *)
(* Either the transaction of q failed, or what is read after it.           *)
RegisterFails(n, schema, q, synchronized, haveRevisions, read) ==
    LET records == [declared EXCEPT ![n] = schema]
        done == {p \in opened : p < q} \cup (IF synchronized THEN {q} ELSE {})
    IN
    /\ declared[n] = None
    /\ q \in opened /\ faults < MaxFault
    /\ faults' = faults + 1
    /\ synchronized \/ ~haveRevisions
    /\ haveRevisions \/ read = {}
    /\ disk' = [p \in Project |->
                  IF p \in done THEN Synchronized(disk[p], records) ELSE disk[p]]
    /\ cache' = [p \in Project |->
                  IF p \notin done THEN cache[p]
                  ELSE IF p < q THEN Loaded(disk'[p], records)
                  ELSE PartlyLoaded(Loaded(disk'[p], records), haveRevisions, read)]
    /\ damaged' = (damaged \ {p \in done : p < q})
                     \cup (IF synchronized THEN {q} ELSE {})
    /\ suspect' = suspect \cup damaged'
    /\ UNCHANGED <<declared, opened, revisions, parse, crashes>>

(* StateStoreInner::ensure_persistent, on the first access to the scope.   *)
Open(q) ==
    /\ q \notin opened
    /\ opened' = opened \cup {q}
    /\ disk' = [disk EXCEPT ![q] = Synchronized(@, declared)]
    /\ cache' = [cache EXCEPT ![q] = Loaded(disk'[q], declared)]
    /\ revisions' = [revisions EXCEPT ![q] = [n \in Namespace |->
                       IF cache'[q].revisions[n] = Unknown THEN @[n]
                       ELSE cache'[q].revisions[n]]]
    /\ UNCHANGED <<declared, parse, damaged, suspect, bounds>>

(* The database is synchronized but cannot be read: there is no copy.      *)
OpenFails(q) ==
    /\ q \notin opened
    /\ disk' = [disk EXCEPT ![q] = Synchronized(@, declared)]
    /\ UNCHANGED <<memory, bounds>>

-----------------------------------------------------------------------------
Learn(t, n) ==
    [parse[t] EXCEPT !.base[n] = IF @ = Unknown THEN revisions[t.project][n] ELSE @]

(* Handles are anonymous: they are taken in the order of their ids.        *)
Started(t) == parse[t] # NewParse

Usable(t, n) ==
    /\ parse[t].status = "open"
    /\ \A u \in Parse : u.project = t.project /\ u.id < t.id => Started(u)
    /\ declared[n] # None /\ t.project \in opened

(* A call of the parse read all keys of the namespace.                     *)
Read(t, n) ==
    /\ Usable(t, n)
    /\ parse' = [parse EXCEPT ![t] =
          [Learn(t, n) EXCEPT
             !.saw = @ \cup {<<n, k, cache[t.project].values[n][k]>> : k \in Key}]]
    /\ UNCHANGED <<disk, declared, opened, cache, revisions, damaged, suspect, bounds>>

(* A call of the parse put or deleted a value, and was accepted.           *)
Write(t, n, k, v) ==
    /\ Usable(t, n)
    /\ parse' = [parse EXCEPT ![t] = [Learn(t, n) EXCEPT !.writes[n][k] = v]]
    /\ UNCHANGED <<disk, declared, opened, cache, revisions, damaged, suspect, bounds>>

TouchedBy(t) == {n \in Namespace : \E k \in Key : parse[t].writes[n][k] # Untouched}

Unmoved(t) ==
    \A n \in Namespace : parse[t].base[n] \in {Unknown, revisions[t.project][n]}

(* apply_overlay *)
Overlaid(values, t) ==
    [n \in Namespace |-> [k \in Key |->
       CASE parse[t].writes[n][k] = Untouched -> values[n][k]
         [] parse[t].writes[n][k] = None      -> None
         [] OTHER -> [value |-> parse[t].writes[n][k], schema |-> declared[n]]]]

(* The next revision counts from the copy: a missing one counts from zero. *)
NextRevision(q, n) ==
    IF cache[q].revisions[n] = Unknown THEN 1 ELSE cache[q].revisions[n] + 1

(* PersistentProject::commit: one database transaction ...                 *)
Persist(t) ==
    /\ parse[t].status = "open"
    /\ Unmoved(t)
    /\ TouchedBy(t) # {}
    /\ disk' = [disk EXCEPT ![t.project] =
          [values |-> Overlaid(@.values, t),
           meta   |-> [n \in Namespace |->
                         IF n \notin TouchedBy(t) THEN @.meta[n]
                         ELSE [schema |-> declared[n],
                               revision |-> NextRevision(t.project, n)]]]]

(* Mutant: the table of revisions does not follow the copy.                *)
SameTable(q, t) == revisions[q]
(* StateStoreInner::commit_writes on ProjectState::revisions               *)
NewTable(q, t) ==
    [n \in Namespace |-> IF n \in TouchedBy(t) THEN NextRevision(q, n)
                         ELSE revisions[q][n]]

(* ... then the copy and the table of revisions follow.  The store is      *)
(* locked all along: only a crash can come in between.                     *)
Commit(t) ==
    /\ Persist(t)
    /\ cache' = [cache EXCEPT ![t.project] =
          [values    |-> Overlaid(@.values, t),
           revisions |-> [n \in Namespace |->
                            IF n \in TouchedBy(t) THEN NextRevision(t.project, n)
                            ELSE @.revisions[n]]]]
    /\ revisions' = [revisions EXCEPT ![t.project] = NewTable(t.project, t)]
    /\ parse' = [parse EXCEPT ![t] = Closed]
    /\ UNCHANGED <<declared, opened, damaged, suspect, bounds>>

(* The server dies and is started again: memory is lost.                   *)
Restart ==
    /\ crashes < MaxCrash
    /\ crashes' = crashes + 1 /\ UNCHANGED faults
    /\ declared' = [n \in Namespace |-> None]
    /\ opened' = {}
    /\ cache' = [p \in Project |-> NoCopy]
    /\ revisions' = [p \in Project |-> [n \in Namespace |-> 0]]
    /\ parse' = [t \in Parse |->
          IF Started(t) THEN Closed ELSE NewParse]
    /\ damaged' = {} /\ suspect' = {}

Crash == Restart /\ UNCHANGED disk
CrashInCommit(t) == Persist(t) /\ Restart

(* ParseTransaction::cancel.  A commit without writes closes the parse the *)
(* same way; one that fails leaves everything as it was, the parse open.   *)
Cancel(t) ==
    /\ parse[t].status = "open" /\ Started(t)
    /\ parse' = [parse EXCEPT ![t] = Closed]
    /\ UNCHANGED <<disk, declared, opened, cache, revisions, damaged, suspect, bounds>>

Registering ==
    \E n \in Namespace, schema \in Schema :
        \/ Register(n, schema)
        \/ \E q \in Project, b, c \in BOOLEAN, read \in SUBSET (Namespace \X Key) :
              RegisterFails(n, schema, q, b, c, read)

Next ==
    \/ Registering
    \/ \E q \in Project : Open(q) \/ OpenFails(q)
    \/ \E t \in Parse, n \in Namespace : Read(t, n)
    \/ \E t \in Parse, n \in Namespace, k \in Key, v \in Val \cup {None} :
          Write(t, n, k, v)
    \/ \E t \in Parse : Commit(t) \/ CrashInCommit(t) \/ Cancel(t)
    \/ Crash

Spec == Init /\ [][Next]_vars

-----------------------------------------------------------------------------
(* The copy agrees with the database on every declared namespace, whatever *)
(* was declared before or after it was made, committed, or half declared:  *)
(* only a reload that failed leaves it behind.                             *)
CacheCoherent ==
    \A q \in opened \ damaged, n \in Namespace : declared[n] # None =>
        /\ disk[q].meta[n] # None
        /\ disk[q].meta[n].schema = declared[n]
        /\ cache[q].revisions[n] = disk[q].meta[n].revision
        /\ cache[q].values[n] = disk[q].values[n]

(* A component reads a value only under the schema it was written under.   *)
SchemaIsolated ==
    \A q \in opened, n \in Namespace, k \in Key :
        declared[n] # None /\ cache[q].values[n][k] # None
            => cache[q].values[n][k].schema = declared[n]

(* While the revision a parse depends on is the one commits are checked    *)
(* against, what the parse read is still what the copy holds, unless a     *)
(* reload failed since the server started.                                 *)
ReadsCurrent ==
    \A t \in Parse : parse[t].status = "open" /\ t.project \notin suspect =>
        \A r \in parse[t].saw :
            parse[t].base[r[1]] = revisions[t.project][r[1]]
                => cache[t.project].values[r[1]][r[2]] = r[3]

(* The contents of a namespace on disk change only when a parse that wrote *)
(* it commits, or when a component declares it under another schema than   *)
(* the stored one (reset, never reinterpreted); undeclared namespaces stay.*)
ContentsChange ==
    [][\A q \in Project, n \in Namespace :
         disk'[q].values[n] # disk[q].values[n] =>
            \/ \E t \in Parse : /\ t.project = q /\ parse[t].status = "open"
                                /\ parse'[t].status = "closed" /\ n \in TouchedBy(t)
            \/ /\ disk'[q].meta[n].schema # disk[q].meta[n].schema
               /\ disk'[q].values[n] = NoValues[n]]_vars

(* A parse commits only when no conflict occurred (parser-wasm/README.md):  *)
(* a value it read and depends on is still there.  A reload that fails     *)
(* forgets the revisions, the next commit counts from one again, and a     *)
(* conflict goes unnoticed.                                                *)
ConflictsDetected ==
    [][\A t \in Parse : Commit(t) =>
         \A r \in parse[t].saw :
            r[3] # None => disk[t.project].values[r[1]][r[2]] = r[3]]_vars
=============================================================================
