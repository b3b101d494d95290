-------------------------- MODULE PersistentProofs --------------------------
(***************************************************************************)
(* Proofs about PersistentProject: the copy of a project in memory, the    *)
(* database and what parses read of it stay in step across declarations,   *)
(* commits, faults and restarts, for all values of the constants.          *)
(***************************************************************************)
EXTENDS PersistentProject, TLAPS

Contents  == [Namespace -> [Key -> Stored \cup {None}]]
Databases == [values : Contents, meta : [Namespace -> Meta \cup {None}]]
Copies    == [values : Contents, revisions : [Namespace -> Nat \cup {Unknown}]]
Records   == [Namespace -> Schema \cup {None}]
Parses    == [status : {"open", "closed"}, base : [Namespace -> Nat \cup {Unknown}],
              writes : [Namespace -> [Key -> Val \cup {None, Untouched}]],
              saw : SUBSET (Namespace \X Key \X (Stored \cup {None}))]

Types ==
    /\ disk \in [Project -> Databases]
    /\ declared \in Records
    /\ damaged \subseteq opened /\ damaged \subseteq suspect /\ opened \subseteq Project
    /\ cache \in [Project -> Copies]
    /\ revisions \in [Project -> [Namespace -> Nat]]
    /\ parse \in [Parse -> Parses]

(* A database holds values only under the schema its metadata names.       *)
Tagged(db) ==
    \A n \in Namespace, k \in Key : db.values[n][k] # None =>
        /\ db.meta[n] # None
        /\ db.values[n][k].schema = db.meta[n].schema

(* Its metadata names the declared schemas ...                             *)
InStep(db, records) ==
    \A n \in Namespace : records[n] # None =>
        /\ db.meta[n] # None
        /\ db.meta[n].schema = records[n]

(* ... a copy has the same revisions and values ...                        *)
Mirrors(copy, db, records) ==
    \A n \in Namespace : records[n] # None =>
        /\ copy.revisions[n] = db.meta[n].revision
        /\ copy.values[n] = db.values[n]

(* ... and values under the declared schemas only.                         *)
Isolated(copy, records) ==
    \A n \in Namespace, k \in Key : records[n] # None /\ copy.values[n][k] # None
        => copy.values[n][k].schema = records[n]

Databased ==
    /\ \A q \in Project : Tagged(disk[q])
    /\ \A q \in opened : InStep(disk[q], declared)
Copied ==
    /\ \A q \in opened : Isolated(cache[q], declared)
    /\ \A q \in opened \ damaged : Mirrors(cache[q], disk[q], declared)

(* What a parse uses is declared and in memory.                            *)
Grounded ==
    \A t \in Parse, n \in Namespace :
        n \in TouchedBy(t) \/ parse[t].base[n] # Unknown
            => declared[n] # None /\ t.project \in opened
Remembered == \A t \in Parse : \A r \in parse[t].saw : parse[t].base[r[1]] # Unknown

(* Until a reload fails, the table follows the copy and parses the table.  *)
Unused == \A q \in Project, n \in Namespace :
    q \notin opened \/ declared[n] = None => revisions[q][n] = 0
Followed ==
    /\ \A q \in opened \ suspect, n \in Namespace :
          declared[n] # None => revisions[q][n] =< cache[q].revisions[n]
    /\ \A t \in Parse, n \in Namespace :
          t.project \notin suspect /\ parse[t].base[n] # Unknown
              => parse[t].base[n] =< revisions[t.project][n]

Sound == Types /\ Databased /\ Copied /\ Grounded /\ Remembered /\ Unused /\ Followed

-----------------------------------------------------------------------------
(* Operators on databases.                                                 *)

LEMMA SynchronizedType ==
    ASSUME NEW db \in Databases, NEW records \in Records
    PROVE  Synchronized(db, records) \in Databases
  <1>1. \A n \in Namespace : db.meta[n] # None => db.meta[n].revision \in Nat
    BY DEF Databases, Meta
  <1>2. ASSUME NEW n \in Namespace
        PROVE  Synchronized(db, records).meta[n] \in Meta \cup {None}
    BY <1>1 DEF Synchronized, Changed, Records, Meta, Databases
  <1>3. ASSUME NEW n \in Namespace
        PROVE  Synchronized(db, records).values[n] \in [Key -> Stored \cup {None}]
    BY DEF Synchronized, NoValues, Databases, Contents
  <1> QED
    BY <1>2, <1>3 DEF Synchronized, Databases, Contents

(* A namespace that changes its schema is reset; no other one changes.     *)
LEMMA SynchronizedOne ==
    ASSUME NEW db \in Databases, NEW records \in Records, NEW n \in Namespace
    PROVE  LET new == Synchronized(db, records) IN
           /\ records[n] # None => new.meta[n] # None /\ new.meta[n].schema = records[n]
           /\ records[n] = None => new.meta[n] = db.meta[n]
           /\ Reset(db, records, n) => new.values[n] = NoValues[n]
           /\ ~Reset(db, records, n) => new.values[n] = db.values[n]
           /\ records[n] # None /\ db.meta[n] # None /\ db.meta[n].schema = records[n]
                 => new.meta[n] = db.meta[n] /\ new.values[n] = db.values[n]
  <1>1. records[n] # None => records[n] \in Schema
    BY DEF Records
  <1>2. db.meta[n] # None => db.meta[n] \in Meta
    BY DEF Databases
  <1>3. Synchronized(db, records).values[n] =
           IF Reset(db, records, n) THEN NoValues[n] ELSE db.values[n]
    BY DEF Synchronized
  <1>4. Synchronized(db, records).meta[n] =
           IF records[n] = None THEN db.meta[n]
           ELSE [schema   |-> records[n],
                 revision |-> IF db.meta[n] = None THEN 0
                              ELSE IF Changed(db.meta[n], records[n])
                              THEN db.meta[n].revision + 1
                              ELSE db.meta[n].revision]
    BY DEF Synchronized
  <1>5. Synchronized(db, records).meta[n] \in Meta \cup {None}
    BY SynchronizedType DEF Databases
  <1>6. records[n] # None => Synchronized(db, records).meta[n] \in Meta
    <2> SUFFICES ASSUME records[n] # None PROVE Synchronized(db, records).meta[n] \in Meta
      OBVIOUS
    <2>1. db.meta[n] # None => db.meta[n].revision \in Nat
      BY <1>2 DEF Meta
    <2> QED BY <1>1, <1>4, <2>1 DEF Meta
  <1>7. records[n] # None /\ db.meta[n] # None /\ db.meta[n].schema = records[n]
           => Synchronized(db, records).meta[n] = db.meta[n]
    BY <1>2, <1>4 DEF Changed, Meta
  <1> QED
    BY <1>3, <1>4, <1>6, <1>7, ProjectAssumption DEF Reset, Changed

LEMMA SynchronizedInStep ==
    ASSUME NEW db \in Databases, NEW records \in Records, Tagged(db)
    PROVE  /\ Tagged(Synchronized(db, records))
           /\ InStep(Synchronized(db, records), records)
  <1> DEFINE new == Synchronized(db, records)
  <1> HIDE DEF new
  <1>1. InStep(new, records)
    BY SynchronizedOne DEF InStep, new
  <1>2. ASSUME NEW n \in Namespace, NEW k \in Key, new.values[n][k] # None
        PROVE  new.meta[n] # None /\ new.values[n][k].schema = new.meta[n].schema
    <2>1. ~Reset(db, records, n)
      BY <1>2, SynchronizedOne DEF NoValues, new
    <2>2. new.values[n] = db.values[n]
      BY <2>1, SynchronizedOne DEF new
    <2>3. db.meta[n] # None /\ db.values[n][k].schema = db.meta[n].schema
      BY <1>2, <2>2 DEF Tagged
    <2>4. CASE records[n] = None
      BY <2>2, <2>3, <2>4, SynchronizedOne DEF new
    <2>5. CASE records[n] # None
      <3>1. db.meta[n].schema = records[n]
        BY <2>1, <2>3, <2>5 DEF Reset, Changed
      <3> QED BY <2>2, <2>3, <2>5, <3>1, SynchronizedOne DEF new
    <2> QED BY <2>4, <2>5
  <1> QED BY <1>1, <1>2 DEF Tagged, new

LEMMA LoadedType ==
    ASSUME NEW db \in Databases, NEW records \in Records
    PROVE  Loaded(db, records) \in Copies
  <1>1. \A n \in Namespace : db.meta[n] # None => db.meta[n].revision \in Nat
    BY DEF Databases, Meta
  <1>2. Loaded(db, records).revisions \in [Namespace -> Nat \cup {Unknown}]
    BY <1>1 DEF Loaded
  <1>3. \A n \in Namespace, k \in Key : db.values[n][k] \in Stored \cup {None}
    BY DEF Databases, Contents
  <1>4. Loaded(db, records).values \in Contents
    BY <1>3 DEF Loaded, Contents
  <1> QED BY <1>2, <1>4 DEF Loaded, Copies

(* A copy that was loaded mirrors its database.                            *)
LEMMA LoadedMirrors ==
    ASSUME NEW db \in Databases, NEW records \in Records, Tagged(db), InStep(db, records)
    PROVE  /\ Mirrors(Loaded(db, records), db, records)
           /\ Isolated(Loaded(db, records), records)
           /\ \A n \in Namespace : Loaded(db, records).revisions[n] = Unknown => records[n] = None
  <1>1. ASSUME NEW n \in Namespace, records[n] # None, NEW k \in Key
        PROVE  Loaded(db, records).values[n][k] = db.values[n][k]
    BY <1>1 DEF Loaded, Tagged, InStep
  <1>2. ASSUME NEW n \in Namespace, records[n] # None
        PROVE  Loaded(db, records).values[n] = db.values[n]
    <2>1. Loaded(db, records).values[n] \in [Key -> Stored \cup {None}]
      BY LoadedType DEF Copies, Contents
    <2>2. db.values[n] \in [Key -> Stored \cup {None}]
      BY DEF Databases, Contents
    <2> QED BY <1>1, <1>2, <2>1, <2>2
  <1>3. ASSUME NEW n \in Namespace, records[n] # None
        PROVE  /\ Loaded(db, records).revisions[n] = db.meta[n].revision
               /\ db.meta[n].revision \in Nat
    BY <1>3 DEF Loaded, InStep, Databases, Meta
  <1>4. Mirrors(Loaded(db, records), db, records)
    BY <1>2, <1>3 DEF Mirrors
  <1>5. Isolated(Loaded(db, records), records)
    BY <1>1 DEF Isolated, Tagged, InStep
  <1> QED BY <1>3, <1>4, <1>5 DEF Unknown

LEMMA PartlyLoadedType ==
    ASSUME NEW copy \in Copies, NEW records \in Records, Isolated(copy, records),
           NEW b \in BOOLEAN, NEW read
    PROVE  /\ PartlyLoaded(copy, b, read) \in Copies
           /\ Isolated(PartlyLoaded(copy, b, read), records)
  <1>1. \A n \in Namespace, k \in Key :
           /\ copy.values[n][k] \in Stored \cup {None}
           /\ PartlyLoaded(copy, b, read).values[n][k] \in {copy.values[n][k], None}
    BY DEF PartlyLoaded, Copies, Contents
  <1>2. PartlyLoaded(copy, b, read).values \in Contents
    BY <1>1 DEF PartlyLoaded, Contents
  <1>3. PartlyLoaded(copy, b, read).revisions \in [Namespace -> Nat \cup {Unknown}]
    BY DEF PartlyLoaded, NoCopy, Copies
  <1>4. Isolated(PartlyLoaded(copy, b, read), records)
    BY <1>1 DEF Isolated
  <1> QED BY <1>2, <1>3, <1>4 DEF PartlyLoaded, Copies

-----------------------------------------------------------------------------
(* What a declaration does to every project, whether it fails or not: it   *)
(* is left alone, loaded anew, or loaded in part.                          *)
Skipped(p) ==
    /\ disk'[p] = disk[p] /\ cache'[p] = cache[p]
    /\ p \in damaged' <=> p \in damaged
    /\ p \in opened => declared' = declared
Renewed(p, records) ==
    /\ p \in opened /\ p \notin damaged'
    /\ disk'[p] = Synchronized(disk[p], records)
    /\ cache'[p] = Loaded(disk'[p], records)
Broken(p, records) ==
    /\ p \in opened /\ p \in damaged'
    /\ disk'[p] = Synchronized(disk[p], records)
    /\ declared' = declared
    /\ \E b \in BOOLEAN, read \in SUBSET (Namespace \X Key) :
          cache'[p] = PartlyLoaded(Loaded(disk'[p], records), b, read)

Reloads(records) ==
    /\ records \in Records /\ declared' \in {declared, records}
    /\ \A n \in Namespace : declared[n] # None => records[n] = declared[n]
    /\ UNCHANGED <<opened, revisions, parse>>
    /\ DOMAIN disk' = Project /\ DOMAIN cache' = Project
    /\ disk' = [p \in Project |-> disk'[p]] /\ cache' = [p \in Project |-> cache'[p]]
    /\ damaged' \subseteq opened /\ damaged' \subseteq suspect' /\ suspect \subseteq suspect'
    /\ \A p \in Project : Skipped(p) \/ Renewed(p, records) \/ Broken(p, records)

LEMMA RegisterReloads ==
    ASSUME Sound, NEW n \in Namespace, NEW schema \in Schema, Register(n, schema)
    PROVE  Reloads([declared EXCEPT ![n] = schema])
  <1> DEFINE records == [declared EXCEPT ![n] = schema]
  <1>1. /\ records \in Records
        /\ \A m \in Namespace : declared[m] # None => records[m] = declared[m]
    BY DEF Sound, Types, Records, Register
  <1> HIDE DEF records
  <1>2. /\ disk' = [p \in Project |->
                      IF p \in opened THEN Synchronized(disk[p], records) ELSE disk[p]]
        /\ cache' = [p \in Project |->
                       IF p \in opened THEN Loaded(disk'[p], records) ELSE cache[p]]
        /\ declared' = records /\ damaged' = damaged \ opened
        /\ UNCHANGED <<opened, revisions, parse, suspect>>
    BY DEF Register, records
  <1>3. damaged \subseteq opened
    BY DEF Sound, Types
  <1>4. ASSUME NEW p \in Project PROVE Skipped(p) \/ Renewed(p, records)
    BY <1>2, <1>3 DEF Skipped, Renewed
  <1>5. damaged' = {}
    BY <1>2, <1>3
  <1> QED
    BY <1>1, <1>2, <1>4, <1>5 DEF Reloads, records

LEMMA RegisterFailsReloads ==
    ASSUME Sound, NEW n \in Namespace, NEW schema \in Schema, NEW q \in Project,
           NEW b \in BOOLEAN, NEW c \in BOOLEAN, NEW read \in SUBSET (Namespace \X Key),
           RegisterFails(n, schema, q, b, c, read)
    PROVE  Reloads([declared EXCEPT ![n] = schema])
  <1> DEFINE records == [declared EXCEPT ![n] = schema]
             done == {p \in opened : p < q} \cup (IF b THEN {q} ELSE {})
  <1>1. /\ records \in Records
        /\ \A m \in Namespace : declared[m] # None => records[m] = declared[m]
    BY DEF Sound, Types, Records, RegisterFails
  <1>2. /\ disk' = [p \in Project |->
                      IF p \in done THEN Synchronized(disk[p], records) ELSE disk[p]]
        /\ cache' = [p \in Project |->
              IF p \notin done THEN cache[p]
              ELSE IF p < q THEN Loaded(disk'[p], records)
              ELSE PartlyLoaded(Loaded(disk'[p], records), c, read)]
        /\ damaged' = (damaged \ {p \in done : p < q}) \cup (IF b THEN {q} ELSE {})
        /\ suspect' = suspect \cup damaged'
        /\ UNCHANGED <<declared, opened, revisions, parse>>
        /\ q \in opened
    BY DEF RegisterFails
  <1> HIDE DEF records
  <1>3. /\ damaged \subseteq opened /\ opened \subseteq Project
        /\ \A p \in Project : ~(p < p)
    BY ProjectAssumption DEF Sound, Types
  <1>4. ASSUME NEW p \in Project
        PROVE  Skipped(p) \/ Renewed(p, records) \/ Broken(p, records)
    <2>1. CASE p \in done /\ p < q
      BY <1>2, <1>3, <2>1 DEF Renewed
    <2>2. CASE p \in done /\ ~(p < q)
      <3>1. p = q /\ b
        BY <2>2
      <3>2. /\ p \in damaged'
            /\ cache'[p] = PartlyLoaded(Loaded(disk'[p], records), c, read)
        BY <1>2, <2>2, <3>1
      <3> QED BY <1>2, <2>2, <3>1, <3>2 DEF Broken
    <2>3. CASE p \notin done
      BY <1>2, <1>3, <2>3 DEF Skipped
    <2> QED BY <2>1, <2>2, <2>3
  <1>5. /\ damaged' \subseteq opened /\ damaged' \subseteq suspect'
        /\ suspect \subseteq suspect'
    BY <1>2, <1>3
  <1>6. /\ DOMAIN disk' = Project /\ DOMAIN cache' = Project
        /\ disk' = [p \in Project |-> disk'[p]] /\ cache' = [p \in Project |-> cache'[p]]
    BY <1>2
  <1> QED
    BY <1>1, <1>2, <1>4, <1>5, <1>6 DEF Reloads, records

(* Of a project that a declaration reaches: what was declared stays.       *)
LEMMA ReloadedProject ==
    ASSUME Sound, NEW records, Reloads(records), NEW p \in Project
    PROVE  /\ disk'[p] \in Databases /\ cache'[p] \in Copies
           /\ Tagged(disk'[p])
           /\ p \in opened =>
                /\ InStep(disk'[p], declared')
                /\ Isolated(cache'[p], declared')
                /\ p \notin damaged' => Mirrors(cache'[p], disk'[p], declared')
                /\ \A n \in Namespace : declared[n] # None =>
                      /\ disk'[p].values[n] = disk[p].values[n]
                      /\ disk'[p].meta[n] = disk[p].meta[n]
  <1>1. /\ records \in Records /\ declared' \in {declared, records}
        /\ \A n \in Namespace : declared[n] # None => records[n] = declared[n]
        /\ Skipped(p) \/ Renewed(p, records) \/ Broken(p, records)
    BY DEF Reloads
  <1>2. /\ disk[p] \in Databases /\ cache[p] \in Copies /\ Tagged(disk[p])
        /\ p \in opened => InStep(disk[p], declared) /\ Isolated(cache[p], declared)
        /\ p \in opened \ damaged => Mirrors(cache[p], disk[p], declared)
    BY DEF Sound, Types, Databased, Copied
  <1>3. CASE Skipped(p)
    BY <1>2, <1>3 DEF Skipped
  <1>4. CASE disk'[p] = Synchronized(disk[p], records) /\ p \in opened
    <2> DEFINE db == Synchronized(disk[p], records)
    <2>1. db \in Databases /\ Tagged(db) /\ InStep(db, records)
      BY <1>1, <1>2, SynchronizedType, SynchronizedInStep
    <2>2. \A n \in Namespace : declared[n] # None =>
             db.values[n] = disk[p].values[n] /\ db.meta[n] = disk[p].meta[n]
      BY <1>1, <1>2, <1>4, SynchronizedOne DEF InStep
    <2>3. /\ Loaded(db, records) \in Copies
          /\ Mirrors(Loaded(db, records), db, records)
          /\ Isolated(Loaded(db, records), records)
      BY <1>1, <2>1, LoadedType, LoadedMirrors
    <2> HIDE DEF db
    <2>4. /\ InStep(db, declared')
          /\ Mirrors(Loaded(db, records), db, declared')
      BY <1>1, <2>1, <2>3 DEF InStep, Mirrors
    <2>5. CASE Renewed(p, records)
      <3>1. cache'[p] = Loaded(db, records) /\ disk'[p] = db
        BY <1>4, <2>5 DEF Renewed, db
      <3>2. Isolated(Loaded(db, records), declared')
        BY <1>1, <2>3 DEF Isolated
      <3> QED BY <2>1, <2>2, <2>3, <2>4, <3>1, <3>2
    <2>6. CASE Broken(p, records)
      <3>1. PICK b \in BOOLEAN, read \in SUBSET (Namespace \X Key) :
               cache'[p] = PartlyLoaded(Loaded(db, records), b, read)
        BY <1>4, <2>6 DEF Broken, db
      <3>2. cache'[p] \in Copies /\ Isolated(cache'[p], records)
        BY <1>1, <2>3, <3>1, PartlyLoadedType
      <3>3. Isolated(cache'[p], declared') /\ p \in damaged' /\ disk'[p] = db
        BY <1>1, <1>4, <2>6, <3>2 DEF Broken, Isolated, db
      <3> QED BY <2>1, <2>2, <2>4, <3>2, <3>3
    <2> QED BY <1>1, <1>2, <1>3, <2>5, <2>6
  <1> QED
    BY <1>1, <1>3, <1>4 DEF Renewed, Broken

LEMMA ReloadsSound ==
    ASSUME Sound, NEW records, Reloads(records)
    PROVE  Sound'
  <1>1. /\ declared' \in {declared, records} /\ records \in Records
        /\ \A n \in Namespace : declared[n] # None => records[n] = declared[n]
        /\ UNCHANGED <<opened, revisions, parse>>
        /\ damaged' \subseteq opened /\ damaged' \subseteq suspect' /\ suspect \subseteq suspect'
    BY DEF Reloads
  <1>2. Types'
    <2>1. disk' \in [Project -> Databases] /\ cache' \in [Project -> Copies]
      BY ReloadedProject DEF Reloads
    <2> QED BY <1>1, <2>1 DEF Sound, Types
  <1>3. opened \subseteq Project
    BY DEF Sound, Types
  <1>4. Databased' /\ Copied'
    BY <1>1, <1>3, ReloadedProject DEF Databased, Copied
  <1>5. Grounded' /\ Remembered' /\ Unused'
    <2>1. \A n \in Namespace : declared[n] # None => declared'[n] # None
      BY <1>1
    <2> QED BY <1>1, <2>1 DEF Sound, Grounded, Remembered, Unused, TouchedBy
  <1>6. Followed'
    <2>1. ASSUME NEW q \in opened \ suspect', NEW n \in Namespace, declared'[n] # None
          PROVE  revisions[q][n] =< cache'[q].revisions[n]
      <3>1. /\ q \in Project /\ q \notin damaged /\ q \notin damaged' /\ q \notin suspect
        BY <1>1, <1>3, <2>1 DEF Sound, Types
      <3>2. /\ cache'[q].revisions[n] = disk'[q].meta[n].revision
            /\ disk'[q].meta[n] # None /\ disk'[q] \in Databases
        BY <2>1, <3>1, ReloadedProject DEF Mirrors, InStep
      <3>3. disk'[q].meta[n].revision \in Nat
        BY <3>2 DEF Databases, Meta
      <3>4. CASE declared[n] = None
        BY <3>1, <3>2, <3>3, <3>4 DEF Sound, Unused
      <3>5. CASE declared[n] # None
        <4>1. disk'[q].meta[n] = disk[q].meta[n]
          BY <2>1, <3>1, <3>5, ReloadedProject
        <4>2. cache[q].revisions[n] = disk[q].meta[n].revision
          BY <2>1, <3>1, <3>5 DEF Sound, Copied, Mirrors
        <4> QED BY <2>1, <3>1, <3>2, <3>5, <4>1, <4>2 DEF Sound, Followed
      <3> QED BY <3>4, <3>5
    <2> QED BY <1>1, <2>1 DEF Sound, Followed
  <1> QED BY <1>2, <1>4, <1>5, <1>6 DEF Sound

-----------------------------------------------------------------------------
LEMMA InitSound == Init => Sound
  <1> SUFFICES ASSUME Init PROVE Sound
    OBVIOUS
  <1>1. NoValues \in Contents
    BY DEF NoValues, Contents
  <1>2. NoCopy \in Copies /\ NewParse \in Parses
    BY <1>1 DEF NoCopy, Copies, NewParse, Parses
  <1>3. Types
    BY <1>1, <1>2 DEF Init, Types, Databases, Records
  <1>4. Databased /\ Copied
    BY DEF Init, Databased, Copied, Tagged, NoValues
  <1>5. Grounded /\ Remembered /\ Unused /\ Followed
    BY DEF Init, Grounded, Remembered, Unused, Followed, TouchedBy, NewParse
  <1> QED BY <1>3, <1>4, <1>5 DEF Sound

LEMMA OpenSound ==
    ASSUME Sound, NEW q \in Project, Open(q)
    PROVE  Sound'
  <1> DEFINE db == Synchronized(disk[q], declared)
             copy == Loaded(db, declared)
  <1>1. /\ disk \in [Project -> Databases] /\ cache \in [Project -> Copies]
        /\ declared \in Records /\ Tagged(disk[q])
        /\ revisions \in [Project -> [Namespace -> Nat]]
    BY DEF Sound, Types, Databased
  <1>2. db \in Databases /\ Tagged(db) /\ InStep(db, declared)
    BY <1>1, SynchronizedType, SynchronizedInStep
  <1>3. /\ copy \in Copies /\ Mirrors(copy, db, declared) /\ Isolated(copy, declared)
        /\ \A n \in Namespace : copy.revisions[n] = Unknown => declared[n] = None
    BY <1>1, <1>2, LoadedType, LoadedMirrors
  <1>4. /\ q \notin opened /\ opened' = opened \cup {q}
        /\ UNCHANGED <<declared, parse, damaged, suspect>>
        /\ disk' = [disk EXCEPT ![q] = db]
        /\ cache' = [cache EXCEPT ![q] = copy]
        /\ revisions' = [revisions EXCEPT ![q] = [n \in Namespace |->
              IF copy.revisions[n] = Unknown THEN revisions[q][n] ELSE copy.revisions[n]]]
    BY <1>1 DEF Open
  <1> HIDE DEF db, copy
  <1>5. \A n \in Namespace : revisions[q][n] = 0
    BY <1>4 DEF Sound, Unused
  <1>6. /\ revisions' \in [Project -> [Namespace -> Nat]]
        /\ \A n \in Namespace : revisions'[q][n] \in Nat
        /\ \A n \in Namespace : declared[n] = None => revisions'[q][n] \in {0, copy.revisions[n]}
        /\ \A n \in Namespace : declared[n] # None => revisions'[q][n] = copy.revisions[n]
        /\ \A p \in Project : p # q => revisions'[p] = revisions[p]
    BY <1>1, <1>3, <1>4, <1>5 DEF Copies
  <1>7. \A n \in Namespace : declared[n] = None => copy.revisions[n] = Unknown
    BY DEF copy, Loaded
  <1>8. Types'
    BY <1>1, <1>2, <1>3, <1>4, <1>6 DEF Sound, Types
  <1>9. Databased' /\ Copied'
    BY <1>1, <1>2, <1>3, <1>4 DEF Sound, Types, Databased, Copied
  <1>10. Grounded' /\ Remembered'
    BY <1>4 DEF Sound, Grounded, Remembered, TouchedBy
  <1>11. Unused'
    BY <1>1, <1>4, <1>5, <1>6, <1>7 DEF Sound, Unused
  <1>12. Followed'
    <2>1. ASSUME NEW t \in Parse, NEW n \in Namespace, parse[t].base[n] # Unknown
          PROVE  t.project # q /\ t.project \in Project
      BY <1>4, <2>1, ProjectAssumption DEF Sound, Grounded
    <2>2. \A p \in opened' \ suspect', n \in Namespace :
             declared'[n] # None => revisions'[p][n] =< cache'[p].revisions[n]
      BY <1>1, <1>3, <1>4, <1>6 DEF Sound, Types, Followed
    <2> QED BY <1>4, <1>6, <2>1, <2>2 DEF Sound, Followed
  <1> QED BY <1>8, <1>9, <1>10, <1>11, <1>12 DEF Sound

LEMMA OpenFailsSound ==
    ASSUME Sound, NEW q \in Project, OpenFails(q)
    PROVE  Sound'
  <1>1. /\ q \notin opened /\ UNCHANGED memory
        /\ disk' = [disk EXCEPT ![q] = Synchronized(disk[q], declared)]
    BY DEF OpenFails
  <1>2. /\ disk \in [Project -> Databases] /\ Tagged(disk[q]) /\ declared \in Records
    BY DEF Sound, Types, Databased
  <1>3. /\ Synchronized(disk[q], declared) \in Databases
        /\ Tagged(Synchronized(disk[q], declared))
    BY <1>2, SynchronizedType, SynchronizedInStep
  <1>4. Types' /\ Databased' /\ Copied'
    BY <1>1, <1>2, <1>3 DEF Sound, Types, Databased, Copied, memory
  <1>5. Grounded' /\ Remembered' /\ Unused' /\ Followed'
    BY <1>1 DEF Sound, Grounded, Remembered, Unused, Followed, TouchedBy, memory
  <1> QED BY <1>4, <1>5 DEF Sound

-----------------------------------------------------------------------------
(* A parse learns a revision.                                              *)
LEMMA LearnBase ==
    ASSUME Sound, NEW t \in Parse, NEW n \in Namespace
    PROVE  /\ Learn(t, n) \in Parses
           /\ Learn(t, n).writes = parse[t].writes /\ Learn(t, n).saw = parse[t].saw
           /\ Learn(t, n).status = parse[t].status
           /\ Learn(t, n).base[n] # Unknown
           /\ \A m \in Namespace :
                 Learn(t, n).base[m] = IF m = n /\ parse[t].base[n] = Unknown
                                       THEN revisions[t.project][n] ELSE parse[t].base[m]
  <1> DEFINE new == [parse[t].base EXCEPT ![n] =
                       IF parse[t].base[n] = Unknown THEN revisions[t.project][n]
                       ELSE parse[t].base[n]]
  <1>1. /\ parse[t] \in Parses /\ t.project \in Project
        /\ revisions[t.project][n] \in Nat
    BY ProjectAssumption DEF Sound, Types
  <1>2. Learn(t, n) = [parse[t] EXCEPT !.base = new]
    BY DEF Learn
  <1>3. /\ parse[t].base \in [Namespace -> Nat \cup {Unknown}]
        /\ parse[t] = [status |-> parse[t].status, base |-> parse[t].base,
                       writes |-> parse[t].writes, saw |-> parse[t].saw]
    BY <1>1 DEF Parses
  <1>4. /\ new \in [Namespace -> Nat \cup {Unknown}]
        /\ new[n] # Unknown
        /\ \A m \in Namespace :
              new[m] = IF m = n /\ parse[t].base[n] = Unknown
                       THEN revisions[t.project][n] ELSE parse[t].base[m]
    BY <1>1, <1>3 DEF Unknown
  <1> HIDE DEF new
  <1>5. Learn(t, n) = [status |-> parse[t].status, base |-> new,
                       writes |-> parse[t].writes, saw |-> parse[t].saw]
    BY <1>2, <1>3
  <1> QED
    BY <1>1, <1>4, <1>5 DEF Parses

(* Read and Write leave memory and disk alone.                             *)
Learns ==
    /\ parse' \in [Parse -> Parses]
    /\ UNCHANGED <<disk, declared, opened, cache, revisions, damaged, suspect>>
    /\ \A t \in Parse, n \in Namespace :
          /\ parse'[t].base[n] # Unknown =>
                \/ parse'[t].base[n] = parse[t].base[n]
                \/ /\ declared[n] # None /\ t.project \in opened
                   /\ parse'[t].base[n] = revisions[t.project][n]
          /\ parse[t].base[n] # Unknown => parse'[t].base[n] # Unknown
          /\ (\E k \in Key : parse'[t].writes[n][k] # Untouched) =>
                n \in TouchedBy(t) \/ (declared[n] # None /\ t.project \in opened)
    /\ \A t \in Parse : \A r \in parse'[t].saw :
          r \in parse[t].saw \/ parse'[t].base[r[1]] # Unknown

LEMMA StillSound ==
    ASSUME Sound, Learns
    PROVE  Sound'
  <1>1. Types' /\ Databased' /\ Copied' /\ Unused'
    BY DEF Learns, Sound, Types, Databased, Copied, Unused
  <1>2. Grounded'
    BY DEF Learns, Sound, Grounded, TouchedBy
  <1>3. Remembered'
    <2> SUFFICES ASSUME NEW t \in Parse, NEW r \in parse'[t].saw
                 PROVE  parse'[t].base[r[1]] # Unknown
      BY DEF Remembered
    <2>1. r[1] \in Namespace
      BY DEF Learns, Parses
    <2> QED BY <2>1 DEF Learns, Sound, Remembered
  <1>4. Followed'
    <2>1. ASSUME NEW t \in Parse, NEW n \in Namespace
          PROVE  revisions[t.project][n] \in Nat
      <3>1. t.project \in Project
        BY ProjectAssumption
      <3> QED BY <3>1 DEF Sound, Types
    <2>2. ASSUME NEW t \in Parse, NEW n \in Namespace, t.project \notin suspect',
                 parse'[t].base[n] # Unknown
          PROVE  parse'[t].base[n] =< revisions'[t.project][n]
      <3>1. /\ t.project \notin suspect /\ UNCHANGED revisions
            /\ parse'[t].base[n] \in {parse[t].base[n], revisions[t.project][n]}
        BY <2>2 DEF Learns
      <3>2. CASE parse'[t].base[n] = parse[t].base[n]
        BY <2>2, <3>1, <3>2 DEF Sound, Followed
      <3>3. CASE parse'[t].base[n] = revisions[t.project][n]
        BY <2>1, <3>1, <3>3
      <3> QED BY <3>1, <3>2, <3>3
    <2>3. \A q \in opened' \ suspect', n \in Namespace :
             declared'[n] # None => revisions'[q][n] =< cache'[q].revisions[n]
      BY DEF Learns, Sound, Followed
    <2> QED BY <2>2, <2>3 DEF Followed
  <1> QED BY <1>1, <1>2, <1>3, <1>4 DEF Sound

LEMMA ReadSound ==
    ASSUME Sound, NEW t \in Parse, NEW n \in Namespace, Read(t, n)
    PROVE  Sound'
  <1> DEFINE seen == {<<n, k, cache[t.project].values[n][k]>> : k \in Key}
             new == [Learn(t, n) EXCEPT !.saw = Learn(t, n).saw \cup seen]
  <1>1. /\ declared[n] # None /\ t.project \in opened /\ t.project \in Project
        /\ parse' = [parse EXCEPT ![t] = new]
        /\ UNCHANGED <<disk, declared, opened, cache, revisions, damaged, suspect>>
    BY ProjectAssumption DEF Read, Usable
  <1>2. cache[t.project] \in Copies /\ parse \in [Parse -> Parses]
    BY <1>1 DEF Sound, Types
  <1>3. seen \subseteq Namespace \X Key \X (Stored \cup {None})
    BY <1>2 DEF Copies, Contents
  <1>4. new \in Parses /\ new.writes = parse[t].writes /\ new.base = Learn(t, n).base
        /\ new.saw = parse[t].saw \cup seen
    BY <1>3, LearnBase DEF Parses
  <1>5. \A r \in seen : r[1] = n
    OBVIOUS
  <1> HIDE DEF new, seen
  <1>6. parse' \in [Parse -> Parses] /\ parse'[t] = new
        /\ \A u \in Parse : u # t => parse'[u] = parse[u]
    BY <1>1, <1>2, <1>4
  <1>7. ASSUME NEW u \in Parse, NEW m \in Namespace,
               \E i \in Key : parse'[u].writes[m][i] # Untouched
        PROVE  m \in TouchedBy(u)
    BY <1>4, <1>6, <1>7 DEF TouchedBy
  <1>9. ASSUME NEW u \in Parse, NEW m \in Namespace
        PROVE  /\ parse'[u].base[m] # Unknown =>
                    \/ parse'[u].base[m] = parse[u].base[m]
                    \/ /\ declared[m] # None /\ u.project \in opened
                       /\ parse'[u].base[m] = revisions[u.project][m]
               /\ parse[u].base[m] # Unknown => parse'[u].base[m] # Unknown
    BY <1>1, <1>4, <1>6, LearnBase
  <1>10. ASSUME NEW u \in Parse, NEW r \in parse'[u].saw
         PROVE  r \in parse[u].saw \/ parse'[u].base[r[1]] # Unknown
    BY <1>4, <1>5, <1>6, LearnBase
  <1> QED
    <2>1. Learns
      BY <1>1, <1>6, <1>7, <1>9, <1>10 DEF Learns
    <2> QED BY <2>1, StillSound

LEMMA WriteSound ==
    ASSUME Sound, NEW t \in Parse, NEW n \in Namespace, NEW k \in Key,
           NEW v \in Val \cup {None}, Write(t, n, k, v)
    PROVE  Sound'
  <1> DEFINE new == [Learn(t, n) EXCEPT !.writes[n][k] = v]
  <1>1. /\ declared[n] # None /\ t.project \in opened /\ t.project \in Project
        /\ parse' = [parse EXCEPT ![t] = new]
        /\ UNCHANGED <<disk, declared, opened, cache, revisions, damaged, suspect>>
    BY ProjectAssumption DEF Write, Usable
  <1>2. parse \in [Parse -> Parses]
    BY DEF Sound, Types
  <1>3. /\ new \in Parses /\ new.saw = parse[t].saw /\ new.base = Learn(t, n).base
        /\ \A m \in Namespace : m # n => new.writes[m] = parse[t].writes[m]
    <2> DEFINE writes == [parse[t].writes EXCEPT ![n][k] = v]
    <2>1. Learn(t, n) \in Parses /\ Learn(t, n).writes = parse[t].writes
          /\ Learn(t, n).saw = parse[t].saw
      BY LearnBase
    <2>2. new = [Learn(t, n) EXCEPT !.writes = writes]
      BY <2>1
    <2>3. writes \in [Namespace -> [Key -> Val \cup {None, Untouched}]]
      BY <2>1 DEF Parses
    <2>4. \A m \in Namespace : m # n => writes[m] = parse[t].writes[m]
      BY <2>1 DEF Parses
    <2> HIDE DEF writes
    <2> QED BY <2>1, <2>2, <2>3, <2>4 DEF Parses
  <1> HIDE DEF new
  <1>4. parse' \in [Parse -> Parses] /\ parse'[t] = new
        /\ \A u \in Parse : u # t => parse'[u] = parse[u]
    BY <1>1, <1>2, <1>3
  <1>5. ASSUME NEW u \in Parse, NEW m \in Namespace,
               \E i \in Key : parse'[u].writes[m][i] # Untouched
        PROVE  m \in TouchedBy(u) \/ (declared[m] # None /\ u.project \in opened)
    <2>1. CASE u = t /\ m = n
      BY <1>1, <2>1
    <2>2. CASE u # t
      BY <1>4, <1>5, <2>2 DEF TouchedBy
    <2>3. CASE u = t /\ m # n
      <3>1. parse'[u].writes[m] = parse[u].writes[m]
        BY <1>3, <1>4, <2>3
      <3> QED BY <1>5, <3>1 DEF TouchedBy
    <2> QED BY <2>1, <2>2, <2>3
  <1>7. ASSUME NEW u \in Parse, NEW m \in Namespace
        PROVE  /\ parse'[u].base[m] # Unknown =>
                    \/ parse'[u].base[m] = parse[u].base[m]
                    \/ /\ declared[m] # None /\ u.project \in opened
                       /\ parse'[u].base[m] = revisions[u.project][m]
               /\ parse[u].base[m] # Unknown => parse'[u].base[m] # Unknown
    BY <1>1, <1>3, <1>4, LearnBase
  <1>8. \A u \in Parse : parse'[u].saw = parse[u].saw
    BY <1>3, <1>4
  <1> QED
    <2>1. Learns
      BY <1>1, <1>4, <1>5, <1>7, <1>8 DEF Learns
    <2> QED BY <2>1, StillSound

-----------------------------------------------------------------------------
(* The writes of a parse over what is there.                               *)
LEMMA OverlaidOne ==
    ASSUME Sound, NEW t \in Parse, NEW values \in Contents
    PROVE  /\ Overlaid(values, t) \in Contents
           /\ \A n \in Namespace : n \notin TouchedBy(t) => Overlaid(values, t)[n] = values[n]
           /\ \A n \in Namespace, k \in Key :
                 \/ Overlaid(values, t)[n][k] \in {values[n][k], None}
                 \/ n \in TouchedBy(t) /\ Overlaid(values, t)[n][k].schema = declared[n]
  <1>1. parse[t] \in Parses /\ declared \in Records
    BY DEF Sound, Types
  <1>2. ASSUME NEW n \in Namespace, NEW k \in Key
        PROVE  /\ parse[t].writes[n][k] = Untouched => Overlaid(values, t)[n][k] = values[n][k]
               /\ parse[t].writes[n][k] = None => Overlaid(values, t)[n][k] = None
               /\ parse[t].writes[n][k] \notin {Untouched, None} =>
                     /\ n \in TouchedBy(t)
                     /\ Overlaid(values, t)[n][k] =
                           [value |-> parse[t].writes[n][k], schema |-> declared[n]]
    BY ProjectAssumption DEF Overlaid, TouchedBy
  <1>3. ASSUME NEW n \in Namespace, NEW k \in Key
        PROVE  Overlaid(values, t)[n][k] \in Stored \cup {None}
    <2>1. parse[t].writes[n][k] \in Val \cup {None, Untouched}
      BY <1>1 DEF Parses
    <2>2. n \in TouchedBy(t) => declared[n] \in Schema
      BY <1>1 DEF Sound, Grounded, Records
    <2>3. values[n][k] \in Stored \cup {None}
      BY DEF Contents
    <2>4. CASE parse[t].writes[n][k] \in {Untouched, None}
      BY <1>2, <2>3, <2>4
    <2>5. CASE parse[t].writes[n][k] \notin {Untouched, None}
      <3>1. parse[t].writes[n][k] \in Val /\ declared[n] \in Schema
        BY <1>2, <2>1, <2>2, <2>5
      <3>2. Overlaid(values, t)[n][k] =
               [value |-> parse[t].writes[n][k], schema |-> declared[n]]
        BY <1>2, <2>5
      <3> QED BY <3>1, <3>2 DEF Stored
    <2> QED BY <2>4, <2>5
  <1>4. Overlaid(values, t) \in Contents
    BY <1>3 DEF Overlaid, Contents
  <1>5. ASSUME NEW n \in Namespace, n \notin TouchedBy(t)
        PROVE  Overlaid(values, t)[n] = values[n]
    <2>1. \A k \in Key : Overlaid(values, t)[n][k] = values[n][k]
      BY <1>2, <1>5 DEF TouchedBy
    <2>2. Overlaid(values, t)[n] \in [Key -> Stored \cup {None}]
          /\ values[n] \in [Key -> Stored \cup {None}]
      BY <1>4 DEF Contents
    <2> QED BY <2>1, <2>2
  <1>6. ASSUME NEW n \in Namespace, NEW k \in Key
        PROVE  \/ Overlaid(values, t)[n][k] \in {values[n][k], None}
               \/ n \in TouchedBy(t) /\ Overlaid(values, t)[n][k].schema = declared[n]
    <2>1. CASE parse[t].writes[n][k] \in {Untouched, None}
      BY <1>2, <2>1
    <2>2. CASE parse[t].writes[n][k] \notin {Untouched, None}
      <3>1. /\ n \in TouchedBy(t)
            /\ Overlaid(values, t)[n][k] =
                  [value |-> parse[t].writes[n][k], schema |-> declared[n]]
        BY <1>2, <2>2
      <3> QED BY <3>1
    <2> QED BY <2>1, <2>2
  <1> QED BY <1>4, <1>5, <1>6

LEMMA NextRevisionType ==
    ASSUME Sound, NEW q \in Project, NEW n \in Namespace
    PROVE  /\ NextRevision(q, n) \in Nat
           /\ cache[q].revisions[n] =< NextRevision(q, n) - 1
  <1>1. cache[q].revisions[n] \in Nat \cup {Unknown}
    BY DEF Sound, Types, Copies
  <1> QED BY <1>1 DEF NextRevision, Unknown

(* The database after a commit.                                            *)
LEMMA PersistDisk ==
    ASSUME Sound, NEW t \in Parse, Persist(t)
    PROVE  /\ disk' \in [Project -> Databases]
           /\ \A p \in Project : p # t.project => disk'[p] = disk[p]
           /\ t.project \in opened
           /\ \A p \in Project : Tagged(disk'[p])
           /\ \A p \in opened : InStep(disk'[p], declared)
           /\ disk'[t.project].values = Overlaid(disk[t.project].values, t)
           /\ \A n \in Namespace :
                 /\ n \in TouchedBy(t) => disk'[t.project].meta[n].revision = NextRevision(t.project, n)
                 /\ n \notin TouchedBy(t) => disk'[t.project].meta[n] = disk[t.project].meta[n]
  <1> DEFINE q == t.project
             values == Overlaid(disk[q].values, t)
             meta == [n \in Namespace |->
                        IF n \notin TouchedBy(t) THEN disk[q].meta[n]
                        ELSE [schema |-> declared[n], revision |-> NextRevision(q, n)]]
  <1>1. /\ q \in Project /\ disk \in [Project -> Databases] /\ declared \in Records
        /\ opened \subseteq Project
    BY ProjectAssumption DEF Sound, Types
  <1>2. disk' = [disk EXCEPT ![q] = [values |-> values, meta |-> meta]]
    BY <1>1 DEF Persist
  <1>3. disk[q].values \in Contents /\ disk[q].meta \in [Namespace -> Meta \cup {None}]
    BY <1>1 DEF Databases
  <1>4. \A n \in TouchedBy(t) : n \in Namespace /\ declared[n] \in Schema /\ q \in opened
    BY <1>1 DEF Sound, Grounded, TouchedBy, Records
  <1>5. q \in opened
    BY <1>4 DEF Persist
  <1>6. InStep(disk[q], declared) /\ Tagged(disk[q])
    BY <1>1, <1>5 DEF Sound, Databased
  <1>7. /\ values \in Contents
        /\ \A n \in Namespace : n \notin TouchedBy(t) => values[n] = disk[q].values[n]
        /\ \A n \in Namespace, k \in Key :
              \/ values[n][k] \in {disk[q].values[n][k], None}
              \/ n \in TouchedBy(t) /\ values[n][k].schema = declared[n]
    BY <1>3, OverlaidOne
  <1>8. ASSUME NEW n \in Namespace
        PROVE  /\ n \in TouchedBy(t) => /\ meta[n] \in Meta /\ meta[n].schema = declared[n]
                                        /\ meta[n].revision = NextRevision(q, n)
               /\ n \notin TouchedBy(t) => meta[n] = disk[q].meta[n]
    BY <1>1, <1>4, NextRevisionType DEF Meta
  <1>9. meta \in [Namespace -> Meta \cup {None}]
    BY <1>3, <1>8
  <1> HIDE DEF q, values, meta
  <1>10. disk'[q].values = values /\ disk'[q].meta = meta /\ disk'[q] \in Databases
    BY <1>1, <1>2, <1>7, <1>9 DEF Databases
  <1>11. InStep(disk'[q], declared)
    BY <1>6, <1>8, <1>10, ProjectAssumption DEF InStep
  <1>12. Tagged(disk'[q])
    <2> SUFFICES ASSUME NEW n \in Namespace, NEW k \in Key, values[n][k] # None
                 PROVE  meta[n] # None /\ values[n][k].schema = meta[n].schema
      BY <1>10 DEF Tagged
    <2>1. CASE n \notin TouchedBy(t)
      BY <1>6, <1>7, <1>8, <2>1 DEF Tagged
    <2>2. CASE n \in TouchedBy(t)
      <3>1. declared[n] # None /\ meta[n] # None /\ meta[n].schema = declared[n]
        BY <1>4, <1>8, <2>2, ProjectAssumption
      <3>2. disk[q].values[n][k] # None => disk[q].values[n][k].schema = declared[n]
        BY <1>6, <3>1 DEF Tagged, InStep
      <3> QED BY <1>7, <3>1, <3>2
    <2> QED BY <2>1, <2>2
  <1>13. /\ disk' \in [Project -> Databases]
         /\ \A p \in Project : p # q => disk'[p] = disk[p]
    BY <1>1, <1>2, <1>10
  <1>14. /\ \A p \in Project : Tagged(disk'[p])
         /\ \A p \in opened : InStep(disk'[p], declared)
    BY <1>1, <1>11, <1>12, <1>13 DEF Sound, Databased
  <1> QED BY <1>5, <1>8, <1>10, <1>13, <1>14 DEF q, values

(* Memory after a commit.                                                  *)
LEMMA CommitMemory ==
    ASSUME Sound, NEW t \in Parse, Commit(t)
    PROVE  LET q == t.project IN
           /\ q \in Project /\ q \in opened
           /\ UNCHANGED <<declared, opened, damaged, suspect>>
           /\ parse' = [parse EXCEPT ![t] = Closed] /\ Closed \in Parses
           /\ cache' \in [Project -> Copies] /\ revisions' \in [Project -> [Namespace -> Nat]]
           /\ \A p \in Project : p # q => cache'[p] = cache[p] /\ revisions'[p] = revisions[p]
           /\ cache'[q].values = Overlaid(cache[q].values, t)
           /\ \A n \in Namespace :
                 /\ n \in TouchedBy(t) => /\ cache'[q].revisions[n] = NextRevision(q, n)
                                          /\ revisions'[q][n] = NextRevision(q, n)
                 /\ n \notin TouchedBy(t) => /\ cache'[q].revisions[n] = cache[q].revisions[n]
                                             /\ revisions'[q][n] = revisions[q][n]
  <1> DEFINE q == t.project
             values == Overlaid(cache[q].values, t)
             rev == [n \in Namespace |-> IF n \in TouchedBy(t) THEN NextRevision(q, n)
                                         ELSE cache[q].revisions[n]]
             table == NewTable(q, t)
  <1>1. /\ q \in Project /\ cache \in [Project -> Copies]
        /\ revisions \in [Project -> [Namespace -> Nat]]
    BY ProjectAssumption DEF Sound, Types
  <1>2. /\ cache' = [cache EXCEPT ![q] = [values |-> values, revisions |-> rev]]
        /\ revisions' = [revisions EXCEPT ![q] = table]
        /\ UNCHANGED <<declared, opened, damaged, suspect>>
        /\ parse' = [parse EXCEPT ![t] = Closed]
        /\ q \in opened
    <2>1. q \in opened
      BY PersistDisk DEF Commit
    <2> QED BY <1>1, <2>1 DEF Commit
  <1>3. cache[q].values \in Contents /\ cache[q].revisions \in [Namespace -> Nat \cup {Unknown}]
    BY <1>1 DEF Copies
  <1>4. values \in Contents
    BY <1>3, OverlaidOne
  <1>5. rev \in [Namespace -> Nat \cup {Unknown}]
    BY <1>1, <1>3, NextRevisionType
  <1>6. /\ table \in [Namespace -> Nat]
        /\ \A n \in Namespace : table[n] = IF n \in TouchedBy(t) THEN NextRevision(q, n)
                                           ELSE revisions[q][n]
    BY <1>1, NextRevisionType DEF NewTable
  <1>7. \A n \in Namespace : rev[n] = IF n \in TouchedBy(t) THEN NextRevision(q, n)
                                      ELSE cache[q].revisions[n]
    OBVIOUS
  <1>8. Closed \in Parses
    BY DEF Closed, NewParse, Parses
  <1> HIDE DEF values, rev, table, q
  <1>9. [values |-> values, revisions |-> rev] \in Copies
    BY <1>4, <1>5 DEF Copies
  <1>10. /\ cache' \in [Project -> Copies] /\ revisions' \in [Project -> [Namespace -> Nat]]
         /\ \A p \in Project : p # q => cache'[p] = cache[p] /\ revisions'[p] = revisions[p]
         /\ cache'[q].values = values /\ cache'[q].revisions = rev /\ revisions'[q] = table
    BY <1>1, <1>2, <1>6, <1>9
  <1>11. \A n \in Namespace :
            /\ n \in TouchedBy(t) => /\ cache'[q].revisions[n] = NextRevision(q, n)
                                     /\ revisions'[q][n] = NextRevision(q, n)
            /\ n \notin TouchedBy(t) => /\ cache'[q].revisions[n] = cache[q].revisions[n]
                                        /\ revisions'[q][n] = revisions[q][n]
    BY <1>6, <1>7, <1>10
  <1> QED BY <1>1, <1>2, <1>8, <1>10, <1>11 DEF q, values

LEMMA ClosedClean ==
    ASSUME NEW n \in Namespace
    PROVE  /\ Closed.base[n] = Unknown /\ Closed.saw = {} /\ Closed.status = "closed"
           /\ \A k \in Key : Closed.writes[n][k] = Untouched
           /\ NewParse.base[n] = Unknown /\ NewParse.saw = {}
           /\ \A k \in Key : NewParse.writes[n][k] = Untouched
  BY DEF Closed, NewParse

LEMMA CommitSound ==
    ASSUME Sound, NEW t \in Parse, Commit(t)
    PROVE  Sound'
  <1> DEFINE q == t.project
  <1>1. /\ q \in Project /\ q \in opened
        /\ UNCHANGED <<declared, opened, damaged, suspect>>
        /\ parse' = [parse EXCEPT ![t] = Closed] /\ Closed \in Parses
        /\ cache' \in [Project -> Copies] /\ revisions' \in [Project -> [Namespace -> Nat]]
        /\ \A p \in Project : p # q => cache'[p] = cache[p] /\ revisions'[p] = revisions[p]
        /\ cache'[q].values = Overlaid(cache[q].values, t)
        /\ \A n \in Namespace :
              /\ n \in TouchedBy(t) => /\ cache'[q].revisions[n] = NextRevision(q, n)
                                       /\ revisions'[q][n] = NextRevision(q, n)
              /\ n \notin TouchedBy(t) => /\ cache'[q].revisions[n] = cache[q].revisions[n]
                                          /\ revisions'[q][n] = revisions[q][n]
    BY CommitMemory
  <1>2. /\ disk' \in [Project -> Databases]
        /\ \A p \in Project : p # q => disk'[p] = disk[p]
        /\ \A p \in Project : Tagged(disk'[p])
        /\ \A p \in opened : InStep(disk'[p], declared)
        /\ disk'[q].values = Overlaid(disk[q].values, t)
        /\ \A n \in Namespace :
              /\ n \in TouchedBy(t) => disk'[q].meta[n].revision = NextRevision(q, n)
              /\ n \notin TouchedBy(t) => disk'[q].meta[n] = disk[q].meta[n]
    BY PersistDisk DEF Commit
  <1>3. /\ parse \in [Parse -> Parses] /\ opened \subseteq Project
        /\ disk \in [Project -> Databases] /\ cache \in [Project -> Copies]
    BY DEF Sound, Types
  <1>4. /\ \A n \in TouchedBy(t) : n \in Namespace /\ declared[n] # None
        /\ cache[q].values \in Contents /\ disk[q].values \in Contents
    BY <1>1, <1>3 DEF Sound, Grounded, TouchedBy, Copies, Databases
  <1> HIDE DEF q
  <1>5. parse'[t] = Closed /\ \A u \in Parse : u # t => parse'[u] = parse[u]
    BY <1>1, <1>3
  <1>6. Types'
    BY <1>1, <1>2, <1>3 DEF Sound, Types
  <1>7. Databased'
    BY <1>1, <1>2 DEF Databased
  <1>8. Copied'
    <2>1. ASSUME NEW n \in Namespace, NEW k \in Key, declared[n] # None,
                 cache'[q].values[n][k] # None
          PROVE  cache'[q].values[n][k].schema = declared[n]
      <3>1. \/ cache'[q].values[n][k] \in {cache[q].values[n][k], None}
            \/ cache'[q].values[n][k].schema = declared[n]
        BY <1>1, <1>4, OverlaidOne
      <3> QED BY <1>1, <2>1, <3>1 DEF Sound, Copied, Isolated
    <2>2. ASSUME q \notin damaged, NEW n \in Namespace, declared[n] # None
          PROVE  /\ cache'[q].revisions[n] = disk'[q].meta[n].revision
                 /\ cache'[q].values[n] = disk'[q].values[n]
      <3>1. /\ cache[q].revisions[n] = disk[q].meta[n].revision
            /\ cache[q].values[n] = disk[q].values[n]
        BY <1>1, <2>2 DEF Sound, Copied, Mirrors
      <3>2. Overlaid(cache[q].values, t)[n] = Overlaid(disk[q].values, t)[n]
        BY <3>1 DEF Overlaid
      <3>3. cache'[q].values[n] = disk'[q].values[n]
        BY <1>1, <1>2, <3>2
      <3> QED BY <1>1, <1>2, <3>1, <3>3
    <2>3. Isolated(cache'[q], declared)
      BY <2>1 DEF Isolated
    <2>4. q \notin damaged => Mirrors(cache'[q], disk'[q], declared)
      BY <2>2 DEF Mirrors
    <2> QED BY <1>1, <1>2, <1>3, <2>3, <2>4 DEF Sound, Copied
  <1>9. Grounded' /\ Remembered'
    <2>1. ASSUME NEW u \in Parse, NEW n \in Namespace
          PROVE  /\ parse'[u].base[n] # Unknown => parse[u].base[n] # Unknown
                 /\ \A k \in Key : parse'[u].writes[n][k] # Untouched
                                      => parse[u].writes[n][k] # Untouched
      BY <1>5, ClosedClean
    <2>2. Grounded'
      BY <1>1, <2>1 DEF Sound, Grounded, TouchedBy
    <2>3. \A u \in Parse : u = t => parse'[u].saw = {}
      BY <1>5 DEF Closed, NewParse
    <2>4. Remembered'
      BY <1>5, <2>3 DEF Sound, Remembered
    <2> QED BY <2>2, <2>4
  <1>10. Unused'
    BY <1>1, <1>4 DEF Sound, Unused
  <1>11. Followed'
    <2>1. ASSUME NEW p \in opened \ suspect, NEW n \in Namespace, declared[n] # None
          PROVE  revisions'[p][n] =< cache'[p].revisions[n]
      <3>1. CASE p = q /\ n \in TouchedBy(t)
        BY <1>1, <3>1, NextRevisionType
      <3>2. CASE ~(p = q /\ n \in TouchedBy(t))
        BY <1>1, <1>3, <2>1, <3>2 DEF Sound, Followed
      <3> QED BY <3>1, <3>2
    <2>2. ASSUME NEW u \in Parse, NEW n \in Namespace, u.project \notin suspect,
                 parse'[u].base[n] # Unknown
          PROVE  parse'[u].base[n] =< revisions'[u.project][n]
      <3>1. u # t /\ parse'[u] = parse[u] /\ u.project \in Project
        BY <1>5, <2>2, ClosedClean, ProjectAssumption
      <3>2. parse[u].base[n] =< revisions[u.project][n]
        BY <2>2, <3>1 DEF Sound, Followed
      <3>3. CASE u.project = q /\ n \in TouchedBy(t)
        <4>1. revisions[q][n] =< cache[q].revisions[n]
          BY <1>1, <1>4, <2>2, <3>3 DEF Sound, Followed
        <4>2. /\ cache[q].revisions[n] =< NextRevision(q, n) - 1 /\ NextRevision(q, n) \in Nat
              /\ revisions'[q][n] = NextRevision(q, n)
          BY <1>1, <3>3, NextRevisionType
        <4>3. /\ parse[u].base[n] \in Nat \cup {Unknown} /\ revisions[q][n] \in Nat
              /\ cache[q].revisions[n] \in Nat \cup {Unknown}
          BY <1>1, <1>3 DEF Sound, Types, Parses, Copies
        <4> QED BY <3>1, <3>2, <3>3, <4>1, <4>2, <4>3 DEF Unknown
      <3>4. CASE ~(u.project = q /\ n \in TouchedBy(t))
        BY <1>1, <3>1, <3>2, <3>4
      <3> QED BY <3>3, <3>4
    <2> QED BY <1>1, <2>1, <2>2 DEF Followed
  <1> QED BY <1>6, <1>7, <1>8, <1>9, <1>10, <1>11 DEF Sound

LEMMA CancelSound ==
    ASSUME Sound, NEW t \in Parse, Cancel(t)
    PROVE  Sound'
  <1>1. /\ parse' = [parse EXCEPT ![t] = Closed]
        /\ UNCHANGED <<disk, declared, opened, cache, revisions, damaged, suspect>>
        /\ parse \in [Parse -> Parses]
    BY DEF Cancel, Sound, Types
  <1>2. Closed \in Parses /\ parse'[t] = Closed /\ \A u \in Parse : u # t => parse'[u] = parse[u]
    BY <1>1 DEF Closed, NewParse, Parses
  <1>3. Types' /\ Databased' /\ Copied' /\ Unused'
    BY <1>1, <1>2 DEF Sound, Types, Databased, Copied, Unused
  <1>4. ASSUME NEW u \in Parse, NEW n \in Namespace
        PROVE  /\ parse'[u].base[n] # Unknown => parse'[u] = parse[u]
               /\ \A k \in Key : parse'[u].writes[n][k] # Untouched => parse'[u] = parse[u]
    BY <1>2, ClosedClean
  <1>5. \A u \in Parse : parse'[u].saw # {} => parse'[u] = parse[u]
    BY <1>2 DEF Closed, NewParse
  <1>6. Grounded'
    BY <1>1, <1>4 DEF Sound, Grounded, TouchedBy
  <1>7. Remembered' /\ Followed'
    BY <1>1, <1>4, <1>5 DEF Sound, Remembered, Followed
  <1> QED BY <1>3, <1>6, <1>7 DEF Sound

LEMMA RestartSound ==
    ASSUME Sound, Restart, disk' \in [Project -> Databases], \A q \in Project : Tagged(disk'[q])
    PROVE  Sound'
  <1>1. /\ declared' = [n \in Namespace |-> None]
        /\ opened' = {} /\ damaged' = {} /\ suspect' = {}
        /\ cache' = [p \in Project |-> NoCopy]
        /\ revisions' = [p \in Project |-> [n \in Namespace |-> 0]]
        /\ parse' = [t \in Parse |-> IF Started(t) THEN Closed ELSE NewParse]
    BY DEF Restart
  <1>2. NoCopy \in Copies /\ NewParse \in Parses /\ Closed \in Parses
    BY DEF NoCopy, NoValues, Contents, Copies, NewParse, Closed, Parses
  <1>3. Types'
    BY <1>1, <1>2 DEF Types, Records
  <1>4. Databased' /\ Copied' /\ Unused'
    BY <1>1 DEF Databased, Copied, Unused
  <1>5. ASSUME NEW t \in Parse, NEW n \in Namespace
        PROVE  /\ parse'[t].base[n] = Unknown /\ parse'[t].saw = {}
               /\ \A k \in Key : parse'[t].writes[n][k] = Untouched
    BY <1>1, ClosedClean
  <1>6. \A t \in Parse : parse'[t].saw = {}
    BY <1>1 DEF Closed, NewParse
  <1>7. Grounded' /\ Remembered' /\ Followed'
    BY <1>1, <1>5, <1>6 DEF Grounded, Remembered, Followed, TouchedBy
  <1> QED BY <1>3, <1>4, <1>7 DEF Sound

(* A restart, on the disk as it was or in the middle of a commit.          *)
LEMMA CrashSound ==
    ASSUME Sound, Crash \/ \E t \in Parse : CrashInCommit(t)
    PROVE  Sound'
  <1>1. CASE Crash
    <2>1. disk' \in [Project -> Databases] /\ \A q \in Project : Tagged(disk'[q])
      BY <1>1 DEF Crash, Sound, Types, Databased
    <2> QED BY <1>1, <2>1, RestartSound DEF Crash
  <1>2. CASE \E t \in Parse : CrashInCommit(t)
    <2>1. PICK t \in Parse : CrashInCommit(t)
      BY <1>2
    <2>2. disk' \in [Project -> Databases] /\ \A q \in Project : Tagged(disk'[q])
      BY <2>1, PersistDisk DEF CrashInCommit
    <2> QED BY <2>1, <2>2, RestartSound DEF CrashInCommit
  <1> QED BY <1>1, <1>2

LEMMA RegisteringReloads ==
    ASSUME Sound, Registering
    PROVE  \E records \in Records : Reloads(records)
  <1>1. PICK n \in Namespace, schema \in Schema :
           \/ Register(n, schema)
           \/ \E q \in Project, b, c \in BOOLEAN, read \in SUBSET (Namespace \X Key) :
                 RegisterFails(n, schema, q, b, c, read)
    BY DEF Registering
  <1>2. Reloads([declared EXCEPT ![n] = schema])
    BY <1>1, RegisterReloads, RegisterFailsReloads
  <1> QED BY <1>2 DEF Reloads

LEMMA StutterSound ==
    ASSUME Sound, UNCHANGED vars
    PROVE  Sound'
  BY DEF vars, memory, Sound, Types, Databased, Copied, Grounded, Remembered, Unused, Followed,
         TouchedBy

LEMMA StepSound ==
    ASSUME Sound, [Next]_vars
    PROVE  Sound'
  <1>1. CASE Registering
    BY <1>1, RegisteringReloads, ReloadsSound
  <1>2. CASE \E q \in Project : Open(q) \/ OpenFails(q)
    BY <1>2, OpenSound, OpenFailsSound
  <1>3. CASE \E t \in Parse, n \in Namespace : Read(t, n)
    BY <1>3, ReadSound
  <1>4. CASE \E t \in Parse, n \in Namespace, k \in Key, v \in Val \cup {None} :
                Write(t, n, k, v)
    BY <1>4, WriteSound
  <1>5. CASE \E t \in Parse : Commit(t) \/ Cancel(t)
    BY <1>5, CommitSound, CancelSound
  <1>6. CASE Crash \/ \E t \in Parse : CrashInCommit(t)
    BY <1>6, CrashSound
  <1>7. CASE UNCHANGED vars
    BY <1>7, StutterSound
  <1> QED BY <1>1, <1>2, <1>3, <1>4, <1>5, <1>6, <1>7 DEF Next

LEMMA AlwaysSound == Spec => []Sound
  <1>1. Init => Sound
    BY InitSound
  <1>2. Sound /\ [Next]_vars => Sound'
    BY StepSound
  <1> QED BY <1>1, <1>2, PTL DEF Spec

(* The copy in memory agrees with the database on every declared namespace *)
(* after any declarations, commits, faults and restarts, as long as no     *)
(* reload of the project has failed (synchronize, reload and commit,       *)
(* persistent.rs:53, 120 and 185).                                         *)
THEOREM CacheCorrect == Spec => []CacheCoherent
  <1>1. Sound => CacheCoherent
    BY DEF Sound, Databased, Copied, Types, InStep, Mirrors, CacheCoherent
  <1> QED BY <1>1, AlwaysSound, PTL

(* No value is ever read under another schema than the one it was written  *)
(* under, not even from a copy whose reload failed half way (reload,       *)
(* persistent.rs:185): the metadata of a database names the schema of all  *)
(* its values.                                                             *)
THEOREM SchemaCorrect == Spec => []SchemaIsolated
  <1>1. Sound => SchemaIsolated
    BY DEF Sound, Copied, Isolated, SchemaIsolated
  <1> QED BY <1>1, AlwaysSound, PTL

-----------------------------------------------------------------------------
Fresh(t, r) == parse[t].base[r[1]] = revisions[t.project][r[1]]
                  => cache[t.project].values[r[1]][r[2]] = r[3]

(* What a parse has read is of a namespace it depends on.                  *)
LEMMA SeenGrounded ==
    ASSUME Sound, NEW t \in Parse, NEW r \in parse[t].saw
    PROVE  /\ r[1] \in Namespace /\ r[2] \in Key /\ t.project \in Project
           /\ parse[t].base[r[1]] # Unknown
           /\ declared[r[1]] # None /\ t.project \in opened
  <1>1. r \in Namespace \X Key \X (Stored \cup {None}) /\ t.project \in Project
    BY ProjectAssumption DEF Sound, Types, Parses
  <1> QED BY <1>1 DEF Sound, Remembered, Grounded

LEMMA ReloadsFresh ==
    ASSUME Sound, ReadsCurrent, NEW records, Reloads(records)
    PROVE  ReadsCurrent'
  <1> SUFFICES ASSUME NEW t \in Parse, parse'[t].status = "open", t.project \notin suspect',
                      NEW r \in parse'[t].saw, parse'[t].base[r[1]] = revisions'[t.project][r[1]]
               PROVE  cache'[t.project].values[r[1]][r[2]] = r[3]
    BY DEF ReadsCurrent
  <1> DEFINE q == t.project
  <1>1. /\ UNCHANGED <<opened, revisions, parse>>
        /\ damaged' \subseteq suspect' /\ suspect \subseteq suspect'
        /\ \A n \in Namespace : declared[n] # None => declared'[n] = declared[n]
        /\ damaged \subseteq suspect
    BY DEF Reloads, Sound, Types
  <1>2. /\ q \in opened \ damaged /\ q \in Project /\ q \notin damaged' /\ q \notin suspect
        /\ r[1] \in Namespace /\ declared[r[1]] # None
    BY <1>1, SeenGrounded
  <1>3. cache[q].values[r[1]][r[2]] = r[3]
    BY <1>1, <1>2 DEF ReadsCurrent
  <1>4. cache[q].values[r[1]] = disk[q].values[r[1]]
    BY <1>2 DEF Sound, Copied, Mirrors
  <1>5. /\ cache'[q].values[r[1]] = disk'[q].values[r[1]]
        /\ disk'[q].values[r[1]] = disk[q].values[r[1]]
    BY <1>1, <1>2, ReloadedProject DEF Mirrors
  <1> QED BY <1>3, <1>4, <1>5

LEMMA OpenFresh ==
    ASSUME Sound, ReadsCurrent, NEW q \in Project, Open(q) \/ OpenFails(q)
    PROVE  ReadsCurrent'
  <1>1. /\ q \notin opened /\ UNCHANGED <<parse, suspect>>
        /\ \A p \in Project : p # q => cache'[p] = cache[p] /\ revisions'[p] = revisions[p]
    BY DEF Open, OpenFails, memory, Sound, Types
  <1>2. \A t \in Parse : parse[t].saw # {} => t.project # q /\ t.project \in Project
    BY <1>1, SeenGrounded
  <1> QED BY <1>1, <1>2 DEF ReadsCurrent

LEMMA ReadFresh ==
    ASSUME Sound, ReadsCurrent, NEW t \in Parse, NEW n \in Namespace, Read(t, n)
    PROVE  ReadsCurrent'
  <1> DEFINE seen == {<<n, k, cache[t.project].values[n][k]>> : k \in Key}
  <1>1. /\ parse' = [parse EXCEPT ![t] = [Learn(t, n) EXCEPT !.saw = Learn(t, n).saw \cup seen]]
        /\ UNCHANGED <<cache, revisions, suspect>> /\ parse \in [Parse -> Parses]
    BY DEF Read, Sound, Types
  <1>2. /\ parse'[t].saw = parse[t].saw \cup seen /\ parse'[t].base = Learn(t, n).base
        /\ parse'[t].status = parse[t].status
        /\ \A u \in Parse : u # t => parse'[u] = parse[u]
    BY <1>1, LearnBase DEF Parses
  <1>3. \A r \in seen : cache[t.project].values[r[1]][r[2]] = r[3]
    OBVIOUS
  <1> HIDE DEF seen
  <1>4. ASSUME NEW r \in parse[t].saw
        PROVE  parse'[t].base[r[1]] = parse[t].base[r[1]]
    BY <1>2, SeenGrounded, LearnBase
  <1> QED BY <1>1, <1>2, <1>3, <1>4 DEF ReadsCurrent

LEMMA WriteFresh ==
    ASSUME Sound, ReadsCurrent, NEW t \in Parse, NEW n \in Namespace, NEW k \in Key,
           NEW v \in Val \cup {None}, Write(t, n, k, v)
    PROVE  ReadsCurrent'
  <1>1. /\ parse' = [parse EXCEPT ![t] = [Learn(t, n) EXCEPT !.writes[n][k] = v]]
        /\ UNCHANGED <<cache, revisions, suspect>> /\ parse \in [Parse -> Parses]
    BY DEF Write, Sound, Types
  <1>2. /\ parse'[t].saw = parse[t].saw /\ parse'[t].base = Learn(t, n).base
        /\ parse'[t].status = parse[t].status
        /\ \A u \in Parse : u # t => parse'[u] = parse[u]
    BY <1>1, LearnBase DEF Parses
  <1>3. ASSUME NEW r \in parse[t].saw
        PROVE  parse'[t].base[r[1]] = parse[t].base[r[1]]
    BY <1>2, SeenGrounded, LearnBase
  <1> QED BY <1>1, <1>2, <1>3 DEF ReadsCurrent

LEMMA CommitFresh ==
    ASSUME Sound, ReadsCurrent, NEW t \in Parse, Commit(t)
    PROVE  ReadsCurrent'
  <1> SUFFICES ASSUME NEW u \in Parse, parse'[u].status = "open", u.project \notin suspect',
                      NEW r \in parse'[u].saw, parse'[u].base[r[1]] = revisions'[u.project][r[1]]
               PROVE  cache'[u.project].values[r[1]][r[2]] = r[3]
    BY DEF ReadsCurrent
  <1> DEFINE q == t.project
  <1>1. /\ q \in Project /\ q \in opened /\ UNCHANGED suspect
        /\ parse' = [parse EXCEPT ![t] = Closed]
        /\ \A p \in Project : p # q => cache'[p] = cache[p] /\ revisions'[p] = revisions[p]
        /\ cache'[q].values = Overlaid(cache[q].values, t)
        /\ \A n \in Namespace :
              /\ n \in TouchedBy(t) => revisions'[q][n] = NextRevision(q, n)
              /\ n \notin TouchedBy(t) => revisions'[q][n] = revisions[q][n]
    BY CommitMemory
  <1>2. parse \in [Parse -> Parses] /\ cache \in [Project -> Copies]
    BY DEF Sound, Types
  <1>3. u # t /\ parse'[u] = parse[u]
    BY <1>1, <1>2 DEF Closed, NewParse
  <1>4. /\ r[1] \in Namespace /\ u.project \in Project /\ parse[u].base[r[1]] # Unknown
        /\ declared[r[1]] # None /\ u.project \notin suspect
    BY <1>1, <1>3, SeenGrounded
  <1>5. CASE u.project # q
    BY <1>1, <1>3, <1>4, <1>5 DEF ReadsCurrent
  <1>6. CASE u.project = q /\ r[1] \notin TouchedBy(t)
    <2>1. cache[q].values \in Contents
      BY <1>1, <1>2 DEF Copies
    <2>2. cache'[q].values[r[1]] = cache[q].values[r[1]]
      BY <1>1, <1>4, <1>6, <2>1, OverlaidOne
    <2> QED BY <1>1, <1>3, <1>4, <1>6, <2>2 DEF ReadsCurrent
  <1>7. CASE u.project = q /\ r[1] \in TouchedBy(t)
    <2>1. /\ parse[u].base[r[1]] =< revisions[q][r[1]]
          /\ revisions[q][r[1]] =< cache[q].revisions[r[1]]
      BY <1>1, <1>4, <1>7 DEF Sound, Followed
    <2>2. /\ cache[q].revisions[r[1]] =< NextRevision(q, r[1]) - 1
          /\ NextRevision(q, r[1]) \in Nat
      BY <1>1, <1>4, NextRevisionType
    <2>3. /\ parse[u].base[r[1]] \in Nat \cup {Unknown} /\ revisions[q][r[1]] \in Nat
          /\ cache[q].revisions[r[1]] \in Nat \cup {Unknown}
      BY <1>1, <1>2, <1>4 DEF Sound, Types, Parses, Copies
    <2>4. parse[u].base[r[1]] = NextRevision(q, r[1])
      BY <1>1, <1>3, <1>4, <1>7
    <2> QED BY <2>1, <2>2, <2>3, <2>4 DEF Unknown
  <1> QED BY <1>5, <1>6, <1>7

LEMMA StepFresh ==
    ASSUME Sound, ReadsCurrent, [Next]_vars
    PROVE  ReadsCurrent'
  <1>1. CASE Registering
    BY <1>1, RegisteringReloads, ReloadsFresh
  <1>2. CASE \E q \in Project : Open(q) \/ OpenFails(q)
    BY <1>2, OpenFresh
  <1>3. CASE \E t \in Parse, n \in Namespace : Read(t, n)
    BY <1>3, ReadFresh
  <1>4. CASE \E t \in Parse, n \in Namespace, k \in Key, v \in Val \cup {None} :
                Write(t, n, k, v)
    BY <1>4, WriteFresh
  <1>5. CASE \E t \in Parse : Commit(t)
    BY <1>5, CommitFresh
  <1>6. CASE \E t \in Parse : Cancel(t)
    <2>1. PICK t \in Parse : Cancel(t)
      BY <1>6
    <2>2. /\ parse' = [parse EXCEPT ![t] = Closed] /\ UNCHANGED <<cache, revisions, suspect>>
          /\ parse \in [Parse -> Parses]
      BY <2>1 DEF Cancel, Sound, Types
    <2>3. \A u \in Parse : parse'[u].status = "open" => parse'[u] = parse[u]
      BY <2>2 DEF Closed, NewParse
    <2> QED BY <2>2, <2>3 DEF ReadsCurrent
  <1>7. CASE Crash \/ \E t \in Parse : CrashInCommit(t)
    <2>1. parse' = [t \in Parse |-> IF Started(t) THEN Closed ELSE NewParse]
      BY <1>7 DEF Crash, CrashInCommit, Restart
    <2>2. \A t \in Parse : parse'[t].saw = {}
      BY <2>1 DEF Closed, NewParse
    <2> QED BY <2>2 DEF ReadsCurrent
  <1>8. CASE UNCHANGED vars
    BY <1>8 DEF vars, memory, ReadsCurrent
  <1> QED BY <1>1, <1>2, <1>3, <1>4, <1>5, <1>6, <1>7, <1>8 DEF Next

(* While a parse depends on the revision that commits are checked against, *)
(* what it read is still what the copy holds: two counters kept apart, the *)
(* table of revisions and the copy, never let an overwritten read through, *)
(* unless a reload failed (committed_revision and commit_writes,           *)
(* mod.rs:1332 and 1398).                                                  *)
THEOREM ReadsCorrect == Spec => []ReadsCurrent
  <1>1. Init => ReadsCurrent
    BY DEF Init, ReadsCurrent, NewParse
  <1>2. Sound /\ ReadsCurrent /\ [Next]_vars => ReadsCurrent'
    BY StepFresh
  <1> QED BY <1>1, <1>2, AlwaysSound, PTL DEF Spec

-----------------------------------------------------------------------------
ContentsStep ==
    \A q \in Project, n \in Namespace :
        disk'[q].values[n] # disk[q].values[n] =>
           \/ \E t \in Parse : /\ t.project = q /\ parse[t].status = "open"
                               /\ parse'[t].status = "closed" /\ n \in TouchedBy(t)
           \/ /\ disk'[q].meta[n].schema # disk[q].meta[n].schema
              /\ disk'[q].values[n] = NoValues[n]

(* To synchronize a database changes only what it resets.                  *)
LEMMA SynchronizedContents ==
    ASSUME Sound, NEW records \in Records, NEW n \in Namespace, NEW q \in Project,
           disk'[q] = Synchronized(disk[q], records)
    PROVE  \/ disk'[q].values[n] = disk[q].values[n]
           \/ /\ disk'[q].meta[n].schema # disk[q].meta[n].schema
              /\ disk'[q].values[n] = NoValues[n]
  <1>1. disk[q] \in Databases
    BY DEF Sound, Types
  <1>2. CASE Reset(disk[q], records, n)
    BY <1>1, <1>2, SynchronizedOne DEF Reset, Changed
  <1>3. CASE ~Reset(disk[q], records, n)
    BY <1>1, <1>3, SynchronizedOne
  <1> QED BY <1>2, <1>3

LEMMA PersistContents ==
    ASSUME Sound, NEW t \in Parse, Persist(t), parse'[t].status = "closed"
    PROVE  ContentsStep
  <1>1. /\ parse[t].status = "open" /\ t.project \in Project
        /\ \A p \in Project : p # t.project => disk'[p] = disk[p]
        /\ disk'[t.project].values = Overlaid(disk[t.project].values, t)
        /\ disk[t.project].values \in Contents
    BY PersistDisk, ProjectAssumption DEF Persist, Sound, Types, Databases
  <1>2. \A n \in Namespace : n \notin TouchedBy(t) =>
           disk'[t.project].values[n] = disk[t.project].values[n]
    BY <1>1, OverlaidOne
  <1> QED BY <1>1, <1>2 DEF ContentsStep

LEMMA StepContents ==
    ASSUME Sound, [Next]_vars
    PROVE  ContentsStep
  <1>1. CASE Registering
    <2>1. PICK records \in Records : Reloads(records)
      BY <1>1, RegisteringReloads
    <2>2. \A q \in Project : \/ disk'[q] = disk[q]
                             \/ disk'[q] = Synchronized(disk[q], records)
      BY <2>1 DEF Reloads, Skipped, Renewed, Broken
    <2> QED BY <2>2, SynchronizedContents DEF ContentsStep
  <1>2. CASE \E q \in Project : Open(q) \/ OpenFails(q)
    <2>1. PICK q \in Project : disk' = [disk EXCEPT ![q] = Synchronized(disk[q], declared)]
      BY <1>2 DEF Open, OpenFails
    <2>2. disk \in [Project -> Databases] /\ declared \in Records
      BY DEF Sound, Types
    <2>3. \A p \in Project : \/ disk'[p] = disk[p]
                             \/ disk'[p] = Synchronized(disk[p], declared)
      BY <2>1, <2>2
    <2> QED BY <2>2, <2>3, SynchronizedContents DEF ContentsStep
  <1>3. CASE \E t \in Parse, n \in Namespace : Read(t, n)
    BY <1>3 DEF Read, ContentsStep
  <1>4. CASE \E t \in Parse, n \in Namespace, k \in Key, v \in Val \cup {None} :
                Write(t, n, k, v)
    BY <1>4 DEF Write, ContentsStep
  <1>5. ASSUME NEW t \in Parse, Commit(t) PROVE ContentsStep
    <2>1. parse'[t].status = "closed"
      BY <1>5 DEF Commit, Closed, NewParse, Sound, Types
    <2> QED BY <1>5, <2>1, PersistContents DEF Commit
  <1>6. ASSUME NEW t \in Parse, CrashInCommit(t) PROVE ContentsStep
    <2>1. parse' = [u \in Parse |-> IF Started(u) THEN Closed ELSE NewParse] /\ Persist(t)
      BY <1>6 DEF CrashInCommit, Restart
    <2>2. PICK n \in Namespace, k \in Key : parse[t].writes[n][k] # Untouched
      BY <2>1 DEF Persist, TouchedBy
    <2>3. Started(t)
      BY <2>2, ClosedClean DEF Started
    <2>4. parse'[t].status = "closed"
      BY <2>1, <2>3 DEF Closed, NewParse
    <2> QED BY <2>1, <2>4, PersistContents
  <1>7. CASE Crash \/ \E t \in Parse : Cancel(t)
    BY <1>7 DEF Crash, Cancel, ContentsStep
  <1>8. CASE UNCHANGED vars
    BY <1>8 DEF vars, ContentsStep
  <1> QED BY <1>1, <1>2, <1>3, <1>4, <1>5, <1>6, <1>7, <1>8 DEF Next

(* The contents of a namespace on disk change only by the commit of a      *)
(* parse that wrote it, or are reset with its schema: no crash, fault or   *)
(* declaration of another namespace touches them (synchronize and commit,  *)
(* persistent.rs:53 and 120).                                              *)
THEOREM ContentsCorrect == Spec => ContentsChange
  <1>1. Sound /\ [Next]_vars => [ContentsStep]_vars
    BY StepContents
  <1> QED BY <1>1, AlwaysSound, PTL DEF Spec, ContentsChange, ContentsStep

=============================================================================
