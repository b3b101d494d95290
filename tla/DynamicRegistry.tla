-------------------------- MODULE DynamicRegistry ---------------------------
(***************************************************************************)
(* The dynamic syntax registry, syntaxes/src/dynamic.rs: what components   *)
(* add to the static catalog, for every document (the initial layer, made  *)
(* when components are loaded) and for one revision of a document.         *)
(*                                                                         *)
(* The first revision of a document, and every newer one, starts from a    *)
(* copy of the initial layer; it can be changed until it is frozen into a  *)
(* snapshot, which then answers every later request.  Clients hold update  *)
(* handles and savepoints across other operations, and the registry is     *)
(* shared between threads: every operation takes its mutex once, so each   *)
(* is one action, in any order.                                            *)
(*                                                                         *)
(* Abstractions: an item of a component is the order number it was         *)
(* declared under, definitions and overrides alike; what can make a        *)
(* snapshot fail is a reference to an item that is not there, or a cycle   *)
(* of references; counters do not saturate.  Inputs the validators refuse  *)
(* change nothing and are left out.                                        *)
(***************************************************************************)
EXTENDS Integers, FiniteSets, Sequences, FiniteSetsExt

CONSTANTS
    Component,   \* component ids
    Local,       \* local ids of their items
    Names,       \* [Component \X Local -> SUBSET (Component \X Local)]: the
                 \* items that before and after of an item refer to
    Doc,         \* document ids
    MaxItems,    \* MAX_ITEMS_PER_COMPONENT
    Update,      \* update handles
    Slot,        \* places for a savepoint
    MaxDocRevision,  \* bound: revisions of a document
    MaxOps,      \* bound: operations staged in an update
    MaxRegistry  \* bound: registry revisions

Id == Component \X Local
ASSUME RegistryAssumption ==
    /\ Names \in [Id -> SUBSET Id]
    /\ {MaxItems, MaxDocRevision, MaxOps, MaxRegistry} \subseteq Nat

VARIABLES
    initial,   \* the initial layer: a ComponentLayer for some components
    layers,    \* the layer of every document, revision 0 when there is none
    latest,    \* latest_document_revisions
    order,     \* next_declaration_order
    revision,  \* the registry revision
    update,    \* the update handles
    saves,     \* the savepoints the clients hold
    issued     \* history: the snapshots made so far

registry == <<initial, layers, latest, order, revision>>
vars     == <<registry, update, saves, issued>>

Absent == 0
NoItem == [l \in Local |-> Absent]
NoLayer == [c \in {} |-> NoItem]    \* no component has one
None    == [components |-> NoLayer, at |-> -1]    \* no snapshot

(* A layer holds the items of the components that have committed to it,    *)
(* even when they have removed every one since.                            *)
IsLayer(components) ==
    /\ DOMAIN components \subseteq Component
    /\ \A c \in DOMAIN components : components[c] \in [Local -> Nat]

Items(components, c) == IF c \in DOMAIN components THEN components[c] ELSE NoItem
Of(components, c)    == {l \in Local : Items(components, c)[l] # Absent}
Without(components, c) ==
    [k \in DOMAIN components \ {c} |-> components[k]]
With(components, c, items) ==
    [k \in DOMAIN components \cup {c} |-> IF k = c THEN items ELSE components[k]]

Frozen(d)     == layers[d].frozen # None
(* document: the revision asked for is the latest, and it has a layer      *)
Current(d, r) == latest[d] = r /\ layers[d].revision = r /\ r # 0

-----------------------------------------------------------------------------
(* build_snapshot succeeds: every reference is to an item of the snapshot, *)
(* and they can be put in an order (topological_order).                    *)
Present(components) == {i \in Id : i[2] \in Of(components, i[1])}
Buildable(components) ==
    LET ids == Present(components) IN
    /\ \A i \in ids : Names[i] \subseteq ids
    /\ \E rank \in [ids -> 1..Cardinality(Id)] :
          \A i \in ids : \A j \in Names[i] : rank[i] < rank[j]

Init ==
    /\ initial = NoLayer
    /\ layers = [d \in Doc |-> [revision |-> 0, components |-> NoLayer,
                               frozen |-> None]]
    /\ latest = [d \in Doc |-> 0]
    /\ order = 1
    /\ revision = 0
    /\ update = [u \in Update |-> [state |-> "idle"]]
    /\ saves = [s \in Slot |-> [state |-> "idle"]]
    /\ issued = {}

(* begin_document *)
Begun(d, r) ==
    IF r > layers[d].revision
    THEN [revision |-> r, components |-> initial, frozen |-> None]
    ELSE layers[d]

BeginDocument(d, r) ==
    /\ r >= latest[d]
    /\ latest' = [latest EXCEPT ![d] = r]
    /\ layers' = [layers EXCEPT ![d] = Begun(d, r)]
    /\ UNCHANGED <<initial, order, revision, update, saves, issued>>

-----------------------------------------------------------------------------
(* begin_initial_update and begin_document_update.  An update knows the    *)
(* ids its component had when it began.                                    *)
NewUpdate(c, d, r, components) ==
    [state |-> "open", component |-> c, doc |-> d, revision |-> r,
     known |-> Of(components, c), ops |-> <<>>]

BeginInitialUpdate(u, c) ==
    /\ update[u].state = "idle"
    /\ \E d \in Doc :
          update' = [update EXCEPT ![u] = NewUpdate(c, d, 0, initial)]
    /\ UNCHANGED <<registry, saves, issued>>

BeginDocumentUpdate(u, c, d, r) ==
    /\ update[u].state = "idle"
    /\ Current(d, r)
    /\ ~Frozen(d)
    /\ update' = [update EXCEPT ![u] = NewUpdate(c, d, r, layers[d].components)]
    /\ UNCHANGED <<registry, saves, issued>>

(* DynamicSyntaxUpdate::register and register_override, then insert_id     *)
Register(u, l) ==
    /\ update[u].state = "open" /\ Len(update[u].ops) < MaxOps
    /\ l \notin update[u].known
    /\ Cardinality(update[u].known) < MaxItems
    /\ update' = [update EXCEPT ![u].known = @ \cup {l},
                                ![u].ops = Append(@, [add |-> TRUE, local |-> l])]
    /\ UNCHANGED <<registry, saves, issued>>

(* DynamicSyntaxUpdate::remove *)
Remove(u, l) ==
    /\ update[u].state = "open" /\ Len(update[u].ops) < MaxOps
    /\ l \in update[u].known
    /\ update' = [update EXCEPT ![u].known = @ \ {l},
                                ![u].ops = Append(@, [add |-> FALSE, local |-> l])]
    /\ UNCHANGED <<registry, saves, issued>>

(* Mutant: an item is numbered by its place among those of its component.  *)
PlaceInLayer(items, next) == 1 + Cardinality({l \in Local : items[l] # Absent})
DeclarationOrder(items, next) == next

(* The staged operations, in order, on the component's items as they are:  *)
(* the last operation on an item decides, and every registration takes the *)
(* next declaration order, that of an item replaced later too.             *)
On(ops, l)   == {i \in 1..Len(ops) : ops[i].local = l}
Adds(ops, i) == Cardinality({j \in 1..i : ops[j].add})

Outcome(items, ops, l) ==
    LET last == Max(On(ops, l)) IN
    IF On(ops, l) = {} THEN items[l]
    ELSE IF ops[last].add THEN DeclarationOrder(items, order + Adds(ops, last - 1))
    ELSE Absent

Applied(items, ops) ==
    [items |-> [l \in Local |-> Outcome(items, ops, l)],
     next  |-> order + Adds(ops, Len(ops))]

(* Mutant: only insert_id counts the items.                                *)
CountedWhenStaged(items) == TRUE
Fits(items) == Cardinality({l \in Local : items[l] # Absent}) <= MaxItems

(* Mutant: an update of any revision of the document goes into its layer.  *)
AnyRevision(d, r) == layers[d].revision # 0 /\ ~Frozen(d)
Mutable(d, r) == Current(d, r) /\ ~Frozen(d)

(* DynamicSyntaxUpdate::commit.  The handle is consumed; the declaration   *)
(* orders are consumed even when there are too many items.                 *)
CommitUpdate(u) ==
    LET up  == update[u]
        new == Applied(Items(IF up.revision = 0 THEN initial
                             ELSE layers[up.doc].components, up.component), up.ops)
    IN
    /\ up.state = "open" /\ revision < MaxRegistry
    /\ update' = [update EXCEPT ![u] = [state |-> "done"]]
    /\ IF up.revision # 0 /\ ~Mutable(up.doc, up.revision)
       THEN UNCHANGED registry
       ELSE /\ order' = new.next
            /\ IF ~Fits(new.items)
               THEN UNCHANGED <<initial, layers, revision>>
               ELSE /\ initial' = IF up.revision = 0
                              THEN With(initial, up.component, new.items) ELSE initial
                    /\ layers' = IF up.revision = 0 THEN layers
                                 ELSE [layers EXCEPT ![up.doc].components =
                                         With(@, up.component, new.items)]
                    /\ revision' = revision + 1
            /\ UNCHANGED latest
    /\ UNCHANGED <<saves, issued>>

(* DynamicSyntaxUpdate::rollback, or a drop                                *)
DropUpdate(u) ==
    /\ update[u].state = "open"
    /\ update' = [update EXCEPT ![u] = [state |-> "done"]]
    /\ UNCHANGED <<registry, saves, issued>>

-----------------------------------------------------------------------------
Savepoint(s, d) ==
    /\ Current(d, layers[d].revision)
    /\ ~Frozen(d)
    /\ saves' = [saves EXCEPT ![s] = [state |-> "taken", doc |-> d,
                   revision |-> layers[d].revision,
                   components |-> layers[d].components,
                   at |-> revision]]
    /\ UNCHANGED <<registry, update, issued>>

(* Mutant: a rollback brings the registry revision back with it.           *)
SavedRevision(s) == saves[s].at
(* rollback_to and abort_document_to on the registry revision              *)
NextRevision(s) == (IF revision > saves[s].at THEN revision ELSE saves[s].at) + 1

(* rollback_to, and abort_document_to, which also undoes a freeze          *)
Restore(s, abort) ==
    LET d == saves[s].doc IN
    /\ saves[s].state = "taken" /\ revision < MaxRegistry
    /\ Current(d, saves[s].revision)
    /\ abort \/ ~Frozen(d)
    /\ layers' = [layers EXCEPT ![d].components = saves[s].components,
                              ![d].frozen = None]
    /\ revision' = NextRevision(s)
    /\ UNCHANGED <<initial, latest, order, update, saves, issued>>

(* Mutant: a freeze is numbered as the change it is not.                   *)
NextStamp == revision + 1
Stamp == revision

(* freeze; frozen already, it answers with the snapshot there is.          *)
Freeze(d) ==
    /\ Current(d, layers[d].revision)
    /\ ~Frozen(d)
    /\ Buildable(layers[d].components)
    /\ layers' = [layers EXCEPT ![d].frozen =
                    [components |-> layers[d].components, at |-> Stamp]]
    /\ issued' = issued \cup {[doc |-> d, revision |-> layers[d].revision,
                               snapshot |-> layers'[d].frozen]}
    /\ UNCHANGED <<initial, latest, order, revision, update, saves>>

(* Mutant: a component is removed from frozen layers too.                  *)
EveryLayer(d) == TRUE
(* remove_component reaches the layers that can still change.              *)
Reached(d) == ~Frozen(d)

RemoveComponent(c) ==
    /\ initial' = Without(initial, c)
    /\ layers' = [d \in Doc |-> IF Reached(d)
                                THEN [layers[d] EXCEPT !.components = Without(@, c)]
                                ELSE layers[d]]
    /\ <<initial', layers'>> # <<initial, layers>> /\ revision < MaxRegistry
    /\ revision' = revision + 1
    /\ UNCHANGED <<latest, order, update, saves, issued>>

Next ==
    \/ \E d \in Doc, r \in 1..MaxDocRevision : BeginDocument(d, r)
    \/ \E u \in Update, c \in Component :
          \/ BeginInitialUpdate(u, c)
          \/ \E d \in Doc, r \in 1..MaxDocRevision : BeginDocumentUpdate(u, c, d, r)
    \/ \E u \in Update, l \in Local : Register(u, l) \/ Remove(u, l)
    \/ \E u \in Update : CommitUpdate(u) \/ DropUpdate(u)
    \/ \E s \in Slot, d \in Doc : Savepoint(s, d)
    \/ \E s \in Slot, abort \in BOOLEAN : Restore(s, abort)
    \/ \E d \in Doc : Freeze(d)
    \/ \E c \in Component : RemoveComponent(c)

Spec == Init /\ [][Next]_vars

-----------------------------------------------------------------------------
Contents == {initial} \cup {layers[d].components : d \in Doc}

TypeOK ==
    /\ \A components \in Contents : IsLayer(components)
    /\ \A d \in Doc : /\ layers[d].revision \in 0..latest[d]
                      /\ Frozen(d) => layers[d].frozen.at \in 0..revision
    /\ latest \in [Doc -> 0..MaxDocRevision]
    /\ order \in Nat \ {0}
    /\ revision \in 0..MaxRegistry
    /\ \A u \in Update : update[u].state = "open" =>
          update[u] \in [state : {"open"}, component : Component, doc : Doc,
                         revision : 0..MaxDocRevision, known : SUBSET Local,
                         ops : Seq([add : BOOLEAN, local : Local])]
    /\ \A s \in Slot : saves[s].state = "taken" =>
          /\ IsLayer(saves[s].components)
          /\ saves[s].at \in 0..revision
          /\ saves[s].revision \in 1..latest[saves[s].doc]

(* A frozen layer is its snapshot: no update, rollback or unloading that   *)
(* was under way changes what was frozen (freeze, dynamic.rs:475).         *)
SnapshotIsLayer ==
    \A d \in Doc : Frozen(d) => layers[d].frozen.components = layers[d].components

(* A handle taken for one revision of a document never changes another:    *)
(* an update that outlives its revision fails (commit, dynamic.rs:703).    *)
StaleHandlesHarmless ==
    [][\A u \in Update, d \in Doc :
         /\ update[u].state = "open" /\ update'[u].state = "done"
         /\ layers'[d].components # layers[d].components
         => /\ update[u].doc = d /\ update[u].revision = latest[d]
            /\ ~Frozen(d)]_vars

(* Within a layer two items never share a declaration order, so candidates *)
(* of equal priority have one order, whatever was rolled back or copied    *)
(* (candidate_sort_key, dynamic.rs:1107).                                  *)
OrdersUnique ==
    \A components \in Contents :
        \A i, j \in Present(components) :
            components[i[1]][i[2]] = components[j[1]][j[2]] => i = j

(* The registry revision names a snapshot of a document revision: what is  *)
(* frozen after an abort, if it differs, carries another number            *)
(* (abort_document_to, dynamic.rs:455).                                    *)
SnapshotsNamed ==
    \A a, b \in issued :
        /\ a.doc = b.doc /\ a.revision = b.revision
        /\ a.snapshot.at = b.snapshot.at
        => a.snapshot.components = b.snapshot.components

(* No component exceeds its number of items, however many of its updates   *)
(* are open at once: an update counts only the ids it knows (insert_id     *)
(* and commit, dynamic.rs:703 and 812).                                    *)
ItemsBounded ==
    \A components \in Contents, c \in Component :
        Cardinality(Of(components, c)) <= MaxItems
=============================================================================
