# Verification of Skript-LSP

TLA+ models of the parts of this repository whose correctness depends on the
order in which things happen: the transactional `StateStore`, the speculation of
the expression parser on top of it, its persistent scope on disk, the dynamic
syntax registry, the host that runs component hooks over both and takes a
document through its stages, and what happens inside these stages: the walks of
Tree and AST macros, the backtracking pattern matcher with its hooks, and the two
passes over Structures with their functions. TLC checks every module on small
instances; what the runs check of safety, TLAPS proves for every value of the
constants.

Contents: 1 the system · 2 modules and code · 3 runs and bounds · 4 fairness ·
5 proofs · 6 where code and documentation disagree · 7 what is not modelled ·
8 plan.

## 1. The system

A parse goes through a *host* (`parser-wasm`), which runs hooks of WebAssembly
*components* (the CoreLibrary and addons) around a native parser
(`skript-parser`). A component keeps its state in namespaces of the `StateStore`
and may register syntax for the document in the *dynamic registry*. Everything a
parse does to the first is an overlay until the parse commits; what it does to
the second goes to the layer of the document's revision.

```
  caller (editor, REPL)
     |  parse_document, dispatch, expand_text, load_component, commit, cancel
     v
  ParserHost  ---------------- one operation at a time (&mut self) ----------
     |        \                          \
     |         \ hooks, nested parses     \ savepoint / freeze / abort
     |          v                          v
     |     components (wasm)          DynamicSyntaxRegistry (own mutex)
     |          |  get / put / cas / scan          ^ register / remove
     |          v                                  |
     |     InvocationTransaction ---- merge ---> ParseTransaction (Clone, any thread)
     v                                             |  commit
  skript-parser: memo + candidates (deltas) -------+--> StateStore --> redb per project
```

### Components, their state, and what makes them correct

| component (source) | state | operations | what is hard | correctness |
|---|---|---|---|---|
| **StateStore** (`parser-wasm/src/state/mod.rs`) | committed contents of the document, project and persistent scopes; a revision per (scope, namespace); latest revision of every document; overlays of parses and calls | `begin_parse`, `begin_invocation`, `get`, `scan_prefix`, `put`/`remove`/`compare_and_swap`, merge, `savepoint`/`rollback_to`, `commit`, `cancel` | values are read live while other parses commit, revisions are learned once and cached; quotas are checked at merge and not at commit | committed parses serializable, quota never exceeded, newer revision wins, conflicts only for a cause |
| **Candidate deltas** (`state/mod.rs` `defer_since`, `apply_delta`; `host.rs` `WasmExpressionEnvironment`) | stack of candidate scopes, memoized deltas, receipts of applied deltas, overlay numbers | open, defer, reject, accept, keep, resume a matcher candidate, select | a delta is computed on one branch and applied on another; numbers are compared, contents are not | equal numbers mean equal contents; selecting rebuilds the candidate; no call's work applied twice |
| **Persistent project state** (`state/persistent.rs`, and `open`/commit of `state/mod.rs`) | database per project, copy in memory, revision table of the project, declarations of namespaces | declare, open, synchronize/reset, reload, commit, crash | three places hold a revision; a declaration may come late, with another schema, and may fail half way | copy, disk and table in step; data never read under another schema |
| **Dynamic syntax registry** (`syntaxes/src/dynamic.rs`) | initial layer, a layer per document, frozen snapshots, declaration orders, registry revision | `begin_document`, updates (register, remove, commit), savepoint, `rollback_to`, `abort_document_to`, `freeze`, `remove_component` | handles are held across other operations; a frozen layer can be aborted and frozen again | a frozen layer answers the same for ever; stale handles do nothing; orders unique; limit kept |
| **ParserHost** (`parser-wasm/src/host.rs` 8667-11660) | components (ready, disabled, unloaded), the dispatch in progress | load, unload, `begin_parse`, `dispatch(_in_parse)`, `expand_text(_in_parse)`, nested parse requests | two stores must be kept together through traps, rejections, refused output, failing snapshots and failing commits | a failed operation leaves no work; no syntax of unloaded components |
| **Document pipeline** (`host/document.rs`, `host.rs` 10380-10600, `host/ast_macro.rs`) | job with stage, savepoints of stage and node, cancellation token | `parse_document`: Text, Tree, Syntax, AST, commit; cancel at any time | failure and cancellation after the layer is frozen, beside operations and owners of other transactions | all or nothing; a cancelled document never commits |
| **Macro expansion** (`host.rs` `expand_tree_in_parse`, `host/ast_macro.rs`, `tree_edit.rs`, `skript-parser/src/expansion.rs`) | the active tree, the recursion over it, cycle keys, counters of calls, the savepoints of stage and node | walk roots, children and generated nodes; accept, replace a node or its children, reject, fail, trap | nodes are named by path or number while macros replace and renumber them; generated nodes are walked again; limits are hit half way | every node offered once, the walk ends, nesting bounded, an edit stays only with its state |
| **Pattern matcher and matching hooks** (`skript-parser/src/pattern_match.rs`, `host.rs` `WasmPatternHooks`) | frames of nested invocations, stack of open scopes, checkpoints of branches, states of accepted candidates | before/after hooks of Definition, Registration, Pattern and element; branch, end of a sequence, nested Expressions, completion, selection | matcher and host keep two views of what was tried and must undo the same things; hooks may override failures | a branch sees its own work only; a rejected scope leaves nothing; the selected candidate's state stays |
| **Structures and functions** (`skript-parser/src/structure.rs`, `function_registry.rs`, `function.rs`) | ranked candidates of a root, context of directives, function registry and its order numbers, what each root selected | match, enter and reject headers; parse, accept and reject bodies, alternatives; register, look up, savepoint, freeze | headers of all roots are entered before any body; a body fails long after its header declared functions | state, context and registry hold what the selected Structures did; a forward reference finds what the frozen registry says |
| Subscriptions, hook order (`host/subscriptions.rs`) | sorted lists | filter, order | ties, selectors | deterministic order |
| Default expressions (`host/default_expression.rs`) | none of its own | select a default | search over the catalog | documented priority |
| WIT boundary, ABI negotiation (`lib.rs`, `host/public_data.rs`) | none | convert, negotiate | versions | round trip |
| Static catalog and candidate order (`syntaxes/src/catalog.rs`, `dynamic.rs` `build_snapshot`) | immutable tables | look up, order | topological order with ties | order respects before/after |
| Parsers (`skript-parser/src/{expression,condition,effect,section}.rs`) | memo, failure notes | parse | speculation (modelled), grammar (data) | what is selected is what was parsed |
| Events, overload matching (`event.rs`, `function.rs`) | none | match a header, match a call with an overload | data | documented rules |
| Source maps, raw trees (`source_map.rs`, `raw_tree.rs`) | none | compose, edit | composition of mapped edits | spans stay inside the source |
| Pattern compiler, plural rules (`syntax-pattern-parser/src`) | none | compile | grammar | pure |
| Schema loader (`ssg/src`) | none | load, validate, convert | input validation | pure |
| CoreLibrary (`core-library/src`) | namespaces of its own in the StateStore | hooks | a client of the above | Skript semantics |
| REPL (`utilities/skript-repl/src`) | session | one document after another | none | - |
| `skripthub`, `xtask`, test components, root scaffold | - | - | - | tooling |

Interactions. `ParserHost` is used through `&mut self`, so its operations do not
interleave with each other; what other threads can do meanwhile is to commit or
cancel a `ParseTransaction`, which is `Clone` and thread-safe, and to use the
`StateStore` and the registry directly. The parser calls back into the host
(a candidate scope, a memo lookup, a hook), the host calls components, and a
component's answer may ask the host for a nested parse.

`PROJECT.json` lists the hazards found in this code, each at its line, with the
properties that would catch it.

## 2. Modules and code

Each module begins with what it models and what it abstracts. In all of them an
action is a whole handler, with its early returns as guards; definitions whose
comment begins with "Mutant" are the plausible bugs against which the properties
are tried, and no specification uses them.

| module | models | extends or uses |
|---|---|---|
| `StateData` | scopes, namespaces, ownership, quotas, patches of contents | |
| `SerialStore` | abstract: a store without overlays, where a parse commits only if every read it kept still holds | `StateData` |
| `StateStore` | the store with parse and call overlays, cached revisions, savepoints; `Serial` is its refinement mapping to `SerialStore` | `StateData`, instance of `SerialStore` |
| `CandidateDeltas` | speculation of the expression parser | `StateStore`, whose actions it conjoins with its own history |
| `PersistentProject` | one persistent scope per project on disk | |
| `DynamicRegistry` | the registry | |
| `ParserHost` | the host over an overlay and a layer | |
| `DocumentPipeline` | `parse_document` among all the other operations of the host | `ParserHost`, whose actions are its environment and its Text stage |
| `MacroExpansion` | the recursive walks of Tree and AST macros | |
| `PatternMatch` | the pattern matcher over the transaction its hooks write into | |
| `StructurePasses` | the two passes over Structures, with the function registry | |
| `StoreProofs` | proofs about the store, and about speculation over it | `CandidateDeltas` (hence `StateStore`) |
| `PersistentProofs` | proofs about persistent projects | `PersistentProject` |
| `RegistryProofs` | proofs about the registry | `DynamicRegistry` and the library's theorem modules |
| `PatternProofs`, `MatchProofs` | proofs about the matcher and its host | `PatternMatch` and the library's theorem modules |
| `HostProofs` | proofs about the host and its documents | `DocumentPipeline` and the library's theorem modules |
| `StructureProofs` | proofs about the two passes | `StructurePasses` and the library's theorem modules |
| `MacroProofs` | proofs about the walk of the macros | `MacroExpansion` and the library's theorem modules |
| `MC...` | instances for TLC | |

**StateStore.** `docs`, `shared` are the committed contents (document scope; the
project scopes), `rev` the table of revisions, `latest` the document revisions,
`frame[p]` the overlay of a parse: staged writes, the base revision it depends on
per namespace, the parse-local revision of the namespace (`current`), the overlay
number; `mint` hands the numbers out. `call[c]` is an `InvocationTransaction`:
its writes and the parse-local revision it observed. `saw` is a history of the
values that reads returned; it exists to state serializability. `Read` is the
body shared by `get` and `scan_prefix`; `Write` that of `put`, `remove` and a
successful `compare_and_swap`; `Merge` is `merge_into`, which may refuse
(observed overlay is older, quota) and then discards. A document-scope namespace
has one revision for all documents, as the key in the code has; conflicts between
documents that share no data are therefore possible, and conservative.

**CandidateDeltas.** `stack` are the candidate scopes with the branch each began
from, `deltas` the memo (a node is its delta), `applied` the receipts that keep
`apply_delta` from applying one delta twice, `kept` a matcher candidate put aside and
resumed later. A memo hit is a delta whose overlay number equals that of the
branch. `work` counts how often the work of a call is on the branch.
A candidate covers a text, a set of positions: `Open` begins one inside the text
being parsed (`Extent`), and `Apart` says that what the parser selects in a candidate
lies beside what it selected before, as the pieces of a list do. This is all
that keeps the parts of a selected node from being selected again: `apply_delta` looks
for the receipt of the delta itself and not for those of its parts. Default expressions
have no text; they are selected where they are made and count as calls of the scope
around them. A nested parse that an addon asks for has a session, and deltas, of its own.

**PersistentProject.** `disk`, the copy and `revisions` are the three holders of
a revision. `Register`/`RegisterFails` walk the open projects in map order as
`register_component` does, `Open`/`OpenFails` make the copy, `Commit` writes disk,
then copy, then table; `CrashInCommit` stops after the first of these. A redb
transaction is atomic; that is external and assumed.

**DynamicRegistry.** `initial`, `layers[d]` (contents, revision, frozen snapshot),
`update` (handles with a base and staged operations), `saves` (savepoints),
counters. A commit applies the staged operations in order; `On` and `Outcome` say in
closed form what that leaves of an item, its last operation, and the order number it
gets, which counts the registrations up to there. What can stop a snapshot from being built is a reference to an absent
item or a cycle of references.

**ParserHost.** `run` is the dispatch or text expansion in progress: position in
the subscriptions, what it accepted, its savepoints (`base` of the operation,
`cont` of the continuation of a call, `saved` of the layer). Each action is one
thing that can happen to the next component: it does not apply, is disabled,
traps, rejects, is accepted, has its output refused, asks for nested parses.
`txn[t].kept` is the set of accepted works on the overlay. Two histories say what became
of operations that did not end well: `failed` has all their works; `withdrawn` those
that no layer that is still open may keep, which are all but the ones of a
`dispatch` or `expand_text` whose calls were accepted and whose snapshot cannot be built.

**DocumentPipeline.** `job` is the call of `parse_document`, `token` its
cancellation. Stages are entered only after `check_cancelled`; nodes of the Tree
and AST stages and candidates of the Syntax stage are savepoint frames. `Others`
composes it with the rest of `ParserHost`: while no document is in progress every
action of `ParserHost` may happen, while one is only its own calls (in the Text
stage) and what owners of other transactions do, because `parse_document` has
the host to itself. `ParserHost` therefore has no run of its own: its states
are those of this run in which `job` is idle.

**MacroExpansion.** A forest is the sequence of its nodes in preorder with their
levels, so that a subtree is a block and an edit a splice; that is also how the code
stores a tree after an edit (`flatten_tree`, `canonicalize_ast`). `stack` is the
recursion of `expand_tree_node` and `expand_ast_node`: a frame waits for a macro, walks
what a macro generated, or walks children. `active` is `pipeline.active`, the cycle keys of
the calls whose output is being walked; `calls` its counter. `numbering` is
how the nodes of an AST are named: `AstBuilder` numbers the parser's output in
postorder, an edit renumbers in preorder. `kept` are the calls whose writes the
transaction still holds; a failure goes back to the savepoint of the node, a
rejection or an error to that of the stage. The marks on nodes and `by` are history.

**PatternMatch.** `engines` are the invocations of the matcher, one within the other
where a typed element asks for nested Expressions; each has its candidate, pattern and
scope (`at`, `scope`), its search (`walk`, an agenda of states to explore for every
sequence and element that is open) and its accepted matches. `scopes`, `branches`
and `last` are the fields of the same purpose of `WasmPatternHooks`: where to roll back
to when a scope is rejected, the checkpoint of every branch, the state of the candidate
that was just accepted. `log` is the transaction with the effects that go with
it. `path`, `undo` and `chosen` are history: what the matcher has adopted, with what an
overridden failure leaves on its way, and the candidate whose state is selected. The hook of
a scope may answer that it goes on, fails, matches, or matches a part of the input
(`Decisions`), in every scope and after a failure too, since neither the host nor the
matcher refuses any of these (`HookAccepts`, `Adopts`).
`Patterns` gives the patterns of the candidates at each depth of nesting, built from
`Elements`; `PatternsAssumption` says that every match has a candidate and every
candidate a pattern, which `register` demands of a syntax (`dynamic.rs:611`); a match without
candidates ends as it begins.

**StructurePasses.** `at`, `root` and `ranked` are the place of the parser in its two
loops; `roots[r]` what became of a root: the headers entered, the selected one
first, and as history the work and the declarations that selection stands for.
`frames` are the semantic candidates of the environment (savepoint, context,
length of the registry), `context` the directives in force, `registry` and `order`
the `FunctionRegistryTransaction`. `HeadersOnly` and `StartBodies` are the end of the
first pass; `EnterAlternative` what happens when a body is rejected and another
header of the root was matched. A declaration carries the span its component gave, that of any
root or of none, because nothing checks it and `Discarded` removes by it. `memo` has the calls
the expression session remembers: its key holds the overlay but not the registry, and
a rejected body does not clear it, so `CallInBody` finds what the registry has or what was found
before (`Memoized`). `by`, `late`, `rejected` and `stale` are history: which header declared,
in which pass, whether a body of the root was rejected, and whether a call was answered
from the memo with something else than the registry had.

## 3. Runs and bounds

`tlc -workers 2 -config X.cfg MCY.tla`, with `Y` the module of the run in
`PROJECT.json`. Distinct states are those of one run.

| run | question | states | expected |
|---|---|---|---|
| `StateStore` | do any interleavings of three parses break serializability, quota, revision order, or refuse without a cause? | 225 k | holds |
| `CandidateDeltas` | do overlay numbers name contents, does selecting replay, is work applied once? | 1.6 M | holds |
| `CandidateConflicts` | the same with another parse that commits: is a selection refused only because of it, are parses still serializable? | 0.5 M | holds |
| `PersistentProject` | do disk, copy and table agree through declarations, failures and crashes? | 0.4 M | holds |
| `LostConflict` | does a commit over a changed namespace always conflict? | 244 k | violated (6.1) |
| `DynamicRegistry` | frozen layers, stale handles, orders, limits | 1.6 M | holds |
| `DocumentPipeline` | is an operation or a document all or nothing under failure and cancellation, does an unloaded component come back? | 2.7 M | holds |
| `MacroExpansion` | does a walk offer every node once, end, keep depth, edits and state together? | 148 k | holds |
| `AstWalk` | is every node of an AST of the parser offered? | 1.3 k | violated (6.2) |
| `PatternMatch` | do matcher and host agree about what was undone? | 1.7 M | holds |
| `MatchOverride` | do only the writes of the selected candidate remain? | 15 k | violated (6.3) |
| `StructurePasses` | do state, context and registry hold what was selected? | 7.2 M | holds |

What the properties of the passing runs say:

- `Serializable`: the store implements `SerialStore`. A commit in the code compares
  revisions and a value was read at any time after the revision was cached;
  the abstract commit compares the values themselves, at the moment of commit.
- `DependenciesSound`: as long as a base revision is current, what a parse, a
  savepoint or a live call read is still the committed value, and what it writes
  still fits. This is the inductive invariant of section 5.
- `ConflictHasCause`: a dependency goes stale only because another parse
  committed a write to that namespace; a discarded call or a rejected candidate
  of the parse itself never makes its commit fail.
- `QuotaRespected`: quotas hold of what is committed, although they are only
  checked at merge time against the contents of that time.
- `NewerRevisionWins`: no parse commits once a newer revision of its document was begun.
- `OverlayNamesContents`, `SelectionReplays`, `WorkOnce`,
  `SelectionAlwaysApplies`: the memo of the parser may trust the number, and a
  node is never on a branch together with a part of it.
- `CacheCoherent`, `ReadsCurrent`, `SchemaIsolated`, `ContentsChange`: the copy is
  the disk's, a read at a current revision is current, no value is read under a
  declaration with another schema id, contents change only by commits and resets.
- `SnapshotIsLayer`, `SnapshotsNamed`, `StaleHandlesHarmless`, `OrdersUnique`,
  `ItemsBounded`: a snapshot is what the layer held when it was frozen, two
  snapshots never share a number, an update of a passed revision commits nothing.
- `FailureUndone`, `NoGhosts`: nothing of a failed operation or document stays in a
  transaction or in the store, also when it fails at its snapshot or its commit; nor in a
  layer that can change, except the registrations of a dispatch whose snapshot could not be
  built (6). No layer that may still be frozen has syntax of an unloaded component.
- `DocumentAtomic`, `CancelledStays`: without a commit nothing is published and
  the layer is as before, even after the Syntax stage froze it; a cancellation
  requested before the last check wins.
- `WalkComplete`, `Terminates`: a stage that ends well has offered every node of
  its tree exactly once, generated ones too, except below a node that failed;
  and it ends whatever the macros answer. `NestingBounded`: nothing is nested
  deeper than the quota, with the same exception. `EditsKept`: an edit that replaced
  a node is in the final tree only with the state its call wrote.
- `BranchesIsolated`, `RejectedScopesUndone`, `SelectedStateKept`: a state the search
  resumes sees the work on its own path and nothing of branches tried before;
  when a scope opens, or a match is about to be closed, the transaction holds what
  the matcher has adopted, and what an overridden failure that it did not adopt
  wrote (6), nothing else; each match carries the state it was accepted in. What stays
  is the state of the first match, or that of a candidate before it when a failed
  Definition was overridden and came to nothing, never one of a candidate behind it.
- `KeptWork`, `DirectivesScoped`, `SnapshotOfSelected`, `ForwardReferences`:
  between candidates the transaction holds the headers selected and the bodies
  accepted, in that order; a header or body is parsed in the context of the
  directives before it; the frozen registry has the declarations of the selected
  Structures, but for what a discard by span misses or takes from another header;
  a call found what the frozen registry gives, before or after the declaration, unless
  what it found was discarded or a declaration of the name came late. Each exception is a
  disjunct of the property that says when it may occur, and section 6 describes it.

The type invariants of `MacroExpansion`, `PatternMatch` and `StructurePasses` also say
how their stacks fit together: cycle keys are the keys of open calls, open scopes
and checkpoints are those of the open invocations, order numbers increase.

Bounds, and why they are enough:

- `StateStore`: two revisions of one document and a parse of another, one call
  each for the two that write, one savepoint, two keys of one namespace, one
  value, quota 1. An anomaly of optimistic commits needs two writers and a
  reader with two keys (write skew); quota 1 with two keys makes two fitting
  parses that do not fit together; the third parse only supersedes. Keys are
  symmetric.
- `CandidateDeltas`: one parse, two calls, two nested scopes, two deltas, overlay
  numbers to 3 (before a selection). Reusing a number needs a rollback and a
  second minting; nesting one selected node in another needs two deltas. A text has two
  pieces (`Pieces`), of which a candidate covers one, so that nodes lie beside or in one
  another; the first node deferred is called the first piece (`PiecesInOrder`). A call
  accesses the store once (`OneAccess`): what a call with several accesses sees
  is covered by `StateStore`. `CandidateConflicts` has one delta, and the other parse has
  already written and only commits (`PeerFirst`): its commit is what matters to a
  selection.
- `PersistentProject`: two projects (a registration that fails at the second leaves
  the first), two namespaces, an old and a new version of one schema id, two
  parses of one project, one crash, one failed registration. `OneNamespace`
  and `NewSchemaLater` leave out parses of two namespaces and a newer
  declaration before the first crash: a component is updated between starts.
  `LostConflict` needs one project and three parses.
- `DynamicRegistry`: two components with one and two usable items, an ordering
  reference between components, one document, two revisions, two updates, one
  savepoint, at most two staged operations, limit 1, registry revisions to 3.
  Two open updates are enough to exceed a limit; three revisions to freeze,
  abort and freeze again.
- `DocumentPipeline`: two components (one is the CoreLibrary, which
  comes first), one document, two revisions, two transactions, two accepted calls,
  three rounds of nested parses. A failure after an accepted call, a second owner
  on the same layer, and a document that follows a dispatch of its revision are
  within these; the transactions are symmetric. The proofs of section 5 need no bound.
- `MacroExpansion`: two macros, two starting trees of at most three nodes, in the
  Tree stage and in the AST stage with either numbering, four fragments (nothing, one node, two nodes, a Section in a Section), five
  calls, expansion depth 2, raw depth 2, six nodes: each limit can be reached, a
  generated node can generate, and a retained child can exceed the raw depth.
  `AstWalk` needs one replacement, hence two calls. The proofs of section 5 need no bound.
- `PatternMatch`: two candidates, the first with two patterns of which one has an
  optional typed element that asks for a nested match with a choice; two writes and
  one decision of a hook, anywhere. Two writes separate a branch from what came before
  it. The overrides that need two decisions are within `MatchOverride`, on two flat
  candidates; the proofs of section 5 need no bound.
- `StructurePasses`: two roots with up to two candidates, one function name in
  two scopes, one with the span of the first root and one with that of the second, three
  writes, three declaring headers: a root before and one after a declaration, an
  alternative that declares the name again, a declaration with its own span and one with
  another's. A third root does not fit in five minutes.

Deadlock is not checked: parses, calls, revisions, works and rounds are used up,
a system whose transactions are all closed rightly has nothing to do, and a walk,
a match and a document end.

## 4. Fairness

Only `MacroExpansion` assumes fairness, `WF_vars(Next)`: the walk is ordinary control
flow in one thread, and a component call ends because the engine bounds it by fuel and,
for addons, by a wall-clock deadline (both external). That is all `Terminates`
needs, since a step of the walk is enabled until the stage has a result; what it
shows is that calls, depth and cycle limits leave no infinite path through failures,
re-entered output and replaced children. The fairness does not say which answer a macro gives.

The other modules claim no liveness and assume no fairness. There is no waiting in
them: a transaction that loses is refused at once, never blocked, and whether its
owner ever ends it is the owner's choice.

## 5. Proofs

`tlapm` on each of the modules of the second column.

| theorem | module | statement |
|---|---|---|
| `TypeCorrect` | `StoreProofs` | `Spec => []TypeOK` |
| `DependenciesCorrect` | `StoreProofs` | `~RollbackDuringCall => (Spec => []DependenciesSound)` |
| `QuotaCorrect` | `StoreProofs` | `~RollbackDuringCall => (Spec => []QuotaRespected)` |
| `NewerRevisionCorrect` | `StoreProofs` | `Spec => NewerRevisionWins` |
| `ConflictsCorrect` | `StoreProofs` | `~RollbackDuringCall => (Spec => []ConflictHasCause)` |
| `SerializableCorrect` | `StoreProofs` | `~RollbackDuringCall => (Spec => Serializable)`: the store implements `SerialStore` |
| `SpeculationSound` | `StoreProofs` | `CandidateSpec => [](TypeOK /\ DependenciesSound /\ QuotaRespected /\ ConflictHasCause)` |
| `CandidatesSerializable` | `StoreProofs` | `CandidateSpec => Serializable` |
| `OverlayNamesCorrect` | `StoreProofs` | `CandidateSpec => []OverlayNamesContents` |
| `WorkOnceCorrect` | `StoreProofs` | `CandidateSpec => []WorkOnce` |
| `SelectionAppliesCorrect` | `StoreProofs` | `CandidateSpec => []SelectionAlwaysApplies` |
| `SelectionReplaysCorrect` | `StoreProofs` | `CandidateSpec => SelectionReplays` |
| `CacheCorrect` | `PersistentProofs` | `Spec => []CacheCoherent` |
| `SchemaCorrect` | `PersistentProofs` | `Spec => []SchemaIsolated` |
| `ReadsCorrect` | `PersistentProofs` | `Spec => []ReadsCurrent` |
| `ContentsCorrect` | `PersistentProofs` | `Spec => ContentsChange` |
| `TypeCorrect` | `RegistryProofs` | `Spec => []TypeOK` |
| `SnapshotCorrect` | `RegistryProofs` | `Spec => []SnapshotIsLayer` |
| `NamesCorrect` | `RegistryProofs` | `Spec => []SnapshotsNamed` |
| `OrdersCorrect` | `RegistryProofs` | `Spec => []OrdersUnique` |
| `ItemsCorrect` | `RegistryProofs` | `Spec => []ItemsBounded` |
| `HandlesCorrect` | `RegistryProofs` | `Spec => StaleHandlesHarmless` |
| `SoundAlways` | `PatternProofs` | `Spec => []Sound` |
| `TypeCorrect` | `PatternProofs` | `Spec => []TypeOK` |
| `BranchesCorrect` | `MatchProofs` | `Spec => []BranchesIsolated` |
| `ScopesCorrect` | `MatchProofs` | `Spec => []RejectedScopesUndone` |
| `SelectedCorrect` | `MatchProofs` | `Spec => []SelectedStateKept` |
| `CancelledCorrect` | `HostProofs` | `DocSpec => CancelledStays` |
| `NoGhostsCorrect` | `HostProofs` | `DocSpec => []NoGhosts` |
| `TypesCorrect` | `HostProofs` | `DocSpec => []DocTypeOK` |
| `FailureCorrect` | `HostProofs` | `DocSpec => []FailureUndone` |
| `DocumentCorrect` | `HostProofs` | `DocSpec => DocumentAtomic` |
| `PassesTypeCorrect` | `StructureProofs` | `Spec => []TypeOK` |
| `KeptWorkCorrect` | `StructureProofs` | `Spec => []KeptWork` |
| `DirectivesCorrect` | `StructureProofs` | `Spec => []DirectivesScoped` |
| `SnapshotCorrect` | `StructureProofs` | `Spec => []SnapshotOfSelected` |
| `ForwardReferencesCorrect` | `StructureProofs` | `Spec => []ForwardReferences` |
| `MacroInvariant` | `MacroProofs` | `Spec => []MacroInv` |
| `MacroTypes` | `MacroProofs` | `Spec => []TypeOK` |
| `MacroWalkComplete` | `MacroProofs` | `Spec => []WalkComplete` |
| `MacroNestingBounded` | `MacroProofs` | `Spec => []NestingBounded` |
| `MacroEditsKept` | `MacroProofs` | `Spec => []EditsKept` |

### The store

The theorems of `StoreProofs` about `Spec` hold for all components, namespaces, keys, values, documents, parses, calls
and savepoints, under the assumptions named in `StateData` and `StateStore`:
the constants have their types, `None` and `Untouched` are not values, an empty
namespace fits its quota, handles are records of their fields.
`RollbackDuringCall = FALSE` says that a parse is rolled back only between calls.
The host keeps to this (it is sequential within a parse); the API does not enforce
it, and the mutant of `DependenciesSound` is exactly the step that breaks it.

Neither the quota nor serializability is inductive: that a
commit publishes contents that fit follows from a check made long before, at a
merge, against contents that may have changed since. What bridges the gap is the
revision. `DependenciesSound` ties every kept read, and the quota of every staged
patch, to the base revision learned at the first access: *if* the revision is
still the one of the base, the read value is still committed and the patch still
fits. The step proofs show that it survives each action:

1. a first access learns the revision and reads the value in the same step; a
   later access reads a live value and keeps the old base, so that the
   implication is vacuous when the revision has moved;
2. `Merge` moves reads and writes of a call to the parse. The base of the parse
   covers them because no rollback happened under the call (`CallSound`);
   the quota check of the merge gives the fit at the current revision;
3. `Publish` advances the revision of each touched namespace, which makes the
   implication vacuous for every other parse, and leaves other namespaces alone;
4. a savepoint copies a sound frame, and revisions never decrease, so restoring
   it is sound however much later it happens.

At a commit all bases are current, so every implication applies: the reads hold
(`SerialStore`'s guard) and the contents fit (`QuotaRespected`). The
other actions map to a staging step or to a stutter. `NewerRevisionCorrect`
uses only that `latest` is the maximum of the begun revisions.

`ConflictsCorrect` is not inductive either, for a rollback brings an older base back. Its
invariant `CausesKnown` says of savepoints too that each base revision that is
no longer the committed one was moved by another parse, whose committed overlay
touches the namespace and is never changed again (`Lasting`): a call adds to a base
only the committed revisions, and only a commit moves those.

### Candidates

`CandidateSpec` conjoins the steps of the store with candidate scopes, the memo and
selections, for any number of nested scopes, deltas and overlay numbers. Rolling back
happens between calls there by construction, so that `RollbackDuringCall` is not assumed.

The invariant `Consistent` has the invariants of the store and, for every running parse,
`Speculating`. This looks at the parse as a set of *points*: the branch it is on, the
branches its open scopes began from, the one it has put aside and the empty one.

- Every point is `Held`: what it read and wrote is sound in the sense of
  `DependenciesSound`, and what is stale in it another parse has made stale. That
  is what makes it safe to continue from it at any time.
- Any two points `Agree`: equal overlay numbers mean equal writes, and equal revisions of the
  namespaces these touch. Numbers are minted in increasing order, and every number in use
  is below the next one.
- Every delta was made between two held frames, the later one `Onward` of the earlier, and
  the points still agree with the earlier one (`MadeFrom`).
- An open scope only adds to the branch it began from; and when two branches of which one
  is in a scope and one outside share the work of a call, they share it through a delta
  both have applied (`ScopeKept`). The same is said of deltas, of branches and of pairs of
  deltas in `Worked`.
- What is applied in a scope is of the text of the scope, what a delta contains of the
  delta's text, and the texts of inner scopes are within those of the outer (`ScopeKept`,
  `Worked`, `Narrowing`).

Replaying is then arithmetic on frames: a delta made from `o` to `f`, applied to a frame
`g` of the same number as `o`, finds the writes and revisions of `o`, so its checks fail
only if a revision has been moved by another parse (`SelectionAppliesCorrect`) and
its result is the overlay of `f` (`SelectionReplaysCorrect`). `WorkOnceCorrect` is
`ScopeKept` and `Worked` at the selection: a call common to the branch and the delta would
have come with a common receipt, and the node of that receipt would have its text, which is not
empty, both inside the node being selected and apart from it. `apply_delta` has no part in
this: it would take the delta.

### The host and its documents

These hold for all sets of components, documents and transactions, any number of
revisions, works and rounds of nested parses, under `HostAssumption` alone:
components are positive integers (the order of their subscriptions) with the
CoreLibrary among them, there is a document, the bounds are natural numbers.

`HostInv` (`HostProofs`) is what everything rests on: types; the operation in
progress has an open transaction and a savepoint (`RunSound`); the document in progress
has one too, an operation runs only inside its Text stage and then in its transaction, the
layer is frozen from the Syntax stage on, and a cancellation requested before the
last check means that the token is set (`JobSound`). `Ends` says that a
document ends by `CommitDocument` or by `RollbackDocument`. A committing document is
inside its last stage, where `job.dead` cannot hold: `CancelledCorrect`.

`NoGhosts` is not inductive: rolling back restores a layer from a savepoint. The
strengthening `GhostInv` puts the savepoints of the operation and of the document
in, and it is preserved by `Unload` because that waits until the host is idle: then
neither holds one.

`FailureUndone` and `DocumentAtomic` need to know where work can be before it fails.
`WorkInv`: works are numbered in the order in which they are accepted, so
that what is accepted is new (`Counted`); the works of what failed are nowhere
(`FailedGone`); those of the operation in progress are only in its transaction and, if it
may change it, in its layer (`RunApart`); those of the document only in its transaction and
layer (`JobApart`); and no savepoint holds what began after it. `CallEffect` sums up
what a step of the loop over the components may change, so that each of them is looked at
once. When an operation returns with a failure, going back to its savepoints removes
exactly its works, which join `failed` and `withdrawn`. An operation with a transaction of its own
may fail at the last, when its calls were accepted and the snapshot or the commit is refused:
its works join `failed` for they were in no other transaction. They join `withdrawn`
when the layer was frozen first, and else not: without a snapshot what it registered is
still in an open layer, which is the exception of `FailureUndone`. When
the Text stage returns to a document, its works
become works of that document, and `RollbackDocument` removes them with the others.
TLC checks `WorkInv` and `GhostInv` to be invariants of the instance of section 3.

### Persistent projects

These hold for all projects, namespaces, schemas, keys and parses, and for any number of
declarations, faults, crashes and restarts. `Sound` (`PersistentProofs`) relates the three holders of a
revision in every state, also in those where a reload has failed:

- a database holds values only under the schema its metadata names (`Tagged`), whatever
  is declared; for an open project that is the declared schema (`Databased`);
- the copy of an open project has no value under another schema, and unless a
  reload failed it is the database (`Copied`);
- what a parse depends on is declared and open, and it learned a revision before it read
  (`Grounded`, `Remembered`);
- the table of revisions is 0 for what was never opened, and while no reload has
  failed it does not run ahead of the copy, nor a parse ahead of the table (`Unused`,
  `Followed`). Equality of a base and the table would not be inductive: a declaration
  resets a namespace under parses that are open, and a restart starts the table afresh.

`SchemaIsolated` and `CacheCoherent` are parts of it; `ReadsCurrent` needs a step more,
since a revision that comes back must mean the same values: within a project without a failed reload
revisions only grow. `LostConflict` (6.1) is what happens without that.

### The registry

These hold for all components and items, limits, documents, updates and savepoints.
`Sound` (`RegistryProofs`) says that what any layer or savepoint holds is `Good`: orders are
below the next one and different, and no component exceeds its limit. Savepoints are in
because `rollback_to` brings them back (`Ordered`). `Stamped` carries the names of snapshots
across aborts: whatever was ever issued for the revision a layer has is its present
snapshot, or has an older number; and while the layer is open it is older than the
registry's own revision, which the next freeze exceeds. The only arithmetic is in the
commit: the closed form of the staged operations (`Adds`) grows with each registration, so that
two items registered in one update get different orders, above all that were given before.

### The pattern matcher

These hold for all patterns and candidates, at any depth of nesting, for any number of writes and
decisions of hooks. The matcher and its host share no data: the host keeps stacks of
logs, the matcher counts on finding in them what it left. Three invariants build on each
other.

- `Sound` (`PatternProofs`): the shapes. An invocation at a given place has so many scopes open (`Phased`),
  sequences and elements take turns in its walk (`Walked`), every log the host put
  aside for it, its scopes, checkpoints, selected state and deferred work, begins with the log
  it was asked from (`EngineOK`), and those of the outer invocations lie below
  (`Stacked`). That a nested match ends with what it began from, and that what it hands on
  can be applied, rests on this; `TypeOK` follows.
- `Tracing` (`MatchProofs`): the contents. Where the matcher goes on from what it adopted, the log is that
  (`Following`); the log an open scope began with is what the matcher had then (`Undoes`); the
  checkpoint of a state holds the work on its path. A state at the start of a pattern
  has no checkpoint: `restore_branch` leaves the log alone, which is right only because such a
  state is the only one there is (`Rooted`). This is the part of
  backtracking that `BranchesIsolated` itself does not see. An overridden failure that
  the matcher does not adopt keeps its log: `path` then goes on from that log, and from nothing else.
- `Picking`: the host has selected a state if and only if it has accepted a candidate (`chosen`),
  which is not behind the first match; if it is the first match, the state is that of
  the match. A candidate that is accepted and has still to be completed has its
  state put aside (`Awaiting`), which is how the two can come to differ.

Nothing is assumed of the hooks: each may answer with any decision in any scope.

### The two passes over Structures

These hold for any number of roots, candidates, works and declarations, under
`PassesAssumption`: there is a root, the bounds are natural numbers, and a header declares
names in one of the two scopes. `PassesInv` (`StructureProofs`) has these parts.

- `Types`: a semantic candidate is open exactly while a header is entered or a body parsed.
- `Registry`: registrations are numbered in their order, none is made twice, what was made
  since the savepoint is of the root in progress.
- `Histories`: what the registry holds, root by root (`Accounts`): all a root declares but what has
  the span of another header with a rejected body, and besides only what a rejected body of this
  root left under another span. That is `SnapshotOfSelected` stated before the
  end, and inductive: a rollback takes away declarations of one root only, a discard
  those of one span. It also says that in the first pass no body is rejected, nothing is
  memoized and no declaration is late, and that those of the second pass are of the roots so far.
- `Progress`: how far a root has come. An alternative that takes over in the second pass has
  no declarations of the first one left; a root that declares anything and is over is selected.
- `Contexts`: the context of a selected header is that of the directives before its root and
  itself, so that entering an alternative later finds the context the first pass had;
  `DirectivesScoped` is the part of it that bodies see.
- `Logs`: at all times the log is the heads of all roots and then their bodies; the savepoint of
  a header is this without its own head, that of a body without its own body, and each
  ranked candidate extends the savepoint.
- `Calls`: a call, and a memoized one if it is made now, found a declaration the registry still has,
  unless there is a late one; or one that is gone; or none, and then only late ones can have
  the name. What is gone does not come back as the same entry: each has the number of the header that
  declared it (`by`), and what was found is of a header so far. Order numbers would not do
  here, since a rollback gives them out again while the memo keeps what was found.

`log` is a concatenation over all roots, `registry` the result of a fold. What is needed
of them is proved by induction on a number below a bound (`UpTo`, from the well-foundedness of
the natural numbers) and from the recursive definition of a function on `0 .. n`: changing
the head or the body of one root after which there is nothing else appends to the whole
(`FlattenSeq`), and `Registered` appends entries of one root, `Discarded` removes those of one span.

### The walk of the macros

These hold for any number of macros, trees and fragments of any size, and any limits, under
`MacroAssumption`: the trees the stage starts from and those a macro generates are
trees in preorder (`Trees`: a node is at most one level below the one before it), and every
macro has its texts. A fragment that is not a forest is refused by `validate_fragment`, which is
a failure of the call; nothing else is assumed of what macros answer.

The difficulty is that the walk holds no position. A frame has a path, a list of sibling
indices; between two of its steps other macros may have replaced what is around, and the
path is resolved again in the tree there is then. The proof gives every path a place.

- A *place* is a position and a level (`Fits`): its ancestors (`Ancestors`) and its rank among the
  siblings before it (`Rank`) depend only on what is before it (`SamePlace`), and two places
  with one path are the same (`Unique`), so that a path leads to one node at most (`NodeAtIs`).
- `Frontier(f, c, p)`: the walk that goes to the path `p` arrives at `c`, whether there is a
  node or not. From a node on goes down to the position after it with the path of its first
  child (`Down`), or past its block with the path of its next sibling (`Past`); where the
  children have run out, both are the same place (`ChildrenOver`).
- An edit is a splice, whose result is again a tree if what is put in hangs where the
  old hung (`Graft`). It leaves the places before it (`RegrownBefore`) and the place itself
  (`RegrownFrontier`), which is why the walk can go on with the path it had.
- `MacroInv` says with these: each frame is where the one below it was going, and only the one
  on top still offers its node (`Linked`); `pipeline.active` is the keys of the frames that
  walk what they generated, in order (`Keyed`); the frames that walk children name the
  node their path leads to, as long as identities are exact (`Targets`); and what is before
  the frontier of the next path was offered or is below a failure, and nothing from it
  on was (`Walk`). `WalkComplete` is `Walk` when the roots have run out.
- `Targets` needs that the identities of a forest in postorder differ (`NamedIs`), and that an edit
  renumbers only what starts in preorder; with the other order the first edit makes them
  inexact, which is `AstWalk` (6).
- `Depths` and `Kept` are the limits and the writes. `NestingBounded` holds also where the
  walk is not complete: an edited AST is measured as a whole. `EditsKept` rests on the savepoint of
  the frame on top having the writes of every node replaced so far, so that its failure takes none
  away; this is why an edit of *children* is excluded.

### Only model-checked

Every invariant and every action property of a passing run is stated by a theorem above, and so is
the refinement of `SerialStore`. Liveness (`Terminates`) and `ENABLED` are out of the
prover's reach and stay with TLC. The library's
induction theorems, which take an operator, cannot be used either; where an induction
over numbers was needed it goes through a set and its least element, as above.

## 6. Where code and documentation disagree

Each is a run that TLC refutes, with the statement quoted in `PROJECT.json`.

1. `LostConflict`: a reload that fails leaves a copy without revisions, from
   which the next commit counts again; a parse that read an older value at that
   number commits.
2. `AstWalk`: the AST of the parser is numbered in postorder, the first accepted edit
   renumbers it in preorder, and the children of the node being walked are then looked
   up under its old number: some are never offered to a macro.
3. `MatchOverride`: a Definition hook that answers `Match` for a failed candidate makes the
   host keep that candidate's state; when its omitted captures cannot be completed the
   matcher goes on to another candidate, whose writes are then not the only ones that remain.

Observations without a run. Each was met while modelling; the line is where it bites.

On the stores:

- A call that touches a namespace before and after another call of its parse
  merged is accepted, because the newer observation replaces the older
  (`state/mod.rs:937`). Only direct users of the API can run two calls at once.
- A delta leaves out reads its savepoint already had; selected from the memo on a
  branch without them, they are missing from the dependencies of the commit
  summary (`state/mod.rs:740`). Base revisions are kept, so conflicts are still found.
- `dispatch` and `expand_text` that fail at their snapshot or commit leave registrations of
  accepted calls in the document's layer (`host.rs:9695-9701`; `parser-wasm/README.md:886` says that
  both are rolled back). When the commit is refused the layer is frozen by then. When the snapshot
  cannot be built the layer stays open: a later parse of that revision finds the registrations, and
  what made the snapshot fail makes it fail again, until the component is unloaded or a
  newer revision begins. `FailureUndone` excepts exactly these registrations.
- A `register_component` that fails at a later project leaves the earlier ones
  synchronized, or reset, for a declaration that is not made; a `load_component` that
  fails when its update is committed leaves its namespaces registered.
- `StateStore::begin_parse` accepts revisions older than the latest, which the registry
  refuses (the host then cancels); a caller that cancels its own transaction leaves what it
  registered in the layer of that revision; a nested addon parse that rejects keeps
  the state of the nested calls it accepted.

On macros:

- One savepoint per node undoes the state of every macro at the node when a later
  one fails; replaced *children* of an earlier one stay in the tree (`host.rs:10420`;
  `parser-wasm/README.md:624`). `EditsKept` therefore speaks of replaced nodes.
- The retained children of a generated Section are not counted by `wit_tree_edit_depth`
  (`host.rs:13667`), so that a tree may exceed `max_raw_tree_depth` below a failed node.

On the matcher:

- `hook_outcome_accepted` (`host.rs:3147`) takes a match of any range for a failed
  candidate, while the matcher adopts only the trimmed range, and not after incomplete
  captures either. The host then keeps the work of a scope that the matcher takes for rejected, and
  the next pattern or candidate starts from it. `RejectedScopesUndone` excepts exactly this;
  `parser-wasm/README.md:647` says that broad matches must consume the complete input.
- A Registration scope that is rejected by its after hook, and overridden by the Definition's,
  returns the match whose work was undone.

On Structures:

- `discard_structure_candidate` removes declarations by the exact span of the header
  (`function_registry.rs:571`, `host.rs:4115`), and the span of a declaration is what the component says
  (`function_declaration_from_wit`, `host.rs:5332`): nothing compares the two. A
  declaration with another span survives the rejection of its body into the frozen
  registry, and one with the span of another header goes when a body of that one is
  rejected. These are the two exceptions of `SnapshotOfSelected`.
- The memo of the expression session is keyed by text, context and overlay revision
  (`MemoKey`, `expression.rs:2205`), not by the registry, and a rejected candidate does
  not clear it: a body of an alternative may get from it a function that was discarded, or
  miss one that its own header has declared since. A definition id may belong to another
  function by then, since a rollback gives the order numbers out again.
- An alternative may register functions when its header is entered in the second
  pass, after earlier bodies were parsed, although `function_registry.rs:577-581`
  says that every header is registered before any body; and an earlier body
  may have resolved a call to a function that is discarded with its Structure later.
  With the memo these are the exceptions of `ForwardReferences`, each stated in it.
- The work of a header whose body is rejected stays in the transaction, while its
  declarations are removed; the matching state of an alternative is not
  activated again in the second pass; if no candidate of a root is accepted, the
  matching work of the first stays. `KeptWork` states what does hold.
- The context of a directive that is rejected when it is finished stays for the roots that
  follow.

## 7. What is not modelled, and why

- Encodings, identifiers, size limits of keys and values, diagnostics and wording:
  the properties do not tell them apart. A persisted value keeps the id of the schema
  it was written under, because that decides whether it may be read.
- The WebAssembly engine, fuel and epochs, and redb: external.
- Grammars of expressions, conditions, effects, sections, structures, patterns:
  data. Only the speculation protocol that the parsers use on the store, and the
  search of the matcher over the shape of a pattern, are here.
- The recovery mode of the matcher, which collects failure traces for diagnostics without
  writing; hygiene, which renames identifiers in text; shapes of signatures and the
  matching of a call with an overload; metadata of Events.
- Which subscriptions match and their order, the candidate order of a snapshot, source
  maps: pure functions over data. The models take the order as given.
- The CoreLibrary, REPL, schema generator: clients or pure functions.
- Saturation of counters (`u64`): not reachable at these rates.
- Which nodes a document has: in `DocumentPipeline` a walk may end at any time;
  `MacroExpansion`, `PatternMatch` and `StructurePasses` say what happens in each.

Most of the repository's lines are of these kinds (the report writers of the REPL, the hooks of
the CoreLibrary, the schema generator, conversions, diagnostics), so the map covers a small
share of them: what it leaves out has no state whose order of changes could go wrong.

## 8. Plan

Done, in this order: `StateStore` with `SerialStore` and its proofs, `CandidateDeltas`
over it, `PersistentProject`, `DynamicRegistry`, `ParserHost`, `DocumentPipeline` over
that, `MacroExpansion`, `PatternMatch`, `StructurePasses`, and the proofs about the host,
the candidates, the persistent projects, the registry, the matcher, the Structures and the
walk of the macros.
Next:

1. Nested parses as frames in `ParserHost`, where a rejecting addon parser keeps
   nested state; the layer as `DynamicRegistry` sees it.
2. Component loading together with open persistent projects and their namespaces.
3. Pure algorithms as functions against a definition, in one instance:
   candidate order (`build_snapshot`), subscription order, composition of source
   maps, overload selection, plural rules.
