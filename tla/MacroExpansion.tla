--------------------------- MODULE MacroExpansion ---------------------------
(***************************************************************************)
(* The recursive walk of Tree macros, expand_tree_in_parse of              *)
(* parser-wasm/src/host.rs, and of AST macros, expand_ast_in_parse of      *)
(* host/ast_macro.rs.  The recursion is an explicit stack of frames.       *)
(*                                                                         *)
(* A forest is the sequence of its nodes in preorder, each with its level: *)
(* the subtree of a node is a block.  That is how both stages store what   *)
(* an edit leaves (flatten_tree, canonicalize_ast); what the parser hands  *)
(* to the AST stage is numbered in postorder (AstBuilder).                 *)
(*                                                                         *)
(* A macro is its position in Candidates.  Texts, spans and effects are    *)
(* kept as far as cycle keys see them; the quotas on bytes are left out    *)
(* and Handled differs from ContinueProcessing by ending the node's loop.  *)
(***************************************************************************)
EXTENDS Naturals, FiniteSets, SequencesExt

CONSTANTS
    Candidates,     \* the components of the subscriptions, in hook order
    Claims,         \* the texts each AST subscription matches
    Forests,        \* the trees the stage may start from
    Fragments,      \* the trees a macro may generate
    MaxCalls, MaxExpansion, MaxRawDepth, MaxNodes

(* The trees the stage starts from and those a macro may generate, in      *)
(* preorder: a node is at most one level below the one before it.  Any     *)
(* other fragment is an invalid output (validate_fragment).                *)
Texts == UNION {{f[k].text : k \in DOMAIN f} : f \in Forests \cup Fragments}
Trees == {f \in Seq([level : Nat, section : BOOLEAN, text : Texts]) :
             \A i \in DOMAIN f :
                 f[i].level \in 1 .. (IF i = 1 THEN 1 ELSE f[i - 1].level + 1)}

ASSUME MacroAssumption ==
    /\ {MaxCalls, MaxExpansion, MaxRawDepth, MaxNodes} \subseteq Nat
    /\ \A f \in Forests \cup Fragments : f \in Trees
    /\ Candidates \in Seq(Range(Candidates))
    /\ DOMAIN Claims = DOMAIN Candidates

VARIABLES
    input,      \* the stage, its tree and the order of that tree's identities
    numbering,  \* the order of node identities: "preorder" or "postorder"
    forest,     \* the active tree
    edited,     \* an edit was applied
    root,       \* root_index
    stack,      \* the frames of expand_tree_node, expand_ast_node
    active,     \* the cycle keys of pipeline.active
    calls,      \* the length of pipeline.calls
    kept,       \* the calls whose writes the transaction holds
    disabled,   \* the components a trap has disabled
    result      \* "running", "ok", "reject" or "error"

vars == <<input, numbering, forest, edited, root, stack, active, calls, kept, disabled,
          result>>

InTree == input.stage = "tree"
InAst  == input.stage = "ast"

(***************************************************************************)
(* Forests                                                                 *)
(***************************************************************************)
End(f, i) == CHOOSE j \in i .. Len(f) :
                 /\ \A k \in i + 1 .. j : f[k].level > f[i].level
                 /\ j = Len(f) \/ f[j + 1].level <= f[i].level

Above(f, i)  == {j \in 1 .. i - 1 : i <= End(f, j)}
Kids(f, i)   == {j \in i + 1 .. End(f, i) : f[j].level = f[i].level + 1}
Roots(f)     == {j \in DOMAIN f : f[j].level = 1}
Deepest(f)   == Max({0} \cup {f[i].level : i \in DOMAIN f})

(* raw_node_at_path, ast_node_at_path: 0 when the path does not resolve.   *)
Ordinal(f, i) == Cardinality({j \in 1 .. i - 1 : /\ f[j].level = f[i].level
                                                 /\ Above(f, j) = Above(f, i)})
At(f, i, path) ==
    /\ f[i].level = Len(path)
    /\ \A j \in Above(f, i) \cup {i} : Ordinal(f, j) = path[f[j].level]
NodeAt(f, path) ==
    LET found == {i \in DOMAIN f : At(f, i, path)}
    IN IF found = {} THEN 0 ELSE CHOOSE i \in found : TRUE

(* The identity of the node at position i, and the position of an identity.*)
Identity(f, order, i) ==
    IF order = "preorder" THEN i ELSE End(f, i) - (f[i].level - 1)
Named(f, order, id) == {i \in DOMAIN f : Identity(f, order, i) = id}

(* The original ranges of a node: of the whole of it while the source is   *)
(* as it was read, of each of its lines once the tree was projected.       *)
Span(f, i) == IF edited THEN UNION {f[j].at : j \in i .. End(f, i)}
              ELSE {<<i, End(f, i)>>}

Shape(f, i) == [k \in 0 .. End(f, i) - i |->
                  LET n == f[i + k] IN
                  <<n.level - f[i].level, n.section, n.text,
                    IF InAst THEN n.at ELSE {}>>]

(* tree_macro_cycle_key, ast_macro_cycle_key                               *)
CycleKey(m, i) == <<m, IF InTree THEN Span(forest, i) ELSE {}, Shape(forest, i)>>

(* What build_generated_forest makes of a fragment for the node at i.      *)
Generate(frag, i, shift, how) ==
    [k \in DOMAIN frag |->
       [level |-> frag[k].level + shift, section |-> frag[k].section, text |-> frag[k].text,
        at |-> IF InTree THEN Span(forest, i) ELSE forest[i].at,
        by |-> calls + 1, how |-> how, mark |-> "new"]]

Shifted(f, by, from) == [k \in DOMAIN f |-> [f[k] EXCEPT !.level = @ + by - from]]
Block(f, i, j)       == SubSeq(f, i, j)

(* replace_node: the children of the node may be attached to a Section of  *)
(* the fragment, before or after its own.                                  *)
ReplacedNode(i, frag, retained) ==
    LET old  == forest[i].level
        gen  == Generate(frag, i, old - 1, "node")
        kids == Block(forest, i + 1, End(forest, i))
        new  == IF retained.where = "none" THEN gen
                ELSE LET p   == retained.parent
                         cut == IF retained.where = "prepend" THEN p ELSE End(gen, p)
                     IN Block(gen, 1, cut) \o Shifted(kids, gen[p].level, old)
                        \o Block(gen, cut + 1, Len(gen))
    IN Block(forest, 1, i - 1) \o new \o Block(forest, End(forest, i) + 1, Len(forest))

(* replace_children                                                        *)
ReplacedChildren(i, frag) ==
    Block(forest, 1, i) \o Generate(frag, i, forest[i].level, "children")
    \o Block(forest, End(forest, i) + 1, Len(forest))

Retentions(frag) ==
    {[where |-> "none", parent |-> 0]} \cup
    {[where |-> w, parent |-> p] : w \in {"prepend", "append"},
                                   p \in {k \in DOMAIN frag : frag[k].section}}

RootsOf(frag) == Cardinality(Roots(frag))

(***************************************************************************)
(* The walk                                                                *)
(***************************************************************************)
Running   == result = "running"
Top       == stack[Len(stack)]
Below     == Front(stack)
Here      == NodeAt(forest, Top.path)
Set(frame) == [stack EXCEPT ![Len(stack)] = frame]
Doing(phase) == Running /\ stack # <<>> /\ Top.phase = phase

(* matching_ast_candidates: Tree macros all subscribe to the stage.        *)
Matching(text) == {m \in DOMAIN Candidates : InTree \/ text \in Claims[m]}

Frame(path, depth, i) ==
    [path |-> path, depth |-> depth, todo |-> Matching(forest[i].text), kept |-> kept,
     phase |-> "macros", key |-> <<>>, left |-> 0, pos |-> 0, target |-> 0]

Stop(how) ==
    /\ result' = how
    /\ stack' = <<>> /\ active' = <<>>
    /\ UNCHANGED <<input, numbering, edited, root, disabled>>

(* An error of the host leaves the stage with the state it began with.     *)
Error == Stop("error") /\ kept' = {} /\ UNCHANGED <<forest, calls>>

(* Mutant: only the expansion depth is limited.                            *)
DeepExpansion(path, depth) == depth > MaxExpansion
TooDeep(path, depth) == depth > MaxExpansion \/ Len(path) > MaxRawDepth

(* expand_tree_node and expand_ast_node up to the candidates.              *)
Enter(path, depth, callers) ==
    LET i == NodeAt(forest, path) IN
    IF TooDeep(path, depth) \/ i = 0
    THEN Error
    ELSE /\ stack' = Append(callers, Frame(path, depth, i))
         /\ forest' = [forest EXCEPT ![i].mark = IF @ = "new" THEN "walked" ELSE "again"]
         /\ UNCHANGED <<input, numbering, edited, root, active, calls, kept,
                        disabled, result>>

(* TreeWalk::Continue: the caller moves on by the siblings there are now.  *)
Return(siblings) ==
    IF Below = <<>>
    THEN stack' = <<>> /\ root' = root + siblings
    ELSE /\ stack' = [Below EXCEPT ![Len(Below)].pos = @ + siblings]
         /\ UNCHANGED root

WalkRoots ==
    /\ Running /\ stack = <<>>
    /\ IF root < RootsOf(forest)
       THEN Enter(<<root>>, 0, <<>>)
       ELSE Stop("ok") /\ UNCHANGED <<forest, calls, kept>>

(* Mutant: the roots generated before are taken for one node each.         *)
SamePath(frame) == frame.path
GeneratedPath(frame) ==
    Front(frame.path) \o <<frame.path[Len(frame.path)] + frame.pos>>

(* Mutant: the key of an expansion that is over stays active.              *)
NotPopped == active
Popped    == Front(active)

(* The generated roots take the place of the node, one level of expansion  *)
(* deeper; each may have become any number of siblings.                    *)
WalkGenerated ==
    /\ Doing("generated")
    /\ IF Top.left > 0
       THEN Enter(GeneratedPath(Top), Top.depth + 1, Set([Top EXCEPT !.left = @ - 1]))
       ELSE /\ active' = Popped
            /\ Return(Top.pos)
            /\ UNCHANGED <<input, numbering, forest, edited, calls, kept,
                           disabled, result>>

(* The identity of the node is taken when its children's turn comes.       *)
BeginChildren ==
    /\ Doing("macros") /\ Top.todo = {}
    /\ stack' = Set([Top EXCEPT !.phase = "children",
                                !.target = Identity(forest, numbering, Here)])
    /\ UNCHANGED <<input, numbering, forest, edited, root, active, calls, kept,
                   disabled, result>>

ChildrenOf(id) == UNION {Kids(forest, i) : i \in Named(forest, numbering, id)}

WalkChildren ==
    /\ Doing("children")
    /\ IF Top.pos < Cardinality(ChildrenOf(Top.target))
       THEN Enter(Append(Top.path, Top.pos), Top.depth, stack)
       ELSE /\ Return(1)
            /\ UNCHANGED <<input, numbering, forest, edited, active, calls, kept,
                           disabled, result>>

(***************************************************************************)
(* The candidates of the node on top                                       *)
(***************************************************************************)
Offering == Doing("macros") /\ Top.todo # {}
Macro    == Min(Top.todo)
Usable   == Offering /\ Candidates[Macro] \notin disabled
Callable == Usable /\ calls < MaxCalls
Key      == CycleKey(Macro, Here)
Invoked  == Callable /\ ~Contains(active, Key)

(* Mutant: a failure goes back to the state of the root.                   *)
RootState == stack[1].kept
NodeState == Top.kept

(* Mutant: a failed node counts for nothing.                               *)
NoSibling == 0
Siblings  == 1

(* A failure ends the node: its state is rolled back, its children are not *)
(* walked and it counts as one sibling.                                    *)
FailNode ==
    /\ kept' = NodeState
    /\ forest' = [forest EXCEPT ![Here].mark = "failed"]
    /\ Return(Siblings)
    /\ UNCHANGED <<input, numbering, edited, active, result>>

Unavailable == Offering /\ ~Usable /\ FailNode /\ UNCHANGED <<calls, disabled>>
OutOfCalls  == Usable /\ ~Callable /\ Error
Cycle       == Callable /\ ~Invoked /\ FailNode /\ calls' = calls + 1 /\ UNCHANGED disabled

(* An addon error or an invalid output; a trap disables the component.     *)
Fail ==
    /\ Invoked /\ FailNode
    /\ calls' = calls + 1
    /\ disabled' \in {disabled, disabled \cup {Candidates[Macro]}}

Continue(handled) ==
    stack' = Set([Top EXCEPT !.todo = IF handled THEN {} ELSE @ \ {Macro}])

NotApplicable ==
    /\ Invoked
    /\ calls' = calls + 1
    /\ Continue(FALSE)
    /\ UNCHANGED <<input, numbering, forest, edited, root, active, kept, disabled, result>>

(* A typed rejection restores the stage.                                   *)
Reject ==
    /\ Invoked
    /\ Stop("reject")
    /\ forest' = input.forest /\ kept' = {} /\ calls' = calls + 1

(* Mutant: an accepted call is not listed.                                 *)
Unlisted == calls' = calls /\ kept' = kept \cup {calls + 1}
Adopted  == calls' = calls + 1 /\ kept' = kept \cup {calls + 1}

Accept(handled) ==
    /\ Invoked /\ Adopted
    /\ Continue(handled)
    /\ UNCHANGED <<input, numbering, forest, edited, root, active, disabled, result>>

Replaced(new) ==
    /\ forest' = new
    /\ edited' = TRUE /\ numbering' = "preorder"
    /\ UNCHANGED <<input, root, disabled, result>>

(* A quota of the Tree stage is an error; the AST stage validates what it  *)
(* would adopt and fails the node.                                         *)
ReplaceNode(frag, retained) ==
    LET new == ReplacedNode(Here, frag, retained) IN
    /\ Invoked
    /\ InAst => retained.where = "none"
    /\ CASE InTree /\ Len(Top.path) - 1 + Deepest(frag) > MaxRawDepth -> Error
         [] InTree /\ Len(new) > MaxNodes -> Error
         [] InAst /\ (Len(new) > MaxNodes \/ Deepest(new) > MaxRawDepth) ->
              FailNode /\ calls' = calls + 1 /\ UNCHANGED disabled
         [] OTHER ->
              /\ Adopted /\ Replaced(new)
              /\ active' = Append(active, Key)
              /\ stack' = Set([Top EXCEPT !.phase = "generated", !.key = Key,
                                          !.left = RootsOf(frag)])

ReplaceChildren(frag, handled) ==
    LET new == ReplacedChildren(Here, frag) IN
    /\ Invoked /\ InTree /\ forest[Here].section
    /\ IF Len(Top.path) + Deepest(frag) > MaxRawDepth \/ Len(new) > MaxNodes
       THEN Error
       ELSE /\ Adopted /\ Replaced(new)
            /\ Continue(handled)
            /\ UNCHANGED active

Planted(f) == [i \in DOMAIN f |->
    [level |-> f[i].level, section |-> f[i].section, text |-> f[i].text,
     at |-> {<<i, End(f, i)>>}, by |-> 0, how |-> "parsed", mark |-> "new"]]

Init ==
    /\ \E f \in Forests, s \in {"tree", "ast"}, order \in {"preorder", "postorder"} :
          /\ s = "tree" => order = "preorder"
          /\ input = [stage |-> s, order |-> order, forest |-> Planted(f)]
    /\ numbering = input.order /\ forest = input.forest
    /\ edited = FALSE
    /\ root = 0 /\ stack = <<>> /\ active = <<>>
    /\ calls = 0 /\ kept = {} /\ disabled = {}
    /\ result = "running"

Answers ==
    \/ Reject \/ NotApplicable \/ Fail
    \/ \E handled \in BOOLEAN : Accept(handled)
    \/ \E frag \in Fragments :
          \/ \E retained \in Retentions(frag) : ReplaceNode(frag, retained)
          \/ \E handled \in BOOLEAN : ReplaceChildren(frag, handled)

Next ==
    \/ WalkRoots \/ WalkGenerated \/ BeginChildren \/ WalkChildren
    \/ Unavailable \/ OutOfCalls \/ Cycle \/ Answers

(* The walk is one thread of ordinary control flow and the time of a call  *)
(* is bounded by fuel and deadline: it goes on while it can.               *)
Spec == Init /\ [][Next]_vars /\ WF_vars(Next)

(***************************************************************************)
(* Properties                                                              *)
(***************************************************************************)
Expanding(n) == Cardinality({k \in 1 .. n : stack[k].phase = "generated"})

(* The forest is the preorder of trees, and pipeline.active is the keys of *)
(* the calls whose generated nodes are being walked, in order: a cycle is  *)
(* reported only when a macro meets what it is expanding already.          *)
TypeOK ==
    /\ numbering \in {"preorder", "postorder"} /\ edited \in BOOLEAN
    /\ \A i \in DOMAIN forest :
          /\ forest[i].level \in 1 .. (IF i = 1 THEN 1 ELSE forest[i - 1].level + 1)
          /\ forest[i].mark \in {"new", "walked", "failed", "again"}
    /\ calls \in 0 .. MaxCalls /\ kept \subseteq 1 .. calls
    /\ disabled \subseteq ToSet(Candidates)
    /\ result \in {"running", "ok", "reject", "error"}
    /\ Len(active) = Expanding(Len(stack))
    /\ \A k \in DOMAIN stack :
          stack[k].phase = "generated" => active[Expanding(k)] = stack[k].key

BelowFailure(i) == \E j \in Above(forest, i) : forest[j].mark = "failed"

Offered == \A i \in DOMAIN forest :
    /\ forest[i].mark # "again"
    /\ forest[i].mark = "new" => BelowFailure(i)

(* A stage that ends with a tree has offered every node of it to the       *)
(* macros exactly once, those that macros generated among them, except     *)
(* below a node that failed; when identities are in preorder.              *)
(* expand_tree_node, expand_ast_node, host.rs:10746-10793.                 *)
WalkComplete == result = "ok" /\ input.order = "preorder" => Offered

(* The same of any tree: "walks its nodes in deterministic preorder",      *)
(* parser-wasm/README.md:895.                                              *)
EveryNodeOffered == result = "ok" => Offered

(* Nothing is nested deeper than the quota, except below a failed node:    *)
(* what a generated Section retains is not counted when it is attached and *)
(* is caught only when its turn comes (wit_tree_edit_depth).               *)
NestingBounded ==
    result = "ok" => \A i \in DOMAIN forest :
        forest[i].level > MaxRawDepth => BelowFailure(i)

(* An edit that replaced a node and is in the tree at the end was made by  *)
(* a call whose writes are kept, and the walk never undoes the one         *)
(* without the other.                                                      *)
EditsKept ==
    result = "ok" => \A i \in DOMAIN forest :
        forest[i].how = "node" => forest[i].by \in kept

(* The stage ends, whatever the macros answer: generated nodes that        *)
(* generate nodes, failures that leave a node where it is.                 *)
Terminates == <>(result # "running")
=============================================================================
