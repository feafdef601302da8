--------------------------- MODULE SupportedPairs ---------------------------
(***************************************************************************)
(* The swap tree of an oracle, state::supported_pairs.  A node is a swap   *)
(* target: a currency and the pool where it is swapped with the currency   *)
(* of the parent node.  The root is the base currency of the protocol.     *)
(***************************************************************************)
EXTENDS Integers, SequencesExt

CONSTANTS BaseC, StableC

----------------------------------------------------------------------------
(* Package tree.  A tree is a sequence of nodes, each with the index of    *)
(* its parent; the root is the first and its own parent.  (The indices of  *)
(* the code start from 0, these from 1.)  Users write a tree as a nested   *)
(* value with children, the human readable tree.                           *)

ROOT_INDEX == 1

\* Node::new
TreeNode(up, v) == [parent |-> up, value |-> v]

\* HrtNode
Hrt(v, nested) == [value |-> v, children |-> nested]

\* mutant: the nodes level by level, as a queue would give them
RECURSIVE ByLevels(_, _)
ByLevels(queue, nodes) ==
    IF queue = <<>> THEN nodes
    ELSE LET hrt  == Head(queue).hrt
             this == Len(nodes) + 1
         IN  ByLevels(Tail(queue)
                        \o [i \in DOMAIN hrt.children |->
                              [hrt |-> hrt.children[i], up |-> this]],
                      Append(nodes, TreeNode(Head(queue).up, hrt.value)))

IntoLevels(hrt) == ByLevels(<<[hrt |-> hrt, up |-> ROOT_INDEX]>>, <<>>)

\* HrtNode::flatten.  The nodes of a subtree whose root gets index `this`
RECURSIVE Flatten(_, _, _)
Flatten(hrt, up, this) ==
    FoldLeft(LAMBDA nodes, child :
                nodes \o Flatten(child, this, this + Len(nodes)),
             <<TreeNode(up, hrt.value)>>, hrt.children)

\* HumanReadableTree::into_tree
IntoTree(hrt) == Flatten(hrt, ROOT_INDEX, ROOT_INDEX)

----------------------------------------------------------------------------
(* HumanReadableTree::from_tree takes the nodes away one after another,    *)
(* the last of those with the greatest parent first, each with its         *)
(* children that have been taken already.                                  *)

\* HumanReadableTree::convert_node_to_hrt
ConvertNode(nodes, children, i) == Hrt(nodes[i].value, Reverse(children[i]))

NextToTake(nodes, rest) ==
    CHOOSE i \in rest : \A j \in rest :
        \/ nodes[j].parent < nodes[i].parent
        \/ nodes[j].parent = nodes[i].parent /\ j <= i

Take(nodes, acc) ==
    LET i == NextToTake(nodes, acc.rest)
    IN  [rest     |-> acc.rest \ {i},
         children |-> [acc.children EXCEPT ![nodes[i].parent] =
                          Append(@, ConvertNode(nodes, acc.children, i))]]

FromTree(nodes) ==
    LET all == FoldLeft(LAMBDA acc, k : Take(nodes, acc),
                        [rest     |-> DOMAIN nodes \ {ROOT_INDEX},
                         children |-> [i \in DOMAIN nodes |-> <<>>]],
                        [k \in 1..(Len(nodes) - 1) |-> k])
    IN  ConvertNode(nodes, all.children, ROOT_INDEX)

----------------------------------------------------------------------------
(* NodeRef *)

IsRoot(i) == i = ROOT_INDEX

\* NodeRef::value, NodeRef::parent
ValueAt(nodes, i) == nodes[i].value
ParentAt(nodes, i) == nodes[i].parent

\* NodeRef::parents_iter, from a node inclusive up to the root
RECURSIVE ToRoot(_, _)
ToRoot(nodes, i) ==
    <<i>> \o (IF IsRoot(i) THEN <<>> ELSE ToRoot(nodes, ParentAt(nodes, i)))

----------------------------------------------------------------------------
(* SupportedPairs *)

\* SwapTarget
SwapTarget(pool, currency) == [pool_id |-> pool, target |-> currency]

TargetAt(nodes, i) == ValueAt(nodes, i).target

Targets(nodes) == {TargetAt(nodes, i) : i \in DOMAIN nodes}

\* SupportedPairs::check_tree
CheckTree(nodes) ==
    /\ TargetAt(nodes, ROOT_INDEX) = BaseC
    /\ StableC \in Targets(nodes)
    /\ \A i, j \in DOMAIN nodes :
          TargetAt(nodes, i) = TargetAt(nodes, j) => i = j

\* SupportedPairs::swap_pairs_df: the legs <<currency, quote>> in tree order
SwapPairs(nodes) ==
    [i \in 1..(Len(nodes) - 1) |->
        <<TargetAt(nodes, i + 1), TargetAt(nodes, ParentAt(nodes, i + 1))>>]

\* Tree::find_by: the first node of a currency, 0 if there is none
FindBy(nodes, currency) ==
    SelectInSeq(nodes, LAMBDA node : node.value.target = currency)

\* SupportedPairs::internal_load_path, of a currency of the tree
LoadNodes(nodes, currency) == ToRoot(nodes, FindBy(nodes, currency))

\* SupportedPairs::load_path
LoadPath(nodes, currency) ==
    LET path == LoadNodes(nodes, currency)
    IN  [k \in DOMAIN path |-> TargetAt(nodes, path[k])]

\* Where on a path the value of a node is, 0 if nowhere
Position(nodes, path, i) ==
    SelectLastInSeq(path, LAMBDA n : ValueAt(nodes, n) = ValueAt(nodes, i))

\* mutant: the last target of the way down is the common ancestor
LoadSwapPathOver(nodes, from, to) ==
    LET up   == LoadNodes(nodes, from)
        down == LoadNodes(nodes, to)
        meet == SelectInSeq(up, LAMBDA n : Position(nodes, down, n) # 0)
    IN  [k \in 1..(meet - 1) |->
            SwapTarget(ValueAt(nodes, up[k]).pool_id,
                       TargetAt(nodes, ParentAt(nodes, up[k])))]
        \o Reverse([k \in 1..(Position(nodes, down, up[meet])) |->
                      ValueAt(nodes, down[k])])

(***************************************************************************)
(* SupportedPairs::load_swap_path: up from the one currency to the first   *)
(* common ancestor, each time through the pool of the node that is left,   *)
(* and down to the other through the pools of the nodes that are entered.  *)
(***************************************************************************)
LoadSwapPath(nodes, from, to) ==
    LET up   == LoadNodes(nodes, from)
        down == LoadNodes(nodes, to)
        meet == SelectInSeq(up, LAMBDA n : Position(nodes, down, n) # 0)
    IN  [k \in 1..(meet - 1) |->
            SwapTarget(ValueAt(nodes, up[k]).pool_id,
                       TargetAt(nodes, ParentAt(nodes, up[k])))]
        \o Reverse([k \in 1..(Position(nodes, down, up[meet]) - 1) |->
                      ValueAt(nodes, down[k])])
=============================================================================
