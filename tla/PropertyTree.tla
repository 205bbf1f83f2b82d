--------------------------- MODULE PropertyTree ---------------------------
(***************************************************************************)
(* boost::property_tree as this library uses it, and ptreeMerge().  A tree *)
(* is its data and the sequence of its children, which may share a key; a  *)
(* path is a sequence of keys, and leads to the first child of each key.   *)
(***************************************************************************)
EXTENDS Integers, Sequences

Leaf(v) == [data |-> v, kids |-> <<>>]
EmptyTree == Leaf("")
Node(kids) == [data |-> "", kids |-> kids]
Kid(key, tree) == [key |-> key, tree |-> tree]

\* What get_child() and get() give for a path that is not there.
Missing == Leaf("missing")

\* find(key): the first child with that key, 0 if there is none.
Find(t, key) ==
  LET found == {i \in DOMAIN t.kids : t.kids[i].key = key}
  IN  IF found = {} THEN 0 ELSE CHOOSE i \in found : \A j \in found : i <= j

RECURSIVE GetChild(_, _)
GetChild(t, path) ==
  IF path = <<>> THEN t
  ELSE IF Find(t, Head(path)) = 0 THEN Missing
  ELSE GetChild(t.kids[Find(t, Head(path))].tree, Tail(path))

Get(t, path, default) == IF GetChild(t, path) = Missing THEN default ELSE GetChild(t, path).data

\* add(path, v): a new child at the end, under the first node of the path.
RECURSIVE AddTo(_, _, _)
AddTo(t, path, v) ==
  IF Len(path) = 1 THEN [t EXCEPT !.kids = Append(@, Kid(path[1], Leaf(v)))]
  ELSE IF Find(t, path[1]) = 0 THEN [t EXCEPT !.kids = Append(@, Kid(path[1], AddTo(EmptyTree, Tail(path), v)))]
  ELSE [t EXCEPT !.kids[Find(t, path[1])].tree = AddTo(@, Tail(path), v)]

\* put(key, v), for a key that is there.
PutAt(t, key, v) == [t EXCEPT !.kids[Find(t, key)].tree.data = v]

---------------------------------------------------------------------------
\* ptreeMerge() for one leaf: find() takes the path for the name of a child, so
\* it finds only a child of the root; elsewhere a value of pt2 is not written
\* over that of pt1, as it is meant to be, but added behind it.
MergeLeaf(t, path, v) ==
  IF Len(path) = 1 /\ Find(t, path[1]) # 0 THEN PutAt(t, path[1], v) ELSE AddTo(t, path, v)

\* ptreeMerge(pt1, pt2, node), whose recursion takes a path for a child, and so
\* leads back to the first of the children that share its key.
RECURSIVE MergeKids(_, _, _, _)
MergeKids(pt1, pt2, node, kids) ==
  IF kids = <<>> THEN pt1
  ELSE LET path == Append(node, Head(kids).key)
           kid == Head(kids).tree
       IN  MergeKids(IF kid.kids = <<>> THEN MergeLeaf(pt1, path, kid.data)
                     ELSE MergeKids(pt1, pt2, path, GetChild(pt2, path).kids),
                     pt2, node, Tail(kids))

PtreeMerge(pt1, pt2) == MergeKids(pt1, pt2, <<>>, pt2.kids)
===========================================================================
