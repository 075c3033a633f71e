------------------------------- MODULE RbTree -------------------------------
(***************************************************************************)
(* The red-black tree of library/rbtree.c, which keeps the transactions of *)
(* a connection (library/trans.c) and the operation locks of a node        *)
(* (library/locks.c).  A node of the tree is its key.  The code has every  *)
(* case twice, for the left and the right side; here the side is a         *)
(* parameter.                                                              *)
(***************************************************************************)
EXTENDS Integers, Sequences, FiniteSets

CONSTANT MaxKey   \* bound: keys

RbKeys == 1..MaxKey
NULL == 0
Sides == {"left", "right"}
Other(s) == IF s = "left" THEN "right" ELSE "left"

VARIABLES
    tree,     \* [root, kid, parent, red]; red is the set of red nodes
    present   \* keys that were inserted and not erased

rbVars == <<tree, present>>

NoKids == [s \in Sides |-> NULL]
Empty == [root |-> NULL, kid |-> [k \in RbKeys |-> NoKids], parent |-> [k \in RbKeys |-> NULL], red |-> {}]

-----------------------------------------------------------------------------
IsRed(t, x) == x \in t.red
IsBlack(t, x) == x = NULL \/ x \notin t.red
Black(t, x) == [t EXCEPT !.red = @ \ {x}]
Red(t, x) == [t EXCEPT !.red = @ \cup {x}]
SetParent(t, x, p) == IF x = NULL THEN t ELSE [t EXCEPT !.parent[x] = p]
SideOf(t, x) == IF t.kid[t.parent[x]]["left"] = x THEN "left" ELSE "right"

\* The place that pointed to x now points to y.
Hang(t, x, y) ==
    IF t.parent[x] = NULL THEN [t EXCEPT !.root = y]
    ELSE [t EXCEPT !.kid[t.parent[x]][SideOf(t, x)] = y]

\* Faulty form: the inner subtree does not learn its new parent.
RotateHalf(t, x, s) ==
    LET y    == t.kid[x][Other(s)]
        up   == SetParent(Hang(t, x, y), y, t.parent[x])
        down == [up EXCEPT !.kid[x][Other(s)] = t.kid[y][s], !.kid[y][s] = x]
    IN  SetParent(down, x, y)

\* __rb_rotate_left and __rb_rotate_right: x goes down on side s.
Rotate(t, x, s) ==
    LET y     == t.kid[x][Other(s)]
        inner == t.kid[y][s]
        up    == SetParent(Hang(t, x, y), y, t.parent[x])
        down  == [SetParent(up, inner, x) EXCEPT !.kid[x][Other(s)] = inner, !.kid[y][s] = x]
    IN  SetParent(down, x, y)

\* rb_insert_color(): up the tree while parent and node are both red.
RECURSIVE InsertColor(_, _)
InsertColor(t, x) ==
    LET p == t.parent[x]
    IN  IF p = NULL \/ IsBlack(t, p) THEN Black(t, t.root)
        ELSE LET g == t.parent[p]
                 s == SideOf(t, p)
                 u == t.kid[g][Other(s)]
                 bent == t.kid[p][Other(s)] = x
                 line == IF bent THEN Rotate(t, p, s) ELSE t
                 top  == IF bent THEN x ELSE p
                 low  == IF bent THEN p ELSE x
             IN  IF u # NULL /\ IsRed(t, u)
                 THEN InsertColor(Red(Black(Black(t, u), p), g), g)
                 ELSE InsertColor(Rotate(Red(Black(line, top), g), g, Other(s)), low)

\* __rb_erase_color(): x, a child of p, is one black node short.
RECURSIVE EraseColor(_, _, _)
EraseColor(t, x, p) ==
    IF IsRed(t, x) \/ x = t.root THEN IF x = NULL THEN t ELSE Black(t, x)
    ELSE LET s  == IF t.kid[p]["left"] = x THEN "left" ELSE "right"
             o1 == t.kid[p][Other(s)]
             t1 == IF IsRed(t, o1) THEN Rotate(Red(Black(t, o1), p), p, s) ELSE t
             o  == t1.kid[p][Other(s)]
             near == t1.kid[o][s]
             far  == t1.kid[o][Other(s)]
             t2 == IF IsBlack(t1, far) THEN Rotate(Red(Black(t1, near), o), o, Other(s)) ELSE t1
             o2 == t2.kid[p][Other(s)]
             t3 == IF IsRed(t2, p) THEN Red(t2, o2) ELSE Black(t2, o2)
             t4 == Rotate(Black(Black(t3, p), t3.kid[o2][Other(s)]), p, s)
         IN  IF IsBlack(t1, near) /\ IsBlack(t1, far)
             THEN EraseColor(Red(t1, o), p, t1.parent[p])
             ELSE Black(t4, t4.root)

RECURSIVE Descend(_, _, _)
Descend(t, x, s) == IF t.kid[x][s] = NULL THEN x ELSE Descend(t, t.kid[x][s], s)

\* The node is not part of the tree any more.
Forget(t, x) == [t EXCEPT !.kid[x] = NoKids, !.parent[x] = NULL, !.red = @ \ {x}]

\* rb_erase() of a node with at most one child.
EraseOuter(t, x) ==
    LET child == IF t.kid[x]["left"] = NULL THEN t.kid[x]["right"] ELSE t.kid[x]["left"]
        p     == t.parent[x]
        cut   == SetParent(Hang(t, x, child), child, p)
    IN  IF IsRed(t, x) THEN cut ELSE EraseColor(cut, child, p)

\* rb_erase() of a node with two: the next node takes its place and colour.
EraseInner(t, old) ==
    LET x     == Descend(t, t.kid[old]["right"], "left")
        child == t.kid[x]["right"]
        p     == t.parent[x]
        cut   == SetParent(IF p = old THEN [t EXCEPT !.kid[p]["right"] = child]
                           ELSE [t EXCEPT !.kid[p]["left"] = child], child, p)
        moved == [Hang(cut, old, x) EXCEPT !.kid[x] = cut.kid[old], !.parent[x] = cut.parent[old]]
        hung  == SetParent(SetParent(moved, cut.kid[old]["left"], x), cut.kid[old]["right"], x)
        done  == IF IsRed(t, old) THEN Red(hung, x) ELSE Black(hung, x)
    IN  IF IsRed(t, x) THEN done ELSE EraseColor(done, child, IF p = old THEN x ELSE p)

-----------------------------------------------------------------------------
RECURSIVE Place(_, _, _)
Place(t, x, k) ==
    LET s == IF k < x THEN "left" ELSE "right"
    IN  IF t.kid[x][s] = NULL THEN <<x, s>> ELSE Place(t, t.kid[x][s], k)

\* dnet_trans_insert_raw(): down from the root, and rb_link_node().
Link(t, k) ==
    IF t.root = NULL THEN Red([t EXCEPT !.root = k], k)
    ELSE LET place == Place(t, t.root, k)
         IN  Red([t EXCEPT !.kid[place[1]][place[2]] = k, !.parent[k] = place[1]], k)

RbInit == tree = Empty /\ present = {}

RbInsert(k) ==
    /\ k \notin present
    /\ present' = present \cup {k}
    /\ tree' = InsertColor(Link(tree, k), k)

RbErase(k) ==
    /\ k \in present
    /\ present' = present \ {k}
    /\ tree' = Forget(IF NULL \in {tree.kid[k][s] : s \in Sides} THEN EraseOuter(tree, k)
                      ELSE EraseInner(tree, k), k)

RbNext == \E k \in RbKeys : RbInsert(k) \/ RbErase(k)
RbSpec == RbInit /\ [][RbNext]_rbVars

-----------------------------------------------------------------------------
(* rb_first() and rb_next().                                               *)

First(t) == IF t.root = NULL THEN NULL ELSE Descend(t, t.root, "left")

RECURSIVE Climb(_, _, _)
Climb(t, x, s) ==
    IF t.parent[x] # NULL /\ t.kid[t.parent[x]][s] = x THEN Climb(t, t.parent[x], s) ELSE t.parent[x]

\* rb_next() with s = "right", rb_prev() with s = "left".
Step(t, x, s) ==
    IF t.kid[x][s] # NULL THEN Descend(t, t.kid[x][s], Other(s)) ELSE Climb(t, x, s)

RECURSIVE BlackHeight(_, _)
BlackHeight(t, x) ==
    IF x = NULL THEN 0 ELSE BlackHeight(t, t.kid[x]["left"]) + IF x \in t.red THEN 0 ELSE 1

\* After any sequence of insertions and erasures no red node has a red child, and
\* every way down has the same number of black nodes: a search, under the lock of
\* all transactions of a connection, takes logarithmic time.
RedBlack ==
    /\ tree.root # NULL => IsBlack(tree, tree.root) /\ tree.parent[tree.root] = NULL
    /\ \A x \in present :
          /\ x \in tree.red => \A s \in Sides : IsBlack(tree, tree.kid[x][s])
          /\ BlackHeight(tree, tree.kid[x]["left"]) = BlackHeight(tree, tree.kid[x]["right"])

Successor(k) == IF \E m \in present : m > k THEN CHOOSE m \in present : m > k /\ \A n \in present : n > k => m <= n ELSE NULL

\* No key is lost, and no erased one is left: rb_first() and rb_next() go through
\* exactly the keys inserted and not erased, in their order, and rb_prev() back.
WalkInOrder ==
    /\ First(tree) = Successor(0)
    /\ \A x \in present :
          /\ Step(tree, x, "right") = Successor(x)
          /\ Successor(x) # NULL => Step(tree, Successor(x), "left") = x
          /\ \A s \in Sides : tree.kid[x][s] # NULL => tree.parent[tree.kid[x][s]] = x
=============================================================================
