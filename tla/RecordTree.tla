------------------------------ MODULE RecordTree ------------------------------
(***************************************************************************)
(* The red-black tree of tree.h in which the trace driver keeps a record   *)
(* for every live object.  A node is named by its key: no two records in   *)
(* the tree have the same.  The two mirror images that every macro spells  *)
(* out are one operator here, with the side as its parameter.              *)
(***************************************************************************)
EXTENDS Integers, Sequences, FiniteSets, FiniteSetsExt, SequencesExt, Functions, TLC

CONSTANT Nil  \* no node

Side == {"left", "right"}
other(s) == IF s = "left" THEN "right" ELSE "left"

empty_tree == [root |-> Nil, node |-> <<>>]
keys_of(t) == DOMAIN t.node

is_red(t, x) == x # Nil /\ t.node[x].color = "red"
painted(t, x, c) == [t EXCEPT !.node[x].color = c]
RB_SET_BLACKRED(t, black, red) == painted(painted(t, black, "black"), red, "red")

with_parent(t, x, p) == IF x = Nil THEN t ELSE [t EXCEPT !.node[x].parent = p]

(* x is the child of p on side s, or the root if there is no p. *)
side_of(t, p, x) == IF t.node[p].left = x THEN "left" ELSE "right"
with_child(t, p, s, x) == IF p = Nil THEN [t EXCEPT !.root = x] ELSE [t EXCEPT !.node[p][s] = x]
replaced(t, p, old, new) == with_child(t, p, IF p = Nil THEN "left" ELSE side_of(t, p, old), new)

(* RB_ROTATE_LEFT and RB_ROTATE_RIGHT: the child of x on the other side    *)
(* takes its place.                                                        *)
RB_ROTATE(t, x, s) ==
  LET o     == other(s)
      y     == t.node[x][o]
      inner == t.node[y][s]
      p     == t.node[x].parent
      t1    == with_parent([t EXCEPT !.node[x][o] = inner], inner, x)
      t2    == replaced([t1 EXCEPT !.node[y].parent = p], p, x, y)
  IN  [t2 EXCEPT !.node[y][s] = x, !.node[x].parent = y]

(* A node that is the inner child is first rotated out.                    *)
outward(t, p, s, x) ==
  IF t.node[p][other(s)] = x THEN [tree |-> RB_ROTATE(t, p, s), parent |-> x, elm |-> p]
  ELSE [tree |-> t, parent |-> p, elm |-> x]

cmpmrec(a, b) == IF a < b THEN -1 ELSE IF a = b THEN 0 ELSE 1
side_for(key, x) == IF cmpmrec(key, x) < 0 THEN "left" ELSE "right"

RECURSIVE RB_INSERT_COLOR(_, _)
RB_INSERT_COLOR(t, x) ==
  LET p == t.node[x].parent
      g == t.node[p].parent
      s == side_of(t, g, p)
      uncle == t.node[g][other(s)]
      r == outward(t, p, s, x)
  IN  IF ~is_red(t, p) THEN painted(t, t.root, "black")
      ELSE IF is_red(t, uncle)
      THEN RB_INSERT_COLOR(RB_SET_BLACKRED(painted(t, uncle, "black"), p, g), g)
      ELSE RB_INSERT_COLOR(RB_ROTATE(RB_SET_BLACKRED(r.tree, r.parent, g), g, other(s)), r.elm)

(* x, which may be Nil, is a child of p and has one black node too few    *)
(* above its leaves.                                                       *)
RECURSIVE RB_REMOVE_COLOR(_, _, _)
RB_REMOVE_COLOR(t, p, x) ==
  LET s  == side_of(t, p, x)
      o  == other(s)
      t1 == IF is_red(t, t.node[p][o])
            THEN RB_ROTATE(RB_SET_BLACKRED(t, t.node[p][o], p), p, s) ELSE t
      b1 == t1.node[p][o]
      t2 == IF is_red(t1, t1.node[b1][o]) THEN t1
            ELSE RB_ROTATE(RB_SET_BLACKRED(t1, t1.node[b1][s], b1), b1, o)
      b2 == t2.node[p][o]
      t3 == painted(painted(t2, b2, t2.node[p].color), p, "black")
      t4 == RB_ROTATE(painted(t3, t3.node[b2][o], "black"), p, s)
  IN  IF x = t.root \/ is_red(t, x)
      THEN IF x = Nil THEN t ELSE painted(t, x, "black")
      ELSE IF ~is_red(t1, t1.node[b1].left) /\ ~is_red(t1, t1.node[b1].right)
      THEN RB_REMOVE_COLOR(painted(t1, b1, "red"), t1.node[p].parent, p)
      ELSE painted(t4, t4.root, "black")

(* The node furthest on side s below x. *)
RECURSIVE furthest(_, _, _)
furthest(t, x, s) == IF t.node[x][s] = Nil THEN x ELSE furthest(t, t.node[x][s], s)

(* A node with at most one child is cut out; before another, its successor *)
(* takes its place, links and colour.                                      *)
cut_out(t, x) ==
  LET child == IF t.node[x].left = Nil THEN t.node[x].right ELSE t.node[x].left
      p     == t.node[x].parent
  IN  [tree |-> replaced(with_parent(t, child, p), p, x, child), parent |-> p, child |-> child]

(* Fault: it keeps its own colour.                                         *)
succeeds_unpainted(t, old, new) ==
  LET n  == t.node[old]
      t1 == replaced([t EXCEPT !.node[new] = [n EXCEPT !.color = t.node[new].color]], n.parent, old, new)
  IN  with_parent(with_parent(t1, n.left, new), n.right, new)
succeeds(t, old, new) ==
  LET n  == t.node[old]
      t1 == replaced([t EXCEPT !.node[new] = n], n.parent, old, new)
  IN  with_parent(with_parent(t1, n.left, new), n.right, new)

RB_REMOVE(t, old) ==
  LET two == t.node[old].left # Nil /\ t.node[old].right # Nil
      elm == IF two THEN furthest(t, t.node[old].right, "left") ELSE old
      cut == cut_out(t, elm)
      t1  == IF two THEN succeeds(cut.tree, old, elm) ELSE cut.tree
      p   == IF cut.parent = old /\ two THEN elm ELSE cut.parent
      t2  == IF t.node[elm].color = "black" THEN RB_REMOVE_COLOR(t1, p, cut.child) ELSE t1
  IN  [t2 EXCEPT !.node = Restrict(@, DOMAIN @ \ {old})]

(* The way from the root to where key is or would be. *)
path_to(t, key) ==
  LET down[n \in 0 .. Cardinality(keys_of(t))] ==
        IF n = 0 THEN <<t.root>>
        ELSE LET w == down[n - 1]
                 x == Last(w)
             IN  IF x = Nil \/ cmpmrec(key, x) = 0 THEN w
                 ELSE Append(w, t.node[x][side_for(key, x)])
  IN  down[Cardinality(keys_of(t))]

RB_FIND(t, key) == Last(path_to(t, key))

(* The last node at which the way turned left. *)
RB_NFIND(t, key) ==
  LET above == {x \in ToSet(path_to(t, key)) \ {Nil} : x >= key}
  IN  IF above = {} THEN Nil ELSE Min(above)

RB_INSERT(t, key) ==
  LET way == path_to(t, key)
      p   == IF Len(way) = 1 THEN Nil ELSE way[Len(way) - 1]
      new == [left |-> Nil, right |-> Nil, parent |-> p, color |-> "red"]
      t1  == with_child([t EXCEPT !.node = (key :> new) @@ @], p, side_for(key, p), key)
  IN  IF Last(way) = key THEN t ELSE RB_INSERT_COLOR(t1, key)

(* RB_NEXT goes to the right, RB_PREV to the left: down and then back, or  *)
(* up to the first node that is on that side.                              *)
RECURSIVE first_above(_, _, _)
first_above(t, x, s) ==
  LET p == t.node[x].parent
  IN  IF p = Nil \/ t.node[p][s] # x THEN p ELSE first_above(t, p, s)

step_to(t, x, s) ==
  IF t.node[x][s] # Nil THEN furthest(t, t.node[x][s], other(s)) ELSE first_above(t, x, s)
RB_NEXT(t, x) == step_to(t, x, "right")
RB_PREV(t, x) == step_to(t, x, "left")
RB_MINMAX(t, s) == IF t.root = Nil THEN Nil ELSE furthest(t, t.root, s)
-----------------------------------------------------------------------------
(* Black nodes from x down to a leaf; -1 if the ways differ or a red node  *)
(* has a red child.                                                        *)
RECURSIVE black_height(_, _)
black_height(t, x) ==
  IF x = Nil THEN 0
  ELSE LET n == t.node[x]
           l == black_height(t, n.left)
           r == black_height(t, n.right)
       IN  IF l = -1 \/ l # r \/ (n.color = "red" /\ (is_red(t, n.left) \/ is_red(t, n.right)))
           THEN -1 ELSE IF n.color = "black" THEN l + 1 ELSE l

links_agree(t) ==
  /\ t.root # Nil => t.node[t.root].parent = Nil /\ ~is_red(t, t.root)
  /\ \A x \in keys_of(t), s \in Side :
       LET c == t.node[x][s]
       IN  c # Nil => /\ t.node[c].parent = x
                       /\ IF s = "left" THEN c < x ELSE x < c

(* t is a red-black search tree of these keys, and walking through it from *)
(* either end, or looking for a key or the next one to it, finds them all. *)
is_search_tree_of(t, keys) ==
  LET up(k)   == {x \in keys : x > k}
      down(k) == {x \in keys : x < k}
      least(S) == IF S = {} THEN Nil ELSE Min(S)
      most(S) == IF S = {} THEN Nil ELSE Max(S)
  IN  /\ keys_of(t) = keys
      /\ links_agree(t)
      /\ black_height(t, t.root) >= 0
      /\ RB_MINMAX(t, "left") = least(keys) /\ RB_MINMAX(t, "right") = most(keys)
      /\ \A k \in keys : /\ RB_FIND(t, k) = k
                         /\ RB_NEXT(t, k) = least(up(k)) /\ RB_PREV(t, k) = most(down(k))
                         /\ RB_NFIND(t, k) = k /\ RB_NFIND(t, k + 1) = least(up(k))
=============================================================================
