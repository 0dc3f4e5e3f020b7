----------------------------- MODULE LinkedLists -----------------------------
(***************************************************************************)
(* Linked lists in the fields of their own elements, for the proofs about  *)
(* the pools: in[e] says which list the element e is in, at[e] how many    *)
(* elements there are from e to the end of it.  An element keeps its place *)
(* when others come and go before it, so an operation on one list says     *)
(* nothing new of the elements of the others.                              *)
(*                                                                         *)
(* The second part is about families: all lists of a kind at once, and     *)
(* what taking, putting, joining and renaming do to the family.            *)
(***************************************************************************)
EXTENDS Integers, FiniteSets, FiniteSetTheorems, WellFoundedInduction, TLAPS

(* Induction over the natural numbers, for a set of them. *)
LEMMA NatSet ==
  ASSUME NEW S \in SUBSET Nat, 0 \in S, \A n \in S : n + 1 \in S
  PROVE  \A n \in Nat : n \in S
<1> DEFINE R == {ss \in Nat \X Nat : ss[1] < ss[2]}
<1>1. IsWellFoundedOn(R, Nat)
  BY NatLessThanWellFounded, Zenon DEF OpToRel
<1>2. SUFFICES ASSUME Nat \ S # {} PROVE FALSE
  OBVIOUS
<1>3. PICK x \in Nat \ S : \A y \in Nat \ S : ~(<<y, x>> \in R)
  <2>1. Nat \ S \in SUBSET Nat
    OBVIOUS
  <2> HIDE DEF R
  <2> QED BY <1>1, <1>2, <2>1, WFMin, Zenon
<1>4. x # 0 /\ x - 1 \in Nat /\ <<x - 1, x>> \in R
  BY <1>3
<1>5. x - 1 \in S
  <2> HIDE DEF R
  <2> QED BY <1>3, <1>4, Zenon
<1>6. (x - 1) + 1 = x
  BY <1>3
<1> QED
  BY <1>3, <1>5, <1>6

(* x is the list of the n elements from first on, linked by f.             *)
IsList(E, f, in, at, x, first, n) ==
  /\ n \in Nat
  /\ n > 0 => first \in E /\ in[first] = x /\ at[first] = n
  /\ \A e \in E : in[e] = x =>
       /\ at[e] \in 1 .. n
       /\ at[e] > 1 => f[e] \in E /\ in[f[e]] = x /\ at[f[e]] = at[e] - 1
  /\ \A e, g \in E : in[e] = x /\ in[g] = x /\ at[e] = at[g] => e = g

LEMMA EmptyList ==
  ASSUME NEW E, NEW f, NEW in, NEW at, NEW x, NEW first
  PROVE  IsList(E, f, in, at, x, first, 0) <=> \A e \in E : in[e] # x
BY DEF IsList

(* A list whose elements keep their place and their links, and which may   *)
(* get another name.                                                       *)
LEMMA SameList ==
  ASSUME NEW E, NEW f, NEW in, NEW at, NEW x, NEW first, NEW n,
         IsList(E, f, in, at, x, first, n),
         NEW f2, NEW in2, NEW at2, NEW y,
         \A e \in E : in2[e] = y <=> in[e] = x,
         \A e \in E : in[e] = x => at2[e] = at[e] /\ (at[e] > 1 => f2[e] = f[e])
  PROVE  IsList(E, f2, in2, at2, y, first, n)
<1>1. n > 0 => first \in E /\ in2[first] = y /\ at2[first] = n
  BY DEF IsList
<1>2. ASSUME NEW e \in E, in2[e] = y
      PROVE  /\ at2[e] \in 1 .. n
             /\ at2[e] > 1 => f2[e] \in E /\ in2[f2[e]] = y /\ at2[f2[e]] = at2[e] - 1
  <2>1. in[e] = x /\ at2[e] = at[e]
    BY <1>2
  <2>2. ASSUME at[e] > 1
        PROVE  f2[e] \in E /\ in2[f2[e]] = y /\ at2[f2[e]] = at2[e] - 1
    <3>1. f2[e] = f[e] /\ f[e] \in E /\ in[f[e]] = x /\ at[f[e]] = at[e] - 1
      BY <2>1, <2>2 DEF IsList
    <3> QED BY <2>1, <3>1
  <2> QED BY <2>1, <2>2 DEF IsList
<1>3. ASSUME NEW e \in E, NEW g \in E, in2[e] = y, in2[g] = y, at2[e] = at2[g]
      PROVE  e = g
  BY <1>3 DEF IsList
<1>4. n \in Nat
  BY DEF IsList
<1> QED
  BY <1>1, <1>2, <1>3, <1>4 DEF IsList

(* An element e that is not in the list becomes its first.                 *)
LEMMA PutFirst ==
  ASSUME NEW E, NEW f, NEW in, NEW at, NEW x, NEW first, NEW n,
         IsList(E, f, in, at, x, first, n),
         NEW e \in E, in[e] # x,
         NEW f2, NEW in2, NEW at2,
         \A g \in E : in2[g] = x <=> in[g] = x \/ g = e,
         \A g \in E : in[g] = x => at2[g] = at[g] /\ (at[g] > 1 => f2[g] = f[g]),
         at2[e] = n + 1,
         n > 0 => f2[e] = first
  PROVE  IsList(E, f2, in2, at2, x, e, n + 1)
<1>1. n \in Nat
  BY DEF IsList
<1>2. ASSUME NEW g \in E, in2[g] = x
      PROVE  /\ at2[g] \in 1 .. n + 1
             /\ at2[g] > 1 => f2[g] \in E /\ in2[f2[g]] = x /\ at2[f2[g]] = at2[g] - 1
  <2>1. CASE g = e
    <3>1. n > 0 => first \in E /\ in[first] = x /\ at[first] = n
      BY DEF IsList
    <3> QED BY <1>1, <2>1, <3>1
  <2>2. CASE in[g] = x
    <3>1. at2[g] = at[g] /\ at[g] \in 1 .. n
      BY <2>2 DEF IsList
    <3>2. at[g] > 1 => f2[g] = f[g] /\ f[g] \in E /\ in[f[g]] = x /\ at[f[g]] = at[g] - 1
      BY <2>2 DEF IsList
    <3> QED BY <1>1, <3>1, <3>2
  <2> QED BY <1>2, <2>1, <2>2
<1>3. ASSUME NEW g \in E, NEW h \in E, in2[g] = x, in2[h] = x, at2[g] = at2[h]
      PROVE  g = h
  <2>1. \A k \in E : in[k] = x => at[k] \in 1 .. n
    BY DEF IsList
  <2>2. in[g] = x /\ in[h] = x => g = h
    BY <1>3 DEF IsList
  <2> QED BY <1>1, <1>3, <2>1, <2>2
<1> QED
  BY <1>1, <1>2, <1>3 DEF IsList

(* The first element leaves the list. *)
LEMMA TakeFirst ==
  ASSUME NEW E, NEW f, NEW in, NEW at, NEW x, NEW first, NEW n,
         IsList(E, f, in, at, x, first, n), n > 0,
         NEW f2, NEW in2, NEW at2,
         \A g \in E : in2[g] = x <=> in[g] = x /\ g # first,
         \A g \in E : in[g] = x /\ g # first => at2[g] = at[g] /\ (at[g] > 1 => f2[g] = f[g])
  PROVE  IsList(E, f2, in2, at2, x, f[first], n - 1)
<1>1. n \in Nat /\ first \in E /\ in[first] = x /\ at[first] = n
  BY DEF IsList
<1>2. ASSUME NEW g \in E, in[g] = x, g # first
      PROVE  at[g] \in 1 .. n - 1
  BY <1>1, <1>2 DEF IsList
<1>3. ASSUME NEW g \in E, in[g] = x, at[g] > 1
      PROVE  f[g] \in E /\ in[f[g]] = x /\ at[f[g]] = at[g] - 1 /\ f[g] # first
  <2>1. at[g] \in 1 .. n /\ f[g] \in E /\ in[f[g]] = x /\ at[f[g]] = at[g] - 1
    BY <1>3 DEF IsList
  <2> QED BY <1>1, <2>1
<1>4. n - 1 > 0 => f[first] \in E /\ in2[f[first]] = x /\ at2[f[first]] = n - 1
  BY <1>1, <1>3
<1>5. ASSUME NEW g \in E, in2[g] = x
      PROVE  /\ at2[g] \in 1 .. n - 1
             /\ at2[g] > 1 => f2[g] \in E /\ in2[f2[g]] = x /\ at2[f2[g]] = at2[g] - 1
  <2>1. in[g] = x /\ g # first /\ at2[g] = at[g]
    BY <1>5
  <2>2. at[g] > 1 => f2[g] = f[g] /\ f[g] \in E /\ in2[f[g]] = x /\ at2[f[g]] = at[g] - 1
    BY <1>3, <2>1
  <2> QED BY <1>2, <2>1, <2>2
<1>6. ASSUME NEW g \in E, NEW h \in E, in2[g] = x, in2[h] = x, at2[g] = at2[h]
      PROVE  g = h
  <2>1. in[g] = x /\ in[h] = x /\ at[g] = at[h]
    BY <1>6
  <2> QED BY <2>1 DEF IsList
<1> QED
  BY <1>1, <1>4, <1>5, <1>6 DEF IsList

(* The list x goes before the list y: its last element gets the link.      *)
LEMMA JoinLists ==
  ASSUME NEW E, NEW f, NEW in, NEW at, NEW x, NEW first, NEW n, NEW y, NEW top, NEW m,
         IsList(E, f, in, at, x, first, n), n > 0,
         IsList(E, f, in, at, y, top, m), x # y,
         NEW last \in E, in[last] = x, at[last] = 1,
         NEW f2, NEW in2, NEW at2,
         \A g \in E : in2[g] = y <=> in[g] = x \/ in[g] = y,
         \A g \in E : in[g] = x => at2[g] = at[g] + m /\ (g # last => f2[g] = f[g]),
         \A g \in E : in[g] = y => at2[g] = at[g] /\ f2[g] = f[g],
         f2[last] = top
  PROVE  IsList(E, f2, in2, at2, y, first, n + m)
<1>1. /\ n \in Nat /\ m \in Nat
      /\ first \in E /\ in[first] = x /\ at[first] = n
      /\ m > 0 => top \in E /\ in[top] = y /\ at[top] = m
  BY DEF IsList
<1>2. ASSUME NEW g \in E, in[g] = x
      PROVE  /\ at2[g] \in m + 1 .. n + m
             /\ at2[g] > 1 => f2[g] \in E /\ in2[f2[g]] = y /\ at2[f2[g]] = at2[g] - 1
  <2>1. at[g] \in 1 .. n /\ at2[g] = at[g] + m
    BY <1>2 DEF IsList
  <2>2. CASE g = last
    BY <1>1, <2>1, <2>2
  <2>3. CASE g # last
    <3>1. at[g] # 1
      BY <1>2, <2>3 DEF IsList
    <3>2. f2[g] = f[g] /\ f[g] \in E /\ in[f[g]] = x /\ at[f[g]] = at[g] - 1
      BY <1>2, <2>1, <2>3, <3>1 DEF IsList
    <3> QED BY <1>1, <2>1, <3>2
  <2> QED BY <2>2, <2>3
<1>3. ASSUME NEW g \in E, in[g] = y
      PROVE  /\ at2[g] \in 1 .. m
             /\ at2[g] > 1 => f2[g] \in E /\ in2[f2[g]] = y /\ at2[f2[g]] = at2[g] - 1
  <2>1. at[g] \in 1 .. m /\ at2[g] = at[g] /\ f2[g] = f[g]
    BY <1>3 DEF IsList
  <2>2. at[g] > 1 => f[g] \in E /\ in[f[g]] = y /\ at[f[g]] = at[g] - 1
    BY <1>3 DEF IsList
  <2> QED BY <2>1, <2>2
<1>4. ASSUME NEW g \in E, in2[g] = y
      PROVE  /\ at2[g] \in 1 .. n + m
             /\ at2[g] > 1 => f2[g] \in E /\ in2[f2[g]] = y /\ at2[f2[g]] = at2[g] - 1
  BY <1>1, <1>2, <1>3, <1>4
<1>5. ASSUME NEW g \in E, NEW h \in E, in2[g] = y, in2[h] = y, at2[g] = at2[h]
      PROVE  g = h
  <2>1. CASE in[g] = x /\ in[h] = x
    <3>1. at[g] \in 1 .. n /\ at[h] \in 1 .. n /\ at2[g] = at[g] + m /\ at2[h] = at[h] + m
      BY <2>1 DEF IsList
    <3>2. at[g] \in Int /\ at[h] \in Int /\ m \in Int
      BY <1>1, <3>1
    <3>3. at[g] + m = at[h] + m
      BY <1>5, <3>1, Zenon
    <3>4. at[g] = at[h]
      BY ONLY <3>2, <3>3
    <3> QED BY <2>1, <3>4 DEF IsList
  <2>2. CASE in[g] = y /\ in[h] = y
    BY <1>5, <2>2 DEF IsList
  <2>3. CASE in[g] = x /\ in[h] = y
    BY <1>1, <1>2, <1>3, <1>5, <2>3
  <2>4. CASE in[g] = y /\ in[h] = x
    BY <1>1, <1>2, <1>3, <1>5, <2>4
  <2> QED BY <1>5, <2>1, <2>2, <2>3, <2>4
<1>6. n + m > 0 => first \in E /\ in2[first] = y /\ at2[first] = n + m
  BY <1>1
<1> QED
  BY <1>1, <1>4, <1>5, <1>6 DEF IsList
-----------------------------------------------------------------------------
(* The first n links from x on, as the recursive functions of the pools    *)
(* follow them: null after an element that is none of E.                   *)
IsWalk(E, f, x, n, null, a) ==
  a = [i \in 0 .. n |-> IF i = 0 THEN x ELSE IF a[i - 1] \in E THEN f[a[i - 1]] ELSE null]

LEMMA WalkExists ==
  ASSUME NEW E, NEW f, NEW x, NEW null, NEW n \in Nat
  PROVE  \E a : IsWalk(E, f, x, n, null, a)
<1> DEFINE W(a, i) == IF i = 0 THEN x ELSE IF a[i - 1] \in E THEN f[a[i - 1]] ELSE null
           S == {m \in Nat : \E a : a = [i \in 0 .. m |-> W(a, i)]}
<1>1. 0 \in S
  <2> DEFINE a == [i \in 0 .. 0 |-> x]
  <2>1. a = [i \in 0 .. 0 |-> W(a, i)]
    OBVIOUS
  <2> HIDE DEF a, W
  <2> QED BY <2>1
<1>2. ASSUME NEW m \in S PROVE m + 1 \in S
  <2>1. PICK a : a = [i \in 0 .. m |-> W(a, i)]
    OBVIOUS
  <2> DEFINE b == [i \in 0 .. m + 1 |-> W(a, i)]
  <2>2. \A i \in 0 .. m : b[i] = a[i]
    <3> HIDE DEF W
    <3> QED BY <2>1
  <2>3. \A i \in 0 .. m + 1 : W(b, i) = W(a, i)
    <3> TAKE i \in 0 .. m + 1
    <3>1. i # 0 => b[i - 1] = a[i - 1]
      <4> HIDE DEF b
      <4> QED BY <2>2
    <3> HIDE DEF b
    <3> QED BY <3>1, Zenon
  <2>4. b = [i \in 0 .. m + 1 |-> W(b, i)]
    <3> HIDE DEF W
    <3> QED BY <2>3
  <2> HIDE DEF b, W
  <2> QED BY <2>4
<1>3. n \in S
  <2> HIDE DEF S
  <2>1. S \in SUBSET Nat
    BY DEF S
  <2> QED BY <1>1, <1>2, <2>1, NatSet
<1> QED
  BY <1>3 DEF IsWalk

(* A walk from the first of a list comes to its elements, one by one.      *)
LEMMA WalkList ==
  ASSUME NEW E, NEW f, NEW in, NEW at, NEW x, NEW first, NEW n,
         IsList(E, f, in, at, x, first, n),
         NEW k \in Nat, NEW null, NEW a, IsWalk(E, f, first, k, null, a)
  PROVE  \A i \in 1 .. k : i <= n => a[i - 1] \in E /\ in[a[i - 1]] = x /\ at[a[i - 1]] = n + 1 - i
<1> DEFINE S == {j \in Nat : j + 1 <= k /\ j + 1 <= n =>
                   a[j] \in E /\ in[a[j]] = x /\ at[a[j]] = n - j}
<1>1. n \in Nat
  BY DEF IsList
<1>2. \A i \in 0 .. k : a[i] = IF i = 0 THEN first ELSE IF a[i - 1] \in E THEN f[a[i - 1]] ELSE null
  BY DEF IsWalk
<1>3. 0 \in S
  <2>1. n > 0 => first \in E /\ in[first] = x /\ at[first] = n
    BY DEF IsList
  <2>2. a[0] = first
    BY <1>2
  <2> QED BY <1>1, <2>1, <2>2
<1>4. ASSUME NEW j \in S PROVE j + 1 \in S
  <2>1. SUFFICES ASSUME j + 2 <= k, j + 2 <= n
                 PROVE  a[j + 1] \in E /\ in[a[j + 1]] = x /\ at[a[j + 1]] = n - (j + 1)
    BY <1>1
  <2>2. a[j] \in E /\ in[a[j]] = x /\ at[a[j]] = n - j
    BY <1>1, <2>1
  <2>3. at[a[j]] > 1
    BY <1>1, <2>1, <2>2
  <2>4. f[a[j]] \in E /\ in[f[a[j]]] = x /\ at[f[a[j]]] = at[a[j]] - 1
    BY <2>2, <2>3 DEF IsList
  <2>5. a[j + 1] = f[a[j]]
    <3>1. j + 1 \in 0 .. k /\ j + 1 # 0 /\ (j + 1) - 1 = j
      BY <2>1
    <3> HIDE DEF S
    <3> QED BY <1>2, <2>2, <3>1
  <2> QED BY <1>1, <2>2, <2>4, <2>5
<1>5. \A j \in Nat : j \in S
  <2> HIDE DEF S
  <2>1. S \in SUBSET Nat
    BY DEF S
  <2> QED BY <1>3, <1>4, <2>1, NatSet
<1>6. ASSUME NEW i \in 1 .. k, i <= n
      PROVE  a[i - 1] \in E /\ in[a[i - 1]] = x /\ at[a[i - 1]] = n + 1 - i
  <2>1. i - 1 \in S /\ (i - 1) + 1 = i
    BY <1>5
  <2>2. a[i - 1] \in E /\ in[a[i - 1]] = x /\ at[a[i - 1]] = n - (i - 1)
    BY <1>6, <2>1
  <2> QED BY <1>1, <2>2
<1> QED
  BY <1>6

(* Every element of the list is come to. *)
LEMMA WalkReaches ==
  ASSUME NEW E, NEW f, NEW in, NEW at, NEW x, NEW first, NEW n,
         IsList(E, f, in, at, x, first, n),
         NEW k \in Nat, n <= k, NEW null, NEW a, IsWalk(E, f, first, k, null, a),
         NEW e \in E, in[e] = x
  PROVE  /\ at[e] \in 1 .. n
         /\ a[(n + 1 - at[e]) - 1] = e
<1>1. n \in Nat /\ at[e] \in 1 .. n
  BY DEF IsList
<1> DEFINE i == n + 1 - at[e]
<1>2. i \in 1 .. k /\ i <= n /\ n + 1 - i = at[e]
  BY <1>1
<1> HIDE DEF i
<1>3. a[i - 1] \in E /\ in[a[i - 1]] = x /\ at[a[i - 1]] = n + 1 - i
  BY <1>2, WalkList
<1>4. a[i - 1] = e
  BY <1>2, <1>3 DEF IsList
<1> QED
  BY <1>1, <1>4 DEF i

(* A list whose last element has no next ends there, and a walk with it.   *)
LEMMA WalkEnds ==
  ASSUME NEW E, NEW f, NEW in, NEW at, NEW x, NEW first, NEW n,
         IsList(E, f, in, at, x, first, n),
         NEW k \in Nat, NEW null, null \notin E, NEW a, IsWalk(E, f, first, k, null, a),
         n = 0 => first = null,
         \A e \in E : in[e] = x /\ at[e] = 1 => f[e] = null
  PROVE  \A i \in 1 .. k : i > n => a[i - 1] = null
<1> DEFINE S == {j \in Nat : j + 1 <= k /\ j >= n => a[j] = null}
<1>1. n \in Nat
  BY DEF IsList
<1>2. \A i \in 0 .. k : a[i] = IF i = 0 THEN first ELSE IF a[i - 1] \in E THEN f[a[i - 1]] ELSE null
  BY DEF IsWalk
<1>3. 0 \in S
  BY <1>1, <1>2
<1>4. ASSUME NEW j \in S PROVE j + 1 \in S
  <2>1. SUFFICES ASSUME j + 2 <= k, j + 1 >= n PROVE a[j + 1] = null
    BY <1>1
  <2>2. a[j + 1] = IF a[j] \in E THEN f[a[j]] ELSE null
    <3>1. j + 1 \in 0 .. k /\ j + 1 # 0 /\ (j + 1) - 1 = j
      BY <2>1
    <3> HIDE DEF S
    <3> QED BY <1>2, <3>1
  <2>3. CASE j >= n
    BY <1>1, <2>1, <2>2, <2>3
  <2>4. CASE j + 1 = n
    <3>1. j + 1 \in 1 .. k /\ j + 1 <= n /\ (j + 1) - 1 = j /\ n + 1 - (j + 1) = 1
      BY <1>1, <2>1, <2>4
    <3>2. a[(j + 1) - 1] \in E /\ in[a[(j + 1) - 1]] = x /\ at[a[(j + 1) - 1]] = n + 1 - (j + 1)
      <4> HIDE DEF S
      <4> QED BY <3>1, WalkList
    <3>3. a[j] \in E /\ in[a[j]] = x /\ at[a[j]] = 1
      BY <3>1, <3>2
    <3> QED BY <2>2, <3>3
  <2> QED BY <1>1, <2>1, <2>3, <2>4
<1>5. \A j \in Nat : j \in S
  <2> HIDE DEF S
  <2>1. S \in SUBSET Nat
    BY DEF S
  <2> QED BY <1>3, <1>4, <2>1, NatSet
<1>6. ASSUME NEW i \in 1 .. k, i > n PROVE a[i - 1] = null
  <2>1. i - 1 \in S /\ (i - 1) + 1 = i
    BY <1>5
  <2> QED BY <1>1, <1>6, <2>1
<1> QED
  BY <1>6

(* A list is no longer than there are elements. *)
LEMMA ListLength ==
  ASSUME NEW E, IsFiniteSet(E), NEW f, NEW in, NEW at, NEW x, NEW first, NEW n,
         IsList(E, f, in, at, x, first, n)
  PROVE  n <= Cardinality(E)
<1>1. n \in Nat
  BY DEF IsList
<1>2. PICK a : IsWalk(E, f, first, n, 0, a)
  BY <1>1, WalkExists
<1>3. \A i \in 1 .. n : i <= n => a[i - 1] \in E /\ in[a[i - 1]] = x /\ at[a[i - 1]] = n + 1 - i
  BY <1>1, <1>2, WalkList
<1> DEFINE g == [i \in 1 .. n |-> a[i - 1]]
<1>4. g \in [1 .. n -> E]
  BY <1>1, <1>3
<1>5. ASSUME NEW i \in 1 .. n, NEW j \in 1 .. n, g[i] = g[j] PROVE i = j
  <2>1. at[g[i]] = n + 1 - i /\ at[g[j]] = n + 1 - j
    BY <1>1, <1>3
  <2>2. n + 1 - i = n + 1 - j
    <3> HIDE DEF g
    <3> QED BY <1>5, <2>1
  <2> QED BY <1>1, <2>2
<1>6. g \in Injection(1 .. n, E)
  <2> HIDE DEF g
  <2>1. \A i, j \in 1 .. n : g[i] = g[j] => i = j
    BY <1>5
  <2> QED BY <1>4, <2>1 DEF Injection, IsInjective
<1>7. Cardinality(1 .. n) = n
  <2>1. Cardinality(1 .. n) = IF 1 > n THEN 0 ELSE n - 1 + 1
    BY <1>1, FS_Interval
  <2> QED BY <1>1, <2>1
<1> HIDE DEF g
<1>8. Cardinality(1 .. n) <= Cardinality(E)
  BY <1>6, FS_Injection
<1> QED
  BY <1>7, <1>8

-----------------------------------------------------------------------------
(* The arithmetic of pools that are cut into lists of n. *)
LEMMA DivMod ==
  ASSUME NEW n \in Nat \ {0}, NEW a \in Int
  PROVE  /\ a = n * (a \div n) + (a % n)
         /\ a % n \in 0 .. n - 1 /\ a \div n \in Int
<1>1. a = n * (a \div n) + (a % n)
  OBVIOUS
<1>2. a % n \in 0 .. n - 1
  OBVIOUS
<1>3. a \div n \in Int
  OBVIOUS
<1> QED
  BY <1>1, <1>2, <1>3

LEMMA RowColumn ==
  ASSUME NEW n \in Nat \ {0}, NEW k \in Int, NEW j \in Int,
         NEW r \in 0 .. n - 1, NEW s \in 0 .. n - 1, n * k + r = n * j + s
  PROVE  k = j /\ r = s
<1>1. n * (k - j) = s - r
  OBVIOUS
<1>2. k - j >= 1 => n * (k - j) >= n
  OBVIOUS
<1>3. k - j <= -1 => n * (k - j) <= -n
  OBVIOUS
<1>4. k = j
  BY <1>1, <1>2, <1>3
<1> QED
  BY <1>4

LEMMA Division ==
  ASSUME NEW n \in Nat \ {0}, NEW k \in Int, NEW r \in 0 .. n - 1, NEW a, a = n * k + r
  PROVE  a \div n = k /\ a % n = r
<1>1. a \in Int /\ n * k \in Int
  OBVIOUS
<1>2. /\ a = n * (a \div n) + (a % n)
      /\ a % n \in 0 .. n - 1 /\ a \div n \in Int
  BY <1>1, DivMod
<1>3. n * (a \div n) + (a % n) = n * k + r
  BY <1>2
<1> QED
  BY ONLY <1>2, <1>3, RowColumn, n \in Nat \ {0}, k \in Int, r \in 0 .. n - 1

LEMMA NextRow ==
  ASSUME NEW n \in Nat \ {0}, NEW k \in Int, NEW j \in Int, k < j
  PROVE  n * k + n <= n * j
<1>1. j - k - 1 >= 0
  OBVIOUS
<1>2. n * (j - k - 1) >= 0
  BY <1>1
<1> QED
  BY <1>2

-----------------------------------------------------------------------------
(* Several lists of the same elements, one for every name in K: s.first,   *)
(* s.last and s.len say where a list begins and ends and how long it is,   *)
(* s.in and s.at which list an element is in, and where.  An element that  *)
(* is in no list may have any link.                                        *)
NoList == <<"no list">>

Lists(E, f, K, s) ==
  /\ NoList \notin K
  /\ \A x \in K : IsList(E, f, s.in, s.at, x, s.first[x], s.len[x])
  /\ \A x \in K : s.len[x] > 0 => s.last[x] \in E /\ s.in[s.last[x]] = x /\ s.at[s.last[x]] = 1
  /\ \A e \in E : s.in[e] \in K \cup {NoList}

(* f2 has the links of f, but for those of X and of what is in no list.    *)
SameLinks(E, f, f2, s, X) == \A e \in E \ X : s.in[e] # NoList => f2[e] = f[e]

(* s2 has the lists of s whose names are in Y. *)
SameLists(s, s2, Y) ==
  \A y \in Y : s2.first[y] = s.first[y] /\ s2.last[y] = s.last[y] /\ s2.len[y] = s.len[y]

(* What becomes of s when e leaves the list x or comes to its front, and   *)
(* when the list x goes before the list y.                                 *)
ListPopped(E, K, f, s, s2, x, e) ==
  /\ s2.in[e] = NoList /\ \A g \in E \ {e} : s2.in[g] = s.in[g]
  /\ s2.len[x] = s.len[x] - 1 /\ s2.first[x] = f[e] /\ s2.last[x] = s.last[x]
  /\ SameLists(s, s2, K \ {x})

ListPushed(E, K, s, s2, x, e) ==
  /\ s2.in[e] = x /\ \A g \in E \ {e} : s2.in[g] = s.in[g]
  /\ s2.len[x] = s.len[x] + 1 /\ s2.first[x] = e
  /\ s2.last[x] = IF s.len[x] = 0 THEN e ELSE s.last[x]
  /\ SameLists(s, s2, K \ {x})

ListJoined(E, K, s, s2, x, y) ==
  /\ \A g \in E : s2.in[g] = IF s.in[g] = x THEN y ELSE s.in[g]
  /\ s2.len[x] = 0
  /\ s2.len[y] = s.len[x] + s.len[y] /\ s2.first[y] = s.first[x]
  /\ s2.last[y] = IF s.len[y] = 0 THEN s.last[x] ELSE s.last[y]
  /\ SameLists(s, s2, K \ {x, y})

LEMMA ListsHave ==
  ASSUME NEW E, NEW f, NEW K, NEW s, Lists(E, f, K, s), NEW x \in K
  PROVE  /\ s.len[x] \in Nat /\ x # NoList
         /\ s.len[x] > 0 => /\ s.first[x] \in E /\ s.in[s.first[x]] = x
                            /\ s.last[x] \in E /\ s.in[s.last[x]] = x
         /\ s.len[x] = 0 <=> \A e \in E : s.in[e] # x
         /\ s.len[x] > 1 => s.last[x] # s.first[x]
         /\ \A e \in E : s.in[e] = x => s.at[e] \in 1 .. s.len[x] /\ (f[e] \in E \/ e = s.last[x])
<1>1. /\ IsList(E, f, s.in, s.at, x, s.first[x], s.len[x]) /\ x # NoList
      /\ s.len[x] > 0 => s.last[x] \in E /\ s.in[s.last[x]] = x /\ s.at[s.last[x]] = 1
  BY DEF Lists
<1> QED
  BY ONLY <1>1 DEF IsList

(* What is not in the list x is in the others as it was. *)
LEMMA OtherList ==
  ASSUME NEW E, NEW f, NEW K, NEW s, Lists(E, f, K, s), NEW y \in K,
         NEW f2, NEW in2, NEW at2, NEW first, first = s.first[y], NEW n, n = s.len[y],
         \A g \in E : in2[g] = y <=> s.in[g] = y,
         \A g \in E : s.in[g] = y => at2[g] = s.at[g] /\ f2[g] = f[g]
  PROVE  /\ IsList(E, f2, in2, at2, y, first, n)
         /\ n > 0 => s.last[y] \in E /\ in2[s.last[y]] = y /\ at2[s.last[y]] = 1
<1>1. /\ IsList(E, f, s.in, s.at, y, s.first[y], s.len[y])
      /\ s.len[y] > 0 => s.last[y] \in E /\ s.in[s.last[y]] = y /\ s.at[s.last[y]] = 1
  BY DEF Lists
<1>2. IsList(E, f, s.in, s.at, y, first, n)
  BY <1>1
<1>3. \A g \in E : s.in[g] = y => at2[g] = s.at[g] /\ (s.at[g] > 1 => f2[g] = f[g])
  OBVIOUS
<1>4. IsList(E, f2, in2, at2, y, first, n)
  BY ONLY <1>2, <1>3, \A g \in E : in2[g] = y <=> s.in[g] = y, SameList
<1> QED
  BY <1>1, <1>4

LEMMA RelinkLists ==
  ASSUME NEW E, NEW f, NEW K, NEW s, Lists(E, f, K, s),
         NEW f2, SameLinks(E, f, f2, s, {})
  PROVE  Lists(E, f2, K, s)
<1>1. ASSUME NEW y \in K
      PROVE  IsList(E, f2, s.in, s.at, y, s.first[y], s.len[y])
  <2>1. \A g \in E : s.in[g] = y => s.at[g] = s.at[g] /\ f2[g] = f[g]
    BY DEF SameLinks, Lists
  <2> QED BY ONLY Lists(E, f, K, s), y \in K, <2>1, OtherList
<1> QED
  BY <1>1 DEF Lists

LEMMA PopList ==
  ASSUME NEW E, NEW f, NEW K, NEW s, Lists(E, f, K, s),
         NEW x \in K, s.len[x] > 0, NEW e, e = s.first[x],
         NEW f2, SameLinks(E, f, f2, s, {e})
  PROVE  \E s2 : Lists(E, f2, K, s2) /\ ListPopped(E, K, f, s, s2, x, e)
<1> DEFINE in2 == [g \in E |-> IF g = e THEN NoList ELSE s.in[g]]
           first2 == [y \in K |-> IF y = x THEN f[e] ELSE s.first[y]]
           len2 == [y \in K |-> IF y = x THEN s.len[x] - 1 ELSE s.len[y]]
           s2 == [in |-> in2, at |-> s.at, first |-> first2, last |-> s.last, len |-> len2]
<1>1. /\ IsList(E, f, s.in, s.at, x, e, s.len[x])
      /\ s.last[x] \in E /\ s.in[s.last[x]] = x /\ s.at[s.last[x]] = 1
      /\ x # NoList
  BY DEF Lists
<1>2. e \in E /\ s.in[e] = x /\ s.at[e] = s.len[x] /\ s.len[x] \in Nat
  BY <1>1 DEF IsList
<1>3. s2.in = in2 /\ s2.at = s.at /\ s2.first = first2 /\ s2.last = s.last /\ s2.len = len2
  OBVIOUS
<1>4. /\ in2[e] = NoList /\ \A g \in E \ {e} : in2[g] = s.in[g]
      /\ first2[x] = f[e] /\ len2[x] = s.len[x] - 1
      /\ \A y \in K \ {x} : first2[y] = s.first[y] /\ len2[y] = s.len[y]
  BY <1>2
<1> HIDE DEF in2, first2, len2, s2
<1>5. ASSUME NEW y \in K, y # x
      PROVE  /\ IsList(E, f2, in2, s.at, y, first2[y], len2[y])
             /\ len2[y] > 0 => s.last[y] \in E /\ in2[s.last[y]] = y /\ s.at[s.last[y]] = 1
  <2>1. y # NoList
    BY DEF Lists
  <2>2. first2[y] = s.first[y] /\ len2[y] = s.len[y]
    BY <1>4, <1>5
  <2>3. \A g \in E : in2[g] = y <=> s.in[g] = y
    BY <1>2, <1>4, <1>5, <2>1
  <2>4. \A g \in E : s.in[g] = y => s.at[g] = s.at[g] /\ f2[g] = f[g]
    BY <1>2, <1>5, <2>1 DEF SameLinks
  <2> QED BY ONLY Lists(E, f, K, s), y \in K, <2>2, <2>3, <2>4, OtherList
<1>6. /\ IsList(E, f2, in2, s.at, x, first2[x], len2[x])
      /\ len2[x] > 0 => s.last[x] \in E /\ in2[s.last[x]] = x /\ s.at[s.last[x]] = 1
  <2>1. \A g \in E : in2[g] = x <=> s.in[g] = x /\ g # e
    BY <1>1, <1>2, <1>4
  <2>2. \A g \in E : s.in[g] = x /\ g # e => s.at[g] = s.at[g] /\ (s.at[g] > 1 => f2[g] = f[g])
    BY <1>1 DEF SameLinks
  <2>3. IsList(E, f2, in2, s.at, x, f[e], s.len[x] - 1)
    BY ONLY <1>1, <2>1, <2>2, s.len[x] > 0, TakeFirst
  <2>4. s.len[x] - 1 > 0 => s.last[x] # e
    BY <1>1, <1>2
  <2> QED BY <1>1, <1>4, <2>1, <2>3, <2>4
<1>7. Lists(E, f2, K, s2)
  <2>1. \A g \in E : in2[g] \in K \cup {NoList}
    BY <1>2, <1>4 DEF Lists
  <2>2. NoList \notin K
    BY DEF Lists
  <2>3. ASSUME NEW y \in K
        PROVE  /\ IsList(E, f2, s2.in, s2.at, y, s2.first[y], s2.len[y])
               /\ s2.len[y] > 0 => s2.last[y] \in E /\ s2.in[s2.last[y]] = y /\ s2.at[s2.last[y]] = 1
    <3>1. CASE y = x
      BY ONLY <1>3, <1>6, <3>1
    <3>2. CASE y # x
      BY ONLY <1>3, <1>5, <3>2, y \in K
    <3> QED BY <3>1, <3>2
  <2> QED BY ONLY <1>3, <2>1, <2>2, <2>3 DEF Lists
<1>8. ListPopped(E, K, f, s, s2, x, e)
  BY ONLY <1>3, <1>4 DEF ListPopped, SameLists
<1> QED
  BY ONLY <1>7, <1>8


LEMMA PushList ==
  ASSUME NEW E, NEW f, NEW K, NEW s, Lists(E, f, K, s),
         NEW x \in K, NEW e \in E, s.in[e] = NoList,
         NEW f2, SameLinks(E, f, f2, s, {e}), s.len[x] > 0 => f2[e] = s.first[x]
  PROVE  \E s2 : Lists(E, f2, K, s2) /\ ListPushed(E, K, s, s2, x, e)
<1> DEFINE in2 == [g \in E |-> IF g = e THEN x ELSE s.in[g]]
           at2 == [g \in E |-> IF g = e THEN s.len[x] + 1 ELSE s.at[g]]
           first2 == [y \in K |-> IF y = x THEN e ELSE s.first[y]]
           last2 == [y \in K |-> IF y = x /\ s.len[x] = 0 THEN e ELSE s.last[y]]
           len2 == [y \in K |-> IF y = x THEN s.len[x] + 1 ELSE s.len[y]]
           s2 == [in |-> in2, at |-> at2, first |-> first2, last |-> last2, len |-> len2]
<1>1. /\ IsList(E, f, s.in, s.at, x, s.first[x], s.len[x])
      /\ s.len[x] > 0 => s.last[x] \in E /\ s.in[s.last[x]] = x /\ s.at[s.last[x]] = 1
      /\ x # NoList
  BY DEF Lists
<1>2. s.len[x] \in Nat
  BY <1>1 DEF IsList
<1>3. s2.in = in2 /\ s2.at = at2 /\ s2.first = first2 /\ s2.last = last2 /\ s2.len = len2
  OBVIOUS
<1>4. /\ in2[e] = x /\ at2[e] = s.len[x] + 1
      /\ \A g \in E \ {e} : in2[g] = s.in[g] /\ at2[g] = s.at[g]
      /\ first2[x] = e /\ len2[x] = s.len[x] + 1
      /\ last2[x] = IF s.len[x] = 0 THEN e ELSE s.last[x]
      /\ \A y \in K \ {x} : first2[y] = s.first[y] /\ last2[y] = s.last[y] /\ len2[y] = s.len[y]
  OBVIOUS
<1> HIDE DEF in2, at2, first2, last2, len2, s2
<1>5. ASSUME NEW y \in K, y # x
      PROVE  /\ IsList(E, f2, in2, at2, y, first2[y], len2[y])
             /\ len2[y] > 0 => last2[y] \in E /\ in2[last2[y]] = y /\ at2[last2[y]] = 1
  <2>1. y # NoList
    BY DEF Lists
  <2>2. first2[y] = s.first[y] /\ last2[y] = s.last[y] /\ len2[y] = s.len[y]
    BY <1>4, <1>5
  <2>3. \A g \in E : in2[g] = y <=> s.in[g] = y
    BY <1>4, <1>5, <2>1
  <2>4. \A g \in E : s.in[g] = y => at2[g] = s.at[g] /\ f2[g] = f[g]
    BY <1>4, <1>5, <2>1 DEF SameLinks
  <2>5. /\ IsList(E, f2, in2, at2, y, first2[y], len2[y])
        /\ len2[y] > 0 => s.last[y] \in E /\ in2[s.last[y]] = y /\ at2[s.last[y]] = 1
    BY ONLY Lists(E, f, K, s), y \in K, <2>2, <2>3, <2>4, OtherList
  <2> QED BY ONLY <2>2, <2>5
<1>6. /\ IsList(E, f2, in2, at2, x, first2[x], len2[x])
      /\ len2[x] > 0 => last2[x] \in E /\ in2[last2[x]] = x /\ at2[last2[x]] = 1
  <2>1. \A g \in E : in2[g] = x <=> s.in[g] = x \/ g = e
    BY <1>4
  <2>2. \A g \in E : s.in[g] = x => at2[g] = s.at[g] /\ (s.at[g] > 1 => f2[g] = f[g])
    BY <1>1, <1>4 DEF SameLinks
  <2>3. s.in[e] # x /\ at2[e] = s.len[x] + 1 /\ (s.len[x] > 0 => f2[e] = s.first[x])
    BY <1>1, <1>4
  <2>4. IsList(E, f2, in2, at2, x, e, s.len[x] + 1)
    BY ONLY <1>1, <2>1, <2>2, <2>3, e \in E, PutFirst
  <2>5. CASE s.len[x] = 0
    BY <1>2, <1>4, <2>4, <2>5
  <2>6. CASE s.len[x] > 0
    <3>1. s.last[x] # e /\ last2[x] = s.last[x]
      BY <1>1, <1>4, <2>6
    <3> QED BY <1>1, <1>4, <2>4, <2>6, <3>1
  <2> QED BY <1>2, <2>5, <2>6
<1>7. Lists(E, f2, K, s2)
  <2>1. \A g \in E : in2[g] \in K \cup {NoList}
    BY <1>4 DEF Lists
  <2>2. NoList \notin K
    BY DEF Lists
  <2>3. ASSUME NEW y \in K
        PROVE  /\ IsList(E, f2, s2.in, s2.at, y, s2.first[y], s2.len[y])
               /\ s2.len[y] > 0 => s2.last[y] \in E /\ s2.in[s2.last[y]] = y /\ s2.at[s2.last[y]] = 1
    <3>1. CASE y = x
      BY ONLY <1>3, <1>6, <3>1
    <3>2. CASE y # x
      BY ONLY <1>3, <1>5, <3>2, y \in K
    <3> QED BY <3>1, <3>2
  <2> QED BY ONLY <1>3, <2>1, <2>2, <2>3 DEF Lists
<1>8. ListPushed(E, K, s, s2, x, e)
  BY ONLY <1>3, <1>4 DEF ListPushed, SameLists
<1> QED
  BY ONLY <1>7, <1>8

LEMMA JoinList ==
  ASSUME NEW E, NEW f, NEW K, NEW s, Lists(E, f, K, s),
         NEW x \in K, NEW y \in K, x # y, s.len[x] > 0, NEW last, last = s.last[x],
         NEW f2, SameLinks(E, f, f2, s, {last}), f2[last] = s.first[y]
  PROVE  \E s2 : Lists(E, f2, K, s2) /\ ListJoined(E, K, s, s2, x, y)
<1> DEFINE n == s.len[x]
           m == s.len[y]
           in2 == [g \in E |-> IF s.in[g] = x THEN y ELSE s.in[g]]
           at2 == [g \in E |-> IF s.in[g] = x THEN s.at[g] + m ELSE s.at[g]]
           first2 == [z \in K |-> IF z = y THEN s.first[x] ELSE s.first[z]]
           last2 == [z \in K |-> IF z = y /\ m = 0 THEN last ELSE s.last[z]]
           len2 == [z \in K |-> IF z = x THEN 0 ELSE IF z = y THEN n + m ELSE s.len[z]]
           s2 == [in |-> in2, at |-> at2, first |-> first2, last |-> last2, len |-> len2]
<1>1. /\ IsList(E, f, s.in, s.at, x, s.first[x], n) /\ n > 0
      /\ last \in E /\ s.in[last] = x /\ s.at[last] = 1
      /\ x # NoList /\ y # NoList
  BY DEF Lists
<1>2. /\ IsList(E, f, s.in, s.at, y, s.first[y], m)
      /\ m > 0 => s.last[y] \in E /\ s.in[s.last[y]] = y /\ s.at[s.last[y]] = 1
  BY DEF Lists
<1>3. s2.in = in2 /\ s2.at = at2 /\ s2.first = first2 /\ s2.last = last2 /\ s2.len = len2
  OBVIOUS
<1>4. /\ \A g \in E : s.in[g] = x => in2[g] = y /\ at2[g] = s.at[g] + m
      /\ \A g \in E : s.in[g] # x => in2[g] = s.in[g] /\ at2[g] = s.at[g]
      /\ first2[y] = s.first[x] /\ len2[y] = n + m /\ len2[x] = 0
      /\ last2[y] = IF m = 0 THEN last ELSE s.last[y]
      /\ \A z \in K \ {x, y} : first2[z] = s.first[z] /\ last2[z] = s.last[z] /\ len2[z] = s.len[z]
  OBVIOUS
<1>0. n = s.len[x] /\ m = s.len[y]
  OBVIOUS
<1> HIDE DEF in2, at2, first2, last2, len2, s2, n, m
<1>5. ASSUME NEW z \in K, z # x, z # y
      PROVE  /\ IsList(E, f2, in2, at2, z, first2[z], len2[z])
             /\ len2[z] > 0 => last2[z] \in E /\ in2[last2[z]] = z /\ at2[last2[z]] = 1
  <2>1. z # NoList
    BY DEF Lists
  <2>2. first2[z] = s.first[z] /\ last2[z] = s.last[z] /\ len2[z] = s.len[z]
    BY <1>4, <1>5
  <2>3. \A g \in E : in2[g] = z <=> s.in[g] = z
    BY <1>4, <1>5, <2>1
  <2>4. \A g \in E : s.in[g] = z => at2[g] = s.at[g] /\ f2[g] = f[g]
    BY <1>1, <1>4, <1>5, <2>1 DEF SameLinks
  <2>5. /\ IsList(E, f2, in2, at2, z, first2[z], len2[z])
        /\ len2[z] > 0 => s.last[z] \in E /\ in2[s.last[z]] = z /\ at2[s.last[z]] = 1
    BY ONLY Lists(E, f, K, s), z \in K, <2>2, <2>3, <2>4, OtherList
  <2> QED BY ONLY <2>2, <2>5
<1>6. /\ IsList(E, f2, in2, at2, y, first2[y], len2[y])
      /\ len2[y] > 0 => last2[y] \in E /\ in2[last2[y]] = y /\ at2[last2[y]] = 1
  <2>1. \A g \in E : in2[g] = y <=> s.in[g] = x \/ s.in[g] = y
    BY <1>4
  <2>2. \A g \in E : s.in[g] = x => at2[g] = s.at[g] + m /\ (g # last => f2[g] = f[g])
    BY <1>1, <1>4 DEF SameLinks
  <2>3. \A g \in E : s.in[g] = y => at2[g] = s.at[g] /\ f2[g] = f[g]
    BY <1>1, <1>4 DEF SameLinks
  <2>4. IsList(E, f2, in2, at2, y, s.first[x], n + m)
    BY ONLY <1>1, <1>2, <2>1, <2>2, <2>3, x # y, f2[last] = s.first[y], JoinLists
  <2>5. m \in Nat
    BY <1>2 DEF IsList
  <2>6. CASE m = 0
    BY <1>1, <1>4, <2>4, <2>6
  <2>7. CASE m > 0
    BY <1>2, <1>4, <2>4, <2>7
  <2> QED BY <2>5, <2>6, <2>7
<1>7. /\ IsList(E, f2, in2, at2, x, first2[x], len2[x])
      /\ ~(len2[x] > 0)
  <2>1. \A g \in E : in2[g] # x
    BY <1>4
  <2>2. IsList(E, f2, in2, at2, x, first2[x], 0)
    BY ONLY <2>1, EmptyList
  <2> QED BY ONLY <1>4, <2>2
<1>8. Lists(E, f2, K, s2)
  <2>1. \A g \in E : in2[g] \in K \cup {NoList}
    BY <1>4 DEF Lists
  <2>2. NoList \notin K
    BY DEF Lists
  <2>3. ASSUME NEW z \in K
        PROVE  /\ IsList(E, f2, s2.in, s2.at, z, s2.first[z], s2.len[z])
               /\ s2.len[z] > 0 => s2.last[z] \in E /\ s2.in[s2.last[z]] = z /\ s2.at[s2.last[z]] = 1
    <3>1. CASE z = x
      BY ONLY <1>3, <1>7, <3>1
    <3>2. CASE z = y
      BY ONLY <1>3, <1>6, <3>2
    <3>3. CASE z # x /\ z # y
      BY ONLY <1>3, <1>5, <3>3, z \in K
    <3> QED BY <3>1, <3>2, <3>3
  <2> QED BY ONLY <1>3, <2>1, <2>2, <2>3 DEF Lists
<1>9. ListJoined(E, K, s, s2, x, y)
  <2>1. \A g \in E : in2[g] = IF s.in[g] = x THEN y ELSE s.in[g]
    BY ONLY <1>4
  <2> QED BY ONLY <1>0, <1>3, <1>4, <2>1, last = s.last[x] DEF ListJoined, SameLists
<1> QED
  BY ONLY <1>8, <1>9

(* A list gets another name, that of an empty one. *)
LEMMA RenameList ==
  ASSUME NEW E, NEW f, NEW K, NEW s, Lists(E, f, K, s),
         NEW x \in K, NEW y \in K, x # y, s.len[x] > 0, s.len[y] = 0,
         NEW f2, SameLinks(E, f, f2, s, {})
  PROVE  \E s2 : Lists(E, f2, K, s2) /\ ListJoined(E, K, s, s2, x, y)
<1> DEFINE last == s.last[x]
           first1 == [z \in K |-> IF z = y THEN f[last] ELSE s.first[z]]
           s1 == [in |-> s.in, at |-> s.at, first |-> first1, last |-> s.last, len |-> s.len]
<1>1. s1.in = s.in /\ s1.at = s.at /\ s1.first = first1 /\ s1.last = s.last /\ s1.len = s.len
  OBVIOUS
<1>2. first1[y] = f[last] /\ \A z \in K \ {y} : first1[z] = s.first[z]
  OBVIOUS
<1> HIDE DEF first1, s1
<1>3. ASSUME NEW z \in K
      PROVE  IsList(E, f, s.in, s.at, z, first1[z], s.len[z])
  <2>1. IsList(E, f, s.in, s.at, z, s.first[z], s.len[z])
    BY DEF Lists
  <2>2. CASE z = y
    <3>1. \A g \in E : s.in[g] # z
      <4>1. IsList(E, f, s.in, s.at, z, s.first[z], 0)
        BY <2>1, <2>2
      <4> QED BY ONLY <4>1, EmptyList
    <3>2. IsList(E, f, s.in, s.at, z, first1[z], 0)
      BY ONLY <3>1, EmptyList
    <3> QED BY <2>2, <3>2
  <2>3. CASE z # y
    BY <1>2, <2>1, <2>3
  <2> QED BY <2>2, <2>3
<1>4. /\ \A z \in K : s.len[z] > 0 => s.last[z] \in E /\ s.in[s.last[z]] = z /\ s.at[s.last[z]] = 1
      /\ \A e \in E : s.in[e] \in K \cup {NoList}
      /\ NoList \notin K
  BY DEF Lists
<1>5. Lists(E, f, K, s1)
  BY ONLY <1>1, <1>3, <1>4 DEF Lists
<1>6. last \in E /\ s.in[last] = x /\ x # NoList
  BY <1>4
<1>7. SameLinks(E, f, f2, s1, {last}) /\ f2[last] = s1.first[y]
  BY <1>1, <1>2, <1>6 DEF SameLinks
<1>8. last = s1.last[x] /\ s1.len[x] > 0
  BY <1>1
<1> HIDE DEF last
<1>9. PICK s2 : Lists(E, f2, K, s2) /\ ListJoined(E, K, s1, s2, x, y)
  BY ONLY <1>5, <1>7, <1>8, x \in K, y \in K, x # y, JoinList
<1>10. s1.first[x] = s.first[x] /\ \A z \in K \ {x, y} : s1.first[z] = s.first[z]
  BY ONLY <1>1, <1>2, x \in K, x # y
<1>11. ListJoined(E, K, s, s2, x, y)
  BY ONLY <1>1, <1>9, <1>10 DEF ListJoined, SameLists
<1> QED
  BY ONLY <1>9, <1>11

-----------------------------------------------------------------------------
(* w has the elements of the list x, in its order. *)
Spelled(E, w, in, at, x, n) ==
  /\ n \in Nat /\ DOMAIN w = 1 .. n
  /\ \A i \in 1 .. n : w[i] \in E /\ in[w[i]] = x /\ at[w[i]] = n + 1 - i
  /\ \A e \in E : in[e] = x => \E i \in 1 .. n : w[i] = e

LEMMA SpelledOnce ==
  ASSUME NEW E, NEW w, NEW in, NEW at, NEW x, NEW n, Spelled(E, w, in, at, x, n)
  PROVE  /\ \A i, j \in DOMAIN w : w[i] = w[j] => i = j
         /\ {w[i] : i \in DOMAIN w} = {e \in E : in[e] = x}
<1>1. ASSUME NEW i \in 1 .. n, NEW j \in 1 .. n, w[i] = w[j]
      PROVE  i = j
  <2>1. n + 1 - i = n + 1 - j /\ n \in Nat
    BY <1>1 DEF Spelled
  <2> QED BY <2>1
<1>2. ASSUME NEW e
      PROVE  e \in {w[i] : i \in DOMAIN w} <=> e \in {g \in E : in[g] = x}
  <2>1. e \in {w[i] : i \in DOMAIN w} <=> \E i \in 1 .. n : w[i] = e
    BY DEF Spelled
  <2> QED BY <2>1 DEF Spelled
<1> QED
  BY <1>1, <1>2 DEF Spelled

(* A walk of n links spells a list of n elements. *)
LEMMA WalkSpells ==
  ASSUME NEW E, NEW f, NEW in, NEW at, NEW x, NEW first, NEW n,
         IsList(E, f, in, at, x, first, n),
         NEW null, NEW a, IsWalk(E, f, first, n, null, a),
         NEW w, DOMAIN w = 1 .. n, \A i \in 1 .. n : w[i] = a[i - 1]
  PROVE  Spelled(E, w, in, at, x, n)
<1>1. n \in Nat
  BY DEF IsList
<1>2. \A i \in 1 .. n : i <= n => a[i - 1] \in E /\ in[a[i - 1]] = x /\ at[a[i - 1]] = n + 1 - i
  <2> SUFFICES ASSUME NEW k \in Nat, k = n
               PROVE  \A i \in 1 .. k : i <= n => a[i - 1] \in E /\ in[a[i - 1]] = x /\ at[a[i - 1]] = n + 1 - i
    BY <1>1
  <2>1. IsWalk(E, f, first, k, null, a)
    OBVIOUS
  <2> QED BY ONLY k \in Nat, <2>1, IsList(E, f, in, at, x, first, n), WalkList
<1>3. ASSUME NEW e \in E, in[e] = x
      PROVE  \E i \in 1 .. n : w[i] = e
  <2>1. n <= n
    BY <1>1
  <2>2. at[e] \in 1 .. n /\ a[(n + 1 - at[e]) - 1] = e
    BY ONLY <1>1, <1>3, <2>1, e \in E, IsList(E, f, in, at, x, first, n), IsWalk(E, f, first, n, null, a),
       WalkReaches
  <2>3. n + 1 - at[e] \in 1 .. n
    BY <1>1, <2>2
  <2> QED BY <2>2, <2>3
<1>4. \A i \in 1 .. n : i <= n
  BY <1>1
<1>5. \A i \in 1 .. n : w[i] \in E /\ in[w[i]] = x /\ at[w[i]] = n + 1 - i
  BY <1>2, <1>4
<1> QED
  BY ONLY <1>1, <1>3, <1>5, DOMAIN w = 1 .. n DEF Spelled

(* A walk of k links spells a list that ends there, and then only null.    *)
LEMMA WalkSpellsAll ==
  ASSUME NEW E, NEW f, NEW in, NEW at, NEW x, NEW first, NEW n,
         IsList(E, f, in, at, x, first, n),
         NEW k \in Nat, n <= k, NEW null, null \notin E, NEW a, IsWalk(E, f, first, k, null, a),
         n = 0 => first = null,
         \A e \in E : in[e] = x /\ at[e] = 1 => f[e] = null,
         NEW s, DOMAIN s = 1 .. k, \A i \in 1 .. k : s[i] = a[i - 1]
  PROVE  Spelled(E, [i \in {j \in 1 .. k : s[j] # null} |-> s[i]], in, at, x, n)
<1>1. n \in Nat
  BY DEF IsList
<1>2. \A i \in 1 .. k : i <= n => a[i - 1] \in E /\ in[a[i - 1]] = x /\ at[a[i - 1]] = n + 1 - i
  BY ONLY k \in Nat, IsList(E, f, in, at, x, first, n), IsWalk(E, f, first, k, null, a), WalkList
<1>3. \A i \in 1 .. k : i > n => a[i - 1] = null
  BY ONLY k \in Nat, IsList(E, f, in, at, x, first, n), IsWalk(E, f, first, k, null, a), null \notin E,
     n = 0 => first = null, \A e \in E : in[e] = x /\ at[e] = 1 => f[e] = null, WalkEnds
<1>4. ASSUME NEW e \in E, in[e] = x
      PROVE  \E i \in 1 .. n : a[i - 1] = e
  <2>1. at[e] \in 1 .. n /\ a[(n + 1 - at[e]) - 1] = e
    BY ONLY k \in Nat, n <= k, <1>4, e \in E, IsList(E, f, in, at, x, first, n),
       IsWalk(E, f, first, k, null, a), WalkReaches
  <2>2. n + 1 - at[e] \in 1 .. n
    BY <1>1, <2>1
  <2> QED BY <2>1, <2>2
<1>5. \A i \in 1 .. n : i \in 1 .. k /\ i <= n
  BY <1>1
<1>6. {j \in 1 .. k : s[j] # null} = 1 .. n
  <2>1. ASSUME NEW j
        PROVE  j \in 1 .. k /\ s[j] # null <=> j \in 1 .. n
    <3>1. j \in 1 .. k => j \in 1 .. n \/ j > n
      BY <1>1
    <3>2. j \in 1 .. n => s[j] # null
      BY <1>2, <1>5
    <3>3. j \in 1 .. k /\ s[j] # null => ~(j > n)
      BY <1>3
    <3> QED BY <1>5, <3>1, <3>2, <3>3
  <2> QED BY <2>1
<1> DEFINE w == [i \in {j \in 1 .. k : s[j] # null} |-> s[i]]
<1>7. DOMAIN w = 1 .. n /\ \A i \in 1 .. n : w[i] = a[i - 1]
  <2>1. w = [i \in 1 .. n |-> s[i]]
    BY <1>6
  <2>2. \A i \in 1 .. n : s[i] = a[i - 1]
    BY <1>5
  <2> HIDE DEF w
  <2> QED BY <2>1, <2>2
<1> HIDE DEF w
<1>8. \A i \in 1 .. n : w[i] \in E /\ in[w[i]] = x /\ at[w[i]] = n + 1 - i
  BY ONLY <1>2, <1>5, <1>7
<1>9. \A e \in E : in[e] = x => \E i \in 1 .. n : w[i] = e
  BY ONLY <1>4, <1>7
<1>10. Spelled(E, w, in, at, x, n)
  BY ONLY <1>1, <1>7, <1>8, <1>9 DEF Spelled
<1> QED
  BY ONLY <1>10 DEF w

(* Lists of different names have different elements. *)
AllSpelled(E, lists, in, at, nm, n) ==
  /\ \A x \in DOMAIN lists : Spelled(E, lists[x], in, at, nm[x], n[x])
  /\ \A x, y \in DOMAIN lists : nm[x] = nm[y] => x = y

LEMMA SpelledApart ==
  ASSUME NEW E, NEW lists, NEW in, NEW at, NEW nm, NEW n, AllSpelled(E, lists, in, at, nm, n)
  PROVE  /\ \A x, y \in DOMAIN lists : \A i \in DOMAIN lists[x], j \in DOMAIN lists[y] :
              lists[x][i] = lists[y][j] => x = y /\ i = j
         /\ UNION {{lists[x][i] : i \in DOMAIN lists[x]} : x \in DOMAIN lists}
              = {e \in E : \E x \in DOMAIN lists : in[e] = nm[x]}
<1>1. ASSUME NEW x \in DOMAIN lists, NEW y \in DOMAIN lists,
             NEW i \in DOMAIN lists[x], NEW j \in DOMAIN lists[y], lists[x][i] = lists[y][j]
      PROVE  x = y /\ i = j
  <2>1. /\ DOMAIN lists[x] = 1 .. n[x] /\ DOMAIN lists[y] = 1 .. n[y]
        /\ in[lists[x][i]] = nm[x] /\ in[lists[y][j]] = nm[y]
    BY DEF AllSpelled, Spelled
  <2>2. x = y
    BY <1>1, <2>1 DEF AllSpelled
  <2>3. Spelled(E, lists[x], in, at, nm[x], n[x])
    BY DEF AllSpelled
  <2>4. i \in DOMAIN lists[x] /\ j \in DOMAIN lists[x] /\ lists[x][i] = lists[x][j]
    BY <1>1, <2>1, <2>2
  <2>5. i = j
    BY ONLY <2>3, <2>4, SpelledOnce
  <2> QED BY <2>2, <2>5
<1>2. \A x \in DOMAIN lists : {lists[x][i] : i \in DOMAIN lists[x]} = {e \in E : in[e] = nm[x]}
  BY SpelledOnce DEF AllSpelled
<1>3. UNION {{lists[x][i] : i \in DOMAIN lists[x]} : x \in DOMAIN lists}
        = {e \in E : \E x \in DOMAIN lists : in[e] = nm[x]}
  BY <1>2
<1> QED
  BY <1>1, <1>3

-----------------------------------------------------------------------------
(* Counting: g gives every p of S another of T, or every one of T to some. *)
LEMMA NoMoreThan ==
  ASSUME NEW S, NEW T, IsFiniteSet(T), NEW g,
         \A p \in S : g[p] \in T,
         \A p, q \in S : g[p] = g[q] => p = q
  PROVE  IsFiniteSet(S) /\ Cardinality(S) <= Cardinality(T)
<1> DEFINE f == [p \in S |-> g[p]]
<1>1. f \in [S -> T] /\ DOMAIN f = S /\ \A p \in S : f[p] = g[p]
  OBVIOUS
<1> HIDE DEF f
<1>2. f \in Injection(S, T)
  BY <1>1 DEF Injection, IsInjective
<1> QED
  BY <1>2, FS_Injection

LEMMA NoFewerThan ==
  ASSUME NEW S, NEW T, IsFiniteSet(S), NEW g,
         \A p \in S : g[p] \in T,
         \A c \in T : \E p \in S : g[p] = c
  PROVE  IsFiniteSet(T) /\ Cardinality(T) <= Cardinality(S)
<1> DEFINE f == [p \in S |-> g[p]]
<1>1. f \in [S -> T] /\ \A p \in S : f[p] = g[p]
  OBVIOUS
<1> HIDE DEF f
<1>2. f \in Surjection(S, T)
  BY <1>1 DEF Surjection
<1> QED
  BY <1>2, FS_Surjection

LEMMA NumberUpTo ==
  ASSUME NEW n \in Nat
  PROVE  IsFiniteSet(1 .. n) /\ Cardinality(1 .. n) = n
<1>1. IsFiniteSet(1 .. n) /\ Cardinality(1 .. n) = IF 1 > n THEN 0 ELSE n - 1 + 1
  BY FS_Interval
<1> QED
  BY <1>1

(* No place in a list is empty. *)
LEMMA ListPlaces ==
  ASSUME NEW E, NEW f, NEW in, NEW at, NEW x, NEW first, NEW n,
         IsList(E, f, in, at, x, first, n), NEW i \in 1 .. n
  PROVE  \E e \in E : in[e] = x /\ at[e] = i
<1>1. n \in Nat
  BY DEF IsList
<1>2. PICK a : IsWalk(E, f, first, n, 0, a)
  BY ONLY <1>1, WalkExists
<1>3. \A j \in 1 .. n : j <= n => a[j - 1] \in E /\ in[a[j - 1]] = x /\ at[a[j - 1]] = n + 1 - j
  <2> SUFFICES ASSUME NEW k \in Nat, k = n
               PROVE  \A j \in 1 .. k : j <= n => a[j - 1] \in E /\ in[a[j - 1]] = x /\ at[a[j - 1]] = n + 1 - j
    BY <1>1
  <2>1. IsWalk(E, f, first, k, 0, a)
    BY <1>2
  <2> QED BY ONLY k \in Nat, <2>1, IsList(E, f, in, at, x, first, n), WalkList
<1> DEFINE j == n + 1 - i
<1>4. j \in 1 .. n /\ j <= n /\ n + 1 - j = i
  BY <1>1
<1> HIDE DEF j
<1> QED
  BY <1>3, <1>4

(* The lists of X have n elements each. *)
LEMMA NumberInLists ==
  ASSUME NEW E, NEW f, NEW K, NEW s, Lists(E, f, K, s), IsFiniteSet(E),
         NEW X \in SUBSET K, IsFiniteSet(X), NEW n \in Nat, \A x \in X : s.len[x] = n,
         NEW S, S = {e \in E : s.in[e] \in X}
  PROVE  IsFiniteSet(S) /\ Cardinality(X) * n <= Cardinality(S)
<1> DEFINE T == X \X (1 .. n)
           g == [e \in S |-> <<s.in[e], s.at[e]>>]
<1>1. IsFiniteSet(S)
  <2>1. S \in SUBSET E
    OBVIOUS
  <2> QED BY <2>1, FS_Subset
<1>2. ASSUME NEW e \in S
      PROVE  g[e] \in T
  <2>1. s.in[e] \in X /\ e \in E /\ s.len[s.in[e]] = n
    OBVIOUS
  <2>2. s.at[e] \in 1 .. s.len[s.in[e]]
    BY <2>1 DEF Lists, IsList
  <2> QED BY <2>1, <2>2
<1>3. ASSUME NEW c \in T
      PROVE  \E e \in S : g[e] = c
  <2>1. PICK x \in X, i \in 1 .. n : c = <<x, i>>
    OBVIOUS
  <2>2. IsList(E, f, s.in, s.at, x, s.first[x], s.len[x]) /\ i \in 1 .. s.len[x]
    BY DEF Lists
  <2>3. PICK e \in E : s.in[e] = x /\ s.at[e] = i
    BY ONLY <2>2, ListPlaces
  <2> QED BY <2>1, <2>3
<1>4. IsFiniteSet(1 .. n) /\ Cardinality(1 .. n) = n
  BY NumberUpTo
<1>5. IsFiniteSet(T) /\ Cardinality(T) = Cardinality(X) * n
  BY <1>4, FS_Product
<1> HIDE DEF T, g
<1>6. Cardinality(T) <= Cardinality(S)
  BY ONLY <1>1, <1>2, <1>3, NoFewerThan
<1> QED
  BY <1>1, <1>5, <1>6
==============================================================================
