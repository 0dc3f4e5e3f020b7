--------------------------- MODULE NbStackProofs ---------------------------
(***************************************************************************)
(* Proofs about NbStack, for every set of threads and elements and every   *)
(* number of calls.  The types hold with torn reads too; the rest is about *)
(* the word that is read in one piece (TornReads = FALSE).                 *)
(*                                                                         *)
(* The invariant has a sequence s that the next fields spell from the top: *)
(* its elements and those of the threads are apart (Owners), and every     *)
(* call is as it must be for its compare-and-swap to be harmless (CallInv):*)
(* a word that was read is the stack's or has an older version (Current),  *)
(* so a compare-and-swap that succeeds finds the stack as it was read;     *)
(* the chain of a put belongs to it alone and ends at the top that was     *)
(* read (Putting); the next that a get has read is the one of the top      *)
(* (Getting).  s is the value of the recursive function in contents        *)
(* (LinkedFrom), and changes as the atomic stack does (Becomes).           *)
(***************************************************************************)
EXTENDS NbStack, LinkedLists

(* The elements of s follow each other from e, and the last has no next.   *)
Spells(s, e) ==
  /\ s \in Seq(Elem)
  /\ IsInjective(s)
  /\ e = Append(s, Null)[1]
  /\ \A i \in 1 .. Len(s) : next[s[i]] = Append(s, Null)[i + 1]

LEMMA Short ==
  ASSUME NEW s \in Seq(Elem), IsInjective(s)
  PROVE  Len(s) \in 0 .. Cardinality(Elem) /\ Cardinality(Elem) \in Nat
<1>1. /\ Cardinality(1 .. Len(s)) = Len(s)
      /\ IsFiniteSet(1 .. Len(s))
  <2>1. Len(s) \in Nat /\ Len(s) \in Int /\ 1 \in Int
    OBVIOUS
  <2>2. /\ IsFiniteSet(1 .. Len(s))
        /\ Cardinality(1 .. Len(s)) = IF 1 > Len(s) THEN 0 ELSE Len(s) - 1 + 1
    BY ONLY <2>1, FS_Interval, Zenon
  <2> QED BY <2>1, <2>2
<1>2. s \in Injection(1 .. Len(s), Elem)
  BY DEF Injection, IsInjective
<1>3. Len(s) <= Cardinality(Elem)
  <2>1. IsFiniteSet(Elem)
    BY ElemAssumption
  <2>2. Cardinality(1 .. Len(s)) <= Cardinality(Elem)
    BY ONLY <1>2, <2>1, FS_Injection, Zenon
  <2> QED BY <1>1, <2>2
<1> QED
  BY <1>3, FS_CardinalityType, ElemAssumption

(* The recursive function of linked_from is well defined.                  *)
walk(f) ==
  [n \in 0 .. Cardinality(Elem) |->
     [x \in Link |-> IF n = 0 \/ x = Null THEN <<>> ELSE <<x>> \o f[n - 1][next[x]]]]

LEMMA LinkedFromExists ==
  \E f : f = walk(f)
<1> DEFINE N == Cardinality(Elem)
           W(f, n) == [x \in Link |-> IF n = 0 \/ x = Null THEN <<>> ELSE <<x>> \o f[n - 1][next[x]]]
           S == {m \in Nat : m <= N => \E f : f = [n \in 0 .. m |-> W(f, n)]}
<1>1. N \in Nat
  BY FS_CardinalityType, ElemAssumption
<1>2. 0 \in S
  <2> DEFINE f == [n \in 0 .. 0 |-> [x \in Link |-> <<>>]]
  <2>1. f = [n \in 0 .. 0 |-> W(f, n)]
    OBVIOUS
  <2> HIDE DEF f, W
  <2> QED BY <2>1
<1>3. ASSUME NEW m \in S PROVE m + 1 \in S
  <2>1. SUFFICES ASSUME m + 1 <= N PROVE \E g : g = [n \in 0 .. m + 1 |-> W(g, n)]
    OBVIOUS
  <2>2. PICK f : f = [n \in 0 .. m |-> W(f, n)]
    BY <1>1, <2>1
  <2> DEFINE g == [n \in 0 .. m + 1 |-> W(f, n)]
  <2>3. \A n \in 0 .. m : g[n] = f[n]
    <3> HIDE DEF W
    <3> QED BY <2>2
  <2>4. \A n \in 0 .. m + 1 : W(g, n) = W(f, n)
    <3> TAKE n \in 0 .. m + 1
    <3>1. n # 0 => g[n - 1] = f[n - 1]
      <4> HIDE DEF g
      <4> QED BY <2>3
    <3> HIDE DEF g
    <3> QED BY <3>1, Zenon
  <2>5. g = [n \in 0 .. m + 1 |-> W(g, n)]
    <3> HIDE DEF W
    <3> QED BY <2>4
  <2> HIDE DEF g, W
  <2> QED BY <2>5
<1>4. N \in S
  <2> HIDE DEF S
  <2> S \in SUBSET Nat
    BY DEF S
  <2> QED BY <1>1, <1>2, <1>3, NatSet
<1>5. PICK f : f = [n \in 0 .. N |-> W(f, n)]
  BY <1>1, <1>4
<1>6. walk(f) = [n \in 0 .. N |-> W(f, n)]
  BY DEF walk
<1> HIDE DEF W, N
<1> QED
  BY <1>5, <1>6

LEMMA LinkedFrom ==
  ASSUME NEW s, NEW e, Spells(s, e), next \in [Elem -> Link]
  PROVE  linked_from(e) = s
<1> DEFINE N == Cardinality(Elem)
           L == Len(s)
           from == CHOOSE f : f = walk(f)
           S == {n \in Nat : \A i \in 1 .. L + 1 :
                   n <= N /\ L + 1 - i <= n => from[n][Append(s, Null)[i]] = SubSeq(s, i, L)}
<1>1. linked_from(e) = from[N][e]
  BY DEF linked_from, walk
<1>2. from = walk(from)
  BY LinkedFromExists
<1>3. \A n \in 0 .. N, x \in Link :
         /\ n = 0 \/ x = Null => from[n][x] = <<>>
         /\ n # 0 /\ x # Null => from[n][x] = <<x>> \o from[n - 1][next[x]]
  <2> HIDE DEF from
  <2> TAKE n \in 0 .. N, x \in Link
  <2>1. from[n] = [y \in Link |-> IF n = 0 \/ y = Null THEN <<>> ELSE <<y>> \o from[n - 1][next[y]]]
    <3>1. walk(from)[n] = [y \in Link |-> IF n = 0 \/ y = Null THEN <<>> ELSE <<y>> \o from[n - 1][next[y]]]
      BY Zenon DEF walk
    <3> QED BY <1>2, <3>1, Zenon
  <2>2. from[n][x] = IF n = 0 \/ x = Null THEN <<>> ELSE <<x>> \o from[n - 1][next[x]]
    BY <2>1, Zenon
  <2> QED BY <2>2, Zenon
<1>4. L \in 0 .. N /\ N \in Nat
  BY Short DEF Spells
<1>5. Null \in Link /\ \A x \in Elem : x \in Link /\ x # Null
  BY ElemAssumption DEF Link
<1> HIDE DEF from, N
<1>6. 0 \in S
  <2>1. ASSUME NEW i \in 1 .. L + 1, L + 1 - i <= 0
        PROVE  from[0][Append(s, Null)[i]] = SubSeq(s, i, L)
    <3>1. i = L + 1
      BY <1>4, <2>1
    <3>2. Append(s, Null)[i] = Null /\ SubSeq(s, i, L) = <<>>
      BY <3>1, <1>4 DEF Spells
    <3>3. 0 \in 0 .. N
      BY <1>4
    <3> QED
      BY <1>3, <1>5, <3>2, <3>3, Zenon
  <2> QED BY <2>1
<1>7. ASSUME NEW n \in S PROVE n + 1 \in S
  <2>1. SUFFICES ASSUME NEW i \in 1 .. L + 1, n + 1 <= N, L + 1 - i <= n + 1
                 PROVE  from[n + 1][Append(s, Null)[i]] = SubSeq(s, i, L)
    OBVIOUS
  <2>2. CASE i = L + 1
    <3>1. Append(s, Null)[i] = Null /\ SubSeq(s, i, L) = <<>>
      BY <2>2, <1>4 DEF Spells
    <3>2. n + 1 \in 0 .. N
      BY <1>4, <2>1
    <3> QED
      BY <1>3, <1>5, <3>1, <3>2, Zenon
  <2>3. CASE i # L + 1
    <3>1. i \in 1 .. L /\ i + 1 \in 1 .. L + 1 /\ L + 1 - (i + 1) <= n
      BY <1>4, <2>1, <2>3
    <3>2. /\ s[i] \in Elem /\ s[i] # Null /\ Append(s, Null)[i] = s[i]
          /\ next[s[i]] = Append(s, Null)[i + 1]
      BY <3>1, ElemAssumption DEF Spells
    <3>3. from[n][Append(s, Null)[i + 1]] = SubSeq(s, i + 1, L)
      <4>1. n <= N
        BY <1>4, <2>1
      <4>2. \A j \in 1 .. L + 1 : n <= N /\ L + 1 - j <= n => from[n][Append(s, Null)[j]] = SubSeq(s, j, L)
        OBVIOUS
      <4> QED BY <3>1, <4>1, <4>2, Zenon
    <3>4. from[n + 1][s[i]] = <<s[i]>> \o from[n][next[s[i]]]
      <4>1. n + 1 \in 0 .. N /\ (n + 1) - 1 = n /\ n + 1 # 0
        BY <1>4, <2>1
      <4>2. from[n + 1][s[i]] = <<s[i]>> \o from[(n + 1) - 1][next[s[i]]]
        BY <1>3, <1>5, <3>2, <4>1, Zenon
      <4> QED BY <4>1, <4>2, Zenon
    <3>5. SubSeq(s, i, L) = <<s[i]>> \o SubSeq(s, i + 1, L)
      <4> s \in Seq(Elem)
        BY DEF Spells
      <4> HIDE DEF N
      <4> QED BY <3>1
    <3> QED
      BY <3>2, <3>3, <3>4, <3>5
  <2> QED
    BY <2>2, <2>3
<1>8. N \in S
  <2> S \in SUBSET Nat
    OBVIOUS
  <2> HIDE DEF S
  <2> QED BY <1>4, <1>6, <1>7, NatSet
<1>9. from[N][Append(s, Null)[1]] = SubSeq(s, 1, L)
  BY <1>4, <1>8
<1>10. SubSeq(s, 1, L) = s
  BY DEF Spells
<1> QED
  BY <1>1, <1>9, <1>10 DEF Spells

-----------------------------------------------------------------------------
LEMMA Chained ==
  ASSUME NEW S \in SUBSET Elem, NEW c \in BoundedSeq(S, 2), c # <<>>, IsInjective(c)
  PROVE  /\ c \in Seq(Elem)
         /\ Len(c) = 1 \/ Len(c) = 2
         /\ ToSet(c) = {c[1], c[Len(c)]}
         /\ ToSet(c) \subseteq S
         /\ Len(c) = 2 => c[1] # c[2]
<1>1. PICK n \in 0 .. 2 : c \in [1 .. n -> S]
  BY DEF BoundedSeq, SeqOf
<1>2. c \in Seq(S) /\ Len(c) = n /\ DOMAIN c = 1 .. n
  BY <1>1
<1>3. n # 0
  BY <1>1, <1>2
<1> QED
  BY <1>1, <1>2, <1>3 DEF ToSet, IsInjective

(* nb_stack_get goes on with an element, or not at all. *)
Loaded(k) == k # Null /\ ~is_put(k) /\ k.pc \in {"link", "cas"} => k.old.elem # Null
Typed == TypeOK /\ \A t \in Thread : Loaded(call[t])

LEMMA InitTyped == Init => Typed
<1> SUFFICES ASSUME Init PROVE Typed
  OBVIOUS
<1>1. PICK s \in BoundedSeq(Elem, Cardinality(Elem)) :
        /\ ToSet(s) = Elem /\ IsInjective(s)
        /\ stack = [elem |-> Append(s, Null)[1], version |-> Len(s)]
        /\ next  = [e \in Elem |-> LET i == CHOOSE i \in 1 .. Len(s) : s[i] = e
                                   IN  Append(s, Null)[i + 1]]
        /\ held  = [t \in Thread |-> {}]
        /\ call  = [t \in Thread |-> Null]
  BY Zenon DEF Init
<1>2. s \in Seq(Elem)
  BY <1>1 DEF BoundedSeq, SeqOf
<1>3. \A i \in 1 .. Len(s) + 1 : Append(s, Null)[i] \in Link
  BY <1>2 DEF Link
<1>4. \A e \in Elem : \E i \in 1 .. Len(s) : s[i] = e
  BY <1>1, <1>2 DEF ToSet
<1>5. next \in [Elem -> Link]
  <2> DEFINE index(e) == CHOOSE i \in 1 .. Len(s) : s[i] = e
  <2>1. \A e \in Elem : index(e) \in 1 .. Len(s)
    BY <1>4, Zenon
  <2>2. next = [e \in Elem |-> Append(s, Null)[index(e) + 1]]
    BY <1>1, Zenon
  <2> HIDE DEF index
  <2>3. \A e \in Elem : index(e) + 1 \in 1 .. Len(s) + 1
    BY <1>2, <2>1
  <2> QED BY <1>3, <2>2, <2>3, Zenon
<1>6. stack \in StackWord
  BY <1>1, <1>2, <1>3 DEF StackWord, Link
<1> QED
  BY <1>1, <1>5, <1>6 DEF Typed, TypeOK, Loaded

LEMMA CallType ==
  ASSUME TypeOK, NEW t \in Thread, call[t] # Null
  PROVE  call[t] \in Call
BY DEF TypeOK

(* One call takes a step that leaves it in Call. *)
LEMMA CallStep ==
  ASSUME Typed, NEW t \in Thread, NEW k \in Call \cup {Null}, Loaded(k),
         call' = [call EXCEPT ![t] = k],
         stack' \in StackWord, next' \in [Elem -> Link], held' \in [Thread -> SUBSET Elem]
  PROVE  Typed'
<1>1. call' \in [Thread -> Call \cup {Null}]
  BY DEF Typed, TypeOK
<1>2. \A u \in Thread : call'[u] = IF u = t THEN k ELSE call[u]
  BY DEF Typed, TypeOK
<1>3. \A u \in Thread : Loaded(call'[u])
  BY <1>2, Zenon DEF Typed
<1>4. TypeOK'
  BY <1>1 DEF TypeOK
<1> QED
  BY <1>3, <1>4, Zenon DEF Typed

LEMMA LoadedTyped ==
  ASSUME Typed, NEW t \in Thread, call[t] # Null, NEW old \in StackWord, loaded(t, old)
  PROVE  Typed'
<1> DEFINE k == [call[t] EXCEPT !.old = old, !.pc = "link"]
           n == IF old.elem = Null /\ ~is_put(call[t]) THEN Null ELSE k
<1>1. call[t] \in Call
  BY CallType DEF Typed
<1>2. k \in Call /\ k.old = old /\ k.chain = call[t].chain
  BY <1>1 DEF Call
<1>3. n \in Call \cup {Null} /\ Loaded(n)
  BY <1>2 DEF Loaded, is_put
<1>4. call' = [call EXCEPT ![t] = n]
  BY DEF loaded, Typed, TypeOK
<1>5. UNCHANGED <<stack, next, held>>
  BY DEF loaded
<1>6. stack' \in StackWord /\ next' \in [Elem -> Link] /\ held' \in [Thread -> SUBSET Elem]
  BY <1>5 DEF Typed, TypeOK
<1> HIDE DEF n
<1> QED
  BY <1>3, <1>4, <1>6, CallStep

LEMMA StepTyped ==
  ASSUME Typed, NEW t \in Thread, step(t)
  PROVE  Typed'
<1>1. call[t] # Null /\ call[t] \in Call
  BY CallType DEF step, Typed
<1>2. stack \in StackWord /\ next \in [Elem -> Link] /\ held \in [Thread -> SUBSET Elem]
  BY DEF Typed, TypeOK
<1>3. call[t].old \in StackWord /\ call[t].chain \in Seq(Elem) /\ call[t].link \in Link
  BY <1>1 DEF Call
<1>4. CASE load(t)
  <2>1. CASE TornReads
    <3> DEFINE k == [[call[t] EXCEPT !.old = stack] EXCEPT !.pc = "high"]
    <3>1. k \in Call /\ k.pc = "high"
      BY <1>1, <1>2 DEF Call
    <3>2. call' = [call EXCEPT ![t] = k]
      BY <1>4, <2>1, <1>2 DEF load, Typed, TypeOK
    <3>3. UNCHANGED <<stack, next, held>>
      BY <1>4, <2>1 DEF load
    <3> HIDE DEF k
    <3>4. Loaded(k)
      BY <3>1 DEF Loaded
    <3> QED BY <1>2, <3>1, <3>2, <3>3, <3>4, CallStep
  <2>2. CASE ~TornReads
    BY <1>1, <1>4, <1>2, <2>2, LoadedTyped DEF load
  <2> QED BY <2>1, <2>2
<1>5. CASE load_high(t)
  <2> DEFINE high == (stack.version \div LowVersions) * LowVersions
             low  == call[t].old.version % LowVersions
  <2>1. stack.version \in Nat /\ call[t].old.version \in Nat /\ call[t].old.elem \in Elem \cup {Null}
    BY <1>3, <1>2 DEF StackWord
  <2>2. low \in Nat
    BY <2>1, LowVersionsAssumption
  <2>3. high \in Nat
    <3>1. stack.version \div LowVersions \in Nat
      BY <2>1, LowVersionsAssumption
    <3>2. \A m, n \in Nat : m * n \in Nat
      OBVIOUS
    <3> QED BY <3>1, <3>2, LowVersionsAssumption DEF high
  <2> HIDE DEF high, low
  <2>4. [elem |-> call[t].old.elem, version |-> high + low] \in StackWord
    BY <2>1, <2>2, <2>3 DEF StackWord
  <2>5. loaded(t, [elem |-> call[t].old.elem, version |-> high + low])
    BY <1>5, Zenon DEF load_high, high, low
  <2> QED BY <1>1, <2>4, <2>5, LoadedTyped
<1>6. CASE link(t)
  <2>1. CASE is_put(call[t])
    <3> DEFINE k == [call[t] EXCEPT !.pc = "cas"]
    <3>1. k \in Call /\ k.chain = call[t].chain
      BY <1>1 DEF Call
    <3>2. next' \in [Elem -> Link]
      BY <1>6, <1>3, <1>2, <2>1 DEF link, StackWord, Link
    <3>3. call' = [call EXCEPT ![t] = k] /\ UNCHANGED <<stack, held>>
      BY <1>6, <2>1 DEF link
    <3> HIDE DEF k
    <3>4. Loaded(k)
      BY <2>1, <3>1 DEF Loaded, is_put
    <3> QED BY <1>2, <3>1, <3>2, <3>3, <3>4, CallStep
  <2>2. CASE ~is_put(call[t])
    <3> DEFINE x == next[call[t].old.elem]
               k == [call[t] EXCEPT !.link = x, !.pc = "cas"]
    <3>1. call[t].old.elem \in Elem
      <4>1. call[t].pc = "link" /\ Loaded(call[t])
        BY <1>6 DEF link, Typed
      <4> QED BY <1>1, <1>3, <2>2, <4>1 DEF Loaded, StackWord
    <3>2. x \in Link
      BY <3>1, <1>2
    <3>3. call' = [call EXCEPT ![t] = k] /\ UNCHANGED <<stack, held, next>>
      BY <1>6, <2>2, <1>2 DEF link, Typed, TypeOK
    <3> HIDE DEF x
    <3>4. k \in Call /\ k.old = call[t].old
      BY <1>1, <3>2 DEF Call
    <3> HIDE DEF k
    <3>5. Loaded(k)
      BY <3>1, <3>4, ElemAssumption DEF Loaded
    <3> QED BY <1>2, <3>3, <3>4, <3>5, CallStep
  <2> QED BY <2>1, <2>2
<1>7. CASE cas(t)
  <2> DEFINE top == IF is_put(call[t]) THEN call[t].chain[1] ELSE call[t].link
  <2>1. top \in Elem \cup {Null}
    BY <1>3 DEF is_put, Link
  <2>2. cmpxchg64(call[t].old, pack(top, call[t].old)) /\ next' = next
    BY <1>7, Zenon DEF cas
  <2>3. stack' \in StackWord
    <3> HIDE DEF top
    <3> QED BY <2>1, <2>2, <1>3, <1>2 DEF cmpxchg64, pack, StackWord
  <2>4. held' \in [Thread -> SUBSET Elem]
    <3>1. ~is_put(call[t]) => call[t].old.elem \in Elem
      <4>1. call[t].pc = "cas" /\ Loaded(call[t])
        BY <1>7 DEF cas, Typed
      <4> QED BY <1>1, <1>3, <4>1 DEF Loaded, StackWord
    <3> QED BY <1>7, <1>2, <3>1 DEF cas, returned
  <2>5. CASE stack = call[t].old
    <3>1. call' = [call EXCEPT ![t] = Null]
      BY <1>7, <2>5, Zenon DEF cas
    <3>2. Loaded(Null)
      BY DEF Loaded
    <3> QED BY <1>2, <2>2, <2>3, <2>4, <3>1, <3>2, CallStep
  <2>6. CASE stack # call[t].old
    <3> DEFINE k == retry(call[t])
    <3>1. call' = [call EXCEPT ![t] = k]
      BY <1>7, <2>6, Zenon DEF cas
    <3>2. k \in Call /\ k.pc = "load"
      BY <1>1 DEF retry, Call, nowhere, StackWord, Link
    <3> HIDE DEF k
    <3>3. Loaded(k)
      BY <3>2 DEF Loaded
    <3> QED BY <1>2, <2>2, <2>3, <2>4, <3>1, <3>2, <3>3, CallStep
  <2> QED BY <2>5, <2>6
<1> QED
  BY <1>4, <1>5, <1>6, <1>7 DEF step

(* A call begins with nothing read. *)
LEMMA BeginTyped ==
  ASSUME Typed, NEW t \in Thread, NEW c \in Seq(Elem), begin(t, c),
         next' \in [Elem -> Link], held' \in [Thread -> SUBSET Elem]
  PROVE  Typed'
<1> DEFINE k == [chain |-> c, pc |-> "load", old |-> nowhere, link |-> Null]
<1>1. k \in Call /\ k.pc = "load"
  BY DEF Call, nowhere, StackWord, Link
<1>2. call' = [call EXCEPT ![t] = k] /\ stack' = stack
  BY DEF begin
<1> HIDE DEF k
<1>3. Loaded(k)
  BY <1>1 DEF Loaded
<1>4. stack' \in StackWord
  BY <1>2 DEF Typed, TypeOK
<1> QED
  BY <1>1, <1>2, <1>3, <1>4, CallStep

(* What nb_stack_put takes from its owner. *)
PutOf(t, c) ==
  /\ begin(t, c)
  /\ held' = [held EXCEPT ![t] = @ \ ToSet(c)]
  /\ next' = IF Len(c) = 2 THEN [next EXCEPT ![c[1]] = c[2]] ELSE next

LEMMA PutChain ==
  ASSUME Typed, NEW t \in Thread, nb_stack_put(t)
  PROVE  \E c \in Seq(Elem) :
           /\ PutOf(t, c)
           /\ Len(c) = 1 \/ Len(c) = 2
           /\ ToSet(c) = {c[1], c[Len(c)]}
           /\ ToSet(c) \subseteq held[t]
           /\ Len(c) = 2 => c[1] # c[2]
<1>1. PICK c \in chains(t) : PutOf(t, c)
  BY Zenon DEF nb_stack_put, PutOf
<1>2. held[t] \in SUBSET Elem
  BY DEF Typed, TypeOK
<1>3. c \in BoundedSeq(held[t], 2) /\ c # <<>> /\ IsInjective(c)
  BY DEF chains
<1> QED
  BY <1>1, <1>2, <1>3, Chained

LEMMA NextTyped ==
  ASSUME Typed, [Next]_vars
  PROVE  Typed'
<1>1. stack \in StackWord /\ next \in [Elem -> Link] /\ held \in [Thread -> SUBSET Elem]
  BY DEF Typed, TypeOK
<1>2. ASSUME NEW t \in Thread, nb_stack_put(t) PROVE Typed'
  <2>1. PICK c \in Seq(Elem) : PutOf(t, c) /\ (Len(c) = 1 \/ Len(c) = 2)
    BY <1>2, PutChain
  <2>2. held' \in [Thread -> SUBSET Elem]
    BY <1>1, <2>1 DEF PutOf
  <2>3. next' \in [Elem -> Link]
    BY <1>1, <2>1 DEF PutOf, Link
  <2> QED BY <2>1, <2>2, <2>3, BeginTyped DEF PutOf
<1>3. ASSUME NEW t \in Thread, nb_stack_get(t) PROVE Typed'
  <2>1. <<>> \in Seq(Elem)
    OBVIOUS
  <2>2. begin(t, <<>>) /\ next' = next /\ held' = held
    BY <1>3 DEF nb_stack_get
  <2> QED BY <1>1, <2>1, <2>2, BeginTyped
<1>4. ASSUME NEW t \in Thread, use(t) PROVE Typed'
  <2>1. next' \in [Elem -> Link]
    BY <1>1, <1>4 DEF use
  <2> QED BY <1>4, <2>1 DEF use, Typed, TypeOK
<1>5. ASSUME NEW t \in Thread, hand_over(t) PROVE Typed'
  <2>1. held' \in [Thread -> SUBSET Elem]
    BY <1>1, <1>5 DEF hand_over
  <2> QED BY <1>5, <2>1 DEF hand_over, Typed, TypeOK
<1>6. CASE UNCHANGED vars
  BY <1>6 DEF vars, Typed, TypeOK
<1> QED
  BY <1>2, <1>3, <1>4, <1>5, <1>6, StepTyped DEF Next

(* Every variable has its type in every execution, with torn reads or      *)
(* without.                                                                *)
THEOREM TypeCorrect == Spec => []TypeOK
<1>1. Init => Typed
  BY InitTyped
<1>2. Typed /\ [Next]_vars => Typed'
  BY NextTyped
<1>3. Typed => TypeOK
  BY DEF Typed
<1> QED
  BY <1>1, <1>2, <1>3, PTL DEF Spec
-----------------------------------------------------------------------------
putting(t) == IF call[t] = Null THEN {} ELSE ToSet(call[t].chain)

(* A word that was read is older than the stack's, or is the stack's.      *)
Current(k) ==
  /\ k.old.version <= stack.version
  /\ k.old.version = stack.version => k.old = stack

(* An unfinished nb_stack_put has its chain to itself, linked to the top   *)
(* it has read; an nb_stack_get whose compare-and-swap would succeed knows *)
(* what follows the top.                                                   *)
Putting(t, k) ==
  /\ Len(k.chain) = 1 \/ Len(k.chain) = 2
  /\ ToSet(k.chain) = {k.chain[1], k.chain[Len(k.chain)]}
  /\ Len(k.chain) = 2 => k.chain[1] # k.chain[2] /\ next[k.chain[1]] = k.chain[2]
  /\ ToSet(k.chain) \cap held[t] = {}
  /\ k.pc = "cas" => next[link_end(k.chain)] = k.old.elem

Getting(k) == k.pc = "cas" /\ k.old = stack => k.link = next[k.old.elem]

CallInv(t) ==
  LET k == call[t]
  IN  k # Null =>
        /\ k.pc # "high"
        /\ k.pc \in {"link", "cas"} => Current(k)
        /\ is_put(k) => Putting(t, k)
        /\ ~is_put(k) => Getting(k)

Owners(s) ==
  /\ \A t \in Thread : belongs(t) \cap ToSet(s) = {}
  /\ \A t, u \in Thread : t # u => belongs(t) \cap belongs(u) = {}
  /\ Elem = ToSet(s) \cup UNION {belongs(t) : t \in Thread}

Shape(s) ==
  /\ Spells(s, stack.elem)
  /\ Owners(s)
  /\ \A t \in Thread : CallInv(t)

Inv == Typed /\ \E s \in Seq(Elem) : Shape(s)

LEMMA InitInv == Init => Inv
<1> SUFFICES ASSUME Init PROVE \E s \in Seq(Elem) : Shape(s)
  BY InitTyped DEF Inv
<1>1. PICK s \in BoundedSeq(Elem, Cardinality(Elem)) :
        /\ ToSet(s) = Elem /\ IsInjective(s)
        /\ stack = [elem |-> Append(s, Null)[1], version |-> Len(s)]
        /\ next  = [e \in Elem |-> LET i == CHOOSE i \in 1 .. Len(s) : s[i] = e
                                   IN  Append(s, Null)[i + 1]]
        /\ held  = [t \in Thread |-> {}]
        /\ call  = [t \in Thread |-> Null]
  BY Zenon DEF Init
<1>2. s \in Seq(Elem)
  BY <1>1 DEF BoundedSeq, SeqOf
<1>3. ASSUME NEW j \in 1 .. Len(s) PROVE next[s[j]] = Append(s, Null)[j + 1]
  <2> DEFINE index(e) == CHOOSE i \in 1 .. Len(s) : s[i] = e
  <2>1. index(s[j]) \in 1 .. Len(s) /\ s[index(s[j])] = s[j]
    BY Zenon
  <2>2. next = [e \in Elem |-> Append(s, Null)[index(e) + 1]]
    BY <1>1, Zenon
  <2> HIDE DEF index
  <2>3. index(s[j]) = j
    BY <1>1, <1>2, <2>1 DEF IsInjective
  <2>4. s[j] \in Elem
    BY <1>2
  <2> QED BY <2>2, <2>3, <2>4, Zenon
<1>4. Spells(s, stack.elem)
  BY <1>1, <1>2, <1>3 DEF Spells
<1>5. \A t \in Thread : belongs(t) = {}
  BY <1>1 DEF belongs
<1>6. Owners(s)
  <2>1. UNION {belongs(t) : t \in Thread} = {}
    BY <1>5
  <2> QED BY <1>1, <1>5, <2>1 DEF Owners
<1>7. \A t \in Thread : CallInv(t)
  BY <1>1 DEF CallInv
<1> QED
  BY <1>2, <1>4, <1>6, <1>7 DEF Shape

-----------------------------------------------------------------------------
LEMMA Top ==
  ASSUME NEW s, NEW e, Spells(s, e)
  PROVE  /\ s \in Seq(Elem)
         /\ s = <<>> <=> e = Null
         /\ e # Null => s # <<>> /\ e = s[1] /\ e \in ToSet(s)
         /\ \A x \in ToSet(s) : x \in Elem /\ \E i \in 1 .. Len(s) : x = s[i]
         /\ \A i \in 1 .. Len(s) : s[i] \in ToSet(s)
<1>1. s \in Seq(Elem) /\ DOMAIN s = 1 .. Len(s) /\ Len(s) \in Nat
  BY DEF Spells
<1>2. s = <<>> => e = Null
  BY DEF Spells
<1>3. s # <<>> => Len(s) >= 1 /\ e = s[1] /\ s[1] \in Elem
  BY DEF Spells
<1>4. \A i \in 1 .. Len(s) : s[i] \in ToSet(s) /\ s[i] \in Elem
  BY <1>1 DEF ToSet
<1>5. \A x \in ToSet(s) : \E i \in 1 .. Len(s) : x = s[i]
  BY <1>1 DEF ToSet
<1> QED
  BY <1>1, <1>2, <1>3, <1>4, <1>5, ElemAssumption

LEMMA SameSpelling ==
  ASSUME NEW s, Spells(s, stack.elem), stack'.elem = stack.elem,
         \A x \in ToSet(s) : next'[x] = next[x]
  PROVE  Spells(s, stack.elem)'
<1>1. \A i \in 1 .. Len(s) : next'[s[i]] = next[s[i]]
  BY Top
<1> QED
  BY <1>1 DEF Spells

LEMMA SameOwners ==
  ASSUME NEW s, Owners(s), \A u \in Thread : belongs(u)' = belongs(u)
  PROVE  Owners(s)'
BY Zenon DEF Owners

(* What a thread has is neither in the stack nor in a chain. *)
LEMMA HeldApart ==
  ASSUME NEW s, Shape(s), NEW t \in Thread, NEW e \in held[t]
  PROVE  e \notin ToSet(s) /\ \A u \in Thread : e \notin putting(u)
<1>1. e \in belongs(t)
  BY DEF belongs
<1>2. e \notin ToSet(s)
  BY <1>1 DEF Shape, Owners
<1>3. ASSUME NEW u \in Thread, u # t PROVE e \notin putting(u)
  <2>1. belongs(t) \cap belongs(u) = {}
    BY <1>3 DEF Shape, Owners
  <2>2. putting(u) \subseteq belongs(u)
    BY DEF belongs, putting
  <2> QED BY <1>1, <2>1, <2>2
<1>4. e \notin putting(t)
  <2>1. CASE call[t] = Null
    BY <2>1 DEF putting
  <2>2. CASE call[t] # Null /\ is_put(call[t])
    BY <2>2 DEF putting, Shape, CallInv, Putting
  <2>3. CASE call[t] # Null /\ ~is_put(call[t])
    BY <2>3 DEF putting, is_put, ToSet
  <2> QED BY <2>1, <2>2, <2>3
<1> QED
  BY <1>2, <1>3, <1>4

LEMMA Others ==
  ASSUME Typed, NEW s, Shape(s), NEW u \in Thread, call'[u] = call[u],
         stack' = stack \/ stack'.version = stack.version + 1,
         \A x \in ToSet(s) \cup putting(u) : next'[x] = next[x],
         putting(u) \cap held'[u] = {}
  PROVE  CallInv(u)'
<1> DEFINE k == call[u]
<1>1. SUFFICES ASSUME k # Null PROVE CallInv(u)'
  BY DEF CallInv
<1>2. /\ k.pc # "high"
      /\ k.pc \in {"link", "cas"} => Current(k)
      /\ is_put(k) => Putting(u, k)
      /\ ~is_put(k) => Getting(k)
  BY <1>1 DEF Shape, CallInv
<1>3. stack \in StackWord /\ k \in Call /\ k.old \in StackWord /\ Loaded(k)
  BY <1>1 DEF Typed, TypeOK, Call
<1>4. putting(u) = ToSet(k.chain)
  BY <1>1 DEF putting
<1> HIDE DEF k
<1>5. k.pc \in {"link", "cas"} => Current(k)'
  <2> SUFFICES ASSUME k.pc \in {"link", "cas"}
               PROVE  k.old.version <= stack'.version /\ (k.old.version = stack'.version => k.old = stack')
    BY DEF Current, k
  <2> QED BY <1>2, <1>3 DEF Current, StackWord
<1>6. is_put(k) => Putting(u, k)'
  <2> SUFFICES ASSUME is_put(k) PROVE Putting(u, k)'
    OBVIOUS
  <2>1. Putting(u, k)
    BY <1>2
  <2>2. k' = k
    BY DEF k
  <2>3. /\ next'[k.chain[1]] = next[k.chain[1]]
        /\ next'[link_end(k.chain)] = next[link_end(k.chain)]
    BY <1>4, <2>1 DEF Putting, link_end
  <2> QED BY <1>4, <2>1, <2>2, <2>3 DEF Putting
<1>7. ~is_put(k) => Getting(k)'
  <2> SUFFICES ASSUME ~is_put(k), k.pc = "cas", k.old = stack' PROVE k.link = next'[k.old.elem]
    BY DEF Getting, k
  <2>1. stack' = stack
    BY <1>2, <1>3 DEF Current, StackWord
  <2>2. k.old.elem \in ToSet(s)
    <3>1. k.old.elem # Null /\ k.old.elem = stack.elem
      BY <1>1, <1>3, <2>1 DEF Loaded, k
    <3> QED BY <3>1, Top DEF Shape
  <2> QED BY <1>2, <2>1, <2>2 DEF Getting
<1> QED
  BY <1>2, <1>5, <1>6, <1>7 DEF CallInv, k, is_put

(* A step that leaves the stack and the owners as they are. *)
Quiet(s) == Shape(s)' /\ \A u \in Thread : belongs(u)' = belongs(u)

(* A step of t that changes nothing but its own call and chain. *)
LEMMA QuietStep ==
  ASSUME Typed, NEW s, Shape(s), NEW t \in Thread, NEW k,
         call' = [call EXCEPT ![t] = k], stack' = stack,
         \A x \in ToSet(s) : next'[x] = next[x],
         \A u \in Thread \ {t} : held'[u] = held[u] /\ \A x \in putting(u) : next'[x] = next[x],
         belongs(t)' = belongs(t), CallInv(t)'
  PROVE  Quiet(s)
<1>1. \A u \in Thread : call'[u] = IF u = t THEN k ELSE call[u]
  BY DEF Typed, TypeOK
<1>2. Spells(s, stack.elem)'
  BY SameSpelling DEF Shape
<1>3. \A u \in Thread : belongs(u)' = belongs(u)
  BY <1>1 DEF belongs
<1>4. Owners(s)'
  BY <1>3, SameOwners DEF Shape
<1>5. ASSUME NEW u \in Thread, u # t PROVE CallInv(u)'
  <2>1. putting(u) \cap held'[u] = {}
    BY <1>5, HeldApart
  <2>2. call'[u] = call[u]
    BY <1>1, <1>5
  <2>3. \A x \in ToSet(s) \cup putting(u) : next'[x] = next[x]
    BY <1>5
  <2> QED BY <2>1, <2>2, <2>3, Others
<1> QED
  BY <1>2, <1>3, <1>4, <1>5 DEF Shape, Quiet

LEMMA UseShape ==
  ASSUME Typed, NEW s, Shape(s), NEW t \in Thread, use(t)
  PROVE  Quiet(s)
<1>1. PICK e \in held[t], x \in Link : next' = [next EXCEPT ![e] = x]
  BY DEF use
<1>2. UNCHANGED <<stack, held, call>>
  BY DEF use
<1>3. \A y \in Elem : y # e => next'[y] = next[y]
  BY <1>1 DEF Typed, TypeOK
<1>4. \A y \in ToSet(s) : next'[y] = next[y]
  BY <1>3, HeldApart, Top DEF Shape
<1>5. \A u \in Thread : \A y \in putting(u) : next'[y] = next[y]
  <2> TAKE u \in Thread
  <2>1. putting(u) \subseteq Elem
    BY CallType DEF Typed, putting, Call, ToSet
  <2> QED BY <1>3, <2>1, HeldApart
<1>6. \A u \in Thread : CallInv(u)'
  <2> TAKE u \in Thread
  <2>1. putting(u) \cap held'[u] = {}
    BY <1>2, HeldApart
  <2> QED BY <1>2, <1>4, <1>5, <2>1, Others
<1>7. \A u \in Thread : belongs(u)' = belongs(u)
  BY <1>2 DEF belongs
<1>8. Owners(s)'
  BY <1>7, SameOwners DEF Shape
<1>9. Spells(s, stack.elem)'
  BY <1>2, <1>4, SameSpelling DEF Shape
<1> QED
  BY <1>6, <1>7, <1>8, <1>9 DEF Shape, Quiet

LEMMA GetShape ==
  ASSUME Typed, NEW s, Shape(s), NEW t \in Thread, nb_stack_get(t)
  PROVE  Quiet(s)
<1> DEFINE k == [chain |-> <<>>, pc |-> "load", old |-> nowhere, link |-> Null]
<1>1. call[t] = Null /\ call' = [call EXCEPT ![t] = k] /\ UNCHANGED <<stack, next, held>>
  BY DEF nb_stack_get, begin
<1>2. call'[t] = k
  BY <1>1 DEF Typed, TypeOK
<1>3. k # Null
  <2> k \in Call
    BY DEF Call, nowhere, StackWord, Link
  <2> QED BY NoneAssumption
<1>4. belongs(t)' = belongs(t)
  BY <1>1, <1>2, <1>3 DEF belongs, ToSet
<1>5. CallInv(t)'
  BY <1>2 DEF CallInv, is_put, Getting
<1> HIDE DEF k
<1> QED
  BY <1>1, <1>4, <1>5, QuietStep

LEMMA PutShape ==
  ASSUME Typed, NEW s, Shape(s), NEW t \in Thread, nb_stack_put(t)
  PROVE  Quiet(s)
<1>1. PICK c \in Seq(Elem) :
           /\ PutOf(t, c)
           /\ Len(c) = 1 \/ Len(c) = 2
           /\ ToSet(c) = {c[1], c[Len(c)]}
           /\ ToSet(c) \subseteq held[t]
           /\ Len(c) = 2 => c[1] # c[2]
  BY PutChain
<1> DEFINE k == [chain |-> c, pc |-> "load", old |-> nowhere, link |-> Null]
<1>2. call[t] = Null /\ call' = [call EXCEPT ![t] = k] /\ stack' = stack
  BY <1>1 DEF PutOf, begin
<1>3. call'[t] = k
  BY <1>2 DEF Typed, TypeOK
<1>4. k # Null
  <2> k \in Call
    BY DEF Call, nowhere, StackWord, Link
  <2> QED BY NoneAssumption
<1>5. \A u \in Thread : held'[u] = IF u = t THEN held[t] \ ToSet(c) ELSE held[u]
  BY <1>1 DEF PutOf, Typed, TypeOK
<1>6. belongs(t)' = belongs(t)
  BY <1>1, <1>2, <1>3, <1>4, <1>5 DEF belongs
<1>7. /\ \A y \in Elem : y \notin held[t] => next'[y] = next[y]
      /\ Len(c) = 2 => next'[c[1]] = c[2]
  BY <1>1 DEF PutOf, Typed, TypeOK
<1>8. CallInv(t)'
  <2>1. Putting(t, k)'
    BY <1>1, <1>5, <1>7 DEF Putting
  <2> QED BY <1>1, <1>3, <2>1 DEF CallInv, is_put
<1>9. /\ \A x \in ToSet(s) : next'[x] = next[x]
      /\ \A u \in Thread \ {t} : held'[u] = held[u] /\ \A x \in putting(u) : next'[x] = next[x]
  <2>1. \A u \in Thread : putting(u) \subseteq Elem
    BY CallType DEF Typed, putting, Call, ToSet
  <2>2. \A x \in ToSet(s) : x \in Elem /\ x \notin held[t]
    BY HeldApart, Top DEF Shape
  <2>3. \A u \in Thread : \A x \in putting(u) : x \in Elem /\ x \notin held[t]
    BY <2>1, HeldApart
  <2> QED BY <1>5, <1>7, <2>2, <2>3
<1> HIDE DEF k
<1> QED
  BY <1>2, <1>6, <1>8, <1>9, QuietStep

LEMMA LoadShape ==
  ASSUME TornReads = FALSE, Typed, NEW s, Shape(s), NEW t \in Thread, call[t] # Null, load(t)
  PROVE  Quiet(s)
<1> PICK k : k = [call[t] EXCEPT !.old = stack, !.pc = "link"]
  OBVIOUS
<1> PICK n : n = IF stack.elem = Null /\ ~is_put(call[t]) THEN Null ELSE k
  OBVIOUS
<1>1. call[t] \in Call /\ stack \in StackWord
  BY CallType DEF Typed, TypeOK
<1>2. k \in Call /\ k.chain = call[t].chain /\ k.old = stack /\ k.pc = "link"
  BY <1>1 DEF Call
<1>3. call' = [call EXCEPT ![t] = n] /\ UNCHANGED <<stack, next, held>>
  BY DEF load, loaded, Typed, TypeOK
<1>4. k # Null
  BY <1>2, NoneAssumption
<1>5. call'[t] = n
  BY <1>3 DEF Typed, TypeOK
<1>6. belongs(t)' = belongs(t)
  <2>1. ~is_put(call[t]) => ToSet(call[t].chain) = {}
    BY DEF is_put, ToSet
  <2> QED BY <1>2, <1>3, <1>4, <1>5, <2>1 DEF belongs
<1>7. CallInv(t)'
  <2>1. CASE n = Null
    BY <1>5, <2>1 DEF CallInv
  <2>2. CASE n = k
    <3>1. is_put(call[t]) => Putting(t, call[t])
      BY DEF Shape, CallInv
    <3>2. call'[t] = k
      BY <1>5, <2>2
    <3>3. is_put(k) => Putting(t, k)'
      BY <1>2, <1>3, <3>1 DEF Putting, is_put, link_end
    <3>4. Current(k)'
      BY <1>1, <1>2, <1>3 DEF Current, StackWord
    <3> QED BY <1>2, <3>2, <3>3, <3>4 DEF CallInv, Getting
  <2> QED BY <2>1, <2>2
<1> QED
  BY <1>3, <1>6, <1>7, QuietStep

LEMMA LinkShape ==
  ASSUME Typed, NEW s, Shape(s), NEW t \in Thread, call[t] # Null, link(t)
  PROVE  Quiet(s)
<1>1. call[t] \in Call /\ call[t].pc = "link"
  BY CallType DEF Typed, link
<1>2. UNCHANGED <<stack, held>>
  BY DEF link
<1>3. CASE is_put(call[t])
  <2> PICK k : k = [call[t] EXCEPT !.pc = "cas"]
    OBVIOUS
  <2> DEFINE c == k.chain
  <2>1. call' = [call EXCEPT ![t] = k] /\ next' = [next EXCEPT ![link_end(c)] = call[t].old.elem]
    BY <1>1, <1>3 DEF link, Call
  <2>2. k \in Call /\ k.chain = call[t].chain /\ k.old = call[t].old /\ k.pc = "cas"
    BY <1>1 DEF Call
  <2>3. call'[t] = k
    BY <2>1 DEF Typed, TypeOK
  <2>4. Putting(t, call[t]) /\ Current(call[t])
    BY <1>1, <1>3 DEF Shape, CallInv
  <2>5. link_end(c) \in putting(t)
    BY <2>2, <2>4 DEF Putting, link_end, putting
  <2>6. \A x \in Elem : x # link_end(c) => next'[x] = next[x]
    BY <2>1 DEF Typed, TypeOK
  <2>7. \A x \in ToSet(s) : next'[x] = next[x]
    <3>1. putting(t) \subseteq belongs(t)
      BY DEF putting, belongs
    <3>2. link_end(c) \notin ToSet(s)
      BY <2>5, <3>1 DEF Shape, Owners
    <3> QED BY <2>6, <3>2, Top DEF Shape
  <2>8. ASSUME NEW u \in Thread, u # t, NEW x \in putting(u) PROVE next'[x] = next[x]
    <3>1. putting(t) \subseteq belongs(t) /\ putting(u) \subseteq belongs(u)
      BY DEF putting, belongs
    <3>2. link_end(c) \notin putting(u)
      BY <2>5, <2>8, <3>1 DEF Shape, Owners
    <3>3. x \in Elem
      BY CallType DEF Typed, putting, Call, ToSet
    <3> QED BY <2>6, <3>2, <3>3
  <2>9. k # Null
    BY <2>2, NoneAssumption
  <2>10. belongs(t)' = belongs(t)
    BY <1>2, <2>2, <2>3, <2>9 DEF belongs
  <2>11. Putting(t, k)'
    <3>1. link_end(c) \in Elem
      BY <1>1, <2>5 DEF Call, putting, ToSet
    <3>2. next'[link_end(c)] = call[t].old.elem
      BY <2>1, <3>1 DEF Typed, TypeOK
    <3>3. Len(c) = 2 => c[1] # link_end(c) /\ c[1] \in Elem
      BY <1>1, <2>2, <2>4 DEF Putting, link_end, Call
    <3>4. Len(c) = 2 => next'[c[1]] = next[c[1]]
      BY <2>6, <3>3
    <3> QED BY <1>2, <2>2, <2>4, <3>2, <3>4 DEF Putting
  <2>12. CallInv(t)'
    <3>1. Current(k)'
      BY <1>2, <2>2, <2>3, <2>4 DEF Current
    <3>2. is_put(k)
      BY <1>3, <2>2 DEF is_put
    <3> QED BY <2>2, <2>3, <2>11, <3>1, <3>2 DEF CallInv
  <2> QED
    BY <1>2, <2>1, <2>7, <2>8, <2>10, <2>12, QuietStep
<1>4. CASE ~is_put(call[t])
  <2> PICK x : x = next[call[t].old.elem]
    OBVIOUS
  <2> PICK k : k = [call[t] EXCEPT !.link = x, !.pc = "cas"]
    OBVIOUS
  <2>1. call' = [call EXCEPT ![t] = k] /\ next' = next
    BY <1>4 DEF link, Typed, TypeOK
  <2>2. k.chain = call[t].chain /\ k.old = call[t].old /\ k.pc = "cas" /\ k.link = next[k.old.elem]
    BY <1>1 DEF Call
  <2>3. k # Null
    <3>1. Typed'
      <4>1. step(t)
        BY DEF step
      <4> QED BY <4>1, StepTyped
    <3>2. call'[t] = k
      BY <2>1 DEF Typed, TypeOK
    <3>3. x \in Link
      <4>1. call[t].old.elem \in Elem
        BY <1>1, <1>4 DEF Typed, Loaded, Call, StackWord
      <4> QED BY <4>1 DEF Typed, TypeOK
    <3>4. k \in Call
      BY <1>1, <3>3 DEF Call
    <3> QED BY <3>4, NoneAssumption
  <2>4. call'[t] = k
    BY <2>1 DEF Typed, TypeOK
  <2>5. belongs(t)' = belongs(t)
    BY <1>2, <2>2, <2>3, <2>4 DEF belongs
  <2>6. CallInv(t)'
    <3>1. Current(call[t])
      BY <1>1 DEF Shape, CallInv
    <3>2. Current(k)'
      BY <1>2, <2>2, <2>4, <3>1 DEF Current
    <3>3. ~is_put(k)
      BY <1>4, <2>2 DEF is_put
    <3>4. Getting(k)'
      BY <2>1, <2>2, <2>4 DEF Getting
    <3> QED BY <2>2, <2>4, <3>2, <3>3, <3>4 DEF CallInv
  <2> QED
    BY <1>2, <2>1, <2>5, <2>6, QuietStep
<1> QED
  BY <1>3, <1>4

LEMMA RetryShape ==
  ASSUME Typed, NEW s, Shape(s), NEW t \in Thread, call[t] # Null, cas(t), stack # call[t].old
  PROVE  Quiet(s)
<1> PICK k : k = retry(call[t])
  OBVIOUS
<1>1. call[t] \in Call
  BY CallType DEF Typed
<1>2. call' = [call EXCEPT ![t] = k] /\ UNCHANGED <<stack, next, held>>
  BY Zenon DEF cas, cmpxchg64
<1>3. k \in Call /\ k.chain = call[t].chain /\ k.pc = "load"
  BY <1>1 DEF retry, Call, nowhere, StackWord, Link
<1>4. call'[t] = k
  BY <1>2 DEF Typed, TypeOK
<1>5. k # Null
  BY <1>3, NoneAssumption
<1>6. belongs(t)' = belongs(t)
  BY <1>2, <1>3, <1>4, <1>5 DEF belongs
<1>7. CallInv(t)'
  <2>1. is_put(k) => Putting(t, call[t])
    BY <1>3 DEF Shape, CallInv, is_put
  <2>2. is_put(k) => Putting(t, k)'
    BY <1>2, <1>3, <1>4, <2>1 DEF Putting
  <2> QED BY <1>3, <1>4, <2>2 DEF CallInv, Getting
<1> QED
  BY <1>2, <1>6, <1>7, QuietStep

-----------------------------------------------------------------------------
(* The steps that change the stack or its owners. *)
OthersKeep(t) == \A u \in Thread \ {t} : belongs(u)' = belongs(u)

PutStep(s, r, t, c) ==
  /\ r = c \o s
  /\ c \in Seq(Elem) /\ IsInjective(c) /\ (Len(c) = 1 \/ Len(c) = 2)
  /\ ToSet(c) \subseteq belongs(t)
  /\ belongs(t)' = belongs(t) \ ToSet(c)
  /\ OthersKeep(t)

GetStep(s, r, t) ==
  /\ s # <<>>
  /\ r = Tail(s)
  /\ belongs(t)' = belongs(t) \cup {s[1]}
  /\ OthersKeep(t)

HandOverStep(s, r, t, u, e) ==
  /\ r = s
  /\ u # t
  /\ e \in belongs(t)
  /\ belongs(t)' = belongs(t) \ {e}
  /\ belongs(u)' = belongs(u) \cup {e}
  /\ \A v \in Thread \ {t, u} : belongs(v)' = belongs(v)

LEMMA HandOverShape ==
  ASSUME Typed, NEW s, Shape(s), NEW t \in Thread, hand_over(t)
  PROVE  Shape(s)' /\ \E u \in Thread, e \in Elem : HandOverStep(s, s, t, u, e)
<1>1. PICK e \in held[t], u \in Thread \ {t} :
        held' = [held EXCEPT ![t] = @ \ {e}, ![u] = @ \cup {e}]
  BY DEF hand_over
<1>2. UNCHANGED <<stack, next, call>>
  BY DEF hand_over
<1>3. \A v \in Thread : held'[v] = IF v = t THEN held[t] \ {e}
                                   ELSE IF v = u THEN held[u] \cup {e} ELSE held[v]
  BY <1>1 DEF Typed, TypeOK
<1>4. \A v \in Thread : belongs(v) = held[v] \cup putting(v) /\ belongs(v)' = held'[v] \cup putting(v)
  BY <1>2 DEF belongs, putting
<1>5. e \in Elem /\ e \notin ToSet(s) /\ \A v \in Thread : e \notin putting(v)
  BY HeldApart DEF Typed, TypeOK
<1>6. HandOverStep(s, s, t, u, e)
  BY <1>3, <1>4, <1>5 DEF HandOverStep
<1>7. Owners(s)'
  <2>1. Owners(s)
    BY DEF Shape
  <2>2. \A v \in Thread : belongs(v)' \cap ToSet(s) = {}
    BY <1>5, <1>6, <2>1 DEF Owners, HandOverStep
  <2>3. ASSUME NEW v \in Thread, NEW w \in Thread, v # w PROVE belongs(v)' \cap belongs(w)' = {}
    <3>1. \A x \in Thread : x # t => e \notin belongs(x)
      BY <1>6, <2>1 DEF Owners, HandOverStep
    <3> QED BY <1>6, <2>1, <2>3, <3>1 DEF Owners, HandOverStep
  <2>4. Elem = ToSet(s) \cup UNION {belongs(v)' : v \in Thread}
    <3>1. ASSUME NEW x \in Elem, x \notin ToSet(s) PROVE \E v \in Thread : x \in belongs(v)'
      <4>1. PICK v \in Thread : x \in belongs(v)
        BY <2>1, <3>1 DEF Owners
      <4> QED BY <1>6, <4>1 DEF HandOverStep
    <3>2. ASSUME NEW v \in Thread, NEW x \in belongs(v)' PROVE x \in Elem
      <4>1. \E w \in Thread : x \in belongs(w)
        BY <1>6, <3>2 DEF HandOverStep
      <4> QED BY <2>1, <4>1 DEF Owners
    <3>3. ToSet(s) \subseteq Elem
      BY <2>1 DEF Owners
    <3> QED BY <3>1, <3>2, <3>3
  <2> QED BY <2>2, <2>3, <2>4 DEF Owners
<1>8. \A v \in Thread : CallInv(v)'
  <2> TAKE v \in Thread
  <2>1. putting(v) \cap held'[v] = {}
    BY <1>3, <1>5, HeldApart
  <2> QED BY <1>2, <2>1, Others
<1>9. Spells(s, stack.elem)'
  BY <1>2, SameSpelling DEF Shape
<1> QED
  BY <1>5, <1>6, <1>7, <1>8, <1>9 DEF Shape

(* The word changes hands. *)
LEMMA Success ==
  ASSUME Typed, NEW s, Shape(s), NEW t \in Thread, call[t] # Null, cas(t), stack = call[t].old
  PROVE  /\ stack'.version = stack.version + 1
         /\ stack'.elem = IF is_put(call[t]) THEN call[t].chain[1] ELSE call[t].link
         /\ next' = next /\ call'[t] = Null
         /\ \A u \in Thread \ {t} : belongs(u)' = belongs(u)
         /\ \A u \in Thread : CallInv(u)'
         /\ belongs(t)' = held'[t]
         /\ is_put(call[t]) => held' = held /\ Putting(t, call[t])
                               /\ next[link_end(call[t].chain)] = stack.elem
         /\ ~is_put(call[t]) => /\ held'[t] = held[t] \cup {stack.elem}
                                /\ stack.elem # Null /\ call[t].link = next[stack.elem]
<1>1. call[t] \in Call /\ stack \in StackWord /\ call[t].pc = "cas" /\ next' = next
  BY CallType DEF Typed, TypeOK, cas
<1>2. /\ stack'.version = stack.version + 1
      /\ stack'.elem = IF is_put(call[t]) THEN call[t].chain[1] ELSE call[t].link
  BY <1>1 DEF cas, cmpxchg64, pack
<1>3. call' = [call EXCEPT ![t] = Null]
  BY Zenon DEF cas
<1>4. \A u \in Thread : call'[u] = IF u = t THEN Null ELSE call[u]
  BY <1>3 DEF Typed, TypeOK
<1>5. /\ is_put(call[t]) => held' = held
      /\ ~is_put(call[t]) => held' = [held EXCEPT ![t] = @ \cup {stack.elem}]
  BY DEF cas, returned
<1>6. \A u \in Thread : /\ u # t => held'[u] = held[u]
                        /\ u = t /\ ~is_put(call[t]) => held'[u] = held[u] \cup {stack.elem}
  BY <1>5 DEF Typed, TypeOK
<1>7. \A u \in Thread : /\ u # t => belongs(u)' = belongs(u)
                        /\ u = t => belongs(u)' = held'[u]
  BY <1>4, <1>6 DEF belongs
<1>8. \A u \in Thread : CallInv(u)'
  <2> TAKE u \in Thread
  <2>1. CASE u = t
    BY <1>4, <2>1 DEF CallInv
  <2>2. CASE u # t
    <3>1. putting(u) \cap held'[u] = {}
      BY <1>6, <2>2, HeldApart
    <3>2. call'[u] = call[u]
      BY <1>4, <2>2
    <3> QED BY <1>1, <1>2, <3>1, <3>2, Others
  <2> QED BY <2>1, <2>2
<1>9. is_put(call[t]) => Putting(t, call[t]) /\ next[link_end(call[t].chain)] = stack.elem
  BY <1>1 DEF Shape, CallInv, Putting
<1>10. ~is_put(call[t]) => stack.elem # Null /\ call[t].link = next[stack.elem]
  BY <1>1 DEF Shape, CallInv, Getting, Typed, Loaded
<1> QED
  BY <1>1, <1>2, <1>4, <1>5, <1>6, <1>7, <1>8, <1>9, <1>10

LEMMA Appended ==
  ASSUME NEW s \in Seq(Elem), NEW x
  PROVE  /\ Append(s, x)[Len(s) + 1] = x
         /\ \A i \in 1 .. Len(s) : Append(s, x)[i] = s[i]
OBVIOUS

LEMMA Pushed ==
  ASSUME NEW s \in Seq(Elem), IsInjective(s),
         NEW c \in Seq(Elem), Len(c) = 1 \/ Len(c) = 2, Len(c) = 2 => c[1] # c[2],
         ToSet(c) \cap ToSet(s) = {}
  PROVE  /\ c \o s \in Seq(Elem) /\ Len(c \o s) = Len(c) + Len(s)
         /\ IsInjective(c) /\ IsInjective(c \o s)
         /\ ToSet(c \o s) = ToSet(c) \cup ToSet(s)
         /\ \A i \in 1 .. Len(c) : (c \o s)[i] = c[i] /\ Append(c \o s, Null)[i] = c[i]
         /\ \A i \in 1 .. Len(s) : (c \o s)[Len(c) + i] = s[i]
         /\ \A i \in 1 .. Len(s) + 1 : Append(c \o s, Null)[Len(c) + i] = Append(s, Null)[i]
<1> DEFINE r == c \o s
<1>1. r \in Seq(Elem) /\ Len(r) = Len(c) + Len(s)
  OBVIOUS
<1>2. \A i \in 1 .. Len(c) : r[i] = c[i] /\ Append(r, Null)[i] = c[i]
  OBVIOUS
<1>3. \A i \in 1 .. Len(s) : r[Len(c) + i] = s[i]
  OBVIOUS
<1>4. \A i \in 1 .. Len(s) + 1 : Append(r, Null)[Len(c) + i] = Append(s, Null)[i]
  <2> HIDE DEF r
  <2> SUFFICES ASSUME NEW i \in 1 .. Len(s) + 1 PROVE Append(r, Null)[Len(c) + i] = Append(s, Null)[i]
    OBVIOUS
  <2>1. Len(s) \in Nat /\ Len(c) \in Nat
    OBVIOUS
  <2>2. CASE i = Len(s) + 1
    <3>1. Append(r, Null)[Len(r) + 1] = Null /\ Append(s, Null)[Len(s) + 1] = Null
      BY ONLY <1>1, s \in Seq(Elem), Appended
    <3>2. Len(c) + i = Len(r) + 1
      BY ONLY <1>1, <2>1, <2>2
    <3> QED BY ONLY <2>2, <3>1, <3>2
  <2>3. CASE i # Len(s) + 1
    <3>1. i \in 1 .. Len(s) /\ Len(c) + i \in 1 .. Len(r)
      BY ONLY <1>1, <2>1, <2>3, i \in 1 .. Len(s) + 1
    <3>2. Append(r, Null)[Len(c) + i] = r[Len(c) + i]
      BY ONLY <1>1, <3>1, Appended
    <3>3. Append(s, Null)[i] = s[i]
      BY ONLY s \in Seq(Elem), <3>1, Appended
    <3> QED BY ONLY <1>3, <3>1, <3>2, <3>3
  <2> QED BY ONLY <2>2, <2>3
<1>5. \A i \in 1 .. Len(r) : i \in 1 .. Len(c) \/ \E j \in 1 .. Len(s) : i = Len(c) + j
  <2> TAKE i \in 1 .. Len(r)
  <2>1. i \notin 1 .. Len(c) => i - Len(c) \in 1 .. Len(s) /\ i = Len(c) + (i - Len(c))
    BY <1>1
  <2> QED BY <2>1
<1> HIDE DEF r
<1>6. /\ \A i \in 1 .. Len(c) : c[i] \in ToSet(c) /\ c[i] \notin ToSet(s)
      /\ \A i \in 1 .. Len(s) : s[i] \in ToSet(s)
  <2>1. \A i \in 1 .. Len(c) : c[i] \in ToSet(c)
    BY DEF ToSet
  <2>2. \A i \in 1 .. Len(s) : s[i] \in ToSet(s)
    BY DEF ToSet
  <2>3. \A x \in ToSet(c) : x \notin ToSet(s)
    OBVIOUS
  <2> QED BY ONLY <2>1, <2>2, <2>3
<1>7. ToSet(r) = ToSet(c) \cup ToSet(s)
  <2>1. \A x : x \in ToSet(r) <=> \E i \in 1 .. Len(r) : x = r[i]
    BY <1>1 DEF ToSet
  <2>2. \A x : x \in ToSet(c) <=> \E i \in 1 .. Len(c) : x = c[i]
    BY DEF ToSet
  <2>3. \A x : x \in ToSet(s) <=> \E i \in 1 .. Len(s) : x = s[i]
    BY DEF ToSet
  <2>4. /\ \A i \in 1 .. Len(c) : i \in 1 .. Len(r)
        /\ \A i \in 1 .. Len(s) : Len(c) + i \in 1 .. Len(r)
    BY <1>1
  <2>5. \A x : x \in ToSet(r) => x \in ToSet(c) \cup ToSet(s)
    <3> SUFFICES ASSUME NEW x, x \in ToSet(r) PROVE x \in ToSet(c) \/ x \in ToSet(s)
      OBVIOUS
    <3>1. PICK i \in 1 .. Len(r) : x = r[i]
      BY <2>1
    <3>2. CASE i \in 1 .. Len(c)
      BY <1>2, <2>2, <3>1, <3>2, Zenon
    <3>3. ASSUME NEW j \in 1 .. Len(s), i = Len(c) + j PROVE x \in ToSet(s)
      BY <1>3, <2>3, <3>1, <3>3, Zenon
    <3> QED BY <1>5, <3>2, <3>3, Zenon
  <2>6. \A x : x \in ToSet(c) \cup ToSet(s) => x \in ToSet(r)
    <3>1. \A i \in 1 .. Len(c) : c[i] \in ToSet(r)
      BY <1>2, <2>1, <2>4, Zenon
    <3>2. ASSUME NEW i \in 1 .. Len(s) PROVE s[i] \in ToSet(r)
      <4>1. s[i] = r[Len(c) + i] /\ Len(c) + i \in 1 .. Len(r)
        BY <1>3, <2>4
      <4> QED BY <2>1, <4>1, Zenon
    <3> QED BY <2>2, <2>3, <3>1, <3>2
  <2> QED BY <2>5, <2>6
<1>8. IsInjective(c)
  BY DEF IsInjective
<1>9. IsInjective(r)
  <2>1. SUFFICES ASSUME NEW i \in 1 .. Len(r), NEW j \in 1 .. Len(r), r[i] = r[j] PROVE i = j
    BY <1>1 DEF IsInjective
  <2>2. CASE i \in 1 .. Len(c) /\ j \in 1 .. Len(c)
    BY <1>2, <1>8, <2>1, <2>2 DEF IsInjective
  <2>3. CASE i \in 1 .. Len(c) /\ j \notin 1 .. Len(c)
    <3>1. PICK jj \in 1 .. Len(s) : j = Len(c) + jj
      BY <1>5, <2>3
    <3>2. r[j] = s[jj] /\ r[i] = c[i]
      BY <1>2, <1>3, <2>3, <3>1
    <3> QED BY <1>6, <2>1, <2>3, <3>2
  <2>4. CASE i \notin 1 .. Len(c) /\ j \in 1 .. Len(c)
    <3>1. PICK ii \in 1 .. Len(s) : i = Len(c) + ii
      BY <1>5, <2>4
    <3>2. r[i] = s[ii] /\ r[j] = c[j]
      BY <1>2, <1>3, <2>4, <3>1
    <3> QED BY <1>6, <2>1, <2>4, <3>2
  <2>5. CASE i \notin 1 .. Len(c) /\ j \notin 1 .. Len(c)
    <3>1. PICK ii \in 1 .. Len(s), jj \in 1 .. Len(s) : i = Len(c) + ii /\ j = Len(c) + jj
      BY <1>5, <2>5
    <3>2. s[ii] = s[jj]
      BY <1>3, <2>1, <3>1
    <3>3. ii = jj
      BY <3>2 DEF IsInjective
    <3> QED BY <3>1, <3>3
  <2> QED BY <2>2, <2>3, <2>4, <2>5
<1> QED
  BY <1>1, <1>2, <1>3, <1>4, <1>7, <1>8, <1>9 DEF r

LEMMA PushedSpells ==
  ASSUME NEW s \in Seq(Elem), NEW e, Spells(s, e),
         NEW c \in Seq(Elem), Len(c) = 1 \/ Len(c) = 2,
         Len(c) = 2 => c[1] # c[2] /\ next[c[1]] = c[2],
         next[c[Len(c)]] = e, ToSet(c) \cap ToSet(s) = {}
  PROVE  Spells(c \o s, c[1])
<1> DEFINE r == c \o s
<1>1. /\ r \in Seq(Elem) /\ Len(r) = Len(c) + Len(s)
      /\ IsInjective(r)
      /\ \A i \in 1 .. Len(c) : r[i] = c[i] /\ Append(r, Null)[i] = c[i]
      /\ \A i \in 1 .. Len(s) : r[Len(c) + i] = s[i]
      /\ \A i \in 1 .. Len(s) + 1 : Append(r, Null)[Len(c) + i] = Append(s, Null)[i]
  BY Pushed DEF Spells
<1>2. Len(c) \in Nat /\ Len(s) \in Nat /\ Len(r) = Len(c) + Len(s)
  BY <1>1
<1> HIDE DEF r
<1>3. ASSUME NEW i \in 1 .. Len(r) PROVE next[r[i]] = Append(r, Null)[i + 1]
  <2>1. CASE i = Len(c)
    <3>1. r[i] = c[i] /\ next[r[i]] = Append(s, Null)[1]
      BY <1>1, <2>1 DEF Spells
    <3>2. 1 \in 1 .. Len(s) + 1
      BY <1>2
    <3> QED BY <1>1, <2>1, <3>1, <3>2
  <2>2. CASE i = 1 /\ Len(c) = 2
    BY <1>1, <2>2
  <2>3. CASE i > Len(c)
    <3>1. PICK j \in Int : j = i - Len(c)
      BY <1>2
    <3>2. /\ j \in 1 .. Len(s) /\ j + 1 \in 1 .. Len(s) + 1
          /\ i = Len(c) + j /\ i + 1 = Len(c) + (j + 1)
      BY <1>2, <2>3, <3>1
    <3>3. r[i] = s[j] /\ Append(r, Null)[i + 1] = Append(s, Null)[j + 1]
      BY <1>1, <3>2
    <3>4. next[s[j]] = Append(s, Null)[j + 1]
      BY <3>2 DEF Spells
    <3> QED BY <3>3, <3>4
  <2> QED
    BY <1>2, <2>1, <2>2, <2>3
<1>4. c[1] = Append(r, Null)[1]
  BY <1>1
<1> QED
  BY <1>1, <1>3, <1>4 DEF Spells, r

LEMMA Popped ==
  ASSUME NEW s \in Seq(Elem), IsInjective(s), s # <<>>
  PROVE  /\ Tail(s) \in Seq(Elem) /\ Len(Tail(s)) = Len(s) - 1 /\ Len(s) >= 1
         /\ IsInjective(Tail(s))
         /\ s[1] \in Elem
         /\ ToSet(Tail(s)) = ToSet(s) \ {s[1]}
         /\ s[1] \in ToSet(s)
         /\ \A i \in 1 .. Len(s) - 1 : Tail(s)[i] = s[i + 1]
         /\ \A i \in 1 .. Len(s) : Append(Tail(s), Null)[i] = Append(s, Null)[i + 1]
<1> DEFINE r == Tail(s)
<1>1. r \in Seq(Elem) /\ Len(r) = Len(s) - 1 /\ Len(s) >= 1 /\ Len(s) \in Nat /\ s[1] \in Elem
  OBVIOUS
<1>2. \A i \in 1 .. Len(s) - 1 : r[i] = s[i + 1]
  OBVIOUS
<1>3. \A i \in 1 .. Len(s) : Append(r, Null)[i] = Append(s, Null)[i + 1]
  <2> HIDE DEF r
  <2> SUFFICES ASSUME NEW i \in 1 .. Len(s) PROVE Append(r, Null)[i] = Append(s, Null)[i + 1]
    OBVIOUS
  <2>1. CASE i = Len(s)
    <3>1. i = Len(r) + 1 /\ i + 1 = Len(s) + 1
      BY ONLY <1>1, <2>1
    <3>2. Append(r, Null)[Len(r) + 1] = Null /\ Append(s, Null)[Len(s) + 1] = Null
      BY ONLY <1>1, s \in Seq(Elem), Appended
    <3> QED BY ONLY <3>1, <3>2
  <2>2. CASE i # Len(s)
    <3>1. i \in 1 .. Len(r) /\ i \in 1 .. Len(s) - 1 /\ i + 1 \in 1 .. Len(s)
      BY ONLY <1>1, <2>2, i \in 1 .. Len(s)
    <3>2. Append(r, Null)[i] = r[i]
      BY ONLY <1>1, <3>1, Appended
    <3>3. Append(s, Null)[i + 1] = s[i + 1]
      BY ONLY s \in Seq(Elem), <3>1, Appended
    <3> QED BY ONLY <1>2, <3>1, <3>2, <3>3
  <2> QED BY ONLY <2>1, <2>2
<1> HIDE DEF r
<1>4. IsInjective(r)
  <2>1. DOMAIN r = 1 .. Len(s) - 1 /\ DOMAIN s = 1 .. Len(s)
    BY <1>1
  <2>2. ASSUME NEW i \in 1 .. Len(s) - 1, NEW j \in 1 .. Len(s) - 1, r[i] = r[j] PROVE i = j
    <3>1. i + 1 \in 1 .. Len(s) /\ j + 1 \in 1 .. Len(s) /\ (i + 1 = j + 1 => i = j)
      BY ONLY <1>1, i \in 1 .. Len(s) - 1, j \in 1 .. Len(s) - 1
    <3>2. s[i + 1] = s[j + 1]
      BY ONLY <1>2, <2>2
    <3>3. i + 1 = j + 1
      BY <2>1, <3>1, <3>2 DEF IsInjective
    <3> QED BY ONLY <3>1, <3>3
  <2> QED BY ONLY <2>1, <2>2 DEF IsInjective
<1>5. ToSet(r) = ToSet(s) \ {s[1]}
  <2>1. \A x : x \in ToSet(r) <=> \E i \in 1 .. Len(s) - 1 : x = s[i + 1]
    BY <1>1, <1>2 DEF ToSet
  <2>2. \A x : x \in ToSet(s) <=> \E i \in 1 .. Len(s) : x = s[i]
    BY <1>1 DEF ToSet
  <2>3. \A i \in 1 .. Len(s) - 1 : i + 1 \in 1 .. Len(s) /\ s[i + 1] # s[1]
    BY <1>1 DEF IsInjective
  <2>4. \A i \in 1 .. Len(s) : i = 1 \/ (i - 1 \in 1 .. Len(s) - 1 /\ i = (i - 1) + 1)
    BY <1>1
  <2>5. \A x : x \in ToSet(r) => x \in ToSet(s) \ {s[1]}
    BY <2>1, <2>2, <2>3
  <2>6. \A x : x \in ToSet(s) \ {s[1]} => x \in ToSet(r)
    <3> SUFFICES ASSUME NEW x, x \in ToSet(s), x # s[1] PROVE x \in ToSet(r)
      OBVIOUS
    <3>1. PICK i \in 1 .. Len(s) : x = s[i]
      BY <2>2
    <3>2. i - 1 \in 1 .. Len(s) - 1 /\ x = s[(i - 1) + 1]
      BY <2>4, <3>1
    <3> QED BY <2>1, <3>2, Zenon
  <2> QED BY <2>5, <2>6
<1>6. s[1] \in ToSet(s)
  BY <1>1 DEF ToSet
<1> QED
  BY ONLY <1>1, <1>2, <1>3, <1>4, <1>5, <1>6, Zenon DEF r

LEMMA PutSuccess ==
  ASSUME Typed, NEW s, Shape(s), NEW t \in Thread, call[t] # Null, cas(t), stack = call[t].old,
         is_put(call[t]), NEW c, c = call[t].chain
  PROVE  Shape(c \o s)' /\ PutStep(s, c \o s, t, c)
<1>1. PICK r : r = c \o s
  OBVIOUS
<1>2. /\ stack'.version = stack.version + 1
      /\ stack'.elem = c[1]
      /\ next' = next /\ held' = held
      /\ \A u \in Thread \ {t} : belongs(u)' = belongs(u)
      /\ \A u \in Thread : CallInv(u)'
      /\ belongs(t)' = held[t]
      /\ Putting(t, call[t])
      /\ next[c[Len(c)]] = stack.elem
  BY Success DEF link_end
<1>3. /\ Len(c) = 1 \/ Len(c) = 2
      /\ ToSet(c) = {c[1], c[Len(c)]}
      /\ Len(c) = 2 => c[1] # c[2] /\ next[c[1]] = c[2]
      /\ ToSet(c) \cap held[t] = {}
  BY <1>2 DEF Putting
<1>4. c \in Seq(Elem) /\ ToSet(c) \subseteq Elem
  BY CallType DEF Typed, Call, ToSet
<1>5. belongs(t) = held[t] \cup ToSet(c)
  BY DEF belongs
<1>6. Spells(s, stack.elem) /\ Owners(s) /\ s \in Seq(Elem) /\ IsInjective(s)
  BY DEF Shape, Spells
<1>7. ToSet(c) \cap ToSet(s) = {}
  BY <1>5, <1>6 DEF Owners
<1>8. /\ r \in Seq(Elem) /\ Len(r) = Len(c) + Len(s)
      /\ IsInjective(c) /\ IsInjective(r)
      /\ ToSet(r) = ToSet(c) \cup ToSet(s)
      /\ \A i \in 1 .. Len(c) : r[i] = c[i] /\ Append(r, Null)[i] = c[i]
      /\ \A i \in 1 .. Len(s) : r[Len(c) + i] = s[i]
      /\ \A i \in 1 .. Len(s) + 1 : Append(r, Null)[Len(c) + i] = Append(s, Null)[i]
  <2>1. (Len(c) = 1 \/ Len(c) = 2) /\ (Len(c) = 2 => c[1] # c[2])
    BY <1>3
  <2>2. s \in Seq(Elem) /\ IsInjective(s) /\ c \in Seq(Elem)
    BY <1>4, <1>6
  <2> HIDE DEF Shape, Spells, IsInjective, ToSet
  <2>3. /\ c \o s \in Seq(Elem) /\ Len(c \o s) = Len(c) + Len(s)
        /\ IsInjective(c) /\ IsInjective(c \o s)
        /\ ToSet(c \o s) = ToSet(c) \cup ToSet(s)
        /\ \A i \in 1 .. Len(c) : (c \o s)[i] = c[i] /\ Append(c \o s, Null)[i] = c[i]
        /\ \A i \in 1 .. Len(s) : (c \o s)[Len(c) + i] = s[i]
        /\ \A i \in 1 .. Len(s) + 1 : Append(c \o s, Null)[Len(c) + i] = Append(s, Null)[i]
    BY ONLY <1>7, <2>1, <2>2, Pushed, Zenon
  <2> QED BY ONLY <1>1, <2>3, Zenon
<1>9. Spells(r, c[1])
  <2>1. Len(c) = 2 => c[1] # c[2] /\ next[c[1]] = c[2]
    BY <1>3
  <2> QED BY ONLY <1>2, <1>3, <1>4, <1>6, <1>7, <1>1, <2>1, PushedSpells
<1>10. Spells(r, stack.elem)'
  BY <1>2, <1>9 DEF Spells
<1>11. belongs(t)' = belongs(t) \ ToSet(c)
  BY <1>2, <1>3, <1>5
<1>12. Owners(r)'
  <2>1. \A u \in Thread : belongs(u)' = IF u = t THEN belongs(t) \ ToSet(c) ELSE belongs(u)
    BY <1>2, <1>11
  <2>2. \A u \in Thread : belongs(u)' \cap ToSet(r) = {}
    <3> TAKE u \in Thread
    <3>1. u # t => belongs(u) \cap ToSet(c) = {}
      BY <1>5, <1>6 DEF Owners
    <3> QED BY <1>6, <1>8, <2>1, <3>1 DEF Owners
  <2>3. \A u, v \in Thread : u # v => belongs(u)' \cap belongs(v)' = {}
    BY <1>6, <2>1 DEF Owners
  <2>4. Elem = ToSet(r) \cup UNION {belongs(u)' : u \in Thread}
    <3>1. ASSUME NEW x \in Elem, x \notin ToSet(r) PROVE \E u \in Thread : x \in belongs(u)'
      <4>1. PICK u \in Thread : x \in belongs(u)
        BY <1>6, <1>8, <3>1 DEF Owners
      <4> QED BY <1>8, <2>1, <3>1, <4>1
    <3>2. ASSUME NEW u \in Thread, NEW x \in belongs(u)' PROVE x \in Elem
      BY <1>6, <2>1, <3>2 DEF Owners
    <3>3. ToSet(r) \subseteq Elem
      BY <1>4, <1>6, <1>8 DEF Owners
    <3> QED BY <3>1, <3>2, <3>3
  <2> QED BY <2>2, <2>3, <2>4 DEF Owners
<1>13. Shape(r)'
  BY <1>2, <1>10, <1>12 DEF Shape
<1>14. PutStep(s, r, t, c)
  <2>1. ToSet(c) \subseteq belongs(t)
    BY <1>5
  <2>2. OthersKeep(t)
    BY <1>2 DEF OthersKeep
  <2>3. c \in Seq(Elem) /\ IsInjective(c) /\ (Len(c) = 1 \/ Len(c) = 2)
    BY <1>3, <1>4, <1>8
  <2> QED BY <1>11, <1>1, <2>1, <2>2, <2>3, Zenon DEF PutStep
<1> QED
  BY <1>13, <1>14, <1>1, Zenon

LEMMA GetSuccess ==
  ASSUME Typed, NEW s, Shape(s), NEW t \in Thread, call[t] # Null, cas(t), stack = call[t].old,
         ~is_put(call[t])
  PROVE  Shape(Tail(s))' /\ GetStep(s, Tail(s), t)
<1>1. PICK r : r = Tail(s)
  OBVIOUS
<1>2. /\ stack'.version = stack.version + 1
      /\ stack'.elem = next[stack.elem]
      /\ next' = next
      /\ \A u \in Thread \ {t} : belongs(u)' = belongs(u)
      /\ \A u \in Thread : CallInv(u)'
      /\ belongs(t)' = held[t] \cup {stack.elem}
      /\ stack.elem # Null
  BY Success
<1>3. belongs(t) = held[t]
  BY DEF belongs, is_put, ToSet
<1>4. Spells(s, stack.elem) /\ Owners(s) /\ s \in Seq(Elem) /\ IsInjective(s)
  BY DEF Shape, Spells
<1>5. s # <<>> /\ stack.elem = s[1]
  BY <1>2, <1>4, Top
<1>6. /\ r \in Seq(Elem) /\ Len(r) = Len(s) - 1 /\ Len(s) >= 1
      /\ IsInjective(r)
      /\ s[1] \in Elem
      /\ ToSet(r) = ToSet(s) \ {s[1]}
      /\ s[1] \in ToSet(s)
      /\ \A i \in 1 .. Len(s) - 1 : r[i] = s[i + 1]
      /\ \A i \in 1 .. Len(s) : Append(r, Null)[i] = Append(s, Null)[i + 1]
  BY <1>4, <1>5, <1>1, Popped
<1>7. Spells(r, next[stack.elem])
  <2>1. ASSUME NEW i \in 1 .. Len(r) PROVE next[r[i]] = Append(r, Null)[i + 1]
    <3>1. i \in 1 .. Len(s) - 1 /\ i + 1 \in 1 .. Len(s)
      BY <1>4, <1>6
    <3>2. next[s[i + 1]] = Append(s, Null)[(i + 1) + 1]
      BY <1>4, <3>1 DEF Spells
    <3> QED BY <1>6, <3>1, <3>2
  <2>2. next[stack.elem] = Append(r, Null)[1]
    <3>1. 1 \in 1 .. Len(s)
      <4>1. Len(s) \in Nat /\ Len(s) >= 1
        BY <1>4, <1>6
      <4> QED BY <4>1
    <3>2. next[s[1]] = Append(s, Null)[1 + 1]
      BY <1>4, <3>1 DEF Spells
    <3> QED BY <1>5, <1>6, <3>1, <3>2
  <2> QED BY <1>6, <2>1, <2>2 DEF Spells
<1>8. Spells(r, stack.elem)'
  BY <1>2, <1>7 DEF Spells
<1>9. \A u \in Thread : belongs(u)' = IF u = t THEN belongs(t) \cup {s[1]} ELSE belongs(u)
  BY <1>2, <1>3, <1>5
<1>10. Owners(r)'
  <2>1. \A u \in Thread : s[1] \notin belongs(u)
    BY <1>4, <1>6 DEF Owners
  <2>2. \A u \in Thread : belongs(u)' \cap ToSet(r) = {}
    BY <1>4, <1>6, <1>9 DEF Owners
  <2>3. \A u, v \in Thread : u # v => belongs(u)' \cap belongs(v)' = {}
    BY <1>4, <1>9, <2>1 DEF Owners
  <2>4. Elem = ToSet(r) \cup UNION {belongs(u)' : u \in Thread}
    <3>1. ASSUME NEW x \in Elem, x \notin ToSet(r) PROVE \E u \in Thread : x \in belongs(u)'
      <4>1. CASE x = s[1]
        BY <1>9, <4>1
      <4>2. CASE x # s[1]
        <5>1. PICK u \in Thread : x \in belongs(u)
          BY <1>4, <1>6, <3>1, <4>2 DEF Owners
        <5> QED BY <1>9, <5>1
      <4> QED BY <4>1, <4>2
    <3>2. ASSUME NEW u \in Thread, NEW x \in belongs(u)' PROVE x \in Elem
      BY <1>4, <1>6, <1>9, <3>2 DEF Owners
    <3>3. ToSet(r) \subseteq Elem
      BY <1>4, <1>6 DEF Owners
    <3> QED BY <3>1, <3>2, <3>3
  <2> QED BY <2>2, <2>3, <2>4 DEF Owners
<1>11. Shape(r)'
  BY <1>2, <1>8, <1>10 DEF Shape
<1>12. GetStep(s, r, t)
  BY <1>5, <1>9, <1>1 DEF GetStep, OthersKeep
<1> QED
  BY <1>11, <1>12, <1>1

-----------------------------------------------------------------------------
(* The sequence s becomes r: by a put, a get, a change of owners or not.   *)
Becomes(s, r) ==
  \/ r = s /\ \A u \in Thread : belongs(u)' = belongs(u)
  \/ \E t \in Thread :
       \/ \E c \in Seq(Elem) : PutStep(s, r, t, c)
       \/ GetStep(s, r, t)
       \/ \E u \in Thread, e \in Elem : HandOverStep(s, r, t, u, e)

LEMMA NextShape ==
  ASSUME TornReads = FALSE, Typed, NEW s \in Seq(Elem), Shape(s), [Next]_vars
  PROVE  \E r \in Seq(Elem) : Shape(r)' /\ Becomes(s, r)
<1>1. Quiet(s) => Shape(s)' /\ Becomes(s, s)
  BY Zenon DEF Quiet, Becomes
<1>2. ASSUME NEW t \in Thread, nb_stack_put(t) \/ nb_stack_get(t) \/ use(t) PROVE Quiet(s)
  BY <1>2, PutShape, GetShape, UseShape
<1>3. ASSUME NEW t \in Thread, hand_over(t) PROVE Shape(s)' /\ Becomes(s, s)
  BY <1>3, HandOverShape, Zenon DEF Becomes
<1>4. ASSUME NEW t \in Thread, step(t)
      PROVE  \E r \in Seq(Elem) : Shape(r)' /\ Becomes(s, r)
  <2>1. call[t] # Null
    BY <1>4 DEF step
  <2>2. CASE load(t)
    BY <1>1, <2>1, <2>2, LoadShape
  <2>3. ~load_high(t)
    BY <2>1 DEF load_high, Shape, CallInv
  <2>4. CASE link(t)
    BY <1>1, <2>1, <2>4, LinkShape
  <2>5. CASE cas(t)
    <3>1. CASE stack # call[t].old
      BY <1>1, <2>1, <2>5, <3>1, RetryShape
    <3>2. CASE stack = call[t].old /\ is_put(call[t])
      <4>1. PICK c : c = call[t].chain
        OBVIOUS
      <4>2. Shape(c \o s)' /\ PutStep(s, c \o s, t, c)
        BY <2>1, <2>5, <3>2, <4>1, PutSuccess
      <4>3. c \in Seq(Elem)
        BY <4>2 DEF PutStep
      <4>4. c \o s \in Seq(Elem)
        BY <4>3
      <4> QED BY <4>2, <4>3, <4>4, Zenon DEF Becomes
    <3>3. CASE stack = call[t].old /\ ~is_put(call[t])
      <4>1. Shape(Tail(s))' /\ GetStep(s, Tail(s), t)
        BY <2>1, <2>5, <3>3, GetSuccess
      <4>2. s # <<>>
        BY <4>1 DEF GetStep
      <4>3. Tail(s) \in Seq(Elem)
        BY <4>2
      <4> QED BY <4>1, <4>3, Zenon DEF Becomes
    <3> QED BY <3>1, <3>2, <3>3
  <2> QED
    BY <1>4, <2>2, <2>3, <2>4, <2>5, Zenon DEF step
<1>5. CASE UNCHANGED vars
  <2>1. UNCHANGED <<stack, next, held, call>>
    BY <1>5 DEF vars
  <2>2. \A u \in Thread : belongs(u)' = belongs(u)
    BY <2>1 DEF belongs
  <2>3. Spells(s, stack.elem)' /\ Owners(s)'
    BY <2>1, <2>2, SameSpelling, SameOwners DEF Shape
  <2>4. \A u \in Thread : CallInv(u)'
    <3> TAKE u \in Thread
    <3>1. putting(u) \cap held'[u] = {}
      BY <2>1, HeldApart
    <3> QED BY <2>1, <3>1, Others
  <2> QED BY <1>1, <2>2, <2>3, <2>4 DEF Quiet, Shape
<1> QED
  BY <1>1, <1>2, <1>3, <1>4, <1>5, Zenon DEF Next

LEMMA NextInv ==
  ASSUME TornReads = FALSE, Inv, [Next]_vars
  PROVE  Inv'
<1>1. PICK s \in Seq(Elem) : Shape(s)
  BY DEF Inv
<1>2. \E r \in Seq(Elem) : Shape(r)'
  BY <1>1, NextShape, Zenon DEF Inv
<1>3. Typed'
  BY NextTyped DEF Inv
<1> QED
  BY <1>2, <1>3 DEF Inv

LEMMA Contents ==
  ASSUME Typed, NEW s, Shape(s)
  PROVE  contents = s
BY LinkedFrom DEF contents, Shape, Typed, TypeOK

LEMMA InvHandedOutOnce == Inv => HandedOutOnce
<1> SUFFICES ASSUME Inv PROVE HandedOutOnce
  OBVIOUS
<1>1. PICK s \in Seq(Elem) : Shape(s)
  BY DEF Inv
<1>2. contents = s
  BY <1>1, Contents DEF Inv
<1>3. IsInjective(s) /\ Owners(s)
  BY <1>1 DEF Shape, Spells
<1> QED
  BY <1>2, <1>3, Zenon DEF HandedOutOnce, Owners

LEMMA InvGetsFreeElement == Inv => GetsFreeElement
<1> SUFFICES ASSUME Inv, NEW t \in Thread, NEW u \in Thread,
                    call[t] # Null, ~is_put(call[t]), call[t].pc = "cas", stack = call[t].old
             PROVE  returned(call[t]) \notin belongs(u)
  BY Zenon DEF GetsFreeElement
<1>1. PICK s \in Seq(Elem) : Shape(s)
  BY DEF Inv
<1>2. stack.elem # Null
  BY DEF Inv, Typed, Loaded
<1>3. stack.elem \in ToSet(s)
  BY <1>1, <1>2, Top DEF Shape
<1> QED
  BY <1>1, <1>3 DEF Shape, Owners, returned

LEMMA InvAlways ==
  ASSUME TornReads = FALSE
  PROVE  Spec => []Inv
<1>1. Init => Inv
  BY InitInv
<1>2. Inv /\ [Next]_vars => Inv'
  BY NextInv
<1> QED
  BY <1>1, <1>2, PTL DEF Spec

(* An element is in the stack, once, or with one thread, however slow a    *)
(* call is and whatever its element has been used for meanwhile, if the    *)
(* word is read in one piece.                                              *)
THEOREM OneOwner ==
  ASSUME TornReads = FALSE
  PROVE  Spec => []HandedOutOnce
<1>1. Spec => []Inv
  BY InvAlways
<1>2. Inv => HandedOutOnce
  BY InvHandedOutOnce
<1> QED
  BY <1>1, <1>2, PTL

(* What get_free_page is given is a free page, under the same condition:   *)
(* the counterexample of NbStackTorn needs the torn read.                  *)
THEOREM GivenFreeElement ==
  ASSUME TornReads = FALSE
  PROVE  Spec => []GetsFreeElement
<1>1. Spec => []Inv
  BY InvAlways
<1>2. Inv => GetsFreeElement
  BY InvGetsFreeElement
<1> QED
  BY <1>1, <1>2, PTL

-----------------------------------------------------------------------------
(* The four places of a call. *)
LEMMA StepsLeft ==
  ASSUME NEW k, NEW w, k.pc \in {"load", "link", "cas"}
  PROVE  /\ k.pc = "load" => steps_left(k, w) = 4
         /\ k.pc = "link" => steps_left(k, w) = IF k.old # w THEN 6 ELSE 2
         /\ k.pc = "cas"  => steps_left(k, w) = IF k.old # w THEN 5 ELSE 1
BY DEF steps_left

Progress(t) ==
  \/ call'[t] = Null
  \/ stack' # stack
  \/ call'[t] = call[t]
  \/ steps_left(call'[t], stack') < steps_left(call[t], stack)

LEMMA NextProgress ==
  ASSUME TornReads = FALSE, Inv, [Next]_vars, NEW t \in Thread, call[t] # Null
  PROVE  Progress(t)
<1>1. call[t] \in Call /\ Typed /\ stack \in StackWord
  BY CallType DEF Inv, Typed, TypeOK
<1>2. call[t].pc # "high"
  BY DEF Inv, Shape, CallInv
<1>3. CASE UNCHANGED vars
  BY <1>3 DEF vars, Progress
<1>4. ASSUME NEW u \in Thread, u # t,
             nb_stack_put(u) \/ nb_stack_get(u) \/ step(u)
      PROVE  call'[t] = call[t]
  <2>1. \E k : call' = [call EXCEPT ![u] = k]
    BY <1>4 DEF nb_stack_put, nb_stack_get, begin, step, load, load_high, loaded, link, cas
  <2> QED BY <1>1, <1>4, <2>1 DEF Typed, TypeOK
<1>5. ASSUME NEW u \in Thread, use(u) \/ hand_over(u)
      PROVE  call'[t] = call[t]
  BY <1>5 DEF use, hand_over
<1>6. ~nb_stack_put(t) /\ ~nb_stack_get(t)
  BY DEF nb_stack_put, nb_stack_get, begin
<1>7. CASE load(t)
  <2>1. PICK k : k = [call[t] EXCEPT !.old = stack, !.pc = "link"]
    OBVIOUS
  <2>2. k.pc = "link" /\ k.old = stack
    BY <1>1, <2>1 DEF Call
  <2>3. call[t].pc = "load" /\ stack' = stack /\ (call'[t] = Null \/ call'[t] = k)
    BY <1>1, <1>7, <2>1 DEF load, loaded, Typed, TypeOK
  <2> QED BY <2>2, <2>3, StepsLeft DEF Progress
<1>8. CASE link(t)
  <2>1. call[t].pc = "link" /\ stack' = stack
    BY <1>8 DEF link
  <2>2. call'[t].pc = "cas" /\ call'[t].old = call[t].old
    <3>1. CASE is_put(call[t])
      <4>1. PICK k : k = [call[t] EXCEPT !.pc = "cas"]
        OBVIOUS
      <4>2. call'[t] = k
        BY <1>1, <1>8, <3>1, <4>1 DEF link, Typed, TypeOK
      <4> QED BY <1>1, <4>1, <4>2 DEF Call
    <3>2. CASE ~is_put(call[t])
      <4>1. PICK k : k = [call[t] EXCEPT !.link = next[call[t].old.elem], !.pc = "cas"]
        OBVIOUS
      <4>2. call'[t] = k
        BY <1>1, <1>8, <3>2, <4>1 DEF link, Typed, TypeOK
      <4> QED BY <1>1, <4>1, <4>2 DEF Call
    <3> QED BY <3>1, <3>2
  <2> QED BY <2>1, <2>2, StepsLeft DEF Progress
<1>9. CASE cas(t)
  <2>1. CASE stack = call[t].old
    <3>1. call' = [call EXCEPT ![t] = Null]
      BY <1>9, <2>1, Zenon DEF cas
    <3> QED BY <1>1, <3>1 DEF Progress, Typed, TypeOK
  <2>2. CASE stack # call[t].old
    <3>1. call' = [call EXCEPT ![t] = retry(call[t])] /\ stack' = stack /\ call[t].pc = "cas"
      BY <1>9, <2>2, Zenon DEF cas, cmpxchg64
    <3>2. call'[t] = retry(call[t])
      BY <1>1, <3>1 DEF Typed, TypeOK
    <3>3. call'[t].pc = "load"
      BY <1>1, <3>2 DEF retry, Call
    <3> QED BY <2>2, <3>1, <3>3, StepsLeft DEF Progress
  <2> QED BY <2>1, <2>2
<1>10. ~load_high(t)
  BY <1>2 DEF load_high
<1>11. ASSUME NEW u \in Thread,
              nb_stack_put(u) \/ nb_stack_get(u) \/ use(u) \/ hand_over(u) \/ step(u)
       PROVE  Progress(t)
  <2>1. CASE u # t
    BY <1>4, <1>5, <1>11, <2>1, Zenon DEF Progress
  <2>2. CASE u = t
    BY <1>5, <1>6, <1>7, <1>8, <1>9, <1>10, <1>11, <2>2, Zenon DEF Progress, step
  <2> QED BY <2>1, <2>2
<1> QED
  BY <1>3, <1>11, Zenon DEF Next

(* Every step of a call brings it nearer to its end, unless another call   *)
(* has succeeded: nb_stack_put and nb_stack_get are lock-free.             *)
THEOREM CallsAreLockFree ==
  ASSUME TornReads = FALSE
  PROVE  Spec => LockFree
<1>1. Spec => []Inv
  BY InvAlways
<1>2. Inv /\ [Next]_vars =>
        [\A t \in Thread : call[t] # Null =>
           \/ call'[t] = Null
           \/ stack' # stack
           \/ call'[t] = call[t]
           \/ steps_left(call'[t], stack') < steps_left(call[t], stack)]_vars
  BY NextProgress, Zenon DEF Progress
<1> QED
  BY <1>1, <1>2, PTL DEF Spec, LockFree
-----------------------------------------------------------------------------
(* The contents are the sequence of the invariant, before and after a step. *)
LEMMA ContentsOf == \A s : Typed /\ Shape(s) => contents = s
BY Contents

LEMMA ContentsAfter == (\A s : Typed /\ Shape(s) => contents = s)'
BY ContentsOf, PTL

owners == [t \in Thread |-> belongs(t)]

LEMMA Bounded ==
  ASSUME NEW c \in Seq(Elem), NEW n \in Nat, Len(c) <= n
  PROVE  c \in Stack!BoundedSeq(Elem, n)
<1>1. Len(c) \in 0 .. n /\ c \in [1 .. Len(c) -> Elem]
  OBVIOUS
<1> QED
  BY <1>1 DEF Stack!BoundedSeq, Stack!SeqOf

LEMMA InitStack == Init => Stack!Init
<1> SUFFICES ASSUME Init PROVE Stack!Init
  OBVIOUS
<1>1. Inv
  BY InitInv
<1>2. PICK s \in Seq(Elem) : Shape(s)
  BY <1>1 DEF Inv
<1>3. contents = s /\ IsInjective(s) /\ Owners(s)
  BY <1>1, <1>2, Contents DEF Inv, Shape, Spells
<1>4. \A t \in Thread : belongs(t) = {}
  BY DEF Init, belongs
<1>5. ToSet(s) = Elem
  BY <1>3, <1>4 DEF Owners
<1>6. s \in Stack!BoundedSeq(Elem, Cardinality(Elem))
  BY <1>3, Short, Bounded
<1>7. Stack!IsInjective(s) /\ Stack!ToSet(s) = Elem
  BY <1>3, <1>5 DEF Stack!IsInjective, Stack!ToSet, IsInjective, ToSet
<1>8. owners = [t \in Thread |-> {}]
  BY <1>4 DEF owners
<1>9. Stack!Cardinality(Elem) = Cardinality(Elem)
  BY Zenon DEF Stack!Cardinality, Cardinality
<1> QED
  BY <1>3, <1>6, <1>7, <1>8, <1>9, Zenon DEF Stack!Init, owners

LEMMA StepStack ==
  ASSUME NEW s \in Seq(Elem), NEW r \in Seq(Elem), Becomes(s, r), contents = s, contents' = r
  PROVE  [Stack!Next]_(Stack!vars)
<1>1. CASE r = s /\ \A u \in Thread : belongs(u)' = belongs(u)
  BY <1>1 DEF Stack!vars
<1>2. ASSUME NEW t \in Thread, NEW c \in Seq(Elem), PutStep(s, r, t, c)
      PROVE  Stack!Next
  <2>1. owners' = [owners EXCEPT ![t] = @ \ ToSet(c)]
    BY <1>2 DEF owners, PutStep, OthersKeep
  <2>2. c \in Stack!BoundedSeq(Elem, 2) /\ c # <<>>
    <3>1. c \in Seq(Elem) /\ (Len(c) = 1 \/ Len(c) = 2)
      BY <1>2, Zenon DEF PutStep
    <3>2. PICK n \in 1 .. 2 : Len(c) = n
      BY <3>1
    <3>3. n \in Nat /\ n <= 2 /\ n # 0
      BY <3>2
    <3>4. c = <<>> => Len(c) = 0
      OBVIOUS
    <3>5. Len(c) <= 2
      BY ONLY <3>2, <3>3, Zenon
    <3>6. c \in Stack!BoundedSeq(Elem, 2)
      BY <3>5, Bounded
    <3> QED BY <3>2, <3>3, <3>4, <3>6, Zenon
  <2>3. c \in Stack!Chains
    BY <1>2, <2>2 DEF PutStep, Stack!Chains, Stack!IsInjective, IsInjective
  <2>4. Stack!Put(t, c)
    BY <1>2, <2>1 DEF Stack!Put, owners, PutStep, Stack!ToSet, ToSet
  <2> QED BY <2>3, <2>4 DEF Stack!Next
<1>3. ASSUME NEW t \in Thread, GetStep(s, r, t)
      PROVE  Stack!Next
  <2>1. owners' = [owners EXCEPT ![t] = @ \cup {s[1]}]
    BY <1>3 DEF owners, GetStep, OthersKeep
  <2>2. Head(s) = s[1]
    BY <1>3 DEF GetStep
  <2>3. Stack!Get(t)
    BY <1>3, <2>1, <2>2 DEF Stack!Get, owners, GetStep
  <2> QED BY <2>3 DEF Stack!Next
<1>4. ASSUME NEW t \in Thread, NEW u \in Thread, NEW e \in Elem, HandOverStep(s, r, t, u, e)
      PROVE  Stack!Next
  <2>1. owners' = [owners EXCEPT ![t] = @ \ {e}, ![u] = @ \cup {e}]
    BY <1>4 DEF owners, HandOverStep
  <2>2. Stack!HandOver(t, u, e)
    BY <1>4, <2>1 DEF Stack!HandOver, owners, HandOverStep
  <2> QED BY <2>2 DEF Stack!Next
<1> QED
  BY <1>1, <1>2, <1>3, <1>4, Zenon DEF Becomes

(* Every step of the accesses to memory is a step of the atomic stack, or  *)
(* none: a call takes effect at its successful compare-and-swap.           *)
THEOREM Implements ==
  ASSUME TornReads = FALSE
  PROVE  Spec => ImplementsStack
<1>1. Spec => []Inv
  BY InvAlways
<1>2. Init => Stack!Init
  BY InitStack
<1>3. Inv /\ Inv' /\ [Next]_vars => [Stack!Next]_(Stack!vars)
  <2> SUFFICES ASSUME Inv, Inv', [Next]_vars PROVE [Stack!Next]_(Stack!vars)
    OBVIOUS
  <2>1. PICK s \in Seq(Elem) : Shape(s)
    BY DEF Inv
  <2>2. PICK r \in Seq(Elem) : Shape(r)' /\ Becomes(s, r)
    BY <2>1, NextShape, Zenon DEF Inv
  <2>3. contents = s
    BY <2>1, Contents DEF Inv
  <2>4. contents' = r
    <3>1. Typed'
      BY DEF Inv
    <3> QED BY <2>2, <3>1, ContentsAfter, Zenon
  <2> QED BY <2>2, <2>3, <2>4, StepStack
<1> QED
  BY <1>1, <1>2, <1>3, PTL DEF Spec, ImplementsStack, Stack!Spec
=============================================================================
