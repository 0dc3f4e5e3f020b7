-------------------------- MODULE PageLayoutProofs --------------------------
(***************************************************************************)
(* Theorems about PageLayout, for every size of the words of the bitmap up *)
(* to 32 bits and every set of sizes, constants of cf.h and requests: the  *)
(* two levels of a bitmap are the set of used blocks they stand for, and   *)
(* the tables of the size-classes give every request a block that holds it *)
(* and its fields.                                                         *)
(***************************************************************************)
EXTENDS PageLayout, LinkedLists

-----------------------------------------------------------------------------
(* The lowest element of a set.                                            *)
Lowest(r, S) == r \in S /\ \A y \in S : r <= y

LEMMA LowestIsMin ==
  ASSUME NEW S \in SUBSET Int, NEW r, Lowest(r, S)
  PROVE  Min(S) = r
<1>1. \A y \in S : (\A z \in S : y <= z) => y = r
  BY DEF Lowest
<1> QED
  BY <1>1 DEF Lowest, Min

LEMMA SmallestNat ==
  ASSUME NEW S \in SUBSET Nat, S # {}
  PROVE  \E r \in S : \A y \in S : r <= y
<1> DEFINE R == {ss \in Nat \X Nat : ss[1] < ss[2]}
<1>1. IsWellFoundedOn(R, Nat)
  BY NatLessThanWellFounded, Zenon DEF OpToRel
<1>2. PICK r \in S : \A y \in S : ~(<<y, r>> \in R)
  <2> HIDE DEF R
  <2> QED BY <1>1, WFMin, Zenon
<1>3. ASSUME NEW y \in S PROVE r <= y
  <2>1. y \in Nat /\ r \in Nat
    OBVIOUS
  <2>2. ~(y < r)
    BY <1>2, <2>1
  <2> QED BY <2>1, <2>2
<1> QED
  BY <1>3

(* What is left to look at, r and the n bits that follow, holds the lowest *)
(* bit of x.                                                               *)
Narrowed(x, r, n) ==
  /\ r \in Nat
  /\ x \cap (r .. r + n - 1) # {}
  /\ \A y \in x : r <= y

LEMMA Skip ==
  ASSUME NEW x \in SUBSET Nat, NEW r, NEW n \in Nat, Narrowed(x, r, n + n)
  PROVE  Narrowed(x, skip(x, r, n), n)
<1>1. r \in Nat /\ \A y \in x : r <= y
  BY DEF Narrowed
<1>2. PICK z \in x : z \in r .. r + (n + n) - 1
  BY DEF Narrowed
<1>3. CASE x \cap (r .. r + n - 1) = {}
  <2>1. \A y \in x : r + n <= y
    BY <1>1, <1>3
  <2>2. z \in (r + n) .. (r + n) + n - 1
    BY <1>1, <1>2, <2>1
  <2> QED BY <1>1, <1>3, <2>1, <2>2 DEF Narrowed, skip
<1>4. CASE x \cap (r .. r + n - 1) # {}
  BY <1>1, <1>4 DEF Narrowed, skip
<1> QED
  BY <1>3, <1>4

(* The narrowing finds the lowest bit of a word.                           *)
LEMMA UnoptimizedLowest ==
  ASSUME NEW x \in SUBSET Bit, x # {}
  PROVE  Lowest(_ffs_unoptimized(x), x)
<1> DEFINE r1 == skip(x, 0, 16)
           r2 == skip(x, r1, 8)
           r3 == skip(x, r2, 4)
           r4 == skip(x, r3, 2)
           r5 == skip(x, r4, 1)
<1>1. x \in SUBSET Nat /\ x \in SUBSET (0 .. 31)
  BY BitsAssumption DEF Bit
<1>2. Narrowed(x, 0, 16 + 16)
  <2>1. PICK z \in x : TRUE
    BY x # {}
  <2>2. z \in 0 .. 0 + (16 + 16) - 1
    BY <1>1, <2>1
  <2>3. \A y \in x : 0 <= y
    BY <1>1
  <2> QED BY <2>1, <2>2, <2>3 DEF Narrowed
<1>3. Narrowed(x, r1, 8 + 8)
  <2>1. Narrowed(x, r1, 16)
    BY ONLY <1>1, <1>2, Skip, 16 \in Nat
  <2> HIDE DEF r1
  <2> QED BY <2>1 DEF Narrowed
<1>4. Narrowed(x, r2, 4 + 4)
  <2> HIDE DEF r1
  <2>1. Narrowed(x, r2, 8)
    BY ONLY <1>1, <1>3, Skip, 8 \in Nat
  <2> HIDE DEF r2
  <2> QED BY <2>1 DEF Narrowed
<1>5. Narrowed(x, r3, 2 + 2)
  <2> HIDE DEF r2
  <2>1. Narrowed(x, r3, 4)
    BY ONLY <1>1, <1>4, Skip, 4 \in Nat
  <2> HIDE DEF r3
  <2> QED BY <2>1 DEF Narrowed
<1>6. Narrowed(x, r4, 1 + 1)
  <2> HIDE DEF r3
  <2>1. Narrowed(x, r4, 2)
    BY ONLY <1>1, <1>5, Skip, 2 \in Nat
  <2> HIDE DEF r4
  <2> QED BY <2>1 DEF Narrowed
<1>7. Narrowed(x, r5, 1)
  <2> HIDE DEF r4
  <2> QED BY ONLY <1>1, <1>6, Skip, 1 \in Nat
<1>8. Lowest(r5, x)
  <2> HIDE DEF r5
  <2> QED BY <1>1, <1>7 DEF Narrowed, Lowest
<1>9. _ffs_unoptimized(x) = r5
  BY DEF _ffs_unoptimized
<1> QED
  BY <1>8, <1>9, Zenon

(* Both ways to find the lowest bit of a word do so.                       *)
LEMMA LowestBit ==
  ASSUME NEW x \in SUBSET Bit
  PROVE  /\ _ffs_unoptimized(x) = _ffs(x)
         /\ x # {} => Lowest(_ffs(x), x)
<1>1. CASE x = {}
  BY <1>1 DEF _ffs, _ffs_unoptimized
<1>2. CASE x # {}
  <2>1. Lowest(_ffs_unoptimized(x), x)
    BY <1>2, UnoptimizedLowest
  <2>2. x \in SUBSET Int
    BY BitsAssumption DEF Bit
  <2>3. Min(x) = _ffs_unoptimized(x)
    BY ONLY <2>1, <2>2, LowestIsMin
  <2>4. _ffs(x) = Min(x)
    BY <1>2 DEF _ffs
  <2> QED BY <2>1, <2>3, <2>4, Zenon
<1> QED
  BY <1>1, <1>2

-----------------------------------------------------------------------------
(* Block i is bit b of word w.                                             *)
Blocks == 0 .. Bits * Bits - 1
BlockAt(i, w, b) == w \in Bit /\ b \in Bit /\ i = w * Bits + b

LEMMA BlockPlace ==
  ASSUME NEW i, NEW w, NEW b, BlockAt(i, w, b)
  PROVE  i \in Blocks /\ i \div Bits = w /\ i % Bits = b
<1>1. Bits \in Nat \ {0} /\ w \in Int /\ b \in 0 .. Bits - 1 /\ i = Bits * w + b
  BY BitsAssumption DEF BlockAt, Bit
<1>2. i \div Bits = w /\ i % Bits = b
  BY ONLY <1>1, Division
<1>3. Bits * w + Bits <= Bits * Bits
  <2>1. w < Bits
    BY <1>1 DEF BlockAt, Bit
  <2>2. Bits \in Int
    BY <1>1
  <2> QED BY ONLY <1>1, <2>1, <2>2, NextRow
<1>4. Bits * w >= 0
  BY ONLY <1>1, BlockAt(i, w, b) DEF BlockAt, Bit
<1>5. Bits * w \in Int /\ Bits * Bits \in Int
  BY <1>1
<1> QED
  BY <1>1, <1>2, <1>3, <1>4, <1>5 DEF Blocks

LEMMA PlaceOf ==
  ASSUME NEW i \in Blocks
  PROVE  BlockAt(i, i \div Bits, i % Bits)
<1>1. Bits \in Nat \ {0} /\ i \in Int /\ i >= 0 /\ i < Bits * Bits
  BY BitsAssumption DEF Blocks
<1>2. /\ i = Bits * (i \div Bits) + (i % Bits)
      /\ i % Bits \in 0 .. Bits - 1 /\ i \div Bits \in Int
  BY ONLY <1>1, DivMod
<1>3. i \div Bits >= 0
  <2>1. SUFFICES ASSUME i \div Bits < 0 PROVE FALSE
    BY <1>2
  <2>2. Bits * (i \div Bits) + Bits <= Bits * 0
    BY ONLY <1>1, <1>2, <2>1, NextRow, 0 \in Int
  <2>3. Bits * 0 = 0
    BY <1>1
  <2> QED BY <1>1, <1>2, <2>2, <2>3
<1>4. i \div Bits < Bits
  <2>1. SUFFICES ASSUME ~(i \div Bits < Bits) PROVE FALSE
    OBVIOUS
  <2>2. Bits * (i \div Bits) >= Bits * Bits
    <3> DEFINE w == i \div Bits
    <3>1. w \in Int /\ w >= Bits
      BY <1>1, <1>2, <2>1
    <3> HIDE DEF w
    <3>2. w = Bits => Bits * w = Bits * Bits
      OBVIOUS
    <3>3. w > Bits => Bits * Bits + Bits <= Bits * w
      BY ONLY <1>1, <3>1, NextRow
    <3>4. Bits * Bits \in Int /\ Bits * w \in Int
      BY <1>1, <3>1
    <3>5. Bits * w >= Bits * Bits
      BY ONLY <1>1, <3>1, <3>2, <3>3, <3>4
    <3> QED BY <3>5 DEF w
  <2>3. Bits * (i \div Bits) \in Int /\ Bits * Bits \in Int
    BY <1>1, <1>2
  <2> QED BY ONLY <1>1, <1>2, <2>2, <2>3
<1> QED
  BY <1>1, <1>2, <1>3, <1>4 DEF BlockAt, Bit

(* Blocks are in the order of their words, and in a word of their bits.    *)
LEMMA PlaceOrder ==
  ASSUME NEW i, NEW w, NEW b, BlockAt(i, w, b),
         NEW j, NEW v, NEW c, BlockAt(j, v, c),
         w <= v, w = v => b <= c
  PROVE  i <= j
<1>1. /\ Bits \in Nat \ {0} /\ w \in Int /\ v \in Int
      /\ b \in 0 .. Bits - 1 /\ c \in 0 .. Bits - 1
      /\ i = Bits * w + b /\ j = Bits * v + c
      /\ Bits * w \in Int /\ Bits * v \in Int
  BY BitsAssumption DEF BlockAt, Bit
<1>2. CASE w = v
  BY ONLY <1>1, <1>2, w = v => b <= c
<1>3. CASE w < v
  <2>1. Bits * w + Bits <= Bits * v
    BY ONLY <1>1, <1>3, NextRow
  <2> QED BY ONLY <1>1, <2>1
<1> QED
  BY <1>1, <1>2, <1>3

LEMMA UsedBlock ==
  ASSUME NEW m, NEW i, NEW w, NEW b, BlockAt(i, w, b)
  PROVE  i \in blocks_of(m) <=> b \in m.words[w]
<1>1. i \in Blocks /\ i \div Bits = w /\ i % Bits = b
  BY BlockPlace
<1> QED
  BY <1>1 DEF blocks_of, Blocks

-----------------------------------------------------------------------------
(* What the two ways to change a bit do to the bitmap.                     *)
GoodBitmap(m) == m \in BitmapType /\ levels_agree(m)

LEMMA BitmapFields ==
  ASSUME NEW m \in BitmapType
  PROVE  /\ m.any \in SUBSET Bit /\ m.full \in SUBSET Bit
         /\ \A w \in Bit : m.words[w] \in SUBSET Bit
         /\ m.words \in [Bit -> SUBSET Bit]
BY DEF BitmapType

(* k is m with bit b of word w set, and with it cleared. *)
WithBit(k, m, w, b) ==
  \A v \in Bit : k.words[v] = IF v = w THEN m.words[v] \cup {b} ELSE m.words[v]

WithoutBit(k, m, w, b) ==
  \A v \in Bit : k.words[v] = IF v = w THEN m.words[v] \ {b} ELSE m.words[v]

LEMMA SetBit ==
  ASSUME NEW m, GoodBitmap(m), NEW w \in Bit, NEW b \in Bit
  PROVE  /\ GoodBitmap(__set_bit(m, w, b))
         /\ WithBit(__set_bit(m, w, b), m, w, b)
<1> USE DEF WithBit
<1> DEFINE k == __set_bit(m, w, b)
           more == m.words[w] \cup {b}
<1>1. m \in BitmapType /\ levels_agree(m)
  BY DEF GoodBitmap
<1>2. /\ k.any = m.any \cup {w}
      /\ k.full = IF more = Bit THEN m.full \cup {w} ELSE m.full
      /\ k.words = [m.words EXCEPT ![w] = more]
      /\ k = [any |-> k.any, full |-> k.full, words |-> k.words]
  BY DEF __set_bit
<1>3. more \in SUBSET Bit
  BY <1>1, BitmapFields
<1>4. \A v \in Bit : k.words[v] = IF v = w THEN more ELSE m.words[v]
  BY <1>1, <1>2, BitmapFields
<1>5. k \in BitmapType
  <2>1. k.any \in SUBSET Bit /\ k.full \in SUBSET Bit /\ k.words \in [Bit -> SUBSET Bit]
    <3>1. k.any \in SUBSET Bit
      BY <1>1, <1>2, BitmapFields
    <3>2. k.full \in SUBSET Bit
      BY <1>1, <1>2, BitmapFields
    <3>3. k.words \in [Bit -> SUBSET Bit]
      BY <1>1, <1>2, <1>3, BitmapFields
    <3> QED BY <3>1, <3>2, <3>3
  <2> HIDE DEF k
  <2> QED BY <1>2, <2>1 DEF BitmapType
<1>6. k.any = {v \in Bit : k.words[v] # {}}
  <2>1. \A v \in Bit : v \in m.any <=> m.words[v] # {}
    BY <1>1 DEF levels_agree
  <2>2. \A v \in Bit : v \in k.any <=> k.words[v] # {}
    BY <1>2, <1>4, <2>1
  <2> QED BY <1>5, <2>2, BitmapFields
<1>7. k.full = {v \in Bit : k.words[v] = Bit}
  <2>1. \A v \in Bit : v \in m.full <=> m.words[v] = Bit
    BY <1>1 DEF levels_agree
  <2>2. \A v \in Bit : v \in k.full <=> k.words[v] = Bit
    <3>1. ASSUME NEW v \in Bit, v # w PROVE v \in k.full <=> k.words[v] = Bit
      BY <1>2, <1>4, <2>1, <3>1
    <3>2. w \in k.full <=> k.words[w] = Bit
      <4>1. m.words[w] = Bit => more = Bit
        OBVIOUS
      <4> QED BY <1>2, <1>4, <2>1, <4>1
    <3> QED BY <3>1, <3>2
  <2> QED BY <1>5, <2>2, BitmapFields
<1>8. GoodBitmap(k)
  BY <1>5, <1>6, <1>7 DEF GoodBitmap, levels_agree
<1> QED
  BY <1>4, <1>8

LEMMA ClearBit ==
  ASSUME NEW m, GoodBitmap(m), NEW w \in Bit, NEW b \in Bit, b \in m.words[w]
  PROVE  /\ GoodBitmap(__clear_bit(m, w, b))
         /\ WithoutBit(__clear_bit(m, w, b), m, w, b)
<1> USE DEF WithoutBit
<1> DEFINE k == __clear_bit(m, w, b)
           left == m.words[w] \ {b}
<1>1. m \in BitmapType /\ levels_agree(m)
  BY DEF GoodBitmap
<1>2. /\ k.any = IF left = {} THEN m.any \ {w} ELSE m.any
      /\ k.full = m.full \ {w}
      /\ k.words = [m.words EXCEPT ![w] = left]
      /\ k = [any |-> k.any, full |-> k.full, words |-> k.words]
  BY DEF __clear_bit
<1>3. left \in SUBSET Bit /\ b \notin left
  BY <1>1, BitmapFields
<1>4. \A v \in Bit : k.words[v] = IF v = w THEN left ELSE m.words[v]
  BY <1>1, <1>2, BitmapFields
<1>5. k \in BitmapType
  <2>1. k.any \in SUBSET Bit /\ k.full \in SUBSET Bit /\ k.words \in [Bit -> SUBSET Bit]
    <3>1. k.any \in SUBSET Bit
      BY <1>1, <1>2, BitmapFields
    <3>2. k.full \in SUBSET Bit
      BY <1>1, <1>2, BitmapFields
    <3>3. k.words \in [Bit -> SUBSET Bit]
      BY <1>1, <1>2, <1>3, BitmapFields
    <3> QED BY <3>1, <3>2, <3>3
  <2> HIDE DEF k
  <2> QED BY <1>2, <2>1 DEF BitmapType
<1>6. k.any = {v \in Bit : k.words[v] # {}}
  <2>1. \A v \in Bit : v \in m.any <=> m.words[v] # {}
    BY <1>1 DEF levels_agree
  <2>2. \A v \in Bit : v \in k.any <=> k.words[v] # {}
    <3>1. ASSUME NEW v \in Bit, v # w PROVE v \in k.any <=> k.words[v] # {}
      BY <1>2, <1>4, <2>1, <3>1
    <3>2. w \in k.any <=> k.words[w] # {}
      BY <1>2, <1>4, <2>1
    <3> QED BY <3>1, <3>2
  <2> QED BY <1>5, <2>2, BitmapFields
<1>7. k.full = {v \in Bit : k.words[v] = Bit}
  <2>1. \A v \in Bit : v \in m.full <=> m.words[v] = Bit
    BY <1>1 DEF levels_agree
  <2>2. \A v \in Bit : v \in k.full <=> k.words[v] = Bit
    <3>1. left # Bit
      BY <1>3
    <3>2. ASSUME NEW v \in Bit, v # w PROVE v \in k.full <=> k.words[v] = Bit
      BY <1>2, <1>4, <2>1, <3>2
    <3>3. w \in Bit /\ w \notin k.full /\ k.words[w] # Bit
      BY <1>2, <1>4, <3>1
    <3> QED BY <3>2, <3>3
  <2> QED BY <1>5, <2>2, BitmapFields
<1>8. GoodBitmap(k)
  BY <1>5, <1>6, <1>7 DEF GoodBitmap, levels_agree
<1> QED
  BY <1>4, <1>8

(* A bit set or cleared is a block used or free.                           *)
LEMMA BlockSet ==
  ASSUME NEW m, GoodBitmap(m), NEW i, NEW w, NEW b, BlockAt(i, w, b)
  PROVE  blocks_of(__set_bit(m, w, b)) = blocks_of(m) \cup {i}
<1> DEFINE k == __set_bit(m, w, b)
<1>1. \A v \in Bit : k.words[v] = IF v = w THEN m.words[v] \cup {b} ELSE m.words[v]
  <2>1. w \in Bit /\ b \in Bit
    BY DEF BlockAt
  <2>2. WithBit(k, m, w, b)
    BY ONLY GoodBitmap(m), <2>1, SetBit
  <2> HIDE DEF k
  <2> QED BY ONLY <2>2 DEF WithBit
<1>2. i \in Blocks
  BY BlockPlace
<1> HIDE DEF k
<1>3. ASSUME NEW j \in Blocks PROVE j \in blocks_of(k) <=> j \in blocks_of(m) \/ j = i
  <2>1. PICK v, c : BlockAt(j, v, c)
    BY PlaceOf
  <2>2. v \in Bit /\ c \in Bit
    BY <2>1 DEF BlockAt
  <2>3. (j \in blocks_of(k) <=> c \in k.words[v]) /\ (j \in blocks_of(m) <=> c \in m.words[v])
    BY <2>1, UsedBlock
  <2>4. j = i <=> v = w /\ c = b
    <3>1. v = j \div Bits /\ c = j % Bits /\ w = i \div Bits /\ b = i % Bits
      BY <2>1, BlockPlace
    <3>2. j = v * Bits + c /\ i = w * Bits + b
      BY <2>1 DEF BlockAt
    <3>3. j = i => v = w /\ c = b
      BY ONLY <3>1
    <3>4. v = w /\ c = b => j = i
      BY ONLY <3>2
    <3> QED BY <3>3, <3>4
  <2> QED BY <1>1, <2>2, <2>3, <2>4
<1>4. blocks_of(k) \subseteq Blocks /\ blocks_of(m) \subseteq Blocks
  BY DEF blocks_of, Blocks
<1> QED
  BY <1>2, <1>3, <1>4 DEF k

LEMMA BlockCleared ==
  ASSUME NEW m, GoodBitmap(m), NEW i, NEW w, NEW b, BlockAt(i, w, b), i \in blocks_of(m)
  PROVE  blocks_of(__clear_bit(m, w, b)) = blocks_of(m) \ {i}
<1> DEFINE k == __clear_bit(m, w, b)
<1>1. \A v \in Bit : k.words[v] = IF v = w THEN m.words[v] \ {b} ELSE m.words[v]
  <2>1. b \in m.words[w]
    BY UsedBlock
  <2>2. w \in Bit /\ b \in Bit
    BY DEF BlockAt
  <2>3. WithoutBit(k, m, w, b)
    BY ONLY GoodBitmap(m), <2>1, <2>2, ClearBit
  <2> HIDE DEF k
  <2> QED BY ONLY <2>3 DEF WithoutBit
<1> HIDE DEF k
<1>3. ASSUME NEW j \in Blocks PROVE j \in blocks_of(k) <=> j \in blocks_of(m) /\ j # i
  <2>1. PICK v, c : BlockAt(j, v, c)
    BY PlaceOf
  <2>2. v \in Bit /\ c \in Bit
    BY <2>1 DEF BlockAt
  <2>3. (j \in blocks_of(k) <=> c \in k.words[v]) /\ (j \in blocks_of(m) <=> c \in m.words[v])
    BY <2>1, UsedBlock
  <2>4. j = i <=> v = w /\ c = b
    <3>1. v = j \div Bits /\ c = j % Bits /\ w = i \div Bits /\ b = i % Bits
      BY <2>1, BlockPlace
    <3>2. j = v * Bits + c /\ i = w * Bits + b
      BY <2>1 DEF BlockAt
    <3>3. j = i => v = w /\ c = b
      BY ONLY <3>1
    <3>4. v = w /\ c = b => j = i
      BY ONLY <3>2
    <3> QED BY <3>3, <3>4
  <2> QED BY <1>1, <2>2, <2>3, <2>4
<1>4. blocks_of(k) \subseteq Blocks /\ blocks_of(m) \subseteq Blocks
  BY DEF blocks_of, Blocks
<1> QED
  BY <1>3, <1>4 DEF k

(* get_free_page_block takes the lowest free block of all there may be,    *)
(* and find_used_page_block gives the lowest used one.                     *)
LEMMA FreeBlock ==
  ASSUME NEW m, GoodBitmap(m), Blocks \ blocks_of(m) # {}
  PROVE  /\ BlockAt(free_block(m), free_word(m), free_bit(m))
         /\ Lowest(free_block(m), Blocks \ blocks_of(m))
<1> DEFINE w == free_word(m)
           b == free_bit(m)
<1>1. m \in BitmapType /\ levels_agree(m)
  BY DEF GoodBitmap
<1>2. \A v \in Bit : v \in Bit \ m.full <=> m.words[v] # Bit
  BY <1>1 DEF levels_agree
<1>3. \A v \in Bit : m.words[v] \in SUBSET Bit
  BY <1>1, BitmapFields
<1>4. Lowest(w, Bit \ m.full)
  <2>1. PICK i \in Blocks \ blocks_of(m) : TRUE
    OBVIOUS
  <2>2. PICK v, c : BlockAt(i, v, c)
    BY <2>1, PlaceOf
  <2>3. v \in Bit /\ c \in Bit \ m.words[v]
    BY <2>1, <2>2, UsedBlock DEF BlockAt
  <2>4. v \in Bit \ m.full
    BY <1>2, <2>3
  <2>5. Bit \ m.full \in SUBSET Bit /\ Bit \ m.full # {}
    BY <2>4
  <2> QED BY <2>5, LowestBit DEF free_word
<1>5. Lowest(b, Bit \ m.words[w])
  <2>1. w \in Bit /\ m.words[w] # Bit
    BY <1>2, <1>4 DEF Lowest
  <2>2. Bit \ m.words[w] \in SUBSET Bit /\ Bit \ m.words[w] # {}
    BY <1>3, <2>1
  <2> QED BY <2>2, LowestBit DEF free_bit
<1>6. BlockAt(free_block(m), w, b)
  BY <1>4, <1>5 DEF BlockAt, Lowest, free_block
<1>7. free_block(m) \in Blocks \ blocks_of(m)
  <2>1. b \notin m.words[w]
    BY <1>5 DEF Lowest
  <2> HIDE DEF w, b
  <2> QED BY <1>6, <2>1, BlockPlace, UsedBlock
<1>8. ASSUME NEW j \in Blocks \ blocks_of(m) PROVE free_block(m) <= j
  <2>1. PICK v, c : BlockAt(j, v, c)
    BY PlaceOf
  <2>2. v \in Bit /\ c \in Bit \ m.words[v]
    BY <2>1, UsedBlock DEF BlockAt
  <2>3. w <= v
    BY <1>2, <1>4, <2>2 DEF Lowest
  <2>4. w = v => b <= c
    BY <1>5, <2>2 DEF Lowest
  <2> HIDE DEF w, b
  <2> QED BY ONLY <1>6, <2>1, <2>3, <2>4, PlaceOrder
<1> QED
  BY <1>6, <1>7, <1>8 DEF Lowest

LEMMA FoundBlock ==
  ASSUME NEW m, GoodBitmap(m), blocks_of(m) # {}
  PROVE  Lowest(find_used_page_block(m), blocks_of(m))
<1> DEFINE w == _ffs(m.any)
           b == _ffs(m.words[w])
           i == find_used_page_block(m)
<1>1. m \in BitmapType /\ levels_agree(m)
  BY DEF GoodBitmap
<1>2. \A v \in Bit : v \in m.any <=> m.words[v] # {}
  BY <1>1 DEF levels_agree
<1>3. m.any \in SUBSET Bit /\ \A v \in Bit : m.words[v] \in SUBSET Bit
  BY <1>1, BitmapFields
<1>4. blocks_of(m) \subseteq Blocks
  BY DEF blocks_of, Blocks
<1>5. Lowest(w, m.any)
  <2>1. PICK j \in blocks_of(m) : TRUE
    OBVIOUS
  <2>2. PICK v, c : BlockAt(j, v, c)
    BY <1>4, <2>1, PlaceOf
  <2>3. v \in Bit /\ c \in m.words[v]
    BY <2>1, <2>2, UsedBlock DEF BlockAt
  <2>4. m.any # {}
    BY <1>2, <2>3
  <2> QED BY <1>3, <2>4, LowestBit
<1>6. Lowest(b, m.words[w])
  <2>1. w \in Bit /\ m.words[w] # {}
    BY <1>2, <1>3, <1>5 DEF Lowest
  <2> QED BY <1>3, <2>1, LowestBit
<1>7. BlockAt(i, w, b)
  BY <1>3, <1>5, <1>6 DEF BlockAt, Lowest, find_used_page_block
<1>8. i \in blocks_of(m)
  <2>1. b \in m.words[w]
    BY <1>6 DEF Lowest
  <2> HIDE DEF w, b, i
  <2> QED BY <1>7, <2>1, UsedBlock
<1>9. ASSUME NEW j \in blocks_of(m) PROVE i <= j
  <2>1. PICK v, c : BlockAt(j, v, c)
    BY <1>4, PlaceOf
  <2>2. v \in Bit /\ c \in m.words[v]
    BY <2>1, UsedBlock DEF BlockAt
  <2>3. w <= v
    BY <1>2, <1>5, <2>2 DEF Lowest
  <2>4. w = v => b <= c
    BY <1>6, <2>2 DEF Lowest
  <2> HIDE DEF w, b, i
  <2> QED BY ONLY <1>7, <2>1, <2>3, <2>4, PlaceOrder
<1> QED
  BY <1>8, <1>9 DEF Lowest

-----------------------------------------------------------------------------
(* The loop of init_size_classes_mapping.                                  *)
BaseStep(f, n) == IF n = 0 THEN MINPAGEBLOCKSIZE ELSE next_base(f[n - 1])

LEMMA NextBaseInt ==
  ASSUME NEW b \in Int
  PROVE  next_base(b) \in Int
BY DEF next_base, grow

(* The definition of base, by recursion, has a solution.                   *)
LEMMA BaseValues == \A n \in 0 .. SIZECLASSES : base[n] = BaseStep(base, n)
<1> DEFINE Solves(f, k) == f \in [0 .. k -> Int] /\ \A n \in 0 .. k : f[n] = BaseStep(f, n)
           S == {k \in Nat : \E f : Solves(f, k)}
<1>1. 0 \in S
  <2> DEFINE f == [n \in 0 .. 0 |-> MINPAGEBLOCKSIZE]
  <2>1. f \in [0 .. 0 -> Int] /\ \A n \in 0 .. 0 : f[n] = BaseStep(f, n)
    BY SizeAssumption DEF BaseStep
  <2> QED BY <2>1
<1>2. ASSUME NEW k \in S PROVE k + 1 \in S
  <2>1. k \in Nat
    OBVIOUS
  <2>2. PICK f : Solves(f, k)
    OBVIOUS
  <2> DEFINE g == [n \in 0 .. k + 1 |-> IF n = k + 1 THEN next_base(f[k]) ELSE f[n]]
  <2>3. f[k] \in Int
    BY <2>1, <2>2
  <2>4. g \in [0 .. k + 1 -> Int]
    <3>1. next_base(f[k]) \in Int
      BY <2>3, NextBaseInt
    <3>2. ASSUME NEW n \in 0 .. k + 1, n # k + 1 PROVE f[n] \in Int
      BY <2>1, <2>2, <3>2
    <3> QED BY <3>1, <3>2
  <2>5. ASSUME NEW n \in 0 .. k + 1 PROVE g[n] = BaseStep(g, n)
    <3>1. CASE n = k + 1
      BY <2>1, <3>1 DEF BaseStep
    <3>2. CASE n # k + 1
      <4>1. n \in 0 .. k /\ f[n] = BaseStep(f, n)
        BY <2>1, <2>2, <3>2
      <4>2. n # 0 => n - 1 \in 0 .. k + 1 /\ n - 1 # k + 1
        BY <2>1, <4>1
      <4> QED BY <3>2, <4>1, <4>2 DEF BaseStep
    <3> QED BY <3>1, <3>2
  <2>6. Solves(g, k + 1)
    BY <2>4, <2>5
  <2> HIDE DEF Solves, g
  <2> QED BY <2>1, <2>6
<1>3. SIZECLASSES \in S
  <2>1. S \in SUBSET Nat
    OBVIOUS
  <2>2. \A n \in Nat : n \in S
    <3> HIDE DEF S
    <3> QED BY ONLY <1>1, <1>2, <2>1, NatSet
  <2> QED BY <2>2, SizeAssumption
<1>4. PICK f : Solves(f, SIZECLASSES)
  BY <1>3
<1> DEFINE F(g) == [n \in 0 .. SIZECLASSES |-> IF n = 0 THEN MINPAGEBLOCKSIZE ELSE next_base(g[n - 1])]
<1>5. f = F(f)
  BY <1>4 DEF BaseStep
<1>6. base = CHOOSE g : g = F(g)
  BY DEF base
<1>7. base = F(base)
  <2> HIDE DEF F
  <2> QED BY <1>5, <1>6
<1> QED
  BY <1>7 DEF BaseStep

LEMMA Grown ==
  ASSUME NEW b \in Int, b % 4 = 0, b >= 8, ~last_step(b)
  PROVE  /\ next_base(b) \in Int /\ next_base(b) % 4 = 0
         /\ b < next_base(b) /\ next_base(b) <= LARGESTSC
<1>1. LARGESTSC \in Int /\ LARGESTSC % 4 = 0 /\ 9 * b < 8 * LARGESTSC
  BY SizeAssumption DEF last_step
<1> DEFINE g == (9 * b) \div 8
<1>2. g \in Int /\ b < g /\ g < LARGESTSC
  BY ONLY <1>1, b \in Int, b >= 8
<1>3. next_base(b) = IF g % 4 = 0 THEN g ELSE g + 4 - (g % 4)
  BY DEF next_base, grow
<1> HIDE DEF g
<1> QED
  BY ONLY <1>1, <1>2, <1>3

(* base is a multiple of 4 that grows with every round and stays below     *)
(* LARGESTSC.                                                              *)
GoodSize(b) == b \in Int /\ b % 4 = 0 /\ b >= 8 /\ b <= LARGESTSC

LEMMA BaseSizes ==
  ASSUME ClassesFit
  PROVE  /\ \A n \in 0 .. LastRound : GoodSize(base[n])
         /\ \A n \in 0 .. LastRound : n < LastRound => base[n] < base[n + 1]
<1> DEFINE S == {n \in Nat : n <= LastRound => GoodSize(base[n])}
<1>1. LastRound \in Nat /\ SIZECLASSES \in Nat /\ LastRound = SIZECLASSES - 3
  BY SizeAssumption DEF ClassesFit, LastRound
<1>2. ASSUME NEW n \in 0 .. LastRound, n < LastRound, GoodSize(base[n])
      PROVE  GoodSize(base[n + 1]) /\ base[n] < base[n + 1]
  <2>1. ~last_step(base[n])
    BY <1>1, <1>2 DEF ClassesFit
  <2>2. base[n + 1] = next_base(base[n])
    BY <1>1, <1>2, BaseValues DEF BaseStep
  <2> QED BY <1>2, <2>1, <2>2, Grown, SizeAssumption DEF GoodSize
<1>3. 0 \in S
  <2>1. base[0] = MINPAGEBLOCKSIZE
    BY <1>1, BaseValues DEF BaseStep
  <2> QED BY <2>1, SizeAssumption DEF GoodSize
<1>4. \A n \in S : n + 1 \in S
  BY <1>1, <1>2
<1>5. \A n \in Nat : n \in S
  <2>1. S \in SUBSET Nat
    OBVIOUS
  <2> HIDE DEF S
  <2> QED BY ONLY <1>3, <1>4, <2>1, NatSet
<1>6. \A n \in 0 .. LastRound : GoodSize(base[n])
  BY <1>1, <1>5
<1> QED
  BY <1>2, <1>6

LEMMA BaseOrder ==
  ASSUME ClassesFit
  PROVE  \A i, j \in 0 .. LastRound : i < j => base[i] < base[j]
<1>1. LastRound \in Nat
  BY DEF ClassesFit
<1>2. \A n \in 0 .. LastRound : base[n] \in Int
  BY BaseSizes DEF GoodSize
<1> DEFINE S == {j \in Nat : j <= LastRound => \A i \in 0 .. LastRound : i < j => base[i] < base[j]}
<1>3. 0 \in S
  BY <1>1
<1>4. ASSUME NEW j \in S PROVE j + 1 \in S
  <2>1. SUFFICES ASSUME j + 1 <= LastRound, NEW i \in 0 .. LastRound, i < j + 1
                 PROVE  base[i] < base[j + 1]
    OBVIOUS
  <2>2. j \in Nat /\ j \in 0 .. LastRound /\ j + 1 \in 0 .. LastRound /\ j < LastRound
    BY <1>1, <2>1
  <2>3. base[j] < base[j + 1]
    BY <2>2, BaseSizes
  <2>4. i = j \/ base[i] < base[j]
    BY <1>1, <2>1, <2>2
  <2>5. base[i] \in Int /\ base[j] \in Int /\ base[j + 1] \in Int
    BY <1>2, <2>2
  <2> HIDE DEF S
  <2> QED BY <2>3, <2>4, <2>5
<1>5. \A n \in Nat : n \in S
  <2>1. S \in SUBSET Nat
    OBVIOUS
  <2> HIDE DEF S
  <2> QED BY ONLY <1>3, <1>4, <2>1, NatSet
<1> QED
  BY <1>1, <1>5

LEMMA Rounds ==
  ASSUME ClassesFit
  PROVE  rounds = LastRound /\ last_class = LastRound + 1
<1>1. LastRound \in Nat /\ SIZECLASSES \in Nat /\ LastRound = SIZECLASSES - 3
  BY SizeAssumption DEF ClassesFit, LastRound
<1> DEFINE T == {n \in 0 .. SIZECLASSES : last_step(base[n])}
<1>2. Lowest(LastRound, T)
  BY <1>1 DEF Lowest, ClassesFit
<1>3. T \in SUBSET Int
  BY <1>1
<1>4. Min(T) = LastRound
  <2> HIDE DEF T
  <2> QED BY <1>2, <1>3, LowestIsMin
<1>5. rounds = LastRound
  BY <1>4 DEF rounds
<1> QED
  BY <1>5 DEF last_class

-----------------------------------------------------------------------------
(* The two tables.                                                         *)
Class == 0 .. SIZECLASSES - 1

LEMMA ClassSizes ==
  ASSUME ClassesFit
  PROVE  /\ LastRound \in Nat /\ Class = 0 .. LastRound + 2
         /\ \A c \in 0 .. LastRound : page_block_size(c) = base[c]
         /\ page_block_size(LastRound + 1) = LARGESTSC
         /\ page_block_size(LastRound + 2) = PAGEDATASIZE
<1>1. /\ LastRound \in Nat /\ SIZECLASSES \in Nat /\ SIZECLASSES - 1 = LastRound + 2
      /\ rounds = LastRound /\ last_class = LastRound + 1
  BY SizeAssumption, Rounds DEF ClassesFit, LastRound
<1> QED
  BY ONLY <1>1 DEF Class, page_block_size, size_class_2_size_map

LEMMA ClassOrder ==
  ASSUME ClassesFit
  PROVE  /\ \A c \in Class : page_block_size(c) \in Int /\ page_block_size(c) % 4 = 0 /\ page_block_size(c) >= 8
         /\ \A c, d \in Class : c <= d => page_block_size(c) <= page_block_size(d)
<1>1. /\ LARGESTSC \in Int /\ LARGESTSC % 4 = 0 /\ LARGESTSC >= 8
      /\ PAGEDATASIZE \in Int /\ PAGEDATASIZE % 4 = 0 /\ LARGESTSC < PAGEDATASIZE
  BY SizeAssumption
<1>2. \A c \in 0 .. LastRound : page_block_size(c) = base[c] /\ GoodSize(page_block_size(c))
  BY ClassSizes, BaseSizes
<1>3. LastRound \in Nat /\ Class = 0 .. LastRound + 2
  BY ClassSizes
<1>4. \A c \in Class : c \in 0 .. LastRound \/ c = LastRound + 1 \/ c = LastRound + 2
  BY <1>3
<1>5. page_block_size(LastRound + 1) = LARGESTSC /\ page_block_size(LastRound + 2) = PAGEDATASIZE
  BY ClassSizes
<1>6. \A c \in Class : page_block_size(c) \in Int /\ page_block_size(c) % 4 = 0 /\ page_block_size(c) >= 8
  BY <1>1, <1>2, <1>4, <1>5 DEF GoodSize
<1>7. ASSUME NEW c \in Class, NEW d \in Class, c <= d PROVE page_block_size(c) <= page_block_size(d)
  <2>1. CASE d \in 0 .. LastRound
    <3>1. c \in 0 .. LastRound /\ (c = d \/ c < d)
      BY <1>3, <1>7, <2>1
    <3>2. c < d => base[c] < base[d]
      BY <2>1, <3>1, BaseOrder
    <3> QED BY <1>2, <1>6, <2>1, <3>1, <3>2
  <2>2. CASE d = LastRound + 1
    <3>1. c \in 0 .. LastRound \/ c = d
      BY <1>3, <1>7, <2>2
    <3> QED BY <1>1, <1>2, <1>5, <2>2, <3>1 DEF GoodSize
  <2>3. CASE d = LastRound + 2
    BY <1>1, <1>2, <1>4, <1>5, <2>3 DEF GoodSize
  <2> QED BY <1>4, <2>1, <2>2, <2>3
<1> QED
  BY <1>6, <1>7

(* The size-class of s is the first one whose blocks are larger, except    *)
(* for LARGESTSC itself.                                                   *)
IsClassOf(s, c) ==
  /\ c \in Class
  /\ s < LARGESTSC => s < page_block_size(c)
  /\ s > LARGESTSC => page_block_size(c) = PAGEDATASIZE
  /\ \A d \in Class : s # LARGESTSC /\ page_block_size(d) > s => page_block_size(c) <= page_block_size(d)

LEMMA Entry ==
  ASSUME ClassesFit, NEW i \in 0 .. (LARGESTSC \div 4) - 1
  PROVE  \E c \in 0 .. LastRound + 1 :
           /\ size_2_size_class_map[i] = c
           /\ page_block_size(c) > 4 * i
           /\ \A d \in Class : d < c => page_block_size(d) <= 4 * i
<1> DEFINE T == {n \in 0 .. LastRound : base[n] <= 4 * i}
<1>1. LastRound \in Nat /\ Class = 0 .. LastRound + 2
  BY ClassSizes
<1>2. \A n \in 0 .. LastRound : page_block_size(n) = base[n] /\ base[n] \in Int
  BY ClassSizes, BaseSizes DEF GoodSize
<1>3. /\ LARGESTSC \in Int /\ i \in Int /\ 4 * i < LARGESTSC
      /\ page_block_size(LastRound + 1) = LARGESTSC
  BY SizeAssumption, ClassSizes
<1>4. size_2_size_class_map[i] = Cardinality(T)
  BY Rounds DEF size_2_size_class_map
<1>5. \E c \in 0 .. LastRound + 1 : T = 0 .. c - 1 /\ page_block_size(c) > 4 * i
  <2>1. CASE T = 0 .. LastRound
    BY <1>1, <1>3, <2>1
  <2>2. CASE T # 0 .. LastRound
    <3> DEFINE W == {n \in 0 .. LastRound : base[n] > 4 * i}
    <3>1. W # {} /\ W \in SUBSET Nat
      BY <1>1, <1>2, <1>3, <2>2
    <3>2. PICK c \in W : \A n \in W : c <= n
      <4> HIDE DEF W
      <4> QED BY <3>1, SmallestNat
    <3>3. c \in 0 .. LastRound /\ base[c] > 4 * i
      BY <3>2
    <3>4. ASSUME NEW n \in 0 .. LastRound PROVE n \in T <=> n < c
      <4>1. n < c => base[n] <= 4 * i
        BY <1>1, <1>2, <1>3, <3>2, <3>3
      <4>2. c <= n => base[c] <= base[n]
        <5>1. c = n \/ c < n \/ n < c
          BY <3>3
        <5>2. c < n => base[c] < base[n]
          BY <3>3, BaseOrder
        <5> QED BY <1>2, <3>3, <5>1, <5>2
      <4>3. c <= n => ~(base[n] <= 4 * i)
        BY <1>2, <1>3, <3>3, <4>2
      <4> QED BY <3>3, <4>1, <4>3
    <3>5. T = 0 .. c - 1
      <4>1. T \in SUBSET (0 .. LastRound)
        OBVIOUS
      <4>2. \A n \in 0 .. c - 1 : n \in 0 .. LastRound /\ n < c
        BY <1>1, <3>3
      <4>3. \A n \in 0 .. LastRound : n < c => n \in 0 .. c - 1
        BY <1>1, <3>3
      <4> HIDE DEF T, W
      <4> QED BY <3>4, <4>1, <4>2, <4>3
    <3>6. page_block_size(c) > 4 * i
      BY <1>2, <3>3
    <3>7. c \in 0 .. LastRound + 1
      BY <1>1, <3>3
    <3> HIDE DEF T, W
    <3> QED BY <3>5, <3>6, <3>7
  <2> QED BY <2>1, <2>2
<1>6. PICK c \in 0 .. LastRound + 1 : T = 0 .. c - 1 /\ page_block_size(c) > 4 * i
  BY <1>5
<1>7. Cardinality(T) = c
  <2>1. c - 1 \in Int /\ 0 \in Int /\ c \in Nat
    BY <1>1
  <2>2. Cardinality(0 .. c - 1) = IF 0 > c - 1 THEN 0 ELSE (c - 1) - 0 + 1
    BY ONLY <2>1, FS_Interval
  <2> HIDE DEF T
  <2> QED BY <1>6, <2>1, <2>2
<1>8. ASSUME NEW d \in Class, d < c PROVE page_block_size(d) <= 4 * i
  <2>1. d \in 0 .. LastRound /\ d \in 0 .. c - 1
    BY <1>1, <1>8
  <2>2. d \in T
    <3> HIDE DEF T
    <3> QED BY <1>6, <2>1
  <2> QED BY <1>2, <2>1, <2>2
<1> HIDE DEF T
<1> QED
  BY <1>4, <1>6, <1>7, <1>8

LEMMA ClassOf ==
  ASSUME ClassesFit, NEW s \in Nat, NEW c \in get_size_class_index(s)
  PROVE  IsClassOf(s, c)
<1>1. /\ LARGESTSC \in Nat /\ LARGESTSC % 4 = 0 /\ PAGEDATASIZE \in Int /\ LARGESTSC < PAGEDATASIZE
  BY SizeAssumption
<1>2. LastRound \in Nat /\ Class = 0 .. LastRound + 2 /\ SIZECLASSES - 1 = LastRound + 2
  BY ClassSizes, SizeAssumption DEF LastRound
<1>3. page_block_size(LastRound + 1) = LARGESTSC /\ page_block_size(LastRound + 2) = PAGEDATASIZE
  BY ClassSizes
<1>4. \A d \in Class : page_block_size(d) \in Int
  BY ClassOrder
<1>5. CASE s > LARGESTSC
  <2>1. c = LastRound + 2
    BY <1>2, <1>5 DEF get_size_class_index
  <2>2. ASSUME NEW d \in Class, page_block_size(d) > s PROVE page_block_size(c) <= page_block_size(d)
    <3>1. d = LastRound + 2
      <4>1. d <= LastRound + 1 => page_block_size(d) <= LARGESTSC
        <5>1. LastRound + 1 \in Class
          BY <1>2
        <5> QED BY <1>3, <5>1, ClassOrder
      <4>2. d \in 0 .. LastRound + 2 /\ page_block_size(d) \in Int
        BY <1>2, <1>4
      <4>3. page_block_size(d) > LARGESTSC
        BY ONLY <1>1, <1>5, <2>2, <4>2, s \in Nat
      <4> QED BY ONLY <1>1, <1>2, <4>1, <4>2, <4>3
    <3> QED BY <1>1, <1>3, <2>1, <3>1
  <2> QED BY <1>1, <1>2, <1>3, <1>5, <2>1, <2>2 DEF IsClassOf
<1>6. CASE s < LARGESTSC
  <2> DEFINE i == s \div 4
  <2>1. i \in 0 .. (LARGESTSC \div 4) - 1 /\ 4 * i <= s /\ s < 4 * i + 4
    BY ONLY <1>1, <1>6, s \in Nat
  <2>2. c = size_2_size_class_map[i]
    BY <1>1, <1>6, <2>1 DEF get_size_class_index, size_2_size_class_map
  <2> HIDE DEF i
  <2>3. /\ c \in 0 .. LastRound + 1 /\ page_block_size(c) > 4 * i
        /\ \A d \in Class : d < c => page_block_size(d) <= 4 * i
    BY <2>1, <2>2, Entry
  <2>4. c \in Class
    BY <1>2, <2>3
  <2>5. s < page_block_size(c)
    <3>1. page_block_size(c) \in Int /\ page_block_size(c) % 4 = 0
      BY <2>4, ClassOrder
    <3>2. page_block_size(c) >= 4 * i + 4
      BY ONLY <2>1, <2>3, <3>1
    <3> QED BY ONLY <2>1, <3>1, <3>2, s \in Nat
  <2>6. ASSUME NEW d \in Class, page_block_size(d) > s PROVE page_block_size(c) <= page_block_size(d)
    <3>1. c \in Int /\ d \in Int /\ page_block_size(d) \in Int
      BY <1>2, <1>4, <2>4
    <3>2. ~(d < c)
      BY ONLY <2>1, <2>3, <2>6, <3>1, s \in Nat, d \in Class
    <3>3. c <= d
      BY ONLY <3>1, <3>2
    <3> QED BY <2>4, <3>3, ClassOrder
  <2> QED BY <1>1, <1>6, <2>4, <2>5, <2>6 DEF IsClassOf
<1>7. CASE s = LARGESTSC
  <2>1. s \div 4 \notin 0 .. (LARGESTSC \div 4) - 1
    BY <1>1, <1>7
  <2>2. c \in Class
    BY <1>1, <1>7, <2>1 DEF get_size_class_index, size_2_size_class_map, Class
  <2> QED BY <1>1, <1>7, <2>2 DEF IsClassOf
<1> QED
  BY <1>1, <1>5, <1>6, <1>7

-----------------------------------------------------------------------------
(* The state: a class for the request, and a bitmap of one of its pages.   *)
Chosen ==
  /\ incremental_memcpy \in Increments
  /\ request \in Requests \cup {-1}
  /\ request >= 0 => sc \in get_size_class_index(padded_size(request, incremental_memcpy))

Filled ==
  /\ GoodBitmap(bitmap)
  /\ nr_used = Cardinality(blocks_of(bitmap))
  /\ request >= 0 => blocks_of(bitmap) \subseteq 0 .. page_blocks(sc) - 1
  /\ request = -1 => blocks_of(bitmap) = {}

IInv == Chosen /\ Filled

LEMMA Padded ==
  ASSUME NEW n \in Nat, NEW inc \in Increments
  PROVE  /\ inc \in Nat /\ inc % 4 = 0
         /\ padded_size(n, inc) \in Nat
         /\ padded_size(n, inc) = IF inc # 0 /\ n + 4 > inc THEN n + 8 ELSE n + 4
<1>1. inc \in Nat /\ inc % 4 = 0
  <2>1. PICK i \in 0 .. PAGEDATASIZE : inc = 4 * i
    BY IncrementAssumption
  <2>2. i \in Nat
    BY SizeAssumption
  <2> QED BY <2>1, <2>2
<1> QED
  BY <1>1 DEF padded_size, WORD

(* Between a request and its class.                                        *)
LEMMA ChosenClass ==
  ASSUME ClassesFit, Chosen, request >= 0
  PROVE  /\ request \in Nat
         /\ IsClassOf(padded_size(request, incremental_memcpy), sc)
         /\ page_block_size(sc) \in Nat \ {0}
         /\ page_blocks(sc) \in Nat
<1>1. request \in Nat
  BY RequestAssumption DEF Chosen
<1>2. IsClassOf(padded_size(request, incremental_memcpy), sc)
  <2>1. padded_size(request, incremental_memcpy) \in Nat
    BY <1>1, Padded DEF Chosen
  <2> QED BY <2>1, ClassOf DEF Chosen
<1>3. page_block_size(sc) \in Nat \ {0}
  BY <1>2, ClassOrder DEF IsClassOf
<1>4. page_blocks(sc) \in Nat
  <2> DEFINE n == page_block_size(sc)
  <2>1. n \in Nat \ {0} /\ PAGEDATASIZE \in Nat
    BY <1>3, SizeAssumption
  <2>2. page_blocks(sc) = PAGEDATASIZE \div n
    BY DEF page_blocks
  <2> HIDE DEF n
  <2>3. PAGEDATASIZE \div n \in Int /\ PAGEDATASIZE = n * (PAGEDATASIZE \div n) + (PAGEDATASIZE % n)
        /\ PAGEDATASIZE % n \in 0 .. n - 1
    BY <2>1, DivMod
  <2>4. ~(PAGEDATASIZE \div n < 0)
    <3> DEFINE q == PAGEDATASIZE \div n
    <3>1. SUFFICES ASSUME q < 0 PROVE FALSE
      OBVIOUS
    <3>2. n * q + n <= n * 0
      BY ONLY <2>1, <2>3, <3>1, NextRow, 0 \in Int
    <3>3. n * 0 = 0 /\ n * q \in Int
      BY <2>1, <2>3
    <3> HIDE DEF q
    <3> QED BY <2>1, <2>3, <3>2, <3>3 DEF q
  <2> QED BY <2>2, <2>3, <2>4
<1> QED
  BY <1>1, <1>2, <1>3, <1>4

(* A page that is not full has a free block, and the lowest free bit of    *)
(* the bitmap is its lowest one.                                           *)
LEMMA FreeInPage ==
  ASSUME NEW m, GoodBitmap(m), NEW n \in Nat, n <= Bits * Bits,
         blocks_of(m) \subseteq 0 .. n - 1, Cardinality(blocks_of(m)) < n
  PROVE  /\ BlockAt(free_block(m), free_word(m), free_bit(m))
         /\ Lowest(free_block(m), (0 .. n - 1) \ blocks_of(m))
<1> DEFINE used == blocks_of(m)
<1>1. IsFiniteSet(0 .. n - 1) /\ Cardinality(0 .. n - 1) = n
  <2>1. n - 1 \in Int /\ 0 \in Int
    OBVIOUS
  <2>2. IsFiniteSet(0 .. n - 1) /\ Cardinality(0 .. n - 1) = IF 0 > n - 1 THEN 0 ELSE (n - 1) - 0 + 1
    BY ONLY <2>1, FS_Interval
  <2> QED BY <2>2
<1>2. PICK i \in 0 .. n - 1 : i \notin used
  <2>1. used # 0 .. n - 1
    BY <1>1
  <2> QED BY <2>1
<1>3. Bits * Bits \in Int
  BY BitsAssumption
<1>4. 0 .. n - 1 \subseteq Blocks /\ Blocks \in SUBSET Int
  BY <1>3 DEF Blocks
<1>5. Blocks \ used # {}
  BY <1>2, <1>4
<1>6. /\ BlockAt(free_block(m), free_word(m), free_bit(m))
      /\ Lowest(free_block(m), Blocks \ used)
  BY <1>5, FreeBlock
<1>7. free_block(m) \in 0 .. n - 1
  <2>1. free_block(m) \in Blocks /\ free_block(m) <= i
    BY <1>2, <1>4, <1>6 DEF Lowest
  <2> HIDE DEF used
  <2> QED BY <1>2, <1>3, <2>1 DEF Blocks
<1>8. Lowest(free_block(m), (0 .. n - 1) \ used)
  BY <1>4, <1>6, <1>7 DEF Lowest
<1> QED
  BY <1>6, <1>8

LEMMA UsedFinite ==
  ASSUME NEW m
  PROVE  /\ blocks_of(m) \in SUBSET Blocks /\ IsFiniteSet(blocks_of(m))
         /\ Blocks \in SUBSET Int
<1>1. Bits * Bits \in Int
  BY BitsAssumption
<1>2. IsFiniteSet(Blocks)
  <2>1. Bits * Bits - 1 \in Int /\ 0 \in Int
    BY <1>1
  <2> QED BY ONLY <2>1, FS_Interval DEF Blocks
<1>3. blocks_of(m) \in SUBSET Blocks /\ Blocks \in SUBSET Int
  BY <1>1 DEF blocks_of, Blocks
<1> QED
  BY <1>2, <1>3, FS_Subset

LEMMA InPage ==
  ASSUME ClassesFit, IInv, paged
  PROVE  /\ request \in Nat /\ page_blocks(sc) \in Nat /\ page_blocks(sc) <= Bits * Bits
         /\ blocks_of(bitmap) \subseteq 0 .. page_blocks(sc) - 1
<1>1. request \in Nat
  BY RequestAssumption DEF paged
<1> QED
  BY <1>1, ChosenClass DEF IInv, Filled, paged

LEMMA MallocBlock ==
  ASSUME ClassesFit, IInv, malloc_block
  PROVE  /\ Filled'
         /\ blocks_of(bitmap') =
              blocks_of(bitmap) \cup {Min((0 .. page_blocks(sc) - 1) \ blocks_of(bitmap))}
<1> DEFINE used == blocks_of(bitmap)
           n == page_blocks(sc)
           i == free_block(bitmap)
<1>1. /\ request \in Nat /\ n \in Nat /\ n <= Bits * Bits /\ used \subseteq 0 .. n - 1
      /\ GoodBitmap(bitmap) /\ nr_used = Cardinality(used)
  BY InPage DEF IInv, Filled, malloc_block
<1>2. Cardinality(used) < n
  BY <1>1 DEF malloc_block
<1>3. /\ BlockAt(i, free_word(bitmap), free_bit(bitmap))
      /\ Lowest(i, (0 .. n - 1) \ used)
  <2> HIDE DEF n
  <2> QED BY <1>1, <1>2, FreeInPage
<1>4. i = Min((0 .. n - 1) \ used)
  <2>1. (0 .. n - 1) \ used \in SUBSET Int
    OBVIOUS
  <2> HIDE DEF n, i, used
  <2> QED BY <1>3, <2>1, LowestIsMin
<1>5. bitmap' = __set_bit(bitmap, free_word(bitmap), free_bit(bitmap))
  BY DEF malloc_block, get_free_page_block
<1>6. GoodBitmap(bitmap')
  BY <1>1, <1>3, <1>5, SetBit DEF BlockAt
<1>7. blocks_of(bitmap') = used \cup {i}
  BY <1>1, <1>3, <1>5, BlockSet
<1>8. i \in 0 .. n - 1 /\ i \notin used
  BY <1>3 DEF Lowest
<1>9. nr_used' = Cardinality(blocks_of(bitmap'))
  <2>1. Cardinality(used \cup {i}) = Cardinality(used) + 1
    BY <1>8, UsedFinite, FS_AddElement
  <2> QED BY <1>1, <1>7, <2>1 DEF malloc_block
<1>10. Filled'
  BY <1>1, <1>6, <1>7, <1>8, <1>9 DEF Filled, malloc_block
<1> QED
  BY <1>4, <1>7, <1>10

(* A used block becomes free.                                              *)
LEMMA FreeBit ==
  ASSUME ClassesFit, IInv, paged, NEW i \in blocks_of(bitmap),
         bitmap' = page_clear_used_bit(bitmap, i), nr_used' = nr_used - 1,
         UNCHANGED <<request, sc>>
  PROVE  Filled' /\ blocks_of(bitmap') = blocks_of(bitmap) \ {i}
<1>1. /\ request \in Nat /\ blocks_of(bitmap) \subseteq 0 .. page_blocks(sc) - 1
      /\ GoodBitmap(bitmap) /\ nr_used = Cardinality(blocks_of(bitmap))
  BY InPage DEF IInv, Filled
<1>2. PICK w, b : BlockAt(i, w, b) /\ w = i \div Bits /\ b = i % Bits
  BY UsedFinite, PlaceOf
<1>3. bitmap' = __clear_bit(bitmap, w, b)
  BY <1>2 DEF page_clear_used_bit
<1>4. GoodBitmap(bitmap')
  <2>1. w \in Bit /\ b \in Bit /\ b \in bitmap.words[w]
    BY <1>2, UsedBlock DEF BlockAt
  <2> QED BY <1>1, <1>3, <2>1, ClearBit
<1>5. blocks_of(bitmap') = blocks_of(bitmap) \ {i}
  BY <1>1, <1>2, <1>3, BlockCleared
<1>6. nr_used' = Cardinality(blocks_of(bitmap'))
  <2>1. Cardinality(blocks_of(bitmap) \ {i}) = Cardinality(blocks_of(bitmap)) - 1
    BY UsedFinite, FS_RemoveElement
  <2> QED BY <1>1, <1>5, <2>1
<1>7. Filled'
  BY <1>1, <1>4, <1>5, <1>6 DEF Filled
<1> QED
  BY <1>5, <1>7

LEMMA MoveBlock ==
  ASSUME ClassesFit, IInv, move_used_page_block
  PROVE  Filled' /\ blocks_of(bitmap') = blocks_of(bitmap) \ {Min(blocks_of(bitmap))}
<1> DEFINE i == find_used_page_block(bitmap)
<1>1. /\ paged /\ nr_used > 0 /\ bitmap' = page_clear_used_bit(bitmap, i)
      /\ nr_used' = nr_used - 1 /\ UNCHANGED <<request, sc>>
  BY DEF move_used_page_block
<1>2. GoodBitmap(bitmap) /\ nr_used = Cardinality(blocks_of(bitmap))
  BY DEF IInv, Filled
<1>3. blocks_of(bitmap) # {}
  BY <1>1, <1>2, FS_EmptySet
<1>4. Lowest(i, blocks_of(bitmap))
  BY <1>2, <1>3, FoundBlock
<1>5. i = Min(blocks_of(bitmap))
  <2>1. blocks_of(bitmap) \in SUBSET Int
    BY UsedFinite
  <2> HIDE DEF i
  <2> QED BY <1>4, <2>1, LowestIsMin
<1>6. i \in blocks_of(bitmap)
  BY <1>4 DEF Lowest
<1>7. Filled' /\ blocks_of(bitmap') = blocks_of(bitmap) \ {i}
  <2> HIDE DEF i
  <2> QED BY <1>1, <1>6, FreeBit
<1> QED
  BY <1>5, <1>7

LEMMA InitInv == Init => IInv
<1> SUFFICES ASSUME Init PROVE IInv
  OBVIOUS
<1>1. /\ incremental_memcpy \in Increments /\ request = -1 /\ nr_used = 0
      /\ bitmap = empty_bitmap
  BY DEF Init
<1>2. \A w \in Bit : empty_bitmap.words[w] = {}
  BY DEF empty_bitmap
<1>3. 0 \in Bit
  BY BitsAssumption DEF Bit
<1>4. empty_bitmap \in BitmapType
  BY DEF empty_bitmap, BitmapType
<1>5. levels_agree(empty_bitmap)
  <2>1. empty_bitmap.any = {} /\ empty_bitmap.full = {}
    BY DEF empty_bitmap
  <2> QED BY <1>2, <1>3, <2>1 DEF levels_agree
<1>6. blocks_of(empty_bitmap) = {}
  <2>1. SUFFICES ASSUME NEW i \in blocks_of(empty_bitmap) PROVE FALSE
    OBVIOUS
  <2>2. i \in Blocks
    BY UsedFinite
  <2>3. PICK w, b : BlockAt(i, w, b)
    BY <2>2, PlaceOf
  <2>4. w \in Bit /\ b \in empty_bitmap.words[w]
    BY <2>1, <2>3, UsedBlock DEF BlockAt
  <2> QED BY <1>2, <2>4
<1>7. Cardinality(blocks_of(empty_bitmap)) = 0
  BY <1>6, FS_EmptySet
<1>8. Filled
  BY <1>1, <1>4, <1>5, <1>6, <1>7 DEF Filled, GoodBitmap
<1> QED
  BY <1>1, <1>8 DEF IInv, Chosen

LEMMA NextInv == ASSUME ClassesFit PROVE IInv /\ [Next]_vars => IInv'
<1> SUFFICES ASSUME IInv, [Next]_vars PROVE IInv'
  OBVIOUS
<1>1. ASSUME NEW n \in Requests, get_size_class(n) PROVE IInv'
  <2>1. n \in Nat
    BY RequestAssumption
  <2>2. blocks_of(bitmap) = {}
    BY <1>1 DEF get_size_class, IInv, Filled
  <2>3. Filled'
    BY <1>1, <2>1, <2>2 DEF get_size_class, IInv, Filled
  <2>4. Chosen'
    BY <1>1, <2>1 DEF get_size_class, IInv, Chosen
  <2> QED BY <2>3, <2>4 DEF IInv
<1>2. CASE malloc_block
  <2>1. Chosen'
    BY <1>2 DEF malloc_block, IInv, Chosen
  <2> QED BY <1>2, <2>1, MallocBlock DEF IInv
<1>3. ASSUME NEW i, free_used_page_block(i) PROVE IInv'
  <2>1. Chosen'
    BY <1>3 DEF free_used_page_block, IInv, Chosen
  <2>2. Filled'
    BY <1>3, FreeBit DEF free_used_page_block
  <2> QED BY <2>1, <2>2 DEF IInv
<1>4. CASE move_used_page_block
  <2>1. Chosen'
    BY <1>4 DEF move_used_page_block, IInv, Chosen
  <2> QED BY <1>4, <2>1, MoveBlock DEF IInv
<1>5. CASE UNCHANGED vars
  BY <1>5 DEF vars, IInv, Chosen, Filled
<1> QED
  BY <1>1, <1>2, <1>3, <1>4, <1>5 DEF Next

LEMMA Invariant == ASSUME ClassesFit PROVE Spec => []IInv
BY InitInv, NextInv, PTL DEF Spec

LEMMA SafeBitmap == ASSUME ClassesFit PROVE IInv => LevelsAgree
<1> SUFFICES ASSUME IInv PROVE LevelsAgree
  OBVIOUS
<1>1. GoodBitmap(bitmap)
  BY DEF IInv, Filled
<1>2. bitmap \in BitmapType /\ levels_agree(bitmap)
  BY <1>1 DEF GoodBitmap
<1>3. \A w \in Bit : _ffs_unoptimized(bitmap.words[w]) = _ffs(bitmap.words[w])
  BY <1>2, BitmapFields, LowestBit
<1> QED
  BY <1>2, <1>3 DEF LevelsAgree, IInv, Filled

LEMMA SafeBlock == ASSUME ClassesFit PROVE IInv => BlockHoldsRequest
<1> SUFFICES ASSUME IInv PROVE BlockHoldsRequest
  OBVIOUS
<1> DEFINE size == padded_size(request, incremental_memcpy)
<1>1. tables_fit
  BY Rounds, SizeAssumption DEF tables_fit, ClassesFit, LastRound
<1>2. \A c \in Class : page_block_size(c) > 0
  BY ClassOrder
<1>3. ASSUME request >= 0, size # LARGESTSC, size <= PAGEDATASIZE
      PROVE  /\ size <= page_block_size(sc)
             /\ \A c \in Class : page_block_size(c) > size => page_block_size(sc) <= page_block_size(c)
  <2>1. Chosen
    BY DEF IInv
  <2>2. IsClassOf(size, sc) /\ request \in Nat /\ page_block_size(sc) \in Nat
    BY <1>3, <2>1, ChosenClass
  <2>3. size \in Nat
    BY <2>1, <2>2, Padded DEF Chosen
  <2> HIDE DEF size
  <2>4. size <= page_block_size(sc)
    <3>1. LARGESTSC \in Nat /\ PAGEDATASIZE \in Nat
      BY SizeAssumption
    <3> QED BY <1>3, <2>2, <2>3, <3>1 DEF IsClassOf
  <2> QED BY <1>3, <2>2, <2>4 DEF IsClassOf
<1> QED
  BY <1>1, <1>2, <1>3 DEF BlockHoldsRequest, Class

LEMMA SafeFields == ASSUME ClassesFit PROVE IInv => FieldsApart
<1> SUFFICES ASSUME IInv PROVE FieldsApart
  OBVIOUS
<1> DEFINE inc == incremental_memcpy
           size == padded_size(request, inc)
           b == page_block_size(sc)
<1>1. SUFFICES ASSUME request >= 0, size # LARGESTSC, size <= PAGEDATASIZE
               PROVE  request <= IF inc # 0 /\ b > inc THEN b - 2 * 4 ELSE b - 4
  BY DEF FieldsApart, has_partition_field, partition_field_at, abstract_address_at, WORD
<1>2. Chosen
  BY DEF IInv
<1>3. request \in Nat /\ b \in Nat
  BY <1>1, <1>2, ChosenClass
<1>4. /\ inc \in Nat /\ inc % 4 = 0
      /\ size = IF inc # 0 /\ request + 4 > inc THEN request + 8 ELSE request + 4
  BY <1>2, <1>3, Padded DEF Chosen
<1>5. b % 4 = 0
  <2>1. sc \in Class
    BY <1>1, <1>2, ChosenClass DEF IsClassOf
  <2> QED BY <2>1, ClassOrder
<1>6. size <= b
  BY <1>1, SafeBlock DEF BlockHoldsRequest
<1> HIDE DEF inc, size, b
<1>7. CASE inc # 0 /\ request + 4 > inc
  BY <1>3, <1>4, <1>6, <1>7
<1>8. CASE ~(inc # 0 /\ request + 4 > inc)
  <2>1. size = request + 4
    BY <1>4, <1>8
  <2>2. CASE inc # 0 /\ b > inc
    <3>1. b >= inc + 4
      BY ONLY <1>3, <1>4, <1>5, <2>2
    <3> QED BY <1>3, <1>4, <1>8, <2>2, <3>1
  <2> QED BY <1>3, <1>6, <2>1, <2>2
<1> QED
  BY <1>7, <1>8

-----------------------------------------------------------------------------
(* The bitmap of a page is the set of its used blocks, as __set_bit and    *)
(* __clear_bit leave it: both upper levels are right, nr_used_page_blocks  *)
(* counts its bits, all of them inside the page, and the two ways to find  *)
(* a bit agree.                                                            *)
THEOREM BitmapIsRight == ASSUME ClassesFit PROVE Spec => []LevelsAgree
BY Invariant, SafeBitmap, PTL

(* get_free_page_block takes the lowest free block of the page, and a      *)
(* compaction moves the object of its lowest used block.                   *)
THEOREM BitmapActsOnASet == ASSUME ClassesFit PROVE Spec => ActsOnASet
<1>1. IInv /\ [Next]_vars =>
        [LET used == blocks_of(bitmap)
         IN  /\ malloc_block => blocks_of(bitmap') = used \cup {Min((0 .. page_blocks(sc) - 1) \ used)}
             /\ move_used_page_block => blocks_of(bitmap') = used \ {Min(used)}]_vars
  BY MallocBlock, MoveBlock
<1> QED
  BY <1>1, Invariant, PTL DEF Spec, ActsOnASet

(* get_size_class gives every request the smallest block with room for it  *)
(* and one byte more, whatever the sizes in cf.h, if the tables they make  *)
(* fit.                                                                    *)
THEOREM RequestsFit == ASSUME ClassesFit PROVE Spec => []BlockHoldsRequest
BY Invariant, SafeBlock, PTL

(* The object, the partition field, if compactions look for one, and the   *)
(* abstract address have words of the block of their own.                  *)
THEOREM FieldsDoNotOverlap == ASSUME ClassesFit PROVE Spec => []FieldsApart
BY Invariant, SafeFields, PTL
=============================================================================
