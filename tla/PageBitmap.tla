----------------------------- MODULE PageBitmap -----------------------------
(***************************************************************************)
(* used_page_block_bitmap of struct page: a bit for every block, in words, *)
(* over which word 0 says which words have a bit set and word 1 which have *)
(* all of them set.  A word is the set of its bits that are 1.             *)
(***************************************************************************)
EXTENDS Integers, FiniteSets, FiniteSetsExt

CONSTANT Bits  \* bits of a word: 32, and no more for _ffs

ASSUME BitsAssumption == Bits \in 1 .. 32

Bit == 0 .. Bits - 1

BitmapType == [any : SUBSET Bit, full : SUBSET Bit, words : [Bit -> SUBSET Bit]]
empty_bitmap == [any |-> {}, full |-> {}, words |-> [w \in Bit |-> {}]]

(* The bsf instruction; and _ffs of other processors, which looks for a    *)
(* bit among n and goes n on if there is none.                             *)
_ffs(x) == IF x = {} THEN -1 ELSE Min(x)
skip(x, r, n) == IF x \cap (r .. r + n - 1) = {} THEN r + n ELSE r
_ffs_unoptimized(x) ==
  IF x = {} THEN -1
  ELSE skip(x, skip(x, skip(x, skip(x, skip(x, 0, 16), 8), 4), 2), 1)

(* Fault: the bit of a word that is no longer full stays set. *)
__clear_bit_stays_full(m, w, b) ==
  LET left == m.words[w] \ {b}
  IN  [any   |-> IF left = {} THEN m.any \ {w} ELSE m.any,
       full  |-> m.full,
       words |-> [m.words EXCEPT ![w] = left]]
__clear_bit(m, w, b) ==
  LET left == m.words[w] \ {b}
  IN  [any   |-> IF left = {} THEN m.any \ {w} ELSE m.any,
       full  |-> m.full \ {w},
       words |-> [m.words EXCEPT ![w] = left]]

(* Fault: word 1 is never told. *)
__set_bit_never_full(m, w, b) ==
  [m EXCEPT !.any = @ \cup {w}, !.words[w] = @ \cup {b}]
__set_bit(m, w, b) ==
  LET more == m.words[w] \cup {b}
  IN  [any   |-> m.any \cup {w},
       full  |-> IF more = Bit THEN m.full \cup {w} ELSE m.full,
       words |-> [m.words EXCEPT ![w] = more]]

page_clear_used_bit(m, i) == __clear_bit(m, i \div Bits, i % Bits)

(* get_free_page_block: the block it returns and the bitmap it leaves.     *)
free_word(m) == _ffs(Bit \ m.full)
free_bit(m)  == _ffs(Bit \ m.words[free_word(m)])
free_block(m) == free_word(m) * Bits + free_bit(m)
get_free_page_block(m) == __set_bit(m, free_word(m), free_bit(m))

find_used_page_block(m) == _ffs(m.any) * Bits + _ffs(m.words[_ffs(m.any)])

(* The set of blocks a bitmap stands for. *)
blocks_of(m) == {i \in 0 .. Bits * Bits - 1 : i % Bits \in m.words[i \div Bits]}

(* Word 0 and word 1 tell the truth about the others. *)
levels_agree(m) ==
  /\ m.any = {w \in Bit : m.words[w] # {}}
  /\ m.full = {w \in Bit : m.words[w] = Bit}
=============================================================================
