----------------------------- MODULE BlockStates -----------------------------
(***************************************************************************)
(* testing/litematic.py, the block grid: palette indices packed low bit    *)
(* first into words of WordBits bits, which NBT stores as signed longs; an *)
(* entry may straddle two words.  _unpack_block_states reads them one by   *)
(* one.  The file is what Litematica writes: each entry at bit index*width.*)
(***************************************************************************)
EXTENDS Integers, Sequences

CONSTANTS
    WordBits,       \* bits of a word: 64 in the code
    MaxPalette,     \* bound: size of a palette
    Count           \* bound: cells of the grid

\* 1 << n.
TwoTo[n \in Nat] == IF n = 0 THEN 1 ELSE 2 * TwoTo[n - 1]

\* Of the constants; an instance assumes it.  A word can tell all entries of a
\* palette apart, which is what keeps an entry from straddling three words.
BoundsAssumption ==
    /\ WordBits \in Nat /\ WordBits >= 2
    /\ MaxPalette \in Nat /\ MaxPalette <= TwoTo[WordBits]
    /\ Count \in Nat

VARIABLES
    palette,    \* the palette's size
    entries,    \* the indices Litematica packed
    long_array, \* "BlockStates" as read from NBT
    result      \* the indices read back so far

vars == <<palette, entries, long_array, result>>

TypeOK ==
    /\ palette \in 1..MaxPalette
    /\ entries \in [0..(Count - 1) -> 0..(palette - 1)]
    /\ \A w \in DOMAIN long_array : long_array[w] \in -(TwoTo[WordBits - 1])..(TwoTo[WordBits - 1] - 1)
    /\ Len(result) <= Count
    /\ \A i \in DOMAIN result : result[i] \in 0..(palette - 1)

\* bit_length of a natural number.
BitLength(n) == CHOOSE k \in 0..n : TwoTo[k] > n /\ (k = 0 \/ TwoTo[k - 1] <= n)
Larger(a, b) == IF a >= b THEN a ELSE b

-----------------------------------------------------------------------------
(* External: what Litematica writes.                                       *)

\* LitematicaBlockStateContainer: at least 2 bits, never fewer.
Width == Larger(2, BitLength(palette - 1))
Words == (Count * Width + WordBits - 1) \div WordBits

\* Bit p of the packed array.
PackedBit(p) ==
    LET i == p \div Width IN
    IF i >= Count THEN 0 ELSE (entries[i] \div TwoTo[p % Width]) % 2

Unsigned(w) ==
    LET upTo[k \in Nat] ==
            IF k = 0 THEN 0
            ELSE upTo[k - 1] + PackedBit(w * WordBits + k - 1) * TwoTo[k - 1]
    IN  upTo[WordBits]

Signed(v) == IF v >= TwoTo[WordBits - 1] THEN v - TwoTo[WordBits] ELSE v

Init ==
    /\ palette \in 1..MaxPalette
    /\ entries \in [0..(Count - 1) -> 0..(palette - 1)]
    /\ long_array = [w \in 0..(Words - 1) |-> Signed(Unsigned(w))]
    /\ result = <<>>

-----------------------------------------------------------------------------
(* _bits_per_entry and _unpack_block_states.                               *)

\* Mutant: ceil(log2(n)) alone, which gives a 2-entry palette 1 bit.
BitsPerEntryNaive(palette_size) == Larger(1, BitLength(palette_size - 1))
BitsPerEntry(palette_size) == Larger(2, BitLength(palette_size - 1))

word(w) == long_array[w] % TwoTo[WordBits]

Masked(value, bits) == value % TwoTo[bits]

ReadEntry ==
    LET index == Len(result)
        bits == BitsPerEntry(palette)
        start_offset == index * bits
        start_word == start_offset \div WordBits
        end_word == ((index + 1) * bits - 1) \div WordBits
        start_bit == start_offset % WordBits
        low == word(start_word) \div TwoTo[start_bit]
        \* The two parts share no bit: their bitwise or is their sum.
        high == word(end_word) * TwoTo[WordBits - start_bit]
        value == IF start_word = end_word THEN low ELSE low + high
    IN
    /\ index < Count
    /\ result' = Append(result, Masked(value, bits))
    /\ UNCHANGED <<palette, entries, long_array>>

Next == ReadEntry

Spec == Init /\ [][Next]_vars

-----------------------------------------------------------------------------

\* Every palette index is read back as it was packed, straddling entries, the
\* sign bit of a word and the smallest palettes included.
ReadsBack == \A i \in DOMAIN result : result[i] = entries[i - 1]
=============================================================================
