----------------------------- MODULE BitVector -----------------------------
(***************************************************************************)
(* binar's BitVec: a length and an AlignedBitVec, which is a sequence of   *)
(* blocks of words.  Nothing in the types keeps the bits past the length   *)
(* clear, yet weight, parity, is_zero, equality and hashing read whole     *)
(* blocks; so every operation must leave them clear itself.                *)
(*                                                                         *)
(* A word is the set of its bits that are 1.  "ideal" is what the vector   *)
(* stands for according to its documentation; "status" says how far that   *)
(* can be relied on after extract and selected_from, which do not clear    *)
(* or do not pack.                                                         *)
(***************************************************************************)
EXTENDS Naturals, Sequences, FiniteSets, SequencesExt

CONSTANTS WordBits,     \* bits of a word (64)
          BlockWords,   \* words of a block (8)
          MaxLength     \* longest vector explored

VARIABLES vec,      \* [words: sequence of sets of bits, length]
          ideal,    \* the set of indices that should be 1
          status    \* "exact", "padded", "selected" or "lost"

vars == <<vec, ideal, status>>

BlockBits == WordBits * BlockWords
Ceil(n, d) == (n + d - 1) \div d
BlockCount(n) == n \div BlockBits + IF n % BlockBits = 0 THEN 0 ELSE 1
NoBits(n) == [k \in 1..BlockCount(n) * BlockWords |-> {}]
Xor(a, b) == (a \ b) \union (b \ a)

Capacity(words) == Len(words) * WordBits
BitsOf(words) == {i \in 0..Capacity(words) - 1 : (i % WordBits) \in words[i \div WordBits + 1]}
WordsOf(bits, n) == [k \in 1..BlockCount(n) * BlockWords |-> {b \in 0..WordBits - 1 : (k - 1) * WordBits + b \in bits}]
Assigned(words, i, to) == [words EXCEPT ![i \div WordBits + 1] = IF to THEN @ \union {i % WordBits} ELSE @ \ {i % WordBits}]

Bits == BitsOf(vec.words)
Below(bits) == {i \in bits : i < vec.length}

----------------------------------------------------------------------------
\* The queries: all but index and len go to the aligned vector.
Weight == Cardinality(Bits)
IsZero == Weight = 0
Odd == Weight % 2 = 1
\* support().take(bit_len): the first "length" set bits, wherever they are.
Support == {i \in Bits : Cardinality({j \in Bits : j < i}) < vec.length}
Equal(words, n) == n = vec.length /\ words = vec.words

----------------------------------------------------------------------------
\* Word shifts towards bit 0 by whole words, and by words and bits.
ShiftAligned(words, shift) == [k \in DOMAIN words |-> IF k + shift \in DOMAIN words THEN words[k + shift] ELSE {}]
Low(word, n) == {b \in 0..WordBits - 1 : b + n \in word}
High(word, n) == {b \in 0..WordBits - 1 : b >= n /\ b - n \in word}
\* Mutant: no bits are carried from the next word.
ShiftWithoutCarry(words, shift, bits) ==
    [k \in DOMAIN words |-> IF k + shift \notin DOMAIN words THEN {} ELSE Low(words[k + shift], bits)]
ShiftUnaligned(words, shift, bits) ==
    [k \in DOMAIN words |->
        IF k + shift \notin DOMAIN words THEN {}
        ELSE Low(words[k + shift], bits)
               \union IF k + shift = Len(words) THEN {} ELSE High(words[k + shift + 1], WordBits - bits)]
ShiftLeft(words, count) ==
    IF count = 0 \/ Len(words) = 0 THEN words
    ELSE IF count >= Capacity(words) THEN [k \in DOMAIN words |-> {}]
    ELSE IF count % WordBits = 0 THEN ShiftAligned(words, count \div WordBits)
    ELSE ShiftUnaligned(words, count \div WordBits, count % WordBits)

\* AlignedBitVec::extract copies whole blocks and shifts; nothing is cut off at "to".
Extracted(words, from, to) ==
    LET last == Ceil(to, BlockBits) * BlockWords
    IN  ShiftLeft(SubSeq(words, (from \div BlockBits) * BlockWords + 1, IF last < Len(words) THEN last ELSE Len(words)),
                  from % BlockBits)

\* AlignedBitVec::resize compares with the capacity, not with the length.
Resized(words, n) ==
    IF n = Capacity(words) THEN words
    ELSE IF n > Capacity(words) THEN words \o [k \in 1..BlockCount(n) * BlockWords - Len(words) |-> {}]
    ELSE WordsOf({i \in BitsOf(words) : i < n}, n)

----------------------------------------------------------------------------
Lengths == 0..MaxLength
Operands == SUBSET (0..vec.length - 1)

Become(words, n, bits) == vec' = [words |-> words, length |-> n] /\ ideal' = bits
\* Operations in place keep what is known; nothing is known after selected_from.
Keep == status' = IF status = "selected" THEN "lost" ELSE status

Init == vec = [words |-> <<>>, length |-> 0] /\ ideal = {} /\ status = "exact"

Zeros(n) == Become(NoBits(n), n, {}) /\ status' = "exact"
\* BitVec::ones clears the bits past the length that AlignedBitVec::ones set.
Ones(n) == /\ Become([k \in DOMAIN NoBits(n) |-> {b \in 0..WordBits - 1 : (k - 1) * WordBits + b < n}], n, 0..n - 1)
           /\ status' = "exact"
FromIter(n, bits) == Become(WordsOf(bits, n), n, bits) /\ status' = "exact"

AssignIndex(i, to) ==
    /\ i < vec.length
    /\ Become(Assigned(vec.words, i, to), vec.length, IF to THEN ideal \union {i} ELSE ideal \ {i})
    /\ Keep
NegateIndex(i) ==
    /\ i < vec.length
    /\ Become(Assigned(vec.words, i, i \notin Bits), vec.length, Xor(ideal, {i}))
    /\ Keep
ClearBits == Become([k \in DOMAIN vec.words |-> {}], vec.length, {}) /\ Keep

\* Operations with a vector of the same length, whose padding is clear.
Pairwise(Word(_, _), bits, result) ==
    LET other == WordsOf(bits, vec.length)
        Other(k) == IF k \in DOMAIN other THEN other[k] ELSE {}
    IN  Become([k \in DOMAIN vec.words |-> Word(vec.words[k], Other(k))], vec.length, result) /\ Keep
XorAssign(bits) == Pairwise(Xor, bits, Xor(ideal, bits))
AndAssign(bits) == Pairwise(LAMBDA a, b : a \intersect b, bits, ideal \intersect bits)
OrAssign(bits) == Pairwise(LAMBDA a, b : a \union b, bits, ideal \union bits)

Resize(n) ==
    /\ Become(Resized(vec.words, n), n, {i \in ideal : i < n})
    /\ status' = IF status = "padded" THEN (IF n <= vec.length THEN "padded" ELSE "lost")
                 ELSE IF status = "selected" THEN "lost" ELSE status

Extract(from, to) ==
    /\ from <= to /\ to <= vec.length
    /\ Become(Extracted(vec.words, from, to), to - from, {i \in 0..to - from - 1 : i + from \in ideal})
    /\ status' = IF status \in {"selected", "lost"} THEN "lost"
                 ELSE IF to % BlockBits = 0 /\ from < BlockBits /\ status = "exact" THEN status ELSE "padded"

\* AlignedBitVec::selected_from writes each selected bit at its own index: it
\* panics when that is outside the capacity of the result.
SelectedFrom(indices) ==
    LET n == Len(indices)
        here == {k \in 1..n : indices[k] \in Bits}
    IN  /\ \A k \in 1..n : indices[k] < vec.length /\ indices[k] < BlockCount(n) * BlockBits
        /\ Become(WordsOf({indices[k] : k \in here}, n), n, {k - 1 : k \in {k \in 1..n : indices[k] \in ideal}})
        /\ status' = IF status = "exact" THEN "selected" ELSE "lost"

Next ==
    \/ \E n \in Lengths : Zeros(n) \/ Ones(n) \/ Resize(n)
    \/ \E n \in Lengths : \E bits \in SUBSET (0..n - 1) : FromIter(n, bits)
    \/ \E i \in 0..vec.length - 1 : NegateIndex(i) \/ \E to \in BOOLEAN : AssignIndex(i, to)
    \/ ClearBits
    \/ \E bits \in Operands : XorAssign(bits) \/ AndAssign(bits) \/ OrAssign(bits)
    \/ \E from, to \in Lengths : Extract(from, to)
    \/ \E indices \in {SetToSortSeq(s, <) : s \in Operands} : SelectedFrom(indices)

Spec == Init /\ [][Next]_vars
----------------------------------------------------------------------------
\* As long as the vector came from constructors and operations in place, every
\* query that reads whole blocks answers for the vector: no operation leaves a
\* bit past the length, and the number of blocks is that of the length, on
\* which equality and hashing depend.
QueriesExact ==
    status = "exact" =>
        /\ Support = ideal /\ Weight = Cardinality(ideal) /\ Odd = (Cardinality(ideal) % 2 = 1) /\ IsZero = (ideal = {})
        /\ \A bits \in SUBSET (0..vec.length - 1) : Equal(WordsOf(bits, vec.length), vec.length) = (bits = ideal)

\* After extract the bits below the length are the right ones, through every
\* later operation that does not lengthen the vector.
IndexExact == status \in {"exact", "padded"} => Below(Bits) = ideal

============================================================================
