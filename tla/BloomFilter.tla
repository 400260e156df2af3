----------------------------- MODULE BloomFilter -----------------------------
(***************************************************************************)
(* BloomFilter (src/src/BloomFilter.cpp).  A filter is its bit count, its  *)
(* hash count and its words; a word is the set of its bits that are one.   *)
(* The FNV hash of a key is any pair of numbers, its upper and lower half. *)
(***************************************************************************)
EXTENDS Integers, Sequences

CONSTANTS
    BitsPerEntry,  \* bits for each expected entry
    HashCount,     \* positions for each key
    WordBits,      \* kBitsPerWord
    FirstHash,     \* the upper half of each key's hash
    SecondHash     \* the lower half

ASSUME BitsAssumption == BitsPerEntry \in Nat \ {0} /\ WordBits \in Nat \ {0}
ASSUME HashAssumption ==
    /\ HashCount \in Nat
    /\ DOMAIN FirstHash = DOMAIN SecondHash
    /\ \A k \in DOMAIN FirstHash : FirstHash[k] \in Nat /\ SecondHash[k] \in Nat

wordCountFor(bits) == (bits + WordBits - 1) \div WordBits

\* BloomFilter::forEntries, for the one false positive rate that is used.
forEntries(n) ==
    [bitCount |-> n * BitsPerEntry, hashCount |-> HashCount,
     words |-> [w \in 0..(wordCountFor(n * BitsPerEntry) - 1) |-> {}]]

getBitPosition(f, k, i) ==
    LET second == IF SecondHash[k] = 0 THEN 1 ELSE SecondHash[k]
    IN  (FirstHash[k] + i * second) % f.bitCount

Positions(f, k) == {getBitPosition(f, k, i) : i \in 0..(f.hashCount - 1)}

\* BloomFilter::add
Add(f, k) ==
    [f EXCEPT !.words = [w \in DOMAIN @ |->
        @[w] \cup {p % WordBits : p \in {q \in Positions(f, k) : q \div WordBits = w}}]]

mightContain(f, k) ==
    \A p \in Positions(f, k) : (p % WordBits) \in f.words[p \div WordBits]

\* The serialised filter, one element for each 64-bit number, and its size.
Serialize(f) ==
    <<f.bitCount, f.hashCount>> \o [i \in 1..wordCountFor(f.bitCount) |-> f.words[i - 1]]

\* fromBytes throws unless the size fits the bit count in the header.
AcceptsBytes(s) == Len(s) >= 2 /\ Len(s) = 2 + wordCountFor(s[1])

fromBytes(s) ==
    [bitCount |-> s[1], hashCount |-> s[2],
     words |-> [w \in 0..(wordCountFor(s[1]) - 1) |-> s[w + 3]]]

=============================================================================
