----------------------------- MODULE BloomFilter -----------------------------
(***************************************************************************)
(* Bloom filters (bloom_filter.cpp) and the form they are sent in.         *)
(***************************************************************************)
EXTENDS Integers, FiniteSets, FiniteSetsExt

CONSTANTS Digest,            \* [item -> [i -> Nat]], the i-th 8-byte slot of its SHA3-512
          MinSize,           \* bits of the smallest filter, 64 in the code
          BitsPerItem,       \* -ln(falsePositiveRate) / ln(2)^2, 9.6 in the code
          DefaultHashCount   \* what deserialize assumes, 7 in the code

ASSUME FilterAssumption ==
    MinSize \in Nat \ {0} /\ BitsPerItem \in Nat /\ DefaultHashCount \in Nat

ByteBits == 8

OptimalSize(expectedItems) ==
    IF expectedItems = 0 THEN MinSize ELSE Max({expectedItems * BitsPerItem, MinSize})

NewFilter(expectedItems, hashCount) ==
    [bits |-> {}, hashCount |-> hashCount, size |-> OptimalSize(expectedItems)]

Hashes(filter, item) == {Digest[item][i] % filter.size : i \in 0..(filter.hashCount - 1)}

AddItem(filter, item) == [filter EXCEPT !.bits = @ \cup Hashes(filter, item)]

MightContain(filter, item) == Hashes(filter, item) \subseteq filter.bits

PackedBytes(size) == (size + ByteBits - 1) \div ByteBits

\* A byte is the set of its bits that are 1.
Serialize(filter) ==
    [size |-> filter.size,
     bytes |-> [k \in 0..(PackedBytes(filter.size) - 1) |->
                   {bit \in 0..(ByteBits - 1) : k * ByteBits + bit \in filter.bits}]]

\* Mutant: the bits of a byte are read from the other end.
DeserializeMsbFirst(data) ==
    [bits |-> {i \in 0..(data.size - 1) : ByteBits - 1 - (i % ByteBits) \in data.bytes[i \div ByteBits]},
     hashCount |-> DefaultHashCount, size |-> data.size]

\* The number of hashes is not sent.
Deserialize(data) ==
    [bits |-> {i \in 0..(data.size - 1) : i % ByteBits \in data.bytes[i \div ByteBits]},
     hashCount |-> DefaultHashCount, size |-> data.size]
=============================================================================
