------------------------------- MODULE Shamir -------------------------------
(***************************************************************************)
(* Secret sharing over GF(2^Bits) (shamir.cpp).  A secret is a sequence of *)
(* bits, as many as its hex digits have.                                   *)
(***************************************************************************)
EXTENDS Integers, Sequences, FiniteSets, FiniteSetsExt

CONSTANTS Bits, Primitive,  \* 8 and 29 by default, 3 and 3 in the runs
          PadTo             \* secrets are padded to a multiple of it, 128 in the code

VARIABLES secret, threshold, shares   \* shares: [id -> bits]

shamirVars == <<secret, threshold, shares>>

Size == 2^Bits
MaxShares == Size - 1

\* The operator ^ on numbers of Bits + 1 bits, bit by bit: adding in GF(2^Bits).
Xor(a, b) == MapThenSumSet(LAMBDA i : ((a \div 2^i + b \div 2^i) % 2) * 2^i, 0..Bits)

\* initTables.  The last round of the loop writes logs_[1] a second time.
Exps ==
    LET exp[i \in 0..(Size - 1)] ==
            IF i = 0 THEN 1
            ELSE LET x == 2 * exp[i - 1] IN IF x >= Size THEN Xor(x, Primitive) % Size ELSE x
    IN exp
Logs == [x \in 0..(Size - 1) |->
            IF x = 0 THEN 0 ELSE CHOOSE i \in 1..(Size - 1) : Exps[i] = x]

\* The polynomial with these coefficients at x, the constant one first.
Horner(x, coeffs) ==
    LET from[i \in 1..(Len(coeffs) + 1)] ==
            IF i > Len(coeffs) THEN 0
            ELSE IF from[i + 1] # 0 THEN Xor(Exps[(Logs[x] + Logs[from[i + 1]]) % MaxShares], coeffs[i])
            ELSE coeffs[i]
    IN from[1]

\* Interpolation at 0 of the points (x[i], y[i]).
Lagrange(x, y) ==
    LET n == Len(x)
        product(i) ==
            LET upTo[j \in 0..n] ==
                    IF j = 0 THEN Logs[y[i]]
                    ELSE IF j = i THEN upTo[j - 1]
                    ELSE (upTo[j - 1] + Logs[x[j]] - Logs[Xor(x[i], x[j])] + MaxShares) % MaxShares
            IN Exps[upTo[n]]
        sum[i \in 0..n] == IF i = 0 THEN 0 ELSE IF y[i] = 0 THEN sum[i - 1] ELSE Xor(sum[i - 1], product(i))
    IN sum[n]

Zeros(n) == [i \in 1..n |-> 0]

PadLeft(bits, multiple) == Zeros((multiple - (Len(bits) % multiple)) % multiple) \o bits

ToNumber(bits) ==
    LET upTo[i \in 0..Len(bits)] == IF i = 0 THEN 0 ELSE 2 * upTo[i - 1] + bits[i]
    IN upTo[Len(bits)]

ToBits(k) == [i \in 1..Bits |-> (k \div 2^(Bits - i)) % 2]

\* splitNumStringToIntArray: parts of Bits bits, from the right.
Split(bits) ==
    LET padded == PadLeft(bits, Bits)
        n == Len(padded) \div Bits
    IN [k \in 1..n |-> ToNumber(SubSeq(padded, (n - k) * Bits + 1, (n - k + 1) * Bits))]

\* The parts joined again, the last one first.
Join(parts) ==
    LET from[k \in 0..Len(parts)] == IF k = 0 THEN <<>> ELSE ToBits(parts[k]) \o from[k - 1]
    IN from[Len(parts)]

\* A 1 in front keeps the zeros the secret begins with.
Marked(bits) == PadLeft(<<1>> \o bits, PadTo)

Coefficients(part, randoms) == <<part>> \o randoms

\* share: a polynomial for every part; the share is padded to hex digits.
Share(bits, numShares, t, randoms) ==
    LET parts == Split(Marked(bits))
        value(id) == [k \in 1..Len(parts) |-> Horner(id, Coefficients(parts[k], randoms[k]))]
    IN /\ numShares \in 2..MaxShares /\ t \in 2..numShares
       /\ secret' = bits
       /\ threshold' = t
       /\ shares' = [id \in 1..numShares |-> PadLeft(Join(value(id)), 4)]

\* Mutant: the leading zeros go, and the mark stays.
UnmarkZerosOnly(bits) ==
    LET first == CHOOSE i \in 1..Len(bits) : bits[i] = 1 /\ \A j \in 1..(i - 1) : bits[j] = 0
    IN SubSeq(bits, first, Len(bits))

Unmark(bits) ==
    LET first == CHOOSE i \in 1..Len(bits) : bits[i] = 1 /\ \A j \in 1..(i - 1) : bits[j] = 0
    IN SubSeq(bits, first + 1, Len(bits))

\* combine, of a sequence of share ids; repeated ones are skipped.
Combine(ids) ==
    LET isNew(i) == \A j \in 1..(i - 1) : ids[j] # ids[i]
        x == LET keep[i \in 0..Len(ids)] ==
                     IF i = 0 THEN <<>> ELSE IF isNew(i) THEN Append(keep[i - 1], ids[i]) ELSE keep[i - 1]
             IN keep[Len(ids)]
        y == [i \in 1..Len(x) |-> Split(shares[x[i]])]
        value == Join([k \in 1..Len(y[1]) |-> Lagrange(x, [i \in 1..Len(x) |-> y[i][k]])])
    IN IF \A i \in 1..Len(value) : value[i] = 0 THEN Zeros(4) ELSE PadLeft(Unmark(value), 4)

ShamirInit == secret = <<>> /\ threshold = 0 /\ shares = [id \in {} |-> <<>>]

-----------------------------------------------------------------------------
(* Properties.                                                             *)

\* share, combine: any threshold of the shares, in any order, some given
\* twice, give back the secret with the zeros it begins with.
Reconstructs ==
    \A ids \in [1..(threshold + 1) -> DOMAIN shares] :
        Cardinality({ids[i] : i \in DOMAIN ids}) >= threshold /\ threshold > 0 => Combine(ids) = secret

\* share: one share fewer is compatible with every secret, part by part: for
\* every value some polynomial gives these shares.
RevealsNothing ==
    \A known \in {S \in SUBSET DOMAIN shares : Cardinality(S) = threshold - 1} :
        \A k \in 1..Len(Split(Marked(secret))) : \A value \in 0..MaxShares :
            \E randoms \in [1..(threshold - 1) -> 0..MaxShares] :
                \A id \in known : Horner(id, Coefficients(value, randoms)) = Split(shares[id])[k]
=============================================================================
