------------------------------ MODULE Paillier ------------------------------
(***************************************************************************)
(* Paillier's encryption (paillier.cpp) on small numbers: how the primes   *)
(* are found, the keys made from them, and a ciphertext that is added to   *)
(* and multiplied.  Every byte vector stands for its number.               *)
(***************************************************************************)
EXTENDS Integers, FiniteSets, FiniteSetsExt

CONSTANTS PrimePairs,   \* the primes a key may be made from
          Candidates,   \* the odd numbers that are tried as primes
          Messages,     \* the numbers that are encrypted
          Drawn,        \* the random numbers encrypt may draw
          Factors       \* the k of multiply

VARIABLES keys,         \* n, lambda and mu; g is n + 1
          cipher,       \* a ciphertext
          plain,        \* what it should decrypt to
          candidate, accepted   \* the last number tried, and whether it passed

paillierVars == <<keys, cipher, plain, candidate, accepted>>

ModPow(b, e, m) ==
    LET pow[k \in 0..e] == IF k = 0 THEN 1 % m
                           ELSE IF k % 2 = 0 THEN LET half == pow[k \div 2] IN (half * half) % m
                           ELSE (pow[k - 1] * b) % m
    IN pow[e]

Gcd(a, b) == Max({d \in 1..a : a % d = 0 /\ b % d = 0})

ModInverse(a, m) == CHOOSE x \in 0..(m - 1) : (a * x) % m = 1 % m

-----------------------------------------------------------------------------
SmallPrimes == {2, 3, 5, 7, 11, 13, 17, 19, 23, 29, 31, 37, 41, 43, 47, 53}
Witnesses == {2, 3, 5, 7, 11, 13, 17, 19, 23, 29, 31, 37}

\* n - 1 = 2^r * d, d odd.
TwosOf(k) == Max({r \in 0..20 : k % 2^r = 0})

MillerRabinTest(n) ==
    LET r == TwosOf(n - 1)
        d == (n - 1) \div 2^r
    IN \A a \in Witnesses :
          LET square[j \in 0..r] == IF j = 0 THEN ModPow(a, d, n) ELSE (square[j - 1] * square[j - 1]) % n
          IN \/ square[0] \in {1, n - 1}
             \/ \E j \in 1..(r - 1) : square[j] = n - 1 /\ \A i \in 1..j : square[i] # 1

\* An attempt of generate_deterministic_prime, which returns the first odd
\* number the generator gives that passes.
Attempt(n) ==
    /\ candidate' = n
    /\ accepted' = /\ ~ \E p \in SmallPrimes : n % p = 0 /\ n # p
                   /\ MillerRabinTest(n)
    /\ UNCHANGED <<keys, cipher, plain>>

-----------------------------------------------------------------------------
L(x, n) == (x - 1) \div n

\* deriveVotingKeysFromECDH, from the two primes.
KeyFrom(p, q) ==
    LET n == p * q
        lambda == ((p - 1) * (q - 1)) \div Gcd(p - 1, q - 1)
    IN [n |-> n, lambda |-> lambda, mu |-> ModInverse(L(ModPow(n + 1, lambda, n * n), n), n)]

\* BN_rand_range gives any r below n; one that shares a factor with n, which
\* nobody meets among numbers of 2048 bits, has no inverse.
Randoms(n) == {r \in Drawn : r < n /\ Gcd(r, n) = 1}

EncryptWith(m, r, n) == (ModPow(n + 1, m, n * n) * ModPow(r, n, n * n)) % (n * n)

\* Mutant: multiplied modulo n instead of n^2.
DecryptModN(c, k) == (L(ModPow(c, k.lambda, k.n), k.n) * k.mu) % k.n

DecryptWith(c, k) == (L(ModPow(c, k.lambda, k.n * k.n), k.n) * k.mu) % k.n

NewKeys(p, q) ==
    /\ keys' = KeyFrom(p, q)
    /\ cipher' = 1
    /\ plain' = 0
    /\ candidate' = 1 /\ accepted' = FALSE

EncryptNumber(m, r) ==
    /\ cipher' = EncryptWith(m, r, keys.n)
    /\ plain' = m % keys.n
    /\ UNCHANGED <<keys, candidate, accepted>>

\* addition({cipher, encrypt(m)})
AddCipher(m, r) ==
    /\ cipher' = (cipher * EncryptWith(m, r, keys.n)) % (keys.n * keys.n)
    /\ plain' = (plain + m) % keys.n
    /\ UNCHANGED <<keys, candidate, accepted>>

PlaintextAddition(m) ==
    /\ cipher' = (cipher * ModPow(keys.n + 1, m, keys.n * keys.n)) % (keys.n * keys.n)
    /\ plain' = (plain + m) % keys.n
    /\ UNCHANGED <<keys, candidate, accepted>>

Multiply(k) ==
    /\ cipher' = ModPow(cipher, k, keys.n * keys.n)
    /\ plain' = (plain * k) % keys.n
    /\ UNCHANGED <<keys, candidate, accepted>>

PaillierNext ==
    \/ keys.n = 1 /\ \E n \in Candidates : Attempt(n)
    \/ \E pair \in PrimePairs : NewKeys(pair[1], pair[2])
    \/ /\ keys.n > 1
       /\ \/ \E m \in Messages, r \in Randoms(keys.n) : EncryptNumber(m, r) \/ AddCipher(m, r)
          \/ \E m \in Messages : PlaintextAddition(m)
          \/ \E k \in Factors : Multiply(k)

PaillierInit ==
    /\ keys = [n |-> 1, lambda |-> 1, mu |-> 0] /\ cipher = 1 /\ plain = 0
    /\ candidate = 1 /\ accepted = FALSE

-----------------------------------------------------------------------------
(* Properties.                                                             *)

\* encrypt, decrypt, addition, plaintextAddition, multiply: a ciphertext that
\* went through any of them decrypts to the result of the same operations on
\* the plaintexts, modulo n.
Homomorphic == keys.n > 1 => DecryptWith(cipher, keys) = plain % keys.n

\* miller_rabin_test, generate_deterministic_prime: among the odd numbers above
\* the largest witness exactly the primes are accepted; a composite p or q
\* makes keys that do not decrypt.
OnlyPrimes ==
    candidate > 37 => (accepted <=> \A d \in 2..(candidate - 1) : candidate % d # 0)
=============================================================================
