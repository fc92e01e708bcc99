----------------------------- MODULE VoteEncoder -----------------------------
(***************************************************************************)
(* Ballots (vote_encoder.cpp): one encrypted number per choice.  Numbers   *)
(* are turned into bytes, lowest first; Paillier takes the bytes highest   *)
(* first, and so does what it decrypts to; the tallier reads them lowest   *)
(* first again.  A ciphertext is represented by its plaintext.             *)
(***************************************************************************)
EXTENDS Integers, Sequences, FiniteSets, FiniteSetsExt

CONSTANTS N,      \* choices_.size()
          Base,   \* values of a byte, 256 in the code
          Width,  \* bytes of an int64_t, 8 in the code
          None    \* an absent optional

Options == 1..N

ASSUME EncoderAssumption == N \in Nat /\ N >= 2 /\ Base \in Nat /\ Base >= 2 /\ Width \in Nat \ {0}

Digits(k) ==
    LET digits[m \in 0..k] == IF m < Base THEN <<m>> ELSE <<m % Base>> \o digits[m \div Base]
    IN digits[k]

\* A negative number is its absolute value and a byte FF.
IntToBytes(k) == IF k >= 0 THEN Digits(k) ELSE Append(Digits(-k), Base - 1)

\* bytes_to_bn, of bytes that come lowest first: as many as there are.
BytesToBn(b) ==
    LET from[i \in 1..(Len(b) + 1)] == IF i > Len(b) THEN 0 ELSE b[i] + Base * from[i + 1]
    IN from[1]

\* The tallier's bytesToInt: what does not fit is left out, and eight bytes may
\* make a negative number.
BytesToInt(b) ==
    LET bits == BytesToBn(b) % Base^Width
    IN IF 2 * bits < Base^Width THEN bits ELSE bits - Base^Width

Reversed(b) == [i \in 1..Len(b) |-> b[Len(b) + 1 - i]]

\* PaillierPublicKey::encrypt, and PaillierPrivateKey::decrypt followed by
\* bytesToInt of the tallier.
Encrypt(b) == BytesToBn(Reversed(b))
Decrypt(m) == BytesToInt(Reversed(Digits(m)))

-----------------------------------------------------------------------------
Blank == [choice |-> None, choices |-> None, rankings |-> None, weight |-> None,
          encrypted |-> <<>>]

Number(k) == Encrypt(IntToBytes(k))

EncodePlurality(c) ==
    [Blank EXCEPT !.choice = c, !.encrypted = [i \in Options |-> Number(IF i = c THEN 1 ELSE 0)]]

EncodeApproval(S) ==
    [Blank EXCEPT !.choices = S, !.encrypted = [i \in Options |-> Number(IF i \in S THEN 1 ELSE 0)]]

EncodeWeighted(c, w) ==
    [Blank EXCEPT !.choice = c, !.weight = w,
                  !.encrypted = [i \in Options |-> IF i = c THEN Encrypt(w) ELSE Number(0)]]

\* The place of choice i in ranking r, 0 when it is not ranked.
RankOf(r, i) == IF \E p \in DOMAIN r : r[p] = i THEN CHOOSE p \in DOMAIN r : r[p] = i ELSE 0

EncodeBorda(r) ==
    [Blank EXCEPT !.rankings = r,
                  !.encrypted = [i \in Options |->
                      Number(IF RankOf(r, i) = 0 THEN 0 ELSE Len(r) + 1 - RankOf(r, i))]]

EncodeRankedChoice(r) ==
    [Blank EXCEPT !.rankings = r, !.encrypted = [i \in Options |-> Number(RankOf(r, i))]]

\* encode throws for the methods that are not here.
Encode(method, c, S, r, w) ==
    CASE method \in {"Plurality", "Consensus"} -> EncodePlurality(c)
      [] method = "Approval" -> EncodeApproval(S)
      [] method \in {"Weighted", "Quadratic"} -> EncodeWeighted(c, w)
      [] method = "ConsentBased" -> EncodeWeighted(c, IF w = None THEN IntToBytes(1) ELSE w)
      [] method = "Borda" -> EncodeBorda(r)
      [] method = "RankedChoice" -> EncodeRankedChoice(r)
=============================================================================
