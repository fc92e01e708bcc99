------------------------------ MODULE Services ------------------------------
(***************************************************************************)
(* Four parts that share no state: discovery, updates of documents, secret *)
(* sharing and Paillier's encryption.  Nothing is learnt from interleaving *)
(* them, so a behaviour exercises one of them.                             *)
(***************************************************************************)
EXTENDS DiscoveryProtocol, UpdateEngine, Shamir, Paillier

CONSTANTS Secrets, MaxNumShares   \* the secrets that are shared, and among how many

VARIABLE part

servicesVars == <<part, discoveryVars, doc, shamirVars, paillierVars>>

ServicesInit ==
    /\ part \in {"discovery", "updates", "sharing", "paillier"}
    /\ DiscoveryInit /\ UpdateInit /\ ShamirInit /\ PaillierInit

\* Every part of the secret gets the same random coefficients: the parts are
\* shared independently of each other.
ShareASecret ==
  /\ threshold = 0
  /\ \E bits \in Secrets, n \in 2..MaxNumShares : \E t \in 2..n :
        \E randoms \in [1..(t - 1) -> 0..MaxShares] :
            Share(bits, n, t, [k \in 1..Len(Split(Marked(bits))) |-> randoms])

ServicesNext ==
    \/ part = "discovery" /\ DiscoveryNext /\ UNCHANGED <<part, doc, shamirVars, paillierVars>>
    \/ part = "updates" /\ (\E u \in Updates : Update(u)) /\ UNCHANGED <<part, discoveryVars, shamirVars, paillierVars>>
    \/ part = "sharing" /\ ShareASecret /\ UNCHANGED <<part, discoveryVars, doc, paillierVars>>
    \/ part = "paillier" /\ PaillierNext /\ UNCHANGED <<part, discoveryVars, doc, shamirVars>>

\* A thread inside discoverBlock goes on, and time passes: an entry of the
\* cache is valid for cacheTtlMs and nothing but a new result prolongs it.
ServicesFairness ==
    /\ \A c \in Callers : WF_servicesVars(part = "discovery" /\ CallerStep(c) /\ UNCHANGED <<part, doc, shamirVars, paillierVars>>)
    /\ \A b \in Wanted : WF_servicesVars(part = "discovery" /\ Expire(b) /\ UNCHANGED <<part, doc, shamirVars, paillierVars>>)

ServicesSpec == ServicesInit /\ [][ServicesNext]_servicesVars /\ ServicesFairness

-----------------------------------------------------------------------------
(* Properties.                                                             *)

\* compareValues, matchesFilter, applyMin and applyMax: comparison is an order
\* that filters agree on, and updates too except where strings, arrays and
\* objects meet (see QueryLaws and MinMaxAgreeWithQueries).
QueriesAreLawful == part = "updates" => QueryLaws /\ MinMaxAgreeWithQueries

\* applyUpdate: an update whose answer was lost may be sent again (see RetryIsSafe).
RetriedUpdateIsSafe == part = "updates" => RetryIsSafe

\* share, combine: enough shares give the secret back, and fewer than the
\* threshold say nothing about it (see Reconstructs and RevealsNothing).
SharingIsSafe == Reconstructs /\ RevealsNothing

\* Encryption and its keys: ciphertexts add up, and only primes make keys (see
\* Homomorphic and OnlyPrimes).
PaillierIsSound == Homomorphic /\ OnlyPrimes
=============================================================================
