----------------------------- MODULE SealedVault -----------------------------
(***************************************************************************)
(* The Sealed SDK: SealedClient, the holder of a private credential vault. *)
(* One client per account; issue_credential changes its vault,             *)
(* prove_threshold reads it at a timestamp the caller supplies.            *)
(*                                                                         *)
(* Word-sized values that are only combined with ^ (account id, issuer     *)
(* limb, root) are sets of bit positions, so that ^ is symmetric           *)
(* difference; score and timestamp are numbers, turned into bits where     *)
(* the code casts them to u64 for the root.                                *)
(***************************************************************************)
EXTENDS Integers, Sequences, SequencesExt, FiniteSetsExt

CONSTANTS
    Client,         \* the SealedClient instances
    AccountId,      \* their account_id: [Client -> SUBSET Bit]
    Credential,     \* the credentials issuers may hand over
    Threshold,      \* thresholds a proof is asked for
    Time,           \* timestamps a proof is asked at
    U32Max,         \* the largest u32
    MaxAge,         \* 31_536_000 seconds
    Width,          \* bits of a word
    MaxCredentials  \* bound: credentials per vault (a Vec has none)

Bit == 0 .. Width - 1

ASSUME ConstantsAssumption ==
    /\ AccountId \in [Client -> SUBSET Bit]
    /\ U32Max \in Nat /\ MaxAge \in Nat /\ Width \in Nat
    /\ MaxCredentials \in Nat
    /\ Threshold \subseteq 0 .. U32Max
    /\ Time \subseteq Nat
    /\ \A k \in Credential :
          k \in [issuer : SUBSET Bit, whitelisted : BOOLEAN, signed : BOOLEAN,
                 score : 0 .. U32Max, weight : 0 .. U32Max, timestamp : Nat]

VARIABLES
    credentials,    \* [Client -> Seq(Credential)]
    merkle_root,    \* [Client -> SUBSET Bit]
    attested        \* the proofs prove_threshold has returned Ok(true) for

vars == <<credentials, merkle_root, attested>>

-----------------------------------------------------------------------------
(* Arithmetic of the SDK.                                                  *)

\* A u32 or u64 as the set of its one-bits.
Bits(n) == {i \in Bit : (n \div 2^i) % 2 = 1}

\* Wrong on purpose: arithmetic that wraps.
WrapInsteadOfSaturate(n) == n % (U32Max + 1)

\* min(a, u32::MAX): what saturating_mul and saturating_add leave.
Saturate(n) == IF n > U32Max THEN U32Max ELSE n

\* What one credential contributes to the xor checksum.
Mix(k) == SymDiff(k.issuer, SymDiff(Bits(k.score), Bits(k.timestamp)))

\* compute_mock_root: the checksum of a list of credentials, seeded by the
\* account id.
MockRoot(id, creds) ==
    FoldLeft(LAMBDA acc, k : SymDiff(acc, Mix(k)), id, creds)

\* The 365-day window, with the guard against u64 underflow.
InWindow(k, t) == t >= k.timestamp /\ t - k.timestamp <= MaxAge

\* compute_reputation_score.
Score(creds, t) ==
    FoldLeft(LAMBDA total, k :
                 IF InWindow(k, t)
                 THEN Saturate(total + Saturate(k.score * k.weight))
                 ELSE total,
             0, creds)

-----------------------------------------------------------------------------
Init ==
    /\ credentials = [c \in Client |-> <<>>]
    /\ merkle_root = AccountId
    /\ attested = {}

\* The signature check: a zero signature is accepted from the two
\* whitelisted issuers only.
Accepted(k) == k.signed \/ k.whitelisted

\* Wrong on purpose: the signature is not looked at.
IssueUnchecked(c, k) ==
    /\ Len(credentials[c]) < MaxCredentials
    /\ credentials' = [credentials EXCEPT ![c] = Append(@, k)]
    /\ merkle_root' = [merkle_root EXCEPT
                          ![c] = MockRoot(AccountId[c], credentials'[c])]
    /\ UNCHANGED attested

\* issue_credential, both outcomes: Err leaves the vault as it was.
IssueCredential(c, k) ==
    /\ Accepted(k)
    /\ Len(credentials[c]) < MaxCredentials
    /\ credentials' = [credentials EXCEPT ![c] = Append(@, k)]
    /\ merkle_root' = [merkle_root EXCEPT
                          ![c] = MockRoot(AccountId[c], credentials'[c])]
    /\ UNCHANGED attested

RejectCredential(c, k) ==
    /\ ~ Accepted(k)
    /\ UNCHANGED vars

\* prove_threshold: Ok(true) when the score suffices, Err otherwise.
ProveThreshold(c, n, t) ==
    /\ Score(credentials[c], t) >= n
    /\ attested' = attested \cup {[client |-> c, threshold |-> n, at |-> t]}
    /\ UNCHANGED <<credentials, merkle_root>>

ProofRejected(c, n, t) ==
    /\ Score(credentials[c], t) < n
    /\ UNCHANGED vars

Next ==
    \E c \in Client :
        \/ \E k \in Credential : IssueCredential(c, k) \/ RejectCredential(c, k)
        \/ \E n \in Threshold, t \in Time :
               ProveThreshold(c, n, t) \/ ProofRejected(c, n, t)

Spec == Init /\ [][Next]_vars

-----------------------------------------------------------------------------
(* Properties.                                                             *)

\* Every vault is a list of accepted credentials with a word-sized root.
TypeOK ==
    /\ credentials \in [Client -> Seq({k \in Credential : Accepted(k)})]
    /\ \A c \in Client : Len(credentials[c]) <= MaxCredentials
    /\ merkle_root \in [Client -> SUBSET Bit]
    /\ attested \subseteq [client : Client, threshold : Threshold, at : Time]

\* Saturating step by step is the same as capping the exact weighted sum of
\* the credentials in the window once: the score never depends on the order
\* in which the credentials were issued.
ScoreIsCappedSum ==
    \A c \in Client, t \in Time :
        LET valid == {i \in DOMAIN credentials[c] : InWindow(credentials[c][i], t)}
            exact == MapThenSumSet(LAMBDA i : credentials[c][i].score
                                                * credentials[c][i].weight, valid)
        IN  Score(credentials[c], t) = IF exact > U32Max THEN U32Max ELSE exact

\* A threshold once proved for a timestamp can be proved for it again
\* whatever is issued later: an issuance never lowers a score.
AttestationsStayProvable ==
    \A p \in attested : Score(credentials[p.client], p.at) >= p.threshold

\* "Root must change after inserting a credential" (the SDK's unit test).
RootChangesOnIssue ==
    [][\A c \in Client : credentials'[c] # credentials[c]
                             => merkle_root'[c] # merkle_root[c]]_vars

=============================================================================
