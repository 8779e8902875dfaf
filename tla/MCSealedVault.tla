---------------------------- MODULE MCSealedVault ----------------------------
(* Two vaults, four-bit words and a two-tick validity window.              *)
EXTENDS SealedVault

CONSTANTS c1, c2

MCClient == {c1, c2}
MCAccountId == (c1 :> {0}) @@ (c2 :> {1})

Cred(i, wl, sg, s, w, t) ==
    [issuer |-> i, whitelisted |-> wl, signed |-> sg,
     score |-> s, weight |-> w, timestamp |-> t]

\* One that fits the cap, one that saturates by itself, one from the
\* future of the first timestamps, one that is refused.
MCCredential ==
    { Cred({0}, TRUE,  FALSE, 3, 2, 2),
      Cred({2}, FALSE, TRUE,  7, 4, 0),
      Cred({0, 2}, TRUE, FALSE, 5, 2, 1),
      Cred({3}, FALSE, FALSE, 1, 4, 1) }
MCThreshold == {6, 15}
MCTime == {1, 3}
=============================================================================
