-------------------------- MODULE SharedStoreProofs --------------------------
(***************************************************************************)
(* Proofs about the shared activity document: for any number of browsers,   *)
(* of auto-syncs and page writes that each has under way, and any           *)
(* interleaving of their reads and writes, what the document holds          *)
(* is consistent and comes from somebody's own storage.                     *)
(***************************************************************************)
EXTENDS WellFoundedInduction, SharedStore, TLAPS

\* What the induction steps below rest on: a set of numbers that holds 0 and
\* the successor of each of its members holds every number.
LEMMA Induction ==
  ASSUME NEW T, 0 \in T, \A n \in Nat : n \in T => n + 1 \in T
  PROVE  \A n \in Nat : n \in T
<1> SUFFICES ASSUME Nat \ T # {} PROVE FALSE
  OBVIOUS
<1>1. PICK x \in Nat \ T : \A y \in Nat \ T : ~(<<y, x>> \in OpToRel(<, Nat))
  BY WFMin, NatLessThanWellFounded
<1>2. x # 0 /\ x \in Nat
  OBVIOUS
<1>3. x - 1 \in Nat /\ x - 1 < x /\ (x - 1) + 1 = x
  BY <1>2
<1>4. x - 1 \in T
  BY <1>1, <1>2, <1>3 DEF OpToRel
<1> QED
  BY <1>3, <1>4

\* What auto-sync compares comes from the history (Missing).
LEMMA UnsharedIsLocal ==
  ASSUME NEW S, NEW u \in Seq(S), NEW D
  PROVE  Unshared(u, D) \in Seq(Range(u))
<1> DEFINE Rule(g, n) ==
      [i \in 0 .. n |->
         IF i = 0 THEN <<>>
         ELSE IF u[i] = NoHash \/ u[i] \notin D
              THEN Append(g[i - 1], u[i]) ELSE g[i - 1]]
<1> DEFINE Defined == {n \in Nat : \E g : g = Rule(g, n)}
<1>1. 0 \in Defined
  <2> DEFINE g == [i \in 0 .. 0 |-> <<>>]
  <2>1. g = Rule(g, 0)
    OBVIOUS
  <2> QED
    BY <2>1
<1>2. ASSUME NEW n \in Nat, n \in Defined PROVE n + 1 \in Defined
  <2>1. PICK g : g = Rule(g, n)
    BY <1>2
  <2> DEFINE h == [i \in 0 .. n + 1 |-> IF i <= n THEN g[i]
                     ELSE IF u[i] = NoHash \/ u[i] \notin D
                          THEN Append(g[i - 1], u[i]) ELSE g[i - 1]]
  <2>2. h = Rule(h, n + 1)
    <3>1. ASSUME NEW i \in 0 .. n + 1 PROVE h[i] = Rule(h, n + 1)[i]
      <4>1. CASE i = 0
        BY <4>1, <2>1
      <4>2. CASE i # 0
        <5>1. i - 1 \in 0 .. n /\ i - 1 \in 0 .. n + 1 /\ i - 1 <= n
          BY <4>2
        <5>2. h[i - 1] = g[i - 1]
          BY <5>1
        <5>3. CASE i <= n
          <6>1. i \in 0 .. n
            BY <5>3
          <6>2. h[i] = g[i]
            BY <5>3
          <6>3. g[i] = Rule(g, n)[i]
            BY <2>1
          <6> QED
            BY <4>2, <5>2, <6>1, <6>2, <6>3
        <5>4. CASE ~(i <= n)
          BY <4>2, <5>2, <5>4
        <5> QED
          BY <5>3, <5>4
      <4> QED
        BY <4>1, <4>2
    <3> QED
      BY <3>1
  <2>3. \E k : k = Rule(k, n + 1)
    <3> HIDE DEF h, Rule
    <3> QED
      BY <2>2, Zenon
  <2>4. n + 1 \in Nat
    OBVIOUS
  <2> HIDE DEF Rule
  <2> QED
    BY <2>3, <2>4, Zenon
<1>3. Len(u) \in Nat /\ Len(u) \in Defined
  <2>1. \A n \in Nat : n \in Defined => n + 1 \in Defined
    BY <1>2, Zenon
  <2>2. Len(u) \in Nat
    OBVIOUS
  <2> HIDE DEF Defined
  <2> QED
    BY <1>1, <2>1, <2>2, Induction, Zenon
<1> DEFINE f == CHOOSE g : g = Rule(g, Len(u))
<1>4. f = Rule(f, Len(u))
  BY <1>3
<1>5. Unshared(u, D) = f[Len(u)]
  BY DEF Unshared
<1> DEFINE Picked == {n \in Nat : n <= Len(u) => f[n] \in Seq(Range(u))}
<1> HIDE DEF f
<1>6. 0 \in Picked
  <2>1. f[0] = <<>>
    BY <1>3, <1>4
  <2>2. f[0] \in Seq(Range(u))
    BY <2>1
  <2> QED
    BY <2>2, Zenon
<1>7. ASSUME NEW n \in Nat, n \in Picked PROVE n + 1 \in Picked
  <2> SUFFICES ASSUME n + 1 <= Len(u) PROVE f[n + 1] \in Seq(Range(u))
    OBVIOUS
  <2>1. f[n] \in Seq(Range(u))
    BY <1>3, <1>7
  <2>2. n + 1 \in DOMAIN u /\ u[n + 1] \in Range(u)
    BY <1>3 DEF Range
  <2>3. f[n + 1] = IF u[n + 1] = NoHash \/ u[n + 1] \notin D
                   THEN Append(f[n], u[n + 1]) ELSE f[n]
    <3>1. n + 1 \in 0 .. Len(u) /\ n + 1 # 0 /\ (n + 1) - 1 = n
      BY <1>3
    <3>2. f[n + 1] = Rule(f, Len(u))[n + 1]
      BY <1>4, Zenon
    <3> QED
      BY <3>1, <3>2
  <2> QED
    BY <2>1, <2>2, <2>3
<1>8. \A n \in Nat : n \in Picked
  <2>1. \A n \in Nat : n \in Picked => n + 1 \in Picked
    BY <1>7, Zenon
  <2> HIDE DEF Picked
  <2> QED
    BY <1>6, <2>1, Induction, Zenon
<1> QED
  BY <1>3, <1>5, <1>8

------------------------------------------------------------------------------
\* Documents, entries and calls that are sound when the browsers in R have
\* stored a registration and U is what the histories hold.
Docs(R, U) ==
  {d \in [participants : Nat, updates : Seq(U), registrations : Seq({Id(b) : b \in R})] :
     /\ d.participants = Len(d.registrations)
     /\ \A i, j \in DOMAIN d.registrations : d.registrations[i] = d.registrations[j] => i = j
     /\ \A i, j \in DOMAIN d.updates :
          d.updates[i] = d.updates[j] /\ d.updates[i] # NoHash => i = j}

Ops(R, U) ==
  {Op("REGISTER", Text(InstitutionId[b])) : b \in R} \union {Op("SUBMIT", h) : h \in U}

Calls(R, U) ==
  {c \in [pc : {"idle", "loading", "reading", "posting", "answered"},
          op : Ops(R, U) \union {Op("", NoHash)}, body : Docs(R, U),
          reply : {"", "ok", "error", "limited"}] :
     c.pc = "reading" => c.op \in Ops(R, U)}

Held == UNION {Range(updates[b]) : b \in Browser}

\* The inductive invariant: also what a call is about to write, and what
\* auto-sync still has to write, comes from the storages and is consistent.
SharedInv ==
  /\ registered \subseteq Browser
  /\ updates \in [Browser -> Seq(Hash \union {NoHash})]
  /\ age \in [Browser -> 0 .. Cooldown]
  /\ requests \in [Browser -> [0 .. Cooldown - 1 -> 0 .. RATE_LIMIT + 1]]
  /\ gist \in Docs(registered, Held) /\ ~Oversized(gist)
  /\ todo \in [LoopThread -> Seq(Ops(registered, Held))]
  /\ call \in [Thread -> Calls(registered, Held)]

\* Storages only grow, and what was sound stays so.
LEMMA SoundGrows ==
  ASSUME NEW R, NEW R2, R \subseteq R2, NEW U, NEW U2, U \subseteq U2
  PROVE  /\ Docs(R, U) \subseteq Docs(R2, U2)
         /\ Ops(R, U) \subseteq Ops(R2, U2)
         /\ Calls(R, U) \subseteq Calls(R2, U2)
<1> DEFINE I == {Id(b) : b \in R}
<1> DEFINE J == {Id(b) : b \in R2}
<1>1. I \subseteq J
  BY Zenon
<1>2. ASSUME NEW A, NEW B, A \subseteq B, NEW s \in Seq(A) PROVE s \in Seq(B)
  BY <1>2
<1>3. Docs(R, U) \subseteq Docs(R2, U2)
  <2> SUFFICES ASSUME NEW d \in Docs(R, U) PROVE d \in Docs(R2, U2)
    BY Zenon
  <2>1. d \in [participants : Nat, updates : Seq(U), registrations : Seq(I)]
    BY DEF Docs
  <2> HIDE DEF I, J
  <2>2. d.updates \in Seq(U2) /\ d.registrations \in Seq(J)
    BY <1>1, <1>2, <2>1
  <2>3. d \in [participants : Nat, updates : Seq(U2), registrations : Seq(J)]
    BY <2>1, <2>2
  <2> QED
    BY <2>3 DEF Docs, J
<1>4. Ops(R, U) \subseteq Ops(R2, U2)
  BY Zenon DEF Ops
<1>5. Calls(R, U) \subseteq Calls(R2, U2)
  BY <1>3, <1>4 DEF Calls
<1> QED
  BY <1>3, <1>4, <1>5

\* Adding a sound entry to a sound document (Added's comparisons).
LEMMA AddedSound ==
  ASSUME NEW R, NEW U, NEW d \in Docs(R, U), NEW op \in Ops(R, U)
  PROVE  Added(d, op) \in Docs(R, U)
<1> DEFINE I == {Id(b) : b \in R}
<1> DEFINE id == ParseInt(op.key)
<1>1. d \in [participants : Nat, updates : Seq(U), registrations : Seq(I)]
  BY DEF Docs
<1>2. /\ d.participants = Len(d.registrations)
      /\ \A i, j \in DOMAIN d.registrations : d.registrations[i] = d.registrations[j] => i = j
      /\ \A i, j \in DOMAIN d.updates :
           d.updates[i] = d.updates[j] /\ d.updates[i] # NoHash => i = j
  BY DEF Docs
<1>3. CASE op.type = "REGISTER"
  <2>1. id \in I
    BY <1>3 DEF Ops, Op, Id
  <2>2. CASE id \in Range(d.registrations)
    BY <1>3, <2>2 DEF Added
  <2>3. CASE id \notin Range(d.registrations)
    <3> DEFINE s == Append(d.registrations, id)
    <3> DEFINE e == [d EXCEPT !.registrations = s, !.participants = Len(d.registrations) + 1]
    <3>1. Added(d, op) = e
      BY <1>1, <1>3, <2>3 DEF Added
    <3> HIDE DEF id, I
    <3>2. s \in Seq(I) /\ Len(s) = Len(d.registrations) + 1
      BY <1>1, <2>1
    <3>3. \A i, j \in DOMAIN s : s[i] = s[j] => i = j
      BY <1>1, <1>2, <2>1, <2>3 DEF Range
    <3>4. /\ e \in [participants : Nat, updates : Seq(U), registrations : Seq(I)]
          /\ e.participants = Len(e.registrations) /\ e.registrations = s
          /\ e.updates = d.updates
      <4> DEFINE n == Len(d.registrations) + 1
      <4>1. n \in Nat /\ Len(s) = n
        BY <1>1, <3>2
      <4> HIDE DEF n, s
      <4>2. e = [d EXCEPT !.registrations = s, !.participants = n]
        BY DEF n
      <4> HIDE DEF e
      <4> QED
        BY <1>1, <3>2, <4>1, <4>2
    <3> HIDE DEF e, s
    <3> QED
      BY <1>2, <3>1, <3>3, <3>4 DEF Docs, I
  <2> QED
    BY <2>2, <2>3
<1>4. CASE op.type = "SUBMIT"
  <2>1. op.key \in U
    BY <1>4 DEF Ops, Op
  <2>2. CASE ~(op.key = NoHash \/ op.key \notin Range(d.updates))
    BY <1>4, <2>2 DEF Added
  <2>3. CASE op.key = NoHash \/ op.key \notin Range(d.updates)
    <3> DEFINE s == Append(d.updates, op.key)
    <3> DEFINE e == [d EXCEPT !.updates = s]
    <3>1. Added(d, op) = e
      BY <1>1, <1>4, <2>3 DEF Added
    <3> HIDE DEF id, I
    <3>2. s \in Seq(U)
      BY <1>1, <2>1
    <3>3. \A i, j \in DOMAIN s : s[i] = s[j] /\ s[i] # NoHash => i = j
      BY <1>1, <1>2, <2>1, <2>3 DEF Range
    <3>4. /\ e \in [participants : Nat, updates : Seq(U), registrations : Seq(I)]
          /\ e.participants = Len(e.registrations) /\ e.registrations = d.registrations
          /\ e.updates = s
      BY <1>1, <1>2, <3>2
    <3> HIDE DEF e, s
    <3> QED
      BY <1>2, <3>1, <3>3, <3>4 DEF Docs, I
  <2> QED
    BY <2>2, <2>3
<1> QED
  BY <1>3, <1>4 DEF Ops, Op

\* writeSharedActivity starts, or is dropped within the cooldown.
LEMMA StartedSound ==
  ASSUME NEW R, NEW U, NEW th \in Thread, NEW op \in Ops(R, U), call[th] \in Calls(R, U)
  PROVE  Started(th, op) \in Calls(R, U)
<1>1. EmptyDocument \in Docs(R, U)
  BY DEF EmptyDocument, Docs
<1>2. [NoCall EXCEPT !.pc = "reading", !.op = op] \in Calls(R, U)
  BY <1>1 DEF NoCall, Calls
<1> QED
  BY <1>2 DEF Started

LEMMA NoCallSound ==
  ASSUME NEW R, NEW U, NEW reply \in {"ok", "error", "limited"}
  PROVE  /\ NoCall \in Calls(R, U) /\ EmptyDocument \in Docs(R, U)
         /\ [NoCall EXCEPT !.pc = "answered", !.reply = reply] \in Calls(R, U)
<1>1. EmptyDocument \in Docs(R, U)
  BY DEF EmptyDocument, Docs
<1> QED
  BY <1>1 DEF NoCall, Calls

\* loadData waits with a sound document.
LEMMA LoadingSound ==
  ASSUME NEW R, NEW U, NEW doc \in Docs(R, U)
  PROVE  [NoCall EXCEPT !.pc = "loading", !.body = doc] \in Calls(R, U)
<1> DEFINE D == Docs(R, U)
<1> DEFINE O == Ops(R, U)
<1>1. doc \in D /\ EmptyDocument \in D
  BY DEF EmptyDocument, Docs
<1> HIDE DEF D, O
<1>2. [NoCall EXCEPT !.pc = "loading", !.body = doc]
        \in [pc : {"idle", "loading", "reading", "posting", "answered"},
            op : O \union {Op("", NoHash)}, body : D, reply : {"", "ok", "error", "limited"}]
  BY <1>1 DEF NoCall
<1>3. [NoCall EXCEPT !.pc = "loading", !.body = doc].pc # "reading"
  BY DEF NoCall
<1> QED
  BY <1>2, <1>3 DEF Calls, D, O

\* isRateLimited's log keeps its shape.
LEMMA LoggedTyped ==
  ASSUME SharedInv, NEW b \in Browser
  PROVE  [requests EXCEPT ![b] = Logged(b)]
           \in [Browser -> [0 .. Cooldown - 1 -> 0 .. RATE_LIMIT + 1]]
<1>1. Logged(b) \in [0 .. Cooldown - 1 -> 0 .. RATE_LIMIT + 1]
  <2> DEFINE n == requests[b][0]
  <2>1. 0 \in 0 .. Cooldown - 1
    BY StoreAssumption
  <2>2. requests[b] \in [0 .. Cooldown - 1 -> 0 .. RATE_LIMIT + 1]
    BY DEF SharedInv
  <2>3. n \in 0 .. RATE_LIMIT + 1
    BY <2>1, <2>2
  <2>4. (IF n > RATE_LIMIT THEN n ELSE n + 1) \in 0 .. RATE_LIMIT + 1
    BY <2>3, StoreAssumption
  <2> QED
    BY <2>2, <2>4 DEF Logged
<1> QED
  BY <1>1 DEF SharedInv

\* What auto-sync finds missing is in the browser's own storage.
LEMMA MissingSound ==
  ASSUME SharedInv, NEW b \in Browser, NEW doc
  PROVE  Missing(b, doc) \in Seq(Ops(registered, Held))
<1> DEFINE key == Text(InstitutionId[b])
<1> DEFINE regs == IF b \in registered /\ key \notin Range(doc.registrations)
                   THEN <<Op("REGISTER", key)>> ELSE <<>>
<1> DEFINE subs == Unshared(updates[b], Range(doc.updates))
<1> DEFINE ops == [i \in DOMAIN subs |-> Op("SUBMIT", subs[i])]
<1>1. regs \in Seq(Ops(registered, Held))
  <2>1. CASE b \in registered
    <3>1. Op("REGISTER", key) \in Ops(registered, Held)
      BY <2>1, Zenon DEF Ops
    <3> HIDE DEF key
    <3> QED
      BY <3>1
  <2>2. CASE b \notin registered
    BY <2>2
  <2> QED
    BY <2>1, <2>2
<1>2. subs \in Seq(Held)
  <2>1. updates[b] \in Seq(Hash \union {NoHash})
    BY DEF SharedInv
  <2>2. subs \in Seq(Range(updates[b]))
    BY <2>1, UnsharedIsLocal, Zenon
  <2>3. Range(updates[b]) \subseteq Held
    BY Zenon DEF Held
  <2> HIDE DEF subs
  <2> QED
    BY <2>2, <2>3
<1>3. ops \in Seq(Ops(registered, Held))
  <2> HIDE DEF subs
  <2>1. \A i \in DOMAIN subs : Op("SUBMIT", subs[i]) \in Ops(registered, Held)
    <3> SUFFICES ASSUME NEW i \in DOMAIN subs PROVE Op("SUBMIT", subs[i]) \in Ops(registered, Held)
      BY Zenon
    <3>1. subs[i] \in Held
      BY <1>2
    <3> QED
      BY <3>1, Zenon DEF Ops
  <2>2. DOMAIN subs = 1 .. Len(subs) /\ Len(subs) \in Nat
    BY <1>2
  <2> QED
    BY <2>1, <2>2
<1>4. Missing(b, doc) = regs \o ops
  BY DEF Missing
<1> HIDE DEF regs, ops
<1> QED
  BY <1>1, <1>3, <1>4

\* The pages: they store first, then start a write.
LEMMA StorageStep ==
  ASSUME SharedInv, NEW th \in FormThread,
         Register(th) \/ (\E h \in Hash : Submit(th, h))
  PROVE  SharedInv'
<1> DEFINE b == th[1]
<1> DEFINE R == registered
<1> DEFINE R2 == registered'
<1> DEFINE U2 == Held'
<1>1. th \in Thread /\ b \in Browser
  BY DEF Thread, FormThread
<1> HIDE DEF b
<1> DEFINE Grown ==
      /\ R \subseteq R2 /\ R2 \subseteq Browser
      /\ updates' \in [Browser -> Seq(Hash \union {NoHash})]
      /\ \A x \in Browser : Range(updates[x]) \subseteq Range(updates'[x])
      /\ \E op \in Ops(R2, U2) : call' = [call EXCEPT ![th] = Started(th, op)]
<1>2. Grown
  <2>1. updates[b] \in Seq(Hash \union {NoHash})
    BY <1>1 DEF SharedInv
  <2>2. CASE Register(th)
    <3> DEFINE s == <<NoHash>> \o updates[b]
    <3>1. s \in Seq(Hash \union {NoHash})
      BY <2>1
    <3>2. Range(updates[b]) \subseteq Range(s)
      <4> SUFFICES ASSUME NEW i \in DOMAIN updates[b]
                   PROVE  i + 1 \in DOMAIN s /\ s[i + 1] = updates[b][i]
        BY DEF Range
      <4> QED
        BY <2>1
    <3>3. updates' = [updates EXCEPT ![b] = s] /\ registered' = registered \union {b}
      BY <2>2 DEF Register, b
    <3> HIDE DEF s
    <3>4. Op("REGISTER", Text(InstitutionId[b])) \in Ops(R2, U2)
      <4>1. b \in R2
        BY <3>3
      <4> QED
        BY <4>1, Zenon DEF Ops
    <3>5. call' = [call EXCEPT ![th] = Started(th, Op("REGISTER", Text(InstitutionId[b])))]
      BY <2>2 DEF Register, b
    <3> QED
      BY <1>1, <3>1, <3>2, <3>3, <3>4, <3>5 DEF SharedInv
  <2>3. ASSUME NEW h \in Hash, Submit(th, h) PROVE Grown
    <3> DEFINE s == Append(updates[b], h)
    <3>1. s \in Seq(Hash \union {NoHash})
      BY <2>1
    <3>2. Range(updates[b]) \subseteq Range(s) /\ h \in Range(s)
      <4>1. ASSUME NEW i \in DOMAIN updates[b]
            PROVE  i \in DOMAIN s /\ s[i] = updates[b][i]
        BY <2>1
      <4>2. Len(s) \in DOMAIN s /\ s[Len(s)] = h
        BY <2>1
      <4> HIDE DEF s
      <4> QED
        BY <4>1, <4>2 DEF Range
    <3>3. updates' = [updates EXCEPT ![b] = s] /\ registered' = registered
      BY <2>3 DEF Submit, b
    <3> HIDE DEF s
    <3>4. Op("SUBMIT", h) \in Ops(R2, U2)
      <4>1. updates'[b] = s
        BY <1>1, <3>3 DEF SharedInv
      <4>2. h \in U2
        BY <1>1, <3>2, <4>1 DEF Held
      <4> QED
        BY <4>2, Zenon DEF Ops
    <3>5. call' = [call EXCEPT ![th] = Started(th, Op("SUBMIT", h))]
      BY <2>3 DEF Submit, b
    <3> QED
      BY <1>1, <3>1, <3>2, <3>3, <3>4, <3>5 DEF SharedInv
  <2> QED
    BY <2>2, <2>3
<1>3. Held \subseteq U2
  BY <1>2 DEF Held
<1>4. /\ Docs(R, Held) \subseteq Docs(R2, U2) /\ Ops(R, Held) \subseteq Ops(R2, U2)
      /\ Calls(R, Held) \subseteq Calls(R2, U2)
  BY <1>2, <1>3, SoundGrows
<1>5. UNCHANGED <<gist, todo, age, requests>>
  BY DEF Register, Submit
<1>6. PICK op \in Ops(R2, U2) : call' = [call EXCEPT ![th] = Started(th, op)]
  BY <1>2
<1>7. call \in [Thread -> Calls(R2, U2)]
  BY <1>4 DEF SharedInv
<1>8. Started(th, op) \in Calls(R2, U2)
  BY <1>1, <1>7, StartedSound
<1>9. call' \in [Thread -> Calls(R2, U2)]
  BY <1>6, <1>7, <1>8
<1>10. todo \in [LoopThread -> Seq(Ops(R2, U2))]
  <2>1. ASSUME NEW x \in LoopThread PROVE todo[x] \in Seq(Ops(R2, U2))
    <3>1. todo[x] \in Seq(Ops(R, Held))
      BY DEF SharedInv
    <3> QED
      BY <1>4, <3>1
  <2> QED
    BY <2>1 DEF SharedInv
<1> QED
  BY <1>2, <1>4, <1>5, <1>9, <1>10 DEF SharedInv, Oversized

\* Auto-sync: it reads, compares, then starts one write after the other.
LEMMA LoopStep ==
  ASSUME SharedInv, NEW th \in LoopThread, Load(th) \/ Compare(th) \/ AutoSync(th)
  PROVE  SharedInv'
<1> DEFINE O == Ops(registered, Held)
<1> DEFINE C == Calls(registered, Held)
<1>1. UNCHANGED <<gist, registered, updates, age, requests>> /\ Held' = Held
  <2>1. UNCHANGED <<gist, registered, updates, age, requests>>
    BY Zenon DEF Load, Compare, AutoSync
  <2> QED
    BY <2>1, Zenon DEF Held
<1>2. th \in Thread /\ th[1] \in Browser
  BY DEF Thread, LoopThread
<1>3. todo \in [LoopThread -> Seq(O)] /\ call \in [Thread -> C]
  BY DEF SharedInv
<1>4. NoCall \in C /\ EmptyDocument \in Docs(registered, Held)
  BY NoCallSound
<1>5. todo' \in [LoopThread -> Seq(O)] /\ call' \in [Thread -> C]
  <2>1. CASE Load(th)
    <3>1. PICK doc \in Read :
            call' = [call EXCEPT ![th] = [NoCall EXCEPT !.pc = "loading", !.body = doc]]
      BY <2>1 DEF Load
    <3>2. doc \in Docs(registered, Held)
      BY <1>4 DEF Read, SharedInv
    <3> DEFINE c == [NoCall EXCEPT !.pc = "loading", !.body = doc]
    <3>3. c \in C
      BY <3>2, LoadingSound
    <3> HIDE DEF c, O, C
    <3>4. call' = [call EXCEPT ![th] = c] /\ todo' = todo
      BY <2>1, <3>1 DEF Load, c
    <3> QED
      BY <1>2, <1>3, <3>3, <3>4
  <2>2. CASE Compare(th)
    <3>1. Missing(th[1], call[th].body) \in Seq(O)
      BY <1>2, MissingSound
    <3> HIDE DEF O, C
    <3> QED
      BY <1>2, <1>3, <1>4, <2>2, <3>1 DEF Compare
  <2>3. CASE AutoSync(th)
    <3>1. todo[th] \in Seq(O) /\ todo[th] # <<>>
      BY <1>3, <2>3 DEF AutoSync
    <3> HIDE DEF O
    <3>2. Head(todo[th]) \in O /\ Tail(todo[th]) \in Seq(O)
      BY <3>1
    <3>3. Started(th, Head(todo[th])) \in C
      BY <1>2, <1>3, <3>2, StartedSound DEF O
    <3> HIDE DEF C
    <3> QED
      BY <1>2, <1>3, <2>3, <3>2, <3>3 DEF AutoSync
  <2> QED
    BY <2>1, <2>2, <2>3
<1> QED
  BY <1>1, <1>5 DEF SharedInv, Oversized

\* writeSharedActivity's read, the route's answer and what follows it.
LEMMA CallStep ==
  ASSUME SharedInv, NEW th \in Thread,
         ReadAndAdd(th) \/ Refuse(th) \/ Store(th) \/ Return(th)
  PROVE  SharedInv'
<1> DEFINE D == Docs(registered, Held)
<1> DEFINE C == Calls(registered, Held)
<1>1. UNCHANGED <<registered, updates, todo>> /\ Held' = Held
  BY DEF ReadAndAdd, Refuse, Store, Return, Held
<1>3. th[1] \in Browser
  BY DEF Thread, FormThread, LoopThread
<1>4. call \in [Thread -> C] /\ call[th] \in C /\ gist \in D
  BY DEF SharedInv
<1>5. NoCall \in C /\ EmptyDocument \in D
      /\ \A reply \in {"ok", "error", "limited"} :
           [NoCall EXCEPT !.pc = "answered", !.reply = reply] \in C
  BY NoCallSound
<1>6. \A reply \in {"ok", "error", "limited"} :
        Answer(th, reply) => call' \in [Thread -> C]
  <2> HIDE DEF C
  <2> QED
    BY <1>4, <1>5 DEF Answer
<1>7. CASE ReadAndAdd(th)
  <2>1. PICK doc \in Read :
          call' = [call EXCEPT ![th].pc = "posting", ![th].body = Added(doc, call[th].op)]
    BY <1>7 DEF ReadAndAdd
  <2>2. doc \in D
    BY <1>4, <1>5 DEF Read
  <2>3. call[th].pc = "reading" /\ call[th].op \in Ops(registered, Held)
    BY <1>4, <1>7 DEF ReadAndAdd, Calls
  <2> DEFINE e == Added(doc, call[th].op)
  <2>4. e \in D
    BY <2>2, <2>3, AddedSound
  <2> HIDE DEF e
  <2> DEFINE c == [call[th] EXCEPT !.pc = "posting", !.body = e]
  <2>5. c \in C
    <3> HIDE DEF D
    <3> QED
      BY <1>4, <2>4 DEF Calls, D
  <2>6. call' = [call EXCEPT ![th] = c]
    BY <1>4, <2>1 DEF e
  <2> HIDE DEF c, C
  <2>7. call' \in [Thread -> C]
    BY <1>4, <2>5, <2>6
  <2>8. UNCHANGED <<gist, age, requests>>
    BY <1>7 DEF ReadAndAdd
  <2> QED
    BY <1>1, <2>7, <2>8 DEF SharedInv, Oversized, C
<1>8. CASE Refuse(th)
  <2>1. requests' \in [Browser -> [0 .. Cooldown - 1 -> 0 .. RATE_LIMIT + 1]]
    BY <1>3, <1>8, LoggedTyped DEF Refuse
  <2>2. \E reply \in {"ok", "error", "limited"} : Answer(th, reply)
    BY <1>8 DEF Refuse
  <2>3. UNCHANGED <<gist, age>>
    BY <1>8 DEF Refuse
  <2>4. call' \in [Thread -> C]
    BY <1>6, <2>2, Zenon
  <2> QED
    BY <1>1, <2>1, <2>3, <2>4 DEF SharedInv, Oversized
<1>9. CASE Store(th)
  <2>1. requests' \in [Browser -> [0 .. Cooldown - 1 -> 0 .. RATE_LIMIT + 1]]
    BY <1>3, <1>9, LoggedTyped DEF Store
  <2>2. \E reply \in {"ok", "error", "limited"} : Answer(th, reply)
    BY <1>9 DEF Store
  <2>3. UNCHANGED age /\ gist' = call[th].body /\ ~Oversized(call[th].body)
    BY <1>9 DEF Store
  <2>4. call' \in [Thread -> C]
    BY <1>6, <2>2, Zenon
  <2>5. gist' \in D /\ ~Oversized(gist')
    BY <1>4, <2>3 DEF Calls
  <2> QED
    BY <1>1, <2>1, <2>3, <2>4, <2>5 DEF SharedInv, Oversized
<1>10. CASE Return(th)
  <2>1. age' \in [Browser -> 0 .. Cooldown]
    BY <1>3, <1>10, StoreAssumption DEF Return, SharedInv
  <2>2. call' \in [Thread -> C]
    <3> HIDE DEF C
    <3> QED
      BY <1>4, <1>5, <1>10 DEF Return
  <2>3. UNCHANGED <<gist, requests>>
    BY <1>10 DEF Return
  <2> QED
    BY <1>1, <2>1, <2>2, <2>3 DEF SharedInv, Oversized
<1> QED
  BY <1>7, <1>8, <1>9, <1>10

LEMMA TickStep ==
  ASSUME SharedInv, Tick PROVE SharedInv'
<1>1. UNCHANGED <<gist, registered, updates, todo, call>> /\ Held' = Held
  BY DEF Tick, Held
<1>2. age' \in [Browser -> 0 .. Cooldown]
  BY StoreAssumption DEF Tick, SharedInv
<1>3. requests' \in [Browser -> [0 .. Cooldown - 1 -> 0 .. RATE_LIMIT + 1]]
  BY StoreAssumption DEF Tick, SharedInv
<1> QED
  BY <1>1, <1>2, <1>3 DEF SharedInv, Oversized

\* The invariant holds of every behaviour.
THEOREM SharedInvariant == Spec => []SharedInv
<1>1. Init => SharedInv
  <2> SUFFICES ASSUME Init PROVE SharedInv
    OBVIOUS
  <2>1. EmptyDocument \in Docs(registered, Held) /\ NoCall \in Calls(registered, Held)
    BY NoCallSound
  <2>2. ~Oversized(EmptyDocument)
    BY StoreAssumption DEF Oversized, EmptyDocument
  <2>3. todo \in [LoopThread -> Seq(Ops(registered, Held))]
    BY DEF Init
  <2>4. requests \in [Browser -> [0 .. Cooldown - 1 -> 0 .. RATE_LIMIT + 1]]
    BY StoreAssumption DEF Init
  <2>5. age \in [Browser -> 0 .. Cooldown]
    BY StoreAssumption DEF Init
  <2>6. updates \in [Browser -> Seq(Hash \union {NoHash})]
    BY DEF Init
  <2>7. call \in [Thread -> Calls(registered, Held)]
    BY <2>1 DEF Init
  <2>8. registered \subseteq Browser /\ gist = EmptyDocument
    BY DEF Init
  <2> QED
    BY <2>1, <2>2, <2>3, <2>4, <2>5, <2>6, <2>7, <2>8 DEF SharedInv
<1>2. SharedInv /\ [Next]_vars => SharedInv'
  <2> SUFFICES ASSUME SharedInv, [Next]_vars PROVE SharedInv'
    OBVIOUS
  <2>1. CASE UNCHANGED vars
    <3>1. Held' = Held
      BY <2>1 DEF vars, Held
    <3> QED
      BY <2>1, <3>1 DEF vars, SharedInv, Oversized
  <2>2. CASE Next
    BY <2>2, StorageStep, LoopStep, CallStep, TickStep DEF Next
  <2> QED
    BY <2>1, <2>2
<1> QED
  BY <1>1, <1>2, PTL DEF Spec

\* However many browsers read, overwrite and lose answers in whatever order:
\* documents keep their shape and the stored one the route's limits, an
\* institution and a hash are in it once, and participants counts the
\* registrations (writeSharedActivity, update-gist).
THEOREM SharedDocumentSound == Spec => [](TypeOK /\ DocumentIsConsistent)
<1>1. SharedInv => TypeOK /\ DocumentIsConsistent
  <2> SUFFICES ASSUME SharedInv PROVE TypeOK /\ DocumentIsConsistent
    OBVIOUS
  <2> DEFINE D == Docs(registered, Held)
  <2>1. Held \subseteq Hash \union {NoHash}
    <3>1. ASSUME NEW b \in Browser PROVE Range(updates[b]) \subseteq Hash \union {NoHash}
      BY DEF SharedInv, Range
    <3> QED
      BY <3>1 DEF Held
  <2>2. D \subseteq Document
    <3>1. D \subseteq Docs(Browser, Hash \union {NoHash})
      BY <2>1, SoundGrows DEF SharedInv
    <3>2. Docs(Browser, Hash \union {NoHash}) \subseteq Document
      BY Zenon DEF Docs, Document
    <3> QED
      BY <3>1, <3>2, Zenon
  <2>3. ASSUME NEW th \in Thread
        PROVE  call[th].pc \in {"idle", "loading", "reading", "posting", "answered"} /\ call[th].body \in D
    <3>1. call[th] \in Calls(registered, Held)
      BY DEF SharedInv
    <3> QED
      BY <3>1 DEF Calls
  <2>4. gist \in D /\ ~Oversized(gist)
    BY DEF SharedInv
  <2>5. Len(gist.updates) <= MAX_UPDATES /\ Len(gist.registrations) <= MAX_REGISTRATIONS
    <3>1. Len(gist.updates) \in Nat /\ Len(gist.registrations) \in Nat
      BY <2>4 DEF Docs
    <3> QED
      BY <2>4, <3>1, StoreAssumption DEF Oversized
  <2>6. TypeOK
    <3> HIDE DEF D
    <3> QED
      BY <2>2, <2>3, <2>4, <2>5 DEF TypeOK, SharedInv
  <2>7. DocumentIsConsistent
    BY <2>4 DEF Docs, DocumentIsConsistent, IsInjective
  <2> QED
    BY <2>6, <2>7
<1> QED
  BY <1>1, SharedInvariant, PTL

\* Nothing is in the document that no browser stored first, whatever was
\* lost, repeated or overwritten on the way (register/page.tsx, submit/page.tsx,
\* the auto-sync of network/page.tsx).
THEOREM SharedFromStorage == Spec => []SharedIsLocal
<1>1. SharedInv => SharedIsLocal
  <2> SUFFICES ASSUME SharedInv PROVE SharedIsLocal
    OBVIOUS
  <2>1. gist.updates \in Seq(Held) /\ gist.registrations \in Seq({Id(b) : b \in registered})
    BY DEF SharedInv, Docs
  <2>2. ASSUME NEW i \in DOMAIN gist.registrations
        PROVE  \E b \in registered : gist.registrations[i] = Id(b)
    BY <2>1
  <2>3. ASSUME NEW i \in DOMAIN gist.updates
        PROVE  \E b \in Browser : gist.updates[i] \in Range(updates[b])
    <3>1. gist.updates[i] \in Held
      BY <2>1
    <3> QED
      BY <3>1, Zenon DEF Held
  <2> QED
    BY <2>2, <2>3 DEF SharedIsLocal
<1> QED
  BY <1>1, SharedInvariant, PTL
=============================================================================
