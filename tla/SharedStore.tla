----------------------------- MODULE SharedStore -----------------------------
(***************************************************************************)
(* The activity list that Syndex frontends share through one JSON document  *)
(* (a gist): browsers read the document, add an entry and write the whole   *)
(* document back through the update-gist route. writeSharedActivity waits   *)
(* twice, for the read and for the write, and anything may happen then.     *)
(* Browsers also compare the document with their own history on every page  *)
(* load and every 30 s, and write what they miss (auto-sync). Each of these *)
(* loops runs detached: nothing waits for the one before it, so a browser   *)
(* may have several under way.                                              *)
(*                                                                          *)
(* Time counts in ticks of which Cooldown make the 60 s that are both the   *)
(* browser's cooldown and the route's rate-limit window. An update is known *)
(* by its gradient hash; its transaction id adds nothing to the comparison. *)
(***************************************************************************)
EXTENDS Naturals, Sequences, Functions, FiniteSetsExt

CONSTANTS
  Browser,        \* browsers, each with one wallet
  Form, Loop,     \* bound: a browser's page writes and auto-syncs under way
                  \* at once (the code has none)
  InstitutionId,  \* deriveInstitutionId of that wallet
  Provisioned,    \* browsers whose storage holds an id for the submit page
  Hash,           \* gradient hashes
  NoHash,         \* the hash of an entry that has none
  Cooldown,       \* ticks in 60 s
  RATE_LIMIT,     \* requests of one browser the route takes within 60 s
  MAX_UPDATES, MAX_REGISTRATIONS,  \* the route's limits on a document
  Faults          \* TRUE: requests and the document's host may fail

ASSUME StoreAssumption ==
  /\ Provisioned \subseteq Browser /\ NoHash \notin Hash /\ Form \intersect Loop = {}
  /\ Cooldown \in Nat \ {0} /\ RATE_LIMIT \in Nat
  /\ MAX_UPDATES \in Nat /\ MAX_REGISTRATIONS \in Nat
  /\ Faults \in BOOLEAN

VARIABLES
  gist,        \* the shared document
  registered,  \* browsers with a registration in their storage
  updates,     \* syndex_updates in their storage
  todo,        \* what an auto-sync still has to write
  call,        \* the request each thread waits for: loadData's read, or the
               \* read and the write of writeSharedActivity
  age,         \* ticks since syndex_gist_last_write, Cooldown when expired
  requests     \* requestLog: requests by age in ticks

vars == <<gist, registered, updates, todo, call, age, requests>>

\* The pages' own writes, and the auto-syncs.
FormThread == Browser \X Form
LoopThread == Browser \X Loop
Thread == FormThread \union LoopThread

\* Ids are strings in the browser's storage and numbers in the document.
Text(id) == <<"text", id>>
ParseInt(key) == <<"number", key[2]>>

Op(type, key) == [type |-> type, key |-> key]
EmptyDocument == [participants |-> 0, updates |-> <<>>, registrations |-> <<>>]
NoCall == [pc |-> "idle", op |-> Op("", NoHash), body |-> EmptyDocument, reply |-> ""]

Init ==
  /\ gist = EmptyDocument /\ registered = {}
  /\ updates = [b \in Browser |-> <<>>]
  /\ todo = [th \in LoopThread |-> <<>>]
  /\ call = [th \in Thread |-> NoCall]
  /\ age = [b \in Browser |-> Cooldown]
  /\ requests = [b \in Browser |-> [i \in 0 .. Cooldown - 1 |-> 0]]

\* writeSharedActivity up to its first await: within the cooldown of the
\* last successful write the entry is dropped.
Started(th, op) ==
  IF age[th[1]] < Cooldown THEN call[th]
  ELSE [NoCall EXCEPT !.pc = "reading", !.op = op]

\* Wrong on purpose: the registration is shared but not stored.
RegisterUnstored(th) ==
  LET b == th[1] IN
  /\ b \notin registered /\ call[th].pc = "idle"
  /\ call' = [call EXCEPT ![th] = Started(th, Op("REGISTER", Text(InstitutionId[b])))]
  /\ UNCHANGED <<gist, registered, updates, todo, age, requests>>

\* register/page.tsx: store the registration and an event in the history,
\* then write without waiting.
Register(th) ==
  LET b == th[1] IN
  /\ b \notin registered /\ call[th].pc = "idle"
  /\ registered' = registered \union {b}
  /\ updates' = [updates EXCEPT ![b] = <<NoHash>> \o @]
  /\ call' = [call EXCEPT ![th] = Started(th, Op("REGISTER", Text(InstitutionId[b])))]
  /\ UNCHANGED <<gist, todo, age, requests>>

\* submit/page.tsx, with the id it finds in the storage.
Submit(th, h) ==
  LET b == th[1] IN
  /\ b \in Provisioned /\ call[th].pc = "idle" /\ h \notin Range(updates[b])
  /\ updates' = [updates EXCEPT ![b] = Append(@, h)]
  /\ call' = [call EXCEPT ![th] = Started(th, Op("SUBMIT", h))]
  /\ UNCHANGED <<gist, registered, todo, age, requests>>

\* What reading the document may return: any failure ends in an empty one.
Read == {gist} \union IF Faults THEN {EmptyDocument} ELSE {}

\* The entries of a history that have no hash or whose hash is not shared,
\* in their order.
Unshared(history, shared) ==
  LET upTo[n \in 0 .. Len(history)] ==
        IF n = 0 THEN <<>>
        ELSE IF history[n] = NoHash \/ history[n] \notin shared
             THEN Append(upTo[n - 1], history[n]) ELSE upTo[n - 1]
  IN  upTo[Len(history)]

\* Wrong on purpose: auto-sync forgets the registrations.
MissingUpdates(b, doc) ==
  LET subs == Unshared(updates[b], Range(doc.updates))
  IN  [i \in DOMAIN subs |-> Op("SUBMIT", subs[i])]

\* The entries of the storage that auto-sync does not find in the document:
\* registrations by id, then the history by hash.
Missing(b, doc) ==
  LET key  == Text(InstitutionId[b])
      regs == IF b \in registered /\ key \notin Range(doc.registrations)
              THEN <<Op("REGISTER", key)>> ELSE <<>>
      subs == Unshared(updates[b], Range(doc.updates))
  IN  regs \o [i \in DOMAIN subs |-> Op("SUBMIT", subs[i])]

\* loadData on a page load or its 30 s poll, up to its await: whatever the
\* other auto-syncs of the browser are doing.
Load(th) ==
  /\ call[th].pc = "idle" /\ todo[th] = <<>>
  /\ \E doc \in Read : call' = [call EXCEPT ![th] = [NoCall EXCEPT !.pc = "loading", !.body = doc]]
  /\ UNCHANGED <<gist, registered, updates, todo, age, requests>>

\* loadData after the await: the document read then against the storage now.
Compare(th) ==
  /\ call[th].pc = "loading"
  /\ todo' = [todo EXCEPT ![th] = Missing(th[1], call[th].body)]
  /\ call' = [call EXCEPT ![th] = NoCall]
  /\ UNCHANGED <<gist, registered, updates, age, requests>>

\* The next round of the detached loop.
AutoSync(th) ==
  /\ call[th].pc = "idle" /\ todo[th] # <<>>
  /\ call' = [call EXCEPT ![th] = Started(th, Head(todo[th]))]
  /\ todo' = [todo EXCEPT ![th] = Tail(@)]
  /\ UNCHANGED <<gist, registered, updates, age, requests>>

\* Wrong on purpose: an entry is added without a look at the others.
AddedAlways(doc, op) ==
  IF op.type = "REGISTER"
  THEN [doc EXCEPT !.registrations = Append(@, ParseInt(op.key)),
                   !.participants = Len(doc.registrations) + 1]
  ELSE [doc EXCEPT !.updates = Append(@, op.key)]

\* The document with the entry, unless it has it already: a registration by
\* its parsed id, an update by its hash, if it has one.
Added(doc, op) ==
  LET id == ParseInt(op.key) IN
  CASE op.type = "REGISTER" /\ id \notin Range(doc.registrations) ->
         [doc EXCEPT !.registrations = Append(@, id),
                     !.participants = Len(doc.registrations) + 1]
    [] op.type = "SUBMIT" /\ (op.key = NoHash \/ op.key \notin Range(doc.updates)) ->
         [doc EXCEPT !.updates = Append(@, op.key)]
    [] OTHER -> doc

\* writeSharedActivity between its two awaits.
ReadAndAdd(th) ==
  /\ call[th].pc = "reading"
  /\ \E doc \in Read :
       call' = [call EXCEPT ![th].pc = "posting", ![th].body = Added(doc, call[th].op)]
  /\ UNCHANGED <<gist, registered, updates, todo, age, requests>>

\* isRateLimited records the request, then counts those of the window; the
\* count is kept up to the first refused one.
Logged(b) == [requests[b] EXCEPT ![0] = IF @ > RATE_LIMIT THEN @ ELSE @ + 1]
IsRateLimited(b) == MapThenSumSet(LAMBDA i : Logged(b)[i], DOMAIN requests[b]) > RATE_LIMIT

\* Wrong on purpose: the limit is off by one.
OversizedLate(doc) ==
  Len(doc.updates) > MAX_UPDATES + 1 \/ Len(doc.registrations) > MAX_REGISTRATIONS + 1

\* The route's own limits on a document.
Oversized(doc) == Len(doc.updates) > MAX_UPDATES \/ Len(doc.registrations) > MAX_REGISTRATIONS

Answer(th, reply) ==
  call' = [call EXCEPT ![th] = [NoCall EXCEPT !.pc = "answered", !.reply = reply]]

\* The route refuses, the document's host refuses (with 403 or 429, which
\* the route reports as rateLimited, or otherwise), or it stores the document.
Refuse(th) ==
  /\ call[th].pc = "posting"
  /\ requests' = [requests EXCEPT ![th[1]] = Logged(th[1])]
  /\ \/ (IsRateLimited(th[1]) \/ Oversized(call[th].body)) /\ Answer(th, "error")
     \/ ~IsRateLimited(th[1]) /\ ~Oversized(call[th].body) /\ Faults
        /\ \E reply \in {"error", "limited"} : Answer(th, reply)
  /\ UNCHANGED <<gist, registered, updates, todo, age>>

\* Storing replaces the whole document; the answer may get lost.
Store(th) ==
  /\ call[th].pc = "posting" /\ ~IsRateLimited(th[1]) /\ ~Oversized(call[th].body)
  /\ requests' = [requests EXCEPT ![th[1]] = Logged(th[1])]
  /\ gist' = call[th].body
  /\ \E reply \in {"ok"} \union IF Faults THEN {"error"} ELSE {} : Answer(th, reply)
  /\ UNCHANGED <<registered, updates, todo, age>>

\* writeSharedActivity after the answer: only a success starts the cooldown.
Return(th) ==
  LET b == th[1] IN
  /\ call[th].pc = "answered"
  /\ age' = [age EXCEPT ![b] = IF call[th].reply = "ok" THEN 0 ELSE @]
  /\ call' = [call EXCEPT ![th] = NoCall]
  /\ UNCHANGED <<gist, registered, updates, todo, requests>>

Tick ==
  /\ age' = [b \in Browser |-> IF age[b] < Cooldown THEN age[b] + 1 ELSE Cooldown]
  /\ requests' = [b \in Browser |->
       [i \in 0 .. Cooldown - 1 |-> IF i = 0 THEN 0 ELSE requests[b][i - 1]]]
  /\ UNCHANGED <<gist, registered, updates, todo, call>>

Next ==
  \/ \E th \in FormThread : Register(th) \/ \E h \in Hash : Submit(th, h)
  \/ \E th \in LoopThread : Load(th) \/ Compare(th) \/ AutoSync(th)
  \/ \E th \in Thread : ReadAndAdd(th) \/ Refuse(th) \/ Store(th) \/ Return(th)
  \/ Tick

Spec == Init /\ [][Next]_vars

\* Pages poll every 30 s, loops and calls run on, requests are answered and
\* time passes; nobody has to register or submit.
Fairness ==
  /\ \A b \in Browser : WF_vars(\E loop \in Loop : Load(<<b, loop>>))
  /\ \A th \in LoopThread : WF_vars(Compare(th)) /\ WF_vars(AutoSync(th))
  /\ \A th \in Thread : WF_vars(ReadAndAdd(th)) /\ WF_vars(Refuse(th) \/ Store(th)) /\ WF_vars(Return(th))
  /\ WF_vars(Tick)

FairSpec == Spec /\ Fairness
------------------------------------------------------------------------------
Id(b) == ParseInt(Text(InstitutionId[b]))
Document == [participants : Nat, updates : Seq(Hash \union {NoHash}), registrations : Seq({Id(b) : b \in Browser})]

\* The document and the documents that calls are about to write have the
\* shape the route expects, and the stored one respects its two limits.
TypeOK ==
  /\ gist \in Document
  /\ Len(gist.updates) <= MAX_UPDATES /\ Len(gist.registrations) <= MAX_REGISTRATIONS
  /\ registered \subseteq Browser
  /\ \A b \in Browser :
       /\ updates[b] \in Seq(Hash \union {NoHash}) /\ age[b] \in 0 .. Cooldown
       /\ requests[b] \in [0 .. Cooldown - 1 -> 0 .. RATE_LIMIT + 1]
  /\ \A th \in Thread :
       /\ call[th].pc \in {"idle", "loading", "reading", "posting", "answered"}
       /\ call[th].body \in Document

\* However the writes of several browsers overwrite each other, the document
\* holds an institution and a gradient hash once, and its participants count
\* is the number of registrations (writeSharedActivity's two comparisons).
DocumentIsConsistent ==
  /\ gist.participants = Len(gist.registrations)
  /\ IsInjective(gist.registrations)
  /\ \A i, j \in DOMAIN gist.updates :
       gist.updates[i] = gist.updates[j] /\ gist.updates[i] # NoHash => i = j

\* Nothing is in the document that no browser stored first: the pages write
\* their own storage before they share, and a read that fails adds nothing.
SharedIsLocal ==
  /\ \A i \in DOMAIN gist.registrations : \E b \in registered : gist.registrations[i] = Id(b)
  /\ \A i \in DOMAIN gist.updates : \E b \in Browser : gist.updates[i] \in Range(updates[b])

\* At most one auto-sync of a browser is under way.
OneLoop(b) ==
  \A th, u \in {b} \X Loop :
    th # u => \E v \in {th, u} : call[v].pc = "idle" /\ todo[v] = <<>>

\* A browser on its own gets its registration into the document for good,
\* even if the cooldown dropped the page's write or overlapping writes
\* removed it: auto-sync repairs it once its loops no longer overlap and the
\* route no longer refuses its requests. (Loops that keep overlapping can
\* remove it again and again.)
RegistrationIsShared ==
  \A b \in Browser :
    <>[](OneLoop(b) /\ ~IsRateLimited(b)) =>
      ((b \in registered) ~> [](Id(b) \in Range(gist.registrations)))

\* network/page.tsx and page.tsx: "Auto-sync local data to Gist shared store
\* if missing". An update in the storage comes to be in the document.
UpdateIsShared ==
  \A b \in Browser, h \in Hash :
    (h \in Range(updates[b])) ~> (h \in Range(gist.updates))
==============================================================================
