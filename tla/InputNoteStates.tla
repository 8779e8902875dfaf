--------------------------- MODULE InputNoteStates ---------------------------
(***************************************************************************)
(* The state machine of an input note record, as the transition table of    *)
(* miden-client: one operator per state type, taking an event and returning *)
(* the next state, the same state (the code's Ok(None)) or Failed (Err).    *)
(*                                                                          *)
(* An event has a kind and one Boolean, ok, for the only thing the handlers *)
(* look at in the data they receive:                                             *)
(*   proof     the proof and metadata equal the stored ones                 *)
(*   header    the proof verifies against the header's note root or, for a  *)
(*             note that is already committed, the root is the stored one   *)
(*   nullified (consumed_externally)  always TRUE                           *)
(*   local     the record knows the note's metadata                         *)
(*   committed the committed transaction is the one processing the note     *)
(***************************************************************************)

Failed == "Failed"

InputNoteState ==
  {"Expected", "Unverified", "Committed", "Invalid",
   "ProcessingAuthenticated", "ProcessingUnauthenticated",
   "ConsumedAuthenticatedLocal", "ConsumedUnauthenticatedLocal",
   "ConsumedExternal"}

Consumed ==
  {"ConsumedAuthenticatedLocal", "ConsumedUnauthenticatedLocal",
   "ConsumedExternal"}

Processing == {"ProcessingAuthenticated", "ProcessingUnauthenticated"}

Authenticated ==
  {"Committed", "ProcessingAuthenticated", "ConsumedAuthenticatedLocal"}

\* NoteFilter::Unspent, the records a sync loads.
Unspent == InputNoteState \ (Consumed \union {"Invalid"})

ExpectedNoteState(kind, ok) ==
  CASE kind = "proof"       -> "Unverified"
    [] kind = "nullified"   -> "ConsumedExternal"
    [] kind = "local" /\ ok -> "ProcessingUnauthenticated"
    [] OTHER                -> Failed

UnverifiedNoteState(kind, ok) ==
  CASE kind = "proof"         -> "Unverified"
    [] kind = "nullified"     -> "ConsumedExternal"
    [] kind = "header" /\ ok  -> "Committed"
    [] kind = "header" /\ ~ok -> "Invalid"
    [] kind = "local"         -> "ProcessingUnauthenticated"
    [] OTHER                  -> Failed

CommittedNoteState(kind, ok) ==
  CASE kind \in {"proof", "header"} /\ ok -> "Committed"
    [] kind = "nullified"                 -> "ConsumedExternal"
    [] kind = "local"                     -> "ProcessingAuthenticated"
    [] OTHER                              -> Failed

InvalidNoteState(kind, ok) ==
  CASE kind = "proof"         -> "Unverified"
    [] kind = "nullified"     -> "ConsumedExternal"
    [] kind = "header" /\ ok  -> "Committed"
    [] kind = "header" /\ ~ok -> "Invalid"
    [] OTHER                  -> Failed

ProcessingAuthenticatedNoteState(kind, ok) ==
  CASE kind = "proof" /\ ok     -> "ProcessingAuthenticated"
    [] kind = "nullified"       -> "ConsumedExternal"
    [] kind = "header"          -> "ProcessingAuthenticated"
    [] kind = "committed" /\ ok -> "ConsumedAuthenticatedLocal"
    [] OTHER                    -> Failed

ProcessingUnauthenticatedNoteState(kind, ok) ==
  CASE kind \in {"proof", "header"} -> "ProcessingUnauthenticated"
    [] kind = "nullified"           -> "ConsumedExternal"
    [] kind = "committed" /\ ok     -> "ConsumedUnauthenticatedLocal"
    [] OTHER                        -> Failed

ConsumedAuthenticatedLocalNoteState(kind, ok) ==
  IF kind \in {"local", "committed"} THEN Failed
  ELSE "ConsumedAuthenticatedLocal"

ConsumedUnauthenticatedLocalNoteState(kind, ok) ==
  IF kind \in {"local", "committed"} THEN Failed
  ELSE "ConsumedUnauthenticatedLocal"

ConsumedExternalNoteState(kind, ok) ==
  IF kind \in {"local", "committed"} THEN Failed
  ELSE "ConsumedExternal"

Transition(s, kind, ok) ==
  CASE s = "Expected"                     -> ExpectedNoteState(kind, ok)
    [] s = "Unverified"                   -> UnverifiedNoteState(kind, ok)
    [] s = "Committed"                    -> CommittedNoteState(kind, ok)
    [] s = "Invalid"                      -> InvalidNoteState(kind, ok)
    [] s = "ProcessingAuthenticated"      -> ProcessingAuthenticatedNoteState(kind, ok)
    [] s = "ProcessingUnauthenticated"    -> ProcessingUnauthenticatedNoteState(kind, ok)
    [] s = "ConsumedAuthenticatedLocal"   -> ConsumedAuthenticatedLocalNoteState(kind, ok)
    [] s = "ConsumedUnauthenticatedLocal" -> ConsumedUnauthenticatedLocalNoteState(kind, ok)
    [] s = "ConsumedExternal"             -> ConsumedExternalNoteState(kind, ok)
==============================================================================
