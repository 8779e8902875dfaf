----------------------------- MODULE NoteTracker -----------------------------
(***************************************************************************)
(* InputOutputNoteTracker (tools/miden-protocol/src/batch/                 *)
(* input_output_note_tracker.rs): the note bookkeeping that batches and    *)
(* blocks share.  A container (a batch, a block) presents                  *)
(*   - inputs: a set of [tag, nullifier, header].  header is an option, {} *)
(*     for an authenticated note and {note} for an unauthenticated one;    *)
(*   - outputs: a set of [tag, note], a note being [id, meta].             *)
(* A tag tells two occurrences of the same note apart.  A note's nullifier *)
(* is a function of its id, so the id stands for both.                     *)
(***************************************************************************)
EXTENDS Naturals

AnyInput(x) == TRUE

IsAuthenticated(x) == x.header = {}

HeaderIds(x) == {h.id : h \in x.header}

(* An inclusion proof is given for x, as proofs[id], the number of a block.*)
HasProof(x, proofs) == HeaderIds(x) \cap DOMAIN proofs # {}

(* authenticate_unauthenticated_note: the proof's block is the reference   *)
(* block or one before it, and its note tree holds exactly this header.    *)
ProofVerifies(x, proofs, notesOf, ref) ==
  \A h \in x.header :
    h.id \in DOMAIN proofs => /\ proofs[h.id] <= ref
                              /\ h \in notesOf[proofs[h.id]]

(* from_iter, first loop: notes with a valid proof lose their header.      *)
Authenticate(x, proofs) == IF HasProof(x, proofs) THEN [x EXCEPT !.header = {}] ELSE x

AuthenticateAll(inputs, proofs) == {Authenticate(x, proofs) : x \in inputs}

(* from_iter: no nullifier and no output id may occur twice.               *)
NoDuplicateOutputs(inputs, outputs) ==
  \A o, p \in outputs : o.note.id = p.note.id => o = p

NoDuplicates(inputs, outputs) ==
  /\ \A x, y \in inputs : x.nullifier = y.nullifier => x = y
  /\ \A o, p \in outputs : o.note.id = p.note.id => o = p

Creates(outputs, x) == \E o \in outputs : o.note.id \in HeaderIds(x)

(* remove_output_note: the note consumed is the note created, metadata     *)
(* included.                                                               *)
NoMismatch(inputs, outputs) ==
  \A x \in inputs, o \in outputs : \A h \in x.header : h.id = o.note.id => h = o.note

(* erase_notes: unauthenticated inputs created by the same container       *)
(* disappear together with the outputs they consume.                       *)
ErasedInputs(inputs, outputs) == {x \in inputs : Creates(outputs, x)}

KeptInputs(inputs, outputs) == inputs \ ErasedInputs(inputs, outputs)

KeptOutputs(inputs, outputs) == {o \in outputs : \A x \in inputs : o.note.id \notin HeaderIds(x)}

(* from_iter and erase_notes succeed.                                      *)
TrackerAccepts(inputs, outputs, proofs, notesOf, ref) ==
  /\ \A x \in inputs : ProofVerifies(x, proofs, notesOf, ref)
  /\ NoDuplicates(inputs, outputs)
  /\ NoMismatch(AuthenticateAll(inputs, proofs), outputs)
=============================================================================
