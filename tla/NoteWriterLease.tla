-------------------------- MODULE NoteWriterLease --------------------------
(***************************************************************************)
(* The running notes of one session (workbench_note_writer.py): threads of *)
(* one or more server processes tick the note writer, a database lease per *)
(* session is to keep two model calls from overlapping, and an idempotency *)
(* key made of the tick slot and the context keeps a note from appearing   *)
(* twice.  The lease belongs to a process, not to a thread: every thread   *)
(* of a runner ticks with the runner's one lease_owner.                    *)
(***************************************************************************)
EXTENDS Naturals, Sequences

CONSTANTS Process,     \* server processes, a restarted one being a new one
          Thread,      \* threads that tick: workers, heartbeats, triage
          ProcessOf,   \* the process of each thread
          NoProcess,
          LeaseSlots,  \* NOTE_WRITER_LEASE_SECONDS in tick slots
          MaxSlot,     \* the last tick slot considered
          MaxFacts     \* how often the session's facts change

ASSUME NoteAssumption ==
    /\ ProcessOf \in [Thread -> Process]
    /\ NoProcess \notin Process
    /\ LeaseSlots \in Nat /\ MaxSlot \in Nat /\ MaxFacts \in Nat

VARIABLES slot,   \* the clock in tick slots of NOTE_WRITER_TICK_SECONDS
          facts,  \* the version of what a note's context is built from
          lease,  \* the session's row of workbench_note_writer_leases
          pc,     \* where each thread is in tick_session
          key,    \* the tick slot and context each thread works with
          notes,  \* the notes of the session, by idempotency key, in order
          up      \* the processes alive

noteVars == <<slot, facts, lease, pc, key, notes, up>>

Key == [slot : 0..MaxSlot, facts : 0..MaxFacts]
NoLease == [owner |-> NoProcess, left |-> 0]
Calling(t) == pc[t] = "calling"

NoteTypeOK ==
    /\ slot \in 0..MaxSlot /\ facts \in 0..MaxFacts
    /\ lease \in [owner : Process \cup {NoProcess}, left : 0..LeaseSlots]
    /\ pc \in [Thread -> {"idle", "claiming", "calling", "releasing"}]
    /\ key \in [Thread -> Key]
    /\ notes \in Seq(Key)
    /\ up \subseteq Process

NotesInit ==
    /\ slot = 0 /\ facts = 0
    /\ lease = NoLease
    /\ pc = [t \in Thread |-> "idle"]
    /\ key = [t \in Thread |-> [slot |-> 0, facts |-> 0]]
    /\ notes = <<>>
    /\ up = Process

\* tick_session builds the context and its idempotency key.
BeginTick(t) ==
    /\ ProcessOf[t] \in up
    /\ pc[t] = "idle"
    /\ pc' = [pc EXCEPT ![t] = "claiming"]
    /\ key' = [key EXCEPT ![t] = [slot |-> slot, facts |-> facts]]
    /\ UNCHANGED <<slot, facts, lease, notes, up>>

HeldByOther(p) == lease.owner \notin {NoProcess, p} /\ lease.left > 0

\* A lease is taken when there is none, it has run out or it is this process's own.
ClaimLease(t) ==
    /\ pc[t] = "claiming"
    /\ IF HeldByOther(ProcessOf[t])
       THEN pc' = [pc EXCEPT ![t] = "idle"] /\ UNCHANGED lease
       ELSE /\ lease' = [owner |-> ProcessOf[t], left |-> LeaseSlots]
            /\ pc' = [pc EXCEPT ![t] = "calling"]
    /\ UNCHANGED <<slot, facts, key, notes, up>>

\* Wrong variant: no look for an earlier note of the key.
AppendAlways(k) == notes' = Append(notes, k)

\* try_append_workbench_note: the note of a key that has one is not repeated.
AppendOnce(k) == notes' = IF \E i \in DOMAIN notes : notes[i] = k THEN notes ELSE Append(notes, k)

\* The model answered with a text that validates.
WriteNote(t) ==
    /\ Calling(t)
    /\ AppendOnce(key[t])
    /\ pc' = [pc EXCEPT ![t] = "releasing"]
    /\ UNCHANGED <<slot, facts, lease, key, up>>

\* The model fails or says nothing, or its text does not validate.
WriteNothing(t) ==
    /\ Calling(t)
    /\ pc' = [pc EXCEPT ![t] = "releasing"]
    /\ UNCHANGED <<slot, facts, lease, key, notes, up>>

\* release_workbench_note_writer_lease deletes the row if it names this owner.
ReleaseLease(t) ==
    /\ pc[t] = "releasing"
    /\ lease' = IF lease.owner = ProcessOf[t] THEN NoLease ELSE lease
    /\ pc' = [pc EXCEPT ![t] = "idle"]
    /\ UNCHANGED <<slot, facts, key, notes, up>>

\* The session moves on: the next context is another one.
FactsChange ==
    /\ facts < MaxFacts
    /\ facts' = facts + 1
    /\ UNCHANGED <<slot, lease, pc, key, notes, up>>

\* A tick slot passes, whatever calls are in flight.
SlotPasses ==
    /\ slot < MaxSlot
    /\ slot' = slot + 1
    /\ lease' = [lease EXCEPT !.left = IF @ > 0 THEN @ - 1 ELSE 0]
    /\ UNCHANGED <<facts, pc, key, notes, up>>

\* A process dies with its threads; its lease stays behind.
Crash(p) ==
    /\ p \in up
    /\ up' = up \ {p}
    /\ pc' = [t \in Thread |-> IF ProcessOf[t] = p THEN "idle" ELSE pc[t]]
    /\ UNCHANGED <<slot, facts, lease, key, notes>>

NotesNext ==
    \/ \E t \in Thread : BeginTick(t) \/ ClaimLease(t) \/ WriteNote(t) \/ WriteNothing(t) \/ ReleaseLease(t)
    \/ \E p \in Process : Crash(p)
    \/ FactsChange \/ SlotPasses

NotesSpec == NotesInit /\ [][NotesNext]_noteVars

-----------------------------------------------------------------------------
(* Properties.                                                             *)

\* However many threads tick in a slot, and whoever lost the lease meanwhile, no
\* note appears twice (the (session, tick slot, context) idempotency key).
NoNoteTwice == \A i, k \in DOMAIN notes : notes[i] = notes[k] => i = k

=============================================================================
