------------------------------- MODULE AuditLog -------------------------------
(***************************************************************************)
(* The hash-chained audit log of agent actions                             *)
(* (crates/miru-agent/src/audit.rs).  Every agent session of a host opens  *)
(* its own AuditLog on the same file (handle_viewer in                     *)
(* miru-host/src/session.rs); each remembers the last hash and the next    *)
(* sequence number from when it opened the file.                           *)
(*                                                                         *)
(* An entry is numbered by the append() call that made it, and that number *)
(* stands for the SHA-256 of the entry: different entries have different   *)
(* hashes.  0 is the genesis hash.                                         *)
(***************************************************************************)
EXTENDS Integers, Sequences

CONSTANTS
  Writers,      \* AuditLog instances on one file, in turn or side by side
  MaxAppends    \* bound: append() calls

ASSUME AuditAssumption == MaxAppends \in Nat

VARIABLES
  file,        \* the lines of the log file
  appends,     \* append() calls so far
  isOpen,      \* isOpen[w]: the instance exists
  last_hash, next_seq,   \* the fields of an instance
  buffer,      \* lines in an instance's BufWriter
  acked,       \* entries append() returned Ok for
  trouble      \* the last mishap so far: a failed append, or two instances at once

vars == <<file, appends, isOpen, last_hash, next_seq, buffer, acked, trouble>>

Entry == [hash : Nat, seq : Nat, prev_hash : Nat]

LastHash(s) == IF s = <<>> THEN 0 ELSE s[Len(s)].hash

-----------------------------------------------------------------------------
Init ==
  /\ file = <<>> /\ appends = 0 /\ acked = {} /\ trouble = "none"
  /\ isOpen = [w \in Writers |-> FALSE]
  /\ last_hash = [w \in Writers |-> 0]
  /\ next_seq = [w \in Writers |-> 0]
  /\ buffer = [w \in Writers |-> <<>>]

\* replay_chain: every line has the next number and the hash of the line
\* before it.
ReplayChain(s) ==
  \A i \in 1..Len(s) :
    /\ s[i].seq = i - 1
    /\ s[i].prev_hash = IF i = 1 THEN 0 ELSE s[i - 1].hash

\* Mutant: a log that is opened starts a new chain.
RecoverNothing(w) ==
  /\ last_hash' = [last_hash EXCEPT ![w] = 0]
  /\ next_seq' = [next_seq EXCEPT ![w] = 0]

\* What AuditLog::open takes over from the file.
Recover(w) ==
  /\ last_hash' = [last_hash EXCEPT ![w] = LastHash(file)]
  /\ next_seq' = [next_seq EXCEPT ![w] = Len(file)]

\* AuditLog::open: fails on a broken chain.
Open(w) ==
  /\ ~isOpen[w]
  /\ ReplayChain(file)
  /\ isOpen' = [isOpen EXCEPT ![w] = TRUE]
  /\ trouble' = IF \E v \in Writers : isOpen[v] THEN "overlap" ELSE trouble
  /\ Recover(w)
  /\ UNCHANGED <<file, appends, buffer, acked>>

\* The line append() makes.
NewEntry(w) == [hash |-> appends + 1, seq |-> next_seq[w], prev_hash |-> last_hash[w]]

\* append(): what is in the buffer and the new line reach the file (flush),
\* are synced, and the instance moves on.
AppendOk(w) ==
  /\ isOpen[w] /\ appends < MaxAppends
  /\ appends' = appends + 1
  /\ file' = Append(file \o buffer[w], NewEntry(w))
  /\ buffer' = [buffer EXCEPT ![w] = <<>>]
  /\ last_hash' = [last_hash EXCEPT ![w] = appends + 1]
  /\ next_seq' = [next_seq EXCEPT ![w] = @ + 1]
  /\ acked' = acked \cup {NewEntry(w)}
  /\ UNCHANGED <<isOpen, trouble>>

\* append(): flush fails, and the line stays in the BufWriter; the caller
\* gets an error and the instance has not moved.
FlushFails(w) ==
  /\ isOpen[w] /\ appends < MaxAppends
  /\ appends' = appends + 1
  /\ buffer' = [buffer EXCEPT ![w] = Append(@, NewEntry(w))]
  /\ trouble' = "failure"
  /\ UNCHANGED <<file, isOpen, last_hash, next_seq, acked>>

\* append(): the line is in the file, and sync_data fails.
SyncFails(w) ==
  /\ isOpen[w] /\ appends < MaxAppends
  /\ appends' = appends + 1
  /\ file' = Append(file \o buffer[w], NewEntry(w))
  /\ buffer' = [buffer EXCEPT ![w] = <<>>]
  /\ trouble' = "failure"
  /\ UNCHANGED <<isOpen, last_hash, next_seq, acked>>

\* The session ends: the BufWriter is dropped, which flushes what it holds.
Close(w) ==
  /\ isOpen[w]
  /\ isOpen' = [isOpen EXCEPT ![w] = FALSE]
  /\ file' = file \o buffer[w]
  /\ buffer' = [buffer EXCEPT ![w] = <<>>]
  /\ last_hash' = [last_hash EXCEPT ![w] = 0]
  /\ next_seq' = [next_seq EXCEPT ![w] = 0]
  /\ UNCHANGED <<appends, acked, trouble>>

\* The process dies: buffers are lost.
Crash ==
  /\ \E w \in Writers : isOpen[w]
  /\ isOpen' = [w \in Writers |-> FALSE]
  /\ buffer' = [w \in Writers |-> <<>>]
  /\ last_hash' = [w \in Writers |-> 0]
  /\ next_seq' = [w \in Writers |-> 0]
  /\ UNCHANGED <<file, appends, acked, trouble>>

Next ==
  \/ \E w \in Writers : Open(w) \/ AppendOk(w) \/ FlushFails(w) \/ SyncFails(w) \/ Close(w)
  \/ Crash

Spec == Init /\ [][Next]_vars

-----------------------------------------------------------------------------
\* The ranges of the variables.
TypeOK ==
  /\ file \in Seq(Entry)
  /\ appends \in 0..MaxAppends
  /\ isOpen \in [Writers -> BOOLEAN]
  /\ last_hash \in [Writers -> Nat]
  /\ next_seq \in [Writers -> Nat]
  /\ buffer \in [Writers -> Seq(Entry)]
  /\ acked \subseteq Entry /\ trouble \in {"none", "failure", "overlap"}

\* As long as no append failed and no two sessions overlapped, the log
\* verifies at every moment, also right after a crash or a reopening: a log
\* nobody tampered with does not look tampered with.
ChainIntact == trouble = "none" => ReplayChain(file)

\* What append() returned Ok for is in the file at the number it returned,
\* across crashes, under the same condition.
AckedIsDurable == trouble = "none" => \A e \in acked : e.seq < Len(file) /\ file[e.seq + 1] = e

\* Whatever fails and however many sessions write, an action that append()
\* returned Ok for stays on record, with everything that was before it.
AckedIsKept == \A e \in acked : \E i \in 1..Len(file) : file[i] = e

\* A log that does not verify is never written so that it verifies again.
BrokenStaysBroken == [][~ReplayChain(file) => ~ReplayChain(file')]_vars

-----------------------------------------------------------------------------
(* What the code's comment says and the code does not do.                  *)

\* append() is "Atomic: either fully written + chained or rejected", and
\* "later entries reference earlier hashes": the log always verifies.
LogVerifies == ReplayChain(file)
=============================================================================
