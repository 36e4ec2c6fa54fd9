----------------------------- MODULE FileTransfer -----------------------------
(***************************************************************************)
(* Files a viewer sends to the host (handle_file_transfer and the end of   *)
(* handle_viewer in crates/miru-host/src/session.rs).  Every session has   *)
(* its own map of transfers; all sessions write into one directory, each   *)
(* transfer to a temp file that is renamed when its hash is right.         *)
(*                                                                         *)
(* A file is a sequence of blocks.  The file a viewer announces has        *)
(* FileBlocks blocks and its hash; a block it sends is "good" where the    *)
(* announced file has that very block at that offset.                      *)
(***************************************************************************)
EXTENDS Integers, FiniteSets

CONSTANTS
  Senders,         \* handle_viewer tasks that run side by side
  Ids,              \* transfer ids (UUIDs, so no two sessions share one)
  OwnerOf,          \* OwnerOf[id]: the session whose viewer uses the id
  None,
  FileBlocks,       \* blocks of an announced file
  max_file_bytes,   \* the largest announced size, in blocks
  MAX_CONCURRENT_TRANSFERS,   \* 8
  MAX_DEDUP         \* 9999: numbered names that are tried

ASSUME TransferAssumption ==
  /\ IsFiniteSet(Ids)
  /\ OwnerOf \in [Ids -> Senders]
  /\ FileBlocks \in Nat \ {0} /\ max_file_bytes \in Nat
  /\ MAX_CONCURRENT_TRANSFERS \in Nat /\ MAX_DEDUP \in Nat
  /\ None \notin Ids /\ None \notin [id : Ids, to : 0..MAX_DEDUP]

VARIABLES
  running,     \* running[s]: TRUE, or how handle_viewer returned
  transfers,   \* ids in the HashMap of their session
  size,        \* the size announced for an id
  temp,        \* ids whose temp file exists
  len, good,   \* length of a temp file, and the offsets that hold the right block
  moving,      \* moving[s]: the transfer being renamed and where to
  saved,       \* name -> the id whose file it is, or None
  intact,      \* ids whose file had the right content when it was saved
  used         \* ids that were announced

transferVars == <<running, transfers, size, temp, len, good, moving, saved, intact, used>>

\* Every file is announced under one name: 0 is the name itself, n is
\* "name (n)".
Names == 0..MAX_DEDUP

Mine(s) == {id \in transfers : OwnerOf[id] = s}
Idle(s) == running[s] = "yes" /\ moving[s] = None

-----------------------------------------------------------------------------
TransferInit ==
  /\ running = [s \in Senders |-> "yes"]
  /\ transfers = {} /\ temp = {} /\ intact = {} /\ used = {}
  /\ size = [id \in Ids |-> 0]
  /\ len = [id \in Ids |-> 0]
  /\ good = [id \in Ids |-> {}]
  /\ moving = [s \in Senders |-> None]
  /\ saved = [n \in Names |-> None]

\* Start: the checks that refuse a transfer without a trace.
Admits(s, n) ==
  /\ Cardinality(Mine(s)) < MAX_CONCURRENT_TRANSFERS
  /\ n <= max_file_bytes

\* Start: the temp file is created, which fails if it exists (create_new).
Start(id, n) ==
  LET s == OwnerOf[id]
  IN  /\ Idle(s) /\ id \notin temp /\ id \notin used
      /\ Admits(s, n)
      /\ transfers' = transfers \cup {id}
      /\ size' = [size EXCEPT ![id] = n]
      /\ temp' = temp \cup {id}
      /\ used' = used \cup {id}
      /\ UNCHANGED <<running, len, good, moving, saved, intact>>

\* The temp file and the entry are gone.
Forget(id) ==
  /\ transfers' = transfers \ {id}
  /\ temp' = temp \ {id}

\* Chunk of one block at offset o, within the announced size.
Chunk(id, o, right) ==
  /\ Idle(OwnerOf[id]) /\ id \in transfers
  /\ o + 1 <= size[id]
  /\ len' = [len EXCEPT ![id] = IF o + 1 > @ THEN o + 1 ELSE @]
  /\ good' = [good EXCEPT ![id] = IF right THEN @ \cup {o} ELSE @ \ {o}]
  /\ UNCHANGED <<running, transfers, size, temp, moving, saved, intact, used>>

\* Chunk past the announced size, a write error, Abort by the peer, or a Done
\* whose temp file cannot be read.
Drop(id) ==
  /\ Idle(OwnerOf[id]) /\ id \in transfers
  /\ Forget(id)
  /\ UNCHANGED <<running, size, len, good, moving, saved, intact, used>>

\* Mutant: the announced size is compared instead of the content.
HashMatchesBySize(id) == len[id] = FileBlocks

\* hash_file_streaming: a block that was never written reads as zeros.
HashMatches(id) == len[id] = FileBlocks /\ good[id] = 0..(FileBlocks - 1)

\* Mutant: no other name is tried.
FreeNameFirst == {0}

\* The first free name.  The loop leaves its counter one past the name it
\* settled on, so the last numbered name is never used.
FreeName == {n \in Names : n < MAX_DEDUP /\ saved[n] = None /\ \A m \in 0..(n-1) : saved[m] # None}

\* Done: the transfer is over, its hash is checked and a name is looked up;
\* a wrong hash, or no name, removes the temp file.
Done(id) ==
  LET s == OwnerOf[id]
  IN  /\ Idle(s) /\ id \in transfers
      /\ transfers' = transfers \ {id}
      /\ IF HashMatches(id) /\ FreeName # {}
           THEN \E n \in FreeName :
                  /\ moving' = [moving EXCEPT ![s] = [id |-> id, to |-> n]]
                  /\ UNCHANGED temp
           ELSE temp' = temp \ {id} /\ UNCHANGED moving
      /\ UNCHANGED <<running, size, len, good, saved, intact, used>>

\* Done, continued: rename replaces a file that has appeared meanwhile.
Rename(s) ==
  /\ moving[s] # None
  /\ LET m == moving[s]
     IN  /\ saved' = [saved EXCEPT ![m.to] = m.id]
         /\ temp' = temp \ {m.id}
         /\ intact' = IF len[m.id] = FileBlocks /\ good[m.id] = 0..(FileBlocks - 1)
                        THEN intact \cup {m.id} ELSE intact
  /\ moving' = [moving EXCEPT ![s] = None]
  /\ UNCHANGED <<running, transfers, size, len, good, used>>

\* Done, continued: the rename fails.
RenameFails(s) ==
  /\ moving[s] # None
  /\ temp' = temp \ {moving[s].id}
  /\ moving' = [moving EXCEPT ![s] = None]
  /\ UNCHANGED <<running, transfers, size, len, good, saved, intact, used>>

\* Mutant: what the loop leaves behind is not removed.
EndBreakLeaves(s) ==
  /\ Idle(s)
  /\ running' = [running EXCEPT ![s] = "ended"]
  /\ transfers' = transfers \ Mine(s)
  /\ UNCHANGED <<size, temp, len, good, moving, saved, intact, used>>

\* The session loop breaks: Close, the end of the relay, a failed send.
EndBreak(s) ==
  /\ Idle(s)
  /\ running' = [running EXCEPT ![s] = "ended"]
  /\ transfers' = transfers \ Mine(s)
  /\ temp' = temp \ Mine(s)
  /\ UNCHANGED <<size, len, good, moving, saved, intact, used>>

\* `match msg?`: a receive error returns at once, past the cleanup.
EndError(s) ==
  /\ Idle(s)
  /\ running' = [running EXCEPT ![s] = "failed"]
  /\ transfers' = transfers \ Mine(s)
  /\ UNCHANGED <<size, temp, len, good, moving, saved, intact, used>>

TransferNext ==
  \/ \E id \in Ids :
       \/ \E n \in 1..(FileBlocks + 1) : Start(id, n)
       \/ \E o \in 0..FileBlocks, right \in BOOLEAN : Chunk(id, o, right)
       \/ Drop(id) \/ Done(id)
  \/ \E s \in Senders : Rename(s) \/ RenameFails(s) \/ EndBreak(s) \/ EndError(s)

TransferSpec == TransferInit /\ [][TransferNext]_transferVars

-----------------------------------------------------------------------------
\* The ranges of the variables; open temp files of a session are bounded by
\* MAX_CONCURRENT_TRANSFERS.
TransferTypeOK ==
  /\ running \in [Senders -> {"yes", "ended", "failed"}]
  /\ transfers \subseteq Ids /\ temp \subseteq Ids /\ intact \subseteq Ids /\ used \subseteq Ids
  /\ size \in [Ids -> 0..max_file_bytes]
  /\ len \in [Ids -> Nat] /\ \A id \in Ids : len[id] <= size[id]
  /\ good \in [Ids -> SUBSET (0..max_file_bytes)]
  /\ moving \in [Senders -> [id : Ids, to : Names] \cup {None}]
  /\ saved \in [Names -> Ids \cup {None}]
  /\ \A s \in Senders : Cardinality(Mine(s)) <= MAX_CONCURRENT_TRANSFERS

\* Only a file with the announced content is ever saved under a visible name,
\* whatever chunks were lost, repeated, reordered or wrong.
SavedIsIntact == \A n \in Names : saved[n] # None => saved[n] \in intact

\* Every temp file belongs to a transfer in progress or to a session that
\* left through an error: refused, aborted and finished transfers and ended
\* sessions leave none behind.
TempIsOwned ==
  \A id \in temp :
    \/ id \in transfers
    \/ moving[OwnerOf[id]] # None /\ moving[OwnerOf[id]].id = id
    \/ running[OwnerOf[id]] = "failed"

\* A session never overwrites a file it has saved before.
OwnFileKept ==
  [][\A n \in Names : (saved[n] # None /\ saved'[n] # saved[n])
        => OwnerOf[saved'[n]] # OwnerOf[saved[n]]]_transferVars
=============================================================================
