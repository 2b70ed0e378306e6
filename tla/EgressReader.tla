----------------------------- MODULE EgressReader -----------------------------
(***************************************************************************)
(* A script outside of the agent sends text: src/hermescloak/egress.py and *)
(* integrations/requests_egress.py.  It has no vault object and takes no   *)
(* lock: it reads the tombstone, the snapshot or its backup, and the       *)
(* journal one after the other, while the processes of DurableVault go on. *)
(* The vault directory holds one vault here.                               *)
(***************************************************************************)
EXTENDS DurableVault

CONSTANTS
  Reader,    \* the script's process: a process without threads, for its key
  MaxReads   \* bound: texts sent

ASSUME ReaderAssumption == Reader \in Procs /\ \A th \in Threads : ProcOf[th] # Reader

VARIABLES
  at,        \* where load_token_map is
  map,       \* token_to_real, as far as it has been read
  before,    \* history: what had been issued when the reading began
  listed,    \* history: the vault had a snapshot then, and no tombstone
  emptied,   \* history: the journal was emptied after the snapshot was read
  reads

readVars == <<at, map, before, listed, emptied, reads>>

ReadInit ==
  /\ Init
  /\ at = "idle" /\ map = NoTokens /\ before = {}
  /\ listed = FALSE /\ emptied = FALSE /\ reads = 0

-----------------------------------------------------------------------------
(* load_token_map.                                                         *)

\* The text to an allowed host holds a token: the vault's files are looked for.  A vault
\* without a snapshot, or with a tombstone, is passed over.
Look ==
  /\ at \in {"idle", "done"} /\ reads < MaxReads
  /\ reads' = reads + 1
  /\ map' = NoTokens /\ emptied' = FALSE /\ before' = issued
  /\ listed' = (disk.main # None /\ disk.cleared = None)
  /\ at' = IF listed' THEN "main" ELSE "done"
  /\ UNCHANGED vars

\* Mutant of ReadCopy: the backup is not asked.
ReadMainOnly(s) ==
  /\ map' = IF Readable(Reader, s) THEN s.t2r ELSE map
  /\ at' = "journal"

\* One candidate: what cannot be read, for whatever reason, is passed over.
ReadCopy(s) ==
  /\ map' = IF Readable(Reader, s) THEN s.t2r ELSE map
  /\ at' = IF at = "main" /\ ~Readable(Reader, s) THEN "bak" ELSE "journal"

ReadMain == at = "main" /\ ReadCopy(disk.main) /\ UNCHANGED <<vars, before, listed, emptied, reads>>
ReadBak == at = "bak" /\ ReadCopy(disk.bak) /\ UNCHANGED <<vars, before, listed, emptied, reads>>

\* setdefault: what the snapshot says stands.
WithJournal(lines) == [t \in Tokens |-> IF map[t] # None THEN map[t] ELSE lines[t]]

\* The journal's complete lines; one line under a key the script has not hides them all.
ReadLines ==
  /\ at = "journal"
  /\ map' = IF \E i \in DOMAIN disk.journal : LineLocked(Reader, disk.journal[i]) THEN map
            ELSE WithJournal(JournalTokens(Reader, disk, 0))
  /\ at' = "done"
  /\ UNCHANGED <<vars, before, listed, emptied, reads>>

Read == Look \/ ReadMain \/ ReadBak \/ ReadLines

\* A step of the agent's processes, as long as a text is still to be sent.
Write ==
  /\ at # "done" \/ reads < MaxReads
  /\ Next
  /\ emptied' = (emptied \/ (at \in {"bak", "journal"} /\ Len(disk'.journal) < Len(disk.journal)))
  /\ UNCHANGED <<at, map, before, listed, reads>>

ReadNext == Read \/ Write

ReadSpec == ReadInit /\ [][ReadNext]_<<vars, readVars>>

-----------------------------------------------------------------------------
(* Properties.                                                             *)

\* The text gets every value that was handed out before it is sent, although the reader
\* takes no lock, the snapshot that is there may be unreadable, the backup may be harmed
\* instead, and a writer may be anywhere in its compaction; unless the journal is emptied
\* between the reader's two reads (egress.py:63-80).  This holds of a vault that has a snapshot
\* and no tombstone when the reader looks.  Of any other it gets nothing at all, though a
\* backup or a journal may hold every token: "a token minted in any session/restart is
\* restorable" (lines 16-17) does not hold of a vault that lost its snapshot.
EgressComplete ==
  at = "done" /\ ~emptied =>
    IF listed THEN \A r \in before : map[r.tok] # None ELSE map = NoTokens

\* No token is sent as another value than the one it was handed out for in the lifetime on
\* disk, whatever was written between two of the reads.
EgressFaithful ==
  at = "done" /\ IsFile(disk.main) =>
    \A r \in issued : r.gen = disk.main.gen => map[r.tok] \in {None, r.val}
=============================================================================
