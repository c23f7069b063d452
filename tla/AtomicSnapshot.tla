--------------------------- MODULE AtomicSnapshot ---------------------------
(***************************************************************************)
(* recovery.atomic_snapshot, system call by system call: open the fixed    *)
(* name "<path>.pending" for writing (which truncates whatever inode that  *)
(* name already has), write the payload, fsync, os.replace onto the path.  *)
(*                                                                         *)
(* The callers come in two kinds.  sensitivity_worker and calibrate_worker *)
(* hold an exclusive flock from before their first save until they exit    *)
(* (Locked = TRUE).  export_deployment only tests that the output does not *)
(* exist and then saves once (Locked = FALSE).                             *)
(*                                                                         *)
(* A directory state is a pair of names; `dir` is what system calls see    *)
(* and `diskDir` what a power loss restores, a journaled prefix of the     *)
(* same history.  Data reaches the disk at fsync: a power loss may leave   *)
(* any inode not synced since its last write with arbitrary holes, taken   *)
(* here as all holes.                                                      *)
(***************************************************************************)
EXTENDS Naturals

CONSTANTS Writer,   \* processes that save to this one path
          Payload,  \* payloads
          Inode,    \* inodes, enough for one to be free at every open
          Chunks,   \* a payload is written in this many pieces
          Locked,   \* do the callers hold the exclusive lock?
          Absent,   \* a name with no file, a process with no open file
          Hole,     \* bytes that hold nothing of any payload
          Nobody    \* the lock is free

ASSUME SnapshotAssumption ==
  /\ Chunks \in Nat \ {0}
  /\ Locked \in BOOLEAN
  /\ Absent \notin Inode \cup Payload
  /\ Hole \notin Payload
  /\ Nobody \notin Writer

VARIABLES dir,      \* the two names now: [final, pending], each an inode or Absent
          diskDir,  \* the two names as the journal has them
          data,     \* data[i][k]: piece k of inode i, of some payload or a Hole
          synced,   \* inodes whose data is on the disk
          holder,   \* who holds the flock
          pc,       \* "out", "idle", "writing", "written" or "synced"
          fd,       \* the inode each process has open
          arg,      \* the payload it is saving
          at        \* the pieces it has written

vars == <<dir, diskDir, data, synced, holder, pc, fd, arg, at>>
files == <<dir, diskDir, data, synced>>

Piece == 1..Chunks
Empty == [k \in Piece |-> Hole]
Whole(i, v) == \A k \in Piece : data[i][k] = v
Linked == {dir.final, dir.pending, diskDir.final, diskDir.pending}
Free == Inode \ (Linked \cup {fd[w] : w \in Writer})

TypeOK ==
  /\ dir \in [final : Inode \cup {Absent}, pending : Inode \cup {Absent}]
  /\ diskDir \in [final : Inode \cup {Absent}, pending : Inode \cup {Absent}]
  /\ data \in [Inode -> [Piece -> Payload \cup {Hole}]]
  /\ synced \in SUBSET Inode
  /\ holder \in Writer \cup {Nobody}
  /\ pc \in [Writer -> {"out", "idle", "writing", "written", "synced"}]
  /\ fd \in [Writer -> Inode \cup {Absent}]
  /\ arg \in [Writer -> Payload \cup {Absent}]
  /\ at \in [Writer -> 0..Chunks]

Init ==
  /\ dir = [final |-> Absent, pending |-> Absent]
  /\ diskDir = [final |-> Absent, pending |-> Absent]
  /\ data = [i \in Inode |-> Empty]
  /\ synced = {}
  /\ holder = Nobody
  /\ pc = [w \in Writer |-> "out"]
  /\ fd = [w \in Writer |-> Absent]
  /\ arg = [w \in Writer |-> Absent]
  /\ at = [w \in Writer |-> 0]

-----------------------------------------------------------------------------
\* A worker that takes no notice of the lock.
EnterUnlocked(w) ==
  /\ pc[w] = "out"
  /\ holder' = w
  /\ pc' = [pc EXCEPT ![w] = "idle"]
  /\ UNCHANGED <<files, fd, arg, at>>

\* flock(LOCK_EX | LOCK_NB) at the start of a worker; a process that does not
\* get it dies at once and stays "out".  An exporter takes no lock and goes on
\* when the output does not exist yet.
Enter(w) ==
  /\ pc[w] = "out"
  /\ IF Locked THEN holder = Nobody /\ holder' = w
               ELSE dir.final = Absent /\ UNCHANGED holder
  /\ pc' = [pc EXCEPT ![w] = "idle"]
  /\ UNCHANGED <<files, fd, arg, at>>

\* temporary.open("wb"): a name that exists keeps its inode and loses its data.
Open(w, v) ==
  /\ pc[w] = "idle"
  /\ \E i \in IF dir.pending = Absent THEN Free ELSE {dir.pending} :
       /\ dir' = [dir EXCEPT !.pending = i]
       /\ data' = [data EXCEPT ![i] = Empty]
       /\ synced' = synced \ {i}
       /\ fd' = [fd EXCEPT ![w] = i]
  /\ pc' = [pc EXCEPT ![w] = "writing"]
  /\ arg' = [arg EXCEPT ![w] = v]
  /\ at' = [at EXCEPT ![w] = 0]
  /\ UNCHANGED <<diskDir, holder>>

\* The write does not stop at the end of the payload.
WritePieceRunsOn(w) ==
  /\ pc[w] \in {"writing", "written"}
  /\ at' = [at EXCEPT ![w] = @ + 1]
  /\ data' = [data EXCEPT ![fd[w]][at[w] + 1] = arg[w]]
  /\ synced' = synced \ {fd[w]}
  /\ pc' = [pc EXCEPT ![w] = IF at[w] + 1 = Chunks THEN "written" ELSE "writing"]
  /\ UNCHANGED <<dir, diskDir, holder, fd, arg>>

\* torch.save(payload, handle), one piece at a time, then handle.flush().
WritePiece(w) ==
  /\ pc[w] = "writing"
  /\ at[w] < Chunks
  /\ at' = [at EXCEPT ![w] = @ + 1]
  /\ data' = [data EXCEPT ![fd[w]][at[w] + 1] = arg[w]]
  /\ synced' = synced \ {fd[w]}
  /\ pc' = [pc EXCEPT ![w] = IF at[w] + 1 = Chunks THEN "written" ELSE "writing"]
  /\ UNCHANGED <<dir, diskDir, holder, fd, arg>>

\* The data is left in the page cache.
NoFsync(w) ==
  /\ pc[w] = "written"
  /\ pc' = [pc EXCEPT ![w] = "synced"]
  /\ UNCHANGED <<files, holder, fd, arg, at>>

\* os.fsync(handle.fileno()).
Fsync(w) ==
  /\ pc[w] = "written"
  /\ synced' = synced \cup {fd[w]}
  /\ pc' = [pc EXCEPT ![w] = "synced"]
  /\ UNCHANGED <<dir, diskDir, data, holder, fd, arg, at>>

\* The process leaves: its open file is closed and its flock, if any, dropped.
Leave(w) ==
  /\ pc' = [pc EXCEPT ![w] = "out"]
  /\ fd' = [fd EXCEPT ![w] = Absent]
  /\ arg' = [arg EXCEPT ![w] = Absent]
  /\ at' = [at EXCEPT ![w] = 0]
  /\ holder' = IF holder = w THEN Nobody ELSE holder

\* os.replace(temporary, path).  A worker goes on with the lock held; an exporter
\* ends here, having done its one save, or with FileNotFoundError when another
\* process has already renamed the pending file.
Replace(w) ==
  /\ pc[w] = "synced"
  /\ dir' = IF dir.pending = Absent THEN dir ELSE [final |-> dir.pending, pending |-> Absent]
  /\ IF Locked THEN /\ pc' = [pc EXCEPT ![w] = "idle"]
                    /\ fd' = [fd EXCEPT ![w] = Absent]
                    /\ arg' = [arg EXCEPT ![w] = Absent]
                    /\ at' = [at EXCEPT ![w] = 0]
                    /\ UNCHANGED holder
               ELSE Leave(w)
  /\ UNCHANGED <<diskDir, data, synced>>

\* The process exits between saves, or is killed (SIGKILL, OOM) anywhere.
Die(w) ==
  /\ pc[w] # "out"
  /\ Leave(w)
  /\ UNCHANGED files

\* The file system commits its journal.
SyncDir ==
  /\ diskDir' = dir
  /\ UNCHANGED <<dir, data, synced, holder, pc, fd, arg, at>>

\* The machine stops: names go back to the journal, data not synced is lost.
PowerLoss ==
  /\ dir' = diskDir
  /\ data' = [i \in Inode |-> IF i \in synced THEN data[i] ELSE Empty]
  /\ holder' = Nobody
  /\ pc' = [w \in Writer |-> "out"]
  /\ fd' = [w \in Writer |-> Absent]
  /\ arg' = [w \in Writer |-> Absent]
  /\ at' = [w \in Writer |-> 0]
  /\ UNCHANGED <<diskDir, synced>>

Next ==
  \/ \E w \in Writer :
       \/ Enter(w) \/ WritePiece(w) \/ Fsync(w) \/ Replace(w) \/ Die(w)
       \/ \E v \in Payload : Open(w, v)
  \/ SyncDir
  \/ PowerLoss

Spec == Init /\ [][Next]_vars

-----------------------------------------------------------------------------
\* A file that is there now, or that a power loss would bring back, holds one
\* whole payload: os.replace never publishes a half-written pending file, also
\* when an earlier writer was killed in the middle of one and left it behind.
FinalWhole ==
  \A i \in {dir.final, diskDir.final} \ {Absent} : \E v \in Payload : Whole(i, v)

\* What the register holds under the mapping of this specification to it.
Load(i) == IF i = Absent THEN Absent ELSE data[i][1]

Register == INSTANCE AtomicRegister WITH
  content <- Load(dir.final),
  durable <- Load(diskDir.final),
  saving <- arg

\* atomic_snapshot under the lock implements the one-register promise: every
\* save appears at one instant or not at all, whatever the interleaving of
\* saves, kills, restarts and power losses.
ImplementsRegister == Register!RegisterSpec
=============================================================================
