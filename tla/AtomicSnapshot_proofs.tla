----------------------- MODULE AtomicSnapshot_proofs -----------------------
(***************************************************************************)
(* With the lock held (Locked), a snapshot file is never torn and behaves  *)
(* like one register, for every number of writers, payloads and pieces.    *)
(***************************************************************************)
EXTENDS AtomicSnapshot, TLAPS

Saving(w) == pc[w] \in {"writing", "written", "synced"}

\* Only the holder of the lock is past the lock.
LockHeld == \A w \in Writer : pc[w] # "out" => holder = w

\* A published file is whole, and its data is on the disk.
Published ==
  \A i \in {dir.final, diskDir.final} \ {Absent} :
    i \in synced /\ \E v \in Payload : Whole(i, v)

\* The pending name never shares an inode with a published file.
Apart ==
  /\ dir.pending # Absent => dir.pending \notin {dir.final, diskDir.final}
  /\ diskDir.pending # Absent => diskDir.pending # diskDir.final

\* What a process has open is the pending file, and holds what it has written.
Written ==
  \A w \in Writer :
    /\ Saving(w) => /\ fd[w] = dir.pending
                    /\ fd[w] # Absent
                    /\ arg[w] \in Payload
                    /\ \A k \in 1..at[w] : data[fd[w]][k] = arg[w]
    /\ ~Saving(w) => fd[w] = Absent /\ arg[w] = Absent
    /\ pc[w] \in {"written", "synced"} => at[w] = Chunks
    /\ pc[w] = "synced" => fd[w] \in synced

IInv == TypeOK /\ LockHeld /\ Published /\ Apart /\ Written

-----------------------------------------------------------------------------
LEMMA InitInv == Init => IInv
<1> SUFFICES ASSUME Init
             PROVE  IInv
  OBVIOUS
<1>1. TypeOK
  BY SnapshotAssumption DEF Init, TypeOK, Empty, Piece
<1>2. LockHeld /\ Published /\ Apart /\ Written
  BY DEF Init, LockHeld, Published, Apart, Written, Saving
<1>. QED
  BY <1>1, <1>2 DEF IInv

\* Nobody else is past the lock when w is.
LEMMA Alone ==
  ASSUME IInv, NEW w \in Writer, pc[w] # "out", NEW u \in Writer, u # w
  PROVE  pc[u] = "out" /\ ~Saving(u) /\ fd[u] = Absent /\ arg[u] = Absent
  BY DEF IInv, LockHeld, Written, Saving

LEMMA EnterInv ==
  ASSUME IInv, Locked, NEW w \in Writer, Enter(w)
  PROVE  IInv'
<1>1. TypeOK'
  BY DEF IInv, TypeOK, Enter, files
<1>2. LockHeld'
  BY SnapshotAssumption DEF IInv, TypeOK, LockHeld, Enter
<1>3. Published' /\ Apart'
  BY DEF IInv, Published, Apart, Whole, Enter, files
<1>4. Written'
  BY DEF IInv, TypeOK, Written, Saving, Enter, files
<1>. QED
  BY <1>1, <1>2, <1>3, <1>4 DEF IInv

LEMMA OpenInv ==
  ASSUME IInv, NEW w \in Writer, NEW v \in Payload, Open(w, v)
  PROVE  IInv'
<1> USE SnapshotAssumption
<1>1. PICK i \in IF dir.pending = Absent THEN Free ELSE {dir.pending} :
        /\ dir' = [dir EXCEPT !.pending = i]
        /\ data' = [data EXCEPT ![i] = Empty]
        /\ synced' = synced \ {i}
        /\ fd' = [fd EXCEPT ![w] = i]
  BY DEF Open
<1>2. i \in Inode /\ i \notin {dir.final, diskDir.final}
  BY <1>1 DEF IInv, TypeOK, Apart, Free, Linked
<1>3. TypeOK'
  <2>1. Empty \in [Piece -> Payload \cup {Hole}]
    BY DEF Empty
  <2>2. data' \in [Inode -> [Piece -> Payload \cup {Hole}]]
    BY <1>1, <2>1 DEF IInv, TypeOK
  <2>3. dir' \in [final : Inode \cup {Absent}, pending : Inode \cup {Absent}]
    BY <1>1, <1>2 DEF IInv, TypeOK
  <2>. QED
    BY <1>1, <1>2, <2>2, <2>3 DEF IInv, TypeOK, Open
<1>4. LockHeld'
  BY DEF IInv, TypeOK, LockHeld, Open
<1>5. dir'.final = dir.final /\ dir'.pending = i /\ diskDir' = diskDir
  BY <1>1 DEF IInv, TypeOK, Open
<1>6. Published'
  BY <1>1, <1>2, <1>5 DEF IInv, TypeOK, Published, Whole
<1>7. Apart'
  BY <1>2, <1>5 DEF IInv, Apart
<1>8. Written'
  <2> SUFFICES ASSUME NEW u \in Writer
               PROVE  /\ Saving(u)' => /\ fd'[u] = dir'.pending
                                       /\ fd'[u] # Absent
                                       /\ arg'[u] \in Payload
                                       /\ \A k \in 1..at'[u] : data'[fd'[u]][k] = arg'[u]
                      /\ ~Saving(u)' => fd'[u] = Absent /\ arg'[u] = Absent
                      /\ pc'[u] \in {"written", "synced"} => at'[u] = Chunks
                      /\ pc'[u] = "synced" => fd'[u] \in synced'
    BY DEF Written
  <2>1. CASE u = w
    BY <2>1, <1>1, <1>2, <1>5 DEF IInv, TypeOK, Saving, Open
  <2>2. CASE u # w
    BY <2>2, <1>1, Alone DEF IInv, TypeOK, Saving, Open
  <2>. QED
    BY <2>1, <2>2
<1>. QED
  BY <1>3, <1>4, <1>6, <1>7, <1>8 DEF IInv

LEMMA WritePieceInv ==
  ASSUME IInv, NEW w \in Writer, WritePiece(w)
  PROVE  IInv'
<1> USE SnapshotAssumption
<1>1. /\ pc[w] = "writing" /\ Saving(w)
      /\ at[w] \in 0..Chunks /\ at[w] < Chunks
      /\ fd[w] = dir.pending /\ fd[w] # Absent /\ fd[w] \in Inode
      /\ arg[w] \in Payload
  BY DEF IInv, TypeOK, Written, Saving, WritePiece
<1>2. at[w] + 1 \in Piece
  BY <1>1 DEF Piece
<1>3. /\ \A j \in Inode \ {fd[w]} : data'[j] = data[j]
      /\ data' \in [Inode -> [Piece -> Payload \cup {Hole}]]
      /\ data'[fd[w]] = [data[fd[w]] EXCEPT ![at[w] + 1] = arg[w]]
  BY <1>1, <1>2 DEF IInv, TypeOK, WritePiece
<1>4. TypeOK'
  <2>1. at' \in [Writer -> 0..Chunks]
    BY <1>1 DEF IInv, TypeOK, WritePiece
  <2>. QED
    BY <1>3, <2>1 DEF IInv, TypeOK, WritePiece
<1>5. LockHeld'
  BY DEF IInv, TypeOK, LockHeld, WritePiece
<1>6. fd[w] \notin {dir.final, diskDir.final}
  BY <1>1 DEF IInv, Apart
<1>7. Published'
  BY <1>1, <1>3, <1>6 DEF IInv, TypeOK, Published, Whole, WritePiece
<1>8. Apart'
  BY DEF IInv, Apart, WritePiece
<1>9. Written'
  <2> SUFFICES ASSUME NEW u \in Writer
               PROVE  /\ Saving(u)' => /\ fd'[u] = dir'.pending
                                       /\ fd'[u] # Absent
                                       /\ arg'[u] \in Payload
                                       /\ \A k \in 1..at'[u] : data'[fd'[u]][k] = arg'[u]
                      /\ ~Saving(u)' => fd'[u] = Absent /\ arg'[u] = Absent
                      /\ pc'[u] \in {"written", "synced"} => at'[u] = Chunks
                      /\ pc'[u] = "synced" => fd'[u] \in synced'
    BY DEF Written
  <2>1. CASE u = w
    <3>1. fd'[w] = fd[w] /\ arg'[w] = arg[w] /\ at'[w] = at[w] + 1 /\ dir' = dir
      BY DEF IInv, TypeOK, WritePiece
    <3>2. \A k \in 1..at[w] : data[fd[w]][k] = arg[w]
      BY <1>1 DEF IInv, Written
    <3>3. \A k \in 1..at'[w] : data'[fd[w]][k] = arg[w]
      <4> SUFFICES ASSUME NEW k \in 1..at'[w]
                   PROVE  data'[fd[w]][k] = arg[w]
        OBVIOUS
      <4>1. k \in Piece /\ (k \in 1..at[w] \/ k = at[w] + 1)
        BY <3>1, <1>1 DEF Piece
      <4>2. data[fd[w]] \in [Piece -> Payload \cup {Hole}]
        BY <1>1 DEF IInv, TypeOK
      <4>. QED
        BY <4>1, <4>2, <3>2, <1>2, <1>3
    <3>4. pc'[w] = IF at[w] + 1 = Chunks THEN "written" ELSE "writing"
      BY DEF IInv, TypeOK, WritePiece
    <3>. QED
      BY <2>1, <3>1, <3>3, <3>4, <1>1 DEF Saving
  <2>2. CASE u # w
    BY <2>2, <1>1, Alone DEF IInv, TypeOK, Saving, WritePiece
  <2>. QED
    BY <2>1, <2>2
<1>. QED
  BY <1>4, <1>5, <1>7, <1>8, <1>9 DEF IInv

LEMMA FsyncInv ==
  ASSUME IInv, NEW w \in Writer, Fsync(w)
  PROVE  IInv'
<1>1. TypeOK'
  <2>1. fd[w] \in Inode
    BY DEF IInv, TypeOK, Written, Saving, Fsync
  <2>. QED
    BY <2>1 DEF IInv, TypeOK, Fsync
<1>2. LockHeld'
  BY DEF IInv, TypeOK, LockHeld, Fsync
<1>3. Published' /\ Apart'
  BY DEF IInv, Published, Apart, Whole, Fsync
<1>4. Written'
  BY DEF IInv, TypeOK, Written, Saving, Fsync
<1>. QED
  BY <1>1, <1>2, <1>3, <1>4 DEF IInv

\* The inode a worker renames is whole and its data is on the disk.
LEMMA ReadyToPublish ==
  ASSUME IInv, NEW w \in Writer, pc[w] = "synced"
  PROVE  /\ dir.pending \in Inode
         /\ dir.pending \in synced
         /\ arg[w] \in Payload
         /\ Whole(dir.pending, arg[w])
  BY DEF IInv, TypeOK, Written, Saving, Whole, Piece

LEMMA ReplaceInv ==
  ASSUME IInv, Locked, NEW w \in Writer, Replace(w)
  PROVE  IInv'
<1> USE SnapshotAssumption
<1>1. /\ dir.pending \in Inode /\ dir.pending \in synced
      /\ arg[w] \in Payload /\ Whole(dir.pending, arg[w])
  BY ReadyToPublish DEF Replace
<1>2. dir' = [final |-> dir.pending, pending |-> Absent]
  BY <1>1 DEF Replace
<1>3. TypeOK'
  BY <1>1, <1>2 DEF IInv, TypeOK, Replace
<1>4. LockHeld'
  BY DEF IInv, TypeOK, LockHeld, Replace
<1>5. Published'
  BY <1>1, <1>2 DEF IInv, Published, Whole, Replace
<1>6. Apart'
  BY <1>2 DEF IInv, Apart, Replace
<1>7. Written'
  <2> SUFFICES ASSUME NEW u \in Writer
               PROVE  /\ ~Saving(u)'
                      /\ fd'[u] = Absent /\ arg'[u] = Absent
    BY DEF Written, Saving
  <2>1. CASE u = w
    BY <2>1 DEF IInv, TypeOK, Saving, Replace
  <2>2. CASE u # w
    BY <2>2, Alone DEF IInv, TypeOK, Saving, Replace
  <2>. QED
    BY <2>1, <2>2
<1>. QED
  BY <1>3, <1>4, <1>5, <1>6, <1>7 DEF IInv

LEMMA DieInv ==
  ASSUME IInv, NEW w \in Writer, Die(w)
  PROVE  IInv'
<1> USE SnapshotAssumption
<1>1. TypeOK'
  BY DEF IInv, TypeOK, Die, Leave, files
<1>2. LockHeld'
  BY DEF IInv, TypeOK, LockHeld, Die, Leave
<1>3. Published' /\ Apart'
  BY DEF IInv, Published, Apart, Whole, Die, files
<1>4. Written'
  BY DEF IInv, TypeOK, Written, Saving, Die, Leave, files
<1>. QED
  BY <1>1, <1>2, <1>3, <1>4 DEF IInv

LEMMA SyncDirInv ==
  ASSUME IInv, SyncDir
  PROVE  IInv'
<1>1. TypeOK' /\ LockHeld'
  BY DEF IInv, TypeOK, LockHeld, SyncDir
<1>2. Published' /\ Apart'
  BY DEF IInv, Published, Apart, Whole, SyncDir
<1>3. Written'
  BY DEF IInv, Written, Saving, SyncDir
<1>. QED
  BY <1>1, <1>2, <1>3 DEF IInv

LEMMA PowerLossInv ==
  ASSUME IInv, PowerLoss
  PROVE  IInv'
<1> USE SnapshotAssumption
<1>1. TypeOK'
  <2>1. Empty \in [Piece -> Payload \cup {Hole}]
    BY DEF Empty
  <2>2. data' \in [Inode -> [Piece -> Payload \cup {Hole}]]
    BY <2>1 DEF IInv, TypeOK, PowerLoss
  <2>. QED
    BY <2>2 DEF IInv, TypeOK, PowerLoss
<1>2. LockHeld' /\ Written'
  BY DEF LockHeld, Written, Saving, PowerLoss
<1>3. Apart'
  BY DEF IInv, Apart, PowerLoss
<1>4. Published'
  BY DEF IInv, TypeOK, Published, Whole, PowerLoss
<1>. QED
  BY <1>1, <1>2, <1>3, <1>4 DEF IInv

LEMMA StepInv == Locked /\ IInv /\ [Next]_vars => IInv'
<1> SUFFICES ASSUME Locked, IInv, [Next]_vars
             PROVE  IInv'
  OBVIOUS
<1>1. ASSUME NEW w \in Writer,
             Enter(w) \/ WritePiece(w) \/ Fsync(w) \/ Replace(w) \/ Die(w)
      PROVE  IInv'
  BY <1>1, EnterInv, WritePieceInv, FsyncInv, ReplaceInv, DieInv
<1>2. ASSUME NEW w \in Writer, NEW v \in Payload, Open(w, v)
      PROVE  IInv'
  BY <1>2, OpenInv
<1>3. CASE UNCHANGED vars
  BY <1>3 DEF vars, IInv, TypeOK, LockHeld, Published, Apart, Written, Saving, Whole
<1>. QED
  BY <1>1, <1>2, <1>3, SyncDirInv, PowerLossInv DEF Next

LEMMA InductiveInv ==
  ASSUME Locked
  PROVE  Spec => []IInv
<1>1. IInv /\ [Next]_vars => IInv'
  BY StepInv
<1>. QED
  BY InitInv, <1>1, PTL DEF Spec

\* Under the lock every reachable state types: in particular a process never
\* writes past the end of a payload, and always has a payload to write.
THEOREM Typing ==
  ASSUME Locked
  PROVE  Spec => []TypeOK
<1>1. IInv => TypeOK
  BY DEF IInv
<1>. QED
  BY InductiveInv, <1>1, PTL

\* Under the lock a reader, before or after a power loss, never finds part of
\* a payload at the final name, however writers are killed and restarted.
THEOREM NeverTorn ==
  ASSUME Locked
  PROVE  Spec => []FinalWhole
<1>1. IInv => FinalWhole
  BY DEF IInv, Published, FinalWhole
<1>. QED
  BY InductiveInv, <1>1, PTL

-----------------------------------------------------------------------------
\* The inode a process writes to is not a published one, so what the final
\* name loads stays as it is while a save is under way.
LEMMA LoadStays ==
  ASSUME IInv, NEW w \in Writer, Enter(w) \/ WritePiece(w) \/ Fsync(w) \/ Die(w)
  PROVE  /\ dir'.final = dir.final /\ diskDir' = diskDir
         /\ Load(dir.final)' = Load(dir.final)
         /\ Load(diskDir.final)' = Load(diskDir.final)
<1>1. CASE Enter(w) \/ Fsync(w) \/ Die(w)
  BY <1>1 DEF Enter, Fsync, Die, files, Load
<1>2. CASE WritePiece(w)
  <2>1. fd[w] = dir.pending /\ fd[w] # Absent
    BY <1>2 DEF IInv, Written, Saving, WritePiece
  <2>2. fd[w] \notin {dir.final, diskDir.final}
    BY <2>1 DEF IInv, Apart
  <2>3. \A j \in Inode \ {fd[w]} : data'[j] = data[j]
    BY <1>2 DEF IInv, TypeOK, WritePiece
  <2>. QED
    BY <1>2, <2>2, <2>3 DEF IInv, TypeOK, WritePiece, Load
<1>. QED
  BY <1>1, <1>2

LEMMA OpenIsCall ==
  ASSUME IInv, NEW w \in Writer, NEW v \in Payload, Open(w, v)
  PROVE  Register!Call(w, v)
<1>1. PICK i \in IF dir.pending = Absent THEN Free ELSE {dir.pending} :
        /\ dir' = [dir EXCEPT !.pending = i]
        /\ data' = [data EXCEPT ![i] = Empty]
  BY DEF Open
<1>2. i \notin {dir.final, diskDir.final}
  BY <1>1 DEF IInv, Apart, Free, Linked
<1>3. dir'.final = dir.final /\ diskDir' = diskDir
  BY <1>1 DEF IInv, TypeOK, Open
<1>4. /\ Load(dir.final)' = Load(dir.final)
      /\ Load(diskDir.final)' = Load(diskDir.final)
  BY <1>1, <1>2, <1>3 DEF IInv, TypeOK, Load
<1>5. arg[w] = Absent
  BY DEF IInv, Written, Saving, Open
<1>. QED
  BY <1>4, <1>5 DEF Register!Call, Open

LEMMA ReplaceTakesEffect ==
  ASSUME IInv, Locked, NEW w \in Writer, Replace(w)
  PROVE  Register!TakeEffect(w)
<1> USE SnapshotAssumption
<1>1. /\ dir.pending \in Inode /\ arg[w] \in Payload /\ Whole(dir.pending, arg[w])
  BY ReadyToPublish DEF Replace
<1>2. dir' = [final |-> dir.pending, pending |-> Absent]
  BY <1>1 DEF Replace
<1>3. Load(dir.final)' = arg[w]
  BY <1>1, <1>2 DEF Replace, Load, Whole, Piece
<1>4. Load(diskDir.final)' = Load(diskDir.final)
  BY DEF Replace, Load
<1>. QED
  BY <1>1, <1>3, <1>4 DEF Register!TakeEffect, Replace

LEMMA DieAbandons ==
  ASSUME IInv, NEW w \in Writer, Die(w)
  PROVE  Register!Abandon(w) \/ UNCHANGED Register!rvars
<1>1. /\ Load(dir.final)' = Load(dir.final)
      /\ Load(diskDir.final)' = Load(diskDir.final)
  BY LoadStays
<1>2. arg' = [arg EXCEPT ![w] = Absent]
  BY DEF Die, Leave
<1>3. CASE arg[w] = Absent
  <2>1. arg' = arg
    BY <1>2, <1>3 DEF IInv, TypeOK
  <2>. QED
    BY <1>1, <2>1 DEF Register!rvars
<1>4. CASE arg[w] # Absent
  BY <1>1, <1>2, <1>4 DEF Register!Abandon
<1>. QED
  BY <1>3, <1>4

LEMMA StepRefines ==
  Locked /\ IInv /\ [Next]_vars => [Register!RegisterNext]_Register!rvars
<1> SUFFICES ASSUME Locked, IInv, [Next]_vars
             PROVE  [Register!RegisterNext]_Register!rvars
  OBVIOUS
<1>1. ASSUME NEW w \in Writer, Enter(w) \/ WritePiece(w) \/ Fsync(w)
      PROVE  UNCHANGED Register!rvars
  BY <1>1, LoadStays DEF Register!rvars, Enter, WritePiece, Fsync
<1>2. ASSUME NEW w \in Writer, NEW v \in Payload, Open(w, v)
      PROVE  Register!RegisterNext
  BY <1>2, OpenIsCall DEF Register!RegisterNext
<1>3. ASSUME NEW w \in Writer, Replace(w)
      PROVE  Register!RegisterNext
  BY <1>3, ReplaceTakesEffect DEF Register!RegisterNext
<1>4. ASSUME NEW w \in Writer, Die(w)
      PROVE  [Register!RegisterNext]_Register!rvars
  BY <1>4, DieAbandons DEF Register!RegisterNext
<1>5. CASE SyncDir
  BY <1>5 DEF SyncDir, Load, Register!RegisterNext, Register!Settle
<1>6. CASE PowerLoss
  <2>1. Load(dir.final)' = Load(diskDir.final) /\ Load(diskDir.final)' = Load(diskDir.final)
    BY <1>6 DEF IInv, TypeOK, Published, PowerLoss, Load
  <2>. QED
    BY <1>6, <2>1 DEF PowerLoss, Register!RegisterNext, Register!LosePower
<1>7. CASE UNCHANGED vars
  BY <1>7 DEF vars, Load, Register!rvars
<1>. QED
  BY <1>1, <1>2, <1>3, <1>4, <1>5, <1>6, <1>7 DEF Next

\* Under the lock atomic_snapshot implements the register its callers assume:
\* kills, restarts and power losses only drop unfinished saves or bring back
\* an older whole payload.
THEOREM Refinement ==
  ASSUME Locked
  PROVE  Spec => ImplementsRegister
<1>1. Init => Register!RegisterInit
  BY DEF Init, Load, Register!RegisterInit
<1>2. IInv /\ [Next]_vars => [Register!RegisterNext]_Register!rvars
  BY StepRefines
<1>. QED
  BY InductiveInv, <1>1, <1>2, PTL DEF Spec, ImplementsRegister, Register!RegisterSpec
=============================================================================
