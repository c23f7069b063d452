---------------------- MODULE SensitivityWorker_proofs ----------------------
(***************************************************************************)
(* When every worker resumes, the collection is exact, for every number of *)
(* processes, observations and probes and every set of command lines.      *)
(***************************************************************************)
EXTENDS SensitivityWorker, TLAPS

\* A process that has not begun holds nothing.
Blank ==
  \A p \in Process : pc[p] \in {"down", "boot", "open"} =>
    /\ completed[p] = 0 /\ probe[p] = 0 /\ since[p] = 0 /\ recent[p] = 0
    /\ rows[p] = Nothing /\ statistics[p] = Nothing

Commanded == \A p \in Process : pc[p] # "down" => opt[p] \in Launch

LockHeld == \A p \in Process : pc[p] \notin {"down", "boot"} => lock = p

\* Every file counts what it says it counts, and products appear only when
\* every observation is committed.
Directory ==
  /\ progress # None => /\ progress.rows = Upto(progress.completed)
                        /\ progress.statistics = Upto(progress.completed)
  /\ field # None => field.statistics = Upto(N) /\ Durable = N
  /\ cacheFile # None => cacheFile.rows = Upto(N) /\ Durable = N
  /\ manifest # None => field # None /\ cacheFile # None

Signed(s) ==
  /\ progress # None => progress.signature = s
  /\ field # None => field.signature = s
  /\ cacheFile # None => cacheFile.signature = s
  /\ manifest # None => manifest.signature = s

OneSignature == \E s \in Signature \cup {None} : Signed(s)

\* A working process against the files: it is ahead of the snapshot by the
\* observations it has not committed yet.
Consistent(p) ==
  /\ Signed(opt[p].signature)
  /\ statistics[p] = Upto(completed[p])
  /\ rows[p] = Upto(completed[p] + (IF probe[p] > 0 THEN 1 ELSE 0))
  /\ pc[p] # "cleanup" => manifest = None /\ Durable = completed[p] - since[p]
  /\ pc[p] = "cleanup" => manifest # None
  /\ pc[p] = "observe" => /\ probe[p] > 0 => completed[p] < N
                          /\ completed[p] = N => since[p] = 0
  /\ pc[p] # "observe" => probe[p] = 0
  /\ pc[p] = "commit" => since[p] > 0 /\ recent[p] > 0
  /\ pc[p] = "recycle" => /\ since[p] = 0 /\ recent[p] > 0
                          /\ completed[p] < N /\ progress # None
  /\ pc[p] \in {"field", "cache", "manifest", "cleanup"} => completed[p] = N /\ since[p] = 0
  /\ pc[p] \in {"cache", "manifest", "cleanup"} => field # None
  /\ pc[p] \in {"manifest", "cleanup"} => cacheFile # None

InStep == \A p \in Process : pc[p] \in Working => Consistent(p)

IInv == TypeOK /\ Blank /\ Commanded /\ LockHeld /\ Directory /\ OneSignature /\ InStep

-----------------------------------------------------------------------------
LEMMA UptoCounts == \A n \in Int : Upto(n) \in Count
  BY DEF Upto, Count, Observation

LEMMA UptoNext ==
  ASSUME NEW n \in 0..N, n < N
  PROVE  [Upto(n) EXCEPT ![n + 1] = @ + 1] = Upto(n + 1)
  BY WorkerAssumption DEF Upto, Observation

LEMMA UptoZero == Upto(0) = Nothing /\ Nothing \in Count
  BY DEF Upto, Nothing, Observation, Count

LEMMA InitInv == Init => IInv
<1> SUFFICES ASSUME Init
             PROVE  IInv
  OBVIOUS
<1> USE WorkerAssumption
<1>1. TypeOK
  BY UptoZero DEF Init, TypeOK, Working
<1>2. Blank /\ Commanded /\ LockHeld /\ Directory /\ InStep
  BY DEF Init, Blank, Commanded, LockHeld, Directory, InStep, Working
<1>3. OneSignature
  BY DEF Init, OneSignature, Signed
<1>. QED
  BY <1>1, <1>2, <1>3 DEF IInv

-----------------------------------------------------------------------------
\* While p is past the lock nobody else is working.
LEMMA Alone ==
  ASSUME IInv, NEW p \in Process, pc[p] \notin {"down", "boot"},
         NEW q \in Process, q # p
  PROVE  pc[q] \in {"down", "boot"} /\ pc[q] \notin Working
  BY DEF IInv, LockHeld, Working

\* A step that leaves the files and everybody else's state alone, and does not
\* put p to work, keeps the invariant.
LEMMA ExitInv ==
  ASSUME IInv, NEW p \in Process, NEW c \in ExitCode, Exit(p, c), UNCHANGED files
  PROVE  IInv'
<1> USE DEF Go
<1>1. TypeOK'
  BY UptoZero, WorkerAssumption DEF IInv, TypeOK, Exit, files, Working
<1>2. Blank'
  BY DEF IInv, TypeOK, Blank, Exit
<1>3. Commanded'
  BY DEF IInv, TypeOK, Commanded, Exit
<1>4. LockHeld'
  BY DEF IInv, TypeOK, LockHeld, Exit
<1>5. Directory' /\ OneSignature'
  BY DEF IInv, Directory, OneSignature, Signed, Durable, files
<1>6. InStep'
  <2> SUFFICES ASSUME NEW q \in Process, pc'[q] \in Working
               PROVE  Consistent(q)'
    BY DEF InStep
  <2>1. q # p /\ pc'[q] = pc[q]
    BY DEF IInv, TypeOK, Exit, Working
  <2>2. Consistent(q)
    BY <2>1 DEF IInv, InStep
  <2>3. /\ opt'[q] = opt[q] /\ completed'[q] = completed[q] /\ probe'[q] = probe[q]
        /\ rows'[q] = rows[q] /\ statistics'[q] = statistics[q]
        /\ since'[q] = since[q] /\ recent'[q] = recent[q]
    BY <2>1 DEF IInv, TypeOK, Exit
  <2>. QED
    BY <2>1, <2>2, <2>3 DEF Consistent, Signed, Durable, files
<1>. QED
  BY <1>1, <1>2, <1>3, <1>4, <1>5, <1>6 DEF IInv

LEMMA StartInv ==
  ASSUME IInv, NEW p \in Process, NEW o \in Launch, Start(p, o)
  PROVE  IInv'
<1> USE DEF Go
<1>1. TypeOK'
  BY DEF IInv, TypeOK, Start, files, memory
<1>2. Blank' /\ Commanded' /\ LockHeld'
  BY DEF IInv, TypeOK, Blank, Commanded, LockHeld, Start, memory
<1>3. Directory' /\ OneSignature'
  BY DEF IInv, Directory, OneSignature, Signed, Durable, Start, files
<1>4. InStep'
  BY DEF IInv, TypeOK, InStep, Consistent, Signed, Durable, Start, files, memory, Working
<1>. QED
  BY <1>1, <1>2, <1>3, <1>4 DEF IInv

LEMMA AcquireInv ==
  ASSUME IInv, NEW p \in Process, Acquire(p)
  PROVE  IInv'
<1> USE DEF Go
<1>1. TypeOK'
  BY DEF IInv, TypeOK, Acquire, files, memory
<1>2. Blank' /\ Commanded'
  BY DEF IInv, TypeOK, Blank, Commanded, Acquire, memory
<1>3. LockHeld'
  BY WorkerAssumption DEF IInv, TypeOK, LockHeld, Acquire
<1>4. Directory' /\ OneSignature'
  BY DEF IInv, Directory, OneSignature, Signed, Durable, Acquire, files
<1>5. InStep'
  BY DEF IInv, TypeOK, InStep, Consistent, Signed, Durable, Acquire, files, memory, Working
<1>. QED
  BY <1>1, <1>2, <1>3, <1>4, <1>5 DEF IInv

\* A step of a process past the lock that keeps to its own memory needs to be
\* checked for that process alone.
LEMMA OwnStep ==
  ASSUME IInv, NEW p \in Process, pc[p] \notin {"down", "boot"},
         NEW there \in Working, Go(p, there),
         \A q \in Process \ {p} :
           /\ completed'[q] = completed[q] /\ probe'[q] = probe[q]
           /\ since'[q] = since[q] /\ recent'[q] = recent[q]
           /\ rows'[q] = rows[q] /\ statistics'[q] = statistics[q],
         UNCHANGED <<lock, opt>>,
         Consistent(p)'
  PROVE  /\ pc' \in [Process -> {"down", "boot", "open"} \cup Working]
         /\ Blank' /\ Commanded' /\ LockHeld' /\ InStep'
<1>1. pc' \in [Process -> {"down", "boot", "open"} \cup Working] /\ pc'[p] = there
  BY DEF IInv, TypeOK, Go
<1>2. \A q \in Process \ {p} : pc'[q] = pc[q] /\ pc'[q] \notin Working
  BY Alone DEF IInv, TypeOK, Go
<1>3. Blank'
  BY <1>1, <1>2 DEF IInv, Blank, Working
<1>4. Commanded' /\ LockHeld'
  BY <1>1, <1>2 DEF IInv, Commanded, LockHeld
<1>5. InStep'
  BY <1>1, <1>2 DEF InStep
<1>. QED
  BY <1>1, <1>3, <1>4, <1>5

\* A resuming process that neither stops nor refuses finds either an unfinished
\* collection of its own settings, or nothing.
LEMMA BeginFinds ==
  ASSUME IInv, ResumeOnly, NEW p \in Process, Begin(p)
  PROVE  /\ opt[p] \in Launch /\ opt[p].resume /\ opt[p].signature \in Signature
         /\ manifest = None
         /\ Signed(opt[p].signature)
<1>1. opt[p] \in Launch /\ opt[p].resume /\ opt[p].signature \in Signature
  BY WorkerAssumption DEF IInv, Commanded, ResumeOnly, Begin, Options
<1>2. manifest = None
  BY <1>1 DEF IInv, Directory, Begin, Refuses, AlreadyComplete, ForeignManifest
<1>3. progress # None => progress.signature = opt[p].signature
  BY <1>1, <1>2 DEF Begin, Refuses, AlreadyComplete, ForeignProgress
<1>4. field # None \/ cacheFile # None => progress # None
  BY <1>2, WorkerAssumption DEF IInv, Directory, Durable
<1>5. PICK s \in Signature \cup {None} : Signed(s)
  BY DEF IInv, OneSignature
<1>. QED
  BY <1>1, <1>2, <1>3, <1>4, <1>5 DEF Signed

LEMMA BeginInv ==
  ASSUME IInv, ResumeOnly, NEW p \in Process, Begin(p)
  PROVE  IInv'
<1> USE WorkerAssumption
<1>1. /\ opt[p] \in Launch /\ opt[p].resume
      /\ manifest = None /\ Signed(opt[p].signature)
  BY BeginFinds
<1>2. /\ completed[p] = 0 /\ probe[p] = 0 /\ since[p] = 0 /\ recent[p] = 0
      /\ rows[p] = Nothing /\ statistics[p] = Nothing
  BY DEF IInv, Blank, Begin
<1>3. completed'[p] \in 0..N /\ rows'[p] = Upto(completed'[p]) /\ statistics'[p] = Upto(completed'[p])
      /\ completed'[p] = Durable
  <2>1. CASE progress # None
    BY <2>1, <1>1 DEF IInv, TypeOK, Directory, Durable, Begin
  <2>2. CASE progress = None
    BY <2>2, <1>1, <1>2, UptoZero DEF Durable, Begin
  <2>. QED
    BY <2>1, <2>2
<1>4. /\ completed' \in [Process -> 0..N] /\ rows' \in [Process -> Count]
      /\ statistics' \in [Process -> Count]
      /\ \A q \in Process \ {p} : /\ completed'[q] = completed[q]
                                  /\ rows'[q] = rows[q] /\ statistics'[q] = statistics[q]
  <2>1. CASE progress # None
    <3>1. /\ progress.completed \in 0..N /\ progress.rows \in Count
          /\ progress.statistics \in Count
      BY <2>1 DEF IInv, TypeOK
    <3>2. /\ completed \in [Process -> 0..N] /\ rows \in [Process -> Count]
          /\ statistics \in [Process -> Count]
      BY DEF IInv, TypeOK
    <3>3. /\ completed' = [completed EXCEPT ![p] = progress.completed]
          /\ rows' = [rows EXCEPT ![p] = progress.rows]
          /\ statistics' = [statistics EXCEPT ![p] = progress.statistics]
      BY <1>1, <2>1 DEF Begin
    <3>. QED
      BY <3>1, <3>2, <3>3
  <2>2. CASE progress = None
    BY <2>2 DEF IInv, TypeOK, Begin
  <2>. QED
    BY <2>1, <2>2
<1>5. Durable' = Durable /\ pc'[p] = "observe"
  BY DEF IInv, TypeOK, Durable, Begin, Go, files
<1>6. Consistent(p)'
  BY <1>1, <1>2, <1>3, <1>4, <1>5 DEF IInv, TypeOK, Consistent, Signed, Begin, files, Working
<1>7. /\ pc' \in [Process -> {"down", "boot", "open"} \cup Working]
      /\ Blank' /\ Commanded' /\ LockHeld' /\ InStep'
  BY <1>4, <1>6, OwnStep DEF Begin, Working
<1>8. Directory' /\ OneSignature'
  BY DEF IInv, Directory, OneSignature, Signed, Durable, Begin, files
<1>9. TypeOK'
  BY <1>4, <1>7 DEF IInv, TypeOK, Begin, files
<1>. QED
  BY <1>7, <1>8, <1>9 DEF IInv

LEMMA ProbeInv ==
  ASSUME IInv, NEW p \in Process, Probe(p)
  PROVE  IInv'
<1> USE WorkerAssumption
<1>1. Consistent(p)
  BY DEF IInv, InStep, Probe, Working
<1>2. /\ completed[p] \in 0..N /\ completed[p] + 1 \in Observation
      /\ probe[p] \in 0..Probes /\ probe'[p] = probe[p] + 1 /\ probe'[p] \in 0..Probes
      /\ probe' \in [Process -> 0..Probes]
  <2>1. /\ completed[p] \in 0..N /\ completed[p] < N
        /\ probe[p] \in 0..Probes /\ probe[p] < Probes
    BY DEF IInv, TypeOK, Probe
  <2>2. completed[p] + 1 \in Observation /\ probe[p] + 1 \in 0..Probes
    BY <2>1 DEF Observation
  <2>3. probe' = [probe EXCEPT ![p] = probe[p] + 1] /\ probe \in [Process -> 0..Probes]
    BY DEF IInv, TypeOK, Probe
  <2>. QED
    BY <2>1, <2>2, <2>3
<1>3. rows'[p] = Upto(completed[p] + 1) /\ rows' \in [Process -> Count]
      /\ \A q \in Process \ {p} : rows'[q] = rows[q]
  <2>1. CASE probe[p] = 0
    <3>1. rows' = [rows EXCEPT ![p] = [rows[p] EXCEPT ![completed[p] + 1] = @ + 1]]
      BY <2>1 DEF Probe
    <3>2. rows[p] = Upto(completed[p])
      BY <2>1, <1>1, <1>2 DEF Consistent
    <3>3. [rows[p] EXCEPT ![completed[p] + 1] = @ + 1] = Upto(completed[p] + 1)
      BY <3>2, <1>2, UptoNext DEF Probe
    <3>. QED
      BY <3>1, <3>3, <1>2, UptoCounts DEF IInv, TypeOK
  <2>2. CASE probe[p] # 0
    BY <2>2, <1>1, <1>2 DEF IInv, TypeOK, Probe, Consistent
  <2>. QED
    BY <2>1, <2>2
<1>4. Consistent(p)'
  BY <1>1, <1>2, <1>3 DEF IInv, TypeOK, Probe, Consistent, Signed, Durable, files
<1>5. Go(p, "observe")
  BY DEF IInv, TypeOK, Probe, Go
<1>6. /\ pc' \in [Process -> {"down", "boot", "open"} \cup Working]
      /\ Blank' /\ Commanded' /\ LockHeld' /\ InStep'
  BY <1>3, <1>4, <1>5, OwnStep DEF IInv, TypeOK, Probe, Working
<1>7. Directory' /\ OneSignature'
  BY DEF IInv, Directory, OneSignature, Signed, Durable, Probe, files
<1>8. TypeOK'
  BY <1>2, <1>3, <1>6 DEF IInv, TypeOK, Probe, files
<1>. QED
  BY <1>6, <1>7, <1>8 DEF IInv

LEMMA FinishInv ==
  ASSUME IInv, NEW p \in Process, FinishObservation(p)
  PROVE  IInv'
<1> USE WorkerAssumption
<1>1. Consistent(p)
  BY DEF IInv, InStep, FinishObservation, Working
<1>2. /\ completed[p] \in 0..N /\ completed[p] < N
      /\ completed'[p] = completed[p] + 1 /\ completed' \in [Process -> 0..N]
  <2>1. completed[p] \in 0..N /\ completed[p] < N
    BY <1>1 DEF IInv, TypeOK, FinishObservation, Consistent
  <2>2. completed' = [completed EXCEPT ![p] = completed[p] + 1] /\ completed \in [Process -> 0..N]
    BY DEF IInv, TypeOK, FinishObservation
  <2>3. completed[p] + 1 \in 0..N
    BY <2>1
  <2>. QED
    BY <2>1, <2>2, <2>3
<1>3. statistics'[p] = Upto(completed[p] + 1) /\ statistics' \in [Process -> Count]
  <2>1. statistics' = [statistics EXCEPT ![p] = [statistics[p] EXCEPT ![completed[p] + 1] = @ + 1]]
    BY DEF FinishObservation
  <2>2. [statistics[p] EXCEPT ![completed[p] + 1] = @ + 1] = Upto(completed[p] + 1)
    BY <1>1, <1>2, UptoNext DEF Consistent
  <2>. QED
    BY <2>1, <2>2, <1>2, UptoCounts DEF IInv, TypeOK
<1>4. rows'[p] = Upto(completed[p] + 1)
  BY <1>1 DEF Consistent, FinishObservation
<1>5. /\ since'[p] = since[p] + 1 /\ since' \in [Process -> Nat] /\ since[p] \in Nat
      /\ recent'[p] = recent[p] + 1 /\ recent' \in [Process -> Nat] /\ recent[p] \in Nat
      /\ probe'[p] = 0 /\ probe' \in [Process -> 0..Probes]
      /\ pc'[p] = "commit"
  <2>1. /\ since' = [since EXCEPT ![p] = since[p] + 1] /\ since \in [Process -> Nat]
        /\ recent' = [recent EXCEPT ![p] = recent[p] + 1] /\ recent \in [Process -> Nat]
        /\ probe' = [probe EXCEPT ![p] = 0] /\ probe \in [Process -> 0..Probes]
    BY DEF IInv, TypeOK, FinishObservation
  <2>2. since[p] \in Nat /\ since[p] + 1 \in Nat /\ recent[p] \in Nat /\ recent[p] + 1 \in Nat
    BY <2>1
  <2>3. since'[p] = since[p] + 1 /\ since' \in [Process -> Nat]
    BY <2>1, <2>2
  <2>4. recent'[p] = recent[p] + 1 /\ recent' \in [Process -> Nat]
    BY <2>1, <2>2
  <2>5. probe'[p] = 0 /\ probe' \in [Process -> 0..Probes]
    BY <2>1
  <2>6. pc'[p] = "commit"
    BY DEF IInv, TypeOK, FinishObservation, Go
  <2>. QED
    BY <2>2, <2>3, <2>4, <2>5, <2>6
<1>6. Durable' = Durable /\ Durable = completed[p] - since[p] /\ manifest' = None
  BY <1>1 DEF Consistent, FinishObservation, Durable, files
<1>7. Consistent(p)'
  BY <1>1, <1>2, <1>3, <1>4, <1>5, <1>6 DEF FinishObservation, Consistent, Signed, files
<1>8. /\ pc' \in [Process -> {"down", "boot", "open"} \cup Working]
      /\ Blank' /\ Commanded' /\ LockHeld' /\ InStep'
  BY <1>7, OwnStep DEF IInv, TypeOK, FinishObservation, Working
<1>9. Directory' /\ OneSignature'
  BY DEF IInv, Directory, OneSignature, Signed, Durable, FinishObservation, files
<1>10. TypeOK'
  BY <1>2, <1>3, <1>5, <1>8 DEF IInv, TypeOK, FinishObservation, files
<1>. QED
  BY <1>8, <1>9, <1>10 DEF IInv

\* What a working process is about when it resumes.
LEMMA WorkingFacts ==
  ASSUME IInv, ResumeOnly, NEW p \in Process, pc[p] \in Working
  PROVE  /\ Consistent(p)
         /\ opt[p] \in Launch /\ opt[p].resume /\ opt[p].signature \in Signature
         /\ opt[p].snapshotEvery \in Nat \ {0}
         /\ completed[p] \in 0..N /\ since[p] \in Nat /\ recent[p] \in Nat
         /\ rows[p] \in Count /\ statistics[p] \in Count
  BY WorkerAssumption
  DEF IInv, TypeOK, InStep, Commanded, ResumeOnly, Options, Working

LEMMA CommitInv ==
  ASSUME IInv, ResumeOnly, NEW p \in Process, CommitOrGoOn(p)
  PROVE  IInv'
<1> USE WorkerAssumption
<1> DEFINE saved == [signature |-> opt[p].signature, completed |-> completed[p],
                     rows |-> rows[p], statistics |-> statistics[p]]
<1>1. /\ pc[p] = "commit" /\ Consistent(p)
      /\ opt[p] \in Launch /\ opt[p].resume /\ opt[p].signature \in Signature
      /\ completed[p] \in 0..N /\ since[p] \in Nat /\ recent[p] \in Nat
      /\ rows[p] \in Count /\ statistics[p] \in Count
  BY WorkingFacts DEF CommitOrGoOn, Working
<1>2. PICK recycling \in BOOLEAN :
        /\ recycling => completed[p] < N
        /\ IF CommitDue(p, recycling)
             THEN progress' = saved /\ since' = [since EXCEPT ![p] = 0]
             ELSE UNCHANGED <<progress, since>>
        /\ Go(p, IF recycling THEN "recycle" ELSE IF completed[p] < N THEN "observe" ELSE "field")
  <2>1. PICK overLimit \in BOOLEAN :
          LET recycling == RecycleDue(p, overLimit) IN
          /\ IF opt[p].resume /\ CommitDue(p, recycling)
               THEN progress' = saved /\ since' = [since EXCEPT ![p] = 0]
               ELSE UNCHANGED <<progress, since>>
          /\ Go(p, IF recycling THEN "recycle" ELSE IF completed[p] < N THEN "observe" ELSE "field")
    BY DEF CommitOrGoOn
  <2>2. RecycleDue(p, overLimit) \in BOOLEAN /\ (RecycleDue(p, overLimit) => completed[p] < N)
    BY DEF RecycleDue
  <2>. QED
    BY <2>1, <2>2, <1>1
<1>3. /\ UNCHANGED <<field, cacheFile, manifest, lock, opt, code, completed, probe, rows,
                     statistics, recent>>
  BY DEF CommitOrGoOn
<1>4. /\ saved \in [signature : Signature, completed : 0..N, rows : Count, statistics : Count]
      /\ saved # None
  BY <1>1 DEF Count, Observation
<1>5. since' \in [Process -> Nat] /\ \A q \in Process \ {p} : since'[q] = since[q]
  <2>1. since' = since \/ since' = [since EXCEPT ![p] = 0]
    <3>1. CASE CommitDue(p, recycling)
      BY <3>1, <1>2
    <3>2. CASE ~CommitDue(p, recycling)
      BY <3>2, <1>2
    <3>. QED
      BY <3>1, <3>2
  <2>2. since \in [Process -> Nat]
    BY DEF IInv, TypeOK
  <2>3. CASE since' = since
    BY <2>2, <2>3
  <2>4. CASE since' = [since EXCEPT ![p] = 0]
    BY <2>2, <2>4
  <2>. QED
    BY <2>1, <2>3, <2>4
<1>6. /\ manifest = None /\ Durable = completed[p] - since[p] /\ since[p] > 0 /\ recent[p] > 0
      /\ probe[p] = 0 /\ rows[p] = Upto(completed[p]) /\ statistics[p] = Upto(completed[p])
      /\ Signed(opt[p].signature)
  BY <1>1 DEF Consistent
<1>7. field = None /\ cacheFile = None
  BY <1>1, <1>6 DEF IInv, Directory
<1>8. CASE CommitDue(p, recycling)
  <2>1. progress' = saved /\ since'[p] = 0 /\ Durable' = completed[p]
    BY <1>8, <1>2, <1>3, <1>4, <1>6 DEF IInv, TypeOK, Durable
  <2>2. pc'[p] = IF recycling THEN "recycle" ELSE IF completed[p] < N THEN "observe" ELSE "field"
    BY <1>2 DEF IInv, TypeOK, Go
  <2>3. Consistent(p)'
    BY <2>1, <2>2, <1>1, <1>2, <1>3, <1>4, <1>6, <1>7 DEF Consistent, Signed
  <2>4. /\ pc' \in [Process -> {"down", "boot", "open"} \cup Working]
        /\ Blank' /\ Commanded' /\ LockHeld' /\ InStep'
    BY <2>3, <1>1, <1>2, <1>3, <1>5, OwnStep DEF Working
  <2>5. Directory' /\ OneSignature'
    BY <2>1, <1>1, <1>3, <1>6, <1>7 DEF Directory, OneSignature, Signed
  <2>6. TypeOK'
    BY <2>1, <2>4, <1>3, <1>4, <1>5 DEF IInv, TypeOK
  <2>. QED
    BY <2>4, <2>5, <2>6 DEF IInv
<1>9. CASE ~CommitDue(p, recycling)
  <2>1. UNCHANGED <<progress, since>> /\ ~recycling /\ completed[p] # N
    BY <1>9, <1>2 DEF CommitDue
  <2>2. pc'[p] = "observe" /\ Go(p, "observe")
    <3>1. completed[p] < N
      BY <2>1, <1>1
    <3>2. Go(p, "observe")
      BY <2>1, <3>1, <1>2
    <3>. QED
      BY <3>2 DEF IInv, TypeOK, Go
  <2>3. Consistent(p)'
    BY <2>1, <2>2, <1>1, <1>3, <1>6 DEF Consistent, Signed, Durable
  <2>4. /\ pc' \in [Process -> {"down", "boot", "open"} \cup Working]
        /\ Blank' /\ Commanded' /\ LockHeld' /\ InStep'
    BY <2>2, <2>3, <1>1, <1>3, <1>5, OwnStep DEF Working
  <2>5. Directory' /\ OneSignature'
    BY <2>1, <1>3 DEF IInv, Directory, OneSignature, Signed, Durable
  <2>6. TypeOK'
    BY <2>1, <2>4, <1>3 DEF IInv, TypeOK
  <2>. QED
    BY <2>4, <2>5, <2>6 DEF IInv
<1>. QED
  BY <1>8, <1>9

LEMMA NothingLeftInv ==
  ASSUME IInv, ResumeOnly, NEW p \in Process, NothingLeft(p)
  PROVE  IInv'
<1>1. Consistent(p) /\ pc[p] = "observe" /\ completed[p] \in 0..N /\ completed[p] = N
  BY WorkingFacts DEF NothingLeft, Working
<1>2. pc'[p] = "field"
  BY DEF IInv, TypeOK, NothingLeft, Go
<1>3. Consistent(p)'
  BY <1>1, <1>2, WorkerAssumption
  DEF IInv, TypeOK, NothingLeft, Consistent, Signed, Durable, files, memory
<1>4. /\ pc' \in [Process -> {"down", "boot", "open"} \cup Working]
      /\ Blank' /\ Commanded' /\ LockHeld' /\ InStep'
  BY <1>1, <1>3, OwnStep DEF NothingLeft, Working, memory
<1>5. Directory' /\ OneSignature'
  BY DEF IInv, Directory, OneSignature, Signed, Durable, NothingLeft, files
<1>6. TypeOK'
  BY <1>4 DEF IInv, TypeOK, NothingLeft, files, memory
<1>. QED
  BY <1>4, <1>5, <1>6 DEF IInv

LEMMA SaveFieldInv ==
  ASSUME IInv, ResumeOnly, NEW p \in Process, SaveField(p)
  PROVE  IInv'
<1> USE WorkerAssumption
<1>1. /\ pc[p] = "field" /\ Consistent(p) /\ opt[p].signature \in Signature
      /\ statistics[p] \in Count
  BY WorkingFacts DEF SaveField, Working
<1>2. /\ completed[p] = N /\ since[p] = 0 /\ manifest = None /\ Durable = N
      /\ statistics[p] = Upto(N) /\ probe[p] = 0 /\ Signed(opt[p].signature)
  BY <1>1 DEF Consistent
<1>3. field' \in [signature : Signature, statistics : Count] /\ field' # None
  BY <1>1 DEF SaveField, Count, Observation
<1>4. pc'[p] = "cache" /\ Durable' = Durable
  BY DEF IInv, TypeOK, SaveField, Go, Durable
<1>5. Consistent(p)'
  BY <1>1, <1>2, <1>3, <1>4 DEF SaveField, Consistent, Signed, memory
<1>6. /\ pc' \in [Process -> {"down", "boot", "open"} \cup Working]
      /\ Blank' /\ Commanded' /\ LockHeld' /\ InStep'
  BY <1>1, <1>5, OwnStep DEF SaveField, Working, memory
<1>7. Directory' /\ OneSignature'
  BY <1>1, <1>2, <1>3, <1>4 DEF IInv, Directory, OneSignature, Signed, SaveField
<1>8. TypeOK'
  BY <1>3, <1>6 DEF IInv, TypeOK, SaveField, memory
<1>. QED
  BY <1>6, <1>7, <1>8 DEF IInv

LEMMA SaveCacheInv ==
  ASSUME IInv, ResumeOnly, NEW p \in Process, SaveCache(p)
  PROVE  IInv'
<1> USE WorkerAssumption
<1>1. /\ pc[p] = "cache" /\ Consistent(p) /\ opt[p].signature \in Signature
      /\ rows[p] \in Count
  BY WorkingFacts DEF SaveCache, Working
<1>2. /\ completed[p] = N /\ since[p] = 0 /\ manifest = None /\ Durable = N /\ field # None
      /\ rows[p] = Upto(N) /\ probe[p] = 0 /\ Signed(opt[p].signature)
  BY <1>1 DEF Consistent
<1>3. /\ cacheFile' \in [signature : Signature, rows : Count] /\ cacheFile' # None
      /\ cacheFile'.rows = Upto(N) /\ cacheFile'.signature = opt[p].signature
  <2>1. CASE opt[p].resume /\ cacheFile # None
    BY <2>1, <1>2 DEF IInv, TypeOK, Directory, Signed, SaveCache
  <2>2. CASE ~(opt[p].resume /\ cacheFile # None)
    <3>1. cacheFile' = [signature |-> opt[p].signature, rows |-> rows[p]]
      BY <2>2 DEF SaveCache
    <3>. QED
      BY <3>1, <1>1, <1>2 DEF Count, Observation
  <2>. QED
    BY <2>1, <2>2
<1>4. pc'[p] = "manifest" /\ Durable' = Durable
  BY DEF IInv, TypeOK, SaveCache, Go, Durable
<1>5. Consistent(p)'
  BY <1>1, <1>2, <1>3, <1>4 DEF SaveCache, Consistent, Signed, memory
<1>6. /\ pc' \in [Process -> {"down", "boot", "open"} \cup Working]
      /\ Blank' /\ Commanded' /\ LockHeld' /\ InStep'
  BY <1>1, <1>5, OwnStep DEF SaveCache, Working, memory
<1>7. Directory' /\ OneSignature'
  BY <1>1, <1>2, <1>3, <1>4 DEF IInv, Directory, OneSignature, Signed, SaveCache
<1>8. TypeOK'
  BY <1>3, <1>6 DEF IInv, TypeOK, SaveCache, memory
<1>. QED
  BY <1>6, <1>7, <1>8 DEF IInv

LEMMA SaveManifestInv ==
  ASSUME IInv, ResumeOnly, NEW p \in Process, SaveManifest(p)
  PROVE  IInv'
<1> USE WorkerAssumption
<1>1. pc[p] = "manifest" /\ Consistent(p) /\ opt[p].signature \in Signature
  BY WorkingFacts DEF SaveManifest, Working
<1>2. /\ completed[p] = N /\ field # None /\ cacheFile # None
      /\ Signed(opt[p].signature)
  BY <1>1 DEF Consistent
<1>3. manifest' \in [signature : Signature] /\ manifest' # None
  BY <1>1 DEF SaveManifest
<1>4. pc'[p] = "cleanup" /\ Durable' = N
  BY <1>3 DEF IInv, TypeOK, SaveManifest, Go, Durable
<1>5. Consistent(p)'
  BY <1>1, <1>2, <1>3, <1>4 DEF SaveManifest, Consistent, Signed, memory
<1>6. /\ pc' \in [Process -> {"down", "boot", "open"} \cup Working]
      /\ Blank' /\ Commanded' /\ LockHeld' /\ InStep'
  BY <1>1, <1>5, OwnStep DEF SaveManifest, Working, memory
<1>7. Directory' /\ OneSignature'
  BY <1>1, <1>2, <1>3, <1>4 DEF IInv, Directory, OneSignature, Signed, SaveManifest
<1>8. TypeOK'
  BY <1>3, <1>6 DEF IInv, TypeOK, SaveManifest, memory
<1>. QED
  BY <1>6, <1>7, <1>8 DEF IInv

LEMMA CleanupInv ==
  ASSUME IInv, ResumeOnly, NEW p \in Process, Cleanup(p)
  PROVE  IInv'
<1> USE DEF Go
<1>1. pc[p] = "cleanup" /\ manifest # None /\ progress' = None
  BY WorkingFacts DEF Cleanup, Working, Consistent
<1>2. Durable' = N /\ Durable = N
  BY <1>1 DEF Cleanup, Durable
<1>3. TypeOK'
  BY <1>1, UptoZero, WorkerAssumption
  DEF IInv, TypeOK, Cleanup, Exit, Working, ExitCode
<1>4. Blank' /\ Commanded' /\ LockHeld'
  BY DEF IInv, TypeOK, Blank, Commanded, LockHeld, Cleanup, Exit
<1>5. Directory' /\ OneSignature'
  BY <1>1, <1>2 DEF IInv, Directory, OneSignature, Signed, Cleanup
<1>6. InStep'
  BY <1>1, Alone DEF IInv, TypeOK, InStep, Cleanup, Exit, Working
<1>. QED
  BY <1>3, <1>4, <1>5, <1>6 DEF IInv

LEMMA EndInv ==
  ASSUME IInv, NEW p \in Process,
         \/ LockBusy(p) \/ FindComplete(p) \/ Refuse(p) \/ Recycle(p)
         \/ \E c \in {FAILURE, SIGKILLED, SIGTERMED} : Die(p, c)
  PROVE  IInv'
<1>1. \E c \in ExitCode : Exit(p, c) /\ UNCHANGED files
  BY DEF LockBusy, FindComplete, Refuse, Recycle, Die, ExitCode
<1>. QED
  BY <1>1, ExitInv

LEMMA StepInv == ResumeOnly /\ IInv /\ [Next]_vars => IInv'
<1> SUFFICES ASSUME ResumeOnly, IInv, [Next]_vars
             PROVE  IInv'
  OBVIOUS
<1>1. ASSUME NEW p \in Process, NEW o \in Launch, Start(p, o)
      PROVE  IInv'
  BY <1>1, StartInv
<1>2. ASSUME NEW p \in Process, Step(p)
      PROVE  IInv'
  BY <1>2, AcquireInv, EndInv, BeginInv, ProbeInv, FinishInv, CommitInv, NothingLeftInv,
     SaveFieldInv, SaveCacheInv, SaveManifestInv, CleanupInv
  DEF Step
<1>3. ASSUME NEW p \in Process, NEW c \in {FAILURE, SIGKILLED, SIGTERMED}, Die(p, c)
      PROVE  IInv'
  BY <1>3, EndInv
<1>4. CASE UNCHANGED vars
  BY <1>4 DEF vars, files, memory, IInv, TypeOK, Blank, Commanded, LockHeld, Directory,
              OneSignature, InStep, Consistent, Signed, Durable
<1>. QED
  BY <1>1, <1>2, <1>3, <1>4 DEF Next

LEMMA InductiveInv ==
  ASSUME ResumeOnly
  PROVE  Spec => []IInv
<1>1. IInv /\ [Next]_vars => IInv'
  BY StepInv
<1>. QED
  BY InitInv, <1>1, PTL DEF Spec

-----------------------------------------------------------------------------
\* When every worker resumes, files, processes and their memory type.
THEOREM Typing ==
  ASSUME ResumeOnly
  PROVE  Spec => []TypeOK
<1>1. IInv => TypeOK
  BY DEF IInv
<1>. QED
  BY InductiveInv, <1>1, PTL

LEMMA InvExactlyOnce == IInv => ExactlyOnce
<1> SUFFICES ASSUME IInv, manifest # None
             PROVE  /\ field = [signature |-> manifest.signature, statistics |-> Upto(N)]
                    /\ cacheFile = [signature |-> manifest.signature, rows |-> Upto(N)]
  BY DEF ExactlyOnce
<1>1. field # None /\ cacheFile # None /\ field.statistics = Upto(N) /\ cacheFile.rows = Upto(N)
  BY DEF IInv, Directory
<1>2. field.signature = manifest.signature /\ cacheFile.signature = manifest.signature
  BY <1>1 DEF IInv, OneSignature, Signed
<1>. QED
  BY <1>1, <1>2 DEF IInv, TypeOK

\* When every worker resumes, a directory with a manifest holds the exact
\* result of the manifest's settings, whatever was killed, recycled, retried
\* or run side by side on the way, for every number of observations.
THEOREM Exactness ==
  ASSUME ResumeOnly
  PROVE  Spec => []ExactlyOnce
  BY InductiveInv, InvExactlyOnce, PTL

\* When every worker resumes, a worker that keeps the activation cache it finds
\* keeps one of its own settings, complete.
THEOREM CacheReuse ==
  ASSUME ResumeOnly
  PROVE  Spec => []ReusedCacheIsOwn
<1>1. IInv => ReusedCacheIsOwn
  <2> SUFFICES ASSUME IInv, NEW p \in Process, pc[p] = "manifest"
               PROVE  cacheFile = [signature |-> opt[p].signature, rows |-> Upto(N)]
    BY DEF ReusedCacheIsOwn
  <2>1. cacheFile # None /\ Signed(opt[p].signature)
    BY DEF IInv, InStep, Working, Consistent
  <2>2. cacheFile.rows = Upto(N) /\ cacheFile.signature = opt[p].signature
    BY <2>1 DEF IInv, Directory, Signed
  <2>. QED
    BY <2>1, <2>2 DEF IInv, TypeOK
<1>. QED
  BY InductiveInv, <1>1, PTL

-----------------------------------------------------------------------------
\* A process ends only by the actions that end it.
LEMMA Endings ==
  ASSUME IInv, NEW p \in Process, NEW c \in ExitCode, Ends(p, c), Next
  PROVE  \/ LockBusy(p) \/ FindComplete(p) \/ Refuse(p) \/ Recycle(p) \/ Cleanup(p)
         \/ \E d \in {FAILURE, SIGKILLED, SIGTERMED} : Die(p, d)
<1>1. PICK q \in Process :
        \/ \E o \in Launch : Start(q, o)
        \/ Step(q)
        \/ \E d \in {FAILURE, SIGKILLED, SIGTERMED} : Die(q, d)
  BY DEF Next
<1>2. CASE q = p
  <2>1. CASE \E o \in Launch : Start(p, o)
    BY <2>1 DEF Start, Ends
  <2>2. CASE Acquire(p) \/ Begin(p) \/ FinishObservation(p) \/ NothingLeft(p)
             \/ SaveField(p) \/ SaveCache(p) \/ SaveManifest(p)
    BY <2>2 DEF IInv, TypeOK, Ends, Go, Acquire, Begin, FinishObservation, NothingLeft,
                SaveField, SaveCache, SaveManifest
  <2>3. CASE Probe(p)
    BY <2>3 DEF Probe, Ends
  <2>4. CASE CommitOrGoOn(p)
    <3>1. \E there \in {"recycle", "observe", "field"} : Go(p, there)
      BY <2>4 DEF CommitOrGoOn
    <3>. QED
      BY <3>1 DEF IInv, TypeOK, Ends, Go
  <2>. QED
    BY <1>1, <1>2, <2>1, <2>2, <2>3, <2>4 DEF Step
<1>3. CASE q # p
  <2>1. ASSUME NEW there, Go(q, there)
        PROVE  FALSE
    BY <2>1, <1>3 DEF IInv, TypeOK, Ends, Go
  <2>2. CASE Probe(q)
    BY <2>2 DEF Probe, Ends
  <2>3. CASE CommitOrGoOn(q)
    <3>1. \E there \in {"recycle", "observe", "field"} : Go(q, there)
      BY <2>3 DEF CommitOrGoOn
    <3>. QED
      BY <3>1, <2>1
  <2>4. CASE ~Probe(q) /\ ~CommitOrGoOn(q)
    <3>1. \E there \in {"down", "boot"} \cup {"open"} \cup Working : Go(q, there)
      BY <2>4, <1>1
      DEF Start, Step, Acquire, LockBusy, FindComplete, Refuse, Begin, FinishObservation,
          Recycle, NothingLeft, SaveField, SaveCache, SaveManifest, Cleanup, Die, Exit, Working
    <3>. QED
      BY <3>1, <2>1
  <2>. QED
    BY <2>2, <2>3, <2>4
<1>. QED
  BY <1>2, <1>3

\* When every worker resumes, exit code 75 means that nothing the worker did
\* is lost and that it did something: recycling always moves forward.
THEOREM Recycling ==
  ASSUME ResumeOnly
  PROVE  Spec => RecycleLosesNothing
<1>1. ASSUME IInv, [Next]_vars
      PROVE  [\A p \in Process : Ends(p, RECYCLE) =>
                /\ progress # None /\ progress.completed = completed[p]
                /\ progress.signature = opt[p].signature
                /\ recent[p] > 0 /\ completed[p] < N]_vars
  <2> SUFFICES ASSUME Next, NEW p \in Process, Ends(p, RECYCLE)
               PROVE  /\ progress # None /\ progress.completed = completed[p]
                      /\ progress.signature = opt[p].signature
                      /\ recent[p] > 0 /\ completed[p] < N
    BY <1>1
  <2>1. Recycle(p)
    <3>1. code[p] \in ExitCode \cup {None} /\ code'[p] = RECYCLE
      BY <1>1 DEF IInv, TypeOK, Ends
    <3>2. \A c \in ExitCode : Exit(p, c) => c = RECYCLE
      BY <1>1, <3>1 DEF IInv, TypeOK, Exit
    <3>. QED
      BY <1>1, <3>2, Endings
      DEF LockBusy, FindComplete, Refuse, Cleanup, Die,
          ExitCode, SUCCESS, FAILURE, RECYCLE, SIGKILLED, SIGTERMED
  <2>2. pc[p] = "recycle" /\ Consistent(p) /\ completed[p] \in 0..N
    BY <1>1, <2>1, WorkingFacts DEF Recycle, Working
  <2>. QED
    BY <2>2 DEF Consistent, Durable, Signed
<1>2. IInv /\ [Next]_vars =>
        [\A p \in Process : Ends(p, RECYCLE) =>
                /\ progress # None /\ progress.completed = completed[p]
                /\ progress.signature = opt[p].signature
                /\ recent[p] > 0 /\ completed[p] < N]_vars
  BY <1>1
<1>. QED
  BY InductiveInv, <1>2, PTL DEF Spec, RecycleLosesNothing

\* When every worker resumes, exit code 0 means that a complete collection of
\* the worker's own settings is in the directory.
THEOREM Success ==
  ASSUME ResumeOnly
  PROVE  Spec => SuccessIsComplete
<1>1. ASSUME IInv, [Next]_vars
      PROVE  [\A p \in Process : Ends(p, SUCCESS) =>
                /\ manifest # None /\ manifest.signature = opt[p].signature
                /\ field # None /\ cacheFile # None]_vars
  <2> SUFFICES ASSUME Next, NEW p \in Process, Ends(p, SUCCESS)
               PROVE  /\ manifest # None /\ manifest.signature = opt[p].signature
                      /\ field # None /\ cacheFile # None
    BY <1>1
  <2>1. FindComplete(p) \/ Cleanup(p)
    <3>1. \A c \in ExitCode : Exit(p, c) => c = SUCCESS
      BY <1>1 DEF IInv, TypeOK, Ends, Exit
    <3>. QED
      BY <1>1, <3>1, Endings
      DEF LockBusy, Recycle, Refuse, Die,
          ExitCode, SUCCESS, FAILURE, RECYCLE, SIGKILLED, SIGTERMED
  <2>2. CASE FindComplete(p)
    BY <2>2 DEF FindComplete, AlreadyComplete
  <2>3. CASE Cleanup(p)
    <3>1. pc[p] = "cleanup" /\ Consistent(p)
      BY <1>1, <2>3, WorkingFacts DEF Cleanup, Working
    <3>. QED
      BY <3>1 DEF Consistent, Signed
  <2>. QED
    BY <2>1, <2>2, <2>3
<1>2. IInv /\ [Next]_vars =>
        [\A p \in Process : Ends(p, SUCCESS) =>
                /\ manifest # None /\ manifest.signature = opt[p].signature
                /\ field # None /\ cacheFile # None]_vars
  BY <1>1
<1>. QED
  BY InductiveInv, <1>2, PTL DEF Spec, SuccessIsComplete

-----------------------------------------------------------------------------
\* A commit moves the collection forward by what the process had not committed.
LEMMA CommitRefines ==
  ASSUME IInv, ResumeOnly, NEW p \in Process, CommitOrGoOn(p)
  PROVE  [C!CollectionNext]_C!cvars
<1> USE WorkerAssumption
<1> DEFINE saved == [signature |-> opt[p].signature, completed |-> completed[p],
                     rows |-> rows[p], statistics |-> statistics[p]]
<1>1. Consistent(p) /\ opt[p].resume /\ completed[p] \in 0..N /\ since[p] \in Nat
      /\ opt[p].signature \in Signature /\ rows[p] \in Count /\ statistics[p] \in Count
      /\ pc[p] = "commit"
  BY WorkingFacts DEF CommitOrGoOn, Working
<1>2. manifest = None /\ since[p] > 0 /\ Durable = completed[p] - since[p]
  BY <1>1 DEF Consistent
<1>3. UNCHANGED <<field, cacheFile, manifest>> /\ (progress' = saved \/ progress' = progress)
  <2>1. PICK overLimit \in BOOLEAN :
          LET recycling == RecycleDue(p, overLimit) IN
            IF opt[p].resume /\ CommitDue(p, recycling)
              THEN progress' = saved /\ since' = [since EXCEPT ![p] = 0]
              ELSE UNCHANGED <<progress, since>>
    BY DEF CommitOrGoOn
  <2>2. progress' = saved \/ progress' = progress
    BY <2>1
  <2>. QED
    BY <2>2 DEF CommitOrGoOn
<1>4. Published = None /\ Published' = None
  BY <1>2, <1>3 DEF Published
<1>5. CASE progress' = progress
  BY <1>3, <1>4, <1>5 DEF C!cvars, Durable
<1>6. CASE progress' = saved
  <2>1. saved \in [signature : Signature, completed : 0..N, rows : Count, statistics : Count]
    BY <1>1
  <2>2. saved # None
    BY <2>1 DEF Count, Observation
  <2>3. Durable' = completed[p]
    BY <1>2, <1>3, <1>6, <2>2 DEF Durable
  <2>4. Durable' \in Durable + 1 .. N
    BY <1>1, <1>2, <2>3
  <2>. QED
    BY <2>4, <1>4 DEF C!CollectionNext, C!Commit
<1>. QED
  BY <1>3, <1>5, <1>6

\* The manifest publishes the exact result of the process's settings.
LEMMA ManifestRefines ==
  ASSUME IInv, ResumeOnly, NEW p \in Process, SaveManifest(p)
  PROVE  [C!CollectionNext]_C!cvars
<1> USE WorkerAssumption
<1> DEFINE s == opt[p].signature
<1>1. Consistent(p) /\ s \in Signature /\ completed[p] \in 0..N /\ pc[p] = "manifest"
  BY WorkingFacts DEF SaveManifest, Working
<1>2. manifest = None /\ Durable = N /\ field # None /\ cacheFile # None
  BY <1>1 DEF Consistent
<1>3. manifest' = [signature |-> s] /\ manifest' # None /\ UNCHANGED <<field, cacheFile>>
  BY <1>1 DEF SaveManifest
<1>4. field.statistics = Upto(N) /\ cacheFile.rows = Upto(N)
  BY <1>2 DEF IInv, Directory
<1>5. Upto(N) = [i \in 1..N |-> 1]
  BY DEF Upto, Observation
<1>6. Published' = C!Exact(s)
  BY <1>3, <1>4, <1>5 DEF Published, C!Exact
<1>7. Published = None /\ Durable' = N
  BY <1>2, <1>3 DEF Published, Durable
<1>. QED
  BY <1>1, <1>2, <1>6, <1>7 DEF C!CollectionNext, C!Publish

LEMMA StepRefines ==
  ASSUME IInv, ResumeOnly, [Next]_vars
  PROVE  [C!CollectionNext]_C!cvars
<1>1. ASSUME UNCHANGED files
      PROVE  UNCHANGED C!cvars
  BY <1>1 DEF files, C!cvars, Durable, Published
<1>2. ASSUME NEW p \in Process,
             \/ \E o \in Launch : Start(p, o)
             \/ Acquire(p) \/ LockBusy(p) \/ FindComplete(p) \/ Refuse(p) \/ Begin(p)
             \/ Probe(p) \/ FinishObservation(p) \/ Recycle(p) \/ NothingLeft(p)
             \/ \E c \in {FAILURE, SIGKILLED, SIGTERMED} : Die(p, c)
      PROVE  UNCHANGED files
  BY <1>2 DEF Start, Acquire, LockBusy, FindComplete, Refuse, Begin, Probe, FinishObservation,
              Recycle, NothingLeft, Die
<1>3. ASSUME NEW p \in Process, SaveField(p) \/ SaveCache(p)
      PROVE  UNCHANGED C!cvars
  <2>1. pc[p] \in Working /\ pc[p] # "cleanup"
    BY <1>3 DEF SaveField, SaveCache, Working
  <2>2. manifest = None
    BY <2>1, WorkingFacts DEF Consistent
  <2>. QED
    BY <1>3, <2>2 DEF SaveField, SaveCache, C!cvars, Durable, Published
<1>4. ASSUME NEW p \in Process, Cleanup(p)
      PROVE  UNCHANGED C!cvars
  <2>1. manifest # None
    BY <1>4, WorkingFacts DEF Cleanup, Working, Consistent
  <2>. QED
    BY <1>4, <2>1 DEF Cleanup, C!cvars, Durable, Published
<1>5. CASE UNCHANGED vars
  BY <1>1, <1>5 DEF vars, files
<1>. QED
  BY <1>1, <1>2, <1>3, <1>4, <1>5, CommitRefines, ManifestRefines DEF Next, Step

\* When every worker resumes, any number of them, killed and restarted in any
\* order, are one collection: nothing committed is ever lost, and one exact
\* result is published.
THEOREM Refinement ==
  ASSUME ResumeOnly
  PROVE  Spec => ImplementsCollection
<1>1. Init => C!CollectionInit
  BY DEF Init, Durable, Published, C!CollectionInit
<1>2. IInv /\ [Next]_vars => [C!CollectionNext]_C!cvars
  BY StepRefines
<1>. QED
  BY InductiveInv, <1>1, <1>2, PTL DEF Spec, ImplementsCollection, C!CollectionSpec
=============================================================================
