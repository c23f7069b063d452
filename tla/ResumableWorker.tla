-------------------------- MODULE ResumableWorker --------------------------
(***************************************************************************)
(* scripts/resumable_worker.py over scripts/sensitivity_worker.py: a       *)
(* launcher runs its worker command again after exit code 75, and a few    *)
(* times after the worker was SIGKILLed (the OOM killer), and passes every *)
(* other exit code on.  On SIGTERM or SIGINT it stops its worker.          *)
(*                                                                         *)
(* Popen is two steps: the fork, after which the worker runs, and the      *)
(* assignment to `child`, before which the signal handler does not know    *)
(* the worker.  A launcher that is signalled in between, or SIGKILLed,     *)
(* leaves a worker behind that holds the lock and goes on working.         *)
(*                                                                         *)
(* child.wait() holds the lock of its Popen object, which is not           *)
(* reentrant, while it waits.  A handler that runs on top of it cannot     *)
(* learn that the worker ended: poll() answers None, wait(timeout=30)      *)
(* expires, and the wait() after the kill never returns.  Only a launcher  *)
(* that is signalled elsewhere leaves by `raise SystemExit`.               *)
(***************************************************************************)
EXTENDS SensitivityWorker

CONSTANTS Launcher,    \* launcher processes, each started at most once
          Other,       \* process ids of workers that no launcher starts
          MaxRecycles, \* --max-recycles
          KillRetries  \* --kill-retries

ASSUME LauncherAssumption ==
  /\ Other \subseteq Process
  /\ MaxRecycles \in Nat
  /\ KillRetries \in Nat
  /\ None \notin Int

VARIABLES
  lpc,       \* where it is: "wait" in child.wait() of main, "stopping" in the
             \* handler, "hanging" in a handler that can never return
  lopt,      \* the worker's command line
  child,     \* the worker process, None before the first one
  recycled,  \* restarts after exit code 75
  killed,    \* restarts after SIGKILL
  lcode,     \* the launcher's exit code, None while it runs
  disturbed  \* history: something other than SIGKILL of a worker got in the way

launcherState == <<lpc, lopt, child, recycled, killed, lcode>>
svars == <<vars, launcherState, disturbed>>

\* 128 + SIGTERM, 128 + SIGKILL, and the launcher's own SIGKILL.
STOPPED == 143
WORKERKILLED == 137

STypeOK ==
  /\ lpc \in [Launcher -> {"idle", "spawn", "forked", "assigned", "wait", "stopping",
                          "hanging", "done"}]
  /\ lopt \in [Launcher -> Launch \cup {None}]
  /\ child \in [Launcher -> Process \cup {None}]
  /\ recycled \in [Launcher -> 0..MaxRecycles]
  /\ killed \in [Launcher -> 0..KillRetries]
  /\ lcode \in [Launcher -> ExitCode \cup {None, STOPPED, WORKERKILLED}]
  /\ disturbed \in BOOLEAN

SInit ==
  /\ Init
  /\ lpc = [l \in Launcher |-> "idle"]
  /\ lopt = [l \in Launcher |-> None]
  /\ child = [l \in Launcher |-> None]
  /\ recycled = [l \in Launcher |-> 0]
  /\ killed = [l \in Launcher |-> 0]
  /\ lcode = [l \in Launcher |-> None]
  /\ disturbed = FALSE

\* A launcher that has a process the system still knows, running or a zombie.
HasWorker(l) == lpc[l] \in {"forked", "assigned", "wait", "stopping", "hanging"}
Unused == {p \in Process \ Other : pc[p] = "down"} \ {child[l] : l \in {k \in Launcher : HasWorker(k)}}

-----------------------------------------------------------------------------
Command(l, o) ==
  /\ lpc[l] = "idle"
  /\ lpc' = [lpc EXCEPT ![l] = "spawn"]
  /\ lopt' = [lopt EXCEPT ![l] = o]
  /\ disturbed' = (disturbed \/ \E k \in Launcher : lpc[k] # "idle")
  /\ UNCHANGED <<vars, child, recycled, killed, lcode>>

\* subprocess.Popen(command), up to the fork ...
Fork(l) ==
  /\ lpc[l] = "spawn"
  /\ \E p \in Unused : Start(p, lopt[l]) /\ child' = [child EXCEPT ![l] = p]
  /\ lpc' = [lpc EXCEPT ![l] = "forked"]
  /\ UNCHANGED <<lopt, recycled, killed, lcode, disturbed>>

\* ... and its return.
Assign(l) ==
  /\ lpc[l] = "forked"
  /\ lpc' = [lpc EXCEPT ![l] = "assigned"]
  /\ UNCHANGED <<vars, lopt, child, recycled, killed, lcode, disturbed>>

\* child.wait() takes the lock of the Popen object.
Wait(l) ==
  /\ lpc[l] = "assigned"
  /\ lpc' = [lpc EXCEPT ![l] = "wait"]
  /\ UNCHANGED <<vars, lopt, child, recycled, killed, lcode, disturbed>>

Done(l, c) ==
  /\ lpc' = [lpc EXCEPT ![l] = "done"]
  /\ lcode' = [lcode EXCEPT ![l] = c]

Reaped(l, c) == lpc[l] = "wait" /\ pc[child[l]] = "down" /\ code[child[l]] = c

RecycleWorker(l) ==
  /\ Reaped(l, RECYCLE) /\ recycled[l] < MaxRecycles
  /\ recycled' = [recycled EXCEPT ![l] = @ + 1]
  /\ lpc' = [lpc EXCEPT ![l] = "spawn"]
  /\ UNCHANGED <<vars, lopt, child, killed, lcode, disturbed>>

\* One retry more than --kill-retries.
RetryKilledOnceMore(l) ==
  /\ Reaped(l, SIGKILLED) /\ killed[l] <= KillRetries
  /\ killed' = [killed EXCEPT ![l] = @ + 1]
  /\ lpc' = [lpc EXCEPT ![l] = "spawn"]
  /\ UNCHANGED <<vars, lopt, child, recycled, lcode, disturbed>>

\* Retries are not counted.
RetryKilledForever(l) ==
  /\ Reaped(l, SIGKILLED) /\ killed[l] < KillRetries
  /\ lpc' = [lpc EXCEPT ![l] = "spawn"]
  /\ UNCHANGED <<vars, lopt, child, recycled, killed, lcode, disturbed>>

\* The retry is counted as a recycling.
RetryKilledAsRecycle(l) ==
  /\ Reaped(l, SIGKILLED) /\ recycled[l] < MaxRecycles
  /\ recycled' = [recycled EXCEPT ![l] = @ + 1]
  /\ lpc' = [lpc EXCEPT ![l] = "spawn"]
  /\ UNCHANGED <<vars, lopt, child, killed, lcode, disturbed>>

RetryKilled(l) ==
  /\ Reaped(l, SIGKILLED) /\ killed[l] < KillRetries
  /\ killed' = [killed EXCEPT ![l] = @ + 1]
  /\ lpc' = [lpc EXCEPT ![l] = "spawn"]
  /\ UNCHANGED <<vars, lopt, child, recycled, lcode, disturbed>>

\* A worker that was SIGKILLed too often ends the launcher as if it were done.
PassOnAbsolute(l) ==
  \E c \in ExitCode :
    /\ Reaped(l, c)
    /\ c = RECYCLE => recycled[l] = MaxRecycles
    /\ c = SIGKILLED => killed[l] = KillRetries
    /\ Done(l, IF c >= 0 THEN c ELSE SUCCESS)
    /\ UNCHANGED <<vars, lopt, child, recycled, killed, disturbed>>

\* raise SystemExit(code if code >= 0 else 128 - code)
PassOn(l) ==
  \E c \in ExitCode :
    /\ Reaped(l, c)
    /\ c = RECYCLE => recycled[l] = MaxRecycles
    /\ c = SIGKILLED => killed[l] = KillRetries
    /\ Done(l, IF c >= 0 THEN c ELSE 128 - c)
    /\ UNCHANGED <<vars, lopt, child, recycled, killed, disturbed>>

-----------------------------------------------------------------------------
\* SIGTERM or SIGINT, any number of times.  A handler that knows no worker, or
\* learns that it has ended, leaves at once; one that interrupts a wait, that of
\* main or of another handler, may find the lock taken for good.
Signal(l) ==
  /\ \/ /\ \/ lpc[l] \in {"spawn", "forked"}
           \/ lpc[l] \in {"assigned", "wait", "stopping"} /\ pc[child[l]] = "down"
        /\ Done(l, STOPPED)
     \/ /\ lpc[l] = "assigned" /\ pc[child[l]] # "down"
        /\ lpc' = [lpc EXCEPT ![l] = "stopping"]
        /\ UNCHANGED lcode
     \/ /\ lpc[l] \in {"wait", "stopping"}
        /\ lpc' = [lpc EXCEPT ![l] = "hanging"]
        /\ UNCHANGED lcode
  /\ disturbed' = TRUE
  /\ UNCHANGED <<vars, lopt, child, recycled, killed>>

\* terminate(): the worker dies of SIGTERM, or is killed after 30 seconds.
StopWorker(l) ==
  /\ lpc[l] \in {"stopping", "hanging"}
  /\ \E c \in {SIGTERMED, SIGKILLED} : Die(child[l], c)
  /\ UNCHANGED <<launcherState, disturbed>>

\* The waits of a handler that found the lock free.
StopDone(l) ==
  /\ lpc[l] = "stopping"
  /\ pc[child[l]] = "down"
  /\ Done(l, STOPPED)
  /\ UNCHANGED <<vars, lopt, child, recycled, killed, disturbed>>

\* SIGKILL of the launcher itself; its worker lives on.
LauncherKilled(l) ==
  /\ lpc[l] \notin {"idle", "done"}
  /\ Done(l, SIGKILLED)
  /\ disturbed' = TRUE
  /\ UNCHANGED <<vars, lopt, child, recycled, killed>>

WorkerStep(p) == Step(p) /\ UNCHANGED <<launcherState, disturbed>>

\* An exception in a worker, or a signal that does not come from its launcher.
WorkerDies(p, c) ==
  /\ Die(p, c)
  /\ disturbed' = (disturbed \/ c # SIGKILLED)
  /\ UNCHANGED launcherState

\* A worker that is started on the same directory by hand.
OtherWorker(p, o) ==
  /\ p \in Other
  /\ Start(p, o)
  /\ disturbed' = TRUE
  /\ UNCHANGED launcherState

LauncherStep(l) ==
  \/ Fork(l) \/ Assign(l) \/ Wait(l)
  \/ RecycleWorker(l) \/ RetryKilled(l) \/ PassOn(l)
  \/ StopWorker(l) \/ StopDone(l)

SNext ==
  \/ \E l \in Launcher :
       \/ \E o \in Launch : Command(l, o)
       \/ LauncherStep(l)
       \/ Signal(l)
       \/ LauncherKilled(l)
  \/ \E p \in Process :
       \/ WorkerStep(p)
       \/ \E o \in Launch : OtherWorker(p, o)
       \/ \E c \in {FAILURE, SIGKILLED, SIGTERMED} : WorkerDies(p, c)

\* Processes that run keep running; nothing obliges signals, failures or
\* commands to happen.
Fairness ==
  /\ \A l \in Launcher : WF_svars(LauncherStep(l))
  /\ \A p \in Process : WF_svars(WorkerStep(p))

SSpec == SInit /\ [][SNext]_svars /\ Fairness

-----------------------------------------------------------------------------
\* A launcher that exits 0 has its complete and exact collection behind it, and
\* no launcher that comes later spoils it.
LauncherSuccess ==
  \A l \in Launcher : lcode[l] = SUCCESS =>
    /\ manifest = [signature |-> lopt[l].signature]
    /\ field = [signature |-> lopt[l].signature, statistics |-> Upto(N)]
    /\ cacheFile = [signature |-> lopt[l].signature, rows |-> Upto(N)]

\* Observations that a worker has committed at least when it recycles.
Pace(o) == IF o.pressure THEN 1 ELSE o.recycleEvery

\* Every restart after exit code 75 has been paid for with observations that are
\* committed, --recycle-every of them unless memory runs short: recycling cannot
\* go round in circles, and a launcher gives up with 75 only on a collection of
\* more observations than its recyclings reach to (with the defaults of
\* calibrate.py more than 202).
RecycleBuysProgress ==
  \A l \in Launcher : lpc[l] # "idle" =>
    /\ recycled[l] * Pace(lopt[l]) <= Durable
    /\ lcode[l] = RECYCLE => (MaxRecycles + 1) * Pace(lopt[l]) < N

\* A launcher comes to an end, however often its workers recycle or are killed,
\* unless a signal catches it in a wait.  Then it hangs in its handler until it
\* is SIGKILLed, but it leaves no worker running.
LauncherEnds ==
  \A l \in Launcher :
    lpc[l] # "idle" ~> lpc[l] = "done" \/ (lpc[l] = "hanging" /\ pc[child[l]] = "down")

CollectsOrGivesUp(l) ==
  \/ lcode[l] = SUCCESS
  \/ lcode[l] = WORKERKILLED /\ killed[l] = KillRetries
  \/ lcode[l] = RECYCLE /\ (MaxRecycles + 1) * Pace(lopt[l]) < N

\* A launcher that nothing disturbs but kills of its workers completes the
\* collection, or gives up: after more kills than it has retries for, or when
\* the collection needs more recyclings than it has.
CompletesWhenCalm ==
  \A l \in Launcher : lpc[l] # "idle" ~> CollectsOrGivesUp(l) \/ disturbed
=============================================================================
