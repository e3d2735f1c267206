----------------------------- MODULE CronManager -----------------------------
(***************************************************************************)
(* internal/cronjob/manager.go on several server instances that share one  *)
(* database row and one etcd lock, together with the admin handlers of     *)
(* internal/handler/v1/cron_job.go that drive it.                          *)
(*                                                                         *)
(* One job: JobManager keeps everything per job name (entryMap, cancelMap, *)
(* the cron entry with its chain, the row of sys_cron_job, the lock), so   *)
(* jobs do not meet except for a moment in m.mu.  A member of Runs is a    *)
(* slot for one execution (a goroutine), a member of Reqs one for an HTTP  *)
(* request in flight.  Each critical section of m.mu, each call of the     *)
(* recorder, of the locker and of cron is a step.                          *)
(*                                                                         *)
(* The distributed lock is the abstract service that EtcdLock implements.  *)
(***************************************************************************)
EXTENDS Naturals, FiniteSets

CONSTANTS
    Inst,          \* server instances (processes)
    Off,           \* instances that may be started with cfg.Enabled false
    Runs,          \* slots for executions
    Reqs,          \* slots for enable and disable requests
    Ops,           \* the requests that clients make, a subset of AllOps
    Entries,       \* cron entry ids an instance can have in use at once
    Mode,          \* SystemJob.ExecutionMode()
    Faults,        \* what can go wrong, a subset of AllFaults
    Job,           \* the job's lock path
    None           \* no entry, no run, no instance

AllOps == {"enable", "disable", "force_disable", "trigger", "force_trigger"}

AllFaults == {"db",      \* RecordStart or RecordEnd fails
              "etcd",    \* the lease of an unlocked run is not revoked
              "lapse",   \* the lease of a live run ends (EtcdLock!Lapse)
              "crash"}   \* a process dies

Modes == {"skip", "delay", "allow"}

ASSUME ModeAssumption == Mode \in Modes
ASSUME OpsAssumption == Ops \subseteq AllOps /\ Faults \subseteq AllFaults
ASSUME OffAssumption == Off \subseteq Inst
ASSUME NoneAssumption == None \notin Inst \cup Runs \cup Entries

VARIABLES
    db,         \* the job's row: "absent", "on" or "off" (column enabled)
    sched,      \* state of each instance's JobManager
    entries,    \* entries[i]: ids of the job's entries in m.cron
    entryMap,   \* entryMap[i]: m.entryMap[name]
    cancelMap,  \* cancelMap[i]: the run whose cancel function is m.cancelMap[name]
    rpc,        \* requests: what an enable or disable has still to do
    rinst,      \* the instance that serves the request
    rentry,     \* the id AddJob returned to an enable request
    pc,         \* runs: where the goroutine is
    inst,       \* the instance it runs on
    entry,      \* the entry that fired it, None for a manual run
    cancelled,  \* its context has been cancelled
    outcome,    \* the status executeWithRecording computed
    row,        \* status column of its row in sys_cron_job_execution
    lapsed,     \* its lease ended while it was running
    owners      \* owners[Job]: holders of the distributed lock

dbVars == <<db>>
managerVars == <<sched, entries, entryMap, cancelMap>>
reqVars == <<rpc, rinst, rentry>>
runVars == <<pc, inst, entry, cancelled, outcome, row, lapsed>>
vars == <<db, sched, entries, entryMap, cancelMap, rpc, rinst, rentry,
          pc, inst, entry, cancelled, outcome, row, lapsed, owners>>

Lock == INSTANCE LockService WITH Keys <- {Job}, Sess <- Runs

Sched == {"down", "starting", "off", "running", "stopping", "draining", "stopped"}

RunPC == {"idle", "fired", "register", "lock", "start", "handle", "record",
          "unlock", "cleanup", "end", "dead"}

Statuses == {"success", "failed", "cancelled", "panic"}

-----------------------------------------------------------------------------
(* Helpers *)

Scheduled(r) == entry[r] # None

\* The goroutine has entered executeWithRecording and not left it.
Executing(r) == pc[r] \in {"start", "handle", "record"}

\* It is a goroutine of cron that has not returned: cron.Stop waits for it.
InCron(r) == Scheduled(r) /\ pc[r] # "dead"

\* It has passed the chain of its entry and not come back: the token of
\* SkipIfStillRunning is taken, or the mutex of DelayIfStillRunning held.
Admitted(r) == InCron(r) /\ pc[r] # "fired"

\* (Mutation: a goroutine waits for the mutex it is itself about to hold.)
ChainBusySelf(i, e) == \E q \in Runs : InCron(q) /\ inst[q] = i /\ entry[q] = e

ChainBusy(i, e) == \E q \in Runs : Admitted(q) /\ inst[q] = i /\ entry[q] = e

\* A slot nobody uses and no etcd lease refers to.
FreeRun(r) == pc[r] = "idle" /\ r \notin owners[Job]

\* cron hands out ids that no entry, run or request has.
FreshEntry(i, e) ==
    /\ e \in Entries \ entries[i]
    /\ \A r \in Runs : ~(InCron(r) /\ inst[r] = i /\ entry[r] = e)
    /\ \A q \in Reqs : ~(rpc[q] = "map" /\ rinst[q] = i /\ rentry[q] = e)

Serving(i) == sched[i] \in {"running", "off"}

Goto(r, p) == pc' = [pc EXCEPT ![r] = p]

\* The goroutines of R have returned or died, and their locals are gone.
Forget(R) ==
    /\ inst' = [r \in Runs |-> IF r \in R THEN None ELSE inst[r]]
    /\ entry' = [r \in Runs |-> IF r \in R THEN None ELSE entry[r]]
    /\ cancelled' = [r \in Runs |-> r \notin R /\ cancelled[r]]
    /\ outcome' = [r \in Runs |-> IF r \in R THEN "none" ELSE outcome[r]]
    /\ lapsed' = [r \in Runs |-> r \notin R /\ lapsed[r]]

\* A goroutine returns.  Its slot keeps the row only if that is still open.
Return(r) ==
    /\ Goto(r, "idle")
    /\ Forget({r})
    /\ row' = [row EXCEPT ![r] = IF @ = "running" THEN @ ELSE "none"]

Init ==
    /\ db = "absent"
    /\ sched = [i \in Inst |-> "down"]
    /\ entries = [i \in Inst |-> {}]
    /\ entryMap = [i \in Inst |-> None]
    /\ cancelMap = [i \in Inst |-> None]
    /\ rpc = [q \in Reqs |-> "idle"]
    /\ rinst = [q \in Reqs |-> None]
    /\ rentry = [q \in Reqs |-> None]
    /\ pc = [r \in Runs |-> "idle"]
    /\ inst = [r \in Runs |-> None]
    /\ entry = [r \in Runs |-> None]
    /\ cancelled = [r \in Runs |-> FALSE]
    /\ outcome = [r \in Runs |-> "none"]
    /\ row = [r \in Runs |-> "none"]
    /\ lapsed = [r \in Runs |-> FALSE]
    /\ Lock!Init

-----------------------------------------------------------------------------
(* JobManager.Start and Stop *)

\* OnStart: with the scheduler switched off nothing happens; else the job's
\* row is created if it is missing (an existing row keeps its enabled column)
\* and read.  A disabled job is not registered, and cron starts either way.
Start(i) ==
    /\ sched[i] = "down"
    /\ \/ /\ i \in Off
          /\ sched' = [sched EXCEPT ![i] = "off"]
          /\ UNCHANGED db
       \/ /\ db' = IF db = "absent" THEN "on" ELSE db
          /\ sched' = [sched EXCEPT ![i] = IF db = "off" THEN "running" ELSE "starting"]
    /\ UNCHANGED <<entries, entryMap, cancelMap, reqVars, runVars, owners>>

\* registerJob in Start, then cron.Start.
StartRegister(i, e) ==
    /\ sched[i] = "starting"
    /\ FreshEntry(i, e)
    /\ entries' = [entries EXCEPT ![i] = @ \cup {e}]
    /\ entryMap' = [entryMap EXCEPT ![i] = e]
    /\ sched' = [sched EXCEPT ![i] = "running"]
    /\ UNCHANGED <<db, cancelMap, reqVars, runVars, owners>>

\* Stop, first cron.Stop: no entry fires from here on.
StopCron(i) ==
    /\ sched[i] = "running"
    /\ sched' = [sched EXCEPT ![i] = "stopping"]
    /\ UNCHANGED <<db, entries, entryMap, cancelMap, reqVars, runVars, owners>>

\* Then, under the read lock, every registered cancel function is called.
StopSweep(i) ==
    /\ sched[i] = "stopping"
    /\ sched' = [sched EXCEPT ![i] = "draining"]
    /\ cancelled' = [r \in Runs |-> cancelled[r] \/ r = cancelMap[i]]
    /\ UNCHANGED <<db, entries, entryMap, cancelMap, reqVars,
                   pc, inst, entry, outcome, row, lapsed, owners>>

\* Last, Stop waits for cron's goroutines; manual runs are not among them.
StopDrained(i) ==
    /\ sched[i] = "draining"
    /\ \A r \in Runs : ~(InCron(r) /\ inst[r] = i)
    /\ sched' = [sched EXCEPT ![i] = "stopped"]
    /\ UNCHANGED <<db, entries, entryMap, cancelMap, reqVars, runVars, owners>>

\* The process is gone: whatever was running on i is not any more, while the
\* lease of the run that has the lock stays behind.  (So do the rows of its
\* executions, "running" for ever; nothing reads or repairs them.)
Gone(i) ==
    /\ sched' = [sched EXCEPT ![i] = "down"]
    /\ entries' = [entries EXCEPT ![i] = {}]
    /\ entryMap' = [entryMap EXCEPT ![i] = None]
    /\ cancelMap' = [cancelMap EXCEPT ![i] = None]
    /\ rpc' = [q \in Reqs |-> IF rinst[q] = i THEN "idle" ELSE rpc[q]]
    /\ rinst' = [q \in Reqs |-> IF rinst[q] = i THEN None ELSE rinst[q]]
    /\ rentry' = [q \in Reqs |-> IF rinst[q] = i THEN None ELSE rentry[q]]
    /\ pc' = [r \in Runs |-> IF inst[r] # i THEN pc[r]
                             ELSE IF r \in owners[Job] THEN "dead" ELSE "idle"]
    /\ Forget({r \in Runs : inst[r] = i})
    /\ row' = [r \in Runs |-> IF inst[r] = i THEN "none" ELSE row[r]]
    /\ UNCHANGED <<db, owners>>

\* After Stop, or once ShutdownTimeout is over, main closes the database and
\* the etcd client and returns; a process with the scheduler off just returns.
Exit(i) ==
    /\ sched[i] \in {"draining", "stopped", "off"}
    /\ Gone(i)

Crash(i) ==
    /\ "crash" \in Faults
    /\ sched[i] # "down"
    /\ Gone(i)

-----------------------------------------------------------------------------
(* Enable and Disable: the database first, the scheduler second *)

\* SetEnabled; an UPDATE of a row that does not exist changes nothing.
SetEnabled(q, i, op) ==
    /\ rpc[q] = "idle"
    /\ Serving(i)
    /\ op \in Ops \cap {"enable", "disable", "force_disable"}
    /\ db' = IF db = "absent" THEN db ELSE IF op = "enable" THEN "on" ELSE "off"
    /\ rpc' = [rpc EXCEPT ![q] = op]
    /\ rinst' = [rinst EXCEPT ![q] = i]
    /\ UNCHANGED <<rentry, managerVars, runVars, owners>>

Done(q) ==
    /\ rpc' = [rpc EXCEPT ![q] = "idle"]
    /\ rinst' = [rinst EXCEPT ![q] = None]
    /\ rentry' = [rentry EXCEPT ![q] = None]

\* (Mutation: EnableJob does not look whether the job is registered.)
EnableCheckNothing(q) ==
    /\ rpc[q] = "enable"
    /\ rpc' = [rpc EXCEPT ![q] = "add"]
    /\ UNCHANGED <<rinst, rentry, db, managerVars, runVars, owners>>

\* EnableJob looks up entryMap under the read lock and acts on it afterwards.
EnableCheck(q) ==
    /\ rpc[q] = "enable"
    /\ \/ entryMap[rinst[q]] # None /\ Done(q)
       \/ /\ entryMap[rinst[q]] = None
          /\ rpc' = [rpc EXCEPT ![q] = "add"]
          /\ UNCHANGED <<rinst, rentry>>
    /\ UNCHANGED <<db, managerVars, runVars, owners>>

\* registerJob adds a new entry, with a chain of its own, to m.cron ...
EnableAdd(q, e) ==
    /\ rpc[q] = "add"
    /\ sched[rinst[q]] # "off"
    /\ FreshEntry(rinst[q], e)
    /\ entries' = [entries EXCEPT ![rinst[q]] = @ \cup {e}]
    /\ rpc' = [rpc EXCEPT ![q] = "map"]
    /\ rentry' = [rentry EXCEPT ![q] = e]
    /\ UNCHANGED <<db, sched, entryMap, cancelMap, rinst, runVars, owners>>

\* ... or, where Start returned early and m.cron is nil, panics; gin recovers.
EnablePanic(q) ==
    /\ rpc[q] = "add"
    /\ sched[rinst[q]] = "off"
    /\ Done(q)
    /\ UNCHANGED <<db, managerVars, runVars, owners>>

\* ... and then takes the lock and overwrites entryMap.
EnableMap(q) ==
    /\ rpc[q] = "map"
    /\ entryMap' = [entryMap EXCEPT ![rinst[q]] = rentry[q]]
    /\ Done(q)
    /\ UNCHANGED <<db, sched, entries, cancelMap, runVars, owners>>

\* DisableJob, one critical section: the mapped entry leaves cron and, if the
\* request says so, the registered cancel function is called.
DisableJob(q) ==
    LET i == rinst[q] IN
    /\ rpc[q] \in {"disable", "force_disable"}
    /\ entries' = [entries EXCEPT ![i] = @ \ {entryMap[i]}]
    /\ entryMap' = [entryMap EXCEPT ![i] = None]
    /\ cancelled' = [r \in Runs |->
                        cancelled[r] \/ (rpc[q] = "force_disable" /\ r = cancelMap[i])]
    /\ Done(q)
    /\ UNCHANGED <<db, sched, cancelMap, pc, inst, entry, outcome, row, lapsed, owners>>

-----------------------------------------------------------------------------
(* Executions *)

\* A slot becomes a new goroutine on i.
Spawn(r, i, e, p) ==
    /\ FreeRun(r)
    /\ Goto(r, p)
    /\ inst' = [inst EXCEPT ![r] = i]
    /\ entry' = [entry EXCEPT ![r] = e]
    /\ row' = [row EXCEPT ![r] = "none"]
    /\ UNCHANGED <<db, managerVars, reqVars, cancelled, outcome, lapsed, owners>>

\* cron's clock starts the wrapped job of an entry in a goroutine.
Fire(r, i, e) ==
    /\ sched[i] = "running"
    /\ e \in entries[i]
    /\ Spawn(r, i, e, "fired")

\* TriggerManual: unless forced, and unless the mode allows overlaps, a
\* registered cancel function means ErrJobRunning.  The run gets a context
\* that nobody can cancel, no lock and no place in cancelMap.
TriggerManual(r, i, op) ==
    /\ Serving(i)
    /\ op \in Ops \cap {"trigger", "force_trigger"}
    /\ op = "trigger" /\ Mode # "allow" => cancelMap[i] = None
    /\ Spawn(r, i, None, "start")

\* (Mutation: the job is added without its chain.)
AdmitAll(r) ==
    /\ pc[r] = "fired"
    /\ Goto(r, "register")
    /\ UNCHANGED <<db, managerVars, reqVars, inst, entry, cancelled, outcome, row, lapsed, owners>>

\* The chain of the entry: SkipIfStillRunning returns while a run of the same
\* entry is inside, DelayIfStillRunning waits for it.
Admit(r) ==
    /\ pc[r] = "fired"
    /\ \/ /\ Mode = "allow" \/ ~ChainBusy(inst[r], entry[r])
          /\ Goto(r, "register")
          /\ UNCHANGED <<inst, entry, cancelled, outcome, row, lapsed>>
       \/ /\ Mode = "skip" /\ ChainBusy(inst[r], entry[r])
          /\ Return(r)
    /\ UNCHANGED <<db, managerVars, reqVars, owners>>

\* wrapJob stores its cancel function, whatever is stored there.
Register(r) ==
    /\ pc[r] = "register"
    /\ Goto(r, "lock")
    /\ cancelMap' = [cancelMap EXCEPT ![inst[r]] = r]
    /\ UNCHANGED <<db, sched, entries, entryMap, reqVars,
                   inst, entry, cancelled, outcome, row, lapsed, owners>>

\* (Mutation: the error of TryLock is logged and the job runs all the same.)
TryLockIgnored(r) ==
    /\ pc[r] = "lock"
    /\ Goto(r, "start")
    /\ Lock!Grant(r, Job) \/ UNCHANGED owners
    /\ UNCHANGED <<db, managerVars, reqVars, inst, entry, cancelled, outcome, row, lapsed>>

\* TryLock under the prefix "cron".  Any error skips the run: the lock is
\* taken, another attempt has a key there for a moment (EtcdLock!Undo), the
\* context is cancelled, or etcd does not answer.
TryLock(r) ==
    /\ pc[r] = "lock"
    /\ \/ /\ ~cancelled[r]
          /\ Lock!Grant(r, Job)
          /\ Goto(r, "start")
       \/ /\ Goto(r, "cleanup")
          /\ UNCHANGED owners
    /\ UNCHANGED <<db, managerVars, reqVars, inst, entry, cancelled, outcome, row, lapsed>>

\* RecordStart; without a row the run goes on with execID 0.
RecordStart(r) ==
    /\ pc[r] = "start"
    /\ Goto(r, "handle")
    /\ \/ row' = [row EXCEPT ![r] = "running"]
       \/ "db" \in Faults /\ UNCHANGED row
    /\ UNCHANGED <<db, managerVars, reqVars, inst, entry, cancelled, outcome, lapsed, owners>>

\* Handle returns or panics, and the status is chosen in this order: panic,
\* a cancelled context, an error, success.
Handle(r) ==
    /\ pc[r] = "handle"
    /\ Goto(r, "record")
    /\ \E s \in {"panic"} \cup IF cancelled[r] THEN {"cancelled"} ELSE {"failed", "success"} :
        outcome' = [outcome EXCEPT ![r] = s]
    /\ UNCHANGED <<db, managerVars, reqVars, inst, entry, cancelled, row, lapsed, owners>>

\* (Mutation: RecordEnd gets the job's own context.)
RecordEndJobCtx(r) ==
    /\ pc[r] = "record"
    /\ Goto(r, IF Scheduled(r) THEN "unlock" ELSE "end")
    /\ row' = [row EXCEPT ![r] = IF @ = "running" /\ ~cancelled[r] THEN outcome[r] ELSE @]
    /\ UNCHANGED <<db, managerVars, reqVars, inst, entry, cancelled, outcome, lapsed, owners>>

\* RecordEnd with the context that keeps no cancellation; afterwards a
\* scheduled run unlocks and a manual one ends.  (UpdateLastRun writes two
\* columns that nothing here reads.)
RecordEnd(r) ==
    /\ pc[r] = "record"
    /\ Goto(r, IF Scheduled(r) THEN "unlock" ELSE "end")
    /\ \/ row' = [row EXCEPT ![r] = IF @ = "running" THEN outcome[r] ELSE @]
       \/ "db" \in Faults /\ UNCHANGED row
    /\ UNCHANGED <<db, managerVars, reqVars, inst, entry, cancelled, outcome, lapsed, owners>>

\* (Mutation: nothing unlocks.)
UnlockForgotten(r) ==
    /\ pc[r] = "unlock"
    /\ Goto(r, "cleanup")
    /\ UNCHANGED <<db, managerVars, reqVars, inst, entry, cancelled, outcome, row, lapsed, owners>>

\* (Mutation: Unlock is retried with the job's context until it succeeds.)
UnlockRetries(r) ==
    /\ pc[r] = "unlock"
    /\ ~cancelled[r]
    /\ Goto(r, "cleanup")
    /\ Lock!Release(r, {Job}) \/ (r \notin owners[Job] /\ UNCHANGED owners)
    /\ UNCHANGED <<db, managerVars, reqVars, inst, entry, cancelled, outcome, row, lapsed>>

\* The deferred lock.Unlock: with a cancelled context the keys stay until the
\* lease is revoked, which happens all the same unless etcd does not answer.
Unlock(r) ==
    /\ pc[r] = "unlock"
    /\ Goto(r, "cleanup")
    /\ \/ Lock!Release(r, {Job})
       \/ r \notin owners[Job] /\ UNCHANGED owners
       \/ "etcd" \in Faults /\ UNCHANGED owners
    /\ UNCHANGED <<db, managerVars, reqVars, inst, entry, cancelled, outcome, row, lapsed>>

\* (Mutation: cancelMap keeps the cancel function.)
CleanupKeeps(r) ==
    /\ pc[r] = "cleanup"
    /\ Return(r)
    /\ UNCHANGED <<db, managerVars, reqVars, owners>>

\* The other deferred function: cancel, and delete whatever cancelMap has for
\* the job.
Cleanup(r) ==
    /\ pc[r] = "cleanup"
    /\ Return(r)
    /\ cancelMap' = [cancelMap EXCEPT ![inst[r]] = None]
    /\ UNCHANGED <<db, sched, entries, entryMap, reqVars, owners>>

\* The goroutine of a manual run returns.
ManualEnd(r) ==
    /\ pc[r] = "end"
    /\ Return(r)
    /\ UNCHANGED <<db, managerVars, reqVars, owners>>

\* The lease of a dead or unlocked run ends by its TTL.
Expire(r) ==
    /\ pc[r] \in {"cleanup", "idle", "dead"}
    /\ pc' = [pc EXCEPT ![r] = IF @ = "dead" THEN "idle" ELSE @]
    /\ Lock!Release(r, {Job})
    /\ UNCHANGED <<db, managerVars, reqVars, inst, entry, cancelled, outcome, row, lapsed>>

\* The lease of a live run ends (partition, stalled process); nobody notices.
Lapse(r) ==
    /\ "lapse" \in Faults
    /\ Executing(r)
    /\ Lock!Release(r, {Job})
    /\ lapsed' = [lapsed EXCEPT ![r] = TRUE]
    /\ UNCHANGED <<db, managerVars, reqVars, pc, inst, entry, cancelled, outcome, row>>

-----------------------------------------------------------------------------

RunStep(r) ==
    \/ Admit(r) \/ Register(r) \/ TryLock(r) \/ RecordStart(r) \/ Handle(r)
    \/ RecordEnd(r) \/ Unlock(r) \/ Cleanup(r) \/ ManualEnd(r)

ReqStep(q) ==
    \/ EnableCheck(q) \/ EnablePanic(q) \/ EnableMap(q) \/ DisableJob(q)
    \/ \E e \in Entries : EnableAdd(q, e)

StopStep(i) == StopSweep(i) \/ StopDrained(i)

InstStep(i) ==
    \/ Start(i) \/ StopCron(i) \/ StopStep(i) \/ Exit(i) \/ Crash(i)
    \/ \E e \in Entries : StartRegister(i, e)

Next ==
    \/ \E i \in Inst : InstStep(i)
    \/ \E q \in Reqs : ReqStep(q) \/ \E i \in Inst, op \in Ops : SetEnabled(q, i, op)
    \/ \E r \in Runs :
        \/ RunStep(r) \/ Expire(r) \/ Lapse(r)
        \/ \E i \in Inst, e \in Entries : Fire(r, i, e)
        \/ \E i \in Inst, op \in Ops : TriggerManual(r, i, op)

Spec == Init /\ [][Next]_vars

\* Goroutines run and Handle returns; a goroutine waiting in
\* DelayIfStillRunning gets the mutex in its turn (sync.Mutex is not unfair
\* for ever); leases nobody renews end; Stop goes on.  Nobody is obliged to
\* start, stop or crash a process, and the clock need not fire.
Fairness ==
    /\ \A r \in Runs : SF_vars(RunStep(r)) /\ WF_vars(Expire(r))
    /\ \A q \in Reqs : WF_vars(ReqStep(q))
    /\ \A i \in Inst : WF_vars(StopStep(i))

FairSpec == Spec /\ Fairness

-----------------------------------------------------------------------------
(* Properties *)

TypeOK ==
    /\ db \in {"absent", "on", "off"}
    /\ sched \in [Inst -> Sched]
    /\ entries \in [Inst -> SUBSET Entries]
    /\ entryMap \in [Inst -> Entries \cup {None}]
    /\ cancelMap \in [Inst -> Runs \cup {None}]
    /\ rpc \in [Reqs -> {"idle", "enable", "add", "map", "disable", "force_disable"}]
    /\ rinst \in [Reqs -> Inst \cup {None}]
    /\ rentry \in [Reqs -> Entries \cup {None}]
    /\ pc \in [Runs -> RunPC]
    /\ inst \in [Runs -> Inst \cup {None}]
    /\ entry \in [Runs -> Entries \cup {None}]
    /\ cancelled \in [Runs -> BOOLEAN]
    /\ outcome \in [Runs -> Statuses \cup {"none"}]
    /\ row \in [Runs -> Statuses \cup {"none", "running"}]
    /\ lapsed \in [Runs -> BOOLEAN]
    /\ owners \in [{Job} -> SUBSET Runs]

\* Two scheduled executions of the job overlap, on whatever instances, only
\* if the lease of one of them lapsed: the lock is taken before RecordStart
\* and given back after RecordEnd on every path, and any TryLock error skips
\* the run (manager.go 205-215).
ScheduledExclusive ==
    \A r, q \in Runs :
        Executing(r) /\ Scheduled(r) /\ Executing(q) /\ Scheduled(q) /\ r # q =>
            lapsed[r] \/ lapsed[q]

\* Nobody is ever cancelled by mistake: what cancelMap holds is a goroutine of
\* this instance that is between Register and Cleanup (manager.go 194-203),
\* also after crashes, skips and overlapping runs of several entries.
NoStaleCancel ==
    \A i \in Inst : cancelMap[i] # None =>
        LET r == cancelMap[i] IN
        /\ InCron(r) /\ inst[r] = i
        /\ pc[r] \notin {"fired", "register"}

\* While the job is registered once, Stop and a forced Disable can reach the
\* scheduled execution of their instance (manager.go 97-102 and 161-166): it
\* is the one in cancelMap.  This needs the chain to keep a second run of the
\* entry out until the first one has cleaned up; a second registration during
\* a run breaks it, which is why the property is about instances whose entries
\* nobody adds.
Cancellable ==
    "enable" \notin Ops /\ Mode # "allow" =>
        \A r \in Runs : Executing(r) /\ Scheduled(r) => cancelMap[inst[r]] = r

\* With one admin request at a time and one instance, the scheduler and the
\* enabled column agree whenever no request is in flight: an enabled job has
\* exactly one entry, a disabled one none (handler/v1/cron_job.go 98-105 and
\* 132-139, manager.go 136-168).
SchedulerMatchesDB ==
    \A i \in Inst :
        sched[i] = "running" /\ (\A q \in Reqs : rpc[q] = "idle") =>
            entries[i] = IF db = "off" THEN {} ELSE {entryMap[i]}

\* Every execution that ran to its end left a final status in its row, the
\* cancelled ones too, as long as the database answers (manager.go 235-236:
\* "收尾的落库不受 job ctx 取消影响").
OutcomeRecorded ==
    "db" \notin Faults =>
        \A r \in Runs : row[r] = "running" => Executing(r)

\* A lock is held only by a goroutine that is executing, or by one whose lease
\* is about to expire: a skipped, cancelled, panicked or finished run never
\* keeps the job from running elsewhere (manager.go 205-213).
NoLeakedLock ==
    \A r \in owners[Job] :
        \/ Scheduled(r) /\ (Executing(r) \/ pc[r] = "unlock")
        \/ pc[r] = "dead"
        \/ "etcd" \in Faults /\ pc[r] \in {"cleanup", "idle"}

\* The inductive invariants behind these properties: one holder of the lock,
\* and an execution of cron has it unless its lease lapsed ...
RunShape ==
    \A r \in Runs :
        /\ pc[r] \in {"idle", "dead", "end"} => entry[r] = None
        /\ pc[r] \in {"fired", "register", "lock", "unlock", "cleanup"} => entry[r] # None
        /\ pc[r] \notin {"idle", "dead"} => inst[r] \in Inst

HolderInv ==
    /\ Lock!AtMostOneOwner
    /\ \A r \in Runs : Executing(r) /\ Scheduled(r) => lapsed[r] \/ r \in owners[Job]

\* ... and, where nobody adds entries, one entry and one admitted run each.
OneEntry ==
    /\ \A q \in Reqs : rpc[q] \in {"idle", "disable", "force_disable"}
    /\ \A i \in Inst :
        /\ \A e, f \in entries[i] : e = f
        /\ \A r \in Runs : InCron(r) /\ inst[r] = i =>
            /\ sched[i] \notin {"down", "starting", "off"}
            /\ \A e \in entries[i] : e = entry[r]
            /\ \A q \in Runs : InCron(q) /\ inst[q] = i => entry[q] = entry[r]
        /\ sched[i] \in {"down", "starting", "off"} => entries[i] = {}

OneAdmitted ==
    /\ \A r, q \in Runs : Admitted(r) /\ Admitted(q) /\ inst[r] = inst[q] => r = q
    /\ \A r \in Runs : Admitted(r) /\ pc[r] # "register" => cancelMap[inst[r]] = r

SingleEntryInv == "enable" \notin Ops /\ Mode # "allow" => OneEntry /\ OneAdmitted

CronInv ==
    TypeOK /\ RunShape /\ HolderInv /\ NoStaleCancel /\ NoLeakedLock /\ SingleEntryInv

\* Every execution cron starts comes to an end, a delayed one in its turn.
EveryRunEnds == \A r \in Runs : pc[r] = "fired" ~> pc[r] \in {"idle", "dead"}

\* Stop returns: the runs it waits for, delayed ones included, end.
StopReturns == \A i \in Inst : sched[i] = "stopping" ~> sched[i] \in {"stopped", "down"}

-----------------------------------------------------------------------------
(* What the documentation says and the code does not do *)

\* architecture.excalidraw: the lock is taken before execution so that of one
\* job only one copy runs across instances.
OneCopy == \A r, q \in Runs : pc[r] = "handle" /\ pc[q] = "handle" => r = q

=============================================================================
