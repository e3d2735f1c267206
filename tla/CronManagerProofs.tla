--------------------------- MODULE CronManagerProofs ---------------------------
(***************************************************************************)
(* What CronManager guarantees for any number of instances, executions and *)
(* requests, under any of the faults.  The parts of CronInv are shown to   *)
(* be kept one after the other; each rests on TypeOK and RunShape.         *)
(***************************************************************************)
EXTENDS CronManager, TLAPS

\* A goroutine that returns leaves locals of the right types.
LEMMA ReturnType ==
    ASSUME TypeOK, NEW r \in Runs, Return(r)
    PROVE  /\ pc' \in [Runs -> RunPC]
           /\ inst' \in [Runs -> Inst \cup {None}]
           /\ entry' \in [Runs -> Entries \cup {None}]
           /\ cancelled' \in [Runs -> BOOLEAN]
           /\ outcome' \in [Runs -> Statuses \cup {"none"}]
           /\ row' \in [Runs -> Statuses \cup {"none", "running"}]
           /\ lapsed' \in [Runs -> BOOLEAN]
<1> USE DEF TypeOK
<1>1. pc' \in [Runs -> RunPC]
    BY DEF Return, Goto, RunPC
<1>2. inst' \in [Runs -> Inst \cup {None}] /\ entry' \in [Runs -> Entries \cup {None}]
    BY DEF Return, Forget
<1>3. cancelled' \in [Runs -> BOOLEAN] /\ lapsed' \in [Runs -> BOOLEAN]
    BY DEF Return, Forget
<1>4. outcome' \in [Runs -> Statuses \cup {"none"}]
    BY DEF Return, Forget
<1>5. row' \in [Runs -> Statuses \cup {"none", "running"}]
    BY DEF Return
<1> QED
    BY <1>1, <1>2, <1>3, <1>4, <1>5

\* Every step of the manager, of a request and of an execution keeps the types.
LEMMA TypeStep == TypeOK /\ [Next]_vars => TypeOK'
<1> SUFFICES ASSUME TypeOK, [Next]_vars PROVE TypeOK'
    OBVIOUS
<1> USE ModeAssumption, OpsAssumption, OffAssumption, NoneAssumption DEF TypeOK, RunPC, Sched, Statuses, managerVars, runVars, reqVars
<1>1. ASSUME NEW i \in Inst, Start(i) PROVE TypeOK'
    BY <1>1 DEF Start
<1>2. ASSUME NEW i \in Inst, NEW e \in Entries, StartRegister(i, e) PROVE TypeOK'
    BY <1>2 DEF StartRegister, FreshEntry
<1>3. ASSUME NEW i \in Inst, StopCron(i) \/ StopSweep(i) \/ StopDrained(i) PROVE TypeOK'
  <2>1. CASE StopCron(i) \/ StopDrained(i)
    BY <2>1 DEF StopCron, StopDrained
  <2>2. CASE StopSweep(i)
    <3>1. cancelled' \in [Runs -> BOOLEAN]
      BY <2>2 DEF StopSweep
    <3> QED
      BY <2>2, <3>1 DEF StopSweep
  <2> QED
    BY <1>3, <2>1, <2>2
<1>4. ASSUME NEW i \in Inst, Gone(i) PROVE TypeOK'
    BY <1>4 DEF Gone, Forget
<1>5. ASSUME NEW q \in Reqs, NEW i \in Inst, NEW op \in Ops, SetEnabled(q, i, op) PROVE TypeOK'
    BY <1>5 DEF SetEnabled
<1>6. ASSUME NEW q \in Reqs, EnableCheck(q) \/ EnablePanic(q) \/ EnableMap(q) PROVE TypeOK'
    BY <1>6 DEF EnableCheck, EnablePanic, EnableMap, Done
<1>7. ASSUME NEW q \in Reqs, NEW e \in Entries, EnableAdd(q, e) PROVE TypeOK'
    BY <1>7 DEF EnableAdd, FreshEntry
<1>8. ASSUME NEW q \in Reqs, DisableJob(q) PROVE TypeOK'
    BY <1>8 DEF DisableJob, Done
<1>9. ASSUME NEW r \in Runs, NEW i \in Inst, NEW e \in Entries, Fire(r, i, e) PROVE TypeOK'
    BY <1>9 DEF Fire, Spawn, FreeRun, Goto
<1>10. ASSUME NEW r \in Runs, NEW i \in Inst, NEW op \in Ops, TriggerManual(r, i, op) PROVE TypeOK'
    BY <1>10 DEF TriggerManual, Spawn, FreeRun, Goto
<1>11. ASSUME NEW r \in Runs, Admit(r) PROVE TypeOK'
  <2>1. CASE Return(r)
    BY <1>11, <2>1, ReturnType DEF Admit
  <2>2. CASE Goto(r, "register") /\ UNCHANGED <<inst, entry, cancelled, outcome, row, lapsed>>
    BY <1>11, <2>2 DEF Admit, Goto
  <2> QED
    BY <1>11, <2>1, <2>2 DEF Admit
<1>12. ASSUME NEW r \in Runs, Register(r) PROVE TypeOK'
    BY <1>12 DEF Register, Goto
<1>13. ASSUME NEW r \in Runs, TryLock(r) PROVE TypeOK'
    BY <1>13 DEF TryLock, Goto, Lock!Grant
<1>14. ASSUME NEW r \in Runs, RecordStart(r) \/ Handle(r) PROVE TypeOK'
    BY <1>14 DEF RecordStart, Handle, Goto
<1>15. ASSUME NEW r \in Runs, RecordEnd(r) PROVE TypeOK'
    BY <1>15 DEF RecordEnd, Goto
<1>16. ASSUME NEW r \in Runs, Unlock(r) PROVE TypeOK'
    BY <1>16 DEF Unlock, Goto, Lock!Release
<1>17. ASSUME NEW r \in Runs, Cleanup(r) \/ ManualEnd(r) PROVE TypeOK'
  <2>1. Return(r)
    BY <1>17 DEF Cleanup, ManualEnd
  <2> QED
    BY <1>17, <2>1, ReturnType DEF Cleanup, ManualEnd
<1>18. ASSUME NEW r \in Runs, Expire(r) PROVE TypeOK'
    BY <1>18 DEF Expire, Lock!Release
<1>19. ASSUME NEW r \in Runs, Lapse(r) PROVE TypeOK'
    BY <1>19 DEF Lapse, Lock!Release
<1>20. CASE UNCHANGED vars
    BY <1>20 DEF vars, runVars, managerVars, reqVars
<1> QED
    BY <1>1, <1>2, <1>3, <1>4, <1>5, <1>6, <1>7, <1>8, <1>9, <1>10, <1>11, <1>12, <1>13, <1>14, <1>15, <1>16, <1>17, <1>18, <1>19, <1>20
    DEF Next, InstStep, StopStep, ReqStep, RunStep, Exit, Crash

\* Every step keeps a run's entry and instance in accordance with where it is.
LEMMA ShapeStep == TypeOK /\ RunShape /\ [Next]_vars => RunShape'
<1> SUFFICES ASSUME TypeOK, RunShape, [Next]_vars PROVE RunShape'
    OBVIOUS
<1>0. TypeOK'
    BY TypeStep
<1> USE ModeAssumption, OpsAssumption, OffAssumption, NoneAssumption DEF TypeOK, RunPC, RunShape, Scheduled, managerVars, runVars, reqVars
<1>1. ASSUME NEW i \in Inst, Start(i) PROVE RunShape'
    BY <1>0, <1>1 DEF Start
<1>2. ASSUME NEW i \in Inst, NEW e \in Entries, StartRegister(i, e) PROVE RunShape'
    BY <1>0, <1>2 DEF StartRegister, FreshEntry
<1>3. ASSUME NEW i \in Inst, StopCron(i) \/ StopSweep(i) \/ StopDrained(i) PROVE RunShape'
    BY <1>0, <1>3 DEF StopCron, StopSweep, StopDrained
<1>4. ASSUME NEW i \in Inst, Gone(i) PROVE RunShape'
    BY <1>0, <1>4 DEF Gone, Forget
<1>5. ASSUME NEW q \in Reqs, NEW i \in Inst, NEW op \in Ops, SetEnabled(q, i, op) PROVE RunShape'
    BY <1>0, <1>5 DEF SetEnabled
<1>6. ASSUME NEW q \in Reqs, EnableCheck(q) \/ EnablePanic(q) \/ EnableMap(q) PROVE RunShape'
    BY <1>0, <1>6 DEF EnableCheck, EnablePanic, EnableMap, Done
<1>7. ASSUME NEW q \in Reqs, NEW e \in Entries, EnableAdd(q, e) PROVE RunShape'
    BY <1>0, <1>7 DEF EnableAdd, FreshEntry
<1>8. ASSUME NEW q \in Reqs, DisableJob(q) PROVE RunShape'
    BY <1>0, <1>8 DEF DisableJob, Done
<1>9. ASSUME NEW r \in Runs, NEW i \in Inst, NEW e \in Entries, Fire(r, i, e) PROVE RunShape'
    BY <1>0, <1>9 DEF Fire, Spawn, FreeRun, Goto
<1>10. ASSUME NEW r \in Runs, NEW i \in Inst, NEW op \in Ops, TriggerManual(r, i, op) PROVE RunShape'
    BY <1>0, <1>10 DEF TriggerManual, Spawn, FreeRun, Goto
<1>11. ASSUME NEW r \in Runs, Admit(r) PROVE RunShape'
    BY <1>0, <1>11 DEF Admit, Return, Forget, Goto
<1>12. ASSUME NEW r \in Runs, Register(r) PROVE RunShape'
    BY <1>0, <1>12 DEF Register, Goto
<1>13. ASSUME NEW r \in Runs, TryLock(r) PROVE RunShape'
    BY <1>0, <1>13 DEF TryLock, Goto, Lock!Grant
<1>14. ASSUME NEW r \in Runs, RecordStart(r) \/ Handle(r) PROVE RunShape'
    BY <1>0, <1>14 DEF RecordStart, Handle, Goto
<1>15. ASSUME NEW r \in Runs, RecordEnd(r) PROVE RunShape'
    BY <1>0, <1>15 DEF RecordEnd, Goto
<1>16. ASSUME NEW r \in Runs, Unlock(r) PROVE RunShape'
    BY <1>0, <1>16 DEF Unlock, Goto, Lock!Release
<1>17. ASSUME NEW r \in Runs, Cleanup(r) \/ ManualEnd(r) PROVE RunShape'
    BY <1>0, <1>17 DEF Cleanup, ManualEnd, Return, Forget, Goto
<1>18. ASSUME NEW r \in Runs, Expire(r) PROVE RunShape'
    BY <1>0, <1>18 DEF Expire, Lock!Release
<1>19. ASSUME NEW r \in Runs, Lapse(r) PROVE RunShape'
    BY <1>0, <1>19 DEF Lapse, Lock!Release
<1>20. CASE UNCHANGED vars
    BY <1>20 DEF vars, runVars, managerVars, reqVars
<1> QED
    BY <1>1, <1>2, <1>3, <1>4, <1>5, <1>6, <1>7, <1>8, <1>9, <1>10, <1>11, <1>12, <1>13, <1>14, <1>15, <1>16, <1>17, <1>18, <1>19, <1>20
    DEF Next, InstStep, StopStep, ReqStep, RunStep, Exit, Crash

\* Every step keeps the lock at one holder, and keeps it with a scheduled
\* execution until its end or its lease's.
LEMMA HolderStep == TypeOK /\ RunShape /\ HolderInv /\ [Next]_vars => HolderInv'
<1> SUFFICES ASSUME TypeOK, RunShape, HolderInv, [Next]_vars PROVE HolderInv'
    OBVIOUS
<1>0. TypeOK'
    BY TypeStep
<1> USE ModeAssumption, OpsAssumption, OffAssumption, NoneAssumption DEF TypeOK, RunShape, HolderInv, Lock!AtMostOneOwner, Scheduled, Executing, managerVars, runVars, reqVars
<1>1. ASSUME NEW i \in Inst, Start(i) PROVE HolderInv'
    BY <1>0, <1>1 DEF Start
<1>2. ASSUME NEW i \in Inst, NEW e \in Entries, StartRegister(i, e) PROVE HolderInv'
    BY <1>0, <1>2 DEF StartRegister, FreshEntry
<1>3. ASSUME NEW i \in Inst, StopCron(i) \/ StopSweep(i) \/ StopDrained(i) PROVE HolderInv'
    BY <1>0, <1>3 DEF StopCron, StopSweep, StopDrained
<1>4. ASSUME NEW i \in Inst, Gone(i) PROVE HolderInv'
    BY <1>0, <1>4 DEF Gone, Forget
<1>5. ASSUME NEW q \in Reqs, NEW i \in Inst, NEW op \in Ops, SetEnabled(q, i, op) PROVE HolderInv'
    BY <1>0, <1>5 DEF SetEnabled
<1>6. ASSUME NEW q \in Reqs, EnableCheck(q) \/ EnablePanic(q) \/ EnableMap(q) PROVE HolderInv'
    BY <1>0, <1>6 DEF EnableCheck, EnablePanic, EnableMap, Done
<1>7. ASSUME NEW q \in Reqs, NEW e \in Entries, EnableAdd(q, e) PROVE HolderInv'
    BY <1>0, <1>7 DEF EnableAdd, FreshEntry
<1>8. ASSUME NEW q \in Reqs, DisableJob(q) PROVE HolderInv'
    BY <1>0, <1>8 DEF DisableJob, Done
<1>9. ASSUME NEW r \in Runs, NEW i \in Inst, NEW e \in Entries, Fire(r, i, e) PROVE HolderInv'
    BY <1>0, <1>9 DEF Fire, Spawn, FreeRun, Goto
<1>10. ASSUME NEW r \in Runs, NEW i \in Inst, NEW op \in Ops, TriggerManual(r, i, op) PROVE HolderInv'
    BY <1>0, <1>10 DEF TriggerManual, Spawn, FreeRun, Goto
<1>11. ASSUME NEW r \in Runs, Admit(r) PROVE HolderInv'
    BY <1>0, <1>11 DEF Admit, Return, Forget, Goto
<1>12. ASSUME NEW r \in Runs, Register(r) PROVE HolderInv'
    BY <1>0, <1>12 DEF Register, Goto
<1>13. ASSUME NEW r \in Runs, TryLock(r) PROVE HolderInv'
    BY <1>0, <1>13 DEF TryLock, Goto, Lock!Grant
<1>14. ASSUME NEW r \in Runs, RecordStart(r) \/ Handle(r) PROVE HolderInv'
    BY <1>0, <1>14 DEF RecordStart, Handle, Goto
<1>15. ASSUME NEW r \in Runs, RecordEnd(r) PROVE HolderInv'
    BY <1>0, <1>15 DEF RecordEnd, Goto
<1>16. ASSUME NEW r \in Runs, Unlock(r) PROVE HolderInv'
    BY <1>0, <1>16 DEF Unlock, Goto, Lock!Release
<1>17. ASSUME NEW r \in Runs, Cleanup(r) \/ ManualEnd(r) PROVE HolderInv'
    BY <1>0, <1>17 DEF Cleanup, ManualEnd, Return, Forget, Goto
<1>18. ASSUME NEW r \in Runs, Expire(r) PROVE HolderInv'
    BY <1>0, <1>18 DEF Expire, Lock!Release
<1>19. ASSUME NEW r \in Runs, Lapse(r) PROVE HolderInv'
    BY <1>0, <1>19 DEF Lapse, Lock!Release
<1>20. CASE UNCHANGED vars
    BY <1>20 DEF vars, runVars, managerVars, reqVars
<1> QED
    BY <1>1, <1>2, <1>3, <1>4, <1>5, <1>6, <1>7, <1>8, <1>9, <1>10, <1>11, <1>12, <1>13, <1>14, <1>15, <1>16, <1>17, <1>18, <1>19, <1>20
    DEF Next, InstStep, StopStep, ReqStep, RunStep, Exit, Crash

\* Every step keeps cancelMap on goroutines that have not cleaned up: whoever
\* cleans up or dies takes the slot of the job with it.
LEMMA StaleStep == TypeOK /\ RunShape /\ NoStaleCancel /\ [Next]_vars => NoStaleCancel'
<1> SUFFICES ASSUME TypeOK, RunShape, NoStaleCancel, [Next]_vars PROVE NoStaleCancel'
    OBVIOUS
<1>0. TypeOK'
    BY TypeStep
<1> USE ModeAssumption, OpsAssumption, OffAssumption, NoneAssumption DEF TypeOK, RunPC, RunShape, NoStaleCancel, InCron, Scheduled, managerVars, runVars, reqVars
<1>1. ASSUME NEW i \in Inst, Start(i) PROVE NoStaleCancel'
    BY <1>0, <1>1 DEF Start
<1>2. ASSUME NEW i \in Inst, NEW e \in Entries, StartRegister(i, e) PROVE NoStaleCancel'
    BY <1>0, <1>2 DEF StartRegister, FreshEntry
<1>3. ASSUME NEW i \in Inst, StopCron(i) \/ StopSweep(i) \/ StopDrained(i) PROVE NoStaleCancel'
    BY <1>0, <1>3 DEF StopCron, StopSweep, StopDrained
<1>4. ASSUME NEW i \in Inst, Gone(i) PROVE NoStaleCancel'
    BY <1>0, <1>4 DEF Gone, Forget
<1>5. ASSUME NEW q \in Reqs, NEW i \in Inst, NEW op \in Ops, SetEnabled(q, i, op) PROVE NoStaleCancel'
    BY <1>0, <1>5 DEF SetEnabled
<1>6. ASSUME NEW q \in Reqs, EnableCheck(q) \/ EnablePanic(q) \/ EnableMap(q) PROVE NoStaleCancel'
    BY <1>0, <1>6 DEF EnableCheck, EnablePanic, EnableMap, Done
<1>7. ASSUME NEW q \in Reqs, NEW e \in Entries, EnableAdd(q, e) PROVE NoStaleCancel'
    BY <1>0, <1>7 DEF EnableAdd, FreshEntry
<1>8. ASSUME NEW q \in Reqs, DisableJob(q) PROVE NoStaleCancel'
    BY <1>0, <1>8 DEF DisableJob, Done
<1>9. ASSUME NEW r \in Runs, NEW i \in Inst, NEW e \in Entries, Fire(r, i, e) PROVE NoStaleCancel'
    BY <1>0, <1>9 DEF Fire, Spawn, FreeRun, Goto
<1>10. ASSUME NEW r \in Runs, NEW i \in Inst, NEW op \in Ops, TriggerManual(r, i, op) PROVE NoStaleCancel'
    BY <1>0, <1>10 DEF TriggerManual, Spawn, FreeRun, Goto
<1>11. ASSUME NEW r \in Runs, Admit(r) PROVE NoStaleCancel'
    BY <1>0, <1>11 DEF Admit, Return, Forget, Goto
<1>12. ASSUME NEW r \in Runs, Register(r) PROVE NoStaleCancel'
    BY <1>0, <1>12 DEF Register, Goto
<1>13. ASSUME NEW r \in Runs, TryLock(r) PROVE NoStaleCancel'
    BY <1>0, <1>13 DEF TryLock, Goto, Lock!Grant
<1>14. ASSUME NEW r \in Runs, RecordStart(r) \/ Handle(r) PROVE NoStaleCancel'
    BY <1>0, <1>14 DEF RecordStart, Handle, Goto
<1>15. ASSUME NEW r \in Runs, RecordEnd(r) PROVE NoStaleCancel'
    BY <1>0, <1>15 DEF RecordEnd, Goto
<1>16. ASSUME NEW r \in Runs, Unlock(r) PROVE NoStaleCancel'
    BY <1>0, <1>16 DEF Unlock, Goto, Lock!Release
<1>17. ASSUME NEW r \in Runs, Cleanup(r) \/ ManualEnd(r) PROVE NoStaleCancel'
    BY <1>0, <1>17 DEF Cleanup, ManualEnd, Return, Forget, Goto
<1>18. ASSUME NEW r \in Runs, Expire(r) PROVE NoStaleCancel'
    BY <1>0, <1>18 DEF Expire, Lock!Release
<1>19. ASSUME NEW r \in Runs, Lapse(r) PROVE NoStaleCancel'
    BY <1>0, <1>19 DEF Lapse, Lock!Release
<1>20. CASE UNCHANGED vars
    BY <1>20 DEF vars, runVars, managerVars, reqVars
<1> QED
    BY <1>1, <1>2, <1>3, <1>4, <1>5, <1>6, <1>7, <1>8, <1>9, <1>10, <1>11, <1>12, <1>13, <1>14, <1>15, <1>16, <1>17, <1>18, <1>19, <1>20
    DEF Next, InstStep, StopStep, ReqStep, RunStep, Exit, Crash

\* Every step keeps the lock with an execution, a dead process or a lease that
\* is about to expire.
LEMMA LeakStep == TypeOK /\ RunShape /\ NoLeakedLock /\ [Next]_vars => NoLeakedLock'
<1> SUFFICES ASSUME TypeOK, RunShape, NoLeakedLock, [Next]_vars PROVE NoLeakedLock'
    OBVIOUS
<1>0. TypeOK'
    BY TypeStep
<1> USE ModeAssumption, OpsAssumption, OffAssumption, NoneAssumption DEF TypeOK, RunPC, RunShape, NoLeakedLock, Scheduled, Executing, managerVars, runVars, reqVars
<1>1. ASSUME NEW i \in Inst, Start(i) PROVE NoLeakedLock'
    BY <1>0, <1>1 DEF Start
<1>2. ASSUME NEW i \in Inst, NEW e \in Entries, StartRegister(i, e) PROVE NoLeakedLock'
    BY <1>0, <1>2 DEF StartRegister, FreshEntry
<1>3. ASSUME NEW i \in Inst, StopCron(i) \/ StopSweep(i) \/ StopDrained(i) PROVE NoLeakedLock'
    BY <1>0, <1>3 DEF StopCron, StopSweep, StopDrained
<1>4. ASSUME NEW i \in Inst, Gone(i) PROVE NoLeakedLock'
    BY <1>0, <1>4 DEF Gone, Forget
<1>5. ASSUME NEW q \in Reqs, NEW i \in Inst, NEW op \in Ops, SetEnabled(q, i, op) PROVE NoLeakedLock'
    BY <1>0, <1>5 DEF SetEnabled
<1>6. ASSUME NEW q \in Reqs, EnableCheck(q) \/ EnablePanic(q) \/ EnableMap(q) PROVE NoLeakedLock'
    BY <1>0, <1>6 DEF EnableCheck, EnablePanic, EnableMap, Done
<1>7. ASSUME NEW q \in Reqs, NEW e \in Entries, EnableAdd(q, e) PROVE NoLeakedLock'
    BY <1>0, <1>7 DEF EnableAdd, FreshEntry
<1>8. ASSUME NEW q \in Reqs, DisableJob(q) PROVE NoLeakedLock'
    BY <1>0, <1>8 DEF DisableJob, Done
<1>9. ASSUME NEW r \in Runs, NEW i \in Inst, NEW e \in Entries, Fire(r, i, e) PROVE NoLeakedLock'
    BY <1>0, <1>9 DEF Fire, Spawn, FreeRun, Goto
<1>10. ASSUME NEW r \in Runs, NEW i \in Inst, NEW op \in Ops, TriggerManual(r, i, op) PROVE NoLeakedLock'
    BY <1>0, <1>10 DEF TriggerManual, Spawn, FreeRun, Goto
<1>11. ASSUME NEW r \in Runs, Admit(r) PROVE NoLeakedLock'
    BY <1>0, <1>11 DEF Admit, Return, Forget, Goto
<1>12. ASSUME NEW r \in Runs, Register(r) PROVE NoLeakedLock'
    BY <1>0, <1>12 DEF Register, Goto
<1>13. ASSUME NEW r \in Runs, TryLock(r) PROVE NoLeakedLock'
    BY <1>0, <1>13 DEF TryLock, Goto, Lock!Grant
<1>14. ASSUME NEW r \in Runs, RecordStart(r) \/ Handle(r) PROVE NoLeakedLock'
    BY <1>0, <1>14 DEF RecordStart, Handle, Goto
<1>15. ASSUME NEW r \in Runs, RecordEnd(r) PROVE NoLeakedLock'
    BY <1>0, <1>15 DEF RecordEnd, Goto
<1>16. ASSUME NEW r \in Runs, Unlock(r) PROVE NoLeakedLock'
    BY <1>0, <1>16 DEF Unlock, Goto, Lock!Release
<1>17. ASSUME NEW r \in Runs, Cleanup(r) \/ ManualEnd(r) PROVE NoLeakedLock'
    BY <1>0, <1>17 DEF Cleanup, ManualEnd, Return, Forget, Goto
<1>18. ASSUME NEW r \in Runs, Expire(r) PROVE NoLeakedLock'
    BY <1>0, <1>18 DEF Expire, Lock!Release
<1>19. ASSUME NEW r \in Runs, Lapse(r) PROVE NoLeakedLock'
    BY <1>0, <1>19 DEF Lapse, Lock!Release
<1>20. CASE UNCHANGED vars
    BY <1>20 DEF vars, runVars, managerVars, reqVars
<1> QED
    BY <1>1, <1>2, <1>3, <1>4, <1>5, <1>6, <1>7, <1>8, <1>9, <1>10, <1>11, <1>12, <1>13, <1>14, <1>15, <1>16, <1>17, <1>18, <1>19, <1>20
    DEF Next, InstStep, StopStep, ReqStep, RunStep, Exit, Crash

\* Every step that ends an execution has closed its row, if the database answers.
LEMMA RecordedStep == TypeOK /\ RunShape /\ OutcomeRecorded /\ [Next]_vars => OutcomeRecorded'
<1> SUFFICES ASSUME TypeOK, RunShape, OutcomeRecorded, [Next]_vars PROVE OutcomeRecorded'
    OBVIOUS
<1>0. TypeOK'
    BY TypeStep
<1> USE ModeAssumption, OpsAssumption, OffAssumption, NoneAssumption DEF TypeOK, RunPC, RunShape, OutcomeRecorded, Executing, managerVars, runVars, reqVars
<1>1. ASSUME NEW i \in Inst, Start(i) PROVE OutcomeRecorded'
    BY <1>0, <1>1 DEF Start
<1>2. ASSUME NEW i \in Inst, NEW e \in Entries, StartRegister(i, e) PROVE OutcomeRecorded'
    BY <1>0, <1>2 DEF StartRegister, FreshEntry
<1>3. ASSUME NEW i \in Inst, StopCron(i) \/ StopSweep(i) \/ StopDrained(i) PROVE OutcomeRecorded'
    BY <1>0, <1>3 DEF StopCron, StopSweep, StopDrained
<1>4. ASSUME NEW i \in Inst, Gone(i) PROVE OutcomeRecorded'
    BY <1>0, <1>4 DEF Gone, Forget
<1>5. ASSUME NEW q \in Reqs, NEW i \in Inst, NEW op \in Ops, SetEnabled(q, i, op) PROVE OutcomeRecorded'
    BY <1>0, <1>5 DEF SetEnabled
<1>6. ASSUME NEW q \in Reqs, EnableCheck(q) \/ EnablePanic(q) \/ EnableMap(q) PROVE OutcomeRecorded'
    BY <1>0, <1>6 DEF EnableCheck, EnablePanic, EnableMap, Done
<1>7. ASSUME NEW q \in Reqs, NEW e \in Entries, EnableAdd(q, e) PROVE OutcomeRecorded'
    BY <1>0, <1>7 DEF EnableAdd, FreshEntry
<1>8. ASSUME NEW q \in Reqs, DisableJob(q) PROVE OutcomeRecorded'
    BY <1>0, <1>8 DEF DisableJob, Done
<1>9. ASSUME NEW r \in Runs, NEW i \in Inst, NEW e \in Entries, Fire(r, i, e) PROVE OutcomeRecorded'
    BY <1>0, <1>9 DEF Fire, Spawn, FreeRun, Goto
<1>10. ASSUME NEW r \in Runs, NEW i \in Inst, NEW op \in Ops, TriggerManual(r, i, op) PROVE OutcomeRecorded'
    BY <1>0, <1>10 DEF TriggerManual, Spawn, FreeRun, Goto
<1>11. ASSUME NEW r \in Runs, Admit(r) PROVE OutcomeRecorded'
    BY <1>0, <1>11 DEF Admit, Return, Forget, Goto
<1>12. ASSUME NEW r \in Runs, Register(r) PROVE OutcomeRecorded'
    BY <1>0, <1>12 DEF Register, Goto
<1>13. ASSUME NEW r \in Runs, TryLock(r) PROVE OutcomeRecorded'
    BY <1>0, <1>13 DEF TryLock, Goto, Lock!Grant
<1>14. ASSUME NEW r \in Runs, RecordStart(r) \/ Handle(r) PROVE OutcomeRecorded'
    BY <1>0, <1>14 DEF RecordStart, Handle, Goto
<1>15. ASSUME NEW r \in Runs, RecordEnd(r) PROVE OutcomeRecorded'
    BY <1>0, <1>15 DEF RecordEnd, Goto, Statuses
<1>16. ASSUME NEW r \in Runs, Unlock(r) PROVE OutcomeRecorded'
    BY <1>0, <1>16 DEF Unlock, Goto, Lock!Release
<1>17. ASSUME NEW r \in Runs, Cleanup(r) \/ ManualEnd(r) PROVE OutcomeRecorded'
    BY <1>0, <1>17 DEF Cleanup, ManualEnd, Return, Forget, Goto
<1>18. ASSUME NEW r \in Runs, Expire(r) PROVE OutcomeRecorded'
    BY <1>0, <1>18 DEF Expire, Lock!Release
<1>19. ASSUME NEW r \in Runs, Lapse(r) PROVE OutcomeRecorded'
    BY <1>0, <1>19 DEF Lapse, Lock!Release
<1>20. CASE UNCHANGED vars
    BY <1>20 DEF vars, runVars, managerVars, reqVars
<1> QED
    BY <1>1, <1>2, <1>3, <1>4, <1>5, <1>6, <1>7, <1>8, <1>9, <1>10, <1>11, <1>12, <1>13, <1>14, <1>15, <1>16, <1>17, <1>18, <1>19, <1>20
    DEF Next, InstStep, StopStep, ReqStep, RunStep, Exit, Crash

\* Every step keeps one entry per instance and one run past its chain, where
\* nobody adds entries.
LEMMA EntryStep == TypeOK /\ RunShape /\ SingleEntryInv /\ [Next]_vars => SingleEntryInv'
<1> SUFFICES ASSUME TypeOK, RunShape, SingleEntryInv, [Next]_vars PROVE SingleEntryInv'
    OBVIOUS
<1>0. TypeOK'
    BY TypeStep
<1> USE ModeAssumption, OpsAssumption, OffAssumption, NoneAssumption DEF TypeOK, RunPC, Sched, RunShape, SingleEntryInv, OneEntry, OneAdmitted, Admitted, InCron, Scheduled, managerVars, runVars, reqVars
<1>1. ASSUME NEW i \in Inst, Start(i) PROVE SingleEntryInv'
    BY <1>0, <1>1 DEF Start
<1>2. ASSUME NEW i \in Inst, NEW e \in Entries, StartRegister(i, e) PROVE SingleEntryInv'
    BY <1>0, <1>2 DEF StartRegister, FreshEntry
<1>3. ASSUME NEW i \in Inst, StopCron(i) \/ StopSweep(i) \/ StopDrained(i) PROVE SingleEntryInv'
    BY <1>0, <1>3 DEF StopCron, StopSweep, StopDrained
<1>4. ASSUME NEW i \in Inst, Gone(i) PROVE SingleEntryInv'
    BY <1>0, <1>4 DEF Gone, Forget
<1>5. ASSUME NEW q \in Reqs, NEW i \in Inst, NEW op \in Ops, SetEnabled(q, i, op) PROVE SingleEntryInv'
    BY <1>0, <1>5 DEF SetEnabled
<1>6. ASSUME NEW q \in Reqs, EnableCheck(q) \/ EnablePanic(q) \/ EnableMap(q) PROVE SingleEntryInv'
    BY <1>0, <1>6 DEF EnableCheck, EnablePanic, EnableMap, Done
<1>7. ASSUME NEW q \in Reqs, NEW e \in Entries, EnableAdd(q, e) PROVE SingleEntryInv'
    BY <1>0, <1>7 DEF EnableAdd, FreshEntry
<1>8. ASSUME NEW q \in Reqs, DisableJob(q) PROVE SingleEntryInv'
    BY <1>0, <1>8 DEF DisableJob, Done
<1>9. ASSUME NEW r \in Runs, NEW i \in Inst, NEW e \in Entries, Fire(r, i, e) PROVE SingleEntryInv'
    BY <1>0, <1>9 DEF Fire, Spawn, FreeRun, Goto
<1>10. ASSUME NEW r \in Runs, NEW i \in Inst, NEW op \in Ops, TriggerManual(r, i, op) PROVE SingleEntryInv'
    BY <1>0, <1>10 DEF TriggerManual, Spawn, FreeRun, Goto
<1>11. ASSUME NEW r \in Runs, Admit(r) PROVE SingleEntryInv'
  <2>1. CASE Return(r)
    BY <1>0, <1>11, <2>1 DEF Admit, Return, Forget, Goto
  <2>2. CASE (Mode = "allow" \/ ~ChainBusy(inst[r], entry[r])) /\ Goto(r, "register") /\ inst' = inst /\ entry' = entry
    <3> SUFFICES ASSUME "enable" \notin Ops, Mode # "allow" PROVE OneEntry' /\ OneAdmitted'
      OBVIOUS
    <3>1. OneEntry'
      BY <1>0, <1>11, <2>2 DEF Admit, Goto
    <3>2. \A q \in Runs : Admitted(q) => inst[q] # inst[r]
      BY <1>11, <2>2 DEF Admit, ChainBusy
    <3>3. OneAdmitted'
      BY <1>0, <1>11, <2>2, <3>2 DEF Admit, Goto
    <3> QED
      BY <3>1, <3>3
  <2> QED
    BY <1>11, <2>1, <2>2 DEF Admit
<1>12. ASSUME NEW r \in Runs, Register(r) PROVE SingleEntryInv'
    BY <1>0, <1>12 DEF Register, Goto
<1>13. ASSUME NEW r \in Runs, TryLock(r) PROVE SingleEntryInv'
    BY <1>0, <1>13 DEF TryLock, Goto, Lock!Grant
<1>14. ASSUME NEW r \in Runs, RecordStart(r) \/ Handle(r) PROVE SingleEntryInv'
  <2>1. CASE RecordStart(r)
    BY <1>0, <2>1 DEF RecordStart, Goto
  <2>2. CASE Handle(r)
    BY <1>0, <2>2 DEF Handle, Goto
  <2> QED
    BY <1>14, <2>1, <2>2
<1>15. ASSUME NEW r \in Runs, RecordEnd(r) PROVE SingleEntryInv'
    BY <1>0, <1>15 DEF RecordEnd, Goto
<1>16. ASSUME NEW r \in Runs, Unlock(r) PROVE SingleEntryInv'
    BY <1>0, <1>16 DEF Unlock, Goto, Lock!Release
<1>17. ASSUME NEW r \in Runs, Cleanup(r) \/ ManualEnd(r) PROVE SingleEntryInv'
    BY <1>0, <1>17 DEF Cleanup, ManualEnd, Return, Forget, Goto
<1>18. ASSUME NEW r \in Runs, Expire(r) PROVE SingleEntryInv'
    BY <1>0, <1>18 DEF Expire, Lock!Release
<1>19. ASSUME NEW r \in Runs, Lapse(r) PROVE SingleEntryInv'
    BY <1>0, <1>19 DEF Lapse, Lock!Release
<1>20. CASE UNCHANGED vars
    BY <1>20 DEF vars, runVars, managerVars, reqVars
<1> QED
    BY <1>1, <1>2, <1>3, <1>4, <1>5, <1>6, <1>7, <1>8, <1>9, <1>10, <1>11, <1>12, <1>13, <1>14, <1>15, <1>16, <1>17, <1>18, <1>19, <1>20
    DEF Next, InstStep, StopStep, ReqStep, RunStep, Exit, Crash


\* CronInv holds in every behaviour, for any instances, runs, requests and faults.
THEOREM CronInvariant == Spec => []CronInv
<1>1. Init => CronInv
    BY NoneAssumption
    DEF Init, CronInv, TypeOK, RunShape, HolderInv, NoStaleCancel, NoLeakedLock, SingleEntryInv,
        OneEntry, OneAdmitted, Admitted, InCron, Scheduled, Executing, RunPC, Sched,
        Lock!Init, Lock!AtMostOneOwner
<1>2. CronInv /\ [Next]_vars => CronInv'
    BY TypeStep, ShapeStep, HolderStep, StaleStep, LeakStep, EntryStep DEF CronInv
<1> QED
    BY <1>1, <1>2, PTL DEF Spec

\* Two scheduled executions overlap only if a lease lapsed (manager.go 205-215).
THEOREM ScheduledRunsExclude == Spec => []ScheduledExclusive
<1>1. CronInv => ScheduledExclusive
    BY DEF CronInv, HolderInv, Lock!AtMostOneOwner, ScheduledExclusive
<1> QED
    BY <1>1, CronInvariant, PTL

\* cancelMap never holds the function of a run that is over (manager.go 194-203).
THEOREM CancelsAreFresh == Spec => []NoStaleCancel
<1>1. CronInv => NoStaleCancel
    BY DEF CronInv
<1> QED
    BY <1>1, CronInvariant, PTL

\* A run that is over does not keep the lock (manager.go 205-213).
THEOREM NoLockLeaks == Spec => []NoLeakedLock
<1>1. CronInv => NoLeakedLock
    BY DEF CronInv
<1> QED
    BY <1>1, CronInvariant, PTL

\* With one registration per start, Stop and a forced Disable reach the scheduled
\* execution of their instance (manager.go 97-102, 161-166).
THEOREM ExecutionsAreCancellable == Spec => []Cancellable
<1>1. CronInv => Cancellable
    BY DEF CronInv, TypeOK, SingleEntryInv, OneAdmitted, Cancellable, Admitted, InCron, Executing
<1> QED
    BY <1>1, CronInvariant, PTL

\* Every finished execution has a final status in its row as long as the database
\* answers (manager.go 235-236).
THEOREM OutcomesAreRecorded == Spec => []OutcomeRecorded
<1>1. Init => OutcomeRecorded
    BY DEF Init, OutcomeRecorded
<1>2. CronInv /\ OutcomeRecorded /\ [Next]_vars => OutcomeRecorded'
    BY RecordedStep DEF CronInv
<1> QED
    BY <1>1, <1>2, CronInvariant, PTL DEF Spec

-----------------------------------------------------------------------------
(* The manager on the lock service. *)

\* Whatever an execution, a request or a crash does to the lock is a step that the
\* lock service allows: runs of all instances take it only while it is free and
\* give back only what is theirs.
LEMMA LockStep == [Next]_vars => [Lock!Next]_owners
<1> SUFFICES ASSUME [Next]_vars PROVE [Lock!Next]_owners
    OBVIOUS
<1>1. ASSUME NEW i \in Inst, InstStep(i) PROVE UNCHANGED owners
    BY <1>1 DEF InstStep, Start, StartRegister, StopCron, StopStep, StopSweep, StopDrained,
                Exit, Crash, Gone
<1>2. ASSUME NEW q \in Reqs, ReqStep(q) \/ \E i \in Inst, op \in Ops : SetEnabled(q, i, op)
      PROVE  UNCHANGED owners
    BY <1>2 DEF ReqStep, SetEnabled, EnableCheck, EnableAdd, EnablePanic, EnableMap, DisableJob
<1>3. ASSUME NEW r \in Runs, RunStep(r) \/ Expire(r) \/ Lapse(r) PROVE [Lock!Next]_owners
  <2>1. UNCHANGED owners \/ Lock!Grant(r, Job) \/ Lock!Release(r, {Job})
    BY <1>3 DEF RunStep, Admit, Register, TryLock, RecordStart, Handle, RecordEnd, Unlock, Cleanup,
                ManualEnd, Expire, Lapse
  <2>2. Job \in {Job} /\ {Job} \in SUBSET {Job}
    OBVIOUS
  <2>3. QED
    BY <2>1, <2>2 DEF Lock!Next
<1>4. ASSUME NEW r \in Runs,
             \/ \E i \in Inst, e \in Entries : Fire(r, i, e)
             \/ \E i \in Inst, op \in Ops : TriggerManual(r, i, op)
      PROVE  UNCHANGED owners
    BY <1>4 DEF Fire, TriggerManual, Spawn
<1>5. QED
    BY <1>1, <1>2, <1>3, <1>4 DEF Next, vars

\* The manager is a client of LockService as EtcdLock provides it: what that promises
\* of the lock holds of the job's lock (manager.go 205-213, locker_adapter.go).
THEOREM CronUsesTheLock == Spec => Lock!Spec
<1>1. Init => Lock!Init
    BY DEF Init
<1>2. QED
    BY <1>1, LockStep, PTL DEF Spec, Lock!Spec

-----------------------------------------------------------------------------
(* One instance, one request at a time: the scheduler and the enabled column. *)

\* The entry of the map is the only one that cron has.
Paired(i) ==
    \/ entryMap[i] = None /\ entries[i] = {}
    \/ entryMap[i] \in Entries /\ entries[i] = {entryMap[i]}

\* What cron and the map hold while the request q is where it is: between the
\* update of the row and the end of the request the two differ in known ways.
MatchAt(i, q) ==
    \/ rpc[q] = "enable" /\ db = "on" /\ Paired(i)
    \/ rpc[q] = "add" /\ db = "on" /\ entryMap[i] = None /\ entries[i] = {}
    \/ rpc[q] = "map" /\ db = "on" /\ entryMap[i] = None /\ rentry[q] \in Entries
       /\ entries[i] = {rentry[q]}
    \/ rpc[q] \in {"disable", "force_disable"} /\ db = "off" /\ Paired(i)

Matched(i) == db # "absent" /\ Paired(i) /\ (entryMap[i] = None <=> db = "off")

\* The invariant behind SchedulerMatchesDB.
MatchInv ==
    /\ \A q \in Reqs : rpc[q] = "idle" \/ rinst[q] \in Inst
    /\ \A i \in Inst :
        /\ sched[i] \in {"down", "starting", "off"} => entries[i] = {} /\ entryMap[i] = None
        /\ sched[i] \in {"down", "starting"} => \A q \in Reqs : rpc[q] = "idle"
        /\ sched[i] = "starting" => db = "on"
        /\ sched[i] = "off" => \A q \in Reqs : rpc[q] # "map"
        /\ sched[i] = "running" =>
            \/ (\A q \in Reqs : rpc[q] = "idle") /\ Matched(i)
            \/ \E q \in Reqs : MatchAt(i, q)

\* One instance of the server, and one admin request in flight at a time.
OneAtATime == (\A i, j \in Inst : i = j) /\ (\A p, q \in Reqs : p = q)

\* The invariant holds before anything runs, ...
LEMMA MatchStart == Init => MatchInv
BY DEF Init, MatchInv

\* ... gives the agreement of scheduler and row when no request is on its way, ...
LEMMA MatchMeans == MatchInv => SchedulerMatchesDB
<1>1. SUFFICES ASSUME MatchInv, NEW i \in Inst, sched[i] = "running",
                      \A q \in Reqs : rpc[q] = "idle"
               PROVE  entries[i] = IF db = "off" THEN {} ELSE {entryMap[i]}
    BY DEF SchedulerMatchesDB
<1>2. Matched(i)
    BY <1>1 DEF MatchInv, MatchAt
<1>3. QED
    BY <1>2, NoneAssumption DEF Matched, Paired

\* An instance that starts has nothing in cron; what it registers it finds in the map.
LEMMA MatchLifecycle ==
    ASSUME OneAtATime, TypeOK, MatchInv, NEW i \in Inst,
           \/ Start(i) \/ StopCron(i) \/ StopStep(i) \/ Gone(i)
           \/ \E e \in Entries : StartRegister(i, e)
    PROVE  MatchInv'
<1> USE NoneAssumption DEF managerVars, reqVars
<1>0. \A j \in Inst : j = i
    BY DEF OneAtATime
<1>1. DOMAIN sched = Inst /\ DOMAIN entries = Inst /\ DOMAIN entryMap = Inst
    BY DEF TypeOK
<1>2. ASSUME Start(i) PROVE MatchInv'
  <2>1. sched[i] = "down" /\ entries' = entries /\ entryMap' = entryMap /\ rpc' = rpc
        /\ rinst' = rinst
    BY <1>2 DEF Start
  <2>2. entries[i] = {} /\ entryMap[i] = None /\ \A q \in Reqs : rpc[q] = "idle"
    BY <2>1 DEF MatchInv
  <2>3. CASE sched' = [sched EXCEPT ![i] = "off"]
    BY <1>0, <1>1, <2>1, <2>2, <2>3 DEF MatchInv
  <2>4. CASE /\ db' = IF db = "absent" THEN "on" ELSE db
             /\ sched' = [sched EXCEPT ![i] = IF db = "off" THEN "running" ELSE "starting"]
    <3>1. CASE db = "off"
      <4>1. sched'[i] = "running" /\ db' = "off"
        BY <1>1, <2>4, <3>1
      <4>2. Matched(i)'
        BY <2>1, <2>2, <4>1 DEF Matched, Paired
      <4>3. QED
        BY <1>0, <2>1, <2>2, <4>1, <4>2 DEF MatchInv
    <3>2. CASE db # "off"
      <4>1. sched'[i] = "starting" /\ db' = "on"
        BY <1>1, <2>4, <3>2 DEF TypeOK
      <4>2. QED
        BY <1>0, <2>1, <2>2, <4>1 DEF MatchInv
    <3>3. QED
      BY <3>1, <3>2
  <2>5. QED
    BY <1>2, <2>3, <2>4 DEF Start
<1>3. ASSUME NEW e \in Entries, StartRegister(i, e) PROVE MatchInv'
  <2>1. /\ sched[i] = "starting" /\ sched' = [sched EXCEPT ![i] = "running"]
        /\ entries' = [entries EXCEPT ![i] = @ \cup {e}]
        /\ entryMap' = [entryMap EXCEPT ![i] = e]
        /\ db' = db /\ rpc' = rpc /\ rinst' = rinst
    BY <1>3 DEF StartRegister
  <2>2. entries[i] = {} /\ db = "on" /\ \A q \in Reqs : rpc[q] = "idle"
    BY <2>1 DEF MatchInv
  <2>3. sched'[i] = "running" /\ entries'[i] = {e} /\ entryMap'[i] = e
    BY <1>1, <2>1, <2>2
  <2>4. Matched(i)'
    BY <2>1, <2>2, <2>3 DEF Matched, Paired
  <2>5. QED
    BY <1>0, <2>1, <2>2, <2>3, <2>4 DEF MatchInv
<1>4. ASSUME StopCron(i) \/ StopStep(i) PROVE MatchInv'
  <2>1. sched'[i] \in {"stopping", "draining", "stopped"}
    BY <1>1, <1>4 DEF StopCron, StopStep, StopSweep, StopDrained
  <2>2. rpc' = rpc /\ rinst' = rinst
    BY <1>4 DEF StopCron, StopStep, StopSweep, StopDrained
  <2>3. QED
    BY <1>0, <2>1, <2>2 DEF MatchInv
<1>5. ASSUME Gone(i) PROVE MatchInv'
  <2>1. sched'[i] = "down" /\ entries'[i] = {} /\ entryMap'[i] = None
    BY <1>1, <1>5 DEF Gone
  <2>2. \A q \in Reqs : rpc'[q] = "idle"
    BY <1>0, <1>5 DEF Gone, MatchInv
  <2>3. QED
    BY <1>0, <2>1, <2>2 DEF MatchInv
<1>6. QED
    BY <1>2, <1>3, <1>4, <1>5

\* A request takes the row ahead of the scheduler and brings the scheduler after it.
LEMMA MatchRequest ==
    ASSUME OneAtATime, TypeOK, MatchInv, NEW q \in Reqs,
           \/ \E i \in Inst, op \in Ops : SetEnabled(q, i, op)
           \/ ReqStep(q)
    PROVE  MatchInv'
<1> USE NoneAssumption DEF managerVars, reqVars
<1>0. /\ \A p \in Reqs : p = q
      /\ DOMAIN rpc = Reqs /\ DOMAIN rinst = Reqs /\ DOMAIN rentry = Reqs
      /\ DOMAIN sched = Inst /\ DOMAIN entries = Inst /\ DOMAIN entryMap = Inst
    BY DEF OneAtATime, TypeOK
<1>1. ASSUME NEW i \in Inst, NEW op \in Ops, SetEnabled(q, i, op) PROVE MatchInv'
  <2>0. \A j \in Inst : j = i
    BY DEF OneAtATime
  <2>1. /\ rpc[q] = "idle" /\ sched[i] \in {"running", "off"}
        /\ op \in {"enable", "disable", "force_disable"}
        /\ db' = IF db = "absent" THEN db ELSE IF op = "enable" THEN "on" ELSE "off"
        /\ rpc'[q] = op /\ rinst'[q] = i
        /\ sched' = sched /\ entries' = entries /\ entryMap' = entryMap
    BY <1>0, <1>1 DEF SetEnabled, Serving
  <2>2. CASE sched[i] = "off"
    BY <1>0, <2>0, <2>1, <2>2 DEF MatchInv
  <2>3. CASE sched[i] = "running"
    <3>1. Matched(i)
      BY <1>0, <2>1, <2>3 DEF MatchInv, MatchAt
    <3>2. MatchAt(i, q)'
      BY <2>1, <3>1 DEF Matched, MatchAt, Paired
    <3>3. QED
      BY <1>0, <2>0, <2>1, <2>3, <3>2 DEF MatchInv
  <2>4. QED
    BY <2>1, <2>2, <2>3
<1>2. ASSUME ReqStep(q) PROVE MatchInv'
  <2>1. rpc[q] # "idle" /\ sched' = sched /\ db' = db
    BY <1>2 DEF ReqStep, EnableCheck, EnablePanic, EnableMap, EnableAdd, DisableJob
  <2>2. PICK i \in Inst : rinst[q] = i /\ \A j \in Inst : j = i
    BY <2>1 DEF MatchInv, OneAtATime
  <2>3. rpc'[q] = "idle" \/ rinst'[q] = i
    <3>1. CASE Done(q)
      BY <1>0, <3>1 DEF Done
    <3>2. CASE rinst' = rinst
      BY <2>2, <3>2
    <3>3. QED
      BY <1>2, <3>1, <3>2
      DEF ReqStep, EnableCheck, EnablePanic, EnableMap, EnableAdd, DisableJob
  <2>4. sched[i] \notin {"down", "starting"}
    BY <2>1, <2>2 DEF MatchInv
  <2>5. ASSUME sched[i] = "off"
        PROVE  entries'[i] = {} /\ entryMap'[i] = None /\ rpc'[q] # "map"
    <3>1. entries[i] = {} /\ entryMap[i] = None /\ rpc[q] # "map"
      BY <2>2, <2>5 DEF MatchInv
    <3>2. CASE EnableCheck(q) \/ EnablePanic(q) \/ DisableJob(q)
      BY <1>0, <2>2, <3>1, <3>2 DEF EnableCheck, EnablePanic, DisableJob, Done
    <3>3. ~EnableMap(q) /\ \A e \in Entries : ~EnableAdd(q, e)
      BY <2>2, <2>5, <3>1 DEF EnableMap, EnableAdd
    <3>4. QED
      BY <1>2, <3>2, <3>3 DEF ReqStep
  <2>6. ASSUME sched[i] = "running"
        PROVE  (rpc'[q] = "idle" /\ Matched(i)') \/ MatchAt(i, q)'
    <3>1. MatchAt(i, q)
      BY <1>0, <2>1, <2>2, <2>6 DEF MatchInv
    <3>2. CASE EnableCheck(q)
      <4>1. rpc[q] = "enable" /\ db = "on" /\ Paired(i)
            /\ entries' = entries /\ entryMap' = entryMap
        BY <3>1, <3>2 DEF EnableCheck, MatchAt
      <4>2. CASE entryMap[i] # None
        <5>1. rpc'[q] = "idle"
          BY <1>0, <2>2, <3>2, <4>2 DEF EnableCheck, Done
        <5>2. QED
          BY <2>1, <4>1, <4>2, <5>1 DEF Matched, Paired
      <4>3. CASE entryMap[i] = None
        <5>1. rpc'[q] = "add"
          BY <1>0, <2>2, <3>2, <4>3 DEF EnableCheck
        <5>2. QED
          BY <2>1, <4>1, <4>3, <5>1 DEF MatchAt, Paired
      <4>4. QED
        BY <4>2, <4>3
    <3>3. ASSUME NEW e \in Entries, EnableAdd(q, e) PROVE MatchAt(i, q)'
      <4>1. rpc[q] = "add" /\ db = "on" /\ entryMap[i] = None /\ entries[i] = {}
        BY <3>1, <3>3 DEF EnableAdd, MatchAt
      <4>2. rpc'[q] = "map" /\ rentry'[q] = e /\ entryMap' = entryMap /\ entries'[i] = {e}
        BY <1>0, <2>2, <3>3, <4>1 DEF EnableAdd
      <4>3. QED
        BY <2>1, <4>1, <4>2 DEF MatchAt
    <3>4. CASE EnableMap(q)
      <4>1. rpc[q] = "map" /\ db = "on" /\ rentry[q] \in Entries /\ entries[i] = {rentry[q]}
        BY <3>1, <3>4 DEF EnableMap, MatchAt
      <4>2. rpc'[q] = "idle" /\ entryMap'[i] = rentry[q] /\ entries' = entries
        BY <1>0, <2>2, <3>4 DEF EnableMap, Done
      <4>3. QED
        BY <2>1, <4>1, <4>2 DEF Matched, Paired
    <3>5. CASE DisableJob(q)
      <4>1. rpc[q] \in {"disable", "force_disable"} /\ db = "off" /\ Paired(i)
        BY <3>1, <3>5 DEF DisableJob, MatchAt
      <4>2. entries'[i] = entries[i] \ {entryMap[i]} /\ entryMap'[i] = None /\ rpc'[q] = "idle"
        BY <1>0, <2>2, <3>5 DEF DisableJob, Done
      <4>3. QED
        BY <2>1, <4>1, <4>2 DEF Matched, Paired
    <3>6. ~EnablePanic(q)
      BY <2>2, <2>6 DEF EnablePanic
    <3>7. QED
      BY <1>2, <3>2, <3>3, <3>4, <3>5, <3>6 DEF ReqStep
  <2>7. QED
    BY <1>0, <2>1, <2>2, <2>3, <2>4, <2>5, <2>6 DEF MatchInv
<1>3. QED
    BY <1>1, <1>2

\* Executions, the clock and the leases touch neither the row nor the scheduler.
LEMMA MatchRest ==
    ASSUME MatchInv, UNCHANGED <<db, sched, entries, entryMap, reqVars>>
    PROVE  MatchInv'
BY DEF MatchInv, Matched, MatchAt, Paired, reqVars

\* So every step keeps the invariant.
LEMMA MatchStep ==
    ASSUME OneAtATime, TypeOK, MatchInv, [Next]_vars
    PROVE  MatchInv'
<1>1. ASSUME NEW i \in Inst, InstStep(i) PROVE MatchInv'
    BY <1>1, MatchLifecycle DEF InstStep, Exit, Crash
<1>2. ASSUME NEW q \in Reqs, ReqStep(q) \/ \E i \in Inst, op \in Ops : SetEnabled(q, i, op)
      PROVE  MatchInv'
    BY <1>2, MatchRequest
<1>3. ASSUME NEW r \in Runs,
             \/ RunStep(r) \/ Expire(r) \/ Lapse(r)
             \/ \E i \in Inst, e \in Entries : Fire(r, i, e)
             \/ \E i \in Inst, op \in Ops : TriggerManual(r, i, op)
      PROVE  MatchInv'
  <2>1. UNCHANGED <<db, sched, entries, entryMap, reqVars>>
    BY <1>3 DEF RunStep, Admit, Register, TryLock, RecordStart, Handle, RecordEnd, Unlock, Cleanup,
                ManualEnd, Expire, Lapse, Fire, TriggerManual, Spawn, managerVars, reqVars
  <2>2. QED
    BY <2>1, MatchRest
<1>4. CASE UNCHANGED vars
    BY <1>4, MatchRest DEF vars, reqVars
<1>5. QED
    BY <1>1, <1>2, <1>3, <1>4 DEF Next

\* With one instance and one admin request at a time the entries of cron are what
\* the enabled column says whenever no request is in flight, across restarts and
\* crashes at any step (handler/v1/cron_job.go 98-139, manager.go 136-168).
THEOREM SchedulerFollowsDB ==
    ASSUME OneAtATime
    PROVE  Spec => []SchedulerMatchesDB
<1>1. TypeOK /\ MatchInv /\ [Next]_vars => MatchInv'
    BY MatchStep
<1>2. CronInv => TypeOK
    BY DEF CronInv
<1>3. QED
    BY <1>1, <1>2, MatchStart, MatchMeans, CronInvariant, PTL DEF Spec
=============================================================================
