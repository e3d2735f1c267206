----------------------------- MODULE JobRecords -----------------------------
(***************************************************************************)
(* What the database keeps of one cron job: its row and the history of its *)
(* executions, written by any number of instances and runs and paged       *)
(* through by the admin API (internal/service/cron_job.go,                 *)
(* internal/dal/cron_job.go).  CronManager models who calls this and when; *)
(* here the calls come in any order.                                       *)
(***************************************************************************)
EXTENDS Integers, FiniteSets

CONSTANTS Releases,         \* the intervals that releases of the program give the job
          Runs,             \* executions under way at once
          Outcomes,         \* final statuses of an execution
          MaxRows,          \* bound: rows of the history, by their ids
          MaxPageSize,      \* 100
          DefaultPageSize   \* 20

ASSUME RecordsAssumption ==
    /\ "running" \notin Outcomes
    /\ MaxRows \in Nat /\ MaxPageSize \in Nat /\ DefaultPageSize \in Nat \ {0}

VARIABLES
    job,        \* the row of sys_cron_job with this name, or NoJob
    rows,       \* statuses of the rows of sys_cron_job_execution, by id
    run,        \* what an execution has recorded
    pager,      \* a client that reads the history page by page
    (* history, for the properties *)
    wanted      \* what the administrator has last set

recordsVars == <<job, rows, run, pager, wanted>>

NoJob == [interval |-> "none"]

JobRow == [interval : Releases, enabled : BOOLEAN, last : Outcomes \cup {"never"}]

Statuses == Outcomes \cup {"running"}

NotRunning == [at |-> "none"]

NoPager == [at |-> "closed"]

RecordsInit ==
    /\ job = NoJob
    /\ rows = [id \in {} |-> "running"]
    /\ run = [r \in Runs |-> NotRunning]
    /\ pager = NoPager
    /\ wanted = TRUE

-----------------------------------------------------------------------------
(* The job's row *)

\* INSERT ... ON CONFLICT (name) WHERE deleted_at = 0: the column's default for
\* enabled where the row is new, the interval and nothing of the administrator's
\* where it is not.
UpsertJob(i) ==
    IF job = NoJob THEN [interval |-> i, enabled |-> TRUE, last |-> "never"]
                   ELSE [job EXCEPT !.interval = i]

\* (Mutation: every column is assigned on conflict.)
UpsertAll(i) == [interval |-> i, enabled |-> TRUE, last |-> "never"]

\* SyncJobDefinitions, when an instance of a release starts.
SyncJobDefinitions(i) ==
    /\ job' = UpsertJob(i)
    /\ wanted' = (job = NoJob \/ wanted)
    /\ UNCHANGED <<rows, run, pager>>

\* IsJobEnabled: a job without a row is enabled.
IsJobEnabled == job = NoJob \/ job.enabled

\* An UPDATE by name, which does not mind if there is no row.
UpdateEnabled(b) == IF job = NoJob THEN job ELSE [job EXCEPT !.enabled = b]

UpdateLast(status) == IF job = NoJob THEN job ELSE [job EXCEPT !.last = status]

SetEnabled(b) ==
    /\ job' = UpdateEnabled(b)
    /\ wanted' = IF job = NoJob THEN wanted ELSE b
    /\ UNCHANGED <<rows, run, pager>>

\* What the admin API shows of the row: every field is copied.  A list without
\* rows is empty, a single job without a row is an error.
NewCronJobItem(m) == [interval |-> m.interval, enabled |-> m.enabled, last |-> m.last]

NewCronJobItems(ms) == {NewCronJobItem(m) : m \in ms}

ListAll == IF job = NoJob THEN {} ELSE {job}

ListJobs == NewCronJobItems(ListAll)

GetJob == IF job = NoJob THEN "error" ELSE NewCronJobItem(job)

-----------------------------------------------------------------------------
(* Executions *)

CreateExecution(id) ==
    rows' = [n \in DOMAIN rows \cup {id} |-> IF n = id THEN "running" ELSE rows[n]]

UpdateExecution(id, status) == rows' = [rows EXCEPT ![id] = status]

\* RecordStart: ids are drawn before their rows are committed, in any order; a
\* failed insert leaves the run without a row.
RecordStart(r) ==
    /\ run[r] = NotRunning
    /\ \/ \E id \in 1 .. MaxRows \ DOMAIN rows :
            /\ CreateExecution(id)
            /\ run' = [run EXCEPT ![r] = [at |-> "started", id |-> id]]
       \/ run' = [run EXCEPT ![r] = [at |-> "started", id |-> 0]] /\ UNCHANGED rows
    /\ UNCHANGED <<job, pager, wanted>>

\* RecordEnd, of a run with a row; its error is only logged.
RecordEnd(r, status) ==
    /\ run[r].at = "started"
    /\ run' = [run EXCEPT ![r] = [at |-> "ended", status |-> status]]
    /\ \/ run[r].id # 0 /\ UpdateExecution(run[r].id, status)
       \/ UNCHANGED rows
    /\ UNCHANGED <<job, pager, wanted>>

\* UpdateLastRun, likewise.
UpdateLastRun(r) ==
    /\ run[r].at = "ended"
    /\ job' \in {job, UpdateLast(run[r].status)}
    /\ run' = [run EXCEPT ![r] = NotRunning]
    /\ UNCHANGED <<rows, pager, wanted>>

-----------------------------------------------------------------------------
(* The history, newest first *)

Rank(id) == Cardinality({n \in DOMAIN rows : n >= id})

PageSize(asked) == IF asked < 1 \/ asked > MaxPageSize THEN DefaultPageSize ELSE asked

PageNumber(asked) == IF asked < 1 THEN 1 ELSE asked

\* (Mutation: pages are counted from nought.)
OffsetShifted(page, size) == page * size

Offset(page, size) == (page - 1) * size

\* What the API shows of a row: every field is copied.
NewCronJobExecutionItem(id) == [id |-> id, status |-> rows[id]]

NewCronJobExecutionItems(ids) == {NewCronJobExecutionItem(id) : id \in ids}

\* The page sizes that the binding lets through; 0 stands for none given.
PageSizes == 0 .. MaxPageSize

\* A client asks for its first page.
OpenHistory ==
    /\ pager.at \in {"closed", "done"}
    /\ \E asked \in PageSizes :
        pager' = [at |-> "find", page |-> PageNumber(0), size |-> PageSize(asked),
                  seen |-> {}, early |-> DOMAIN rows]
    /\ UNCHANGED <<job, rows, run, wanted>>

\* The client has a page and the total, and goes on while there is more.
Turn(seen, total) ==
    pager' = IF pager.page * pager.size >= total
             THEN [at |-> "done", seen |-> seen, early |-> pager.early]
             ELSE [pager EXCEPT !.at = "find", !.page = @ + 1, !.seen = seen]

\* FindByPage: a page that is neither full nor empty gives the total away, ...
FindPage ==
    /\ pager.at = "find"
    /\ LET offset == Offset(pager.page, pager.size)
           found == {id \in DOMAIN rows : Rank(id) \in offset + 1 .. offset + pager.size}
           n == Cardinality(found)
           seen == pager.seen \cup NewCronJobExecutionItems(found)
       IN IF 0 < n /\ n < pager.size
          THEN Turn(seen, n + offset)
          ELSE pager' = [pager EXCEPT !.at = "count", !.seen = seen]
    /\ UNCHANGED <<job, rows, run, wanted>>

\* ... after any other the rows are counted, by a statement of its own.
CountRows ==
    /\ pager.at = "count"
    /\ Turn(pager.seen, Cardinality(DOMAIN rows))
    /\ UNCHANGED <<job, rows, run, wanted>>

RecordsNext ==
    \/ \E i \in Releases : SyncJobDefinitions(i)
    \/ \E b \in BOOLEAN : SetEnabled(b)
    \/ \E r \in Runs :
        RecordStart(r) \/ (\E s \in Outcomes : RecordEnd(r, s)) \/ UpdateLastRun(r)
    \/ OpenHistory \/ FindPage \/ CountRows

RecordsSpec == RecordsInit /\ [][RecordsNext]_recordsVars

-----------------------------------------------------------------------------
(* Properties *)

Items == [id : 1 .. MaxRows, status : Statuses]

RecordsTypeOK ==
    /\ job \in {NoJob} \cup JobRow
    /\ DOMAIN rows \in SUBSET (1 .. MaxRows) /\ rows \in [DOMAIN rows -> Statuses]
    /\ run \in [Runs -> {NotRunning} \cup [at : {"started"}, id : 0 .. MaxRows]
                                   \cup [at : {"ended"}, status : Outcomes]]
    /\ pager \in {NoPager}
         \cup [at : {"find", "count"}, page : Nat \ {0}, size : Nat \ {0},
               seen : SUBSET Items, early : SUBSET (1 .. MaxRows)]
         \cup [at : {"done"}, seen : SUBSET Items, early : SUBSET (1 .. MaxRows)]
    /\ wanted \in BOOLEAN

\* A job that an administrator has switched off stays off however often, and in
\* whatever release, instances start and synchronise their definitions, and the
\* list and the details show of it what the runs will be told
\* (service/cron_job.go 33-65 and 100-116, dal/cron_job.go 25-54).
SwitchedAsSet ==
    /\ IsJobEnabled <=> wanted
    /\ \A item \in ListJobs : item.enabled = wanted /\ GetJob = item

\* A client that reads page after page until the total is reached has seen every
\* execution there was when it began, although runs add rows, in any order of
\* their ids, between the pages and between a page and its count; and whatever it
\* was told of the end of an execution is how that execution ended
\* (dal/cron_job.go 71-85, query/sys_cron_job_execution.gen.go 399-413).
HistoryComplete ==
    pager.at = "done" =>
        /\ pager.early \subseteq {item.id : item \in pager.seen}
        /\ \A item \in pager.seen : item.status \in {"running", rows[item.id]}

SeenIds == {item.id : item \in pager.seen}

\* How many of the newest rows the client has been past.
Covered ==
    IF pager.at = "find" THEN Offset(pager.page, pager.size) ELSE pager.page * pager.size

\* The inductive form: what the client has still to see is further down than it
\* has come, and an execution under way has a row of its own that says so.
HistoryKept ==
    /\ pager.at \in {"find", "count"} =>
        \A id \in pager.early : id \in SeenIds \/ Rank(id) > Covered
    /\ pager.at # "closed" =>
        /\ pager.early \subseteq DOMAIN rows
        /\ \A item \in pager.seen :
            item.id \in DOMAIN rows /\ item.status \in {"running", rows[item.id]}
    /\ \A r \in Runs : run[r].at = "started" /\ run[r].id # 0 =>
        /\ run[r].id \in DOMAIN rows /\ rows[run[r].id] = "running"
        /\ \A q \in Runs \ {r} : run[q].at = "started" => run[q].id # run[r].id

\* Neither a start nor a paging client is misled by what others write meanwhile.
RecordsSafe == SwitchedAsSet /\ HistoryComplete /\ HistoryKept

=============================================================================
