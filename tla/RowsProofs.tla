------------------------------ MODULE RowsProofs ------------------------------
(***************************************************************************)
(* Proofs about the modules that keep rows of the database: Profiles,      *)
(* Permissions and JobRecords, for any number of requests, roles, codes,   *)
(* runs and rows.                                                          *)
(***************************************************************************)
EXTENDS Profiles, Permissions, JobRecords, FiniteSetTheorems, FunctionTheorems,
        SequenceTheorems, TLAPS

-----------------------------------------------------------------------------
(* Profiles: types *)

\* Every step keeps the types, ...
LEMMA ProfilesTypeStep ==
    ASSUME ProfilesTypeOK, [ProfilesNext]_profilesVars
    PROVE  ProfilesTypeOK'
<1>. USE ProfilesAssumption DEF ProfilesTypeOK
<1>1. CASE UNCHANGED profilesVars
    BY <1>1 DEF profilesVars
<1>2. ASSUME NEW e \in Editors, StartTours(e) PROVE ProfilesTypeOK'
    BY <1>2 DEF StartTours, NoEdit
<1>3. ASSUME NEW e \in Editors, WriteTours(e) PROVE ProfilesTypeOK'
    <2>1. Merged(e) \in SUBSET Tours
        BY <1>3 DEF WriteTours, Updating, Merged, NoEdit
    <2>2. QED BY <1>3, <2>1 DEF WriteTours, NoEdit
<1>4. ASSUME NEW e \in Editors, WriteProfile(e) PROVE ProfilesTypeOK'
    BY <1>4 DEF WriteProfile, NoEdit
<1>5. ASSUME NEW e \in Editors, ReadBack(e) PROVE ProfilesTypeOK'
    BY <1>5 DEF ReadBack, NoEdit
<1>6. QED
    BY <1>1, <1>2, <1>3, <1>4, <1>5 DEF ProfilesNext, Edit, UpdateTour, UpdateProfileOf

\* The row, the requests in flight and the history keep to their types.
THEOREM ProfilesTyped == ProfilesSpec => []ProfilesTypeOK
<1>1. ProfilesInit => ProfilesTypeOK
    BY DEF ProfilesInit, ProfilesTypeOK, NoEdit
<1>2. QED
    BY <1>1, ProfilesTypeStep, PTL DEF ProfilesSpec

-----------------------------------------------------------------------------
(* Profiles: tours.  An update that is alone has read all that must be kept; one that   *)
(* is not adds nothing to it.                                                 *)

\* ... the tours acknowledged by themselves, ...
LEMMA ToursKeptStep ==
    ASSUME ProfilesTypeOK, ToursKeptInv, [ProfilesNext]_profilesVars
    PROVE  ToursKeptInv'
<1>. USE DEF ToursKeptInv, ToursKept, Updating
<1>1. CASE UNCHANGED profilesVars
    BY <1>1 DEF profilesVars
<1>2. ASSUME NEW e \in Editors, StartTours(e) PROVE ToursKeptInv'
    BY <1>2 DEF StartTours, ProfilesTypeOK
<1>3. ASSUME NEW e \in Editors, WriteTours(e) PROVE ToursKeptInv'
    <2>1. kept \subseteq Merged(e)
        BY <1>3 DEF WriteTours, Merged
    <2>2. \A f \in Editors \ {e} : editor'[f] = editor[f]
        BY <1>3 DEF WriteTours, ProfilesTypeOK
    <2>3. editor'[e].at # "merge"
        BY <1>3 DEF WriteTours, ProfilesTypeOK, NoEdit
    <2>4. kept' \subseteq tours'
        BY <1>3, <2>1 DEF WriteTours
    <2>5. ASSUME NEW f \in Editors \ {e}, editor[f].at = "merge"
          PROVE  kept' \subseteq editor[f].seen
        BY <1>3, <2>5 DEF WriteTours, Alone
    <2>6. QED
        BY <2>2, <2>3, <2>4, <2>5
<1>4. ASSUME NEW e \in Editors, WriteProfile(e) PROVE ToursKeptInv'
    BY <1>4 DEF WriteProfile, ProfilesTypeOK, NoEdit
<1>5. ASSUME NEW e \in Editors, ReadBack(e) PROVE ToursKeptInv'
    BY <1>5 DEF ReadBack, ProfilesTypeOK, NoEdit
<1>6. QED
    BY <1>1, <1>2, <1>3, <1>4, <1>5 DEF ProfilesNext, Edit, UpdateTour, UpdateProfileOf

\* A tour that was acknowledged while no other tour update was in flight stays
\* in the row, whatever requests come later, overlap or fail
\* (service/user.go 75-96).
THEOREM ToursStay == ProfilesSpec => []ToursKeptInv
<1>1. ProfilesInit => ToursKeptInv
    BY DEF ProfilesInit, ToursKeptInv, ToursKept, Updating, NoEdit
<1>2. QED
    BY <1>1, ProfilesTyped, ToursKeptStep, PTL DEF ProfilesSpec

-----------------------------------------------------------------------------
(* Profiles: the other columns *)

\* ... and the profiles that requests are about to read back.
LEMMA ProfileStandsStep ==
    ASSUME ProfilesTypeOK, ProfileStands, [ProfilesNext]_profilesVars
    PROVE  ProfileStands'
<1>. USE DEF ProfileStands
<1>1. CASE UNCHANGED profilesVars
    BY <1>1 DEF profilesVars
<1>2. ASSUME NEW e \in Editors, StartTours(e) PROVE ProfileStands'
    BY <1>2 DEF StartTours, ProfilesTypeOK
<1>3. ASSUME NEW e \in Editors, WriteTours(e) PROVE ProfileStands'
    BY <1>3 DEF WriteTours, ProfilesTypeOK, NoEdit
<1>4. ASSUME NEW e \in Editors, WriteProfile(e) PROVE ProfileStands'
    <2>1. profile \in Nat /\ profile' = profile + 1
        BY <1>4 DEF WriteProfile, ProfilesTypeOK
    <2>2. ASSUME NEW f \in Editors, editor[f].at = "readback"
          PROVE  editor[f].wrote \in Nat /\ editor[f].wrote <= profile'
        BY <2>1, <2>2 DEF ProfilesTypeOK, NoEdit
    <2>3. QED
        BY <1>4, <2>1, <2>2 DEF WriteProfile, ProfilesTypeOK
<1>5. ASSUME NEW e \in Editors, ReadBack(e) PROVE ProfileStands'
    BY <1>5 DEF ReadBack, ProfilesTypeOK, NoEdit
<1>6. QED
    BY <1>1, <1>2, <1>3, <1>4, <1>5 DEF ProfilesNext, Edit, UpdateTour, UpdateProfileOf

\* No tour update, however old what it has read, takes a profile update back
\* (service/user.go 62-73, dal/user.go 79-95).
THEOREM ProfilesStand == ProfilesSpec => []ProfileStands
<1>1. ProfilesInit => ProfileStands
    BY DEF ProfilesInit, ProfileStands, NoEdit
<1>2. QED
    BY <1>1, ProfilesTyped, ProfileStandsStep, PTL DEF ProfilesSpec

-----------------------------------------------------------------------------

\* Tour and profile updates that share a row keep each other's work
\* (service/user.go 62-96, dal/user.go 79-95).
THEOREM ProfileHolds == ProfilesSpec => []ProfileSafe
<1>1. ProfileSafe <=> ToursKeptInv /\ ProfileStands
    BY DEF ProfileSafe
<1>2. QED
    BY <1>1, ToursStay, ProfilesStand, PTL

-----------------------------------------------------------------------------
(* Permissions *)

\* Every step keeps the types.
LEMMA PermissionsTypeStep ==
    ASSUME PermissionsTypeOK, [PermissionsNext]_permissionsVars
    PROVE  PermissionsTypeOK'
<1>. USE PermissionsAssumption DEF PermissionsTypeOK
<1>1. CASE UNCHANGED permissionsVars
    BY <1>1 DEF permissionsVars
<1>2. ASSUME NEW lists \in Seq(Lists), ReadRoles(lists) PROVE PermissionsTypeOK'
    BY <1>2 DEF ReadRoles, Memberships
<1>3. CASE Query
    <2>1. Head(view.todo) \in Lists /\ Tail(view.todo) \in Seq(Lists)
        BY <1>3 DEF Query
    <2>2. FindCodes(view.roles, Head(view.todo)) \in SUBSET Perms
        BY <2>1 DEF FindCodes, ResolvePermissions, CodesWith, Rows, Selected, Lists
    <2>3. NoView \in [roles : SUBSET Roles, todo : Seq(Lists),
                     got : Seq([list : Lists, codes : SUBSET Perms])]
        BY DEF NoView
    <2>4. CASE view' = NoView /\ moved' = {}
        BY <1>3, <2>3, <2>4 DEF Query
    <2>5. CASE /\ view' = [view EXCEPT !.todo = Tail(@),
                    !.got = Append(@, [list |-> Head(view.todo),
                                       codes |-> FindCodes(view.roles, Head(view.todo))])]
               /\ UNCHANGED moved
        <3>1. view'.got \in Seq([list : Lists, codes : SUBSET Perms])
            BY <2>1, <2>2, <2>5
        <3>2. view' \in [roles : SUBSET Roles, todo : Seq(Lists),
                        got : Seq([list : Lists, codes : SUBSET Perms])]
            BY <2>1, <2>5, <3>1
        <3> QED
            BY <1>3, <2>5, <3>2 DEF Query
    <2> QED
        BY <1>3, <2>4, <2>5 DEF Query
<1>4. ASSUME NEW r \in Roles, ChangeRoles(r) PROVE PermissionsTypeOK'
    BY <1>4 DEF ChangeRoles, Memberships
<1>5. ASSUME NEW r \in Roles, NEW c \in Perms, ChangeGrant(r, c) PROVE PermissionsTypeOK'
    BY <1>5 DEF ChangeGrant, Grants, Effects
<1>6. <<"menu", "route">> \in Seq(Lists) /\ <<"module">> \in Seq(Lists)
    BY DEF Lists
<1> QED
    BY <1>1, <1>2, <1>3, <1>4, <1>5, <1>6 DEF PermissionsNext, ViewLogin, ViewUser, ViewModule

\* The tables and the request keep to their types.
THEOREM PermissionsTyped == PermissionsSpec => []PermissionsTypeOK
<1>1. PermissionsInit => PermissionsTypeOK
    BY DEF PermissionsInit, PermissionsTypeOK, NoView
<1> QED
    BY <1>1, PermissionsTypeStep, PTL DEF PermissionsSpec

\* What the query and the resolution of its rows come to: a code is listed when
\* some role allows it and none denies it.
LEMMA FindCodesMeans ==
    ASSUME NEW roles \in SUBSET Roles, NEW list \in Lists, NEW c \in Selected(list),
           effects \in Grants
    PROVE  c \in FindCodes(roles, list) <=>
               /\ \E r \in roles : "allow" \in effects[r][c]
               /\ \A r \in roles : "deny" \notin effects[r][c]
<1>1. ASSUME NEW e \in Effects
      PROVE  c \in CodesWith(Rows(roles, list), e) <=> \E r \in roles : e \in effects[r][c]
    <2>1. <<c, e>> \in Rows(roles, list) <=> \E r \in roles : e \in effects[r][c]
        BY DEF Rows
    <2>2. ASSUME NEW row \in Rows(roles, list), row[2] = e, row[1] = c PROVE row = <<c, e>>
        BY <2>2 DEF Rows
    <2> QED
        BY <2>1, <2>2 DEF CodesWith
<1>2. "allow" \in Effects /\ "deny" \in Effects
    BY DEF Effects
<1> QED
    BY <1>1, <1>2 DEF FindCodes, ResolvePermissions

\* Every step keeps the answers so far true of the codes nobody has touched.
LEMMA PermissionsTrueStep ==
    ASSUME PermissionsTypeOK, PermissionsTrue, [PermissionsNext]_permissionsVars
    PROVE  PermissionsTrue'
<1>. USE DEF PermissionsTrue
<1>1. CASE UNCHANGED permissionsVars
    BY <1>1 DEF permissionsVars, Selected
<1>2. ASSUME NEW lists, ReadRoles(lists) PROVE PermissionsTrue'
    BY <1>2 DEF ReadRoles
<1>3. CASE Query
    <2>1. CASE view' = NoView /\ moved' = {}
        BY <2>1 DEF NoView
    <2>2. CASE /\ view' = [view EXCEPT !.todo = Tail(@),
                    !.got = Append(@, [list |-> Head(view.todo),
                                       codes |-> FindCodes(view.roles, Head(view.todo))])]
               /\ UNCHANGED moved
        <3> DEFINE new == [list |-> Head(view.todo), codes |-> FindCodes(view.roles, Head(view.todo))]
        <3>1. Head(view.todo) \in Lists /\ view.roles \in SUBSET Roles /\ effects \in Grants
            BY <1>3 DEF Query, PermissionsTypeOK
        <3>2. \A c \in Selected(new.list) : c \in new.codes <=>
                  /\ \E r \in view.roles : "allow" \in effects[r][c]
                  /\ \A r \in view.roles : "deny" \notin effects[r][c]
            BY <3>1, FindCodesMeans
        <3>3. view'.got = Append(view.got, new) /\ view'.roles = view.roles
              /\ UNCHANGED <<effects, moved>>
            BY <1>3, <2>2 DEF Query, PermissionsTypeOK
        <3>4. ASSUME NEW i \in DOMAIN view'.got
              PROVE  (i \in DOMAIN view.got /\ view'.got[i] = view.got[i]) \/ view'.got[i] = new
            BY <3>3, <3>4 DEF PermissionsTypeOK
        <3> HIDE DEF new
        <3>5. ASSUME NEW i \in DOMAIN view'.got, NEW c \in Selected(view'.got[i].list) \ moved
              PROVE  c \in view'.got[i].codes <=>
                        /\ \E r \in view.roles : "allow" \in effects[r][c]
                        /\ \A r \in view.roles : "deny" \notin effects[r][c]
            BY <3>2, <3>4
        <3> QED
            BY <3>3, <3>5 DEF Selected
    <2> QED
        BY <1>3, <2>1, <2>2 DEF Query
<1>4. ASSUME NEW r \in Roles, ChangeRoles(r) PROVE PermissionsTrue'
    BY <1>4 DEF ChangeRoles, Selected
<1>5. ASSUME NEW q \in Roles, NEW d \in Perms, ChangeGrant(q, d) PROVE PermissionsTrue'
    <2>1. moved' = moved \cup {d} /\ view' = view
        BY <1>5 DEF ChangeGrant
    <2>2. \A r \in Roles, c \in Perms \ {d} : effects'[r][c] = effects[r][c]
        BY <1>5 DEF ChangeGrant, PermissionsTypeOK, Grants
    <2>3. ASSUME NEW i \in DOMAIN view.got, NEW c \in Selected(view.got[i].list) \ moved'
          PROVE  c \in Perms \ {d} /\ c \in Selected(view.got[i].list) \ moved
        <3>0. view.got \in Seq([list : Lists, codes : SUBSET Perms])
            BY DEF PermissionsTypeOK
        <3>1. view.got[i].list \in Lists
            <4>1. i \in 1 .. Len(view.got)
                BY <3>0, LenProperties
            <4>2. view.got[i] \in [list : Lists, codes : SUBSET Perms]
                BY <3>0, <4>1, ElementOfSeq
            <4> QED
                BY <4>2
        <3> QED
            BY <2>1, <3>1, PermissionsAssumption DEF Selected, Lists
    <2>4. view.roles \subseteq Roles
        BY DEF PermissionsTypeOK
    <2>5. ASSUME NEW i \in DOMAIN view.got, NEW c \in Selected(view.got[i].list) \ moved'
          PROVE  c \in view.got[i].codes <=>
                    /\ \E r \in view.roles : "allow" \in effects'[r][c]
                    /\ \A r \in view.roles : "deny" \notin effects'[r][c]
        BY <2>2, <2>3, <2>4
    <2> QED
        BY <2>1, <2>5 DEF Selected
<1> QED
    BY <1>1, <1>2, <1>3, <1>4, <1>5 DEF PermissionsNext, ViewLogin, ViewUser, ViewModule

\* Of a code that nobody touches meanwhile, an answer says what is so: a denial
\* of one role weighs more than the allowances of the others
\* (dal/permission.go 26-65).
THEOREM PermissionsHold == PermissionsSpec => []PermissionsTrue
<1>1. PermissionsInit => PermissionsTrue
    BY DEF PermissionsInit, PermissionsTrue, NoView
<1> QED
    BY <1>1, PermissionsTyped, PermissionsTrueStep, PTL DEF PermissionsSpec

-----------------------------------------------------------------------------
(* JobRecords: types *)

\* Every step keeps the types.
LEMMA RecordsTypeStep ==
    ASSUME RecordsTypeOK, [RecordsNext]_recordsVars
    PROVE  RecordsTypeOK'
<1>. USE RecordsAssumption DEF RecordsTypeOK
<1>1. CASE UNCHANGED recordsVars
    BY <1>1 DEF recordsVars
<1>2. ASSUME NEW i \in Releases, SyncJobDefinitions(i) PROVE RecordsTypeOK'
    <2>1. UpsertJob(i) \in JobRow
        BY DEF UpsertJob, JobRow
    <2>2. wanted' \in BOOLEAN
        BY <1>2 DEF SyncJobDefinitions
    <2> QED
        BY <1>2, <2>1, <2>2 DEF SyncJobDefinitions
<1>3. ASSUME NEW b \in BOOLEAN, SetEnabled(b) PROVE RecordsTypeOK'
    <2>1. UpdateEnabled(b) \in {NoJob} \cup JobRow
        BY DEF UpdateEnabled, JobRow
    <2>2. wanted' \in BOOLEAN
        BY <1>3 DEF SetEnabled
    <2> QED
        BY <1>3, <2>1, <2>2 DEF SetEnabled
<1>4. ASSUME NEW r \in Runs, RecordStart(r) PROVE RecordsTypeOK'
    <2>1. ASSUME NEW id \in 1 .. MaxRows \ DOMAIN rows, CreateExecution(id),
                 run' = [run EXCEPT ![r] = [at |-> "started", id |-> id]]
          PROVE  RecordsTypeOK'
        <3>1. DOMAIN rows' = DOMAIN rows \cup {id} /\ rows' \in [DOMAIN rows' -> Statuses]
            BY <2>1 DEF CreateExecution, Statuses
        <3> QED
            BY <1>4, <2>1, <3>1 DEF RecordStart
    <2>2. CASE run' = [run EXCEPT ![r] = [at |-> "started", id |-> 0]] /\ UNCHANGED rows
        BY <1>4, <2>2 DEF RecordStart
    <2> QED
        BY <1>4, <2>1, <2>2 DEF RecordStart
<1>5. ASSUME NEW r \in Runs, NEW o \in Outcomes, RecordEnd(r, o) PROVE RecordsTypeOK'
    <2>1. DOMAIN rows' = DOMAIN rows /\ rows' \in [DOMAIN rows -> Statuses]
        BY <1>5 DEF RecordEnd, UpdateExecution, Statuses
    <2> QED
        BY <1>5, <2>1 DEF RecordEnd
<1>6. ASSUME NEW r \in Runs, UpdateLastRun(r) PROVE RecordsTypeOK'
    <2>1. run[r].status \in Outcomes
        BY <1>6 DEF UpdateLastRun, NotRunning
    <2>2. UpdateLast(run[r].status) \in {NoJob} \cup JobRow
        BY <2>1 DEF UpdateLast, JobRow
    <2> QED
        BY <1>6, <2>2 DEF UpdateLastRun
<1>7. CASE OpenHistory
    <2>1. \A asked \in PageSizes : PageSize(asked) \in Nat \ {0}
        BY DEF PageSize, PageSizes
    <2> QED
        BY <1>7, <2>1 DEF OpenHistory, PageNumber
<1>8. ASSUME NEW seen \in SUBSET Items, NEW total, pager.at \in {"find", "count"}, Turn(seen, total)
      PROVE  pager' \in [at : {"find"}, page : Nat \ {0}, size : Nat \ {0},
                         seen : SUBSET Items, early : SUBSET (1 .. MaxRows)]
               \cup [at : {"done"}, seen : SUBSET Items, early : SUBSET (1 .. MaxRows)]
    <2>1. pager \in [at : {"find", "count"}, page : Nat \ {0}, size : Nat \ {0},
                    seen : SUBSET Items, early : SUBSET (1 .. MaxRows)]
        BY <1>8 DEF NoPager
    <2>2. CASE pager' = [at |-> "done", seen |-> seen, early |-> pager.early]
        BY <1>8, <2>1, <2>2
    <2>3. CASE pager' = [pager EXCEPT !.at = "find", !.page = @ + 1, !.seen = seen]
        <3>1. pager.page + 1 \in Nat \ {0}
            BY <2>1
        <3> QED
            BY <1>8, <2>1, <2>3, <3>1
    <2> QED
        BY <1>8, <2>2, <2>3 DEF Turn
<1>9. CASE FindPage
    <2> DEFINE offset == Offset(pager.page, pager.size)
               found == {id \in DOMAIN rows : Rank(id) \in offset + 1 .. offset + pager.size}
               n == Cardinality(found)
               seen == pager.seen \cup NewCronJobExecutionItems(found)
    <2>1. pager.at = "find" /\ UNCHANGED <<job, rows, run, wanted>>
        BY <1>9 DEF FindPage
    <2>2. NewCronJobExecutionItems(found) \in SUBSET Items
        BY DEF NewCronJobExecutionItems, NewCronJobExecutionItem, Items
    <2>3. seen \in SUBSET Items
        BY <2>1, <2>2 DEF NoPager
    <2>4. Turn(seen, n + offset) \/ pager' = [pager EXCEPT !.at = "count", !.seen = seen]
        BY <1>9 DEF FindPage
    <2> HIDE DEF seen, n, offset
    <2>5. CASE Turn(seen, n + offset)
        BY <1>8, <2>1, <2>3, <2>5
    <2>6. CASE pager' = [pager EXCEPT !.at = "count", !.seen = seen]
        <3>1. pager \in [at : {"find", "count"}, page : Nat \ {0}, size : Nat \ {0},
                        seen : SUBSET Items, early : SUBSET (1 .. MaxRows)]
            BY <2>1 DEF NoPager
        <3>2. pager' \in [at : {"find", "count"}, page : Nat \ {0}, size : Nat \ {0},
                         seen : SUBSET Items, early : SUBSET (1 .. MaxRows)]
            BY <2>3, <2>6, <3>1
        <3> QED
            BY <2>1, <3>2
    <2> QED
        BY <2>4, <2>5, <2>6
<1>10. CASE CountRows
    <2>1. pager.seen \in SUBSET Items
        BY <1>10 DEF CountRows, NoPager
    <2> QED
        BY <1>8, <1>10, <2>1 DEF CountRows
<1> QED
    BY <1>1, <1>2, <1>3, <1>4, <1>5, <1>6, <1>7, <1>9, <1>10 DEF RecordsNext

\* The job's row, the history, the runs and the client keep to their types.
THEOREM RecordsTyped == RecordsSpec => []RecordsTypeOK
<1>1. RecordsInit => RecordsTypeOK
    BY DEF RecordsInit, RecordsTypeOK
<1> QED
    BY <1>1, RecordsTypeStep, PTL DEF RecordsSpec

-----------------------------------------------------------------------------
(* JobRecords: the switch *)

\* A row of the job table is not the absence of one.
LEMMA RowIsThere == \A m \in JobRow : m # NoJob
BY DEF JobRow, NoJob

\* The row stands where the last switch left it, through every step.
LEMMA SwitchedStep ==
    ASSUME RecordsTypeOK, SwitchedAsSet, [RecordsNext]_recordsVars
    PROVE  SwitchedAsSet'
<1> DEFINE Same == IF job = NoJob THEN wanted = TRUE ELSE job.enabled = wanted
<1>1. SwitchedAsSet <=> Same
    BY DEF SwitchedAsSet, IsJobEnabled, ListJobs, ListAll, NewCronJobItems, NewCronJobItem,
           GetJob, RecordsTypeOK, JobRow
<1>2. SwitchedAsSet' <=> Same'
    BY RecordsTypeStep DEF SwitchedAsSet, IsJobEnabled, ListJobs, ListAll, NewCronJobItems,
           NewCronJobItem, GetJob, RecordsTypeOK, JobRow
<1>3. Same
    BY <1>1
<1>4. ASSUME UNCHANGED <<job, wanted>> PROVE Same'
    BY <1>3, <1>4
<1>5. ASSUME NEW i \in Releases, SyncJobDefinitions(i) PROVE Same'
    <2>1. CASE job = NoJob
        <3>1. job' = [interval |-> i, enabled |-> TRUE, last |-> "never"]
            BY <1>5, <2>1 DEF SyncJobDefinitions, UpsertJob
        <3>2. wanted' = TRUE
            BY <1>5, <2>1, Zenon DEF SyncJobDefinitions
        <3> QED
            BY <3>1, <3>2
    <2>2. CASE job # NoJob
        <3>1. job \in JobRow /\ job' = [job EXCEPT !.interval = i]
            BY <1>5, <2>2 DEF SyncJobDefinitions, UpsertJob, RecordsTypeOK
        <3>2. job' \in JobRow /\ job'.enabled = job.enabled
            BY <3>1 DEF JobRow
        <3>3. wanted' = wanted
            BY <1>5, <2>2 DEF SyncJobDefinitions, RecordsTypeOK
        <3> QED
            BY <1>3, <2>2, <3>2, <3>3, RowIsThere
    <2> QED
        BY <2>1, <2>2
<1>6. ASSUME NEW b \in BOOLEAN, SetEnabled(b) PROVE Same'
    <2>1. CASE job = NoJob
        BY <1>3, <1>6, <2>1 DEF SetEnabled, UpdateEnabled
    <2>2. CASE job # NoJob
        <3>1. job \in JobRow /\ job' = [job EXCEPT !.enabled = b] /\ wanted' = b
            BY <1>6, <2>2 DEF SetEnabled, UpdateEnabled, RecordsTypeOK
        <3>2. job' \in JobRow /\ job'.enabled = b
            BY <3>1 DEF JobRow
        <3> QED
            BY <3>1, <3>2, RowIsThere
    <2> QED
        BY <2>1, <2>2
<1>7. ASSUME NEW r \in Runs, UpdateLastRun(r) PROVE Same'
    <2>1. CASE job = NoJob
        BY <1>3, <1>7, <2>1 DEF UpdateLastRun, UpdateLast
    <2>2. CASE job # NoJob
        <3>1. job \in JobRow /\ run[r].status \in Outcomes
            BY <1>7, <2>2 DEF UpdateLastRun, RecordsTypeOK, NotRunning
        <3>2. job' = job \/ job' = [job EXCEPT !.last = run[r].status]
            BY <1>7, <2>2 DEF UpdateLastRun, UpdateLast
        <3>3. job' \in JobRow /\ job'.enabled = job.enabled /\ wanted' = wanted
            BY <1>7, <3>1, <3>2 DEF JobRow, UpdateLastRun
        <3> QED
            BY <1>3, <2>2, <3>3, RowIsThere
    <2> QED
        BY <2>1, <2>2
<1> HIDE DEF Same
<1>8. ASSUME \/ UNCHANGED recordsVars
             \/ \E r \in Runs : RecordStart(r) \/ \E o \in Outcomes : RecordEnd(r, o)
             \/ OpenHistory \/ FindPage \/ CountRows
      PROVE  UNCHANGED <<job, wanted>>
    BY <1>8 DEF recordsVars, RecordStart, RecordEnd, OpenHistory, FindPage, CountRows
<1>9. Same'
    BY <1>4, <1>5, <1>6, <1>7, <1>8 DEF RecordsNext
<1> QED
    BY <1>2, <1>9

\* A job that an administrator has switched off stays off, whoever starts and
\* synchronises its definitions (service/cron_job.go 33-65, dal/cron_job.go 25-54).
THEOREM SwitchesHold == RecordsSpec => []SwitchedAsSet
<1>1. RecordsInit => SwitchedAsSet
    BY DEF RecordsInit, SwitchedAsSet, IsJobEnabled, ListJobs, ListAll, NewCronJobItems
<1> QED
    BY <1>1, RecordsTyped, SwitchedStep, PTL DEF RecordsSpec

-----------------------------------------------------------------------------
(* JobRecords: ranks.  The newest row has rank 1, and the ranks count the rows. *)

\* The rows of the history can be counted, ...
LEMMA RowsFinite ==
    ASSUME RecordsTypeOK
    PROVE  IsFiniteSet(DOMAIN rows) /\ Cardinality(DOMAIN rows) \in Nat
<1>1. IsFiniteSet(1 .. MaxRows)
    BY RecordsAssumption, FS_Interval
<1>2. DOMAIN rows \in SUBSET (1 .. MaxRows)
    BY DEF RecordsTypeOK
<1> QED
    BY <1>1, <1>2, FS_Subset, FS_CardinalityType

\* ... each has its place among them, newest first, ...
LEMMA RankBounds ==
    ASSUME RecordsTypeOK, NEW id \in DOMAIN rows
    PROVE  Rank(id) \in 1 .. Cardinality(DOMAIN rows)
<1> DEFINE newer == {n \in DOMAIN rows : n >= id}
<1>1. newer \in SUBSET DOMAIN rows /\ id \in newer
    BY DEF RecordsTypeOK
<1>2. IsFiniteSet(newer) /\ Cardinality(newer) <= Cardinality(DOMAIN rows)
    BY <1>1, RowsFinite, FS_Subset
<1>3. Cardinality(newer) \in Nat /\ Cardinality(newer) # 0
    BY <1>1, <1>2, FS_CardinalityType, FS_EmptySet
<1> QED
    BY <1>2, <1>3, RowsFinite DEF Rank

\* Rows are only added, so that what is further down stays there.
LEMMA RankGrows ==
    ASSUME RecordsTypeOK, RecordsTypeOK', DOMAIN rows \subseteq DOMAIN rows', NEW id \in DOMAIN rows
    PROVE  Rank(id)' \in Nat /\ Rank(id) <= Rank(id)'
<1> DEFINE newer == {n \in DOMAIN rows : n >= id}
           newerNow == {n \in DOMAIN rows' : n >= id}
<1>1. newer \in SUBSET newerNow /\ newerNow \in SUBSET (1 .. MaxRows)
    BY DEF RecordsTypeOK
<1>2. IsFiniteSet(newerNow)
    BY <1>1, RecordsAssumption, FS_Interval, FS_Subset
<1>3. Cardinality(newer) <= Cardinality(newerNow) /\ Cardinality(newerNow) \in Nat
    BY <1>1, <1>2, FS_Subset, FS_CardinalityType
<1> QED
    BY <1>3 DEF Rank

\* ... and no two the same.
LEMMA RankOrder ==
    ASSUME RecordsTypeOK, NEW m \in DOMAIN rows, NEW n \in DOMAIN rows, m < n
    PROVE  Rank(m) # Rank(n)
<1> DEFINE from(id) == {k \in DOMAIN rows : k >= id}
<1>1. m \in Int /\ n \in Int /\ \A k \in DOMAIN rows : k \in Int
    BY DEF RecordsTypeOK
<1>2. from(n) \in SUBSET from(m) /\ m \in from(m) /\ m \notin from(n)
    BY <1>1
<1>3. IsFiniteSet(from(m))
    BY RowsFinite, FS_Subset
<1>4. Cardinality(from(m)) # Cardinality(from(n))
    <2> HIDE DEF from
    <2> QED
        BY <1>2, <1>3, FS_Subset
<1> QED
    BY <1>4 DEF Rank

\* Every rank up to the number of rows is that of a row: ranks are as many as
\* rows, and no two rows share one.
LEMMA RankOnto ==
    ASSUME RecordsTypeOK, NEW k \in 1 .. Cardinality(DOMAIN rows)
    PROVE  \E id \in DOMAIN rows : Rank(id) = k
<1> DEFINE ids == DOMAIN rows
           ranks == 1 .. Cardinality(ids)
           f == [id \in ids |-> Rank(id)]
<1>1. f \in [ids -> ranks]
    BY RankBounds
<1>2. \A m, n \in ids : f[m] = f[n] => m = n
    <2> SUFFICES ASSUME NEW m \in ids, NEW n \in ids, m # n PROVE f[m] # f[n]
        OBVIOUS
    <2>1. m < n \/ n < m
        BY DEF RecordsTypeOK
    <2> QED
        BY <2>1, RankOrder
<1>3. f \in Injection(ids, ranks)
    <2> HIDE DEF f, ids, ranks
    <2> QED
        BY <1>1, <1>2, Fun_IsInj
<1>4. IsFiniteSet(ranks) /\ Cardinality(ranks) = Cardinality(ids)
    BY RowsFinite, FS_Interval
<1>5. f \in Surjection(ids, ranks)
    <2> HIDE DEF f, ids, ranks
    <2> QED
        BY <1>3, <1>4, FS_Injection
<1>6. \A t \in ranks : \E id \in ids : f[id] = t
    <2> HIDE DEF f, ids, ranks
    <2> QED
        BY <1>5, Fun_SurjectionProperties
<1> QED
    BY <1>6

\* A page that is not full reaches the last row.
LEMMA ShortPage ==
    ASSUME RecordsTypeOK, NEW offset \in Nat, NEW size \in Nat \ {0},
           Cardinality({n \in DOMAIN rows : Rank(n) \in offset + 1 .. offset + size}) < size,
           NEW id \in DOMAIN rows
    PROVE  Rank(id) <= offset + size
<1> DEFINE page == offset + 1 .. offset + size
           found == {n \in DOMAIN rows : Rank(n) \in page}
           f == [n \in found |-> Rank(n)]
<1> SUFFICES ASSUME ~(Rank(id) <= offset + size) PROVE FALSE
    OBVIOUS
<1>1. IsFiniteSet(found) /\ Cardinality(found) \in Nat
    BY RowsFinite, FS_Subset, FS_CardinalityType
<1>2. \A k \in page : \E n \in found : f[n] = k
    <2> SUFFICES ASSUME NEW k \in page PROVE \E n \in found : f[n] = k
        OBVIOUS
    <2>1. k \in 1 .. Cardinality(DOMAIN rows)
        BY RankBounds, RowsFinite
    <2>2. PICK n \in DOMAIN rows : Rank(n) = k
        BY <2>1, RankOnto
    <2> QED
        BY <2>2
<1>3. f \in [found -> page]
    OBVIOUS
<1>4. f \in Surjection(found, page)
    <2> HIDE DEF f, found, page
    <2> QED
        BY <1>2, <1>3, Fun_IsSurj
<1>5. Cardinality(page) <= Cardinality(found)
    <2> HIDE DEF f, found, page
    <2> QED
        BY <1>1, <1>4, FS_Surjection
<1>6. Cardinality(page) = size
    BY FS_Interval
<1>7. Cardinality(found) < size
    OBVIOUS
<1> HIDE DEF found, page
<1> QED
    BY <1>1, <1>5, <1>6, <1>7

-----------------------------------------------------------------------------
(* JobRecords: the history *)

\* What an execution keeps of the database.
RunsKept ==
    \A r \in Runs : run[r].at = "started" /\ run[r].id # 0 =>
        /\ run[r].id \in DOMAIN rows /\ rows[run[r].id] = "running"
        /\ \A q \in Runs \ {r} : run[q].at = "started" => run[q].id # run[r].id

\* What a client has been told.
TellsTrue ==
    /\ pager.early \subseteq DOMAIN rows
    /\ \A item \in pager.seen :
        item.id \in DOMAIN rows /\ item.status \in {"running", rows[item.id]}

\* What it has still to see.
RestBelow(covered) == \A id \in pager.early : id \in SeenIds \/ Rank(id) > covered

\* The two properties of the history, part by part.
LEMMA HistoryParts ==
    HistoryComplete /\ HistoryKept <=>
        /\ RunsKept
        /\ pager.at # "closed" => TellsTrue
        /\ pager.at \in {"find", "count"} => RestBelow(Covered)
        /\ pager.at = "done" => pager.early \subseteq SeenIds
BY DEF HistoryComplete, HistoryKept, RunsKept, TellsTrue, RestBelow, SeenIds

\* Every step leaves an execution under way its own row.
LEMMA RunsKeptStep ==
    ASSUME RecordsTypeOK, RunsKept, [RecordsNext]_recordsVars
    PROVE  RunsKept'
<1> USE RecordsAssumption DEF RunsKept
<1>1. ASSUME UNCHANGED <<rows, run>> PROVE RunsKept'
    BY <1>1
<1>2. ASSUME NEW r \in Runs, RecordStart(r) PROVE RunsKept'
    <2>1. ASSUME NEW id \in 1 .. MaxRows \ DOMAIN rows, CreateExecution(id),
                 run' = [run EXCEPT ![r] = [at |-> "started", id |-> id]]
          PROVE  RunsKept'
        <3>1. \A q \in Runs \ {r} : run'[q] = run[q]
            BY <2>1 DEF RecordsTypeOK
        <3>2. run'[r].at = "started" /\ run'[r].id = id
            BY <2>1 DEF RecordsTypeOK
        <3>3. DOMAIN rows' = DOMAIN rows \cup {id} /\ rows'[id] = "running"
              /\ \A n \in DOMAIN rows : rows'[n] = rows[n]
            BY <2>1 DEF CreateExecution, RecordsTypeOK
        <3> QED
            BY <3>1, <3>2, <3>3
    <2>2. CASE run' = [run EXCEPT ![r] = [at |-> "started", id |-> 0]] /\ UNCHANGED rows
        BY <2>2 DEF RecordsTypeOK
    <2> QED
        BY <1>2, <2>1, <2>2 DEF RecordStart
<1>3. ASSUME NEW r \in Runs, NEW o \in Outcomes, RecordEnd(r, o) PROVE RunsKept'
    <2>1. run[r].at = "started" /\ run' = [run EXCEPT ![r] = [at |-> "ended", status |-> o]]
        BY <1>3 DEF RecordEnd
    <2>2. \A q \in Runs : run'[q].at = "started" => q # r /\ run'[q] = run[q]
        BY <2>1 DEF RecordsTypeOK
    <2>3. DOMAIN rows' = DOMAIN rows
          /\ \A n \in DOMAIN rows : rows'[n] # rows[n] => run[r].id # 0 /\ n = run[r].id
        BY <1>3 DEF RecordEnd, UpdateExecution, RecordsTypeOK
    <2> QED
        BY <2>1, <2>2, <2>3
<1>4. ASSUME NEW r \in Runs, UpdateLastRun(r) PROVE RunsKept'
    <2>1. rows' = rows /\ run' = [run EXCEPT ![r] = NotRunning]
        BY <1>4 DEF UpdateLastRun
    <2>2. \A q \in Runs : run'[q].at = "started" => run'[q] = run[q]
        BY <2>1 DEF RecordsTypeOK, NotRunning
    <2> QED
        BY <2>1, <2>2
<1>5. ASSUME \/ UNCHANGED recordsVars \/ OpenHistory \/ FindPage \/ CountRows
             \/ (\E i \in Releases : SyncJobDefinitions(i)) \/ (\E b \in BOOLEAN : SetEnabled(b))
      PROVE  UNCHANGED <<rows, run>>
    BY <1>5 DEF recordsVars, OpenHistory, FindPage, CountRows, SyncJobDefinitions, SetEnabled
<1> QED
    BY <1>1, <1>2, <1>3, <1>4, <1>5 DEF RecordsNext

\* Rows come, and end once: what a client was told stays true, and what it has
\* still to see does not move up.
LEMMA WritersKeepPager ==
    ASSUME RecordsTypeOK, RecordsTypeOK', RunsKept, UNCHANGED pager,
           NEW r \in Runs, RecordStart(r) \/ (\E o \in Outcomes : RecordEnd(r, o)) \/ UpdateLastRun(r)
    PROVE  /\ TellsTrue => TellsTrue'
           /\ \A c \in Int : TellsTrue /\ RestBelow(c) => RestBelow(c)'
<1>1. DOMAIN rows \subseteq DOMAIN rows'
      /\ \A n \in DOMAIN rows : rows[n] # "running" => rows'[n] = rows[n]
    <2>1. CASE RecordStart(r)
        BY <2>1 DEF RecordStart, CreateExecution, RecordsTypeOK
    <2>2. ASSUME NEW o \in Outcomes, RecordEnd(r, o)
          PROVE  DOMAIN rows \subseteq DOMAIN rows'
                 /\ \A n \in DOMAIN rows : rows[n] # "running" => rows'[n] = rows[n]
        BY <2>2 DEF RecordEnd, UpdateExecution, RunsKept, RecordsTypeOK
    <2>3. CASE UpdateLastRun(r)
        BY <2>3 DEF UpdateLastRun
    <2> QED
        BY <2>1, <2>2, <2>3
<1>2. ASSUME TellsTrue PROVE TellsTrue'
    BY <1>1, <1>2 DEF TellsTrue
<1>3. ASSUME NEW c \in Int, TellsTrue, RestBelow(c) PROVE RestBelow(c)'
    <2>1. ASSUME NEW id \in pager.early, Rank(id) > c PROVE Rank(id)' > c
        <3>1. id \in DOMAIN rows
            BY <1>3 DEF TellsTrue
        <3>2. Rank(id) <= Rank(id)' /\ Rank(id)' \in Nat
            BY <1>1, <3>1, RankGrows
        <3>3. Rank(id) \in Int
            BY <3>1, RankBounds, RowsFinite
        <3> HIDE DEF Rank
        <3> QED
            BY <2>1, <3>2, <3>3
    <2>2. SeenIds' = SeenIds
        BY DEF SeenIds
    <2> QED
        BY <1>3, <2>1, <2>2 DEF RestBelow
<1> QED
    BY <1>2, <1>3

\* A client that goes on has what it was told, and the rest is below; one that
\* stops because it has come past the last row has seen it all.
LEMMA TurnKeeps ==
    ASSUME RecordsTypeOK, UNCHANGED rows, pager.at \in {"find", "count"},
           NEW seen, NEW total \in Nat, Turn(seen, total),
           pager.seen \subseteq seen, TellsTrue,
           \A item \in seen : item.id \in DOMAIN rows /\ item.status \in {"running", rows[item.id]},
           \A id \in pager.early :
               id \in {item.id : item \in seen} \/ Rank(id) > pager.page * pager.size,
           pager.page * pager.size >= total =>
               \A id \in pager.early : Rank(id) <= pager.page * pager.size
    PROVE  /\ pager'.at \in {"find", "done"}
           /\ TellsTrue'
           /\ pager'.at = "find" => RestBelow(Covered)'
           /\ pager'.at = "done" => (pager.early \subseteq SeenIds)'
<1>1. pager \in [at : {"find", "count"}, page : Nat \ {0}, size : Nat \ {0},
                 seen : SUBSET Items, early : SUBSET (1 .. MaxRows)]
    BY DEF RecordsTypeOK, NoPager
<1>2. pager.early \subseteq DOMAIN rows
    BY DEF TellsTrue
<1>3. CASE pager' = [at |-> "done", seen |-> seen, early |-> pager.early]
           /\ pager.page * pager.size >= total
    <2>1. pager'.at = "done" /\ pager'.seen = seen /\ pager'.early = pager.early
        BY <1>3
    <2>2. TellsTrue'
        BY <1>2, <2>1 DEF TellsTrue
    <2>3. \A id \in pager.early : id \in {item.id : item \in seen}
        <3> SUFFICES ASSUME NEW id \in pager.early, Rank(id) > pager.page * pager.size PROVE FALSE
            OBVIOUS
        <3>1. Rank(id) <= pager.page * pager.size
            BY <1>3
        <3>2. Rank(id) \in Nat /\ pager.page * pager.size \in Nat
            BY <1>1, <1>2, RankBounds, RowsFinite
        <3> QED
            BY <3>1, <3>2
    <2> QED
        BY <2>1, <2>2, <2>3 DEF SeenIds
<1>4. CASE pager' = [pager EXCEPT !.at = "find", !.page = @ + 1, !.seen = seen]
    <2>1. /\ pager'.at = "find" /\ pager'.page = pager.page + 1 /\ pager'.size = pager.size
          /\ pager'.seen = seen /\ pager'.early = pager.early
        BY <1>1, <1>4
    <2>2. TellsTrue'
        BY <1>2, <2>1 DEF TellsTrue
    <2>3. Covered' = pager.page * pager.size
        BY <1>1, <2>1 DEF Covered, Offset
    <2>4. \A id : Rank(id)' = Rank(id)
        BY DEF Rank
    <2>5. RestBelow(Covered)'
        BY <2>1, <2>3, <2>4 DEF RestBelow, SeenIds
    <2> QED
        BY <2>1, <2>2, <2>5
<1> QED
    BY <1>3, <1>4 DEF Turn

\* So every step of writers and readers keeps both properties.
LEMMA HistoryStep ==
    ASSUME RecordsTypeOK, HistoryComplete, HistoryKept, [RecordsNext]_recordsVars
    PROVE  HistoryComplete' /\ HistoryKept'
<1> USE RecordsAssumption
<1>1. RecordsTypeOK' /\ RunsKept'
    BY RecordsTypeStep, HistoryParts, RunsKeptStep
<1>2. /\ pager.at # "closed" => TellsTrue
      /\ pager.at \in {"find", "count"} => RestBelow(Covered)
      /\ pager.at = "done" => pager.early \subseteq SeenIds
      /\ RunsKept
    BY HistoryParts
<1> DEFINE Fine == /\ pager.at # "closed" => TellsTrue
                   /\ pager.at \in {"find", "count"} => RestBelow(Covered)
                   /\ pager.at = "done" => pager.early \subseteq SeenIds
<1>0. RunsKept' /\ Fine' => HistoryComplete' /\ HistoryKept'
    BY DEF HistoryComplete, HistoryKept, RunsKept, TellsTrue, RestBelow, SeenIds
<1>3. ASSUME UNCHANGED <<rows, pager>> PROVE Fine'
    <2>1. \A id : Rank(id)' = Rank(id)
        BY <1>3 DEF Rank
    <2>2. Covered' = Covered /\ SeenIds' = SeenIds
        BY <1>3 DEF Covered, Offset, SeenIds
    <2>3. (TellsTrue <=> TellsTrue') /\ (RestBelow(Covered) <=> RestBelow(Covered)')
        BY <1>3, <2>1, <2>2 DEF TellsTrue, RestBelow
    <2> QED
        BY <1>2, <1>3, <2>2, <2>3
<1>4. ASSUME NEW r \in Runs,
             RecordStart(r) \/ (\E o \in Outcomes : RecordEnd(r, o)) \/ UpdateLastRun(r)
      PROVE  Fine'
    <2>1. UNCHANGED pager
        BY <1>4 DEF RecordStart, RecordEnd, UpdateLastRun
    <2>2. TellsTrue => TellsTrue'
        BY <1>1, <1>2, <1>4, <2>1, WritersKeepPager
    <2>3. ASSUME pager.at \in {"find", "count"} PROVE RestBelow(Covered)'
        <3>1. Covered \in Int
            BY <2>3 DEF Covered, Offset, RecordsTypeOK, NoPager
        <3>2. Covered' = Covered
            BY <2>1 DEF Covered, Offset
        <3>3. TellsTrue /\ RestBelow(Covered)
            BY <1>2, <2>3
        <3>4. \A c \in Int : TellsTrue /\ RestBelow(c) => RestBelow(c)'
            BY <1>1, <1>2, <1>4, <2>1, WritersKeepPager
        <3> QED
            BY <3>1, <3>2, <3>3, <3>4 DEF RestBelow
    <2> QED
        BY <1>2, <2>1, <2>2, <2>3 DEF SeenIds
<1>5. CASE OpenHistory
    <2>1. PICK asked \in PageSizes :
            pager' = [at |-> "find", page |-> PageNumber(0), size |-> PageSize(asked),
                      seen |-> {}, early |-> DOMAIN rows]
        BY <1>5 DEF OpenHistory
    <2>2. rows' = rows
        BY <1>5 DEF OpenHistory
    <2>3. TellsTrue'
        BY <2>1, <2>2 DEF TellsTrue
    <2>4. Covered' = 0
        <3>1. PageSize(asked) \in Int
            BY DEF PageSize, PageSizes
        <3> QED
            BY <2>1, <3>1 DEF Covered, Offset, PageNumber
    <2>5. RestBelow(Covered)'
        <3>1. \A id \in DOMAIN rows' : Rank(id)' > 0
            <4>1. \A id \in DOMAIN rows : Rank(id) > 0
                BY RankBounds, RowsFinite
            <4> QED
                BY <2>2, <4>1 DEF Rank
        <3> QED
            BY <2>1, <2>2, <2>4, <3>1 DEF RestBelow
    <2>6. Fine'
        BY <2>1, <2>3, <2>5
    <2> HIDE DEF Fine
    <2> QED
        BY <1>0, <1>1, <2>6
<1>6. CASE FindPage
    <2> DEFINE offset == Offset(pager.page, pager.size)
               found == {id \in DOMAIN rows : Rank(id) \in offset + 1 .. offset + pager.size}
               n == Cardinality(found)
               seen == pager.seen \cup NewCronJobExecutionItems(found)
    <2>1. pager \in [at : {"find", "count"}, page : Nat \ {0}, size : Nat \ {0},
                    seen : SUBSET Items, early : SUBSET (1 .. MaxRows)]
          /\ pager.at = "find" /\ rows' = rows
        BY <1>6 DEF FindPage, RecordsTypeOK, NoPager
    <2>2. TellsTrue /\ \A id \in pager.early : id \in SeenIds \/ Rank(id) > offset
        BY <1>2, <2>1 DEF RestBelow, Covered
    <2>3. offset \in Nat /\ offset + pager.size = pager.page * pager.size
        BY <2>1 DEF Offset
    <2>4. n \in Nat
        BY RowsFinite, FS_Subset, FS_CardinalityType
    <2>5. \A id \in DOMAIN rows : Rank(id) \in Nat
        BY RankBounds, RowsFinite
    <2>6. \A item \in seen : item.id \in DOMAIN rows /\ item.status \in {"running", rows[item.id]}
        BY <2>2 DEF TellsTrue, NewCronJobExecutionItems, NewCronJobExecutionItem
    <2>7. ASSUME NEW id \in pager.early
          PROVE  id \in {item.id : item \in seen} \/ Rank(id) > pager.page * pager.size
        <3>1. id \in DOMAIN rows
            BY <2>2 DEF TellsTrue
        <3>2. CASE id \in SeenIds
            BY <3>2 DEF SeenIds
        <3>3. CASE Rank(id) > offset /\ Rank(id) <= offset + pager.size
            <4>1. id \in found
                <5> HIDE DEF offset
                <5> QED
                    BY <2>1, <2>3, <2>5, <3>1, <3>3
            <4>2. NewCronJobExecutionItem(id) \in seen /\ NewCronJobExecutionItem(id).id = id
                BY <4>1 DEF NewCronJobExecutionItems, NewCronJobExecutionItem
            <4> QED
                BY <4>2
        <3> HIDE DEF offset, seen
        <3> QED
            BY <2>1, <2>2, <2>3, <2>5, <3>1, <3>2, <3>3
    <2>8. n < pager.size => \A id \in pager.early : Rank(id) <= pager.page * pager.size
        <3> HIDE DEF offset
        <3> QED
            BY <2>1, <2>2, <2>3, ShortPage DEF TellsTrue
    <2>9. (0 < n /\ n < pager.size /\ Turn(seen, n + offset))
          \/ pager' = [pager EXCEPT !.at = "count", !.seen = seen]
        BY <1>6 DEF FindPage
    <2> HIDE DEF offset, n, seen
    <2>10. CASE n < pager.size /\ Turn(seen, n + offset)
        <3>1. pager.seen \subseteq seen
            BY DEF seen
        <3>2. /\ pager'.at \in {"find", "done"}
              /\ TellsTrue'
              /\ pager'.at = "find" => RestBelow(Covered)'
              /\ pager'.at = "done" => (pager.early \subseteq SeenIds)'
            BY <2>1, <2>2, <2>3, <2>4, <2>6, <2>7, <2>8, <2>10, <3>1, TurnKeeps
        <3> QED
            BY <1>0, <1>1, <3>2
    <2>11. CASE pager' = [pager EXCEPT !.at = "count", !.seen = seen]
        <3>1. /\ pager'.at = "count" /\ pager'.page = pager.page /\ pager'.size = pager.size
              /\ pager'.seen = seen /\ pager'.early = pager.early
            BY <2>1, <2>11
        <3>2. TellsTrue'
            BY <2>1, <2>2, <2>6, <3>1 DEF TellsTrue
        <3>3. \A id : Rank(id)' = Rank(id)
            BY <2>1 DEF Rank
        <3>4. RestBelow(Covered)'
            BY <2>7, <3>1, <3>3 DEF RestBelow, Covered, SeenIds
        <3> QED
            BY <1>0, <1>1, <3>1, <3>2, <3>4
    <2> QED
        BY <2>9, <2>10, <2>11
<1>7. CASE CountRows
    <2>1. pager.at = "count" /\ UNCHANGED rows /\ Turn(pager.seen, Cardinality(DOMAIN rows))
        BY <1>7 DEF CountRows
    <2>2. TellsTrue /\ \A id \in pager.early : id \in SeenIds \/ Rank(id) > pager.page * pager.size
        BY <1>2, <2>1 DEF RestBelow, Covered
    <2>3. Cardinality(DOMAIN rows) \in Nat
        BY RowsFinite
    <2>4. pager.page * pager.size \in Nat
        BY <2>1 DEF RecordsTypeOK, NoPager
    <2>5. \A id \in pager.early : Rank(id) <= Cardinality(DOMAIN rows) /\ Rank(id) \in Nat
        BY <2>2, <2>3, RankBounds DEF TellsTrue
    <2>6. pager.page * pager.size >= Cardinality(DOMAIN rows) =>
            \A id \in pager.early : Rank(id) <= pager.page * pager.size
        BY <2>3, <2>4, <2>5
    <2>7. \A item \in pager.seen :
            item.id \in DOMAIN rows /\ item.status \in {"running", rows[item.id]}
        BY <2>2 DEF TellsTrue
    <2>8. \A id \in pager.early :
            id \in {item.id : item \in pager.seen} \/ Rank(id) > pager.page * pager.size
        BY <2>2 DEF SeenIds
    <2>9. /\ pager'.at \in {"find", "done"}
          /\ TellsTrue'
          /\ pager'.at = "find" => RestBelow(Covered)'
          /\ pager'.at = "done" => (pager.early \subseteq SeenIds)'
        BY <2>1, <2>2, <2>3, <2>6, <2>7, <2>8, TurnKeeps
    <2> QED
        BY <1>0, <1>1, <2>9
<1>8. ASSUME \/ UNCHANGED recordsVars
             \/ (\E i \in Releases : SyncJobDefinitions(i)) \/ (\E b \in BOOLEAN : SetEnabled(b))
      PROVE  UNCHANGED <<rows, pager>>
    BY <1>8 DEF recordsVars, SyncJobDefinitions, SetEnabled
<1>9. Fine' => HistoryComplete' /\ HistoryKept'
    BY <1>0, <1>1
<1> HIDE DEF Fine
<1> QED
    BY <1>3, <1>4, <1>5, <1>6, <1>7, <1>8, <1>9 DEF RecordsNext

\* Neither a start nor a paging client is misled by what others write meanwhile,
\* for any number of runs, rows and page sizes (service/cron_job.go 33-65,
\* dal/cron_job.go 25-54 and 71-85).
THEOREM RecordsHold == RecordsSpec => []RecordsSafe
<1>1. RecordsInit => HistoryComplete /\ HistoryKept
    BY DEF RecordsInit, HistoryComplete, HistoryKept, NoPager, NotRunning
<1>2. RecordsSafe <=> SwitchedAsSet /\ HistoryComplete /\ HistoryKept
    BY DEF RecordsSafe
<1> QED
    BY <1>1, <1>2, SwitchesHold, RecordsTyped, HistoryStep, PTL DEF RecordsSpec

=============================================================================
