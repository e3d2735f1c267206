-------------------------------- MODULE Auth --------------------------------
(***************************************************************************)
(* Sessions and the lockout of one enabled account: Login, RefreshToken    *)
(* and Logout of internal/service/auth.go over the user's row              *)
(* (internal/dal/user.go) and its one refresh token in Redis               *)
(* (internal/dal/token.go).  Every call of the database, of Redis and of   *)
(* the clock is a step; a member of Reqs is a request in flight, on any    *)
(* instance of the server.  A request that is refused without a write is   *)
(* not a step.                                                             *)
(*                                                                         *)
(* A refresh token is the second it was issued in: pkg/jwt signs user,     *)
(* name, type, and two times that are cut to seconds, with nothing random, *)
(* so that two tokens of one second are the same string.                   *)
(***************************************************************************)
EXTENDS Integers, FiniteSets

CONSTANTS Reqs,
          maxLoginFailCount,
          MaxNow,      \* bound: the last second of the model
          Faults,      \* a subset of AllFaults
          None         \* no token

AllFaults == {"db", "redis"}    \* a call fails, its effect done or not

ASSUME MaxAssumption == maxLoginFailCount \in Nat \ {0, 1} /\ MaxNow \in Nat
ASSUME NoneAssumption == None \notin Nat
ASSUME ReqsAssumption == IsFiniteSet(Reqs)

VARIABLES
    now,        \* the clock, in seconds
    fails,      \* login_fail_count, as far as it matters: cut at the maximum
    locked,     \* locked_until is in the future
    stored,     \* the value of auth:refresh:<id>
    pc,         \* where a request is
    seen,       \* the login_fail_count a login has read
    presented,  \* the token a refresh presents
    token,      \* the token a request has generated
    (* history, for the properties *)
    guesses,    \* wrong passwords compared since the last success or lock
    dbFailed,   \* a write of the lockout has failed
    ended       \* the user logged out, with no refresh in flight, and has not
                \* logged in since

row == <<fails, locked>>
locals == <<pc, seen, presented, token>>
vars == <<now, fails, locked, stored, pc, seen, presented, token, guesses, dbFailed, ended>>

Tokens == 0 .. MaxNow

PC == {"idle", "compare", "increment", "lock", "reset", "generate", "store"}

\* How many wrong passwords can be tried before the lock falls; one request
\* at a time makes it maxLoginFailCount.
GuessBound == maxLoginFailCount - 2 + 2 * Cardinality(Reqs)

-----------------------------------------------------------------------------

Goto(r, p) == pc' = [pc EXCEPT ![r] = p]

\* A request is over: its locals are gone.
Finish(r) ==
    /\ Goto(r, "idle")
    /\ seen' = [seen EXCEPT ![r] = 0]
    /\ presented' = [presented EXCEPT ![r] = None]
    /\ token' = [token EXCEPT ![r] = None]

OneMore == IF fails < maxLoginFailCount THEN fails + 1 ELSE fails

Init ==
    /\ now = 0
    /\ fails = 0
    /\ locked = FALSE
    /\ stored = None
    /\ pc = [r \in Reqs |-> "idle"]
    /\ seen = [r \in Reqs |-> 0]
    /\ presented = [r \in Reqs |-> None]
    /\ token = [r \in Reqs |-> None]
    /\ guesses = 0
    /\ dbFailed = FALSE
    /\ ended = FALSE

-----------------------------------------------------------------------------
(* Login *)

\* The row is read once; what it says about locks and failures is used below.
Login(r) ==
    /\ pc[r] = "idle"
    /\ ~locked
    /\ Goto(r, "compare")
    /\ seen' = [seen EXCEPT ![r] = fails]
    /\ UNCHANGED <<now, row, stored, presented, token, guesses, dbFailed, ended>>

Compare(r) ==
    /\ pc[r] = "compare"
    /\ \/ Goto(r, "reset") /\ UNCHANGED guesses
       \/ /\ Goto(r, "increment")
          /\ guesses' = IF guesses > GuessBound THEN guesses ELSE guesses + 1
    /\ UNCHANGED <<now, row, stored, seen, presented, token, dbFailed, ended>>

\* Whether to lock was decided when the row was read.
AfterIncrement(r) ==
    IF seen[r] + 1 >= maxLoginFailCount
    THEN Goto(r, "lock") /\ UNCHANGED <<seen, presented, token>>
    ELSE Finish(r)

\* (Mutation: the count is written back from what was read.)
IncrementStale(r) ==
    /\ pc[r] = "increment"
    /\ fails' = IF seen[r] < maxLoginFailCount THEN seen[r] + 1 ELSE seen[r]
    /\ AfterIncrement(r)
    /\ UNCHANGED <<now, locked, stored, guesses, dbFailed, ended>>

\* IncrementLoginFail adds one in the database; an error is only logged.
IncrementLoginFail(r) ==
    /\ pc[r] = "increment"
    /\ \/ fails' = OneMore /\ UNCHANGED dbFailed
       \/ "db" \in Faults /\ fails' \in {fails, OneMore} /\ dbFailed' = TRUE
    /\ AfterIncrement(r)
    /\ UNCHANGED <<now, locked, stored, guesses, ended>>

LockUser(r) ==
    /\ pc[r] = "lock"
    /\ \/ locked' = TRUE /\ UNCHANGED dbFailed
       \/ "db" \in Faults /\ locked' \in {locked, TRUE} /\ dbFailed' = TRUE
    /\ Finish(r)
    /\ UNCHANGED <<now, fails, stored, guesses, ended>>

\* A right password sets the count back; an error is only logged.
UpdateLastLogin(r) ==
    /\ pc[r] = "reset"
    /\ Goto(r, "generate")
    /\ \/ fails' = 0 /\ guesses' = 0
       \/ "db" \in Faults /\ UNCHANGED <<fails, guesses>>
    /\ UNCHANGED <<now, locked, stored, seen, presented, token, dbFailed, ended>>

-----------------------------------------------------------------------------
(* RefreshToken and Logout *)

\* (Mutation: any token that was ever issued is accepted.)
RefreshAnything(r) ==
    /\ pc[r] = "idle"
    /\ presented' \in {[presented EXCEPT ![r] = t] : t \in 0 .. now}
    /\ Goto(r, "generate")
    /\ UNCHANGED <<now, row, stored, seen, token, guesses, dbFailed, ended>>

\* GetRefreshToken returns the token that is presented.
RefreshToken(r) ==
    /\ pc[r] = "idle"
    /\ stored # None
    /\ presented' = [presented EXCEPT ![r] = stored]
    /\ Goto(r, "generate")
    /\ UNCHANGED <<now, row, stored, seen, token, guesses, dbFailed, ended>>

\* GenerateTokenPair, for Login and RefreshToken.
GenerateTokenPair(r) ==
    /\ pc[r] = "generate"
    /\ token' = [token EXCEPT ![r] = now]
    /\ Goto(r, "store")
    /\ UNCHANGED <<now, row, stored, seen, presented, guesses, dbFailed, ended>>

\* (Mutation: a refresh puts back the token it was given.)
StoreOld(r) ==
    /\ pc[r] = "store"
    /\ stored' = IF presented[r] = None THEN token[r] ELSE presented[r]
    /\ ended' = (ended /\ presented[r] # None)
    /\ Finish(r)
    /\ UNCHANGED <<now, row, guesses, dbFailed>>

\* The SET replaces whatever is there by now; if it fails the client gets no
\* token, even if Redis has done it.
StoreRefreshToken(r) ==
    /\ pc[r] = "store"
    /\ \/ stored' = token[r]
       \/ "redis" \in Faults /\ UNCHANGED stored
    /\ ended' = (ended /\ presented[r] # None)
    /\ Finish(r)
    /\ UNCHANGED <<now, row, guesses, dbFailed>>

\* An error of the DEL is only logged: the user is told all went well.
Logout ==
    /\ \/ stored' = None /\ ended' = (\A r \in Reqs : presented[r] = None)
       \/ "redis" \in Faults /\ UNCHANGED <<stored, ended>>
    /\ UNCHANGED <<now, row, locals, guesses, dbFailed>>

-----------------------------------------------------------------------------
(* Time *)

Tick ==
    /\ now < MaxNow
    /\ now' = now + 1
    /\ UNCHANGED <<row, stored, locals, guesses, dbFailed, ended>>

\* locked_until is past; the count stays, so that the next failure locks again.
LockEnds ==
    /\ locked
    /\ locked' = FALSE
    /\ guesses' = 0
    /\ UNCHANGED <<now, fails, stored, locals, dbFailed, ended>>

\* The TTL of the token.
TokenExpires ==
    /\ stored # None
    /\ stored' = None
    /\ UNCHANGED <<now, row, locals, guesses, dbFailed, ended>>

-----------------------------------------------------------------------------

Step(r) ==
    \/ Login(r) \/ Compare(r) \/ IncrementLoginFail(r) \/ LockUser(r) \/ UpdateLastLogin(r)
    \/ RefreshToken(r) \/ GenerateTokenPair(r) \/ StoreRefreshToken(r)

Next == (\E r \in Reqs : Step(r)) \/ Logout \/ Tick \/ LockEnds \/ TokenExpires

Spec == Init /\ [][Next]_vars

-----------------------------------------------------------------------------
(* Properties *)

TypeOK ==
    /\ now \in Tokens
    /\ fails \in 0 .. maxLoginFailCount
    /\ locked \in BOOLEAN
    /\ stored \in Tokens \cup {None}
    /\ pc \in [Reqs -> PC]
    /\ seen \in [Reqs -> 0 .. maxLoginFailCount]
    /\ presented \in [Reqs -> Tokens \cup {None}]
    /\ token \in [Reqs -> Tokens \cup {None}]
    /\ guesses \in Nat
    /\ dbFailed \in BOOLEAN
    /\ ended \in BOOLEAN

\* Logins in parallel decide on a count that is out of date, yet the lock
\* falls: each of them gains at most two guesses, while the database answers
\* (auth.go 131-140, IncrementLoginFail in dal/user.go 63-69).
GuessesBounded == dbFailed \/ guesses <= GuessBound

\* After a logout that no refresh overlapped, no old token opens the session
\* again: only a login does (auth.go 167-170 and 186-190).
LogoutSticks == ended => stored = None

\* A token of an earlier second that is not stored, and that no request is
\* about to store, is dead for ever, whatever requests overlap
\* (auth.go 172-181).
Dead(t) == t < now /\ stored # t /\ \A r \in Reqs : token[r] # t

DeadTokensStayDead == [][\A t \in Tokens : Dead(t) => Dead(t)']_vars

\* Requests that have compared a wrong password and not counted it yet, that
\* have read a count below the last one and compare still, and that may still
\* guess once more before the lock falls.
Uncounted == {r \in Reqs : pc[r] = "increment"}
Behind == {r \in Reqs : pc[r] = "compare" /\ seen[r] < maxLoginFailCount - 1}
MayGuess == {r \in Reqs :
                \/ pc[r] \in {"idle", "reset", "generate", "store"} /\ ~locked
                \/ pc[r] = "compare"
                \/ pc[r] = "increment" /\ seen[r] < maxLoginFailCount - 1}

\* Behind GuessesBounded: up to the last but one failure every guess is counted
\* or about to be; from then on each request guesses once more if it is going
\* to lock, and twice if it has read the count before.
GuessesLeft ==
    \/ dbFailed
    \/ fails < maxLoginFailCount - 1 /\ guesses <= fails + Cardinality(Uncounted)
    \/ fails >= maxLoginFailCount - 1
         /\ guesses + Cardinality(MayGuess) + Cardinality(Behind) <= GuessBound

\* Behind LogoutSticks: no refresh is in flight while the session is ended.
AuthInv ==
    /\ TypeOK
    /\ GuessesLeft
    /\ LogoutSticks
    /\ ended => \A r \in Reqs : presented[r] = None
    /\ \A r \in Reqs :
        /\ token[r] # None <=> pc[r] = "store"
        /\ presented[r] # None => pc[r] \in {"generate", "store"}

-----------------------------------------------------------------------------
(* What the documentation says and the code does not do *)

\* README 178: a refresh token is void once it is used.
OneExchange ==
    \A r, q \in Reqs : presented[r] # None /\ presented[r] = presented[q] => r = q

=============================================================================
