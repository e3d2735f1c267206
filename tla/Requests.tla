------------------------------ MODULE Requests ------------------------------
(***************************************************************************)
(* A request on its way through the middlewares of internal/middleware, in *)
(* the order of internal/router/router.go, to a handler and back, with the *)
(* answers of pkg/response.  Any number of requests are on their way at    *)
(* once, on instances that count them in one Redis.                        *)
(*                                                                         *)
(* A middleware answers and aborts, so that nothing behind it runs, or     *)
(* lets the request on; then control returns through those it has passed,  *)
(* of which only Logger and Recovery do anything, or a panic does.         *)
(***************************************************************************)
EXTENDS Integers, Sequences

CONSTANTS Clients,        \* requests on their way
          Limit,          \* of RateLimitConfig.Pattern
          MaxCount,       \* bound: requests counted in one period
          DefaultLang     \* LocaleConfig.DefaultLang

ASSUME RequestsAssumption == Limit \in Nat /\ MaxCount \in Nat

VARIABLES
    count,      \* the limiter's counter in Redis
    request,    \* where a request is and what it has met
    (* history, for the properties *)
    letOn    \* requests that the limiter has let on in this period

requestsVars == <<count, request, letOn>>

Langs == {"cn", "en"}

\* A preflight comes from a known origin; every other one from none or a known.
Origins == {"fine", "preflight", "foreign"}

NoRequest == [at |-> "none"]

RequestsInit ==
    /\ count = 0
    /\ request = [c \in Clients |-> NoRequest]
    /\ letOn = 0

\* NewEngine, and JWTAuth of the groups that use it (Trace is part of Arrive).
Chain == <<"i18n", "validator", "recovery", "logger", "cors", "limit", "auth", "handler">>

\* The handlers that a Register puts on routes: open to everybody, or in a group
\* that uses JWTAuth.
HealthRoutes == [open |-> {"Check"}, guarded |-> {}]

CronJobRoutes ==
    [open |-> {"List", "Get", "Enable", "Disable", "Trigger", "ListExecutions"}, guarded |-> {}]

AuthRoutes ==
    [open |-> {"SignUp", "Login", "Refresh", "VerifyEmail", "ResendVerifyCode"},
     guarded |-> {"Logout", "GetPermissions"}]

CaptchaRoutes ==
    [open |-> {"GenerateSlide", "GenerateClick", "GenerateRotate", "Validate"}, guarded |-> {}]

\* (Mutation: the group forgets to use JWTAuth.)
UserRoutesOpen == [open |-> {"GetProfile", "UpdateProfile", "UpdateTour"}, guarded |-> {}]

UserRoutes == [open |-> {}, guarded |-> {"GetProfile", "UpdateProfile", "UpdateTour"}]

V1Registrars == {HealthRoutes, CronJobRoutes, AuthRoutes, CaptchaRoutes, UserRoutes}

\* Those that ask who the user is, and cannot do without.
CurrentUserAsked == {"Logout", "GetPermissions", "GetProfile", "UpdateProfile", "UpdateTour"}

\* (Mutation: requests of foreign origins are sent away first.)
ChainCorsFirst == <<"i18n", "validator", "cors", "recovery", "logger", "limit", "auth", "handler">>

\* The middleware whose turn it is.
At(c, m) == request[c].at = "down" /\ Chain[request[c].i] = m

Passed(c, m) == \E i \in 1 .. request[c].i : Chain[i] = m

On(c) == [request EXCEPT ![c].i = @ + 1]

\* HttpResponse: AbortWithStatusJSON.
HttpResponse(c) == [request EXCEPT ![c].answers = @ + 1, ![c].at = "up"]

\* (Mutation: the answer is written and the chain goes on.)
HttpResponseOnly(c) ==
    [request EXCEPT ![c].answers = @ + 1, ![c].i = @ + 1,
                    ![c].at = IF request[c].i = Len(Chain) THEN "up" ELSE @]

Refuse(c) == [HttpResponse(c) EXCEPT ![c].refused = TRUE]

-----------------------------------------------------------------------------
(* Actions *)

\* A request and what it carries; Trace gives it its id.
Arrive(c) ==
    /\ request[c].at \in {"none", "done"}
    /\ \E header \in Langs \cup {"none"} :
        request' = [request EXCEPT ![c] =
          [at |-> "down", i |-> 1, header |-> header,
           localizer |-> "none", translator |-> "none",
           asks |-> FALSE, user |-> FALSE,
           answers |-> 0, refused |-> FALSE, ran |-> FALSE, lines |-> {}]]
    /\ UNCHANGED <<count, letOn>>

Lang(c) == IF request[c].header \in Langs THEN request[c].header ELSE DefaultLang

\* (Mutation: the language of field errors falls back to English.)
LangEnglish(c) == IF request[c].header \in Langs THEN request[c].header ELSE "en"

I18n(c) ==
    /\ At(c, "i18n")
    /\ request' = [On(c) EXCEPT ![c].localizer = Lang(c)]
    /\ UNCHANGED <<count, letOn>>

TranslatorLang(c) == Lang(c)

Validator(c) ==
    /\ At(c, "validator")
    /\ request' = [On(c) EXCEPT ![c].translator = TranslatorLang(c)]
    /\ UNCHANGED <<count, letOn>>

\* Recovery and Logger do their work on the way back.
Recovery(c) ==
    /\ At(c, "recovery")
    /\ request' = On(c)
    /\ UNCHANGED <<count, letOn>>

Logger(c) ==
    /\ At(c, "logger")
    /\ request' = On(c)
    /\ UNCHANGED <<count, letOn>>

\* A foreign origin is answered 403, a preflight 204.
Cors(c) ==
    /\ At(c, "cors")
    /\ \E origin \in Origins :
        request' = IF origin = "fine" THEN On(c) ELSE Refuse(c)
    /\ UNCHANGED <<count, letOn>>

\* (Mutation: the comparison lets one more through.)
ReachedLate(n) == n > Limit + 1

\* The counter is raised in Redis and then compared; an error is answered.
Reached(n) == n > Limit

RateLimit(c) ==
    /\ At(c, "limit")
    /\ count < MaxCount
    /\ \/ /\ count' = count + 1
          /\ IF Reached(count') THEN request' = Refuse(c) /\ UNCHANGED letOn
                                ELSE request' = On(c) /\ letOn' = letOn + 1
       \/ count' \in {count, count + 1} /\ request' = Refuse(c) /\ UNCHANGED letOn

\* The counter expires.
PeriodEnds ==
    /\ count > 0
    /\ count' = 0 /\ letOn' = 0
    /\ UNCHANGED request

\* What stands behind Bearer: nothing, a token of somebody else's making or out
\* of date, or one of the two that a login gives.
Bearers == {"none", "void", "refresh", "access"}

\* ParseAccessToken
Accepted(bearer) == bearer = "access"

\* JWTAuth leaves the id of the user behind.
JWTAuth(c) ==
    \E registrar \in V1Registrars : \E h \in registrar.guarded, bearer \in Bearers :
        request' = IF Accepted(bearer)
                   THEN [On(c) EXCEPT ![c].user = TRUE, ![c].asks = h \in CurrentUserAsked]
                   ELSE Refuse(c)

\* A route without it lets everybody on.
OpenRoute(c) ==
    \E registrar \in V1Registrars : \E h \in registrar.open :
        request' = [On(c) EXCEPT ![c].asks = h \in CurrentUserAsked]

Route(c) ==
    /\ At(c, "auth")
    /\ JWTAuth(c) \/ OpenRoute(c)
    /\ UNCHANGED <<count, letOn>>

CurrentUserID(c) == request[c].user

\* The handler answers in one of its ways, each a call of HttpResponse, or panics
\* before that: over its own work or over a message that has no translation.
Handle(c) ==
    /\ At(c, "handler")
    /\ request' \in {[HttpResponse(c) EXCEPT ![c].ran = TRUE],
                     [request EXCEPT ![c].ran = TRUE, ![c].at = "panic"],
                     [request EXCEPT ![c].ran = TRUE, ![c].at = "broken pipe"]}
    /\ UNCHANGED <<count, letOn>>

Done(c, answers, lines) ==
    request' = [request EXCEPT ![c] =
      [at |-> "done", answers |-> answers, lines |-> lines, refused |-> @.refused, ran |-> @.ran,
       localizer |-> @.localizer, translator |-> @.translator]]

\* Back through the chain: Logger's second half.
Return(c) ==
    /\ request[c].at = "up"
    /\ Done(c, request[c].answers, IF Passed(c, "logger") THEN {"request"} ELSE {})
    /\ UNCHANGED <<count, letOn>>

\* Recovery logs a panic and answers it; of a broken pipe gin's own part says
\* nothing to anybody, the nil writer included.
Recover(c) ==
    /\ request[c].at \in {"panic", "broken pipe"}
    /\ Passed(c, "recovery")
    /\ IF request[c].at = "panic"
       THEN Done(c, request[c].answers + 1, {"panic recovered"})
       ELSE Done(c, request[c].answers, {})
    /\ UNCHANGED <<count, letOn>>

RequestStep(c) ==
    \/ Arrive(c) \/ I18n(c) \/ Validator(c) \/ Recovery(c) \/ Logger(c) \/ Cors(c)
    \/ RateLimit(c) \/ Route(c) \/ Handle(c) \/ Return(c) \/ Recover(c)

RequestsNext == PeriodEnds \/ \E c \in Clients : RequestStep(c)

RequestsSpec == RequestsInit /\ [][RequestsNext]_requestsVars

-----------------------------------------------------------------------------
(* Properties *)

Speaks == Langs \cup {DefaultLang, "none"}

OnItsWay ==
    [at : {"down", "up", "panic", "broken pipe"}, i : DOMAIN Chain, header : Langs \cup {"none"},
     localizer : Speaks, translator : Speaks, asks : BOOLEAN, user : BOOLEAN,
     answers : Nat, refused : BOOLEAN, ran : BOOLEAN, lines : {{}}]

Ended ==
    [at : {"done"}, answers : Nat, lines : SUBSET {"request", "panic recovered"},
     refused : BOOLEAN, ran : BOOLEAN, localizer : Speaks, translator : Speaks]

RequestsTypeOK ==
    /\ count \in 0 .. MaxCount
    /\ letOn \in 0 .. MaxCount
    /\ request \in [Clients -> {NoRequest} \cup OnItsWay \cup Ended]

Finished(c) == request[c].at = "done"

\* A request is answered once: whoever refuses it keeps the handler from running,
\* and a panic is answered by Recovery alone.  Only a client that is gone gets no
\* answer (response.go 33-46, middleware/recovery.go 12-25, limiter.go 14-36,
\* auth.go 39-55).
OneAnswer ==
    \A c \in Clients : Finished(c) =>
        /\ request[c].answers = 1 \/ (request[c].ran /\ request[c].lines = {})
        /\ request[c].answers <= 1
        /\ ~(request[c].refused /\ request[c].ran)

\* Every answered request has left one line in the log, refused ones included:
\* that of Logger, or where a panic has taken the way past it, that of Recovery
\* (router.go 34-40, middleware/logger.go 12-32).
EveryRequestLogged ==
    \A c \in Clients : Finished(c) /\ request[c].answers > 0 =>
        \E line \in {"request", "panic recovered"} : request[c].lines = {line}

\* The message of an answer and its field errors are in one language
\* (middleware/i18n.go 31-102).
OneLanguage ==
    \A c \in Clients : Finished(c) => request[c].localizer = request[c].translator

\* However many requests overlap on however many instances, and whatever Redis
\* answers, no period admits more than the limit (middleware/limiter.go 14-36).
LimitHolds == letOn <= Limit

\* Whoever asks for the user finds one: the routes of these handlers, which
\* several registrars set up, all lie behind JWTAuth (handler/v1/auth.go 36-51,
\* handler/v1/user.go 29-37, middleware/auth.go 20-27).
UserKnown ==
    \A c \in Clients : At(c, "handler") /\ request[c].asks => CurrentUserID(c)

\* A request comes out of the chain answered, logged, in one language and within
\* the limit, and reaches its handler with all that this one relies on.
RequestsSafe ==
    OneAnswer /\ EveryRequestLogged /\ OneLanguage /\ LimitHolds /\ UserKnown

=============================================================================
