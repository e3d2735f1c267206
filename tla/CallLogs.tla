------------------------------ MODULE CallLogs ------------------------------
(***************************************************************************)
(* What the log tells of a call of Redis or of the database: the hook of   *)
(* pkg/redis/hook.go, the logger that pkg/database/logger.go gives GORM    *)
(* and the level and trace id of pkg/logger/logger.go.  Calls share        *)
(* nothing but the configuration, so one at a time is enough.              *)
(***************************************************************************)
EXTENDS Integers, Sequences

VARIABLES
    logging,    \* the levels of the configuration and the slow threshold
    call        \* the call under way or just ended, and the lines it left

callLogsVars == <<logging, call>>

\* LogLevel of the hook, and of gorm: 1=Silent 2=Error 3=Warn 4=Info; 0 is unset.
AtError == 2

AtWarn == 3

AtInfo == 4

Severities == <<"debug", "info", "warn", "error", "fatal">>

Severity(s) == CHOOSE i \in DOMAIN Severities : Severities[i] = s

\* parseLevel: info, where the text is no level.
FileLevel(text) == IF text = "unreadable" THEN "info" ELSE text

\* NewConnection: an unset level is Warn.
GormLevel(level) == IF level = 0 THEN AtWarn ELSE level

NoCall == [at |-> "idle"]

CallLogsInit ==
    /\ \E redis, gorm \in 0 .. AtInfo,
          file \in {Severities[i] : i \in DOMAIN Severities} \cup {"unreadable"} :
        logging = [redis |-> redis, gorm |-> GormLevel(gorm), file |-> FileLevel(file)]
    /\ call = NoCall

-----------------------------------------------------------------------------
(* Lines *)

\* One line of a severity, if the logger lets it through, with the trace id of
\* the call's context, "" if that has none (Logger.Ctx).
Line(severity, trace) ==
    IF Severity(severity) >= Severity(logging.file)
    THEN <<[severity |-> severity, trace |-> trace]>> ELSE <<>>

\* What the three hooks say before a call, ...
HookBefore(trace) == IF logging.redis >= AtInfo THEN Line("info", trace) ELSE <<>>

\* (Mutation: a key that is not there is an error like any other.)
HookAfterPlain(outcome, trace) ==
    IF outcome # "ok"
    THEN IF logging.redis >= AtError THEN Line("error", trace) ELSE <<>>
    ELSE IF logging.redis >= AtInfo THEN Line("info", trace) ELSE <<>>

\* ... and after it: an answer of nil is told, at any level but Silent.
HookAfter(outcome, trace) ==
    CASE outcome = "failed" /\ logging.redis >= AtError -> Line("error", trace)
      [] outcome = "nothing" /\ logging.redis >= AtError -> Line("info", trace)
      [] outcome = "ok" /\ logging.redis >= AtInfo -> Line("info", trace)
      [] OTHER -> <<>>

\* (Mutation: a slow statement is told as slow, whatever became of it.)
TraceSlowFirst(outcome, slow, trace) ==
    CASE slow /\ logging.gorm >= AtWarn -> Line("warn", trace)
      [] outcome = "failed" /\ logging.gorm >= AtError -> Line("error", trace)
      [] logging.gorm = AtInfo -> Line("info", trace)
      [] OTHER -> <<>>

\* Logger.Trace: an error before slowness before any other statement.
Trace(outcome, slow, trace) ==
    IF outcome = "failed" /\ logging.gorm >= AtError THEN Line("error", trace)
    ELSE IF slow /\ logging.gorm >= AtWarn THEN Line("warn", trace)
    ELSE IF logging.gorm = AtInfo THEN Line("info", trace) ELSE <<>>

-----------------------------------------------------------------------------
(* Calls *)

\* Trace gives every request an id and the cron manager every run; the calls of
\* the start of a process have none.
Contexts == {"request", "run", "start"}

TraceIDFromContext(ctx) == IF ctx = "start" THEN "" ELSE "id"

StartCall(kind, trace, lines) ==
    /\ call.at # "sent"
    /\ call' = [at |-> "sent", kind |-> kind, trace |-> trace, lines |-> lines]
    /\ UNCHANGED logging

Hooked(kind) ==
    \E ctx \in Contexts :
        LET trace == TraceIDFromContext(ctx) IN StartCall(kind, trace, HookBefore(trace))

Dial == Hooked("dial")

Process == Hooked("command")

ProcessPipeline == Hooked("pipeline")

Statement == \E ctx \in Contexts : StartCall("statement", TraceIDFromContext(ctx), <<>>)

EndCall(outcome, more) ==
    call' = [at |-> "ended", kind |-> call.kind, trace |-> call.trace, outcome |-> outcome,
             lines |-> call.lines \o more]

ReturnCall ==
    /\ call.at = "sent"
    /\ \E outcome \in {"ok", "nothing", "failed"} :
        /\ call.kind = "dial" => outcome # "nothing"
        /\ \/ call.kind = "statement"
              /\ \E slow \in BOOLEAN : EndCall(outcome, Trace(outcome, slow, call.trace))
           \/ call.kind # "statement" /\ EndCall(outcome, HookAfter(outcome, call.trace))
    /\ UNCHANGED logging

CallLogsNext == Dial \/ Process \/ ProcessPipeline \/ Statement \/ ReturnCall

CallLogsSpec == CallLogsInit /\ [][CallLogsNext]_callLogsVars

-----------------------------------------------------------------------------
(* Properties *)

Kinds == {"dial", "command", "pipeline", "statement"}

LogLine == [severity : {"info", "warn", "error"}, trace : {"", "id"}]

CallLogsTypeOK ==
    /\ logging \in [redis : 0 .. AtInfo, gorm : 1 .. AtInfo,
                   file : {"debug", "info", "warn", "error", "fatal"}]
    /\ call \in {NoCall}
         \cup [at : {"sent"}, kind : Kinds, trace : {"", "id"}, lines : Seq(LogLine)]
         \cup [at : {"ended"}, kind : Kinds, trace : {"", "id"},
               outcome : {"ok", "nothing", "failed"}, lines : Seq(LogLine)]

LevelOf(kind) == IF kind = "statement" THEN logging.gorm ELSE logging.redis

ErrorLines == {i \in DOMAIN call.lines : call.lines[i].severity = "error"}

\* A call that failed can be found from the request that made it: unless errors
\* are switched off it leaves one error with that request's trace id, slow or
\* not, and one that found nothing leaves none (redis/hook.go 37-106,
\* database/logger.go 57-93, logger/logger.go 70-78).
FailuresTraced ==
    call.at = "ended" =>
        IF call.outcome = "failed" /\ LevelOf(call.kind) >= AtError /\ logging.file # "fatal"
        THEN \E i \in DOMAIN call.lines : ErrorLines = {i} /\ call.lines[i].trace = call.trace
        ELSE ErrorLines = {}

=============================================================================
