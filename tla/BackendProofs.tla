---------------------------- MODULE BackendProofs ----------------------------
(***************************************************************************)
(* Proofs about the parts of module Backend that have no module of proofs  *)
(* of their own, CallLogs, Startup, Requests and Balancers, and about      *)
(* Backend itself, whose steps are steps of its parts.                     *)
(***************************************************************************)
EXTENDS Backend, AccountsProofs, CaptchaProofs, RowsProofs, WellFoundedInduction

-----------------------------------------------------------------------------
(* CallLogs *)

\* The five levels of the log file, as numbers.
LEMMA SeverityOrder ==
    /\ Severity("debug") = 1 /\ Severity("info") = 2 /\ Severity("warn") = 3
    /\ Severity("error") = 4 /\ Severity("fatal") = 5
<1>1. \A i \in DOMAIN Severities : i \in {1, 2, 3, 4, 5}
    BY DEF Severities
<1>2. /\ Severities[1] = "debug" /\ Severities[2] = "info" /\ Severities[3] = "warn"
      /\ Severities[4] = "error" /\ Severities[5] = "fatal" /\ DOMAIN Severities = {1, 2, 3, 4, 5}
    BY DEF Severities
<1>3. QED BY <1>1, <1>2 DEF Severity

\* A sequence of no or one element.
LEMMA OneInSeq ==
    ASSUME NEW S, NEW x \in S
    PROVE  <<>> \in Seq(S) /\ <<x>> \in Seq(S) /\ Len(<<x>>) = 1 /\ <<x>>[1] = x
OBVIOUS

\* Where the elements of a concatenation come from.
LEMMA Concatenated ==
    ASSUME NEW S, NEW s \in Seq(S), NEW t \in Seq(S)
    PROVE  /\ s \o t \in Seq(S)
           /\ Len(s) \in Nat /\ DOMAIN s = 1 .. Len(s) /\ \A i \in DOMAIN s : s[i] \in S
           /\ DOMAIN (s \o t) = 1 .. (Len(s) + Len(t))
           /\ \A i \in DOMAIN s : (s \o t)[i] = s[i]
           /\ \A i \in DOMAIN (s \o t) : i \notin DOMAIN s =>
                i - Len(s) \in DOMAIN t /\ (s \o t)[i] = t[i - Len(s)]
<1>1. s \o t \in Seq(S)
    BY ConcatProperties
<1>2. QED BY <1>1, ConcatProperties, LenProperties

\* Without an error line on either side, there is none in the concatenation, ...
LEMMA NoErrorMore ==
    ASSUME NEW s \in Seq(LogLine), NEW t \in Seq(LogLine),
           \A i \in DOMAIN s : s[i].severity # "error", \A i \in DOMAIN t : t[i].severity # "error"
    PROVE  {i \in DOMAIN (s \o t) : (s \o t)[i].severity = "error"} = {}
<1> DEFINE all == s \o t
<1>1. /\ \A i \in DOMAIN s : all[i] = s[i]
      /\ \A i \in DOMAIN all : i \notin DOMAIN s => i - Len(s) \in DOMAIN t /\ all[i] = t[i - Len(s)]
    BY Concatenated
<1> HIDE DEF all
<1>2. \A i \in DOMAIN all : all[i].severity # "error"
    BY <1>1
<1>3. QED BY <1>2 DEF all

\* ... and with one appended, it is the only one.
LEMMA OneErrorMore ==
    ASSUME NEW s \in Seq(LogLine), NEW t \in Seq(LogLine), Len(t) = 1, t[1].severity = "error",
           \A i \in DOMAIN s : s[i].severity # "error"
    PROVE  /\ {i \in DOMAIN (s \o t) : (s \o t)[i].severity = "error"} = {Len(s) + 1}
           /\ (s \o t)[Len(s) + 1] = t[1] /\ Len(s) + 1 \in DOMAIN (s \o t)
<1> DEFINE all == s \o t
<1>1. DOMAIN t = {1} /\ Len(t) = 1 /\ t[1].severity = "error"
    BY LenProperties
<1>2. /\ Len(s) \in Nat /\ DOMAIN s = 1 .. Len(s) /\ DOMAIN all = 1 .. (Len(s) + Len(t))
      /\ \A i \in DOMAIN s : all[i] = s[i]
      /\ \A i \in DOMAIN all : i \notin DOMAIN s => i - Len(s) \in DOMAIN t /\ all[i] = t[i - Len(s)]
    BY Concatenated
<1> HIDE DEF all
<1>3. Len(s) + 1 \in DOMAIN all /\ all[Len(s) + 1] = t[1]
    BY <1>1, <1>2
<1>4. \A i \in DOMAIN all : i # Len(s) + 1 => i \in DOMAIN s
    BY <1>1, <1>2
<1>5. \A i \in DOMAIN all : all[i].severity = "error" <=> i = Len(s) + 1
    BY <1>1, <1>2, <1>3, <1>4
<1>6. QED BY <1>1, <1>3, <1>5 DEF all

\* The fields of a call that has been sent and not answered.
LEMMA SentCall ==
    ASSUME CallLogsTypeOK, call.at = "sent"
    PROVE  /\ call.kind \in Kinds /\ call.trace \in {"", "id"} /\ call.lines \in Seq(LogLine)
<1>1. call # NoCall
    BY DEF NoCall
<1>2. ASSUME call \in [at : {"ended"}, kind : Kinds, trace : {"", "id"},
                       outcome : {"ok", "nothing", "failed"}, lines : Seq(LogLine)]
      PROVE  FALSE
    BY <1>2
<1>3. call \in [at : {"sent"}, kind : Kinds, trace : {"", "id"}, lines : Seq(LogLine)]
    BY <1>1, <1>2 DEF CallLogsTypeOK
<1>4. QED BY <1>3

\* What a hook or the logger says is nothing, or one line of the call's trace id.
LEMMA OneLine ==
    ASSUME CallLogsTypeOK, NEW severity \in {"info", "warn", "error"}, NEW trace \in {"", "id"}
    PROVE  /\ Line(severity, trace) \in {<<>>, <<[severity |-> severity, trace |-> trace]>>}
           /\ Line(severity, trace) \in Seq(LogLine)
<1>1. [severity |-> severity, trace |-> trace] \in LogLine
    BY DEF LogLine
<1>2. <<>> \in Seq(LogLine) /\ <<[severity |-> severity, trace |-> trace]>> \in Seq(LogLine)
    BY <1>1, OneInSeq
<1>3. QED BY <1>2 DEF Line

\* Info and warn lines are no error lines.
LEMMA OneLineNoError ==
    ASSUME NEW trace, NEW lines,
           lines \in {<<>>, <<[severity |-> "info", trace |-> trace]>>,
                     <<[severity |-> "warn", trace |-> trace]>>}
    PROVE  \A i \in DOMAIN lines : lines[i].severity # "error"
<1>1. CASE lines = <<>>
    BY <1>1
<1>2. ASSUME NEW severity \in {"info", "warn"}, lines = <<[severity |-> severity, trace |-> trace]>>
      PROVE  \A i \in DOMAIN lines : lines[i].severity # "error"
    <2>1. DOMAIN lines = {1} /\ lines[1].severity = severity
        BY <1>2
    <2>2. QED BY <2>1
<1>3. QED BY <1>1, <1>2

\* A failure leaves one error, unless errors are switched off; nothing else does.
LEMMA AfterCall ==
    ASSUME CallLogsTypeOK, call.at = "sent",
           NEW outcome \in {"ok", "nothing", "failed"}, NEW slow \in BOOLEAN, NEW more,
           \/ call.kind = "statement" /\ more = Trace(outcome, slow, call.trace)
           \/ call.kind # "statement" /\ more = HookAfter(outcome, call.trace)
    PROVE  /\ more \in Seq(LogLine)
           /\ IF outcome = "failed" /\ LevelOf(call.kind) >= AtError /\ logging.file # "fatal"
              THEN more = <<[severity |-> "error", trace |-> call.trace]>>
              ELSE more \in {<<>>, <<[severity |-> "info", trace |-> call.trace]>>,
                             <<[severity |-> "warn", trace |-> call.trace]>>}
<1>1. /\ call.kind \in Kinds /\ call.trace \in {"", "id"}
      /\ logging.redis \in 0 .. 4 /\ logging.gorm \in 1 .. 4
      /\ logging.file \in {"debug", "info", "warn", "error", "fatal"}
    BY SentCall DEF CallLogsTypeOK, AtInfo
<1>2. <<>> \in Seq(LogLine)
    OBVIOUS
<1>3. Line("error", call.trace) = IF logging.file # "fatal"
                                  THEN <<[severity |-> "error", trace |-> call.trace]>> ELSE <<>>
    <2>1. Severity("error") >= Severity(logging.file) <=> logging.file # "fatal"
        <3>1. \A file \in {"debug", "info", "warn", "error", "fatal"} :
                4 >= Severity(file) <=> file # "fatal"
            BY SeverityOrder
        <3>2. QED BY <1>1, <3>1, SeverityOrder, Zenon
    <2>2. QED BY <2>1 DEF Line
<1>4. \A severity \in {"info", "warn", "error"} :
        /\ Line(severity, call.trace) \in {<<>>, <<[severity |-> severity, trace |-> call.trace]>>}
        /\ Line(severity, call.trace) \in Seq(LogLine)
    BY <1>1, OneLine
<1>5. CASE call.kind = "statement"
    <2>1. more \in {<<>>, Line("error", call.trace), Line("warn", call.trace), Line("info", call.trace)}
        BY <1>5 DEF Trace
    <2>2. more \in Seq(LogLine)
        BY <1>2, <1>4, <2>1
    <2>3. outcome = "failed" /\ logging.gorm >= 2 => more = Line("error", call.trace)
        BY <1>5 DEF Trace, AtError
    <2>4. ~(outcome = "failed" /\ logging.gorm >= 2)
            => more \in {<<>>, Line("warn", call.trace), Line("info", call.trace)}
        BY <1>5 DEF Trace, AtError
    <2>5. LevelOf(call.kind) = logging.gorm /\ AtError = 2
        BY <1>5 DEF LevelOf, AtError
    <2>6. QED BY <1>3, <1>4, <2>2, <2>3, <2>4, <2>5
<1>6. CASE call.kind # "statement"
    <2>1. more \in {<<>>, Line("error", call.trace), Line("info", call.trace)}
        BY <1>6 DEF HookAfter
    <2>2. more \in Seq(LogLine)
        BY <1>2, <1>4, <2>1
    <2>3. outcome = "failed" /\ logging.redis >= 2 => more = Line("error", call.trace)
        BY <1>6 DEF HookAfter, AtError
    <2>4. ~(outcome = "failed" /\ logging.redis >= 2) => more \in {<<>>, Line("info", call.trace)}
        BY <1>6 DEF HookAfter, AtError
    <2>5. LevelOf(call.kind) = logging.redis /\ AtError = 2
        BY <1>6 DEF LevelOf, AtError
    <2>6. QED BY <1>3, <1>4, <2>2, <2>3, <2>4, <2>5
<1>7. QED BY <1>5, <1>6

\* Until its answer a call has left no error.
CallLogsInv ==
    /\ CallLogsTypeOK
    /\ call.at = "sent" => ErrorLines = {}
    /\ FailuresTraced

\* Every step of the calls and their log lines keeps the invariant, ...
LEMMA CallLogsStep == CallLogsInv /\ [CallLogsNext]_callLogsVars => CallLogsInv'
<1>1. SUFFICES ASSUME CallLogsInv, [CallLogsNext]_callLogsVars PROVE CallLogsInv'
    OBVIOUS
<1>2. CASE UNCHANGED callLogsVars
    BY <1>1, <1>2 DEF callLogsVars, CallLogsInv, CallLogsTypeOK, ErrorLines, FailuresTraced, LevelOf
<1>3. ASSUME NEW kind \in Kinds, NEW trace \in {"", "id"}, NEW lines,
             StartCall(kind, trace, lines), lines \in {<<>>, Line("info", trace)}
      PROVE  CallLogsInv'
    <2>1. lines \in Seq(LogLine) /\ lines \in {<<>>, <<[severity |-> "info", trace |-> trace]>>}
        <3>1. "info" \in {"info", "warn", "error"} /\ CallLogsTypeOK
            BY <1>1 DEF CallLogsInv
        <3>2. QED BY <1>3, <3>1, OneLine, EmptySeq, Zenon
    <2>2. CallLogsTypeOK'
        BY <1>1, <1>3, <2>1 DEF CallLogsInv, CallLogsTypeOK, StartCall
    <2>3. call' = [at |-> "sent", kind |-> kind, trace |-> trace, lines |-> lines]
        BY <1>3 DEF StartCall
    <2>4. \A i \in DOMAIN lines : lines[i].severity # "error"
        BY <2>1, OneLineNoError
    <2>5. QED BY <2>2, <2>3, <2>4 DEF CallLogsInv, ErrorLines, FailuresTraced
<1>4. ASSUME NEW kind \in {"dial", "command", "pipeline"}, Hooked(kind) PROVE CallLogsInv'
    <2>1. PICK ctx \in Contexts : StartCall(kind, TraceIDFromContext(ctx), HookBefore(TraceIDFromContext(ctx)))
        BY <1>4 DEF Hooked
    <2>2. TraceIDFromContext(ctx) \in {"", "id"} /\ kind \in Kinds
        BY DEF TraceIDFromContext, Kinds
    <2>3. HookBefore(TraceIDFromContext(ctx)) \in {<<>>, Line("info", TraceIDFromContext(ctx))}
        BY DEF HookBefore
    <2>4. QED BY <1>3, <2>1, <2>2, <2>3
<1>5. CASE Statement
    <2>1. PICK ctx \in Contexts : StartCall("statement", TraceIDFromContext(ctx), <<>>)
        BY <1>5 DEF Statement
    <2>2. TraceIDFromContext(ctx) \in {"", "id"} /\ "statement" \in Kinds
        BY DEF TraceIDFromContext, Kinds
    <2>3. QED BY <1>3, <2>1, <2>2
<1>6. CASE ReturnCall
    <2>1. PICK outcome \in {"ok", "nothing", "failed"}, slow \in BOOLEAN :
            \/ call.kind = "statement" /\ EndCall(outcome, Trace(outcome, slow, call.trace))
            \/ call.kind # "statement" /\ EndCall(outcome, HookAfter(outcome, call.trace))
        BY <1>6 DEF ReturnCall
    <2>2. PICK more : /\ EndCall(outcome, more)
                      /\ \/ call.kind = "statement" /\ more = Trace(outcome, slow, call.trace)
                         \/ call.kind # "statement" /\ more = HookAfter(outcome, call.trace)
        BY <2>1
    <2>3. call.at = "sent" /\ logging' = logging
        BY <1>6 DEF ReturnCall
    <2> DEFINE Told == /\ outcome = "failed" /\ LevelOf(call.kind) >= AtError
                       /\ logging.file # "fatal"
    <2>4. /\ more \in Seq(LogLine)
          /\ IF Told THEN more = <<[severity |-> "error", trace |-> call.trace]>>
             ELSE more \in {<<>>, <<[severity |-> "info", trace |-> call.trace]>>,
                            <<[severity |-> "warn", trace |-> call.trace]>>}
        BY <1>1, <2>2, <2>3, AfterCall DEF CallLogsInv
    <2>5. /\ call.lines \in Seq(LogLine) /\ call.kind \in Kinds /\ call.trace \in {"", "id"}
          /\ \A i \in DOMAIN call.lines : call.lines[i].severity # "error"
        <3>1. CallLogsTypeOK
            BY <1>1 DEF CallLogsInv
        <3>2. ErrorLines = {}
            BY <1>1, <2>3 DEF CallLogsInv
        <3>3. QED BY <2>3, <3>1, <3>2, SentCall DEF ErrorLines
    <2>6. call' = [at |-> "ended", kind |-> call.kind, trace |-> call.trace, outcome |-> outcome,
                   lines |-> call.lines \o more]
        BY <2>2 DEF EndCall
    <2>7. call.lines \o more \in Seq(LogLine)
        BY <2>4, <2>5, ConcatProperties
    <2>8. CallLogsTypeOK'
        BY <1>1, <2>3, <2>5, <2>6, <2>7 DEF CallLogsInv, CallLogsTypeOK
    <2>9. Told' <=> Told
        BY <2>3, <2>6 DEF LevelOf
    <2>10. ASSUME Told
           PROVE  /\ ErrorLines' = {Len(call.lines) + 1}
                  /\ call'.lines[Len(call.lines) + 1].trace = call'.trace
                  /\ Len(call.lines) + 1 \in DOMAIN call'.lines
        <3>1. Len(more) = 1 /\ more[1].severity = "error" /\ more[1].trace = call.trace
            BY <2>4, <2>10
        <3>2. more \in Seq(LogLine)
            BY <2>4
        <3> DEFINE all == call.lines \o more
        <3>3. /\ {i \in DOMAIN all : all[i].severity = "error"} = {Len(call.lines) + 1}
              /\ all[Len(call.lines) + 1] = more[1] /\ Len(call.lines) + 1 \in DOMAIN all
            BY <2>5, <3>1, <3>2, OneErrorMore
        <3>4. call'.lines = all /\ call'.trace = call.trace
            BY <2>6
        <3> HIDE DEF all
        <3>5. QED BY <3>1, <3>3, <3>4 DEF ErrorLines
    <2>11. ASSUME ~Told PROVE ErrorLines' = {}
        <3>1. \A i \in DOMAIN more : more[i].severity # "error"
            BY <2>4, <2>11, OneLineNoError
        <3>2. QED BY <2>4, <2>5, <2>6, <3>1, NoErrorMore DEF ErrorLines
    <2>12. LevelOf(call.kind)' = LevelOf(call.kind)
        BY <2>3, <2>6 DEF LevelOf
    <2>13. FailuresTraced'
        BY <2>3, <2>6, <2>10, <2>11, <2>12 DEF FailuresTraced
    <2>14. QED BY <2>6, <2>8, <2>13 DEF CallLogsInv
<1>7. QED
    BY <1>1, <1>2, <1>4, <1>5, <1>6 DEF CallLogsNext, Dial, Process, ProcessPipeline

\* ... which the initial states satisfy.
LEMMA CallLogsStart == CallLogsInit => CallLogsInv
<1>1. SUFFICES ASSUME CallLogsInit PROVE CallLogsInv
    OBVIOUS
<1>2. \A i \in DOMAIN Severities : Severities[i] \in {"debug", "info", "warn", "error", "fatal"}
    BY DEF Severities
<1>3. CallLogsTypeOK
    BY <1>1, <1>2 DEF CallLogsInit, CallLogsTypeOK, GormLevel, FileLevel, AtWarn, AtInfo
<1>4. QED BY <1>1, <1>3 DEF CallLogsInit, CallLogsInv, FailuresTraced, NoCall

\* A failed call of Redis or of the database leaves exactly one error with the
\* trace id of its request in the log, unless errors are switched off, whatever
\* the levels are (redis/hook.go, database/logger.go, logger/logger.go).
THEOREM FailuresAreTraced == CallLogsSpec => []FailuresTraced
<1>1. CallLogsInv => FailuresTraced
    BY DEF CallLogsInv
<1>2. QED BY <1>1, CallLogsStart, CallLogsStep, PTL DEF CallLogsSpec

-----------------------------------------------------------------------------
(* Requests *)

\* What a request has met where it is, from its record alone.
LangOf(q) == IF q.header \in Langs THEN q.header ELSE DefaultLang

FitsDown(q) ==
    /\ q.answers = 0 /\ ~q.refused /\ ~q.ran
    /\ q.i >= 2 => q.localizer = LangOf(q)
    /\ q.i >= 3 => q.translator = LangOf(q)
    /\ q.i = 8 /\ q.asks => q.user

FitsUp(q) == q.i >= 5 /\ q.answers = 1 /\ ~(q.refused /\ q.ran) /\ q.localizer = q.translator

FitsPanic(q) == q.i = 8 /\ q.answers = 0 /\ ~q.refused /\ q.ran /\ q.localizer = q.translator

FitsDone(q) ==
    /\ \/ q.answers = 0 /\ q.ran /\ q.lines = {}
       \/ q.answers = 1 /\ (q.lines = {"request"} \/ q.lines = {"panic recovered"})
    /\ ~(q.refused /\ q.ran) /\ q.localizer = q.translator

Fits(q) ==
    /\ q.at = "down" => FitsDown(q)
    /\ q.at = "up" => FitsUp(q)
    /\ q.at \in {"panic", "broken pipe"} => FitsPanic(q)
    /\ q.at = "done" => FitsDone(q)

\* The period has let on no more requests than were counted, nor than the limit.
RequestsInv ==
    /\ RequestsTypeOK
    /\ letOn <= count /\ letOn <= Limit
    /\ \A c \in Clients : Fits(request[c])

\* The place of each middleware in the chain.
LEMMA ChainPlaces ==
    /\ DOMAIN Chain = 1 .. 8 /\ Len(Chain) = 8
    /\ Chain[1] = "i18n" /\ Chain[2] = "validator" /\ Chain[3] = "recovery" /\ Chain[4] = "logger"
    /\ Chain[5] = "cors" /\ Chain[6] = "limit" /\ Chain[7] = "auth" /\ Chain[8] = "handler"
BY DEF Chain

\* The record of a request on its way, field by field.
Fields ==
    {"at", "i", "header", "localizer", "translator", "asks", "user", "answers", "refused", "ran",
     "lines"}

LEMMA FieldsOf ==
    ASSUME NEW q \in OnItsWay
    PROVE  /\ DOMAIN q = Fields /\ q = [f \in Fields |-> q[f]]
           /\ q.at \in {"down", "up", "panic", "broken pipe"} /\ q.i \in DOMAIN Chain
           /\ q.header \in Langs \cup {"none"} /\ q.localizer \in Speaks /\ q.translator \in Speaks
           /\ q.asks \in BOOLEAN /\ q.user \in BOOLEAN /\ q.answers \in Nat
           /\ q.refused \in BOOLEAN /\ q.ran \in BOOLEAN /\ q.lines = {}
<1>1. DOMAIN q = Fields
    BY DEF OnItsWay, Fields
<1>2. q = [f \in DOMAIN q |-> q[f]]
    BY DEF OnItsWay
<1>3. QED BY <1>1, <1>2 DEF OnItsWay

LEMMA FromFields ==
    ASSUME NEW q, q = [f \in Fields |-> q[f]],
           q.at \in {"down", "up", "panic", "broken pipe"}, q.i \in DOMAIN Chain,
           q.header \in Langs \cup {"none"}, q.localizer \in Speaks, q.translator \in Speaks,
           q.asks \in BOOLEAN, q.user \in BOOLEAN, q.answers \in Nat,
           q.refused \in BOOLEAN, q.ran \in BOOLEAN, q.lines = {}
    PROVE  q \in OnItsWay
<1>1. q = [at |-> q.at, i |-> q.i, header |-> q.header, localizer |-> q.localizer,
           translator |-> q.translator, asks |-> q.asks, user |-> q.user, answers |-> q.answers,
           refused |-> q.refused, ran |-> q.ran, lines |-> q.lines]
    BY DEF Fields
<1>2. QED BY <1>1 DEF OnItsWay

\* The language a header asks for is one the server speaks.
LEMMA Speaking ==
    ASSUME NEW q \in OnItsWay
    PROVE  LangOf(q) \in Speaks
<1>1. q.header \in Langs \cup {"none"}
    BY FieldsOf
<1>2. QED BY <1>1 DEF LangOf, Speaks

\* A request neither free nor done is on its way.
LEMMA OnTheWay ==
    ASSUME RequestsTypeOK, NEW c \in Clients,
           request[c].at \in {"down", "up", "panic", "broken pipe"}
    PROVE  request[c] \in OnItsWay
<1>1. ASSUME NEW q \in {NoRequest} \cup OnItsWay \cup Ended,
             q.at \in {"down", "up", "panic", "broken pipe"}
      PROVE  q \in OnItsWay
    <2>1. NoRequest.at = "none"
        BY DEF NoRequest
    <2>2. q \notin Ended
        BY <1>1 DEF Ended
    <2>3. q # NoRequest
        BY <1>1, <2>1
    <2>4. QED BY <2>2, <2>3
<1>2. request[c] \in {NoRequest} \cup OnItsWay \cup Ended
    BY DEF RequestsTypeOK
<1>3. QED BY <1>1, <1>2

\* Where the middleware whose turn it is finds the request.
LEMMA TurnPlaces ==
    ASSUME RequestsTypeOK, NEW c \in Clients, NEW m, At(c, m)
    PROVE  /\ request[c] \in OnItsWay /\ request[c].at = "down" /\ request[c].i \in 1 .. 8
           /\ m = "i18n" => request[c].i = 1
           /\ m = "validator" => request[c].i = 2
           /\ m = "recovery" => request[c].i = 3
           /\ m = "logger" => request[c].i = 4
           /\ m = "cors" => request[c].i = 5
           /\ m = "limit" => request[c].i = 6
           /\ m = "auth" => request[c].i = 7
           /\ m = "handler" => request[c].i = 8
<1>1. request[c] \in OnItsWay /\ request[c].at = "down"
    BY OnTheWay DEF At
<1>2. request[c].i \in 1 .. 8
    BY <1>1, ChainPlaces DEF OnItsWay
<1>3. Chain[request[c].i] = m
    BY DEF At
<1>4. QED BY <1>1, <1>2, <1>3, ChainPlaces

\* What becomes of the record of a request: it goes on, ...
LEMMA OnFits ==
    ASSUME NEW q \in OnItsWay, q.at = "down", q.i \in 3 .. 6, Fits(q)
    PROVE  LET p == [q EXCEPT !.i = @ + 1] IN p \in OnItsWay /\ Fits(p)
<1> DEFINE p == [q EXCEPT !.i = @ + 1]
<1>1. q.i + 1 \in DOMAIN Chain
    BY ChainPlaces
<1>2. p = [f \in Fields |-> p[f]]
    BY FieldsOf
<1>3. /\ p.at = q.at /\ p.i = q.i + 1 /\ p.header = q.header
      /\ p.localizer = q.localizer /\ p.translator = q.translator /\ p.asks = q.asks
      /\ p.user = q.user /\ p.answers = q.answers /\ p.refused = q.refused
      /\ p.ran = q.ran /\ p.lines = q.lines
    BY FieldsOf DEF Fields
<1> HIDE DEF p
<1>4. p \in OnItsWay
    BY <1>1, <1>2, <1>3, FieldsOf, FromFields
<1>5. Fits(p)
    BY <1>1, <1>3 DEF Fits, FitsDown, LangOf
<1>6. QED BY <1>4, <1>5 DEF p

\* ... is given a localizer or a translator, ...
LEMMA LocalizerFits ==
    ASSUME NEW q \in OnItsWay, q.at = "down", q.i = 1, Fits(q)
    PROVE  LET p == [q EXCEPT !.i = @ + 1, !.localizer = LangOf(q)] IN p \in OnItsWay /\ Fits(p)
<1> DEFINE p == [q EXCEPT !.i = @ + 1, !.localizer = LangOf(q)]
<1>1. q.i + 1 \in DOMAIN Chain /\ LangOf(q) \in Speaks
    BY ChainPlaces, Speaking
<1>2. p = [f \in Fields |-> p[f]]
    BY FieldsOf
<1>3. /\ p.at = q.at /\ p.i = q.i + 1 /\ p.header = q.header /\ p.localizer = LangOf(q)
      /\ p.translator = q.translator /\ p.asks = q.asks /\ p.user = q.user
      /\ p.answers = q.answers /\ p.refused = q.refused /\ p.ran = q.ran
      /\ p.lines = q.lines
    BY FieldsOf DEF Fields
<1> HIDE DEF p
<1>4. p \in OnItsWay
    BY <1>1, <1>2, <1>3, FieldsOf, FromFields
<1>5. Fits(p)
    BY <1>1, <1>3 DEF Fits, FitsDown, LangOf
<1>6. QED BY <1>4, <1>5 DEF p

LEMMA TranslatorFits ==
    ASSUME NEW q \in OnItsWay, q.at = "down", q.i = 2, Fits(q)
    PROVE  LET p == [q EXCEPT !.i = @ + 1, !.translator = LangOf(q)] IN p \in OnItsWay /\ Fits(p)
<1> DEFINE p == [q EXCEPT !.i = @ + 1, !.translator = LangOf(q)]
<1>1. q.i + 1 \in DOMAIN Chain /\ LangOf(q) \in Speaks
    BY ChainPlaces, Speaking
<1>2. p = [f \in Fields |-> p[f]]
    BY FieldsOf
<1>3. /\ p.at = q.at /\ p.i = q.i + 1 /\ p.header = q.header
      /\ p.localizer = q.localizer /\ p.translator = LangOf(q) /\ p.asks = q.asks
      /\ p.user = q.user /\ p.answers = q.answers /\ p.refused = q.refused
      /\ p.ran = q.ran /\ p.lines = q.lines
    BY FieldsOf DEF Fields
<1> HIDE DEF p
<1>4. p \in OnItsWay
    BY <1>1, <1>2, <1>3, FieldsOf, FromFields
<1>5. Fits(p)
    BY <1>1, <1>3 DEF Fits, FitsDown, LangOf
<1>6. QED BY <1>4, <1>5 DEF p

\* ... comes to its handler, with its user if that asks for it, ...
LEMMA GuardedFits ==
    ASSUME NEW q \in OnItsWay, q.at = "down", q.i = 7, Fits(q), NEW asks \in BOOLEAN
    PROVE  LET p == [q EXCEPT !.i = @ + 1, !.user = TRUE, !.asks = asks] IN p \in OnItsWay /\ Fits(p)
<1> DEFINE p == [q EXCEPT !.i = @ + 1, !.user = TRUE, !.asks = asks]
<1>1. q.i + 1 \in DOMAIN Chain
    BY ChainPlaces
<1>2. p = [f \in Fields |-> p[f]]
    BY FieldsOf
<1>3. /\ p.at = q.at /\ p.i = q.i + 1 /\ p.header = q.header
      /\ p.localizer = q.localizer /\ p.translator = q.translator /\ p.asks = asks
      /\ p.user = TRUE /\ p.answers = q.answers /\ p.refused = q.refused
      /\ p.ran = q.ran /\ p.lines = q.lines
    BY FieldsOf DEF Fields
<1> HIDE DEF p
<1>4. p \in OnItsWay
    <2>1. p.user \in BOOLEAN /\ p.asks \in BOOLEAN
        BY <1>3, Zenon
    <2>2. QED BY <1>1, <1>2, <1>3, <2>1, FieldsOf, FromFields
<1>5. Fits(p)
    BY <1>1, <1>3 DEF Fits, FitsDown, LangOf
<1>6. QED BY <1>4, <1>5 DEF p

LEMMA OpenFits ==
    ASSUME NEW q \in OnItsWay, q.at = "down", q.i = 7, Fits(q)
    PROVE  LET p == [q EXCEPT !.i = @ + 1, !.asks = FALSE] IN p \in OnItsWay /\ Fits(p)
<1> DEFINE p == [q EXCEPT !.i = @ + 1, !.asks = FALSE]
<1>1. q.i + 1 \in DOMAIN Chain
    BY ChainPlaces
<1>2. p = [f \in Fields |-> p[f]]
    BY FieldsOf
<1>3. /\ p.at = q.at /\ p.i = q.i + 1 /\ p.header = q.header
      /\ p.localizer = q.localizer /\ p.translator = q.translator /\ p.asks = FALSE
      /\ p.user = q.user /\ p.answers = q.answers /\ p.refused = q.refused
      /\ p.ran = q.ran /\ p.lines = q.lines
    BY FieldsOf DEF Fields
<1> HIDE DEF p
<1>4. p \in OnItsWay
    <2>1. p.asks \in BOOLEAN
        BY <1>3, Zenon
    <2>2. QED BY <1>1, <1>2, <1>3, <2>1, FieldsOf, FromFields
<1>5. Fits(p)
    BY <1>1, <1>3 DEF Fits, FitsDown, LangOf
<1>6. QED BY <1>4, <1>5 DEF p

\* ... is refused, ...
LEMMA RefusedFits ==
    ASSUME NEW q \in OnItsWay, q.at = "down", q.i \in 5 .. 7, Fits(q)
    PROVE  LET p == [q EXCEPT !.answers = @ + 1, !.at = "up", !.refused = TRUE] IN p \in OnItsWay /\ Fits(p)
<1> DEFINE p == [q EXCEPT !.answers = @ + 1, !.at = "up", !.refused = TRUE]
<1>1. q.answers = 0 /\ ~q.ran /\ q.localizer = q.translator
    BY DEF Fits, FitsDown
<1>2. p = [f \in Fields |-> p[f]]
    BY FieldsOf
<1>3. /\ p.at = "up" /\ p.i = q.i /\ p.header = q.header /\ p.localizer = q.localizer
      /\ p.translator = q.translator /\ p.asks = q.asks /\ p.user = q.user
      /\ p.answers = q.answers + 1 /\ p.refused = TRUE /\ p.ran = q.ran
      /\ p.lines = q.lines
    BY FieldsOf DEF Fields
<1> HIDE DEF p
<1>4. p \in OnItsWay
    <2>1. p.refused \in BOOLEAN
        BY <1>3, Zenon
    <2>2. p.answers \in Nat /\ p.at \in {"down", "up", "panic", "broken pipe"}
        BY <1>1, <1>3
    <2>3. QED BY <1>2, <1>3, <2>1, <2>2, FieldsOf, FromFields
<1>5. Fits(p)
    BY <1>1, <1>3 DEF Fits, FitsUp
<1>6. QED BY <1>4, <1>5 DEF p

\* At the handler nothing has been answered or refused.
LEMMA AtHandler ==
    ASSUME NEW q \in OnItsWay, q.at = "down", q.i = 8, Fits(q)
    PROVE  q.answers = 0 /\ ~q.refused /\ q.localizer = q.translator
BY DEF Fits, FitsDown

\* ... is answered by its handler, or lost in it, ...
LEMMA AnsweredFits ==
    ASSUME NEW q \in OnItsWay, q.at = "down", q.i = 8, Fits(q)
    PROVE  LET p == [q EXCEPT !.answers = @ + 1, !.at = "up", !.ran = TRUE] IN p \in OnItsWay /\ Fits(p)
<1> DEFINE p == [q EXCEPT !.answers = @ + 1, !.at = "up", !.ran = TRUE]
<1>1. q.answers = 0 /\ ~q.refused /\ q.localizer = q.translator
    BY AtHandler
<1>2. p = [f \in Fields |-> p[f]]
    BY FieldsOf
<1>3. /\ p.at = "up" /\ p.i = q.i /\ p.header = q.header /\ p.localizer = q.localizer
      /\ p.translator = q.translator /\ p.asks = q.asks /\ p.user = q.user
      /\ p.answers = q.answers + 1 /\ p.refused = q.refused /\ p.ran = TRUE
      /\ p.lines = q.lines
    BY FieldsOf DEF Fields
<1> HIDE DEF p
<1>4. p \in OnItsWay
    <2>1. p.ran \in BOOLEAN
        BY <1>3, Zenon
    <2>2. p.answers \in Nat /\ p.at \in {"down", "up", "panic", "broken pipe"}
        BY <1>1, <1>3
    <2>3. QED BY <1>2, <1>3, <2>1, <2>2, FieldsOf, FromFields
<1>5. Fits(p)
    BY <1>1, <1>3 DEF Fits, FitsUp
<1>6. QED BY <1>4, <1>5 DEF p

LEMMA PanicFits ==
    ASSUME NEW q \in OnItsWay, q.at = "down", q.i = 8, Fits(q),
           NEW how \in {"panic", "broken pipe"}
    PROVE  LET p == [q EXCEPT !.ran = TRUE, !.at = how] IN p \in OnItsWay /\ Fits(p)
<1> DEFINE p == [q EXCEPT !.ran = TRUE, !.at = how]
<1>1. q.answers = 0 /\ ~q.refused /\ q.localizer = q.translator
    BY AtHandler
<1>2. p = [f \in Fields |-> p[f]]
    BY FieldsOf
<1>3. /\ p.at = how /\ p.i = q.i /\ p.header = q.header /\ p.localizer = q.localizer
      /\ p.translator = q.translator /\ p.asks = q.asks /\ p.user = q.user
      /\ p.answers = q.answers /\ p.refused = q.refused /\ p.ran = TRUE
      /\ p.lines = q.lines
    BY FieldsOf DEF Fields
<1> HIDE DEF p
<1>4. p \in OnItsWay
    BY <1>1, <1>2, <1>3, FieldsOf, FromFields
<1>5. Fits(p)
    BY <1>1, <1>3 DEF Fits, FitsPanic
<1>6. QED BY <1>4, <1>5 DEF p

\* ... and has come to its end.
LEMMA DoneFits ==
    ASSUME NEW q \in OnItsWay, NEW answers \in Nat, NEW lines \in SUBSET {"request", "panic recovered"},
           \/ answers = 0 /\ q.ran /\ lines = {}
           \/ answers = 1 /\ (lines = {"request"} \/ lines = {"panic recovered"}),
           ~(q.refused /\ q.ran), q.localizer = q.translator
    PROVE  LET p == [at |-> "done", answers |-> answers, lines |-> lines, refused |-> q.refused,
                     ran |-> q.ran, localizer |-> q.localizer, translator |-> q.translator] IN
           p \in Ended /\ Fits(p)
<1> DEFINE p == [at |-> "done", answers |-> answers, lines |-> lines, refused |-> q.refused,
                 ran |-> q.ran, localizer |-> q.localizer, translator |-> q.translator]
<1>1. p \in Ended
    <2>1. q.refused \in BOOLEAN /\ q.ran \in BOOLEAN /\ q.localizer \in Speaks /\ q.translator \in Speaks
        BY FieldsOf
    <2>2. QED BY <2>1 DEF Ended
<1>2. /\ p.at = "done" /\ p.localizer = q.localizer /\ p.translator = q.translator
      /\ p.answers = answers /\ p.refused = q.refused /\ p.ran = q.ran /\ p.lines = lines
    OBVIOUS
<1> HIDE DEF p
<1>3. FitsDone(p)
    BY <1>2, Zenon DEF FitsDone
<1>. Fits(p)
    BY <1>2, <1>3 DEF Fits
<1>4. QED BY <1>1, <1>3 DEF p

\* The step up to the counters, which only the limiter touches.
RequestsKept ==
    /\ request' \in [Clients -> {NoRequest} \cup OnItsWay \cup Ended]
    /\ \A d \in Clients : Fits(request'[d])

\* A step of one request leaves the others alone.
LEMMA RequestReplaced ==
    ASSUME RequestsInv, NEW c \in Clients, NEW q \in OnItsWay \cup Ended, Fits(q),
           request' = [request EXCEPT ![c] = q]
    PROVE  RequestsKept
<1>1. DOMAIN request = Clients /\ \A d \in Clients : request[d] \in {NoRequest} \cup OnItsWay \cup Ended
    BY DEF RequestsInv, RequestsTypeOK
<1>2. \A d \in Clients : request'[d] = IF d = c THEN q ELSE request[d]
    BY <1>1
<1>3. \A d \in Clients : request'[d] \in {NoRequest} \cup OnItsWay \cup Ended /\ Fits(request'[d])
    BY <1>1, <1>2 DEF RequestsInv
<1>4. request' \in [Clients -> {NoRequest} \cup OnItsWay \cup Ended]
    BY <1>1, <1>3
<1>5. QED BY <1>3, <1>4 DEF RequestsKept

\* The middlewares that only pass a request on keep the invariant, ...
LEMMA GoesOn ==
    ASSUME RequestsInv, NEW c \in Clients, NEW m \in {"recovery", "logger", "cors", "limit"},
           At(c, m), request' = On(c)
    PROVE  RequestsKept
<1>1. /\ request[c] \in OnItsWay /\ request[c].at = "down" /\ request[c].i \in 3 .. 6
      /\ Fits(request[c])
    BY TurnPlaces DEF RequestsInv
<1> DEFINE q == request[c]
           p == [q EXCEPT !.i = @ + 1]
<1>2. request' = [request EXCEPT ![c] = p]
    BY DEF On
<1> HIDE DEF q
<1>3. p \in OnItsWay /\ Fits(p)
    BY <1>1, OnFits DEF q
<1> HIDE DEF p
<1>4. QED BY <1>2, <1>3, RequestReplaced

\* ... and so do those that refuse one.
LEMMA IsRefused ==
    ASSUME RequestsInv, NEW c \in Clients, NEW m \in {"cors", "limit", "auth"},
           At(c, m), request' = Refuse(c)
    PROVE  RequestsKept
<1>1. /\ request[c] \in OnItsWay /\ request[c].at = "down" /\ request[c].i \in 5 .. 7
      /\ Fits(request[c])
    BY TurnPlaces DEF RequestsInv
<1> DEFINE q == request[c]
           p == [q EXCEPT !.answers = @ + 1, !.at = "up", !.refused = TRUE]
<1>2. request' = [request EXCEPT ![c] = p]
    BY DEF Refuse, HttpResponse, RequestsInv, RequestsTypeOK
<1> HIDE DEF q
<1>3. p \in OnItsWay /\ Fits(p)
    BY <1>1, RefusedFits DEF q
<1> HIDE DEF p
<1>4. QED BY <1>2, <1>3, RequestReplaced

\* Every step of the requests keeps the invariant, ...
LEMMA RequestsStep == RequestsInv /\ [RequestsNext]_requestsVars => RequestsInv'
<1>1. SUFFICES ASSUME RequestsInv, [RequestsNext]_requestsVars PROVE RequestsInv'
    OBVIOUS
<1> USE RequestsAssumption
<1>2. RequestsTypeOK /\ DOMAIN request = Clients
    BY <1>1 DEF RequestsInv, RequestsTypeOK
<1>3. CASE UNCHANGED requestsVars
    BY <1>1, <1>3 DEF requestsVars, RequestsInv, RequestsTypeOK
<1>4. ASSUME RequestsKept, UNCHANGED <<count, letOn>> PROVE RequestsInv'
    BY <1>1, <1>4 DEF RequestsKept, RequestsInv, RequestsTypeOK
<1>5. CASE PeriodEnds
    BY <1>1, <1>5 DEF PeriodEnds, RequestsInv, RequestsTypeOK
<1>6. ASSUME NEW c \in Clients, Arrive(c) PROVE RequestsInv'
    <2>1. PICK header \in Langs \cup {"none"} : request' = [request EXCEPT ![c] =
            [at |-> "down", i |-> 1, header |-> header,
             localizer |-> "none", translator |-> "none",
             asks |-> FALSE, user |-> FALSE,
             answers |-> 0, refused |-> FALSE, ran |-> FALSE, lines |-> {}]]
        BY <1>6 DEF Arrive
    <2> DEFINE q == [at |-> "down", i |-> 1, header |-> header,
                     localizer |-> "none", translator |-> "none",
                     asks |-> FALSE, user |-> FALSE,
                     answers |-> 0, refused |-> FALSE, ran |-> FALSE, lines |-> {}]
    <2>2. q \in OnItsWay
        BY ChainPlaces DEF OnItsWay, Speaks
    <2>3. Fits(q)
        BY DEF Fits, FitsDown
    <2>4. request' = [request EXCEPT ![c] = q] /\ UNCHANGED <<count, letOn>>
        BY <1>6, <2>1 DEF Arrive
    <2> HIDE DEF q
    <2>5. RequestsKept
        BY <1>1, <2>2, <2>3, <2>4, RequestReplaced
    <2>6. QED BY <1>4, <2>4, <2>5
<1>7. ASSUME NEW c \in Clients, I18n(c) PROVE RequestsInv'
    <2> DEFINE q == request[c]
               p == [q EXCEPT !.i = @ + 1, !.localizer = LangOf(q)]
    <2>1. q \in OnItsWay /\ q.at = "down" /\ q.i = 1 /\ Fits(q)
        BY <1>1, <1>2, <1>7, TurnPlaces DEF I18n, RequestsInv
    <2>2. request' = [request EXCEPT ![c] = p] /\ UNCHANGED <<count, letOn>>
        BY <1>2, <1>7 DEF I18n, On, Lang, LangOf
    <2> HIDE DEF q
    <2>3. p \in OnItsWay /\ Fits(p)
        BY <2>1, LocalizerFits
    <2> HIDE DEF p
    <2>4. RequestsKept
        BY <1>1, <2>2, <2>3, RequestReplaced
    <2>5. QED BY <1>4, <2>2, <2>4
<1>8. ASSUME NEW c \in Clients, Validator(c) PROVE RequestsInv'
    <2> DEFINE q == request[c]
               p == [q EXCEPT !.i = @ + 1, !.translator = LangOf(q)]
    <2>1. q \in OnItsWay /\ q.at = "down" /\ q.i = 2 /\ Fits(q)
        BY <1>1, <1>2, <1>8, TurnPlaces DEF Validator, RequestsInv
    <2>2. request' = [request EXCEPT ![c] = p] /\ UNCHANGED <<count, letOn>>
        BY <1>2, <1>8 DEF Validator, On, TranslatorLang, Lang, LangOf
    <2> HIDE DEF q
    <2>3. p \in OnItsWay /\ Fits(p)
        BY <2>1, TranslatorFits
    <2> HIDE DEF p
    <2>4. RequestsKept
        BY <1>1, <2>2, <2>3, RequestReplaced
    <2>5. QED BY <1>4, <2>2, <2>4
<1>9. ASSUME NEW c \in Clients, Recovery(c) \/ Logger(c) PROVE RequestsInv'
    <2>1. RequestsKept
        BY <1>1, <1>9, GoesOn DEF Recovery, Logger
    <2>2. QED BY <1>4, <1>9, <2>1 DEF Recovery, Logger
<1>10. ASSUME NEW c \in Clients, Cors(c) PROVE RequestsInv'
    <2>1. At(c, "cors") /\ (request' = On(c) \/ request' = Refuse(c)) /\ UNCHANGED <<count, letOn>>
        BY <1>10 DEF Cors
    <2>2. RequestsKept
        BY <1>1, <2>1, GoesOn, IsRefused
    <2>3. QED BY <1>4, <2>1, <2>2
<1>11. ASSUME NEW c \in Clients, RateLimit(c) PROVE RequestsInv'
    <2>1. At(c, "limit") /\ (request' = On(c) \/ request' = Refuse(c))
        BY <1>11 DEF RateLimit
    <2>2. RequestsKept
        BY <1>1, <2>1, GoesOn, IsRefused
    <2>3. /\ count < MaxCount
          /\ \/ count' \in {count, count + 1} /\ letOn' = letOn
             \/ count' = count + 1 /\ letOn' = letOn + 1 /\ count + 1 <= Limit
        <3>1. count \in Nat
            BY <1>2 DEF RequestsTypeOK
        <3>2. QED BY <1>11, <3>1 DEF RateLimit, Reached
    <2>4. QED BY <1>1, <2>2, <2>3 DEF RequestsKept, RequestsInv, RequestsTypeOK
<1>12. ASSUME NEW c \in Clients, Route(c) PROVE RequestsInv'
    <2> DEFINE q == request[c]
    <2>1. At(c, "auth") /\ UNCHANGED <<count, letOn>>
        BY <1>12 DEF Route
    <2>2. q \in OnItsWay /\ q.at = "down" /\ q.i = 7 /\ Fits(q)
        BY <1>1, <1>2, <2>1, TurnPlaces DEF RequestsInv
    <2>3. CASE request' = Refuse(c)
        BY <1>1, <1>4, <2>1, <2>3, IsRefused
    <2>4. ASSUME NEW asks \in BOOLEAN, request' = [On(c) EXCEPT ![c].user = TRUE, ![c].asks = asks]
          PROVE  RequestsInv'
        <3> DEFINE p == [q EXCEPT !.i = @ + 1, !.user = TRUE, !.asks = asks]
        <3>1. request' = [request EXCEPT ![c] = p]
            BY <1>2, <2>4 DEF On
        <3> HIDE DEF q
        <3>2. p \in OnItsWay /\ Fits(p)
            BY <2>2, GuardedFits
        <3> HIDE DEF p
        <3>3. RequestsKept
            BY <1>1, <3>1, <3>2, RequestReplaced
        <3>4. QED BY <1>4, <2>1, <3>3
    <2>5. ASSUME request' = [On(c) EXCEPT ![c].asks = FALSE] PROVE RequestsInv'
        <3> DEFINE p == [q EXCEPT !.i = @ + 1, !.asks = FALSE]
        <3>1. request' = [request EXCEPT ![c] = p]
            BY <1>2, <2>5 DEF On
        <3> HIDE DEF q
        <3>2. p \in OnItsWay /\ Fits(p)
            BY <2>2, OpenFits
        <3> HIDE DEF p
        <3>3. RequestsKept
            BY <1>1, <3>1, <3>2, RequestReplaced
        <3>4. QED BY <1>4, <2>1, <3>3
    <2>6. CASE JWTAuth(c)
        <3>1. PICK h : \/ request' = [On(c) EXCEPT ![c].user = TRUE, ![c].asks = h \in CurrentUserAsked]
                       \/ request' = Refuse(c)
            BY <2>6, Zenon DEF JWTAuth
        <3>2. (h \in CurrentUserAsked) \in BOOLEAN
            OBVIOUS
        <3>3. QED BY <2>3, <2>4, <3>1, <3>2, Zenon
    <2>7. CASE OpenRoute(c)
        <3>1. \A registrar \in V1Registrars : \A h \in registrar.open : h \notin CurrentUserAsked
            BY DEF V1Registrars, HealthRoutes, CronJobRoutes, AuthRoutes, CaptchaRoutes, UserRoutes,
                   CurrentUserAsked
        <3>2. PICK registrar \in V1Registrars : \E h \in registrar.open :
                request' = [On(c) EXCEPT ![c].asks = h \in CurrentUserAsked]
            BY <2>7 DEF OpenRoute
        <3>. PICK h \in registrar.open : request' = [On(c) EXCEPT ![c].asks = h \in CurrentUserAsked]
            BY <3>2
        <3>3. (h \in CurrentUserAsked) = FALSE
            BY <3>1
        <3>4. QED BY <2>5, <3>3
    <2>8. QED BY <1>12, <2>6, <2>7 DEF Route
<1>13. ASSUME NEW c \in Clients, Handle(c) PROVE RequestsInv'
    <2> DEFINE q == request[c]
    <2>1. At(c, "handler") /\ UNCHANGED <<count, letOn>>
        BY <1>13 DEF Handle
    <2>2. q \in OnItsWay /\ q.at = "down" /\ q.i = 8 /\ Fits(q)
        BY <1>1, <1>2, <2>1, TurnPlaces DEF RequestsInv
    <2>3. PICK p : /\ request' = [request EXCEPT ![c] = p]
                   /\ \/ p = [q EXCEPT !.answers = @ + 1, !.at = "up", !.ran = TRUE]
                      \/ p = [q EXCEPT !.ran = TRUE, !.at = "panic"]
                      \/ p = [q EXCEPT !.ran = TRUE, !.at = "broken pipe"]
        <3>1. CASE request' = [HttpResponse(c) EXCEPT ![c].ran = TRUE]
            <4>1. request' = [request EXCEPT ![c] =
                                [q EXCEPT !.answers = @ + 1, !.at = "up", !.ran = TRUE]]
                BY <1>2, <3>1 DEF HttpResponse
            <4>2. QED BY <4>1
        <3>2. CASE request' = [request EXCEPT ![c].ran = TRUE, ![c].at = "panic"]
            <4>1. request' = [request EXCEPT ![c] = [q EXCEPT !.ran = TRUE, !.at = "panic"]]
                BY <1>2, <3>2
            <4>2. QED BY <4>1
        <3>3. CASE request' = [request EXCEPT ![c].ran = TRUE, ![c].at = "broken pipe"]
            <4>1. request' = [request EXCEPT ![c] = [q EXCEPT !.ran = TRUE, !.at = "broken pipe"]]
                BY <1>2, <3>3
            <4>2. QED BY <4>1
        <3>4. QED BY <1>13, <3>1, <3>2, <3>3 DEF Handle
    <2> HIDE DEF q
    <2>4. p \in OnItsWay /\ Fits(p)
        BY <2>2, <2>3, AnsweredFits, PanicFits
    <2>5. RequestsKept
        BY <1>1, <2>3, <2>4, RequestReplaced
    <2>6. QED BY <1>4, <2>1, <2>5
<1>14. ASSUME NEW c \in Clients, NEW answers \in Nat, NEW lines \in SUBSET {"request", "panic recovered"},
              request[c] \in OnItsWay, Done(c, answers, lines),
              \/ answers = 0 /\ request[c].ran /\ lines = {}
              \/ answers = 1 /\ (lines = {"request"} \/ lines = {"panic recovered"}),
              ~(request[c].refused /\ request[c].ran), request[c].localizer = request[c].translator
       PROVE  RequestsKept
    <2> DEFINE q == request[c]
               p == [at |-> "done", answers |-> answers, lines |-> lines, refused |-> q.refused,
                     ran |-> q.ran, localizer |-> q.localizer, translator |-> q.translator]
    <2>1. request' = [request EXCEPT ![c] = p]
        BY <1>14 DEF Done
    <2> HIDE DEF q
    <2>2. p \in Ended /\ Fits(p)
        BY <1>14, DoneFits, Zenon DEF q
    <2> HIDE DEF p
    <2>3. QED BY <1>1, <2>1, <2>2, RequestReplaced
<1>15. ASSUME NEW c \in Clients, Return(c) PROVE RequestsInv'
    <2>1. request[c] \in OnItsWay /\ request[c].at = "up" /\ UNCHANGED <<count, letOn>>
        BY <1>2, <1>15, OnTheWay DEF Return
    <2>2. FitsUp(request[c])
        BY <1>1, <2>1 DEF RequestsInv, Fits
    <2>3. Passed(c, "logger")
        <3>. request[c].i \in 1 .. 8
            BY <2>1, FieldsOf, ChainPlaces
        <3>1. 4 \in 1 .. request[c].i
            BY <2>2 DEF FitsUp
        <3>2. QED BY <3>1, ChainPlaces DEF Passed
    <2>4. Done(c, 1, {"request"})
        BY <1>15, <2>2, <2>3 DEF Return, FitsUp
    <2>5. RequestsKept
        BY <1>14, <2>1, <2>2, <2>4 DEF FitsUp
    <2>6. QED BY <1>4, <2>1, <2>5
<1>16. ASSUME NEW c \in Clients, Recover(c) PROVE RequestsInv'
    <2>1. request[c] \in OnItsWay /\ request[c].at \in {"panic", "broken pipe"} /\ UNCHANGED <<count, letOn>>
        BY <1>2, <1>16, OnTheWay DEF Recover
    <2>2. FitsPanic(request[c])
        BY <1>1, <2>1 DEF RequestsInv, Fits
    <2>3. CASE request[c].at = "panic"
        <3>1. Done(c, 1, {"panic recovered"})
            <4>1. request[c].answers + 1 = 1
                BY <2>2 DEF FitsPanic
            <4>2. QED BY <1>16, <2>3, <4>1 DEF Recover
        <3>. {"panic recovered"} \in SUBSET {"request", "panic recovered"} /\ 1 \in Nat
            OBVIOUS
        <3>2. RequestsKept
            BY <1>14, <2>1, <2>2, <3>1, Zenon DEF FitsPanic
        <3>3. QED BY <1>4, <2>1, <3>2
    <2>4. CASE request[c].at # "panic"
        <3>1. Done(c, 0, {})
            BY <1>16, <2>2, <2>4 DEF Recover, FitsPanic
        <3>. {} \in SUBSET {"request", "panic recovered"} /\ 0 \in Nat
            OBVIOUS
        <3>2. RequestsKept
            BY <1>14, <2>1, <2>2, <3>1, Zenon DEF FitsPanic
        <3>3. QED BY <1>4, <2>1, <3>2
    <2>5. QED BY <2>3, <2>4
<1>17. QED
    BY <1>1, <1>3, <1>5, <1>6, <1>7, <1>8, <1>9, <1>10, <1>11, <1>12, <1>13, <1>15, <1>16
       DEF RequestsNext, RequestStep

\* ... which gives the properties the runs check, ...
LEMMA RequestsMean == RequestsInv => RequestsTypeOK /\ RequestsSafe
<1>1. SUFFICES ASSUME RequestsInv PROVE RequestsSafe
    BY DEF RequestsInv
<1>2. \A c \in Clients : Finished(c) => FitsDone(request[c])
    BY <1>1 DEF RequestsInv, Fits, Finished
<1>3. OneAnswer
    <2>1. ASSUME NEW q, FitsDone(q)
          PROVE  /\ q.answers = 1 \/ (q.ran /\ q.lines = {})
                 /\ q.answers <= 1
                 /\ ~(q.refused /\ q.ran)
        <3>1. q.answers \in {0, 1}
            BY <2>1 DEF FitsDone
        <3>2. q.answers = 1 \/ (q.ran /\ q.lines = {})
            BY <2>1, Zenon DEF FitsDone
        <3>3. ~(q.refused /\ q.ran)
            BY <2>1, Zenon DEF FitsDone
        <3>4. q.answers <= 1
            BY <3>1
        <3>5. QED BY <3>2, <3>3, <3>4
    <2>2. QED BY <1>2, <2>1, Zenon DEF OneAnswer
<1>4. EveryRequestLogged
    <2>1. ASSUME NEW q, FitsDone(q), q.answers > 0
          PROVE  \E line \in {"request", "panic recovered"} : q.lines = {line}
        <3>1. q.answers # 0
            BY <2>1
        <3>2. q.lines = {"request"} \/ q.lines = {"panic recovered"}
            BY <2>1, <3>1, Zenon DEF FitsDone
        <3>3. QED BY <3>2
    <2>2. QED BY <1>2, <2>1, Zenon DEF EveryRequestLogged
<1>5. OneLanguage
    BY <1>2 DEF OneLanguage, FitsDone
<1>6. LimitHolds
    BY <1>1 DEF RequestsInv, LimitHolds
<1>7. UserKnown
    <2>1. \A c \in Clients : At(c, "handler") => FitsDown(request[c]) /\ request[c].i = 8
        BY <1>1, TurnPlaces DEF RequestsInv, Fits
    <2>2. QED BY <2>1 DEF UserKnown, FitsDown, CurrentUserID
<1>8. QED BY <1>3, <1>4, <1>5, <1>6, <1>7 DEF RequestsSafe

\* ... and which the initial states satisfy.
LEMMA RequestsStart == RequestsInit => RequestsInv
<1>1. SUFFICES ASSUME RequestsInit PROVE RequestsInv
    OBVIOUS
<1>2. RequestsTypeOK
    BY <1>1, RequestsAssumption DEF RequestsInit, RequestsTypeOK
<1>3. NoRequest.at = "none"
    BY DEF NoRequest
<1>4. Fits(NoRequest)
    BY <1>3 DEF Fits
<1>5. QED BY <1>1, <1>2, <1>4, RequestsAssumption DEF RequestsInit, RequestsInv

\* However many requests overlap, each is answered once, by whoever refuses it or
\* by its handler or Recovery, has its line in the log and one language, and
\* knows its user where the handler asks; no period admits more than the limit
\* (router.go, middleware/*.go, response.go).
THEOREM RequestsHold == RequestsSpec => []RequestsSafe
BY RequestsMean, RequestsStart, RequestsStep, PTL DEF RequestsSpec

-----------------------------------------------------------------------------
(* Startup *)

\* How many steps of its plan a process has taken, and which.
Taken(q) == Len(Plan(q.entry)) - Len(q.todo)

HasTaken(q, step) == \E i \in 1 .. Taken(q) : Plan(q.entry)[i] = step

HasSecret(cfg) == LocalSecret \/ cfg["jwt.secret"].from = "remote"

\* A process that comes up: what it holds is what it has opened, and what it has
\* read is the configuration of its environment and the remote key, unless that
\* was written since it began.
OpeningFits(q) ==
    /\ Taken(q) \in Nat
    /\ \A i \in 1 .. Len(q.todo) : q.todo[i] = Plan(q.entry)[Taken(q) + i]
    /\ q.open = {r \in Resources : HasTaken(q, r)}
    /\ q.boot = Local(q.env)
    /\ q.since <= remote.write
    /\ HasTaken(q, "config") /\ q.since = remote.write => q.cfg = MergeRemote(q.env)
    /\ HasTaken(q, "jwt") => HasSecret(q.cfg)

\* One that closes: what it still holds is what it has yet to close or could not.
ClosingFits(q, left) ==
    /\ \A i, j \in DOMAIN q.todo : q.todo[i] = q.todo[j] => i = j
    /\ q.open = left \cup {q.todo[i] : i \in DOMAIN q.todo}
    /\ \A i \in DOMAIN q.todo : q.todo[i] \notin left

ProcFits(q, left) ==
    /\ q.at = "opening" => OpeningFits(q)
    /\ IF q.at = "closing" THEN ClosingFits(q, left) ELSE left = {}

StartupInv == StartupTypeOK /\ \A p \in Procs : ProcFits(proc[p], unclosed[p])

\* The plan of every entry opens the configuration second and the JWT secret, if at all, fifth.
LEMMA PlanShape ==
    ASSUME NEW entry \in Entries
    PROVE  /\ Plan(entry) \in Seq(Steps) /\ Len(Plan(entry)) \in Nat
           /\ DOMAIN Plan(entry) = 1 .. Len(Plan(entry)) /\ Len(Plan(entry)) >= 3
           /\ \A i \in DOMAIN Plan(entry) : Plan(entry)[i] = "config" <=> i = 2
           /\ \A i \in DOMAIN Plan(entry) : Plan(entry)[i] = "jwt" => i = 5
           /\ entry = "server" => \E i \in DOMAIN Plan(entry) : Plan(entry)[i] = "jwt"
<1>1. CASE entry = "server"
    BY <1>1 DEF Plan, ServerPlan, Steps, Resources
<1>2. CASE entry = "cli"
    BY <1>2 DEF Plan, CliPlan, Steps, Resources
<1>3. CASE entry = "gen"
    BY <1>3 DEF Plan, GenPlan, Steps, Resources
<1>4. QED BY <1>1, <1>2, <1>3 DEF Entries

\* The close order of every entry lists, once each, what its plan opens.
LEMMA CloseShape ==
    ASSUME NEW entry \in Entries
    PROVE  /\ CloseOrder(entry) \in Seq(Resources)
           /\ \A i, j \in DOMAIN CloseOrder(entry) : CloseOrder(entry)[i] = CloseOrder(entry)[j] => i = j
           /\ {CloseOrder(entry)[i] : i \in DOMAIN CloseOrder(entry)} =
                {r \in Resources : \E i \in DOMAIN Plan(entry) : Plan(entry)[i] = r}
<1>1. CASE entry = "server"
    BY <1>1 DEF Plan, ServerPlan, CloseOrder, ServerOrder, Resources
<1>2. CASE entry = "cli"
    BY <1>2 DEF Plan, CliPlan, CloseOrder, CliOrder, Resources
<1>3. CASE entry = "gen"
    BY <1>3 DEF Plan, GenPlan, CloseOrder, GenOrder, Resources
<1>4. QED BY <1>1, <1>2, <1>3 DEF Entries

\* The step that is due is the next of the plan.
LEMMA NextStep ==
    ASSUME NEW entry \in Entries, NEW todo \in Seq(Steps), todo # <<>>, NEW n \in Nat,
           n = Len(Plan(entry)) - Len(todo),
           \A i \in 1 .. Len(todo) : todo[i] = Plan(entry)[n + i]
    PROVE  /\ Tail(todo) \in Seq(Steps) /\ Head(todo) = Plan(entry)[n + 1]
           /\ n + 1 \in DOMAIN Plan(entry) /\ Len(Plan(entry)) - Len(Tail(todo)) = n + 1
           /\ \A i \in 1 .. Len(Tail(todo)) : Tail(todo)[i] = Plan(entry)[n + 1 + i]
<1>1. /\ Tail(todo) \in Seq(Steps) /\ Len(Tail(todo)) = Len(todo) - 1 /\ Head(todo) = todo[1]
      /\ \A i \in 1 .. Len(todo) - 1 : Tail(todo)[i] = todo[i + 1]
      /\ Len(todo) \in Nat \ {0}
    BY HeadTailProperties, EmptySeq, LenProperties
<1>2. Len(Plan(entry)) \in Nat /\ DOMAIN Plan(entry) = 1 .. Len(Plan(entry))
    BY PlanShape
<1>3. Head(todo) = Plan(entry)[n + 1]
    BY <1>1
<1>4. n + 1 \in DOMAIN Plan(entry) /\ Len(Plan(entry)) - Len(Tail(todo)) = n + 1
    BY <1>1, <1>2
<1>5. \A i \in 1 .. Len(Tail(todo)) : Tail(todo)[i] = Plan(entry)[n + 1 + i]
    <2>1. SUFFICES ASSUME NEW i \in 1 .. Len(todo) - 1 PROVE Tail(todo)[i] = Plan(entry)[n + 1 + i]
        BY <1>1
    <2>2. i + 1 \in 1 .. Len(todo) /\ n + (i + 1) = n + 1 + i
        BY <1>1
    <2>3. QED BY <1>1, <2>2
<1>6. QED BY <1>1, <1>3, <1>4, <1>5

\* The records of a process, field by field.
OpeningParts == {"at", "entry", "env", "todo", "open", "boot", "cfg", "since"}

LEMMA OpeningOf ==
    ASSUME NEW q \in Opening
    PROVE  /\ DOMAIN q = OpeningParts /\ q = [f \in OpeningParts |-> q[f]]
           /\ q.at = "opening" /\ q.entry \in Entries /\ q.env \in {"dev", "prod"} /\ q.todo \in Seq(Steps)
           /\ q.open \in SUBSET Resources /\ q.boot \in [Settings -> Layers] /\ q.cfg \in [Settings -> Layers]
           /\ q.since \in 0 .. MaxWrites
<1>1. DOMAIN q = OpeningParts
    BY DEF Opening, OpeningParts
<1>2. q = [f \in DOMAIN q |-> q[f]]
    BY DEF Opening
<1>3. QED BY <1>1, <1>2 DEF Opening

LEMMA FromOpening ==
    ASSUME NEW q, q = [f \in OpeningParts |-> q[f]],
           q.at = "opening", q.entry \in Entries, q.env \in {"dev", "prod"}, q.todo \in Seq(Steps),
           q.open \in SUBSET Resources, q.boot \in [Settings -> Layers], q.cfg \in [Settings -> Layers],
           q.since \in 0 .. MaxWrites
    PROVE  q \in Opening
<1>1. q = [at |-> q.at, entry |-> q.entry, env |-> q.env, todo |-> q.todo, open |-> q.open,
           boot |-> q.boot, cfg |-> q.cfg, since |-> q.since]
    BY DEF OpeningParts
<1>2. QED BY <1>1 DEF Opening

\* What a closing process holds.
LEMMA ClosingOf ==
    ASSUME NEW q \in Closing
    PROVE  q.at = "closing" /\ q.todo \in Seq(Resources) /\ q.open \in SUBSET Resources
BY DEF Closing

\* The value of "at" tells opening from closing processes.
LEMMA Recognised ==
    ASSUME StartupInv, NEW p \in Procs
    PROVE  /\ proc[p].at = "opening" => proc[p] \in Opening
           /\ proc[p].at = "closing" => proc[p] \in Closing
<1>1. proc[p] \in {Off} \cup Opening \cup Closing
    BY DEF StartupInv, StartupTypeOK
<1>2. Off.at = "off"
    BY DEF Off
<1>3. QED BY <1>1, <1>2, OpeningOf, ClosingOf

\* An interval, longer by one.
LEMMA OneMore == ASSUME NEW n \in Nat PROVE 1 .. n + 1 = (1 .. n) \cup {n + 1}
OBVIOUS

\* What has been opened when one step more is taken, ...
LEMMA OneStepMore ==
    ASSUME NEW q \in Opening, OpeningFits(q), q.todo # <<>>, NEW p \in Opening,
           p.entry = q.entry, p.todo = Tail(q.todo)
    PROVE  /\ Taken(p) = Taken(q) + 1 /\ Taken(p) \in Nat
           /\ \A i \in 1 .. Len(p.todo) : p.todo[i] = Plan(p.entry)[Taken(p) + i]
           /\ \A step : HasTaken(p, step) <=> HasTaken(q, step) \/ step = Head(q.todo)
           /\ Head(q.todo) \in Steps
           /\ Head(q.todo) = "config" => ~HasTaken(q, "jwt")
<1> DEFINE n == Taken(q)
           plan == Plan(q.entry)
<1>1. /\ n \in Nat /\ n = Len(plan) - Len(q.todo) /\ q.entry \in Entries /\ q.todo \in Seq(Steps)
      /\ \A i \in 1 .. Len(q.todo) : q.todo[i] = plan[n + i]
    BY OpeningOf DEF OpeningFits, Taken
<1>2. /\ p.todo \in Seq(Steps) /\ Head(q.todo) = plan[n + 1]
      /\ n + 1 \in DOMAIN plan /\ Len(plan) - Len(p.todo) = n + 1
      /\ \A i \in 1 .. Len(p.todo) : p.todo[i] = plan[n + 1 + i]
    <2>1. \A todo \in Seq(Steps), k \in Nat :
            todo # <<>> /\ k = Len(plan) - Len(todo) /\ (\A i \in 1 .. Len(todo) : todo[i] = plan[k + i])
            => /\ Tail(todo) \in Seq(Steps) /\ Head(todo) = plan[k + 1]
               /\ k + 1 \in DOMAIN plan /\ Len(plan) - Len(Tail(todo)) = k + 1
               /\ \A i \in 1 .. Len(Tail(todo)) : Tail(todo)[i] = plan[k + 1 + i]
        BY <1>1, NextStep
    <2> HIDE DEF n, plan
    <2>2. /\ Tail(q.todo) \in Seq(Steps) /\ Head(q.todo) = plan[n + 1]
          /\ n + 1 \in DOMAIN plan /\ Len(plan) - Len(Tail(q.todo)) = n + 1
          /\ \A i \in 1 .. Len(Tail(q.todo)) : Tail(q.todo)[i] = plan[n + 1 + i]
        BY <1>1, <2>1, Zenon
    <2>3. QED BY <2>2
<1>3. Taken(p) = n + 1
    BY <1>2 DEF Taken
<1>4. ASSUME NEW step PROVE HasTaken(p, step) <=> HasTaken(q, step) \/ step = Head(q.todo)
    <2>1. HasTaken(p, step) <=> \E i \in 1 .. n + 1 : plan[i] = step
        BY <1>3 DEF HasTaken
    <2>2. HasTaken(q, step) <=> \E i \in 1 .. n : plan[i] = step
        BY DEF HasTaken
    <2> HIDE DEF n, plan
    <2>3. 1 .. n + 1 = (1 .. n) \cup {n + 1}
        BY <1>1, OneMore
    <2>4. QED BY <1>2, <2>1, <2>2, <2>3
<1>5. DOMAIN plan = 1 .. Len(plan) /\ Len(plan) \in Nat /\ plan \in Seq(Steps)
    BY <1>1, PlanShape
<1>6. Head(q.todo) \in Steps
    BY <1>2, <1>5
<1>7. ASSUME Head(q.todo) = "config" PROVE ~HasTaken(q, "jwt")
    <2>1. n + 1 = 2
        <3>1. \A i \in DOMAIN plan : plan[i] = "config" <=> i = 2
            BY <1>1, PlanShape
        <3> HIDE DEF n, plan
        <3>2. QED BY <1>2, <1>7, <3>1
    <2>2. \A i \in 1 .. n : i \in DOMAIN plan /\ i # 5
        BY <1>1, <1>2, <1>5, <2>1
    <2>3. QED BY <1>1, <2>2, PlanShape DEF HasTaken
<1>8. Taken(p) \in Nat
    BY <1>1, <1>3
<1>9. \A i \in 1 .. Len(p.todo) : p.todo[i] = Plan(p.entry)[Taken(p) + i]
    BY <1>2, <1>3
<1>10. QED BY <1>3, <1>4, <1>6, <1>7, <1>8, <1>9, Zenon

\* ... and what is then so.
LEMMA Advanced ==
    ASSUME NEW q \in Opening, OpeningFits(q), q.todo # <<>>, NEW p \in Opening,
           p.entry = q.entry, p.env = q.env, p.todo = Tail(q.todo), p.boot = q.boot, p.since = q.since,
           p.open = q.open \cup ({Head(q.todo)} \cap Resources),
           p.cfg = IF Head(q.todo) = "config" THEN MergeRemote(q.env) ELSE q.cfg,
           Head(q.todo) = "jwt" => HasSecret(q.cfg)
    PROVE  OpeningFits(p)
<1>1. /\ Taken(p) \in Nat /\ \A i \in 1 .. Len(p.todo) : p.todo[i] = Plan(p.entry)[Taken(p) + i]
      /\ \A step : HasTaken(p, step) <=> HasTaken(q, step) \/ step = Head(q.todo)
      /\ Head(q.todo) = "config" => ~HasTaken(q, "jwt")
    BY OneStepMore
<1>2. p.open = {r \in Resources : HasTaken(p, r)}
    BY <1>1 DEF OpeningFits
<1>3. HasTaken(p, "config") /\ p.since = remote.write => p.cfg = MergeRemote(p.env)
    BY <1>1 DEF OpeningFits
<1>4. HasTaken(p, "jwt") => HasSecret(p.cfg)
    BY <1>1 DEF OpeningFits
<1>5. QED BY <1>1, <1>2, <1>3, <1>4 DEF OpeningFits

\* The records that the steps leave.
Took(q) == [q EXCEPT !.todo = Tail(@)]

Opened(q, r) == [q EXCEPT !.todo = Tail(@), !.open = @ \cup {r}]

Configured(q, cfg) == [q EXCEPT !.todo = Tail(@), !.cfg = cfg]

Closed(q) == [q EXCEPT !.todo = Tail(@), !.open = @ \ {Head(q.todo)}]

\* A step is off the list, ...
LEMMA TookStep ==
    ASSUME NEW q \in Opening, q.todo # <<>>,
           NEW p, p = Took(q)
    PROVE  /\ p \in Opening /\ p.entry = q.entry /\ p.env = q.env /\ p.todo = Tail(q.todo)
           /\ p.boot = q.boot /\ p.since = q.since /\ p.open = q.open /\ p.cfg = q.cfg
<1>1. p = [f \in OpeningParts |-> p[f]]
    BY OpeningOf DEF Took
<1>2. /\ p.at = q.at /\ p.entry = q.entry /\ p.env = q.env /\ p.todo = Tail(q.todo) /\ p.open = q.open
      /\ p.boot = q.boot /\ p.cfg = q.cfg /\ p.since = q.since
    BY OpeningOf DEF OpeningParts, Took
<1>3. Tail(q.todo) \in Seq(Steps)
    BY OpeningOf, HeadTailProperties
<1>4. p \in Opening
    BY <1>1, <1>2, <1>3, OpeningOf, FromOpening
<1>5. QED BY <1>2, <1>4

\* ... with a resource opened, ...
LEMMA OpenedStep ==
    ASSUME NEW q \in Opening, q.todo # <<>>, NEW r \in Resources,
           NEW p, p = Opened(q, r)
    PROVE  /\ p \in Opening /\ p.entry = q.entry /\ p.env = q.env /\ p.todo = Tail(q.todo)
           /\ p.boot = q.boot /\ p.since = q.since /\ p.open = q.open \cup {r} /\ p.cfg = q.cfg
<1>1. p = [f \in OpeningParts |-> p[f]]
    BY OpeningOf DEF Opened
<1>2. /\ p.at = q.at /\ p.entry = q.entry /\ p.env = q.env /\ p.todo = Tail(q.todo) /\ p.open = q.open \cup {r}
      /\ p.boot = q.boot /\ p.cfg = q.cfg /\ p.since = q.since
    BY OpeningOf DEF OpeningParts, Opened
<1>3. Tail(q.todo) \in Seq(Steps) /\ q.open \cup {r} \in SUBSET Resources
    BY OpeningOf, HeadTailProperties
<1>4. p \in Opening
    BY <1>1, <1>2, <1>3, OpeningOf, FromOpening
<1>5. QED BY <1>2, <1>4

\* ... with the configuration read.
LEMMA ConfiguredStep ==
    ASSUME NEW q \in Opening, q.todo # <<>>, NEW cfg \in [Settings -> Layers],
           NEW p, p = Configured(q, cfg)
    PROVE  /\ p \in Opening /\ p.entry = q.entry /\ p.env = q.env /\ p.todo = Tail(q.todo)
           /\ p.boot = q.boot /\ p.since = q.since /\ p.open = q.open /\ p.cfg = cfg
<1>1. p = [f \in OpeningParts |-> p[f]]
    BY OpeningOf DEF Configured
<1>2. /\ p.at = q.at /\ p.entry = q.entry /\ p.env = q.env /\ p.todo = Tail(q.todo) /\ p.open = q.open
      /\ p.boot = q.boot /\ p.cfg = cfg /\ p.since = q.since
    BY OpeningOf DEF OpeningParts, Configured
<1>3. Tail(q.todo) \in Seq(Steps)
    BY OpeningOf, HeadTailProperties
<1>4. p \in Opening
    BY <1>1, <1>2, <1>3, OpeningOf, FromOpening
<1>5. QED BY <1>2, <1>4

\* A step of one process leaves the others alone.
LEMMA ProcReplaced ==
    ASSUME StartupInv, NEW p \in Procs, NEW q \in {Off} \cup Opening \cup Closing,
           NEW left \in SUBSET Resources, ProcFits(q, left),
           proc' = [proc EXCEPT ![p] = q], unclosed' = [unclosed EXCEPT ![p] = left],
           UNCHANGED <<remoteOn, remote>>
    PROVE  StartupInv'
<1>1. /\ proc \in [Procs -> {Off} \cup Opening \cup Closing]
      /\ unclosed \in [Procs -> SUBSET Resources]
      /\ \A d \in Procs : ProcFits(proc[d], unclosed[d])
    BY DEF StartupInv, StartupTypeOK
<1>2. /\ proc' \in [Procs -> {Off} \cup Opening \cup Closing]
      /\ unclosed' \in [Procs -> SUBSET Resources]
    BY <1>1
<1>3. \A d \in Procs : ProcFits(proc'[d], unclosed'[d])
    BY <1>1
<1>4. \A env : Local(env)' = Local(env) /\ MergeRemote(env)' = MergeRemote(env)
    BY DEF MergeRemote, Local
<1>5. ASSUME NEW d \in Procs PROVE ProcFits(proc[d], unclosed[d])'
    BY <1>3, <1>4 DEF ProcFits, OpeningFits, ClosingFits
<1>6. QED BY <1>2, <1>5 DEF StartupInv, StartupTypeOK

\* A process that comes up takes its next step, ...
LEMMA StepTaken ==
    ASSUME StartupInv, NEW p \in Procs, proc[p].at = "opening", proc[p].todo # <<>>,
           NEW q \in Opening,
           q.entry = proc[p].entry, q.env = proc[p].env, q.todo = Tail(proc[p].todo), q.boot = proc[p].boot,
           q.since = proc[p].since,
           q.open = proc[p].open \cup ({Head(proc[p].todo)} \cap Resources),
           q.cfg = IF Head(proc[p].todo) = "config" THEN MergeRemote(proc[p].env) ELSE proc[p].cfg,
           Head(proc[p].todo) = "jwt" => HasSecret(proc[p].cfg),
           proc' = [proc EXCEPT ![p] = q], UNCHANGED <<remoteOn, remote, unclosed>>
    PROVE  StartupInv'
<1>1. proc[p] \in Opening /\ ProcFits(proc[p], unclosed[p])
    BY Recognised DEF StartupInv
<1>2. OpeningFits(q)
    BY <1>1, Advanced DEF ProcFits
<1>3. unclosed[p] = {} /\ q.at = "opening"
    BY <1>1, OpeningOf DEF ProcFits
<1>4. ProcFits(q, unclosed[p])
    BY <1>2, <1>3 DEF ProcFits
<1>5. unclosed' = [unclosed EXCEPT ![p] = unclosed[p]] /\ unclosed[p] \in SUBSET Resources
    BY DEF StartupInv, StartupTypeOK
<1>6. QED BY <1>4, <1>5, ProcReplaced

\* ... or is gone, with what it held.
LEMMA ProcFails ==
    ASSUME StartupInv, NEW p \in Procs, proc[p].at = "opening", Fail(p),
           UNCHANGED <<remoteOn, remote, unclosed>>
    PROVE  StartupInv'
<1>1. unclosed[p] = {}
    BY DEF StartupInv, ProcFits
<1>2. ProcFits(Off, {})
    BY DEF ProcFits, Off
<1>3. unclosed' = [unclosed EXCEPT ![p] = {}]
    BY <1>1 DEF StartupInv, StartupTypeOK
<1>4. QED BY <1>2, <1>3, ProcReplaced DEF Fail

\* A step that reads or opens nothing.
LEMMA PlainStep ==
    ASSUME StartupInv, NEW p \in Procs, NEW step \in {"jwt", "slide", "click", "rotate", "engine"},
           Due(p, step), step = "jwt" => HasSecret(proc[p].cfg),
           proc' = [proc EXCEPT ![p].todo = Tail(@)], UNCHANGED <<remoteOn, remote, unclosed>>
    PROVE  StartupInv'
<1> DEFINE old == proc[p]
           q == Took(old)
<1>1. old \in Opening /\ old.at = "opening" /\ old.todo # <<>> /\ Head(old.todo) = step
    BY Recognised DEF Due
<1>2. proc' = [proc EXCEPT ![p] = q] /\ q = Took(old)
    BY DEF StartupInv, StartupTypeOK, Took
<1> HIDE DEF old, q
<1>3. /\ q \in Opening /\ q.entry = old.entry /\ q.env = old.env /\ q.todo = Tail(old.todo)
      /\ q.boot = old.boot /\ q.since = old.since /\ q.open = old.open /\ q.cfg = old.cfg
    BY <1>1, <1>2, TookStep
<1>4. step # "config" /\ {step} \cap Resources = {}
    BY DEF Resources
<1>5. q.open = old.open \cup ({Head(old.todo)} \cap Resources)
    BY <1>1, <1>3, <1>4
<1>6. Head(old.todo) = "jwt" => HasSecret(old.cfg)
    BY <1>1 DEF old
<1>7. QED BY <1>1, <1>2, <1>3, <1>4, <1>5, <1>6, StepTaken DEF old

\* Opening a resource keeps the invariant, ...
LEMMA OpenStep ==
    ASSUME StartupInv, NEW p \in Procs, NEW r \in Resources, Open(p, r)
    PROVE  StartupInv'
<1> DEFINE old == proc[p]
           q == Opened(old, r)
<1>1. old \in Opening /\ old.at = "opening" /\ old.todo # <<>> /\ Head(old.todo) = r
    BY Recognised DEF Open, Due
<1>2. UNCHANGED <<remoteOn, remote, unclosed>>
    BY DEF Open
<1>3. /\ proc' = [proc EXCEPT ![p] = q] \/ Fail(p)
      /\ q = Opened(old, r)
    BY DEF Open, StartupInv, StartupTypeOK, Opened
<1> HIDE DEF old, q
<1>4. /\ q \in Opening /\ q.entry = old.entry /\ q.env = old.env /\ q.todo = Tail(old.todo)
      /\ q.boot = old.boot /\ q.since = old.since /\ q.open = old.open \cup {r} /\ q.cfg = old.cfg
    BY <1>1, <1>3, OpenedStep
<1>5. r # "config" /\ r # "jwt" /\ {r} \cap Resources = {r}
    BY DEF Resources
<1>6. CASE proc' = [proc EXCEPT ![p] = q]
    BY <1>1, <1>2, <1>4, <1>5, <1>6, StepTaken DEF old
<1>7. CASE Fail(p)
    BY <1>1, <1>2, <1>7, ProcFails DEF old
<1>8. QED BY <1>3, <1>6, <1>7

\* Files and the remote key are layers.
LEMMA Layered ==
    ASSUME NEW env \in {"dev", "prod"}, remote.write \in Nat
    PROVE  Local(env) \in [Settings -> Layers] /\ MergeRemote(env) \in [Settings -> Layers]
<1>1. /\ File(env) \in Layers /\ File("default") \in Layers /\ Remote(remote.write) \in Layers
    BY DEF File, Remote, Layers
<1>2. \A s \in Settings : File(IF s \in Overrides(env) THEN env ELSE "default") \in Layers
    BY <1>1
<1>3. Local(env) \in [Settings -> Layers]
    BY <1>2 DEF Local
<1>4. QED BY <1>1, <1>3 DEF MergeRemote

\* ... reading the configuration does, ...
LEMMA ConfigStep ==
    ASSUME StartupInv, NEW p \in Procs, NewConfig(p)
    PROVE  StartupInv'
<1> DEFINE old == proc[p]
           q == Configured(old, MergeRemote(old.env))
<1>1. old \in Opening /\ old.at = "opening" /\ old.todo # <<>> /\ Head(old.todo) = "config"
    BY Recognised DEF NewConfig, Due
<1>2. UNCHANGED <<remoteOn, remote, unclosed>>
    BY DEF NewConfig
<1>3. /\ proc' = [proc EXCEPT ![p] = q] \/ Fail(p)
      /\ q = Configured(old, MergeRemote(old.env))
    BY DEF NewConfig, StartupInv, StartupTypeOK, Configured
<1>4. MergeRemote(old.env) \in [Settings -> Layers]
    <2>1. old.env \in {"dev", "prod"} /\ remote.write \in Nat
        BY <1>1, OpeningOf, StartupAssumption DEF StartupInv, StartupTypeOK
    <2>2. QED BY <2>1, Layered
<1> HIDE DEF old, q
<1>5. /\ q \in Opening /\ q.entry = old.entry /\ q.env = old.env /\ q.todo = Tail(old.todo)
      /\ q.boot = old.boot /\ q.since = old.since /\ q.open = old.open /\ q.cfg = MergeRemote(old.env)
    BY <1>1, <1>3, <1>4, ConfiguredStep
<1>6. {"config"} \cap Resources = {}
    BY DEF Resources
<1>7. CASE proc' = [proc EXCEPT ![p] = q]
    <2>1. q.open = old.open \cup ({Head(old.todo)} \cap Resources)
        BY <1>1, <1>5, <1>6
    <2>2. Head(old.todo) # "jwt"
        BY <1>1
    <2>3. QED BY <1>1, <1>2, <1>5, <1>7, <2>1, <2>2, StepTaken DEF old
<1>8. CASE Fail(p)
    BY <1>1, <1>2, <1>8, ProcFails DEF old
<1>9. QED BY <1>3, <1>7, <1>8

\* A process begins with its plan before it, and closes with its order.
LEMMA BeginStep ==
    ASSUME StartupInv, NEW p \in Procs, Begin(p)
    PROVE  StartupInv'
<1>1. PICK entry \in Entries, env \in {"dev", "prod"} : proc' = [proc EXCEPT ![p] =
        [at |-> "opening", entry |-> entry, env |-> env, todo |-> Plan(entry), open |-> {},
         boot |-> Local(env), cfg |-> Local(env), since |-> remote.write]]
    BY DEF Begin, Entries, HasFile
<1> DEFINE q == [at |-> "opening", entry |-> entry, env |-> env, todo |-> Plan(entry), open |-> {},
                 boot |-> Local(env), cfg |-> Local(env), since |-> remote.write]
<1>2. proc' = [proc EXCEPT ![p] = q] /\ UNCHANGED <<remoteOn, remote, unclosed>> /\ proc[p] = Off
    BY <1>1 DEF Begin
<1>3. Plan(entry) \in Seq(Steps) /\ Len(Plan(entry)) \in Nat
    BY PlanShape
<1>4. remote.write \in 0 .. MaxWrites /\ Local(env) \in [Settings -> Layers]
    BY Layered, StartupAssumption DEF StartupInv, StartupTypeOK
<1>5. q \in Opening
    BY <1>3, <1>4 DEF Opening
<1>6. /\ q.at = "opening" /\ q.entry = entry /\ q.todo = Plan(entry) /\ q.open = {}
      /\ q.boot = Local(env) /\ q.env = env /\ q.since = remote.write
    OBVIOUS
<1> HIDE DEF q
<1>7. Taken(q) = 0
    BY <1>3, <1>6 DEF Taken
<1>8. \A step : ~HasTaken(q, step)
    BY <1>7 DEF HasTaken
<1>9. \A i \in 1 .. Len(q.todo) : q.todo[i] = Plan(q.entry)[Taken(q) + i]
    BY <1>6, <1>7
<1>10. OpeningFits(q)
    <2>1. remote.write <= remote.write
        BY <1>4, StartupAssumption
    <2>2. QED BY <1>6, <1>7, <1>8, <1>9, <2>1 DEF OpeningFits
<1>11. unclosed[p] = {} /\ unclosed' = [unclosed EXCEPT ![p] = {}]
    BY <1>2 DEF Off, StartupInv, StartupTypeOK, ProcFits
<1>12. ProcFits(q, {})
    BY <1>6, <1>10 DEF ProcFits
<1>13. QED BY <1>2, <1>5, <1>11, <1>12, ProcReplaced

\* ... turning to close does, ...
LEMMA BeginCloseStep ==
    ASSUME StartupInv, NEW p \in Procs, BeginClose(p)
    PROVE  StartupInv'
<1> DEFINE entry == proc[p].entry
           q == [at |-> "closing", todo |-> CloseOrder(entry), open |-> proc[p].open]
<1>1. /\ proc' = [proc EXCEPT ![p] = q] /\ UNCHANGED <<remoteOn, remote, unclosed>>
      /\ proc[p] \in Opening /\ proc[p].at = "opening" /\ proc[p].todo = <<>>
    BY Recognised DEF BeginClose
<1>2. OpeningFits(proc[p]) /\ unclosed[p] = {} /\ unclosed' = [unclosed EXCEPT ![p] = {}]
    BY <1>1 DEF StartupInv, StartupTypeOK, ProcFits
<1>3. entry \in Entries /\ proc[p].open \in SUBSET Resources
    BY <1>1, OpeningOf
<1>4. /\ CloseOrder(entry) \in Seq(Resources)
      /\ \A i, j \in DOMAIN CloseOrder(entry) : CloseOrder(entry)[i] = CloseOrder(entry)[j] => i = j
      /\ {CloseOrder(entry)[i] : i \in DOMAIN CloseOrder(entry)} =
            {r \in Resources : \E i \in DOMAIN Plan(entry) : Plan(entry)[i] = r}
    BY <1>3, CloseShape
<1>5. proc[p].open = {r \in Resources : \E i \in DOMAIN Plan(entry) : Plan(entry)[i] = r}
    <2>1. Taken(proc[p]) = Len(Plan(entry)) /\ DOMAIN Plan(entry) = 1 .. Len(Plan(entry))
        BY <1>1, <1>3, PlanShape DEF Taken
    <2>2. QED BY <1>2, <2>1 DEF OpeningFits, HasTaken
<1>6. q \in Closing
    BY <1>3, <1>4 DEF Closing
<1>7. q.at = "closing" /\ q.todo = CloseOrder(entry) /\ q.open = proc[p].open
    OBVIOUS
<1> HIDE DEF q, entry
<1>8. ProcFits(q, {})
    BY <1>4, <1>5, <1>7 DEF ProcFits, ClosingFits
<1>9. QED BY <1>1, <1>2, <1>6, <1>8, ProcReplaced

\* The first of a list without repetitions, and the others.
LEMMA FirstAndRest ==
    ASSUME NEW todo \in Seq(Resources), todo # <<>>,
           \A i, j \in DOMAIN todo : todo[i] = todo[j] => i = j
    PROVE  /\ Tail(todo) \in Seq(Resources) /\ Head(todo) \in Resources
           /\ \A i, j \in DOMAIN Tail(todo) : Tail(todo)[i] = Tail(todo)[j] => i = j
           /\ \A i \in DOMAIN Tail(todo) : Tail(todo)[i] # Head(todo)
           /\ \A r : (\E i \in DOMAIN todo : r = todo[i]) <=>
                r = Head(todo) \/ \E i \in DOMAIN Tail(todo) : r = Tail(todo)[i]
<1> DEFINE rest == Tail(todo)
<1>1. /\ rest \in Seq(Resources) /\ Head(todo) = todo[1] /\ Head(todo) \in Resources
      /\ DOMAIN rest = 1 .. (Len(todo) - 1)
      /\ \A i \in 1 .. Len(todo) - 1 : rest[i] = todo[i + 1]
      /\ DOMAIN todo = 1 .. Len(todo) /\ Len(todo) \in Nat \ {0}
    BY HeadTailProperties, EmptySeq, LenProperties
<1> HIDE DEF rest
<1>2. \A i \in DOMAIN rest : rest[i] = todo[i + 1] /\ i + 1 \in DOMAIN todo /\ i + 1 # 1
    BY <1>1
<1>3. \A i, j \in DOMAIN rest : rest[i] = rest[j] => i = j
    <2>1. SUFFICES ASSUME NEW i \in DOMAIN rest, NEW j \in DOMAIN rest, rest[i] = rest[j] PROVE i = j
        OBVIOUS
    <2>2. i + 1 = j + 1
        BY <1>2, <2>1
    <2>3. i \in Int /\ j \in Int
        BY <1>1
    <2>4. QED BY <2>2, <2>3
<1>4. 1 \in DOMAIN todo
    BY <1>1
<1>5. \A i \in DOMAIN rest : rest[i] # Head(todo)
    BY <1>1, <1>2, <1>4
<1>6. ASSUME NEW i \in DOMAIN todo, i # 1
      PROVE  i - 1 \in DOMAIN rest /\ rest[i - 1] = todo[i]
    <2>1. i - 1 \in 1 .. Len(todo) - 1 /\ (i - 1) + 1 = i
        BY <1>1, <1>6
    <2>2. QED BY <1>1, <2>1
<1>7. ASSUME NEW r
      PROVE  (\E i \in DOMAIN todo : r = todo[i]) <=>
                r = Head(todo) \/ \E i \in DOMAIN rest : r = rest[i]
    <2>1. ASSUME NEW i \in DOMAIN todo, r = todo[i]
          PROVE  r = Head(todo) \/ \E j \in DOMAIN rest : r = rest[j]
        <3>1. CASE i = 1
            BY <1>1, <2>1, <3>1
        <3>2. CASE i # 1
            BY <1>6, <2>1, <3>2
        <3>3. QED BY <3>1, <3>2
    <2>2. r = Head(todo) => \E i \in DOMAIN todo : r = todo[i]
        BY <1>1, <1>4
    <2>3. ASSUME NEW j \in DOMAIN rest, r = rest[j] PROVE \E i \in DOMAIN todo : r = todo[i]
        BY <1>2, <2>3
    <2>4. QED BY <2>1, <2>2, <2>3
<1>8. QED BY <1>1, <1>3, <1>5, <1>7 DEF rest

\* Closing the next resource, or failing to, leaves a closing process that fits.
LEMMA ClosedOne ==
    ASSUME NEW q \in Closing, q.todo # <<>>, NEW left \in SUBSET Resources, ClosingFits(q, left),
           NEW p, p = Closed(q)
    PROVE  p \in Closing /\ ProcFits(p, left)
<1> DEFINE r == Head(q.todo)
<1>1. q.todo \in Seq(Resources) /\ q.open \in SUBSET Resources
    BY ClosingOf
<1>2. p.at = "closing" /\ p.todo = Tail(q.todo) /\ p.open = q.open \ {r}
    BY DEF Closing, Closed
<1>3. /\ Tail(q.todo) \in Seq(Resources) /\ r \in Resources
      /\ \A i, j \in DOMAIN Tail(q.todo) : Tail(q.todo)[i] = Tail(q.todo)[j] => i = j
      /\ \A i \in DOMAIN Tail(q.todo) : Tail(q.todo)[i] # r
      /\ \A s : (\E i \in DOMAIN q.todo : s = q.todo[i]) <=>
            s = r \/ \E i \in DOMAIN Tail(q.todo) : s = Tail(q.todo)[i]
    BY <1>1, FirstAndRest DEF ClosingFits
<1>4. p \in Closing
    BY <1>1, <1>3 DEF Closing, Closed
<1> HIDE DEF r
<1>5. \A s : s \in q.open <=> s \in left \/ s = r \/ \E i \in DOMAIN p.todo : s = p.todo[i]
    BY <1>2, <1>3 DEF ClosingFits
<1>6. r \notin left /\ \A i \in DOMAIN p.todo : p.todo[i] # r /\ p.todo[i] \notin left
    <2>1. \A s : (\E i \in DOMAIN q.todo : s = q.todo[i]) => s \notin left
        BY DEF ClosingFits
    <2>2. r \notin left /\ \A i \in DOMAIN p.todo : p.todo[i] \notin left
        BY <1>2, <1>3, <2>1
    <2>3. QED BY <1>2, <1>3, <2>2
<1>7. p.open = left \cup {p.todo[i] : i \in DOMAIN p.todo}
    BY <1>2, <1>5, <1>6
<1>8. \A i, j \in DOMAIN p.todo : p.todo[i] = p.todo[j] => i = j
    BY <1>2, <1>3
<1>9. ProcFits(p, left)
    BY <1>2, <1>6, <1>7, <1>8 DEF ProcFits, ClosingFits
<1>10. QED BY <1>4, <1>9 DEF r

LEMMA LeftOpen ==
    ASSUME NEW q \in Closing, q.todo # <<>>, NEW left \in SUBSET Resources, ClosingFits(q, left),
           NEW p, p = Took(q)
    PROVE  /\ p \in Closing /\ ProcFits(p, left \cup {Head(q.todo)})
           /\ left \cup {Head(q.todo)} \in SUBSET Resources
<1> DEFINE r == Head(q.todo)
<1>1. q.todo \in Seq(Resources) /\ q.open \in SUBSET Resources
    BY ClosingOf
<1>2. p.at = "closing" /\ p.todo = Tail(q.todo) /\ p.open = q.open
    BY DEF Closing, Took
<1>3. /\ Tail(q.todo) \in Seq(Resources) /\ r \in Resources
      /\ \A i, j \in DOMAIN Tail(q.todo) : Tail(q.todo)[i] = Tail(q.todo)[j] => i = j
      /\ \A i \in DOMAIN Tail(q.todo) : Tail(q.todo)[i] # r
      /\ \A s : (\E i \in DOMAIN q.todo : s = q.todo[i]) <=>
            s = r \/ \E i \in DOMAIN Tail(q.todo) : s = Tail(q.todo)[i]
    BY <1>1, FirstAndRest DEF ClosingFits
<1>4. p \in Closing
    BY <1>1, <1>3 DEF Closing, Took
<1> HIDE DEF r
<1>5. \A s : s \in q.open <=> s \in left \/ s = r \/ \E i \in DOMAIN p.todo : s = p.todo[i]
    BY <1>2, <1>3 DEF ClosingFits
<1>6. \A i \in DOMAIN p.todo : p.todo[i] # r /\ p.todo[i] \notin left
    BY <1>2, <1>3 DEF ClosingFits
<1>7. p.open = (left \cup {r}) \cup {p.todo[i] : i \in DOMAIN p.todo}
    BY <1>2, <1>5
<1>8. \A i, j \in DOMAIN p.todo : p.todo[i] = p.todo[j] => i = j
    BY <1>2, <1>3
<1>9. ProcFits(p, left \cup {r})
    BY <1>2, <1>6, <1>7, <1>8 DEF ProcFits, ClosingFits
<1>10. QED BY <1>3, <1>4, <1>9 DEF r

\* Either way the invariant is kept.
LEMMA CloseNextStep ==
    ASSUME StartupInv, NEW p \in Procs, CloseNext(p)
    PROVE  StartupInv'
<1> DEFINE q == proc[p]
           left == unclosed[p]
<1>1. /\ q \in Closing /\ q.todo # <<>> /\ q.at = "closing" /\ UNCHANGED <<remoteOn, remote>>
      /\ left \in SUBSET Resources
    BY Recognised DEF CloseNext, StartupInv, StartupTypeOK
<1>2. ClosingFits(q, left)
    BY <1>1 DEF StartupInv, ProcFits
<1>3. CASE /\ proc' = [proc EXCEPT ![p].todo = Tail(@), ![p].open = @ \ {Head(q.todo)}]
           /\ UNCHANGED unclosed
    <2> DEFINE new == Closed(q)
    <2>1. /\ proc' = [proc EXCEPT ![p] = new] /\ unclosed' = [unclosed EXCEPT ![p] = left]
          /\ new = Closed(q)
        BY <1>3 DEF StartupInv, StartupTypeOK, Closed
    <2> HIDE DEF q, left, new
    <2>2. new \in Closing /\ ProcFits(new, left)
        BY <1>1, <1>2, <2>1, ClosedOne
    <2>3. QED BY <1>1, <2>1, <2>2, ProcReplaced
<1>4. CASE /\ proc' = [proc EXCEPT ![p].todo = Tail(@)]
           /\ unclosed' = [unclosed EXCEPT ![p] = @ \cup {Head(q.todo)}]
    <2> DEFINE new == Took(q)
               more == left \cup {Head(q.todo)}
    <2>1. /\ proc' = [proc EXCEPT ![p] = new] /\ unclosed' = [unclosed EXCEPT ![p] = more]
          /\ new = Took(q) /\ more = left \cup {Head(q.todo)}
        BY <1>4 DEF StartupInv, StartupTypeOK, Took
    <2> HIDE DEF q, left, new, more
    <2>2. new \in Closing /\ ProcFits(new, more) /\ more \in SUBSET Resources
        BY <1>1, <1>2, <2>1, LeftOpen
    <2>3. QED BY <1>1, <2>1, <2>2, ProcReplaced
<1>5. QED BY <1>3, <1>4 DEF CloseNext

\* So it is when a process ends.
LEMMA EndStep ==
    ASSUME StartupInv, NEW p \in Procs, End(p)
    PROVE  StartupInv'
<1>1. ProcFits(Off, {})
    BY DEF ProcFits, Off
<1>2. QED BY <1>1, ProcReplaced DEF End, Fail

\* Once the remote key is written again, the processes that run have read an
\* earlier one.
LEMMA WriteRemoteStep ==
    ASSUME StartupInv, WriteRemote
    PROVE  StartupInv'
<1>1. /\ remote'.write = remote.write + 1 /\ remote.write \in Nat
      /\ remote' \in [write : 0 .. MaxWrites, gives : SUBSET Settings]
      /\ UNCHANGED <<remoteOn, proc, unclosed>>
    BY StartupAssumption DEF WriteRemote, StartupInv, StartupTypeOK
<1>2. ASSUME NEW p \in Procs PROVE ProcFits(proc[p], unclosed[p])'
    <2> DEFINE q == proc[p]
    <2>1. ProcFits(q, unclosed[p]) /\ (q.at = "opening" => q.since \in Nat)
        BY Recognised, OpeningOf, StartupAssumption DEF StartupInv
    <2>2. ASSUME q.at = "opening"
          PROVE  OpeningFits(q)'
        <3>1. q.since <= remote.write
            BY <2>1, <2>2 DEF ProcFits, OpeningFits
        <3>2. q.since <= remote'.write /\ q.since # remote'.write
            BY <1>1, <2>1, <2>2, <3>1
        <3>3. q' = q
            BY <1>1
        <3>4. Taken(q)' = Taken(q)
            BY <3>3 DEF Taken
        <3>5. \A step : HasTaken(q, step)' <=> HasTaken(q, step)
            BY <3>3, <3>4 DEF HasTaken
        <3>6. HasSecret(q.cfg)' <=> HasSecret(q.cfg)
            BY <3>3 DEF HasSecret
        <3>7. OpeningFits(q)
            BY <2>1, <2>2 DEF ProcFits
        <3> HIDE DEF q
        <3>8. QED BY <3>2, <3>3, <3>4, <3>5, <3>6, <3>7 DEF OpeningFits
    <2>3. QED BY <1>1, <2>1, <2>2 DEF ProcFits, ClosingFits
<1>3. QED BY <1>1, <1>2 DEF StartupInv, StartupTypeOK

\* Every step of the processes keeps the invariant, ...
LEMMA StartupStep == StartupInv /\ [StartupNext]_startupVars => StartupInv'
<1>1. SUFFICES ASSUME StartupInv, [StartupNext]_startupVars PROVE StartupInv'
    OBVIOUS
<1>2. CASE UNCHANGED startupVars
    BY <1>1, <1>2 DEF startupVars, StartupInv, StartupTypeOK, ProcFits, OpeningFits, ClosingFits,
                      MergeRemote, Local
<1>3. ASSUME NEW p \in Procs,
             NewEtcdClient(p) \/ NewRedisClient(p) \/ NewConnection(p) \/ InitHooks(p)
      PROVE  StartupInv'
    <2>1. PICK r \in Resources : Open(p, r)
        BY <1>3 DEF NewEtcdClient, NewRedisClient, NewConnection, InitHooks, Resources
    <2>2. QED BY <1>1, <2>1, OpenStep
<1>4. ASSUME NEW p \in Procs, NewJWTManager(p) PROVE StartupInv'
    <2>1. Due(p, "jwt") /\ UNCHANGED <<remoteOn, remote, unclosed>> /\ proc[p].at = "opening"
        BY <1>4 DEF NewJWTManager, Due
    <2>2. CASE Secret(p)
        <3>1. HasSecret(proc[p].cfg)
            BY <2>2 DEF Secret, LayerOf, FromBootstrap, HasSecret
        <3>2. proc' = [proc EXCEPT ![p].todo = Tail(@)]
            BY <1>4, <2>2 DEF NewJWTManager
        <3>3. QED BY <1>1, <2>1, <3>1, <3>2, PlainStep
    <2>3. CASE ~Secret(p)
        BY <1>1, <1>4, <2>1, <2>3, ProcFails DEF NewJWTManager
    <2>4. QED BY <2>2, <2>3
<1>5. ASSUME NEW p \in Procs,
             \/ NewEngine(p)
             \/ ProvideSlideCaptcha(p) \/ ProvideClickCaptcha(p) \/ ProvideRotateCaptcha(p)
      PROVE  StartupInv'
    <2>1. PICK step \in {"slide", "click", "rotate", "engine"} :
            /\ Due(p, step) /\ UNCHANGED <<remoteOn, remote, unclosed>>
            /\ proc' = [proc EXCEPT ![p].todo = Tail(@)] \/ Fail(p)
        BY <1>5 DEF NewEngine, ProvideSlideCaptcha, ProvideClickCaptcha, ProvideRotateCaptcha, Provide
    <2>2. CASE proc' = [proc EXCEPT ![p].todo = Tail(@)]
        BY <1>1, <2>1, <2>2, PlainStep
    <2>3. CASE Fail(p)
        BY <1>1, <2>1, <2>3, ProcFails DEF Due
    <2>4. QED BY <2>1, <2>2, <2>3
<1>6. QED
    BY <1>1, <1>2, <1>3, <1>4, <1>5, WriteRemoteStep, BeginStep, ConfigStep, BeginCloseStep,
       CloseNextStep, EndStep DEF StartupNext

\* The layer that the readers of a setting hold in an environment, when the remote
\* key has not changed since.
Layer(env, s) == IF s \in FromBootstrap THEN Local(env)[s] ELSE MergeRemote(env)[s]

\* Only the remote key has a secret, and gives it in every environment.
LEMMA SecretRemote ==
    ASSUME NEW env \in {"dev", "prod"}, HasSecret(MergeRemote(env))
    PROVE  LocalSecret \/ (remoteOn /\ "jwt.secret" \in remote.gives)
<1>1. "jwt.secret" \in Settings
    BY DEF Settings
<1>2. Local(env)["jwt.secret"].from # "remote"
    BY <1>1 DEF Local, File
<1>3. QED BY <1>1, <1>2 DEF HasSecret, MergeRemote

LEMMA RemoteSecret ==
    ASSUME NEW env, remoteOn, "jwt.secret" \in remote.gives
    PROVE  Layer(env, "jwt.secret").from = "remote"
<1>1. "jwt.secret" \in Settings /\ "jwt.secret" \notin FromBootstrap
    BY DEF Settings, FromBootstrap
<1>2. Layer(env, "jwt.secret") = Remote(remote.write)
    BY <1>1 DEF Layer, MergeRemote
<1>3. QED BY <1>2 DEF Remote

\* ... which gives the properties the runs check, ...
LEMMA StartupMeans == StartupInv => StartupTypeOK /\ StartupSafe
<1>1. SUFFICES ASSUME StartupInv PROVE StartupSafe
    BY DEF StartupInv
<1>2. ASSUME NEW p \in Procs, Ready(p)
      PROVE  /\ proc[p].entry \in Entries /\ proc[p].env \in {"dev", "prod"} /\ proc[p].boot = Local(proc[p].env)
             /\ proc[p].open = {CloseOrder(proc[p].entry)[i] : i \in DOMAIN CloseOrder(proc[p].entry)}
             /\ proc[p].since = remote.write => proc[p].cfg = MergeRemote(proc[p].env)
             /\ proc[p].entry = "server" => HasSecret(proc[p].cfg)
    <2> DEFINE q == proc[p]
               plan == Plan(q.entry)
    <2>1. q \in Opening /\ OpeningFits(q) /\ q.todo = <<>>
        BY <1>1, <1>2, Recognised DEF Ready, StartupInv, ProcFits
    <2>2. /\ q.entry \in Entries /\ Taken(q) = Len(plan)
          /\ DOMAIN plan = 1 .. Len(plan) /\ Len(plan) \in Nat /\ Len(plan) >= 3
        BY <2>1, OpeningOf, PlanShape DEF Taken
    <2>3. \A step : HasTaken(q, step) <=> \E i \in DOMAIN plan : plan[i] = step
        BY <2>2 DEF HasTaken
    <2>4. 2 \in DOMAIN plan /\ plan[2] = "config"
        BY <2>2, PlanShape
    <2>5. q.entry = "server" => HasTaken(q, "jwt")
        BY <2>2, <2>3, PlanShape
    <2>6. q.open = {CloseOrder(q.entry)[i] : i \in DOMAIN CloseOrder(q.entry)}
        BY <2>1, <2>2, <2>3, CloseShape DEF OpeningFits
    <2>7. q.env \in {"dev", "prod"} /\ q.boot = Local(q.env) /\ HasTaken(q, "config")
        BY <2>1, <2>3, <2>4, OpeningOf DEF OpeningFits
    <2>8. /\ q.since = remote.write => q.cfg = MergeRemote(q.env)
          /\ q.entry = "server" => HasSecret(q.cfg)
        BY <2>1, <2>5, <2>7 DEF OpeningFits
    <2> HIDE DEF q, plan
    <2>9. QED BY <2>2, <2>6, <2>7, <2>8 DEF q
<1>3. OneConfiguration
    <2>1. SUFFICES ASSUME NEW p \in Procs, NEW q \in Procs, Ready(p), Ready(q),
                          proc[p].since = remote.write, proc[q].since = remote.write
                   PROVE  /\ \A s \in Settings : LayerOf(p, s) # LayerOf(q, s) =>
                                /\ proc[p].env # proc[q].env
                                /\ s \in Overrides(proc[p].env) \cup Overrides(proc[q].env)
                                /\ ~(remoteOn /\ s \in remote.gives \ FromBootstrap)
                          /\ proc[p].entry = "server" => Secret(q)
        BY DEF OneConfiguration
    <2>2. /\ \A s : LayerOf(p, s) = Layer(proc[p].env, s)
          /\ \A s : LayerOf(q, s) = Layer(proc[q].env, s)
        BY <1>2, <2>1 DEF LayerOf, Layer
    <2>3. ASSUME NEW s \in Settings, NEW e, NEW f, Layer(e, s) # Layer(f, s)
          PROVE  /\ e # f /\ s \in Overrides(e) \cup Overrides(f)
                 /\ ~(remoteOn /\ s \in remote.gives \ FromBootstrap)
        BY <2>3 DEF Layer, Local, MergeRemote
    <2>4. ASSUME proc[p].entry = "server" PROVE Secret(q)
        <3>1. HasSecret(MergeRemote(proc[p].env))
            BY <1>2, <2>1, <2>4
        <3>2. LocalSecret \/ (remoteOn /\ "jwt.secret" \in remote.gives)
            BY <1>2, <2>1, <3>1, SecretRemote
        <3>3. LocalSecret \/ LayerOf(q, "jwt.secret").from = "remote"
            BY <2>2, <3>2, RemoteSecret
        <3>4. QED BY <3>3 DEF Secret
    <2>5. QED BY <2>2, <2>3, <2>4
<1>4. ASSUME NEW p \in Procs, proc[p].at = "closing", proc[p].todo = <<>>
      PROVE  proc[p].open = unclosed[p]
    <2>1. ClosingFits(proc[p], unclosed[p])
        BY <1>1, <1>4 DEF StartupInv, ProcFits
    <2>2. DOMAIN proc[p].todo = {}
        BY <1>4
    <2>3. QED BY <2>1, <2>2 DEF ClosingFits
<1>5. ClosedBehind
    BY <1>2, <1>4 DEF ClosedBehind
<1>6. QED BY <1>3, <1>5 DEF StartupSafe

\* ... and which the initial states satisfy.
LEMMA StartupStart == StartupInit => StartupInv
<1>1. SUFFICES ASSUME StartupInit PROVE StartupInv
    OBVIOUS
<1>2. ProcFits(Off, {})
    BY DEF ProcFits, Off
<1>3. StartupTypeOK
    BY <1>1, StartupAssumption DEF StartupInit, StartupTypeOK
<1>4. QED BY <1>1, <1>2, <1>3 DEF StartupInit, StartupInv

\* Processes that came up after the last change of the remote key run, in one
\* environment, on one configuration, and in two differ only in what a file of
\* one gives and the remote key does not or too late; beside a server all have
\* its secret.  Each holds open what its Close will close, and leaves nothing open
\* but what would not be closed (viper.go, config.go, wire_gen.go, app.go).
THEOREM StartupHolds == StartupSpec => []StartupSafe
BY StartupMeans, StartupStart, StartupStep, PTL DEF StartupSpec

-----------------------------------------------------------------------------
(* Balancers *)

(* Induction over the natural numbers, from the fact that < is well founded there. *)

\* A non-empty set of naturals has a least element, ...
LEMMA LeastNumber == ASSUME NEW T \in SUBSET Nat, T # {} PROVE \E x \in T : \A y \in T : x <= y
<1>1. PICK x \in T : \A y \in T : ~(<<y, x>> \in OpToRel(<, Nat))
  BY WFMin, NatLessThanWellFounded
<1>2. ASSUME NEW y \in T PROVE x <= y
  <2>1. ~(<<y, x>> \in {ss \in Nat \X Nat : ss[1] < ss[2]}) BY <1>1 DEF OpToRel
  <2>2. <<y, x>> \in Nat \X Nat OBVIOUS
  <2>3. ~(y < x) BY <2>1, <2>2
  <2>4. QED BY <2>3
<1>3. QED BY <1>2

\* ... so one with 0 and every successor has all: induction over a set, written by hand.
LEMMA UpFromZero ==
    ASSUME NEW T \in SUBSET Nat, 0 \in T, \A k \in Nat : k \in T => k + 1 \in T
    PROVE  T = Nat
<1>1. SUFFICES ASSUME Nat \ T # {} PROVE FALSE OBVIOUS
<1>2. PICK x \in Nat \ T : \A y \in Nat \ T : x <= y BY <1>1, LeastNumber
<1>3. x # 0 /\ x - 1 \in Nat BY <1>2
<1>4. x - 1 \in T BY <1>2, <1>3
<1>5. QED BY <1>2, <1>3, <1>4

(* Weighted random: the weights summed up, and the draws that fall to one instance. *)

\* f is the sequence of the sums of the first m weights.
SumsUp(ws, f, m) == f = [i \in 0 .. m |-> IF i = 0 THEN 0 ELSE f[i - 1] + EffectiveWeight(ws[i])]

\* WeightUpTo is a choice among the partial sums, ...
LEMMA WeightsAddUp ==
    ASSUME NEW ws
    PROVE  WeightUpTo(ws) = CHOOSE f : SumsUp(ws, f, Len(ws))
BY DEF WeightUpTo, SumsUp

\* ... which exist for every list, ...
LEMMA WeightsCanBeSummed ==
    ASSUME NEW n \in Nat, NEW ws \in [1 .. n -> Int]
    PROVE  \E f \in [0 .. n -> Nat] : SumsUp(ws, f, n)
<1> DEFINE T == {k \in Nat : k <= n => \E f \in [0 .. k -> Nat] : SumsUp(ws, f, k)}
<1>1. 0 \in T
  <2>1. [i \in 0 .. 0 |-> 0] \in [0 .. 0 -> Nat] OBVIOUS
  <2>2. SumsUp(ws, [i \in 0 .. 0 |-> 0], 0) BY DEF SumsUp
  <2>3. QED BY <2>1, <2>2
<1>2. ASSUME NEW k \in Nat, k \in T PROVE k + 1 \in T
  <2>1. SUFFICES ASSUME k + 1 <= n PROVE \E f \in [0 .. k + 1 -> Nat] : SumsUp(ws, f, k + 1)
    OBVIOUS
  <2>2. PICK f \in [0 .. k -> Nat] : SumsUp(ws, f, k) BY <1>2, <2>1
  <2> DEFINE g == [i \in 0 .. k + 1 |-> IF i = k + 1 THEN f[k] + EffectiveWeight(ws[i])
                                        ELSE f[i]]
  <2>3. \A i \in 1 .. k + 1 : EffectiveWeight(ws[i]) \in Nat BY <2>1 DEF EffectiveWeight
  <2>4. g \in [0 .. k + 1 -> Nat]
    <3>1. ASSUME NEW i \in 0 .. k + 1 PROVE g[i] \in Nat
      <4>1. CASE i = k + 1
        <5>1. f[k] \in Nat OBVIOUS
        <5>2. g[i] = f[k] + EffectiveWeight(ws[k + 1]) BY <4>1
        <5>3. EffectiveWeight(ws[k + 1]) \in Nat BY <2>3
        <5>4. QED BY <5>1, <5>2, <5>3
      <4>2. CASE i # k + 1
        <5>1. i \in 0 .. k BY <4>2
        <5>2. g[i] = f[i] BY <4>2
        <5>3. QED BY <5>1, <5>2
      <4>3. QED BY <4>1, <4>2
    <3>2. QED BY <3>1
  <2>5. \A i \in 0 .. k : f[i] = IF i = 0 THEN 0 ELSE f[i - 1] + EffectiveWeight(ws[i])
    BY <2>2 DEF SumsUp
  <2>6. ASSUME NEW i \in 0 .. k + 1
        PROVE  g[i] = IF i = 0 THEN 0 ELSE g[i - 1] + EffectiveWeight(ws[i])
    <3>1. CASE i = k + 1
      <4>1. i # 0 /\ i - 1 = k /\ k # k + 1 /\ k \in 0 .. k + 1 BY <3>1
      <4>2. g[i - 1] = f[k] BY <4>1
      <4>3. QED BY <3>1, <4>1, <4>2
    <3>2. CASE i # k + 1
      <4>1. i \in 0 .. k BY <3>2
      <4>2. g[i] = f[i] BY <3>2
      <4>3. CASE i = 0 BY <4>1, <4>2, <4>3, <2>5
      <4>4. CASE i # 0
        <5>1. i - 1 \in 0 .. k + 1 /\ i - 1 # k + 1 BY <4>1, <4>4
        <5>2. g[i - 1] = f[i - 1] BY <5>1
        <5>3. QED BY <4>1, <4>2, <4>4, <5>2, <2>5
      <4>5. QED BY <4>3, <4>4
    <3>3. QED BY <3>1, <3>2
  <2>7. g = [i \in 0 .. k + 1 |-> IF i = 0 THEN 0 ELSE g[i - 1] + EffectiveWeight(ws[i])]
    BY <2>6
  <2>8. QED BY <2>4, <2>7 DEF SumsUp
<1> HIDE DEF T
<1>3. T \in SUBSET Nat BY DEF T
<1>4. T = Nat BY <1>1, <1>2, <1>3, UpFromZero
<1>5. n \in T BY <1>4
<1>6. QED BY <1>5, n <= n DEF T

\* ... so it is the partial sums.
LEMMA WeightsOf ==
    ASSUME NEW n \in Nat, NEW ws \in [1 .. n -> Int]
    PROVE  /\ WeightUpTo(ws) \in [0 .. n -> Nat]
           /\ WeightUpTo(ws)[0] = 0
           /\ \A i \in 1 .. n : /\ WeightUpTo(ws)[i] = WeightUpTo(ws)[i - 1] + EffectiveWeight(ws[i])
                              /\ EffectiveWeight(ws[i]) \in Nat \ {0}
           /\ Len(ws) = n
<1>0. Len(ws) = n BY LenProperties
<1> DEFINE f == WeightUpTo(ws)
<1>1. SumsUp(ws, f, n)
  <2>1. f = CHOOSE g : SumsUp(ws, g, n) BY <1>0, WeightsAddUp
  <2>2. \E g : SumsUp(ws, g, n) BY WeightsCanBeSummed
  <2>3. QED BY <2>1, <2>2, Zenon
<1> HIDE DEF f
<1>2. \A i \in 0 .. n : f[i] = IF i = 0 THEN 0 ELSE f[i - 1] + EffectiveWeight(ws[i])
  BY <1>1 DEF SumsUp
<1>3. DOMAIN f = 0 .. n /\ f = [i \in 0 .. n |-> f[i]] BY <1>1 DEF SumsUp
<1>4. \A i \in 1 .. n : EffectiveWeight(ws[i]) \in Nat \ {0} BY DEF EffectiveWeight
<1> DEFINE T == {k \in Nat : k <= n => f[k] \in Nat}
<1>5. 0 \in T BY <1>2
<1>6. ASSUME NEW k \in Nat, k \in T PROVE k + 1 \in T
  <2>1. SUFFICES ASSUME k + 1 <= n PROVE f[k + 1] \in Nat OBVIOUS
  <2>2. f[k] \in Nat BY <1>6, <2>1
  <2>3. f[k + 1] = f[k] + EffectiveWeight(ws[k + 1])
    <3>1. k + 1 \in 0 .. n /\ k + 1 # 0 /\ (k + 1) - 1 = k BY <2>1
    <3>2. QED BY <1>2, <3>1
  <2>4. EffectiveWeight(ws[k + 1]) \in Nat BY <1>4, <2>1
  <2>5. QED BY <2>2, <2>3, <2>4
<1> HIDE DEF T
<1>7. T \in SUBSET Nat BY DEF T
<1>8. T = Nat BY <1>5, <1>6, <1>7, UpFromZero
<1>9. \A k \in 0 .. n : f[k] \in Nat BY <1>8 DEF T
<1>10. f \in [0 .. n -> Nat] BY <1>3, <1>9
<1>11. \A i \in 1 .. n : f[i] = f[i - 1] + EffectiveWeight(ws[i])
  <2>1. \A i \in 1 .. n : i \in 0 .. n /\ i # 0 OBVIOUS
  <2>2. QED BY <1>2, <2>1
<1>12. f[0] = 0 BY <1>2
<1>13. QED BY <1>0, <1>4, <1>10, <1>11, <1>12 DEF f

\* The partial sums grow strictly.
LEMMA WeightsGrow ==
    ASSUME NEW n \in Nat, NEW ws \in [1 .. n -> Int], NEW i \in 0 .. n, NEW j \in 0 .. n, i < j
    PROVE  WeightUpTo(ws)[i] < WeightUpTo(ws)[j]
<1> DEFINE f == WeightUpTo(ws)
           T == {k \in Nat : k <= n /\ i < k => f[i] < f[k]}
<1>0. f \in [0 .. n -> Nat] BY WeightsOf
<1>1. \A k \in 1 .. n : f[k - 1] < f[k]
  <2>1. \A k \in 1 .. n : f[k] = f[k - 1] + EffectiveWeight(ws[k])
                       /\ EffectiveWeight(ws[k]) \in Nat \ {0}
    BY WeightsOf
  <2>2. \A k \in 1 .. n : f[k - 1] \in Nat BY <1>0
  <2>3. QED BY <2>1, <2>2
<1> HIDE DEF f
<1>2. 0 \in T OBVIOUS
<1>3. ASSUME NEW k \in Nat, k \in T PROVE k + 1 \in T
  <2>1. SUFFICES ASSUME k + 1 <= n, i < k + 1 PROVE f[i] < f[k + 1] OBVIOUS
  <2>2. f[k] < f[k + 1]
    <3>1. k + 1 \in 1 .. n /\ (k + 1) - 1 = k BY <2>1
    <3>2. QED BY <1>1, <3>1
  <2>3. f[i] \in Nat /\ f[k] \in Nat /\ f[k + 1] \in Nat BY <1>0, <2>1
  <2>4. i = k \/ f[i] < f[k] BY <1>3, <2>1
  <2>5. QED BY <2>2, <2>3, <2>4
<1> HIDE DEF T
<1>4. T \in SUBSET Nat BY DEF T
<1>5. T = Nat BY <1>2, <1>3, <1>4, UpFromZero
<1>6. f[i] < f[j] BY <1>5 DEF T
<1>7. QED BY <1>6 DEF f

\* An instance is picked by the draws between the sum before it and the sum up to it.
LEMMA DrawsOfOne ==
    ASSUME NEW n \in Nat, NEW ws \in [1 .. n -> Int], NEW i \in 1 .. n,
           NEW r \in 0 .. TotalWeight(ws) - 1
    PROVE  PickWeighted(ws, r) = i
             <=> WeightUpTo(ws)[i - 1] <= r /\ r < WeightUpTo(ws)[i]
<1> DEFINE f == WeightUpTo(ws)
           hits == {k \in 1 .. n : r < f[k]}
<1>0. f \in [0 .. n -> Nat] /\ f[0] = 0 /\ Len(ws) = n BY WeightsOf
<1>1. r \in Nat /\ r < f[n]
  <2>1. f[n] \in Nat BY <1>0
  <2>2. QED BY <1>0, <2>1 DEF TotalWeight
<1>2. \A j, k \in 0 .. n : j < k => f[j] < f[k] BY WeightsGrow
<1> HIDE DEF f
<1>3. {k \in DOMAIN ws : Exhausted(r - f[k])} = hits
  <2>1. DOMAIN ws = 1 .. n OBVIOUS
  <2>2. \A k \in 1 .. n : f[k] \in Nat BY <1>0
  <2>3. \A k \in 1 .. n : (r - f[k] < 0) <=> r < f[k] BY <1>1, <2>2
  <2>4. QED BY <2>1, <2>3 DEF Exhausted
<1>4. n \in hits BY <1>1
<1>5. PickWeighted(ws, r) = CHOOSE k \in hits : \A j \in hits : k <= j
  BY <1>3, <1>4 DEF PickWeighted, f
<1>6. \E k \in hits : \A j \in hits : k <= j
  <2>1. hits \in SUBSET Nat OBVIOUS
  <2>2. QED BY <1>4, <2>1, LeastNumber
<1> DEFINE p == PickWeighted(ws, r)
<1>7. p \in hits /\ \A j \in hits : p <= j BY <1>5, <1>6, Zenon
<1> HIDE DEF p
<1>8. ASSUME p = i PROVE f[i - 1] <= r /\ r < f[i]
  <2>1. r < f[i] BY <1>7, <1>8
  <2>2. CASE i = 1 BY <1>0, <1>1, <2>1, <2>2
  <2>3. CASE i # 1
    <3>1. i - 1 \in 1 .. n BY <2>3
    <3>2. i - 1 \notin hits BY <1>7, <1>8
    <3>3. f[i - 1] \in Nat BY <1>0
    <3>4. QED BY <2>1, <3>1, <3>2, <3>3, <1>1
  <2>4. QED BY <2>2, <2>3
<1>9. ASSUME f[i - 1] <= r, r < f[i] PROVE p = i
  <2>1. i \in hits BY <1>9
  <2>2. p \in 1 .. n /\ p <= i /\ r < f[p] BY <1>7, <2>1
  <2>3. CASE p < i
    <3>1. f[p] <= f[i - 1]
      <4>1. p \in 0 .. n /\ i - 1 \in 0 .. n /\ (p = i - 1 \/ p < i - 1) BY <2>2, <2>3
      <4>2. f[p] \in Nat /\ f[i - 1] \in Nat BY <1>0, <4>1
      <4>3. QED BY <1>2, <4>1, <4>2
    <3>2. f[p] \in Nat /\ f[i - 1] \in Nat BY <1>0, <2>2
    <3>3. QED BY <1>1, <1>9, <2>2, <3>1, <3>2
  <2>4. QED BY <2>2, <2>3
<1>10. QED BY <1>8, <1>9 DEF f, p

\* An instance owns as many draws as its effective weight.
LEMMA SharesOf ==
    ASSUME NEW n \in Nat, NEW ws \in [1 .. n -> Int], NEW i \in 1 .. n
    PROVE  Cardinality({r \in 0 .. TotalWeight(ws) - 1 : PickWeighted(ws, r) = i})
             = EffectiveWeight(ws[i])
<1> DEFINE f == WeightUpTo(ws)
           draws == {r \in 0 .. TotalWeight(ws) - 1 : PickWeighted(ws, r) = i}
<1>1. f \in [0 .. n -> Nat] /\ Len(ws) = n /\ f[i] = f[i - 1] + EffectiveWeight(ws[i])
      /\ EffectiveWeight(ws[i]) \in Nat \ {0}
  BY WeightsOf
<1>2. \A r \in 0 .. TotalWeight(ws) - 1 : r \in draws <=> f[i - 1] <= r /\ r < f[i]
  BY DrawsOfOne
<1>3. f[i] <= f[n]
  <2>1. f[i] \in Nat /\ f[n] \in Nat BY <1>1
  <2>2. i = n \/ i < n OBVIOUS
  <2>3. i < n => f[i] < f[n] BY WeightsGrow
  <2>4. QED BY <2>1, <2>2, <2>3
<1>4. TotalWeight(ws) = f[n] BY <1>1 DEF TotalWeight
<1> HIDE DEF f
<1>5. f[i - 1] \in Nat /\ f[i] \in Nat /\ f[n] \in Nat BY <1>1
<1>6. draws = f[i - 1] .. f[i] - 1
  <2>1. draws \subseteq 0 .. f[n] - 1 BY <1>4
  <2>2. f[i - 1] .. f[i] - 1 \subseteq 0 .. f[n] - 1 BY <1>3, <1>5
  <2>3. \A r \in 0 .. f[n] - 1 : r \in draws <=> f[i - 1] <= r /\ r < f[i] BY <1>2, <1>4
  <2> HIDE DEF draws
  <2>4. \A r \in 0 .. f[n] - 1 : r \in draws <=> r \in f[i - 1] .. f[i] - 1 BY <2>3, <1>5
  <2>5. QED BY <2>1, <2>2, <2>4
<1>7. Cardinality(f[i - 1] .. f[i] - 1) = f[i] - f[i - 1]
  <2> DEFINE a == f[i - 1]
             b == f[i] - 1
  <2>1. a \in Int /\ b \in Int /\ ~(a > b) BY <1>1, <1>5
  <2>2. b - a + 1 = f[i] - f[i - 1] BY <1>5
  <2> HIDE DEF a, b
  <2>3. Cardinality(a .. b) = b - a + 1 BY <2>1, FS_Interval
  <2>4. QED BY <2>2, <2>3 DEF a, b
<1>8. f[i] - f[i - 1] = EffectiveWeight(ws[i]) BY <1>1, <1>5
<1>9. QED BY <1>6, <1>7, <1>8

(* Round robin: the picks since the last change form whole rounds and an arc. *)

\* Quotient and remainder are unique, ...
LEMMA SameRemainder ==
    ASSUME NEW n \in Nat, NEW q1 \in Int, NEW r1 \in Int, NEW q2 \in Int, NEW r2 \in Int,
           (n * q1) + r1 = (n * q2) + r2, 0 <= r1, r1 < n, 0 <= r2, r2 < n, q1 > q2
    PROVE  FALSE
<1>1. PICK k \in Nat : q1 = q2 + 1 + k
  <2>1. q1 - q2 - 1 \in Nat /\ q1 = q2 + 1 + (q1 - q2 - 1) OBVIOUS
  <2>2. QED BY <2>1
<1>2. n * q1 = (n * q2) + n + (n * k) BY <1>1
<1>3. n * k >= 0 OBVIOUS
<1>4. n * q1 \in Int /\ n * q2 \in Int /\ n * k \in Int OBVIOUS
<1>5. QED BY <1>2, <1>3, <1>4

\* ... so a decomposition gives the remainder, ...
LEMMA RemainderIs ==
    ASSUME NEW n \in Nat \ {0}, NEW c \in Nat, NEW q \in Int, NEW r \in 0 .. n - 1,
           c = (n * q) + r
    PROVE  c % n = r
<1> DEFINE d == c \div n
           e == c % n
<1>1. d \in Int /\ e \in Int /\ 0 <= e /\ e < n /\ c = (n * d) + e OBVIOUS
<1> HIDE DEF d, e
<1>2. ~(d > q) BY <1>1, SameRemainder
<1>3. ~(q > d) BY <1>1, SameRemainder
<1>4. d = q BY <1>1, <1>2, <1>3
<1>5. n * d = n * q /\ n * q \in Int BY <1>4
<1>6. e = r BY <1>1, <1>5
<1>7. QED BY <1>6 DEF e

\* ... and the next remainder is the next position, or the first.
LEMMA NextRemainder ==
    ASSUME NEW n \in Nat \ {0}, NEW c \in Nat
    PROVE  /\ c % n \in 0 .. n - 1
           /\ (c + 1) % n = IF (c % n) + 1 = n THEN 0 ELSE (c % n) + 1
<1> DEFINE d == c \div n
           e == c % n
<1>1. d \in Int /\ e \in Int /\ 0 <= e /\ e < n /\ c = (n * d) + e OBVIOUS
<1> HIDE DEF d, e
<1>2. CASE e + 1 = n
  <2>1. n * (d + 1) = (n * d) + n /\ n * d \in Int BY <1>1
  <2>2. c + 1 = (n * (d + 1)) + 0 BY <1>1, <1>2, <2>1
  <2>3. (c + 1) % n = 0 BY <1>1, <2>2, RemainderIs
  <2>4. QED BY <1>1, <1>2, <2>3 DEF e
<1>3. CASE e + 1 # n
  <2>1. n * d \in Int BY <1>1
  <2>2. c + 1 = (n * d) + (e + 1) /\ e + 1 \in 0 .. n - 1 BY <1>1, <1>3, <2>1
  <2>3. (c + 1) % n = e + 1 BY <1>1, <2>2, RemainderIs
  <2>4. QED BY <1>1, <1>3, <2>3 DEF e
<1>4. QED BY <1>2, <1>3

\* The places from s up to t, around the end of the list.
InArc(j, s, t) == IF s <= t THEN s <= j /\ j < t ELSE s <= j \/ j < t

\* Every place has been picked m times, those of the arc once more.
Rounds(n, ps, m, s, t) ==
    \A i \in 1 .. n : ps[i] = IF InArc(i - 1, s, t) THEN m + 1 ELSE m

\* A pick at the next position continues the rounds.
LEMMA RoundsGoOn ==
    ASSUME NEW n \in Nat \ {0}, NEW ps \in [1 .. n -> Nat], NEW m \in Nat,
           NEW s \in 0 .. n - 1, NEW t \in 0 .. n - 1,
           NEW u \in 0 .. n - 1, NEW qs \in [1 .. n -> Nat],
           Rounds(n, ps, m, s, t),
           u = (IF t + 1 = n THEN 0 ELSE t + 1),
           qs[t + 1] = ps[t + 1] + 1,
           \A i \in 1 .. n : i # t + 1 => qs[i] = ps[i]
    PROVE  Rounds(n, qs, m, s, u) \/ Rounds(n, qs, m + 1, s, u)
<1>1. \A i \in 1 .. n : qs[i] = IF i = t + 1 THEN ps[i] + 1 ELSE ps[i] OBVIOUS
<1>2. \A i \in 1 .. n : ps[i] = IF InArc(i - 1, s, t) THEN m + 1 ELSE m BY DEF Rounds
<1>3. ~InArc(t, s, t) BY DEF InArc
<1>4. u \in 0 .. n - 1 OBVIOUS
<1>5. qs[t + 1] = m + 1
  <2>1. t + 1 \in 1 .. n /\ (t + 1) - 1 = t OBVIOUS
  <2>2. QED BY <1>1, <1>2, <1>3, <2>1
<1>6. ASSUME u = s PROVE Rounds(n, qs, m + 1, s, u)
  <2>1. ASSUME NEW i \in 1 .. n PROVE qs[i] = IF InArc(i - 1, s, u) THEN m + 1 + 1 ELSE m + 1
    <3>1. ~InArc(i - 1, s, u) BY <1>6 DEF InArc
    <3>2. i # t + 1 => InArc(i - 1, s, t) BY <1>6 DEF InArc
    <3>3. qs[i] = m + 1 BY <1>1, <1>2, <1>5, <3>2
    <3>4. QED BY <3>1, <3>3
  <2>2. QED BY <2>1 DEF Rounds
<1>7. ASSUME u # s PROVE Rounds(n, qs, m, s, u)
  <2>1. ASSUME NEW i \in 1 .. n PROVE qs[i] = IF InArc(i - 1, s, u) THEN m + 1 ELSE m
    <3>1. InArc(i - 1, s, u) <=> (i = t + 1 \/ InArc(i - 1, s, t)) BY <1>7 DEF InArc
    <3>2. QED BY <1>1, <1>2, <1>5, <3>1
  <2>2. QED BY <2>1 DEF Rounds
<1>8. QED BY <1>6, <1>7

\* In rounds no two instances differ by more than one pick.
LEMMA RoundsAreEven ==
    ASSUME NEW n \in Nat, NEW ps, NEW m \in Nat, NEW s, NEW t, Rounds(n, ps, m, s, t)
    PROVE  \A i, j \in 1 .. n : ps[i] <= ps[j] + 1
<1>1. \A i \in 1 .. n : ps[i] = m + 1 \/ ps[i] = m BY DEF Rounds
<1>2. QED BY <1>1

\* The counter goes up by one, or wraps and is lower than before.
LEMMA AdvanceIs ==
    ASSUME NEW c \in 0 .. 2^W - 1
    PROVE  /\ Advance(c) \in 0 .. 2^W - 1
           /\ Advance(c) = c + 1 \/ Advance(c) < c
<1> DEFINE z == 2^W
<1>1. z \in Nat \ {0} /\ c \in 0 .. z - 1 /\ z # 1 BY BalancersAssumption DEF BalancersAssumption
<1>2. Advance(c) = (c + 1) % z BY DEF Advance
<1> HIDE DEF z
<1>3. CASE c + 1 = z
  <2>1. c + 1 = (z * 1) + 0 /\ 0 \in 0 .. z - 1 BY <1>1, <1>3
  <2>2. (c + 1) % z = 0 BY <1>1, <2>1, RemainderIs
  <2>3. QED BY <1>1, <1>2, <1>3, <2>2 DEF z
<1>4. CASE c + 1 # z
  <2>1. c + 1 = (z * 0) + (c + 1) /\ c + 1 \in 0 .. z - 1 BY <1>1, <1>4
  <2>2. (c + 1) % z = c + 1 BY <1>1, <2>1, RemainderIs
  <2>3. QED BY <1>1, <1>2, <1>4, <2>2, <2>1 DEF z
<1>5. QED BY <1>3, <1>4

\* Whole rounds have been dealt to the list and, from some place on, an arc that
\* ends where the counter stands.
RoundsDealt ==
    skewed \/ \E s \in 0 .. Len(insts) - 1, m \in Nat :
                Rounds(Len(insts), picks, m, s, counter % Len(insts))

BalancersInv ==
    /\ BalancersTypeOK
    /\ insts = <<>> \/ RoundsDealt

\* A list of instances as a function of its positions.
LEMMA ListsOf ==
    ASSUME NEW ws \in InstanceLists
    PROVE  /\ Len(ws) \in Nat
           /\ ws \in [1 .. Len(ws) -> Weights]
           /\ DOMAIN ws = 1 .. Len(ws)
           /\ ws = <<>> <=> Len(ws) = 0
<1>1. PICK n \in 0 .. MaxInstances : ws \in [1 .. n -> Weights] BY DEF InstanceLists
<1>2. n \in Nat BY BalancersAssumption DEF BalancersAssumption
<1>3. Len(ws) = n /\ ws \in Seq(Weights) BY <1>1, <1>2, LenProperties
<1>4. ws = <<>> <=> Len(ws) = 0 BY <1>3, EmptySeq, LenProperties
<1>5. QED BY <1>1, <1>2, <1>3, <1>4

\* A weighted pick gives every instance its share.
LEMMA SharesAreRight ==
    ASSUME insts \in InstanceLists
    PROVE  WeightedShares
<1>1. insts \in [1 .. Len(insts) -> Int] /\ Len(insts) \in Nat /\ DOMAIN insts = 1 .. Len(insts)
  <2>1. Weights \subseteq Int BY BalancersAssumption DEF BalancersAssumption
  <2>2. insts \in [1 .. Len(insts) -> Weights] /\ Len(insts) \in Nat BY ListsOf
  <2>3. QED BY <2>1, <2>2
<1>2. QED BY <1>1, SharesOf DEF WeightedShares

\* The invariant gives the properties the runs check, ...
LEMMA BalancersMean == BalancersInv => BalancersTypeOK /\ BalancersFair
<1>1. SUFFICES ASSUME BalancersInv PROVE RoundRobinEven
  BY SharesAreRight DEF BalancersInv, BalancersTypeOK, BalancersFair
<1>2. Len(insts) \in Nat /\ DOMAIN insts = 1 .. Len(insts) /\ (insts = <<>> => Len(insts) = 0)
  BY <1>1, ListsOf DEF BalancersInv, BalancersTypeOK
<1>3. CASE insts = <<>> BY <1>2, <1>3 DEF RoundRobinEven
<1>4. CASE skewed BY <1>4 DEF RoundRobinEven
<1>5. CASE insts # <<>> /\ ~skewed
  <2>1. PICK s \in 0 .. Len(insts) - 1, m \in Nat :
            Rounds(Len(insts), picks, m, s, counter % Len(insts))
    BY <1>1, <1>5 DEF BalancersInv, RoundsDealt
  <2>2. \A i, j \in 1 .. Len(insts) : picks[i] <= picks[j] + 1 BY <1>2, <2>1, RoundsAreEven
  <2>3. QED BY <1>2, <2>2 DEF RoundRobinEven
<1>6. QED BY <1>3, <1>4, <1>5

\* Nothing has been picked of a list: the arc is empty.
LEMMA NothingPicked ==
    ASSUME NEW n \in Nat \ {0}, NEW c \in Nat
    PROVE  \E s \in 0 .. n - 1, m \in Nat : Rounds(n, [i \in 1 .. n |-> 0], m, s, c % n)
<1> DEFINE t == c % n
<1>1. t \in 0 .. n - 1 BY NextRemainder
<1> HIDE DEF t
<1>2. Rounds(n, [i \in 1 .. n |-> 0], 0, t, t) BY <1>1 DEF Rounds, InArc
<1>3. QED BY <1>1, <1>2 DEF t

\* ... the initial states satisfy it, ...
LEMMA BalancersStart == BalancersInit => BalancersInv
<1> SUFFICES ASSUME BalancersInit PROVE BalancersInv
  OBVIOUS
<1> USE DEF BalancersInit
<1>1. Len(insts) \in Nat /\ DOMAIN insts = 1 .. Len(insts) /\ (insts = <<>> <=> Len(insts) = 0)
  BY ListsOf
<1>2. <<>> \in InstanceLists
  <2>1. <<>> \in [1 .. 0 -> Weights] OBVIOUS
  <2>2. 0 \in 0 .. MaxInstances BY BalancersAssumption DEF BalancersAssumption
  <2>3. QED BY <2>1, <2>2 DEF InstanceLists
<1>3. BalancersTypeOK
  <2>1. 0 \in 0 .. 2^W - 1 BY BalancersAssumption DEF BalancersAssumption
  <2>2. QED BY <1>2, <2>1 DEF BalancersTypeOK
<1>4. insts # <<>> => RoundsDealt BY <1>1, NothingPicked DEF RoundsDealt
<1>5. QED BY <1>3, <1>4 DEF BalancersInv

\* ... and every step keeps it.
LEMMA BalancersStep ==
    BalancersInv /\ [BalancersNext]_balancersVars => BalancersInv'
<1> SUFFICES ASSUME BalancersInv, [BalancersNext]_balancersVars PROVE BalancersInv'
  OBVIOUS
<1>t. /\ insts \in InstanceLists /\ counter \in 0 .. 2^W - 1
      /\ copied \in [Pickers -> InstanceLists] /\ picks \in [DOMAIN insts -> Nat]
      /\ skewed \in BOOLEAN
  BY DEF BalancersInv, BalancersTypeOK
<1>e. <<>> \in InstanceLists
  <2>1. <<>> \in [1 .. 0 -> Weights] OBVIOUS
  <2>2. 0 \in 0 .. MaxInstances BY BalancersAssumption DEF BalancersAssumption
  <2>3. QED BY <2>1, <2>2 DEF InstanceLists
<1>c. counter \in Nat BY <1>t, BalancersAssumption DEF BalancersAssumption
<1>1. ASSUME ChangeInstances PROVE BalancersInv'
  <2> USE <1>1 DEF ChangeInstances
  <2>1. /\ Len(insts') \in Nat /\ DOMAIN insts' = 1 .. Len(insts')
        /\ (insts' = <<>> <=> Len(insts') = 0)
    BY ListsOf
  <2>2. BalancersTypeOK'
    <3>1. picks' \in [DOMAIN insts' -> Nat] OBVIOUS
    <3>2. skewed' \in BOOLEAN OBVIOUS
    <3>3. QED BY <1>t, <3>1, <3>2 DEF BalancersTypeOK
  <2>3. insts' # <<>> => RoundsDealt' BY <1>c, <2>1, NothingPicked DEF RoundsDealt
  <2>4. QED BY <2>2, <2>3 DEF BalancersInv
<1>2. ASSUME NEW p \in Pickers, GetInstances(p) PROVE BalancersInv'
  <2> USE <1>2 DEF GetInstances
  <2>1. BalancersTypeOK' BY <1>t DEF BalancersTypeOK
  <2>2. RoundsDealt => RoundsDealt' BY DEF RoundsDealt
  <2>3. QED BY <2>1, <2>2 DEF BalancersInv
<1>3. ASSUME NEW p \in Pickers, PickNext(p) PROVE BalancersInv'
  <2> DEFINE n == Len(insts)
             t == counter % n
  <2>1. /\ copied[p] # <<>> /\ counter' = Advance(counter)
        /\ skewed' = (skewed \/ copied[p] # insts \/ counter' < counter)
        /\ copied' = [copied EXCEPT ![p] = <<>>] /\ insts' = insts
    BY <1>3 DEF PickNext
  <2>2. counter' \in 0 .. 2^W - 1 /\ (counter' = counter + 1 \/ counter' < counter)
    BY <1>t, <2>1, AdvanceIs
  <2>3. CASE copied[p] # insts
    <3>1. picks' = picks BY <1>3, <2>3 DEF PickNext
    <3>2. skewed' BY <2>1, <2>3
    <3>3. BalancersTypeOK' BY <1>t, <1>e, <2>1, <2>2, <3>1, <3>2 DEF BalancersTypeOK
    <3>4. QED BY <3>2, <3>3 DEF BalancersInv, RoundsDealt
  <2>4. CASE copied[p] = insts
    <3>1. n \in Nat \ {0} /\ DOMAIN insts = 1 .. n BY <1>t, <2>1, <2>4, ListsOf
    <3>2. /\ t \in 0 .. n - 1
          /\ (counter + 1) % n = IF t + 1 = n THEN 0 ELSE t + 1
      BY <1>c, <3>1, NextRemainder
    <3>3. picks' = [picks EXCEPT ![t + 1] = @ + 1] BY <1>3, <2>4 DEF PickNext
    <3> HIDE DEF t, n
    <3>4. picks' \in [DOMAIN insts -> Nat] BY <1>t, <3>1, <3>2, <3>3
    <3>5. skewed' \in BOOLEAN BY <1>t, <2>1
    <3>6. BalancersTypeOK' BY <1>t, <1>e, <2>1, <2>2, <3>4, <3>5 DEF BalancersTypeOK
    <3>7. RoundsDealt'
      <4>1. CASE skewed' BY <4>1 DEF RoundsDealt
      <4>2. CASE ~skewed'
        <5>1. ~skewed /\ counter' = counter + 1 BY <2>1, <2>2, <4>2
        <5>2. insts # <<>> BY <2>1, <2>4
        <5>3. PICK s \in 0 .. n - 1, m \in Nat : Rounds(n, picks, m, s, t)
          BY <5>1, <5>2 DEF BalancersInv, RoundsDealt, n, t
        <5>4. picks \in [1 .. n -> Nat] BY <1>t, <3>1
        <5> DEFINE u == (counter + 1) % n
                   qs == picks'
        <5>a. n \in Nat \ {0} /\ s \in 0 .. n - 1 /\ t \in 0 .. n - 1 /\ m \in Nat BY <3>1, <3>2
        <5>b. u \in 0 .. n - 1 /\ u = (IF t + 1 = n THEN 0 ELSE t + 1) BY <3>1, <3>2
        <5>c. qs \in [1 .. n -> Nat] BY <3>1, <3>4
        <5>d. qs[t + 1] = picks[t + 1] + 1 BY <3>1, <3>2, <3>3, <5>4
        <5>e. \A i \in 1 .. n : i # t + 1 => qs[i] = picks[i] BY <3>3, <5>4
        <5> HIDE DEF u, qs
        <5>6. Rounds(n, qs, m, s, u) \/ Rounds(n, qs, m + 1, s, u)
          BY <5>3, <5>4, <5>a, <5>b, <5>c, <5>d, <5>e, RoundsGoOn
        <5>7. \E k \in Nat : Rounds(n, picks', k, s, counter' % n) BY <5>1, <5>6 DEF u, qs
        <5>8. Len(insts') = n /\ s \in 0 .. n - 1 BY <2>1, <5>3 DEF n
        <5>9. QED BY <5>7, <5>8 DEF RoundsDealt
      <4>3. QED BY <4>1, <4>2
    <3>8. QED BY <3>6, <3>7 DEF BalancersInv
  <2>5. QED BY <2>3, <2>4
<1>4. ASSUME UNCHANGED balancersVars PROVE BalancersInv'
  <2>1. BalancersTypeOK' BY <1>t, <1>4 DEF BalancersTypeOK, balancersVars
  <2>2. RoundsDealt => RoundsDealt' BY <1>4 DEF RoundsDealt, balancersVars
  <2>3. QED BY <1>4, <2>1, <2>2 DEF BalancersInv, balancersVars
<1>5. QED BY <1>1, <1>2, <1>3, <1>4 DEF BalancersNext

\* Whatever the number of instances, their weights and the goroutines that pick,
\* round robin keeps the instances within one pick of each other until the counter
\* wraps or serves an older list, and a weighted pick gives every instance exactly
\* its weight (balancer.go 18-63, discovery.go 149-162).
THEOREM BalancersHold == BalancersSpec => []BalancersFair
<1>1. BalancersInv /\ [BalancersNext]_balancersVars => BalancersInv' BY BalancersStep
<1>2. BalancersInv => BalancersFair BY BalancersMean
<1>3. QED BY BalancersStart, <1>1, <1>2, PTL DEF BalancersSpec

-----------------------------------------------------------------------------
(* Backend: every part takes its own steps only, so what holds of a part alone *)
(* holds of it beside the others.                                              *)

\* A step of the backend is a step or a stutter of each of its parts.
LEMMA StepsOfParts ==
    [Next]_backendVars =>
        /\ [AccountsNext]_accountsVars /\ [CaptchaNext]_captchaVars
        /\ [ProfilesNext]_profilesVars /\ [PermissionsNext]_permissionsVars
        /\ [RecordsNext]_recordsVars /\ [BalancersNext]_balancersVars
        /\ [StartupNext]_startupVars /\ [RequestsNext]_requestsVars
        /\ [CallLogsNext]_callLogsVars
BY DEF Next, backendVars

\* A behaviour of the backend is one of each of its parts: no part disturbs another.
THEOREM BackendRunsItsParts ==
    Spec => /\ AccountsSpec /\ CaptchaSpec /\ ProfilesSpec /\ PermissionsSpec
            /\ RecordsSpec /\ BalancersSpec /\ StartupSpec /\ RequestsSpec /\ CallLogsSpec
<1>1. Init => /\ AccountsInit /\ CaptchaInit /\ ProfilesInit /\ PermissionsInit
              /\ RecordsInit /\ BalancersInit /\ StartupInit /\ RequestsInit /\ CallLogsInit
    BY DEF Init
<1>2. Spec => AccountsSpec BY <1>1, StepsOfParts, PTL DEF Spec, AccountsSpec
<1>3. Spec => CaptchaSpec BY <1>1, StepsOfParts, PTL DEF Spec, CaptchaSpec
<1>4. Spec => ProfilesSpec BY <1>1, StepsOfParts, PTL DEF Spec, ProfilesSpec
<1>5. Spec => PermissionsSpec BY <1>1, StepsOfParts, PTL DEF Spec, PermissionsSpec
<1>6. Spec => RecordsSpec BY <1>1, StepsOfParts, PTL DEF Spec, RecordsSpec
<1>7. Spec => BalancersSpec BY <1>1, StepsOfParts, PTL DEF Spec, BalancersSpec
<1>8. Spec => StartupSpec BY <1>1, StepsOfParts, PTL DEF Spec, StartupSpec
<1>9. Spec => RequestsSpec BY <1>1, StepsOfParts, PTL DEF Spec, RequestsSpec
<1>10. Spec => CallLogsSpec BY <1>1, StepsOfParts, PTL DEF Spec, CallLogsSpec
<1>11. QED BY <1>2, <1>3, <1>4, <1>5, <1>6, <1>7, <1>8, <1>9, <1>10

\* Every variable of every part keeps to its type, whatever the parts do.
THEOREM BackendTyped == Spec => []BackendTypeOK
<1>1. BalancersSpec => []BalancersTypeOK
    BY BalancersMean, BalancersStart, BalancersStep, PTL DEF BalancersSpec
<1>2. StartupSpec => []StartupTypeOK
    BY StartupMeans, StartupStart, StartupStep, PTL DEF StartupSpec
<1>3. RequestsSpec => []RequestsTypeOK
    BY RequestsMean, RequestsStart, RequestsStep, PTL DEF RequestsSpec
<1>4. CallLogsInv => CallLogsTypeOK BY DEF CallLogsInv
<1>5. CallLogsSpec => []CallLogsTypeOK
    BY <1>4, CallLogsStart, CallLogsStep, PTL DEF CallLogsSpec
<1>6. BackendTypeOK <=>
        /\ AccountsTypeOK /\ CaptchaTypeOK /\ ProfilesTypeOK /\ PermissionsTypeOK
        /\ RecordsTypeOK /\ BalancersTypeOK /\ StartupTypeOK /\ RequestsTypeOK
        /\ CallLogsTypeOK
    BY DEF BackendTypeOK
<1>7. QED
    BY <1>1, <1>2, <1>3, <1>5, <1>6, BackendRunsItsParts, AccountsTyped, CaptchaTyped,
       ProfilesTyped, PermissionsTyped, RecordsTyped, PTL

\* What each part promises, it promises as part of the backend: accounts stay
\* apart and mailed codes work, captchas run out, profiles and permissions read as
\* they were set, histories are complete, loads are shared, start-up, requests and
\* log lines are in order.
THEOREM BackendKeepsItsPromises ==
    Spec => /\ []OneAccountEach /\ []PromisesKept /\ []CaptchaSafe /\ []ProfileSafe
            /\ []PermissionsTrue /\ []RecordsSafe /\ []BalancersFair
            /\ []StartupSafe /\ []RequestsSafe /\ []FailuresTraced
BY BackendRunsItsParts, AccountsApart, MailedCodesWork, CaptchaHolds, ProfileHolds,
   PermissionsHold, RecordsHold, BalancersHold, StartupHolds, RequestsHold, FailuresAreTraced

=============================================================================
