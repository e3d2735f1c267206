------------------------------- MODULE Captcha -------------------------------
(***************************************************************************)
(* Captchas: generation, validation and the one-time tokens of             *)
(* internal/service/captcha.go and internal/handler/v1/captcha.go, over    *)
(* the Redis keys of internal/dal/captcha.go.                              *)
(*                                                                         *)
(* Reading an answer and deleting it are two calls, and any number of      *)
(* requests may answer one challenge at once.  An answer posted under      *)
(* another type looks under another prefix and finds nothing: like an      *)
(* expired one it is refused, which is no step.                            *)
(***************************************************************************)
EXTENDS Integers, FiniteSets

CONSTANTS Challenges,     \* the uuids of captchas
          Solvers,        \* requests in flight that post an answer
          MaxTries,       \* bound: comparisons with one answer
          Dots,           \* the dots a click captcha asks for
          RedisFails      \* whether calls of Redis may fail

ASSUME CaptchaAssumption == IsFiniteSet(Solvers)

VARIABLES
    answer,     \* "none", then "stored" under its key, then "gone"
    form,       \* the type of a captcha: the prefix of its key
    solver,     \* what a request has read, and its next call
    (* history, for the properties *)
    tries,      \* comparisons with the answer
    solved,     \* those that were right
    held,       \* tokens of it in Redis, known to somebody
    admitted,   \* requests that its tokens let through
    undeleted   \* challenges of which a DEL has answered an error

captchaVars == <<answer, form, solver, tries, solved, held, admitted, undeleted>>

Forms == {"slide", "click", "rotate"}

Idle == [at |-> "idle"]

CaptchaInit ==
    /\ answer = [c \in Challenges |-> "none"]
    /\ form = [c \in Challenges |-> "slide"]
    /\ solver = [s \in Solvers |-> Idle]
    /\ tries = [c \in Challenges |-> 0]
    /\ solved = [c \in Challenges |-> 0]
    /\ held = [c \in Challenges |-> 0]
    /\ admitted = [c \in Challenges |-> 0]
    /\ undeleted = {}

-----------------------------------------------------------------------------
(* Generation *)

\* Store*Answer: the key and its TTL in one call.  Nobody learns the id of a
\* captcha whose store failed, done or not.
StoreAnswer(c, f) ==
    /\ answer[c] = "none"
    /\ form' = [form EXCEPT ![c] = f]
    /\ \/ answer' = [answer EXCEPT ![c] = "stored"]
       \/ RedisFails /\ answer' = [answer EXCEPT ![c] = "gone"]
    /\ UNCHANGED <<solver, tries, solved, held, admitted, undeleted>>

GenerateSlide(c) == StoreAnswer(c, "slide")

GenerateClick(c) == StoreAnswer(c, "click")

GenerateRotate(c) == StoreAnswer(c, "rotate")

Generate(c) == GenerateSlide(c) \/ GenerateClick(c) \/ GenerateRotate(c)

\* captchaExpiry
AnswerExpires(c) ==
    /\ answer[c] = "stored"
    /\ answer' = [answer EXCEPT ![c] = "gone"]
    /\ UNCHANGED <<form, solver, tries, solved, held, admitted, undeleted>>

-----------------------------------------------------------------------------
(* Validation.  A guess says of each point or angle whether it is near. *)

Guesses == UNION {[1 .. n -> BOOLEAN] : n \in 0 .. Dots + 1}

\* What a drawing leaves to be guessed: one place, some dots in their order, one
\* angle.
SlideData == 1 .. 1

ClickData == 1 .. Dots

RotateData == 1 .. 1

RightSlide(g) == g = [i \in SlideData |-> TRUE]

RightRotate(g) == g = [i \in RotateData |-> TRUE]

\* As many dots as were asked for, in their order, each near its own.
RightClick(g) == DOMAIN g = ClickData /\ \A i \in ClickData : g[i]

Right(f, g) ==
    CASE f = "slide" -> RightSlide(g)
      [] f = "click" -> RightClick(g)
      [] f = "rotate" -> RightRotate(g)

\* The keys that a type's Get finds.
GetSlideAnswer(c) == answer[c] = "stored" /\ form[c] = "slide"

GetClickAnswer(c) == answer[c] = "stored" /\ form[c] = "click"

GetRotateAnswer(c) == answer[c] = "stored" /\ form[c] = "rotate"

\* An answer has been read.
Read(s, c) ==
    /\ solver[s] = Idle
    /\ tries[c] + Cardinality({q \in Solvers : solver[q] = [at |-> "delete", on |-> c]}) < MaxTries
    /\ solver' = [solver EXCEPT ![s] = [at |-> "delete", on |-> c]]
    /\ UNCHANGED <<answer, form, tries, solved, held, admitted, undeleted>>

ValidateSlide(s) == \E c \in Challenges : GetSlideAnswer(c) /\ Read(s, c)

ValidateClick(s) == \E c \in Challenges : GetClickAnswer(c) /\ Read(s, c)

ValidateRotate(s) == \E c \in Challenges : GetRotateAnswer(c) /\ Read(s, c)

\* The comparison that follows the deletion: a right guess goes on to its token.
Compare(s, c, g) ==
    /\ tries' = [tries EXCEPT ![c] = @ + 1]
    /\ IF Right(form[c], g)
       THEN /\ solver' = [solver EXCEPT ![s] = [at |-> "token", on |-> c]]
            /\ solved' = [solved EXCEPT ![c] = @ + 1]
       ELSE solver' = [solver EXCEPT ![s] = Idle] /\ UNCHANGED solved
    /\ UNCHANGED <<form, held, admitted>>

\* (Mutation: only a right answer uses the captcha up.)
DeleteSolved(s) ==
    /\ solver[s] # Idle /\ solver[s].at = "delete"
    /\ LET c == solver[s].on IN \E g \in Guesses :
        /\ Compare(s, c, g)
        /\ answer' = IF Right(form[c], g) THEN [answer EXCEPT ![c] = "gone"] ELSE answer
    /\ UNCHANGED undeleted

\* The DEL of an answer's key.
Deleted(c) == [answer EXCEPT ![c] = "gone"]

\* Delete*Answer, whose error is only logged, and the comparison.
DeleteAnswer(s) ==
    /\ solver[s] # Idle /\ solver[s].at = "delete"
    /\ LET c == solver[s].on IN
        /\ \E g \in Guesses : Compare(s, c, g)
        /\ \/ answer' = Deleted(c) /\ UNCHANGED undeleted
           \/ RedisFails /\ undeleted' = undeleted \cup {c} /\ answer' \in {answer, Deleted(c)}

\* issueToken.  A token whose store failed is not sent to anybody.
IssueCaptchaToken(s) ==
    /\ solver[s] # Idle /\ solver[s].at = "token"
    /\ LET c == solver[s].on IN
        \/ held' = [held EXCEPT ![c] = @ + 1]
        \/ RedisFails /\ UNCHANGED held
    /\ solver' = [solver EXCEPT ![s] = Idle]
    /\ UNCHANGED <<answer, form, tries, solved, admitted, undeleted>>

Validate(s) ==
    \/ ValidateSlide(s) \/ ValidateClick(s) \/ ValidateRotate(s)
    \/ DeleteAnswer(s) \/ IssueCaptchaToken(s)

-----------------------------------------------------------------------------
(* Tokens *)

\* (Mutation: a token is looked up and not deleted.)
SpendKept(c) ==
    /\ held[c] > 0 /\ admitted[c] < MaxTries + 1
    /\ admitted' = [admitted EXCEPT ![c] = @ + 1]
    /\ UNCHANGED <<answer, form, solver, tries, solved, held, undeleted>>

\* ValidateCaptchaToken of a sign-up or a resend: the DEL that counts one lets
\* the request in; after an error it may be done, and the request is refused.
SpendToken(c) ==
    /\ held[c] > 0
    /\ \/ held' = [held EXCEPT ![c] = @ - 1] /\ admitted' = [admitted EXCEPT ![c] = @ + 1]
       \/ RedisFails /\ held' = [held EXCEPT ![c] = @ - 1] /\ UNCHANGED admitted
    /\ UNCHANGED <<answer, form, solver, tries, solved, undeleted>>

\* tokenExpiry
CaptchaTokenExpires(c) ==
    /\ held[c] > 0
    /\ held' = [held EXCEPT ![c] = @ - 1]
    /\ UNCHANGED <<answer, form, solver, tries, solved, admitted, undeleted>>

CaptchaNext ==
    \/ \E c \in Challenges :
        Generate(c) \/ AnswerExpires(c) \/ SpendToken(c) \/ CaptchaTokenExpires(c)
    \/ \E s \in Solvers : Validate(s)

CaptchaSpec == CaptchaInit /\ [][CaptchaNext]_captchaVars

-----------------------------------------------------------------------------
(* Properties *)

CaptchaTypeOK ==
    /\ answer \in [Challenges -> {"none", "stored", "gone"}]
    /\ form \in [Challenges -> Forms]
    /\ solver \in [Solvers -> {Idle} \cup [at : {"delete", "token"}, on : Challenges]]
    /\ tries \in [Challenges -> Nat]
    /\ solved \in [Challenges -> Nat]
    /\ held \in [Challenges -> Nat]
    /\ admitted \in [Challenges -> Nat]
    /\ undeleted \subseteq Challenges

\* A captcha cannot be guessed at leisure: although reading an answer and
\* deleting it are two calls, it sees no more comparisons than there were
\* requests at once, right or wrong, unless Redis failed to delete it
\* (service/captcha.go 65-81, 103-129, 151-167).
AnswersRunOut ==
    \A c \in Challenges : c \in undeleted \/ tries[c] <= Cardinality(Solvers)

\* The requests that the tokens of a captcha let in were each paid with a right
\* answer of their own, whichever calls overlap or fail
\* (service/captcha.go 169-183, dal/captcha.go 119-133).
RequestsPaid ==
    \A c \in Challenges : admitted[c] + held[c] <= solved[c]

\* Guessing a captcha buys nothing: few comparisons, each let-in paid for.
CaptchaSafe == AnswersRunOut /\ RequestsPaid

=============================================================================
