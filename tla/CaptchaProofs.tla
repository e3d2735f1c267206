---------------------------- MODULE CaptchaProofs ----------------------------
(***************************************************************************)
(* Proofs about module Captcha: no captcha can be guessed at leisure and   *)
(* every request that a token lets in has been paid for, for any number of *)
(* requests that answer captchas at once.                                  *)
(***************************************************************************)
EXTENDS Captcha, FiniteSetTheorems, TLAPS

\* The requests that hold the answer of a captcha, and those that owe a token.
Solving(c, place) == {s \in Solvers : solver[s] = [at |-> place, on |-> c]}

\* An answer that is still there has been compared with nothing, and those that
\* have read it are all that ever will.
Bounded ==
    \A c \in Challenges \ undeleted :
        /\ answer[c] # "gone" => tries[c] = 0
        /\ tries[c] + Cardinality(Solving(c, "delete")) <= Cardinality(Solvers)

\* A right answer is a token to come, a token at hand or one that is used up.
Paid ==
    \A c \in Challenges :
        admitted[c] + held[c] + Cardinality(Solving(c, "token")) <= solved[c]

-----------------------------------------------------------------------------
(* Counting requests *)

\* Sets of solvers are finite, and no larger than all of them, ...
LEMMA SomeSolvers ==
    ASSUME NEW S \in SUBSET Solvers
    PROVE  /\ IsFiniteSet(S) /\ Cardinality(S) \in Nat
           /\ Cardinality(Solvers) \in Nat /\ Cardinality(S) <= Cardinality(Solvers)
BY CaptchaAssumption, FS_Subset, FS_CardinalityType

\* ... so are those that are at one place with one challenge.
LEMMA SolvingFinite ==
    ASSUME NEW c, NEW place
    PROVE  Solving(c, place) \subseteq Solvers /\ Solving(c, place)' \subseteq Solvers
BY DEF Solving

\* A request that goes elsewhere leaves one less where it was.
LEMMA SolvingLeaves ==
    ASSUME NEW c, NEW place, NEW s \in Solving(c, place), NEW x, x # [at |-> place, on |-> c],
           DOMAIN solver = Solvers, solver' = [solver EXCEPT ![s] = x]
    PROVE  Cardinality(Solving(c, place)') = Cardinality(Solving(c, place)) - 1
<1>1. Solving(c, place)' = Solving(c, place) \ {s}
    BY DEF Solving
<1>2. QED
    BY <1>1, SolvingFinite, SomeSolvers, FS_RemoveElement

\* One that comes makes one more.
LEMMA SolvingComes ==
    ASSUME NEW c, NEW place, NEW s \in Solvers, s \notin Solving(c, place),
           DOMAIN solver = Solvers, solver' = [solver EXCEPT ![s] = [at |-> place, on |-> c]]
    PROVE  Cardinality(Solving(c, place)') = Cardinality(Solving(c, place)) + 1
<1>1. Solving(c, place)' = Solving(c, place) \cup {s}
    BY DEF Solving
<1>2. QED
    BY <1>1, SolvingFinite, SomeSolvers, FS_AddElement

\* One that is neither here before nor after changes nothing.
LEMMA SolvingElsewhere ==
    ASSUME NEW c, NEW place, NEW s \in Solvers \ Solving(c, place), NEW x,
           x # [at |-> place, on |-> c],
           DOMAIN solver = Solvers, solver' = [solver EXCEPT ![s] = x]
    PROVE  Solving(c, place)' = Solving(c, place)
BY DEF Solving

\* Neither does a step that moves no request.
LEMMA SolvingSame ==
    ASSUME NEW c, NEW place, solver' = solver
    PROVE  Solving(c, place)' = Solving(c, place)
BY DEF Solving

-----------------------------------------------------------------------------
(* Types *)

\* Every step keeps the types.
LEMMA CaptchaTypeStep ==
    ASSUME CaptchaTypeOK, [CaptchaNext]_captchaVars
    PROVE  CaptchaTypeOK'
<1>. USE DEF CaptchaTypeOK, Idle
<1>1. CASE UNCHANGED captchaVars
    BY <1>1 DEF captchaVars
<1>2. ASSUME NEW c \in Challenges, NEW f \in Forms, StoreAnswer(c, f) PROVE CaptchaTypeOK'
    BY <1>2 DEF StoreAnswer
<1>3. ASSUME NEW c \in Challenges, AnswerExpires(c) PROVE CaptchaTypeOK'
    BY <1>3 DEF AnswerExpires
<1>4. ASSUME NEW c \in Challenges, SpendToken(c) PROVE CaptchaTypeOK'
    BY <1>4 DEF SpendToken
<1>5. ASSUME NEW c \in Challenges, CaptchaTokenExpires(c) PROVE CaptchaTypeOK'
    BY <1>5 DEF CaptchaTokenExpires
<1>6. ASSUME NEW s \in Solvers, NEW c \in Challenges, Read(s, c) PROVE CaptchaTypeOK'
    BY <1>6 DEF Read
<1>7. ASSUME NEW s \in Solvers, DeleteAnswer(s) PROVE CaptchaTypeOK'
    BY <1>7 DEF DeleteAnswer, Compare, Deleted
<1>8. ASSUME NEW s \in Solvers, IssueCaptchaToken(s) PROVE CaptchaTypeOK'
    BY <1>8 DEF IssueCaptchaToken
<1>9. QED
    BY <1>1, <1>2, <1>3, <1>4, <1>5, <1>6, <1>7, <1>8
    DEF CaptchaNext, Generate, GenerateSlide, GenerateClick, GenerateRotate, Validate,
        ValidateSlide, ValidateClick, ValidateRotate, Forms

\* The answers, the requests and the counts keep to their types.
THEOREM CaptchaTyped == CaptchaSpec => []CaptchaTypeOK
<1>1. CaptchaInit => CaptchaTypeOK
    BY DEF CaptchaInit, CaptchaTypeOK, Forms
<1>2. QED
    BY <1>1, CaptchaTypeStep, PTL DEF CaptchaSpec

-----------------------------------------------------------------------------
(* Guesses *)

\* An answer whose deletion has never failed stays so.
LEMMA UndeletedGrows ==
    ASSUME [CaptchaNext]_captchaVars
    PROVE  undeleted \subseteq undeleted'
BY DEF CaptchaNext, captchaVars, Generate, GenerateSlide, GenerateClick, GenerateRotate, StoreAnswer,
       AnswerExpires, SpendToken, CaptchaTokenExpires, Validate, ValidateSlide, ValidateClick,
       ValidateRotate, Read, DeleteAnswer, Compare, IssueCaptchaToken

\* Every step keeps the comparisons of an answer to those that have read it, ...
LEMMA BoundedStep ==
    ASSUME CaptchaTypeOK, Bounded, [CaptchaNext]_captchaVars
    PROVE  Bounded'
<1> DEFINE Fine(c) ==
        /\ answer[c] # "gone" => tries[c] = 0
        /\ tries[c] + Cardinality(Solving(c, "delete")) <= Cardinality(Solvers)
<1>0. SUFFICES ASSUME NEW c \in Challenges \ undeleted' PROVE Fine(c)'
    BY DEF Bounded
<1>a. /\ DOMAIN solver = Solvers
      /\ tries[c] \in Nat /\ DOMAIN tries = Challenges /\ DOMAIN answer = Challenges
    BY <1>0 DEF CaptchaTypeOK
<1>b. c \notin undeleted /\ Fine(c)
    BY <1>0, UndeletedGrows DEF Bounded
<1>1. ASSUME UNCHANGED <<solver, tries>>, answer[c] # "gone" \/ answer'[c] = answer[c]
      PROVE  Fine(c)'
    BY <1>1, <1>b, SolvingSame
<1>2. CASE UNCHANGED captchaVars
    BY <1>1, <1>2 DEF captchaVars
<1>3. ASSUME NEW d \in Challenges, NEW f \in Forms, StoreAnswer(d, f) PROVE Fine(c)'
    <2>1. answer[c] # "gone" \/ answer'[c] = answer[c]
        BY <1>3, <1>a DEF StoreAnswer
    <2>2. QED BY <1>1, <1>3, <2>1 DEF StoreAnswer
<1>4. ASSUME NEW d \in Challenges, AnswerExpires(d) PROVE Fine(c)'
    <2>1. answer[c] # "gone" \/ answer'[c] = answer[c]
        BY <1>4, <1>a DEF AnswerExpires
    <2>2. QED BY <1>1, <1>4, <2>1 DEF AnswerExpires
<1>5. ASSUME NEW d \in Challenges, SpendToken(d) \/ CaptchaTokenExpires(d) PROVE Fine(c)'
    BY <1>1, <1>5 DEF SpendToken, CaptchaTokenExpires
<1>6. ASSUME NEW s \in Solvers, NEW d \in Challenges, answer[d] = "stored", Read(s, d)
      PROVE  Fine(c)'
    <2>1. solver' = [solver EXCEPT ![s] = [at |-> "delete", on |-> d]]
        BY <1>6 DEF Read
    <2>2. UNCHANGED <<tries, answer>>
        BY <1>6 DEF Read
    <2>3. CASE d = c
        <3>1. tries'[c] = 0
            BY <1>6, <1>b, <2>2, <2>3
        <3>2. Cardinality(Solving(c, "delete")') \in Nat
              /\ Cardinality(Solving(c, "delete")') <= Cardinality(Solvers)
            BY SolvingFinite, SomeSolvers
        <3>3. QED BY <3>1, <3>2
    <2>4. CASE d # c
        <3>1. s \notin Solving(c, "delete") /\ [at |-> "delete", on |-> d] # [at |-> "delete", on |-> c]
            BY <1>6, <2>4 DEF Read, Idle, Solving
        <3>2. Solving(c, "delete")' = Solving(c, "delete")
            BY <1>a, <2>1, <3>1, SolvingElsewhere
        <3>3. QED BY <1>b, <2>2, <3>2
    <2>5. QED BY <2>3, <2>4
<1>7. ASSUME NEW s \in Solvers, DeleteAnswer(s) PROVE Fine(c)'
    <2>1. /\ solver[s].at = "delete" /\ solver[s] \in [at : {"delete", "token"}, on : Challenges]
          /\ solver[s] = [at |-> "delete", on |-> solver[s].on]
        BY <1>7 DEF DeleteAnswer, CaptchaTypeOK
    <2>2. /\ tries' = [tries EXCEPT ![solver[s].on] = @ + 1]
          /\ \/ solver' = [solver EXCEPT ![s] = [at |-> "token", on |-> solver[s].on]]
             \/ solver' = [solver EXCEPT ![s] = Idle]
        BY <1>7 DEF DeleteAnswer, Compare
    <2>3. CASE solver[s].on = c
        <3>1. Cardinality(Solving(c, "delete")') = Cardinality(Solving(c, "delete")) - 1
            BY <1>a, <2>1, <2>2, <2>3, SolvingLeaves DEF Idle, Solving
        <3>2. answer'[c] = "gone"
            BY <1>0, <1>7, <1>a, <2>3 DEF DeleteAnswer, Deleted
        <3>3. Cardinality(Solving(c, "delete")) \in Nat /\ Cardinality(Solvers) \in Nat
            BY SolvingFinite, SomeSolvers
        <3>4. QED BY <1>a, <1>b, <2>2, <2>3, <3>1, <3>2, <3>3
    <2>4. CASE solver[s].on # c
        <3>1. Solving(c, "delete")' = Solving(c, "delete")
            BY <1>a, <2>1, <2>2, <2>4, SolvingElsewhere DEF Idle, Solving
        <3>2. answer'[c] = answer[c] /\ tries'[c] = tries[c]
            BY <1>7, <1>a, <2>2, <2>4 DEF DeleteAnswer, Deleted
        <3>3. QED BY <1>b, <3>1, <3>2
    <2>5. QED BY <2>3, <2>4
<1>8. ASSUME NEW s \in Solvers, IssueCaptchaToken(s) PROVE Fine(c)'
    <2>1. Solving(c, "delete")' = Solving(c, "delete")
        BY <1>8, <1>a, SolvingElsewhere DEF IssueCaptchaToken, Idle, Solving
    <2>2. QED BY <1>8, <1>b, <2>1 DEF IssueCaptchaToken
<1>9. QED
    BY <1>2, <1>3, <1>4, <1>5, <1>6, <1>7, <1>8
    DEF CaptchaNext, Generate, GenerateSlide, GenerateClick, GenerateRotate, Validate,
        ValidateSlide, ValidateClick, ValidateRotate, GetSlideAnswer, GetClickAnswer,
        GetRotateAnswer, Forms

\* However many requests answer a captcha at once, and whatever they guess, it is
\* compared no more often than there are requests, unless Redis has failed to
\* delete it (service/captcha.go 65-81, 103-129, 151-167).
THEOREM GuessesRunOut == CaptchaSpec => []AnswersRunOut
<1>1. CaptchaInit => Bounded
    <2>1. CaptchaInit => \A c \in Challenges : Solving(c, "delete") = {} /\ tries[c] = 0
        BY DEF CaptchaInit, Solving, Idle
    <2>2. Cardinality({}) = 0 /\ Cardinality(Solvers) \in Nat
        BY FS_EmptySet, CaptchaAssumption, FS_CardinalityType
    <2>3. QED BY <2>1, <2>2 DEF Bounded
<1>2. CaptchaTypeOK /\ Bounded => AnswersRunOut
    <2>1. \A c \in Challenges : Cardinality(Solving(c, "delete")) \in Nat /\ Cardinality(Solvers) \in Nat
        BY SolvingFinite, SomeSolvers
    <2>2. QED BY <2>1 DEF CaptchaTypeOK, Bounded, AnswersRunOut
<1>3. QED
    BY <1>1, <1>2, CaptchaTyped, BoundedStep, PTL DEF CaptchaSpec

-----------------------------------------------------------------------------
(* Tokens *)

\* ... and the tokens to the right answers.
LEMMA PaidStep ==
    ASSUME CaptchaTypeOK, Paid, [CaptchaNext]_captchaVars
    PROVE  Paid'
<1> DEFINE Fine(c) == admitted[c] + held[c] + Cardinality(Solving(c, "token")) <= solved[c]
<1>0. SUFFICES ASSUME NEW c \in Challenges PROVE Fine(c)'
    BY DEF Paid
<1>a. /\ DOMAIN solver = Solvers /\ Fine(c)
      /\ admitted \in [Challenges -> Nat] /\ held \in [Challenges -> Nat]
      /\ solved \in [Challenges -> Nat] /\ Cardinality(Solving(c, "token")) \in Nat
    BY SolvingFinite, SomeSolvers DEF CaptchaTypeOK, Paid
<1>1. ASSUME UNCHANGED <<solver, solved, held, admitted>> PROVE Fine(c)'
    BY <1>1, <1>a, SolvingSame
<1>2. CASE UNCHANGED captchaVars
    BY <1>1, <1>2 DEF captchaVars
<1>3. ASSUME NEW d \in Challenges, NEW f \in Forms, StoreAnswer(d, f) PROVE Fine(c)'
    BY <1>1, <1>3 DEF StoreAnswer
<1>4. ASSUME NEW d \in Challenges, AnswerExpires(d) PROVE Fine(c)'
    BY <1>1, <1>4 DEF AnswerExpires
<1>5. ASSUME NEW d \in Challenges, SpendToken(d) \/ CaptchaTokenExpires(d) PROVE Fine(c)'
    <2>1. UNCHANGED solved /\ Solving(c, "token")' = Solving(c, "token")
        BY <1>5, SolvingSame DEF SpendToken, CaptchaTokenExpires
    <2>2. admitted'[c] + held'[c] <= admitted[c] + held[c]
        BY <1>5, <1>a DEF SpendToken, CaptchaTokenExpires
    <2>3. admitted'[c] \in Nat /\ held'[c] \in Int
        BY <1>5, <1>a DEF SpendToken, CaptchaTokenExpires
    <2>4. QED BY <1>a, <2>1, <2>2, <2>3
<1>6. ASSUME NEW s \in Solvers, NEW d \in Challenges, Read(s, d) PROVE Fine(c)'
    <2>1. Solving(c, "token")' = Solving(c, "token")
        BY <1>6, <1>a, SolvingElsewhere DEF Read, Idle, Solving
    <2>2. QED BY <1>6, <1>a, <2>1 DEF Read
<1>7. ASSUME NEW s \in Solvers, DeleteAnswer(s) PROVE Fine(c)'
    <2>1. s \notin Solving(c, "token") /\ UNCHANGED <<held, admitted>>
        BY <1>7 DEF DeleteAnswer, Compare, Solving
    <2>2. PICK g : Compare(s, solver[s].on, g)
        BY <1>7 DEF DeleteAnswer
    <2>3. CASE Right(form[solver[s].on], g) /\ solver[s].on = c
        <3>1. solver' = [solver EXCEPT ![s] = [at |-> "token", on |-> c]] /\ solved'[c] = solved[c] + 1
            BY <1>a, <2>2, <2>3 DEF Compare
        <3>2. Cardinality(Solving(c, "token")') = Cardinality(Solving(c, "token")) + 1
            BY <1>a, <2>1, <3>1, SolvingComes
        <3>3. QED BY <1>a, <2>1, <3>1, <3>2
    <2>4. CASE ~(Right(form[solver[s].on], g) /\ solver[s].on = c)
        <3>1. PICK x : solver' = [solver EXCEPT ![s] = x] /\ x # [at |-> "token", on |-> c]
            BY <2>2, <2>4 DEF Compare, Idle
        <3>2. Solving(c, "token")' = Solving(c, "token")
            BY <1>a, <2>1, <3>1, SolvingElsewhere
        <3>3. solved'[c] = solved[c]
            BY <1>a, <2>2, <2>4 DEF Compare
        <3>4. QED BY <1>a, <2>1, <3>2, <3>3
    <2>5. QED BY <2>3, <2>4
<1>8. ASSUME NEW s \in Solvers, IssueCaptchaToken(s) PROVE Fine(c)'
    <2>1. /\ solver[s] = [at |-> "token", on |-> solver[s].on]
          /\ solver' = [solver EXCEPT ![s] = Idle] /\ UNCHANGED <<admitted, solved>>
        BY <1>8 DEF IssueCaptchaToken, CaptchaTypeOK
    <2>2. CASE solver[s].on = c
        <3>0. s \in Solving(c, "token") /\ Idle # [at |-> "token", on |-> c]
            BY <2>1, <2>2 DEF Idle, Solving
        <3>1. Cardinality(Solving(c, "token")') = Cardinality(Solving(c, "token")) - 1
            BY <1>a, <2>1, <3>0, SolvingLeaves
        <3>2. held'[c] \in {held[c], held[c] + 1}
            BY <1>8, <1>a, <2>2 DEF IssueCaptchaToken
        <3>3. QED BY <1>a, <2>1, <3>1, <3>2
    <2>3. CASE solver[s].on # c
        <3>1. Solving(c, "token")' = Solving(c, "token")
            BY <1>a, <2>1, <2>3, SolvingElsewhere DEF Idle, Solving
        <3>2. held'[c] = held[c]
            BY <1>8, <1>a, <2>3 DEF IssueCaptchaToken
        <3>3. QED BY <1>a, <2>1, <3>1, <3>2
    <2>4. QED BY <2>2, <2>3
<1>9. QED
    BY <1>2, <1>3, <1>4, <1>5, <1>6, <1>7, <1>8
    DEF CaptchaNext, Generate, GenerateSlide, GenerateClick, GenerateRotate, Validate,
        ValidateSlide, ValidateClick, ValidateRotate, Forms

\* The requests that the tokens of a captcha let in were each paid with a right
\* answer of their own (service/captcha.go 169-183, dal/captcha.go 119-133).
THEOREM EveryRequestPaid == CaptchaSpec => []RequestsPaid
<1>1. CaptchaInit => Paid
    <2>1. CaptchaInit => \A c \in Challenges :
            Solving(c, "token") = {} /\ admitted[c] = 0 /\ held[c] = 0 /\ solved[c] = 0
        BY DEF CaptchaInit, Solving, Idle
    <2>2. Cardinality({}) = 0
        BY FS_EmptySet
    <2>3. QED BY <2>1, <2>2 DEF Paid
<1>2. CaptchaTypeOK /\ Paid => RequestsPaid
    <2>1. \A c \in Challenges : Cardinality(Solving(c, "token")) \in Nat
        BY SolvingFinite, SomeSolvers
    <2>2. QED BY <2>1 DEF CaptchaTypeOK, Paid, RequestsPaid
<1>3. QED
    BY <1>1, <1>2, CaptchaTyped, PaidStep, PTL DEF CaptchaSpec

-----------------------------------------------------------------------------

\* What a captcha is there for, as the runs check it: no more comparisons than
\* requests at once, and no request let in that was not paid for
\* (service/captcha.go 65-183, dal/captcha.go 119-133).
THEOREM CaptchaHolds == CaptchaSpec => []CaptchaSafe
<1>1. CaptchaSafe <=> AnswersRunOut /\ RequestsPaid
    BY DEF CaptchaSafe
<1>2. QED
    BY <1>1, GuessesRunOut, EveryRequestPaid, PTL

=============================================================================
