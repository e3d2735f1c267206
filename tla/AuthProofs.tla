----------------------------- MODULE AuthProofs -----------------------------
(***************************************************************************)
(* What Auth guarantees about lockouts and tokens for any set of requests, *)
(* any maximum and any faults.  LogoutSticks is not inductive: a refresh   *)
(* that passed its check before the logout would store its token after it. *)
(* AuthInv adds that none is in flight while the session counts as ended.  *)
(* GuessesBounded is not either: GuessesLeft keeps the account of it, by   *)
(* the sizes of three sets of requests, and needs Reqs to be finite.       *)
(***************************************************************************)
EXTENDS Auth, FiniteSetTheorems, TLAPS

\* No call of a request and no step of time leaves the types.
LEMMA TypeStep == AuthInv /\ [Next]_vars => TypeOK'
<1> SUFFICES ASSUME AuthInv, [Next]_vars PROVE TypeOK'
    OBVIOUS
<1> USE MaxAssumption, NoneAssumption DEF AuthInv, TypeOK, Tokens, PC, Goto, row, locals
<1>1. ASSUME NEW r \in Reqs, Login(r) PROVE TypeOK'
    BY <1>1 DEF Login
<1>2. ASSUME NEW r \in Reqs, Compare(r) PROVE TypeOK'
    <2>1. guesses' \in {guesses, guesses + 1}
        BY <1>2 DEF Compare
    <2>2. guesses' \in Nat
        BY <2>1
    <2> QED
        BY <1>2, <2>2 DEF Compare
<1>3. ASSUME NEW r \in Reqs, IncrementLoginFail(r) PROVE TypeOK'
    <2>1. fails' \in {fails, OneMore}
        BY <1>3 DEF IncrementLoginFail
    <2>2. fails' \in 0 .. maxLoginFailCount
        BY <2>1 DEF OneMore
    <2>3. dbFailed' \in BOOLEAN
        BY <1>3 DEF IncrementLoginFail
    <2>4. CASE Goto(r, "lock") /\ UNCHANGED <<seen, presented, token>>
        BY <1>3, <2>2, <2>3, <2>4 DEF IncrementLoginFail
    <2>5. CASE Finish(r)
        BY <1>3, <2>2, <2>3, <2>5 DEF IncrementLoginFail, Finish
    <2> QED
        BY <1>3, <2>4, <2>5 DEF IncrementLoginFail, AfterIncrement
<1>4. ASSUME NEW r \in Reqs, LockUser(r) PROVE TypeOK'
    <2>1. locked' \in BOOLEAN /\ dbFailed' \in BOOLEAN
        <3>1. CASE locked' = TRUE /\ UNCHANGED dbFailed
            BY <3>1
        <3>2. CASE locked' \in {locked, TRUE} /\ dbFailed' = TRUE
            BY <3>2
        <3> QED
            BY <1>4, <3>1, <3>2 DEF LockUser
    <2> QED
        BY <1>4, <2>1 DEF LockUser, Finish
<1>5. ASSUME NEW r \in Reqs, UpdateLastLogin(r) PROVE TypeOK'
    <2>1. fails' \in {0, fails} /\ guesses' \in {0, guesses}
        BY <1>5 DEF UpdateLastLogin
    <2>2. fails' \in 0 .. maxLoginFailCount /\ guesses' \in Nat
        BY <2>1
    <2> QED
        BY <1>5, <2>2 DEF UpdateLastLogin
<1>6. ASSUME NEW r \in Reqs, RefreshToken(r) PROVE TypeOK'
    BY <1>6 DEF RefreshToken
<1>7. ASSUME NEW r \in Reqs, GenerateTokenPair(r) PROVE TypeOK'
    BY <1>7 DEF GenerateTokenPair
<1>8. ASSUME NEW r \in Reqs, StoreRefreshToken(r) PROVE TypeOK'
    BY <1>8 DEF StoreRefreshToken, Finish
<1>9. CASE Logout
    BY <1>9 DEF Logout
<1>10. CASE Tick
    BY <1>10 DEF Tick
<1>11. CASE LockEnds
    BY <1>11 DEF LockEnds
<1>12. CASE TokenExpires
    BY <1>12 DEF TokenExpires
<1>13. CASE UNCHANGED vars
    BY <1>13 DEF vars
<1> QED
    BY <1>1, <1>2, <1>3, <1>4, <1>5, <1>6, <1>7, <1>8, <1>9, <1>10, <1>11, <1>12, <1>13 DEF Next, Step

\* The sets of requests that GuessesLeft counts are finite, a request that has
\* not counted its guess is not behind, and so the counts are bounded.
LEMMA GuessCounts ==
    /\ Cardinality(Reqs) \in Nat
    /\ IsFiniteSet(Uncounted) /\ Cardinality(Uncounted) \in Nat
    /\ IsFiniteSet(Behind) /\ Cardinality(Behind) \in Nat
    /\ IsFiniteSet(MayGuess) /\ Cardinality(MayGuess) \in Nat
    /\ Cardinality(MayGuess) <= Cardinality(Reqs)
    /\ Cardinality(Uncounted) + Cardinality(Behind) <= Cardinality(Reqs)
<1> USE ReqsAssumption
<1>1. IsFiniteSet(Uncounted) /\ IsFiniteSet(Behind) /\ IsFiniteSet(MayGuess)
    BY FS_Subset DEF Uncounted, Behind, MayGuess
<1>2. Cardinality(MayGuess) <= Cardinality(Reqs)
    BY FS_Subset DEF MayGuess
<1>3. Uncounted \cap Behind = {}
    BY DEF Uncounted, Behind
<1>4. Uncounted \cup Behind \in SUBSET Reqs
    BY DEF Uncounted, Behind
<1>5. Cardinality(Uncounted \cup Behind) <= Cardinality(Reqs)
    BY <1>4, FS_Subset
<1>6. Cardinality(Uncounted \cup Behind) = Cardinality(Uncounted) + Cardinality(Behind)
    <2>1. Cardinality(Uncounted) \in Nat /\ Cardinality(Behind) \in Nat
        BY <1>1, FS_CardinalityType
    <2>2. Cardinality(Uncounted \cap Behind) = 0
        BY <1>3, FS_EmptySet
    <2>3. Cardinality(Uncounted \cup Behind)
            = Cardinality(Uncounted) + Cardinality(Behind) - Cardinality(Uncounted \cap Behind)
        BY <1>1, FS_Union
    <2> QED
        BY <2>1, <2>2, <2>3
<1> QED
    BY <1>1, <1>2, <1>5, <1>6, FS_CardinalityType

\* While the count, the lock and the guesses stay as they are, GuessesLeft only
\* depends on three sets: as many uncounted guesses, and no one who may guess
\* more often than before.
LEMMA GuessesKept ==
    ASSUME TypeOK, GuessesLeft, UNCHANGED <<fails, guesses, dbFailed>>,
           Uncounted' = Uncounted, Behind' \subseteq Behind, MayGuess' \subseteq MayGuess
    PROVE  GuessesLeft'
<1>1. Behind' \in SUBSET Behind /\ MayGuess' \in SUBSET MayGuess
    OBVIOUS
<1>2. Cardinality(Behind') <= Cardinality(Behind) /\ Cardinality(MayGuess') <= Cardinality(MayGuess)
    BY <1>1, GuessCounts, FS_Subset
<1>3. IsFiniteSet(Behind') /\ IsFiniteSet(MayGuess')
    BY <1>1, GuessCounts, FS_Subset
<1>4. Cardinality(Behind') \in Nat /\ Cardinality(MayGuess') \in Nat
    BY <1>3, FS_CardinalityType
<1>5. GuessBound \in Int /\ GuessBound' = GuessBound
    BY GuessCounts, MaxAssumption DEF GuessBound
<1>6. CASE dbFailed
    BY <1>6 DEF GuessesLeft
<1>7. CASE fails < maxLoginFailCount - 1 /\ guesses <= fails + Cardinality(Uncounted)
    BY <1>7 DEF GuessesLeft
<1>8. CASE /\ fails >= maxLoginFailCount - 1
           /\ guesses + Cardinality(MayGuess) + Cardinality(Behind) <= GuessBound
    <2>1. guesses + Cardinality(MayGuess') + Cardinality(Behind') <= GuessBound
        BY <1>2, <1>4, <1>5, <1>8, GuessCounts DEF TypeOK
    <2> QED
        BY <1>5, <1>8, <2>1 DEF GuessesLeft
<1> QED
    BY <1>6, <1>7, <1>8 DEF GuessesLeft

\* Every call of a request and every step of time keeps the account of the
\* guesses: what the last conjunct of GuessBound pays for is the second guess
\* of the requests that have read the count before it is full.
LEMMA GuessStep == AuthInv /\ [Next]_vars => GuessesLeft'
<1> SUFFICES ASSUME AuthInv, [Next]_vars PROVE GuessesLeft'
    OBVIOUS
<1> USE MaxAssumption DEF AuthInv
<1>0. TypeOK /\ GuessesLeft /\ TypeOK'
    BY TypeStep
<1>B. GuessBound \in Int /\ GuessBound' = GuessBound
    BY GuessCounts DEF GuessBound
<1>1. ASSUME NEW r \in Reqs, Login(r) PROVE GuessesLeft'
    <2>1. CASE fails < maxLoginFailCount - 1
        <3>1. Uncounted' = Uncounted
            BY <1>1, <1>0 DEF Login, Goto, row, Uncounted, TypeOK
        <3> QED
            BY <1>1, <1>0, <2>1, <3>1 DEF Login, row, GuessesLeft, TypeOK
    <2>2. CASE fails >= maxLoginFailCount - 1
        <3>1. Uncounted' = Uncounted /\ Behind' \subseteq Behind /\ MayGuess' \subseteq MayGuess
            BY <1>1, <1>0, <2>2 DEF Login, Goto, row, Uncounted, Behind, MayGuess, TypeOK
        <3> QED
            BY <1>1, <1>0, <3>1, GuessesKept DEF Login, row
    <2> QED
        BY <1>0, <2>1, <2>2 DEF TypeOK
<1>2. ASSUME NEW r \in Reqs, Compare(r) PROVE GuessesLeft'
    <2>1. CASE Goto(r, "reset") /\ UNCHANGED guesses
        <3>1. Uncounted' = Uncounted /\ Behind' \subseteq Behind /\ MayGuess' \subseteq MayGuess
            BY <1>2, <1>0, <2>1 DEF Compare, Goto, row, Uncounted, Behind, MayGuess, TypeOK
        <3> QED
            BY <1>2, <1>0, <2>1, <3>1, GuessesKept DEF Compare, row
    <2>2. CASE /\ Goto(r, "increment")
               /\ guesses' = IF guesses > GuessBound THEN guesses ELSE guesses + 1
        <3>1. /\ pc[r] = "compare" /\ UNCHANGED <<fails, locked, seen, dbFailed>>
              /\ pc' = [pc EXCEPT ![r] = "increment"]
            BY <1>2, <2>2 DEF Compare, Goto, row
        <3>2. Uncounted' = Uncounted \cup {r} /\ r \notin Uncounted
            BY <1>0, <3>1 DEF Uncounted, TypeOK
        <3>3. Cardinality(Uncounted') = Cardinality(Uncounted) + 1
            BY <3>2, GuessCounts, FS_AddElement
        <3>4. guesses' \in {guesses, guesses + 1}
            BY <2>2
        <3>5. CASE dbFailed
            BY <3>1, <3>5 DEF GuessesLeft
        <3>6. CASE fails < maxLoginFailCount - 1 /\ guesses <= fails + Cardinality(Uncounted)
            BY <1>0, <3>1, <3>3, <3>4, <3>6, GuessCounts DEF GuessesLeft, TypeOK
        <3>7. CASE /\ fails >= maxLoginFailCount - 1
                   /\ guesses + Cardinality(MayGuess) + Cardinality(Behind) <= GuessBound
            <4>1. CASE seen[r] < maxLoginFailCount - 1
                <5>1. MayGuess' = MayGuess /\ Behind' = Behind \ {r} /\ r \in Behind
                    BY <1>0, <3>1, <4>1 DEF MayGuess, Behind, TypeOK
                <5>2. Cardinality(Behind') = Cardinality(Behind) - 1
                    BY <5>1, GuessCounts, FS_RemoveElement
                <5> QED
                    BY <1>0, <1>B, <3>1, <3>4, <3>7, <5>1, <5>2, GuessCounts DEF GuessesLeft, TypeOK
            <4>2. CASE ~(seen[r] < maxLoginFailCount - 1)
                <5>1. MayGuess' = MayGuess \ {r} /\ r \in MayGuess /\ Behind' = Behind
                    BY <1>0, <3>1, <4>2 DEF MayGuess, Behind, TypeOK
                <5>2. Cardinality(MayGuess') = Cardinality(MayGuess) - 1
                    BY <5>1, GuessCounts, FS_RemoveElement
                <5> QED
                    BY <1>0, <1>B, <3>1, <3>4, <3>7, <5>1, <5>2, GuessCounts DEF GuessesLeft, TypeOK
            <4> QED
                BY <4>1, <4>2
        <3> QED
            BY <1>0, <3>5, <3>6, <3>7 DEF GuessesLeft
    <2> QED
        BY <1>2, <2>1, <2>2 DEF Compare
<1>3. ASSUME NEW r \in Reqs, IncrementLoginFail(r) PROVE GuessesLeft'
    <2>1. CASE dbFailed' = TRUE
        BY <2>1 DEF GuessesLeft
    <2>2. CASE fails' = OneMore /\ UNCHANGED dbFailed
        <3>1. pc[r] = "increment" /\ UNCHANGED <<locked, guesses>>
            BY <1>3 DEF IncrementLoginFail
        <3>2. \/ pc' = [pc EXCEPT ![r] = "lock"] /\ seen' = seen /\ seen[r] + 1 >= maxLoginFailCount
              \/ /\ pc' = [pc EXCEPT ![r] = "idle"] /\ seen' = [seen EXCEPT ![r] = 0]
                 /\ ~(seen[r] + 1 >= maxLoginFailCount)
            BY <1>3 DEF IncrementLoginFail, AfterIncrement, Goto, Finish
        <3>3. Uncounted' = Uncounted \ {r} /\ r \in Uncounted
            BY <1>0, <3>1, <3>2 DEF Uncounted, TypeOK
        <3>4. Cardinality(Uncounted') = Cardinality(Uncounted) - 1
            BY <3>3, GuessCounts, FS_RemoveElement
        <3>5. Behind' = Behind
            BY <1>0, <3>1, <3>2 DEF Behind, TypeOK
        <3>6. MayGuess' \in SUBSET MayGuess
            BY <1>0, <3>1, <3>2 DEF MayGuess, TypeOK
        <3>7. Cardinality(MayGuess') <= Cardinality(MayGuess) /\ Cardinality(MayGuess') \in Nat
            BY <3>6, GuessCounts, FS_Subset, FS_CardinalityType
        <3>8. CASE dbFailed
            BY <2>2, <3>8 DEF GuessesLeft
        <3>9. CASE fails < maxLoginFailCount - 1 /\ guesses <= fails + Cardinality(Uncounted)
            <4>1. fails' = fails + 1
                BY <1>0, <2>2, <3>9 DEF OneMore, TypeOK
            <4>2. CASE fails' < maxLoginFailCount - 1
                BY <1>0, <3>1, <3>4, <3>9, <4>1, <4>2, GuessCounts DEF GuessesLeft, TypeOK
            <4>3. CASE ~(fails' < maxLoginFailCount - 1)
                <5>1. guesses' + Cardinality(MayGuess') + Cardinality(Behind') <= GuessBound
                    BY <1>0, <3>1, <3>5, <3>7, <3>9, <4>1, <4>3, GuessCounts DEF GuessBound, TypeOK
                <5> QED
                    BY <1>0, <1>B, <4>1, <4>3, <5>1 DEF GuessesLeft, TypeOK
            <4> QED
                BY <4>2, <4>3
        <3>10. CASE /\ fails >= maxLoginFailCount - 1
                    /\ guesses + Cardinality(MayGuess) + Cardinality(Behind) <= GuessBound
            <4>1. fails' \in Int /\ fails' >= maxLoginFailCount - 1
                BY <1>0, <2>2, <3>10 DEF OneMore, TypeOK
            <4> QED
                BY <1>0, <1>B, <3>1, <3>5, <3>7, <3>10, <4>1, GuessCounts DEF GuessesLeft, TypeOK
        <3> QED
            BY <1>0, <3>8, <3>9, <3>10 DEF GuessesLeft
    <2> QED
        BY <1>3, <2>1, <2>2 DEF IncrementLoginFail
<1>4. ASSUME NEW r \in Reqs, LockUser(r) PROVE GuessesLeft'
    <2>1. CASE dbFailed' = TRUE
        BY <2>1 DEF GuessesLeft
    <2>2. CASE locked' = TRUE /\ UNCHANGED dbFailed
        <3>1. /\ pc[r] = "lock" /\ pc' = [pc EXCEPT ![r] = "idle"]
              /\ seen' = [seen EXCEPT ![r] = 0] /\ UNCHANGED <<fails, guesses>>
            BY <1>4 DEF LockUser, Finish, Goto
        <3>2. Uncounted' = Uncounted /\ Behind' \subseteq Behind
            BY <1>0, <3>1 DEF Uncounted, Behind, TypeOK
        <3>3. MayGuess' \subseteq MayGuess
            BY <1>0, <2>2, <3>1 DEF MayGuess, TypeOK
        <3> QED
            BY <1>0, <2>2, <3>1, <3>2, <3>3, GuessesKept
    <2> QED
        BY <1>4, <2>1, <2>2 DEF LockUser
<1>5. ASSUME NEW r \in Reqs, UpdateLastLogin(r) PROVE GuessesLeft'
    <2>1. CASE fails' = 0 /\ guesses' = 0
        <3>1. Cardinality(Uncounted') \in Nat
            <4>1. Uncounted' \in SUBSET Reqs
                BY DEF Uncounted
            <4> QED
                BY <4>1, ReqsAssumption, FS_Subset, FS_CardinalityType
        <3> QED
            BY <2>1, <3>1 DEF GuessesLeft
    <2>2. CASE UNCHANGED <<fails, guesses>>
        <3>1. Uncounted' = Uncounted /\ Behind' \subseteq Behind /\ MayGuess' \subseteq MayGuess
            BY <1>5, <1>0 DEF UpdateLastLogin, Goto, Uncounted, Behind, MayGuess, TypeOK
        <3> QED
            BY <1>5, <1>0, <2>2, <3>1, GuessesKept DEF UpdateLastLogin
    <2> QED
        BY <1>5, <2>1, <2>2 DEF UpdateLastLogin
<1>6. ASSUME NEW r \in Reqs, RefreshToken(r) \/ GenerateTokenPair(r) PROVE GuessesLeft'
    <2>1. Uncounted' = Uncounted /\ Behind' \subseteq Behind /\ MayGuess' \subseteq MayGuess
        BY <1>6, <1>0 DEF RefreshToken, GenerateTokenPair, Goto, row, Uncounted, Behind, MayGuess, TypeOK
    <2> QED
        BY <1>6, <1>0, <2>1, GuessesKept DEF RefreshToken, GenerateTokenPair, row
<1>7. ASSUME NEW r \in Reqs, StoreRefreshToken(r) PROVE GuessesLeft'
    <2>1. /\ pc[r] = "store" /\ pc' = [pc EXCEPT ![r] = "idle"]
          /\ seen' = [seen EXCEPT ![r] = 0] /\ UNCHANGED <<fails, locked, guesses, dbFailed>>
        BY <1>7 DEF StoreRefreshToken, Finish, Goto, row
    <2>2. Uncounted' = Uncounted /\ Behind' \subseteq Behind /\ MayGuess' \subseteq MayGuess
        BY <1>0, <2>1 DEF Uncounted, Behind, MayGuess, TypeOK
    <2> QED
        BY <1>0, <2>1, <2>2, GuessesKept
<1>8. CASE LockEnds
    <2>1. UNCHANGED <<fails, pc, seen, dbFailed>> /\ guesses' = 0
        BY <1>8 DEF LockEnds, locals
    <2>2. Uncounted' = Uncounted /\ Behind' = Behind
        BY <2>1 DEF Uncounted, Behind
    <2>3. MayGuess' \in SUBSET Reqs
        BY DEF MayGuess
    <2>4. Cardinality(MayGuess') \in Nat /\ Cardinality(MayGuess') <= Cardinality(Reqs)
        BY <2>3, ReqsAssumption, FS_Subset, FS_CardinalityType
    <2>5. guesses' + Cardinality(MayGuess') + Cardinality(Behind') <= GuessBound
        BY <2>1, <2>2, <2>4, GuessCounts DEF GuessBound
    <2> QED
        BY <1>0, <1>B, <2>1, <2>2, <2>5, GuessCounts DEF GuessesLeft, TypeOK
<1>9. CASE Logout \/ Tick \/ TokenExpires \/ UNCHANGED vars
    <2>1. UNCHANGED <<fails, locked, pc, seen, guesses, dbFailed>>
        BY <1>9 DEF Logout, Tick, TokenExpires, vars, row, locals
    <2>2. Uncounted' = Uncounted /\ Behind' \subseteq Behind /\ MayGuess' \subseteq MayGuess
        BY <2>1 DEF Uncounted, Behind, MayGuess
    <2> QED
        BY <1>0, <2>1, <2>2, GuessesKept
<1> QED
    BY <1>1, <1>2, <1>3, <1>4, <1>5, <1>6, <1>7, <1>8, <1>9 DEF Next, Step

\* Every call of a request and every step of time keeps AuthInv.
LEMMA AuthStep == AuthInv /\ [Next]_vars => AuthInv'
<1> SUFFICES ASSUME AuthInv, [Next]_vars PROVE AuthInv'
    OBVIOUS
<1> USE TypeStep, GuessStep, NoneAssumption DEF AuthInv, LogoutSticks, Goto, row, locals
<1>1. ASSUME NEW r \in Reqs, Login(r) PROVE AuthInv'
    BY <1>1 DEF Login
<1>2. ASSUME NEW r \in Reqs, Compare(r) PROVE AuthInv'
    <2>1. /\ pc[r] = "compare" /\ UNCHANGED <<stored, presented, token, ended>>
          /\ pc' = [pc EXCEPT ![r] = "reset"] \/ pc' = [pc EXCEPT ![r] = "increment"]
        BY <1>2 DEF Compare
    <2> QED
        BY <2>1 DEF TypeOK
<1>3. ASSUME NEW r \in Reqs, IncrementLoginFail(r) PROVE AuthInv'
    <2>1. pc[r] = "increment" /\ UNCHANGED <<stored, ended>>
        BY <1>3 DEF IncrementLoginFail
    <2>2. CASE Goto(r, "lock") /\ UNCHANGED <<seen, presented, token>>
        BY <2>1, <2>2 DEF TypeOK
    <2>3. CASE Finish(r)
        BY <2>1, <2>3 DEF Finish, TypeOK
    <2> QED
        BY <1>3, <2>2, <2>3 DEF IncrementLoginFail, AfterIncrement
<1>4. ASSUME NEW r \in Reqs, LockUser(r) PROVE AuthInv'
    BY <1>4 DEF LockUser, Finish
<1>5. ASSUME NEW r \in Reqs, UpdateLastLogin(r) PROVE AuthInv'
    BY <1>5 DEF UpdateLastLogin
<1>6. ASSUME NEW r \in Reqs, RefreshToken(r) PROVE AuthInv'
    <2>1. ~ended /\ UNCHANGED <<ended, token>>
        BY <1>6 DEF RefreshToken
    <2>2. pc[r] = "idle" /\ pc' = [pc EXCEPT ![r] = "generate"]
          /\ presented' = [presented EXCEPT ![r] = stored]
        BY <1>6 DEF RefreshToken
    <2> QED
        BY <2>1, <2>2 DEF TypeOK
<1>7. ASSUME NEW r \in Reqs, GenerateTokenPair(r) PROVE AuthInv'
    <2>1. now # None
        BY DEF TypeOK, Tokens
    <2> QED
        BY <1>7, <2>1 DEF GenerateTokenPair, TypeOK
<1>8. ASSUME NEW r \in Reqs, StoreRefreshToken(r) PROVE AuthInv'
    <2>1. ended' => ended /\ presented[r] # None
        BY <1>8, Zenon DEF StoreRefreshToken
    <2>2. ~ended'
        BY <2>1
    <2>3. \A q \in Reqs : pc'[q] = IF q = r THEN "idle" ELSE pc[q]
        BY <1>8 DEF StoreRefreshToken, Finish, TypeOK
    <2>4. \A q \in Reqs : /\ presented'[q] = IF q = r THEN None ELSE presented[q]
                          /\ token'[q] = IF q = r THEN None ELSE token[q]
        BY <1>8 DEF StoreRefreshToken, Finish, TypeOK
    <2> QED
        BY <2>2, <2>3, <2>4
<1>9. CASE Logout
    <2>1. CASE stored' = None /\ ended' = (\A r \in Reqs : presented[r] = None)
        <3>1. ended' => \A r \in Reqs : presented[r] = None
            BY <2>1, Zenon
        <3>2. pc' = pc /\ presented' = presented /\ token' = token /\ stored' = None
            BY <1>9, <2>1 DEF Logout
        <3> QED
            BY <3>1, <3>2
    <2>2. CASE UNCHANGED <<stored, ended>>
        BY <1>9, <2>2 DEF Logout
    <2> QED
        BY <1>9, <2>1, <2>2 DEF Logout
<1>10. CASE Tick
    BY <1>10 DEF Tick
<1>11. CASE LockEnds
    BY <1>11 DEF LockEnds
<1>12. CASE TokenExpires
    BY <1>12 DEF TokenExpires
<1>13. CASE UNCHANGED vars
    BY <1>13 DEF vars
<1> QED
    BY <1>1, <1>2, <1>3, <1>4, <1>5, <1>6, <1>7, <1>8, <1>9, <1>10, <1>11, <1>12, <1>13 DEF Next, Step

\* AuthInv holds in every behaviour of any number of requests.
THEOREM AuthInvariant == Spec => []AuthInv
<1>1. Init => AuthInv
    <2>1. Init => TypeOK
        <3>1. 0 \in Tokens /\ 0 \in 0 .. maxLoginFailCount /\ 0 \in Nat
            BY MaxAssumption DEF Tokens
        <3> QED
            BY <3>1 DEF Init, TypeOK, PC
    <2>2. Init => ~ended /\ \A r \in Reqs : pc[r] = "idle" /\ presented[r] = None /\ token[r] = None
        BY DEF Init
    <2>3. Init => GuessesLeft
        BY GuessCounts, MaxAssumption DEF Init, GuessesLeft
    <2> QED
        BY <2>1, <2>2, <2>3 DEF AuthInv, LogoutSticks
<1> QED
    BY <1>1, AuthStep, PTL DEF Spec

\* However many logins run in parallel, each of them gains at most two guesses
\* before the lock falls, while the database answers (auth.go 131-140).
THEOREM GuessesStayBounded == Spec => []GuessesBounded
<1>1. AuthInv => GuessesBounded
    <2> SUFFICES ASSUME AuthInv PROVE GuessesBounded
        OBVIOUS
    <2> USE MaxAssumption, GuessCounts DEF AuthInv, TypeOK, GuessesBounded, GuessBound
    <2>1. CASE dbFailed
        BY <2>1
    <2>2. CASE fails < maxLoginFailCount - 1 /\ guesses <= fails + Cardinality(Uncounted)
        BY <2>2
    <2>3. CASE /\ fails >= maxLoginFailCount - 1
               /\ guesses + Cardinality(MayGuess) + Cardinality(Behind) <= GuessBound
        BY <2>3
    <2> QED
        BY <2>1, <2>2, <2>3 DEF GuessesLeft
<1> QED
    BY <1>1, AuthInvariant, PTL

\* After a logout that no refresh overlapped only a login opens the session
\* again (auth.go 167-170 and 186-190).
THEOREM LogoutsStick == Spec => []LogoutSticks
<1>1. AuthInv => LogoutSticks
    BY DEF AuthInv
<1> QED
    BY <1>1, AuthInvariant, PTL

\* Only what a request has generated, or what is stored, is stored next, and
\* what is generated is of the present.
LEMMA DeadTokensStep ==
    ASSUME AuthInv, [Next]_vars, NEW t \in Tokens, Dead(t)
    PROVE  Dead(t)'
<1> USE NoneAssumption, MaxAssumption DEF Tokens, Dead, AuthInv, TypeOK, row, locals
<1>1. t # None
    OBVIOUS
<1>2. now' \in {now, now + 1}
    BY DEF Next, Step, Login, Compare, IncrementLoginFail, LockUser, UpdateLastLogin,
           RefreshToken, GenerateTokenPair, StoreRefreshToken, Logout, Tick, LockEnds,
           TokenExpires, vars
<1>3. stored' \in {stored, None} \cup {token[r] : r \in Reqs}
    BY DEF Next, Step, Login, Compare, IncrementLoginFail, LockUser, UpdateLastLogin,
           RefreshToken, GenerateTokenPair, StoreRefreshToken, Logout, Tick, LockEnds,
           TokenExpires, vars
<1>4. \A r \in Reqs : token'[r] \in {token[r], None, now}
    <2>1. ASSUME NEW q \in Reqs, Finish(q) \/ GenerateTokenPair(q)
          PROVE  \A r \in Reqs : token'[r] \in {token[r], None, now}
        BY <2>1 DEF Finish, GenerateTokenPair
    <2> QED
        BY <2>1 DEF Next, Step, Login, Compare, IncrementLoginFail, AfterIncrement, LockUser,
           UpdateLastLogin, RefreshToken, StoreRefreshToken, Logout, Tick, LockEnds,
           TokenExpires, vars
<1> QED
    BY <1>1, <1>2, <1>3, <1>4

\* A token of the past that is neither stored nor about to be is dead for ever
\* (auth.go 172-181).
THEOREM DeadTokensStay == Spec => DeadTokensStayDead
<1>1. AuthInv /\ [Next]_vars => [\A t \in Tokens : Dead(t) => Dead(t)']_vars
    BY DeadTokensStep
<1> QED
    BY <1>1, AuthInvariant, PTL DEF Spec, DeadTokensStayDead

=============================================================================
