--------------------------- MODULE AccountsProofs ---------------------------
(***************************************************************************)
(* Theorems about Accounts, for any number of requests, emails, names,     *)
(* codes, tokens and rows, and for every choice of faults.                 *)
(***************************************************************************)
EXTENDS Accounts, TLAPS

\* The rows that are committed or about to be are admitted by the indexes, and
\* each has an id of its own.
RowsAdmitted ==
    /\ \A u, v \in users : u # v => u.id # v.id /\ ~Conflict(u, v)
    /\ \A u \in users, q \in Reqs :
        row[q] # None => u.id # row[q].id /\ ~Conflict(u, row[q])
    /\ \A p, q \in Reqs :
        row[p] # None /\ row[q] # None /\ p # q
            => row[p].id # row[q].id /\ ~Conflict(row[p], row[q])

\* A request has a row in its transaction, and a new code, exactly where it
\* needs them; a row is born enabled.
LocalsInv ==
    \A r \in Reqs :
        /\ pc[r] = "commit" <=> row[r] # None
        /\ pc[r] = "mail" <=> sending[r] # None
        /\ pc[r] # "idle" => email[r] \in Emails
        /\ pc[r] \in {"findEmail", "findName", "create"} => name[r] \in Names
        /\ row[r] # None => row[r].enabled

\* A token in Redis has let nobody through yet.
TokensInv == \A t \in Tokens : passes[t] <= 1 /\ (t \in live => passes[t] = 0)

\* While the promise of a mailbox stands, whoever is about to delete its code
\* has enabled the account.
PromisesInv ==
    \A e \in promised :
        \A r \in Reqs : pc[r] = "delete" /\ email[r] = e
            => \A u \in users : u.email = e => u.enabled

TypesInv == AccountsTypeOK /\ LocalsInv

-----------------------------------------------------------------------------

\* The new contents of Redis and of the mailboxes are always looked into.
USE DEF NewCode, StoredCode, Sent, SendActivationCode

\* Setting a column leaves a row a row, and the others as they were.
LEMMA RowsEnabled ==
  ASSUME NEW u \in Row, NEW b \in BOOLEAN
  PROVE  LET v == [u EXCEPT !.enabled = b] IN
         v \in Row /\ v.id = u.id /\ v.email = u.email /\ v.name = u.name /\ v.enabled = b
  BY DEF Row

\* One field replaced in the row of a user.
LEMMA SetName ==
  ASSUME NEW u \in Row, NEW n \in Names
  PROVE  LET v == [u EXCEPT !.name = n] IN
         v \in Row /\ v.id = u.id /\ v.email = u.email /\ v.name = n /\ v.enabled = u.enabled
  BY DEF Row

\* EnableUser(e) made v of u: it writes the enabled column and nothing else.
Enables(e, u, v) ==
    /\ v.id = u.id /\ v.email = u.email /\ v.name = u.name
    /\ u.email = e \/ u.enabled => v.enabled

\* The rows that activation may turn on.
LEMMA EnabledRows ==
  ASSUME NEW e, users \subseteq Row
  PROVE  \A v \in Enabled(e) : v \in Row /\ \E u \in users : Enables(e, u, v)
  <1> SUFFICES ASSUME NEW v \in Enabled(e)
               PROVE  v \in Row /\ \E u \in users : Enables(e, u, v)
    OBVIOUS
  <1>1. PICK u \in users : v = IF u.email = e THEN [u EXCEPT !.enabled = TRUE] ELSE u
    BY DEF Enabled
  <1>2. CASE u.email = e
    <2>1. v \in Row /\ v.id = u.id /\ v.email = u.email /\ v.name = u.name /\ v.enabled = TRUE
      BY <1>1, <1>2, RowsEnabled
    <2> QED  BY <2>1 DEF Enables
  <1>3. CASE u.email # e
    BY <1>1, <1>3 DEF Enables
  <1> QED  BY <1>2, <1>3

\* Requests are at known places, with the values they need there.
LEMMA InitTypes == AccountsInit => TypesInv
  BY RowAssumption DEF AccountsInit, TypesInv, AccountsTypeOK, LocalsInv, PC

\* Every step keeps the types.
LEMMA TypesStep == TypesInv /\ [AccountsNext]_accountsVars => TypesInv'
  <1> SUFFICES ASSUME TypesInv, [AccountsNext]_accountsVars PROVE TypesInv'
    OBVIOUS
  <1> USE DEF TypesInv, AccountsTypeOK, LocalsInv, PC
  <1>1. CASE UNCHANGED accountsVars
    BY <1>1 DEF accountsVars, locals
  <1>2. ASSUME NEW r \in Reqs, SignUp(r) PROVE TypesInv'
    <2>1. PICK e \in Emails, n \in Names, t \in Tokens : Call(r, "findEmail", e, n) /\ Spend(t)
      BY <1>2 DEF SignUp
    <2> QED  BY <1>2, <2>1, RowAssumption DEF SignUp, Call, Goto, Spend
  <1>3. ASSUME NEW r \in Reqs, ResendVerifyCode(r) PROVE TypesInv'
    <2>1. PICK e \in Emails, t \in Tokens : Call(r, "find", e, None) /\ Spend(t)
      BY <1>3 DEF ResendVerifyCode
    <2> QED  BY <1>3, <2>1, RowAssumption DEF ResendVerifyCode, Call, Goto, Spend
  <1>4. ASSUME NEW r \in Reqs, FindByEmail(r) PROVE TypesInv'
    BY <1>4, RowAssumption DEF FindByEmail, Find, Finish, Goto
  <1>5. ASSUME NEW r \in Reqs, FindByUsername(r) PROVE TypesInv'
    BY <1>5, RowAssumption DEF FindByUsername, Find, Finish, Goto
  <1>6. ASSUME NEW r \in Reqs, Create(r) PROVE TypesInv'
    <2>1. CASE Finish(r)
      BY <1>6, <2>1, RowAssumption DEF Create, Finish, Goto
    <2>2. CASE ~Finish(r)
      <3>1. PICK u \in Row : /\ u.enabled
                             /\ row' = [row EXCEPT ![r] = u]
                             /\ Goto(r, "commit")
        BY <1>6, <2>2 DEF Create, FreshId, Row, EnabledAtBirth
      <3>2. UNCHANGED <<users, code, live, email, name, sending, mailbox, passes, promised>>
        BY <1>6, <2>2 DEF Create
      <3> QED  BY <1>6, <3>1, <3>2, RowAssumption DEF Create, Goto
    <2> QED  BY <2>1, <2>2
  <1>7. ASSUME NEW r \in Reqs, Commit(r) PROVE TypesInv'
    BY <1>7, RowAssumption DEF Commit, Finish, Goto
  <1>8. ASSUME NEW r \in Reqs, FindDisabled(r) PROVE TypesInv'
    BY <1>8, RowAssumption DEF FindDisabled, Finish, Goto
  <1>9. ASSUME NEW r \in Reqs, StoreActivationCode(r) PROVE TypesInv'
    <2>1. CASE Finish(r)
      BY <1>9, <2>1, RowAssumption DEF StoreActivationCode, Finish, Goto
    <2>2. CASE ~Finish(r)
      BY <1>9, <2>2, RowAssumption DEF StoreActivationCode, Goto
    <2> QED  BY <2>1, <2>2
  <1>10. ASSUME NEW r \in Reqs, SendVerificationCode(r) PROVE TypesInv'
    <2>1. sending[r] \in Codes /\ email[r] \in Emails
      BY <1>10 DEF SendVerificationCode
    <2> QED  BY <1>10, <2>1, RowAssumption DEF SendVerificationCode, Finish, Goto
  <1>11. ASSUME NEW r \in Reqs, VerifyEmail(r) PROVE TypesInv'
    <2>1. PICK e \in Emails : Call(r, "enable", e, None)
      BY <1>11 DEF VerifyEmail
    <2> QED  BY <1>11, <2>1, RowAssumption DEF VerifyEmail, Call, Goto
  <1>12. ASSUME NEW r \in Reqs, EnableUser(r) PROVE TypesInv'
    <2>1. Enabled(email[r]) \subseteq Row
      BY EnabledRows
    <2> QED  BY <1>12, <2>1, RowAssumption DEF EnableUser, Finish, Goto
  <1>13. ASSUME NEW r \in Reqs, DeleteActivationCode(r) PROVE TypesInv'
    BY <1>13, RowAssumption DEF DeleteActivationCode, Finish, Goto
  <1>14. ASSUME NEW r \in Reqs, Crash(r) PROVE TypesInv'
    BY <1>14, RowAssumption DEF Crash, Finish, Goto
  <1>15. ASSUME NEW t \in Tokens, IssueToken(t) \/ TokenExpires(t) \/ SpendFails(t) PROVE TypesInv'
    BY <1>15 DEF IssueToken, TokenExpires, SpendFails, locals
  <1>16. ASSUME NEW e \in Emails, CodeExpires(e) PROVE TypesInv'
    BY <1>16 DEF CodeExpires, locals
  <1>17. CASE UpdateProfile
    <2>1. users' \subseteq Row
      BY <1>17, SetName DEF UpdateProfile
    <2> QED  BY <1>17, <2>1 DEF UpdateProfile, locals
  <1>18. CASE Disable
    <2>1. users' \subseteq Row
      BY <1>18, RowsEnabled DEF Disable
    <2> QED  BY <1>18, <2>1 DEF Disable, locals
  <1> QED
    BY <1>1, <1>2, <1>3, <1>4, <1>5, <1>6, <1>7, <1>8, <1>9, <1>10, <1>11, <1>12, <1>13, <1>14,
       <1>15, <1>16, <1>17, <1>18 DEF AccountsNext, Step

-----------------------------------------------------------------------------
(* One account for an email and a name *)

\* What a step leaves alone in every action that is not about rows.
LEMMA RowsKept ==
  ASSUME TypesInv, TypesInv', RowsAdmitted, UNCHANGED users,
         \A q \in Reqs : row'[q] \in {row[q], None}
  PROVE  RowsAdmitted'
  BY DEF RowsAdmitted, Conflict, TypesInv, AccountsTypeOK

\* A row with the same id that the indexes admit may take a committed row's place.
LEMMA RowReplaced ==
  ASSUME TypesInv, RowsAdmitted, UNCHANGED row,
         NEW u \in users, NEW v \in Row, v.id = u.id, Admitted(v),
         users' = (users \ {u}) \cup {v}
  PROVE  RowsAdmitted'
  <1>1. \A w \in users \cup Uncommitted : ~Conflict(v, w)
    BY DEF Admitted
  <1>2. \A q \in Reqs : row[q] # None => row[q] \in Uncommitted
    BY DEF Uncommitted
  <1>3. \A w \in users \ {u} : w.id # v.id /\ ~Conflict(v, w) /\ ~Conflict(w, v)
    BY <1>1 DEF RowsAdmitted, Conflict
  <1>4. \A q \in Reqs : row[q] # None => v.id # row[q].id /\ ~Conflict(v, row[q])
    BY <1>1, <1>2 DEF RowsAdmitted
  <1> QED  BY <1>3, <1>4 DEF RowsAdmitted, Conflict

\* Rows that EnableUser keeps apart were apart by their ids.
LEMMA EnabledById ==
  ASSUME users \subseteq Row, \A u, v \in users : u # v => u.id # v.id, NEW e
  PROVE  \A u, v \in Enabled(e) : u # v => u.id # v.id
  <1> SUFFICES ASSUME NEW u \in Enabled(e), NEW v \in Enabled(e), u # v PROVE u.id # v.id
    OBVIOUS
  <1>1. PICK a \in users : u = IF a.email = e THEN [a EXCEPT !.enabled = TRUE] ELSE a
    BY DEF Enabled
  <1>2. PICK b \in users : v = IF b.email = e THEN [b EXCEPT !.enabled = TRUE] ELSE b
    BY DEF Enabled
  <1>3. a # b
    BY <1>1, <1>2
  <1>4. u.id = a.id
    BY <1>1, RowsEnabled
  <1>5. v.id = b.id
    BY <1>2, RowsEnabled
  <1> QED  BY <1>3, <1>4, <1>5

\* No step lets two rows of the table or of a transaction collide.
LEMMA RowsAdmittedStep ==
  TypesInv /\ TypesInv' /\ RowsAdmitted /\ [AccountsNext]_accountsVars => RowsAdmitted'
  <1> SUFFICES ASSUME TypesInv, TypesInv', RowsAdmitted, [AccountsNext]_accountsVars PROVE RowsAdmitted'
    OBVIOUS
  <1> USE DEF Goto, Finish, Call
  <1>1. CASE UNCHANGED accountsVars
    BY <1>1, RowsKept DEF accountsVars, locals
  <1>2. ASSUME NEW r \in Reqs, Create(r) PROVE RowsAdmitted'
    <2>1. CASE \A q \in Reqs : row'[q] \in {row[q], None}
      BY <1>2, <2>1, RowsKept DEF Create
    <2>2. CASE \E q \in Reqs : row'[q] \notin {row[q], None}
      <3>1. PICK u \in Row : /\ Admitted(u)
                             /\ u.id \in FreshId
                             /\ row' = [row EXCEPT ![r] = u]
        BY <1>2, <2>2 DEF Create, TypesInv, AccountsTypeOK, FreshId, Row, EnabledAtBirth
      <3>2. \A v \in users \cup Uncommitted : v.id # u.id /\ ~Conflict(u, v) /\ ~Conflict(v, u)
        BY <3>1 DEF Admitted, FreshId, Conflict
      <3>3. \A q \in Reqs : row'[q] = IF q = r THEN u ELSE row[q]
        BY <3>1 DEF TypesInv, AccountsTypeOK
      <3>4. \A q \in Reqs : row[q] # None => row[q] \in Uncommitted
        BY DEF Uncommitted
      <3>5. UNCHANGED users
        BY <1>2 DEF Create
      <3>6. \A v \in users, q \in Reqs :
                row'[q] # None => v.id # row'[q].id /\ ~Conflict(v, row'[q])
        BY <3>2, <3>3 DEF RowsAdmitted
      <3>7. \A p, q \in Reqs :
                row'[p] # None /\ row'[q] # None /\ p # q
                    => row'[p].id # row'[q].id /\ ~Conflict(row'[p], row'[q])
        BY <3>2, <3>3, <3>4 DEF RowsAdmitted
      <3> QED  BY <3>5, <3>6, <3>7 DEF RowsAdmitted, Conflict
    <2> QED  BY <2>1, <2>2
  <1>3. ASSUME NEW r \in Reqs, Commit(r) PROVE RowsAdmitted'
    <2>1. row[r] # None /\ row' = [row EXCEPT ![r] = None] /\ users' \in {users, users \cup {row[r]}}
      BY <1>3 DEF Commit, TypesInv, LocalsInv
    <2>2. \A q \in Reqs : row'[q] = IF q = r THEN None ELSE row[q]
      BY <2>1 DEF TypesInv, AccountsTypeOK
    <2>3. \A u, v \in users' : u # v => u.id # v.id /\ ~Conflict(u, v)
      BY <2>1 DEF RowsAdmitted, Conflict
    <2>4. \A u \in users', q \in Reqs :
              row'[q] # None => u.id # row'[q].id /\ ~Conflict(u, row'[q])
      BY <2>1, <2>2 DEF RowsAdmitted
    <2>5. \A p, q \in Reqs :
              row'[p] # None /\ row'[q] # None /\ p # q
                  => row'[p].id # row'[q].id /\ ~Conflict(row'[p], row'[q])
      BY <2>2 DEF RowsAdmitted
    <2> QED  BY <2>3, <2>4, <2>5 DEF RowsAdmitted, Conflict
  <1>4. ASSUME NEW r \in Reqs, EnableUser(r) PROVE RowsAdmitted'
    <2>1. CASE UNCHANGED users
      BY <1>4, <2>1, RowsKept DEF EnableUser, TypesInv, AccountsTypeOK
    <2>2. CASE users' = Enabled(email[r])
      <3>1. \A v \in users' : \E u \in users : v.id = u.id /\ v.email = u.email /\ v.name = u.name
        BY <2>2, EnabledRows DEF TypesInv, AccountsTypeOK, Enables
      <3>2. \A q \in Reqs : row'[q] \in {row[q], None}
        BY <1>4 DEF EnableUser, TypesInv, AccountsTypeOK
      <3>3. \A u, v \in users' : u # v => u.id # v.id
        BY <2>2, EnabledById DEF TypesInv, AccountsTypeOK, RowsAdmitted
      <3>4. \A u, v \in users' : ~Conflict(u, v)
        BY <3>1 DEF RowsAdmitted, Conflict
      <3>5. \A u \in users', q \in Reqs :
                row'[q] # None => u.id # row'[q].id /\ ~Conflict(u, row'[q])
        BY <3>1, <3>2 DEF RowsAdmitted, Conflict
      <3>6. \A p, q \in Reqs :
                row'[p] # None /\ row'[q] # None /\ p # q
                    => row'[p].id # row'[q].id /\ ~Conflict(row'[p], row'[q])
        BY <3>2 DEF RowsAdmitted
      <3> QED  BY <3>3, <3>4, <3>5, <3>6 DEF RowsAdmitted, Conflict
    <2> QED  BY <1>4, <2>1, <2>2 DEF EnableUser
  <1>5. CASE UpdateProfile
    <2>1. PICK u \in users, n \in Names :
              /\ Admitted([u EXCEPT !.name = n])
              /\ users' = (users \ {u}) \cup {[u EXCEPT !.name = n]}
      BY <1>5 DEF UpdateProfile
    <2> DEFINE v == [u EXCEPT !.name = n]
    <2>2. u \in Row
      BY DEF TypesInv, AccountsTypeOK
    <2>3. v \in Row /\ v.id = u.id
      BY <2>2, SetName
    <2>4. Admitted(v) /\ users' = (users \ {u}) \cup {v}
      BY <2>1
    <2> HIDE DEF v
    <2> QED  BY <1>5, <2>3, <2>4, RowReplaced DEF UpdateProfile, locals
  <1>6. CASE Disable
    <2>1. PICK u \in users, v \in Row :
              /\ v.id = u.id /\ v.email = u.email /\ v.name = u.name
              /\ users' = (users \ {u}) \cup {v}
      BY <1>6, RowsEnabled DEF Disable, TypesInv, AccountsTypeOK
    <2>2. \A w \in users \cup Uncommitted : ~Conflict(v, w)
      BY <2>1 DEF RowsAdmitted, Conflict, Uncommitted
    <2> QED  BY <1>6, <2>1, <2>2, RowReplaced DEF Disable, locals, Admitted
  <1>7. ASSUME NEW r \in Reqs,
               \/ SignUp(r) \/ FindByEmail(r) \/ FindByUsername(r) \/ ResendVerifyCode(r)
               \/ FindDisabled(r) \/ StoreActivationCode(r) \/ SendVerificationCode(r)
               \/ VerifyEmail(r) \/ DeleteActivationCode(r) \/ Crash(r)
        PROVE  RowsAdmitted'
    <2>1. UNCHANGED users
      BY <1>7 DEF SignUp, FindByEmail, FindByUsername, Find, ResendVerifyCode, FindDisabled,
                  StoreActivationCode, SendVerificationCode, VerifyEmail, DeleteActivationCode, Crash
    <2>2. row' = row \/ row' = [row EXCEPT ![r] = None]
      BY <1>7 DEF SignUp, FindByEmail, FindByUsername, Find, ResendVerifyCode, FindDisabled,
                  StoreActivationCode, SendVerificationCode, VerifyEmail, DeleteActivationCode, Crash
    <2> QED  BY <2>1, <2>2, RowsKept DEF TypesInv, AccountsTypeOK
  <1>8. CASE \/ \E t \in Tokens : IssueToken(t) \/ TokenExpires(t) \/ SpendFails(t)
             \/ \E e \in Emails : CodeExpires(e)
    BY <1>8, RowsKept DEF IssueToken, TokenExpires, SpendFails, CodeExpires, locals
  <1> QED
    BY <1>1, <1>2, <1>3, <1>4, <1>5, <1>6, <1>7, <1>8 DEF AccountsNext, Step

\* The unique indexes hold whichever requests overlap and whatever fails: no
\* two committed rows share an email or a name (auth.go 77-105, user.go 87-95).
THEOREM AccountsApart == AccountsSpec => []OneAccountEach
  <1>1. AccountsInit => TypesInv /\ RowsAdmitted
    BY InitTypes DEF AccountsInit, RowsAdmitted
  <1>2. TypesInv /\ RowsAdmitted /\ [AccountsNext]_accountsVars => (TypesInv /\ RowsAdmitted)'
    BY TypesStep, RowsAdmittedStep
  <1>3. TypesInv /\ RowsAdmitted => OneAccountEach
    BY DEF RowsAdmitted, OneAccountEach, Conflict
  <1> QED  BY <1>1, <1>2, <1>3, PTL DEF AccountsSpec

\* Requests are only at places the code has, with values of their types.
THEOREM AccountsTyped == AccountsSpec => []AccountsTypeOK
  <1>1. TypesInv => AccountsTypeOK
    BY DEF TypesInv
  <1> QED  BY <1>1, InitTypes, TypesStep, PTL DEF AccountsSpec

-----------------------------------------------------------------------------
(* Captcha tokens *)

\* Every step keeps a captcha token to one pass.
LEMMA TokensStep == TypesInv /\ TokensInv /\ [AccountsNext]_accountsVars => TokensInv'
  <1> SUFFICES ASSUME TypesInv, TokensInv, [AccountsNext]_accountsVars PROVE TokensInv'
    OBVIOUS
  <1> USE DEF TypesInv, AccountsTypeOK, TokensInv
  <1>1. ASSUME NEW t \in Tokens, Spend(t) PROVE TokensInv'
    BY <1>1 DEF Spend
  <1>2. ASSUME NEW t \in Tokens, IssueToken(t) \/ TokenExpires(t) \/ SpendFails(t) PROVE TokensInv'
    BY <1>2 DEF IssueToken, TokenExpires, SpendFails
  <1>3. CASE UNCHANGED <<live, passes>>
    BY <1>3
  <1> QED
    BY <1>1, <1>2, <1>3 DEF AccountsNext, Step, SignUp, FindByEmail, FindByUsername, Find, Create, Commit,
       ResendVerifyCode, FindDisabled, StoreActivationCode, SendVerificationCode, VerifyEmail,
       EnableUser, DeleteActivationCode, Crash, CodeExpires, UpdateProfile, Disable, accountsVars

\* A token that two requests carry at once lets one of them in, and an error
\* of the DEL none (dal/captcha.go 123-133).
THEOREM TokensSpentOnce == AccountsSpec => []TokenSpentOnce
  <1>1. AccountsInit => TokensInv
    BY DEF AccountsInit, TokensInv
  <1>2. TokensInv => TokenSpentOnce
    BY DEF TokensInv, TokenSpentOnce
  <1> QED  BY <1>1, <1>2, InitTypes, TypesStep, TokensStep, PTL DEF AccountsSpec

-----------------------------------------------------------------------------
(* The codes in the mailboxes *)

EnabledOnly(e) == \A u \in users : u.email = e => u.enabled

\* Steps that neither lose a code nor disable an account.
LEMMA PromisesHeld ==
  ASSUME TypesInv, TypesInv', PromisesInv, PromisesKept,
         promised' \subseteq promised, UNCHANGED <<code, mailbox>>,
         \A e \in promised : EnabledOnly(e) => EnabledOnly(e)',
         \A r \in Reqs : (pc[r] = "mail" \/ pc'[r] = "delete" =>
                            UNCHANGED <<pc[r], email[r], sending[r]>>)
  PROVE  PromisesInv' /\ PromisesKept'
  BY DEF PromisesInv, PromisesKept, EnabledOnly, TypesInv, AccountsTypeOK

\* Every step keeps what a mailed code promises.
LEMMA PromisesStep ==
  TypesInv /\ TypesInv' /\ PromisesInv /\ PromisesKept /\ [AccountsNext]_accountsVars
      => PromisesInv' /\ PromisesKept'
  <1> SUFFICES ASSUME TypesInv, TypesInv', PromisesInv, PromisesKept, [AccountsNext]_accountsVars
               PROVE  PromisesInv' /\ PromisesKept'
    OBVIOUS
  <1> USE DEF Goto, Finish, Call
  <1>1. CASE UNCHANGED accountsVars
    BY <1>1 DEF accountsVars, locals, PromisesInv, PromisesKept
  <1>2. ASSUME NEW r \in Reqs, StoreActivationCode(r) PROVE PromisesInv' /\ PromisesKept'
    <2>1. PICK c \in Codes :
            \/ /\ code' = [code EXCEPT ![email[r]] = c]
               /\ sending' = [sending EXCEPT ![r] = c]
               /\ Goto(r, "mail")
               /\ UNCHANGED <<email, name, row, promised>>
            \/ /\ code' \in {code, [code EXCEPT ![email[r]] = c]}
               /\ promised' = promised \ {email[r]}
               /\ Finish(r)
      BY <1>2 DEF StoreActivationCode
    <2>2. pc[r] = "store" /\ email[r] \in Emails /\ UNCHANGED <<users, mailbox>>
      BY <1>2 DEF StoreActivationCode, TypesInv, LocalsInv
    <2>3. CASE sending' = [sending EXCEPT ![r] = c] /\ Goto(r, "mail") /\ UNCHANGED <<email, name, row, promised>>
               /\ code' = [code EXCEPT ![email[r]] = c]
      BY <2>2, <2>3 DEF PromisesInv, PromisesKept, TypesInv, AccountsTypeOK
    <2>4. CASE code' \in {code, [code EXCEPT ![email[r]] = c]} /\ promised' = promised \ {email[r]} /\ Finish(r)
      BY <2>2, <2>4 DEF PromisesInv, PromisesKept, TypesInv, AccountsTypeOK
    <2> QED  BY <2>1, <2>3, <2>4
  <1>3. ASSUME NEW r \in Reqs, SendVerificationCode(r) PROVE PromisesInv' /\ PromisesKept'
    <2> DEFINE e == email[r]
    <2>1. /\ pc[r] = "mail" /\ e \in Emails /\ Finish(r) /\ UNCHANGED <<users, code>>
          /\ mailbox' \in {mailbox, [mailbox EXCEPT ![e] = @ \cup {sending[r]}]}
      BY <1>3 DEF SendVerificationCode, TypesInv, LocalsInv
    <2>2. CASE promised' = promised \ {e}
      BY <2>1, <2>2 DEF PromisesInv, PromisesKept, TypesInv, AccountsTypeOK
    <2>3. CASE /\ mailbox' = [mailbox EXCEPT ![e] = @ \cup {sending[r]}]
               /\ promised' = IF code[e] = sending[r] /\ ~Verifying(e)
                              THEN promised \cup {e} ELSE promised
      <3>1. \A q \in Reqs : pc'[q] = "delete" => pc[q] = "delete" /\ email'[q] = email[q]
        BY <2>1 DEF TypesInv, AccountsTypeOK
      <3>2. PromisesInv'
        BY <2>1, <2>3, <3>1 DEF PromisesInv, Verifying
      <3>3. code[e] = sending[r] => code[e] \in mailbox'[e]
        BY <2>1, <2>3 DEF TypesInv, AccountsTypeOK
      <3>4. \A f \in promised : f # e \/ code[e] # sending[r] =>
               \/ code[f] \in mailbox'[f]
               \/ \E q \in Reqs : email'[q] = f /\ pc'[q] = "mail" /\ sending'[q] = code[f]
               \/ EnabledOnly(f)
        BY <2>1, <2>3 DEF PromisesKept, TypesInv, AccountsTypeOK, EnabledOnly
      <3> QED  BY <2>1, <2>3, <3>2, <3>3, <3>4 DEF PromisesKept, EnabledOnly
    <2> QED  BY <1>3, <2>2, <2>3 DEF SendVerificationCode
  <1>4. ASSUME NEW r \in Reqs, EnableUser(r) PROVE PromisesInv' /\ PromisesKept'
    <2>1. /\ pc[r] = "enable" /\ email[r] \in Emails /\ UNCHANGED <<code, mailbox, promised>>
          /\ users' \in {users, Enabled(email[r])}
          /\ \/ Finish(r)
             \/ users' = Enabled(email[r]) /\ Goto(r, "delete") /\ UNCHANGED <<email, name, row, sending>>
      BY <1>4 DEF EnableUser, TypesInv, LocalsInv
    <2>0. \A v \in Enabled(email[r]) : \E u \in users : Enables(email[r], u, v)
      BY EnabledRows DEF TypesInv, AccountsTypeOK
    <2>2. \A e \in promised : EnabledOnly(e) => EnabledOnly(e)'
      BY <2>0, <2>1 DEF EnabledOnly, Enables
    <2>3. CASE Finish(r)
      BY <2>1, <2>2, <2>3, PromisesHeld DEF TypesInv, AccountsTypeOK
    <2>4. CASE users' = Enabled(email[r]) /\ Goto(r, "delete") /\ UNCHANGED <<email, name, row, sending>>
      <3>1. \A u \in users' : u.email = email[r] => u.enabled
        BY <2>0, <2>4 DEF Enables
      <3>2. \A q \in Reqs : q # r => pc'[q] = pc[q]
        BY <2>4 DEF TypesInv, AccountsTypeOK
      <3>3. pc' = [pc EXCEPT ![r] = "delete"] /\ pc[r] = "enable"
        BY <2>1, <2>4
      <3> QED  BY <2>1, <2>2, <2>4, <3>1, <3>2, <3>3
               DEF PromisesInv, PromisesKept, EnabledOnly, TypesInv, AccountsTypeOK
    <2> QED  BY <2>1, <2>3, <2>4
  <1>5. ASSUME NEW r \in Reqs, DeleteActivationCode(r) PROVE PromisesInv' /\ PromisesKept'
    <2>1. /\ pc[r] = "delete" /\ Finish(r) /\ UNCHANGED <<users, mailbox, promised>>
          /\ code' \in {code, [code EXCEPT ![email[r]] = None]}
      BY <1>5 DEF DeleteActivationCode
    <2>2. email[r] \in promised => EnabledOnly(email[r])
      BY <2>1 DEF PromisesInv, EnabledOnly
    <2> QED  BY <2>1, <2>2 DEF PromisesInv, PromisesKept, EnabledOnly, TypesInv, AccountsTypeOK
  <1>6. ASSUME NEW r \in Reqs, Commit(r) PROVE PromisesInv' /\ PromisesKept'
    <2>1. /\ pc[r] = "commit" /\ row[r] # None /\ row[r].enabled /\ pc' \in {[pc EXCEPT ![r] = "store"], [pc EXCEPT ![r] = "idle"]}
          /\ users' \in {users, users \cup {row[r]}} /\ UNCHANGED <<code, mailbox, promised>>
      BY <1>6 DEF Commit, TypesInv, LocalsInv
    <2>2. \A e \in promised : EnabledOnly(e) => EnabledOnly(e)'
      BY <2>1 DEF EnabledOnly
    <2>3. \A q \in Reqs : q # r => UNCHANGED <<pc[q], email[q], sending[q]>>
      BY <1>6 DEF Commit, TypesInv, AccountsTypeOK
    <2>4. pc'[r] # "delete"
      BY <2>1 DEF TypesInv, AccountsTypeOK
    <2> QED  BY <2>1, <2>2, <2>3, <2>4, PromisesHeld
  <1>7. CASE UpdateProfile
    <2>1. PICK u \in users, n \in Names : users' = (users \ {u}) \cup {[u EXCEPT !.name = n]}
      BY <1>7 DEF UpdateProfile
    <2> DEFINE v == [u EXCEPT !.name = n]
    <2>2. v.email = u.email /\ v.enabled = u.enabled
      BY SetName DEF TypesInv, AccountsTypeOK
    <2>3. users' = (users \ {u}) \cup {v}
      BY <2>1
    <2> HIDE DEF v
    <2>4. \A e : EnabledOnly(e) => EnabledOnly(e)'
      BY <2>2, <2>3 DEF EnabledOnly
    <2> QED  BY <1>7, <2>4, PromisesHeld DEF UpdateProfile, locals
  <1>8. CASE Disable
    <2>1. PICK u \in users : /\ users' = (users \ {u}) \cup {[u EXCEPT !.enabled = FALSE]}
                             /\ promised' = promised \ {u.email}
      BY <1>8 DEF Disable
    <2>2. \A e \in promised' : EnabledOnly(e) => EnabledOnly(e)'
      BY <2>1, RowsEnabled DEF EnabledOnly, TypesInv, AccountsTypeOK
    <2> QED  BY <1>8, <2>1, <2>2 DEF Disable, locals, PromisesInv, PromisesKept, EnabledOnly
  <1>9. ASSUME NEW f \in Emails, CodeExpires(f) PROVE PromisesInv' /\ PromisesKept'
    BY <1>9 DEF CodeExpires, locals, PromisesInv, PromisesKept, TypesInv, AccountsTypeOK
  <1>10. ASSUME NEW r \in Reqs, Crash(r) PROVE PromisesInv' /\ PromisesKept'
    <2>1. \A q \in Reqs : q # r => UNCHANGED <<pc[q], email[q], sending[q]>>
      BY <1>10 DEF Crash, TypesInv, AccountsTypeOK
    <2>2. pc'[r] = "idle" /\ UNCHANGED <<users, code, mailbox>>
      BY <1>10 DEF Crash, TypesInv, AccountsTypeOK
    <2>3. promised' = IF pc[r] = "mail" THEN promised \ {email[r]} ELSE promised
      BY <1>10 DEF Crash
    <2> QED  BY <2>1, <2>2, <2>3 DEF PromisesInv, PromisesKept, TypesInv, AccountsTypeOK
  <1>11. ASSUME NEW r \in Reqs,
                \/ SignUp(r) \/ FindByEmail(r) \/ FindByUsername(r) \/ Create(r)
                \/ ResendVerifyCode(r) \/ FindDisabled(r) \/ VerifyEmail(r)
         PROVE  PromisesInv' /\ PromisesKept'
    <2>1. UNCHANGED <<users, code, mailbox, promised>>
      BY <1>11 DEF SignUp, FindByEmail, FindByUsername, Find, Create, ResendVerifyCode,
                   FindDisabled, VerifyEmail
    <2>2. pc[r] # "mail" /\ pc'[r] # "delete"
      BY <1>11 DEF SignUp, FindByEmail, FindByUsername, Find, Create, ResendVerifyCode,
                   FindDisabled, VerifyEmail, TypesInv, AccountsTypeOK
    <2>3. \A q \in Reqs : q # r => UNCHANGED <<pc[q], email[q], sending[q]>>
      BY <1>11 DEF SignUp, FindByEmail, FindByUsername, Find, Create, ResendVerifyCode,
                   FindDisabled, VerifyEmail, TypesInv, AccountsTypeOK
    <2> QED  BY <2>1, <2>2, <2>3, PromisesHeld DEF EnabledOnly
  <1>12. CASE \E t \in Tokens : IssueToken(t) \/ TokenExpires(t) \/ SpendFails(t)
    BY <1>12 DEF IssueToken, TokenExpires, SpendFails, locals, PromisesInv, PromisesKept
  <1> QED
    BY <1>1, <1>2, <1>3, <1>4, <1>5, <1>6, <1>7, <1>8, <1>9, <1>10, <1>11, <1>12 DEF AccountsNext, Step

\* Sends, verifications and failures of one account that overlap leave a code
\* that its mailbox has or is about to get, or an enabled account
\* (auth.go 224-268), unless one of the things that void the promise happened.
THEOREM MailedCodesWork == AccountsSpec => []PromisesKept
  <1>1. AccountsInit => PromisesInv /\ PromisesKept
    BY DEF AccountsInit, PromisesInv, PromisesKept
  <1> QED  BY <1>1, InitTypes, TypesStep, PromisesStep, PTL DEF AccountsSpec

=============================================================================
