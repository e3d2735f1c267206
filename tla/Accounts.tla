------------------------------ MODULE Accounts ------------------------------
(***************************************************************************)
(* Registration and activation: SignUp, VerifyEmail and ResendVerifyCode   *)
(* of internal/handler/v1/auth.go with Register, VerifyEmail and           *)
(* ResendVerifyCode of internal/service/auth.go, over the users' rows, the *)
(* activation codes in Redis and the mail, and the one column of a profile *)
(* that a sign-up can collide with (UserService.UpdateProfile).            *)
(*                                                                         *)
(* Every call of the database, of Redis and of the mail server is a step;  *)
(* a member of Reqs is a request in flight on any instance.  Transactions  *)
(* are PostgreSQL's READ COMMITTED: a read sees committed rows, and an     *)
(* INSERT or UPDATE that meets an uncommitted row in a unique index waits  *)
(* for its transaction.  A refused request that wrote nothing is no step,  *)
(* unless it has spent a captcha token.                                    *)
(***************************************************************************)
EXTENDS Integers, FiniteSets

CONSTANTS Reqs, Emails, Names,
          Codes,       \* activation codes; two of one mailbox differ
          Tokens,      \* captcha tokens (module Captcha)
          MaxUsers,    \* bound: rows of sys_user
          Faults,      \* a subset of AllFaults
          None

\* A call fails, its effect done or not; or the process of a request dies.
AllFaults == {"db", "redis", "mail", "crash"}

VARIABLES
    users,      \* the committed rows of sys_user
    code,       \* the value of email:activation:<email>
    live,       \* the captcha tokens in Redis
    pc, email, name,    \* where a request is, and what it was sent
    row,        \* the row it has inserted and not committed
    sending,    \* the activation code it has stored and not mailed
    (* history, for the properties *)
    mailbox,    \* the codes that reached a mailbox
    passes,     \* requests that a captcha token let through
    promised    \* the mailbox got a code, which nothing known has voided since

locals == <<pc, email, name, row, sending>>
accountsVars == <<users, code, live, locals, mailbox, passes, promised>>

PC == {"idle", "findEmail", "findName", "create", "commit", "store", "mail",
       "find", "enable", "delete"}

Ids == 1 .. MaxUsers

Row == [id : Ids, email : Emails, name : Names, enabled : BOOLEAN]

ASSUME RowAssumption == MaxUsers \in Nat /\ None \notin Row \cup Emails \cup Names \cup Codes

-----------------------------------------------------------------------------

Goto(r, p) == pc' = [pc EXCEPT ![r] = p]

\* A request has answered, or its process is gone: the transaction is rolled
\* back, and its locals are no more.
Finish(r) ==
    /\ Goto(r, "idle")
    /\ email' = [email EXCEPT ![r] = None]
    /\ name' = [name EXCEPT ![r] = None]
    /\ row' = [row EXCEPT ![r] = None]
    /\ sending' = [sending EXCEPT ![r] = None]

Uncommitted == {row[q] : q \in {q \in Reqs : row[q] # None}}

\* Two rows meet in idx_user_email or idx_user_username.
Conflict(u, v) == u.id # v.id /\ (u.email = v.email \/ u.name = v.name)

\* The indexes admit the row now: it meets no committed row, and does not have
\* to wait for one that is not.
Admitted(u) == \A v \in users \cup Uncommitted : ~Conflict(u, v)

FreshId == {i \in Ids : \A u \in users \cup Uncommitted : u.id # i}

AccountsInit ==
    /\ users = {}
    /\ code = [e \in Emails |-> None]
    /\ live = {}
    /\ pc = [r \in Reqs |-> "idle"]
    /\ email = [r \in Reqs |-> None]
    /\ name = [r \in Reqs |-> None]
    /\ row = [r \in Reqs |-> None]
    /\ sending = [r \in Reqs |-> None]
    /\ mailbox = [e \in Emails |-> {}]
    /\ passes = [t \in Tokens |-> 0]
    /\ promised = {}

-----------------------------------------------------------------------------
(* The captcha token in front of SignUp and ResendVerifyCode *)

\* Somebody solves a captcha (module Captcha).
IssueToken(t) ==
    /\ t \notin live
    /\ live' = live \cup {t}
    /\ passes' = [passes EXCEPT ![t] = 0]
    /\ UNCHANGED <<users, code, locals, mailbox, promised>>

TokenExpires(t) ==
    /\ t \in live
    /\ live' = live \ {t}
    /\ UNCHANGED <<users, code, locals, mailbox, passes, promised>>

\* ValidateAndDeleteCaptchaToken: the DEL that removes the token is the check.
Spend(t) ==
    /\ t \in live
    /\ live' = live \ {t}
    /\ passes' = [passes EXCEPT ![t] = IF @ < 2 THEN @ + 1 ELSE @]

\* An error of the DEL refuses the request, though the token may be gone.
SpendFails(t) ==
    /\ "redis" \in Faults
    /\ t \in live
    /\ live' = live \ {t}
    /\ UNCHANGED <<users, code, locals, mailbox, passes, promised>>

Call(r, p, e, n) ==
    /\ pc[r] = "idle"
    /\ Goto(r, p)
    /\ email' = [email EXCEPT ![r] = e]
    /\ name' = [name EXCEPT ![r] = n]
    /\ UNCHANGED <<row, sending>>

SignUp(r) ==
    /\ \E e \in Emails, n \in Names : Call(r, "findEmail", e, n)
    /\ \E t \in Tokens : Spend(t)
    /\ UNCHANGED <<users, code, mailbox, promised>>

ResendVerifyCode(r) ==
    /\ \E e \in Emails : Call(r, "find", e, None)
    /\ \E t \in Tokens : Spend(t)
    /\ UNCHANGED <<users, code, mailbox, promised>>

-----------------------------------------------------------------------------
(* Register: the transaction *)

\* A read of the transaction that finds a row, or fails, ends it.
Find(r, p, found, next) ==
    /\ pc[r] = p
    /\ \/ ~found /\ Goto(r, next) /\ UNCHANGED <<email, name, row, sending>>
       \/ (found \/ "db" \in Faults) /\ Finish(r)
    /\ UNCHANGED <<users, code, live, mailbox, passes, promised>>

FindByEmail(r) == Find(r, "findEmail", \E u \in users : u.email = email[r], "findName")

FindByUsername(r) == Find(r, "findName", \E u \in users : u.name = name[r], "create")

\* What the column gets: Enabled is the zero value of its type, for which GORM
\* writes the default of the model's tag.
EnabledAtBirth == TRUE

\* (Mutation: the reads are trusted, and there is no unique index.)
CreateUnindexed(r) ==
    /\ pc[r] = "create"
    /\ \E i \in FreshId :
        row' = [row EXCEPT ![r] = [id |-> i, email |-> email[r], name |-> name[r], enabled |-> TRUE]]
    /\ Goto(r, "commit")
    /\ UNCHANGED <<users, code, live, email, name, sending, mailbox, passes, promised>>

\* The INSERT: refused by a committed row (ErrDuplicatedKey), waiting for an
\* uncommitted one, or failing.
Create(r) ==
    /\ pc[r] = "create"
    /\ \E i \in FreshId :
        LET u == [id |-> i, email |-> email[r], name |-> name[r], enabled |-> EnabledAtBirth] IN
        \/ /\ Admitted(u)
           /\ row' = [row EXCEPT ![r] = u]
           /\ Goto(r, "commit")
           /\ UNCHANGED <<email, name, sending>>
        \/ (\E v \in users : Conflict(u, v)) /\ Finish(r)
        \/ "db" \in Faults /\ Finish(r)
    /\ UNCHANGED <<users, code, live, mailbox, passes, promised>>

\* A COMMIT that fails for the client may have been done.
Commit(r) ==
    /\ pc[r] = "commit"
    /\ \/ /\ users' = users \cup {row[r]}
          /\ Goto(r, "store")
          /\ row' = [row EXCEPT ![r] = None]
          /\ UNCHANGED <<email, name, sending>>
       \/ "db" \in Faults /\ users' \in {users, users \cup {row[r]}} /\ Finish(r)
    /\ UNCHANGED <<code, live, mailbox, passes, promised>>

-----------------------------------------------------------------------------
(* sendActivationCode, of Register and ResendVerifyCode *)

\* FindByEmail and the look at Enabled: only a disabled account gets a code.
FindDisabled(r) ==
    /\ pc[r] = "find"
    /\ \/ /\ \E u \in users : u.email = email[r] /\ ~u.enabled
          /\ Goto(r, "store")
          /\ UNCHANGED <<email, name, row, sending>>
       \/ /\ (\A u \in users : u.email = email[r] => u.enabled) \/ "db" \in Faults
          /\ Finish(r)
    /\ UNCHANGED <<users, code, live, mailbox, passes, promised>>

\* generateActivationCode: six random digits, taken not to repeat for an email.
NewCode(e) ==
    {c \in Codes \ mailbox[e] : c # code[e] /\ \A q \in Reqs : email[q] = e => sending[q] # c}

\* The key of an email in Redis, set or (None) deleted.
StoredCode(e, c) == [code EXCEPT ![e] = c]

\* The SET replaces the code of an earlier mail.
StoreActivationCode(r) ==
    /\ pc[r] = "store"
    /\ \E c \in NewCode(email[r]) :
        /\ \/ /\ code' = StoredCode(email[r], c)
              /\ sending' = [sending EXCEPT ![r] = c]
              /\ Goto(r, "mail")
              /\ UNCHANGED <<email, name, row, promised>>
           \/ /\ "redis" \in Faults
              /\ code' \in {code, StoredCode(email[r], c)}
              /\ promised' = promised \ {email[r]}
              /\ Finish(r)
    /\ UNCHANGED <<users, live, mailbox, passes>>

\* Somebody is between the reading of a code and its deletion.
Verifying(e) == \E r \in Reqs : pc[r] \in {"enable", "delete"} /\ email[r] = e

\* Client.Send: the mailboxes when it has come through.
Sent(e, c) == [mailbox EXCEPT ![e] = @ \cup {c}]

\* A mail that fails for the client may have been sent.
SendVerificationCode(r) ==
    LET e == email[r] IN
    /\ pc[r] = "mail"
    /\ \/ /\ mailbox' = Sent(e, sending[r])
          /\ promised' = IF code[e] = sending[r] /\ ~Verifying(e)
                            THEN promised \cup {e} ELSE promised
       \/ /\ "mail" \in Faults
          /\ mailbox' \in {mailbox, Sent(e, sending[r])}
          /\ promised' = promised \ {e}
    /\ Finish(r)
    /\ UNCHANGED <<users, code, live, passes>>

SendActivationCode(r) == StoreActivationCode(r) \/ SendVerificationCode(r)

-----------------------------------------------------------------------------
(* VerifyEmail *)

\* Somebody types a code of the mailbox, and it is the one in Redis.
VerifyEmail(r) ==
    /\ \E e \in Emails :
        /\ code[e] \in mailbox[e]
        /\ Call(r, "enable", e, None)
    /\ UNCHANGED <<users, code, live, mailbox, passes, promised>>

Enabled(e) == {IF u.email = e THEN [u EXCEPT !.enabled = TRUE] ELSE u : u \in users}

\* (Mutation: the code is deleted before the account is enabled.)
EnableUserLate(r) ==
    /\ pc[r] = "enable"
    /\ code' = [code EXCEPT ![email[r]] = None]
    /\ \/ users' = Enabled(email[r]) /\ Finish(r)
       \/ "db" \in Faults /\ UNCHANGED users /\ Finish(r)
    /\ UNCHANGED <<live, mailbox, passes, promised>>

\* An error leaves the code where it is.
EnableUser(r) ==
    /\ pc[r] = "enable"
    /\ \/ users' = Enabled(email[r]) /\ Goto(r, "delete") /\ UNCHANGED <<email, name, row, sending>>
       \/ "db" \in Faults /\ users' \in {users, Enabled(email[r])} /\ Finish(r)
    /\ UNCHANGED <<code, live, mailbox, passes, promised>>

\* Whatever code is there by now; an error is only logged.
DeleteActivationCode(r) ==
    /\ pc[r] = "delete"
    /\ \/ code' = StoredCode(email[r], None)
       \/ "redis" \in Faults /\ UNCHANGED code
    /\ Finish(r)
    /\ UNCHANGED <<users, live, mailbox, passes, promised>>

-----------------------------------------------------------------------------
(* Profiles, and what happens outside *)

\* One UPDATE by the user of a row; a taken name is an error.
UpdateProfile ==
    /\ \E u \in users, n \in Names :
        LET v == [u EXCEPT !.name = n] IN
        /\ Admitted(v)
        /\ users' = (users \ {u}) \cup {v}
    /\ UNCHANGED <<code, live, locals, mailbox, passes, promised>>

\* An operator clears the column in SQL: no code of the server does.
Disable ==
    /\ \E u \in users :
        /\ u.enabled
        /\ users' = (users \ {u}) \cup {[u EXCEPT !.enabled = FALSE]}
        /\ promised' = promised \ {u.email}
    /\ UNCHANGED <<code, live, locals, mailbox, passes>>

CodeExpires(e) ==
    /\ code[e] # None
    /\ code' = [code EXCEPT ![e] = None]
    /\ promised' = promised \ {e}
    /\ UNCHANGED <<users, live, locals, mailbox, passes>>

Crash(r) ==
    /\ "crash" \in Faults
    /\ pc[r] # "idle"
    /\ promised' = IF pc[r] = "mail" THEN promised \ {email[r]} ELSE promised
    /\ Finish(r)
    /\ UNCHANGED <<users, code, live, mailbox, passes>>

-----------------------------------------------------------------------------

Step(r) ==
    \/ SignUp(r) \/ FindByEmail(r) \/ FindByUsername(r) \/ Create(r) \/ Commit(r)
    \/ ResendVerifyCode(r) \/ FindDisabled(r) \/ SendActivationCode(r)
    \/ VerifyEmail(r) \/ EnableUser(r) \/ DeleteActivationCode(r) \/ Crash(r)

AccountsNext ==
    \/ \E r \in Reqs : Step(r)
    \/ \E t \in Tokens : IssueToken(t) \/ TokenExpires(t) \/ SpendFails(t)
    \/ \E e \in Emails : CodeExpires(e)
    \/ UpdateProfile \/ Disable

AccountsSpec == AccountsInit /\ [][AccountsNext]_accountsVars

-----------------------------------------------------------------------------
(* Properties *)

AccountsTypeOK ==
    /\ users \subseteq Row
    /\ code \in [Emails -> Codes \cup {None}]
    /\ live \subseteq Tokens
    /\ pc \in [Reqs -> PC]
    /\ email \in [Reqs -> Emails \cup {None}]
    /\ name \in [Reqs -> Names \cup {None}]
    /\ row \in [Reqs -> Row \cup {None}]
    /\ sending \in [Reqs -> Codes \cup {None}]
    /\ mailbox \in [Emails -> SUBSET Codes]
    /\ passes \in [Tokens -> 0 .. 2]
    /\ promised \subseteq Emails

\* However sign-ups and renamings overlap, and whichever of them roll back, no
\* two accounts share an email or a name (auth.go 77-105, user.go 87-95).
OneAccountEach == \A u, v \in users : ~Conflict(u, v)

\* A captcha token lets one request through, even if it is sent twice at once
\* (dal/captcha.go 123-133).
TokenSpentOnce == \A t \in Tokens : passes[t] <= 1

\* Whoever was told that a code is in the mailbox can use the newest one: sends,
\* verifications and failures of the same account that overlap leave a code in
\* Redis that was or is being mailed, or an enabled account.  What voids the
\* promise is known: the TTL, a send that fails after storing, an operator, or a
\* verification under way when the mail was sent (auth.go 224-268).
PromisesKept ==
    \A e \in promised :
        \/ code[e] \in mailbox[e]
        \/ \E r \in Reqs : email[r] = e /\ pc[r] = "mail" /\ sending[r] = code[e]
        \/ \A u \in users : u.email = e => u.enabled

=============================================================================
