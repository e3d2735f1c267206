--------------------------- MODULE AccountsActivated ---------------------------
(* Accounts with the history of the emails that have been verified.           *)
EXTENDS Accounts

VARIABLE proven     \* emails of which a code has come back, for an existing row

Verified ==
    {e \in Emails : /\ \E u \in users : u.email = e
                    /\ \E r \in Reqs : pc[r] = "enable" /\ email[r] = e}

Init == AccountsInit /\ proven = {}

Next == AccountsNext /\ proven' = proven \cup Verified'

Spec == Init /\ [][Next]_<<accountsVars, proven>>

\* What handler/v1/auth.go 214 says: verifying the email is what activates an
\* account.
ActivatedByEmail == \A u \in users : u.enabled => u.email \in proven

=============================================================================
