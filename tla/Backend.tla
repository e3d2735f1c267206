------------------------------ MODULE Backend ------------------------------
(***************************************************************************)
(* The parts of the backend that share no state, side by side: each module *)
(* keeps its own keys, rows or memory, and no property is about two of     *)
(* them.  A behaviour is one of one part, the others rest in their initial *)
(* state, so that checking this module checks each part by itself.         *)
(***************************************************************************)
EXTENDS Accounts, Captcha, Profiles, Permissions, JobRecords, Balancers, Startup, Requests,
        CallLogs

VARIABLE part

backendVars == <<accountsVars, captchaVars, profilesVars, permissionsVars, recordsVars,
                 balancersVars, startupVars, requestsVars, callLogsVars, part>>

Parts == {"accounts", "captcha", "profiles", "permissions", "records", "balancers",
          "startup", "requests", "calls"}

\* What another part starts from does not matter: it does nothing.
Init ==
    /\ part \in Parts
    /\ AccountsInit /\ CaptchaInit /\ RecordsInit /\ RequestsInit
    /\ ProfilesInit /\ (part # "profiles" => tours = {})
    /\ PermissionsInit
    /\ (part # "permissions" => roleOf = {} /\ effects = [r \in Roles |-> [c \in Perms |-> {}]])
    /\ BalancersInit /\ (part # "balancers" => insts = <<>>)
    /\ StartupInit /\ (part # "startup" => remoteOn)
    /\ CallLogsInit
    /\ (part # "calls" => logging = [redis |-> 0, gorm |-> AtWarn, file |-> "info"])

Next ==
    \/ /\ part = "accounts"
       /\ UNCHANGED <<part, captchaVars, profilesVars, permissionsVars,
                      recordsVars, balancersVars, startupVars, requestsVars, callLogsVars>>
       /\ AccountsNext
    \/ /\ part = "captcha"
       /\ UNCHANGED <<part, accountsVars, profilesVars, permissionsVars,
                      recordsVars, balancersVars, startupVars, requestsVars, callLogsVars>>
       /\ CaptchaNext
    \/ /\ part = "profiles"
       /\ UNCHANGED <<part, accountsVars, captchaVars, permissionsVars,
                      recordsVars, balancersVars, startupVars, requestsVars, callLogsVars>>
       /\ ProfilesNext
    \/ /\ part = "permissions"
       /\ UNCHANGED <<part, accountsVars, captchaVars, profilesVars,
                      recordsVars, balancersVars, startupVars, requestsVars, callLogsVars>>
       /\ PermissionsNext
    \/ /\ part = "records"
       /\ UNCHANGED <<part, accountsVars, captchaVars, profilesVars,
                      permissionsVars, balancersVars, startupVars, requestsVars, callLogsVars>>
       /\ RecordsNext
    \/ /\ part = "balancers"
       /\ UNCHANGED <<part, accountsVars, captchaVars, profilesVars,
                      permissionsVars, recordsVars, startupVars, requestsVars, callLogsVars>>
       /\ BalancersNext
    \/ /\ part = "startup"
       /\ UNCHANGED <<part, accountsVars, captchaVars, profilesVars,
                      permissionsVars, recordsVars, balancersVars, requestsVars, callLogsVars>>
       /\ StartupNext
    \/ /\ part = "requests"
       /\ UNCHANGED <<part, accountsVars, captchaVars, profilesVars,
                      permissionsVars, recordsVars, balancersVars, startupVars, callLogsVars>>
       /\ RequestsNext
    \/ /\ part = "calls"
       /\ UNCHANGED <<part, accountsVars, captchaVars, profilesVars,
                      permissionsVars, recordsVars, balancersVars, startupVars, requestsVars>>
       /\ CallLogsNext

Spec == Init /\ [][Next]_backendVars

\* Every part keeps to its types.
BackendTypeOK ==
    /\ AccountsTypeOK /\ CaptchaTypeOK /\ ProfilesTypeOK /\ PermissionsTypeOK
    /\ RecordsTypeOK /\ BalancersTypeOK /\ StartupTypeOK /\ RequestsTypeOK
    /\ CallLogsTypeOK

=============================================================================
