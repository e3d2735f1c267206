------------------------------ MODULE Startup ------------------------------
(***************************************************************************)
(* How the server, the command line and the code generator come up and go: *)
(* the layers of configuration (internal/config, internal/provider), the   *)
(* order in which wire opens the infrastructure (cmd/*/wire_gen.go) and    *)
(* the order in which internal/app closes it.                              *)
(*                                                                         *)
(* Processes start and stop while an operator rewrites the remote          *)
(* configuration in etcd.  What a server does between its start and its    *)
(* close is in ServerNode.                                                 *)
(***************************************************************************)
EXTENDS Integers, Sequences

CONSTANTS Procs,          \* processes
          MaxWrites,      \* bound: writes of the remote key
          LocalSecret     \* whether configs/*.yaml name a jwt secret (they do not)

ASSUME StartupAssumption == MaxWrites \in Nat /\ LocalSecret \in BOOLEAN

VARIABLES
    remoteOn,   \* etcd.remote_config.enabled of configs/default.yaml
    remote,     \* the remote key: who wrote it last, and the settings it gives
    proc,       \* processes
    (* history, for the properties *)
    unclosed    \* resources whose closing answered an error, by process

startupVars == <<remoteOn, remote, proc, unclosed>>

\* Settings, one of each kind that the program tells apart: those of the sections
\* log and etcd, those that an environment's file gives, and the others.
Settings == {"log.stdout", "redis.maint_notifications", "jwt.secret"}

Off == [at |-> "off"]

StartupInit ==
    /\ remoteOn \in BOOLEAN
    /\ remote = [write |-> 0, gives |-> {}]
    /\ proc = [p \in Procs |-> Off]
    /\ unclosed = [p \in Procs |-> {}]

-----------------------------------------------------------------------------
(* The environment *)

\* APP_ENV, which main sets where it is empty.
Environments == {"", "dev", "prod", "test", "other"}

Defaulted(env) == IF env = "" THEN "dev" ELSE env

DetermineEnvironment(env) == IF env \in {"prod", "test"} THEN env ELSE "dev"

\* NewViper merges default.yaml and the environment's file, and panics without one.
HasFile(env) == env \in {"dev", "prod"}

-----------------------------------------------------------------------------
(* What wire_gen.go opens and builds, in its order *)

ServerPlan == <<"etcd", "config", "redis", "database", "jwt", "slide", "click",
                "rotate", "engine">>

CliPlan == <<"etcd", "config", "database", "redis", "discovery">>

GenPlan == <<"etcd", "config", "database">>

Plan(entry) ==
    CASE entry = "server" -> ServerPlan
      [] entry = "cli" -> CliPlan
      [] entry = "gen" -> GenPlan

\* What is opened; the hook of a command runs the discovery (Cli.Init).
Resources == {"etcd", "redis", "database", "discovery"}

\* What Close of App, Cli and Gen closes, in its order.
ServerOrder == <<"database", "redis", "etcd">>

CliOrder == <<"discovery", "database", "redis", "etcd">>

GenOrder == <<"database", "etcd">>

CloseOrder(entry) ==
    CASE entry = "server" -> ServerOrder
      [] entry = "cli" -> CliOrder
      [] entry = "gen" -> GenOrder

-----------------------------------------------------------------------------
(* The layers of configuration: where the value of a setting comes from *)

\* The base file gives every setting, that of an environment replaces some.
ProdSettings == {"log.stdout"}

DevSettings == {"redis.maint_notifications"}

Overrides(env) == IF env = "prod" THEN ProdSettings ELSE DevSettings

File(name) == [from |-> name, write |-> 0]

Remote(n) == [from |-> "remote", write |-> n]

\* NewBootstrapConfig, and NewConfig where no remote key is read.
Local(env) == [s \in Settings |-> File(IF s \in Overrides(env) THEN env ELSE "default")]

\* (Mutation: the environment's file is merged last.)
MergeUnderFile(env) ==
    [s \in Settings |->
        IF remoteOn /\ s \in remote.gives \ Overrides(env) THEN Remote(remote.write) ELSE Local(env)[s]]

\* mergeRemoteConfig, setting by setting; no key is not an error.
MergeRemote(env) ==
    [s \in Settings |->
        IF remoteOn /\ s \in remote.gives THEN Remote(remote.write) ELSE Local(env)[s]]

\* ProvideLogConfig and ProvideEtcdConfig hand out the bootstrap's snapshot, taken
\* before the merge; the other providers hand out parts of Config.
FromBootstrap == {"log.stdout"}

\* The layer that the readers of a setting hold.
LayerOf(p, s) == IF s \in FromBootstrap THEN proc[p].boot[s] ELSE proc[p].cfg[s]

Secret(p) == LocalSecret \/ LayerOf(p, "jwt.secret").from = "remote"

-----------------------------------------------------------------------------
(* Actions *)

\* An operator writes the remote key, or deletes it; a jwt.secret that is given is
\* not empty.
WriteRemote ==
    /\ remote.write < MaxWrites
    /\ \E gives \in SUBSET Settings : remote' = [write |-> remote.write + 1, gives |-> gives]
    /\ UNCHANGED <<remoteOn, proc, unclosed>>

\* main, NewViper, NewBootstrapConfig and NewLogger.
Begin(p) ==
    /\ proc[p] = Off
    /\ \E appEnv \in Environments, entry \in {"server", "cli", "gen"} :
        LET env == DetermineEnvironment(Defaulted(appEnv)) IN
        /\ HasFile(env)
        /\ proc' = [proc EXCEPT ![p] =
                      [at |-> "opening", entry |-> entry, env |-> env, todo |-> Plan(entry), open |-> {},
                       boot |-> Local(env), cfg |-> Local(env), since |-> remote.write]]
    /\ UNCHANGED <<remoteOn, remote, unclosed>>

Due(p, step) == proc[p].at = "opening" /\ proc[p].todo # <<>> /\ Head(proc[p].todo) = step

\* A panic, or an error that main answers with Fatalf: the process is gone.
Fail(p) == proc' = [proc EXCEPT ![p] = Off]

\* Connected, or failed.
Open(p, r) ==
    /\ Due(p, r)
    /\ \/ proc' = [proc EXCEPT ![p].todo = Tail(@), ![p].open = @ \cup {r}]
       \/ Fail(p)
    /\ UNCHANGED <<remoteOn, remote, unclosed>>

NewEtcdClient(p) == Open(p, "etcd")

NewRedisClient(p) == Open(p, "redis")

NewConnection(p) == Open(p, "database")

\* Init of a command: the error of its hook is Fatal.
InitHooks(p) == Open(p, "discovery")

\* (Mutation: where the key cannot be read the local layers do.)
NewConfigTolerant(p) ==
    /\ Due(p, "config")
    /\ \E cfg \in {Local(proc[p].env), MergeRemote(proc[p].env)} :
        proc' = [proc EXCEPT ![p].todo = Tail(@), ![p].cfg = cfg]
    /\ UNCHANGED <<remoteOn, remote, unclosed>>

\* NewConfig; only a remote configuration that is switched on can fail it.
NewConfig(p) ==
    /\ Due(p, "config")
    /\ \/ proc' = [proc EXCEPT ![p].todo = Tail(@), ![p].cfg = MergeRemote(proc[p].env)]
       \/ remoteOn /\ Fail(p)
    /\ UNCHANGED <<remoteOn, remote, unclosed>>

\* ProvideJWTManager panics without a secret.
NewJWTManager(p) ==
    /\ Due(p, "jwt")
    /\ IF Secret(p) THEN proc' = [proc EXCEPT ![p].todo = Tail(@)] ELSE Fail(p)
    /\ UNCHANGED <<remoteOn, remote, unclosed>>

\* The constructors of the captchas: the slide's draws what it needs, the others
\* want fonts and images, which may not be had.
NewSlideCaptcha == {"captcha"}

NewClickCaptcha == {"captcha", "error"}

NewRotateCaptcha == {"captcha", "error"}

\* An error is a panic.
Provide(p, captcha, outcomes) ==
    /\ Due(p, captcha)
    /\ \/ "captcha" \in outcomes /\ proc' = [proc EXCEPT ![p].todo = Tail(@)]
       \/ "error" \in outcomes /\ Fail(p)
    /\ UNCHANGED <<remoteOn, remote, unclosed>>

ProvideSlideCaptcha(p) == Provide(p, "slide", NewSlideCaptcha)

ProvideClickCaptcha(p) == Provide(p, "click", NewClickCaptcha)

ProvideRotateCaptcha(p) == Provide(p, "rotate", NewRotateCaptcha)

\* A broken file of messages is a panic; a directory that is missing goes unnoticed,
\* and the server runs without messages.
LoadMessages == {"messages", "none", "panic"}

\* So is a rate limit that cannot be parsed, or a Redis that refuses the script.
NewLimiter == {"limiter", "panic"}

NewEngine(p) ==
    /\ Due(p, "engine")
    /\ \E messages \in LoadMessages, limiter \in NewLimiter :
        IF "panic" \in {messages, limiter}
        THEN Fail(p)
        ELSE proc' = [proc EXCEPT ![p].todo = Tail(@)]
    /\ UNCHANGED <<remoteOn, remote, unclosed>>

\* Run, or the command, has returned: Close begins.
BeginClose(p) ==
    /\ proc[p].at = "opening" /\ proc[p].todo = <<>>
    /\ proc' = [proc EXCEPT ![p] = [at |-> "closing", todo |-> CloseOrder(proc[p].entry),
                                    open |-> proc[p].open]]
    /\ UNCHANGED <<remoteOn, remote, unclosed>>

\* (Mutation: the first error ends the closing.)
CloseUntilError(p) ==
    /\ proc[p].at = "closing" /\ proc[p].todo # <<>>
    /\ LET r == Head(proc[p].todo) IN
        \/ proc' = [proc EXCEPT ![p].todo = Tail(@), ![p].open = @ \ {r}] /\ UNCHANGED unclosed
        \/ proc' = [proc EXCEPT ![p].todo = <<>>]
           /\ unclosed' = [unclosed EXCEPT ![p] = @ \cup {r}]
    /\ UNCHANGED <<remoteOn, remote>>

\* One resource is closed; an error is logged and the next one follows.  The
\* discovery's OnClose has none.
CloseNext(p) ==
    /\ proc[p].at = "closing" /\ proc[p].todo # <<>>
    /\ LET r == Head(proc[p].todo) IN
        \/ proc' = [proc EXCEPT ![p].todo = Tail(@), ![p].open = @ \ {r}] /\ UNCHANGED unclosed
        \/ r # "discovery" /\ proc' = [proc EXCEPT ![p].todo = Tail(@)]
           /\ unclosed' = [unclosed EXCEPT ![p] = @ \cup {r}]
    /\ UNCHANGED <<remoteOn, remote>>

\* The process ends.
End(p) ==
    /\ proc[p].at = "closing" /\ proc[p].todo = <<>>
    /\ Fail(p)
    /\ unclosed' = [unclosed EXCEPT ![p] = {}]
    /\ UNCHANGED <<remoteOn, remote>>

StartupNext ==
    \/ WriteRemote
    \/ \E p \in Procs :
        \/ Begin(p) \/ NewEtcdClient(p) \/ NewConfig(p) \/ NewRedisClient(p) \/ NewConnection(p)
        \/ NewJWTManager(p) \/ NewEngine(p) \/ InitHooks(p)
        \/ ProvideSlideCaptcha(p) \/ ProvideClickCaptcha(p) \/ ProvideRotateCaptcha(p)
        \/ BeginClose(p) \/ CloseNext(p) \/ End(p)

StartupSpec == StartupInit /\ [][StartupNext]_startupVars

-----------------------------------------------------------------------------
(* Properties *)

Ready(p) == proc[p].at = "opening" /\ proc[p].todo = <<>>

Entries == {"server", "cli", "gen"}

Steps == Resources \cup {"config", "jwt", "slide", "click", "rotate", "engine"}

Layers == [from : {"default", "dev", "prod", "remote"}, write : Nat]

Opening ==
    [at : {"opening"}, entry : Entries, env : {"dev", "prod"}, todo : Seq(Steps),
     open : SUBSET Resources, boot : [Settings -> Layers], cfg : [Settings -> Layers],
     since : 0 .. MaxWrites]

Closing == [at : {"closing"}, todo : Seq(Resources), open : SUBSET Resources]

StartupTypeOK ==
    /\ remoteOn \in BOOLEAN
    /\ remote \in [write : 0 .. MaxWrites, gives : SUBSET Settings]
    /\ proc \in [Procs -> {Off} \cup Opening \cup Closing]
    /\ unclosed \in [Procs -> SUBSET Resources]

\* Two processes that were both started after the last change of the remote key
\* differ in a setting only where they run in different environments, a file of
\* one of these gives it, and the remote key does not give it or is merged too
\* late for its readers: processes of one environment run on one configuration,
\* and what is in the remote key goes before what an environment says.  When one
\* of them is a server, all have the secret that it signs with: a process that
\* cannot read the key does not come up, nor a server that finds no secret
\* (viper.go 9-23, config.go 169-203, provider/config.go 26-68, provider/auth.go
\* 37-42).
OneConfiguration ==
    \A p, q \in Procs :
        (/\ Ready(p) /\ Ready(q)
         /\ proc[p].since = remote.write /\ proc[q].since = remote.write) =>
        /\ \A s \in Settings : LayerOf(p, s) # LayerOf(q, s) =>
            /\ proc[p].env # proc[q].env
            /\ s \in Overrides(proc[p].env) \cup Overrides(proc[q].env)
            /\ ~(remoteOn /\ s \in remote.gives \ FromBootstrap)
        /\ proc[p].entry = "server" => Secret(q)

\* A ready process holds open exactly what its Close closes, and when that is
\* done nothing is left open but what would not be closed: a failure to close the
\* database keeps neither Redis nor etcd open (app/app.go 25-41, cli.go 38-61,
\* gen.go 17-30).
ClosedBehind ==
    \A p \in Procs :
        /\ Ready(p) => proc[p].open = {CloseOrder(proc[p].entry)[i] : i \in DOMAIN CloseOrder(proc[p].entry)}
        /\ proc[p].at = "closing" /\ proc[p].todo = <<>> => proc[p].open = unclosed[p]

\* A process comes up with the configuration of its environment and the remote
\* key, and leaves nothing behind.
StartupSafe == OneConfiguration /\ ClosedBehind

\* What README.md 146 and 164 say: the remote layer is merged into the whole
\* configuration, so that what it gives is what a process started since reads.
\* The code leaves out the settings of two sections (provider/config.go 26-32).
RemoteCovers ==
    \A p \in Procs :
        Ready(p) /\ remoteOn /\ proc[p].since = remote.write =>
            \A s \in remote.gives : LayerOf(p, s) = Remote(remote.write)

=============================================================================
