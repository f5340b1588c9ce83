----------------------------- MODULE ConfigLoad -----------------------------
(***************************************************************************)
(* How a configuration comes into force: LoadDotEnv, LoadConfig with the   *)
(* resolution of secrets, defaults and validation (config.go, utils), the  *)
(* start of server and loop with what was accepted, and later reloads,     *)
(* between which file, secret files and nothing else change.  That reloads *)
(* overlap is the subject of Reload.                                       *)
(*                                                                         *)
(* A text is the set of its tokens, {} being "".  A field of the file is a *)
(* set of parts: a literal text, or a reference ${var} or                  *)
(* ${var:-fallback}.                                                       *)
(***************************************************************************)
EXTENDS Integers, Sequences

CONSTANTS
    Vars, Tokens,  \* environment variables; what texts are made of
    Paths,         \* of secret files
    NoPath,        \* no tokenSecretFile
    Unset,         \* no value: a variable, a fallback, a file, a result
    Files,         \* configuration files the operator may write
    Environments,  \* [env, dotenv: what LoadDotEnv's candidates hold, each Unset,
                   \* where there is none, or [Vars -> text]]
    Secrets,       \* what a secret file may hold, trimmed, or Unset
    MaxChanges     \* bound: edits and rotations

Texts == SUBSET Tokens
Optional == {Unset} \cup Texts
Parts == {part \in [var : {Unset} \cup Vars, text : Texts, fallback : Optional] :
            part.var = Unset => part.text # {}}
Clusters ==
    [name : STRING, host : SUBSET Parts, tokenID : SUBSET Parts,
     secret : SUBSET Parts, secretFile : {NoPath} \cup Paths]

ASSUME ConfigLoadAssumption ==
    /\ NoPath \notin Paths /\ Unset \notin Vars /\ \A t \in Texts : t # Unset
    /\ Files \subseteq [uri : STRING, interval : STRING, timeout : STRING,
                       push : STRING, otlp : BOOLEAN, clusters : Seq(Clusters)]
    /\ \A e \in Environments :
          /\ e.env \in [Vars -> Optional]
          /\ e.dotenv \in Seq({Unset} \cup [Vars -> Optional]) \ {<<>>}
    /\ Secrets \subseteq Optional
    /\ MaxChanges \in Nat

VARIABLES
    setup,     \* [env, dotenv, once]: the process' surroundings and --once
    env,       \* the process environment
    candidate, \* index of the .env that LoadDotEnv looks at
    file,      \* the configuration file
    secrets,   \* contents of the secret files
    changes,
    pc,        \* dotenv, load, serve, run, ended, crashed
    config,    \* the configuration in force
    source,    \* history: the file it was read from
    clients    \* the clusters the collector's clients were built for

vars == <<setup, env, candidate, file, secrets, changes, pc, config, source, clients>>

-----------------------------------------------------------------------------
(* One candidate of LoadDotEnv: a .env fills gaps, and a variable exported empty *)
(* is no gap.  One that does not parse is like an empty one.  The search goes on *)
(* only where there is none.                                                     *)
Gap(v) == env[v] = Unset
DotEnv == setup.dotenv[candidate]
WithDotEnv ==
    IF DotEnv = Unset THEN env
    ELSE [v \in Vars |-> IF Gap(v) THEN DotEnv[v] ELSE env[v]]
GoesOnAlways == TRUE
GoesOn == DotEnv = Unset

(* ExpandEnv: a reference to a variable that is unset or empty falls back, and   *)
(* without a fallback an unset one is an error                                   *)
Expand(part) ==
    IF part.var = Unset THEN part.text
    ELSE IF env[part.var] \in {Unset, {}} /\ part.fallback # Unset THEN part.fallback
    ELSE env[part.var]
ExpandEnv(field) ==
    IF \E part \in field : Expand(part) = Unset THEN Unset
    ELSE UNION {Expand(part) : part \in field}

(* ExpandEnvSecret: nor may a reference come to nothing *)
HasReference(field) == \E part \in field : part.var # Unset
ExpandEnvSecretLenient(field) == ExpandEnv(field)
ExpandEnvSecret(field) ==
    IF HasReference(field) /\ ExpandEnv(field) = {} THEN Unset ELSE ExpandEnv(field)

(* ResolveSecrets of one cluster *)
FromFile(cl) == cl.secretFile # NoPath /\ cl.secret = {}
Resolved(cl) ==
    [cl EXCEPT
       !.host = ExpandEnvSecret(@), !.tokenID = ExpandEnvSecret(@),
       !.secret = IF FromFile(cl) THEN secrets[cl.secretFile] ELSE ExpandEnvSecret(@)]
Resolves(cl) == Unset \notin {Resolved(cl).host, Resolved(cl).tokenID, Resolved(cl).secret}

(* SetDefaults, of the fields that can be refused or make the process fail *)
Default(text, default) == IF text = "" THEN default ELSE text
Defaults(cfg) ==
    [cfg EXCEPT !.uri = Default(@, "/metrics"), !.interval = Default(@, "30s"),
                !.timeout = Default(@, "25s"), !.push = Default(@, "10s")]

(* time.ParseDuration, in seconds, of the texts that parse; the paths that begin *)
(* with a slash, and those of them that are no pattern to ServeMux               *)
Seconds == [d \in {"30s", "25s", "10s", "0s", "-5s"} |->
              CASE d = "30s" -> 30 [] d = "25s" -> 25 [] d = "10s" -> 10
                [] d = "0s" -> 0 [] d = "-5s" -> -5]
ReservedPaths == {"/", "/health", "/livez", "/readyz"}
Malformed == {"/{"}
Slashed == {"/metrics", "/pve"} \cup ReservedPaths \cup Malformed

(* Validate *)
ValidClusters(cls) ==
    /\ cls # <<>>
    /\ \A i \in DOMAIN cls :
          /\ cls[i].name # "" /\ \A j \in 1 .. i - 1 : cls[i].name # cls[j].name
          /\ cls[i].host # {} /\ cls[i].tokenID # {}
          /\ cls[i].secret # {} \/ cls[i].secretFile # NoPath
Valid(cfg) ==
    /\ cfg.uri \in Slashed \ ReservedPaths
    /\ cfg.interval \in DOMAIN Seconds /\ cfg.timeout \in DOMAIN Seconds
    /\ cfg.otlp => cfg.push \in DOMAIN Seconds
    /\ ValidClusters(cfg.clusters)

(* LoadConfig *)
ResolvedFile == [file EXCEPT !.clusters = [i \in DOMAIN @ |-> Resolved(@[i])]]
Accepted ==
    /\ \A i \in DOMAIN file.clusters : Resolves(file.clusters[i])
    /\ Valid(Defaults(ResolvedFile))
LoadConfig == Defaults(ResolvedFile)

(* Whether clients are rebuilt: clusters are compared with their secrets         *)
ChangedName(old, new) ==
    [i \in DOMAIN old |-> old[i].name] # [i \in DOMAIN new |-> new[i].name]
ClustersChanged(old, new) == old # new

-----------------------------------------------------------------------------
Init ==
    /\ \E e \in Environments, o \in BOOLEAN :
          setup = [env |-> e.env, dotenv |-> e.dotenv, once |-> o]
    /\ env = setup.env /\ candidate = 1
    /\ file \in Files /\ secrets \in [Paths -> Secrets] /\ changes = 0
    /\ pc = "dotenv" /\ config = Unset /\ source = Unset /\ clients = <<>>

LoadDotEnv ==
    /\ pc = "dotenv"
    /\ env' = WithDotEnv
    /\ IF GoesOn /\ candidate < Len(setup.dotenv)
       THEN candidate' = candidate + 1 /\ UNCHANGED pc
       ELSE pc' = "load" /\ UNCHANGED candidate
    /\ UNCHANGED <<setup, file, secrets, changes, config, source, clients>>

Load ==
    /\ pc = "load"
    /\ IF Accepted
       THEN /\ config' = LoadConfig /\ clients' = config'.clusters
            /\ source' = file
            /\ pc' = IF setup.once THEN "ended" ELSE "serve"
       ELSE pc' = "ended" /\ UNCHANGED <<config, source, clients>>
    /\ UNCHANGED <<setup, env, candidate, file, secrets, changes>>

(* registerEndpoints: ServeMux.Handle panics on what is no pattern; NewTicker of *)
(* Collector.Run, on an interval that is not positive                            *)
Panics == config.uri \in Malformed \/ Seconds[config.interval] <= 0
Serve ==
    /\ pc = "serve"
    /\ pc' = IF Panics THEN "crashed" ELSE "run"
    /\ UNCHANGED <<setup, env, candidate, file, secrets, changes, config, source, clients>>

(* SIGHUP, or an event of the file watch *)
Reload ==
    /\ pc = "run" /\ Accepted
    /\ config' = LoadConfig /\ source' = file
    /\ clients' = IF ClustersChanged(config.clusters, config'.clusters)
                  THEN config'.clusters ELSE clients
    /\ UNCHANGED <<setup, env, candidate, file, secrets, changes, pc>>

(* The operator edits the configuration, or replaces a mounted secret *)
Edit ==
    /\ pc = "run" /\ changes < MaxChanges
    /\ file' \in Files /\ changes' = changes + 1
    /\ UNCHANGED <<setup, env, candidate, secrets, pc, config, source, clients>>

Rotate(p) ==
    /\ pc = "run" /\ changes < MaxChanges
    /\ \E s \in Secrets : secrets' = [secrets EXCEPT ![p] = s]
    /\ changes' = changes + 1
    /\ UNCHANGED <<setup, env, candidate, file, pc, config, source, clients>>

Rest == pc \in {"run", "ended", "crashed"} /\ UNCHANGED vars

Next ==
    \/ LoadDotEnv \/ Load \/ Serve \/ Reload \/ Edit
    \/ \E p \in Paths : Rotate(p)
    \/ Rest

Spec == Init /\ [][Next]_vars

-----------------------------------------------------------------------------
(* No configuration in force has a cluster without host, token or secret: a      *)
(* field that is a reference never comes to nothing, also not where a secret     *)
(* file is named beside it.  The one hole is a secret file that is blank         *)
(* (env.go:83-105, config.go:185-193).                                           *)
CredentialsComplete ==
    config # Unset =>
      \A i \in DOMAIN config.clusters :
         LET cl == config.clusters[i]
         IN  /\ cl.host # {} /\ cl.tokenID # {}
             /\ cl.secret # {} \/ FromFile(source.clusters[i])

(* The clients in use have the secrets of the configuration in force, also where *)
(* only a secret file changed between two loads (safe_config.go:65).             *)
ClientsHaveSecrets == config # Unset => clients = config.clusters

(* Every credential in force is what its references mean to an operator who      *)
(* knows the environment run was started in and the .env files: a variable is    *)
(* what was exported, else what one .env, the first there is, says of it, else,  *)
(* like an empty one, its fallback.  So it stays over any number of reloads, and *)
(* a host from one .env is never polled with a token from another                *)
(* (dotenv.go:11-14, env.go:20-23).                                              *)
Given(k, v) ==
    IF setup.env[v] # Unset \/ setup.dotenv[k] = Unset THEN setup.env[v]
    ELSE setup.dotenv[k][v]
Meant(k, part) ==
    IF part.var = Unset THEN part.text
    ELSE IF part.fallback # Unset /\ Given(k, part.var) \in {Unset, {}} THEN part.fallback
    ELSE Given(k, part.var)
Means(k, field, text) ==
    /\ \A part \in field : Meant(k, part) # Unset
    /\ text = UNION {Meant(k, part) : part \in field}
MeantBy(k, raw, cl) ==
    /\ Means(k, raw.host, cl.host) /\ Means(k, raw.tokenID, cl.tokenID)
    /\ FromFile(raw) \/ Means(k, raw.secret, cl.secret)
OneOrigin ==
    config # Unset =>
      \E k \in DOMAIN setup.dotenv :
         /\ \A j \in 1 .. k - 1 : setup.dotenv[j] = Unset
         /\ setup.dotenv[k] # Unset \/ k = Len(setup.dotenv)
         /\ \A i \in DOMAIN config.clusters :
               MeantBy(k, source.clusters[i], config.clusters[i])

(* run goes on until it is told to stop or its server fails (main.go:91-92).     *)
NeverCrashes == pc # "crashed"
=============================================================================
