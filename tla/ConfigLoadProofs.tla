-------------------------- MODULE ConfigLoadProofs --------------------------
(***************************************************************************)
(* Theorems about ConfigLoad, for any files, environments and secrets.     *)
(***************************************************************************)
EXTENDS ConfigLoad, TLAPS

(* What an accepted configuration has, as a fact about one cluster *)
Complete(cl, raw) ==
    cl.host # {} /\ cl.tokenID # {} /\ (cl.secret # {} \/ FromFile(raw))

(* The .env files before the candidate are missing; once LoadDotEnv is through   *)
(* the candidate is the one that counts, and the environment is what it gives.   *)
Search ==
    /\ candidate \in DOMAIN setup.dotenv
    /\ \A j \in 1 .. candidate - 1 : setup.dotenv[j] = Unset
    /\ pc = "dotenv" => env = setup.env
Found ==
    /\ setup.dotenv[candidate] # Unset \/ candidate = Len(setup.dotenv)
    /\ \A v \in Vars : env[v] = Given(candidate, v)
Surroundings ==
    /\ file \in Files
    /\ setup.dotenv \in Seq({Unset} \cup [Vars -> Optional]) \ {<<>>}
    /\ Search
    /\ pc # "dotenv" => Found
InForce ==
    /\ config # Unset =>
         \A i \in DOMAIN config.clusters :
            /\ Complete(config.clusters[i], source.clusters[i])
            /\ MeantBy(candidate, source.clusters[i], config.clusters[i])
    /\ pc \in {"serve", "run"} \/ config # Unset => clients = config.clusters
    /\ pc \in {"dotenv", "load"} => config = Unset
IInv == Surroundings /\ InForce

(* A field that resolves to nothing was written as nothing: a reference does not *)
(* come to "" without being refused, and a literal is not empty.                 *)
LEMMA NothingFromNothing ==
    ASSUME NEW field \in SUBSET Parts, ExpandEnvSecret(field) = {}
    PROVE  field = {}
<1>1. ~HasReference(field) /\ ExpandEnv(field) = {}
  BY ConfigLoadAssumption DEF ExpandEnvSecret, Texts
<1>2. ASSUME NEW part \in field PROVE FALSE
  <2>1. part \in Parts /\ part.var = Unset
    BY <1>1 DEF HasReference
  <2>2. part.text # {} /\ Expand(part) = part.text
    BY <2>1 DEF Parts, Expand
  <2>3. UNION {Expand(q) : q \in field} = {}
    BY <1>1, ConfigLoadAssumption DEF ExpandEnv, Texts
  <2>4. Expand(part) \subseteq UNION {Expand(q) : q \in field}
    OBVIOUS
  <2> QED
    BY <2>2, <2>3, <2>4
<1> QED
  BY <1>2

(* LoadConfig never lets an incomplete cluster through. *)
LEMMA AcceptedIsComplete ==
    ASSUME file \in Files, Accepted
    PROVE  \A i \in DOMAIN LoadConfig.clusters :
              Complete(LoadConfig.clusters[i], file.clusters[i])
<1>1. /\ file.clusters \in Seq(Clusters)
      /\ DOMAIN file = {"uri", "interval", "timeout", "push", "otlp", "clusters"}
  BY ConfigLoadAssumption
<1>2. /\ LoadConfig.clusters = ResolvedFile.clusters
      /\ ResolvedFile.clusters = [i \in DOMAIN file.clusters |-> Resolved(file.clusters[i])]
  BY <1>1 DEF LoadConfig, Defaults, ResolvedFile
<1> SUFFICES ASSUME NEW i \in DOMAIN file.clusters
             PROVE  Complete(Resolved(file.clusters[i]), file.clusters[i])
  BY <1>2
<1> DEFINE raw == file.clusters[i]  cl == Resolved(raw)
<1>3. raw \in Clusters
  BY <1>1
<1>4. /\ cl.host # {} /\ cl.tokenID # {}
      /\ cl.secret # {} \/ cl.secretFile # NoPath
  <2>1. ValidClusters(LoadConfig.clusters)
    BY DEF Accepted, Valid, LoadConfig
  <2>2. i \in DOMAIN LoadConfig.clusters /\ LoadConfig.clusters[i] = cl
    BY <1>2
  <2> QED
    BY <2>1, <2>2 DEF ValidClusters
<1>5. ASSUME cl.secret = {} PROVE FromFile(raw)
  <2>1. /\ cl.secretFile = raw.secretFile
        /\ cl.secret = IF FromFile(raw) THEN secrets[raw.secretFile]
                       ELSE ExpandEnvSecret(raw.secret)
    BY <1>3 DEF Resolved, Clusters
  <2>2. SUFFICES ASSUME ~FromFile(raw) PROVE FALSE
    OBVIOUS
  <2>3. raw.secret \in SUBSET Parts /\ ExpandEnvSecret(raw.secret) = {}
    BY <1>3, <1>5, <2>1, <2>2 DEF Clusters
  <2>4. raw.secret = {}
    BY <2>3, NothingFromNothing
  <2> QED
    BY <1>4, <1>5, <2>1, <2>2, <2>4 DEF FromFile
<1> QED
  BY <1>4, <1>5 DEF Complete

(* What a part stands for depends on what run was started with and nothing else. *)
LEMMA MeaningStays ==
    ASSUME setup' = setup, NEW k, NEW raw, NEW cl, MeantBy(k, raw, cl)
    PROVE  MeantBy(k, raw, cl)'
<1>1. \A part : Meant(k, part)' = Meant(k, part)
  BY DEF Meant, Given
<1>2. ASSUME NEW field, NEW text, Means(k, field, text) PROVE Means(k, field, text)'
  BY <1>1, <1>2 DEF Means
<1> QED
  BY <1>2 DEF MeantBy, FromFile

(* Once the environment is what the candidate gives, a field that is accepted is *)
(* resolved to what it means.                                                    *)
LEMMA ResolvedAsMeant ==
    ASSUME Found, NEW field \in SUBSET Parts, ExpandEnvSecret(field) # Unset
    PROVE  Means(candidate, field, ExpandEnvSecret(field))
<1>1. \A part \in field : Expand(part) = Meant(candidate, part)
  BY DEF Found, Expand, Meant, Parts
<1>2. /\ ExpandEnvSecret(field) = ExpandEnv(field)
      /\ \A part \in field : Expand(part) # Unset
  BY DEF ExpandEnvSecret, ExpandEnv
<1>3. ExpandEnvSecret(field) = UNION {Expand(part) : part \in field}
  BY <1>2 DEF ExpandEnv
<1>4. {Expand(part) : part \in field} = {Meant(candidate, part) : part \in field}
  BY <1>1
<1> QED
  BY <1>1, <1>2, <1>3, <1>4 DEF Means

LEMMA AcceptedAsMeant ==
    ASSUME Found, file \in Files, Accepted
    PROVE  \A i \in DOMAIN LoadConfig.clusters :
              MeantBy(candidate, file.clusters[i], LoadConfig.clusters[i])
<1>1. /\ file.clusters \in Seq(Clusters)
      /\ DOMAIN file = {"uri", "interval", "timeout", "push", "otlp", "clusters"}
  BY ConfigLoadAssumption
<1>2. /\ LoadConfig.clusters = ResolvedFile.clusters
      /\ ResolvedFile.clusters = [i \in DOMAIN file.clusters |-> Resolved(file.clusters[i])]
  BY <1>1 DEF LoadConfig, Defaults, ResolvedFile
<1> SUFFICES ASSUME NEW i \in DOMAIN file.clusters
             PROVE  MeantBy(candidate, file.clusters[i], Resolved(file.clusters[i]))
  BY <1>2
<1> DEFINE raw == file.clusters[i]  cl == Resolved(raw)
<1>3. raw \in Clusters
  BY <1>1
<1>4. /\ cl.host = ExpandEnvSecret(raw.host) /\ cl.tokenID = ExpandEnvSecret(raw.tokenID)
      /\ ~FromFile(raw) => cl.secret = ExpandEnvSecret(raw.secret)
  BY <1>3 DEF Resolved, Clusters
<1>5. cl.host # Unset /\ cl.tokenID # Unset /\ cl.secret # Unset
  BY DEF Accepted, Resolves
<1>6. /\ raw.host \in SUBSET Parts /\ raw.tokenID \in SUBSET Parts
      /\ raw.secret \in SUBSET Parts
  BY <1>3 DEF Clusters
<1>7. Means(candidate, raw.host, cl.host) /\ Means(candidate, raw.tokenID, cl.tokenID)
  BY <1>4, <1>5, <1>6, ResolvedAsMeant
<1>8. FromFile(raw) \/ Means(candidate, raw.secret, cl.secret)
  BY <1>4, <1>5, <1>6, ResolvedAsMeant
<1> QED
  BY <1>7, <1>8 DEF MeantBy

-----------------------------------------------------------------------------
(* One look at a candidate either moves on over a missing one or is the last. *)
LEMMA LoadDotEnvKeeps ==
    ASSUME IInv, LoadDotEnv
    PROVE  IInv'
<1> USE DEF IInv, Surroundings
<1>1. /\ pc = "dotenv" /\ env = setup.env /\ env' = WithDotEnv
      /\ UNCHANGED <<setup, file, config, source, clients>>
  BY DEF LoadDotEnv, Search
<1>2. /\ setup.dotenv[candidate] \in {Unset} \cup [Vars -> Optional]
      /\ candidate \in 1 .. Len(setup.dotenv) /\ Len(setup.dotenv) \in Nat
  BY DEF Search
<1>3. InForce'
  BY <1>1 DEF LoadDotEnv, InForce
<1>4. CASE GoesOn /\ candidate < Len(setup.dotenv)
  <2>1. candidate' = candidate + 1 /\ pc' = pc
    BY <1>4 DEF LoadDotEnv
  <2>2. DotEnv = Unset /\ env' = setup.env
    BY <1>1, <1>4 DEF GoesOn, WithDotEnv
  <2>3. \A j \in 1 .. candidate : setup.dotenv[j] = Unset
    BY <2>2, <1>2 DEF DotEnv, Search
  <2>4. Search'
    BY <1>1, <1>2, <1>4, <2>1, <2>2, <2>3 DEF Search
  <2> QED
    BY <1>1, <1>3, <2>1, <2>4
<1>5. CASE ~(GoesOn /\ candidate < Len(setup.dotenv))
  <2>1. candidate' = candidate /\ pc' = "load"
    BY <1>5 DEF LoadDotEnv
  <2>2. setup.dotenv[candidate] # Unset \/ candidate = Len(setup.dotenv)
    BY <1>2, <1>5 DEF GoesOn, DotEnv
  <2>3. ASSUME NEW v \in Vars PROVE env'[v] = Given(candidate, v)
    BY <1>1, <1>2 DEF WithDotEnv, DotEnv, Gap, Given
  <2>4. Found'
    BY <1>1, <2>1, <2>2, <2>3 DEF Found, Given
  <2>5. Search'
    BY <1>1, <2>1 DEF Search
  <2> QED
    BY <1>1, <1>3, <2>4, <2>5
<1> QED
  BY <1>4, <1>5

(* A step that leaves the surroundings alone keeps what was found out of them. *)
LEMMA SurroundingsStay ==
    ASSUME Surroundings, UNCHANGED <<setup, env, candidate>>, file' \in Files,
           pc' = "dotenv" <=> pc = "dotenv"
    PROVE  Surroundings'
BY DEF Surroundings, Search, Found, Given

(* What a Load or Reload puts in force is complete and as meant. *)
LEMMA LoadedIsInForce ==
    ASSUME IInv, pc # "dotenv", Accepted, UNCHANGED <<setup, candidate>>,
           config' = LoadConfig, source' = file,
           NEW i \in DOMAIN config'.clusters
    PROVE  /\ Complete(config'.clusters[i], source'.clusters[i])
           /\ MeantBy(candidate, source.clusters[i], config.clusters[i])'
<1>1. Found /\ file \in Files
  BY DEF IInv, Surroundings
<1>2. Complete(config'.clusters[i], source'.clusters[i])
  BY <1>1, AcceptedIsComplete
<1>3. MeantBy(candidate, source'.clusters[i], config'.clusters[i])
  BY <1>1, AcceptedAsMeant
<1> QED
  BY <1>2, <1>3, MeaningStays

(* The inductive invariant: what is in force is complete, means what the one     *)
(* .env that counts says, and is what the clients were built for.                *)
THEOREM ConfigLoadInductive == Spec => []IInv
<1>1. Init => IInv
  <2> SUFFICES ASSUME Init PROVE IInv
    OBVIOUS
  <2>1. setup.dotenv \in Seq({Unset} \cup [Vars -> Optional]) \ {<<>>}
    BY ConfigLoadAssumption DEF Init
  <2>2. Search
    BY <2>1 DEF Init, Search
  <2> QED
    BY <2>1, <2>2 DEF Init, IInv, Surroundings, InForce
<1>2. IInv /\ [Next]_vars => IInv'
  <2> SUFFICES ASSUME IInv, [Next]_vars PROVE IInv'
    OBVIOUS
  <2> USE DEF IInv
  <2>1. CASE LoadDotEnv
    BY <2>1, LoadDotEnvKeeps
  <2>2. CASE Load
    <3>1. Surroundings'
      BY <2>2, SurroundingsStay DEF Load, Surroundings
    <3>2. InForce'
      <4>1. CASE Accepted
        BY <2>2, <4>1, LoadedIsInForce DEF Load, InForce
      <4>2. CASE ~Accepted
        BY <2>2, <4>2 DEF Load, InForce
      <4> QED
        BY <4>1, <4>2
    <3> QED
      BY <3>1, <3>2
  <2>3. CASE Reload
    <3>1. Surroundings'
      BY <2>3, SurroundingsStay DEF Reload, Surroundings
    <3>2. clients' = config'.clusters
      BY <2>3 DEF Reload, InForce, ClustersChanged
    <3>3. InForce'
      BY <2>3, <3>2, LoadedIsInForce DEF Reload, InForce
    <3> QED
      BY <3>1, <3>3
  <2>4. CASE Serve \/ Edit \/ (\E p \in Paths : Rotate(p)) \/ Rest \/ UNCHANGED vars
    <3>1. /\ UNCHANGED <<setup, env, candidate, config, source, clients>>
          /\ file' \in Files
          /\ pc' = pc \/ (pc = "serve" /\ pc' \in {"crashed", "run"})
      BY <2>4 DEF Serve, Edit, Rotate, Rest, vars, Surroundings
    <3>2. Surroundings'
      BY <3>1, SurroundingsStay
    <3>3. InForce'
      BY <3>1, MeaningStays DEF InForce
    <3> QED
      BY <3>2, <3>3
  <2> QED
    BY <2>1, <2>2, <2>3, <2>4 DEF Next
<1> QED
  BY <1>1, <1>2, PTL DEF Spec

(* Every configuration in force has complete credentials, whatever the operator  *)
(* writes, exports and mounts (env.go:83-105).                                   *)
THEOREM ForceIsComplete == Spec => []CredentialsComplete
<1>1. IInv => CredentialsComplete
  BY DEF IInv, InForce, CredentialsComplete, Complete
<1> QED
  BY <1>1, ConfigLoadInductive, PTL

(* The clients are built for the configuration in force, secrets included        *)
(* (safe_config.go:65).                                                          *)
THEOREM ClientsFollowSecrets == Spec => []ClientsHaveSecrets
<1>1. IInv => ClientsHaveSecrets
  BY DEF IInv, InForce, ClientsHaveSecrets
<1> QED
  BY <1>1, ConfigLoadInductive, PTL

(* The credentials in force all mean what was exported and, of the .env files,  *)
(* what one says (dotenv.go:11-14, env.go:20-23): files are never mixed, and a  *)
(* reload never resolves a reference to anything else.                          *)
THEOREM OriginIsOne == Spec => []OneOrigin
<1>1. IInv => OneOrigin
  BY DEF IInv, Surroundings, Search, Found, InForce, OneOrigin
<1> QED
  BY <1>1, ConfigLoadInductive, PTL
=============================================================================
