---------------------------- MODULE MCConfigLoad ----------------------------
(* ConfigLoad for TLC: two variables, one secret file; each file is a sound    *)
(* one but for a field or two.                                                 *)
EXTENDS ConfigLoad, TLC

CONSTANTS v, w, p

Text(token) == [var |-> Unset, text |-> {token}, fallback |-> Unset]
Ref(fallback) == [var |-> v, text |-> {}, fallback |-> fallback]
RefW == [var |-> w, text |-> {}, fallback |-> Unset]
Fields == {{}, {Text("x")}, {Ref(Unset)}, {Ref({})}, {Ref({"y"})}, {Text("x"), Ref(Unset)}}

Cluster(name, host, secret, secretFile) ==
    [name |-> name, host |-> host, tokenID |-> {Text("x")}, secret |-> secret,
     secretFile |-> secretFile]
Sound ==
    [uri |-> "", interval |-> "", timeout |-> "", push |-> "", otlp |-> TRUE,
     clusters |-> <<Cluster("a", {Ref(Unset)}, {}, p)>>]
SomeFiles ==
    {[Sound EXCEPT !.clusters = <<Cluster("a", h, s, f)>>] :
        h \in {{}, {Ref(Unset)}, {Ref({"y"})}}, s \in Fields, f \in {p, NoPath}}
      \cup {[Sound EXCEPT !.clusters[1].tokenID = t] : t \in Fields \cup {{RefW}}}
      \cup {[Sound EXCEPT !.uri = u] : u \in {"/pve", "pve", "/health", "/{"}}
      \cup {[Sound EXCEPT !.interval = d] : d \in {"0s", "-5s", "soon"}}
      \cup {[Sound EXCEPT !.timeout = "soon"]}
      \cup {[Sound EXCEPT !.push = "soon", !.otlp = o] : o \in BOOLEAN}
      \cup {[Sound EXCEPT !.clusters = <<>>],
            [Sound EXCEPT !.clusters = <<@[1], @[1]>>],
            [Sound EXCEPT !.clusters = <<@[1], Cluster("b", {Text("x")}, {Text("x")}, NoPath)>>],
            [Sound EXCEPT !.clusters[1].name = ""]}

SomeTexts == {Unset, {}, {"x"}}
Variables(ofV, ofW) == {(v :> x @@ w :> y) : x \in ofV, y \in ofW}
SomeEnvironments ==
    {[env |-> e, dotenv |-> <<d1, d2>>] :
        e \in Variables(SomeTexts, {Unset}),
        d1 \in {Unset} \cup Variables({Unset, {}, {"y"}}, {Unset, {"y"}}),
        d2 \in {Unset} \cup Variables({{"z"}}, {{"z"}})}
=============================================================================
