----------------------------- MODULE Lifecycle -----------------------------
(***************************************************************************)
(* The process from start to exit: run and shutdown of main.go with the    *)
(* goroutines run starts.  With --once it collects, registers instruments  *)
(* and flushes; otherwise the HTTP server, the goroutine of the collection *)
(* loop and OTLP's periodic reader run beside it until a signal, the       *)
(* caller's context or the server's failure ends it, and shutdown stops    *)
(* server, OTLP and tracer one after the other within one deadline.        *)
(*                                                                         *)
(* Snapshots are numbered by cycle, 0 being the empty one.  What a cycle   *)
(* does is Collector's business, which names have instruments Exporters'.  *)
(***************************************************************************)
EXTENDS Naturals, TLC

CONSTANTS
    Setups,    \* what to check: [once, otlp, tracing], the latter two set up or nil
    Scrapers,  \* connections to /metrics
    MaxCycles  \* bound: cycles collected

ASSUME LifecycleAssumption ==
    /\ Setups \subseteq [once : BOOLEAN, otlp : BOOLEAN, tracing : BOOLEAN]
    /\ MaxCycles \in Nat \ {0}

VARIABLES
    setup,      \* the one of Setups this is
    main,       \* where run is
    server,     \* httpServer: none, starting, serving, failed, closed
    boot,       \* the goroutine of the loop: none, ready, first, ensure, run, cycle, out
    store,      \* the current snapshot
    registered, \* OTLP has instruments
    scrape,     \* each connection: idle, open (a request on it), loaded
    response,   \* the snapshot its response shows
    shown,      \* newest snapshot a scrape answered with
    pushed,     \* newest snapshot a push carried
    flush,      \* the last push: none, sent, empty, refused, cut (by its context)
    signal,     \* a signal is in the channel
    parent,     \* the caller's context is done
    cancelled,  \* run has called cancel
    late        \* shutdown's deadline has passed

vars == <<setup, main, server, boot, store, registered, scrape, response, shown,
          pushed, flush, signal, parent, cancelled, late>>

Ended == {"done", "killed"}
Alive == main \notin Ended
Stopping == {"drain", "flush", "trace"}

(* The steps of run, each with the one after it *)
OnceSteps ==
    [start |-> "cycle", cycle |-> "otlp", otlp |-> "flush", flush |-> "trace",
     trace |-> "done"]
ServeSteps ==
    [start |-> "serve", serve |-> "otlp", otlp |-> "boot", boot |-> "notify",
     notify |-> "wait", wait |-> "drain", drain |-> "flush", flush |-> "trace",
     trace |-> "done"]
AfterOTLPFirst ==
    IF setup.once
    THEN [OnceSteps EXCEPT !.start = "otlp", !.otlp = "cycle", !.cycle = "flush"]
    ELSE ServeSteps
AfterFlushFirst ==
    IF setup.once THEN OnceSteps
    ELSE [ServeSteps EXCEPT !.wait = "flush", !.flush = "drain", !.drain = "trace"]
AfterIgnoringOnce == ServeSteps
AfterCycleFirst ==
    IF setup.once THEN OnceSteps
    ELSE [ServeSteps EXCEPT !.start = "cycle"] @@ ("cycle" :> "serve")
After == IF setup.once THEN OnceSteps ELSE ServeSteps

CtxDone == cancelled \/ parent

(* The context shutdown's callees get: of its own deadline, not of run's ctx;    *)
(* --once derives it from ctx                                                    *)
Expired == late \/ (setup.once /\ CtxDone)

(* The cases of run's select *)
AskedToStopNoErr == signal \/ parent
AskedToStop == signal \/ parent \/ server = "failed"

(* A signal terminates the process until run has called signal.Notify, which it  *)
(* never does with --once                                                        *)
Caught == main \in {"wait"} \cup Stopping /\ ~setup.once

Quiet == \A c \in Scrapers : scrape[c] = "idle"

Init ==
    /\ setup \in Setups
    /\ main = "start" /\ server = "none" /\ boot = "none"
    /\ store = 0 /\ registered = FALSE
    /\ scrape = [c \in Scrapers |-> "idle"] /\ response = [c \in Scrapers |-> 0]
    /\ shown = 0 /\ pushed = 0 /\ flush = "none"
    /\ signal = FALSE /\ parent = FALSE /\ cancelled = FALSE /\ late = FALSE

-----------------------------------------------------------------------------
(* EnsureInstruments: the empty snapshot has no names to register *)
EnsureInstruments == registered' = (registered \/ (setup.otlp /\ store > 0))

(* The head of run; a bad configuration or log file is an error *)
Start ==
    /\ main = "start"
    /\ main' \in {After[main], "done"}
    /\ UNCHANGED <<setup, server, boot, store, registered, scrape, response,
                   shown, pushed, flush, signal, parent, cancelled, late>>

(* --once: the only cycle *)
OnceCycle ==
    /\ main = "cycle" /\ store < MaxCycles
    /\ store' = store + 1
    /\ main' = After[main]
    /\ UNCHANGED <<setup, server, boot, registered, scrape, response, shown,
                   pushed, flush, signal, parent, cancelled, late>>

StartServer ==
    /\ main = "serve"
    /\ main' = After[main] /\ server' = "starting"
    /\ UNCHANGED <<setup, boot, store, registered, scrape, response, shown,
                   pushed, flush, signal, parent, cancelled, late>>

SetupOTLP ==
    /\ main = "otlp"
    /\ main' = After[main] /\ EnsureInstruments
    /\ UNCHANGED <<setup, server, boot, store, scrape, response, shown, pushed,
                   flush, signal, parent, cancelled, late>>

(* The goroutines of the loop and of syncInstruments *)
StartLoop ==
    /\ main = "boot"
    /\ main' = After[main] /\ boot' = "ready"
    /\ UNCHANGED <<setup, server, store, registered, scrape, response, shown,
                   pushed, flush, signal, parent, cancelled, late>>

Notify ==
    /\ main = "notify"
    /\ main' = After[main]
    /\ UNCHANGED <<setup, server, boot, store, registered, scrape, response,
                   shown, pushed, flush, signal, parent, cancelled, late>>

(* The select of run and the cancel after it *)
Stop ==
    /\ main = "wait" /\ AskedToStop
    /\ main' = After[main] /\ cancelled' = TRUE
    /\ UNCHANGED <<setup, server, boot, store, registered, scrape, response,
                   shown, pushed, flush, signal, parent, late>>

(* httpServer.Shutdown closes the listener ... *)
CloseListener ==
    /\ main = "drain" /\ server \in {"starting", "serving"}
    /\ server' = "closed"
    /\ UNCHANGED <<setup, main, boot, store, registered, scrape, response, shown,
                   pushed, flush, signal, parent, cancelled, late>>

(* ... and waits for the requests in flight, or its deadline *)
Drained ==
    /\ main = "drain" /\ server \notin {"starting", "serving"}
    /\ Quiet \/ Expired
    /\ main' = After[main]
    /\ UNCHANGED <<setup, server, boot, store, registered, scrape, response,
                   shown, pushed, flush, signal, parent, cancelled, late>>

(* OTLPExporter.Shutdown: the reader's last collection and export; an endpoint   *)
(* may refuse it                                                                 *)
Flush ==
    /\ main = "flush"
    /\ main' = After[main]
    /\ IF ~setup.otlp THEN UNCHANGED <<flush, pushed>>
       ELSE IF Expired THEN flush' = "cut" /\ UNCHANGED pushed
       ELSE \/ flush' = "refused" /\ UNCHANGED pushed
            \/ /\ flush' = IF registered THEN "sent" ELSE "empty"
               /\ pushed' = IF registered THEN store ELSE pushed
    /\ UNCHANGED <<setup, server, boot, store, registered, scrape, response,
                   shown, signal, parent, cancelled, late>>

(* Manager.Shutdown: the last spans are out, or the deadline has passed *)
StopTracer ==
    /\ main = "trace"
    /\ main' = After[main]
    /\ UNCHANGED <<setup, server, boot, store, registered, scrape, response,
                   shown, pushed, flush, signal, parent, cancelled, late>>

(* The deadline strikes within shutdown.  A call that does not return on its     *)
(* own is ended by it.                                                           *)
Deadline ==
    /\ main \in Stopping /\ ~late
    /\ late' = TRUE
    /\ UNCHANGED <<setup, main, server, boot, store, registered, scrape,
                   response, shown, pushed, flush, signal, parent, cancelled>>

-----------------------------------------------------------------------------
(* ListenAndServe: the listener opens, *)
Listen ==
    /\ Alive /\ server = "starting"
    /\ server' = "serving"
    /\ UNCHANGED <<setup, main, boot, store, registered, scrape, response, shown,
                   pushed, flush, signal, parent, cancelled, late>>

(* or does not open, or fails later *)
ServerFails ==
    /\ Alive /\ server \in {"starting", "serving"}
    /\ server' = "failed"
    /\ UNCHANGED <<setup, main, boot, store, registered, scrape, response, shown,
                   pushed, flush, signal, parent, cancelled, late>>

(* A scrape is accepted, loads the store and is answered *)
Accept(c) ==
    /\ Alive /\ server = "serving" /\ scrape[c] = "idle"
    /\ scrape' = [scrape EXCEPT ![c] = "open"]
    /\ UNCHANGED <<setup, main, server, boot, store, registered, response, shown,
                   pushed, flush, signal, parent, cancelled, late>>

Load(c) ==
    /\ Alive /\ scrape[c] = "open"
    /\ scrape' = [scrape EXCEPT ![c] = "loaded"]
    /\ response' = [response EXCEPT ![c] = store]
    /\ UNCHANGED <<setup, main, server, boot, store, registered, shown, pushed,
                   flush, signal, parent, cancelled, late>>

Answer(c) ==
    /\ Alive /\ scrape[c] = "loaded"
    /\ scrape' = [scrape EXCEPT ![c] = "idle"]
    /\ response' = [response EXCEPT ![c] = 0]
    /\ shown' = IF response[c] > shown THEN response[c] ELSE shown
    /\ UNCHANGED <<setup, main, server, boot, store, registered, pushed, flush,
                   signal, parent, cancelled, late>>

(* The goroutine of the loop: the first cycle, the instruments, then Run *)
BeginFirst ==
    /\ Alive /\ boot = "ready"
    /\ boot' = "first"
    /\ UNCHANGED <<setup, main, server, store, registered, scrape, response,
                   shown, pushed, flush, signal, parent, cancelled, late>>

Publish ==
    /\ Alive /\ boot \in {"first", "cycle"} /\ store < MaxCycles
    /\ store' = store + 1
    /\ boot' = IF boot = "first" THEN "ensure" ELSE "run"
    /\ UNCHANGED <<setup, main, server, registered, scrape, response, shown,
                   pushed, flush, signal, parent, cancelled, late>>

BootEnsure ==
    /\ Alive /\ boot = "ensure"
    /\ boot' = "run" /\ EnsureInstruments
    /\ UNCHANGED <<setup, main, server, store, scrape, response, shown, pushed,
                   flush, signal, parent, cancelled, late>>

(* Run's select: a tick, also after the context is done, or the end *)
RunSelect ==
    /\ Alive /\ boot = "run"
    /\ boot' \in {"cycle"} \cup {b \in {"out"} : CtxDone}
    /\ UNCHANGED <<setup, main, server, store, registered, scrape, response,
                   shown, pushed, flush, signal, parent, cancelled, late>>

(* The loop of syncInstruments: its select, too, may take a tick after the end   *)
(* of the context, so nothing says it has returned                               *)
SyncTick ==
    /\ Alive /\ boot # "none" /\ ~registered
    /\ EnsureInstruments
    /\ UNCHANGED <<setup, main, server, boot, store, scrape, response, shown,
                   pushed, flush, signal, parent, cancelled, late>>

(* OTLP's periodic reader, until its Shutdown *)
Push ==
    /\ Alive /\ registered /\ flush = "none"
    /\ pushed' = store
    /\ UNCHANGED <<setup, main, server, boot, store, registered, scrape,
                   response, shown, flush, signal, parent, cancelled, late>>

(* SIGINT or SIGTERM, when the process catches it, and when not *)
Signal ==
    /\ Caught /\ ~signal
    /\ signal' = TRUE
    /\ UNCHANGED <<setup, main, server, boot, store, registered, scrape,
                   response, shown, pushed, flush, parent, cancelled, late>>

Kill ==
    /\ Alive /\ ~Caught
    /\ main' = "killed"
    /\ UNCHANGED <<setup, server, boot, store, registered, scrape, response,
                   shown, pushed, flush, signal, parent, cancelled, late>>

(* The caller cancels the context it gave to run *)
CancelParent ==
    /\ Alive /\ ~parent
    /\ parent' = TRUE
    /\ UNCHANGED <<setup, main, server, boot, store, registered, scrape,
                   response, shown, pushed, flush, signal, cancelled, late>>

Exited == ~Alive /\ UNCHANGED vars

-----------------------------------------------------------------------------
Run ==
    \/ Start \/ StartServer \/ SetupOTLP \/ StartLoop \/ Notify \/ Stop
    \/ CloseListener \/ Drained \/ Flush \/ StopTracer
Server == Listen \/ ServerFails
Request(c) == Accept(c) \/ Load(c) \/ Answer(c)
Loop == BeginFirst \/ Publish \/ BootEnsure \/ RunSelect

Next ==
    \/ Run \/ OnceCycle \/ Deadline \/ Server \/ Loop \/ SyncTick \/ Push
    \/ \E c \in Scrapers : Request(c)
    \/ Signal \/ Kill \/ CancelParent \/ Exited

Spec == Init /\ [][Next]_vars

(* The exports of the last metrics and spans, which nothing but the deadline is  *)
(* sure to end                                                                   *)
Exporting == (main = "flush" /\ setup.otlp) \/ (main = "trace" /\ setup.tracing)

(* run and the server's goroutine are scheduled, timers fire.  Nothing is        *)
(* assumed of clusters and endpoints that may not answer, nor of clients that    *)
(* read slowly.                                                                  *)
FairSpec ==
    /\ Spec /\ WF_vars(Deadline) /\ WF_vars(Server)
    /\ WF_vars(Run /\ (Exporting => Expired))

-----------------------------------------------------------------------------
(* The types; nothing is shown or pushed before it is published, and --once      *)
(* starts neither server nor loop (main.go:138).                                 *)
TypeOK ==
    /\ setup \in Setups
    /\ main \in {"start", "cycle", "serve", "otlp", "boot", "notify", "wait"}
                  \cup Stopping \cup Ended
    /\ server \in {"none", "starting", "serving", "failed", "closed"}
    /\ boot \in {"none", "ready", "first", "ensure", "run", "cycle", "out"}
    /\ store \in 0 .. MaxCycles /\ shown \in 0 .. store /\ pushed \in 0 .. store
    /\ scrape \in [Scrapers -> {"idle", "open", "loaded"}]
    /\ response \in [Scrapers -> 0 .. store]
    /\ flush \in {"none", "sent", "empty", "refused", "cut"}
    /\ {registered, signal, parent, cancelled, late} \subseteq BOOLEAN
    /\ setup.once => server = "none" /\ boot = "none"

(* OTLP ends no older than Prometheus: when the last push gets through, no       *)
(* scrape was, or will be, answered with a snapshot newer than it (the order of  *)
(* shutdown, main.go:289-308).                                                   *)
FlushCoversScrapes == flush = "sent" => pushed >= shown /\ Quiet

(* With --once the last push carries the samples of the only cycle: instruments  *)
(* are registered after it (main.go:140-142).                                    *)
OncePushesItsCycle == setup.once => flush # "empty" /\ (flush = "sent" => pushed > 0)

(* Only shutdown's own deadline, or with --once the caller's context, can cut    *)
(* the last push off; that run has cancelled everything else does not            *)
(* (main.go:217-218).                                                            *)
FlushNotCut == flush = "cut" => late \/ (setup.once /\ parent)

(* Clusters that never answer do not keep the HTTP server from its port          *)
(* (ADR 0002, main.go:167-172).                                                  *)
ServesDespiteClusters ==
    <>(server \notin {"none", "starting"} \/ setup.once \/ main \in Ended)

(* A signal, the caller or the server's failure ends run, whatever clusters,     *)
(* clients and endpoints do; --once ends after its cycle.                        *)
RunReturns ==
    (\/ ~setup.once /\ (signal \/ parent \/ server = "failed")
     \/ setup.once /\ store > 0) ~> main \in Ended
=============================================================================
