------------------------------ MODULE Exporters ------------------------------
(***************************************************************************)
(* The two backends beside the collection loop: a Prometheus scrape        *)
(* (prometheus.go), an OTLP push and the registration of its instruments   *)
(* (otlp.go), which goes on in two goroutines of main.go: the one that ran *)
(* the first cycle and the ticker of syncInstruments.                      *)
(*                                                                         *)
(* A snapshot is its number and the metric names it has samples of; what a *)
(* backend shows is a set of <<name, number of the snapshot it is from>>.  *)
(* Scrapes share nothing with each other, so one scraper stands for all.   *)
(***************************************************************************)
EXTENDS Naturals, FiniteSets

CONSTANTS
    Metrics,    \* metric names, all of which the meter accepts
    Nobody,     \* the mutex of OTLPExporter is free; also: no name in hand
    MaxCycles   \* bound: snapshots published

Registrars == {"boot", "sync"}

ASSUME ExportersAssumption ==
    /\ IsFiniteSet(Metrics) /\ MaxCycles \in Nat
    /\ Nobody \notin Metrics \cup Registrars

VARIABLES
    store,       \* SnapshotStore.current: [at, names]
    history,     \* history: the names of every snapshot published so far
    registered,  \* OTLPExporter.registered
    instruments, \* how many instruments the meter has under each name
    mutex,       \* OTLPExporter.mu
    pc,          \* of EnsureInstruments' callers: off, due, run, out
    left,        \* the names a call of EnsureInstruments has not come to yet
    making,      \* the name it is about to create an instrument for
    scrape,      \* a run of Collect: [on, since, view, left, out]
    scraped,     \* the last finished scrape: [since, out]
    push,        \* a collection of the periodic reader: [on, since, read, left, out]
    pushed       \* the last push: [since, until, read, out]

ensureVars == <<registered, instruments, mutex, pc, left, making>>
scrapeVars == <<scrape, scraped>>
pushVars == <<push, pushed>>
vars == <<store, history, ensureVars, scrapeVars, pushVars>>

-----------------------------------------------------------------------------
Empty == [at |-> 0, names |-> {}]
SeriesOf(snap) == {<<n, snap.at>> : n \in snap.names}

(* The names EnsureInstruments goes through: those of the current snapshot *)
NamesToEnsureOnce == IF registered = {} THEN store.names ELSE {}
NamesToEnsure == store.names

(* The mutex EnsureInstruments holds until it returns *)
NoMutex == TRUE
MutexFree == mutex = Nobody

(* The first goroutine goes on to Run, syncInstruments waits for its next tick *)
AfterEnsure(e) == IF e = "boot" THEN "out" ELSE "off"

(* The snapshot whose samples Collect emits: the one loaded at its beginning *)
ViewPerName == store
View == scrape.view

(* What the callback of metric n observes: the snapshot current when it runs, *)
(* not the one its instrument was created from                                *)
CallbackOfFirst(n) ==
    {<<n, k>> : k \in {j \in DOMAIN history :
                          n \in history[j] /\ \A i \in 0 .. j - 1 : n \notin history[i]}}
Callback(n) == SeriesOf([at |-> store.at, names |-> store.names \cap {n}])

Init ==
    /\ store = Empty
    /\ history = [k \in {0} |-> {}]
    /\ registered = {}
    /\ instruments = [n \in Metrics |-> 0]
    /\ mutex = Nobody
    /\ pc = [e \in Registrars |-> "off"]
    /\ left = [e \in Registrars |-> {}]
    /\ making = [e \in Registrars |-> Nobody]
    /\ scrape = [on |-> FALSE, since |-> 0, view |-> Empty, left |-> {}, out |-> {}]
    /\ scraped = [since |-> 0, out |-> {}]
    /\ push = [on |-> FALSE, since |-> 0, read |-> {}, left |-> {}, out |-> {}]
    /\ pushed = [since |-> 0, until |-> 0, read |-> {}, out |-> {}]

-----------------------------------------------------------------------------
(* A cycle is published.  The first one makes its goroutine register names,    *)
(* and Run publishes the next only after that call has returned.               *)
Publish(names) ==
    /\ store.at < MaxCycles
    /\ store.at = 0 \/ pc["boot"] = "out"
    /\ store' = [at |-> store.at + 1, names |-> names]
    /\ history' = [k \in DOMAIN history \cup {store'.at} |->
                     IF k = store'.at THEN names ELSE history[k]]
    /\ pc' = IF store.at = 0 THEN [pc EXCEPT !["boot"] = "due"] ELSE pc
    /\ UNCHANGED <<registered, instruments, mutex, left, making, scrapeVars, pushVars>>

(* The ticker of syncInstruments *)
SyncTick ==
    /\ pc["sync"] = "off"
    /\ pc' = [pc EXCEPT !["sync"] = "due"]
    /\ UNCHANGED <<store, history, registered, instruments, mutex, left, making,
                   scrapeVars, pushVars>>

(* EnsureInstruments locks and loads the snapshot *)
Ensure(e) ==
    /\ pc[e] = "due"
    /\ MutexFree
    /\ mutex' = e
    /\ pc' = [pc EXCEPT ![e] = "run"]
    /\ left' = [left EXCEPT ![e] = NamesToEnsure]
    /\ UNCHANGED <<store, history, registered, instruments, making, scrapeVars, pushVars>>

(* The loop comes to name n: one that is registered is passed over *)
Check(e, n) ==
    /\ pc[e] = "run" /\ making[e] = Nobody /\ n \in left[e]
    /\ left' = [left EXCEPT ![e] = @ \ {n}]
    /\ making' = IF n \in registered THEN making ELSE [making EXCEPT ![e] = n]
    /\ UNCHANGED <<store, history, registered, instruments, mutex, pc, scrapeVars,
                   pushVars>>

(* The meter takes the new instrument, which waits for a push in progress *)
Create(e) ==
    /\ making[e] # Nobody
    /\ ~push.on
    /\ instruments' = [instruments EXCEPT ![making[e]] = @ + 1]
    /\ registered' = registered \cup {making[e]}
    /\ making' = [making EXCEPT ![e] = Nobody]
    /\ UNCHANGED <<store, history, mutex, pc, left, scrapeVars, pushVars>>

(* EnsureInstruments returns and unlocks *)
Return(e) ==
    /\ pc[e] = "run" /\ making[e] = Nobody /\ left[e] = {}
    /\ mutex' = Nobody
    /\ pc' = [pc EXCEPT ![e] = AfterEnsure(e)]
    /\ UNCHANGED <<store, history, registered, instruments, left, making, scrapeVars,
                   pushVars>>

-----------------------------------------------------------------------------
(* Collect loads the store ... *)
ScrapeStart ==
    /\ ~scrape.on
    /\ scrape' = [on |-> TRUE, since |-> store.at, view |-> store,
                  left |-> store.names, out |-> {}]
    /\ UNCHANGED <<store, history, ensureVars, scraped, pushVars>>

(* ... emits the samples of one name after the other ... *)
ScrapeEmit(n) ==
    /\ scrape.on /\ n \in scrape.left
    /\ scrape' = [scrape EXCEPT !.left = @ \ {n},
                                !.out = @ \cup ({n} \cap View.names) \X {View.at}]
    /\ UNCHANGED <<store, history, ensureVars, scraped, pushVars>>

(* ... and the response goes out *)
ScrapeEnd ==
    /\ scrape.on /\ scrape.left = {}
    /\ scrape' = [scrape EXCEPT !.on = FALSE]
    /\ scraped' = [since |-> scrape.since, out |-> scrape.out]
    /\ UNCHANGED <<store, history, ensureVars, pushVars>>

(* The periodic reader collects: it calls the callback of every instrument ... *)
PushStart ==
    /\ ~push.on
    /\ LET all == {n \in Metrics : instruments[n] > 0}
       IN  push' = [on |-> TRUE, since |-> store.at, read |-> all, left |-> all, out |-> {}]
    /\ UNCHANGED <<store, history, ensureVars, scrapeVars, pushed>>

(* ... each of which loads the store by itself ... *)
PushObserve(n) ==
    /\ push.on /\ n \in push.left
    /\ push' = [push EXCEPT !.left = @ \ {n}, !.out = @ \cup Callback(n)]
    /\ UNCHANGED <<store, history, ensureVars, scrapeVars, pushed>>

(* ... and exports what they observed *)
PushEnd ==
    /\ push.on /\ push.left = {}
    /\ push' = [push EXCEPT !.on = FALSE]
    /\ pushed' = [since |-> push.since, until |-> store.at, read |-> push.read,
                  out |-> push.out]
    /\ UNCHANGED <<store, history, ensureVars, scrapeVars>>

EnsureStep(e) == Ensure(e) \/ (\E n \in Metrics : Check(e, n)) \/ Create(e) \/ Return(e)
Scrape == ScrapeStart \/ (\E n \in Metrics : ScrapeEmit(n)) \/ ScrapeEnd
Push == PushStart \/ (\E n \in Metrics : PushObserve(n)) \/ PushEnd

Next ==
    \/ \E names \in SUBSET Metrics : Publish(names)
    \/ SyncTick
    \/ \E e \in Registrars : EnsureStep(e)
    \/ Scrape \/ Push

Spec == Init /\ [][Next]_vars

(* The tickers tick, Prometheus scrapes, goroutines are scheduled.  Registration *)
(* is strong: between two pushes the lock of the meter is free for a moment, and *)
(* a goroutine that waits for it, or for the mutex, gets it in the end.          *)
FairSpec ==
    /\ Spec /\ WF_vars(SyncTick) /\ WF_vars(Scrape) /\ WF_vars(Push)
    /\ \A e \in Registrars : SF_vars(EnsureStep(e))

-----------------------------------------------------------------------------
(* The types; syncInstruments never returns before the shutdown (main.go:276). *)
TypeOK ==
    /\ store \in [at : 0 .. MaxCycles, names : SUBSET Metrics]
    /\ history \in [0 .. store.at -> SUBSET Metrics]
    /\ registered \subseteq Metrics
    /\ instruments \in [Metrics -> Nat]
    /\ mutex \in Registrars \cup {Nobody}
    /\ pc["boot"] \in {"off", "due", "run", "out"} /\ pc["sync"] \in {"off", "due", "run"}
    /\ left \in [Registrars -> SUBSET Metrics]
    /\ making \in [Registrars -> Metrics \cup {Nobody}]
    /\ scrape.left \subseteq Metrics /\ push.left \subseteq Metrics
    /\ scrape.out \cup push.out \subseteq Metrics \X (0 .. store.at)

(* A scrape shows one published snapshot, whole, at least as new as the one    *)
(* current when it began, though cycles are published and other backends read  *)
(* meanwhile (prometheus.go:26, ADR-0002 "no torn reads").                     *)
ScrapeIsOneSnapshot ==
    \E k \in scraped.since .. store.at :
        scraped.out = SeriesOf([at |-> k, names |-> history[k]])

(* Each name has at most one instrument, and has it exactly when it is marked, *)
(* though two goroutines register the same names at once: two would have every *)
(* series observed twice (otlp.go:74-93).                                      *)
RegisteredOnce ==
    \A n \in Metrics : instruments[n] = (IF n \in registered THEN 1 ELSE 0)

(* A push never sends a value older than the push: each series is of a         *)
(* snapshot that was current while the push ran, no name is sent twice, and a  *)
(* name is left out only if it has no instrument or was absent from one of     *)
(* those snapshots (otlp.go:83-87).                                            *)
PushIsFresh ==
    LET window == pushed.since .. pushed.until
    IN  /\ \A s \in pushed.out : s[2] \in window /\ s[1] \in history[s[2]]
        /\ \A s, t \in pushed.out : s[1] = t[1] => s = t
        /\ \A n \in pushed.read :
              (\A k \in window : n \in history[k]) => \E s \in pushed.out : s[1] = n

(* When no new snapshot comes any more (a collection that hangs, or the bound  *)
(* MaxCycles here), both backends come to show all of the last one: no name    *)
(* stays without an instrument (main.go:182 and 281).                          *)
BackendsSettle ==
    <>[](scraped.out = SeriesOf(store) /\ pushed.out = SeriesOf(store))

-----------------------------------------------------------------------------
(* README.md:21: "the same in-memory snapshot feeds a Prometheus unchecked     *)
(* collector and OTLP observable gauges, so the two backends never disagree".  *)
(* Everything one push sends is of one snapshot, as in a scrape.               *)
PushIsOneSnapshot ==
    \E k \in pushed.since .. pushed.until :
        pushed.out = SeriesOf([at |-> k, names |-> history[k] \cap pushed.read])
=============================================================================
