--------------------------- MODULE ExportersProofs ---------------------------
(***************************************************************************)
(* Safety of the backends for any set of metric names and any number of    *)
(* cycles.  The invariant follows a scrape and a push while they run: what *)
(* they have shown so far is what the snapshots of their window hold.      *)
(***************************************************************************)
EXTENDS Exporters, TLAPS

Typed ==
    /\ store \in [at : 0 .. MaxCycles, names : SUBSET Metrics]
    /\ history \in [0 .. store.at -> SUBSET Metrics]
    /\ registered \subseteq Metrics
    /\ instruments \in [Metrics -> Nat]
    /\ mutex \in Registrars \cup {Nobody}
    /\ pc \in [Registrars -> {"off", "due", "run", "out"}] /\ pc["sync"] # "out"
    /\ left \in [Registrars -> SUBSET Metrics]
    /\ making \in [Registrars -> Metrics \cup {Nobody}]
    /\ scrape \in [on : BOOLEAN, since : Nat, left : SUBSET Metrics,
                   view : [at : 0 .. MaxCycles, names : SUBSET Metrics],
                   out : SUBSET (Metrics \X Nat)]
    /\ scraped \in [since : Nat, out : SUBSET (Metrics \X Nat)]
    /\ push \in [on : BOOLEAN, since : Nat, read : SUBSET Metrics,
                 left : SUBSET Metrics, out : SUBSET (Metrics \X Nat)]
    /\ pushed \in [since : Nat, until : Nat, read : SUBSET Metrics,
                   out : SUBSET (Metrics \X Nat)]

(* The store is the last snapshot of the history *)
HistoryInv == store.names = history[store.at]

(* Only the holder of the mutex is inside EnsureInstruments, and the name it is *)
(* about to create an instrument for has none; the first goroutine gets there   *)
(* after the first cycle                                                        *)
MutexInv ==
    /\ \A e \in Registrars :
          /\ pc[e] = "run" <=> mutex = e
          /\ making[e] # Nobody => pc[e] = "run" /\ making[e] \notin registered
    /\ store.at = 0 => pc["boot"] = "off"

(* A scrape has shown the names of its view that it has come to *)
ScrapeInv ==
    /\ scrape.since <= scrape.view.at /\ scrape.view.at <= store.at
    /\ scrape.view.names = history[scrape.view.at]
    /\ scrape.left \subseteq scrape.view.names
    /\ scrape.out = (scrape.view.names \ scrape.left) \X {scrape.view.at}

(* Of the snapshots a to b of history h, a push observed out for the names done *)
Observed(h, a, b, done, out) ==
    /\ \A s \in out : s[2] \in a .. b /\ s[1] \in h[s[2]] /\ s[1] \in done
    /\ \A s, t \in out : s[1] = t[1] => s = t
    /\ \A n \in done : (\A k \in a .. b : n \in h[k]) => \E s \in out : s[1] = n

PushInv ==
    /\ push.since <= store.at /\ push.left \subseteq push.read
    /\ Observed(history, push.since, store.at, push.read \ push.left, push.out)

PushedInv ==
    /\ pushed.until <= store.at
    /\ Observed(history, pushed.since, pushed.until, pushed.read, pushed.out)

IInv == Typed /\ HistoryInv /\ MutexInv /\ RegisteredOnce /\ ScrapeInv
        /\ ScrapeIsOneSnapshot /\ PushInv /\ PushedInv

-----------------------------------------------------------------------------
(* Nothing is published, registered or read at the start. *)
LEMMA InitIInv == Init => IInv
  <1> SUFFICES ASSUME Init PROVE IInv
    OBVIOUS
  <1> USE ExportersAssumption DEF Init, Empty, Registrars
  <1>1. Typed
    BY DEF Typed
  <1>2. HistoryInv /\ MutexInv /\ RegisteredOnce
    BY DEF HistoryInv, MutexInv, RegisteredOnce
  <1>3. ScrapeInv /\ ScrapeIsOneSnapshot
    BY DEF ScrapeInv, ScrapeIsOneSnapshot, SeriesOf
  <1>4. PushInv /\ PushedInv
    BY DEF PushInv, PushedInv, Observed
  <1>5. QED
    BY <1>1, <1>2, <1>3, <1>4 DEF IInv

-----------------------------------------------------------------------------
(* Every action keeps the types. *)
LEMMA NextTyped == Typed /\ [Next]_vars => Typed'
  <1> SUFFICES ASSUME Typed, [Next]_vars PROVE Typed'
    OBVIOUS
  <1> USE ExportersAssumption DEF Typed, ensureVars, scrapeVars, pushVars
  <1>1. ASSUME NEW names \in SUBSET Metrics, Publish(names) PROVE Typed'
    <2>1. store' \in [at : 0 .. MaxCycles, names : SUBSET Metrics]
      BY <1>1 DEF Publish
    <2>2. 0 .. store'.at = (0 .. store.at) \cup {store'.at}
      BY <1>1 DEF Publish
    <2>3. history' \in [0 .. store'.at -> SUBSET Metrics]
      BY <1>1, <2>2 DEF Publish
    <2>4. pc' \in [Registrars -> {"off", "due", "run", "out"}] /\ pc'["sync"] # "out"
      BY <1>1 DEF Publish, Registrars
    <2>5. QED
      BY <1>1, <2>1, <2>3, <2>4 DEF Publish
  <1>2. CASE SyncTick
    BY <1>2 DEF SyncTick, Registrars
  <1>3. ASSUME NEW e \in Registrars, Ensure(e) PROVE Typed'
    BY <1>3 DEF Ensure, NamesToEnsure, Registrars
  <1>4. ASSUME NEW e \in Registrars, NEW n \in Metrics, Check(e, n) PROVE Typed'
    BY <1>4 DEF Check
  <1>5. ASSUME NEW e \in Registrars, Create(e) PROVE Typed'
    <2>1. making[e] \in Metrics
      BY <1>5 DEF Create
    <2>2. instruments' \in [Metrics -> Nat] /\ registered' \subseteq Metrics
      BY <1>5, <2>1 DEF Create
    <2>3. making' \in [Registrars -> Metrics \cup {Nobody}]
      BY <1>5 DEF Create
    <2>4. QED
      BY <1>5, <2>2, <2>3 DEF Create
  <1>6. ASSUME NEW e \in Registrars, Return(e) PROVE Typed'
    BY <1>6 DEF Return, AfterEnsure, Registrars
  <1>7. CASE ScrapeStart
    <2>1. scrape' \in [on : BOOLEAN, since : Nat, left : SUBSET Metrics,
                       view : [at : 0 .. MaxCycles, names : SUBSET Metrics],
                       out : SUBSET (Metrics \X Nat)]
      BY <1>7 DEF ScrapeStart
    <2>2. QED
      BY <1>7, <2>1 DEF ScrapeStart
  <1>8. ASSUME NEW n \in Metrics, ScrapeEmit(n) PROVE Typed'
    <2>1. ({n} \cap View.names) \X {View.at} \in SUBSET (Metrics \X Nat)
      BY DEF View
    <2>2. scrape' \in [on : BOOLEAN, since : Nat, left : SUBSET Metrics,
                       view : [at : 0 .. MaxCycles, names : SUBSET Metrics],
                       out : SUBSET (Metrics \X Nat)]
      BY <1>8, <2>1 DEF ScrapeEmit
    <2>3. QED
      BY <1>8, <2>2 DEF ScrapeEmit
  <1>9. CASE ScrapeEnd
    <2>1. scrape' \in [on : BOOLEAN, since : Nat, left : SUBSET Metrics,
                       view : [at : 0 .. MaxCycles, names : SUBSET Metrics],
                       out : SUBSET (Metrics \X Nat)]
      BY <1>9 DEF ScrapeEnd
    <2>2. scraped' \in [since : Nat, out : SUBSET (Metrics \X Nat)]
      BY <1>9 DEF ScrapeEnd
    <2>3. QED
      BY <1>9, <2>1, <2>2 DEF ScrapeEnd
  <1>10. CASE PushStart
    <2>1. push' \in [on : BOOLEAN, since : Nat, read : SUBSET Metrics,
                     left : SUBSET Metrics, out : SUBSET (Metrics \X Nat)]
      BY <1>10 DEF PushStart
    <2>2. QED
      BY <1>10, <2>1 DEF PushStart
  <1>11. ASSUME NEW n \in Metrics, PushObserve(n) PROVE Typed'
    <2>1. Callback(n) \in SUBSET (Metrics \X Nat)
      BY DEF Callback, SeriesOf
    <2>2. push' \in [on : BOOLEAN, since : Nat, read : SUBSET Metrics,
                     left : SUBSET Metrics, out : SUBSET (Metrics \X Nat)]
      BY <1>11, <2>1 DEF PushObserve
    <2>3. QED
      BY <1>11, <2>2 DEF PushObserve
  <1>12. CASE PushEnd
    <2>1. push' \in [on : BOOLEAN, since : Nat, read : SUBSET Metrics,
                     left : SUBSET Metrics, out : SUBSET (Metrics \X Nat)]
      BY <1>12 DEF PushEnd
    <2>2. pushed' \in [since : Nat, until : Nat, read : SUBSET Metrics,
                       out : SUBSET (Metrics \X Nat)]
      BY <1>12 DEF PushEnd
    <2>3. QED
      BY <1>12, <2>1, <2>2 DEF PushEnd
  <1>13. CASE UNCHANGED vars
    BY <1>13 DEF vars
  <1>14. QED
    BY <1>1, <1>2, <1>3, <1>4, <1>5, <1>6, <1>7, <1>8, <1>9, <1>10, <1>11, <1>12,
       <1>13 DEF Next, EnsureStep, Scrape, Push

(* Registration: the mutex admits one goroutine, so a name that is checked and  *)
(* found without an instrument still has none when one is created.              *)
LEMMA NextRegistered ==
  Typed /\ MutexInv /\ RegisteredOnce /\ [Next]_vars => (MutexInv /\ RegisteredOnce)'
  <1> SUFFICES ASSUME Typed, MutexInv, RegisteredOnce, [Next]_vars
               PROVE  (MutexInv /\ RegisteredOnce)'
    OBVIOUS
  <1> USE ExportersAssumption
      DEF Typed, MutexInv, RegisteredOnce, ensureVars, scrapeVars, pushVars
  <1>1. ASSUME NEW names \in SUBSET Metrics, Publish(names)
        PROVE  (MutexInv /\ RegisteredOnce)'
    <2>1. \A e \in Registrars : pc'[e] = "run" <=> pc[e] = "run"
      <3>1. CASE store.at = 0
        <4>1. pc["boot"] # "run"
          BY <1>1, <3>1 DEF Publish
        <4>2. QED
          BY <1>1, <3>1, <4>1 DEF Publish, Registrars
      <3>2. CASE store.at # 0
        BY <1>1, <3>2 DEF Publish
      <3>3. QED
        BY <3>1, <3>2
    <2>2. QED
      BY <1>1, <2>1 DEF Publish
  <1>2. CASE SyncTick
    BY <1>2 DEF SyncTick, Registrars
  <1>3. ASSUME NEW e \in Registrars, Ensure(e) PROVE (MutexInv /\ RegisteredOnce)'
    BY <1>3 DEF Ensure, MutexFree
  <1>4. ASSUME NEW e \in Registrars, NEW n \in Metrics, Check(e, n)
        PROVE  (MutexInv /\ RegisteredOnce)'
    BY <1>4 DEF Check
  <1>5. ASSUME NEW e \in Registrars, Create(e) PROVE (MutexInv /\ RegisteredOnce)'
    <2> DEFINE n == making[e]
    <2>1. n \in Metrics /\ n \notin registered /\ pc[e] = "run"
      BY <1>5 DEF Create
    <2>2. \A d \in Registrars : d # e => making[d] = Nobody
      BY <2>1
    <2>3. MutexInv'
      BY <1>5, <2>1, <2>2 DEF Create
    <2>4. RegisteredOnce'
      BY <1>5, <2>1 DEF Create
    <2>5. QED
      BY <2>3, <2>4
  <1>6. ASSUME NEW e \in Registrars, Return(e) PROVE (MutexInv /\ RegisteredOnce)'
    <2>1. AfterEnsure(e) # "run"
      BY DEF AfterEnsure
    <2>2. QED
      BY <1>6, <2>1 DEF Return
  <1>7. CASE Scrape
    BY <1>7 DEF Scrape, ScrapeStart, ScrapeEmit, ScrapeEnd
  <1>8. CASE Push
    BY <1>8 DEF Push, PushStart, PushObserve, PushEnd
  <1>9. CASE UNCHANGED vars
    BY <1>9 DEF vars
  <1>10. QED
    BY <1>1, <1>2, <1>3, <1>4, <1>5, <1>6, <1>7, <1>8, <1>9 DEF Next, EnsureStep

-----------------------------------------------------------------------------
(* The history of what was published is never rewritten. *)
LEMMA HistoryGrows ==
  ASSUME Typed, HistoryInv, [Next]_vars
  PROVE  /\ store'.at \in Nat /\ store.at \in Nat /\ store.at <= store'.at
         /\ \A k \in 0 .. store.at : history'[k] = history[k]
         /\ HistoryInv'
  <1> USE ExportersAssumption DEF Typed, HistoryInv, ensureVars, scrapeVars, pushVars
  <1>1. ASSUME NEW names \in SUBSET Metrics, Publish(names)
        PROVE  /\ store'.at = store.at + 1
               /\ \A k \in 0 .. store.at : history'[k] = history[k]
               /\ store'.names = history'[store'.at]
    BY <1>1 DEF Publish
  <1>2. ASSUME UNCHANGED <<store, history>>
        PROVE  store' = store /\ history' = history
    BY <1>2
  <1>3. \/ \E names \in SUBSET Metrics : Publish(names)
        \/ UNCHANGED <<store, history>>
    BY DEF Next, vars, SyncTick, EnsureStep, Ensure, Check, Create, Return, Scrape,
           ScrapeStart, ScrapeEmit, ScrapeEnd, Push, PushStart, PushObserve, PushEnd
  <1>4. QED
    BY <1>1, <1>2, <1>3

(* A scrape keeps to the snapshot it loaded. *)
LEMMA NextScrape ==
  ASSUME Typed, HistoryInv, ScrapeInv, ScrapeIsOneSnapshot, [Next]_vars
  PROVE  (ScrapeInv /\ ScrapeIsOneSnapshot)'
  <1> USE ExportersAssumption DEF ScrapeInv, ensureVars, scrapeVars, pushVars
  <1>1. /\ store'.at \in Nat /\ store.at \in Nat /\ store.at <= store'.at
        /\ \A k \in 0 .. store.at : history'[k] = history[k]
    BY HistoryGrows
  <1>2. /\ scrape.since \in Nat /\ scraped.since \in Nat /\ scrape.view.at \in Nat
        /\ scrape.view.at \in 0 .. store.at
    BY DEF Typed
  <1>3. ASSUME UNCHANGED scrape PROVE ScrapeInv'
    BY <1>1, <1>2, <1>3
  <1>4. ASSUME UNCHANGED scraped PROVE ScrapeIsOneSnapshot'
    <2>1. PICK k \in scraped.since .. store.at :
                 scraped.out = SeriesOf([at |-> k, names |-> history[k]])
      BY DEF ScrapeIsOneSnapshot
    <2>2. k \in scraped.since .. store'.at /\ history'[k] = history[k]
      BY <1>1, <1>2
    <2>3. QED
      BY <1>4, <2>1, <2>2 DEF ScrapeIsOneSnapshot
  <1>5. CASE ScrapeStart
    <2>1. ScrapeInv'
      BY <1>5, <1>1 DEF ScrapeStart, Typed, HistoryInv
    <2>2. QED
      BY <1>4, <1>5, <2>1 DEF ScrapeStart
  <1>6. ASSUME NEW n \in Metrics, ScrapeEmit(n)
        PROVE  (ScrapeInv /\ ScrapeIsOneSnapshot)'
    <2>1. /\ scrape'.since = scrape.since /\ scrape'.view = scrape.view
          /\ scrape'.left = scrape.left \ {n}
          /\ scrape'.out = scrape.out \cup ({n} \cap scrape.view.names) \X {scrape.view.at}
      BY <1>6 DEF ScrapeEmit, View, Typed
    <2>2. n \in scrape.view.names /\ n \in scrape.left
      BY <1>6 DEF ScrapeEmit
    <2>3. scrape'.out = (scrape.view.names \ scrape'.left) \X {scrape.view.at}
      BY <2>1, <2>2
    <2>4. store' = store /\ history' = history
      BY <1>6 DEF ScrapeEmit
    <2>5. ScrapeInv'
      BY <2>1, <2>3, <2>4
    <2>6. QED
      BY <1>4, <1>6, <2>5 DEF ScrapeEmit
  <1>7. CASE ScrapeEnd
    <2>1. ScrapeInv'
      BY <1>7 DEF ScrapeEnd, Typed
    <2>2. scraped'.out = scrape.view.names \X {scrape.view.at} /\ scraped'.since = scrape.since
      BY <1>7 DEF ScrapeEnd
    <2>3. scrape.view.at \in scraped'.since .. store'.at
      BY <1>1, <1>2, <2>2
    <2>4. scraped'.out = SeriesOf([at |-> scrape.view.at, names |-> history'[scrape.view.at]])
      BY <1>1, <1>2, <2>2 DEF SeriesOf
    <2>5. QED
      BY <2>1, <2>3, <2>4 DEF ScrapeIsOneSnapshot
  <1>8. \/ UNCHANGED <<scrape, scraped>>
        \/ ScrapeStart \/ (\E n \in Metrics : ScrapeEmit(n)) \/ ScrapeEnd
    BY DEF Next, vars, Publish, SyncTick, EnsureStep, Ensure, Check, Create, Return,
           Scrape, Push, PushStart, PushObserve, PushEnd
  <1>9. QED
    BY <1>3, <1>4, <1>5, <1>6, <1>7, <1>8

-----------------------------------------------------------------------------
(* What was observed stays right as snapshots are added. *)
LEMMA ObservedGrows ==
  ASSUME NEW h, NEW g, NEW a \in Nat, NEW b \in Nat, NEW c \in Nat, b <= c,
         \A k \in 0 .. b : g[k] = h[k],
         NEW done, NEW out, Observed(h, a, b, done, out)
  PROVE  Observed(g, a, c, done, out)
  <1>1. a .. b \subseteq 0 .. b /\ a .. b \subseteq a .. c
    OBVIOUS
  <1>2. \A s \in out : s[2] \in a .. c /\ s[1] \in g[s[2]] /\ s[1] \in done
    <2> TAKE s \in out
    <2>1. s[2] \in a .. b /\ s[1] \in h[s[2]] /\ s[1] \in done
      BY DEF Observed
    <2>2. g[s[2]] = h[s[2]]
      BY <1>1, <2>1
    <2>3. QED
      BY <1>1, <2>1, <2>2
  <1>3. \A s, t \in out : s[1] = t[1] => s = t
    BY DEF Observed
  <1>4. ASSUME NEW n \in done, \A k \in a .. c : n \in g[k]
        PROVE  \E s \in out : s[1] = n
    <2>1. \A k \in a .. b : n \in h[k]
      BY <1>1, <1>4
    <2>2. QED
      BY <2>1 DEF Observed
  <1>5. QED
    BY <1>2, <1>3, <1>4 DEF Observed

(* A callback observes the current snapshot, once for its name. *)
LEMMA ObservedMore ==
  ASSUME NEW h, NEW a \in Nat, NEW b \in Nat, a <= b, NEW done, NEW out, NEW n,
         n \notin done, Observed(h, a, b, done, out),
         NEW new, new = {<<m, b>> : m \in h[b] \cap {n}}
  PROVE  Observed(h, a, b, done \cup {n}, out \cup new)
  <1>1. \A s \in new : s = <<n, b>> /\ n \in h[b]
    OBVIOUS
  <1>2. n \in h[b] => <<n, b>> \in new
    OBVIOUS
  <1>3. b \in a .. b
    OBVIOUS
  <1>4. \A s \in out : s[1] # n
    BY DEF Observed
  <1>5. \A s \in out \cup new :
           s[2] \in a .. b /\ s[1] \in h[s[2]] /\ s[1] \in done \cup {n}
    BY <1>1, <1>3 DEF Observed
  <1>6. \A s, t \in out \cup new : s[1] = t[1] => s = t
    BY <1>1, <1>4 DEF Observed
  <1>7. ASSUME NEW m \in done \cup {n}, \A k \in a .. b : m \in h[k]
        PROVE  \E s \in out \cup new : s[1] = m
    <2>1. CASE m = n
      <3>1. <<n, b>> \in new
        BY <1>2, <1>3, <1>7, <2>1
      <3>2. <<n, b>> \in out \cup new
        BY <3>1
      <3>3. <<n, b>>[1] = m
        BY <2>1
      <3>4. QED
        BY <3>2, <3>3
    <2>2. CASE m \in done
      BY <1>7, <2>2 DEF Observed
    <2>3. QED
      BY <2>1, <2>2
  <1>8. QED
    BY <1>5, <1>6, <1>7 DEF Observed

(* A push observes snapshots of its window only, and misses nothing that stays. *)
LEMMA NextPush ==
  ASSUME Typed, HistoryInv, PushInv, PushedInv, [Next]_vars
  PROVE  (PushInv /\ PushedInv)'
  <1> USE DEF ensureVars, scrapeVars, pushVars
  <1>1. /\ store'.at \in Nat /\ store.at \in Nat /\ store.at <= store'.at
        /\ \A k \in 0 .. store.at : history'[k] = history[k]
    BY HistoryGrows
  <1>2. push.since \in Nat /\ pushed.since \in Nat /\ pushed.until \in Nat
    BY DEF Typed
  <1>3. ASSUME UNCHANGED push PROVE PushInv'
    <2>1. Observed(history', push.since, store'.at, push.read \ push.left, push.out)
      BY <1>1, <1>2, ObservedGrows DEF PushInv
    <2>2. QED
      BY <1>1, <1>2, <1>3, <2>1 DEF PushInv
  <1>4. ASSUME UNCHANGED pushed PROVE PushedInv'
    <2>1. \A k \in 0 .. pushed.until : history'[k] = history[k]
      BY <1>1, <1>2 DEF PushedInv
    <2>2. Observed(history', pushed.since, pushed.until, pushed.read, pushed.out)
      BY <1>2, <2>1, ObservedGrows DEF PushedInv
    <2>3. QED
      BY <1>1, <1>2, <1>4, <2>2 DEF PushedInv
  <1>5. CASE PushStart
    <2>1. PushInv'
      BY <1>5, <1>1 DEF PushStart, PushInv, Observed
    <2>2. QED
      BY <1>4, <1>5, <2>1 DEF PushStart
  <1>6. ASSUME NEW n \in Metrics, PushObserve(n) PROVE (PushInv /\ PushedInv)'
    <2>1. /\ push'.since = push.since /\ push'.read = push.read
          /\ push'.left = push.left \ {n} /\ push'.out = push.out \cup Callback(n)
      BY <1>6 DEF PushObserve, Typed
    <2>2. n \in push.left /\ push.left \subseteq push.read /\ push.since <= store.at
      BY <1>6 DEF PushObserve, PushInv
    <2>3. store' = store /\ history' = history
      BY <1>6 DEF PushObserve
    <2>4. Callback(n) = {<<m, store.at>> : m \in history[store.at] \cap {n}}
      BY DEF Callback, SeriesOf, HistoryInv
    <2>5. push'.read \ push'.left = (push.read \ push.left) \cup {n}
      BY <2>1, <2>2
    <2>6. Observed(history, push.since, store.at, (push.read \ push.left) \cup {n},
                   push.out \cup Callback(n))
      <3>1. n \notin push.read \ push.left
        BY <2>2
      <3>2. Observed(history, push.since, store.at, push.read \ push.left, push.out)
        BY DEF PushInv
      <3>3. QED
        BY <1>1, <1>2, <2>2, <2>4, <3>1, <3>2, ObservedMore
    <2>7. PushInv'
      BY <2>1, <2>2, <2>3, <2>5, <2>6 DEF PushInv
    <2>8. QED
      BY <1>4, <1>6, <2>7 DEF PushObserve
  <1>7. CASE PushEnd
    <2>1. /\ store' = store /\ history' = history /\ push.left = {}
          /\ push' = [push EXCEPT !.on = FALSE]
          /\ pushed' = [since |-> push.since, until |-> store.at, read |-> push.read,
                        out |-> push.out]
      BY <1>7 DEF PushEnd
    <2>2. PushInv'
      BY <2>1 DEF PushInv, Typed
    <2>3. push.read \ push.left = push.read
      BY <2>1
    <2>4. PushedInv'
      BY <1>1, <2>1, <2>3 DEF PushInv, PushedInv
    <2>5. QED
      BY <2>2, <2>4
  <1>8. \/ UNCHANGED <<push, pushed>>
        \/ PushStart \/ (\E n \in Metrics : PushObserve(n)) \/ PushEnd
    BY DEF Next, vars, Publish, SyncTick, EnsureStep, Ensure, Check, Create, Return,
           Push, Scrape, ScrapeStart, ScrapeEmit, ScrapeEnd
  <1>9. QED
    BY <1>3, <1>4, <1>5, <1>6, <1>7, <1>8

-----------------------------------------------------------------------------
(* Registration, scrapes and pushes keep their invariants whatever the          *)
(* collection loop publishes meanwhile (otlp.go, prometheus.go).                *)
THEOREM ExportersInductive == Spec => []IInv
  <1>1. IInv /\ [Next]_vars => IInv'
    BY NextTyped, NextRegistered, HistoryGrows, NextScrape, NextPush DEF IInv
  <1>2. QED
    BY InitIInv, <1>1, PTL DEF Spec

(* Every variable keeps its type, and nothing shown is newer than the store     *)
(* (EnsureInstruments, Collect, the callbacks).                                 *)
THEOREM ExportersTypeOK == Spec => []TypeOK
  <1>1. IInv => TypeOK
    <2> SUFFICES ASSUME IInv PROVE TypeOK
      OBVIOUS
    <2>1. pc["boot"] \in {"off", "due", "run", "out"} /\ pc["sync"] \in {"off", "due", "run"}
      BY DEF IInv, Typed, Registrars
    <2>2. scrape.out \subseteq Metrics \X (0 .. store.at)
      <3>1. scrape.view.at \in 0 .. store.at /\ scrape.view.names \subseteq Metrics
        BY ExportersAssumption DEF IInv, Typed, ScrapeInv
      <3>2. QED
        BY <3>1 DEF IInv, ScrapeInv
    <2>3. push.out \subseteq Metrics \X (0 .. store.at)
      <3>1. \A s \in push.out : s[2] \in 0 .. store.at
        BY DEF IInv, Typed, PushInv, Observed
      <3>2. push.out \subseteq Metrics \X Nat
        BY DEF IInv, Typed
      <3>3. QED
        BY <3>1, <3>2
    <2>4. QED
      BY <2>1, <2>2, <2>3 DEF IInv, Typed, TypeOK
  <1>2. QED
    BY ExportersInductive, <1>1, PTL

(* A scrape shows one whole published snapshot, at least as new as the one      *)
(* current when it began (Collect loads the store once).                        *)
THEOREM ScrapesAreWhole == Spec => []ScrapeIsOneSnapshot
  <1>1. IInv => ScrapeIsOneSnapshot
    BY DEF IInv
  <1>2. QED
    BY ExportersInductive, <1>1, PTL

(* No metric ever has two instruments (the mutex of EnsureInstruments).         *)
THEOREM NamesAreRegisteredOnce == Spec => []RegisteredOnce
  <1>1. IInv => RegisteredOnce
    BY DEF IInv
  <1>2. QED
    BY ExportersInductive, <1>1, PTL

(* A push sends only what was current while it ran, once, and all that stayed   *)
(* (each callback loads the store).                                             *)
THEOREM PushesAreFresh == Spec => []PushIsFresh
  <1>1. IInv => PushIsFresh
    BY DEF IInv, PushedInv, Observed, PushIsFresh
  <1>2. QED
    BY ExportersInductive, <1>1, PTL
=============================================================================
