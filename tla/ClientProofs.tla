---------------------------- MODULE ClientProofs ----------------------------
(***************************************************************************)
(* Proofs about Client, for any callers, retry count and number of calls:  *)
(* type correctness, and that the client with its retries and backoffs     *)
(* implements Doer, where a call has one end and counts at most once.      *)
(***************************************************************************)
EXTENDS Client, TLAPS

(* A call waits between two attempts only with a retry left to make *)
BackoffInv ==
    \A c \in Callers : pc[c] = "backoff" =>
        attempt[c] < RetryCount /\ reply[c] \in Transient

IInv == TypeOK /\ BackoffInv

(* No caller waits at the start. *)
LEMMA InitIInv == Init => IInv
  <1> SUFFICES ASSUME Init PROVE IInv
    OBVIOUS
  <1>1. 0 \in 0 .. RetryCount /\ 0 \in 0 .. MaxCalls
    BY ClientAssumption
  <1>2. TypeOK
    BY <1>1 DEF Init, TypeOK, Replies
  <1>3. BackoffInv
    BY DEF Init, BackoffInv
  <1> QED
    BY <1>2, <1>3 DEF IInv

(* Every step keeps the inductive invariant. *)
LEMMA NextIInv == IInv /\ [Next]_vars => IInv'
  <1> SUFFICES ASSUME IInv, [Next]_vars PROVE IInv'
    OBVIOUS
  <1> USE ClientAssumption DEF IInv, TypeOK, BackoffInv
  <1>1. ASSUME NEW c \in Callers, Issue(c) PROVE IInv'
    BY <1>1 DEF Issue, Sent
  <1>2. ASSUME NEW c \in Callers, NEW r \in Replies, End(c, r) PROVE IInv'
    <2>1. errors' \in Nat
      BY <1>2 DEF End
    <2>2. OutcomeOf(r) \in {"ok", "garbled", "absent", "failed"}
      BY DEF OutcomeOf
    <2> QED
      BY <1>2, <2>1, <2>2 DEF End
  <1>3. ASSUME NEW c \in Callers, NEW r \in Replies, Backoff(c, r) PROVE IInv'
    BY <1>3 DEF Backoff, WillRetry, Retry, Transient
  <1>4. ASSUME NEW c \in Callers, Retransmit(c) PROVE IInv'
    BY <1>4 DEF Retransmit, Sent, NextAttempt
  <1>5. ASSUME NEW c \in Callers, Step(c) PROVE IInv'
    BY <1>2, <1>3, <1>4, <1>5 DEF Step, Settle, CutBackoff, Replies
  <1>6. CASE EndContext \/ NextPoll
    BY <1>6 DEF EndContext, NextPoll
  <1>7. CASE UNCHANGED vars
    BY <1>7 DEF vars
  <1> QED
    BY <1>1, <1>5, <1>6, <1>7 DEF Next, Rest

(* A caller that waits has a retry left and a transient reply in hand (the      *)
(* retry settings of NewClient).                                                *)
THEOREM ClientInductive == Spec => []IInv
  BY InitIInv, NextIInv, PTL DEF Spec

(* Every variable of the client keeps its type; retries stay within RetryCount. *)
THEOREM ClientTypeOK == Spec => []TypeOK
  <1>1. IInv => TypeOK
    BY DEF IInv
  <1> QED
    BY <1>1, ClientInductive, PTL

-----------------------------------------------------------------------------
(* Transient replies are retried until the budget or the context ends, no     *)
(* other reply ever is (the condition of AddRetryCondition).                  *)
THEOREM ClientRetriesTransientOnly == Spec => RetriesTransientOnly
  <1> DEFINE Allowed ==
        \A c \in Callers :
          /\ pc[c] = "backoff" /\ pc'[c] # "backoff" => reply[c] \in Transient
          /\ pc[c] # "idle" /\ pc'[c] = "idle" /\ reply'[c] \in Transient =>
                attempt[c] = RetryCount \/ ctxDone
  <1>1. ASSUME IInv, [Next]_vars PROVE [Allowed]_vars
    <2>1. SUFFICES ASSUME Next, NEW c \in Callers
                   PROVE  /\ pc[c] = "backoff" => reply[c] \in Transient
                          /\ pc[c] # "idle" /\ pc'[c] = "idle" /\ reply'[c] \in Transient =>
                                attempt[c] = RetryCount \/ ctxDone
      BY <1>1
    <2>2. pc[c] = "backoff" => reply[c] \in Transient
      BY <1>1 DEF IInv, BackoffInv
    <2>3. ASSUME NEW d \in Callers, Step(d), pc[c] # "idle", pc'[c] = "idle",
                 reply'[c] \in Transient
          PROVE  attempt[c] = RetryCount \/ ctxDone
      <3>1. ASSUME NEW r \in Replies, Settle(d, r)
            PROVE  attempt[c] = RetryCount \/ ctxDone
        <4>1. c = d /\ reply'[c] = r
          BY <1>1, <2>3, <3>1 DEF Settle, End, IInv, TypeOK
        <4>2. Retry(r)
          BY <2>3, <4>1 DEF Retry, Transient
        <4> QED
          BY <1>1, <3>1, <4>1, <4>2, ClientAssumption
             DEF Settle, WillRetry, IInv, TypeOK
      <3>2. CASE CutBackoff(d)
        BY <3>2 DEF CutBackoff
      <3>3. ~(\E r \in Replies : Backoff(d, r)) /\ ~Retransmit(d)
        BY <1>1, <2>3 DEF Backoff, Retransmit, Sent, IInv, TypeOK
      <3> QED
        BY <2>3, <3>1, <3>2, <3>3 DEF Step
    <2>4. ASSUME NEW d \in Callers, Issue(d) PROVE ~(pc[c] # "idle" /\ pc'[c] = "idle")
      BY <1>1, <2>4 DEF Issue, Sent, IInv, TypeOK
    <2>5. CASE EndContext \/ NextPoll \/ Rest
      BY <2>2, <2>5 DEF EndContext, NextPoll, Rest, vars
    <2> QED
      BY <2>1, <2>2, <2>3, <2>4, <2>5 DEF Next
  <1> QED
    BY <1>1, ClientInductive, PTL DEF Spec, RetriesTransientOnly

(* A call has one end and counts there or nowhere: the client implements Doer. *)
THEOREM ClientImplementsDoer == Spec => ImplementsDoer
  <1> DEFINE Busy == {c \in Callers : pc[c] # "idle"}
  <1>1. Init => Abstract!Init
    BY DEF Init, Abstract!Init, Abstract!Outcomes
  <1>2. ASSUME IInv, [Next]_vars PROVE [Abstract!Next]_(Abstract!doerVars)
    <2> USE <1>2 DEF IInv, TypeOK
    <2>1. ASSUME NEW c \in Callers, Issue(c) PROVE Abstract!Call(c)
      <3>1. Busy' = Busy \cup {c} /\ c \notin Busy
        BY <2>1 DEF Issue, Sent
      <3> QED
        BY <2>1, <3>1 DEF Issue, Abstract!Call
    <2>2. ASSUME NEW c \in Callers, NEW r \in Replies, pc[c] # "idle", End(c, r)
          PROVE  Abstract!Return(c)
      <3>1. Busy' = Busy \ {c} /\ c \in Busy
        BY <2>2 DEF End
      <3>2. OutcomeOf(r) \in Abstract!Outcomes
        BY DEF OutcomeOf, Abstract!Outcomes
      <3>3. Counted(optional[c], r) <=> Abstract!Counted(optional[c], OutcomeOf(r))
        BY DEF Counted, OutcomeOf, Abstract!Counted, Replies
      <3> QED
        BY <2>2, <3>1, <3>2, <3>3 DEF End, Abstract!Return
    <2>3. ASSUME NEW c \in Callers, Step(c)
          PROVE  Abstract!Return(c) \/ UNCHANGED Abstract!doerVars
      <3>1. ASSUME NEW r \in Replies, Settle(c, r) PROVE Abstract!Return(c)
        BY <2>2, <3>1 DEF Settle, Arrives
      <3>2. CASE CutBackoff(c)
        BY <2>2, <3>2 DEF CutBackoff, Replies
      <3>3. CASE Retransmit(c) \/ \E r \in Replies : Backoff(c, r)
        <4>1. Busy' = Busy
          BY <3>3 DEF Retransmit, Sent, Backoff, Arrives
        <4> QED
          BY <3>3, <4>1 DEF Retransmit, Backoff, Abstract!doerVars
      <3> QED
        BY <2>3, <3>1, <3>2, <3>3 DEF Step
    <2>4. CASE EndContext \/ NextPoll \/ UNCHANGED vars
      BY <2>4 DEF EndContext, NextPoll, vars, Abstract!doerVars
    <2> QED
      BY <2>1, <2>3, <2>4 DEF Next, Rest, Abstract!Next
  <1> QED
    BY <1>1, <1>2, ClientInductive, PTL DEF Spec, ImplementsDoer, Abstract!Spec
=============================================================================
