------------------------------- MODULE Client -------------------------------
(***************************************************************************)
(* One PVE API client (client.go) used by several goroutines of a target's *)
(* poll.  A logical call is up to RetryCount + 1 attempts on the wire with *)
(* a backoff between them; the poll's context may end at any moment.  The  *)
(* attempts and the backoff are resty's, configured by NewClient; what     *)
(* counts and what is returned is decided by get.                          *)
(***************************************************************************)
EXTENDS Naturals

CONSTANTS
    Callers,      \* goroutines that share the client
    RetryCount,   \* retryCount of client.go:19
    MaxCalls      \* bound: calls issued

ASSUME ClientAssumption == RetryCount \in Nat /\ MaxCalls \in Nat

(* What an attempt brings: a transport error, or a status and a body.  "refused" *)
(* is any 4xx but 403, 404 and 429, "broken" any 5xx, and "garbled" a 200 whose  *)
(* body is not what the caller decodes.                                          *)
Replies == {"transport", "ok", "garbled", "absent", "refused", "busy", "broken"}

VARIABLES
    pc,        \* of each caller: idle, wire, dead (sent with a context done), backoff
    attempt,   \* retries made so far in the caller's call
    reply,     \* what the caller's last attempt brought
    optional,  \* the caller's last call is a GetOptional
    outcome,   \* how the caller's last call ended
    errors,    \* requestErrors
    ctxDone,   \* the poll's context is done
    calls      \* calls issued

vars == <<pc, attempt, reply, optional, outcome, errors, ctxDone, calls>>

-----------------------------------------------------------------------------
(* The condition given to AddRetryCondition: 429, 5xx and transport errors *)
Retry4xx(r) == r \in {"transport", "busy", "broken", "absent", "refused"}
Retry(r) == r \in {"transport", "busy", "broken"}

(* isExpectedAbsence, and what get adds to requestErrors and returns *)
CountedAbsence(opt, r) == r \notin {"ok", "garbled"}
Counted(opt, r) == r \notin {"ok", "garbled"} /\ ~(opt /\ r = "absent")

OutcomeOf(r) == IF r \in {"ok", "garbled", "absent"} THEN r ELSE "failed"

(* An attempt sent in a context already done never reaches the server *)
Sent == IF ctxDone THEN "dead" ELSE "wire"

NextAttemptStuck(k) == k
NextAttempt(k) == k + 1

Init ==
    /\ pc = [c \in Callers |-> "idle"]
    /\ attempt = [c \in Callers |-> 0]
    /\ reply = [c \in Callers |-> "ok"]
    /\ optional = [c \in Callers |-> FALSE]
    /\ outcome = [c \in Callers |-> "ok"]
    /\ errors = 0
    /\ ctxDone = FALSE
    /\ calls = 0

(* Get or GetOptional: the first attempt *)
Issue(c) ==
    /\ pc[c] = "idle"
    /\ calls < MaxCalls
    /\ calls' = calls + 1
    /\ pc' = [pc EXCEPT ![c] = Sent]
    /\ attempt' = [attempt EXCEPT ![c] = 0]
    /\ \E opt \in BOOLEAN : optional' = [optional EXCEPT ![c] = opt]
    /\ UNCHANGED <<reply, outcome, errors, ctxDone>>

(* get returns for a call whose last attempt brought r *)
End(c, r) ==
    /\ pc' = [pc EXCEPT ![c] = "idle"]
    /\ reply' = [reply EXCEPT ![c] = r]
    /\ outcome' = [outcome EXCEPT ![c] = OutcomeOf(r)]
    /\ errors' = errors + (IF Counted(optional[c], r) THEN 1 ELSE 0)
    /\ UNCHANGED <<attempt, optional, ctxDone, calls>>

(* An attempt ends; one sent with its context done can only fail.  It is        *)
(* retried when the condition says so, retries are left and the context stands. *)
Arrives(c, r) ==
    /\ pc[c] \in {"wire", "dead"}
    /\ pc[c] = "dead" => r = "transport"

WillRetry(c, r) == Retry(r) /\ attempt[c] < RetryCount /\ ~ctxDone

Backoff(c, r) ==
    /\ Arrives(c, r) /\ WillRetry(c, r)
    /\ pc' = [pc EXCEPT ![c] = "backoff"]
    /\ reply' = [reply EXCEPT ![c] = r]
    /\ UNCHANGED <<attempt, optional, outcome, errors, ctxDone, calls>>

Settle(c, r) == Arrives(c, r) /\ ~WillRetry(c, r) /\ End(c, r)

(* The wait is over: the next attempt.  Beside a context that ends meanwhile,  *)
(* either case of the wait's select may be taken.                              *)
Retransmit(c) ==
    /\ pc[c] = "backoff"
    /\ pc' = [pc EXCEPT ![c] = Sent]
    /\ attempt' = [attempt EXCEPT ![c] = NextAttempt(@)]
    /\ UNCHANGED <<reply, optional, outcome, errors, ctxDone, calls>>

(* The context ends the wait, which get sees as a transport error *)
CutBackoff(c) == pc[c] = "backoff" /\ ctxDone /\ End(c, "transport")

(* The per-target timeout or a shutdown *)
EndContext ==
    /\ ~ctxDone
    /\ ctxDone' = TRUE
    /\ UNCHANGED <<pc, attempt, reply, optional, outcome, errors, calls>>

(* The next cycle polls the target under a context of its own, once every call *)
(* of this one has returned                                                    *)
NextPoll ==
    /\ ctxDone /\ calls < MaxCalls
    /\ \A c \in Callers : pc[c] = "idle"
    /\ ctxDone' = FALSE
    /\ UNCHANGED <<pc, attempt, reply, optional, outcome, errors, calls>>

Step(c) ==
    \/ \E r \in Replies : Backoff(c, r) \/ Settle(c, r)
    \/ Retransmit(c) \/ CutBackoff(c)

(* The poll needs no further call *)
Rest == (\A c \in Callers : pc[c] = "idle") /\ UNCHANGED vars

Next == (\E c \in Callers : Issue(c) \/ Step(c)) \/ EndContext \/ NextPoll \/ Rest

(* Each attempt ends by the client's 30 s timeout and each wait by its maximum *)
FairSpec == Init /\ [][Next]_vars /\ \A c \in Callers : WF_vars(Step(c))
Spec == Init /\ [][Next]_vars

-----------------------------------------------------------------------------
(* The types; no call is retried more than RetryCount times (client.go:19). *)
TypeOK ==
    /\ pc \in [Callers -> {"idle", "wire", "dead", "backoff"}]
    /\ attempt \in [Callers -> 0 .. RetryCount]
    /\ reply \in [Callers -> Replies]
    /\ optional \in [Callers -> BOOLEAN]
    /\ outcome \in [Callers -> {"ok", "garbled", "absent", "failed"}]
    /\ errors \in Nat
    /\ ctxDone \in BOOLEAN
    /\ calls \in 0 .. MaxCalls

Abstract == INSTANCE Doer WITH busy <- {c \in Callers : pc[c] # "idle"}

(* However many attempts a call takes and whatever the other callers do, it    *)
(* moves the failure counter once, when it returns, and only for an outcome    *)
(* that counts (client.go:112-141, ADR-0008).                                  *)
ImplementsDoer == Abstract!Spec

Transient == {"transport", "busy", "broken"}

(* A call ends on a transient reply only when its retries are used up or its   *)
(* context is done, and no other reply is ever retried ("never 4xx",           *)
(* client.go:65).                                                              *)
RetriesTransientOnly ==
    [][\A c \in Callers :
          /\ pc[c] = "backoff" /\ pc'[c] # "backoff" => reply[c] \in Transient
          /\ pc[c] # "idle" /\ pc'[c] = "idle" /\ reply'[c] \in Transient =>
                attempt[c] = RetryCount \/ ctxDone
      ]_vars

(* Every call returns, even from a server that only ever fails.                *)
CallReturns == \A c \in Callers : pc[c] # "idle" ~> pc[c] = "idle"
=============================================================================
