-------------------------------- MODULE Doer --------------------------------
(***************************************************************************)
(* What the Doer interface of client.go promises the collectors, several   *)
(* of which call it at once: a call ends once, with one outcome, and only  *)
(* its end touches the failure counter, by at most one.  A call counts     *)
(* when it failed, except that an optional endpoint may be absent          *)
(* (ADR-0008).  A reply that does not decode is an error of the call that  *)
(* is not counted.                                                         *)
(***************************************************************************)
EXTENDS Naturals

CONSTANT Callers   \* goroutines that share one client

VARIABLES
    busy,      \* callers with a call in progress
    optional,  \* the caller's last call was a GetOptional
    outcome,   \* how the caller's last call ended
    errors     \* RequestErrors()

doerVars == <<busy, optional, outcome, errors>>

Outcomes == {"ok", "garbled", "absent", "failed"}

Counted(opt, o) == o = "failed" \/ (o = "absent" /\ ~opt)

Init ==
    /\ busy = {}
    /\ optional \in [Callers -> BOOLEAN]
    /\ outcome \in [Callers -> Outcomes]
    /\ errors = 0

Call(c) ==
    /\ c \notin busy
    /\ busy' = busy \cup {c}
    /\ \E opt \in BOOLEAN : optional' = [optional EXCEPT ![c] = opt]
    /\ UNCHANGED <<outcome, errors>>

Return(c) ==
    /\ c \in busy
    /\ busy' = busy \ {c}
    /\ \E o \in Outcomes :
          /\ outcome' = [outcome EXCEPT ![c] = o]
          /\ errors' = errors + (IF Counted(optional[c], o) THEN 1 ELSE 0)
    /\ UNCHANGED optional

Next == \E c \in Callers : Call(c) \/ Return(c)

Spec == Init /\ [][Next]_doerVars
=============================================================================
