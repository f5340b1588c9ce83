---------------------------- MODULE TargetPromise ----------------------------
(***************************************************************************)
(* What Collector assumes of one target's poll: the primary call decides   *)
(* whether the target is up, later calls may only add to the failure       *)
(* counter, and the counter reported is the one at the end.                *)
(***************************************************************************)
EXTENDS Naturals

VARIABLES
    phase,     \* primary, detail, done
    errors,    \* the client's failure counter
    up,        \* pve_up of the result
    reported   \* pve_request_errors_total of the result

promiseVars == <<phase, errors, up, reported>>

Init == phase = "primary" /\ errors = 0 /\ up = FALSE /\ reported = 0

PrimaryFails ==
    /\ phase = "primary" /\ phase' = "done"
    /\ errors' \in {errors, errors + 1}
    /\ up' = FALSE /\ reported' = errors'

PrimarySucceeds ==
    phase = "primary" /\ phase' = "detail" /\ UNCHANGED <<errors, up, reported>>

DetailFails ==
    phase = "detail" /\ errors' = errors + 1 /\ UNCHANGED <<phase, up, reported>>

Finish ==
    /\ phase = "detail" /\ phase' = "done"
    /\ up' = TRUE /\ reported' = errors
    /\ UNCHANGED errors

Next == PrimaryFails \/ PrimarySucceeds \/ DetailFails \/ Finish

Spec == Init /\ [][Next]_promiseVars
=============================================================================
