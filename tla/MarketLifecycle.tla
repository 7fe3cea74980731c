---------------------------- MODULE MarketLifecycle ----------------------------
(****************************************************************************)
(* The lives of the markets as everything outside the program sees them:    *)
(* each is created once, and settled once, with a verdict or without.       *)
(****************************************************************************)
CONSTANTS Markets, Outcomes
VARIABLES phase, verdict

vars == <<phase, verdict>>

Becomes(m, p) == phase' = [phase EXCEPT ![m] = p]

Init == /\ phase = [m \in Markets |-> "NotCreated"]
        /\ verdict \in [Markets -> Outcomes]

Create(m) == phase[m] = "NotCreated" /\ Becomes(m, "Open") /\ UNCHANGED verdict

\* A verdict nobody staked on refunds too, and keeps the outcome.
Settle(m) == /\ phase[m] = "Open"
             /\ Becomes(m, "Resolved") \/ Becomes(m, "Refunded")
             /\ \E o \in Outcomes : verdict' = [verdict EXCEPT ![m] = o]

Cancel(m) == phase[m] = "Open" /\ Becomes(m, "Refunded") /\ UNCHANGED verdict

Next == \E m \in Markets : Create(m) \/ Settle(m) \/ Cancel(m)

Spec == Init /\ [][Next]_vars
=============================================================================
