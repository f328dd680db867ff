----------------------------- MODULE LaunchCredit -----------------------------
(***************************************************************************)
(* What the credit bookkeeping of FluxSwarm promises, without the threads: *)
(* a launch costs its owner one credit; the credit is either kept, when    *)
(* the launch was delivered, or returned once, to the account that paid;   *)
(* a balance changes in no other way than by credits bought.               *)
(***************************************************************************)
EXTENDS Naturals

CONSTANTS Users, Launches, NoUser, InitCredits

VARIABLES
    credits,    \* balance of every account
    bought,     \* credits every account has bought
    owner,      \* who paid for a launch
    stage       \* what became of the launch's credit

Init ==
    /\ credits = [u \in Users |-> InitCredits]
    /\ bought = [u \in Users |-> 0]
    /\ owner = [l \in Launches |-> NoUser]
    /\ stage = [l \in Launches |-> "free"]

Buy(u) ==
    /\ credits' = [credits EXCEPT ![u] = @ + 1]
    /\ bought' = [bought EXCEPT ![u] = @ + 1]
    /\ UNCHANGED <<owner, stage>>

Charge(u, l) ==
    /\ stage[l] = "free"
    /\ credits[u] > 0
    /\ credits' = [credits EXCEPT ![u] = @ - 1]
    /\ owner' = [owner EXCEPT ![l] = u]
    /\ stage' = [stage EXCEPT ![l] = "charged"]
    /\ UNCHANGED bought

Deliver(l) ==
    /\ stage[l] = "charged"
    /\ stage' = [stage EXCEPT ![l] = "delivered"]
    /\ UNCHANGED <<credits, bought, owner>>

Refund(l) ==
    /\ stage[l] = "charged"
    /\ credits' = [credits EXCEPT ![owner[l]] = @ + 1]
    /\ stage' = [stage EXCEPT ![l] = "refunded"]
    /\ UNCHANGED <<bought, owner>>

Next ==
    \/ \E u \in Users : Buy(u) \/ \E l \in Launches : Charge(u, l)
    \/ \E l \in Launches : Deliver(l) \/ Refund(l)

vars == <<credits, bought, owner, stage>>
Spec == Init /\ [][Next]_vars

=============================================================================
