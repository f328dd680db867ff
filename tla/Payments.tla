------------------------------ MODULE Payments ------------------------------
(***************************************************************************)
(* Paid credits of FluxSwarm.  The payment gateway sends signed events, at *)
(* least once and in any order; a webhook worker records an event, grants  *)
(* what was paid for, rewards the referrer, and answers.  Launches, their  *)
(* refunds and a switch to the free plan change the same users row from    *)
(* other threads.                                                          *)
(*                                                                         *)
(* Each action is one statement or transaction on the user database; two   *)
(* stores exist and differ in the referral reward, which only SQLite does  *)
(* under an exclusive lock (Exclusive).                                    *)
(***************************************************************************)
EXTENDS Naturals, FiniteSetsExt

CONSTANTS
    Users,          \* registered accounts
    NoUser,         \* no referrer
    Txns,           \* transactions of the gateway
    Workers,        \* webhook requests served at the same time
    Payer,          \* the account a transaction is paid for
    Pack,           \* what it buys: a plan or a top-up
    Referrer,       \* users.referred_by
    Plans,          \* plan tiers, the free one included
    PackCredits,    \* PLANS[...]["credits"]
    Reward,         \* REFERRAL_REWARD_CREDITS
    Bonus,          \* FRIEND_BONUS_CREDITS
    Cap,            \* REFERRAL_REWARD_CAP
    Exclusive,      \* BEGIN IMMEDIATE of SQLite, or READ COMMITTED of PostgreSQL
    InOrder,        \* the gateway sends a refund after the payment was answered
    MaxLaunches,    \* bound: launches
    MaxSwitches,    \* bound: switches to the free plan
    MaxCrashes,     \* bound: process restarts
    MaxFaults       \* bound: calls that raise or receipts without a user

Free == "demo"
Topup == "topup"

ASSUME PaymentsAssumption ==
    /\ NoUser \notin Users
    /\ Free \in Plans /\ Topup \notin Plans
    /\ Txns # {}
    /\ Payer \in [Txns -> Users]
    /\ Pack \in [Txns -> Plans \cup {Topup}]
    /\ Referrer \in [Users -> Users \cup {NoUser}]
    /\ \A u \in Users : Referrer[u] # u
    /\ PackCredits \in [Plans \cup {Topup} -> Nat]
    /\ Reward \in Nat /\ Bonus \in Nat /\ Cap \in Nat
    /\ Exclusive \in BOOLEAN /\ InOrder \in BOOLEAN
    /\ MaxLaunches \in Nat /\ MaxSwitches \in Nat /\ MaxCrashes \in Nat /\ MaxFaults \in Nat

Events == [kind : {"paid", "refunded"}, txn : Txns]
PaidEvent(t) == [kind |-> "paid", txn |-> t]
RefundEvent(t) == [kind |-> "refunded", txn |-> t]

VARIABLES
    credits,    \* users.credits
    plan,       \* users.plan
    rewarded,   \* referrals.rewarded of the account as a referred friend
    rows,       \* payment_events: per event absent, with or without its user
    work,       \* the webhook workers
    switch,     \* requests to the free plan, between their read and write
    sent,       \* events the gateway has sent
    acked,      \* events answered with 200
    spent,      \* credits of launches charged to an account
    returned,   \* those given back
    used,       \* how much of each bound is used up
    granted,    \* history: times a transaction was granted
    earned,     \* history: credits an account earned as a referrer
    bonuses     \* history: welcome bonuses an account got

account == <<credits, plan>>
gateway == <<sent, acked>>
launches == <<spent, returned>>
history == <<granted, earned, bonuses>>
vars == <<credits, plan, rewarded, rows, work, switch, sent, acked, spent, returned,
          used, granted, earned, bonuses>>

Steps == {"idle", "record", "apply", "write", "revoke", "reward", "claim", "answer"}
WorkerState == [pc : Steps, ev : Events, named : BOOLEAN, seen : Nat]
SwitchState == [on : BOOLEAN, seen : Nat]

TypeOK ==
    /\ credits \in [Users -> Nat]
    /\ plan \in [Users -> Plans]
    /\ rewarded \in [Users -> BOOLEAN]
    /\ rows \in [Events -> {"absent", "named", "unnamed"}]
    /\ work \in [Workers -> WorkerState]
    /\ switch \in [Users -> SwitchState]
    /\ sent \subseteq Events
    /\ acked \subseteq sent
    /\ spent \in [Users -> Nat] /\ returned \in [Users -> Nat]
    /\ used \in [crash : Nat, fault : Nat, switch : Nat, launch : Nat]
    /\ granted \in [Txns -> Nat]
    /\ earned \in [Users -> Nat]
    /\ bonuses \in [Users -> Nat]

IdleWork == [pc |-> "idle", ev |-> CHOOSE e \in Events : TRUE, named |-> FALSE, seen |-> 0]
IdleSwitch == [on |-> FALSE, seen |-> 0]

Init ==
    /\ credits = [u \in Users |-> PackCredits[Free]]
    /\ plan = [u \in Users |-> Free]
    /\ rewarded = [u \in Users |-> FALSE]
    /\ rows = [e \in Events |-> "absent"]
    /\ work = [w \in Workers |-> IdleWork]
    /\ switch = [u \in Users |-> IdleSwitch]
    /\ sent = {} /\ acked = {}
    /\ spent = [u \in Users |-> 0] /\ returned = [u \in Users |-> 0]
    /\ used = [crash |-> 0, fault |-> 0, switch |-> 0, launch |-> 0]
    /\ granted = [t \in Txns |-> 0]
    /\ earned = [u \in Users |-> 0]
    /\ bonuses = [u \in Users |-> 0]

-----------------------------------------------------------------------------
(* The gateway. *)

Send(t) ==
    /\ PaidEvent(t) \notin sent
    /\ sent' = sent \cup {PaidEvent(t)}
    /\ UNCHANGED <<account, rewarded, rows, work, switch, acked, launches, used, history>>

SendRefund(t) ==
    /\ PaidEvent(t) \in IF InOrder THEN acked ELSE sent
    /\ RefundEvent(t) \notin sent
    /\ sent' = sent \cup {RefundEvent(t)}
    /\ UNCHANGED <<account, rewarded, rows, work, switch, acked, launches, used, history>>

-----------------------------------------------------------------------------
(* _process_paddle_payload, in the thread of a webhook request. *)

\* What a call that raises, or a receipt that names nobody, costs of its bound.
Fault == used.fault < MaxFaults /\ used' = [used EXCEPT !.fault = @ + 1]

Goto(w, pc) == work' = [work EXCEPT ![w].pc = pc]
Ends(w) == work' = [work EXCEPT ![w] = IdleWork]

Event(w) == work[w].ev
Buyer(w) == Payer[Event(w).txn]
Bought(w) == Pack[Event(w).txn]

\* An event arrives, for the first time or again; its signature holds.  named:
\* the payload tells the account.  A payment usually does (custom_data or e-mail),
\* a refund of the adjustment kind never does.
Deliver(w, e, named) ==
    /\ work[w].pc = "idle"
    /\ e \in sent
    /\ IF e.kind = "paid" /\ ~named THEN Fault ELSE UNCHANGED used
    /\ work' = [work EXCEPT ![w] = [pc |-> "record", ev |-> e, named |-> named, seen |-> 0]]
    /\ UNCHANGED <<account, rewarded, rows, switch, gateway, launches, history>>

\* Mutant: a known event is not told from a new one.
RecordAlways(w) ==
    /\ work[w].pc = "record"
    /\ rows' = [rows EXCEPT ![Event(w)] = IF work[w].named THEN "named" ELSE "unnamed"]
    /\ Goto(w, "apply")
    /\ UNCHANGED <<account, rewarded, switch, gateway, launches, used, history>>

\* record_payment_event: the UNIQUE event_id decides, and an event seen before is
\* only answered.
Record(w) ==
    /\ work[w].pc = "record"
    /\ \/ /\ rows[Event(w)] = "absent"
          /\ rows' = [rows EXCEPT ![Event(w)] = IF work[w].named THEN "named" ELSE "unnamed"]
          /\ Goto(w, "apply")
       \/ /\ rows[Event(w)] # "absent"
          /\ Goto(w, "answer")
          /\ UNCHANGED rows
    /\ UNCHANGED <<account, rewarded, switch, gateway, launches, used, history>>

\* A payment without its account is refused with 422.
Incomplete(w) ==
    /\ work[w].pc = "apply" /\ Event(w).kind = "paid" /\ ~work[w].named
    /\ Ends(w)
    /\ UNCHANGED <<account, rewarded, rows, switch, gateway, launches, used, history>>

\* Mutant: the pack is added to a balance read earlier.
GrantTopupStale(w) ==
    /\ work[w].pc = "apply" /\ Event(w).kind = "paid" /\ work[w].named /\ Bought(w) = Topup
    /\ Goto(w, "reward")
    /\ credits' = [credits EXCEPT ![Buyer(w)] = PackCredits[Free] + PackCredits[Topup]]
    /\ granted' = [granted EXCEPT ![Event(w).txn] = @ + 1]
    /\ UNCHANGED <<plan, rewarded, rows, switch, gateway, launches, used, earned, bonuses>>

\* add_credits; it swallows what it raises, and the handler goes on.
GrantTopup(w) ==
    /\ work[w].pc = "apply" /\ Event(w).kind = "paid" /\ work[w].named /\ Bought(w) = Topup
    /\ Goto(w, "reward")
    /\ \/ /\ credits' = [credits EXCEPT ![Buyer(w)] = @ + PackCredits[Topup]]
          /\ granted' = [granted EXCEPT ![Event(w).txn] = @ + 1]
          /\ UNCHANGED used
       \/ Fault /\ UNCHANGED <<credits, granted>>
    /\ UNCHANGED <<plan, rewarded, rows, switch, gateway, launches, earned, bonuses>>

Larger(a, b) == IF a > b THEN a ELSE b

\* Mutant: a top-up is sold as a plan.
UpgradeReadAny(w) ==
    /\ work[w].pc = "apply" /\ Event(w).kind = "paid" /\ work[w].named
    /\ work' = [work EXCEPT ![w].pc = "write",
                            ![w].seen = Larger(credits[Buyer(w)], PackCredits[Bought(w)])]
    /\ UNCHANGED <<account, rewarded, rows, switch, gateway, launches, used, history>>

\* Mutant: a balance above the allowance needs no upgrade.
UpgradeReadKeeps(w) ==
    /\ work[w].pc = "apply" /\ Event(w).kind = "paid" /\ work[w].named /\ Bought(w) # Topup
    /\ work' = [work EXCEPT ![w].pc = IF credits[Buyer(w)] >= PackCredits[Bought(w)]
                                      THEN "reward" ELSE "write",
                            ![w].seen = PackCredits[Bought(w)]]
    /\ UNCHANGED <<account, rewarded, rows, switch, gateway, launches, used, history>>

\* upgrade_plan, its SELECT.
UpgradeRead(w) ==
    /\ work[w].pc = "apply" /\ Event(w).kind = "paid" /\ work[w].named /\ Bought(w) # Topup
    /\ work' = [work EXCEPT ![w].pc = "write",
                            ![w].seen = Larger(credits[Buyer(w)], PackCredits[Bought(w)])]
    /\ UNCHANGED <<account, rewarded, rows, switch, gateway, launches, used, history>>

\* upgrade_plan, its UPDATE, of an absolute balance.
UpgradeWrite(w) ==
    /\ work[w].pc = "write"
    /\ Goto(w, "reward")
    /\ plan' = [plan EXCEPT ![Buyer(w)] = Bought(w)]
    /\ credits' = [credits EXCEPT ![Buyer(w)] = work[w].seen]
    /\ granted' = [granted EXCEPT ![Event(w).txn] = @ + 1]
    /\ UNCHANGED <<rewarded, rows, switch, gateway, launches, used, earned, bonuses>>

\* Mutant: a refund is looked up by its own event.
LookUpItself(w) ==
    /\ work[w].pc = "apply" /\ Event(w).kind = "refunded"
    /\ Goto(w, IF work[w].named \/ rows[Event(w)] = "named" THEN "revoke" ELSE "answer")
    /\ UNCHANGED <<account, rewarded, rows, switch, gateway, launches, used, history>>

\* A refund that names nobody is mapped to the account its payment was recorded
\* for; without one it is answered all the same.
LookUp(w) ==
    /\ work[w].pc = "apply" /\ Event(w).kind = "refunded"
    /\ Goto(w, IF work[w].named \/ rows[PaidEvent(Event(w).txn)] = "named"
               THEN "revoke" ELSE "answer")
    /\ UNCHANGED <<account, rewarded, rows, switch, gateway, launches, used, history>>

\* downgrade_subscription
Revoke(w) ==
    /\ work[w].pc = "revoke"
    /\ Goto(w, "answer")
    /\ plan' = [plan EXCEPT ![Buyer(w)] = Free]
    /\ UNCHANGED <<credits, rewarded, rows, switch, gateway, launches, used, history>>

-----------------------------------------------------------------------------
(* reward_referrer_once, after every grant. *)

\* min(REFERRAL_REWARD_CREDITS, max(0, REFERRAL_REWARD_CAP - held))
RewardOf(held) == IF held + Reward <= Cap THEN Reward ELSE IF held < Cap THEN Cap - held ELSE 0

\* FOR UPDATE SKIP LOCKED: another worker is at the pending row.
Locked(u) == \E v \in Workers : work[v].pc = "claim" /\ Buyer(v) = u

Paid(u, r, amount) == [credits EXCEPT ![r] = @ + amount, ![u] = @ + Bonus]

Rewarded(u, r, amount) ==
    /\ credits' = Paid(u, r, amount)
    /\ rewarded' = [rewarded EXCEPT ![u] = TRUE]
    /\ earned' = [earned EXCEPT ![r] = @ + amount]
    /\ bonuses' = [bonuses EXCEPT ![u] = @ + 1]

\* No referrer, no pending row, or one that is locked; or the call raises and is
\* swallowed.
NoReward(w) ==
    /\ work[w].pc = "reward"
    /\ Goto(w, "answer")
    /\ \/ (Referrer[Buyer(w)] = NoUser \/ rewarded[Buyer(w)] \/ Locked(Buyer(w))) /\ UNCHANGED used
       \/ Fault
    /\ UNCHANGED <<account, rewarded, rows, switch, gateway, launches, history>>

\* SQLite: one BEGIN IMMEDIATE transaction.
RewardExclusive(w) ==
    LET u == Buyer(w)  r == Referrer[u] IN
    /\ Exclusive
    /\ work[w].pc = "reward"
    /\ r # NoUser /\ ~rewarded[u]
    /\ Rewarded(u, r, RewardOf(credits[r]))
    /\ Goto(w, "answer")
    /\ UNCHANGED <<plan, rows, switch, gateway, launches, used, granted>>

\* Mutant: the pending row is read without FOR UPDATE.
ClaimReadUnlocked(w) ==
    LET u == Buyer(w)  r == Referrer[u] IN
    /\ ~Exclusive
    /\ work[w].pc = "reward"
    /\ r # NoUser /\ ~rewarded[u]
    /\ work' = [work EXCEPT ![w].pc = "claim", ![w].seen = RewardOf(credits[r])]
    /\ UNCHANGED <<account, rewarded, rows, switch, gateway, launches, used, history>>

\* PostgreSQL: the pending row is locked, the balance of the referrer only read.
ClaimRead(w) ==
    LET u == Buyer(w)  r == Referrer[u] IN
    /\ ~Exclusive
    /\ work[w].pc = "reward"
    /\ r # NoUser /\ ~rewarded[u] /\ ~Locked(u)
    /\ work' = [work EXCEPT ![w].pc = "claim", ![w].seen = RewardOf(credits[r])]
    /\ UNCHANGED <<account, rewarded, rows, switch, gateway, launches, used, history>>

ClaimWrite(w) ==
    LET u == Buyer(w)  r == Referrer[u] IN
    /\ work[w].pc = "claim"
    /\ Rewarded(u, r, work[w].seen)
    /\ Goto(w, "answer")
    /\ UNCHANGED <<plan, rows, switch, gateway, launches, used, granted>>

-----------------------------------------------------------------------------
\* 200, whether the event was applied, seen before or found no account.
Answer(w) ==
    /\ work[w].pc = "answer"
    /\ Ends(w)
    /\ acked' = acked \cup {Event(w)}
    /\ UNCHANGED <<account, rewarded, rows, switch, sent, launches, used, history>>

\* A database call raises: the request ends with 500, the statement without effect.
Raises(w) ==
    /\ work[w].pc \in {"record", "write", "revoke", "reward", "claim"}
    /\ Fault
    /\ Ends(w)
    /\ UNCHANGED <<account, rewarded, rows, switch, gateway, launches, history>>

-----------------------------------------------------------------------------
(* The other threads that change the same row. *)

\* api_subscribe of the free plan: upgrade_plan(u, "demo").
SwitchRead(u) ==
    /\ ~switch[u].on
    /\ used.switch < MaxSwitches
    /\ used' = [used EXCEPT !.switch = @ + 1]
    /\ switch' = [switch EXCEPT ![u] =
           [on |-> TRUE, seen |-> Larger(credits[u], PackCredits[Free])]]
    /\ UNCHANGED <<account, rewarded, rows, work, gateway, launches, history>>

SwitchWrite(u) ==
    /\ switch[u].on
    /\ switch' = [switch EXCEPT ![u] = IdleSwitch]
    /\ plan' = [plan EXCEPT ![u] = Free]
    /\ credits' = [credits EXCEPT ![u] = switch[u].seen]
    /\ UNCHANGED <<rewarded, rows, work, gateway, launches, used, history>>

\* deduct_credit
Launch(u) ==
    /\ credits[u] > 0
    /\ used.launch < MaxLaunches
    /\ used' = [used EXCEPT !.launch = @ + 1]
    /\ credits' = [credits EXCEPT ![u] = @ - 1]
    /\ spent' = [spent EXCEPT ![u] = @ + 1]
    /\ UNCHANGED <<plan, rewarded, rows, work, switch, gateway, returned, history>>

\* refund_launch_credit, of a launch that was charged.
Return(u) ==
    /\ returned[u] < spent[u]
    /\ credits' = [credits EXCEPT ![u] = @ + 1]
    /\ returned' = [returned EXCEPT ![u] = @ + 1]
    /\ UNCHANGED <<plan, rewarded, rows, work, switch, gateway, spent, used, history>>

\* The process dies; an open transaction is rolled back.
CrashRestart ==
    /\ used.crash < MaxCrashes
    /\ used' = [used EXCEPT !.crash = @ + 1]
    /\ work' = [w \in Workers |-> IdleWork]
    /\ switch' = [u \in Users |-> IdleSwitch]
    /\ UNCHANGED <<account, rewarded, rows, gateway, launches, history>>

-----------------------------------------------------------------------------
Step(w) ==
    \/ Record(w) \/ Incomplete(w) \/ GrantTopup(w) \/ UpgradeRead(w) \/ UpgradeWrite(w)
    \/ LookUp(w) \/ Revoke(w)
    \/ NoReward(w) \/ RewardExclusive(w) \/ ClaimRead(w) \/ ClaimWrite(w) \/ Answer(w)
Account(u) == SwitchRead(u) \/ SwitchWrite(u) \/ Launch(u) \/ Return(u)

Next ==
    \/ \E t \in Txns : Send(t) \/ SendRefund(t)
    \/ \E w \in Workers : \/ \E e \in Events, named \in BOOLEAN : Deliver(w, e, named)
                          \/ Step(w) \/ Raises(w)
    \/ \E u \in Users : Account(u)
    \/ CrashRestart

Spec == Init /\ [][Next]_vars

(* Fairness: a webhook request runs to its end, and the gateway sends an    *)
(* event again until it is answered with 200.                               *)
Redeliver(e) == \E w \in Workers, named \in BOOLEAN : e \notin acked /\ Deliver(w, e, named)

Fairness ==
    /\ \A w \in Workers : WF_vars(Step(w))
    /\ \A e \in Events : SF_vars(Redeliver(e))

FairSpec == Spec /\ Fairness

-----------------------------------------------------------------------------
(* Properties *)

\* However often its event is delivered, and to however many workers at once, a
\* payment is granted at most once.
GrantedOnce == \A t \in Txns : granted[t] <= 1

\* Where nobody changes plan, every credit is accounted for: the welcome
\* allowance, the top-ups granted, rewards, bonuses and launches make up the
\* balance, whatever deliveries and launches interleave.
TopupsConserved ==
    \A u \in Users :
        LET topups == {t \in Txns : granted[t] > 0 /\ Payer[t] = u /\ Pack[t] = Topup}
        IN  credits[u] + spent[u]
              = PackCredits[Free] + PackCredits[Topup] * MapThenSumSet(LAMBDA t : granted[t], topups)
                + returned[u] + earned[u] + Bonus * bonuses[u]

\* A referred friend brings the welcome bonus, and its referrer the reward, at
\* most once, even when two of the friend's payments are handled at once: the
\* claimed row and the bonus paid go together.
RewardedOnce == \A u \in Users : bonuses[u] = IF rewarded[u] THEN 1 ELSE 0

\* A payment the gateway reports is granted in the end.
PaidIsGranted == \A t \in Txns : PaidEvent(t) \in sent ~> granted[t] >= 1

\* Once a refund was answered, the account no longer has the plan that payment
\* bought, unless another payment bought it too.
RefundRevokes ==
    \A t \in Txns :
        /\ RefundEvent(t) \in acked
        /\ \A o \in Txns \ {t} : Payer[o] # Payer[t] \/ Pack[o] # Pack[t]
        => plan[Payer[t]] = Free \/ plan[Payer[t]] # Pack[t]

\* No event is answered while what it paid for is still to be granted or was lost:
\* an answer ends the redeliveries.
AnsweredIsGranted == \A t \in Txns : PaidEvent(t) \in acked => granted[t] >= 1

=============================================================================
