------------------------------- MODULE Market -------------------------------
(***************************************************************************)
(* The template marketplace: publishing, buying with the launch that       *)
(* follows, the refund of a purchase whose launch failed, and the custom   *)
(* agents of an account.                                                   *)
(*                                                                         *)
(* Each request runs in a thread of its own.  A purchase and its refund    *)
(* are one transaction each; what lies between them is not.                *)
(***************************************************************************)
EXTENDS Integers, FiniteSets, FiniteSetsExt

CONSTANTS
    Buyers,         \* threads that serve POST /api/templates/{tid}/buy
    Members,        \* accounts
    BuyerOf,        \* the account a thread serves
    Templates,      \* templates an account may publish
    AuthorOf,       \* its author
    Prices,         \* prices it may be published at
    Start,          \* credits an account starts with
    PriceMin, PriceMax,     \* _TEMPLATE_LIMITS
    PurchaseMax,    \* _PURCHASE_MAX
    AgentMax,       \* _CUSTOM_AGENT_LIMITS["max_agents"]
    MaxSpent,       \* bound: credits spent elsewhere
    MaxMarketFaults \* bound: transactions that fail and threads that die

ASSUME MarketAssumption ==
    /\ Templates # {}
    /\ BuyerOf \in [Buyers -> Members] /\ AuthorOf \in [Templates -> Members]
    /\ Prices \subseteq Int /\ PriceMin \in Nat \ {0} /\ PriceMax \in Nat
    /\ Start \in Nat /\ PurchaseMax \in Nat \ {0} /\ AgentMax \in Nat
    /\ MaxSpent \in Nat /\ MaxMarketFaults \in Nat
    /\ IsFiniteSet(Buyers) /\ IsFiniteSet(Members)

VARIABLES
    engine,     \* "sqlite" or "postgres"
    purse,      \* users.credits
    price,      \* price_credits of each template, 0 before it is published
    bought,     \* rows of template_purchases, by template and buyer
    hits,       \* purchases the limiter still counts for each account
    buyer,      \* where each thread stands
    agents,     \* rows of custom_agents of each account
    gone,       \* accounts that were erased
    wiped,      \* history: accounts an erasure took purchases from, those that stayed too
    spent,      \* credits each account spent elsewhere
    mishaps     \* how much of the bound is used up

marketVars == <<engine, purse, price, bought, hits, buyer, agents, gone, wiped, spent, mishaps>>

BuyerSteps == {"idle", "allowed", "pay", "record", "launch", "refund", "ended",
               "agent count", "agent add"}
BuyerState == [pc : BuyerSteps, tpl : Templates, paid : BOOLEAN, running : BOOLEAN, cut : BOOLEAN]

MarketTypeOK ==
    /\ engine \in {"sqlite", "postgres"}
    /\ purse \in [Members -> Int]
    /\ price \in [Templates -> 0..PriceMax]
    /\ bought \in [Templates -> [Members -> Nat]]
    /\ hits \in [Members -> Nat]
    /\ buyer \in [Buyers -> BuyerState]
    /\ agents \in [Members -> Nat]
    /\ gone \in SUBSET Members /\ wiped \in SUBSET Members
    /\ spent \in [Members -> 0..MaxSpent]
    /\ mishaps \in 0..MaxMarketFaults

Waiting == [pc |-> "idle", tpl |-> CHOOSE t \in Templates : TRUE,
            paid |-> FALSE, running |-> FALSE, cut |-> FALSE]

MarketInit ==
    /\ engine \in {"sqlite", "postgres"}
    /\ purse = [m \in Members |-> Start]
    /\ price = [t \in Templates |-> 0]
    /\ bought = [t \in Templates |-> [m \in Members |-> 0]]
    /\ hits = [m \in Members |-> 0]
    /\ buyer = [b \in Buyers |-> Waiting]
    /\ agents = [m \in Members |-> 0]
    /\ gone = {} /\ wiped = {}
    /\ spent = [m \in Members |-> 0]
    /\ mishaps = 0

Move(b, pc) == buyer' = [buyer EXCEPT ![b].pc = pc]

------------------------------------------------------------------------------
(* Templates. *)

\* _validate_template refuses other prices.  Numbers of templates are not used
\* again, so no purchase in flight names the new one.
Publish(t) ==
    /\ price[t] = 0 /\ AuthorOf[t] \notin gone
    /\ \A b \in Buyers : buyer[b].tpl = t => buyer[b].pc \in {"idle", "ended"}
    /\ \E p \in Prices : PriceMin <= p /\ p <= PriceMax /\ price' = [price EXCEPT ![t] = p]
    /\ UNCHANGED <<engine, purse, bought, hits, buyer, agents, gone, wiped, spent, mishaps>>

AuthorEarn(t) == Max({1, price[t] \div 2})

Authored(m) == {t \in Templates : AuthorOf[t] = m}
SoldByIt(m) == \E t \in Authored(m), n \in Members : bought[t][n] > 0

\* delete_user, whatever requests of the account are in flight (its DELETEs one
\* by one: Erasure).  A foreign key keeps a template somebody holds a purchase
\* of, and its author: on SQLite nothing is erased then; on PostgreSQL the rest
\* is, and custom agents, which its list does not name, keep the account too.
Leave(m) ==
    /\ m \notin gone /\ (engine = "sqlite" => ~SoldByIt(m))
    /\ gone' = IF SoldByIt(m) \/ (engine = "postgres" /\ agents[m] > 0) THEN gone ELSE gone \cup {m}
    /\ wiped' = wiped \cup {m}
    /\ price' = [t \in Templates |-> IF t \in Authored(m) /\ ~SoldByIt(m) THEN 0 ELSE price[t]]
    /\ bought' = [t \in Templates |-> [bought[t] EXCEPT ![m] = 0]]
    /\ agents' = IF engine = "sqlite" THEN [agents EXCEPT ![m] = 0] ELSE agents
    /\ UNCHANGED <<engine, purse, hits, buyer, spent, mishaps>>

------------------------------------------------------------------------------
(* POST /api/templates/{tid}/buy. *)

\* The template exists and is somebody else's.
StartBuy(b, t) ==
    /\ buyer[b].pc \in {"idle", "ended"} /\ BuyerOf[b] \notin gone
    /\ price[t] # 0 /\ AuthorOf[t] # BuyerOf[b]
    /\ buyer' = [buyer EXCEPT ![b] = [Waiting EXCEPT !.pc = "allowed", !.tpl = t]]
    /\ UNCHANGED <<engine, purse, price, bought, hits, agents, gone, wiped, spent, mishaps>>

\* purchase_allowed, asked before the purchase ...
PurchaseAllowed(b) ==
    /\ buyer[b].pc = "allowed"
    /\ Move(b, IF hits[BuyerOf[b]] < PurchaseMax THEN "pay" ELSE "ended")
    /\ UNCHANGED <<engine, purse, price, bought, hits, agents, gone, wiped, spent, mishaps>>

\* ... and record_purchase, told after it.
RecordPurchase(b) ==
    /\ buyer[b].pc = "record"
    /\ hits' = [hits EXCEPT ![BuyerOf[b]] = @ + 1]
    /\ Move(b, "launch")
    /\ UNCHANGED <<engine, purse, price, bought, agents, gone, wiped, spent, mishaps>>

\* The window slides past a purchase, or the counter in Redis expires.
Forget(m) ==
    /\ hits[m] > 0
    /\ \E n \in {0, hits[m] - 1} : hits' = [hits EXCEPT ![m] = n]
    /\ UNCHANGED <<engine, purse, price, bought, buyer, agents, gone, wiped, spent, mishaps>>

Charge(b, t) ==
    /\ purse' = [purse EXCEPT ![BuyerOf[b]] = @ - price[t], ![AuthorOf[t]] = @ + AuthorEarn(t)]
    /\ bought' = [bought EXCEPT ![t][BuyerOf[b]] = @ + 1]
    /\ buyer' = [buyer EXCEPT ![b].pc = "record", ![b].paid = TRUE]

\* buy_template: BEGIN IMMEDIATE, or both rows locked FOR UPDATE.
BuyTemplate(b) ==
    /\ buyer[b].pc = "pay"
    /\ LET t == buyer[b].tpl IN
        IF price[t] = 0 \/ BuyerOf[b] \in gone \/ purse[BuyerOf[b]] < price[t]
        THEN Move(b, "ended") /\ UNCHANGED <<purse, bought>>
        ELSE Charge(b, t)
    /\ UNCHANGED <<engine, price, hits, agents, gone, wiped, spent, mishaps>>

\* The transaction is not to be had: a lock that times out, a deadlock that
\* PostgreSQL breaks.
BuyRaises(b) ==
    /\ buyer[b].pc = "pay" /\ mishaps < MaxMarketFaults
    /\ mishaps' = mishaps + 1
    /\ Move(b, "ended")
    /\ UNCHANGED <<engine, purse, price, bought, hits, agents, gone, wiped, spent>>

\* The project is added, which takes the account's row, the board launched and
\* its driver fired.
BuyLaunches(b) ==
    /\ buyer[b].pc = "launch" /\ BuyerOf[b] \notin gone
    /\ buyer' = [buyer EXCEPT ![b].pc = "ended", ![b].running = TRUE]
    /\ UNCHANGED <<engine, purse, price, bought, hits, agents, gone, wiped, spent, mishaps>>

\* A launch that raises is refunded.
BuyLaunchRaises(b) ==
    /\ buyer[b].pc = "launch"
    /\ Move(b, "refund")
    /\ UNCHANGED <<engine, purse, price, bought, hits, agents, gone, wiped, spent, mishaps>>

Reverse(b, t) ==
    /\ purse' = [purse EXCEPT ![BuyerOf[b]] = @ + price[t], ![AuthorOf[t]] = @ - AuthorEarn(t)]
    /\ bought' = [bought EXCEPT ![t][BuyerOf[b]] = @ - 1]
    /\ buyer' = [buyer EXCEPT ![b].pc = "ended", ![b].paid = FALSE]

\* Mutant: the author keeps the share.
RefundSqliteKeepsShare(b) ==
    /\ buyer[b].pc = "refund" /\ engine = "sqlite"
    /\ LET t == buyer[b].tpl IN
        IF bought[t][BuyerOf[b]] = 0 \/ price[t] = 0
        THEN Move(b, "ended") /\ UNCHANGED <<purse, bought>>
        ELSE /\ purse' = [purse EXCEPT ![BuyerOf[b]] = @ + price[t]]
             /\ bought' = [bought EXCEPT ![t][BuyerOf[b]] = @ - 1]
             /\ buyer' = [buyer EXCEPT ![b].pc = "ended", ![b].paid = FALSE]
    /\ UNCHANGED <<engine, price, hits, agents, gone, wiped, spent, mishaps>>

\* refund_template_purchase on SQLite: the latest purchase is reversed, and the
\* author's share with it, below zero if need be.
RefundSqlite(b) ==
    /\ buyer[b].pc = "refund" /\ engine = "sqlite"
    /\ LET t == buyer[b].tpl IN
        IF bought[t][BuyerOf[b]] = 0 \/ price[t] = 0
        THEN Move(b, "ended") /\ UNCHANGED <<purse, bought>>
        ELSE Reverse(b, t)
    /\ UNCHANGED <<engine, price, hits, agents, gone, wiped, spent, mishaps>>

\* On PostgreSQL ck_users_credits_non_negative undoes it all when the author
\* has spent the share; the buyer is told nothing of it.
RefundPostgres(b) ==
    /\ buyer[b].pc = "refund" /\ engine = "postgres"
    /\ LET t == buyer[b].tpl
           short == purse[AuthorOf[t]] < AuthorEarn(t)
       IN  IF bought[t][BuyerOf[b]] = 0 \/ price[t] = 0 \/ short
           THEN /\ buyer' = [buyer EXCEPT ![b].pc = "ended", ![b].cut = short]
                /\ UNCHANGED <<purse, bought>>
           ELSE Reverse(b, t)
    /\ UNCHANGED <<engine, price, hits, agents, gone, wiped, spent, mishaps>>

\* The process dies, or the refund's transaction raises and is passed over.
BuyDies(b) ==
    /\ buyer[b].pc \notin {"idle", "ended"} /\ mishaps < MaxMarketFaults
    /\ mishaps' = mishaps + 1
    /\ buyer' = [buyer EXCEPT ![b].pc = "ended", ![b].cut = TRUE]
    /\ UNCHANGED <<engine, purse, price, bought, hits, agents, gone, wiped, spent>>

\* Launches of its own: deduct_credit tests the balance in the UPDATE.
SpendElsewhere(m) ==
    /\ purse[m] > 0 /\ spent[m] < MaxSpent /\ m \notin gone
    /\ purse' = [purse EXCEPT ![m] = @ - 1]
    /\ spent' = [spent EXCEPT ![m] = @ + 1]
    /\ UNCHANGED <<engine, price, bought, hits, buyer, agents, gone, wiped, mishaps>>

------------------------------------------------------------------------------
(* Custom agents. *)

\* The account's agents are listed ...
CountAgents(b) ==
    /\ buyer[b].pc = "idle" /\ BuyerOf[b] \notin gone
    /\ agents[BuyerOf[b]] < AgentMax
    /\ Move(b, "agent add")
    /\ UNCHANGED <<engine, purse, price, bought, hits, agents, gone, wiped, spent, mishaps>>

\* ... and another one is added by a later transaction, if the account is there.
AddAgent(b) ==
    /\ buyer[b].pc = "agent add"
    /\ agents' = IF BuyerOf[b] \in gone THEN agents ELSE [agents EXCEPT ![BuyerOf[b]] = @ + 1]
    /\ Move(b, "idle")
    /\ UNCHANGED <<engine, purse, price, bought, hits, gone, wiped, spent, mishaps>>

DropAgent(m) ==
    /\ agents[m] > 0
    /\ agents' = [agents EXCEPT ![m] = @ - 1]
    /\ UNCHANGED <<engine, purse, price, bought, hits, buyer, gone, wiped, spent, mishaps>>

MarketNext ==
    \/ \E t \in Templates : Publish(t) \/ \E b \in Buyers : StartBuy(b, t)
    \/ \E m \in Members : Leave(m) \/ Forget(m) \/ SpendElsewhere(m) \/ DropAgent(m)
    \/ \E b \in Buyers :
        \/ PurchaseAllowed(b) \/ BuyTemplate(b) \/ BuyRaises(b) \/ RecordPurchase(b)
        \/ BuyLaunches(b) \/ BuyLaunchRaises(b) \/ RefundSqlite(b) \/ RefundPostgres(b) \/ BuyDies(b)
        \/ CountAgents(b) \/ AddAgent(b)

MarketSpec == MarketInit /\ [][MarketNext]_marketVars

------------------------------------------------------------------------------
Total(f, S) == FoldSet(LAMBDA x, sum : f[x] + sum, 0, S)

\* What the platform keeps of the purchases that stand.
Kept == Total([t \in Templates |-> (price[t] - AuthorEarn(t)) * Total(bought[t], Members)],
              {t \in Templates : price[t] # 0})

(* No purchase, refund or crossing of both makes or loses a credit: what the  *)
(* members hold, what they spent elsewhere and the platform's half of each    *)
(* purchase that stands is what they started with.  (While nobody was erased, *)
(* in whole or in part.)                                                      *)
MarketConserves ==
    wiped = {} => Total(purse, Members) + Total(spent, Members) + Kept
                     = Start * Cardinality(Members)

(* Two purchases of one account never both pass on one balance: an account    *)
(* that sells nothing is never below zero, and on PostgreSQL none is.         *)
NobodyOverdrawn ==
    \A m \in Members : engine = "postgres" \/ (\A t \in Templates : AuthorOf[t] # m) => purse[m] >= 0

(* A buyer whose launch failed has the price back, unless the process died,   *)
(* the refund could not be had, (PostgreSQL) the author had spent the share,  *)
(* or an erasure of the buyer took the purchase; the author's leaving never   *)
(* takes a template before its refund.                                        *)
FailedLaunchRefunded ==
    \A b \in Buyers : buyer[b].pc = "ended" /\ buyer[b].paid =>
        buyer[b].running \/ buyer[b].cut \/ BuyerOf[b] \in wiped

(* The burst guard may be overshot by purchases in flight, by no more than    *)
(* their number; so may the count of custom agents.                           *)
LimitsBounded ==
    \A m \in Members :
        LET mine == {b \in Buyers : BuyerOf[b] = m} IN
        /\ hits[m] < PurchaseMax + Max({1, Cardinality(mine)})
        /\ agents[m] < AgentMax + Max({1, Cardinality(mine)})

(* The credits of the members and the limits of the market, together.         *)
MarketKept == MarketTypeOK /\ MarketConserves /\ NobodyOverdrawn /\ FailedLaunchRefunded /\ LimitsBounded
=============================================================================
