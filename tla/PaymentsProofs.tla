--------------------------- MODULE PaymentsProofs ---------------------------
(* Proofs about Payments, for every set of accounts, transactions and webhook *)
(* workers, every price and either store.                                     *)
EXTENDS Payments, FiniteSums, TLAPS

USE PaymentsAssumption DEF Free, Topup

-----------------------------------------------------------------------------
(* What a worker knows of its event at each step.                           *)

Applying(w) == work[w].pc \in {"apply", "write"}

WorkInv ==
    \A w \in Workers :
        /\ work[w].pc # "idle" => Event(w) \in sent
        /\ work[w].pc \in {"write", "reward", "claim"} => Event(w).kind = "paid"
        /\ work[w].pc = "write" => Bought(w) # Topup
        /\ work[w].pc = "claim" => /\ ~Exclusive
                                   /\ Referrer[Buyer(w)] # NoUser

\* An event being applied is recorded, is not granted yet, and has one worker.
GrantInv ==
    /\ \A t \in Txns : rows[PaidEvent(t)] = "absent" => granted[t] = 0
    /\ \A w \in Workers : Applying(w) =>
           /\ rows[Event(w)] # "absent"
           /\ Event(w).kind = "paid" => granted[Event(w).txn] = 0
    /\ \A v, w \in Workers : Applying(v) /\ Applying(w) /\ Event(v) = Event(w) => v = w
    /\ GrantedOnce

\* A pending referral is claimed by one worker, which then pays the bonus.
RewardInv ==
    /\ \A w \in Workers : work[w].pc = "claim" => ~rewarded[Buyer(w)]
    /\ \A v, w \in Workers :
           work[v].pc = "claim" /\ work[w].pc = "claim" /\ Buyer(v) = Buyer(w) => v = w
    /\ RewardedOnce

TypeInv == TypeOK /\ WorkInv

-----------------------------------------------------------------------------
LEMMA EventsNonEmpty == IdleWork \in WorkerState
<1>1. \E t \in Txns : [kind |-> "paid", txn |-> t] \in Events
  BY DEF Events
<1>2. (CHOOSE e \in Events : TRUE) \in Events
  BY <1>1
<1>3. QED
  BY <1>2 DEF IdleWork, WorkerState, Steps

LEMMA EventTypes ==
  ASSUME TypeOK, NEW w \in Workers
  PROVE  /\ work[w] \in WorkerState
         /\ Event(w) \in Events
         /\ Event(w).kind \in {"paid", "refunded"}
         /\ Event(w).txn \in Txns
         /\ Event(w) = [kind |-> Event(w).kind, txn |-> Event(w).txn]
         /\ Buyer(w) \in Users
         /\ Bought(w) \in Plans \cup {Topup}
BY DEF TypeOK, WorkerState, Event, Buyer, Bought, Events

LEMMA RewardNat == ASSUME NEW held \in Nat PROVE RewardOf(held) \in Nat
BY DEF RewardOf

LEMMA LargerNat == ASSUME NEW a \in Nat, NEW b \in Nat PROVE Larger(a, b) \in Nat
BY DEF Larger

\* What moving a worker on, or ending its request, does to the workers.
LEMMA GotoWork ==
  ASSUME TypeOK, NEW w \in Workers, NEW pc \in Steps, Goto(w, pc)
  PROVE  /\ work' \in [Workers -> WorkerState]
         /\ work'[w].pc = pc /\ work'[w].ev = work[w].ev
         /\ work'[w].named = work[w].named /\ work'[w].seen = work[w].seen
         /\ \A v \in Workers \ {w} : work'[v] = work[v]
BY SMTT(30) DEF TypeOK, WorkerState, Goto

LEMMA EndsWork ==
  ASSUME TypeOK, NEW w \in Workers, Ends(w)
  PROVE  /\ work' \in [Workers -> WorkerState]
         /\ work'[w].pc = "idle"
         /\ \A v \in Workers \ {w} : work'[v] = work[v]
BY EventsNonEmpty DEF TypeOK, Ends, IdleWork

LEMMA TypeInit == Init => TypeInv
<1> SUFFICES ASSUME Init PROVE TypeInv
  OBVIOUS
<1>1. TypeOK
  BY EventsNonEmpty DEF Init, TypeOK, SwitchState, IdleSwitch
<1>2. WorkInv
  BY DEF Init, WorkInv, IdleWork
<1>3. QED
  BY <1>1, <1>2 DEF TypeInv

-----------------------------------------------------------------------------
(* Types *)

\* The facts about a step in which only worker w moves.
Moves(w) ==
    /\ work' \in [Workers -> WorkerState]
    /\ \A v \in Workers \ {w} : work'[v] = work[v]

\* WorkInv for the worker that moved.
WorkInvAt(w) ==
    /\ work[w].pc # "idle" => Event(w) \in sent
    /\ work[w].pc \in {"write", "reward", "claim"} => Event(w).kind = "paid"
    /\ work[w].pc = "write" => Bought(w) # Topup
    /\ work[w].pc = "claim" => /\ ~Exclusive
                               /\ Referrer[Buyer(w)] # NoUser

LEMMA WorkInvMoves ==
  ASSUME WorkInv, NEW w \in Workers, Moves(w), sent \subseteq sent', WorkInvAt(w)'
  PROVE  WorkInv'
<1> SUFFICES ASSUME NEW v \in Workers PROVE WorkInvAt(v)'
  BY DEF WorkInv, WorkInvAt
<1>1. CASE v = w
  BY <1>1
<1>2. CASE v # w
  <2>1. work'[v] = work[v]
    BY <1>2 DEF Moves
  <2>2. WorkInvAt(v)
    BY DEF WorkInv, WorkInvAt
  <2>3. QED
    BY <2>1, <2>2 DEF WorkInvAt, Event, Buyer, Bought
<1>3. QED
  BY <1>1, <1>2

LEMMA FaultType ==
  ASSUME used \in [crash : Nat, fault : Nat, switch : Nat, launch : Nat], Fault
  PROVE  used' \in [crash : Nat, fault : Nat, switch : Nat, launch : Nat]
BY DEF Fault

\* Every step of worker w moves only w, and leaves it knowing what it must.
LEMMA WorkStep ==
  ASSUME TypeInv, NEW w \in Workers, Step(w) \/ Raises(w)
  PROVE  Moves(w) /\ sent' = sent /\ WorkInvAt(w)'
<1> USE DEF TypeInv
<1>0. work[w] \in WorkerState /\ WorkInvAt(w) /\ TypeOK
  BY EventTypes DEF WorkInv, WorkInvAt
<1> DEFINE Went(P) == Moves(w) /\ work'[w].ev = work[w].ev /\ work'[w].pc \in P
<1>1. ASSUME NEW P, Went(P), P \subseteq {"apply", "answer", "revoke"},
             work[w].pc # "idle", sent' = sent
      PROVE  WorkInvAt(w)'
  BY <1>0, <1>1 DEF WorkInvAt, Event
<1>2. ASSUME Went({"write", "reward", "claim"}), sent' = sent, work[w].pc # "idle",
             Event(w).kind = "paid",
             work'[w].pc = "write" => Bought(w) # Topup,
             work'[w].pc = "claim" => ~Exclusive /\ Referrer[Buyer(w)] # NoUser
      PROVE  WorkInvAt(w)'
  BY <1>0, <1>2 DEF WorkInvAt, Event, Buyer, Bought
<1>3. ASSUME Ends(w) PROVE Moves(w) /\ WorkInvAt(w)'
  BY <1>0, <1>3, EndsWork DEF Moves, WorkInvAt
<1>4. ASSUME NEW pc \in Steps, Goto(w, pc) PROVE Went({pc})
  BY <1>0, <1>4, GotoWork DEF Moves
<1>5. CASE Record(w)
  <2>1. Went({"apply"}) \/ Went({"answer"})
    BY <1>4, <1>5 DEF Record, Steps
  <2>2. work[w].pc # "idle" /\ sent' = sent
    BY <1>5 DEF Record, gateway
  <2>3. QED
    BY <1>1, <2>1, <2>2
<1>6. CASE Incomplete(w)
  BY <1>3, <1>6 DEF Incomplete, gateway
<1>7. CASE GrantTopup(w)
  <2>1. Went({"reward"})
    BY <1>4, <1>7 DEF GrantTopup, Steps
  <2>2. work[w].pc # "idle" /\ sent' = sent /\ Event(w).kind = "paid"
    BY <1>7 DEF GrantTopup, gateway
  <2>3. QED
    BY <1>2, <2>1, <2>2
<1>8. CASE UpgradeRead(w)
  <2>1. Larger(credits[Buyer(w)], PackCredits[Bought(w)]) \in Nat
    BY <1>0, EventTypes, LargerNat DEF TypeOK
  <2>2. Went({"write"})
    BY <1>0, <1>8, <2>1 DEF UpgradeRead, Moves, WorkerState, Steps, TypeOK
  <2>3. /\ work[w].pc # "idle" /\ sent' = sent /\ Event(w).kind = "paid"
        /\ Bought(w) # Topup
    BY <1>8 DEF UpgradeRead, gateway
  <2>4. QED
    BY <1>2, <2>2, <2>3
<1>9. CASE UpgradeWrite(w)
  <2>1. Went({"reward"})
    BY <1>4, <1>9 DEF UpgradeWrite, Steps
  <2>2. work[w].pc # "idle" /\ sent' = sent /\ Event(w).kind = "paid"
    BY <1>0, <1>9 DEF UpgradeWrite, gateway, WorkInvAt
  <2>3. QED
    BY <1>2, <2>1, <2>2
<1>10. CASE LookUp(w)
  <2>1. Went({"revoke"}) \/ Went({"answer"})
    BY <1>4, <1>10 DEF LookUp, Steps
  <2>2. work[w].pc # "idle" /\ sent' = sent
    BY <1>10 DEF LookUp, gateway
  <2>3. QED
    BY <1>1, <2>1, <2>2
<1>11. CASE Revoke(w) \/ NoReward(w) \/ RewardExclusive(w) \/ ClaimWrite(w)
  <2>1. Went({"answer"})
    BY <1>4, <1>11 DEF Revoke, NoReward, RewardExclusive, ClaimWrite, Steps
  <2>2. work[w].pc # "idle" /\ sent' = sent
    BY <1>11 DEF Revoke, NoReward, RewardExclusive, ClaimWrite, gateway
  <2>3. QED
    BY <1>1, <2>1, <2>2
<1>12. CASE ClaimRead(w)
  <2>1. RewardOf(credits[Referrer[Buyer(w)]]) \in Nat
    BY <1>0, <1>12, EventTypes, RewardNat DEF TypeOK, ClaimRead
  <2>2. Went({"claim"})
    BY <1>0, <1>12, <2>1 DEF ClaimRead, Moves, WorkerState, Steps, TypeOK
  <2>3. /\ work[w].pc # "idle" /\ sent' = sent /\ Event(w).kind = "paid"
        /\ ~Exclusive /\ Referrer[Buyer(w)] # NoUser
    BY <1>0, <1>12 DEF ClaimRead, gateway, WorkInvAt
  <2>4. QED
    BY <1>2, <2>2, <2>3
<1>13. CASE Answer(w)
  BY <1>3, <1>13 DEF Answer
<1>14. CASE Raises(w)
  BY <1>3, <1>14 DEF Raises, gateway
<1>15. QED
  BY <1>5, <1>6, <1>7, <1>8, <1>9, <1>10, <1>11, <1>12, <1>13, <1>14 DEF Step

LEMMA PaidNat ==
  ASSUME credits \in [Users -> Nat], NEW u \in Users, NEW r \in Users, NEW amount \in Nat
  PROVE  Paid(u, r, amount) \in [Users -> Nat]
<1> DEFINE first == [credits EXCEPT ![r] = @ + amount]
<1>1. first \in [Users -> Nat]
  OBVIOUS
<1>2. [first EXCEPT ![u] = @ + Bonus] \in [Users -> Nat]
  BY <1>1
<1>3. QED
  BY <1>2 DEF Paid

LEMMA RewardedType ==
  ASSUME TypeOK, NEW u \in Users, NEW r \in Users, NEW amount \in Nat,
         Rewarded(u, r, amount)
  PROVE  /\ credits' \in [Users -> Nat]
         /\ rewarded' \in [Users -> BOOLEAN]
         /\ earned' \in [Users -> Nat]
         /\ bonuses' \in [Users -> Nat]
<1>1. credits' \in [Users -> Nat]
  BY PaidNat DEF TypeOK, Rewarded
<1>2. /\ rewarded' \in [Users -> BOOLEAN]
      /\ bonuses' \in [Users -> Nat]
  BY DEF TypeOK, Rewarded
<1>3. earned' \in [Users -> Nat]
  BY DEF TypeOK, Rewarded
<1>4. QED
  BY <1>1, <1>2, <1>3

LEMMA TypeWorker ==
  ASSUME TypeInv, NEW w \in Workers, Step(w) \/ Raises(w)
  PROVE  TypeInv'
<1> USE DEF TypeInv
<1>0. /\ Moves(w) /\ sent' = sent /\ WorkInvAt(w)'
      /\ WorkInvAt(w) /\ work[w] \in WorkerState
      /\ Event(w) \in Events /\ Event(w).txn \in Txns
      /\ Buyer(w) \in Users /\ Bought(w) \in Plans \cup {Topup}
  BY WorkStep, EventTypes DEF WorkInv, WorkInvAt
<1>1. WorkInv'
  BY <1>0, WorkInvMoves
<1>2. work' \in [Workers -> WorkerState]
  BY <1>0 DEF Moves
<1> USE DEF account, gateway, launches, history
<1>3. TypeOK'
  <2>1. CASE Record(w)
    BY <1>0, <1>2, <2>1 DEF Record, TypeOK
  <2>2. CASE Incomplete(w) \/ LookUp(w) \/ UpgradeRead(w) \/ ClaimRead(w)
    BY <1>2, <2>2 DEF Incomplete, LookUp, UpgradeRead, ClaimRead, TypeOK
  <2>3. CASE GrantTopup(w)
    <3>1. used' \in [crash : Nat, fault : Nat, switch : Nat, launch : Nat]
      BY <2>3, FaultType DEF GrantTopup, TypeOK
    <3>2. credits' \in [Users -> Nat] /\ granted' \in [Txns -> Nat]
      BY <1>0, <2>3 DEF GrantTopup, TypeOK
    <3>3. QED
      BY <1>2, <2>3, <3>1, <3>2 DEF GrantTopup, TypeOK
  <2>4. CASE UpgradeWrite(w)
    BY <1>0, <1>2, <2>4 DEF UpgradeWrite, TypeOK, WorkInvAt, WorkerState
  <2>5. CASE Revoke(w)
    BY <1>0, <1>2, <2>5 DEF Revoke, TypeOK
  <2>6. CASE NoReward(w)
    <3>1. used' \in [crash : Nat, fault : Nat, switch : Nat, launch : Nat]
      BY <2>6, FaultType DEF NoReward, TypeOK
    <3>2. QED
      BY <1>2, <2>6, <3>1 DEF NoReward, TypeOK
  <2>7. CASE RewardExclusive(w)
    <3>1. /\ Referrer[Buyer(w)] \in Users
          /\ Rewarded(Buyer(w), Referrer[Buyer(w)], RewardOf(credits[Referrer[Buyer(w)]]))
      BY <1>0, <2>7 DEF RewardExclusive
    <3>2. RewardOf(credits[Referrer[Buyer(w)]]) \in Nat
      BY <3>1, RewardNat DEF TypeOK
    <3>3. QED
      BY <1>0, <1>2, <2>7, <3>1, <3>2, RewardedType DEF RewardExclusive, TypeOK
  <2>8. CASE ClaimWrite(w)
    <3>1. /\ Referrer[Buyer(w)] \in Users
          /\ Rewarded(Buyer(w), Referrer[Buyer(w)], work[w].seen)
          /\ work[w].seen \in Nat
      BY <1>0, <2>8 DEF ClaimWrite, WorkInvAt, WorkerState
    <3>2. QED
      BY <1>0, <1>2, <2>8, <3>1, RewardedType DEF ClaimWrite, TypeOK
  <2>9. CASE Answer(w)
    BY <1>0, <1>2, <2>9 DEF Answer, TypeOK, WorkInvAt
  <2>10. CASE Raises(w)
    <3>1. used' \in [crash : Nat, fault : Nat, switch : Nat, launch : Nat]
      BY <2>10, FaultType DEF Raises, TypeOK
    <3>2. QED
      BY <1>2, <2>10, <3>1 DEF Raises, TypeOK
  <2>11. QED
    BY <2>1, <2>2, <2>3, <2>4, <2>5, <2>6, <2>7, <2>8, <2>9, <2>10 DEF Step
<1>4. QED
  BY <1>1, <1>3

LEMMA TypeStep == TypeInv /\ [Next]_vars => TypeInv'
<1> SUFFICES ASSUME TypeInv, [Next]_vars PROVE TypeInv'
  OBVIOUS
<1> USE DEF TypeInv, account, gateway, launches, history
<1>1. ASSUME NEW t \in Txns, Send(t) \/ SendRefund(t) PROVE TypeInv'
  <2>1. PaidEvent(t) \in Events /\ RefundEvent(t) \in Events
    BY DEF PaidEvent, RefundEvent, Events
  <2>2. TypeOK'
    BY <1>1, <2>1 DEF Send, SendRefund, TypeOK
  <2>3. sent \subseteq sent' /\ work' = work
    BY <1>1 DEF Send, SendRefund
  <2>4. WorkInv'
    BY <2>3 DEF WorkInv, Event, Buyer, Bought
  <2>5. QED
    BY <2>2, <2>4
<1>2. ASSUME NEW w \in Workers, NEW e \in Events, NEW named \in BOOLEAN, Deliver(w, e, named)
      PROVE  TypeInv'
  <2>1. used' \in [crash : Nat, fault : Nat, switch : Nat, launch : Nat]
    BY <1>2, FaultType DEF Deliver, TypeOK
  <2>2. [pc |-> "record", ev |-> e, named |-> named, seen |-> 0] \in WorkerState
    BY DEF WorkerState, Steps
  <2>3. Moves(w) /\ work'[w].pc = "record" /\ work'[w].ev = e
    BY <1>2, <2>2 DEF Deliver, TypeOK, Moves
  <2>4. WorkInvAt(w)'
    BY <1>2, <2>3 DEF Deliver, WorkInvAt, Event
  <2>5. TypeOK'
    BY <1>2, <2>1, <2>3 DEF Deliver, TypeOK, Moves
  <2>6. QED
    BY <1>2, <2>3, <2>4, <2>5, WorkInvMoves DEF Deliver
<1>3. ASSUME NEW u \in Users, Account(u) PROVE TypeInv'
  <2>1. WorkInv'
    BY <1>3 DEF Account, SwitchRead, SwitchWrite, Launch, Return, WorkInv, Event, Buyer, Bought
  <2>2. CASE SwitchRead(u)
    <3>1. [on |-> TRUE, seen |-> Larger(credits[u], PackCredits[Free])] \in SwitchState
      BY LargerNat DEF SwitchState, TypeOK
    <3>2. used' \in [crash : Nat, fault : Nat, switch : Nat, launch : Nat]
      BY <2>2 DEF SwitchRead, TypeOK
    <3>3. QED
      BY <2>1, <2>2, <3>1, <3>2 DEF SwitchRead, TypeOK
  <2>3. CASE SwitchWrite(u)
    BY <2>1, <2>3 DEF SwitchWrite, TypeOK, SwitchState, IdleSwitch
  <2>4. CASE Launch(u) \/ Return(u)
    BY <2>1, <2>4 DEF Launch, Return, TypeOK
  <2>5. QED
    BY <1>3, <2>2, <2>3, <2>4 DEF Account
<1>4. CASE CrashRestart
  <2>1. used' \in [crash : Nat, fault : Nat, switch : Nat, launch : Nat]
    BY <1>4 DEF CrashRestart, TypeOK
  <2>2. TypeOK'
    BY <1>4, <2>1, EventsNonEmpty DEF CrashRestart, TypeOK, SwitchState, IdleSwitch
  <2>3. WorkInv'
    BY <1>4 DEF CrashRestart, WorkInv, IdleWork
  <2>4. QED
    BY <2>2, <2>3
<1>5. CASE UNCHANGED vars
  BY <1>5 DEF vars, TypeOK, WorkInv, Event, Buyer, Bought
<1>6. QED
  BY <1>1, <1>2, <1>3, <1>4, <1>5, TypeWorker DEF Next

\* Balances stay natural numbers and every worker's event is one that was sent.
THEOREM TypeCorrect == Spec => []TypeOK
<1>1. TypeInv => TypeOK
  BY DEF TypeInv
<1>2. QED
  BY <1>1, TypeInit, TypeStep, PTL DEF Spec

-----------------------------------------------------------------------------
(* A payment is granted once. *)

\* A step that leaves the records and the grants alone, and in which no worker
\* but perhaps w moves, and w not into applying an event, keeps GrantInv.
LEMMA GrantQuiet ==
  ASSUME GrantInv, UNCHANGED <<rows, granted>>,
         \A v \in Workers : Applying(v)' => Applying(v) /\ Event(v)' = Event(v)
  PROVE  GrantInv'
BY DEF GrantInv, GrantedOnce

LEMMA GrantInit == Init => GrantInv
BY DEF Init, GrantInv, GrantedOnce, Applying, IdleWork, PaidEvent, Events

LEMMA GrantWorker ==
  ASSUME TypeInv, GrantInv, NEW w \in Workers, Step(w) \/ Raises(w)
  PROVE  GrantInv'
<1>0. /\ Moves(w) /\ WorkInvAt(w) /\ work[w] \in WorkerState
      /\ Event(w) \in Events /\ Event(w).txn \in Txns
      /\ Event(w) = [kind |-> Event(w).kind, txn |-> Event(w).txn]
      /\ TypeOK
  BY WorkStep, EventTypes DEF TypeInv, WorkInv, WorkInvAt
<1>1. \A v \in Workers \ {w} : Applying(v)' = Applying(v) /\ Event(v)' = Event(v)
  BY <1>0 DEF Moves, Applying, Event
<1>2. ASSUME UNCHANGED <<rows, granted>>, Applying(w)' => Applying(w) /\ Event(w)' = Event(w)
      PROVE  GrantInv'
  BY <1>1, <1>2, GrantQuiet
<1>3. ASSUME NEW pc \in Steps, Goto(w, pc)
      PROVE  work'[w].pc = pc /\ Event(w)' = Event(w)
  BY <1>0, <1>3, GotoWork DEF Event
<1>4. ASSUME Ends(w) PROVE ~Applying(w)'
  BY <1>0, <1>4, EndsWork DEF Applying
<1>5. CASE Record(w)
  <2>1. CASE rows[Event(w)] # "absent" /\ Goto(w, "answer") /\ UNCHANGED rows
    <3>1. ~Applying(w)'
      BY <1>3, <2>1 DEF Applying, Steps
    <3>2. QED
      BY <1>2, <1>5, <2>1, <3>1 DEF Record, history
  <2>2. CASE /\ rows[Event(w)] = "absent" /\ Goto(w, "apply")
             /\ rows' = [rows EXCEPT ![Event(w)] =
                            IF work[w].named THEN "named" ELSE "unnamed"]
    <3>1. /\ \A e \in Events \ {Event(w)} : rows'[e] = rows[e]
          /\ rows'[Event(w)] # "absent"
          /\ granted' = granted
      BY <1>0, <1>5, <2>2 DEF Record, history, TypeOK
    <3>2. Event(w)' = Event(w) /\ Applying(w)'
      BY <1>3, <2>2 DEF Applying, Steps
    <3>3. Event(w).kind = "paid" => granted[Event(w).txn] = 0
      BY <1>0, <2>2 DEF GrantInv, PaidEvent
    <3>4. \A v \in Workers \ {w} : Applying(v) => Event(v) # Event(w)
      BY <2>2 DEF GrantInv
    <3>5. \A t \in Txns : rows'[PaidEvent(t)] = "absent" => granted'[t] = 0
      <4>1. \A t \in Txns : PaidEvent(t) \in Events
        BY DEF PaidEvent, Events
      <4>2. QED
        BY <3>1, <4>1 DEF GrantInv
    <3>6. \A v \in Workers : Applying(v)' =>
             /\ rows'[Event(v)'] # "absent"
             /\ Event(v)'.kind = "paid" => granted'[Event(v)'.txn] = 0
      BY <1>1, <3>1, <3>2, <3>3, <3>4, EventTypes, <1>0 DEF GrantInv
    <3>7. \A u, v \in Workers : Applying(u)' /\ Applying(v)' /\ Event(u)' = Event(v)' => u = v
      BY <1>1, <3>2, <3>4 DEF GrantInv
    <3>8. GrantedOnce'
      BY <3>1 DEF GrantInv, GrantedOnce
    <3>9. QED
      BY <3>5, <3>6, <3>7, <3>8 DEF GrantInv
  <2>3. QED
    BY <1>5, <2>1, <2>2 DEF Record
<1>6. CASE Incomplete(w) \/ Answer(w) \/ Raises(w)
  <2>1. ~Applying(w)'
    BY <1>4, <1>6 DEF Incomplete, Answer, Raises
  <2>2. QED
    BY <1>2, <1>6, <2>1 DEF Incomplete, Answer, Raises, history
<1>7. CASE GrantTopup(w) \/ UpgradeWrite(w)
  <2>1. ~Applying(w)'
    BY <1>3, <1>7 DEF GrantTopup, UpgradeWrite, Applying, Steps
  <2>2. rows' = rows
    BY <1>7 DEF GrantTopup, UpgradeWrite
  <2>3. Applying(w) /\ Event(w).kind = "paid" /\ Event(w) = PaidEvent(Event(w).txn)
    BY <1>0, <1>7 DEF GrantTopup, UpgradeWrite, Applying, WorkInvAt, PaidEvent
  <2>4. CASE granted' = granted
    BY <1>2, <2>1, <2>2, <2>4
  <2>5. CASE granted' = [granted EXCEPT ![Event(w).txn] = @ + 1]
    <3>1. /\ granted'[Event(w).txn] = 1
          /\ \A t \in Txns \ {Event(w).txn} : granted'[t] = granted[t]
      BY <1>0, <2>3, <2>5 DEF GrantInv, TypeOK
    <3>2. \A t \in Txns : rows'[PaidEvent(t)] = "absent" => granted'[t] = 0
      BY <2>2, <2>3, <3>1 DEF GrantInv
    <3>3. \A v \in Workers \ {w} : Applying(v) => Event(v) # Event(w)
      BY <2>3 DEF GrantInv
    <3>4. \A v \in Workers \ {w} :
             Applying(v) /\ Event(v).kind = "paid" => Event(v).txn # Event(w).txn
      BY <1>0, <2>3, <3>3, EventTypes
    <3>5. \A v \in Workers : Applying(v)' =>
             /\ rows'[Event(v)'] # "absent"
             /\ Event(v)'.kind = "paid" => granted'[Event(v)'.txn] = 0
      BY <1>0, <1>1, <2>1, <2>2, <3>1, <3>4, EventTypes DEF GrantInv
    <3>6. \A u, v \in Workers : Applying(u)' /\ Applying(v)' /\ Event(u)' = Event(v)' => u = v
      BY <1>1, <2>1 DEF GrantInv
    <3>7. GrantedOnce'
      BY <3>1 DEF GrantInv, GrantedOnce
    <3>8. QED
      BY <3>2, <3>5, <3>6, <3>7 DEF GrantInv
  <2>6. QED
    BY <1>7, <2>4, <2>5 DEF GrantTopup, UpgradeWrite
<1>8. CASE UpgradeRead(w)
  <2>1. Applying(w) /\ Event(w)' = Event(w)
    BY <1>0, <1>8 DEF UpgradeRead, Applying, Event, TypeOK, WorkerState
  <2>2. QED
    BY <1>2, <1>8, <2>1 DEF UpgradeRead, history
<1>9. CASE LookUp(w) \/ Revoke(w) \/ NoReward(w) \/ RewardExclusive(w) \/ ClaimWrite(w)
  <2>1. ~Applying(w)'
    BY <1>3, <1>9 DEF LookUp, Revoke, NoReward, RewardExclusive, ClaimWrite, Applying, Steps
  <2>2. QED
    BY <1>2, <1>9, <2>1
       DEF LookUp, Revoke, NoReward, RewardExclusive, ClaimWrite, history
<1>10. CASE ClaimRead(w)
  <2>1. ~Applying(w)'
    BY <1>0, <1>10 DEF ClaimRead, Applying, TypeOK, WorkerState
  <2>2. QED
    BY <1>2, <1>10, <2>1 DEF ClaimRead, history
<1>11. QED
  BY <1>5, <1>6, <1>7, <1>8, <1>9, <1>10 DEF Step

LEMMA GrantStep == TypeInv /\ GrantInv /\ [Next]_vars => GrantInv'
<1> SUFFICES ASSUME TypeInv, GrantInv, [Next]_vars PROVE GrantInv'
  OBVIOUS
<1> USE DEF history
<1>1. ASSUME NEW t \in Txns, Send(t) \/ SendRefund(t) PROVE GrantInv'
  BY <1>1, GrantQuiet DEF Send, SendRefund, Applying, Event
<1>2. ASSUME NEW w \in Workers, NEW e \in Events, NEW named \in BOOLEAN, Deliver(w, e, named)
      PROVE  GrantInv'
  <2>1. ~Applying(w)' /\ \A v \in Workers \ {w} : work'[v] = work[v]
    BY <1>2 DEF Deliver, Applying, TypeInv, TypeOK
  <2>2. QED
    BY <1>2, <2>1, GrantQuiet DEF Deliver, Applying, Event
<1>3. ASSUME NEW u \in Users, Account(u) PROVE GrantInv'
  BY <1>3, GrantQuiet DEF Account, SwitchRead, SwitchWrite, Launch, Return, Applying, Event
<1>4. CASE CrashRestart
  <2>1. \A v \in Workers : ~Applying(v)'
    BY <1>4 DEF CrashRestart, Applying, IdleWork
  <2>2. QED
    BY <1>4, <2>1, GrantQuiet DEF CrashRestart
<1>5. CASE UNCHANGED vars
  BY <1>5, GrantQuiet DEF vars, Applying, Event
<1>6. QED
  BY <1>1, <1>2, <1>3, <1>4, <1>5, GrantWorker DEF Next

\* However often, and to however many workers at once, the event of a payment is
\* delivered, and wherever the process dies, the payment is granted at most once.
THEOREM PaymentGrantedOnce == Spec => []GrantedOnce
<1>1. GrantInv => GrantedOnce
  BY DEF GrantInv
<1>2. QED
  BY <1>1, TypeInit, TypeStep, GrantInit, GrantStep, PTL DEF Spec

-----------------------------------------------------------------------------
(* A referral is rewarded once. *)

Claiming(w) == work[w].pc = "claim"

\* A step that pays no reward and starts no claim keeps RewardInv.
LEMMA RewardQuiet ==
  ASSUME RewardInv, UNCHANGED <<rewarded, bonuses>>,
         \A v \in Workers : Claiming(v)' => Claiming(v) /\ Event(v)' = Event(v)
  PROVE  RewardInv'
BY DEF RewardInv, RewardedOnce, Claiming, Buyer

LEMMA RewardInit == Init => RewardInv
BY DEF Init, RewardInv, RewardedOnce, IdleWork

\* The worker that pays a reward has the referral to itself.
LEMMA RewardPaid ==
  ASSUME TypeOK, RewardInv, NEW w \in Workers, Moves(w), ~Claiming(w)',
         ~rewarded[Buyer(w)],
         \A v \in Workers \ {w} : Claiming(v) => Buyer(v) # Buyer(w),
         rewarded' = [rewarded EXCEPT ![Buyer(w)] = TRUE],
         bonuses' = [bonuses EXCEPT ![Buyer(w)] = @ + 1]
  PROVE  RewardInv'
<1>0. Buyer(w) \in Users
  BY EventTypes
<1>1. \A v \in Workers \ {w} : Claiming(v)' = Claiming(v) /\ Buyer(v)' = Buyer(v)
  BY DEF Moves, Claiming, Buyer, Event
<1>2. \A u \in Users \ {Buyer(w)} : rewarded'[u] = rewarded[u] /\ bonuses'[u] = bonuses[u]
  BY DEF TypeOK
<1>3. rewarded'[Buyer(w)] = TRUE
  BY <1>0 DEF TypeOK
<1>4. bonuses'[Buyer(w)] = 1
  <2>1. bonuses[Buyer(w)] = 0
    BY <1>0 DEF RewardInv, RewardedOnce
  <2>2. QED
    BY <1>0, <2>1 DEF TypeOK
<1>5. RewardedOnce'
  BY <1>2, <1>3, <1>4 DEF RewardInv, RewardedOnce
<1>6. \A v \in Workers : Claiming(v)' => ~rewarded'[Buyer(v)']
  BY <1>1, <1>2, EventTypes DEF RewardInv, Claiming
<1>7. \A v, x \in Workers :
         Claiming(v)' /\ Claiming(x)' /\ Buyer(v)' = Buyer(x)' => v = x
  BY <1>1 DEF RewardInv, Claiming
<1>8. QED
  BY <1>5, <1>6, <1>7 DEF RewardInv, Claiming

LEMMA RewardWorker ==
  ASSUME TypeInv, RewardInv, NEW w \in Workers, Step(w) \/ Raises(w)
  PROVE  RewardInv'
<1>0. Moves(w) /\ WorkInvAt(w) /\ work[w] \in WorkerState /\ TypeOK
  BY WorkStep, EventTypes DEF TypeInv, WorkInv, WorkInvAt
<1>1. \A v \in Workers \ {w} : Claiming(v)' = Claiming(v) /\ Event(v)' = Event(v)
  BY <1>0 DEF Moves, Claiming, Event
<1>2. ASSUME UNCHANGED <<rewarded, bonuses>>, ~Claiming(w)' PROVE RewardInv'
  BY <1>1, <1>2, RewardQuiet
<1>3. ASSUME NEW pc \in Steps \ {"claim"}, Goto(w, pc) PROVE ~Claiming(w)'
  BY <1>0, <1>3, GotoWork DEF Claiming
<1>4. ASSUME Ends(w) PROVE ~Claiming(w)'
  BY <1>0, <1>4, EndsWork DEF Claiming
<1>5. CASE Incomplete(w) \/ Answer(w) \/ Raises(w)
  BY <1>2, <1>4, <1>5 DEF Incomplete, Answer, Raises, history
<1>6. CASE Record(w) \/ LookUp(w) \/ Revoke(w) \/ NoReward(w)
  <2>1. ~Claiming(w)'
    BY <1>3, <1>6 DEF Record, LookUp, Revoke, NoReward, Steps
  <2>2. QED
    BY <1>2, <1>6, <2>1 DEF Record, LookUp, Revoke, NoReward, history
<1>7. CASE GrantTopup(w) \/ UpgradeWrite(w)
  <2>1. ~Claiming(w)'
    BY <1>3, <1>7 DEF GrantTopup, UpgradeWrite, Steps
  <2>2. QED
    BY <1>2, <1>7, <2>1 DEF GrantTopup, UpgradeWrite
<1>8. CASE UpgradeRead(w)
  <2>1. ~Claiming(w)'
    BY <1>0, <1>8 DEF UpgradeRead, Claiming, TypeOK, WorkerState
  <2>2. QED
    BY <1>2, <1>8, <2>1 DEF UpgradeRead, history
<1>9. CASE RewardExclusive(w)
  <2>1. ~Claiming(w)'
    BY <1>3, <1>9 DEF RewardExclusive, Steps
  <2>2. \A v \in Workers : ~Claiming(v)
    BY <1>9 DEF RewardExclusive, TypeInv, WorkInv, Claiming
  <2>3. QED
    BY <1>0, <1>9, <2>1, <2>2, RewardPaid DEF RewardExclusive, Rewarded
<1>10. CASE ClaimWrite(w)
  <2>1. ~Claiming(w)'
    BY <1>3, <1>10 DEF ClaimWrite, Steps
  <2>2. ~rewarded[Buyer(w)]
    BY <1>10 DEF ClaimWrite, RewardInv
  <2>3. \A v \in Workers \ {w} : Claiming(v) => Buyer(v) # Buyer(w)
    BY <1>10 DEF ClaimWrite, RewardInv, Claiming
  <2>4. QED
    BY <1>0, <1>10, <2>1, <2>2, <2>3, RewardPaid DEF ClaimWrite, Rewarded
<1>11. CASE ClaimRead(w)
  <2>1. /\ Claiming(w)' /\ Event(w)' = Event(w)
        /\ UNCHANGED <<rewarded, bonuses>>
    BY <1>0, <1>11 DEF ClaimRead, Claiming, Event, TypeOK, WorkerState, history
  <2>2. ~rewarded[Buyer(w)] /\ \A v \in Workers : Claiming(v) => Buyer(v) # Buyer(w)
    BY <1>11 DEF ClaimRead, Locked, Claiming
  <2>3. \A v \in Workers : Buyer(v)' = Buyer(v)
    BY <1>1, <2>1 DEF Buyer
  <2>4. \A v \in Workers : Claiming(v)' => ~rewarded'[Buyer(v)']
    BY <1>1, <2>1, <2>2, <2>3 DEF RewardInv, Claiming
  <2>5. \A v, x \in Workers :
           Claiming(v)' /\ Claiming(x)' /\ Buyer(v)' = Buyer(x)' => v = x
    BY <1>1, <2>2, <2>3 DEF RewardInv, Claiming
  <2>6. QED
    BY <2>1, <2>4, <2>5 DEF RewardInv, RewardedOnce, Claiming
<1>12. QED
  BY <1>5, <1>6, <1>7, <1>8, <1>9, <1>10, <1>11 DEF Step

LEMMA RewardStep == TypeInv /\ RewardInv /\ [Next]_vars => RewardInv'
<1> SUFFICES ASSUME TypeInv, RewardInv, [Next]_vars PROVE RewardInv'
  OBVIOUS
<1> USE DEF history
<1>1. ASSUME NEW t \in Txns, Send(t) \/ SendRefund(t) PROVE RewardInv'
  BY <1>1, RewardQuiet DEF Send, SendRefund, Claiming, Event
<1>2. ASSUME NEW w \in Workers, NEW e \in Events, NEW named \in BOOLEAN, Deliver(w, e, named)
      PROVE  RewardInv'
  <2>1. ~Claiming(w)' /\ \A v \in Workers \ {w} : work'[v] = work[v]
    BY <1>2 DEF Deliver, Claiming, TypeInv, TypeOK
  <2>2. QED
    BY <1>2, <2>1, RewardQuiet DEF Deliver, Claiming, Event
<1>3. ASSUME NEW u \in Users, Account(u) PROVE RewardInv'
  BY <1>3, RewardQuiet DEF Account, SwitchRead, SwitchWrite, Launch, Return, Claiming, Event
<1>4. CASE CrashRestart
  <2>1. \A v \in Workers : ~Claiming(v)'
    BY <1>4 DEF CrashRestart, Claiming, IdleWork
  <2>2. QED
    BY <1>4, <2>1, RewardQuiet DEF CrashRestart
<1>5. CASE UNCHANGED vars
  BY <1>5, RewardQuiet DEF vars, Claiming, Event
<1>6. QED
  BY <1>1, <1>2, <1>3, <1>4, <1>5, RewardWorker DEF Next

\* The reward of a referral is paid at most once, and exactly when its row is
\* claimed, on either store and with any number of payments of the friend handled
\* at once.
THEOREM ReferralRewardedOnce == Spec => []RewardedOnce
<1>1. RewardInv => RewardedOnce
  BY DEF RewardInv
<1>2. QED
  BY <1>1, TypeInit, TypeStep, RewardInit, RewardStep, PTL DEF Spec

-----------------------------------------------------------------------------
(* Answers.  An event is answered when its row is there, so a row must not  *)
(* be there for a payment that was not granted and has no worker any more:  *)
(* a call that raises after the row, or a restart there, leaves one; and a  *)
(* second worker answers while the first still grants.  So the theorems     *)
(* speak of one worker, and of every state before the first such failure.   *)

OneWorker == \A v, w \in Workers : v = w
Calm == used.fault = 0 /\ used.crash = 0

LEMMA UsedGrows ==
  ASSUME TypeInv, [Next]_vars
  PROVE  /\ used'.fault >= used.fault /\ used'.crash >= used.crash
         /\ used'.switch >= used.switch
<1> DEFINE Grows == \/ used' = used
                    \/ used' = [used EXCEPT !.crash = @ + 1]
                    \/ used' = [used EXCEPT !.fault = @ + 1]
                    \/ used' = [used EXCEPT !.switch = @ + 1]
                    \/ used' = [used EXCEPT !.launch = @ + 1]
<1>1. ASSUME NEW t \in Txns, Send(t) \/ SendRefund(t) PROVE Grows
  BY <1>1 DEF Send, SendRefund
<1>2. ASSUME NEW w \in Workers, NEW e \in Events, NEW named \in BOOLEAN, Deliver(w, e, named)
      PROVE  Grows
  BY <1>2 DEF Deliver, Fault
<1>3. ASSUME NEW w \in Workers, Step(w) \/ Raises(w) PROVE Grows
  BY <1>3 DEF Step, Record, Incomplete, GrantTopup, UpgradeRead, UpgradeWrite, LookUp, Revoke,
              NoReward, RewardExclusive, ClaimRead, ClaimWrite, Answer, Raises, Fault
<1>4. ASSUME NEW u \in Users, Account(u) PROVE Grows
  BY <1>4 DEF Account, SwitchRead, SwitchWrite, Launch, Return
<1>5. ASSUME CrashRestart PROVE Grows
  BY <1>5 DEF CrashRestart
<1>6. ASSUME UNCHANGED vars PROVE Grows
  BY <1>6 DEF vars
<1>7. Grows
  BY <1>1, <1>2, <1>3, <1>4, <1>5, <1>6 DEF Next
<1>8. used \in [crash : Nat, fault : Nat, switch : Nat, launch : Nat]
  BY DEF TypeInv, TypeOK
<1>9. QED
  BY <1>7, <1>8

LEMMA CalmBefore == TypeInv /\ [Next]_vars /\ Calm' => Calm
<1> SUFFICES ASSUME TypeInv, [Next]_vars, Calm' PROVE Calm
  OBVIOUS
<1>1. used \in [crash : Nat, fault : Nat, switch : Nat, launch : Nat]
  BY DEF TypeInv, TypeOK
<1>2. QED
  BY <1>1, UsedGrows DEF Calm

\* While it is calm nothing raises.
LEMMA NoFault == TypeInv /\ Calm /\ Calm' => ~Fault
<1> SUFFICES ASSUME TypeInv, Calm, Calm', Fault PROVE FALSE
  OBVIOUS
<1>1. used \in [crash : Nat, fault : Nat, switch : Nat, launch : Nat]
  BY DEF TypeInv, TypeOK
<1>2. QED
  BY <1>1 DEF Calm, Fault

\* A row is there while its payment is being granted, and from then on.
AnswerInv ==
    /\ \A w \in Workers :
           /\ work[w].pc = "revoke" => Event(w).kind = "refunded"
           /\ Event(w).kind = "paid" =>
                 /\ work[w].pc \in {"record", "apply"} => work[w].named
                 /\ work[w].pc \in {"reward", "claim", "answer"} => granted[Event(w).txn] >= 1
    /\ \A t \in Txns :
           /\ rows[PaidEvent(t)] # "unnamed"
           /\ \/ rows[PaidEvent(t)] = "absent"
              \/ granted[t] >= 1
              \/ \E w \in Workers : Applying(w) /\ Event(w) = PaidEvent(t)
           /\ PaidEvent(t) \in acked => granted[t] >= 1

LEMMA AnswerInit == Init => AnswerInv
BY DEF Init, AnswerInv, IdleWork, Event, PaidEvent, Events

\* A worker whose event is still to be recorded applies nothing, and is the only
\* one: so a row it finds is of a payment that was granted.
LEMMA AnswerWorker ==
  ASSUME OneWorker, TypeInv, Calm, Calm', AnswerInv, NEW w \in Workers, Step(w) \/ Raises(w)
  PROVE  AnswerInv'
<1>0. /\ Moves(w) /\ WorkInvAt(w) /\ work[w] \in WorkerState /\ TypeOK
      /\ Event(w) \in Events /\ Event(w).txn \in Txns /\ Event(w).kind \in {"paid", "refunded"}
      /\ Event(w) = [kind |-> Event(w).kind, txn |-> Event(w).txn]
      /\ \A v \in Workers : v = w
      /\ \A t \in Txns : PaidEvent(t) \in Events /\ PaidEvent(t).kind = "paid" /\ PaidEvent(t).txn = t
  BY WorkStep, EventTypes DEF TypeInv, WorkInv, WorkInvAt, OneWorker, PaidEvent, Events
<1>1. ~Fault
  BY NoFault
<1>2. ASSUME NEW pc \in Steps, Goto(w, pc)
      PROVE  work'[w].pc = pc /\ Event(w)' = Event(w) /\ work'[w].named = work[w].named
  BY <1>0, <1>2, GotoWork DEF Event
<1>3. ASSUME Ends(w) PROVE work'[w].pc = "idle"
  BY <1>0, <1>3, EndsWork
<1> USE DEF AnswerInv, Applying
<1>4. CASE Record(w)
  <2>1. acked' = acked /\ granted' = granted
    BY <1>4 DEF Record, gateway, history
  <2>2. CASE rows[Event(w)] # "absent" /\ Goto(w, "answer") /\ UNCHANGED rows
    <3>1. work'[w].pc = "answer" /\ Event(w)' = Event(w)
      BY <1>2, <2>2 DEF Steps
    <3>2. \A t \in Txns : rows[PaidEvent(t)] = "absent" \/ granted[t] >= 1
      BY <1>0, <1>4 DEF Record
    <3>3. Event(w).kind = "paid" => granted[Event(w).txn] >= 1
      BY <1>0, <2>2, <3>2 DEF PaidEvent
    <3>4. QED
      BY <1>0, <2>1, <2>2, <3>1, <3>2, <3>3
  <2>3. CASE /\ rows[Event(w)] = "absent" /\ Goto(w, "apply")
             /\ rows' = [rows EXCEPT ![Event(w)] =
                            IF work[w].named THEN "named" ELSE "unnamed"]
    <3>1. work'[w].pc = "apply" /\ Event(w)' = Event(w) /\ work'[w].named = work[w].named
      BY <1>2, <2>3 DEF Steps
    <3>2. Event(w).kind = "paid" => work[w].named
      BY <1>4 DEF Record
    <3>3. \A e \in Events \ {Event(w)} : rows'[e] = rows[e]
      BY <2>3, <1>0 DEF TypeOK
    <3>4. rows'[Event(w)] # "absent" /\ (work[w].named => rows'[Event(w)] = "named")
      BY <2>3, <1>0 DEF TypeOK
    <3>5. ASSUME NEW t \in Txns
          PROVE  /\ rows'[PaidEvent(t)] # "unnamed"
                 /\ \/ rows'[PaidEvent(t)] = "absent"
                    \/ granted'[t] >= 1
                    \/ \E v \in Workers : Applying(v)' /\ Event(v)' = PaidEvent(t)
                 /\ PaidEvent(t) \in acked' => granted'[t] >= 1
      <4>1. CASE PaidEvent(t) = Event(w)
        BY <1>0, <2>1, <3>1, <3>2, <3>4, <4>1
      <4>2. CASE PaidEvent(t) # Event(w)
        BY <1>0, <1>4, <2>1, <3>3, <4>2 DEF Record
      <4>3. QED
        BY <4>1, <4>2
    <3>6. QED
      BY <1>0, <3>1, <3>2, <3>5
  <2>4. QED
    BY <1>4, <2>2, <2>3 DEF Record
<1>5. CASE Incomplete(w)
  BY <1>0, <1>5 DEF Incomplete
<1>6. CASE GrantTopup(w) \/ UpgradeWrite(w)
  <2>1. /\ work'[w].pc = "reward" /\ Event(w)' = Event(w)
        /\ rows' = rows /\ acked' = acked
        /\ granted' = [granted EXCEPT ![Event(w).txn] = @ + 1]
    BY <1>1, <1>2, <1>6 DEF GrantTopup, UpgradeWrite, gateway, Steps
  <2>2. granted'[Event(w).txn] >= 1 /\ \A t \in Txns : granted'[t] >= granted[t]
    BY <1>0, <2>1 DEF TypeOK
  <2>3. \A t \in Txns : granted[t] >= 1 => granted'[t] >= 1
    BY <1>0, <2>1 DEF TypeOK
  <2>4. QED
    BY <1>0, <2>1, <2>2, <2>3
<1>7. CASE UpgradeRead(w)
  <2>1. /\ work[w].pc = "apply" /\ work'[w].pc = "write" /\ Event(w)' = Event(w)
        /\ UNCHANGED <<rows, acked, granted>>
    BY <1>0, <1>7 DEF UpgradeRead, Event, TypeOK, WorkerState, gateway, history
  <2>2. QED
    BY <1>0, <2>1
<1>8. CASE LookUp(w)
  <2>1. /\ work'[w].pc \in {"revoke", "answer"} /\ Event(w)' = Event(w)
        /\ Event(w).kind = "refunded" /\ UNCHANGED <<rows, acked, granted>>
    BY <1>2, <1>8 DEF LookUp, gateway, history, Steps
  <2>2. QED
    BY <1>0, <2>1
<1>9. CASE Revoke(w) \/ NoReward(w) \/ RewardExclusive(w) \/ ClaimWrite(w)
  <2>1. /\ work'[w].pc = "answer" /\ Event(w)' = Event(w) /\ UNCHANGED <<rows, acked, granted>>
    BY <1>2, <1>9 DEF Revoke, NoReward, RewardExclusive, ClaimWrite, gateway, history, Steps
  <2>2. work[w].pc \in {"revoke", "reward", "claim"}
    BY <1>9 DEF Revoke, NoReward, RewardExclusive, ClaimWrite
  <2>3. QED
    BY <1>0, <2>1, <2>2
<1>10. CASE ClaimRead(w)
  <2>1. /\ work'[w].pc = "claim" /\ Event(w)' = Event(w) /\ UNCHANGED <<rows, acked, granted>>
        /\ work[w].pc = "reward"
    BY <1>0, <1>10 DEF ClaimRead, Event, TypeOK, WorkerState, gateway, history
  <2>2. QED
    BY <1>0, <2>1
<1>11. CASE Answer(w)
  <2>1. /\ work[w].pc = "answer" /\ work'[w].pc = "idle" /\ UNCHANGED <<rows, granted>>
        /\ acked' = acked \cup {Event(w)}
    BY <1>3, <1>11 DEF Answer, history
  <2>2. \A t \in Txns : Event(w) = PaidEvent(t) => granted[t] >= 1
    BY <1>0, <2>1
  <2>3. \A t \in Txns : rows[PaidEvent(t)] = "absent" \/ granted[t] >= 1
    BY <1>0, <2>1
  <2>4. QED
    BY <1>0, <2>1, <2>2, <2>3
<1>12. CASE Raises(w)
  BY <1>1, <1>12 DEF Raises
<1>13. QED
  BY <1>4, <1>5, <1>6, <1>7, <1>8, <1>9, <1>10, <1>11, <1>12 DEF Step

LEMMA AnswerStep ==
  ASSUME OneWorker, TypeInv, Calm, Calm', AnswerInv, [Next]_vars
  PROVE  AnswerInv'
<1> USE DEF history, gateway
<1>0. \A t \in Txns : PaidEvent(t) \in Events
  BY DEF PaidEvent, Events
<1>1. ASSUME NEW t \in Txns, Send(t) \/ SendRefund(t) PROVE AnswerInv'
  BY <1>1 DEF Send, SendRefund, AnswerInv, Applying, Event
<1>2. ASSUME NEW w \in Workers, NEW e \in Events, NEW named \in BOOLEAN, Deliver(w, e, named)
      PROVE  AnswerInv'
  <2>1. e.kind = "paid" => named
    BY <1>2, NoFault DEF Deliver
  <2>2. /\ work'[w].pc = "record" /\ Event(w)' = e /\ work'[w].named = named
        /\ \A v \in Workers : v = w
    BY <1>2 DEF Deliver, TypeInv, TypeOK, Event, OneWorker
  <2>3. ~Applying(w) /\ UNCHANGED <<rows, acked, granted>>
    BY <1>2 DEF Deliver, Applying
  <2>4. QED
    BY <2>1, <2>2, <2>3 DEF AnswerInv
<1>3. ASSUME NEW u \in Users, Account(u) PROVE AnswerInv'
  BY <1>3 DEF Account, SwitchRead, SwitchWrite, Launch, Return, AnswerInv, Applying, Event
<1>4. CASE CrashRestart
  BY <1>4 DEF CrashRestart, Calm, TypeInv, TypeOK
<1>5. CASE UNCHANGED vars
  BY <1>5 DEF vars, AnswerInv, Applying, Event
<1>6. QED
  BY <1>1, <1>2, <1>3, <1>4, <1>5, AnswerWorker DEF Next

\* With one worker, and until a call raises or the process dies, an answered
\* payment was granted, however its event was repeated.
THEOREM AnsweredGranted == OneWorker => (Spec => [](Calm => AnsweredIsGranted))
<1> SUFFICES ASSUME OneWorker PROVE Spec => [](Calm => AnsweredIsGranted)
  OBVIOUS
<1>1. TypeInv /\ (Calm => AnswerInv) /\ [Next]_vars => (Calm => AnswerInv)'
  BY CalmBefore, AnswerStep
<1>2. Spec => [](Calm => AnswerInv)
  BY <1>1, TypeInit, TypeStep, AnswerInit, PTL DEF Spec
<1>3. (Calm => AnswerInv) => (Calm => AnsweredIsGranted)
  BY DEF AnswerInv, AnsweredIsGranted
<1>4. QED
  BY <1>2, <1>3, PTL

-----------------------------------------------------------------------------
(* Refunds.  A gateway that sends the refund of a payment only after that   *)
(* payment was answered (InOrder) has the payment granted by then, so no    *)
(* upgrade of it can follow the downgrade.                                  *)

Alone(t) == \A o \in Txns \ {t} : Payer[o] # Payer[t] \/ Pack[o] # Pack[t]
TakenBack(t) == plan[Payer[t]] = Free \/ plan[Payer[t]] # Pack[t]

RevokeInv ==
    \A t \in Txns :
        /\ RefundEvent(t) \in sent => PaidEvent(t) \in acked
        /\ rows[RefundEvent(t)] # "absent" => RefundEvent(t) \in sent
        /\ Alone(t) =>
              /\ \/ rows[RefundEvent(t)] = "absent"
                 \/ TakenBack(t)
                 \/ \E w \in Workers : /\ work[w].pc \in {"apply", "revoke"}
                                       /\ Event(w) = RefundEvent(t)
              /\ \A w \in Workers :
                    work[w].pc = "answer" /\ Event(w) = RefundEvent(t) => TakenBack(t)
              /\ RefundEvent(t) \in acked => TakenBack(t)

LEMMA RevokeInit == Init => RevokeInv
BY DEF Init, RevokeInv, IdleWork, Event, RefundEvent, Events

LEMMA RevokeWorker ==
  ASSUME OneWorker, InOrder, TypeInv, GrantInv, Calm, Calm', AnswerInv, RevokeInv,
         NEW w \in Workers, Step(w) \/ Raises(w)
  PROVE  RevokeInv'
<1>0. /\ Moves(w) /\ WorkInvAt(w) /\ work[w] \in WorkerState /\ TypeOK /\ sent' = sent
      /\ Event(w) \in Events /\ Event(w).txn \in Txns /\ Event(w).kind \in {"paid", "refunded"}
      /\ Event(w) = [kind |-> Event(w).kind, txn |-> Event(w).txn]
      /\ \A v \in Workers : v = w
      /\ \A t \in Txns : /\ RefundEvent(t) \in Events /\ PaidEvent(t) \in Events
                         /\ RefundEvent(t).kind = "refunded" /\ RefundEvent(t).txn = t
                         /\ PaidEvent(t).kind = "paid" /\ PaidEvent(t).txn = t
  BY WorkStep, EventTypes
     DEF TypeInv, WorkInv, WorkInvAt, OneWorker, PaidEvent, RefundEvent, Events
<1>1. ~Fault
  BY NoFault
<1>2. ASSUME NEW pc \in Steps, Goto(w, pc)
      PROVE  work'[w].pc = pc /\ Event(w)' = Event(w) /\ work'[w].named = work[w].named
  BY <1>0, <1>2, GotoWork DEF Event
<1>3. ASSUME Ends(w) PROVE work'[w].pc = "idle"
  BY <1>0, <1>3, EndsWork
<1> USE DEF RevokeInv
<1>4. CASE Record(w)
  <2>1. acked' = acked /\ plan' = plan /\ work[w].pc = "record"
    BY <1>4 DEF Record, gateway, account
  <2>2. \A t \in Txns : TakenBack(t)' = TakenBack(t)
    BY <2>1 DEF TakenBack
  <2>3. CASE rows[Event(w)] # "absent" /\ Goto(w, "answer") /\ UNCHANGED rows
    <3>1. work'[w].pc = "answer" /\ Event(w)' = Event(w)
      BY <1>2, <2>3 DEF Steps
    <3>2. \A t \in Txns : Alone(t) => rows[RefundEvent(t)] = "absent" \/ TakenBack(t)
      BY <1>0, <2>1
    <3>3. QED
      BY <1>0, <2>1, <2>2, <2>3, <3>1, <3>2 DEF Alone
  <2>4. CASE /\ rows[Event(w)] = "absent" /\ Goto(w, "apply")
             /\ rows' = [rows EXCEPT ![Event(w)] =
                            IF work[w].named THEN "named" ELSE "unnamed"]
    <3>1. work'[w].pc = "apply" /\ Event(w)' = Event(w)
      BY <1>2, <2>4 DEF Steps
    <3>2. \A e \in Events \ {Event(w)} : rows'[e] = rows[e]
      BY <2>4, <1>0 DEF TypeOK
    <3>3. Event(w) \in sent
      BY <1>0, <2>1 DEF WorkInvAt
    <3>4. ASSUME NEW t \in Txns
          PROVE  /\ rows'[RefundEvent(t)] # "absent" => RefundEvent(t) \in sent
                 /\ Alone(t) => \/ rows'[RefundEvent(t)] = "absent"
                                \/ TakenBack(t)
                                \/ Event(w) = RefundEvent(t)
      <4>1. CASE RefundEvent(t) = Event(w)
        BY <3>3, <4>1
      <4>2. CASE RefundEvent(t) # Event(w)
        BY <1>0, <2>1, <3>2, <4>2
      <4>3. QED
        BY <4>1, <4>2
    <3>5. QED
      BY <1>0, <2>1, <2>2, <3>1, <3>4 DEF Alone
  <2>5. QED
    BY <1>4, <2>3, <2>4 DEF Record
<1>5. CASE Incomplete(w)
  BY <1>0, <1>5 DEF Incomplete, AnswerInv
<1>6. CASE GrantTopup(w) \/ UpgradeRead(w) \/ NoReward(w) \/ RewardExclusive(w)
           \/ ClaimRead(w) \/ ClaimWrite(w)
  <2>1. /\ Event(w)' = Event(w) /\ Event(w).kind = "paid"
        /\ UNCHANGED <<rows, acked, plan>>
    BY <1>0, <1>2, <1>6
       DEF GrantTopup, UpgradeRead, NoReward, RewardExclusive, ClaimRead, ClaimWrite, account,
           gateway, Steps, Event, WorkInvAt, TypeOK, WorkerState
  <2>2. \A t \in Txns : TakenBack(t)' = TakenBack(t)
    BY <2>1 DEF TakenBack
  <2>3. QED
    BY <1>0, <2>1, <2>2 DEF Alone
<1>7. CASE UpgradeWrite(w)
  <2>1. /\ work'[w].pc = "reward" /\ Event(w)' = Event(w) /\ Event(w).kind = "paid"
        /\ UNCHANGED <<rows, acked>>
        /\ plan' = [plan EXCEPT ![Buyer(w)] = Bought(w)]
    BY <1>0, <1>2, <1>7 DEF UpgradeWrite, gateway, Steps, WorkInvAt
  <2>2. granted[Event(w).txn] = 0
    BY <1>7, <2>1 DEF UpgradeWrite, GrantInv, Applying
  <2>3. Event(w) = PaidEvent(Event(w).txn) /\ PaidEvent(Event(w).txn) \notin acked
    BY <1>0, <2>1, <2>2 DEF AnswerInv, PaidEvent
  <2>4. RefundEvent(Event(w).txn) \notin sent
    BY <1>0, <2>3
  <2>5. ASSUME NEW t \in Txns, t # Event(w).txn, Alone(t), TakenBack(t) PROVE TakenBack(t)'
    <3>1. Payer[t] # Buyer(w) \/ Pack[t] # Bought(w)
      BY <1>0, <2>5 DEF Alone, Buyer, Bought
    <3>2. Payer[t] \in Users /\ Buyer(w) \in Users
      BY <1>0 DEF Buyer
    <3>3. QED
      BY <1>0, <2>1, <2>5, <3>1, <3>2 DEF TakenBack, TypeOK
  <2>6. acked \subseteq sent
    BY <1>0 DEF TypeOK
  <2>7. QED
    BY <1>0, <2>1, <2>4, <2>5, <2>6 DEF Alone
<1>8. CASE LookUp(w)
  <2>1. /\ Event(w)' = Event(w) /\ UNCHANGED <<rows, acked, plan>>
        /\ Event(w).kind = "refunded" /\ work[w].pc = "apply"
        /\ work'[w].pc = IF work[w].named \/ rows[PaidEvent(Event(w).txn)] = "named"
                         THEN "revoke" ELSE "answer"
    BY <1>2, <1>8 DEF LookUp, gateway, account, Steps
  <2>2. Event(w) = RefundEvent(Event(w).txn) /\ Event(w) \in sent
    BY <1>0, <2>1 DEF RefundEvent, WorkInvAt
  <2>3. granted[Event(w).txn] >= 1
    BY <1>0, <2>2 DEF AnswerInv
  <2>4. rows[PaidEvent(Event(w).txn)] = "named"
    BY <1>0, <2>3 DEF AnswerInv, GrantInv, TypeOK
  <2>5. work'[w].pc = "revoke"
    BY <2>1, <2>4
  <2>6. \A t \in Txns : TakenBack(t)' = TakenBack(t)
    BY <2>1 DEF TakenBack
  <2>7. QED
    BY <1>0, <2>1, <2>5, <2>6 DEF Alone
<1>9. CASE Revoke(w)
  <2>1. /\ work'[w].pc = "answer" /\ Event(w)' = Event(w) /\ UNCHANGED <<rows, acked>>
        /\ plan' = [plan EXCEPT ![Buyer(w)] = Free]
    BY <1>2, <1>9 DEF Revoke, gateway, Steps
  <2>2. TakenBack(Event(w).txn)'
    BY <1>0, <2>1 DEF TakenBack, Buyer, TypeOK
  <2>3. \A t \in Txns : TakenBack(t) => TakenBack(t)'
    BY <1>0, <2>1 DEF TakenBack, Buyer, TypeOK
  <2>4. QED
    BY <1>0, <2>1, <2>2, <2>3 DEF Alone
<1>10. CASE Answer(w)
  <2>1. /\ work[w].pc = "answer" /\ work'[w].pc = "idle" /\ UNCHANGED <<rows, plan>>
        /\ acked' = acked \cup {Event(w)}
    BY <1>3, <1>10 DEF Answer, account
  <2>2. \A t \in Txns : TakenBack(t)' = TakenBack(t)
    BY <2>1 DEF TakenBack
  <2>3. QED
    BY <1>0, <2>1, <2>2 DEF Alone
<1>11. CASE Raises(w)
  BY <1>1, <1>11 DEF Raises
<1>12. QED
  BY <1>4, <1>5, <1>6, <1>7, <1>8, <1>9, <1>10, <1>11 DEF Step

LEMMA RevokeStep ==
  ASSUME OneWorker, InOrder, TypeInv, GrantInv, Calm, Calm', AnswerInv, RevokeInv, [Next]_vars
  PROVE  RevokeInv'
<1> USE DEF history, gateway, account
<1>1. ASSUME NEW t \in Txns, Send(t) \/ SendRefund(t) PROVE RevokeInv'
  <2>1. UNCHANGED <<plan, rows, work, acked>> /\ sent \subseteq sent'
    BY <1>1 DEF Send, SendRefund
  <2>2. \A s \in Txns : RefundEvent(s) \in sent' => RefundEvent(s) \in sent \/ PaidEvent(s) \in acked
    BY <1>1 DEF Send, SendRefund, PaidEvent, RefundEvent
  <2>3. QED
    BY <2>1, <2>2 DEF RevokeInv, TakenBack, Event
<1>2. ASSUME NEW w \in Workers, NEW e \in Events, NEW named \in BOOLEAN, Deliver(w, e, named)
      PROVE  RevokeInv'
  <2>1. /\ work[w].pc = "idle" /\ work'[w].pc = "record"
        /\ \A v \in Workers : v = w
        /\ UNCHANGED <<plan, rows, acked, sent>>
    BY <1>2 DEF Deliver, TypeInv, TypeOK, OneWorker
  <2>2. QED
    BY <2>1 DEF RevokeInv, TakenBack
<1>3. ASSUME NEW u \in Users, Account(u) PROVE RevokeInv'
  <2>1. UNCHANGED <<rows, work, acked, sent>>
    BY <1>3 DEF Account, SwitchRead, SwitchWrite, Launch, Return
  <2>2. plan' = plan \/ plan' = [plan EXCEPT ![u] = Free]
    BY <1>3 DEF Account, SwitchRead, SwitchWrite, Launch, Return
  <2>3. \A t \in Txns : TakenBack(t) => TakenBack(t)'
    BY <2>2 DEF TakenBack, TypeInv, TypeOK
  <2>4. QED
    BY <2>1, <2>3 DEF RevokeInv, Event, Alone
<1>4. CASE CrashRestart
  BY <1>4 DEF CrashRestart, Calm, TypeInv, TypeOK
<1>5. CASE UNCHANGED vars
  BY <1>5 DEF vars, RevokeInv, TakenBack, Event
<1>6. QED
  BY <1>1, <1>2, <1>3, <1>4, <1>5, RevokeWorker DEF Next

\* With one worker, a gateway that keeps the order, and until a call raises or the
\* process dies, an answered refund took the plan away, though not the credits, and
\* nothing brings the plan back.
THEOREM RefundsRevoke ==
  OneWorker /\ InOrder => (Spec => [](Calm => RefundRevokes))
<1> SUFFICES ASSUME OneWorker, InOrder PROVE Spec => [](Calm => RefundRevokes)
  OBVIOUS
<1> DEFINE Inv == Calm => AnswerInv /\ RevokeInv
<1>1. Init => Inv
  BY AnswerInit, RevokeInit
<1>2. TypeInv /\ GrantInv /\ Inv /\ [Next]_vars => Inv'
  BY CalmBefore, AnswerStep, RevokeStep
<1>3. Spec => []Inv
  <2> HIDE DEF Inv
  <2> QED
    BY <1>1, <1>2, TypeInit, TypeStep, GrantInit, GrantStep, PTL DEF Spec
<1>4. Inv => (Calm => RefundRevokes)
  BY DEF RevokeInv, RefundRevokes, Alone, TakenBack
<1>5. QED
  BY <1>3, <1>4, PTL

-----------------------------------------------------------------------------
(* The balance of an account that keeps its plan.  upgrade_plan writes an   *)
(* absolute balance, over whatever happened since its SELECT, so the        *)
(* theorem is about a gateway that sells top-ups, and holds until the first *)
(* switch to the free plan.                                                 *)

TopupsOnly == \A t \in Txns : Pack[t] = Topup
NoSwitch == used.switch = 0

\* The top-ups granted to an account.
GrantedTo(u) == {t \in Txns : granted[t] > 0 /\ Payer[t] = u /\ Pack[t] = Topup}

\* What they were worth, and the welcome bonuses with them.
TopupValue(u) == PackCredits[Topup] * SumOver(granted, GrantedTo(u))
BonusValue(u) == Bonus * bonuses[u]

\* What came in and what went out.
TallyOf(u) ==
    /\ IsFiniteSet(GrantedTo(u))
    /\ credits[u] + spent[u]
         = PackCredits[Free] + TopupValue(u) + returned[u] + earned[u] + BonusValue(u)

TallyInv ==
    /\ \A u \in Users : switch[u].on => ~NoSwitch
    /\ NoSwitch => \A u \in Users : TallyOf(u)

LEMMA TimesNext == \A a, b \in Int : a * (b + 1) = a * b + a /\ a * b \in Int
OBVIOUS

LEMMA NoSwitchBefore == TypeInv /\ [Next]_vars /\ NoSwitch' => NoSwitch
<1> SUFFICES ASSUME TypeInv, [Next]_vars, NoSwitch' PROVE NoSwitch
  OBVIOUS
<1>1. used \in [crash : Nat, fault : Nat, switch : Nat, launch : Nat]
  BY DEF TypeInv, TypeOK
<1>2. QED
  BY <1>1, UsedGrows DEF NoSwitch

\* The terms of the tally are numbers.
LEMMA TallyTerms ==
  ASSUME TypeInv, NEW u \in Users, IsFiniteSet(GrantedTo(u))
  PROVE  /\ credits[u] \in Nat /\ spent[u] \in Nat /\ returned[u] \in Nat
         /\ earned[u] \in Nat /\ bonuses[u] \in Nat
         /\ PackCredits[Free] \in Nat /\ PackCredits[Topup] \in Nat
         /\ SumOver(granted, GrantedTo(u)) \in Int
         /\ TopupValue(u) \in Int /\ BonusValue(u) \in Int
<1>1. /\ credits[u] \in Nat /\ spent[u] \in Nat /\ returned[u] \in Nat
      /\ earned[u] \in Nat /\ bonuses[u] \in Nat
      /\ PackCredits[Free] \in Nat /\ PackCredits[Topup] \in Nat
  BY DEF TypeInv, TypeOK
<1>2. SumOver(granted, GrantedTo(u)) \in Int
  <2>1. \A t \in GrantedTo(u) : granted[t] \in Int
    BY DEF TypeInv, TypeOK, GrantedTo
  <2>2. QED
    BY <2>1, SumType
<1>3. QED
  BY <1>1, <1>2, TimesNext DEF TopupValue, BonusValue

\* A step that moves as much into an account as out of it, and grants nothing,
\* keeps the tally.
LEMMA TallyMoves ==
  ASSUME TypeInv, NEW u \in Users, TallyOf(u), granted' = granted,
         NEW in \in Int, NEW out \in Int,
         credits'[u] = credits[u] + in - out,
         spent'[u] + in
           = spent[u] + out + (returned'[u] - returned[u]) + (earned'[u] - earned[u])
             + (BonusValue(u)' - BonusValue(u)),
         spent'[u] \in Nat, returned'[u] \in Nat, earned'[u] \in Nat, BonusValue(u)' \in Int
  PROVE  TallyOf(u)'
<1>1. GrantedTo(u)' = GrantedTo(u) /\ IsFiniteSet(GrantedTo(u)) /\ TopupValue(u)' = TopupValue(u)
  BY DEF GrantedTo, TallyOf, TopupValue
<1>2. /\ credits[u] + spent[u]
           = PackCredits[Free] + TopupValue(u) + returned[u] + earned[u] + BonusValue(u)
      /\ credits[u] \in Nat /\ spent[u] \in Nat /\ returned[u] \in Nat /\ earned[u] \in Nat
      /\ PackCredits[Free] \in Nat /\ TopupValue(u) \in Int /\ BonusValue(u) \in Int
  BY <1>1, TallyTerms DEF TallyOf
<1>3. credits'[u] + spent'[u]
        = PackCredits[Free] + TopupValue(u) + returned'[u] + earned'[u] + BonusValue(u)'
  BY <1>2
<1>4. QED
  BY <1>1, <1>3 DEF TallyOf

\* add_credits for a payment: one more top-up, whose price the balance grows by.
LEMMA TallyGrant ==
  ASSUME TypeInv, GrantInv, TopupsOnly, NEW w \in Workers, GrantTopup(w), granted' # granted,
         \A u \in Users : TallyOf(u)
  PROVE  \A u \in Users : TallyOf(u)'
<1> DEFINE t == Event(w).txn
<1>1. t \in Txns /\ Payer[t] \in Users
  BY EventTypes DEF TypeInv
<1>2. /\ credits' = [credits EXCEPT ![Payer[t]] = @ + PackCredits[Topup]]
      /\ granted' = [granted EXCEPT ![t] = @ + 1]
      /\ spent' = spent /\ returned' = returned /\ earned' = earned /\ bonuses' = bonuses
  BY DEF GrantTopup, Buyer, launches
<1>3. granted[t] = 0
  BY DEF GrantTopup, GrantInv, Applying
<1> HIDE DEF t
<1> SUFFICES ASSUME NEW u \in Users PROVE TallyOf(u)'
  OBVIOUS
<1> DEFINE G == GrantedTo(u)
           sum == SumOver(granted, G)
<1>4. IsFiniteSet(G) /\ TallyOf(u)
  BY DEF TallyOf
<1>5. /\ credits[u] \in Nat /\ spent[u] \in Nat /\ returned[u] \in Nat /\ earned[u] \in Nat
      /\ PackCredits[Free] \in Nat /\ PackCredits[Topup] \in Nat
      /\ sum \in Int /\ TopupValue(u) \in Int /\ BonusValue(u) \in Int
  BY <1>4, TallyTerms
<1>6. t \notin G /\ \A o \in G : granted'[o] = granted[o] /\ granted'[o] \in Int
  BY <1>1, <1>2, <1>3 DEF GrantedTo, TypeInv, TypeOK
<1>7. SumOver(granted', G) = sum
  BY <1>4, <1>6, SumSame
<1>8. BonusValue(u)' = BonusValue(u)
  BY <1>2 DEF BonusValue
<1>9. CASE Payer[t] # u
  <2>1. G' = G
    BY <1>1, <1>2, <1>9 DEF GrantedTo, TypeInv, TypeOK
  <2>2. credits'[u] = credits[u]
    BY <1>1, <1>2, <1>9 DEF TypeInv, TypeOK
  <2>3. QED
    BY <1>2, <1>4, <1>7, <1>8, <2>1, <2>2 DEF TallyOf, TopupValue
<1>10. CASE Payer[t] = u
  <2>1. G' = G \cup {t} /\ granted'[t] = 1
    BY <1>1, <1>2, <1>3, <1>10 DEF GrantedTo, TypeInv, TypeOK, TopupsOnly
  <2>2. IsFiniteSet(G') /\ G' \ {t} = G
    BY <1>4, <1>6, <2>1, FS_AddElement
  <2>3. SumOver(granted', G') = 1 + sum
    BY <1>6, <1>7, <2>1, <2>2, SumTake
  <2>4. credits'[u] = credits[u] + PackCredits[Topup]
    BY <1>1, <1>2, <1>10 DEF TypeInv, TypeOK
  <2>5. TopupValue(u)' = TopupValue(u) + PackCredits[Topup]
    BY <1>5, <2>3, TimesNext DEF TopupValue
  <2> HIDE DEF sum
  <2>6. credits[u] + spent[u]
          = PackCredits[Free] + TopupValue(u) + returned[u] + earned[u] + BonusValue(u)
    BY <1>4 DEF TallyOf
  <2>7. credits'[u] + spent[u]
          = PackCredits[Free] + TopupValue(u)' + returned[u] + earned[u] + BonusValue(u)
    BY <1>5, <2>4, <2>5, <2>6
  <2>8. QED
    BY <1>2, <1>8, <2>2, <2>7 DEF TallyOf
<1>11. QED
  BY <1>9, <1>10

LEMMA TallyAt ==
  ASSUME NEW u \in Users, TallyOf(u), granted' = granted,
         /\ credits'[u] = credits[u] /\ spent'[u] = spent[u] /\ returned'[u] = returned[u]
         /\ earned'[u] = earned[u] /\ bonuses'[u] = bonuses[u]
  PROVE  TallyOf(u)'
BY DEF TallyOf, GrantedTo, TopupValue, BonusValue

\* A reward pays the referrer what it earned and its friend the bonus.
LEMMA TallyReward ==
  ASSUME TypeInv, NEW v \in Users, NEW r \in Users, r # v, NEW amount \in Nat,
         Rewarded(v, r, amount), UNCHANGED <<spent, returned, granted>>,
         \A u \in Users : TallyOf(u)
  PROVE  \A u \in Users : TallyOf(u)'
<1>1. /\ credits' = [credits EXCEPT ![r] = @ + amount, ![v] = @ + Bonus]
      /\ earned' = [earned EXCEPT ![r] = @ + amount]
      /\ bonuses' = [bonuses EXCEPT ![v] = @ + 1]
  BY DEF Rewarded, Paid
<1> SUFFICES ASSUME NEW u \in Users PROVE TallyOf(u)'
  OBVIOUS
<1>2. /\ TallyOf(u) /\ credits[u] \in Nat /\ spent[u] \in Nat /\ returned[u] \in Nat
      /\ earned[u] \in Nat /\ bonuses[u] \in Nat /\ BonusValue(u) \in Int
  BY TallyTerms DEF TallyOf
<1>3. CASE u = r
  <2>1. /\ credits'[u] = credits[u] + amount - 0 /\ earned'[u] = earned[u] + amount
        /\ bonuses'[u] = bonuses[u]
    BY <1>1, <1>3 DEF TypeInv, TypeOK
  <2>2. BonusValue(u)' = BonusValue(u)
    BY <2>1 DEF BonusValue
  <2>3. spent'[u] + amount
          = spent[u] + 0 + (returned'[u] - returned[u]) + (earned'[u] - earned[u])
            + (BonusValue(u)' - BonusValue(u))
    BY <1>2, <2>1, <2>2
  <2>4. QED
    BY <1>2, <2>1, <2>2, <2>3, TallyMoves
<1>4. CASE u = v
  <2>1. /\ credits'[u] = credits[u] + Bonus - 0 /\ earned'[u] = earned[u]
        /\ bonuses'[u] = bonuses[u] + 1
    BY <1>1, <1>4 DEF TypeInv, TypeOK
  <2>2. BonusValue(u)' = BonusValue(u) + Bonus
    BY <1>2, <2>1, TimesNext DEF BonusValue
  <2>3. spent'[u] + Bonus
          = spent[u] + 0 + (returned'[u] - returned[u]) + (earned'[u] - earned[u])
            + (BonusValue(u)' - BonusValue(u))
    BY <1>2, <2>1, <2>2
  <2>4. QED
    BY <1>2, <2>1, <2>2, <2>3, TallyMoves
<1>5. CASE u # r /\ u # v
  <2>1. credits'[u] = credits[u] /\ earned'[u] = earned[u] /\ bonuses'[u] = bonuses[u]
    BY <1>1, <1>5 DEF TypeInv, TypeOK
  <2>2. QED
    BY <1>2, <2>1, TallyAt
<1>6. QED
  BY <1>3, <1>4, <1>5

LEMMA TallyAlone ==
  ASSUME NEW u \in Users, TallyOf(u),
         UNCHANGED <<credits, spent, returned, granted, earned, bonuses>>
  PROVE  TallyOf(u)'
BY DEF TallyOf, GrantedTo, TopupValue, BonusValue

LEMMA TallyWorker ==
  ASSUME TypeInv, GrantInv, TopupsOnly, NEW w \in Workers, Step(w) \/ Raises(w),
         \A u \in Users : TallyOf(u)
  PROVE  \A u \in Users : TallyOf(u)'
<1> USE DEF account, launches, history
<1>0. /\ WorkInvAt(w) /\ work[w] \in WorkerState /\ TypeOK
      /\ Buyer(w) \in Users
  BY EventTypes DEF TypeInv, WorkInv, WorkInvAt
<1>1. ASSUME UNCHANGED <<credits, spent, returned, granted, earned, bonuses>>
      PROVE  \A u \in Users : TallyOf(u)'
  BY <1>1, TallyAlone
<1>2. CASE \/ Record(w) \/ Incomplete(w) \/ UpgradeRead(w) \/ LookUp(w) \/ Revoke(w)
           \/ NoReward(w) \/ ClaimRead(w) \/ Answer(w) \/ Raises(w)
  BY <1>1, <1>2 DEF Record, Incomplete, UpgradeRead, LookUp, Revoke, NoReward, ClaimRead,
                    Answer, Raises
<1>3. CASE GrantTopup(w)
  <2>1. CASE granted' = granted
    <3>1. granted[Event(w).txn] \in Nat /\ Event(w).txn \in Txns
      BY <1>0, EventTypes DEF TypeOK
    <3>2. granted' # [granted EXCEPT ![Event(w).txn] = @ + 1]
      BY <1>0, <2>1, <3>1 DEF TypeOK
    <3>3. QED
      BY <1>1, <1>3, <2>1, <3>2 DEF GrantTopup
  <2>2. CASE granted' # granted
    BY <1>3, <2>2, TallyGrant
  <2>3. QED
    BY <2>1, <2>2
<1>4. CASE UpgradeWrite(w)
  BY <1>0, <1>4, EventTypes DEF UpgradeWrite, WorkInvAt, TopupsOnly, Bought
<1>5. CASE RewardExclusive(w)
  <2>1. /\ Referrer[Buyer(w)] \in Users /\ Referrer[Buyer(w)] # Buyer(w)
        /\ Rewarded(Buyer(w), Referrer[Buyer(w)], RewardOf(credits[Referrer[Buyer(w)]]))
    BY <1>0, <1>5 DEF RewardExclusive
  <2>2. RewardOf(credits[Referrer[Buyer(w)]]) \in Nat
    BY <1>0, <2>1, RewardNat DEF TypeOK
  <2>3. QED
    BY <1>0, <1>5, <2>1, <2>2, TallyReward DEF RewardExclusive
<1>6. CASE ClaimWrite(w)
  <2>1. /\ Referrer[Buyer(w)] \in Users /\ Referrer[Buyer(w)] # Buyer(w)
        /\ Rewarded(Buyer(w), Referrer[Buyer(w)], work[w].seen)
        /\ work[w].seen \in Nat
    BY <1>0, <1>6 DEF ClaimWrite, WorkInvAt, WorkerState
  <2>2. QED
    BY <1>0, <1>6, <2>1, TallyReward DEF ClaimWrite
<1>7. QED
  BY <1>2, <1>3, <1>4, <1>5, <1>6 DEF Step

LEMMA TallyAccount ==
  ASSUME TypeInv, NEW v \in Users, Launch(v) \/ Return(v), \A u \in Users : TallyOf(u)
  PROVE  \A u \in Users : TallyOf(u)'
<1> USE DEF history
<1> SUFFICES ASSUME NEW u \in Users PROVE TallyOf(u)'
  OBVIOUS
<1>1. /\ credits[u] \in Nat /\ spent[u] \in Nat /\ returned[u] \in Nat
      /\ earned[u] \in Nat /\ TallyOf(u) /\ BonusValue(u) \in Int
  BY TallyTerms DEF TallyOf
<1>2. CASE Launch(v)
  <2>1. CASE u = v
    <3>1. /\ credits'[u] = credits[u] + 0 - 1 /\ spent'[u] = spent[u] + 1
          /\ returned'[u] = returned[u] /\ earned'[u] = earned[u] /\ granted' = granted
      BY <1>1, <1>2, <2>1 DEF Launch, TypeInv, TypeOK
    <3>2. BonusValue(u)' = BonusValue(u)
      BY <1>2 DEF Launch, BonusValue
    <3>3. spent'[u] + 0
            = spent[u] + 1 + (returned'[u] - returned[u]) + (earned'[u] - earned[u])
              + (BonusValue(u)' - BonusValue(u))
      BY <1>1, <3>1, <3>2
    <3>4. QED
      BY <1>1, <3>1, <3>2, <3>3, TallyMoves, SMTT(30)
  <2>2. CASE u # v
    BY <1>1, <1>2, <2>2, TallyAt DEF Launch, TypeInv, TypeOK
  <2>3. QED
    BY <2>1, <2>2
<1>3. CASE Return(v)
  <2>1. CASE u = v
    <3>1. /\ credits'[u] = credits[u] + 1 - 0 /\ returned'[u] = returned[u] + 1
          /\ spent'[u] = spent[u] /\ earned'[u] = earned[u] /\ granted' = granted
      BY <1>1, <1>3, <2>1 DEF Return, TypeInv, TypeOK
    <3>2. BonusValue(u)' = BonusValue(u)
      BY <1>3 DEF Return, BonusValue
    <3>3. spent'[u] + 1
            = spent[u] + 0 + (returned'[u] - returned[u]) + (earned'[u] - earned[u])
              + (BonusValue(u)' - BonusValue(u))
      BY <1>1, <3>1, <3>2
    <3>4. QED
      BY <1>1, <3>1, <3>2, <3>3, TallyMoves
  <2>2. CASE u # v
    BY <1>1, <1>3, <2>2, TallyAt DEF Return, TypeInv, TypeOK
  <2>3. QED
    BY <2>1, <2>2
<1>4. QED
  BY <1>2, <1>3

LEMMA TallyStep ==
  ASSUME TopupsOnly
  PROVE  TypeInv /\ GrantInv /\ TallyInv /\ [Next]_vars => TallyInv'
<1> SUFFICES ASSUME TypeInv, GrantInv, TallyInv, [Next]_vars PROVE TallyInv'
  OBVIOUS
<1> USE DEF account, launches, history
<1>0. NoSwitch' => NoSwitch
  BY NoSwitchBefore
<1>1. ASSUME switch' = switch, NoSwitch => \A u \in Users : TallyOf(u)' PROVE TallyInv'
  BY <1>0, <1>1 DEF TallyInv
<1>2. ASSUME UNCHANGED <<credits, spent, returned, granted, earned, bonuses>>
      PROVE  NoSwitch => \A u \in Users : TallyOf(u)'
  BY <1>2, TallyAlone DEF TallyInv
<1>3. ASSUME NEW t \in Txns, Send(t) \/ SendRefund(t) PROVE TallyInv'
  BY <1>1, <1>2, <1>3 DEF Send, SendRefund
<1>4. ASSUME NEW w \in Workers, NEW e \in Events, NEW named \in BOOLEAN, Deliver(w, e, named)
      PROVE  TallyInv'
  BY <1>1, <1>2, <1>4 DEF Deliver
<1>5. ASSUME NEW w \in Workers, Step(w) \/ Raises(w) PROVE TallyInv'
  <2>1. switch' = switch
    BY <1>5 DEF Step, Record, Incomplete, GrantTopup, UpgradeRead, UpgradeWrite, LookUp, Revoke,
                NoReward, RewardExclusive, ClaimRead, ClaimWrite, Answer, Raises
  <2>2. QED
    BY <1>1, <1>5, <2>1, TallyWorker DEF TallyInv
<1>6. ASSUME NEW u \in Users, Launch(u) \/ Return(u) PROVE TallyInv'
  <2>1. switch' = switch
    BY <1>6 DEF Launch, Return
  <2>2. QED
    BY <1>1, <1>6, <2>1, TallyAccount DEF TallyInv
<1>7. ASSUME NEW u \in Users, SwitchRead(u) PROVE TallyInv'
  <2>1. ~NoSwitch'
    BY <1>7 DEF SwitchRead, NoSwitch, TypeInv, TypeOK
  <2>2. QED
    BY <2>1 DEF TallyInv
<1>8. ASSUME NEW u \in Users, SwitchWrite(u) PROVE TallyInv'
  <2>1. ~NoSwitch'
    BY <1>0, <1>8 DEF SwitchWrite, TallyInv
  <2>2. QED
    BY <2>1 DEF TallyInv
<1>9. CASE CrashRestart
  <2>1. \A u \in Users : ~switch'[u].on
    BY <1>9 DEF CrashRestart, IdleSwitch
  <2>2. QED
    BY <1>0, <1>2, <1>9, <2>1 DEF CrashRestart, TallyInv
<1>10. CASE UNCHANGED vars
  BY <1>1, <1>2, <1>10 DEF vars
<1>11. QED
  BY <1>3, <1>4, <1>5, <1>6, <1>7, <1>8, <1>9, <1>10 DEF Next, Account

LEMMA TallyInit == Init => TallyInv
<1> SUFFICES ASSUME Init, NEW u \in Users PROVE ~switch[u].on /\ TallyOf(u)
  BY DEF TallyInv
<1>1. GrantedTo(u) = {}
  BY DEF Init, GrantedTo
<1>2. SumOver(granted, {}) = 0 /\ IsFiniteSet({})
  BY FS_EmptySet, SumStep
<1>3. PackCredits[Free] \in Nat /\ PackCredits[Topup] * 0 = 0 /\ Bonus * 0 = 0
  <2>1. PackCredits[Free] \in Nat /\ PackCredits[Topup] \in Nat
    OBVIOUS
  <2>2. QED
    BY <2>1
<1>4. QED
  BY <1>1, <1>2, <1>3 DEF Init, TallyOf, TopupValue, BonusValue, IdleSwitch

\* Where only top-ups are sold, and until somebody switches to the free plan, the
\* balance is what add_credits, reward_referrer_once and refund_launch_credit put
\* in, less what deduct_credit took, on either store, with any number of webhook
\* workers, redeliveries, failing calls and restarts.
THEOREM TopupsKept == TopupsOnly => (Spec => [](NoSwitch => TopupsConserved))
<1> SUFFICES ASSUME TopupsOnly PROVE Spec => [](NoSwitch => TopupsConserved)
  OBVIOUS
<1>1. TypeInv /\ GrantInv /\ TallyInv /\ [Next]_vars => TallyInv'
  BY TallyStep
<1>2. Spec => []TallyInv
  BY <1>1, TallyInit, TypeInit, TypeStep, GrantInit, GrantStep, PTL DEF Spec
<1>3. TallyInv => (NoSwitch => TopupsConserved)
  BY DEF TallyInv, TallyOf, TopupValue, BonusValue, GrantedTo, TopupsConserved, SumOver, MapThenSumSet, MapThenFoldSet
<1>4. QED
  BY <1>2, <1>3, PTL

=============================================================================
