-------------------------- MODULE LaunchLedgerProofs --------------------------
(***************************************************************************)
(* Theorems about LaunchLedger for every set of users and launches, every  *)
(* number of lanes and every bound.                                        *)
(***************************************************************************)
EXTENDS LaunchLedger, FiniteSums, TLAPS

USE LedgerAssumption

-----------------------------------------------------------------------------
(* Type correctness. *)

\* The executing lane of a thin driver is a lane of the board; a launch whose
\* request has begun has an owner; drivers, rows and reopenings come after it.
LocalOK ==
    \A l \in Launches :
        /\ drvPc[l] = "exec" => drv[l].at \in Lanes
        /\ reqPc[l] # "idle" => owner[l] \in Users
        /\ drvPc[l] # "none" \/ row[l] # "absent" \/ reopen[l] # "idle" => reqPc[l] # "idle"

TypeInv == TypeOK /\ LocalOK

UsedType == [crash : Nat, fault : Nat, reopen : Nat, dispatch : Nat]

\* One step of a bound's counter keeps the record of bounds.
LEMMA FaultType ==
  ASSUME TypeOK, Fault
  PROVE  used' \in UsedType
  BY SMTT(30) DEF TypeOK, Fault, UsedType

\* Handing a launch to the finalizer keeps the driver's locals.
LEMMA GoFinalizeType ==
  ASSUME TypeInv, NEW l \in Launches, NEW out \in Outcomes, GoFinalize(l, out)
  PROVE  /\ drv' \in [Launches -> DriverLocals]
         /\ drvPc' \in [Launches -> DriverStates]
         /\ \A k \in Launches : drvPc'[k] = "exec" => drvPc[k] = "exec" /\ drv'[k].at = drv[k].at
         /\ \A k \in Launches : drvPc'[k] = "none" => drvPc[k] = "none"
         /\ \A k \in Launches : k # l => drvPc'[k] = drvPc[k]
<1>1. drv' \in [Launches -> DriverLocals]
  <2>1. drv \in [Launches -> DriverLocals] /\ drv' = [drv EXCEPT ![l].out = out]
    BY DEF TypeInv, TypeOK, GoFinalize
  <2>2. QED
    BY <2>1 DEF DriverLocals
<1>2. drvPc' \in [Launches -> DriverStates]
  BY DEF TypeInv, TypeOK, GoFinalize, DriverStates, Finalizing
<1>3. \A k \in Launches : drvPc'[k] = "exec" => drvPc[k] = "exec" /\ drv'[k] = drv[k]
  BY DEF TypeInv, TypeOK, GoFinalize
<1>4. QED
  BY <1>1, <1>2, <1>3 DEF TypeInv, TypeOK, GoFinalize

\* A credit given back keeps the balances.
LEMMA CreditType ==
  ASSUME TypeInv, NEW u \in Users, credits' = [credits EXCEPT ![u] = @ + 1]
  PROVE  credits' \in [Users -> Nat]
  BY DEF TypeInv, TypeOK

LEMMA TypeInit == Init => TypeInv
  BY DEF Init, TypeInv, TypeOK, LocalOK, FreshLocals, DriverLocals, Lanes, Outcomes,
         RequestStates, RowStates, LaneStates, DriverStates, Finalizing

LEMMA TypeRequest ==
  ASSUME TypeInv, NEW l \in Launches, Request(l)
  PROVE  TypeInv'
<1> USE DEF TypeInv, TypeOK, LocalOK, RequestStates, RowStates, LaneStates,
            rows, board, history
<1>1. ASSUME NEW u \in Users, CreateDebit(u, l) PROVE TypeInv'
  BY <1>1 DEF CreateDebit
<1>2. CASE CreateLaunch(l)
  BY <1>2 DEF CreateLaunch
<1>3. CASE CreateLaunchFails(l)
  <2>1. owner[l] \in Users
    BY <1>3 DEF CreateLaunchFails
  <2>2. credits' \in [Users -> Nat]
    BY <1>3, <2>1, CreditType DEF CreateLaunchFails
  <2>3. lane' \in [Launches -> [Lanes -> LaneStates]]
    <3>1. \/ lane' = lane
          \/ lane' = [lane EXCEPT ![l] = [i \in Lanes |-> "queued"]]
      BY <1>3 DEF CreateLaunchFails
    <3>2. [i \in Lanes |-> "queued"] \in [Lanes -> LaneStates]
      OBVIOUS
    <3>3. lane \in [Launches -> [Lanes -> LaneStates]]
      OBVIOUS
    <3>4. QED
      BY ONLY <3>1, <3>2, <3>3
  <2>4. refunds' \in [Launches -> Nat]
    BY <1>3 DEF CreateLaunchFails
  <2>5. reqPc' \in [Launches -> RequestStates]
    BY <1>3 DEF CreateLaunchFails
  <2>6. LocalOK'
    BY <1>3 DEF CreateLaunchFails
  <2>7. QED
    BY <1>3, <2>2, <2>3, <2>4, <2>5, <2>6 DEF CreateLaunchFails
<1>4. CASE CreateRaises(l)
  <2>1. used' \in UsedType
    BY <1>4, FaultType DEF CreateRaises
  <2>2. QED
    BY <1>4, <2>1 DEF CreateRaises, UsedType
<1>5. CASE CreateRecord(l)
  BY <1>5 DEF CreateRecord
<1>6. CASE CreateFire(l)
  BY <1>6 DEF CreateFire, DriverStates
<1>7. QED
  BY <1>1, <1>2, <1>3, <1>4, <1>5, <1>6 DEF Request

LEMMA TypeFatDriver ==
  ASSUME TypeInv, NEW l \in Launches, FatDriver(l)
  PROVE  TypeInv'
<1> USE DEF rows, board, threads, history
<1>1. CASE DrivePass(l)
  BY <1>1 DEF DrivePass, Queued, Spawned, TypeInv, TypeOK, LocalOK, LaneStates
<1>2. CASE DriveConverges(l)
  BY <1>2, GoFinalizeType DEF DriveConverges, Outcomes, TypeInv, TypeOK, LocalOK
<1>3. CASE DriveGivesUp(l)
  BY <1>3, GoFinalizeType DEF DriveGivesUp, Outcomes, TypeInv, TypeOK, LocalOK
<1>4. CASE DriveRaises(l)
  <2>1. used' \in UsedType
    BY <1>4, FaultType DEF DriveRaises, TypeInv
  <2>2. QED
    BY <1>4, <2>1, GoFinalizeType
       DEF DriveRaises, UsedType, Outcomes, TypeInv, TypeOK, LocalOK
<1>5. QED
  BY <1>1, <1>2, <1>3, <1>4 DEF FatDriver

LEMMA TypeThinDriver ==
  ASSUME TypeInv, NEW l \in Launches, ThinDriver(l)
  PROVE  TypeInv'
<1> USE DEF rows, board, threads, history
<1>1. CASE ThinStart(l)
  <2>1. drv' \in [Launches -> DriverLocals]
    <3>1. /\ drv \in [Launches -> DriverLocals]
          /\ drv' = [drv EXCEPT ![l].at = 1,
                                ![l].skip = {i \in Lanes : lane[l][i] = "done"}]
      BY <1>1 DEF ThinStart, TypeInv, TypeOK
    <3>2. 1 \in 1..(NLanes + 1)
      OBVIOUS
    <3>3. {i \in Lanes : lane[l][i] = "done"} \in SUBSET Lanes
      OBVIOUS
    <3>4. QED
      BY <3>1, <3>2, <3>3 DEF DriverLocals
  <2>2. QED
    BY <1>1, <2>1 DEF ThinStart, TypeInv, TypeOK, LocalOK, DriverStates
<1>2. CASE ThinNoRuntime(l)
  BY <1>2, GoFinalizeType DEF ThinNoRuntime, Outcomes, TypeInv, TypeOK, LocalOK
<1>3. CASE ThinSkip(l)
  <2>1. drv' \in [Launches -> DriverLocals]
    <3>1. /\ drv \in [Launches -> DriverLocals]
          /\ drv' = [drv EXCEPT ![l].at = @ + 1]
          /\ drv[l].at \in drv[l].skip
      BY <1>3 DEF ThinSkip, TypeInv, TypeOK
    <3>2. drv[l].at \in Lanes
      BY <3>1 DEF DriverLocals
    <3>3. drv[l].at + 1 \in 1..(NLanes + 1)
      BY <3>2 DEF Lanes
    <3>4. QED
      BY <3>1, <3>3 DEF DriverLocals
  <2>2. \A k \in Launches : drvPc[k] = "exec" => drv'[k] = drv[k]
    BY <1>3 DEF ThinSkip, TypeInv, TypeOK
  <2>3. QED
    BY <1>3, <2>1, <2>2 DEF ThinSkip, TypeInv, TypeOK, LocalOK
<1>4. CASE ThinClaim(l)
  BY <1>4 DEF ThinClaim, TypeInv, TypeOK, LocalOK, DriverStates, LaneStates
<1>5. CASE ThinComplete(l)
  <2>1. drv' \in [Launches -> DriverLocals]
    <3>1. /\ drv \in [Launches -> DriverLocals]
          /\ drv' = [drv EXCEPT ![l].at = @ + 1]
          /\ drv[l].at \in Lanes
      BY <1>5 DEF ThinComplete, TypeInv, TypeOK, LocalOK
    <3>2. drv[l].at + 1 \in 1..(NLanes + 1)
      BY <3>1 DEF Lanes
    <3>3. QED
      BY <3>1, <3>2 DEF DriverLocals
  <2>2. \A k \in Launches : k # l => drv'[k] = drv[k]
    BY <1>5 DEF ThinComplete, TypeInv, TypeOK
  <2>3. lane' \in [Launches -> [Lanes -> LaneStates]]
    BY <1>5 DEF ThinComplete, TypeInv, TypeOK, LaneStates
  <2>4. produced' \in [Launches -> SUBSET Lanes]
    <3>1. /\ produced \in [Launches -> SUBSET Lanes]
          /\ produced' = [produced EXCEPT ![l] = @ \cup {drv[l].at}]
          /\ drv[l].at \in Lanes
      BY <1>5 DEF ThinComplete, TypeInv, TypeOK, LocalOK
    <3>2. QED
      BY <3>1
  <2>5. QED
    BY <1>5, <2>1, <2>2, <2>3, <2>4
       DEF ThinComplete, TypeInv, TypeOK, LocalOK, DriverStates
<1>6. CASE ThinFail(l)
  <2>1. lane' \in [Launches -> [Lanes -> LaneStates]]
    BY <1>6 DEF ThinFail, TypeInv, TypeOK, LocalOK, LaneStates
  <2>2. drvPc[l] = "exec" /\ GoFinalize(l, "error") /\ "error" \in Outcomes
    BY <1>6 DEF ThinFail, Outcomes
  <2>3. LocalOK'
    BY <1>6, <2>2, GoFinalizeType DEF ThinFail, rows, TypeInv, TypeOK, LocalOK
  <2>4. QED
    BY <1>6, <2>1, <2>2, <2>3, GoFinalizeType DEF ThinFail, TypeInv, TypeOK
<1>7. CASE ThinConverges(l)
  BY <1>7, GoFinalizeType DEF ThinConverges, Outcomes, TypeInv, TypeOK, LocalOK
<1>8. QED
  BY <1>1, <1>2, <1>3, <1>4, <1>5, <1>6, <1>7 DEF ThinDriver

LEMMA TypeFinalize ==
  ASSUME TypeInv, NEW l \in Launches, Finalize(l)
  PROVE  TypeInv'
<1> USE DEF rows, board, history
<1>1. CASE FinRead(l)
  <2>1. PICK readable \in BOOLEAN :
          /\ IF readable THEN UNCHANGED used ELSE Fault
          /\ drv' = [drv EXCEPT ![l].row = readable,
                                ![l].refunded = (readable /\ flag[l])]
          /\ drvPc' = [drvPc EXCEPT ![l] =
                 IF drv[l].out = "ok" \/ (readable /\ flag[l])
                 THEN "finWrite" ELSE "finWork"]
    BY <1>1 DEF FinRead
  <2>2. used' \in UsedType
    BY <2>1, FaultType DEF TypeInv, TypeOK, UsedType
  <2>3. drv' \in [Launches -> DriverLocals]
    <3>1. (readable /\ flag[l]) \in BOOLEAN
      BY DEF TypeInv, TypeOK
    <3>2. drv \in [Launches -> DriverLocals]
      BY DEF TypeInv, TypeOK
    <3>3. drv' = [drv EXCEPT ![l].row = readable, ![l].refunded = (readable /\ flag[l])]
      BY <2>1
    <3>4. QED
      BY ONLY <3>1, <3>2, <3>3, readable \in BOOLEAN, ZenonT(30) DEF DriverLocals
  <2>4. drvPc' \in [Launches -> DriverStates]
    BY <2>1 DEF TypeInv, TypeOK, DriverStates, Finalizing
  <2>5. \A k \in Launches : drvPc'[k] = "exec" => drvPc[k] = "exec" /\ drv'[k] = drv[k]
    BY <2>1 DEF TypeInv, TypeOK
  <2>6. drvPc[l] # "none" /\ \A k \in Launches : k # l => drvPc'[k] = drvPc[k]
    BY <1>1, <2>1 DEF FinRead, TypeInv, TypeOK
  <2>7. QED
    BY <1>1, <2>2, <2>3, <2>4, <2>5, <2>6 DEF FinRead, UsedType, TypeInv, TypeOK, LocalOK
<1>2. CASE FinWork(l)
  <2>1. used' \in UsedType
    BY <1>2, FaultType DEF FinWork, TypeInv, TypeOK, UsedType
  <2>2. QED
    BY <1>2, <2>1 DEF FinWork, UsedType, TypeInv, TypeOK, LocalOK, DriverStates, Finalizing
<1>3. CASE FinRefund(l)
  <2>1. owner[l] \in Users
    BY <1>3 DEF FinRefund, TypeInv, TypeOK, LocalOK
  <2>2. credits' \in [Users -> Nat]
    BY <1>3, <2>1, CreditType DEF FinRefund
  <2>3. drv' \in [Launches -> DriverLocals]
    <3>1. drv \in [Launches -> DriverLocals] /\ drv' = [drv EXCEPT ![l].refunded = TRUE]
      BY <1>3 DEF FinRefund, TypeInv, TypeOK
    <3>2. QED
      BY <3>1 DEF DriverLocals
  <2>4. \A k \in Launches : k # l => drv'[k] = drv[k]
    BY <1>3 DEF FinRefund, TypeInv, TypeOK
  <2>5. QED
    BY <1>3, <2>2, <2>3, <2>4
       DEF FinRefund, TypeInv, TypeOK, LocalOK, DriverStates, Finalizing
<1>4. CASE FinWrite(l)
  <2>1. drv[l].out \in Outcomes /\ drv[l].refunded \in BOOLEAN
    BY DEF TypeInv, TypeOK, DriverLocals
  <2>2. row' \in [Launches -> RowStates]
    BY <1>4, <2>1 DEF FinWrite, TypeInv, TypeOK, RowStates, Outcomes
  <2>3. flag' \in [Launches -> BOOLEAN] /\ delivered' \in [Launches -> BOOLEAN]
    BY <1>4, <2>1 DEF FinWrite, TypeInv, TypeOK
  <2>4. QED
    BY <1>4, <2>2, <2>3 DEF FinWrite, TypeInv, TypeOK, LocalOK, DriverStates, Finalizing
<1>5. CASE FinAborts(l)
  <2>1. used' \in UsedType
    BY <1>5, FaultType DEF FinAborts, TypeInv
  <2>2. QED
    BY <1>5, <2>1 DEF FinAborts, UsedType, TypeInv, TypeOK, LocalOK, DriverStates
<1>6. CASE FinSeal(l)
  BY <1>6 DEF FinSeal, TypeInv, TypeOK, LocalOK, DriverStates, LaneStates
<1>7. QED
  BY <1>1, <1>2, <1>3, <1>4, <1>5, <1>6 DEF Finalize

LEMMA TypeWorker ==
  ASSUME TypeInv, NEW l \in Launches, Worker(l)
  PROVE  TypeInv'
<1> USE DEF rows, threads, history, TypeInv, TypeOK, LocalOK, LaneStates
<1>1. ASSUME NEW i \in Lanes, WorkerDone(l, i) PROVE TypeInv'
  BY <1>1 DEF WorkerDone
<1>2. ASSUME NEW i \in Lanes, WorkerBlocked(l, i) PROVE TypeInv'
  BY <1>2 DEF WorkerBlocked
<1>3. QED
  BY <1>1, <1>2 DEF Worker

LEMMA TypeReopen ==
  ASSUME TypeInv, NEW l \in Launches, Reopen(l)
  PROVE  TypeInv'
<1> USE DEF rows, board, history
<1>1. CASE ReopenRead(l)
  <2>1. used \in UsedType /\ used' = [used EXCEPT !.reopen = @ + 1]
    BY <1>1 DEF ReopenRead, TypeInv, TypeOK, UsedType
  <2>2. used' \in UsedType
    BY <2>1 DEF UsedType
  <2>3. QED
    BY <1>1, <2>2 DEF ReopenRead, UsedType, TypeInv, TypeOK, LocalOK
<1>2. CASE ReopenUnseal(l)
  BY <1>2 DEF ReopenUnseal, TypeInv, TypeOK, LocalOK, LaneStates
<1>3. CASE ReopenWrite(l)
  <2>1. used' \in UsedType
    BY <1>3, FaultType DEF ReopenWrite, TypeInv, TypeOK, UsedType
  <2>2. row' \in [Launches -> RowStates] /\ flag' \in [Launches -> BOOLEAN]
    BY <1>3 DEF ReopenWrite, TypeInv, TypeOK, RowStates
  <2>3. LocalOK'
    BY <1>3 DEF ReopenWrite, TypeInv, TypeOK, LocalOK
  <2>4. QED
    BY <1>3, <2>1, <2>2, <2>3 DEF ReopenWrite, UsedType, TypeInv, TypeOK
<1>4. QED
  BY <1>1, <1>2, <1>3 DEF Reopen

LEMMA TypeDispatch ==
  ASSUME TypeInv, NEW l \in Launches, Dispatch(l)
  PROVE  TypeInv'
<1> USE DEF rows, board, threads, history
<1>1. CASE ApiDispatch(l)
  <2>1. used \in UsedType /\ used' = [used EXCEPT !.dispatch = @ + 1]
    BY <1>1 DEF ApiDispatch, TypeInv, TypeOK, UsedType
  <2>2. used' \in UsedType
    BY <2>1 DEF UsedType
  <2>3. QED
    BY <1>1, <2>2 DEF ApiDispatch, UsedType, TypeInv, TypeOK, LocalOK
<1>2. CASE ApiPass(l)
  BY <1>2 DEF ApiPass, Queued, Spawned, TypeInv, TypeOK, LocalOK, LaneStates
<1>3. CASE ApiEnds(l)
  BY <1>3 DEF ApiEnds, TypeInv, TypeOK, LocalOK
<1>4. QED
  BY <1>1, <1>2, <1>3 DEF Dispatch

LEMMA TypeReaper ==
  ASSUME TypeInv, NEW l \in Launches, Reaper(l)
  PROVE  TypeInv'
<1> USE DEF rows, board, history
<1>1. CASE ReaperCheck(l)
  BY <1>1 DEF ReaperCheck, TypeInv, TypeOK, LocalOK
<1>2. CASE ReaperPass(l)
  <2>1. lane' \in [Launches -> [Lanes -> LaneStates]]
    BY <1>2 DEF ReaperPass, Queued, Spawned, TypeInv, TypeOK, LaneStates
  <2>2. QED
    BY <1>2, <2>1 DEF ReaperPass, TypeInv, TypeOK, LocalOK
<1>3. QED
  BY <1>1, <1>2 DEF Reaper

LEMMA TypeCrash ==
  ASSUME TypeInv, CrashRestart
  PROVE  TypeInv'
<1> USE DEF rows, board, history
<1>1. used' \in UsedType
  <2>1. used \in UsedType /\ used' = [used EXCEPT !.crash = @ + 1]
    BY DEF CrashRestart, TypeInv, TypeOK, UsedType
  <2>2. QED
    BY <2>1 DEF UsedType
<1>2. reqPc' \in [Launches -> RequestStates]
  BY DEF CrashRestart, TypeInv, TypeOK, RequestStates
<1>3. drvPc' \in [Launches -> DriverStates]
  BY DEF CrashRestart, TypeInv, TypeOK, DriverStates
<1>4. LocalOK'
  BY DEF CrashRestart, Resumable, TypeInv, TypeOK, LocalOK
<1>5. QED
  BY <1>1, <1>2, <1>3, <1>4 DEF CrashRestart, UsedType, TypeInv, TypeOK

LEMMA TypeStep == TypeInv /\ [Next]_vars => TypeInv'
<1> SUFFICES ASSUME TypeInv, [Next]_vars PROVE TypeInv'
  OBVIOUS
<1>1. ASSUME NEW u \in Users, AddCredits(u) PROVE TypeInv'
  BY <1>1 DEF AddCredits, threads, rows, board, TypeInv, TypeOK, LocalOK
<1>2. ASSUME NEW l \in Launches,
             \/ Request(l) \/ FatDriver(l) \/ ThinDriver(l) \/ Finalize(l)
             \/ Worker(l) \/ Reopen(l) \/ Dispatch(l) \/ Reaper(l)
      PROVE  TypeInv'
  BY <1>2, TypeRequest, TypeFatDriver, TypeThinDriver, TypeFinalize, TypeWorker,
     TypeReopen, TypeDispatch, TypeReaper
<1>3. CASE CrashRestart
  BY <1>3, TypeCrash
<1>4. CASE UNCHANGED vars
  BY <1>4 DEF vars, TypeInv, TypeOK, LocalOK
<1>5. QED
  BY <1>1, <1>2, <1>3, <1>4 DEF Next

\* Every variable keeps its type: balances stay natural numbers however debits,
\* refunds and purchases interleave.
THEOREM TypeCorrect == Spec => []TypeOK
<1>1. Spec => []TypeInv
  BY TypeInit, TypeStep, PTL DEF Spec
<1>2. TypeInv => TypeOK
  BY DEF TypeInv
<1>3. QED
  BY <1>1, <1>2, PTL

-----------------------------------------------------------------------------
(* The refund flag.  Between its read of the row and its write of the       *)
(* outcome the finalizer's local variable already stands for a refund that  *)
(* was made, so the local variable is part of the invariant.                *)

FlagInv ==
    \A l \in Launches :
        /\ flag[l] => refunds[l] >= 1
        /\ drvPc[l] \in {"finWork", "finRefund", "finWrite"} /\ drv[l].refunded
             => refunds[l] >= 1

LEMMA FlagRequest ==
  ASSUME TypeInv, FlagInv, NEW l \in Launches, Request(l)
  PROVE  FlagInv'
<1> USE DEF TypeInv, TypeOK, FlagInv, rows, board, threads, history
<1>1. ASSUME NEW u \in Users, CreateDebit(u, l) PROVE FlagInv'
  BY <1>1 DEF CreateDebit
<1>2. CASE CreateLaunch(l)
  BY <1>2 DEF CreateLaunch
<1>3. CASE CreateLaunchFails(l)
  BY <1>3 DEF CreateLaunchFails
<1>4. CASE CreateRaises(l)
  BY <1>4 DEF CreateRaises
<1>5. CASE CreateRecord(l)
  BY <1>5 DEF CreateRecord
<1>6. CASE CreateFire(l)
  BY <1>6 DEF CreateFire
<1>7. QED
  BY <1>1, <1>2, <1>3, <1>4, <1>5, <1>6 DEF Request

LEMMA FlagFatDriver ==
  ASSUME TypeInv, FlagInv, NEW l \in Launches, FatDriver(l)
  PROVE  FlagInv'
<1> USE DEF TypeInv, TypeOK, FlagInv, rows, board, threads, history
<1>1. CASE DrivePass(l)
  BY <1>1 DEF DrivePass
<1>2. CASE DriveConverges(l)
  BY <1>2 DEF DriveConverges, GoFinalize
<1>3. CASE DriveGivesUp(l)
  BY <1>3 DEF DriveGivesUp, GoFinalize
<1>4. CASE DriveRaises(l)
  BY <1>4 DEF DriveRaises, GoFinalize
<1>5. QED
  BY <1>1, <1>2, <1>3, <1>4 DEF FatDriver

LEMMA FlagThinDriver ==
  ASSUME TypeInv, FlagInv, NEW l \in Launches, ThinDriver(l)
  PROVE  FlagInv'
<1> USE DEF TypeInv, TypeOK, FlagInv, rows, board, threads, history
<1>1. CASE ThinStart(l)
  BY <1>1 DEF ThinStart
<1>2. CASE ThinNoRuntime(l)
  BY <1>2 DEF ThinNoRuntime, GoFinalize
<1>3. CASE ThinSkip(l)
  BY <1>3 DEF ThinSkip
<1>4. CASE ThinClaim(l)
  BY <1>4 DEF ThinClaim
<1>5. CASE ThinComplete(l)
  BY <1>5 DEF ThinComplete
<1>6. CASE ThinFail(l)
  BY <1>6 DEF ThinFail, GoFinalize
<1>7. CASE ThinConverges(l)
  BY <1>7 DEF ThinConverges, GoFinalize
<1>8. QED
  BY <1>1, <1>2, <1>3, <1>4, <1>5, <1>6, <1>7 DEF ThinDriver

LEMMA FlagFinalize ==
  ASSUME TypeInv, FlagInv, NEW l \in Launches, Finalize(l)
  PROVE  FlagInv'
<1> USE DEF TypeInv, TypeOK, FlagInv, rows, board, threads, history
<1>1. CASE FinRead(l)
  BY <1>1 DEF FinRead
<1>2. CASE FinWork(l)
  BY <1>2 DEF FinWork
<1>3. CASE FinRefund(l)
  BY <1>3 DEF FinRefund
<1>4. CASE FinWrite(l)
  BY <1>4 DEF FinWrite
<1>5. CASE FinAborts(l)
  BY <1>5 DEF FinAborts
<1>6. CASE FinSeal(l)
  BY <1>6 DEF FinSeal
<1>7. QED
  BY <1>1, <1>2, <1>3, <1>4, <1>5, <1>6 DEF Finalize

LEMMA FlagReopen ==
  ASSUME TypeInv, FlagInv, NEW l \in Launches, Reopen(l)
  PROVE  FlagInv'
<1> USE DEF TypeInv, TypeOK, FlagInv, rows, board, threads, history
<1>1. CASE ReopenRead(l)
  BY <1>1 DEF ReopenRead
<1>2. CASE ReopenUnseal(l)
  BY <1>2 DEF ReopenUnseal
<1>3. CASE ReopenWrite(l)
  BY <1>3 DEF ReopenWrite
<1>4. QED
  BY <1>1, <1>2, <1>3 DEF Reopen

LEMMA FlagDispatch ==
  ASSUME TypeInv, FlagInv, NEW l \in Launches, Dispatch(l)
  PROVE  FlagInv'
<1> USE DEF TypeInv, TypeOK, FlagInv, rows, board, threads, history
<1>1. CASE ApiDispatch(l)
  BY <1>1 DEF ApiDispatch
<1>2. CASE ApiPass(l)
  BY <1>2 DEF ApiPass
<1>3. CASE ApiEnds(l)
  BY <1>3 DEF ApiEnds
<1>4. QED
  BY <1>1, <1>2, <1>3 DEF Dispatch

LEMMA FlagReaper ==
  ASSUME TypeInv, FlagInv, NEW l \in Launches, Reaper(l)
  PROVE  FlagInv'
<1> USE DEF TypeInv, TypeOK, FlagInv, rows, board, threads, history
<1>1. CASE ReaperCheck(l)
  BY <1>1 DEF ReaperCheck
<1>2. CASE ReaperPass(l)
  BY <1>2 DEF ReaperPass
<1>3. QED
  BY <1>1, <1>2 DEF Reaper

LEMMA FlagWorker ==
  ASSUME TypeInv, FlagInv, NEW l \in Launches, Worker(l)
  PROVE  FlagInv'
<1> USE DEF FlagInv, rows, threads, history
<1>1. ASSUME NEW i \in Lanes, WorkerDone(l, i) PROVE FlagInv'
  BY <1>1 DEF WorkerDone
<1>2. ASSUME NEW i \in Lanes, WorkerBlocked(l, i) PROVE FlagInv'
  BY <1>2 DEF WorkerBlocked
<1>3. QED
  BY <1>1, <1>2 DEF Worker

LEMMA FlagStep == TypeInv /\ FlagInv /\ [Next]_vars => FlagInv'
<1> SUFFICES ASSUME TypeInv, FlagInv, [Next]_vars PROVE FlagInv'
  OBVIOUS
<1>1. ASSUME NEW u \in Users, AddCredits(u) PROVE FlagInv'
  BY <1>1 DEF AddCredits, threads, rows, board, FlagInv
<1>2. ASSUME NEW l \in Launches,
             \/ Request(l) \/ FatDriver(l) \/ ThinDriver(l) \/ Finalize(l)
             \/ Worker(l) \/ Reopen(l) \/ Dispatch(l) \/ Reaper(l)
      PROVE  FlagInv'
  BY <1>2, FlagRequest, FlagFatDriver, FlagThinDriver, FlagFinalize,
     FlagWorker, FlagReopen, FlagDispatch, FlagReaper
<1>3. CASE CrashRestart
  BY <1>3 DEF CrashRestart, rows, history, TypeInv, TypeOK, FlagInv
<1>4. CASE UNCHANGED vars
  BY <1>4 DEF vars, FlagInv
<1>5. QED
  BY <1>1, <1>2, <1>3, <1>4 DEF Next

\* A row is marked refunded only when the credit went back, whatever crashes,
\* faults and reopenings interleave with the finalizer.
THEOREM FlagRefund == Spec => []FlagImpliesRefund
<1>1. Init => FlagInv
  BY DEF Init, FlagInv
<1>2. Spec => []FlagInv
  BY <1>1, TypeInit, TypeStep, FlagStep, PTL DEF Spec
<1>3. FlagInv => FlagImpliesRefund
  BY DEF FlagInv, FlagImpliesRefund
<1>4. QED
  BY <1>2, <1>3, PTL

-----------------------------------------------------------------------------
(* The credit goes back at most once.  Every launch has one run of one      *)
(* driver, except that a thin host that restarts starts another: so the     *)
(* theorem is about a fat host, or a host that does not restart.            *)

SingleRun == ~Thin \/ MaxCrashes = 0

\* Before its driver starts, and until that driver decides to refund it, a launch
\* was not refunded; the request handler refunds only a launch without a driver.
OnceInv ==
    \A l \in Launches :
        /\ reqPc[l] = "idle" => owner[l] = NoUser
        /\ reqPc[l] \in {"idle", "debited", "launched", "recorded", "failed"}
             => drvPc[l] = "none"
        /\ reqPc[l] \in {"idle", "debited", "launched", "recorded"} => refunds[l] = 0
        /\ drvPc[l] \in {"drive", "start", "lane", "exec", "finRead", "finWork", "finRefund"}
             => refunds[l] = 0
        /\ drvPc[l] \in {"finWork", "finRefund"} => drv[l].out # "ok"
        /\ drvPc[l] = "finWrite" /\ drv[l].out = "ok" => refunds[l] = 0
        /\ delivered[l] => drvPc[l] = "over" /\ refunds[l] = 0
        /\ refunds[l] <= 1

LEMMA OnceRequest ==
  ASSUME TypeInv, OnceInv, NEW l \in Launches, Request(l)
  PROVE  OnceInv'
<1> USE DEF TypeInv, TypeOK, OnceInv, rows, board, threads, history
<1>1. ASSUME NEW u \in Users, CreateDebit(u, l) PROVE OnceInv'
  BY <1>1 DEF CreateDebit
<1>2. CASE CreateLaunch(l)
  BY <1>2 DEF CreateLaunch
<1>3. CASE CreateLaunchFails(l)
  BY <1>3 DEF CreateLaunchFails
<1>4. CASE CreateRaises(l)
  BY <1>4 DEF CreateRaises
<1>5. CASE CreateRecord(l)
  BY <1>5 DEF CreateRecord
<1>6. CASE CreateFire(l)
  BY <1>6 DEF CreateFire
<1>7. QED
  BY <1>1, <1>2, <1>3, <1>4, <1>5, <1>6 DEF Request

LEMMA OnceFatDriver ==
  ASSUME TypeInv, OnceInv, NEW l \in Launches, FatDriver(l)
  PROVE  OnceInv'
<1> USE DEF TypeInv, TypeOK, OnceInv, rows, board, threads, history
<1>1. CASE DrivePass(l)
  BY <1>1 DEF DrivePass
<1>2. CASE DriveConverges(l)
  BY <1>2 DEF DriveConverges, GoFinalize
<1>3. CASE DriveGivesUp(l)
  BY <1>3 DEF DriveGivesUp, GoFinalize
<1>4. CASE DriveRaises(l)
  BY <1>4 DEF DriveRaises, GoFinalize
<1>5. QED
  BY <1>1, <1>2, <1>3, <1>4 DEF FatDriver

LEMMA OnceThinDriver ==
  ASSUME TypeInv, OnceInv, NEW l \in Launches, ThinDriver(l)
  PROVE  OnceInv'
<1> USE DEF TypeInv, TypeOK, OnceInv, rows, board, threads, history
<1>1. CASE ThinStart(l)
  BY <1>1 DEF ThinStart
<1>2. CASE ThinNoRuntime(l)
  BY <1>2 DEF ThinNoRuntime, GoFinalize
<1>3. CASE ThinSkip(l)
  BY <1>3 DEF ThinSkip
<1>4. CASE ThinClaim(l)
  BY <1>4 DEF ThinClaim
<1>5. CASE ThinComplete(l)
  BY <1>5 DEF ThinComplete
<1>6. CASE ThinFail(l)
  BY <1>6 DEF ThinFail, GoFinalize
<1>7. CASE ThinConverges(l)
  BY <1>7 DEF ThinConverges, GoFinalize
<1>8. QED
  BY <1>1, <1>2, <1>3, <1>4, <1>5, <1>6, <1>7 DEF ThinDriver

LEMMA OnceFinalize ==
  ASSUME TypeInv, OnceInv, NEW l \in Launches, Finalize(l)
  PROVE  OnceInv'
<1> USE DEF TypeInv, TypeOK, OnceInv, rows, board, threads, history
<1>1. CASE FinRead(l)
  BY <1>1 DEF FinRead
<1>2. CASE FinWork(l)
  BY <1>2 DEF FinWork
<1>3. CASE FinRefund(l)
  BY <1>3 DEF FinRefund
<1>4. CASE FinWrite(l)
  BY <1>4 DEF FinWrite
<1>5. CASE FinAborts(l)
  BY <1>5 DEF FinAborts
<1>6. CASE FinSeal(l)
  BY <1>6 DEF FinSeal
<1>7. QED
  BY <1>1, <1>2, <1>3, <1>4, <1>5, <1>6 DEF Finalize

LEMMA OnceWorker ==
  ASSUME TypeInv, OnceInv, NEW l \in Launches, Worker(l)
  PROVE  OnceInv'
<1> USE DEF TypeInv, TypeOK, OnceInv, rows, board, threads, history
<1>1. ASSUME NEW i \in Lanes, WorkerDone(l, i) PROVE OnceInv'
  BY <1>1 DEF WorkerDone
<1>2. ASSUME NEW i \in Lanes, WorkerBlocked(l, i) PROVE OnceInv'
  BY <1>2 DEF WorkerBlocked
<1>3. QED
  BY <1>1, <1>2 DEF Worker

LEMMA OnceReopen ==
  ASSUME TypeInv, OnceInv, NEW l \in Launches, Reopen(l)
  PROVE  OnceInv'
<1> USE DEF TypeInv, TypeOK, OnceInv, rows, board, threads, history
<1>1. CASE ReopenRead(l)
  BY <1>1 DEF ReopenRead
<1>2. CASE ReopenUnseal(l)
  BY <1>2 DEF ReopenUnseal
<1>3. CASE ReopenWrite(l)
  BY <1>3 DEF ReopenWrite
<1>4. QED
  BY <1>1, <1>2, <1>3 DEF Reopen

LEMMA OnceDispatch ==
  ASSUME TypeInv, OnceInv, NEW l \in Launches, Dispatch(l)
  PROVE  OnceInv'
<1> USE DEF TypeInv, TypeOK, OnceInv, rows, board, threads, history
<1>1. CASE ApiDispatch(l)
  BY <1>1 DEF ApiDispatch
<1>2. CASE ApiPass(l)
  BY <1>2 DEF ApiPass
<1>3. CASE ApiEnds(l)
  BY <1>3 DEF ApiEnds
<1>4. QED
  BY <1>1, <1>2, <1>3 DEF Dispatch

LEMMA OnceReaper ==
  ASSUME TypeInv, OnceInv, NEW l \in Launches, Reaper(l)
  PROVE  OnceInv'
<1> USE DEF TypeInv, TypeOK, OnceInv, rows, board, threads, history
<1>1. CASE ReaperCheck(l)
  BY <1>1 DEF ReaperCheck
<1>2. CASE ReaperPass(l)
  BY <1>2 DEF ReaperPass
<1>3. QED
  BY <1>1, <1>2 DEF Reaper

LEMMA OnceStep == SingleRun /\ TypeInv /\ OnceInv /\ [Next]_vars => OnceInv'
<1> SUFFICES ASSUME SingleRun, TypeInv, OnceInv, [Next]_vars PROVE OnceInv'
  OBVIOUS
<1>1. ASSUME NEW u \in Users, AddCredits(u) PROVE OnceInv'
  BY <1>1 DEF AddCredits, threads, rows, board, OnceInv
<1>2. ASSUME NEW l \in Launches,
             \/ Request(l) \/ FatDriver(l) \/ ThinDriver(l) \/ Finalize(l)
             \/ Worker(l) \/ Reopen(l) \/ Dispatch(l) \/ Reaper(l)
      PROVE  OnceInv'
  BY <1>2, OnceRequest, OnceFatDriver, OnceThinDriver, OnceFinalize,
     OnceWorker, OnceReopen, OnceDispatch, OnceReaper
<1>3. CASE CrashRestart
  BY <1>3 DEF CrashRestart, SingleRun, Resumable, rows, board, history, TypeInv, TypeOK, OnceInv
<1>4. CASE UNCHANGED vars
  BY <1>4 DEF vars, OnceInv
<1>5. QED
  BY <1>1, <1>2, <1>3, <1>4 DEF Next

LEMMA OnceInit == Init => OnceInv
  BY DEF Init, OnceInv

\* The request handler and the finalizer between them give the credit of a launch
\* back at most once.
THEOREM RefundOnce == SingleRun => (Spec => []RefundedAtMostOnce)
<1> SUFFICES ASSUME SingleRun PROVE Spec => []RefundedAtMostOnce
  OBVIOUS
<1>1. TypeInv /\ OnceInv /\ [Next]_vars => OnceInv'
  BY OnceStep
<1>2. Spec => []OnceInv
  BY <1>1, TypeInit, TypeStep, OnceInit, PTL DEF Spec
<1>3. OnceInv => RefundedAtMostOnce
  BY DEF OnceInv, RefundedAtMostOnce
<1>4. QED
  BY <1>2, <1>3, PTL

-----------------------------------------------------------------------------
(* The threads implement LaunchCredit, where every launch has one run: a    *)
(* purchase, a charge, a delivery and a refund are steps of the promise,    *)
(* and every other step of a thread leaves what it speaks of alone.         *)

Quiet == UNCHANGED <<credits, bought, owner, refunds, delivered>>

LEMMA QuietStutters == Quiet => UNCHANGED Promise!vars
  BY DEF Quiet, Promise!vars, CreditStage

LEMMA BuyStep ==
  ASSUME NEW u \in Users, AddCredits(u)
  PROVE  Promise!Buy(u)
  BY DEF AddCredits, Promise!Buy, CreditStage

LEMMA ChargeStep ==
  ASSUME TypeInv, OnceInv, NEW u \in Users, NEW l \in Launches, CreateDebit(u, l)
  PROVE  Promise!Charge(u, l)
<1>1. owner[l] = NoUser /\ refunds[l] = 0 /\ ~delivered[l]
  BY DEF CreateDebit, TypeInv, TypeOK, OnceInv
<1>2. owner' = [owner EXCEPT ![l] = u] /\ u # NoUser
  BY DEF CreateDebit
<1>3. refunds' = refunds /\ delivered' = delivered /\ bought' = bought
  BY DEF CreateDebit, history
<1>4. \A k \in Launches : CreditStage(k)' = IF k = l THEN "charged" ELSE CreditStage(k)
  BY <1>1, <1>2, <1>3 DEF CreditStage, TypeInv, TypeOK
<1>5. QED
  BY <1>1, <1>2, <1>3, <1>4 DEF CreateDebit, Promise!Charge, CreditStage

LEMMA RefundStep ==
  ASSUME TypeInv, OnceInv, NEW l \in Launches, CreateLaunchFails(l) \/ FinRefund(l)
  PROVE  Promise!Refund(l)
<1>1. /\ owner' = owner /\ delivered' = delivered /\ bought' = bought
      /\ refunds' = [refunds EXCEPT ![l] = @ + 1]
      /\ credits' = [credits EXCEPT ![owner[l]] = @ + 1]
  BY DEF CreateLaunchFails, FinRefund
<1>2. owner[l] # NoUser /\ refunds[l] = 0 /\ ~delivered[l]
  BY DEF CreateLaunchFails, FinRefund, TypeInv, TypeOK, LocalOK, OnceInv
<1>3. \A k \in Launches : CreditStage(k)' = IF k = l THEN "refunded" ELSE CreditStage(k)
  BY <1>1, <1>2 DEF CreditStage, TypeInv, TypeOK
<1>4. CreditStage(l) = "charged"
  BY <1>2 DEF CreditStage
<1>5. QED
  BY <1>1, <1>3, <1>4 DEF Promise!Refund

LEMMA DeliverStep ==
  ASSUME TypeInv, OnceInv, NEW l \in Launches, FinWrite(l)
  PROVE  Promise!Deliver(l) \/ Quiet
<1>1. CASE drv[l].out = "ok"
  <2>1. /\ owner' = owner /\ refunds' = refunds /\ credits' = credits /\ bought' = bought
        /\ delivered' = [delivered EXCEPT ![l] = TRUE]
    BY <1>1 DEF FinWrite, TypeInv, TypeOK
  <2>2. owner[l] # NoUser /\ refunds[l] = 0 /\ ~delivered[l]
    BY <1>1 DEF FinWrite, TypeInv, TypeOK, LocalOK, OnceInv
  <2>3. \A k \in Launches : CreditStage(k)' = IF k = l THEN "delivered" ELSE CreditStage(k)
    BY <2>1, <2>2 DEF CreditStage, TypeInv, TypeOK
  <2>4. CreditStage(l) = "charged"
    BY <2>2 DEF CreditStage
  <2>5. QED
    BY <2>1, <2>3, <2>4 DEF Promise!Deliver
<1>2. CASE drv[l].out # "ok"
  <2>1. delivered'  = delivered
    BY <1>2 DEF FinWrite, TypeInv, TypeOK
  <2>2. QED
    BY <2>1 DEF FinWrite, Quiet
<1>3. QED
  BY <1>1, <1>2

LEMMA OtherStepsQuiet ==
  ASSUME NEW l \in Launches,
         \/ CreateLaunch(l) \/ CreateRaises(l) \/ CreateRecord(l) \/ CreateFire(l)
         \/ FatDriver(l) \/ ThinDriver(l) \/ Worker(l)
         \/ FinRead(l) \/ FinWork(l) \/ FinAborts(l) \/ FinSeal(l)
         \/ Reopen(l) \/ Dispatch(l) \/ Reaper(l)
  PROVE  Quiet
<1> USE DEF Quiet, history
<1>1. CASE CreateLaunch(l) \/ CreateRaises(l) \/ CreateRecord(l) \/ CreateFire(l)
  BY <1>1 DEF CreateLaunch, CreateRaises, CreateRecord, CreateFire
<1>2. CASE FatDriver(l)
  BY <1>2 DEF FatDriver, DrivePass, DriveConverges, DriveGivesUp, DriveRaises
<1>3. CASE ThinDriver(l)
  BY <1>3 DEF ThinDriver, ThinStart, ThinNoRuntime, ThinSkip, ThinClaim, ThinComplete,
              ThinFail, ThinConverges
<1>4. CASE Worker(l)
  BY <1>4 DEF Worker, WorkerDone, WorkerBlocked
<1>5. CASE FinRead(l) \/ FinWork(l) \/ FinAborts(l) \/ FinSeal(l)
  BY <1>5 DEF FinRead, FinWork, FinAborts, FinSeal
<1>6. CASE Reopen(l) \/ Dispatch(l) \/ Reaper(l)
  BY <1>6 DEF Reopen, ReopenRead, ReopenUnseal, ReopenWrite, Dispatch, ApiDispatch,
              ApiPass, ApiEnds, Reaper, ReaperCheck, ReaperPass
<1>7. QED
  BY <1>1, <1>2, <1>3, <1>4, <1>5, <1>6

LEMMA PromiseStep ==
  TypeInv /\ OnceInv /\ [Next]_vars => [Promise!Next]_(Promise!vars)
<1> SUFFICES ASSUME TypeInv, OnceInv, [Next]_vars PROVE [Promise!Next]_(Promise!vars)
  OBVIOUS
<1>1. ASSUME NEW u \in Users, AddCredits(u) PROVE Promise!Next
  BY <1>1, BuyStep DEF Promise!Next
<1>2. ASSUME NEW l \in Launches,
             \/ Request(l) \/ FatDriver(l) \/ ThinDriver(l) \/ Finalize(l)
             \/ Worker(l) \/ Reopen(l) \/ Dispatch(l) \/ Reaper(l)
      PROVE  Promise!Next \/ Quiet
  <2>1. ASSUME NEW u \in Users, CreateDebit(u, l) PROVE Promise!Next
    BY <2>1, ChargeStep DEF Promise!Next
  <2>2. CASE CreateLaunchFails(l) \/ FinRefund(l)
    BY <2>2, RefundStep DEF Promise!Next
  <2>3. CASE FinWrite(l)
    BY <2>3, DeliverStep DEF Promise!Next
  <2>4. QED
    BY <1>2, <2>1, <2>2, <2>3, OtherStepsQuiet DEF Request, Finalize
<1>3. CASE CrashRestart
  BY <1>3, QuietStutters DEF CrashRestart, Quiet, history
<1>4. CASE UNCHANGED vars
  BY <1>4, QuietStutters DEF vars, Quiet
<1>5. QED
  BY <1>1, <1>2, <1>3, <1>4, QuietStutters DEF Next

\* The interleaving of request, driver, workers, reopening, reaper and restart
\* keeps the promise of LaunchCredit.
THEOREM LedgerImplementsPromise == SingleRun => (Spec => ImplementsPromise)
<1> SUFFICES ASSUME SingleRun PROVE Spec => ImplementsPromise
  OBVIOUS
<1>1. Init => Promise!Init
  BY DEF Init, Promise!Init, CreditStage
<1>2. TypeInv /\ OnceInv /\ [Next]_vars => OnceInv'
  BY OnceStep
<1>3. QED
  BY <1>1, <1>2, TypeInit, TypeStep, OnceInit, PromiseStep, PTL
     DEF Spec, ImplementsPromise, Promise!Spec

-----------------------------------------------------------------------------
(* The books.  The flag and the refund agree at the end of a driver's run   *)
(* as long as nothing disturbs the finalizer: a call that raises between    *)
(* the refund and the outcome, a restart there, or a reopening, which       *)
(* clears the flag, each leave them apart.  So the theorem speaks of every  *)
(* state before the first of these.                                         *)

Undisturbed == used.crash = 0 /\ used.fault = 0 /\ used.reopen = 0

\* What is used of a bound is never given back.
LEMMA UsedGrows ==
  ASSUME TypeInv, [Next]_vars
  PROVE  /\ used'.crash >= used.crash /\ used'.fault >= used.fault
         /\ used'.reopen >= used.reopen /\ used'.dispatch >= used.dispatch
<1> DEFINE Grows == \/ used' = used
                    \/ used' = [used EXCEPT !.crash = @ + 1]
                    \/ used' = [used EXCEPT !.fault = @ + 1]
                    \/ used' = [used EXCEPT !.reopen = @ + 1]
                    \/ used' = [used EXCEPT !.dispatch = @ + 1]
<1>1. ASSUME \E u \in Users : AddCredits(u) PROVE Grows
  BY <1>1 DEF AddCredits
<1>2. ASSUME NEW l \in Launches,
             \/ Request(l) \/ FatDriver(l) \/ ThinDriver(l) \/ Finalize(l)
             \/ Worker(l) \/ Reopen(l) \/ Dispatch(l) \/ Reaper(l)
      PROVE  Grows
  <2>1. CASE Request(l) \/ FatDriver(l)
    BY <2>1 DEF Request, CreateDebit, CreateLaunch, CreateLaunchFails, CreateRaises,
                CreateRecord, CreateFire, FatDriver, DrivePass, DriveConverges,
                DriveGivesUp, DriveRaises, Fault
  <2>2. CASE ThinDriver(l) \/ Worker(l)
    BY <2>2 DEF ThinDriver, ThinStart, ThinNoRuntime, ThinSkip, ThinClaim, ThinComplete,
                ThinFail, ThinConverges, Worker, WorkerDone, WorkerBlocked
  <2>3. CASE Finalize(l)
    BY <2>3 DEF Finalize, FinRead, FinWork, FinRefund, FinWrite, FinAborts, FinSeal, Fault
  <2>4. CASE Reopen(l) \/ Dispatch(l) \/ Reaper(l)
    BY <2>4 DEF Reopen, ReopenRead, ReopenUnseal, ReopenWrite, Dispatch, ApiDispatch,
                ApiPass, ApiEnds, Reaper, ReaperCheck, ReaperPass, Fault
  <2>5. QED
    BY <1>2, <2>1, <2>2, <2>3, <2>4
<1>3. ASSUME CrashRestart PROVE Grows
  BY <1>3 DEF CrashRestart
<1>4. ASSUME UNCHANGED vars PROVE Grows
  BY <1>4 DEF vars
<1>5. Grows
  BY <1>1, <1>2, <1>3, <1>4 DEF Next
<1>6. used \in UsedType
  BY DEF TypeInv, TypeOK, UsedType
<1>7. QED
  BY <1>5, <1>6 DEF UsedType

LEMMA UndisturbedBefore == TypeInv /\ [Next]_vars /\ Undisturbed' => Undisturbed
<1> SUFFICES ASSUME TypeInv, [Next]_vars, Undisturbed' PROVE Undisturbed
  OBVIOUS
<1>1. used \in UsedType
  BY DEF TypeInv, TypeOK, UsedType
<1>2. used'.crash >= used.crash /\ used'.fault >= used.fault /\ used'.reopen >= used.reopen
  BY UsedGrows
<1>3. QED
  BY <1>1, <1>2 DEF Undisturbed, UsedType

\* A launch is refunded by its request, before it has a driver, or by its driver
\* on the way to writing the flag; in between the driver's local variable stands
\* for the flag.
BooksInv ==
    \A l \in Launches :
        /\ reqPc[l] \in {"idle", "debited", "launched", "recorded", "failed"}
             => drvPc[l] = "none"
        /\ reqPc[l] \in {"idle", "debited", "launched", "recorded"} => refunds[l] = 0
        /\ drvPc[l] \in {"drive", "start", "lane", "exec", "finRead", "finWork", "finRefund"}
             => refunds[l] = 0
        /\ drvPc[l] \notin {"finSeal", "over"} => ~flag[l]
        /\ drvPc[l] = "finWrite" => (drv[l].refunded <=> refunds[l] >= 1)
        /\ drvPc[l] \in {"finWork", "finRefund"} => ~drv[l].refunded
        /\ drvPc[l] \in {"finSeal", "over"} => (flag[l] <=> refunds[l] >= 1)
        /\ reopen[l] = "idle"

LEMMA BooksRequest ==
  ASSUME TypeInv, Undisturbed, Undisturbed', BooksInv, NEW l \in Launches, Request(l)
  PROVE  BooksInv'
<1> USE DEF TypeInv, TypeOK, Undisturbed, BooksInv, rows, board, threads, history
<1>1. ASSUME NEW u \in Users, CreateDebit(u, l) PROVE BooksInv'
  BY <1>1 DEF CreateDebit
<1>2. CASE CreateLaunch(l)
  BY <1>2 DEF CreateLaunch
<1>3. CASE CreateLaunchFails(l)
  BY <1>3 DEF CreateLaunchFails
<1>4. CASE CreateRaises(l)
  BY <1>4 DEF CreateRaises, Fault
<1>5. CASE CreateRecord(l)
  BY <1>5 DEF CreateRecord
<1>6. CASE CreateFire(l)
  BY <1>6 DEF CreateFire
<1>7. QED
  BY <1>1, <1>2, <1>3, <1>4, <1>5, <1>6 DEF Request

LEMMA BooksFatDriver ==
  ASSUME TypeInv, Undisturbed, Undisturbed', BooksInv, NEW l \in Launches, FatDriver(l)
  PROVE  BooksInv'
<1> USE DEF TypeInv, TypeOK, Undisturbed, BooksInv, rows, board, threads, history
<1>1. CASE DrivePass(l)
  BY <1>1 DEF DrivePass
<1>2. CASE DriveConverges(l)
  BY <1>2 DEF DriveConverges, GoFinalize
<1>3. CASE DriveGivesUp(l)
  BY <1>3 DEF DriveGivesUp, GoFinalize
<1>4. CASE DriveRaises(l)
  BY <1>4 DEF DriveRaises, GoFinalize, Fault
<1>5. QED
  BY <1>1, <1>2, <1>3, <1>4 DEF FatDriver

LEMMA BooksThinDriver ==
  ASSUME TypeInv, Undisturbed, Undisturbed', BooksInv, NEW l \in Launches, ThinDriver(l)
  PROVE  BooksInv'
<1> USE DEF TypeInv, TypeOK, Undisturbed, BooksInv, rows, board, threads, history
<1>1. CASE ThinStart(l)
  BY <1>1 DEF ThinStart
<1>2. CASE ThinNoRuntime(l)
  BY <1>2 DEF ThinNoRuntime, GoFinalize
<1>3. CASE ThinSkip(l)
  BY <1>3 DEF ThinSkip
<1>4. CASE ThinClaim(l)
  BY <1>4 DEF ThinClaim
<1>5. CASE ThinComplete(l)
  BY <1>5 DEF ThinComplete
<1>6. CASE ThinFail(l)
  BY <1>6 DEF ThinFail, GoFinalize
<1>7. CASE ThinConverges(l)
  BY <1>7 DEF ThinConverges, GoFinalize
<1>8. QED
  BY <1>1, <1>2, <1>3, <1>4, <1>5, <1>6, <1>7 DEF ThinDriver

LEMMA BooksFinalize ==
  ASSUME TypeInv, Undisturbed, Undisturbed', BooksInv, NEW l \in Launches, Finalize(l)
  PROVE  BooksInv'
<1> USE DEF TypeInv, TypeOK, Undisturbed, BooksInv, rows, board, threads, history
<1>1. CASE FinRead(l)
  BY <1>1 DEF FinRead, Fault
<1>2. CASE FinWork(l)
  BY <1>2 DEF FinWork, Fault
<1>3. CASE FinRefund(l)
  BY <1>3 DEF FinRefund
<1>4. CASE FinWrite(l)
  BY <1>4 DEF FinWrite
<1>5. CASE FinAborts(l)
  BY <1>5 DEF FinAborts, Fault
<1>6. CASE FinSeal(l)
  BY <1>6 DEF FinSeal
<1>7. QED
  BY <1>1, <1>2, <1>3, <1>4, <1>5, <1>6 DEF Finalize

LEMMA BooksWorker ==
  ASSUME TypeInv, Undisturbed, Undisturbed', BooksInv, NEW l \in Launches, Worker(l)
  PROVE  BooksInv'
<1> USE DEF TypeInv, TypeOK, Undisturbed, BooksInv, rows, board, threads, history
<1>1. ASSUME NEW i \in Lanes, WorkerDone(l, i) PROVE BooksInv'
  BY <1>1 DEF WorkerDone
<1>2. ASSUME NEW i \in Lanes, WorkerBlocked(l, i) PROVE BooksInv'
  BY <1>2 DEF WorkerBlocked
<1>3. QED
  BY <1>1, <1>2 DEF Worker

LEMMA BooksReopen ==
  ASSUME TypeInv, Undisturbed, Undisturbed', BooksInv, NEW l \in Launches, Reopen(l)
  PROVE  BooksInv'
<1> USE DEF TypeInv, TypeOK, Undisturbed, BooksInv, rows, board, threads, history
<1>1. CASE ReopenRead(l)
  BY <1>1 DEF ReopenRead
<1>2. CASE ReopenUnseal(l)
  BY <1>2 DEF ReopenUnseal
<1>3. CASE ReopenWrite(l)
  BY <1>3 DEF ReopenWrite, Fault
<1>4. QED
  BY <1>1, <1>2, <1>3 DEF Reopen

LEMMA BooksDispatch ==
  ASSUME TypeInv, Undisturbed, Undisturbed', BooksInv, NEW l \in Launches, Dispatch(l)
  PROVE  BooksInv'
<1> USE DEF TypeInv, TypeOK, Undisturbed, BooksInv, rows, board, threads, history
<1>1. CASE ApiDispatch(l)
  BY <1>1 DEF ApiDispatch
<1>2. CASE ApiPass(l)
  BY <1>2 DEF ApiPass
<1>3. CASE ApiEnds(l)
  BY <1>3 DEF ApiEnds
<1>4. QED
  BY <1>1, <1>2, <1>3 DEF Dispatch

LEMMA BooksReaper ==
  ASSUME TypeInv, Undisturbed, Undisturbed', BooksInv, NEW l \in Launches, Reaper(l)
  PROVE  BooksInv'
<1> USE DEF TypeInv, TypeOK, Undisturbed, BooksInv, rows, board, threads, history
<1>1. CASE ReaperCheck(l)
  BY <1>1 DEF ReaperCheck
<1>2. CASE ReaperPass(l)
  BY <1>2 DEF ReaperPass
<1>3. QED
  BY <1>1, <1>2 DEF Reaper

LEMMA BooksStep ==
  ASSUME TypeInv, Undisturbed, Undisturbed', BooksInv, [Next]_vars
  PROVE  BooksInv'
<1>1. ASSUME NEW u \in Users, AddCredits(u) PROVE BooksInv'
  BY <1>1 DEF AddCredits, threads, rows, board, BooksInv
<1>2. ASSUME NEW l \in Launches,
             \/ Request(l) \/ FatDriver(l) \/ ThinDriver(l) \/ Finalize(l)
             \/ Worker(l) \/ Reopen(l) \/ Dispatch(l) \/ Reaper(l)
      PROVE  BooksInv'
  BY <1>2, BooksRequest, BooksFatDriver, BooksThinDriver, BooksFinalize, BooksWorker, BooksReopen, BooksDispatch, BooksReaper
<1>3. CASE CrashRestart
  BY <1>3 DEF CrashRestart, Undisturbed, TypeInv, TypeOK
<1>4. CASE UNCHANGED vars
  BY <1>4 DEF vars, BooksInv
<1>5. QED
  BY <1>1, <1>2, <1>3, <1>4 DEF Next

\* Until something disturbs a launch, its row is marked refunded exactly when its
\* credit went back.
THEOREM BooksAgreeUndisturbed == Spec => [](Undisturbed => BooksAgree)
<1>1. Init => BooksInv
  BY DEF Init, BooksInv
<1>2. TypeInv /\ (Undisturbed => BooksInv) /\ [Next]_vars => (Undisturbed => BooksInv)'
  BY UndisturbedBefore, BooksStep
<1>3. Spec => [](Undisturbed => BooksInv)
  BY <1>1, <1>2, TypeInit, TypeStep, PTL DEF Spec
<1>4. (Undisturbed => BooksInv) => (Undisturbed => BooksAgree)
  BY DEF BooksInv, BooksAgree
<1>5. QED
  BY <1>3, <1>4, PTL

-----------------------------------------------------------------------------
(* No refund where work was done.  A worker that a dispatch pass spawned    *)
(* may finish after the finalizer looked at the board, so the theorem is    *)
(* about a thin host, where the driver runs the lanes itself, until someone *)
(* dispatches by hand.                                                      *)

ByDriverAlone == Undisturbed /\ used.dispatch = 0

LEMMA ByDriverAloneBefore == TypeInv /\ [Next]_vars /\ ByDriverAlone' => ByDriverAlone
<1> SUFFICES ASSUME TypeInv, [Next]_vars, ByDriverAlone' PROVE ByDriverAlone
  OBVIOUS
<1>1. used \in UsedType
  BY DEF TypeInv, TypeOK, UsedType
<1>2. used'.dispatch >= used.dispatch
  BY UsedGrows
<1>3. QED
  BY <1>1, <1>2, UndisturbedBefore DEF ByDriverAlone, UsedType

\* The thin driver moves on by one lane, and no other driver moves with it.
LEMMA DriverMovesOn ==
  ASSUME TypeInv, NEW l \in Launches, drv' = [drv EXCEPT ![l].at = @ + 1]
  PROVE  /\ drv[l].at \in Nat /\ drv'[l].at = drv[l].at + 1 /\ drv'[l].skip = drv[l].skip
         /\ \A k \in Launches : k # l => drv'[k] = drv[k]
<1>1. drv \in [Launches -> DriverLocals]
  BY DEF TypeInv, TypeOK
<1>2. QED
  BY <1>1 DEF DriverLocals

\* A lane runs only while the driver executes it; a lane that was produced is
\* behind the driver and stays done, so the finalizer sees it.
WorkInv ==
    /\ reaper = NoLaunch
    /\ \A l \in Launches :
        /\ ~api[l]
        /\ drvPc[l] # "drive"
        /\ drvPc[l] \in {"none", "start", "finRefund"} \/ refunds[l] > 0 => produced[l] = {}
        /\ \A i \in Lanes : /\ lane[l][i] = "running" => drvPc[l] = "exec" /\ drv[l].at = i
                            /\ i \in produced[l] => lane[l][i] = "done"
                            /\ drvPc[l] \in {"lane", "exec"} /\ i \in produced[l] => i < drv[l].at

LEMMA WorkRequest ==
  ASSUME Thin, TypeInv, ByDriverAlone, ByDriverAlone', BooksInv, WorkInv, NEW l \in Launches, Request(l)
  PROVE  WorkInv'
<1> USE DEF TypeInv, TypeOK, LocalOK, ByDriverAlone, Undisturbed, BooksInv, WorkInv, rows, board, threads, history
<1>1. ASSUME NEW u \in Users, CreateDebit(u, l) PROVE WorkInv'
  BY <1>1 DEF CreateDebit
<1>2. CASE CreateLaunch(l)
  BY <1>2 DEF CreateLaunch
<1>3. CASE CreateLaunchFails(l)
  BY <1>3 DEF CreateLaunchFails
<1>4. CASE CreateRaises(l)
  BY <1>4 DEF CreateRaises, Fault
<1>5. CASE CreateRecord(l)
  BY <1>5 DEF CreateRecord
<1>6. CASE CreateFire(l)
  BY <1>6 DEF CreateFire
<1>7. QED
  BY <1>1, <1>2, <1>3, <1>4, <1>5, <1>6 DEF Request

LEMMA WorkFatDriver ==
  ASSUME Thin, TypeInv, ByDriverAlone, ByDriverAlone', BooksInv, WorkInv, NEW l \in Launches, FatDriver(l)
  PROVE  WorkInv'
<1> USE DEF TypeInv, TypeOK, LocalOK, ByDriverAlone, Undisturbed, BooksInv, WorkInv, rows, board, threads, history
<1>1. CASE DrivePass(l)
  BY <1>1 DEF DrivePass
<1>2. CASE DriveConverges(l)
  BY <1>2 DEF DriveConverges, GoFinalize
<1>3. CASE DriveGivesUp(l)
  BY <1>3 DEF DriveGivesUp, GoFinalize
<1>4. CASE DriveRaises(l)
  BY <1>4 DEF DriveRaises, GoFinalize, Fault
<1>5. QED
  BY <1>1, <1>2, <1>3, <1>4 DEF FatDriver

LEMMA WorkThinDriver ==
  ASSUME Thin, TypeInv, ByDriverAlone, ByDriverAlone', BooksInv, WorkInv, NEW l \in Launches, ThinDriver(l)
  PROVE  WorkInv'
<1> USE DEF TypeInv, TypeOK, LocalOK, ByDriverAlone, Undisturbed, BooksInv, WorkInv, rows, board, threads, history
<1>1. CASE ThinStart(l)
  BY <1>1 DEF ThinStart
<1>2. CASE ThinNoRuntime(l)
  BY <1>2 DEF ThinNoRuntime, GoFinalize
<1>3. CASE ThinSkip(l)
  <2>1. drv' = [drv EXCEPT ![l].at = @ + 1]
    BY <1>3 DEF ThinSkip
  <2>2. drv[l].at \in Nat
    BY <2>1, DriverMovesOn
  <2>3. \A i \in Lanes : i < drv[l].at => i < drv[l].at + 1
    BY ONLY <2>2, LedgerAssumption DEF Lanes
  <2>4. QED
    BY <1>3, <2>1, <2>3, DriverMovesOn DEF ThinSkip
<1>4. CASE ThinClaim(l)
  <2>1. drv[l].at \notin produced[l]
    BY <1>4 DEF ThinClaim, Lanes
  <2>2. QED
    BY <1>4, <2>1 DEF ThinClaim
<1>5. CASE ThinComplete(l)
  <2>1. drv' = [drv EXCEPT ![l].at = @ + 1]
    BY <1>5 DEF ThinComplete
  <2>2. drv[l].at \in Nat
    BY <2>1, DriverMovesOn
  <2>3. \A i \in Lanes : i < drv[l].at \/ i = drv[l].at => i < drv[l].at + 1
    BY ONLY <2>2, LedgerAssumption DEF Lanes
  <2>4. QED
    BY <1>5, <2>1, <2>3, DriverMovesOn DEF ThinComplete
<1>6. CASE ThinFail(l)
  BY <1>6 DEF ThinFail, GoFinalize
<1>7. CASE ThinConverges(l)
  BY <1>7 DEF ThinConverges, GoFinalize
<1>8. QED
  BY <1>1, <1>2, <1>3, <1>4, <1>5, <1>6, <1>7 DEF ThinDriver

LEMMA WorkFinalize ==
  ASSUME Thin, TypeInv, ByDriverAlone, ByDriverAlone', BooksInv, WorkInv, NEW l \in Launches, Finalize(l)
  PROVE  WorkInv'
<1> USE DEF TypeInv, TypeOK, LocalOK, ByDriverAlone, Undisturbed, BooksInv, WorkInv, rows, board, threads, history
<1>1. CASE FinRead(l)
  BY <1>1 DEF FinRead, Fault
<1>2. CASE FinWork(l)
  BY <1>2 DEF FinWork, Fault, HasCompletedWork
<1>3. CASE FinRefund(l)
  BY <1>3 DEF FinRefund
<1>4. CASE FinWrite(l)
  BY <1>4 DEF FinWrite
<1>5. CASE FinAborts(l)
  BY <1>5 DEF FinAborts, Fault
<1>6. CASE FinSeal(l)
  BY <1>6 DEF FinSeal
<1>7. QED
  BY <1>1, <1>2, <1>3, <1>4, <1>5, <1>6 DEF Finalize

LEMMA WorkWorker ==
  ASSUME Thin, TypeInv, ByDriverAlone, ByDriverAlone', BooksInv, WorkInv, NEW l \in Launches, Worker(l)
  PROVE  WorkInv'
<1> USE DEF TypeInv, TypeOK, LocalOK, ByDriverAlone, Undisturbed, BooksInv, WorkInv, rows, board, threads, history
<1>1. ASSUME NEW i \in Lanes, WorkerDone(l, i) PROVE WorkInv'
  BY <1>1 DEF WorkerDone
<1>2. ASSUME NEW i \in Lanes, WorkerBlocked(l, i) PROVE WorkInv'
  BY <1>2 DEF WorkerBlocked
<1>3. QED
  BY <1>1, <1>2 DEF Worker

LEMMA WorkReopen ==
  ASSUME Thin, TypeInv, ByDriverAlone, ByDriverAlone', BooksInv, WorkInv, NEW l \in Launches, Reopen(l)
  PROVE  WorkInv'
<1> USE DEF TypeInv, TypeOK, LocalOK, ByDriverAlone, Undisturbed, BooksInv, WorkInv, rows, board, threads, history
<1>1. CASE ReopenRead(l)
  BY <1>1 DEF ReopenRead
<1>2. CASE ReopenUnseal(l)
  BY <1>2 DEF ReopenUnseal
<1>3. CASE ReopenWrite(l)
  BY <1>3 DEF ReopenWrite, Fault
<1>4. QED
  BY <1>1, <1>2, <1>3 DEF Reopen

LEMMA WorkDispatch ==
  ASSUME Thin, TypeInv, ByDriverAlone, ByDriverAlone', BooksInv, WorkInv, NEW l \in Launches, Dispatch(l)
  PROVE  WorkInv'
<1> USE DEF TypeInv, TypeOK, LocalOK, ByDriverAlone, Undisturbed, BooksInv, WorkInv, rows, board, threads, history
<1>1. CASE ApiDispatch(l)
  BY <1>1 DEF ApiDispatch
<1>2. CASE ApiPass(l)
  BY <1>2 DEF ApiPass
<1>3. CASE ApiEnds(l)
  BY <1>3 DEF ApiEnds
<1>4. QED
  BY <1>1, <1>2, <1>3 DEF Dispatch

LEMMA WorkReaper ==
  ASSUME Thin, TypeInv, ByDriverAlone, ByDriverAlone', BooksInv, WorkInv, NEW l \in Launches, Reaper(l)
  PROVE  WorkInv'
<1> USE DEF TypeInv, TypeOK, LocalOK, ByDriverAlone, Undisturbed, BooksInv, WorkInv, rows, board, threads, history
<1>1. CASE ReaperCheck(l)
  BY <1>1 DEF ReaperCheck
<1>2. CASE ReaperPass(l)
  BY <1>2 DEF ReaperPass
<1>3. QED
  BY <1>1, <1>2 DEF Reaper

LEMMA WorkStep ==
  ASSUME Thin, TypeInv, ByDriverAlone, ByDriverAlone', BooksInv, WorkInv, [Next]_vars
  PROVE  WorkInv'
<1>1. ASSUME NEW u \in Users, AddCredits(u) PROVE WorkInv'
  BY <1>1 DEF AddCredits, threads, rows, board, WorkInv
<1>2. ASSUME NEW l \in Launches,
             \/ Request(l) \/ FatDriver(l) \/ ThinDriver(l) \/ Finalize(l)
             \/ Worker(l) \/ Reopen(l) \/ Dispatch(l) \/ Reaper(l)
      PROVE  WorkInv'
  BY <1>2, WorkRequest, WorkFatDriver, WorkThinDriver, WorkFinalize, WorkWorker, WorkReopen, WorkDispatch, WorkReaper
<1>3. CASE CrashRestart
  BY <1>3 DEF CrashRestart, ByDriverAlone, Undisturbed, TypeInv, TypeOK
<1>4. CASE UNCHANGED vars
  BY <1>4 DEF vars, WorkInv
<1>5. QED
  BY <1>1, <1>2, <1>3, <1>4 DEF Next

\* On a thin host where nothing disturbs the driver and nobody dispatches by hand,
\* a launch whose agents produced something is never refunded.
THEOREM NoRefundOfWork ==
  Thin => (Spec => [](ByDriverAlone => RefundOnlyWithoutWork))
<1> SUFFICES ASSUME Thin PROVE Spec => [](ByDriverAlone => RefundOnlyWithoutWork)
  OBVIOUS
<1> DEFINE Inv == ByDriverAlone => BooksInv /\ WorkInv
<1>1. Init => Inv
  BY DEF Init, BooksInv, WorkInv
<1>2. TypeInv /\ Inv /\ [Next]_vars => Inv'
  <2> SUFFICES ASSUME TypeInv, Inv, [Next]_vars, ByDriverAlone' PROVE BooksInv' /\ WorkInv'
    OBVIOUS
  <2>1. ByDriverAlone /\ BooksInv /\ WorkInv
    BY ByDriverAloneBefore
  <2>2. BooksInv'
    BY <2>1, BooksStep DEF ByDriverAlone
  <2>3. WorkInv'
    BY <2>1, WorkStep
  <2>4. QED
    BY <2>2, <2>3
<1>3. Spec => []Inv
  <2> HIDE DEF Inv
  <2> QED
    BY <1>1, <1>2, TypeInit, TypeStep, PTL DEF Spec
<1>4. Inv => (ByDriverAlone => RefundOnlyWithoutWork)
  BY DEF WorkInv, RefundOnlyWithoutWork
<1>5. QED
  BY <1>3, <1>4, PTL

-----------------------------------------------------------------------------
(* What "ok" means.  Only a driver that failed a lane, and was started      *)
(* again by a restart, finds a lane done that produced nothing: until the   *)
(* host restarts, whatever else happens, ok is every lane.                  *)

NotRestarted == used.crash = 0

\* The lanes behind the driver, and those it found done, were produced.
OkInv ==
    \A l \in Launches :
        /\ drvPc[l] # "drive"
        /\ reqPc[l] \in {"idle", "debited", "launched", "recorded"} => drvPc[l] = "none"
        /\ \A i \in Lanes :
            /\ drvPc[l] \in {"none", "start"} /\ lane[l][i] = "done" => i \in produced[l]
            /\ drvPc[l] \in {"lane", "exec"} /\ (i \in drv[l].skip \/ i < drv[l].at)
                 => i \in produced[l]
            /\ delivered[l] \/ (drvPc[l] \in Finalizing /\ drv[l].out = "ok")
                 => i \in produced[l]

LEMMA OkRequest ==
  ASSUME Thin, TypeInv, NotRestarted, NotRestarted', OkInv, NEW l \in Launches, Request(l)
  PROVE  OkInv'
<1> USE DEF TypeInv, TypeOK, LocalOK, OkInv, Finalizing, rows, board, threads, history
<1>1. ASSUME NEW u \in Users, CreateDebit(u, l) PROVE OkInv'
  BY <1>1 DEF CreateDebit
<1>2. CASE CreateLaunch(l)
  BY <1>2 DEF CreateLaunch
<1>3. CASE CreateLaunchFails(l)
  BY <1>3 DEF CreateLaunchFails
<1>4. CASE CreateRaises(l)
  BY <1>4 DEF CreateRaises, Fault
<1>5. CASE CreateRecord(l)
  BY <1>5 DEF CreateRecord
<1>6. CASE CreateFire(l)
  BY <1>6 DEF CreateFire
<1>7. QED
  BY <1>1, <1>2, <1>3, <1>4, <1>5, <1>6 DEF Request

LEMMA OkFatDriver ==
  ASSUME Thin, TypeInv, NotRestarted, NotRestarted', OkInv, NEW l \in Launches, FatDriver(l)
  PROVE  OkInv'
<1> USE DEF TypeInv, TypeOK, LocalOK, OkInv, Finalizing, rows, board, threads, history
<1>1. CASE DrivePass(l)
  BY <1>1 DEF DrivePass, Spawned, Queued
<1>2. CASE DriveConverges(l)
  BY <1>2 DEF DriveConverges, GoFinalize
<1>3. CASE DriveGivesUp(l)
  BY <1>3 DEF DriveGivesUp, GoFinalize
<1>4. CASE DriveRaises(l)
  BY <1>4 DEF DriveRaises, GoFinalize, Fault
<1>5. QED
  BY <1>1, <1>2, <1>3, <1>4 DEF FatDriver

LEMMA OkThinDriver ==
  ASSUME Thin, TypeInv, NotRestarted, NotRestarted', OkInv, NEW l \in Launches, ThinDriver(l)
  PROVE  OkInv'
<1> USE DEF TypeInv, TypeOK, LocalOK, OkInv, Finalizing, rows, board, threads, history
<1>1. CASE ThinStart(l)
  <2>1. drv'[l].at = 1 /\ drv'[l].skip = {i \in Lanes : lane[l][i] = "done"}
    BY <1>1 DEF ThinStart, DriverLocals
  <2>2. \A i \in Lanes : ~(i < drv'[l].at)
    BY <2>1 DEF Lanes
  <2>3. \A k \in Launches : k # l => drv'[k] = drv[k]
    BY <1>1 DEF ThinStart
  <2>4. QED
    BY <1>1, <2>1, <2>2, <2>3 DEF ThinStart
<1>2. CASE ThinNoRuntime(l)
  BY <1>2 DEF ThinNoRuntime, GoFinalize
<1>3. CASE ThinSkip(l)
  <2>1. drv' = [drv EXCEPT ![l].at = @ + 1]
    BY <1>3 DEF ThinSkip
  <2>2. drv[l].at \in Nat
    BY <2>1, DriverMovesOn
  <2>3. \A i \in Lanes : i < drv[l].at + 1 => i < drv[l].at \/ i = drv[l].at
    BY ONLY <2>2, LedgerAssumption DEF Lanes
  <2>4. QED
    BY <1>3, <2>1, <2>3, DriverMovesOn DEF ThinSkip
<1>4. CASE ThinClaim(l)
  BY <1>4 DEF ThinClaim
<1>5. CASE ThinComplete(l)
  <2>1. drv' = [drv EXCEPT ![l].at = @ + 1]
    BY <1>5 DEF ThinComplete
  <2>2. drv[l].at \in Nat
    BY <2>1, DriverMovesOn
  <2>3. \A i \in Lanes : i < drv[l].at + 1 => i < drv[l].at \/ i = drv[l].at
    BY ONLY <2>2, LedgerAssumption DEF Lanes
  <2>4. QED
    BY <1>5, <2>1, <2>3, DriverMovesOn DEF ThinComplete
<1>6. CASE ThinFail(l)
  BY <1>6 DEF ThinFail, GoFinalize
<1>7. CASE ThinConverges(l)
  <2>1. \A i \in Lanes : i < drv[l].at
    BY <1>7 DEF ThinConverges, Lanes
  <2>2. QED
    BY <1>7, <2>1 DEF ThinConverges, GoFinalize
<1>8. QED
  BY <1>1, <1>2, <1>3, <1>4, <1>5, <1>6, <1>7 DEF ThinDriver

LEMMA OkFinalize ==
  ASSUME Thin, TypeInv, NotRestarted, NotRestarted', OkInv, NEW l \in Launches, Finalize(l)
  PROVE  OkInv'
<1> USE DEF TypeInv, TypeOK, LocalOK, OkInv, Finalizing, rows, board, threads, history
<1>1. CASE FinRead(l)
  BY <1>1 DEF FinRead, Fault
<1>2. CASE FinWork(l)
  BY <1>2 DEF FinWork, Fault
<1>3. CASE FinRefund(l)
  BY <1>3 DEF FinRefund
<1>4. CASE FinWrite(l)
  BY <1>4 DEF FinWrite
<1>5. CASE FinAborts(l)
  BY <1>5 DEF FinAborts, Fault
<1>6. CASE FinSeal(l)
  BY <1>6 DEF FinSeal
<1>7. QED
  BY <1>1, <1>2, <1>3, <1>4, <1>5, <1>6 DEF Finalize

LEMMA OkWorker ==
  ASSUME Thin, TypeInv, NotRestarted, NotRestarted', OkInv, NEW l \in Launches, Worker(l)
  PROVE  OkInv'
<1> USE DEF TypeInv, TypeOK, LocalOK, OkInv, Finalizing, rows, board, threads, history
<1>1. ASSUME NEW i \in Lanes, WorkerDone(l, i) PROVE OkInv'
  BY <1>1 DEF WorkerDone
<1>2. ASSUME NEW i \in Lanes, WorkerBlocked(l, i) PROVE OkInv'
  BY <1>2 DEF WorkerBlocked
<1>3. QED
  BY <1>1, <1>2 DEF Worker

LEMMA OkReopen ==
  ASSUME Thin, TypeInv, NotRestarted, NotRestarted', OkInv, NEW l \in Launches, Reopen(l)
  PROVE  OkInv'
<1> USE DEF TypeInv, TypeOK, LocalOK, OkInv, Finalizing, rows, board, threads, history
<1>1. CASE ReopenRead(l)
  BY <1>1 DEF ReopenRead
<1>2. CASE ReopenUnseal(l)
  BY <1>2 DEF ReopenUnseal
<1>3. CASE ReopenWrite(l)
  BY <1>3 DEF ReopenWrite, Fault
<1>4. QED
  BY <1>1, <1>2, <1>3 DEF Reopen

LEMMA OkDispatch ==
  ASSUME Thin, TypeInv, NotRestarted, NotRestarted', OkInv, NEW l \in Launches, Dispatch(l)
  PROVE  OkInv'
<1> USE DEF TypeInv, TypeOK, LocalOK, OkInv, Finalizing, rows, board, threads, history
<1>1. CASE ApiDispatch(l)
  BY <1>1 DEF ApiDispatch
<1>2. CASE ApiPass(l)
  BY <1>2 DEF ApiPass, Spawned, Queued
<1>3. CASE ApiEnds(l)
  BY <1>3 DEF ApiEnds
<1>4. QED
  BY <1>1, <1>2, <1>3 DEF Dispatch

LEMMA OkReaper ==
  ASSUME Thin, TypeInv, NotRestarted, NotRestarted', OkInv, NEW l \in Launches, Reaper(l)
  PROVE  OkInv'
<1> USE DEF TypeInv, TypeOK, LocalOK, OkInv, Finalizing, rows, board, threads, history
<1>1. CASE ReaperCheck(l)
  BY <1>1 DEF ReaperCheck
<1>2. CASE ReaperPass(l)
  BY <1>2 DEF ReaperPass, Spawned, Queued
<1>3. QED
  BY <1>1, <1>2 DEF Reaper

LEMMA OkStep ==
  ASSUME Thin, TypeInv, NotRestarted, NotRestarted', OkInv, [Next]_vars
  PROVE  OkInv'
<1>1. ASSUME NEW u \in Users, AddCredits(u) PROVE OkInv'
  BY <1>1 DEF AddCredits, threads, rows, board, OkInv
<1>2. ASSUME NEW l \in Launches,
             \/ Request(l) \/ FatDriver(l) \/ ThinDriver(l) \/ Finalize(l)
             \/ Worker(l) \/ Reopen(l) \/ Dispatch(l) \/ Reaper(l)
      PROVE  OkInv'
  BY <1>2, OkRequest, OkFatDriver, OkThinDriver, OkFinalize, OkWorker, OkReopen, OkDispatch, OkReaper
<1>3. CASE CrashRestart
  BY <1>3 DEF CrashRestart, NotRestarted, TypeInv, TypeOK
<1>4. CASE UNCHANGED vars
  BY <1>4 DEF vars, OkInv
<1>5. QED
  BY <1>1, <1>2, <1>3, <1>4 DEF Next

\* A launch recorded as converged on a thin host that was not restarted has an
\* artifact of every lane, whatever failed, was reopened or dispatched by hand.
THEOREM OkMeansProduced ==
  Thin => (Spec => [](NotRestarted => OkMeansEveryLaneProduced))
<1> SUFFICES ASSUME Thin PROVE Spec => [](NotRestarted => OkMeansEveryLaneProduced)
  OBVIOUS
<1> DEFINE Inv == NotRestarted => OkInv
<1>1. Init => Inv
  BY DEF Init, OkInv, Finalizing
<1>2. TypeInv /\ Inv /\ [Next]_vars => Inv'
  <2> SUFFICES ASSUME TypeInv, Inv, [Next]_vars, NotRestarted' PROVE OkInv'
    OBVIOUS
  <2>1. NotRestarted
    <3>1. used \in UsedType
      BY DEF TypeInv, TypeOK, UsedType
    <3>2. used'.crash >= used.crash
      BY UsedGrows
    <3>3. QED
      BY <3>1, <3>2 DEF NotRestarted, UsedType
  <2>2. QED
    BY <2>1, OkStep
<1>3. Spec => []Inv
  <2> HIDE DEF Inv
  <2> QED
    BY <1>1, <1>2, TypeInit, TypeStep, PTL DEF Spec
<1>4. TypeInv /\ Inv => (NotRestarted => OkMeansEveryLaneProduced)
  <2> SUFFICES ASSUME TypeInv, OkInv, NEW l \in Launches, delivered[l] PROVE produced[l] = Lanes
    BY DEF OkMeansEveryLaneProduced
  <2>1. produced[l] \subseteq Lanes
    BY DEF TypeInv, TypeOK
  <2>2. \A i \in Lanes : i \in produced[l]
    BY DEF OkInv
  <2>3. QED
    BY <2>1, <2>2
<1>5. Spec => []TypeInv
  BY TypeInit, TypeStep, PTL DEF Spec
<1>6. QED
  <2> HIDE DEF Inv
  <2> QED
    BY <1>3, <1>4, <1>5, PTL

-----------------------------------------------------------------------------
(* The balance of an account.  A debit adds a launch to those it was        *)
(* charged for, which had no refund yet; a refund adds one to the balance   *)
(* and one to the sum over them.                                            *)

\* The launches an account was charged for.
Charged(u) == {l \in Launches : owner[l] = u}

\* A launch nobody asked for yet was charged to nobody and gave nothing back.
UnaskedInv ==
    \A l \in Launches : reqPc[l] = "idle" => owner[l] = NoUser /\ refunds[l] = 0

BalanceOf(u) ==
    /\ IsFiniteSet(Charged(u))
    /\ credits[u] + Cardinality(Charged(u)) = InitCredits + bought[u] + SumOver(refunds, Charged(u))

BalanceInv == UnaskedInv /\ \A u \in Users : BalanceOf(u)

LEMMA BalanceAlone ==
  ASSUME BalanceInv, UNCHANGED <<credits, bought, owner, refunds>>,
         \A l \in Launches : reqPc'[l] = "idle" => reqPc[l] = "idle"
  PROVE  BalanceInv'
<1>1. UnaskedInv'
  BY DEF BalanceInv, UnaskedInv
<1>2. ASSUME NEW u \in Users PROVE BalanceOf(u)'
  BY DEF BalanceInv, BalanceOf, Charged
<1>3. QED
  BY <1>1, <1>2 DEF BalanceInv

\* A request that was made stays made.
LEMMA AskedStays ==
  ASSUME TypeInv, NEW l \in Launches,
         \/ Request(l) \/ FatDriver(l) \/ ThinDriver(l) \/ Finalize(l)
         \/ Worker(l) \/ Reopen(l) \/ Dispatch(l) \/ Reaper(l)
  PROVE  \A k \in Launches : reqPc'[k] = "idle" => reqPc[k] = "idle"
<1> USE DEF threads
<1>1. CASE Request(l)
  BY <1>1 DEF Request, CreateDebit, CreateLaunch, CreateLaunchFails, CreateRaises,
              CreateRecord, CreateFire, TypeInv, TypeOK
<1>2. CASE FatDriver(l)
  BY <1>2 DEF FatDriver, DrivePass, DriveConverges, DriveGivesUp, DriveRaises
<1>3. CASE ThinDriver(l)
  BY <1>3 DEF ThinDriver, ThinStart, ThinNoRuntime, ThinSkip, ThinClaim, ThinComplete,
              ThinFail, ThinConverges
<1>4. CASE Finalize(l)
  BY <1>4 DEF Finalize, FinRead, FinWork, FinRefund, FinWrite, FinAborts, FinSeal
<1>5. CASE Worker(l) \/ Reopen(l)
  BY <1>5 DEF Worker, WorkerDone, WorkerBlocked, Reopen, ReopenRead, ReopenUnseal, ReopenWrite
<1>6. CASE Dispatch(l) \/ Reaper(l)
  BY <1>6 DEF Dispatch, ApiDispatch, ApiPass, ApiEnds, Reaper, ReaperCheck, ReaperPass
<1>7. QED
  BY <1>1, <1>2, <1>3, <1>4, <1>5, <1>6

LEMMA BalanceBuy ==
  ASSUME TypeInv, BalanceInv, NEW v \in Users, AddCredits(v)
  PROVE  BalanceInv'
<1>1. /\ owner' = owner /\ refunds' = refunds /\ reqPc' = reqPc
      /\ bought' = [bought EXCEPT ![v] = @ + 1] /\ credits' = [credits EXCEPT ![v] = @ + 1]
  BY DEF AddCredits, threads
<1>2. ASSUME NEW u \in Users PROVE BalanceOf(u)'
  <2>1. IsFiniteSet(Charged(u)) /\ Charged(u)' = Charged(u)
    BY <1>1 DEF BalanceInv, BalanceOf, Charged
  <2>2. SumOver(refunds, Charged(u))' = SumOver(refunds, Charged(u))
    BY <1>1, <2>1
  <2>3. Cardinality(Charged(u)) \in Nat /\ SumOver(refunds, Charged(u)) \in Int
    BY <2>1, FS_CardinalityType, SumType DEF TypeInv, TypeOK, Charged
  <2>4. /\ credits[u] + Cardinality(Charged(u)) = InitCredits + bought[u] + SumOver(refunds, Charged(u))
        /\ credits[u] \in Nat /\ bought[u] \in Nat /\ InitCredits \in Nat
    BY DEF BalanceInv, BalanceOf, TypeInv, TypeOK
  <2>5. \/ credits'[u] = credits[u] + 1 /\ bought'[u] = bought[u] + 1
        \/ credits'[u] = credits[u] /\ bought'[u] = bought[u]
    BY <1>1 DEF TypeInv, TypeOK
  <2>6. credits'[u] + Cardinality(Charged(u)) = InitCredits + bought'[u] + SumOver(refunds, Charged(u))
    BY <2>3, <2>4, <2>5
  <2>7. QED
    BY <2>1, <2>2, <2>6 DEF BalanceOf
<1>3. QED
  BY <1>1, <1>2 DEF BalanceInv, UnaskedInv

LEMMA BalanceDebit ==
  ASSUME TypeInv, BalanceInv, NEW v \in Users, NEW l \in Launches, CreateDebit(v, l)
  PROVE  BalanceInv'
<1>1. /\ owner' = [owner EXCEPT ![l] = v] /\ refunds' = refunds /\ bought' = bought
      /\ reqPc' = [reqPc EXCEPT ![l] = "debited"]
      /\ credits' = [credits EXCEPT ![v] = @ - 1] /\ credits[v] > 0
      /\ owner[l] = NoUser /\ refunds[l] = 0
  BY DEF CreateDebit, history, BalanceInv, UnaskedInv
<1>2. UnaskedInv'
  BY <1>1 DEF BalanceInv, UnaskedInv, TypeInv, TypeOK
<1>3. ASSUME NEW u \in Users PROVE BalanceOf(u)'
  <2>1. IsFiniteSet(Charged(u)) /\ l \notin Charged(u)
    BY <1>1 DEF BalanceInv, BalanceOf, Charged
  <2>2. Cardinality(Charged(u)) \in Nat /\ SumOver(refunds, Charged(u)) \in Int
    BY <2>1, FS_CardinalityType, SumType DEF TypeInv, TypeOK, Charged
  <2>3. /\ credits[u] + Cardinality(Charged(u)) = InitCredits + bought[u] + SumOver(refunds, Charged(u))
        /\ credits[u] \in Nat /\ bought[u] \in Nat /\ InitCredits \in Nat
    BY DEF BalanceInv, BalanceOf, TypeInv, TypeOK
  <2>4. CASE u # v
    <3>1. Charged(u)' = Charged(u) /\ credits'[u] = credits[u]
      BY <1>1, <2>4 DEF Charged, TypeInv, TypeOK
    <3>2. QED
      BY <1>1, <2>1, <2>3, <3>1 DEF BalanceOf
  <2>5. CASE u = v
    <3>1. Charged(u)' = Charged(u) \cup {l} /\ credits'[u] = credits[u] - 1
      BY <1>1, <2>5 DEF Charged, TypeInv, TypeOK
    <3>2. IsFiniteSet(Charged(u)') /\ Cardinality(Charged(u)') = Cardinality(Charged(u)) + 1
      BY <2>1, <3>1, FS_AddElement
    <3>3. SumOver(refunds, Charged(u)') = refunds[l] + SumOver(refunds, Charged(u))
      <4>1. Charged(u)' \ {l} = Charged(u) /\ l \in Charged(u)'
        BY <2>1, <3>1
      <4>2. \A k \in Charged(u)' : refunds[k] \in Int
        BY DEF Charged, TypeInv, TypeOK
      <4>3. QED
        BY <3>2, <4>1, <4>2, SumTake
    <3>4. SumOver(refunds', Charged(u)') = SumOver(refunds, Charged(u))
      BY <1>1, <2>2, <3>3
    <3>5. credits'[u] + Cardinality(Charged(u)') = InitCredits + bought[u] + SumOver(refunds, Charged(u))
      BY <2>2, <2>3, <3>1, <3>2
    <3>6. QED
      BY <1>1, <3>2, <3>4, <3>5 DEF BalanceOf
  <2>6. QED
    BY <2>4, <2>5
<1>4. QED
  BY <1>2, <1>3 DEF BalanceInv

LEMMA BalanceRefund ==
  ASSUME TypeInv, BalanceInv, NEW l \in Launches, CreateLaunchFails(l) \/ FinRefund(l)
  PROVE  BalanceInv'
<1>1. /\ owner' = owner /\ bought' = bought
      /\ refunds' = [refunds EXCEPT ![l] = @ + 1]
      /\ credits' = [credits EXCEPT ![owner[l]] = @ + 1]
      /\ reqPc[l] # "idle" /\ \A k \in Launches : reqPc'[k] = "idle" => reqPc[k] = "idle"
  BY DEF CreateLaunchFails, FinRefund, TypeInv, TypeOK, LocalOK
<1>2. UnaskedInv'
  BY <1>1 DEF BalanceInv, UnaskedInv, TypeInv, TypeOK
<1>3. ASSUME NEW u \in Users PROVE BalanceOf(u)'
  <2>1. IsFiniteSet(Charged(u)) /\ Charged(u)' = Charged(u)
    BY <1>1 DEF BalanceInv, BalanceOf, Charged
  <2>2. \A k \in Charged(u) : refunds[k] \in Int /\ refunds'[k] \in Int
    BY <1>1 DEF TypeInv, TypeOK, Charged
  <2>3. /\ credits[u] + Cardinality(Charged(u)) = InitCredits + bought[u] + SumOver(refunds, Charged(u))
        /\ credits[u] \in Nat /\ bought[u] \in Nat /\ InitCredits \in Nat
        /\ Cardinality(Charged(u)) \in Nat
    BY <2>1, FS_CardinalityType DEF BalanceInv, BalanceOf, TypeInv, TypeOK
  <2>4. CASE owner[l] # u
    <3>1. l \notin Charged(u) /\ credits'[u] = credits[u]
      BY <1>1, <2>4 DEF Charged, TypeInv, TypeOK
    <3>2. \A k \in Charged(u) : refunds'[k] = refunds[k]
      BY <1>1, <3>1 DEF Charged, TypeInv, TypeOK
    <3>3. SumOver(refunds', Charged(u)) = SumOver(refunds, Charged(u))
      BY <2>1, <3>2, SumSame
    <3>4. QED
      BY <1>1, <2>1, <2>3, <3>1, <3>3 DEF BalanceOf
  <2>5. CASE owner[l] = u
    <3> DEFINE others == Charged(u) \ {l}
    <3>1. l \in Charged(u) /\ credits'[u] = credits[u] + 1
      BY <1>1, <2>5 DEF Charged, TypeInv, TypeOK
    <3>2. IsFiniteSet(others) /\ SumOver(refunds, others) \in Int
      BY <2>1, <2>2, FS_RemoveElement, SumType
    <3>3. \A k \in others : refunds'[k] = refunds[k]
      BY <1>1 DEF Charged, TypeInv, TypeOK
    <3>4. SumOver(refunds', others) = SumOver(refunds, others)
      BY <3>2, <3>3, SumSame
    <3>5. SumOver(refunds', Charged(u)) = refunds'[l] + SumOver(refunds', others)
      BY <2>1, <2>2, <3>1, SumTake
    <3>6. SumOver(refunds, Charged(u)) = refunds[l] + SumOver(refunds, others)
      BY <2>1, <2>2, <3>1, SumTake
    <3>7. refunds'[l] = refunds[l] + 1 /\ refunds[l] \in Nat
      BY <1>1 DEF TypeInv, TypeOK
    <3> HIDE DEF others
    <3>8. SumOver(refunds', Charged(u)) = SumOver(refunds, Charged(u)) + 1
      BY <3>2, <3>4, <3>5, <3>6, <3>7
    <3>9. SumOver(refunds, Charged(u)) \in Int
      BY <3>2, <3>6, <3>7
    <3>10. credits'[u] + Cardinality(Charged(u)) = InitCredits + bought[u] + SumOver(refunds', Charged(u))
      BY <2>3, <3>1, <3>8, <3>9
    <3>11. QED
      BY <1>1, <2>1, <3>10 DEF BalanceOf
  <2>6. QED
    BY <2>4, <2>5
<1>4. QED
  BY <1>2, <1>3 DEF BalanceInv

LEMMA BalanceStep == TypeInv /\ BalanceInv /\ [Next]_vars => BalanceInv'
<1> SUFFICES ASSUME TypeInv, BalanceInv, [Next]_vars PROVE BalanceInv'
  OBVIOUS
<1>1. ASSUME NEW u \in Users, AddCredits(u) PROVE BalanceInv'
  BY <1>1, BalanceBuy
<1>2. ASSUME NEW l \in Launches,
             \/ Request(l) \/ FatDriver(l) \/ ThinDriver(l) \/ Finalize(l)
             \/ Worker(l) \/ Reopen(l) \/ Dispatch(l) \/ Reaper(l)
      PROVE  BalanceInv'
  <2>1. ASSUME NEW u \in Users, CreateDebit(u, l) PROVE BalanceInv'
    BY <2>1, BalanceDebit
  <2>2. CASE CreateLaunchFails(l) \/ FinRefund(l)
    BY <2>2, BalanceRefund
  <2>3. CASE FinWrite(l)
    BY <1>2, <2>3, AskedStays, BalanceAlone DEF FinWrite
  <2>4. QED
    BY <1>2, <2>1, <2>2, <2>3, OtherStepsQuiet, AskedStays, BalanceAlone DEF Request, Finalize, Quiet
<1>3. CASE CrashRestart
  <2>1. Quiet /\ \A l \in Launches : reqPc'[l] = "idle" => reqPc[l] = "idle"
    BY <1>3 DEF CrashRestart, Quiet, history
  <2>2. QED
    BY <2>1, BalanceAlone DEF Quiet
<1>4. CASE UNCHANGED vars
  BY <1>4, BalanceAlone DEF vars, Quiet
<1>5. QED
  BY <1>1, <1>2, <1>3, <1>4 DEF Next

LEMMA BalanceInit == Init => BalanceInv
<1> SUFFICES ASSUME Init PROVE BalanceInv
  OBVIOUS
<1>1. UnaskedInv
  BY DEF Init, UnaskedInv
<1>2. ASSUME NEW u \in Users PROVE BalanceOf(u)
  <2>1. Charged(u) = {}
    BY DEF Init, Charged
  <2>2. SumOver(refunds, {}) = 0 /\ IsFiniteSet({}) /\ Cardinality({}) = 0
    BY FS_EmptySet, SumStep
  <2>3. QED
    BY <2>1, <2>2 DEF Init, BalanceOf
<1>3. QED
  BY <1>1, <1>2 DEF BalanceInv

\* What an account started with and bought is its balance and what its launches
\* cost it, whatever debits (deduct_credit), purchases (add_credits) and refunds
\* (refund_launch_credit) the threads interleave, with restarts and failing calls.
THEOREM CreditsKept == Spec => []CreditsConserved
<1>1. Spec => []BalanceInv
  BY BalanceInit, BalanceStep, TypeInit, TypeStep, PTL DEF Spec
<1>2. BalanceInv => CreditsConserved
  BY DEF BalanceInv, BalanceOf, Charged, CreditsConserved, SumOver, MapThenSumSet, MapThenFoldSet
<1>3. QED
  BY <1>1, <1>2, PTL
=============================================================================
