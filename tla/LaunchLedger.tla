---------------------------- MODULE LaunchLedger ----------------------------
(***************************************************************************)
(* The launch credit of FluxSwarm: a user pays one credit for a project    *)
(* launch (api_create_project), a driver thread works the board to an end  *)
(* (_bg_dispatch on a fat host, _bg_thin_project on a thin one), and       *)
(* _finalize_launch records the outcome and gives the credit back when no  *)
(* work was done.  Reopening, manual dispatch, the reconciliation reaper   *)
(* and a process restart all touch the same project row and board.         *)
(*                                                                         *)
(* A launch l is one board slug with its project row; the thread of the    *)
(* request that created it, its driver thread and a thread that reopens it *)
(* are its actors.  Each action is one transaction on the user database or *)
(* on the board's kanban.db, the steps between which threads interleave.   *)
(***************************************************************************)
EXTENDS Naturals, FiniteSetsExt

CONSTANTS
    Users,          \* registered accounts
    Launches,       \* board slugs that may be created
    NoUser,         \* owner of a slug not created yet
    NoLaunch,       \* the reaper is between boards
    NLanes,         \* agent lanes of a board (the fluxswarm root card excluded)
    Thin,           \* hermes_client.projects_are_thin() of this host
    InitCredits,    \* balance of a new account
    MaxTopups,      \* bound: credits bought per account
    MaxCrashes,     \* bound: process restarts
    MaxFaults,      \* bound: database or CLI calls that raise
    MaxReopens,     \* bound: reopen requests
    MaxDispatches   \* bound: manual dispatch requests

ASSUME LedgerAssumption ==
    /\ NoUser \notin Users
    /\ NoLaunch \notin Launches
    /\ NLanes \in Nat \ {0}
    /\ Thin \in BOOLEAN
    /\ InitCredits \in Nat
    /\ MaxTopups \in Nat /\ MaxCrashes \in Nat /\ MaxFaults \in Nat
    /\ MaxReopens \in Nat /\ MaxDispatches \in Nat

Lanes == 1..NLanes

VARIABLES
    credits,    \* users.credits
    owner,      \* the account a launch was charged to
    reqPc,      \* where the thread of POST /api/projects stands
    row,        \* projects.launch_status, "absent" before the INSERT
    flag,       \* projects.launch_refunded
    lane,       \* state of each agent task, as list_tasks reports it
    sealed,     \* the board.sealed marker
    drvPc,      \* where the driver thread stands
    drv,        \* its local variables
    reopen,     \* where the thread of POST .../reopen stands
    api,        \* launches a manual dispatch request is working on
    reaper,     \* the board the reaper sweep found eligible
    used,       \* how much of each bound is used up
    bought,     \* history: credits bought by an account
    produced,   \* history: lanes whose agent really finished its artifact
    refunds,    \* history: credits given back for the launch
    delivered   \* history: the launch was recorded as converged

board == <<lane, sealed>>
threads == <<reqPc, drvPc, drv, reopen, api, reaper>>
rows == <<row, flag>>
history == <<bought, produced, refunds, delivered>>
vars == <<credits, owner, reqPc, row, flag, lane, sealed, drvPc, drv, reopen,
          api, reaper, used, bought, produced, refunds, delivered>>

RequestStates == {"idle", "debited", "launched", "recorded", "done", "failed", "dead"}
RowStates == {"absent", "new", "ok", "stuck", "error", "reopened"}
LaneStates == {"none", "queued", "running", "done", "blocked"}
Finalizing == {"finRead", "finWork", "finRefund", "finWrite", "finSeal"}
DriverStates == {"none", "drive", "start", "lane", "exec", "over"} \cup Finalizing
Outcomes == {"ok", "stuck", "error"}

DriverLocals ==
    [at : 1..(NLanes + 1),      \* the lane the thin driver is at
     skip : SUBSET Lanes,       \* done_tids: lanes it found done when it started
     out : Outcomes,            \* status argument of _finalize_launch
     row : BOOLEAN,             \* existing is not None
     refunded : BOOLEAN]        \* the local variable refunded

FreshLocals == [at |-> 1, skip |-> {}, out |-> "ok", row |-> FALSE, refunded |-> FALSE]

TypeOK ==
    /\ credits \in [Users -> Nat]
    /\ owner \in [Launches -> Users \cup {NoUser}]
    /\ reqPc \in [Launches -> RequestStates]
    /\ row \in [Launches -> RowStates]
    /\ flag \in [Launches -> BOOLEAN]
    /\ lane \in [Launches -> [Lanes -> LaneStates]]
    /\ sealed \in [Launches -> BOOLEAN]
    /\ drvPc \in [Launches -> DriverStates]
    /\ drv \in [Launches -> DriverLocals]
    /\ reopen \in [Launches -> {"idle", "read", "unsealed"}]
    /\ api \in [Launches -> BOOLEAN]
    /\ reaper \in Launches \cup {NoLaunch}
    /\ used \in [crash : Nat, fault : Nat, reopen : Nat, dispatch : Nat]
    /\ bought \in [Users -> Nat]
    /\ produced \in [Launches -> SUBSET Lanes]
    /\ refunds \in [Launches -> Nat]
    /\ delivered \in [Launches -> BOOLEAN]

Init ==
    /\ credits = [u \in Users |-> InitCredits]
    /\ owner = [l \in Launches |-> NoUser]
    /\ reqPc = [l \in Launches |-> "idle"]
    /\ row = [l \in Launches |-> "absent"]
    /\ flag = [l \in Launches |-> FALSE]
    /\ lane = [l \in Launches |-> [i \in Lanes |-> "none"]]
    /\ sealed = [l \in Launches |-> FALSE]
    /\ drvPc = [l \in Launches |-> "none"]
    /\ drv = [l \in Launches |-> FreshLocals]
    /\ reopen = [l \in Launches |-> "idle"]
    /\ api = [l \in Launches |-> FALSE]
    /\ reaper = NoLaunch
    /\ used = [crash |-> 0, fault |-> 0, reopen |-> 0, dispatch |-> 0]
    /\ bought = [u \in Users |-> 0]
    /\ produced = [l \in Launches |-> {}]
    /\ refunds = [l \in Launches |-> 0]
    /\ delivered = [l \in Launches |-> FALSE]

-----------------------------------------------------------------------------
(* What the handlers read. *)

\* Mutant: work counts only when every task is done.
HasCompletedWorkAll(l) == \A i \in Lanes : lane[l][i] = "done"

\* board_has_completed_work: some agent task is done.
HasCompletedWork(l) == \E i \in Lanes : lane[l][i] = "done"

\* board_has_unfinished_work: some agent task is neither done nor blocked.
HasUnfinishedWork(l) == \E i \in Lanes : lane[l][i] \in {"queued", "running"}

\* _board_finalized: the project row carries the refund flag or a terminal status.
BoardFinalized(l) == row[l] # "absent" /\ (flag[l] \/ row[l] \in Outcomes)

\* What a call that raises costs, within the bound.
Fault == used.fault < MaxFaults /\ used' = [used EXCEPT !.fault = @ + 1]

\* A dispatch pass of the Hermes CLI spawns workers for some queued lanes.
Spawned(lanes, S) == [i \in Lanes |-> IF i \in S THEN "running" ELSE lanes[i]]
Queued(lanes) == {i \in Lanes : lanes[i] = "queued"}

-----------------------------------------------------------------------------
(* The account: add_credits, called for a verified payment. *)

AddCredits(u) ==
    /\ bought[u] < MaxTopups
    /\ bought' = [bought EXCEPT ![u] = @ + 1]
    /\ credits' = [credits EXCEPT ![u] = @ + 1]
    /\ UNCHANGED <<owner, threads, rows, board, used, produced, refunds, delivered>>

(* POST /api/projects *)

\* Mutant: the balance is not checked in the transaction that debits it.
CreateDebitUnchecked(u, l) ==
    /\ reqPc[l] = "idle"
    /\ credits' = [credits EXCEPT ![u] = @ - 1]
    /\ owner' = [owner EXCEPT ![l] = u]
    /\ reqPc' = [reqPc EXCEPT ![l] = "debited"]
    /\ UNCHANGED <<rows, board, drvPc, drv, reopen, api, reaper, used, history>>

\* deduct_credit: the check and the debit are one BEGIN IMMEDIATE transaction.
CreateDebit(u, l) ==
    /\ reqPc[l] = "idle"
    /\ credits[u] > 0
    /\ credits' = [credits EXCEPT ![u] = @ - 1]
    /\ owner' = [owner EXCEPT ![l] = u]
    /\ reqPc' = [reqPc EXCEPT ![l] = "debited"]
    /\ UNCHANGED <<rows, board, drvPc, drv, reopen, api, reaper, used, history>>

\* launch_project_thin or launch_swarm builds the squad's tasks.
CreateLaunch(l) ==
    /\ reqPc[l] = "debited"
    /\ reqPc' = [reqPc EXCEPT ![l] = "launched"]
    /\ lane' = [lane EXCEPT ![l] = [i \in Lanes |-> "queued"]]
    /\ UNCHANGED <<credits, owner, rows, sealed, drvPc, drv, reopen, api, reaper,
                   used, history>>

\* Mutant: the failed launch returns the credit and the helper it calls does too.
CreateLaunchFailsTwice(l) ==
    /\ reqPc[l] = "debited"
    /\ reqPc' = [reqPc EXCEPT ![l] = "failed"]
    /\ credits' = [credits EXCEPT ![owner[l]] = @ + 2]
    /\ refunds' = [refunds EXCEPT ![l] = @ + 1]
    /\ UNCHANGED <<owner, rows, board, drvPc, drv, reopen, api, reaper, used, bought,
                   produced, delivered>>

\* Mutant: after the refund the handler falls through to record the project.
CreateLaunchFailsGoesOn(l) ==
    /\ reqPc[l] = "debited"
    /\ reqPc' = [reqPc EXCEPT ![l] = "launched"]
    /\ credits' = [credits EXCEPT ![owner[l]] = @ + 1]
    /\ refunds' = [refunds EXCEPT ![l] = @ + 1]
    /\ lane' = [lane EXCEPT ![l] = [i \in Lanes |-> "queued"]]
    /\ UNCHANGED <<owner, rows, sealed, drvPc, drv, reopen, api, reaper, used, bought,
                   produced, delivered>>

\* The launch raises: the handler returns the credit and answers 500.  The swarm
\* CLI may have built the tasks before _pin_runtime failed; the thin path commits
\* all of them or none.
CreateLaunchFails(l) ==
    /\ reqPc[l] = "debited"
    /\ reqPc' = [reqPc EXCEPT ![l] = "failed"]
    /\ credits' = [credits EXCEPT ![owner[l]] = @ + 1]
    /\ refunds' = [refunds EXCEPT ![l] = @ + 1]
    /\ \/ UNCHANGED lane
       \/ ~Thin /\ lane' = [lane EXCEPT ![l] = [i \in Lanes |-> "queued"]]
    /\ UNCHANGED <<owner, rows, sealed, drvPc, drv, reopen, api, reaper, used, bought,
                   produced, delivered>>

\* A database call outside the handler's try block raises: the request ends with
\* the credit spent.
CreateRaises(l) ==
    /\ reqPc[l] \in {"debited", "launched", "recorded"}
    /\ Fault
    /\ reqPc' = [reqPc EXCEPT ![l] = "dead"]
    /\ UNCHANGED <<credits, owner, rows, board, drvPc, drv, reopen, api, reaper,
                   history>>

\* add_project
CreateRecord(l) ==
    /\ reqPc[l] = "launched"
    /\ reqPc' = [reqPc EXCEPT ![l] = "recorded"]
    /\ row' = [row EXCEPT ![l] = "new"]
    /\ UNCHANGED <<credits, owner, flag, board, drvPc, drv, reopen, api, reaper,
                   used, history>>

\* _fire_dispatch starts the driver this host uses.
CreateFire(l) ==
    /\ reqPc[l] = "recorded"
    /\ reqPc' = [reqPc EXCEPT ![l] = "done"]
    /\ drvPc' = [drvPc EXCEPT ![l] = IF Thin THEN "start" ELSE "drive"]
    /\ UNCHANGED <<credits, owner, rows, board, drv, reopen, api, reaper, used,
                   history>>

-----------------------------------------------------------------------------
(* Workers: the Hermes processes a dispatch pass spawned. *)

\* The agent of a running lane finishes its artifact.  A worker may as well be
\* killed (_cleanup_board_workers, seal_board), which is best effort: then it owes
\* no step, as no worker here does.
WorkerDone(l, i) ==
    /\ lane[l][i] = "running"
    /\ ~(drvPc[l] = "exec" /\ drv[l].at = i)
    /\ lane' = [lane EXCEPT ![l][i] = "done"]
    /\ produced' = [produced EXCEPT ![l] = @ \cup {i}]
    /\ UNCHANGED <<credits, owner, threads, rows, sealed, used, bought, refunds, delivered>>

\* Hermes parks a lane whose worker crashed past its retry limit.
WorkerBlocked(l, i) ==
    /\ lane[l][i] = "running"
    /\ ~(drvPc[l] = "exec" /\ drv[l].at = i)
    /\ lane' = [lane EXCEPT ![l][i] = "blocked"]
    /\ UNCHANGED <<credits, owner, threads, rows, sealed, used, history>>

(* The fat driver: _bg_dispatch around the blocking loop of dispatch. *)

GoFinalize(l, out) ==
    /\ drvPc' = [drvPc EXCEPT ![l] = "finRead"]
    /\ drv' = [drv EXCEPT ![l].out = out]

\* One pass of the loop: the CLI spawns workers for queued lanes.
DrivePass(l) ==
    /\ drvPc[l] = "drive"
    /\ \E S \in (SUBSET Queued(lane[l])) \ {{}} :
           lane' = [lane EXCEPT ![l] = Spawned(@, S)]
    /\ UNCHANGED <<credits, owner, threads, rows, sealed, used, history>>

\* Every task is done or blocked: outcome "ok", finalized as converged.
DriveConverges(l) ==
    /\ drvPc[l] = "drive"
    /\ ~HasUnfinishedWork(l)
    /\ GoFinalize(l, "ok")
    /\ UNCHANGED <<credits, owner, reqPc, rows, board, reopen, api, reaper, used, history>>

\* No progress for stall_passes passes, or the deadline.
DriveGivesUp(l) ==
    /\ drvPc[l] = "drive"
    /\ GoFinalize(l, "stuck")
    /\ UNCHANGED <<credits, owner, reqPc, rows, board, reopen, api, reaper, used, history>>

\* hc.dispatch raises.
DriveRaises(l) ==
    /\ drvPc[l] = "drive"
    /\ Fault
    /\ GoFinalize(l, "error")
    /\ UNCHANGED <<credits, owner, reqPc, rows, board, reopen, api, reaper, history>>

(* The thin driver: _bg_thin_project runs the lanes in order in its own thread. *)

\* The runtime is resolved and the lanes already done are noted.
ThinStart(l) ==
    /\ drvPc[l] = "start"
    /\ drvPc' = [drvPc EXCEPT ![l] = "lane"]
    /\ drv' = [drv EXCEPT ![l].at = 1,
                          ![l].skip = {i \in Lanes : lane[l][i] = "done"}]
    /\ UNCHANGED <<credits, owner, reqPc, rows, board, reopen, api, reaper, used, history>>

\* _thin_runtime finds no provider: the launch ends before any lane ran.
ThinNoRuntime(l) ==
    /\ drvPc[l] = "start"
    /\ GoFinalize(l, "error")
    /\ UNCHANGED <<credits, owner, reqPc, rows, board, reopen, api, reaper, used, history>>

\* A lane the driver found done is skipped.
ThinSkip(l) ==
    /\ drvPc[l] = "lane"
    /\ drv[l].at \in drv[l].skip
    /\ drv' = [drv EXCEPT ![l].at = @ + 1]
    /\ UNCHANGED <<credits, owner, reqPc, rows, board, drvPc, reopen, api, reaper,
                   used, history>>

\* thin_execute, _claim
ThinClaim(l) ==
    /\ drvPc[l] = "lane"
    /\ drv[l].at \in Lanes \ drv[l].skip
    /\ drvPc' = [drvPc EXCEPT ![l] = "exec"]
    /\ lane' = [lane EXCEPT ![l][drv[l].at] = "running"]
    /\ UNCHANGED <<credits, owner, reqPc, rows, sealed, drv, reopen, api, reaper,
                   used, history>>

\* thin_execute, _complete: the artifact is written and the task is done.
ThinComplete(l) ==
    /\ drvPc[l] = "exec"
    /\ drvPc' = [drvPc EXCEPT ![l] = "lane"]
    /\ drv' = [drv EXCEPT ![l].at = @ + 1]
    /\ lane' = [lane EXCEPT ![l][drv[l].at] = "done"]
    /\ produced' = [produced EXCEPT ![l] = @ \cup {drv[l].at}]
    /\ UNCHANGED <<credits, owner, reqPc, rows, sealed, reopen, api, reaper, used,
                   bought, refunds, delivered>>

\* Mutant: the exception of a failed lane is swallowed and the next lane runs.
ThinFailSwallowed(l) ==
    /\ drvPc[l] = "exec"
    /\ lane' = [lane EXCEPT ![l][drv[l].at] = "done"]
    /\ drvPc' = [drvPc EXCEPT ![l] = "lane"]
    /\ drv' = [drv EXCEPT ![l].at = @ + 1]
    /\ UNCHANGED <<credits, owner, reqPc, rows, sealed, reopen, api, reaper, used, history>>

\* Mutant: the exception ends the thread before its finalizer runs.
ThinFailDies(l) ==
    /\ drvPc[l] = "exec"
    /\ lane' = [lane EXCEPT ![l][drv[l].at] = "done"]
    /\ drvPc' = [drvPc EXCEPT ![l] = "over"]
    /\ UNCHANGED <<credits, owner, reqPc, rows, sealed, drv, reopen, api, reaper, used, history>>

\* The completion raises: _demo_fail_lane marks the task done with an error
\* result, and the exception ends the driver's run.
ThinFail(l) ==
    /\ drvPc[l] = "exec"
    /\ lane' = [lane EXCEPT ![l][drv[l].at] = "done"]
    /\ GoFinalize(l, "error")
    /\ UNCHANGED <<credits, owner, reqPc, rows, sealed, reopen, api, reaper, used, history>>

\* Past the last lane: finalized as converged.
ThinConverges(l) ==
    /\ drvPc[l] = "lane"
    /\ drv[l].at = NLanes + 1
    /\ GoFinalize(l, "ok")
    /\ UNCHANGED <<credits, owner, reqPc, rows, board, reopen, api, reaper, used, history>>

-----------------------------------------------------------------------------
(* _finalize_launch, run by the driver thread as its last act.  An outcome  *)
(* of "ok" is the outcome "converged" of the code.                          *)

\* _project_by_pid; a read that raises is taken for a missing row.
FinRead(l) ==
    /\ drvPc[l] = "finRead"
    /\ \E readable \in BOOLEAN :
        LET was == readable /\ flag[l]
        IN  /\ IF readable THEN UNCHANGED used ELSE Fault
            /\ drv' = [drv EXCEPT ![l].row = readable, ![l].refunded = was]
            /\ drvPc' = [drvPc EXCEPT ![l] =
                   IF drv[l].out = "ok" \/ was THEN "finWrite" ELSE "finWork"]
    /\ UNCHANGED <<credits, owner, reqPc, rows, board, reopen, api, reaper, history>>

\* Mutant: the refund is recorded as made before it is.
FinWorkMarks(l) ==
    /\ drvPc[l] = "finWork"
    /\ drvPc' = [drvPc EXCEPT ![l] = "finWrite"]
    /\ drv' = [drv EXCEPT ![l].refunded = ~HasCompletedWork(l)]
    /\ UNCHANGED <<credits, owner, reqPc, rows, board, reopen, api, reaper, used, history>>

\* board_has_completed_work decides whether the credit goes back; a board that
\* cannot be read counts as one without work.
FinWork(l) ==
    /\ drvPc[l] = "finWork"
    /\ \E readable \in BOOLEAN :
        /\ IF readable THEN UNCHANGED used ELSE Fault
        /\ drvPc' = [drvPc EXCEPT ![l] =
               IF ~(readable /\ HasCompletedWork(l)) /\ drv[l].row
               THEN "finRefund" ELSE "finWrite"]
    /\ UNCHANGED <<credits, owner, reqPc, rows, board, drv, reopen, api, reaper, history>>

\* refund_launch_credit
FinRefund(l) ==
    /\ drvPc[l] = "finRefund"
    /\ drvPc' = [drvPc EXCEPT ![l] = "finWrite"]
    /\ drv' = [drv EXCEPT ![l].refunded = TRUE]
    /\ credits' = [credits EXCEPT ![owner[l]] = @ + 1]
    /\ refunds' = [refunds EXCEPT ![l] = @ + 1]
    /\ UNCHANGED <<owner, reqPc, rows, board, reopen, api, reaper, used, bought,
                   produced, delivered>>

\* Mutant: the outcome is written without its refund flag.
FinWriteNoFlag(l) ==
    /\ drvPc[l] = "finWrite"
    /\ drvPc' = [drvPc EXCEPT ![l] = IF drv[l].out = "ok" THEN "over" ELSE "finSeal"]
    /\ row' = [row EXCEPT ![l] = drv[l].out]
    /\ delivered' = [delivered EXCEPT ![l] = @ \/ drv[l].out = "ok"]
    /\ UNCHANGED <<credits, owner, reqPc, flag, board, drv, reopen, api, reaper, used,
                   bought, produced, refunds>>

\* set_launch_outcome
FinWrite(l) ==
    /\ drvPc[l] = "finWrite"
    /\ drvPc' = [drvPc EXCEPT ![l] = IF drv[l].out = "ok" THEN "over" ELSE "finSeal"]
    /\ row' = [row EXCEPT ![l] = drv[l].out]
    /\ flag' = [flag EXCEPT ![l] = drv[l].refunded]
    /\ delivered' = [delivered EXCEPT ![l] = @ \/ drv[l].out = "ok"]
    /\ UNCHANGED <<credits, owner, reqPc, board, drv, reopen, api, reaper, used,
                   bought, produced, refunds>>

\* A write that raises is swallowed by the outer except: the rest of the
\* bookkeeping, the seal included, never happens.
FinAborts(l) ==
    /\ drvPc[l] \in {"finRefund", "finWrite"}
    /\ Fault
    /\ drvPc' = [drvPc EXCEPT ![l] = "over"]
    /\ UNCHANGED <<credits, owner, reqPc, rows, board, drv, reopen, api, reaper, history>>

\* seal_board: the lanes that are not terminal are parked and the marker drops.
FinSeal(l) ==
    /\ drvPc[l] = "finSeal"
    /\ drvPc' = [drvPc EXCEPT ![l] = "over"]
    /\ lane' = [lane EXCEPT ![l] =
           [i \in Lanes |-> IF @[i] \in {"queued", "running"} THEN "blocked" ELSE @[i]]]
    /\ sealed' = [sealed EXCEPT ![l] = TRUE]
    /\ UNCHANGED <<credits, owner, reqPc, rows, drv, reopen, api, reaper, used, history>>

-----------------------------------------------------------------------------
(* POST /api/projects/{slug}/reopen *)

\* The project row is read, and a refunded launch is refused.
ReopenRead(l) ==
    /\ reopen[l] = "idle"
    /\ row[l] # "absent"
    /\ ~flag[l]
    /\ used.reopen < MaxReopens
    /\ used' = [used EXCEPT !.reopen = @ + 1]
    /\ reopen' = [reopen EXCEPT ![l] = "read"]
    /\ UNCHANGED <<credits, owner, reqPc, rows, board, drvPc, drv, api, reaper, history>>

\* unseal_board: the marker is removed and the terminal lanes are re-armed.
ReopenUnseal(l) ==
    /\ reopen[l] = "read"
    /\ reopen' = [reopen EXCEPT ![l] = "unsealed"]
    /\ sealed' = [sealed EXCEPT ![l] = FALSE]
    /\ lane' = [lane EXCEPT ![l] =
           [i \in Lanes |-> IF @[i] \in {"done", "blocked"} THEN "queued" ELSE @[i]]]
    /\ UNCHANGED <<credits, owner, reqPc, rows, drvPc, drv, api, reaper, used, history>>

\* set_launch_outcome(pid, "reopened", "reopened"): its parameter refunded is
\* left at its default, so the flag is written too.  A write that raises is
\* swallowed.
ReopenWrite(l) ==
    /\ reopen[l] = "unsealed"
    /\ reopen' = [reopen EXCEPT ![l] = "idle"]
    /\ \/ /\ row' = [row EXCEPT ![l] = "reopened"]
          /\ flag' = [flag EXCEPT ![l] = FALSE]
          /\ UNCHANGED used
       \/ Fault /\ UNCHANGED rows
    /\ UNCHANGED <<credits, owner, reqPc, board, drvPc, drv, api, reaper, history>>

(* POST /api/projects/{slug}/dispatch: guards, then the blocking loop. *)

ApiDispatch(l) ==
    /\ row[l] # "absent"
    /\ ~api[l]
    /\ ~BoardFinalized(l) /\ ~sealed[l]
    /\ used.dispatch < MaxDispatches
    /\ used' = [used EXCEPT !.dispatch = @ + 1]
    /\ api' = [api EXCEPT ![l] = TRUE]
    /\ UNCHANGED <<credits, owner, reqPc, rows, board, drvPc, drv, reopen, reaper, history>>

ApiPass(l) ==
    /\ api[l]
    /\ \E S \in (SUBSET Queued(lane[l])) \ {{}} :
           lane' = [lane EXCEPT ![l] = Spawned(@, S)]
    /\ UNCHANGED <<credits, owner, threads, rows, sealed, used, history>>

\* Terminal, stalled, out of time or raising: the request only answers.
ApiEnds(l) ==
    /\ api[l]
    /\ api' = [api EXCEPT ![l] = FALSE]
    /\ UNCHANGED <<credits, owner, reqPc, rows, board, drvPc, drv, reopen, reaper,
                   used, history>>

(* _reconcile_boards_once: the sweep of a fat host.  The check of a board   *)
(* and the pass over it are separate reads and writes.                      *)

ReaperCheck(l) ==
    /\ ~Thin
    /\ reaper = NoLaunch
    /\ \E i \in Lanes : lane[l][i] # "none"
    /\ ~BoardFinalized(l) /\ ~sealed[l]
    /\ reaper' = l
    /\ UNCHANGED <<credits, owner, reqPc, rows, board, drvPc, drv, reopen, api, used, history>>

\* kill_stale_workers parks quiet lanes, bump_blocked_to_ready promotes the
\* blocked ones of an unsealed board, dispatch spawns.
ReaperPass(l) ==
    /\ reaper = l
    /\ reaper' = NoLaunch
    /\ \E P \in SUBSET {i \in Lanes : lane[l][i] = "running"} :
        LET parked == [i \in Lanes |-> IF i \in P THEN "blocked" ELSE lane[l][i]]
            bumped == [i \in Lanes |-> IF parked[i] = "blocked" /\ ~sealed[l]
                                       THEN "queued" ELSE parked[i]]
        IN  \E S \in SUBSET Queued(bumped) :
                lane' = [lane EXCEPT ![l] = Spawned(bumped, S)]
    /\ UNCHANGED <<credits, owner, reqPc, rows, sealed, drvPc, drv, reopen, api, used, history>>

(* The process dies with its threads; both stores survive.  Before it serves *)
(* again, _lifespan re-fires the thin driver of every board whose launch was *)
(* not finalized (_resume_restored_thin_boards).                             *)

\* Mutant: launches are resumed on any host.
ResumableAnywhere(l) ==
    /\ row[l] # "absent"
    /\ ~BoardFinalized(l) /\ ~sealed[l]
    /\ HasUnfinishedWork(l)

Resumable(l) ==
    /\ Thin
    /\ row[l] # "absent"
    /\ ~BoardFinalized(l) /\ ~sealed[l]
    /\ HasUnfinishedWork(l)

CrashRestart ==
    /\ used.crash < MaxCrashes
    /\ used' = [used EXCEPT !.crash = @ + 1]
    /\ reqPc' = [l \in Launches |-> IF reqPc[l] \in {"debited", "launched", "recorded"}
                                    THEN "dead" ELSE reqPc[l]]
    /\ drvPc' = [l \in Launches |-> IF Resumable(l) THEN "start"
                                    ELSE IF drvPc[l] = "none" THEN "none" ELSE "over"]
    /\ reopen' = [l \in Launches |-> "idle"]
    /\ api' = [l \in Launches |-> FALSE]
    /\ reaper' = NoLaunch
    /\ UNCHANGED <<credits, owner, rows, board, drv, history>>

-----------------------------------------------------------------------------
Request(l) == \/ \E u \in Users : CreateDebit(u, l)
              \/ CreateLaunch(l) \/ CreateLaunchFails(l) \/ CreateRaises(l)
              \/ CreateRecord(l) \/ CreateFire(l)
FatDriver(l) == DrivePass(l) \/ DriveConverges(l) \/ DriveGivesUp(l) \/ DriveRaises(l)
ThinDriver(l) == \/ ThinStart(l) \/ ThinNoRuntime(l) \/ ThinSkip(l) \/ ThinClaim(l)
                 \/ ThinComplete(l) \/ ThinFail(l) \/ ThinConverges(l)
Finalize(l) == FinRead(l) \/ FinWork(l) \/ FinRefund(l) \/ FinWrite(l) \/ FinAborts(l) \/ FinSeal(l)
Worker(l) == \E i \in Lanes : WorkerDone(l, i) \/ WorkerBlocked(l, i)
Reopen(l) == ReopenRead(l) \/ ReopenUnseal(l) \/ ReopenWrite(l)
Dispatch(l) == ApiDispatch(l) \/ ApiPass(l) \/ ApiEnds(l)
Reaper(l) == ReaperCheck(l) \/ ReaperPass(l)

Next ==
    \/ \E u \in Users : AddCredits(u)
    \/ \E l \in Launches : \/ Request(l) \/ FatDriver(l) \/ ThinDriver(l) \/ Finalize(l)
                           \/ Worker(l) \/ Reopen(l) \/ Dispatch(l) \/ Reaper(l)
    \/ CrashRestart

Spec == Init /\ [][Next]_vars

-----------------------------------------------------------------------------
(* Fairness: a thread that was started runs to its end, since every wait in *)
(* it is bounded: the provider call and the CLI have timeouts and the       *)
(* driver's loop a deadline.  Users, workers and the reaper owe nothing.    *)

RequestProgress(l) == CreateLaunch(l) \/ CreateLaunchFails(l) \/ CreateRecord(l) \/ CreateFire(l)
ReopenProgress(l) == ReopenUnseal(l) \/ ReopenWrite(l)

Fairness ==
    \A l \in Launches :
        /\ WF_vars(RequestProgress(l))
        /\ WF_vars(DriveConverges(l) \/ DriveGivesUp(l))
        /\ WF_vars(ThinDriver(l))
        /\ WF_vars(Finalize(l))
        /\ WF_vars(ReopenProgress(l))

FairSpec == Spec /\ Fairness

-----------------------------------------------------------------------------
(* Properties *)

\* Every credit of an account is accounted for: what it started with and bought,
\* less one for every launch it was charged for, plus what was given back for
\* those launches.  No interleaving of debits, purchases and refunds mints or
\* loses a credit.
CreditsConserved ==
    \A u \in Users :
        LET mine == {l \in Launches : owner[l] = u}
        IN  credits[u] + Cardinality(mine)
              = InitCredits + bought[u] + MapThenSumSet(LAMBDA l : refunds[l], mine)

\* The credit of a launch is given back at most once, whichever of the request
\* handler and the finalizer does it (refund_launch_credit is unconditional, so
\* its callers must see to it).
RefundedAtMostOnce == \A l \in Launches : refunds[l] <= 1

\* A row marked refunded is a launch whose credit really went back: the flag that
\* closes the project forever is never written for a credit that was kept.
FlagImpliesRefund == \A l \in Launches : flag[l] => refunds[l] >= 1

\* Once its driver has finished with a launch, the flag on the project row tells
\* exactly whether the credit went back.
BooksAgree ==
    \A l \in Launches :
        drvPc[l] = "over" /\ reopen[l] = "idle" => (flag[l] <=> refunds[l] >= 1)

\* A launch whose agents produced something is never refunded (the credit policy
\* of _finalize_launch).
RefundOnlyWithoutWork == \A l \in Launches : refunds[l] > 0 => produced[l] = {}

\* A launch the thin driver recorded as converged has an artifact of every lane:
\* no failed lane, though marked done on the board, is counted as delivered.
OkMeansEveryLaneProduced ==
    \A l \in Launches : delivered[l] => produced[l] = Lanes

\* Every credit charged is accounted for in the end: the launch failed and was
\* refunded, or its row shows a terminal status or that it was reopened.
EverySettled ==
    \A l \in Launches :
        reqPc[l] = "debited" ~>
            \/ reqPc[l] = "failed" /\ refunds[l] = 1
            \/ drvPc[l] = "over" /\ row[l] \in Outcomes \cup {"reopened"}

\* The threads implement the promise of LaunchCredit.
CreditStage(l) ==
    IF owner[l] = NoUser THEN "free"
    ELSE IF refunds[l] > 0 /\ delivered[l] THEN "both"
    ELSE IF refunds[l] > 0 THEN "refunded"
    ELSE IF delivered[l] THEN "delivered"
    ELSE "charged"

Promise == INSTANCE LaunchCredit WITH stage <- [l \in Launches |-> CreditStage(l)]
ImplementsPromise == Promise!Spec

=============================================================================
