----------------------------- MODULE SwarmBoard -----------------------------
(***************************************************************************)
(* One board on a fat host, at the level of processes: the rows of its     *)
(* kanban.db, the worker processes the hermes CLI spawns for them, and the *)
(* threads that fight over both: the driver of the launch, which polls the *)
(* board to an end and seals it when it gives up, a manual dispatch, and   *)
(* the reaper's sweep, which kills quiet workers and promotes parked rows. *)
(*                                                                         *)
(* None of them holds a lock across its steps: the pids, rows and markers  *)
(* a thread has read may be stale when it acts on them.  LaunchLedger has  *)
(* the credit and the project row this module abstracts to `final`.        *)
(***************************************************************************)
EXTENDS Integers, FiniteSets

CONSTANTS
    NTasks,         \* agent tasks of the board
    Parents,        \* the tasks a task waits for
    StallPasses,    \* stall_passes of dispatch
    Deadline,       \* timeout_s, in ticks
    Parallel,       \* --max of the driver and of a manual dispatch
    ReaperSpawn,    \* _REAPER_MAX_SPAWN
    MaxPids,        \* bound: workers ever spawned
    MaxExtras       \* bound: manual dispatch requests and CLI calls that fail, together

AgentTasks == 1..NTasks

ASSUME SwarmAssumption ==
    /\ NTasks \in Nat \ {0}
    /\ Parents \in [AgentTasks -> SUBSET AgentTasks]
    /\ StallPasses \in Nat \ {0} /\ Deadline \in Nat \ {0}
    /\ Parallel \in Nat \ {0} /\ ReaperSpawn \in Nat \ {0}
    /\ MaxPids \in Nat /\ MaxExtras \in Nat

VARIABLES
    row,        \* tasks: status, worker_pid, age of last_heartbeat_at
    alive,      \* worker processes that run
    final,      \* _board_finalized: the project row is terminal
    sealed,     \* the board.sealed marker
    thread,     \* the locals of the two threads in dispatch()
    moved,      \* threads whose activity signature has changed since they looked
    reaper,     \* the locals of the sweep
    used,       \* workers spawned, requests and faults so far
    crossed     \* history: a row changed under a thread that had read it

procs == <<row, alive>>
marks == <<final, sealed>>
swarmVars == <<procs, marks, thread, moved, reaper, used, crossed>>

Threads == {"launch", "manual"}
NoPid == 0
Pids == 1..MaxPids

\* A heartbeat is recent, or old: older than the driver's heartbeat_grace and the
\* reaper's stale_s, both of them some minutes.  A row without one has an old one.
Ages == {"recent", "old"}

Statuses == {"todo", "ready", "running", "done", "blocked"}
Shown == {"queued", "running", "done", "blocked"}
NoStates == [s \in Shown |-> -1]
Row == [status : Statuses, pid : Pids \cup {NoPid}, age : Ages]
Pair == AgentTasks \X Pids

ThreadPlaces == {"new", "first", "look", "sleep", "cleanup", "kill", "record", "sealRead", "sealKill",
           "sealSelect", "sealPark", "mark", "end"}

SwarmTypeOK ==
    /\ row \in [AgentTasks -> Row]
    /\ alive \subseteq 1..used.pids
    /\ final \in BOOLEAN /\ sealed \in BOOLEAN
    /\ thread \in [Threads ->
         [pc : ThreadPlaces, last : [Shown -> -1..NTasks], unchanged : 0..StallPasses, stale : BOOLEAN,
          time : 0..Deadline, kill : SUBSET Pids, park : SUBSET AgentTasks, out : {"ok", "stuck", "error"}]]
    /\ moved \subseteq Threads
    /\ reaper \in [pc : {"off", "sweep", "kill", "bump", "promote", "pass"},
                   rows : SUBSET Pair, ids : SUBSET AgentTasks]
    /\ used \in [pids : 0..MaxPids, extras : 0..MaxExtras]
    /\ crossed \in BOOLEAN

Fresh == [pc |-> "new", last |-> NoStates, unchanged |-> 0, stale |-> FALSE, time |-> 0,
          kill |-> {}, park |-> {}, out |-> "ok"]

SwarmInit ==
    /\ row = [t \in AgentTasks |-> [status |-> IF Parents[t] = {} THEN "ready" ELSE "todo",
                               pid |-> NoPid, age |-> "old"]]
    /\ alive = {} /\ final = FALSE /\ sealed = FALSE
    /\ thread = [d \in Threads |-> [Fresh EXCEPT !.pc = IF d = "launch" THEN "first" ELSE "new"]]
    /\ moved = {}
    /\ reaper = [pc |-> "off", rows |-> {}, ids |-> {}]
    /\ used = [pids |-> 0, extras |-> 0]
    /\ crossed = FALSE

Terminal(t) == row[t].status \in {"done", "blocked"}
Corpse(t) == row[t].status = "running" /\ row[t].pid \notin alive

\* The threads that poll the board.
Looping == {d \in Threads : thread[d].pc \in {"look", "sleep"}}

\* What list_tasks shows of the rows, as the sorted tuple of states.
StateOf(t) == IF row[t].status \in {"todo", "ready"} THEN "queued" ELSE row[t].status
States == [s \in Shown |-> Cardinality({t \in AgentTasks : StateOf(t) = s})]

\* The pids of read_worker_pids.
Recorded == {row[t].pid : t \in {u \in AgentTasks : row[u].status \in {"running", "ready", "todo"}}} \ {NoPid}

\* _board_activity_sig: the newest heartbeat of the board.
BoardStale == \A t \in AgentTasks : row[t].age = "old"

-----------------------------------------------------------------------------
(* The hermes CLI and its workers.                                         *)

\* What a pass can start: the tasks it has freed, those that are ready, and those
\* that waited for parents which are done by now.
Startable(freed) ==
    {t \in AgentTasks : \/ t \in freed
                        \/ row[t].status = "ready"
                        \/ row[t].status = "todo" /\ \A u \in Parents[t] : row[u].status = "done"}

\* Workers are numbered as they are spawned.
PidOf(S, t) == used.pids + Cardinality({u \in S : u <= t})

\* The rows after a pass that parks some tasks and spawns workers for S of the open ones.
Passed(park, open, S, stamped) ==
    [t \in AgentTasks |->
        IF t \in S THEN [status |-> "running", pid |-> PidOf(S, t),
                         age |-> IF stamped THEN "recent" ELSE row[t].age]
        ELSE IF t \in park THEN [row[t] EXCEPT !.status = "blocked", !.pid = NoPid]
        ELSE IF t \in open THEN [row[t] EXCEPT !.status = "ready", !.pid = NoPid]
        ELSE row[t]]

\* `hermes kanban dispatch`: reclaims the rows of dead workers, parking some of
\* them, readies the tasks whose parents are done, and spawns workers for ready ones.
PassWith(max, gone, park, S, stamped) ==
    /\ S # {} => Cardinality(S) + Cardinality({t \in AgentTasks : row[t].status = "running"} \ gone) <= max
    /\ S = {} => ~stamped
    /\ used.pids + Cardinality(S) <= MaxPids
    /\ row' = Passed(park, Startable(gone \ park), S, stamped)
    /\ alive' = alive \cup {PidOf(S, t) : t \in S}
    /\ used' = [used EXCEPT !.pids = @ + Cardinality(S)]
    /\ moved' = IF row' = row THEN moved ELSE Looping
    /\ crossed' = \/ crossed
                  \/ final /\ S # {}
                  \/ \E t \in AgentTasks : row'[t] # row[t] /\ \E p \in Pids : <<t, p>> \in reaper.rows

Pass(max) ==
    \E gone \in SUBSET {t \in AgentTasks : Corpse(t)} : \E park \in SUBSET gone :
        \E S \in SUBSET Startable(gone \ park), stamped \in BOOLEAN : PassWith(max, gone, park, S, stamped)

\* `hermes kanban promote` of a parked task, which its parents may hold back.
Promote(t) ==
    /\ row' = IF row[t].status = "blocked" /\ \A u \in Parents[t] : row[u].status = "done"
              THEN [row EXCEPT ![t].status = "ready"] ELSE row
    /\ moved' = IF row' = row THEN moved ELSE Looping
    /\ crossed' = (crossed \/ (final /\ row' # row))

Working(t, p) == row[t].status = "running" /\ row[t].pid = p /\ p \in alive

Beat(t, p) ==
    /\ Working(t, p)
    /\ row' = [row EXCEPT ![t].age = "recent"]
    /\ moved' = Looping
    /\ UNCHANGED <<alive, marks, thread, reaper, used, crossed>>

Finish(t, p) ==
    /\ Working(t, p)
    /\ row' = [row EXCEPT ![t].status = "done", ![t].pid = NoPid]
    /\ alive' = alive \ {p}
    /\ moved' = Looping
    /\ UNCHANGED <<marks, thread, reaper, used, crossed>>

Die(p) ==
    /\ p \in alive
    /\ alive' = alive \ {p}
    /\ UNCHANGED <<row, marks, thread, moved, reaper, used, crossed>>

Tick ==
    /\ row' = [t \in AgentTasks |-> [row[t] EXCEPT !.age = "old"]]
    /\ thread' = [d \in Threads |->
         IF d \in Looping /\ thread[d].time < Deadline THEN [thread[d] EXCEPT !.time = @ + 1]
         ELSE thread[d]]
    /\ UNCHANGED <<alive, marks, moved, reaper, used, crossed>>

-----------------------------------------------------------------------------
(* dispatch(), run by the launch's driver and by a manual dispatch.        *)

ThreadTo(d, pc) == thread' = [thread EXCEPT ![d].pc = pc]

\* Leaving the loop, a thread keeps its outcome and what it is to kill.
Leave(d, pc, out) == thread' = [thread EXCEPT ![d] = [Fresh EXCEPT !.pc = pc, !.out = out]]

\* Only the driver of a launch has an outcome to record.
Over(d) == IF d = "launch" THEN "record" ELSE "end"
AsItWas == UNCHANGED <<procs, moved, crossed>>

\* POST .../dispatch: the board may not be final; the thread then goes ahead.
ApiDispatch ==
    /\ thread["manual"].pc = "new" /\ used.extras < MaxExtras
    /\ ~final /\ ~sealed
    /\ used' = [used EXCEPT !.extras = @ + 1]
    /\ ThreadTo("manual", "first")
    /\ UNCHANGED <<marks, reaper>> /\ AsItWas

FirstPass(d) ==
    /\ thread[d].pc = "first"
    /\ Pass(Parallel)
    /\ ThreadTo(d, "look")
    /\ UNCHANGED <<marks, reaper>>

\* A first pass that fails is not in the try statement: nothing is cleaned up.
FirstPassFails(d) ==
    /\ thread[d].pc = "first" /\ used.extras < MaxExtras
    /\ used' = [used EXCEPT !.extras = @ + 1]
    /\ Leave(d, Over(d), "error")
    /\ UNCHANGED <<marks, reaper>> /\ AsItWas

\* The looks in a row that have seen nothing change.
Unchanged(d) ==
    IF d \in moved \/ thread[d].last # States THEN 0
    ELSE IF thread[d].unchanged < StallPasses THEN thread[d].unchanged + 1
    ELSE StallPasses

\* The rows, the heartbeats and the count of unchanged looks, before the sleep.
Look(d) ==
    /\ thread[d].pc = "look" /\ thread[d].time < Deadline
    /\ \E t \in AgentTasks : ~Terminal(t)
    /\ thread' = [thread EXCEPT ![d] = [@ EXCEPT
         !.pc = "sleep", !.stale = BoardStale, !.last = States,
         !.unchanged = Unchanged(d)]]
    /\ moved' = moved \ {d}
    /\ UNCHANGED <<procs, marks, reaper, used, crossed>>

Converges(d) ==
    /\ thread[d].pc = "look" /\ thread[d].time < Deadline
    /\ \A t \in AgentTasks : Terminal(t)
    /\ Leave(d, Over(d), "ok")
    /\ UNCHANGED <<marks, reaper, used>> /\ AsItWas

\* After the sleep and one more pass, the stall is decided on what Look saw; the
\* opening min_wait_s may put it off.
Wake(d) ==
    /\ thread[d].pc = "sleep"
    /\ Pass(Parallel)
    /\ UNCHANGED <<marks, reaper>>
    /\ \/ ThreadTo(d, "look")
       \/ /\ thread[d].unchanged >= StallPasses /\ thread[d].stale
          /\ Leave(d, "cleanup", "stuck")

\* Mutant: the window does not close while some worker beats.
ExpiresWhenStale(d) ==
    /\ thread[d].pc = "look" /\ thread[d].time = Deadline /\ BoardStale
    /\ Leave(d, "cleanup", "stuck")
    /\ UNCHANGED <<marks, reaper, used>> /\ AsItWas

\* The window closed, whatever the workers do.
Expires(d) ==
    /\ thread[d].pc = "look" /\ thread[d].time = Deadline
    /\ Leave(d, "cleanup", "stuck")
    /\ UNCHANGED <<marks, reaper, used>> /\ AsItWas

\* A call in the loop raises: the finally clause cleans up.
Raises(d) ==
    /\ thread[d].pc \in {"look", "sleep"} /\ used.extras < MaxExtras
    /\ used' = [used EXCEPT !.extras = @ + 1]
    /\ Leave(d, "cleanup", "error")
    /\ UNCHANGED <<marks, reaper>> /\ AsItWas

CleanupBoardWorkers(d) ==
    /\ thread[d].pc = "cleanup"
    /\ thread' = [thread EXCEPT ![d].pc = "kill", ![d].kill = Recorded]
    /\ UNCHANGED <<marks, reaper, used>> /\ AsItWas

\* kill_process_tree: SIGTERM, a grace period, SIGKILL, of the pids read before.
KillProcessTree(pids) == alive' = alive \ pids

CleanupKills(d) ==
    /\ thread[d].pc = "kill"
    /\ KillProcessTree(thread[d].kill)
    /\ thread' = [thread EXCEPT ![d].pc = Over(d), ![d].kill = {}]
    /\ UNCHANGED <<row, marks, moved, reaper, used, crossed>>

\* _finalize_launch writes the outcome, and seals a board that did not converge.
\* A row that was parked when the loop saw it may run again.
Record ==
    /\ thread["launch"].pc = "record"
    /\ final' = TRUE
    /\ ThreadTo("launch", IF thread["launch"].out = "ok" THEN "end" ELSE "sealRead")
    /\ crossed' = (crossed \/ (thread["launch"].out = "ok" /\ \E t \in AgentTasks : ~Terminal(t)))
    /\ UNCHANGED <<procs, moved, sealed, reaper, used>>

\* Mutant: the pids are read after the rows have been parked, when none is left.
SealReadNone ==
    /\ thread["launch"].pc = "sealRead"
    /\ thread' = [thread EXCEPT !["launch"].pc = "sealKill"]
    /\ UNCHANGED <<marks, reaper, used>> /\ AsItWas

\* seal_board: read the pids, kill them, select the open rows, park them, mark.
SealRead ==
    /\ thread["launch"].pc = "sealRead"
    /\ thread' = [thread EXCEPT !["launch"].pc = "sealKill", !["launch"].kill = Recorded]
    /\ UNCHANGED <<marks, reaper, used>> /\ AsItWas

SealKill ==
    /\ thread["launch"].pc = "sealKill"
    /\ KillProcessTree(thread["launch"].kill)
    /\ thread' = [thread EXCEPT !["launch"].pc = "sealSelect", !["launch"].kill = {}]
    /\ UNCHANGED <<row, marks, moved, reaper, used, crossed>>

SealSelect ==
    /\ thread["launch"].pc = "sealSelect"
    /\ thread' = [thread EXCEPT !["launch"].pc = "sealPark",
                                !["launch"].park = {t \in AgentTasks : ~Terminal(t)}]
    /\ UNCHANGED <<marks, reaper, used>> /\ AsItWas

Parked(S) == [t \in AgentTasks |-> IF t \in S THEN [row[t] EXCEPT !.status = "blocked", !.pid = NoPid]
                              ELSE row[t]]

\* The UPDATE is by id: whatever the row has become is overwritten.
SealPark ==
    /\ thread["launch"].pc = "sealPark"
    /\ row' = Parked(thread["launch"].park)
    /\ thread' = [thread EXCEPT !["launch"].pc = "mark", !["launch"].park = {}]
    /\ UNCHANGED <<alive, marks, moved, reaper, used, crossed>>

SealMark ==
    /\ thread["launch"].pc = "mark"
    /\ sealed' = TRUE
    /\ ThreadTo("launch", "end")
    /\ UNCHANGED <<final, reaper, used>> /\ AsItWas

-----------------------------------------------------------------------------
(* _reconcile_boards_once on this board.                                   *)

ReaperGoes(pc) == reaper' = [reaper EXCEPT !.pc = pc]

ReaperCheck ==
    /\ reaper.pc = "off"
    /\ ~final /\ ~sealed
    /\ ReaperGoes("sweep")
    /\ UNCHANGED <<marks, thread, used>> /\ AsItWas

\* kill_stale_workers selects the quiet runners, and goes through them.
Sweeping(rows) == reaper' = [reaper EXCEPT !.pc = IF rows = {} THEN "bump" ELSE "kill", !.rows = rows]

KillStaleSelect ==
    /\ reaper.pc = "sweep"
    /\ Sweeping({<<t, row[t].pid>> : t \in {u \in AgentTasks : row[u].status = "running" /\ row[u].age = "old"}})
    /\ UNCHANGED <<marks, thread, used>> /\ AsItWas

\* Mutant: the UPDATE does not ask for the status.
KillStaleWorkersAnyRow ==
    /\ reaper.pc = "kill"
    /\ \E r \in reaper.rows :
        /\ KillProcessTree({r[2]})
        /\ row' = Parked({r[1]})
        /\ Sweeping(reaper.rows \ {r})
    /\ UNCHANGED <<marks, thread, moved, used, crossed>>

\* Each is killed and its row parked, if it still runs, whoever runs it by now.
KillStaleWorkers ==
    /\ reaper.pc = "kill"
    /\ \E r \in reaper.rows :
        /\ KillProcessTree({r[2]})
        /\ row' = Parked({r[1]} \cap {t \in AgentTasks : row[t].status = "running"})
        /\ Sweeping(reaper.rows \ {r})
    /\ UNCHANGED <<marks, thread, moved, used, crossed>>

\* bump_blocked_to_ready looks at the seal once and lists the parked tasks.
BumpBlockedToReady ==
    /\ reaper.pc = "bump"
    /\ reaper' = [reaper EXCEPT !.pc = "promote", !.ids =
         IF sealed THEN {} ELSE {t \in AgentTasks : row[t].status = "blocked"}]
    /\ UNCHANGED <<marks, thread, used>> /\ AsItWas

BumpPromotes ==
    /\ reaper.pc = "promote"
    /\ \E t \in reaper.ids :
        /\ Promote(t)
        /\ reaper' = [reaper EXCEPT !.ids = @ \ {t}]
    /\ UNCHANGED <<alive, marks, thread, used>>

BumpDone ==
    /\ reaper.pc = "promote" /\ reaper.ids = {}
    /\ ReaperGoes(IF \E t \in AgentTasks : ~Terminal(t) THEN "pass" ELSE "off")
    /\ UNCHANGED <<marks, thread, used>> /\ AsItWas

\* One pass that does not wait.
ReaperPass ==
    /\ reaper.pc = "pass"
    /\ Pass(ReaperSpawn)
    /\ ReaperGoes("off")
    /\ UNCHANGED <<marks, thread>>

-----------------------------------------------------------------------------
Worker == \/ \E t \in AgentTasks, p \in alive : Beat(t, p) \/ Finish(t, p)
          \/ \E p \in alive : Die(p)
Step(d) == \/ FirstPass(d) \/ FirstPassFails(d) \/ Look(d) \/ Converges(d) \/ Wake(d)
           \/ Expires(d) \/ Raises(d) \/ CleanupBoardWorkers(d) \/ CleanupKills(d)
Finalize == Record \/ SealRead \/ SealKill \/ SealSelect \/ SealPark \/ SealMark
Sweep == \/ ReaperCheck \/ KillStaleSelect \/ KillStaleWorkers
         \/ BumpBlockedToReady \/ BumpPromotes \/ BumpDone \/ ReaperPass

SwarmNext ==
    Worker \/ Tick \/ ApiDispatch \/ Finalize \/ Sweep \/ \E d \in Threads : Step(d)

\* The operating system runs the driver and the sweep, and time goes by.  Nothing
\* is asked of the manual dispatch, nor of the workers: they may hang, die or never beat.
SwarmFairness ==
    WF_swarmVars(Tick) /\ WF_swarmVars(Step("launch") \/ Finalize) /\ WF_swarmVars(Sweep)

SwarmSpec == SwarmInit /\ [][SwarmNext]_swarmVars /\ SwarmFairness

-----------------------------------------------------------------------------
(* Properties. *)

\* A sealed board is over: every task is done or parked and no worker of it
\* runs, unless a pass or a promotion was under way when the launch was
\* finalized (the reaper and a manual dispatch look at the markers only once).
QuietSealIsFinal ==
    sealed /\ ~crossed => alive = {} /\ \A t \in AgentTasks : Terminal(t)

\* A worker that runs is the one its task's row names: no process is left that
\* neither the driver's cleanup nor the seal can find.  The sweep breaks this
\* when a pass hands the row it has selected to another worker.
WorkersAreRecorded ==
    ~crossed => \A p \in alive : \E t \in AgentTasks : Working(t, p)

\* Nothing of a board runs unseen, before or after its seal.
SwarmKept == SwarmTypeOK /\ QuietSealIsFinal /\ WorkersAreRecorded

\* Work that is done stays done: killing, parking and promoting never take a
\* finished task back, though each acts on a list it read earlier.
DoneKept ==
    [][\A t \in AgentTasks : row[t].status = "done" /\ ~crossed' => row'[t].status = "done"]_swarmVars

\* The driver of a launch comes to an end whatever its workers do, and a row
\* whose worker is dead is taken off the host's concurrency budget.
DriverEnds == <>(thread["launch"].pc = "end")
CorpsesCleared == \A t \in AgentTasks : Corpse(t) ~> (~Corpse(t) \/ crossed)
SwarmProgress == DriverEnds /\ CorpsesCleared
=============================================================================
