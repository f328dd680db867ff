----------------------------- MODULE BoardMirror -----------------------------
(***************************************************************************)
(* A board on a thin host, and its mirror in PostgreSQL (board_store).     *)
(*                                                                         *)
(* A host may lose its disk at any restart, so every thread that changes a *)
(* board snapshots it: the driver after each lane, a seal, a reopen.  A    *)
(* boot restores what is missing and drives on the projects that were in   *)
(* the middle of a launch.  Two others delete: the sweep of expired demo   *)
(* boards, and the erasure of an account.  None of these threads locks the *)
(* board, and a snapshot reads it in several steps before it is written.   *)
(*                                                                         *)
(* Failures covered: a provider call that raises, a PostgreSQL call that   *)
(* fails and is swallowed (a snapshot, a purge, a restore), and a restart  *)
(* between any two steps.  Not covered: a write to the disk that fails.    *)
(***************************************************************************)
EXTENDS Integers, FiniteSets

CONSTANTS
    Last,           \* the lanes of a board are 1..Last, in the driver's order
    ProjectBuilder, \* a project's builder; the auditor's lane comes after it
    MaxEvents       \* bound: restarts of the process, reopen requests, calls and
                    \* writes for a page that is done, PostgreSQL calls that fail

ASSUME MirrorAssumption ==
    /\ Last \in Nat /\ ProjectBuilder \in Nat
    /\ 1 <= ProjectBuilder /\ ProjectBuilder < Last
    /\ MaxEvents \in Nat

VARIABLES
    kind,       \* "demo" or "project"
    row,        \* the project row and the outcome of its launch
    disk,       \* the board's directory
    age,        \* of the directory: 1 past the demo run time, 2 past its TTL
    mirror,     \* the board's rows in PostgreSQL
    boot,       \* how far the start of the process has come
    driver, sweep, reopen, erase,   \* the threads that work on the board
    snap,       \* the snapshot each of them is taking
    used,       \* how many of the bounded events have happened
    hist        \* history: what happened to the board so far

host == <<kind, boot>>
threads == <<driver, sweep, reopen, erase>>
vars == <<kind, row, disk, age, mirror, boot, driver, sweep, reopen, erase, snap, used, hist>>

Lanes == 1..Last

\* A demo ends with its builder, and so has nobody after it to snapshot.
Builder == IF kind = "demo" THEN Last ELSE ProjectBuilder

Status == {"none", "todo", "running", "done", "failed", "blocked"}

\* A lane that raised is stored done, with an ERROR result.
Finished == {"done", "failed"}

NoDb == <<>>                            \* there is no kanban.db
Blank == [i \in Lanes |-> "none"]       \* one without a row

\* The version of each lane's output, what the driver makes of it included
\* (pack files, patches, the preview copy): 0 is none.
Files == [Lanes -> Nat]
NoFiles == [i \in Lanes |-> 0]
Board == [dir : BOOLEAN, lane : {NoDb} \cup [Lanes -> Status], files : Files, sealed : BOOLEAN]
NoBoard == [dir |-> FALSE, lane |-> NoDb, files |-> NoFiles, sealed |-> FALSE]
Copy == [there : BOOLEAN, lane : [Lanes -> Status], files : Files, sealed : BOOLEAN]
NoCopy == [there |-> FALSE, lane |-> Blank, files |-> NoFiles, sealed |-> FALSE]
Actors == {"driver", "sweep", "reopen"}
Snapshot == [pc : {"off", "tasks", "files", "seal", "commit"}, lane : [Lanes -> Status],
             files : Files, sealed : BOOLEAN]
NoSnapshot == [pc |-> "off", lane |-> Blank, files |-> NoFiles, sealed |-> FALSE]
DriverPlace == {"new", "lane", "call", "finish", "raise", "page", "lost", "end", "flip", "mark",
                "off"}

TypeOK ==
    /\ kind \in {"demo", "project"}
    /\ row \in {"live", "final", "refunded", "reopened", "gone"}
    /\ disk \in Board /\ age \in 0..2
    /\ mirror \in Copy
    /\ boot \in {"restore", "rows", "files", "resume", "up"}
    /\ driver \in [pc : DriverPlace, at : 1..(Last + 1), skip : SUBSET Lanes,
                   narrow : BOOLEAN, ok : BOOLEAN]
    /\ sweep \in [pc : {"off", "flip", "mark", "delete", "purge"}, expired : BOOLEAN]
    /\ reopen \in {"off", "rearm", "row"}
    /\ erase \in {"off", "delete", "purge"}
    /\ snap \in [Actors -> Snapshot]
    /\ used \in Nat
    /\ hist \in [removed : BOOLEAN, torn : BOOLEAN, parted : BOOLEAN,
                 missed : BOOLEAN, reopened : BOOLEAN, final : {"no", "going", "yes"}]

Init ==
    /\ kind \in {"demo", "project"} /\ row = "live"
    /\ disk = NoBoard /\ age = 0
    /\ mirror = NoCopy
    /\ boot = "up"
    /\ driver = [pc |-> "new", at |-> 1, skip |-> {}, narrow |-> FALSE, ok |-> TRUE]
    /\ sweep = [pc |-> "off", expired |-> FALSE]
    /\ reopen = "off" /\ erase = "off"
    /\ snap = [a \in Actors |-> NoSnapshot]
    /\ used = 0
    /\ hist = [removed |-> FALSE, torn |-> FALSE, parted |-> FALSE,
               missed |-> FALSE, reopened |-> FALSE, final |-> "no"]

Event == used < MaxEvents /\ used' = used + 1

------------------------------------------------------------------------------
(* The board's files. *)

\* A commit leaves the directory's time at now: the journal comes and goes.
Store(lane) == disk' = [disk EXCEPT !.lane = lane] /\ age' = 0
Untouched == UNCHANGED <<disk, age>>

HasRow(i) == disk.lane # NoDb /\ disk.lane[i] # "none"

\* sqlite3.connect creates a missing kanban.db, and fails without a directory.
Connect == IF disk.dir /\ disk.lane = NoDb THEN Store(Blank) ELSE Untouched

\* The rows seal_board parks, and the marker it leaves whatever is there.
Park ==
    IF disk.lane = NoDb THEN Untouched
    ELSE LET parked == [i \in Lanes |-> IF disk.lane[i] \in {"todo", "running"} THEN "blocked"
                                        ELSE disk.lane[i]]
         IN  IF parked = disk.lane THEN Untouched ELSE Store(parked)
Mark ==
    /\ disk' = [disk EXCEPT !.dir = TRUE, !.sealed = TRUE]
    /\ age' = IF disk.sealed THEN age ELSE 0

\* A lane's output is written, over what an earlier write left.
Written(i) == [disk.files EXCEPT ![i] = @ + 1]

Unfinished == \E i \in Lanes : disk.lane # NoDb /\ disk.lane[i] \in {"todo", "running"}

------------------------------------------------------------------------------
(* snapshot_board: the tasks, the files and the seal are read one after the *)
(* other, and written in one transaction, whose failure nobody hears of.    *)

Busy(a) == snap[a].pc # "off"
Mirroring(a) ==
    /\ snap' = [snap EXCEPT ![a] = [NoSnapshot EXCEPT !.pc = "tasks"]]
    /\ hist' = [hist EXCEPT !.parted = @ \/ \E b \in Actors \ {a} : Busy(b)]

SnapshotTasks(a) ==
    /\ snap[a].pc = "tasks"
    /\ snap' = [snap EXCEPT ![a].pc = "files",
                            ![a].lane = IF disk.lane = NoDb THEN Blank ELSE disk.lane]
    /\ UNCHANGED <<host, row, disk, age, mirror, threads, used, hist>>

SnapshotFiles(a) ==
    /\ snap[a].pc = "files"
    /\ snap' = [snap EXCEPT ![a].pc = "seal", ![a].files = disk.files]
    /\ UNCHANGED <<host, row, disk, age, mirror, threads, used, hist>>

SealFlag(a) ==
    /\ snap[a].pc = "seal"
    /\ snap' = [snap EXCEPT ![a].pc = "commit", ![a].sealed = disk.sealed]
    /\ UNCHANGED <<host, row, disk, age, mirror, threads, used, hist>>

Commit(a) ==
    /\ snap[a].pc = "commit"
    /\ mirror' = [there |-> TRUE, lane |-> snap[a].lane, files |-> snap[a].files,
                  sealed |-> snap[a].sealed]
    /\ snap' = [snap EXCEPT ![a] = NoSnapshot]
    /\ hist' = [hist EXCEPT !.missed = FALSE]
    /\ UNCHANGED <<host, row, disk, age, threads, used>>

\* The exception is passed over: the mirror stays as it was.
CommitFails(a) ==
    /\ snap[a].pc = "commit"
    /\ Event
    /\ snap' = [snap EXCEPT ![a] = NoSnapshot]
    /\ hist' = [hist EXCEPT !.missed = TRUE]
    /\ UNCHANGED <<host, row, disk, age, mirror, threads>>

\* Mutant: the files are read before the tasks.
SnapshotFilesFirst(a) ==
    \/ /\ snap[a].pc = "tasks"
       /\ snap' = [snap EXCEPT ![a].pc = "files", ![a].files = disk.files]
       /\ UNCHANGED <<host, row, disk, age, mirror, threads, used, hist>>
    \/ /\ snap[a].pc = "files"
       /\ snap' = [snap EXCEPT ![a].pc = "seal",
                               ![a].lane = IF disk.lane = NoDb THEN Blank ELSE disk.lane]
       /\ UNCHANGED <<host, row, disk, age, mirror, threads, used, hist>>
    \/ SealFlag(a)
    \/ Commit(a)
    \/ CommitFails(a)

SnapshotStep(a) ==
    \/ SnapshotTasks(a) \/ SnapshotFiles(a) \/ SealFlag(a)
    \/ Commit(a) \/ CommitFails(a)

------------------------------------------------------------------------------
(* The driver: launch_demo_profile or launch_project_thin, then a lane at a *)
(* time through thin_execute.                                               *)

DriverAt(pc) == boot = "up" /\ driver.pc = pc /\ ~Busy("driver")
Drive(pc) == driver' = [driver EXCEPT !.pc = pc]

Launch ==
    /\ DriverAt("new")
    /\ disk' = [NoBoard EXCEPT !.dir = TRUE, !.lane = [i \in Lanes |-> "todo"]] /\ age' = 0
    /\ Drive("lane") /\ Mirroring("driver")
    /\ UNCHANGED <<host, row, mirror, sweep, reopen, erase, used>>

\* A lane that was done when the driver started is passed over.
PassOver ==
    /\ DriverAt("lane")
    /\ driver.at \in driver.skip
    /\ driver' = [driver EXCEPT !.at = @ + 1]
    /\ UNCHANGED <<host, row, disk, age, mirror, sweep, reopen, erase, snap, used, hist>>

Claim ==
    /\ DriverAt("lane")
    /\ driver.at \in Lanes \ driver.skip
    /\ IF HasRow(driver.at)
       THEN Store([disk.lane EXCEPT ![driver.at] = "running"]) /\ Drive("call")
       ELSE Connect /\ Drive("raise")
    /\ UNCHANGED <<host, row, mirror, sweep, reopen, erase, snap, used, hist>>

\* The provider answers, and the artifact is written; or it does not.
Produce ==
    /\ DriverAt("call")
    /\ disk' = [disk EXCEPT !.dir = TRUE, !.files = Written(driver.at)]
    /\ age' = IF disk.dir THEN age ELSE 0
    /\ Drive("finish")
    /\ UNCHANGED <<host, row, mirror, sweep, reopen, erase, snap, used, hist>>

ProviderFails ==
    /\ DriverAt("call")
    /\ Drive("raise")
    /\ UNCHANGED <<host, row, disk, age, mirror, sweep, reopen, erase, snap, used, hist>>

Complete ==
    /\ DriverAt("finish")
    /\ HasRow(driver.at)
    /\ Store([disk.lane EXCEPT ![driver.at] = "done"])
    /\ driver' = IF driver.at = Builder
                 THEN [driver EXCEPT !.pc = "page", !.narrow = FALSE]
                 ELSE [driver EXCEPT !.pc = "lane", !.at = @ + 1]
    /\ Mirroring("driver")
    /\ UNCHANGED <<host, row, mirror, sweep, reopen, erase, used>>

CompleteRaises ==
    /\ DriverAt("finish")
    /\ ~HasRow(driver.at)
    /\ Connect /\ Drive("raise")
    /\ UNCHANGED <<host, row, mirror, sweep, reopen, erase, snap, used, hist>>

Fail(i) == IF HasRow(i) THEN Store([disk.lane EXCEPT ![i] = "failed"]) ELSE Connect

\* _demo_fail_lane, the snapshot of the finally clause, and the exception;
\* the patches of a page catch theirs.
LaneFails ==
    /\ DriverAt("raise")
    /\ Fail(driver.at)
    /\ driver' = IF driver.narrow THEN [driver EXCEPT !.pc = "page", !.narrow = FALSE]
                 ELSE [driver EXCEPT !.pc = "lost", !.ok = FALSE]
    /\ Mirroring("driver")
    /\ UNCHANGED <<host, row, mirror, sweep, reopen, erase, used>>

\* _run_builder goes on once the lane is done.  A page that came out weak is
\* built again, and one that lacks a part is asked for that part alone: both
\* calls are made through thin_execute, which takes the done row back.
Repair(narrow) ==
    /\ DriverAt("page")
    /\ Event
    /\ narrow => disk.files[driver.at] > 0
    /\ IF HasRow(driver.at)
       THEN /\ Store([disk.lane EXCEPT ![driver.at] = "running"])
            /\ driver' = [driver EXCEPT !.pc = "call", !.narrow = narrow]
       ELSE Connect /\ driver' = [driver EXCEPT !.pc = "raise", !.narrow = narrow]
    /\ UNCHANGED <<host, row, mirror, sweep, reopen, erase, snap, hist>>

\* The pack that is split, the part that is put in, the deterministic patches
\* and EVIDENCE.md are written after the snapshot, and none follows.
PatchPage ==
    /\ DriverAt("page")
    /\ Event
    /\ disk.files[driver.at] > 0
    /\ disk' = [disk EXCEPT !.files = Written(driver.at)]
    /\ UNCHANGED <<host, row, age, mirror, threads, snap, hist>>

PageLeft ==
    /\ DriverAt("page")
    /\ driver' = [driver EXCEPT !.pc = "lane", !.at = @ + 1]
    /\ UNCHANGED <<host, row, disk, age, mirror, sweep, reopen, erase, snap, used, hist>>

\* A demo whose planner failed closes the builder's lane too, and no snapshot
\* follows; a project is finalized.
GiveUp ==
    /\ DriverAt("lost")
    /\ IF kind = "demo"
       THEN /\ IF driver.at = 1 /\ Last > 1 THEN Fail(Last) ELSE Untouched
            /\ Drive("off")
       ELSE Untouched /\ Drive("end")
    /\ UNCHANGED <<host, row, mirror, sweep, reopen, erase, snap, used, hist>>

\* A demo that converged is copied to where the preview looks for it.
AllDriven ==
    /\ DriverAt("lane")
    /\ driver.at = Last + 1
    /\ IF kind = "demo" /\ disk.files[Builder] > 0
       THEN disk' = [disk EXCEPT !.dir = TRUE, !.files = Written(Builder)] /\ age' = 0
       ELSE Untouched
    /\ Drive(IF kind = "demo" THEN "off" ELSE "end")
    /\ UNCHANGED <<host, row, mirror, sweep, reopen, erase, snap, used, hist>>

\* _finalize_launch: the credit goes back when no lane is done.
Finalize ==
    /\ DriverAt("end")
    /\ row' = IF row = "gone" THEN row
              ELSE IF driver.ok \/ \E i \in Lanes : HasRow(i) /\ disk.lane[i] \in Finished
                   THEN "final" ELSE "refunded"
    /\ Drive(IF driver.ok THEN "off" ELSE "flip")
    /\ UNCHANGED <<host, disk, age, mirror, sweep, reopen, erase, snap, used, hist>>

\* seal_board of a launch that did not converge.
SealPark ==
    /\ DriverAt("flip")
    /\ Park /\ Drive("mark")
    /\ UNCHANGED <<host, row, mirror, sweep, reopen, erase, snap, used, hist>>

SealMark ==
    /\ DriverAt("mark")
    /\ Mark /\ Drive("off")
    /\ Mirroring("driver")
    /\ UNCHANGED <<host, row, mirror, sweep, reopen, erase, used>>

DriverStep ==
    \/ Launch \/ PassOver \/ Claim \/ Produce \/ ProviderFails \/ Complete \/ CompleteRaises
    \/ LaneFails \/ PatchPage \/ PageLeft \/ (\E narrow \in BOOLEAN : Repair(narrow))
    \/ GiveUp \/ AllDriven \/ Finalize \/ SealPark \/ SealMark

------------------------------------------------------------------------------
(* The sweep of demo boards, in the reaper's thread. *)

SweepAt(pc) == boot = "up" /\ sweep.pc = pc /\ ~Busy("sweep")

\* Mutant: a board is closed, and never looked at again.
SweepSeals ==
    /\ SweepAt("off") /\ kind = "demo"
    /\ disk.dir /\ age > 0
    /\ ~disk.sealed
    /\ sweep' = [pc |-> "flip", expired |-> age = 2]
    /\ UNCHANGED <<host, row, disk, age, mirror, driver, reopen, erase, snap, used, hist>>

\* The age and the seal are looked at once, for both decisions.
SweepSees ==
    /\ SweepAt("off") /\ kind = "demo"
    /\ disk.dir /\ age > 0
    /\ ~disk.sealed \/ age = 2
    /\ sweep' = [pc |-> IF disk.sealed THEN "delete" ELSE "flip", expired |-> age = 2]
    /\ UNCHANGED <<host, row, disk, age, mirror, driver, reopen, erase, snap, used, hist>>

SweepParks ==
    /\ SweepAt("flip")
    /\ Park
    /\ sweep' = [sweep EXCEPT !.pc = "mark"]
    /\ UNCHANGED <<host, row, mirror, driver, reopen, erase, snap, used, hist>>

SweepMarks ==
    /\ SweepAt("mark")
    /\ Mark
    /\ sweep' = [sweep EXCEPT !.pc = IF sweep.expired THEN "delete" ELSE "off"]
    /\ Mirroring("sweep")
    /\ UNCHANGED <<host, row, mirror, driver, reopen, erase, used>>

\* Nobody writes to the board or its mirror.
Quiet == driver.pc = "off" /\ reopen = "off" /\ \A a \in Actors : ~Busy(a)

\* shutil.rmtree: a driver that writes meanwhile can make it stop part way.
Removed ==
    /\ disk' = NoBoard /\ age' = 0
    /\ hist' = [hist EXCEPT !.removed = TRUE, !.final = IF Quiet THEN "going" ELSE @]

Interrupted ==
    /\ driver.pc # "off"
    /\ disk' \in {disk, [disk EXCEPT !.lane = NoDb, !.sealed = FALSE]}
    /\ age' = 0
    /\ hist' = [hist EXCEPT !.removed = TRUE]

DeleteDemoBoard ==
    /\ SweepAt("delete")
    /\ \/ /\ disk.dir /\ Removed
          /\ sweep' = [sweep EXCEPT !.pc = "purge"]
       \/ /\ disk.dir /\ Interrupted
          /\ sweep' = [sweep EXCEPT !.pc = "off"]
       \/ /\ ~disk.dir /\ Untouched /\ UNCHANGED hist
          /\ sweep' = [sweep EXCEPT !.pc = "off"]
    /\ UNCHANGED <<host, row, mirror, driver, reopen, erase, snap, used>>

\* Mutant: the mirror rows are left.
PurgeForgotten ==
    /\ UNCHANGED <<mirror, used>>
    /\ hist' = [hist EXCEPT !.final = IF @ = "going" THEN "yes" ELSE @]

\* The rows go in one transaction; its failure is passed over, and nobody
\* comes back for them.
PurgeBoard ==
    \/ /\ mirror' = NoCopy
       /\ hist' = [hist EXCEPT !.final = IF @ = "going" THEN "yes" ELSE @]
       /\ UNCHANGED used
    \/ /\ Event
       /\ hist' = [hist EXCEPT !.final = "no"]
       /\ UNCHANGED mirror

SweepPurges ==
    /\ SweepAt("purge")
    /\ PurgeBoard
    /\ sweep' = [sweep EXCEPT !.pc = "off"]
    /\ UNCHANGED <<host, row, disk, age, driver, reopen, erase, snap>>

SweepStep == SweepSees \/ SweepParks \/ SweepMarks \/ DeleteDemoBoard \/ SweepPurges

------------------------------------------------------------------------------
(* Requests: the customer reopens a project, or erases the account. *)

\* api_reopen_project: only a refund closes a board for good.
Reopen ==
    /\ boot = "up" /\ reopen = "off" /\ ~Busy("reopen")
    /\ kind = "project" /\ driver.pc # "new"
    /\ row \in {"live", "final", "reopened"}
    /\ Event
    /\ hist' = [hist EXCEPT !.reopened = TRUE]
    /\ disk' = [disk EXCEPT !.sealed = FALSE]
    /\ age' = IF disk.sealed THEN 0 ELSE age
    /\ reopen' = "rearm"
    /\ UNCHANGED <<host, row, mirror, driver, sweep, erase, snap>>

Rearm ==
    /\ boot = "up" /\ reopen = "rearm"
    /\ IF disk.lane = NoDb THEN Untouched
       ELSE Store([i \in Lanes |-> IF disk.lane[i] \in Finished \cup {"blocked"} THEN "todo"
                                   ELSE disk.lane[i]])
    /\ reopen' = "row"
    /\ Mirroring("reopen")
    /\ UNCHANGED <<host, row, mirror, driver, sweep, erase, used>>

ReopenRow ==
    /\ boot = "up" /\ reopen = "row" /\ ~Busy("reopen")
    /\ row' = IF row = "gone" THEN row ELSE "reopened"
    /\ reopen' = "off"
    /\ UNCHANGED <<host, disk, age, mirror, driver, sweep, erase, snap, used, hist>>

\* api_account_delete: the rows first, then the boards they named.
EraseRow ==
    /\ boot = "up" /\ erase = "off"
    /\ kind = "project" /\ row # "gone" /\ driver.pc # "new"
    /\ row' = "gone" /\ erase' = "delete"
    /\ UNCHANGED <<host, disk, age, mirror, driver, sweep, reopen, snap, used, hist>>

DeleteBoards ==
    /\ boot = "up" /\ erase = "delete"
    /\ \/ disk.dir /\ Removed /\ erase' = "purge"
       \/ disk.dir /\ Interrupted /\ erase' = "off"
       \/ ~disk.dir /\ Untouched /\ UNCHANGED hist /\ erase' = "off"
    /\ UNCHANGED <<host, row, mirror, driver, sweep, reopen, snap, used>>

ErasePurges ==
    /\ boot = "up" /\ erase = "purge"
    /\ PurgeBoard
    /\ erase' = "off"
    /\ UNCHANGED <<host, row, disk, age, driver, sweep, reopen, snap>>

RequestStep == Reopen \/ Rearm \/ ReopenRow \/ EraseRow \/ DeleteBoards \/ ErasePurges

------------------------------------------------------------------------------
(* A restart, with or without the disk, and the start that follows. *)

Resting == [driver EXCEPT !.pc = IF driver.pc = "new" THEN "new" ELSE "off"]

Restart(wiped) ==
    /\ Event
    /\ boot' = "restore"
    /\ driver' = Resting
    /\ sweep' = [sweep EXCEPT !.pc = "off"] /\ reopen' = "off" /\ erase' = "off"
    /\ snap' = [a \in Actors |-> NoSnapshot]
    /\ IF wiped THEN disk' = NoBoard /\ age' = 0 ELSE Untouched
    /\ hist' = [hist EXCEPT !.torn = @ \/ (~wiped /\ boot \in {"rows", "files"}),
                            !.missed = ~wiped /\ @,
                            !.final = IF @ = "going" THEN "no" ELSE @,
                            !.parted = ~wiped /\ (@ \/ ~Quiet \/ boot \in {"rows", "files"})]
    /\ UNCHANGED <<kind, row, mirror>>

\* restore_missing_boards: a board is missing when its kanban.db is.  The
\* schema script commits before the rows are inserted.
RestoreSchema ==
    /\ boot = "restore"
    /\ IF mirror.there /\ disk.lane = NoDb
       THEN disk' = [disk EXCEPT !.dir = TRUE, !.lane = Blank] /\ age' = 0 /\ boot' = "rows"
       ELSE Untouched /\ boot' = "resume"
    /\ UNCHANGED <<kind, row, mirror, threads, snap, used, hist>>

RestoreRows ==
    /\ boot = "rows"
    /\ Store(mirror.lane)
    /\ boot' = "files"
    /\ UNCHANGED <<kind, row, mirror, threads, snap, used, hist>>

RestoreFiles ==
    /\ boot = "files"
    /\ disk' = [disk EXCEPT !.files = [i \in Lanes |-> IF mirror.files[i] > 0 THEN mirror.files[i]
                                                       ELSE @[i]],
                            !.sealed = @ \/ mirror.sealed]
    /\ age' = 0
    /\ boot' = "resume"
    /\ UNCHANGED <<kind, row, mirror, threads, snap, used, hist>>

\* PostgreSQL does not answer: the start goes on with what the disk has.
RestoreFails ==
    /\ boot = "restore"
    /\ Event
    /\ boot' = "resume"
    /\ UNCHANGED <<kind, row, disk, age, mirror, threads, snap, hist>>

\* Mutant: the lanes that were done are driven again.
SkipNone == {}
Skipped == {i \in Lanes : HasRow(i) /\ disk.lane[i] \in Finished}

\* _resume_restored_thin_boards.
Resume ==
    /\ boot = "resume"
    /\ boot' = "up"
    /\ driver' =
         IF /\ kind = "project" /\ mirror.there
            /\ row \in {"live", "reopened"} /\ ~disk.sealed /\ Unfinished
         THEN [pc |-> "lane", at |-> 1, skip |-> Skipped, narrow |-> FALSE, ok |-> TRUE]
         ELSE driver
    /\ UNCHANGED <<kind, row, disk, age, mirror, sweep, reopen, erase, snap, used, hist>>

BootStep == RestoreSchema \/ RestoreRows \/ RestoreFiles \/ RestoreFails \/ Resume

\* Time passes over the directory; nobody asks for the age of a project's.
Tick ==
    /\ boot = "up" /\ kind = "demo" /\ disk.dir /\ age < 2
    /\ age' = age + 1
    /\ UNCHANGED <<host, row, disk, mirror, threads, snap, used, hist>>

Next ==
    \/ DriverStep \/ SweepStep \/ RequestStep \/ BootStep \/ Tick
    \/ \E a \in Actors : SnapshotStep(a)
    \/ \E wiped \in BOOLEAN : Restart(wiped)

\* The threads that work on a demo board go on: a provider call has a time
\* limit, the reaper never ends its loop, a start comes to its end.  Nothing
\* is assumed of the requests, and no restart has to happen.
Fairness ==
    /\ WF_vars(DriverStep \/ SnapshotStep("driver"))
    /\ WF_vars(BootStep \/ SweepStep \/ SnapshotStep("sweep"))
    /\ WF_vars(Tick)

Spec == Init /\ [][Next]_vars
FairSpec == Spec /\ Fairness

------------------------------------------------------------------------------

\* What the mirror calls done it can restore: a snapshot that shows a lane
\* done holds its artifact, whatever the driver does while it is taken.  A
\* boot that died between kanban.db and the files is the exception: the board
\* is no longer missing, and the next snapshot drops the files of the mirror.
MirroredDoneHasArtifact ==
    ~hist.removed /\ ~hist.torn =>
        \A i \in Lanes : mirror.lane[i] = "done" => mirror.files[i] > 0

\* A lane the board shows done has its artifact, also on a board a boot
\* restored or drove on: a driver that passes it over finds its input.  Same
\* exception.
DoneHasArtifact ==
    ~hist.removed /\ ~hist.torn /\ boot \in {"resume", "up"} =>
        \A i \in Lanes : HasRow(i) /\ disk.lane[i] = "done" => disk.files[i] > 0

\* A project's driver starts a lane only when the mirror shows the ones it
\* finished before, so a lost disk costs at most the lane under way, unless
\* the write of the last snapshot failed.
LaneKept ==
    kind = "project" /\ ~hist.reopened /\ ~hist.removed /\ ~hist.missed /\ DriverAt("call") =>
        \A i \in 1..(driver.at - 1) \ driver.skip : mirror.lane[i] \in Finished

\* A finished lane goes back to running only in the repairs of the page its
\* own driver has just built.  Every other lane, and the builder's for the
\* driver a boot starts, is called for once, until a reopen re-arms it: the
\* customer pays for each call.
NotDrivenAgain ==
    [][\A i \in Lanes :
           (HasRow(i) /\ disk.lane[i] \in Finished) /\ (HasRow(i)' /\ disk'.lane[i] = "running")
           => driver.pc = "page" /\ driver.at = i /\ i = Builder /\ i \notin driver.skip]_vars

\* When all threads are through, the mirror is the board: after a seal, a
\* reopen, a launch that ended, a restore.  Snapshots that overlapped or whose
\* write failed, and threads that a restart cut short, are the exceptions, and
\* the builder's output: what is made of it after its snapshot only the next
\* lane's snapshot sees, which a demo does not have, and a reopened project
\* may pass over.
QuietMirrorAgrees ==
    /\ boot = "up" /\ Quiet /\ sweep.pc = "off" /\ erase = "off"
    /\ ~hist.parted /\ ~hist.torn /\ ~hist.removed /\ ~hist.missed
    /\ disk.lane # NoDb
    => /\ mirror.there /\ mirror.sealed = disk.sealed
       /\ \A i \in Lanes \ {Builder} : mirror.files[i] = disk.files[i]
       /\ mirror.files[Builder] <= disk.files[Builder]
       /\ kind = "project" => mirror.lane = disk.lane
       /\ kind = "project" /\ ~hist.reopened => mirror.files = disk.files

\* A board that was removed while nobody worked on it never comes back, not
\* even with a boot that restores what is missing.
QuietDeleteIsFinal == hist.final = "yes" => ~disk.dir /\ ~mirror.there

\* Every demo board goes, however its driver and the restarts fall: nobody
\* has to ask for it.
DemoGoes == kind = "demo" => <>[](~disk.dir)

\* The mirror can always give back what the board had, together.
MirrorKept ==
    TypeOK /\ MirroredDoneHasArtifact /\ DoneHasArtifact /\ LaneKept /\ QuietMirrorAgrees
=============================================================================
