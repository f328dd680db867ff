--------------------------- MODULE BoardMirrorProofs ---------------------------
(***************************************************************************)
(* What the mirror of a board promises, for every number of lanes and of   *)
(* restarts, reopenings, repairs and failed calls: the artifacts behind    *)
(* what it calls done, how much of the board it has once all threads are   *)
(* through, that a board deleted while nobody worked on it stays deleted,  *)
(* and which finished lane is driven again.                                *)
(***************************************************************************)
EXTENDS BoardMirror, TLAPS

Still == \A a \in Actors : ~Busy(a)

Driving == {"lane", "call", "finish", "raise", "page"}
Read == {"files", "seal", "commit"}

\* Where the driver may be, and who runs during a start and on which kind of
\* board.
PlaceInv ==
    /\ driver.pc = "new" => driver.at = 1 /\ disk = NoBoard /\ mirror = NoCopy /\ Still
    /\ driver.pc = "new" => reopen = "off" /\ erase = "off" /\ sweep.pc = "off" /\ driver.skip = {}
    /\ boot # "up" => /\ driver.pc \in {"new", "off"} /\ sweep.pc = "off"
                      /\ reopen = "off" /\ erase = "off" /\ Still
    /\ boot \in {"rows", "files"} => driver.pc = "off" /\ disk.lane # NoDb
    /\ boot = "rows" => disk.lane = Blank
    /\ driver.pc \in {"call", "finish", "raise", "page", "lost"} => driver.at \in Lanes
    /\ driver.pc \in {"call", "finish", "raise", "page"} => driver.at \notin driver.skip
    /\ driver.pc \in {"new", "lane", "page"} => ~driver.narrow
    /\ driver.pc = "page" => driver.at = Builder
    /\ driver.pc \in Driving /\ driver.narrow => driver.at = Builder
    /\ kind = "demo" => reopen = "off" /\ erase = "off"
    /\ kind = "demo" => driver.pc \notin {"end", "flip", "mark"}
    /\ kind = "project" => sweep.pc = "off" /\ ~Busy("sweep")
    /\ kind = "project" /\ ~hist.reopened => reopen = "off" /\ ~Busy("reopen")
    /\ erase # "off" => row = "gone"
    /\ sweep.pc = "purge" \/ erase = "purge" => hist.removed

\* A board deleted while nobody worked on it: its kanban.db and directory are
\* gone, then its rows, and nobody is left who would write either again.
FinalInv ==
    /\ hist.final # "no" => Quiet /\ ~disk.dir /\ (kind = "project" => row = "gone")
    /\ hist.final = "going" => boot = "up" /\ (sweep.pc = "purge" \/ erase = "purge")
    /\ hist.final = "yes" => ~mirror.there /\ sweep.pc = "off" /\ erase = "off"

\* The artifact of a done lane is on the disk before the lane is done, and in
\* a snapshot whenever the lane is.
ArtifactInv ==
    ~hist.removed /\ ~hist.torn =>
        /\ \A i \in Lanes : mirror.lane[i] = "done" => mirror.files[i] > 0
        /\ \A i \in Lanes : HasRow(i) /\ disk.lane[i] = "done" =>
               disk.files[i] > 0 \/ (boot = "files" /\ mirror.files[i] > 0)
        /\ driver.pc = "finish" => disk.files[driver.at] > 0
        /\ \A a \in Actors, i \in Lanes : snap[a].lane[i] = "done" =>
               \/ snap[a].pc = "files" /\ disk.files[i] > 0
               \/ snap[a].pc \in {"seal", "commit"} /\ snap[a].files[i] > 0

\* The lanes the driver of a project has come past, the one whose page it is
\* at included.
Behind == 1..(driver.at - 1) \cup {i \in Lanes : driver.pc = "page" /\ driver.at = i}

\* They are finished on the board, and in the mirror, unless a write to it has
\* failed, or in the snapshot that the driver waits for; so are the lanes it
\* was told to pass over.
BehindInv ==
    kind = "project" /\ ~hist.reopened /\ ~hist.removed /\ driver.pc \in Driving =>
        /\ \A i \in Behind \cup driver.skip : HasRow(i) /\ disk.lane[i] \in Finished
        /\ \A i \in Behind \ driver.skip :
               /\ ~Busy("driver") /\ ~hist.missed => mirror.lane[i] \in Finished
               /\ snap["driver"].pc \in Read => snap["driver"].lane[i] \in Finished
        /\ driver.narrow => HasRow(driver.at)

\* The lanes ahead of a driver are not finished.
AheadInv ==
    driver.pc \in Driving =>
        \A i \in (driver.at)..Last \ (Behind \cup driver.skip) :
            HasRow(i) => disk.lane[i] \notin Finished

\* Without a reopening the lanes are finished in their order, on the board, in
\* the mirror and in a snapshot, so a driver passes over the first ones.
Ordered(lane) == \A i, j \in Lanes : i < j /\ lane[j] \in Finished => lane[i] \in Finished
OrderInv ==
    kind = "project" /\ ~hist.reopened /\ ~hist.removed =>
        /\ disk.lane # NoDb => Ordered(disk.lane)
        /\ Ordered(mirror.lane)
        /\ \A a \in Actors : Ordered(snap[a].lane)
        /\ driver.pc \in Driving =>
               \A i, j \in Lanes : i < j /\ j \in driver.skip => i \in driver.skip

\* Without a deletion, a board without kanban.db is one the disk lost.
LostInv ==
    ~hist.removed /\ disk.lane = NoDb =>
        disk = NoBoard /\ driver.pc \in {"new", "off"} /\ sweep.pc = "off"

OneInv == ~hist.parted => \A a, b \in Actors : Busy(a) /\ Busy(b) => a = b

Clean == ~hist.removed /\ ~hist.parted /\ ~hist.torn

\* Who has changed the lanes, the files or the seal, and has its snapshot to
\* come; and the driver that may have patched its page and owes a snapshot.
LaneDue == driver.pc \in {"call", "finish", "raise", "mark"}
FilesDue == driver.pc \in {"finish", "raise"}
SealDue == reopen = "rearm"
PageDue ==
    /\ driver.pc \in Driving
    /\ driver.at \in {Builder, Builder + 1} /\ Builder \notin driver.skip

\* The files of a copy are those of the board, the builder's perhaps older.
Follows(files) ==
    /\ \A i \in Lanes \ {Builder} : files[i] = disk.files[i]
    /\ files[Builder] <= disk.files[Builder]

HalfRestored ==
    /\ mirror.there /\ disk.files = NoFiles /\ ~disk.sealed
    /\ boot = "files" => disk.lane = mirror.lane

\* A snapshot under way is the board, as far as it has come, and so is the
\* mirror when there is none, but for what is due.
SnapAgrees ==
    \A a \in Actors :
        /\ snap[a].pc \in Read /\ kind = "project" /\ ~LaneDue => snap[a].lane = disk.lane
        /\ snap[a].pc \in {"seal", "commit"} /\ ~FilesDue => Follows(snap[a].files)
        /\ snap[a].pc \in {"seal", "commit"} /\ kind = "project" /\ ~hist.reopened =>
               snap[a].files = disk.files
        /\ snap[a].pc = "commit" /\ ~SealDue => snap[a].sealed = disk.sealed
MirrorAgrees ==
    Still /\ ~hist.missed =>
        /\ mirror.there
        /\ kind = "project" /\ ~LaneDue => mirror.lane = disk.lane
        /\ ~FilesDue => Follows(mirror.files)
        /\ kind = "project" /\ ~hist.reopened /\ ~FilesDue /\ ~PageDue => mirror.files = disk.files
        /\ ~SealDue => mirror.sealed = disk.sealed
AgreeInv ==
    Clean /\ disk.lane # NoDb =>
        IF boot \in {"rows", "files"} THEN HalfRestored ELSE SnapAgrees /\ MirrorAgrees

BoardInv ==
    /\ TypeOK /\ PlaceInv /\ FinalInv /\ ArtifactInv /\ BehindInv /\ AheadInv
    /\ OrderInv /\ LostInv /\ OneInv /\ AgreeInv

------------------------------------------------------------------------------
(* Types. *)

USE MirrorAssumption

LEMMA LanesAreNoBlank == \A f \in [Lanes -> Status] : f # NoDb
<1>1. TAKE f \in [Lanes -> Status]
<1>2. 1 \in DOMAIN f
  BY DEF Lanes
<1>3. 1 \notin DOMAIN NoDb
  BY DEF NoDb
<1>4. QED
  BY <1>2, <1>3

LEMMA BlankIsLanes == Blank \in [Lanes -> Status]
BY DEF Blank, Status

LEMMA NoFilesType == NoFiles \in Files
BY DEF NoFiles, Files

\* The builder of either kind is a lane.
LEMMA BuilderType == Builder \in Lanes /\ (kind = "project" => Builder + 1 \in Lanes)
BY DEF Builder, Lanes

LEMMA WrittenType ==
    ASSUME TypeOK, NEW i \in Lanes
    PROVE  Written(i) \in Files
<1>1. disk.files \in Files
  BY DEF TypeOK, Board
<1>2. [disk.files EXCEPT ![i] = disk.files[i] + 1] \in Files
  BY <1>1 DEF Files
<1>3. QED
  BY <1>2 DEF Written

LEMMA StoreType ==
    ASSUME TypeOK, NEW lane \in [Lanes -> Status], Store(lane)
    PROVE  disk' \in Board /\ age' \in 0..2
BY DEF TypeOK, Store, Board

LEMMA ConnectType ==
    ASSUME TypeOK, Connect
    PROVE  disk' \in Board /\ age' \in 0..2
BY StoreType, BlankIsLanes DEF Connect, TypeOK, Untouched

LEMMA FailType ==
    ASSUME TypeOK, NEW i \in Lanes, Fail(i)
    PROVE  disk' \in Board /\ age' \in 0..2
<1>1. CASE HasRow(i)
  <2>1. [disk.lane EXCEPT ![i] = "failed"] \in [Lanes -> Status]
    BY <1>1 DEF TypeOK, HasRow, Board, Status
  <2>2. QED
    BY <1>1, <2>1, StoreType DEF Fail
<1>2. CASE ~HasRow(i)
  BY <1>2, ConnectType DEF Fail
<1>3. QED
  BY <1>1, <1>2

LEMMA ParkType ==
    ASSUME TypeOK, Park
    PROVE  disk' \in Board /\ age' \in 0..2
<1>1. CASE disk.lane = NoDb
  BY <1>1 DEF Park, Untouched, TypeOK
<1>2. CASE disk.lane # NoDb
  <2> DEFINE parked == [i \in Lanes |-> IF disk.lane[i] \in {"todo", "running"} THEN "blocked"
                                        ELSE disk.lane[i]]
  <2>1. parked \in [Lanes -> Status]
    BY <1>2 DEF TypeOK, Board, Status
  <2>2. Store(parked) \/ Untouched
    BY <1>2 DEF Park
  <2>3. QED
    BY <2>1, <2>2, StoreType DEF Untouched, TypeOK
<1>3. QED
  BY <1>1, <1>2

LEMMA MarkType ==
    ASSUME TypeOK, Mark
    PROVE  disk' \in Board /\ age' \in 0..2
<1>1. [disk EXCEPT !.dir = TRUE, !.sealed = TRUE] \in Board
  BY DEF TypeOK, Board
<1>2. disk' \in Board
  BY <1>1 DEF Mark
<1>3. age' \in 0..2
  BY DEF Mark, TypeOK
<1>4. QED
  BY <1>2, <1>3

LEMMA NoSnapshotType == NoSnapshot \in Snapshot /\ NoSnapshot.pc = "off" /\ NoSnapshot.lane = Blank
BY BlankIsLanes, NoFilesType DEF NoSnapshot, Snapshot

Hist == [removed : BOOLEAN, torn : BOOLEAN, parted : BOOLEAN, missed : BOOLEAN,
         reopened : BOOLEAN, final : {"no", "going", "yes"}]

LEMMA MirroringType ==
    ASSUME TypeOK, NEW a \in Actors, Mirroring(a)
    PROVE  snap' \in [Actors -> Snapshot] /\ hist' \in Hist
<1>1. [NoSnapshot EXCEPT !.pc = "tasks"] \in Snapshot
  BY BlankIsLanes, NoFilesType DEF NoSnapshot, Snapshot
<1>2. (\E b \in Actors \ {a} : Busy(b)) \in BOOLEAN
  OBVIOUS
<1>3. QED
  BY <1>1, <1>2 DEF Mirroring, TypeOK, Hist

LEMMA NoBoardType ==
    /\ NoBoard \in Board /\ NoBoard.lane = NoDb /\ ~NoBoard.dir /\ ~NoBoard.sealed
    /\ NoBoard.files = NoFiles
BY NoFilesType DEF NoBoard, Board

LEMMA NoCopyType == NoCopy \in Copy /\ NoCopy.lane = Blank /\ ~NoCopy.there
BY BlankIsLanes, NoFilesType DEF NoCopy, Copy

LEMMA RemovedType ==
    ASSUME TypeOK, Removed \/ Interrupted \/ (Untouched /\ UNCHANGED hist)
    PROVE  disk' \in Board /\ age' \in 0..2 /\ hist' \in Hist
<1>1. CASE Removed
  <2>1. \A f \in {"no", "going", "yes"} :
            [hist EXCEPT !.removed = TRUE, !.final = f] \in Hist
    BY DEF TypeOK, Hist
  <2>2. (IF Quiet THEN "going" ELSE hist.final) \in {"no", "going", "yes"}
    BY DEF TypeOK
  <2>3. hist' \in Hist
    BY <1>1, <2>1, <2>2 DEF Removed
  <2>4. QED
    BY <1>1, <2>3, NoBoardType DEF Removed
<1>2. CASE Interrupted
  <2>1. [disk EXCEPT !.lane = NoDb, !.sealed = FALSE] \in Board
    BY DEF TypeOK, Board
  <2>2. [hist EXCEPT !.removed = TRUE] \in Hist
    BY DEF TypeOK, Hist
  <2>3. disk' \in Board /\ age' = 0 /\ hist' \in Hist
    BY <1>2, <2>1, <2>2 DEF Interrupted, TypeOK
  <2>4. QED
    BY <2>3
<1>3. CASE Untouched /\ UNCHANGED hist
  BY <1>3 DEF Untouched, TypeOK, Hist
<1>4. QED
  BY <1>1, <1>2, <1>3

DriverRec == [pc : DriverPlace, at : 1..(Last + 1), skip : SUBSET Lanes, narrow : BOOLEAN,
              ok : BOOLEAN]

LEMMA DriveType ==
    ASSUME TypeOK, NEW pc \in DriverPlace
    PROVE  [driver EXCEPT !.pc = pc] \in DriverRec
BY DEF TypeOK, DriverRec

LEMMA NextAtType ==
    ASSUME TypeOK, driver.at \in Lanes
    PROVE  /\ [driver EXCEPT !.at = @ + 1] \in DriverRec
           /\ [driver EXCEPT !.pc = "lane", !.at = @ + 1] \in DriverRec
<1>1. driver.at + 1 \in 1..(Last + 1)
  BY DEF TypeOK, Lanes
<1>2. QED
  BY <1>1 DEF TypeOK, DriverRec, DriverPlace

LEMMA DriverTypes ==
    ASSUME TypeOK, PlaceInv, DriverStep
    PROVE  TypeOK'
<1> SUFFICES /\ row' \in {"live", "final", "refunded", "reopened", "gone"}
             /\ disk' \in Board /\ age' \in 0..2 /\ driver' \in DriverRec
             /\ snap' \in [Actors -> Snapshot] /\ hist' \in Hist /\ used' \in Nat
             /\ UNCHANGED <<kind, boot, mirror, sweep, reopen, erase>>
  BY DEF TypeOK, DriverRec, Hist
<1>0. "driver" \in Actors
  BY DEF Actors
<1>a. /\ row \in {"live", "final", "refunded", "reopened", "gone"}
      /\ disk \in Board /\ age \in 0..2 /\ driver \in DriverRec
      /\ snap \in [Actors -> Snapshot] /\ hist \in Hist /\ used \in Nat
  BY DEF TypeOK, DriverRec, Hist
<1>1. CASE Launch
  <2>1. disk' \in Board
    <3>1. [i \in Lanes |-> "todo"] \in [Lanes -> Status]
      BY DEF Status
    <3>2. [NoBoard EXCEPT !.dir = TRUE, !.lane = [i \in Lanes |-> "todo"]] \in Board
      BY <3>1, NoFilesType DEF NoBoard, Board
    <3>3. QED
      BY <1>1, <3>2 DEF Launch
  <2>2. QED
    BY <1>1, <1>0, <1>a, <2>1, DriveType, MirroringType DEF Launch, Drive, DriverPlace, host
<1>2. CASE PassOver
  <2>1. driver.at \in Lanes
    BY <1>2 DEF PassOver, TypeOK
  <2>2. QED
    BY <1>2, <1>a, <2>1, NextAtType DEF PassOver, host
<1>3. CASE Claim
  <2>1. HasRow(driver.at) => [disk.lane EXCEPT ![driver.at] = "running"] \in [Lanes -> Status]
    BY <1>3 DEF TypeOK, HasRow, Board, Status, Claim
  <2>2. QED
    BY <1>3, <1>a, <2>1, DriveType, StoreType, ConnectType DEF Claim, Drive, DriverPlace, host
<1>4. CASE Produce
  <2>1. driver.at \in Lanes
    BY <1>4 DEF Produce, DriverAt, PlaceInv
  <2>2. disk' \in Board
    BY <1>4, <1>a, <2>1, WrittenType DEF Produce, Board
  <2>3. age' \in 0..2
    BY <1>4, <1>a DEF Produce
  <2>4. QED
    BY <1>4, <1>a, <2>2, <2>3, DriveType DEF Produce, Drive, DriverPlace, host
<1>5. CASE ProviderFails
  BY <1>5, <1>a, DriveType DEF ProviderFails, Drive, DriverPlace, host
<1>6. CASE Complete
  <2>1. driver.at \in Lanes
    BY <1>6 DEF Complete, DriverAt, PlaceInv
  <2>2. [disk.lane EXCEPT ![driver.at] = "done"] \in [Lanes -> Status]
    BY <1>6 DEF TypeOK, HasRow, Board, Status, Complete
  <2>3. [driver EXCEPT !.pc = "page", !.narrow = FALSE] \in DriverRec
    BY <1>a DEF DriverRec, DriverPlace
  <2>4. QED
    BY <1>6, <1>0, <1>a, <2>1, <2>2, <2>3, NextAtType, StoreType, MirroringType
    DEF Complete, host
<1>7. CASE CompleteRaises
  BY <1>7, <1>a, DriveType, ConnectType DEF CompleteRaises, Drive, DriverPlace, host
<1>8. CASE LaneFails
  <2>1. driver.at \in Lanes
    BY <1>8 DEF LaneFails, DriverAt, PlaceInv
  <2>2. driver' \in DriverRec
    BY <1>8, <1>a DEF LaneFails, DriverRec, DriverPlace
  <2>3. QED
    BY <1>8, <1>0, <1>a, <2>1, <2>2, FailType, MirroringType DEF LaneFails, host
<1>9. CASE GiveUp
  <2>1. Last \in Lanes
    BY DEF Lanes
  <2>2. QED
    BY <1>9, <1>a, <2>1, FailType, DriveType DEF GiveUp, Drive, DriverPlace, Untouched, host
<1>10. CASE AllDriven
  <2>1. [disk EXCEPT !.dir = TRUE, !.files = Written(Builder)] \in Board
    BY <1>a, BuilderType, WrittenType DEF Board
  <2>2. QED
    BY <1>10, <1>a, <2>1, DriveType DEF AllDriven, Drive, DriverPlace, Untouched, host
<1>11. CASE Finalize
  BY <1>11, <1>a, DriveType DEF Finalize, Drive, DriverPlace, host
<1>12. CASE SealPark
  BY <1>12, <1>a, DriveType, ParkType DEF SealPark, Drive, DriverPlace, host
<1>13. CASE SealMark
  BY <1>13, <1>0, <1>a, DriveType, MarkType, MirroringType DEF SealMark, Drive, DriverPlace, host
<1>14. CASE \E narrow \in BOOLEAN : Repair(narrow)
  <2>1. PICK narrow \in BOOLEAN : Repair(narrow)
    BY <1>14
  <2>2. \A pc \in {"call", "raise"} : [driver EXCEPT !.pc = pc, !.narrow = narrow] \in DriverRec
    BY <1>a DEF DriverRec, DriverPlace
  <2>3. HasRow(driver.at) => [disk.lane EXCEPT ![driver.at] = "running"] \in [Lanes -> Status]
    BY <1>a DEF HasRow, Board, Status
  <2>4. driver' \in DriverRec /\ disk' \in Board /\ age' \in 0..2
    BY <2>1, <2>2, <2>3, StoreType, ConnectType DEF Repair
  <2>5. QED
    BY <2>1, <2>4, <1>a DEF Repair, Event, host
<1>15. CASE PatchPage
  <2>1. driver.at \in Lanes
    BY <1>15 DEF PatchPage, DriverAt, PlaceInv
  <2>2. disk' \in Board
    BY <1>15, <1>a, <2>1, WrittenType DEF PatchPage, Board
  <2>3. QED
    BY <1>15, <1>a, <2>2 DEF PatchPage, Event, host, threads
<1>16. CASE PageLeft
  <2>1. driver.at \in Lanes
    BY <1>16 DEF PageLeft, DriverAt, PlaceInv
  <2>2. QED
    BY <1>16, <1>a, <2>1, NextAtType DEF PageLeft, host
<1>17. QED
  BY <1>1, <1>2, <1>3, <1>4, <1>5, <1>6, <1>7, <1>8, <1>9, <1>10, <1>11, <1>12, <1>13, <1>14,
     <1>15, <1>16
  DEF DriverStep

LEMMA SweepTypes ==
    ASSUME TypeOK, SweepStep
    PROVE  TypeOK'
<1> DEFINE SweepRec == [pc : {"off", "flip", "mark", "delete", "purge"}, expired : BOOLEAN]
<1> SUFFICES /\ disk' \in Board /\ age' \in 0..2 /\ mirror' \in Copy
             /\ sweep' \in SweepRec
             /\ snap' \in [Actors -> Snapshot] /\ hist' \in Hist /\ used' \in Nat
             /\ UNCHANGED <<kind, boot, row, driver, reopen, erase>>
  BY DEF TypeOK, Hist
<1>0. "sweep" \in Actors
  BY DEF Actors
<1>a. /\ disk \in Board /\ age \in 0..2 /\ mirror \in Copy /\ sweep \in SweepRec
      /\ snap \in [Actors -> Snapshot] /\ hist \in Hist /\ used \in Nat
  BY DEF TypeOK, Hist
<1>1. CASE SweepSees
  BY <1>1, <1>a DEF SweepSees, host
<1>2. CASE SweepParks
  BY <1>2, <1>a, ParkType DEF SweepParks, host
<1>3. CASE SweepMarks
  BY <1>3, <1>0, <1>a, MarkType, MirroringType DEF SweepMarks, host
<1>4. CASE DeleteDemoBoard
  BY <1>4, <1>a, RemovedType DEF DeleteDemoBoard, host
<1>5. CASE SweepPurges
  <2>1. hist' \in Hist
    BY <1>5, <1>a DEF SweepPurges, PurgeBoard, Hist
  <2>2. mirror' \in Copy /\ used' \in Nat
    BY <1>5, <1>a, NoCopyType DEF SweepPurges, PurgeBoard, Event
  <2>3. QED
    BY <1>5, <1>a, <2>1, <2>2 DEF SweepPurges, host
<1>6. QED
  BY <1>1, <1>2, <1>3, <1>4, <1>5 DEF SweepStep

LEMMA RequestTypes ==
    ASSUME TypeOK, RequestStep
    PROVE  TypeOK'
<1> SUFFICES /\ row' \in {"live", "final", "refunded", "reopened", "gone"}
             /\ disk' \in Board /\ age' \in 0..2 /\ mirror' \in Copy
             /\ reopen' \in {"off", "rearm", "row"} /\ erase' \in {"off", "delete", "purge"}
             /\ snap' \in [Actors -> Snapshot] /\ hist' \in Hist
             /\ used' \in Nat
             /\ UNCHANGED <<kind, boot, driver, sweep>>
  BY DEF TypeOK, Hist
<1>0. "reopen" \in Actors
  BY DEF Actors
<1>a. /\ row \in {"live", "final", "refunded", "reopened", "gone"}
      /\ disk \in Board /\ age \in 0..2 /\ mirror \in Copy
      /\ reopen \in {"off", "rearm", "row"} /\ erase \in {"off", "delete", "purge"}
      /\ snap \in [Actors -> Snapshot] /\ hist \in Hist
      /\ used \in Nat
  BY DEF TypeOK, Hist
<1>1. CASE Reopen
  <2>1. disk' \in Board
    BY <1>1, <1>a DEF Reopen, Board
  <2>2. used' \in Nat /\ hist' \in Hist
    <3>1. hist' = [hist EXCEPT !.reopened = TRUE]
      BY <1>1 DEF Reopen
    <3>2. hist' \in Hist
      BY ONLY <1>a, <3>1 DEF Hist
    <3>3. QED
      BY <1>1, <1>a, <3>2 DEF Reopen, Event
  <2>3. age' \in 0..2
    BY <1>1, <1>a DEF Reopen
  <2>4. QED
    BY <1>1, <1>a, <2>1, <2>2, <2>3 DEF Reopen, host
<1>2. CASE Rearm
  <2>1. disk' \in Board /\ age' \in 0..2
    <3>1. CASE disk.lane = NoDb
      BY <1>2, <1>a, <3>1 DEF Rearm, Untouched
    <3>2. CASE disk.lane # NoDb
      <4> DEFINE armed == [i \in Lanes |-> IF disk.lane[i] \in Finished \cup {"blocked"} THEN "todo"
                                           ELSE disk.lane[i]]
      <4>1. armed \in [Lanes -> Status]
        BY <1>a, <3>2 DEF Board, Status
      <4>2. Store(armed)
        BY <1>2, <3>2 DEF Rearm
      <4>3. QED
        BY <4>1, <4>2, StoreType
    <3>3. QED
      BY <3>1, <3>2
  <2>2. QED
    BY <1>2, <1>0, <1>a, <2>1, MirroringType DEF Rearm, host
<1>3. CASE ReopenRow
  BY <1>3, <1>a DEF ReopenRow, host
<1>4. CASE EraseRow
  BY <1>4, <1>a DEF EraseRow, host
<1>5. CASE DeleteBoards
  BY <1>5, <1>a, RemovedType DEF DeleteBoards, host
<1>6. CASE ErasePurges
  <2>1. hist' \in Hist
    BY <1>6, <1>a DEF ErasePurges, PurgeBoard, Hist
  <2>2. mirror' \in Copy /\ used' \in Nat
    BY <1>6, <1>a, NoCopyType DEF ErasePurges, PurgeBoard, Event
  <2>3. QED
    BY <1>6, <1>a, <2>1, <2>2 DEF ErasePurges, host
<1>7. QED
  BY <1>1, <1>2, <1>3, <1>4, <1>5, <1>6 DEF RequestStep

LEMMA BootTypes ==
    ASSUME TypeOK, BootStep
    PROVE  TypeOK'
<1> SUFFICES /\ disk' \in Board /\ age' \in 0..2 /\ used' \in Nat
             /\ boot' \in {"restore", "rows", "files", "resume", "up"}
             /\ driver' \in DriverRec
             /\ UNCHANGED <<kind, row, mirror, sweep, reopen, erase, snap, hist>>
  BY DEF TypeOK, DriverRec
<1>a. /\ disk \in Board /\ age \in 0..2 /\ mirror \in Copy /\ driver \in DriverRec
      /\ boot \in {"restore", "rows", "files", "resume", "up"} /\ used \in Nat
  BY DEF TypeOK, DriverRec
<1>1. CASE RestoreSchema
  <2>1. [disk EXCEPT !.dir = TRUE, !.lane = Blank] \in Board
    BY <1>a, BlankIsLanes DEF Board
  <2>2. QED
    BY <1>1, <1>a, <2>1 DEF RestoreSchema, Untouched, threads
<1>2. CASE RestoreRows
  <2>1. mirror.lane \in [Lanes -> Status]
    BY <1>a DEF Copy
  <2>2. QED
    BY <1>2, <1>a, <2>1, StoreType DEF RestoreRows, threads
<1>3. CASE RestoreFiles
  <2>1. [i \in Lanes |-> IF mirror.files[i] > 0 THEN mirror.files[i] ELSE disk.files[i]] \in Files
    BY <1>a DEF Board, Copy, Files
  <2>2. (disk.sealed \/ mirror.sealed) \in BOOLEAN
    OBVIOUS
  <2>3. disk' = [disk EXCEPT !.files = [i \in Lanes |-> IF mirror.files[i] > 0 THEN mirror.files[i]
                                                      ELSE disk.files[i]],
                             !.sealed = disk.sealed \/ mirror.sealed]
    BY <1>3, <1>a DEF RestoreFiles, Board
  <2>4. disk' \in Board
    BY <1>a, <2>1, <2>2, <2>3 DEF Board
  <2>5. QED
    BY <1>3, <1>a, <2>4 DEF RestoreFiles, threads
<1>4. CASE RestoreFails
  BY <1>4, <1>a DEF RestoreFails, Event, threads
<1>5. CASE Resume
  <2>1. Skipped \in SUBSET Lanes /\ 1 \in 1..(Last + 1)
    BY DEF Skipped
  <2>2. [pc |-> "lane", at |-> 1, skip |-> Skipped, narrow |-> FALSE, ok |-> TRUE] \in DriverRec
    BY <2>1 DEF DriverRec, DriverPlace
  <2>3. QED
    BY <1>5, <1>a, <2>2 DEF Resume
<1>6. QED
  BY <1>1, <1>2, <1>3, <1>4, <1>5 DEF BootStep

LEMMA SnapshotTypes ==
    ASSUME TypeOK, NEW a \in Actors, SnapshotStep(a)
    PROVE  TypeOK'
<1> SUFFICES /\ mirror' \in Copy /\ snap' \in [Actors -> Snapshot]
             /\ hist' \in Hist /\ used' \in Nat
             /\ UNCHANGED <<kind, boot, row, disk, age, driver, sweep, reopen, erase>>
  BY DEF TypeOK, Hist
<1>a. /\ mirror \in Copy /\ snap \in [Actors -> Snapshot] /\ disk \in Board
      /\ hist \in Hist /\ used \in Nat
  BY DEF TypeOK, Hist
<1>1. CASE SnapshotTasks(a)
  <2>1. (IF disk.lane = NoDb THEN Blank ELSE disk.lane) \in [Lanes -> Status]
    BY <1>a, BlankIsLanes DEF Board
  <2>2. [snap[a] EXCEPT !.pc = "files",
                        !.lane = IF disk.lane = NoDb THEN Blank ELSE disk.lane] \in Snapshot
    BY <1>a, <2>1 DEF Snapshot
  <2>3. snap' = [snap EXCEPT ![a] = [snap[a] EXCEPT !.pc = "files",
                                !.lane = IF disk.lane = NoDb THEN Blank ELSE disk.lane]]
    BY <1>1, <1>a DEF SnapshotTasks
  <2>4. snap' \in [Actors -> Snapshot]
    BY <1>a, <2>2, <2>3
  <2>5. QED
    BY <1>1, <1>a, <2>4 DEF SnapshotTasks, host, threads
<1>2. CASE SnapshotFiles(a)
  <2>1. [snap[a] EXCEPT !.pc = "seal", !.files = disk.files] \in Snapshot
    <3>1. snap[a] \in Snapshot /\ disk.files \in Files
      BY <1>a DEF Board
    <3>2. QED
      BY ONLY <3>1, ZenonT(40) DEF Snapshot
  <2>2. snap' = [snap EXCEPT ![a] = [snap[a] EXCEPT !.pc = "seal", !.files = disk.files]]
    BY <1>2, <1>a DEF SnapshotFiles
  <2>3. snap' \in [Actors -> Snapshot]
    BY <1>a, <2>1, <2>2
  <2>4. QED
    BY <1>2, <1>a, <2>3 DEF SnapshotFiles, host, threads
<1>3. CASE SealFlag(a)
  <2>1. [snap[a] EXCEPT !.pc = "commit", !.sealed = disk.sealed] \in Snapshot
    <3>1. snap[a] \in Snapshot /\ disk.sealed \in BOOLEAN
      BY <1>a DEF Board
    <3>2. QED
      BY ONLY <3>1, ZenonT(40) DEF Snapshot
  <2>2. snap' = [snap EXCEPT ![a] = [snap[a] EXCEPT !.pc = "commit", !.sealed = disk.sealed]]
    BY <1>3, <1>a DEF SealFlag
  <2>3. snap' \in [Actors -> Snapshot]
    BY <1>a, <2>1, <2>2
  <2>4. QED
    BY <1>3, <1>a, <2>3 DEF SealFlag, host, threads
<1>4. CASE Commit(a)
  <2>1. snap' \in [Actors -> Snapshot]
    BY <1>4, <1>a, NoSnapshotType DEF Commit
  <2>2. mirror' \in Copy
    BY <1>4, <1>a DEF Commit, Copy, Snapshot
  <2>3. hist' \in Hist
    BY <1>4, <1>a DEF Commit, Hist
  <2>4. QED
    BY <1>4, <1>a, <2>1, <2>2, <2>3 DEF Commit, host, threads
<1>5. CASE CommitFails(a)
  <2>1. snap' \in [Actors -> Snapshot]
    BY <1>5, <1>a, NoSnapshotType DEF CommitFails
  <2>2. hist' \in Hist
    BY <1>5, <1>a DEF CommitFails, Hist
  <2>3. QED
    BY <1>5, <1>a, <2>1, <2>2 DEF CommitFails, Event, host, threads
<1>6. QED
  BY <1>1, <1>2, <1>3, <1>4, <1>5 DEF SnapshotStep

LEMMA RestartTypes ==
    ASSUME TypeOK, NEW wiped \in BOOLEAN, Restart(wiped)
    PROVE  TypeOK'
<1>1. disk' \in Board /\ age' \in 0..2
  BY NoBoardType DEF Restart, Untouched, TypeOK
<1>2. driver' \in DriverRec
  BY DriveType, SMTT(30) DEF Restart, Resting, DriverPlace
<1>3. used' \in Nat
  BY DEF Restart, Event, TypeOK
<1>4. hist' \in Hist
  <2>1. \A t, m, c \in BOOLEAN, f \in {"no", "going", "yes"} :
            [hist EXCEPT !.torn = t, !.missed = m, !.final = f, !.parted = c] \in Hist
    BY DEF TypeOK, Hist
  <2>2. (hist.torn \/ (~wiped /\ boot \in {"rows", "files"})) \in BOOLEAN
    BY DEF TypeOK
  <2>3. (~wiped /\ hist.missed) \in BOOLEAN
    BY DEF TypeOK
  <2>4. (~wiped /\ (hist.parted \/ ~Quiet \/ boot \in {"rows", "files"})) \in BOOLEAN
    BY DEF TypeOK
  <2>5. (IF hist.final = "going" THEN "no" ELSE hist.final) \in {"no", "going", "yes"}
    BY DEF TypeOK
  <2>6. QED
    BY <2>1, <2>2, <2>3, <2>4, <2>5 DEF Restart
<1>5. sweep' \in [pc : {"off", "flip", "mark", "delete", "purge"}, expired : BOOLEAN]
  BY DEF Restart, TypeOK
<1>6. snap' \in [Actors -> Snapshot]
  BY NoSnapshotType DEF Restart
<1>7. UNCHANGED <<kind, row, mirror>> /\ boot' = "restore" /\ reopen' = "off" /\ erase' = "off"
  BY DEF Restart
<1>8. QED
  BY <1>1, <1>2, <1>3, <1>4, <1>5, <1>6, <1>7 DEF TypeOK, DriverRec, Hist

LEMMA TypesKept ==
    ASSUME TypeOK, PlaceInv, [Next]_vars
    PROVE  TypeOK'
<1>1. CASE Tick
  BY <1>1 DEF Tick, TypeOK, host, threads
<1>2. CASE UNCHANGED vars
  BY <1>2 DEF vars, TypeOK
<1>3. QED
  BY <1>1, <1>2, DriverTypes, SweepTypes, RequestTypes, BootTypes, SnapshotTypes, RestartTypes
  DEF Next

------------------------------------------------------------------------------
(* What a snapshot that starts changes, and what a deletion does. *)

LEMMA MirroringDoes ==
    ASSUME TypeOK, NEW a \in Actors, Mirroring(a)
    PROVE  /\ snap'[a].pc = "tasks" /\ snap'[a].lane = Blank
           /\ \A b \in Actors \ {a} : snap'[b] = snap[b]
           /\ hist'.removed = hist.removed /\ hist'.torn = hist.torn
           /\ hist'.missed = hist.missed /\ hist'.reopened = hist.reopened
           /\ hist'.final = hist.final
           /\ hist'.parted = (hist.parted \/ \E b \in Actors \ {a} : Busy(b))
<1>1. /\ [NoSnapshot EXCEPT !.pc = "tasks"].pc = "tasks"
      /\ [NoSnapshot EXCEPT !.pc = "tasks"].lane = Blank
  BY DEF NoSnapshot
<1>2. snap' = [snap EXCEPT ![a] = [NoSnapshot EXCEPT !.pc = "tasks"]]
  BY DEF Mirroring
<1>3. /\ snap'[a].pc = "tasks" /\ snap'[a].lane = Blank
      /\ \A b \in Actors \ {a} : snap'[b] = snap[b]
  BY <1>1, <1>2 DEF TypeOK
<1>4. hist' = [hist EXCEPT !.parted = hist.parted \/ \E b \in Actors \ {a} : Busy(b)]
  BY DEF Mirroring
<1>5. QED
  BY <1>3, <1>4 DEF TypeOK

LEMMA RemovedDoes ==
    ASSUME TypeOK, Removed
    PROVE  /\ disk' = NoBoard /\ hist'.removed /\ hist'.reopened = hist.reopened
           /\ hist'.final = IF Quiet THEN "going" ELSE hist.final
BY DEF TypeOK, Removed

LEMMA InterruptedDoes ==
    ASSUME TypeOK, Interrupted
    PROVE  /\ driver.pc # "off" /\ hist'.removed /\ hist'.final = hist.final
           /\ hist'.reopened = hist.reopened
           /\ disk' \in {disk, [disk EXCEPT !.lane = NoDb, !.sealed = FALSE]}
BY DEF TypeOK, Interrupted

LEMMA PurgeDoes ==
    ASSUME TypeOK, PurgeBoard
    PROVE  /\ hist'.removed = hist.removed /\ hist'.torn = hist.torn
           /\ hist'.parted = hist.parted /\ hist'.missed = hist.missed
           /\ hist'.reopened = hist.reopened
           /\ \/ mirror' = NoCopy /\ hist'.final = IF hist.final = "going" THEN "yes" ELSE hist.final
              \/ mirror' = mirror /\ hist'.final = "no"
BY DEF TypeOK, PurgeBoard

LEMMA CommitDoes ==
    ASSUME TypeOK, NEW a \in Actors, Commit(a)
    PROVE  /\ snap'[a] = NoSnapshot /\ snap'[a].pc = "off" /\ snap'[a].lane = Blank
           /\ \A b \in Actors \ {a} : snap'[b] = snap[b]
           /\ mirror'.there /\ mirror'.lane = snap[a].lane /\ mirror'.files = snap[a].files
           /\ mirror'.sealed = snap[a].sealed
           /\ hist'.removed = hist.removed /\ hist'.torn = hist.torn
           /\ hist'.parted = hist.parted /\ hist'.reopened = hist.reopened
           /\ hist'.final = hist.final
BY NoSnapshotType DEF TypeOK, Commit

LEMMA CommitFailsDoes ==
    ASSUME TypeOK, NEW a \in Actors, CommitFails(a)
    PROVE  /\ snap'[a] = NoSnapshot /\ snap'[a].pc = "off" /\ snap'[a].lane = Blank
           /\ \A b \in Actors \ {a} : snap'[b] = snap[b]
           /\ hist'.removed = hist.removed /\ hist'.torn = hist.torn
           /\ hist'.parted = hist.parted /\ hist'.reopened = hist.reopened
           /\ hist'.final = hist.final /\ hist'.missed
           /\ UNCHANGED <<host, row, disk, mirror, threads>>
BY NoSnapshotType DEF TypeOK, CommitFails

LEMMA RestartDoes ==
    ASSUME TypeOK, NEW wiped \in BOOLEAN, Restart(wiped)
    PROVE  /\ driver'.pc = IF driver.pc = "new" THEN "new" ELSE "off"
           /\ driver'.at = driver.at /\ driver'.skip = driver.skip
           /\ driver'.narrow = driver.narrow
           /\ sweep'.pc = "off"
           /\ \A a \in Actors : snap'[a] = NoSnapshot
           /\ hist'.removed = hist.removed /\ hist'.reopened = hist.reopened
           /\ hist'.torn = (hist.torn \/ (~wiped /\ boot \in {"rows", "files"}))
           /\ hist'.missed = (~wiped /\ hist.missed)
           /\ hist'.final = (IF hist.final = "going" THEN "no" ELSE hist.final)
           /\ hist'.parted = (~wiped /\ (hist.parted \/ ~Quiet \/ boot \in {"rows", "files"}))
           /\ disk' = IF wiped THEN NoBoard ELSE disk
<1>1. hist' = [hist EXCEPT !.torn = hist.torn \/ (~wiped /\ boot \in {"rows", "files"}),
                           !.missed = ~wiped /\ hist.missed,
                           !.final = IF hist.final = "going" THEN "no" ELSE hist.final,
                           !.parted = ~wiped /\ (hist.parted \/ ~Quiet \/ boot \in {"rows", "files"})]
  BY DEF Restart
<1>2. /\ hist'.removed = hist.removed /\ hist'.reopened = hist.reopened
      /\ hist'.torn = (hist.torn \/ (~wiped /\ boot \in {"rows", "files"}))
      /\ hist'.missed = (~wiped /\ hist.missed)
      /\ hist'.final = (IF hist.final = "going" THEN "no" ELSE hist.final)
      /\ hist'.parted = (~wiped /\ (hist.parted \/ ~Quiet \/ boot \in {"rows", "files"}))
  BY <1>1 DEF TypeOK
<1>3. /\ driver'.pc = IF driver.pc = "new" THEN "new" ELSE "off"
      /\ driver'.at = driver.at /\ driver'.skip = driver.skip /\ driver'.narrow = driver.narrow
      /\ sweep'.pc = "off" /\ \A a \in Actors : snap'[a] = NoSnapshot
  BY DEF Restart, Resting, TypeOK
<1>4. disk' = IF wiped THEN NoBoard ELSE disk
  BY DEF Restart, Untouched
<1>5. QED
  BY <1>2, <1>3, <1>4

LEMMA ReadDoes ==
    ASSUME TypeOK, NEW a \in Actors, SnapshotTasks(a) \/ SnapshotFiles(a) \/ SealFlag(a)
    PROVE  /\ snap[a].pc # "off" /\ snap'[a].pc # "off"
           /\ \A b \in Actors \ {a} : snap'[b] = snap[b]
           /\ SnapshotTasks(a) => /\ snap'[a].pc = "files"
                                  /\ snap'[a].lane = IF disk.lane = NoDb THEN Blank ELSE disk.lane
           /\ SnapshotFiles(a) => /\ snap[a].pc = "files" /\ snap'[a].pc = "seal"
                                  /\ snap'[a].files = disk.files /\ snap'[a].lane = snap[a].lane
           /\ SealFlag(a) => /\ snap[a].pc = "seal" /\ snap'[a].pc = "commit"
                             /\ snap'[a].lane = snap[a].lane /\ snap'[a].files = snap[a].files
                             /\ snap'[a].sealed = disk.sealed
           /\ UNCHANGED <<host, row, disk, mirror, threads, used, hist>>
BY DEF TypeOK, SnapshotTasks, SnapshotFiles, SealFlag, Snapshot

LEMMA PlaceKept ==
    ASSUME TypeOK, PlaceInv, [Next]_vars
    PROVE  PlaceInv'
<1>0. "driver" \in Actors /\ "sweep" \in Actors /\ "reopen" \in Actors
  BY DEF Actors
<1>a. driver \in DriverRec
  BY DEF TypeOK, DriverRec
<1>1. CASE PassOver
  BY <1>1, <1>0, <1>a DEF PlaceInv, Driving, Builder, DriverAt, Drive, DriverRec, Busy, Still, host, PassOver
<1>2. CASE Claim
  BY <1>2, <1>0, <1>a DEF PlaceInv, Driving, Builder, DriverAt, Drive, DriverRec, Busy, Still, host, Claim
<1>3. CASE Produce
  BY <1>3, <1>0, <1>a DEF PlaceInv, Driving, Builder, DriverAt, Drive, DriverRec, Busy, Still, host, Produce
<1>4. CASE ProviderFails
  BY <1>4, <1>0, <1>a DEF PlaceInv, Driving, Builder, DriverAt, Drive, DriverRec, Busy, Still, host, ProviderFails
<1>5. CASE CompleteRaises
  BY <1>5, <1>0, <1>a
  DEF PlaceInv, Driving, Builder, DriverAt, Drive, DriverRec, Busy, Still, host, CompleteRaises
<1>6. CASE GiveUp
  BY <1>6, <1>0, <1>a DEF PlaceInv, Driving, Builder, DriverAt, Drive, DriverRec, Busy, Still, host, GiveUp
<1>7. CASE AllDriven
  BY <1>7, <1>0, <1>a DEF PlaceInv, Driving, Builder, DriverAt, Drive, DriverRec, Busy, Still, host, AllDriven
<1>8. CASE Finalize
  BY <1>8, <1>0, <1>a DEF PlaceInv, Driving, Builder, DriverAt, Drive, DriverRec, Busy, Still, host, Finalize
<1>9. CASE SealPark
  BY <1>9, <1>0, <1>a DEF PlaceInv, Driving, Builder, DriverAt, Drive, DriverRec, Busy, Still, host, SealPark
<1>10. CASE Launch
  BY <1>10, <1>0, <1>a, MirroringDoes
  DEF PlaceInv, Driving, Builder, DriverAt, Drive, DriverRec, Busy, Still, host, Launch
<1>11. CASE Complete
  BY <1>11, <1>0, <1>a, MirroringDoes
  DEF PlaceInv, Driving, Builder, DriverAt, Drive, DriverRec, Busy, Still, host, Complete
<1>12. CASE LaneFails
  BY <1>12, <1>0, <1>a, MirroringDoes
  DEF PlaceInv, Driving, Builder, DriverAt, Drive, DriverRec, Busy, Still, host, LaneFails
<1>13. CASE SealMark
  BY <1>13, <1>0, <1>a, MirroringDoes
  DEF PlaceInv, Driving, Builder, DriverAt, Drive, DriverRec, Busy, Still, host, SealMark
<1>14. CASE SweepSees
  BY <1>14, <1>0, NoBoardType DEF PlaceInv, Driving, Builder, TypeOK, SweepAt, Busy, Still, host, SweepSees
<1>15. CASE SweepParks
  BY <1>15, <1>0 DEF PlaceInv, Driving, Builder, TypeOK, SweepAt, Busy, Still, host, SweepParks
<1>16. CASE SweepMarks
  BY <1>16, <1>0, MirroringDoes DEF PlaceInv, Driving, Builder, TypeOK, SweepAt, Busy, Still, host, SweepMarks
<1>17. CASE DeleteDemoBoard
  BY <1>17, <1>0, RemovedDoes, InterruptedDoes
  DEF PlaceInv, Driving, Builder, TypeOK, SweepAt, Busy, Still, host, DeleteDemoBoard
<1>18. CASE SweepPurges
  BY <1>18, <1>0, PurgeDoes DEF PlaceInv, Driving, Builder, TypeOK, SweepAt, Busy, Still, host, SweepPurges
<1>19. CASE Reopen
  BY <1>19, <1>0 DEF PlaceInv, Driving, Builder, TypeOK, Busy, Still, host, Reopen
<1>20. CASE ReopenRow
  BY <1>20, <1>0 DEF PlaceInv, Driving, Builder, TypeOK, Busy, Still, host, ReopenRow
<1>21. CASE EraseRow
  BY <1>21, <1>0 DEF PlaceInv, Driving, Builder, TypeOK, Busy, Still, host, EraseRow
<1>22. CASE Rearm
  BY <1>22, <1>0, MirroringDoes DEF PlaceInv, Driving, Builder, TypeOK, Busy, Still, host, Rearm
<1>23. CASE DeleteBoards
  BY <1>23, <1>0, RemovedDoes, InterruptedDoes
  DEF PlaceInv, Driving, Builder, TypeOK, Busy, Still, host, DeleteBoards
<1>24. CASE ErasePurges
  BY <1>24, <1>0, PurgeDoes DEF PlaceInv, Driving, Builder, TypeOK, Busy, Still, host, ErasePurges
<1>25. CASE RestoreSchema
  <2>1. CASE mirror.there /\ disk.lane = NoDb
    <3>1. driver.pc = "off"
      BY <1>25, <2>1, NoCopyType DEF RestoreSchema, PlaceInv
    <3>2. disk'.lane = Blank /\ Blank # NoDb
      BY <1>25, <2>1, LanesAreNoBlank, BlankIsLanes DEF RestoreSchema, TypeOK, Board
    <3>3. QED
      BY <1>25, <2>1, <3>1, <3>2 DEF RestoreSchema, PlaceInv, Driving, Builder, Busy, Still, threads
  <2>2. CASE ~(mirror.there /\ disk.lane = NoDb)
    BY <1>25, <2>2
    DEF RestoreSchema, PlaceInv, Driving, Builder, Untouched, Busy, Still, threads
  <2>3. QED
    BY <2>1, <2>2
<1>26. CASE RestoreFiles
  BY <1>26, <1>0, NoCopyType DEF PlaceInv, Driving, Builder, TypeOK, Busy, Still, host, threads, RestoreFiles
<1>27. CASE Resume
  BY <1>27, <1>0, NoCopyType DEF PlaceInv, Driving, Builder, TypeOK, Busy, Still, host, threads, Resume
<1>28. CASE Tick
  BY <1>28, <1>0 DEF PlaceInv, Driving, Builder, TypeOK, Busy, Still, host, threads, Tick
<1>29. CASE \E a \in Actors : SnapshotTasks(a) \/ SnapshotFiles(a) \/ SealFlag(a)
  BY <1>29, <1>0, ReadDoes DEF PlaceInv, Driving, Builder, TypeOK, Busy, Still, host, threads
<1>30. CASE \E a \in Actors : Commit(a)
  BY <1>30, <1>0, CommitDoes DEF PlaceInv, Driving, Builder, TypeOK, Busy, Still, host, threads, Commit
<1>31. CASE \E wiped \in BOOLEAN : Restart(wiped)
  <2>1. PICK wiped \in BOOLEAN : Restart(wiped)
    BY <1>31
  <2>2. /\ driver'.pc = IF driver.pc = "new" THEN "new" ELSE "off"
        /\ driver'.at = driver.at /\ driver'.narrow = driver.narrow /\ driver'.skip = driver.skip
        /\ sweep'.pc = "off" /\ hist'.reopened = hist.reopened
        /\ disk' = IF wiped THEN NoBoard ELSE disk
    BY <2>1, RestartDoes
  <2>3. Still'
    BY <2>1, RestartDoes, NoSnapshotType DEF Still, Busy
  <2>4. reopen' = "off" /\ erase' = "off" /\ boot' = "restore" /\ UNCHANGED <<kind, row, mirror>>
    BY <2>1 DEF Restart
  <2>5. ~Busy("sweep")' /\ ~Busy("reopen")'
    BY <2>3, <1>0 DEF Still
  <2>6. QED
    BY <2>2, <2>3, <2>4, <2>5 DEF PlaceInv, Driving
<1>32. CASE UNCHANGED vars
  BY <1>32 DEF vars, PlaceInv, Driving, Builder, Busy, Still
<1>33. CASE \E narrow \in BOOLEAN : Repair(narrow)
  <2>1. PICK narrow \in BOOLEAN : Repair(narrow)
    BY <1>33
  <2>2. /\ driver'.pc \in {"call", "raise"} /\ driver'.at = driver.at /\ driver.pc = "page"
        /\ driver'.skip = driver.skip /\ boot = "up"
        /\ UNCHANGED <<kind, boot, row, mirror, sweep, reopen, erase, snap, hist>>
    BY <2>1, <1>a DEF Repair, DriverAt, DriverRec, host
  <2>3. QED
    BY <2>2, SMTT(30) DEF PlaceInv, Driving, Builder, Busy, Still
<1>34. CASE PatchPage
  BY <1>34, <1>0, <1>a
  DEF PlaceInv, Driving, Builder, DriverAt, DriverRec, Busy, Still, host, threads, PatchPage
<1>35. CASE PageLeft
  BY <1>35, <1>0, <1>a DEF PlaceInv, Driving, Builder, DriverAt, DriverRec, Busy, Still, host, PageLeft
<1>36. CASE RestoreRows
  <2>1. mirror.lane # NoDb
    BY LanesAreNoBlank DEF TypeOK, Copy
  <2>2. disk'.lane = mirror.lane
    BY <1>36 DEF RestoreRows, Store, TypeOK, Board
  <2>3. QED
    BY <1>36, <2>1, <2>2 DEF PlaceInv, Driving, Builder, Busy, Still, threads, RestoreRows
<1>37. CASE RestoreFails
  BY <1>37, <1>0 DEF PlaceInv, Driving, Builder, Busy, Still, threads, RestoreFails
<1>38. CASE \E a \in Actors : CommitFails(a)
  BY <1>38, <1>0, CommitFailsDoes DEF PlaceInv, Driving, Builder, Busy, Still, host, threads
<1>39. QED
  BY <1>1, <1>2, <1>3, <1>4, <1>5, <1>6, <1>7, <1>8, <1>9, <1>10, <1>11, <1>12, <1>13, <1>14,
     <1>15, <1>16, <1>17, <1>18, <1>19, <1>20, <1>21, <1>22, <1>23, <1>24, <1>25, <1>26, <1>27,
     <1>28, <1>29, <1>30, <1>31, <1>32, <1>33, <1>34, <1>35, <1>36, <1>37, <1>38
  DEF Next, DriverStep, SweepStep, RequestStep, BootStep, SnapshotStep

LEMMA FinalKept ==
    ASSUME TypeOK, PlaceInv, FinalInv, [Next]_vars
    PROVE  FinalInv'
<1>0. "driver" \in Actors /\ "sweep" \in Actors /\ "reopen" \in Actors
  BY DEF Actors
<1>a. /\ kind \in {"demo", "project"} /\ hist.final \in {"no", "going", "yes"}
      /\ \A pc : [sweep EXCEPT !.pc = pc].pc = pc
  BY DEF TypeOK
<1>1. CASE PassOver
  BY <1>1, <1>0, <1>a, NoBoardType, NoCopyType
  DEF FinalInv, PlaceInv, Quiet, DriverAt, Drive, host, Busy, PassOver
<1>2. CASE Claim
  BY <1>2, <1>0, <1>a, NoBoardType, NoCopyType
  DEF FinalInv, PlaceInv, Quiet, DriverAt, Drive, host, Busy, Claim
<1>3. CASE Produce
  BY <1>3, <1>0, <1>a, NoBoardType, NoCopyType
  DEF FinalInv, PlaceInv, Quiet, DriverAt, Drive, host, Busy, Produce
<1>4. CASE ProviderFails
  BY <1>4, <1>0, <1>a, NoBoardType, NoCopyType
  DEF FinalInv, PlaceInv, Quiet, DriverAt, Drive, host, Busy, ProviderFails
<1>5. CASE CompleteRaises
  BY <1>5, <1>0, <1>a, NoBoardType, NoCopyType
  DEF FinalInv, PlaceInv, Quiet, DriverAt, Drive, host, Busy, CompleteRaises
<1>6. CASE GiveUp
  BY <1>6, <1>0, <1>a, NoBoardType, NoCopyType
  DEF FinalInv, PlaceInv, Quiet, DriverAt, Drive, host, Busy, GiveUp
<1>7. CASE AllDriven
  BY <1>7, <1>0, <1>a, NoBoardType, NoCopyType
  DEF FinalInv, PlaceInv, Quiet, DriverAt, Drive, host, Busy, AllDriven
<1>8. CASE Finalize
  BY <1>8, <1>0, <1>a, NoBoardType, NoCopyType
  DEF FinalInv, PlaceInv, Quiet, DriverAt, Drive, host, Busy, Finalize
<1>9. CASE SealPark
  BY <1>9, <1>0, <1>a, NoBoardType, NoCopyType
  DEF FinalInv, PlaceInv, Quiet, DriverAt, Drive, host, Busy, SealPark
<1>10. CASE Launch
  BY <1>10, <1>0, <1>a, NoBoardType, NoCopyType, MirroringDoes
  DEF FinalInv, PlaceInv, Quiet, DriverAt, Drive, host, Busy, Launch
<1>11. CASE Complete
  BY <1>11, <1>0, <1>a, NoBoardType, NoCopyType, MirroringDoes
  DEF FinalInv, PlaceInv, Quiet, DriverAt, Drive, host, Busy, Complete
<1>12. CASE LaneFails
  BY <1>12, <1>0, <1>a, NoBoardType, NoCopyType, MirroringDoes
  DEF FinalInv, PlaceInv, Quiet, DriverAt, Drive, host, Busy, LaneFails
<1>13. CASE SealMark
  BY <1>13, <1>0, <1>a, NoBoardType, NoCopyType, MirroringDoes
  DEF FinalInv, PlaceInv, Quiet, DriverAt, Drive, host, Busy, SealMark
<1>14. CASE SweepSees
  BY <1>14, <1>0, <1>a, NoBoardType, NoCopyType
  DEF FinalInv, PlaceInv, Quiet, SweepAt, host, Busy, SweepSees
<1>15. CASE SweepParks
  BY <1>15, <1>0, <1>a, NoBoardType, NoCopyType
  DEF FinalInv, PlaceInv, Quiet, SweepAt, host, Busy, SweepParks
<1>16. CASE SweepMarks
  BY <1>16, <1>0, <1>a, NoBoardType, NoCopyType, MirroringDoes
  DEF FinalInv, PlaceInv, Quiet, SweepAt, host, Busy, SweepMarks
<1>17. CASE DeleteDemoBoard
  <2>1. /\ hist.final = "no" /\ kind = "demo" /\ boot = "up" /\ sweep.pc = "delete"
        /\ UNCHANGED <<kind, boot, row, mirror, driver, reopen, erase, snap>>
    BY <1>17, <1>a DEF DeleteDemoBoard, SweepAt, PlaceInv, FinalInv, host
  <2>2. CASE disk.dir /\ Removed /\ sweep' = [sweep EXCEPT !.pc = "purge"]
    BY <2>1, <2>2, <1>a, RemovedDoes, NoBoardType DEF FinalInv, Quiet, Busy
  <2>3. CASE Interrupted \/ UNCHANGED hist
    BY <2>1, <2>3, InterruptedDoes DEF FinalInv
  <2>4. QED
    BY <1>17, <2>2, <2>3 DEF DeleteDemoBoard
<1>18. CASE SweepPurges
  BY <1>18, <1>0, <1>a, NoBoardType, NoCopyType, PurgeDoes
  DEF FinalInv, PlaceInv, Quiet, SweepAt, host, Busy, SweepPurges
<1>19. CASE Reopen
  BY <1>19, <1>0, <1>a, NoBoardType, NoCopyType
  DEF FinalInv, PlaceInv, Quiet, host, Busy, Reopen
<1>20. CASE ReopenRow
  BY <1>20, <1>0, <1>a, NoBoardType, NoCopyType
  DEF FinalInv, PlaceInv, Quiet, host, Busy, ReopenRow
<1>21. CASE EraseRow
  BY <1>21, <1>0, <1>a, NoBoardType, NoCopyType
  DEF FinalInv, PlaceInv, Quiet, host, Busy, EraseRow
<1>22. CASE Rearm
  BY <1>22, <1>0, <1>a, NoBoardType, NoCopyType, MirroringDoes
  DEF FinalInv, PlaceInv, Quiet, host, Busy, Rearm
<1>23. CASE DeleteBoards
  BY <1>23, <1>0, <1>a, NoBoardType, NoCopyType, RemovedDoes, InterruptedDoes
  DEF FinalInv, PlaceInv, Quiet, host, Busy, Untouched, DeleteBoards
<1>24. CASE ErasePurges
  BY <1>24, <1>0, <1>a, NoBoardType, NoCopyType, PurgeDoes
  DEF FinalInv, PlaceInv, Quiet, host, Busy, ErasePurges
<1>25. CASE RestoreSchema
  BY <1>25, <1>0, <1>a, NoBoardType, NoCopyType
  DEF FinalInv, PlaceInv, Quiet, threads, Busy, Untouched, RestoreSchema
<1>26. CASE RestoreFiles
  BY <1>26, <1>0, <1>a, NoBoardType, NoCopyType
  DEF FinalInv, PlaceInv, Quiet, threads, Busy, Untouched, RestoreFiles
<1>27. CASE Resume
  BY <1>27, <1>0, <1>a, NoBoardType, NoCopyType
  DEF FinalInv, PlaceInv, Quiet, threads, Busy, Untouched, Resume
<1>28. CASE Tick
  BY <1>28, <1>0, <1>a, NoBoardType, NoCopyType
  DEF FinalInv, PlaceInv, Quiet, host, threads, Busy, Tick
<1>29. CASE \E a \in Actors : SnapshotTasks(a) \/ SnapshotFiles(a) \/ SealFlag(a)
  BY <1>29, <1>0, <1>a, NoBoardType, NoCopyType, ReadDoes
  DEF FinalInv, PlaceInv, Quiet, host, threads, Busy
<1>30. CASE \E a \in Actors : Commit(a)
  BY <1>30, <1>0, <1>a, NoBoardType, NoCopyType, CommitDoes
  DEF FinalInv, PlaceInv, Quiet, host, threads, Busy, Commit
<1>31. CASE \E wiped \in BOOLEAN : Restart(wiped)
  <2>1. PICK wiped \in BOOLEAN : Restart(wiped)
    BY <1>31
  <2>2. /\ driver'.pc = IF driver.pc = "new" THEN "new" ELSE "off"
        /\ sweep'.pc = "off" /\ disk' = IF wiped THEN NoBoard ELSE disk
        /\ hist'.final = (IF hist.final = "going" THEN "no" ELSE hist.final)
    BY <2>1, RestartDoes
  <2>3. \A a \in Actors : ~Busy(a)'
    BY <2>1, RestartDoes, NoSnapshotType DEF Busy
  <2>4. reopen' = "off" /\ erase' = "off" /\ UNCHANGED <<kind, row, mirror>>
    BY <2>1 DEF Restart
  <2>5. QED
    BY <2>2, <2>3, <2>4, NoBoardType DEF FinalInv, Quiet
<1>32. CASE UNCHANGED vars
  BY <1>32, <1>0, <1>a, NoBoardType, NoCopyType DEF FinalInv, PlaceInv, Quiet, vars, Busy
<1>33. CASE \E narrow \in BOOLEAN : Repair(narrow)
  BY <1>33, <1>a DEF FinalInv, Quiet, DriverAt, host, Repair
<1>34. CASE PatchPage
  BY <1>34, <1>a DEF FinalInv, Quiet, DriverAt, host, threads, PatchPage
<1>35. CASE PageLeft
  BY <1>35, <1>a DEF FinalInv, Quiet, DriverAt, host, PageLeft
<1>36. CASE RestoreRows
  BY <1>36, <1>0, <1>a, NoBoardType, NoCopyType
  DEF FinalInv, PlaceInv, Quiet, threads, Busy, Store, RestoreRows
<1>37. CASE RestoreFails
  BY <1>37, <1>0, <1>a DEF FinalInv, PlaceInv, Quiet, threads, Busy, RestoreFails
<1>38. CASE \E a \in Actors : CommitFails(a)
  BY <1>38, <1>0, <1>a, CommitFailsDoes DEF FinalInv, PlaceInv, Quiet, host, threads, Busy, CommitFails
<1>39. QED
  BY <1>1, <1>2, <1>3, <1>4, <1>5, <1>6, <1>7, <1>8, <1>9, <1>10, <1>11, <1>12, <1>13,
     <1>14, <1>15, <1>16, <1>17, <1>18, <1>19, <1>20, <1>21, <1>22, <1>23, <1>24, <1>25,
     <1>26, <1>27, <1>28, <1>29, <1>30, <1>31, <1>32, <1>33, <1>34, <1>35, <1>36, <1>37, <1>38
  DEF Next, DriverStep, SweepStep, RequestStep, BootStep, SnapshotStep

------------------------------------------------------------------------------
(* What a thread does to the lanes on the disk. *)

SameFiles == disk'.files = disk.files /\ disk'.dir = disk.dir /\ disk'.sealed = disk.sealed

LEMMA StoreDoes ==
    ASSUME TypeOK, NEW lane \in [Lanes -> Status], Store(lane)
    PROVE  disk'.lane = lane /\ SameFiles
BY DEF TypeOK, Store, Board, SameFiles

LEMMA ConnectDoes ==
    ASSUME TypeOK, Connect
    PROVE  /\ SameFiles
           /\ disk.lane # NoDb => disk' = disk
           /\ disk.lane = NoDb => \A i \in Lanes : ~HasRow(i)'
<1>1. CASE disk.dir /\ disk.lane = NoDb
  <2>1. disk'.lane = Blank /\ SameFiles
    BY <1>1, BlankIsLanes, StoreDoes DEF Connect
  <2>2. QED
    BY <1>1, <2>1 DEF Blank, HasRow
<1>2. CASE ~(disk.dir /\ disk.lane = NoDb)
  BY <1>2 DEF Connect, Untouched, SameFiles, HasRow
<1>3. QED
  BY <1>1, <1>2

LEMMA FailDoes ==
    ASSUME TypeOK, NEW i \in Lanes, Fail(i)
    PROVE  /\ SameFiles
           /\ disk.lane # NoDb => disk'.lane # NoDb
           /\ HasRow(i)' => disk'.lane[i] = "failed"
           /\ \A j \in Lanes \ {i} : HasRow(j)' => HasRow(j) /\ disk'.lane[j] = disk.lane[j]
           /\ disk.lane # NoDb => \A j \in Lanes \ {i} : HasRow(j)' <=> HasRow(j)
<1>1. CASE HasRow(i)
  <2>1. [disk.lane EXCEPT ![i] = "failed"] \in [Lanes -> Status]
    BY <1>1 DEF TypeOK, HasRow, Board, Status
  <2>2. disk'.lane = [disk.lane EXCEPT ![i] = "failed"] /\ SameFiles
    BY <1>1, <2>1, StoreDoes DEF Fail
  <2>3. disk.lane \in [Lanes -> Status] /\ disk'.lane # NoDb
    BY <1>1, <2>1, <2>2, LanesAreNoBlank DEF TypeOK, HasRow, Board
  <2>4. /\ disk'.lane[i] = "failed" /\ disk.lane # NoDb
        /\ \A j \in Lanes \ {i} : disk'.lane[j] = disk.lane[j]
    BY <1>1, <2>2, <2>3 DEF HasRow
  <2>5. QED
    BY <2>2, <2>3, <2>4 DEF HasRow
<1>2. CASE ~HasRow(i)
  <2>1. Connect
    BY <1>2 DEF Fail
  <2>2. CASE disk.lane # NoDb
    BY <1>2, <2>1, <2>2, ConnectDoes DEF HasRow
  <2>3. CASE disk.lane = NoDb
    BY <1>2, <2>1, <2>3, ConnectDoes DEF HasRow
  <2>4. QED
    BY <2>2, <2>3
<1>3. QED
  BY <1>1, <1>2

LEMMA ParkDoes ==
    ASSUME TypeOK, Park
    PROVE  /\ SameFiles
           /\ disk.lane # NoDb <=> disk'.lane # NoDb
           /\ \A i \in Lanes : HasRow(i)' =>
                  /\ HasRow(i) /\ disk'.lane[i] \notin {"todo", "running"}
                  /\ disk'.lane[i] # "blocked" => disk'.lane[i] = disk.lane[i]
           /\ \A i \in Lanes : HasRow(i) /\ disk.lane[i] \in Finished =>
                  HasRow(i)' /\ disk'.lane[i] = disk.lane[i]
<1>1. CASE disk.lane = NoDb
  BY <1>1 DEF Park, Untouched, SameFiles, HasRow
<1>2. CASE disk.lane # NoDb
  <2> DEFINE parked == [i \in Lanes |-> IF disk.lane[i] \in {"todo", "running"} THEN "blocked"
                                        ELSE disk.lane[i]]
  <2>1. parked \in [Lanes -> Status] /\ parked # NoDb
    BY <1>2, LanesAreNoBlank DEF TypeOK, Board, Status
  <2>2. disk'.lane = parked /\ SameFiles
    <3>1. CASE parked = disk.lane
      BY <1>2, <3>1 DEF Park, Untouched, SameFiles
    <3>2. CASE parked # disk.lane
      BY <1>2, <2>1, <3>2, StoreDoes DEF Park
    <3>3. QED
      BY <3>1, <3>2
  <2>3. QED
    BY <1>2, <2>1, <2>2 DEF HasRow, Finished
<1>3. QED
  BY <1>1, <1>2

LEMMA MarkDoes ==
    ASSUME TypeOK, Mark
    PROVE  /\ disk'.lane = disk.lane /\ disk'.files = disk.files /\ disk'.dir /\ disk'.sealed
BY DEF TypeOK, Mark, Board

LEMMA ClaimDoes ==
    ASSUME TypeOK, Claim
    PROVE  /\ driver.at \in Lanes /\ driver.at \notin driver.skip /\ SameFiles
           /\ driver' = [driver EXCEPT !.pc = IF HasRow(driver.at) THEN "call" ELSE "raise"]
           /\ HasRow(driver.at)' => HasRow(driver.at) /\ disk'.lane[driver.at] = "running"
           /\ \A i \in Lanes \ {driver.at} :
                  HasRow(i)' => HasRow(i) /\ disk'.lane[i] = disk.lane[i]
           /\ disk.lane # NoDb => /\ disk'.lane # NoDb
                                  /\ \A i \in Lanes : HasRow(i) => HasRow(i)'
<1>1. driver.at \in Lanes /\ driver.at \notin driver.skip
  BY DEF Claim
<1>2. CASE HasRow(driver.at)
  <2>1. [disk.lane EXCEPT ![driver.at] = "running"] \in [Lanes -> Status]
    BY <1>2 DEF TypeOK, HasRow, Board, Status
  <2>2. disk'.lane = [disk.lane EXCEPT ![driver.at] = "running"] /\ SameFiles
    BY <1>2, <2>1, StoreDoes DEF Claim
  <2>3. disk.lane \in [Lanes -> Status] /\ disk'.lane # NoDb
    BY <1>2, <2>1, <2>2, LanesAreNoBlank DEF TypeOK, HasRow, Board
  <2>4. driver' = [driver EXCEPT !.pc = "call"]
    BY <1>2 DEF Claim, Drive
  <2>5. QED
    BY <1>1, <1>2, <2>2, <2>3, <2>4 DEF HasRow
<1>3. CASE ~HasRow(driver.at)
  <2>1. Connect /\ driver' = [driver EXCEPT !.pc = "raise"]
    BY <1>3 DEF Claim, Drive
  <2>2. CASE disk.lane # NoDb
    BY <1>1, <1>3, <2>1, <2>2, ConnectDoes DEF HasRow
  <2>3. CASE disk.lane = NoDb
    BY <1>1, <1>3, <2>1, <2>3, ConnectDoes DEF HasRow
  <2>4. QED
    BY <2>2, <2>3
<1>4. QED
  BY <1>2, <1>3

LEMMA CompleteDoes ==
    ASSUME TypeOK, PlaceInv, Complete
    PROVE  /\ driver.at \in Lanes /\ SameFiles
           /\ HasRow(driver.at) /\ disk'.lane[driver.at] = "done" /\ disk'.lane # NoDb
           /\ \A i \in Lanes \ {driver.at} : disk'.lane[i] = disk.lane[i]
           /\ \A i \in Lanes : HasRow(i)' <=> HasRow(i)
           /\ driver'.skip = driver.skip
           /\ driver.at = Builder => driver'.pc = "page" /\ driver'.at = driver.at
           /\ driver.at # Builder => driver'.pc = "lane" /\ driver'.at = driver.at + 1
<1>1. driver.at \in Lanes /\ HasRow(driver.at)
  BY DEF Complete, DriverAt, PlaceInv
<1>2. [disk.lane EXCEPT ![driver.at] = "done"] \in [Lanes -> Status]
  BY <1>1 DEF TypeOK, HasRow, Board, Status
<1>3. disk'.lane = [disk.lane EXCEPT ![driver.at] = "done"] /\ SameFiles
  BY <1>2, StoreDoes DEF Complete
<1>4. disk.lane \in [Lanes -> Status] /\ disk'.lane # NoDb
  BY <1>1, <1>2, <1>3, LanesAreNoBlank DEF TypeOK, HasRow, Board
<1>5. /\ driver'.skip = driver.skip
      /\ driver.at = Builder => driver'.pc = "page" /\ driver'.at = driver.at
      /\ driver.at # Builder => driver'.pc = "lane" /\ driver'.at = driver.at + 1
  BY DEF Complete, TypeOK
<1>6. QED
  BY <1>1, <1>3, <1>4, <1>5 DEF HasRow

LEMMA LaneFailsDoes ==
    ASSUME TypeOK, PlaceInv, LaneFails
    PROVE  /\ driver.at \in Lanes /\ driver.pc = "raise" /\ Fail(driver.at)
           /\ driver'.at = driver.at /\ driver'.skip = driver.skip
           /\ driver'.pc = IF driver.narrow THEN "page" ELSE "lost"
           /\ ~driver.narrow => ~driver'.ok
BY DEF LaneFails, DriverAt, PlaceInv, TypeOK

LEMMA RepairDoes ==
    ASSUME TypeOK, PlaceInv, NEW narrow \in BOOLEAN, Repair(narrow)
    PROVE  /\ driver.at \in Lanes /\ driver.at = Builder /\ driver.at \notin driver.skip /\ SameFiles
           /\ driver.pc = "page" /\ driver'.narrow = narrow
           /\ driver'.at = driver.at /\ driver'.skip = driver.skip
           /\ driver'.pc = IF HasRow(driver.at) THEN "call" ELSE "raise"
           /\ HasRow(driver.at)' => HasRow(driver.at) /\ disk'.lane[driver.at] = "running"
           /\ \A i \in Lanes \ {driver.at} :
                  HasRow(i)' => HasRow(i) /\ disk'.lane[i] = disk.lane[i]
           /\ disk.lane # NoDb => /\ disk'.lane # NoDb
                                  /\ \A i \in Lanes : HasRow(i) => HasRow(i)'
           /\ UNCHANGED <<host, row, mirror, sweep, reopen, erase, snap, hist>>
<1>1. /\ driver.at \in Lanes /\ driver.at = Builder /\ driver.at \notin driver.skip
      /\ driver.pc = "page" /\ UNCHANGED <<host, row, mirror, sweep, reopen, erase, snap, hist>>
  BY DEF Repair, DriverAt, PlaceInv
<1>2. CASE HasRow(driver.at)
  <2>1. [disk.lane EXCEPT ![driver.at] = "running"] \in [Lanes -> Status]
    BY <1>2 DEF TypeOK, HasRow, Board, Status
  <2>2. disk'.lane = [disk.lane EXCEPT ![driver.at] = "running"] /\ SameFiles
    BY <1>2, <2>1, StoreDoes DEF Repair
  <2>3. disk.lane \in [Lanes -> Status] /\ disk'.lane # NoDb
    BY <1>2, <2>1, <2>2, LanesAreNoBlank DEF TypeOK, HasRow, Board
  <2>4. /\ driver'.pc = "call" /\ driver'.narrow = narrow
        /\ driver'.at = driver.at /\ driver'.skip = driver.skip
    BY <1>2 DEF Repair, TypeOK
  <2>5. QED
    BY <1>1, <1>2, <2>2, <2>3, <2>4 DEF HasRow
<1>3. CASE ~HasRow(driver.at)
  <2>1. /\ Connect /\ driver'.pc = "raise" /\ driver'.narrow = narrow
        /\ driver'.at = driver.at /\ driver'.skip = driver.skip
    BY <1>3 DEF Repair, TypeOK
  <2>2. CASE disk.lane # NoDb
    BY <1>1, <1>3, <2>1, <2>2, ConnectDoes DEF HasRow
  <2>3. CASE disk.lane = NoDb
    BY <1>1, <1>3, <2>1, <2>3, ConnectDoes DEF HasRow
  <2>4. QED
    BY <2>2, <2>3
<1>4. QED
  BY <1>2, <1>3

\* A write to the output of a lane leaves the lanes and the seal.
Wrote(i) ==
    /\ disk'.lane = disk.lane /\ disk'.sealed = disk.sealed
    /\ disk'.files[i] > disk.files[i] /\ disk'.files[i] > 0
    /\ \A j \in Lanes \ {i} : disk'.files[j] = disk.files[j]

LEMMA WrittenDoes ==
    ASSUME TypeOK, NEW i \in Lanes, disk'.files = Written(i),
           disk'.lane = disk.lane, disk'.sealed = disk.sealed
    PROVE  Wrote(i)
<1>1. disk.files \in [Lanes -> Nat]
  BY DEF TypeOK, Board, Files
<1>2. QED
  BY <1>1 DEF Written, Wrote

LEMMA ProduceDoes ==
    ASSUME TypeOK, PlaceInv, Produce
    PROVE  /\ driver.at \in Lanes /\ driver.at \notin driver.skip /\ Wrote(driver.at)
           /\ driver.pc = "call" /\ driver'.pc = "finish"
           /\ driver'.at = driver.at /\ driver'.skip = driver.skip
           /\ driver'.narrow = driver.narrow
<1>1. driver.at \in Lanes /\ driver.at \notin driver.skip /\ driver.pc = "call"
  BY DEF Produce, DriverAt, PlaceInv
<1>2. disk'.files = Written(driver.at) /\ disk'.lane = disk.lane /\ disk'.sealed = disk.sealed
  BY DEF Produce, TypeOK, Board
<1>3. QED
  BY <1>1, <1>2, WrittenDoes DEF Produce, Drive, TypeOK

LEMMA PatchPageDoes ==
    ASSUME TypeOK, PlaceInv, PatchPage
    PROVE  /\ driver.at \in Lanes /\ driver.at = Builder /\ driver.at \notin driver.skip
           /\ driver.pc = "page" /\ Wrote(driver.at) /\ disk'.dir = disk.dir
           /\ UNCHANGED <<host, row, mirror, threads, snap, hist>>
<1>1. /\ driver.at \in Lanes /\ driver.at = Builder /\ driver.at \notin driver.skip
      /\ driver.pc = "page"
  BY DEF PatchPage, DriverAt, PlaceInv
<1>2. /\ disk'.files = Written(driver.at) /\ disk'.lane = disk.lane
      /\ disk'.sealed = disk.sealed /\ disk'.dir = disk.dir
  BY DEF PatchPage, TypeOK, Board
<1>3. QED
  BY <1>1, <1>2, WrittenDoes DEF PatchPage

LEMMA PageLeftDoes ==
    ASSUME TypeOK, PlaceInv, PageLeft
    PROVE  /\ driver.at \in Lanes /\ driver.at = Builder /\ driver.at \notin driver.skip
           /\ driver.pc = "page" /\ driver'.pc = "lane" /\ driver'.at = driver.at + 1
           /\ driver'.skip = driver.skip /\ driver'.narrow = driver.narrow
BY DEF PageLeft, DriverAt, PlaceInv, TypeOK

LEMMA AllDrivenDoes ==
    ASSUME TypeOK, AllDriven
    PROVE  /\ driver.pc = "lane" /\ driver.at = Last + 1
           /\ driver'.pc = IF kind = "demo" THEN "off" ELSE "end"
           /\ disk' = disk \/ (kind = "demo" /\ disk'.dir /\ Wrote(Builder))
<1>1. CASE kind = "demo" /\ disk.files[Builder] > 0
  <2>1. /\ disk'.files = Written(Builder) /\ disk'.lane = disk.lane
        /\ disk'.sealed = disk.sealed /\ disk'.dir
    BY <1>1 DEF AllDriven, TypeOK, Board
  <2>2. QED
    BY <1>1, <2>1, BuilderType, WrittenDoes DEF AllDriven, DriverAt, Drive, TypeOK
<1>2. CASE ~(kind = "demo" /\ disk.files[Builder] > 0)
  BY <1>2 DEF AllDriven, Untouched, DriverAt, Drive, TypeOK
<1>3. QED
  BY <1>1, <1>2

LEMMA RestoreSchemaDoes ==
    ASSUME TypeOK, PlaceInv, RestoreSchema
    PROVE  /\ boot = "restore" /\ Still /\ driver.pc \in {"new", "off"}
           /\ \/ /\ mirror.there /\ disk.lane = NoDb /\ boot' = "rows"
                 /\ disk'.dir /\ disk'.lane = Blank /\ disk'.files = disk.files
                 /\ disk'.sealed = disk.sealed
              \/ ~(mirror.there /\ disk.lane = NoDb) /\ disk' = disk /\ boot' = "resume"
           /\ UNCHANGED <<kind, row, mirror, threads, snap, hist>>
BY BlankIsLanes DEF RestoreSchema, PlaceInv, Untouched, TypeOK, Board

LEMMA RestoreRowsDoes ==
    ASSUME TypeOK, PlaceInv, RestoreRows
    PROVE  /\ boot = "rows" /\ boot' = "files" /\ Still /\ driver.pc = "off"
           /\ disk.lane = Blank /\ disk'.lane = mirror.lane /\ disk'.lane # NoDb /\ SameFiles
           /\ UNCHANGED <<kind, row, mirror, threads, snap, hist>>
<1>1. mirror.lane \in [Lanes -> Status]
  BY DEF TypeOK, Copy
<1>2. disk'.lane = mirror.lane /\ SameFiles
  BY <1>1, StoreDoes DEF RestoreRows
<1>3. QED
  BY <1>1, <1>2, LanesAreNoBlank DEF RestoreRows, PlaceInv

LEMMA RestoreFilesDoes ==
    ASSUME TypeOK, PlaceInv, RestoreFiles
    PROVE  /\ boot = "files" /\ boot' = "resume" /\ Still /\ driver.pc = "off"
           /\ disk.lane # NoDb /\ disk'.lane = disk.lane /\ disk'.dir = disk.dir
           /\ disk'.sealed = (disk.sealed \/ mirror.sealed)
           /\ \A i \in Lanes : disk'.files[i] = IF mirror.files[i] > 0 THEN mirror.files[i]
                                                ELSE disk.files[i]
           /\ disk'.files \in Files
           /\ UNCHANGED <<kind, row, mirror, threads, snap, hist>>
<1>1. disk'.files = [i \in Lanes |-> IF mirror.files[i] > 0 THEN mirror.files[i]
                                     ELSE disk.files[i]]
  BY DEF RestoreFiles, TypeOK, Board
<1>2. disk'.files \in Files
  BY <1>1 DEF TypeOK, Copy, Board, Files
<1>3. QED
  BY <1>1, <1>2 DEF RestoreFiles, PlaceInv, TypeOK, Board

LEMMA RearmDoes ==
    ASSUME TypeOK, Rearm
    PROVE  /\ SameFiles
           /\ disk.lane # NoDb <=> disk'.lane # NoDb
           /\ \A i \in Lanes : HasRow(i)' => HasRow(i) /\ disk'.lane[i] \in {"todo", "running"}
           /\ \A i \in Lanes : HasRow(i) /\ disk.lane[i] \in Finished => disk'.lane[i] = "todo"
<1>1. CASE disk.lane = NoDb
  BY <1>1 DEF Rearm, Untouched, SameFiles, HasRow
<1>2. CASE disk.lane # NoDb
  <2> DEFINE armed == [i \in Lanes |-> IF disk.lane[i] \in Finished \cup {"blocked"} THEN "todo"
                                       ELSE disk.lane[i]]
  <2>1. armed \in [Lanes -> Status] /\ armed # NoDb
    BY <1>2, LanesAreNoBlank DEF TypeOK, Board, Status
  <2>2. disk'.lane = armed /\ SameFiles
    BY <1>2, <2>1, StoreDoes DEF Rearm
  <2>3. QED
    BY <1>2, <2>1, <2>2 DEF HasRow, TypeOK, Board, Status, Finished
<1>3. QED
  BY <1>1, <1>2

LEMMA LaunchDoes ==
    ASSUME TypeOK, Launch
    PROVE  /\ disk'.dir /\ disk'.lane = [i \in Lanes |-> "todo"] /\ disk'.files = NoFiles
           /\ ~disk'.sealed /\ disk'.lane # NoDb
           /\ driver.pc = "new" /\ driver'.pc = "lane"
           /\ driver'.at = driver.at /\ driver'.skip = driver.skip
<1>1. [i \in Lanes |-> "todo"] # NoDb
  BY LanesAreNoBlank DEF Status
<1>2. disk'.dir /\ disk'.lane = [i \in Lanes |-> "todo"] /\ disk'.files = NoFiles /\ ~disk'.sealed
  BY DEF Launch, NoBoard
<1>3. QED
  BY <1>1, <1>2 DEF Launch, Drive, TypeOK, DriverAt


------------------------------------------------------------------------------
(* The artifacts behind what is done. *)

\* A step that does no more than this leaves every artifact where it is.
KeepsArtifacts ==
    /\ UNCHANGED <<boot, mirror>>
    /\ \A i \in Lanes : disk.files[i] > 0 => disk'.files[i] > 0
    /\ ~hist'.removed /\ ~hist'.torn => ~hist.removed /\ ~hist.torn
    /\ driver'.pc = "finish" => driver.pc = "finish" /\ driver'.at = driver.at
    /\ \A i \in Lanes : HasRow(i)' /\ disk'.lane[i] = "done" => HasRow(i) /\ disk.lane[i] = "done"
    /\ \A a \in Actors : snap'[a] = snap[a] \/ (snap'[a].pc = "tasks" /\ snap'[a].lane = Blank)

LEMMA ArtifactFrame ==
    ASSUME TypeOK, PlaceInv, ArtifactInv, KeepsArtifacts
    PROVE  ArtifactInv'
<1>1. SUFFICES ASSUME ~hist'.removed, ~hist'.torn
               PROVE  ArtifactInv'
  BY DEF ArtifactInv
<1>2. ~hist.removed /\ ~hist.torn
  BY <1>1 DEF KeepsArtifacts
<1>3. \A a \in Actors, i \in Lanes : snap'[a].lane[i] = "done" =>
               \/ snap'[a].pc = "files" /\ disk'.files[i] > 0
               \/ snap'[a].pc \in {"seal", "commit"} /\ snap'[a].files[i] > 0
  <2>1. TAKE a \in Actors, i \in Lanes
  <2>2. CASE snap'[a] = snap[a]
    BY <1>2, <2>2 DEF ArtifactInv, KeepsArtifacts
  <2>3. CASE snap'[a].lane = Blank
    BY <2>3 DEF Blank
  <2>4. QED
    BY <2>2, <2>3 DEF KeepsArtifacts
<1>4. /\ \A i \in Lanes : mirror'.lane[i] = "done" => mirror'.files[i] > 0
      /\ driver'.pc = "finish" => disk'.files[driver'.at] > 0 \/ driver'.at \notin Lanes
  BY <1>2 DEF ArtifactInv, KeepsArtifacts
<1>5. driver'.pc = "finish" => driver'.at \in Lanes
  BY DEF KeepsArtifacts, PlaceInv
<1>6. \A i \in Lanes : HasRow(i)' /\ disk'.lane[i] = "done" =>
               disk'.files[i] > 0 \/ (boot' = "files" /\ mirror'.files[i] > 0)
  BY <1>2 DEF ArtifactInv, KeepsArtifacts
<1>7. QED
  BY <1>3, <1>4, <1>5, <1>6 DEF ArtifactInv

LEMMA ArtifactKept ==
    ASSUME TypeOK, PlaceInv, ArtifactInv, [Next]_vars
    PROVE  ArtifactInv'
<1>0. "driver" \in Actors /\ "sweep" \in Actors /\ "reopen" \in Actors /\ Last \in Lanes
  BY DEF Actors, Lanes
<1>a. driver \in DriverRec /\ disk \in Board /\ mirror \in Copy
  BY DEF TypeOK, DriverRec
<1>1. CASE PassOver
  BY <1>1, <1>0, <1>a, ArtifactFrame
  DEF KeepsArtifacts, HasRow, host, threads, DriverAt, DriverRec, PassOver
<1>2. CASE Claim
  BY <1>2, <1>0, <1>a, ArtifactFrame, ClaimDoes
  DEF KeepsArtifacts, HasRow, host, threads, DriverRec, SameFiles, Claim
<1>3. CASE Produce
  <2>1. UNCHANGED <<boot, mirror, snap, hist>>
    BY <1>3 DEF Produce, host
  <2>2. /\ disk'.lane = disk.lane /\ disk'.files[driver'.at] > 0
        /\ \A i \in Lanes : disk.files[i] > 0 => disk'.files[i] > 0
    BY <1>3, ProduceDoes DEF Wrote
  <2>3. QED
    BY <2>1, <2>2 DEF ArtifactInv, HasRow
<1>4. CASE ProviderFails
  BY <1>4, <1>0, <1>a, ArtifactFrame
  DEF KeepsArtifacts, HasRow, host, threads, Drive, DriverRec, ProviderFails
<1>5. CASE CompleteRaises
  BY <1>5, <1>0, <1>a, ArtifactFrame, ConnectDoes
  DEF KeepsArtifacts, HasRow, host, threads, Drive, DriverRec, SameFiles, CompleteRaises
<1>6. CASE GiveUp
  BY <1>6, <1>0, <1>a, ArtifactFrame, FailDoes
  DEF KeepsArtifacts, HasRow, host, threads, Drive, DriverRec, SameFiles, Untouched, GiveUp
<1>7. CASE AllDriven
  <2>1. UNCHANGED <<boot, mirror, snap, hist>>
    BY <1>7 DEF AllDriven, host
  <2>2. /\ disk'.lane = disk.lane /\ driver'.pc # "finish"
        /\ \A i \in Lanes : disk.files[i] > 0 => disk'.files[i] > 0
    BY <1>7, AllDrivenDoes DEF Wrote
  <2>3. QED
    BY <2>1, <2>2, ArtifactFrame DEF KeepsArtifacts, HasRow
<1>8. CASE Finalize
  BY <1>8, <1>0, <1>a, ArtifactFrame
  DEF KeepsArtifacts, HasRow, host, threads, Drive, DriverRec, Finalize
<1>9. CASE SealPark
  BY <1>9, <1>0, <1>a, ArtifactFrame, ParkDoes
  DEF KeepsArtifacts, HasRow, host, threads, Drive, DriverRec, SameFiles, SealPark
<1>10. CASE Launch
  BY <1>10, <1>0, <1>a, ArtifactFrame, LaunchDoes, MirroringDoes
  DEF KeepsArtifacts, HasRow, host, threads, PlaceInv, NoBoard, NoFiles, Launch
<1>11. CASE Complete
  <2>1. /\ disk.files[driver.at] > 0 \/ hist.removed \/ hist.torn
        /\ UNCHANGED <<boot, mirror>>
    BY <1>11 DEF Complete, DriverAt, ArtifactInv, host
  <2>2. Mirroring("driver")
    BY <1>11 DEF Complete
  <2>3. \A a \in Actors, i \in Lanes : snap'[a].lane[i] = "done" => snap'[a] = snap[a]
    BY <2>2, <1>0, MirroringDoes DEF Blank
  <2>4. driver'.pc # "finish"
    BY <1>11, CompleteDoes
  <2>5. QED
    BY <1>11, <2>1, <2>2, <2>3, <2>4, <1>0, MirroringDoes, CompleteDoes DEF ArtifactInv, SameFiles
<1>12. CASE LaneFails
  <2>1. driver'.pc # "finish" /\ driver.at \in Lanes /\ Fail(driver.at) /\ Mirroring("driver")
    BY <1>12, LaneFailsDoes DEF LaneFails
  <2>2. QED
    BY <1>12, <2>1, <1>0, ArtifactFrame, FailDoes, MirroringDoes
    DEF KeepsArtifacts, HasRow, host, SameFiles, LaneFails
<1>34. CASE \E narrow \in BOOLEAN : Repair(narrow)
  <2>1. PICK narrow \in BOOLEAN : Repair(narrow)
    BY <1>34
  <2>2. QED
    BY <2>1, ArtifactFrame, RepairDoes DEF KeepsArtifacts, HasRow, host, SameFiles
<1>35. CASE PatchPage
  BY <1>35, ArtifactFrame, PatchPageDoes DEF KeepsArtifacts, HasRow, host, threads, Wrote
<1>36. CASE PageLeft
  BY <1>36, ArtifactFrame, PageLeftDoes DEF KeepsArtifacts, HasRow, host, PageLeft
<1>13. CASE SealMark
  BY <1>13, <1>0, <1>a, ArtifactFrame, MarkDoes, MirroringDoes
  DEF KeepsArtifacts, HasRow, host, threads, Drive, DriverRec, SealMark
<1>14. CASE SweepSees
  BY <1>14, <1>0, <1>a, ArtifactFrame DEF KeepsArtifacts, HasRow, host, threads, SweepSees
<1>15. CASE SweepParks
  BY <1>15, <1>0, <1>a, ArtifactFrame, ParkDoes
  DEF KeepsArtifacts, HasRow, host, threads, SameFiles, SweepParks
<1>16. CASE SweepMarks
  BY <1>16, <1>0, <1>a, ArtifactFrame, MarkDoes, MirroringDoes
  DEF KeepsArtifacts, HasRow, host, threads, SweepMarks
<1>17. CASE DeleteDemoBoard
  <2>1. hist'.removed \/ KeepsArtifacts
    BY <1>17, RemovedDoes, InterruptedDoes
    DEF DeleteDemoBoard, Untouched, KeepsArtifacts, HasRow, host
  <2>2. QED
    BY <2>1, ArtifactFrame DEF ArtifactInv
<1>18. CASE SweepPurges
  <2>1. hist'.removed
    BY <1>18, PurgeDoes DEF SweepPurges, PlaceInv, SweepAt
  <2>2. QED
    BY <2>1 DEF ArtifactInv
<1>19. CASE Reopen
  BY <1>19, <1>0, <1>a, ArtifactFrame DEF KeepsArtifacts, HasRow, host, threads, Reopen
<1>20. CASE ReopenRow
  BY <1>20, <1>0, <1>a, ArtifactFrame DEF KeepsArtifacts, HasRow, host, threads, ReopenRow
<1>21. CASE EraseRow
  BY <1>21, <1>0, <1>a, ArtifactFrame DEF KeepsArtifacts, HasRow, host, threads, EraseRow
<1>22. CASE Rearm
  BY <1>22, <1>0, <1>a, ArtifactFrame, RearmDoes, MirroringDoes
  DEF KeepsArtifacts, HasRow, host, threads, SameFiles, Rearm
<1>23. CASE DeleteBoards
  <2>1. hist'.removed \/ KeepsArtifacts
    BY <1>23, RemovedDoes, InterruptedDoes
    DEF DeleteBoards, Untouched, KeepsArtifacts, HasRow, host
  <2>2. QED
    BY <2>1, ArtifactFrame DEF ArtifactInv
<1>24. CASE ErasePurges
  <2>1. hist'.removed
    BY <1>24, PurgeDoes DEF ErasePurges, PlaceInv
  <2>2. QED
    BY <2>1 DEF ArtifactInv
<1>25. CASE RestoreSchema
  <2>1. CASE disk' = disk
    BY <1>25, <2>1, RestoreSchemaDoes DEF ArtifactInv, HasRow, threads
  <2>2. CASE disk' # disk
    <3>1. \A i \in Lanes : ~HasRow(i)'
      BY <1>25, <2>2, RestoreSchemaDoes DEF HasRow, Blank
    <3>2. QED
      BY <1>25, <2>2, <3>1, RestoreSchemaDoes DEF ArtifactInv, threads
  <2>3. QED
    BY <2>1, <2>2
<1>37. CASE RestoreRows
  <2>1. driver'.pc # "finish"
    BY <1>37, RestoreRowsDoes DEF threads
  <2>2. /\ disk'.lane = mirror.lane /\ boot' = "files" /\ UNCHANGED <<mirror, snap, hist>>
        /\ \A a \in Actors : snap[a].pc = "off"
    BY <1>37, RestoreRowsDoes DEF Still, Busy
  <2>3. QED
    BY <2>1, <2>2 DEF ArtifactInv
<1>26. CASE RestoreFiles
  <2>1. driver'.pc # "finish"
    BY <1>26, RestoreFilesDoes DEF threads
  <2>2. QED
    BY <1>26, <2>1, RestoreFilesDoes DEF ArtifactInv, HasRow
<1>38. CASE RestoreFails
  <2>1. boot # "files" /\ driver'.pc # "finish" /\ UNCHANGED <<disk, mirror, snap, hist>>
    BY <1>38 DEF RestoreFails, PlaceInv, threads
  <2>2. QED
    BY <2>1 DEF ArtifactInv, HasRow
<1>27. CASE Resume
  <2>1. boot # "files" /\ driver'.pc # "finish" /\ UNCHANGED <<disk, mirror, snap, hist>>
    BY <1>27 DEF Resume, PlaceInv
  <2>2. QED
    BY <2>1 DEF ArtifactInv, HasRow
<1>28. CASE Tick
  BY <1>28, <1>0, <1>a, ArtifactFrame DEF KeepsArtifacts, HasRow, host, threads, Tick
<1>29. CASE \E a \in Actors : SnapshotTasks(a) \/ SnapshotFiles(a) \/ SealFlag(a)
  <2>1. PICK a \in Actors : SnapshotTasks(a) \/ SnapshotFiles(a) \/ SealFlag(a)
    BY <1>29
  <2>2. UNCHANGED <<boot, disk, mirror, driver, hist>> /\ boot = "up"
    BY <2>1, ReadDoes DEF host, threads, PlaceInv, Still, Busy
  <2>3. SUFFICES ASSUME ~hist.removed, ~hist.torn, NEW b \in Actors, NEW i \in Lanes,
                        snap'[b].lane[i] = "done"
                 PROVE  \/ snap'[b].pc = "files" /\ disk.files[i] > 0
                        \/ snap'[b].pc \in {"seal", "commit"} /\ snap'[b].files[i] > 0
    BY <2>2 DEF ArtifactInv, HasRow
  <2>4. CASE b # a
    BY <2>1, <2>3, <2>4, ReadDoes DEF ArtifactInv
  <2>5. CASE b = a
    <3>1. CASE SnapshotTasks(a)
      <4>1. snap'[a].pc = "files" /\ HasRow(i) /\ disk.lane[i] = "done"
        BY <2>3, <2>5, <3>1, ReadDoes DEF HasRow, Blank
      <4>2. QED
        BY <2>2, <2>3, <2>5, <4>1 DEF ArtifactInv
    <3>2. CASE SnapshotFiles(a)
      BY <2>3, <2>5, <3>2, ReadDoes DEF ArtifactInv
    <3>3. CASE SealFlag(a)
      BY <2>3, <2>5, <3>3, ReadDoes DEF ArtifactInv
    <3>4. QED
      BY <2>1, <3>1, <3>2, <3>3
  <2>6. QED
    BY <2>4, <2>5
<1>30. CASE \E a \in Actors : Commit(a)
  <2>1. PICK a \in Actors : Commit(a)
    BY <1>30
  <2>2. UNCHANGED <<boot, disk, driver>> /\ boot = "up" /\ snap[a].pc = "commit"
    BY <2>1 DEF Commit, host, threads, PlaceInv, Still, Busy
  <2>3. \A b \in Actors, i \in Lanes : snap'[b].lane[i] = "done" => snap'[b] = snap[b]
    BY <2>1, CommitDoes DEF Blank
  <2>4. QED
    BY <2>1, <2>2, <2>3, CommitDoes DEF ArtifactInv, HasRow
<1>39. CASE \E a \in Actors : CommitFails(a)
  <2>1. PICK a \in Actors : CommitFails(a)
    BY <1>39
  <2>2. \A b \in Actors, i \in Lanes : snap'[b].lane[i] = "done" => snap'[b] = snap[b]
    BY <2>1, CommitFailsDoes DEF Blank
  <2>3. QED
    BY <2>1, <2>2, CommitFailsDoes DEF ArtifactInv, HasRow, host, threads
<1>31. CASE \E wiped \in BOOLEAN : Restart(wiped)
  <2>1. PICK wiped \in BOOLEAN : Restart(wiped)
    BY <1>31
  <2>2. /\ driver'.pc # "finish" /\ disk' = IF wiped THEN NoBoard ELSE disk
        /\ hist'.removed = hist.removed /\ hist'.torn = (hist.torn \/ (~wiped /\ boot \in {"rows", "files"}))
        /\ UNCHANGED mirror
    BY <2>1, RestartDoes DEF Restart
  <2>3. \A a \in Actors, i \in Lanes : snap'[a].lane[i] # "done"
    BY <2>1, RestartDoes, NoSnapshotType DEF Blank
  <2>4. QED
    BY <2>2, <2>3, NoBoardType DEF ArtifactInv, HasRow
<1>32. CASE UNCHANGED vars
  BY <1>32 DEF vars, ArtifactInv, HasRow
<1>33. QED
  BY <1>1, <1>2, <1>3, <1>4, <1>5, <1>6, <1>7, <1>8, <1>9, <1>10, <1>11, <1>12, <1>13,
     <1>14, <1>15, <1>16, <1>17, <1>18, <1>19, <1>20, <1>21, <1>22, <1>23, <1>24, <1>25,
     <1>26, <1>27, <1>28, <1>29, <1>30, <1>31, <1>32, <1>34, <1>35, <1>36, <1>37, <1>38, <1>39
  DEF Next, DriverStep, SweepStep, RequestStep, BootStep, SnapshotStep


------------------------------------------------------------------------------
(* The lanes ahead of the driver. *)

KeepsAhead ==
    driver'.pc \in Driving =>
        /\ driver.pc \in Driving /\ driver'.skip = driver.skip /\ driver'.at >= driver.at
        /\ driver.pc = "page" => driver'.pc = "page" \/ driver'.at > driver.at
        /\ \A i \in Lanes : HasRow(i)' /\ disk'.lane[i] \in Finished =>
               \/ HasRow(i) /\ disk.lane[i] \in Finished
               \/ driver'.pc = "page" /\ driver'.at = i
               \/ driver'.at > i

LEMMA AheadFrame ==
    ASSUME TypeOK, TypeOK', AheadInv, KeepsAhead
    PROVE  AheadInv'
<1>1. SUFFICES ASSUME driver'.pc \in Driving,
                      NEW i \in (driver'.at)..Last, i \notin Behind', i \notin driver'.skip,
                      HasRow(i)', disk'.lane[i] \in Finished
               PROVE  FALSE
  BY DEF AheadInv
<1>2. driver.at \in 1..(Last + 1) /\ driver'.at \in 1..(Last + 1)
  BY DEF TypeOK
<1>3. i \in Lanes /\ i >= driver'.at /\ i >= driver.at
  BY <1>1, <1>2 DEF KeepsAhead, Lanes
<1>4. ~(driver'.pc = "page" /\ driver'.at = i) /\ i \notin driver.skip
  BY <1>1, <1>3 DEF KeepsAhead, Behind
<1>5. ~(driver.pc = "page" /\ driver.at = i)
  BY <1>1, <1>2, <1>3, <1>4 DEF KeepsAhead
<1>6. i \notin Behind
  BY <1>2, <1>3, <1>5 DEF Behind
<1>7. HasRow(i) /\ disk.lane[i] \in Finished
  BY <1>1, <1>2, <1>3, <1>4 DEF KeepsAhead, Lanes
<1>8. i \in (driver.at)..Last \ (Behind \cup driver.skip)
  BY <1>2, <1>3, <1>4, <1>6 DEF Lanes
<1>9. QED
  BY <1>1, <1>7, <1>8 DEF AheadInv, KeepsAhead

LEMMA AheadKept ==
    ASSUME TypeOK, TypeOK', PlaceInv, AheadInv, [Next]_vars
    PROVE  AheadInv'
<1>0. Last \in Lanes
  BY DEF Lanes
<1>a. driver \in DriverRec /\ disk \in Board /\ driver.at \in Int /\ driver'.at \in Int
  BY DEF TypeOK, DriverRec
<1>1. CASE PassOver
  BY <1>1, <1>0, <1>a, AheadFrame
  DEF KeepsAhead, HasRow, host, threads, Driving, DriverAt, DriverRec, PassOver
<1>2. CASE Claim
  BY <1>2, <1>0, <1>a, AheadFrame, ClaimDoes
  DEF KeepsAhead, HasRow, host, threads, Driving, DriverAt, DriverRec, Claim, Finished
<1>3. CASE Produce
  BY <1>3, <1>a, AheadFrame, ProduceDoes DEF KeepsAhead, HasRow, Driving, Wrote
<1>4. CASE ProviderFails
  BY <1>4, <1>0, <1>a, AheadFrame
  DEF KeepsAhead, HasRow, host, threads, Driving, DriverAt, Drive, DriverRec, ProviderFails
<1>5. CASE CompleteRaises
  BY <1>5, <1>0, <1>a, AheadFrame, ConnectDoes
  DEF KeepsAhead, HasRow, host, threads, Driving, DriverAt, Drive, DriverRec, CompleteRaises
<1>6. CASE GiveUp
  BY <1>6, <1>a DEF AheadInv, Driving, Drive, DriverRec, GiveUp
<1>7. CASE AllDriven
  BY <1>7, AllDrivenDoes DEF AheadInv, Driving
<1>8. CASE Finalize
  BY <1>8, <1>a DEF AheadInv, Driving, Drive, DriverRec, Finalize
<1>9. CASE SealPark
  BY <1>9, <1>a DEF AheadInv, Driving, Drive, DriverRec, SealPark
<1>10. CASE Launch
  BY <1>10, LaunchDoes DEF AheadInv, Lanes, Finished, TypeOK
<1>11. CASE Complete
  <2>1. driver.pc = "finish"
    BY <1>11 DEF Complete, DriverAt
  <2>2. driver'.at >= driver.at /\ driver'.skip = driver.skip
    BY <1>11, <1>a, CompleteDoes
  <2>3. (driver'.pc = "page" /\ driver'.at = driver.at) \/ driver'.at > driver.at
    BY <1>11, <1>a, CompleteDoes
  <2>4. \A i \in Lanes \ {driver.at} : disk'.lane[i] = disk.lane[i] /\ (HasRow(i)' <=> HasRow(i))
    BY <1>11, CompleteDoes
  <2>5. KeepsAhead
    BY <2>1, <2>2, <2>3, <2>4 DEF KeepsAhead, Driving
  <2>6. QED
    BY <2>5, AheadFrame
<1>12. CASE LaneFails
  <2>1. CASE driver.narrow
    <3>1. /\ driver.pc = "raise" /\ driver'.pc = "page"
          /\ driver'.at = driver.at /\ driver'.skip = driver.skip
          /\ driver.at \in Lanes /\ Fail(driver.at)
      BY <1>12, <2>1, LaneFailsDoes
    <3>2. KeepsAhead
      BY <3>1, <1>a, FailDoes DEF KeepsAhead, Driving
    <3>3. QED
      BY <3>2, AheadFrame
  <2>2. CASE ~driver.narrow
    BY <1>12, <2>2, LaneFailsDoes DEF AheadInv, Driving
  <2>3. QED
    BY <2>1, <2>2
<1>34. CASE \E narrow \in BOOLEAN : Repair(narrow)
  <2>1. PICK narrow \in BOOLEAN : Repair(narrow)
    BY <1>34
  <2>2. SUFFICES ASSUME NEW i \in (driver'.at)..Last, i \notin Behind', i \notin driver'.skip,
                        HasRow(i)', disk'.lane[i] \in Finished
                 PROVE  FALSE
    BY DEF AheadInv
  <2>3. /\ driver.pc = "page" /\ driver.at \in Lanes /\ driver'.at = driver.at
        /\ driver'.skip = driver.skip
    BY <2>1, RepairDoes
  <2>4. i \in Lanes
    BY <2>2, <2>3 DEF Lanes
  <2>5. i # driver.at
    BY <2>1, <2>2, RepairDoes DEF Finished
  <2>6. HasRow(i) /\ disk.lane[i] \in Finished
    BY <2>1, <2>2, <2>4, <2>5, RepairDoes
  <2>7. i \notin Behind
    BY <2>2, <2>3, <2>5, <1>a DEF Behind
  <2>8. i \in (driver.at)..Last \ (Behind \cup driver.skip)
    BY <2>2, <2>3, <2>7
  <2>9. QED
    BY <2>3, <2>6, <2>8 DEF AheadInv, Driving
<1>35. CASE PatchPage
  BY <1>35, <1>a, AheadFrame, PatchPageDoes DEF KeepsAhead, HasRow, Wrote, threads
<1>36. CASE PageLeft
  BY <1>36, <1>a, AheadFrame, PageLeftDoes DEF KeepsAhead, HasRow, Driving, PageLeft
<1>13. CASE SealMark
  BY <1>13, <1>a DEF AheadInv, Driving, Drive, DriverRec, SealMark
<1>14. CASE SweepSees
  BY <1>14, <1>0, <1>a, AheadFrame DEF KeepsAhead, HasRow, host, threads, Driving, SweepSees
<1>15. CASE SweepParks
  BY <1>15, <1>0, <1>a, AheadFrame, ParkDoes
  DEF KeepsAhead, HasRow, host, threads, Driving, Finished, SweepParks
<1>16. CASE SweepMarks
  BY <1>16, <1>0, <1>a, AheadFrame, MarkDoes
  DEF KeepsAhead, HasRow, host, threads, Driving, SweepMarks
<1>17. CASE DeleteDemoBoard
  <2>1. disk'.lane \in {disk.lane, NoDb} /\ UNCHANGED driver
    BY <1>17, <1>a, RemovedDoes, InterruptedDoes, NoBoardType
    DEF DeleteDemoBoard, Untouched, host, Board
  <2>2. KeepsAhead
    BY <2>1, <1>a DEF KeepsAhead, HasRow
  <2>3. QED
    BY <2>2, AheadFrame
<1>18. CASE SweepPurges
  BY <1>18, <1>0, <1>a, AheadFrame DEF KeepsAhead, HasRow, host, threads, Driving, SweepPurges
<1>19. CASE Reopen
  BY <1>19, <1>0, <1>a, AheadFrame DEF KeepsAhead, HasRow, host, threads, Driving, Reopen
<1>20. CASE ReopenRow
  BY <1>20, <1>0, <1>a, AheadFrame DEF KeepsAhead, HasRow, host, threads, Driving, ReopenRow
<1>21. CASE EraseRow
  BY <1>21, <1>0, <1>a, AheadFrame DEF KeepsAhead, HasRow, host, threads, Driving, EraseRow
<1>22. CASE Rearm
  BY <1>22, <1>0, <1>a, AheadFrame, RearmDoes
  DEF KeepsAhead, HasRow, host, threads, Driving, Finished, Rearm
<1>23. CASE DeleteBoards
  <2>1. disk'.lane \in {disk.lane, NoDb} /\ UNCHANGED driver
    BY <1>23, <1>a, RemovedDoes, InterruptedDoes, NoBoardType
    DEF DeleteBoards, Untouched, host, Board
  <2>2. KeepsAhead
    BY <2>1, <1>a DEF KeepsAhead, HasRow
  <2>3. QED
    BY <2>2, AheadFrame
<1>24. CASE ErasePurges
  BY <1>24, <1>0, <1>a, AheadFrame DEF KeepsAhead, HasRow, host, threads, Driving, ErasePurges
<1>25. CASE RestoreSchema \/ RestoreFails
  BY <1>25 DEF AheadInv, Driving, PlaceInv, threads, RestoreSchema, RestoreFails
<1>37. CASE RestoreRows
  BY <1>37 DEF AheadInv, Driving, PlaceInv, threads, RestoreRows
<1>26. CASE RestoreFiles
  BY <1>26 DEF AheadInv, Driving, PlaceInv, threads, RestoreFiles
<1>27. CASE Resume
  <2>1. driver'.pc \notin Driving \/ (driver'.skip = Skipped /\ driver'.at = 1)
    BY <1>27 DEF Resume, PlaceInv, Driving
  <2>2. UNCHANGED disk
    BY <1>27 DEF Resume
  <2>3. QED
    BY <2>1, <2>2 DEF AheadInv, Skipped, HasRow, Lanes
<1>28. CASE Tick
  BY <1>28, <1>0, <1>a, AheadFrame DEF KeepsAhead, HasRow, host, threads, Driving, Tick
<1>29. CASE \E a \in Actors : SnapshotTasks(a) \/ SnapshotFiles(a) \/ SealFlag(a)
  BY <1>29, <1>a, ReadDoes, AheadFrame DEF KeepsAhead, HasRow, threads, Driving
<1>30. CASE \E a \in Actors : Commit(a) \/ CommitFails(a)
  BY <1>30, <1>0, <1>a, AheadFrame
  DEF KeepsAhead, HasRow, host, threads, Driving, Commit, CommitFails
<1>31. CASE \E wiped \in BOOLEAN : Restart(wiped)
  <2>1. driver'.pc \in {"new", "off"}
    BY <1>31, RestartDoes
  <2>2. QED
    BY <2>1 DEF AheadInv, Driving
<1>32. CASE UNCHANGED vars
  BY <1>32 DEF vars, AheadInv, HasRow, Behind
<1>33. QED
  BY <1>1, <1>2, <1>3, <1>4, <1>5, <1>6, <1>7, <1>8, <1>9, <1>10, <1>11, <1>12, <1>13,
     <1>14, <1>15, <1>16, <1>17, <1>18, <1>19, <1>20, <1>21, <1>22, <1>23, <1>24, <1>25,
     <1>26, <1>27, <1>28, <1>29, <1>30, <1>31, <1>32, <1>34, <1>35, <1>36, <1>37
  DEF Next, DriverStep, SweepStep, RequestStep, BootStep, SnapshotStep


------------------------------------------------------------------------------
(* The lanes behind the driver of a project that nobody reopened. *)

Alone == kind = "project" /\ ~hist.reopened /\ ~hist.removed
DrivenAlone == Alone /\ driver.pc \in Driving
Over(i) == HasRow(i) /\ disk.lane[i] \in Finished

KeepsBehind ==
    DrivenAlone' =>
        /\ DrivenAlone /\ driver'.skip = driver.skip
        /\ \A i \in Behind' : i \in Behind \cup driver.skip
        /\ UNCHANGED mirror /\ snap'["driver"] = snap["driver"] /\ hist'.missed = hist.missed
        /\ \A i \in Behind \cup driver.skip : Over(i) => Over(i)'
        /\ driver'.narrow => driver.narrow /\ driver'.at = driver.at
                             /\ (HasRow(driver.at) => HasRow(driver.at)')

LEMMA BehindFrame ==
    ASSUME TypeOK, BehindInv, KeepsBehind
    PROVE  BehindInv'
<1>1. SUFFICES ASSUME DrivenAlone'
               PROVE  BehindInv'
  BY DEF BehindInv, DrivenAlone, Alone
<1>2. /\ DrivenAlone /\ driver'.skip = driver.skip
      /\ \A i \in Behind' : i \in Behind \cup driver.skip
      /\ UNCHANGED mirror /\ snap'["driver"] = snap["driver"] /\ hist'.missed = hist.missed
      /\ \A i \in Behind \cup driver.skip : Over(i) => Over(i)'
  BY <1>1 DEF KeepsBehind
<1>3. \A i \in Behind' \cup driver'.skip : Over(i)'
  BY <1>2 DEF BehindInv, DrivenAlone, Alone, Over
<1>4. \A i \in Behind' \ driver'.skip :
          /\ ~Busy("driver")' /\ ~hist'.missed => mirror'.lane[i] \in Finished
          /\ snap'["driver"].pc \in Read => snap'["driver"].lane[i] \in Finished
  BY <1>2 DEF BehindInv, DrivenAlone, Alone, Busy
<1>6. driver'.narrow => HasRow(driver.at)'
  BY <1>1, <1>2 DEF KeepsBehind, BehindInv, DrivenAlone, Alone
<1>7. QED
  BY <1>3, <1>4, <1>6 DEF BehindInv, Over

\* The lanes behind a driver that is at a lane, and at a page.
LEMMA BehindIs ==
    ASSUME TypeOK
    PROVE  /\ driver.pc # "page" => Behind = 1..(driver.at - 1)
           /\ driver.pc = "page" /\ driver.at \in Lanes => Behind = 1..driver.at
           /\ \A i \in 1..(driver.at - 1) : i \in Lanes /\ i # driver.at /\ i < driver.at
<1>1. driver.at \in 1..(Last + 1) /\ Last \in Nat
  BY MirrorAssumption DEF TypeOK
<1>2. QED
  BY <1>1 DEF Behind, Lanes

LEMMA BehindKept ==
    ASSUME TypeOK, TypeOK', PlaceInv, BehindInv, [Next]_vars
    PROVE  BehindInv'
<1>0. "driver" \in Actors /\ "sweep" \in Actors /\ "reopen" \in Actors
  BY DEF Actors
<1>a. driver \in DriverRec /\ disk \in Board /\ driver.at \in 1..(Last + 1) /\ Last \in Nat
  BY MirrorAssumption DEF TypeOK, DriverRec
<1>b. driver'.at \in 1..(Last + 1)
  BY DEF TypeOK
<1>1. CASE PassOver
  <2>1. /\ driver'.at = driver.at + 1 /\ driver'.skip = driver.skip /\ driver.at \in driver.skip
        /\ UNCHANGED <<kind, disk, mirror, snap, used, hist>> /\ driver.pc = "lane"
        /\ driver'.pc = "lane" /\ driver'.narrow = driver.narrow
    BY <1>1, <1>a DEF PassOver, DriverAt, DriverRec, host
  <2>2. \A i \in Behind' : i \in Behind \cup driver.skip
    BY <2>1, <1>a DEF Behind
  <2>3. ~driver'.narrow
    BY <2>1 DEF PlaceInv
  <2>4. QED
    BY <2>1, <2>2, <2>3, BehindFrame DEF KeepsBehind, DrivenAlone, Alone, Over, HasRow, Driving
<1>2. CASE Claim
  <2>1. /\ driver.at \in Lanes /\ driver.at \notin driver.skip
        /\ driver'.at = driver.at /\ driver'.skip = driver.skip
        /\ driver'.narrow = driver.narrow /\ driver.pc = "lane" /\ driver'.pc # "page"
        /\ UNCHANGED <<kind, mirror, snap, used, hist>>
    BY <1>2, <1>a, ClaimDoes DEF Claim, DriverAt, DriverRec, host
  <2>2. Behind' = Behind
    BY <2>1 DEF Behind
  <2>3. \A i \in Behind \cup driver.skip : i \in Lanes \ {driver.at}
    BY <2>1, <1>a, BehindIs DEF DriverRec
  <2>4. \A i \in Behind \cup driver.skip : Over(i) => Over(i)'
    BY <1>2, <2>3, ClaimDoes DEF Over, HasRow
  <2>5. ~driver'.narrow
    BY <2>1 DEF PlaceInv
  <2>6. QED
    BY <2>1, <2>2, <2>4, <2>5, BehindFrame DEF KeepsBehind, DrivenAlone, Alone, Driving
<1>3. CASE Produce
  <2>1. UNCHANGED <<kind, mirror, snap, used, hist>>
    BY <1>3 DEF Produce, host
  <2>2. Behind' = Behind /\ disk'.lane = disk.lane
    BY <1>3, ProduceDoes DEF Behind, Wrote
  <2>3. QED
    BY <1>3, <2>1, <2>2, ProduceDoes, BehindFrame
    DEF KeepsBehind, DrivenAlone, Alone, Over, HasRow, Driving
<1>4. CASE ProviderFails
  <2>1. Behind' = Behind
    BY <1>4, <1>a DEF ProviderFails, DriverAt, Drive, DriverRec, Behind
  <2>2. QED
    BY <1>4, <2>1, <1>a, BehindFrame
    DEF KeepsBehind, DrivenAlone, Alone, Over, HasRow, host, Driving, DriverAt, Drive, DriverRec,
        ProviderFails
<1>5. CASE CompleteRaises
  <2>1. /\ driver.pc = "finish" /\ driver'.pc = "raise" /\ driver'.at = driver.at
        /\ driver'.skip = driver.skip /\ driver'.narrow = driver.narrow
        /\ UNCHANGED <<kind, mirror, snap, used, hist>> /\ Connect
    BY <1>5, <1>a DEF CompleteRaises, DriverAt, Drive, DriverRec, host
  <2>2. Behind' = Behind
    BY <2>1 DEF Behind
  <2>3. \A i \in Lanes : HasRow(i) => disk' = disk
    BY <2>1, ConnectDoes DEF HasRow
  <2>4. \A i : HasRow(i) => disk' = disk
    BY <2>1, ConnectDoes DEF HasRow
  <2>5. QED
    BY <2>1, <2>2, <2>4, BehindFrame DEF KeepsBehind, DrivenAlone, Alone, Over, HasRow, Driving
<1>6. CASE GiveUp
  BY <1>6, <1>a DEF BehindInv, Driving, Drive, DriverRec, GiveUp
<1>7. CASE AllDriven
  BY <1>7, AllDrivenDoes DEF BehindInv, Driving
<1>8. CASE Finalize
  BY <1>8, <1>a DEF BehindInv, Driving, Drive, DriverRec, Finalize
<1>9. CASE SealPark
  BY <1>9, <1>a DEF BehindInv, Driving, Drive, DriverRec, SealPark
<1>10. CASE Launch
  <2>1. driver'.pc = "lane" /\ driver'.at = 1 /\ driver'.skip = {} /\ ~driver'.narrow
    BY <1>10, <1>a DEF Launch, DriverAt, Drive, DriverRec, PlaceInv
  <2>2. Behind' = {}
    BY <2>1 DEF Behind
  <2>3. QED
    BY <2>1, <2>2 DEF BehindInv
<1>11. CASE Complete
  <2>1. SUFFICES ASSUME DrivenAlone'
                 PROVE  BehindInv'
    BY DEF BehindInv, DrivenAlone, Alone
  <2>2. /\ driver.pc = "finish" /\ ~Busy("driver") /\ Mirroring("driver")
        /\ UNCHANGED <<kind, mirror, used>>
    BY <1>11 DEF Complete, DriverAt, host
  <2>3. /\ snap'["driver"].pc = "tasks" /\ hist'.removed = hist.removed
        /\ hist'.reopened = hist.reopened
    BY <2>2, <1>0, MirroringDoes
  <2>4. DrivenAlone
    BY <2>1, <2>2, <2>3 DEF DrivenAlone, Alone, Driving
  <2>5. driver.at \in Lanes /\ driver'.skip = driver.skip /\ Behind' = 1..driver.at
    BY <1>11, <1>a, CompleteDoes DEF Behind
  <2>6. \A i \in Behind' \cup driver'.skip : i \in Lanes
    BY <2>5, <1>a DEF DriverRec, Lanes
  <2>7. \A i \in Behind' \cup driver'.skip : i # driver.at => i \in Behind \cup driver.skip
    BY <2>5, <1>a DEF Behind, Lanes
  <2>8. \A i \in Behind' \cup driver'.skip : HasRow(i)' /\ disk'.lane[i] \in Finished
    <3>1. TAKE i \in Behind' \cup driver'.skip
    <3>2. CASE i = driver.at
      BY <1>11, <3>2, CompleteDoes DEF Finished
    <3>3. CASE i # driver.at
      <4>1. HasRow(i) /\ disk.lane[i] \in Finished
        BY <2>4, <2>7, <3>3 DEF BehindInv, DrivenAlone, Alone
      <4>2. QED
        BY <1>11, <2>6, <3>3, <4>1, CompleteDoes
    <3>4. QED
      BY <3>2, <3>3
  <2>9. Busy("driver")' /\ snap'["driver"].pc \notin Read
    BY <2>3 DEF Busy, Read
  <2>10. driver'.narrow => HasRow(driver.at)'
    <3>1. CASE driver.at = Builder
      BY <1>11, <3>1, <1>a DEF Complete, DriverRec
    <3>2. CASE driver.at # Builder
      BY <1>11, <2>2, <3>2, <1>a DEF Complete, DriverRec, PlaceInv, Driving
    <3>3. QED
      BY <3>1, <3>2
  <2>11. QED
    BY <2>8, <2>9, <2>10 DEF BehindInv
<1>12. CASE LaneFails
  <2>1. CASE driver.narrow
    <3>1. SUFFICES ASSUME DrivenAlone'
                   PROVE  BehindInv'
      BY DEF BehindInv, DrivenAlone, Alone
    <3>2. /\ driver.pc = "raise" /\ driver'.pc = "page" /\ driver.at \in Lanes
          /\ driver'.at = driver.at /\ driver'.skip = driver.skip /\ Fail(driver.at)
          /\ UNCHANGED <<kind, mirror>> /\ Mirroring("driver") /\ ~driver'.narrow
      BY <1>12, <2>1, <1>a, LaneFailsDoes DEF LaneFails, host, DriverRec
    <3>3. /\ snap'["driver"].pc = "tasks" /\ hist'.removed = hist.removed
          /\ hist'.reopened = hist.reopened
      BY <3>2, <1>0, MirroringDoes
    <3>4. DrivenAlone
      BY <3>1, <3>2, <3>3 DEF DrivenAlone, Alone, Driving
    <3>5. HasRow(driver.at) /\ Behind' = 1..driver.at /\ Behind = 1..(driver.at - 1)
      BY <2>1, <3>2, <3>4, <1>a DEF BehindInv, DrivenAlone, Alone, Behind
    <3>6. disk'.lane = [disk.lane EXCEPT ![driver.at] = "failed"] /\ disk'.lane # NoDb
      BY <3>2, <3>5, FailDoes, <1>a DEF Fail, Store, Board, HasRow
    <3>7. disk.lane \in [Lanes -> Status] /\ disk.lane # NoDb
      BY <3>5, <1>a DEF Board, HasRow
    <3>8. \A i \in Behind' \cup driver'.skip : HasRow(i)' /\ disk'.lane[i] \in Finished
      <4>1. TAKE i \in Behind' \cup driver'.skip
      <4>2. CASE i = driver.at
        BY <3>2, <3>6, <3>7, <4>2 DEF HasRow, Finished
      <4>3. CASE i # driver.at
        <5>1. i \in Behind \cup driver.skip /\ i \in Lanes
          BY <3>2, <3>5, <4>3, <1>a DEF DriverRec, Lanes
        <5>2. HasRow(i) /\ disk.lane[i] \in Finished
          BY <3>4, <5>1 DEF BehindInv, DrivenAlone, Alone
        <5>3. QED
          BY <3>6, <3>7, <4>3, <5>1, <5>2 DEF HasRow
      <4>4. QED
        BY <4>2, <4>3
    <3>9. Busy("driver")' /\ snap'["driver"].pc \notin Read
      BY <3>3 DEF Busy, Read
    <3>10. QED
      BY <3>2, <3>8, <3>9 DEF BehindInv
  <2>2. CASE ~driver.narrow
    BY <1>12, <2>2, LaneFailsDoes DEF BehindInv, Driving
  <2>3. QED
    BY <2>1, <2>2
<1>34. CASE \E narrow \in BOOLEAN : Repair(narrow)
  <2>1. PICK narrow \in BOOLEAN : Repair(narrow)
    BY <1>34
  <2>2. SUFFICES ASSUME DrivenAlone'
                 PROVE  BehindInv'
    BY DEF BehindInv, DrivenAlone, Alone
  <2>3. /\ driver.at \in Lanes /\ driver.at \notin driver.skip /\ driver.pc = "page"
        /\ driver'.at = driver.at /\ driver'.skip = driver.skip /\ driver'.pc \in {"call", "raise"}
        /\ UNCHANGED <<kind, mirror, snap, hist>>
    BY <2>1, RepairDoes DEF host
  <2>4. DrivenAlone
    BY <2>2, <2>3 DEF DrivenAlone, Alone, Driving
  <2>5. Behind' = 1..(driver.at - 1) /\ Behind = 1..driver.at
    BY <2>3, <1>a DEF Behind
  <2>6. \A i \in Behind' \cup driver'.skip :
            i \in Behind \cup driver.skip /\ i \in Lanes /\ i # driver.at
    BY <2>3, <2>5, <1>a DEF DriverRec, Lanes
  <2>7. \A i \in Behind \cup driver.skip : HasRow(i) /\ disk.lane[i] \in Finished
    BY <2>4 DEF BehindInv, DrivenAlone, Alone
  <2>8. HasRow(driver.at) /\ disk.lane # NoDb
    BY <2>3, <2>5, <2>7, <1>a DEF HasRow, Lanes
  <2>9. /\ HasRow(driver.at)'
        /\ \A i \in Lanes : HasRow(i) => HasRow(i)'
        /\ \A i \in Lanes \ {driver.at} : HasRow(i)' => disk'.lane[i] = disk.lane[i]
    BY <2>1, <2>3, <2>8, RepairDoes DEF HasRow
  <2>10. \A i \in Behind' \cup driver'.skip : HasRow(i)' /\ disk'.lane[i] \in Finished
    BY <2>6, <2>7, <2>9
  <2>11. \A i \in Behind' \ driver'.skip :
             /\ ~Busy("driver")' /\ ~hist'.missed => mirror'.lane[i] \in Finished
             /\ snap'["driver"].pc \in Read => snap'["driver"].lane[i] \in Finished
    BY <2>3, <2>4, <2>6 DEF BehindInv, DrivenAlone, Alone, Busy
  <2>12. QED
    BY <2>9, <2>10, <2>11 DEF BehindInv
<1>35. CASE PatchPage
  <2>1. /\ disk'.lane = disk.lane /\ UNCHANGED <<kind, mirror, driver, snap, hist>>
    BY <1>35, PatchPageDoes DEF Wrote, host, threads
  <2>2. QED
    BY <2>1, BehindFrame DEF KeepsBehind, DrivenAlone, Alone, Over, HasRow, Behind
<1>36. CASE PageLeft
  <2>1. /\ UNCHANGED <<kind, disk, mirror, snap, hist>> /\ driver'.skip = driver.skip
        /\ ~driver'.narrow /\ driver.pc = "page"
    BY <1>36, PageLeftDoes DEF PageLeft, host, PlaceInv
  <2>2. Behind' = Behind
    BY <1>36, PageLeftDoes, <1>a DEF Behind
  <2>3. QED
    BY <2>1, <2>2, BehindFrame DEF KeepsBehind, DrivenAlone, Alone, Over, HasRow, Driving
<1>13. CASE SealMark
  BY <1>13, <1>a DEF BehindInv, Driving, Drive, DriverRec, SealMark
<1>14. CASE SweepSees
  BY <1>14 DEF BehindInv, PlaceInv, SweepAt, host, SweepSees
<1>15. CASE SweepParks
  BY <1>15 DEF BehindInv, PlaceInv, SweepAt, host, SweepParks
<1>16. CASE SweepMarks
  BY <1>16 DEF BehindInv, PlaceInv, SweepAt, host, SweepMarks
<1>17. CASE DeleteDemoBoard
  BY <1>17 DEF BehindInv, PlaceInv, SweepAt, host, DeleteDemoBoard
<1>18. CASE SweepPurges
  BY <1>18 DEF BehindInv, PlaceInv, SweepAt, host, SweepPurges
<1>19. CASE Reopen
  BY <1>19 DEF BehindInv, Reopen, TypeOK
<1>20. CASE ReopenRow
  BY <1>20, BehindFrame
  DEF KeepsBehind, DrivenAlone, Alone, Over, HasRow, Behind, host, ReopenRow
<1>21. CASE EraseRow
  BY <1>21, BehindFrame
  DEF KeepsBehind, DrivenAlone, Alone, Over, HasRow, Behind, host, EraseRow
<1>22. CASE Rearm
  <2>1. hist'.reopened = hist.reopened
    BY <1>22, <1>0, MirroringDoes DEF Rearm
  <2>2. QED
    BY <1>22, <2>1 DEF BehindInv, PlaceInv, Rearm, host
<1>23. CASE DeleteBoards
  <2>1. hist'.removed \/ KeepsBehind
    BY <1>23, RemovedDoes, InterruptedDoes
    DEF DeleteBoards, Untouched, KeepsBehind, DrivenAlone, Alone, Over, HasRow, Behind, host
  <2>2. QED
    BY <2>1, BehindFrame DEF BehindInv
<1>24. CASE ErasePurges
  BY <1>24, PurgeDoes DEF BehindInv, PlaceInv, ErasePurges
<1>25. CASE RestoreSchema \/ RestoreFails
  BY <1>25 DEF BehindInv, Driving, PlaceInv, threads, RestoreSchema, RestoreFails
<1>37. CASE RestoreRows
  BY <1>37 DEF BehindInv, Driving, PlaceInv, threads, RestoreRows
<1>26. CASE RestoreFiles
  BY <1>26 DEF BehindInv, Driving, PlaceInv, threads, RestoreFiles
<1>27. CASE Resume
  <2>1. \/ driver'.pc \notin Driving
        \/ driver'.pc = "lane" /\ driver'.at = 1 /\ driver'.skip = Skipped /\ ~driver'.narrow
    BY <1>27 DEF Resume, PlaceInv, Driving
  <2>2. UNCHANGED disk
    BY <1>27 DEF Resume
  <2>3. driver'.pc = "lane" /\ driver'.at = 1 => Behind' = {}
    BY DEF Behind
  <2>4. QED
    BY <2>1, <2>2, <2>3 DEF BehindInv, Skipped, HasRow
<1>28. CASE Tick
  BY <1>28, BehindFrame
  DEF KeepsBehind, DrivenAlone, Alone, Over, HasRow, Behind, host, threads, Tick
<1>29. CASE \E a \in Actors : SnapshotTasks(a) \/ SnapshotFiles(a) \/ SealFlag(a)
  <2>1. PICK a \in Actors : SnapshotTasks(a) \/ SnapshotFiles(a) \/ SealFlag(a)
    BY <1>29
  <2>2. UNCHANGED <<kind, disk, mirror, driver, used, hist>> /\ snap[a].pc # "off"
        /\ snap'[a].pc # "off"
    BY <2>1, ReadDoes DEF host, threads
  <2>3. CASE a # "driver"
    BY <2>1, <2>2, <2>3, <1>0, ReadDoes, BehindFrame
    DEF KeepsBehind, DrivenAlone, Alone, Over, HasRow, Behind
  <2>4. CASE a = "driver"
    <3>1. SUFFICES ASSUME DrivenAlone, NEW i \in Behind \ driver.skip
                   PROVE  snap'["driver"].lane[i] \in Finished
      BY <2>2, <2>4 DEF BehindInv, DrivenAlone, Alone, HasRow, Behind, Busy
    <3>2. HasRow(i) /\ disk.lane[i] \in Finished
      BY <3>1 DEF BehindInv, DrivenAlone, Alone
    <3>3. CASE SnapshotTasks("driver")
      BY <2>1, <2>4, <3>2, <3>3, ReadDoes DEF HasRow
    <3>4. CASE SnapshotFiles("driver") \/ SealFlag("driver")
      <4>1. snap["driver"].pc \in Read /\ snap'["driver"].lane = snap["driver"].lane
        BY <2>1, <2>4, <3>4, ReadDoes DEF Read
      <4>2. QED
        BY <3>1, <4>1 DEF BehindInv, DrivenAlone, Alone
    <3>5. QED
      BY <2>1, <2>4, <3>3, <3>4
  <2>5. QED
    BY <2>3, <2>4
<1>30. CASE \E a \in Actors : Commit(a)
  <2>1. PICK a \in Actors : Commit(a)
    BY <1>30
  <2>2. UNCHANGED <<kind, disk, driver, used>> /\ snap[a].pc = "commit"
        /\ hist'.reopened = hist.reopened /\ hist'.removed = hist.removed
    BY <2>1, CommitDoes DEF Commit, host, threads
  <2>3. DrivenAlone => a = "driver"
    BY <2>2 DEF PlaceInv, DrivenAlone, Alone, Busy, Actors
  <2>4. a = "driver" => /\ mirror'.lane = snap["driver"].lane /\ snap'["driver"].pc = "off"
    BY <2>1, CommitDoes
  <2>5. QED
    BY <2>2, <2>3, <2>4 DEF BehindInv, DrivenAlone, Alone, HasRow, Behind, Busy, Read
<1>38. CASE \E a \in Actors : CommitFails(a)
  <2>1. PICK a \in Actors : CommitFails(a)
    BY <1>38
  <2>2. UNCHANGED <<kind, disk, mirror, driver>> /\ snap[a].pc = "commit"
        /\ hist'.reopened = hist.reopened /\ hist'.removed = hist.removed /\ hist'.missed
    BY <2>1, CommitFailsDoes DEF CommitFails, host, threads
  <2>3. DrivenAlone => a = "driver"
    BY <2>2 DEF PlaceInv, DrivenAlone, Alone, Busy, Actors
  <2>4. a = "driver" => snap'["driver"].pc = "off"
    BY <2>1, CommitFailsDoes
  <2>5. QED
    BY <2>2, <2>3, <2>4 DEF BehindInv, DrivenAlone, Alone, HasRow, Behind, Busy, Read
<1>31. CASE \E wiped \in BOOLEAN : Restart(wiped)
  <2>1. driver'.pc \in {"new", "off"}
    BY <1>31, RestartDoes
  <2>2. QED
    BY <2>1 DEF BehindInv, Driving
<1>32. CASE UNCHANGED vars
  BY <1>32 DEF vars, BehindInv, HasRow, Behind, Busy
<1>33. QED
  BY <1>1, <1>2, <1>3, <1>4, <1>5, <1>6, <1>7, <1>8, <1>9, <1>10, <1>11, <1>12, <1>13,
     <1>14, <1>15, <1>16, <1>17, <1>18, <1>19, <1>20, <1>21, <1>22, <1>23, <1>24, <1>25,
     <1>26, <1>27, <1>28, <1>29, <1>30, <1>31, <1>32, <1>34, <1>35, <1>36, <1>37, <1>38
  DEF Next, DriverStep, SweepStep, RequestStep, BootStep, SnapshotStep


------------------------------------------------------------------------------
(* The order in which the lanes of a project that nobody reopened finish. *)

\* Without a row a lane is not finished, on a board that has no other either.
LEMMA NoRowOrdered ==
    ASSUME NEW lane \in [Lanes -> Status], \A i \in Lanes : lane[i] \notin Finished
    PROVE  Ordered(lane)
BY DEF Ordered

LEMMA BlankOrdered == Ordered(Blank)
BY DEF Ordered, Blank, Finished

\* What a driver claims, repairs, completes or fails has nothing finished
\* ahead of it, and everything finished behind it.
LEMMA AheadUnfinished ==
    ASSUME TypeOK, BehindInv, AheadInv, OrderInv, DrivenAlone, driver.at \in Lanes,
           driver.at \notin driver.skip, disk.lane # NoDb
    PROVE  /\ \A j \in Lanes : j > driver.at => disk.lane[j] \notin Finished
           /\ \A i \in Lanes : i < driver.at => disk.lane[i] \in Finished
<1>1. driver.at \in 1..(Last + 1) /\ Last \in Nat
  BY MirrorAssumption DEF TypeOK
<1>2. \A j \in Lanes : j > driver.at => j \notin driver.skip
  BY DEF OrderInv, DrivenAlone, Alone, Lanes
<1>3. \A j \in Lanes : j > driver.at => j \in (driver.at)..Last \ (Behind \cup driver.skip)
  BY <1>1, <1>2 DEF Lanes, Behind
<1>4. \A j \in Lanes : j > driver.at => disk.lane[j] \notin Finished
  <2>1. TAKE j \in Lanes
  <2>2. HAVE j > driver.at
  <2>3. HasRow(j) => disk.lane[j] \notin Finished
    BY <1>3, <2>2 DEF AheadInv, DrivenAlone
  <2>4. QED
    BY <2>3 DEF HasRow, Finished
<1>5. \A i \in Lanes : i < driver.at => i \in Behind
  BY <1>1 DEF Behind, Lanes
<1>6. QED
  BY <1>4, <1>5 DEF BehindInv, DrivenAlone, Alone

\* A step that changes the driver's lane alone leaves the order.
LEMMA OneLaneOrdered ==
    ASSUME TypeOK, BehindInv, AheadInv, OrderInv, DrivenAlone, driver.at \in Lanes,
           driver.at \notin driver.skip, disk.lane # NoDb, disk'.lane \in [Lanes -> Status],
           \A i \in Lanes \ {driver.at} : disk'.lane[i] = disk.lane[i]
    PROVE  Ordered(disk'.lane)
<1>1. /\ \A j \in Lanes : j > driver.at => disk.lane[j] \notin Finished
      /\ \A i \in Lanes : i < driver.at => disk.lane[i] \in Finished
  BY AheadUnfinished
<1>2. SUFFICES ASSUME NEW i \in Lanes, NEW j \in Lanes, i < j, disk'.lane[j] \in Finished
               PROVE  disk'.lane[i] \in Finished
  BY DEF Ordered
<1>3. driver.at \in Int /\ i \in Int /\ j \in Int
  BY DEF Lanes
<1>4. j = driver.at \/ j < driver.at
  BY <1>1, <1>2, <1>3
<1>5. i < driver.at /\ i # driver.at
  BY <1>2, <1>3, <1>4
<1>6. QED
  BY <1>1, <1>5

KeepsOrder ==
    Alone' =>
        /\ Alone /\ UNCHANGED mirror
        /\ \A a \in Actors : snap'[a].lane = snap[a].lane \/ snap'[a].lane = Blank
        /\ driver'.pc \in Driving => driver'.skip = driver.skip
                                     /\ (driver.pc \in Driving \/ driver.skip = {})
        /\ disk'.lane # NoDb => disk'.lane = disk.lane \/ Ordered(disk'.lane)

LEMMA OrderFrame ==
    ASSUME TypeOK, OrderInv, KeepsOrder
    PROVE  OrderInv'
<1>1. SUFFICES ASSUME Alone'
               PROVE  OrderInv'
  BY DEF OrderInv, Alone
<1>2. Alone
  BY <1>1 DEF KeepsOrder
<1>3. (disk'.lane # NoDb => Ordered(disk'.lane)) /\ Ordered(mirror'.lane)
  BY <1>1, <1>2 DEF OrderInv, KeepsOrder, Alone
<1>4. \A a \in Actors : Ordered(snap'[a].lane)
  BY <1>1, <1>2, BlankOrdered DEF OrderInv, KeepsOrder, Alone
<1>5. driver'.pc \in Driving =>
               \A i, j \in Lanes : i < j /\ j \in driver'.skip => i \in driver'.skip
  BY <1>1, <1>2 DEF OrderInv, KeepsOrder, Alone
<1>6. QED
  BY <1>3, <1>4, <1>5 DEF OrderInv

LEMMA ConnectOrdered ==
    ASSUME TypeOK, TypeOK', Connect
    PROVE  disk'.lane # NoDb => disk'.lane = disk.lane \/ Ordered(disk'.lane)
<1>1. CASE disk.lane = NoDb /\ disk'.lane # NoDb
  <2>1. disk'.lane \in [Lanes -> Status] /\ \A i \in Lanes : disk'.lane[i] \notin Finished
    BY <1>1, ConnectDoes DEF TypeOK, Board, HasRow, Finished
  <2>2. QED
    BY <2>1, NoRowOrdered
<1>2. QED
  BY <1>1, ConnectDoes

LEMMA OrderKept ==
    ASSUME TypeOK, TypeOK', PlaceInv, BehindInv, AheadInv, OrderInv, [Next]_vars
    PROVE  OrderInv'
<1>0. "driver" \in Actors /\ "sweep" \in Actors /\ "reopen" \in Actors
  BY DEF Actors
<1>a. driver \in DriverRec /\ disk \in Board /\ driver.at \in 1..(Last + 1) /\ Last \in Nat
  BY MirrorAssumption DEF TypeOK, DriverRec
<1>b. disk'.lane # NoDb => disk'.lane \in [Lanes -> Status]
  BY DEF TypeOK, Board
<1>1. CASE PassOver
  BY <1>1, <1>a, OrderFrame
  DEF KeepsOrder, Alone, host, Driving, DriverAt, DriverRec, PassOver
<1>2. CASE Claim
  <2>1. /\ driver.at \in Lanes /\ driver.at \notin driver.skip
        /\ driver'.skip = driver.skip /\ driver.pc = "lane"
        /\ UNCHANGED <<kind, mirror, snap, hist>>
    BY <1>2, <1>a, ClaimDoes DEF Claim, DriverAt, DriverRec, host
  <2>2. ASSUME Alone, disk'.lane # NoDb PROVE disk'.lane = disk.lane \/ Ordered(disk'.lane)
    <3>1. CASE HasRow(driver.at)
      <4>1. disk'.lane = [disk.lane EXCEPT ![driver.at] = "running"] /\ disk.lane # NoDb
        BY <1>2, <3>1, <1>a DEF Claim, Store, Board, HasRow
      <4>2. \A i \in Lanes \ {driver.at} : disk'.lane[i] = disk.lane[i]
        BY <4>1, <1>a DEF Board
      <4>3. QED
        BY <2>1, <2>2, <4>1, <4>2, <1>b, OneLaneOrdered DEF DrivenAlone, Driving
    <3>2. CASE ~HasRow(driver.at)
      BY <1>2, <2>2, <3>2, ConnectOrdered DEF Claim
    <3>3. QED
      BY <3>1, <3>2
  <2>3. QED
    BY <2>1, <2>2, OrderFrame DEF KeepsOrder, Alone, Driving
<1>3. CASE Produce
  <2>1. UNCHANGED <<kind, mirror, snap, hist>>
    BY <1>3 DEF Produce, host
  <2>2. QED
    BY <1>3, <2>1, ProduceDoes, OrderFrame DEF KeepsOrder, Alone, Wrote, Driving
<1>4. CASE ProviderFails
  BY <1>4, <1>a, OrderFrame
  DEF KeepsOrder, Alone, host, Driving, DriverAt, Drive, DriverRec, ProviderFails
<1>5. CASE CompleteRaises
  BY <1>5, <1>a, OrderFrame, ConnectOrdered
  DEF KeepsOrder, Alone, host, Driving, DriverAt, Drive, DriverRec, CompleteRaises
<1>6. CASE GiveUp
  BY <1>6, <1>a, OrderFrame DEF KeepsOrder, Alone, Driving, Drive, DriverRec, Untouched, GiveUp, host
<1>7. CASE AllDriven
  <2>1. UNCHANGED <<kind, mirror, snap, hist>>
    BY <1>7 DEF AllDriven, host
  <2>2. disk'.lane = disk.lane /\ driver'.pc \notin Driving
    BY <1>7, AllDrivenDoes DEF Wrote, Driving
  <2>3. QED
    BY <2>1, <2>2, OrderFrame DEF KeepsOrder, Alone
<1>8. CASE Finalize
  BY <1>8, <1>a, OrderFrame DEF KeepsOrder, Alone, Driving, Drive, DriverRec, Finalize, host
<1>9. CASE SealPark
  <2>1. UNCHANGED <<kind, mirror, snap, hist>> /\ driver'.pc \notin Driving /\ Park
    BY <1>9, <1>a DEF SealPark, host, Drive, DriverRec, Driving
  <2>2. Alone /\ disk'.lane # NoDb => Ordered(disk'.lane)
    <3>1. SUFFICES ASSUME Alone, disk'.lane # NoDb, NEW i \in Lanes, NEW j \in Lanes, i < j,
                          disk'.lane[j] \in Finished
                   PROVE  disk'.lane[i] \in Finished
      BY DEF Ordered
    <3>2. disk.lane # NoDb
      BY <2>1, <3>1, ParkDoes
    <3>3. disk'.lane[j] = disk.lane[j]
      BY <2>1, <3>1, ParkDoes DEF HasRow, Finished
    <3>4. disk.lane[i] \in Finished
      BY <3>1, <3>2, <3>3 DEF OrderInv, Alone, Ordered
    <3>5. QED
      BY <2>1, <3>2, <3>4, ParkDoes DEF HasRow, Finished
  <2>3. QED
    BY <2>1, <2>2, OrderFrame DEF KeepsOrder, Alone
<1>10. CASE Launch
  <2>1. /\ disk'.lane = [i \in Lanes |-> "todo"] /\ driver'.skip = driver.skip /\ driver.skip = {}
        /\ UNCHANGED <<kind, mirror>> /\ Mirroring("driver")
    BY <1>10, LaunchDoes DEF PlaceInv, Launch, host
  <2>2. Ordered(disk'.lane)
    BY <2>1 DEF Ordered, Finished
  <2>3. /\ hist'.removed = hist.removed /\ hist'.reopened = hist.reopened
        /\ \A a \in Actors : snap'[a].lane = snap[a].lane \/ snap'[a].lane = Blank
    BY <2>1, <1>0, MirroringDoes
  <2>4. QED
    BY <2>1, <2>2, <2>3, OrderFrame DEF KeepsOrder, Alone
<1>11. CASE Complete
  <2>1. /\ driver.pc = "finish" /\ Mirroring("driver") /\ UNCHANGED <<kind, mirror>>
        /\ driver.at \in Lanes /\ driver.at \notin driver.skip /\ driver'.skip = driver.skip
    BY <1>11, CompleteDoes DEF Complete, DriverAt, host, PlaceInv
  <2>2. /\ hist'.removed = hist.removed /\ hist'.reopened = hist.reopened
        /\ \A a \in Actors : snap'[a].lane = snap[a].lane \/ snap'[a].lane = Blank
    BY <2>1, <1>0, MirroringDoes
  <2>3. Alone => Ordered(disk'.lane)
    <3>1. HasRow(driver.at) /\ disk.lane # NoDb /\ disk'.lane # NoDb
          /\ \A i \in Lanes \ {driver.at} : disk'.lane[i] = disk.lane[i]
      BY <1>11, CompleteDoes DEF HasRow
    <3>2. QED
      BY <2>1, <3>1, <1>b, OneLaneOrdered DEF DrivenAlone, Driving
  <2>4. QED
    BY <2>1, <2>2, <2>3, OrderFrame DEF KeepsOrder, Alone, Driving
<1>12. CASE LaneFails
  <2>1. /\ driver.pc = "raise" /\ Mirroring("driver") /\ UNCHANGED <<kind, mirror>>
        /\ driver.at \in Lanes /\ driver.at \notin driver.skip /\ driver'.skip = driver.skip
        /\ Fail(driver.at)
    BY <1>12, LaneFailsDoes DEF LaneFails, host, PlaceInv
  <2>2. /\ hist'.removed = hist.removed /\ hist'.reopened = hist.reopened
        /\ \A a \in Actors : snap'[a].lane = snap[a].lane \/ snap'[a].lane = Blank
    BY <2>1, <1>0, MirroringDoes
  <2>3. ASSUME Alone, disk'.lane # NoDb PROVE disk'.lane = disk.lane \/ Ordered(disk'.lane)
    <3>1. CASE HasRow(driver.at)
      <4>1. disk'.lane = [disk.lane EXCEPT ![driver.at] = "failed"] /\ disk.lane # NoDb
        BY <2>1, <3>1, <1>a DEF Fail, Store, Board, HasRow
      <4>2. \A i \in Lanes \ {driver.at} : disk'.lane[i] = disk.lane[i]
        BY <4>1, <1>a DEF Board
      <4>3. QED
        BY <2>1, <2>3, <4>1, <4>2, <1>b, OneLaneOrdered DEF DrivenAlone, Driving
    <3>2. CASE ~HasRow(driver.at)
      BY <2>1, <2>3, <3>2, ConnectOrdered DEF Fail
    <3>3. QED
      BY <3>1, <3>2
  <2>4. QED
    BY <2>1, <2>2, <2>3, OrderFrame DEF KeepsOrder, Alone, Driving
<1>34. CASE \E narrow \in BOOLEAN : Repair(narrow)
  <2>1. PICK narrow \in BOOLEAN : Repair(narrow)
    BY <1>34
  <2>2. /\ driver.at \in Lanes /\ driver.at \notin driver.skip /\ driver.pc = "page"
        /\ driver'.skip = driver.skip /\ UNCHANGED <<kind, mirror, snap, hist>>
    BY <2>1, RepairDoes DEF host
  <2>3. ASSUME Alone, disk'.lane # NoDb PROVE disk'.lane = disk.lane \/ Ordered(disk'.lane)
    <3>1. CASE HasRow(driver.at)
      <4>1. disk'.lane = [disk.lane EXCEPT ![driver.at] = "running"] /\ disk.lane # NoDb
        BY <2>1, <3>1, <1>a DEF Repair, Store, Board, HasRow
      <4>2. \A i \in Lanes \ {driver.at} : disk'.lane[i] = disk.lane[i]
        BY <4>1, <1>a DEF Board
      <4>3. QED
        BY <2>2, <2>3, <4>1, <4>2, <1>b, OneLaneOrdered DEF DrivenAlone, Driving
    <3>2. CASE ~HasRow(driver.at)
      BY <2>1, <2>3, <3>2, ConnectOrdered DEF Repair
    <3>3. QED
      BY <3>1, <3>2
  <2>4. QED
    BY <2>2, <2>3, OrderFrame DEF KeepsOrder, Alone, Driving
<1>35. CASE PatchPage
  BY <1>35, PatchPageDoes, OrderFrame DEF KeepsOrder, Alone, Wrote, host, threads
<1>36. CASE PageLeft
  BY <1>36, PageLeftDoes, OrderFrame DEF KeepsOrder, Alone, host, PageLeft, Driving
<1>13. CASE SealMark
  <2>1. UNCHANGED <<kind, mirror>> /\ Mirroring("driver") /\ driver'.pc \notin Driving /\ Mark
    BY <1>13, <1>a DEF SealMark, host, Drive, DriverRec, Driving
  <2>2. QED
    BY <2>1, <1>0, MarkDoes, MirroringDoes, OrderFrame DEF KeepsOrder, Alone
<1>14. CASE SweepStep
  <2>1. kind # "project" /\ UNCHANGED kind
    BY <1>14
    DEF SweepStep, SweepSees, SweepParks, SweepMarks, DeleteDemoBoard, SweepPurges, SweepAt,
        PlaceInv, host
  <2>2. QED
    BY <2>1 DEF OrderInv
<1>19. CASE Reopen
  BY <1>19 DEF OrderInv, Reopen, TypeOK
<1>20. CASE ReopenRow
  BY <1>20, OrderFrame DEF KeepsOrder, Alone, host, ReopenRow
<1>21. CASE EraseRow
  BY <1>21, OrderFrame DEF KeepsOrder, Alone, host, EraseRow
<1>22. CASE Rearm
  <2>1. hist'.reopened = hist.reopened
    BY <1>22, <1>0, MirroringDoes DEF Rearm
  <2>2. QED
    BY <1>22, <2>1 DEF OrderInv, PlaceInv, Rearm, host
<1>23. CASE DeleteBoards
  <2>1. hist'.removed \/ KeepsOrder
    BY <1>23, RemovedDoes, InterruptedDoes
    DEF DeleteBoards, Untouched, KeepsOrder, Alone, host
  <2>2. QED
    BY <2>1, OrderFrame DEF OrderInv
<1>24. CASE ErasePurges
  BY <1>24, PurgeDoes DEF OrderInv, PlaceInv, ErasePurges
<1>25. CASE RestoreSchema
  <2>1. disk'.lane = disk.lane \/ Ordered(disk'.lane)
    BY <1>25, RestoreSchemaDoes, BlankOrdered
  <2>2. UNCHANGED <<kind, mirror, driver, snap, hist>> /\ driver.pc \notin Driving
    BY <1>25, RestoreSchemaDoes DEF threads, Driving
  <2>3. QED
    BY <2>1, <2>2, OrderFrame DEF KeepsOrder, Alone
<1>37. CASE RestoreRows
  <2>1. UNCHANGED <<kind, mirror, driver, snap, hist>> /\ driver.pc \notin Driving
    BY <1>37, RestoreRowsDoes DEF threads, Driving
  <2>2. Alone => Ordered(disk'.lane)
    BY <1>37, RestoreRowsDoes DEF OrderInv, Alone
  <2>3. QED
    BY <2>1, <2>2, OrderFrame DEF KeepsOrder, Alone
<1>26. CASE RestoreFiles
  <2>1. /\ UNCHANGED <<kind, mirror, driver, snap, hist>> /\ driver.pc \notin Driving
        /\ disk'.lane = disk.lane
    BY <1>26, RestoreFilesDoes DEF threads, Driving
  <2>2. QED
    BY <2>1, OrderFrame DEF KeepsOrder, Alone
<1>38. CASE RestoreFails
  <2>1. /\ UNCHANGED <<kind, disk, mirror, driver, snap, hist>> /\ driver.pc \notin Driving
    BY <1>38 DEF RestoreFails, threads, Driving, PlaceInv
  <2>2. QED
    BY <2>1, OrderFrame DEF KeepsOrder, Alone
<1>27. CASE Resume
  <2>1. /\ UNCHANGED <<kind, disk, mirror, snap, hist>>
        /\ driver'.pc \notin Driving \/ (driver'.skip = Skipped /\ disk.lane # NoDb)
    BY <1>27 DEF Resume, PlaceInv, Driving, Unfinished
  <2>2. Alone /\ disk.lane # NoDb =>
            \A i, j \in Lanes : i < j /\ j \in Skipped => i \in Skipped
    BY DEF OrderInv, Alone, Ordered, Skipped, HasRow, Finished
  <2>3. QED
    BY <2>1, <2>2 DEF OrderInv, Alone
<1>28. CASE Tick
  BY <1>28, OrderFrame DEF KeepsOrder, Alone, host, threads, Tick
<1>29. CASE \E a \in Actors : SnapshotTasks(a) \/ SnapshotFiles(a) \/ SealFlag(a)
  <2>1. PICK a \in Actors : SnapshotTasks(a) \/ SnapshotFiles(a) \/ SealFlag(a)
    BY <1>29
  <2>2. UNCHANGED <<kind, disk, mirror, driver, hist>>
    BY <2>1, ReadDoes DEF host, threads
  <2>3. Alone => \A b \in Actors : Ordered(snap'[b].lane)
    <3>1. SUFFICES ASSUME Alone, NEW b \in Actors
                   PROVE  Ordered(snap'[b].lane)
      OBVIOUS
    <3>2. CASE b = a /\ SnapshotTasks(a)
      BY <2>1, <3>1, <3>2, ReadDoes, BlankOrdered DEF OrderInv, Alone
    <3>3. CASE ~(b = a /\ SnapshotTasks(a))
      <4>1. snap'[b].lane = snap[b].lane
        BY <2>1, <3>3, ReadDoes
      <4>2. QED
        BY <3>1, <4>1 DEF OrderInv, Alone
    <3>4. QED
      BY <3>2, <3>3
  <2>4. QED
    BY <2>2, <2>3 DEF OrderInv, Alone
<1>30. CASE \E a \in Actors : Commit(a)
  <2>1. PICK a \in Actors : Commit(a)
    BY <1>30
  <2>2. /\ UNCHANGED <<kind, disk, driver>> /\ mirror'.lane = snap[a].lane
        /\ hist'.reopened = hist.reopened /\ hist'.removed = hist.removed
        /\ \A b \in Actors : snap'[b].lane = snap[b].lane \/ snap'[b].lane = Blank
    BY <2>1, CommitDoes DEF Commit, host, threads
  <2>3. QED
    BY <2>2, BlankOrdered DEF OrderInv
<1>31. CASE \E a \in Actors : CommitFails(a)
  <2>1. PICK a \in Actors : CommitFails(a)
    BY <1>31
  <2>2. /\ UNCHANGED <<kind, disk, driver, mirror>>
        /\ hist'.reopened = hist.reopened /\ hist'.removed = hist.removed
        /\ \A b \in Actors : snap'[b].lane = snap[b].lane \/ snap'[b].lane = Blank
    BY <2>1, CommitFailsDoes DEF host, threads
  <2>3. QED
    BY <2>2, BlankOrdered DEF OrderInv
<1>32. CASE \E wiped \in BOOLEAN : Restart(wiped)
  <2>1. PICK wiped \in BOOLEAN : Restart(wiped)
    BY <1>32
  <2>2. /\ UNCHANGED <<kind, mirror>> /\ driver'.pc \notin Driving
        /\ hist'.reopened = hist.reopened /\ hist'.removed = hist.removed
        /\ disk'.lane \in {disk.lane, NoDb}
        /\ \A b \in Actors : snap'[b].lane = Blank
    BY <2>1, RestartDoes, NoSnapshotType, NoBoardType DEF Restart, Driving
  <2>3. QED
    BY <2>2, OrderFrame DEF KeepsOrder, Alone
<1>33. CASE UNCHANGED vars
  BY <1>33 DEF vars, OrderInv
<1>39. QED
  BY <1>1, <1>2, <1>3, <1>4, <1>5, <1>6, <1>7, <1>8, <1>9, <1>10, <1>11, <1>12, <1>13,
     <1>14, <1>19, <1>20, <1>21, <1>22, <1>23, <1>24, <1>25, <1>26, <1>27, <1>28, <1>29,
     <1>30, <1>31, <1>32, <1>33, <1>34, <1>35, <1>36, <1>37, <1>38
  DEF Next, DriverStep, RequestStep, BootStep, SnapshotStep


------------------------------------------------------------------------------
(* A board without kanban.db, and snapshots that overlap. *)

LEMMA LostKept ==
    ASSUME TypeOK, PlaceInv, LostInv, [Next]_vars
    PROVE  LostInv'
<1>0. "driver" \in Actors /\ "sweep" \in Actors /\ "reopen" \in Actors /\ Last \in Lanes
  BY DEF Actors, Lanes
<1>a. disk \in Board /\ mirror \in Copy
  BY DEF TypeOK
<1>1. CASE PassOver
  <2>1. disk'.lane # NoDb \/ hist'.removed
    BY <1>1, <1>0, <1>a
    DEF LostInv, DriverAt, host, PassOver
  <2>2. QED
    BY <2>1 DEF LostInv
<1>2. CASE Claim
  <2>1. disk'.lane # NoDb \/ hist'.removed
    BY <1>2, <1>0, <1>a, ClaimDoes
    DEF LostInv, DriverAt, host, Claim
  <2>2. QED
    BY <2>1 DEF LostInv
<1>3. CASE Produce
  <2>1. disk'.lane # NoDb \/ hist'.removed
    BY <1>3, <1>0, <1>a
    DEF LostInv, DriverAt, Board, host, Produce
  <2>2. QED
    BY <2>1 DEF LostInv
<1>4. CASE ProviderFails
  <2>1. disk'.lane # NoDb \/ hist'.removed
    BY <1>4, <1>0, <1>a
    DEF LostInv, DriverAt, host, ProviderFails
  <2>2. QED
    BY <2>1 DEF LostInv
<1>5. CASE CompleteRaises
  <2>1. disk'.lane # NoDb \/ hist'.removed
    BY <1>5, <1>0, <1>a, ConnectDoes
    DEF LostInv, DriverAt, host, CompleteRaises
  <2>2. QED
    BY <2>1 DEF LostInv
<1>6. CASE GiveUp
  <2>1. disk'.lane # NoDb \/ hist'.removed
    BY <1>6, <1>0, <1>a, FailDoes
    DEF LostInv, DriverAt, Untouched, host, GiveUp
  <2>2. QED
    BY <2>1 DEF LostInv
<1>7. CASE AllDriven
  <2>1. UNCHANGED hist /\ driver.pc = "lane"
    BY <1>7, AllDrivenDoes DEF AllDriven
  <2>2. disk'.lane = disk.lane
    BY <1>7, AllDrivenDoes DEF Wrote
  <2>3. QED
    BY <2>1, <2>2 DEF LostInv
<1>34. CASE \E narrow \in BOOLEAN : Repair(narrow)
  BY <1>34, RepairDoes DEF LostInv
<1>35. CASE PatchPage
  BY <1>35, PatchPageDoes DEF LostInv, Wrote
<1>36. CASE PageLeft
  BY <1>36, PageLeftDoes DEF LostInv, PageLeft
<1>8. CASE Finalize
  <2>1. disk'.lane # NoDb \/ hist'.removed
    BY <1>8, <1>0, <1>a
    DEF LostInv, DriverAt, host, Finalize
  <2>2. QED
    BY <2>1 DEF LostInv
<1>9. CASE SealPark
  <2>1. disk'.lane # NoDb \/ hist'.removed
    BY <1>9, <1>0, <1>a, ParkDoes
    DEF LostInv, DriverAt, host, SealPark
  <2>2. QED
    BY <2>1 DEF LostInv
<1>10. CASE Launch
  BY <1>10, LaunchDoes DEF LostInv
<1>11. CASE Complete
  BY <1>11, CompleteDoes DEF LostInv
<1>12. CASE LaneFails
  <2>1. disk'.lane # NoDb \/ hist'.removed
    BY <1>12, <1>0, <1>a, FailDoes, MirroringDoes
    DEF LostInv, DriverAt, PlaceInv, LaneFails
  <2>2. QED
    BY <2>1 DEF LostInv
<1>13. CASE SealMark
  <2>1. disk'.lane # NoDb \/ hist'.removed
    BY <1>13, <1>0, <1>a, MarkDoes, MirroringDoes
    DEF LostInv, DriverAt, SealMark
  <2>2. QED
    BY <2>1 DEF LostInv
<1>14. CASE SweepSees
  <2>1. disk'.lane # NoDb \/ hist'.removed
    BY <1>14, <1>0, <1>a, NoBoardType
    DEF LostInv, SweepSees, host
  <2>2. QED
    BY <2>1 DEF LostInv
<1>15. CASE SweepParks
  <2>1. disk'.lane # NoDb \/ hist'.removed
    BY <1>15, <1>0, <1>a, ParkDoes
    DEF LostInv, SweepAt, SweepParks, host
  <2>2. QED
    BY <2>1 DEF LostInv
<1>16. CASE SweepMarks
  <2>1. disk'.lane # NoDb \/ hist'.removed
    BY <1>16, <1>0, <1>a, MarkDoes, MirroringDoes
    DEF LostInv, SweepAt, SweepMarks
  <2>2. QED
    BY <2>1 DEF LostInv
<1>17. CASE DeleteDemoBoard
  <2>1. disk'.lane # NoDb \/ hist'.removed
    BY <1>17, <1>0, <1>a, RemovedDoes, InterruptedDoes
    DEF LostInv, SweepAt, Untouched, DeleteDemoBoard, host
  <2>2. QED
    BY <2>1 DEF LostInv
<1>18. CASE SweepPurges
  <2>1. disk'.lane # NoDb \/ hist'.removed
    BY <1>18, <1>0, <1>a, PurgeDoes
    DEF LostInv, SweepAt, PlaceInv, SweepPurges
  <2>2. QED
    BY <2>1 DEF LostInv
<1>19. CASE Reopen
  <2>1. /\ disk' = [disk EXCEPT !.sealed = FALSE] /\ disk'.lane = disk.lane
        /\ UNCHANGED <<driver, sweep>> /\ hist'.removed = hist.removed
    BY <1>19, <1>a DEF Reopen, Board, TypeOK
  <2>2. [NoBoard EXCEPT !.sealed = FALSE] = NoBoard
    <3>1. \A r, t \in Board : r.dir = t.dir /\ r.lane = t.lane /\ r.files = t.files
                              /\ r.sealed = t.sealed => r = t
      BY DEF Board
    <3>2. [NoBoard EXCEPT !.sealed = FALSE] \in Board
      BY NoBoardType DEF Board
    <3>3. /\ [NoBoard EXCEPT !.sealed = FALSE].dir = NoBoard.dir
          /\ [NoBoard EXCEPT !.sealed = FALSE].lane = NoBoard.lane
          /\ [NoBoard EXCEPT !.sealed = FALSE].files = NoBoard.files
          /\ [NoBoard EXCEPT !.sealed = FALSE].sealed = NoBoard.sealed
      BY DEF NoBoard
    <3>4. QED
      BY <3>1, <3>2, <3>3, NoBoardType
  <2>3. QED
    BY <2>1, <2>2 DEF LostInv
<1>20. CASE ReopenRow
  BY <1>20 DEF LostInv, host, ReopenRow
<1>21. CASE EraseRow
  BY <1>21 DEF LostInv, host, EraseRow
<1>22. CASE Rearm
  <2>1. disk.lane = NoDb => disk' = disk
    BY <1>22 DEF Rearm, Untouched
  <2>2. QED
    BY <1>22, <2>1, <1>0, RearmDoes, MirroringDoes DEF LostInv, Rearm
<1>23. CASE DeleteBoards
  BY <1>23, RemovedDoes, InterruptedDoes DEF LostInv, Untouched, DeleteBoards
<1>24. CASE ErasePurges
  BY <1>24, PurgeDoes DEF LostInv, PlaceInv, ErasePurges
<1>25. CASE RestoreSchema
  BY <1>25, RestoreSchemaDoes, BlankIsLanes, LanesAreNoBlank DEF LostInv, threads
<1>37. CASE RestoreRows
  BY <1>37, RestoreRowsDoes DEF LostInv, threads
<1>38. CASE RestoreFails
  BY <1>38 DEF LostInv, threads, RestoreFails
<1>26. CASE RestoreFiles
  <2>1. /\ disk'.lane = disk.lane /\ UNCHANGED <<driver, sweep, hist>>
    BY <1>26, <1>a DEF RestoreFiles, Board, threads
  <2>2. disk.lane # NoDb \/ hist.removed
    BY <1>26 DEF RestoreFiles, PlaceInv
  <2>3. QED
    BY <2>1, <2>2 DEF LostInv
<1>27. CASE Resume
  BY <1>27 DEF LostInv, Resume, Unfinished
<1>28. CASE Tick
  BY <1>28, NoBoardType DEF LostInv, Tick, threads
<1>29. CASE \E a \in Actors : SnapshotTasks(a) \/ SnapshotFiles(a) \/ SealFlag(a)
  BY <1>29, ReadDoes DEF LostInv, threads
<1>30. CASE \E a \in Actors : Commit(a) \/ CommitFails(a)
  <2>1. UNCHANGED <<disk, driver, sweep>> /\ hist'.removed = hist.removed
    BY <1>30, CommitDoes, CommitFailsDoes DEF Commit, CommitFails, threads
  <2>2. QED
    BY <2>1 DEF LostInv
<1>31. CASE \E wiped \in BOOLEAN : Restart(wiped)
  BY <1>31, RestartDoes DEF LostInv
<1>32. CASE UNCHANGED vars
  BY <1>32 DEF LostInv, vars
<1>33. QED
  BY <1>1, <1>2, <1>3, <1>4, <1>5, <1>6, <1>7, <1>8, <1>9, <1>10, <1>11, <1>12, <1>13,
     <1>14, <1>15, <1>16, <1>17, <1>18, <1>19, <1>20, <1>21, <1>22, <1>23, <1>24, <1>25,
     <1>26, <1>27, <1>28, <1>29, <1>30, <1>31, <1>32, <1>34, <1>35, <1>36, <1>37, <1>38
  DEF Next, DriverStep, SweepStep, RequestStep, BootStep, SnapshotStep


LEMMA OneKept ==
    ASSUME TypeOK, OneInv, [Next]_vars
    PROVE  OneInv'
<1>1. CASE \E a \in Actors : Mirroring(a)
  <2>1. PICK a \in Actors : Mirroring(a)
    BY <1>1
  <2>2. SUFFICES ASSUME ~hist'.parted, NEW b \in Actors, Busy(b)'
                 PROVE  b = a
    BY DEF OneInv
  <2>3. hist'.parted = (hist.parted \/ \E c \in Actors \ {a} : Busy(c))
    BY <2>1, MirroringDoes
  <2>4. b # a => snap'[b] = snap[b]
    BY <2>1, MirroringDoes
  <2>5. QED
    BY <2>2, <2>3, <2>4 DEF Busy
<1>2. CASE UNCHANGED snap /\ hist'.parted = hist.parted
  BY <1>2 DEF OneInv, Busy
<1>3. CASE \E a \in Actors : SnapshotStep(a)
  <2>1. PICK a \in Actors : SnapshotStep(a)
    BY <1>3
  <2>2. /\ \A b \in Actors : Busy(b)' => Busy(b)
        /\ hist'.parted = hist.parted
    BY <2>1, ReadDoes, CommitDoes, CommitFailsDoes DEF SnapshotStep, Busy
  <2>3. QED
    BY <2>2 DEF OneInv
<1>4. CASE \E wiped \in BOOLEAN : Restart(wiped)
  <2>1. \A a \in Actors : ~Busy(a)'
    BY <1>4, RestartDoes, NoSnapshotType DEF Busy
  <2>2. QED
    BY <2>1 DEF OneInv
<1>5. CASE UNCHANGED vars
  BY <1>5 DEF vars, OneInv, Busy
<1>6. CASE DriverStep
  BY <1>6, <1>1, <1>2
  DEF DriverStep, Launch, PassOver, Claim, Produce, ProviderFails, Complete, CompleteRaises,
      LaneFails, Repair, PatchPage, PageLeft, GiveUp, AllDriven, Finalize, SealPark, SealMark,
      Actors
<1>7. CASE SweepStep
  <2>1. hist'.parted = hist.parted \/ Mirroring("sweep")
    BY <1>7, PurgeDoes
    DEF SweepStep, SweepSees, SweepParks, SweepMarks, DeleteDemoBoard, SweepPurges, Removed,
        Interrupted, TypeOK
  <2>2. UNCHANGED snap \/ Mirroring("sweep")
    BY <1>7
    DEF SweepStep, SweepSees, SweepParks, SweepMarks, DeleteDemoBoard, SweepPurges
  <2>3. QED
    BY <2>1, <2>2, <1>1, <1>2 DEF Actors
<1>8. CASE RequestStep
  <2>1. hist'.parted = hist.parted \/ Mirroring("reopen")
    BY <1>8, PurgeDoes
    DEF RequestStep, Reopen, Rearm, ReopenRow, EraseRow, DeleteBoards, ErasePurges, Removed,
        Interrupted, TypeOK
  <2>2. UNCHANGED snap \/ Mirroring("reopen")
    BY <1>8
    DEF RequestStep, Reopen, Rearm, ReopenRow, EraseRow, DeleteBoards, ErasePurges
  <2>3. QED
    BY <2>1, <2>2, <1>1, <1>2 DEF Actors
<1>9. CASE BootStep \/ Tick
  BY <1>9, <1>2 DEF BootStep, RestoreSchema, RestoreRows, RestoreFiles, RestoreFails, Resume, Tick
<1>10. QED
  BY <1>3, <1>4, <1>5, <1>6, <1>7, <1>8, <1>9 DEF Next


------------------------------------------------------------------------------
(* The mirror is the board, but for what is due. *)

\* The files change to later ones, the builder's alone.
Later ==
    /\ \A i \in Lanes \ {Builder} : disk'.files[i] = disk.files[i]
    /\ disk'.files[Builder] >= disk.files[Builder]

\* A step that starts no snapshot says what it leaves due.
KeepsAgreeing ==
    /\ UNCHANGED <<kind, boot, mirror, snap>> /\ boot \notin {"rows", "files"}
    /\ hist'.missed = hist.missed
    /\ Clean' => Clean
    /\ Alone' => Alone
    /\ Clean' /\ disk'.lane # NoDb => disk.lane # NoDb
    /\ kind = "project" /\ ~LaneDue' => ~LaneDue /\ disk'.lane = disk.lane
    /\ ~FilesDue' => ~FilesDue /\ Later
    /\ Alone' => disk'.files = disk.files \/ (Still /\ (FilesDue' \/ PageDue'))
    /\ Alone' /\ ~FilesDue' /\ ~PageDue' => ~FilesDue /\ ~PageDue
    /\ ~SealDue' => ~SealDue /\ disk'.sealed = disk.sealed

LEMMA SameIsLater == TypeOK /\ disk'.files = disk.files => Later
<1>1. SUFFICES ASSUME TypeOK, disk'.files = disk.files
               PROVE  Later
  OBVIOUS
<1>2. disk.files \in [Lanes -> Nat] /\ Builder \in Lanes
  BY <1>1, BuilderType DEF TypeOK, Board, Files
<1>3. disk.files[Builder] \in Nat
  BY <1>2
<1>4. QED
  BY <1>1, <1>3 DEF Later

LEMMA WroteIsLater ==
    ASSUME TypeOK, TypeOK', Wrote(Builder)
    PROVE  Later
<1>0. /\ disk.files \in [Lanes -> Nat] /\ disk'.files \in [Lanes -> Nat]
      /\ Builder \in Lanes
  BY BuilderType DEF TypeOK, Board, Files
<1>1. disk.files[Builder] \in Nat /\ disk'.files[Builder] \in Nat
  BY <1>0
<1>2. disk'.files[Builder] > disk.files[Builder]
  BY DEF Wrote
<1>3. disk'.files[Builder] >= disk.files[Builder]
  BY <1>1, <1>2
<1>4. QED
  BY <1>3 DEF Wrote, Later

LEMMA FollowsLater ==
    ASSUME TypeOK, TypeOK', UNCHANGED kind, NEW files \in Files, Follows(files), Later
    PROVE  Follows(files)'
<1>1. Builder' = Builder
  BY DEF Builder
<1>2. files[Builder] \in Nat /\ disk.files[Builder] \in Nat /\ disk'.files[Builder] \in Nat
  <2>1. disk.files \in [Lanes -> Nat] /\ disk'.files \in [Lanes -> Nat] /\ Builder \in Lanes
    BY BuilderType DEF TypeOK, Board, Files
  <2>2. QED
    BY <2>1 DEF Files
<1>3. files[Builder] <= disk.files[Builder] /\ disk'.files[Builder] >= disk.files[Builder]
  BY DEF Follows, Later
<1>4. files[Builder] <= disk'.files[Builder]
  BY <1>2, <1>3
<1>5. QED
  BY <1>1, <1>4 DEF Follows, Later

LEMMA SameFollows ==
    ASSUME TypeOK, NEW files \in Files, files = disk.files
    PROVE  Follows(files)
<1>1. disk.files[Builder] \in Nat
  BY BuilderType DEF TypeOK, Board, Files
<1>2. QED
  BY <1>1 DEF Follows

LEMMA AgreeFrame ==
    ASSUME TypeOK, TypeOK', AgreeInv, KeepsAgreeing
    PROVE  AgreeInv'
<1>1. SUFFICES ASSUME Clean', disk'.lane # NoDb
               PROVE  SnapAgrees' /\ MirrorAgrees'
  BY DEF AgreeInv, KeepsAgreeing
<1>2. SnapAgrees /\ MirrorAgrees /\ Clean
  BY <1>1 DEF AgreeInv, KeepsAgreeing
<1>3. kind = "project" /\ ~hist'.reopened => Alone'
  BY <1>1 DEF KeepsAgreeing, Alone, Clean
<1>4. kind = "project" /\ ~hist'.reopened => ~hist.reopened
  BY <1>3 DEF KeepsAgreeing, Alone
<1>5. SnapAgrees'
  <2>1. SUFFICES ASSUME NEW a \in Actors
                 PROVE
        /\ snap[a].pc \in Read /\ kind = "project" /\ ~LaneDue' => snap[a].lane = disk'.lane
        /\ snap[a].pc \in {"seal", "commit"} /\ ~FilesDue' => Follows(snap[a].files)'
        /\ snap[a].pc \in {"seal", "commit"} /\ kind = "project" /\ ~hist'.reopened =>
               snap[a].files = disk'.files
        /\ snap[a].pc = "commit" /\ ~SealDue' => snap[a].sealed = disk'.sealed
    BY DEF SnapAgrees, KeepsAgreeing
  <2>2. snap[a].pc \in Read /\ kind = "project" /\ ~LaneDue' => snap[a].lane = disk'.lane
    BY <1>2 DEF SnapAgrees, KeepsAgreeing
  <2>3. snap[a].pc \in {"seal", "commit"} /\ ~FilesDue' => Follows(snap[a].files)'
    <3>1. SUFFICES ASSUME snap[a].pc \in {"seal", "commit"}, ~FilesDue'
                   PROVE  Follows(snap[a].files)'
      OBVIOUS
    <3>2. Follows(snap[a].files) /\ Later /\ UNCHANGED <<kind, snap>>
      BY <1>2, <3>1 DEF SnapAgrees, KeepsAgreeing
    <3>3. snap[a].files \in Files
      BY DEF TypeOK, Snapshot
    <3>4. \A f \in Files : Follows(f) => Follows(f)'
      BY <3>2, FollowsLater
    <3>5. Builder' = Builder
      BY <3>2 DEF Builder
    <3>6. QED
      BY <3>2, <3>3, <3>4, <3>5 DEF Follows
  <2>4. snap[a].pc \in {"seal", "commit"} /\ kind = "project" /\ ~hist'.reopened =>
               snap[a].files = disk'.files
    BY <1>2, <1>3, <1>4 DEF SnapAgrees, KeepsAgreeing, Still, Busy
  <2>5. snap[a].pc = "commit" /\ ~SealDue' => snap[a].sealed = disk'.sealed
    BY <1>2 DEF SnapAgrees, KeepsAgreeing
  <2>6. QED
    BY <2>2, <2>3, <2>4, <2>5
<1>6. MirrorAgrees'
  <2>1. SUFFICES ASSUME Still', ~hist'.missed
                 PROVE
        /\ mirror.there
        /\ kind = "project" /\ ~LaneDue' => mirror.lane = disk'.lane
        /\ ~FilesDue' => Follows(mirror.files)'
        /\ kind = "project" /\ ~hist'.reopened /\ ~FilesDue' /\ ~PageDue' =>
               mirror.files = disk'.files
        /\ ~SealDue' => mirror.sealed = disk'.sealed
    BY DEF MirrorAgrees, KeepsAgreeing
  <2>2. Still /\ ~hist.missed /\ UNCHANGED <<kind, mirror>>
    BY <2>1 DEF KeepsAgreeing, Still, Busy
  <2>3. ~FilesDue' => Follows(mirror.files)'
    <3>1. SUFFICES ASSUME ~FilesDue'
                   PROVE  Follows(mirror.files)'
      OBVIOUS
    <3>2. Follows(mirror.files) /\ Later
      BY <1>2, <2>2, <3>1 DEF MirrorAgrees, KeepsAgreeing
    <3>3. mirror.files \in Files
      BY DEF TypeOK, Copy
    <3>4. \A f \in Files : Follows(f) => Follows(f)'
      BY <2>2, <3>2, FollowsLater
    <3>5. Builder' = Builder
      BY <2>2 DEF Builder
    <3>6. QED
      BY <2>2, <3>2, <3>3, <3>4, <3>5 DEF Follows
  <2>4. kind = "project" /\ ~hist'.reopened /\ ~FilesDue' /\ ~PageDue' =>
               mirror.files = disk'.files
    BY <1>2, <1>3, <1>4, <2>2 DEF MirrorAgrees, KeepsAgreeing
  <2>5. /\ mirror.there
        /\ kind = "project" /\ ~LaneDue' => mirror.lane = disk'.lane
        /\ ~SealDue' => mirror.sealed = disk'.sealed
    BY <1>2, <2>2 DEF MirrorAgrees, KeepsAgreeing
  <2>6. QED
    BY <2>3, <2>4, <2>5
<1>7. QED
  BY <1>5, <1>6

\* One that starts a snapshot has it alone, unless snapshots overlap.
LEMMA AgreeMirroring ==
    ASSUME TypeOK, NEW a \in Actors, Mirroring(a), boot' \notin {"rows", "files"}
    PROVE  AgreeInv'
<1>1. SUFFICES ASSUME ~hist'.parted
               PROVE  SnapAgrees' /\ MirrorAgrees'
  BY DEF AgreeInv, Clean
<1>2. hist'.parted = (hist.parted \/ \E b \in Actors \ {a} : Busy(b))
  BY MirroringDoes
<1>3. \A b \in Actors \ {a} : snap'[b].pc = "off"
  <2>1. \A b \in Actors \ {a} : snap'[b] = snap[b]
    BY MirroringDoes
  <2>2. \A b \in Actors \ {a} : ~Busy(b)
    BY <1>1, <1>2
  <2>3. QED
    BY <2>1, <2>2 DEF Busy
<1>4. snap'[a].pc = "tasks"
  BY MirroringDoes
<1>5. QED
  BY <1>3, <1>4 DEF SnapAgrees, MirrorAgrees, Still, Busy, Read

\* A step of another thread than the driver, and one of the driver that stays
\* where it is, leave due what is.
LEMMA AgreeOther ==
    ASSUME TypeOK, TypeOK', AgreeInv, UNCHANGED <<kind, boot, mirror, snap, driver, reopen, hist>>,
           boot \notin {"rows", "files"}, disk'.lane # NoDb => disk.lane # NoDb,
           kind = "project" => disk'.lane = disk.lane,
           disk'.files = disk.files, disk'.sealed = disk.sealed
    PROVE  AgreeInv'
<1>1. Later
  BY SameIsLater
<1>2. /\ LaneDue' = LaneDue /\ FilesDue' = FilesDue /\ SealDue' = SealDue /\ PageDue' = PageDue
  BY DEF LaneDue, FilesDue, SealDue, PageDue, Builder
<1>3. KeepsAgreeing
  BY <1>1, <1>2 DEF KeepsAgreeing, Clean, Alone
<1>4. QED
  BY <1>3, AgreeFrame

\* A step of the driver that keeps the files says how far it has come.
LEMMA AgreeDriver ==
    ASSUME TypeOK, TypeOK', AgreeInv, UNCHANGED <<kind, boot, mirror, snap, reopen, hist>>,
           boot \notin {"rows", "files"},
           Clean /\ disk'.lane # NoDb => disk.lane # NoDb,
           kind = "project" /\ ~LaneDue' => ~LaneDue /\ disk'.lane = disk.lane,
           ~FilesDue' => ~FilesDue,
           Alone /\ ~FilesDue' /\ ~PageDue' => ~PageDue,
           disk'.files = disk.files, disk'.sealed = disk.sealed
    PROVE  AgreeInv'
<1>1. Later
  BY SameIsLater
<1>2. SealDue' = SealDue /\ Clean' = Clean /\ Alone' = Alone
  BY DEF SealDue, Clean, Alone
<1>3. KeepsAgreeing
  BY <1>1, <1>2 DEF KeepsAgreeing
<1>4. QED
  BY <1>3, AgreeFrame

LEMMA AgreeKept ==
    ASSUME TypeOK, TypeOK', PlaceInv, OrderInv, LostInv, OneInv, AgreeInv, [Next]_vars
    PROVE  AgreeInv'
<1>0. "driver" \in Actors /\ "sweep" \in Actors /\ "reopen" \in Actors /\ Last \in Lanes
  BY MirrorAssumption DEF Actors, Lanes
<1>a. disk \in Board /\ mirror \in Copy /\ driver \in DriverRec
  BY DEF TypeOK, DriverRec
<1>b. boot = "up" => boot \notin {"rows", "files"}
  OBVIOUS
<1>c. Alone => ~Busy("sweep") /\ ~Busy("reopen")
  BY DEF Alone, PlaceInv
<1>d. Alone /\ ~Busy("driver") => Still
  BY <1>c DEF Still, Actors
<1>1. CASE PassOver
  <2>1. /\ driver.pc = "lane" /\ driver'.pc = "lane" /\ driver.at \in driver.skip
        /\ driver'.at = driver.at + 1 /\ driver'.skip = driver.skip /\ boot = "up"
        /\ UNCHANGED <<kind, boot, disk, mirror, snap, reopen, hist>>
    BY <1>1, <1>a DEF PassOver, DriverAt, DriverRec, host
  <2>2. Alone => ~PageDue
    <3>1. SUFFICES ASSUME Alone, PageDue
                   PROVE  FALSE
      OBVIOUS
    <3>2. Builder \in Lanes /\ driver.at \in Lanes /\ Builder \notin driver.skip
          /\ driver.at \in {Builder, Builder + 1}
      BY <2>1, <3>1, <1>a, BuilderType DEF PageDue, DriverRec
    <3>3. driver.at = Builder + 1 /\ Builder < driver.at
      BY <2>1, <3>2 DEF Lanes
    <3>4. QED
      BY <2>1, <3>1, <3>2, <3>3 DEF OrderInv, Alone, Driving
  <2>3. QED
    BY <2>1, <2>2, AgreeDriver DEF LaneDue, FilesDue
<1>2. CASE Claim
  <2>1. /\ driver.pc = "lane" /\ driver'.pc \in {"call", "raise"} /\ driver'.at = driver.at
        /\ driver'.skip = driver.skip /\ boot = "up" /\ SameFiles
        /\ UNCHANGED <<kind, boot, mirror, snap, reopen, hist>>
    BY <1>2, <1>a, ClaimDoes DEF Claim, DriverAt, DriverRec, host
  <2>2. Clean => disk.lane # NoDb
    BY <2>1 DEF Clean, LostInv
  <2>3. LaneDue' /\ ~FilesDue /\ PageDue' = PageDue
    BY <2>1 DEF LaneDue, FilesDue, PageDue, Driving, Builder
  <2>4. QED
    BY <2>1, <2>2, <2>3, AgreeDriver DEF SameFiles
<1>3. CASE Produce
  <2>1. /\ driver.at \in Lanes /\ driver'.pc = "finish" /\ driver.pc = "call"
        /\ disk'.lane = disk.lane /\ disk'.sealed = disk.sealed /\ boot = "up" /\ ~Busy("driver")
        /\ UNCHANGED <<kind, boot, mirror, snap, reopen, hist>>
    BY <1>3, ProduceDoes DEF Wrote, Produce, DriverAt, host
  <2>2. FilesDue' /\ LaneDue' /\ SealDue' = SealDue /\ Clean' = Clean /\ Alone' = Alone
    BY <2>1 DEF FilesDue, LaneDue, SealDue, Clean, Alone
  <2>3. KeepsAgreeing
    BY <2>1, <2>2, <1>d DEF KeepsAgreeing
  <2>4. QED
    BY <2>3, AgreeFrame
<1>4. CASE ProviderFails
  <2>1. /\ driver.pc = "call" /\ driver'.pc = "raise" /\ boot = "up"
        /\ UNCHANGED <<kind, boot, disk, mirror, snap, reopen, hist>>
    BY <1>4, <1>a DEF ProviderFails, DriverAt, Drive, DriverRec, host
  <2>2. QED
    BY <2>1, AgreeDriver DEF LaneDue, FilesDue
<1>5. CASE CompleteRaises
  <2>1. /\ driver.pc = "finish" /\ driver'.pc = "raise" /\ boot = "up" /\ Connect
        /\ UNCHANGED <<kind, boot, mirror, snap, reopen, hist>>
    BY <1>5, <1>a DEF CompleteRaises, DriverAt, Drive, DriverRec, host
  <2>2. SameFiles /\ (Clean => disk.lane # NoDb)
    BY <2>1, ConnectDoes DEF Clean, LostInv
  <2>3. QED
    BY <2>1, <2>2, AgreeDriver DEF LaneDue, FilesDue, SameFiles
<1>6. CASE GiveUp
  <2>1. /\ driver.pc = "lost" /\ driver'.pc \in {"off", "end"} /\ boot = "up" /\ SameFiles
        /\ kind = "project" => disk' = disk
        /\ UNCHANGED <<kind, boot, mirror, snap, reopen, hist>>
    BY <1>6, <1>a, <1>0, FailDoes
    DEF GiveUp, DriverAt, Drive, DriverRec, host, Untouched, SameFiles
  <2>2. Clean => disk.lane # NoDb
    BY <2>1 DEF Clean, LostInv
  <2>3. ~LaneDue /\ ~FilesDue /\ ~PageDue
    BY <2>1 DEF LaneDue, FilesDue, PageDue, Driving
  <2>4. QED
    BY <2>1, <2>2, <2>3, AgreeDriver DEF SameFiles
<1>7. CASE AllDriven
  <2>1. /\ driver.pc = "lane" /\ driver.at = Last + 1 /\ driver'.pc \in {"off", "end"}
        /\ boot = "up" /\ UNCHANGED <<kind, boot, mirror, snap, reopen, hist>>
    BY <1>7, AllDrivenDoes DEF AllDriven, DriverAt, host
  <2>2. disk'.lane = disk.lane /\ disk'.sealed = disk.sealed /\ Later
        /\ (kind = "project" => disk' = disk)
    BY <1>7, AllDrivenDoes, SameIsLater, WroteIsLater DEF Wrote
  <2>3. ~LaneDue /\ ~FilesDue
    BY <2>1 DEF LaneDue, FilesDue
  <2>4. Alone => ~PageDue
    <3>1. Alone => Builder <= Last - 1 /\ Builder \in Int /\ Last \in Int
      BY BuilderType, MirrorAssumption DEF Alone, Lanes
    <3>2. QED
      BY <2>1, <3>1 DEF PageDue
  <2>5. SealDue' = SealDue /\ Clean' = Clean /\ Alone' = Alone /\ (Alone => kind = "project")
    BY <2>1 DEF SealDue, Clean, Alone
  <2>6. KeepsAgreeing
    BY <2>1, <2>2, <2>3, <2>4, <2>5 DEF KeepsAgreeing
  <2>7. QED
    BY <2>6, AgreeFrame
<1>8. CASE Finalize
  <2>1. /\ driver.pc = "end" /\ driver'.pc \in {"off", "flip"} /\ boot = "up"
        /\ UNCHANGED <<kind, boot, disk, mirror, snap, reopen, hist>>
    BY <1>8, <1>a DEF Finalize, DriverAt, Drive, DriverRec, host
  <2>2. QED
    BY <2>1, AgreeDriver DEF LaneDue, FilesDue, PageDue, Driving
<1>9. CASE SealPark
  <2>1. /\ driver.pc = "flip" /\ driver'.pc = "mark" /\ boot = "up" /\ Park
        /\ UNCHANGED <<kind, boot, mirror, snap, reopen, hist>>
    BY <1>9, <1>a DEF SealPark, DriverAt, Drive, DriverRec, host
  <2>2. SameFiles /\ (disk.lane # NoDb <=> disk'.lane # NoDb)
    BY <2>1, ParkDoes
  <2>3. QED
    BY <2>1, <2>2, AgreeDriver DEF LaneDue, FilesDue, PageDue, Driving, SameFiles
<1>34. CASE \E narrow \in BOOLEAN : Repair(narrow)
  <2>0. PICK narrow \in BOOLEAN : Repair(narrow)
    BY <1>34
  <2>1. /\ driver.pc = "page" /\ driver'.pc \in {"call", "raise"} /\ driver'.at = driver.at
        /\ driver'.skip = driver.skip /\ boot = "up" /\ SameFiles
        /\ UNCHANGED <<kind, boot, mirror, snap, reopen, hist>>
    BY <2>0, RepairDoes DEF Repair, DriverAt, host
  <2>2. Clean => disk.lane # NoDb
    BY <2>1 DEF Clean, LostInv
  <2>3. LaneDue' /\ ~FilesDue /\ PageDue' = PageDue
    BY <2>1 DEF LaneDue, FilesDue, PageDue, Driving, Builder
  <2>4. QED
    BY <2>1, <2>2, <2>3, AgreeDriver DEF SameFiles
<1>35. CASE PatchPage
  <2>1. /\ driver.pc = "page" /\ driver.at = Builder /\ Builder \notin driver.skip
        /\ Wrote(Builder) /\ boot = "up" /\ ~Busy("driver")
        /\ UNCHANGED <<kind, boot, mirror, snap, driver, reopen, hist>>
    BY <1>35, PatchPageDoes DEF PatchPage, DriverAt, host, threads
  <2>2. disk'.lane = disk.lane /\ disk'.sealed = disk.sealed /\ Later
    BY <2>1, WroteIsLater DEF Wrote
  <2>3. PageDue /\ PageDue' /\ ~FilesDue /\ ~FilesDue' /\ ~LaneDue
    BY <2>1 DEF PageDue, FilesDue, LaneDue, Driving, Builder
  <2>4. SealDue' = SealDue /\ Clean' = Clean /\ Alone' = Alone
    BY <2>1 DEF SealDue, Clean, Alone
  <2>5. KeepsAgreeing
    BY <2>1, <2>2, <2>3, <2>4, <1>d DEF KeepsAgreeing
  <2>6. QED
    BY <2>5, AgreeFrame
<1>36. CASE PageLeft
  <2>1. /\ driver.pc = "page" /\ driver.at = Builder /\ Builder \notin driver.skip
        /\ driver'.pc = "lane" /\ driver'.at = Builder + 1 /\ driver'.skip = driver.skip
        /\ boot = "up" /\ UNCHANGED <<kind, boot, disk, mirror, snap, reopen, hist>>
    BY <1>36, PageLeftDoes DEF PageLeft, DriverAt, host
  <2>2. PageDue' /\ ~LaneDue /\ ~FilesDue
    BY <2>1 DEF PageDue, LaneDue, FilesDue, Driving, Builder
  <2>3. QED
    BY <2>1, <2>2, AgreeDriver
<1>10. CASE Launch
  <2>1. Mirroring("driver") /\ boot' = "up"
    BY <1>10 DEF DriverAt, Launch, host
  <2>2. QED
    BY <2>1, <1>0, AgreeMirroring
<1>11. CASE Complete
  <2>1. Mirroring("driver") /\ boot' = "up"
    BY <1>11 DEF DriverAt, Complete, host
  <2>2. QED
    BY <2>1, <1>0, AgreeMirroring
<1>12. CASE LaneFails
  <2>1. Mirroring("driver") /\ boot' = "up"
    BY <1>12 DEF DriverAt, LaneFails, host
  <2>2. QED
    BY <2>1, <1>0, AgreeMirroring
<1>13. CASE SealMark
  <2>1. Mirroring("driver") /\ boot' = "up"
    BY <1>13 DEF DriverAt, SealMark, host
  <2>2. QED
    BY <2>1, <1>0, AgreeMirroring
<1>14. CASE SweepSees
  BY <1>14, AgreeOther DEF SweepAt, SweepSees, host
<1>15. CASE SweepParks
  <2>1. /\ kind # "project" /\ boot = "up" /\ Park
        /\ UNCHANGED <<kind, boot, mirror, snap, driver, reopen, hist>>
    BY <1>15 DEF SweepAt, SweepParks, host, PlaceInv
  <2>2. QED
    BY <2>1, ParkDoes, AgreeOther DEF SameFiles
<1>16. CASE SweepMarks
  <2>1. Mirroring("sweep") /\ boot' = "up"
    BY <1>16 DEF SweepAt, SweepMarks, host
  <2>2. QED
    BY <2>1, <1>0, AgreeMirroring
<1>17. CASE DeleteDemoBoard
  <2>1. hist'.removed \/ UNCHANGED <<kind, boot, disk, mirror, snap, driver, reopen, hist>>
    BY <1>17, RemovedDoes, InterruptedDoes DEF DeleteDemoBoard, Untouched, host
  <2>2. boot = "up"
    BY <1>17 DEF DeleteDemoBoard, SweepAt
  <2>3. QED
    BY <2>1, <2>2, AgreeOther DEF AgreeInv, Clean
<1>18. CASE SweepPurges
  <2>1. hist'.removed
    BY <1>18, PurgeDoes DEF SweepPurges, PlaceInv, SweepAt
  <2>2. QED
    BY <2>1 DEF AgreeInv, Clean
<1>19. CASE Reopen
  <2>1. /\ boot = "up" /\ UNCHANGED <<kind, boot, mirror, snap, driver>> /\ reopen' = "rearm"
        /\ disk'.lane = disk.lane /\ disk'.files = disk.files
    BY <1>19, <1>a DEF Reopen, Board, host
  <2>2. /\ hist'.missed = hist.missed /\ hist'.removed = hist.removed /\ hist'.torn = hist.torn
        /\ hist'.parted = hist.parted /\ hist'.reopened
    BY <1>19 DEF Reopen, TypeOK
  <2>3. /\ SealDue' /\ LaneDue' = LaneDue /\ FilesDue' = FilesDue /\ ~Alone' /\ Clean' = Clean
    BY <2>1, <2>2 DEF SealDue, LaneDue, FilesDue, Alone, Clean
  <2>4. KeepsAgreeing
    BY <2>1, <2>2, <2>3, SameIsLater DEF KeepsAgreeing
  <2>5. QED
    BY <2>4, AgreeFrame
<1>20. CASE ReopenRow
  <2>1. /\ boot = "up" /\ UNCHANGED <<kind, boot, disk, mirror, snap, driver, hist>>
        /\ reopen = "row" /\ reopen' = "off"
    BY <1>20 DEF ReopenRow, host
  <2>2. QED
    BY <2>1
    DEF AgreeInv, Clean, SnapAgrees, MirrorAgrees, LaneDue, FilesDue, SealDue, PageDue, Builder,
        Follows, Still, Busy
<1>21. CASE EraseRow
  BY <1>21, AgreeOther DEF EraseRow, host
<1>22. CASE Rearm
  <2>1. Mirroring("reopen") /\ boot' = "up"
    BY <1>22 DEF Rearm, host
  <2>2. QED
    BY <2>1, <1>0, AgreeMirroring
<1>23. CASE DeleteBoards
  <2>1. hist'.removed \/ UNCHANGED <<kind, boot, disk, mirror, snap, driver, reopen, hist>>
    BY <1>23, RemovedDoes, InterruptedDoes DEF DeleteBoards, Untouched, host
  <2>2. boot = "up"
    BY <1>23 DEF DeleteBoards
  <2>3. QED
    BY <2>1, <2>2, AgreeOther DEF AgreeInv, Clean
<1>24. CASE ErasePurges
  <2>1. hist'.removed
    BY <1>24, PurgeDoes DEF ErasePurges, PlaceInv
  <2>2. QED
    BY <2>1 DEF AgreeInv, Clean
<1>25. CASE RestoreSchema
  <2>1. CASE boot' = "resume"
    BY <1>25, <2>1, RestoreSchemaDoes
    DEF AgreeInv, Clean, SnapAgrees, MirrorAgrees, LaneDue, FilesDue, SealDue, PageDue, Builder,
        Follows, Still, Busy, threads
  <2>2. CASE boot' = "rows"
    <3>1. ~hist.removed => disk = NoBoard
      BY <1>25, <2>2, RestoreSchemaDoes DEF LostInv
    <3>2. ~hist.removed => HalfRestored'
      BY <1>25, <2>2, <3>1, RestoreSchemaDoes DEF HalfRestored, NoBoard
    <3>3. QED
      BY <1>25, <2>2, <3>2, RestoreSchemaDoes DEF AgreeInv, Clean
  <2>3. QED
    BY <1>25, <2>1, <2>2, RestoreSchemaDoes
<1>37. CASE RestoreRows
  <2>1. /\ boot = "rows" /\ boot' = "files" /\ disk'.lane = mirror.lane /\ SameFiles
        /\ UNCHANGED <<mirror, hist>> /\ disk.lane = Blank
    BY <1>37, RestoreRowsDoes
  <2>2. disk.lane # NoDb
    BY <2>1, BlankIsLanes, LanesAreNoBlank
  <2>3. Clean' => HalfRestored
    BY <2>1, <2>2 DEF AgreeInv, Clean
  <2>4. HalfRestored => HalfRestored'
    BY <2>1 DEF HalfRestored, SameFiles
  <2>5. QED
    BY <2>1, <2>3, <2>4 DEF AgreeInv
<1>26. CASE RestoreFiles
  <2>1. SUFFICES ASSUME Clean'
                 PROVE  SnapAgrees' /\ MirrorAgrees'
    BY <1>26, RestoreFilesDoes DEF AgreeInv
  <2>2. /\ boot = "files" /\ disk.lane # NoDb /\ UNCHANGED <<kind, mirror, driver, snap, hist>>
        /\ disk'.lane = disk.lane /\ disk'.sealed = (disk.sealed \/ mirror.sealed)
        /\ \A a \in Actors : snap'[a].pc = "off"
    BY <1>26, RestoreFilesDoes DEF Still, Busy, threads
  <2>3. HalfRestored
    BY <2>1, <2>2 DEF AgreeInv, Clean
  <2>4. disk'.files = mirror.files
    <3>1. mirror.files \in [Lanes -> Nat] /\ disk'.files \in [Lanes -> Nat]
      BY <1>26, <1>a, RestoreFilesDoes DEF Copy, Files
    <3>2. \A i \in Lanes : disk'.files[i] = mirror.files[i]
      <4>1. TAKE i \in Lanes
      <4>2. disk'.files[i] = IF mirror.files[i] > 0 THEN mirror.files[i] ELSE 0
        BY <1>26, <2>3, RestoreFilesDoes DEF HalfRestored, NoFiles
      <4>3. mirror.files[i] \in Nat
        BY <3>1
      <4>4. QED
        BY <4>2, <4>3
    <3>3. QED
      BY <3>1, <3>2
  <2>5. disk'.sealed = mirror.sealed /\ disk'.lane = mirror.lane /\ mirror.there
    BY <2>2, <2>3, <1>a DEF HalfRestored, Copy
  <2>6. Follows(mirror.files)'
    <3>1. mirror'.files = disk'.files /\ mirror'.files \in Files
      BY <2>2, <2>4, <1>a DEF Copy
    <3>2. disk'.files[Builder'] \in Nat
      <4>1. Builder' = Builder
        BY <2>2 DEF Builder
      <4>2. QED
        BY <3>1, <4>1, BuilderType DEF Files
    <3>3. QED
      BY <3>1, <3>2 DEF Follows
  <2>7. MirrorAgrees'
    BY <2>2, <2>4, <2>5, <2>6 DEF MirrorAgrees
  <2>8. QED
    BY <2>2, <2>7 DEF SnapAgrees, Read
<1>38. CASE RestoreFails
  <2>1. /\ boot = "restore" /\ boot' = "resume"
        /\ UNCHANGED <<kind, disk, mirror, driver, reopen, snap, hist>>
    BY <1>38 DEF RestoreFails, threads
  <2>2. QED
    BY <2>1
    DEF AgreeInv, Clean, SnapAgrees, MirrorAgrees, LaneDue, FilesDue, SealDue, PageDue, Builder,
        Follows, Still, Busy
<1>27. CASE Resume
  <2>1. /\ boot = "resume" /\ boot' = "up" /\ UNCHANGED <<kind, disk, mirror, reopen, snap, hist>>
        /\ ~LaneDue /\ ~FilesDue /\ ~PageDue /\ ~LaneDue' /\ ~FilesDue'
    BY <1>27 DEF Resume, PlaceInv, LaneDue, FilesDue, PageDue, Driving
  <2>2. QED
    BY <2>1
    DEF AgreeInv, Clean, SnapAgrees, MirrorAgrees, SealDue, Builder, Follows, Still, Busy
<1>28. CASE Tick
  BY <1>28, AgreeOther DEF Tick, host, threads
<1>29. CASE \E a \in Actors : SnapshotTasks(a) \/ SnapshotFiles(a) \/ SealFlag(a)
  <2>1. PICK a \in Actors : SnapshotTasks(a) \/ SnapshotFiles(a) \/ SealFlag(a)
    BY <1>29
  <2>2. UNCHANGED <<kind, boot, disk, mirror, driver, reopen, hist>> /\ boot = "up"
        /\ Busy(a) /\ Busy(a)'
    BY <2>1, ReadDoes DEF host, threads, PlaceInv, Still, Busy
  <2>3. SUFFICES ASSUME Clean, disk.lane # NoDb
                 PROVE  SnapAgrees'
    BY <2>2 DEF AgreeInv, Clean, MirrorAgrees, Still
  <2>4. SnapAgrees
    BY <2>2, <2>3 DEF AgreeInv
  <2>5. \A b \in Actors \ {a} : snap'[b] = snap[b]
    BY <2>1, ReadDoes
  <2>6. CASE SnapshotTasks(a)
    <3>1. snap'[a].pc = "files" /\ snap'[a].lane = disk.lane
      BY <2>1, <2>3, <2>6, ReadDoes
    <3>2. QED
      BY <2>2, <2>4, <2>5, <3>1
      DEF SnapAgrees, LaneDue, FilesDue, SealDue, Builder, Follows, Read
  <2>7. CASE SnapshotFiles(a)
    <3>1. /\ snap[a].pc = "files" /\ snap'[a].pc = "seal" /\ snap'[a].lane = snap[a].lane
          /\ snap'[a].files = disk.files
      BY <2>1, <2>7, ReadDoes
    <3>2. Follows(disk.files)
      BY <1>a, SameFollows DEF Board
    <3>3. QED
      BY <2>2, <2>4, <2>5, <3>1, <3>2
      DEF SnapAgrees, LaneDue, FilesDue, SealDue, Builder, Follows, Read
  <2>8. CASE SealFlag(a)
    <3>1. /\ snap[a].pc = "seal" /\ snap'[a].pc = "commit" /\ snap'[a].lane = snap[a].lane
          /\ snap'[a].files = snap[a].files /\ snap'[a].sealed = disk.sealed
      BY <2>1, <2>8, ReadDoes
    <3>2. QED
      BY <2>2, <2>4, <2>5, <3>1
      DEF SnapAgrees, LaneDue, FilesDue, SealDue, Builder, Follows, Read
  <2>9. QED
    BY <2>1, <2>6, <2>7, <2>8
<1>30. CASE \E a \in Actors : Commit(a)
  <2>1. PICK a \in Actors : Commit(a)
    BY <1>30
  <2>2. UNCHANGED <<kind, boot, disk, driver, reopen>> /\ snap[a].pc = "commit" /\ boot = "up"
        /\ hist'.removed = hist.removed /\ hist'.torn = hist.torn /\ hist'.parted = hist.parted
        /\ hist'.reopened = hist.reopened
    BY <2>1, CommitDoes DEF Commit, host, threads, PlaceInv, Still, Busy
  <2>3. SUFFICES ASSUME Clean, disk.lane # NoDb
                 PROVE  SnapAgrees' /\ MirrorAgrees'
    BY <2>2 DEF AgreeInv, Clean
  <2>4. SnapAgrees
    BY <2>2, <2>3 DEF AgreeInv
  <2>5. \A b \in Actors : snap'[b].pc = "off"
    BY <2>1, <2>2, <2>3, CommitDoes DEF OneInv, Clean, Busy
  <2>6. /\ mirror'.there /\ mirror'.lane = snap[a].lane /\ mirror'.files = snap[a].files
        /\ mirror'.sealed = snap[a].sealed
    BY <2>1, CommitDoes
  <2>7. MirrorAgrees'
    BY <2>2, <2>4, <2>6
    DEF SnapAgrees, MirrorAgrees, LaneDue, FilesDue, SealDue, Builder, Follows, Read
  <2>8. QED
    BY <2>5, <2>7 DEF SnapAgrees, Read
<1>39. CASE \E a \in Actors : CommitFails(a)
  <2>1. PICK a \in Actors : CommitFails(a)
    BY <1>39
  <2>2. /\ UNCHANGED <<boot, disk>> /\ snap[a].pc = "commit" /\ boot = "up"
        /\ hist'.removed = hist.removed /\ hist'.torn = hist.torn /\ hist'.parted = hist.parted
        /\ hist'.missed
    BY <2>1, CommitFailsDoes DEF CommitFails, host, PlaceInv, Still, Busy
  <2>3. Clean => \A b \in Actors : snap'[b].pc = "off"
    BY <2>1, <2>2, CommitFailsDoes DEF OneInv, Clean, Busy
  <2>4. QED
    BY <2>2, <2>3 DEF AgreeInv, Clean, SnapAgrees, MirrorAgrees, Read
<1>31. CASE \E wiped \in BOOLEAN : Restart(wiped)
  <2>1. PICK wiped \in BOOLEAN : Restart(wiped)
    BY <1>31
  <2>2. CASE wiped
    BY <2>1, <2>2, RestartDoes, NoBoardType DEF AgreeInv
  <2>3. CASE ~wiped
    <3>1. /\ disk' = disk /\ UNCHANGED <<kind, mirror>> /\ boot' = "restore" /\ reopen' = "off"
          /\ \A a \in Actors : snap'[a].pc = "off"
          /\ (hist.missed => hist'.missed) /\ hist'.reopened = hist.reopened
      BY <2>1, <2>3, RestartDoes, NoSnapshotType DEF Restart
    <3>2. Clean' => Clean /\ Quiet /\ boot \notin {"rows", "files"}
      BY <2>1, <2>3, RestartDoes DEF Clean
    <3>3. SUFFICES ASSUME Clean', disk.lane # NoDb
                   PROVE  MirrorAgrees'
      BY <3>1 DEF AgreeInv, SnapAgrees, Read
    <3>4. MirrorAgrees /\ Still /\ ~LaneDue /\ ~FilesDue /\ ~SealDue /\ ~PageDue
      BY <3>2, <3>3 DEF AgreeInv, Quiet, Still, LaneDue, FilesDue, SealDue, PageDue, Driving
    <3>5. QED
      BY <3>1, <3>4 DEF MirrorAgrees, Follows, Builder
  <2>4. QED
    BY <2>2, <2>3
<1>32. CASE UNCHANGED vars
  BY <1>32
  DEF vars, AgreeInv, Clean, HalfRestored, SnapAgrees, MirrorAgrees, LaneDue, FilesDue, SealDue,
      PageDue, Builder, Follows, Still, Busy
<1>33. QED
  BY <1>1, <1>2, <1>3, <1>4, <1>5, <1>6, <1>7, <1>8, <1>9, <1>10, <1>11, <1>12, <1>13,
     <1>14, <1>15, <1>16, <1>17, <1>18, <1>19, <1>20, <1>21, <1>22, <1>23, <1>24, <1>25,
     <1>26, <1>27, <1>28, <1>29, <1>30, <1>31, <1>32, <1>34, <1>35, <1>36, <1>37, <1>38, <1>39
  DEF Next, DriverStep, SweepStep, RequestStep, BootStep, SnapshotStep


------------------------------------------------------------------------------
(* The promises. *)

LEMMA StartsWell == Init => BoardInv
<1> SUFFICES ASSUME Init
             PROVE  BoardInv
  OBVIOUS
<1>1. TypeOK
  <2>1. driver \in DriverRec
    BY MirrorAssumption DEF Init, DriverRec, DriverPlace
  <2>2. hist \in Hist /\ used \in Nat
    BY DEF Init, Hist
  <2>3. QED
    BY <2>1, <2>2, NoBoardType, NoCopyType, NoSnapshotType DEF Init, TypeOK, DriverRec, Hist
<1>2. /\ driver.pc = "new" /\ driver.at = 1 /\ disk = NoBoard /\ mirror = NoCopy /\ boot = "up"
      /\ reopen = "off" /\ erase = "off" /\ sweep.pc = "off" /\ hist.final = "no"
      /\ driver.skip = {} /\ ~driver.narrow
  BY DEF Init
<1>3. \A a \in Actors : snap[a].pc = "off" /\ snap[a].lane = Blank
  BY NoSnapshotType DEF Init
<1>4. disk.lane = NoDb /\ mirror.lane = Blank
  BY <1>2, NoBoardType, NoCopyType
<1>5. PlaceInv
  BY <1>2, <1>3 DEF PlaceInv, Still, Busy, Actors
<1>6. FinalInv /\ ArtifactInv
  BY <1>2, <1>3, <1>4 DEF FinalInv, ArtifactInv, HasRow, Blank
<1>7. BehindInv /\ AheadInv /\ LostInv /\ OneInv /\ AgreeInv
  BY <1>2, <1>3, <1>4 DEF BehindInv, AheadInv, LostInv, OneInv, AgreeInv, Driving, Busy
<1>8. OrderInv
  BY <1>2, <1>3, <1>4, BlankOrdered DEF OrderInv, Driving
<1>9. QED
  BY <1>1, <1>5, <1>6, <1>7, <1>8 DEF BoardInv

LEMMA BoardKept == BoardInv /\ [Next]_vars => BoardInv'
<1> SUFFICES ASSUME BoardInv, [Next]_vars
             PROVE  BoardInv'
  OBVIOUS
<1>1. TypeOK /\ TypeOK'
  BY TypesKept DEF BoardInv
<1>2. PlaceInv' /\ FinalInv' /\ ArtifactInv'
  BY <1>1, PlaceKept, FinalKept, ArtifactKept DEF BoardInv
<1>3. BehindInv' /\ AheadInv' /\ OrderInv'
  BY <1>1, BehindKept, AheadKept, OrderKept DEF BoardInv
<1>4. LostInv' /\ OneInv' /\ AgreeInv'
  BY <1>1, LostKept, OneKept, AgreeKept DEF BoardInv
<1>5. QED
  BY <1>1, <1>2, <1>3, <1>4 DEF BoardInv

LEMMA BoardAlways == Spec => []BoardInv
BY StartsWell, BoardKept, PTL DEF Spec

\* What the mirror shows done it can restore, what the disk shows done has its
\* artifact, a driver leaves no lane behind that the mirror has not, and when
\* all threads are through the mirror is the board, but for what is written
\* without a snapshot or lost with one (board_store.py).
THEOREM MirrorSafe == Spec => []MirrorKept
<1>1. BoardInv => MirrorKept
  <2>1. BoardInv => MirroredDoneHasArtifact /\ DoneHasArtifact
    BY DEF BoardInv, ArtifactInv, MirroredDoneHasArtifact, DoneHasArtifact
  <2>2. BoardInv => LaneKept
    <3>1. SUFFICES ASSUME BoardInv, DrivenAlone, driver.pc = "call", ~Busy("driver"), ~hist.missed,
                          NEW i \in 1..(driver.at - 1) \ driver.skip
                   PROVE  mirror.lane[i] \in Finished
      BY DEF LaneKept, DriverAt, DrivenAlone, Alone, Driving
    <3>2. i \in Behind \ driver.skip
      BY DEF Behind
    <3>3. QED
      BY <3>1, <3>2 DEF BoardInv, BehindInv, DrivenAlone, Alone
  <2>3. BoardInv => QuietMirrorAgrees
    <3>1. SUFFICES ASSUME BoardInv, boot = "up", Quiet, Clean, ~hist.missed, disk.lane # NoDb
                   PROVE  /\ mirror.there /\ mirror.sealed = disk.sealed
                          /\ Follows(mirror.files)
                          /\ kind = "project" => mirror.lane = disk.lane
                          /\ kind = "project" /\ ~hist.reopened => mirror.files = disk.files
      BY DEF QuietMirrorAgrees, Clean, Follows
    <3>2. MirrorAgrees /\ Still /\ ~LaneDue /\ ~FilesDue /\ ~SealDue /\ ~PageDue
      BY <3>1
      DEF BoardInv, AgreeInv, Quiet, Still, LaneDue, FilesDue, SealDue, PageDue, Driving
    <3>3. QED
      BY <3>1, <3>2 DEF MirrorAgrees
  <2>4. QED
    BY <2>1, <2>2, <2>3 DEF BoardInv, MirrorKept
<1>2. QED
  BY <1>1, BoardAlways, PTL

\* A board deleted while nobody worked on it stays deleted: no start of the
\* process, sweep or request brings it back (delete_demo_board, purge_board).
THEOREM QuietDeleteSafe == Spec => []QuietDeleteIsFinal
<1>1. BoardInv => QuietDeleteIsFinal
  BY DEF BoardInv, FinalInv, QuietDeleteIsFinal
<1>2. QED
  BY <1>1, BoardAlways, PTL

\* Only the driver's own page brings a finished lane back to running.
OwnPage(i) == driver.pc = "page" /\ driver.at = i /\ i = Builder /\ i \notin driver.skip

LEMMA OnlyOwnPageRuns ==
    ASSUME TypeOK, PlaceInv, AheadInv, [Next]_vars, NEW i \in Lanes,
           HasRow(i), disk.lane[i] \in Finished, ~OwnPage(i)
    PROVE  ~(HasRow(i)' /\ disk'.lane[i] = "running")
<1>0. "driver" \in Actors /\ "sweep" \in Actors /\ "reopen" \in Actors /\ Last \in Lanes
  BY MirrorAssumption DEF Actors, Lanes
<1>a. disk \in Board /\ driver.at \in 1..(Last + 1) /\ Last \in Nat
  BY MirrorAssumption DEF TypeOK
<1>1. CASE PassOver
  BY <1>1 DEF HasRow, host, threads, Finished, PassOver
<1>2. CASE Claim
  <2>1. /\ driver.at \in Lanes /\ driver.at \notin driver.skip /\ driver.pc = "lane"
    BY <1>2 DEF Claim, DriverAt
  <2>2. driver.at \in (driver.at)..Last \ (Behind \cup driver.skip) /\ driver.pc \in Driving
    BY <2>1, <1>a DEF Driving, Behind, Lanes
  <2>3. QED
    BY <1>2, <2>2, ClaimDoes DEF AheadInv, Finished
<1>3. CASE Produce \/ PatchPage
  <2>1. disk'.lane = disk.lane
    BY <1>3, ProduceDoes, PatchPageDoes DEF Wrote
  <2>2. QED
    BY <2>1 DEF Finished
<1>4. CASE ProviderFails \/ PageLeft
  BY <1>4 DEF HasRow, host, threads, Finished, ProviderFails, PageLeft
<1>5. CASE CompleteRaises
  BY <1>5, ConnectDoes DEF HasRow, host, threads, Finished, CompleteRaises
<1>6. CASE GiveUp
  BY <1>6, FailDoes, <1>0 DEF HasRow, host, threads, Finished, Untouched, GiveUp
<1>7. CASE AllDriven
  <2>1. disk'.lane = disk.lane
    BY <1>7, AllDrivenDoes DEF Wrote
  <2>2. QED
    BY <2>1 DEF Finished
<1>8. CASE Finalize
  BY <1>8 DEF HasRow, host, threads, Finished, Finalize
<1>9. CASE SealPark
  BY <1>9, ParkDoes DEF HasRow, host, threads, Finished, SealPark
<1>10. CASE Launch
  BY <1>10, LaunchDoes
<1>11. CASE Complete
  BY <1>11, CompleteDoes DEF Finished
<1>12. CASE LaneFails
  BY <1>12, FailDoes, LaneFailsDoes DEF HasRow, Finished
<1>34. CASE \E narrow \in BOOLEAN : Repair(narrow)
  BY <1>34, RepairDoes DEF HasRow, Finished, OwnPage
<1>13. CASE SealMark
  BY <1>13, MarkDoes DEF HasRow, host, threads, Finished, SealMark
<1>14. CASE SweepSees
  BY <1>14 DEF HasRow, host, threads, Finished, SweepSees
<1>15. CASE SweepParks
  BY <1>15, ParkDoes DEF HasRow, host, threads, Finished, SweepParks
<1>16. CASE SweepMarks
  BY <1>16, MarkDoes DEF HasRow, host, threads, Finished, SweepMarks
<1>17. CASE DeleteDemoBoard
  <2>1. disk'.lane \in {disk.lane, NoDb}
    BY <1>17, <1>a, RemovedDoes, InterruptedDoes, NoBoardType
    DEF DeleteDemoBoard, Untouched, Board
  <2>2. QED
    BY <2>1 DEF HasRow, Finished
<1>18. CASE SweepPurges
  BY <1>18 DEF HasRow, host, threads, Finished, SweepPurges
<1>19. CASE Reopen
  BY <1>19, <1>a DEF HasRow, host, threads, Finished, Board, Reopen
<1>20. CASE ReopenRow
  BY <1>20 DEF HasRow, host, threads, Finished, ReopenRow
<1>21. CASE EraseRow
  BY <1>21 DEF HasRow, host, threads, Finished, EraseRow
<1>22. CASE Rearm
  BY <1>22, RearmDoes
<1>23. CASE DeleteBoards
  <2>1. disk'.lane \in {disk.lane, NoDb}
    BY <1>23, <1>a, RemovedDoes, InterruptedDoes, NoBoardType DEF DeleteBoards, Untouched, Board
  <2>2. QED
    BY <2>1 DEF HasRow, Finished
<1>24. CASE ErasePurges
  BY <1>24 DEF HasRow, host, threads, Finished, ErasePurges
<1>25. CASE RestoreSchema
  BY <1>25, RestoreSchemaDoes DEF HasRow, Finished
<1>35. CASE RestoreRows
  BY <1>35, RestoreRowsDoes DEF HasRow, Blank
<1>26. CASE RestoreFiles
  BY <1>26, RestoreFilesDoes DEF HasRow, Finished
<1>36. CASE RestoreFails
  BY <1>36 DEF HasRow, Finished, RestoreFails
<1>27. CASE Resume
  BY <1>27 DEF HasRow, host, threads, Finished, Resume
<1>28. CASE Tick
  BY <1>28 DEF HasRow, host, threads, Finished, Tick
<1>29. CASE \E a \in Actors : SnapshotTasks(a) \/ SnapshotFiles(a) \/ SealFlag(a)
  BY <1>29, ReadDoes DEF HasRow, Finished
<1>30. CASE \E a \in Actors : Commit(a) \/ CommitFails(a)
  BY <1>30 DEF HasRow, host, threads, Finished, Commit, CommitFails
<1>31. CASE \E wiped \in BOOLEAN : Restart(wiped)
  <2>1. disk'.lane \in {disk.lane, NoDb}
    BY <1>31, RestartDoes, NoBoardType
  <2>2. QED
    BY <2>1 DEF HasRow, Finished
<1>32. CASE UNCHANGED vars
  BY <1>32 DEF vars, HasRow, Finished
<1>33. QED
  BY <1>1, <1>2, <1>3, <1>4, <1>5, <1>6, <1>7, <1>8, <1>9, <1>10, <1>11, <1>12, <1>13,
     <1>14, <1>15, <1>16, <1>17, <1>18, <1>19, <1>20, <1>21, <1>22, <1>23, <1>24, <1>25,
     <1>26, <1>27, <1>28, <1>29, <1>30, <1>31, <1>32, <1>34, <1>35, <1>36
  DEF Next, DriverStep, SweepStep, RequestStep, BootStep, SnapshotStep

\* A finished lane goes back to running only in the repairs of the page its
\* own driver has just built: no other lane, and no lane a started driver was
\* told to pass over, is paid for again until a reopen re-arms it
\* (drive_board_inprocess, _run_builder, _resume_restored_thin_boards).
THEOREM DrivenOnce == Spec => NotDrivenAgain
<1>1. BoardInv /\ [Next]_vars =>
        [\A i \in Lanes :
            (HasRow(i) /\ disk.lane[i] \in Finished) /\ (HasRow(i)' /\ disk'.lane[i] = "running")
            => driver.pc = "page" /\ driver.at = i /\ i = Builder /\ i \notin driver.skip]_vars
  BY OnlyOwnPageRuns DEF BoardInv, OwnPage
<1>2. QED
  BY <1>1, BoardAlways, PTL DEF Spec, NotDrivenAgain

=============================================================================
