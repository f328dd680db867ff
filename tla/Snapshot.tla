------------------------------ MODULE Snapshot ------------------------------
(***************************************************************************)
(* What of a user's files reaches the agents and what of the agents' files *)
(* reaches the user, each under a budget: the snapshot of an uploaded code *)
(* base (project_analyzer.py), the block of attachments in the prompts, the *)
(* bundle of an export (main.py), and the activity of a task               *)
(* (hermes_client.py).  Sizes are in units of the budgets.                 *)
(***************************************************************************)
EXTENDS Integers, Sequences, SequencesExt, FiniteSets

CONSTANTS
    SnapshotBytes,  \* _SNAPSHOT_MAX_BYTES_TOTAL
    SnapshotFiles,  \* _SNAPSHOT_MAX_FILES
    ConfigBytes,    \* the cut of config_summary
    UploadsLimit,   \* limit of _attachments_ctx
    PerFile,        \* per_file of _attachments_ctx
    ExportBytes     \* _EXPORT_MAX_ZIP_BYTES

ASSUME SnapshotAssumption ==
    /\ SnapshotBytes \in Nat /\ SnapshotFiles \in Nat /\ ConfigBytes \in Nat
    /\ UploadsLimit \in Nat /\ PerFile \in Nat \ {0} /\ ExportBytes \in Nat

\* SelectSeq, written as a fold.
Select(s, Test(_)) == FoldLeft(LAMBDA kept, x : IF Test(x) THEN Append(kept, x) ELSE kept, <<>>, s)

\* A member of an archive: the score of its name, highest first: a manifest that is
\* in both lists (package.json), an entry point (main.py), a configuration that is
\* only in one (Makefile), other source, anything else; and what is read of it.
Manifest == 1
EntryPoint == 2
Config == 3
Source == 4
Other == 5
Member == [score : Manifest..Other, bytes : 0..(SnapshotBytes + 1), reads : BOOLEAN]

OfScore(members, n) == Select(members, LAMBDA m : m.score = n)
Scored(members) == OfScore(members, Manifest) \o OfScore(members, EntryPoint) \o OfScore(members, Config)
                       \o OfScore(members, Source) \o OfScore(members, Other)
Selected(members) ==
    SubSeq(Scored(members), 1,
           IF Len(Scored(members)) < SnapshotFiles THEN Len(Scored(members)) ELSE SnapshotFiles)

NothingTaken == [files |-> <<>>, total |-> 0, over |-> FALSE]

\* The first file that does not fit ends the snapshot, whatever comes after it.
TakeMember(taken, m) ==
    CASE taken.over \/ taken.total >= SnapshotBytes -> [taken EXCEPT !.over = TRUE]
      [] ~taken.over /\ taken.total < SnapshotBytes /\ (~m.reads \/ m.score = Other) -> taken
      [] ~taken.over /\ taken.total < SnapshotBytes /\ m.reads /\ m.score # Other ->
           IF taken.total + m.bytes > SnapshotBytes THEN [taken EXCEPT !.over = TRUE]
           ELSE [taken EXCEPT !.files = Append(@, m), !.total = @ + m.bytes]

Taken(members) == FoldLeft(TakeMember, NothingTaken, Selected(members))

\* Configuration goes into one text, which is cut at the end.
AddConfig(summary, m) ==
    IF m.score \notin {Manifest, Config} THEN summary
    ELSE IF summary + m.bytes > ConfigBytes THEN ConfigBytes ELSE summary + m.bytes

ExtractCodebaseSnapshot(members) ==
    LET taken == Taken(members)
    IN [files |-> taken.files, total |-> taken.total, summary |-> FoldLeft(AddConfig, 0, taken.files)]

\* An attachment: text, of some length, or a name only; a directory, or a file that is
\* gone or cannot be read, is passed over.
Attachment == [text : BOOLEAN, size : 0..(PerFile + 1), reads : BOOLEAN]
NoBlock == [named |-> 0, total |-> 0, more |-> FALSE]

NameAttachment(block, a) ==
    CASE block.more -> block
      [] ~block.more /\ block.total >= UploadsLimit -> [block EXCEPT !.more = TRUE]
      [] ~block.more /\ block.total < UploadsLimit /\ ~a.reads -> block
      [] ~block.more /\ block.total < UploadsLimit /\ a.reads ->
           [block EXCEPT !.named = @ + 1,
                         !.total = @ + IF a.text /\ a.size > 0
                                       THEN (IF a.size > PerFile THEN PerFile ELSE a.size)
                                       ELSE 1]

AttachmentsCtx(attachments) == FoldLeft(NameAttachment, NoBlock, attachments)

\* The export: a file above the limit is left out, and the walk ends with the file
\* that takes the bundle above it.
NoBundle == [files |-> <<>>, total |-> 0]
BundleFile(bundle, size) ==
    IF size > ExportBytes \/ bundle.total > ExportBytes THEN bundle
    ELSE [files |-> Append(bundle.files, size), total |-> bundle.total + size]
ExportBundle(sizes) == FoldLeft(BundleFile, NoBundle, sizes)

-----------------------------------------------------------------------------
(* The activity of a task: its events, each with its minute, and the stamps *)
(* of its row, 0 when there is none.                                        *)

TaskEvent == [kind : {"heartbeat", "claimed", "completed", "failed", "blocked", "promoted"}, at : 1..4]
\* 60 seconds.
Minute == 2
NoActivity == [shown |-> <<>>, beat |-> 0]

\* A heartbeat shows when the last that showed is a minute ago; a kind the log has
\* no label for does not show.
ShowEvent(log, e) ==
    CASE e.kind = "heartbeat" /\ e.at - log.beat >= Minute -> [shown |-> Append(log.shown, e), beat |-> e.at]
      [] e.kind \in {"claimed", "completed", "failed", "blocked"} -> [log EXCEPT !.shown = Append(@, e)]
      [] OTHER -> log

TaskActivityEvents(events) == FoldLeft(ShowEvent, NoActivity, events).shown

AttachActivity(events, completed, heartbeat) ==
    LET shown == TaskActivityEvents(events)
        stamps == {shown[i].at : i \in DOMAIN shown} \cup ({completed, heartbeat} \ {0})
    IN IF stamps = {} THEN 0 ELSE CHOOSE t \in stamps : \A u \in stamps : u <= t

-----------------------------------------------------------------------------
(* Contracts. *)

Readable(members) == Select(members, LAMBDA m : m.reads /\ m.score # Other)

\* The snapshot is within its budget, and it is the best-scored of the readable
\* source: what is left out comes after what is taken, and only for want of room.  The
\* room is counted before the configuration is cut, so that text nobody is shown may
\* take it.
SnapshotIsTheBest(members) ==
    LET readable == Readable(Selected(members))
        taken == ExtractCodebaseSnapshot(members)
        n == Len(taken.files)
    IN /\ taken.total <= SnapshotBytes /\ taken.summary <= ConfigBytes
       /\ IsPrefix(taken.files, readable)
       /\ n < Len(readable) => taken.total + readable[n + 1].bytes > SnapshotBytes \/ taken.total = SnapshotBytes

Uploads(attachments) == Select(attachments, LAMBDA a : a.reads)

\* Every upload that can be read is named to the agents, or they are told that there are
\* more, and the block is never longer than its limit and one file.
UploadsAreTold(attachments) ==
    LET block == AttachmentsCtx(attachments)
    IN /\ block.named = Len(Uploads(attachments)) \/ block.more
       /\ block.total < UploadsLimit + PerFile

\* An export is at most twice its limit, and a workspace within the limit is whole.
BundleIsBounded(sizes) ==
    LET bundle == ExportBundle(sizes)
    IN /\ bundle.total <= 2 * ExportBytes
       /\ FoldLeft(+, 0, sizes) <= ExportBytes => bundle.files = sizes

Outcomes(events) == Select(events, LAMBDA e : e.kind \in {"completed", "failed", "blocked"})

\* The log leaves out no outcome, shows heartbeats a minute apart, and the last
\* activity is no earlier than anything it shows.
ActivityIsHonest(events) ==
    LET shown == TaskActivityEvents(events)
    IN /\ Outcomes(shown) = Outcomes(events)
       /\ \A i, j \in DOMAIN shown : shown[i].kind = "heartbeat" /\ shown[j].kind = "heartbeat" /\ i < j
                                         => shown[j].at - shown[i].at >= Minute
       /\ \A i \in DOMAIN shown : AttachActivity(events, 0, 0) >= shown[i].at
=============================================================================
