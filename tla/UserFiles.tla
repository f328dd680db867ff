------------------------------ MODULE UserFiles ------------------------------
(***************************************************************************)
(* The files of a user (main.py, hermes_client.py): uploads staged before  *)
(* there is a project, which the next launch attaches to its board; the    *)
(* attachments of a board and their copies in the workspace; the build     *)
(* goal in the project row and its copy in TASK.md; and the analysis of an *)
(* uploaded code base that the next launch takes.                          *)
(*                                                                         *)
(* The async handlers share one thread, the event loop, and give way where *)
(* they await an upload; the others run in threads of their own.  Every    *)
(* upload and every analysis is a number, and 0 is none.                   *)
(***************************************************************************)
EXTENDS Integers, Sequences, FiniteSets

CONSTANTS
    FileNames,      \* of uploads
    Projects,       \* boards, one for each launch
    StageMaxFiles,  \* FLUXSWARM_STAGE_MAX_FILES
    StageMaxBytes,  \* FLUXSWARM_STAGE_MAX_BYTES, in files
    MaxUploads,     \* bound: files ever staged or uploaded
    MaxAnalyses,    \* bound: archives analysed
    MaxEdits        \* bound: goals edited

ASSUME NamesAssumption == <<>> \notin FileNames     \* which is no name at all
ASSUME UserFilesAssumption ==
    /\ StageMaxFiles \in Nat /\ StageMaxBytes \in Nat
    /\ MaxUploads \in Nat /\ MaxAnalyses \in Nat /\ MaxEdits \in Nat

VARIABLES
    thinHost,   \* what projects_are_thin says of the host
    staged,     \* the staging directory: whether it exists, its files, which are old
    staging,    \* the request that stages: the names still to be written
    attached,   \* the attachments of each board
    uploads,    \* workspaces/uploads of each board
    launch,     \* each launch: pc, its goal, staged files it has listed, analysis taken
    goal,       \* the goal in each project row
    taskMd,     \* the paragraphs under OBJECTIVE in each TASK.md
    loop,       \* the event loop, inside save_attachment
    removing,   \* the thread inside delete_project_file
    editing,    \* the threads inside api_edit_project
    cache,      \* _analysis_cache of the user, and whether it is past its TTL
    numbers,    \* uploads, analyses and edits so far
    raced,      \* history: staged files that met two launches, one that broke off, or one
                \* that could not remove them
    dropped,    \* history: staged files a launch removed and had not attached
    behind,     \* history: files and boards of which one of two places was not written
    mixed       \* history: files and boards two requests changed at once

stagingVars == <<staged, staging, raced, dropped>>
boardFiles == <<attached, uploads, loop, removing>>
objectives == <<goal, taskMd, editing>>
agreement == <<behind, mixed>>
userFilesVars == <<thinHost, stagingVars, boardFiles, launch, objectives, cache, numbers, agreement>>

NoFiles == [f \in FileNames |-> 0]
Goals == {<<"first">>, <<"first", "second">>}
NoGoal == <<"none">>
NoName == <<>>
Editors == 1..2
NotStaging == [on |-> FALSE, left |-> {}]
NotEditing == [on |-> FALSE, board |-> 0, text |-> <<>>]
NotSaving == [on |-> FALSE, board |-> 0, file |-> NoName, id |-> 0]   \* id: what the store then has

UserFilesInit ==
    /\ thinHost \in BOOLEAN
    /\ staged = [exists |-> FALSE, file |-> NoFiles, old |-> {}] /\ staging = NotStaging
    /\ attached = [b \in Projects |-> NoFiles] /\ uploads = [b \in Projects |-> NoFiles]
    /\ launch = [b \in Projects |-> [pc |-> "idle", goal |-> <<>>, left |-> {}, context |-> 0]]
    /\ goal = [b \in Projects |-> NoGoal] /\ taskMd = [b \in Projects |-> NoGoal]
    /\ loop = NotSaving /\ removing = NotSaving
    /\ editing = [t \in Editors |-> NotEditing]
    /\ cache = [id |-> 0, stale |-> FALSE]
    /\ numbers = [upload |-> 0, analysis |-> 0, edit |-> 0]
    /\ raced = {} /\ dropped = {} /\ behind = {} /\ mixed = {}

Present == {f \in FileNames : staged.file[f] # 0}
Uploaded(fs) == {staged.file[f] : f \in fs}
Launched(b) == launch[b].pc = "done"
InFlight(b) == launch[b].pc \notin {"idle", "done", "failed"}
AttachedTo(b) == {attached[b][f] : f \in FileNames} \ {0}
LoopFree == ~loop.on

-----------------------------------------------------------------------------
(* Staging. *)

\* _sweep_stage, at the start of every request that stages or lists.
Swept == [staged EXCEPT !.file = [f \in FileNames |-> IF f \in staged.old THEN 0 ELSE staged.file[f]],
                        !.old = {}]

StagedFileAges(f) ==
    /\ f \in Present \ staged.old
    /\ staged' = [staged EXCEPT !.old = @ \cup {f}]
    /\ UNCHANGED <<thinHost, staging, raced, dropped, boardFiles, launch, objectives, cache, numbers, agreement>>

ListStaged ==
    /\ staged.old # {}
    /\ staged' = Swept
    /\ UNCHANGED <<thinHost, staging, raced, dropped, boardFiles, launch, objectives, cache, numbers, agreement>>

\* The number of files is checked once for the request, before any is read.
StageAttachments(fs) ==
    /\ LoopFree /\ ~staging.on /\ fs # {} /\ numbers.upload + Cardinality(fs) <= MaxUploads
    /\ staged' = [Swept EXCEPT !.exists = TRUE]
    /\ IF Cardinality(Present \ staged.old) + Cardinality(fs) > StageMaxFiles
       THEN UNCHANGED staging
       ELSE staging' = [on |-> TRUE, left |-> fs]
    /\ UNCHANGED <<thinHost, raced, dropped, boardFiles, launch, objectives, cache, numbers, agreement>>

\* A launch has listed the staging directory and is about to remove it.
Consuming == \E b \in Projects : launch[b].pc = "attach"

\* Each file is read, weighed against all that is staged (the file it replaces
\* too) and written; a launch may have removed the directory meanwhile.
StageFile(f) ==
    /\ LoopFree /\ staging.on /\ f \in staging.left
    /\ \/ /\ Cardinality(Present) < StageMaxBytes /\ staged.exists /\ numbers.upload < MaxUploads
          /\ numbers' = [numbers EXCEPT !.upload = @ + 1]
          /\ staged' = [staged EXCEPT !.file[f] = numbers.upload + 1, !.old = @ \ {f}]
          /\ raced' = IF Consuming THEN raced \cup {numbers.upload + 1} ELSE raced
          /\ staging' = IF staging.left = {f} THEN NotStaging ELSE [staging EXCEPT !.left = @ \ {f}]
       \* Unsafe, empty or too long, too much with the rest, or nowhere to write it.
       \/ staging' = NotStaging /\ UNCHANGED <<staged, raced, numbers>>
    /\ UNCHANGED <<thinHost, dropped, boardFiles, launch, objectives, cache, agreement>>

RemoveStaged(f) ==
    /\ f \in Present
    /\ staged' = [staged EXCEPT !.file[f] = 0, !.old = @ \ {f}]
    /\ UNCHANGED <<thinHost, staging, raced, dropped, boardFiles, launch, objectives, cache, numbers, agreement>>

-----------------------------------------------------------------------------
(* The analysis of an archive. *)

AnalyzeProject ==
    /\ LoopFree /\ numbers.analysis < MaxAnalyses
    /\ numbers' = [numbers EXCEPT !.analysis = @ + 1]
    /\ cache' = [id |-> numbers.analysis + 1, stale |-> FALSE]
    /\ UNCHANGED <<thinHost, stagingVars, boardFiles, launch, objectives, agreement>>

AnalysisAges ==
    /\ cache.id # 0 /\ ~cache.stale
    /\ cache' = [cache EXCEPT !.stale = TRUE]
    /\ UNCHANGED <<thinHost, stagingVars, boardFiles, launch, objectives, numbers, agreement>>

-----------------------------------------------------------------------------
(* The launch, api_create_project. *)

Become(b, pc) == launch' = [launch EXCEPT ![b].pc = pc]

\* The credit is taken, and the staging directory is listed if it is there.  One
\* that cannot be listed stays as it is.
LaunchBegins(b) ==
    /\ launch[b].pc = "idle"
    /\ \E g \in Goals, lists \in {staged.exists, FALSE} :
           launch' = [launch EXCEPT ![b] = [pc |-> IF lists THEN "attach" ELSE "context",
                                            goal |-> g, left |-> Present, context |-> 0]]
    \* Two launches that list the same files both attach them.
    /\ raced' = raced \cup IF Consuming THEN Uploaded(Present) ELSE {}
    /\ UNCHANGED <<thinHost, staged, staging, dropped, boardFiles, objectives, cache, numbers, agreement>>

\* A file that has gone is passed over, and so is one that cannot be saved.
AttachFile(b, f) ==
    /\ launch[b].pc = "attach" /\ f \in launch[b].left
    /\ launch' = [launch EXCEPT ![b].left = @ \ {f}]
    /\ \/ /\ f \in Present
          /\ attached' = [attached EXCEPT ![b][f] = staged.file[f]]
          /\ uploads' = [uploads EXCEPT ![b][f] = staged.file[f]]
          /\ UNCHANGED <<raced, behind>>
       \* The store has it, and the copy failed.
       \/ /\ f \in Present /\ behind' = behind \cup {<<b, f>>}
          /\ attached' = [attached EXCEPT ![b][f] = staged.file[f]]
          /\ UNCHANGED <<uploads, raced>>
       \/ /\ f \in Present /\ raced' = raced \cup Uploaded({f})
          /\ UNCHANGED <<attached, uploads, behind>>
       \/ f \notin Present /\ UNCHANGED <<attached, uploads, raced, behind>>
    /\ UNCHANGED <<thinHost, staged, staging, dropped, loop, removing, objectives, cache, numbers, mixed>>

\* Mutant: only what is attached is removed from the staging directory, by the next sweep.
ClearStagedLater(b) ==
    /\ launch[b].pc = "attach" /\ launch[b].left = {}
    /\ Become(b, "context")
    /\ UNCHANGED <<thinHost, stagingVars, boardFiles, objectives, cache, numbers, agreement>>

\* rmtree takes whatever is staged by then, and passes over what it cannot remove,
\* a file or the directory.
ClearStaged(b) ==
    /\ launch[b].pc = "attach" /\ launch[b].left = {}
    /\ \E stays \in SUBSET Present, exists \in {FALSE, staged.exists} :
           /\ stays # {} => exists
           /\ staged' = [exists |-> exists, old |-> staged.old \cap stays,
                         file |-> [f \in FileNames |-> IF f \in stays THEN staged.file[f] ELSE 0]]
           /\ dropped' = dropped \cup (Uploaded(Present \ stays) \ AttachedTo(b))
           /\ raced' = raced \cup Uploaded(stays)
    /\ Become(b, "context")
    /\ UNCHANGED <<thinHost, staging, boardFiles, objectives, cache, numbers, agreement>>

\* A fresh analysis is taken out of the cache, under its lock.
TakeContext(b) ==
    /\ launch[b].pc = "context"
    /\ launch' = [launch EXCEPT ![b].pc = "squad", ![b].context = IF cache.stale THEN 0 ELSE cache.id]
    /\ cache' = IF cache.stale THEN cache ELSE [id |-> 0, stale |-> FALSE]
    /\ UNCHANGED <<thinHost, stagingVars, boardFiles, objectives, numbers, agreement>>

\* The attachments of a board are copied into the workspace again, but for those
\* that fail.
SeedAttachments(b) ==
    \E copied \in SUBSET {f \in FileNames : attached[b][f] # 0} :
        /\ uploads' = [uploads EXCEPT ![b] = [f \in FileNames |-> IF f \in copied THEN attached[b][f] ELSE @[f]]]
        /\ behind' = behind \ {<<b, f>> : f \in copied}

\* On a thin host the workspace is seeded, TASK.md first.
LaunchSquad(b) ==
    /\ launch[b].pc = "squad"
    /\ IF thinHost THEN taskMd' = [taskMd EXCEPT ![b] = launch[b].goal] /\ SeedAttachments(b)
       ELSE UNCHANGED <<taskMd, uploads, behind>>
    /\ Become(b, "row")
    /\ UNCHANGED <<thinHost, stagingVars, attached, loop, removing, goal, editing, cache, numbers, mixed>>

\* The launch credit is given back; the staged files went with the board.
LaunchFails(b) ==
    /\ launch[b].pc = "squad"
    /\ Become(b, "failed")
    /\ raced' = raced \cup AttachedTo(b)
    /\ UNCHANGED <<thinHost, staged, staging, dropped, boardFiles, objectives, cache, numbers, agreement>>

AddProject(b) ==
    /\ launch[b].pc = "row"
    /\ goal' = [goal EXCEPT ![b] = launch[b].goal]
    /\ Become(b, "done")
    /\ UNCHANGED <<thinHost, stagingVars, boardFiles, taskMd, editing, cache, numbers, agreement>>

-----------------------------------------------------------------------------
(* The attachments of a board whose address the user has been told. *)

\* save_attachment, in the event loop: the store, and then the copy, whose
\* failure is passed over.
UploadAttachment(b, f) ==
    /\ LoopFree /\ Launched(b) /\ numbers.upload < MaxUploads
    /\ numbers' = [numbers EXCEPT !.upload = @ + 1]
    /\ attached' = [attached EXCEPT ![b][f] = numbers.upload + 1]
    /\ loop' = [on |-> TRUE, board |-> b, file |-> f, id |-> numbers.upload + 1]
    /\ mixed' = IF removing.on /\ removing.board = b /\ removing.file = f
                THEN mixed \cup {<<b, f>>} ELSE mixed
    /\ UNCHANGED <<thinHost, stagingVars, uploads, removing, launch, objectives, cache, behind>>

MirrorUpload ==
    /\ loop.on
    /\ \/ /\ uploads' = [uploads EXCEPT ![loop.board][loop.file] = loop.id]
          /\ behind' = behind \ {<<loop.board, loop.file>>}
       \/ UNCHANGED uploads /\ behind' = behind \cup {<<loop.board, loop.file>>}
    /\ loop' = NotSaving
    /\ UNCHANGED <<thinHost, stagingVars, attached, removing, launch, objectives, cache, numbers, mixed>>

\* delete_project_file, in a thread: the store, and then the copy, each of which it
\* may fail to remove.
DeleteAttachment(b, f) ==
    /\ ~removing.on /\ Launched(b)
    /\ attached[b][f] # 0 \/ uploads[b][f] # 0
    /\ \E stays \in {0, attached[b][f]} :
           /\ attached' = [attached EXCEPT ![b][f] = stays]
           /\ removing' = [on |-> TRUE, board |-> b, file |-> f, id |-> stays]
    /\ mixed' = IF loop.on /\ loop.board = b /\ loop.file = f THEN mixed \cup {<<b, f>>} ELSE mixed
    /\ UNCHANGED <<thinHost, stagingVars, uploads, loop, launch, objectives, cache, numbers, behind>>

DeleteCopy ==
    /\ removing.on /\ removing' = NotSaving
    /\ \/ /\ uploads' = [uploads EXCEPT ![removing.board][removing.file] = 0]
          /\ behind' = IF removing.id = 0 THEN behind \ {<<removing.board, removing.file>>}
                       ELSE behind \cup {<<removing.board, removing.file>>}
       \/ UNCHANGED uploads /\ behind' = behind \cup {<<removing.board, removing.file>>}
    /\ UNCHANGED <<thinHost, stagingVars, attached, loop, launch, objectives, cache, numbers, mixed>>

-----------------------------------------------------------------------------
(* The goal of a project that is edited: the row, and then TASK.md. *)

UpdateProject(b, text) == goal' = [goal EXCEPT ![b] = text]

EditProject(t, b, text) ==
    /\ ~editing[t].on /\ Launched(b) /\ numbers.edit < MaxEdits
    /\ numbers' = [numbers EXCEPT !.edit = @ + 1]
    /\ UpdateProject(b, text)
    \* A goal of blanks empties the row and leaves TASK.md alone.
    /\ editing' = IF text = <<>> THEN editing
                  ELSE [editing EXCEPT ![t] = [on |-> TRUE, board |-> b, text |-> text]]
    /\ mixed' = IF \E o \in Editors : editing[o].on /\ editing[o].board = b
                THEN mixed \cup {<<b, NoName>>} ELSE mixed
    /\ UNCHANGED <<thinHost, stagingVars, boardFiles, launch, taskMd, cache, behind>>

\* What stands under OBJECTIVE is replaced up to the first blank line, so the
\* later paragraphs of the old goal stay below the new one.
RewriteObjective(old, text) ==
    IF old = NoGoal THEN text ELSE text \o Tail(old)

\* rewrite_project_objective answers FALSE where the file cannot be read or written,
\* and its caller does not look.
EditTaskMd(t) ==
    /\ editing[t].on
    /\ \/ /\ taskMd' = [taskMd EXCEPT ![editing[t].board] = RewriteObjective(@, editing[t].text)]
          /\ behind' = behind \ {<<editing[t].board, NoName>>}
       \/ UNCHANGED taskMd /\ behind' = behind \cup {<<editing[t].board, NoName>>}
    /\ editing' = [editing EXCEPT ![t] = NotEditing]
    /\ UNCHANGED <<thinHost, stagingVars, boardFiles, launch, goal, cache, numbers, mixed>>

-----------------------------------------------------------------------------

\* The process ends: every request with it, and what was only in memory.
HostRestarts ==
    /\ staging' = NotStaging /\ loop' = NotSaving /\ removing' = NotSaving
    /\ editing' = [t \in Editors |-> NotEditing]
    /\ launch' = [b \in Projects |-> IF InFlight(b) THEN [launch[b] EXCEPT !.pc = "failed", !.left = {}]
                                     ELSE launch[b]]
    /\ raced' = raced \cup UNION {AttachedTo(b) : b \in {c \in Projects : InFlight(c)}}
    /\ behind' = behind \cup {<<r.board, r.file>> : r \in {q \in {loop, removing} : q.on}}
                        \cup {<<editing[t].board, NoName>> : t \in {o \in Editors : editing[o].on}}
    /\ cache' = [id |-> 0, stale |-> FALSE]
    /\ UNCHANGED <<thinHost, staged, dropped, attached, uploads, goal, taskMd, numbers, mixed>>

UserFilesNext ==
    \/ \E fs \in SUBSET FileNames : StageAttachments(fs)
    \/ \E f \in FileNames : StageFile(f) \/ StagedFileAges(f) \/ RemoveStaged(f)
    \/ ListStaged \/ AnalyzeProject \/ AnalysisAges \/ MirrorUpload \/ DeleteCopy \/ HostRestarts
    \/ \E b \in Projects :
           \/ LaunchBegins(b) \/ ClearStaged(b) \/ TakeContext(b) \/ LaunchSquad(b) \/ LaunchFails(b) \/ AddProject(b)
           \/ \E f \in FileNames : AttachFile(b, f) \/ UploadAttachment(b, f) \/ DeleteAttachment(b, f)
           \/ \E t \in Editors, g \in {<<"third">>, <<"third", "fourth">>, <<>>} : EditProject(t, b, g)
    \/ \E t \in Editors : EditTaskMd(t)

UserFilesSpec == UserFilesInit /\ [][UserFilesNext]_userFilesVars

-----------------------------------------------------------------------------
(* Properties. *)

Uploads == 0..MaxUploads

UserFilesTypeOK ==
    /\ staged \in [exists : BOOLEAN, file : [FileNames -> Uploads], old : SUBSET FileNames]
    /\ attached \in [Projects -> [FileNames -> Uploads]] /\ uploads \in [Projects -> [FileNames -> Uploads]]
    /\ raced \in SUBSET (1..MaxUploads) /\ dropped \in SUBSET (1..MaxUploads)

Boards(id) == {b \in Projects : \E f \in FileNames : attached[b][f] = id}

\* "Every file attaches to exactly one build": a staged upload goes to one board at
\* most, and once it is attached it is no longer staged, unless two launches were
\* consuming the directory at once, one broke off, or one could not remove it.
StagedAttachesOnce ==
    \A id \in (1..MaxUploads) \ raced :
        /\ Cardinality(Boards(id)) <= 1
        /\ Boards(id) # {} => id \notin Uploaded(Present) \/ Consuming

\* A launch removes no staged upload that it has not attached, unless it came
\* while a launch was consuming the directory, or could not be saved.
StagedIsKept == dropped \subseteq raced

\* A copy in the workspace is the attachment, also after uploads and removals,
\* unless two of them met on one file, or the last of them wrote one place only.
CopiesAgree ==
    \A b \in Projects, f \in FileNames :
        \/ uploads[b][f] = attached[b][f] \/ <<b, f>> \in mixed \cup behind
        \/ \E r \in {loop, removing} : r.on /\ r.board = b /\ r.file = f

\* The squad reads a goal that begins with the row's, unless two edits crossed or
\* the last one did not reach TASK.md.
ObjectiveIsTheGoal ==
    \A b \in Projects :
        \/ ~Launched(b) \/ taskMd[b] = NoGoal \/ <<b, NoName>> \in mixed \cup behind
        \/ \E t \in Editors : editing[t].on /\ editing[t].board = b
        \/ SubSeq(taskMd[b], 1, Len(goal[b])) = goal[b]

\* No two launches get the same analysis.
ContextTakenOnce ==
    \A b, c \in Projects : b # c /\ launch[b].context # 0 => launch[b].context # launch[c].context

\* The hazards of the user's files, together.
FilesKept ==
    /\ UserFilesTypeOK /\ StagedAttachesOnce /\ StagedIsKept
    /\ CopiesAgree /\ ObjectiveIsTheGoal /\ ContextTakenOnce
=============================================================================
