------------------------------ MODULE MCDrivers ------------------------------
(***************************************************************************)
(* What drives a board, on small instances: the thread of a thin host, the *)
(* dispatcher of a fat one, and the gates over the documents, which are    *)
(* evaluated on every small document.  They share no state, so a behaviour *)
(* takes the steps of one of them only.                                    *)
(***************************************************************************)
EXTENDS ThinPipeline, SwarmBoard, DocGates, Snapshot

CONSTANTS menu, story

VARIABLES
    part,
    sample      \* a document of the gates

\* The lanes the gates ask about, and the drafts a completion is likely to come back with.
Few == <<"planner", "architect", "tdd", "reviewer", "builder", "auditor">>

Good == [stub |-> FALSE, fenced |-> FALSE, closed |-> TRUE, defects |-> {},
         sections |-> [s \in Sections |-> "full"], nav |-> Sections, hash |-> FALSE,
         basics |-> Basics, room |-> Basics, dangling |-> FALSE, flaws |-> 0]

Some == {Good,
    [Good EXCEPT !.closed = FALSE, !.defects = {"unclosed block"}, !.sections = [s \in Sections |-> "none"]],
    [Good EXCEPT !.sections[story] = "none", !.nav = {menu}, !.basics = {}, !.dangling = TRUE],
    [Good EXCEPT !.sections = [s \in Sections |-> "none"], !.hash = TRUE],
    [Good EXCEPT !.sections[menu] = "shell", !.sections[story] = "div", !.nav = {menu},
                 !.basics = {}, !.room = {"viewport"}],
    [Good EXCEPT !.defects = {"no <style> block", "poor looks"}, !.flaws = 4]}

\* A worker lane and the lane that verifies it.
Chain == <<{}, {1}>>

Short(S, n) == UNION {[1..m -> S] : m \in 0..n}
\* Pages with one defect at most; the device patch is none of the gates'.
Pages == [stub : BOOLEAN, fenced : BOOLEAN, closed : BOOLEAN, defects : {{}} \cup {{d} : d \in Defects},
          sections : [Sections -> {"none", "shell", "full"}], nav : SUBSET Targets, hash : BOOLEAN,
          basics : {Basics, {"viewport", "lang"}, {}}, room : {{}}, dangling : {FALSE}, flaws : {0, 2, 6}]
Documented ==
    \/ sample \in [of : {"blueprint"}, kind : Blueprints, doc : Blueprint]
    \/ sample \in [of : {"plan"}, doc : Plan]
    \/ sample \in [of : {"page"}, doc : Pages]
    \/ sample \in [of : {"pack"}, doc : Short(PackLine, 4)]
    \/ sample \in [of : {"archive"}, doc : Short(Member, 3)]
    \/ sample \in [of : {"attachments"}, doc : Short(Attachment, 3)]
    \/ sample \in [of : {"workspace"}, doc : Short(0..(ExportBytes + 1), 4)]
    \/ sample \in [of : {"events"}, doc : Short(TaskEvent, 3)]

Init ==
    /\ part \in {"thin", "fat", "gates"}
    /\ PipelineInit /\ SwarmInit
    /\ part # "thin" => board = "project" /\ ~web /\ ~webGoal /\ promised = {} /\ task["custom"].status = "absent"
    /\ IF part = "gates" THEN Documented ELSE sample = [of |-> "none"]

Next ==
    /\ UNCHANGED <<part, sample>>
    /\ \/ part = "thin" /\ PipelineNext /\ UNCHANGED swarmVars
       \/ part = "fat" /\ SwarmNext /\ UNCHANGED pipelineVars

Spec == Init /\ [][Next]_<<part, sample, pipelineVars, swarmVars>>

\* On a thin host, one difficulty at a time: a web goal meets documents that all hold
\* (but the plan), a test file beside the point meets none that do not, a goal the gate
\* and the builder read differently meets a host that stays up and a plan that promised
\* nothing, a host that died meets such a plan too, and a retried request is one of a lane's.
Corners ==
    /\ docs["architect"] # "bad"
    /\ web \/ webGoal => \A t \in {"tdd", "reviewer", "auditor"} : docs[t] \in {"none", "good"}
    /\ docs["tdd"] \in {"aside", "unparsed"} =>
           \A t \in {"planner", "reviewer", "auditor"} : docs[t] \in {"none", "good"}
    /\ web # webGoal => deaths = 0 /\ promised = {}
    /\ deaths > 0 => promised = {} /\ docs["planner"] # "bad"
    /\ driver.posts > 0 => driver.call \in {"lane", "custom"}
    /\ board = "demo" /\ web => promised # {}

-----------------------------------------------------------------------------

\* Every gate, splitter and budget keeps its contract: what a validator reports is
\* noted as it is, a plan that passes can be traced, an audit that passes is of a
\* sound page, no line of a pack is lost, what reaches the agents and the user is
\* within its budget and the best of what there was, and the log hides no outcome.
GatesKeepTheirContracts ==
    /\ sample.of = "blueprint" => BlueprintNoted(sample.kind, sample.doc)
    /\ sample.of = "plan" => PlanTraced(sample.doc)
    /\ sample.of = "page" => PassIsSound(sample.doc)
    /\ sample.of = "pack" => PackKept(sample.doc)
    /\ sample.of = "archive" => SnapshotIsTheBest(sample.doc)
    /\ sample.of = "attachments" => UploadsAreTold(sample.doc)
    /\ sample.of = "workspace" => BundleIsBounded(sample.doc)
    /\ sample.of = "events" => ActivityIsHonest(sample.doc)
=============================================================================
