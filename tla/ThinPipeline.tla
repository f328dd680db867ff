---------------------------- MODULE ThinPipeline ----------------------------
(***************************************************************************)
(* The thread that drives a board on a thin host: one lane after another,  *)
(* each a bounded completion written into the workspace, the evidence gate *)
(* after the reviewer and after the builder, the lanes of custom agents,   *)
(* and the builder with its rebuilds and bounded patches of the page.      *)
(*                                                                         *)
(* A lane's board row is claimed and completed in commits of their own, so *)
(* the host may die between any two of them; a restart drives the board    *)
(* again and skips the lanes that are done.                                *)
(***************************************************************************)
EXTENDS WebPage, Sequences, SequencesExt

CONSTANTS
    Lanes,          \* roles of a project board that have a row on it
    Drafts,         \* pages a full build may come back with
    Retries,        \* _THIN_RETRIES
    TailPasses,     \* continuations of a truncated page, 10 in the code
    AskMax,         \* sections one patch is asked for, 3 in the code
    MaxDeaths       \* bound: times the host dies

\* The lanes in the order they are driven; one without a row is passed over.
LaneOrder ==
    <<"planner", "architect", "devops", "tdd", "reviewer", "designer", "builder", "auditor">>
Roles == ToSet(LaneOrder)
Tasks == Roles \cup {"custom"}

\* Lanes whose document is validated, and the evidence the gate asks for.
Validated == {"planner", "architect", "devops", "tdd", "reviewer", "auditor"}
RequiredArtifacts == {"planner", "architect", "reviewer"}

RebuildRounds == 2
FillRounds == 2

ASSUME PipelineAssumption ==
    /\ Lanes \in Seq(Roles) /\ {"reviewer", "builder"} \subseteq ToSet(Lanes)
    /\ \A i, j \in DOMAIN Lanes, k, l \in DOMAIN LaneOrder :
           Lanes[i] = LaneOrder[k] /\ Lanes[j] = LaneOrder[l] /\ i < j => k < l
    /\ Drafts \subseteq Page
    /\ Retries \in Nat /\ TailPasses \in Nat /\ AskMax \in Nat \ {0} /\ MaxDeaths \in Nat

VARIABLES
    board,      \* "project" or "demo"
    web,        \* whether the builder's deliverable is a page (deliverable_filename)
    webGoal,    \* whether the gate takes the goal for a web goal (_web_goal)
    task,       \* the row of each lane: status and whether its result is an error
    docs,       \* the document of each lane in the workspace
    promised,   \* sections PLAN.md promises
    page,       \* index.html
    notes,      \* lanes with a validation note on the board
    gate,       \* verdict posted to the builder's timeline
    driver,     \* where the thread stands
    seen,       \* the page as the thread last audited it
    evidence,   \* the report the thread holds
    outcome,    \* how the launch was settled
    deaths,     \* how much of the bound is used up
    swallowed,  \* history: a call failed and the thread went on
    stale,      \* history: a patch wrote the page and the thread did not audit it
    halfBuilt   \* history: the host died with the builder done but not through

history == <<swallowed, stale, halfBuilt>>
board4 == <<board, web, webGoal, promised>>
pipelineVars == <<board4, task, docs, page, notes, gate, driver, seen, evidence, outcome, deaths, history>>

NoEvidence == "none"
Verdicts == {"GO", "WARN", "NO-GO"}
Calls == {"lane", "custom", "build", "rebuild", "tail", "content", "plan", "nav"}
Places == {"off", "lane", "claim", "post", "completed", "rebuilding", "extending", "filling",
           "planning", "linking", "anchors", "device", "noting", "raised", "end"}

Driver == [pc : Places, lane : Nat, skip : SUBSET Tasks, call : Calls, round : Nat, posts : Nat,
           ask : SUBSET Sections, restored : BOOLEAN, calls : Nat, resumed : BOOLEAN]

PipelineTypeOK ==
    /\ board \in {"project", "demo"} /\ web \in BOOLEAN /\ webGoal \in BOOLEAN /\ promised \subseteq Sections
    /\ task \in [Tasks -> [status : {"absent", "todo", "running", "done"}, error : BOOLEAN]]
    /\ docs \in [Tasks -> {"none", "good", "aside", "bad", "unparsed", "empty"}]
    /\ page \in Page /\ seen \in Page
    /\ notes \subseteq Tasks /\ gate \in Verdicts \cup {NoEvidence}
    /\ driver \in Driver /\ driver.posts <= Retries
    /\ evidence \in Verdicts \cup {NoEvidence}
    /\ outcome \in {"none", "ok", "error", "demo"} \X (Verdicts \cup {""})
    /\ deaths \in 0..MaxDeaths /\ swallowed \in BOOLEAN /\ stale \in BOOLEAN /\ halfBuilt \in BOOLEAN

Unsettled == <<"none", "">>
Idle == [pc |-> "off", lane |-> 1, skip |-> {}, call |-> "lane", round |-> 0, posts |-> 0,
         ask |-> {}, restored |-> FALSE, calls |-> 0, resumed |-> FALSE]

DemoLanes == <<"planner", "builder">>
Driven == IF board = "demo" THEN DemoLanes ELSE Lanes
Role == Driven[driver.lane]

\* The row the call in hand works on.
Task == IF driver.call = "custom" THEN "custom" ELSE Role

PipelineInit ==
    /\ board \in {"project", "demo"} /\ web \in BOOLEAN /\ webGoal \in BOOLEAN
    /\ promised \in SUBSET Sections
    /\ \E custom \in BOOLEAN :
        task = [t \in Tasks |->
            [status |-> IF t \in ToSet(Driven) \/ (t = "custom" /\ custom /\ board = "project")
                        THEN "todo" ELSE "absent", error |-> FALSE]]
    /\ docs = [t \in Tasks |-> "none"] /\ page = Blank /\ seen = Blank
    /\ notes = {} /\ gate = NoEvidence /\ evidence = NoEvidence
    /\ driver = Idle /\ outcome = Unsettled /\ deaths = 0
    /\ swallowed = FALSE /\ stale = FALSE /\ halfBuilt = FALSE

(***************************************************************************)
(* The evidence gate over the workspace.                                   *)
(***************************************************************************)
\* Any test file is enough not to be refused; one that does not parse, or that imports
\* nothing of an uploaded project, is a warning, and so is a missing document, a page
\* that is not one where the goal asks for it, and a link to a file that is not there.
\* With the three documents the workspace has the files the gate counts.
Verdict ==
    LET webOk == ~webGoal \/ /\ page # Blank /\ ~WebArtifactNeedsRepair(page)
                             /\ "skeleton page" \notin Kinds(WebQaIssues(page))
        metaOk == \A r \in RequiredArtifacts : docs[r] # "none"
    IN CASE docs["tdd"] \in {"none", "empty"} -> "NO-GO"
         [] docs["tdd"] \in {"unparsed", "aside"} \/ ~metaOk \/ ~webOk \/ page.dangling -> "WARN"
         [] OTHER -> "GO"

ReasonOf(e) == IF e \in {NoEvidence, "GO"} THEN "" ELSE e

(***************************************************************************)
(* One bounded completion: claim the row, post the request again while the *)
(* provider answers with a code worth retrying, write the file, complete.  *)
(***************************************************************************)
Start(d, call) ==
    [d EXCEPT !.pc = "claim", !.call = call, !.posts = 0,
              !.calls = IF call \in {"lane", "custom"} THEN @ ELSE @ + 1]

Claim ==
    /\ driver.pc = "claim"
    /\ task' = [task EXCEPT ![Task] = [status |-> "running", error |-> FALSE]]
    /\ driver' = [driver EXCEPT !.pc = "post"]
    /\ UNCHANGED <<board4, docs, page, notes, gate, seen, evidence, outcome, deaths, history>>

CallWithRetries ==
    /\ driver.pc = "post" /\ driver.posts < Retries
    /\ driver' = [driver EXCEPT !.posts = @ + 1]
    /\ UNCHANGED <<board4, task, docs, page, notes, gate, seen, evidence, outcome, deaths, history>>

\* Where a failed call leaves the thread: a patch gives up, a custom agent is
\* noted, anything else ends the drive.
GivenUp(call) ==
    CASE call = "custom" -> "lane"
      [] call = "tail" -> "filling"
      [] call = "content" -> "planning"
      [] call = "plan" -> "linking"
      [] call = "nav" -> "device"
      [] OTHER -> "raised"

\* _demo_fail_lane completes the row with an error, then the call raises.
PostFails ==
    LET next == GivenUp(driver.call)
    IN /\ driver.pc = "post"
       /\ task' = [task EXCEPT ![Task] = [status |-> "done", error |-> TRUE]]
       /\ driver' = [driver EXCEPT !.pc = next, !.round = 0,
                                   !.lane = IF driver.call = "custom" THEN @ + 1 ELSE @]
       /\ seen' = IF driver.call = "tail" THEN page ELSE seen
       /\ notes' = IF driver.call = "custom" THEN notes \cup {"custom"} ELSE notes
       /\ swallowed' = (swallowed \/ next # "raised")
       /\ UNCHANGED <<board4, docs, page, gate, evidence, outcome, deaths, stale, halfBuilt>>

FullBuild == driver.call \in {"build", "rebuild"}
Patches == {"tail", "content", "plan", "nav"}

\* A document is executable or not; of the test file it matters too whether anything
\* was written, whether it parses, and whether it is about the uploaded project.
Documents(t) == {"good", "bad"} \cup (IF t = "tdd" THEN {"aside", "unparsed", "empty"} ELSE {})
ExecutableDoc(t) == docs[t] \in {"good", "aside"}

\* A full build overwrites index.html, or the deliverable of another kind; a
\* patch writes a file of its own, read once the row is completed.
Complete ==
    /\ driver.pc = "post"
    /\ task' = [task EXCEPT ![Task] = [status |-> "done", error |-> FALSE]]
    /\ driver' = [driver EXCEPT !.pc = "completed"]
    /\ \/ FullBuild /\ web /\ page' \in Drafts /\ UNCHANGED docs
       \/ /\ ~(FullBuild /\ web) /\ driver.call \notin Patches /\ UNCHANGED page
          /\ \E d \in Documents(Task) : docs' = [docs EXCEPT ![Task] = d]
       \/ driver.call \in Patches /\ UNCHANGED <<docs, page>>
    /\ UNCHANGED <<board4, notes, gate, seen, evidence, outcome, deaths, history>>

(***************************************************************************)
(* The lanes.                                                              *)
(***************************************************************************)
\* After a restart a project board with work left on it is driven again.
Resumable == board = "project" /\ \E t \in Tasks : task[t].status \in {"todo", "running"}

\* The rows done when the thread starts are the ones it skips.
Begin ==
    /\ driver.pc = "off" /\ outcome = Unsettled
    /\ deaths = 0 \/ Resumable
    /\ driver' = [Idle EXCEPT !.pc = "lane", !.resumed = deaths > 0,
                              !.skip = IF board = "project" THEN {t \in Tasks : task[t].status = "done"} ELSE {}]
    /\ evidence' = NoEvidence /\ seen' = page
    /\ UNCHANGED <<board4, task, docs, page, notes, gate, outcome, deaths, history>>

AtBuilder == driver.lane <= Len(Driven) /\ Role = "builder"

AtLane == driver.pc = "lane" /\ driver.lane <= Len(Driven)

\* A lane done by an earlier thread is left alone, the custom agents behind
\* the reviewer with it; the evidence is collected again.
SkipLane ==
    /\ AtLane /\ Role \in driver.skip
    /\ driver' = [driver EXCEPT !.lane = @ + 1]
    /\ evidence' = IF Role = "reviewer" THEN Verdict ELSE evidence
    /\ UNCHANGED <<board4, task, docs, page, notes, gate, seen, outcome, deaths, history>>

EnterLane ==
    /\ AtLane /\ Role \notin driver.skip /\ Role # "builder"
    /\ driver' = Start(driver, "lane")
    /\ UNCHANGED <<board4, task, docs, page, notes, gate, seen, evidence, outcome, deaths, history>>

\* The verdict is posted to the builder's timeline; the builder runs on any.
EnterBuilder ==
    /\ AtLane /\ Role = "builder" /\ Role \notin driver.skip
    /\ gate' = IF evidence = NoEvidence THEN gate ELSE evidence
    /\ driver' = Start(driver, "build")
    /\ UNCHANGED <<board4, task, docs, page, notes, seen, evidence, outcome, deaths, history>>

\* The validation note of a document that is not executable.
RecordValidationNote(role) ==
    IF board = "project" /\ role \in Validated /\ ~ExecutableDoc(role) THEN notes \cup {role} ELSE notes

\* After the reviewer the evidence is collected and the custom agents run.
AfterLane ==
    LET custom == Role = "reviewer" /\ task["custom"].status # "absent"
    IN /\ driver.pc = "completed" /\ driver.call = "lane"
       /\ notes' = RecordValidationNote(Role)
       /\ evidence' = IF board = "project" /\ Role = "reviewer" THEN Verdict ELSE evidence
       /\ driver' = IF custom THEN Start(driver, "custom")
                    ELSE [driver EXCEPT !.pc = "lane", !.lane = @ + 1]
       /\ UNCHANGED <<board4, task, docs, page, gate, seen, outcome, deaths, history>>

AfterCustom ==
    /\ driver.pc = "completed" /\ driver.call = "custom"
    /\ driver' = [driver EXCEPT !.pc = "lane", !.lane = @ + 1]
    /\ UNCHANGED <<board4, task, docs, page, notes, gate, seen, evidence, outcome, deaths, history>>

(***************************************************************************)
(* The builder.  It audits the page after the build and after every        *)
(* rebuild; what it goes by is the page it last audited.                   *)
(***************************************************************************)
Promised == IF docs["planner"] = "good" THEN promised ELSE {}

Goto(pc) == [driver EXCEPT !.pc = pc, !.round = 0]
Again(call, ask) == Start([driver EXCEPT !.round = @ + 1, !.ask = ask], call)

\* A deliverable that is no page is neither audited nor validated.
AfterBuild ==
    /\ driver.pc = "completed" /\ driver.call \in {"build", "rebuild"}
    /\ driver' = IF ~web THEN Goto("noting")
                 ELSE IF driver.call = "build" THEN Goto("rebuilding")
                 ELSE [driver EXCEPT !.pc = "rebuilding"]
    /\ seen' = page
    /\ UNCHANGED <<board4, task, docs, page, notes, gate, evidence, outcome, deaths, history>>

Rebuild ==
    /\ driver.pc = "rebuilding"
    /\ driver' = IF driver.round < RebuildRounds /\ RebuildWanted(seen) THEN Again("rebuild", {})
                 ELSE Goto("extending")
    /\ UNCHANGED <<board4, task, docs, page, notes, gate, seen, evidence, outcome, deaths, history>>

\* A page still cut off is continued from its end, a chunk at a time.
AppendMissingTail ==
    /\ driver.pc = "extending"
    /\ driver' = IF WebArtifactNeedsRepair(seen) /\ WebArtifactNeedsRepair(page)
                    /\ driver.round < TailPasses
                 THEN Again("tail", {}) ELSE Goto("filling")
    /\ seen' = page
    /\ UNCHANGED <<board4, task, docs, page, notes, gate, evidence, outcome, deaths, history>>

\* The chunk may add sections, bring a dead link, fill the page up and reach its end.
Continued(p, new, short, end, hash) ==
    [p EXCEPT !.stub = @ /\ short, !.closed = @ \/ end, !.hash = @ \/ hash,
              !.defects = IF end THEN @ \ {"unclosed block"} ELSE @,
              !.sections = [s \in Sections |-> IF s \in new THEN "full" ELSE @[s]]]

TailContinues ==
    \E new \in SUBSET (Sections \ Elements(page)), short, end, hash \in BOOLEAN :
        /\ page' = Continued(page, new, short, end, hash)
        /\ driver' = IF WebArtifactNeedsRepair(page') THEN [driver EXCEPT !.pc = "extending"]
                     ELSE Goto("filling")

\* Mutant: the page is not audited after the tail.
AfterTailUnaudited ==
    /\ driver.pc = "completed" /\ driver.call = "tail"
    /\ TailContinues
    /\ UNCHANGED <<board4, task, docs, notes, gate, seen, evidence, outcome, deaths, history>>

\* An empty chunk ends the loop.
AfterTail ==
    /\ driver.pc = "completed" /\ driver.call = "tail"
    /\ \/ UNCHANGED page /\ driver' = Goto("filling")
       \/ TailContinues
    /\ seen' = page'
    /\ UNCHANGED <<board4, task, docs, notes, gate, evidence, outcome, deaths, history>>

\* Mutant: every section of the page is replaced, asked for or not.
FilledAll(p, ask, full, shell, hash) ==
    [p EXCEPT !.hash = @ \/ hash,
              !.sections = [s \in Sections |->
                  IF s \in full THEN "full" ELSE IF s \in shell THEN "shell" ELSE "none"]]

\* The sections asked for lose their shells, whatever the answer brings: some
\* of them with copy, some as shells, some not at all, and maybe a dead link.
Filled(p, ask, full, shell, hash) ==
    [p EXCEPT !.hash = @ \/ hash,
              !.sections = [s \in Sections |->
                  IF s \notin ask \/ @[s] = "div" THEN @[s]
                  ELSE IF s \in full THEN "full" ELSE IF s \in shell THEN "shell" ELSE "none"]]

\* What one patch asks of the sections that are wanted: the first few, in an order of
\* their names.
Asked(wanted) == {ask \in SUBSET wanted : Cardinality(ask) = Min({Cardinality(wanted), AskMax})}

\* The loop over the gaps the page's own links show, then the one over what
\* the plan promised.
AppendMissingContent ==
    LET gap == WebContentGap(seen)
    IN /\ driver.pc = "filling"
       /\ IF driver.round < FillRounds /\ gap # {}
          THEN \E ask \in Asked(gap) : driver' = Again("content", ask)
          ELSE driver' = Goto("planning")
       /\ UNCHANGED <<board4, task, docs, page, notes, gate, seen, evidence, outcome, deaths, history>>

ReconcilePlan ==
    LET missing == PlanContentMissing(seen, Promised)
    IN /\ driver.pc = "planning"
       /\ IF driver.round < FillRounds /\ missing # {}
          THEN \E ask \in Asked(missing) : driver' = Again("plan", ask)
          ELSE driver' = Goto("linking")
       /\ UNCHANGED <<board4, task, docs, page, notes, gate, seen, evidence, outcome, deaths, history>>

\* A patch that leaves a gap reports a failure: its loop ends without a new
\* audit, although the page was written.
AfterFill ==
    LET loop == IF driver.call = "content" THEN "filling" ELSE "planning"
        next == IF driver.call = "content" THEN "planning" ELSE "linking"
    IN /\ driver.pc = "completed" /\ driver.call \in {"content", "plan"}
       /\ \/ UNCHANGED <<page, seen, stale>> /\ driver' = Goto(next)
          \/ /\ \E full \in SUBSET driver.ask, hash \in BOOLEAN :
                    \E shell \in SUBSET (driver.ask \ full) :
                        page' = Filled(page, driver.ask, full, shell, hash)
             /\ IF WebContentGap(page') = {}
                THEN /\ seen' = page' /\ UNCHANGED stale
                     /\ driver' = [driver EXCEPT !.pc = loop, !.restored = @ \/ driver.call = "plan"]
                ELSE /\ stale' = TRUE /\ UNCHANGED seen
                     /\ driver' = Goto(next)
       /\ UNCHANGED <<board4, task, docs, notes, gate, evidence, outcome, deaths, swallowed, halfBuilt>>

\* Restored sections the nav does not reach yet are linked.
PlanNavPatch ==
    LET add == {s \in Promised \ page.nav : page.sections[s] # "none"}
    IN /\ driver.pc = "linking"
       /\ IF driver.restored /\ add # {}
          THEN page' = [page EXCEPT !.nav = @ \cup add] /\ seen' = page'
          ELSE UNCHANGED <<page, seen>>
       /\ driver' = Goto("anchors")
       /\ UNCHANGED <<board4, task, docs, notes, gate, evidence, outcome, deaths, history>>

\* A dead link is pointed at the top, a dangling one at an id that resembles
\* it; what still dangles is worth one call that rewrites the nav.
Remapped(p, mended, to) ==
    [p EXCEPT !.hash = FALSE,
              !.nav = (@ \ mended) \cup (IF mended = {} THEN {} ELSE {to}) \cup (IF p.hash THEN {Top} ELSE {})]

Dangling(p) == (p.nav \ Elements(p)) \ {Top}

AnchorPatch ==
    /\ driver.pc = "anchors"
    /\ IF WebArtifactNeedsRepair(seen) \/ ~WebAnchorIssues(WebQaIssues(seen))
       THEN driver' = Goto("device") /\ UNCHANGED page
       ELSE \E mended \in SUBSET Dangling(page), to \in Elements(page) \cup {Top} :
                /\ mended # {} => to \in Elements(page)
                /\ page' = Remapped(page, mended, to)
                /\ driver' \in {Goto("device")} \cup
                        (IF Dangling(page') # {} THEN {Start(driver, "nav")} ELSE {})
    /\ UNCHANGED <<board4, task, docs, notes, gate, seen, evidence, outcome, deaths, history>>

\* A rewritten nav is taken when it has as many links and none is dead.
AfterNav ==
    /\ driver.pc = "completed" /\ driver.call = "nav"
    /\ \/ UNCHANGED page
       \/ \E nav \in SUBSET Targets : nav # {} /\ page' = [page EXCEPT !.nav = nav]
    /\ driver' = Goto("device")
    /\ UNCHANGED <<board4, task, docs, notes, gate, seen, evidence, outcome, deaths, history>>

\* A basic is patched in where the page has the tag it goes into; a rule for small
\* screens only beside other rules, and not where any media query stands already.
DeviceMetaPatch ==
    /\ driver.pc = "device"
    /\ page' = IF WebArtifactNeedsRepair(seen) THEN page ELSE [page EXCEPT !.basics = @ \cup page.room]
    /\ driver' = Goto("noting")
    /\ UNCHANGED <<board4, task, docs, notes, gate, seen, evidence, outcome, deaths, history>>

\* The note on the final page, then the evidence of the built workspace.
AfterBuilder ==
    /\ driver.pc = "noting"
    /\ notes' = IF web /\ BuilderExecutableIssues(page) # {} THEN notes \cup {"builder"} ELSE notes
    /\ evidence' = IF board = "project" THEN Verdict ELSE evidence
    /\ driver' = [driver EXCEPT !.pc = "lane", !.lane = @ + 1]
    /\ UNCHANGED <<board4, task, docs, page, gate, seen, outcome, deaths, history>>

(***************************************************************************)
(* The end of the drive, and the death of the host.                        *)
(***************************************************************************)
Converge ==
    /\ driver.pc = "lane" /\ driver.lane > Len(Driven)
    /\ outcome' = IF board = "demo" THEN <<"demo", "">> ELSE <<"ok", ReasonOf(evidence)>>
    /\ driver' = Goto("end")
    /\ UNCHANGED <<board4, task, docs, page, notes, gate, seen, evidence, deaths, history>>

\* A call that raised settles the launch as an error; the builder of a demo
\* whose planner failed is failed with it.
DriveFails ==
    /\ driver.pc = "raised"
    /\ outcome' = <<"error", "">>
    /\ task' = IF board = "demo" /\ Role = "planner"
               THEN [task EXCEPT !["builder"] = [status |-> "done", error |-> TRUE]] ELSE task
    /\ driver' = Goto("end")
    /\ UNCHANGED <<board4, docs, page, notes, gate, seen, evidence, deaths, history>>

\* The host dies; the board and the workspace are there when it is back.
HostDies ==
    /\ driver.pc \notin {"off", "end"} /\ deaths < MaxDeaths
    /\ deaths' = deaths + 1
    /\ driver' = Idle
    /\ halfBuilt' = (halfBuilt \/ (AtBuilder /\ task["builder"].status = "done"))
    /\ UNCHANGED <<board4, task, docs, page, notes, gate, seen, evidence, outcome, swallowed, stale>>

PipelineNext ==
    \/ Begin \/ SkipLane \/ EnterLane \/ EnterBuilder
    \/ Claim \/ CallWithRetries \/ PostFails \/ Complete
    \/ AfterLane \/ AfterCustom
    \/ AfterBuild \/ Rebuild \/ AppendMissingTail \/ AfterTail
    \/ AppendMissingContent \/ ReconcilePlan \/ AfterFill \/ PlanNavPatch
    \/ AnchorPatch \/ AfterNav \/ DeviceMetaPatch \/ AfterBuilder
    \/ Converge \/ DriveFails \/ HostDies

PipelineSpec == PipelineInit /\ [][PipelineNext]_pipelineVars

(***************************************************************************)
(* What the driver and the builder promise.                                *)
(***************************************************************************)
Converged == outcome[1] = "ok"

\* A builder costs at most two rebuilds, the continuations of a cut page, two
\* fills, two reconciliations and one nav beyond its build, however the
\* provider answers (_run_builder's bounded loops).
CallsBounded == driver.calls <= 1 + RebuildRounds + TailPasses + 2 * FillRounds + 1

\* The reason recorded for a launch is the verdict over the workspace that was
\* delivered, not the one the builder started from.
EvidenceIsOfTheDelivery == Converged => outcome[2] = ReasonOf(Verdict)

\* A page delivered complete has no dead link, and every device basic it had the tags
\* for, unless a patch wrote it unaudited or the host died within the builder.
CompletePageIsFinished ==
    driver.pc = "end" /\ outcome[1] \in {"ok", "demo"} /\ web /\ ~WebArtifactNeedsRepair(page)
        /\ ~stale /\ ~halfBuilt => ~page.hash /\ page.room \subseteq page.basics

\* A converged launch drove every lane of its board to done, and shows an error
\* only where the thread went on after a failed call, or the host died between
\* a failed call and the settlement.
ConvergedBoardIsDone ==
    Converged => \A t \in ToSet(Lanes) :
        task[t].status = "done" /\ (task[t].error => swallowed \/ deaths > 0)

\* Every document that is not executable is noted on the board, and no other
\* (the builder's: of a page), when the host does not die in between.
FlawsAreNoted ==
    Converged /\ deaths = 0 =>
        /\ \A t \in Validated \cap ToSet(Lanes) : t \in notes <=> ~ExecutableDoc(t)
        /\ web => ("builder" \in notes <=> BuilderExecutableIssues(page) # {})

\* A launch is reported as what it delivered: the board, its notes, the recorded
\* reason and the page agree, within a bounded number of calls.
DeliveryIsAsReported ==
    /\ PipelineTypeOK /\ CallsBounded /\ EvidenceIsOfTheDelivery
    /\ CompletePageIsFinished /\ ConvergedBoardIsDone /\ FlawsAreNoted

\* A patch fills a section or leaves it: copy that is on the page stays there,
\* unless an earlier patch wrote the page and reported failure, so that the thread
\* goes by the page before it.
FilledStaysWhileAudited ==
    [][~stale /\ driver.call \in Patches => Full(page) \subseteq Full(page')]_page
=============================================================================
