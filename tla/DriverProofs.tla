---------------------------- MODULE DriverProofs ----------------------------
(***************************************************************************)
(* What drives a board and what judges its documents.  A launch on a thin  *)
(* host is reported as what it delivered, for every choice of lanes in     *)
(* their order, every set of pages a build may come back with and every    *)
(* number of retries, continuations and deaths; the swarm of a fat host is *)
(* safe for every number of tasks, every order among them and every limit  *)
(* of the dispatchers; and the gates keep their contracts for every        *)
(* document.                                                               *)
(***************************************************************************)
EXTENDS MCDrivers, FiniteSums, SequenceTheorems, TLAPS

-----------------------------------------------------------------------------
(* The thread of a thin host. *)

Asking == {"claim", "post", "completed"}
Finishing == {"rebuilding", "extending", "filling", "planning", "linking", "anchors", "device"}
Behind(r) == \E i \in DOMAIN Driven : i < driver.lane /\ Driven[i] = r
Ahead(r) == \E i \in DOMAIN Driven : i >= driver.lane /\ Driven[i] = r

\* The thread is between two lanes, or in one that is not the builder's.
Laned == driver.pc = "lane" \/ (driver.pc \in Asking /\ driver.call \in {"lane", "custom"})

\* Where the thread may stand, and the lane it works on there.
AtInv ==
    /\ driver.lane \in 1..(Len(Driven) + 1)
    /\ driver.pc = "off" => driver = Idle
    /\ driver.pc \in Finishing \cup {"noting"} => AtBuilder
    /\ driver.pc \in Finishing => web
    /\ driver.pc \in Asking \cup {"raised"} =>
          /\ driver.lane <= Len(Driven)
          /\ driver.call = "lane" => Role # "builder"
          /\ driver.call = "custom" => Role = "reviewer" /\ board = "project"
          /\ driver.call \notin {"lane", "custom"} => Role = "builder"
          /\ driver.call \in Patches \cup {"rebuild"} => web
    /\ driver.skip # {} => board = "project"

SettledInv ==
    /\ driver.pc = "end" <=> outcome # Unsettled
    /\ outcome[1] \in {"ok", "demo"} => driver.lane = Len(Driven) + 1
    /\ outcome[1] = "ok" => board = "project"

WhereInv == AtInv /\ SettledInv

\* The lanes behind the thread are done, those ahead of it are not, but for
\* the ones an earlier thread drove, which are the first ones.
SkippedInv ==
    /\ \A i, j \in DOMAIN Lanes : i < j /\ Lanes[j] \in driver.skip => Lanes[i] \in driver.skip
    /\ \A t \in driver.skip \cap Roles : task[t].status = "done"
AheadInv ==
    /\ driver.pc \notin {"off", "end"} =>
          \A i \in DOMAIN Driven :
              i > driver.lane /\ task[Driven[i]].status = "done" => Driven[i] \in driver.skip
    /\ driver.pc \notin {"off", "end", "lane"} => Role \notin driver.skip
    /\ driver.pc = "lane" /\ driver.lane <= Len(Driven) /\ task[Role].status = "done" =>
          Role \in driver.skip
BehindInv ==
    /\ driver.pc # "off" =>
          \A i \in DOMAIN Driven : i < driver.lane => task[Driven[i]].status = "done"
    /\ \/ driver.pc \in Finishing \cup {"noting", "completed"}
       \/ driver.pc \in Asking /\ driver.call = "custom"
       => task[Role].status = "done"
RestedInv ==
    driver.pc = "off" /\ board = "project" =>
        \A i, j \in DOMAIN Lanes :
            i < j /\ task[Lanes[j]].status = "done" => task[Lanes[i]].status = "done"
RowsInv == SkippedInv /\ AheadInv /\ BehindInv /\ RestedInv

\* An error on the board has a failed call behind it.
ErrorInv ==
    \A t \in Tasks :
        task[t].error => swallowed \/ deaths > 0 \/ driver.pc = "raised" \/ outcome[1] = "error"

\* What a thread that is the first finds.
FirstInv ==
    deaths = 0 =>
        /\ driver.skip = {}
        /\ driver.pc = "off" => notes = {} /\ \A t \in Tasks : task[t].status # "done"

\* The calls the builder has made by the stage it has come to.
Stage == IF driver.pc \in Asking THEN driver.call ELSE driver.pc
FreshInv == Ahead("builder") /\ Laned => driver.calls = 0
StageInv ==
    /\ Stage = "build" => driver.calls <= 1
    /\ Stage \in {"rebuilding", "rebuild"} =>
          driver.calls <= 1 + driver.round /\ driver.round <= RebuildRounds
    /\ Stage \in {"extending", "tail"} =>
          driver.calls <= 1 + RebuildRounds + driver.round /\ driver.round <= TailPasses
    /\ Stage \in {"filling", "content"} =>
          /\ driver.calls <= 1 + RebuildRounds + TailPasses + driver.round
          /\ driver.round <= FillRounds
    /\ Stage \in {"planning", "plan"} =>
          /\ driver.calls <= 1 + RebuildRounds + TailPasses + FillRounds + driver.round
          /\ driver.round <= FillRounds
    /\ Stage \in {"linking", "anchors"} =>
          driver.calls <= 1 + RebuildRounds + TailPasses + 2 * FillRounds
    /\ CallsBounded
CallsInv == FreshInv /\ StageInv

\* The thread goes by the page as it is until a patch is not audited, and
\* once it is past the anchors and the device basics they are there.
FinishedPage == ~WebArtifactNeedsRepair(page) => ~page.hash /\ page.room \subseteq page.basics
Seen ==
    \/ driver.pc \in Finishing \ {"device"}
    \/ driver.pc \in Asking /\ driver.call \in {"tail", "content", "plan"}
SeenInv ==
    ~stale => /\ Seen => seen = page
              /\ driver.pc \in Asking /\ driver.call \in {"content", "plan"} =>
                    \A s \in driver.ask : page.sections[s] # "full"
LinkedInv ==
    ~stale =>
        /\ driver.pc = "device" \/ (driver.pc \in Asking /\ driver.call = "nav") =>
              /\ WebArtifactNeedsRepair(seen) = WebArtifactNeedsRepair(page)
              /\ ~WebArtifactNeedsRepair(page) => ~page.hash
        /\ driver.pc = "noting" /\ web => FinishedPage
BuiltInv ==
    ~stale /\ ~halfBuilt /\ web =>
        /\ driver.pc = "off" /\ board = "project" /\ task["builder"].status = "done" =>
              FinishedPage
        /\ driver.pc # "off" /\ (Behind("builder") \/ "builder" \in driver.skip) =>
              FinishedPage
PageInv == SeenInv /\ LinkedInv /\ BuiltInv

\* Past the reviewer the report in hand is of the workspace as it is, but for
\* the page a builder is at work on.
EvidenceInv ==
    board = "project" /\ Laned
        /\ (Behind("reviewer") \/ (driver.pc \in Asking /\ driver.call = "custom"))
    => evidence = Verdict

\* The lanes behind the first thread are noted as their documents are.
NotedLane(i) ==
    i < driver.lane \/ (i = driver.lane /\ driver.pc \in Asking /\ driver.call = "custom")
DocNotesInv ==
    deaths = 0 /\ board = "project" =>
        \A i \in DOMAIN Lanes : Lanes[i] \in Validated =>
            (Lanes[i] \in notes <=> NotedLane(i) /\ docs[Lanes[i]] \notin {"good", "aside"})
PageNotesInv ==
    deaths = 0 /\ board = "project" /\ web =>
        ("builder" \in notes <=> Behind("builder") /\ BuilderExecutableIssues(page) # {})
NotesInv == DocNotesInv /\ PageNotesInv

PipelineInv ==
    /\ PipelineTypeOK /\ WhereInv /\ RowsInv /\ ErrorInv /\ FirstInv /\ CallsInv
    /\ PageInv /\ EvidenceInv /\ NotesInv /\ EvidenceIsOfTheDelivery

------------------------------------------------------------------------------
(* The lanes and their order. *)

LEMMA Parameters ==
    /\ Lanes \in Seq(Roles) /\ Drafts \subseteq Page
    /\ Retries \in Nat /\ TailPasses \in Nat /\ MaxDeaths \in Nat /\ AskMax \in Nat
BY PipelineAssumption DEF PipelineAssumption

LEMMA RolesAre ==
    Roles = {"planner", "architect", "devops", "tdd", "reviewer", "designer", "builder", "auditor"}
<1>1. DOMAIN LaneOrder = 1..8
  BY DEF LaneOrder
<1>2. /\ LaneOrder[1] = "planner" /\ LaneOrder[2] = "architect" /\ LaneOrder[3] = "devops"
      /\ LaneOrder[4] = "tdd" /\ LaneOrder[5] = "reviewer" /\ LaneOrder[6] = "designer"
      /\ LaneOrder[7] = "builder" /\ LaneOrder[8] = "auditor"
  BY DEF LaneOrder
<1>3. \A i \in 1..8 : i = 1 \/ i = 2 \/ i = 3 \/ i = 4 \/ i = 5 \/ i = 6 \/ i = 7 \/ i = 8
  OBVIOUS
<1>4. QED
  BY <1>1, <1>2, <1>3 DEF Roles, ToSet

LEMMA LanesInOrder ==
    /\ \E i \in DOMAIN Lanes : Lanes[i] = "reviewer"
    /\ \E i \in DOMAIN Lanes : Lanes[i] = "builder"
    /\ \A i, j \in DOMAIN Lanes : Lanes[i] = Lanes[j] => i = j
    /\ \A i, j \in DOMAIN Lanes : i < j /\ Lanes[i] = "reviewer" =>
           Lanes[j] \notin {"planner", "architect", "tdd", "reviewer"}
    /\ \A i, j \in DOMAIN Lanes : Lanes[i] = "reviewer" /\ Lanes[j] = "builder" => i < j
<1>1. /\ 1 \in DOMAIN LaneOrder /\ 2 \in DOMAIN LaneOrder /\ 3 \in DOMAIN LaneOrder
      /\ 4 \in DOMAIN LaneOrder /\ 5 \in DOMAIN LaneOrder /\ 6 \in DOMAIN LaneOrder
      /\ 7 \in DOMAIN LaneOrder /\ 8 \in DOMAIN LaneOrder
  BY DEF LaneOrder
<1>2. /\ LaneOrder[1] = "planner" /\ LaneOrder[2] = "architect" /\ LaneOrder[3] = "devops"
      /\ LaneOrder[4] = "tdd" /\ LaneOrder[5] = "reviewer" /\ LaneOrder[6] = "designer"
      /\ LaneOrder[7] = "builder" /\ LaneOrder[8] = "auditor"
  BY DEF LaneOrder
<1>3. \A i, j \in DOMAIN Lanes, k, l \in DOMAIN LaneOrder :
          Lanes[i] = LaneOrder[k] /\ Lanes[j] = LaneOrder[l] /\ i < j => k < l
  BY PipelineAssumption DEF PipelineAssumption
<1>4. DOMAIN Lanes \subseteq Int /\ \A i \in DOMAIN Lanes : Lanes[i] \in Roles
  BY Parameters
<1>5. \A i, j \in DOMAIN Lanes : Lanes[i] = Lanes[j] => i = j
  <2>1. SUFFICES ASSUME NEW i \in DOMAIN Lanes, NEW j \in DOMAIN Lanes, Lanes[i] = Lanes[j], i < j
                 PROVE  FALSE
    BY <1>4
  <2>2. PICK k \in DOMAIN LaneOrder : Lanes[i] = LaneOrder[k]
    BY <1>4 DEF Roles, ToSet
  <2>3. k < k
    BY <1>3, <2>1, <2>2
  <2>4. k \in Int
    BY DEF LaneOrder
  <2>5. QED
    BY <2>3, <2>4
<1>6. \A i, j \in DOMAIN Lanes : i < j /\ Lanes[i] = "reviewer" =>
           Lanes[j] \notin {"planner", "architect", "tdd", "reviewer"}
  <2>1. SUFFICES ASSUME NEW i \in DOMAIN Lanes, NEW j \in DOMAIN Lanes, i < j,
                        Lanes[i] = "reviewer",
                        Lanes[j] \in {"planner", "architect", "tdd", "reviewer"}
                 PROVE  FALSE
    OBVIOUS
  <2>2. \A l \in DOMAIN LaneOrder : Lanes[j] = LaneOrder[l] => 5 < l
    BY <1>1, <1>2, <1>3, <2>1
  <2>3. QED
    BY <1>1, <1>2, <2>1, <2>2
<1>7. \A i, j \in DOMAIN Lanes : Lanes[i] = "reviewer" /\ Lanes[j] = "builder" => i < j
  <2>1. SUFFICES ASSUME NEW i \in DOMAIN Lanes, NEW j \in DOMAIN Lanes, Lanes[i] = "reviewer",
                        Lanes[j] = "builder", j <= i
                 PROVE  FALSE
    BY <1>4
  <2>2. j < i
    BY <2>1, <1>4
  <2>3. 7 < 5
    BY <1>1, <1>2, <1>3, <2>1, <2>2
  <2>4. QED
    BY <2>3
<1>8. QED
  BY <1>5, <1>6, <1>7, PipelineAssumption DEF PipelineAssumption, ToSet

LEMMA DrivenAre ==
    /\ Driven \in Seq(Roles) /\ Len(Driven) \in Nat /\ DOMAIN Driven = 1..Len(Driven)
    /\ \A i \in DOMAIN Driven : Driven[i] \in Roles
    /\ board = "project" \/ board # "demo" => Driven = Lanes
    /\ \A i, j \in DOMAIN Driven : Driven[i] = Driven[j] => i = j
    /\ \E i \in DOMAIN Driven : Driven[i] = "builder"
<1>1. CASE board = "demo"
  <2>1. Driven = DemoLanes /\ DemoLanes \in Seq(Roles)
    BY <1>1, RolesAre DEF Driven, DemoLanes
  <2>2. Len(DemoLanes) = 2 /\ DemoLanes[1] = "planner" /\ DemoLanes[2] = "builder"
        /\ DOMAIN DemoLanes = 1..2
    BY DEF DemoLanes
  <2>3. \A i \in 1..2 : i = 1 \/ i = 2
    OBVIOUS
  <2>4. QED
    BY <1>1, <2>1, <2>2, <2>3
<1>2. CASE board # "demo"
  BY <1>2, Parameters, LanesInOrder DEF Driven
<1>3. QED
  BY <1>1, <1>2

LEMMA TasksAre == Roles \subseteq Tasks /\ "custom" \in Tasks /\ "custom" \notin Roles
BY RolesAre DEF Tasks

------------------------------------------------------------------------------
(* What the moves of the thread do to its place. *)

LEMMA BoardSame ==
    ASSUME [PipelineNext]_pipelineVars
    PROVE  board' = board /\ web' = web /\ webGoal' = webGoal /\ promised' = promised
           /\ Driven' = Driven
<1>1. board4' = board4
  BY DEF PipelineNext, pipelineVars, Begin, SkipLane, EnterLane, EnterBuilder, Claim,
    CallWithRetries, PostFails, Complete, AfterLane, AfterCustom, AfterBuild, Rebuild,
    AppendMissingTail, AfterTail, AppendMissingContent, ReconcilePlan, AfterFill, PlanNavPatch,
    AnchorPatch, AfterNav, DeviceMetaPatch, AfterBuilder, Converge, DriveFails, HostDies
<1>2. board' = board /\ web' = web /\ webGoal' = webGoal /\ promised' = promised
  BY <1>1 DEF board4
<1>3. QED
  BY <1>2, SMTT(30) DEF Driven, DemoLanes

LEMMA IdleIs ==
    /\ Idle \in Driver /\ Idle.posts = 0 /\ Idle.pc = "off" /\ Idle.lane = 1 /\ Idle.skip = {}
    /\ Idle.call = "lane" /\ Idle.round = 0 /\ Idle.calls = 0 /\ Idle.ask = {}
BY DEF Idle, Driver, Places, Calls

LEMMA GotoIs ==
    ASSUME driver \in Driver, NEW pc \in Places
    PROVE  /\ Goto(pc) \in Driver /\ Goto(pc).pc = pc /\ Goto(pc).round = 0
           /\ Goto(pc).lane = driver.lane /\ Goto(pc).skip = driver.skip
           /\ Goto(pc).call = driver.call /\ Goto(pc).posts = driver.posts
           /\ Goto(pc).ask = driver.ask /\ Goto(pc).calls = driver.calls
BY DEF Goto, Driver

LEMMA StartIs ==
    ASSUME NEW d \in Driver, NEW call \in Calls
    PROVE  /\ Start(d, call) \in Driver /\ Start(d, call).pc = "claim"
           /\ Start(d, call).call = call /\ Start(d, call).posts = 0
           /\ Start(d, call).lane = d.lane /\ Start(d, call).skip = d.skip
           /\ Start(d, call).round = d.round /\ Start(d, call).ask = d.ask
           /\ Start(d, call).calls = IF call \in {"lane", "custom"} THEN d.calls ELSE d.calls + 1
<1> DEFINE calls == IF call \in {"lane", "custom"} THEN d.calls ELSE d.calls + 1
<1>1. d.calls \in Nat
  BY DEF Driver
<1>2. calls \in Nat
  BY <1>1
<1>3. Start(d, call) = [d EXCEPT !.pc = "claim", !.call = call, !.posts = 0, !.calls = calls]
  BY DEF Start
<1>4. "claim" \in Places
  BY DEF Places
<1> HIDE DEF calls
<1>5. Start(d, call) \in Driver
  <2>1. [d EXCEPT !.pc = "claim", !.call = call] \in Driver
    BY <1>4 DEF Driver
  <2>2. \A e \in Driver : [e EXCEPT !.posts = 0, !.calls = calls] \in Driver
    BY <1>2 DEF Driver
  <2>3. Start(d, call) =
            [[d EXCEPT !.pc = "claim", !.call = call] EXCEPT !.posts = 0, !.calls = calls]
    BY <1>3
  <2>4. QED
    BY <2>1, <2>2, <2>3
<1>6. QED
  BY <1>3, <1>5 DEF Driver, calls

LEMMA AgainIs ==
    ASSUME driver \in Driver, NEW call \in Calls \ {"lane", "custom"}, NEW ask \in SUBSET Sections
    PROVE  /\ Again(call, ask) \in Driver /\ Again(call, ask).pc = "claim"
           /\ Again(call, ask).call = call /\ Again(call, ask).posts = 0
           /\ Again(call, ask).lane = driver.lane /\ Again(call, ask).skip = driver.skip
           /\ Again(call, ask).round = driver.round + 1 /\ Again(call, ask).ask = ask
           /\ Again(call, ask).calls = driver.calls + 1
<1> DEFINE d == [driver EXCEPT !.round = @ + 1, !.ask = ask]
<1>0. driver.round + 1 \in Nat
  BY DEF Driver
<1>1. /\ d \in Driver /\ d.lane = driver.lane /\ d.skip = driver.skip
      /\ d.round = driver.round + 1 /\ d.ask = ask /\ d.calls = driver.calls
  BY <1>0 DEF Driver
<1>2. Again(call, ask) = Start(d, call)
  BY DEF Again
<1> HIDE DEF d
<1>3. QED
  BY <1>1, <1>2, StartIs

Stays == driver'.lane = driver.lane /\ driver'.skip = driver.skip
Passes == driver'.lane = driver.lane + 1 /\ driver'.skip = driver.skip
Rows3 == <<task, docs, notes>>
Books == <<task, docs, page, notes, seen, evidence, outcome, deaths, history>>
Typed == driver' \in Driver /\ driver'.posts <= Retries

LEMMA BeginDoes ==
    ASSUME PipelineTypeOK, Begin
    PROVE  /\ Typed /\ driver.pc = "off" /\ outcome = Unsettled
           /\ deaths = 0 \/ Resumable
           /\ driver'.pc = "lane" /\ driver'.lane = 1 /\ driver'.call = "lane"
           /\ driver'.calls = 0
           /\ driver'.skip =
                 IF board = "project" THEN {t \in Tasks : task[t].status = "done"} ELSE {}
           /\ evidence' = NoEvidence /\ seen' = page
           /\ UNCHANGED <<task, docs, page, notes, gate, outcome, deaths, history>>
<1> DEFINE skip == IF board = "project" THEN {t \in Tasks : task[t].status = "done"} ELSE {}
<1>1. skip \in SUBSET Tasks
  OBVIOUS
<1>2. driver' = [Idle EXCEPT !.pc = "lane", !.resumed = deaths > 0, !.skip = skip]
  BY DEF Begin
<1> HIDE DEF skip
<1>3. /\ driver' \in Driver /\ driver'.posts = 0 /\ driver'.pc = "lane" /\ driver'.lane = 1
      /\ driver'.call = "lane" /\ driver'.calls = 0 /\ driver'.skip = skip
  <2>1. "lane" \in Places /\ (deaths > 0) \in BOOLEAN
    BY DEF Places
  <2>2. QED
    BY <1>1, <1>2, <2>1, IdleIs DEF Driver
<1>4. QED
  BY <1>3, Parameters DEF Begin, Typed, skip

LEMMA SkipLaneDoes ==
    ASSUME PipelineTypeOK, SkipLane
    PROVE  /\ Typed /\ Passes /\ AtLane /\ Role \in driver.skip
           /\ driver'.pc = "lane" /\ driver'.call = driver.call /\ driver'.calls = driver.calls
           /\ evidence' = IF Role = "reviewer" THEN Verdict ELSE evidence
           /\ UNCHANGED <<task, docs, page, notes, gate, seen, outcome, deaths, history>>
<1>1. driver' = [driver EXCEPT !.lane = driver.lane + 1] /\ driver \in Driver
  BY DEF SkipLane, PipelineTypeOK
<1>2. /\ driver' \in Driver /\ driver'.posts = driver.posts /\ driver'.pc = driver.pc
      /\ driver'.call = driver.call /\ driver'.calls = driver.calls
      /\ driver'.lane = driver.lane + 1 /\ driver'.skip = driver.skip
  BY <1>1 DEF Driver
<1>3. driver.pc = "lane" /\ driver.posts <= Retries
  BY DEF SkipLane, AtLane, PipelineTypeOK
<1>4. QED
  BY <1>2, <1>3 DEF SkipLane, Typed, Passes

LEMMA EnterLaneDoes ==
    ASSUME PipelineTypeOK, EnterLane
    PROVE  /\ Typed /\ Stays /\ AtLane /\ Role \notin driver.skip /\ Role # "builder"
           /\ driver'.pc = "claim" /\ driver'.call = "lane" /\ driver'.calls = driver.calls
           /\ UNCHANGED Books
<1>1. driver' = Start(driver, "lane") /\ "lane" \in Calls
  BY DEF EnterLane, Calls
<1>p. 0 <= Retries
  BY Parameters
<1>2. driver \in Driver /\ 0 <= Retries
  BY <1>p DEF PipelineTypeOK
<1>3. /\ driver' \in Driver /\ driver'.posts = 0 /\ driver'.pc = "claim"
      /\ driver'.call = "lane" /\ driver'.calls = driver.calls
      /\ driver'.lane = driver.lane /\ driver'.skip = driver.skip
  BY <1>1, <1>2, StartIs
<1>4. QED
  BY <1>2, <1>3 DEF EnterLane, Typed, Stays, Books

LEMMA EnterBuilderDoes ==
    ASSUME PipelineTypeOK, EnterBuilder
    PROVE  /\ Typed /\ Stays /\ AtLane /\ Role \notin driver.skip /\ Role = "builder"
           /\ driver'.pc = "claim" /\ driver'.call = "build" /\ driver'.calls = driver.calls + 1
           /\ UNCHANGED Books /\ gate' \in Verdicts \cup {NoEvidence}
<1>1. driver' = Start(driver, "build") /\ "build" \in Calls
  BY DEF EnterBuilder, Calls
<1>2. gate' \in Verdicts \cup {NoEvidence}
  BY DEF EnterBuilder, PipelineTypeOK
<1>p. 0 <= Retries
  BY Parameters
<1>3. driver \in Driver /\ 0 <= Retries
  BY <1>p DEF PipelineTypeOK
<1>4. /\ driver' \in Driver /\ driver'.posts = 0 /\ driver'.pc = "claim"
      /\ driver'.call = "build" /\ driver'.calls = driver.calls + 1
      /\ driver'.lane = driver.lane /\ driver'.skip = driver.skip
  BY <1>1, <1>3, StartIs
<1>5. QED
  BY <1>2, <1>3, <1>4 DEF EnterBuilder, Typed, Stays, Books

LEMMA ClaimDoes ==
    ASSUME PipelineTypeOK, Claim
    PROVE  /\ Typed /\ Stays /\ driver.pc = "claim" /\ driver'.pc = "post"
           /\ driver'.call = driver.call /\ driver'.calls = driver.calls
           /\ driver'.round = driver.round /\ driver'.ask = driver.ask
           /\ task' = [task EXCEPT ![Task] = [status |-> "running", error |-> FALSE]]
           /\ UNCHANGED <<docs, page, notes, gate, seen, evidence, outcome, deaths, history>>
BY DEF Claim, PipelineTypeOK, Driver, Places, Typed, Stays

LEMMA CallWithRetriesDoes ==
    ASSUME PipelineTypeOK, CallWithRetries
    PROVE  /\ Typed /\ Stays /\ driver.pc = "post" /\ driver'.pc = "post"
           /\ driver'.call = driver.call /\ driver'.calls = driver.calls
           /\ driver'.round = driver.round /\ driver'.ask = driver.ask
           /\ UNCHANGED <<Books, gate>>
<1>1. /\ driver' = [driver EXCEPT !.posts = driver.posts + 1] /\ driver \in Driver
      /\ driver.posts < Retries
  BY DEF CallWithRetries, PipelineTypeOK
<1>2. /\ driver' \in Driver /\ driver'.posts = driver.posts + 1 /\ driver'.pc = driver.pc
      /\ driver'.call = driver.call /\ driver'.calls = driver.calls
      /\ driver'.round = driver.round /\ driver'.ask = driver.ask
      /\ driver'.lane = driver.lane /\ driver'.skip = driver.skip /\ driver.posts \in Nat
  BY <1>1 DEF Driver
<1>3. driver'.posts <= Retries
  BY <1>1, <1>2, Parameters
<1>4. QED
  BY <1>2, <1>3 DEF CallWithRetries, Typed, Stays, Books

LEMMA PostFailsDoes ==
    ASSUME PipelineTypeOK, PostFails
    PROVE  /\ Typed /\ driver.pc = "post" /\ driver'.pc = GivenUp(driver.call)
           /\ driver'.round = 0 /\ driver'.call = driver.call /\ driver'.calls = driver.calls
           /\ driver'.skip = driver.skip
           /\ driver'.lane = IF driver.call = "custom" THEN driver.lane + 1 ELSE driver.lane
           /\ task' = [task EXCEPT ![Task] = [status |-> "done", error |-> TRUE]]
           /\ seen' = IF driver.call = "tail" THEN page ELSE seen
           /\ notes' = IF driver.call = "custom" THEN notes \cup {"custom"} ELSE notes
           /\ swallowed' = (swallowed \/ driver'.pc # "raised")
           /\ UNCHANGED <<docs, page, gate, evidence, outcome, deaths, stale, halfBuilt>>
<1>1. GivenUp(driver.call) \in Places
  BY DEF GivenUp, Places
<1> DEFINE lane == IF driver.call = "custom" THEN driver.lane + 1 ELSE driver.lane
<1>2. /\ driver' = [driver EXCEPT !.pc = GivenUp(driver.call), !.round = 0, !.lane = lane]
      /\ driver \in Driver /\ driver.posts <= Retries
  BY DEF PostFails, PipelineTypeOK
<1>l. lane \in Nat
  BY <1>2 DEF Driver
<1> HIDE DEF lane
<1>3. /\ Typed /\ driver'.pc = GivenUp(driver.call)
      /\ driver'.round = 0 /\ driver'.call = driver.call /\ driver'.calls = driver.calls
      /\ driver'.skip = driver.skip
      /\ driver'.lane = IF driver.call = "custom" THEN driver.lane + 1 ELSE driver.lane
  <2>1. driver' \in Driver
    BY <1>1, <1>2, <1>l DEF Driver
  <2>2. QED
    BY <1>2, <2>1 DEF Driver, Typed, lane
<1>4. QED
  BY <1>3 DEF PostFails

LEMMA CompleteDoes ==
    ASSUME PipelineTypeOK, Complete
    PROVE  /\ Typed /\ Stays /\ driver.pc = "post" /\ driver'.pc = "completed"
           /\ driver'.call = driver.call /\ driver'.calls = driver.calls
           /\ driver'.round = driver.round /\ driver'.ask = driver.ask
           /\ task' = [task EXCEPT ![Task] = [status |-> "done", error |-> FALSE]]
           /\ driver.call \notin {"build", "rebuild"} => page' = page
           /\ driver.call \in Patches => docs' = docs
           /\ page' \in Page
           /\ docs' = docs \/ \E d \in Documents(Task) : docs' = [docs EXCEPT ![Task] = d]
           /\ UNCHANGED <<notes, gate, seen, evidence, outcome, deaths, history>>
<1>1. /\ Typed /\ Stays /\ driver'.pc = "completed"
      /\ driver'.call = driver.call /\ driver'.calls = driver.calls
      /\ driver'.round = driver.round /\ driver'.ask = driver.ask
  BY DEF Complete, PipelineTypeOK, Driver, Places, Typed, Stays
<1>2. driver.call \in {"build", "rebuild"} <=> FullBuild
  BY DEF FullBuild
<1>3. ~FullBuild => page' = page
  BY DEF Complete
<1>4. driver.call \in Patches => docs' = docs
  BY DEF Complete, FullBuild, Patches
<1>5. page' \in Page
  BY Parameters DEF Complete, PipelineTypeOK
<1>6. docs' = docs \/ \E d \in Documents(Task) : docs' = [docs EXCEPT ![Task] = d]
  BY DEF Complete
<1>7. QED
  BY <1>1, <1>2, <1>3, <1>4, <1>5, <1>6 DEF Complete

LEMMA AfterLaneDoes ==
    ASSUME PipelineTypeOK, AfterLane
    PROVE  /\ Typed /\ driver'.skip = driver.skip
           /\ driver.pc = "completed" /\ driver.call = "lane"
           /\ notes' = RecordValidationNote(Role)
           /\ evidence' = IF board = "project" /\ Role = "reviewer" THEN Verdict ELSE evidence
           /\ IF Role = "reviewer" /\ task["custom"].status # "absent"
              THEN /\ driver'.pc = "claim" /\ driver'.call = "custom" /\ driver'.lane = driver.lane
              ELSE driver'.pc = "lane" /\ driver'.lane = driver.lane + 1
           /\ driver'.calls = driver.calls
           /\ UNCHANGED <<task, docs, page, gate, seen, outcome, deaths, history>>
<1>1. driver \in Driver /\ "custom" \in Calls
  BY DEF PipelineTypeOK, Calls
<1>2. CASE Role = "reviewer" /\ task["custom"].status # "absent"
  <2>1. driver' = Start(driver, "custom")
    BY <1>2 DEF AfterLane
  <2>2. QED
    BY <1>1, <1>2, <2>1, StartIs, Parameters DEF AfterLane, Typed
<1>3. CASE ~(Role = "reviewer" /\ task["custom"].status # "absent")
  <2>1. driver' = [driver EXCEPT !.pc = "lane", !.lane = @ + 1]
    BY <1>3 DEF AfterLane
  <2>2. QED
    <3>1. "lane" \in Places /\ driver.posts <= Retries
      BY DEF Places, PipelineTypeOK
    <3>2. /\ driver' \in Driver /\ driver'.posts = driver.posts /\ driver'.pc = "lane"
          /\ driver'.calls = driver.calls /\ driver'.lane = driver.lane + 1
          /\ driver'.skip = driver.skip
      <4>1. driver.lane + 1 \in Nat
        BY <1>1 DEF Driver
      <4>2. driver' \in Driver
        BY <1>1, <2>1, <3>1, <4>1 DEF Driver
      <4>3. QED
        BY <1>1, <2>1, <4>2 DEF Driver
    <3>3. QED
      BY <1>3, <3>1, <3>2 DEF AfterLane, Typed
<1>4. QED
  BY <1>2, <1>3

LEMMA AfterCustomDoes ==
    ASSUME PipelineTypeOK, AfterCustom
    PROVE  /\ Typed /\ Passes /\ driver.pc = "completed" /\ driver.call = "custom"
           /\ driver'.pc = "lane" /\ driver'.call = driver.call /\ driver'.calls = driver.calls
           /\ UNCHANGED <<Books, gate>>
<1>1. /\ driver' = [driver EXCEPT !.pc = "lane", !.lane = driver.lane + 1]
      /\ driver \in Driver /\ driver.posts <= Retries /\ "lane" \in Places
  BY DEF AfterCustom, PipelineTypeOK, Places
<1>2. /\ driver' \in Driver /\ driver'.posts = driver.posts /\ driver'.pc = "lane"
      /\ driver'.call = driver.call /\ driver'.calls = driver.calls
      /\ driver'.lane = driver.lane + 1 /\ driver'.skip = driver.skip
  <2>1. driver.lane + 1 \in Nat
    BY <1>1 DEF Driver
  <2>2. driver' \in Driver
    BY <1>1, <2>1 DEF Driver
  <2>3. QED
    BY <1>1, <2>2 DEF Driver
<1>3. QED
  BY <1>1, <1>2 DEF AfterCustom, Typed, Passes, Books

LEMMA AfterBuilderDoes ==
    ASSUME PipelineTypeOK, AfterBuilder
    PROVE  /\ Typed /\ Passes /\ driver.pc = "noting"
           /\ driver'.pc = "lane" /\ driver'.calls = driver.calls
           /\ notes' = IF web /\ BuilderExecutableIssues(page) # {}
                       THEN notes \cup {"builder"} ELSE notes
           /\ evidence' = IF board = "project" THEN Verdict ELSE evidence
           /\ UNCHANGED <<task, docs, page, gate, seen, outcome, deaths, history>>
<1>1. /\ driver' = [driver EXCEPT !.pc = "lane", !.lane = driver.lane + 1]
      /\ driver \in Driver /\ driver.posts <= Retries /\ "lane" \in Places
  BY DEF AfterBuilder, PipelineTypeOK, Places
<1>2. /\ driver' \in Driver /\ driver'.posts = driver.posts /\ driver'.pc = "lane"
      /\ driver'.call = driver.call /\ driver'.calls = driver.calls
      /\ driver'.lane = driver.lane + 1 /\ driver'.skip = driver.skip
  <2>1. driver.lane + 1 \in Nat
    BY <1>1 DEF Driver
  <2>2. driver' \in Driver
    BY <1>1, <2>1 DEF Driver
  <2>3. QED
    BY <1>1, <2>2 DEF Driver
<1>3. QED
  BY <1>1, <1>2 DEF AfterBuilder, Typed, Passes

LEMMA ConvergeDoes ==
    ASSUME PipelineTypeOK, Converge
    PROVE  /\ Typed /\ Stays /\ driver.pc = "lane" /\ driver.lane > Len(Driven)
           /\ driver'.pc = "end" /\ driver'.calls = driver.calls
           /\ outcome' = IF board = "demo" THEN <<"demo", "">> ELSE <<"ok", ReasonOf(evidence)>>
           /\ UNCHANGED <<task, docs, page, notes, gate, seen, evidence, deaths, history>>
<1>1. "end" \in Places /\ driver' = Goto("end")
  BY DEF Converge, Places
<1>2. driver \in Driver /\ driver.posts <= Retries
  BY DEF PipelineTypeOK
<1>3. /\ driver' \in Driver /\ driver'.posts = driver.posts /\ driver'.pc = "end"
      /\ driver'.calls = driver.calls
      /\ driver'.lane = driver.lane /\ driver'.skip = driver.skip
  BY <1>1, <1>2, GotoIs
<1>4. QED
  BY <1>2, <1>3 DEF Converge, Typed, Stays

LEMMA DriveFailsDoes ==
    ASSUME PipelineTypeOK, DriveFails
    PROVE  /\ Typed /\ Stays /\ driver.pc = "raised"
           /\ driver'.pc = "end" /\ driver'.calls = driver.calls
           /\ outcome' = <<"error", "">>
           /\ task' = IF board = "demo" /\ Role = "planner"
                      THEN [task EXCEPT !["builder"] = [status |-> "done", error |-> TRUE]]
                      ELSE task
           /\ UNCHANGED <<docs, page, notes, gate, seen, evidence, deaths, history>>
<1>1. "end" \in Places /\ driver' = Goto("end")
  BY DEF DriveFails, Places
<1>2. driver \in Driver /\ driver.posts <= Retries
  BY DEF PipelineTypeOK
<1>3. /\ driver' \in Driver /\ driver'.posts = driver.posts /\ driver'.pc = "end"
      /\ driver'.calls = driver.calls
      /\ driver'.lane = driver.lane /\ driver'.skip = driver.skip
  BY <1>1, <1>2, GotoIs
<1>4. QED
  BY <1>2, <1>3 DEF DriveFails, Typed, Stays

LEMMA HostDiesDoes ==
    ASSUME PipelineTypeOK, HostDies
    PROVE  /\ Typed /\ driver.pc \notin {"off", "end"} /\ deaths < MaxDeaths
           /\ driver' = Idle /\ deaths' = deaths + 1
           /\ halfBuilt' = (halfBuilt \/ (AtBuilder /\ task["builder"].status = "done"))
           /\ UNCHANGED <<task, docs, page, notes, gate, seen, evidence, outcome, swallowed, stale>>
BY IdleIs, Parameters DEF HostDies, Typed

------------------------------------------------------------------------------
(* The steps of a builder that is past its build. *)

\* Nothing but the page, what the thread knows of it, and its place change.
Works ==
    /\ Typed /\ Stays
    /\ driver.pc \in Finishing \/ (driver.pc = "completed" /\ driver.call \notin {"lane", "custom"})
    /\ page' \in Page /\ seen' \in Page /\ stale' \in BOOLEAN
    /\ \/ driver'.pc \in Finishing /\ web
       \/ driver'.pc = "noting"
       \/ driver'.pc = "claim" /\ driver'.call \in Patches \cup {"rebuild"} /\ web
    /\ UNCHANGED <<task, docs, notes, gate, evidence, outcome, deaths, swallowed, halfBuilt>>

\* Where a step leads, and what it costs.
ToStage(pc, round) == driver'.pc = pc /\ driver'.round = round /\ driver'.calls = driver.calls
ToCall(call) ==
    /\ driver'.pc = "claim" /\ driver'.call = call /\ driver'.round = driver.round + 1
    /\ driver'.calls = driver.calls + 1

LEMMA GoesTo ==
    ASSUME PipelineTypeOK, NEW pc \in Finishing \cup {"noting"}, driver' = Goto(pc)
    PROVE  Typed /\ Stays /\ ToStage(pc, 0) /\ driver'.call = driver.call
<1>1. driver \in Driver /\ driver.posts <= Retries /\ pc \in Places
  BY DEF PipelineTypeOK, Places, Finishing
<1>2. QED
  BY <1>1, GotoIs DEF Typed, Stays, ToStage

LEMMA ComesBackTo ==
    ASSUME PipelineTypeOK, NEW pc \in Finishing, driver' = [driver EXCEPT !.pc = pc]
    PROVE  Typed /\ Stays /\ ToStage(pc, driver.round) /\ driver'.call = driver.call
<1>1. driver \in Driver /\ driver.posts <= Retries /\ pc \in Places
  BY DEF PipelineTypeOK, Places, Finishing
<1>2. QED
  BY <1>1 DEF Driver, Typed, Stays, ToStage

LEMMA AsksAgain ==
    ASSUME PipelineTypeOK, NEW call \in Patches \cup {"rebuild"}, NEW ask \in SUBSET Sections,
           driver' = Again(call, ask)
    PROVE  Typed /\ Stays /\ ToCall(call) /\ driver'.ask = ask
<1>p. 0 <= Retries
  BY Parameters
<1>1. driver \in Driver /\ call \in Calls \ {"lane", "custom"}
  BY DEF PipelineTypeOK, Calls, Patches
<1>2. QED
  BY <1>1, <1>p, AgainIs DEF Typed, Stays, ToCall

LEMMA Finishers ==
    /\ WhereInv => (driver.pc \in Finishing => web)
    /\ WhereInv => (driver.pc = "completed" /\ driver.call \in Patches \cup {"rebuild"} => web)
BY DEF WhereInv, AtInv, Asking

LEMMA AfterBuildDoes ==
    ASSUME PipelineTypeOK, WhereInv, AfterBuild
    PROVE  /\ Works /\ driver.pc = "completed" /\ driver.call \in {"build", "rebuild"}
           /\ page' = page /\ seen' = page /\ stale' = stale
           /\ IF ~web THEN ToStage("noting", 0)
              ELSE ToStage("rebuilding", IF driver.call = "build" THEN 0 ELSE driver.round)
<1>1. /\ page' = page /\ seen' = page /\ stale' = stale
      /\ driver.pc = "completed" /\ driver.call \in {"build", "rebuild"}
      /\ UNCHANGED <<task, docs, notes, gate, evidence, outcome, deaths, swallowed, halfBuilt>>
      /\ page' \in Page /\ seen' \in Page /\ stale' \in BOOLEAN
  BY DEF AfterBuild, PipelineTypeOK, history
<1>2. CASE ~web
  <2>1. driver' = Goto("noting") /\ "noting" \in Finishing \cup {"noting"}
    BY <1>2 DEF AfterBuild
  <2>2. Typed /\ Stays /\ ToStage("noting", 0)
    BY <2>1, GoesTo
  <2>3. QED
    BY <1>1, <1>2, <2>2 DEF Works, ToStage
<1>3. CASE web /\ driver.call = "build"
  <2>1. driver' = Goto("rebuilding") /\ "rebuilding" \in Finishing
    BY <1>3 DEF AfterBuild, Finishing
  <2>2. Typed /\ Stays /\ ToStage("rebuilding", 0)
    BY <2>1, GoesTo
  <2>3. QED
    BY <1>1, <1>3, <2>1, <2>2 DEF Works, ToStage
<1>4. CASE web /\ driver.call # "build"
  <2>1. driver' = [driver EXCEPT !.pc = "rebuilding"] /\ "rebuilding" \in Finishing
    BY <1>4 DEF AfterBuild, Finishing
  <2>2. Typed /\ Stays /\ ToStage("rebuilding", driver.round)
    BY <2>1, ComesBackTo
  <2>3. QED
    BY <1>1, <1>4, <2>1, <2>2 DEF Works, ToStage
<1>5. QED
  BY <1>2, <1>3, <1>4

LEMMA RebuildDoes ==
    ASSUME PipelineTypeOK, WhereInv, Rebuild
    PROVE  /\ Works /\ driver.pc = "rebuilding"
           /\ page' = page /\ seen' = seen /\ stale' = stale
           /\ \/ driver.round < RebuildRounds /\ ToCall("rebuild")
              \/ ToStage("extending", 0)
<1>1. /\ page' = page /\ seen' = seen /\ stale' = stale /\ driver.pc = "rebuilding"
      /\ UNCHANGED <<task, docs, notes, gate, evidence, outcome, deaths, swallowed, halfBuilt>>
      /\ page' \in Page /\ seen' \in Page /\ stale' \in BOOLEAN
      /\ \/ driver' = Again("rebuild", {}) /\ driver.round < RebuildRounds
         \/ driver' = Goto("extending")
  BY DEF Rebuild, PipelineTypeOK, history
<1>2. web /\ driver.pc \in Finishing /\ "extending" \in Finishing
  BY <1>1, Finishers DEF Finishing
<1>3. CASE driver' = Again("rebuild", {}) /\ driver.round < RebuildRounds
  <2>1. Typed /\ Stays /\ ToCall("rebuild")
    BY <1>3, AsksAgain
  <2>2. QED
    BY <1>1, <1>2, <1>3, <2>1 DEF Works, ToCall
<1>4. CASE driver' = Goto("extending")
  <2>1. Typed /\ Stays /\ ToStage("extending", 0)
    BY <1>2, <1>4, GoesTo
  <2>2. QED
    BY <1>1, <1>2, <2>1 DEF Works, ToStage
<1>5. QED
  BY <1>1, <1>3, <1>4

LEMMA AppendMissingTailDoes ==
    ASSUME PipelineTypeOK, WhereInv, AppendMissingTail
    PROVE  /\ Works /\ driver.pc = "extending"
           /\ page' = page /\ seen' = page /\ stale' = stale
           /\ \/ driver.round < TailPasses /\ ToCall("tail")
              \/ ToStage("filling", 0)
<1>1. /\ page' = page /\ seen' = page /\ stale' = stale /\ driver.pc = "extending"
      /\ UNCHANGED <<task, docs, notes, gate, evidence, outcome, deaths, swallowed, halfBuilt>>
      /\ page' \in Page /\ seen' \in Page /\ stale' \in BOOLEAN
      /\ \/ driver' = Again("tail", {}) /\ driver.round < TailPasses
         \/ driver' = Goto("filling")
  BY DEF AppendMissingTail, PipelineTypeOK, history
<1>2. web /\ driver.pc \in Finishing /\ "filling" \in Finishing /\ "tail" \in Patches
  BY <1>1, Finishers DEF Finishing, Patches
<1>3. CASE driver' = Again("tail", {}) /\ driver.round < TailPasses
  <2>1. Typed /\ Stays /\ ToCall("tail")
    BY <1>2, <1>3, AsksAgain
  <2>2. QED
    BY <1>1, <1>2, <1>3, <2>1 DEF Works, ToCall
<1>4. CASE driver' = Goto("filling")
  <2>1. Typed /\ Stays /\ ToStage("filling", 0)
    BY <1>2, <1>4, GoesTo
  <2>2. QED
    BY <1>1, <1>2, <2>1 DEF Works, ToStage
<1>5. QED
  BY <1>1, <1>3, <1>4

LEMMA ContinuedIs ==
    ASSUME NEW p \in Page, NEW new, NEW short \in BOOLEAN, NEW end \in BOOLEAN, NEW hash \in BOOLEAN
    PROVE  /\ Continued(p, new, short, end, hash) \in Page
           /\ Full(p) \subseteq Full(Continued(p, new, short, end, hash))
<1> DEFINE q == Continued(p, new, short, end, hash)
<1> DEFINE sections == [s \in Sections |-> IF s \in new THEN "full" ELSE p.sections[s]]
<1> DEFINE defects == IF end THEN p.defects \ {"unclosed block"} ELSE p.defects
<1>1. sections \in [Sections -> {"none", "shell", "div", "full"}]
  BY DEF Page
<1>2. /\ (p.stub /\ short) \in BOOLEAN /\ (p.closed \/ end) \in BOOLEAN /\ (p.hash \/ hash) \in BOOLEAN
      /\ defects \in SUBSET Defects
  BY DEF Page
<1>3. q = [p EXCEPT !.stub = (p.stub /\ short), !.closed = (p.closed \/ end),
                    !.hash = (p.hash \/ hash), !.defects = defects, !.sections = sections]
  BY DEF Continued
<1>4. \A s \in Sections : p.sections[s] = "full" => sections[s] = "full"
  OBVIOUS
<1> HIDE DEF sections, defects, q
<1>5. q = [[p EXCEPT !.stub = (p.stub /\ short), !.closed = (p.closed \/ end)]
              EXCEPT !.hash = (p.hash \/ hash), !.defects = defects, !.sections = sections]
  BY <1>3
<1>6. [p EXCEPT !.stub = (p.stub /\ short), !.closed = (p.closed \/ end)] \in Page
  BY <1>2 DEF Page
<1>7. \A x \in Page : [x EXCEPT !.hash = (p.hash \/ hash), !.defects = defects,
                                !.sections = sections] \in Page
  BY <1>1, <1>2 DEF Page
<1>8. q.sections = sections
  BY <1>3 DEF Page
<1>9. QED
  BY <1>4, <1>5, <1>6, <1>7, <1>8 DEF Full, q

LEMMA AfterTailDoes ==
    ASSUME PipelineTypeOK, WhereInv, AfterTail
    PROVE  /\ Works /\ driver.pc = "completed" /\ driver.call = "tail"
           /\ seen' = page' /\ stale' = stale /\ Full(page) \subseteq Full(page')
           /\ ToStage("filling", 0) \/ ToStage("extending", driver.round)
<1>1. /\ seen' = page' /\ stale' = stale /\ driver.pc = "completed" /\ driver.call = "tail"
      /\ UNCHANGED <<task, docs, notes, gate, evidence, outcome, deaths, swallowed, halfBuilt>>
      /\ stale' \in BOOLEAN
      /\ driver' = Goto("filling") \/ driver' = [driver EXCEPT !.pc = "extending"]
  BY DEF AfterTail, TailContinues, PipelineTypeOK, history
<1>2. web /\ "extending" \in Finishing /\ "filling" \in Finishing /\ driver.call \in Patches
  BY <1>1, Finishers DEF Finishing, Patches
<1>3. page' \in Page /\ Full(page) \subseteq Full(page')
  <2>1. page \in Page
    BY DEF PipelineTypeOK
  <2>2. CASE page' = page
    BY <2>1, <2>2
  <2>3. CASE page' # page
    <3>1. TailContinues
      BY <2>3 DEF AfterTail
    <3>2. PICK new \in SUBSET (Sections \ Elements(page)), short \in BOOLEAN, end \in BOOLEAN,
             hash \in BOOLEAN : page' = Continued(page, new, short, end, hash)
      BY <3>1, ZenonT(40) DEF TailContinues
    <3>3. QED
      BY <2>1, <3>2, ContinuedIs
  <2>4. QED
    BY <2>2, <2>3
<1>4. CASE driver' = Goto("filling")
  <2>1. Typed /\ Stays /\ ToStage("filling", 0)
    BY <1>2, <1>4, GoesTo
  <2>2. QED
    BY <1>1, <1>2, <1>3, <2>1 DEF Works, ToStage
<1>5. CASE driver' = [driver EXCEPT !.pc = "extending"]
  <2>1. Typed /\ Stays /\ ToStage("extending", driver.round)
    BY <1>2, <1>5, ComesBackTo
  <2>2. QED
    BY <1>1, <1>2, <1>3, <2>1 DEF Works, ToStage
<1>6. QED
  BY <1>1, <1>4, <1>5

LEMMA GapsAre ==
    ASSUME NEW p \in Page, NEW wanted \in SUBSET Sections
    PROVE  /\ WebContentGap(p) \in SUBSET Sections
           /\ PlanContentMissing(p, wanted) \in SUBSET Sections
           /\ \A s \in WebContentGap(p) \cup PlanContentMissing(p, wanted) : p.sections[s] # "full"
<1>1. p.nav \subseteq Sections \cup {Top}
  BY DEF Page, Targets
<1>2. QED
  BY <1>1 DEF WebContentGap, PlanContentMissing

LEMMA AskedOf ==
    ASSUME NEW wanted, NEW ask \in Asked(wanted)
    PROVE  ask \in SUBSET wanted
BY DEF Asked

LEMMA AppendMissingContentDoes ==
    ASSUME PipelineTypeOK, WhereInv, AppendMissingContent
    PROVE  /\ Works /\ driver.pc = "filling"
           /\ page' = page /\ seen' = seen /\ stale' = stale
           /\ \/ /\ driver.round < FillRounds /\ ToCall("content")
                 /\ \A s \in driver'.ask : seen.sections[s] # "full"
              \/ ToStage("planning", 0)
<1> DEFINE gap == WebContentGap(seen)
<1>1. /\ page' = page /\ seen' = seen /\ stale' = stale /\ driver.pc = "filling"
      /\ UNCHANGED <<task, docs, notes, gate, evidence, outcome, deaths, swallowed, halfBuilt>>
      /\ page' \in Page /\ seen' \in Page /\ stale' \in BOOLEAN
      /\ \/ (\E ask \in Asked(gap) : driver' = Again("content", ask)) /\ driver.round < FillRounds
         \/ driver' = Goto("planning")
  BY DEF AppendMissingContent, PipelineTypeOK, history
<1>2. web /\ driver.pc \in Finishing /\ "planning" \in Finishing /\ "content" \in Patches
  BY <1>1, Finishers DEF Finishing, Patches
<1>g. gap \in SUBSET Sections /\ \A s \in gap : seen.sections[s] # "full"
  BY <1>1, GapsAre
<1> HIDE DEF gap
<1>3. CASE (\E ask \in Asked(gap) : driver' = Again("content", ask)) /\ driver.round < FillRounds
  <2>0. PICK ask \in SUBSET gap : driver' = Again("content", ask)
    BY <1>3, AskedOf
  <2>1. Typed /\ Stays /\ ToCall("content") /\ driver'.ask = ask
    BY <1>2, <1>g, <2>0, AsksAgain
  <2>2. QED
    BY <1>1, <1>2, <1>3, <1>g, <2>0, <2>1 DEF Works, ToCall
<1>4. CASE driver' = Goto("planning")
  <2>1. Typed /\ Stays /\ ToStage("planning", 0)
    BY <1>2, <1>4, GoesTo
  <2>2. QED
    BY <1>1, <1>2, <2>1 DEF Works, ToStage
<1>5. QED
  BY <1>1, <1>3, <1>4

LEMMA ReconcilePlanDoes ==
    ASSUME PipelineTypeOK, WhereInv, ReconcilePlan
    PROVE  /\ Works /\ driver.pc = "planning"
           /\ page' = page /\ seen' = seen /\ stale' = stale
           /\ \/ /\ driver.round < FillRounds /\ ToCall("plan")
                 /\ \A s \in driver'.ask : seen.sections[s] # "full"
              \/ ToStage("linking", 0)
<1> DEFINE gap == PlanContentMissing(seen, Promised)
<1>1. /\ page' = page /\ seen' = seen /\ stale' = stale /\ driver.pc = "planning"
      /\ UNCHANGED <<task, docs, notes, gate, evidence, outcome, deaths, swallowed, halfBuilt>>
      /\ page' \in Page /\ seen' \in Page /\ stale' \in BOOLEAN
      /\ \/ (\E ask \in Asked(gap) : driver' = Again("plan", ask)) /\ driver.round < FillRounds
         \/ driver' = Goto("linking")
  BY DEF ReconcilePlan, PipelineTypeOK, history
<1>2. web /\ driver.pc \in Finishing /\ "linking" \in Finishing /\ "plan" \in Patches
  BY <1>1, Finishers DEF Finishing, Patches
<1>w. Promised \in SUBSET Sections
  BY DEF Promised, PipelineTypeOK
<1>g. gap \in SUBSET Sections /\ \A s \in gap : seen.sections[s] # "full"
  BY <1>1, <1>w, GapsAre
<1> HIDE DEF gap
<1>3. CASE (\E ask \in Asked(gap) : driver' = Again("plan", ask)) /\ driver.round < FillRounds
  <2>0. PICK ask \in SUBSET gap : driver' = Again("plan", ask)
    BY <1>3, AskedOf
  <2>1. Typed /\ Stays /\ ToCall("plan") /\ driver'.ask = ask
    BY <1>2, <1>g, <2>0, AsksAgain
  <2>2. QED
    BY <1>1, <1>2, <1>3, <1>g, <2>0, <2>1 DEF Works, ToCall
<1>4. CASE driver' = Goto("linking")
  <2>1. Typed /\ Stays /\ ToStage("linking", 0)
    BY <1>2, <1>4, GoesTo
  <2>2. QED
    BY <1>1, <1>2, <2>1 DEF Works, ToStage
<1>5. QED
  BY <1>1, <1>3, <1>4

\* A section block replaces no copy but that of the sections it was asked for.
LEMMA FilledKeepsPage ==
    ASSUME NEW p \in Page, NEW ask, NEW full, NEW shell, NEW hash \in BOOLEAN
    PROVE  /\ Filled(p, ask, full, shell, hash) \in Page
           /\ (\A s \in ask : p.sections[s] # "full") =>
                 Full(p) \subseteq Full(Filled(p, ask, full, shell, hash))
<1> DEFINE sections == [s \in Sections |->
                           IF s \notin ask \/ p.sections[s] = "div" THEN p.sections[s]
                           ELSE IF s \in full THEN "full" ELSE IF s \in shell THEN "shell" ELSE "none"]
           q == Filled(p, ask, full, shell, hash)
<1>1. sections \in [Sections -> {"none", "shell", "div", "full"}] /\ (p.hash \/ hash) \in BOOLEAN
  BY DEF Page
<1>2. q = [p EXCEPT !.hash = (p.hash \/ hash), !.sections = sections]
  BY DEF Filled
<1>3. (\A s \in ask : p.sections[s] # "full") =>
          \A s \in Sections : p.sections[s] = "full" => sections[s] = "full"
  OBVIOUS
<1> HIDE DEF sections, q
<1>4. q \in Page /\ q.sections = sections
  BY <1>1, <1>2 DEF Page
<1>5. QED
  BY <1>3, <1>4 DEF Full, q

LEMMA AfterFillDoes ==
    ASSUME PipelineTypeOK, WhereInv, AfterFill
    PROVE  /\ Works /\ driver.pc = "completed" /\ driver.call \in {"content", "plan"}
           /\ (\A s \in driver.ask : page.sections[s] # "full") => Full(page) \subseteq Full(page')
           /\ \/ /\ ToStage(IF driver.call = "content" THEN "planning" ELSE "linking", 0)
                 /\ stale' \/ (page' = page /\ seen' = seen /\ stale' = stale)
              \/ /\ ToStage(IF driver.call = "content" THEN "filling" ELSE "planning", driver.round)
                 /\ seen' = page' /\ stale' = stale
<1> DEFINE loop == IF driver.call = "content" THEN "filling" ELSE "planning"
           next == IF driver.call = "content" THEN "planning" ELSE "linking"
<1>1. /\ driver.pc = "completed" /\ driver.call \in {"content", "plan"}
      /\ UNCHANGED <<task, docs, notes, gate, evidence, outcome, deaths, swallowed, halfBuilt>>
  BY DEF AfterFill
<1>2. /\ web /\ loop \in Finishing /\ next \in Finishing /\ driver.call \in Patches
      /\ driver \in Driver /\ page \in Page /\ seen \in Page /\ stale \in BOOLEAN
      /\ driver.posts <= Retries
  BY <1>1, Finishers DEF Finishing, Patches, PipelineTypeOK
<1>a. loop \in Places
  BY DEF Places
<1>3. CASE UNCHANGED <<page, seen, stale>> /\ driver' = Goto(next)
  <2>1. Typed /\ Stays /\ ToStage(next, 0)
    BY <1>2, <1>3, GoesTo
  <2>2. QED
    BY <1>1, <1>2, <1>3, <2>1 DEF Works, ToStage
<1>4. /\ page' \in Page
      /\ (\A s \in driver.ask : page.sections[s] # "full") => Full(page) \subseteq Full(page')
  <2>1. CASE page' = page
    BY <1>2, <2>1
  <2>2. CASE page' # page
    <3>1. PICK full \in SUBSET driver.ask, hash \in BOOLEAN :
              \E shell \in SUBSET (driver.ask \ full) :
                  page' = Filled(page, driver.ask, full, shell, hash)
      BY <2>2, Zenon DEF AfterFill
    <3>2. QED
      BY <1>2, <3>1, FilledKeepsPage
  <2>3. QED
    BY <2>1, <2>2
<1>5. CASE /\ seen' = page' /\ stale' = stale
           /\ driver' = [driver EXCEPT !.pc = loop,
                                       !.restored = driver.restored \/ driver.call = "plan"]
  <2>1. (driver.restored \/ driver.call = "plan") \in BOOLEAN
    OBVIOUS
  <2>2. driver' \in Driver
    BY <1>2, <1>a, <1>5, <2>1 DEF Driver
  <2>3. Typed /\ Stays /\ ToStage(loop, driver.round)
    BY <1>2, <1>5, <2>2 DEF Driver, Typed, Stays, ToStage
  <2>4. QED
    BY <1>1, <1>2, <1>4, <1>5, <2>3 DEF Works, ToStage
<1>6. CASE stale' = TRUE /\ seen' = seen /\ driver' = Goto(next)
  <2>1. Typed /\ Stays /\ ToStage(next, 0)
    BY <1>2, <1>6, GoesTo
  <2>2. QED
    BY <1>1, <1>2, <1>4, <1>6, <2>1 DEF Works, ToStage
<1>7. QED
  BY <1>3, <1>5, <1>6 DEF AfterFill

LEMMA PlanNavPatchDoes ==
    ASSUME PipelineTypeOK, WhereInv, PlanNavPatch
    PROVE  /\ Works /\ driver.pc = "linking" /\ ToStage("anchors", 0)
           /\ Full(page') = Full(page) /\ stale' = stale
           /\ (page' = page /\ seen' = seen) \/ seen' = page'
<1> DEFINE add == {s \in Promised \ page.nav : page.sections[s] # "none"}
<1>1. /\ driver.pc = "linking" /\ driver' = Goto("anchors") /\ stale' = stale /\ stale' \in BOOLEAN
      /\ UNCHANGED <<task, docs, notes, gate, evidence, outcome, deaths, swallowed, halfBuilt>>
      /\ \/ page' = [page EXCEPT !.nav = page.nav \cup add] /\ seen' = page'
         \/ page' = page /\ seen' = seen
      /\ page \in Page /\ seen \in Page
  BY DEF PlanNavPatch, PipelineTypeOK, history
<1>2. web /\ "anchors" \in Finishing /\ driver.pc \in Finishing
  BY <1>1, Finishers DEF Finishing
<1>3. Typed /\ Stays /\ ToStage("anchors", 0)
  BY <1>1, <1>2, GoesTo
<1>4. Promised \subseteq Sections
  BY DEF Promised, PipelineTypeOK
<1>5. page.nav \cup add \in SUBSET Targets
  BY <1>1, <1>4 DEF Page, Targets
<1> HIDE DEF add
<1>6. page' \in Page /\ seen' \in Page /\ Full(page') = Full(page)
  BY <1>1, <1>5 DEF Page, Full
<1>7. QED
  BY <1>1, <1>2, <1>3, <1>6 DEF Works, ToStage

\* The page but for its links and device basics.
SamePage(p, q) ==
    p.stub = q.stub /\ p.fenced = q.fenced /\ p.closed = q.closed /\ p.sections = q.sections

LEMMA SamePageMeans ==
    ASSUME NEW p, NEW q, SamePage(p, q)
    PROVE  Full(p) = Full(q) /\ WebArtifactNeedsRepair(p) = WebArtifactNeedsRepair(q)
BY DEF SamePage, Full, WebArtifactNeedsRepair

LEMMA DeadLinkIsAnIssue ==
    ASSUME NEW p \in Page, p.hash
    PROVE  WebAnchorIssues(WebQaIssues(p))
<1>1. Issue("dead link") \in WebQaIssues(p)
  BY DEF WebQaIssues
<1>2. Issue("dead link")[1] = "dead link"
  BY DEF Issue
<1>3. QED
  BY <1>1, <1>2 DEF WebAnchorIssues, Kinds, Anchors

LEMMA AnchorPatchDoes ==
    ASSUME PipelineTypeOK, WhereInv, AnchorPatch
    PROVE  /\ Works /\ driver.pc = "anchors"
           /\ SamePage(page, page') /\ seen' = seen /\ stale' = stale
           /\ (page' = page /\ (WebArtifactNeedsRepair(seen) \/ ~seen.hash)) \/ ~page'.hash
           /\ \/ ToStage("device", 0)
              \/ /\ driver'.pc = "claim" /\ driver'.call = "nav" /\ driver'.round = driver.round
                 /\ driver'.calls = driver.calls + 1
<1>1. /\ driver.pc = "anchors" /\ seen' = seen /\ stale' = stale /\ stale' \in BOOLEAN
      /\ UNCHANGED <<task, docs, notes, gate, evidence, outcome, deaths, swallowed, halfBuilt>>
      /\ page \in Page /\ seen \in Page /\ seen' \in Page
      /\ driver' = Goto("device") \/ driver' = Start(driver, "nav")
      /\ driver \in Driver /\ driver.posts <= Retries
  BY DEF AnchorPatch, PipelineTypeOK, history
<1>2. /\ web /\ "device" \in Finishing /\ driver.pc \in Finishing
      /\ "nav" \in Calls \ {"lane", "custom"} /\ "nav" \in Patches
  BY <1>1, Finishers DEF Finishing, Calls, Patches
<1>3. /\ page' \in Page /\ SamePage(page, page')
      /\ (page' = page /\ (WebArtifactNeedsRepair(seen) \/ ~seen.hash)) \/ ~page'.hash
  <2>1. CASE WebArtifactNeedsRepair(seen) \/ ~WebAnchorIssues(WebQaIssues(seen))
    <3>1. page' = page
      BY <2>1 DEF AnchorPatch
    <3>2. WebArtifactNeedsRepair(seen) \/ ~seen.hash
      BY <1>1, <2>1, DeadLinkIsAnIssue
    <3>3. QED
      BY <1>1, <3>1, <3>2 DEF SamePage
  <2>2. CASE ~(WebArtifactNeedsRepair(seen) \/ ~WebAnchorIssues(WebQaIssues(seen)))
    <3>1. PICK mended \in SUBSET Dangling(page), to \in Elements(page) \cup {Top} :
              page' = Remapped(page, mended, to)
      BY <2>2 DEF AnchorPatch
    <3> DEFINE nav == (page.nav \ mended) \cup (IF mended = {} THEN {} ELSE {to})
                          \cup (IF page.hash THEN {Top} ELSE {})
    <3>2. nav \in SUBSET Targets
      BY <1>1, <3>1 DEF Page, Targets, Elements
    <3>3. page' = [page EXCEPT !.hash = FALSE, !.nav = nav]
      BY <3>1 DEF Remapped
    <3> HIDE DEF nav
    <3>4. QED
      BY <1>1, <3>2, <3>3 DEF Page, SamePage
  <2>3. QED
    BY <2>1, <2>2
<1>4. CASE driver' = Goto("device")
  <2>1. Typed /\ Stays /\ ToStage("device", 0)
    BY <1>2, <1>4, GoesTo
  <2>2. QED
    BY <1>1, <1>2, <1>3, <2>1 DEF Works, ToStage
<1>5. CASE driver' = Start(driver, "nav")
  <2>p. 0 <= Retries
    BY Parameters
  <2>1. /\ driver' \in Driver /\ driver'.posts = 0 /\ driver'.pc = "claim"
        /\ driver'.call = "nav" /\ driver'.round = driver.round
        /\ driver'.calls = driver.calls + 1 /\ driver'.lane = driver.lane
        /\ driver'.skip = driver.skip
    BY <1>1, <1>2, <1>5, StartIs
  <2>2. Typed /\ Stays
    BY <2>p, <2>1 DEF Typed, Stays
  <2>3. QED
    BY <1>1, <1>2, <1>3, <2>1, <2>2 DEF Works
<1>6. QED
  BY <1>1, <1>4, <1>5

LEMMA AfterNavDoes ==
    ASSUME PipelineTypeOK, WhereInv, AfterNav
    PROVE  /\ Works /\ driver.pc = "completed" /\ driver.call = "nav" /\ ToStage("device", 0)
           /\ SamePage(page, page') /\ page'.hash = page.hash /\ seen' = seen /\ stale' = stale
<1>1. /\ driver.pc = "completed" /\ driver.call = "nav" /\ driver' = Goto("device")
      /\ seen' = seen /\ stale' = stale /\ stale' \in BOOLEAN
      /\ UNCHANGED <<task, docs, notes, gate, evidence, outcome, deaths, swallowed, halfBuilt>>
      /\ page \in Page /\ seen \in Page /\ seen' \in Page
      /\ page' = page \/ \E nav \in SUBSET Targets : page' = [page EXCEPT !.nav = nav]
  BY DEF AfterNav, PipelineTypeOK, history
<1>2. web /\ "device" \in Finishing /\ driver.call \in Patches
  BY <1>1, Finishers DEF Finishing, Patches
<1>3. Typed /\ Stays /\ ToStage("device", 0)
  BY <1>1, <1>2, GoesTo
<1>4. page' \in Page /\ SamePage(page, page') /\ page'.hash = page.hash
  BY <1>1 DEF Page, SamePage
<1>5. QED
  BY <1>1, <1>2, <1>3, <1>4 DEF Works, ToStage

LEMMA DeviceMetaPatchDoes ==
    ASSUME PipelineTypeOK, WhereInv, DeviceMetaPatch
    PROVE  /\ Works /\ driver.pc = "device" /\ ToStage("noting", 0)
           /\ SamePage(page, page') /\ page'.hash = page.hash /\ seen' = seen /\ stale' = stale
           /\ WebArtifactNeedsRepair(seen) \/ page'.room \subseteq page'.basics
<1>1. /\ driver.pc = "device" /\ driver' = Goto("noting")
      /\ seen' = seen /\ stale' = stale /\ stale' \in BOOLEAN
      /\ UNCHANGED <<task, docs, notes, gate, evidence, outcome, deaths, swallowed, halfBuilt>>
      /\ page \in Page /\ seen \in Page /\ seen' \in Page
      /\ page' = IF WebArtifactNeedsRepair(seen) THEN page ELSE [page EXCEPT !.basics = page.basics \cup page.room]
  BY DEF DeviceMetaPatch, PipelineTypeOK, history
<1>2. driver.pc \in Finishing /\ "noting" \in Finishing \cup {"noting"}
  BY <1>1 DEF Finishing
<1>3. Typed /\ Stays /\ ToStage("noting", 0)
  BY <1>1, <1>2, GoesTo
<1>4. /\ page' \in Page /\ SamePage(page, page') /\ page'.hash = page.hash
      /\ WebArtifactNeedsRepair(seen) \/ page'.room \subseteq page'.basics
  <2>1. CASE WebArtifactNeedsRepair(seen)
    BY <1>1, <2>1 DEF SamePage
  <2>2. CASE ~WebArtifactNeedsRepair(seen)
    BY <1>1, <2>2 DEF Page, SamePage
  <2>3. QED
    BY <2>1, <2>2
<1>5. QED
  BY <1>1, <1>2, <1>3, <1>4 DEF Works, ToStage

------------------------------------------------------------------------------
(* The steps, and what they do to the types and to the place of the thread. *)

LEMMA Steps ==
    ASSUME PipelineTypeOK, WhereInv, [PipelineNext]_pipelineVars
    PROVE  \/ Begin \/ SkipLane \/ EnterLane \/ EnterBuilder \/ Claim \/ CallWithRetries
           \/ PostFails \/ Complete \/ AfterLane \/ AfterCustom \/ Works \/ AfterBuilder
           \/ Converge \/ DriveFails \/ HostDies \/ UNCHANGED pipelineVars
<1>1. AfterBuild => Works
  BY AfterBuildDoes
<1>2. Rebuild => Works
  BY RebuildDoes
<1>3. AppendMissingTail => Works
  BY AppendMissingTailDoes
<1>4. AfterTail => Works
  BY AfterTailDoes
<1>5. AppendMissingContent => Works
  BY AppendMissingContentDoes
<1>6. ReconcilePlan => Works
  BY ReconcilePlanDoes
<1>7. AfterFill => Works
  BY AfterFillDoes
<1>8. PlanNavPatch => Works
  BY PlanNavPatchDoes
<1>9. AnchorPatch => Works
  BY AnchorPatchDoes
<1>10. AfterNav => Works
  BY AfterNavDoes
<1>11. DeviceMetaPatch => Works
  BY DeviceMetaPatchDoes
<1>12. QED
  BY <1>1, <1>2, <1>3, <1>4, <1>5, <1>6, <1>7, <1>8, <1>9, <1>10, <1>11 DEF PipelineNext

LEMMA TaskIs ==
    ASSUME PipelineTypeOK, WhereInv, driver.pc \in Asking \cup {"raised"}
    PROVE  /\ Task \in Tasks /\ Role \in Roles /\ driver.lane \in DOMAIN Driven
           /\ driver.call = "custom" => Task = "custom"
           /\ driver.call # "custom" => Task = Role
<1>1. driver.lane \in 1..(Len(Driven) + 1) /\ driver.lane <= Len(Driven)
  BY DEF WhereInv, AtInv
<1>2. driver.lane \in DOMAIN Driven
  BY <1>1, DrivenAre
<1>3. Role \in Roles
  BY <1>2, DrivenAre DEF Role
<1>4. QED
  BY <1>2, <1>3, TasksAre DEF Task

\* Only a project has a reviewer among the lanes it drives.
LEMMA OfProject ==
    ASSUME PipelineTypeOK, NEW i \in DOMAIN Driven, Driven[i] = "reviewer"
    PROVE  board = "project"
<1>1. SUFFICES ASSUME board = "demo" PROVE FALSE
  BY DEF PipelineTypeOK
<1>2. Driven = DemoLanes /\ i \in DOMAIN DemoLanes
  BY <1>1 DEF Driven
<1>3. DemoLanes[1] = "planner" /\ DemoLanes[2] = "builder" /\ DOMAIN DemoLanes = 1..2
  BY DEF DemoLanes
<1>4. i = 1 \/ i = 2
  BY <1>2, <1>3
<1>5. QED
  BY <1>2, <1>3, <1>4

Status == [status : {"absent", "todo", "running", "done"}, error : BOOLEAN]

LEMMA TaskSet ==
    ASSUME PipelineTypeOK, NEW t \in Tasks, NEW v \in Status, task' = [task EXCEPT ![t] = v]
    PROVE  /\ task' \in [Tasks -> Status] /\ task'[t] = v
           /\ \A u \in Tasks : u # t => task'[u] = task[u]
BY DEF PipelineTypeOK, Status

LEMMA DoneIs ==
    ASSUME NEW error \in BOOLEAN
    PROVE  /\ [status |-> "done", error |-> error] \in Status
           /\ [status |-> "running", error |-> error] \in Status
BY DEF Status

LEMMA VerdictIs ==
    /\ Verdict \in Verdicts
    /\ \A e \in Verdicts \cup {NoEvidence} : ReasonOf(e) \in Verdicts \cup {""}
BY DEF Verdict, Verdicts, ReasonOf, NoEvidence

Drafted == {"none", "good", "aside", "bad", "unparsed", "empty"}

\* What the types of the state ask for beyond the thread's.
Shelves ==
    /\ task \in [Tasks -> Status] /\ docs \in [Tasks -> Drafted]
    /\ page \in Page /\ seen \in Page
    /\ notes \subseteq Tasks /\ gate \in Verdicts \cup {NoEvidence}
    /\ evidence \in Verdicts \cup {NoEvidence}
    /\ outcome \in {"none", "ok", "error", "demo"} \X (Verdicts \cup {""})
    /\ deaths \in 0..MaxDeaths /\ swallowed \in BOOLEAN /\ stale \in BOOLEAN /\ halfBuilt \in BOOLEAN

LEMMA ShelvesTyped == PipelineTypeOK <=>
    /\ board \in {"project", "demo"} /\ web \in BOOLEAN /\ webGoal \in BOOLEAN /\ promised \subseteq Sections
    /\ driver \in Driver /\ driver.posts <= Retries /\ Shelves
BY DEF PipelineTypeOK, Shelves, Status, Drafted

LEMMA ShelvesKept ==
    ASSUME PipelineTypeOK, WhereInv, [PipelineNext]_pipelineVars
    PROVE  Shelves'
<1>a. Shelves
  BY ShelvesTyped
<1>1. CASE Begin
  BY <1>1, <1>a, BeginDoes DEF Shelves, Typed, history, Books
<1>2. CASE SkipLane
  BY <1>2, <1>a, SkipLaneDoes, VerdictIs DEF Shelves, Typed, history, Books
<1>3. CASE EnterLane
  <2>1. UNCHANGED Books /\ gate' = gate
    BY <1>3, EnterLaneDoes DEF EnterLane
  <2>2. QED
    BY <1>a, <2>1 DEF Shelves, Books, history
<1>4. CASE EnterBuilder
  BY <1>4, <1>a, EnterBuilderDoes DEF Shelves, Typed, history, Books
<1>5. CASE Claim
  <2>1. task' \in [Tasks -> Status]
    BY <1>5, ClaimDoes, TaskIs, TaskSet, DoneIs DEF Asking
  <2>2. QED
    BY <1>5, <1>a, <2>1, ClaimDoes DEF Shelves, history
<1>6. CASE CallWithRetries
  BY <1>6, <1>a, CallWithRetriesDoes DEF Shelves, Typed, history, Books
<1>7. CASE PostFails
  <2>1. task' \in [Tasks -> Status]
    BY <1>7, PostFailsDoes, TaskIs, TaskSet, DoneIs DEF Asking
  <2>2. notes' \subseteq Tasks
    <3>1. notes' = notes \/ notes' = notes \cup {"custom"}
      BY <1>7, PostFailsDoes
    <3>2. QED
      BY <1>a, <3>1, TasksAre DEF Shelves
  <2>3. seen' \in Page /\ swallowed' \in BOOLEAN
    BY <1>7, <1>a, PostFailsDoes DEF Shelves
  <2>4. QED
    BY <1>7, <1>a, <2>1, <2>2, <2>3, PostFailsDoes DEF Shelves
<1>8. CASE Complete
  <2>1. task' \in [Tasks -> Status]
    BY <1>8, CompleteDoes, TaskIs, TaskSet, DoneIs DEF Asking
  <2>2. docs' \in [Tasks -> Drafted]
    <3>1. \A d \in Documents(Task) : d \in Drafted
      BY DEF Documents, Drafted
    <3>2. docs' = docs \/ \E d \in Documents(Task) : docs' = [docs EXCEPT ![Task] = d]
      BY <1>8, CompleteDoes
    <3>3. QED
      BY <1>a, <3>1, <3>2 DEF Shelves
  <2>3. QED
    BY <1>8, <1>a, <2>1, <2>2, CompleteDoes DEF Shelves, history
<1>9. CASE AfterLane
  <2>1. notes' \subseteq Tasks
    BY <1>9, <1>a, AfterLaneDoes, TasksAre, RolesAre
    DEF Shelves, RecordValidationNote, Validated
  <2>2. evidence' \in Verdicts \cup {NoEvidence}
    BY <1>9, <1>a, AfterLaneDoes, VerdictIs DEF Shelves
  <2>3. QED
    BY <1>9, <1>a, <2>1, <2>2, AfterLaneDoes DEF Shelves, history
<1>10. CASE AfterCustom
  BY <1>10, <1>a, AfterCustomDoes DEF Shelves, Typed, history, Books
<1>11. CASE Works
  BY <1>11, <1>a DEF Shelves, Typed, history, Books, Works
<1>12. CASE AfterBuilder
  <2>1. notes' \subseteq Tasks
    BY <1>12, <1>a, AfterBuilderDoes, TasksAre, RolesAre, ZenonT(40) DEF Shelves
  <2>2. evidence' \in Verdicts \cup {NoEvidence}
    BY <1>12, <1>a, AfterBuilderDoes, VerdictIs DEF Shelves
  <2>3. QED
    BY <1>12, <1>a, <2>1, <2>2, AfterBuilderDoes DEF Shelves, history
<1>13. CASE Converge
  <2>1. outcome' \in {"none", "ok", "error", "demo"} \X (Verdicts \cup {""})
    <3>1. ReasonOf(evidence) \in Verdicts \cup {""}
      BY <1>a, VerdictIs DEF Shelves
    <3>2. outcome' = <<"demo", "">> \/ outcome' = <<"ok", ReasonOf(evidence)>>
      BY <1>13, ConvergeDoes
    <3>e. "demo" \in {"none", "ok", "error", "demo"} /\ "" \in Verdicts \cup {""}
      OBVIOUS
    <3>3. CASE outcome' = <<"demo", "">>
      BY <3>3, <3>e
    <3>4. CASE outcome' = <<"ok", ReasonOf(evidence)>>
      BY <3>1, <3>4
    <3>5. QED
      BY <3>2, <3>3, <3>4
  <2>2. QED
    BY <1>13, <1>a, <2>1, ConvergeDoes DEF Shelves, history
<1>14. CASE DriveFails
  <2>1. task' \in [Tasks -> Status]
    <3>1. "builder" \in Tasks
      BY RolesAre, TasksAre
    <3>2. QED
      BY <1>14, <1>a, <3>1, DriveFailsDoes, TaskSet, DoneIs DEF Shelves
  <2>2. outcome' \in {"none", "ok", "error", "demo"} \X (Verdicts \cup {""})
    <3>1. outcome' = <<"error", "">>
      BY <1>14, DriveFailsDoes
    <3>2. QED
      BY <3>1
  <2>3. QED
    BY <1>14, <1>a, <2>1, <2>2, DriveFailsDoes DEF Shelves, history
<1>15. CASE HostDies
  <2>1. deaths' \in 0..MaxDeaths
    <3>1. deaths' = deaths + 1 /\ deaths < MaxDeaths /\ deaths \in 0..MaxDeaths
      BY <1>15, <1>a, HostDiesDoes DEF Shelves
    <3>2. QED
      BY <3>1, Parameters
  <2>2. QED
    BY <1>15, <1>a, <2>1, HostDiesDoes DEF Shelves
<1>16. CASE UNCHANGED pipelineVars
  BY <1>16, <1>a DEF Shelves, Typed, history, Books, pipelineVars, board4, history
<1>17. QED
  BY <1>1, <1>2, <1>3, <1>4, <1>5, <1>6, <1>7, <1>8, <1>9, <1>10, <1>11, <1>12, <1>13, <1>14,
     <1>15, <1>16, Steps

LEMMA DriverTyped ==
    ASSUME PipelineTypeOK, WhereInv, [PipelineNext]_pipelineVars
    PROVE  Typed
<1>1. CASE Begin
  BY <1>1, BeginDoes DEF Works, Typed
<1>2. CASE SkipLane
  BY <1>2, SkipLaneDoes DEF Works, Typed
<1>3. CASE EnterLane
  BY <1>3, EnterLaneDoes DEF Works, Typed
<1>4. CASE EnterBuilder
  BY <1>4, EnterBuilderDoes DEF Works, Typed
<1>5. CASE Claim
  BY <1>5, ClaimDoes DEF Works, Typed
<1>6. CASE CallWithRetries
  BY <1>6, CallWithRetriesDoes DEF Works, Typed
<1>7. CASE PostFails
  BY <1>7, PostFailsDoes DEF Works, Typed
<1>8. CASE Complete
  BY <1>8, CompleteDoes DEF Works, Typed
<1>9. CASE AfterLane
  BY <1>9, AfterLaneDoes DEF Works, Typed
<1>10. CASE AfterCustom
  BY <1>10, AfterCustomDoes DEF Works, Typed
<1>11. CASE Works
  BY <1>11 DEF Works, Typed, Works
<1>12. CASE AfterBuilder
  BY <1>12, AfterBuilderDoes DEF Works, Typed
<1>13. CASE Converge
  BY <1>13, ConvergeDoes DEF Works, Typed
<1>14. CASE DriveFails
  BY <1>14, DriveFailsDoes DEF Works, Typed
<1>15. CASE HostDies
  BY <1>15, HostDiesDoes DEF Works, Typed
<1>16. CASE UNCHANGED pipelineVars
  BY <1>16 DEF Typed, PipelineTypeOK, pipelineVars, board4, history
<1>17. QED
  BY <1>1, <1>2, <1>3, <1>4, <1>5, <1>6, <1>7, <1>8, <1>9, <1>10, <1>11, <1>12, <1>13, <1>14,
     <1>15, <1>16, Steps

LEMMA TypesKept ==
    ASSUME PipelineTypeOK, WhereInv, [PipelineNext]_pipelineVars
    PROVE  PipelineTypeOK'
<1>1. Shelves' /\ Typed
  BY ShelvesKept, DriverTyped
<1>2. board' = board /\ web' = web /\ webGoal' = webGoal /\ promised' = promised
  BY BoardSame
<1>3. QED
  BY <1>1, <1>2 DEF PipelineTypeOK, Shelves, Status, Drafted, Typed

LEMMA AtKept ==
    ASSUME PipelineTypeOK, WhereInv, [PipelineNext]_pipelineVars
    PROVE  AtInv'
<1>a. board' = board /\ web' = web /\ Driven' = Driven
  BY BoardSame
<1>b. Len(Driven) \in Nat
  BY DrivenAre
<1>c. driver'.lane = driver.lane => Role' = Role
  BY <1>a DEF Role
<1>d. AtInv /\ SettledInv /\ board \in {"project", "demo"}
  BY DEF WhereInv, PipelineTypeOK
<1>1. CASE Begin
  BY <1>1, <1>a, <1>b, <1>c, <1>d, BeginDoes
  DEF AtInv, Asking, Finishing, AtBuilder, Patches, Stays, Passes, AtLane
<1>2. CASE SkipLane
  BY <1>2, <1>a, <1>b, <1>c, <1>d, SkipLaneDoes
  DEF AtInv, Asking, Finishing, AtBuilder, Patches, Stays, Passes, AtLane
<1>3. CASE EnterLane
  BY <1>3, <1>a, <1>b, <1>c, <1>d, EnterLaneDoes
  DEF AtInv, Asking, Finishing, AtBuilder, Patches, Stays, Passes, AtLane, Books
<1>4. CASE EnterBuilder
  BY <1>4, <1>a, <1>b, <1>c, <1>d, EnterBuilderDoes
  DEF AtInv, Asking, Finishing, AtBuilder, Patches, Stays, Passes, AtLane, Books
<1>5. CASE Claim
  BY <1>5, <1>a, <1>b, <1>c, <1>d, ClaimDoes
  DEF AtInv, Asking, Finishing, AtBuilder, Patches, Stays, Passes, AtLane
<1>6. CASE CallWithRetries
  BY <1>6, <1>a, <1>b, <1>c, <1>d, CallWithRetriesDoes
  DEF AtInv, Asking, Finishing, AtBuilder, Patches, Stays, Passes, AtLane, Books
<1>7. CASE PostFails
  BY <1>7, <1>a, <1>b, <1>c, <1>d, PostFailsDoes
  DEF AtInv, Asking, Finishing, AtBuilder, Patches, Stays, Passes, AtLane, GivenUp
<1>8. CASE Complete
  BY <1>8, <1>a, <1>b, <1>c, <1>d, CompleteDoes
  DEF AtInv, Asking, Finishing, AtBuilder, Patches, Stays, Passes, AtLane
<1>9. CASE AfterLane
  <2>1. driver.lane \in DOMAIN Driven /\ driver.lane <= Len(Driven)
    BY <1>9, <1>b, TaskIs, DrivenAre, AfterLaneDoes DEF Asking
  <2>2. Role = "reviewer" => board = "project"
    BY <2>1, OfProject DEF Role
  <2>3. CASE Role = "reviewer" /\ task["custom"].status # "absent"
    BY <1>9, <1>a, <1>b, <1>c, <1>d, <2>1, <2>2, <2>3, AfterLaneDoes
       DEF AtInv, Asking, Finishing, Patches
  <2>4. CASE ~(Role = "reviewer" /\ task["custom"].status # "absent")
    BY <1>9, <1>a, <1>b, <1>d, <2>1, <2>4, AfterLaneDoes DEF AtInv, Asking, Finishing
  <2>5. QED
    BY <2>3, <2>4
<1>10. CASE AfterCustom
  BY <1>10, <1>a, <1>b, <1>c, <1>d, AfterCustomDoes
  DEF AtInv, Asking, Finishing, AtBuilder, Patches, Stays, Passes, AtLane, Books
<1>11. CASE Works
  BY <1>11, <1>a, <1>b, <1>c, <1>d
  DEF AtInv, Asking, Finishing, AtBuilder, Patches, Stays, Passes, AtLane, Works
<1>12. CASE AfterBuilder
  BY <1>12, <1>a, <1>b, <1>c, <1>d, AfterBuilderDoes
  DEF AtInv, Asking, Finishing, AtBuilder, Patches, Stays, Passes, AtLane
<1>13. CASE Converge
  BY <1>13, <1>a, <1>b, <1>c, <1>d, ConvergeDoes
  DEF AtInv, Asking, Finishing, AtBuilder, Patches, Stays, Passes, AtLane
<1>14. CASE DriveFails
  BY <1>14, <1>a, <1>b, <1>c, <1>d, DriveFailsDoes
  DEF AtInv, Asking, Finishing, AtBuilder, Patches, Stays, Passes, AtLane
<1>15. CASE HostDies
  BY <1>15, <1>a, <1>b, <1>c, <1>d, HostDiesDoes, IdleIs
  DEF AtInv, Asking, Finishing, AtBuilder, Patches, Stays, Passes, AtLane
<1>16. CASE UNCHANGED pipelineVars
  BY <1>16, <1>a, <1>b, <1>c, <1>d
  DEF AtInv, Asking, Finishing, AtBuilder, Patches, Stays, Passes, AtLane, pipelineVars, board4,
      history
<1>17. QED
  BY <1>1, <1>2, <1>3, <1>4, <1>5, <1>6, <1>7, <1>8, <1>9, <1>10, <1>11, <1>12, <1>13, <1>14,
     <1>15, <1>16, Steps

LEMMA SettledKept ==
    ASSUME PipelineTypeOK, WhereInv, [PipelineNext]_pipelineVars
    PROVE  SettledInv'
<1>a. board' = board /\ web' = web /\ Driven' = Driven
  BY BoardSame
<1>b. Len(Driven) \in Nat
  BY DrivenAre
<1>c. driver'.lane = driver.lane => Role' = Role
  BY <1>a DEF Role
<1>d. AtInv /\ SettledInv /\ board \in {"project", "demo"}
  BY DEF WhereInv, PipelineTypeOK
<1>e. /\ Unsettled[1] = "none" /\ <<"demo", "">> # Unsettled /\ <<"error", "">> # Unsettled
      /\ <<"ok", ReasonOf(evidence)>> # Unsettled
      /\ <<"ok", ReasonOf(evidence)>>[1] = "ok"
      /\ <<"error", "">>[1] = "error" /\ "demo" = <<"demo", "">>[1]
  BY DEF Unsettled
<1>1. CASE Begin
  BY <1>1, <1>a, <1>b, <1>c, <1>d, <1>e, BeginDoes
  DEF SettledInv, Finishing, Asking, Stays, Passes, AtLane
<1>2. CASE SkipLane
  BY <1>2, <1>a, <1>b, <1>c, <1>d, <1>e, SkipLaneDoes
  DEF SettledInv, Finishing, Asking, Stays, Passes, AtLane
<1>3. CASE EnterLane
  BY <1>3, <1>a, <1>b, <1>c, <1>d, <1>e, EnterLaneDoes
  DEF SettledInv, Finishing, Asking, Stays, Passes, AtLane, Books
<1>4. CASE EnterBuilder
  BY <1>4, <1>a, <1>b, <1>c, <1>d, <1>e, EnterBuilderDoes
  DEF SettledInv, Finishing, Asking, Stays, Passes, AtLane, Books
<1>5. CASE Claim
  BY <1>5, <1>a, <1>b, <1>c, <1>d, <1>e, ClaimDoes
  DEF SettledInv, Finishing, Asking, Stays, Passes, AtLane
<1>6. CASE CallWithRetries
  BY <1>6, <1>a, <1>b, <1>c, <1>d, <1>e, CallWithRetriesDoes
  DEF SettledInv, Finishing, Asking, Stays, Passes, AtLane, Books
<1>7. CASE PostFails
  BY <1>7, <1>a, <1>b, <1>c, <1>d, <1>e, PostFailsDoes
  DEF SettledInv, Finishing, Asking, Stays, Passes, AtLane, GivenUp
<1>8. CASE Complete
  BY <1>8, <1>a, <1>b, <1>c, <1>d, <1>e, CompleteDoes
  DEF SettledInv, Finishing, Asking, Stays, Passes, AtLane
<1>9. CASE AfterLane
  BY <1>9, <1>a, <1>b, <1>c, <1>d, <1>e, AfterLaneDoes
  DEF SettledInv, Finishing, Asking, Stays, Passes, AtLane
<1>10. CASE AfterCustom
  BY <1>10, <1>a, <1>b, <1>c, <1>d, <1>e, AfterCustomDoes
  DEF SettledInv, Finishing, Asking, Stays, Passes, AtLane, Books
<1>11. CASE Works
  BY <1>11, <1>a, <1>b, <1>c, <1>d, <1>e
  DEF SettledInv, Finishing, Asking, Stays, Passes, AtLane, Works
<1>12. CASE AfterBuilder
  BY <1>12, <1>a, <1>b, <1>c, <1>d, <1>e, AfterBuilderDoes
  DEF SettledInv, Finishing, Asking, Stays, Passes, AtLane
<1>13. CASE Converge
  <2>1. driver'.pc = "end" /\ driver'.lane = Len(Driven) + 1
    <3>1. driver.lane \in 1..(Len(Driven) + 1) /\ driver.lane > Len(Driven)
      BY <1>13, <1>d, ConvergeDoes DEF AtInv
    <3>2. driver.lane = Len(Driven) + 1
      BY <1>b, <3>1
    <3>3. QED
      BY <1>13, <3>2, ConvergeDoes DEF Stays
  <2>2. CASE board = "demo"
    <3>1. outcome' = <<"demo", "">>
      BY <1>13, <2>2, ConvergeDoes
    <3>2. outcome' # Unsettled' /\ outcome'[1] = "demo"
      BY <1>e, <3>1 DEF Unsettled
    <3>3. QED
      BY <1>a, <2>1, <3>2 DEF SettledInv
  <2>3. CASE board # "demo"
    <3>1. outcome' = <<"ok", ReasonOf(evidence)>>
      BY <1>13, <2>3, ConvergeDoes
    <3>2. outcome' # Unsettled' /\ outcome'[1] = "ok"
      BY <1>e, <3>1 DEF Unsettled
    <3>3. QED
      BY <1>a, <1>d, <2>1, <2>3, <3>2 DEF SettledInv
  <2>4. QED
    BY <2>2, <2>3
<1>14. CASE DriveFails
  <2>1. driver'.pc = "end" /\ outcome' = <<"error", "">>
    BY <1>14, DriveFailsDoes
  <2>2. outcome' # Unsettled' /\ outcome'[1] = "error"
    BY <1>e, <2>1 DEF Unsettled
  <2>3. QED
    BY <2>1, <2>2 DEF SettledInv
<1>15. CASE HostDies
  BY <1>15, <1>a, <1>b, <1>c, <1>d, <1>e, HostDiesDoes, IdleIs
  DEF SettledInv, Finishing, Asking, Stays, Passes, AtLane
<1>16. CASE UNCHANGED pipelineVars
  BY <1>16, <1>a, <1>b, <1>c, <1>d, <1>e
  DEF SettledInv, Finishing, Asking, Stays, Passes, AtLane, pipelineVars, board4, history
<1>17. QED
  BY <1>1, <1>2, <1>3, <1>4, <1>5, <1>6, <1>7, <1>8, <1>9, <1>10, <1>11, <1>12, <1>13, <1>14,
     <1>15, <1>16, Steps

LEMMA WhereKept ==
    ASSUME PipelineTypeOK, WhereInv, [PipelineNext]_pipelineVars
    PROVE  WhereInv'
BY AtKept, SettledKept DEF WhereInv

------------------------------------------------------------------------------
(* The rows of the lanes. *)

LEMMA RowStep ==
    ASSUME PipelineTypeOK, WhereInv, RowsInv, driver.pc \in {"claim", "post"}, NEW v \in Status,
           task' = [task EXCEPT ![Task] = v]
    PROVE  /\ \A i \in DOMAIN Driven : i # driver.lane => task'[Driven[i]] = task[Driven[i]]
           /\ \A t \in driver.skip \cap Roles : task'[t] = task[t]
           /\ task'[Role] = IF driver.call = "custom" THEN task[Role] ELSE v
           /\ \A t \in Tasks : t # Task => task'[t] = task[t]
           /\ task'[Task] = v
<1>1. /\ Task \in Tasks /\ Role \in Roles /\ driver.lane \in DOMAIN Driven
      /\ Task = IF driver.call = "custom" THEN "custom" ELSE Role
  BY TaskIs DEF Asking
<1>2. task'[Task] = v /\ \A u \in Tasks : u # Task => task'[u] = task[u]
  BY <1>1, TaskSet
<1>3. Role \notin driver.skip
  BY DEF RowsInv, AheadInv
<1>4. \A i \in DOMAIN Driven : Driven[i] \in Roles /\ (i # driver.lane => Driven[i] # Role)
  BY <1>1, DrivenAre DEF Role
<1>5. \A t \in Roles : t \in Tasks /\ t # "custom"
  BY TasksAre
<1>6. QED
  BY <1>1, <1>2, <1>3, <1>4, <1>5

LEMMA SkippedKept ==
    ASSUME PipelineTypeOK, WhereInv, RowsInv, FirstInv, [PipelineNext]_pipelineVars
    PROVE  SkippedInv'
<1>a. board' = board /\ Driven' = Driven
  BY BoardSame
<1>b. /\ Len(Driven) \in Nat /\ DOMAIN Driven = 1..Len(Driven)
      /\ \A i \in DOMAIN Driven : Driven[i] \in Roles
  BY DrivenAre
<1>c. driver'.lane = driver.lane => Role' = Role
  BY <1>a DEF Role
<1>d. AtInv /\ SkippedInv /\ AheadInv /\ BehindInv /\ RestedInv
  BY DEF WhereInv, RowsInv
<1>e. Role = Driven[driver.lane] /\ driver.lane \in 1..(Len(Driven) + 1)
  BY <1>d DEF Role, AtInv
<1>1. CASE Begin
  <2>1. /\ driver.pc = "off" /\ task' = task
        /\ driver'.skip = IF board = "project" THEN {t \in Tasks : task[t].status = "done"} ELSE {}
    BY <1>1, BeginDoes
  <2>2. \A i \in DOMAIN Lanes : Lanes[i] \in Tasks
    BY Parameters, TasksAre
  <2>3. QED
    BY <1>d, <2>1, <2>2 DEF SkippedInv, RestedInv
<1>2. CASE SkipLane
  BY <1>2, <1>a, <1>b, <1>c, <1>d, <1>e, SkipLaneDoes DEF SkippedInv, Stays, Passes
<1>3. CASE EnterLane
  BY <1>3, <1>a, <1>b, <1>c, <1>d, <1>e, EnterLaneDoes DEF SkippedInv, Stays, Passes, Books
<1>4. CASE EnterBuilder
  BY <1>4, <1>a, <1>b, <1>c, <1>d, <1>e, EnterBuilderDoes DEF SkippedInv, Stays, Passes, Books
<1>5. CASE Claim
  <2>1. /\ [status |-> "running", error |-> FALSE] \in Status
        /\ [status |-> "running", error |-> FALSE].status = "running"
    BY DoneIs
  <2>2. /\ task' = [task EXCEPT ![Task] = [status |-> "running", error |-> FALSE]]
        /\ driver.pc = "claim" /\ driver'.skip = driver.skip
        /\ driver'.call = driver.call
        /\ driver'.pc = "post" /\ driver'.lane = driver.lane
    BY <1>5, ClaimDoes DEF Stays
  <2>3. /\ \A i \in DOMAIN Driven : i # driver.lane => task'[Driven[i]] = task[Driven[i]]
        /\ \A t \in driver.skip \cap Roles : task'[t] = task[t]
        /\ task'[Role] = IF driver.call = "custom" THEN task[Role]
                         ELSE [status |-> "running", error |-> FALSE]
    BY <2>1, <2>2, RowStep
  <2>4. QED
    BY <1>a, <1>b, <1>c, <1>d, <1>e, <2>1, <2>2, <2>3 DEF SkippedInv, Stays, Passes
<1>6. CASE CallWithRetries
  BY <1>6, <1>a, <1>b, <1>c, <1>d, <1>e, CallWithRetriesDoes
  DEF SkippedInv, Stays, Passes, Books
<1>7. CASE PostFails
  <2>1. /\ [status |-> "done", error |-> TRUE] \in Status
        /\ [status |-> "done", error |-> TRUE].status = "done"
    BY DoneIs
  <2>2. /\ task' = [task EXCEPT ![Task] = [status |-> "done", error |-> TRUE]]
        /\ driver.pc = "post" /\ driver'.skip = driver.skip
        /\ driver'.call = driver.call
        /\ driver'.pc = GivenUp(driver.call)
        /\ driver'.lane = IF driver.call = "custom" THEN driver.lane + 1 ELSE driver.lane
    BY <1>7, PostFailsDoes DEF Stays
  <2>3. /\ \A i \in DOMAIN Driven : i # driver.lane => task'[Driven[i]] = task[Driven[i]]
        /\ \A t \in driver.skip \cap Roles : task'[t] = task[t]
        /\ task'[Role] = IF driver.call = "custom" THEN task[Role]
                         ELSE [status |-> "done", error |-> TRUE]
    BY <2>1, <2>2, RowStep
  <2>4. QED
    BY <1>a, <1>b, <1>c, <1>d, <1>e, <2>1, <2>2, <2>3 DEF SkippedInv, Stays, Passes, GivenUp
<1>8. CASE Complete
  <2>1. /\ [status |-> "done", error |-> FALSE] \in Status
        /\ [status |-> "done", error |-> FALSE].status = "done"
    BY DoneIs
  <2>2. /\ task' = [task EXCEPT ![Task] = [status |-> "done", error |-> FALSE]]
        /\ driver.pc = "post" /\ driver'.skip = driver.skip
        /\ driver'.call = driver.call
        /\ driver'.pc = "completed" /\ driver'.lane = driver.lane
    BY <1>8, CompleteDoes DEF Stays
  <2>3. /\ \A i \in DOMAIN Driven : i # driver.lane => task'[Driven[i]] = task[Driven[i]]
        /\ \A t \in driver.skip \cap Roles : task'[t] = task[t]
        /\ task'[Role] = IF driver.call = "custom" THEN task[Role]
                         ELSE [status |-> "done", error |-> FALSE]
    BY <2>1, <2>2, RowStep
  <2>4. QED
    BY <1>a, <1>b, <1>c, <1>d, <1>e, <2>1, <2>2, <2>3 DEF SkippedInv, Stays, Passes
<1>9. CASE AfterLane
  BY <1>9, <1>a, <1>b, <1>c, <1>d, <1>e, AfterLaneDoes DEF SkippedInv, Stays, Passes
<1>10. CASE AfterCustom
  BY <1>10, <1>a, <1>b, <1>c, <1>d, <1>e, AfterCustomDoes DEF SkippedInv, Stays, Passes, Books
<1>11. CASE Works
  BY <1>11, <1>a, <1>b, <1>c, <1>d, <1>e DEF SkippedInv, Stays, Passes, Works
<1>12. CASE AfterBuilder
  BY <1>12, <1>a, <1>b, <1>c, <1>d, <1>e, AfterBuilderDoes DEF SkippedInv, Stays, Passes
<1>13. CASE Converge
  BY <1>13, <1>a, <1>b, <1>c, <1>d, <1>e, ConvergeDoes DEF SkippedInv, Stays, Passes
<1>14. CASE DriveFails
  <2>1. CASE board = "demo" /\ Role = "planner"
    <3>1. task' = [task EXCEPT !["builder"] = [status |-> "done", error |-> TRUE]]
      BY <1>14, <2>1, DriveFailsDoes
    <3>2. "builder" \in Tasks
      BY RolesAre, TasksAre
    <3>3. /\ task'["builder"] = [status |-> "done", error |-> TRUE]
          /\ \A u \in Tasks : u # "builder" => task'[u] = task[u]
      BY <3>1, <3>2, TaskSet, DoneIs
    <3>4. [status |-> "done", error |-> TRUE].status = "done"
      OBVIOUS
    <3>5. QED
      BY <1>14, <1>d, <3>3, <3>4, TasksAre, DriveFailsDoes DEF SkippedInv, Stays
  <2>2. CASE ~(board = "demo" /\ Role = "planner")
    BY <1>14, <1>d, <2>2, DriveFailsDoes DEF SkippedInv, Stays
  <2>3. QED
    BY <2>1, <2>2
<1>15. CASE HostDies
  BY <1>15, <1>a, <1>b, <1>c, <1>d, <1>e, HostDiesDoes, IdleIs DEF SkippedInv, Stays, Passes
<1>16. CASE UNCHANGED pipelineVars
  BY <1>16, <1>a, <1>b, <1>c, <1>d, <1>e
  DEF SkippedInv, Stays, Passes, pipelineVars, board4, history
<1>17. QED
  BY <1>1, <1>2, <1>3, <1>4, <1>5, <1>6, <1>7, <1>8, <1>9, <1>10, <1>11, <1>12, <1>13, <1>14,
     <1>15, <1>16, Steps

LEMMA AheadKept ==
    ASSUME PipelineTypeOK, WhereInv, RowsInv, FirstInv, [PipelineNext]_pipelineVars
    PROVE  AheadInv'
<1>a. board' = board /\ Driven' = Driven
  BY BoardSame
<1>b. /\ Len(Driven) \in Nat /\ DOMAIN Driven = 1..Len(Driven)
      /\ \A i \in DOMAIN Driven : Driven[i] \in Roles
  BY DrivenAre
<1>c. driver'.lane = driver.lane => Role' = Role
  BY <1>a DEF Role
<1>d. AtInv /\ SkippedInv /\ AheadInv /\ BehindInv /\ RestedInv
  BY DEF WhereInv, RowsInv
<1>e. Role = Driven[driver.lane] /\ driver.lane \in 1..(Len(Driven) + 1)
  BY <1>d DEF Role, AtInv
<1>1. CASE Begin
  <2>1. /\ driver.pc = "off" /\ task' = task /\ driver'.pc = "lane" /\ driver'.lane = 1
        /\ driver'.skip = IF board = "project" THEN {t \in Tasks : task[t].status = "done"} ELSE {}
        /\ deaths = 0 \/ Resumable
    BY <1>1, BeginDoes
  <2>2. board = "project" \/ \A t \in Tasks : task[t].status # "done"
    BY <2>1 DEF Resumable, FirstInv
  <2>3. \A i \in DOMAIN Driven : Driven[i] \in Tasks
    BY <1>b, TasksAre
  <2>4. Role' = Driven[1] /\ (1 <= Len(Driven) => 1 \in DOMAIN Driven)
    BY <1>a, <1>b, <2>1 DEF Role
  <2>5. QED
    BY <1>a, <2>1, <2>2, <2>3, <2>4 DEF AheadInv
<1>2. CASE SkipLane
  <2>1. /\ driver'.lane = driver.lane + 1 /\ driver'.skip = driver.skip /\ task' = task
        /\ driver'.pc = "lane" /\ driver.pc \notin {"off", "end"}
    BY <1>2, SkipLaneDoes DEF Passes, AtLane
  <2>2. QED
    BY <1>a, <1>b, <1>d, <1>e, <2>1 DEF AheadInv, Role
<1>3. CASE EnterLane
  BY <1>3, <1>a, <1>b, <1>c, <1>d, <1>e, EnterLaneDoes
  DEF AheadInv, Stays, Passes, AtLane, Asking, Finishing, Books
<1>4. CASE EnterBuilder
  BY <1>4, <1>a, <1>b, <1>c, <1>d, <1>e, EnterBuilderDoes
  DEF AheadInv, Stays, Passes, AtLane, Asking, Finishing, Books
<1>5. CASE Claim
  <2>1. /\ [status |-> "running", error |-> FALSE] \in Status
        /\ [status |-> "running", error |-> FALSE].status = "running"
    BY DoneIs
  <2>2. /\ task' = [task EXCEPT ![Task] = [status |-> "running", error |-> FALSE]]
        /\ driver.pc = "claim" /\ driver'.skip = driver.skip
        /\ driver'.call = driver.call
        /\ driver'.pc = "post" /\ driver'.lane = driver.lane
    BY <1>5, ClaimDoes DEF Stays
  <2>3. /\ \A i \in DOMAIN Driven : i # driver.lane => task'[Driven[i]] = task[Driven[i]]
        /\ \A t \in driver.skip \cap Roles : task'[t] = task[t]
        /\ task'[Role] = IF driver.call = "custom" THEN task[Role]
                         ELSE [status |-> "running", error |-> FALSE]
    BY <2>1, <2>2, RowStep
  <2>4. QED
    BY <1>a, <1>b, <1>c, <1>d, <1>e, <2>1, <2>2, <2>3
    DEF AheadInv, Stays, Passes, AtLane, Asking, Finishing
<1>6. CASE CallWithRetries
  BY <1>6, <1>a, <1>b, <1>c, <1>d, <1>e, CallWithRetriesDoes
  DEF AheadInv, Stays, Passes, AtLane, Asking, Finishing, Books
<1>7. CASE PostFails
  <2>1. [status |-> "done", error |-> TRUE] \in Status
    BY DoneIs
  <2>2. /\ task' = [task EXCEPT ![Task] = [status |-> "done", error |-> TRUE]]
        /\ driver.pc \in {"claim", "post"} /\ driver'.pc = GivenUp(driver.call)
        /\ driver'.skip = driver.skip
        /\ driver'.lane = IF driver.call = "custom" THEN driver.lane + 1 ELSE driver.lane
    BY <1>7, PostFailsDoes
  <2>3. \A i \in DOMAIN Driven : i # driver.lane => task'[Driven[i]] = task[Driven[i]]
    BY <2>1, <2>2, RowStep
  <2>4. CASE driver.call = "custom"
    <3>1. driver'.pc = "lane" /\ driver'.lane = driver.lane + 1
      BY <2>2, <2>4 DEF GivenUp
    <3>2. QED
      BY <1>a, <1>b, <1>d, <1>e, <2>2, <2>3, <3>1 DEF AheadInv, Role
  <2>5. CASE driver.call # "custom"
    <3>1. driver'.pc # "lane" /\ driver'.lane = driver.lane /\ Role' = Role
      BY <1>c, <2>2, <2>5 DEF GivenUp
    <3>2. QED
      BY <1>a, <1>b, <1>d, <1>e, <2>2, <2>3, <3>1 DEF AheadInv
  <2>6. QED
    BY <2>4, <2>5
<1>8. CASE Complete
  <2>1. /\ [status |-> "done", error |-> FALSE] \in Status
        /\ [status |-> "done", error |-> FALSE].status = "done"
    BY DoneIs
  <2>2. /\ task' = [task EXCEPT ![Task] = [status |-> "done", error |-> FALSE]]
        /\ driver.pc = "post" /\ driver'.skip = driver.skip
        /\ driver'.call = driver.call
        /\ driver'.pc = "completed" /\ driver'.lane = driver.lane
    BY <1>8, CompleteDoes DEF Stays
  <2>3. /\ \A i \in DOMAIN Driven : i # driver.lane => task'[Driven[i]] = task[Driven[i]]
        /\ \A t \in driver.skip \cap Roles : task'[t] = task[t]
        /\ task'[Role] = IF driver.call = "custom" THEN task[Role]
                         ELSE [status |-> "done", error |-> FALSE]
    BY <2>1, <2>2, RowStep
  <2>4. QED
    BY <1>a, <1>b, <1>c, <1>d, <1>e, <2>1, <2>2, <2>3
    DEF AheadInv, Stays, Passes, AtLane, Asking, Finishing
<1>9. CASE AfterLane
  <2>1. CASE driver'.pc = "lane"
    <3>1. /\ driver'.lane = driver.lane + 1 /\ driver'.skip = driver.skip /\ task' = task
          /\ driver.pc \notin {"off", "end"}
      BY <1>9, <2>1, AfterLaneDoes
    <3>2. QED
      BY <1>a, <1>b, <1>d, <1>e, <2>1, <3>1 DEF AheadInv, Role
  <2>2. CASE driver'.pc # "lane"
    BY <1>9, <1>a, <1>c, <1>d, <2>2, AfterLaneDoes DEF AheadInv
  <2>3. QED
    BY <2>1, <2>2
<1>10. CASE AfterCustom
  <2>1. /\ driver'.lane = driver.lane + 1 /\ driver'.skip = driver.skip /\ task' = task
        /\ driver'.pc = "lane" /\ driver.pc \notin {"off", "end"}
    BY <1>10, AfterCustomDoes DEF Passes, AtLane, Books
  <2>2. QED
    BY <1>a, <1>b, <1>d, <1>e, <2>1 DEF AheadInv, Role
<1>11. CASE Works
  BY <1>11, <1>a, <1>b, <1>c, <1>d, <1>e
  DEF AheadInv, Stays, Passes, AtLane, Asking, Finishing, Works
<1>12. CASE AfterBuilder
  <2>1. /\ driver'.lane = driver.lane + 1 /\ driver'.skip = driver.skip /\ task' = task
        /\ driver'.pc = "lane" /\ driver.pc \notin {"off", "end"}
    BY <1>12, AfterBuilderDoes DEF Passes, AtLane
  <2>2. QED
    BY <1>a, <1>b, <1>d, <1>e, <2>1 DEF AheadInv, Role
<1>13. CASE Converge
  BY <1>13, <1>a, <1>b, <1>c, <1>d, <1>e, ConvergeDoes
  DEF AheadInv, Stays, Passes, AtLane, Asking, Finishing
<1>14. CASE DriveFails
  BY <1>14, <1>a, <1>b, <1>c, <1>d, <1>e, DriveFailsDoes
  DEF AheadInv, Stays, Passes, AtLane, Asking, Finishing
<1>15. CASE HostDies
  BY <1>15, <1>a, <1>b, <1>c, <1>d, <1>e, HostDiesDoes, IdleIs
  DEF AheadInv, Stays, Passes, AtLane, Asking, Finishing
<1>16. CASE UNCHANGED pipelineVars
  BY <1>16, <1>a, <1>b, <1>c, <1>d, <1>e
  DEF AheadInv, Stays, Passes, AtLane, Asking, Finishing, pipelineVars, board4, history
<1>17. QED
  BY <1>1, <1>2, <1>3, <1>4, <1>5, <1>6, <1>7, <1>8, <1>9, <1>10, <1>11, <1>12, <1>13, <1>14,
     <1>15, <1>16, Steps

LEMMA BehindKept ==
    ASSUME PipelineTypeOK, WhereInv, RowsInv, FirstInv, [PipelineNext]_pipelineVars
    PROVE  BehindInv'
<1>a. board' = board /\ Driven' = Driven
  BY BoardSame
<1>b. /\ Len(Driven) \in Nat /\ DOMAIN Driven = 1..Len(Driven)
      /\ \A i \in DOMAIN Driven : Driven[i] \in Roles
  BY DrivenAre
<1>c. driver'.lane = driver.lane => Role' = Role
  BY <1>a DEF Role
<1>d. AtInv /\ SkippedInv /\ AheadInv /\ BehindInv /\ RestedInv
  BY DEF WhereInv, RowsInv
<1>e. Role = Driven[driver.lane] /\ driver.lane \in 1..(Len(Driven) + 1)
  BY <1>d DEF Role, AtInv
<1>1. CASE Begin
  BY <1>1, <1>a, <1>b, <1>c, <1>d, <1>e, BeginDoes
  DEF BehindInv, Stays, Passes, AtLane, Asking, Finishing
<1>2. CASE SkipLane
  <2>1. /\ driver'.lane = driver.lane + 1 /\ driver'.skip = driver.skip /\ task' = task
        /\ driver'.pc = "lane" /\ driver.pc # "off"
    BY <1>2, SkipLaneDoes DEF Passes, AtLane
  <2>2. driver.lane \in DOMAIN Driven => task[Driven[driver.lane]].status = "done"
    BY <1>2, <1>b, <1>d, <1>e, SkipLaneDoes DEF SkippedInv, Role
  <2>3. QED
    BY <1>a, <1>b, <1>d, <1>e, <2>1, <2>2 DEF BehindInv, Finishing, Asking
<1>3. CASE EnterLane
  BY <1>3, <1>a, <1>b, <1>c, <1>d, <1>e, EnterLaneDoes
  DEF BehindInv, Stays, Passes, AtLane, Asking, Finishing, Books
<1>4. CASE EnterBuilder
  BY <1>4, <1>a, <1>b, <1>c, <1>d, <1>e, EnterBuilderDoes
  DEF BehindInv, Stays, Passes, AtLane, Asking, Finishing, Books
<1>5. CASE Claim
  <2>1. /\ [status |-> "running", error |-> FALSE] \in Status
        /\ [status |-> "running", error |-> FALSE].status = "running"
    BY DoneIs
  <2>2. /\ task' = [task EXCEPT ![Task] = [status |-> "running", error |-> FALSE]]
        /\ driver.pc = "claim" /\ driver'.skip = driver.skip
        /\ driver'.call = driver.call
        /\ driver'.pc = "post" /\ driver'.lane = driver.lane
    BY <1>5, ClaimDoes DEF Stays
  <2>3. /\ \A i \in DOMAIN Driven : i # driver.lane => task'[Driven[i]] = task[Driven[i]]
        /\ \A t \in driver.skip \cap Roles : task'[t] = task[t]
        /\ task'[Role] = IF driver.call = "custom" THEN task[Role]
                         ELSE [status |-> "running", error |-> FALSE]
    BY <2>1, <2>2, RowStep
  <2>4. QED
    BY <1>a, <1>b, <1>c, <1>d, <1>e, <2>1, <2>2, <2>3
    DEF BehindInv, Stays, Passes, AtLane, Asking, Finishing
<1>6. CASE CallWithRetries
  BY <1>6, <1>a, <1>b, <1>c, <1>d, <1>e, CallWithRetriesDoes
  DEF BehindInv, Stays, Passes, AtLane, Asking, Finishing, Books
<1>7. CASE PostFails
  <2>1. /\ [status |-> "done", error |-> TRUE] \in Status
        /\ [status |-> "done", error |-> TRUE].status = "done"
    BY DoneIs
  <2>2. /\ task' = [task EXCEPT ![Task] = [status |-> "done", error |-> TRUE]]
        /\ driver.pc = "post" /\ driver'.pc = GivenUp(driver.call)
        /\ driver'.skip = driver.skip /\ driver'.call = driver.call
        /\ driver'.lane = IF driver.call = "custom" THEN driver.lane + 1 ELSE driver.lane
    BY <1>7, PostFailsDoes
  <2>3. /\ \A i \in DOMAIN Driven : i # driver.lane => task'[Driven[i]] = task[Driven[i]]
        /\ task'[Role].status = "done"
    <3>1. task'[Role] = IF driver.call = "custom" THEN task[Role]
                        ELSE [status |-> "done", error |-> TRUE]
      BY <2>1, <2>2, RowStep
    <3>2. driver.call = "custom" => task[Role].status = "done"
      BY <1>d, <2>2 DEF BehindInv, Asking
    <3>3. QED
      BY <2>1, <2>2, <3>1, <3>2, RowStep
  <2>4. CASE driver.call = "custom"
    <3>1. driver'.pc = "lane" /\ driver'.lane = driver.lane + 1
      BY <2>2, <2>4 DEF GivenUp
    <3>2. QED
      BY <1>a, <1>b, <1>d, <1>e, <2>2, <2>3, <3>1 DEF BehindInv, Asking, Finishing
  <2>5. CASE driver.call # "custom"
    <3>1. driver'.lane = driver.lane /\ Role' = Role
      BY <1>c, <2>2, <2>5
    <3>2. QED
      BY <1>a, <1>b, <1>d, <1>e, <2>2, <2>3, <2>5, <3>1 DEF BehindInv, Asking
  <2>6. QED
    BY <2>4, <2>5
<1>8. CASE Complete
  <2>1. /\ [status |-> "done", error |-> FALSE] \in Status
        /\ [status |-> "done", error |-> FALSE].status = "done"
    BY DoneIs
  <2>2. /\ task' = [task EXCEPT ![Task] = [status |-> "done", error |-> FALSE]]
        /\ driver.pc = "post" /\ driver'.skip = driver.skip
        /\ driver'.call = driver.call
        /\ driver'.pc = "completed" /\ driver'.lane = driver.lane
    BY <1>8, CompleteDoes DEF Stays
  <2>3. /\ \A i \in DOMAIN Driven : i # driver.lane => task'[Driven[i]] = task[Driven[i]]
        /\ \A t \in driver.skip \cap Roles : task'[t] = task[t]
        /\ task'[Role] = IF driver.call = "custom" THEN task[Role]
                         ELSE [status |-> "done", error |-> FALSE]
    BY <2>1, <2>2, RowStep
  <2>4. QED
    BY <1>a, <1>b, <1>c, <1>d, <1>e, <2>1, <2>2, <2>3
    DEF BehindInv, Stays, Passes, AtLane, Asking, Finishing
<1>9. CASE AfterLane
  <2>1. task[Driven[driver.lane]].status = "done" /\ driver.pc # "off" /\ task' = task
    BY <1>9, <1>d, <1>e, AfterLaneDoes DEF BehindInv, Asking
  <2>2. CASE driver'.pc = "lane"
    <3>1. driver'.lane = driver.lane + 1
      BY <1>9, <2>2, AfterLaneDoes
    <3>2. QED
      BY <1>a, <1>b, <1>d, <1>e, <2>1, <2>2, <3>1 DEF BehindInv, Finishing, Asking
  <2>3. CASE driver'.pc # "lane"
    <3>1. driver'.lane = driver.lane /\ driver'.pc = "claim"
      BY <1>9, <2>3, AfterLaneDoes
    <3>2. QED
      BY <1>a, <1>b, <1>c, <1>d, <1>e, <2>1, <3>1 DEF BehindInv, Finishing, Asking
  <2>4. QED
    BY <2>2, <2>3
<1>10. CASE AfterCustom
  <2>1. /\ driver'.lane = driver.lane + 1 /\ driver'.skip = driver.skip /\ task' = task
        /\ driver'.pc = "lane" /\ driver.pc # "off"
    BY <1>10, AfterCustomDoes DEF Passes, AtLane, Books
  <2>2. driver.lane \in DOMAIN Driven => task[Driven[driver.lane]].status = "done"
    BY <1>10, <1>d, <1>e, AfterCustomDoes DEF BehindInv, Asking
  <2>3. QED
    BY <1>a, <1>b, <1>d, <1>e, <2>1, <2>2 DEF BehindInv, Finishing, Asking
<1>11. CASE Works
  BY <1>11, <1>a, <1>b, <1>c, <1>d, <1>e
  DEF BehindInv, Stays, Passes, AtLane, Asking, Finishing, Works
<1>12. CASE AfterBuilder
  <2>1. /\ driver'.lane = driver.lane + 1 /\ driver'.skip = driver.skip /\ task' = task
        /\ driver'.pc = "lane" /\ driver.pc # "off"
    BY <1>12, AfterBuilderDoes DEF Passes, AtLane
  <2>2. driver.lane \in DOMAIN Driven => task[Driven[driver.lane]].status = "done"
    BY <1>12, <1>d, <1>e, AfterBuilderDoes DEF BehindInv
  <2>3. QED
    BY <1>a, <1>b, <1>d, <1>e, <2>1, <2>2 DEF BehindInv, Finishing, Asking
<1>13. CASE Converge
  BY <1>13, <1>a, <1>b, <1>c, <1>d, <1>e, ConvergeDoes
  DEF BehindInv, Stays, Passes, AtLane, Asking, Finishing
<1>14. CASE DriveFails
  <2>1. CASE board = "demo" /\ Role = "planner"
    <3>1. task' = [task EXCEPT !["builder"] = [status |-> "done", error |-> TRUE]]
      BY <1>14, <2>1, DriveFailsDoes
    <3>2. "builder" \in Tasks
      BY RolesAre, TasksAre
    <3>3. /\ task'["builder"] = [status |-> "done", error |-> TRUE]
          /\ \A u \in Tasks : u # "builder" => task'[u] = task[u]
      BY <3>1, <3>2, TaskSet, DoneIs
    <3>4. [status |-> "done", error |-> TRUE].status = "done"
      OBVIOUS
    <3>5. \A i \in DOMAIN Driven :
              task[Driven[i]].status = "done" => task'[Driven[i]].status = "done"
      BY <1>b, <3>3, <3>4, TasksAre
    <3>6. QED
      BY <1>14, <1>a, <1>d, <3>5, DriveFailsDoes DEF BehindInv, Stays, Finishing, Asking
  <2>2. CASE ~(board = "demo" /\ Role = "planner")
    BY <1>14, <1>a, <1>d, <2>2, DriveFailsDoes DEF BehindInv, Stays, Finishing, Asking
  <2>3. QED
    BY <2>1, <2>2
<1>15. CASE HostDies
  BY <1>15, <1>a, <1>b, <1>c, <1>d, <1>e, HostDiesDoes, IdleIs
  DEF BehindInv, Stays, Passes, AtLane, Asking, Finishing
<1>16. CASE UNCHANGED pipelineVars
  BY <1>16, <1>a, <1>b, <1>c, <1>d, <1>e
  DEF BehindInv, Stays, Passes, AtLane, Asking, Finishing, pipelineVars, board4, history
<1>17. QED
  BY <1>1, <1>2, <1>3, <1>4, <1>5, <1>6, <1>7, <1>8, <1>9, <1>10, <1>11, <1>12, <1>13, <1>14,
     <1>15, <1>16, Steps

LEMMA RestedKept ==
    ASSUME PipelineTypeOK, WhereInv, RowsInv, FirstInv, [PipelineNext]_pipelineVars
    PROVE  RestedInv'
<1>a. board' = board /\ Driven' = Driven
  BY BoardSame
<1>b. /\ Len(Driven) \in Nat /\ DOMAIN Driven = 1..Len(Driven)
      /\ \A i \in DOMAIN Driven : Driven[i] \in Roles
  BY DrivenAre
<1>c. driver'.lane = driver.lane => Role' = Role
  BY <1>a DEF Role
<1>d. AtInv /\ SkippedInv /\ AheadInv /\ BehindInv /\ RestedInv
  BY DEF WhereInv, RowsInv
<1>e. Role = Driven[driver.lane] /\ driver.lane \in 1..(Len(Driven) + 1)
  BY <1>d DEF Role, AtInv
<1>1. CASE Begin
  BY <1>1, <1>a, <1>b, <1>c, <1>d, <1>e, BeginDoes
  DEF RestedInv, Stays, Passes, AtLane, Asking, Finishing
<1>2. CASE SkipLane
  BY <1>2, <1>a, <1>b, <1>c, <1>d, <1>e, SkipLaneDoes
  DEF RestedInv, Stays, Passes, AtLane, Asking, Finishing
<1>3. CASE EnterLane
  BY <1>3, <1>a, <1>b, <1>c, <1>d, <1>e, EnterLaneDoes
  DEF RestedInv, Stays, Passes, AtLane, Asking, Finishing, Books
<1>4. CASE EnterBuilder
  BY <1>4, <1>a, <1>b, <1>c, <1>d, <1>e, EnterBuilderDoes
  DEF RestedInv, Stays, Passes, AtLane, Asking, Finishing, Books
<1>5. CASE Claim
  BY <1>5, <1>a, <1>b, <1>c, <1>d, <1>e, ClaimDoes
  DEF RestedInv, Stays, Passes, AtLane, Asking, Finishing
<1>6. CASE CallWithRetries
  BY <1>6, <1>a, <1>b, <1>c, <1>d, <1>e, CallWithRetriesDoes
  DEF RestedInv, Stays, Passes, AtLane, Asking, Finishing, Books
<1>7. CASE PostFails
  BY <1>7, <1>a, <1>b, <1>c, <1>d, <1>e, PostFailsDoes
  DEF RestedInv, Stays, Passes, AtLane, Asking, Finishing, GivenUp
<1>8. CASE Complete
  BY <1>8, <1>a, <1>b, <1>c, <1>d, <1>e, CompleteDoes
  DEF RestedInv, Stays, Passes, AtLane, Asking, Finishing
<1>9. CASE AfterLane
  BY <1>9, <1>a, <1>b, <1>c, <1>d, <1>e, AfterLaneDoes
  DEF RestedInv, Stays, Passes, AtLane, Asking, Finishing
<1>10. CASE AfterCustom
  BY <1>10, <1>a, <1>b, <1>c, <1>d, <1>e, AfterCustomDoes
  DEF RestedInv, Stays, Passes, AtLane, Asking, Finishing, Books
<1>11. CASE Works
  BY <1>11, <1>a, <1>b, <1>c, <1>d, <1>e
  DEF RestedInv, Stays, Passes, AtLane, Asking, Finishing, Works
<1>12. CASE AfterBuilder
  BY <1>12, <1>a, <1>b, <1>c, <1>d, <1>e, AfterBuilderDoes
  DEF RestedInv, Stays, Passes, AtLane, Asking, Finishing
<1>13. CASE Converge
  BY <1>13, <1>a, <1>b, <1>c, <1>d, <1>e, ConvergeDoes
  DEF RestedInv, Stays, Passes, AtLane, Asking, Finishing
<1>14. CASE DriveFails
  BY <1>14, <1>a, <1>b, <1>c, <1>d, <1>e, DriveFailsDoes
  DEF RestedInv, Stays, Passes, AtLane, Asking, Finishing
<1>15. CASE HostDies
  <2>1. driver.pc \notin {"off", "end"} /\ task' = task
    BY <1>15, HostDiesDoes
  <2>2. SUFFICES ASSUME board = "project", NEW i \in DOMAIN Lanes, NEW j \in DOMAIN Lanes, i < j,
                        task[Lanes[j]].status = "done"
                 PROVE  task[Lanes[i]].status = "done"
    BY <1>a, <2>1 DEF RestedInv
  <2>3. Driven = Lanes /\ i \in Int /\ j \in Int /\ Lanes[i] \in Roles
    BY <2>2, DrivenAre, Parameters
  <2>4. CASE i < driver.lane
    BY <1>d, <2>1, <2>3, <2>4 DEF BehindInv
  <2>5. CASE i >= driver.lane
    <3>1. j > driver.lane
      BY <1>e, <1>b, <2>2, <2>3, <2>5
    <3>2. Lanes[j] \in driver.skip
      BY <1>d, <2>1, <2>2, <2>3, <3>1 DEF AheadInv
    <3>3. QED
      BY <1>d, <2>2, <2>3, <3>2 DEF SkippedInv
  <2>6. QED
    BY <1>b, <1>e, <2>3, <2>4, <2>5
<1>16. CASE UNCHANGED pipelineVars
  BY <1>16, <1>a, <1>b, <1>c, <1>d, <1>e
  DEF RestedInv, Stays, Passes, AtLane, Asking, Finishing, pipelineVars, board4, history
<1>17. QED
  BY <1>1, <1>2, <1>3, <1>4, <1>5, <1>6, <1>7, <1>8, <1>9, <1>10, <1>11, <1>12, <1>13, <1>14,
     <1>15, <1>16, Steps

LEMMA RowsKept ==
    ASSUME PipelineTypeOK, WhereInv, RowsInv, FirstInv, [PipelineNext]_pipelineVars
    PROVE  RowsInv'
BY SkippedKept, AheadKept, BehindKept, RestedKept DEF RowsInv

------------------------------------------------------------------------------
(* Errors, what the first thread finds, and the number of calls. *)

LEMMA DeathsAre == PipelineTypeOK => deaths \in Nat
<1>1. PipelineTypeOK => deaths \in 0..MaxDeaths
  BY DEF PipelineTypeOK
<1>2. QED
  BY <1>1, Parameters

LEMMA ErrorKept ==
    ASSUME PipelineTypeOK, WhereInv, RowsInv, ErrorInv, [PipelineNext]_pipelineVars
    PROVE  ErrorInv'
<1>a. /\ board \in {"project", "demo"} /\ deaths \in Nat /\ (driver.pc = "end" <=> outcome # Unsettled)
      /\ Unsettled[1] = "none"
  BY DeathsAre DEF PipelineTypeOK, WhereInv, SettledInv, Unsettled
<1>1. CASE Begin
  BY <1>1, <1>a, BeginDoes DEF ErrorInv, history
<1>2. CASE SkipLane
  BY <1>2, <1>a, SkipLaneDoes DEF ErrorInv, history, AtLane
<1>3. CASE EnterLane
  BY <1>3, <1>a, EnterLaneDoes DEF ErrorInv, history, AtLane, Books
<1>4. CASE EnterBuilder
  BY <1>4, <1>a, EnterBuilderDoes DEF ErrorInv, history, AtLane, Books
<1>5. CASE Claim
  <2>1. /\ [status |-> "running", error |-> FALSE] \in Status
        /\ [status |-> "running", error |-> FALSE].error = FALSE
    BY DoneIs
  <2>2. /\ task' = [task EXCEPT ![Task] = [status |-> "running", error |-> FALSE]] /\ driver.pc \in
          {"claim", "post"}
    BY <1>5, ClaimDoes
  <2>3. task'[Task] = [status |-> "running", error |-> FALSE] /\ \A t \in Tasks : t # Task => task'[t] = task[t]
    BY <2>1, <2>2, RowStep
  <2>4. QED
    BY <1>5, <1>a, <2>1, <2>3, ClaimDoes DEF ErrorInv, history
<1>6. CASE CallWithRetries
  BY <1>6, <1>a, CallWithRetriesDoes DEF ErrorInv, history, Books
<1>7. CASE PostFails
  <2>1. /\ [status |-> "done", error |-> TRUE] \in Status
        /\ [status |-> "done", error |-> TRUE].error = TRUE
    BY DoneIs
  <2>2. /\ task' = [task EXCEPT ![Task] = [status |-> "done", error |-> TRUE]] /\ driver.pc \in {"claim", "post"}
    BY <1>7, PostFailsDoes
  <2>3. task'[Task] = [status |-> "done", error |-> TRUE] /\ \A t \in Tasks : t # Task => task'[t] = task[t]
    BY <2>1, <2>2, RowStep
  <2>4. QED
    BY <1>7, <1>a, <2>1, <2>3, PostFailsDoes DEF ErrorInv, history, GivenUp
<1>8. CASE Complete
  <2>1. /\ [status |-> "done", error |-> FALSE] \in Status
        /\ [status |-> "done", error |-> FALSE].error = FALSE
    BY DoneIs
  <2>2. /\ task' = [task EXCEPT ![Task] = [status |-> "done", error |-> FALSE]] /\ driver.pc \in {"claim", "post"}
    BY <1>8, CompleteDoes
  <2>3. task'[Task] = [status |-> "done", error |-> FALSE] /\ \A t \in Tasks : t # Task => task'[t] = task[t]
    BY <2>1, <2>2, RowStep
  <2>4. QED
    BY <1>8, <1>a, <2>1, <2>3, CompleteDoes DEF ErrorInv, history
<1>9. CASE AfterLane
  BY <1>9, <1>a, AfterLaneDoes DEF ErrorInv, history
<1>10. CASE AfterCustom
  BY <1>10, <1>a, AfterCustomDoes DEF ErrorInv, history, Books
<1>11. CASE Works
  BY <1>11, <1>a DEF ErrorInv, history, Works, Finishing
<1>12. CASE AfterBuilder
  BY <1>12, <1>a, AfterBuilderDoes DEF ErrorInv, history
<1>13. CASE Converge
  <2>1. outcome = Unsettled /\ driver.pc # "raised" /\ UNCHANGED <<task, swallowed, deaths>>
    BY <1>13, <1>a, ConvergeDoes DEF history
  <2>2. QED
    BY <1>a, <2>1 DEF ErrorInv
<1>14. CASE DriveFails
  <2>1. outcome' = <<"error", "">>
    BY <1>14, DriveFailsDoes
  <2>2. outcome'[1] = "error"
    BY <2>1
  <2>3. QED
    BY <2>2 DEF ErrorInv
<1>15. CASE HostDies
  BY <1>15, <1>a, HostDiesDoes DEF ErrorInv, history
<1>16. CASE UNCHANGED pipelineVars
  BY <1>16, <1>a DEF ErrorInv, pipelineVars, board4, history
<1>17. QED
  BY <1>1, <1>2, <1>3, <1>4, <1>5, <1>6, <1>7, <1>8, <1>9, <1>10, <1>11, <1>12, <1>13, <1>14,
     <1>15, <1>16, Steps

LEMMA FirstKept ==
    ASSUME PipelineTypeOK, WhereInv, FirstInv, [PipelineNext]_pipelineVars
    PROVE  FirstInv'
<1>a. deaths \in Nat
  BY DeathsAre
<1>1. CASE Begin
  <2>1. CASE deaths = 0
    BY <1>1, <2>1, BeginDoes DEF FirstInv
  <2>2. CASE deaths # 0
    BY <1>1, <2>2, BeginDoes DEF FirstInv
  <2>3. QED
    BY <2>1, <2>2
<1>2. CASE SkipLane
  BY <1>2, <1>a, SkipLaneDoes DEF FirstInv, Stays, Passes, AtLane, Typed
<1>3. CASE EnterLane
  BY <1>3, <1>a, EnterLaneDoes DEF FirstInv, Stays, Passes, AtLane, Typed, Books
<1>4. CASE EnterBuilder
  BY <1>4, <1>a, EnterBuilderDoes DEF FirstInv, Stays, Passes, AtLane, Typed, Books
<1>5. CASE Claim
  BY <1>5, <1>a, ClaimDoes DEF FirstInv, Stays, Passes, AtLane, Typed
<1>6. CASE CallWithRetries
  BY <1>6, <1>a, CallWithRetriesDoes DEF FirstInv, Stays, Passes, AtLane, Typed, Books
<1>7. CASE PostFails
  BY <1>7, <1>a, PostFailsDoes DEF FirstInv, Stays, Passes, AtLane, Typed, GivenUp
<1>8. CASE Complete
  BY <1>8, <1>a, CompleteDoes DEF FirstInv, Stays, Passes, AtLane, Typed
<1>9. CASE AfterLane
  BY <1>9, <1>a, AfterLaneDoes DEF FirstInv, Stays, Passes, AtLane, Typed
<1>10. CASE AfterCustom
  BY <1>10, <1>a, AfterCustomDoes DEF FirstInv, Stays, Passes, AtLane, Typed, Books
<1>11. CASE Works
  BY <1>11, <1>a DEF FirstInv, Stays, Passes, AtLane, Typed, Works, Finishing
<1>12. CASE AfterBuilder
  BY <1>12, <1>a, AfterBuilderDoes DEF FirstInv, Stays, Passes, AtLane, Typed
<1>13. CASE Converge
  BY <1>13, <1>a, ConvergeDoes DEF FirstInv, Stays, Passes, AtLane, Typed
<1>14. CASE DriveFails
  BY <1>14, <1>a, DriveFailsDoes DEF FirstInv, Stays, Passes, AtLane, Typed
<1>15. CASE HostDies
  BY <1>15, <1>a, HostDiesDoes, IdleIs DEF FirstInv, Stays, Passes, AtLane, Typed
<1>16. CASE UNCHANGED pipelineVars
  BY <1>16, <1>a DEF FirstInv, pipelineVars, board4, history
<1>17. QED
  BY <1>1, <1>2, <1>3, <1>4, <1>5, <1>6, <1>7, <1>8, <1>9, <1>10, <1>11, <1>12, <1>13, <1>14,
     <1>15, <1>16, Steps

LEMMA FreshKept ==
    ASSUME PipelineTypeOK, WhereInv, CallsInv, [PipelineNext]_pipelineVars
    PROVE  FreshInv'
<1>a. Driven' = Driven /\ driver.lane \in Nat
  BY BoardSame DEF PipelineTypeOK, Driver
<1>b. driver.lane <= driver'.lane => (Ahead("builder")' => Ahead("builder"))
  BY <1>a, DriverTyped, DrivenAre DEF Ahead, Typed, Driver
<1>c. FreshInv
  BY DEF CallsInv
<1>1. CASE Begin
  BY <1>1, <1>a, <1>b, <1>c, BeginDoes DEF FreshInv, Laned, Asking, Stays, Passes
<1>2. CASE SkipLane
  BY <1>2, <1>a, <1>b, <1>c, SkipLaneDoes DEF FreshInv, Laned, Asking, Stays, Passes, AtLane
<1>3. CASE EnterLane
  BY <1>3, <1>a, <1>b, <1>c, EnterLaneDoes
  DEF FreshInv, Laned, Asking, Stays, Passes, Books, AtLane
<1>4. CASE EnterBuilder
  BY <1>4, <1>a, <1>b, <1>c, EnterBuilderDoes DEF FreshInv, Laned, Asking, Stays, Passes, Books
<1>5. CASE Claim
  BY <1>5, <1>a, <1>b, <1>c, ClaimDoes DEF FreshInv, Laned, Asking, Stays, Passes
<1>6. CASE CallWithRetries
  BY <1>6, <1>a, <1>b, <1>c, CallWithRetriesDoes
  DEF FreshInv, Laned, Asking, Stays, Passes, Books
<1>7. CASE PostFails
  BY <1>7, <1>a, <1>b, <1>c, PostFailsDoes DEF FreshInv, Laned, Asking, Stays, Passes, GivenUp
<1>8. CASE Complete
  BY <1>8, <1>a, <1>b, <1>c, CompleteDoes DEF FreshInv, Laned, Asking, Stays, Passes
<1>9. CASE AfterLane
  BY <1>9, <1>a, <1>b, <1>c, AfterLaneDoes DEF FreshInv, Laned, Asking, Stays, Passes
<1>10. CASE AfterCustom
  BY <1>10, <1>a, <1>b, <1>c, AfterCustomDoes DEF FreshInv, Laned, Asking, Stays, Passes, Books
<1>11. CASE Works
  BY <1>11, <1>a, <1>b, <1>c
  DEF FreshInv, Laned, Asking, Stays, Passes, Works, Finishing, Patches
<1>12. CASE AfterBuilder
  <2>1. /\ driver.pc = "noting" /\ driver'.lane = driver.lane + 1 /\ Driven[driver.lane] = "builder"
        /\ driver.lane <= Len(Driven) /\ driver.lane \in 1..(Len(Driven) + 1)
    BY <1>12, AfterBuilderDoes DEF Passes, WhereInv, AtInv, AtBuilder, Role
  <2>2. driver.lane \in DOMAIN Driven
    BY <2>1, DrivenAre
  <2>3. ~Ahead("builder")'
    BY <1>a, <2>1, <2>2, DrivenAre DEF Ahead
  <2>4. QED
    BY <2>3 DEF FreshInv
<1>13. CASE Converge
  BY <1>13, <1>a, <1>b, <1>c, ConvergeDoes DEF FreshInv, Laned, Asking, Stays, Passes
<1>14. CASE DriveFails
  BY <1>14, <1>a, <1>b, <1>c, DriveFailsDoes DEF FreshInv, Laned, Asking, Stays, Passes
<1>15. CASE HostDies
  BY <1>15, <1>a, <1>b, <1>c, HostDiesDoes, IdleIs DEF FreshInv, Laned, Asking, Stays, Passes
<1>16. CASE UNCHANGED pipelineVars
  BY <1>16, <1>a, <1>b, <1>c DEF FreshInv, Laned, pipelineVars, board4, history
<1>17. QED
  BY <1>1, <1>2, <1>3, <1>4, <1>5, <1>6, <1>7, <1>8, <1>9, <1>10, <1>11, <1>12, <1>13, <1>14,
     <1>15, <1>16, Steps

LEMMA StageKept ==
    ASSUME PipelineTypeOK, WhereInv, CallsInv, [PipelineNext]_pipelineVars
    PROVE  StageInv'
<1>a. /\ driver.calls \in Nat /\ driver.round \in Nat /\ TailPasses \in Nat
      /\ driver'.calls \in Nat /\ driver'.round \in Nat
  BY DriverTyped, Parameters DEF PipelineTypeOK, Driver, Typed
<1>b. StageInv
  BY DEF CallsInv
<1>1. CASE Begin
  BY <1>1, <1>a, <1>b, BeginDoes
  DEF StageInv, Stage, Asking, CallsBounded, RebuildRounds, FillRounds
<1>2. CASE SkipLane
  BY <1>2, <1>a, <1>b, SkipLaneDoes
  DEF StageInv, Stage, Asking, CallsBounded, RebuildRounds, FillRounds
<1>3. CASE EnterLane
  BY <1>3, <1>a, <1>b, EnterLaneDoes
  DEF StageInv, Stage, Asking, CallsBounded, RebuildRounds, FillRounds, Books
<1>4. CASE EnterBuilder
  <2>1. driver.calls = 0
    <3>1. driver.pc = "lane" /\ driver.lane <= Len(Driven) /\ Driven[driver.lane] = "builder"
      BY <1>4, EnterBuilderDoes DEF AtLane, Role
    <3>2. driver.lane \in DOMAIN Driven /\ driver.lane \in Nat
      BY <3>1, DrivenAre DEF WhereInv, AtInv
    <3>3. Ahead("builder") /\ Laned
      BY <3>1, <3>2 DEF Ahead, Laned
    <3>4. QED
      BY <3>3 DEF CallsInv, FreshInv
  <2>2. driver'.calls = 1 /\ Stage' = "build"
    BY <1>4, <2>1, EnterBuilderDoes DEF Stage, Asking
  <2>3. QED
    BY <1>a, <2>2 DEF StageInv, CallsBounded, RebuildRounds, FillRounds
<1>5. CASE Claim
  BY <1>5, <1>a, <1>b, ClaimDoes
  DEF StageInv, Stage, Asking, CallsBounded, RebuildRounds, FillRounds
<1>6. CASE CallWithRetries
  BY <1>6, <1>a, <1>b, CallWithRetriesDoes
  DEF StageInv, Stage, Asking, CallsBounded, RebuildRounds, FillRounds, Books
<1>7. CASE PostFails
  BY <1>7, <1>a, <1>b, PostFailsDoes
  DEF StageInv, Stage, Asking, CallsBounded, RebuildRounds, FillRounds, GivenUp
<1>8. CASE Complete
  BY <1>8, <1>a, <1>b, CompleteDoes
  DEF StageInv, Stage, Asking, CallsBounded, RebuildRounds, FillRounds
<1>9. CASE AfterLane
  BY <1>9, <1>a, <1>b, AfterLaneDoes
  DEF StageInv, Stage, Asking, CallsBounded, RebuildRounds, FillRounds
<1>10. CASE AfterCustom
  BY <1>10, <1>a, <1>b, AfterCustomDoes
  DEF StageInv, Stage, Asking, CallsBounded, RebuildRounds, FillRounds, Books
<1>11. CASE AfterBuild
  BY <1>11, <1>a, <1>b, AfterBuildDoes
  DEF StageInv, Stage, Asking, CallsBounded, RebuildRounds, FillRounds, ToStage, ToCall
<1>12. CASE Rebuild
  BY <1>12, <1>a, <1>b, RebuildDoes
  DEF StageInv, Stage, Asking, CallsBounded, RebuildRounds, FillRounds, ToStage, ToCall
<1>13. CASE AppendMissingTail
  BY <1>13, <1>a, <1>b, AppendMissingTailDoes
  DEF StageInv, Stage, Asking, CallsBounded, RebuildRounds, FillRounds, ToStage, ToCall
<1>14. CASE AfterTail
  BY <1>14, <1>a, <1>b, AfterTailDoes
  DEF StageInv, Stage, Asking, CallsBounded, RebuildRounds, FillRounds, ToStage, ToCall
<1>15. CASE AppendMissingContent
  BY <1>15, <1>a, <1>b, AppendMissingContentDoes
  DEF StageInv, Stage, Asking, CallsBounded, RebuildRounds, FillRounds, ToStage, ToCall
<1>16. CASE ReconcilePlan
  BY <1>16, <1>a, <1>b, ReconcilePlanDoes
  DEF StageInv, Stage, Asking, CallsBounded, RebuildRounds, FillRounds, ToStage, ToCall
<1>17. CASE AfterFill
  BY <1>17, <1>a, <1>b, AfterFillDoes
  DEF StageInv, Stage, Asking, CallsBounded, RebuildRounds, FillRounds, ToStage, ToCall
<1>18. CASE PlanNavPatch
  BY <1>18, <1>a, <1>b, PlanNavPatchDoes
  DEF StageInv, Stage, Asking, CallsBounded, RebuildRounds, FillRounds, ToStage, ToCall
<1>19. CASE AnchorPatch
  BY <1>19, <1>a, <1>b, AnchorPatchDoes
  DEF StageInv, Stage, Asking, CallsBounded, RebuildRounds, FillRounds, ToStage, ToCall
<1>20. CASE AfterNav
  BY <1>20, <1>a, <1>b, AfterNavDoes
  DEF StageInv, Stage, Asking, CallsBounded, RebuildRounds, FillRounds, ToStage, ToCall
<1>21. CASE DeviceMetaPatch
  BY <1>21, <1>a, <1>b, DeviceMetaPatchDoes
  DEF StageInv, Stage, Asking, CallsBounded, RebuildRounds, FillRounds, ToStage, ToCall
<1>22. CASE AfterBuilder
  BY <1>22, <1>a, <1>b, AfterBuilderDoes
  DEF StageInv, Stage, Asking, CallsBounded, RebuildRounds, FillRounds
<1>23. CASE Converge
  BY <1>23, <1>a, <1>b, ConvergeDoes
  DEF StageInv, Stage, Asking, CallsBounded, RebuildRounds, FillRounds
<1>24. CASE DriveFails
  BY <1>24, <1>a, <1>b, DriveFailsDoes
  DEF StageInv, Stage, Asking, CallsBounded, RebuildRounds, FillRounds
<1>25. CASE HostDies
  BY <1>25, <1>a, <1>b, HostDiesDoes, IdleIs
  DEF StageInv, Stage, Asking, CallsBounded, RebuildRounds, FillRounds
<1>26. CASE UNCHANGED pipelineVars
  BY <1>26, <1>a, <1>b
  DEF StageInv, Stage, Asking, CallsBounded, RebuildRounds, FillRounds, pipelineVars, board4,
      history
<1>27. QED
  BY <1>1, <1>2, <1>3, <1>4, <1>5, <1>6, <1>7, <1>8, <1>9, <1>10, <1>11, <1>12, <1>13, <1>14,
     <1>15, <1>16, <1>17, <1>18, <1>19, <1>20, <1>21, <1>22, <1>23, <1>24, <1>25, <1>26
  DEF PipelineNext

LEMMA CallsKept ==
    ASSUME PipelineTypeOK, WhereInv, CallsInv, [PipelineNext]_pipelineVars
    PROVE  CallsInv'
BY FreshKept, StageKept DEF CallsInv

------------------------------------------------------------------------------
(* What the thread knows of the page. *)

LEMMA NotBehindItself ==
    ASSUME AtInv, driver.lane <= Len(Driven)
    PROVE  driver.lane \in DOMAIN Driven /\ ~Behind(Role)
<1>1. driver.lane \in DOMAIN Driven /\ \A i \in DOMAIN Driven : i \in Int
  BY DrivenAre DEF AtInv
<1>2. \A i \in DOMAIN Driven : Driven[i] = Driven[driver.lane] => i = driver.lane
  BY <1>1, DrivenAre
<1>3. QED
  BY <1>1, <1>2 DEF Behind, Role

LEMMA SeenKept ==
    ASSUME PipelineTypeOK, WhereInv, PageInv, [PipelineNext]_pipelineVars
    PROVE  SeenInv'
<1>a. SeenInv
  BY DEF PageInv
<1>1. CASE Begin
  BY <1>1, <1>a, BeginDoes DEF SeenInv, Seen, Asking, Finishing, Stays, Passes, history
<1>2. CASE SkipLane
  BY <1>2, <1>a, SkipLaneDoes DEF SeenInv, Seen, Asking, Finishing, Stays, Passes, history
<1>3. CASE EnterLane
  BY <1>3, <1>a, EnterLaneDoes
  DEF SeenInv, Seen, Asking, Finishing, Stays, Passes, history, Books
<1>4. CASE EnterBuilder
  BY <1>4, <1>a, EnterBuilderDoes
  DEF SeenInv, Seen, Asking, Finishing, Stays, Passes, history, Books
<1>5. CASE Claim
  BY <1>5, <1>a, ClaimDoes DEF SeenInv, Seen, Asking, Finishing, Stays, Passes, history
<1>6. CASE CallWithRetries
  BY <1>6, <1>a, CallWithRetriesDoes
  DEF SeenInv, Seen, Asking, Finishing, Stays, Passes, history, Books
<1>7. CASE PostFails
  BY <1>7, <1>a, PostFailsDoes
  DEF SeenInv, Seen, Asking, Finishing, Stays, Passes, history, GivenUp
<1>8. CASE Complete
  BY <1>8, <1>a, CompleteDoes
  DEF SeenInv, Seen, Asking, Finishing, Stays, Passes, history, Patches
<1>9. CASE AfterLane
  BY <1>9, <1>a, AfterLaneDoes DEF SeenInv, Seen, Asking, Finishing, Stays, Passes, history
<1>10. CASE AfterCustom
  BY <1>10, <1>a, AfterCustomDoes
  DEF SeenInv, Seen, Asking, Finishing, Stays, Passes, history, Books
<1>11. CASE AfterBuild
  BY <1>11, <1>a, AfterBuildDoes
  DEF SeenInv, Seen, Asking, Finishing, Stays, Passes, history, ToStage, ToCall
<1>12. CASE Rebuild
  BY <1>12, <1>a, RebuildDoes
  DEF SeenInv, Seen, Asking, Finishing, Stays, Passes, history, ToStage, ToCall
<1>13. CASE AppendMissingTail
  BY <1>13, <1>a, AppendMissingTailDoes
  DEF SeenInv, Seen, Asking, Finishing, Stays, Passes, history, ToStage, ToCall
<1>14. CASE AfterTail
  BY <1>14, <1>a, AfterTailDoes
  DEF SeenInv, Seen, Asking, Finishing, Stays, Passes, history, ToStage, ToCall
<1>15. CASE AppendMissingContent
  BY <1>15, <1>a, AppendMissingContentDoes
  DEF SeenInv, Seen, Asking, Finishing, Stays, Passes, history, ToStage, ToCall
<1>16. CASE ReconcilePlan
  BY <1>16, <1>a, ReconcilePlanDoes
  DEF SeenInv, Seen, Asking, Finishing, Stays, Passes, history, ToStage, ToCall
<1>17. CASE AfterFill
  BY <1>17, <1>a, AfterFillDoes
  DEF SeenInv, Seen, Asking, Finishing, Stays, Passes, history, ToStage, ToCall
<1>18. CASE PlanNavPatch
  BY <1>18, <1>a, PlanNavPatchDoes
  DEF SeenInv, Seen, Asking, Finishing, Stays, Passes, history, ToStage, ToCall
<1>19. CASE AnchorPatch
  BY <1>19, <1>a, AnchorPatchDoes
  DEF SeenInv, Seen, Asking, Finishing, Stays, Passes, history, ToStage, ToCall
<1>20. CASE AfterNav
  BY <1>20, <1>a, AfterNavDoes
  DEF SeenInv, Seen, Asking, Finishing, Stays, Passes, history, ToStage, ToCall
<1>21. CASE DeviceMetaPatch
  BY <1>21, <1>a, DeviceMetaPatchDoes
  DEF SeenInv, Seen, Asking, Finishing, Stays, Passes, history, ToStage, ToCall
<1>22. CASE AfterBuilder
  BY <1>22, <1>a, AfterBuilderDoes DEF SeenInv, Seen, Asking, Finishing, Stays, Passes, history
<1>23. CASE Converge
  BY <1>23, <1>a, ConvergeDoes DEF SeenInv, Seen, Asking, Finishing, Stays, Passes, history
<1>24. CASE DriveFails
  BY <1>24, <1>a, DriveFailsDoes DEF SeenInv, Seen, Asking, Finishing, Stays, Passes, history
<1>25. CASE HostDies
  BY <1>25, <1>a, HostDiesDoes, IdleIs
  DEF SeenInv, Seen, Asking, Finishing, Stays, Passes, history
<1>26. CASE UNCHANGED pipelineVars
  BY <1>26, <1>a DEF SeenInv, Seen, pipelineVars, board4, history
<1>27. QED
  BY <1>1, <1>2, <1>3, <1>4, <1>5, <1>6, <1>7, <1>8, <1>9, <1>10, <1>11, <1>12, <1>13, <1>14,
     <1>15, <1>16, <1>17, <1>18, <1>19, <1>20, <1>21, <1>22, <1>23, <1>24, <1>25, <1>26
  DEF PipelineNext

LEMMA LinkedKept ==
    ASSUME PipelineTypeOK, WhereInv, PageInv, [PipelineNext]_pipelineVars
    PROVE  LinkedInv'
<1>a. SeenInv /\ LinkedInv
  BY DEF PageInv
<1>b. web' = web
  BY BoardSame
<1>1. CASE Begin
  BY <1>1, <1>a, <1>b, BeginDoes DEF LinkedInv, Asking, Stays, Passes, history, FinishedPage
<1>2. CASE SkipLane
  BY <1>2, <1>a, <1>b, SkipLaneDoes DEF LinkedInv, Asking, Stays, Passes, history, FinishedPage
<1>3. CASE EnterLane
  BY <1>3, <1>a, <1>b, EnterLaneDoes
  DEF LinkedInv, Asking, Stays, Passes, history, FinishedPage, Books
<1>4. CASE EnterBuilder
  BY <1>4, <1>a, <1>b, EnterBuilderDoes
  DEF LinkedInv, Asking, Stays, Passes, history, FinishedPage, Books
<1>5. CASE Claim
  BY <1>5, <1>a, <1>b, ClaimDoes DEF LinkedInv, Asking, Stays, Passes, history, FinishedPage
<1>6. CASE CallWithRetries
  BY <1>6, <1>a, <1>b, CallWithRetriesDoes
  DEF LinkedInv, Asking, Stays, Passes, history, FinishedPage, Books
<1>7. CASE PostFails
  BY <1>7, <1>a, <1>b, PostFailsDoes
  DEF LinkedInv, Asking, Stays, Passes, history, FinishedPage, GivenUp
<1>8. CASE Complete
  BY <1>8, <1>a, <1>b, CompleteDoes
  DEF LinkedInv, Asking, Stays, Passes, history, FinishedPage, Patches
<1>9. CASE AfterLane
  BY <1>9, <1>a, <1>b, AfterLaneDoes DEF LinkedInv, Asking, Stays, Passes, history, FinishedPage
<1>10. CASE AfterCustom
  BY <1>10, <1>a, <1>b, AfterCustomDoes
  DEF LinkedInv, Asking, Stays, Passes, history, FinishedPage, Books
<1>11. CASE AfterBuild
  BY <1>11, <1>a, <1>b, AfterBuildDoes
  DEF LinkedInv, Asking, Stays, Passes, history, FinishedPage, ToStage, ToCall
<1>12. CASE Rebuild
  BY <1>12, <1>a, <1>b, RebuildDoes
  DEF LinkedInv, Asking, Stays, Passes, history, FinishedPage, ToStage, ToCall
<1>13. CASE AppendMissingTail
  BY <1>13, <1>a, <1>b, AppendMissingTailDoes
  DEF LinkedInv, Asking, Stays, Passes, history, FinishedPage, ToStage, ToCall
<1>14. CASE AfterTail
  BY <1>14, <1>a, <1>b, AfterTailDoes
  DEF LinkedInv, Asking, Stays, Passes, history, FinishedPage, ToStage, ToCall
<1>15. CASE AppendMissingContent
  BY <1>15, <1>a, <1>b, AppendMissingContentDoes
  DEF LinkedInv, Asking, Stays, Passes, history, FinishedPage, ToStage, ToCall
<1>16. CASE ReconcilePlan
  BY <1>16, <1>a, <1>b, ReconcilePlanDoes
  DEF LinkedInv, Asking, Stays, Passes, history, FinishedPage, ToStage, ToCall
<1>17. CASE AfterFill
  BY <1>17, <1>a, <1>b, AfterFillDoes
  DEF LinkedInv, Asking, Stays, Passes, history, FinishedPage, ToStage, ToCall
<1>18. CASE PlanNavPatch
  BY <1>18, <1>a, <1>b, PlanNavPatchDoes
  DEF LinkedInv, Asking, Stays, Passes, history, FinishedPage, ToStage, ToCall
<1>19. CASE AnchorPatch
  <2>1. ~stale => seen = page
    BY <1>19, <1>a, AnchorPatchDoes DEF SeenInv, Seen, Finishing
  <2>2. WebArtifactNeedsRepair(page') = WebArtifactNeedsRepair(page)
    BY <1>19, AnchorPatchDoes, SamePageMeans
  <2>3. /\ seen' = seen /\ stale' = stale /\ driver'.pc \in {"device", "claim"}
        /\ (page' = page /\ (WebArtifactNeedsRepair(seen) \/ ~seen.hash)) \/ ~page'.hash
    BY <1>19, AnchorPatchDoes DEF ToStage
  <2>4. QED
    BY <2>1, <2>2, <2>3 DEF LinkedInv
<1>20. CASE AfterNav
  <2>1. WebArtifactNeedsRepair(page') = WebArtifactNeedsRepair(page)
    BY <1>20, AfterNavDoes, SamePageMeans
  <2>2. QED
    BY <1>20, <1>a, <2>1, AfterNavDoes DEF LinkedInv, Asking, ToStage
<1>21. CASE DeviceMetaPatch
  <2>1. WebArtifactNeedsRepair(page') = WebArtifactNeedsRepair(page)
    BY <1>21, DeviceMetaPatchDoes, SamePageMeans
  <2>2. QED
    BY <1>21, <1>a, <2>1, DeviceMetaPatchDoes DEF LinkedInv, Asking, ToStage, FinishedPage
<1>22. CASE AfterBuilder
  BY <1>22, <1>a, <1>b, AfterBuilderDoes
  DEF LinkedInv, Asking, Stays, Passes, history, FinishedPage
<1>23. CASE Converge
  BY <1>23, <1>a, <1>b, ConvergeDoes DEF LinkedInv, Asking, Stays, Passes, history, FinishedPage
<1>24. CASE DriveFails
  BY <1>24, <1>a, <1>b, DriveFailsDoes
  DEF LinkedInv, Asking, Stays, Passes, history, FinishedPage
<1>25. CASE HostDies
  BY <1>25, <1>a, <1>b, HostDiesDoes, IdleIs
  DEF LinkedInv, Asking, Stays, Passes, history, FinishedPage
<1>26. CASE UNCHANGED pipelineVars
  BY <1>26, <1>a, <1>b DEF LinkedInv, FinishedPage, pipelineVars, board4, history
<1>27. QED
  BY <1>1, <1>2, <1>3, <1>4, <1>5, <1>6, <1>7, <1>8, <1>9, <1>10, <1>11, <1>12, <1>13, <1>14,
     <1>15, <1>16, <1>17, <1>18, <1>19, <1>20, <1>21, <1>22, <1>23, <1>24, <1>25, <1>26
  DEF PipelineNext

LEMMA BuiltKept ==
    ASSUME PipelineTypeOK, WhereInv, RowsInv, PageInv, [PipelineNext]_pipelineVars
    PROVE  BuiltInv'
<1>a. board' = board /\ web' = web /\ Driven' = Driven
  BY BoardSame
<1>b. LinkedInv /\ BuiltInv /\ AtInv /\ AheadInv
  BY DEF PageInv, WhereInv, RowsInv
<1>c. driver'.lane = driver.lane => (Behind("builder")' <=> Behind("builder"))
  BY <1>a DEF Behind
<1>d. driver.lane \in 1..(Len(Driven) + 1) /\ Role = Driven[driver.lane]
  BY <1>b DEF AtInv, Role
<1>e. driver'.lane = driver.lane + 1 /\ Behind("builder")' /\ driver.lane <= Len(Driven) =>
          Behind("builder") \/ Role = "builder"
  BY <1>a, <1>d, DrivenAre DEF Behind
<1>f. driver.lane <= Len(Driven) /\ Role = "builder" => ~Behind("builder")
  BY <1>b, NotBehindItself
<1>g. page' = page => (FinishedPage' <=> FinishedPage)
  BY DEF FinishedPage
<1>1. CASE Begin
  <2>1. /\ driver.pc = "off" /\ driver'.lane = 1 /\ page' = page /\ UNCHANGED history /\ driver'.pc = "lane"
        /\ driver'.skip = IF board = "project" THEN {t \in Tasks : task[t].status = "done"} ELSE {}
    BY <1>1, BeginDoes
  <2>2. ~Behind("builder")'
    BY <1>a, <2>1, DrivenAre DEF Behind
  <2>3. QED
    BY <1>a, <1>b, <1>g, <2>1, <2>2 DEF BuiltInv, history
<1>2. CASE SkipLane
  BY <1>2, <1>a, <1>b, <1>c, <1>d, <1>e, <1>f, <1>g, SkipLaneDoes
  DEF BuiltInv, Stays, Passes, history, AtLane
<1>3. CASE EnterLane
  BY <1>3, <1>a, <1>b, <1>c, <1>d, <1>e, <1>f, <1>g, EnterLaneDoes
  DEF BuiltInv, Stays, Passes, history, AtLane, Books
<1>4. CASE EnterBuilder
  BY <1>4, <1>a, <1>b, <1>c, <1>d, <1>e, <1>f, <1>g, EnterBuilderDoes
  DEF BuiltInv, Stays, Passes, history, AtLane, Books
<1>5. CASE Claim
  BY <1>5, <1>a, <1>b, <1>c, <1>d, <1>e, <1>f, <1>g, ClaimDoes
  DEF BuiltInv, Stays, Passes, history
<1>6. CASE CallWithRetries
  BY <1>6, <1>a, <1>b, <1>c, <1>d, <1>e, <1>f, <1>g, CallWithRetriesDoes
  DEF BuiltInv, Stays, Passes, history, Books
<1>7. CASE PostFails
  BY <1>7, <1>a, <1>b, <1>c, <1>d, <1>e, <1>f, <1>g, PostFailsDoes
  DEF BuiltInv, Stays, Passes, history, AtInv, Asking, GivenUp
<1>8. CASE Complete
  <2>1. CASE page' = page
    BY <1>8, <1>a, <1>b, <1>c, <1>g, <2>1, CompleteDoes DEF BuiltInv, Stays, history
  <2>2. CASE page' # page
    <3>1. Role = "builder" /\ driver.lane <= Len(Driven) /\ driver.pc = "post"
      BY <1>8, <1>b, <2>2, CompleteDoes DEF AtInv, Asking
    <3>2. ~Behind("builder") /\ "builder" \notin driver.skip
      BY <1>b, <1>f, <3>1 DEF AheadInv
    <3>3. QED
      BY <1>8, <1>c, <3>2, CompleteDoes DEF BuiltInv, Stays
  <2>3. QED
    BY <2>1, <2>2
<1>9. CASE AfterLane
  BY <1>9, <1>a, <1>b, <1>c, <1>d, <1>e, <1>f, <1>g, AfterLaneDoes
  DEF BuiltInv, Stays, Passes, history, AtInv, Asking
<1>10. CASE AfterCustom
  BY <1>10, <1>a, <1>b, <1>c, <1>d, <1>e, <1>f, <1>g, AfterCustomDoes
  DEF BuiltInv, Stays, Passes, history, AtInv, Asking, Books
<1>11. CASE Works
  <2>1. /\ Role = "builder" /\ driver.lane <= Len(Driven) /\ driver.pc \notin {"off", "end", "lane"}
        /\ driver'.lane = driver.lane /\ driver'.skip = driver.skip /\ driver'.pc # "off"
    BY <1>11, <1>b DEF Works, Stays, AtInv, AtBuilder, Asking, Finishing
  <2>2. ~Behind("builder") /\ "builder" \notin driver.skip
    BY <1>b, <1>f, <2>1 DEF AheadInv
  <2>3. QED
    BY <1>c, <2>1, <2>2 DEF BuiltInv
<1>12. CASE AfterBuilder
  BY <1>12, <1>a, <1>b, <1>c, <1>d, <1>e, <1>f, <1>g, AfterBuilderDoes
  DEF BuiltInv, Stays, Passes, history, AtInv, LinkedInv, AtBuilder
<1>13. CASE Converge
  BY <1>13, <1>a, <1>b, <1>c, <1>d, <1>e, <1>f, <1>g, ConvergeDoes
  DEF BuiltInv, Stays, Passes, history
<1>14. CASE DriveFails
  BY <1>14, <1>a, <1>b, <1>c, <1>d, <1>e, <1>f, <1>g, DriveFailsDoes
  DEF BuiltInv, Stays, Passes, history
<1>15. CASE HostDies
  <2>1. /\ driver.pc \notin {"off", "end"} /\ driver'.pc = "off" /\ page' = page /\ task' = task
        /\ stale' = stale /\ halfBuilt' = (halfBuilt \/ (AtBuilder /\ task["builder"].status = "done"))
    BY <1>15, HostDiesDoes, IdleIs
  <2>2. ASSUME ~AtBuilder, task["builder"].status = "done"
        PROVE  Behind("builder") \/ "builder" \in driver.skip
    <3>1. PICK b \in DOMAIN Driven : Driven[b] = "builder"
      BY DrivenAre
    <3>2. b \in 1..Len(Driven)
      BY <3>1, DrivenAre
    <3>3. CASE b < driver.lane
      BY <3>1, <3>3 DEF Behind
    <3>4. CASE b = driver.lane
      BY <1>d, <2>2, <3>1, <3>2, <3>4 DEF AtBuilder
    <3>5. CASE b > driver.lane
      BY <1>b, <2>1, <2>2, <3>1, <3>5 DEF AheadInv
    <3>6. QED
      BY <1>d, <3>2, <3>3, <3>4, <3>5
  <2>3. QED
    BY <1>a, <1>b, <1>g, <2>1, <2>2 DEF BuiltInv
<1>16. CASE UNCHANGED pipelineVars
  BY <1>16, <1>a, <1>b, <1>c, <1>d, <1>e, <1>f, <1>g DEF BuiltInv, pipelineVars, board4, history
<1>17. QED
  BY <1>1, <1>2, <1>3, <1>4, <1>5, <1>6, <1>7, <1>8, <1>9, <1>10, <1>11, <1>12, <1>13, <1>14,
     <1>15, <1>16, Steps

LEMMA PageKept ==
    ASSUME PipelineTypeOK, WhereInv, RowsInv, PageInv, [PipelineNext]_pipelineVars
    PROVE  PageInv'
BY SeenKept, LinkedKept, BuiltKept DEF PageInv

------------------------------------------------------------------------------
(* The report in hand, and the notes on the board. *)

LEMMA VerdictSame ==
    ASSUME webGoal' = webGoal, page' = page,
           \A r \in {"planner", "architect", "tdd", "reviewer"} : docs'[r] = docs[r]
    PROVE  Verdict' = Verdict
BY DEF Verdict, RequiredArtifacts

LEMMA DocSet ==
    ASSUME PipelineTypeOK, NEW t \in Tasks, NEW d, docs' = [docs EXCEPT ![t] = d]
    PROVE  \A u \in Tasks : u # t => docs'[u] = docs[u]
BY DEF PipelineTypeOK

LEMMA EvidenceKept ==
    ASSUME PipelineTypeOK, WhereInv, EvidenceInv, [PipelineNext]_pipelineVars
    PROVE  EvidenceInv'
<1>a. board' = board /\ web' = web /\ webGoal' = webGoal /\ Driven' = Driven
  BY BoardSame
<1>b. AtInv /\ (board = "project" => Driven = Lanes)
  BY DrivenAre DEF WhereInv
<1>c. driver'.lane = driver.lane => (Behind("reviewer")' <=> Behind("reviewer"))
  BY <1>a DEF Behind
<1>d. driver.lane \in 1..(Len(Driven) + 1) /\ Role = Driven[driver.lane]
  BY <1>b DEF AtInv, Role
<1>e. driver'.lane = driver.lane + 1 /\ Behind("reviewer")' /\ driver.lane <= Len(Driven) =>
          Behind("reviewer") \/ Role = "reviewer"
  BY <1>a, <1>d, DrivenAre DEF Behind
<1>f. page' = page /\ docs' = docs => Verdict' = Verdict
  BY <1>a, VerdictSame
<1>1. CASE Begin
  <2>1. driver'.lane = 1 /\ driver'.pc = "lane"
    BY <1>1, BeginDoes
  <2>2. ~Behind("reviewer")'
    BY <1>a, <2>1, DrivenAre DEF Behind
  <2>3. QED
    BY <2>1, <2>2 DEF EvidenceInv, Asking
<1>2. CASE SkipLane
  BY <1>2, <1>a, <1>b, <1>c, <1>d, <1>e, <1>f, SkipLaneDoes
  DEF EvidenceInv, Laned, Asking, Stays, Passes, AtLane
<1>3. CASE EnterLane
  BY <1>3, <1>a, <1>b, <1>c, <1>d, <1>e, <1>f, EnterLaneDoes
  DEF EvidenceInv, Laned, Asking, Stays, Passes, Books, AtLane
<1>4. CASE EnterBuilder
  BY <1>4, <1>a, <1>b, <1>c, <1>d, <1>e, <1>f, EnterBuilderDoes
  DEF EvidenceInv, Laned, Asking, Stays, Passes, Books
<1>5. CASE Claim
  BY <1>5, <1>a, <1>b, <1>c, <1>d, <1>e, <1>f, ClaimDoes
  DEF EvidenceInv, Laned, Asking, Stays, Passes
<1>6. CASE CallWithRetries
  BY <1>6, <1>a, <1>b, <1>c, <1>d, <1>e, <1>f, CallWithRetriesDoes
  DEF EvidenceInv, Laned, Asking, Stays, Passes, Books
<1>7. CASE PostFails
  BY <1>7, <1>a, <1>b, <1>c, <1>d, <1>e, <1>f, PostFailsDoes
  DEF EvidenceInv, Laned, Asking, Stays, Passes, GivenUp
<1>8. CASE Complete
  <2>1. /\ driver.pc = "post" /\ driver'.pc = "completed" /\ driver'.call = driver.call
        /\ driver'.lane = driver.lane /\ evidence' = evidence
        /\ driver.call \notin {"build", "rebuild"} => page' = page
        /\ docs' = docs \/ \E d \in Documents(Task) : docs' = [docs EXCEPT ![Task] = d]
    BY <1>8, CompleteDoes DEF Stays
  <2>2. SUFFICES ASSUME board = "project", Laned, driver.call \in {"lane", "custom"},
                        Behind("reviewer") \/ driver.call = "custom"
                 PROVE  evidence' = Verdict'
    BY <1>a, <1>c, <2>1 DEF EvidenceInv, Laned, Asking
  <2>3. evidence = Verdict /\ page' = page
    BY <2>1, <2>2 DEF EvidenceInv, Asking
  <2>4. /\ Task \in Tasks /\ driver.lane \in DOMAIN Driven
        /\ Task = IF driver.call = "custom" THEN "custom" ELSE Role
    BY <2>1, TaskIs DEF Asking
  <2>5. Task \notin {"planner", "architect", "tdd", "reviewer"}
    <3>1. CASE driver.call = "custom"
      BY <2>4, <3>1
    <3>2. CASE driver.call # "custom"
      <4>1. PICK i \in DOMAIN Driven : i < driver.lane /\ Driven[i] = "reviewer"
        BY <2>2, <3>2 DEF Behind
      <4>2. Driven = Lanes
        BY <1>b, <2>2
      <4>3. QED
        BY <1>d, <2>4, <3>2, <4>1, <4>2, LanesInOrder
    <3>3. QED
      BY <3>1, <3>2
  <2>6. \A r \in {"planner", "architect", "tdd", "reviewer"} : r \in Tasks
    BY RolesAre, TasksAre
  <2>7. \A r \in {"planner", "architect", "tdd", "reviewer"} : docs'[r] = docs[r]
    BY <2>1, <2>4, <2>5, <2>6, DocSet
  <2>8. QED
    BY <1>a, <2>1, <2>3, <2>7, VerdictSame
<1>9. CASE AfterLane
  <2>1. /\ driver.pc = "completed" /\ driver.call = "lane" /\ UNCHANGED <<page, docs>>
        /\ driver.lane <= Len(Driven)
        /\ evidence' = IF board = "project" /\ Role = "reviewer" THEN Verdict ELSE evidence
    BY <1>9, <1>b, AfterLaneDoes DEF AtInv, Asking
  <2>2. CASE Role = "reviewer"
    BY <1>a, <1>f, <2>1, <2>2 DEF EvidenceInv
  <2>3. CASE Role # "reviewer"
    <3>1. driver'.pc = "lane" /\ driver'.lane = driver.lane + 1
      BY <1>9, <2>3, AfterLaneDoes
    <3>2. QED
      BY <1>a, <1>e, <1>f, <2>1, <2>3, <3>1 DEF EvidenceInv, Laned, Asking
  <2>4. QED
    BY <2>2, <2>3
<1>10. CASE AfterCustom
  <2>1. /\ driver.pc = "completed" /\ driver.call = "custom" /\ UNCHANGED <<page, docs, evidence>>
    BY <1>10, AfterCustomDoes DEF Books
  <2>2. QED
    BY <1>a, <1>f, <2>1 DEF EvidenceInv, Laned, Asking
<1>11. CASE Works
  <2>1. ~Laned'
    BY <1>11 DEF Works, Laned, Finishing, Asking, Patches
  <2>2. QED
    BY <2>1 DEF EvidenceInv
<1>12. CASE AfterBuilder
  <2>1. UNCHANGED <<page, docs>> /\ (board = "project" => evidence' = Verdict)
    BY <1>12, AfterBuilderDoes
  <2>2. QED
    BY <1>a, <1>f, <2>1 DEF EvidenceInv
<1>13. CASE Converge
  BY <1>13, <1>a, <1>b, <1>c, <1>d, <1>e, <1>f, ConvergeDoes
  DEF EvidenceInv, Laned, Asking, Stays, Passes
<1>14. CASE DriveFails
  BY <1>14, <1>a, <1>b, <1>c, <1>d, <1>e, <1>f, DriveFailsDoes
  DEF EvidenceInv, Laned, Asking, Stays, Passes
<1>15. CASE HostDies
  BY <1>15, <1>a, <1>b, <1>c, <1>d, <1>e, <1>f, HostDiesDoes, IdleIs
  DEF EvidenceInv, Laned, Asking, Stays, Passes
<1>16. CASE UNCHANGED pipelineVars
  BY <1>16, <1>a, <1>b, <1>c, <1>d, <1>e, <1>f
  DEF EvidenceInv, Laned, pipelineVars, board4, history
<1>17. QED
  BY <1>1, <1>2, <1>3, <1>4, <1>5, <1>6, <1>7, <1>8, <1>9, <1>10, <1>11, <1>12, <1>13, <1>14,
     <1>15, <1>16, Steps

LEMMA DocNotesKept ==
    ASSUME PipelineTypeOK, WhereInv, RowsInv, FirstInv, NotesInv, [PipelineNext]_pipelineVars
    PROVE  DocNotesInv'
<1>a. board' = board /\ Driven' = Driven /\ deaths \in Nat
  BY BoardSame, DeathsAre
<1>b. /\ AtInv /\ DocNotesInv
      /\ board = "project" => Driven = Lanes
  BY DrivenAre DEF WhereInv, NotesInv
<1>c. driver.lane \in 1..(Len(Driven) + 1) /\ Role = Driven[driver.lane]
  BY <1>b DEF AtInv, Role
<1>d. /\ \A i \in DOMAIN Lanes : i \in Int /\ Lanes[i] \in Roles /\ Lanes[i] # "custom"
      /\ \A i, j \in DOMAIN Lanes : Lanes[i] = Lanes[j] => i = j
  BY Parameters, LanesInOrder, TasksAre
<1>1. CASE Begin
  <2>1. /\ driver.pc = "off" /\ driver'.lane = 1 /\ driver'.pc = "lane" /\ UNCHANGED <<notes, deaths>>
    BY <1>1, BeginDoes
  <2>2. deaths = 0 => notes = {}
    BY <2>1 DEF FirstInv
  <2>3. \A i \in DOMAIN Lanes : ~(i < 1)
    BY Parameters
  <2>4. QED
    BY <2>1, <2>2, <2>3 DEF DocNotesInv, NotedLane, Asking
<1>2. CASE SkipLane
  <2>1. deaths # 0 /\ deaths' = deaths
    BY <1>2, SkipLaneDoes DEF FirstInv
  <2>2. QED
    BY <2>1 DEF DocNotesInv
<1>3. CASE EnterLane
  BY <1>3, <1>a, <1>b, <1>c, <1>d, EnterLaneDoes
  DEF DocNotesInv, NotedLane, Asking, Stays, Books, AtLane
<1>4. CASE EnterBuilder
  BY <1>4, <1>a, <1>b, <1>c, <1>d, EnterBuilderDoes
  DEF DocNotesInv, NotedLane, Asking, Stays, Books, AtLane
<1>5. CASE Claim
  BY <1>5, <1>a, <1>b, <1>c, <1>d, ClaimDoes DEF DocNotesInv, NotedLane, Asking, Stays
<1>6. CASE CallWithRetries
  BY <1>6, <1>a, <1>b, <1>c, <1>d, CallWithRetriesDoes
  DEF DocNotesInv, NotedLane, Asking, Stays, Books
<1>7. CASE PostFails
  <2>1. CASE driver.call = "custom"
    <3>1. /\ driver.pc \in Asking /\ driver'.pc = "lane" /\ driver'.lane = driver.lane + 1
          /\ UNCHANGED <<docs, deaths>> /\ notes' = notes \cup {"custom"}
      BY <1>7, <2>1, PostFailsDoes DEF Asking, GivenUp
    <3>2. QED
      BY <1>a, <1>b, <1>c, <1>d, <2>1, <3>1 DEF DocNotesInv, NotedLane, Asking
  <2>2. CASE driver.call # "custom"
    <3>1. driver'.call # "custom" /\ driver'.lane = driver.lane /\ UNCHANGED <<docs, deaths, notes>>
      BY <1>7, <2>2, PostFailsDoes
    <3>2. QED
      BY <1>a, <1>b, <2>2, <3>1 DEF DocNotesInv, NotedLane
  <2>3. QED
    BY <2>1, <2>2
<1>8. CASE Complete
  <2>1. /\ driver.pc = "post" /\ driver'.pc = "completed" /\ driver'.call = driver.call
        /\ driver'.lane = driver.lane /\ UNCHANGED <<notes, deaths>>
        /\ docs' = docs \/ \E d \in Documents(Task) : docs' = [docs EXCEPT ![Task] = d]
    BY <1>8, CompleteDoes DEF Stays
  <2>2. /\ Task \in Tasks /\ driver.lane \in DOMAIN Driven
        /\ Task = IF driver.call = "custom" THEN "custom" ELSE Role
    BY <2>1, TaskIs DEF Asking
  <2>3. \A u \in Tasks : u # Task => docs'[u] = docs[u]
    BY <2>1, <2>2, DocSet
  <2>4. SUFFICES ASSUME deaths = 0, board = "project", NEW i \in DOMAIN Lanes, Lanes[i] \in Validated
                 PROVE  Lanes[i] \in notes <=> NotedLane(i) /\ docs'[Lanes[i]] \notin {"good", "aside"}
    BY <1>a, <2>1 DEF DocNotesInv, NotedLane, Asking
  <2>5. Driven = Lanes /\ (Lanes[i] \in notes <=> NotedLane(i) /\ docs[Lanes[i]] \notin {"good", "aside"})
    BY <1>b, <2>4 DEF DocNotesInv
  <2>6. Lanes[i] \in Tasks
    BY <1>d, TasksAre
  <2>7. CASE Lanes[i] # Task
    BY <2>3, <2>5, <2>6, <2>7
  <2>8. CASE Lanes[i] = Task
    <3>1. driver.call # "custom" /\ i = driver.lane
      BY <1>c, <1>d, <2>2, <2>5, <2>8
    <3>2. ~NotedLane(i)
      BY <1>d, <3>1 DEF NotedLane
    <3>3. QED
      BY <2>5, <3>2
  <2>9. QED
    BY <2>7, <2>8
<1>9. CASE AfterLane
  <2>1. /\ driver.pc = "completed" /\ driver.call = "lane" /\ UNCHANGED <<docs, deaths>>
        /\ notes' = RecordValidationNote(Role)
        /\ \/ driver'.pc = "lane" /\ driver'.lane = driver.lane + 1
           \/ driver'.pc = "claim" /\ driver'.call = "custom" /\ driver'.lane = driver.lane
    BY <1>9, AfterLaneDoes
  <2>2. \A i \in DOMAIN Lanes : NotedLane(i)' <=> i < driver.lane \/ i = driver.lane
    BY <1>c, <1>d, <2>1 DEF NotedLane, Asking
  <2>3. driver.lane \in DOMAIN Driven
    BY <2>1, TaskIs DEF Asking
  <2>4. SUFFICES ASSUME deaths = 0, board = "project", NEW i \in DOMAIN Lanes, Lanes[i] \in Validated
                 PROVE  Lanes[i] \in notes' <=> NotedLane(i)' /\ docs[Lanes[i]] \notin {"good", "aside"}
    BY <1>a, <2>1 DEF DocNotesInv
  <2>5. Driven = Lanes /\ (Lanes[i] \in notes <=> NotedLane(i) /\ docs[Lanes[i]] \notin {"good", "aside"})
    BY <1>b, <2>4 DEF DocNotesInv
  <2>6. ~(i < i) /\ (NotedLane(i) <=> i < driver.lane)
    BY <1>d, <2>1 DEF NotedLane
  <2>7. CASE i = driver.lane
    <3>1. Lanes[i] = Role
      BY <1>c, <2>5, <2>7
    <3>2. QED
      BY <2>1, <2>2, <2>4, <2>5, <2>6, <2>7, <3>1 DEF RecordValidationNote, ExecutableDoc
  <2>8. CASE i # driver.lane
    <3>1. Lanes[i] # Role
      BY <1>c, <1>d, <2>3, <2>5, <2>8
    <3>2. QED
      BY <2>1, <2>2, <2>4, <2>5, <2>6, <2>8, <3>1 DEF RecordValidationNote, ExecutableDoc
  <2>9. QED
    BY <2>7, <2>8
<1>10. CASE AfterCustom
  <2>1. /\ driver.pc \in Asking /\ driver.call = "custom" /\ driver'.pc = "lane"
        /\ driver'.lane = driver.lane + 1 /\ UNCHANGED <<docs, deaths>>
        /\ notes' = notes \/ notes' = notes \cup {"custom"}
    BY <1>10, AfterCustomDoes DEF Passes, Books, Asking
  <2>2. QED
    BY <1>a, <1>b, <1>c, <1>d, <2>1 DEF DocNotesInv, NotedLane, Asking
<1>11. CASE Works
  <2>1. /\ driver'.lane = driver.lane /\ UNCHANGED <<docs, deaths, notes>>
        /\ ~(driver.pc \in Asking /\ driver.call = "custom")
        /\ ~(driver'.pc \in Asking /\ driver'.call = "custom")
    BY <1>11 DEF Works, Stays, Finishing, Asking, Patches
  <2>2. QED
    BY <1>a, <1>b, <2>1 DEF DocNotesInv, NotedLane
<1>12. CASE AfterBuilder
  <2>1. /\ driver.pc = "noting" /\ driver'.pc = "lane" /\ driver'.lane = driver.lane + 1
        /\ UNCHANGED <<docs, deaths>> /\ (notes' = notes \/ notes' = notes \cup {"builder"})
    BY <1>12, AfterBuilderDoes DEF Passes
  <2>2. Role = "builder" /\ "builder" \notin Validated
    BY <1>b, <2>1 DEF AtInv, AtBuilder, Validated
  <2>3. ASSUME board = "project", NEW i \in DOMAIN Lanes, Lanes[i] \in Validated
        PROVE  /\ Lanes[i] \in notes' <=> Lanes[i] \in notes
               /\ NotedLane(i)' <=> NotedLane(i)
    <3>1. i # driver.lane
      BY <1>b, <1>c, <2>2, <2>3
    <3>2. NotedLane(i)' <=> NotedLane(i)
      BY <1>c, <1>d, <2>1, <3>1 DEF NotedLane, Asking
    <3>3. QED
      BY <2>1, <2>2, <2>3, <3>2
  <2>4. QED
    BY <1>a, <1>b, <2>1, <2>3 DEF DocNotesInv
<1>13. CASE Converge
  BY <1>13, <1>a, <1>b, <1>c, <1>d, ConvergeDoes DEF DocNotesInv, NotedLane, Asking, Stays
<1>14. CASE DriveFails
  BY <1>14, <1>a, <1>b, <1>c, <1>d, DriveFailsDoes DEF DocNotesInv, NotedLane, Asking, Stays
<1>15. CASE HostDies
  <2>1. deaths' # 0
    BY <1>15, <1>a, HostDiesDoes
  <2>2. QED
    BY <2>1 DEF DocNotesInv
<1>16. CASE UNCHANGED pipelineVars
  BY <1>16, <1>a, <1>b, <1>c, <1>d DEF DocNotesInv, NotedLane, pipelineVars, board4, history
<1>17. QED
  BY <1>1, <1>2, <1>3, <1>4, <1>5, <1>6, <1>7, <1>8, <1>9, <1>10, <1>11, <1>12, <1>13, <1>14,
     <1>15, <1>16, Steps

LEMMA PageNotesKept ==
    ASSUME PipelineTypeOK, WhereInv, RowsInv, FirstInv, NotesInv, [PipelineNext]_pipelineVars
    PROVE  PageNotesInv'
<1>a. board' = board /\ web' = web /\ Driven' = Driven /\ deaths \in Nat
  BY BoardSame, DeathsAre
<1>b. AtInv /\ PageNotesInv
  BY DEF WhereInv, NotesInv
<1>c. driver'.lane = driver.lane => (Behind("builder")' <=> Behind("builder"))
  BY <1>a DEF Behind
<1>d. driver.lane \in 1..(Len(Driven) + 1) /\ Role = Driven[driver.lane]
  BY <1>b DEF AtInv, Role
<1>e. driver'.lane = driver.lane + 1 /\ driver.lane <= Len(Driven) =>
          (Behind("builder")' <=> Behind("builder") \/ Role = "builder")
  BY <1>a, <1>d, DrivenAre DEF Behind
<1>f. page' = page => BuilderExecutableIssues(page') = BuilderExecutableIssues(page)
  OBVIOUS
<1>1. CASE Begin
  <2>1. /\ driver.pc = "off" /\ driver'.lane = 1 /\ UNCHANGED <<notes, deaths>>
    BY <1>1, BeginDoes
  <2>2. deaths = 0 => notes = {}
    BY <2>1 DEF FirstInv
  <2>3. ~Behind("builder")'
    BY <1>a, <2>1, DrivenAre DEF Behind
  <2>4. QED
    BY <2>1, <2>2, <2>3 DEF PageNotesInv
<1>2. CASE SkipLane
  <2>1. deaths # 0 /\ deaths' = deaths
    BY <1>2, SkipLaneDoes DEF FirstInv
  <2>2. QED
    BY <2>1 DEF PageNotesInv
<1>3. CASE EnterLane
  BY <1>3, <1>a, <1>b, <1>c, <1>d, <1>e, <1>f, EnterLaneDoes DEF PageNotesInv, Stays, Books
<1>4. CASE EnterBuilder
  BY <1>4, <1>a, <1>b, <1>c, <1>d, <1>e, <1>f, EnterBuilderDoes DEF PageNotesInv, Stays, Books
<1>5. CASE Claim
  BY <1>5, <1>a, <1>b, <1>c, <1>d, <1>e, <1>f, ClaimDoes DEF PageNotesInv, Stays
<1>6. CASE CallWithRetries
  BY <1>6, <1>a, <1>b, <1>c, <1>d, <1>e, <1>f, CallWithRetriesDoes
  DEF PageNotesInv, Stays, Books
<1>7. CASE PostFails
  BY <1>7, <1>a, <1>b, <1>c, <1>d, <1>e, <1>f, PostFailsDoes
  DEF PageNotesInv, Stays, AtInv, Asking
<1>8. CASE Complete
  <2>1. driver'.lane = driver.lane /\ UNCHANGED <<notes, deaths>>
    BY <1>8, CompleteDoes DEF Stays
  <2>2. CASE page' = page
    BY <1>a, <1>b, <1>c, <1>f, <2>1, <2>2 DEF PageNotesInv
  <2>3. CASE page' # page
    <3>1. Role = "builder" /\ driver.lane <= Len(Driven)
      BY <1>8, <1>b, <2>3, CompleteDoes DEF AtInv, Asking
    <3>2. ~Behind("builder")
      BY <1>b, <3>1, NotBehindItself
    <3>3. QED
      BY <1>a, <1>b, <1>c, <2>1, <3>2 DEF PageNotesInv
  <2>4. QED
    BY <2>2, <2>3
<1>9. CASE AfterLane
  BY <1>9, <1>a, <1>b, <1>c, <1>d, <1>e, <1>f, AfterLaneDoes
  DEF PageNotesInv, Stays, AtInv, Asking, RecordValidationNote
<1>10. CASE AfterCustom
  BY <1>10, <1>a, <1>b, <1>c, <1>d, <1>e, <1>f, AfterCustomDoes
  DEF PageNotesInv, Stays, Books, AtInv, Asking, Passes
<1>11. CASE Works
  <2>1. /\ driver'.lane = driver.lane /\ UNCHANGED <<deaths, notes>>
        /\ Role = "builder" /\ driver.lane <= Len(Driven)
    BY <1>11, <1>b DEF Works, Stays, Finishing, Asking, AtInv, AtBuilder
  <2>2. ~Behind("builder")
    BY <1>b, <2>1, NotBehindItself
  <2>3. QED
    BY <1>a, <1>b, <1>c, <2>1, <2>2 DEF PageNotesInv
<1>12. CASE AfterBuilder
  <2>1. Role = "builder" /\ driver.lane <= Len(Driven)
    BY <1>12, <1>b, AfterBuilderDoes DEF AtInv, AtBuilder
  <2>2. ~Behind("builder") /\ Behind("builder")'
    BY <1>12, <1>b, <1>e, <2>1, AfterBuilderDoes, NotBehindItself DEF Passes
  <2>3. QED
    BY <1>12, <1>a, <1>b, <1>f, <2>2, AfterBuilderDoes DEF PageNotesInv
<1>13. CASE Converge
  BY <1>13, <1>a, <1>b, <1>c, <1>d, <1>e, <1>f, ConvergeDoes DEF PageNotesInv, Stays
<1>14. CASE DriveFails
  BY <1>14, <1>a, <1>b, <1>c, <1>d, <1>e, <1>f, DriveFailsDoes DEF PageNotesInv, Stays
<1>15. CASE HostDies
  <2>1. deaths' # 0
    BY <1>15, <1>a, HostDiesDoes
  <2>2. QED
    BY <2>1 DEF PageNotesInv
<1>16. CASE UNCHANGED pipelineVars
  BY <1>16, <1>a, <1>b, <1>c, <1>d, <1>e, <1>f DEF PageNotesInv, pipelineVars, board4, history
<1>17. QED
  BY <1>1, <1>2, <1>3, <1>4, <1>5, <1>6, <1>7, <1>8, <1>9, <1>10, <1>11, <1>12, <1>13, <1>14,
     <1>15, <1>16, Steps

LEMMA NotesKept ==
    ASSUME PipelineTypeOK, WhereInv, RowsInv, FirstInv, NotesInv, [PipelineNext]_pipelineVars
    PROVE  NotesInv'
BY DocNotesKept, PageNotesKept, SMTT(30) DEF NotesInv

------------------------------------------------------------------------------
(* The invariant, and what it gives. *)

LEMMA NotEnded == PipelineNext => driver.pc # "end"
BY DEF PipelineNext, Begin, SkipLane, EnterLane, EnterBuilder, Claim, AtLane,
  CallWithRetries, PostFails, Complete, AfterLane, AfterCustom, AfterBuild, Rebuild,
  AppendMissingTail, AfterTail, AppendMissingContent, ReconcilePlan, AfterFill, PlanNavPatch,
  AnchorPatch, AfterNav, DeviceMetaPatch, AfterBuilder, Converge, DriveFails, HostDies

LEMMA OutcomeSame ==
    ASSUME PipelineTypeOK, WhereInv, PipelineNext, ~Converge
    PROVE  outcome' = outcome \/ outcome' = <<"error", "">>
<1>1. CASE Begin
  BY <1>1, BeginDoes DEF Books
<1>2. CASE SkipLane
  BY <1>2, SkipLaneDoes DEF Books
<1>3. CASE EnterLane
  BY <1>3, EnterLaneDoes DEF Books
<1>4. CASE EnterBuilder
  BY <1>4, EnterBuilderDoes DEF Books
<1>5. CASE Claim
  BY <1>5, ClaimDoes DEF Books
<1>6. CASE CallWithRetries
  BY <1>6, CallWithRetriesDoes DEF Books
<1>7. CASE PostFails
  BY <1>7, PostFailsDoes DEF Books
<1>8. CASE Complete
  BY <1>8, CompleteDoes DEF Books
<1>9. CASE AfterLane
  BY <1>9, AfterLaneDoes DEF Books
<1>10. CASE AfterCustom
  BY <1>10, AfterCustomDoes DEF Books
<1>11. CASE Works
  BY <1>11 DEF Books, Works
<1>12. CASE AfterBuilder
  BY <1>12, AfterBuilderDoes DEF Books
<1>13. CASE DriveFails
  BY <1>13, DriveFailsDoes DEF Books
<1>14. CASE HostDies
  BY <1>14, HostDiesDoes DEF Books
<1>15. CASE UNCHANGED pipelineVars
  BY <1>15 DEF pipelineVars
<1>16. QED
  BY <1>1, <1>2, <1>3, <1>4, <1>5, <1>6, <1>7, <1>8, <1>9, <1>10, <1>11, <1>12, <1>13, <1>14,
     <1>15, Steps

LEMMA PassedAll ==
    ASSUME PipelineTypeOK, WhereInv, driver.lane = Len(Driven) + 1
    PROVE  /\ \A i \in DOMAIN Driven : i < driver.lane
           /\ Behind("builder")
           /\ board = "project" => Behind("reviewer")
<1>1. \A i \in DOMAIN Driven : i < driver.lane
  BY DrivenAre
<1>2. Behind("builder")
  BY <1>1, DrivenAre DEF Behind
<1>3. board = "project" => Behind("reviewer")
  BY <1>1, DrivenAre, LanesInOrder DEF Behind
<1>4. QED
  BY <1>1, <1>2, <1>3

LEMMA ReportKept ==
    ASSUME PipelineTypeOK, WhereInv, EvidenceInv, EvidenceIsOfTheDelivery,
           [PipelineNext]_pipelineVars
    PROVE  EvidenceIsOfTheDelivery'
<1>1. CASE Converge
  <2>1. /\ driver.pc = "lane" /\ driver.lane > Len(Driven) /\ page' = page /\ docs' = docs
        /\ outcome' = IF board = "demo" THEN <<"demo", "">> ELSE <<"ok", ReasonOf(evidence)>>
    BY <1>1, ConvergeDoes
  <2>2. Verdict' = Verdict
    BY <2>1, BoardSame, VerdictSame
  <2>3. CASE board = "demo"
    <3>1. outcome' = <<"demo", "">> /\ <<"demo", "">>[1] = "demo"
      BY <2>1, <2>3
    <3>2. outcome'[1] # "ok"
      BY <3>1
    <3>3. QED
      BY <3>2 DEF EvidenceIsOfTheDelivery, Converged
  <2>4. CASE board # "demo"
    <3>1. board = "project" /\ driver.lane \in 1..(Len(Driven) + 1)
      BY <2>4 DEF PipelineTypeOK, WhereInv, AtInv
    <3>2. driver.lane = Len(Driven) + 1
      BY <2>1, <3>1, DrivenAre
    <3>3. evidence = Verdict
      BY <2>1, <3>1, <3>2, PassedAll DEF EvidenceInv, Laned
    <3>4. outcome' = <<"ok", ReasonOf(evidence)>>
      BY <2>1, <2>4
    <3>5. outcome'[2] = ReasonOf(evidence)
      BY <3>4
    <3>6. ReasonOf(Verdict)' = ReasonOf(Verdict)
      BY <2>2 DEF ReasonOf, NoEvidence
    <3>7. QED
      BY <3>3, <3>5, <3>6 DEF EvidenceIsOfTheDelivery
  <2>5. QED
    BY <2>3, <2>4
<1>2. CASE PipelineNext /\ ~Converge
  <2>1. outcome[1] # "ok"
    <3>1. outcome = Unsettled
      BY <1>2, NotEnded DEF WhereInv, SettledInv
    <3>2. QED
      BY <3>1 DEF Unsettled
  <2>2. outcome' = outcome \/ outcome' = <<"error", "">>
    BY <1>2, OutcomeSame
  <2>3. <<"error", "">>[1] = "error"
    OBVIOUS
  <2>4. outcome'[1] # "ok"
    BY <2>1, <2>2, <2>3
  <2>5. QED
    BY <2>4 DEF EvidenceIsOfTheDelivery, Converged
<1>3. CASE UNCHANGED pipelineVars
  <2>1. outcome' = outcome /\ page' = page /\ docs' = docs
    BY <1>3 DEF pipelineVars
  <2>2. Verdict' = Verdict
    BY <2>1, BoardSame, VerdictSame
  <2>3. QED
    BY <2>1, <2>2 DEF EvidenceIsOfTheDelivery, Converged, ReasonOf, NoEvidence
<1>4. QED
  BY <1>1, <1>2, <1>3

LEMMA InvKept ==
    ASSUME PipelineInv, [PipelineNext]_pipelineVars
    PROVE  PipelineInv'
BY TypesKept, WhereKept, RowsKept, ErrorKept, FirstKept, CallsKept, PageKept, EvidenceKept,
   NotesKept, ReportKept
DEF PipelineInv

LEMMA InvInit ==
    ASSUME PipelineInit
    PROVE  PipelineInv
<1>1. PICK custom \in BOOLEAN :
          task = [t \in Tasks |->
              [status |-> IF t \in ToSet(Driven) \/ (t = "custom" /\ custom /\ board = "project")
                          THEN "todo" ELSE "absent", error |-> FALSE]]
  BY DEF PipelineInit
<1>2. /\ task \in [Tasks -> Status]
      /\ \A t \in Tasks : task[t].status # "done" /\ ~task[t].error
  BY <1>1 DEF Status
<1>3. Blank \in Page
  BY DEF Blank, Page, Defects, Structure
<1>4. /\ driver = Idle /\ outcome = Unsettled /\ deaths = 0 /\ notes = {} /\ page = Blank
      /\ seen = Blank /\ ~stale /\ ~halfBuilt /\ ~swallowed /\ docs = [t \in Tasks |-> "none"]
      /\ gate = NoEvidence /\ evidence = NoEvidence
      /\ board \in {"project", "demo"} /\ web \in BOOLEAN /\ webGoal \in BOOLEAN /\ promised \subseteq Sections
  BY DEF PipelineInit
<1>5. Unsettled[1] = "none" /\ Unsettled \in {"none", "ok", "error", "demo"} \X (Verdicts \cup {""})
  BY DEF Unsettled
<1>6. Shelves
  <2>1. deaths \in 0..MaxDeaths
    BY <1>4, Parameters
  <2>2. QED
    BY <1>2, <1>3, <1>4, <1>5, <2>1 DEF Shelves, Drafted, PipelineInit
<1>7. driver \in Driver /\ driver.posts <= Retries
  BY <1>4, IdleIs, Parameters
<1>8. PipelineTypeOK
  BY <1>4, <1>6, <1>7, ShelvesTyped
<1>9. WhereInv
  <2>1. AtInv
    <3>1. 1 \in 1..(Len(Driven) + 1)
      BY DrivenAre
    <3>2. QED
      BY <1>4, <3>1, IdleIs DEF AtInv, Finishing, Asking
  <2>2. SettledInv
    BY <1>4, <1>5, IdleIs DEF SettledInv
  <2>3. QED
    BY <2>1, <2>2 DEF WhereInv
<1>10. RowsInv
  <2>1. \A i \in DOMAIN Lanes : Lanes[i] \in Tasks
    BY Parameters, TasksAre
  <2>2. ~Behind("builder") /\ \A i \in DOMAIN Driven : ~(i < driver.lane)
    BY <1>4, IdleIs, DrivenAre DEF Behind
  <2>3. QED
    BY <1>2, <1>4, <2>1, IdleIs
       DEF RowsInv, SkippedInv, AheadInv, BehindInv, RestedInv, Finishing, Asking
<1>11. ErrorInv /\ FirstInv
  BY <1>2, <1>4, IdleIs DEF ErrorInv, FirstInv
<1>12. CallsInv
  BY <1>4, IdleIs, Parameters DEF CallsInv, FreshInv, StageInv, Stage, Asking, CallsBounded,
     RebuildRounds, FillRounds
<1>13. PageInv
  <2>1. "builder" \in Tasks
    BY RolesAre, TasksAre
  <2>2. QED
    BY <1>2, <1>4, <2>1, IdleIs
       DEF PageInv, SeenInv, Seen, LinkedInv, BuiltInv, Asking, Finishing
<1>14. EvidenceInv
  BY <1>4, IdleIs DEF EvidenceInv, Laned, Asking
<1>15. NotesInv
  <2>1. ~Behind("builder") /\ \A i \in DOMAIN Lanes : ~(i < 1)
    BY <1>4, IdleIs, DrivenAre, Parameters DEF Behind
  <2>2. QED
    BY <1>4, <2>1, IdleIs DEF NotesInv, DocNotesInv, PageNotesInv, NotedLane, Asking
<1>16. EvidenceIsOfTheDelivery
  BY <1>4, <1>5 DEF EvidenceIsOfTheDelivery, Converged
<1>17. QED
  BY <1>8, <1>9, <1>10, <1>11, <1>12, <1>13, <1>14, <1>15, <1>16 DEF PipelineInv

LEMMA InvGives ==
    ASSUME PipelineInv
    PROVE  DeliveryIsAsReported
<1>1. /\ PipelineTypeOK /\ WhereInv /\ AtInv /\ SettledInv /\ BehindInv /\ ErrorInv /\ BuiltInv
      /\ DocNotesInv /\ PageNotesInv /\ EvidenceIsOfTheDelivery /\ CallsBounded
  BY DEF PipelineInv, WhereInv, RowsInv, PageInv, NotesInv, CallsInv, StageInv
<1>2. CompletePageIsFinished
  <2>1. SUFFICES ASSUME driver.pc = "end", outcome[1] \in {"ok", "demo"}, web, ~stale, ~halfBuilt
                 PROVE  FinishedPage
    BY DEF CompletePageIsFinished, FinishedPage
  <2>2. Behind("builder")
    BY <1>1, <2>1, PassedAll DEF SettledInv
  <2>3. QED
    BY <1>1, <2>1, <2>2 DEF BuiltInv
<1>3. Converged => /\ board = "project" /\ Driven = Lanes /\ driver.pc = "end"
                   /\ \A i \in DOMAIN Driven : i < driver.lane
                   /\ Behind("builder")
  <2>1. SUFFICES ASSUME outcome[1] = "ok"
                 PROVE  /\ board = "project" /\ Driven = Lanes /\ driver.pc = "end"
                        /\ \A i \in DOMAIN Driven : i < driver.lane
                        /\ Behind("builder")
    BY DEF Converged
  <2>2. outcome # Unsettled
    <3>1. Unsettled[1] = "none"
      BY DEF Unsettled
    <3>2. QED
      BY <2>1, <3>1
  <2>3. board = "project" /\ driver.pc = "end" /\ driver.lane = Len(Driven) + 1
    BY <1>1, <2>1, <2>2 DEF SettledInv
  <2>4. QED
    BY <1>1, <2>3, PassedAll, DrivenAre
<1>4. ConvergedBoardIsDone
  <2>1. SUFFICES ASSUME Converged, NEW t \in ToSet(Lanes)
                 PROVE  task[t].status = "done" /\ (task[t].error => swallowed \/ deaths > 0)
    BY DEF ConvergedBoardIsDone
  <2>2. PICK i \in DOMAIN Lanes : t = Lanes[i]
    BY DEF ToSet
  <2>3. task[t].status = "done"
    BY <1>1, <1>3, <2>1, <2>2 DEF BehindInv
  <2>4. t \in Tasks
    BY <2>2, Parameters, TasksAre
  <2>5. QED
    BY <1>1, <1>3, <2>1, <2>3, <2>4 DEF ErrorInv, Converged
<1>5. FlawsAreNoted
  <2>1. SUFFICES ASSUME Converged, deaths = 0
                 PROVE  /\ \A t \in Validated \cap ToSet(Lanes) : t \in notes <=> docs[t] \notin {"good", "aside"}
                        /\ web => ("builder" \in notes <=> BuilderExecutableIssues(page) # {})
    BY DEF FlawsAreNoted, ExecutableDoc
  <2>2. \A t \in Validated \cap ToSet(Lanes) : t \in notes <=> docs[t] \notin {"good", "aside"}
    <3>1. SUFFICES ASSUME NEW i \in DOMAIN Lanes, Lanes[i] \in Validated
                   PROVE  Lanes[i] \in notes <=> docs[Lanes[i]] \notin {"good", "aside"}
      BY DEF ToSet
    <3>2. NotedLane(i)
      BY <1>3, <2>1 DEF NotedLane
    <3>3. QED
      BY <1>1, <1>3, <2>1, <3>1, <3>2 DEF DocNotesInv
  <2>3. QED
    BY <1>1, <1>3, <2>1, <2>2 DEF PageNotesInv
<1>6. QED
  BY <1>1, <1>2, <1>4, <1>5 DEF DeliveryIsAsReported

\* A launch is reported as what it delivered, whatever the lanes, the pages the
\* provider answers with, the failing calls and the deaths of the host
\* (_bg_thin_project and _run_builder): the recorded reason is the verdict over the
\* final workspace, every lane of a converged board is done, what is not
\* executable is noted, a complete page has no dead link and every device basic it has
\* the tags for, and the calls are bounded.
THEOREM PipelineSafe == PipelineSpec => []DeliveryIsAsReported
<1>1. PipelineInit => PipelineInv
  BY InvInit
<1>2. PipelineInv /\ [PipelineNext]_pipelineVars => PipelineInv'
  BY InvKept
<1>3. PipelineInv => DeliveryIsAsReported
  BY InvGives
<1>4. QED
  BY <1>1, <1>2, <1>3, PTL DEF PipelineSpec

LEMMA FilledStep ==
    ASSUME PipelineInv, [PipelineNext]_pipelineVars, ~stale, driver.call \in Patches
    PROVE  Full(page) \subseteq Full(page')
<1>a. PipelineTypeOK /\ WhereInv /\ SeenInv
  BY DEF PipelineInv, PageInv
<1>b. page' = page => Full(page) \subseteq Full(page')
  OBVIOUS
<1>1. CASE Begin
  BY <1>1, <1>a, <1>b, BeginDoes DEF Books
<1>2. CASE SkipLane
  BY <1>2, <1>a, <1>b, SkipLaneDoes DEF Books
<1>3. CASE EnterLane
  BY <1>3, <1>a, <1>b, EnterLaneDoes DEF Books
<1>4. CASE EnterBuilder
  BY <1>4, <1>a, <1>b, EnterBuilderDoes DEF Books
<1>5. CASE Claim
  BY <1>5, <1>a, <1>b, ClaimDoes DEF Books
<1>6. CASE CallWithRetries
  BY <1>6, <1>a, <1>b, CallWithRetriesDoes DEF Books
<1>7. CASE PostFails
  BY <1>7, <1>a, <1>b, PostFailsDoes DEF Books
<1>8. CASE Complete
  BY <1>8, <1>a, <1>b, CompleteDoes DEF Patches
<1>9. CASE AfterLane
  BY <1>9, <1>a, <1>b, AfterLaneDoes DEF Books
<1>10. CASE AfterCustom
  BY <1>10, <1>a, <1>b, AfterCustomDoes DEF Books
<1>11. CASE AfterBuild
  BY <1>11, <1>a, <1>b, AfterBuildDoes DEF Books
<1>12. CASE Rebuild
  BY <1>12, <1>a, <1>b, RebuildDoes DEF Books
<1>13. CASE AppendMissingTail
  BY <1>13, <1>a, <1>b, AppendMissingTailDoes DEF Books
<1>14. CASE AfterTail
  BY <1>14, <1>a, AfterTailDoes
<1>15. CASE AppendMissingContent
  BY <1>15, <1>a, <1>b, AppendMissingContentDoes DEF Books
<1>16. CASE ReconcilePlan
  BY <1>16, <1>a, <1>b, ReconcilePlanDoes DEF Books
<1>17. CASE AfterFill
  BY <1>17, <1>a, AfterFillDoes DEF SeenInv, Asking
<1>18. CASE PlanNavPatch
  BY <1>18, <1>a, PlanNavPatchDoes
<1>19. CASE AnchorPatch
  BY <1>19, <1>a, AnchorPatchDoes, SamePageMeans
<1>20. CASE AfterNav
  BY <1>20, <1>a, AfterNavDoes, SamePageMeans
<1>21. CASE DeviceMetaPatch
  BY <1>21, <1>a, DeviceMetaPatchDoes, SamePageMeans
<1>22. CASE AfterBuilder
  BY <1>22, <1>a, <1>b, AfterBuilderDoes DEF Books
<1>23. CASE Converge
  BY <1>23, <1>a, <1>b, ConvergeDoes DEF Books
<1>24. CASE DriveFails
  BY <1>24, <1>a, <1>b, DriveFailsDoes DEF Books
<1>25. CASE HostDies
  BY <1>25, <1>a, <1>b, HostDiesDoes DEF Books
<1>26. CASE UNCHANGED pipelineVars
  BY <1>26, <1>b DEF pipelineVars
<1>27. QED
  BY <1>1, <1>2, <1>3, <1>4, <1>5, <1>6, <1>7, <1>8, <1>9, <1>10, <1>11, <1>12, <1>13, <1>14,
     <1>15, <1>16, <1>17, <1>18, <1>19, <1>20, <1>21, <1>22, <1>23, <1>24, <1>25, <1>26
  DEF PipelineNext

\* A bounded patch of the page (_append_missing_tail, _append_missing_content,
\* _plan_nav_patch, _anchor_patch, _device_meta_patch) keeps the copy that is there,
\* while the thread goes by the page as it is.
THEOREM FilledStays == PipelineSpec => FilledStaysWhileAudited
<1>1. PipelineInit => PipelineInv
  BY InvInit
<1>2. PipelineInv /\ [PipelineNext]_pipelineVars => PipelineInv'
  BY InvKept
<1>3. PipelineInv /\ [PipelineNext]_pipelineVars =>
          [~stale /\ driver.call \in Patches => Full(page) \subseteq Full(page')]_page
  BY FilledStep
<1>4. QED
  BY <1>1, <1>2, <1>3, PTL DEF PipelineSpec, FilledStaysWhileAudited

-----------------------------------------------------------------------------
(* Folds over sequences.  Induction over the numbers and over the sequences *)
(* is stated with sets, by a least counterexample.                          *)

LEMMA Induction ==
  ASSUME NEW S, 0 \in S, \A n \in Nat : n \in S => n + 1 \in S
  PROVE  Nat \subseteq S
<1> DEFINE B == {1..n : n \in Nat \ S}
<1>1. SUFFICES ASSUME B # {} PROVE FALSE
  OBVIOUS
<1>2. PICK T \in B : \A U \in B : ~(U \subseteq T /\ U # T)
  <2>1. \A T \in B : IsFiniteSet(T)
    BY FS_Interval
  <2> HIDE DEF B
  <2>2. QED
    BY <1>1, <2>1, LeastSet
<1>3. PICK n \in Nat \ S : T = 1..n
  OBVIOUS
<1>4. n # 0 /\ n - 1 \in Nat /\ n - 1 \notin S
  BY <1>3
<1>5. 1..(n - 1) \in B
  BY <1>4
<1>6. 1..(n - 1) \subseteq T /\ 1..(n - 1) # T
  BY <1>3, <1>4
<1>7. QED
  BY <1>2, <1>5, <1>6

LEMMA SequenceInduction ==
  ASSUME NEW E, NEW S, <<>> \in S, \A s \in Seq(E), e \in E : s \in S => Append(s, e) \in S
  PROVE  Seq(E) \subseteq S
<1> DEFINE N == {n \in Nat : \A s \in Seq(E) : Len(s) = n => s \in S}
<1>1. 0 \in N
  BY EmptySeq
<1>2. ASSUME NEW n \in Nat, n \in N PROVE n + 1 \in N
  <2>1. ASSUME NEW s \in Seq(E), Len(s) = n + 1 PROVE s \in S
    <3>1. s # <<>>
      BY <2>1
    <3>2. PICK r \in Seq(E), e \in E : s = Append(r, e)
      BY <3>1, SequenceEmptyOrAppend
    <3>3. Len(r) = n
      BY <2>1, <3>2, AppendProperties, LenProperties
    <3>4. r \in S
      BY <1>2, <3>3
    <3>5. QED
      BY <3>2, <3>4
  <2>2. QED
    BY <1>2, <2>1
<1> HIDE DEF N
<1>3. Nat \subseteq N
  BY <1>1, <1>2, Induction
<1>4. QED
  BY <1>3, LenProperties DEF N

\* The greatest of the first n positions.
LEMMA Greatest ==
  ASSUME NEW n \in Nat, NEW t \in SUBSET (1..(n + 1)), n + 1 \in t
  PROVE  Max(t) = n + 1
<1>1. \A y \in t : n + 1 >= y
  OBVIOUS
<1>2. \A x \in t : (\A y \in t : x >= y) => x = n + 1
  BY <1>1
<1>3. Max(t) \in t /\ \A y \in t : Max(t) >= y
  BY <1>1 DEF Max
<1>4. QED
  BY <1>2, <1>3

LEMMA MaxInside ==
  ASSUME NEW m \in Nat, NEW t \in SUBSET (1..m), t # {}
  PROVE  Max(t) \in t
<1> DEFINE S == {n \in Nat : \A u \in SUBSET (1..n) : u # {} => Max(u) \in u}
<1>1. 0 \in S
  <2>1. \A u \in SUBSET (1..0) : u = {}
    OBVIOUS
  <2>2. QED
    BY <2>1
<1>2. ASSUME NEW n \in Nat, n \in S PROVE n + 1 \in S
  <2>1. ASSUME NEW u \in SUBSET (1..(n + 1)), u # {} PROVE Max(u) \in u
    <3>1. CASE n + 1 \in u
      BY <3>1, Greatest
    <3>2. CASE n + 1 \notin u
      <4>1. u \in SUBSET (1..n)
        BY <3>2
      <4>2. QED
        BY <1>2, <2>1, <4>1
    <3>3. QED
      BY <3>1, <3>2
  <2>2. QED
    BY <2>1
<1> HIDE DEF S
<1>3. Nat \subseteq S
  BY <1>1, <1>2, Induction
<1>4. QED
  BY <1>3 DEF S

Operation(step, X, E) == step \in [X \X E -> X]

\* A function that folds the operation step over the entries of s, from base.
Folds(g, step, base, s, n) ==
    g = [t \in SUBSET (1..n) |-> IF t = {} THEN base ELSE step[<<g[t \ {Max(t)}], s[Max(t)]>>]]

\* There is one, and it stays in the set that the operation does not leave.
LEMMA FoldsExist ==
  ASSUME NEW X, NEW E, NEW base \in X, NEW step, Operation(step, X, E), NEW s \in Seq(E)
  PROVE  \E g \in [SUBSET (1..Len(s)) -> X] : Folds(g, step, base, s, Len(s))
<1> DEFINE m == Len(s)
<1>0. m \in Nat /\ \A i \in 1..m : s[i] \in E
  BY LenProperties
<1> HIDE DEF m
<1> DEFINE Ok(n) == \E g \in [SUBSET (1..n) -> X] : Folds(g, step, base, s, n)
           S == {n \in Nat : n <= m => Ok(n)}
<1>1. 0 \in S
  <2> DEFINE g == [t \in SUBSET (1..0) |-> base]
  <2>1. \A t \in SUBSET (1..0) : t = {}
    OBVIOUS
  <2>2. g \in [SUBSET (1..0) -> X] /\ Folds(g, step, base, s, 0)
    BY <2>1 DEF Folds
  <2> HIDE DEF g
  <2>3. QED
    BY <2>2
<1>2. ASSUME NEW n \in Nat, n \in S PROVE n + 1 \in S
  <2> HIDE DEF Ok
  <2>1. SUFFICES ASSUME n + 1 <= m PROVE Ok(n + 1)
    OBVIOUS
  <2>a. Ok(n)
    BY <1>0, <1>2, <2>1
  <2>2. PICK g \in [SUBSET (1..n) -> X] : Folds(g, step, base, s, n)
    BY <2>a, Zenon DEF Ok
  <2>3. \A t \in SUBSET (1..n) : g[t] = IF t = {} THEN base ELSE step[<<g[t \ {Max(t)}], s[Max(t)]>>]
    BY <2>2, Zenon DEF Folds
  <2> DEFINE h == [t \in SUBSET (1..(n + 1)) |->
                       IF n + 1 \in t THEN step[<<g[t \ {n + 1}], s[n + 1]>>] ELSE g[t]]
  <2>4. \A t \in SUBSET (1..(n + 1)) : t \ {n + 1} \in SUBSET (1..n) /\ (n + 1 \notin t => t \in SUBSET (1..n))
    OBVIOUS
  <2>5. \A t \in SUBSET (1..n) : h[t] = g[t] /\ t \in SUBSET (1..(n + 1))
    OBVIOUS
  <2>6. s[n + 1] \in E
    BY <1>0, <2>1
  <2>7. h \in [SUBSET (1..(n + 1)) -> X]
    <3>1. ASSUME NEW t \in SUBSET (1..(n + 1)), n + 1 \in t
          PROVE  step[<<g[t \ {n + 1}], s[n + 1]>>] \in X
      <4>1. g[t \ {n + 1}] \in X
        BY <2>4
      <4>2. QED
        BY <2>6, <4>1 DEF Operation
    <3>2. ASSUME NEW t \in SUBSET (1..(n + 1)), n + 1 \notin t PROVE g[t] \in X
      BY <2>4, <3>2
    <3>3. QED
      BY <3>1, <3>2
  <2>8. ASSUME NEW t \in SUBSET (1..(n + 1))
        PROVE  h[t] = IF t = {} THEN base ELSE step[<<h[t \ {Max(t)}], s[Max(t)]>>]
    <3>1. CASE n + 1 \in t
      <4>1. Max(t) = n + 1
        BY <3>1, Greatest
      <4>2. h[t \ {n + 1}] = g[t \ {n + 1}]
        BY <2>4, <2>5
      <4>3. h[t] = step[<<g[t \ {n + 1}], s[n + 1]>>] /\ t # {}
        BY <3>1
      <4> HIDE DEF h
      <4>4. QED
        BY <4>1, <4>2, <4>3
    <3>2. CASE n + 1 \notin t
      <4>1. t \in SUBSET (1..n) /\ t \ {Max(t)} \in SUBSET (1..n)
        BY <2>4, <3>2
      <4>2. h[t] = g[t] /\ h[t \ {Max(t)}] = g[t \ {Max(t)}]
        BY <2>5, <4>1
      <4> HIDE DEF h
      <4>3. QED
        BY <2>3, <4>1, <4>2
    <3>3. QED
      BY <3>1, <3>2
  <2>9. Folds(h, step, base, s, n + 1)
    <3>1. h = [t \in SUBSET (1..(n + 1)) |-> h[t]]
      BY <2>7
    <3> HIDE DEF h
    <3>2. QED
      BY <2>8, <3>1, Zenon DEF Folds
  <2> HIDE DEF h
  <2>10. QED
    BY <2>7, <2>9, Zenon DEF Ok
<1> HIDE DEF S, Ok
<1>3. Nat \subseteq S
  BY <1>1, <1>2, Induction
<1>4. Ok(m)
  BY <1>0, <1>3 DEF S
<1>5. QED
  BY <1>4, Zenon DEF Ok, m

\* What such a function says of the first positions.
LEMMA FoldsWalk ==
  ASSUME NEW g, NEW step, NEW base, NEW s, NEW m \in Nat, Folds(g, step, base, s, m)
  PROVE  /\ g[{}] = base
         /\ \A n \in 0..(m - 1) : g[1..(n + 1)] = step[<<g[1..n], s[n + 1]>>]
<1>1. \A t \in SUBSET (1..m) : g[t] = IF t = {} THEN base ELSE step[<<g[t \ {Max(t)}], s[Max(t)]>>]
  BY Zenon DEF Folds
<1>2. ASSUME NEW n \in 0..(m - 1) PROVE g[1..(n + 1)] = step[<<g[1..n], s[n + 1]>>]
  <2>1. n \in Nat /\ 1..(n + 1) \in SUBSET (1..m) /\ n + 1 \in 1..(n + 1)
    OBVIOUS
  <2>2. Max(1..(n + 1)) = n + 1
    BY <2>1, Greatest
  <2>3. (1..(n + 1)) \ {n + 1} = 1..n /\ 1..(n + 1) # {}
    BY <2>1
  <2>4. QED
    BY <1>1, <2>1, <2>2, <2>3
<1>3. QED
  BY <1>1, <1>2

\* What the operation makes of all entries of s.
Folded(step, base, s) == (CHOOSE g : Folds(g, step, base, s, Len(s)))[1..Len(s)]

\* A function that starts with the base and does the operation's step wherever
\* it has not left X has the fold at the end.
LEMMA WalkIsFold ==
  ASSUME NEW X, NEW E, NEW base \in X, NEW step, Operation(step, X, E), NEW s \in Seq(E), NEW t \in Seq(E),
         NEW n \in 0..Len(t), n <= Len(s), \A i \in 1..n : s[i] = t[i], NEW h, h[{}] = base,
         \A i \in 0..(Len(s) - 1) : h[1..i] \in X => h[1..(i + 1)] = step[<<h[1..i], s[i + 1]>>]
  PROVE  h[1..n] = (CHOOSE g : Folds(g, step, base, t, Len(t)))[1..n] /\ h[1..n] \in X
<1> DEFINE g == CHOOSE g : Folds(g, step, base, t, Len(t))
           S == {k \in Nat : k <= n => h[1..k] = g[1..k] /\ h[1..k] \in X}
<1>1. /\ Len(t) \in Nat /\ \A i \in 1..Len(t) : t[i] \in E
      /\ Len(s) \in Nat /\ \A i \in 1..Len(s) : s[i] \in E
  BY LenProperties
<1>2. Folds(g, step, base, t, Len(t))
  <2>1. \E f : Folds(f, step, base, t, Len(t))
    <3>1. \E f \in [SUBSET (1..Len(t)) -> X] : Folds(f, step, base, t, Len(t))
      BY FoldsExist
    <3>2. QED
      BY <3>1, Zenon
  <2>2. QED
    BY <2>1, Zenon
<1> HIDE DEF g
<1>3. /\ g[{}] = base
      /\ \A k \in 0..(Len(t) - 1) : g[1..(k + 1)] = step[<<g[1..k], t[k + 1]>>]
  BY <1>1, <1>2, FoldsWalk
<1>4. 0 \in S
  <2>1. 1..0 = {}
    OBVIOUS
  <2>2. QED
    BY <1>3, <2>1
<1>5. ASSUME NEW k \in Nat, k \in S PROVE k + 1 \in S
  <2>1. SUFFICES ASSUME k + 1 <= n PROVE h[1..(k + 1)] = g[1..(k + 1)] /\ h[1..(k + 1)] \in X
    OBVIOUS
  <2>2. /\ k <= n /\ k \in 0..(Len(t) - 1) /\ k \in 0..(Len(s) - 1) /\ k + 1 \in 1..n
        /\ k + 1 \in 1..Len(s)
    BY <1>1, <2>1
  <2>3. h[1..k] = g[1..k] /\ h[1..k] \in X /\ s[k + 1] = t[k + 1] /\ s[k + 1] \in E
    BY <1>1, <1>5, <2>2
  <2>4. /\ h[1..(k + 1)] = step[<<h[1..k], s[k + 1]>>]
        /\ g[1..(k + 1)] = step[<<g[1..k], t[k + 1]>>]
    BY <1>3, <2>2, <2>3
  <2>5. step[<<h[1..k], s[k + 1]>>] \in X
    BY <2>3 DEF Operation
  <2>6. QED
    BY <2>3, <2>4, <2>5
<1> HIDE DEF S
<1>6. Nat \subseteq S
  BY <1>4, <1>5, Induction
<1>7. n \in Nat /\ n <= n
  BY <1>1
<1>8. h[1..n] = g[1..n] /\ h[1..n] \in X
  BY <1>6, <1>7 DEF S
<1>9. QED
  BY <1>8 DEF g

\* The laws of a fold.
LEMMA FoldedLaws ==
  ASSUME NEW X, NEW E, NEW base \in X, NEW step, Operation(step, X, E)
  PROVE  /\ Folded(step, base, <<>>) = base
         /\ \A s \in Seq(E) : Folded(step, base, s) \in X
         /\ \A s \in Seq(E), e \in E :
                Folded(step, base, Append(s, e)) = step[<<Folded(step, base, s), e>>]
<1> DEFINE G(s) == CHOOSE g : Folds(g, step, base, s, Len(s))
<1>1. ASSUME NEW s \in Seq(E)
      PROVE  /\ G(s)[{}] = base
             /\ \A k \in 0..(Len(s) - 1) : G(s)[1..(k + 1)] = step[<<G(s)[1..k], s[k + 1]>>]
  <2>1. Len(s) \in Nat /\ \A i \in 1..Len(s) : s[i] \in E
    BY LenProperties
  <2>2. \E f : Folds(f, step, base, s, Len(s))
    <3>1. \E f \in [SUBSET (1..Len(s)) -> X] : Folds(f, step, base, s, Len(s))
      BY FoldsExist
    <3>2. QED
      BY <3>1, Zenon
  <2>3. Folds(G(s), step, base, s, Len(s))
    BY <2>2, Zenon
  <2> HIDE DEF G
  <2>4. QED
    BY <2>1, <2>3, FoldsWalk
<1>2. \A s : Folded(step, base, s) = G(s)[1..Len(s)]
  BY Zenon DEF Folded
<1>3. Folded(step, base, <<>>) = base
  <2>1. <<>> \in Seq(E) /\ 1..Len(<<>>) = {}
    BY EmptySeq
  <2> HIDE DEF G
  <2>2. G(<<>>)[{}] = base
    BY <1>1, <2>1
  <2>3. QED
    BY <1>2, <2>1, <2>2
<1>4. ASSUME NEW s \in Seq(E), NEW t \in Seq(E), NEW n \in 0..Len(t), n <= Len(s),
             \A i \in 1..n : s[i] = t[i]
      PROVE  G(s)[1..n] = G(t)[1..n] /\ G(s)[1..n] \in X
  <2>1. G(s)[1..n] = (CHOOSE g : Folds(g, step, base, t, Len(t)))[1..n] /\ G(s)[1..n] \in X
    <3> DEFINE h == G(s)
    <3>1. /\ h[{}] = base
          /\ \A i \in 0..(Len(s) - 1) : h[1..i] \in X => h[1..(i + 1)] = step[<<h[1..i], s[i + 1]>>]
      BY <1>1
    <3> HIDE DEF h
    <3>2. h[1..n] = (CHOOSE g : Folds(g, step, base, t, Len(t)))[1..n] /\ h[1..n] \in X
      BY <1>4, <3>1, WalkIsFold
    <3>3. QED
      BY <3>2 DEF h
  <2>2. QED
    BY <2>1, Zenon
<1> HIDE DEF G
<1>5. ASSUME NEW s \in Seq(E) PROVE Folded(step, base, s) \in X
  <2>1. Len(s) \in 0..Len(s) /\ Len(s) <= Len(s)
    BY LenProperties
  <2>2. QED
    BY <1>2, <1>4, <2>1
<1>6. ASSUME NEW s \in Seq(E), NEW e \in E
      PROVE  Folded(step, base, Append(s, e)) = step[<<Folded(step, base, s), e>>]
  <2> DEFINE t == Append(s, e)
             n == Len(s)
  <2>1. t \in Seq(E) /\ Len(t) = n + 1 /\ t[n + 1] = e /\ \A i \in 1..n : t[i] = s[i]
    BY AppendProperties
  <2>2. n \in Nat
    BY LenProperties
  <2> HIDE DEF t
  <2>3. G(t)[1..(n + 1)] = step[<<G(t)[1..n], t[n + 1]>>]
    <3>1. n \in 0..(Len(t) - 1)
      BY <2>1, <2>2
    <3>2. QED
      BY <1>1, <2>1, <3>1
  <2>4. G(t)[1..n] = G(s)[1..n]
    <3>1. n \in 0..Len(s) /\ n <= Len(t)
      BY <2>1, <2>2
    <3>2. QED
      BY <1>4, <2>1, <3>1
  <2>5. Folded(step, base, t) = step[<<Folded(step, base, s), e>>]
    BY <1>2, <2>1, <2>3, <2>4
  <2>6. QED
    BY <2>5 DEF t
<1>7. QED
  BY <1>3, <1>5, <1>6

-----------------------------------------------------------------------------
(* The export.                                                              *)

Bundle == [files : Seq(Nat), total : Nat]
BundleStep == [p \in Bundle \X Nat |-> BundleFile(p[1], p[2])]

LEMMA BundleStepIs ==
  /\ NoBundle \in Bundle
  /\ \A b \in Bundle, n \in Nat : BundleFile(b, n) \in Bundle /\ BundleStep[<<b, n>>] = BundleFile(b, n)
  /\ Operation(BundleStep, Bundle, Nat)
<1>1. NoBundle \in Bundle
  BY EmptySeq DEF NoBundle, Bundle
<1>2. ASSUME NEW b \in Bundle, NEW n \in Nat PROVE BundleFile(b, n) \in Bundle
  <2>1. b.files \in Seq(Nat) /\ b.total \in Nat /\ Append(b.files, n) \in Seq(Nat)
    BY AppendProperties DEF Bundle
  <2>2. QED
    BY <2>1 DEF BundleFile, Bundle
<1>3. \A p \in Bundle \X Nat : p[1] \in Bundle /\ p[2] \in Nat
  OBVIOUS
<1>4. QED
  BY <1>1, <1>2, <1>3 DEF BundleStep, Operation

LEMMA BundleFolded ==
  ASSUME NEW s \in Seq(Nat)
  PROVE  ExportBundle(s) = Folded(BundleStep, NoBundle, s)
<1> DEFINE Iter(g) == g = [t \in SUBSET DOMAIN s |->
                              IF t = {} THEN NoBundle ELSE BundleFile(g[t \ {Max(t)}], s[Max(t)])]
           g == CHOOSE g : Iter(g)
           m == Len(s)
<1>1. ExportBundle(s) = g[DOMAIN s]
  BY Zenon DEF ExportBundle, FoldLeft, MapThenFoldSet
<1>2. m \in Nat /\ DOMAIN s = 1..m /\ \A i \in 1..m : s[i] \in Nat
  BY LenProperties
<1>3. PICK f \in [SUBSET (1..m) -> Bundle] : Folds(f, BundleStep, NoBundle, s, m)
  BY FoldsExist, BundleStepIs
<1> HIDE DEF m
<1>4. \A t \in SUBSET (1..m) : t # {} => Max(t) \in t
  BY <1>2, MaxInside
<1>5. Iter(f)
  <2>1. ASSUME NEW t \in SUBSET (1..m), t # {}
        PROVE  BundleStep[<<f[t \ {Max(t)}], s[Max(t)]>>] = BundleFile(f[t \ {Max(t)}], s[Max(t)])
    <3>1. s[Max(t)] \in Nat /\ f[t \ {Max(t)}] \in Bundle
      BY <1>2, <1>4, <2>1
    <3>2. QED
      BY <3>1, BundleStepIs
  <2>2. f = [t \in SUBSET (1..m) |->
                IF t = {} THEN NoBundle ELSE BundleStep[<<f[t \ {Max(t)}], s[Max(t)]>>]]
    BY <1>3, Zenon DEF Folds
  <2>3. f = [t \in SUBSET (1..m) |-> IF t = {} THEN NoBundle ELSE BundleFile(f[t \ {Max(t)}], s[Max(t)])]
    BY <2>1, <2>2, Zenon
  <2>4. QED
    BY <1>2, <2>3
<1>6. Iter(g)
  BY <1>5, Zenon
<1> HIDE DEF g
<1>7. \A t \in SUBSET (1..m) : g[t] = IF t = {} THEN NoBundle ELSE BundleFile(g[t \ {Max(t)}], s[Max(t)])
  BY <1>2, <1>6, Zenon
<1>8. ASSUME NEW i \in 0..(m - 1), g[1..i] \in Bundle
      PROVE  g[1..(i + 1)] = BundleStep[<<g[1..i], s[i + 1]>>]
  <2>1. /\ i \in Nat /\ i + 1 \in 1..m /\ i + 1 \in 1..(i + 1)
        /\ 1..(i + 1) \in SUBSET (1..m) /\ (1..(i + 1)) \ {i + 1} = 1..i
    BY <1>2
  <2>2. Max(1..(i + 1)) = i + 1
    BY <2>1, Greatest
  <2>3. 1..(i + 1) # {}
    BY <2>1
  <2>4. g[1..(i + 1)] = BundleFile(g[(1..(i + 1)) \ {Max(1..(i + 1))}], s[Max(1..(i + 1))])
    BY <1>7, <2>1, <2>3, Zenon
  <2>5. g[1..(i + 1)] = BundleFile(g[1..i], s[i + 1])
    BY <2>1, <2>2, <2>4, Zenon
  <2>6. QED
    BY <1>2, <1>8, <2>1, <2>5, BundleStepIs
<1>9. g[{}] = NoBundle
  BY <1>7
<1>10. g[1..m] = (CHOOSE h : Folds(h, BundleStep, NoBundle, s, Len(s)))[1..m]
  <2> DEFINE step == BundleStep
  <2>1. NoBundle \in Bundle /\ Operation(step, Bundle, Nat)
    BY BundleStepIs
  <2>2. \A i \in 0..(m - 1) : g[1..i] \in Bundle => g[1..(i + 1)] = step[<<g[1..i], s[i + 1]>>]
    BY <1>8
  <2> HIDE DEF step
  <2>3. m \in 0..m /\ m <= m /\ Len(s) = m
    BY <1>2 DEF m
  <2>4. g[1..m] = (CHOOSE h : Folds(h, step, NoBundle, s, Len(s)))[1..m]
    BY <1>9, <2>1, <2>2, <2>3, WalkIsFold
  <2>5. QED
    BY <2>4, Zenon DEF step
<1>11. QED
  BY <1>1, <1>2, <1>10, Zenon DEF Folded, m

LEMMA BundleLaws ==
  /\ ExportBundle(<<>>) = NoBundle
  /\ \A s \in Seq(Nat) : ExportBundle(s) \in Bundle
  /\ \A s \in Seq(Nat), e \in Nat : ExportBundle(Append(s, e)) = BundleFile(ExportBundle(s), e)
<1>0. NoBundle \in Bundle /\ Operation(BundleStep, Bundle, Nat)
  BY BundleStepIs
<1>1. /\ Folded(BundleStep, NoBundle, <<>>) = NoBundle
      /\ \A s \in Seq(Nat) : Folded(BundleStep, NoBundle, s) \in Bundle
      /\ \A s \in Seq(Nat), e \in Nat :
             Folded(BundleStep, NoBundle, Append(s, e)) = BundleStep[<<Folded(BundleStep, NoBundle, s), e>>]
  BY <1>0, FoldedLaws
<1>2. <<>> \in Seq(Nat) /\ \A s \in Seq(Nat), e \in Nat : Append(s, e) \in Seq(Nat)
  BY EmptySeq, AppendProperties
<1>3. \A s \in Seq(Nat) : ExportBundle(s) = Folded(BundleStep, NoBundle, s)
  BY BundleFolded
<1>4. ExportBundle(<<>>) = NoBundle /\ \A s \in Seq(Nat) : ExportBundle(s) \in Bundle
  BY <1>1, <1>2, <1>3
<1>5. ASSUME NEW s \in Seq(Nat), NEW e \in Nat PROVE ExportBundle(Append(s, e)) = BundleFile(ExportBundle(s), e)
  <2>1. ExportBundle(Append(s, e)) = BundleStep[<<ExportBundle(s), e>>]
    BY <1>1, <1>2, <1>3
  <2>2. QED
    BY <1>4, <2>1, BundleStepIs
<1>6. QED
  BY <1>4, <1>5

\* The sum of the sizes, the same way.
Total(s) == FoldLeft(+, 0, s)
Totals == Nat
Nought == 0
TotalStep == [p \in Totals \X Nat |-> p[1] + p[2]]

LEMMA TotalStepIs ==
  /\ Nought \in Totals
  /\ \A a \in Totals, n \in Nat : a + n \in Totals /\ TotalStep[<<a, n>>] = a + n
  /\ Operation(TotalStep, Totals, Nat)
<1>1. \A p \in Totals \X Nat : p[1] \in Totals /\ p[2] \in Nat
  OBVIOUS
<1>2. QED
  BY <1>1 DEF TotalStep, Operation, Totals, Nought

LEMMA TotalFolded ==
  ASSUME NEW s \in Seq(Nat)
  PROVE  Total(s) = Folded(TotalStep, Nought, s)
<1> DEFINE Iter(g) == g = [t \in SUBSET DOMAIN s |->
                              IF t = {} THEN Nought ELSE g[t \ {Max(t)}] + s[Max(t)]]
           g == CHOOSE g : Iter(g)
           m == Len(s)
<1>1. Total(s) = g[DOMAIN s]
  BY Zenon DEF Total, Nought, FoldLeft, MapThenFoldSet
<1>2. m \in Nat /\ DOMAIN s = 1..m /\ \A i \in 1..m : s[i] \in Nat
  BY LenProperties
<1>3. PICK f \in [SUBSET (1..m) -> Totals] : Folds(f, TotalStep, Nought, s, m)
  BY FoldsExist, TotalStepIs
<1> HIDE DEF m
<1>4. \A t \in SUBSET (1..m) : t # {} => Max(t) \in t
  BY <1>2, MaxInside
<1>5. Iter(f)
  <2>1. ASSUME NEW t \in SUBSET (1..m), t # {}
        PROVE  TotalStep[<<f[t \ {Max(t)}], s[Max(t)]>>] = f[t \ {Max(t)}] + s[Max(t)]
    <3>1. s[Max(t)] \in Nat /\ f[t \ {Max(t)}] \in Totals
      BY <1>2, <1>4, <2>1
    <3>2. QED
      BY <3>1, TotalStepIs
  <2>2. f = [t \in SUBSET (1..m) |->
                IF t = {} THEN Nought ELSE TotalStep[<<f[t \ {Max(t)}], s[Max(t)]>>]]
    BY <1>3, Zenon DEF Folds
  <2>3. f = [t \in SUBSET (1..m) |-> IF t = {} THEN Nought ELSE f[t \ {Max(t)}] + s[Max(t)]]
    BY <2>1, <2>2, Zenon
  <2>4. QED
    BY <1>2, <2>3
<1>6. Iter(g)
  BY <1>5, Zenon
<1> HIDE DEF g
<1>7. \A t \in SUBSET (1..m) : g[t] = IF t = {} THEN Nought ELSE g[t \ {Max(t)}] + s[Max(t)]
  BY <1>2, <1>6, Zenon
<1>8. ASSUME NEW i \in 0..(m - 1), g[1..i] \in Totals
      PROVE  g[1..(i + 1)] = TotalStep[<<g[1..i], s[i + 1]>>]
  <2>1. /\ i \in Nat /\ i + 1 \in 1..m /\ i + 1 \in 1..(i + 1)
        /\ 1..(i + 1) \in SUBSET (1..m) /\ (1..(i + 1)) \ {i + 1} = 1..i
    BY <1>2
  <2>2. Max(1..(i + 1)) = i + 1
    BY <2>1, Greatest
  <2>3. 1..(i + 1) # {}
    BY <2>1
  <2>4. g[1..(i + 1)] = g[(1..(i + 1)) \ {Max(1..(i + 1))}] + s[Max(1..(i + 1))]
    BY <1>7, <2>1, <2>3, Zenon
  <2>5. g[1..(i + 1)] = g[1..i] + s[i + 1]
    BY <2>1, <2>2, <2>4, Zenon
  <2>6. QED
    BY <1>2, <1>8, <2>1, <2>5, TotalStepIs
<1>9. g[{}] = Nought
  BY <1>7
<1>10. g[1..m] = (CHOOSE h : Folds(h, TotalStep, Nought, s, Len(s)))[1..m]
  <2> DEFINE step == TotalStep
  <2>1. Nought \in Totals /\ Operation(step, Totals, Nat)
    BY TotalStepIs
  <2>2. \A i \in 0..(m - 1) : g[1..i] \in Totals => g[1..(i + 1)] = step[<<g[1..i], s[i + 1]>>]
    BY <1>8
  <2> HIDE DEF step
  <2>3. m \in 0..m /\ m <= m /\ Len(s) = m
    BY <1>2 DEF m
  <2>4. g[1..m] = (CHOOSE h : Folds(h, step, Nought, s, Len(s)))[1..m]
    BY <1>9, <2>1, <2>2, <2>3, WalkIsFold
  <2>5. QED
    BY <2>4, Zenon DEF step
<1>11. QED
  BY <1>1, <1>2, <1>10, Zenon DEF Folded, m

LEMMA TotalLaws ==
  /\ Total(<<>>) = Nought
  /\ \A s \in Seq(Nat) : Total(s) \in Totals
  /\ \A s \in Seq(Nat), e \in Nat : Total(Append(s, e)) = Total(s) + e
<1>0. Nought \in Totals /\ Operation(TotalStep, Totals, Nat)
  BY TotalStepIs
<1>1. /\ Folded(TotalStep, Nought, <<>>) = Nought
      /\ \A s \in Seq(Nat) : Folded(TotalStep, Nought, s) \in Totals
      /\ \A s \in Seq(Nat), e \in Nat :
             Folded(TotalStep, Nought, Append(s, e)) = TotalStep[<<Folded(TotalStep, Nought, s), e>>]
  BY <1>0, FoldedLaws
<1>2. <<>> \in Seq(Nat) /\ \A s \in Seq(Nat), e \in Nat : Append(s, e) \in Seq(Nat)
  BY EmptySeq, AppendProperties
<1>3. \A s \in Seq(Nat) : Total(s) = Folded(TotalStep, Nought, s)
  BY TotalFolded
<1>4. Total(<<>>) = Nought /\ \A s \in Seq(Nat) : Total(s) \in Totals
  BY <1>1, <1>2, <1>3
<1>5. ASSUME NEW s \in Seq(Nat), NEW e \in Nat PROVE Total(Append(s, e)) = Total(s) + e
  <2>1. Total(Append(s, e)) = TotalStep[<<Total(s), e>>]
    BY <1>1, <1>2, <1>3
  <2>2. QED
    BY <1>4, <2>1, TotalStepIs
<1>6. QED
  BY <1>4, <1>5

\* The bundle walks as long as it is within the limit, and until then it is all
\* there was.
LEMMA BundleOfAny ==
  ASSUME NEW s \in Seq(Nat)
  PROVE  BundleIsBounded(s)
<1> DEFINE S == {r \in Seq(Nat) : /\ ExportBundle(r).total <= 2 * ExportBytes
                                  /\ Total(r) <= ExportBytes =>
                                         ExportBundle(r).files = r /\ ExportBundle(r).total = Total(r)}
<1>0. ExportBytes \in Nat
  BY SnapshotAssumption
<1>1. <<>> \in S
  BY <1>0, BundleLaws, TotalLaws, EmptySeq DEF NoBundle, Nought
<1>2. ASSUME NEW r \in Seq(Nat), NEW n \in Nat, r \in S PROVE Append(r, n) \in S
  <2> DEFINE b == ExportBundle(r)
             c == ExportBundle(Append(r, n))
  <2>1. /\ c = BundleFile(b, n) /\ Total(Append(r, n)) = Total(r) + n
        /\ b \in Bundle /\ Total(r) \in Nat
    BY BundleLaws, TotalLaws DEF Totals
  <2>2. b.total \in Nat /\ b.files \in Seq(Nat)
    BY <2>1 DEF Bundle
  <2>3. b.total <= 2 * ExportBytes /\ (Total(r) <= ExportBytes => b.files = r /\ b.total = Total(r))
    BY <1>2
  <2>4. Append(r, n) \in Seq(Nat)
    BY AppendProperties
  <2> HIDE DEF b, c
  <2>5. c.total <= 2 * ExportBytes
    BY <1>0, <2>1, <2>2, <2>3 DEF BundleFile
  <2>6. ASSUME Total(r) + n <= ExportBytes
        PROVE  c.files = Append(r, n) /\ c.total = Total(r) + n
    <3>1. Total(r) <= ExportBytes /\ n <= ExportBytes
      BY <1>0, <2>1, <2>6
    <3>2. b.files = r /\ b.total = Total(r)
      BY <2>3, <3>1
    <3>3. QED
      BY <1>0, <2>1, <2>2, <3>1, <3>2 DEF BundleFile
  <2>7. QED
    BY <2>1, <2>4, <2>5, <2>6 DEF c
<1> HIDE DEF S
<1>3. s \in S
  BY <1>1, <1>2, SequenceInduction
<1>4. QED
  BY <1>3 DEF S, BundleIsBounded, Total

-----------------------------------------------------------------------------
(* The attachments in the prompts.                                          *)

AnyAttachment == [text : BOOLEAN, size : Nat, reads : BOOLEAN]
Block == [named : Nat, total : Nat, more : BOOLEAN]
BlockStep == [p \in Block \X AnyAttachment |-> NameAttachment(p[1], p[2])]

\* What naming one does, without the cases.
LEMMA NameAttachmentIs ==
  ASSUME NEW b \in Block, NEW a \in AnyAttachment
  PROVE  /\ b.more => NameAttachment(b, a) = b
         /\ ~b.more /\ b.total >= UploadsLimit => NameAttachment(b, a) = [b EXCEPT !.more = TRUE]
         /\ ~b.more /\ b.total < UploadsLimit /\ ~a.reads => NameAttachment(b, a) = b
         /\ ~b.more /\ b.total < UploadsLimit /\ a.reads =>
                \E n \in 1..PerFile : NameAttachment(b, a) = [b EXCEPT !.named = @ + 1, !.total = @ + n]
<1>1. /\ UploadsLimit \in Nat /\ PerFile \in Nat /\ PerFile >= 1 /\ b.total \in Nat /\ b.more \in BOOLEAN
      /\ a.size \in Nat
  BY SnapshotAssumption DEF Block, AnyAttachment
<1>2. ASSUME b.more PROVE NameAttachment(b, a) = b
  BY <1>2 DEF NameAttachment
<1>3. ASSUME ~b.more /\ b.total >= UploadsLimit PROVE NameAttachment(b, a) = [b EXCEPT !.more = TRUE]
  <2>1. ~(~b.more /\ b.total < UploadsLimit)
    BY <1>1, <1>3
  <2>2. QED
    BY <1>3, <2>1 DEF NameAttachment
<1>4. ASSUME ~b.more /\ b.total < UploadsLimit /\ a.reads
      PROVE  \E n \in 1..PerFile : NameAttachment(b, a) = [b EXCEPT !.named = @ + 1, !.total = @ + n]
  <2> DEFINE n == IF a.text /\ a.size > 0 THEN (IF a.size > PerFile THEN PerFile ELSE a.size) ELSE 1
  <2>1. n \in 1..PerFile
    BY <1>1
  <2>2. NameAttachment(b, a) = [b EXCEPT !.named = @ + 1, !.total = @ + n]
    BY <1>1, <1>4 DEF NameAttachment
  <2> HIDE DEF n
  <2>3. QED
    BY <2>1, <2>2
<1>5. ASSUME ~b.more /\ b.total < UploadsLimit /\ ~a.reads PROVE NameAttachment(b, a) = b
  <2>1. ~(~b.more /\ b.total >= UploadsLimit)
    BY <1>1, <1>5
  <2>2. QED
    BY <1>5, <2>1 DEF NameAttachment
<1>6. QED
  BY <1>2, <1>3, <1>4, <1>5

LEMMA BlockStepIs ==
  /\ NoBlock \in Block
  /\ \A b \in Block, a \in AnyAttachment :
         NameAttachment(b, a) \in Block /\ BlockStep[<<b, a>>] = NameAttachment(b, a)
  /\ Operation(BlockStep, Block, AnyAttachment)
<1>1. NoBlock \in Block
  BY DEF NoBlock, Block
<1>2. ASSUME NEW b \in Block, NEW a \in AnyAttachment PROVE NameAttachment(b, a) \in Block
  <2>1. /\ b.more => NameAttachment(b, a) = b
        /\ ~b.more /\ b.total >= UploadsLimit => NameAttachment(b, a) = [b EXCEPT !.more = TRUE]
        /\ ~b.more /\ b.total < UploadsLimit /\ ~a.reads => NameAttachment(b, a) = b
        /\ ~b.more /\ b.total < UploadsLimit /\ a.reads =>
               \E n \in 1..PerFile : NameAttachment(b, a) = [b EXCEPT !.named = @ + 1, !.total = @ + n]
    BY NameAttachmentIs
  <2>2. b.total \in Nat /\ b.named \in Nat /\ b.more \in BOOLEAN /\ UploadsLimit \in Nat /\ PerFile \in Nat
    BY SnapshotAssumption DEF Block
  <2>3. CASE b.more
    BY <2>1, <2>3
  <2>4. CASE ~b.more /\ b.total >= UploadsLimit
    BY <2>1, <2>4 DEF Block
  <2>r. CASE ~b.more /\ b.total < UploadsLimit /\ ~a.reads
    BY <2>1, <2>r
  <2>5. CASE ~b.more /\ b.total < UploadsLimit /\ a.reads
    <3>1. PICK n \in 1..PerFile : NameAttachment(b, a) = [b EXCEPT !.named = @ + 1, !.total = @ + n]
      BY <2>1, <2>5
    <3>2. b.named + 1 \in Nat /\ b.total + n \in Nat
      BY <2>2
    <3>3. QED
      BY <3>1, <3>2 DEF Block
  <2>6. QED
    BY <2>2, <2>3, <2>4, <2>r, <2>5
<1>3. \A p \in Block \X AnyAttachment : p[1] \in Block /\ p[2] \in AnyAttachment
  OBVIOUS
<1>4. QED
  BY <1>1, <1>2, <1>3 DEF BlockStep, Operation

LEMMA BlockFolded ==
  ASSUME NEW s \in Seq(AnyAttachment)
  PROVE  AttachmentsCtx(s) = Folded(BlockStep, NoBlock, s)
<1> DEFINE Iter(g) == g = [t \in SUBSET DOMAIN s |->
                              IF t = {} THEN NoBlock ELSE NameAttachment(g[t \ {Max(t)}], s[Max(t)])]
           g == CHOOSE g : Iter(g)
           m == Len(s)
<1>1. AttachmentsCtx(s) = g[DOMAIN s]
  BY Zenon DEF AttachmentsCtx, FoldLeft, MapThenFoldSet
<1>2. m \in Nat /\ DOMAIN s = 1..m /\ \A i \in 1..m : s[i] \in AnyAttachment
  BY LenProperties
<1>3. PICK f \in [SUBSET (1..m) -> Block] : Folds(f, BlockStep, NoBlock, s, m)
  BY FoldsExist, BlockStepIs
<1> HIDE DEF m
<1>4. \A t \in SUBSET (1..m) : t # {} => Max(t) \in t
  BY <1>2, MaxInside
<1>5. Iter(f)
  <2>1. ASSUME NEW t \in SUBSET (1..m), t # {}
        PROVE  BlockStep[<<f[t \ {Max(t)}], s[Max(t)]>>] = NameAttachment(f[t \ {Max(t)}], s[Max(t)])
    <3>1. s[Max(t)] \in AnyAttachment /\ f[t \ {Max(t)}] \in Block
      BY <1>2, <1>4, <2>1
    <3>2. QED
      BY <3>1, BlockStepIs
  <2>2. f = [t \in SUBSET (1..m) |->
                IF t = {} THEN NoBlock ELSE BlockStep[<<f[t \ {Max(t)}], s[Max(t)]>>]]
    BY <1>3, Zenon DEF Folds
  <2>3. f = [t \in SUBSET (1..m) |-> IF t = {} THEN NoBlock ELSE NameAttachment(f[t \ {Max(t)}], s[Max(t)])]
    BY <2>1, <2>2, Zenon
  <2>4. QED
    BY <1>2, <2>3
<1>6. Iter(g)
  BY <1>5, Zenon
<1> HIDE DEF g
<1>7. \A t \in SUBSET (1..m) : g[t] = IF t = {} THEN NoBlock ELSE NameAttachment(g[t \ {Max(t)}], s[Max(t)])
  BY <1>2, <1>6, Zenon
<1>8. ASSUME NEW i \in 0..(m - 1), g[1..i] \in Block
      PROVE  g[1..(i + 1)] = BlockStep[<<g[1..i], s[i + 1]>>]
  <2>1. /\ i \in Nat /\ i + 1 \in 1..m /\ i + 1 \in 1..(i + 1)
        /\ 1..(i + 1) \in SUBSET (1..m) /\ (1..(i + 1)) \ {i + 1} = 1..i
    BY <1>2
  <2>2. Max(1..(i + 1)) = i + 1
    BY <2>1, Greatest
  <2>3. 1..(i + 1) # {}
    BY <2>1
  <2>4. g[1..(i + 1)] = NameAttachment(g[(1..(i + 1)) \ {Max(1..(i + 1))}], s[Max(1..(i + 1))])
    BY <1>7, <2>1, <2>3, Zenon
  <2>5. g[1..(i + 1)] = NameAttachment(g[1..i], s[i + 1])
    BY <2>1, <2>2, <2>4, Zenon
  <2>6. QED
    BY <1>2, <1>8, <2>1, <2>5, BlockStepIs
<1>9. g[{}] = NoBlock
  BY <1>7
<1>10. g[1..m] = (CHOOSE h : Folds(h, BlockStep, NoBlock, s, Len(s)))[1..m]
  <2> DEFINE step == BlockStep
  <2>1. NoBlock \in Block /\ Operation(step, Block, AnyAttachment)
    BY BlockStepIs
  <2>2. \A i \in 0..(m - 1) : g[1..i] \in Block => g[1..(i + 1)] = step[<<g[1..i], s[i + 1]>>]
    BY <1>8
  <2> HIDE DEF step
  <2>3. m \in 0..m /\ m <= m /\ Len(s) = m
    BY <1>2 DEF m
  <2>4. g[1..m] = (CHOOSE h : Folds(h, step, NoBlock, s, Len(s)))[1..m]
    BY <1>9, <2>1, <2>2, <2>3, WalkIsFold
  <2>5. QED
    BY <2>4, Zenon DEF step
<1>11. QED
  BY <1>1, <1>2, <1>10, Zenon DEF Folded, m

LEMMA BlockLaws ==
  /\ AttachmentsCtx(<<>>) = NoBlock
  /\ \A s \in Seq(AnyAttachment) : AttachmentsCtx(s) \in Block
  /\ \A s \in Seq(AnyAttachment), e \in AnyAttachment : AttachmentsCtx(Append(s, e)) =
          NameAttachment(AttachmentsCtx(s), e)
<1>0. NoBlock \in Block /\ Operation(BlockStep, Block, AnyAttachment)
  BY BlockStepIs
<1>1. /\ Folded(BlockStep, NoBlock, <<>>) = NoBlock
      /\ \A s \in Seq(AnyAttachment) : Folded(BlockStep, NoBlock, s) \in Block
      /\ \A s \in Seq(AnyAttachment), e \in AnyAttachment :
             Folded(BlockStep, NoBlock, Append(s, e)) = BlockStep[<<Folded(BlockStep, NoBlock, s), e>>]
  BY <1>0, FoldedLaws
<1>2. <<>> \in Seq(AnyAttachment) /\ \A s \in Seq(AnyAttachment), e \in AnyAttachment :
        Append(s, e) \in Seq(AnyAttachment)
  BY EmptySeq, AppendProperties
<1>3. \A s \in Seq(AnyAttachment) : AttachmentsCtx(s) = Folded(BlockStep, NoBlock, s)
  BY BlockFolded
<1>4. AttachmentsCtx(<<>>) = NoBlock /\ \A s \in Seq(AnyAttachment) : AttachmentsCtx(s) \in Block
  BY <1>1, <1>2, <1>3
<1>5. ASSUME NEW s \in Seq(AnyAttachment), NEW e \in AnyAttachment
     PROVE AttachmentsCtx(Append(s, e)) = NameAttachment(AttachmentsCtx(s), e)
  <2>1. AttachmentsCtx(Append(s, e)) = BlockStep[<<AttachmentsCtx(s), e>>]
    BY <1>1, <1>2, <1>3
  <2>2. QED
    BY <1>4, <2>1, BlockStepIs
<1>6. QED
  BY <1>4, <1>5

UploadList == Seq(AnyAttachment)
ToldStep == [p \in UploadList \X AnyAttachment |-> IF p[2].reads THEN Append(p[1], p[2]) ELSE p[1]]

LEMMA ToldStepIs ==
  /\ <<>> \in UploadList
  /\ \A b \in UploadList, e \in AnyAttachment :
         /\ (IF e.reads THEN Append(b, e) ELSE b) \in UploadList
         /\ ToldStep[<<b, e>>] = IF e.reads THEN Append(b, e) ELSE b
  /\ Operation(ToldStep, UploadList, AnyAttachment)
<1>1. <<>> \in UploadList /\ \A b \in UploadList, e \in AnyAttachment : Append(b, e) \in UploadList
  BY EmptySeq, AppendProperties DEF UploadList
<1>2. \A p \in UploadList \X AnyAttachment : p[1] \in UploadList /\ p[2] \in AnyAttachment
  OBVIOUS
<1>3. QED
  BY <1>1, <1>2 DEF ToldStep, Operation

LEMMA ToldFolded ==
  ASSUME NEW s \in Seq(AnyAttachment)
  PROVE  Uploads(s) = Folded(ToldStep, <<>>, s)
<1> DEFINE Iter(g) == g = [t \in SUBSET DOMAIN s |->
                              IF t = {} THEN <<>> ELSE
                                      (IF s[Max(t)].reads
                                       THEN Append(g[t \ {Max(t)}], s[Max(t)])
                                       ELSE g[t \ {Max(t)}])]
           g == CHOOSE g : Iter(g)
           m == Len(s)
<1>1. Uploads(s) = g[DOMAIN s]
  BY Zenon DEF Uploads, Select, FoldLeft, MapThenFoldSet
<1>2. m \in Nat /\ DOMAIN s = 1..m /\ \A i \in 1..m : s[i] \in AnyAttachment
  BY LenProperties
<1>3. PICK f \in [SUBSET (1..m) -> UploadList] : Folds(f, ToldStep, <<>>, s, m)
  BY FoldsExist, ToldStepIs
<1> HIDE DEF m
<1>4. \A t \in SUBSET (1..m) : t # {} => Max(t) \in t
  BY <1>2, MaxInside
<1>5. Iter(f)
  <2>1. ASSUME NEW t \in SUBSET (1..m), t # {}
        PROVE  ToldStep[<<f[t \ {Max(t)}], s[Max(t)]>>] =
                (IF s[Max(t)].reads
                 THEN Append(f[t \ {Max(t)}], s[Max(t)])
                 ELSE f[t \ {Max(t)}])
    <3>1. s[Max(t)] \in AnyAttachment /\ f[t \ {Max(t)}] \in UploadList
      BY <1>2, <1>4, <2>1
    <3>2. QED
      BY <3>1, ToldStepIs
  <2>2. f = [t \in SUBSET (1..m) |->
                IF t = {} THEN <<>> ELSE ToldStep[<<f[t \ {Max(t)}], s[Max(t)]>>]]
    BY <1>3, Zenon DEF Folds
  <2>3. f = [t \in SUBSET (1..m) |-> IF t = {} THEN <<>> ELSE
          (IF s[Max(t)].reads
           THEN Append(f[t \ {Max(t)}], s[Max(t)])
           ELSE f[t \ {Max(t)}])]
    BY <2>1, <2>2, Zenon
  <2>4. QED
    BY <1>2, <2>3
<1>6. Iter(g)
  BY <1>5, Zenon
<1> HIDE DEF g
<1>7. \A t \in SUBSET (1..m) : g[t] = IF t = {} THEN <<>> ELSE
        (IF s[Max(t)].reads
         THEN Append(g[t \ {Max(t)}], s[Max(t)])
         ELSE g[t \ {Max(t)}])
  BY <1>2, <1>6, Zenon
<1>8. ASSUME NEW i \in 0..(m - 1), g[1..i] \in UploadList
      PROVE  g[1..(i + 1)] = ToldStep[<<g[1..i], s[i + 1]>>]
  <2>1. /\ i \in Nat /\ i + 1 \in 1..m /\ i + 1 \in 1..(i + 1)
        /\ 1..(i + 1) \in SUBSET (1..m) /\ (1..(i + 1)) \ {i + 1} = 1..i
    BY <1>2
  <2>2. Max(1..(i + 1)) = i + 1
    BY <2>1, Greatest
  <2>3. 1..(i + 1) # {}
    BY <2>1
  <2>4. g[1..(i + 1)] =
          (IF s[Max(1..(i + 1))].reads
           THEN Append(g[(1..(i + 1)) \ {Max(1..(i + 1))}], s[Max(1..(i + 1))])
           ELSE g[(1..(i + 1)) \ {Max(1..(i + 1))}])
    BY <1>7, <2>1, <2>3, Zenon
  <2>5. g[1..(i + 1)] = (IF s[i + 1].reads THEN Append(g[1..i], s[i + 1]) ELSE g[1..i])
    BY <2>1, <2>2, <2>4, Zenon
  <2>6. QED
    BY <1>2, <1>8, <2>1, <2>5, ToldStepIs
<1>9. g[{}] = <<>>
  BY <1>7
<1>10. g[1..m] = (CHOOSE h : Folds(h, ToldStep, <<>>, s, Len(s)))[1..m]
  <2> DEFINE step == ToldStep
  <2>1. <<>> \in UploadList /\ Operation(step, UploadList, AnyAttachment)
    BY ToldStepIs
  <2>2. \A i \in 0..(m - 1) : g[1..i] \in UploadList => g[1..(i + 1)] = step[<<g[1..i], s[i + 1]>>]
    BY <1>8
  <2> HIDE DEF step
  <2>3. m \in 0..m /\ m <= m /\ Len(s) = m
    BY <1>2 DEF m
  <2>4. g[1..m] = (CHOOSE h : Folds(h, step, <<>>, s, Len(s)))[1..m]
    BY <1>9, <2>1, <2>2, <2>3, WalkIsFold
  <2>5. QED
    BY <2>4, Zenon DEF step
<1>11. QED
  BY <1>1, <1>2, <1>10, Zenon DEF Folded, m

LEMMA ToldLaws ==
  /\ Uploads(<<>>) = <<>>
  /\ \A s \in Seq(AnyAttachment) : Uploads(s) \in UploadList
  /\ \A s \in Seq(AnyAttachment), e \in AnyAttachment : Uploads(Append(s, e)) =
          (IF e.reads
           THEN Append(Uploads(s), e)
           ELSE Uploads(s))
<1>0. <<>> \in UploadList /\ Operation(ToldStep, UploadList, AnyAttachment)
  BY ToldStepIs
<1>1. /\ Folded(ToldStep, <<>>, <<>>) = <<>>
      /\ \A s \in Seq(AnyAttachment) : Folded(ToldStep, <<>>, s) \in UploadList
      /\ \A s \in Seq(AnyAttachment), e \in AnyAttachment :
             Folded(ToldStep, <<>>, Append(s, e)) = ToldStep[<<Folded(ToldStep, <<>>, s), e>>]
  BY <1>0, FoldedLaws
<1>2. <<>> \in Seq(AnyAttachment) /\ \A s \in Seq(AnyAttachment), e \in AnyAttachment :
        Append(s, e) \in Seq(AnyAttachment)
  BY EmptySeq, AppendProperties
<1>3. \A s \in Seq(AnyAttachment) : Uploads(s) = Folded(ToldStep, <<>>, s)
  BY ToldFolded
<1>4. Uploads(<<>>) = <<>> /\ \A s \in Seq(AnyAttachment) : Uploads(s) \in UploadList
  BY <1>1, <1>2, <1>3
<1>5. ASSUME NEW s \in Seq(AnyAttachment), NEW e \in AnyAttachment
     PROVE Uploads(Append(s, e)) = (IF e.reads THEN Append(Uploads(s), e) ELSE Uploads(s))
  <2>1. Uploads(Append(s, e)) = ToldStep[<<Uploads(s), e>>]
    BY <1>1, <1>2, <1>3
  <2>2. QED
    BY <1>4, <2>1, ToldStepIs
<1>6. QED
  BY <1>4, <1>5

LEMMA UploadsOfAny ==
  ASSUME NEW s \in Seq(AnyAttachment)
  PROVE  UploadsAreTold(s)
<1> DEFINE S == {r \in Seq(AnyAttachment) : /\ AttachmentsCtx(r).named = Len(Uploads(r)) \/ AttachmentsCtx(r).more
                                           /\ AttachmentsCtx(r).total < UploadsLimit + PerFile}
<1>0. UploadsLimit \in Nat /\ PerFile \in Nat /\ PerFile >= 1
  BY SnapshotAssumption
<1>1. <<>> \in S
  BY <1>0, BlockLaws, ToldLaws, EmptySeq DEF NoBlock
<1>2. ASSUME NEW r \in Seq(AnyAttachment), NEW a \in AnyAttachment, r \in S PROVE Append(r, a) \in S
  <2> DEFINE b == AttachmentsCtx(r)
             c == AttachmentsCtx(Append(r, a))
             m == Len(Uploads(r))
             n1 == Len(Uploads(Append(r, a)))
  <2>1. c = NameAttachment(b, a) /\ b \in Block
    BY BlockLaws
  <2>3. (b.named = m \/ b.more) /\ b.total < UploadsLimit + PerFile
    BY <1>2
  <2>4. m \in Nat /\ n1 = IF a.reads THEN m + 1 ELSE m
    <3>1. /\ Uploads(r) \in Seq(AnyAttachment)
          /\ Uploads(Append(r, a)) = IF a.reads THEN Append(Uploads(r), a) ELSE Uploads(r)
      BY ToldLaws DEF UploadList
    <3>2. Len(Append(Uploads(r), a)) = Len(Uploads(r)) + 1 /\ Len(Uploads(r)) \in Nat
      BY <3>1, AppendProperties, LenProperties
    <3>3. QED
      BY <3>1, <3>2
  <2>a. Append(r, a) \in Seq(AnyAttachment)
    BY AppendProperties
  <2> HIDE DEF b, c, m, n1
  <2>2. /\ b.more => c = b
        /\ ~b.more /\ b.total >= UploadsLimit => c = [b EXCEPT !.more = TRUE]
        /\ ~b.more /\ b.total < UploadsLimit /\ ~a.reads => c = b
        /\ ~b.more /\ b.total < UploadsLimit /\ a.reads =>
               \E n \in 1..PerFile : c = [b EXCEPT !.named = @ + 1, !.total = @ + n]
    BY <2>1, NameAttachmentIs
  <2>5. b.named \in Nat /\ b.total \in Nat /\ b.more \in BOOLEAN
    BY <2>1 DEF Block
  <2>6. (c.named = n1 \/ c.more) /\ c.total < UploadsLimit + PerFile
    <3>2. CASE b.more
      BY <2>2, <2>3, <3>2
    <3>3. CASE ~b.more /\ b.total >= UploadsLimit
      <4>1. c.more = TRUE /\ c.total = b.total
        BY <2>1, <2>2, <3>3 DEF Block
      <4>2. QED
        BY <2>3, <4>1
    <3>r. CASE ~b.more /\ b.total < UploadsLimit /\ ~a.reads
      BY <2>2, <2>3, <2>4, <3>r
    <3>4. CASE ~b.more /\ b.total < UploadsLimit /\ a.reads
      <4>1. PICK n \in 1..PerFile : c = [b EXCEPT !.named = @ + 1, !.total = @ + n]
        BY <2>2, <3>4
      <4>2. c.named = b.named + 1 /\ c.total = b.total + n
        BY <2>1, <4>1 DEF Block
      <4>3. QED
        BY <1>0, <2>3, <2>4, <2>5, <3>4, <4>2
    <3>5. QED
      BY <1>0, <2>5, <3>2, <3>3, <3>r, <3>4
  <2>7. QED
    BY <2>a, <2>6 DEF c, n1
<1> HIDE DEF S
<1>3. s \in S
  BY <1>1, <1>2, SequenceInduction
<1>4. QED
  BY <1>3 DEF S, UploadsAreTold

-----------------------------------------------------------------------------
(* The activity of a task.                                                  *)

AnyEvent == [kind : {"heartbeat", "claimed", "completed", "failed", "blocked", "promoted"}, at : Nat]
Ends == {"completed", "failed", "blocked"}
Log == [shown : Seq(AnyEvent), beat : Nat]
LogStep == [p \in Log \X AnyEvent |-> ShowEvent(p[1], p[2])]
EventList == Seq(AnyEvent)
ShownAs(events) == FoldLeft(ShowEvent, NoActivity, events)
EndsStep == [p \in EventList \X AnyEvent |-> IF p[2].kind \in Ends THEN Append(p[1], p[2]) ELSE p[1]]

\* What one event does to the log, without the cases.
LEMMA ShowEventIs ==
  ASSUME NEW b \in Log, NEW e \in AnyEvent
  PROVE  \/ /\ e.kind = "heartbeat" /\ e.at - b.beat >= Minute
            /\ ShowEvent(b, e) = [shown |-> Append(b.shown, e), beat |-> e.at]
         \/ /\ e.kind # "heartbeat"
            /\ ShowEvent(b, e) = [b EXCEPT !.shown = Append(@, e)]
         \/ e.kind \notin Ends /\ ShowEvent(b, e) = b
<1>1. CASE e.kind = "heartbeat"
  BY <1>1 DEF ShowEvent, Ends
<1>2. CASE e.kind \in {"claimed", "completed", "failed", "blocked"}
  <2>1. e.kind # "heartbeat"
    BY <1>2
  <2>2. ShowEvent(b, e) = [b EXCEPT !.shown = Append(@, e)]
    BY <1>2, <2>1 DEF ShowEvent
  <2>3. QED
    BY <2>1, <2>2
<1>3. CASE e.kind = "promoted"
  BY <1>3 DEF ShowEvent, Ends
<1>4. QED
  BY <1>1, <1>2, <1>3 DEF AnyEvent

LEMMA LogStepIs ==
  /\ NoActivity \in Log
  /\ \A b \in Log, e \in AnyEvent : ShowEvent(b, e) \in Log /\ LogStep[<<b, e>>] = ShowEvent(b, e)
  /\ Operation(LogStep, Log, AnyEvent)
<1>1. NoActivity \in Log
  BY EmptySeq DEF NoActivity, Log
<1>2. ASSUME NEW b \in Log, NEW e \in AnyEvent PROVE ShowEvent(b, e) \in Log
  <2>1. b.shown \in Seq(AnyEvent) /\ b.beat \in Nat /\ Append(b.shown, e) \in Seq(AnyEvent) /\ e.at \in Nat
    BY AppendProperties DEF Log, AnyEvent
  <2>2. \/ ShowEvent(b, e) = [shown |-> Append(b.shown, e), beat |-> e.at]
        \/ ShowEvent(b, e) = [b EXCEPT !.shown = Append(@, e)]
        \/ ShowEvent(b, e) = b
    BY ShowEventIs
  <2>3. CASE ShowEvent(b, e) = [shown |-> Append(b.shown, e), beat |-> e.at]
    BY <2>1, <2>3 DEF Log
  <2>4. CASE ShowEvent(b, e) = [b EXCEPT !.shown = Append(@, e)]
    BY <2>1, <2>4 DEF Log
  <2>5. QED
    BY <2>2, <2>3, <2>4
<1>3. \A p \in Log \X AnyEvent : p[1] \in Log /\ p[2] \in AnyEvent
  OBVIOUS
<1>4. QED
  BY <1>1, <1>2, <1>3 DEF LogStep, Operation

LEMMA EndsStepIs ==
  /\ <<>> \in EventList
  /\ \A b \in EventList, e \in AnyEvent :
         /\ (IF e.kind \in Ends THEN Append(b, e) ELSE b) \in EventList
         /\ EndsStep[<<b, e>>] = IF e.kind \in Ends THEN Append(b, e) ELSE b
  /\ Operation(EndsStep, EventList, AnyEvent)
<1>1. <<>> \in EventList /\ \A b \in EventList, e \in AnyEvent : Append(b, e) \in EventList
  BY EmptySeq, AppendProperties DEF EventList
<1>2. \A p \in EventList \X AnyEvent : p[1] \in EventList /\ p[2] \in AnyEvent
  OBVIOUS
<1>3. QED
  BY <1>1, <1>2 DEF EndsStep, Operation

LEMMA EventsAre ==
  ASSUME NEW s \in Seq(AnyEvent)
  PROVE  Len(s) \in Nat /\ DOMAIN s = 1..Len(s) /\ \A i \in 1..Len(s) : s[i].at \in Nat
<1>1. Len(s) \in Nat /\ DOMAIN s = 1..Len(s) /\ \A i \in 1..Len(s) : s[i] \in AnyEvent
  BY LenProperties
<1>2. \A e \in AnyEvent : e.at \in Nat
  BY DEF AnyEvent
<1>3. QED
  BY <1>1, <1>2

LEMMA LogFolded ==
  ASSUME NEW s \in Seq(AnyEvent)
  PROVE  ShownAs(s) = Folded(LogStep, NoActivity, s)
<1> DEFINE Iter(g) == g = [t \in SUBSET DOMAIN s |->
                              IF t = {} THEN NoActivity ELSE ShowEvent(g[t \ {Max(t)}], s[Max(t)])]
           g == CHOOSE g : Iter(g)
           m == Len(s)
<1>1. ShownAs(s) = g[DOMAIN s]
  BY Zenon DEF ShownAs, FoldLeft, MapThenFoldSet
<1>2. m \in Nat /\ DOMAIN s = 1..m /\ \A i \in 1..m : s[i] \in AnyEvent
  BY LenProperties
<1>3. PICK f \in [SUBSET (1..m) -> Log] : Folds(f, LogStep, NoActivity, s, m)
  BY FoldsExist, LogStepIs
<1> HIDE DEF m
<1>4. \A t \in SUBSET (1..m) : t # {} => Max(t) \in t
  BY <1>2, MaxInside
<1>5. Iter(f)
  <2>1. ASSUME NEW t \in SUBSET (1..m), t # {}
        PROVE  LogStep[<<f[t \ {Max(t)}], s[Max(t)]>>] = ShowEvent(f[t \ {Max(t)}], s[Max(t)])
    <3>1. s[Max(t)] \in AnyEvent /\ f[t \ {Max(t)}] \in Log
      BY <1>2, <1>4, <2>1
    <3>2. QED
      BY <3>1, LogStepIs
  <2>2. f = [t \in SUBSET (1..m) |->
                IF t = {} THEN NoActivity ELSE LogStep[<<f[t \ {Max(t)}], s[Max(t)]>>]]
    BY <1>3, Zenon DEF Folds
  <2>3. f = [t \in SUBSET (1..m) |-> IF t = {} THEN NoActivity ELSE ShowEvent(f[t \ {Max(t)}], s[Max(t)])]
    BY <2>1, <2>2, Zenon
  <2>4. QED
    BY <1>2, <2>3
<1>6. Iter(g)
  BY <1>5, Zenon
<1> HIDE DEF g
<1>7. \A t \in SUBSET (1..m) : g[t] = IF t = {} THEN NoActivity ELSE ShowEvent(g[t \ {Max(t)}], s[Max(t)])
  BY <1>2, <1>6, Zenon
<1>8. ASSUME NEW i \in 0..(m - 1), g[1..i] \in Log
      PROVE  g[1..(i + 1)] = LogStep[<<g[1..i], s[i + 1]>>]
  <2>1. /\ i \in Nat /\ i + 1 \in 1..m /\ i + 1 \in 1..(i + 1)
        /\ 1..(i + 1) \in SUBSET (1..m) /\ (1..(i + 1)) \ {i + 1} = 1..i
    BY <1>2
  <2>2. Max(1..(i + 1)) = i + 1
    BY <2>1, Greatest
  <2>3. 1..(i + 1) # {}
    BY <2>1
  <2>4. g[1..(i + 1)] = ShowEvent(g[(1..(i + 1)) \ {Max(1..(i + 1))}], s[Max(1..(i + 1))])
    BY <1>7, <2>1, <2>3, Zenon
  <2>5. g[1..(i + 1)] = ShowEvent(g[1..i], s[i + 1])
    BY <2>1, <2>2, <2>4, Zenon
  <2>6. QED
    BY <1>2, <1>8, <2>1, <2>5, LogStepIs
<1>9. g[{}] = NoActivity
  BY <1>7
<1>10. g[1..m] = (CHOOSE h : Folds(h, LogStep, NoActivity, s, Len(s)))[1..m]
  <2> DEFINE step == LogStep
  <2>1. NoActivity \in Log /\ Operation(step, Log, AnyEvent)
    BY LogStepIs
  <2>2. \A i \in 0..(m - 1) : g[1..i] \in Log => g[1..(i + 1)] = step[<<g[1..i], s[i + 1]>>]
    BY <1>8
  <2> HIDE DEF step
  <2>3. m \in 0..m /\ m <= m /\ Len(s) = m
    BY <1>2 DEF m
  <2>4. g[1..m] = (CHOOSE h : Folds(h, step, NoActivity, s, Len(s)))[1..m]
    BY <1>9, <2>1, <2>2, <2>3, WalkIsFold
  <2>5. QED
    BY <2>4, Zenon DEF step
<1>11. QED
  BY <1>1, <1>2, <1>10, Zenon DEF Folded, m

LEMMA LogLaws ==
  /\ ShownAs(<<>>) = NoActivity
  /\ \A s \in Seq(AnyEvent) : ShownAs(s) \in Log
  /\ \A s \in Seq(AnyEvent), e \in AnyEvent : ShownAs(Append(s, e)) = ShowEvent(ShownAs(s), e)
<1>0. NoActivity \in Log /\ Operation(LogStep, Log, AnyEvent)
  BY LogStepIs
<1>1. /\ Folded(LogStep, NoActivity, <<>>) = NoActivity
      /\ \A s \in Seq(AnyEvent) : Folded(LogStep, NoActivity, s) \in Log
      /\ \A s \in Seq(AnyEvent), e \in AnyEvent :
             Folded(LogStep, NoActivity, Append(s, e)) = LogStep[<<Folded(LogStep, NoActivity, s), e>>]
  BY <1>0, FoldedLaws
<1>2. <<>> \in Seq(AnyEvent) /\ \A s \in Seq(AnyEvent), e \in AnyEvent : Append(s, e) \in Seq(AnyEvent)
  BY EmptySeq, AppendProperties
<1>3. \A s \in Seq(AnyEvent) : ShownAs(s) = Folded(LogStep, NoActivity, s)
  BY LogFolded
<1>4. ShownAs(<<>>) = NoActivity /\ \A s \in Seq(AnyEvent) : ShownAs(s) \in Log
  BY <1>1, <1>2, <1>3
<1>5. ASSUME NEW s \in Seq(AnyEvent), NEW e \in AnyEvent PROVE ShownAs(Append(s, e)) = ShowEvent(ShownAs(s), e)
  <2>1. ShownAs(Append(s, e)) = LogStep[<<ShownAs(s), e>>]
    BY <1>1, <1>2, <1>3
  <2>2. QED
    BY <1>4, <2>1, LogStepIs
<1>6. QED
  BY <1>4, <1>5

LEMMA EndsFolded ==
  ASSUME NEW s \in Seq(AnyEvent)
  PROVE  Outcomes(s) = Folded(EndsStep, <<>>, s)
<1> DEFINE Iter(g) == g = [t \in SUBSET DOMAIN s |->
                              IF t = {} THEN <<>> ELSE
                                      (IF s[Max(t)].kind \in Ends
                                       THEN Append(g[t \ {Max(t)}], s[Max(t)])
                                       ELSE g[t \ {Max(t)}])]
           g == CHOOSE g : Iter(g)
           m == Len(s)
<1>1. Outcomes(s) = g[DOMAIN s]
  BY Zenon DEF Outcomes, Select, Ends, FoldLeft, MapThenFoldSet
<1>2. m \in Nat /\ DOMAIN s = 1..m /\ \A i \in 1..m : s[i] \in AnyEvent
  BY LenProperties
<1>3. PICK f \in [SUBSET (1..m) -> EventList] : Folds(f, EndsStep, <<>>, s, m)
  BY FoldsExist, EndsStepIs
<1> HIDE DEF m
<1>4. \A t \in SUBSET (1..m) : t # {} => Max(t) \in t
  BY <1>2, MaxInside
<1>5. Iter(f)
  <2>1. ASSUME NEW t \in SUBSET (1..m), t # {}
        PROVE  EndsStep[<<f[t \ {Max(t)}], s[Max(t)]>>] =
                (IF s[Max(t)].kind \in Ends
                 THEN Append(f[t \ {Max(t)}], s[Max(t)])
                 ELSE f[t \ {Max(t)}])
    <3>1. s[Max(t)] \in AnyEvent /\ f[t \ {Max(t)}] \in EventList
      BY <1>2, <1>4, <2>1
    <3>2. QED
      BY <3>1, EndsStepIs
  <2>2. f = [t \in SUBSET (1..m) |->
                IF t = {} THEN <<>> ELSE EndsStep[<<f[t \ {Max(t)}], s[Max(t)]>>]]
    BY <1>3, Zenon DEF Folds
  <2>3. f = [t \in SUBSET (1..m) |-> IF t = {} THEN <<>> ELSE
          (IF s[Max(t)].kind \in Ends
           THEN Append(f[t \ {Max(t)}], s[Max(t)])
           ELSE f[t \ {Max(t)}])]
    BY <2>1, <2>2, Zenon
  <2>4. QED
    BY <1>2, <2>3
<1>6. Iter(g)
  BY <1>5, Zenon
<1> HIDE DEF g
<1>7. \A t \in SUBSET (1..m) : g[t] = IF t = {} THEN <<>> ELSE
        (IF s[Max(t)].kind \in Ends
         THEN Append(g[t \ {Max(t)}], s[Max(t)])
         ELSE g[t \ {Max(t)}])
  BY <1>2, <1>6, Zenon
<1>8. ASSUME NEW i \in 0..(m - 1), g[1..i] \in EventList
      PROVE  g[1..(i + 1)] = EndsStep[<<g[1..i], s[i + 1]>>]
  <2>1. /\ i \in Nat /\ i + 1 \in 1..m /\ i + 1 \in 1..(i + 1)
        /\ 1..(i + 1) \in SUBSET (1..m) /\ (1..(i + 1)) \ {i + 1} = 1..i
    BY <1>2
  <2>2. Max(1..(i + 1)) = i + 1
    BY <2>1, Greatest
  <2>3. 1..(i + 1) # {}
    BY <2>1
  <2>4. g[1..(i + 1)] =
          (IF s[Max(1..(i + 1))].kind \in Ends
           THEN Append(g[(1..(i + 1)) \ {Max(1..(i + 1))}], s[Max(1..(i + 1))])
           ELSE g[(1..(i + 1)) \ {Max(1..(i + 1))}])
    BY <1>7, <2>1, <2>3, Zenon
  <2>5. g[1..(i + 1)] = (IF s[i + 1].kind \in Ends THEN Append(g[1..i], s[i + 1]) ELSE g[1..i])
    BY <2>1, <2>2, <2>4, Zenon
  <2>6. QED
    BY <1>2, <1>8, <2>1, <2>5, EndsStepIs
<1>9. g[{}] = <<>>
  BY <1>7
<1>10. g[1..m] = (CHOOSE h : Folds(h, EndsStep, <<>>, s, Len(s)))[1..m]
  <2> DEFINE step == EndsStep
  <2>1. <<>> \in EventList /\ Operation(step, EventList, AnyEvent)
    BY EndsStepIs
  <2>2. \A i \in 0..(m - 1) : g[1..i] \in EventList => g[1..(i + 1)] = step[<<g[1..i], s[i + 1]>>]
    BY <1>8
  <2> HIDE DEF step
  <2>3. m \in 0..m /\ m <= m /\ Len(s) = m
    BY <1>2 DEF m
  <2>4. g[1..m] = (CHOOSE h : Folds(h, step, <<>>, s, Len(s)))[1..m]
    BY <1>9, <2>1, <2>2, <2>3, WalkIsFold
  <2>5. QED
    BY <2>4, Zenon DEF step
<1>11. QED
  BY <1>1, <1>2, <1>10, Zenon DEF Folded, m

LEMMA EndsLaws ==
  /\ Outcomes(<<>>) = <<>>
  /\ \A s \in Seq(AnyEvent) : Outcomes(s) \in EventList
  /\ \A s \in Seq(AnyEvent), e \in AnyEvent : Outcomes(Append(s, e)) =
          (IF e.kind \in Ends
           THEN Append(Outcomes(s), e)
           ELSE Outcomes(s))
<1>0. <<>> \in EventList /\ Operation(EndsStep, EventList, AnyEvent)
  BY EndsStepIs
<1>1. /\ Folded(EndsStep, <<>>, <<>>) = <<>>
      /\ \A s \in Seq(AnyEvent) : Folded(EndsStep, <<>>, s) \in EventList
      /\ \A s \in Seq(AnyEvent), e \in AnyEvent :
             Folded(EndsStep, <<>>, Append(s, e)) = EndsStep[<<Folded(EndsStep, <<>>, s), e>>]
  BY <1>0, FoldedLaws
<1>2. <<>> \in Seq(AnyEvent) /\ \A s \in Seq(AnyEvent), e \in AnyEvent : Append(s, e) \in Seq(AnyEvent)
  BY EmptySeq, AppendProperties
<1>3. \A s \in Seq(AnyEvent) : Outcomes(s) = Folded(EndsStep, <<>>, s)
  BY EndsFolded
<1>4. Outcomes(<<>>) = <<>> /\ \A s \in Seq(AnyEvent) : Outcomes(s) \in EventList
  BY <1>1, <1>2, <1>3
<1>5. ASSUME NEW s \in Seq(AnyEvent), NEW e \in AnyEvent
     PROVE Outcomes(Append(s, e)) = (IF e.kind \in Ends THEN Append(Outcomes(s), e) ELSE Outcomes(s))
  <2>1. Outcomes(Append(s, e)) = EndsStep[<<Outcomes(s), e>>]
    BY <1>1, <1>2, <1>3
  <2>2. QED
    BY <1>4, <2>1, EndsStepIs
<1>6. QED
  BY <1>4, <1>5

\* Some entry of a log is the latest.
LEMMA LatestIs ==
  ASSUME NEW s \in Seq(AnyEvent), s # <<>>
  PROVE  \E i \in DOMAIN s : \A j \in DOMAIN s : s[j].at <= s[i].at
<1> DEFINE Has(r) == \E i \in 1..Len(r) : \A j \in 1..Len(r) : r[j].at <= r[i].at
           S == {r \in Seq(AnyEvent) : r = <<>> \/ Has(r)}
<1>1. <<>> \in S
  BY EmptySeq
<1>2. ASSUME NEW r \in Seq(AnyEvent), NEW e \in AnyEvent, r \in S PROVE Append(r, e) \in S
  <2> DEFINE t == Append(r, e)
             n == Len(r)
  <2>1. /\ t \in Seq(AnyEvent) /\ Len(t) = n + 1 /\ t[n + 1] = e /\ \A i \in 1..n : t[i] = r[i]
    BY AppendProperties
  <2>5. n \in Nat /\ e.at \in Nat /\ \A i \in 1..n : r[i].at \in Nat
    BY EventsAre DEF AnyEvent
  <2> HIDE DEF t, Has
  <2>2. CASE r = <<>>
    <3>1. n = 0
      BY <2>2, EmptySeq
    <3> HIDE DEF n
    <3>2. \A j \in 1..Len(t) : j = n + 1
      BY <2>1, <3>1
    <3>3. \A j \in 1..Len(t) : t[j].at <= t[n + 1].at
      <4>1. ASSUME NEW j \in 1..Len(t) PROVE t[j].at <= t[n + 1].at
        <5>1. j = n + 1 /\ t[n + 1].at \in Nat
          BY <2>1, <2>5, <3>2
        <5>2. QED
          BY <5>1
      <4>2. QED
        BY <4>1
    <3>4. Has(t)
      BY <2>1, <2>5, <3>3, SMTT(30) DEF Has
    <3>5. QED
      BY <2>1, <3>4 DEF t
  <2>3. CASE Has(r)
    <3>1. PICK i \in 1..n : \A j \in 1..n : r[j].at <= r[i].at
      BY <2>3 DEF Has
    <3> HIDE DEF n
    <3>2. \A j \in 1..Len(t) : j \in 1..n \/ j = n + 1
      BY <2>1, <2>5
    <3>3. CASE r[i].at <= e.at
      <4>1. \A j \in 1..Len(t) : t[j].at <= t[n + 1].at
        <5>1. ASSUME NEW j \in 1..Len(t) PROVE t[j].at <= t[n + 1].at
          <6>1. t[n + 1].at = e.at /\ e.at \in Nat /\ r[i].at \in Nat
            BY <2>1, <2>5
          <6>2. CASE j = n + 1
            BY <6>1, <6>2
          <6>3. CASE j \in 1..n
            <7>1. t[j].at = r[j].at /\ r[j].at <= r[i].at /\ r[j].at \in Nat
              BY <2>1, <2>5, <3>1, <6>3
            <7>2. QED
              BY <3>3, <6>1, <7>1
          <6>4. QED
            BY <3>2, <6>2, <6>3
        <5>2. QED
          BY <5>1
      <4>2. n + 1 \in 1..Len(t)
        BY <2>1, <2>5
      <4>3. QED
        BY <2>1, <4>1, <4>2 DEF Has, t
    <3>4. CASE ~(r[i].at <= e.at)
      <4>1. \A j \in 1..Len(t) : t[j].at <= t[i].at
        <5>1. ASSUME NEW j \in 1..Len(t) PROVE t[j].at <= t[i].at
          <6>1. t[i].at = r[i].at /\ e.at \in Nat /\ r[i].at \in Nat
            BY <2>1, <2>5
          <6>2. CASE j = n + 1
            <7>1. t[j].at = e.at
              BY <2>1, <6>2
            <7>2. QED
              BY <3>4, <6>1, <7>1
          <6>3. CASE j \in 1..n
            <7>1. t[j].at = r[j].at /\ r[j].at <= r[i].at
              BY <2>1, <3>1, <6>3
            <7>2. QED
              BY <6>1, <7>1
          <6>4. QED
            BY <3>2, <6>2, <6>3
        <5>2. QED
          BY <5>1
      <4>2. i \in 1..Len(t)
        BY <2>1, <2>5
      <4>3. QED
        BY <2>1, <4>1, <4>2 DEF Has, t
    <3>5. QED
      BY <3>3, <3>4
  <2>4. QED
    BY <1>2, <2>2, <2>3
<1> HIDE DEF S, Has
<1>3. s \in S
  BY <1>1, <1>2, SequenceInduction
<1>4. Has(s)
  BY <1>3 DEF S
<1>5. DOMAIN s = 1..Len(s)
  BY LenProperties
<1>6. QED
  BY <1>4, <1>5 DEF Has

\* The heartbeats that show are a minute apart, none later than the last.
Paced(log) ==
    /\ \A i \in 1..Len(log.shown) : log.shown[i].kind = "heartbeat" => log.shown[i].at <= log.beat
    /\ \A i, j \in 1..Len(log.shown) :
           log.shown[i].kind = "heartbeat" /\ log.shown[j].kind = "heartbeat" /\ i < j
               => log.shown[j].at - log.shown[i].at >= Minute

LEMMA LogIsKept ==
  ASSUME NEW s \in Seq(AnyEvent)
  PROVE  Paced(ShownAs(s)) /\ Outcomes(ShownAs(s).shown) = Outcomes(s)
<1> DEFINE S == {r \in Seq(AnyEvent) : Paced(ShownAs(r)) /\ Outcomes(ShownAs(r).shown) = Outcomes(r)}
<1>1. <<>> \in S
  <2>1. ShownAs(<<>>).shown = <<>> /\ Len(<<>>) = 0
    BY LogLaws, EmptySeq DEF NoActivity
  <2>2. QED
    BY <2>1, EmptySeq DEF Paced
<1>2. ASSUME NEW r \in Seq(AnyEvent), NEW e \in AnyEvent, r \in S PROVE Append(r, e) \in S
  <2> DEFINE b == ShownAs(r)
             c == ShownAs(Append(r, e))
  <2>1. c = ShowEvent(b, e) /\ b \in Log
    BY LogLaws
  <2>2. Paced(b) /\ Outcomes(b.shown) = Outcomes(r)
    BY <1>2
  <2>3. /\ Append(r, e) \in Seq(AnyEvent)
        /\ Outcomes(Append(r, e)) = IF e.kind \in Ends THEN Append(Outcomes(r), e) ELSE Outcomes(r)
    BY EndsLaws, AppendProperties
  <2> HIDE DEF b, c
  <2>4. b.shown \in Seq(AnyEvent) /\ b.beat \in Nat /\ e.at \in Nat
    BY <2>1 DEF Log, AnyEvent
  <2>5. /\ Outcomes(Append(b.shown, e))
               = IF e.kind \in Ends THEN Append(Outcomes(b.shown), e) ELSE Outcomes(b.shown)
    BY <2>4, EndsLaws
  <2>6. /\ Append(b.shown, e) \in Seq(AnyEvent)
        /\ Len(Append(b.shown, e)) = Len(b.shown) + 1 /\ Append(b.shown, e)[Len(b.shown) + 1] = e
        /\ \A i \in 1..Len(b.shown) : Append(b.shown, e)[i] = b.shown[i]
    BY <2>4, AppendProperties
  <2>a. Len(b.shown) \in Nat /\ \A i \in 1..Len(b.shown) : b.shown[i].at \in Nat
    BY <2>4, EventsAre
  <2> DEFINE n == Len(b.shown)
  <2>7. \A i \in 1..(n + 1) : i \in 1..n \/ i = n + 1
    BY <2>a
  <2>8. CASE /\ e.kind = "heartbeat" /\ e.at - b.beat >= Minute
             /\ c = [shown |-> Append(b.shown, e), beat |-> e.at]
    <3>1. e.kind \notin Ends
      BY <2>8 DEF Ends
    <3>2. c.shown = Append(b.shown, e) /\ c.beat = e.at
      BY <2>8
    <3>3. \A i \in 1..n : c.shown[i] = b.shown[i] /\ b.shown[i].at \in Nat
      BY <2>6, <2>a, <3>2
    <3>4. c.shown[n + 1] = e /\ Len(c.shown) = n + 1 /\ n \in Nat
      BY <2>6, <2>a, <3>2
    <3>5. /\ \A i \in 1..n : b.shown[i].kind = "heartbeat" => b.shown[i].at <= b.beat
          /\ \A i, j \in 1..n : b.shown[i].kind = "heartbeat" /\ b.shown[j].kind = "heartbeat" /\ i < j
                                    => b.shown[j].at - b.shown[i].at >= Minute
      BY <2>2 DEF Paced
    <3> HIDE DEF n
    <3>6. e.at >= b.beat + 2
      BY <2>4, <2>8 DEF Minute
    <3>7. \A i \in 1..(n + 1) : c.shown[i].kind = "heartbeat" => c.shown[i].at <= c.beat
      BY <2>4, <2>7, <3>2, <3>3, <3>4, <3>5, <3>6, SMTT(30)
    <3>8. ASSUME NEW i \in 1..(n + 1), NEW j \in 1..(n + 1), c.shown[i].kind = "heartbeat",
                 c.shown[j].kind = "heartbeat", i < j
          PROVE  c.shown[j].at - c.shown[i].at >= Minute
      <4>1. i \in 1..n
        BY <3>4, <3>8
      <4>2. CASE j \in 1..n
        BY <3>3, <3>5, <3>8, <4>1, <4>2
      <4>3. CASE j = n + 1
        <5>1. c.shown[j].at = e.at /\ c.shown[i].at = b.shown[i].at /\ b.shown[i].at \in Nat
          BY <3>3, <3>4, <4>1, <4>3
        <5>2. b.shown[i].at <= b.beat
          BY <3>3, <3>5, <3>8, <4>1
        <5>3. QED
          BY <2>4, <3>6, <5>1, <5>2, SMTT(30) DEF Minute
      <4>4. QED
        BY <2>7, <4>2, <4>3
    <3>9. Paced(c)
      BY <3>4, <3>7, <3>8 DEF Paced
    <3>10. QED
      BY <2>2, <2>3, <2>5, <3>1, <3>2, <3>9 DEF c
  <2>9. CASE e.kind # "heartbeat" /\ c = [b EXCEPT !.shown = Append(@, e)]
    <3>1. c.shown = Append(b.shown, e) /\ c.beat = b.beat
      BY <2>1, <2>9 DEF Log
    <3>2. \A i \in 1..n : c.shown[i] = b.shown[i]
      BY <2>6, <3>1
    <3>3. c.shown[n + 1] = e /\ Len(c.shown) = n + 1 /\ n \in Nat
      BY <2>6, <2>a, <3>1
    <3>4. /\ \A i \in 1..n : b.shown[i].kind = "heartbeat" => b.shown[i].at <= b.beat
          /\ \A i, j \in 1..n : b.shown[i].kind = "heartbeat" /\ b.shown[j].kind = "heartbeat" /\ i < j
                                    => b.shown[j].at - b.shown[i].at >= Minute
      BY <2>2 DEF Paced
    <3> HIDE DEF n
    <3>5. \A i \in 1..(n + 1) : c.shown[i].kind = "heartbeat" => i \in 1..n
      BY <2>7, <2>9, <3>3
    <3>6. Paced(c)
      BY <3>1, <3>2, <3>3, <3>4, <3>5 DEF Paced
    <3>7. Outcomes(c.shown) = Outcomes(Append(r, e))
      BY <2>2, <2>3, <2>5, <3>1
    <3>8. QED
      BY <2>3, <3>6, <3>7 DEF c
  <2>10. CASE e.kind \notin Ends /\ c = b
    BY <2>2, <2>3, <2>10 DEF c
  <2>11. QED
    BY <2>1, <2>8, <2>9, <2>10, ShowEventIs
<1> HIDE DEF S
<1>3. s \in S
  BY <1>1, <1>2, SequenceInduction
<1>4. QED
  BY <1>3 DEF S

LEMMA ActivityOfAny ==
  ASSUME NEW s \in Seq(AnyEvent)
  PROVE  ActivityIsHonest(s)
<1> DEFINE shown == TaskActivityEvents(s)
           stamps == {shown[i].at : i \in DOMAIN shown} \cup ({0, 0} \ {0})
<1>1. shown = ShownAs(s).shown /\ ShownAs(s) \in Log
  BY LogLaws DEF TaskActivityEvents, ShownAs
<1>2. Paced(ShownAs(s)) /\ Outcomes(shown) = Outcomes(s)
  BY <1>1, LogIsKept
<1>3. shown \in Seq(AnyEvent) /\ DOMAIN shown = 1..Len(shown)
  BY <1>1, LenProperties DEF Log
<1>4. \A i, j \in DOMAIN shown : shown[i].kind = "heartbeat" /\ shown[j].kind = "heartbeat" /\ i < j
                                     => shown[j].at - shown[i].at >= Minute
  BY <1>1, <1>2, <1>3 DEF Paced
<1>5. ASSUME NEW i \in DOMAIN shown PROVE AttachActivity(s, 0, 0) >= shown[i].at
  <2>1. shown # <<>>
    BY <1>3, EmptySeq
  <2>2. AttachActivity(s, 0, 0) = IF stamps = {} THEN 0 ELSE CHOOSE t \in stamps : \A u \in stamps : u <= t
    BY Zenon DEF AttachActivity
  <2> HIDE DEF shown
  <2>3. PICK k \in DOMAIN shown : \A j \in DOMAIN shown : shown[j].at <= shown[k].at
    BY <1>3, <2>1, LatestIs
  <2>4. stamps = {shown[j].at : j \in DOMAIN shown}
    OBVIOUS
  <2>5. \E t \in stamps : \A u \in stamps : u <= t
    BY <2>3, <2>4
  <2>6. shown[i].at \in stamps
    BY <2>4
  <2> HIDE DEF stamps
  <2>7. \A u \in stamps : u <= (CHOOSE t \in stamps : \A u_ \in stamps : u_ <= t)
    BY <2>5, Zenon
  <2>8. shown[i].at <= (CHOOSE t \in stamps : \A u_ \in stamps : u_ <= t)
    BY <2>6, <2>7, Zenon
  <2>9. shown[i].at <= AttachActivity(s, 0, 0)
    BY <2>2, <2>6, <2>8, Zenon
  <2>10. AttachActivity(s, 0, 0) \in Nat /\ shown[i].at \in Nat
    <3>1. (CHOOSE t \in stamps : \A u_ \in stamps : u_ <= t) \in stamps
      BY <2>5, Zenon
    <3>2. \A j \in DOMAIN shown : shown[j].at \in Nat
      BY <1>3, EventsAre
    <3>3. \A t \in stamps : t \in Nat
      BY <2>4, <3>2 DEF stamps
    <3>4. AttachActivity(s, 0, 0) \in stamps
      BY <2>2, <2>6, <3>1, Zenon
    <3>5. QED
      BY <2>6, <3>3, <3>4
  <2>11. QED
    BY <2>9, <2>10
<1> HIDE DEF stamps
<1>6. QED
  BY <1>2, <1>4, <1>5, Zenon DEF ActivityIsHonest, shown

-----------------------------------------------------------------------------
(* The snapshot of an uploaded code base.                                   *)

AnyMember == [score : Manifest..Other, bytes : Nat, reads : BOOLEAN]
MemberList == Seq(AnyMember)
Haul == [files : MemberList, total : Nat, over : BOOLEAN]
ScoreStep(n) == [p \in MemberList \X AnyMember |-> IF p[2].score = n THEN Append(p[1], p[2]) ELSE p[1]]
ReadStep == [p \in MemberList \X AnyMember |->
                IF p[2].reads /\ p[2].score # Other THEN Append(p[1], p[2]) ELSE p[1]]
HaulStep == [p \in Haul \X AnyMember |-> TakeMember(p[1], p[2])]
TakenOf(members) == FoldLeft(TakeMember, NothingTaken, members)

LEMMA MemberListIs ==
  /\ <<>> \in MemberList /\ \A b \in MemberList, e \in AnyMember : Append(b, e) \in MemberList
  /\ \A p \in MemberList \X AnyMember : p[1] \in MemberList /\ p[2] \in AnyMember
<1>1. <<>> \in MemberList /\ \A b \in MemberList, e \in AnyMember : Append(b, e) \in MemberList
  BY EmptySeq, AppendProperties DEF MemberList
<1>2. QED
  BY <1>1

LEMMA ScoreStepIs ==
  ASSUME NEW n
  PROVE  /\ <<>> \in MemberList
         /\ \A b \in MemberList, e \in AnyMember :
                /\ (IF e.score = n THEN Append(b, e) ELSE b) \in MemberList
                /\ ScoreStep(n)[<<b, e>>] = IF e.score = n THEN Append(b, e) ELSE b
         /\ Operation(ScoreStep(n), MemberList, AnyMember)
BY MemberListIs DEF ScoreStep, Operation

LEMMA ReadStepIs ==
  /\ <<>> \in MemberList
  /\ \A b \in MemberList, e \in AnyMember :
         /\ (IF e.reads /\ e.score # Other THEN Append(b, e) ELSE b) \in MemberList
         /\ ReadStep[<<b, e>>] = IF e.reads /\ e.score # Other THEN Append(b, e) ELSE b
  /\ Operation(ReadStep, MemberList, AnyMember)
BY MemberListIs DEF ReadStep, Operation

\* What taking a member does, without the cases.
LEMMA TakeMemberIs ==
  ASSUME NEW w \in Haul, NEW m \in AnyMember
  PROVE  \/ (w.over \/ w.total >= SnapshotBytes) /\ TakeMember(w, m) = [w EXCEPT !.over = TRUE]
         \/ /\ ~w.over /\ w.total < SnapshotBytes /\ ~(m.reads /\ m.score # Other)
            /\ TakeMember(w, m) = w
         \/ /\ ~w.over /\ w.total < SnapshotBytes /\ m.reads /\ m.score # Other
            /\ w.total + m.bytes > SnapshotBytes
            /\ TakeMember(w, m) = [w EXCEPT !.over = TRUE]
         \/ /\ ~w.over /\ w.total < SnapshotBytes /\ m.reads /\ m.score # Other
            /\ w.total + m.bytes <= SnapshotBytes
            /\ TakeMember(w, m) = [w EXCEPT !.files = Append(@, m), !.total = @ + m.bytes]
<1>1. /\ SnapshotBytes \in Nat /\ w.total \in Nat /\ w.over \in BOOLEAN /\ m.bytes \in Nat
      /\ m.reads \in BOOLEAN
  BY SnapshotAssumption DEF Haul, AnyMember
<1>2. CASE w.over \/ w.total >= SnapshotBytes
  <2>1. ~(~w.over /\ w.total < SnapshotBytes)
    BY <1>1, <1>2
  <2>2. TakeMember(w, m) = [w EXCEPT !.over = TRUE]
    BY <1>2, <2>1 DEF TakeMember
  <2>3. QED
    BY <1>2, <2>2
<1>3. CASE ~w.over /\ w.total < SnapshotBytes /\ ~(m.reads /\ m.score # Other)
  <2>1. ~(w.over \/ w.total >= SnapshotBytes)
    BY <1>1, <1>3
  <2>2. TakeMember(w, m) = w
    BY <1>3, <2>1 DEF TakeMember
  <2>3. QED
    BY <1>3, <2>2
<1>4. CASE ~w.over /\ w.total < SnapshotBytes /\ m.reads /\ m.score # Other
  <2>1. ~(w.over \/ w.total >= SnapshotBytes)
    BY <1>1, <1>4
  <2>2. TakeMember(w, m) = IF w.total + m.bytes > SnapshotBytes THEN [w EXCEPT !.over = TRUE]
                           ELSE [w EXCEPT !.files = Append(@, m), !.total = @ + m.bytes]
    BY <1>4, <2>1 DEF TakeMember
  <2>3. w.total + m.bytes > SnapshotBytes \/ w.total + m.bytes <= SnapshotBytes
    BY <1>1
  <2>4. CASE w.total + m.bytes > SnapshotBytes
    BY <1>4, <2>2, <2>4
  <2>5. CASE w.total + m.bytes <= SnapshotBytes
    <3>1. ~(w.total + m.bytes > SnapshotBytes)
      BY <1>1, <2>5
    <3>2. QED
      BY <1>4, <2>2, <2>5, <3>1
  <2>6. QED
    BY <2>3, <2>4, <2>5
<1>5. QED
  BY <1>1, <1>2, <1>3, <1>4

LEMMA HaulStepIs ==
  /\ NothingTaken \in Haul
  /\ \A w \in Haul, m \in AnyMember : TakeMember(w, m) \in Haul /\ HaulStep[<<w, m>>] = TakeMember(w, m)
  /\ Operation(HaulStep, Haul, AnyMember)
<1>1. NothingTaken \in Haul
  BY MemberListIs DEF NothingTaken, Haul
<1>2. ASSUME NEW w \in Haul, NEW m \in AnyMember PROVE TakeMember(w, m) \in Haul
  <2>1. /\ w.files \in MemberList /\ w.total \in Nat /\ w.over \in BOOLEAN /\ m.bytes \in Nat
        /\ Append(w.files, m) \in MemberList /\ w.total + m.bytes \in Nat
    BY MemberListIs DEF Haul, AnyMember
  <2>2. \/ TakeMember(w, m) = [w EXCEPT !.over = TRUE]
        \/ TakeMember(w, m) = w
        \/ TakeMember(w, m) = [w EXCEPT !.files = Append(@, m), !.total = @ + m.bytes]
    BY TakeMemberIs
  <2>3. CASE TakeMember(w, m) = [w EXCEPT !.over = TRUE]
    BY <2>3 DEF Haul
  <2>4. CASE TakeMember(w, m) = w
    BY <2>4
  <2>5. CASE TakeMember(w, m) = [w EXCEPT !.files = Append(@, m), !.total = @ + m.bytes]
    BY <2>1, <2>5 DEF Haul
  <2>6. QED
    BY <2>2, <2>3, <2>4, <2>5
<1>3. \A p \in Haul \X AnyMember : p[1] \in Haul /\ p[2] \in AnyMember
  OBVIOUS
<1>4. QED
  BY <1>1, <1>2, <1>3 DEF HaulStep, Operation

LEMMA ScoreFolded ==
  ASSUME NEW n, NEW s \in Seq(AnyMember)
  PROVE  OfScore(s, n) = Folded(ScoreStep(n), <<>>, s)
<1> DEFINE Iter(g) == g = [t \in SUBSET DOMAIN s |->
                              IF t = {} THEN <<>> ELSE
                                      (IF s[Max(t)].score = n
                                       THEN Append(g[t \ {Max(t)}], s[Max(t)])
                                       ELSE g[t \ {Max(t)}])]
           g == CHOOSE g : Iter(g)
           m == Len(s)
<1>1. OfScore(s, n) = g[DOMAIN s]
  BY Zenon DEF OfScore, Select, FoldLeft, MapThenFoldSet
<1>2. m \in Nat /\ DOMAIN s = 1..m /\ \A i \in 1..m : s[i] \in AnyMember
  BY LenProperties
<1>3. PICK f \in [SUBSET (1..m) -> MemberList] : Folds(f, ScoreStep(n), <<>>, s, m)
  BY FoldsExist, ScoreStepIs
<1> HIDE DEF m
<1>4. \A t \in SUBSET (1..m) : t # {} => Max(t) \in t
  BY <1>2, MaxInside
<1>5. Iter(f)
  <2>1. ASSUME NEW t \in SUBSET (1..m), t # {}
        PROVE  ScoreStep(n)[<<f[t \ {Max(t)}], s[Max(t)]>>] =
                (IF s[Max(t)].score = n
                 THEN Append(f[t \ {Max(t)}], s[Max(t)])
                 ELSE f[t \ {Max(t)}])
    <3>1. s[Max(t)] \in AnyMember /\ f[t \ {Max(t)}] \in MemberList
      BY <1>2, <1>4, <2>1
    <3>2. QED
      BY <3>1, ScoreStepIs
  <2>2. f = [t \in SUBSET (1..m) |->
                IF t = {} THEN <<>> ELSE ScoreStep(n)[<<f[t \ {Max(t)}], s[Max(t)]>>]]
    BY <1>3, Zenon DEF Folds
  <2>3. f = [t \in SUBSET (1..m) |-> IF t = {} THEN <<>> ELSE
          (IF s[Max(t)].score = n
           THEN Append(f[t \ {Max(t)}], s[Max(t)])
           ELSE f[t \ {Max(t)}])]
    BY <2>1, <2>2, Zenon
  <2>4. QED
    BY <1>2, <2>3
<1>6. Iter(g)
  BY <1>5, Zenon
<1> HIDE DEF g
<1>7. \A t \in SUBSET (1..m) : g[t] = IF t = {} THEN <<>> ELSE
        (IF s[Max(t)].score = n
         THEN Append(g[t \ {Max(t)}], s[Max(t)])
         ELSE g[t \ {Max(t)}])
  BY <1>2, <1>6, Zenon
<1>8. ASSUME NEW i \in 0..(m - 1), g[1..i] \in MemberList
      PROVE  g[1..(i + 1)] = ScoreStep(n)[<<g[1..i], s[i + 1]>>]
  <2>1. /\ i \in Nat /\ i + 1 \in 1..m /\ i + 1 \in 1..(i + 1)
        /\ 1..(i + 1) \in SUBSET (1..m) /\ (1..(i + 1)) \ {i + 1} = 1..i
    BY <1>2
  <2>2. Max(1..(i + 1)) = i + 1
    BY <2>1, Greatest
  <2>3. 1..(i + 1) # {}
    BY <2>1
  <2>4. g[1..(i + 1)] =
          (IF s[Max(1..(i + 1))].score = n
           THEN Append(g[(1..(i + 1)) \ {Max(1..(i + 1))}], s[Max(1..(i + 1))])
           ELSE g[(1..(i + 1)) \ {Max(1..(i + 1))}])
    BY <1>7, <2>1, <2>3, Zenon
  <2>5. g[1..(i + 1)] = (IF s[i + 1].score = n THEN Append(g[1..i], s[i + 1]) ELSE g[1..i])
    BY <2>1, <2>2, <2>4, Zenon
  <2>6. QED
    BY <1>2, <1>8, <2>1, <2>5, ScoreStepIs
<1>9. g[{}] = <<>>
  BY <1>7
<1>10. g[1..m] = (CHOOSE h : Folds(h, ScoreStep(n), <<>>, s, Len(s)))[1..m]
  <2> DEFINE step == ScoreStep(n)
  <2>1. <<>> \in MemberList /\ Operation(step, MemberList, AnyMember)
    BY ScoreStepIs
  <2>2. \A i \in 0..(m - 1) : g[1..i] \in MemberList => g[1..(i + 1)] = step[<<g[1..i], s[i + 1]>>]
    BY <1>8
  <2> HIDE DEF step
  <2>3. m \in 0..m /\ m <= m /\ Len(s) = m
    BY <1>2 DEF m
  <2>4. g[1..m] = (CHOOSE h : Folds(h, step, <<>>, s, Len(s)))[1..m]
    BY <1>9, <2>1, <2>2, <2>3, WalkIsFold
  <2>5. QED
    BY <2>4, Zenon DEF step
<1>11. QED
  BY <1>1, <1>2, <1>10, Zenon DEF Folded, m

LEMMA ScoreLaws ==
  ASSUME NEW n
  PROVE  /\ OfScore(<<>>, n) = <<>>
         /\ \A s \in Seq(AnyMember) : OfScore(s, n) \in MemberList
         /\ \A s \in Seq(AnyMember), e \in AnyMember : OfScore(Append(s, e), n) =
                 (IF e.score = n
                  THEN Append(OfScore(s, n), e)
                  ELSE OfScore(s, n))
<1>0. <<>> \in MemberList /\ Operation(ScoreStep(n), MemberList, AnyMember)
  BY ScoreStepIs
<1>1. /\ Folded(ScoreStep(n), <<>>, <<>>) = <<>>
      /\ \A s \in Seq(AnyMember) : Folded(ScoreStep(n), <<>>, s) \in MemberList
      /\ \A s \in Seq(AnyMember), e \in AnyMember :
             Folded(ScoreStep(n), <<>>, Append(s, e)) = ScoreStep(n)[<<Folded(ScoreStep(n), <<>>, s), e>>]
  BY <1>0, FoldedLaws
<1>2. <<>> \in Seq(AnyMember) /\ \A s \in Seq(AnyMember), e \in AnyMember : Append(s, e) \in Seq(AnyMember)
  BY EmptySeq, AppendProperties
<1>3. \A s \in Seq(AnyMember) : OfScore(s, n) = Folded(ScoreStep(n), <<>>, s)
  BY ScoreFolded
<1>4. OfScore(<<>>, n) = <<>> /\ \A s \in Seq(AnyMember) : OfScore(s, n) \in MemberList
  BY <1>1, <1>2, <1>3
<1>5. ASSUME NEW s \in Seq(AnyMember), NEW e \in AnyMember
     PROVE OfScore(Append(s, e), n) = (IF e.score = n THEN Append(OfScore(s, n), e) ELSE OfScore(s, n))
  <2>1. OfScore(Append(s, e), n) = ScoreStep(n)[<<OfScore(s, n), e>>]
    BY <1>1, <1>2, <1>3
  <2>2. QED
    BY <1>4, <2>1, ScoreStepIs
<1>6. QED
  BY <1>4, <1>5

LEMMA ReadFolded ==
  ASSUME NEW s \in Seq(AnyMember)
  PROVE  Readable(s) = Folded(ReadStep, <<>>, s)
<1> DEFINE Iter(g) == g = [t \in SUBSET DOMAIN s |->
                              IF t = {} THEN <<>> ELSE
                                      (IF s[Max(t)].reads /\ s[Max(t)].score # Other
                                       THEN Append(g[t \ {Max(t)}], s[Max(t)])
                                       ELSE g[t \ {Max(t)}])]
           g == CHOOSE g : Iter(g)
           m == Len(s)
<1>1. Readable(s) = g[DOMAIN s]
  BY Zenon DEF Readable, Select, FoldLeft, MapThenFoldSet
<1>2. m \in Nat /\ DOMAIN s = 1..m /\ \A i \in 1..m : s[i] \in AnyMember
  BY LenProperties
<1>3. PICK f \in [SUBSET (1..m) -> MemberList] : Folds(f, ReadStep, <<>>, s, m)
  BY FoldsExist, ReadStepIs
<1> HIDE DEF m
<1>4. \A t \in SUBSET (1..m) : t # {} => Max(t) \in t
  BY <1>2, MaxInside
<1>5. Iter(f)
  <2>1. ASSUME NEW t \in SUBSET (1..m), t # {}
        PROVE  ReadStep[<<f[t \ {Max(t)}], s[Max(t)]>>] =
                (IF s[Max(t)].reads /\ s[Max(t)].score # Other
                 THEN Append(f[t \ {Max(t)}], s[Max(t)])
                 ELSE f[t \ {Max(t)}])
    <3>1. s[Max(t)] \in AnyMember /\ f[t \ {Max(t)}] \in MemberList
      BY <1>2, <1>4, <2>1
    <3>2. QED
      BY <3>1, ReadStepIs
  <2>2. f = [t \in SUBSET (1..m) |->
                IF t = {} THEN <<>> ELSE ReadStep[<<f[t \ {Max(t)}], s[Max(t)]>>]]
    BY <1>3, Zenon DEF Folds
  <2>3. f = [t \in SUBSET (1..m) |-> IF t = {} THEN <<>> ELSE
          (IF s[Max(t)].reads /\ s[Max(t)].score # Other
           THEN Append(f[t \ {Max(t)}], s[Max(t)])
           ELSE f[t \ {Max(t)}])]
    BY <2>1, <2>2, Zenon
  <2>4. QED
    BY <1>2, <2>3
<1>6. Iter(g)
  BY <1>5, Zenon
<1> HIDE DEF g
<1>7. \A t \in SUBSET (1..m) : g[t] = IF t = {} THEN <<>> ELSE
        (IF s[Max(t)].reads /\ s[Max(t)].score # Other
         THEN Append(g[t \ {Max(t)}], s[Max(t)])
         ELSE g[t \ {Max(t)}])
  BY <1>2, <1>6, Zenon
<1>8. ASSUME NEW i \in 0..(m - 1), g[1..i] \in MemberList
      PROVE  g[1..(i + 1)] = ReadStep[<<g[1..i], s[i + 1]>>]
  <2>1. /\ i \in Nat /\ i + 1 \in 1..m /\ i + 1 \in 1..(i + 1)
        /\ 1..(i + 1) \in SUBSET (1..m) /\ (1..(i + 1)) \ {i + 1} = 1..i
    BY <1>2
  <2>2. Max(1..(i + 1)) = i + 1
    BY <2>1, Greatest
  <2>3. 1..(i + 1) # {}
    BY <2>1
  <2>4. g[1..(i + 1)] =
          (IF s[Max(1..(i + 1))].reads /\ s[Max(1..(i + 1))].score # Other
           THEN Append(g[(1..(i + 1)) \ {Max(1..(i + 1))}], s[Max(1..(i + 1))])
           ELSE g[(1..(i + 1)) \ {Max(1..(i + 1))}])
    BY <1>7, <2>1, <2>3, Zenon
  <2>5. g[1..(i + 1)] = (IF s[i + 1].reads /\ s[i + 1].score # Other THEN Append(g[1..i], s[i + 1]) ELSE g[1..i])
    BY <2>1, <2>2, <2>4, Zenon
  <2>6. QED
    BY <1>2, <1>8, <2>1, <2>5, ReadStepIs
<1>9. g[{}] = <<>>
  BY <1>7
<1>10. g[1..m] = (CHOOSE h : Folds(h, ReadStep, <<>>, s, Len(s)))[1..m]
  <2> DEFINE step == ReadStep
  <2>1. <<>> \in MemberList /\ Operation(step, MemberList, AnyMember)
    BY ReadStepIs
  <2>2. \A i \in 0..(m - 1) : g[1..i] \in MemberList => g[1..(i + 1)] = step[<<g[1..i], s[i + 1]>>]
    BY <1>8
  <2> HIDE DEF step
  <2>3. m \in 0..m /\ m <= m /\ Len(s) = m
    BY <1>2 DEF m
  <2>4. g[1..m] = (CHOOSE h : Folds(h, step, <<>>, s, Len(s)))[1..m]
    BY <1>9, <2>1, <2>2, <2>3, WalkIsFold
  <2>5. QED
    BY <2>4, Zenon DEF step
<1>11. QED
  BY <1>1, <1>2, <1>10, Zenon DEF Folded, m

LEMMA ReadLaws ==
  /\ Readable(<<>>) = <<>>
  /\ \A s \in Seq(AnyMember) : Readable(s) \in MemberList
  /\ \A s \in Seq(AnyMember), e \in AnyMember : Readable(Append(s, e)) =
          (IF e.reads /\ e.score # Other
           THEN Append(Readable(s), e)
           ELSE Readable(s))
<1>0. <<>> \in MemberList /\ Operation(ReadStep, MemberList, AnyMember)
  BY ReadStepIs
<1>1. /\ Folded(ReadStep, <<>>, <<>>) = <<>>
      /\ \A s \in Seq(AnyMember) : Folded(ReadStep, <<>>, s) \in MemberList
      /\ \A s \in Seq(AnyMember), e \in AnyMember :
             Folded(ReadStep, <<>>, Append(s, e)) = ReadStep[<<Folded(ReadStep, <<>>, s), e>>]
  BY <1>0, FoldedLaws
<1>2. <<>> \in Seq(AnyMember) /\ \A s \in Seq(AnyMember), e \in AnyMember : Append(s, e) \in Seq(AnyMember)
  BY EmptySeq, AppendProperties
<1>3. \A s \in Seq(AnyMember) : Readable(s) = Folded(ReadStep, <<>>, s)
  BY ReadFolded
<1>4. Readable(<<>>) = <<>> /\ \A s \in Seq(AnyMember) : Readable(s) \in MemberList
  BY <1>1, <1>2, <1>3
<1>5. ASSUME NEW s \in Seq(AnyMember), NEW e \in AnyMember
     PROVE Readable(Append(s, e)) = (IF e.reads /\ e.score # Other THEN Append(Readable(s), e) ELSE Readable(s))
  <2>1. Readable(Append(s, e)) = ReadStep[<<Readable(s), e>>]
    BY <1>1, <1>2, <1>3
  <2>2. QED
    BY <1>4, <2>1, ReadStepIs
<1>6. QED
  BY <1>4, <1>5

LEMMA HaulFolded ==
  ASSUME NEW s \in Seq(AnyMember)
  PROVE  TakenOf(s) = Folded(HaulStep, NothingTaken, s)
<1> DEFINE Iter(g) == g = [t \in SUBSET DOMAIN s |->
                              IF t = {} THEN NothingTaken ELSE TakeMember(g[t \ {Max(t)}], s[Max(t)])]
           g == CHOOSE g : Iter(g)
           m == Len(s)
<1>1. TakenOf(s) = g[DOMAIN s]
  BY Zenon DEF TakenOf, FoldLeft, MapThenFoldSet
<1>2. m \in Nat /\ DOMAIN s = 1..m /\ \A i \in 1..m : s[i] \in AnyMember
  BY LenProperties
<1>3. PICK f \in [SUBSET (1..m) -> Haul] : Folds(f, HaulStep, NothingTaken, s, m)
  BY FoldsExist, HaulStepIs
<1> HIDE DEF m
<1>4. \A t \in SUBSET (1..m) : t # {} => Max(t) \in t
  BY <1>2, MaxInside
<1>5. Iter(f)
  <2>1. ASSUME NEW t \in SUBSET (1..m), t # {}
        PROVE  HaulStep[<<f[t \ {Max(t)}], s[Max(t)]>>] = TakeMember(f[t \ {Max(t)}], s[Max(t)])
    <3>1. s[Max(t)] \in AnyMember /\ f[t \ {Max(t)}] \in Haul
      BY <1>2, <1>4, <2>1
    <3>2. QED
      BY <3>1, HaulStepIs
  <2>2. f = [t \in SUBSET (1..m) |->
                IF t = {} THEN NothingTaken ELSE HaulStep[<<f[t \ {Max(t)}], s[Max(t)]>>]]
    BY <1>3, Zenon DEF Folds
  <2>3. f = [t \in SUBSET (1..m) |-> IF t = {} THEN NothingTaken ELSE TakeMember(f[t \ {Max(t)}], s[Max(t)])]
    BY <2>1, <2>2, Zenon
  <2>4. QED
    BY <1>2, <2>3
<1>6. Iter(g)
  BY <1>5, Zenon
<1> HIDE DEF g
<1>7. \A t \in SUBSET (1..m) : g[t] = IF t = {} THEN NothingTaken ELSE TakeMember(g[t \ {Max(t)}], s[Max(t)])
  BY <1>2, <1>6, Zenon
<1>8. ASSUME NEW i \in 0..(m - 1), g[1..i] \in Haul
      PROVE  g[1..(i + 1)] = HaulStep[<<g[1..i], s[i + 1]>>]
  <2>1. /\ i \in Nat /\ i + 1 \in 1..m /\ i + 1 \in 1..(i + 1)
        /\ 1..(i + 1) \in SUBSET (1..m) /\ (1..(i + 1)) \ {i + 1} = 1..i
    BY <1>2
  <2>2. Max(1..(i + 1)) = i + 1
    BY <2>1, Greatest
  <2>3. 1..(i + 1) # {}
    BY <2>1
  <2>4. g[1..(i + 1)] = TakeMember(g[(1..(i + 1)) \ {Max(1..(i + 1))}], s[Max(1..(i + 1))])
    BY <1>7, <2>1, <2>3, Zenon
  <2>5. g[1..(i + 1)] = TakeMember(g[1..i], s[i + 1])
    BY <2>1, <2>2, <2>4, Zenon
  <2>6. QED
    BY <1>2, <1>8, <2>1, <2>5, HaulStepIs
<1>9. g[{}] = NothingTaken
  BY <1>7
<1>10. g[1..m] = (CHOOSE h : Folds(h, HaulStep, NothingTaken, s, Len(s)))[1..m]
  <2> DEFINE step == HaulStep
  <2>1. NothingTaken \in Haul /\ Operation(step, Haul, AnyMember)
    BY HaulStepIs
  <2>2. \A i \in 0..(m - 1) : g[1..i] \in Haul => g[1..(i + 1)] = step[<<g[1..i], s[i + 1]>>]
    BY <1>8
  <2> HIDE DEF step
  <2>3. m \in 0..m /\ m <= m /\ Len(s) = m
    BY <1>2 DEF m
  <2>4. g[1..m] = (CHOOSE h : Folds(h, step, NothingTaken, s, Len(s)))[1..m]
    BY <1>9, <2>1, <2>2, <2>3, WalkIsFold
  <2>5. QED
    BY <2>4, Zenon DEF step
<1>11. QED
  BY <1>1, <1>2, <1>10, Zenon DEF Folded, m

LEMMA HaulLaws ==
  /\ TakenOf(<<>>) = NothingTaken
  /\ \A s \in Seq(AnyMember) : TakenOf(s) \in Haul
  /\ \A s \in Seq(AnyMember), e \in AnyMember : TakenOf(Append(s, e)) = TakeMember(TakenOf(s), e)
<1>0. NothingTaken \in Haul /\ Operation(HaulStep, Haul, AnyMember)
  BY HaulStepIs
<1>1. /\ Folded(HaulStep, NothingTaken, <<>>) = NothingTaken
      /\ \A s \in Seq(AnyMember) : Folded(HaulStep, NothingTaken, s) \in Haul
      /\ \A s \in Seq(AnyMember), e \in AnyMember :
             Folded(HaulStep, NothingTaken, Append(s, e)) = HaulStep[<<Folded(HaulStep, NothingTaken, s), e>>]
  BY <1>0, FoldedLaws
<1>2. <<>> \in Seq(AnyMember) /\ \A s \in Seq(AnyMember), e \in AnyMember : Append(s, e) \in Seq(AnyMember)
  BY EmptySeq, AppendProperties
<1>3. \A s \in Seq(AnyMember) : TakenOf(s) = Folded(HaulStep, NothingTaken, s)
  BY HaulFolded
<1>4. TakenOf(<<>>) = NothingTaken /\ \A s \in Seq(AnyMember) : TakenOf(s) \in Haul
  BY <1>1, <1>2, <1>3
<1>5. ASSUME NEW s \in Seq(AnyMember), NEW e \in AnyMember PROVE TakenOf(Append(s, e)) = TakeMember(TakenOf(s), e)
  <2>1. TakenOf(Append(s, e)) = HaulStep[<<TakenOf(s), e>>]
    BY <1>1, <1>2, <1>3
  <2>2. QED
    BY <1>4, <2>1, HaulStepIs
<1>6. QED
  BY <1>4, <1>5

Sums == 0..ConfigBytes
SummaryStep == [p \in Sums \X AnyMember |-> AddConfig(p[1], p[2])]
Summary(files) == FoldLeft(AddConfig, 0, files)

LEMMA SummaryStepIs ==
  /\ 0 \in Sums
  /\ \A b \in Sums, e \in AnyMember : AddConfig(b, e) \in Sums /\ SummaryStep[<<b, e>>] = AddConfig(b, e)
  /\ Operation(SummaryStep, Sums, AnyMember)
<1>1. ConfigBytes \in Nat /\ 0 \in Sums
  BY SnapshotAssumption DEF Sums
<1>2. ASSUME NEW b \in Sums, NEW e \in AnyMember PROVE AddConfig(b, e) \in Sums
  <2>1. e.bytes \in Nat
    BY DEF AnyMember
  <2>2. QED
    BY <1>1, <2>1 DEF AddConfig, Sums
<1>3. \A p \in Sums \X AnyMember : p[1] \in Sums /\ p[2] \in AnyMember
  OBVIOUS
<1>4. QED
  BY <1>1, <1>2, <1>3 DEF SummaryStep, Operation

LEMMA SummaryFolded ==
  ASSUME NEW s \in Seq(AnyMember)
  PROVE  Summary(s) = Folded(SummaryStep, 0, s)
<1> DEFINE Iter(g) == g = [t \in SUBSET DOMAIN s |->
                              IF t = {} THEN 0 ELSE AddConfig(g[t \ {Max(t)}], s[Max(t)])]
           g == CHOOSE g : Iter(g)
           m == Len(s)
<1>1. Summary(s) = g[DOMAIN s]
  BY Zenon DEF Summary, FoldLeft, MapThenFoldSet
<1>2. m \in Nat /\ DOMAIN s = 1..m /\ \A i \in 1..m : s[i] \in AnyMember
  BY LenProperties
<1>3. PICK f \in [SUBSET (1..m) -> Sums] : Folds(f, SummaryStep, 0, s, m)
  BY FoldsExist, SummaryStepIs
<1> HIDE DEF m
<1>4. \A t \in SUBSET (1..m) : t # {} => Max(t) \in t
  BY <1>2, MaxInside
<1>5. Iter(f)
  <2>1. ASSUME NEW t \in SUBSET (1..m), t # {}
        PROVE  SummaryStep[<<f[t \ {Max(t)}], s[Max(t)]>>] = AddConfig(f[t \ {Max(t)}], s[Max(t)])
    <3>1. s[Max(t)] \in AnyMember /\ f[t \ {Max(t)}] \in Sums
      BY <1>2, <1>4, <2>1
    <3>2. QED
      BY <3>1, SummaryStepIs
  <2>2. f = [t \in SUBSET (1..m) |->
                IF t = {} THEN 0 ELSE SummaryStep[<<f[t \ {Max(t)}], s[Max(t)]>>]]
    BY <1>3, Zenon DEF Folds
  <2>3. f = [t \in SUBSET (1..m) |-> IF t = {} THEN 0 ELSE AddConfig(f[t \ {Max(t)}], s[Max(t)])]
    BY <2>1, <2>2, Zenon
  <2>4. QED
    BY <1>2, <2>3
<1>6. Iter(g)
  BY <1>5, Zenon
<1> HIDE DEF g
<1>7. \A t \in SUBSET (1..m) : g[t] = IF t = {} THEN 0 ELSE AddConfig(g[t \ {Max(t)}], s[Max(t)])
  BY <1>2, <1>6, Zenon
<1>8. ASSUME NEW i \in 0..(m - 1), g[1..i] \in Sums
      PROVE  g[1..(i + 1)] = SummaryStep[<<g[1..i], s[i + 1]>>]
  <2>1. /\ i \in Nat /\ i + 1 \in 1..m /\ i + 1 \in 1..(i + 1)
        /\ 1..(i + 1) \in SUBSET (1..m) /\ (1..(i + 1)) \ {i + 1} = 1..i
    BY <1>2
  <2>2. Max(1..(i + 1)) = i + 1
    BY <2>1, Greatest
  <2>3. 1..(i + 1) # {}
    BY <2>1
  <2>4. g[1..(i + 1)] = AddConfig(g[(1..(i + 1)) \ {Max(1..(i + 1))}], s[Max(1..(i + 1))])
    BY <1>7, <2>1, <2>3, Zenon
  <2>5. g[1..(i + 1)] = AddConfig(g[1..i], s[i + 1])
    BY <2>1, <2>2, <2>4, Zenon
  <2>6. QED
    BY <1>2, <1>8, <2>1, <2>5, SummaryStepIs
<1>9. g[{}] = 0
  BY <1>7
<1>10. g[1..m] = (CHOOSE h : Folds(h, SummaryStep, 0, s, Len(s)))[1..m]
  <2> DEFINE step == SummaryStep
             base == 0
  <2>1. base \in Sums /\ Operation(step, Sums, AnyMember) /\ g[{}] = base
    BY <1>9, SummaryStepIs
  <2>2. \A i \in 0..(m - 1) : g[1..i] \in Sums => g[1..(i + 1)] = step[<<g[1..i], s[i + 1]>>]
    BY <1>8
  <2> HIDE DEF step, base
  <2>3. m \in 0..m /\ m <= m /\ Len(s) = m
    BY <1>2 DEF m
  <2>4. g[1..m] = (CHOOSE h : Folds(h, step, base, s, Len(s)))[1..m]
    BY <2>1, <2>2, <2>3, WalkIsFold
  <2>5. QED
    BY <2>4, Zenon DEF step, base
<1>11. QED
  BY <1>1, <1>2, <1>10, Zenon DEF Folded, m

LEMMA SummaryIs ==
  ASSUME NEW s \in Seq(AnyMember)
  PROVE  Summary(s) \in Sums
<1>1. 0 \in Sums /\ Operation(SummaryStep, Sums, AnyMember)
  BY SummaryStepIs
<1>2. Folded(SummaryStep, 0, s) \in Sums
  BY <1>1, FoldedLaws
<1>3. QED
  BY <1>2, SummaryFolded

LEMMA SelectedAre ==
  ASSUME NEW s \in Seq(AnyMember)
  PROVE  Selected(s) \in Seq(AnyMember)
<1>1. \A n : OfScore(s, n) \in Seq(AnyMember)
  BY ScoreLaws DEF MemberList
<1>2. \A a, b \in Seq(AnyMember) : a \o b \in Seq(AnyMember)
  BY ConcatProperties
<1>3. Scored(s) \in Seq(AnyMember)
  <2>1. OfScore(s, Manifest) \o OfScore(s, EntryPoint) \in Seq(AnyMember)
    BY <1>1, <1>2
  <2>2. OfScore(s, Manifest) \o OfScore(s, EntryPoint) \o OfScore(s, Config) \in Seq(AnyMember)
    BY <1>1, <1>2, <2>1
  <2>3. OfScore(s, Manifest) \o OfScore(s, EntryPoint) \o OfScore(s, Config) \o OfScore(s, Source)
            \in Seq(AnyMember)
    BY <1>1, <1>2, <2>2
  <2>4. QED
    BY <1>1, <1>2, <2>3 DEF Scored
<1> DEFINE t == Scored(s)
           n == IF Len(t) < SnapshotFiles THEN Len(t) ELSE SnapshotFiles
<1>4. Len(t) \in Nat /\ SnapshotFiles \in Nat /\ \A i \in 1..Len(t) : t[i] \in AnyMember
  BY <1>3, LenProperties, SnapshotAssumption
<1>5. Selected(s) = SubSeq(t, 1, n)
  BY DEF Selected
<1> HIDE DEF t
<1>6. n \in Int /\ \A i \in 1..n : t[i] \in AnyMember
  BY <1>4
<1> HIDE DEF n
<1>7. SubSeq(t, 1, n) \in Seq(AnyMember)
  BY <1>6, SubSeqProperties
<1>8. QED
  BY <1>5, <1>7

\* Until the snapshot is over, all that can be read is taken; from then on the next
\* one that is not taken found no room.
TakenFirst(w, q) ==
    /\ w.total <= SnapshotBytes
    /\ ~w.over => w.files = q
    /\ w.over => /\ Len(w.files) <= Len(q) /\ \A i \in 1..Len(w.files) : w.files[i] = q[i]
                 /\ Len(w.files) < Len(q) =>
                        w.total + q[Len(w.files) + 1].bytes > SnapshotBytes \/ w.total = SnapshotBytes
                 /\ Len(w.files) = Len(q) => w.total = SnapshotBytes

\* A member more.
LEMMA TakenOneMore ==
  ASSUME NEW w \in Haul, NEW q \in Seq(AnyMember), NEW m \in AnyMember, TakenFirst(w, q),
         NEW r, r = IF m.reads /\ m.score # Other THEN Append(q, m) ELSE q
  PROVE  TakenFirst(TakeMember(w, m), r)
<1> DEFINE k == Len(q)
           f == Len(w.files)
           x == TakeMember(w, m)
<1>1. /\ SnapshotBytes \in Nat /\ w.total \in Nat /\ w.over \in BOOLEAN /\ m.bytes \in Nat
      /\ m.reads \in BOOLEAN
  BY SnapshotAssumption DEF Haul, AnyMember
<1>2. w.files \in Seq(AnyMember) /\ k \in Nat /\ f \in Nat
  <2>1. w.files \in Seq(AnyMember)
    BY DEF Haul, MemberList
  <2>2. QED
    BY <2>1, LenProperties
<1>3. /\ w.total <= SnapshotBytes
      /\ ~w.over => w.files = q
      /\ w.over => /\ f <= k /\ \A i \in 1..f : w.files[i] = q[i]
                   /\ f < k => w.total + q[f + 1].bytes > SnapshotBytes \/ w.total = SnapshotBytes
                   /\ f = k => w.total = SnapshotBytes
  BY DEF TakenFirst
<1>4. /\ Append(q, m) \in Seq(AnyMember) /\ Len(Append(q, m)) = k + 1 /\ Append(q, m)[k + 1] = m
      /\ \A i \in 1..k : Append(q, m)[i] = q[i]
  BY AppendProperties
<1>5. r \in {q, Append(q, m)}
  OBVIOUS
<1>6. /\ Len(r) \in {k, k + 1} /\ (\A i \in 1..k : r[i] = q[i])
      /\ Len(r) = k => r = q
  BY <1>2, <1>4, <1>5
<1> HIDE DEF k, f, x
<1>7. CASE (w.over \/ w.total >= SnapshotBytes) /\ x = [w EXCEPT !.over = TRUE]
  <2>1. x.files = w.files /\ x.total = w.total /\ x.over = TRUE
    BY <1>7 DEF Haul
  <2>2. f <= k /\ (\A i \in 1..f : w.files[i] = q[i]) /\ (f = k => w.total = SnapshotBytes)
        /\ (f < k => w.total + q[f + 1].bytes > SnapshotBytes \/ w.total = SnapshotBytes)
    <3>1. CASE w.over
      BY <1>3, <3>1
    <3>2. CASE ~w.over
      <4>1. w.files = q /\ f = k /\ w.total = SnapshotBytes
        BY <1>1, <1>3, <1>7, <3>2 DEF f, k
      <4>2. QED
        BY <1>2, <4>1
    <3>3. QED
      BY <3>1, <3>2
  <2>3. f <= Len(r) /\ \A i \in 1..f : w.files[i] = r[i]
    BY <1>2, <1>6, <2>2
  <2>4. ASSUME f < Len(r)
        PROVE  w.total + r[f + 1].bytes > SnapshotBytes \/ w.total = SnapshotBytes
    <3>1. CASE f < k
      <4>1. r[f + 1] = q[f + 1]
        BY <1>2, <1>6, <3>1
      <4>2. QED
        BY <2>2, <3>1, <4>1
    <3>2. CASE f = k
      BY <2>2, <3>2
    <3>3. f <= k
      BY <2>2
    <3>4. f < k \/ f = k
      BY <1>2, <3>3
    <3>5. QED
      BY <3>1, <3>2, <3>4
  <2>5. f = Len(r) => w.total = SnapshotBytes
    BY <1>2, <1>6, <2>2
  <2>6. QED
    BY <1>3, <2>1, <2>3, <2>4, <2>5 DEF TakenFirst, f, x
<1>8. CASE ~w.over /\ w.total < SnapshotBytes /\ ~(m.reads /\ m.score # Other) /\ x = w
  <2>1. r = q
    BY <1>8
  <2>2. QED
    BY <1>8, <2>1 DEF x
<1>9. CASE /\ ~w.over /\ w.total < SnapshotBytes /\ m.reads /\ m.score # Other
           /\ w.total + m.bytes > SnapshotBytes /\ x = [w EXCEPT !.over = TRUE]
  <2>1. x.files = w.files /\ x.total = w.total /\ x.over = TRUE
    BY <1>9 DEF Haul
  <2>2. r = Append(q, m) /\ w.files = q /\ f = k
    BY <1>3, <1>9 DEF f, k
  <2>3. /\ f <= Len(r) /\ (\A i \in 1..f : w.files[i] = r[i]) /\ r[f + 1] = m /\ f # Len(r)
    BY <1>2, <1>4, <2>2
  <2>4. QED
    BY <1>3, <1>9, <2>1, <2>3 DEF TakenFirst, f, x
<1>10. CASE /\ ~w.over /\ w.total < SnapshotBytes /\ m.reads /\ m.score # Other
            /\ w.total + m.bytes <= SnapshotBytes
            /\ x = [w EXCEPT !.files = Append(@, m), !.total = @ + m.bytes]
  <2>1. x.files = Append(w.files, m) /\ x.total = w.total + m.bytes /\ x.over = FALSE
    BY <1>1, <1>10 DEF Haul
  <2>2. r = Append(q, m) /\ w.files = q
    BY <1>3, <1>10
  <2>3. QED
    BY <1>10, <2>1, <2>2 DEF TakenFirst, x
<1>11. QED
  BY <1>7, <1>8, <1>9, <1>10, TakeMemberIs DEF x

LEMMA TakenFirstAlways ==
  ASSUME NEW s \in Seq(AnyMember)
  PROVE  TakenFirst(TakenOf(s), Readable(s))
<1> DEFINE S == {r \in Seq(AnyMember) : TakenFirst(TakenOf(r), Readable(r))}
<1>1. <<>> \in S
  <2>1. TakenOf(<<>>) = NothingTaken /\ Readable(<<>>) = <<>> /\ <<>> \in Seq(AnyMember)
    BY HaulLaws, ReadLaws, EmptySeq
  <2>2. NothingTaken.files = <<>> /\ NothingTaken.total = 0 /\ NothingTaken.over = FALSE
    BY DEF NothingTaken
  <2>3. QED
    BY <2>1, <2>2, SnapshotAssumption DEF TakenFirst
<1>2. ASSUME NEW r \in Seq(AnyMember), NEW m \in AnyMember, r \in S PROVE Append(r, m) \in S
  <2>1. /\ TakenOf(Append(r, m)) = TakeMember(TakenOf(r), m) /\ TakenOf(r) \in Haul
        /\ Readable(r) \in Seq(AnyMember)
        /\ Readable(Append(r, m)) = IF m.reads /\ m.score # Other THEN Append(Readable(r), m) ELSE Readable(r)
    BY HaulLaws, ReadLaws DEF MemberList
  <2>2. TakenFirst(TakenOf(r), Readable(r))
    BY <1>2
  <2>3. TakenFirst(TakeMember(TakenOf(r), m), Readable(Append(r, m)))
    BY <2>1, <2>2, TakenOneMore
  <2>4. QED
    BY <2>1, <2>3, AppendProperties
<1> HIDE DEF S
<1>3. s \in S
  BY <1>1, <1>2, SequenceInduction
<1>4. QED
  BY <1>3 DEF S

LEMMA SnapshotOfAny ==
  ASSUME NEW s \in Seq(AnyMember)
  PROVE  SnapshotIsTheBest(s)
<1> DEFINE t == Selected(s)
           q == Readable(t)
           w == Taken(s)
           n == Len(w.files)
<1>1. t \in Seq(AnyMember)
  BY SelectedAre
<1>2. w = TakenOf(t)
  BY Zenon DEF Taken, TakenOf
<1>3. w \in Haul /\ q \in Seq(AnyMember) /\ TakenFirst(w, q)
  <2> HIDE DEF t
  <2>1. TakenOf(t) \in Haul /\ Readable(t) \in Seq(AnyMember)
    BY <1>1, HaulLaws, ReadLaws DEF MemberList
  <2>2. QED
    BY <1>1, <1>2, <2>1, TakenFirstAlways
<1> DEFINE x == ExtractCodebaseSnapshot(s)
<1>x. x.files = w.files /\ x.total = w.total /\ x.summary = Summary(w.files)
  BY Zenon DEF ExtractCodebaseSnapshot, Summary
<1>y. SnapshotIsTheBest(s) <=>
          /\ x.total <= SnapshotBytes /\ x.summary <= ConfigBytes
          /\ IsPrefix(x.files, q)
          /\ Len(x.files) < Len(q) =>
                 x.total + q[Len(x.files) + 1].bytes > SnapshotBytes \/ x.total = SnapshotBytes
  BY Zenon DEF SnapshotIsTheBest
<1> HIDE DEF x
<1>4. SnapshotIsTheBest(s) <=> /\ w.total <= SnapshotBytes /\ Summary(w.files) <= ConfigBytes
                               /\ IsPrefix(w.files, q)
                               /\ n < Len(q) => w.total + q[n + 1].bytes > SnapshotBytes \/ w.total = SnapshotBytes
  BY <1>x, <1>y, Zenon
<1> HIDE DEF t, q, w
<1>5. w.files \in Seq(AnyMember) /\ n \in Nat /\ Len(q) \in Nat /\ w.over \in BOOLEAN
  <2>1. w.files \in Seq(AnyMember) /\ w.over \in BOOLEAN
    BY <1>3 DEF Haul, MemberList
  <2>2. QED
    BY <1>3, <2>1, LenProperties
<1>6. n <= Len(q) /\ \A i \in 1..n : w.files[i] = q[i]
  BY <1>3, <1>5 DEF TakenFirst
<1>7. IsPrefix(w.files, q)
  <2>1. \A i \in 1..n : w.files[i] \in AnyMember /\ q[i] \in AnyMember
    BY <1>3, <1>5, <1>6, LenProperties
  <2>2. /\ SubSeq(w.files, 1, n) \in Seq(AnyMember) /\ SubSeq(q, 1, n) \in Seq(AnyMember)
        /\ Len(SubSeq(w.files, 1, n)) = n /\ Len(SubSeq(q, 1, n)) = n
        /\ \A i \in 1..n : SubSeq(w.files, 1, n)[i] = w.files[i] /\ SubSeq(q, 1, n)[i] = q[i]
    <3> HIDE DEF n
    <3>1. 1 \in Int /\ n \in Int /\ n - 1 + 1 = n /\ (IF 1 <= n THEN n - 1 + 1 ELSE 0) = n
      BY <1>5
    <3>2. \A i \in 1..n : 1 + i - 1 = i
      OBVIOUS
    <3>3. QED
      BY <2>1, <3>1, <3>2, SubSeqProperties
  <2> DEFINE a == SubSeq(w.files, 1, n)
             b == SubSeq(q, 1, n)
  <2> HIDE DEF a, b, n
  <2>3. a = b
    BY <1>6, <2>2, SeqEqual DEF a, b
  <2>4. QED
    BY <1>6, <2>3 DEF IsPrefix, a, b, n
<1>8. Summary(w.files) <= ConfigBytes
  <2>1. Summary(w.files) \in 0..ConfigBytes
    BY <1>5, SummaryIs DEF Sums
  <2>2. QED
    BY <2>1, SnapshotAssumption
<1>9. QED
  BY <1>3, <1>4, <1>5, <1>7, <1>8 DEF TakenFirst

-----------------------------------------------------------------------------
(* The splitter of a file pack.                                             *)

\* The provers do not know that a literal is a string, so two are named.
AnyName == (STRING \cup {"a", Artifact}) \ {Primary, Skipped}
AnyLine == [marker : {TRUE}, path : AnyName, safe : BOOLEAN, text : {0}]
               \cup [marker : {FALSE}, path : {Primary}, safe : {TRUE}, text : Nat]
FileName == AnyName \cup {Primary, Skipped}
TextList == Seq(Nat)
Files == UNION {[D -> TextList] : D \in SUBSET FileName}
PackState == {p \in [at : FileName, files : Files] : p.at \in DOMAIN p.files}
PackStep == [p \in PackState \X AnyLine |-> SplitLine(p[1], p[2])]
TextStep == [p \in TextList \X AnyLine |-> TakeText(p[1], p[2])]
PackOf(lines) == FoldLeft(SplitLine, PackStart, lines)

LEMMA LineIs ==
  ASSUME NEW e \in AnyLine
  PROVE  /\ e.marker \in BOOLEAN /\ e.safe \in BOOLEAN /\ e.text \in Nat /\ e.path \in FileName
         /\ e.marker => e.path \in AnyName
<1>1. CASE e \in [marker : {TRUE}, path : AnyName, safe : BOOLEAN, text : {0}]
  <2>1. e.marker \in {TRUE} /\ e.path \in AnyName /\ e.safe \in BOOLEAN /\ e.text \in {0}
    BY <1>1
  <2>2. e.marker = TRUE /\ e.text = 0 /\ e.path \in FileName
    BY <2>1 DEF FileName
  <2>3. 0 \in Nat /\ TRUE \in BOOLEAN
    OBVIOUS
  <2>4. QED
    BY <2>1, <2>2, <2>3, Zenon
<1>2. CASE e \in [marker : {FALSE}, path : {Primary}, safe : {TRUE}, text : Nat]
  <2>1. e.marker \in {FALSE} /\ e.path \in {Primary} /\ e.safe \in {TRUE} /\ e.text \in Nat
    BY <1>2
  <2>2. QED
    BY <2>1 DEF FileName
<1>3. QED
  BY <1>1, <1>2 DEF AnyLine

LEMMA TextListIs ==
  /\ <<>> \in TextList /\ \A b \in TextList, x \in Nat : Append(b, x) \in TextList
  /\ \A b \in TextList : Len(b) \in Nat
  /\ \A b \in TextList, x \in Nat : Len(Append(b, x)) = Len(b) + 1
<1>1. <<>> \in TextList /\ \A b \in TextList, x \in Nat : Append(b, x) \in TextList
  BY EmptySeq, AppendProperties DEF TextList
<1>2. \A b \in TextList : Len(b) \in Nat
  BY LenProperties DEF TextList
<1>3. \A b \in TextList, x \in Nat : Len(Append(b, x)) = Len(b) + 1
  BY AppendProperties DEF TextList
<1>4. QED
  BY <1>1, <1>2, <1>3

LEMMA FilesAre ==
  /\ \A f \in Files : /\ f = [x \in DOMAIN f |-> f[x]] /\ DOMAIN f \in SUBSET FileName
                      /\ \A x \in DOMAIN f : f[x] \in TextList
  /\ \A D \in SUBSET FileName : \A f \in [D -> TextList] : f \in Files
<1>1. ASSUME NEW f \in Files
      PROVE  /\ f = [x \in DOMAIN f |-> f[x]] /\ DOMAIN f \in SUBSET FileName
             /\ \A x \in DOMAIN f : f[x] \in TextList
  <2>1. PICK D \in SUBSET FileName : f \in [D -> TextList]
    BY DEF Files
  <2>2. QED
    BY <2>1
<1>2. \A D \in SUBSET FileName : \A f \in [D -> TextList] : f \in Files
  BY Zenon DEF Files
<1>3. QED
  BY <1>1, <1>2

\* Where a marker sends what follows it.
Target(p, e) == IF e.safe /\ e.path \notin DOMAIN p.files THEN e.path ELSE Skipped

\* What a line does to the pack.
LEMMA SplitLineIs ==
  ASSUME NEW p \in PackState, NEW e \in AnyLine, NEW q, q = SplitLine(p, e)
  PROVE  /\ q \in PackState
         /\ ~e.marker => /\ q.at = p.at /\ DOMAIN q.files = DOMAIN p.files
                         /\ q.files[p.at] = Append(p.files[p.at], e.text)
                         /\ \A x \in DOMAIN p.files \ {p.at} : q.files[x] = p.files[x]
         /\ e.marker => /\ q.at = Target(p, e) /\ DOMAIN q.files = DOMAIN p.files \cup {Target(p, e)}
                        /\ q.files[Target(p, e)] = <<>>
                        /\ \A x \in DOMAIN p.files \ {Target(p, e)} : q.files[x] = p.files[x]
<1> DEFINE D == DOMAIN p.files
           to == Target(p, e)
<1>1. /\ p.files \in Files /\ p.at \in FileName /\ p.at \in D /\ p \in [at : FileName, files : Files]
  BY DEF PackState
<1>2. /\ p.files = [x \in D |-> p.files[x]] /\ D \in SUBSET FileName
      /\ \A x \in D : p.files[x] \in TextList
  BY <1>1, FilesAre
<1>3. to \in FileName
  BY LineIs DEF Target, FileName
<1>4. CASE ~e.marker
  <2> DEFINE g == [p.files EXCEPT ![p.at] = Append(@, e.text)]
  <2>1. q = [p EXCEPT !.files = g]
    BY <1>4 DEF SplitLine
  <2>2. Append(p.files[p.at], e.text) \in TextList
    BY <1>1, <1>2, LineIs, TextListIs
  <2>3. /\ g \in [D -> TextList] /\ DOMAIN g = D /\ g[p.at] = Append(p.files[p.at], e.text)
        /\ \A x \in D \ {p.at} : g[x] = p.files[x]
    BY <1>1, <1>2, <2>2
  <2> HIDE DEF g
  <2>4. g \in Files
    BY <1>2, <2>3, FilesAre
  <2>5. q.at = p.at /\ q.files = g /\ q \in [at : FileName, files : Files]
    BY <1>1, <2>1, <2>4
  <2>6. q \in PackState
    BY <1>1, <2>3, <2>5 DEF PackState
  <2>7. QED
    BY <1>4, <2>3, <2>5, <2>6
<1>5. CASE e.marker
  <2> DEFINE g == [x \in D \cup {to} |-> IF x = to THEN <<>> ELSE p.files[x]]
  <2>1. q = [at |-> to, files |-> g]
    BY <1>5 DEF SplitLine, Opened, Target
  <2> HIDE DEF to
  <2>3. D \cup {to} \in SUBSET FileName
    BY <1>2, <1>3
  <2>4. /\ g \in [D \cup {to} -> TextList] /\ DOMAIN g = D \cup {to} /\ g[to] = <<>>
        /\ \A x \in D \ {to} : g[x] = p.files[x]
    BY <1>2, TextListIs
  <2> HIDE DEF g
  <2>5. g \in Files
    BY <2>3, <2>4, FilesAre
  <2>6. q.at = to /\ q.files = g /\ q \in [at : FileName, files : Files]
    BY <1>3, <2>1, <2>5
  <2>7. q \in PackState
    BY <2>4, <2>6 DEF PackState
  <2>8. QED
    BY <1>5, <2>4, <2>6, <2>7 DEF to
<1>6. QED
  BY <1>4, <1>5, LineIs

LEMMA PackStepIs ==
  /\ PackStart \in PackState
  /\ \A p \in PackState, e \in AnyLine : SplitLine(p, e) \in PackState /\ PackStep[<<p, e>>] = SplitLine(p, e)
  /\ Operation(PackStep, PackState, AnyLine)
<1>1. PackStart \in PackState
  <2>1. Primary \in FileName
    BY DEF FileName
  <2> DEFINE g == [x \in {Primary} |-> <<>>]
  <2>3. /\ {Primary} \in SUBSET FileName /\ g \in [{Primary} -> TextList]
        /\ DOMAIN g = {Primary}
    BY <2>1, TextListIs
  <2> HIDE DEF g
  <2>4. g \in Files
    BY <2>3, FilesAre
  <2>5. PackStart = [at |-> Primary, files |-> g]
    BY DEF PackStart, g
  <2>6. QED
    BY <2>1, <2>3, <2>4, <2>5 DEF PackState
<1>2. \A p \in PackState, e \in AnyLine : SplitLine(p, e) \in PackState
  BY SplitLineIs
<1>3. \A p \in PackState \X AnyLine : p[1] \in PackState /\ p[2] \in AnyLine
  OBVIOUS
<1>4. \A p \in PackState, e \in AnyLine : PackStep[<<p, e>>] = SplitLine(p, e)
  BY DEF PackStep
<1>5. Operation(PackStep, PackState, AnyLine)
  BY <1>2, <1>3 DEF PackStep, Operation
<1>6. QED
  BY <1>1, <1>2, <1>4, <1>5

LEMMA TextStepIs ==
  /\ <<>> \in TextList
  /\ \A b \in TextList, e \in AnyLine : TakeText(b, e) \in TextList /\ TextStep[<<b, e>>] = TakeText(b, e)
  /\ Operation(TextStep, TextList, AnyLine)
<1>1. ASSUME NEW b \in TextList, NEW e \in AnyLine PROVE TakeText(b, e) \in TextList
  BY LineIs, TextListIs DEF TakeText
<1>2. \A p \in TextList \X AnyLine : p[1] \in TextList /\ p[2] \in AnyLine
  OBVIOUS
<1>3. \A b \in TextList, e \in AnyLine : TextStep[<<b, e>>] = TakeText(b, e)
  BY DEF TextStep
<1>4. Operation(TextStep, TextList, AnyLine)
  BY <1>1, <1>2 DEF TextStep, Operation
<1>5. QED
  BY <1>1, <1>3, <1>4, TextListIs

LEMMA PackFolded ==
  ASSUME NEW s \in Seq(AnyLine)
  PROVE  PackOf(s) = Folded(PackStep, PackStart, s)
<1> DEFINE Iter(g) == g = [t \in SUBSET DOMAIN s |->
                              IF t = {} THEN PackStart ELSE SplitLine(g[t \ {Max(t)}], s[Max(t)])]
           g == CHOOSE g : Iter(g)
           m == Len(s)
<1>1. PackOf(s) = g[DOMAIN s]
  BY Zenon DEF PackOf, FoldLeft, MapThenFoldSet
<1>2. m \in Nat /\ DOMAIN s = 1..m /\ \A i \in 1..m : s[i] \in AnyLine
  BY LenProperties
<1>3. PICK f \in [SUBSET (1..m) -> PackState] : Folds(f, PackStep, PackStart, s, m)
  BY FoldsExist, PackStepIs
<1> HIDE DEF m
<1>4. \A t \in SUBSET (1..m) : t # {} => Max(t) \in t
  BY <1>2, MaxInside
<1>5. Iter(f)
  <2>1. ASSUME NEW t \in SUBSET (1..m), t # {}
        PROVE  PackStep[<<f[t \ {Max(t)}], s[Max(t)]>>] = SplitLine(f[t \ {Max(t)}], s[Max(t)])
    <3>1. s[Max(t)] \in AnyLine /\ f[t \ {Max(t)}] \in PackState
      BY <1>2, <1>4, <2>1
    <3>2. QED
      BY <3>1, PackStepIs
  <2>2. f = [t \in SUBSET (1..m) |->
                IF t = {} THEN PackStart ELSE PackStep[<<f[t \ {Max(t)}], s[Max(t)]>>]]
    BY <1>3, Zenon DEF Folds
  <2>3. f = [t \in SUBSET (1..m) |-> IF t = {} THEN PackStart ELSE SplitLine(f[t \ {Max(t)}], s[Max(t)])]
    BY <2>1, <2>2, Zenon
  <2>4. QED
    BY <1>2, <2>3
<1>6. Iter(g)
  BY <1>5, Zenon
<1> HIDE DEF g
<1>7. \A t \in SUBSET (1..m) : g[t] = IF t = {} THEN PackStart ELSE SplitLine(g[t \ {Max(t)}], s[Max(t)])
  BY <1>2, <1>6, Zenon
<1>8. ASSUME NEW i \in 0..(m - 1), g[1..i] \in PackState
      PROVE  g[1..(i + 1)] = PackStep[<<g[1..i], s[i + 1]>>]
  <2>1. /\ i \in Nat /\ i + 1 \in 1..m /\ i + 1 \in 1..(i + 1)
        /\ 1..(i + 1) \in SUBSET (1..m) /\ (1..(i + 1)) \ {i + 1} = 1..i
    BY <1>2
  <2>2. Max(1..(i + 1)) = i + 1
    BY <2>1, Greatest
  <2>3. 1..(i + 1) # {}
    BY <2>1
  <2>4. g[1..(i + 1)] = SplitLine(g[(1..(i + 1)) \ {Max(1..(i + 1))}], s[Max(1..(i + 1))])
    BY <1>7, <2>1, <2>3, Zenon
  <2>5. g[1..(i + 1)] = SplitLine(g[1..i], s[i + 1])
    BY <2>1, <2>2, <2>4, Zenon
  <2>6. QED
    BY <1>2, <1>8, <2>1, <2>5, PackStepIs
<1>9. g[{}] = PackStart
  BY <1>7
<1>10. g[1..m] = (CHOOSE h : Folds(h, PackStep, PackStart, s, Len(s)))[1..m]
  <2> DEFINE step == PackStep
  <2>1. PackStart \in PackState /\ Operation(step, PackState, AnyLine)
    BY PackStepIs
  <2>2. \A i \in 0..(m - 1) : g[1..i] \in PackState => g[1..(i + 1)] = step[<<g[1..i], s[i + 1]>>]
    BY <1>8
  <2> HIDE DEF step
  <2>3. m \in 0..m /\ m <= m /\ Len(s) = m
    BY <1>2 DEF m
  <2>4. g[1..m] = (CHOOSE h : Folds(h, step, PackStart, s, Len(s)))[1..m]
    BY <1>9, <2>1, <2>2, <2>3, WalkIsFold
  <2>5. QED
    BY <2>4, Zenon DEF step
<1>11. QED
  BY <1>1, <1>2, <1>10, Zenon DEF Folded, m

LEMMA PackLaws ==
  /\ PackOf(<<>>) = PackStart
  /\ \A s \in Seq(AnyLine) : PackOf(s) \in PackState
  /\ \A s \in Seq(AnyLine), e \in AnyLine : PackOf(Append(s, e)) = SplitLine(PackOf(s), e)
<1>0. PackStart \in PackState /\ Operation(PackStep, PackState, AnyLine)
  BY PackStepIs
<1>1. /\ Folded(PackStep, PackStart, <<>>) = PackStart
      /\ \A s \in Seq(AnyLine) : Folded(PackStep, PackStart, s) \in PackState
      /\ \A s \in Seq(AnyLine), e \in AnyLine :
             Folded(PackStep, PackStart, Append(s, e)) = PackStep[<<Folded(PackStep, PackStart, s), e>>]
  BY <1>0, FoldedLaws
<1>2. <<>> \in Seq(AnyLine) /\ \A s \in Seq(AnyLine), e \in AnyLine : Append(s, e) \in Seq(AnyLine)
  BY EmptySeq, AppendProperties
<1>3. \A s \in Seq(AnyLine) : PackOf(s) = Folded(PackStep, PackStart, s)
  BY PackFolded
<1>4. PackOf(<<>>) = PackStart /\ \A s \in Seq(AnyLine) : PackOf(s) \in PackState
  BY <1>1, <1>2, <1>3
<1>5. ASSUME NEW s \in Seq(AnyLine), NEW e \in AnyLine PROVE PackOf(Append(s, e)) = SplitLine(PackOf(s), e)
  <2>1. PackOf(Append(s, e)) = PackStep[<<PackOf(s), e>>]
    BY <1>1, <1>2, <1>3
  <2>2. QED
    BY <1>4, <2>1, PackStepIs
<1>6. QED
  BY <1>4, <1>5

LEMMA TextFolded ==
  ASSUME NEW s \in Seq(AnyLine)
  PROVE  Texts(s) = Folded(TextStep, <<>>, s)
<1> DEFINE Iter(g) == g = [t \in SUBSET DOMAIN s |->
                              IF t = {} THEN <<>> ELSE TakeText(g[t \ {Max(t)}], s[Max(t)])]
           g == CHOOSE g : Iter(g)
           m == Len(s)
<1>1. Texts(s) = g[DOMAIN s]
  BY Zenon DEF Texts, FoldLeft, MapThenFoldSet
<1>2. m \in Nat /\ DOMAIN s = 1..m /\ \A i \in 1..m : s[i] \in AnyLine
  BY LenProperties
<1>3. PICK f \in [SUBSET (1..m) -> TextList] : Folds(f, TextStep, <<>>, s, m)
  BY FoldsExist, TextStepIs
<1> HIDE DEF m
<1>4. \A t \in SUBSET (1..m) : t # {} => Max(t) \in t
  BY <1>2, MaxInside
<1>5. Iter(f)
  <2>1. ASSUME NEW t \in SUBSET (1..m), t # {}
        PROVE  TextStep[<<f[t \ {Max(t)}], s[Max(t)]>>] = TakeText(f[t \ {Max(t)}], s[Max(t)])
    <3>1. s[Max(t)] \in AnyLine /\ f[t \ {Max(t)}] \in TextList
      BY <1>2, <1>4, <2>1
    <3>2. QED
      BY <3>1, TextStepIs
  <2>2. f = [t \in SUBSET (1..m) |->
                IF t = {} THEN <<>> ELSE TextStep[<<f[t \ {Max(t)}], s[Max(t)]>>]]
    BY <1>3, Zenon DEF Folds
  <2>3. f = [t \in SUBSET (1..m) |-> IF t = {} THEN <<>> ELSE TakeText(f[t \ {Max(t)}], s[Max(t)])]
    BY <2>1, <2>2, Zenon
  <2>4. QED
    BY <1>2, <2>3
<1>6. Iter(g)
  BY <1>5, Zenon
<1> HIDE DEF g
<1>7. \A t \in SUBSET (1..m) : g[t] = IF t = {} THEN <<>> ELSE TakeText(g[t \ {Max(t)}], s[Max(t)])
  BY <1>2, <1>6, Zenon
<1>8. ASSUME NEW i \in 0..(m - 1), g[1..i] \in TextList
      PROVE  g[1..(i + 1)] = TextStep[<<g[1..i], s[i + 1]>>]
  <2>1. /\ i \in Nat /\ i + 1 \in 1..m /\ i + 1 \in 1..(i + 1)
        /\ 1..(i + 1) \in SUBSET (1..m) /\ (1..(i + 1)) \ {i + 1} = 1..i
    BY <1>2
  <2>2. Max(1..(i + 1)) = i + 1
    BY <2>1, Greatest
  <2>3. 1..(i + 1) # {}
    BY <2>1
  <2>4. g[1..(i + 1)] = TakeText(g[(1..(i + 1)) \ {Max(1..(i + 1))}], s[Max(1..(i + 1))])
    BY <1>7, <2>1, <2>3, Zenon
  <2>5. g[1..(i + 1)] = TakeText(g[1..i], s[i + 1])
    BY <2>1, <2>2, <2>4, Zenon
  <2>6. QED
    BY <1>2, <1>8, <2>1, <2>5, TextStepIs
<1>9. g[{}] = <<>>
  BY <1>7
<1>10. g[1..m] = (CHOOSE h : Folds(h, TextStep, <<>>, s, Len(s)))[1..m]
  <2> DEFINE step == TextStep
  <2>1. <<>> \in TextList /\ Operation(step, TextList, AnyLine)
    BY TextStepIs
  <2>2. \A i \in 0..(m - 1) : g[1..i] \in TextList => g[1..(i + 1)] = step[<<g[1..i], s[i + 1]>>]
    BY <1>8
  <2> HIDE DEF step
  <2>3. m \in 0..m /\ m <= m /\ Len(s) = m
    BY <1>2 DEF m
  <2>4. g[1..m] = (CHOOSE h : Folds(h, step, <<>>, s, Len(s)))[1..m]
    BY <1>9, <2>1, <2>2, <2>3, WalkIsFold
  <2>5. QED
    BY <2>4, Zenon DEF step
<1>11. QED
  BY <1>1, <1>2, <1>10, Zenon DEF Folded, m

LEMMA TextLaws ==
  /\ Texts(<<>>) = <<>>
  /\ \A s \in Seq(AnyLine) : Texts(s) \in TextList
  /\ \A s \in Seq(AnyLine), e \in AnyLine : Texts(Append(s, e)) = TakeText(Texts(s), e)
<1>0. <<>> \in TextList /\ Operation(TextStep, TextList, AnyLine)
  BY TextStepIs
<1>1. /\ Folded(TextStep, <<>>, <<>>) = <<>>
      /\ \A s \in Seq(AnyLine) : Folded(TextStep, <<>>, s) \in TextList
      /\ \A s \in Seq(AnyLine), e \in AnyLine :
             Folded(TextStep, <<>>, Append(s, e)) = TextStep[<<Folded(TextStep, <<>>, s), e>>]
  BY <1>0, FoldedLaws
<1>2. <<>> \in Seq(AnyLine) /\ \A s \in Seq(AnyLine), e \in AnyLine : Append(s, e) \in Seq(AnyLine)
  BY EmptySeq, AppendProperties
<1>3. \A s \in Seq(AnyLine) : Texts(s) = Folded(TextStep, <<>>, s)
  BY TextFolded
<1>4. Texts(<<>>) = <<>> /\ \A s \in Seq(AnyLine) : Texts(s) \in TextList
  BY <1>1, <1>2, <1>3
<1>5. ASSUME NEW s \in Seq(AnyLine), NEW e \in AnyLine PROVE Texts(Append(s, e)) = TakeText(Texts(s), e)
  <2>1. Texts(Append(s, e)) = TextStep[<<Texts(s), e>>]
    BY <1>1, <1>2, <1>3
  <2>2. QED
    BY <1>4, <2>1, TextStepIs
<1>6. QED
  BY <1>4, <1>5

LEMMA NamesAre ==
  /\ Primary \notin AnyName /\ Skipped \notin AnyName /\ Skipped # Primary
  /\ Artifact # Primary /\ Artifact # Skipped
<1>1. Skipped # Primary /\ Artifact # Primary /\ Artifact # Skipped
  BY Zenon DEF Skipped, Primary, Artifact
<1>2. QED
  BY <1>1 DEF AnyName

\* A line that is parked, after the lines s.
BadLine(s, e) == e.marker /\ (~e.safe \/ \E j \in 1..Len(s) : s[j].marker /\ s[j].safe /\ s[j].path = e.path)

LEMMA BadMarkersAre ==
  ASSUME NEW s \in Seq(AnyLine), NEW e \in AnyLine
  PROVE  /\ BadMarkers(s) \in SUBSET (1..Len(s))
         /\ BadMarkers(Append(s, e)) = BadMarkers(s) \cup {i \in {Len(s) + 1} : BadLine(s, e)}
<1> DEFINE n == Len(s)
           r == Append(s, e)
           Twice(z, i) == \E j \in 1..(i - 1) : z[j].marker /\ z[j].safe /\ z[j].path = z[i].path
           BadAt(z, i) == z[i].marker /\ (~z[i].safe \/ Twice(z, i))
<1>1. /\ n \in Nat /\ DOMAIN s = 1..n /\ DOMAIN r = 1..(n + 1) /\ r[n + 1] = e
      /\ \A i \in 1..n : r[i] = s[i]
  BY LenProperties, AppendProperties
<1>2. BadMarkers(s) = {i \in 1..n : BadAt(s, i)}
  BY <1>1, Zenon DEF BadMarkers
<1>3. BadMarkers(r) = {i \in 1..(n + 1) : BadAt(r, i)}
  BY <1>1, Zenon DEF BadMarkers
<1> HIDE DEF n, r
<1>4. ASSUME NEW i \in 1..n PROVE Twice(r, i) <=> Twice(s, i)
  <2>1. \A j \in 1..(i - 1) : r[j] = s[j]
    BY <1>1, <1>4
  <2>2. r[i] = s[i]
    BY <1>1, <1>4
  <2>3. QED
    BY <2>1, <2>2, Zenon
<1>5. Twice(r, n + 1) <=> \E j \in 1..n : s[j].marker /\ s[j].safe /\ s[j].path = e.path
  <2>1. (n + 1) - 1 = n
    BY <1>1
  <2> DEFINE Has(k, x) == \E j \in 1..k : r[j].marker /\ r[j].safe /\ r[j].path = x
  <2>2. Twice(r, n + 1) <=> Has(n, e.path)
    <3>1. Twice(r, n + 1) <=> Has((n + 1) - 1, r[n + 1].path)
      OBVIOUS
    <3>2. r[n + 1].path = e.path
      BY <1>1
    <3> HIDE DEF Has, Twice
    <3>3. QED
      BY <2>1, <3>1, <3>2
  <2>3. Has(n, e.path) <=> \E j \in 1..n : s[j].marker /\ s[j].safe /\ s[j].path = e.path
    BY <1>1, Zenon
  <2>4. QED
    BY <2>2, <2>3, Zenon
<1> HIDE DEF Twice
<1>6. BadAt(r, n + 1) <=> BadLine(s, e)
  BY <1>1, <1>5, Zenon DEF BadLine, n
<1>7. \A i \in 1..n : BadAt(r, i) <=> BadAt(s, i)
  BY <1>1, <1>4, Zenon
<1> HIDE DEF BadAt
<1>8. 1..(n + 1) = (1..n) \cup {n + 1}
  BY <1>1
<1>9. BadMarkers(r) = BadMarkers(s) \cup {i \in {n + 1} : BadLine(s, e)}
  <2>1. \A i \in 1..n : i # n + 1
    BY <1>1
  <2>2. QED
    BY <1>2, <1>3, <1>6, <1>7, <1>8, <2>1, Zenon
<1>10. QED
  BY <1>2, <1>9 DEF n, r

Single(B) == \A i, j \in B : i = j
Lengths(files) == [f \in DOMAIN files |-> Len(files[f])]

\* The text t is the lines of s from the i-th on.
Run(s, t, i) ==
    \A k \in 1..Len(t) : i + k - 1 \in 1..Len(s) /\ s[i + k - 1].marker = FALSE /\ s[i + k - 1].text = t[k]

\* Nothing is lost, every file is a run of lines, and the one being written ends with the last.
AllIn(s, p, t) ==
    /\ SumOver(Lengths(p.files), DOMAIN p.files) = Len(t)
    /\ Len(p.files[p.at]) <= Len(s) /\ Run(s, p.files[p.at], Len(s) + 1 - Len(p.files[p.at]))
    /\ \A f \in DOMAIN p.files : \E i \in 1..(Len(s) + 1) : Run(s, p.files[f], i)

Opens(s, x) == \E j \in 1..Len(s) : s[j].marker /\ s[j].safe /\ s[j].path = x

\* What the lines s make of the pack, and of the texts.
PackInv(s, p, t) ==
    /\ IsFiniteSet(DOMAIN p.files) /\ Primary \in DOMAIN p.files
    /\ \A x \in AnyName : x \in DOMAIN p.files <=> Opens(s, x)
    /\ Skipped \in DOMAIN p.files <=> BadMarkers(s) # {}
    /\ Single(BadMarkers(s)) => AllIn(s, p, t)

\* A run stays one when a line is added.
LEMMA RunStays ==
  ASSUME NEW s \in Seq(AnyLine), NEW e \in AnyLine, NEW t \in TextList, NEW i \in Int, Run(s, t, i)
  PROVE  Run(Append(s, e), t, i)
<1>1. \A k \in 1..Len(t) : i + k - 1 \in 1..Len(s) /\ s[i + k - 1].marker = FALSE /\ s[i + k - 1].text = t[k]
  BY DEF Run
<1>2. /\ Len(s) \in Nat /\ Len(Append(s, e)) = Len(s) + 1 /\ \A j \in 1..Len(s) : Append(s, e)[j] = s[j]
  BY LenProperties, AppendProperties
<1>3. \A j \in 1..Len(s) : j \in 1..Len(Append(s, e))
  BY <1>2
<1>4. QED
  BY <1>1, <1>2, <1>3 DEF Run

\* And grows when the line is a text and the run was at the end.
LEMMA RunGrows ==
  ASSUME NEW s \in Seq(AnyLine), NEW e \in AnyLine, NEW t \in TextList, ~e.marker,
         Len(t) <= Len(s), Run(s, t, Len(s) + 1 - Len(t))
  PROVE  Run(Append(s, e), Append(t, e.text), Len(s) + 1 - Len(t))
<1> DEFINE n == Len(s)
           m == Len(t)
           r == Append(s, e)
           u == Append(t, e.text)
           i == n + 1 - m
<1>1. /\ n \in Nat /\ Len(r) = n + 1 /\ r[n + 1] = e
      /\ m \in Nat /\ Len(u) = m + 1 /\ u[m + 1] = e.text /\ \A k \in 1..m : u[k] = t[k]
  BY LenProperties, AppendProperties, LineIs DEF TextList
<1>2. m <= n /\ Run(s, t, i)
  OBVIOUS
<1> HIDE DEF n, m, r, u
<1>3. Run(r, t, i)
  <2>1. i \in Int
    BY <1>1
  <2> HIDE DEF i
  <2>2. QED
    BY <1>2, <2>1, RunStays DEF r
<1>4. ASSUME NEW k \in 1..Len(u)
      PROVE  i + k - 1 \in 1..Len(r) /\ r[i + k - 1].marker = FALSE /\ r[i + k - 1].text = u[k]
  <2>1. CASE k \in 1..m
    <3>1. i + k - 1 \in 1..Len(r) /\ r[i + k - 1].marker = FALSE /\ r[i + k - 1].text = t[k]
      <4> HIDE DEF i
      <4>1. QED
        BY <1>3, <2>1 DEF Run, m
    <3>2. QED
      BY <1>1, <2>1, <3>1
  <2>2. CASE k = m + 1
    <3>1. i + k - 1 = n + 1 /\ n + 1 \in 1..Len(r)
      BY <1>1, <2>2
    <3>2. e.marker = FALSE
      BY LineIs
    <3> HIDE DEF i
    <3>3. QED
      BY <1>1, <2>2, <3>1, <3>2
  <2>3. k \in 1..m \/ k = m + 1
    BY <1>1, <1>4
  <2>4. QED
    BY <2>1, <2>2, <2>3
<1>5. QED
  BY <1>4 DEF Run, n, m, r, u

\* A file that is opened is empty and loses nothing of the others.
LEMMA OpenedKeeps ==
  ASSUME NEW s \in Seq(AnyLine), NEW e \in AnyLine, NEW p \in PackState, NEW t \in TextList,
         IsFiniteSet(DOMAIN p.files), AllIn(s, p, t), e.marker, Target(p, e) \notin DOMAIN p.files
  PROVE  AllIn(Append(s, e), SplitLine(p, e), t)
<1> DEFINE D == DOMAIN p.files
           to == Target(p, e)
           q == SplitLine(p, e)
           r == Append(s, e)
           n == Len(s)
<1>1. /\ q.at = to /\ DOMAIN q.files = D \cup {to} /\ q.files[to] = <<>>
      /\ \A x \in D : q.files[x] = p.files[x]
  BY SplitLineIs
<1>2. /\ p.files \in Files /\ q.files \in Files
      /\ (\A x \in D : p.files[x] \in TextList) /\ \A x \in D \cup {to} : q.files[x] \in TextList
  <2>1. p.files \in Files /\ q.files \in Files
    BY PackStepIs DEF PackState
  <2>2. QED
    BY <1>1, <2>1, FilesAre
<1>3. n \in Nat /\ Len(r) = n + 1 /\ Len(<<>>) = 0
  BY LenProperties, AppendProperties
<1>4. /\ SumOver(Lengths(p.files), D) = Len(t)
      /\ \A f \in D : \E i \in 1..(n + 1) : Run(s, p.files[f], i)
  BY DEF AllIn
<1> HIDE DEF D, to, q, r, n
<1>5. IsFiniteSet(D) /\ to \notin D
  BY DEF D, to
<1>6. SumOver(Lengths(q.files), D \cup {to}) = Len(t)
  <2> DEFINE f == Lengths(q.files)
             g == Lengths(p.files)
  <2>1. f[to] = 0 /\ \A x \in D : f[x] = g[x] /\ f[x] \in Int
    <3>1. DOMAIN p.files = D /\ DOMAIN q.files = D \cup {to}
      BY <1>1 DEF D
    <3>2. \A x \in D : Len(p.files[x]) \in Int
      BY <1>2, TextListIs
    <3>3. QED
      BY <1>1, <1>3, <3>1, <3>2 DEF Lengths
  <2> HIDE DEF f, g
  <2>2. SumOver(f, D) = SumOver(g, D) /\ SumOver(f, D) \in Int
    BY <1>5, <2>1, SumSame, SumType
  <2>3. \A x \in D \cup {to} : f[x] \in Int
    BY <2>1
  <2>4. SumOver(f, D \cup {to}) = f[to] + SumOver(f, D)
    BY <1>5, <2>3, SumGrow
  <2>5. QED
    BY <1>4, <2>1, <2>2, <2>4 DEF f, g
<1>7. \A i : Run(r, <<>>, i)
  BY <1>3 DEF Run
<1>8. Len(q.files[q.at]) <= Len(r) /\ Run(r, q.files[q.at], Len(r) + 1 - Len(q.files[q.at]))
  BY <1>1, <1>3, <1>7
<1>9. ASSUME NEW f \in D \cup {to} PROVE \E i \in 1..(Len(r) + 1) : Run(r, q.files[f], i)
  <2>1. CASE f = to
    BY <1>1, <1>3, <1>7, <2>1
  <2>2. CASE f \in D
    <3>1. PICK i \in 1..(n + 1) : Run(s, p.files[f], i)
      BY <1>4, <2>2
    <3>2. i \in Int /\ i \in 1..(Len(r) + 1)
      BY <1>3, <3>1
    <3>3. Run(r, q.files[f], i)
      BY <1>1, <1>2, <2>2, <3>1, <3>2, RunStays DEF r
    <3>4. QED
      BY <3>2, <3>3
  <2>3. QED
    BY <1>9, <2>1, <2>2
<1>10. AllIn(r, q, t)
  BY <1>1, <1>6, <1>8, <1>9 DEF AllIn
<1>11. QED
  BY <1>10 DEF q, r

\* A text goes to the end of the file that is being written.
LEMMA WrittenKeeps ==
  ASSUME NEW s \in Seq(AnyLine), NEW e \in AnyLine, NEW p \in PackState, NEW t \in TextList,
         IsFiniteSet(DOMAIN p.files), AllIn(s, p, t), ~e.marker
  PROVE  AllIn(Append(s, e), SplitLine(p, e), Append(t, e.text))
<1> DEFINE D == DOMAIN p.files
           q == SplitLine(p, e)
           r == Append(s, e)
           n == Len(s)
           a == p.at
<1>1. /\ q.at = a /\ DOMAIN q.files = D /\ q.files[a] = Append(p.files[a], e.text) /\ a \in D
      /\ \A x \in D \ {a} : q.files[x] = p.files[x]
  BY SplitLineIs DEF PackState
<1>2. \A x \in D : p.files[x] \in TextList
  BY FilesAre DEF PackState
<1>3. n \in Nat /\ Len(r) = n + 1 /\ e.text \in Nat
  BY LenProperties, AppendProperties, LineIs
<1>4. /\ SumOver(Lengths(p.files), D) = Len(t)
      /\ Len(p.files[a]) <= n /\ Run(s, p.files[a], n + 1 - Len(p.files[a]))
      /\ \A f \in D : \E i \in 1..(n + 1) : Run(s, p.files[f], i)
  BY DEF AllIn
<1> HIDE DEF D, q, a
<1>5. IsFiniteSet(D)
  BY DEF D
<1>6. /\ Len(q.files[a]) = Len(p.files[a]) + 1 /\ Len(p.files[a]) \in Nat
      /\ Len(Append(t, e.text)) = Len(t) + 1
  BY <1>1, <1>2, <1>3, TextListIs
<1>7. SumOver(Lengths(q.files), D) = Len(Append(t, e.text))
  <2> DEFINE f == Lengths(p.files)
             g == Lengths(q.files)
  <2>1. (\A x \in D : f[x] \in Int) /\ g[a] = f[a] + 1 /\ \A x \in D \ {a} : g[x] = f[x]
    <3>1. DOMAIN p.files = D /\ DOMAIN q.files = D
      BY <1>1 DEF D
    <3>2. \A x \in D : Len(p.files[x]) \in Int
      BY <1>2, TextListIs
    <3>3. QED
      BY <1>1, <1>6, <3>1, <3>2 DEF Lengths
  <2> HIDE DEF f, g
  <2>2. SumOver(g, D) = SumOver(f, D) + 1
    BY <1>1, <1>5, <2>1, SumChange
  <2>3. QED
    BY <1>4, <1>6, <2>2 DEF f, g
<1>8. Run(r, q.files[a], n + 1 - Len(p.files[a]))
  BY <1>1, <1>2, <1>4, RunGrows
<1> HIDE DEF r, n
<1>9. Len(q.files[q.at]) <= Len(r) /\ Run(r, q.files[q.at], Len(r) + 1 - Len(q.files[q.at]))
  <2>1. Len(r) + 1 - Len(q.files[a]) = n + 1 - Len(p.files[a])
    <3> DEFINE x == Len(q.files[a])
               y == Len(p.files[a])
    <3>1. x = y + 1 /\ y \in Nat
      BY <1>6
    <3> HIDE DEF x, y
    <3>2. Len(r) + 1 - x = n + 1 - y
      BY <1>3, <3>1
    <3>3. QED
      BY <3>2 DEF x, y
  <2>2. Len(q.files[a]) <= Len(r)
    BY <1>3, <1>4, <1>6
  <2>3. QED
    BY <1>1, <1>8, <2>1, <2>2
<1>10. ASSUME NEW f \in D PROVE \E i \in 1..(Len(r) + 1) : Run(r, q.files[f], i)
  <2>1. CASE f = a
    <3>1. n + 1 - Len(p.files[a]) \in 1..(Len(r) + 1)
      <4> DEFINE y == Len(p.files[a])
      <4>1. y <= n /\ y \in Nat
        BY <1>4, <1>6
      <4> HIDE DEF y
      <4>2. n + 1 - y \in 1..(Len(r) + 1)
        BY <1>3, <4>1
      <4>3. QED
        BY <4>2 DEF y
    <3>2. QED
      BY <1>8, <2>1, <3>1
  <2>2. CASE f # a
    <3>1. PICK i \in 1..(n + 1) : Run(s, p.files[f], i)
      BY <1>4
    <3>2. i \in Int /\ i \in 1..(Len(r) + 1)
      BY <1>3, <3>1
    <3>3. Run(r, q.files[f], i)
      BY <1>1, <1>2, <2>2, <3>1, <3>2, RunStays DEF r
    <3>4. QED
      BY <3>2, <3>3
  <2>3. QED
    BY <2>1, <2>2
<1>11. AllIn(r, q, Append(t, e.text))
  BY <1>1, <1>7, <1>9, <1>10 DEF AllIn
<1>12. QED
  BY <1>11 DEF q, r

\* One line more.
LEMMA PackOneMore ==
  ASSUME NEW s \in Seq(AnyLine), NEW e \in AnyLine, NEW p \in PackState, NEW t \in TextList,
         PackInv(s, p, t)
  PROVE  PackInv(Append(s, e), SplitLine(p, e), TakeText(t, e))
<1> DEFINE D == DOMAIN p.files
           to == Target(p, e)
           q == SplitLine(p, e)
           r == Append(s, e)
           n == Len(s)
           B == BadMarkers(s)
           C == BadMarkers(r)
<1>1. /\ ~e.marker => DOMAIN q.files = D
      /\ e.marker => DOMAIN q.files = D \cup {to}
  BY SplitLineIs
<1>2. /\ IsFiniteSet(D) /\ Primary \in D
      /\ \A x \in AnyName : x \in D <=> Opens(s, x)
      /\ Skipped \in D <=> B # {}
      /\ Single(B) => AllIn(s, p, t)
  BY DEF PackInv
<1>3. C = B \cup {i \in {n + 1} : BadLine(s, e)} /\ B \in SUBSET (1..n)
  BY BadMarkersAre
<1>4. n \in Nat /\ Len(r) = n + 1 /\ r[n + 1] = e /\ \A i \in 1..n : r[i] = s[i]
  BY LenProperties, AppendProperties
<1>5. e.marker \in BOOLEAN /\ e.safe \in BOOLEAN /\ (e.marker => e.path \in AnyName)
  BY LineIs
<1>6. ASSUME NEW x PROVE Opens(r, x) <=> Opens(s, x) \/ (e.marker /\ e.safe /\ e.path = x)
  <2> DEFINE Is(l) == l.marker /\ l.safe /\ l.path = x
  <2>1. (Opens(s, x) <=> \E j \in 1..n : Is(s[j])) /\ (Opens(r, x) <=> \E j \in 1..(n + 1) : Is(r[j]))
    BY <1>4, Zenon DEF Opens
  <2>2. Is(e) <=> e.marker /\ e.safe /\ e.path = x
    OBVIOUS
  <2> HIDE DEF Is, r, n
  <2>3. (\E j \in 1..(n + 1) : Is(r[j])) <=> (\E j \in 1..n : Is(s[j])) \/ Is(e)
    <3>1. \A j \in 1..(n + 1) : j \in 1..n \/ j = n + 1
      BY <1>4
    <3>2. n + 1 \in 1..(n + 1) /\ \A j \in 1..n : j \in 1..(n + 1)
      BY <1>4
    <3>3. QED
      BY <1>4, <3>1, <3>2
  <2>4. QED
    BY <2>1, <2>2, <2>3
<1>7. BadLine(s, e) <=> e.marker /\ (~e.safe \/ Opens(s, e.path))
  BY Zenon DEF BadLine, Opens
<1> HIDE DEF D, to, q, r, n, B, C
<1>8. CASE ~e.marker
  <2>1. ~BadLine(s, e) /\ C = B
    BY <1>3, <1>7, <1>8
  <2>2. TakeText(t, e) = Append(t, e.text)
    BY <1>8 DEF TakeText
  <2>3. AllIn(s, p, t) => AllIn(r, q, Append(t, e.text))
    BY <1>2, <1>8, WrittenKeeps DEF D, q, r
  <2>4. \A x \in AnyName : x \in D <=> Opens(r, x)
    BY <1>2, <1>6, <1>8
  <2>5. DOMAIN q.files = D
    BY <1>1, <1>8
  <2>6. PackInv(r, q, Append(t, e.text))
    BY <1>2, <2>1, <2>3, <2>4, <2>5 DEF PackInv, C
  <2>7. QED
    BY <2>2, <2>6 DEF q, r
<1>9. CASE e.marker /\ e.safe /\ e.path \notin D
  <2>1. to = e.path /\ to \in AnyName /\ to \notin D
    BY <1>5, <1>9 DEF Target, to, D
  <2>2. ~BadLine(s, e) /\ C = B
    BY <1>2, <1>3, <1>7, <1>9, <2>1
  <2>3. TakeText(t, e) = t
    BY <1>9 DEF TakeText
  <2>4. AllIn(s, p, t) => AllIn(r, q, t)
    BY <1>2, <1>9, <2>1, OpenedKeeps DEF D, q, r, to
  <2>5. \A x \in AnyName : x \in D \cup {to} <=> Opens(r, x)
    BY <1>2, <1>6, <1>9, <2>1
  <2>6. DOMAIN q.files = D \cup {to} /\ IsFiniteSet(D \cup {to})
    BY <1>1, <1>2, <1>9, FS_AddElement
  <2>7. Skipped \in D \cup {to} <=> C # {}
    BY <1>2, <2>1, <2>2, NamesAre
  <2>8. PackInv(r, q, t)
    BY <1>2, <2>2, <2>4, <2>5, <2>6, <2>7 DEF PackInv, C
  <2>9. QED
    BY <2>3, <2>8 DEF q, r
<1>10. CASE e.marker /\ (~e.safe \/ e.path \in D)
  <2>1. to = Skipped
    BY <1>10 DEF Target, to, D
  <2>2. BadLine(s, e) /\ C = B \cup {n + 1}
    BY <1>2, <1>3, <1>5, <1>7, <1>10
  <2>3. TakeText(t, e) = t
    BY <1>10 DEF TakeText
  <2>4. ASSUME Single(C) PROVE AllIn(r, q, t)
    <3>1. B = {}
      <4>1. \A i \in B : i # n + 1
        BY <1>3, <1>4
      <4>2. QED
        BY <2>2, <2>4, <4>1 DEF Single
    <3>2. Skipped \notin D /\ AllIn(s, p, t)
      BY <1>2, <3>1 DEF Single
    <3>3. QED
      BY <1>2, <1>10, <2>1, <3>2, OpenedKeeps DEF D, q, r, to
  <2>5. \A x \in AnyName : x \in D \cup {to} <=> Opens(r, x)
    BY <1>2, <1>6, <1>10, <2>1, NamesAre
  <2>6. DOMAIN q.files = D \cup {to} /\ IsFiniteSet(D \cup {to})
    BY <1>1, <1>2, <1>10, FS_AddElement
  <2>7. Skipped \in D \cup {to} /\ C # {}
    BY <2>1, <2>2
  <2>8. PackInv(r, q, t)
    BY <1>2, <2>4, <2>5, <2>6, <2>7 DEF PackInv, C
  <2>9. QED
    BY <2>3, <2>8 DEF q, r
<1>11. QED
  BY <1>5, <1>8, <1>9, <1>10

LEMMA PackInvAlways ==
  ASSUME NEW s \in Seq(AnyLine)
  PROVE  PackInv(s, PackOf(s), Texts(s))
<1> DEFINE S == {r \in Seq(AnyLine) : PackInv(r, PackOf(r), Texts(r))}
<1>1. <<>> \in S
  <2> DEFINE p == PackOf(<<>>)
             D == DOMAIN p.files
  <2>1. p = PackStart /\ Texts(<<>>) = <<>> /\ <<>> \in Seq(AnyLine) /\ Len(<<>>) = 0
    BY PackLaws, TextLaws, EmptySeq
  <2>2. p.at = Primary /\ D = {Primary} /\ p.files[Primary] = <<>>
    BY <2>1 DEF PackStart
  <2>3. BadMarkers(<<>>) = {}
    <3>1. DOMAIN <<>> = {}
      OBVIOUS
    <3>2. QED
      BY <3>1, Zenon DEF BadMarkers
  <2>4. \A x : ~Opens(<<>>, x)
    BY <2>1 DEF Opens
  <2>5. \A i : Run(<<>>, <<>>, i)
    BY <2>1 DEF Run
  <2>6. SumOver(Lengths(p.files), D) = 0
    <3> DEFINE f == Lengths(p.files)
    <3>1. f[Primary] = 0
      BY <2>1, <2>2 DEF Lengths
    <3> HIDE DEF f
    <3>2. SumOver(f, {Primary}) = f[Primary] + SumOver(f, {}) /\ SumOver(f, {}) = 0
      <4>1. IsFiniteSet({}) /\ Primary \notin {} /\ {} \cup {Primary} = {Primary}
        BY FS_EmptySet
      <4>2. \A y \in {} \cup {Primary} : f[y] \in Int
        BY <3>1
      <4>3. SumOver(f, {}) = 0
        BY <4>1, SumStep
      <4>4. SumOver(f, {} \cup {Primary}) = f[Primary] + SumOver(f, {})
        BY <4>1, <4>2, SumGrow
      <4>5. QED
        BY <4>1, <4>3, <4>4
    <3>3. SumOver(f, {Primary}) = 0
      BY <3>1, <3>2
    <3>4. QED
      BY <2>2, <3>3, Zenon DEF f
  <2> HIDE DEF p, D
  <2>7. AllIn(<<>>, p, <<>>)
    BY <2>1, <2>2, <2>5, <2>6 DEF AllIn, D
  <2>8. IsFiniteSet(D)
    BY <2>2, FS_Singleton
  <2>9. PackInv(<<>>, p, <<>>)
    BY <2>2, <2>3, <2>4, <2>7, <2>8, NamesAre DEF PackInv, D
  <2>10. QED
    BY <2>1, <2>9 DEF p
<1>2. ASSUME NEW r \in Seq(AnyLine), NEW e \in AnyLine, r \in S PROVE Append(r, e) \in S
  <2>1. /\ PackOf(Append(r, e)) = SplitLine(PackOf(r), e) /\ PackOf(r) \in PackState
        /\ Texts(Append(r, e)) = TakeText(Texts(r), e) /\ Texts(r) \in TextList
    BY PackLaws, TextLaws
  <2>2. PackInv(r, PackOf(r), Texts(r))
    BY <1>2
  <2>3. PackInv(Append(r, e), PackOf(Append(r, e)), Texts(Append(r, e)))
    BY <2>1, <2>2, PackOneMore
  <2>4. QED
    BY <2>3, AppendProperties
<1> HIDE DEF S
<1>3. s \in S
  BY <1>1, <1>2, SequenceInduction
<1>4. QED
  BY <1>3 DEF S

\* The sum of the library, over the files of a pack.
LEMMA SumOfLengths ==
  ASSUME NEW files, IsFiniteSet(DOMAIN files)
  PROVE  MapThenSumSet(LAMBDA f : Len(files[f]), DOMAIN files) = SumOver(Lengths(files), DOMAIN files)
<1> DEFINE D == DOMAIN files
           Iter(g) == g = [u \in SUBSET D |-> IF u = {} THEN 0 ELSE Len(files[AnyOf(u)]) + g[Rest(u)]]
           g == CHOOSE g : Iter(g)
           lens == Lengths(files)
<1>1. MapThenSumSet(LAMBDA f : Len(files[f]), D) = g[D]
  BY Zenon DEF MapThenSumSet, MapThenFoldSet, AnyOf, Rest
<1>2. \A u \in SUBSET D : u # {} => lens[AnyOf(u)] = Len(files[AnyOf(u)])
  <2>1. \A u \in SUBSET D : u # {} => AnyOf(u) \in D
    BY RestIs
  <2>2. QED
    BY <2>1 DEF Lengths
<1> HIDE DEF D, lens
<1>3. \A h : Iter(h) <=> Adds(h, lens, D)
  <2>1. ASSUME NEW h
        PROVE  [u \in SUBSET D |-> IF u = {} THEN 0 ELSE Len(files[AnyOf(u)]) + h[Rest(u)]]
                   = [u \in SUBSET D |-> IF u = {} THEN 0 ELSE lens[AnyOf(u)] + h[Rest(u)]]
    BY <1>2, Zenon
  <2>2. QED
    BY <2>1, Zenon DEF Adds
<1>4. \E h : Adds(h, lens, D)
  BY AddsExist DEF D
<1>5. Iter(g)
  <2> HIDE DEF Iter
  <2>1. \E h : Iter(h)
    BY <1>3, <1>4
  <2>2. QED
    BY <2>1, Zenon
<1> HIDE DEF Iter, g
<1>6. Adds(g, lens, D) /\ Adds(CHOOSE h : Adds(h, lens, D), lens, D)
  <2>1. Adds(CHOOSE h : Adds(h, lens, D), lens, D)
    BY <1>4, Zenon
  <2>2. QED
    BY <1>3, <1>5, <2>1
<1>7. D \in SUBSET (D \cap D) /\ IsFiniteSet(D)
  BY DEF D
<1>8. g[D] = (CHOOSE h : Adds(h, lens, D))[D]
  BY <1>6, <1>7, AddsAgree
<1>9. QED
  BY <1>1, <1>8, SumIs DEF D, lens

LEMMA AtMostOne ==
  ASSUME NEW B, IsFiniteSet(B), Cardinality(B) <= 1
  PROVE  Single(B)
<1>1. ASSUME NEW i \in B, NEW j \in B, i # j PROVE FALSE
  <2>1. IsFiniteSet({i}) /\ Cardinality({i}) = 1 /\ j \notin {i}
    BY <1>1, FS_Singleton
  <2>2. Cardinality({i} \cup {j}) = 2
    BY <2>1, FS_AddElement, SMTT(30)
  <2>3. Cardinality({i} \cup {j}) <= Cardinality(B) /\ Cardinality(B) \in Nat
    BY FS_Subset, FS_CardinalityType
  <2>4. QED
    BY <2>2, <2>3
<1>2. QED
  BY <1>1 DEF Single

LEMMA PackOfAny ==
  ASSUME NEW s \in Seq(AnyLine)
  PROVE  PackKept(s)
<1> DEFINE files == SplitArtifact(s)
           disk == SplitPack(s)
           t == Texts(s)
           B == BadMarkers(s)
           D == DOMAIN files
           p == PackOf(s)
           lost == IF Replaced(files) THEN Len(files[Primary]) ELSE 0
<1>1. /\ p.files = files /\ PackInv(s, p, t) /\ p \in PackState /\ t \in TextList
  <2>1. p.files = files
    BY Zenon DEF SplitArtifact, PackOf
  <2>2. QED
    BY <2>1, PackInvAlways, PackLaws, TextLaws
<1>2. /\ IsFiniteSet(D) /\ Primary \in D
      /\ Skipped \in D <=> B # {}
      /\ Single(B) => AllIn(s, p, t)
  BY <1>1 DEF PackInv
<1>3. (\A f \in D : files[f] \in TextList) /\ files \in Files
  BY <1>1, FilesAre DEF PackState
<1>4. PackKept(s) <=>
          /\ Cardinality(B) <= 1 =>
                 /\ Len(t) = MapThenSumSet(LAMBDA f : Len(files[f]), D)
                 /\ \A f \in D : \E i \in 1..(Len(s) + 1) : \A k \in DOMAIN files[f] :
                        s[i + k - 1].marker = FALSE /\ s[i + k - 1].text = files[f][k]
          /\ B = {} => MapThenSumSet(LAMBDA f : Len(disk[f]), DOMAIN disk) >= Len(t) - lost
  BY Zenon DEF PackKept
<1>5. IsFiniteSet(B)
  <2>1. B \subseteq DOMAIN s /\ DOMAIN s = 1..Len(s) /\ Len(s) \in Nat
    BY LenProperties, Zenon DEF BadMarkers
  <2>2. IsFiniteSet(1..Len(s))
    BY <2>1, FS_Interval
  <2>3. QED
    BY <2>1, <2>2, FS_Subset
<1>6. disk = [f \in {f \in D : f \notin {Skipped, Artifact} /\ files[f] # <<>>} \cup {Primary} |->
                  CASE f # Primary -> files[f]
                    [] f = Primary /\ Replaced(files) -> files[Artifact]
                    [] f = Primary /\ ~Replaced(files) -> IF files[f] = <<>> THEN t ELSE files[f]]
  BY Zenon DEF SplitPack
<1> HIDE DEF t, B, p, disk, files, lost
<1>7. ASSUME Single(B)
      PROVE  /\ SumOver(Lengths(files), D) = Len(t)
             /\ \A f \in D : \E i \in 1..(Len(s) + 1) : Run(s, files[f], i)
  BY <1>1, <1>2, <1>7 DEF AllIn
<1>8. ASSUME Cardinality(B) <= 1
      PROVE  /\ Len(t) = MapThenSumSet(LAMBDA f : Len(files[f]), D)
             /\ \A f \in D : \E i \in 1..(Len(s) + 1) : \A k \in DOMAIN files[f] :
                    s[i + k - 1].marker = FALSE /\ s[i + k - 1].text = files[f][k]
  <2>1. Single(B)
    BY <1>5, <1>8, AtMostOne
  <2>2. MapThenSumSet(LAMBDA f : Len(files[f]), D) = SumOver(Lengths(files), D)
    BY <1>2, SumOfLengths
  <2>3. ASSUME NEW f \in D
        PROVE  \E i \in 1..(Len(s) + 1) : \A k \in DOMAIN files[f] :
                    s[i + k - 1].marker = FALSE /\ s[i + k - 1].text = files[f][k]
    <3>1. PICK i \in 1..(Len(s) + 1) : Run(s, files[f], i)
      BY <1>7, <2>1
    <3>2. DOMAIN files[f] = 1..Len(files[f])
      BY <1>3, LenProperties DEF TextList
    <3>3. \A k \in DOMAIN files[f] : s[i + k - 1].marker = FALSE /\ s[i + k - 1].text = files[f][k]
      BY <3>1, <3>2 DEF Run
    <3>4. QED
      BY <3>3, Zenon
  <2>4. QED
    BY <1>7, <2>1, <2>2, <2>3
<1>9. ASSUME B = {} PROVE MapThenSumSet(LAMBDA f : Len(disk[f]), DOMAIN disk) >= Len(t) - lost
  <2> DEFINE E == {f \in D : f \notin {Skipped, Artifact} /\ files[f] # <<>>} \cup {Primary}
             g == Lengths(files)
             h == Lengths(disk)
             D2 == D \ {Primary, Artifact}
             E2 == E \ {Primary}
             over == IF Replaced(files) THEN files[Artifact]
                     ELSE IF files[Primary] = <<>> THEN t ELSE files[Primary]
  <2>1. /\ DOMAIN disk = E /\ E \in SUBSET D /\ IsFiniteSet(E) /\ Primary \in E
        /\ disk[Primary] = over
        /\ \A f \in E \ {Primary} : disk[f] = files[f]
    <3>1. E \in SUBSET D
      BY <1>2
    <3>2. IsFiniteSet(E)
      BY <1>2, <3>1, FS_Subset
    <3>3. DOMAIN disk = E /\ Primary \in E
      BY <1>6
    <3>4. disk[Primary] = over
      BY <1>6
    <3>5. \A f \in E \ {Primary} : disk[f] = files[f]
      BY <1>6
    <3>6. QED
      BY <3>1, <3>2, <3>3, <3>4, <3>5
  <2>2. /\ E2 \in SUBSET D2 /\ D2 \in SUBSET D /\ IsFiniteSet(D2) /\ IsFiniteSet(E2)
        /\ \A f \in D2 \ E2 : files[f] = <<>>
    <3>1. E2 \in SUBSET D2 /\ D2 \in SUBSET D
      BY NamesAre
    <3>2. \A f \in D2 \ E2 : files[f] = <<>>
      BY <1>2, <1>9
    <3>3. QED
      BY <1>2, <3>1, <3>2, FS_Subset
  <2>3. E = E2 \cup {Primary} /\ Primary \notin E2 /\ Primary \notin D2
    BY <2>1
  <2> HIDE DEF E, E2
  <2>4. /\ \A f \in D : g[f] = Len(files[f]) /\ g[f] \in Int /\ g[f] >= 0
        /\ \A f \in E : h[f] = Len(disk[f])
        /\ Len(t) \in Nat /\ Len(<<>>) = 0
    BY <1>1, <1>3, <2>1, TextListIs DEF Lengths
  <2>5. /\ \A f \in E2 : h[f] = g[f]
        /\ \A f \in D2 \ E2 : g[f] = 0
        /\ h[Primary] = Len(over) /\ g[Primary] = Len(files[Primary])
    BY <1>2, <2>1, <2>2, <2>3, <2>4
  <2>6. MapThenSumSet(LAMBDA f : Len(disk[f]), DOMAIN disk) = SumOver(h, E)
    BY <2>1, SumOfLengths
  <2>7. SumOver(g, D) = Len(t)
    BY <1>7, <1>9 DEF Single
  <2>8. /\ Len(over) \in Nat
        /\ Replaced(files) => Artifact \in D /\ over = files[Artifact]
        /\ ~Replaced(files) => Len(over) >= Len(files[Primary]) /\ (Artifact \in D => files[Artifact] = <<>>)
    <3>1. CASE Replaced(files)
      <4>1. Artifact \in D /\ over = files[Artifact]
        BY <3>1 DEF Replaced
      <4>2. QED
        BY <1>3, <3>1, <4>1, TextListIs
    <3>2. CASE ~Replaced(files)
      <4>1. over = IF files[Primary] = <<>> THEN t ELSE files[Primary]
        BY <3>2
      <4>2. Artifact \in D => files[Artifact] = <<>>
        BY <3>2 DEF Replaced
      <4>3. Len(files[Primary]) \in Nat
        BY <1>2, <1>3, TextListIs
      <4>4. Len(over) \in Nat /\ Len(over) >= Len(files[Primary])
        <5>1. CASE files[Primary] = <<>>
          <6>1. over = t /\ Len(files[Primary]) = 0
            BY <2>4, <4>1, <5>1
          <6>2. QED
            BY <2>4, <6>1
        <5>2. CASE files[Primary] # <<>>
          BY <4>1, <4>3, <5>2
        <5>3. QED
          BY <5>1, <5>2
      <4>5. QED
        BY <3>2, <4>2, <4>4
    <3>3. QED
      BY <3>1, <3>2
  <2>a. Artifact \in D => g[Artifact] = Len(files[Artifact]) /\ g[Artifact] \in Nat
    BY <2>4
  <2>b. g[Primary] \in Nat
    BY <1>2, <2>4
  <2>9. Artifact \in D /\ ~Replaced(files) => g[Artifact] = 0
    BY <2>4, <2>8, <2>a
  <2> HIDE DEF g, h, over, D2
  <2>10. /\ \A f \in E2 : h[f] \in Int /\ h[f] >= g[f]
         /\ \A f \in D2 : g[f] \in Int /\ g[f] >= 0
         /\ h[Primary] \in Int
    <3>1. \A f \in D2 : g[f] \in Int /\ g[f] >= 0
      BY <2>2, <2>4
    <3>2. h[Primary] \in Int
      BY <2>5, <2>8
    <3>3. QED
      BY <2>2, <2>5, <3>1, <3>2
  <2>11. SumOver(g, D2) <= SumOver(h, E2) /\ SumOver(h, E2) \in Int /\ SumOver(g, D2) \in Int
    BY <2>2, <2>5, <2>10, SumWithin
  <2>12. SumOver(h, E) = h[Primary] + SumOver(h, E2)
    BY <2>2, <2>3, <2>10, SumGrow
  <2>13. /\ Artifact \in D => SumOver(g, D) = g[Primary] + (g[Artifact] + SumOver(g, D2))
         /\ Artifact \notin D => SumOver(g, D) = g[Primary] + SumOver(g, D2)
    <3>1. ASSUME Artifact \in D PROVE SumOver(g, D) = g[Primary] + (g[Artifact] + SumOver(g, D2))
      <4>1. /\ Artifact \notin D2 /\ Primary \notin D2 \cup {Artifact} /\ IsFiniteSet(D2 \cup {Artifact})
            /\ (D2 \cup {Artifact}) \cup {Primary} = D
        <5>1. IsFiniteSet(D2 \cup {Artifact})
          BY <2>2, FS_AddElement
        <5>2. QED
          BY <1>2, <3>1, <5>1, NamesAre DEF D2
      <4>2. /\ \A f \in D2 \cup {Artifact} : g[f] \in Int
            /\ \A f \in (D2 \cup {Artifact}) \cup {Primary} : g[f] \in Int
        BY <2>4, <4>1
      <4>3. SumOver(g, D2 \cup {Artifact}) = g[Artifact] + SumOver(g, D2)
        BY <2>2, <4>1, <4>2, SumGrow
      <4>4. SumOver(g, (D2 \cup {Artifact}) \cup {Primary}) = g[Primary] + SumOver(g, D2 \cup {Artifact})
        BY <4>1, <4>2, SumGrow
      <4>5. QED
        BY <4>1, <4>3, <4>4
    <3>2. ASSUME Artifact \notin D PROVE SumOver(g, D) = g[Primary] + SumOver(g, D2)
      <4>1. D2 \cup {Primary} = D
        BY <1>2, <3>2 DEF D2
      <4>2. \A f \in D2 \cup {Primary} : g[f] \in Int
        BY <2>4, <4>1
      <4>3. QED
        BY <2>2, <2>3, <4>1, <4>2, SumGrow
    <3>3. QED
      BY <3>1, <3>2
  <2> HIDE DEF D
  <2>15. SumOver(h, E) >= Len(t) - lost
    <3>1. CASE Replaced(files)
      <4>1. lost = g[Primary] /\ h[Primary] = g[Artifact] /\ g[Artifact] \in Nat
        BY <2>5, <2>8, <2>a, <3>1 DEF lost
      <4>2. Len(t) = g[Primary] + (g[Artifact] + SumOver(g, D2))
        BY <2>7, <2>8, <2>13, <3>1
      <4>3. QED
        BY <2>b, <2>11, <2>12, <4>1, <4>2
    <3>2. CASE ~Replaced(files)
      <4>1. lost = 0 /\ h[Primary] \in Nat /\ h[Primary] >= g[Primary]
        BY <2>5, <2>8, <3>2 DEF lost
      <4>2. Len(t) = g[Primary] + SumOver(g, D2)
        BY <2>7, <2>9, <2>11, <2>13, <2>b, <3>2
      <4>3. QED
        BY <2>b, <2>11, <2>12, <4>1, <4>2
    <3>3. QED
      BY <3>1, <3>2
  <2>16. QED
    BY <2>6, <2>15
<1>10. QED
  BY <1>4, <1>8, <1>9

-----------------------------------------------------------------------------
(* The plan, the blueprints and the audit.                                  *)

LEMMA EntriesOf ==
  ASSUME NEW S, NEW a \in Seq(S), NEW b \in Seq(S)
  PROVE  /\ ToSet(a \o b) = ToSet(a) \cup ToSet(b)
         /\ a = <<>> <=> ToSet(a) = {}
         /\ ToSet(a) \in SUBSET S
<1> DEFINE m == Len(a)
           n == Len(b)
           c == a \o b
<1>1. /\ m \in Nat /\ n \in Nat /\ DOMAIN a = 1..m /\ DOMAIN b = 1..n
      /\ c \in Seq(S) /\ Len(c) = m + n /\ DOMAIN c = 1..(m + n)
      /\ \A i \in 1..(m + n) : c[i] = IF i <= m THEN a[i] ELSE b[i - m]
      /\ \A i \in 1..m : a[i] \in S
  BY LenProperties, ConcatProperties
<1>2. a = <<>> <=> m = 0
  BY EmptySeq
<1> HIDE DEF m, n, c
<1>3. ToSet(c) \subseteq ToSet(a) \cup ToSet(b)
  <2>1. ASSUME NEW i \in 1..(m + n) PROVE c[i] \in ToSet(a) \cup ToSet(b)
    <3>1. CASE i <= m
      <4>1. i \in DOMAIN a /\ c[i] = a[i]
        BY <1>1, <3>1
      <4>2. QED
        BY <4>1 DEF ToSet
    <3>2. CASE ~(i <= m)
      <4>1. i - m \in DOMAIN b /\ c[i] = b[i - m]
        BY <1>1, <3>2
      <4>2. QED
        BY <4>1 DEF ToSet
    <3>3. QED
      BY <3>1, <3>2
  <2>2. QED
    BY <1>1, <2>1 DEF ToSet
<1>4. ToSet(a) \subseteq ToSet(c)
  <2>1. \A i \in DOMAIN a : i \in DOMAIN c /\ c[i] = a[i]
    BY <1>1
  <2>2. QED
    BY <2>1, Zenon DEF ToSet
<1>5. ToSet(b) \subseteq ToSet(c)
  <2>1. ASSUME NEW i \in DOMAIN b PROVE \E j \in DOMAIN c : c[j] = b[i]
    <3>1. i + m \in DOMAIN c /\ (i + m) - m = i /\ ~(i + m <= m)
      BY <1>1
    <3>2. c[i + m] = b[i]
      BY <1>1, <3>1
    <3>3. QED
      BY <3>1, <3>2
  <2>2. QED
    BY <2>1, Zenon DEF ToSet
<1>6. m = 0 <=> ToSet(a) = {}
  <2>a. m \in Nat /\ DOMAIN a = 1..m
    BY <1>1
  <2>b. m = 0 => 1..m = {}
    BY <2>a
  <2>c. m # 0 => 1 \in 1..m
    BY <2>a
  <2>1. m = 0 <=> DOMAIN a = {}
    BY <2>a, <2>b, <2>c, Zenon
  <2>2. QED
    BY <2>1 DEF ToSet
<1>7. ToSet(a) \in SUBSET S
  BY <1>1 DEF ToSet
<1>8. QED
  BY <1>2, <1>3, <1>4, <1>5, <1>6, <1>7 DEF c

LEMMA NothingInSix ==
  \A a, b, c, d, e, f :
      UNION {a, b, c, d, e, f} = {} <=> a = {} /\ b = {} /\ c = {} /\ d = {} /\ e = {} /\ f = {}
OBVIOUS

Marked(m, U) == {<<m, i>> : i \in U}

LEMMA NoMarks == \A m, U : Marked(m, U) = {} <=> U = {}
<1>1. TAKE m, U
<1>2. \A i \in U : <<m, i>> \in Marked(m, U)
  BY DEF Marked
<1>3. Marked(m, U) # {} => \E i \in U : TRUE
  BY DEF Marked
<1>4. QED
  BY <1>2, <1>3

LEMMA PlanOfAny ==
  ASSUME NEW S, NEW p, p.tasks \in Seq(S)
  PROVE  PlanTraced(p)
<1> DEFINE tasks == ToSet(p.tasks)
           a == IF p.sections THEN {} ELSE {Gap("missing section")}
           b == IF tasks = {} THEN {Gap("no tasks")} ELSE {}
           c == {<<"unlinked", t>> : t \in {t \in tasks : t.reqs \cup t.acs = {}}}
           d == {<<"undefined", i>> : i \in UNION {(t.reqs \ p.reqs) \cup (t.acs \ p.acs) : t \in tasks}}
           e == {<<"undefined", i>> : i \in (UNION {t.deps : t \in tasks}) \ {t.id : t \in tasks}}
           f == {<<"untraced", i>> : i \in (p.reqs \ UNION {t.reqs : t \in tasks})
                                          \cup (p.acs \ UNION {t.acs : t \in tasks})}
<1>1. p.tasks = <<>> <=> tasks = {}
  BY EntriesOf
<1>2. p.parsed => (PlanExecutableIssues(p) = UNION {a, b, c, d, e, f})
  BY Zenon DEF PlanExecutableIssues
<1>3. ~p.parsed => PlanExecutableIssues(p) # {}
  BY DEF PlanExecutableIssues
<1>4. a = {} <=> p.sections
  OBVIOUS
<1>5. b = {} <=> tasks # {}
  OBVIOUS
<1> HIDE DEF tasks, a, b
<1>6. c = {} <=> \A t \in tasks : t.reqs \cup t.acs # {}
  OBVIOUS
<1>7. d = {} <=> \A t \in tasks : t.reqs \subseteq p.reqs /\ t.acs \subseteq p.acs
  <2> DEFINE U == UNION {(t.reqs \ p.reqs) \cup (t.acs \ p.acs) : t \in tasks}
  <2>1. d = {} <=> U = {}
    <3>1. d = Marked("undefined", U)
      BY Zenon DEF Marked
    <3> HIDE DEF d, U
    <3>2. QED
      BY <3>1, NoMarks
  <2>2. U = {} <=> \A t \in tasks : (t.reqs \ p.reqs) \cup (t.acs \ p.acs) = {}
    OBVIOUS
  <2> HIDE DEF U
  <2>3. \A t : (t.reqs \ p.reqs) \cup (t.acs \ p.acs) = {} <=> t.reqs \subseteq p.reqs /\ t.acs \subseteq p.acs
    OBVIOUS
  <2> HIDE DEF d
  <2>4. QED
    BY <2>1, <2>2, <2>3, Zenon
<1>8. e = {} <=> \A t \in tasks : \A u \in t.deps : \E s \in tasks : s.id = u
  <2> DEFINE U == UNION {t.deps : t \in tasks}
             V == {t.id : t \in tasks}
  <2>1. e = {} <=> U \subseteq V
    <3>1. e = Marked("undefined", U \ V)
      BY Zenon DEF Marked
    <3> HIDE DEF U, V, e
    <3>2. e = {} <=> U \ V = {}
      BY <3>1, NoMarks
    <3>3. QED
      BY <3>2
  <2>2. U \subseteq V <=> \A t \in tasks : \A u \in t.deps : u \in V
    <3> HIDE DEF V
    <3>1. QED
      OBVIOUS
  <2>3. \A u : u \in V <=> \E s \in tasks : s.id = u
    OBVIOUS
  <2> HIDE DEF U, V, e
  <2>4. QED
    BY <2>1, <2>2, <2>3, Zenon
<1>9. f = {} <=> /\ \A r \in p.reqs : \E t \in tasks : r \in t.reqs
                 /\ \A z \in p.acs : \E t \in tasks : z \in t.acs
  <2> DEFINE U == UNION {t.reqs : t \in tasks}
             V == UNION {t.acs : t \in tasks}
  <2>1. (\A r : r \in U <=> \E t \in tasks : r \in t.reqs) /\ (\A z : z \in V <=> \E t \in tasks : z \in t.acs)
    OBVIOUS
  <2>2. f = {} <=> (\A r \in p.reqs : r \in U) /\ (\A z \in p.acs : z \in V)
    <3>1. f = Marked("untraced", (p.reqs \ U) \cup (p.acs \ V))
      BY Zenon DEF Marked
    <3> HIDE DEF U, V, f
    <3>2. f = {} <=> (p.reqs \ U) \cup (p.acs \ V) = {}
      BY <3>1, NoMarks
    <3>3. QED
      BY <3>2
  <2> HIDE DEF U, V, f
  <2>3. QED
    BY <2>1, <2>2, Zenon
<1> HIDE DEF c, d, e, f
<1>10. UNION {a, b, c, d, e, f} = {} <=> a = {} /\ b = {} /\ c = {} /\ d = {} /\ e = {} /\ f = {}
  BY NothingInSix
<1> DEFINE Traced(t) == /\ t.reqs \cup t.acs # {} /\ t.reqs \subseteq p.reqs /\ t.acs \subseteq p.acs
                        /\ \A u \in t.deps : \E s \in tasks : s.id = u
           Whole == /\ \A r \in p.reqs : \E t \in tasks : r \in t.reqs
                    /\ \A z \in p.acs : \E t \in tasks : z \in t.acs
<1>11. c = {} /\ d = {} /\ e = {} <=> \A t \in tasks : Traced(t)
  BY <1>6, <1>7, <1>8, Zenon
<1>12. f = {} <=> Whole
  BY <1>9, Zenon
<1>13. PlanTraced(p) <=> (PlanExecutableIssues(p) = {} <=>
                             /\ p.parsed /\ p.sections /\ p.tasks # <<>>
                             /\ (\A t \in tasks : Traced(t)) /\ Whole)
  BY Zenon DEF PlanTraced, tasks
<1> HIDE DEF Traced, Whole
<1>14. QED
  BY <1>1, <1>2, <1>3, <1>4, <1>5, <1>10, <1>11, <1>12, <1>13, Zenon

\* Entries with ids and references from any set.
AnyEntry(T) == [object : BOOLEAN, id : T, complete : BOOLEAN, refs : SUBSET T]
AnyLists(T) == [complete : BOOLEAN, refs : SUBSET T]
AnyBlueprint(T) == [shape : {"list", "object", "text"}, main : Seq(AnyEntry(T)), decisions : Seq(AnyEntry(T)),
                    lists : AnyLists(T)]

LEMMA IssuesNone ==
  ASSUME NEW d, NEW known, NEW refs
  PROVE  /\ Issues(d, known, refs) = {} <=>
                /\ d.main # <<>> /\ ~Incomplete(d.main) /\ d.lists.complete /\ ~Incomplete(d.decisions)
                /\ (\A e \in ToSet(d.decisions) : e.id # "none") /\ refs \subseteq known
         /\ Issues(d, known, refs) # Failed
<1> DEFINE a == IF d.main = <<>> THEN {Gap("nothing to execute")} ELSE {}
           b == IF Incomplete(d.main) THEN {Gap("incomplete entry")} ELSE {}
           c == IF d.lists.complete THEN {} ELSE {Gap("missing list")}
           Odd == Incomplete(d.decisions) \/ \E e \in ToSet(d.decisions) : e.id = "none"
           f == IF Odd THEN {Gap("incomplete decision")} ELSE {}
           g == {<<"undefined", t>> : t \in refs \ known}
<1>1. Issues(d, known, refs) = UNION {a, b, c, f, g}
  BY Zenon DEF Issues
<1>2. a = {} <=> d.main # <<>>
  OBVIOUS
<1>3. b = {} <=> ~Incomplete(d.main)
  OBVIOUS
<1>4. c = {} <=> d.lists.complete
  OBVIOUS
<1>5. f = {} <=> ~Incomplete(d.decisions) /\ \A e \in ToSet(d.decisions) : e.id # "none"
  <2>1. f = {} <=> ~Odd
    <3> HIDE DEF Odd
    <3>1. QED
      OBVIOUS
  <2>2. QED
    BY <2>1, Zenon
<1>6. g = {} <=> refs \subseteq known
  OBVIOUS
<1>7. Gap("raised") \notin UNION {a, b, c, f, g}
  <2>1. Gap("raised") \notin a
    BY DEF Gap
  <2>2. Gap("raised") \notin b
    BY DEF Gap
  <2>3. Gap("raised") \notin c
    BY DEF Gap
  <2>4. Gap("raised") \notin f
    <3> HIDE DEF Odd
    <3>1. QED
      BY DEF Gap
  <2>5. Gap("raised") \notin g
    BY DEF Gap
  <2> HIDE DEF a, b, c, f, g
  <2>6. QED
    BY <2>1, <2>2, <2>3, <2>4, <2>5
<1> HIDE DEF a, b, c, f, g
<1>8. UNION {a, b, c, f, g} = {} <=> a = {} /\ b = {} /\ c = {} /\ f = {} /\ g = {}
  OBVIOUS
<1>9. Issues(d, known, refs) # Failed
  BY <1>1, <1>7 DEF Failed
<1>10. QED
  BY <1>1, <1>2, <1>3, <1>4, <1>5, <1>6, <1>8, <1>9

\* Nothing is lost in reading a well-formed document, and its validator does not raise.
LEMMA ReadAsItIs ==
  ASSUME NEW T, NEW kind \in Blueprints, NEW d \in AnyBlueprint(T), WellFormed(kind, d)
  PROVE  /\ Read(kind, d) = d
         /\ ~Unreadable(d.main, d.decisions, <<>>) /\ ~Unreadable(d.main, d.decisions, d.decisions)
         /\ ~Unreadable(d.main, d.decisions, d.main \o d.decisions)
<1>1. [d EXCEPT !.main = d.main] = d
  BY DEF AnyBlueprint
<1>2. \A e \in ToSet(d.main \o d.decisions) : e.object /\ e.id # "number"
  BY Zenon DEF WellFormed
<1>3. /\ d.main \in Seq(AnyEntry(T)) /\ d.decisions \in Seq(AnyEntry(T))
  BY DEF AnyBlueprint
<1>4. ToSet(d.main \o d.decisions) = ToSet(d.main) \cup ToSet(d.decisions) /\ ToSet(<<>>) = {}
  <2>1. ToSet(d.main \o d.decisions) = ToSet(d.main) \cup ToSet(d.decisions)
    BY <1>3, EntriesOf
  <2>2. DOMAIN <<>> = {}
    OBVIOUS
  <2>3. ToSet(<<>>) = {}
    BY <2>2 DEF ToSet
  <2>4. QED
    BY <2>1, <2>3
<1>5. /\ d.shape = "list" \/ (d.shape = "object" /\ kind # "architecture")
  BY Zenon DEF WellFormed
<1>6. d.shape # "text"
  BY <1>5
<1>7. Read(kind, d) = d
  <2>1. CASE kind = "architecture"
    <3>1. ArchSection(d) = d.main
      BY <1>5, <2>1 DEF ArchSection
    <3>2. Read(kind, d) = [d EXCEPT !.main = ArchSection(d)]
      BY <2>1 DEF Read
    <3>3. QED
      BY <1>1, <3>1, <3>2
  <2>2. CASE kind \in {"devops", "tdd", "review", "design"}
    <3>1. /\ DevopsSection(d) = d.main /\ TddSection(d) = d.main /\ ReviewSection(d) = d.main
          /\ DesignSection(d) = d.main
      BY <1>6 DEF DevopsSection, TddSection, ReviewSection, DesignSection
    <3>2. \/ Read(kind, d) = [d EXCEPT !.main = DevopsSection(d)]
          \/ Read(kind, d) = [d EXCEPT !.main = TddSection(d)]
          \/ Read(kind, d) = [d EXCEPT !.main = ReviewSection(d)]
          \/ Read(kind, d) = [d EXCEPT !.main = DesignSection(d)]
      BY <2>2 DEF Read
    <3>3. QED
      BY <1>1, <3>1, <3>2
  <2>3. CASE kind = "audit"
    <3>1. AuditSection(d) = d.main
      BY <1>6 DEF AuditSection
    <3>2. Read(kind, d) = [d EXCEPT !.main = AuditSection(d)]
      BY <2>3 DEF Read
    <3>3. QED
      BY <1>1, <3>1, <3>2
  <2>4. QED
    BY <2>1, <2>2, <2>3 DEF Blueprints
<1>8. QED
  BY <1>2, <1>4, <1>7, Zenon DEF Unreadable

LEMMA BlueprintOfAny ==
  ASSUME NEW T, NEW kind \in Blueprints, NEW d \in AnyBlueprint(T)
  PROVE  BlueprintNoted(kind, d)
<1>1. SUFFICES ASSUME WellFormed(kind, d), kind # "design", ~(kind = "architecture" /\ NamesItsDecision(d))
               PROVE  /\ Noted(kind, d) => ~Executable(kind, d)
                      /\ ~Executable(kind, d) => Noted(kind, d) \/ Unasked(kind, d)
  BY Zenon DEF BlueprintNoted
<1>2. /\ Read(kind, d) = d
      /\ ~Unreadable(d.main, d.decisions, <<>>) /\ ~Unreadable(d.main, d.decisions, d.decisions)
      /\ ~Unreadable(d.main, d.decisions, d.main \o d.decisions)
  BY <1>1, ReadAsItIs
<1> DEFINE ids == AllIds(d)
           mine == Ids(d.main)
           refs == EntryRefs(d)
           more == d.lists.refs
           some == refs \cup IF d.main = <<>> THEN {} ELSE more
           Base == /\ d.main # <<>> /\ ~Incomplete(d.main) /\ d.lists.complete /\ ~Incomplete(d.decisions)
                   /\ \A e \in ToSet(d.decisions) : e.id # "none"
           Core == Base /\ refs \subseteq ids /\ (kind \in {"devops", "tdd", "review"} => more \subseteq ids)
<1>3. Executable(kind, d) <=>
          Core /\ (kind \in Strict => d.decisions # <<>> /\ \A e \in ToSet(d.main) : e.id # "none")
  <2>1. d.main \in Seq(AnyEntry(T)) /\ d.decisions \in Seq(AnyEntry(T))
    BY DEF AnyBlueprint
  <2>2. ToSet(d.main \o d.decisions) = ToSet(d.main) \cup ToSet(d.decisions)
    BY <2>1, EntriesOf
  <2>3. (\A e \in ToSet(d.main \o d.decisions) : e.complete) <=> ~Incomplete(d.main) /\ ~Incomplete(d.decisions)
    BY <2>2, Zenon DEF Incomplete
  <2>4. QED
    BY <2>3, Zenon DEF Executable
<1>4. Noted(kind, d) <=> ExecutableIssues(kind, d) # {} /\ ExecutableIssues(kind, d) # Failed
  BY <1>1, <1>2 DEF Noted
<1>5. \A known, named : /\ Issues(d, known, named) = {} <=> Base /\ named \subseteq known
                        /\ Issues(d, known, named) # Failed
  BY IssuesNone, Zenon
<1>u. Unasked(kind, d) <=>
          ~(kind \in Strict => d.decisions # <<>> /\ \A e \in ToSet(d.main) : e.id # "none")
  BY Zenon DEF Unasked
<1> HIDE DEF Base
<1>6. ASSUME kind = "architecture" PROVE Noted(kind, d) <=> ~Core
  <2>1. ExecutableIssues(kind, d) = Issues(d, mine, refs)
    BY <1>2, <1>6 DEF ExecutableIssues, ArchExecutableIssues, Checked
  <2>2. refs \subseteq mine <=> refs \subseteq ids
    BY <1>1, <1>6 DEF NamesItsDecision, AllIds
  <2>3. QED
    BY <1>4, <1>5, <1>6, <2>1, <2>2
<1>7. ASSUME kind = "audit" PROVE Noted(kind, d) <=> ~Core
  <2>1. ExecutableIssues(kind, d) = Issues(d, ids, refs)
    BY <1>2, <1>7 DEF ExecutableIssues, AuditExecutableIssues, Checked
  <2>2. QED
    BY <1>4, <1>5, <1>7, <2>1
<1>8. ASSUME kind \in {"tdd", "review"} PROVE Noted(kind, d) <=> ~Core
  <2>1. ExecutableIssues(kind, d) = Issues(d, ids, refs \cup more)
    BY <1>2, <1>8 DEF ExecutableIssues, TddExecutableIssues, ReviewExecutableIssues, Checked
  <2>2. refs \cup more \subseteq ids <=> refs \subseteq ids /\ more \subseteq ids
    OBVIOUS
  <2> HIDE DEF refs, more, ids
  <2>3. QED
    BY <1>4, <1>5, <1>8, <2>1, <2>2
<1>9. ASSUME kind = "devops" PROVE Noted(kind, d) <=> ~Core
  <2>1. ExecutableIssues(kind, d) = Issues(d, ids, some)
    BY <1>2, <1>9 DEF ExecutableIssues, DevopsExecutableIssues, Checked
  <2>2. Base => (some \subseteq ids <=> refs \subseteq ids /\ more \subseteq ids)
    BY DEF Base
  <2> HIDE DEF refs, more, ids, some
  <2>3. QED
    BY <1>4, <1>5, <1>9, <2>1, <2>2
<1> HIDE DEF Core
<1>10. Noted(kind, d) <=> ~Core
  BY <1>1, <1>6, <1>7, <1>8, <1>9 DEF Blueprints
<1>11. QED
  BY <1>3, <1>u, <1>10, Zenon

LEMMA OfTwo ==
  ASSUME NEW a \in Int, NEW b \in Int
  PROVE  /\ Max({a, b}) = IF a >= b THEN a ELSE b
         /\ Min({a, b}) = IF a <= b THEN a ELSE b
<1> DEFINE u == IF a >= b THEN a ELSE b
           l == IF a <= b THEN a ELSE b
<1>1. u \in {a, b} /\ \A y \in {a, b} : u >= y
  OBVIOUS
<1>2. \A x \in {a, b} : (\A y \in {a, b} : x >= y) => x = u
  OBVIOUS
<1>3. l \in {a, b} /\ \A y \in {a, b} : l <= y
  OBVIOUS
<1>4. \A x \in {a, b} : (\A y \in {a, b} : x <= y) => x = l
  OBVIOUS
<1> HIDE DEF u, l
<1>5. Max({a, b}) \in {a, b} /\ \A y \in {a, b} : Max({a, b}) >= y
  BY <1>1, Zenon DEF Max
<1>6. Min({a, b}) \in {a, b} /\ \A y \in {a, b} : Min({a, b}) <= y
  BY <1>3, Zenon DEF Min
<1>7. Max({a, b}) = u /\ Min({a, b}) = l
  BY <1>2, <1>4, <1>5, <1>6
<1>8. QED
  BY <1>7 DEF u, l

LEMMA FourAreFinite == \A a, b, c, d : IsFiniteSet({a, b, c, d})
<1>1. TAKE a, b, c, d
<1>2. IsFiniteSet({a} \cup {b})
  BY FS_Singleton, FS_AddElement
<1>3. IsFiniteSet(({a} \cup {b}) \cup {c})
  BY <1>2, FS_AddElement
<1>4. IsFiniteSet((({a} \cup {b}) \cup {c}) \cup {d})
  BY <1>3, FS_AddElement
<1>5. (({a} \cup {b}) \cup {c}) \cup {d} = {a, b, c, d}
  OBVIOUS
<1>6. QED
  BY <1>4, <1>5

\* What each issue of a page says.
LEMMA IssueIs ==
  ASSUME NEW p \in Page, NEW i \in WebQaIssues(p)
  PROVE  \/ ~p.closed /\ i = Issue("truncated")
         \/ p.stub /\ i = Issue("too short")
         \/ \E d \in p.defects : i = Issue(d)
         \/ i \in {Issue("dead link"), Issue("hollow page"), Issue("skeleton page")}
         \/ \E v \in Basics : i = <<"device", v>>
         \/ \E s \in Sections : i = <<"broken anchor", s>> \/ i = <<"unlinked section", s>>
<1> DEFINE a == IF p.closed THEN {} ELSE {Issue("truncated")}
           b == IF p.stub THEN {Issue("too short")} ELSE {}
           c == {Issue(d) : d \in p.defects}
           e == IF p.hash THEN {Issue("dead link")} ELSE {}
           g == {<<"device", v>> : v \in Basics \ p.basics}
           h == {<<"broken anchor", t>> : t \in (p.nav \ Elements(p)) \ {Top}}
           l == {<<"unlinked section", s>> : s \in WebSectionIds(p) \ p.nav}
           hollow == Cardinality(p.nav) >= 2 /\ Cardinality(p.nav \cap Full(p)) < HollowNeed(Cardinality(p.nav))
           m == IF hollow THEN {Issue("hollow page")} ELSE {}
           bare == Cardinality(WebSectionIds(p)) >= 2 /\ Full(p) = {}
           n == IF bare THEN {Issue("skeleton page")} ELSE {}
<1>1. WebQaIssues(p) = UNION {a, b, c, e, g, h, l, m, n}
  BY Zenon DEF WebQaIssues
<1>2. /\ i \in a => ~p.closed /\ i = Issue("truncated")
      /\ i \in b => p.stub /\ i = Issue("too short")
      /\ i \in c => \E d \in p.defects : i = Issue(d)
      /\ i \in e => i = Issue("dead link")
      /\ i \in g => \E v \in Basics : i = <<"device", v>>
  OBVIOUS
<1> HIDE DEF hollow, bare
<1>4. (i \in m => i = Issue("hollow page")) /\ (i \in n => i = Issue("skeleton page"))
  OBVIOUS
<1>5. i \in h => \E s \in Sections : i = <<"broken anchor", s>>
  <2>1. (p.nav \ Elements(p)) \ {Top} \subseteq Sections
    BY DEF Page, Targets
  <2>2. QED
    BY <2>1
<1>6. i \in l => \E s \in Sections : i = <<"unlinked section", s>>
  <2>1. WebSectionIds(p) \ p.nav \subseteq Sections
    BY DEF WebSectionIds
  <2>2. QED
    BY <2>1
<1> HIDE DEF a, b, c, e, g, h, l, m, n
<1>7. \/ i \in a \/ i \in b \/ i \in c \/ i \in e
      \/ i \in g \/ i \in h \/ i \in l \/ i \in m \/ i \in n
  BY <1>1
<1>8. QED
  BY <1>2, <1>4, <1>5, <1>6, <1>7, Zenon

\* A page has finitely many issues.
LEMMA IssuesFinite ==
  ASSUME NEW p \in Page
  PROVE  IsFiniteSet(WebQaIssues(p))
<1> DEFINE K == {"truncated", "too short", "dead link", "hollow page", "skeleton page", "broken anchor",
                 "unlinked section", "device"} \cup Defects
           V == (Sections \cup Basics) \cup {"page"}
<1>1. ASSUME NEW i \in WebQaIssues(p) PROVE i \in K \X V
  <2> DEFINE W == K \X V
  <2>1. /\ "page" \in V /\ (\A s \in Sections : s \in V) /\ (\A v \in Basics : v \in V)
        /\ "broken anchor" \in K /\ "unlinked section" \in K /\ "device" \in K
        /\ "truncated" \in K /\ "too short" \in K /\ "dead link" \in K /\ "hollow page" \in K
        /\ "skeleton page" \in K /\ \A d \in Defects : d \in K
    OBVIOUS
  <2>2. p.defects \subseteq Defects
    BY DEF Page
  <2> HIDE DEF K, V
  <2>3. (\A x \in K, y \in V : <<x, y>> \in W) /\ \A x \in K : Issue(x) \in W
    BY <2>1 DEF Issue
  <2> HIDE DEF W
  <2>4. ASSUME \/ \E s \in Sections : i = <<"broken anchor", s>> \/ i = <<"unlinked section", s>>
               \/ \E v \in Basics : i = <<"device", v>>
        PROVE  i \in W
    BY <2>1, <2>3, <2>4, Zenon
  <2>5. ASSUME i \in {Issue("truncated"), Issue("too short"), Issue("dead link"), Issue("hollow page"),
                      Issue("skeleton page")}
        PROVE  i \in W
    BY <2>1, <2>3, <2>5
  <2>6. ASSUME \E d \in p.defects : i = Issue(d) PROVE i \in W
    BY <2>1, <2>2, <2>3, <2>6
  <2>7. i \in W
    BY <2>4, <2>5, <2>6, IssueIs
  <2>8. QED
    BY <2>7 DEF W
<1>2. IsFiniteSet(K)
  <2> DEFINE X == {"truncated", "too short", "dead link", "hollow page"}
             Y == {"skeleton page", "broken anchor", "unlinked section", "device"}
             Z == {"sandbox-unsafe", "no <style> block", "unclosed block", "poor looks"}
             U == {"no readable text", "undefined CSS variable", "poor looks", "poor looks"}
  <2>1. IsFiniteSet(X) /\ IsFiniteSet(Y) /\ IsFiniteSet(Z) /\ IsFiniteSet(U)
    BY FourAreFinite
  <2>2. K = (X \cup Y) \cup (Z \cup U)
    BY DEF Defects, Structure
  <2> HIDE DEF K, X, Y, Z, U
  <2>3. IsFiniteSet(X \cup Y) /\ IsFiniteSet(Z \cup U)
    BY <2>1, FS_Union
  <2>4. QED
    BY <2>2, <2>3, FS_Union
<1>3. IsFiniteSet(V)
  <2>1. IsFiniteSet(Basics)
    <3>1. IsFiniteSet({"viewport", "lang", "breakpoints", "breakpoints"})
      BY FourAreFinite
    <3>2. Basics = {"viewport", "lang", "breakpoints", "breakpoints"}
      BY DEF Basics
    <3>3. QED
      BY <3>1, <3>2
  <2>2. IsFiniteSet(Sections \cup Basics)
    BY <2>1, PageAssumption, FS_Union
  <2>3. QED
    BY <2>2, FS_AddElement
<1> HIDE DEF K, V
<1>4. IsFiniteSet(K \X V)
  BY <1>2, <1>3, FS_Product
<1>5. WebQaIssues(p) \subseteq K \X V
  BY <1>1
<1>6. QED
  BY <1>4, <1>5, FS_Subset

\* A defect is among the kinds of what the audit reports.
LEMMA DefectIsReported ==
  ASSUME NEW p \in Page
  PROVE  /\ p.stub => Issue("too short") \in WebQaIssues(p) /\ "too short" \in Kinds(WebQaIssues(p))
         /\ \A d \in p.defects : Issue(d) \in WebQaIssues(p) /\ d \in Kinds(WebQaIssues(p))
<1> DEFINE issues == WebQaIssues(p)
<1>1. /\ p.stub => Issue("too short") \in issues
      /\ \A d \in p.defects : Issue(d) \in issues
  BY DEF WebQaIssues
<1>2. \A x : Issue(x)[1] = x
  BY DEF Issue
<1> HIDE DEF issues
<1>3. \A x : Issue(x) \in issues => x \in Kinds(issues)
  BY <1>2, Zenon DEF Kinds
<1>4. QED
  BY <1>1, <1>3 DEF issues

\* A page too short to be one, or without text to read, does not reach 70.
LEMMA LowScores ==
  ASSUME NEW p \in Page, p.stub \/ "no readable text" \in p.defects
  PROVE  WebDeliverableScore(p) < 70
<1> DEFINE issues == WebQaIssues(p)
           c == Cardinality(issues)
           k == p.flaws
           closed == IF p.closed THEN 10 ELSE 0
           linked == IF WebSectionIds(p) # {} /\ WebSectionIds(p) \subseteq p.nav THEN 5 ELSE 0
           text == IF "no readable text" \in p.defects THEN -30
                   ELSE IF ~p.stub /\ Full(p) # {} THEN 10 ELSE 0
           viewport == IF "viewport" \in p.basics THEN 5 ELSE -5
           lang == IF "lang" \in p.basics THEN 5 ELSE -5
           narrow == IF "breakpoints" \in p.basics THEN 5 ELSE 0
<1>1. WebQaShouldRepair(issues) /\ issues # {}
  <2>1. "too short" \in Hard /\ "no readable text" \in Hard
    BY DEF Hard
  <2>2. \E x \in Hard : x \in Kinds(issues) /\ Issue(x) \in issues
    <3> HIDE DEF issues
    <3>1. QED
      BY <2>1, DefectIsReported DEF issues
  <2> HIDE DEF issues
  <2>3. QED
    BY <2>2, Zenon DEF WebQaShouldRepair
<1>2. WebDeliverableScore(p) = Max({0, Min({100, 100 - 55 - Min({30, 6 * (c + k)})
                                      + closed + linked + text + viewport + lang + narrow})})
  BY <1>1 DEF WebDeliverableScore
<1>3. c \in Nat /\ c # 0
  <2>1. IsFiniteSet(issues)
    BY IssuesFinite
  <2> HIDE DEF issues
  <2>2. QED
    BY <1>1, <2>1, FS_CardinalityType, FS_EmptySet
<1>4. k \in Nat
  BY DEF Page
<1>5. closed \in {0, 10} /\ linked \in {0, 5} /\ narrow \in {0, 5}
  BY Zenon
<1>6. viewport \in {-5, 5} /\ lang \in {-5, 5}
  BY Zenon
<1>7. text \in {-30, 0}
  OBVIOUS
<1> DEFINE m == 6 * (c + k)
           lost == Min({30, m})
           raw == 100 - 55 - lost + closed + linked + text + viewport + lang + narrow
<1> HIDE DEF issues, c, k, closed, linked, text, viewport, lang, narrow
<1>8. m \in Int /\ m >= 6
  BY ONLY <1>3, <1>4
<1> HIDE DEF m
<1>9. lost = IF 30 <= m THEN 30 ELSE m
  <2>1. 30 \in Int
    BY ONLY <1>8
  <2>2. QED
    BY ONLY <1>8, <2>1, OfTwo
<1> HIDE DEF lost
<1>10. lost \in Int /\ lost >= 6
  BY ONLY <1>8, <1>9
<1>11. raw \in Int /\ raw <= 69
  BY ONLY <1>5, <1>6, <1>7, <1>10
<1>12. WebDeliverableScore(p) = Max({0, Min({100, raw})})
  BY <1>2, Zenon DEF raw, lost, m
<1> HIDE DEF raw
<1>13. Min({100, raw}) = raw
  BY ONLY <1>11, OfTwo
<1>14. Max({0, raw}) = IF 0 >= raw THEN 0 ELSE raw
  BY ONLY <1>11, OfTwo
<1>15. Max({0, raw}) < 70
  BY ONLY <1>11, <1>14
<1>16. QED
  BY <1>12, <1>13, <1>15, Zenon

LEMMA PassOfAny ==
  ASSUME NEW p \in Page
  PROVE  PassIsSound(p)
<1> DEFINE gates == AuditContract(p)
           score == WebDeliverableScore(p)
           Odd == p.fenced \/ "poor looks" \in p.defects
           built == p.closed /\ p.defects \cap {"no <style> block", "unclosed block"} = {}
<1>1. SUFFICES ASSUME AuditVerdict(gates) = "pass" PROVE RebuildWanted(p) <=> Odd
  BY Zenon DEF PassIsSound
<1>2. "fail" \notin Range(gates) /\ "warn" \notin Range(gates)
  BY <1>1 DEF AuditVerdict
<1>3. \A x \in {"completeness", "buildability", "quality", "safety"} : gates[x] # "fail" /\ gates[x] # "warn"
  <2>1. DOMAIN gates = {"completeness", "buildability", "quality", "safety"}
    BY DEF AuditContract
  <2> HIDE DEF gates
  <2>2. QED
    BY <1>2, <2>1 DEF Range
<1>4. /\ gates.buildability = GateStatus(p, built)
      /\ gates.quality = IF p = Blank \/ score < 50 THEN "fail" ELSE IF score < 70 THEN "warn" ELSE "pass"
      /\ gates.safety = GateStatus(p, "sandbox-unsafe" \notin p.defects)
  BY DEF AuditContract
<1>5. /\ GateStatus(p, built) \notin {"fail", "warn"}
      /\ GateStatus(p, "sandbox-unsafe" \notin p.defects) \notin {"fail", "warn"}
      /\ ~(score < 50) /\ ~(score < 70)
  BY <1>3, <1>4
<1>6. built /\ "sandbox-unsafe" \notin p.defects
  <2>1. \A met \in BOOLEAN : GateStatus(p, met) \notin {"fail", "warn"} => met
    BY DEF GateStatus
  <2>2. built \in BOOLEAN /\ ("sandbox-unsafe" \notin p.defects) \in BOOLEAN
    OBVIOUS
  <2>3. QED
    BY <1>5, <2>1, <2>2
<1>7. ~p.stub /\ "no readable text" \notin p.defects
  BY <1>5, LowScores
<1>8. Odd => RebuildWanted(p)
  <2>1. CASE p.fenced
    BY <2>1 DEF RebuildWanted, WebArtifactNeedsRepair
  <2>2. CASE "poor looks" \in p.defects
    <3>1. "poor looks" \in Kinds(WebQaIssues(p))
      BY <2>2, DefectIsReported
    <3>2. "poor looks" \in Hard \ (Anchors \cup Content)
      BY DEF Hard, Anchors, Content
    <3>3. Kinds(WebQaIssues(p)) \cap (Hard \ (Anchors \cup Content)) # {}
      BY <3>1, <3>2, Zenon
    <3>4. QED
      BY <3>3, Zenon DEF RebuildWanted, WebQaStructuralRepair
  <2>3. QED
    BY <2>1, <2>2
<1>9. ASSUME ~Odd PROVE ~WebQaStructuralRepair(WebQaIssues(p))
  <2>0. \A d \in p.defects : d = "undefined CSS variable"
    <3>1. p.defects \subseteq Defects
      BY DEF Page
    <3>2. \A d \in p.defects : d \notin {"no <style> block", "unclosed block", "sandbox-unsafe",
                                         "no readable text", "poor looks"}
      BY <1>6, <1>7, <1>9
    <3>3. QED
      BY <3>1, <3>2 DEF Defects, Structure
  <2>1. ASSUME NEW i \in WebQaIssues(p)
        PROVE  i[1] \in {"dead link", "device", "broken anchor", "unlinked section", "hollow page",
                         "skeleton page", "undefined CSS variable"}
    <3>1. (\A x : Issue(x)[1] = x) /\ \A x, y : <<x, y>>[1] = x
      BY DEF Issue
    <3>2. CASE i \in {Issue("dead link"), Issue("hollow page"), Issue("skeleton page")}
      BY <3>1, <3>2
    <3>3. CASE \/ \E s \in Sections : i = <<"broken anchor", s>> \/ i = <<"unlinked section", s>>
               \/ \E v \in Basics : i = <<"device", v>>
      <4>1. i[1] = "broken anchor" \/ i[1] = "unlinked section" \/ i[1] = "device"
        BY <3>1, <3>3, Zenon
      <4>2. QED
        BY <4>1
    <3>4. CASE \E d \in p.defects : i = Issue(d)
      <4>1. i = Issue("undefined CSS variable")
        BY <2>0, <3>4
      <4>2. i[1] = "undefined CSS variable"
        BY <3>1, <4>1
      <4>3. QED
        BY <4>2
    <3>5. QED
      BY <1>6, <1>7, <3>2, <3>3, <3>4, IssueIs
  <2>2. Kinds(WebQaIssues(p)) \cap (Hard \ (Anchors \cup Content)) = {}
    BY <2>1 DEF Kinds, Hard, Structure, Anchors, Content
  <2>3. QED
    BY <2>2 DEF WebQaStructuralRepair
<1>10. ASSUME ~Odd PROVE ~RebuildWanted(p)
  <2>1. ~WebArtifactNeedsRepair(p)
    BY <1>6, <1>7, <1>10 DEF WebArtifactNeedsRepair
  <2>2. QED
    BY <1>5, <1>9, <1>10, <2>1 DEF RebuildWanted
<1>11. QED
  BY <1>8, <1>10

-----------------------------------------------------------------------------
(* The contracts, for every document and for the ones a run evaluates.      *)

\* Whatever the document: a well-formed blueprint that is noted is not executable, and
\* one that is not executable is noted or may lack only what the docstring asks and the
\* validator does not (executable_issues of the six parsers); a plan without an issue
\* can be traced (plan_executable_issues); a page the audit passes would be built again
\* only for its looks or a code fence (build_audit_contract against
\* web_deliverable_score, web_qa_issues and the builder's gate); a pack with one bad
\* marker loses no line, and without one they all lie in the workspace, but for a
\* primary part another is written over (split_artifact, _split_pack); the snapshot is
\* the best-scored part within its budget (extract_codebase_snapshot); every upload that
\* can be read is told (_attachments_ctx); the bundle is bounded (export_bundle); and
\* the activity hides no outcome (task_activity_events).
THEOREM EveryDocument ==
  /\ \A T, kind \in Blueprints : \A d \in AnyBlueprint(T) : BlueprintNoted(kind, d)
  /\ \A S, p : p.tasks \in Seq(S) => PlanTraced(p)
  /\ \A p \in Page : PassIsSound(p)
  /\ \A lines \in Seq(AnyLine) : PackKept(lines)
  /\ \A members \in Seq(AnyMember) : SnapshotIsTheBest(members)
  /\ \A attachments \in Seq(AnyAttachment) : UploadsAreTold(attachments)
  /\ \A sizes \in Seq(Nat) : BundleIsBounded(sizes)
  /\ \A events \in Seq(AnyEvent) : ActivityIsHonest(events)
<1>1. \A T, kind \in Blueprints : \A d \in AnyBlueprint(T) : BlueprintNoted(kind, d)
  BY BlueprintOfAny
<1>2. \A S, p : p.tasks \in Seq(S) => PlanTraced(p)
  BY PlanOfAny
<1>3. \A p \in Page : PassIsSound(p)
  BY PassOfAny
<1>4. /\ \A lines \in Seq(AnyLine) : PackKept(lines)
      /\ \A members \in Seq(AnyMember) : SnapshotIsTheBest(members)
      /\ \A attachments \in Seq(AnyAttachment) : UploadsAreTold(attachments)
  BY PackOfAny, SnapshotOfAny, UploadsOfAny
<1>5. /\ \A sizes \in Seq(Nat) : BundleIsBounded(sizes)
      /\ \A events \in Seq(AnyEvent) : ActivityIsHonest(events)
  BY BundleOfAny, ActivityOfAny
<1>6. QED
  BY <1>1, <1>2, <1>3, <1>4, <1>5

LEMMA ShortAre ==
  ASSUME NEW S, NEW E, S \subseteq E, NEW n \in Nat, NEW s \in Short(S, n)
  PROVE  s \in Seq(E)
<1>1. PICK m \in 0..n : s \in [1..m -> S]
  BY DEF Short
<1>2. m \in Nat /\ s \in [1..m -> E]
  BY <1>1
<1>3. QED
  BY <1>2, SeqDef

LEMMA BlueprintsAre ==
  ASSUME NEW d \in Blueprint
  PROVE  d \in AnyBlueprint(Tokens \cup {"none", "number"})
<1> DEFINE T == Tokens \cup {"none", "number"}
<1>1. \A id \in {"C-1", "D-1"} : \A e \in Entry(id) : e \in AnyEntry(T)
  BY DEF Entry, AnyEntry, Tokens
<1>2. \A id \in {"C-1", "D-1"} : Entries(id) \subseteq Seq(AnyEntry(T))
  <2>1. ASSUME NEW id \in {"C-1", "D-1"}, NEW s \in Entries(id) PROVE s \in Seq(AnyEntry(T))
    <3>1. CASE s = <<>>
      BY <3>1, EmptySeq
    <3>2. CASE \E e \in Entry(id) : s = <<e>>
      <4>1. PICK e \in AnyEntry(T) : s = <<e>>
        BY <1>1, <3>2
      <4>2. QED
        BY <4>1
    <3>3. QED
      BY <3>1, <3>2 DEF Entries
  <2>2. QED
    BY <2>1
<1>3. \A l \in Lists : l \in AnyLists(T)
  BY DEF Lists, AnyLists, Tokens
<1>4. /\ d = [shape |-> d.shape, main |-> d.main, decisions |-> d.decisions, lists |-> d.lists]
      /\ d.shape \in {"list", "object", "text"} /\ d.main \in Entries("C-1")
      /\ d.decisions \in Entries("D-1") /\ d.lists \in Lists
  BY DEF Blueprint
<1> HIDE DEF T
<1>5. d.main \in Seq(AnyEntry(T)) /\ d.decisions \in Seq(AnyEntry(T)) /\ d.lists \in AnyLists(T)
  BY <1>2, <1>3, <1>4
<1>6. d \in AnyBlueprint(T)
  BY <1>4, <1>5 DEF AnyBlueprint
<1>7. QED
  BY <1>6 DEF T

LEMMA PlansAre ==
  ASSUME NEW p \in Plan
  PROVE  \E S : p.tasks \in Seq(S)
<1> DEFINE S == PlanTask \cup {FirstTask}
<1>1. p.tasks \in {<<>>} \cup {<<t>> : t \in PlanTask} \cup {<<FirstTask, t>> : t \in PlanTask}
  BY DEF Plan
<1>2. FirstTask \in S /\ \A t \in PlanTask : t \in S
  OBVIOUS
<1> HIDE DEF S
<1>3. p.tasks \in Seq(S)
  <2>1. CASE p.tasks = <<>>
    BY <2>1, EmptySeq
  <2>2. CASE \E t \in PlanTask : p.tasks = <<t>>
    <3>1. PICK t \in S : p.tasks = <<t>>
      BY <1>2, <2>2
    <3>2. QED
      BY <3>1
  <2>3. CASE \E t \in PlanTask : p.tasks = <<FirstTask, t>>
    <3>1. PICK t \in S : p.tasks = <<FirstTask, t>>
      BY <1>2, <2>3
    <3>2. QED
      BY <1>2, <3>1
  <2>4. QED
    BY <1>1, <2>1, <2>2, <2>3
<1>4. QED
  BY <1>3

LEMMA LinesAre == PackLine \subseteq AnyLine
<1>1. "a" \in AnyName /\ Artifact \in AnyName
  <2>1. "a" # Primary /\ "a" # Skipped
    BY Zenon DEF Primary, Skipped
  <2>2. QED
    BY <2>1, NamesAre DEF AnyName
<1>2. ASSUME NEW e \in [marker : {TRUE}, path : {"a", Artifact}, safe : BOOLEAN, text : {0}]
      PROVE  e \in [marker : {TRUE}, path : AnyName, safe : BOOLEAN, text : {0}]
  BY <1>1
<1>3. ASSUME NEW e \in [marker : {FALSE}, path : {Primary}, safe : {TRUE}, text : 1..2]
      PROVE  e \in [marker : {FALSE}, path : {Primary}, safe : {TRUE}, text : Nat]
  <2>1. /\ e = [marker |-> e.marker, path |-> e.path, safe |-> e.safe, text |-> e.text]
        /\ e.marker \in {FALSE} /\ e.path \in {Primary} /\ e.safe \in {TRUE} /\ e.text \in 1..2
    OBVIOUS
  <2>2. e.text \in Nat
    BY <2>1
  <2>3. QED
    BY <2>1, <2>2, Zenon
<1>4. QED
  BY <1>2, <1>3 DEF PackLine, AnyLine

\* Every document of a run keeps its contract.
LEMMA DocumentsKeep ==
  ASSUME Documented
  PROVE  GatesKeepTheirContracts
<1>1. CASE sample \in [of : {"blueprint"}, kind : Blueprints, doc : Blueprint]
  <2>1. sample.of = "blueprint" /\ sample.kind \in Blueprints /\ sample.doc \in Blueprint
    BY <1>1
  <2>2. BlueprintNoted(sample.kind, sample.doc)
    BY <2>1, BlueprintsAre, BlueprintOfAny
  <2>3. QED
    BY <2>1, <2>2 DEF GatesKeepTheirContracts
<1>2. CASE sample \in [of : {"plan"}, doc : Plan]
  <2>1. sample.of = "plan" /\ sample.doc \in Plan
    BY <1>2
  <2>2. PlanTraced(sample.doc)
    BY <2>1, PlansAre, PlanOfAny
  <2>3. QED
    BY <2>1, <2>2 DEF GatesKeepTheirContracts
<1>3. CASE sample \in [of : {"page"}, doc : Pages]
  <2>1. sample.of = "page" /\ sample.doc \in Pages
    BY <1>3
  <2>2. sample.doc \in Page
    <3>1. {0, 2, 6} \subseteq Nat /\ {FALSE} \subseteq BOOLEAN
      OBVIOUS
    <3>2. PICK p \in Pages : sample.doc = p
      BY <2>1
    <3>3. /\ p.dangling \in {FALSE} /\ p.flaws \in {0, 2, 6} /\ p.stub \in BOOLEAN
          /\ p.fenced \in BOOLEAN /\ p.closed \in BOOLEAN /\ p.hash \in BOOLEAN
          /\ p.defects \in {{}} \cup {{d} : d \in Defects}
          /\ p.sections \in [Sections -> {"none", "shell", "full"}]
          /\ p.nav \in SUBSET Targets
          /\ p.basics \in {Basics, {"viewport", "lang"}, {}} /\ p.room \in {{}}
          /\ p = [stub |-> p.stub, fenced |-> p.fenced, closed |-> p.closed, defects |-> p.defects,
                  sections |-> p.sections, nav |-> p.nav, hash |-> p.hash, basics |-> p.basics,
                  room |-> p.room, dangling |-> p.dangling, flaws |-> p.flaws]
      BY DEF Pages
    <3>4. p.dangling \in BOOLEAN /\ p.flaws \in Nat
      BY <3>1, <3>3
    <3>5. p.defects \in SUBSET Defects
      BY <3>3
    <3>6. p.basics \in SUBSET Basics /\ p.room \in SUBSET Basics
      BY <3>3 DEF Basics
    <3>7. p.sections \in [Sections -> {"none", "shell", "div", "full"}]
      BY <3>3
    <3>8. p \in Page
      BY <3>3, <3>4, <3>5, <3>6, <3>7, Zenon DEF Page
    <3>9. QED
      BY <3>2, <3>8
  <2>3. PassIsSound(sample.doc)
    BY <2>2, PassOfAny
  <2>4. QED
    BY <2>1, <2>3 DEF GatesKeepTheirContracts
<1>4. CASE sample \in [of : {"pack"}, doc : Short(PackLine, 4)]
  <2>1. sample.of = "pack" /\ sample.doc \in Short(PackLine, 4)
    BY <1>4
  <2>2. sample.doc \in Seq(AnyLine)
    BY <2>1, LinesAre, ShortAre
  <2>3. PackKept(sample.doc)
    BY <2>2, PackOfAny
  <2>4. QED
    BY <2>1, <2>3 DEF GatesKeepTheirContracts
<1>5. CASE sample \in [of : {"archive"}, doc : Short(Member, 3)]
  <2>1. sample.of = "archive" /\ sample.doc \in Short(Member, 3)
    BY <1>5
  <2>2. Member \subseteq AnyMember
    BY SnapshotAssumption DEF Member, AnyMember
  <2>3. sample.doc \in Seq(AnyMember)
    BY <2>1, <2>2, ShortAre
  <2>4. SnapshotIsTheBest(sample.doc)
    BY <2>3, SnapshotOfAny
  <2>5. QED
    BY <2>1, <2>4 DEF GatesKeepTheirContracts
<1>6. CASE sample \in [of : {"attachments"}, doc : Short(Attachment, 3)]
  <2>1. sample.of = "attachments" /\ sample.doc \in Short(Attachment, 3)
    BY <1>6
  <2>2. Attachment \subseteq AnyAttachment
    BY SnapshotAssumption DEF Attachment, AnyAttachment
  <2>3. sample.doc \in Seq(AnyAttachment)
    BY <2>1, <2>2, ShortAre
  <2>4. UploadsAreTold(sample.doc)
    BY <2>3, UploadsOfAny
  <2>5. QED
    BY <2>1, <2>4 DEF GatesKeepTheirContracts
<1>7. CASE sample \in [of : {"workspace"}, doc : Short(0..(ExportBytes + 1), 4)]
  <2>1. sample.of = "workspace" /\ sample.doc \in Short(0..(ExportBytes + 1), 4)
    BY <1>7
  <2>2. 0..(ExportBytes + 1) \subseteq Nat
    BY SnapshotAssumption
  <2>3. sample.doc \in Seq(Nat)
    BY <2>1, <2>2, ShortAre
  <2>4. BundleIsBounded(sample.doc)
    BY <2>3, BundleOfAny
  <2>5. QED
    BY <2>1, <2>4 DEF GatesKeepTheirContracts
<1>8. CASE sample \in [of : {"events"}, doc : Short(TaskEvent, 3)]
  <2>1. sample.of = "events" /\ sample.doc \in Short(TaskEvent, 3)
    BY <1>8
  <2>2. TaskEvent \subseteq AnyEvent
    BY DEF TaskEvent, AnyEvent
  <2>3. sample.doc \in Seq(AnyEvent)
    BY <2>1, <2>2, ShortAre
  <2>4. ActivityIsHonest(sample.doc)
    BY <2>3, ActivityOfAny
  <2>5. QED
    BY <2>1, <2>4 DEF GatesKeepTheirContracts
<1>9. QED
  BY <1>1, <1>2, <1>3, <1>4, <1>5, <1>6, <1>7, <1>8, Zenon DEF Documented

\* In every behaviour of the drivers, the document at hand keeps the contract of the
\* gate, splitter or budget it goes through (hermes_client.py, project_analyzer.py, main.py).
THEOREM GatesHold == Spec => []GatesKeepTheirContracts
<1>1. Init => GatesKeepTheirContracts
  <2>1. Init => Documented \/ sample = [of |-> "none"]
    BY Zenon DEF Init
  <2>2. sample = [of |-> "none"] => GatesKeepTheirContracts
    <3>1. sample = [of |-> "none"] => sample.of = "none"
      OBVIOUS
    <3>2. QED
      BY <3>1 DEF GatesKeepTheirContracts
  <2>3. QED
    BY <2>1, <2>2, DocumentsKeep
<1>2. GatesKeepTheirContracts /\ [Next]_<<part, sample, pipelineVars, swarmVars>> => GatesKeepTheirContracts'
  <2>1. [Next]_<<part, sample, pipelineVars, swarmVars>> => sample' = sample
    BY Zenon DEF Next
  <2>2. sample' = sample => (GatesKeepTheirContracts' <=> GatesKeepTheirContracts)
    BY Zenon DEF GatesKeepTheirContracts
  <2>3. QED
    BY <2>1, <2>2
<1>3. QED
  BY <1>1, <1>2, PTL DEF Spec

-----------------------------------------------------------------------------
(* The swarm of a fat host. *)

USE SwarmAssumption

-----------------------------------------------------------------------------
(* Counting.  A pass numbers the workers it spawns by counting the tasks up *)
(* to theirs.                                                               *)

UpTo(S, t) == {u \in S : u <= t}

LEMMA TasksFinite ==
  /\ IsFiniteSet(AgentTasks) /\ Cardinality(AgentTasks) = NTasks
<1>1. NTasks >= 1
  OBVIOUS
<1>2. QED
  BY <1>1, FS_Interval DEF AgentTasks

LEMMA TasksCounted ==
  ASSUME NEW S \in SUBSET AgentTasks
  PROVE  IsFiniteSet(S) /\ Cardinality(S) \in 0..NTasks
<1>1. IsFiniteSet(S) /\ Cardinality(S) <= NTasks
  BY TasksFinite, FS_Subset
<1>2. Cardinality(S) \in Nat
  BY <1>1, FS_CardinalityType
<1>3. QED
  BY <1>1, <1>2

LEMMA CountUpTo ==
  ASSUME NEW S \in SUBSET AgentTasks, NEW t \in S
  PROVE  Cardinality(UpTo(S, t)) \in 1..Cardinality(S)
<1>1. IsFiniteSet(S) /\ UpTo(S, t) \in SUBSET S
  BY TasksCounted DEF UpTo
<1>2. IsFiniteSet(UpTo(S, t)) /\ Cardinality(UpTo(S, t)) <= Cardinality(S)
  BY <1>1, FS_Subset
<1>3. Cardinality(UpTo(S, t)) \in Nat /\ Cardinality(S) \in Nat
  BY <1>1, <1>2, FS_CardinalityType
<1>4. t \in UpTo(S, t)
  BY DEF UpTo, AgentTasks
<1>5. Cardinality(UpTo(S, t)) # 0
  BY <1>2, <1>4, FS_EmptySet
<1>6. QED
  BY <1>2, <1>3, <1>5

-----------------------------------------------------------------------------
(* Types. *)

ThreadLocals ==
    [pc : ThreadPlaces, last : [Shown -> -1..NTasks], unchanged : 0..StallPasses, stale : BOOLEAN,
     time : 0..Deadline, kill : SUBSET Pids, park : SUBSET AgentTasks, out : {"ok", "stuck", "error"}]
SweepLocals ==
    [pc : {"off", "sweep", "kill", "bump", "promote", "pass"}, rows : SUBSET Pair, ids : SUBSET AgentTasks]
UsedType == [pids : 0..MaxPids, extras : 0..MaxExtras]

\* A running row names a process, and the sweep has rows to kill only while it kills.
Runners ==
    /\ \A t \in AgentTasks : row[t].status = "running" => row[t].pid \in Pids
    /\ reaper.pc # "kill" => reaper.rows = {}

SwarmTypeInv == SwarmTypeOK /\ Runners

\* What a dispatch pass does to the rows and the processes, whoever runs it: it
\* touches no row that is terminal or has a live worker, every worker it spawns is
\* named by a row, and it spawns on a final board, or changes a row the sweep has
\* selected, only by crossing another thread.
LEMMA PassFacts ==
  ASSUME SwarmTypeInv, NEW max, Pass(max)
  PROVE  /\ row' \in [AgentTasks -> Row]
         /\ \A t \in AgentTasks : row'[t].status = "running" => row'[t].pid \in Pids
         /\ alive' \subseteq 1..used'.pids
         /\ used' \in UsedType
         /\ moved' \subseteq Threads
         /\ crossed' \in BOOLEAN
         /\ \A t \in AgentTasks : Terminal(t) => row'[t] = row[t]
         /\ \A t \in AgentTasks, p \in alive : Working(t, p) => row'[t] = row[t]
         /\ \A t \in AgentTasks : Terminal(t)' /\ ~Terminal(t) => row'[t].status = "blocked"
         /\ alive \subseteq alive'
         /\ \A p \in alive' \ alive :
               \E t \in AgentTasks : row'[t].status = "running" /\ row'[t].pid = p
         /\ ~crossed' => /\ ~crossed
                         /\ final => alive' = alive
                         /\ \A r \in reaper.rows : row'[r[1]] = row[r[1]]
<1>1. PICK gone \in SUBSET {t \in AgentTasks : Corpse(t)} : \E park \in SUBSET gone :
        \E S \in SUBSET Startable(gone \ park), stamped \in BOOLEAN : PassWith(max, gone, park, S, stamped)
  BY DEF Pass
<1> PICK park \in SUBSET gone :
        \E S \in SUBSET Startable(gone \ park), stamped \in BOOLEAN : PassWith(max, gone, park, S, stamped)
  BY <1>1
<1> PICK S \in SUBSET Startable(gone \ park), stamped \in BOOLEAN : PassWith(max, gone, park, S, stamped)
  OBVIOUS
<1> DEFINE open == Startable(gone \ park)
<1>2. /\ row' = [t \in AgentTasks |->
                    IF t \in S THEN [status |-> "running", pid |-> PidOf(S, t),
                                     age |-> IF stamped THEN "recent" ELSE row[t].age]
                    ELSE IF t \in park THEN [row[t] EXCEPT !.status = "blocked", !.pid = NoPid]
                    ELSE IF t \in open THEN [row[t] EXCEPT !.status = "ready", !.pid = NoPid]
                    ELSE row[t]]
      /\ alive' = alive \cup {PidOf(S, t) : t \in S}
  BY DEF Passed, PassWith
<1>3. open \subseteq AgentTasks /\ S \subseteq open
  BY DEF Startable
<1>5. S \subseteq AgentTasks /\ Cardinality(S) \in Nat /\ (S = {} => Cardinality(S) = 0)
  <2>1. S \in SUBSET AgentTasks
    BY <1>3
  <2>2. Cardinality(S) \in 0..NTasks
    BY <2>1, TasksCounted
  <2>3. QED
    BY <2>1, <2>2, FS_EmptySet
<1>6. used.pids \in 0..MaxPids /\ used \in UsedType /\ row \in [AgentTasks -> Row]
      /\ alive \subseteq 1..used.pids
  BY DEF SwarmTypeInv, SwarmTypeOK, UsedType
<1>7. used' \in UsedType /\ used'.pids = used.pids + Cardinality(S)
  <2>1. used.pids + Cardinality(S) \in 0..MaxPids
    BY <1>5, <1>6 DEF PassWith
  <2>2. QED
    BY <1>6, <2>1 DEF UsedType, PassWith
<1>8. \A t \in S : PidOf(S, t) \in 1..used'.pids /\ PidOf(S, t) \in Pids
  <2> SUFFICES ASSUME NEW t \in S
               PROVE  PidOf(S, t) \in 1..used'.pids /\ PidOf(S, t) \in Pids
    OBVIOUS
  <2>1. Cardinality(UpTo(S, t)) \in 1..Cardinality(S)
    BY <1>5, CountUpTo
  <2>2. PidOf(S, t) = used.pids + Cardinality(UpTo(S, t))
    BY DEF PidOf, UpTo
  <2>3. used'.pids <= MaxPids
    BY <1>7 DEF PassWith
  <2>4. QED
    BY <1>5, <1>6, <1>7, <2>1, <2>2, <2>3 DEF Pids
<1>9. alive \subseteq alive' /\ alive' \subseteq 1..used'.pids
  <2>1. 1..used.pids \subseteq 1..used'.pids
    BY <1>5, <1>6, <1>7
  <2>2. QED
    BY <1>2, <1>6, <1>8, <2>1
<1>10. \A t \in AgentTasks : row[t] \in Row
  BY <1>6
<1>11. \A t \in AgentTasks : row'[t] \in Row /\ (row'[t].status = "running" => row'[t].pid \in Pids)
  <2> SUFFICES ASSUME NEW t \in AgentTasks
               PROVE  row'[t] \in Row /\ (row'[t].status = "running" => row'[t].pid \in Pids)
    OBVIOUS
  <2>1. CASE t \in S
    BY <1>2, <1>8, <1>10, <2>1 DEF Row, Statuses, Ages
  <2>2. CASE t \notin S
    <3>1. row'[t] \in {[row[t] EXCEPT !.status = "blocked", !.pid = NoPid],
                       [row[t] EXCEPT !.status = "ready", !.pid = NoPid], row[t]}
      BY <1>2, <2>2
    <3>2. row[t].status = "running" => row[t].pid \in Pids
      BY DEF SwarmTypeInv, Runners
    <3>3. QED
      BY <1>10, <3>1, <3>2 DEF Row, Statuses, NoPid
  <2>3. QED
    BY <2>1, <2>2
<1>12. row' \in [AgentTasks -> Row]
  BY <1>2, <1>11
<1>13. (\A t \in gone : Corpse(t)) /\ park \subseteq gone
  OBVIOUS
<1>14. \A t \in AgentTasks : t \in open => Corpse(t) \/ row[t].status \in {"ready", "todo"}
  BY <1>13 DEF Startable
<1> HIDE DEF open
<1>16. \A t \in AgentTasks : row'[t] # row[t] => t \in S \/ t \in park \/ t \in open
  BY <1>2
<1>17. \A t \in AgentTasks : row'[t] # row[t] => Corpse(t) \/ row[t].status \in {"ready", "todo"}
  BY <1>3, <1>13, <1>14, <1>16
<1>18. \A t \in AgentTasks : Terminal(t)' /\ ~Terminal(t) => row'[t].status = "blocked"
  <2> SUFFICES ASSUME NEW t \in AgentTasks, Terminal(t)', ~Terminal(t)
               PROVE  row'[t].status = "blocked"
    OBVIOUS
  <2>1. CASE t \in S
    BY <1>2, <2>1 DEF Terminal
  <2>2. CASE t \notin S
    <3>1. row'[t] \in {[row[t] EXCEPT !.status = "blocked", !.pid = NoPid],
                       [row[t] EXCEPT !.status = "ready", !.pid = NoPid], row[t]}
      BY <1>2, <2>2
    <3>2. QED
      BY <1>10, <3>1 DEF Row, Terminal
  <2>3. QED
    BY <2>1, <2>2
<1>19. \A p \in alive' \ alive : \E t \in AgentTasks : row'[t].status = "running" /\ row'[t].pid = p
  <2> SUFFICES ASSUME NEW p \in alive' \ alive
               PROVE  \E t \in AgentTasks : row'[t].status = "running" /\ row'[t].pid = p
    OBVIOUS
  <2>1. PICK t \in S : p = PidOf(S, t)
    BY <1>2
  <2>2. row'[t].status = "running" /\ row'[t].pid = p
    BY <1>2, <1>5, <2>1
  <2>3. QED
    BY <1>5, <2>2
<1>20. ~crossed' => /\ ~crossed
                    /\ final => alive' = alive
                    /\ \A r \in reaper.rows : row'[r[1]] = row[r[1]]
  <2>1. \A r \in reaper.rows : r[1] \in AgentTasks /\ r[2] \in Pids /\ r = <<r[1], r[2]>>
    BY SMTT(30) DEF SwarmTypeInv, SwarmTypeOK, Pair
  <2>2. S = {} => alive' = alive
    BY <1>2
  <2>3. ~crossed' => ~crossed /\ (final => alive' = alive)
    BY <2>2 DEF PassWith
  <2>4. ASSUME ~crossed', NEW r \in reaper.rows
        PROVE  row'[r[1]] = row[r[1]]
    <3>1. <<r[1], r[2]>> \in reaper.rows /\ r[1] \in AgentTasks /\ r[2] \in Pids
      BY <2>1
    <3>2. QED
      BY <2>4, <3>1 DEF PassWith
  <2>5. QED
    BY <2>3, <2>4
<1>21. moved' \subseteq Threads /\ crossed' \in BOOLEAN
  BY DEF SwarmTypeInv, SwarmTypeOK, Looping, PassWith
<1>22. /\ \A t \in AgentTasks : Terminal(t) => row'[t] = row[t]
       /\ \A t \in AgentTasks, p \in alive : Working(t, p) => row'[t] = row[t]
  BY <1>17 DEF Terminal, Working, Corpse
<1>23. QED
  BY <1>7, <1>9, <1>11, <1>12, <1>18, <1>19, <1>20, <1>21, <1>22

LEMMA SwarmTypeInit == SwarmInit => SwarmTypeInv
<1> SUFFICES ASSUME SwarmInit PROVE SwarmTypeInv
  OBVIOUS
<1>1. row \in [AgentTasks -> Row] /\ \A t \in AgentTasks : row[t].status # "running"
  BY DEF SwarmInit, Row, Statuses, Ages, NoPid
<1>2. Fresh \in ThreadLocals
  BY DEF Fresh, ThreadLocals, NoStates, ThreadPlaces
<1>3. thread \in [Threads -> ThreadLocals]
  <2>1. \A pc \in ThreadPlaces : [Fresh EXCEPT !.pc = pc] \in ThreadLocals
    BY <1>2 DEF ThreadLocals
  <2>2. {"first", "new"} \subseteq ThreadPlaces
    BY DEF ThreadPlaces
  <2>3. QED
    BY <2>1, <2>2 DEF SwarmInit
<1>4. reaper \in SweepLocals /\ reaper.rows = {} /\ used \in UsedType
  BY DEF SwarmInit, SweepLocals, UsedType
<1>5. QED
  BY <1>1, <1>3, <1>4
  DEF SwarmInit, SwarmTypeInv, SwarmTypeOK, Runners, ThreadLocals, SweepLocals, UsedType

\* The rows after a step that is not a dispatch pass.
LEMMA SwarmRowStep ==
  ASSUME SwarmTypeInv,
         \/ \E t \in AgentTasks, p \in alive : Beat(t, p) \/ Finish(t, p)
         \/ Tick \/ SealPark \/ KillStaleWorkers \/ BumpPromotes
         \/ UNCHANGED row
  PROVE  /\ row' \in [AgentTasks -> Row]
         /\ \A t \in AgentTasks : row'[t].status = "running" =>
               row[t].status = "running" /\ row'[t].pid = row[t].pid
<1>1. row \in [AgentTasks -> Row] /\ \A t \in AgentTasks : row[t] \in Row
  BY DEF SwarmTypeInv, SwarmTypeOK
<1>2. ASSUME NEW t \in AgentTasks, NEW p \in alive, Beat(t, p)
      PROVE  /\ row' \in [AgentTasks -> Row]
             /\ \A u \in AgentTasks : row'[u].status = "running" =>
                   row[u].status = "running" /\ row'[u].pid = row[u].pid
  BY <1>1, <1>2 DEF Beat, Row, Ages
<1>3. ASSUME NEW t \in AgentTasks, NEW p \in alive, Finish(t, p)
      PROVE  /\ row' \in [AgentTasks -> Row]
             /\ \A u \in AgentTasks : row'[u].status = "running" =>
                   row[u].status = "running" /\ row'[u].pid = row[u].pid
  BY <1>1, <1>3 DEF Finish, Row, Statuses, NoPid
<1>4. CASE Tick
  BY <1>1, <1>4 DEF Tick, Row, Ages
<1>5. \A S : Parked(S) \in [AgentTasks -> Row] /\ \A u \in AgentTasks : Parked(S)[u].status = "running" =>
                   row[u].status = "running" /\ Parked(S)[u].pid = row[u].pid
  BY <1>1 DEF Parked, Row, Statuses, NoPid
<1>6. CASE SealPark \/ KillStaleWorkers
  <2>1. PICK S : row' = Parked(S)
    BY <1>6 DEF SealPark, KillStaleWorkers
  <2>2. QED
    BY <1>5, <2>1
<1>7. CASE BumpPromotes
  <2>1. PICK t \in AgentTasks : Promote(t)
    BY <1>7 DEF BumpPromotes, SwarmTypeInv, SwarmTypeOK
  <2>2. QED
    BY <1>1, <2>1 DEF Promote, Row, Statuses
<1>8. QED
  BY <1>1, <1>2, <1>3, <1>4, <1>6, <1>7

\* The locals of a thread after one of its steps.
LEMMA ThreadStep ==
  ASSUME SwarmTypeInv, SwarmNext
  PROVE  thread' \in [Threads -> ThreadLocals]
<1>1. thread \in [Threads -> ThreadLocals] /\ \A d \in Threads : thread[d] \in ThreadLocals
  BY DEF SwarmTypeInv, SwarmTypeOK, ThreadLocals
<1>2. \A d \in Threads, l \in ThreadLocals : [thread EXCEPT ![d] = l] \in [Threads -> ThreadLocals]
  BY <1>1
<1>3. \A l \in ThreadLocals, pc \in ThreadPlaces : [l EXCEPT !.pc = pc] \in ThreadLocals
  BY DEF ThreadLocals
<1>4. ASSUME NEW d \in Threads, NEW pc \in ThreadPlaces, ThreadTo(d, pc)
      PROVE  thread' \in [Threads -> ThreadLocals]
  <2>1. thread' = [thread EXCEPT ![d] = [thread[d] EXCEPT !.pc = pc]]
    BY <1>4 DEF ThreadTo
  <2>2. QED
    BY <1>1, <1>2, <1>3, <2>1
<1>5. ASSUME NEW d \in Threads, NEW pc \in ThreadPlaces, NEW out \in {"ok", "stuck", "error"}, Leave(d, pc, out)
      PROVE  thread' \in [Threads -> ThreadLocals]
  <2>1. [Fresh EXCEPT !.pc = pc, !.out = out] \in ThreadLocals
    <3>1. NoStates \in [Shown -> -1..NTasks] /\ 0 \in 0..StallPasses /\ 0 \in 0..Deadline
      BY DEF NoStates
    <3>2. QED
      BY <3>1 DEF Fresh, ThreadLocals
  <2>2. QED
    BY <1>2, <1>5, <2>1 DEF Leave
<1>6. {"new", "first", "look", "sleep", "cleanup", "kill", "record", "sealRead", "sealKill",
           "sealSelect", "sealPark", "mark", "end"} \subseteq ThreadPlaces
  BY DEF ThreadPlaces
<1>7. \A d \in Threads : Over(d) \in ThreadPlaces
  BY <1>6 DEF Over
<1>8. "launch" \in Threads /\ "manual" \in Threads /\ {} \in SUBSET Pids /\ {} \in SUBSET AgentTasks
  BY DEF Threads
<1>9. CASE UNCHANGED thread
  BY <1>1, <1>9
<1>10. Recorded \subseteq Pids
  BY DEF Recorded, SwarmTypeInv, SwarmTypeOK, Row
<1>11. \A l \in ThreadLocals, pc \in ThreadPlaces, K \in SUBSET Pids :
          [l EXCEPT !.pc = pc, !.kill = K] \in ThreadLocals
  BY DEF ThreadLocals
<1>12. \A l \in ThreadLocals, pc \in ThreadPlaces, P \in SUBSET AgentTasks :
          [l EXCEPT !.pc = pc, !.park = P] \in ThreadLocals
  BY DEF ThreadLocals
<1>13. ASSUME NEW d \in Threads, NEW pc \in ThreadPlaces, NEW K \in SUBSET Pids,
              thread' = [thread EXCEPT ![d].pc = pc, ![d].kill = K]
       PROVE  thread' \in [Threads -> ThreadLocals]
  <2>1. thread' = [thread EXCEPT ![d] = [thread[d] EXCEPT !.pc = pc, !.kill = K]]
    BY <1>1, <1>13
  <2>2. QED
    BY <1>1, <1>2, <1>11, <2>1
<1>14. ASSUME NEW d \in Threads, NEW pc \in ThreadPlaces, NEW P \in SUBSET AgentTasks,
              thread' = [thread EXCEPT ![d].pc = pc, ![d].park = P]
       PROVE  thread' \in [Threads -> ThreadLocals]
  <2>1. thread' = [thread EXCEPT ![d] = [thread[d] EXCEPT !.pc = pc, !.park = P]]
    BY <1>1, <1>14
  <2>2. QED
    BY <1>1, <1>2, <1>12, <2>1
<1>15. CASE Tick
  <2>1. \A d \in Threads : thread[d].time < Deadline =>
           [thread[d] EXCEPT !.time = @ + 1] \in ThreadLocals
    <3> SUFFICES ASSUME NEW d \in Threads, thread[d].time < Deadline
                 PROVE  [thread[d] EXCEPT !.time = @ + 1] \in ThreadLocals
      OBVIOUS
    <3>1. thread[d].time + 1 \in 0..Deadline
      <4>1. thread[d].time \in 0..Deadline
        BY <1>1 DEF ThreadLocals
      <4>2. QED
        BY <4>1
    <3>2. QED
      BY <1>1, <3>1 DEF ThreadLocals
  <2>2. QED
    BY <1>1, <1>15, <2>1 DEF Tick
<1>16. CASE ApiDispatch
  BY <1>4, <1>6, <1>8, <1>16 DEF ApiDispatch
<1>17. CASE Finalize
  <2>1. CASE Record
    BY <1>4, <1>6, <1>8, <2>1 DEF Record
  <2>2. CASE SealRead
    BY <1>6, <1>8, <1>10, <1>13, <2>2 DEF SealRead
  <2>3. CASE SealKill
    BY <1>6, <1>8, <1>13, <2>3 DEF SealKill
  <2>4. CASE SealSelect
    <3>1. {t \in AgentTasks : ~Terminal(t)} \in SUBSET AgentTasks
      OBVIOUS
    <3>2. QED
      BY <1>6, <1>8, <1>14, <2>4, <3>1 DEF SealSelect
  <2>5. CASE SealPark
    BY <1>6, <1>8, <1>14, <2>5 DEF SealPark
  <2>6. CASE SealMark
    BY <1>4, <1>6, <1>8, <2>6 DEF SealMark
  <2>7. QED
    BY <1>17, <2>1, <2>2, <2>3, <2>4, <2>5, <2>6 DEF Finalize
<1>18. CASE Sweep \/ Worker
  BY <1>9, <1>18 DEF Sweep, ReaperCheck, KillStaleSelect, KillStaleWorkers, BumpBlockedToReady,
     BumpPromotes, BumpDone, ReaperPass, Worker, Beat, Finish, Die
<1>19. ASSUME NEW d \in Threads, Look(d)
       PROVE  thread' \in [Threads -> ThreadLocals]
  <2>1. States \in [Shown -> -1..NTasks]
    <3>1. \A s : Cardinality({t \in AgentTasks : StateOf(t) = s}) \in 0..NTasks
      BY TasksCounted
    <3>2. 0..NTasks \subseteq -1..NTasks
      OBVIOUS
    <3>3. QED
      BY <3>1, <3>2 DEF States
  <2>2. BoardStale \in BOOLEAN
    BY DEF BoardStale
  <2>3. Unchanged(d) \in 0..StallPasses
    <3>1. thread[d].unchanged \in 0..StallPasses
      BY <1>1 DEF ThreadLocals
    <3>2. QED
      BY <3>1 DEF Unchanged
  <2>4. [thread[d] EXCEPT !.pc = "sleep", !.stale = BoardStale, !.last = States,
          !.unchanged = Unchanged(d)] \in ThreadLocals
    BY <1>1, <1>6, <2>1, <2>2, <2>3, ZenonT(40) DEF ThreadLocals
  <2>5. thread' = [thread EXCEPT ![d] =
           [thread[d] EXCEPT !.pc = "sleep", !.stale = BoardStale, !.last = States, !.unchanged = Unchanged(d)]]
    BY <1>1, <1>19 DEF Look
  <2>6. QED
    BY <1>2, <2>4, <2>5
<1>20. ASSUME NEW d \in Threads, Step(d)
       PROVE  thread' \in [Threads -> ThreadLocals]
  <2>1. CASE FirstPass(d)
    BY <1>4, <1>6, <2>1 DEF FirstPass
  <2>2. CASE FirstPassFails(d) \/ Converges(d)
    BY <1>5, <1>7, <2>2 DEF FirstPassFails, Converges
  <2>3. CASE Wake(d)
    BY <1>4, <1>5, <1>6, <2>3 DEF Wake
  <2>4. CASE Expires(d) \/ Raises(d)
    BY <1>5, <1>6, <2>4 DEF Expires, Raises
  <2>5. CASE CleanupBoardWorkers(d)
    BY <1>6, <1>10, <1>13, <2>5 DEF CleanupBoardWorkers
  <2>6. CASE CleanupKills(d)
    BY <1>7, <1>8, <1>13, <2>6 DEF CleanupKills
  <2>7. QED
    BY <1>19, <1>20, <2>1, <2>2, <2>3, <2>4, <2>5, <2>6 DEF Step
<1>21. QED
  BY <1>15, <1>16, <1>17, <1>18, <1>20 DEF SwarmNext

\* A step is a dispatch pass or one of the few others that touch the rows.
LEMMA StepKinds ==
  ASSUME SwarmNext
  PROVE  \/ \E max : Pass(max)
         \/ \E t \in AgentTasks, p \in alive : Beat(t, p) \/ Finish(t, p)
         \/ Tick \/ SealPark \/ KillStaleWorkers \/ BumpPromotes
         \/ UNCHANGED row
<1>1. CASE Worker
  BY <1>1 DEF Worker, Die
<1>2. CASE ApiDispatch \/ Finalize
  BY <1>2
  DEF ApiDispatch, Finalize, Record, SealRead, SealKill, SealSelect, SealMark, AsItWas, procs
<1>3. CASE Sweep
  BY <1>3
  DEF Sweep, ReaperCheck, KillStaleSelect, BumpBlockedToReady, BumpDone, ReaperPass, AsItWas,
      procs
<1>4. ASSUME NEW d \in Threads, Step(d)
      PROVE  UNCHANGED row \/ \E max : Pass(max)
  BY <1>4
  DEF Step, FirstPass, FirstPassFails, Look, Converges, Wake, Expires, Raises,
      CleanupBoardWorkers, CleanupKills, AsItWas, procs
<1>5. QED
  BY <1>1, <1>2, <1>3, <1>4 DEF SwarmNext

\* The remaining variables.
LEMMA SwarmTypeStep == SwarmTypeInv /\ [SwarmNext]_swarmVars => SwarmTypeInv'
<1> SUFFICES ASSUME SwarmTypeInv, [SwarmNext]_swarmVars PROVE SwarmTypeInv'
  OBVIOUS
<1> DEFINE Others == /\ alive \subseteq 1..used.pids /\ used \in UsedType
                   /\ final \in BOOLEAN /\ sealed \in BOOLEAN /\ crossed \in BOOLEAN
                   /\ moved \subseteq Threads /\ reaper \in SweepLocals
                   /\ (reaper.pc # "kill" => reaper.rows = {})
           Rows == row \in [AgentTasks -> Row] /\ \A t \in AgentTasks :
                   row[t].status = "running" => row[t].pid \in Pids
<1>1. SwarmTypeInv <=> Rows /\ thread \in [Threads -> ThreadLocals] /\ Others
  BY DEF SwarmTypeInv, SwarmTypeOK, Runners, ThreadLocals, SweepLocals, UsedType
<1>2. SwarmTypeInv' <=> Rows' /\ thread' \in [Threads -> ThreadLocals] /\ Others'
  BY DEF SwarmTypeInv, SwarmTypeOK, Runners, ThreadLocals, SweepLocals, UsedType
<1>3. CASE UNCHANGED swarmVars
  BY <1>1, <1>2, <1>3 DEF swarmVars, procs, marks
<1>4. ASSUME SwarmNext PROVE SwarmTypeInv'
  <2>1. thread' \in [Threads -> ThreadLocals]
    BY <1>4, ThreadStep
  <2>2. Others
    BY <1>1
  <2>3. ASSUME UNCHANGED <<alive, used, marks, moved, reaper>>, crossed' \in BOOLEAN
        PROVE  Others'
    BY <2>2, <2>3 DEF marks
  <2>4. ASSUME NEW max, Pass(max)
        PROVE  Rows' /\ alive' \subseteq 1..used'.pids /\ used' \in UsedType
               /\ moved' \subseteq Threads /\ crossed' \in BOOLEAN
    BY <2>4, PassFacts
  <2>5. ASSUME Worker PROVE Others'
    BY <2>2, <2>5 DEF Worker, Beat, Finish, Die, Looping, marks
  <2>6. ASSUME Tick PROVE Others'
    BY <2>2, <2>6 DEF Tick, marks
  <2>7. ASSUME UNCHANGED <<alive, marks, moved, reaper, crossed>>,
               used.extras < MaxExtras, used' = [used EXCEPT !.extras = @ + 1]
        PROVE  Others'
    <3>1. used.extras + 1 \in 0..MaxExtras /\ used' = [used EXCEPT !.extras = used.extras + 1]
      <4>1. used.extras \in 0..MaxExtras
        BY <2>2 DEF UsedType
      <4>2. QED
        BY <4>1, <2>7
    <3>2. used' \in UsedType /\ used'.pids = used.pids
      BY <2>2, <3>1 DEF UsedType
    <3>3. QED
      BY <2>2, <2>7, <3>2 DEF marks
  <2>8. ASSUME ApiDispatch PROVE Others'
    BY <2>7, <2>8 DEF ApiDispatch, AsItWas, procs
  <2>9. ASSUME Finalize PROVE Others'
    BY <2>2, <2>9
    DEF Finalize, Record, SealRead, SealKill, SealSelect, SealPark, SealMark, AsItWas, procs,
        marks, KillProcessTree
  <2>10. ASSUME ReaperCheck \/ BumpDone PROVE Others'
    <3>1. reaper' \in SweepLocals /\ reaper'.pc # "kill" /\ reaper'.rows = {}
      BY <2>2, <2>10 DEF ReaperCheck, BumpDone, ReaperGoes, SweepLocals
    <3>2. QED
      BY <2>2, <2>10, <3>1 DEF ReaperCheck, BumpDone, AsItWas, procs, marks
  <2>11. ASSUME KillStaleSelect PROVE Others'
    <3>1. {<<t, row[t].pid>> : t \in {u \in AgentTasks : row[u].status = "running" /\ row[u].age = "old"}}
             \in SUBSET Pair
      BY <1>1, SMTT(30) DEF Pair
    <3>2. reaper' \in SweepLocals /\ (reaper'.pc # "kill" => reaper'.rows = {})
      BY <2>2, <2>11, <3>1 DEF KillStaleSelect, Sweeping, SweepLocals
    <3>3. QED
      BY <2>2, <2>11, <3>2 DEF KillStaleSelect, AsItWas, procs, marks
  <2>12. ASSUME KillStaleWorkers PROVE Others'
    <3>1. PICK r \in reaper.rows : KillProcessTree({r[2]}) /\ Sweeping(reaper.rows \ {r})
      BY <2>12 DEF KillStaleWorkers
    <3>2. reaper' \in SweepLocals /\ (reaper'.pc # "kill" => reaper'.rows = {})
      BY <2>2, <3>1 DEF Sweeping, SweepLocals
    <3>3. QED
      BY <2>2, <2>12, <3>1, <3>2 DEF KillStaleWorkers, KillProcessTree, marks
  <2>13. ASSUME BumpBlockedToReady PROVE Others'
    <3>1. reaper' \in SweepLocals /\ reaper'.rows = {}
      BY <2>2, <2>13 DEF BumpBlockedToReady, SweepLocals
    <3>2. QED
      BY <2>2, <2>13, <3>1 DEF BumpBlockedToReady, AsItWas, procs, marks
  <2>14. ASSUME BumpPromotes PROVE Others'
    <3>1. reaper' \in SweepLocals /\ reaper'.rows = {}
      BY <2>2, <2>14 DEF BumpPromotes, SweepLocals
    <3>2. crossed' \in BOOLEAN /\ moved' \subseteq Threads
      BY <2>2, <2>14 DEF BumpPromotes, Promote, Looping
    <3>3. QED
      BY <2>2, <2>14, <3>1, <3>2 DEF BumpPromotes, marks
  <2>15. ASSUME NEW d \in Threads, Step(d), ~FirstPass(d), ~Wake(d)
         PROVE  Others'
    <3>1. CASE FirstPassFails(d) \/ Raises(d)
      BY <2>7, <3>1 DEF FirstPassFails, Raises, AsItWas, procs
    <3>2. CASE Look(d) \/ Converges(d) \/ Expires(d) \/ CleanupBoardWorkers(d) \/ CleanupKills(d)
      BY <2>2, <3>2
      DEF Look, Converges, Expires, CleanupBoardWorkers, CleanupKills, AsItWas, procs, marks,
          KillProcessTree
    <3>3. QED
      BY <2>15, <3>1, <3>2 DEF Step
  <2>16. ASSUME NEW d \in Threads, FirstPass(d) \/ Wake(d)
         PROVE  Others'
    BY <2>2, <2>4, <2>16 DEF FirstPass, Wake, marks
  <2>17. ASSUME ReaperPass PROVE Others'
    <3>1. reaper' \in SweepLocals /\ reaper'.rows = {}
      BY <2>2, <2>17 DEF ReaperPass, ReaperGoes, SweepLocals
    <3>2. QED
      BY <2>2, <2>4, <2>17, <3>1 DEF ReaperPass, marks
  <2>18. Others'
    BY <1>4, <2>5, <2>6, <2>7, <2>8, <2>9, <2>10, <2>11, <2>12, <2>13, <2>14, <2>15, <2>16,
       <2>17
    DEF SwarmNext, Sweep
  <2>19. Rows'
    <3>1. CASE \E max : Pass(max)
      BY <2>4, <3>1
    <3>2. CASE ~\E max : Pass(max)
      BY <1>1, <1>4, <3>2, StepKinds, SwarmRowStep
    <3>3. QED
      BY <3>1, <3>2
  <2>20. QED
    BY <1>2, <2>1, <2>18, <2>19
<1>5. QED
  BY <1>3, <1>4

-----------------------------------------------------------------------------
(* What the threads know of each other as long as no row has changed under  *)
(* one of them: the seal goes from place to place, and each place is sure    *)
(* of what the one before it has done.                                       *)

SealPlaces == {"sealKill", "sealSelect", "sealPark", "mark"}
At == thread["launch"].pc

\* Every worker is the one its task's row names.
WorkersKnown == \A p \in alive : \E t \in AgentTasks : Working(t, p)

\* A row the sweep has selected still has the worker it had, or is over.
SelectedStands ==
    \A r \in reaper.rows : Terminal(r[1]) \/ (row[r[1]].status = "running" /\ row[r[1]].pid = r[2])

\* The seal follows the outcome.
FinalFirst == At = "sealRead" \/ At \in SealPlaces \/ sealed => final

\* The pids that were read cover the workers, and then no worker is left.
NoneMissed == At = "sealKill" => alive \subseteq thread["launch"].kill
NoneLeft == At \in {"sealSelect", "sealPark", "mark"} \/ sealed => alive = {}

\* The rows to park are those that are open, and none of them is done by now.
ParkOpen ==
    At = "sealPark" => \A t \in AgentTasks :
        IF t \in thread["launch"].park THEN row[t].status # "done" ELSE Terminal(t)
AllOver == At = "mark" \/ sealed => \A t \in AgentTasks : Terminal(t)

QuietKept == /\ WorkersKnown /\ SelectedStands /\ FinalFirst /\ NoneMissed /\ NoneLeft
             /\ ParkOpen /\ AllOver
QuietInv == ~crossed => QuietKept

\* A step keeps this if it loses no worker's row, leaves the seal where it is, and
\* on a final board starts no worker and reopens or finishes no row.
LEMMA QuietFrame ==
  ASSUME QuietKept,
         \A p \in alive' : \/ p \notin alive /\ \E t \in AgentTasks : Working(t, p)'
                           \/ p \in alive /\ \A t \in AgentTasks : Working(t, p) => Working(t, p)',
         \A r \in reaper'.rows :
            \/ Terminal(r[1])'
            \/ r \in reaper.rows /\ row'[r[1]].status = row[r[1]].status /\ row'[r[1]].pid = row[r[1]].pid,
         final => final', sealed' = sealed,
         At' = "sealRead" => final',
         At' \in SealPlaces => thread'["launch"] = thread["launch"],
         final => alive' \subseteq alive,
         final => \A t \in AgentTasks : Terminal(t) => row'[t].status = row[t].status,
         \A t \in AgentTasks : row'[t].status = "done" => row[t].status = "done" \/ alive # {}
  PROVE  QuietKept'
<1>1. WorkersKnown'
  BY DEF QuietKept, WorkersKnown
<1>2. SelectedStands'
  BY DEF QuietKept, SelectedStands, Terminal
<1>3. At' \in SealPlaces => At' = At /\ thread'["launch"] = thread["launch"]
  BY DEF At
<1>4. FinalFirst'
  BY <1>3 DEF QuietKept, FinalFirst
<1>5. NoneMissed'
  BY <1>3 DEF QuietKept, NoneMissed, FinalFirst, SealPlaces
<1>6. NoneLeft'
  BY <1>3 DEF QuietKept, NoneLeft, FinalFirst, SealPlaces
<1>7. ParkOpen'
  BY <1>3 DEF QuietKept, ParkOpen, NoneLeft, FinalFirst, SealPlaces, Terminal
<1>8. AllOver'
  BY <1>3 DEF QuietKept, AllOver, FinalFirst, SealPlaces, Terminal
<1>9. QED
  BY <1>1, <1>2, <1>4, <1>5, <1>6, <1>7, <1>8 DEF QuietKept

\* A thread's step moves that thread only, and none but Finalize goes to the seal.
LEMMA LaunchAt ==
  ASSUME SwarmTypeInv, NEW d \in Threads, Step(d)
  PROVE  /\ At' # "sealRead" \/ thread'["launch"] = thread["launch"]
         /\ At' \in SealPlaces => thread'["launch"] = thread["launch"]
<1>1. thread \in [Threads -> ThreadLocals] /\ \A e \in Threads : thread[e] \in ThreadLocals /\ "launch" \in Threads
  BY DEF SwarmTypeInv, SwarmTypeOK, ThreadLocals, Threads
<1>2. CASE d # "launch"
  BY <1>1, <1>2 DEF At, Step, FirstPass, FirstPassFails, Look, Converges, Wake, Expires, Raises,
     CleanupBoardWorkers, CleanupKills, ThreadTo, Leave
<1>3. CASE d = "launch"
  <2>1. At' \in {"look", "record", "sleep", "cleanup", "kill"}
    <3>1. ASSUME NEW pc, ThreadTo("launch", pc) PROVE At' = pc
      BY <1>1, <3>1 DEF ThreadTo, At, ThreadLocals
    <3>2. ASSUME NEW pc, NEW out, Leave("launch", pc, out) PROVE At' = pc
      BY <1>1, <3>2 DEF Leave, At, Fresh
    <3>3. CASE FirstPass(d) \/ FirstPassFails(d) \/ Converges(d) \/ Wake(d) \/ Expires(d) \/ Raises(d)
      BY <1>3, <3>1, <3>2, <3>3
      DEF FirstPass, FirstPassFails, Converges, Wake, Expires, Raises, Over
    <3>4. CASE Look(d)
      <4>1. thread'["launch"] = [thread["launch"] EXCEPT !.pc = "sleep", !.stale = BoardStale, !.last = States,
                                                         !.unchanged = Unchanged("launch")]
        BY <1>1, <1>3, <3>4 DEF Look
      <4>2. thread'["launch"].pc = "sleep"
        BY <1>1, <4>1 DEF ThreadLocals
      <4>3. QED
        BY <4>2 DEF At
    <3>5. CASE CleanupBoardWorkers(d) \/ CleanupKills(d)
      <4>1. PICK K : thread'["launch"] = [thread["launch"] EXCEPT !.pc = "kill", !.kill = K]
                     \/ thread'["launch"] = [thread["launch"] EXCEPT !.pc = "record", !.kill = K]
        BY <1>1, <1>3, <3>5 DEF CleanupBoardWorkers, CleanupKills, Over
      <4>2. thread'["launch"].pc \in {"kill", "record"}
        BY <1>1, <4>1 DEF ThreadLocals
      <4>3. QED
        BY <4>2, SMTT(30) DEF At
    <3>6. QED
      BY <3>3, <3>4, <3>5 DEF Step
  <2>2. QED
    BY <2>1 DEF SealPlaces
<1>4. QED
  BY <1>2, <1>3

LEMMA CrossedStays == SwarmNext => (~crossed' => ~crossed)
<1> SUFFICES ASSUME SwarmNext, crossed PROVE crossed'
  OBVIOUS
<1>1. ASSUME NEW max, Pass(max) PROVE crossed'
  BY <1>1 DEF Pass, PassWith
<1>2. CASE Worker \/ Tick
  BY <1>2 DEF Worker, Beat, Finish, Die, Tick
<1>3. CASE ApiDispatch \/ Finalize
  BY <1>3
  DEF ApiDispatch, Finalize, Record, SealRead, SealKill, SealSelect, SealPark, SealMark, AsItWas
<1>4. CASE Sweep
  BY <1>1, <1>4
  DEF Sweep, ReaperCheck, KillStaleSelect, KillStaleWorkers, BumpBlockedToReady, BumpPromotes,
      Promote, BumpDone, ReaperPass, AsItWas
<1>5. ASSUME NEW d \in Threads, Step(d) PROVE crossed'
  BY <1>1, <1>5 DEF Step, FirstPass, FirstPassFails, Look, Converges, Wake, Expires, Raises,
     CleanupBoardWorkers, CleanupKills, AsItWas
<1>6. QED
  BY <1>2, <1>3, <1>4, <1>5 DEF SwarmNext

\* The pids read from the rows are those of all workers.
LEMMA RecordedCovers ==
  ASSUME SwarmTypeInv, WorkersKnown
  PROVE  alive \subseteq Recorded
<1> SUFFICES ASSUME NEW p \in alive PROVE p \in Recorded
  OBVIOUS
<1>1. PICK t \in AgentTasks : Working(t, p)
  BY DEF WorkersKnown
<1>2. p \in 1..used.pids /\ used.pids \in 0..MaxPids
  BY DEF SwarmTypeInv, SwarmTypeOK
<1>3. p # NoPid
  BY <1>2 DEF NoPid
<1>4. QED
  BY <1>1, <1>3 DEF Recorded, Working

LEMMA QuietInit == SwarmInit => QuietInv
<1> SUFFICES ASSUME SwarmInit PROVE QuietInv
  OBVIOUS
<1>1. At = "first" /\ alive = {} /\ ~sealed /\ reaper.rows = {}
  BY DEF SwarmInit, At, Threads, Fresh
<1>2. QED
  BY <1>1
  DEF QuietInv, QuietKept, WorkersKnown, SelectedStands, FinalFirst, NoneMissed, NoneLeft,
      ParkOpen, AllOver, SealPlaces

LEMMA QuietStep == SwarmTypeInv /\ SwarmTypeInv' /\ QuietInv /\ [SwarmNext]_swarmVars => QuietInv'
<1> SUFFICES ASSUME SwarmTypeInv, SwarmTypeInv', QuietInv, [SwarmNext]_swarmVars, ~crossed'
             PROVE  QuietKept'
  BY DEF QuietInv
<1>1. CASE UNCHANGED swarmVars
  BY <1>1
  DEF swarmVars, procs, marks, QuietInv, QuietKept, WorkersKnown, SelectedStands, FinalFirst,
      NoneMissed, NoneLeft, ParkOpen, AllOver, SealPlaces, At, Working, Terminal
<1>2. CASE SwarmNext
  <2>1. QuietKept /\ ~crossed
    BY <1>2, CrossedStays DEF QuietInv
  <2>2. row \in [AgentTasks -> Row] /\ row' \in [AgentTasks -> Row]
        /\ thread \in [Threads -> ThreadLocals] /\ reaper \in SweepLocals
        /\ (reaper.pc # "kill" => reaper.rows = {}) /\ "launch" \in Threads
        /\ thread["launch"] \in ThreadLocals
    BY DEF SwarmTypeInv, SwarmTypeOK, Runners, ThreadLocals, SweepLocals, Threads
  <2>3. \A r \in reaper.rows : r[1] \in AgentTasks /\ r[2] \in Pids
    BY <2>2 DEF SweepLocals, Pair
  <2>4. At = "sealRead" => final
    BY <2>1 DEF QuietKept, FinalFirst
  <2>5. ASSUME NEW max, Pass(max), reaper'.rows = reaper.rows, UNCHANGED marks,
               At' = "sealRead" => thread'["launch"] = thread["launch"],
               At' \in SealPlaces => thread'["launch"] = thread["launch"]
        PROVE  QuietKept'
    <3>1. /\ \A t \in AgentTasks : Terminal(t) => row'[t] = row[t]
          /\ \A t \in AgentTasks, p \in alive : Working(t, p) => row'[t] = row[t]
          /\ \A t \in AgentTasks : Terminal(t)' /\ ~Terminal(t) => row'[t].status = "blocked"
          /\ alive \subseteq alive'
          /\ \A p \in alive' \ alive : \E t \in AgentTasks : row'[t].status = "running" /\ row'[t].pid = p
          /\ final => alive' = alive
          /\ \A r \in reaper.rows : row'[r[1]] = row[r[1]]
      BY <2>5, PassFacts
    <3>2. \A p \in alive' : \/ p \notin alive /\ \E t \in AgentTasks : Working(t, p)'
                            \/ p \in alive /\ \A t \in AgentTasks : Working(t, p) => Working(t, p)'
      BY <3>1 DEF Working
    <3>3. \A t \in AgentTasks : row'[t].status = "done" => row[t].status = "done"
      BY <3>1 DEF Terminal
    <3>4. At' = "sealRead" => final'
      BY <2>4, <2>5 DEF At, marks
    <3>5. QED
      BY <2>1, <2>5, <3>1, <3>2, <3>3, <3>4, QuietFrame DEF marks
  <2>6. ASSUME row' = row, alive' \subseteq alive, reaper'.rows \subseteq reaper.rows, UNCHANGED marks,
               At' = "sealRead" => thread'["launch"] = thread["launch"],
               At' \in SealPlaces => thread'["launch"] = thread["launch"]
        PROVE  QuietKept'
    <3>1. At' = "sealRead" => final'
      BY <2>4, <2>6 DEF At, marks
    <3>2. QED
      BY <2>1, <2>6, <3>1, QuietFrame DEF marks, Working
  <2>7. ASSUME thread'["launch"] = thread["launch"], UNCHANGED marks
        PROVE  At' = At /\ (At' = "sealRead" => final')
    BY <2>4, <2>7 DEF At, marks
  <2>8. ASSUME NEW t \in AgentTasks, NEW p \in alive, Beat(t, p)
        PROVE  QuietKept'
    <3>1. \A u \in AgentTasks : row'[u].status = row[u].status /\ row'[u].pid = row[u].pid
      BY <2>2, <2>8 DEF Beat, Row
    <3>2. \A r \in reaper.rows : row'[r[1]].status = row[r[1]].status /\ row'[r[1]].pid = row[r[1]].pid
      BY <2>3, <3>1
    <3>3. UNCHANGED <<alive, marks, thread, reaper>>
      BY <2>8 DEF Beat
    <3>4. QED
      BY <2>1, <2>7, <3>1, <3>2, <3>3, QuietFrame DEF marks, Working
  <2>9. ASSUME NEW t \in AgentTasks, NEW p \in alive, Finish(t, p)
        PROVE  QuietKept'
    <3>1. UNCHANGED <<marks, thread, reaper>> /\ alive' = alive \ {p}
      BY <2>9 DEF Finish
    <3>2. row'[t].status = "done" /\ \A u \in AgentTasks \ {t} : row'[u] = row[u]
      BY <2>2, <2>9 DEF Finish, Row
    <3>3. row[t].status = "running" /\ row[t].pid = p
      BY <2>9 DEF Finish, Working
    <3>4. \A q \in alive' : q \in alive /\ \A u \in AgentTasks : Working(u, q) => Working(u, q)'
      BY <3>1, <3>2, <3>3 DEF Working
    <3>5. \A r \in reaper'.rows : Terminal(r[1])' \/ (r \in reaper.rows /\ row'[r[1]].status = row[r[1]].status
                                                       /\ row'[r[1]].pid = row[r[1]].pid)
      BY <2>3, <3>1, <3>2 DEF Terminal
    <3>6. \A u \in AgentTasks : Terminal(u) => row'[u].status = row[u].status
      BY <3>2, <3>3 DEF Terminal
    <3>7. QED
      BY <2>1, <2>7, <2>9, <3>1, <3>4, <3>5, <3>6, QuietFrame DEF marks
  <2>10. ASSUME NEW p, Die(p)
         PROVE  QuietKept'
    BY <2>6, <2>10 DEF Die
  <2>11. CASE Tick
    <3>1. \A u \in AgentTasks : row'[u].status = row[u].status /\ row'[u].pid = row[u].pid
      BY <2>2, <2>11 DEF Tick, Row
    <3>2. \A r \in reaper.rows : row'[r[1]].status = row[r[1]].status /\ row'[r[1]].pid = row[r[1]].pid
      BY <2>3, <3>1
    <3>3. UNCHANGED <<alive, marks, reaper>>
      BY <2>11 DEF Tick
    <3>4. At' = At /\ (At' \in SealPlaces => thread'["launch"] = thread["launch"])
      BY <2>2, <2>11 DEF Tick, At, Looping, SealPlaces, ThreadLocals
    <3>5. QED
      BY <2>1, <2>4, <3>1, <3>2, <3>3, <3>4, QuietFrame DEF marks, Working
  <2>12. CASE ApiDispatch
    <3>1. thread'["launch"] = thread["launch"]
      BY <2>2, <2>12 DEF ApiDispatch, ThreadTo
    <3>2. QED
      BY <2>6, <2>12, <3>1 DEF ApiDispatch, AsItWas, procs
  <2>13. ASSUME NEW d \in Threads, Step(d)
         PROVE  QuietKept'
    <3>1. /\ At' # "sealRead" \/ thread'["launch"] = thread["launch"]
          /\ At' \in SealPlaces => thread'["launch"] = thread["launch"]
      BY <2>13, LaunchAt
    <3>2. CASE FirstPass(d) \/ Wake(d)
      BY <2>5, <3>1, <3>2 DEF FirstPass, Wake
    <3>3. CASE ~(FirstPass(d) \/ Wake(d))
      BY <2>6, <2>13, <3>1, <3>3 DEF Step, FirstPassFails, Look, Converges, Expires, Raises,
         CleanupBoardWorkers, CleanupKills, KillProcessTree, AsItWas, procs
    <3>4. QED
      BY <3>2, <3>3
  <2>14. CASE ReaperCheck \/ BumpBlockedToReady \/ BumpDone
    <3>1. reaper'.rows = reaper.rows
      BY <2>2, <2>14 DEF ReaperCheck, BumpBlockedToReady, BumpDone, ReaperGoes, SweepLocals
    <3>2. QED
      BY <2>6, <2>14, <3>1 DEF ReaperCheck, BumpBlockedToReady, BumpDone, AsItWas, procs
  <2>15. CASE KillStaleSelect
    <3>1. UNCHANGED <<row, alive, marks, thread>>
      BY <2>15 DEF KillStaleSelect, AsItWas, procs
    <3>2. reaper'.rows = {<<t, row[t].pid>> : t \in {u \in AgentTasks :
            row[u].status = "running" /\ row[u].age = "old"}}
      BY <2>2, <2>15 DEF KillStaleSelect, Sweeping, SweepLocals
    <3>3. SelectedStands'
      BY <3>1, <3>2 DEF SelectedStands, Terminal
    <3>4. QED
      BY <2>1, <3>1, <3>3
      DEF QuietKept, WorkersKnown, FinalFirst, NoneMissed, NoneLeft, ParkOpen, AllOver, At,
          Working, Terminal, marks
  <2>16. CASE KillStaleWorkers
    <3>1. PICK r \in reaper.rows :
             /\ alive' = alive \ {r[2]}
             /\ row' = Parked({r[1]} \cap {t \in AgentTasks : row[t].status = "running"})
             /\ reaper'.rows = reaper.rows \ {r}
      BY <2>2, <2>16 DEF KillStaleWorkers, KillProcessTree, Sweeping, SweepLocals
    <3>2. UNCHANGED <<marks, thread>>
      BY <2>16 DEF KillStaleWorkers
    <3>3. \A t \in AgentTasks : row'[t] = row[t]
             \/ (t = r[1] /\ row[t].status = "running" /\ row'[t].status = "blocked")
      BY <2>2, <3>1 DEF Parked, Row
    <3>4. row[r[1]].status = "running" => row[r[1]].pid = r[2]
      BY <2>1 DEF QuietKept, SelectedStands, Terminal
    <3>5. \A q \in alive' : q \in alive /\ \A u \in AgentTasks : Working(u, q) => Working(u, q)'
      BY <3>1, <3>3, <3>4 DEF Working
    <3>6. \A s \in reaper'.rows : Terminal(s[1])' \/ (s \in reaper.rows /\ row'[s[1]].status = row[s[1]].status
                                                       /\ row'[s[1]].pid = row[s[1]].pid)
      BY <2>3, <3>1, <3>3 DEF Terminal
    <3>7. \A u \in AgentTasks : Terminal(u) => row'[u].status = row[u].status
      BY <3>3 DEF Terminal
    <3>8. \A u \in AgentTasks : row'[u].status = "done" => row[u].status = "done"
      BY <3>3
    <3>9. QED
      BY <2>1, <2>7, <3>1, <3>2, <3>5, <3>6, <3>7, <3>8, QuietFrame DEF marks
  <2>17. CASE BumpPromotes
    <3>1. PICK t \in AgentTasks : Promote(t)
      BY <2>2, <2>17 DEF BumpPromotes, SweepLocals
    <3>2. UNCHANGED <<alive, marks, thread>> /\ reaper'.rows = {}
      BY <2>2, <2>17 DEF BumpPromotes, SweepLocals
    <3>3. final => row' = row
      BY <3>1 DEF Promote
    <3>4. \A u \in AgentTasks : row'[u] = row[u] \/ (row[u].status = "blocked" /\ row'[u].status = "ready")
      BY <2>2, <3>1 DEF Promote, Row
    <3>5. \A q \in alive, u \in AgentTasks : Working(u, q) => Working(u, q)'
      BY <3>2, <3>4 DEF Working
    <3>6. QED
      BY <2>1, <2>7, <3>2, <3>3, <3>4, <3>5, QuietFrame DEF marks
  <2>18. CASE ReaperPass
    <3>1. reaper'.rows = reaper.rows
      BY <2>2, <2>18 DEF ReaperPass, ReaperGoes, SweepLocals
    <3>2. QED
      BY <2>5, <2>18, <3>1 DEF ReaperPass
  <2>19. CASE Record
    <3>1. UNCHANGED <<row, alive, sealed, reaper>> /\ final' = TRUE
      BY <2>19 DEF Record, procs
    <3>2. At' \in {"end", "sealRead"}
      BY <2>2, <2>19 DEF Record, ThreadTo, At, ThreadLocals
    <3>3. QED
      BY <2>1, <3>1, <3>2, QuietFrame DEF SealPlaces, Working
  <2>20. CASE SealRead
    <3>1. UNCHANGED <<row, alive, marks, reaper>> /\ At = "sealRead"
      BY <2>20 DEF SealRead, AsItWas, procs, At
    <3>2. At' = "sealKill" /\ thread'["launch"].kill = Recorded
      BY <2>2, <2>20 DEF SealRead, At, ThreadLocals
    <3>3. alive \subseteq Recorded
      BY <2>1, RecordedCovers DEF QuietKept
    <3>4. QED
      BY <2>1, <3>1, <3>2, <3>3
      DEF QuietKept, WorkersKnown, SelectedStands, FinalFirst, NoneMissed, NoneLeft, ParkOpen,
          AllOver, Working, Terminal, marks
  <2>21. CASE SealKill
    <3>1. UNCHANGED <<row, marks, reaper>> /\ At = "sealKill" /\ alive' = {}
      BY <2>1, <2>21 DEF SealKill, KillProcessTree, At, QuietKept, NoneMissed
    <3>2. At' = "sealSelect"
      BY <2>2, <2>21 DEF SealKill, At, ThreadLocals
    <3>3. QED
      BY <2>1, <3>1, <3>2
      DEF QuietKept, WorkersKnown, SelectedStands, FinalFirst, NoneMissed, NoneLeft, ParkOpen,
          AllOver, Terminal, marks, SealPlaces
  <2>22. CASE SealSelect
    <3>1. UNCHANGED <<row, alive, marks, reaper>> /\ At = "sealSelect"
      BY <2>22 DEF SealSelect, AsItWas, procs, At
    <3>2. At' = "sealPark" /\ thread'["launch"].park = {t \in AgentTasks : ~Terminal(t)}
      BY <2>2, <2>22 DEF SealSelect, At, ThreadLocals
    <3>3. QED
      BY <2>1, <3>1, <3>2
      DEF QuietKept, WorkersKnown, SelectedStands, FinalFirst, NoneMissed, NoneLeft, ParkOpen,
          AllOver, Working, Terminal, marks, SealPlaces
  <2>23. CASE SealPark
    <3>1. UNCHANGED <<alive, marks, reaper>> /\ At = "sealPark" /\ row' = Parked(thread["launch"].park)
      BY <2>23 DEF SealPark, At
    <3>2. At' = "mark"
      BY <2>2, <2>23 DEF SealPark, At, ThreadLocals
    <3>3. \A t \in AgentTasks : Terminal(t)'
      <4> SUFFICES ASSUME NEW t \in AgentTasks PROVE Terminal(t)'
        OBVIOUS
      <4>1. IF t \in thread["launch"].park THEN row[t].status # "done" ELSE Terminal(t)
        BY <2>1, <3>1 DEF QuietKept, ParkOpen
      <4>2. CASE t \in thread["launch"].park
        BY <2>2, <3>1, <4>2, ZenonT(40) DEF Parked, Terminal, Row
      <4>3. CASE t \notin thread["launch"].park
        BY <3>1, <4>1, <4>3 DEF Parked, Terminal
      <4>4. QED
        BY <4>2, <4>3
    <3>4. SelectedStands'
      BY <2>3, <3>1, <3>3 DEF SelectedStands
    <3>5. alive = {}
      BY <2>1, <3>1 DEF QuietKept, NoneLeft
    <3>6. QED
      BY <2>1, <3>1, <3>2, <3>3, <3>4, <3>5
      DEF QuietKept, WorkersKnown, FinalFirst, NoneMissed, NoneLeft, ParkOpen, AllOver, marks,
          SealPlaces
  <2>24. CASE SealMark
    <3>1. UNCHANGED <<row, alive, final, reaper>> /\ At = "mark"
      BY <2>24 DEF SealMark, AsItWas, procs, At
    <3>2. At' = "end"
      BY <2>2, <2>24 DEF SealMark, ThreadTo, At, ThreadLocals
    <3>3. QED
      BY <2>1, <3>1, <3>2
      DEF QuietKept, WorkersKnown, SelectedStands, FinalFirst, NoneMissed, NoneLeft, ParkOpen,
          AllOver, Working, Terminal, SealPlaces
  <2>25. CASE Worker
    BY <2>8, <2>9, <2>10, <2>25 DEF Worker
  <2>26. CASE Finalize
    BY <2>19, <2>20, <2>21, <2>22, <2>23, <2>24, <2>26 DEF Finalize
  <2>27. CASE Sweep
    BY <2>14, <2>15, <2>16, <2>17, <2>18, <2>27 DEF Sweep
  <2>28. QED
    BY <1>2, <2>11, <2>12, <2>13, <2>25, <2>26, <2>27 DEF SwarmNext
<1>3. QED
  BY <1>1, <1>2

\* On every board the threads keep what they own: as long as no row has changed
\* under a thread that had read it, a worker that runs is the one its row names,
\* and a sealed board is over, with every task done or parked and no worker left
\* (seal_board after read_worker_pids and kill_process_tree; hermes_client.py).
THEOREM SwarmSafe == SwarmSpec => []SwarmKept
<1> DEFINE Inv == SwarmTypeInv /\ QuietInv
<1>1. SwarmInit => Inv
  BY SwarmTypeInit, QuietInit
<1>2. Inv /\ [SwarmNext]_swarmVars => Inv'
  BY SwarmTypeStep, QuietStep
<1>3. Inv => SwarmKept
  BY
  DEF SwarmTypeInv, QuietInv, QuietKept, WorkersKnown, NoneLeft, AllOver, SwarmKept,
      QuietSealIsFinal, WorkersAreRecorded
<1> HIDE DEF Inv
<1>4. QED
  BY <1>1, <1>2, <1>3, PTL DEF SwarmSpec

\* Work that is done stays done on every board: no kill, park, promotion or pass
\* takes a finished row back, though each acts on a list it read earlier.
THEOREM SwarmDone == SwarmSpec => DoneKept
<1> DEFINE Inv == SwarmTypeInv /\ QuietInv
           Kept == \A t \in AgentTasks : row[t].status = "done" /\ ~crossed' => row'[t].status = "done"
<1>1. SwarmInit => Inv
  BY SwarmTypeInit, QuietInit
<1>2. Inv /\ [SwarmNext]_swarmVars => Inv'
  BY SwarmTypeStep, QuietStep
<1>3. ASSUME Inv, [SwarmNext]_swarmVars
      PROVE  Kept
  <2> SUFFICES ASSUME NEW t \in AgentTasks, row[t].status = "done", ~crossed'
               PROVE  row'[t].status = "done"
    OBVIOUS
  <2>1. CASE UNCHANGED swarmVars
    BY <2>1 DEF swarmVars, procs
  <2>2. CASE SwarmNext
    <3>1. QuietKept
      BY <1>3, <2>2, CrossedStays DEF QuietInv
    <3>2. row \in [AgentTasks -> Row]
      BY <1>3 DEF SwarmTypeInv, SwarmTypeOK
    <3>3. ASSUME NEW max, Pass(max) PROVE row'[t].status = "done"
      BY <1>3, <3>3, PassFacts DEF Terminal
    <3>4. ASSUME NEW u \in AgentTasks, NEW p \in alive, Beat(u, p) \/ Finish(u, p)
          PROVE  row'[t].status = "done"
      BY <3>2, <3>4 DEF Beat, Finish, Row
    <3>5. CASE Tick
      BY <3>2, <3>5 DEF Tick, Row
    <3>6. CASE SealPark
      BY <3>1, <3>2, <3>6 DEF SealPark, Parked, QuietKept, ParkOpen, At
    <3>7. CASE KillStaleWorkers
      BY <3>2, <3>7 DEF KillStaleWorkers, Parked
    <3>8. CASE BumpPromotes
      BY <3>2, <3>8 DEF BumpPromotes, Promote
    <3>9. QED
      BY <2>2, <3>3, <3>4, <3>5, <3>6, <3>7, <3>8, StepKinds
  <2>3. QED
    BY <1>3, <2>1, <2>2
<1>4. QED
  <2>1. Inv /\ [SwarmNext]_swarmVars => [Kept]_swarmVars
    BY <1>3
  <2> HIDE DEF Inv, Kept
  <2>2. SwarmSpec => [][Kept]_swarmVars
    BY <1>1, <1>2, <2>1, PTL DEF SwarmSpec
  <2>3. QED
    BY <2>2 DEF DoneKept, Kept

=============================================================================
