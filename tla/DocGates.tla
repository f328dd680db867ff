------------------------------ MODULE DocGates ------------------------------
(***************************************************************************)
(* The deterministic gates over what the lanes write: the validators of    *)
(* the plan and of the six blueprints, the note they leave on the board,   *)
(* the acceptance report the auditor derives from the page's audit, and    *)
(* the splitter of a builder's file pack.                                  *)
(*                                                                         *)
(* They are pure functions of a document, so this module has operators and *)
(* the contract each is held to; MCDrivers evaluates them over all small   *)
(* documents.                                                              *)
(***************************************************************************)
EXTENDS WebPage, Sequences, SequencesExt

-----------------------------------------------------------------------------
(* Blueprints.  A document that parses has main entries (components, cases, *)
(* checks or gates), decisions, and the lists every lane promises.  An      *)
(* entry is an object, or a bare value the parser lets through; its id may  *)
(* be a text, missing, or a number.                                         *)

Blueprints == {"architecture", "devops", "tdd", "review", "audit", "design"}

\* C-1 names the main entry, D-1 the decision, X-1 nothing.
Tokens == {"C-1", "D-1", "X-1"}

Entry(id) == [object : BOOLEAN, id : {id, "none", "number"}, complete : BOOLEAN,
              refs : {{}} \cup {{t} : t \in Tokens}]
Entries(id) == {<<>>} \cup {<<e>> : e \in Entry(id)}
Lists == [complete : BOOLEAN, refs : {{}, {"X-1"}}]
\* The main entries come as a list, as one object, or as a text.
Blueprint == [shape : {"list", "object", "text"}, main : Entries("C-1"), decisions : Entries("D-1"), lists : Lists]

\* How each reader takes its main section.  list() makes the keys of an object,
\* or the characters of a text, entries that are no objects.
Bare == [object |-> FALSE, id |-> "none", complete |-> FALSE, refs |-> {}]
ArchSection(d) == IF d.shape = "list" \/ d.main = <<>> THEN d.main ELSE <<Bare>>
DevopsSection(d) == IF d.shape = "text" THEN <<>> ELSE d.main
TddSection(d) == DevopsSection(d)
ReviewSection(d) == DevopsSection(d)
DesignSection(d) == DevopsSection(d)
AuditSection(d) == IF d.shape = "text" /\ d.main # <<>> THEN <<Bare>> ELSE d.main

Read(kind, d) ==
    CASE kind = "architecture" -> [d EXCEPT !.main = ArchSection(d)]
      [] kind = "devops" -> [d EXCEPT !.main = DevopsSection(d)]
      [] kind = "tdd" -> [d EXCEPT !.main = TddSection(d)]
      [] kind = "review" -> [d EXCEPT !.main = ReviewSection(d)]
      [] kind = "audit" -> [d EXCEPT !.main = AuditSection(d)]
      [] kind = "design" -> [d EXCEPT !.main = DesignSection(d)]

Ids(entries) == {e.id : e \in ToSet(entries)} \ {"none", "number"}
RefsOf(entries) == UNION {e.refs : e \in ToSet(entries)}
Incomplete(entries) == \E e \in ToSet(entries) : ~e.complete

\* The validator reads a field of what is no object, or strips a number.
Unreadable(main, decisions, strips) ==
    \/ \E e \in ToSet(main \o decisions) : ~e.object
    \/ \E e \in ToSet(strips) : e.id = "number"

Gap(what) == <<what, "document">>

\* What every validator reports, given the ids it knows and where it looks for references.
Issues(d, known, refs) ==
    UNION {IF d.main = <<>> THEN {Gap("nothing to execute")} ELSE {},
           IF Incomplete(d.main) THEN {Gap("incomplete entry")} ELSE {},
           IF d.lists.complete THEN {} ELSE {Gap("missing list")},
           IF Incomplete(d.decisions) \/ \E e \in ToSet(d.decisions) : e.id = "none"
           THEN {Gap("incomplete decision")} ELSE {},
           {<<"undefined", t>> : t \in refs \ known}}

Failed == {Gap("raised")}
Checked(raises, issues) == IF raises THEN Failed ELSE issues
AllIds(d) == Ids(d.main) \cup Ids(d.decisions)
EntryRefs(d) == RefsOf(d.main) \cup RefsOf(d.decisions)

\* The architecture's decisions define nothing: naming one counts as undefined.
ArchExecutableIssues(d) ==
    Checked(Unreadable(d.main, d.decisions, <<>>), Issues(d, Ids(d.main), EntryRefs(d)))

\* The lists are searched once per component.
DevopsExecutableIssues(d) ==
    Checked(Unreadable(d.main, d.decisions, <<>>),
            Issues(d, AllIds(d), EntryRefs(d) \cup IF d.main = <<>> THEN {} ELSE d.lists.refs))

TddExecutableIssues(d) ==
    Checked(Unreadable(d.main, d.decisions, d.main \o d.decisions),
            Issues(d, AllIds(d), EntryRefs(d) \cup d.lists.refs))

ReviewExecutableIssues(d) ==
    Checked(Unreadable(d.main, d.decisions, d.decisions),
            Issues(d, AllIds(d), EntryRefs(d) \cup d.lists.refs))

\* The whole of every gate and decision is searched, but not the lists.
AuditExecutableIssues(d) ==
    Checked(Unreadable(d.main, d.decisions, d.decisions), Issues(d, AllIds(d), EntryRefs(d)))

DesignExecutableIssues(d) ==
    Checked(Unreadable(d.main, d.decisions, <<>>), Issues(d, AllIds(d), EntryRefs(d)))

ExecutableIssues(kind, d) ==
    CASE kind = "architecture" -> ArchExecutableIssues(d)
      [] kind = "devops" -> DevopsExecutableIssues(d)
      [] kind = "tdd" -> TddExecutableIssues(d)
      [] kind = "review" -> ReviewExecutableIssues(d)
      [] kind = "audit" -> AuditExecutableIssues(d)
      [] kind = "design" -> DesignExecutableIssues(d)

\* The note swallows what the validator raises, and the designer's lane has none.
Noted(kind, d) ==
    LET issues == ExecutableIssues(kind, Read(kind, d)) IN kind # "design" /\ issues # {} /\ issues # Failed

-----------------------------------------------------------------------------
(* The plan. *)

\* Only r1 and a1 may be declared; a second task may wait for t1.
PlanTask == [id : {"t1", "none"}, reqs : {{}, {"r1"}, {"ghost"}}, acs : {{}, {"a1"}}, deps : {{}, {"t1"}, {"ghost"}}]
FirstTask == [id |-> "t1", reqs |-> {"r1"}, acs |-> {}, deps |-> {}]
Plan == [parsed : BOOLEAN, sections : BOOLEAN, reqs : {{}, {"r1"}}, acs : {{}, {"a1"}},
         tasks : {<<>>} \cup {<<t>> : t \in PlanTask} \cup {<<FirstTask, t>> : t \in PlanTask}]

PlanExecutableIssues(p) ==
    IF ~p.parsed THEN {Gap("not structured")} ELSE
    LET tasks == ToSet(p.tasks)
    IN UNION {IF p.sections THEN {} ELSE {Gap("missing section")},
              IF tasks = {} THEN {Gap("no tasks")} ELSE {},
              {<<"unlinked", t>> : t \in {t \in tasks : t.reqs \cup t.acs = {}}},
              {<<"undefined", i>> : i \in UNION {(t.reqs \ p.reqs) \cup (t.acs \ p.acs) : t \in tasks}},
              {<<"undefined", i>> : i \in (UNION {t.deps : t \in tasks}) \ {t.id : t \in tasks}},
              {<<"untraced", i>> : i \in (p.reqs \ UNION {t.reqs : t \in tasks})
                                    \cup (p.acs \ UNION {t.acs : t \in tasks})}}

-----------------------------------------------------------------------------
(* The acceptance report. *)

\* The auditor looks for the hard prefixes anywhere in its digest.
HardIn(p) == WebQaShouldRepair(WebQaIssues(p)) \/ "undefined CSS variable" \in p.defects

\* A gate that is not met fails when the digest holds any hard issue at all.  It holds
\* the first twelve issues; a page with more of them and a hard one is graded below 70.
GateStatus(p, met) ==
    IF p = Blank THEN "fail" ELSE IF met THEN "pass" ELSE IF HardIn(p) THEN "fail" ELSE "warn"

AuditContract(p) ==
    [completeness |-> GateStatus(p, {"viewport", "lang"} \subseteq p.basics),
     buildability |-> GateStatus(p, p.closed /\ p.defects \cap {"no <style> block", "unclosed block"} = {}),
     quality |-> IF p = Blank \/ WebDeliverableScore(p) < 50 THEN "fail"
                 ELSE IF WebDeliverableScore(p) < 70 THEN "warn" ELSE "pass",
     safety |-> GateStatus(p, "sandbox-unsafe" \notin p.defects)]

AuditVerdict(gates) ==
    LET statuses == Range(gates)
    IN IF "fail" \in statuses THEN "fail" ELSE IF "warn" \in statuses THEN "warn" ELSE "pass"

-----------------------------------------------------------------------------
(* The file pack: a marker names the file the lines after it belong to.    *)

Skipped == "_skipped"
Primary == ""

\* The name the part before the first marker is written under, index.html.
Artifact == "index"

\* A line is a marker [file, safe], or text [text].
PackLine == [marker : {TRUE}, path : {"a", Artifact}, safe : BOOLEAN, text : {0}]
                \cup [marker : {FALSE}, path : {Primary}, safe : {TRUE}, text : 1..2]

\* What the lines so far make of the pack: the files and the one being written.
PackStart == [at |-> Primary, files |-> [f \in {Primary} |-> <<>>]]

\* A part of this name begins, and begins empty.
Opened(pack, to) ==
    [at |-> to, files |-> [f \in DOMAIN pack.files \cup {to} |-> IF f = to THEN <<>> ELSE pack.files[f]]]

\* Mutant: a second marker of a file starts it over.
SplitLineAgain(pack, ln) ==
    IF ~ln.marker THEN [pack EXCEPT !.files[pack.at] = Append(@, ln.text)]
    ELSE Opened(pack, IF ln.safe THEN ln.path ELSE Skipped)

\* A marker that is unsafe or names a file again parks what follows, afresh.
SplitLine(pack, ln) ==
    IF ~ln.marker THEN [pack EXCEPT !.files[pack.at] = Append(@, ln.text)]
    ELSE Opened(pack, IF ln.safe /\ ln.path \notin DOMAIN pack.files THEN ln.path ELSE Skipped)

SplitArtifact(lines) == FoldLeft(SplitLine, PackStart, lines).files

\* The texts of the lines that are no markers, in their order.
TakeText(texts, ln) == IF ln.marker THEN texts ELSE Append(texts, ln.text)
Texts(lines) == FoldLeft(TakeText, <<>>, lines)

\* A marker may name the artifact, and its part is then written over the primary one.
Replaced(files) == Artifact \in DOMAIN files /\ files[Artifact] # <<>>

\* What lies in the workspace afterwards: empty files and the parked part are not
\* written, and a pack that starts with a marker also stays whole in the artifact.
SplitPack(lines) ==
    LET files == SplitArtifact(lines)
        written == {f \in DOMAIN files : f \notin {Skipped, Artifact} /\ files[f] # <<>>}
    IN [f \in written \cup {Primary} |->
            CASE f # Primary -> files[f]
              [] f = Primary /\ Replaced(files) -> files[Artifact]
              [] f = Primary /\ ~Replaced(files) -> IF files[f] = <<>> THEN Texts(lines) ELSE files[f]]

BadMarkers(lines) ==
    {i \in DOMAIN lines : /\ lines[i].marker
                          /\ \/ ~lines[i].safe
                             \/ \E j \in 1..(i-1) : lines[j].marker /\ lines[j].safe /\ lines[j].path = lines[i].path}

-----------------------------------------------------------------------------
(* The contracts. *)

\* Kinds whose docstring asks for decisions, and for an id of every main entry.
Strict == {"tdd", "review", "audit"}

\* What the docstrings call executable, said of the whole document at once.
Executable(kind, d) ==
    /\ d.main # <<>> /\ d.lists.complete
    /\ \A e \in ToSet(d.main \o d.decisions) : e.complete
    /\ \A e \in ToSet(d.decisions) : e.id # "none"
    /\ EntryRefs(d) \subseteq AllIds(d)
    /\ kind \in {"devops", "tdd", "review"} => d.lists.refs \subseteq AllIds(d)
    /\ kind \in Strict => d.decisions # <<>> /\ \A e \in ToSet(d.main) : e.id # "none"

\* What of it the validators never ask.
Unasked(kind, d) == kind \in Strict /\ (d.decisions = <<>> \/ \E e \in ToSet(d.main) : e.id = "none")

\* An architecture's one component must still be in a list.
WellFormed(kind, d) ==
    /\ \A e \in ToSet(d.main \o d.decisions) : e.object /\ e.id # "number"
    /\ d.shape = "list" \/ (d.shape = "object" /\ kind # "architecture")
NamesItsDecision(d) == \E t \in EntryRefs(d) : t \in Ids(d.decisions) \ Ids(d.main)

\* The board stays honest about a blueprint: a well-formed document that is noted is
\* not executable, and one that is not executable is noted, unless all that is missing
\* may be what the docstring asks and the validator does not.  An entry of the wrong
\* shape makes the validator raise and the note is lost; an architecture that names its
\* own decision is noted though nothing is missing; a design is never noted.
BlueprintNoted(kind, d) ==
    WellFormed(kind, d) /\ kind # "design" /\ ~(kind = "architecture" /\ NamesItsDecision(d))
        => /\ Noted(kind, d) => ~Executable(kind, d)
           /\ ~Executable(kind, d) => Noted(kind, d) \/ Unasked(kind, d)

\* A plan passes exactly when it is complete and traced both ways: every task to
\* something declared, everything declared to a task.
PlanTraced(p) ==
    PlanExecutableIssues(p) = {} <=>
        /\ p.parsed /\ p.sections /\ p.tasks # <<>>
        /\ \A t \in ToSet(p.tasks) : /\ t.reqs \cup t.acs # {}
                                     /\ t.reqs \subseteq p.reqs /\ t.acs \subseteq p.acs
                                     /\ \A u \in t.deps : \E s \in ToSet(p.tasks) : s.id = u
        /\ \A r \in p.reqs : \E t \in ToSet(p.tasks) : r \in t.reqs
        /\ \A a \in p.acs : \E t \in ToSet(p.tasks) : a \in t.acs

\* Where the auditor passes a page, the builder's own gate would build it again only for
\* its looks or a code fence in front of it, which no gate of the audit covers, and for
\* those it would: the gates and the weights of the grade agree on the rest, though
\* neither reads the other's rule.
PassIsSound(p) ==
    AuditVerdict(AuditContract(p)) = "pass" => (RebuildWanted(p) <=> p.fenced \/ "poor looks" \in p.defects)

\* A pack with at most one bad marker loses no line and keeps each file's order, and
\* without one every line lies in the workspace, but for a primary part another part
\* with its name is written over.  A second bad marker starts the parked part over,
\* and what was parked is lost.
PackKept(lines) ==
    LET files == SplitArtifact(lines)
        disk == SplitPack(lines)
        n == Len(Texts(lines))
    IN /\ Cardinality(BadMarkers(lines)) <= 1 =>
              /\ n = MapThenSumSet(LAMBDA f : Len(files[f]), DOMAIN files)
              /\ \A f \in DOMAIN files : \E i \in 1..(Len(lines) + 1) : \A k \in DOMAIN files[f] :
                     lines[i + k - 1].marker = FALSE /\ lines[i + k - 1].text = files[f][k]
       /\ BadMarkers(lines) = {} =>
              MapThenSumSet(LAMBDA f : Len(disk[f]), DOMAIN disk)
                  >= n - (IF Replaced(files) THEN Len(files[Primary]) ELSE 0)
=============================================================================
