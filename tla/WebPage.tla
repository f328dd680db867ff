------------------------------ MODULE WebPage ------------------------------
(***************************************************************************)
(* A generated web page as its deterministic checks see it: what the page  *)
(* audit reports, the grade, the gaps the bounded patches fill, and what   *)
(* makes the builder start over.                                           *)
(*                                                                         *)
(* A page keeps what the checks tell apart.  A section is missing, an      *)
(* empty shell (in a section element or in a div) or full, the other       *)
(* defects are names, and "top" is the anchor the nav patch adds.          *)
(***************************************************************************)
EXTENDS Integers, FiniteSets, FiniteSetsExt

CONSTANT Sections       \* ids of sections a page may have

ASSUME PageAssumption == IsFiniteSet(Sections)

Top == "top"
Targets == Sections \cup {Top}

\* Defects no patch mends.  "poor looks" is any of the six rules of the visual audit
\* and a black page; the last is reported in words no list of hard issues begins with.
Structure == {"sandbox-unsafe", "no <style> block", "unclosed block"}
Defects == Structure \cup {"poor looks", "no readable text", "undefined CSS variable"}

\* What a page needs on a phone and for a screen reader.
Basics == {"viewport", "lang", "breakpoints"}

Page == [stub : BOOLEAN,            \* under 500 characters
         fenced : BOOLEAN,          \* begins with a code fence
         closed : BOOLEAN,          \* has </html>
         defects : SUBSET Defects,
         sections : [Sections -> {"none", "shell", "div", "full"}],
         nav : SUBSET Targets,      \* ids its links point at
         hash : BOOLEAN,            \* has href="#"
         basics : SUBSET Basics,    \* those it has
         room : SUBSET Basics,      \* those it has the tags for that they are patched into
         dangling : BOOLEAN,        \* refers to a file that is not there
         flaws : Nat]               \* further issues

Blank == [stub |-> TRUE, fenced |-> FALSE, closed |-> FALSE, defects |-> {"no <style> block"},
          sections |-> [s \in Sections |-> "none"], nav |-> {}, hash |-> FALSE,
          basics |-> {}, room |-> {}, dangling |-> FALSE, flaws |-> 0]

Elements(p) == {s \in Sections : p.sections[s] # "none"}
WebSectionIds(p) == {s \in Sections : p.sections[s] \in {"shell", "full"}}
Full(p) == {s \in Sections : p.sections[s] = "full"}

WebArtifactNeedsRepair(p) == p.stub \/ p.fenced \/ ~p.closed

\* At least 60% of the promised sections must hold copy, one at the least.
HollowNeed(n) == Max({1, (6 * n + 5) \div 10})

Issue(kind) == <<kind, "page">>

WebQaIssues(p) ==
    UNION {
        IF p.closed THEN {} ELSE {Issue("truncated")},
        IF p.stub THEN {Issue("too short")} ELSE {},
        {Issue(d) : d \in p.defects},
        IF p.hash THEN {Issue("dead link")} ELSE {},
        {<<"device", b>> : b \in Basics \ p.basics},
        {<<"broken anchor", t>> : t \in (p.nav \ Elements(p)) \ {Top}},
        {<<"unlinked section", s>> : s \in WebSectionIds(p) \ p.nav},
        IF Cardinality(p.nav) >= 2 /\ Cardinality(p.nav \cap Full(p)) < HollowNeed(Cardinality(p.nav))
        THEN {Issue("hollow page")} ELSE {},
        IF Cardinality(WebSectionIds(p)) >= 2 /\ Full(p) = {} THEN {Issue("skeleton page")} ELSE {}}

Kinds(issues) == {i[1] : i \in issues}

Anchors == {"broken anchor", "dead link"}
Content == {"hollow page", "skeleton page"}
Hard == {"truncated", "too short", "poor looks", "no readable text"} \cup Structure
            \cup Anchors \cup Content

WebContentIssue(issues) == Kinds(issues) \cap Content # {}
WebAnchorIssues(issues) == Kinds(issues) \cap (Anchors \cup {"unlinked section"}) # {}
WebQaStructuralRepair(issues) == Kinds(issues) \cap (Hard \ (Anchors \cup Content)) # {}
OnlyAnchorIssues(issues) == LET hard == Kinds(issues) \cap Hard IN hard # {} /\ hard \subseteq Anchors
WebQaShouldRepair(issues) == Kinds(issues) \cap Hard # {}

\* The weights of the grade.  Copy is "much" when a section is full; a page under 500
\* characters has no 800 to be read.
WebDeliverableScore(p) ==
    LET n == Cardinality(WebQaIssues(p)) + p.flaws
        raw == 100 - (IF WebQaShouldRepair(WebQaIssues(p)) THEN 55 ELSE 0) - Min({30, 6 * n})
                 + (IF p.closed THEN 10 ELSE 0)
                 + (IF WebSectionIds(p) # {} /\ WebSectionIds(p) \subseteq p.nav THEN 5 ELSE 0)
                 + (IF "no readable text" \in p.defects THEN -30
                    ELSE IF ~p.stub /\ Full(p) # {} THEN 10 ELSE 0)
                 + (IF "viewport" \in p.basics THEN 5 ELSE -5) + (IF "lang" \in p.basics THEN 5 ELSE -5)
                 + (IF "breakpoints" \in p.basics THEN 5 ELSE 0)
    IN Max({0, Min({100, raw})})

\* Sections the page's own links promise without copy, and sections of the
\* plan that are not on the page at all.
WebContentGap(p) == {s \in p.nav \ {Top} : p.sections[s] # "full"}
PlanContentMissing(p, promised) == {s \in promised : p.sections[s] = "none"}

BuilderExecutableIssues(p) ==
    UNION {IF p.closed THEN {} ELSE {"no closing </html>"},
           p.defects \cap {"no <style> block", "unclosed block"}}

\* The repair loop ends on a sound page, or on one only the patches can help.
RebuildWanted(p) ==
    LET issues == WebQaIssues(p)
    IN \/ WebArtifactNeedsRepair(p) \/ WebQaStructuralRepair(issues)
       \/ WebDeliverableScore(p) < 50 /\ ~OnlyAnchorIssues(issues) /\ ~WebContentIssue(issues)
=============================================================================
