---------------------------- MODULE AccountProofs ----------------------------
(***************************************************************************)
(* What holds of an account's pairing codes, of its erasure, of its        *)
(* sessions and of the marketplace it buys in, whatever the numbers of     *)
(* users, chats, codes, updates, ticks, reviewers, requests in flight,     *)
(* verdicts, threads, templates, prices and credits.                       *)
(***************************************************************************)
EXTENDS Pairing, Erasure, Sessions, Market, FiniteSums, FiniteSetTheorems, TLAPS

USE PairingAssumption

\* Cutting a time to its second takes off less than a second, and keeps the order.
LEMMA WholeBounds ==
  ASSUME NEW t \in Nat
  PROVE  Whole(t) \in Nat /\ Whole(t) <= t /\ t <= Whole(t) + PairSecond - 1
BY SMTT(60) DEF Whole

LEMMA StampBounds ==
  ASSUME NEW t \in Nat
  PROVE  Stamp(t) \in Nat /\ Stamp(t) <= t /\ (base = "sqlite" => Stamp(t) = t)
         /\ t <= Stamp(t) + (IF base = "sqlite" THEN 0 ELSE PairSecond - 1)
BY WholeBounds DEF Stamp

LEMMA WholeGrows ==
  ASSUME NEW s \in Nat, NEW t \in Nat, s <= t
  PROVE  Whole(s) <= Whole(t)
BY SMTT(60) DEF Whole

-----------------------------------------------------------------------------
(* The parts of the invariant. *)

\* A handler that acts on a code, or on an account, has one.
BotFits ==
    /\ bot.pc = "consume" => bot.code \in Codes
    /\ bot.pc \in {"deduct", "announce"} => bot.user \in Users

\* Statements of their own are PostgreSQL's, and a code is born after tick 0.
WebFits == \A u \in Users : web[u].pc # "idle" => base = "postgres" /\ web[u].at > 0

\* A row ends LinkTtl after its code was issued.
RowsAreIssued ==
    \A c \in Codes : codes[c].owner # Nobody =>
        born[c] # 0 /\ codes[c].expires = Stamp(born[c]) + LinkTtl

\* A code that may still be redeemed, or drawn, has not been.
UnusedIsFresh ==
    \A c \in Codes :
        (codes[c].owner # Nobody /\ ~codes[c].used) \/ (codes[c].owner = Nobody /\ born[c] = 0)
            => accepted[c] = {}

RedeemedInTime ==
    \A c \in Codes :
        /\ \A x, y \in accepted[c] : x = y
        /\ \A at \in accepted[c] :
            at <= born[c] + LinkTtl + (IF base = "sqlite" THEN 0 ELSE PairSecond - 1)

SingleActive ==
    base = "sqlite" => \A u \in Users : \A c, d \in Active(u, clock) : c = d

\* The credit that is with the bot, between the deduction and the launch.
Held(u) == IF bot.user = u /\ bot.pc \in {"announce", "launch"} THEN 1 ELSE 0

Charged ==
    \A u \in Users : /\ credit[u] + launched[u] + Held(u) <= Credits
                     /\ botFaults = 0 => credit[u] + launched[u] + Held(u) = Credits

CodeInv == WebFits /\ RowsAreIssued /\ UnusedIsFresh /\ RedeemedInTime /\ SingleActive
PairInv == PairingTypeOK /\ BotFits /\ Charged /\ LinkIsOneToOne /\ CodeInv

LEMMA PairStart == PairingInit => PairInv
<1> SUFFICES ASSUME PairingInit PROVE PairInv
  OBVIOUS
<1>1. AtRest \in Bot /\ AtRest.pc = "idle"
  BY DEF AtRest, Bot
<1>2. PairingTypeOK
  BY <1>1 DEF PairingInit, PairingTypeOK, NoCodeRow, Web
<1>3. BotFits /\ Charged /\ LinkIsOneToOne
  BY <1>1 DEF PairingInit, BotFits, Charged, Held, LinkIsOneToOne
<1>4. CodeInv
  BY
  DEF PairingInit, CodeInv, WebFits, RowsAreIssued, UnusedIsFresh, RedeemedInTime, SingleActive,
      NoCodeRow, Active
<1>5. QED
  BY <1>2, <1>3, <1>4 DEF PairInv

-----------------------------------------------------------------------------
(* The website's steps. *)

CodeRow == [owner : Users \cup {Nobody}, expires : Nat, used : BOOLEAN]

\* A purge keeps a row as it is or clears it.
LEMMA PurgeKeeps ==
  ASSUME PairingTypeOK, NEW at \in Nat
  PROVE  /\ PurgedCodes(at) \in [Codes -> CodeRow]
         /\ \A c \in Codes : PurgedCodes(at)[c] = NoCodeRow \/ PurgedCodes(at)[c] = codes[c]
         /\ \A c \in Codes : ~Dead(c, at) => PurgedCodes(at)[c] = codes[c]
<1>1. NoCodeRow \in CodeRow /\ codes \in [Codes -> CodeRow]
  BY DEF NoCodeRow, CodeRow, PairingTypeOK
<1>2. QED
  BY <1>1 DEF PurgedCodes

\* Issuing changes the codes and the requests only.
WebFrame == UNCHANGED <<base, links, credit, inbox, bot, clock, updates, botFaults, accepted, launched>>

LEMMA WebFrameKeeps ==
  ASSUME PairInv, WebFrame, CodeInv', web' \in [Users -> Web],
         codes' \in [Codes -> CodeRow], born' \in [Codes -> 0..PairTime]
  PROVE  PairInv'
BY DEF PairInv, WebFrame, PairingTypeOK, CodeRow, BotFits, Charged, Held, LinkIsOneToOne

LEMMA SqliteStep ==
  ASSUME PairInv, NEW u \in Users, NewCodeSqlite(u)
  PROVE  PairInv'
<1> USE DEF PairInv, CodeInv
<1>1. PICK c \in Drawable : /\ codes' = [PurgedCodes(clock) EXCEPT ![c] = FreshCode(u, clock)]
                            /\ born' = [born EXCEPT ![c] = clock]
  BY DEF NewCodeSqlite
<1>2. /\ base = "sqlite" /\ Active(u, clock) = {} /\ WebFrame /\ web' = web /\ clock > 0
      /\ clock \in 0..PairTime /\ clock \in Nat
  BY DEF NewCodeSqlite, WebFrame, PairingTypeOK
<1>3. c \in Codes /\ codes[c].owner = Nobody /\ born[c] = 0 /\ accepted[c] = {}
  BY <1>1 DEF Drawable, UnusedIsFresh
<1>4. FreshCode(u, clock) \in CodeRow
  BY <1>2 DEF FreshCode, CodeRow
<1>5. /\ codes' \in [Codes -> CodeRow] /\ codes'[c] = FreshCode(u, clock)
      /\ \A d \in Codes \ {c} : codes'[d] = NoCodeRow \/ codes'[d] = codes[d]
  BY <1>1, <1>2, <1>3, <1>4, PurgeKeeps
<1>6. born' \in [Codes -> 0..PairTime] /\ born'[c] = clock /\ \A d \in Codes \ {c} : born'[d] = born[d]
  BY <1>1, <1>2, <1>3 DEF PairingTypeOK
<1>7. WebFits'
  BY <1>2 DEF WebFits, WebFrame
<1>8. RowsAreIssued'
  <2>1. Stamp(clock) = clock
    BY <1>2 DEF Stamp
  <2>2. \A t : Stamp(t)' = Stamp(t)
    BY <1>2 DEF Stamp, Whole, WebFrame
  <2>3. QED
    BY <1>2, <1>5, <1>6, <2>1, <2>2
    DEF RowsAreIssued, Stamp, Whole, FreshCode, NoCodeRow, WebFrame
<1>9. UnusedIsFresh'
  BY <1>2, <1>3, <1>5, <1>6 DEF UnusedIsFresh, RowsAreIssued, FreshCode, NoCodeRow, WebFrame
<1>10. RedeemedInTime'
  BY <1>2, <1>3, <1>6 DEF RedeemedInTime, WebFrame
<1>11. SingleActive'
  BY <1>2, <1>3, <1>5 DEF SingleActive, Active, Dead, FreshCode, NoCodeRow, WebFrame
<1>12. web' \in [Users -> Web]
  BY <1>2 DEF PairingTypeOK
<1>13. QED
  BY <1>2, <1>5, <1>6, <1>7, <1>8, <1>9, <1>10, <1>11, <1>12, WebFrameKeeps

LEMMA PostgresSteps ==
  ASSUME PairInv, NEW u \in Users, PurgeCodes(u) \/ LookForCode(u) \/ InsertCode(u)
  PROVE  PairInv'
<1> USE DEF PairInv, CodeInv
<1>1. clock \in 0..PairTime /\ clock \in Nat /\ web \in [Users -> Web]
      /\ codes \in [Codes -> CodeRow] /\ born \in [Codes -> 0..PairTime]
  BY DEF PairingTypeOK, CodeRow
<1>2. CASE PurgeCodes(u)
  <2>1. /\ base = "postgres" /\ WebFrame /\ born' = born /\ clock > 0
        /\ codes' = PurgedCodes(Whole(clock)) /\ web' = [web EXCEPT ![u] = [pc |-> "look", at |-> clock]]
    BY <1>2 DEF PurgeCodes, WebFrame, pairHistory
  <2>2. /\ codes' \in [Codes -> CodeRow]
        /\ \A d \in Codes : codes'[d] = NoCodeRow \/ codes'[d] = codes[d]
    BY <1>1, <2>1, PurgeKeeps, WholeBounds
  <2>3. [pc |-> "look", at |-> clock] \in Web
    BY <1>1 DEF Web
  <2>4. web' \in [Users -> Web] /\ WebFits'
    BY <1>1, <2>1, <2>3 DEF WebFits, WebFrame
  <2>5. RowsAreIssued'
    BY <2>1, <2>2 DEF RowsAreIssued, Stamp, Whole, NoCodeRow, WebFrame
  <2>6. UnusedIsFresh'
    BY <2>1, <2>2 DEF UnusedIsFresh, RowsAreIssued, NoCodeRow, WebFrame
  <2>7. RedeemedInTime' /\ SingleActive'
    BY <2>1 DEF RedeemedInTime, SingleActive, WebFrame
  <2>8. QED
    BY <1>1, <2>1, <2>2, <2>4, <2>5, <2>6, <2>7, WebFrameKeeps
<1>3. CASE LookForCode(u)
  <2>1. /\ web[u].pc = "look" /\ WebFrame /\ born' = born /\ codes' = codes
        /\ web' = [web EXCEPT ![u].pc = IF Active(u, Whole(web[u].at)) = {} THEN "insert" ELSE "idle"]
    BY <1>3 DEF LookForCode, WebFrame, pairHistory
  <2>2. web' \in [Users -> Web] /\ WebFits'
    BY <1>1, <2>1 DEF WebFits, Web, WebFrame
  <2>3. RowsAreIssued' /\ UnusedIsFresh' /\ RedeemedInTime'
    BY <2>1 DEF RowsAreIssued, UnusedIsFresh, RedeemedInTime, Stamp, Whole, WebFrame
  <2>4. SingleActive'
    BY <2>1 DEF SingleActive, Active, Dead, WebFrame
  <2>5. QED
    BY <1>1, <2>1, <2>2, <2>3, <2>4, WebFrameKeeps
<1>4. CASE InsertCode(u)
  <2> DEFINE at == web[u].at
  <2>1. PICK c \in Drawable : /\ codes' = [codes EXCEPT ![c] = FreshCode(u, Whole(at))]
                              /\ born' = [born EXCEPT ![c] = at]
    BY <1>4 DEF InsertCode
  <2>2. web[u].pc = "insert" /\ WebFrame /\ web' = [web EXCEPT ![u] = [pc |-> "idle", at |-> 0]]
    BY <1>4 DEF InsertCode, WebFrame
  <2>3. base = "postgres" /\ at > 0 /\ at \in 0..PairTime /\ at \in Nat
    BY <1>1, <2>2 DEF WebFits, Web
  <2>4. c \in Codes /\ codes[c].owner = Nobody /\ born[c] = 0 /\ accepted[c] = {}
    BY <2>1 DEF Drawable, UnusedIsFresh
  <2>5. FreshCode(u, Whole(at)) \in CodeRow
    BY <2>3, WholeBounds DEF FreshCode, CodeRow
  <2>6. /\ codes' \in [Codes -> CodeRow] /\ codes'[c] = FreshCode(u, Whole(at))
        /\ \A d \in Codes \ {c} : codes'[d] = codes[d]
    BY <1>1, <2>1, <2>4, <2>5
  <2>7. born' \in [Codes -> 0..PairTime] /\ born'[c] = at /\ \A d \in Codes \ {c} : born'[d] = born[d]
    BY <1>1, <2>1, <2>3, <2>4
  <2>8. web' \in [Users -> Web] /\ WebFits'
    BY <1>1, <2>2 DEF WebFits, Web, WebFrame
  <2>9. RowsAreIssued'
    BY <2>2, <2>3, <2>6, <2>7 DEF RowsAreIssued, Stamp, FreshCode, WebFrame
  <2>10. UnusedIsFresh' /\ RedeemedInTime' /\ SingleActive'
    BY <2>2, <2>3, <2>4, <2>6, <2>7
    DEF UnusedIsFresh, RedeemedInTime, SingleActive, FreshCode, WebFrame
  <2>11. QED
    BY <2>2, <2>6, <2>7, <2>8, <2>9, <2>10, WebFrameKeeps
<1>5. QED
  BY <1>2, <1>3, <1>4

-----------------------------------------------------------------------------
(* The bot's steps, the tick, and an account that drops its link. *)

\* What leaves the codes alone keeps what is known of them.
CodesFrame == UNCHANGED <<base, codes, web, clock, accepted, born>>

LEMMA CodesFrameKeeps ==
  ASSUME CodeInv, CodesFrame
  PROVE  CodeInv'
BY DEF CodeInv, CodesFrame, WebFits, RowsAreIssued, UnusedIsFresh, RedeemedInTime, SingleActive,
       Active, Dead, Stamp

\* The row of a code that is redeemed was alive, and is used from then on.
LEMMA ConsumeStep ==
  ASSUME PairInv, ConsumeCode
  PROVE  PairInv'
<1> DEFINE c == bot.code
           u == codes[c].owner
<1> USE DEF PairInv, CodeInv
<1>1. /\ bot.pc = "consume" /\ c \in Codes /\ bot' = AtRest /\ AtRest \in Bot /\ AtRest.pc = "idle"
      /\ UNCHANGED <<base, credit, web, inbox, clock, updates, botFaults, born, launched>>
  BY DEF ConsumeCode, BotFits, AtRest, Bot
<1>2. /\ clock \in Nat /\ clock \in 0..PairTime /\ codes \in [Codes -> CodeRow]
      /\ bot \in Bot /\ bot.chat \in Chats /\ links \in [Chats -> Users \cup {Nobody}]
      /\ accepted \in [Codes -> SUBSET (0..PairTime)] /\ born \in [Codes -> 0..PairTime]
      /\ base \in {"sqlite", "postgres"}
  BY DEF PairingTypeOK, CodeRow, Bot
<1>3. BotFits' /\ Charged'
  BY <1>1 DEF BotFits, Charged, Held
<1>4. CASE u = Nobody \/ Dead(c, Stamp(clock))
  <2>1. UNCHANGED <<codes, links, accepted>>
    BY <1>4 DEF ConsumeCode
  <2>2. CodeInv'
    BY <1>1, <2>1, CodesFrameKeeps DEF CodesFrame
  <2>3. QED
    BY <1>1, <1>2, <1>3, <2>1, <2>2 DEF PairingTypeOK, LinkIsOneToOne
<1>5. CASE ~(u = Nobody \/ Dead(c, Stamp(clock)))
  <2>1. /\ links' = [h \in Chats |-> IF h = bot.chat THEN u ELSE IF links[h] = u THEN Nobody ELSE links[h]]
        /\ codes' = [PurgedCodes(Stamp(clock)) EXCEPT ![c].used = TRUE]
        /\ accepted' = [accepted EXCEPT ![c] = accepted[c] \cup {clock}]
    BY <1>5 DEF ConsumeCode
  <2>2. /\ u \in Users /\ ~codes[c].used /\ ~(codes[c].expires < Stamp(clock)) /\ codes[c].expires \in Nat
    BY <1>1, <1>2, <1>5 DEF Dead, CodeRow
  <2>3. accepted[c] = {}
    BY <1>1, <1>5, <2>2 DEF UnusedIsFresh
  <2>4. Stamp(clock) \in Nat
    BY <1>2, StampBounds
  <2>5. /\ PurgedCodes(Stamp(clock)) \in [Codes -> CodeRow]
        /\ \A d \in Codes : PurgedCodes(Stamp(clock))[d] = NoCodeRow \/ PurgedCodes(Stamp(clock))[d] = codes[d]
        /\ PurgedCodes(Stamp(clock))[c] = codes[c]
    BY <1>1, <1>5, <2>4, PurgeKeeps
  <2>6. [codes[c] EXCEPT !.used = TRUE] \in CodeRow
    <3>1. codes[c] \in CodeRow
      BY <1>1, <1>2
    <3>2. QED
      BY <3>1 DEF CodeRow
  <2>7. /\ codes' \in [Codes -> CodeRow]
        /\ codes'[c] = [codes[c] EXCEPT !.used = TRUE]
        /\ \A d \in Codes \ {c} : codes'[d] = NoCodeRow \/ codes'[d] = codes[d]
    BY <1>1, <2>1, <2>5, <2>6
  <2>8. codes'[c].used /\ codes'[c].owner = u /\ codes'[c].expires = codes[c].expires
    BY <1>1, <1>2, <2>7 DEF CodeRow
  <2>9. /\ accepted' \in [Codes -> SUBSET (0..PairTime)] /\ accepted'[c] = {clock}
        /\ \A d \in Codes \ {c} : accepted'[d] = accepted[d]
    BY <1>1, <1>2, <2>1, <2>3
  <2>10. links' \in [Chats -> Users \cup {Nobody}]
    BY <1>2, <2>1, <2>2
  <2>11. LinkIsOneToOne'
    BY <1>2, <2>1, <2>2 DEF LinkIsOneToOne
  <2>12. PairingTypeOK'
    BY <1>1, <2>7, <2>9, <2>10 DEF PairingTypeOK, CodeRow
  <2>13. WebFits'
    BY <1>1 DEF WebFits
  <2>14. RowsAreIssued'
    <3>1. born[c] # 0 /\ codes[c].expires = Stamp(born[c]) + LinkTtl
      BY <1>1, <1>5 DEF RowsAreIssued
    <3>2. \A t : Stamp(t)' = Stamp(t)
      BY <1>1 DEF Stamp
    <3>3. ASSUME NEW d \in Codes, codes'[d].owner # Nobody
          PROVE  born[d] # 0 /\ codes'[d].expires = Stamp(born[d]) + LinkTtl
      <4>1. CASE d = c
        BY <2>8, <3>1, <4>1
      <4>2. CASE d # c
        BY <2>7, <3>3, <4>2 DEF RowsAreIssued, NoCodeRow
      <4>3. QED
        BY <4>1, <4>2
    <3>4. QED
      BY <1>1, <3>2, <3>3 DEF RowsAreIssued
  <2>15. UnusedIsFresh'
    <3>1. born[c] # 0 /\ u # Nobody
      BY <1>1, <1>5 DEF RowsAreIssued
    <3>2. ASSUME NEW d \in Codes,
                 (codes'[d].owner # Nobody /\ ~codes'[d].used) \/ (codes'[d].owner = Nobody /\ born[d] = 0)
          PROVE  accepted'[d] = {}
      <4>1. d # c
        BY <2>8, <3>1, <3>2
      <4>2. codes'[d] = NoCodeRow \/ codes'[d] = codes[d]
        BY <2>7, <4>1
      <4>3. accepted[d] = {}
        BY <3>2, <4>2 DEF UnusedIsFresh, RowsAreIssued, NoCodeRow
      <4>4. QED
        BY <2>9, <4>1, <4>3
    <3>3. QED
      BY <1>1, <3>2 DEF UnusedIsFresh
  <2>16. RedeemedInTime'
    <3> DEFINE slack == IF base = "sqlite" THEN 0 ELSE PairSecond - 1
    <3>1. codes[c].expires = Stamp(born[c]) + LinkTtl /\ born[c] \in Nat
      BY <1>1, <1>2, <1>5 DEF RowsAreIssued
    <3>2. Stamp(born[c]) <= born[c] /\ clock <= Stamp(clock) + slack /\ Stamp(born[c]) \in Nat
      BY <1>2, <3>1, StampBounds
    <3>3. slack \in Nat
      OBVIOUS
    <3>4. clock <= born[c] + LinkTtl + slack
      <4> HIDE DEF slack, c
      <4> QED
        BY <1>2, <2>2, <2>4, <3>1, <3>2, <3>3
    <3>5. QED
      BY <1>1, <2>9, <3>4 DEF RedeemedInTime
  <2>17. SingleActive'
    <3>1. ASSUME NEW v \in Users, NEW d \in Codes, codes'[d].owner = v, ~codes'[d].used
          PROVE  codes'[d] = codes[d]
      <4>1. d # c
        BY <2>8, <3>1
      <4>2. QED
        BY <2>7, <3>1, <4>1 DEF NoCodeRow
    <3>2. \A v \in Users : Active(v, clock)' \subseteq Active(v, clock)
      BY <1>1, <3>1 DEF Active, Dead
    <3>3. QED
      BY <1>1, <3>2 DEF SingleActive
  <2>18. QED
    BY <1>3, <2>11, <2>12, <2>13, <2>14, <2>15, <2>16, <2>17
<1>6. QED
  BY <1>4, <1>5

LEMMA TickStep ==
  ASSUME PairInv, PairTick
  PROVE  PairInv'
<1>1. /\ clock < PairTime /\ clock' = clock + 1 /\ clock \in 0..PairTime
      /\ UNCHANGED <<base, codes, links, credit, web, inbox, bot, updates, botFaults, accepted, born, launched>>
  BY DEF PairInv, PairTick, PairingTypeOK, pairHistory
<1>2. PairingTypeOK' /\ BotFits' /\ Charged' /\ LinkIsOneToOne'
  BY <1>1 DEF PairInv, PairingTypeOK, BotFits, Charged, Held, LinkIsOneToOne
<1>3. WebFits' /\ RowsAreIssued' /\ UnusedIsFresh' /\ RedeemedInTime'
  BY <1>1 DEF PairInv, CodeInv, WebFits, RowsAreIssued, UnusedIsFresh, RedeemedInTime, Stamp
<1>4. \A c \in Codes : codes[c].expires \in Nat
  BY DEF PairInv, PairingTypeOK
<1>5. SingleActive'
  BY <1>1, <1>4 DEF PairInv, CodeInv, SingleActive, Active, Dead
<1>6. QED
  BY <1>2, <1>3, <1>5 DEF PairInv, CodeInv

\* Everything else leaves the codes alone.
LEMMA BotStepKeeps ==
  ASSUME PairInv,
         (\E u \in Users : Unlink(u)) \/ (\E m \in Update : Receive(m)) \/ Take \/ Deduct \/ Announce
            \/ LaunchRuns \/ LaunchFails \/ PollEnds \/ BotFails \/ UNCHANGED pairVars
  PROVE  PairInv'
<1> USE DEF PairInv
<1>1. CodesFrame
  BY
  DEF Unlink, Receive, Take, Deduct, Announce, LaunchRuns, LaunchFails, PollEnds, BotFails,
      pairVars, pairHistory, CodesFrame
<1>2. CodeInv'
  BY <1>1, CodesFrameKeeps
<1>3. /\ AtRest \in Bot /\ AtRest.pc = "idle" /\ bot \in Bot /\ inbox \in Seq(Update)
      /\ links \in [Chats -> Users \cup {Nobody}] /\ credit \in [Users -> 0..Credits]
      /\ launched \in [Users -> Nat] /\ updates \in 0..MaxUpdates /\ botFaults \in 0..MaxBotFaults
  BY DEF AtRest, Bot, PairingTypeOK
<1>4. \A pc \in {"idle", "consume", "deduct", "announce", "launch", "poll"} : [bot EXCEPT !.pc = pc] \in Bot
  BY <1>3 DEF Bot
<1>5. ASSUME UNCHANGED <<credit, launched, botFaults>> \/ (UNCHANGED <<credit, launched>> /\ botFaults' = botFaults + 1),
             \A u \in Users : Held(u)' <= Held(u) /\ Held(u)' \in Nat,
             botFaults' = botFaults => \A u \in Users : Held(u)' = Held(u)
      PROVE  Charged'
  <2>1. \A u \in Users : Held(u) \in 0..1 /\ credit[u] \in Nat /\ launched[u] \in Nat
    BY <1>3 DEF Held
  <2>2. botFaults \in Nat
    BY <1>3
  <2>3. QED
    BY <1>5, <2>1, <2>2 DEF Charged
<1>6. ASSUME NEW u \in Users, Unlink(u) PROVE PairInv'
  <2>1. /\ links' = [c \in Chats |-> IF links[c] = u THEN Nobody ELSE links[c]]
        /\ UNCHANGED <<base, codes, credit, web, inbox, bot, clock, updates, botFaults, accepted, born, launched>>
    BY <1>6 DEF Unlink, pairHistory
  <2>2. PairingTypeOK' /\ LinkIsOneToOne'
    BY <1>3, <2>1 DEF PairingTypeOK, LinkIsOneToOne
  <2>3. QED
    BY <1>2, <2>1, <2>2 DEF BotFits, Charged, Held
<1>7. ASSUME NEW m \in Update, Receive(m) PROVE PairInv'
  <2>1. /\ updates < MaxUpdates /\ updates' = updates + 1 /\ inbox' = Append(inbox, m)
        /\ UNCHANGED <<base, codes, links, credit, web, bot, clock, botFaults, accepted, born, launched>>
    BY <1>7 DEF Receive, pairHistory
  <2>2. inbox' \in Seq(Update) /\ updates' \in 0..MaxUpdates
    BY <1>3, <1>7, <2>1
  <2>3. QED
    BY <1>2, <2>1, <2>2 DEF PairingTypeOK, BotFits, Charged, Held, LinkIsOneToOne
<1>8. CASE Take
  <2> DEFINE m == Head(inbox)
  <2>1. /\ bot.pc = "idle" /\ inbox # <<>> /\ inbox' = Tail(inbox)
        /\ bot' = IF m.kind = "link"
                  THEN [AtRest EXCEPT !.pc = "consume", !.chat = m.chat, !.code = m.code]
                  ELSE [AtRest EXCEPT !.pc = IF links[m.chat] = Nobody THEN "launch" ELSE "deduct",
                                      !.chat = m.chat, !.user = links[m.chat]]
        /\ UNCHANGED <<base, codes, links, credit, web, clock, updates, botFaults, accepted, born, launched>>
    BY <1>8 DEF Take, pairHistory
  <2>2. m \in Update /\ inbox' \in Seq(Update)
    BY <1>3, <2>1
  <2>3. m.chat \in Chats /\ (m.kind = "link" => m.code \in Codes)
    BY <2>2 DEF Update
  <2>4. bot' \in Bot /\ BotFits' /\ bot'.pc \in {"consume", "deduct", "launch"}
        /\ (bot'.pc = "launch" => bot'.user = Nobody)
    BY <1>3, <2>1, <2>3 DEF Bot, BotFits, AtRest
  <2>5. \A u \in Users : Held(u) = 0 /\ Held(u)' = 0
    BY <2>1, <2>4 DEF Held
  <2>6. Charged'
    BY <1>5, <2>1, <2>5
  <2>7. QED
    BY <1>2, <2>1, <2>2, <2>4, <2>6 DEF PairingTypeOK, LinkIsOneToOne
<1>9. CASE Deduct
  <2>1. bot.pc = "deduct" /\ bot.user \in Users
        /\ UNCHANGED <<base, codes, links, web, inbox, clock, updates, botFaults, accepted, born, launched>>
    BY <1>9 DEF Deduct, BotFits, pairHistory
  <2>2. CASE credit[bot.user] > 0
    <3>1. credit' = [credit EXCEPT ![bot.user] = credit[bot.user] - 1] /\ bot' = [bot EXCEPT !.pc = "announce"]
      BY <1>9, <2>2 DEF Deduct
    <3>2. bot' \in Bot /\ bot'.user = bot.user /\ bot'.pc = "announce"
      BY <1>3, <1>4, <3>1 DEF Bot
    <3>3. credit' \in [Users -> 0..Credits]
      BY <1>3, <2>1, <2>2, <3>1, SMTT(30)
    <3>4. ASSUME NEW u \in Users PROVE credit'[u] + Held(u)' = credit[u] + Held(u)
      BY <1>3, <2>1, <3>1, <3>2, SMTT(30) DEF Held
    <3>5. \A u \in Users : credit[u] \in Nat /\ credit'[u] \in Nat /\ launched[u] \in Nat /\ Held(u) \in Nat /\ Held(u)' \in Nat
      BY <1>3, <3>3 DEF Held
    <3>6. ASSUME NEW u \in Users
          PROVE  /\ credit'[u] + launched'[u] + Held(u)' <= Credits
                 /\ botFaults' = 0 => credit'[u] + launched'[u] + Held(u)' = Credits
      <4>1. credit[u] + launched[u] + Held(u) <= Credits /\ (botFaults = 0 => credit[u] + launched[u] + Held(u) = Credits)
        BY DEF Charged
      <4>2. credit'[u] + launched'[u] + Held(u)' = credit[u] + launched[u] + Held(u)
        <5> HIDE DEF PairInv
        <5>1. /\ credit'[u] + Held(u)' = credit[u] + Held(u) /\ launched'[u] = launched[u]
              /\ credit[u] \in Nat /\ credit'[u] \in Nat /\ launched[u] \in Nat /\ Held(u) \in Nat /\ Held(u)' \in Nat
          BY <2>1, <3>4, <3>5
        <5>2. QED
          BY <5>1, SMTT(30)
      <4>3. QED
        BY <2>1, <4>1, <4>2
    <3>7. Charged'
      BY <3>6 DEF Charged
    <3>8. QED
      BY <1>2, <2>1, <3>2, <3>3, <3>7 DEF PairingTypeOK, BotFits, LinkIsOneToOne
  <2>3. CASE ~(credit[bot.user] > 0)
    <3>1. credit' = credit /\ bot' = AtRest
      BY <1>9, <2>3 DEF Deduct
    <3>2. \A u \in Users : Held(u) = 0 /\ Held(u)' = 0
      BY <1>3, <2>1, <3>1 DEF Held
    <3>3. Charged'
      BY <1>5, <2>1, <3>1, <3>2
    <3>4. QED
      BY <1>2, <1>3, <2>1, <3>1, <3>3 DEF PairingTypeOK, BotFits, LinkIsOneToOne
  <2>4. QED
    BY <2>2, <2>3
<1>10. CASE Announce
  <2>1. /\ bot.pc = "announce" /\ bot' = [bot EXCEPT !.pc = "launch"]
        /\ UNCHANGED <<base, codes, links, credit, web, inbox, clock, updates, botFaults, accepted, born, launched>>
    BY <1>10 DEF Announce, pairHistory
  <2>2. bot' \in Bot /\ bot'.user = bot.user /\ bot'.pc = "launch"
    BY <1>3, <1>4, <2>1 DEF Bot
  <2>3. Charged'
    BY <1>5, <2>1, <2>2 DEF Held
  <2>4. QED
    BY <1>2, <2>1, <2>2, <2>3 DEF PairingTypeOK, BotFits, LinkIsOneToOne
<1>11. CASE LaunchRuns
  <2>1. /\ bot.pc = "launch" /\ bot' = [bot EXCEPT !.pc = "poll"] /\ credit' = credit
        /\ launched' = IF bot.user = Nobody THEN launched ELSE [launched EXCEPT ![bot.user] = launched[bot.user] + 1]
        /\ UNCHANGED <<base, codes, links, web, inbox, clock, updates, botFaults, accepted, born>>
    BY <1>11 DEF LaunchRuns
  <2>2. bot' \in Bot /\ bot'.user = bot.user /\ bot'.pc = "poll"
    BY <1>3, <1>4, <2>1 DEF Bot
  <2>3. launched' \in [Users -> Nat]
    BY <1>3, <2>1, SMTT(30) DEF Bot
  <2>4. ASSUME NEW u \in Users PROVE launched'[u] + Held(u)' = launched[u] + Held(u)
    BY <1>3, <2>1, <2>2, SMTT(30) DEF Held, Bot
  <2>5. \A u \in Users : credit[u] \in Nat /\ launched[u] \in Nat /\ launched'[u] \in Nat /\ Held(u) \in Nat /\ Held(u)' \in Nat
    BY <1>3, <2>3 DEF Held
  <2>6. \A u \in Users : credit[u] + launched'[u] + Held(u)' = credit[u] + launched[u] + Held(u)
    BY <2>4, <2>5
  <2>7. Charged'
    BY <2>1, <2>6 DEF Charged
  <2>8. QED
    BY <1>2, <2>1, <2>2, <2>3, <2>7 DEF PairingTypeOK, BotFits, LinkIsOneToOne
<1>12. CASE LaunchFails
  <2>1. /\ bot.pc = "launch" /\ bot' = AtRest
        /\ credit' = IF bot.user = Nobody THEN credit ELSE [credit EXCEPT ![bot.user] = credit[bot.user] + 1]
        /\ UNCHANGED <<base, codes, links, web, inbox, clock, updates, botFaults, accepted, born, launched>>
    BY <1>12 DEF LaunchFails, pairHistory
  <2>2. \A u \in Users : Held(u) = (IF bot.user = u THEN 1 ELSE 0) /\ Held(u)' = 0
    BY <1>3, <2>1 DEF Held
  <2>3. \A u \in Users : credit[u] \in Nat /\ launched[u] \in Nat
    BY <1>3
  <2>4. \A u \in Users : credit[u] + Held(u) <= Credits
    BY <2>2, <2>3 DEF Charged
  <2>5. credit' \in [Users -> 0..Credits]
    BY <1>3, <2>1, <2>2, <2>4 DEF Bot
  <2>6. ASSUME NEW u \in Users PROVE credit'[u] + Held(u)' = credit[u] + Held(u)
    BY <1>3, <2>1, <2>2
  <2>7. \A u \in Users : credit'[u] \in Nat /\ Held(u) \in Nat /\ Held(u)' \in Nat
    BY <2>2, <2>5
  <2>8. Charged'
    BY <2>1, <2>3, <2>6, <2>7 DEF Charged
  <2>9. QED
    BY <1>2, <1>3, <2>1, <2>5, <2>8 DEF PairingTypeOK, BotFits, LinkIsOneToOne
<1>13. CASE PollEnds
  <2>1. /\ bot.pc = "poll" /\ bot' = AtRest
        /\ UNCHANGED <<base, codes, links, credit, web, inbox, clock, updates, botFaults, accepted, born, launched>>
    BY <1>13 DEF PollEnds, pairHistory
  <2>2. \A u \in Users : Held(u) = 0 /\ Held(u)' = 0
    BY <1>3, <2>1 DEF Held
  <2>3. Charged'
    BY <1>5, <2>1, <2>2
  <2>4. QED
    BY <1>2, <1>3, <2>1, <2>3 DEF PairingTypeOK, BotFits, LinkIsOneToOne
<1>14. CASE BotFails
  <2>1. /\ botFaults < MaxBotFaults /\ botFaults' = botFaults + 1 /\ bot' = AtRest
        /\ UNCHANGED <<base, codes, links, credit, web, inbox, clock, updates, accepted, born, launched>>
    BY <1>14 DEF BotFails, pairHistory
  <2>2. /\ \A u \in Users : Held(u)' = 0 /\ Held(u) \in 0..1
        /\ botFaults' # botFaults /\ botFaults' \in 0..MaxBotFaults
    BY <1>3, <2>1 DEF Held
  <2>3. Charged'
    BY <1>5, <2>1, <2>2
  <2>4. QED
    BY <1>2, <1>3, <2>1, <2>2, <2>3 DEF PairingTypeOK, BotFits, LinkIsOneToOne
<1>15. CASE UNCHANGED pairVars
  BY <1>2, <1>15
  DEF pairVars, pairHistory, PairingTypeOK, BotFits, Charged, Held, LinkIsOneToOne
<1>16. QED
  BY <1>6, <1>7, <1>8, <1>9, <1>10, <1>11, <1>12, <1>13, <1>14, <1>15

\* An account has one chat and, on SQLite, one active code; a code is redeemed
\* once and in time; a credit the bot took is a board launched, unless the bot
\* died with it (db.py's and db_postgres.py's codes and links, telegram_bot.py).
THEOREM PairingSafe == PairingSpec => []PairingKept
<1>1. ASSUME PairInv, [PairingNext]_pairVars PROVE PairInv'
  BY <1>1, SqliteStep, PostgresSteps, ConsumeStep, TickStep, BotStepKeeps
  DEF PairingNext, BotStep
<1>2. PairInv => PairingKept
  <2> SUFFICES ASSUME PairInv PROVE PairingKept
    OBVIOUS
  <2>1. ASSUME NEW S, S \subseteq Codes \/ S \subseteq 0..PairTime, \A x, y \in S : x = y
        PROVE  Cardinality(S) <= 1
    <3>1. CASE S = {}
      BY <3>1, FS_EmptySet
    <3>2. CASE \E x \in S : S = {x}
      <4>1. PICK x \in S : S = {x}
        BY <3>2
      <4>2. Cardinality({x}) = 1
        BY FS_Singleton
      <4>3. QED
        BY <4>1, <4>2
    <3>3. QED
      BY <2>1, <3>1, <3>2
  <2>2. OneActiveCode
    BY <2>1 DEF OneActiveCode, PairInv, CodeInv, SingleActive, Active
  <2>3. \A c \in Codes : Cardinality(accepted[c]) <= 1
    BY <2>1 DEF PairInv, CodeInv, RedeemedInTime, PairingTypeOK
  <2>4. CodeIsOneTime
    BY <2>3 DEF CodeIsOneTime, PairInv, CodeInv, RedeemedInTime
  <2>5. BotChargesLaunches
    BY DEF BotChargesLaunches, PairInv, Charged, Held
  <2>6. QED
    BY <2>2, <2>4, <2>5 DEF PairInv, PairingKept
<1>3. QED
  BY PairStart, <1>1, <1>2, PTL DEF PairingSpec

HIDE PairingAssumption

-----------------------------------------------------------------------------
(* Erasure: any number of reviewers, requests in flight and verdicts.      *)

USE ErasureAssumption

DeletesLeft == erasure.pc \notin {"boards", "answered", "raised"} => erasure.at <= Len(OrderPostgres)

\* What a template sold refers to is there, on SQLite.
SoldHasTemplate == db = "sqlite" /\ "sold" \in rows => "templates" \in rows

RowsGone == db = "sqlite" /\ erasure.pc \in {"boards", "answered"} /\ ~late => rows \subseteq {"referrals"}
KeyGone == erasure.pc \in {"sql", "boards", "answered"} /\ ~late => "mine" \notin vault

\* Until two writers of byok.json crossed there is one at a time, and it holds the file.
OneWriter ==
    ~crossed =>
        /\ erasure.pc = "save" => erasure.loaded = vault
        /\ \A a \in Accounts : keyOp[a].pc = "save" =>
            /\ keyOp[a].loaded = vault /\ erasure.pc # "save"
            /\ \A b \in Accounts : keyOp[b].pc = "save" => b = a

\* A review is asked for once, and answered once.
ReviewOnce ==
    /\ "reviews" \in asked => review = "none"
    /\ notified # <<>> => Len(notified) = 1 /\ review = notified[1]

ErasureInv ==
    /\ ErasureTypeOK /\ DeletesLeft /\ SoldHasTemplate /\ RowsGone /\ KeyGone /\ OneWriter /\ ReviewOnce

LEMMA ErasureStart == ErasureInit => ErasureInv
<1> SUFFICES ASSUME ErasureInit PROVE ErasureInv
  OBVIOUS
<1>1. erasure \in ErasureState /\ erasure.pc = "idle" /\ erasure.at = 1
  BY DEF ErasureInit, ErasureState
<1>2. keyOp \in [Accounts -> KeyOp] /\ \A a \in Accounts : keyOp[a].pc = "idle"
  BY DEF ErasureInit, KeyOp
<1>3. notified \in Seq(Verdict) /\ rows \in SUBSET Kinds /\ verdicts \in 0..MaxVerdicts
  BY DEF ErasureInit
<1>4. ErasureTypeOK
  BY <1>1, <1>2, <1>3 DEF ErasureInit, ErasureTypeOK
<1>5. Len(OrderPostgres) = 11
  BY DEF OrderPostgres
<1>6. QED
  BY <1>1, <1>2, <1>4, <1>5
  DEF ErasureInit, ErasureInv, DeletesLeft, SoldHasTemplate, RowsGone, KeyGone, OneWriter,
      ReviewOnce

\* The list of DELETEs names every kind of row but the two that go with others'.
LEMMA ListIsWhole ==
  ASSUME NEW present, present \subseteq AllKinds
  PROVE  present \ Listed(OrderSqlite, Len(OrderSqlite)) \subseteq {"sold", "referrals"}
<1>1. Len(OrderSqlite) = 12
  BY DEF OrderSqlite
<1>2. Listed(OrderSqlite, Len(OrderSqlite)) = UNION {OrderSqlite[i] : i \in 1..12}
  BY <1>1 DEF Listed
<1>3. \A i \in 1..12 : OrderSqlite[i] \subseteq Listed(OrderSqlite, Len(OrderSqlite))
  BY <1>2
<1>4. /\ OrderSqlite[1] = {"projects"} /\ OrderSqlite[2] = {"templates"} /\ OrderSqlite[3] = {"purchases"}
      /\ OrderSqlite[5] = {"payments"} /\ OrderSqlite[6] = {"links"} /\ OrderSqlite[7] = {"codes"}
      /\ OrderSqlite[8] = {"resets"} /\ OrderSqlite[9] = {"agreements"} /\ OrderSqlite[10] = {"acks", "reviews"}
      /\ OrderSqlite[11] = {"agents"} /\ OrderSqlite[12] = {"user"}
  BY DEF OrderSqlite
<1>5. 1 \in 1..12 /\ 2 \in 1..12 /\ 3 \in 1..12 /\ 5 \in 1..12 /\ 6 \in 1..12 /\ 7 \in 1..12 /\ 8 \in 1..12
      /\ 9 \in 1..12 /\ 10 \in 1..12 /\ 11 \in 1..12 /\ 12 \in 1..12
  OBVIOUS
<1>6. AllKinds \ {"sold", "referrals"} \subseteq Listed(OrderSqlite, Len(OrderSqlite))
  BY <1>3, <1>4, <1>5 DEF AllKinds
<1>7. QED
  BY <1>6

\* A template that was sold holds its own DELETE back.
LEMMA SoldHoldsBack ==
  ASSUME db = "sqlite", "sold" \in rows, "templates" \in rows
  PROVE  AnyHeldBack(OrderSqlite)
<1>1. 2 \in DOMAIN OrderSqlite /\ OrderSqlite[2] = {"templates"} /\ OrderSqlite[1] = {"projects"}
  BY DEF OrderSqlite
<1>2. Listed(OrderSqlite, 2 - 1) = {"projects"}
  <2>1. 1..(2 - 1) = {1}
    OBVIOUS
  <2>2. QED
    BY <1>1, <2>1 DEF Listed
<1>3. "templates" \in Refers("sold") /\ ~Cascades("sold")
  BY DEF Refers, RefersSqlite, Cascades
<1>4. HeldBack({"templates"}, rows \ {"projects"})
  BY <1>3 DEF HeldBack, Holding
<1>5. QED
  BY <1>1, <1>2, <1>4 DEF AnyHeldBack

\* Requests of the account, its buyers and its friends.
LEMMA RequestSteps ==
  ASSUME ErasureInv,
         (\E k \in Kinds : Ask(k) \/ AddRow(k)) \/ RequestReview \/ Sell \/ Refer \/ UNCHANGED erasureVars
  PROVE  ErasureInv'
<1> USE DEF ErasureInv, erasureHistory
<1>1. ASSUME NEW k \in Kinds, Ask(k) PROVE ErasureInv'
  <2>1. ErasureTypeOK'
    BY <1>1 DEF Ask, ErasureTypeOK
  <2>2. QED
    BY <1>1, <2>1
    DEF Ask, DeletesLeft, SoldHasTemplate, RowsGone, KeyGone, OneWriter, ReviewOnce
<1>2. ASSUME NEW k \in Kinds, Insert(k), review' = review \/ (k = "reviews" /\ review' = "requested"),
             k = "reviews" => review = "none"
      PROVE  ErasureInv'
  <2>1. /\ rows' = rows \cup {k} \/ rows' = rows
        /\ k \in asked /\ asked' = asked \ {k} /\ late' = (late \/ "user" \notin rows)
        /\ (k \in rows' \/ rows' = rows) /\ (rows' # rows => Refers(k) \subseteq rows)
        /\ UNCHANGED <<db, vault, keyOp, erasure, reviewer, verdicts, notified, crossed>>
    BY <1>2 DEF Insert
  <2>2. ErasureTypeOK'
    BY <1>2, <2>1 DEF ErasureTypeOK
  <2>3. SoldHasTemplate'
    BY <2>1 DEF SoldHasTemplate, Refers, RefersSqlite
  <2>4. ReviewOnce'
    <3>1. k = "reviews" => notified = <<>>
      BY <1>2 DEF ReviewOnce, ErasureTypeOK, Verdict
    <3>2. QED
      BY <1>2, <2>1, <3>1 DEF ReviewOnce
  <2>5. QED
    BY <2>1, <2>2, <2>3, <2>4 DEF DeletesLeft, RowsGone, KeyGone, OneWriter
<1>3. ASSUME NEW k \in Kinds, AddRow(k) PROVE ErasureInv'
  BY <1>2, <1>3 DEF AddRow
<1>4. CASE RequestReview
  <2>1. "reviews" \in Kinds /\ review = "none"
    BY <1>4 DEF RequestReview, Insert, ReviewOnce, ErasureTypeOK
  <2>2. QED
    BY <1>2, <1>4, <2>1 DEF RequestReview
<1>5. CASE Sell
  <2>1. ErasureTypeOK'
    BY <1>5 DEF Sell, ErasureTypeOK
  <2>2. QED
    BY <1>5, <2>1
    DEF Sell, DeletesLeft, SoldHasTemplate, RowsGone, KeyGone, OneWriter, ReviewOnce
<1>6. CASE Refer
  <2>1. ErasureTypeOK'
    BY <1>6 DEF Refer, ErasureTypeOK
  <2>2. QED
    BY <1>6, <2>1
    DEF Refer, DeletesLeft, SoldHasTemplate, RowsGone, KeyGone, OneWriter, ReviewOnce
<1>7. CASE UNCHANGED erasureVars
  <2>1. ErasureTypeOK'
    BY <1>7 DEF erasureVars, ErasureTypeOK
  <2>2. QED
    BY <1>7, <2>1
    DEF erasureVars, DeletesLeft, SoldHasTemplate, RowsGone, KeyGone, OneWriter, ReviewOnce
<1>8. QED
  BY <1>1, <1>3, <1>4, <1>5, <1>6, <1>7

\* The reviewers.
LEMMA ReviewerSteps ==
  ASSUME ErasureInv, NEW r \in Reviewers, OpenReview(r) \/ UpdateHumanReview(r)
  PROVE  ErasureInv'
<1> USE DEF ErasureInv, erasureHistory
<1>1. CASE OpenReview(r)
  <2>1. ErasureTypeOK'
    BY <1>1 DEF OpenReview, ErasureTypeOK
  <2>2. QED
    BY <1>1, <2>1
    DEF OpenReview, DeletesLeft, SoldHasTemplate, RowsGone, KeyGone, OneWriter, ReviewOnce
<1>2. CASE UpdateHumanReview(r)
  <2>1. /\ verdicts < MaxVerdicts /\ verdicts' = verdicts + 1 /\ reviewer' = [reviewer EXCEPT ![r] = "idle"]
        /\ UNCHANGED <<db, rows, vault, asked, keyOp, erasure, late, crossed>>
    BY <1>2 DEF UpdateHumanReview
  <2>2. CASE "reviews" \in rows /\ review = "requested"
    <3>1. PICK v \in Verdict : review' = v /\ notified' = Append(notified, v)
      BY <1>2, <2>2 DEF UpdateHumanReview
    <3>2. notified = <<>>
      BY <2>2 DEF ReviewOnce, ErasureTypeOK, Verdict
    <3>3. notified' = <<v>> /\ notified' \in Seq(Verdict) /\ "reviews" \notin asked
      BY <2>2, <3>1, <3>2 DEF ReviewOnce
    <3>4. ErasureTypeOK'
      BY <2>1, <3>1, <3>3 DEF ErasureTypeOK
    <3>5. QED
      BY <2>1, <3>1, <3>3, <3>4
      DEF DeletesLeft, SoldHasTemplate, RowsGone, KeyGone, OneWriter, ReviewOnce
  <2>3. CASE ~("reviews" \in rows /\ review = "requested")
    <3>1. UNCHANGED <<review, notified>>
      BY <1>2, <2>3 DEF UpdateHumanReview
    <3>2. ErasureTypeOK'
      BY <2>1, <3>1 DEF ErasureTypeOK
    <3>3. QED
      BY <2>1, <3>1, <3>2
      DEF DeletesLeft, SoldHasTemplate, RowsGone, KeyGone, OneWriter, ReviewOnce
  <2>4. QED
    BY <2>2, <2>3
<1>3. QED
  BY <1>1, <1>2

\* byok.json, by a key request and by the erasure.
LEMMA VaultSteps ==
  ASSUME ErasureInv, (\E a \in Accounts : LoadVault(a) \/ SaveVault(a)) \/ LoadForErasure \/ DeleteUserKey
  PROVE  ErasureInv'
<1> USE DEF ErasureInv, erasureHistory
<1>1. keyOp \in [Accounts -> KeyOp] /\ erasure \in ErasureState /\ vault \in SUBSET Accounts
  BY DEF ErasureTypeOK
<1>2. [pc |-> "save", loaded |-> vault] \in KeyOp /\ [pc |-> "idle", loaded |-> {}] \in KeyOp
  BY <1>1 DEF KeyOp
<1>3. /\ [erasure EXCEPT !.pc = "sql"] \in ErasureState
      /\ \A pc \in {"save", "sql"} : LET e == [erasure EXCEPT !.pc = pc, !.loaded = vault]
                                    IN  e \in ErasureState /\ e.pc = pc /\ e.loaded = vault /\ e.at = erasure.at
  <2>1. [erasure EXCEPT !.pc = "sql"] \in ErasureState
    BY <1>1 DEF ErasureState
  <2>2. ASSUME NEW pc \in {"save", "sql"}
        PROVE  LET e == [erasure EXCEPT !.pc = pc, !.loaded = vault]
               IN  e \in ErasureState /\ e.pc = pc /\ e.loaded = vault /\ e.at = erasure.at
    <3>1. vault \in SUBSET Accounts /\ erasure \in ErasureState
      BY <1>1
    <3>2. QED
      BY ONLY <2>2, <3>1 DEF ErasureState
  <2>3. QED
    BY <2>1, <2>2
<1>4. ASSUME NEW a \in Accounts, LoadVault(a) PROVE ErasureInv'
  <2>1. /\ keyOp[a].pc = "idle" /\ keyOp' = [keyOp EXCEPT ![a] = [pc |-> "save", loaded |-> vault]]
        /\ crossed' = (crossed \/ Writing # {})
        /\ UNCHANGED <<db, rows, review, vault, asked, erasure, reviewer, verdicts, notified, late>>
    BY <1>4 DEF LoadVault
  <2>2. keyOp' \in [Accounts -> KeyOp]
    BY <1>1, <1>2, <2>1
  <2>3. ErasureTypeOK'
    BY <2>1, <2>2 DEF ErasureTypeOK
  <2>4. OneWriter'
    BY <1>1, <2>1 DEF OneWriter, Writing
  <2>5. QED
    BY <2>1, <2>3, <2>4 DEF DeletesLeft, SoldHasTemplate, RowsGone, KeyGone, ReviewOnce
<1>5. ASSUME NEW a \in Accounts, SaveVault(a) PROVE ErasureInv'
  <2>1. /\ keyOp[a].pc = "save" /\ keyOp' = [keyOp EXCEPT ![a] = [pc |-> "idle", loaded |-> {}]]
        /\ vault' = keyOp[a].loaded \cup {a}
        /\ late' = (late \/ (a = "mine" /\ "user" \notin rows) \/ erasure.pc \notin {"idle", "slugs", "load"})
        /\ UNCHANGED <<db, rows, review, asked, erasure, reviewer, verdicts, notified, crossed>>
    BY <1>5 DEF SaveVault
  <2>2. keyOp' \in [Accounts -> KeyOp] /\ vault' \in SUBSET Accounts
    BY <1>1, <1>2, <2>1 DEF KeyOp
  <2>3. ErasureTypeOK'
    BY <2>1, <2>2 DEF ErasureTypeOK
  <2>4. OneWriter'
    BY <1>1, <2>1 DEF OneWriter
  <2>5. QED
    BY <2>1, <2>3, <2>4 DEF DeletesLeft, SoldHasTemplate, RowsGone, KeyGone, ReviewOnce
<1>6. CASE LoadForErasure
  <2>1. /\ erasure.pc = "load" /\ crossed' = (crossed \/ ("mine" \in vault /\ Writing # {}))
        /\ erasure' = [erasure EXCEPT !.pc = IF "mine" \in vault THEN "save" ELSE "sql", !.loaded = vault]
        /\ UNCHANGED <<db, rows, review, vault, asked, keyOp, reviewer, verdicts, notified, late>>
    BY <1>6 DEF LoadForErasure
  <2>2. /\ erasure' \in ErasureState /\ erasure'.loaded = vault /\ erasure'.at = erasure.at
        /\ erasure'.pc = (IF "mine" \in vault THEN "save" ELSE "sql")
    <3>1. CASE "mine" \in vault
      <4>1. erasure' = [erasure EXCEPT !.pc = "save", !.loaded = vault]
        BY <2>1, <3>1
      <4>2. QED
        BY <1>3, <3>1, <4>1
    <3>2. CASE "mine" \notin vault
      <4>1. erasure' = [erasure EXCEPT !.pc = "sql", !.loaded = vault]
        BY <2>1, <3>2
      <4>2. QED
        BY <1>3, <3>2, <4>1
    <3>3. QED
      BY <3>1, <3>2
  <2>3. ErasureTypeOK'
    BY <2>1, <2>2 DEF ErasureTypeOK
  <2>4. OneWriter'
    <3>1. CASE "mine" \in vault /\ ~crossed'
      <4>1. \A a \in Accounts : keyOp[a].pc # "save"
        BY <2>1, <3>1 DEF Writing
      <4>2. QED
        BY <2>1, <2>2, <4>1 DEF OneWriter
    <3>2. CASE "mine" \notin vault /\ ~crossed'
      <4>1. ~crossed /\ erasure'.pc = "sql" /\ UNCHANGED <<keyOp, vault>>
        BY <2>1, <2>2, <3>2
      <4>2. QED
        BY <4>1 DEF OneWriter
    <3>3. CASE crossed'
      BY <3>3 DEF OneWriter
    <3>4. QED
      BY <3>1, <3>2, <3>3
  <2>5. QED
    BY <2>1, <2>2, <2>3, <2>4 DEF DeletesLeft, SoldHasTemplate, RowsGone, KeyGone, ReviewOnce
<1>7. CASE DeleteUserKey
  <2>1. /\ erasure.pc = "save" /\ vault' = erasure.loaded \ {"mine"}
        /\ erasure' = [erasure EXCEPT !.pc = "sql"]
        /\ UNCHANGED <<db, rows, review, asked, keyOp, reviewer, verdicts, notified, late, crossed>>
    BY <1>7 DEF DeleteUserKey, ErasureAt
  <2>2. erasure' \in ErasureState /\ vault' \in SUBSET Accounts
    <3>1. erasure.loaded \in SUBSET Accounts
      BY <1>1 DEF ErasureState
    <3>2. QED
      BY <1>3, <2>1, <3>1
  <2>6. erasure'.pc = "sql" /\ erasure'.at = erasure.at
    BY <1>1, <2>1 DEF ErasureState
  <2>3. ErasureTypeOK'
    BY <2>1, <2>2 DEF ErasureTypeOK
  <2>4. OneWriter'
    BY <2>1, <2>6 DEF OneWriter
  <2>5. QED
    BY <2>1, <2>2, <2>3, <2>4, <2>6
    DEF DeletesLeft, SoldHasTemplate, RowsGone, KeyGone, ReviewOnce
<1>8. QED
  BY <1>4, <1>5, <1>6, <1>7

\* The erasure itself, from its start to its answer.
LEMMA DeleteSteps ==
  ASSUME ErasureInv, StartErasure \/ DeleteUserSqlite \/ DeleteUserPostgres \/ AnswerErasure
  PROVE  ErasureInv'
<1> USE DEF ErasureInv, erasureHistory
<1>1. erasure \in ErasureState /\ rows \in SUBSET Kinds
  BY DEF ErasureTypeOK
<1>2. \A pc \in {"idle", "slugs", "load", "save", "sql", "boards", "answered", "raised"} :
         /\ [erasure EXCEPT !.pc = pc] \in ErasureState
         /\ [erasure EXCEPT !.pc = pc].pc = pc /\ [erasure EXCEPT !.pc = pc].at = erasure.at
  BY <1>1 DEF ErasureState
<1>3. CASE StartErasure
  <2>1. /\ erasure.pc = "idle" /\ erasure' = [erasure EXCEPT !.pc = "load"]
        /\ UNCHANGED <<db, rows, review, vault, asked, keyOp, reviewer, verdicts, notified, late, crossed>>
    BY <1>3 DEF StartErasure, ErasureAt
  <2>2. erasure' \in ErasureState /\ erasure'.pc = "load" /\ erasure'.at = erasure.at
    BY <1>2, <2>1
  <2>3. ErasureTypeOK'
    BY <2>1, <2>2 DEF ErasureTypeOK
  <2>4. QED
    BY <2>1, <2>2, <2>3
    DEF DeletesLeft, SoldHasTemplate, RowsGone, KeyGone, OneWriter, ReviewOnce
<1>4. CASE DeleteUserSqlite
  <2>1. /\ erasure.pc = "sql" /\ db = "sqlite"
        /\ UNCHANGED <<db, review, vault, asked, keyOp, reviewer, verdicts, notified, late, crossed>>
    BY <1>4 DEF DeleteUserSqlite
  <2>2. CASE AnyHeldBack(OrderSqlite)
    <3>1. rows' = rows /\ erasure' = [erasure EXCEPT !.pc = "raised"]
      BY <1>4, <2>2 DEF DeleteUserSqlite, ErasureAt
    <3>2. erasure' \in ErasureState /\ erasure'.pc = "raised" /\ erasure'.at = erasure.at
      BY <1>2, <3>1
    <3>3. ErasureTypeOK'
      BY <2>1, <3>1, <3>2 DEF ErasureTypeOK
    <3>4. QED
      BY <2>1, <3>1, <3>2, <3>3
      DEF DeletesLeft, SoldHasTemplate, RowsGone, KeyGone, OneWriter, ReviewOnce
  <2>3. CASE ~AnyHeldBack(OrderSqlite)
    <3>1. rows' = rows \ Listed(OrderSqlite, Len(OrderSqlite)) /\ erasure' = [erasure EXCEPT !.pc = "boards"]
      BY <1>4, <2>3 DEF DeleteUserSqlite, ErasureAt
    <3>2. erasure' \in ErasureState /\ erasure'.pc = "boards" /\ erasure'.at = erasure.at
      BY <1>2, <3>1
    <3>3. "sold" \notin rows
      BY <2>1, <2>3, SoldHoldsBack DEF SoldHasTemplate
    <3>4. rows' \subseteq {"referrals"} /\ rows' \subseteq rows
      <4>1. rows' \subseteq {"sold", "referrals"}
        BY <1>1, <3>1, ListIsWhole
      <4>2. rows' \subseteq rows
        BY ONLY <3>1
      <4>3. QED
        BY ONLY <3>3, <4>1, <4>2
    <3>5. ErasureTypeOK'
      BY <1>1, <2>1, <3>2, <3>4 DEF ErasureTypeOK
    <3>6. QED
      BY <2>1, <3>2, <3>4, <3>5
      DEF DeletesLeft, SoldHasTemplate, RowsGone, KeyGone, OneWriter, ReviewOnce
  <2>4. QED
    BY <2>2, <2>3
<1>5. CASE DeleteUserPostgres
  <2> DEFINE ks == OrderPostgres[erasure.at]
             next == IF erasure.at = Len(OrderPostgres) THEN "boards" ELSE "sql"
  <2>1. /\ erasure.pc = "sql" /\ db = "postgres"
        /\ rows' = IF HeldBack(ks, rows) THEN rows ELSE Without(ks, rows)
        /\ erasure' = [erasure EXCEPT !.at = erasure.at + 1, !.pc = next]
        /\ UNCHANGED <<db, review, vault, asked, keyOp, reviewer, verdicts, notified, late, crossed>>
    BY <1>5 DEF DeleteUserPostgres
  <2>2. rows' \subseteq rows
    <3>1. Without(ks, rows) \subseteq rows
      BY DEF Without
    <3>2. QED
      BY <2>1, <3>1
  <2>3. Len(OrderPostgres) = 11
    BY DEF OrderPostgres
  <2>4. erasure.at \in 1..13 /\ erasure.at <= 11
    BY <1>1, <2>1, <2>3 DEF DeletesLeft, ErasureState
  <2>5. /\ erasure' \in ErasureState /\ erasure'.at = erasure.at + 1 /\ erasure'.pc = next
        /\ erasure'.pc \in {"boards", "sql"}
    <3>1. next \in {"boards", "sql"} /\ erasure.at + 1 \in 1..13
      BY <2>4
    <3>2. QED
      BY <1>1, <2>1, <3>1 DEF ErasureState
  <2>6. DeletesLeft'
    BY <2>3, <2>4, <2>5 DEF DeletesLeft
  <2>7. ErasureTypeOK'
    BY <1>1, <2>1, <2>2, <2>5 DEF ErasureTypeOK
  <2>8. QED
    BY <2>1, <2>5, <2>6, <2>7 DEF SoldHasTemplate, RowsGone, KeyGone, OneWriter, ReviewOnce
<1>6. CASE AnswerErasure
  <2>1. /\ erasure.pc = "boards" /\ erasure' = [erasure EXCEPT !.pc = "answered", !.ok = TRUE]
        /\ UNCHANGED <<db, rows, review, vault, asked, keyOp, reviewer, verdicts, notified, late, crossed>>
    BY <1>6 DEF AnswerErasure
  <2>2. erasure' \in ErasureState /\ erasure'.pc = "answered"
    BY <1>1, <2>1 DEF ErasureState
  <2>3. ErasureTypeOK'
    BY <2>1, <2>2 DEF ErasureTypeOK
  <2>4. QED
    BY <2>1, <2>2, <2>3
    DEF DeletesLeft, SoldHasTemplate, RowsGone, KeyGone, OneWriter, ReviewOnce
<1>7. QED
  BY <1>3, <1>4, <1>5, <1>6

LEMMA ErasureStep ==
  ASSUME ErasureInv, [ErasureNext]_erasureVars
  PROVE  ErasureInv'
BY RequestSteps, ReviewerSteps, VaultSteps, DeleteSteps DEF ErasureNext

\* What the rows refer to.  On PostgreSQL no row is there without the rows it
\* refers to, and the account's own row outlives its DELETE only where some row
\* holds it back.
RowsRefer == db = "postgres" => \A k \in rows : Refers(k) \subseteq rows
UserHeld ==
    /\ erasure.pc \in {"boards", "answered"} /\ ~late /\ "user" \in rows => Holding("user", rows) # {}
RefersInv == RowsRefer /\ UserHeld

LEMMA RefersAre ==
  ASSUME NEW k
  PROVE  /\ Refers(k) \subseteq {"templates", "user", "projects"}
         /\ k \in AllKinds \ {"referrals", "user"} /\ db # "sqlite" =>
              Refers(k) # {} /\ (k # "sold" => "user" \in Refers(k))
         /\ db # "sqlite" => Refers("sold") = {"templates"} /\ Refers("referrals") = {}
BY DEF Refers, RefersSqlite, RefersPostgres, AllKinds

LEMMA RefersUnchanged ==
  ASSUME db' = db
  PROVE  /\ \A k : Refers(k)' = Refers(k) /\ Cascades(k)' = Cascades(k)
         /\ \A k : Holding(k, rows)' = {j \in rows' : k \in Refers(j) /\ ~Cascades(j)}
BY DEF Holding, Refers, Cascades, RefersSqlite, RefersPostgres

\* Rows that are added leave what holds the account's row where it is.
LEMMA RowsGrow ==
  ASSUME RefersInv, db' = db, rows \subseteq rows', late => late',
         "user" \in rows' => "user" \in rows \/ late',
         erasure'.pc \in {"boards", "answered"} => erasure.pc \in {"boards", "answered"},
         db = "postgres" => \A k \in rows' \ rows : Refers(k) \subseteq rows
  PROVE  RefersInv'
<1>1. RowsRefer'
  <2> SUFFICES ASSUME db = "postgres", NEW k \in rows' PROVE Refers(k) \subseteq rows'
    BY RefersUnchanged DEF RowsRefer
  <2>1. QED
    BY DEF RefersInv, RowsRefer
<1>2. UserHeld'
  <2> SUFFICES ASSUME erasure'.pc \in {"boards", "answered"}, ~late', "user" \in rows'
               PROVE  Holding("user", rows)' # {}
    BY DEF UserHeld
  <2>1. Holding("user", rows) # {}
    BY DEF RefersInv, UserHeld
  <2>2. PICK j \in rows : "user" \in Refers(j) /\ ~Cascades(j)
    BY <2>1 DEF Holding
  <2>3. QED
    BY <2>2, RefersUnchanged
<1>3. QED
  BY <1>1, <1>2 DEF RefersInv

\* One DELETE on PostgreSQL: no row stays without what it refers to.
LEMMA DeleteKeepsRefers ==
  ASSUME ErasureInv, RefersInv, DeleteUserPostgres
  PROVE  RefersInv'
<1> DEFINE ks == OrderPostgres[erasure.at]
<1>1. /\ db = "postgres" /\ db' = db /\ late' = late /\ erasure.pc = "sql"
      /\ rows' = IF HeldBack(ks, rows) THEN rows ELSE Without(ks, rows)
      /\ erasure' = [erasure EXCEPT !.at = erasure.at + 1,
                       !.pc = IF erasure.at = Len(OrderPostgres) THEN "boards" ELSE "sql"]
  BY DEF DeleteUserPostgres, erasureHistory
<1>2. CASE HeldBack(ks, rows)
  <2>1. rows' = rows
    BY <1>1, <1>2
  <2>2. RowsRefer'
    BY <1>1, <2>1, RefersUnchanged DEF RowsRefer, RefersInv
  <2>3. UserHeld'
    <3> SUFFICES ASSUME erasure'.pc \in {"boards", "answered"}, "user" \in rows'
                 PROVE  Holding("user", rows)' # {}
      BY DEF UserHeld
    <3>1. erasure.at = Len(OrderPostgres)
      BY <1>1 DEF ErasureInv, ErasureTypeOK, ErasureState
    <3>2. ks = {"user"}
      BY <3>1 DEF OrderPostgres
    <3>3. Holding("user", rows) # {}
      BY <1>2, <3>2 DEF HeldBack
    <3>4. PICK j \in rows : "user" \in Refers(j) /\ ~Cascades(j)
      BY <3>3 DEF Holding
    <3>5. QED
      BY <1>1, <2>1, <3>4, RefersUnchanged
  <2>4. QED
    BY <2>2, <2>3 DEF RefersInv
<1>3. CASE ~HeldBack(ks, rows)
  <2>1. rows' = rows \ (ks \cup UNION {Following(k, rows) : k \in ks \cap rows})
    BY <1>1, <1>3 DEF Without
  <2>2. ASSUME NEW j \in rows', NEW k \in Refers(j) PROVE k \in rows'
    <3>1. j \in rows /\ k \in rows
      BY <1>1, <2>1, <2>2 DEF RefersInv, RowsRefer
    <3>2. k \notin ks
      <4> SUFFICES ASSUME k \in ks PROVE FALSE
        OBVIOUS
      <4>1. Holding(k, rows) = {}
        BY <1>3, <3>1 DEF HeldBack
      <4>2. j \in Following(k, rows)
        BY <3>1, <4>1, <2>2 DEF Holding, Following
      <4>3. QED
        BY <2>1, <2>2, <3>1, <4>2
    <3>3. ASSUME NEW i \in ks \cap rows PROVE k \notin Following(i, rows)
      <4>1. k \in {"templates", "user", "projects"}
        BY <2>2, RefersAre
      <4>2. QED
        BY <4>1 DEF Following, Cascades
    <3>4. QED
      BY <2>1, <3>1, <3>2, <3>3
  <2>3. RowsRefer'
    BY <1>1, <2>2, RefersUnchanged DEF RowsRefer
  <2>4. UserHeld'
    <3> SUFFICES ASSUME erasure'.pc \in {"boards", "answered"} PROVE "user" \notin rows'
      BY DEF UserHeld
    <3>1. erasure.at = Len(OrderPostgres)
      BY <1>1 DEF ErasureInv, ErasureTypeOK, ErasureState
    <3>2. ks = {"user"}
      BY <3>1 DEF OrderPostgres
    <3>3. QED
      BY <2>1, <3>2
  <2>5. QED
    BY <2>3, <2>4 DEF RefersInv
<1>4. QED
  BY <1>2, <1>3

LEMMA RefersStep ==
  ASSUME ErasureInv, RefersInv, [ErasureNext]_erasureVars
  PROVE  RefersInv'
<1> USE DEF erasureHistory
<1>1. ASSUME NEW k \in Kinds, Insert(k) PROVE RefersInv'
  <2>1. /\ db' = db /\ erasure' = erasure /\ late' = (late \/ "user" \notin rows)
        /\ rows' = IF Refers(k) \subseteq rows THEN rows \cup {k} ELSE rows
    BY <1>1 DEF Insert
  <2>2. QED
    BY <2>1, RowsGrow
<1>2. CASE Sell
  <2>1. /\ db' = db /\ erasure' = erasure /\ late' = late
        /\ rows' = rows \cup {"sold"} /\ "templates" \in rows
    BY <1>2 DEF Sell
  <2>2. db = "postgres" => Refers("sold") \subseteq rows
    BY <2>1, RefersAre
  <2>3. QED
    BY <2>1, <2>2, RowsGrow
<1>3. CASE Refer
  <2>1. /\ db' = db /\ erasure' = erasure /\ late' = late
        /\ rows' = rows \cup {"referrals"} /\ "user" \in rows
    BY <1>3 DEF Refer
  <2>2. db = "postgres" => Refers("referrals") \subseteq rows
    BY RefersAre
  <2>3. QED
    BY <2>1, <2>2, RowsGrow
<1>4. CASE DeleteUserSqlite
  <2>1. db = "sqlite" /\ db' = db /\ late' = late /\ erasure \in ErasureState
    BY <1>4 DEF DeleteUserSqlite, ErasureInv, ErasureTypeOK
  <2>2. CASE AnyHeldBack(OrderSqlite)
    <3>1. erasure' = [erasure EXCEPT !.pc = "raised"] /\ rows' = rows
      BY <1>4, <2>2 DEF DeleteUserSqlite, ErasureAt
    <3>2. erasure'.pc = "raised"
      BY <2>1, <3>1 DEF ErasureState
    <3>3. QED
      BY <2>1, <3>2 DEF RefersInv, RowsRefer, UserHeld
  <2>3. CASE ~AnyHeldBack(OrderSqlite)
    <3>1. rows' = rows \ Listed(OrderSqlite, Len(OrderSqlite)) /\ rows \subseteq AllKinds
      BY <1>4, <2>3 DEF DeleteUserSqlite, ErasureInv, ErasureTypeOK
    <3>2. "user" \notin rows'
      BY <3>1, ListIsWhole
    <3>3. QED
      BY <2>1, <3>2 DEF RefersInv, RowsRefer, UserHeld
  <2>4. QED
    BY <2>2, <2>3
<1>5. CASE \/ \E k \in Kinds : Ask(k)
           \/ \E r \in Reviewers : OpenReview(r) \/ UpdateHumanReview(r)
           \/ \E a \in Accounts : LoadVault(a) \/ SaveVault(a)
           \/ StartErasure \/ LoadForErasure \/ DeleteUserKey \/ AnswerErasure
           \/ UNCHANGED erasureVars
  <2>1. db' = db /\ rows' = rows /\ (late => late')
    <3>1. ASSUME NEW k \in Kinds, Ask(k) PROVE db' = db /\ rows' = rows /\ late' = late
      BY <3>1 DEF Ask
    <3>2. ASSUME NEW r \in Reviewers, OpenReview(r) \/ UpdateHumanReview(r)
          PROVE  db' = db /\ rows' = rows /\ late' = late
      BY <3>2 DEF OpenReview, UpdateHumanReview
    <3>3. ASSUME NEW a \in Accounts, LoadVault(a) \/ SaveVault(a)
          PROVE  db' = db /\ rows' = rows /\ (late => late')
      <4>1. CASE LoadVault(a)
        BY <4>1 DEF LoadVault
      <4>2. CASE SaveVault(a)
        BY <4>2, Zenon DEF SaveVault
      <4>3. QED
        BY <3>3, <4>1, <4>2
    <3>4. ASSUME StartErasure \/ LoadForErasure \/ DeleteUserKey \/ AnswerErasure
          PROVE  db' = db /\ rows' = rows /\ late' = late
      BY <3>4 DEF StartErasure, LoadForErasure, DeleteUserKey, AnswerErasure
    <3>5. ASSUME UNCHANGED erasureVars PROVE db' = db /\ rows' = rows /\ late' = late
      BY <3>5 DEF erasureVars
    <3>6. QED
      BY <1>5, <3>1, <3>2, <3>3, <3>4, <3>5
  <2>2. erasure'.pc \in {"boards", "answered"} => erasure.pc \in {"boards", "answered"}
    <3>1. erasure \in ErasureState
      BY DEF ErasureInv, ErasureTypeOK
    <3>2. CASE StartErasure \/ LoadForErasure \/ DeleteUserKey
      BY <3>1, <3>2 DEF StartErasure, LoadForErasure, DeleteUserKey, ErasureAt, ErasureState
    <3>3. CASE AnswerErasure
      BY <3>3 DEF AnswerErasure
    <3>4. CASE erasure' = erasure
      BY <3>4
    <3>5. QED
      BY <1>5, <3>2, <3>3, <3>4
      DEF Ask, OpenReview, UpdateHumanReview, LoadVault, SaveVault, erasureVars
  <2>3. QED
    BY <2>1, <2>2, RowsGrow
<1>6. QED
  BY <1>1, <1>2, <1>3, <1>4, <1>5, DeleteKeepsRefers DEF ErasureNext, AddRow, RequestReview, Insert,
     ErasureInv, ErasureTypeOK

\* An erasure answered on either database: the key is gone; where the account's
\* own row is gone, on SQLite always, no row but its referrals is left, and where
\* it stayed a row that is left holds it back, requests that wrote late and
\* crossing writers of byok.json apart; and an account hears one verdict of its
\* review (delete_user, delete_user_key, DELETE /api/account, update_human_review).
THEOREM ErasureSafe == ErasureSpec => []ErasureKept
<1>1. ErasureInv /\ RefersInv => ErasureKept
  <2> SUFFICES ASSUME ErasureInv, RefersInv PROVE ErasureKept
    OBVIOUS
  <2>1. notified = <<>> => Len(notified) = 0
    OBVIOUS
  <2>2. ErasedLeavesReferrals
    <3> SUFFICES ASSUME erasure.pc = "answered", ~late
                 PROVE  /\ "mine" \notin vault
                        /\ db = "sqlite" \/ "user" \notin rows => rows \subseteq {"referrals"}
                        /\ "user" \in rows => Holding("user", rows) # {}
      BY DEF ErasedLeavesReferrals
    <3>1. "mine" \notin vault /\ ("user" \in rows => Holding("user", rows) # {})
      BY DEF ErasureInv, KeyGone, RefersInv, UserHeld
    <3>2. db = "sqlite" => rows \subseteq {"referrals"}
      BY DEF ErasureInv, RowsGone
    <3>3. ASSUME db = "postgres", "user" \notin rows, NEW k \in rows, k # "referrals" PROVE FALSE
      <4>1. k \in AllKinds \ {"referrals", "user"}
        BY <3>3 DEF ErasureInv, ErasureTypeOK
      <4>2. k = "sold"
        BY <3>3, <4>1, RefersAre DEF RefersInv, RowsRefer
      <4>3. "templates" \in rows /\ "user" \in Refers("templates")
        BY <3>3, <4>2, RefersAre DEF RefersInv, RowsRefer, AllKinds
      <4>4. QED
        BY <3>3, <4>3 DEF RefersInv, RowsRefer
    <3>4. db \in {"sqlite", "postgres"}
      BY DEF ErasureInv, ErasureTypeOK
    <3>5. QED
      BY <3>1, <3>2, <3>3, <3>4
  <2>3. ReviewResolvedOnce
    BY <2>1 DEF ErasureInv, ReviewResolvedOnce, ReviewOnce
  <2>4. QED
    BY <2>2, <2>3 DEF ErasureInv, ErasureKept
<1>2. ErasureInit => RefersInv
  BY DEF ErasureInit, RefersInv, RowsRefer, UserHeld, Refers, RefersPostgres
<1>3. QED
  BY ErasureStart, ErasureStep, RefersStep, <1>1, <1>2, PTL DEF ErasureSpec

\* On SQLite an erasure takes all the account's rows or none, and on neither
\* store does it, or a key request, lose the key of another account, until two
\* writers of byok.json crossed (delete_user, set_user_key, delete_user_key).
THEOREM ErasureWhole == ErasureSpec => ErasureAllOrNothing
<1> DEFINE RowsAndKeys == /\ db = "sqlite" /\ ~(rows \subseteq rows') => "user" \notin rows'
                          /\ ~crossed' /\ "other" \in vault => "other" \in vault'
<1>1. ASSUME ErasureInv, [ErasureNext]_erasureVars PROVE RowsAndKeys \/ UNCHANGED erasureVars
  <2>1. ASSUME db = "sqlite", ~(rows \subseteq rows') PROVE "user" \notin rows'
    <3>1. DeleteUserSqlite
      BY <1>1, <2>1
      DEF ErasureNext, Ask, AddRow, Insert, RequestReview, Sell, Refer, OpenReview,
          UpdateHumanReview, LoadVault, SaveVault, StartErasure, LoadForErasure, DeleteUserKey,
          DeleteUserPostgres, AnswerErasure, erasureVars
    <3>2. rows' = rows \ Listed(OrderSqlite, Len(OrderSqlite)) /\ rows \subseteq AllKinds
      BY <1>1, <2>1, <3>1 DEF DeleteUserSqlite, ErasureInv, ErasureTypeOK
    <3>3. QED
      BY <3>2, ListIsWhole
  <2>2. ASSUME ~crossed', "other" \in vault PROVE "other" \in vault'
    <3>1. vault' = vault \/ (\E a \in Accounts : SaveVault(a)) \/ DeleteUserKey
      BY <1>1 DEF ErasureNext, Ask, AddRow, Insert, RequestReview, Sell, Refer, OpenReview,
         UpdateHumanReview, LoadVault, StartErasure, LoadForErasure,
         DeleteUserSqlite, DeleteUserPostgres, AnswerErasure, erasureVars, erasureHistory
    <3>2. ASSUME NEW a \in Accounts, SaveVault(a) PROVE "other" \in vault'
      BY <1>1, <2>2, <3>2 DEF SaveVault, ErasureInv, OneWriter
    <3>3. ASSUME DeleteUserKey PROVE "other" \in vault'
      BY <1>1, <2>2, <3>3 DEF DeleteUserKey, erasureHistory, ErasureInv, OneWriter
    <3>4. QED
      BY <2>2, <3>1, <3>2, <3>3
  <2>3. QED
    BY <2>1, <2>2
<1>2. QED
  BY ErasureStart, ErasureStep, <1>1, PTL DEF ErasureSpec, ErasureAllOrNothing

HIDE ErasureAssumption

-----------------------------------------------------------------------------
(* Sessions: any number of clients, passwords and reset tokens, any time   *)
(* to live, window and limit of failures.                                  *)

\* The parameters, but for what the provers handle badly.
LEMMA SessionParameters ==
  /\ NoToken \notin ResetTokens /\ IsFiniteSet(Clients)
  /\ Second \in Nat \ {0} /\ ResetTtl \in Nat /\ LoginMax \in Nat \ {0} /\ LoginWindow \in Nat \ {0}
  /\ MaxTime \in Nat /\ MaxRestarts \in Nat
BY SessionsAssumption

USE SessionParameters

LEMMA FloorBounds ==
  ASSUME NEW t \in Nat
  PROVE  /\ Floor(t) \in Nat /\ Floor(t) <= t /\ t <= Floor(t) + Second - 1
         /\ (t \div Second + 1) * Second \in Nat
         /\ t < (t \div Second + 1) * Second /\ (t \div Second + 1) * Second <= t + Second
BY SMTT(60) DEF Floor

LEMMA MaxOfTwo ==
  ASSUME NEW a \in Nat, NEW b \in Nat
  PROVE  Max({a, b}) = IF a <= b THEN b ELSE a
<1> DEFINE P(x) == x \in {a, b} /\ \A y \in {a, b} : x >= y
<1>1. PICK m : P(m)
  <2>1. P(IF a <= b THEN b ELSE a)
    OBVIOUS
  <2>2. QED
    BY <2>1
<1>2. P(Max({a, b}))
  BY <1>1 DEF Max
<1>3. QED
  BY <1>2

LEMMA IdleIsLocal ==
  ASSUME SessionsTypeOK
  PROVE  /\ Idle \in Locals /\ Idle.pc = "idle" /\ Idle.op = "none" /\ Idle.token = NoToken
         /\ Idle.stamp = 0 /\ Idle.typed \in Passwords /\ Idle.new \in Passwords /\ Idle.good = FALSE
<1>1. account.password \in Passwords
  BY DEF SessionsTypeOK
<1>2. (CHOOSE p \in Passwords : TRUE) \in Passwords
  BY <1>1
<1>3. QED
  BY <1>2 DEF Idle, Locals, Ops, Steps

\* A thread takes a step of its own, to a place given as a whole or by its name.
LEMMA Moves ==
  ASSUME SessionsTypeOK, NEW c \in Clients, NEW l \in Locals, client' = [client EXCEPT ![c] = l]
  PROVE  /\ client' \in [Clients -> Locals] /\ client'[c] = l
         /\ \A d \in Clients \ {c} : client'[d] = client[d]
BY DEF SessionsTypeOK

LEMMA Goes ==
  ASSUME SessionsTypeOK, NEW c \in Clients, NEW pc \in Steps, client' = [client EXCEPT ![c].pc = pc]
  PROVE  /\ client' \in [Clients -> Locals] /\ client'[c].pc = pc
         /\ client'[c].op = client[c].op /\ client'[c].token = client[c].token
         /\ client'[c].stamp = client[c].stamp /\ client'[c].new = client[c].new
         /\ client'[c].typed = client[c].typed
         /\ \A d \in Clients \ {c} : client'[d] = client[d]
<1>1. client[c] \in Locals /\ client \in [Clients -> Locals]
  BY DEF SessionsTypeOK
<1>2. [client[c] EXCEPT !.pc = pc] \in Locals
  BY <1>1 DEF Locals
<1>3. client' = [client EXCEPT ![c] = [client[c] EXCEPT !.pc = pc]]
  OBVIOUS
<1>4. QED
  BY <1>1, <1>2, <1>3 DEF Locals

-----------------------------------------------------------------------------
(* The parts of the invariant.  *)

Sqlite == store.db = "sqlite"

\* Requests that end sessions write the time they read, one after the other.
EndInv ==
    /\ ended <= now
    /\ \A c \in Clients : client[c].pc = "write" => client[c].stamp <= now
    /\ Sqlite /\ ~overlapped =>
        /\ account.loggedOut = ended
        /\ \A c \in Clients : client[c].pc = "write" =>
            /\ ended <= client[c].stamp
            /\ \A d \in Clients : client[d].pc = "write" => d = c

\* Without an older scheme nobody writes a password back.
PassInv ==
    ~store.legacy => /\ account.password = chosen /\ ~account.legacy
                     /\ \A c \in Clients : client[c].pc # "upgrade"

\* The time a row ends at.
EndOf(t) == (IF Sqlite THEN t ELSE Floor(t)) + ResetTtl
InTime(t, at) == at <= minted[t] + ResetTtl + (IF Sqlite THEN 0 ELSE Second - 1)

ResetRows ==
    \A t \in ResetTokens :
        /\ resets[t].there => minted[t] # 0 /\ resets[t].expires = EndOf(minted[t])
        /\ \A at \in redeemed[t] : InTime(t, at)
        /\ Sqlite => /\ \A x, y \in redeemed[t] : x = y
                     /\ minted[t] = 0 \/ (resets[t].there /\ ~resets[t].used) => redeemed[t] = {}

ResetThreads ==
    \A c \in Clients :
        /\ client[c].pc \in {"issue", "select", "mark"} => ~Sqlite /\ client[c].stamp > 0
        /\ client[c].pc \in {"select", "mark"} => client[c].token \in ResetTokens /\ minted[client[c].token] # 0
        /\ client[c].pc = "mark" => InTime(client[c].token, client[c].stamp)

ResetInv == ResetRows /\ ResetThreads

\* Logins past the limiter whose failure is not counted yet.
Pending == {c \in Clients : client[c].op = "login" /\ client[c].pc \in {"verify", "failed"}}

\* A failure is a login's: a change that types the wrong password is only refused.
FailedAreLogins == \A c \in Clients : client[c].pc = "failed" => client[c].op = "login"
LimitInv == FailedAreLogins /\ Counted + Cardinality(Pending) < LoginMax + Cardinality(Clients)

SessInv == SessionsTypeOK /\ EndInv /\ PassInv /\ ResetInv /\ LimitInv

\* What a step must leave alone for a part to stay.
EndFrame ==
    /\ UNCHANGED <<store, ended, overlapped>> /\ account'.loggedOut = account.loggedOut /\ now <= now'
    /\ \A d \in Clients : client'[d].pc = "write" => client[d].pc = "write" /\ client'[d].stamp = client[d].stamp

PassFrame ==
    /\ UNCHANGED <<store, chosen>> /\ account'.password = account.password /\ account'.legacy = account.legacy
    /\ \A d \in Clients : client'[d].pc = "upgrade" => client[d].pc = "upgrade" \/ account.legacy

ResetFrame ==
    /\ UNCHANGED <<store, resets, minted, redeemed>>
    /\ \A d \in Clients : client'[d].pc \in {"issue", "select", "mark"} =>
           /\ client'[d].pc = client[d].pc /\ client'[d].stamp = client[d].stamp /\ client'[d].token = client[d].token

LimitFrame ==
    /\ UNCHANGED <<store, failures>> /\ now <= now' /\ Pending' \subseteq Pending
    /\ \A d \in Clients : client'[d].pc = "failed" => client'[d].op = "login" \/ client'[d] = client[d]

LEMMA EndFrameKeeps ==
  ASSUME SessionsTypeOK, SessionsTypeOK', EndInv, EndFrame
  PROVE  EndInv'
<1>1. now \in Nat /\ now' \in Nat /\ ended \in Nat /\ \A c \in Clients : client[c].stamp \in Nat
  BY DEF SessionsTypeOK, Locals
<1>2. QED
  BY <1>1 DEF EndInv, EndFrame, Sqlite

LEMMA PassFrameKeeps ==
  ASSUME PassInv, PassFrame
  PROVE  PassInv'
BY DEF PassInv, PassFrame

LEMMA ResetFrameKeeps ==
  ASSUME ResetInv, ResetFrame
  PROVE  ResetInv'
<1>1. UNCHANGED <<store, resets, minted, redeemed>>
  BY DEF ResetFrame
<1>2. \A t, at : EndOf(t)' = EndOf(t) /\ InTime(t, at)' = InTime(t, at)
  BY <1>1 DEF EndOf, InTime, Sqlite
<1>3. ResetRows'
  BY <1>1, <1>2 DEF ResetInv, ResetRows, EndOf, InTime, Sqlite
<1>4. ResetThreads'
  <2>1. \A d \in Clients : client'[d].pc \in {"issue", "select", "mark"} =>
           /\ client'[d].pc = client[d].pc /\ client'[d].stamp = client[d].stamp /\ client'[d].token = client[d].token
    BY DEF ResetFrame
  <2>2. QED
    BY <1>1, <2>1 DEF ResetInv, ResetThreads, InTime, Sqlite
<1>5. QED
  BY <1>3, <1>4 DEF ResetInv

LEMMA Windows ==
  ASSUME SessionsTypeOK, NEW t \in Nat
  PROVE  IsFiniteSet(InWindow(t)) /\ Cardinality(InWindow(t)) \in Nat
<1>1. InWindow(t) \in SUBSET (1..MaxTime)
  BY DEF InWindow, SessionsTypeOK
<1>2. IsFiniteSet(1..MaxTime)
  BY FS_Interval
<1>3. QED
  BY <1>1, <1>2, FS_Subset, FS_CardinalityType

LEMMA PendingCount ==
  /\ IsFiniteSet(Pending) /\ Cardinality(Pending) \in Nat /\ Cardinality(Clients) \in Nat
  /\ Cardinality(Pending) <= Cardinality(Clients)
<1>1. Pending \in SUBSET Clients
  BY DEF Pending
<1>2. QED
  BY <1>1, FS_Subset, FS_CardinalityType

LEMMA CountedIsNat ==
  ASSUME SessionsTypeOK
  PROVE  Counted \in Nat /\ now \in Nat
<1>1. now \in Nat /\ failures.n \in Nat
  BY DEF SessionsTypeOK
<1>2. QED
  BY <1>1, Windows DEF Counted

LEMMA LimitFrameKeeps ==
  ASSUME SessionsTypeOK, SessionsTypeOK', LimitInv, LimitFrame
  PROVE  LimitInv'
<1>1. now \in Nat /\ now' \in Nat /\ now <= now' /\ failures' = failures /\ store' = store
      /\ failures.n \in Nat /\ failures.expires \in Nat /\ failures.times \subseteq 1..MaxTime
  BY DEF SessionsTypeOK, LimitFrame
<1>2. Counted' <= Counted
  <2>1. InWindow(now') \in SUBSET InWindow(now)
    BY <1>1 DEF InWindow
  <2>2. Cardinality(InWindow(now')) <= Cardinality(InWindow(now))
    BY <1>1, <2>1, Windows, FS_Subset
  <2>3. InWindow(now)' = InWindow(now')
    BY <1>1 DEF InWindow
  <2>4. QED
    BY <1>1, <2>2, <2>3 DEF Counted
<1>3. Cardinality(Pending') <= Cardinality(Pending) /\ Cardinality(Pending') \in Nat
  BY PendingCount, FS_Subset, FS_CardinalityType DEF LimitFrame
<1>4. Counted \in Nat /\ Counted' \in Nat
  BY <1>1, CountedIsNat, Windows DEF Counted, InWindow
<1>5. FailedAreLogins'
  BY DEF LimitInv, FailedAreLogins, LimitFrame
<1>6. QED
  BY <1>2, <1>3, <1>4, <1>5, PendingCount DEF LimitInv

LEMMA SessionsStart == SessionsInit => SessInv
<1> SUFFICES ASSUME SessionsInit PROVE SessInv
  OBVIOUS
<1>1. account \in [password : Passwords, legacy : BOOLEAN, loggedOut : 0..MaxTime] /\ account.loggedOut = 0
      /\ account.legacy = store.legacy
  BY DEF SessionsInit
<1>2. Idle \in Locals /\ Idle.pc = "idle" /\ Idle.op = "none"
  <2>1. (CHOOSE p \in Passwords : TRUE) \in Passwords
    BY <1>1
  <2>2. QED
    BY <2>1 DEF Idle, Locals, Ops, Steps
<1>3. SessionsTypeOK
  <2>1. resets \in [ResetTokens -> Row] /\ client \in [Clients -> Locals]
    BY <1>2 DEF SessionsInit, Row
  <2>2. failures \in [times : SUBSET (1..MaxTime), n : Nat, expires : Nat]
    BY DEF SessionsInit, NoFailures
  <2>3. minted \in [ResetTokens -> 0..MaxTime] /\ redeemed \in [ResetTokens -> SUBSET (1..MaxTime)]
    BY DEF SessionsInit
  <2>4. chosen \in Passwords
    BY <1>1 DEF SessionsInit
  <2>5. /\ sessions \in SUBSET (1..MaxTime) /\ now \in 0..MaxTime /\ restarts \in 0..MaxRestarts
        /\ ended \in 0..MaxTime /\ overlapped \in BOOLEAN
    <3>1. sessions = {} /\ now = 0 /\ restarts = 0 /\ ended = 0 /\ overlapped = FALSE
      BY DEF SessionsInit
    <3>2. sessions \in SUBSET (1..MaxTime)
      BY <3>1
    <3>3. 0 \in 0..MaxTime /\ 0 \in 0..MaxRestarts
      OBVIOUS
    <3>4. QED
      BY <3>1, <3>2, <3>3
  <2>6. store \in [db : {"sqlite", "postgres"}, limiter : {"memory", "redis"}, legacy : BOOLEAN]
    BY DEF SessionsInit
  <2>7. QED
    BY ONLY <1>1, <2>1, <2>2, <2>3, <2>4, <2>5, <2>6 DEF SessionsTypeOK
<1>4. EndInv /\ PassInv
  BY <1>1, <1>2 DEF SessionsInit, EndInv, PassInv
<1>5. ResetInv
  BY <1>2 DEF SessionsInit, ResetInv, ResetRows, ResetThreads
<1>6. LimitInv
  <2>1. Pending = {}
    BY <1>2 DEF SessionsInit, Pending
  <2>2. InWindow(now) = {} /\ failures.n = 0
    BY DEF SessionsInit, NoFailures, InWindow
  <2>3. Counted = 0
    BY <2>2, FS_EmptySet DEF Counted
  <2>4. QED
    BY <1>2, <2>1, <2>3, FS_EmptySet, PendingCount DEF SessionsInit, LimitInv, FailedAreLogins
<1>7. QED
  BY <1>3, <1>4, <1>5, <1>6 DEF SessInv

-----------------------------------------------------------------------------
(* The steps.  A login first. *)

Account == [password : Passwords, legacy : BOOLEAN, loggedOut : 0..MaxTime]

\* A step that leaves the tables alone keeps the types, whatever its thread does.
LEMMA Quietly ==
  ASSUME SessionsTypeOK, client' \in [Clients -> Locals],
         UNCHANGED <<store, account, resets, sessions, failures, now, restarts, ended, overlapped,
                     chosen, minted, redeemed>>
  PROVE  SessionsTypeOK'
BY DEF SessionsTypeOK

LEMMA StartLoginStep ==
  ASSUME SessInv, NEW c \in Clients, NEW pw \in Passwords, StartLogin(c, pw)
  PROVE  SessInv'
<1> DEFINE l == [Idle EXCEPT !.op = "login", !.pc = "verify", !.typed = pw]
<1>1. SessionsTypeOK /\ Idle \in Locals
  BY IdleIsLocal DEF SessInv
<1>2. l \in Locals /\ l.pc = "verify" /\ l.op = "login"
  BY <1>1 DEF Locals, Ops, Steps
<1>3. /\ LoginAllowed /\ client' = [client EXCEPT ![c] = l]
      /\ UNCHANGED <<store, account, resets, sessions, failures, now, restarts, ended, overlapped,
                     chosen, minted, redeemed>>
  BY DEF StartLogin, sessionState, sessionHistory
<1>4. /\ client' \in [Clients -> Locals] /\ client'[c].pc = "verify"
      /\ \A d \in Clients \ {c} : client'[d] = client[d]
  <2> HIDE DEF l
  <2> QED
    BY <1>1, <1>2, <1>3, Moves
<1>5. SessionsTypeOK'
  BY <1>1, <1>3, <1>4, Quietly
<1>6. EndInv' /\ PassInv' /\ ResetInv'
  <2>1. now \in Nat
    BY <1>1 DEF SessionsTypeOK
  <2>2. EndFrame /\ PassFrame /\ ResetFrame
    BY <1>3, <1>4, <2>1 DEF EndFrame, PassFrame, ResetFrame
  <2>3. QED
    BY <1>1, <1>5, <2>2, EndFrameKeeps, PassFrameKeeps, ResetFrameKeeps DEF SessInv
<1>7. LimitInv'
  <2>1. Counted' = Counted /\ Counted < LoginMax /\ Counted \in Nat
    BY <1>1, <1>3, CountedIsNat
    DEF Counted, InWindow, LoginAllowed, LoginAllowedMemory, LoginAllowedRedis
  <2>2. Pending' \in SUBSET Clients
    BY DEF Pending
  <2>3. Cardinality(Pending') <= Cardinality(Clients) /\ Cardinality(Pending') \in Nat /\ Cardinality(Clients) \in Nat
    BY <2>2, FS_Subset, FS_CardinalityType
  <2>4. FailedAreLogins'
    BY <1>4 DEF SessInv, LimitInv, FailedAreLogins
  <2>5. QED
    BY <2>1, <2>3, <2>4 DEF LimitInv
<1>8. QED
  BY <1>5, <1>6, <1>7 DEF SessInv

\* What goes on without the tables.
LEMMA QuietStep ==
  ASSUME SessInv, NEW c \in Clients,
         \/ Verify(c) \/ StartLogout(c) \/ SelectReset(c)
         \/ \E pw, new \in Passwords : StartChange(c, pw, new)
  PROVE  SessInv'
<1>1. SessionsTypeOK /\ Idle \in Locals /\ Idle.pc = "idle" /\ Idle.op = "none" /\ Idle.token = NoToken /\ Idle.stamp = 0
  BY IdleIsLocal DEF SessInv
<1>2. now \in Nat /\ client \in [Clients -> Locals] /\ store.db \in {"sqlite", "postgres"}
  BY <1>1 DEF SessionsTypeOK
<1> DEFINE Still == UNCHANGED <<store, account, resets, sessions, failures, now, restarts, ended, overlapped,
                                chosen, minted, redeemed>>
<1>3. ASSUME Still, client' \in [Clients -> Locals], \A d \in Clients \ {c} : client'[d] = client[d],
             client'[c].pc # "write",
             client'[c].pc = "upgrade" => account.legacy,
             client'[c].op = "login" /\ client'[c].pc \in {"verify", "failed"} => c \in Pending,
             client'[c].pc = "failed" => client'[c].op = "login",
             ResetInv'
      PROVE  SessInv'
  <2>1. SessionsTypeOK'
    BY <1>1, <1>3, Quietly
  <2>2. EndFrame /\ PassFrame
    BY <1>2, <1>3 DEF EndFrame, PassFrame
  <2>3. LimitFrame
    BY <1>2, <1>3 DEF LimitFrame, Pending
  <2>4. QED
    BY <1>1, <1>3, <2>1, <2>2, <2>3, EndFrameKeeps, PassFrameKeeps, LimitFrameKeeps DEF SessInv
<1>4. ASSUME Still, \A d \in Clients \ {c} : client'[d] = client[d],
             client'[c].pc \notin {"issue", "select", "mark"}
      PROVE  ResetInv'
  <2>1. ResetFrame
    BY <1>4 DEF ResetFrame
  <2>2. QED
    BY <2>1, ResetFrameKeeps DEF SessInv
<1>5. CASE Verify(c)
  <2> DEFINE good == account.password = client[c].typed
             login == client[c].op = "login"
             pc == IF good /\ account.legacy THEN "upgrade" ELSE IF good THEN IF login THEN "clear" ELSE "set"
                   ELSE IF login THEN "failed" ELSE "idle"
  <2>1. client[c].pc = "verify" /\ Still /\ client' = [client EXCEPT ![c].pc = pc]
    BY <1>5 DEF Verify, Goto, sessionState, sessionHistory
  <2>2. pc \in Steps /\ pc \in {"upgrade", "clear", "set", "failed", "idle"}
        /\ (pc = "upgrade" => account.legacy) /\ (pc = "failed" => login)
    BY DEF Steps
  <2>3. /\ client' \in [Clients -> Locals] /\ client'[c].pc = pc /\ client'[c].op = client[c].op
        /\ \A d \in Clients \ {c} : client'[d] = client[d]
    <3> HIDE DEF pc
    <3> QED
      BY <1>1, <2>1, <2>2, Goes
  <2>4. ResetInv'
    <3> HIDE DEF pc, Still
    <3> QED
      BY <1>4, <2>1, <2>2, <2>3
  <2>5. /\ client'[c].op = "login" /\ client'[c].pc \in {"verify", "failed"} => c \in Pending
        /\ client'[c].pc = "failed" => client'[c].op = "login"
    BY <2>1, <2>2, <2>3 DEF Pending
  <2>6. QED
    <3> HIDE DEF pc, Still, login, good
    <3> QED
      BY <1>3, <2>1, <2>2, <2>3, <2>4, <2>5
<1>6. CASE StartLogout(c)
  <2> DEFINE l == [Idle EXCEPT !.op = "logout", !.pc = "stamp"]
  <2>1. Still /\ client' = [client EXCEPT ![c] = l]
    BY <1>6 DEF StartLogout, sessionState, sessionHistory
  <2>2. l \in Locals /\ l.pc = "stamp" /\ l.op = "logout"
    BY <1>1 DEF Locals, Ops, Steps
  <2>3. /\ client' \in [Clients -> Locals] /\ client'[c] = l /\ \A d \in Clients \ {c} : client'[d] = client[d]
    <3> HIDE DEF l
    <3> QED
      BY <1>1, <2>1, <2>2, Moves
  <2>4. client'[c].pc = "stamp" /\ client'[c].op = "logout"
    BY <2>2, <2>3
  <2>5. ResetInv'
    <3> HIDE DEF l, Still
    <3> QED
      BY <1>4, <2>1, <2>3, <2>4
  <2>6. QED
    <3> HIDE DEF l, Still
    <3> QED
      BY <1>3, <2>1, <2>3, <2>4, <2>5
<1>7. CASE \E pw, new \in Passwords : StartChange(c, pw, new)
  <2>1. PICK pw \in Passwords, new \in Passwords : StartChange(c, pw, new)
    BY <1>7
  <2> DEFINE l == [Idle EXCEPT !.op = "change", !.pc = "verify", !.typed = pw, !.new = new]
  <2>2. Still /\ client' = [client EXCEPT ![c] = l]
    BY <2>1 DEF StartChange, sessionState, sessionHistory
  <2>3. l \in Locals /\ l.pc = "verify" /\ l.op = "change"
    BY <1>1 DEF Locals, Ops, Steps
  <2>4. /\ client' \in [Clients -> Locals] /\ client'[c] = l /\ \A d \in Clients \ {c} : client'[d] = client[d]
    <3> HIDE DEF l
    <3> QED
      BY <1>1, <2>2, <2>3, Moves
  <2>5. client'[c].pc = "verify" /\ client'[c].op = "change"
    BY <2>3, <2>4
  <2>6. ResetInv'
    <3> HIDE DEF l, Still
    <3> QED
      BY <1>4, <2>2, <2>4, <2>5
  <2>7. QED
    <3> HIDE DEF l, Still
    <3> QED
      BY <1>3, <2>2, <2>4, <2>5, <2>6
<1>8. CASE SelectReset(c)
  <2> DEFINE t == client[c].token
             at == client[c].stamp
             pc == IF Live(t, Floor(at)) THEN "mark" ELSE "idle"
  <2>1. client[c].pc = "select" /\ Still /\ client' = [client EXCEPT ![c].pc = pc]
    BY <1>8 DEF SelectReset, Goto, sessionState, sessionHistory
  <2>2. pc \in Steps /\ pc \in {"mark", "idle"}
    BY DEF Steps
  <2>3. /\ client' \in [Clients -> Locals] /\ client'[c].pc = pc /\ client'[c].token = t /\ client'[c].stamp = at
        /\ \A d \in Clients \ {c} : client'[d] = client[d]
    <3> HIDE DEF pc
    <3> QED
      BY <1>1, <2>1, <2>2, Goes
  <2>4. ~Sqlite /\ at > 0 /\ t \in ResetTokens /\ minted[t] # 0 /\ at \in Nat
    BY <1>2, <2>1 DEF SessInv, ResetInv, ResetThreads, Locals
  <2>5. Live(t, Floor(at)) => InTime(t, at)
    <3> SUFFICES ASSUME Live(t, Floor(at)) PROVE InTime(t, at)
      OBVIOUS
    <3>1. resets[t].expires = Floor(minted[t]) + ResetTtl /\ resets[t].expires >= Floor(at)
      BY <2>4 DEF Live, SessInv, ResetInv, ResetRows, EndOf
    <3>2. minted[t] \in Nat
      BY <1>1, <2>4 DEF SessionsTypeOK
    <3>3. /\ Floor(at) \in Nat /\ at <= Floor(at) + Second - 1
          /\ Floor(minted[t]) \in Nat /\ Floor(minted[t]) <= minted[t]
      BY <2>4, <3>2, FloorBounds
    <3>4. at <= minted[t] + ResetTtl + (Second - 1)
      <4> HIDE DEF at, t
      <4> QED
        BY <2>4, <3>1, <3>2, <3>3
    <3>5. QED
      BY <2>4, <3>4 DEF InTime
  <2>6. ResetRows'
    BY <2>1 DEF SessInv, ResetInv, ResetRows, EndOf, InTime, Sqlite
  <2>7. ResetThreads'
    <3>1. \A u, x : InTime(u, x)' = InTime(u, x)
      BY <2>1 DEF InTime, Sqlite
    <3>2. ASSUME NEW d \in Clients \ {c}
          PROVE  /\ client[d].pc \in {"issue", "select", "mark"} => ~Sqlite /\ client[d].stamp > 0
                 /\ client[d].pc \in {"select", "mark"} => client[d].token \in ResetTokens /\ minted[client[d].token] # 0
                 /\ client[d].pc = "mark" => InTime(client[d].token, client[d].stamp)
      BY DEF SessInv, ResetInv, ResetThreads
    <3>3. UNCHANGED <<store, minted>>
      BY <2>1
    <3> HIDE DEF Still
    <3>4. QED
      BY <2>2, <2>3, <2>4, <2>5, <3>1, <3>2, <3>3 DEF ResetThreads, Sqlite, InTime
  <2>8. QED
    <3>1. ResetInv'
      BY <2>6, <2>7 DEF ResetInv
    <3> HIDE DEF pc, Still, t, at
    <3> QED
      BY <1>3, <2>1, <2>2, <2>3, <3>1
<1>9. QED
  BY <1>5, <1>6, <1>7, <1>8

\* What is known of the types, in a state and of a reading of its clock.
LEMMA SessionFacts ==
  ASSUME SessionsTypeOK
  PROVE  /\ now \in Nat /\ now \in 0..MaxTime /\ client \in [Clients -> Locals] /\ account \in Account
         /\ failures \in [times : SUBSET (1..MaxTime), n : Nat, expires : Nat]
         /\ sessions \in SUBSET (1..MaxTime) /\ ended \in 0..MaxTime /\ ended \in Nat
         /\ resets \in [ResetTokens -> Row] /\ minted \in [ResetTokens -> 0..MaxTime]
         /\ redeemed \in [ResetTokens -> SUBSET (1..MaxTime)]
         /\ store.db \in {"sqlite", "postgres"} /\ overlapped \in BOOLEAN
         /\ \A c \in Clients : client[c].stamp \in 0..MaxTime /\ client[c].typed \in Passwords
                               /\ client[c].new \in Passwords /\ client[c].stamp \in Nat
         /\ ReadClock => Now \in 1..MaxTime /\ Now \in Nat /\ now' = Now /\ now' \in 0..MaxTime /\ now < Now
BY DEF SessionsTypeOK, Account, Locals, ReadClock, Now

\* The upgrade and the first half of set_password.
LEMMA PasswordSteps ==
  ASSUME SessInv, NEW c \in Clients, Upgrade(c) \/ SetPassword(c)
  PROVE  SessInv'
<1>1. SessionsTypeOK
  BY DEF SessInv
<1>2. now \in Nat /\ client \in [Clients -> Locals] /\ account \in Account
      /\ client[c].typed \in Passwords /\ client[c].new \in Passwords
  BY <1>1, SessionFacts
<1>3. \A p \in Passwords : /\ [account EXCEPT !.password = p, !.legacy = FALSE] \in Account
                           /\ [account EXCEPT !.password = p, !.legacy = FALSE].loggedOut = account.loggedOut
                           /\ [account EXCEPT !.password = p, !.legacy = FALSE].password = p
                           /\ [account EXCEPT !.password = p, !.legacy = FALSE].legacy = FALSE
  BY <1>2 DEF Account
<1>4. CASE Upgrade(c)
  <2> DEFINE pc == IF client[c].op = "login" THEN "clear" ELSE "set"
  <2>1. /\ client[c].pc = "upgrade" /\ client' = [client EXCEPT ![c].pc = pc]
        /\ account' = [account EXCEPT !.password = client[c].typed, !.legacy = FALSE]
        /\ UNCHANGED <<store, resets, sessions, failures, now, restarts, ended, overlapped, chosen, minted, redeemed>>
    BY <1>4 DEF Upgrade, Goto, sessionHistory
  <2>2. pc \in Steps /\ pc \in {"clear", "set"}
    BY DEF Steps
  <2>3. /\ client' \in [Clients -> Locals] /\ client'[c].pc = pc /\ \A d \in Clients \ {c} : client'[d] = client[d]
    <3> HIDE DEF pc
    <3> QED
      BY <1>1, <2>1, <2>2, Goes
  <2>4. account' \in Account /\ account'.loggedOut = account.loggedOut
    BY <1>2, <1>3, <2>1
  <2>5. SessionsTypeOK'
    BY <1>1, <2>1, <2>3, <2>4 DEF SessionsTypeOK, Account
  <2>6. store.legacy
    BY <2>1 DEF SessInv, PassInv
  <2>7. PassInv'
    BY <2>1, <2>6 DEF PassInv
  <2>8. EndFrame /\ ResetFrame /\ LimitFrame
    BY <1>2, <2>1, <2>2, <2>3, <2>4 DEF EndFrame, ResetFrame, LimitFrame, Pending
  <2>9. QED
    BY <1>1, <2>5, <2>7, <2>8, EndFrameKeeps, ResetFrameKeeps, LimitFrameKeeps DEF SessInv
<1>5. CASE SetPassword(c)
  <2>1. /\ client[c].pc = "set" /\ client' = [client EXCEPT ![c].pc = "stamp"] /\ chosen' = client[c].new
        /\ account' = [account EXCEPT !.password = client[c].new, !.legacy = FALSE]
        /\ UNCHANGED <<store, resets, sessions, failures, now, restarts, ended, overlapped, minted, redeemed>>
    BY <1>5, SMTT(30) DEF SetPassword, Goto
  <2>2. /\ client' \in [Clients -> Locals] /\ client'[c].pc = "stamp" /\ \A d \in Clients \ {c} : client'[d] = client[d]
    BY <1>1, <2>1, Goes DEF Steps
  <2>3. account' \in Account /\ account'.loggedOut = account.loggedOut /\ account'.password = chosen' /\ ~account'.legacy
    BY <1>2, <1>3, <2>1
  <2>4. SessionsTypeOK'
    BY <1>1, <1>2, <2>1, <2>2, <2>3 DEF SessionsTypeOK, Account
  <2>5. PassInv'
    BY <2>1, <2>2, <2>3 DEF SessInv, PassInv
  <2>6. EndFrame /\ ResetFrame /\ LimitFrame
    BY <1>2, <2>1, <2>2, <2>3 DEF EndFrame, ResetFrame, LimitFrame, Pending
  <2>7. QED
    BY <1>1, <2>4, <2>5, <2>6, EndFrameKeeps, ResetFrameKeeps, LimitFrameKeeps DEF SessInv
<1>6. QED
  BY <1>4, <1>5

\* A failure is counted, or the count is cleared.
LEMMA CountSteps ==
  ASSUME SessInv, NEW c \in Clients, LoginFails(c) \/ ClearFailures(c)
  PROVE  SessInv'
<1>1. SessionsTypeOK /\ Idle \in Locals /\ Idle.pc = "idle"
  BY IdleIsLocal DEF SessInv
<1>2. now \in Nat /\ client \in [Clients -> Locals]
      /\ failures \in [times : SUBSET (1..MaxTime), n : Nat, expires : Nat]
  BY <1>1, SessionFacts
<1>3. ASSUME UNCHANGED <<store, account, resets, sessions, restarts, ended, overlapped, chosen, minted, redeemed>>,
             client' \in [Clients -> Locals], \A d \in Clients \ {c} : client'[d] = client[d],
             client'[c].pc \in {"idle", "mint"}, now <= now', now' \in 0..MaxTime,
             failures' \in [times : SUBSET (1..MaxTime), n : Nat, expires : Nat], LimitInv'
      PROVE  SessInv'
  <2>1. SessionsTypeOK'
    BY <1>1, <1>3 DEF SessionsTypeOK
  <2>2. EndFrame /\ PassFrame /\ ResetFrame
    BY <1>3 DEF EndFrame, PassFrame, ResetFrame
  <2>3. QED
    BY <1>1, <1>3, <2>1, <2>2, EndFrameKeeps, PassFrameKeeps, ResetFrameKeeps DEF SessInv
<1>4. CASE LoginFails(c)
  <2>1. /\ client[c].pc = "failed" /\ ReadClock /\ client' = [client EXCEPT ![c] = Idle]
        /\ failures' = IF store.limiter = "memory" THEN RecordFailureMemory ELSE RecordFailureRedis
        /\ UNCHANGED <<store, account, resets, sessions, restarts, ended, overlapped, chosen, minted, redeemed>>
    BY <1>4 DEF LoginFails, Done, sessionHistory
  <2>2. Now \in 1..MaxTime /\ Now \in Nat /\ now' = Now /\ now' \in 0..MaxTime /\ now < Now
    BY <1>1, <2>1, SessionFacts
  <2>3. /\ client' \in [Clients -> Locals] /\ client'[c].pc = "idle" /\ \A d \in Clients \ {c} : client'[d] = client[d]
    BY <1>1, <2>1, Moves
  <2>4. failures' \in [times : SUBSET (1..MaxTime), n : Nat, expires : Nat]
    <3>1. InWindow(Now) \cup {Now} \in SUBSET (1..MaxTime)
      BY <1>2, <2>2 DEF InWindow
    <3>2. RecordFailureMemory \in [times : SUBSET (1..MaxTime), n : Nat, expires : Nat]
      BY <1>2, <3>1 DEF RecordFailureMemory
    <3>3. RecordFailureRedis \in [times : SUBSET (1..MaxTime), n : Nat, expires : Nat]
      <4>1. Now + LoginWindow \in Nat /\ failures.n + 1 \in Nat
        BY <1>2, <2>2
      <4>2. QED
        BY <1>2, <4>1 DEF RecordFailureRedis
    <3>4. QED
      BY <2>1, <3>2, <3>3
  <2>5. Counted' <= Counted + 1 /\ Counted' \in Nat /\ Counted \in Nat
    <3>1. CASE store.limiter = "memory"
      <4>1. failures'.times = InWindow(Now) \cup {Now}
        BY <1>2, <2>1, <3>1 DEF RecordFailureMemory
      <4>2. Counted' = Cardinality(InWindow(Now) \cup {Now})
        <5>1. InWindow(now)' = InWindow(Now) \cup {Now}
          BY <1>2, <2>2, <4>1 DEF InWindow
        <5>2. QED
          BY <2>1, <3>1, <5>1 DEF Counted
      <4>3. InWindow(Now) \in SUBSET InWindow(now)
        BY <1>2, <2>2 DEF InWindow
      <4>4. /\ IsFiniteSet(InWindow(Now)) /\ Cardinality(InWindow(Now)) \in Nat
            /\ IsFiniteSet(InWindow(now)) /\ Cardinality(InWindow(now)) \in Nat
        BY <1>1, <1>2, <2>2, Windows
      <4>5. Cardinality(InWindow(Now)) <= Cardinality(InWindow(now))
        BY <4>3, <4>4, FS_Subset
      <4>6. Cardinality(InWindow(Now) \cup {Now}) \in Nat
            /\ Cardinality(InWindow(Now) \cup {Now}) <= Cardinality(InWindow(Now)) + 1
        <5>1. Cardinality(InWindow(Now) \cup {Now}) \in {Cardinality(InWindow(Now)), Cardinality(InWindow(Now)) + 1}
          BY <4>4, FS_AddElement
        <5>2. QED
          BY ONLY <4>4, <5>1
      <4>7. Counted = Cardinality(InWindow(now))
        BY <3>1 DEF Counted
      <4>8. QED
        BY <4>2, <4>4, <4>5, <4>6, <4>7
    <3>2. CASE store.limiter # "memory"
      <4>1. /\ failures'.n = (IF failures.expires >= Now THEN failures.n + 1 ELSE 1)
            /\ failures'.expires = Now + LoginWindow
        BY <1>2, <2>1, <3>2 DEF RecordFailureRedis
      <4>2. failures.n \in Nat /\ failures.expires \in Nat
        BY <1>2
      <4>3. Counted = (IF failures.expires >= now THEN failures.n ELSE 0)
        BY <3>2 DEF Counted
      <4>4. Counted' = (IF failures'.expires >= now' THEN failures'.n ELSE 0)
        BY <2>1, <3>2 DEF Counted
      <4>5. QED
        BY <1>2, <2>2, <4>1, <4>2, <4>3, <4>4
    <3>3. QED
      BY <3>1, <3>2
  <2>6. Pending' \in SUBSET Pending /\ (client[c].op = "login" => Pending' \in SUBSET (Pending \ {c}) /\ c \in Pending)
    BY <2>1, <2>3 DEF Pending
  <2>7. LimitInv'
    <3>1. client[c].op = "login"
      BY <2>1 DEF SessInv, LimitInv, FailedAreLogins
    <3>2. /\ IsFiniteSet(Pending \ {c}) /\ Cardinality(Pending \ {c}) = Cardinality(Pending) - 1
      BY <2>6, <3>1, PendingCount, FS_RemoveElement
    <3>3. Cardinality(Pending') <= Cardinality(Pending) - 1 /\ Cardinality(Pending') \in Nat
      BY <2>6, <3>1, <3>2, FS_Subset, FS_CardinalityType
    <3>4. Counted + Cardinality(Pending) < LoginMax + Cardinality(Clients)
      BY DEF SessInv, LimitInv
    <3>5. Counted' + Cardinality(Pending') < LoginMax + Cardinality(Clients)
      BY <2>5, <3>3, <3>4, PendingCount
    <3>6. FailedAreLogins'
      BY <2>3 DEF SessInv, LimitInv, FailedAreLogins
    <3>7. QED
      BY <3>5, <3>6 DEF LimitInv
  <2>8. QED
    BY <1>2, <1>3, <2>1, <2>2, <2>3, <2>4, <2>7
<1>5. CASE ClearFailures(c)
  <2>1. /\ client' = [client EXCEPT ![c].pc = "mint"] /\ failures' = NoFailures
        /\ UNCHANGED <<store, account, resets, sessions, now, restarts, ended, overlapped, chosen, minted, redeemed>>
    BY <1>5, SMTT(30) DEF ClearFailures, Goto, sessionHistory
  <2>2. /\ client' \in [Clients -> Locals] /\ client'[c].pc = "mint" /\ \A d \in Clients \ {c} : client'[d] = client[d]
    BY <1>1, <2>1, Goes DEF Steps
  <2>3. failures' \in [times : SUBSET (1..MaxTime), n : Nat, expires : Nat] /\ failures'.times = {} /\ failures'.n = 0
    BY <2>1 DEF NoFailures
  <2>4. Counted' = 0
    <3>1. InWindow(now)' = {}
      BY <2>3 DEF InWindow
    <3>2. QED
      BY <2>3, <3>1, FS_EmptySet DEF Counted
  <2>5. Pending' \in SUBSET Pending
    BY <2>2 DEF Pending
  <2>6. Cardinality(Pending') <= Cardinality(Clients) /\ Cardinality(Pending') \in Nat
    BY <2>5, PendingCount, FS_Subset, FS_CardinalityType
  <2>7. LimitInv'
    BY <2>2, <2>4, <2>6, PendingCount DEF SessInv, LimitInv, FailedAreLogins
  <2>8. QED
    BY <1>2, <1>3, <2>1, <2>2, <2>3, <2>7, SessionFacts, <1>1
<1>6. QED
  BY <1>4, <1>5

\* A token is made, or a time to end them at is read and written.
LEMMA TokenSteps ==
  ASSUME SessInv, NEW c \in Clients,
         MakeToken(c) \/ StampLogout(c) \/ MarkLoggedOutSqlite(c) \/ MarkLoggedOutPostgres(c)
  PROVE  SessInv'
<1>1. SessionsTypeOK /\ Idle \in Locals /\ Idle.pc = "idle"
  BY IdleIsLocal DEF SessInv
<1>2. /\ now \in Nat /\ now \in 0..MaxTime /\ client \in [Clients -> Locals] /\ account \in Account
      /\ sessions \in SUBSET (1..MaxTime) /\ ended \in 0..MaxTime /\ ended \in Nat
      /\ client[c].stamp \in 0..MaxTime /\ client[c].stamp \in Nat /\ overlapped \in BOOLEAN
      /\ ReadClock => Now \in 1..MaxTime /\ Now \in Nat /\ now' = Now /\ now' \in 0..MaxTime /\ now < Now
  BY <1>1, SessionFacts
<1>3. ASSUME UNCHANGED <<store, resets, failures, restarts, chosen, minted, redeemed>>,
             account' \in Account, account'.password = account.password, account'.legacy = account.legacy,
             sessions' \in SUBSET (1..MaxTime), now <= now', now' \in 0..MaxTime, ended' \in 0..MaxTime, overlapped' \in BOOLEAN,
             client' \in [Clients -> Locals], \A d \in Clients \ {c} : client'[d] = client[d],
             client'[c].pc \in {"idle", "write"}, EndInv'
      PROVE  SessInv'
  <2>1. SessionsTypeOK'
    BY <1>1, <1>3 DEF SessionsTypeOK, Account
  <2>2. PassFrame /\ ResetFrame /\ LimitFrame
    BY <1>3 DEF PassFrame, ResetFrame, LimitFrame, Pending
  <2>3. QED
    BY <1>1, <1>3, <2>1, <2>2, PassFrameKeeps, ResetFrameKeeps, LimitFrameKeeps DEF SessInv
<1>4. CASE MakeToken(c)
  <2>1. /\ ReadClock /\ sessions' = sessions \cup {Now} /\ client' = [client EXCEPT ![c] = Idle]
        /\ UNCHANGED <<store, account, resets, failures, restarts, ended, overlapped, chosen, minted, redeemed>>
    BY <1>4 DEF MakeToken, Done, sessionHistory
  <2>2. /\ client' \in [Clients -> Locals] /\ client'[c].pc = "idle" /\ \A d \in Clients \ {c} : client'[d] = client[d]
    BY <1>1, <2>1, Moves
  <2>3. sessions' \in SUBSET (1..MaxTime) /\ now <= now' /\ now' \in Nat /\ now' \in 0..MaxTime
    <3>1. Now \in 1..MaxTime /\ Now \in Nat /\ now' = Now /\ now' \in 0..MaxTime /\ now < Now
      BY <1>2, <2>1
    <3>2. sessions \cup {Now} \in SUBSET (1..MaxTime)
      BY <1>2, <3>1
    <3>3. now <= now'
      BY <1>2, <3>1
    <3>4. QED
      BY <2>1, <3>1, <3>2, <3>3
  <2>4. EndInv'
    <3>1. EndFrame
      BY <2>1, <2>2, <2>3 DEF EndFrame
    <3>2. \A d \in Clients : client[d].stamp \in Nat
      BY <1>1, SessionFacts
    <3>3. QED
      BY <1>2, <2>2, <2>3, <3>1, <3>2 DEF SessInv, EndInv, EndFrame, Sqlite
  <2>5. QED
    BY <1>2, <1>3, <2>1, <2>2, <2>3, <2>4
<1>5. CASE StampLogout(c)
  <2>1. /\ client[c].pc = "stamp" /\ ReadClock
        /\ client' = [client EXCEPT ![c].pc = "write", ![c].stamp = Now]
        /\ overlapped' = (overlapped \/ \E d \in Clients \ {c} : client[d].pc = "write")
        /\ UNCHANGED <<store, account, resets, sessions, failures, restarts, ended, chosen, minted, redeemed>>
    BY <1>5 DEF StampLogout, sessionState
  <2>2. Now \in 0..MaxTime /\ now' = Now /\ now < Now /\ Now \in Nat /\ now' \in 0..MaxTime
    BY <1>2, <2>1
  <2>3. /\ client' \in [Clients -> Locals] /\ client'[c].pc = "write" /\ client'[c].stamp = Now
        /\ \A d \in Clients \ {c} : client'[d] = client[d]
    <3>1. client[c] \in Locals
      BY <1>2
    <3>2. [client[c] EXCEPT !.pc = "write", !.stamp = Now] \in Locals
      BY <2>2, <3>1 DEF Locals, Steps
    <3>3. client' = [client EXCEPT ![c] = [client[c] EXCEPT !.pc = "write", !.stamp = Now]]
      BY <2>1
    <3>4. [client[c] EXCEPT !.pc = "write", !.stamp = Now].pc = "write"
          /\ [client[c] EXCEPT !.pc = "write", !.stamp = Now].stamp = Now
      BY <3>1 DEF Locals
    <3>5. QED
      BY <1>2, <3>2, <3>3, <3>4
  <2>4. EndInv'
    <3>1. ended <= now /\ \A d \in Clients : client[d].pc = "write" => client[d].stamp <= now /\ client[d].stamp \in Nat
      BY <1>1, SessionFacts DEF SessInv, EndInv
    <3>2. ended' <= now' /\ \A d \in Clients : client'[d].pc = "write" => client'[d].stamp <= now'
      BY <1>2, <2>1, <2>2, <2>3, <3>1
    <3>3. ASSUME Sqlite, ~overlapped'
          PROVE  /\ account.loggedOut = ended
                 /\ \A e \in Clients : client'[e].pc = "write" =>
                      ended <= client'[e].stamp /\ \A d \in Clients : client'[d].pc = "write" => d = e
      <4>1. ~overlapped /\ \A d \in Clients \ {c} : client[d].pc # "write"
        BY <2>1, <3>3
      <4>2. \A d \in Clients : client'[d].pc = "write" => d = c
        BY <2>3, <4>1
      <4>3. ended <= Now
        BY <1>2, <2>2, <3>1
      <4>4. QED
        BY <2>3, <3>3, <4>1, <4>2, <4>3 DEF SessInv, EndInv
    <3>4. QED
      BY <2>1, <3>2, <3>3 DEF EndInv, Sqlite
  <2>5. QED
    BY <1>2, <1>3, <2>1, <2>2, <2>3, <2>4
<1>6. ASSUME NEW at \in 0..MaxTime, client[c].pc = "write", client' = [client EXCEPT ![c] = Idle],
             account' = [account EXCEPT !.loggedOut = at], ended' = Max({ended, client[c].stamp}),
             Sqlite => at = client[c].stamp,
             UNCHANGED <<store, resets, sessions, failures, now, restarts, overlapped, chosen, minted, redeemed>>
      PROVE  SessInv'
  <2>1. /\ client' \in [Clients -> Locals] /\ client'[c].pc = "idle" /\ \A d \in Clients \ {c} : client'[d] = client[d]
    BY <1>1, <1>6, Moves
  <2>2. account' \in Account /\ account'.password = account.password /\ account'.legacy = account.legacy /\ account'.loggedOut = at
    BY <1>2, <1>6 DEF Account
  <2>3. ended' = (IF ended <= client[c].stamp THEN client[c].stamp ELSE ended)
    BY <1>2, <1>6, MaxOfTwo
  <2>4. client[c].stamp <= now /\ ended <= now
    BY <1>6 DEF SessInv, EndInv
  <2>5. EndInv'
    <3>1. ended' <= now'
      BY <1>6, <2>3, <2>4
    <3>2. \A d \in Clients : client'[d].pc = "write" => d # c /\ client[d].pc = "write" /\ client'[d] = client[d]
      BY <2>1
    <3>3. ASSUME Sqlite, ~overlapped
          PROVE  ended' = at /\ \A d \in Clients : client'[d].pc # "write"
      <4>1. ended <= client[c].stamp /\ \A d \in Clients : client[d].pc = "write" => d = c
        BY <1>6, <3>3 DEF SessInv, EndInv
      <4>2. QED
        BY <1>6, <2>3, <3>2, <3>3, <4>1
    <3>4. QED
      BY <1>6, <2>2, <3>1, <3>2, <3>3 DEF SessInv, EndInv, Sqlite
  <2>6. ended' \in 0..MaxTime
    BY <1>2, <2>3
  <2>7. QED
    BY <1>2, <1>3, <1>6, <2>1, <2>2, <2>5, <2>6
<1>7. CASE MarkLoggedOutSqlite(c)
  BY <1>2, <1>6, <1>7 DEF MarkLoggedOutSqlite, Done
<1>8. CASE MarkLoggedOutPostgres(c)
  <2>1. Floor(client[c].stamp) \in 0..MaxTime
    BY <1>2, FloorBounds, SMTT(30)
  <2>2. ~Sqlite
    BY <1>8 DEF MarkLoggedOutPostgres, Sqlite
  <2>3. QED
    BY <1>6, <1>8, <2>1, <2>2 DEF MarkLoggedOutPostgres, Done
<1>9. QED
  BY <1>4, <1>5, <1>7, <1>8

\* A purge only takes rows away.
LEMMA PurgedKeeps ==
  ASSUME SessionsTypeOK, NEW at \in Nat
  PROVE  /\ Purged(at) \in [ResetTokens -> Row]
         /\ \A t \in ResetTokens : /\ Purged(at)[t] = resets[t] \/ ~Purged(at)[t].there
                                   /\ Live(t, at) => Purged(at)[t] = resets[t]
<1>1. resets \in [ResetTokens -> Row]
  BY DEF SessionsTypeOK
<1>2. \A t \in ResetTokens : [resets[t] EXCEPT !.there = FALSE] \in Row /\ ~[resets[t] EXCEPT !.there = FALSE].there
  BY <1>1 DEF Row
<1>3. \A t \in ResetTokens : resets[t].expires \in Nat
  BY <1>1 DEF Row
<1>4. \A t \in ResetTokens : Purged(at)[t] = IF resets[t].used \/ (resets[t].there /\ resets[t].expires < at)
                                             THEN [resets[t] EXCEPT !.there = FALSE] ELSE resets[t]
  BY DEF Purged, Expired
<1>5. \A t \in ResetTokens : Live(t, at) => ~(resets[t].used \/ (resets[t].there /\ resets[t].expires < at))
  BY <1>3 DEF Live
<1>6. Purged(at) \in [ResetTokens -> Row]
  BY <1>1, <1>2 DEF Purged
<1>7. QED
  BY <1>2, <1>4, <1>5, <1>6

\* A reset token is issued or redeemed.
LEMMA ResetFramed ==
  ASSUME SessInv, NEW c \in Clients,
         UNCHANGED <<store, account, sessions, failures, restarts, ended, overlapped, chosen>>,
         resets' \in [ResetTokens -> Row], minted' \in [ResetTokens -> 0..MaxTime],
         redeemed' \in [ResetTokens -> SUBSET (1..MaxTime)], now <= now', now' \in 0..MaxTime,
         client' \in [Clients -> Locals], \A d \in Clients \ {c} : client'[d] = client[d],
         client'[c] = client[c] \/ client'[c].pc \in {"idle", "issue", "select", "mark", "set"}, ResetInv'
  PROVE  SessInv'
<1>1. SessionsTypeOK
  BY DEF SessInv
<1>2. SessionsTypeOK'
  BY <1>1 DEF SessionsTypeOK
<1>3. EndFrame /\ PassFrame /\ LimitFrame
  BY DEF EndFrame, PassFrame, LimitFrame, Pending
<1>4. QED
  BY <1>1, <1>2, <1>3, EndFrameKeeps, PassFrameKeeps, LimitFrameKeeps DEF SessInv

LEMMA IssueSteps ==
  ASSUME SessInv, NEW c \in Clients, CreateResetSqlite(c) \/ CreateResetPostgres(c) \/ IssueReset(c)
  PROVE  SessInv'
<1>1. SessionsTypeOK /\ Idle \in Locals /\ Idle.pc = "idle" /\ ResetRows /\ ResetThreads
  BY IdleIsLocal DEF SessInv, ResetInv
<1>2. /\ now \in Nat /\ now \in 0..MaxTime /\ client \in [Clients -> Locals] /\ client[c].stamp \in 0..MaxTime
      /\ resets \in [ResetTokens -> Row] /\ minted \in [ResetTokens -> 0..MaxTime]
      /\ redeemed \in [ResetTokens -> SUBSET (1..MaxTime)] /\ client[c].stamp \in Nat
      /\ ReadClock => Now \in 1..MaxTime /\ Now \in Nat /\ now' = Now /\ now' \in 0..MaxTime /\ now < Now
  BY <1>1, SessionFacts
\* A row is written for a token nobody has drawn yet.
<1>3. ASSUME NEW t \in Undrawn, NEW at \in 1..MaxTime, NEW base0 \in [ResetTokens -> Row],
             \A u \in ResetTokens : base0[u] = resets[u] \/ ~base0[u].there,
             NEW row \in Row, row.there, row.expires = EndOf(at),
             resets' = [base0 EXCEPT ![t] = row], minted' = [minted EXCEPT ![t] = at],
             UNCHANGED <<store, redeemed>>
      PROVE  /\ resets' \in [ResetTokens -> Row] /\ minted' \in [ResetTokens -> 0..MaxTime]
             /\ ResetRows' /\ \A u \in ResetTokens : minted[u] # 0 => minted'[u] = minted[u]
  <2>1. t \in ResetTokens /\ minted[t] = 0 /\ at \in 0..MaxTime /\ at # 0
    BY <1>3 DEF Undrawn
  <2>2. resets' \in [ResetTokens -> Row] /\ resets'[t] = row /\ \A u \in ResetTokens \ {t} : resets'[u] = base0[u]
    BY <1>3, <2>1
  <2>3. minted' \in [ResetTokens -> 0..MaxTime] /\ minted'[t] = at /\ \A u \in ResetTokens \ {t} : minted'[u] = minted[u]
    BY <1>2, <1>3, <2>1
  <2>4. \A x : EndOf(x)' = EndOf(x)
    BY <1>3 DEF EndOf, Sqlite
  <2>5. ASSUME NEW u \in ResetTokens, resets'[u].there
        PROVE  minted'[u] # 0 /\ resets'[u].expires = EndOf(minted'[u])
    <3>1. CASE u = t
      BY <1>3, <2>1, <2>2, <2>3, <3>1
    <3>2. CASE u # t
      <4>1. resets'[u] = resets[u]
        BY <1>3, <2>2, <2>5, <3>2
      <4>2. QED
        BY <1>1, <2>3, <2>5, <3>2, <4>1 DEF ResetRows
    <3>3. QED
      BY <3>1, <3>2
  <2>6. ASSUME NEW u \in ResetTokens, NEW x \in redeemed[u]
        PROVE  x <= minted'[u] + ResetTtl + (IF Sqlite THEN 0 ELSE Second - 1)
    <3>1. CASE u # t
      BY <1>1, <2>3, <2>6, <3>1 DEF ResetRows, InTime
    <3>2. CASE u = t
      <4>1. x <= 0 + ResetTtl + (IF Sqlite THEN 0 ELSE Second - 1)
        BY <1>1, <2>1, <2>6, <3>2 DEF ResetRows, InTime
      <4>2. x \in Nat
        BY <1>2, <2>6
      <4>3. at \in Nat /\ (IF Sqlite THEN 0 ELSE Second - 1) \in Nat
        OBVIOUS
      <4>4. QED
        BY <2>3, <3>2, <4>1, <4>2, <4>3
    <3>3. QED
      BY <3>1, <3>2
  <2>7. ASSUME Sqlite, NEW u \in ResetTokens, minted'[u] = 0 \/ (resets'[u].there /\ ~resets'[u].used)
        PROVE  redeemed[u] = {}
    <3>1. CASE u = t
      BY <1>1, <2>1, <2>7, <3>1 DEF ResetRows
    <3>2. CASE u # t
      BY <1>1, <1>3, <2>2, <2>3, <2>7, <3>2 DEF ResetRows
    <3>3. QED
      BY <3>1, <3>2
  <2>8. \A u \in ResetTokens : Sqlite => \A x, y \in redeemed[u] : x = y
    BY <1>1 DEF ResetRows
  <2>9. ResetRows'
    BY <1>3, <2>4, <2>5, <2>6, <2>7, <2>8 DEF ResetRows, InTime, Sqlite
  <2>10. \A u \in ResetTokens : minted[u] # 0 => minted'[u] = minted[u]
    BY <2>1, <2>3
  <2>11. QED
    BY <2>2, <2>3, <2>9, <2>10
\* The other threads keep their token, which was drawn.
<1>4. ASSUME store' = store, \A u \in ResetTokens : minted[u] # 0 => minted'[u] = minted[u],
             \A d \in Clients : client'[d].pc \in {"issue", "select", "mark"} =>
                 client'[d] = client[d] \/ (client'[d].pc = "issue" /\ ~Sqlite /\ client'[d].stamp > 0)
      PROVE  ResetThreads'
  BY <1>1, <1>4 DEF ResetThreads, InTime, Sqlite
<1>5. CASE CreateResetSqlite(c)
  <2>1. /\ store.db = "sqlite" /\ ReadClock
        /\ UNCHANGED <<store, account, sessions, failures, client, restarts, ended, overlapped, chosen, redeemed>>
    BY <1>5 DEF CreateResetSqlite
  <2>2. PICK t \in Undrawn : /\ resets' = [Purged(Now) EXCEPT ![t] = Fresh(Now)]
                             /\ minted' = [minted EXCEPT ![t] = Now]
    BY <1>5 DEF CreateResetSqlite
  <2>3. Now \in 1..MaxTime /\ Now \in Nat /\ now' \in 0..MaxTime /\ now <= now'
    BY <1>2, <2>1
  <2>4. Fresh(Now) \in Row /\ Fresh(Now).there /\ Fresh(Now).expires = EndOf(Now)
    BY <2>1, <2>3 DEF Fresh, Row, EndOf, Sqlite
  <2>5. Purged(Now) \in [ResetTokens -> Row] /\ \A u \in ResetTokens : Purged(Now)[u] = resets[u] \/ ~Purged(Now)[u].there
    BY <1>1, <2>3, PurgedKeeps
  <2>6. /\ resets' \in [ResetTokens -> Row] /\ minted' \in [ResetTokens -> 0..MaxTime]
        /\ ResetRows' /\ \A u \in ResetTokens : minted[u] # 0 => minted'[u] = minted[u]
    BY <1>3, <2>1, <2>2, <2>3, <2>4, <2>5
  <2>7. ResetInv'
    BY <1>4, <2>1, <2>6 DEF ResetInv
  <2>8. QED
    BY <1>2, <2>1, <2>3, <2>6, <2>7, ResetFramed
<1>6. CASE CreateResetPostgres(c)
  <2> DEFINE l == [Idle EXCEPT !.op = "request", !.pc = "issue", !.stamp = Now]
  <2>1. /\ store.db = "postgres" /\ ReadClock /\ resets' = Purged(Floor(Now)) /\ client' = [client EXCEPT ![c] = l]
        /\ UNCHANGED <<store, account, sessions, failures, restarts, ended, overlapped, chosen, minted, redeemed>>
    BY <1>6 DEF CreateResetPostgres, sessionHistory
  <2>2. Now \in 1..MaxTime /\ Now \in Nat /\ now' \in 0..MaxTime /\ now <= now' /\ Now \in 0..MaxTime
    BY <1>2, <2>1
  <2>3. l \in Locals /\ l.pc = "issue" /\ l.stamp = Now
    BY <1>1, <2>2 DEF Locals, Ops, Steps
  <2>4. /\ client' \in [Clients -> Locals] /\ client'[c] = l /\ \A d \in Clients \ {c} : client'[d] = client[d]
    <3> HIDE DEF l
    <3> QED
      BY <1>1, <2>1, <2>3, Moves
  <2>5. Floor(Now) \in Nat
    BY <2>2, FloorBounds
  <2>6. resets' \in [ResetTokens -> Row] /\ \A u \in ResetTokens : resets'[u] = resets[u] \/ ~resets'[u].there
    BY <1>1, <2>1, <2>5, PurgedKeeps
  <2>7. ResetRows'
    BY <1>1, <2>1, <2>6 DEF ResetRows, EndOf, InTime, Sqlite
  <2>8. ResetThreads'
    <3>1. client'[c].pc = "issue" /\ client'[c].stamp > 0 /\ ~Sqlite
      BY <2>1, <2>2, <2>3, <2>4 DEF Sqlite
    <3> HIDE DEF l
    <3>2. QED
      BY <1>4, <2>1, <2>4, <3>1
  <2>9. ResetInv' /\ client'[c].pc = "issue"
    BY <2>3, <2>4, <2>7, <2>8 DEF ResetInv
  <2>10. QED
    <3> HIDE DEF l
    <3> QED
      BY <1>2, <2>1, <2>2, <2>4, <2>6, <2>9, ResetFramed
<1>7. CASE IssueReset(c)
  <2> DEFINE at == client[c].stamp
  <2>1. /\ client[c].pc = "issue" /\ client' = [client EXCEPT ![c] = Idle]
        /\ UNCHANGED <<store, account, sessions, failures, now, restarts, ended, overlapped, chosen, redeemed>>
    BY <1>7 DEF IssueReset, Done
  <2>2. PICK t \in Undrawn : /\ resets' = [resets EXCEPT ![t] = Fresh(Floor(at))]
                             /\ minted' = [minted EXCEPT ![t] = at]
    BY <1>7 DEF IssueReset
  <2>3. ~Sqlite /\ at \in 1..MaxTime /\ at \in Nat
    BY <1>1, <1>2, <2>1 DEF ResetThreads
  <2>4. Fresh(Floor(at)) \in Row /\ Fresh(Floor(at)).there /\ Fresh(Floor(at)).expires = EndOf(at)
    <3>1. Floor(at) \in Nat
      BY <2>3, FloorBounds
    <3>2. Floor(at) + ResetTtl \in Nat /\ EndOf(at) = Floor(at) + ResetTtl
      BY <2>3, <3>1 DEF EndOf
    <3>3. QED
      BY <3>2 DEF Fresh, Row
  <2>5. /\ client' \in [Clients -> Locals] /\ client'[c].pc = "idle" /\ \A d \in Clients \ {c} : client'[d] = client[d]
    BY <1>1, <2>1, Moves
  <2>6. /\ resets' \in [ResetTokens -> Row] /\ minted' \in [ResetTokens -> 0..MaxTime]
        /\ ResetRows' /\ \A u \in ResetTokens : minted[u] # 0 => minted'[u] = minted[u]
    BY <1>2, <1>3, <2>1, <2>2, <2>3, <2>4
  <2>7. ResetInv'
    BY <1>4, <2>1, <2>5, <2>6 DEF ResetInv
  <2>8. now <= now' /\ now' \in 0..MaxTime /\ redeemed' \in [ResetTokens -> SUBSET (1..MaxTime)]
    BY <1>2, <2>1
  <2>9. QED
    BY <2>1, <2>5, <2>6, <2>7, <2>8, ResetFramed
<1>8. QED
  BY <1>5, <1>6, <1>7

LEMMA RedeemSteps ==
  ASSUME SessInv, NEW c \in Clients,
         \/ \E t \in ResetTokens, new \in Passwords : ConsumeResetSqlite(c, t, new) \/ ConsumeResetPostgres(c, t, new)
         \/ MarkReset(c)
  PROVE  SessInv'
<1>1. SessionsTypeOK /\ Idle \in Locals /\ ResetRows /\ ResetThreads
  BY IdleIsLocal DEF SessInv, ResetInv
<1>2. /\ now \in Nat /\ now \in 0..MaxTime /\ client \in [Clients -> Locals] /\ client[c].stamp \in 0..MaxTime
      /\ resets \in [ResetTokens -> Row] /\ minted \in [ResetTokens -> 0..MaxTime]
      /\ redeemed \in [ResetTokens -> SUBSET (1..MaxTime)] /\ client[c].stamp \in Nat
      /\ ReadClock => Now \in 1..MaxTime /\ Now \in Nat /\ now' = Now /\ now' \in 0..MaxTime /\ now < Now
      /\ store.db \in {"sqlite", "postgres"}
  BY <1>1, SessionFacts
<1>3. ASSUME NEW t \in ResetTokens, NEW new \in Passwords, ConsumeResetSqlite(c, t, new) PROVE SessInv'
  <2> DEFINE l == [Idle EXCEPT !.op = "reset", !.pc = "set", !.new = new]
  <2>1. /\ store.db = "sqlite" /\ ReadClock /\ Live(t, Now) /\ client' = [client EXCEPT ![c] = l]
        /\ resets' = [Purged(Now) EXCEPT ![t].used = TRUE]
        /\ redeemed' = [redeemed EXCEPT ![t] = redeemed[t] \cup {Now}]
        /\ UNCHANGED <<store, account, sessions, failures, restarts, ended, overlapped, chosen, minted>>
    BY <1>3 DEF ConsumeResetSqlite, Redeem
  <2>2. Now \in 1..MaxTime /\ Now \in Nat /\ now' \in 0..MaxTime /\ now <= now'
    BY <1>2, <2>1
  <2>3. l \in Locals /\ l.pc = "set"
    BY <1>1, <1>3 DEF Locals, Ops, Steps
  <2>4. /\ client' \in [Clients -> Locals] /\ client'[c].pc = "set" /\ \A d \in Clients \ {c} : client'[d] = client[d]
    <3> HIDE DEF l
    <3> QED
      BY <1>1, <2>1, <2>3, Moves
  <2>5. /\ Purged(Now) \in [ResetTokens -> Row] /\ Purged(Now)[t] = resets[t]
        /\ \A u \in ResetTokens : Purged(Now)[u] = resets[u] \/ ~Purged(Now)[u].there
    BY <1>1, <2>1, <2>2, PurgedKeeps
  <2>6. resets[t].there /\ ~resets[t].used /\ resets[t].expires >= Now
    BY <2>1 DEF Live
  <2>7. [resets[t] EXCEPT !.used = TRUE] \in Row /\ [resets[t] EXCEPT !.used = TRUE].used
        /\ [resets[t] EXCEPT !.used = TRUE].there = resets[t].there
        /\ [resets[t] EXCEPT !.used = TRUE].expires = resets[t].expires
    <3>1. resets[t] \in Row
      BY <1>2
    <3>2. QED
      BY <3>1 DEF Row
  <2>8. /\ resets' \in [ResetTokens -> Row] /\ resets'[t] = [resets[t] EXCEPT !.used = TRUE]
        /\ \A u \in ResetTokens \ {t} : resets'[u] = resets[u] \/ ~resets'[u].there
    BY <2>1, <2>5, <2>7
  <2>9. Sqlite /\ redeemed[t] = {} /\ minted[t] # 0 /\ resets[t].expires = minted[t] + ResetTtl
    BY <1>1, <2>1, <2>6 DEF ResetRows, EndOf, Sqlite
  <2>10. /\ redeemed' \in [ResetTokens -> SUBSET (1..MaxTime)] /\ redeemed'[t] = {Now}
         /\ \A u \in ResetTokens \ {t} : redeemed'[u] = redeemed[u]
    <3>1. redeemed[t] \cup {Now} = {Now} /\ {Now} \in SUBSET (1..MaxTime)
      BY <2>2, <2>9
    <3>2. QED
      BY <1>2, <2>1, <3>1
  <2>11. ResetRows'
    <3>1. ASSUME NEW u \in ResetTokens, resets'[u].there
          PROVE  minted[u] # 0 /\ resets'[u].expires = EndOf(minted[u])
      <4>1. CASE u = t
        BY <1>1, <2>6, <2>7, <2>8, <4>1 DEF ResetRows
      <4>2. CASE u # t
        BY <1>1, <2>8, <3>1, <4>2 DEF ResetRows
      <4>3. QED
        BY <4>1, <4>2
    <3>2. ASSUME NEW u \in ResetTokens, NEW x \in redeemed'[u] PROVE InTime(u, x)
      <4>1. CASE u = t
        <5>1. x = Now
          BY <2>10, <3>2, <4>1
        <5>2. minted[t] \in Nat
          BY <1>2
        <5>3. x <= minted[u] + ResetTtl + 0
          BY <2>2, <2>6, <2>9, <4>1, <5>1, <5>2
        <5>4. QED
          BY <2>9, <5>3 DEF InTime
      <4>2. CASE u # t
        BY <1>1, <2>10, <3>2, <4>2 DEF ResetRows
      <4>3. QED
        BY <4>1, <4>2
    <3>3. ASSUME NEW u \in ResetTokens
          PROVE  /\ \A x, y \in redeemed'[u] : x = y
                 /\ minted[u] = 0 \/ (resets'[u].there /\ ~resets'[u].used) => redeemed'[u] = {}
      <4>1. CASE u = t
        BY <2>7, <2>8, <2>9, <2>10, <4>1
      <4>2. CASE u # t
        BY <1>1, <2>8, <2>9, <2>10, <4>2 DEF ResetRows
      <4>3. QED
        BY <4>1, <4>2
    <3>4. UNCHANGED <<store, minted>>
      BY <2>1
    <3>5. QED
      BY <3>1, <3>2, <3>3, <3>4 DEF ResetRows, EndOf, InTime, Sqlite
  <2>12. ResetThreads'
    BY <1>1, <2>1, <2>4 DEF ResetThreads, InTime, Sqlite
  <2>13. ResetInv' /\ minted' \in [ResetTokens -> 0..MaxTime]
    BY <1>2, <2>1, <2>11, <2>12 DEF ResetInv
  <2>14. QED
    <3> HIDE DEF l
    <3> QED
      BY <2>1, <2>2, <2>4, <2>8, <2>10, <2>13, ResetFramed
<1>4. ASSUME NEW t \in ResetTokens, NEW new \in Passwords, ConsumeResetPostgres(c, t, new) PROVE SessInv'
  <2> DEFINE l == [Idle EXCEPT !.op = "reset", !.pc = "select", !.token = t, !.new = new, !.stamp = Now]
  <2>1. /\ store.db = "postgres" /\ minted[t] # 0 /\ ReadClock /\ client' = [client EXCEPT ![c] = l]
        /\ resets' = Purged(Floor(Now))
        /\ UNCHANGED <<store, account, sessions, failures, restarts, ended, overlapped, chosen, minted, redeemed>>
    BY <1>4 DEF ConsumeResetPostgres, sessionHistory
  <2>2. Now \in 1..MaxTime /\ Now \in Nat /\ now' \in 0..MaxTime /\ now <= now' /\ Now \in 0..MaxTime
    BY <1>2, <2>1
  <2>3. l \in Locals /\ l.pc = "select" /\ l.stamp = Now /\ l.token = t
    BY <1>1, <1>4, <2>2 DEF Locals, Ops, Steps
  <2>4. /\ client' \in [Clients -> Locals] /\ client'[c] = l /\ \A d \in Clients \ {c} : client'[d] = client[d]
    <3> HIDE DEF l
    <3> QED
      BY <1>1, <2>1, <2>3, Moves
  <2>5. Floor(Now) \in Nat
    BY <2>2, FloorBounds
  <2>6. resets' \in [ResetTokens -> Row] /\ \A u \in ResetTokens : resets'[u] = resets[u] \/ ~resets'[u].there
    BY <1>1, <2>1, <2>5, PurgedKeeps
  <2>7. ResetRows'
    BY <1>1, <2>1, <2>6 DEF ResetRows, EndOf, InTime, Sqlite
  <2>8. client'[c].pc = "select" /\ client'[c].stamp = Now /\ client'[c].token = t /\ ~Sqlite
    BY <2>1, <2>3, <2>4 DEF Sqlite
  <2>9. ResetThreads'
    <3> HIDE DEF l
    <3>1. QED
      BY <1>1, <2>1, <2>2, <2>4, <2>8 DEF ResetThreads, InTime, Sqlite
  <2>10. ResetInv'
    BY <2>7, <2>9 DEF ResetInv
  <2>11. QED
    <3> HIDE DEF l
    <3> QED
      BY <1>2, <2>1, <2>2, <2>4, <2>6, <2>8, <2>10, ResetFramed
<1>5. CASE MarkReset(c)
  <2> DEFINE t == client[c].token
             at == client[c].stamp
  <2>1. /\ client[c].pc = "mark" /\ client' = [client EXCEPT ![c].pc = "set"]
        /\ resets' = [resets EXCEPT ![t].used = resets[t].used \/ resets[t].there]
        /\ redeemed' = [redeemed EXCEPT ![t] = redeemed[t] \cup {at}]
        /\ UNCHANGED <<store, account, sessions, failures, now, restarts, ended, overlapped, chosen, minted>>
    BY <1>5 DEF MarkReset, Redeem, Goto
  <2>2. ~Sqlite /\ t \in ResetTokens /\ at > 0 /\ InTime(t, at) /\ at \in 1..MaxTime
    BY <1>1, <1>2, <2>1, SMTT(30) DEF ResetThreads
  <2>3. /\ client' \in [Clients -> Locals] /\ client'[c].pc = "set" /\ \A d \in Clients \ {c} : client'[d] = client[d]
    BY <1>1, <2>1, Goes DEF Steps
  <2>4. /\ resets' \in [ResetTokens -> Row]
        /\ \A u \in ResetTokens : resets'[u].there = resets[u].there /\ resets'[u].expires = resets[u].expires
    <3>1. resets[t] \in Row
      BY <1>2, <2>2
    <3>2. ASSUME NEW b \in BOOLEAN
          PROVE  /\ [resets[t] EXCEPT !.used = b] \in Row
                 /\ [resets[t] EXCEPT !.used = b].there = resets[t].there
                 /\ [resets[t] EXCEPT !.used = b].expires = resets[t].expires
      BY <3>1 DEF Row
    <3>3. (resets[t].used \/ resets[t].there) \in BOOLEAN
      OBVIOUS
    <3>4. resets' = [resets EXCEPT ![t] = [resets[t] EXCEPT !.used = resets[t].used \/ resets[t].there]]
      BY <2>1
    <3> HIDE DEF t
    <3>5. QED
      BY <1>2, <2>2, <3>2, <3>3, <3>4
  <2>5. /\ redeemed' \in [ResetTokens -> SUBSET (1..MaxTime)] /\ redeemed'[t] = redeemed[t] \cup {at}
        /\ \A u \in ResetTokens \ {t} : redeemed'[u] = redeemed[u]
    <3>1. redeemed[t] \cup {at} \in SUBSET (1..MaxTime)
      BY <1>2, <2>2
    <3>2. QED
      BY <1>2, <2>1, <2>2, <3>1
  <2>6. ResetRows'
    <3>1. ASSUME NEW u \in ResetTokens, NEW x \in redeemed'[u] PROVE InTime(u, x)
      <4>1. CASE x \in redeemed[u]
        BY <1>1, <4>1 DEF ResetRows
      <4>2. CASE x \notin redeemed[u]
        <5>1. u = t /\ x = at
          BY <2>5, <3>1, <4>2
        <5>2. QED
          BY <2>2, <5>1
      <4>3. QED
        BY <4>1, <4>2
    <3>2. UNCHANGED <<store, minted>>
      BY <2>1
    <3>3. QED
      BY <1>1, <2>2, <2>4, <3>1, <3>2 DEF ResetRows, EndOf, InTime, Sqlite
  <2>7. ResetThreads'
    BY <1>1, <2>1, <2>3 DEF ResetThreads, InTime, Sqlite
  <2>8. ResetInv' /\ minted' \in [ResetTokens -> 0..MaxTime] /\ now <= now' /\ now' \in 0..MaxTime
    BY <1>2, <2>1, <2>6, <2>7 DEF ResetInv
  <2>9. QED
    <3> HIDE DEF t, at
    <3> QED
      BY <2>1, <2>3, <2>4, <2>5, <2>8, ResetFramed
<1>6. QED
  BY <1>3, <1>4, <1>5

\* A second passes, or the process restarts.
LEMMA OtherSteps ==
  ASSUME SessInv, Wait \/ SessionsRestart \/ UNCHANGED sessionVars
  PROVE  SessInv'
<1>1. SessionsTypeOK /\ Idle \in Locals /\ Idle.pc = "idle"
  BY IdleIsLocal DEF SessInv
<1>2. now \in Nat /\ now \in 0..MaxTime /\ client \in [Clients -> Locals]
  BY <1>1, SessionFacts
<1>3. CASE Wait
  <2>1. /\ now + Second < MaxTime /\ now' = (now \div Second + 1) * Second
        /\ UNCHANGED <<store, account, resets, sessions, failures, client, restarts, ended, overlapped,
                       chosen, minted, redeemed>>
    BY <1>3 DEF Wait, sessionState, sessionHistory
  <2>2. now' \in Nat /\ now <= now' /\ now' <= now + Second
    <3>1. /\ (now \div Second + 1) * Second \in Nat /\ now < (now \div Second + 1) * Second
          /\ (now \div Second + 1) * Second <= now + Second
      BY <1>2, FloorBounds
    <3>2. QED
      BY ONLY <1>2, <2>1, <3>1
  <2>3. now' \in 0..MaxTime
    BY ONLY <1>2, <2>1, <2>2, SessionParameters
  <2>4. UNCHANGED <<store, account, resets, sessions, failures, client, restarts, ended, overlapped,
                    chosen, minted, redeemed>>
    BY <2>1
  <2>5. SessionsTypeOK'
    BY ONLY <1>1, <2>3, <2>4 DEF SessionsTypeOK
  <2>6. EndFrame /\ PassFrame /\ ResetFrame /\ LimitFrame
    BY ONLY <2>2, <2>4 DEF EndFrame, PassFrame, ResetFrame, LimitFrame, Pending
  <2>7. QED
    BY ONLY SessInv, <1>1, <2>5, <2>6, EndFrameKeeps, PassFrameKeeps, ResetFrameKeeps,
       LimitFrameKeeps
    DEF SessInv
<1>4. CASE SessionsRestart
  <2>1. /\ restarts < MaxRestarts /\ restarts' = restarts + 1 /\ client' = [d \in Clients |-> Idle]
        /\ failures' = IF store.limiter = "memory" THEN NoFailures ELSE failures
        /\ UNCHANGED <<store, account, resets, sessions, now, ended, overlapped, chosen, minted, redeemed>>
    BY <1>4 DEF SessionsRestart, sessionHistory
  <2>2. client' \in [Clients -> Locals] /\ \A d \in Clients : client'[d].pc = "idle"
    BY <1>1, <2>1
  <2>3. /\ failures' \in [times : SUBSET (1..MaxTime), n : Nat, expires : Nat]
        /\ failures' = failures \/ (failures'.times = {} /\ failures'.n = 0)
    <3>1. failures \in [times : SUBSET (1..MaxTime), n : Nat, expires : Nat]
      BY <1>1, SessionFacts
    <3>2. /\ NoFailures \in [times : SUBSET (1..MaxTime), n : Nat, expires : Nat]
          /\ NoFailures.times = {} /\ NoFailures.n = 0
      BY DEF NoFailures
    <3>3. QED
      BY <2>1, <3>1, <3>2
  <2>4. SessionsTypeOK'
    BY <1>1, <2>1, <2>2, <2>3 DEF SessionsTypeOK
  <2>5. EndFrame /\ PassFrame /\ ResetFrame
    BY <1>2, <2>1, <2>2 DEF EndFrame, PassFrame, ResetFrame
  <2>6. LimitInv'
    <3>1. CASE failures' = failures
      <4>1. LimitFrame
        BY <1>2, <2>1, <2>2, <3>1 DEF LimitFrame, Pending
      <4>2. QED
        BY <1>1, <2>4, <4>1, LimitFrameKeeps DEF SessInv
    <3>2. CASE failures'.times = {} /\ failures'.n = 0
      <4>1. InWindow(now)' = {} /\ Pending' = {}
        BY <2>2, <3>2 DEF InWindow, Pending
      <4>2. Counted' = 0 /\ Cardinality(Pending') = 0
        BY <3>2, <4>1, FS_EmptySet DEF Counted
      <4>3. FailedAreLogins'
        BY <2>2 DEF FailedAreLogins
      <4>4. QED
        BY <4>2, <4>3, PendingCount DEF LimitInv
    <3>3. QED
      BY <2>3, <3>1, <3>2
  <2>7. QED
    BY <1>1, <2>4, <2>5, <2>6, EndFrameKeeps, PassFrameKeeps, ResetFrameKeeps DEF SessInv
<1>5. CASE UNCHANGED sessionVars
  <2>1. UNCHANGED <<store, account, resets, sessions, failures, now, client, restarts, ended, overlapped,
                    chosen, minted, redeemed>>
    BY <1>5 DEF sessionVars
  <2>2. SessionsTypeOK'
    BY <1>1, <2>1 DEF SessionsTypeOK
  <2>3. EndFrame /\ PassFrame /\ ResetFrame /\ LimitFrame
    BY <1>2, <2>1 DEF EndFrame, PassFrame, ResetFrame, LimitFrame, Pending
  <2>4. QED
    BY <1>1, <2>2, <2>3, EndFrameKeeps, PassFrameKeeps, ResetFrameKeeps, LimitFrameKeeps
    DEF SessInv
<1>6. QED
  BY <1>3, <1>4, <1>5

LEMMA SessionsStep ==
  ASSUME SessInv, [SessionsNext]_sessionVars
  PROVE  SessInv'
<1>1. ASSUME NEW c \in Clients, SessionStep(c) PROVE SessInv'
  BY <1>1, StartLoginStep, QuietStep, PasswordSteps, CountSteps, TokenSteps, IssueSteps,
     RedeemSteps
  DEF SessionStep
<1>2. QED
  BY <1>1, OtherSteps DEF SessionsNext

\* On SQLite a logout, a password change or a reset that was answered ended the
\* older tokens, unless two such requests overlapped, and a reset token is redeemed
\* once.  On either store a password that was set stays, unless a hash of the old
\* scheme was upgraded, a token is redeemed in time, to the second, and the lockout
\* is overshot by the requests in flight at most (auth.py, the accounts' half of
\* db.py and db_postgres.py).
THEOREM SessionsSafe == SessionsSpec => []SessionsKept
<1>1. SessInv => SessionsKept
  <2> SUFFICES ASSUME SessInv PROVE SessionsKept
    OBVIOUS
  <2>1. SessionsEnd
    <3>1. sessions \subseteq Nat /\ ended \in Nat
      BY SessionFacts DEF SessInv
    <3>2. QED
      BY <3>1 DEF SessionsEnd, TokenSessionOk, SessInv, EndInv, Sqlite
  <2>2. PasswordSticks /\ ResetInTime
    BY DEF PasswordSticks, ResetInTime, SessInv, PassInv, ResetInv, ResetRows, InTime, Sqlite
  <2>3. ASSUME NEW t \in ResetTokens, Sqlite PROVE Cardinality(redeemed[t]) <= 1
    <3>1. \A x, y \in redeemed[t] : x = y
      BY <2>3 DEF SessInv, ResetInv, ResetRows
    <3>2. CASE redeemed[t] = {}
      <4>1. Cardinality({}) = 0
        BY FS_EmptySet
      <4>2. QED
        BY <3>2, <4>1
    <3>3. CASE \E x \in redeemed[t] : TRUE
      <4>1. PICK x \in redeemed[t] : TRUE
        BY <3>3
      <4>2. redeemed[t] = {x}
        BY <3>1, <4>1
      <4>3. Cardinality({x}) = 1
        BY FS_Singleton
      <4>4. QED
        BY <4>2, <4>3
    <3>4. QED
      BY <3>2, <3>3
  <2>4. ResetSingleUse
    BY <2>3 DEF ResetSingleUse, Sqlite
  <2>5. LockoutBounded
    BY DEF LockoutBounded, SessInv, LimitInv, Pending
  <2>6. QED
    BY <2>1, <2>2, <2>4, <2>5 DEF SessionsKept, SessInv
<1>2. QED
  BY SessionsStart, SessionsStep, <1>1, PTL DEF SessionsSpec

HIDE SessionParameters

-----------------------------------------------------------------------------
(* The market.  Its invariant says what the threads between two of their    *)
(* transactions rely on: a purchase in flight has its row, which keeps the  *)
(* template and its author; and a thread that passed a limit is counted     *)
(* with those that the limit counts.                                        *)

Sold == {t \in Templates : price[t] # 0}

SoldIsKnown ==
    /\ IsFiniteSet(Sold)
    /\ \A t \in Templates : price[t] = 0 => \A m \in Members : bought[t][m] = 0

\* Nobody buys from himself, and only a purchase that was made is paid.
ThreadAt(b) ==
    /\ buyer[b].pc \in {"allowed", "pay", "record", "launch", "refund"}
         => AuthorOf[buyer[b].tpl] # BuyerOf[b]
    /\ buyer[b].paid => buyer[b].pc \in {"record", "launch", "refund", "ended"}
    /\ buyer[b].pc = "ended" /\ buyer[b].paid =>
        buyer[b].running \/ buyer[b].cut \/ BuyerOf[b] \in wiped

\* A purchase in flight, of an account no erasure took purchases from.
Holds(b) == buyer[b].pc \in {"record", "launch", "refund"} /\ BuyerOf[b] \notin wiped
HoldersOf(t, m) == {b \in Buyers : BuyerOf[b] = m /\ buyer[b].tpl = t /\ Holds(b)}
RowsHeld == \A t \in Templates, m \in Members : Cardinality(HoldersOf(t, m)) <= bought[t][m]

\* The threads that passed a limit and are not counted by it yet.
Mine(m) == {b \in Buyers : BuyerOf[b] = m}
Asking(m) == {b \in Buyers : BuyerOf[b] = m /\ buyer[b].pc \in {"pay", "record"}}
Adding(m) == {b \in Buyers : BuyerOf[b] = m /\ buyer[b].pc = "agent add"}
Room(m) == Max({1, Cardinality(Mine(m))})

LimitsKept ==
    \A m \in Members :
        /\ hits[m] + Cardinality(Asking(m)) < PurchaseMax + Room(m)
        /\ agents[m] + Cardinality(Adding(m)) < AgentMax + Room(m)

\* What the platform keeps of each sale, and of all.
Share(t) == price[t] - AuthorEarn(t)
KeptOf(r) == SumOver([t \in Templates |-> Share(t) * SumOver(r[t], Members)], Sold)

Balanced ==
    wiped = {} => SumOver(purse, Members) + SumOver(spent, Members) + KeptOf(bought)
                     = Start * Cardinality(Members)

MoneyInv == SoldIsKnown /\ Balanced /\ NobodyOverdrawn
ThreadInv == \A b \in Buyers : ThreadAt(b)
ShopInv == MarketTypeOK /\ MoneyInv /\ ThreadInv /\ RowsHeld /\ LimitsKept

-----------------------------------------------------------------------------
(* Sums and shares. *)

LEMMA TotalIs == \A f, S : Total(f, S) = SumOver(f, S)
BY DEF Total, FoldSet, SumOver, MapThenSumSet, MapThenFoldSet

LEMMA ConservesIs == Balanced => MarketConserves
<1>1. Kept = KeptOf(bought)
  <2>1. [t \in Templates |-> (price[t] - AuthorEarn(t)) * Total(bought[t], Members)]
          = [t \in Templates |-> Share(t) * SumOver(bought[t], Members)]
    BY TotalIs DEF Share
  <2>2. QED
    BY <2>1, TotalIs DEF Kept, KeptOf, Sold
<1>2. QED
  BY <1>1, TotalIs DEF Balanced, MarketConserves

LEMMA EarnBounds ==
  ASSUME MarketTypeOK, NEW t \in Templates
  PROVE  AuthorEarn(t) \in Nat /\ AuthorEarn(t) >= 1 /\ Share(t) \in Int
<1>1. price[t] \in Nat /\ price[t] \div 2 \in Nat
  BY MarketAssumption DEF MarketTypeOK
<1>2. Max({1, price[t] \div 2}) = IF 1 <= price[t] \div 2 THEN price[t] \div 2 ELSE 1
  BY <1>1, MaxOfTwo
<1>3. QED
  BY <1>1, <1>2 DEF AuthorEarn, Share

LEMMA RoomBounds ==
  ASSUME NEW m \in Members
  PROVE  /\ IsFiniteSet(Mine(m)) /\ Cardinality(Mine(m)) \in Nat
         /\ Room(m) \in Nat /\ Room(m) >= 1 /\ Room(m) >= Cardinality(Mine(m))
<1>1. IsFiniteSet(Mine(m)) /\ Cardinality(Mine(m)) \in Nat
  BY MarketAssumption, FS_Subset, FS_CardinalityType DEF Mine
<1>2. QED
  BY <1>1, MaxOfTwo DEF Room

\* What a member holds of a template, and what its rows are worth, are numbers.
LEMMA RowSums ==
  ASSUME MarketTypeOK, NEW r \in [Templates -> [Members -> Nat]], NEW t \in Templates
  PROVE  SumOver(r[t], Members) \in Int /\ Share(t) * SumOver(r[t], Members) \in Int
<1>1. \A m \in Members : r[t][m] \in Int
  OBVIOUS
<1>2. SumOver(r[t], Members) \in Int
  BY <1>1, SumType, MarketAssumption
<1>3. QED
  BY <1>2, EarnBounds

LEMMA MoneySums ==
  ASSUME MarketTypeOK, IsFiniteSet(Sold)
  PROVE  /\ SumOver(purse, Members) \in Int /\ SumOver(spent, Members) \in Int
         /\ KeptOf(bought) \in Int
<1>1. \A m \in Members : purse[m] \in Int /\ spent[m] \in Int
  BY MarketAssumption DEF MarketTypeOK
<1>2. SumOver(purse, Members) \in Int /\ SumOver(spent, Members) \in Int
  BY <1>1, SumType, MarketAssumption
<1> DEFINE F == [t \in Templates |-> Share(t) * SumOver(bought[t], Members)]
<1>3. \A t \in Sold : F[t] \in Int
  BY RowSums DEF MarketTypeOK, Sold
<1>4. SumOver(F, Sold) \in Int
  BY <1>3, SumType
<1>5. QED
  BY <1>2, <1>4 DEF KeptOf

\* A sale of t from member a to member u, between the books A, r before it and
\* B, q after it: the price is the author's share and the platform's.
SaleOf(t, u, a, A, B, r, q) ==
    /\ t \in Sold /\ u \in Members /\ a \in Members /\ u # a
    /\ A \in [Members -> Int] /\ B \in [Members -> Int]
    /\ B[u] = A[u] - price[t] /\ B[a] = A[a] + AuthorEarn(t)
    /\ \A m \in Members : m # u /\ m # a => B[m] = A[m]
    /\ r \in [Templates -> [Members -> Nat]] /\ q \in [Templates -> [Members -> Nat]]
    /\ q[t][u] = r[t][u] + 1
    /\ \A m \in Members : m # u => q[t][m] = r[t][m]
    /\ \A s \in Templates : s # t => q[s] = r[s]

LEMMA Sale ==
  ASSUME MarketTypeOK, IsFiniteSet(Sold), NEW t, NEW u, NEW a, NEW A, NEW B, NEW r, NEW q,
         SaleOf(t, u, a, A, B, r, q)
  PROVE  SumOver(B, Members) + KeptOf(q) = SumOver(A, Members) + KeptOf(r)
<1> USE DEF SaleOf
<1> DEFINE M == [A EXCEPT ![u] = @ - price[t]]
           F == [s \in Templates |-> Share(s) * SumOver(r[s], Members)]
           G == [s \in Templates |-> Share(s) * SumOver(q[s], Members)]
<1>0. /\ IsFiniteSet(Members) /\ t \in Templates /\ price[t] \in Nat
      /\ AuthorEarn(t) \in Nat /\ Share(t) \in Int /\ 0 - price[t] \in Int
  BY EarnBounds, MarketAssumption DEF MarketTypeOK, Sold
<1>1. SumOver(M, Members) = SumOver(A, Members) - price[t]
  <2> DEFINE d == 0 - price[t]
  <2>1. M[u] = A[u] + d /\ \A m \in Members \ {u} : M[m] = A[m]
    BY <1>0
  <2>2. \A m \in Members : A[m] \in Int
    OBVIOUS
  <2>3. d \in Int
    BY <1>0
  <2> HIDE DEF M, d
  <2>4. SumOver(M, Members) = SumOver(A, Members) + d
    BY <1>0, <2>1, <2>2, <2>3, SumChange
  <2>5. SumOver(A, Members) \in Int
    BY <1>0, <2>2, SumType
  <2>6. QED
    BY <1>0, <2>4, <2>5 DEF d
<1>2. SumOver(B, Members) = SumOver(M, Members) + AuthorEarn(t)
  <2>1. B[a] = M[a] + AuthorEarn(t) /\ \A m \in Members \ {a} : B[m] = M[m]
    BY <1>0
  <2>2. \A m \in Members : M[m] \in Int
    BY <1>0
  <2> HIDE DEF M
  <2>3. QED
    BY <1>0, <2>1, <2>2, SumChange, SMTT(30), SMTT(30)
<1>3. SumOver(q[t], Members) = SumOver(r[t], Members) + 1
  BY <1>0, SumChange
<1>4. G[t] = F[t] + Share(t)
  <2>1. SumOver(r[t], Members) \in Int
    BY <1>0, RowSums
  <2>2. \A x, y \in Int : x * (y + 1) = x * y + x
    OBVIOUS
  <2>3. QED
    BY <1>0, <1>3, <2>1, <2>2
<1>5. /\ \A s \in Sold : F[s] \in Int
      /\ \A s \in Sold \ {t} : G[s] = F[s]
  BY RowSums DEF Sold
<1>6. SumOver(G, Sold) = SumOver(F, Sold) + Share(t)
  <2> HIDE DEF F, G
  <2>1. QED
    BY <1>0, <1>4, <1>5, SumChange
<1>7. KeptOf(q) = KeptOf(r) + Share(t)
  BY <1>6 DEF KeptOf
<1>8. SumOver(A, Members) \in Int /\ KeptOf(r) \in Int
  <2>1. SumOver(F, Sold) \in Int
    <3> HIDE DEF F
    <3>1. QED
      BY <1>5, SumType
  <2>2. SumOver(A, Members) \in Int
    BY <1>0, SumType
  <2>3. QED
    BY <2>1, <2>2 DEF KeptOf
<1> HIDE DEF M
<1>9. SumOver(B, Members) = SumOver(A, Members) - price[t] + AuthorEarn(t)
  BY <1>0, <1>1, <1>2, <1>8
<1>10. KeptOf(q) = KeptOf(r) + price[t] - AuthorEarn(t)
  BY <1>0, <1>7, <1>8 DEF Share
<1>11. QED
  BY <1>0, <1>8, <1>9, <1>10

-----------------------------------------------------------------------------
(* Counting the threads when one of them moves. *)

In(b, X) == IF b \in X THEN 1 ELSE 0

\* What thread b adds to the count of those that passed the limit of purchases or
\* of agents, and of those that hold a row.
Asks(b) == IF buyer[b].pc \in {"pay", "record"} THEN 1 ELSE 0
AddsAgent(b) == IF buyer[b].pc = "agent add" THEN 1 ELSE 0
Claim(b, t, m) == IF Holds(b) /\ buyer[b].tpl = t /\ BuyerOf[b] = m THEN 1 ELSE 0

LEMMA CountMoves ==
  ASSUME NEW X, NEW Y, NEW b, IsFiniteSet(X), IsFiniteSet(Y), Y \ {b} = X \ {b}
  PROVE  /\ Cardinality(X) \in Nat /\ Cardinality(Y) \in Nat
         /\ Cardinality(Y) + In(b, X) = Cardinality(X) + In(b, Y)
<1>1. Cardinality(X) \in Nat /\ Cardinality(Y) \in Nat
  BY FS_CardinalityType
<1>2. /\ Cardinality(X \ {b}) = IF b \in X THEN Cardinality(X) - 1 ELSE Cardinality(X)
      /\ Cardinality(Y \ {b}) = IF b \in Y THEN Cardinality(Y) - 1 ELSE Cardinality(Y)
  BY FS_RemoveElement
<1>3. Cardinality(X \ {b}) = Cardinality(Y \ {b})
  OBVIOUS
<1>4. QED
  BY <1>1, <1>2, <1>3 DEF In

\* Only thread b moves.
MovesOnly(b) ==
    /\ buyer' \in [Buyers -> BuyerState]
    /\ \A c \in Buyers \ {b} : buyer'[c] = buyer[c]

LEMMA ThreadSets ==
  ASSUME NEW m \in Members, NEW t \in Templates
  PROVE  /\ IsFiniteSet(HoldersOf(t, m)) /\ Cardinality(HoldersOf(t, m)) \in Nat
         /\ IsFiniteSet(Asking(m)) /\ Cardinality(Asking(m)) \in Nat
         /\ IsFiniteSet(Adding(m)) /\ Cardinality(Adding(m)) \in Nat
         /\ Cardinality(Asking(m)) <= Cardinality(Mine(m))
         /\ Cardinality(Adding(m)) <= Cardinality(Mine(m))
<1>1. /\ HoldersOf(t, m) \in SUBSET Mine(m) /\ Asking(m) \in SUBSET Mine(m)
      /\ Adding(m) \in SUBSET Mine(m)
  BY DEF HoldersOf, Asking, Adding, Mine
<1>2. QED
  BY <1>1, RoomBounds, FS_Subset, FS_CardinalityType

\* The same after the step.
LEMMA ThreadSetsNext ==
  ASSUME NEW m \in Members, NEW t \in Templates
  PROVE  /\ IsFiniteSet(HoldersOf(t, m)') /\ Cardinality(HoldersOf(t, m)') \in Nat
         /\ IsFiniteSet(Asking(m)') /\ Cardinality(Asking(m)') \in Nat
         /\ IsFiniteSet(Adding(m)') /\ Cardinality(Adding(m)') \in Nat
         /\ Cardinality(Asking(m)') <= Cardinality(Mine(m))
         /\ Cardinality(Adding(m)') <= Cardinality(Mine(m))
<1>1. /\ HoldersOf(t, m)' \in SUBSET Mine(m) /\ Asking(m)' \in SUBSET Mine(m)
      /\ Adding(m)' \in SUBSET Mine(m)
  BY DEF HoldersOf, Asking, Adding, Mine
<1>2. QED
  BY <1>1, RoomBounds, FS_Subset, FS_CardinalityType

LEMMA ThreadCounts ==
  ASSUME NEW b \in Buyers, MovesOnly(b), NEW m \in Members, NEW t \in Templates
  PROVE  /\ wiped' = wiped =>
              Cardinality(HoldersOf(t, m)') + In(b, HoldersOf(t, m))
                = Cardinality(HoldersOf(t, m)) + In(b, HoldersOf(t, m)')
         /\ Cardinality(Asking(m)') + In(b, Asking(m))
              = Cardinality(Asking(m)) + In(b, Asking(m)')
         /\ Cardinality(Adding(m)') + In(b, Adding(m))
              = Cardinality(Adding(m)) + In(b, Adding(m)')
<1>1. /\ wiped' = wiped => HoldersOf(t, m)' \ {b} = HoldersOf(t, m) \ {b}
      /\ Asking(m)' \ {b} = Asking(m) \ {b}
      /\ Adding(m)' \ {b} = Adding(m) \ {b}
  BY DEF HoldersOf, Asking, Adding, Holds, MovesOnly
<1>2. /\ IsFiniteSet(HoldersOf(t, m)) /\ IsFiniteSet(Asking(m)) /\ IsFiniteSet(Adding(m))
      /\ IsFiniteSet(HoldersOf(t, m)') /\ IsFiniteSet(Asking(m)') /\ IsFiniteSet(Adding(m)')
  BY ThreadSets, ThreadSetsNext
<1>3. QED
  BY <1>1, <1>2, CountMoves

\* The limits after a step of thread b: it is counted where it was in flight, or
\* it is let in below the limit.
LEMMA LimitsMove ==
  ASSUME ShopInv, NEW b \in Buyers, MovesOnly(b),
         hits' \in [Members -> Nat], agents' \in [Members -> Nat],
         \A m \in Members \ {BuyerOf[b]} : hits'[m] = hits[m] /\ agents'[m] = agents[m],
         \/ hits'[BuyerOf[b]] + Asks(b)'
              <= hits[BuyerOf[b]] + Asks(b)
         \/ hits'[BuyerOf[b]] < PurchaseMax,
         \/ agents'[BuyerOf[b]] + AddsAgent(b)'
              <= agents[BuyerOf[b]] + AddsAgent(b)
         \/ agents'[BuyerOf[b]] < AgentMax
  PROVE  LimitsKept'
<1> SUFFICES ASSUME NEW m \in Members
             PROVE  /\ hits'[m] + Cardinality(Asking(m)') < PurchaseMax + Room(m)'
                    /\ agents'[m] + Cardinality(Adding(m)') < AgentMax + Room(m)'
  BY DEF LimitsKept
<1>1. /\ hits[m] \in Nat /\ agents[m] \in Nat /\ hits'[m] \in Nat /\ agents'[m] \in Nat
      /\ PurchaseMax \in Nat /\ AgentMax \in Nat
      /\ hits[m] + Cardinality(Asking(m)) < PurchaseMax + Room(m)
      /\ agents[m] + Cardinality(Adding(m)) < AgentMax + Room(m)
  BY MarketAssumption DEF ShopInv, MarketTypeOK, LimitsKept
<1>2. /\ Room(m)' = Room(m) /\ Room(m) \in Nat /\ Cardinality(Mine(m)) \in Nat
      /\ Cardinality(Mine(m)) <= Room(m)
  BY RoomBounds DEF Room, Mine
<1>3. PICK t : t \in Templates
  BY MarketAssumption
<1>4. /\ Cardinality(Asking(m)) \in Nat /\ Cardinality(Asking(m)') \in Nat
      /\ Cardinality(Adding(m)) \in Nat /\ Cardinality(Adding(m)') \in Nat
      /\ Cardinality(Asking(m)') <= Cardinality(Mine(m))
      /\ Cardinality(Adding(m)') <= Cardinality(Mine(m))
  BY <1>3, ThreadSets, ThreadSetsNext
<1>5. /\ Cardinality(Asking(m)') + In(b, Asking(m))
           = Cardinality(Asking(m)) + In(b, Asking(m)')
      /\ Cardinality(Adding(m)') + In(b, Adding(m))
           = Cardinality(Adding(m)) + In(b, Adding(m)')
  BY <1>3, ThreadCounts
<1>6. CASE m # BuyerOf[b]
  <2>1. b \notin Asking(m) /\ b \notin Asking(m)' /\ b \notin Adding(m) /\ b \notin Adding(m)'
    BY <1>6 DEF Asking, Adding
  <2>2. Cardinality(Asking(m)') = Cardinality(Asking(m)) /\ Cardinality(Adding(m)') = Cardinality(Adding(m))
    BY <1>4, <1>5, <2>1 DEF In
  <2>3. QED
    BY <1>1, <1>2, <1>6, <2>2
<1>7. CASE m = BuyerOf[b]
  <2>1. /\ Asks(b) = In(b, Asking(m)) /\ Asks(b)' = In(b, Asking(m)')
        /\ AddsAgent(b) = In(b, Adding(m)) /\ AddsAgent(b)' = In(b, Adding(m)')
        /\ In(b, Asking(m)) \in Int /\ In(b, Asking(m)') \in Int
        /\ In(b, Adding(m)) \in Int /\ In(b, Adding(m)') \in Int
    <3>1. /\ b \in Asking(m) <=> buyer[b].pc \in {"pay", "record"}
          /\ b \in Asking(m)' <=> buyer'[b].pc \in {"pay", "record"}
          /\ b \in Adding(m) <=> buyer[b].pc = "agent add"
          /\ b \in Adding(m)' <=> buyer'[b].pc = "agent add"
      BY <1>7 DEF Asking, Adding
    <3>2. Asks(b) = In(b, Asking(m)) /\ Asks(b)' = In(b, Asking(m)')
      BY <3>1, Zenon DEF Asks, In
    <3>3. AddsAgent(b) = In(b, Adding(m)) /\ AddsAgent(b)' = In(b, Adding(m)')
      BY <3>1, Zenon DEF AddsAgent, In
    <3>4. \A X : In(b, X) \in Int
      BY DEF In
    <3>5. QED
      BY <3>2, <3>3, <3>4
  <2>2. hits'[m] + Cardinality(Asking(m)') < PurchaseMax + Room(m)
    <3>1. CASE hits'[m] < PurchaseMax
      BY <1>1, <1>2, <1>4, <3>1
    <3>2. CASE hits'[m] + In(b, Asking(m)') <= hits[m] + In(b, Asking(m))
      BY <1>1, <1>2, <1>4, <1>5, <2>1, <3>2
    <3>3. QED
      BY <1>7, <2>1, <3>1, <3>2
  <2>3. agents'[m] + Cardinality(Adding(m)') < AgentMax + Room(m)
    <3>1. CASE agents'[m] < AgentMax
      BY <1>1, <1>2, <1>4, <3>1
    <3>2. CASE agents'[m] + In(b, Adding(m)') <= agents[m] + In(b, Adding(m))
      BY <1>1, <1>2, <1>4, <1>5, <2>1, <3>2
    <3>3. QED
      BY <1>7, <2>1, <3>1, <3>2
  <2>4. QED
    BY <1>2, <2>2, <2>3
<1>8. QED
  BY <1>6, <1>7

\* The rows after a step of thread b.
LEMMA RowsMove ==
  ASSUME ShopInv, NEW b \in Buyers, MovesOnly(b),
         bought' \in [Templates -> [Members -> Nat]], wiped' = wiped,
         Holds(b) /\ Holds(b)' => buyer'[b].tpl = buyer[b].tpl,
         \A t \in Templates, m \in Members \ wiped :
             bought[t][m] + Claim(b, t, m)'
               <= bought'[t][m] + Claim(b, t, m)
  PROVE  RowsHeld'
<1> SUFFICES ASSUME NEW t \in Templates, NEW m \in Members
             PROVE  Cardinality(HoldersOf(t, m)') <= bought'[t][m]
  BY DEF RowsHeld
<1>0. CASE m \in wiped
  <2>1. HoldersOf(t, m)' = {} /\ bought'[t][m] \in Nat
    BY <1>0 DEF HoldersOf, Holds
  <2>2. Cardinality({}) = 0
    BY FS_EmptySet
  <2>3. QED
    BY <2>1, <2>2
<1>1. /\ bought[t][m] \in Nat /\ bought'[t][m] \in Nat
      /\ Cardinality(HoldersOf(t, m)) <= bought[t][m]
      /\ Cardinality(HoldersOf(t, m)) \in Nat /\ Cardinality(HoldersOf(t, m)') \in Nat
  BY ThreadSets, ThreadSetsNext DEF ShopInv, MarketTypeOK, RowsHeld
<1>2. /\ b \in HoldersOf(t, m) <=> Holds(b) /\ buyer[b].tpl = t /\ BuyerOf[b] = m
      /\ b \in HoldersOf(t, m)' <=> Holds(b)' /\ buyer'[b].tpl = t /\ BuyerOf[b] = m
  BY DEF HoldersOf
<1>3. Cardinality(HoldersOf(t, m)') + In(b, HoldersOf(t, m))
        = Cardinality(HoldersOf(t, m)) + In(b, HoldersOf(t, m)')
  BY ThreadCounts
<1>4. m \notin wiped =>
        bought[t][m] + In(b, HoldersOf(t, m)') <= bought'[t][m] + In(b, HoldersOf(t, m))
  BY <1>2 DEF In, Claim
<1>5. In(b, HoldersOf(t, m)) \in Int /\ In(b, HoldersOf(t, m)') \in Int
  BY DEF In
<1>6. QED
  BY <1>0, <1>1, <1>3, <1>4, <1>5

LEMMA ThreadsMove ==
  ASSUME ShopInv, NEW b \in Buyers, MovesOnly(b), ThreadAt(b)', wiped' = wiped
  PROVE  ThreadInv'
<1> SUFFICES ASSUME NEW c \in Buyers PROVE ThreadAt(c)'
  BY DEF ThreadInv
<1>1. CASE c # b
  <2>1. buyer'[c] = buyer[c] /\ ThreadAt(c)
    BY <1>1 DEF MovesOnly, ShopInv, ThreadInv
  <2>2. QED
    BY <2>1 DEF ThreadAt
<1>2. QED
  BY <1>1

MoneyFrame == UNCHANGED <<engine, purse, price, bought, gone, wiped, spent>>

LEMMA MoneyFrameKeeps ==
  ASSUME MoneyInv, MoneyFrame
  PROVE  MoneyInv'
<1>1. SoldIsKnown' /\ NobodyOverdrawn'
  BY DEF MoneyInv, MoneyFrame, SoldIsKnown, Sold, NobodyOverdrawn
<1>2. Balanced'
  BY DEF MoneyInv, MoneyFrame, Balanced, KeptOf, Share, AuthorEarn, Sold
<1>3. QED
  BY <1>1, <1>2 DEF MoneyInv

\* A purchase in flight has its row, and its template a price.
LEMMA HolderHasRow ==
  ASSUME ShopInv, NEW b \in Buyers, Holds(b)
  PROVE  bought[buyer[b].tpl][BuyerOf[b]] # 0 /\ price[buyer[b].tpl] # 0
<1> DEFINE t == buyer[b].tpl
           m == BuyerOf[b]
<1>1. t \in Templates /\ m \in Members
  BY MarketAssumption DEF ShopInv, MarketTypeOK, BuyerState
<1>2. b \in HoldersOf(t, m)
  BY DEF HoldersOf
<1>3. IsFiniteSet(HoldersOf(t, m)) /\ Cardinality(HoldersOf(t, m)) <= bought[t][m]
  BY <1>1, ThreadSets DEF ShopInv, RowsHeld
<1>4. Cardinality(HoldersOf(t, m)) # 0
  BY <1>2, <1>3, FS_EmptySet
<1>5. bought[t][m] # 0
  BY <1>1, <1>3, <1>4, ThreadSets DEF ShopInv, MarketTypeOK
<1>6. QED
  BY <1>1, <1>5 DEF ShopInv, MoneyInv, SoldIsKnown

-----------------------------------------------------------------------------
(* The steps. *)

LEMMA ShopTypes ==
  ASSUME MarketTypeOK, NEW b \in Buyers
  PROVE  /\ buyer[b] \in BuyerState /\ buyer[b].tpl \in Templates /\ buyer[b].pc \in BuyerSteps
         /\ BuyerOf[b] \in Members /\ AuthorOf[buyer[b].tpl] \in Members
         /\ hits[BuyerOf[b]] \in Nat /\ agents[BuyerOf[b]] \in Nat
BY MarketAssumption DEF MarketTypeOK, BuyerState

LEMMA MoveMoves ==
  ASSUME MarketTypeOK, NEW b \in Buyers, NEW pc \in BuyerSteps, Move(b, pc)
  PROVE  /\ MovesOnly(b) /\ buyer'[b].pc = pc /\ buyer'[b].tpl = buyer[b].tpl
         /\ buyer'[b].paid = buyer[b].paid /\ buyer'[b].running = buyer[b].running
         /\ buyer'[b].cut = buyer[b].cut
BY DEF MarketTypeOK, BuyerState, Move, MovesOnly

\* A step of one thread that sells nothing.
LEMMA QuietThread ==
  ASSUME ShopInv, NEW b \in Buyers, MovesOnly(b), MoneyFrame, mishaps' \in 0..MaxMarketFaults,
         hits' \in [Members -> Nat], agents' \in [Members -> Nat],
         ThreadAt(b)', Holds(b)' => Holds(b) /\ buyer'[b].tpl = buyer[b].tpl, LimitsKept'
  PROVE  ShopInv'
<1>1. MarketTypeOK' /\ MoneyInv'
  BY MoneyFrameKeeps DEF ShopInv, MarketTypeOK, MoneyFrame, MovesOnly
<1>2. RowsHeld'
  <2>1. \A t \in Templates, m \in Members : bought'[t][m] = bought[t][m] /\ bought[t][m] \in Nat
    BY DEF MoneyFrame, ShopInv, MarketTypeOK
  <2>2. \A t, m : /\ Claim(b, t, m) \in {0, 1} /\ Claim(b, t, m)' \in {0, 1}
                  /\ Claim(b, t, m)' = 1 => Claim(b, t, m) = 1
    BY DEF Claim
  <2>3. \A t \in Templates, m \in Members :
            bought[t][m] + Claim(b, t, m)' <= bought'[t][m] + Claim(b, t, m)
    BY <2>1, <2>2
  <2>4. bought' \in [Templates -> [Members -> Nat]]
    BY <1>1 DEF MarketTypeOK
  <2>5. QED
    BY <2>3, <2>4, RowsMove DEF MoneyFrame
<1>3. ThreadInv'
  BY ThreadsMove DEF MoneyFrame
<1>4. QED
  BY <1>1, <1>2, <1>3 DEF ShopInv

\* What a thread counts for, from where it stands.
LEMMA CountsFor ==
  ASSUME NEW b \in Buyers
  PROVE  /\ buyer[b].pc \in {"pay", "record"} => Asks(b) = 1
         /\ buyer[b].pc \notin {"pay", "record"} => Asks(b) = 0
         /\ buyer[b].pc = "agent add" => AddsAgent(b) = 1
         /\ buyer[b].pc # "agent add" => AddsAgent(b) = 0
         /\ buyer'[b].pc \in {"pay", "record"} => Asks(b)' = 1
         /\ buyer'[b].pc \notin {"pay", "record"} => Asks(b)' = 0
         /\ buyer'[b].pc = "agent add" => AddsAgent(b)' = 1
         /\ buyer'[b].pc # "agent add" => AddsAgent(b)' = 0
BY Zenon DEF Asks, AddsAgent

LEMMA LimitsStay ==
  ASSUME ShopInv, NEW b \in Buyers, MovesOnly(b), UNCHANGED <<hits, agents>>,
         Asks(b)' <= Asks(b), AddsAgent(b)' <= AddsAgent(b)
  PROVE  LimitsKept'
<1>1. /\ hits \in [Members -> Nat] /\ agents \in [Members -> Nat]
      /\ hits[BuyerOf[b]] \in Nat /\ agents[BuyerOf[b]] \in Nat
      /\ Asks(b) \in {0, 1} /\ Asks(b)' \in {0, 1}
      /\ AddsAgent(b) \in {0, 1} /\ AddsAgent(b)' \in {0, 1}
  BY ShopTypes DEF ShopInv, MarketTypeOK, Asks, AddsAgent
<1>2. /\ hits'[BuyerOf[b]] + Asks(b)' <= hits[BuyerOf[b]] + Asks(b)
      /\ agents'[BuyerOf[b]] + AddsAgent(b)' <= agents[BuyerOf[b]] + AddsAgent(b)
  BY <1>1
<1>3. QED
  BY <1>1, <1>2, LimitsMove

LEMMA ThreadSteps ==
  ASSUME ShopInv, NEW b \in Buyers,
         \/ \E t \in Templates : StartBuy(b, t)
         \/ PurchaseAllowed(b) \/ BuyRaises(b) \/ RecordPurchase(b) \/ BuyLaunches(b)
         \/ BuyLaunchRaises(b) \/ BuyDies(b) \/ CountAgents(b) \/ AddAgent(b)
  PROVE  ShopInv'
<1> USE DEF MoneyFrame
<1> DEFINE u == BuyerOf[b]
<1>0. /\ MarketTypeOK /\ ThreadAt(b) /\ buyer[b] \in BuyerState /\ buyer[b].tpl \in Templates
      /\ u \in Members /\ hits \in [Members -> Nat] /\ agents \in [Members -> Nat]
      /\ mishaps \in 0..MaxMarketFaults /\ MaxMarketFaults \in Nat
      /\ PurchaseMax \in Nat /\ AgentMax \in Nat
  BY ShopTypes, MarketAssumption DEF ShopInv, ThreadInv, MarketTypeOK
<1>1. /\ hits[u] \in Nat /\ agents[u] \in Nat /\ Asks(b) \in {0, 1} /\ Asks(b)' \in {0, 1}
      /\ AddsAgent(b) \in {0, 1} /\ AddsAgent(b)' \in {0, 1}
  BY <1>0 DEF Asks, AddsAgent
<1>2. ASSUME MovesOnly(b), UNCHANGED <<hits, agents>>, Asks(b)' <= Asks(b),
             AddsAgent(b)' <= AddsAgent(b)
      PROVE  LimitsKept'
  BY <1>2, LimitsStay
<1>3. ASSUME NEW t \in Templates, StartBuy(b, t) PROVE ShopInv'
  <2>1. /\ buyer'[b] = [Waiting EXCEPT !.pc = "allowed", !.tpl = t]
        /\ buyer' = [buyer EXCEPT ![b] = buyer'[b]]
    BY <1>0, <1>3 DEF StartBuy, MarketTypeOK
  <2>2. /\ buyer'[b] \in BuyerState /\ buyer'[b].pc = "allowed" /\ buyer'[b].tpl = t
        /\ ~buyer'[b].paid
    BY <2>1 DEF Waiting, BuyerState, BuyerSteps
  <2>3. MovesOnly(b)
    BY <1>0, <2>1, <2>2 DEF MovesOnly, MarketTypeOK
  <2>4. ThreadAt(b)' /\ ~Holds(b)'
    BY <1>3, <2>2 DEF ThreadAt, StartBuy, Holds
  <2>5. LimitsKept'
    <3>1. Asks(b)' = 0 /\ AddsAgent(b)' = 0
      BY <2>2, CountsFor
    <3>2. Asks(b)' <= Asks(b) /\ AddsAgent(b)' <= AddsAgent(b)
      BY <1>1, <3>1
    <3>3. QED
      BY <1>2, <1>3, <2>3, <3>2 DEF StartBuy
  <2>6. QED
    BY <1>0, <1>3, <2>3, <2>4, <2>5, QuietThread DEF StartBuy
<1>4. CASE PurchaseAllowed(b)
  <2>1. /\ (Move(b, "pay") /\ hits[u] < PurchaseMax) \/ Move(b, "ended")
        /\ buyer[b].pc = "allowed"
    BY <1>4 DEF PurchaseAllowed
  <2>2. /\ MovesOnly(b) /\ buyer'[b].tpl = buyer[b].tpl /\ buyer'[b].paid = buyer[b].paid
        /\ (buyer'[b].pc = "pay" /\ hits[u] < PurchaseMax) \/ buyer'[b].pc = "ended"
    BY <1>0, <2>1, MoveMoves DEF BuyerSteps
  <2>3. ThreadAt(b)' /\ ~Holds(b)'
    BY <1>0, <2>1, <2>2 DEF ThreadAt, Holds
  <2>4. AddsAgent(b)' = 0
    BY <2>2 DEF AddsAgent
  <2>5. LimitsKept'
    <3>1. \/ hits'[u] + Asks(b)' <= hits[u] + Asks(b)
          \/ hits'[u] < PurchaseMax
      BY <1>1, <1>4, <2>1, <2>2 DEF PurchaseAllowed, Asks
    <3>2. agents'[u] + AddsAgent(b)' <= agents[u] + AddsAgent(b)
      BY <1>1, <1>4, <2>4 DEF PurchaseAllowed
    <3>3. hits' = hits /\ agents' = agents
      BY <1>4 DEF PurchaseAllowed
    <3>4. QED
      BY <1>0, <2>2, <3>1, <3>2, <3>3, LimitsMove
  <2>6. QED
    BY <1>0, <1>4, <2>2, <2>3, <2>5, QuietThread DEF PurchaseAllowed
<1>5. CASE BuyRaises(b)
  <2>1. /\ MovesOnly(b) /\ buyer'[b].pc = "ended" /\ buyer'[b].paid = buyer[b].paid
        /\ buyer[b].pc = "pay"
    BY <1>0, <1>5, MoveMoves DEF BuyRaises, BuyerSteps
  <2>2. ThreadAt(b)' /\ ~Holds(b)'
    BY <1>0, <2>1 DEF ThreadAt, Holds
  <2>3. LimitsKept'
    <3>1. Asks(b)' = 0 /\ AddsAgent(b)' = 0
      BY <2>1, CountsFor
    <3>2. Asks(b)' <= Asks(b) /\ AddsAgent(b)' <= AddsAgent(b)
      BY <1>1, <3>1
    <3>3. QED
      BY <1>2, <1>5, <2>1, <3>2 DEF BuyRaises
  <2>4. mishaps' \in 0..MaxMarketFaults
    BY <1>0, <1>5 DEF BuyRaises
  <2>5. QED
    BY <1>0, <1>5, <2>1, <2>2, <2>3, <2>4, QuietThread DEF BuyRaises
<1>6. CASE RecordPurchase(b)
  <2>1. /\ MovesOnly(b) /\ buyer'[b].pc = "launch" /\ buyer'[b].paid = buyer[b].paid
        /\ buyer'[b].tpl = buyer[b].tpl /\ buyer[b].pc = "record"
    BY <1>0, <1>6, MoveMoves DEF RecordPurchase, BuyerSteps
  <2>2. ThreadAt(b)' /\ (Holds(b)' => Holds(b))
    <3>1. wiped' = wiped
      BY <1>6 DEF RecordPurchase
    <3>2. QED
      BY <1>0, <2>1, <3>1 DEF ThreadAt, Holds
  <2>3. hits' = [hits EXCEPT ![u] = @ + 1] /\ agents' = agents
    BY <1>6 DEF RecordPurchase
  <2>4. LimitsKept'
    <3>1. hits'[u] + Asks(b)' <= hits[u] + Asks(b)
      <4>1. Asks(b) = 1 /\ Asks(b)' = 0
        BY <2>1, CountsFor
      <4>2. hits'[u] = hits[u] + 1
        BY <1>0, <2>3
      <4>3. QED
        BY <1>1, <4>1, <4>2
    <3>2. agents'[u] + AddsAgent(b)' <= agents[u] + AddsAgent(b)
      <4>1. AddsAgent(b)' = 0
        BY <2>1, CountsFor
      <4>2. QED
        BY <1>1, <2>3, <4>1
    <3>3. /\ hits' \in [Members -> Nat] /\ agents' \in [Members -> Nat]
          /\ \A m \in Members \ {u} : hits'[m] = hits[m] /\ agents'[m] = agents[m]
      BY <1>0, <2>3
    <3>4. QED
      BY <2>1, <3>1, <3>2, <3>3, LimitsMove
  <2>5. hits' \in [Members -> Nat]
    BY <1>0, <2>3
  <2>6. QED
    BY <1>0, <1>6, <2>1, <2>2, <2>4, <2>5, QuietThread DEF RecordPurchase
<1>7. CASE BuyLaunches(b) \/ BuyLaunchRaises(b) \/ BuyDies(b)
  <2>1. /\ MovesOnly(b) /\ buyer'[b].tpl = buyer[b].tpl
        /\ buyer'[b].pc \in {"ended", "refund"} /\ buyer[b].pc \notin {"idle", "ended"}
        /\ buyer'[b].pc = "ended" => buyer'[b].running \/ buyer'[b].cut
        /\ buyer'[b].pc = "refund" => buyer[b].pc = "launch"
        /\ UNCHANGED <<hits, agents>>
    <3>1. CASE BuyLaunchRaises(b)
      BY <1>0, <3>1, MoveMoves DEF BuyLaunchRaises, BuyerSteps
    <3>2. CASE BuyLaunches(b) \/ BuyDies(b)
      <4>1. PICK v \in {[buyer[b] EXCEPT !.pc = "ended", !.running = TRUE],
                        [buyer[b] EXCEPT !.pc = "ended", !.cut = TRUE]} :
                 buyer' = [buyer EXCEPT ![b] = v]
        BY <3>2 DEF BuyLaunches, BuyDies
      <4>2. /\ v \in BuyerState /\ v.pc = "ended" /\ v.tpl = buyer[b].tpl
            /\ v.running \/ v.cut
        BY <1>0 DEF BuyerState, BuyerSteps
      <4>3. MovesOnly(b) /\ buyer'[b] = v
        BY <1>0, <4>1, <4>2 DEF MovesOnly, MarketTypeOK
      <4>5. buyer[b].pc \notin {"idle", "ended"} /\ UNCHANGED <<hits, agents>>
        BY <3>2 DEF BuyLaunches, BuyDies
      <4>6. QED
        BY <4>2, <4>3, <4>5
    <3>3. QED
      BY <1>7, <3>1, <3>2
  <2>2. ThreadAt(b)' /\ (Holds(b)' => Holds(b))
    <3>1. wiped' = wiped
      BY <1>7 DEF BuyLaunches, BuyLaunchRaises, BuyDies
    <3>2. QED
      BY <1>0, <2>1, <3>1 DEF ThreadAt, Holds
  <2>3. LimitsKept'
    <3>1. Asks(b)' = 0 /\ AddsAgent(b)' = 0
      BY <2>1, CountsFor
    <3>2. Asks(b)' <= Asks(b) /\ AddsAgent(b)' <= AddsAgent(b)
      BY <1>1, <3>1
    <3>3. QED
      BY <1>2, <2>1, <3>2
  <2>4. mishaps' \in 0..MaxMarketFaults
    BY <1>0, <1>7 DEF BuyLaunches, BuyLaunchRaises, BuyDies
  <2>5. QED
    BY <1>0, <1>7, <2>1, <2>2, <2>3, <2>4, QuietThread DEF BuyLaunches, BuyLaunchRaises, BuyDies
<1>8. CASE CountAgents(b)
  <2>1. /\ MovesOnly(b) /\ buyer'[b].pc = "agent add" /\ buyer'[b].paid = buyer[b].paid
        /\ buyer[b].pc = "idle" /\ agents[u] < AgentMax
    BY <1>0, <1>8, MoveMoves DEF CountAgents, BuyerSteps
  <2>2. ThreadAt(b)' /\ ~Holds(b)'
    BY <1>0, <2>1 DEF ThreadAt, Holds
  <2>3. LimitsKept'
    <3>1. hits'[u] + Asks(b)' <= hits[u] + Asks(b) /\ agents'[u] < AgentMax
      <4>1. Asks(b)' = 0
        BY <2>1, CountsFor
      <4>2. QED
        <5>1. hits' = hits /\ agents' = agents
          BY <1>8 DEF CountAgents
        <5>2. hits'[u] = hits[u] /\ agents'[u] = agents[u] /\ agents[u] < AgentMax
          BY <2>1, <5>1, Zenon
        <5>3. QED
          BY <1>1, <4>1, <5>2
    <3>2. hits' = hits /\ agents' = agents
      BY <1>8 DEF CountAgents
    <3>3. QED
      BY <1>0, <2>1, <3>1, <3>2, LimitsMove
  <2>4. QED
    BY <1>0, <1>8, <2>1, <2>2, <2>3, QuietThread DEF CountAgents
<1>9. CASE AddAgent(b)
  <2>1. /\ MovesOnly(b) /\ buyer'[b].pc = "idle" /\ buyer'[b].paid = buyer[b].paid
        /\ buyer[b].pc = "agent add"
    BY <1>0, <1>9, MoveMoves DEF AddAgent, BuyerSteps
  <2>2. ThreadAt(b)' /\ ~Holds(b)'
    BY <1>0, <2>1 DEF ThreadAt, Holds
  <2>3. /\ agents' = [agents EXCEPT ![u] = @ + 1] \/ agents' = agents
        /\ hits' = hits
    BY <1>9 DEF AddAgent
  <2>4. LimitsKept'
    <3>1. hits'[u] + Asks(b)' <= hits[u] + Asks(b)
      <4>1. Asks(b)' = 0
        BY <2>1, CountsFor
      <4>2. QED
        BY <1>1, <2>3, <4>1
    <3>2. agents'[u] + AddsAgent(b)' <= agents[u] + AddsAgent(b)
      <4>1. AddsAgent(b) = 1 /\ AddsAgent(b)' = 0
        BY <2>1, CountsFor
      <4>2. agents'[u] = agents[u] + 1 \/ agents'[u] = agents[u]
        BY <1>0, <2>3
      <4>3. QED
        BY <1>1, <4>1, <4>2
    <3>3. /\ hits' \in [Members -> Nat] /\ agents' \in [Members -> Nat]
          /\ \A m \in Members \ {u} : hits'[m] = hits[m] /\ agents'[m] = agents[m]
      BY <1>0, <2>3
    <3>4. QED
      BY <2>1, <3>1, <3>2, <3>3, LimitsMove
  <2>5. agents' \in [Members -> Nat]
    BY <1>0, <2>3
  <2>6. QED
    BY <1>0, <1>9, <2>1, <2>2, <2>4, <2>5, QuietThread DEF AddAgent
<1>10. QED
  BY <1>3, <1>4, <1>5, <1>6, <1>7, <1>8, <1>9

\* What the platform keeps is a number.
LEMMA KeptType ==
  ASSUME MarketTypeOK, IsFiniteSet(Sold), NEW r \in [Templates -> [Members -> Nat]]
  PROVE  KeptOf(r) \in Int
<1> DEFINE F == [t \in Templates |-> Share(t) * SumOver(r[t], Members)]
<1>1. \A t \in Sold : F[t] \in Int
  BY RowSums DEF Sold
<1>2. SumOver(F, Sold) \in Int
  BY <1>1, SumType
<1>3. QED
  BY <1>2 DEF KeptOf

\* A step that sells the template of thread b, or takes the sale back.
LEMMA Traded ==
  ASSUME ShopInv, NEW b \in Buyers, MovesOnly(b),
         UNCHANGED <<engine, price, hits, agents, gone, wiped, spent, mishaps>>,
         purse' \in [Members -> Int], bought' \in [Templates -> [Members -> Nat]],
         buyer[b].tpl \in Sold,
         \A t \in Templates : t # buyer[b].tpl => bought'[t] = bought[t],
         SumOver(purse', Members) + KeptOf(bought') = SumOver(purse, Members) + KeptOf(bought),
         NobodyOverdrawn', RowsHeld', ThreadAt(b)', Asks(b)' <= Asks(b), AddsAgent(b)' <= AddsAgent(b)
  PROVE  ShopInv'
<1>1. MarketTypeOK'
  BY DEF ShopInv, MarketTypeOK, MovesOnly
<1>2. SoldIsKnown'
  <2>1. Sold' = Sold /\ price' = price
    BY DEF Sold
  <2>2. IsFiniteSet(Sold) /\ \A t \in Templates : price[t] = 0 => \A m \in Members : bought[t][m] = 0
    BY DEF ShopInv, MoneyInv, SoldIsKnown
  <2>3. \A t \in Templates : price[t] = 0 => t # buyer[b].tpl
    BY DEF Sold
  <2>4. QED
    BY <2>1, <2>2, <2>3 DEF SoldIsKnown
<1>3. Balanced'
  <2>1. KeptOf(bought)' = KeptOf(bought')
    BY DEF KeptOf, Share, AuthorEarn, Sold
  <2>2. /\ MarketTypeOK /\ IsFiniteSet(Sold) /\ Balanced
        /\ wiped' = wiped /\ spent' = spent
    BY DEF ShopInv, MoneyInv, SoldIsKnown
  <2>3. \A m \in Members : purse'[m] \in Int
    OBVIOUS
  <2>4. /\ SumOver(purse, Members) \in Int /\ SumOver(spent, Members) \in Int
        /\ KeptOf(bought) \in Int /\ KeptOf(bought') \in Int
        /\ SumOver(purse', Members) \in Int
    BY <2>2, <2>3, MoneySums, KeptType, SumType, MarketAssumption
  <2>5. SumOver(purse', Members) + SumOver(spent, Members) + KeptOf(bought')
          = SumOver(purse, Members) + SumOver(spent, Members) + KeptOf(bought)
    BY <2>4
  <2>6. QED
    BY <2>1, <2>2, <2>5 DEF Balanced
<1>4. LimitsKept' /\ ThreadInv'
  BY LimitsStay, ThreadsMove
<1>5. QED
  BY <1>1, <1>2, <1>3, <1>4 DEF ShopInv, MoneyInv

\* What a purchase in hand changes, and from what to what.
LEMMA TradeTypes ==
  ASSUME ShopInv, NEW b \in Buyers, buyer[b].pc \in {"pay", "refund"}, price[buyer[b].tpl] # 0
  PROVE  LET t == buyer[b].tpl
             u == BuyerOf[b]
             a == AuthorOf[t]
         IN  /\ MarketTypeOK /\ t \in Sold /\ t \in Templates /\ IsFiniteSet(Sold) /\ ThreadAt(b)
             /\ u \in Members /\ a \in Members /\ u # a
             /\ purse \in [Members -> Int] /\ bought \in [Templates -> [Members -> Nat]]
             /\ price[t] \in Nat /\ AuthorEarn(t) \in Nat /\ purse[u] \in Int /\ purse[a] \in Int
             /\ bought[t] \in [Members -> Nat] /\ bought[t][u] \in Nat
             /\ buyer \in [Buyers -> BuyerState] /\ buyer[b] \in BuyerState
<1>1. MarketTypeOK /\ ThreadAt(b) /\ IsFiniteSet(Sold)
  BY DEF ShopInv, ThreadInv, MoneyInv, SoldIsKnown
<1>2. buyer[b].tpl \in Sold /\ AuthorOf[buyer[b].tpl] # BuyerOf[b]
  BY <1>1, ShopTypes DEF Sold, ThreadAt
<1>3. QED
  BY <1>1, <1>2, ShopTypes, EarnBounds DEF MarketTypeOK

LEMMA ChargeKeeps ==
  ASSUME ShopInv, NEW b \in Buyers, buyer[b].pc = "pay", price[buyer[b].tpl] # 0,
         purse[BuyerOf[b]] >= price[buyer[b].tpl], Charge(b, buyer[b].tpl),
         UNCHANGED <<engine, price, hits, agents, gone, wiped, spent, mishaps>>
  PROVE  ShopInv'
<1> DEFINE t == buyer[b].tpl
           u == BuyerOf[b]
           a == AuthorOf[t]
<1>0. /\ MarketTypeOK /\ t \in Sold /\ t \in Templates /\ IsFiniteSet(Sold) /\ ThreadAt(b)
      /\ u \in Members /\ a \in Members /\ u # a
      /\ purse \in [Members -> Int] /\ bought \in [Templates -> [Members -> Nat]]
      /\ price[t] \in Nat /\ AuthorEarn(t) \in Nat /\ purse[u] \in Int /\ purse[a] \in Int
      /\ bought[t] \in [Members -> Nat] /\ bought[t][u] \in Nat
      /\ buyer \in [Buyers -> BuyerState] /\ buyer[b] \in BuyerState
  BY TradeTypes
<1>1. /\ purse' \in [Members -> Int]
      /\ purse'[u] = purse[u] - price[t] /\ purse'[a] = purse[a] + AuthorEarn(t)
      /\ \A m \in Members : m # u /\ m # a => purse'[m] = purse[m]
  BY <1>0 DEF Charge
<1>2. /\ bought' \in [Templates -> [Members -> Nat]] /\ bought'[t][u] = bought[t][u] + 1
      /\ \A m \in Members : m # u => bought'[t][m] = bought[t][m]
      /\ \A s \in Templates : s # t => bought'[s] = bought[s]
  BY <1>0 DEF Charge
<1>3. /\ MovesOnly(b) /\ buyer'[b].pc = "record" /\ buyer'[b].tpl = t
  <2>1. buyer' = [buyer EXCEPT ![b] = [buyer[b] EXCEPT !.pc = "record", !.paid = TRUE]]
    BY <1>0 DEF Charge
  <2>2. QED
    BY <1>0, <2>1 DEF MovesOnly, BuyerState, BuyerSteps
<1>4. SumOver(purse', Members) + KeptOf(bought') = SumOver(purse, Members) + KeptOf(bought)
  <2>1. SaleOf(t, u, a, purse, purse', bought, bought')
    BY <1>0, <1>1, <1>2 DEF SaleOf
  <2>2. QED
    BY <1>0, <2>1, Sale
<1>5. NobodyOverdrawn'
  <2>1. NobodyOverdrawn /\ engine' = engine
    BY DEF ShopInv, MoneyInv
  <2>2. purse'[u] >= 0
    BY <1>0, <1>1
  <2>3. purse[a] >= 0 => purse'[a] >= 0
    BY <1>0, <1>1
  <2>4. QED
    BY <1>1, <2>1, <2>2, <2>3 DEF NobodyOverdrawn
<1>6. RowsHeld'
  <2>1. ASSUME NEW s \in Templates, NEW m \in Members
        PROVE  bought[s][m] + Claim(b, s, m)' <= bought'[s][m] + Claim(b, s, m)
    <3>1. /\ bought[s][m] \in Nat /\ bought'[s][m] \in Nat
          /\ Claim(b, s, m) \in {0, 1} /\ Claim(b, s, m)' \in {0, 1}
      BY <1>0, <1>2 DEF Claim
    <3>2. CASE s = t /\ m = u
      BY <1>0, <1>2, <3>1, <3>2
    <3>3. CASE ~(s = t /\ m = u)
      <4>1. Claim(b, s, m)' = 0
        BY <1>3, <3>3 DEF Claim
      <4>2. bought'[s][m] = bought[s][m]
        BY <1>2, <3>3
      <4>3. QED
        BY <3>1, <4>1, <4>2
    <3>4. QED
      BY <3>2, <3>3
  <2>2. QED
    BY <1>2, <1>3, <2>1, RowsMove
<1>7. ThreadAt(b)'
  BY <1>0, <1>3 DEF ThreadAt
<1>8. Asks(b)' <= Asks(b) /\ AddsAgent(b)' <= AddsAgent(b)
  <2>1. Asks(b) = 1 /\ Asks(b)' = 1 /\ AddsAgent(b) = 0 /\ AddsAgent(b)' = 0
    BY <1>3, CountsFor
  <2>2. QED
    BY <2>1
<1>9. QED
  BY <1>0, <1>1, <1>2, <1>3, <1>4, <1>5, <1>6, <1>7, <1>8, Traded

\* A refund takes a sale back: read backwards, it is one.
LEMMA ReverseKeeps ==
  ASSUME ShopInv, NEW b \in Buyers, buyer[b].pc = "refund", price[buyer[b].tpl] # 0,
         bought[buyer[b].tpl][BuyerOf[b]] # 0,
         engine = "postgres" => purse[AuthorOf[buyer[b].tpl]] >= AuthorEarn(buyer[b].tpl),
         Reverse(b, buyer[b].tpl),
         UNCHANGED <<engine, price, hits, agents, gone, wiped, spent, mishaps>>
  PROVE  ShopInv'
<1> DEFINE t == buyer[b].tpl
           u == BuyerOf[b]
           a == AuthorOf[t]
<1>0. /\ MarketTypeOK /\ t \in Sold /\ t \in Templates /\ IsFiniteSet(Sold) /\ ThreadAt(b)
      /\ u \in Members /\ a \in Members /\ u # a
      /\ purse \in [Members -> Int] /\ bought \in [Templates -> [Members -> Nat]]
      /\ price[t] \in Nat /\ AuthorEarn(t) \in Nat /\ purse[u] \in Int /\ purse[a] \in Int
      /\ bought[t] \in [Members -> Nat] /\ bought[t][u] \in Nat
      /\ buyer \in [Buyers -> BuyerState] /\ buyer[b] \in BuyerState
  BY TradeTypes
<1>1. /\ purse' \in [Members -> Int]
      /\ purse'[u] = purse[u] + price[t] /\ purse'[a] = purse[a] - AuthorEarn(t)
      /\ \A m \in Members : m # u /\ m # a => purse'[m] = purse[m]
  BY <1>0 DEF Reverse
<1>2. /\ bought' \in [Templates -> [Members -> Nat]] /\ bought'[t][u] = bought[t][u] - 1
      /\ \A m \in Members : m # u => bought'[t][m] = bought[t][m]
      /\ \A s \in Templates : s # t => bought'[s] = bought[s]
  <2>1. /\ bought' = [bought EXCEPT ![t] = [bought[t] EXCEPT ![u] = bought[t][u] - 1]]
        /\ bought[t][u] - 1 \in Nat
    <3>1. bought' = [bought EXCEPT ![t] = [bought[t] EXCEPT ![u] = bought[t][u] - 1]]
      BY Zenon DEF Reverse
    <3>2. bought[t][u] # 0
      OBVIOUS
    <3>3. \A n \in Nat : n # 0 => n - 1 \in Nat
      OBVIOUS
    <3>4. bought[t][u] - 1 \in Nat
      BY <1>0, <3>2, <3>3, Zenon
    <3>5. QED
      BY <3>1, <3>4
  <2>2. [bought[t] EXCEPT ![u] = bought[t][u] - 1] \in [Members -> Nat]
    BY <1>0, <2>1
  <2>3. QED
    BY <1>0, <2>1, <2>2
<1>3. /\ MovesOnly(b) /\ buyer'[b].pc = "ended" /\ ~buyer'[b].paid
  <2>1. buyer' = [buyer EXCEPT ![b] = [buyer[b] EXCEPT !.pc = "ended", !.paid = FALSE]]
    BY <1>0 DEF Reverse
  <2>2. QED
    BY <1>0, <2>1 DEF MovesOnly, BuyerState, BuyerSteps
<1>4. SumOver(purse', Members) + KeptOf(bought') = SumOver(purse, Members) + KeptOf(bought)
  <2>1. SaleOf(t, u, a, purse', purse, bought', bought)
    BY <1>0, <1>1, <1>2 DEF SaleOf
  <2>2. QED
    BY <1>0, <2>1, Sale
<1>5. NobodyOverdrawn'
  <2>1. NobodyOverdrawn /\ engine' = engine
    BY DEF ShopInv, MoneyInv
  <2>2. purse[u] >= 0 => purse'[u] >= 0
    BY <1>0, <1>1
  <2>3. engine = "postgres" => purse'[a] >= 0
    BY <1>0, <1>1
  <2>4. QED
    BY <1>0, <1>1, <2>1, <2>2, <2>3 DEF NobodyOverdrawn
<1>6. RowsHeld'
  <2>1. ASSUME NEW s \in Templates, NEW m \in Members \ wiped
        PROVE  bought[s][m] + Claim(b, s, m)' <= bought'[s][m] + Claim(b, s, m)
    <3>1. /\ bought[s][m] \in Nat /\ bought'[s][m] \in Nat
          /\ Claim(b, s, m) \in {0, 1}
      BY <1>0, <1>2 DEF Claim
    <3>2. Claim(b, s, m)' = 0
      BY <1>3 DEF Claim, Holds
    <3>3. CASE s = t /\ m = u
      <4>1. Claim(b, s, m) = 1
        BY <3>3 DEF Claim, Holds
      <4>2. QED
        BY <1>0, <1>2, <3>1, <3>2, <3>3, <4>1
    <3>4. CASE ~(s = t /\ m = u)
      <4>1. bought'[s][m] = bought[s][m]
        BY <1>2, <3>4
      <4>2. QED
        BY <3>1, <3>2, <4>1
    <3>5. QED
      BY <3>3, <3>4
  <2>2. ~Holds(b)'
    BY <1>3 DEF Holds
  <2>3. QED
    BY <1>2, <1>3, <2>1, <2>2, RowsMove
<1>7. ThreadAt(b)'
  BY <1>3 DEF ThreadAt
<1>8. Asks(b)' <= Asks(b) /\ AddsAgent(b)' <= AddsAgent(b)
  <2>1. Asks(b) = 0 /\ Asks(b)' = 0 /\ AddsAgent(b) = 0 /\ AddsAgent(b)' = 0
    BY <1>3, CountsFor
  <2>2. QED
    BY <2>1
<1>9. QED
  BY <1>0, <1>1, <1>2, <1>3, <1>4, <1>5, <1>6, <1>7, <1>8, Traded

LEMMA BuySteps ==
  ASSUME ShopInv, NEW b \in Buyers,
         BuyTemplate(b) \/ RefundSqlite(b) \/ RefundPostgres(b)
  PROVE  ShopInv'
<1> DEFINE t == buyer[b].tpl
           u == BuyerOf[b]
           a == AuthorOf[t]
<1>0. /\ MarketTypeOK /\ ThreadAt(b) /\ t \in Templates /\ u \in Members /\ a \in Members
      /\ price[t] \in Nat /\ purse[u] \in Int /\ purse[a] \in Int /\ AuthorEarn(t) \in Nat
      /\ buyer \in [Buyers -> BuyerState] /\ buyer[b] \in BuyerState
      /\ hits \in [Members -> Nat] /\ agents \in [Members -> Nat] /\ mishaps \in 0..MaxMarketFaults
  BY ShopTypes, EarnBounds DEF ShopInv, ThreadInv, MarketTypeOK
<1>1. ASSUME MovesOnly(b), buyer'[b].pc = "ended", UNCHANGED <<purse, bought>>,
             UNCHANGED <<engine, price, hits, agents, gone, wiped, spent, mishaps>>,
             buyer'[b].paid => buyer'[b].cut \/ u \in wiped
      PROVE  ShopInv'
  <2>1. ThreadAt(b)' /\ ~Holds(b)'
    BY <1>1 DEF ThreadAt, Holds
  <2>2. Asks(b)' <= Asks(b) /\ AddsAgent(b)' <= AddsAgent(b)
    <3>1. Asks(b)' = 0 /\ AddsAgent(b)' = 0 /\ Asks(b) \in {0, 1} /\ AddsAgent(b) \in {0, 1}
      BY <1>1, CountsFor DEF Asks, AddsAgent
    <3>2. QED
      BY <3>1
  <2>3. LimitsKept'
    BY <1>1, <2>2, LimitsStay
  <2>4. QED
    BY <1>0, <1>1, <2>1, <2>3, QuietThread DEF MoneyFrame
<1>2. CASE BuyTemplate(b)
  <2>1. CASE price[t] = 0 \/ u \in gone \/ purse[u] < price[t]
    <3>1. /\ Move(b, "ended") /\ UNCHANGED <<purse, bought>>
          /\ UNCHANGED <<engine, price, hits, agents, gone, wiped, spent, mishaps>>
      BY <1>2, <2>1 DEF BuyTemplate
    <3>2. MovesOnly(b) /\ buyer'[b].pc = "ended" /\ buyer'[b].paid = buyer[b].paid
      BY <1>0, <3>1, MoveMoves DEF BuyerSteps
    <3>3. ~buyer[b].paid
      BY <1>0, <1>2 DEF ThreadAt, BuyTemplate
    <3>4. QED
      BY <1>1, <3>1, <3>2, <3>3
  <2>2. CASE price[t] # 0 /\ u \notin gone /\ ~(purse[u] < price[t])
    <3>1. /\ buyer[b].pc = "pay" /\ Charge(b, t)
          /\ UNCHANGED <<engine, price, hits, agents, gone, wiped, spent, mishaps>>
      BY <1>2, <2>2 DEF BuyTemplate
    <3>2. purse[u] >= price[t]
      BY <1>0, <2>2
    <3>3. QED
      BY <2>2, <3>1, <3>2, ChargeKeeps
  <2>3. QED
    BY <2>1, <2>2
<1>3. ASSUME buyer[b].pc = "refund", bought[t][u] = 0 \/ price[t] = 0 PROVE u \in wiped
  BY <1>3, HolderHasRow DEF Holds
<1>4. CASE RefundSqlite(b)
  <2>1. /\ buyer[b].pc = "refund" /\ engine = "sqlite"
        /\ UNCHANGED <<engine, price, hits, agents, gone, wiped, spent, mishaps>>
    BY <1>4 DEF RefundSqlite
  <2>2. CASE bought[t][u] = 0 \/ price[t] = 0
    <3>1. Move(b, "ended") /\ UNCHANGED <<purse, bought>>
      BY <1>4, <2>2 DEF RefundSqlite
    <3>2. MovesOnly(b) /\ buyer'[b].pc = "ended"
      BY <1>0, <3>1, MoveMoves DEF BuyerSteps
    <3>3. QED
      BY <1>1, <1>3, <2>1, <2>2, <3>1, <3>2
  <2>3. CASE bought[t][u] # 0 /\ price[t] # 0
    <3>1. Reverse(b, t)
      BY <1>4, <2>3 DEF RefundSqlite
    <3>2. QED
      BY <2>1, <2>3, <3>1, ReverseKeeps
  <2>4. QED
    BY <2>2, <2>3
<1>5. CASE RefundPostgres(b)
  <2> DEFINE short == purse[a] < AuthorEarn(t)
  <2>1. /\ buyer[b].pc = "refund"
        /\ UNCHANGED <<engine, price, hits, agents, gone, wiped, spent, mishaps>>
    BY <1>5 DEF RefundPostgres
  <2>2. CASE bought[t][u] = 0 \/ price[t] = 0 \/ short
    <3>1. /\ buyer' = [buyer EXCEPT ![b].pc = "ended", ![b].cut = short]
          /\ UNCHANGED <<purse, bought>>
      BY <1>5, <2>2 DEF RefundPostgres
    <3>2. buyer' = [buyer EXCEPT ![b] = [buyer[b] EXCEPT !.pc = "ended", !.cut = short]]
      BY <3>1
    <3>3. short \in BOOLEAN
      OBVIOUS
    <3> HIDE DEF short
    <3>4. MovesOnly(b) /\ buyer'[b].pc = "ended" /\ buyer'[b].cut = short
      BY <1>0, <3>2, <3>3 DEF MovesOnly, BuyerState, BuyerSteps
    <3>5. short \/ u \in wiped
      BY <1>3, <2>1, <2>2
    <3>6. QED
      BY <1>1, <2>1, <3>1, <3>4, <3>5
  <2>3. CASE bought[t][u] # 0 /\ price[t] # 0 /\ ~short
    <3>1. Reverse(b, t)
      BY <1>5, <2>3 DEF RefundPostgres
    <3>2. purse[a] >= AuthorEarn(t)
      BY <1>0, <2>3
    <3>3. QED
      BY <2>1, <2>3, <3>1, <3>2, ReverseKeeps
  <2>4. QED
    BY <2>2, <2>3
<1>6. QED
  BY <1>2, <1>4, <1>5

\* A step that no thread takes part in.
LEMMA QuietShop ==
  ASSUME ShopInv, buyer' = buyer, MarketTypeOK', MoneyInv', wiped \subseteq wiped',
         \A m \in Members : hits'[m] <= hits[m] /\ agents'[m] <= agents[m],
         \A t \in Templates, m \in Members : bought'[t][m] = bought[t][m] \/ m \in wiped'
  PROVE  ShopInv'
<1>1. /\ \A t, m : /\ m \in wiped' => HoldersOf(t, m)' = {}
                    /\ HoldersOf(t, m)' \subseteq HoldersOf(t, m)
      /\ \A m : Asking(m)' = Asking(m) /\ Adding(m)' = Adding(m) /\ Room(m)' = Room(m)
  BY DEF HoldersOf, Asking, Adding, Holds, Room, Mine
<1>2. RowsHeld'
  <2>1. ASSUME NEW t \in Templates, NEW m \in Members
        PROVE  Cardinality(HoldersOf(t, m)') <= bought'[t][m]
    <3>1. /\ Cardinality(HoldersOf(t, m)) <= bought[t][m]
          /\ bought[t][m] \in Nat /\ bought'[t][m] \in Nat
      BY DEF ShopInv, RowsHeld, MarketTypeOK
    <3>2. Cardinality({}) = 0
      BY FS_EmptySet
    <3>3. /\ Cardinality(HoldersOf(t, m)') <= Cardinality(HoldersOf(t, m))
          /\ Cardinality(HoldersOf(t, m)) \in Nat /\ Cardinality(HoldersOf(t, m)') \in Nat
      <4>1. IsFiniteSet(HoldersOf(t, m)) /\ HoldersOf(t, m)' \subseteq HoldersOf(t, m)
        <5>1. HoldersOf(t, m)' \subseteq HoldersOf(t, m)
          BY DEF HoldersOf, Holds
        <5>2. QED
          BY <5>1, ThreadSets
      <4>2. Cardinality(HoldersOf(t, m)') <= Cardinality(HoldersOf(t, m))
        BY <4>1, FS_Subset
      <4>3. QED
        BY <4>2, ThreadSets, ThreadSetsNext
    <3>4. QED
      BY <1>1, <3>1, <3>2, <3>3
  <2>2. QED
    BY <2>1 DEF RowsHeld
<1>3. LimitsKept'
  <2>1. ASSUME NEW m \in Members
        PROVE  /\ hits'[m] + Cardinality(Asking(m)) < PurchaseMax + Room(m)
               /\ agents'[m] + Cardinality(Adding(m)) < AgentMax + Room(m)
    <3>1. PICK t : t \in Templates
      BY MarketAssumption
    <3>2. /\ Cardinality(Asking(m)) \in Nat /\ Cardinality(Adding(m)) \in Nat
          /\ Room(m) \in Nat /\ PurchaseMax \in Nat /\ AgentMax \in Nat
          /\ hits[m] \in Nat /\ agents[m] \in Nat /\ hits'[m] \in Nat /\ agents'[m] \in Nat
      BY <3>1, ThreadSets, RoomBounds, MarketAssumption DEF ShopInv, MarketTypeOK
    <3>3. /\ hits[m] + Cardinality(Asking(m)) < PurchaseMax + Room(m)
          /\ agents[m] + Cardinality(Adding(m)) < AgentMax + Room(m)
      BY DEF ShopInv, LimitsKept
    <3>4. QED
      BY <3>2, <3>3
  <2>2. QED
    BY <1>1, <2>1 DEF LimitsKept
<1>4. ThreadInv'
  BY DEF ShopInv, ThreadInv, ThreadAt
<1>5. QED
  BY <1>2, <1>3, <1>4 DEF ShopInv

LEMMA PublishKeeps ==
  ASSUME ShopInv, NEW t \in Templates, Publish(t)
  PROVE  ShopInv'
<1>0. /\ MarketTypeOK /\ MoneyInv /\ IsFiniteSet(Sold) /\ PriceMax \in Nat /\ PriceMin \in Nat \ {0}
      /\ price[t] = 0 /\ UNCHANGED <<engine, purse, bought, hits, buyer, agents, gone, wiped, spent, mishaps>>
      /\ bought \in [Templates -> [Members -> Nat]] /\ hits \in [Members -> Nat]
      /\ agents \in [Members -> Nat] /\ price \in [Templates -> 0..PriceMax]
  BY MarketAssumption DEF ShopInv, MoneyInv, SoldIsKnown, MarketTypeOK, Publish
<1>1. PICK p \in Prices : PriceMin <= p /\ p <= PriceMax /\ price' = [price EXCEPT ![t] = p]
  BY DEF Publish
<1>2. p \in 0..PriceMax /\ p # 0
  BY <1>0, <1>1, MarketAssumption
<1>3. /\ price'[t] # 0 /\ \A s \in Templates \ {t} : price'[s] = price[s]
      /\ price' \in [Templates -> 0..PriceMax]
  BY <1>0, <1>1, <1>2
<1>4. MarketTypeOK'
  BY <1>0, <1>3 DEF MarketTypeOK
<1>5. Sold' = Sold \cup {t} /\ t \notin Sold
  BY <1>0, <1>3 DEF Sold
<1>6. SoldIsKnown'
  <2>1. IsFiniteSet(Sold')
    BY <1>0, <1>5, FS_AddElement
  <2>2. \A s \in Templates : price'[s] = 0 => \A m \in Members : bought'[s][m] = 0
    BY <1>0, <1>3 DEF MoneyInv, SoldIsKnown
  <2>3. QED
    BY <2>1, <2>2 DEF SoldIsKnown
<1>7. Balanced'
  <2> DEFINE F == [s \in Templates |-> Share(s) * SumOver(bought[s], Members)]
             G == [s \in Templates |-> Share(s)' * SumOver(bought[s], Members)]
  <2>1. KeptOf(bought)' = SumOver(G, Sold \cup {t})
    BY <1>0, <1>5 DEF KeptOf
  <2>2. \A s \in Sold : G[s] = F[s]
    <3>1. \A s \in Sold : s \in Templates \ {t}
      BY <1>5 DEF Sold
    <3>2. \A s \in Sold : Share(s)' = Share(s)
      BY <1>3, <3>1 DEF Share, AuthorEarn
    <3>3. QED
      BY <3>1, <3>2
  <2>3. G[t] = 0
    <3>1. \A m \in Members : bought[t][m] = 0
      BY <1>0 DEF MoneyInv, SoldIsKnown
    <3>2. SumOver(bought[t], Members) = 0 * Cardinality(Members)
      BY <3>1, SumConst, MarketAssumption
    <3>3. Cardinality(Members) \in Nat
      BY FS_CardinalityType, MarketAssumption
    <3>4. Share(t)' \in Int
      <4>1. price'[t] \in Nat /\ price'[t] \div 2 \in Nat
        BY <1>0, <1>3
      <4>2. Max({1, price'[t] \div 2}) = IF 1 <= price'[t] \div 2 THEN price'[t] \div 2 ELSE 1
        BY <4>1, MaxOfTwo
      <4>3. QED
        BY <4>1, <4>2 DEF Share, AuthorEarn
    <3>5. QED
      BY <3>2, <3>3, <3>4
  <2>4. \A s \in Sold : F[s] \in Int
    BY <1>0, RowSums DEF Sold
  <2> HIDE DEF F, G
  <2>5. SumOver(G, Sold \cup {t}) = G[t] + SumOver(G, Sold)
    BY <1>0, <1>5, <2>2, <2>3, <2>4, SumGrow, SMTT(30)
  <2>6. SumOver(G, Sold) = SumOver(F, Sold) /\ SumOver(F, Sold) \in Int
    BY <1>0, <2>2, <2>4, SumSame, SumType
  <2>7. SumOver(F, Sold) = KeptOf(bought)
    BY DEF KeptOf, F
  <2>8. KeptOf(bought)' = KeptOf(bought)
    BY <2>1, <2>3, <2>5, <2>6, <2>7
  <2>9. Balanced /\ UNCHANGED <<gone, wiped, purse, spent>>
    BY <1>0 DEF MoneyInv
  <2>10. QED
    BY <2>8, <2>9 DEF Balanced
<1>8. NobodyOverdrawn'
  BY <1>0 DEF MoneyInv, NobodyOverdrawn
<1>9. \A m \in Members : hits'[m] <= hits[m] /\ agents'[m] <= agents[m]
  BY <1>0
<1>10. QED
  BY <1>0, <1>4, <1>6, <1>7, <1>8, <1>9, QuietShop DEF MoneyInv

LEMMA LeaveKeeps ==
  ASSUME ShopInv, NEW m \in Members, Leave(m)
  PROVE  ShopInv'
<1>0. /\ MarketTypeOK /\ MoneyInv /\ IsFiniteSet(Sold) /\ PriceMax \in Nat
      /\ bought \in [Templates -> [Members -> Nat]] /\ hits \in [Members -> Nat]
      /\ agents \in [Members -> Nat] /\ price \in [Templates -> 0..PriceMax]
      /\ UNCHANGED <<engine, purse, hits, buyer, spent, mishaps>>
  BY MarketAssumption DEF ShopInv, MoneyInv, SoldIsKnown, MarketTypeOK, Leave
<1>1. /\ gone' \in SUBSET Members /\ wiped' = wiped \cup {m} /\ wiped' \in SUBSET Members
  BY <1>0 DEF Leave, MarketTypeOK
<1>2. price' = [t \in Templates |-> IF t \in Authored(m) /\ ~SoldByIt(m) THEN 0 ELSE price[t]]
  BY DEF Leave
<1>3. /\ bought' \in [Templates -> [Members -> Nat]]
      /\ \A t \in Templates, n \in Members : bought'[t][n] = IF n = m THEN 0 ELSE bought[t][n]
  BY <1>0 DEF Leave
<1>11. agents' \in [Members -> Nat] /\ \A n \in Members : agents'[n] <= agents[n]
  BY <1>0 DEF Leave
<1>12. /\ price' \in [Templates -> 0..PriceMax]
       /\ \A t \in Templates : price'[t] = price[t] \/ (price'[t] = 0 /\ t \in Authored(m) /\ ~SoldByIt(m))
  BY <1>0, <1>2
<1>4. MarketTypeOK'
  BY <1>0, <1>1, <1>3, <1>11, <1>12 DEF MarketTypeOK
<1>5. SoldIsKnown'
  <2>1. Sold' \subseteq Sold
    BY <1>12 DEF Sold
  <2>2. IsFiniteSet(Sold')
    BY <1>0, <2>1, FS_Subset
  <2>3. ASSUME NEW t \in Templates, price'[t] = 0, NEW n \in Members PROVE bought'[t][n] = 0
    <3>1. bought[t][n] \in Nat
      BY <1>0
    <3>2. CASE price[t] = 0
      BY <1>0, <1>3, <3>2 DEF MoneyInv, SoldIsKnown
    <3>3. CASE price[t] # 0
      <4>1. t \in Authored(m) /\ ~SoldByIt(m)
        BY <1>12, <2>3, <3>3
      <4>2. ~(bought[t][n] > 0)
        BY <4>1 DEF SoldByIt
      <4>3. QED
        BY <1>3, <3>1, <4>2
    <3>4. QED
      BY <3>2, <3>3
  <2>4. QED
    BY <2>2, <2>3 DEF SoldIsKnown
<1>6. Balanced'
  BY <1>1 DEF Balanced
<1>7. NobodyOverdrawn'
  BY <1>0 DEF MoneyInv, NobodyOverdrawn
<1>8. \A n \in Members : hits'[n] <= hits[n] /\ agents'[n] <= agents[n]
  BY <1>0, <1>11
<1>9. \A t \in Templates, n \in Members : bought'[t][n] = bought[t][n] \/ n \in wiped'
  BY <1>1, <1>3
<1>10. QED
  BY <1>0, <1>1, <1>4, <1>5, <1>6, <1>7, <1>8, <1>9, QuietShop DEF MoneyInv

LEMMA CountersKeep ==
  ASSUME ShopInv, NEW m \in Members, Forget(m) \/ DropAgent(m)
  PROVE  ShopInv'
<1>0. /\ MarketTypeOK /\ hits \in [Members -> Nat] /\ agents \in [Members -> Nat]
      /\ UNCHANGED <<engine, purse, price, bought, buyer, gone, wiped, spent, mishaps>>
  BY DEF ShopInv, MarketTypeOK, Forget, DropAgent
<1>1. /\ hits' \in [Members -> Nat] /\ agents' \in [Members -> Nat]
      /\ \A n \in Members : hits'[n] <= hits[n] /\ agents'[n] <= agents[n]
  <2>1. CASE Forget(m)
    <3>1. PICK n \in {0, hits[m] - 1} : hits' = [hits EXCEPT ![m] = n]
      BY <2>1 DEF Forget
    <3>2. n \in Nat /\ n <= hits[m] /\ agents' = agents
      BY <1>0, <2>1 DEF Forget
    <3>3. QED
      BY <1>0, <3>1, <3>2
  <2>2. CASE DropAgent(m)
    BY <1>0, <2>2 DEF DropAgent
  <2>3. QED
    BY <2>1, <2>2
<1>2. MarketTypeOK'
  BY <1>0, <1>1 DEF MarketTypeOK
<1>3. MoneyInv'
  BY <1>0, MoneyFrameKeeps DEF ShopInv, MoneyFrame
<1>4. QED
  BY <1>0, <1>1, <1>2, <1>3, QuietShop

LEMMA SpendKeeps ==
  ASSUME ShopInv, NEW m \in Members, SpendElsewhere(m)
  PROVE  ShopInv'
<1>0. /\ MarketTypeOK /\ MoneyInv /\ IsFiniteSet(Sold) /\ IsFiniteSet(Members)
      /\ purse \in [Members -> Int] /\ spent \in [Members -> 0..MaxSpent] /\ MaxSpent \in Nat
      /\ hits \in [Members -> Nat] /\ agents \in [Members -> Nat]
      /\ UNCHANGED <<engine, price, bought, hits, buyer, agents, gone, wiped, mishaps>>
  BY MarketAssumption DEF ShopInv, MoneyInv, SoldIsKnown, MarketTypeOK, SpendElsewhere
<1>1. /\ purse' \in [Members -> Int] /\ purse'[m] = purse[m] + (-1) /\ purse'[m] >= 0
      /\ \A n \in Members \ {m} : purse'[n] = purse[n]
  BY <1>0 DEF SpendElsewhere
<1>2. /\ spent' \in [Members -> 0..MaxSpent] /\ spent'[m] = spent[m] + 1
      /\ \A n \in Members \ {m} : spent'[n] = spent[n]
  BY <1>0 DEF SpendElsewhere
<1>3. MarketTypeOK'
  BY <1>0, <1>1, <1>2 DEF MarketTypeOK
<1>4. SoldIsKnown'
  BY <1>0 DEF MoneyInv, SoldIsKnown, Sold
<1>5. Balanced'
  <2>1. \A n \in Members : purse[n] \in Int /\ spent[n] \in Int
    BY <1>0
  <2>2. SumOver(purse', Members) = SumOver(purse, Members) + (-1)
    BY <1>0, <1>1, <2>1, SumChange
  <2>3. SumOver(spent', Members) = SumOver(spent, Members) + 1
    BY <1>0, <1>2, <2>1, SumChange
  <2>4. KeptOf(bought)' = KeptOf(bought)
    BY <1>0 DEF KeptOf, Share, AuthorEarn, Sold
  <2>5. /\ SumOver(purse, Members) \in Int /\ SumOver(spent, Members) \in Int
        /\ KeptOf(bought) \in Int
    BY <1>0, MoneySums
  <2>6. SumOver(purse', Members) + SumOver(spent', Members) + KeptOf(bought)'
          = SumOver(purse, Members) + SumOver(spent, Members) + KeptOf(bought)
    BY <2>2, <2>3, <2>4, <2>5
  <2>7. wiped' = wiped /\ Balanced
    BY <1>0 DEF MoneyInv
  <2>8. QED
    BY <2>6, <2>7 DEF Balanced
<1>6. NobodyOverdrawn'
  BY <1>0, <1>1 DEF MoneyInv, NobodyOverdrawn
<1>7. \A n \in Members : hits'[n] <= hits[n] /\ agents'[n] <= agents[n]
  BY <1>0
<1>8. QED
  BY <1>0, <1>3, <1>4, <1>5, <1>6, <1>7, QuietShop DEF MoneyInv

LEMMA ShopInit == MarketInit => ShopInv
<1> SUFFICES ASSUME MarketInit PROVE ShopInv
  OBVIOUS
<1> USE DEF MarketInit
<1>0. IsFiniteSet(Members) /\ Start \in Nat /\ Cardinality(Members) \in Nat
  BY MarketAssumption, FS_CardinalityType
<1>1. MarketTypeOK
  <2>1. Waiting \in BuyerState
    <3>1. (CHOOSE t \in Templates : TRUE) \in Templates
      BY MarketAssumption
    <3>2. QED
      BY <3>1 DEF Waiting, BuyerState, BuyerSteps
  <2>2. QED
    BY <2>1, MarketAssumption DEF MarketTypeOK
<1>2. Sold = {} /\ SoldIsKnown
  <2>1. Sold = {}
    BY DEF Sold
  <2>2. QED
    BY <2>1, FS_EmptySet DEF SoldIsKnown
<1>3. Balanced
  <2>1. SumOver(purse, Members) = Start * Cardinality(Members)
    BY <1>0, SumConst
  <2>2. SumOver(spent, Members) = 0 * Cardinality(Members)
    BY <1>0, SumConst
  <2>3. KeptOf(bought) = 0
    <3> DEFINE F == [t \in Templates |-> Share(t) * SumOver(bought[t], Members)]
    <3>1. SumOver(F, {}) = 0
      BY SumStep, FS_EmptySet
    <3>2. QED
      BY <1>2, <3>1 DEF KeptOf
  <2>4. Start * Cardinality(Members) \in Int /\ 0 * Cardinality(Members) = 0
    BY <1>0
  <2>5. QED
    BY <2>1, <2>2, <2>3, <2>4 DEF Balanced
<1>4. NobodyOverdrawn
  BY <1>0 DEF NobodyOverdrawn
<1>5. \A b \in Buyers : buyer[b].pc = "idle" /\ ~buyer[b].paid
  BY DEF Waiting
<1>6. ThreadInv
  BY <1>5 DEF ThreadInv, ThreadAt
<1>7. RowsHeld
  <2>1. \A t, m : HoldersOf(t, m) = {}
    BY <1>5 DEF HoldersOf, Holds
  <2>2. QED
    BY <2>1, FS_EmptySet DEF RowsHeld
<1>8. LimitsKept
  <2>1. \A m : Asking(m) = {} /\ Adding(m) = {}
    BY <1>5 DEF Asking, Adding
  <2>2. \A m \in Members : Room(m) \in Nat /\ Room(m) >= 1
    BY RoomBounds
  <2>3. Cardinality({}) = 0 /\ PurchaseMax \in Nat /\ AgentMax \in Nat
    BY FS_EmptySet, MarketAssumption
  <2>4. QED
    BY <2>1, <2>2, <2>3 DEF LimitsKept
<1>9. QED
  BY <1>1, <1>2, <1>3, <1>4, <1>6, <1>7, <1>8 DEF ShopInv, MoneyInv

LEMMA ShopNext == ShopInv /\ [MarketNext]_marketVars => ShopInv'
<1> SUFFICES ASSUME ShopInv, [MarketNext]_marketVars PROVE ShopInv'
  OBVIOUS
<1>1. ASSUME NEW t \in Templates, Publish(t) PROVE ShopInv'
  BY <1>1, PublishKeeps
<1>2. ASSUME NEW m \in Members, Leave(m) \/ Forget(m) \/ SpendElsewhere(m) \/ DropAgent(m)
      PROVE  ShopInv'
  BY <1>2, LeaveKeeps, CountersKeep, SpendKeeps
<1>3. ASSUME NEW b \in Buyers,
             \/ \E t \in Templates : StartBuy(b, t)
             \/ PurchaseAllowed(b) \/ BuyRaises(b) \/ RecordPurchase(b) \/ BuyLaunches(b)
             \/ BuyLaunchRaises(b) \/ BuyDies(b) \/ CountAgents(b) \/ AddAgent(b)
      PROVE  ShopInv'
  BY <1>3, ThreadSteps
<1>4. ASSUME NEW b \in Buyers, BuyTemplate(b) \/ RefundSqlite(b) \/ RefundPostgres(b)
      PROVE  ShopInv'
  BY <1>4, BuySteps
<1>5. CASE UNCHANGED marketVars
  <2>1. MarketTypeOK' /\ MoneyInv'
    BY <1>5, MoneyFrameKeeps DEF ShopInv, MarketTypeOK, MoneyFrame, marketVars
  <2>2. \A m \in Members : hits'[m] <= hits[m] /\ agents'[m] <= agents[m]
    BY <1>5 DEF ShopInv, MarketTypeOK, marketVars
  <2>3. QED
    BY <1>5, <2>1, <2>2, QuietShop DEF marketVars
<1>6. QED
  BY <1>1, <1>2, <1>3, <1>4, <1>5 DEF MarketNext

\* The marketplace, whichever engine keeps it and however its threads cross:
\* buy_template and refund_template_purchase make and lose no credit, no two
\* purchases pass on one balance, a buyer whose launch failed has the price back
\* unless a fault, the author's empty purse or the buyer's own erasure
\* (delete_user) kept it, and neither the burst guard nor the count of custom
\* agents is overshot by more than the threads that were in flight.
THEOREM MarketSafe == MarketSpec => []MarketKept
<1>1. ShopInv => MarketKept
  <2> SUFFICES ASSUME ShopInv PROVE MarketKept
    OBVIOUS
  <2>1. MarketTypeOK /\ MarketConserves /\ NobodyOverdrawn
    BY ConservesIs DEF ShopInv, MoneyInv
  <2>2. FailedLaunchRefunded
    BY DEF ShopInv, ThreadInv, ThreadAt, FailedLaunchRefunded
  <2>3. LimitsBounded
    <3>1. ASSUME NEW m \in Members
          PROVE  hits[m] < PurchaseMax + Room(m) /\ agents[m] < AgentMax + Room(m)
      <4>1. PICK t : t \in Templates
        BY MarketAssumption
      <4>2. /\ Cardinality(Asking(m)) \in Nat /\ Cardinality(Adding(m)) \in Nat
            /\ Room(m) \in Nat /\ PurchaseMax \in Nat /\ AgentMax \in Nat
            /\ hits[m] \in Nat /\ agents[m] \in Nat
            /\ hits[m] + Cardinality(Asking(m)) < PurchaseMax + Room(m)
            /\ agents[m] + Cardinality(Adding(m)) < AgentMax + Room(m)
        BY <4>1, ThreadSets, RoomBounds, MarketAssumption DEF ShopInv, MarketTypeOK, LimitsKept
      <4>3. QED
        BY <4>2
    <3>2. QED
      BY <3>1 DEF LimitsBounded, Room, Mine
  <2>4. QED
    BY <2>1, <2>2, <2>3 DEF MarketKept
<1>2. QED
  BY <1>1, ShopInit, ShopNext, PTL DEF MarketSpec
=============================================================================
