------------------------------ MODULE Pairing ------------------------------
(***************************************************************************)
(* Telegram chats paired with accounts, and the bot that launches boards   *)
(* for them.                                                               *)
(*                                                                         *)
(* The website issues pairing codes and drops links in threads of its own; *)
(* the bot is a single process that handles one update at a time, so the   *)
(* wait for a board it launched holds up the updates behind it.            *)
(***************************************************************************)
EXTENDS Integers, FiniteSets, Sequences

CONSTANTS
    Users, Chats,
    Codes,          \* codes secrets.token_hex may draw
    PairSecond,     \* ticks of a second: PostgreSQL stores whole seconds
    LinkTtl,        \* TELEGRAM_LINK_TTL, in ticks
    Credits,        \* credits an account starts with
    PairTime,       \* bound: ticks of the run
    MaxUpdates,     \* bound: updates the bot receives
    MaxBotFaults    \* bound: deaths of the bot and replies that raise

Nobody == "nobody"
NoCode == "no code"

ASSUME PairingAssumption ==
    /\ Chats # {} /\ Nobody \notin Users /\ NoCode \notin Codes
    /\ PairSecond \in Nat \ {0} /\ LinkTtl \in Nat /\ LinkTtl % PairSecond = 0
    /\ Credits \in Nat /\ PairTime \in Nat /\ MaxUpdates \in Nat /\ MaxBotFaults \in Nat

VARIABLES
    base,       \* "sqlite" or "postgres"
    codes,      \* telegram_codes
    links,      \* telegram_links: the account of each chat, its primary key
    credit,     \* users.credits
    web,        \* where each account's request for a code stands
    inbox,      \* updates Telegram holds for the bot, oldest first
    bot,        \* the update in hand
    clock,      \* ticks
    updates,    \* how much of each bound is used up
    botFaults,
    accepted,   \* history: when each code was redeemed
    born,       \* history: when each code was issued
    launched    \* history: boards launched for each account

pairHistory == <<accepted, born, launched>>
pairVars == <<base, codes, links, credit, web, inbox, bot, clock, updates, botFaults,
              accepted, born, launched>>

NoCodeRow == [owner |-> Nobody, expires |-> 0, used |-> FALSE]

Web == [pc : {"idle", "look", "insert"}, at : 0..PairTime]
Update == [kind : {"link"}, chat : Chats, code : Codes] \cup [kind : {"goal"}, chat : Chats]
Bot == [pc : {"idle", "consume", "deduct", "announce", "launch", "poll"}, chat : Chats,
        code : Codes \cup {NoCode}, user : Users \cup {Nobody}]

PairingTypeOK ==
    /\ base \in {"sqlite", "postgres"}
    /\ codes \in [Codes -> [owner : Users \cup {Nobody}, expires : Nat, used : BOOLEAN]]
    /\ links \in [Chats -> Users \cup {Nobody}]
    /\ credit \in [Users -> 0..Credits]
    /\ web \in [Users -> Web]
    /\ inbox \in Seq(Update) /\ bot \in Bot
    /\ clock \in 0..PairTime /\ updates \in 0..MaxUpdates /\ botFaults \in 0..MaxBotFaults
    /\ accepted \in [Codes -> SUBSET (0..PairTime)] /\ born \in [Codes -> 0..PairTime]
    /\ launched \in [Users -> Nat]

AtRest == [pc |-> "idle", chat |-> CHOOSE c \in Chats : TRUE, code |-> NoCode, user |-> Nobody]

PairingInit ==
    /\ base \in {"sqlite", "postgres"}
    /\ codes = [c \in Codes |-> NoCodeRow]
    /\ links \in {l \in [Chats -> Users \cup {Nobody}] :
                      \A a, b \in Chats : l[a] = l[b] /\ l[a] # Nobody => a = b}
    /\ credit = [u \in Users |-> Credits]
    /\ web = [u \in Users |-> [pc |-> "idle", at |-> 0]]
    /\ inbox = <<>> /\ bot = AtRest
    /\ clock = 0 /\ updates = 0 /\ botFaults = 0
    /\ accepted = [c \in Codes |-> {}] /\ born = [c \in Codes |-> 0]
    /\ launched = [u \in Users |-> 0]

PairTick ==
    /\ clock < PairTime
    /\ clock' = clock + 1
    /\ UNCHANGED <<base, codes, links, credit, web, inbox, bot, updates, botFaults, pairHistory>>

Whole(t) == (t \div PairSecond) * PairSecond
Stamp(t) == IF base = "postgres" THEN Whole(t) ELSE t

------------------------------------------------------------------------------
(* GET /api/telegram/link: a code that is still valid is served again. *)

Dead(c, at) == codes[c].used \/ codes[c].expires < at
PurgedCodes(at) == [c \in Codes |-> IF Dead(c, at) THEN NoCodeRow ELSE codes[c]]
Active(u, at) == {c \in Codes : codes[c].owner = u /\ ~Dead(c, at)}
FreshCode(u, at) == [owner |-> u, expires |-> at + LinkTtl, used |-> FALSE]
Drawable == {c \in Codes : codes[c].owner = Nobody /\ born[c] = 0}

\* On SQLite the purge takes the write lock: the whole is one step.  A code that
\* is served again commits nothing.
NewCodeSqlite(u) ==
    /\ base = "sqlite" /\ web[u].pc = "idle" /\ clock > 0
    /\ Active(u, clock) = {}
    /\ \E c \in Drawable :
        /\ codes' = [PurgedCodes(clock) EXCEPT ![c] = FreshCode(u, clock)]
        /\ born' = [born EXCEPT ![c] = clock]
    /\ UNCHANGED <<base, links, credit, web, inbox, bot, clock, updates, botFaults, accepted, launched>>

\* On PostgreSQL the purge, the look and the insert are statements of their own.
PurgeCodes(u) ==
    /\ base = "postgres" /\ web[u].pc = "idle" /\ clock > 0
    /\ codes' = PurgedCodes(Whole(clock))
    /\ web' = [web EXCEPT ![u] = [pc |-> "look", at |-> clock]]
    /\ UNCHANGED <<base, links, credit, inbox, bot, clock, updates, botFaults, pairHistory>>

LookForCode(u) ==
    /\ web[u].pc = "look"
    /\ web' = [web EXCEPT ![u].pc = IF Active(u, Whole(web[u].at)) = {} THEN "insert" ELSE "idle"]
    /\ UNCHANGED <<base, codes, links, credit, inbox, bot, clock, updates, botFaults, pairHistory>>

InsertCode(u) ==
    /\ web[u].pc = "insert"
    /\ \E c \in Drawable :
        /\ codes' = [codes EXCEPT ![c] = FreshCode(u, Whole(web[u].at))]
        /\ born' = [born EXCEPT ![c] = web[u].at]
    /\ web' = [web EXCEPT ![u] = [pc |-> "idle", at |-> 0]]
    /\ UNCHANGED <<base, links, credit, inbox, bot, clock, updates, botFaults, accepted, launched>>

\* DELETE /api/telegram/link
Unlink(u) ==
    /\ \E c \in Chats : links[c] = u
    /\ links' = [c \in Chats |-> IF links[c] = u THEN Nobody ELSE links[c]]
    /\ UNCHANGED <<base, codes, credit, web, inbox, bot, clock, updates, botFaults, pairHistory>>

------------------------------------------------------------------------------
(* The bot. *)

\* Somebody writes to it: a code the website showed, or a goal.
Receive(m) ==
    /\ updates < MaxUpdates
    /\ m.kind = "link" => born[m.code] # 0
    /\ updates' = updates + 1
    /\ inbox' = Append(inbox, m)
    /\ UNCHANGED <<base, codes, links, credit, web, bot, clock, botFaults, pairHistory>>

\* Updates are handled one after the other.  A goal from a chat that is not
\* linked runs without an account.
Take ==
    /\ bot.pc = "idle" /\ inbox # <<>>
    /\ LET m == Head(inbox) IN
        bot' = IF m.kind = "link"
               THEN [AtRest EXCEPT !.pc = "consume", !.chat = m.chat, !.code = m.code]
               ELSE [AtRest EXCEPT !.pc = IF links[m.chat] = Nobody THEN "launch" ELSE "deduct",
                                   !.chat = m.chat, !.user = links[m.chat]]
    /\ inbox' = Tail(inbox)
    /\ UNCHANGED <<base, codes, links, credit, web, clock, updates, botFaults, pairHistory>>

\* Mutant: the code stays in the table as it was.
ConsumeCodeKeeps ==
    /\ bot.pc = "consume"
    /\ LET c == bot.code
           u == codes[c].owner
       IN  IF u = Nobody \/ Dead(c, Stamp(clock)) THEN UNCHANGED <<links, accepted>>
           ELSE /\ links' = [h \in Chats |-> IF h = bot.chat THEN u
                                             ELSE IF links[h] = u THEN Nobody ELSE links[h]]
                /\ accepted' = [accepted EXCEPT ![c] = @ \cup {clock}]
    /\ bot' = AtRest
    /\ UNCHANGED <<base, codes, credit, web, inbox, clock, updates, botFaults, born, launched>>

\* consume_telegram_link_code: one transaction on both databases.  The purge
\* goes with the links and the code; a code that is not valid undoes it.
ConsumeCode ==
    /\ bot.pc = "consume"
    /\ LET c == bot.code
           u == codes[c].owner
       IN  IF u = Nobody \/ Dead(c, Stamp(clock)) THEN UNCHANGED <<codes, links, accepted>>
           ELSE /\ links' = [h \in Chats |-> IF h = bot.chat THEN u
                                             ELSE IF links[h] = u THEN Nobody ELSE links[h]]
                /\ codes' = [PurgedCodes(Stamp(clock)) EXCEPT ![c].used = TRUE]
                /\ accepted' = [accepted EXCEPT ![c] = @ \cup {clock}]
    /\ bot' = AtRest
    /\ UNCHANGED <<base, credit, web, inbox, clock, updates, botFaults, born, launched>>

\* deduct_credit: the balance is tested by the UPDATE itself.
Deduct ==
    /\ bot.pc = "deduct"
    /\ IF credit[bot.user] > 0
       THEN credit' = [credit EXCEPT ![bot.user] = @ - 1] /\ bot' = [bot EXCEPT !.pc = "announce"]
       ELSE UNCHANGED credit /\ bot' = AtRest
    /\ UNCHANGED <<base, codes, links, web, inbox, clock, updates, botFaults, pairHistory>>

\* The project row and the reply come before the launch is tried.
Announce ==
    /\ bot.pc = "announce"
    /\ bot' = [bot EXCEPT !.pc = "launch"]
    /\ UNCHANGED <<base, codes, links, credit, web, inbox, clock, updates, botFaults, pairHistory>>

LaunchRuns ==
    /\ bot.pc = "launch"
    /\ launched' = IF bot.user = Nobody THEN launched ELSE [launched EXCEPT ![bot.user] = @ + 1]
    /\ bot' = [bot EXCEPT !.pc = "poll"]
    /\ UNCHANGED <<base, codes, links, credit, web, inbox, clock, updates, botFaults, accepted, born>>

\* A launch that raises gives the credit back.
LaunchFails ==
    /\ bot.pc = "launch"
    /\ credit' = IF bot.user = Nobody THEN credit ELSE [credit EXCEPT ![bot.user] = @ + 1]
    /\ bot' = AtRest
    /\ UNCHANGED <<base, codes, links, web, inbox, clock, updates, botFaults, pairHistory>>

\* Sixty looks at the board at most, then the next update.
PollEnds ==
    /\ bot.pc = "poll"
    /\ bot' = AtRest
    /\ UNCHANGED <<base, codes, links, credit, web, inbox, clock, updates, botFaults, pairHistory>>

\* The bot dies with its update, or a reply raises in its handler.
BotFails ==
    /\ bot.pc # "idle" /\ botFaults < MaxBotFaults
    /\ botFaults' = botFaults + 1
    /\ bot' = AtRest
    /\ UNCHANGED <<base, codes, links, credit, web, inbox, clock, updates, pairHistory>>

BotStep == Take \/ ConsumeCode \/ Deduct \/ Announce \/ LaunchRuns \/ LaunchFails \/ PollEnds

PairingNext ==
    \/ \E u \in Users : NewCodeSqlite(u) \/ PurgeCodes(u) \/ LookForCode(u) \/ InsertCode(u) \/ Unlink(u)
    \/ \E m \in Update : Receive(m)
    \/ BotStep \/ BotFails \/ PairTick

PairingSpec == PairingInit /\ [][PairingNext]_pairVars

------------------------------------------------------------------------------
(* A user holds at most one active code at a time (new_telegram_link_code);    *)
(* on PostgreSQL two requests of one user may each insert theirs.             *)
OneActiveCode ==
    base = "sqlite" => \A u \in Users : Cardinality(Active(u, clock)) <= 1

(* An account answers to one chat: re-pairing moves the link, it never stacks. *)
LinkIsOneToOne ==
    \A a, b \in Chats : links[a] = links[b] /\ links[a] # Nobody => a = b

(* A pairing code binds one chat once, and only while it is valid, give or    *)
(* take the second PostgreSQL's integers cut off.                             *)
CodeIsOneTime ==
    \A c \in Codes :
        /\ Cardinality(accepted[c]) <= 1
        /\ \A at \in accepted[c] :
            at <= born[c] + LinkTtl + (IF base = "sqlite" THEN 0 ELSE PairSecond - 1)

(* Unless the bot died under it, a credit is spent for a board that was       *)
(* launched, and given back otherwise.                                        *)
BotChargesLaunches ==
    botFaults = 0 =>
        \A u \in Users :
            credit[u] + launched[u] + (IF bot.user = u /\ bot.pc \in {"announce", "launch"} THEN 1 ELSE 0)
                = Credits

(* Codes, links and the credits of the bot's launches, together.              *)
PairingKept == PairingTypeOK /\ OneActiveCode /\ LinkIsOneToOne /\ CodeIsOneTime /\ BotChargesLaunches
=============================================================================
