------------------------------ MODULE Sessions ------------------------------
(***************************************************************************)
(* Who may act for one account: the session tokens, the password and its   *)
(* reset tokens, and the lockout of failed logins.                         *)
(*                                                                         *)
(* A session token is a signed time of issue; nothing lists the ones in    *)
(* circulation.  Logout, a password change and a reset end all of them by  *)
(* storing their own time in the account's row, and every request compares *)
(* the two.  Requests run in threads of their own; each statement of the   *)
(* database is a step (one transaction on SQLite, where the purge that     *)
(* begins it takes the write lock, one step per statement on PostgreSQL)   *)
(* and so is each reading of the clock.                                    *)
(***************************************************************************)
EXTENDS Integers, FiniteSets, FiniteSetsExt

CONSTANTS
    Clients,        \* threads that serve the requests of this account
    Passwords,      \* what a client may type
    ResetTokens,    \* reset tokens, as secrets.token_urlsafe draws them
    NoToken,        \* no reset token
    Second,         \* ticks of a second: PostgreSQL stores whole seconds
    ResetTtl,       \* RESET_TTL, in ticks
    LoginMax,       \* _LOGIN_MAX_FAILURES
    LoginWindow,    \* _LOGIN_WINDOW, in ticks
    MaxTime,        \* bound: ticks of the run
    MaxRestarts     \* bound: process restarts

ASSUME SessionsAssumption ==
    /\ NoToken \notin ResetTokens
    /\ Second \in Nat \ {0} /\ ResetTtl \in Nat /\ ResetTtl % Second = 0
    /\ LoginMax \in Nat \ {0} /\ LoginWindow \in Nat \ {0}
    /\ MaxTime \in Nat /\ MaxRestarts \in Nat
    /\ IsFiniteSet(Clients)

VARIABLES
    store,      \* the database and the limiter in use, and whether the account's
                \* password was hashed with an older scheme at the start
    account,    \* the row of the user
    resets,     \* password_resets, by token
    sessions,   \* times of issue of the session tokens in circulation
    failures,   \* failed logins the limiter counts for this address and e-mail
    now,        \* the last reading of the clock; a later one is later
    client,     \* where each thread stands
    restarts,   \* how much of the bound is used up
    ended,      \* history: the latest stamp a finished request ended sessions at
    overlapped, \* history: two requests were between their stamp and its write
    chosen,     \* history: the password the account should answer to
    minted,     \* history: when each reset token was issued
    redeemed    \* history: the times each reset token was accepted

sessionState == <<account, resets, sessions, failures>>
sessionHistory == <<ended, overlapped, chosen, minted, redeemed>>
sessionVars == <<store, account, resets, sessions, failures, now, client, restarts,
                 ended, overlapped, chosen, minted, redeemed>>

Ops == {"none", "login", "logout", "change", "request", "reset"}
Steps == {"idle", "verify", "upgrade", "failed", "clear", "mint", "set", "stamp", "write",
          "purge", "issue", "select", "mark"}

Locals == [op : Ops, pc : Steps, typed : Passwords, new : Passwords,
           token : ResetTokens \cup {NoToken}, stamp : 0..MaxTime, good : BOOLEAN]

Row == [there : BOOLEAN, expires : Nat, used : BOOLEAN]

SessionsTypeOK ==
    /\ store \in [db : {"sqlite", "postgres"}, limiter : {"memory", "redis"}, legacy : BOOLEAN]
    /\ account \in [password : Passwords, legacy : BOOLEAN, loggedOut : 0..MaxTime]
    /\ resets \in [ResetTokens -> Row]
    /\ sessions \in SUBSET (1..MaxTime)
    /\ failures \in [times : SUBSET (1..MaxTime), n : Nat, expires : Nat]
    /\ now \in 0..MaxTime
    /\ client \in [Clients -> Locals]
    /\ restarts \in 0..MaxRestarts
    /\ ended \in 0..MaxTime /\ overlapped \in BOOLEAN /\ chosen \in Passwords
    /\ minted \in [ResetTokens -> 0..MaxTime] /\ redeemed \in [ResetTokens -> SUBSET (1..MaxTime)]

Idle == [op |-> "none", pc |-> "idle", typed |-> CHOOSE p \in Passwords : TRUE,
         new |-> CHOOSE p \in Passwords : TRUE, token |-> NoToken, stamp |-> 0, good |-> FALSE]
NoFailures == [times |-> {}, n |-> 0, expires |-> 0]

SessionsInit ==
    /\ store \in [db : {"sqlite", "postgres"}, limiter : {"memory", "redis"}, legacy : BOOLEAN]
    /\ account \in [password : Passwords, legacy : {store.legacy}, loggedOut : {0}]
    /\ resets = [t \in ResetTokens |-> [there |-> FALSE, expires |-> 0, used |-> FALSE]]
    /\ sessions = {} /\ failures = NoFailures
    /\ now = 0
    /\ client = [c \in Clients |-> Idle]
    /\ restarts = 0
    /\ ended = 0 /\ overlapped = FALSE /\ chosen = account.password
    /\ minted = [t \in ResetTokens |-> 0] /\ redeemed = [t \in ResetTokens |-> {}]

\* A reading of time.time(), later than the one before.
ReadClock == now < MaxTime /\ now' = now + 1
Now == now + 1

\* A whole second passes without a request reading the clock.
Wait ==
    /\ now + Second < MaxTime
    /\ now' = (now \div Second + 1) * Second
    /\ UNCHANGED <<store, sessionState, client, restarts, sessionHistory>>

Floor(t) == (t \div Second) * Second

Goto(c, pc) == client' = [client EXCEPT ![c].pc = pc]
Done(c) == client' = [client EXCEPT ![c] = Idle]

------------------------------------------------------------------------------
(* The session check of every authenticated request. *)

\* Mutant: the time of the logout is compared as an integer.
TokenSessionOkWhole(iat) == account.loggedOut = 0 \/ iat >= Floor(account.loggedOut)

\* No logout yet, or one no later than the token.
TokenSessionOk(iat) == account.loggedOut = 0 \/ iat >= account.loggedOut

CurrentUser(iat) == iat \in sessions /\ TokenSessionOk(iat)

------------------------------------------------------------------------------
(* The limiter of failed logins: a sliding window in memory, a counter whose *)
(* expiry every failure renews in Redis.                                     *)

InWindow(t) == {f \in failures.times : f + LoginWindow >= t}

LoginAllowedMemory == Cardinality(InWindow(now)) < LoginMax
LoginAllowedRedis == (IF failures.expires >= now THEN failures.n ELSE 0) < LoginMax
LoginAllowed == IF store.limiter = "memory" THEN LoginAllowedMemory ELSE LoginAllowedRedis

Counted == IF store.limiter = "memory" THEN Cardinality(InWindow(now))
           ELSE IF failures.expires >= now THEN failures.n ELSE 0

RecordFailureMemory == [failures EXCEPT !.times = InWindow(Now) \cup {Now}]

RecordFailureRedis ==
    [failures EXCEPT !.n = IF failures.expires >= Now THEN @ + 1 ELSE 1,
                     !.expires = Now + LoginWindow]

------------------------------------------------------------------------------
(* POST /api/auth/login, and the check of a password it shares with a change. *)

\* The limiter is asked before the password is looked at.
StartLogin(c, pw) ==
    /\ client[c].pc = "idle" /\ LoginAllowed
    /\ client' = [client EXCEPT ![c] = [Idle EXCEPT !.op = "login", !.pc = "verify", !.typed = pw]]
    /\ UNCHANGED <<store, sessionState, now, restarts, sessionHistory>>

\* authenticate: the row is read and the password verified against it; a row
\* hashed the old way is to be written again.
Verify(c) ==
    /\ client[c].pc = "verify"
    /\ LET good == account.password = client[c].typed
           next == IF client[c].op = "login" THEN "clear" ELSE "set"
       IN  Goto(c, IF good /\ account.legacy THEN "upgrade"
                   ELSE IF good THEN next
                   ELSE IF client[c].op = "login" THEN "failed" ELSE "idle")
    /\ UNCHANGED <<store, sessionState, now, restarts, sessionHistory>>

\* The silent upgrade stores the password that was just verified, whatever the
\* row holds by now.
Upgrade(c) ==
    /\ client[c].pc = "upgrade"
    /\ account' = [account EXCEPT !.password = client[c].typed, !.legacy = FALSE]
    /\ Goto(c, IF client[c].op = "login" THEN "clear" ELSE "set")
    /\ UNCHANGED <<store, resets, sessions, failures, now, restarts, sessionHistory>>

\* record_login_failure, after the slow verification.
LoginFails(c) ==
    /\ client[c].pc = "failed"
    /\ ReadClock
    /\ failures' = IF store.limiter = "memory" THEN RecordFailureMemory ELSE RecordFailureRedis
    /\ Done(c)
    /\ UNCHANGED <<store, account, resets, sessions, restarts, sessionHistory>>

ClearFailures(c) ==
    /\ client[c].pc = "clear"
    /\ failures' = NoFailures
    /\ Goto(c, "mint")
    /\ UNCHANGED <<store, account, resets, sessions, now, restarts, sessionHistory>>

\* make_token carries the time it is made at, as a float on both databases.
MakeToken(c) ==
    /\ client[c].pc = "mint"
    /\ ReadClock
    /\ sessions' = sessions \cup {Now}
    /\ Done(c)
    /\ UNCHANGED <<store, account, resets, failures, restarts, sessionHistory>>

------------------------------------------------------------------------------
(* Ending sessions: logout, and the second half of set_password. *)

StartLogout(c) ==
    /\ client[c].pc = "idle"
    /\ \E iat \in sessions : CurrentUser(iat)
    /\ client' = [client EXCEPT ![c] = [Idle EXCEPT !.op = "logout", !.pc = "stamp"]]
    /\ UNCHANGED <<store, sessionState, now, restarts, sessionHistory>>

\* The argument of the UPDATE is the time before it waits for its turn.
StampLogout(c) ==
    /\ client[c].pc = "stamp"
    /\ ReadClock
    /\ client' = [client EXCEPT ![c].pc = "write", ![c].stamp = Now]
    /\ overlapped' = (overlapped \/ \E d \in Clients \ {c} : client[d].pc = "write")
    /\ UNCHANGED <<store, sessionState, restarts, ended, chosen, minted, redeemed>>

MarkLoggedOutSqlite(c) ==
    /\ client[c].pc = "write" /\ store.db = "sqlite"
    /\ account' = [account EXCEPT !.loggedOut = client[c].stamp]
    /\ ended' = Max({ended, client[c].stamp})
    /\ Done(c)
    /\ UNCHANGED <<store, resets, sessions, failures, now, restarts,
                   overlapped, chosen, minted, redeemed>>

\* The column is an integer: the time is cut to its second.
MarkLoggedOutPostgres(c) ==
    /\ client[c].pc = "write" /\ store.db = "postgres"
    /\ account' = [account EXCEPT !.loggedOut = Floor(client[c].stamp)]
    /\ ended' = Max({ended, client[c].stamp})
    /\ Done(c)
    /\ UNCHANGED <<store, resets, sessions, failures, now, restarts,
                   overlapped, chosen, minted, redeemed>>

StartChange(c, pw, new) ==
    /\ client[c].pc = "idle"
    /\ \E iat \in sessions : CurrentUser(iat)
    /\ client' = [client EXCEPT ![c] = [Idle EXCEPT !.op = "change", !.pc = "verify",
                                                    !.typed = pw, !.new = new]]
    /\ UNCHANGED <<store, sessionState, now, restarts, sessionHistory>>

\* set_password commits the hash on its own; the sessions end after it.
SetPassword(c) ==
    /\ client[c].pc = "set"
    /\ account' = [account EXCEPT !.password = client[c].new, !.legacy = FALSE]
    /\ chosen' = client[c].new
    /\ Goto(c, "stamp")
    /\ UNCHANGED <<store, resets, sessions, failures, now, restarts,
                   ended, overlapped, minted, redeemed>>

------------------------------------------------------------------------------
(* Password resets. *)

Expired(t, at) == resets[t].there /\ resets[t].expires < at

Purged(at) ==
    [t \in ResetTokens |-> IF resets[t].used \/ Expired(t, at)
                           THEN [resets[t] EXCEPT !.there = FALSE] ELSE resets[t]]

\* The row of a new token.
Fresh(at) == [there |-> TRUE, expires |-> at + ResetTtl, used |-> FALSE]

Undrawn == {t \in ResetTokens : minted[t] = 0}

\* create_password_reset on SQLite: the purge and the insert commit together.
CreateResetSqlite(c) ==
    /\ client[c].pc = "idle" /\ store.db = "sqlite"
    /\ ReadClock
    /\ \E t \in Undrawn :
        /\ resets' = [Purged(Now) EXCEPT ![t] = Fresh(Now)]
        /\ minted' = [minted EXCEPT ![t] = Now]
    /\ UNCHANGED <<store, account, sessions, failures, client, restarts,
                   ended, overlapped, chosen, redeemed>>

\* On PostgreSQL they are two statements of one reading of the clock.
CreateResetPostgres(c) ==
    /\ client[c].pc = "idle" /\ store.db = "postgres"
    /\ ReadClock
    /\ resets' = Purged(Floor(Now))
    /\ client' = [client EXCEPT ![c] = [Idle EXCEPT !.op = "request", !.pc = "issue", !.stamp = Now]]
    /\ UNCHANGED <<store, account, sessions, failures, restarts, sessionHistory>>

IssueReset(c) ==
    /\ client[c].pc = "issue"
    /\ \E t \in Undrawn :
        /\ resets' = [resets EXCEPT ![t] = Fresh(Floor(client[c].stamp))]
        /\ minted' = [minted EXCEPT ![t] = client[c].stamp]
    /\ Done(c)
    /\ UNCHANGED <<store, account, sessions, failures, now, restarts,
                   ended, overlapped, chosen, redeemed>>

Live(t, at) == resets[t].there /\ ~resets[t].used /\ resets[t].expires >= at

Redeem(t, at) == redeemed' = [redeemed EXCEPT ![t] = @ \cup {at}]

\* consume_password_reset on SQLite: purge, look up and mark in one transaction;
\* a token that is not live rolls it back.
ConsumeResetSqlite(c, t, new) ==
    /\ client[c].pc = "idle" /\ store.db = "sqlite" /\ minted[t] # 0
    /\ ReadClock
    /\ Live(t, Now)
    /\ resets' = [Purged(Now) EXCEPT ![t].used = TRUE]
    /\ Redeem(t, Now)
    /\ client' = [client EXCEPT ![c] = [Idle EXCEPT !.op = "reset", !.pc = "set", !.new = new]]
    /\ UNCHANGED <<store, account, sessions, failures, restarts, ended, overlapped, chosen, minted>>

\* On PostgreSQL each statement commits alone.
ConsumeResetPostgres(c, t, new) ==
    /\ client[c].pc = "idle" /\ store.db = "postgres" /\ minted[t] # 0
    /\ ReadClock
    /\ resets' = Purged(Floor(Now))
    /\ client' = [client EXCEPT ![c] = [Idle EXCEPT !.op = "reset", !.pc = "select",
                                                    !.token = t, !.new = new, !.stamp = Now]]
    /\ UNCHANGED <<store, account, sessions, failures, restarts, sessionHistory>>

\* The SELECT carries the time read before the purge.
SelectReset(c) ==
    /\ client[c].pc = "select"
    /\ Goto(c, IF Live(client[c].token, Floor(client[c].stamp)) THEN "mark" ELSE "idle")
    /\ UNCHANGED <<store, sessionState, now, restarts, sessionHistory>>

\* The number of rows the UPDATE met is not looked at.
MarkReset(c) ==
    /\ client[c].pc = "mark"
    /\ resets' = [resets EXCEPT ![client[c].token].used = @ \/ resets[client[c].token].there]
    /\ Redeem(client[c].token, client[c].stamp)
    /\ Goto(c, "set")
    /\ UNCHANGED <<store, account, sessions, failures, now, restarts,
                   ended, overlapped, chosen, minted>>

------------------------------------------------------------------------------
(* The process dies: its threads are gone, and the limiter when it is in memory. *)
SessionsRestart ==
    /\ restarts < MaxRestarts
    /\ restarts' = restarts + 1
    /\ client' = [c \in Clients |-> Idle]
    /\ failures' = IF store.limiter = "memory" THEN NoFailures ELSE failures
    /\ UNCHANGED <<store, account, resets, sessions, now, sessionHistory>>

SessionStep(c) ==
    \/ \E pw \in Passwords : StartLogin(c, pw)
    \/ Verify(c) \/ Upgrade(c) \/ LoginFails(c) \/ ClearFailures(c) \/ MakeToken(c)
    \/ StartLogout(c) \/ StampLogout(c) \/ MarkLoggedOutSqlite(c) \/ MarkLoggedOutPostgres(c)
    \/ \E pw, new \in Passwords : StartChange(c, pw, new)
    \/ SetPassword(c)
    \/ CreateResetSqlite(c) \/ CreateResetPostgres(c) \/ IssueReset(c)
    \/ \E t \in ResetTokens, new \in Passwords :
           ConsumeResetSqlite(c, t, new) \/ ConsumeResetPostgres(c, t, new)
    \/ SelectReset(c) \/ MarkReset(c)

SessionsNext == (\E c \in Clients : SessionStep(c)) \/ Wait \/ SessionsRestart

SessionsSpec == SessionsInit /\ [][SessionsNext]_sessionVars

------------------------------------------------------------------------------
(* Once a logout, a password change or a reset has been answered, every token *)
(* issued before it is refused (api_logout: "invalidates EVERY currently-     *)
(* issued session token").  On SQLite, and unless two such requests crossed:  *)
(* the later write may then carry the earlier stamp.                          *)
SessionsEnd ==
    store.db = "sqlite" /\ ~overlapped =>
        \A iat \in sessions : iat < ended => ~TokenSessionOk(iat)

(* A login that verifies slowly never puts an older password back: the stored *)
(* hash is that of the last password set, unless the account still had a hash *)
(* of the older scheme, which the login of the moment writes again.           *)
PasswordSticks == ~store.legacy => account.password = chosen

(* A reset token is redeemed at most once, on SQLite ("a successful redeem is *)
(* single-use"), however many requests carry it at the same time.             *)
ResetSingleUse ==
    store.db = "sqlite" => \A t \in ResetTokens : Cardinality(redeemed[t]) <= 1

(* A reset token is redeemed within its time to live, give or take the second *)
(* the integer columns of PostgreSQL cut off at both ends.                    *)
ResetInTime ==
    \A t \in ResetTokens : \A at \in redeemed[t] :
        at <= minted[t] + ResetTtl + (IF store.db = "sqlite" THEN 0 ELSE Second - 1)

(* The limiter is asked before the password is verified and told after it, so *)
(* requests in flight may overshoot it, but by no more than their number.     *)
LockoutBounded ==
    Counted + Cardinality({c \in Clients : client[c].op = "login" /\ client[c].pc \in {"verify", "failed"}})
        < LoginMax + Cardinality(Clients)

(* A logout, a password, a reset link and the lockout keep what they promise, *)
(* whatever way the requests of one account cross.                            *)
SessionsKept ==
    SessionsTypeOK /\ SessionsEnd /\ PasswordSticks /\ ResetSingleUse /\ ResetInTime /\ LockoutBounded
=============================================================================
