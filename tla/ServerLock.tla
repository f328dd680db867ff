----------------------------- MODULE ServerLock -----------------------------
(***************************************************************************)
(* The single-instance guard of the backend (serverlock.py): the lock file *)
(* every server takes before it serves.  Where the platform has flock the  *)
(* lock is on the file a descriptor refers to, which need not be the file  *)
(* the path names any more; elsewhere the existence of the file is the     *)
(* lock, and the pid written in it tells whether it is stale.              *)
(*                                                                         *)
(* A server is one process, started once.  Its pid is its name.            *)
(***************************************************************************)
EXTENDS Integers, FiniteSets

CONSTANTS Servers, NoServer

ASSUME LockAssumption == IsFiniteSet(Servers) /\ NoServer \notin Servers

\* A server creates at most two files, and each of them is a file of its own.
Files == (Servers \X (1..2)) \cup {<<NoServer, 0>>}
NoFile == <<NoServer, 0>>

VARIABLES
    posix,      \* the platform has flock
    multi,      \* servers started with FLUXSWARM_ALLOW_MULTI
    path,       \* the file LOCK names
    pid,        \* what is written in each file
    holder,     \* the process whose flock each file carries
    server,     \* where each server is: pc, the file it opened, attempt, stale
    detached,   \* history: a lock file was unlinked from under another server
    torn        \* history: without flock, a server died before it wrote its pid

lockVars == <<posix, multi, path, pid, holder, server, detached, torn>>

LockInit ==
    /\ posix \in BOOLEAN
    /\ multi \in SUBSET Servers
    /\ path = NoFile
    /\ pid = [f \in Files |-> NoServer]
    /\ holder = [f \in Files |-> NoServer]
    /\ server = [s \in Servers |-> [pc |-> "new", fd |-> NoFile, attempt |-> 0, stale |-> NoServer]]
    /\ detached = FALSE /\ torn = FALSE

At(s, pc) == server[s].pc = pc
LockGoto(s, pc) == server' = [server EXCEPT ![s].pc = pc]

\* _pid_alive: the process runs, whatever it is doing.
PidAlive(s) == s \in Servers /\ ~At(s, "new") /\ ~At(s, "dead")

\* A process that ends gives up its flock.
Ends(s) ==
    /\ server' = [server EXCEPT ![s].pc = "dead", ![s].fd = NoFile]
    /\ holder' = [f \in Files |-> IF holder[f] = s THEN NoServer ELSE holder[f]]

\* A file is detached when the path stops naming what someone else opened.
DetachedBy(s) == detached' = (detached \/ \E t \in Servers \ {s} : path # NoFile /\ server[t].fd = path)

Acquire(s) ==
    /\ At(s, "new")
    /\ LockGoto(s, IF s \in multi THEN "up" ELSE IF posix THEN "open" ELSE "create")
    /\ UNCHANGED <<posix, multi, path, pid, holder, detached, torn>>

NewFile(s) == <<s, server[s].attempt + 1>>

\* os.open with O_CREAT, which opens the file another server made as well.
OpenLock(s) ==
    /\ At(s, "open")
    /\ LET f == IF path = NoFile THEN NewFile(s) ELSE path
       IN path' = f /\ server' = [server EXCEPT ![s].fd = f, ![s].pc = "flock"]
    /\ UNCHANGED <<posix, multi, pid, holder, detached, torn>>

\* Mutant: a shared lock, which any number of servers may hold.
FlockShared(s) ==
    /\ At(s, "flock")
    /\ holder' = [holder EXCEPT ![server[s].fd] = s] /\ LockGoto(s, "write")
    /\ UNCHANGED <<posix, multi, path, pid, detached, torn>>

\* The exclusive lock on the opened file, or a refusal that ends the process.
Flock(s) ==
    /\ At(s, "flock")
    /\ IF holder[server[s].fd] = NoServer
       THEN holder' = [holder EXCEPT ![server[s].fd] = s] /\ LockGoto(s, "write")
       ELSE Ends(s)
    /\ UNCHANGED <<posix, multi, path, pid, detached, torn>>

\* O_EXCL: the file is made, or it is there.
CreateLock(s) ==
    /\ At(s, "create")
    /\ IF path = NoFile
       THEN path' = NewFile(s) /\ server' = [server EXCEPT ![s].fd = NewFile(s), ![s].pc = "write"]
       ELSE LockGoto(s, "read") /\ UNCHANGED path
    /\ UNCHANGED <<posix, multi, pid, holder, detached, torn>>

WritePid(s) ==
    /\ At(s, "write")
    /\ pid' = [pid EXCEPT ![server[s].fd] = s]
    /\ LockGoto(s, "up")
    /\ UNCHANGED <<posix, multi, path, holder, detached, torn>>

\* A file that is gone or empty reads as pid 0, and only the first attempt reclaims.
ReadStale(s) ==
    /\ At(s, "read")
    /\ LET stale == pid[path]
       IN IF server[s].attempt = 0 /\ stale # NoServer /\ ~PidAlive(stale)
          THEN server' = [server EXCEPT ![s].stale = stale, ![s].pc = "reclaim"] /\ UNCHANGED holder
          ELSE Ends(s)
    /\ UNCHANGED <<posix, multi, path, pid, detached, torn>>

\* The file is removed by its name: it may be another one by now.
Reclaim(s) ==
    /\ At(s, "reclaim")
    /\ IF path = NoFile
       THEN Ends(s) /\ UNCHANGED <<path, detached>>
       ELSE /\ path' = NoFile /\ DetachedBy(s)
            /\ server' = [server EXCEPT ![s].attempt = 1, ![s].pc = "create"]
            /\ UNCHANGED holder
    /\ UNCHANGED <<posix, multi, pid, torn>>

\* release at exit: the descriptor is closed, then the path is unlinked, by a
\* server that took no lock as well.
CloseLock(s) ==
    /\ At(s, "up")
    /\ server' = [server EXCEPT ![s].fd = NoFile, ![s].pc = "unlink"]
    /\ holder' = [f \in Files |-> IF holder[f] = s THEN NoServer ELSE holder[f]]
    /\ UNCHANGED <<posix, multi, path, pid, detached, torn>>

UnlinkLock(s) ==
    /\ At(s, "unlink")
    /\ DetachedBy(s) /\ path' = NoFile
    /\ Ends(s)
    /\ UNCHANGED <<posix, multi, pid, torn>>

\* The process dies where it stands; the lock file stays.
CrashServer(s) ==
    /\ PidAlive(s)
    /\ Ends(s)
    /\ torn' = (torn \/ (~posix /\ At(s, "write")))
    /\ UNCHANGED <<posix, multi, path, pid, detached>>

LockNext ==
    \E s \in Servers :
        \/ Acquire(s) \/ OpenLock(s) \/ Flock(s) \/ CreateLock(s) \/ WritePid(s) \/ ReadStale(s)
        \/ Reclaim(s) \/ CloseLock(s) \/ UnlinkLock(s) \/ CrashServer(s)

LockSpec == LockInit /\ [][LockNext]_lockVars

-----------------------------------------------------------------------------
(* Properties. *)

LockTypeOK ==
    /\ path \in Files /\ pid \in [Files -> Servers \cup {NoServer}]
    /\ holder \in [Files -> Servers \cup {NoServer}]
    /\ server \in [Servers -> [pc : {"new", "open", "flock", "create", "read", "reclaim", "write", "up",
                                     "unlink", "dead"},
                               fd : Files, attempt : 0..1, stale : Servers \cup {NoServer}]]

\* Two servers that did not bypass the guard never serve at once, unless a lock
\* file was unlinked from under another server: by one that exits while the next
\* has opened the file it is about to unlink, by one that reclaims a file which
\* has been reclaimed before, or by one that bypassed the guard.
OneServer ==
    detached \/ \A s, t \in Servers \ multi : At(s, "up") /\ At(t, "up") => s = t

\* Whatever way a server ended, the next one that starts alone gets to serve: no
\* lock is left that would refuse it.  Without flock a server that dies between
\* creating the file and writing its pid leaves one that nobody may reclaim.
AloneServes ==
    (\A t \in Servers : At(t, "new") \/ At(t, "dead")) /\ ~torn =>
        path = NoFile \/ IF posix THEN holder[path] = NoServer ELSE pid[path] # NoServer

\* At most one server, and never none for good.
LockKept == LockTypeOK /\ OneServer /\ AloneServes
=============================================================================
