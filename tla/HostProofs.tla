----------------------------- MODULE HostProofs -----------------------------
(***************************************************************************)
(* Theorems about what runs on the host: the server's lock, the sockets of *)
(* a board, the audit trail, the containers of the dispatches and the      *)
(* runtime a launch gets, the vault of the provider keys, and the files of *)
(* a user.  Each is for any number of processes, sockets, writers,         *)
(* dispatches, people and boards, and for any limits.                      *)
(***************************************************************************)
EXTENDS ServerLock, LiveView, AuditLog, Sandbox, Vault, UserFiles, FiniteSetTheorems, SequenceTheorems,
        WellFoundedInduction, TLAPS

-----------------------------------------------------------------------------
(* ServerLock: any set of servers, on both platforms, with any of them     *)
(* started past the guard.                                                 *)

USE LockAssumption

ServerPlaces == {"new", "open", "flock", "create", "read", "reclaim", "write", "up", "unlink", "dead"}
ServerRecord == [pc : ServerPlaces, fd : Files, attempt : 0..1, stale : Servers \cup {NoServer}]
LockTypes == LockTypeOK /\ posix \in BOOLEAN /\ multi \subseteq Servers

\* Where a server may be, and whether it has a file there.
PlacesFit ==
    \A s \in Servers :
        /\ At(s, "open") \/ At(s, "flock") => posix
        /\ At(s, "create") \/ At(s, "read") \/ At(s, "reclaim") => ~posix
        /\ server[s].fd # NoFile => At(s, "flock") \/ At(s, "write") \/ At(s, "up")
        /\ At(s, "flock") \/ At(s, "write") => server[s].fd # NoFile
        /\ At(s, "up") /\ s \notin multi => server[s].fd # NoFile
        /\ s \in multi => At(s, "new") \/ At(s, "up") \/ At(s, "unlink") \/ At(s, "dead")

\* With flock, who writes or serves holds the lock of its file, and nobody else holds one.
FlockHeld ==
    /\ posix => \A s \in Servers : (At(s, "write") \/ At(s, "up")) /\ s \notin multi => holder[server[s].fd] = s
    /\ \A f \in Files : holder[f] # NoServer =>
          /\ holder[f] \in Servers /\ server[holder[f]].fd = f
          /\ At(holder[f], "write") \/ At(holder[f], "up")

\* Without flock, a server has the file it made.
OwnFile == ~posix => \A s \in Servers : server[s].fd # NoFile => server[s].fd[1] = s

\* The path names the file of every server that has one, unless it was unlinked.
Attached == ~detached => \A s \in Servers : server[s].fd # NoFile => server[s].fd = path

\* Without flock, the file at the path names its server, who may be about to write that.
PidWritten ==
    ~posix /\ ~torn /\ path # NoFile =>
        pid[path] # NoServer \/ \E s \in Servers : At(s, "write") /\ server[s].fd = path

LockInv == LockTypes /\ PlacesFit /\ FlockHeld /\ OwnFile /\ Attached /\ PidWritten

LEMMA NewFileIs ==
  ASSUME LockTypes, NEW s \in Servers
  PROVE  NewFile(s) \in Files /\ NewFile(s) # NoFile /\ NewFile(s)[1] = s
<1>1. server[s].attempt \in 0..1
  BY DEF LockTypes, LockTypeOK
<1>2. server[s].attempt + 1 \in 1..2
  BY <1>1
<1>3. QED
  BY <1>2 DEF NewFile, Files, NoFile

LEMMA LockStart == LockInit => LockInv
<1> SUFFICES ASSUME LockInit PROVE LockInv
  OBVIOUS
<1>1. LockTypes
  BY DEF LockInit, LockTypes, LockTypeOK, Files, NoFile
<1>2. \A s \in Servers : At(s, "new") /\ server[s].fd = NoFile
  BY DEF LockInit, At
<1>3. QED
  BY <1>1, <1>2 DEF LockInit, LockInv, PlacesFit, FlockHeld, OwnFile, Attached, PidWritten, At

\* A process that ends keeps no file and no lock.
LEMMA EndsFacts ==
  ASSUME LockTypes, NEW s \in Servers, Ends(s)
  PROVE  /\ server' \in [Servers -> ServerRecord]
         /\ server'[s].pc = "dead" /\ server'[s].fd = NoFile
         /\ \A t \in Servers \ {s} : server'[t] = server[t]
         /\ holder' \in [Files -> Servers \cup {NoServer}]
         /\ \A f \in Files : holder'[f] = IF holder[f] = s THEN NoServer ELSE holder[f]
<1>1. server \in [Servers -> ServerRecord] /\ holder \in [Files -> Servers \cup {NoServer}]
  BY DEF LockTypes, LockTypeOK, ServerRecord, ServerPlaces
<1>2. server' = [server EXCEPT ![s] = [server[s] EXCEPT !.pc = "dead", !.fd = NoFile]]
  BY <1>1 DEF Ends
<1>3. server'[s] = [server[s] EXCEPT !.pc = "dead", !.fd = NoFile]
  BY <1>1, <1>2
<1>4. NoFile \in Files /\ "dead" \in ServerPlaces
  BY DEF Files, NoFile, ServerPlaces
<1>5. server'[s] \in ServerRecord /\ server'[s].pc = "dead" /\ server'[s].fd = NoFile
  <2>1. \A l \in ServerRecord : LET e == [l EXCEPT !.pc = "dead", !.fd = NoFile]
                                IN e \in ServerRecord /\ e.pc = "dead" /\ e.fd = NoFile
    BY <1>4 DEF ServerRecord
  <2>2. server[s] \in ServerRecord
    BY <1>1
  <2>3. QED
    BY <1>3, <2>1, <2>2
<1>6. QED
  BY <1>1, <1>2, <1>5 DEF Ends

\* A step of one server leaves the others where they are.
LEMMA Moves ==
  ASSUME LockTypes, NEW s \in Servers, NEW l \in ServerRecord, server' = [server EXCEPT ![s] = l]
  PROVE  /\ server' \in [Servers -> ServerRecord]
         /\ server'[s] = l
         /\ \A t \in Servers \ {s} : server'[t] = server[t]
BY DEF LockTypes, LockTypeOK, ServerRecord, ServerPlaces

LEMMA LockStep == LockInv /\ [LockNext]_lockVars => LockInv'
<1> SUFFICES ASSUME LockInv, [LockNext]_lockVars PROVE LockInv'
  OBVIOUS
<1>1. CASE UNCHANGED lockVars
  BY <1>1
  DEF lockVars, LockInv, LockTypes, LockTypeOK, PlacesFit, FlockHeld, OwnFile, Attached,
      PidWritten, At
<1>2. ASSUME NEW s \in Servers,
             \/ Acquire(s) \/ OpenLock(s) \/ Flock(s) \/ CreateLock(s) \/ WritePid(s) \/ ReadStale(s)
             \/ Reclaim(s) \/ CloseLock(s) \/ UnlinkLock(s) \/ CrashServer(s)
      PROVE  LockInv'
  <2>1. /\ path \in Files /\ pid \in [Files -> Servers \cup {NoServer}]
        /\ holder \in [Files -> Servers \cup {NoServer}]
        /\ server \in [Servers -> ServerRecord] /\ server[s] \in ServerRecord
        /\ posix \in BOOLEAN /\ multi \subseteq Servers
    BY DEF LockInv, LockTypes, LockTypeOK, ServerRecord, ServerPlaces
  <2>2. LockTypes' <=> /\ path' \in Files /\ pid' \in [Files -> Servers \cup {NoServer}]
                       /\ holder' \in [Files -> Servers \cup {NoServer}]
                       /\ server' \in [Servers -> ServerRecord]
                       /\ posix' \in BOOLEAN /\ multi' \subseteq Servers
    BY DEF LockTypes, LockTypeOK, ServerRecord, ServerPlaces
  <2>3. UNCHANGED <<posix, multi>> /\ NoFile \in Files
    BY <1>2
    DEF Acquire, OpenLock, Flock, CreateLock, WritePid, ReadStale, Reclaim, CloseLock,
        UnlinkLock, CrashServer, Files, NoFile
  <2>4. \A l \in ServerRecord, pc \in ServerPlaces : /\ [l EXCEPT !.pc = pc] \in ServerRecord
                                                     /\ [l EXCEPT !.pc = pc].pc = pc
                                                     /\ [l EXCEPT !.pc = pc].fd = l.fd
    BY DEF ServerRecord
  <2>5. ASSUME NEW pc \in ServerPlaces, LockGoto(s, pc)
        PROVE  /\ server' \in [Servers -> ServerRecord]
               /\ server'[s].pc = pc /\ server'[s].fd = server[s].fd
               /\ \A t \in Servers \ {s} : server'[t] = server[t]
    <3>1. server' = [server EXCEPT ![s] = [server[s] EXCEPT !.pc = pc]]
      BY <2>1, <2>5 DEF LockGoto
    <3>2. QED
      BY <2>1, <2>4, <3>1, Moves DEF LockInv
  <2>6. {"open", "create", "up", "write", "flock", "read", "reclaim", "unlink"} \subseteq ServerPlaces
    BY DEF ServerPlaces
  <2>7. CASE Acquire(s)
    <3>1. PICK pc \in {"open", "create", "up"} :
             /\ LockGoto(s, pc)
             /\ pc = (IF s \in multi THEN "up" ELSE IF posix THEN "open" ELSE "create")
      BY <2>7 DEF Acquire
    <3>2. UNCHANGED <<path, pid, holder, detached, torn>> /\ server[s].pc = "new"
      BY <2>7 DEF Acquire, At
    <3>3. /\ server' \in [Servers -> ServerRecord]
          /\ server'[s].pc = pc /\ server'[s].fd = server[s].fd
          /\ \A t \in Servers \ {s} : server'[t] = server[t]
      BY <2>5, <2>6, <3>1
    <3>4. QED
      BY <2>1, <2>2, <2>3, <3>1, <3>2, <3>3
      DEF LockInv, PlacesFit, FlockHeld, OwnFile, Attached, PidWritten, At
  <2>8. CASE OpenLock(s)
    <3> DEFINE f == IF path = NoFile THEN NewFile(s) ELSE path
    <3>1. f \in Files /\ f # NoFile
      BY <2>1, NewFileIs DEF LockInv
    <3>2. server[s].pc = "open" /\ path' = f /\ UNCHANGED <<pid, holder, detached, torn>>
      BY <2>8 DEF OpenLock, At
    <3> DEFINE l == [server[s] EXCEPT !.fd = f, !.pc = "flock"]
    <3>3. l \in ServerRecord /\ l.fd = f /\ l.pc = "flock"
      BY <2>1, <2>6, <3>1 DEF ServerRecord
    <3>4. server' = [server EXCEPT ![s] = l]
      BY <2>1, <2>8 DEF OpenLock
    <3> HIDE DEF f, l
    <3>5. server' \in [Servers -> ServerRecord] /\ server'[s] = l /\ \A t \in Servers \ {s} : server'[t] = server[t]
      BY <3>3, <3>4, Moves DEF LockInv
    <3>6. path = NoFile \/ f = path
      BY DEF f
    <3>7. QED
      BY <2>1, <2>2, <2>3, <3>1, <3>2, <3>3, <3>5, <3>6
      DEF LockInv, PlacesFit, FlockHeld, OwnFile, Attached, PidWritten, At
  <2>9. CASE Flock(s) /\ holder[server[s].fd] = NoServer
    <3>1. /\ server[s].pc = "flock" /\ holder' = [holder EXCEPT ![server[s].fd] = s] /\ LockGoto(s, "write")
          /\ UNCHANGED <<path, pid, detached, torn>>
      BY <2>9 DEF Flock, At
    <3>2. /\ server' \in [Servers -> ServerRecord]
          /\ server'[s].pc = "write" /\ server'[s].fd = server[s].fd
          /\ \A t \in Servers \ {s} : server'[t] = server[t]
      BY <2>5, <2>6, <3>1
    <3>3. server[s].fd \in Files
      BY <2>1 DEF ServerRecord
    <3>4. /\ holder' \in [Files -> Servers \cup {NoServer}] /\ holder'[server[s].fd] = s
          /\ \A f \in Files : f # server[s].fd => holder'[f] = holder[f]
      BY <2>1, <3>1, <3>3
    <3>5. \A t \in Servers : server[t].fd \in Files
      BY <2>1 DEF ServerRecord
    <3>6. QED
      BY <2>1, <2>2, <2>3, <2>9, <3>1, <3>2, <3>3, <3>4, <3>5
      DEF LockInv, PlacesFit, FlockHeld, OwnFile, Attached, PidWritten, At
  <2>10. CASE CreateLock(s) /\ path = NoFile
    <3> DEFINE l == [server[s] EXCEPT !.fd = NewFile(s), !.pc = "write"]
    <3>1. NewFile(s) \in Files /\ NewFile(s) # NoFile /\ NewFile(s)[1] = s
      BY NewFileIs DEF LockInv
    <3>2. /\ server[s].pc = "create" /\ path' = NewFile(s) /\ server' = [server EXCEPT ![s] = l]
          /\ UNCHANGED <<pid, holder, detached, torn>>
      BY <2>1, <2>10 DEF CreateLock, At
    <3>3. l \in ServerRecord /\ l.fd = NewFile(s) /\ l.pc = "write"
      BY <2>1, <2>6, <3>1 DEF ServerRecord
    <3> HIDE DEF l
    <3>4. server' \in [Servers -> ServerRecord] /\ server'[s] = l /\ \A t \in Servers \ {s} : server'[t] = server[t]
      BY <3>2, <3>3, Moves DEF LockInv
    <3>5. QED
      BY <2>1, <2>2, <2>3, <2>10, <3>1, <3>2, <3>3, <3>4
      DEF LockInv, PlacesFit, FlockHeld, OwnFile, Attached, PidWritten, At
  <2>11. CASE CreateLock(s) /\ path # NoFile
    <3>1. server[s].pc = "create" /\ LockGoto(s, "read") /\ UNCHANGED <<path, pid, holder, detached, torn>>
      BY <2>11 DEF CreateLock, At
    <3>2. /\ server' \in [Servers -> ServerRecord]
          /\ server'[s].pc = "read" /\ server'[s].fd = server[s].fd
          /\ \A t \in Servers \ {s} : server'[t] = server[t]
      BY <2>5, <2>6, <3>1
    <3>3. QED
      BY <2>1, <2>2, <2>3, <3>1, <3>2
      DEF LockInv, PlacesFit, FlockHeld, OwnFile, Attached, PidWritten, At
  <2>12. CASE WritePid(s)
    <3>1. /\ server[s].pc = "write" /\ pid' = [pid EXCEPT ![server[s].fd] = s] /\ LockGoto(s, "up")
          /\ UNCHANGED <<path, holder, detached, torn>>
      BY <2>12 DEF WritePid, At
    <3>2. /\ server' \in [Servers -> ServerRecord]
          /\ server'[s].pc = "up" /\ server'[s].fd = server[s].fd
          /\ \A t \in Servers \ {s} : server'[t] = server[t]
      BY <2>5, <2>6, <3>1
    <3>3. server[s].fd \in Files
      BY <2>1 DEF ServerRecord
    <3>4. pid' \in [Files -> Servers \cup {NoServer}] /\ pid'[server[s].fd] = s
          /\ \A f \in Files : f # server[s].fd => pid'[f] = pid[f]
      BY <2>1, <3>1, <3>3
    <3>5. QED
      BY <2>1, <2>2, <2>3, <3>1, <3>2, <3>3, <3>4
      DEF LockInv, PlacesFit, FlockHeld, OwnFile, Attached, PidWritten, At
  <2>13. ASSUME Ends(s), UNCHANGED pid, detached => detached',
                path' = path \/ (path' = NoFile /\ (~detached' => \A t \in Servers \ {s} : path = NoFile \/ server[t].fd # path)),
                At(s, "write") /\ ~posix => torn' \/ path' = NoFile,
                torn => torn'
         PROVE  LockInv'
    <3>1. /\ server' \in [Servers -> ServerRecord]
          /\ server'[s].pc = "dead" /\ server'[s].fd = NoFile
          /\ \A t \in Servers \ {s} : server'[t] = server[t]
          /\ holder' \in [Files -> Servers \cup {NoServer}]
          /\ \A f \in Files : holder'[f] = IF holder[f] = s THEN NoServer ELSE holder[f]
      BY <2>13, EndsFacts DEF LockInv
    <3>2. \A t \in Servers : server[t].fd \in Files
      BY <2>1 DEF ServerRecord
    <3>3. LockTypes'
      BY <2>1, <2>2, <2>3, <2>13, <3>1
    <3>4. PlacesFit'
      BY <2>3, <3>1 DEF LockInv, PlacesFit, At
    <3>5. FlockHeld'
      BY <2>1, <2>3, <3>1, <3>2 DEF LockInv, FlockHeld, At
    <3>6. OwnFile'
      BY <2>3, <3>1 DEF LockInv, OwnFile
    <3>7. Attached'
      BY <2>13, <3>1 DEF LockInv, Attached
    <3>8. PidWritten'
      BY <2>3, <2>13, <3>1 DEF LockInv, PidWritten, At
    <3>9. QED
      BY <3>3, <3>4, <3>5, <3>6, <3>7, <3>8 DEF LockInv
  <2>14. CASE Flock(s) /\ holder[server[s].fd] # NoServer
    BY <2>13, <2>14 DEF Flock, At
  <2>15. CASE ReadStale(s) /\ Ends(s)
    BY <2>13, <2>15 DEF ReadStale, At
  <2>16. CASE ReadStale(s) /\ ~Ends(s)
    <3> DEFINE l == [server[s] EXCEPT !.stale = pid[path], !.pc = "reclaim"]
    <3>1. /\ server[s].pc = "read" /\ server' = [server EXCEPT ![s] = l]
          /\ UNCHANGED <<path, pid, holder, detached, torn>>
      BY <2>1, <2>16 DEF ReadStale, At
    <3>2. l \in ServerRecord /\ l.fd = server[s].fd /\ l.pc = "reclaim"
      BY <2>1, <2>6 DEF ServerRecord
    <3> HIDE DEF l
    <3>3. server' \in [Servers -> ServerRecord] /\ server'[s] = l /\ \A t \in Servers \ {s} : server'[t] = server[t]
      BY <3>1, <3>2, Moves DEF LockInv
    <3>4. QED
      BY <2>1, <2>2, <2>3, <3>1, <3>2, <3>3
      DEF LockInv, PlacesFit, FlockHeld, OwnFile, Attached, PidWritten, At
  <2>17. CASE Reclaim(s) /\ path = NoFile
    BY <2>13, <2>17 DEF Reclaim, At
  <2>18. CASE Reclaim(s) /\ path # NoFile
    <3> DEFINE l == [server[s] EXCEPT !.attempt = 1, !.pc = "create"]
    <3>1. /\ server[s].pc = "reclaim" /\ server' = [server EXCEPT ![s] = l] /\ path' = NoFile /\ DetachedBy(s)
          /\ UNCHANGED <<pid, holder, torn>>
      BY <2>1, <2>18 DEF Reclaim, At
    <3>2. l \in ServerRecord /\ l.fd = server[s].fd /\ l.pc = "create"
      <4>1. 1 \in 0..1 /\ "create" \in ServerPlaces
        BY <2>6
      <4>2. QED
        BY <2>1, <4>1 DEF ServerRecord
    <3> HIDE DEF l
    <3>3. server' \in [Servers -> ServerRecord] /\ server'[s] = l /\ \A t \in Servers \ {s} : server'[t] = server[t]
      BY <3>1, <3>2, Moves DEF LockInv
    <3>4. ~posix /\ server[s].fd = NoFile
      BY <3>1 DEF LockInv, PlacesFit, At
    <3>5. Attached'
      BY <2>18, <3>1, <3>2, <3>3, <3>4 DEF LockInv, Attached, DetachedBy
    <3>6. LockTypes' /\ OwnFile' /\ PidWritten'
      BY <2>1, <2>2, <2>3, <3>1, <3>2, <3>3, <3>4 DEF LockInv, OwnFile, PidWritten
    <3>7. PlacesFit' /\ FlockHeld'
      BY <2>1, <2>3, <3>1, <3>2, <3>3, <3>4 DEF LockInv, PlacesFit, FlockHeld, At
    <3>8. QED
      BY <3>5, <3>6, <3>7 DEF LockInv
  <2>19. CASE CloseLock(s)
    <3> DEFINE l == [server[s] EXCEPT !.fd = NoFile, !.pc = "unlink"]
    <3>1. /\ server[s].pc = "up" /\ server' = [server EXCEPT ![s] = l]
          /\ holder' = [f \in Files |-> IF holder[f] = s THEN NoServer ELSE holder[f]]
          /\ UNCHANGED <<path, pid, detached, torn>>
      BY <2>1, <2>19 DEF CloseLock, At
    <3>2. l \in ServerRecord /\ l.fd = NoFile /\ l.pc = "unlink"
      BY <2>1, <2>3, <2>6 DEF ServerRecord
    <3> HIDE DEF l
    <3>3. server' \in [Servers -> ServerRecord] /\ server'[s] = l /\ \A t \in Servers \ {s} : server'[t] = server[t]
      BY <3>1, <3>2, Moves DEF LockInv
    <3>4. \A t \in Servers : server[t].fd \in Files
      BY <2>1 DEF ServerRecord
    <3>5. FlockHeld'
      BY <2>1, <2>3, <3>1, <3>2, <3>3, <3>4 DEF LockInv, FlockHeld, At
    <3>6. LockTypes' /\ PlacesFit' /\ OwnFile' /\ Attached' /\ PidWritten'
      BY <2>1, <2>2, <2>3, <3>1, <3>2, <3>3
      DEF LockInv, PlacesFit, OwnFile, Attached, PidWritten, At
    <3>7. QED
      BY <3>5, <3>6 DEF LockInv
  <2>20. CASE UnlinkLock(s)
    BY <2>13, <2>20 DEF UnlinkLock, At, DetachedBy
  <2>21. CASE CrashServer(s)
    BY <2>13, <2>21 DEF CrashServer
  <2>22. QED
    BY <1>2, <2>7, <2>8, <2>9, <2>10, <2>11, <2>12, <2>14, <2>15, <2>16, <2>17, <2>18, <2>19,
       <2>20, <2>21
    DEF Flock, CreateLock, Reclaim
<1>3. QED
  BY <1>1, <1>2 DEF LockNext

\* Any number of servers, on either platform: at most one that took the guard
\* serves, unless a lock file was unlinked from under another server; and no lock
\* is left that refuses a server which starts alone, unless one without flock died
\* between creating its file and writing its pid (serverlock.py).
THEOREM LockSafe == LockSpec => []LockKept
<1>1. LockInv => LockKept
  <2> SUFFICES ASSUME LockInv PROVE OneServer /\ AloneServes
    BY DEF LockInv, LockTypes, LockKept
  <2>1. OneServer
    <3> SUFFICES ASSUME ~detached, NEW s \in Servers \ multi, NEW t \in Servers \ multi, At(s, "up"), At(t, "up")
                 PROVE  s = t
      BY DEF OneServer
    <3>1. server[s].fd # NoFile /\ server[t].fd # NoFile /\ server[s].fd = server[t].fd
      BY DEF LockInv, PlacesFit, Attached
    <3>2. CASE posix
      BY <3>1, <3>2 DEF LockInv, FlockHeld
    <3>3. CASE ~posix
      BY <3>1, <3>3 DEF LockInv, OwnFile
    <3>4. QED
      BY <3>2, <3>3
  <2>2. AloneServes
    <3> SUFFICES ASSUME \A t \in Servers : At(t, "new") \/ At(t, "dead"), ~torn, path # NoFile
                 PROVE  IF posix THEN holder[path] = NoServer ELSE pid[path] # NoServer
      BY DEF AloneServes
    <3>1. path \in Files
      BY DEF LockInv, LockTypes, LockTypeOK
    <3>2. \A s \in Servers : ~At(s, "write") /\ ~At(s, "up")
      BY DEF At
    <3>3. QED
      BY <3>1, <3>2 DEF LockInv, FlockHeld, PidWritten
  <2>3. QED
    BY <2>1, <2>2
<1>2. QED
  BY LockStart, LockStep, <1>1, PTL DEF LockSpec

HIDE LockAssumption

-----------------------------------------------------------------------------
(* LiveView: any number of sockets, users and boards, and any two caps.    *)

HIDE LockAssumption
USE LiveViewAssumption

Streaming(s) == socket[s].pc \in {"listing", "sleeping"}

\* The slots of a board and of a user on it are the sockets that stream.
SlotsMatch ==
    \A b \in Watched :
        /\ subs[b] = {s \in Sockets : Streaming(s) /\ socket[s].board = b}
        /\ \A u \in Viewers : subsUser[<<u, b>>] = {s \in subs[b] : socket[s].user = u}

\* They are finitely many, and no more than the caps.
SlotsCapped ==
    \A b \in Watched :
        /\ IsFiniteSet(subs[b]) /\ Cardinality(subs[b]) <= SlugCap
        /\ \A u \in Viewers : IsFiniteSet(subsUser[<<u, b>>]) /\ Cardinality(subsUser[<<u, b>>]) <= UserCap

LiveInv == LiveTypeOK /\ SlotsMatch /\ SlotsCapped

\* A set that takes one more, as long as the cap allows it, or loses one stays below it.
LEMMA CapKept ==
  ASSUME NEW S, NEW x, NEW cap \in Nat, IsFiniteSet(S), Cardinality(S) <= cap
  PROVE  /\ IsFiniteSet(S \ {x}) /\ Cardinality(S \ {x}) <= cap
         /\ ~(Cardinality(S) + 1 > cap) => IsFiniteSet(S \cup {x}) /\ Cardinality(S \cup {x}) <= cap
<1>1. Cardinality(S) \in Nat
  BY FS_CardinalityType
<1>2. IsFiniteSet(S \ {x}) /\ Cardinality(S \ {x}) = (IF x \in S THEN Cardinality(S) - 1 ELSE Cardinality(S))
  BY FS_RemoveElement
<1>3. IsFiniteSet(S \cup {x}) /\ Cardinality(S \cup {x}) = (IF x \in S THEN Cardinality(S) ELSE Cardinality(S) + 1)
  BY FS_AddElement
<1>4. QED
  BY <1>1, <1>2, <1>3

LEMMA LiveStart == LiveInit => LiveInv
<1> SUFFICES ASSUME LiveInit PROVE LiveInv
  OBVIOUS
<1>1. (CHOOSE u \in Viewers : TRUE) \in Viewers /\ (CHOOSE b \in Watched : TRUE) \in Watched
  OBVIOUS
<1>2. LiveTypeOK
  BY <1>1 DEF LiveInit, LiveTypeOK
<1>3. \A b \in Watched : subs[b] = {} /\ \A u \in Viewers : subsUser[<<u, b>>] = {}
  BY DEF LiveInit
<1>4. \A s \in Sockets : ~Streaming(s)
  BY DEF LiveInit, Streaming
<1>5. SlotsMatch
  BY <1>3, <1>4 DEF SlotsMatch
<1>6. SlotsCapped
  BY <1>3, FS_EmptySet DEF SlotsCapped
<1>7. QED
  BY <1>2, <1>5, <1>6 DEF LiveInv

LEMMA LiveStep == LiveInv /\ [LiveNext]_liveVars => LiveInv'
<1> SUFFICES ASSUME LiveInv, [LiveNext]_liveVars PROVE LiveInv'
  OBVIOUS
<1>1. CASE UNCHANGED liveVars
  BY <1>1 DEF liveVars, LiveInv, LiveTypeOK, SlotsMatch, SlotsCapped, Streaming
<1>2. ASSUME NEW u \in Viewers, SessionEnds(u)
      PROVE  LiveInv'
  BY <1>2 DEF SessionEnds, LiveInv, LiveTypeOK, SlotsMatch, SlotsCapped, Streaming
<1>3. ASSUME NEW s \in Sockets,
             Register(s) \/ SendTasks(s) \/ Disconnects(s) \/ \E u \in Viewers, b \in Watched : Handshake(s, u, b)
      PROVE  LiveInv'
  <2> DEFINE board == socket[s].board
             key == <<socket[s].user, board>>
  <2>1. /\ socket[s].user \in Viewers /\ board \in Watched /\ key \in Viewers \X Watched
        /\ subs \in [Watched -> SUBSET Sockets] /\ subsUser \in [Viewers \X Watched -> SUBSET Sockets]
        /\ socket \in [Sockets -> [pc : {"new", "accepted", "listing", "sleeping", "closed"}, user : Viewers, board : Watched]]
    BY DEF LiveInv, LiveTypeOK
  <2>2. SlotsMatch /\ SlotsCapped
    BY DEF LiveInv
  <2>3. ASSUME NEW pc \in {"new", "accepted", "listing", "sleeping", "closed"}, socket' = [socket EXCEPT ![s].pc = pc]
        PROVE  /\ socket' \in [Sockets -> [pc : {"new", "accepted", "listing", "sleeping", "closed"}, user : Viewers,
                                           board : Watched]]
               /\ socket'[s].pc = pc /\ socket'[s].board = board /\ socket'[s].user = socket[s].user
               /\ \A t \in Sockets \ {s} : socket'[t] = socket[t]
    BY <2>1, <2>3
  <2>4. CASE \E u \in Viewers, b \in Watched : Handshake(s, u, b)
    <3>1. PICK u \in Viewers, b \in Watched : Handshake(s, u, b)
      BY <2>4
    <3>2. socket[s].pc = "new" /\ UNCHANGED <<subs, subsUser>>
      BY <3>1 DEF Handshake
    <3>3. /\ socket' \in [Sockets -> [pc : {"new", "accepted", "listing", "sleeping", "closed"}, user : Viewers,
                                      board : Watched]]
          /\ socket'[s].pc \in {"accepted", "closed"} /\ \A t \in Sockets \ {s} : socket'[t] = socket[t]
      BY <2>1, <3>1 DEF Handshake
    <3>4. \A t \in Sockets : Streaming(t)' <=> Streaming(t)
      BY <3>2, <3>3 DEF Streaming
    <3>5. SlotsMatch'
      BY <2>2, <3>2, <3>3, <3>4 DEF SlotsMatch, Streaming
    <3>6. QED
      BY <2>1, <2>2, <3>2, <3>3, <3>5 DEF LiveInv, LiveTypeOK, SlotsCapped
  <2>5. CASE SendTasks(s)
    <3>1. PICK pc \in {"listing", "sleeping"} : socket' = [socket EXCEPT ![s].pc = pc]
      BY <2>1, <2>5 DEF SendTasks
    <3>2. socket[s].pc \in {"listing", "sleeping"} /\ UNCHANGED <<subs, subsUser>>
      BY <2>5 DEF SendTasks
    <3>3. /\ socket' \in [Sockets -> [pc : {"new", "accepted", "listing", "sleeping", "closed"}, user : Viewers,
                                      board : Watched]]
          /\ socket'[s].pc = pc /\ socket'[s].board = board /\ socket'[s].user = socket[s].user
          /\ \A t \in Sockets \ {s} : socket'[t] = socket[t]
      BY <2>3, <3>1
    <3>4. \A t \in Sockets : /\ Streaming(t)' <=> Streaming(t)
                             /\ socket'[t].board = socket[t].board /\ socket'[t].user = socket[t].user
      BY <3>2, <3>3 DEF Streaming
    <3>5. SlotsMatch'
      BY <2>1, <2>2, <3>2, <3>4 DEF SlotsMatch
    <3>6. QED
      BY <2>1, <2>2, <3>2, <3>3, <3>5 DEF LiveInv, LiveTypeOK, SlotsCapped
  <2>6. CASE Disconnects(s)
    <3>1. /\ socket' = [socket EXCEPT ![s].pc = "closed"]
          /\ subs' = [subs EXCEPT ![board] = subs[board] \ {s}]
          /\ subsUser' = [subsUser EXCEPT ![key] = subsUser[key] \ {s}]
      BY <2>1, <2>6 DEF Disconnects
    <3>2. /\ socket' \in [Sockets -> [pc : {"new", "accepted", "listing", "sleeping", "closed"}, user : Viewers,
                                      board : Watched]]
          /\ socket'[s].pc = "closed" /\ socket'[s].board = board /\ socket'[s].user = socket[s].user
          /\ \A t \in Sockets \ {s} : socket'[t] = socket[t]
      BY <2>3, <3>1
    <3>3. /\ subs' \in [Watched -> SUBSET Sockets] /\ subsUser' \in [Viewers \X Watched -> SUBSET Sockets]
          /\ \A b \in Watched : subs'[b] = IF b = board THEN subs[b] \ {s} ELSE subs[b]
          /\ \A k \in Viewers \X Watched : subsUser'[k] = IF k = key THEN subsUser[k] \ {s} ELSE subsUser[k]
      BY <2>1, <3>1
    <3>4. \A b \in Watched : subs'[b] = subs[b] \ {s}
      BY <2>2, <3>3 DEF SlotsMatch
    <3>5. \A u \in Viewers, b \in Watched : subsUser'[<<u, b>>] = subsUser[<<u, b>>] \ {s}
      BY <2>2, <3>3 DEF SlotsMatch
    <3>6. SlotsMatch'
      BY <2>2, <3>2, <3>4, <3>5 DEF SlotsMatch, Streaming
    <3>7. SlotsCapped'
      <4>1. ASSUME NEW b \in Watched
            PROVE  IsFiniteSet(subs'[b]) /\ Cardinality(subs'[b]) <= SlugCap
        <5>1. IsFiniteSet(subs[b]) /\ Cardinality(subs[b]) <= SlugCap
          BY <2>2 DEF SlotsCapped
        <5>2. IsFiniteSet(subs[b] \ {s}) /\ Cardinality(subs[b] \ {s}) <= SlugCap
          BY ONLY <5>1, CapKept, LiveViewAssumption
        <5>3. QED
          BY <3>4, <5>2
      <4>2. ASSUME NEW b \in Watched, NEW u \in Viewers
            PROVE  IsFiniteSet(subsUser'[<<u, b>>]) /\ Cardinality(subsUser'[<<u, b>>]) <= UserCap
        <5>1. IsFiniteSet(subsUser[<<u, b>>]) /\ Cardinality(subsUser[<<u, b>>]) <= UserCap
          BY <2>2 DEF SlotsCapped
        <5>2. IsFiniteSet(subsUser[<<u, b>>] \ {s}) /\ Cardinality(subsUser[<<u, b>>] \ {s}) <= UserCap
          BY ONLY <5>1, CapKept, LiveViewAssumption
        <5>3. QED
          BY <3>5, <5>2
      <4>3. QED
        BY <4>1, <4>2 DEF SlotsCapped
    <3>8. QED
      BY <3>2, <3>3, <3>6, <3>7 DEF LiveInv, LiveTypeOK
  <2>7. CASE Register(s)
    <3> DEFINE over == Cardinality(subs[board]) + 1 > SlugCap \/ Cardinality(subsUser[key]) + 1 > UserCap
    <3>1. /\ socket[s].pc = "accepted"
          /\ socket' = [socket EXCEPT ![s].pc = IF over THEN "closed" ELSE "listing"]
          /\ subs' = IF over THEN subs ELSE [subs EXCEPT ![board] = subs[board] \cup {s}]
          /\ subsUser' = IF over THEN subsUser ELSE [subsUser EXCEPT ![key] = subsUser[key] \cup {s}]
      BY <2>1, <2>7 DEF Register
    <3>2. CASE over
      <4>1. UNCHANGED <<subs, subsUser>> /\ socket' = [socket EXCEPT ![s].pc = "closed"]
        BY <3>1, <3>2
      <4>2. /\ socket' \in [Sockets -> [pc : {"new", "accepted", "listing", "sleeping", "closed"}, user : Viewers,
                                        board : Watched]]
            /\ socket'[s].pc = "closed" /\ \A t \in Sockets \ {s} : socket'[t] = socket[t]
        BY <2>3, <4>1
      <4>3. SlotsMatch'
        BY <2>2, <3>1, <4>1, <4>2 DEF SlotsMatch, Streaming
      <4>4. QED
        BY <2>1, <2>2, <4>1, <4>2, <4>3 DEF LiveInv, LiveTypeOK, SlotsCapped
    <3>3. CASE ~over
      <4>1. /\ socket' = [socket EXCEPT ![s].pc = "listing"]
            /\ subs' = [subs EXCEPT ![board] = subs[board] \cup {s}]
            /\ subsUser' = [subsUser EXCEPT ![key] = subsUser[key] \cup {s}]
        BY <3>1, <3>3
      <4>2. /\ socket' \in [Sockets -> [pc : {"new", "accepted", "listing", "sleeping", "closed"}, user : Viewers,
                                        board : Watched]]
            /\ socket'[s].pc = "listing" /\ socket'[s].board = board /\ socket'[s].user = socket[s].user
            /\ \A t \in Sockets \ {s} : socket'[t] = socket[t]
        BY <2>3, <4>1
      <4>3. /\ subs' \in [Watched -> SUBSET Sockets] /\ subsUser' \in [Viewers \X Watched -> SUBSET Sockets]
            /\ \A b \in Watched : subs'[b] = IF b = board THEN subs[b] \cup {s} ELSE subs[b]
            /\ \A k \in Viewers \X Watched : subsUser'[k] = IF k = key THEN subsUser[k] \cup {s} ELSE subsUser[k]
        BY <2>1, <4>1
      <4>4. SlotsMatch'
        BY <2>1, <2>2, <3>1, <4>2, <4>3 DEF SlotsMatch, Streaming
      <4>5. ~(Cardinality(subs[board]) + 1 > SlugCap) /\ ~(Cardinality(subsUser[key]) + 1 > UserCap)
        BY <3>3
      <4>6. SlotsCapped'
        <5>1. ASSUME NEW b \in Watched
              PROVE  IsFiniteSet(subs'[b]) /\ Cardinality(subs'[b]) <= SlugCap
          <6>1. IsFiniteSet(subs[b]) /\ Cardinality(subs[b]) <= SlugCap
            BY <2>2 DEF SlotsCapped
          <6>2. CASE b = board
            <7>1. IsFiniteSet(subs[b] \cup {s}) /\ Cardinality(subs[b] \cup {s}) <= SlugCap
              BY ONLY <4>5, <6>1, <6>2, CapKept, LiveViewAssumption
            <7>2. QED
              BY <4>3, <6>2, <7>1
          <6>3. CASE b # board
            BY <4>3, <6>1, <6>3
          <6>4. QED
            BY <6>2, <6>3
        <5>2. ASSUME NEW b \in Watched, NEW u \in Viewers
              PROVE  IsFiniteSet(subsUser'[<<u, b>>]) /\ Cardinality(subsUser'[<<u, b>>]) <= UserCap
          <6>1. IsFiniteSet(subsUser[<<u, b>>]) /\ Cardinality(subsUser[<<u, b>>]) <= UserCap
            BY <2>2 DEF SlotsCapped
          <6>2. <<u, b>> \in Viewers \X Watched
            OBVIOUS
          <6>3. CASE <<u, b>> = key
            <7>1. IsFiniteSet(subsUser[key] \cup {s}) /\ Cardinality(subsUser[key] \cup {s}) <= UserCap
              BY ONLY <4>5, <6>1, <6>3, CapKept, LiveViewAssumption
            <7>2. QED
              BY <4>3, <6>2, <6>3, <7>1
          <6>4. CASE <<u, b>> # key
            BY <4>3, <6>1, <6>2, <6>4
          <6>5. QED
            BY <6>3, <6>4
        <5>3. QED
          BY <5>1, <5>2 DEF SlotsCapped
      <4>7. QED
        BY <4>2, <4>3, <4>4, <4>6 DEF LiveInv, LiveTypeOK
    <3>4. QED
      BY <3>2, <3>3
  <2>8. QED
    BY <1>3, <2>4, <2>5, <2>6, <2>7
<1>4. QED
  BY <1>1, <1>2, <1>3 DEF LiveNext

\* Whatever way the sockets of a board come and go, a slot is taken by a socket
\* that streams and by nothing else, in both sets, and neither cap is passed
\* (the websocket of main.py, _SUBS and _SUBS_USER).
THEOREM LiveSafe == LiveSpec => []SlotsAreHeld
<1>1. LiveInv => SlotsAreHeld
  BY DEF LiveInv, SlotsMatch, SlotsCapped, Streaming, SlotsAreHeld
<1>2. QED
  BY LiveStart, LiveStep, <1>1, PTL DEF LiveSpec

HIDE LiveViewAssumption

-----------------------------------------------------------------------------
(* AuditLog: any number of writers, any limit of the file, and any number  *)
(* of numbered files and of records.                                       *)

HIDE LiveViewAssumption
USE AuditAssumption

AuditTypes == AuditTypeOK /\ written \in Nat

Older(A, B) == \A r \in A, s \in B : r < s

\* A file is older than the one before it, and all of them than the trail.
InOrder ==
    \A i \in Slots : Older(numbered[i], trail) /\ \A j \in 1..(i - 1) : Older(numbered[i], numbered[j])

\* What is not plain any more, compressed or dropped, is older than what is.
AgedFirst == Older((1..written) \ Plain, Plain)

\* A record that is compressed is in one place.
ZippedApart ==
    \A i \in Slots : zipped[i] \cap Plain = {} /\ \A j \in Slots : i # j => zipped[i] \cap zipped[j] = {}

AuditInv == AuditTypes /\ InOrder /\ AgedFirst /\ ZippedApart

LEMMA AuditStart == AuditInit => AuditInv
BY
DEF AuditInit, AuditInv, AuditTypes, AuditTypeOK, InOrder, AgedFirst, ZippedApart, Older, Plain

\* A record is in at most one of the files.
LEMMA FilesApart ==
  ASSUME AuditInv, NEW i \in Slots, NEW j \in Slots, i # j
  PROVE  numbered[i] \cap numbered[j] = {}
<1>1. i \in 1..(j - 1) \/ j \in 1..(i - 1)
  BY DEF Slots
<1>2. numbered[i] \subseteq 1..written /\ numbered[j] \subseteq 1..written /\ written \in Nat
  BY DEF AuditInv, AuditTypes, AuditTypeOK
<1>3. Older(numbered[i], numbered[j]) \/ Older(numbered[j], numbered[i])
  BY <1>1 DEF AuditInv, InOrder
<1>4. QED
  BY <1>2, <1>3 DEF Older

LEMMA AppendKeeps ==
  ASSUME AuditInv, NEW w \in Writers, AppendRecord(w)
  PROVE  AuditInv'
<1>1. /\ written \in Nat /\ trail \subseteq 1..written /\ numbered \in [Slots -> SUBSET (1..written)]
      /\ zipped \in [Slots -> SUBSET (1..written)]
  BY DEF AuditInv, AuditTypes, AuditTypeOK
<1>2. written' = written + 1 /\ trail' = trail \cup {written + 1} /\ UNCHANGED <<numbered, zipped>>
  BY DEF AppendRecord
<1>3. 1..written \subseteq 1..written' /\ written + 1 \in 1..written' /\ written' \in Nat
  BY <1>1, <1>2
<1>4. AuditTypes'
  BY <1>1, <1>2, <1>3 DEF AuditInv, AuditTypes, AuditTypeOK, AppendRecord, WriterGoes
<1>5. \A r \in 1..written : r < written + 1
  BY <1>1
<1>6. InOrder'
  <2>1. \A i \in Slots : Older(numbered[i], trail')
    BY <1>1, <1>2, <1>5 DEF AuditInv, InOrder, Older
  <2>2. QED
    BY <1>2, <2>1 DEF AuditInv, InOrder, Older
<1>7. Plain' = Plain \cup {written + 1}
  BY <1>2 DEF Plain
<1>8. (1..written') \ Plain' \subseteq (1..written) \ Plain
  BY <1>1, <1>2, <1>7
<1>9. AgedFirst'
  BY <1>5, <1>7, <1>8 DEF AuditInv, AgedFirst, Older
<1>10. ZippedApart'
  BY <1>1, <1>2, <1>5, <1>7 DEF AuditInv, ZippedApart
<1>11. QED
  BY <1>4, <1>6, <1>9, <1>10 DEF AuditInv

LEMMA ShiftKeeps ==
  ASSUME AuditInv, NEW w \in Writers, Shift(w)
  PROVE  AuditInv'
<1>1. /\ written \in Nat /\ trail \subseteq 1..written /\ numbered \in [Slots -> SUBSET (1..written)]
      /\ zipped \in [Slots -> SUBSET (1..written)]
  BY DEF AuditInv, AuditTypes, AuditTypeOK
<1>2. /\ UNCHANGED <<written, zipped>> /\ trail' = {}
      /\ numbered' = [i \in Slots |-> IF i = 1 THEN trail ELSE numbered[i - 1]]
  BY DEF Shift
<1>3. \A i \in Slots : i # 1 => i - 1 \in Slots
  BY DEF Slots
<1>4. \A i \in Slots : numbered'[i] = IF i = 1 THEN trail ELSE numbered[i - 1]
  BY <1>2
<1>5. numbered' \in [Slots -> SUBSET (1..written)]
  BY <1>1, <1>2, <1>3
<1>6. AuditTypes'
  BY <1>1, <1>2, <1>5 DEF AuditInv, AuditTypes, AuditTypeOK, Shift, WriterGoes
<1>7. InOrder'
  <2> SUFFICES ASSUME NEW i \in Slots, NEW j \in 1..(i - 1)
               PROVE  Older(numbered'[i], numbered'[j])
    BY <1>2 DEF InOrder, Older
  <2>1. i # 1 /\ j \in Slots /\ i - 1 \in Slots
    BY DEF Slots
  <2>2. numbered'[i] = numbered[i - 1]
    BY <1>4, <2>1
  <2>3. CASE j = 1
    BY <1>4, <2>1, <2>2, <2>3 DEF AuditInv, InOrder
  <2>4. CASE j # 1
    <3>1. j - 1 \in 1..((i - 1) - 1)
      BY <2>1, <2>4 DEF Slots
    <3>2. QED
      BY <1>4, <2>1, <2>2, <2>4, <3>1 DEF AuditInv, InOrder
  <2>5. QED
    BY <2>3, <2>4
\* What leaves the plain files is the overflow file, which is the oldest of them.
<1>8. MaxFiles \in Slots
  BY DEF Slots
<1>9. Plain = Plain' \cup numbered[MaxFiles]
  <2>1. ASSUME NEW r \in Plain'
        PROVE  r \in Plain
    BY <1>2, <1>3, <1>4, <2>1 DEF Plain
  <2>2. ASSUME NEW r \in trail
        PROVE  r \in Plain'
    <3>1. 1 \in Slots
      BY DEF Slots
    <3>2. QED
      BY <1>4, <2>2, <3>1 DEF Plain
  <2>3. ASSUME NEW i \in Slots, i # MaxFiles, NEW r \in numbered[i]
        PROVE  r \in Plain'
    <3>1. i + 1 \in Slots /\ i + 1 # 1 /\ (i + 1) - 1 = i
      BY <2>3 DEF Slots
    <3>2. numbered'[i + 1] = numbered[i]
      BY <1>4, <3>1
    <3>3. QED
      BY <2>3, <3>1, <3>2 DEF Plain
  <2>4. QED
    BY <1>8, <2>1, <2>2, <2>3 DEF Plain
<1>10. \A r \in numbered[MaxFiles], s \in Plain' \ numbered[MaxFiles] : r < s
  <2> SUFFICES ASSUME NEW r \in numbered[MaxFiles], NEW s \in Plain' \ numbered[MaxFiles]
               PROVE  r < s
    OBVIOUS
  <2>1. s \in trail \/ \E i \in Slots : i # MaxFiles /\ s \in numbered[i]
    BY <1>9 DEF Plain
  <2>2. \A i \in Slots : i # MaxFiles => i \in 1..(MaxFiles - 1)
    BY DEF Slots
  <2>3. QED
    BY <1>8, <2>1, <2>2 DEF AuditInv, InOrder, Older
<1>11. numbered[MaxFiles] \cap Plain' = {}
  <2> SUFFICES ASSUME NEW r \in numbered[MaxFiles], r \in Plain' PROVE FALSE
    OBVIOUS
  <2>1. PICK i \in Slots : r \in numbered'[i]
    BY <1>2 DEF Plain
  <2>2. r \in 1..written /\ ~(r < r)
    BY <1>1, <1>8
  <2>3. CASE i = 1
    BY <1>4, <1>8, <2>1, <2>2, <2>3 DEF AuditInv, InOrder, Older
  <2>4. CASE i # 1
    <3>1. i - 1 \in Slots /\ i - 1 # MaxFiles
      BY <2>4 DEF Slots
    <3>2. QED
      BY <1>4, <1>8, <2>1, <2>4, <3>1, FilesApart
  <2>5. QED
    BY <2>3, <2>4
<1>12. AgedFirst'
  BY <1>2, <1>9, <1>10, <1>11 DEF AuditInv, AgedFirst, Older
<1>13. ZippedApart'
  BY <1>2, <1>9 DEF AuditInv, ZippedApart
<1>14. QED
  BY <1>6, <1>7, <1>12, <1>13 DEF AuditInv

LEMMA GzipKeeps ==
  ASSUME AuditInv, NEW w \in Writers, Gzip(w)
  PROVE  AuditInv'
<1>1. /\ written \in Nat /\ trail \subseteq 1..written /\ numbered \in [Slots -> SUBSET (1..written)]
      /\ zipped \in [Slots -> SUBSET (1..written)]
  BY DEF AuditInv, AuditTypes, AuditTypeOK
<1>2. PICK from \in 1..(MaxFiles + 1) :
        LET old == {i \in Slots : i >= from /\ numbered[i] # {}}
        IN /\ zipped' = [i \in Slots |-> IF i \in old THEN numbered[i] ELSE zipped[i]]
           /\ numbered' = [i \in Slots |-> IF i \in old THEN {} ELSE numbered[i]]
  BY DEF Gzip
<1> DEFINE old == {i \in Slots : i >= from /\ numbered[i] # {}}
<1>3. /\ \A i \in Slots : zipped'[i] = IF i \in old THEN numbered[i] ELSE zipped[i]
      /\ \A i \in Slots : numbered'[i] = IF i \in old THEN {} ELSE numbered[i]
      /\ UNCHANGED <<trail, written>>
  BY <1>2 DEF Gzip
<1>4. /\ zipped' \in [Slots -> SUBSET (1..written)] /\ numbered' \in [Slots -> SUBSET (1..written)]
  BY <1>1, <1>2
<1>5. \A i \in old, j \in Slots : j \notin old /\ numbered[j] # {} => j \in 1..(i - 1)
  BY DEF Slots
<1> HIDE DEF old
<1>6. old \subseteq Slots
  BY DEF old
<1>7. AuditTypes'
  BY <1>1, <1>3, <1>4 DEF AuditInv, AuditTypes, AuditTypeOK, Gzip, WriterGoes
<1>8. InOrder'
  <2>1. \A i \in Slots : \A j \in 1..(i - 1) : j \in Slots
    BY DEF Slots
  <2>2. QED
    BY <1>3, <2>1 DEF AuditInv, InOrder, Older
<1>9. Plain' \subseteq Plain
  BY <1>3 DEF Plain
<1>10. \A r \in Plain \ Plain', s \in Plain' : r < s
  <2> SUFFICES ASSUME NEW r \in Plain \ Plain', NEW s \in Plain' PROVE r < s
    OBVIOUS
  <2>1. PICK i \in old : r \in numbered[i]
    BY <1>3 DEF Plain
  <2>2. s \in trail \/ \E j \in Slots : j \notin old /\ s \in numbered[j]
    BY <1>3 DEF Plain
  <2>3. QED
    BY <1>5, <1>6, <2>1, <2>2 DEF AuditInv, InOrder, Older
<1>11. AgedFirst'
  BY <1>3, <1>9, <1>10 DEF AuditInv, AgedFirst, Older
<1>12. \A i \in old : numbered[i] \cap Plain' = {}
  <2> SUFFICES ASSUME NEW i \in old, NEW r \in numbered[i], r \in Plain' PROVE FALSE
    OBVIOUS
  <2>1. r \in 1..written /\ ~(r < r)
    BY <1>1, <1>6
  <2>2. r \in trail \/ \E j \in Slots : j # i /\ r \in numbered[j]
    BY <1>3 DEF Plain
  <2>3. QED
    BY <1>6, <2>1, <2>2, FilesApart DEF AuditInv, InOrder, Older
<1>13. ZippedApart'
  <2>1. ASSUME NEW i \in Slots
        PROVE  zipped'[i] \cap Plain' = {}
    BY <1>3, <1>9, <1>12 DEF AuditInv, ZippedApart
  <2>2. ASSUME NEW i \in Slots, NEW j \in Slots, i # j
        PROVE  zipped'[i] \cap zipped'[j] = {}
    <3>1. numbered[i] \subseteq Plain /\ numbered[j] \subseteq Plain
      BY DEF Plain
    <3>2. numbered[i] \cap numbered[j] = {}
      BY <2>2, FilesApart
    <3>3. zipped[i] \cap Plain = {} /\ zipped[j] \cap Plain = {} /\ zipped[i] \cap zipped[j] = {}
      BY <2>2 DEF AuditInv, ZippedApart
    <3>4. QED
      BY <1>3, <3>1, <3>2, <3>3
  <2>3. QED
    BY <2>1, <2>2 DEF ZippedApart
<1>14. QED
  BY <1>7, <1>8, <1>11, <1>13 DEF AuditInv

LEMMA AuditStep == AuditInv /\ [AuditNext]_auditVars => AuditInv'
<1> SUFFICES ASSUME AuditInv, [AuditNext]_auditVars PROVE AuditInv'
  OBVIOUS
<1>1. ASSUME UNCHANGED <<trail, numbered, zipped, written>>, AuditTypes'
      PROVE  AuditInv'
  BY <1>1 DEF AuditInv, InOrder, AgedFirst, ZippedApart, Older, Plain
<1>2. CASE UNCHANGED auditVars \/ MinutePasses
  BY <1>1, <1>2 DEF auditVars, MinutePasses, AuditInv, AuditTypes, AuditTypeOK
<1>3. ASSUME NEW w \in Writers, ReadClock(w) \/ SetClock(w) \/ CheckSize(w)
      PROVE  AuditInv'
  BY <1>1, <1>3
  DEF ReadClock, SetClock, CheckSize, WriterGoes, AuditInv, AuditTypes, AuditTypeOK
<1>4. QED
  BY <1>2, <1>3, AppendKeeps, ShiftKeeps, GzipKeeps DEF AuditNext

\* However many threads append and rotate at once, the trail stays in order, newest
\* first, each record is in one place, and what is dropped is older than all that is
\* left uncompressed (_maybe_rotate and its caller; audit.py).
THEOREM AuditSafe == AuditSpec => []TrailKept
<1>1. AuditInv => TrailKept
  <2> SUFFICES ASSUME AuditInv PROVE TrailKept
    OBVIOUS
  <2>1. AuditTypeOK
    BY DEF AuditInv, AuditTypes
  <2>2. \A r \in Lost, s \in Plain : r < s
    BY DEF AuditInv, AgedFirst, Older, Lost
  <2>3. QED
    BY <2>1, <2>2 DEF TrailKept, AuditInv, InOrder, Older, ZippedApart
<1>2. QED
  BY AuditStart, AuditStep, <1>1, PTL DEF AuditSpec

-----------------------------------------------------------------------------
(* Sandbox: any list of providers, any settings, any dispatches of a board. *)

HIDE AuditAssumption
USE SandboxAssumption

Settings == [env : OperatorEnv, stored : SUBSET Providers, agreed : SUBSET Providers, pin : Pins]

CallRecord ==
    [pc : {"idle", "raised", "run", "remove", "release", "copy", "report", "returned", "died"},
     tries : 0..RmRetries, code : {0, 1, 124, 125}, timedOut : BOOLEAN,
     outcome : {None, "ok", "error", "timed_out"}, copied : BOOLEAN]
ContainerRecord == [state : {"none", "running", "gone"}, code : {0, 1, 124, 125}]

\* What a dispatch c knows of its container k: it waits for one that was started,
\* it has given up on one that ran too long, or it has seen the code it ended with.
Knows(c, k) ==
    /\ c.pc = "idle" => c.tries = 0 /\ ~c.timedOut
    /\ c.pc = "run" => c.tries = 0 /\ ~c.timedOut
    /\ c.pc = "remove" => c.tries < RmRetries /\ c.timedOut
    /\ c.pc \in {"run", "remove", "release", "copy", "report", "returned"} => k.state # "none"
    /\ c.pc \in {"release", "copy", "report", "returned"} =>
          /\ k.state = "running" => c.timedOut /\ c.tries = RmRetries
          /\ ~c.timedOut => k.code = c.code
    /\ c.pc = "returned" =>
          /\ c.outcome = "ok" => ~c.timedOut /\ c.code = 0
          /\ c.outcome = "error" => ~c.timedOut

SandboxInv ==
    SandboxTypeOK /\ conf \in Settings /\ \A d \in Dispatches : Knows(call[d], container[d])

LEMMA SandboxFirst == SandboxInit => SandboxInv
BY DEF SandboxInit, SandboxStart, SandboxInv, SandboxTypeOK, Knows, Settings, Idle, None

\* A step is of one dispatch and its container.
LEMMA SandboxFrame ==
  ASSUME SandboxInv, NEW d \in Dispatches, NEW c \in CallRecord, NEW k \in ContainerRecord, Knows(c, k),
         call' = [call EXCEPT ![d] = c], container' = [container EXCEPT ![d] = k], conf' = conf
  PROVE  SandboxInv'
<1>1. call' \in [Dispatches -> CallRecord] /\ container' \in [Dispatches -> ContainerRecord]
  BY DEF SandboxInv, SandboxTypeOK, CallRecord, ContainerRecord
<1>2. \A e \in Dispatches : Knows(call'[e], container'[e])
  <2> TAKE e \in Dispatches
  <2>1. CASE e = d
    BY <2>1 DEF SandboxInv, SandboxTypeOK
  <2>2. CASE e # d
    BY <2>2 DEF SandboxInv, SandboxTypeOK
  <2>3. QED
    BY <2>1, <2>2
<1>3. QED
  BY <1>1, <1>2 DEF SandboxInv, SandboxTypeOK, CallRecord, ContainerRecord

LEMMA SandboxStep ==
  ASSUME SandboxInv, [SandboxNext]_sandboxVars
  PROVE  SandboxInv'
<1>1. CASE UNCHANGED sandboxVars
  BY <1>1 DEF sandboxVars, SandboxInv, SandboxTypeOK
<1>2. ASSUME NEW d \in Dispatches,
             BoardMissing(d) \/ RunDispatch(d) \/ ContainerExits(d) \/ RunReturns(d) \/ RunTimesOut(d)
             \/ DockerRmF(d) \/ ReleaseLock(d) \/ CopyOutcomes(d) \/ Report(d) \/ DispatcherDies(d)
      PROVE  SandboxInv'
  <2> DEFINE c == call[d]
             k == container[d]
  <2>1. /\ c \in CallRecord /\ k \in ContainerRecord /\ Knows(c, k)
        /\ call \in [Dispatches -> CallRecord] /\ container \in [Dispatches -> ContainerRecord]
    BY DEF SandboxInv, SandboxTypeOK, CallRecord, ContainerRecord
  <2>2. call = [call EXCEPT ![d] = c] /\ container = [container EXCEPT ![d] = k]
    BY <2>1
  <2> HIDE DEF c, k
  <2>3. SUFFICES \E c1 \in CallRecord, k1 \in ContainerRecord :
                    /\ Knows(c1, k1) /\ conf' = conf
                    /\ call' = [call EXCEPT ![d] = c1] /\ container' = [container EXCEPT ![d] = k1]
    BY SandboxFrame
  <2>4. CASE BoardMissing(d)
    <3> DEFINE c1 == [c EXCEPT !.pc = "raised"]
    <3>1. c.pc = "idle"
      BY <2>4 DEF BoardMissing, c, k
    <3>2. c1 \in CallRecord /\ k \in ContainerRecord /\ Knows(c1, k)
      BY <2>1, <3>1, ZenonT(40) DEF CallRecord, ContainerRecord, Knows
    <3>3. conf' = conf /\ call' = [call EXCEPT ![d] = c1] /\ container' = [container EXCEPT ![d] = k]
      BY <2>1, <2>2, <2>4 DEF BoardMissing, c, k
    <3> HIDE DEF c1
    <3>4. QED
      BY <2>1, <3>2, <3>3
  <2>5. CASE RunDispatch(d)
    <3>1. CASE container' = [container EXCEPT ![d].state = "running"]
      <4> DEFINE c1 == [c EXCEPT !.pc = "run"]
                 k1 == [k EXCEPT !.state = "running"]
      <4>1. c.pc = "idle"
        BY <2>5, <3>1 DEF RunDispatch, c, k
      <4>2. c1 \in CallRecord /\ k1 \in ContainerRecord /\ Knows(c1, k1)
        BY <2>1, <4>1, ZenonT(40) DEF CallRecord, ContainerRecord, Knows
      <4>3. conf' = conf /\ call' = [call EXCEPT ![d] = c1] /\ container' = [container EXCEPT ![d] = k1]
        BY <2>1, <2>2, <2>5, <3>1 DEF RunDispatch, c, k
      <4> HIDE DEF c1, k1
      <4>4. QED
        BY <2>1, <4>2, <4>3
    <3>2. CASE container' = [container EXCEPT ![d] = [state |-> "gone", code |-> 125]]
      <4> DEFINE c1 == [c EXCEPT !.pc = "run"]
                 k1 == [state |-> "gone", code |-> 125]
      <4>1. c.pc = "idle"
        BY <2>5, <3>2 DEF RunDispatch, c, k
      <4>2. c1 \in CallRecord /\ k1 \in ContainerRecord /\ Knows(c1, k1)
        BY <2>1, <4>1, ZenonT(40) DEF CallRecord, ContainerRecord, Knows
      <4>3. conf' = conf /\ call' = [call EXCEPT ![d] = c1] /\ container' = [container EXCEPT ![d] = k1]
        BY <2>1, <2>2, <2>5, <3>2 DEF RunDispatch, c, k
      <4> HIDE DEF c1, k1
      <4>4. QED
        BY <2>1, <4>2, <4>3
    <3>3. QED
      BY <2>5, <3>1, <3>2 DEF RunDispatch
  <2>6. CASE ContainerExits(d)
    <3>1. PICK code \in {0, 1, 124} : container' = [container EXCEPT ![d] = [state |-> "gone", code |-> code]]
      BY <2>6 DEF ContainerExits
    <3> DEFINE k1 == [state |-> "gone", code |-> code]
    <3>2. k.state = "running"
      BY <2>6 DEF ContainerExits, k
    <3>3. k1 \in ContainerRecord /\ Knows(c, k1)
      BY <2>1, <3>2 DEF CallRecord, ContainerRecord, Knows
    <3>4. conf' = conf /\ call' = [call EXCEPT ![d] = c] /\ container' = [container EXCEPT ![d] = k1]
      BY <2>2, <2>6, <3>1 DEF ContainerExits, c
    <3> HIDE DEF k1
    <3>5. QED
      BY <2>1, <3>3, <3>4
  <2>7. CASE RunReturns(d)
    <3> DEFINE c1 == [c EXCEPT !.pc = "release", !.code = k.code, !.timedOut = (k.code = 124)]
    <3>1. c.pc = "run" /\ k.state = "gone"
      BY <2>7 DEF RunReturns, c, k
    <3>2. c1 \in CallRecord /\ k \in ContainerRecord /\ Knows(c1, k)
      <4>1. k.code \in {0, 1, 124, 125} /\ (k.code = 124) \in BOOLEAN /\ "release" # "returned"
        BY <2>1 DEF ContainerRecord
      <4>2. c1 \in CallRecord /\ c1.pc = "release" /\ c1.code = k.code
        BY <2>1, <4>1, ZenonT(30) DEF CallRecord
      <4> HIDE DEF c1
      <4>3. QED
        BY <2>1, <3>1, <4>2 DEF Knows
    <3>3. conf' = conf /\ call' = [call EXCEPT ![d] = c1] /\ container' = [container EXCEPT ![d] = k]
      BY <2>1, <2>2, <2>7 DEF RunReturns, c, k
    <3> HIDE DEF c1
    <3>4. QED
      BY <2>1, <3>2, <3>3
  <2>8. CASE RunTimesOut(d)
    <3> DEFINE c1 == [c EXCEPT !.pc = "remove", !.code = 124, !.timedOut = TRUE]
    <3>1. c.pc = "run"
      BY <2>8 DEF RunTimesOut, c, k
    <3>2. c1 \in CallRecord /\ k \in ContainerRecord /\ Knows(c1, k)
      <4>1. c1 \in CallRecord /\ c1.pc = "remove" /\ c1.tries = c.tries /\ c1.timedOut
        BY <2>1, ZenonT(30) DEF CallRecord
      <4> HIDE DEF c1
      <4>2. 0 < RmRetries
        OBVIOUS
      <4>3. QED
        BY <2>1, <3>1, <4>1, <4>2 DEF Knows
    <3>3. conf' = conf /\ call' = [call EXCEPT ![d] = c1] /\ container' = [container EXCEPT ![d] = k]
      BY <2>1, <2>2, <2>8 DEF RunTimesOut, c, k
    <3> HIDE DEF c1
    <3>4. QED
      BY <2>1, <3>2, <3>3
  <2>9. CASE DockerRmF(d)
    <3>1. CASE container' = [container EXCEPT ![d].state = "gone"] /\ call' = [call EXCEPT ![d].pc = "release"]
      <4> DEFINE c1 == [c EXCEPT !.pc = "release"]
                 k1 == [k EXCEPT !.state = "gone"]
      <4>1. c.pc = "remove"
        BY <2>9, <3>1 DEF DockerRmF, c, k
      <4>2. c1 \in CallRecord /\ k \in ContainerRecord /\ k1 \in ContainerRecord /\ Knows(c1, k1)
        <5>1. c1 \in CallRecord /\ c1.pc = "release" /\ c1.timedOut = c.timedOut
          BY <2>1, ZenonT(30) DEF CallRecord
        <5>2. k1 \in ContainerRecord /\ k1.state = "gone"
          BY <2>1 DEF ContainerRecord
        <5> HIDE DEF c1, k1
        <5>3. QED
          BY <2>1, <4>1, <5>1, <5>2 DEF Knows
      <4>3. conf' = conf /\ call' = [call EXCEPT ![d] = c1] /\ container' = [container EXCEPT ![d] = k1]
        BY <2>1, <2>2, <2>9, <3>1 DEF DockerRmF, c, k
      <4> HIDE DEF c1, k1
      <4>4. QED
        BY <2>1, <4>2, <4>3
    <3>2. CASE /\ container' = container
               /\ call' = [call EXCEPT ![d].tries = @ + 1,
                                       ![d].pc = IF call[d].tries + 1 < RmRetries THEN "remove" ELSE "release"]
      <4> DEFINE c1 == [c EXCEPT !.tries = @ + 1, !.pc = IF c.tries + 1 < RmRetries THEN "remove" ELSE "release"]
      <4>1. c.pc = "remove"
        BY <2>9, <3>2 DEF DockerRmF, c, k
      <4>2. c1 \in CallRecord /\ k \in ContainerRecord /\ Knows(c1, k)
        <5>1. c.tries \in 0..RmRetries /\ c.tries < RmRetries /\ c.timedOut /\ k.state # "none"
          BY <2>1, <4>1 DEF CallRecord, Knows
        <5>2. c.tries + 1 \in 0..RmRetries
          BY <5>1
        <5>3. /\ c1 \in CallRecord /\ c1.tries = c.tries + 1 /\ c1.timedOut = c.timedOut
              /\ c1.pc = IF c.tries + 1 < RmRetries THEN "remove" ELSE "release"
          BY <2>1, <5>2, ZenonT(30) DEF CallRecord
        <5> HIDE DEF c1
        <5>4. c.tries + 1 < RmRetries \/ c.tries + 1 = RmRetries
          BY <5>1
        <5>5. QED
          BY <2>1, <5>1, <5>3, <5>4 DEF Knows
      <4>3. conf' = conf /\ call' = [call EXCEPT ![d] = c1] /\ container' = [container EXCEPT ![d] = k]
        BY <2>1, <2>2, <2>9, <3>2 DEF DockerRmF, c, k
      <4> HIDE DEF c1
      <4>4. QED
        BY <2>1, <4>2, <4>3
    <3>3. QED
      BY <2>9, <3>1, <3>2 DEF DockerRmF
  <2>10. CASE ReleaseLock(d)
    <3> DEFINE c1 == [c EXCEPT !.pc = IF c.timedOut THEN "report" ELSE "copy"]
    <3>1. c.pc = "release"
      BY <2>10 DEF ReleaseLock, c, k
    <3>2. c1 \in CallRecord /\ k \in ContainerRecord /\ Knows(c1, k)
      <4>1. /\ c1 \in CallRecord /\ c1.pc \in {"report", "copy"} /\ c1.tries = c.tries
            /\ c1.timedOut = c.timedOut /\ c1.code = c.code
        BY <2>1, ZenonT(30) DEF CallRecord
      <4> HIDE DEF c1
      <4>2. QED
        BY <2>1, <3>1, <4>1 DEF Knows
    <3>3. conf' = conf /\ call' = [call EXCEPT ![d] = c1] /\ container' = [container EXCEPT ![d] = k]
      BY <2>1, <2>2, <2>10 DEF ReleaseLock, c, k
    <3> HIDE DEF c1
    <3>4. QED
      BY <2>1, <3>2, <3>3
  <2>11. CASE CopyOutcomes(d)
    <3> DEFINE c1 == [c EXCEPT !.pc = "report", !.copied = (k.state = "running")]
    <3>1. c.pc = "copy"
      BY <2>11 DEF CopyOutcomes, c, k
    <3>2. c1 \in CallRecord /\ k \in ContainerRecord /\ Knows(c1, k)
      <4>1. /\ c1 \in CallRecord /\ c1.pc = "report" /\ c1.tries = c.tries
            /\ c1.timedOut = c.timedOut /\ c1.code = c.code
        BY <2>1, ZenonT(30) DEF CallRecord
      <4> HIDE DEF c1
      <4>2. QED
        BY <2>1, <3>1, <4>1 DEF Knows
    <3>3. conf' = conf /\ call' = [call EXCEPT ![d] = c1] /\ container' = [container EXCEPT ![d] = k]
      BY <2>1, <2>2, <2>11 DEF CopyOutcomes, c, k
    <3> HIDE DEF c1
    <3>4. QED
      BY <2>1, <3>2, <3>3
  <2>12. CASE Report(d)
    <3> DEFINE out == CASE c.timedOut -> "timed_out"
                        [] ~c.timedOut /\ c.code = 0 -> "ok"
                        [] ~c.timedOut /\ c.code # 0 -> "error"
               c1 == [c EXCEPT !.pc = "returned", !.outcome = out]
    <3>1. c.timedOut \in BOOLEAN
      BY <2>1, ZenonT(30) DEF CallRecord
    <3>2. /\ out \in {"ok", "error", "timed_out"}
          /\ out = "ok" => ~c.timedOut /\ c.code = 0
          /\ out = "error" => ~c.timedOut
      BY <3>1
    <3>3. call' = [call EXCEPT ![d] = c1] /\ container' = [container EXCEPT ![d] = k] /\ conf' = conf
      BY <2>1, <2>2, <2>12 DEF Report, c, k
    <3>4. c.pc = "report"
      BY <2>12 DEF Report, c
    <3> HIDE DEF out
    <3>5. c1 \in CallRecord /\ Knows(c1, k)
      <4>1. /\ c1 \in CallRecord /\ c1.pc = "returned" /\ c1.tries = c.tries
            /\ c1.timedOut = c.timedOut /\ c1.code = c.code /\ c1.outcome = out
        BY <2>1, <3>2, ZenonT(30) DEF CallRecord
      <4> HIDE DEF c1
      <4>2. QED
        BY <2>1, <3>2, <3>4, <4>1 DEF Knows
    <3> HIDE DEF c1
    <3>6. QED
      BY <2>1, <3>3, <3>5
  <2>13. CASE DispatcherDies(d)
    <3> DEFINE c1 == [c EXCEPT !.pc = "died"]
    <3>1. c1 \in CallRecord /\ c1.pc = "died"
      BY <2>1, ZenonT(30) DEF CallRecord
    <3>2. c1 \in CallRecord /\ k \in ContainerRecord /\ Knows(c1, k)
      <4> HIDE DEF c1
      <4>1. QED
        BY <2>1, <3>1 DEF Knows
    <3>3. conf' = conf /\ call' = [call EXCEPT ![d] = c1] /\ container' = [container EXCEPT ![d] = k]
      BY <2>1, <2>2, <2>13 DEF DispatcherDies, c, k
    <3> HIDE DEF c1
    <3>4. QED
      BY <2>1, <3>2, <3>3
  <2>14. QED
    BY <1>2, <2>4, <2>5, <2>6, <2>7, <2>8, <2>9, <2>10, <2>11, <2>12, <2>13
<1>3. QED
  BY <1>1, <1>2 DEF SandboxNext

\* The first provider of the list that a user has a key for is there.
LEMMA FirstIsAKey ==
  ASSUME NEW keys \in SUBSET Providers, keys # {}
  PROVE  First(keys) \in keys
<1> DEFINE Held == {i \in DOMAIN Precedence : Precedence[i] \in keys}
<1>1. Held \subseteq Nat /\ Held # {}
  BY DEF Providers
<1>2. PICK i \in Held : \A j \in Held : ~ (<<j, i>> \in OpToRel(<, Nat))
  BY <1>1, WFMin, NatLessThanWellFounded
<1>3. \A j \in 1..(i - 1) : Precedence[j] \notin keys
  <2>1. SUFFICES ASSUME NEW j \in 1..(i - 1), Precedence[j] \in keys PROVE FALSE
    OBVIOUS
  <2>2. i \in 1..Len(Precedence) /\ Len(Precedence) \in Nat /\ j \in Nat /\ j < i
    BY <1>1
  <2>3. j \in Held
    BY <2>1, <2>2
  <2>4. <<j, i>> \in OpToRel(<, Nat)
    BY <2>2 DEF OpToRel
  <2>5. QED
    BY <1>2, <2>3, <2>4
<1>4. QED
  BY <1>2, <1>3 DEF First

LEMMA OwnKeysPaid ==
  ASSUME conf \in Settings
  PROVE  UserPaysOwnKeys
<1> DEFINE r == ResolveLaunchRuntime(conf.env, Keys, conf.pin)
<1>1. Keys \in SUBSET Providers /\ Keys = conf.stored \cap conf.agreed
  BY DEF Settings, Keys, UserProviderKeys
<1>2. r = ConfigError \/ \E p \in Providers : \E model : r = Named(model, p)
  <2>1. conf.pin.provider \in Providers \cup {None} /\ conf.env.provider \in Providers \cup {None}
    BY DEF Settings, Pins, OperatorEnv
  <2>2. CASE conf.pin.provider # None
    BY <2>1, <2>2 DEF ResolveLaunchRuntime
  <2>3. CASE conf.pin.provider = None /\ Keys = {}
    BY <2>1, <2>3 DEF ResolveLaunchRuntime, DefaultRuntime
  <2>4. CASE conf.pin.provider = None /\ Keys # {}
    BY <1>1, <2>4, FirstIsAKey DEF ResolveLaunchRuntime
  <2>5. QED
    BY <2>1, <2>2, <2>3, <2>4
<1>3. \A p \in Providers : \A model : (Named(model, p).model = None) = (Named(model, p).provider = None)
  BY DEF Named, ConfigError, Runtime
<1>4. (r.model = None) = (r.provider = None)
  BY <1>2, <1>3 DEF ConfigError, Runtime
<1>5. ASSUME Keys # {}, conf.pin.provider = None, r # ConfigError
      PROVE  r.provider \in Keys
  BY <1>1, <1>5, FirstIsAKey DEF ResolveLaunchRuntime, Named, Runtime
<1>6. ASSUME Keys # {}, conf.pin.provider = None, r # ConfigError
      PROVE  PreflightProvider(conf.env, Keys).credential = "user"
  <2>1. ResolveLaunchRuntime(conf.env, Keys, [provider |-> None, model |-> None]) = r
    BY <1>6 DEF ResolveLaunchRuntime
  <2>2. QED
    BY <1>5, <1>6, <2>1 DEF PreflightProvider
<1>7. QED
  BY <1>1, <1>4, <1>5, <1>6 DEF UserPaysOwnKeys, HostEnv, SandboxEnv

\* A dispatch that has returned leaves no container that docker would remove, its
\* report is what the container did, and a launch is paid for by whoever's key it
\* runs on (hermes_docker.run_dispatch, resolve_launch_runtime).
THEOREM SandboxSafe == SandboxSpec => []SandboxKept
<1>1. SandboxInv => SandboxKept
  BY OwnKeysPaid DEF SandboxInv, SandboxKept, Knows, ContainerGone, SandboxTypeOK
<1>2. QED
  BY SandboxFirst, SandboxStep, <1>1, PTL DEF SandboxSpec

-----------------------------------------------------------------------------
(* Vault: any people, keys, archives and scripts of the operator. *)

HIDE SandboxAssumption
USE VaultAssumption

UserLists == {s \in Seq(Persons \cup {Nobody}) : Len(s) <= MaxIds}
Stores == [exists : BOOLEAN, blob : [Entries -> Blobs]]
Archive == [users : UserLists, store : Stores, fernet : Int, kek : Int,
            unopened : SUBSET Entries, misfiled : SUBSET Entries]
Scripts == [does : {"none", "rotate", "backup", "restore"}, archive : Archive]

VaultTypes ==
    /\ prod \in BOOLEAN /\ moved \in BOOLEAN
    /\ home \in [fernet : 0..MaxFernet, legacy : {NoKey, 1}, kek : 0..MaxKek]
    /\ process \in [up : BOOLEAN, fernet : {Env} \cup 0..MaxFernet, kek : {Env} \cup 0..MaxKek]
    /\ made \in [fernet : 1..MaxFernet, kek : 0..MaxKek]
    /\ users \in UserLists /\ store \in Stores
    /\ archives \in Seq(Archive) /\ Len(archives) <= Keep
    /\ script \in Scripts
    /\ unopened \in SUBSET Entries /\ misfiled \in SUBSET Entries

\* Whatever is sealed was sealed with the operator's key or with one generated
\* before: the first Fernet key, which nothing is sealed with anew, or a KEK.
Sealed(s, last) ==
    \A x \in Entries :
        /\ s.blob[x].kind = "fernet" => s.blob[x].key = IF prod THEN Env ELSE 1
        /\ s.blob[x].kind = "envelope" => IF prod THEN s.blob[x].key = Env
                                          ELSE s.blob[x].key > 0 /\ s.blob[x].key <= last

SealedInv ==
    /\ Sealed(store, made.kek) /\ Sealed(script.archive.store, made.kek)
    /\ \A j \in DOMAIN archives : Sealed(archives[j].store, made.kek)
    /\ process.up => IF prod THEN process.kek = Env /\ process.fernet = Env
                     ELSE process.kek > 0 /\ process.kek <= made.kek

\* A process that found a home has the KEK that lies there, and the Fernet key
\* unless that was replaced by a later one.
ProcessInv ==
    process.up /\ ~prod /\ home.kek # NoKey =>
        /\ process.kek = home.kek
        /\ home.fernet # NoKey /\ (home.fernet = 1 => process.fernet = 1)

\* The keys in a store that the operator did not touch open.
Open(s, doubted, fernet, kek) == \A x \in Entries \ doubted : Opens(s.blob[x], fernet, kek)

OpenInv ==
    /\ Open(store, unopened, FernetOf(home), KekOf(home))
    /\ Open(script.archive.store, script.archive.unopened, script.archive.fernet, script.archive.kek)
    /\ \A j \in DOMAIN archives :
           Open(archives[j].store, archives[j].unopened, archives[j].fernet, archives[j].kek)

\* While the Fernet key is about to be replaced nothing is sealed with it.
RotateInv ==
    script.does = "rotate" /\ ~moved => \A x \in Entries : store.blob[x].kind # "fernet"

\* A store is of the accounts of a database.
Matches(us, s, doubted) ==
    \A x \in Entries \ doubted : s.blob[x] = NoBlob \/ (x[1] \in DOMAIN us /\ s.blob[x].owner = us[x[1]])

OwnerInv ==
    /\ script.does # "restore" => Matches(users, store, misfiled)
    /\ Matches(script.archive.users, script.archive.store, script.archive.misfiled) \/ script.does # "restore"
    /\ \A j \in DOMAIN archives : Matches(archives[j].users, archives[j].store, archives[j].misfiled)

VaultInv == VaultTypes /\ SealedInv /\ ProcessInv /\ OpenInv /\ RotateInv /\ OwnerInv

\* What the vault holds before anything is stored.
LEMMA NothingStored ==
  /\ NoBlob \in Blobs /\ NoBlob.kind = "none" /\ NoStore \in Stores /\ \A n : Sealed(NoStore, n)
  /\ NoArchive \in Archive /\ NoScript \in Scripts
  /\ NoScript.does = "none" /\ NoScript.archive = NoArchive /\ NoArchive.store = NoStore
  /\ \A x \in Entries : NoStore.blob[x] = NoBlob
  /\ \A us, d : Matches(us, NoStore, d)
  /\ \A d, f, k : Open(NoStore, d, f, k)
<1>1. NoBlob \in Blobs /\ NoBlob.kind = "none"
  BY DEF NoBlob, Blobs, NoKey
<1>2. NoStore \in Stores /\ \A x \in Entries : NoStore.blob[x] = NoBlob
  BY <1>1 DEF NoStore, Stores
<1>3. <<>> \in UserLists
  BY DEF UserLists
<1>4. NoArchive \in Archive /\ NoArchive.store = NoStore
  BY <1>2, <1>3 DEF NoArchive, Archive, NoKey
<1>5. NoScript \in Scripts /\ NoScript.does = "none" /\ NoScript.archive = NoArchive
  BY <1>4 DEF NoScript, Scripts
<1>6. QED
  BY <1>1, <1>2, <1>4, <1>5 DEF Sealed, Matches, Open, Opens

\* The parts of a store, of an archive and of a script.
LEMMA ArchiveParts ==
  ASSUME NEW a \in Archive
  PROVE  /\ a.users \in UserLists /\ a.store \in Stores /\ a.unopened \in SUBSET Entries
         /\ a.misfiled \in SUBSET Entries /\ a.store.blob \in [Entries -> Blobs]
BY DEF Archive, Stores

\* A script starts when there is none.
LEMMA StartsDo ==
  ASSUME NEW does, NEW archive, Starts(does, archive)
  PROVE  /\ script = NoScript /\ NoScript.does = "none"
         /\ script' = [does |-> does, archive |-> archive]
         /\ script'.does = does /\ script'.archive = archive
BY DEF Starts, NoScript

\* The one entry that a key is stored under.
LEMMA KeyStored ==
  ASSUME VaultTypes, NEW x \in Entries, SetUserKey(x)
  PROVE  \E b \in Blobs :
           /\ b = [kind |-> "envelope", key |-> process.kek, owner |-> users[x[1]]]
           /\ store' \in Stores /\ \A y \in Entries : store'.blob[y] = IF y = x THEN b ELSE store.blob[y]
<1> DEFINE b == [kind |-> "envelope", key |-> process.kek, owner |-> users[x[1]]]
<1>1. process.kek \in {Env} \cup 0..(MaxFernet + MaxKek)
  BY DEF VaultTypes
<1>2. users[x[1]] \in Persons \cup {Nobody}
  BY DEF VaultTypes, UserLists, SetUserKey
<1>3. b \in Blobs
  BY <1>1, <1>2 DEF Blobs
<1>4. store.blob \in [Entries -> Blobs] /\ store' = [exists |-> TRUE, blob |-> [store.blob EXCEPT ![x] = b]]
  BY DEF SetUserKey, VaultTypes, Stores
<1> HIDE DEF b
<1>5. [store.blob EXCEPT ![x] = b] \in [Entries -> Blobs]
  BY <1>3, <1>4
<1>6. store' \in Stores /\ \A y \in Entries : store'.blob[y] = IF y = x THEN b ELSE store.blob[y]
  BY <1>4, <1>5 DEF Stores
<1>7. b = [kind |-> "envelope", key |-> process.kek, owner |-> users[x[1]]]
  BY DEF b
<1>8. QED
  BY <1>3, <1>6, <1>7

\* The entries of an account go with it.
LEMMA EntriesErased ==
  ASSUME VaultTypes, NEW i \in Ids, EraseUser(i)
  PROVE  /\ store' \in Stores
         /\ \A y \in Entries : store'.blob[y] = IF y[1] = i THEN NoBlob ELSE store.blob[y]
<1>1. store' = [store EXCEPT !.blob = [x \in Entries |-> IF x[1] = i THEN NoBlob ELSE store.blob[x]]]
  BY DEF EraseUser
<1>2. [x \in Entries |-> IF x[1] = i THEN NoBlob ELSE store.blob[x]] \in [Entries -> Blobs]
  BY NothingStored DEF VaultTypes, Stores
<1>3. QED
  BY <1>1, <1>2 DEF VaultTypes, Stores

\* The backups that are kept: one more, and no older than those there were.
Kept(s, x) ==
    LET all == Append(s, x) IN SubSeq(all, IF Len(all) > Keep THEN Len(all) - Keep + 1 ELSE 1, Len(all))

LEMMA KeptAre ==
  ASSUME NEW S, NEW s \in Seq(S), NEW x \in S, Len(s) <= Keep
  PROVE  /\ Kept(s, x) \in Seq(S) /\ Len(Kept(s, x)) <= Keep
         /\ \A j \in DOMAIN Kept(s, x) : Kept(s, x)[j] = x \/ \E i \in DOMAIN s : Kept(s, x)[j] = s[i]
<1> DEFINE all == Append(s, x)
           m == IF Len(all) > Keep THEN Len(all) - Keep + 1 ELSE 1
           n == Len(all)
<1>1. /\ all \in Seq(S) /\ n = Len(s) + 1 /\ Len(s) \in Nat
      /\ \A i \in 1..n : all[i] \in S /\ (all[i] = x \/ \E l \in DOMAIN s : all[i] = s[l])
  OBVIOUS
<1>2. m \in 1..n /\ n - m + 1 <= Keep /\ n \in Nat
  BY <1>1
<1> HIDE DEF all, m, n
<1>3. \A i \in m..n : all[i] \in S
  BY <1>1, <1>2
<1>4. /\ SubSeq(all, m, n) \in Seq(S) /\ Len(SubSeq(all, m, n)) = n - m + 1
      /\ \A i \in 1..(n - m + 1) : SubSeq(all, m, n)[i] = all[m + i - 1]
  BY <1>2, <1>3, SubSeqProperties
<1>5. Kept(s, x) = SubSeq(all, m, n)
  BY DEF Kept, all, m, n
<1>6. \A j \in 1..(n - m + 1) : m + j - 1 \in 1..n
  BY <1>2
<1>7. DOMAIN SubSeq(all, m, n) = 1..(n - m + 1)
  BY <1>4
<1>8. Kept(s, x) \in Seq(S) /\ Len(Kept(s, x)) <= Keep
  BY <1>2, <1>4, <1>5
<1>9. ASSUME NEW j \in DOMAIN Kept(s, x)
      PROVE  Kept(s, x)[j] = x \/ \E i \in DOMAIN s : Kept(s, x)[j] = s[i]
  <2>1. j \in 1..(n - m + 1) /\ m + j - 1 \in 1..n
    BY <1>5, <1>6, <1>7
  <2>2. Kept(s, x)[j] = all[m + j - 1]
    BY <1>4, <1>5, <2>1
  <2>3. QED
    BY <1>1, <2>1, <2>2
<1>10. QED
  BY <1>8, <1>9

\* The archive that a backup adds.
NewArchive ==
    [users |-> script.archive.users, store |-> Beside, fernet |-> FernetOf(home), kek |-> KekOf(home),
     unopened |-> unopened,
     misfiled |-> IF users = script.archive.users THEN misfiled ELSE misfiled \cup Stored(store)]

LEMMA ArchivesAfter ==
  ASSUME VaultTypes, BackupStore
  PROVE  /\ NewArchive \in Archive /\ archives' \in Seq(Archive) /\ Len(archives') <= Keep
         /\ \A j \in DOMAIN archives' : archives'[j] = NewArchive \/ \E l \in DOMAIN archives : archives'[j] = archives[l]
<1>1. FernetOf(home) \in Int /\ KekOf(home) \in Int
  BY DEF VaultTypes, FernetOf, KekOf, Env, NoKey
<1>2. script.archive.users \in UserLists /\ Beside \in Stores
  BY ArchiveParts, NothingStored DEF VaultTypes, Scripts, Beside
<1>3. Stored(store) \in SUBSET Entries
  BY DEF Stored
<1>4. NewArchive \in Archive
  BY <1>1, <1>2, <1>3 DEF NewArchive, Archive, VaultTypes
<1>5. archives' = Kept(archives, NewArchive)
  BY DEF BackupStore, Kept, NewArchive
<1>6. archives \in Seq(Archive) /\ Len(archives) <= Keep
  BY DEF VaultTypes
<1>7. QED
  BY <1>4, <1>5, <1>6, KeptAre

LEMMA VaultFirst == VaultInit => VaultInv
<1> SUFFICES ASSUME VaultInit PROVE VaultInv
  OBVIOUS
<1> USE NothingStored
<1>1. PICK p \in Persons : users = <<p>>
  BY DEF VaultInit
<1>2. users \in UserLists /\ DOMAIN users = {1} /\ users[1] = p /\ 1 \in Ids
  BY <1>1 DEF UserLists, Ids
<1>3. /\ script = NoScript /\ archives = <<>> /\ ~process.up /\ unopened = {} /\ misfiled = {}
      /\ script.does = "none" /\ made = [fernet |-> 1, kek |-> 0]
  BY DEF VaultInit
<1>4. store \in Stores => VaultTypes
  BY <1>2, <1>3 DEF VaultInit, VaultTypes, NoKey
<1>5. ProcessInv /\ RotateInv
  BY <1>3 DEF ProcessInv, RotateInv
<1>6. /\ Open(script.archive.store, script.archive.unopened, script.archive.fernet, script.archive.kek)
      /\ Sealed(script.archive.store, made.kek)
  BY <1>3
<1>7. Sealed(store, made.kek) => SealedInv
  BY <1>3, <1>6 DEF SealedInv
<1>8. Open(store, unopened, FernetOf(home), KekOf(home)) => OpenInv
  BY <1>3, <1>6 DEF OpenInv
<1>9. Matches(users, store, misfiled) => OwnerInv
  BY <1>3 DEF OwnerInv
<1>10. CASE store = NoStore
  BY <1>4, <1>5, <1>7, <1>8, <1>9, <1>10 DEF VaultInv
<1>11. ASSUME NEW x \in EntriesOf(1),
              store = [exists |-> TRUE, blob |-> [NoStore.blob EXCEPT ![x] =
                         [kind |-> "fernet", key |-> IF prod THEN Env ELSE 1, owner |-> users[1]]]]
       PROVE  VaultInv
  <2> DEFINE b == [kind |-> "fernet", key |-> IF prod THEN Env ELSE 1, owner |-> users[1]]
  <2>1. b \in Blobs
    BY <1>2 DEF Blobs, Env
  <2>2. x \in Entries /\ x[1] = 1
    BY DEF EntriesOf
  <2>3. b.kind = "fernet" /\ (b.key = IF prod THEN Env ELSE 1) /\ b.owner = users[1] /\ prod \in BOOLEAN
    BY DEF VaultInit
  <2>4. store = [exists |-> TRUE, blob |-> [NoStore.blob EXCEPT ![x] = b]]
    BY <1>11
  <2> HIDE DEF b
  <2>5. NoStore.blob \in [Entries -> Blobs]
    BY DEF Stores
  <2>6. [NoStore.blob EXCEPT ![x] = b] \in [Entries -> Blobs]
    BY <2>1, <2>2, <2>5
  <2>7. store \in Stores /\ store.exists /\ \A y \in Entries : store.blob[y] = IF y = x THEN b ELSE NoBlob
    BY <2>2, <2>4, <2>5, <2>6 DEF Stores
  <2>8. b.key = FernetOf(home)
    BY <2>3, <2>7 DEF VaultInit, FernetOf, NoKey
  <2>9. Open(store, unopened, FernetOf(home), KekOf(home))
    BY <2>3, <2>7, <2>8 DEF Open, Opens
  <2>10. Sealed(store, made.kek)
    BY <2>3, <2>7 DEF Sealed
  <2>11. Matches(users, store, misfiled)
    BY <1>2, <2>2, <2>3, <2>7 DEF Matches
  <2>12. QED
    BY <1>4, <1>5, <1>7, <1>8, <1>9, <2>7, <2>9, <2>10, <2>11 DEF VaultInv
<1>12. QED
  BY <1>10, <1>11 DEF VaultInit

\* The keys that the home holds, or that the next process writes there.
LEMMA KeysAre ==
  ASSUME VaultTypes
  PROVE  /\ prod => FernetOf(home) = Env /\ KekOf(home) = Env
         /\ ~prod => FernetOf(home) \in Nat \ {0} /\ KekOf(home) \in Nat \ {0}
         /\ ~prod /\ home.fernet # NoKey => FernetOf(home) = home.fernet
         /\ ~prod /\ home.kek # NoKey => KekOf(home) = home.kek
         /\ ~prod /\ home.kek = NoKey => KekOf(home) = made.kek + 1
         /\ ~prod /\ home.fernet = NoKey /\ home.legacy = NoKey => FernetOf(home) = made.fernet + 1
BY SMTT(30) DEF VaultTypes, FernetOf, KekOf, NoKey

LEMMA VaultTypeStep ==
  ASSUME VaultTypes, [VaultNext]_vaultVars
  PROVE  VaultTypes'
<1> USE DEF VaultTypes
<1> USE NothingStored
<1>1. CASE LoadKeys
  <2>1. home' \in [fernet : 0..MaxFernet, legacy : {NoKey, 1}, kek : 0..MaxKek]
    BY <1>1, KeysAre DEF LoadKeys, NoKey
  <2>2. process' \in [up : BOOLEAN, fernet : {Env} \cup 0..MaxFernet, kek : {Env} \cup 0..MaxKek]
    BY <1>1, KeysAre DEF LoadKeys
  <2>3. made' \in [fernet : 1..MaxFernet, kek : 0..MaxKek]
    BY <1>1, KeysAre DEF LoadKeys, Env
  <2>4. QED
    BY <1>1, <2>1, <2>2, <2>3 DEF LoadKeys, setting, vaultHistory, doubts
<1>2. CASE LoadEphemeral
  <2>1. made' \in [fernet : 1..MaxFernet, kek : 0..MaxKek]
    BY <1>2 DEF LoadEphemeral
  <2>2. process' \in [up : BOOLEAN, fernet : {Env} \cup 0..MaxFernet, kek : {Env} \cup 0..MaxKek]
    BY <1>2, <2>1 DEF LoadEphemeral
  <2>3. QED
    BY <1>2, <2>1, <2>2 DEF LoadEphemeral, setting, vaultHistory, doubts
<1>3. CASE Stops
  <2>1. process' \in [up : BOOLEAN, fernet : {Env} \cup 0..MaxFernet, kek : {Env} \cup 0..MaxKek]
    BY <1>3 DEF Stops, NoKey
  <2>2. QED
    BY <1>3, <2>1 DEF Stops, setting, vaultHistory, doubts
<1>4. CASE HomeLost
  <2>1. home' \in [fernet : 0..MaxFernet, legacy : {NoKey, 1}, kek : 0..MaxKek]
    <3>1. NoKey \in 0..MaxFernet /\ NoKey \in 0..MaxKek
      BY DEF NoKey
    <3>2. home' = [[home EXCEPT !.fernet = NoKey] EXCEPT !.kek = NoKey]
      BY <1>4 DEF HomeLost
    <3>3. [home EXCEPT !.fernet = NoKey] \in [fernet : 0..MaxFernet, legacy : {NoKey, 1}, kek : 0..MaxKek]
      BY <3>1
    <3>4. QED
      BY <3>1, <3>2, <3>3
  <2>2. unopened' \in SUBSET Entries
    BY <1>4 DEF HomeLost, Stored
  <2>3. QED
    BY <1>4, <2>1, <2>2 DEF HomeLost, setting
<1>5. ASSUME NEW p \in Persons, OpenAccount(p) PROVE VaultTypes'
  <2>1. users' \in UserLists
    BY <1>5 DEF OpenAccount, UserLists, Ids
  <2>2. QED
    BY <1>5, <2>1 DEF OpenAccount, setting, vaultHistory, doubts
<1>6. ASSUME NEW x \in Entries, SetUserKey(x) PROVE VaultTypes'
  <2>1. store' \in Stores
    BY <1>6, KeyStored
  <2>2. unopened' \in SUBSET Entries /\ misfiled' \in SUBSET Entries
    BY <1>6 DEF SetUserKey
  <2>3. QED
    BY <1>6, <2>1, <2>2 DEF SetUserKey, setting
<1>7. ASSUME NEW i \in Ids, EraseUser(i) PROVE VaultTypes'
  <2>1. store' \in Stores
    BY <1>7, EntriesErased
  <2>2. users' \in UserLists
    BY <1>7 DEF EraseUser, UserLists
  <2>3. unopened' \in SUBSET Entries /\ misfiled' \in SUBSET Entries
    BY <1>7 DEF EraseUser
  <2>4. QED
    BY <1>7, <2>1, <2>2, <2>3 DEF EraseUser, setting
<1>8. CASE RotateCheck
  <2>1. script' \in Scripts
    BY <1>8, StartsDo DEF RotateCheck, Scripts
  <2>2. QED
    BY <1>8, <2>1 DEF RotateCheck, setting, doubts
<1>9. CASE RotateWrite
  <2>1. made.fernet + 1 \in 1..MaxFernet
    BY <1>9 DEF RotateWrite
  <2>2. made' \in [fernet : 1..MaxFernet, kek : 0..MaxKek]
    BY <1>9, <2>1 DEF RotateWrite
  <2>3. home' \in [fernet : 0..MaxFernet, legacy : {NoKey, 1}, kek : 0..MaxKek]
    BY <1>9, <2>1 DEF RotateWrite
  <2>4. unopened' \in SUBSET Entries
    BY <1>9 DEF RotateWrite
  <2>5. QED
    BY <1>9, <2>2, <2>3, <2>4 DEF RotateWrite, setting
<1>10. CASE BackupDb
  <2>1. [NoArchive EXCEPT !.users = users] \in Archive
    BY DEF Archive
  <2>2. script' \in Scripts
    BY <1>10, <2>1, StartsDo DEF BackupDb, Scripts
  <2>3. QED
    BY <1>10, <2>2 DEF BackupDb, setting, doubts
<1>11. CASE BackupStore
  <2>1. archives' \in Seq(Archive) /\ Len(archives') <= Keep
    BY <1>11, ArchivesAfter
  <2>2. QED
    BY <1>11, <2>1 DEF BackupStore, setting, doubts
<1>12. CASE RestoreDb
  <2>1. PICK i \in DOMAIN archives : Starts("restore", archives[i]) /\ users' = archives[i].users
    BY <1>12 DEF RestoreDb
  <2>2. archives[i] \in Archive
    OBVIOUS
  <2>3. users' \in UserLists
    BY <2>1, <2>2, ArchiveParts
  <2>4. script' \in Scripts
    BY <2>1, <2>2, StartsDo DEF Scripts
  <2>5. QED
    BY <1>12, <2>3, <2>4 DEF RestoreDb, setting, doubts
<1>13. CASE RestoreStore
  <2>1. script.archive \in Archive
    BY DEF Scripts
  <2>2. store' \in Stores /\ unopened' \in SUBSET Entries /\ misfiled' \in SUBSET Entries
    BY <1>13, <2>1, ArchiveParts DEF RestoreStore, Outdated, Stored
  <2>3. QED
    BY <1>13, <2>2 DEF RestoreStore, setting
<1>14. CASE RestoreNoStore
  <2>1. misfiled' \in SUBSET Entries
    BY <1>14 DEF RestoreNoStore, Stored
  <2>2. QED
    BY <1>14, <2>1 DEF RestoreNoStore, setting
<1>15. CASE ScriptDies
  <2>1. misfiled' \in SUBSET Entries
    BY <1>15 DEF ScriptDies, Stored
  <2>2. QED
    BY <1>15, <2>1 DEF ScriptDies, setting
<1>16. CASE UNCHANGED vaultVars
  BY <1>16 DEF vaultVars, setting, vaultHistory, doubts
<1>17. QED
  BY <1>1, <1>2, <1>3, <1>4, <1>5, <1>6, <1>7, <1>8, <1>9, <1>10, <1>11, <1>12, <1>13, <1>14,
     <1>15, <1>16
  DEF VaultNext

\* What is sealed stays sealed with a key that was generated before.
LEMMA StillSealed ==
  ASSUME NEW s \in Stores, NEW m \in Nat, NEW n \in Nat, m <= n, Sealed(s, m)
  PROVE  Sealed(s, n)
BY DEF Sealed, Stores, Blobs, Env

\* A key is sealed with one that the process has loaded, and copied as it is.
LEMMA SealedStep ==
  ASSUME VaultTypes, SealedInv, [VaultNext]_vaultVars
  PROVE  SealedInv'
<1> USE NothingStored
<1>1. prod' = prod /\ made'.kek \in Nat /\ made.kek <= made'.kek
  <2>1. CASE LoadKeys
    BY <2>1, KeysAre DEF LoadKeys, VaultTypes, setting, Env
  <2>2. CASE LoadEphemeral
    BY <2>2 DEF LoadEphemeral, VaultTypes, setting
  <2>3. CASE RotateWrite
    BY <2>3 DEF RotateWrite, VaultTypes, setting
  <2>4. CASE UNCHANGED <<prod, made>>
    BY <2>4 DEF VaultTypes
  <2>5. QED
    BY <2>1, <2>2, <2>3, <2>4
    DEF VaultNext, vaultVars, setting, Stops, HomeLost, OpenAccount, SetUserKey, EraseUser, RotateCheck,
        BackupDb, BackupStore, RestoreDb, RestoreStore, RestoreNoStore, ScriptDies
<1>2. ASSUME NEW s \in Stores, Sealed(s, made.kek) PROVE Sealed(s, made'.kek)
  BY <1>1, <1>2, StillSealed DEF VaultTypes
<1>3. /\ script.archive \in Archive /\ script.archive.store \in Stores /\ store \in Stores
      /\ \A j \in DOMAIN archives : archives[j] \in Archive /\ archives[j].store \in Stores
  BY ArchiveParts DEF VaultTypes, Scripts
<1>4. Sealed(store', made'.kek)
  <2>1. CASE store' = store
    BY <1>2, <1>3, <2>1 DEF SealedInv, Sealed
  <2>2. ASSUME NEW x \in Entries, SetUserKey(x) PROVE Sealed(store', made'.kek)
    <3>1. PICK b \in Blobs : /\ b = [kind |-> "envelope", key |-> process.kek, owner |-> users[x[1]]]
                             /\ \A y \in Entries : store'.blob[y] = IF y = x THEN b ELSE store.blob[y]
      BY <2>2, KeyStored
    <3>2. b.kind = "envelope" /\ b.key = process.kek
      BY <3>1
    <3>3. made' = made /\ process.up
      BY <2>2 DEF SetUserKey
    <3>4. IF prod THEN b.key = Env ELSE b.key > 0 /\ b.key <= made.kek
      BY <3>2, <3>3 DEF SealedInv
    <3>5. QED
      BY <1>1, <3>1, <3>2, <3>3, <3>4 DEF SealedInv, Sealed
  <2>3. ASSUME NEW i \in Ids, EraseUser(i) PROVE Sealed(store', made'.kek)
    <3>1. \A y \in Entries : store'.blob[y] = IF y[1] = i THEN NoBlob ELSE store.blob[y]
      BY <2>3, EntriesErased
    <3>2. made' = made
      BY <2>3 DEF EraseUser
    <3>3. QED
      BY <1>1, <3>1, <3>2 DEF SealedInv, Sealed
  <2>4. CASE RestoreStore
    <3>1. store' = script.archive.store
      BY <2>4 DEF RestoreStore
    <3>2. QED
      BY <1>2, <1>3, <3>1 DEF SealedInv, Sealed
  <2>5. QED
    BY <2>1, <2>2, <2>3, <2>4
    DEF VaultNext, vaultVars, Stops, HomeLost, OpenAccount, RotateCheck, RotateWrite, LoadKeys, LoadEphemeral,
        BackupDb, BackupStore, RestoreDb, RestoreNoStore, ScriptDies
<1>5. ASSUME NEW j \in DOMAIN archives' PROVE Sealed(archives'[j].store, made'.kek)
  <2>1. CASE archives' = archives
    BY <1>2, <1>3, <2>1 DEF SealedInv, Sealed
  <2>2. CASE BackupStore
    <3>1. archives'[j] = NewArchive \/ \E l \in DOMAIN archives : archives'[j] = archives[l]
      BY <1>5, <2>2, ArchivesAfter
    <3>2. NewArchive.store = Beside /\ Beside \in Stores /\ Sealed(Beside, made.kek)
      BY <1>3 DEF NewArchive, Beside, SealedInv
    <3>3. ASSUME NEW l \in DOMAIN archives PROVE Sealed(archives[l].store, made'.kek)
      BY <1>2, <1>3 DEF SealedInv
    <3>4. CASE archives'[j] = NewArchive
      <4>1. archives'[j].store = Beside
        BY <3>2, <3>4
      <4>2. Sealed(archives'[j].store, made.kek) /\ archives'[j].store \in Stores
        BY <3>2, <4>1
      <4>3. QED
        BY <1>2, <4>2
    <3>5. CASE \E l \in DOMAIN archives : archives'[j] = archives[l]
      <4>1. PICK l \in DOMAIN archives : archives'[j] = archives[l]
        BY <3>5
      <4>2. Sealed(archives'[j].store, made.kek) /\ archives'[j].store \in Stores
        BY <1>3, <4>1 DEF SealedInv
      <4>3. QED
        BY <1>2, <4>2
    <3>6. QED
      BY <3>1, <3>4, <3>5
  <2>3. QED
    BY <2>1, <2>2
    DEF VaultNext, vaultVars, Stops, HomeLost, OpenAccount, RotateCheck, RotateWrite, LoadKeys, LoadEphemeral,
        BackupDb, RestoreDb, RestoreNoStore, ScriptDies, SetUserKey, EraseUser, RestoreStore
<1>6. Sealed(script'.archive.store, made'.kek)
  <2>1. script'.archive.store = NoStore \/ script'.archive = script.archive
         \/ \E j \in DOMAIN archives : script'.archive = archives[j]
    <3>1. CASE RotateCheck \/ BackupDb
      BY <3>1, StartsDo DEF RotateCheck, BackupDb, NoArchive
    <3>2. CASE RestoreDb
      BY <3>2, StartsDo DEF RestoreDb
    <3>3. CASE script' = NoScript \/ script' = script
      BY <3>3
    <3>4. QED
      BY <3>1, <3>2, <3>3
      DEF VaultNext, vaultVars, Stops, HomeLost, OpenAccount, RotateWrite, LoadKeys, LoadEphemeral,
          BackupStore, RestoreNoStore, ScriptDies, SetUserKey, EraseUser, RestoreStore
  <2>2. script'.archive.store \in Stores /\ Sealed(script'.archive.store, made.kek)
    BY <1>3, <2>1 DEF SealedInv
  <2>3. QED
    BY <1>2, <2>2
<1>7. process'.up => IF prod THEN process'.kek = Env /\ process'.fernet = Env
                     ELSE process'.kek > 0 /\ process'.kek <= made'.kek
  <2>1. CASE LoadKeys
    BY <2>1, KeysAre DEF LoadKeys, VaultTypes, NoKey
  <2>2. CASE LoadEphemeral
    BY <2>2 DEF LoadEphemeral, VaultTypes
  <2>3. CASE Stops
    BY <2>3 DEF Stops
  <2>4. CASE process' = process
    BY <1>1, <2>4, SMTT(30) DEF SealedInv, VaultTypes, Env
  <2>5. QED
    BY <2>1, <2>2, <2>3, <2>4
    DEF VaultNext, vaultVars, HomeLost, OpenAccount, SetUserKey, EraseUser, RotateCheck, RotateWrite,
        BackupDb, BackupStore, RestoreDb, RestoreStore, RestoreNoStore, ScriptDies
<1>8. QED
  BY <1>1, <1>4, <1>5, <1>6, <1>7 DEF SealedInv, Sealed

\* A process keeps the keys it has loaded; the home changes under it only by a
\* rotation, which writes a later Fernet key.
LEMMA ProcessStep ==
  ASSUME VaultTypes, ProcessInv, [VaultNext]_vaultVars
  PROVE  ProcessInv'
<1> USE DEF ProcessInv
<1>1. CASE LoadKeys
  <2>1. CASE prod
    BY <1>1, <2>1 DEF LoadKeys, setting
  <2>2. CASE ~prod
    <3>1. /\ process'.kek = KekOf(home) /\ process'.fernet = FernetOf(home)
          /\ home'.kek = KekOf(home) /\ home'.fernet = FernetOf(home)
      BY <1>1, <2>2 DEF LoadKeys
    <3>2. FernetOf(home) # NoKey
      BY <2>2, KeysAre DEF NoKey
    <3>3. QED
      BY <3>1, <3>2
  <2>3. QED
    BY <2>1, <2>2
<1>2. CASE LoadEphemeral
  BY <1>2 DEF LoadEphemeral, NoKey
<1>3. CASE Stops
  BY <1>3 DEF Stops
<1>4. CASE HomeLost
  BY <1>4 DEF HomeLost, NoKey
<1>5. CASE RotateWrite
  <2>1. home'.fernet = made.fernet + 1 /\ home'.kek = home.kek /\ UNCHANGED <<prod, process>>
    BY <1>5 DEF RotateWrite, VaultTypes, setting
  <2>2. made.fernet + 1 # NoKey /\ made.fernet + 1 # 1
    BY DEF VaultTypes, NoKey
  <2>3. QED
    BY <2>1, <2>2
<1>6. CASE UNCHANGED <<prod, home, process>>
  BY <1>6
<1>7. QED
  BY <1>1, <1>2, <1>3, <1>4, <1>5, <1>6
  DEF VaultNext, vaultVars, setting, OpenAccount, SetUserKey, EraseUser, RotateCheck,
      BackupDb, BackupStore, RestoreDb, RestoreStore, RestoreNoStore, ScriptDies

\* Loading the keys changes none that the home holds or has coming.
LEMMA KeysKept ==
  ASSUME VaultTypes, [VaultNext]_vaultVars, ~LoadEphemeral, ~HomeLost
  PROVE  /\ KekOf(home)' = KekOf(home)
         /\ ~RotateWrite => FernetOf(home)' = FernetOf(home)
<1>1. CASE LoadKeys
  <2>1. CASE prod
    BY <1>1, <2>1 DEF LoadKeys, FernetOf, KekOf, setting
  <2>2. CASE ~prod
    <3>1. home'.fernet = FernetOf(home) /\ home'.kek = KekOf(home) /\ prod' = prod
      BY <1>1, <2>2 DEF LoadKeys, setting
    <3>2. FernetOf(home) # NoKey /\ KekOf(home) # NoKey
      BY <2>2, KeysAre DEF NoKey
    <3>3. QED
      BY <2>2, <3>1, <3>2 DEF FernetOf, KekOf
  <2>3. QED
    BY <2>1, <2>2
<1>2. CASE RotateWrite
  <2>1. home'.kek = home.kek /\ made'.kek = made.kek /\ prod' = prod
    BY <1>2 DEF RotateWrite, VaultTypes, setting
  <2>2. QED
    BY <1>2, <2>1 DEF KekOf
<1>3. CASE UNCHANGED <<prod, home, made>>
  BY <1>3 DEF FernetOf, KekOf
<1>4. QED
  BY <1>1, <1>2, <1>3
  DEF VaultNext, vaultVars, setting, Stops, OpenAccount, SetUserKey, EraseUser, RotateCheck, BackupDb,
      BackupStore, RestoreDb, RestoreStore, RestoreNoStore, ScriptDies

\* A step costs no key but those it puts in doubt: what the store holds goes on
\* opening for the next process to start.
LEMMA StoreOpens ==
  ASSUME VaultTypes, SealedInv, ProcessInv, OpenInv, RotateInv, [VaultNext]_vaultVars
  PROVE  Open(store', unopened', FernetOf(home)', KekOf(home)')
<1> USE NothingStored
<1>1. \A x \in Entries \ unopened : Opens(store.blob[x], FernetOf(home), KekOf(home))
  BY DEF OpenInv, Open
<1>2. \A x \in Entries : store.blob[x] \in Blobs /\ store.blob[x].kind \in {"none", "fernet", "envelope"}
  BY DEF VaultTypes, Stores, Blobs
<1>3. ASSUME UNCHANGED <<store, unopened>>, ~LoadEphemeral, ~HomeLost, ~RotateWrite
      PROVE  Open(store', unopened', FernetOf(home)', KekOf(home)')
  BY <1>1, <1>3, KeysKept DEF Open
<1>4. CASE LoadKeys \/ Stops \/ \E p \in Persons : OpenAccount(p)
  <2>1. UNCHANGED <<store, unopened>>
    BY <1>4 DEF LoadKeys, Stops, OpenAccount, vaultHistory, doubts
  <2>2. ~LoadEphemeral /\ ~HomeLost /\ ~RotateWrite
    <3>1. CASE LoadKeys
      BY <3>1, KeysAre DEF LoadKeys, LoadEphemeral, HomeLost, RotateWrite, VaultTypes, NoKey
    <3>2. CASE Stops
      BY <3>2 DEF Stops, LoadEphemeral, HomeLost, RotateWrite, VaultTypes
    <3>3. ASSUME NEW p \in Persons, OpenAccount(p) PROVE ~LoadEphemeral /\ ~HomeLost /\ ~RotateWrite
      BY <3>3 DEF OpenAccount, LoadEphemeral, HomeLost, RotateWrite, VaultTypes
    <3>4. QED
      BY <1>4, <3>1, <3>2, <3>3
  <2>3. QED
    BY <1>3, <2>1, <2>2
<1>5. CASE LoadEphemeral
  <2>1. /\ UNCHANGED <<store, unopened>> /\ ~prod /\ home.kek = NoKey /\ home.fernet = NoKey /\ home.legacy = NoKey
    BY <1>5 DEF LoadEphemeral, vaultHistory, doubts
  <2>2. FernetOf(home) = made.fernet + 1 /\ KekOf(home) = made.kek + 1 /\ made.fernet \in Nat \ {0} /\ made.kek \in Nat
    BY <2>1, KeysAre DEF VaultTypes
  <2>3. ASSUME NEW x \in Entries \ unopened PROVE store.blob[x].kind = "none"
    <3>1. Opens(store.blob[x], FernetOf(home), KekOf(home))
      BY <1>1
    <3>a. /\ store.blob[x].kind = "fernet" => store.blob[x].key = 1
          /\ store.blob[x].kind = "envelope" => store.blob[x].key <= made.kek
      BY <2>1 DEF SealedInv, Sealed
    <3>2. store.blob[x].kind # "fernet"
      <4>1. made.fernet + 1 # 1
        BY <2>2
      <4>2. QED
        BY <2>2, <3>1, <3>a, <4>1 DEF Opens
    <3>3. store.blob[x].kind # "envelope"
      <4>1. ~(made.kek + 1 <= made.kek)
        BY <2>2
      <4>2. QED
        BY <2>2, <3>1, <3>a, <4>1 DEF Opens
    <3>4. QED
      BY <1>2, <3>2, <3>3
  <2>4. QED
    BY <2>1, <2>3 DEF Open, Opens
<1>6. CASE HomeLost
  <2>1. store' = store /\ unopened' = unopened \cup Stored(store)
    BY <1>6 DEF HomeLost
  <2>2. \A x \in Entries \ unopened' : store.blob[x] = NoBlob
    BY <2>1 DEF Stored
  <2>3. QED
    BY <2>1, <2>2 DEF Open, Opens
<1>7. CASE RotateWrite
  <2>1. /\ store' = store /\ script.does = "rotate"
        /\ unopened' = IF moved THEN unopened \cup {x \in Entries : store.blob[x].kind = "fernet"} ELSE unopened
    BY <1>7 DEF RotateWrite
  <2>2. \A x \in Entries \ unopened' : x \notin unopened /\ store.blob[x].kind # "fernet"
    BY <2>1 DEF RotateInv
  <2>3. ~LoadEphemeral /\ ~HomeLost
    BY <1>7 DEF RotateWrite, LoadEphemeral, HomeLost, NoScript, VaultTypes
  <2>4. KekOf(home)' = KekOf(home)
    BY <2>3, KeysKept
  <2>5. ASSUME NEW x \in Entries \ unopened' PROVE Opens(store.blob[x], FernetOf(home)', KekOf(home)')
    <3>1. Opens(store.blob[x], FernetOf(home), KekOf(home)) /\ store.blob[x].kind \in {"none", "envelope"}
      BY <1>1, <1>2, <2>2
    <3>2. QED
      BY <2>4, <3>1 DEF Opens
  <2>6. QED
    BY <2>1, <2>5 DEF Open
<1>8. ASSUME NEW x \in Entries, SetUserKey(x) PROVE Open(store', unopened', FernetOf(home)', KekOf(home)')
  <2>1. PICK b \in Blobs : /\ b = [kind |-> "envelope", key |-> process.kek, owner |-> users[x[1]]]
                           /\ \A y \in Entries : store'.blob[y] = IF y = x THEN b ELSE store.blob[y]
    BY <1>8, KeyStored
  <2>2. b.kind = "envelope" /\ b.key = process.kek
    BY <2>1
  <2>3. /\ UNCHANGED <<setting, home, made>> /\ process.up
        /\ unopened' = IF Throwaway THEN unopened \cup {x} ELSE unopened \ {x}
    BY <1>8 DEF SetUserKey
  <2>4. FernetOf(home)' = FernetOf(home) /\ KekOf(home)' = KekOf(home)
    BY <2>3 DEF FernetOf, KekOf, setting
  <2>5. ~Throwaway => process.kek = KekOf(home)
    BY <2>3, KeysAre DEF Throwaway, ProcessInv, SealedInv
  <2>6. ASSUME NEW y \in Entries \ unopened' PROVE Opens(store'.blob[y], FernetOf(home), KekOf(home))
    <3>1. CASE y = x
      <4>1. ~Throwaway
        BY <2>3, <3>1
      <4>2. QED
        BY <2>1, <2>2, <2>5, <3>1, <4>1 DEF Opens
    <3>2. CASE y # x
      <4>1. y \notin unopened
        BY <2>3, <3>2
      <4>2. QED
        BY <1>1, <2>1, <3>2, <4>1
    <3>3. QED
      BY <3>1, <3>2
  <2>7. QED
    BY <2>4, <2>6 DEF Open
<1>9. ASSUME NEW i \in Ids, EraseUser(i) PROVE Open(store', unopened', FernetOf(home)', KekOf(home)')
  <2>1. \A y \in Entries : store'.blob[y] = IF y[1] = i THEN NoBlob ELSE store.blob[y]
    BY <1>9, EntriesErased
  <2>2. UNCHANGED <<setting, home, made>> /\ unopened' = unopened \ EntriesOf(i)
    BY <1>9 DEF EraseUser
  <2>3. FernetOf(home)' = FernetOf(home) /\ KekOf(home)' = KekOf(home)
    BY <2>2 DEF FernetOf, KekOf, setting
  <2>4. ASSUME NEW y \in Entries \ unopened' PROVE Opens(store'.blob[y], FernetOf(home), KekOf(home))
    <3>1. CASE y[1] = i
      BY <2>1, <3>1 DEF Opens
    <3>2. CASE y[1] # i
      <4>1. y \notin unopened
        BY <2>2, <3>2 DEF EntriesOf
      <4>2. QED
        BY <1>1, <2>1, <3>2, <4>1
    <3>3. QED
      BY <3>1, <3>2
  <2>5. QED
    BY <2>3, <2>4 DEF Open
<1>10. CASE RotateCheck \/ BackupDb \/ BackupStore \/ RestoreDb \/ RestoreNoStore \/ ScriptDies
  <2>1. UNCHANGED <<store, unopened, setting, home, made>>
    BY <1>10 DEF RotateCheck, BackupDb, BackupStore, RestoreDb, RestoreNoStore, ScriptDies, doubts
  <2>2. FernetOf(home)' = FernetOf(home) /\ KekOf(home)' = KekOf(home)
    BY <2>1 DEF FernetOf, KekOf, setting
  <2>3. QED
    BY <1>1, <2>1, <2>2 DEF Open
<1>11. CASE RestoreStore
  <2> DEFINE a == script.archive
  <2>1. /\ store' = a.store /\ unopened' = a.unopened \cup Outdated(a) /\ UNCHANGED <<setting, home, made>>
    BY <1>11 DEF RestoreStore
  <2>2. FernetOf(home)' = FernetOf(home) /\ KekOf(home)' = KekOf(home)
    BY <2>1 DEF FernetOf, KekOf, setting
  <2>3. \A x \in Entries \ a.unopened : Opens(a.store.blob[x], a.fernet, a.kek)
    BY DEF OpenInv, Open
  <2>4. \A x \in Entries : a.store.blob[x].kind \in {"none", "fernet", "envelope"}
    BY ArchiveParts DEF VaultTypes, Scripts, Blobs
  <2> HIDE DEF a
  <2>5. ASSUME NEW x \in Entries \ unopened' PROVE Opens(a.store.blob[x], FernetOf(home), KekOf(home))
    BY <2>1, <2>3, <2>4 DEF Outdated, Opens
  <2>6. QED
    BY <2>1, <2>2, <2>5 DEF Open
<1>12. CASE UNCHANGED vaultVars
  BY <1>1, <1>12 DEF Open, vaultVars, setting, vaultHistory, doubts, FernetOf, KekOf
<1>13. QED
  BY <1>4, <1>5, <1>6, <1>7, <1>8, <1>9, <1>10, <1>11, <1>12 DEF VaultNext

LEMMA OpenStep ==
  ASSUME VaultTypes, SealedInv, ProcessInv, OpenInv, RotateInv, [VaultNext]_vaultVars
  PROVE  OpenInv'
<1> DEFINE Kind(a) == Open(a.store, a.unopened, a.fernet, a.kek)
<1>0. /\ Kind(script.archive) /\ \A j \in DOMAIN archives : Kind(archives[j])
      /\ Kind(NoArchive) /\ Kind([NoArchive EXCEPT !.users = users])
  BY NothingStored DEF OpenInv, NoArchive
<1>1. Kind(script'.archive)
  <2>1. CASE RotateCheck \/ BackupDb
    BY <1>0, <2>1, StartsDo DEF RotateCheck, BackupDb
  <2>2. CASE RestoreDb
    BY <1>0, <2>2, StartsDo DEF RestoreDb
  <2>3. CASE script' = NoScript \/ script' = script
    BY <1>0, <2>3, NothingStored
  <2>4. QED
    BY <2>1, <2>2, <2>3
    DEF VaultNext, vaultVars, Stops, HomeLost, OpenAccount, RotateWrite, LoadKeys, LoadEphemeral,
        BackupStore, RestoreNoStore, ScriptDies, SetUserKey, EraseUser, RestoreStore
<1>2. ASSUME NEW j \in DOMAIN archives' PROVE Kind(archives'[j])
  <2>1. CASE archives' = archives
    BY <1>0, <2>1
  <2>2. CASE BackupStore
    <3>1. archives'[j] = NewArchive \/ \E l \in DOMAIN archives : archives'[j] = archives[l]
      BY <1>2, <2>2, ArchivesAfter
    <3>2. Open(Beside, unopened, FernetOf(home), KekOf(home))
      BY NothingStored DEF Beside, OpenInv
    <3>3. Kind(NewArchive)
      BY <3>2 DEF NewArchive
    <3> HIDE DEF Kind
    <3>4. QED
      BY <1>0, <3>1, <3>3
  <2>3. QED
    BY <2>1, <2>2
    DEF VaultNext, vaultVars, Stops, HomeLost, OpenAccount, RotateCheck, RotateWrite, LoadKeys, LoadEphemeral,
        BackupDb, RestoreDb, RestoreNoStore, ScriptDies, SetUserKey, EraseUser, RestoreStore
<1>3. Open(store', unopened', FernetOf(home)', KekOf(home)')
  BY StoreOpens
<1>4. Open(store, unopened, FernetOf(home), KekOf(home))'
  BY <1>3 DEF Open, Opens
<1>5. Open(script.archive.store, script.archive.unopened, script.archive.fernet, script.archive.kek)'
  BY <1>1 DEF Open, Opens
<1>6. (\A j \in DOMAIN archives : Open(archives[j].store, archives[j].unopened, archives[j].fernet, archives[j].kek))'
  BY <1>2 DEF Open, Opens
<1>7. QED
  BY <1>4, <1>5, <1>6 DEF OpenInv

\* Once the rotation has looked, nothing is sealed with the Fernet key again.
LEMMA RotateStep ==
  ASSUME VaultTypes, RotateInv, [VaultNext]_vaultVars
  PROVE  RotateInv'
<1> SUFFICES ASSUME script'.does = "rotate", ~moved' PROVE \A x \in Entries : store'.blob[x].kind # "fernet"
  BY DEF RotateInv
<1>1. CASE script' = script
  <2>1. moved' = moved
    BY DEF VaultNext, vaultVars, setting, LoadKeys, LoadEphemeral, Stops, HomeLost, OpenAccount, SetUserKey,
           EraseUser, RotateCheck, RotateWrite, BackupDb, BackupStore, RestoreDb, RestoreStore,
           RestoreNoStore, ScriptDies
  <2>2. \A x \in Entries : store.blob[x].kind # "fernet"
    BY <1>1, <2>1 DEF RotateInv
  <2>3. CASE store' = store
    BY <2>2, <2>3
  <2>4. ASSUME NEW x \in Entries, SetUserKey(x) PROVE \A y \in Entries : store'.blob[y].kind # "fernet"
    <3>1. PICK b \in Blobs : /\ b = [kind |-> "envelope", key |-> process.kek, owner |-> users[x[1]]]
                             /\ \A y \in Entries : store'.blob[y] = IF y = x THEN b ELSE store.blob[y]
      BY <2>4, KeyStored
    <3>2. b.kind = "envelope"
      BY <3>1
    <3>3. QED
      BY <2>2, <3>1, <3>2
  <2>5. ASSUME NEW i \in Ids, EraseUser(i) PROVE \A y \in Entries : store'.blob[y].kind # "fernet"
    <3>1. \A y \in Entries : store'.blob[y] = IF y[1] = i THEN NoBlob ELSE store.blob[y]
      BY <2>5, EntriesErased
    <3>2. QED
      BY <2>2, <3>1, NothingStored
  <2>6. CASE RestoreStore
    BY <1>1, <2>6 DEF RestoreStore, NoScript
  <2>7. QED
    BY <2>3, <2>4, <2>5, <2>6
    DEF VaultNext, vaultVars, Stops, HomeLost, OpenAccount, RotateCheck, RotateWrite, LoadKeys, LoadEphemeral,
        BackupDb, BackupStore, RestoreDb, RestoreNoStore, ScriptDies
<1>2. CASE RotateCheck
  <2>1. store' = store /\ moved' = moved /\ Stored(Beside) = {}
    BY <1>2 DEF RotateCheck, setting
  <2>2. Beside = store
    BY <2>1 DEF Beside
  <2>3. \A x \in Entries : store.blob[x] = NoBlob
    BY <2>1, <2>2 DEF Stored
  <2>4. QED
    BY <2>1, <2>3, NothingStored
<1>3. CASE BackupDb
  BY <1>3, StartsDo DEF BackupDb
<1>4. CASE RestoreDb
  BY <1>4, StartsDo DEF RestoreDb
<1>5. CASE script' = NoScript
  BY <1>5, NothingStored
<1>6. QED
  BY <1>1, <1>2, <1>3, <1>4, <1>5
  DEF VaultNext, vaultVars, Stops, HomeLost, OpenAccount, RotateWrite, LoadKeys, LoadEphemeral,
      BackupStore, RestoreNoStore, ScriptDies, SetUserKey, EraseUser, RestoreStore

\* A step leaves every stored key that it does not put in doubt with the person
\* who stored it, and so the files of an archive and of a restore.
LEMMA OwnerStep ==
  ASSUME VaultTypes, OwnerInv, [VaultNext]_vaultVars
  PROVE  OwnerInv'
<1> DEFINE Kind(a) == Matches(a.users, a.store, a.misfiled)
           Goal == /\ script'.does # "restore" => Matches(users', store', misfiled')
                   /\ script'.does = "restore" => Kind(script'.archive)
                   /\ \A j \in DOMAIN archives' : Kind(archives'[j])
<1>0. SUFFICES Goal
  BY DEF OwnerInv, Matches
<1>2. /\ script.does # "restore" => Matches(users, store, misfiled)
      /\ script.does = "restore" => Kind(script.archive)
      /\ \A j \in DOMAIN archives : Kind(archives[j])
  BY DEF OwnerInv
<1>a. \A us, s, d : (\A x \in Entries \ d : s.blob[x] = NoBlob) => Matches(us, s, d)
  BY DEF Matches
<1>b. \A us, d, f : Matches(us, store, d) => Matches(us, store, d \cup f)
  BY DEF Matches
<1>3. CASE UNCHANGED <<users, store, archives, script, misfiled>>
  BY <1>2, <1>3
<1>4. ASSUME NEW p \in Persons, OpenAccount(p) PROVE Goal
  <2>1. /\ users' = Append(users, p) /\ UNCHANGED <<store, archives, script, misfiled>>
        /\ users \in Seq(Persons \cup {Nobody})
    BY <1>4 DEF OpenAccount, VaultTypes, UserLists, vaultHistory, doubts
  <2>2. \A i \in DOMAIN users : i \in DOMAIN users' /\ users'[i] = users[i]
    BY <2>1
  <2>3. QED
    BY <1>2, <2>1, <2>2 DEF Matches
<1>5. ASSUME NEW x \in Entries, SetUserKey(x) PROVE Goal
  <2>1. PICK b \in Blobs : /\ b = [kind |-> "envelope", key |-> process.kek, owner |-> users[x[1]]]
                           /\ \A y \in Entries : store'.blob[y] = IF y = x THEN b ELSE store.blob[y]
    BY <1>5, KeyStored
  <2>2. UNCHANGED <<users, archives, script>> /\ x[1] \in DOMAIN users /\ misfiled' = misfiled \ {x}
    BY <1>5 DEF SetUserKey
  <2>3. b.owner = users[x[1]]
    BY <2>1
  <2>4. Matches(users, store, misfiled) => Matches(users', store', misfiled')
    BY <2>1, <2>2, <2>3 DEF Matches
  <2>5. QED
    BY <1>2, <2>2, <2>4
<1>6. ASSUME NEW i \in Ids, EraseUser(i) PROVE Goal
  <2>1. \A y \in Entries : store'.blob[y] = IF y[1] = i THEN NoBlob ELSE store.blob[y]
    BY <1>6, EntriesErased
  <2>2. UNCHANGED <<archives, script>> /\ users' = [users EXCEPT ![i] = Nobody] /\ misfiled' = misfiled \ EntriesOf(i)
    BY <1>6 DEF EraseUser
  <2>3. DOMAIN users' = DOMAIN users /\ \A j \in DOMAIN users : j # i => users'[j] = users[j]
    BY <2>2
  <2>4. \A y \in Entries \ misfiled' : y[1] = i \/ y \notin misfiled
    BY <2>2 DEF EntriesOf
  <2>5. Matches(users, store, misfiled) => Matches(users', store', misfiled')
    BY <2>1, <2>3, <2>4 DEF Matches
  <2>6. QED
    BY <1>2, <2>2, <2>5
<1>7. CASE RotateCheck \/ BackupDb
  <2>1. UNCHANGED <<users, store, archives, misfiled>> /\ script.does = "none" /\ script'.does \in {"rotate", "backup"}
    BY <1>7, StartsDo DEF RotateCheck, BackupDb, doubts
  <2>2. QED
    BY <1>2, <2>1
<1>8. CASE RotateWrite
  <2>1. UNCHANGED <<users, store, archives, misfiled>> /\ script.does = "rotate" /\ script'.does = "none"
    BY <1>8, NothingStored DEF RotateWrite
  <2>2. QED
    BY <1>2, <2>1
<1>9. CASE BackupStore
  <2>1. script.does = "backup" /\ script'.does = "none" /\ UNCHANGED <<users, store, misfiled>>
    BY <1>9, NothingStored DEF BackupStore, doubts
  <2>2. /\ NewArchive.users = script.archive.users /\ NewArchive.store = Beside
        /\ NewArchive.misfiled = IF users = script.archive.users THEN misfiled ELSE misfiled \cup Stored(store)
    BY DEF NewArchive
  <2>3. Matches(users, store, misfiled)
    BY <1>2, <2>1
  <2>4. Matches(NewArchive.users, store, NewArchive.misfiled)
    <3>1. CASE users = script.archive.users
      BY <2>2, <2>3, <3>1
    <3>2. CASE users # script.archive.users
      BY <2>2, <3>2 DEF Matches, Stored
    <3>3. QED
      BY <3>1, <3>2
  <2>5. Kind(NewArchive)
    BY <2>2, <2>4, NothingStored DEF Beside
  <2>6. \A j \in DOMAIN archives' : archives'[j] = NewArchive \/ \E l \in DOMAIN archives : archives'[j] = archives[l]
    BY <1>9, ArchivesAfter
  <2> HIDE DEF Kind
  <2>7. \A j \in DOMAIN archives' : Kind(archives'[j])
    BY <1>2, <2>5, <2>6
  <2>8. QED
    BY <2>1, <2>3, <2>7
<1>10. CASE RestoreDb
  <2>1. PICK i \in DOMAIN archives : Starts("restore", archives[i]) /\ archives' = archives
    BY <1>10 DEF RestoreDb
  <2>2. script'.does = "restore" /\ script'.archive = archives[i]
    BY <2>1, StartsDo
  <2>3. QED
    BY <1>2, <2>1, <2>2
<1>11. CASE RestoreStore
  <2> DEFINE a == script.archive
  <2>1. /\ script.does = "restore" /\ script'.does = "none" /\ UNCHANGED <<users, archives>>
        /\ store' = a.store
        /\ misfiled' = a.misfiled \cup IF users = a.users THEN {} ELSE Stored(a.store)
    BY <1>11, NothingStored DEF RestoreStore
  <2>2. Matches(a.users, a.store, a.misfiled)
    BY <1>2, <2>1
  <2> HIDE DEF a
  <2>3. Matches(users, a.store, misfiled')
    <3>1. CASE users = a.users
      BY <2>1, <2>2, <3>1
    <3>2. CASE users # a.users
      BY <2>1, <3>2 DEF Matches, Stored
    <3>3. QED
      BY <3>1, <3>2
  <2>4. QED
    BY <1>2, <2>1, <2>3
<1>12. CASE RestoreNoStore
  <2>1. script'.does = "none" /\ UNCHANGED <<users, store, archives>> /\ misfiled' = misfiled \cup Stored(store)
    BY <1>12, NothingStored DEF RestoreNoStore
  <2>2. Matches(users, store, misfiled')
    BY <2>1 DEF Matches, Stored
  <2>3. QED
    BY <1>2, <2>1, <2>2
<1>13. CASE ScriptDies
  <2>1. /\ script'.does = "none" /\ UNCHANGED <<users, store, archives>>
        /\ misfiled' = IF script.does = "restore" THEN misfiled \cup Stored(store) ELSE misfiled
    BY <1>13, NothingStored DEF ScriptDies
  <2>2. Matches(users, store, misfiled')
    <3>1. CASE script.does = "restore"
      BY <2>1, <3>1 DEF Matches, Stored
    <3>2. CASE script.does # "restore"
      BY <1>2, <2>1, <3>2
    <3>3. QED
      BY <3>1, <3>2
  <2>3. QED
    BY <1>2, <2>1, <2>2
<1>14. QED
  BY <1>3, <1>4, <1>5, <1>6, <1>7, <1>8, <1>9, <1>10, <1>11, <1>12, <1>13
     DEF VaultNext, vaultVars, LoadKeys, LoadEphemeral, Stops, HomeLost, vaultHistory, doubts

\* What the next process to start opens, the one that runs opens too, unless its
\* keys are throwaway.
LEMMA ProcessOpens ==
  ASSUME VaultTypes, SealedInv, ProcessInv, OpenInv
  PROVE  KeysOpen
<1>1. SUFFICES ASSUME NEW x \in Entries \ unopened
               PROVE  /\ Opens(store.blob[x], FernetOf(home), KekOf(home))
                      /\ process.up /\ ~Throwaway => Opens(store.blob[x], process.fernet, process.kek)
  BY DEF KeysOpen
<1> DEFINE b == store.blob[x]
<1>2. Opens(b, FernetOf(home), KekOf(home)) /\ b.kind \in {"none", "fernet", "envelope"}
  BY DEF OpenInv, Open, VaultTypes, Stores, Blobs
<1>3. b.kind = "fernet" => b.key = IF prod THEN Env ELSE 1
  BY DEF SealedInv, Sealed
<1> HIDE DEF b
<1>4. ASSUME process.up, ~Throwaway PROVE Opens(b, process.fernet, process.kek)
  <2>1. CASE prod
    <3>1. FernetOf(home) = process.fernet /\ KekOf(home) = process.kek
      BY <1>4, <2>1, KeysAre DEF SealedInv
    <3>2. QED
      BY <1>2, <3>1
  <2>2. CASE ~prod
    <3>1. home.kek # NoKey
      BY <1>4, <2>2 DEF Throwaway
    <3>2. /\ process.kek = KekOf(home) /\ FernetOf(home) = home.fernet
          /\ (home.fernet = 1 => process.fernet = 1)
      BY <1>4, <2>2, <3>1, KeysAre DEF ProcessInv
    <3>3. QED
      BY <1>2, <1>3, <2>2, <3>2 DEF Opens
  <2>3. QED
    BY <2>1, <2>2
<1>5. QED
  BY <1>2, <1>4 DEF b

\* What byok.json holds opens for the next process to start, and for the one that
\* runs unless it had to do with throwaway keys, and is filed under the person who
\* stored it, but for the keys named in KeysOpen and KeysBelong, one by one: what
\* an operator's step puts in doubt excuses no other key, and a key that is stored
\* anew is out of doubt (vault._load_key, rotate_secrets, backup).
THEOREM VaultSafe == VaultSpec => []VaultKept
<1>1. VaultInv => VaultKept
  <2> SUFFICES ASSUME VaultInv PROVE VaultKept
    OBVIOUS
  <2>1. VaultTypeOK
    BY DEF VaultInv, VaultTypes, VaultTypeOK, UserLists, Stores
  <2>2. KeysOpen
    BY ProcessOpens DEF VaultInv
  <2>3. KeysBelong
    BY DEF VaultInv, OwnerInv, KeysBelong, Matches
  <2>4. QED
    BY <2>1, <2>2, <2>3 DEF VaultKept
<1>2. VaultInv /\ [VaultNext]_vaultVars => VaultInv'
  BY VaultTypeStep, SealedStep, ProcessStep, OpenStep, RotateStep, OwnerStep DEF VaultInv
<1>3. QED
  BY VaultFirst, <1>1, <1>2, PTL DEF VaultSpec

-----------------------------------------------------------------------------
(* UserFiles: any names, boards, limits, and any uploads, launches and     *)
(* edits of the user.                                                      *)

HIDE VaultAssumption
USE UserFilesAssumption

Phases == {"idle", "attach", "context", "squad", "row", "done", "failed"}
Words == {"none", "first", "second", "third", "fourth"}
Texts == Seq(Words)
LaunchRecord == [pc : Phases, goal : Texts, left : SUBSET FileNames, context : 0..MaxAnalyses]
Saving == [on : BOOLEAN, board : Projects \cup {0}, file : FileNames \cup {NoName}, id : Uploads]
EditRecord == [on : BOOLEAN, board : Projects \cup {0}, text : Texts]

StagedType == [exists : BOOLEAN, file : [FileNames -> Uploads], old : SUBSET FileNames]
StagingType == [on : BOOLEAN, left : SUBSET FileNames]
NumbersType == [upload : Uploads, analysis : 0..MaxAnalyses, edit : 0..MaxEdits]
CacheType == [id : 0..MaxAnalyses, stale : BOOLEAN]

FilesTypes ==
    /\ staged \in StagedType /\ staging \in StagingType /\ numbers \in NumbersType /\ cache \in CacheType
    /\ launch \in [Projects -> LaunchRecord]
    /\ goal \in [Projects -> Texts] /\ taskMd \in [Projects -> Texts]
    /\ loop \in Saving /\ removing \in Saving /\ editing \in [Editors -> EditRecord]
    /\ attached \in [Projects -> [FileNames -> Uploads]] /\ uploads \in [Projects -> [FileNames -> Uploads]]
    /\ raced \in SUBSET (1..MaxUploads) /\ dropped \in SUBSET (1..MaxUploads)

\* Who changes the files or the goal of a board does it once the board is launched.
OnlyLaunched ==
    /\ \A r \in {loop, removing} : r.on => r.board \in Projects /\ r.file \in FileNames /\ Launched(r.board)
    /\ \A t \in Editors : editing[t].on => editing[t].board \in Projects /\ Launched(editing[t].board)

\* No text is empty but that of a row.
Written ==
    /\ \A b \in Projects : taskMd[b] # <<>> /\ (launch[b].pc # "idle" => launch[b].goal \in Goals)
    /\ \A t \in Editors : editing[t].on => editing[t].text # <<>>

\* Every upload has a number of its own.
Numbered ==
    /\ \A f \in FileNames : staged.file[f] <= numbers.upload
    /\ \A b \in Projects, f \in FileNames : attached[b][f] <= numbers.upload
    /\ \A f, g \in Present : staged.file[f] = staged.file[g] => f = g

Attaching(b) == launch[b].pc = "attach"

\* While launches consume the staging directory: with one, what is staged is still
\* to be attached or attached, and with two nothing staged is of one of them only.
Consumed ==
    /\ \A b \in Projects, f \in Present :
          Attaching(b) => f \in launch[b].left \/ staged.file[f] = attached[b][f] \/ staged.file[f] \in raced
    /\ \A b, c \in Projects : b # c /\ Attaching(b) /\ Attaching(c) => Uploaded(Present) \subseteq raced

\* An upload that no two launches met is of one board, and what is both staged and
\* attached is of a launch that still attaches.
AttachedBy(b, id) == \E f \in FileNames : attached[b][f] = id
AttachedOnce ==
    \A id \in (1..MaxUploads) \ raced :
        /\ \A b, c \in Projects : AttachedBy(b, id) /\ AttachedBy(c, id) => b = c
        /\ \A b \in Projects : AttachedBy(b, id) /\ id \in Uploaded(Present) => Attaching(b)

\* What the event loop is saving and the thread is removing is of different files,
\* unless they met, and the store is already changed.
InHand ==
    /\ loop.on /\ <<loop.board, loop.file>> \notin mixed =>
          /\ attached[loop.board][loop.file] = loop.id
          /\ ~(removing.on /\ removing.board = loop.board /\ removing.file = loop.file)
    /\ removing.on /\ <<removing.board, removing.file>> \notin mixed =>
          attached[removing.board][removing.file] = removing.id

\* TASK.md is written with the goal of the launch; an edit that no other one met is
\* the only one of its board, and of the goal in the row.
Objectives ==
    \A b \in Projects :
        /\ launch[b].pc \in {"idle", "attach", "context", "squad"} => taskMd[b] = NoGoal
        /\ launch[b].pc = "row" => taskMd[b] \in {NoGoal, launch[b].goal}
        /\ <<b, NoName>> \notin mixed => \A t \in Editors : editing[t].on /\ editing[t].board = b =>
              /\ editing[t].text = goal[b]
              /\ \A o \in Editors : editing[o].on /\ editing[o].board = b => o = t

\* An analysis is in the cache, or a launch has taken it.
Contexts ==
    /\ cache.id <= numbers.analysis
    /\ \A b \in Projects : launch[b].context <= numbers.analysis /\ (launch[b].context # 0 => launch[b].context # cache.id)
    /\ ContextTakenOnce

FilesInv ==
    /\ FilesTypes /\ OnlyLaunched /\ Written /\ Numbered /\ Consumed /\ StagedIsKept /\ AttachedOnce /\ InHand /\ CopiesAgree
    /\ Objectives /\ ObjectiveIsTheGoal /\ Contexts

\* No upload, no launch and no edit yet.
LEMMA FilesFirst == UserFilesInit => FilesInv
<1> SUFFICES ASSUME UserFilesInit PROVE FilesInv
  OBVIOUS
<1> USE DEF UserFilesInit
<1>1. NoFiles \in [FileNames -> Uploads] /\ \A f \in FileNames : NoFiles[f] = 0
  BY DEF NoFiles, Uploads
<1>2. NoGoal \in Texts /\ <<>> \in Texts
  BY DEF NoGoal, Texts, Words
<1>3. Present = {}
  BY <1>1 DEF Present
<1>4. FilesTypes
  BY <1>1, <1>2
  DEF FilesTypes, StagedType, StagingType, NumbersType, CacheType, LaunchRecord, Phases, Saving,
      EditRecord, NotStaging, NotSaving, NotEditing, Uploads
<1>5. OnlyLaunched /\ Written /\ InHand /\ Objectives /\ ObjectiveIsTheGoal
  BY
  DEF OnlyLaunched, Written, NoGoal, InHand, Objectives, ObjectiveIsTheGoal, NotSaving,
      NotEditing, Launched
<1>6. Numbered /\ Consumed /\ StagedIsKept /\ CopiesAgree
  BY <1>1, <1>3 DEF Numbered, Consumed, StagedIsKept, CopiesAgree, Attaching
<1>7. AttachedOnce
  BY <1>1 DEF AttachedOnce, AttachedBy
<1>8. Contexts
  BY DEF Contexts, ContextTakenOnce
<1>9. QED
  BY <1>4, <1>5, <1>6, <1>7, <1>8 DEF FilesInv

\* The properties follow.
LEMMA FilesMeant == FilesInv => FilesKept
<1> SUFFICES ASSUME FilesInv PROVE StagedAttachesOnce
  BY DEF FilesInv, FilesKept, FilesTypes, UserFilesTypeOK, StagedType, Contexts
<1>1. ASSUME NEW id \in (1..MaxUploads) \ raced
      PROVE  Cardinality(Boards(id)) <= 1 /\ (Boards(id) # {} => id \notin Uploaded(Present) \/ Consuming)
  <2>1. \A b \in Boards(id) : b \in Projects /\ AttachedBy(b, id)
    BY DEF Boards, AttachedBy
  <2>2. \A b, c \in Boards(id) : b = c
    BY <2>1 DEF FilesInv, AttachedOnce
  <2>3. Boards(id) = {} \/ \E b : Boards(id) = {b}
    BY <2>2
  <2>4. Cardinality(Boards(id)) <= 1
    BY <2>3, FS_EmptySet, FS_Singleton
  <2>5. QED
    BY <2>1, <2>4 DEF FilesInv, AttachedOnce, Attaching, Consuming
<1>2. QED
  BY <1>1 DEF StagedAttachesOnce

\* A launch that moves on keeps the rest of what it has in hand.
LEMMA LaunchMoves ==
  ASSUME launch \in [Projects -> LaunchRecord], NEW b \in Projects, NEW pc \in Phases, Become(b, pc)
  PROVE  /\ launch' \in [Projects -> LaunchRecord]
         /\ launch'[b].pc = pc /\ launch'[b].goal = launch[b].goal /\ launch'[b].left = launch[b].left
         /\ launch'[b].context = launch[b].context
         /\ \A c \in Projects \ {b} : launch'[c] = launch[c]
<1>1. [launch[b] EXCEPT !.pc = pc] \in LaunchRecord
  BY ZenonT(30) DEF LaunchRecord
<1>2. launch' = [launch EXCEPT ![b] = [launch[b] EXCEPT !.pc = pc]]
  BY DEF Become
<1>3. launch[b] \in LaunchRecord
  BY SMTT(30)
<1>4. QED
  BY <1>1, <1>2, <1>3 DEF LaunchRecord

\* Swept, a file is staged as it was or not at all.
LEMMA StagedTypes ==
  ASSUME staged \in StagedType
  PROVE  /\ Swept \in StagedType /\ [Swept EXCEPT !.exists = TRUE] \in StagedType
         /\ \A f \in FileNames : Swept.file[f] = (IF f \in staged.old THEN 0 ELSE staged.file[f])
         /\ [Swept EXCEPT !.exists = TRUE].file = Swept.file
         /\ Present \subseteq FileNames
<1>1. [f \in FileNames |-> IF f \in staged.old THEN 0 ELSE staged.file[f]] \in [FileNames -> Uploads]
  BY DEF StagedType, Uploads
<1>2. Swept \in StagedType
  BY <1>1 DEF Swept, StagedType
<1>3. QED
  BY <1>2 DEF StagedType, Swept, Present

\* One staged file is written, or removed.
LEMMA StagedSet ==
  ASSUME staged \in StagedType, NEW f \in FileNames, NEW n \in Uploads, NEW O \in SUBSET FileNames
  PROVE  /\ [staged EXCEPT !.file[f] = n, !.old = O] \in StagedType
         /\ [staged EXCEPT !.file[f] = n, !.old = O].exists = staged.exists
         /\ [staged EXCEPT !.file[f] = n, !.old = O].old = O
         /\ [staged EXCEPT !.file[f] = n, !.old = O].file = [staged.file EXCEPT ![f] = n]
<1>1. [staged.file EXCEPT ![f] = n] \in [FileNames -> Uploads]
  BY DEF StagedType
<1>2. [staged EXCEPT !.file[f] = n, !.old = O] = [[staged EXCEPT !.file = [staged.file EXCEPT ![f] = n]] EXCEPT !.old = O]
  BY DEF StagedType
<1>3. QED
  BY <1>1, <1>2, ZenonT(30) DEF StagedType

\* One file of one board is changed.
LEMMA FileSet ==
  ASSUME NEW h \in [Projects -> [FileNames -> Uploads]], NEW b \in Projects, NEW f \in FileNames, NEW n \in Uploads
  PROVE  /\ [h EXCEPT ![b][f] = n] \in [Projects -> [FileNames -> Uploads]]
         /\ \A c \in Projects, g \in FileNames :
               [h EXCEPT ![b][f] = n][c][g] = IF c = b /\ g = f THEN n ELSE h[c][g]
<1>1. [h[b] EXCEPT ![f] = n] \in [FileNames -> Uploads]
  OBVIOUS
<1>2. [h EXCEPT ![b][f] = n] = [h EXCEPT ![b] = [h[b] EXCEPT ![f] = n]]
  OBVIOUS
<1>3. QED
  BY <1>1, <1>2

\* What is staged has the number of an upload.
LEMMA UploadedIn ==
  ASSUME FilesTypes, NEW F \in SUBSET Present
  PROVE  Uploaded(F) \subseteq 1..MaxUploads
BY DEF Uploaded, Present, FilesTypes, StagedType, Uploads

\* Every operation keeps the types.
LEMMA FilesTypeStep ==
  ASSUME FilesTypes, OnlyLaunched, Written, [UserFilesNext]_userFilesVars
  PROVE  FilesTypes'
<1> USE DEF FilesTypes, stagingVars, boardFiles, objectives
<1>1. /\ NotStaging \in StagingType /\ NotSaving \in Saving /\ NotEditing \in EditRecord
      /\ NoFiles \in [FileNames -> Uploads]
  BY
  DEF NotStaging, StagingType, NotSaving, Saving, NotEditing, EditRecord, Texts, NoFiles,
      Uploads
<1>2. Goals \subseteq Texts /\ {<<"third">>, <<"third", "fourth">>, <<>>} \subseteq Texts
  BY DEF Goals, Texts, Words
<1>3. numbers.upload < MaxUploads => numbers.upload + 1 \in Uploads /\ numbers.upload + 1 \in 1..MaxUploads
  BY DEF NumbersType, Uploads
<1>4. \A F \in SUBSET Present : Uploaded(F) \subseteq 1..MaxUploads
  BY UploadedIn
<1>5. \A b \in Projects : AttachedTo(b) \subseteq 1..MaxUploads
  BY DEF AttachedTo, Uploads
<1>6. numbers.upload < MaxUploads => [numbers EXCEPT !.upload = numbers.upload + 1] \in NumbersType
  BY <1>3 DEF NumbersType
<1>7. ASSUME NEW fs \in SUBSET FileNames, StageAttachments(fs) PROVE FilesTypes'
  <2>1. staging' \in StagingType
    <3>1. [on |-> TRUE, left |-> fs] \in StagingType
      BY DEF StagingType
    <3>2. staging' = staging \/ staging' = [on |-> TRUE, left |-> fs]
      BY <1>7 DEF StageAttachments
    <3>3. QED
      BY <3>1, <3>2
  <2>2. QED
    BY <1>7, <2>1, StagedTypes DEF StageAttachments
<1>8. ASSUME NEW f \in FileNames, StageFile(f) PROVE FilesTypes'
  <2>1. staged' \in StagedType
    <3>1. staged' = staged \/ (numbers.upload < MaxUploads
                               /\ staged' = [staged EXCEPT !.file[f] = numbers.upload + 1, !.old = staged.old \ {f}])
      BY <1>8 DEF StageFile
    <3>2. staged.old \ {f} \in SUBSET FileNames
      BY DEF StagedType
    <3>3. numbers.upload < MaxUploads =>
             [staged EXCEPT !.file[f] = numbers.upload + 1, !.old = staged.old \ {f}] \in StagedType
      BY <1>3, <3>2, StagedSet
    <3>4. QED
      BY <3>1, <3>3
  <2>2. staging' \in StagingType
    BY <1>1, <1>8 DEF StageFile, StagingType
  <2>3. numbers' \in NumbersType /\ raced' \in SUBSET (1..MaxUploads)
    BY <1>3, <1>6, <1>8 DEF StageFile
  <2>4. QED
    BY <1>8, <2>1, <2>2, <2>3 DEF StageFile
<1>9. ASSUME NEW f \in FileNames, StagedFileAges(f) \/ RemoveStaged(f) PROVE FilesTypes'
  <2>1. staged' \in StagedType
    <3>1. CASE StagedFileAges(f)
      BY <3>1 DEF StagedFileAges, StagedType
    <3>2. CASE RemoveStaged(f)
      <4>1. staged.old \ {f} \in SUBSET FileNames /\ 0 \in Uploads
        BY DEF StagedType, Uploads
      <4>2. staged' = [staged EXCEPT !.file[f] = 0, !.old = staged.old \ {f}]
        BY <3>2 DEF RemoveStaged
      <4>3. QED
        BY <4>1, <4>2, StagedSet
    <3>3. QED
      BY <1>9, <3>1, <3>2
  <2>2. QED
    BY <1>9, <2>1 DEF StagedFileAges, RemoveStaged
<1>10. CASE ListStaged
  BY <1>10, StagedTypes DEF ListStaged
<1>11. CASE AnalyzeProject
  <2>1. numbers.analysis + 1 \in 0..MaxAnalyses
    BY <1>11 DEF AnalyzeProject, NumbersType
  <2>2. numbers' \in NumbersType /\ cache' \in CacheType
    BY <1>11, <2>1 DEF AnalyzeProject, NumbersType, CacheType
  <2>3. QED
    BY <1>11, <2>2 DEF AnalyzeProject
<1>12. CASE AnalysisAges
  BY <1>12 DEF AnalysisAges, CacheType
<1>13. CASE MirrorUpload
  <2>1. uploads' \in [Projects -> [FileNames -> Uploads]]
    <3>1. uploads' = uploads \/ uploads' = [uploads EXCEPT ![loop.board][loop.file] = loop.id]
      BY <1>13 DEF MirrorUpload
    <3>2. loop.board \in Projects /\ loop.file \in FileNames /\ loop.id \in Uploads
      BY <1>13 DEF MirrorUpload, OnlyLaunched, Saving
    <3>3. [uploads EXCEPT ![loop.board][loop.file] = loop.id] \in [Projects -> [FileNames -> Uploads]]
      BY <3>2, FileSet
    <3>4. QED
      BY <3>1, <3>3
  <2>2. QED
    BY <1>1, <1>13, <2>1 DEF MirrorUpload
<1>14. CASE DeleteCopy
  <2>1. uploads' \in [Projects -> [FileNames -> Uploads]]
    <3>1. uploads' = uploads \/ uploads' = [uploads EXCEPT ![removing.board][removing.file] = 0]
      BY <1>14 DEF DeleteCopy
    <3>2. removing.board \in Projects /\ removing.file \in FileNames /\ 0 \in Uploads
      BY <1>14 DEF DeleteCopy, OnlyLaunched, Uploads
    <3>3. [uploads EXCEPT ![removing.board][removing.file] = 0] \in [Projects -> [FileNames -> Uploads]]
      BY <3>2, FileSet
    <3>4. QED
      BY <3>1, <3>3
  <2>2. QED
    BY <1>1, <1>14, <2>1 DEF DeleteCopy
<1>15. CASE HostRestarts
  <2>1. launch' \in [Projects -> LaunchRecord]
    <3>1. \A b \in Projects : [launch[b] EXCEPT !.pc = "failed", !.left = {}] \in LaunchRecord
      BY ZenonT(30) DEF LaunchRecord, Phases
    <3>2. QED
      BY <1>15, <3>1 DEF HostRestarts
  <2>2. raced' \in SUBSET (1..MaxUploads)
    BY <1>5, <1>15 DEF HostRestarts
  <2>3. cache' \in CacheType
    <3>1. cache' = [id |-> 0, stale |-> FALSE]
      BY <1>15 DEF HostRestarts
    <3>2. QED
      BY <3>1 DEF CacheType
  <2>4. QED
    BY <1>1, <1>15, <2>1, <2>2, <2>3 DEF HostRestarts
<1>16. ASSUME NEW b \in Projects, LaunchBegins(b) PROVE FilesTypes'
  <2>1. launch' \in [Projects -> LaunchRecord]
    <3>1. PICK g \in Goals, lists \in {staged.exists, FALSE} :
            launch' = [launch EXCEPT ![b] = [pc |-> IF lists THEN "attach" ELSE "context",
                                             goal |-> g, left |-> Present, context |-> 0]]
      BY <1>16 DEF LaunchBegins
    <3>2. [pc |-> IF lists THEN "attach" ELSE "context", goal |-> g, left |-> Present, context |-> 0] \in LaunchRecord
      BY <1>2, StagedTypes DEF LaunchRecord, Phases
    <3>3. QED
      BY <3>1, <3>2
  <2>2. raced' \in SUBSET (1..MaxUploads)
    BY <1>4, <1>16 DEF LaunchBegins
  <2>3. QED
    BY <1>16, <2>1, <2>2 DEF LaunchBegins
<1>17. ASSUME NEW b \in Projects, ClearStaged(b) PROVE FilesTypes'
  <2>0. PICK stays \in SUBSET Present, exists \in {FALSE, staged.exists} :
          /\ staged' = [exists |-> exists, old |-> staged.old \cap stays,
                        file |-> [f \in FileNames |-> IF f \in stays THEN staged.file[f] ELSE 0]]
          /\ dropped' = dropped \cup (Uploaded(Present \ stays) \ AttachedTo(b))
          /\ raced' = raced \cup Uploaded(stays)
    BY <1>17 DEF ClearStaged
  <2>1. staged' \in StagedType
    <3>1. [f \in FileNames |-> IF f \in stays THEN staged.file[f] ELSE 0] \in [FileNames -> Uploads]
      BY DEF StagedType, Uploads
    <3>2. exists \in BOOLEAN /\ staged.old \cap stays \in SUBSET FileNames
      BY DEF StagedType
    <3>3. QED
      BY <2>0, <3>1, <3>2 DEF StagedType
  <2>2. dropped' \in SUBSET (1..MaxUploads) /\ raced' \in SUBSET (1..MaxUploads)
    <3>1. Uploaded(Present \ stays) \subseteq 1..MaxUploads /\ Uploaded(stays) \subseteq 1..MaxUploads
      BY <1>4
    <3>2. QED
      BY <2>0, <3>1
  <2>3. "context" \in Phases
    BY DEF Phases
  <2>4. launch' \in [Projects -> LaunchRecord]
    BY <1>17, <2>3, LaunchMoves DEF ClearStaged
  <2>5. QED
    BY <1>17, <2>1, <2>2, <2>4 DEF ClearStaged
<1>18. ASSUME NEW b \in Projects, TakeContext(b) PROVE FilesTypes'
  <2>1. cache' \in CacheType
    BY <1>18 DEF TakeContext, CacheType
  <2>2. launch' \in [Projects -> LaunchRecord]
    <3> DEFINE n == IF cache.stale THEN 0 ELSE cache.id
    <3>1. n \in 0..MaxAnalyses /\ "squad" \in Phases
      BY DEF CacheType, Phases
    <3>2. launch' = [launch EXCEPT ![b] = [launch[b] EXCEPT !.pc = "squad", !.context = n]]
      BY <1>18 DEF TakeContext
    <3> HIDE DEF n
    <3>3. [launch[b] EXCEPT !.pc = "squad", !.context = n] \in LaunchRecord
      BY <3>1, ZenonT(30) DEF LaunchRecord
    <3>4. QED
      BY <3>2, <3>3
  <2>3. QED
    BY <1>18, <2>1, <2>2 DEF TakeContext
<1>19. ASSUME NEW b \in Projects, LaunchSquad(b) PROVE FilesTypes'
  <2>1. taskMd' \in [Projects -> Texts]
    BY <1>19 DEF LaunchSquad, LaunchRecord
  <2>2. uploads' \in [Projects -> [FileNames -> Uploads]]
    <3> DEFINE row(copied) == [f \in FileNames |-> IF f \in copied THEN attached[b][f] ELSE uploads[b][f]]
    <3>1. \A copied : row(copied) \in [FileNames -> Uploads]
      OBVIOUS
    <3>2. uploads' = uploads \/ \E copied : uploads' = [uploads EXCEPT ![b] = row(copied)]
      BY <1>19 DEF LaunchSquad, SeedAttachments
    <3> HIDE DEF row
    <3>3. QED
      BY <3>1, <3>2
  <2>3. "row" \in Phases
    BY DEF Phases
  <2>4. launch' \in [Projects -> LaunchRecord]
    BY <1>19, <2>3, LaunchMoves DEF LaunchSquad
  <2>5. QED
    BY <1>19, <2>1, <2>2, <2>4 DEF LaunchSquad
<1>20. ASSUME NEW b \in Projects, LaunchFails(b) PROVE FilesTypes'
  <2>1. "failed" \in Phases
    BY DEF Phases
  <2>2. launch' \in [Projects -> LaunchRecord]
    BY <1>20, <2>1, LaunchMoves DEF LaunchFails
  <2>3. raced' \in SUBSET (1..MaxUploads)
    BY <1>5, <1>20 DEF LaunchFails
  <2>4. QED
    BY <1>20, <2>2, <2>3 DEF LaunchFails
<1>21. ASSUME NEW b \in Projects, AddProject(b) PROVE FilesTypes'
  <2>1. "done" \in Phases
    BY DEF Phases
  <2>2. launch' \in [Projects -> LaunchRecord]
    BY <1>21, <2>1, LaunchMoves DEF AddProject
  <2>3. goal' \in [Projects -> Texts]
    BY <1>21 DEF AddProject, LaunchRecord
  <2>4. QED
    BY <1>21, <2>2, <2>3 DEF AddProject
<1>22. ASSUME NEW b \in Projects, NEW f \in FileNames, AttachFile(b, f) PROVE FilesTypes'
  <2>1. launch' \in [Projects -> LaunchRecord]
    BY <1>22, SMTT(30) DEF AttachFile, LaunchRecord
  <2>2. staged.file[f] \in Uploads /\ (f \in Present => Uploaded({f}) \subseteq 1..MaxUploads)
    BY <1>4 DEF StagedType
  <2>3. /\ attached' \in [Projects -> [FileNames -> Uploads]]
        /\ uploads' \in [Projects -> [FileNames -> Uploads]]
    <3>1. /\ attached' = attached \/ attached' = [attached EXCEPT ![b][f] = staged.file[f]]
          /\ uploads' = uploads \/ uploads' = [uploads EXCEPT ![b][f] = staged.file[f]]
      BY <1>22 DEF AttachFile
    <3>2. /\ [attached EXCEPT ![b][f] = staged.file[f]] \in [Projects -> [FileNames -> Uploads]]
          /\ [uploads EXCEPT ![b][f] = staged.file[f]] \in [Projects -> [FileNames -> Uploads]]
      BY <2>2, FileSet
    <3>3. QED
      BY <3>1, <3>2
  <2>4. raced' \in SUBSET (1..MaxUploads)
    BY <1>22, <2>2 DEF AttachFile
  <2>5. QED
    BY <1>22, <2>1, <2>3, <2>4 DEF AttachFile
<1>23. ASSUME NEW b \in Projects, NEW f \in FileNames, UploadAttachment(b, f) PROVE FilesTypes'
  <2>1. attached' \in [Projects -> [FileNames -> Uploads]]
    BY <1>3, <1>23 DEF UploadAttachment
  <2>2. loop' \in Saving /\ numbers' \in NumbersType
    BY <1>3, <1>6, <1>23 DEF UploadAttachment, Saving
  <2>3. QED
    BY <1>23, <2>1, <2>2 DEF UploadAttachment
<1>24. ASSUME NEW b \in Projects, NEW f \in FileNames, DeleteAttachment(b, f) PROVE FilesTypes'
  <2>0. PICK stays \in {0, attached[b][f]} : /\ attached' = [attached EXCEPT ![b][f] = stays]
                                             /\ removing' = [on |-> TRUE, board |-> b, file |-> f, id |-> stays]
    BY <1>24 DEF DeleteAttachment
  <2>a. stays \in Uploads
    BY DEF Uploads
  <2>1. attached' \in [Projects -> [FileNames -> Uploads]] /\ removing' \in Saving
    BY <2>0, <2>a, FileSet DEF Saving
  <2>2. QED
    BY <1>24, <2>1 DEF DeleteAttachment
<1>25. ASSUME NEW b \in Projects, NEW t \in Editors, NEW g \in {<<"third">>, <<"third", "fourth">>, <<>>},
              EditProject(t, b, g)
       PROVE  FilesTypes'
  <2>1. numbers.edit + 1 \in 0..MaxEdits /\ g \in Texts
    <3>1. numbers.edit < MaxEdits
      BY <1>25 DEF EditProject
    <3>2. numbers.edit + 1 \in 0..MaxEdits
      BY <3>1 DEF NumbersType
    <3>3. QED
      BY <1>2, <3>2
  <2>2. numbers' \in NumbersType
    BY <1>25, <2>1 DEF EditProject, NumbersType
  <2>3. goal' \in [Projects -> Texts] /\ editing' \in [Editors -> EditRecord]
    BY <1>25, <2>1 DEF EditProject, UpdateProject, EditRecord
  <2>4. QED
    BY <1>25, <2>2, <2>3 DEF EditProject
<1>26. ASSUME NEW t \in Editors, EditTaskMd(t) PROVE FilesTypes'
  <2>1. \A old \in Texts \ {<<>>}, text \in Texts : RewriteObjective(old, text) \in Texts
    BY DEF RewriteObjective, Texts
  <2>2. editing[t].text \in Texts
    BY DEF EditRecord
  <2>3. taskMd' \in [Projects -> Texts]
    <3>1. taskMd' = taskMd \/ taskMd' = [taskMd EXCEPT ![editing[t].board] = RewriteObjective(@, editing[t].text)]
      BY <1>26 DEF EditTaskMd
    <3>2. editing[t].board \in Projects
      BY <1>26 DEF EditTaskMd, OnlyLaunched
    <3>3. taskMd[editing[t].board] \in Texts \ {<<>>}
      BY <3>2 DEF Written
    <3>4. RewriteObjective(taskMd[editing[t].board], editing[t].text) \in Texts
      BY <2>1, <2>2, <3>3
    <3>5. [taskMd EXCEPT ![editing[t].board] = RewriteObjective(@, editing[t].text)] \in [Projects -> Texts]
      BY <3>2, <3>4
    <3>6. QED
      BY <3>1, <3>5
  <2>4. QED
    BY <1>1, <1>26, <2>3 DEF EditTaskMd
<1>27. CASE UNCHANGED userFilesVars
  BY <1>27 DEF userFilesVars
<1>28. QED
  BY <1>7, <1>8, <1>9, <1>10, <1>11, <1>12, <1>13, <1>14, <1>15, <1>16, <1>17, <1>18, <1>19,
     <1>20, <1>21, <1>22, <1>23, <1>24, <1>25, <1>26, <1>27
  DEF UserFilesNext

\* What a step does to a launch: nothing, or it begins it, or takes it forward.
Begins(b) ==
    /\ LaunchBegins(b) /\ launch[b].pc = "idle" /\ launch'[b].pc \in {"attach", "context"}
    /\ launch'[b].goal \in Goals /\ launch'[b].left = Present /\ launch'[b].context = 0
Attaches(b) ==
    /\ launch[b].pc = "attach" /\ launch'[b].pc = "attach" /\ launch'[b].context = launch[b].context
    /\ \E f \in FileNames : AttachFile(b, f) /\ launch'[b].left = launch[b].left \ {f}
TakesContext(b) ==
    /\ launch[b].pc = "context" /\ TakeContext(b) /\ launch'[b].pc = "squad"
    /\ launch'[b].context = (IF cache.stale THEN 0 ELSE cache.id)
MovesOn(b) ==
    /\ launch'[b].context = launch[b].context
    /\ \/ launch[b].pc = "attach" /\ ClearStaged(b) /\ launch'[b].pc = "context"
       \/ launch[b].pc = "squad" /\ LaunchSquad(b) /\ launch'[b].pc = "row"
       \/ launch[b].pc = "squad" /\ LaunchFails(b) /\ launch'[b].pc = "failed"
       \/ launch[b].pc = "row" /\ AddProject(b) /\ launch'[b].pc = "done"
       \/ HostRestarts /\ launch'[b].pc = "failed"
LaunchGoes(b) ==
    \/ launch'[b] = launch[b]
    \/ Begins(b)
    \/ InFlight(b) /\ launch'[b].goal = launch[b].goal /\ (Attaches(b) \/ TakesContext(b) \/ MovesOn(b))

\* A launch goes through its phases in order, or breaks off.
LEMMA LaunchesGo ==
  ASSUME FilesTypes, [UserFilesNext]_userFilesVars, NEW b \in Projects
  PROVE  LaunchGoes(b)
<1>0. /\ launch \in [Projects -> LaunchRecord] /\ launch[b] \in LaunchRecord
      /\ {"context", "row", "failed", "done"} \subseteq Phases
  BY DEF FilesTypes, Phases
<1>1. CASE launch' = launch
  BY <1>1 DEF LaunchGoes
<1>2. ASSUME NEW c \in Projects, LaunchBegins(c) PROVE LaunchGoes(b)
  <2>1. PICK g \in Goals, lists \in {staged.exists, FALSE} :
          launch' = [launch EXCEPT ![c] = [pc |-> IF lists THEN "attach" ELSE "context",
                                           goal |-> g, left |-> Present, context |-> 0]]
    BY <1>2 DEF LaunchBegins
  <2>2. launch[c].pc = "idle"
    BY <1>2 DEF LaunchBegins
  <2>3. QED
    BY <1>0, <1>2, <2>1, <2>2 DEF LaunchGoes, Begins
<1>3. ASSUME NEW c \in Projects, NEW f \in FileNames, AttachFile(c, f) PROVE LaunchGoes(b)
  <2>1. launch[c].pc = "attach" /\ launch' = [launch EXCEPT ![c] = [launch[c] EXCEPT !.left = launch[c].left \ {f}]]
    BY <1>3 DEF AttachFile
  <2>2. CASE b = c
    BY <1>0, <1>3, <2>1, <2>2 DEF LaunchGoes, Attaches, InFlight, LaunchRecord
  <2>3. CASE b # c
    BY <1>0, <2>1, <2>3 DEF LaunchGoes
  <2>4. QED
    BY <2>2, <2>3
<1>4. ASSUME NEW c \in Projects, ClearStaged(c) PROVE LaunchGoes(b)
  <2>1. launch[c].pc = "attach" /\ Become(c, "context")
    BY <1>4 DEF ClearStaged
  <2>2. QED
    BY <1>0, <1>4, <2>1, LaunchMoves DEF LaunchGoes, MovesOn, InFlight
<1>5. ASSUME NEW c \in Projects, TakeContext(c) PROVE LaunchGoes(b)
  <2>1. /\ launch[c].pc = "context"
        /\ launch' = [launch EXCEPT ![c] = [launch[c] EXCEPT !.pc = "squad", !.context = IF cache.stale THEN 0 ELSE cache.id]]
    BY <1>5 DEF TakeContext
  <2>2. CASE b = c
    BY <1>0, <1>5, <2>1, <2>2 DEF LaunchGoes, TakesContext, InFlight, LaunchRecord
  <2>3. CASE b # c
    BY <1>0, <2>1, <2>3 DEF LaunchGoes
  <2>4. QED
    BY <2>2, <2>3
<1>6. ASSUME NEW c \in Projects, LaunchSquad(c) PROVE LaunchGoes(b)
  <2>1. launch[c].pc = "squad" /\ Become(c, "row")
    BY <1>6 DEF LaunchSquad
  <2>2. QED
    BY <1>0, <1>6, <2>1, LaunchMoves DEF LaunchGoes, MovesOn, InFlight
<1>7. ASSUME NEW c \in Projects, LaunchFails(c) PROVE LaunchGoes(b)
  <2>1. launch[c].pc = "squad" /\ Become(c, "failed")
    BY <1>7 DEF LaunchFails
  <2>2. QED
    BY <1>0, <1>7, <2>1, LaunchMoves DEF LaunchGoes, MovesOn, InFlight
<1>8. ASSUME NEW c \in Projects, AddProject(c) PROVE LaunchGoes(b)
  <2>1. launch[c].pc = "row" /\ Become(c, "done")
    BY <1>8 DEF AddProject
  <2>2. QED
    BY <1>0, <1>8, <2>1, LaunchMoves DEF LaunchGoes, MovesOn, InFlight
<1>9. CASE HostRestarts
  <2>1. launch'[b] = IF InFlight(b) THEN [launch[b] EXCEPT !.pc = "failed", !.left = {}] ELSE launch[b]
    BY <1>9 DEF HostRestarts
  <2>2. QED
    BY <1>0, <1>9, <2>1 DEF LaunchGoes, MovesOn, LaunchRecord
<1>10. QED
  BY <1>1, <1>2, <1>3, <1>4, <1>5, <1>6, <1>7, <1>8, <1>9, ZenonT(40)
  DEF UserFilesNext, userFilesVars, StageAttachments, StageFile, StagedFileAges, RemoveStaged,
      ListStaged, AnalyzeProject, AnalysisAges, MirrorUpload, DeleteCopy, UploadAttachment,
      DeleteAttachment, EditProject, EditTaskMd

\* A board that is launched stays so, and a launch keeps its goal.
LEMMA LaunchedStays ==
  ASSUME FilesTypes, [UserFilesNext]_userFilesVars, NEW b \in Projects
  PROVE  /\ Launched(b) => Launched(b)'
         /\ Attaching(b)' => Attaching(b) \/ LaunchBegins(b)
         /\ launch[b].pc # "idle" => launch'[b].pc # "idle" /\ launch'[b].goal = launch[b].goal
BY LaunchesGo, SMTT(30)
DEF LaunchGoes, Begins, Attaches, TakesContext, MovesOn, InFlight, Launched, Attaching

\* Which operations change what.
LEMMA WhoActs ==
  ASSUME FilesTypes, [UserFilesNext]_userFilesVars
  PROVE  /\ \/ loop' = loop \/ MirrorUpload \/ HostRestarts
            \/ \E b \in Projects, f \in FileNames : UploadAttachment(b, f)
         /\ \/ removing' = removing \/ DeleteCopy \/ HostRestarts
            \/ \E b \in Projects, f \in FileNames : DeleteAttachment(b, f)
         /\ \/ UNCHANGED <<editing, goal, taskMd>> \/ HostRestarts \/ \E t \in Editors : EditTaskMd(t)
            \/ \E t \in Editors, b \in Projects, g \in {<<"third">>, <<"third", "fourth">>, <<>>} : EditProject(t, b, g)
            \/ \E b \in Projects : LaunchSquad(b) \/ AddProject(b)
         /\ \/ UNCHANGED <<staged, raced>> \/ ListStaged \/ HostRestarts
            \/ \E fs \in SUBSET FileNames : StageAttachments(fs)
            \/ \E f \in FileNames : StageFile(f) \/ StagedFileAges(f) \/ RemoveStaged(f)
            \/ \E b \in Projects : LaunchBegins(b) \/ ClearStaged(b) \/ LaunchFails(b)
            \/ \E b \in Projects, f \in FileNames : AttachFile(b, f)
         /\ \/ attached' = attached
            \/ \E b \in Projects, f \in FileNames : AttachFile(b, f) \/ UploadAttachment(b, f) \/ DeleteAttachment(b, f)
         /\ \/ uploads' = uploads \/ MirrorUpload \/ DeleteCopy \/ \E b \in Projects : LaunchSquad(b)
            \/ \E b \in Projects, f \in FileNames : AttachFile(b, f)
         /\ \/ cache' = cache \/ AnalyzeProject \/ AnalysisAges \/ HostRestarts \/ \E b \in Projects : TakeContext(b)
         /\ numbers'.analysis = numbers.analysis \/ AnalyzeProject
         /\ \/ numbers'.upload = numbers.upload \/ \E f \in FileNames : StageFile(f)
            \/ \E b \in Projects, f \in FileNames : UploadAttachment(b, f)
         /\ dropped' = dropped \/ \E b \in Projects : ClearStaged(b)
         /\ raced \subseteq raced' /\ mixed \subseteq mixed'
         /\ \/ behind \subseteq behind' \/ MirrorUpload \/ DeleteCopy \/ \E b \in Projects : LaunchSquad(b)
            \/ \E t \in Editors : EditTaskMd(t)
<1>0. numbers \in [upload : Uploads, analysis : 0..MaxAnalyses, edit : 0..MaxEdits]
  BY DEF FilesTypes, NumbersType
<1>1. CASE UNCHANGED userFilesVars
  BY <1>1 DEF userFilesVars, stagingVars, boardFiles, objectives, agreement
<1>2. CASE \E fs \in SUBSET FileNames : StageAttachments(fs)
  BY <1>2 DEF StageAttachments, boardFiles, objectives, agreement
<1>3. CASE \E f \in FileNames : StageFile(f)
  BY <1>0, <1>3 DEF StageFile, boardFiles, objectives, agreement
<1>4. CASE \E f \in FileNames : StagedFileAges(f) \/ RemoveStaged(f)
  BY <1>4 DEF StagedFileAges, RemoveStaged, boardFiles, objectives, agreement
<1>5. CASE ListStaged
  BY <1>5 DEF ListStaged, boardFiles, objectives, agreement
<1>6. CASE AnalyzeProject \/ AnalysisAges
  BY <1>0, <1>6 DEF AnalyzeProject, AnalysisAges, stagingVars, boardFiles, objectives, agreement
<1>7. CASE MirrorUpload
  BY <1>7 DEF MirrorUpload, stagingVars, objectives
<1>8. CASE DeleteCopy
  BY <1>8 DEF DeleteCopy, stagingVars, objectives
<1>9. CASE HostRestarts
  BY <1>9 DEF HostRestarts
<1>10. CASE \E b \in Projects : LaunchBegins(b) \/ ClearStaged(b) \/ LaunchFails(b)
  BY <1>10 DEF LaunchBegins, ClearStaged, LaunchFails, boardFiles, objectives, agreement
<1>11. CASE \E b \in Projects : TakeContext(b) \/ LaunchSquad(b) \/ AddProject(b)
  BY <1>11 DEF TakeContext, LaunchSquad, AddProject, stagingVars, boardFiles, objectives, agreement
<1>12. CASE \E b \in Projects, f \in FileNames : AttachFile(b, f)
  BY <1>12 DEF AttachFile, objectives
<1>13. CASE \E b \in Projects, f \in FileNames : UploadAttachment(b, f) \/ DeleteAttachment(b, f)
  BY <1>0, <1>13 DEF UploadAttachment, DeleteAttachment, stagingVars, objectives, agreement
<1>14. CASE \E t \in Editors, b \in Projects, g \in {<<"third">>, <<"third", "fourth">>, <<>>} : EditProject(t, b, g)
  BY <1>0, <1>14 DEF EditProject, stagingVars, boardFiles, agreement
<1>15. CASE \E t \in Editors : EditTaskMd(t)
  BY <1>15 DEF EditTaskMd, stagingVars, boardFiles, agreement
<1>16. QED
  BY <1>1, <1>2, <1>3, <1>4, <1>5, <1>6, <1>7, <1>8, <1>9, <1>10, <1>11, <1>12, <1>13, <1>14,
     <1>15
  DEF UserFilesNext

\* Requests on files and goals are for launched boards, whose texts are written.
LEMMA OnlyLaunchedStep ==
  ASSUME FilesTypes, OnlyLaunched, Written, [UserFilesNext]_userFilesVars
  PROVE  OnlyLaunched' /\ Written'
<1>1. \A b \in Projects : Launched(b) => Launched(b)'
  BY LaunchedStays
<1>2. \/ loop' = loop \/ ~loop'.on
      \/ loop'.board \in Projects /\ loop'.file \in FileNames /\ Launched(loop'.board)
  <2>1. CASE MirrorUpload \/ HostRestarts
    <3>1. loop' = NotSaving
      BY <2>1 DEF MirrorUpload, HostRestarts
    <3>2. ~NotSaving.on
      BY DEF NotSaving
    <3>3. QED
      BY <3>1, <3>2
  <2>2. CASE \E b \in Projects, f \in FileNames : UploadAttachment(b, f)
    BY <1>1, <2>2 DEF UploadAttachment, Launched
  <2>3. QED
    BY <2>1, <2>2, WhoActs
<1>3. \/ removing' = removing \/ ~removing'.on
      \/ removing'.board \in Projects /\ removing'.file \in FileNames /\ Launched(removing'.board)
  <2>1. CASE DeleteCopy \/ HostRestarts
    <3>1. removing' = NotSaving
      BY <2>1 DEF DeleteCopy, HostRestarts
    <3>2. ~NotSaving.on
      BY DEF NotSaving
    <3>3. QED
      BY <3>1, <3>2
  <2>2. CASE \E b \in Projects, f \in FileNames : DeleteAttachment(b, f)
    BY <1>1, <2>2 DEF DeleteAttachment, Launched
  <2>3. QED
    BY <2>1, <2>2, WhoActs
<1>4. ASSUME NEW t \in Editors
      PROVE  \/ editing'[t] = editing[t] \/ ~editing'[t].on
             \/ editing'[t].board \in Projects /\ Launched(editing'[t].board) /\ editing'[t].text # <<>>
  <2>1. editing \in [Editors -> EditRecord] /\ ~NotEditing.on
    BY DEF FilesTypes, NotEditing
  <2>2. CASE HostRestarts
    BY <2>1, <2>2 DEF HostRestarts
  <2>3. CASE \E r \in Editors : EditTaskMd(r)
    BY <2>1, <2>3 DEF EditTaskMd
  <2>4. CASE \E r \in Editors, b \in Projects : \E g : EditProject(r, b, g)
    BY <2>1, <2>4 DEF EditProject
  <2>5. CASE editing' = editing
    BY <2>5
  <2>6. QED
    BY <2>2, <2>3, <2>4, <2>5, WhoActs DEF LaunchSquad, AddProject, objectives
<1>5. OnlyLaunched'
  BY <1>1, <1>2, <1>3, <1>4 DEF OnlyLaunched, Launched
<1>6. ASSUME NEW b \in Projects
      PROVE  taskMd'[b] # <<>> /\ (launch'[b].pc # "idle" => launch'[b].goal \in Goals)
  <2>1. launch'[b].pc # "idle" => launch'[b].goal \in Goals
    BY LaunchesGo DEF LaunchGoes, Begins, InFlight, Written
  <2>2. \A g \in Goals : g # <<>>
    BY DEF Goals
  <2>3. taskMd'[b] # <<>>
    <3>1. CASE \E c \in Projects : LaunchSquad(c)
      <4>1. PICK c \in Projects : LaunchSquad(c)
        BY <3>1
      <4>2. launch[c].pc = "squad" /\ (taskMd' = taskMd \/ taskMd' = [taskMd EXCEPT ![c] = launch[c].goal])
        BY <4>1 DEF LaunchSquad
      <4>3. launch[c].goal # <<>> /\ taskMd[b] # <<>>
        BY <2>2, <4>2 DEF Written
      <4>4. QED
        BY <4>2, <4>3 DEF FilesTypes
    <3>2. ASSUME NEW t \in Editors, EditTaskMd(t) PROVE taskMd'[b] # <<>>
      <4>1. editing[t].board \in Projects /\ editing[t].text # <<>> /\ editing[t].text \in Texts
        BY <3>2 DEF EditTaskMd, OnlyLaunched, Written, FilesTypes, EditRecord
      <4>2. \A old \in Texts \ {<<>>} : RewriteObjective(old, editing[t].text) # <<>>
        BY <4>1 DEF RewriteObjective, Texts
      <4>3. taskMd' = taskMd
            \/ taskMd' = [taskMd EXCEPT ![editing[t].board] = RewriteObjective(@, editing[t].text)]
        BY <3>2 DEF EditTaskMd
      <4>4. QED
        BY <4>1, <4>2, <4>3 DEF Written, FilesTypes
    <3>3. CASE taskMd' = taskMd
      BY <3>3 DEF Written
    <3>4. QED
      BY <3>1, <3>2, <3>3, WhoActs DEF HostRestarts, EditProject, AddProject
  <2>4. QED
    BY <2>1, <2>3
<1>7. QED
  BY <1>4, <1>5, <1>6 DEF Written

\* What a launch does not remove stays as it was, and two launches may meet it.
LEMMA ClearedFiles ==
  ASSUME NEW b \in Projects, ClearStaged(b)
  PROVE  \A f \in FileNames :
            /\ staged'.file[f] \in {0, staged.file[f]}
            /\ staged'.file[f] # 0 => staged.file[f] \in raced'
<1>1. PICK stays \in SUBSET Present, exists \in {FALSE, staged.exists} :
        /\ staged' = [exists |-> exists, old |-> staged.old \cap stays,
                      file |-> [f \in FileNames |-> IF f \in stays THEN staged.file[f] ELSE 0]]
        /\ raced' = raced \cup Uploaded(stays)
  BY DEF ClearStaged
<1>2. \A f \in FileNames : staged'.file[f] = IF f \in stays THEN staged.file[f] ELSE 0
  BY <1>1
<1>3. QED
  BY <1>1, <1>2 DEF Uploaded

\* What a new upload, or one less, makes of the staged files.
LEMMA NumberedStep ==
  ASSUME FilesTypes, Numbered, [UserFilesNext]_userFilesVars
  PROVE  Numbered'
<1>1. /\ \A f \in FileNames : staged.file[f] \in Nat
      /\ \A b \in Projects, f \in FileNames : attached[b][f] \in Nat
      /\ numbers \in NumbersType /\ numbers.upload \in Nat /\ staged \in StagedType
  BY DEF FilesTypes, StagedType, NumbersType, Uploads
<1>2. numbers'.upload = numbers.upload \/ numbers'.upload = numbers.upload + 1
  BY <1>1, WhoActs, ZenonT(30) DEF StageFile, UploadAttachment, NumbersType
<1>3. \/ \A f \in FileNames : staged'.file[f] \in {0, staged.file[f]}
      \/ /\ numbers'.upload = numbers.upload + 1
         /\ \E f \in FileNames : /\ staged'.file[f] = numbers.upload + 1
                               /\ \A g \in FileNames \ {f} : staged'.file[g] = staged.file[g]
  <2>1. CASE \E f \in FileNames : StageFile(f)
    <3>1. PICK f \in FileNames : StageFile(f)
      BY <2>1
    <3>2. \/ staged' = staged
          \/ /\ numbers' = [numbers EXCEPT !.upload = numbers.upload + 1] /\ numbers.upload < MaxUploads
             /\ staged' = [staged EXCEPT !.file[f] = numbers.upload + 1, !.old = staged.old \ {f}]
      BY <3>1 DEF StageFile
    <3>3. staged.old \ {f} \in SUBSET FileNames /\ (numbers.upload < MaxUploads => numbers.upload + 1 \in Uploads)
      BY <1>1 DEF StagedType, Uploads
    <3>4. ASSUME numbers.upload < MaxUploads
          PROVE  \A g \in FileNames : [staged EXCEPT !.file[f] = numbers.upload + 1, !.old = staged.old \ {f}].file[g] =
                                       IF g = f THEN numbers.upload + 1 ELSE staged.file[g]
      <4> DEFINE n == numbers.upload + 1
                 O == staged.old \ {f}
      <4>1. n \in Uploads /\ O \in SUBSET FileNames
        BY <3>3, <3>4
      <4> HIDE DEF n, O
      <4>2. [staged EXCEPT !.file[f] = n, !.old = O].file = [staged.file EXCEPT ![f] = n]
        BY <1>1, <4>1, StagedSet, ZenonT(40)
      <4>3. staged.file \in [FileNames -> Uploads]
        BY <1>1 DEF StagedType
      <4>4. QED
        BY <4>2, <4>3 DEF n, O
    <3>5. QED
      BY <1>1, <3>2, <3>4, ZenonT(40) DEF NumbersType
  <2>2. CASE \E f \in FileNames : RemoveStaged(f)
    BY <1>1, <2>2 DEF RemoveStaged, StagedType
  <2>3. CASE \E f \in FileNames : StagedFileAges(f)
    BY <1>1, <2>3 DEF StagedFileAges, StagedType
  <2>4. CASE ListStaged \/ \E fs \in SUBSET FileNames : StageAttachments(fs)
    BY <1>1, <2>4, StagedTypes DEF ListStaged, StageAttachments
  <2>5. CASE \E b \in Projects : ClearStaged(b)
    BY <2>5, ClearedFiles
  <2>6. CASE staged' = staged
    BY <2>6
  <2>7. QED
    BY <2>1, <2>2, <2>3, <2>4, <2>5, <2>6, WhoActs
    DEF HostRestarts, LaunchBegins, LaunchFails, AttachFile
<1>4. \A b \in Projects, f \in FileNames :
         \/ attached'[b][f] \in {0, attached[b][f], staged.file[f]}
         \/ numbers'.upload = numbers.upload + 1 /\ attached'[b][f] = numbers.upload + 1
  <2>0. attached \in [Projects -> [FileNames -> Uploads]] /\ 0 \in Uploads
    BY DEF FilesTypes, Uploads
  <2>1. ASSUME NEW c \in Projects, NEW g \in FileNames, AttachFile(c, g)
        PROVE  \A b \in Projects, f \in FileNames : attached'[b][f] \in {0, attached[b][f], staged.file[f]}
    <3>1. attached' = attached \/ attached' = [attached EXCEPT ![c][g] = staged.file[g]]
      BY <2>1 DEF AttachFile
    <3>2. QED
      BY <2>0, <3>1
  <2>2. ASSUME NEW c \in Projects, NEW g \in FileNames, UploadAttachment(c, g)
        PROVE  /\ numbers'.upload = numbers.upload + 1
               /\ \A b \in Projects, f \in FileNames : attached'[b][f] \in {attached[b][f], numbers.upload + 1}
    BY <1>1, <2>0, <2>2 DEF UploadAttachment, NumbersType
  <2>3. ASSUME NEW c \in Projects, NEW g \in FileNames, DeleteAttachment(c, g)
        PROVE  \A b \in Projects, f \in FileNames : attached'[b][f] \in {attached[b][f], 0}
    <3>1. attached' = [attached EXCEPT ![c][g] = 0] \/ attached' = [attached EXCEPT ![c][g] = attached[c][g]]
      BY <2>3 DEF DeleteAttachment
    <3>2. QED
      BY <2>0, <3>1, SMTT(30)
  <2>4. QED
    BY <2>1, <2>2, <2>3, WhoActs
<1>5. QED
  BY <1>1, <1>2, <1>3, <1>4 DEF Numbered, Present

\* A file is staged anew by StageFile only, as an upload that is numbered then,
\* and which a launch that consumes the directory meets.
LEMMA StagesAnew ==
  ASSUME FilesTypes, Numbered, [UserFilesNext]_userFilesVars, NEW f \in Present'
  PROVE  \/ f \in Present /\ staged'.file[f] = staged.file[f]
         \/ /\ staged'.file[f] = numbers.upload + 1 /\ UNCHANGED <<launch, attached>>
            /\ Consuming => numbers.upload + 1 \in raced'
<1>1. staged \in StagedType /\ f \in FileNames /\ staged'.file[f] # 0 /\ \A g \in FileNames : staged.file[g] \in Nat
  BY DEF FilesTypes, Present, StagedType, Uploads
<1>2. CASE \E g \in FileNames : StageFile(g)
  <2>1. PICK g \in FileNames : StageFile(g)
    BY <1>2
  <2>2. \/ staged' = staged
        \/ /\ staged' = [staged EXCEPT !.file[g] = numbers.upload + 1, !.old = @ \ {g}]
           /\ raced' = IF Consuming THEN raced \cup {numbers.upload + 1} ELSE raced
    BY <2>1 DEF StageFile
  <2>3. UNCHANGED <<launch, attached>>
    BY <2>1 DEF StageFile, boardFiles
  <2>4. staged' = staged \/ staged'.file[f] = IF f = g THEN numbers.upload + 1 ELSE staged.file[f]
    BY <1>1, <2>2 DEF StagedType
  <2>5. QED
    BY <1>1, <2>2, <2>3, <2>4 DEF Present
<1>3. CASE \E g \in FileNames : RemoveStaged(g)
  BY <1>1, <1>3 DEF RemoveStaged, StagedType, Present
<1>4. CASE \E g \in FileNames : StagedFileAges(g)
  BY <1>1, <1>4 DEF StagedFileAges, StagedType, Present
<1>5. CASE ListStaged \/ \E fs \in SUBSET FileNames : StageAttachments(fs)
  <2>1. staged' = Swept \/ staged' = [Swept EXCEPT !.exists = TRUE]
    BY <1>5 DEF ListStaged, StageAttachments
  <2>2. QED
    BY <1>1, <2>1, StagedTypes DEF Present
<1>6. CASE \E b \in Projects : ClearStaged(b)
  <2>1. staged'.file[f] \in {0, staged.file[f]}
    BY <1>1, <1>6, ClearedFiles
  <2>2. QED
    BY <1>1, <2>1 DEF Present
<1>7. CASE staged' = staged
  BY <1>1, <1>7 DEF Present
<1>8. QED
  BY <1>2, <1>3, <1>4, <1>5, <1>6, <1>7, WhoActs
  DEF HostRestarts, LaunchBegins, LaunchFails, AttachFile

\* What a board has attached changes by a launch of its own that attaches, or by a
\* request once it is launched.
LEMMA AttachedGoes ==
  ASSUME FilesTypes, [UserFilesNext]_userFilesVars
  PROVE  \/ attached' = attached
         \/ \E b \in Projects, f \in FileNames :
               /\ AttachFile(b, f) /\ Attaching(b) /\ Attaching(b)' /\ f \in Present /\ UNCHANGED <<staged, raced, numbers>>
               /\ attached'[b][f] = staged.file[f]
               /\ \A c \in Projects, g \in FileNames : <<c, g>> # <<b, f>> => attached'[c][g] = attached[c][g]
         \/ \E b \in Projects, f \in FileNames :
               /\ Launched(b) /\ UNCHANGED <<staged, raced, launch>>
               /\ attached'[b][f] \in {0, numbers.upload + 1}
               /\ \A c \in Projects, g \in FileNames : <<c, g>> # <<b, f>> => attached'[c][g] = attached[c][g]
<1>1. /\ attached \in [Projects -> [FileNames -> Uploads]] /\ numbers \in NumbersType
      /\ launch \in [Projects -> LaunchRecord]
  BY DEF FilesTypes
<1>2. ASSUME NEW b \in Projects, NEW f \in FileNames, AttachFile(b, f), attached' # attached
      PROVE  /\ Attaching(b) /\ Attaching(b)' /\ f \in Present /\ UNCHANGED <<staged, raced, numbers>>
             /\ attached'[b][f] = staged.file[f]
             /\ \A c \in Projects, g \in FileNames : <<c, g>> # <<b, f>> => attached'[c][g] = attached[c][g]
  <2>1. /\ launch[b].pc = "attach" /\ launch' = [launch EXCEPT ![b] = [launch[b] EXCEPT !.left = launch[b].left \ {f}]]
        /\ f \in Present /\ UNCHANGED <<staged, raced, numbers>> /\ attached' = [attached EXCEPT ![b][f] = staged.file[f]]
    BY <1>2 DEF AttachFile
  <2>2. Attaching(b)'
    BY <1>1, <2>1 DEF Attaching, LaunchRecord
  <2>3. QED
    BY <1>1, <2>1, <2>2 DEF Attaching
<1>3. ASSUME NEW b \in Projects, NEW f \in FileNames, UploadAttachment(b, f) \/ DeleteAttachment(b, f),
             attached' # attached
      PROVE  /\ Launched(b) /\ UNCHANGED <<staged, raced, launch>>
             /\ attached'[b][f] \in {0, numbers.upload + 1}
             /\ \A c \in Projects, g \in FileNames : <<c, g>> # <<b, f>> => attached'[c][g] = attached[c][g]
  <2>1. /\ Launched(b) /\ UNCHANGED <<staged, raced, launch>>
        /\ \E n \in {0, numbers.upload + 1, attached[b][f]} : attached' = [attached EXCEPT ![b][f] = n]
    BY <1>3 DEF UploadAttachment, DeleteAttachment, stagingVars
  <2>2. [attached EXCEPT ![b][f] = attached[b][f]] = attached
    BY <1>1
  <2>3. PICK n \in {0, numbers.upload + 1} : attached' = [attached EXCEPT ![b][f] = n]
    BY <1>3, <2>1, <2>2
  <2>4. QED
    BY <1>1, <2>1, <2>3
<1>4. QED
  BY <1>2, <1>3, WhoActs

\* A launch removes only what it has attached or what another one met.
LEMMA ConsumedStep ==
  ASSUME FilesTypes, Numbered, Consumed, StagedIsKept, [UserFilesNext]_userFilesVars
  PROVE  Consumed' /\ StagedIsKept'
<1>1. raced \subseteq raced'
  BY WhoActs
<1>2. ASSUME NEW b \in Projects, NEW f \in FileNames, Attaching(b)
      PROVE  attached'[b][f] \in {attached[b][f], staged.file[f]}
  BY <1>2, AttachedGoes DEF Attaching, Launched
<1>3. ASSUME NEW b \in Projects, NEW f \in Present', Attaching(b)'
      PROVE  f \in launch'[b].left \/ staged'.file[f] = attached'[b][f] \/ staged'.file[f] \in raced'
  <2>0. f \in FileNames
    BY DEF Present
  <2>1. CASE ~(f \in Present /\ staged'.file[f] = staged.file[f])
    BY <1>3, <2>1, StagesAnew DEF Attaching, Consuming
  <2>2. CASE f \in Present /\ staged'.file[f] = staged.file[f] /\ Attaching(b)
    <3>1. f \in launch[b].left \/ staged.file[f] = attached[b][f] \/ staged.file[f] \in raced
      BY <2>2 DEF Consumed
    <3>2. CASE f \notin launch[b].left
      BY <1>1, <1>2, <2>0, <2>2, <3>1, <3>2
    <3>3. CASE f \in launch[b].left
      <4>1. CASE launch'[b] = launch[b]
        BY <3>3, <4>1
      <4>2. CASE Attaches(b)
        <5>1. PICK g \in FileNames : AttachFile(b, g) /\ launch'[b].left = launch[b].left \ {g}
          BY <4>2 DEF Attaches
        <5>2. CASE g # f
          BY <3>3, <5>1, <5>2
        <5>3. CASE g = f
          <6>1. attached' = [attached EXCEPT ![b][f] = staged.file[f]] \/ raced' = raced \cup Uploaded({f})
            BY <2>2, <5>1, <5>3 DEF AttachFile
          <6>2. QED
            BY <2>0, <2>2, <6>1 DEF FilesTypes, Uploaded
        <5>4. QED
          BY <5>2, <5>3
      <4>3. QED
        BY <1>3, <2>2, <4>1, <4>2, LaunchesGo
        DEF LaunchGoes, Begins, TakesContext, MovesOn, Attaching
    <3>4. QED
      BY <3>2, <3>3
  <2>3. CASE f \in Present /\ ~Attaching(b)
    BY <1>3, <2>3, LaunchesGo DEF LaunchGoes, Begins, Attaches, TakesContext, MovesOn, Attaching
  <2>4. QED
    BY <2>1, <2>2, <2>3
<1>4. ASSUME NEW b \in Projects, NEW c \in Projects, b # c, Attaching(b)', Attaching(c)', NEW f \in Present'
      PROVE  staged'.file[f] \in raced'
  <2>1. CASE ~(f \in Present /\ staged'.file[f] = staged.file[f])
    BY <1>4, <2>1, StagesAnew DEF Attaching, Consuming
  <2>2. CASE f \in Present /\ staged'.file[f] = staged.file[f] /\ Attaching(b) /\ Attaching(c)
    BY <1>1, <1>4, <2>2 DEF Consumed, Uploaded
  <2>3. ASSUME NEW x \in Projects, NEW y \in Projects, x # y, LaunchBegins(x), Attaching(y)', f \in Present,
               staged'.file[f] = staged.file[f]
        PROVE  staged'.file[f] \in raced'
    <3>1. launch'[y] = launch[y]
      BY <2>3 DEF LaunchBegins
    <3>2. raced' = raced \cup Uploaded(Present)
      BY <2>3, <3>1 DEF LaunchBegins, Attaching, Consuming
    <3>3. QED
      BY <2>3, <3>2 DEF Uploaded
  <2>4. QED
    BY <1>4, <2>1, <2>2, <2>3, LaunchedStays
<1>5. Consumed'
  BY <1>3, <1>4 DEF Consumed, Uploaded
<1>6. StagedIsKept'
  <2>1. ASSUME NEW b \in Projects, ClearStaged(b) PROVE dropped' \subseteq raced'
    <3>1. /\ launch[b].pc = "attach" /\ launch[b].left = {}
          /\ \E stays : dropped' = dropped \cup (Uploaded(Present \ stays) \ AttachedTo(b))
      BY <2>1 DEF ClearStaged
    <3>2. ASSUME NEW f \in Present PROVE staged.file[f] \in AttachedTo(b) \cup raced
      <4>1. f \in FileNames /\ staged.file[f] # 0
        BY DEF Present
      <4>2. staged.file[f] = attached[b][f] \/ staged.file[f] \in raced
        BY <3>1 DEF Consumed, Attaching
      <4>3. QED
        BY <4>1, <4>2 DEF AttachedTo
    <3>3. QED
      BY <1>1, <3>1, <3>2 DEF Uploaded, StagedIsKept
  <2>2. QED
    BY <1>1, <2>1, WhoActs DEF StagedIsKept
<1>7. QED
  BY <1>5, <1>6

\* An upload goes from the staging directory to one board.
LEMMA AttachedOnceStep ==
  ASSUME FilesTypes, Numbered, Consumed, AttachedOnce, [UserFilesNext]_userFilesVars
  PROVE  AttachedOnce'
<1>1. SUFFICES ASSUME NEW id \in (1..MaxUploads) \ raced'
               PROVE  /\ \A b, c \in Projects : AttachedBy(b, id)' /\ AttachedBy(c, id)' => b = c
                      /\ \A b \in Projects : AttachedBy(b, id)' /\ id \in Uploaded(Present)' => Attaching(b)'
  BY DEF AttachedOnce
<1>2. id \in (1..MaxUploads) \ raced /\ id # 0
  BY <1>1, WhoActs
<1>3. /\ \A b, c \in Projects : AttachedBy(b, id) /\ AttachedBy(c, id) => b = c
      /\ \A b \in Projects : AttachedBy(b, id) /\ id \in Uploaded(Present) => Attaching(b)
  BY <1>2 DEF AttachedOnce
<1>4. /\ \A f \in FileNames : staged.file[f] \in Nat /\ staged.file[f] <= numbers.upload
      /\ \A b \in Projects, f \in FileNames : attached[b][f] \in Nat /\ attached[b][f] <= numbers.upload
      /\ numbers.upload \in Nat
  BY DEF FilesTypes, StagedType, NumbersType, Uploads, Numbered
\* What is attached was, or is now taken from what is staged, or is new.
<1>5. ASSUME NEW b \in Projects, AttachedBy(b, id)', ~AttachedBy(b, id)
      PROVE  /\ \A c \in Projects \ {b} : AttachedBy(c, id)' => AttachedBy(c, id)
             /\ \/ Attaching(b) /\ Attaching(b)' /\ id \in Uploaded(Present)
                \/ id = numbers.upload + 1 /\ staged' = staged
  BY <1>2, <1>5, AttachedGoes DEF AttachedBy, Uploaded
<1>6. ASSUME NEW b \in Projects, NEW c \in Projects, b # c, AttachedBy(b, id)', AttachedBy(c, id)', ~AttachedBy(b, id)
      PROVE  FALSE
  <2>1. AttachedBy(c, id)
    BY <1>5, <1>6
  <2>2. CASE Attaching(b) /\ id \in Uploaded(Present)
    BY <1>2, <1>3, <1>6, <2>1, <2>2 DEF Consumed
  <2>3. CASE id = numbers.upload + 1
    BY <1>4, <2>1, <2>3 DEF AttachedBy
  <2>4. QED
    BY <1>5, <1>6, <2>2, <2>3
<1>7. ASSUME NEW b \in Projects, AttachedBy(b, id)', id \in Uploaded(Present)'
      PROVE  Attaching(b)'
  <2>1. PICK f \in Present' : id = staged'.file[f]
    BY <1>7 DEF Uploaded
  <2>2. CASE f \in Present /\ staged'.file[f] = staged.file[f]
    <3>1. id \in Uploaded(Present) /\ id <= numbers.upload
      BY <1>4, <2>1, <2>2 DEF Uploaded, Present
    <3>2. CASE ~AttachedBy(b, id)
      BY <1>4, <1>5, <1>7, <3>1, <3>2
    <3>3. CASE AttachedBy(b, id)
      <4>1. Attaching(b)
        BY <1>3, <3>1, <3>3
      <4>2. ~ClearStaged(b)
        <5>1. f \in FileNames /\ staged'.file[f] # 0
          BY <1>2, <2>1 DEF Present
        <5>2. QED
          BY <1>1, <2>1, <2>2, <5>1, ClearedFiles
      <4>3. ASSUME HostRestarts PROVE FALSE
        <5>1. InFlight(b) /\ id \in AttachedTo(b)
          BY <1>2, <3>3, <4>1 DEF Attaching, InFlight, AttachedBy, AttachedTo
        <5>2. QED
          BY <1>1, <4>3, <5>1 DEF HostRestarts
      <4>4. QED
        BY <4>1, <4>2, <4>3, LaunchesGo
        DEF LaunchGoes, Begins, Attaches, TakesContext, MovesOn, Attaching
    <3>4. QED
      BY <3>2, <3>3
  <2>3. CASE staged'.file[f] = numbers.upload + 1 /\ attached' = attached
    BY <1>4, <1>7, <2>1, <2>3 DEF AttachedBy
  <2>4. QED
    BY <2>2, <2>3, StagesAnew
<1>8. QED
  BY <1>3, <1>6, <1>7

\* The store of a board and its copies: a change of one is a change of both, or a
\* request has the copy still to do, or it did not come to it.
LEMMA CopiesStep ==
  ASSUME FilesTypes, OnlyLaunched, InHand, CopiesAgree, [UserFilesNext]_userFilesVars
  PROVE  InHand' /\ CopiesAgree'
<1> DEFINE Of(r, b, f) == r.on /\ r.board = b /\ r.file = f
<1>0. /\ attached \in [Projects -> [FileNames -> Uploads]] /\ uploads \in [Projects -> [FileNames -> Uploads]]
      /\ ~NotSaving.on /\ mixed \subseteq mixed' /\ 0 \in Uploads
      /\ loop.on => loop.board \in Projects /\ loop.file \in FileNames /\ Launched(loop.board)
      /\ removing.on => removing.board \in Projects /\ removing.file \in FileNames /\ Launched(removing.board)
  <2>1. \A r \in {loop, removing} : r.on => r.board \in Projects /\ r.file \in FileNames /\ Launched(r.board)
    BY DEF OnlyLaunched
  <2>2. mixed \subseteq mixed'
    BY WhoActs
  <2>3. QED
    BY <2>1, <2>2 DEF FilesTypes, NotSaving, Uploads
<1>a. /\ loop.on /\ <<loop.board, loop.file>> \notin mixed =>
            attached[loop.board][loop.file] = loop.id /\ ~Of(removing, loop.board, loop.file)
      /\ removing.on /\ <<removing.board, removing.file>> \notin mixed => attached[removing.board][removing.file] = removing.id
  BY DEF InHand
<1>b. \A b \in Projects, f \in FileNames :
         uploads[b][f] = attached[b][f] \/ <<b, f>> \in mixed \cup behind \/ Of(loop, b, f) \/ Of(removing, b, f)
  <2> SUFFICES ASSUME NEW b \in Projects, NEW f \in FileNames, uploads[b][f] # attached[b][f],
                      <<b, f>> \notin mixed \cup behind
               PROVE  Of(loop, b, f) \/ Of(removing, b, f)
    OBVIOUS
  <2>1. PICK r \in {loop, removing} : r.on /\ r.board = b /\ r.file = f
    BY DEF CopiesAgree
  <2>2. CASE r = loop
    BY <2>1, <2>2
  <2>3. CASE r = removing
    BY <2>1, <2>3
  <2>4. QED
    BY <2>1, <2>2, <2>3
<1> DEFINE Hand == /\ loop'.on /\ <<loop'.board, loop'.file>> \notin mixed' =>
                         /\ attached'[loop'.board][loop'.file] = loop'.id
                         /\ ~Of(removing', loop'.board, loop'.file)
                   /\ removing'.on /\ <<removing'.board, removing'.file>> \notin mixed' =>
                         attached'[removing'.board][removing'.file] = removing'.id
           Copies == \A b \in Projects, f \in FileNames :
                        \/ uploads'[b][f] = attached'[b][f] \/ <<b, f>> \in mixed' \cup behind'
                        \/ Of(loop', b, f) \/ Of(removing', b, f)
<1>1. CASE UNCHANGED <<loop, removing, attached, uploads>> /\ behind \subseteq behind'
  BY <1>0, <1>a, <1>b, <1>1 DEF InHand, CopiesAgree
<1>c. ASSUME NEW t \in Editors, EditTaskMd(t) PROVE Hand /\ Copies
  <2>1. UNCHANGED <<loop, removing, attached, uploads>>
    BY <1>c DEF EditTaskMd, boardFiles
  <2>2. behind \ {<<editing[t].board, NoName>>} \subseteq behind'
    BY <1>c DEF EditTaskMd
  <2>3. \A b \in Projects, f \in FileNames : <<b, f>> \in behind => <<b, f>> \in behind'
    BY <2>2, NamesAssumption DEF NoName
  <2>4. QED
    BY <1>0, <1>a, <1>b, <2>1, <2>3
<1>2. CASE MirrorUpload
  <2>1. /\ loop.on /\ loop' = NotSaving /\ UNCHANGED <<attached, removing, mixed>>
        /\ \/ /\ uploads' = [uploads EXCEPT ![loop.board][loop.file] = loop.id]
              /\ behind' = behind \ {<<loop.board, loop.file>>}
           \/ uploads' = uploads /\ behind' = behind \cup {<<loop.board, loop.file>>}
    BY <1>2 DEF MirrorUpload
  <2>2. Hand
    BY <1>0, <1>a, <2>1
  <2>3. ASSUME NEW b \in Projects, NEW f \in FileNames, <<b, f>> \notin mixed' \cup behind'
        PROVE  uploads'[b][f] = attached'[b][f] \/ Of(removing', b, f)
    <3>1. <<b, f>> \notin mixed
      BY <1>0, <2>3
    <3>2. CASE b = loop.board /\ f = loop.file
      <4>1. uploads' = [uploads EXCEPT ![b][f] = loop.id]
        BY <2>1, <2>3, <3>2
      <4>2. uploads'[b][f] = loop.id
        BY <1>0, <4>1
      <4>3. QED
        BY <1>a, <2>1, <3>1, <3>2, <4>2
    <3>3. CASE ~(b = loop.board /\ f = loop.file)
      <4>1. uploads'[b][f] = uploads[b][f] /\ <<b, f>> \notin behind
        BY <1>0, <2>1, <2>3, <3>3
      <4>2. QED
        BY <1>b, <2>1, <3>1, <3>3, <4>1
    <3>4. QED
      BY <3>2, <3>3
  <2>4. QED
    BY <2>2, <2>3 DEF InHand, CopiesAgree
<1>3. CASE DeleteCopy
  <2>1. /\ removing.on /\ removing' = NotSaving /\ UNCHANGED <<attached, loop, mixed>>
        /\ \/ /\ uploads' = [uploads EXCEPT ![removing.board][removing.file] = 0]
              /\ behind' = IF removing.id = 0 THEN behind \ {<<removing.board, removing.file>>}
                           ELSE behind \cup {<<removing.board, removing.file>>}
           \/ uploads' = uploads /\ behind' = behind \cup {<<removing.board, removing.file>>}
    BY <1>3 DEF DeleteCopy
  <2>2. Hand
    BY <1>0, <1>a, <2>1
  <2>3. ASSUME NEW b \in Projects, NEW f \in FileNames, <<b, f>> \notin mixed \cup behind'
        PROVE  uploads'[b][f] = attached[b][f] \/ Of(loop, b, f)
    <3>1. CASE b = removing.board /\ f = removing.file
      <4>1. uploads' = [uploads EXCEPT ![b][f] = 0] /\ removing.id = 0
        BY <2>1, <2>3, <3>1
      <4>2. uploads'[b][f] = 0
        BY <1>0, <4>1
      <4>3. QED
        BY <1>a, <2>1, <2>3, <3>1, <4>1, <4>2
    <3>2. CASE ~(b = removing.board /\ f = removing.file)
      <4>1. uploads'[b][f] = uploads[b][f] /\ <<b, f>> \notin behind
        BY <1>0, <2>1, <2>3, <3>2
      <4>2. QED
        BY <1>b, <2>3, <3>2, <4>1
    <3>3. QED
      BY <3>1, <3>2
  <2>4. QED
    BY <2>1, <2>2, <2>3 DEF InHand, CopiesAgree
<1>4. ASSUME NEW c \in Projects, NEW g \in FileNames, UploadAttachment(c, g) PROVE Hand /\ Copies
  <2>1. /\ ~loop.on /\ UNCHANGED <<uploads, removing, behind>> /\ attached' = [attached EXCEPT ![c][g] = numbers.upload + 1]
        /\ loop' = [on |-> TRUE, board |-> c, file |-> g, id |-> numbers.upload + 1]
        /\ Of(removing, c, g) => <<c, g>> \in mixed'
    BY <1>4 DEF UploadAttachment, LoopFree
  <2>2. \A b \in Projects, f \in FileNames :
           attached'[b][f] = IF b = c /\ f = g THEN numbers.upload + 1 ELSE attached[b][f]
    BY <1>0, <2>1
  <2>3. loop'.on /\ loop'.board = c /\ loop'.file = g /\ loop'.id = numbers.upload + 1
    BY <2>1
  <2>4. Hand
    <3>1. ASSUME removing.on, <<removing.board, removing.file>> \notin mixed'
          PROVE  attached'[removing.board][removing.file] = removing.id
      <4>1. ~(removing.board = c /\ removing.file = g)
        BY <2>1, <3>1
      <4>2. QED
        BY <1>0, <1>a, <2>1, <2>2, <3>1, <4>1
    <3>2. attached'[c][g] = loop'.id
      BY <2>2, <2>3
    <3>3. QED
      BY <2>1, <2>3, <3>1, <3>2
  <2>5. Copies
    <3>1. ASSUME NEW b \in Projects, NEW f \in FileNames, ~(b = c /\ f = g)
          PROVE  uploads'[b][f] = attached'[b][f] \/ <<b, f>> \in mixed' \cup behind' \/ Of(removing', b, f)
      <4>1. uploads'[b][f] = uploads[b][f] /\ attached'[b][f] = attached[b][f] /\ ~Of(loop, b, f)
        BY <2>1, <2>2, <3>1
      <4>2. QED
        BY <1>0, <1>b, <2>1, <4>1
    <3>2. Of(loop', c, g)
      BY <2>3
    <3>3. QED
      BY <3>1, <3>2
  <2>6. QED
    BY <2>4, <2>5
<1>5. ASSUME NEW c \in Projects, NEW g \in FileNames, DeleteAttachment(c, g) PROVE Hand /\ Copies
  <2>1. /\ ~removing.on /\ UNCHANGED <<uploads, loop, behind>>
        /\ Of(loop, c, g) => <<c, g>> \in mixed'
    BY <1>5 DEF DeleteAttachment
  <2>a. PICK stays \in {0, attached[c][g]} :
          /\ attached' = [attached EXCEPT ![c][g] = stays]
          /\ removing' = [on |-> TRUE, board |-> c, file |-> g, id |-> stays]
    BY <1>5 DEF DeleteAttachment
  <2>2. \A b \in Projects, f \in FileNames : attached'[b][f] = IF b = c /\ f = g THEN stays ELSE attached[b][f]
    BY <1>0, <2>a
  <2>3. removing'.on /\ removing'.board = c /\ removing'.file = g /\ removing'.id = stays
    BY <2>a
  <2>4. Hand
    <3>1. ASSUME loop.on, <<loop.board, loop.file>> \notin mixed'
          PROVE  attached'[loop.board][loop.file] = loop.id /\ ~Of(removing', loop.board, loop.file)
      <4>1. ~(loop.board = c /\ loop.file = g)
        BY <2>1, <3>1
      <4>2. QED
        BY <1>0, <1>a, <2>1, <2>2, <2>3, <3>1, <4>1
    <3>2. attached'[c][g] = removing'.id
      BY <2>2, <2>3
    <3>3. QED
      BY <2>1, <2>3, <3>1, <3>2
  <2>5. Copies
    <3>1. ASSUME NEW b \in Projects, NEW f \in FileNames, ~(b = c /\ f = g)
          PROVE  uploads'[b][f] = attached'[b][f] \/ <<b, f>> \in mixed' \cup behind' \/ Of(loop', b, f)
      <4>1. uploads'[b][f] = uploads[b][f] /\ attached'[b][f] = attached[b][f] /\ ~Of(removing, b, f)
        BY <2>1, <2>2, <3>1
      <4>2. QED
        BY <1>0, <1>b, <2>1, <4>1
    <3>2. Of(removing', c, g)
      BY <2>3
    <3>3. QED
      BY <3>1, <3>2
  <2>6. QED
    BY <2>4, <2>5
<1>6. CASE HostRestarts
  <2>1. /\ loop' = NotSaving /\ removing' = NotSaving /\ UNCHANGED <<attached, uploads>>
        /\ behind \subseteq behind'
        /\ loop.on => <<loop.board, loop.file>> \in behind'
        /\ removing.on => <<removing.board, removing.file>> \in behind'
    BY <1>6 DEF HostRestarts
  <2>2. QED
    BY <1>0, <1>b, <2>1 DEF InHand, CopiesAgree
<1>7. ASSUME NEW c \in Projects, LaunchSquad(c) PROVE Hand /\ Copies
  <2>1. UNCHANGED <<attached, loop, removing>> /\ (UNCHANGED <<uploads, behind>> \/ SeedAttachments(c))
    BY <1>7 DEF LaunchSquad
  <2>2. \A b \in Projects, f \in FileNames :
           \/ uploads'[b][f] = attached[b][f]
           \/ uploads'[b][f] = uploads[b][f] /\ (<<b, f>> \in behind => <<b, f>> \in behind')
    <3>1. CASE UNCHANGED <<uploads, behind>>
      BY <3>1
    <3>2. CASE SeedAttachments(c)
      <4>1. PICK copied \in SUBSET {f \in FileNames : attached[c][f] # 0} :
              /\ uploads' = [uploads EXCEPT ![c] = [f \in FileNames |-> IF f \in copied THEN attached[c][f] ELSE @[f]]]
              /\ behind' = behind \ {<<c, f>> : f \in copied}
        BY <3>2 DEF SeedAttachments
      <4>2. \A b \in Projects, f \in FileNames :
               uploads'[b][f] = IF b = c /\ f \in copied THEN attached[b][f] ELSE uploads[b][f]
        BY <1>0, <4>1
      <4>3. \A b \in Projects, f \in FileNames : ~(b = c /\ f \in copied) /\ <<b, f>> \in behind => <<b, f>> \in behind'
        BY <4>1
      <4>4. QED
        BY <4>2, <4>3
    <3>3. QED
      BY <2>1, <3>1, <3>2
  <2>3. QED
    BY <1>0, <1>a, <1>b, <2>1, <2>2
<1>8. ASSUME NEW c \in Projects, NEW g \in FileNames, AttachFile(c, g) PROVE Hand /\ Copies
  <2>1. /\ UNCHANGED <<loop, removing>> /\ launch[c].pc = "attach"
        /\ behind \subseteq behind'
        /\ \/ UNCHANGED <<attached, uploads>>
           \/ /\ attached' = [attached EXCEPT ![c][g] = staged.file[g]]
              /\ \/ uploads' = [uploads EXCEPT ![c][g] = staged.file[g]]
                 \/ uploads' = uploads /\ <<c, g>> \in behind'
    BY <1>8 DEF AttachFile
  <2>2. \A b \in Projects, f \in FileNames :
           \/ attached'[b][f] = attached[b][f] /\ uploads'[b][f] = uploads[b][f]
           \/ b = c /\ (attached'[b][f] = uploads'[b][f] \/ <<b, f>> \in behind')
    <3>1. CASE UNCHANGED <<attached, uploads>>
      BY <3>1
    <3>2. CASE attached' = [attached EXCEPT ![c][g] = staged.file[g]] /\ uploads' = [uploads EXCEPT ![c][g] = staged.file[g]]
      BY <1>0, <3>2
    <3>3. CASE attached' = [attached EXCEPT ![c][g] = staged.file[g]] /\ uploads' = uploads /\ <<c, g>> \in behind'
      BY <1>0, <3>3
    <3>4. QED
      BY <2>1, <3>1, <3>2, <3>3
  <2>3. \A r \in {loop, removing} : r.on => r.board # c
    BY <1>0, <2>1 DEF Launched
  <2>4. Hand
    BY <1>0, <1>a, <2>1, <2>2, <2>3
  <2>5. Copies
    <3>1. ASSUME NEW b \in Projects, NEW f \in FileNames
          PROVE  \/ uploads'[b][f] = attached'[b][f] \/ <<b, f>> \in mixed' \cup behind'
                 \/ Of(loop, b, f) \/ Of(removing, b, f)
      <4>1. CASE uploads'[b][f] = attached'[b][f] \/ <<b, f>> \in behind'
        BY <4>1
      <4>2. CASE attached'[b][f] = attached[b][f] /\ uploads'[b][f] = uploads[b][f]
        BY <1>0, <1>b, <2>1, <4>2
      <4>3. QED
        BY <2>2, <4>1, <4>2
    <3>2. QED
      BY <2>1, <3>1
  <2>6. QED
    BY <2>4, <2>5
<1>9. \/ UNCHANGED <<loop, removing, attached, uploads>> /\ behind \subseteq behind'
      \/ \E t \in Editors : EditTaskMd(t)
      \/ MirrorUpload \/ DeleteCopy \/ HostRestarts
      \/ \E c \in Projects, g \in FileNames : UploadAttachment(c, g) \/ DeleteAttachment(c, g) \/ AttachFile(c, g)
      \/ \E c \in Projects : LaunchSquad(c)
  BY WhoActs
<1>10. Hand /\ Copies => InHand' /\ CopiesAgree'
  BY DEF InHand, CopiesAgree
<1>11. QED
  BY <1>1, <1>c, <1>2, <1>3, <1>4, <1>5, <1>6, <1>7, <1>8, <1>9, <1>10

\* An edit puts its goal at the head of TASK.md.
LEMMA RewriteHeads ==
  ASSUME NEW old \in Texts, NEW text \in Texts, old # <<>>, text # <<>>
  PROVE  SubSeq(RewriteObjective(old, text), 1, Len(text)) = text
<1>1. Tail(old) \in Texts
  BY DEF Texts
<1>2. SubSeq(text, 1, Len(text)) = text
  BY SubSeqFull DEF Texts
<1>3. SubSeq(text \o Tail(old), 1, Len(text)) = SubSeq(text, 1, Len(text))
  <2>1. Len(text) \in 1..Len(text) /\ 1 \in 1..Len(text)
    BY DEF Texts
  <2>2. text \in Seq(Words) /\ Tail(old) \in Seq(Words)
    BY <1>1 DEF Texts
  <2>3. QED
    BY <2>1, <2>2, SubSeqOfConcat1
<1>4. QED
  BY <1>2, <1>3 DEF RewriteObjective

\* What becomes of the goal in a row, of the text of TASK.md and of the edits under way.
ObjectiveStays(b) == goal'[b] = goal[b] /\ taskMd'[b] = taskMd[b] /\ editing' = editing
ObjectiveBroken == HostRestarts /\ UNCHANGED <<goal, taskMd>>
ObjectiveSeeded(b) ==
    /\ LaunchSquad(b) /\ launch[b].pc = "squad" /\ taskMd'[b] \in {taskMd[b], launch[b].goal}
    /\ UNCHANGED <<goal, editing>>
ObjectiveOfRow(b) ==
    AddProject(b) /\ launch[b].pc = "row" /\ goal'[b] = launch[b].goal /\ UNCHANGED <<taskMd, editing>>
ObjectiveHeaded(b, t) ==
    /\ editing[t].on /\ UNCHANGED <<goal, mixed>> /\ editing' = [editing EXCEPT ![t] = NotEditing]
    /\ editing[t].board # b => taskMd'[b] = taskMd[b]
    /\ editing[t].board = b => \/ taskMd'[b] = RewriteObjective(taskMd[b], editing[t].text)
                               \/ taskMd'[b] = taskMd[b] /\ <<b, NoName>> \in behind'
ObjectiveEdited(b, t, c, g) ==
    /\ ~editing[t].on /\ taskMd' = taskMd /\ goal'[b] = (IF c = b THEN g ELSE goal[b])
    /\ g = <<>> => editing' = editing
    /\ g # <<>> => /\ editing'[t] = [on |-> TRUE, board |-> c, text |-> g]
                   /\ \A o \in Editors \ {t} : editing'[o] = editing[o]
    /\ (\E o \in Editors : editing[o].on /\ editing[o].board = c) => <<c, NoName>> \in mixed'

\* The goal and TASK.md change by a launch, an edit or a restart only.
LEMMA ObjectivesGo ==
  ASSUME FilesTypes, OnlyLaunched, [UserFilesNext]_userFilesVars, NEW b \in Projects
  PROVE  \/ ObjectiveStays(b) \/ ObjectiveBroken \/ ObjectiveSeeded(b) \/ ObjectiveOfRow(b)
         \/ \E t \in Editors : ObjectiveHeaded(b, t)
         \/ \E t \in Editors, c \in Projects, g \in Texts : ObjectiveEdited(b, t, c, g)
<1>1. goal \in [Projects -> Texts] /\ taskMd \in [Projects -> Texts] /\ editing \in [Editors -> EditRecord]
  BY DEF FilesTypes
<1>2. ASSUME NEW c \in Projects, LaunchSquad(c) PROVE ObjectiveStays(b) \/ ObjectiveSeeded(b)
  <2>1. /\ launch[c].pc = "squad" /\ UNCHANGED <<goal, editing>>
        /\ taskMd' = taskMd \/ taskMd' = [taskMd EXCEPT ![c] = launch[c].goal]
    BY <1>2 DEF LaunchSquad
  <2>2. CASE c = b
    <3>1. taskMd'[b] \in {taskMd[b], launch[b].goal}
      BY <1>1, <2>1, <2>2
    <3>2. QED
      BY <1>2, <2>1, <2>2, <3>1 DEF ObjectiveSeeded
  <2>3. CASE c # b
    BY <1>1, <2>1, <2>3 DEF ObjectiveStays
  <2>4. QED
    BY <2>2, <2>3
<1>3. ASSUME NEW c \in Projects, AddProject(c) PROVE ObjectiveStays(b) \/ ObjectiveOfRow(b)
  <2>1. launch[c].pc = "row" /\ UNCHANGED <<taskMd, editing>> /\ goal' = [goal EXCEPT ![c] = launch[c].goal]
    BY <1>3 DEF AddProject
  <2>2. QED
    BY <1>1, <1>3, <2>1 DEF ObjectiveStays, ObjectiveOfRow
<1>4. ASSUME NEW t \in Editors, EditTaskMd(t) PROVE ObjectiveHeaded(b, t)
  <2>1. /\ editing[t].on /\ UNCHANGED <<goal, mixed>> /\ editing' = [editing EXCEPT ![t] = NotEditing]
        /\ \/ taskMd' = [taskMd EXCEPT ![editing[t].board] = RewriteObjective(taskMd[editing[t].board], editing[t].text)]
           \/ taskMd' = taskMd /\ <<editing[t].board, NoName>> \in behind'
    BY <1>4 DEF EditTaskMd
  <2>2. editing[t].board \in Projects
    BY <2>1 DEF OnlyLaunched
  <2>3. QED
    BY <1>1, <2>1, <2>2 DEF ObjectiveHeaded
<1>5. ASSUME NEW t \in Editors, NEW c \in Projects, NEW g \in {<<"third">>, <<"third", "fourth">>, <<>>}, EditProject(t, c, g)
      PROVE  g \in Texts /\ ObjectiveEdited(b, t, c, g)
  <2>1. {<<"third">>, <<"third", "fourth">>, <<>>} \subseteq Texts
    BY DEF Texts, Words
  <2>2. /\ ~editing[t].on /\ taskMd' = taskMd /\ goal' = [goal EXCEPT ![c] = g]
        /\ editing' = IF g = <<>> THEN editing
                      ELSE [editing EXCEPT ![t] = [on |-> TRUE, board |-> c, text |-> g]]
    BY <1>5 DEF EditProject, UpdateProject
  <2>3. (\E o \in Editors : editing[o].on /\ editing[o].board = c) => <<c, NoName>> \in mixed'
    BY <1>5 DEF EditProject
  <2>4. goal'[b] = (IF c = b THEN g ELSE goal[b])
    BY <1>1, <2>2
  <2>5. g # <<>> => /\ editing'[t] = [on |-> TRUE, board |-> c, text |-> g]
                    /\ \A o \in Editors \ {t} : editing'[o] = editing[o]
    BY <1>1, <2>2
  <2>6. g = <<>> => editing' = editing
    BY <2>2
  <2>7. QED
    BY <2>1, <2>2, <2>3, <2>4, <2>5, <2>6 DEF ObjectiveEdited
<1>6. CASE HostRestarts
  BY <1>6 DEF HostRestarts, ObjectiveBroken
<1>7. CASE UNCHANGED <<editing, goal, taskMd>>
  BY <1>7 DEF ObjectiveStays
<1>8. CASE \E t \in Editors, c \in Projects, g \in {<<"third">>, <<"third", "fourth">>, <<>>} : EditProject(t, c, g)
  <2>1. PICK t \in Editors, c \in Projects, g \in {<<"third">>, <<"third", "fourth">>, <<>>} : EditProject(t, c, g)
    BY <1>8
  <2>2. g \in Texts /\ ObjectiveEdited(b, t, c, g)
    BY <1>5, <2>1
  <2>3. QED
    BY <2>2
<1>9. CASE \E t \in Editors : EditTaskMd(t)
  BY <1>4, <1>9
<1>10. CASE \E c \in Projects : LaunchSquad(c) \/ AddProject(c)
  BY <1>2, <1>3, <1>10
<1>11. QED
  BY <1>6, <1>7, <1>8, <1>9, <1>10, WhoActs

\* An edit that meets no other one writes the goal of the row to TASK.md.
LEMMA ObjectivesStep ==
  ASSUME FilesTypes, OnlyLaunched, Written, Objectives, [UserFilesNext]_userFilesVars
  PROVE  Objectives'
<1>0. editing \in [Editors -> EditRecord] /\ ~NotEditing.on /\ mixed \subseteq mixed'
  BY WhoActs DEF FilesTypes, NotEditing
<1> SUFFICES ASSUME NEW b \in Projects
             PROVE  /\ launch'[b].pc \in {"idle", "attach", "context", "squad"} => taskMd'[b] = NoGoal
                    /\ launch'[b].pc = "row" => taskMd'[b] \in {NoGoal, launch'[b].goal}
                    /\ <<b, NoName>> \notin mixed' => \A t \in Editors : editing'[t].on /\ editing'[t].board = b =>
                          /\ editing'[t].text = goal'[b]
                          /\ \A o \in Editors : editing'[o].on /\ editing'[o].board = b => o = t
  BY DEF Objectives
<1>1. /\ launch[b].pc \in {"idle", "attach", "context", "squad"} => taskMd[b] = NoGoal
      /\ launch[b].pc = "row" => taskMd[b] \in {NoGoal, launch[b].goal}
      /\ <<b, NoName>> \notin mixed' => \A t \in Editors : editing[t].on /\ editing[t].board = b =>
            /\ editing[t].text = goal[b]
            /\ \A o \in Editors : editing[o].on /\ editing[o].board = b => o = t
  BY <1>0 DEF Objectives
<1>2. \A t \in Editors : editing[t].on /\ editing[t].board = b => Launched(b)
  BY DEF OnlyLaunched
<1>3. ~Launched(b) => taskMd'[b] = taskMd[b] \/ (LaunchSquad(b) /\ launch[b].pc = "squad" /\ taskMd'[b] \in {taskMd[b], launch[b].goal})
  <2>1. ASSUME ~Launched(b), NEW t \in Editors, ObjectiveHeaded(b, t) PROVE taskMd'[b] = taskMd[b]
    BY <1>2, <2>1 DEF ObjectiveHeaded
  <2>2. ASSUME NEW t \in Editors, NEW c \in Projects, NEW g \in Texts, ObjectiveEdited(b, t, c, g)
        PROVE  taskMd'[b] = taskMd[b]
    BY <2>2 DEF ObjectiveEdited
  <2>3. ObjectiveStays(b) \/ ObjectiveBroken \/ ObjectiveOfRow(b) => taskMd'[b] = taskMd[b]
    BY DEF ObjectiveStays, ObjectiveBroken, ObjectiveOfRow
  <2>4. QED
    <3>1. ASSUME ObjectiveSeeded(b)
          PROVE  LaunchSquad(b) /\ launch[b].pc = "squad" /\ taskMd'[b] \in {taskMd[b], launch[b].goal}
      BY <3>1 DEF ObjectiveSeeded
    <3>2. QED
      BY <2>1, <2>2, <2>3, <3>1, ObjectivesGo, Zenon
<1>4. launch'[b].pc \in {"idle", "attach", "context", "squad"} => taskMd'[b] = NoGoal
  <2>1. CASE launch'[b].pc \in {"idle", "attach", "context", "squad"}
    <3>1. launch[b].pc \in {"idle", "attach", "context", "squad"}
      BY <2>1, LaunchesGo DEF LaunchGoes, Begins, Attaches, TakesContext, MovesOn
    <3>2. ~LaunchSquad(b)
      <4>1. ASSUME LaunchSquad(b) PROVE launch'[b].pc = "row"
        BY <4>1, LaunchMoves DEF LaunchSquad, FilesTypes, Phases
      <4>2. QED
        BY <2>1, <4>1
    <3>3. QED
      BY <1>1, <1>3, <3>1, <3>2 DEF Launched
  <2>2. QED
    BY <2>1
<1>5. launch'[b].pc = "row" => taskMd'[b] \in {NoGoal, launch'[b].goal}
  <2>1. CASE launch'[b].pc = "row"
    <3>1. launch[b].pc \in {"squad", "row"} /\ launch'[b].goal = launch[b].goal
      BY <2>1, LaunchesGo DEF LaunchGoes, Begins, Attaches, TakesContext, MovesOn
    <3>2. QED
      BY <1>1, <1>3, <3>1 DEF Launched
  <2>2. QED
    BY <2>1
<1>6. ASSUME <<b, NoName>> \notin mixed', NEW t \in Editors, editing'[t].on, editing'[t].board = b
      PROVE  /\ editing'[t].text = goal'[b]
             /\ \A o \in Editors : editing'[o].on /\ editing'[o].board = b => o = t
  <2>1. CASE goal'[b] = goal[b] /\ \A o \in Editors : editing'[o] = editing[o] \/ ~editing'[o].on
    BY <1>1, <1>6, <2>1
  <2>2. CASE HostRestarts
    BY <1>0, <1>6, <2>2 DEF HostRestarts
  <2>3. CASE AddProject(b) /\ launch[b].pc = "row" /\ editing' = editing
    BY <1>2, <1>6, <2>3 DEF Launched
  <2>4. ASSUME NEW e \in Editors, NEW c \in Projects, NEW g \in Texts, ObjectiveEdited(b, e, c, g)
        PROVE  /\ editing'[t].text = goal'[b]
               /\ \A o \in Editors : editing'[o].on /\ editing'[o].board = b => o = t
    <3>1. CASE c = b
      <4>1. \A o \in Editors : ~(editing[o].on /\ editing[o].board = b)
        BY <1>6, <2>4, <3>1 DEF ObjectiveEdited
      <4>2. \A o \in Editors : editing'[o] = editing[o] \/ (o = e /\ editing'[o] = [on |-> TRUE, board |-> c, text |-> g])
        <5>1. \/ editing' = editing
              \/ /\ editing'[e] = [on |-> TRUE, board |-> c, text |-> g]
                 /\ \A o \in Editors \ {e} : editing'[o] = editing[o]
          BY <2>4, Zenon DEF ObjectiveEdited
        <5>2. QED
          BY <5>1
      <4>3. t = e /\ editing'[t] = [on |-> TRUE, board |-> c, text |-> g]
        BY <1>6, <4>1, <4>2
      <4>4. QED
        BY <2>4, <3>1, <4>1, <4>2, <4>3 DEF ObjectiveEdited
    <3>2. CASE c # b
      <4>1. \A o \in Editors : editing'[o] = editing[o] \/ editing'[o].board # b
        BY <2>4, <3>2 DEF ObjectiveEdited
      <4>2. QED
        BY <1>1, <1>6, <2>4, <3>2, <4>1 DEF ObjectiveEdited
    <3>3. QED
      BY <3>1, <3>2
  <2>5. ASSUME NEW e \in Editors, ObjectiveHeaded(b, e)
        PROVE  goal'[b] = goal[b] /\ \A o \in Editors : editing'[o] = editing[o] \/ ~editing'[o].on
    BY <1>0, <2>5 DEF ObjectiveHeaded
  <2>6. CASE ObjectiveStays(b) \/ ObjectiveSeeded(b)
    BY <2>1, <2>6 DEF ObjectiveStays, ObjectiveSeeded
  <2>7. QED
    BY <2>1, <2>2, <2>3, <2>4, <2>5, <2>6, ObjectivesGo DEF ObjectiveBroken, ObjectiveOfRow
<1>7. QED
  BY <1>4, <1>5, <1>6

\* A TASK.md that an edit did not reach is behind until a later one does.
LEMMA BehindStays ==
  ASSUME FilesTypes, OnlyLaunched, [UserFilesNext]_userFilesVars, NEW b \in Projects, <<b, NoName>> \in behind,
         \A t \in Editors : ~(editing[t].on /\ editing[t].board = b)
  PROVE  <<b, NoName>> \in behind'
<1>0. NoName \notin FileNames
  BY NamesAssumption DEF NoName
<1>1. CASE MirrorUpload
  BY <1>0, <1>1 DEF MirrorUpload, OnlyLaunched
<1>2. CASE DeleteCopy
  BY <1>0, <1>2 DEF DeleteCopy, OnlyLaunched
<1>3. CASE \E c \in Projects : LaunchSquad(c)
  BY <1>0, <1>3 DEF LaunchSquad, SeedAttachments
<1>4. CASE \E t \in Editors : EditTaskMd(t)
  BY <1>4 DEF EditTaskMd
<1>5. QED
  BY <1>1, <1>2, <1>3, <1>4, WhoActs

\* TASK.md begins with the goal of the row once the edits are done.
LEMMA ObjectiveStep ==
  ASSUME FilesTypes, OnlyLaunched, Written, Objectives, ObjectiveIsTheGoal, [UserFilesNext]_userFilesVars
  PROVE  ObjectiveIsTheGoal'
<1>0. /\ editing \in [Editors -> EditRecord] /\ goal \in [Projects -> Texts] /\ taskMd \in [Projects -> Texts]
      /\ mixed \subseteq mixed' /\ \A b \in Projects : taskMd[b] # <<>>
  BY WhoActs DEF FilesTypes, Written
<1> DEFINE Edits(b) == \E t \in Editors : editing[t].on /\ editing[t].board = b
           Edits2(b) == \E t \in Editors : editing'[t].on /\ editing'[t].board = b
           Heads(md, g) == md = NoGoal \/ SubSeq(md, 1, Len(g)) = g
<1> SUFFICES ASSUME NEW b \in Projects, Launched(b)', <<b, NoName>> \notin mixed' \cup behind', ~Edits2(b)
             PROVE  Heads(taskMd'[b], goal'[b])
  BY DEF ObjectiveIsTheGoal
<1>1. Launched(b) /\ ~Edits(b) => Heads(taskMd[b], goal[b])
  <2>1. ~Edits(b) => <<b, NoName>> \notin behind
    BY BehindStays
  <2>2. QED
    BY <1>0, <2>1 DEF ObjectiveIsTheGoal
<1>2. Launched(b) \/ AddProject(b)
  BY LaunchesGo DEF LaunchGoes, Begins, Attaches, TakesContext, MovesOn, Launched
<1>3. ~LaunchSquad(b)
  <2>1. ASSUME LaunchSquad(b) PROVE launch'[b].pc = "row"
    BY <2>1, LaunchMoves DEF LaunchSquad, FilesTypes, Phases
  <2>2. QED
    BY <2>1 DEF Launched
<1>4. CASE AddProject(b)
  <2>1. launch[b].pc = "row" /\ goal'[b] = launch[b].goal /\ taskMd' = taskMd /\ launch[b].goal \in Texts
    BY <1>0, <1>4 DEF AddProject, FilesTypes, LaunchRecord
  <2>2. taskMd[b] \in {NoGoal, launch[b].goal}
    BY <2>1 DEF Objectives
  <2>3. SubSeq(launch[b].goal, 1, Len(launch[b].goal)) = launch[b].goal
    BY <2>1, SubSeqFull DEF Texts
  <2>4. QED
    BY <2>1, <2>2, <2>3
<1>5. CASE ObjectiveBroken
  <2>1. ~Edits(b)
    BY <1>5 DEF ObjectiveBroken, HostRestarts
  <2>2. Launched(b)
    <3>1. launch'[b] = IF InFlight(b) THEN [launch[b] EXCEPT !.pc = "failed", !.left = {}] ELSE launch[b]
      BY <1>5 DEF ObjectiveBroken, HostRestarts
    <3>2. QED
      BY <3>1 DEF Launched, FilesTypes, LaunchRecord
  <2>3. QED
    BY <1>1, <1>5, <2>1, <2>2 DEF ObjectiveBroken
<1>6. ASSUME NEW t \in Editors, Launched(b), ObjectiveHeaded(b, t) PROVE Heads(taskMd'[b], goal'[b])
  <2>1. CASE editing[t].board = b
    <3>1. editing[t].text = goal[b] /\ editing[t].text # <<>>
      BY <1>0, <1>6, <2>1 DEF Objectives, Written, ObjectiveHeaded
    <3>2. SubSeq(RewriteObjective(taskMd[b], editing[t].text), 1, Len(editing[t].text)) = editing[t].text
      BY <1>0, <3>1, RewriteHeads
    <3>3. QED
      BY <1>6, <2>1, <3>1, <3>2 DEF ObjectiveHeaded
  <2>2. CASE editing[t].board # b
    <3>1. ~Edits(b)
      BY <1>0, <1>6, <2>2 DEF ObjectiveHeaded
    <3>2. QED
      BY <1>1, <1>6, <2>2, <3>1 DEF ObjectiveHeaded
  <2>3. QED
    BY <2>1, <2>2
<1>7. ASSUME NEW t \in Editors, NEW c \in Projects, NEW g \in Texts, Launched(b), ObjectiveEdited(b, t, c, g)
      PROVE  Heads(taskMd'[b], goal'[b])
  <2>1. ~(c = b /\ g # <<>>)
    BY <1>7 DEF ObjectiveEdited
  <2>2. CASE c = b /\ g = <<>>
    <3>1. SubSeq(taskMd[b], 1, 0) = <<>>
      BY SubSeqEmpty
    <3>2. Len(<<>>) = 0
      OBVIOUS
    <3>3. QED
      BY <1>7, <2>2, <3>1, <3>2 DEF ObjectiveEdited
  <2>3. CASE c # b
    <3>1. ~Edits(b)
      BY <1>7, <2>3 DEF ObjectiveEdited
    <3>2. QED
      BY <1>1, <1>7, <2>3, <3>1 DEF ObjectiveEdited
  <2>4. QED
    BY <2>1, <2>2, <2>3
<1>8. CASE Launched(b) /\ ObjectiveStays(b)
  BY <1>1, <1>8 DEF ObjectiveStays
<1>9. QED
  BY <1>2, <1>3, <1>4, <1>5, <1>6, <1>7, <1>8, ObjectivesGo DEF ObjectiveSeeded, ObjectiveOfRow

\* An analysis leaves the cache with the launch that takes it.
LEMMA ContextsStep ==
  ASSUME FilesTypes, Contexts, [UserFilesNext]_userFilesVars
  PROVE  Contexts'
<1>0. /\ cache.id \in Nat /\ numbers.analysis \in Nat /\ cache.id <= numbers.analysis
      /\ \A b \in Projects : launch[b].context \in Nat /\ launch[b].context <= numbers.analysis
      /\ \A b \in Projects : launch[b].context # 0 => launch[b].context # cache.id
      /\ \A b, c \in Projects : b # c /\ launch[b].context # 0 => launch[b].context # launch[c].context
  BY DEF FilesTypes, CacheType, NumbersType, LaunchRecord, Contexts, ContextTakenOnce
<1>1. ASSUME NEW b \in Projects, TakeContext(b) PROVE Contexts'
  <2>1. /\ numbers' = numbers /\ \A c \in Projects \ {b} : launch'[c] = launch[c]
        /\ launch'[b].context = (IF cache.stale THEN 0 ELSE cache.id)
        /\ cache'.id = (IF cache.stale THEN cache.id ELSE 0)
    BY <1>1 DEF TakeContext, FilesTypes, LaunchRecord
  <2>2. QED
    BY <1>0, <2>1 DEF Contexts, ContextTakenOnce
<1>2. CASE \A b \in Projects : ~TakeContext(b)
  <2>1. \A b \in Projects : launch'[b].context \in {0, launch[b].context}
    BY <1>2, LaunchesGo DEF LaunchGoes, Begins, Attaches, MovesOn, TakesContext
  <2>2. \/ cache'.id \in {0, cache.id} /\ numbers'.analysis = numbers.analysis
        \/ cache'.id = numbers.analysis + 1 /\ numbers'.analysis = numbers.analysis + 1
    <3>1. CASE AnalyzeProject
      BY <3>1 DEF AnalyzeProject, FilesTypes, NumbersType
    <3>2. CASE AnalysisAges
      BY <3>2 DEF AnalysisAges, FilesTypes, CacheType
    <3>3. CASE HostRestarts
      BY <3>3 DEF HostRestarts
    <3>4. QED
      BY <1>2, <3>1, <3>2, <3>3, WhoActs
  <2>3. QED
    BY <1>0, <2>1, <2>2 DEF Contexts, ContextTakenOnce
<1>3. QED
  BY <1>1, <1>2

\* Whatever a user stages, launches, uploads, removes and edits, wherever the host
\* restarts and whichever second write or removal fails: a staged file goes to one
\* board and none is lost on the way, a copy in the workspace is the attachment,
\* TASK.md begins with the goal of the row, and an analysis serves one launch, but
\* for what the histories name file by file: uploads that two launches met or one
\* could not remove or save, files and goals that two requests changed at once, and
\* those of which the last request wrote one place only (api_create_project,
\* save_attachment, delete_project_file, api_edit_project and _analysis_cache).
THEOREM FilesSafe == UserFilesSpec => []FilesKept
<1>1. FilesInv /\ [UserFilesNext]_userFilesVars => FilesInv'
  <2> SUFFICES ASSUME FilesInv, [UserFilesNext]_userFilesVars PROVE FilesInv'
    OBVIOUS
  <2>1. /\ FilesTypes /\ OnlyLaunched /\ Written /\ Numbered /\ Consumed /\ StagedIsKept /\ AttachedOnce /\ InHand
        /\ CopiesAgree /\ Objectives /\ ObjectiveIsTheGoal /\ Contexts
    BY DEF FilesInv
  <2>2. FilesTypes' /\ OnlyLaunched' /\ Written' /\ Numbered'
    BY <2>1, FilesTypeStep, OnlyLaunchedStep, NumberedStep
  <2>3. Consumed' /\ StagedIsKept' /\ AttachedOnce'
    BY <2>1, ConsumedStep, AttachedOnceStep
  <2>4. InHand' /\ CopiesAgree'
    BY <2>1, CopiesStep
  <2>5. Objectives' /\ ObjectiveIsTheGoal' /\ Contexts'
    BY <2>1, ObjectivesStep, ObjectiveStep, ContextsStep
  <2>6. QED
    BY <2>2, <2>3, <2>4, <2>5 DEF FilesInv
<1>2. QED
  BY <1>1, FilesFirst, FilesMeant, PTL DEF UserFilesSpec
=============================================================================
