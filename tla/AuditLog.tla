------------------------------ MODULE AuditLog ------------------------------
(***************************************************************************)
(* The audit trail (audit.py): every request appends a record to           *)
(* audit.jsonl, and every minute one of them rotates the file when it has  *)
(* grown too big.  The threads share the lock of the files, but the check  *)
(* of the clock and of the size is outside it.                             *)
(***************************************************************************)
EXTENDS Integers, Sequences, FiniteSets

CONSTANTS
    Writers,        \* request threads
    FileLimit,      \* FLUXSWARM_AUDIT_MAX_MB, in records
    MaxFiles,       \* FLUXSWARM_AUDIT_MAX_FILES
    MaxRecords      \* bound: records ever written

ASSUME AuditAssumption ==
    FileLimit \in Nat \ {0} /\ MaxFiles \in Nat \ {0, 1} /\ MaxRecords \in Nat

VARIABLES
    trail,      \* audit.jsonl: the records in it, numbered as they came
    numbered,   \* audit.jsonl.1 (the newest) and so on; a missing file is empty
    zipped,     \* audit.jsonl.1.gz and so on
    written,    \* records so far
    due,        \* a minute has gone by since the last check
    writer      \* where each thread is

auditVars == <<trail, numbered, zipped, written, due, writer>>

Slots == 1..MaxFiles

AuditInit ==
    /\ trail = {} /\ numbered = [i \in Slots |-> {}] /\ zipped = [i \in Slots |-> {}]
    /\ written = 0 /\ due = TRUE
    /\ writer = [w \in Writers |-> "idle"]

WriterGoes(w, from, to) == writer[w] = from /\ writer' = [writer EXCEPT ![w] = to]

AppendRecord(w) ==
    /\ written < MaxRecords
    /\ WriterGoes(w, "idle", "clock")
    /\ written' = written + 1 /\ trail' = trail \cup {written'}
    /\ UNCHANGED <<numbered, zipped, due>>

MinutePasses == ~due /\ due' = TRUE /\ UNCHANGED <<trail, numbered, zipped, written, writer>>

\* _maybe_rotate reads the clock of the last check, and then sets it.
ReadClock(w) ==
    /\ WriterGoes(w, "clock", IF due THEN "set clock" ELSE "idle")
    /\ UNCHANGED <<trail, numbered, zipped, written, due>>

SetClock(w) ==
    /\ WriterGoes(w, "set clock", "size") /\ due' = FALSE
    /\ UNCHANGED <<trail, numbered, zipped, written>>

CheckSize(w) ==
    /\ WriterGoes(w, "size", IF Cardinality(trail) >= FileLimit THEN "shift" ELSE "gzip")
    /\ UNCHANGED <<trail, numbered, zipped, written, due>>

\* Mutant: the overflow file stays, and a file is not renamed onto another.
ShiftOntoNone(w) ==
    /\ WriterGoes(w, "shift", IF trail = {} THEN "idle" ELSE "gzip")
    /\ numbered' = IF numbered[MaxFiles] # {} THEN [numbered EXCEPT ![1] = trail]
                   ELSE [i \in Slots |-> IF i = 1 THEN trail ELSE numbered[i - 1]]
    /\ trail' = {}
    /\ UNCHANGED <<zipped, written, due>>

\* Under the lock: the overflow file goes, every other moves up one, and the trail
\* becomes .1.  When another thread has just rotated there is no trail, and the
\* rename that fails ends the call.
Shift(w) ==
    /\ WriterGoes(w, "shift", IF trail = {} THEN "idle" ELSE "gzip")
    /\ numbered' = [i \in Slots |-> IF i = 1 THEN trail ELSE numbered[i - 1]]
    /\ trail' = {}
    /\ UNCHANGED <<zipped, written, due>>

\* Under the lock: the files of a week ago, which are the oldest, are compressed
\* where they are, over what was compressed there before.
Gzip(w) ==
    /\ WriterGoes(w, "gzip", "idle")
    /\ \E from \in 1..(MaxFiles + 1) :
           LET old == {i \in Slots : i >= from /\ numbered[i] # {}}
           IN /\ zipped' = [i \in Slots |-> IF i \in old THEN numbered[i] ELSE zipped[i]]
              /\ numbered' = [i \in Slots |-> IF i \in old THEN {} ELSE numbered[i]]
    /\ UNCHANGED <<trail, written, due>>

AuditNext ==
    \/ MinutePasses
    \/ \E w \in Writers : AppendRecord(w) \/ ReadClock(w) \/ SetClock(w) \/ CheckSize(w) \/ Shift(w) \/ Gzip(w)

AuditSpec == AuditInit /\ [][AuditNext]_auditVars

-----------------------------------------------------------------------------
(* Properties. *)

Plain == trail \cup UNION {numbered[i] : i \in Slots}
Lost == (1..written) \ (Plain \cup UNION {zipped[i] : i \in Slots})

AuditTypeOK ==
    /\ trail \in SUBSET (1..written) /\ numbered \in [Slots -> SUBSET (1..written)]
    /\ zipped \in [Slots -> SUBSET (1..written)] /\ due \in BOOLEAN
    /\ writer \in [Writers -> {"idle", "clock", "set clock", "size", "shift", "gzip"}]

\* Rotating, in two threads at once as well, keeps the trail in order, newest
\* first, with every record in one place, and what it drops is older than all
\* that is left uncompressed.
TrailKept ==
    /\ AuditTypeOK
    /\ \A r \in Lost, s \in Plain : r < s
    /\ \A i \in Slots : /\ \A r \in numbered[i], s \in trail : r < s
                        /\ \A j \in 1..(i - 1) : \A r \in numbered[i], s \in numbered[j] : r < s
                        /\ zipped[i] # {} => /\ zipped[i] \cap Plain = {}
                                             /\ \A j \in Slots \ {i} : zipped[i] \cap zipped[j] = {}
=============================================================================
