------------------------------- MODULE MCHost -------------------------------
(***************************************************************************)
(* What runs on the host, on small instances: the server's lock, the       *)
(* sandbox, the vault, the audit trail, the files of a user and the        *)
(* sockets of a board.  They share no state, so a behaviour takes the      *)
(* steps of one of them only; "runtime" has no steps, and looks at every   *)
(* setting of the operator and the user.                                   *)
(***************************************************************************)
EXTENDS ServerLock, Sandbox, Vault, AuditLog, UserFiles, LiveView

CONSTANTS file1, file2, board1, board2

VARIABLE part

\* The providers of the users, the one tried first in front.
Preferred == <<"anthropic", "openrouter">>
MainProvider == CHOOSE v \in KeyProviders : TRUE
Fixed == [env |-> CHOOSE e \in OperatorEnv : TRUE, stored |-> {}, agreed |-> {}, pin |-> CHOOSE p \in Pins : TRUE]

Init ==
    /\ part \in {"lock", "runtime", "sandbox", "vault", "audit", "files", "live"}
    /\ LockInit /\ VaultInit /\ AuditInit /\ UserFilesInit /\ LiveInit
    /\ IF part = "runtime" THEN SandboxInit ELSE SandboxStart /\ conf = Fixed
    /\ part # "lock" => posix /\ multi = {}
    /\ users = <<CHOOSE p \in Persons : TRUE>>
    /\ part # "vault" => prod /\ ~moved /\ store = NoStore
    /\ part # "files" => thinHost

Next ==
    /\ UNCHANGED part
    /\ \/ part = "lock" /\ LockNext
          /\ UNCHANGED <<sandboxVars, vaultVars, auditVars, userFilesVars, liveVars>>
       \/ part = "sandbox" /\ SandboxNext
          /\ UNCHANGED <<lockVars, vaultVars, auditVars, userFilesVars, liveVars>>
       \/ part = "vault" /\ VaultNext
          /\ UNCHANGED <<lockVars, sandboxVars, auditVars, userFilesVars, liveVars>>
       \/ part = "audit" /\ AuditNext
          /\ UNCHANGED <<lockVars, sandboxVars, vaultVars, userFilesVars, liveVars>>
       \/ part = "files" /\ UserFilesNext
          /\ UNCHANGED <<lockVars, sandboxVars, vaultVars, auditVars, liveVars>>
       \/ part = "live" /\ LiveNext
          /\ UNCHANGED <<lockVars, sandboxVars, vaultVars, auditVars, userFilesVars>>

Spec == Init /\ [][Next]_<<part, lockVars, sandboxVars, vaultVars, auditVars, userFilesVars, liveVars>>

\* Among the files, what does not meet is explored apart: analyses, edits, and
\* uploads, whose two kinds do not meet either; the last upload is only asked for,
\* and one write at a time has failed.  In the vault, the second provider is the
\* first account's, until the second script, and a vault elsewhere sees two.
Corners ==
    /\ numbers.analysis > 0 => numbers.upload = 0 /\ numbers.edit = 0
    /\ numbers.edit > 0 => numbers.upload = 0
    /\ numbers.upload > 0 => \A p \in Projects : launch[p].goal \in {<<>>, <<"first">>}
    /\ numbers.upload + Cardinality(staging.left) < MaxUploads
    /\ (loop.on \/ removing.on) => ~staging.on /\ Present = {} /\ \A p \in Projects : ~InFlight(p)
    /\ behind # {} => Cardinality(behind) = 1 /\ \E p \in Projects : launch[p].pc = "idle"
    /\ \A x \in Stored(store) : x[2] # MainProvider => x[1] = 1 /\ runs <= 1
    /\ moved => runs <= 2
=============================================================================
