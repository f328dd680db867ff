------------------------------ MODULE Sandbox ------------------------------
(***************************************************************************)
(* Which runtime a launch is pinned to (hermes_client.py), and the life of *)
(* the container a hermes CLI call runs in when FLUXSWARM_DOCKER_DISPATCH  *)
(* is set (hermes_docker.py).  Several processes may dispatch one board.   *)
(***************************************************************************)
EXTENDS Integers, Sequences, FiniteSets

CONSTANTS
    Precedence,     \* _KEYED_PROVIDERS, in their order
    Dispatches,     \* calls of run_dispatch for one board
    RmRetries       \* FLUXSWARM_DOCKER_RM_RETRIES

Providers == {Precedence[i] : i \in DOMAIN Precedence}
Free == "openrouter"    \* the one provider with a default model of its own
None == "none"

ASSUME SandboxAssumption ==
    Precedence \in Seq(Providers) /\ None \notin Providers /\ RmRetries \in Nat \ {0}

-----------------------------------------------------------------------------
(* Runtimes.  A model is named after the provider it is for, or is the     *)
(* shared default.  The operator sets a default provider, a shared model,  *)
(* and a model for some providers.                                         *)

OperatorEnv == [provider : Providers \cup {None}, shared : BOOLEAN, own : SUBSET Providers]
Pins == [provider : Providers \cup {None}, model : {None, "pinned"}]
Runtime(model, provider) == [model |-> model, provider |-> provider]
ConfigError == Runtime(None, None)

\* Only the keys of providers whose terms the user has accepted, and that decrypt.
UserProviderKeys(stored, agreed) == stored \cap agreed

OperatorModelFor(env, p) ==
    CASE p \in env.own -> p
      [] p \notin env.own /\ env.shared -> "shared"
      [] p \notin env.own /\ ~env.shared -> IF p = Free THEN Free ELSE None

\* A runtime without a model is a configuration error.
Named(model, p) == IF model = None THEN ConfigError ELSE Runtime(model, p)

DefaultRuntime(env) ==
    IF env.provider = None THEN ConfigError ELSE Named(OperatorModelFor(env, env.provider), env.provider)

First(keys) ==
    Precedence[CHOOSE i \in DOMAIN Precedence :
                 Precedence[i] \in keys /\ \A j \in 1..(i - 1) : Precedence[j] \notin keys]

\* Mutant: the operator's default comes before the user's own keys.
ResolveLaunchRuntimeDefault(env, keys, pin) ==
    IF pin.provider # None
    THEN Named(IF pin.model # None THEN pin.model ELSE OperatorModelFor(env, pin.provider), pin.provider)
    ELSE IF keys = {} \/ env.provider # None THEN DefaultRuntime(env)
    ELSE Named(OperatorModelFor(env, First(keys)), First(keys))

ResolveLaunchRuntime(env, keys, pin) ==
    IF pin.provider # None
    THEN Named(IF pin.model # None THEN pin.model ELSE OperatorModelFor(env, pin.provider), pin.provider)
    ELSE IF keys = {} THEN DefaultRuntime(env)
    ELSE Named(OperatorModelFor(env, First(keys)), First(keys))

\* What the preflight probes: the runtime, and whose credential it presents.
PreflightProvider(env, keys) ==
    LET r == ResolveLaunchRuntime(env, keys, [provider |-> None, model |-> None])
    IN [runtime |-> r, credential |-> IF r.provider \in keys THEN "user" ELSE "operator"]

\* _run: the environment of a CLI call on the host, over that of the operator.
HostEnv(env, keys) ==
    [keys |-> keys, runtime |-> IF keys = {} THEN DefaultRuntime(env) ELSE ConfigError]

\* sandbox_env and its allow-list: nothing of the operator's but the default runtime.
SandboxEnv(env, keys) == [keys |-> keys, runtime |-> DefaultRuntime(env)]

-----------------------------------------------------------------------------
VARIABLES
    conf,       \* the operator's settings, the user's keys and terms, the pin
    call,       \* each run_dispatch: pc, tries of rm -f, what it reported
    container   \* each container: its state and the code it exited with

sandboxVars == <<conf, call, container>>

Idle == [pc |-> "idle", tries |-> 0, code |-> 0, timedOut |-> FALSE, outcome |-> None, copied |-> FALSE]

SandboxStart ==
    /\ call = [d \in Dispatches |-> Idle]
    /\ container = [d \in Dispatches |-> [state |-> "none", code |-> 0]]

SandboxInit ==
    /\ conf \in [env : OperatorEnv, stored : SUBSET Providers, agreed : SUBSET Providers, pin : Pins]
    /\ SandboxStart

\* The board's directory is missing: nothing has been started.
BoardMissing(d) ==
    /\ call[d].pc = "idle"
    /\ call' = [call EXCEPT ![d].pc = "raised"]
    /\ UNCHANGED <<conf, container>>

\* The lock handle is made but never acquired, so nobody waits for it.
RunDispatch(d) ==
    /\ call[d].pc = "idle"
    /\ call' = [call EXCEPT ![d].pc = "run"]
    /\ \/ container' = [container EXCEPT ![d].state = "running"]
       \/ container' = [container EXCEPT ![d] = [state |-> "gone", code |-> 125]]    \* docker refuses to run
    /\ UNCHANGED conf

\* The command in the container ends, and --rm removes the container.
ContainerExits(d) ==
    /\ container[d].state = "running"
    /\ \E code \in {0, 1, 124} : container' = [container EXCEPT ![d] = [state |-> "gone", code |-> code]]
    /\ UNCHANGED <<conf, call>>

\* docker run returns once the container is gone.
RunReturns(d) ==
    /\ call[d].pc = "run" /\ container[d].state = "gone"
    /\ call' = [call EXCEPT ![d] = [@ EXCEPT !.pc = "release", !.code = container[d].code,
                                             !.timedOut = (container[d].code = 124)]]
    /\ UNCHANGED <<conf, container>>

\* The docker client is killed at the deadline; its container goes on.
RunTimesOut(d) ==
    /\ call[d].pc = "run"
    /\ call' = [call EXCEPT ![d] = [@ EXCEPT !.pc = "remove", !.code = 124, !.timedOut = TRUE]]
    /\ UNCHANGED <<conf, container>>

\* One attempt of rm -f, which succeeds or is tried again a bounded number of times.
DockerRmF(d) ==
    /\ call[d].pc = "remove"
    /\ \/ /\ container' = [container EXCEPT ![d].state = "gone"]
          /\ call' = [call EXCEPT ![d].pc = "release"]
       \/ /\ call' = [call EXCEPT ![d].tries = @ + 1,
                                  ![d].pc = IF call[d].tries + 1 < RmRetries THEN "remove" ELSE "release"]
          /\ UNCHANGED container
    /\ UNCHANGED conf

\* Releasing what was not acquired does nothing.
ReleaseLock(d) ==
    /\ call[d].pc = "release"
    /\ call' = [call EXCEPT ![d].pc = IF call[d].timedOut THEN "report" ELSE "copy"]
    /\ UNCHANGED <<conf, container>>

\* docker cp needs the container, which --rm has removed.
CopyOutcomes(d) ==
    /\ call[d].pc = "copy"
    /\ call' = [call EXCEPT ![d].pc = "report", ![d].copied = (container[d].state = "running")]
    /\ UNCHANGED <<conf, container>>

Report(d) ==
    /\ call[d].pc = "report"
    /\ call' = [call EXCEPT ![d].pc = "returned",
                            ![d].outcome = CASE call[d].timedOut -> "timed_out"
                                             [] ~call[d].timedOut /\ call[d].code = 0 -> "ok"
                                             [] ~call[d].timedOut /\ call[d].code # 0 -> "error"]
    /\ UNCHANGED <<conf, container>>

\* The backend dies; what it started goes on.
DispatcherDies(d) ==
    /\ call[d].pc \in {"run", "remove", "release", "copy", "report"}
    /\ call' = [call EXCEPT ![d].pc = "died"]
    /\ UNCHANGED <<conf, container>>

SandboxNext ==
    \E d \in Dispatches :
        \/ BoardMissing(d) \/ RunDispatch(d) \/ ContainerExits(d) \/ RunReturns(d) \/ RunTimesOut(d)
        \/ DockerRmF(d) \/ ReleaseLock(d) \/ CopyOutcomes(d) \/ Report(d) \/ DispatcherDies(d)

SandboxSpec == SandboxInit /\ [][SandboxNext]_sandboxVars

-----------------------------------------------------------------------------
(* Properties. *)

SandboxTypeOK ==
    /\ call \in [Dispatches -> [pc : {"idle", "raised", "run", "remove", "release", "copy", "report",
                                      "returned", "died"},
                                tries : 0..RmRetries, code : {0, 1, 124, 125}, timedOut : BOOLEAN,
                                outcome : {None, "ok", "error", "timed_out"}, copied : BOOLEAN]]
    /\ container \in [Dispatches -> [state : {"none", "running", "gone"}, code : {0, 1, 124, 125}]]

Keys == UserProviderKeys(conf.stored, conf.agreed)

\* A dispatch that has returned leaves no container behind, unless docker refused
\* to remove it every time, and it reports what the container really did.
ContainerGone ==
    \A d \in Dispatches : call[d].pc = "returned" =>
        /\ container[d].state = "running" => call[d].tries = RmRetries
        /\ call[d].outcome = "ok" => container[d] = [state |-> "gone", code |-> 0]
        /\ call[d].outcome = "error" => container[d].state = "gone"

\* The user pays for what the user brings: without a pin, a launch with keys runs
\* on a provider whose key and terms the user has given, it is that key the
\* preflight tries, and no launch is pinned without a model.
UserPaysOwnKeys ==
    LET r == ResolveLaunchRuntime(conf.env, Keys, conf.pin)
    IN /\ (r.model = None) = (r.provider = None)
       /\ Keys # {} /\ conf.pin.provider = None /\ r # ConfigError =>
              /\ r.provider \in conf.stored \cap conf.agreed
              /\ PreflightProvider(conf.env, Keys).credential = "user"
              /\ r.provider \in HostEnv(conf.env, Keys).keys \cap SandboxEnv(conf.env, Keys).keys

\* What a dispatch leaves behind and what it was started with, together.
SandboxKept == SandboxTypeOK /\ ContainerGone /\ UserPaysOwnKeys
=============================================================================
