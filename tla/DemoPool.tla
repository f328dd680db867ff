------------------------------ MODULE DemoPool ------------------------------
(***************************************************************************)
(* The public demo (api_demo_launch): each request picks a provider of the *)
(* free pool through the circuit breakers, passes the quota gates, takes   *)
(* the next unit of the daily allowance, records the attempt in the usage  *)
(* ledger and leaves a background thread to build and drive the board.     *)
(*                                                                         *)
(* Requests run in threads of their own; they share the breakers, the      *)
(* rotation cursor, the rate limiter (in memory or in Redis), the daily    *)
(* bucket and the ledger.  A restart forgets the first two, and the third  *)
(* when it is in memory.                                                   *)
(***************************************************************************)
EXTENDS ProviderCircuit, FiniteSets, FiniteSetsExt

CONSTANTS
    Requests,       \* calls of POST /api/demo/launch
    Pool,           \* DEMO_PROVIDERS whose key is configured, in order
    FastSlot,       \* the entry get_demo_provider prefers
    RawNames,       \* DEMO_PROVIDERS as capacity_report reads them
    Responses,      \* what a probe may meet
    Ips,            \* client addresses
    IpOf,           \* the address a request comes from
    IpMax, GlobalMax, DailyCap,
    IpWindow, GlobalWindow,     \* in ticks
    DayLength,                  \* in ticks
    MaxRuntime, MaxTasks,       \* FLUXSWARM_BUDGET_MAX_RUNTIME_S, _MAX_TASKS
    PaidFallback,               \* an operator runtime may be used instead
    Global,         \* the key "demo:global" of the limiter
    MaxCrashes,     \* bound: process restarts
    MaxFaults       \* bound: ledger writes that raise

Providers == {Pool[i] : i \in DOMAIN Pool}
Keys == Ips \cup {Global}

ASSUME DemoAssumption ==
    /\ Pool \in Seq(Providers) /\ \A i, j \in DOMAIN Pool : Pool[i] = Pool[j] => i = j
    /\ Responses \subseteq Response
    /\ IpOf \in [Requests -> Ips] /\ Global \notin Ips /\ IsFiniteSet(Requests)
    /\ IpMax \in Nat /\ GlobalMax \in Nat /\ DailyCap \in Nat
    /\ IpWindow \in Nat \ {0} /\ GlobalWindow \in Nat \ {0} /\ DayLength \in Nat \ {0}
    /\ IpWindow <= GlobalWindow
    /\ MaxRuntime \in Int /\ MaxTasks \in Int /\ PaidFallback \in BOOLEAN
    /\ MaxCrashes \in Nat /\ MaxFaults \in Nat

VARIABLES
    backend,    \* which limiter was built: "memory" or "redis"
    up,         \* providers that never fail a probe
    circuit,    \* _breakers
    cursor,     \* _rotation of the pool
    req,        \* where the thread of each request stands
    hits,       \* the limiter's counters
    usage,      \* demo_usage of "anon", for an even and an odd day
    day,        \* _today()
    dayLeft,    \* ticks until it changes
    rows,       \* provider_usage, by id
    second,     \* the slug taken in the current second, if any
    used,       \* how much of each bound is used up
    wait,       \* history: the back-off each provider's last result asked for
    passed,     \* history: ticks since a request passed each gate
    granted     \* history: the day a request was granted a unit of

picking == <<circuit, cursor, wait>>
quotas == <<hits, usage, passed, granted>>
calendar == <<day, dayLeft>>
ledger == <<rows, second>>
config == <<backend, up>>
vars == <<backend, up, circuit, cursor, req, hits, usage, day, dayLeft, rows,
          second, used, wait, passed, granted>>

NoSlug == "none"
Days == {"even", "odd"}
Never == GlobalWindow       \* an age past every window
Forever == -1               \* a back-off that only a recorded result ends

States == {"idle", "visit", "probe", "ip", "ip ttl", "global", "global ttl", "bump", "count",
           "record", "build", "ok", "failed", "refused", "dead"}

Locals ==
    [pc : States,
     list : {"fast", "pool"},   \* which entries pick_rotation was called with
     start : Nat,               \* index of the first entry to visit
     seen : Nat,                \* entries visited so far
     broke : BOOLEAN,           \* the loop stopped at a bad model pin
     paid : BOOLEAN,            \* runtime_source = "paid_fallback"
     day : Days \cup {NoSlug},   \* the bucket bump_demo_usage incremented
     slug : Requests \cup {NoSlug}]

FreshLocals ==
    [pc |-> "idle", list |-> "fast", start |-> 0, seen |-> 0, broke |-> FALSE, paid |-> FALSE,
     day |-> NoSlug, slug |-> NoSlug]

\* A counter holds what its backend keeps: the hits by age (memory), or a
\* number with the ticks its key has to live, 0 when it has no expiry (Redis).
Counter == [ages : [0..(GlobalWindow - 1) -> Nat], n : Nat, ttl : Nat]
FreshCounter == [ages |-> [a \in 0..(GlobalWindow - 1) |-> 0], n |-> 0, ttl |-> 0]

Row == [slug : Requests, ok : {"open", "ok", "failed"}]

TypeOK ==
    /\ backend \in {"memory", "redis"} /\ up \in SUBSET Providers
    /\ circuit \in [Providers -> Circuit]
    /\ cursor \in Nat
    /\ req \in [Requests -> Locals]
    /\ hits \in [Keys -> Counter]
    /\ usage \in [Days -> Nat] /\ day \in Days /\ dayLeft \in 1..DayLength
    /\ rows \in Seq(Row)
    /\ second \in Requests \cup {NoSlug}
    /\ used \in [crash : Nat, fault : Nat]
    /\ wait \in [Providers -> Nat \cup {Forever}]
    /\ passed \in [Requests -> [{"ip", "global"} -> 0..Never]]
    /\ granted \in [Requests -> Days \cup {NoSlug}]

Init ==
    /\ backend \in {"memory", "redis"} /\ up \in SUBSET Providers
    /\ circuit = [p \in Providers |-> FreshCircuit]
    /\ cursor = 0
    /\ req = [r \in Requests |-> FreshLocals]
    /\ hits = [k \in Keys |-> FreshCounter]
    /\ usage = [d \in Days |-> 0] /\ day = "even" /\ dayLeft = DayLength
    /\ rows = <<>> /\ second = NoSlug
    /\ used = [crash |-> 0, fault |-> 0]
    /\ wait = [p \in Providers |-> 0]
    /\ passed = [r \in Requests |-> [g \in {"ip", "global"} |-> Never]]
    /\ granted = [r \in Requests |-> NoSlug]

Goto(r, pc) == req' = [req EXCEPT ![r].pc = pc]
Refuse(r) == req' = [req EXCEPT ![r] = [FreshLocals EXCEPT !.pc = "refused"]]

------------------------------------------------------------------------------
(* Picking a provider: get_demo_provider and pick_rotation. *)

Entries(list) == IF list = "fast" THEN <<FastSlot>> ELSE Pool

\* _next_index: the pool is walked from the cursor, which moves on by one.
Walk(r, list) ==
    /\ req' = [req EXCEPT ![r].pc = "visit", ![r].list = list, ![r].seen = 0, ![r].broke = FALSE,
                          ![r].start = IF list = "pool" THEN cursor ELSE 0]
    /\ cursor' = IF list = "pool" /\ Len(Pool) > 1 THEN (cursor + 1) % Len(Pool) ELSE cursor

At(r) ==
    LET entries == Entries(req[r].list)
    IN  entries[((req[r].start + req[r].seen) % Len(entries)) + 1]

\* Maintenance, an opted-out caller or a burst of one address turn a request
\* away before it reads any shared state.
TurnAway(r) ==
    /\ req[r].pc = "idle"
    /\ Refuse(r)
    /\ UNCHANGED <<config, picking, quotas, calendar, ledger, used>>

Arrive(r) ==
    /\ req[r].pc = "idle"
    /\ Walk(r, IF FastSlot \in Providers THEN "fast" ELSE "pool")
    /\ UNCHANGED <<config, circuit, wait, quotas, calendar, ledger, used>>

\* Mutant: the first entry decides.
MoreFirst(r) == req[r].seen = 0

More(r) == req[r].seen < Len(Entries(req[r].list)) /\ ~req[r].broke

\* An entry in its back-off is passed over without a probe.
Skip(r) ==
    /\ req[r].pc = "visit" /\ More(r)
    /\ ~Pickable(circuit[At(r)])
    /\ req' = [req EXCEPT ![r].seen = @ + 1]
    /\ UNCHANGED <<config, picking, quotas, calendar, ledger, used>>

Probe(r) ==
    /\ req[r].pc = "visit" /\ More(r)
    /\ Pickable(circuit[At(r)])
    /\ circuit' = [circuit EXCEPT ![At(r)] = Picked(@)]
    /\ Goto(r, "probe")
    /\ UNCHANGED <<config, cursor, wait, quotas, calendar, ledger, used>>

BudgetGate(runtime, tasks) ==
    /\ MaxRuntime > 0 /\ MaxTasks > 0
    /\ runtime >= 0 /\ runtime <= MaxRuntime
    /\ tasks >= 0 /\ tasks <= MaxTasks

\* After a runtime is found the budget gate comes before every quota.
Resolved(r, paid) ==
    IF BudgetGate(0, 0)
    THEN req' = [req EXCEPT ![r] = [FreshLocals EXCEPT !.pc = "ip", !.paid = paid]]
    ELSE Refuse(r)

ProbeSucceeds(r) ==
    /\ req[r].pc = "probe"
    /\ \E resp \in Responses : CheckHealth(resp).status = "success"
    /\ circuit' = [circuit EXCEPT ![At(r)] = RecordSuccess(@)]
    /\ wait' = [wait EXCEPT ![At(r)] = 0]
    /\ Resolved(r, FALSE)
    /\ UNCHANGED <<config, cursor, quotas, calendar, ledger, used>>

\* The back-off a failure asks for, counted from its record.
BackoffFor(c, error) ==
    CASE error = "auth_error" -> AuthBackoff
      [] error \in Transient -> IF OneMoreFail(c) = Fails THEN OpenFor ELSE Cooldown
      [] error = "model_unavailable" -> Forever
      [] OTHER -> 0

ProbeFails(r) ==
    /\ req[r].pc = "probe"
    /\ At(r) \notin up
    /\ \E resp \in Responses :
        LET health == CheckHealth(resp)
            error == ErrorFromHealth(health)
        IN  /\ health.status # "success"
            /\ circuit' = [circuit EXCEPT ![At(r)] = RecordFailure(@, error)]
            /\ wait' = [wait EXCEPT ![At(r)] = BackoffFor(circuit[At(r)], error)]
            /\ req' = [req EXCEPT ![r].pc = "visit", ![r].seen = @ + 1,
                                  ![r].broke = (error = "model_unavailable")]
    /\ UNCHANGED <<config, cursor, quotas, calendar, ledger, used>>

\* capacity_report is handed the raw names of the pool: the breaker of a name
\* that probes use under another key is a fresh one.
Seen(name) == IF name \in Providers THEN circuit[name] ELSE FreshCircuit

CapacityReport(names) ==
    LET healthy == {n \in names : Seen(n).state = "healthy"}
    IN  CASE names = {} -> "exhausted"
          [] healthy = {} -> "degraded"
          [] Cardinality(healthy) = 1 /\ Cardinality(names) > 1 -> "limited"
          [] OTHER -> "available"

\* The fast slot is down: fall through to the whole pool.
FallThrough(r) ==
    /\ req[r].pc = "visit" /\ ~More(r)
    /\ req[r].list = "fast"
    /\ Walk(r, "pool")
    /\ UNCHANGED <<config, circuit, wait, quotas, calendar, ledger, used>>

PoolBlocked(r) ==
    /\ req[r].pc = "visit" /\ ~More(r)
    /\ req[r].list = "pool"
    /\ IF PaidFallback
       THEN Resolved(r, TRUE)
       ELSE Refuse(r)
    /\ UNCHANGED <<config, picking, quotas, calendar, ledger, used>>

------------------------------------------------------------------------------
(* The quota gates: limiter.check for the address, then for everyone. *)

KeyOf(r) == IF req[r].pc \in {"ip", "ip ttl"} THEN IpOf[r] ELSE Global
MaxOf(k) == IF k = Global THEN GlobalMax ELSE IpMax
WindowOf(k) == IF k = Global THEN GlobalWindow ELSE IpWindow
GateOf(k) == IF k = Global THEN "global" ELSE "ip"
After(k) == IF k = Global THEN "bump" ELSE "global"

Pass(r, k, n) ==
    IF n <= MaxOf(k)
    THEN /\ Goto(r, After(k))
         /\ passed' = [passed EXCEPT ![r][GateOf(k)] = 0]
    ELSE /\ Refuse(r)
         /\ UNCHANGED passed

\* The in-process limiter prunes, appends the hit (a refused one as well) and
\* counts under its lock.
Count(counter, k) == MapThenSumSet(LAMBDA a : counter.ages[a], 0..(WindowOf(k) - 1))

CheckMemory(r) ==
    LET k == KeyOf(r)
        hit == [hits[k] EXCEPT !.ages[0] = @ + 1]
    IN  /\ backend = "memory"
        /\ req[r].pc \in {"ip", "global"}
        /\ hits' = [hits EXCEPT ![k] = hit]
        /\ Pass(r, k, Count(hit, k))
        /\ UNCHANGED <<config, picking, usage, granted, calendar, ledger, used>>

\* In Redis the first hit of a window sets its expiry in a call of its own.
CheckIncr(r) ==
    LET k == KeyOf(r)
        n == hits[k].n + 1
    IN  /\ backend = "redis"
        /\ req[r].pc \in {"ip", "global"}
        /\ hits' = [hits EXCEPT ![k].n = n]
        /\ IF n = 1
           THEN Goto(r, IF k = Global THEN "global ttl" ELSE "ip ttl") /\ UNCHANGED passed
           ELSE Pass(r, k, n)
        /\ UNCHANGED <<config, picking, usage, granted, calendar, ledger, used>>

CheckExpire(r) ==
    LET k == KeyOf(r)
    IN  /\ req[r].pc \in {"ip ttl", "global ttl"}
        /\ hits' = [hits EXCEPT ![k].ttl = WindowOf(k)]
        /\ Pass(r, k, 1)
        /\ UNCHANGED <<config, picking, usage, granted, calendar, ledger, used>>

\* A Redis that cannot be reached refuses.
CheckUnreachable(r) ==
    /\ backend = "redis"
    /\ req[r].pc \in {"ip", "global", "ip ttl", "global ttl"}
    /\ used.fault < MaxFaults
    /\ used' = [used EXCEPT !.fault = @ + 1]
    /\ Refuse(r)
    /\ UNCHANGED <<config, picking, quotas, calendar, ledger>>

\* bump_demo_usage commits the increment and then reads its bucket back.
Bump(r) ==
    /\ req[r].pc = "bump"
    /\ usage' = [usage EXCEPT ![day] = @ + 1]
    /\ req' = [req EXCEPT ![r].pc = "count", ![r].day = day]
    /\ UNCHANGED <<config, picking, hits, passed, granted, calendar, ledger, used>>

\* Mutant: the count before the increment is compared.
ExceedsBefore(n) == n - 1 > DailyCap

Exceeds(n) == n > DailyCap

BumpRead(r) ==
    /\ req[r].pc = "count"
    /\ IF ~Exceeds(usage[req[r].day])
       THEN /\ req' = [req EXCEPT ![r].pc = "record", ![r].day = NoSlug]
            /\ granted' = [granted EXCEPT ![r] = req[r].day]
       ELSE Refuse(r) /\ UNCHANGED granted
    /\ UNCHANGED <<config, picking, hits, usage, passed, calendar, ledger, used>>

------------------------------------------------------------------------------
(* The launch, its ledger row and the background thread. *)

\* The slug is the current second: a launch in the second of the one before
\* it shares its slug.
SlugsNow(r) == {r, second} \ {NoSlug}

\* Recording the attempt is best-effort: a write that raises leaves no row.
Record(r) ==
    /\ req[r].pc = "record"
    /\ \E slug \in SlugsNow(r) :
        /\ req' = [req EXCEPT ![r].pc = "build", ![r].slug = slug]
        /\ second' = slug
        /\ \/ /\ rows' = Append(rows, [slug |-> slug, ok |-> "open"])
              /\ UNCHANGED used
           \/ /\ used.fault < MaxFaults
              /\ used' = [used EXCEPT !.fault = @ + 1]
              /\ UNCHANGED rows
    /\ UNCHANGED <<config, picking, quotas, calendar>>

\* update_provider_usage_outcome fills the latest open row of the slug.
OpenRows(slug) == {i \in DOMAIN rows : rows[i].slug = slug /\ rows[i].ok = "open"}

Outcome(slug, ok) ==
    IF OpenRows(slug) = {} THEN rows ELSE [rows EXCEPT ![Max(OpenRows(slug))].ok = ok]

\* launch_demo_profile raises.
BuildRaises(r) ==
    /\ req[r].pc = "build"
    /\ rows' = Outcome(req[r].slug, "failed")
    /\ Goto(r, "failed")
    /\ UNCHANGED <<config, picking, quotas, calendar, second, used>>

DriveConverges(r) ==
    /\ req[r].pc = "build"
    /\ rows' = Outcome(req[r].slug, "ok")
    /\ Goto(r, "ok")
    /\ UNCHANGED <<config, picking, quotas, calendar, second, used>>

\* A lane raises: the board shows the error, the ledger row stays open.
DriveRaises(r) ==
    /\ req[r].pc = "build"
    /\ Goto(r, "failed")
    /\ UNCHANGED <<config, picking, quotas, calendar, ledger, used>>

------------------------------------------------------------------------------
(* Time and restarts. *)

\* A tick outlasts a second; the limiter drops hits older than their window.
OlderCounter(counter) ==
    [ages |-> [a \in DOMAIN counter.ages |-> IF a = 0 THEN 0 ELSE counter.ages[a - 1]],
     n |-> IF counter.ttl = 1 THEN 0 ELSE counter.n,
     ttl |-> Less(counter.ttl)]

OtherDay == CHOOSE d \in Days : d # day

\* A new day has a bucket of its own; no request takes a whole day.
NewDay ==
    IF dayLeft > 1
    THEN dayLeft' = dayLeft - 1 /\ UNCHANGED <<day, usage, granted>>
    ELSE /\ \A r \in Requests : req[r].pc = "count" => req[r].day = day
         /\ day' = OtherDay
         /\ dayLeft' = DayLength
         /\ usage' = [usage EXCEPT ![OtherDay] = 0]
         /\ granted' = [r \in Requests |-> IF granted[r] = OtherDay THEN NoSlug ELSE granted[r]]

Tick ==
    /\ circuit' = [p \in Providers |-> Older(circuit[p])]
    /\ wait' = [p \in Providers |-> IF wait[p] = Forever THEN Forever ELSE Less(wait[p])]
    /\ hits' = [k \in Keys |-> OlderCounter(hits[k])]
    /\ passed' = [r \in Requests |-> [g \in DOMAIN passed[r] |->
                    IF passed[r][g] = Never THEN Never ELSE passed[r][g] + 1]]
    /\ NewDay
    /\ second' = NoSlug
    /\ UNCHANGED <<config, cursor, req, rows, used>>

\* The daily bucket and the ledger are in the database; breakers, cursor and
\* the in-process limiter are not.
CrashRestart ==
    /\ used.crash < MaxCrashes
    /\ used' = [used EXCEPT !.crash = @ + 1]
    /\ circuit' = [p \in Providers |-> FreshCircuit]
    /\ wait' = [p \in Providers |-> 0]
    /\ cursor' = 0
    /\ hits' = IF backend = "memory" THEN [k \in Keys |-> FreshCounter] ELSE hits
    /\ passed' = IF backend = "memory"
                 THEN [r \in Requests |-> [g \in DOMAIN passed[r] |-> Never]]
                 ELSE passed
    /\ req' = [r \in Requests |->
                IF req[r].pc \in {"idle", "ok", "failed", "refused"}
                THEN req[r] ELSE [FreshLocals EXCEPT !.pc = "dead", !.slug = req[r].slug]]
    /\ UNCHANGED <<config, usage, granted, calendar, ledger>>

Picking(r) ==
    \/ TurnAway(r) \/ Arrive(r) \/ Skip(r) \/ Probe(r) \/ ProbeSucceeds(r) \/ ProbeFails(r)
    \/ FallThrough(r) \/ PoolBlocked(r)

Gating(r) ==
    \/ CheckMemory(r) \/ CheckIncr(r) \/ CheckExpire(r) \/ CheckUnreachable(r)
    \/ Bump(r) \/ BumpRead(r)

Launching(r) == Record(r) \/ BuildRaises(r) \/ DriveConverges(r) \/ DriveRaises(r)

Next ==
    \/ \E r \in Requests : Picking(r) \/ Gating(r) \/ Launching(r)
    \/ Tick
    \/ CrashRestart

Spec == Init /\ [][Next]_vars

------------------------------------------------------------------------------
(* Properties. *)

\* No probe is sent to a provider inside the back-off that the last result
\* recorded for it asked for (cooldown, open breaker, auth back-off, or for
\* good after an unknown model), whichever thread recorded that result
\* (ProviderCircuit.pickable and record_failure).
BackoffHonoured ==
    [][\A r \in Requests :
        req[r].pc = "visit" /\ req'[r].pc = "probe" => wait[At(r)] = 0]_vars

\* While one provider of the pool answers every probe, no request is refused
\* for lack of providers and none is sent to the paid runtime, however the
\* others fail and the cursor moves; only a bad model pin may end the walk
\* early (pick_rotation, get_demo_provider).
HealthyServes ==
    [][\A r \in Requests :
        /\ ~req[r].broke /\ up # {}
        => /\ req[r].pc = "visit" => req'[r].pc # "refused"
           /\ req'[r].paid => req[r].paid]_vars

\* A day grants at most its cap, across workers that increment and read the
\* bucket in turns, and across restarts (bump_demo_usage).
DailyCapHolds == \A d \in Days : Cardinality({r \in Requests : granted[r] = d}) <= DailyCap

\* No more requests pass a gate than it allows within its window: any window
\* in memory, the one the key lives for in Redis (limiter.check).
Horizon(k) ==
    CASE backend = "memory" -> WindowOf(k)
      [] hits[k].ttl > 0 -> WindowOf(k) - hits[k].ttl + 1
      [] OTHER -> 0

QuotaHolds ==
    \A k \in Keys :
        Cardinality({r \in Requests : /\ k \in {IpOf[r], Global}
                                      /\ passed[r][GateOf(k)] < Horizon(k)}) <= MaxOf(k)

\* The usage ledger never reports more successes or failures of a slug than
\* drives ended that way, also when launches share a slug or lose their row
\* (record_provider_usage, update_provider_usage_outcome).
Ended(slug, pc) == Cardinality({r \in Requests : req[r].slug = slug /\ req[r].pc = pc})

LedgerNeverOverstates ==
    \A slug \in Requests : \A ok \in {"ok", "failed"} :
        Cardinality({i \in DOMAIN rows : rows[i] = [slug |-> slug, ok |-> ok]}) <= Ended(slug, ok)

\* No bound of the demo is passed and its ledger reports no outcome that was not.
PoolBounded == TypeOK /\ DailyCapHolds /\ QuotaHolds /\ LedgerNeverOverstates
=============================================================================
