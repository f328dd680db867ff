----------------------------- MODULE PoolProofs -----------------------------
(***************************************************************************)
(* What holds of the demo's provider pool, its quotas and its ledger,      *)
(* whatever the numbers of providers, addresses and requests, the limits,  *)
(* the windows, the back-offs and the answers of the probes.               *)
(***************************************************************************)
EXTENDS DemoPool, FiniteSums, TLAPS

USE DemoAssumption, CircuitAssumption

-----------------------------------------------------------------------------
(* The walk over the pool.  The cursor and the start of a walk are indexes  *)
(* of it, and an entry the walk passed over may fail a probe.               *)

Size == Len(Pool)
Slot(start, k) == ((start + k) % Size) + 1

CursorInv == Size > 0 => cursor < Size

WalkAt(r) ==
    req[r].pc \in {"visit", "probe"} =>
        /\ req[r].list = "fast" => FastSlot \in Providers
        /\ req[r].list = "pool" /\ Size > 0 => req[r].start < Size
        /\ req[r].list = "pool" => \A k \in 0..(req[r].seen - 1) : Pool[Slot(req[r].start, k)] \notin up
        /\ req[r].pc = "probe" => req[r].seen < Len(Entries(req[r].list))

WalkInv == CursorInv /\ \A r \in Requests : WalkAt(r)

\* A provider that answers every probe stays healthy.
UpInv == \A p \in up : circuit[p].state = "healthy"

\* The back-off that is left is the one the breaker keeps.
BackAt(p) ==
    CASE circuit[p].state = "disabled" -> TRUE
      [] circuit[p].state \in {"auth_error", "exhausted"} -> wait[p] = circuit[p].open
      [] circuit[p].state = "cooldown" -> wait[p] = circuit[p].cool
      [] OTHER -> wait[p] = 0

BackInv == \A p \in Providers : BackAt(p)

PickInv == TypeOK /\ WalkInv /\ UpInv /\ BackInv

LEMMA ModBelow ==
  ASSUME NEW n \in Nat, n > 0, NEW x \in Nat
  PROVE  x % n \in 0..(n - 1)
OBVIOUS

LEMMA ModSmall ==
  ASSUME NEW n \in Nat, NEW x \in 0..(n - 1)
  PROVE  x % n = x /\ (x + n) % n = x
OBVIOUS

LEMMA PoolTypes ==
  /\ Size \in Nat /\ DOMAIN Pool = 1..Size /\ \A i \in 1..Size : Pool[i] \in Providers
  /\ \A p \in Providers : \E i \in 1..Size : p = Pool[i]
BY DEF Size, Providers

\* A walk of the whole pool comes by every provider.
LEMMA WalkMeets ==
  ASSUME NEW p \in Providers, NEW start \in Nat, start < Size
  PROVE  \E k \in 0..(Size - 1) : Pool[Slot(start, k)] = p
<1>1. PICK i \in 1..Size : p = Pool[i]
  BY PoolTypes
<1>2. Size \in Nat
  BY PoolTypes
<1>3. CASE start <= i - 1
  <2>1. PICK k \in 0..(Size - 1) : start + k = i - 1
    <3>1. (i - 1) - start \in 0..(Size - 1) /\ start + ((i - 1) - start) = i - 1
      BY <1>1, <1>2, <1>3
    <3>2. QED
      BY <3>1
  <2>2. i - 1 \in 0..(Size - 1)
    BY <1>1, <1>2
  <2>3. (i - 1) % Size = i - 1
    BY <1>2, <2>2, ModSmall
  <2>4. Slot(start, k) = i
    BY <1>1, <1>2, <2>1, <2>3 DEF Slot
  <2>5. QED
    BY <1>1, <2>4
<1>4. CASE ~(start <= i - 1)
  <2>1. PICK k \in 0..(Size - 1) : start + k = (i - 1) + Size
    <3>1. (i - 1) - start + Size \in 0..(Size - 1) /\ start + ((i - 1) - start + Size) = (i - 1) + Size
      BY <1>1, <1>2, <1>4
    <3>2. QED
      BY <3>1
  <2>2. i - 1 \in 0..(Size - 1)
    BY <1>1, <1>2
  <2>3. ((i - 1) + Size) % Size = i - 1
    BY <1>2, <2>2, ModSmall
  <2>4. Slot(start, k) = i
    BY <1>1, <1>2, <2>1, <2>3 DEF Slot
  <2>5. QED
    BY <1>1, <2>4
<1>5. QED
  BY <1>3, <1>4

\* The entry a walk is at is a provider.
LEMMA AtKnown ==
  ASSUME TypeOK, NEW r \in Requests, WalkAt(r), req[r].pc \in {"visit", "probe"},
         req[r].seen < Len(Entries(req[r].list))
  PROVE  /\ At(r) \in Providers
         /\ req[r].list = "pool" => At(r) = Pool[Slot(req[r].start, req[r].seen)]
<1>1. req[r].start \in Nat /\ req[r].seen \in Nat /\ req[r].list \in {"fast", "pool"}
  BY DEF TypeOK, Locals
<1>2. CASE req[r].list = "fast"
  <2>1. Entries(req[r].list) = <<FastSlot>> /\ Len(<<FastSlot>>) = 1
    BY <1>2 DEF Entries
  <2>2. (req[r].start + req[r].seen) % 1 = 0
    BY <1>1, ModBelow
  <2>3. At(r) = FastSlot
    BY <2>1, <2>2 DEF At
  <2>4. QED
    BY <1>2, <2>3 DEF WalkAt
<1>3. CASE req[r].list = "pool"
  <2>1. Entries(req[r].list) = Pool
    BY <1>3 DEF Entries
  <2>2. At(r) = Pool[Slot(req[r].start, req[r].seen)]
    BY <2>1 DEF At, Slot, Size
  <2>3. Size \in Nat /\ Size > 0
    BY <1>1, <2>1, PoolTypes DEF Size
  <2>4. Slot(req[r].start, req[r].seen) \in 1..Size
    <3> DEFINE x == req[r].start + req[r].seen
    <3>1. x \in Nat
      BY <1>1
    <3>2. x % Size \in 0..(Size - 1)
      <4> HIDE DEF x
      <4>1. QED
        BY <2>3, <3>1, ModBelow
    <3>3. \A y \in 0..(Size - 1) : y + 1 \in 1..Size
      BY <2>3
    <3>4. QED
      BY <3>2, <3>3 DEF Slot
  <2>5. QED
    BY <2>2, <2>4, PoolTypes
<1>4. QED
  BY <1>1, <1>2, <1>3

-----------------------------------------------------------------------------
(* The breakers. *)

LEMMA CircuitTypes ==
  ASSUME NEW c \in Circuit
  PROVE  /\ Picked(c) \in Circuit /\ RecordSuccess(c) \in Circuit /\ Older(c) \in Circuit
         /\ \A error : RecordFailure(c, error) \in Circuit
         /\ \A error : BackoffFor(c, error) \in Nat \cup {Forever}
<1>1. /\ c.state \in CircuitStates /\ c.fails \in 0..Fails /\ c.open \in Nat /\ c.cool \in Nat
      /\ OneMoreFail(c) \in 0..Fails /\ Less(c.open) \in Nat /\ Less(c.cool) \in Nat
  BY DEF Circuit, OneMoreFail, Less
<1>2. Picked(c) \in Circuit /\ RecordSuccess(c) \in Circuit
  <2>1. 0 \in 0..Fails
    OBVIOUS
  <2>2. RecordSuccess(c) \in Circuit
    BY <1>1, <2>1 DEF Circuit, CircuitStates, RecordSuccess
  <2>3. Picked(c) \in Circuit
    BY <1>1 DEF Circuit, CircuitStates, Picked
  <2>4. QED
    BY <2>2, <2>3
<1>3. Older(c) \in Circuit
  BY <1>1 DEF Circuit, Older
<1>4. ASSUME NEW error PROVE RecordFailure(c, error) \in Circuit
  <2>1. /\ [c EXCEPT !.fails = OneMoreFail(c)] \in Circuit
        /\ [c EXCEPT !.state = "disabled"] \in Circuit /\ [c EXCEPT !.state = "degraded"] \in Circuit
    BY <1>1 DEF Circuit, CircuitStates
  <2> DEFINE f == [c EXCEPT !.fails = OneMoreFail(c)]
  <2> HIDE DEF f
  <2>2. f \in Circuit
    BY <2>1 DEF f
  <2>3. /\ [f EXCEPT !.state = "auth_error", !.open = AuthBackoff] \in Circuit
        /\ [f EXCEPT !.state = "exhausted", !.open = OpenFor, !.cool = Cooldown] \in Circuit
        /\ [f EXCEPT !.state = "cooldown", !.cool = Cooldown] \in Circuit
    BY <2>2 DEF Circuit, CircuitStates
  <2>4. QED
    BY <1>1, <2>1, <2>3 DEF RecordFailure, f
<1>5. \A error : BackoffFor(c, error) \in Nat \cup {Forever}
  BY DEF BackoffFor, Forever
<1>6. QED
  BY <1>2, <1>3, <1>4, <1>5

\* What a breaker keeps of a failure is the back-off it asked for.
Keeps(c, w) ==
    /\ c.state \in {"auth_error", "exhausted"} => w = c.open
    /\ c.state = "cooldown" => w = c.cool
    /\ c.state \in {"healthy", "degraded"} => w = 0

LEMMA BackIs ==
  ASSUME TypeOK, NEW p \in Providers
  PROVE  BackAt(p) <=> Keeps(circuit[p], wait[p])
<1>1. circuit[p].state \in CircuitStates
  BY DEF TypeOK, Circuit
<1>2. QED
  BY <1>1, Zenon DEF BackAt, Keeps, CircuitStates

LEMMA FailureKeeps ==
  ASSUME NEW c \in Circuit, NEW error
  PROVE  Keeps(RecordFailure(c, error), BackoffFor(c, error))
<1>1. c.fails \in 0..Fails /\ OneMoreFail(c) \in 0..Fails
  BY DEF Circuit, OneMoreFail
<1> DEFINE f == [c EXCEPT !.fails = OneMoreFail(c)]
<1>2. f \in Circuit
  BY <1>1 DEF Circuit
<1> HIDE DEF f
<1>3. CASE error = "auth_error"
  <2>1. RecordFailure(c, error) = [f EXCEPT !.state = "auth_error", !.open = AuthBackoff]
    BY <1>3 DEF RecordFailure, f, Transient
  <2>2. BackoffFor(c, error) = AuthBackoff
    BY <1>3 DEF BackoffFor, Transient
  <2>3. QED
    BY <1>2, <2>1, <2>2 DEF Keeps, Circuit
<1>4. CASE error \in Transient /\ OneMoreFail(c) = Fails
  <2>1. RecordFailure(c, error) = [f EXCEPT !.state = "exhausted", !.open = OpenFor, !.cool = Cooldown]
    BY SMTT(30), <1>4 DEF RecordFailure, f, Transient
  <2>2. BackoffFor(c, error) = OpenFor
    BY <1>4 DEF BackoffFor, Transient
  <2>3. QED
    BY <1>2, <2>1, <2>2 DEF Keeps, Circuit
<1>5. CASE error \in Transient /\ OneMoreFail(c) # Fails
  <2>1. OneMoreFail(c) < Fails
    BY <1>1, <1>5
  <2>2. RecordFailure(c, error) = [f EXCEPT !.state = "cooldown", !.cool = Cooldown]
    BY <1>5, <2>1 DEF RecordFailure, f, Transient
  <2>3. BackoffFor(c, error) = Cooldown
    BY <1>5 DEF BackoffFor, Transient
  <2>4. QED
    BY <1>2, <2>2, <2>3 DEF Keeps, Circuit
<1>6. CASE error = "model_unavailable"
  <2>1. RecordFailure(c, error) = [c EXCEPT !.state = "disabled"]
    BY <1>6 DEF RecordFailure, Transient
  <2>2. QED
    BY <2>1 DEF Keeps, Circuit
<1>7. CASE error \notin Transient \cup {"auth_error", "model_unavailable"}
  <2>1. RecordFailure(c, error) = [c EXCEPT !.state = "degraded"] /\ BackoffFor(c, error) = 0
    BY <1>7 DEF RecordFailure, BackoffFor
  <2>2. QED
    BY <2>1 DEF Keeps, Circuit
<1>8. QED
  BY <1>3, <1>4, <1>5, <1>6, <1>7

LEMMA OtherKeeps ==
  ASSUME NEW c \in Circuit, NEW w, Keeps(c, w)
  PROVE  /\ Pickable(c) => w = 0 \/ c.state = "disabled"
         /\ Pickable(c) => Keeps(Picked(c), w)
         /\ Keeps(RecordSuccess(c), 0) /\ RecordSuccess(c).state = "healthy"
         /\ Keeps(FreshCircuit, 0)
         /\ c.state = "healthy" => Pickable(c) /\ Picked(c).state = "healthy"
<1>1. Keeps(RecordSuccess(c), 0) /\ RecordSuccess(c).state = "healthy"
  BY DEF Keeps, RecordSuccess, Circuit
<1>2. Keeps(FreshCircuit, 0)
  BY DEF Keeps, FreshCircuit
<1>3. c.state \in CircuitStates
  BY DEF Circuit
<1>4. Pickable(c) => w = 0 /\ c.state # "disabled"
  BY <1>3 DEF Pickable, Keeps, CircuitStates
<1>5. Pickable(c) => Keeps(Picked(c), w)
  BY <1>4 DEF Picked, Keeps, Circuit
<1>6. c.state = "healthy" => Pickable(c) /\ Picked(c).state = "healthy"
  BY DEF Pickable, Picked
<1>7. QED
  BY <1>1, <1>2, <1>4, <1>5, <1>6

LEMMA OlderKeeps ==
  ASSUME NEW c \in Circuit, NEW w \in Nat \cup {Forever}, Keeps(c, w)
  PROVE  /\ Keeps(Older(c), IF w = Forever THEN Forever ELSE Less(w))
         /\ Older(c).state = c.state
<1>1. /\ Older(c).state = c.state /\ Older(c).open = Less(c.open) /\ Older(c).cool = Less(c.cool)
      /\ c.open \in Nat /\ c.cool \in Nat
  BY DEF Older, Circuit
<1>2. Less(0) = 0 /\ Forever \notin Nat
  BY DEF Less, Forever
<1>3. QED
  BY <1>1, <1>2 DEF Keeps

-----------------------------------------------------------------------------
(* The steps of a walk. *)

MovesOnly(r) ==
    /\ req' \in [Requests -> Locals]
    /\ \A q \in Requests \ {r} : req'[q] = req[q]

LEMMA SetLocals ==
  ASSUME TypeOK, NEW r \in Requests, NEW v \in Locals, req' = [req EXCEPT ![r] = v]
  PROVE  MovesOnly(r) /\ req'[r] = v
BY DEF TypeOK, MovesOnly

\* The parts of the walk that one request's step disturbs.
LEMMA WalkMoves ==
  ASSUME PickInv, NEW r \in Requests, MovesOnly(r), up' = up, cursor' \in Nat, CursorInv', WalkAt(r)'
  PROVE  WalkInv'
<1>1. ASSUME NEW q \in Requests PROVE WalkAt(q)'
  <2>1. CASE q # r
    <3>1. req'[q] = req[q] /\ WalkAt(q)
      BY <2>1 DEF MovesOnly, PickInv, WalkInv
    <3>2. QED
      BY <3>1 DEF WalkAt, Entries, Slot, Size
  <2>2. QED
    BY <2>1
<1>2. QED
  BY <1>1 DEF WalkInv

LEMMA RestingWalk ==
  ASSUME NEW r, req'[r].pc \notin {"visit", "probe"}
  PROVE  WalkAt(r)'
BY DEF WalkAt

\* A step of a walk that leaves the breakers alone.
LEMMA CalmPick ==
  ASSUME PickInv, TypeOK', up' = up, circuit' = circuit, wait' = wait, WalkInv'
  PROVE  PickInv'
<1>1. UpInv' /\ BackInv'
  BY DEF PickInv, UpInv, BackInv, BackAt
<1>2. QED
  BY <1>1 DEF PickInv

\* A step that changes the breaker of one provider and what is left of its back-off.
LEMMA BreakerMoves ==
  ASSUME PickInv, TypeOK', WalkInv', up' = up, NEW p \in Providers, NEW c \in Circuit, NEW w,
         circuit' = [circuit EXCEPT ![p] = c], wait' = [wait EXCEPT ![p] = w], Keeps(c, w),
         p \in up => c.state = "healthy"
  PROVE  PickInv'
<1>1. /\ circuit'[p] = c /\ wait'[p] = w
      /\ \A q \in Providers \ {p} : circuit'[q] = circuit[q] /\ wait'[q] = wait[q]
  BY DEF PickInv, TypeOK
<1>2. up \subseteq Providers /\ UpInv /\ BackInv /\ TypeOK
  BY DEF PickInv, TypeOK
<1>3. UpInv'
  BY <1>1, <1>2 DEF UpInv
<1>4. BackInv'
  <2>1. BackAt(p)'
    <3>1. circuit'[p].state \in CircuitStates
      BY DEF TypeOK, Circuit
    <3>2. Keeps(circuit'[p], wait'[p])
      BY <1>1
    <3>3. QED
      BY <3>1, <3>2, Zenon DEF BackAt, Keeps, CircuitStates
  <2>2. \A q \in Providers \ {p} : BackAt(q)'
    BY <1>1, <1>2 DEF BackInv, BackAt
  <2>3. QED
    BY <2>1, <2>2 DEF BackInv
<1>5. QED
  BY <1>3, <1>4 DEF PickInv

LEMMA PickTypes ==
  ASSUME TypeOK, NEW r \in Requests, MovesOnly(r), cursor' \in Nat,
         circuit' \in [Providers -> Circuit], wait' \in [Providers -> Nat \cup {Forever}],
         UNCHANGED <<config, quotas, calendar, ledger, used>>
  PROVE  TypeOK'
BY DEF TypeOK, MovesOnly, config, quotas, calendar, ledger

\* A walk that starts.
LEMMA WalkStarts ==
  ASSUME PickInv, NEW r \in Requests, NEW list \in {"fast", "pool"}, Walk(r, list),
         list = "fast" => FastSlot \in Providers,
         UNCHANGED <<config, circuit, wait, quotas, calendar, ledger, used>>
  PROVE  PickInv' /\ MovesOnly(r) /\ req'[r].pc = "visit" /\ req'[r].paid = req[r].paid
<1> DEFINE from == IF list = "pool" THEN cursor ELSE 0
           v == [req[r] EXCEPT !.pc = "visit", !.list = list, !.seen = 0, !.broke = FALSE, !.start = from]
<1>0. TypeOK /\ CursorInv /\ req \in [Requests -> Locals] /\ req[r] \in Locals /\ cursor \in Nat
  BY DEF PickInv, WalkInv, TypeOK
<1>1. req' = [req EXCEPT ![r] = v]
  BY <1>0 DEF Walk
<1>2. v \in Locals
  BY <1>0 DEF Locals, States
<1>3. MovesOnly(r) /\ req'[r] = v
  BY <1>0, <1>1, <1>2, SetLocals
<1>4. cursor' \in Nat /\ CursorInv'
  <2>1. Size \in Nat
    BY PoolTypes
  <2>2. CASE list = "pool" /\ Size > 1
    <3>1. cursor' = (cursor + 1) % Size
      BY <2>2 DEF Walk, Size
    <3>2. cursor' \in 0..(Size - 1)
      <4> DEFINE x == cursor + 1
      <4>1. x \in Nat
        BY <1>0
      <4> HIDE DEF x
      <4>2. x % Size \in 0..(Size - 1)
        BY <2>1, <2>2, <4>1, ModBelow
      <4>3. QED
        BY <3>1, <4>2 DEF x
    <3>3. QED
      BY <2>1, <3>2 DEF CursorInv, Size
  <2>3. CASE ~(list = "pool" /\ Size > 1)
    <3>1. cursor' = cursor
      BY <2>3 DEF Walk, Size
    <3>2. QED
      BY <1>0, <3>1 DEF CursorInv, Size
  <2>4. QED
    BY <2>2, <2>3
<1>5. TypeOK'
  <2>1. circuit' \in [Providers -> Circuit] /\ wait' \in [Providers -> Nat \cup {Forever}]
    BY <1>0 DEF TypeOK
  <2>2. QED
    BY <1>0, <1>3, <1>4, <2>1, PickTypes
<1>6. WalkAt(r)'
  <2>1. /\ req'[r].pc = "visit" /\ req'[r].list = list /\ req'[r].seen = 0 /\ req'[r].start = from
    BY <1>0, <1>3 DEF Locals
  <2>2. Size > 0 /\ list = "pool" => from < Size
    BY <1>0 DEF CursorInv
  <2>3. 0..(0 - 1) = {}
    OBVIOUS
  <2>4. Size' = Size
    BY DEF Size
  <2>5. QED
    BY <2>1, <2>2, <2>3, <2>4 DEF WalkAt
<1>7. up' = up /\ circuit' = circuit /\ wait' = wait
  BY DEF config
<1>8. WalkInv'
  BY <1>3, <1>4, <1>6, <1>7, WalkMoves
<1>9. PickInv'
  BY <1>5, <1>7, <1>8, CalmPick
<1>10. QED
  BY <1>0, <1>3, <1>9 DEF Locals

\* A request that leaves the walk.
LEMMA WalkEnds ==
  ASSUME PickInv, NEW r \in Requests,
         Refuse(r) \/ \E paid \in BOOLEAN : Resolved(r, paid)
  PROVE  MovesOnly(r) /\ req'[r].pc \in {"refused", "ip"} /\ (req'[r].pc = "refused" => ~req'[r].paid)
<1>0. TypeOK
  BY DEF PickInv
<1>1. FreshLocals \in Locals
  BY DEF FreshLocals, Locals, States
<1>2. PICK v \in {[FreshLocals EXCEPT !.pc = "refused"]} \cup
                  {[FreshLocals EXCEPT !.pc = "ip", !.paid = paid] : paid \in BOOLEAN} :
          req' = [req EXCEPT ![r] = v]
  BY DEF Refuse, Resolved
<1>3. v \in Locals /\ v.pc \in {"refused", "ip"} /\ (v.pc = "refused" => ~v.paid)
  <2>1. CASE v = [FreshLocals EXCEPT !.pc = "refused"]
    BY <1>1, <2>1 DEF FreshLocals, Locals, States
  <2>2. CASE \E paid \in BOOLEAN : v = [FreshLocals EXCEPT !.pc = "ip", !.paid = paid]
    <3>1. PICK paid \in BOOLEAN : v = [FreshLocals EXCEPT !.pc = "ip", !.paid = paid]
      BY <2>2
    <3>2. QED
      BY <1>1, <3>1 DEF FreshLocals, Locals, States
  <2>3. QED
    BY <1>2, <2>1, <2>2
<1>4. QED
  BY <1>0, <1>2, <1>3, SetLocals

\* The walk goes on to the next entry, past one that does not always answer.
LEMMA NextEntry ==
  ASSUME PickInv, NEW r \in Requests, req[r].pc \in {"visit", "probe"},
         req[r].seen < Len(Entries(req[r].list)), At(r) \notin up, up' = up, cursor' = cursor,
         MovesOnly(r), req'[r].pc = "visit", req'[r].list = req[r].list, req'[r].start = req[r].start,
         req'[r].seen = req[r].seen + 1
  PROVE  WalkInv'
<1>0. TypeOK /\ CursorInv /\ WalkAt(r) /\ cursor \in Nat /\ req[r].seen \in Nat
  BY DEF PickInv, WalkInv, TypeOK, Locals
<1>1. CursorInv' /\ cursor' \in Nat
  BY <1>0 DEF CursorInv, Size
<1>2. req[r].list = "pool" => Pool[Slot(req[r].start, req[r].seen)] \notin up
  BY <1>0, AtKnown
<1>3. \A k \in 0..(req'[r].seen - 1) : k \in 0..(req[r].seen - 1) \/ k = req[r].seen
  BY <1>0
<1>4. \A start, k : Slot(start, k)' = Slot(start, k)
  BY DEF Slot, Size
<1>5. WalkAt(r)'
  BY <1>0, <1>2, <1>3, <1>4 DEF WalkAt, Size
<1>6. QED
  BY <1>1, <1>5, WalkMoves

\* A walk of the pool that met nobody has passed every provider over.
LEMMA WalkExhausts ==
  ASSUME PickInv, NEW r \in Requests, req[r].pc = "visit", ~More(r), ~req[r].broke,
         req[r].list = "pool"
  PROVE  up = {}
<1>0. /\ TypeOK /\ WalkAt(r) /\ req[r].seen \in Nat /\ req[r].start \in Nat
      /\ up \subseteq Providers
  BY DEF PickInv, WalkInv, TypeOK, Locals
<1>1. Size \in Nat /\ req[r].seen >= Size
  BY <1>0, PoolTypes DEF More, Entries, Size
<1>2. SUFFICES ASSUME NEW p \in up PROVE FALSE
  OBVIOUS
<1>3. Size > 0
  <2>1. PICK i \in 1..Size : p = Pool[i]
    BY <1>0, PoolTypes
  <2>2. QED
    BY <1>1, <2>1
<1>4. PICK k \in 0..(Size - 1) : Pool[Slot(req[r].start, k)] = p
  BY <1>0, <1>3, WalkMeets DEF WalkAt
<1>5. k \in 0..(req[r].seen - 1)
  BY <1>0, <1>1
<1>6. QED
  BY <1>0, <1>4, <1>5 DEF WalkAt

\* What a step of picking does, and keeps.
PickStep(r) ==
    /\ PickInv' /\ MovesOnly(r)
    /\ req[r].pc \in {"idle", "visit", "probe"}
    /\ req'[r].pc \in {"visit", "probe", "refused", "ip"}
    /\ req[r].pc = "visit" /\ req'[r].pc = "probe" => wait[At(r)] = 0
    /\ ~req[r].broke /\ up # {} =>
          /\ req[r].pc = "visit" => req'[r].pc # "refused"
          /\ req'[r].paid => req[r].paid

LEMMA PickEnds ==
  ASSUME PickInv, NEW r \in Requests, req[r].pc \in {"idle", "visit", "probe"},
         UNCHANGED <<config, cursor, circuit, wait, quotas, calendar, ledger, used>>,
         Refuse(r) \/ \E paid \in BOOLEAN : Resolved(r, paid)
  PROVE  PickInv'
<1>1. MovesOnly(r) /\ WalkAt(r)'
  BY WalkEnds, RestingWalk
<1>2. /\ TypeOK /\ CursorInv /\ up' = up /\ circuit' = circuit /\ wait' = wait /\ cursor' = cursor
      /\ cursor \in Nat /\ circuit \in [Providers -> Circuit]
      /\ wait \in [Providers -> Nat \cup {Forever}]
  BY DEF PickInv, WalkInv, config, TypeOK
<1>3. TypeOK'
  BY <1>1, <1>2, PickTypes
<1>4. WalkInv'
  BY <1>1, <1>2, WalkMoves DEF CursorInv, Size
<1>5. QED
  BY <1>2, <1>3, <1>4, CalmPick

LEMMA PickSteps ==
  ASSUME PickInv, NEW r \in Requests, Picking(r)
  PROVE  PickStep(r)
<1> USE DEF picking
<1>0. /\ TypeOK /\ WalkAt(r) /\ CursorInv /\ UpInv /\ BackInv /\ req \in [Requests -> Locals]
      /\ req[r] \in Locals /\ cursor \in Nat /\ up \subseteq Providers
      /\ req[r].seen \in Nat /\ req[r].list \in {"fast", "pool"}
      /\ circuit \in [Providers -> Circuit] /\ wait \in [Providers -> Nat \cup {Forever}]
  BY DEF PickInv, WalkInv, TypeOK, Locals
<1>1. CASE TurnAway(r)
  <2>1. /\ req[r].pc = "idle" /\ Refuse(r)
        /\ UNCHANGED <<config, cursor, circuit, wait, quotas, calendar, ledger, used>>
    BY <1>1 DEF TurnAway
  <2>2. PickInv'
    BY <2>1, PickEnds
  <2>3. /\ MovesOnly(r) /\ req'[r].pc \in {"refused", "ip"}
        /\ req'[r].pc = "refused" => ~req'[r].paid
    BY <2>1, WalkEnds
  <2>4. req'[r].pc = "refused"
    BY <1>0, <2>1 DEF Refuse, FreshLocals
  <2>5. QED
    BY <2>1, <2>2, <2>3, <2>4 DEF PickStep
<1>2. CASE Arrive(r)
  <2>1. PICK list \in {"fast", "pool"} : Walk(r, list) /\ (list = "fast" => FastSlot \in Providers)
    BY <1>2 DEF Arrive
  <2>2. req[r].pc = "idle" /\ UNCHANGED <<config, circuit, wait, quotas, calendar, ledger, used>>
    BY <1>2 DEF Arrive
  <2>3. QED
    BY <2>1, <2>2, WalkStarts DEF PickStep
<1>3. CASE FallThrough(r)
  <2>1. /\ req[r].pc = "visit" /\ Walk(r, "pool")
        /\ UNCHANGED <<config, circuit, wait, quotas, calendar, ledger, used>>
    BY <1>3 DEF FallThrough
  <2>2. QED
    BY <2>1, WalkStarts DEF PickStep
<1>4. CASE PoolBlocked(r)
  <2>1. /\ req[r].pc = "visit" /\ ~More(r) /\ req[r].list = "pool"
        /\ Refuse(r) \/ \E paid \in BOOLEAN : Resolved(r, paid)
        /\ UNCHANGED <<config, cursor, circuit, wait, quotas, calendar, ledger, used>>
    BY <1>4 DEF PoolBlocked
  <2>2. ~req[r].broke => up = {}
    BY <2>1, WalkExhausts
  <2>3. QED
    BY <2>1, <2>2, PickEnds, WalkEnds DEF PickStep
<1>5. CASE Skip(r)
  <2>1. /\ req[r].pc = "visit" /\ req[r].seen < Len(Entries(req[r].list))
        /\ ~Pickable(circuit[At(r)]) /\ req' = [req EXCEPT ![r] = [req[r] EXCEPT !.seen = @ + 1]]
        /\ UNCHANGED <<config, cursor, circuit, wait, quotas, calendar, ledger, used>>
    BY <1>5 DEF Skip, More
  <2>2. [req[r] EXCEPT !.seen = @ + 1] \in Locals
    <3>1. req[r].seen + 1 \in Nat
      BY <1>0
    <3>2. [req[r] EXCEPT !.seen = req[r].seen + 1] \in Locals
      BY <1>0, <3>1 DEF Locals
    <3>3. QED
      BY <3>2
  <2>3. /\ MovesOnly(r) /\ req'[r] = [req[r] EXCEPT !.seen = @ + 1]
    BY <1>0, <2>1, <2>2, SetLocals
  <2>4. /\ req'[r].pc = "visit" /\ req'[r].list = req[r].list /\ req'[r].start = req[r].start
        /\ req'[r].seen = req[r].seen + 1 /\ req'[r].paid = req[r].paid
    BY <1>0, <2>1, <2>3 DEF Locals
  <2>5. At(r) \in Providers
    BY <1>0, <2>1, AtKnown
  <2>6. At(r) \notin up
    <3>1. circuit[At(r)] \in Circuit
      BY <1>0, <2>5
    <3>2. circuit[At(r)].state # "healthy"
      BY <2>1 DEF Pickable
    <3>3. QED
      BY <1>0, <3>2 DEF UpInv
  <2>7. up' = up /\ cursor' = cursor /\ circuit' = circuit /\ wait' = wait
    BY <2>1 DEF config
  <2>8. WalkInv'
    BY <2>1, <2>3, <2>4, <2>6, <2>7, NextEntry
  <2>9. TypeOK'
    BY <1>0, <2>1, <2>3, <2>7, PickTypes
  <2>10. QED
    BY <2>1, <2>3, <2>4, <2>7, <2>8, <2>9, CalmPick DEF PickStep
<1>6. CASE Probe(r)
  <2> DEFINE p == At(r)
             v == [req[r] EXCEPT !.pc = "probe"]
  <2>1. /\ req[r].pc = "visit" /\ req[r].seen < Len(Entries(req[r].list))
        /\ Pickable(circuit[p]) /\ req' = [req EXCEPT ![r] = v]
        /\ circuit' = [circuit EXCEPT ![p] = Picked(circuit[p])]
        /\ UNCHANGED <<config, cursor, wait, quotas, calendar, ledger, used>>
    BY <1>6 DEF Probe, More, Goto
  <2>2. p \in Providers /\ circuit[p] \in Circuit
    BY <1>0, <2>1, AtKnown
  <2>3. Keeps(circuit[p], wait[p])
    BY <1>0, <2>2, BackIs DEF BackInv
  <2>4. v \in Locals /\ v.pc = "probe" /\ v.paid = req[r].paid /\ v.list = req[r].list
        /\ v.start = req[r].start /\ v.seen = req[r].seen
    BY <1>0 DEF Locals, States
  <2>5. MovesOnly(r) /\ req'[r] = v
    BY <1>0, <2>1, <2>4, SetLocals
  <2>6. WalkAt(r)'
    <3>1. up' = up /\ Entries(req[r].list)' = Entries(req'[r].list)
      BY <2>1, <2>4, <2>5 DEF config, Entries
    <3>2. \A start, k : Slot(start, k)' = Slot(start, k)
      BY DEF Slot, Size
    <3>3. QED
      BY <1>0, <2>1, <2>4, <2>5, <3>1, <3>2 DEF WalkAt, Size, Entries
  <2>7. up' = up /\ cursor' = cursor /\ wait' = [wait EXCEPT ![p] = wait[p]]
    BY <1>0, <2>1, <2>2 DEF config
  <2>8. WalkInv'
    BY <1>0, <2>5, <2>6, <2>7, WalkMoves DEF CursorInv, Size
  <2>9. Picked(circuit[p]) \in Circuit /\ Keeps(Picked(circuit[p]), wait[p])
    BY <2>1, <2>2, <2>3, CircuitTypes, OtherKeeps
  <2>10. TypeOK'
    <3>1. circuit' \in [Providers -> Circuit] /\ wait' \in [Providers -> Nat \cup {Forever}]
      BY <1>0, <2>1, <2>9
    <3>2. QED
      BY <1>0, <2>1, <2>5, <2>7, <3>1, PickTypes
  <2>11. p \in up => Picked(circuit[p]).state = "healthy"
    BY <1>0, <2>2, <2>3, OtherKeeps DEF UpInv
  <2> HIDE DEF p, v
  <2>12. PickInv'
    BY <2>1, <2>2, <2>7, <2>8, <2>9, <2>10, <2>11, BreakerMoves
  <2>13. wait[p] = 0
    <3>1. circuit[p].state # "disabled"
      BY <2>1 DEF Pickable
    <3>2. QED
      BY <2>1, <2>2, <2>3, <3>1, OtherKeeps
  <2>14. QED
    BY <2>1, <2>4, <2>5, <2>12, <2>13 DEF PickStep, p
<1>7. CASE ProbeSucceeds(r)
  <2> DEFINE p == At(r)
  <2>1. /\ req[r].pc = "probe" /\ Resolved(r, FALSE)
        /\ circuit' = [circuit EXCEPT ![p] = RecordSuccess(circuit[p])]
        /\ wait' = [wait EXCEPT ![p] = 0]
        /\ UNCHANGED <<config, cursor, quotas, calendar, ledger, used>>
    BY <1>7 DEF ProbeSucceeds
  <2>2. p \in Providers /\ circuit[p] \in Circuit
    BY <1>0, <2>1, AtKnown DEF WalkAt
  <2>3. Keeps(circuit[p], wait[p])
    BY <1>0, <2>2, BackIs DEF BackInv
  <2>4. RecordSuccess(circuit[p]) \in Circuit /\ Keeps(RecordSuccess(circuit[p]), 0)
        /\ RecordSuccess(circuit[p]).state = "healthy"
    BY <2>2, <2>3, CircuitTypes, OtherKeeps
  <2>5. MovesOnly(r) /\ req'[r].pc \in {"refused", "ip"}
    BY <2>1, WalkEnds
  <2>6. WalkAt(r)'
    BY <2>5, RestingWalk
  <2>7. up' = up /\ cursor' = cursor
    BY <2>1 DEF config
  <2>8. WalkInv'
    BY <1>0, <2>5, <2>6, <2>7, WalkMoves DEF CursorInv, Size
  <2>9. TypeOK'
    <3>1. circuit' \in [Providers -> Circuit] /\ wait' \in [Providers -> Nat \cup {Forever}]
      BY <1>0, <2>1, <2>4
    <3>2. QED
      BY <1>0, <2>1, <2>5, <2>7, <3>1, PickTypes
  <2>10. ~req'[r].paid
    <3>1. CASE BudgetGate(0, 0)
      <4>1. req' = [req EXCEPT ![r] = [FreshLocals EXCEPT !.pc = "ip", !.paid = FALSE]]
        BY <2>1, <3>1 DEF Resolved
      <4>2. QED
        BY <1>0, <4>1 DEF FreshLocals
    <3>2. CASE ~BudgetGate(0, 0)
      <4>1. req' = [req EXCEPT ![r] = [FreshLocals EXCEPT !.pc = "refused"]]
        BY <2>1, <3>2 DEF Resolved, Refuse
      <4>2. QED
        BY <1>0, <4>1 DEF FreshLocals
    <3>3. QED
      BY <3>1, <3>2
  <2> HIDE DEF p
  <2>11. PickInv'
    BY <2>1, <2>2, <2>4, <2>7, <2>8, <2>9, BreakerMoves
  <2>12. QED
    BY <2>1, <2>5, <2>10, <2>11 DEF PickStep
<1>8. CASE ProbeFails(r)
  <2> DEFINE p == At(r)
  <2>1. PICK error :
          /\ circuit' = [circuit EXCEPT ![p] = RecordFailure(circuit[p], error)]
          /\ wait' = [wait EXCEPT ![p] = BackoffFor(circuit[p], error)]
          /\ req' = [req EXCEPT ![r] = [req[r] EXCEPT !.pc = "visit", !.seen = @ + 1,
                                                      !.broke = (error = "model_unavailable")]]
    <3>1. PICK resp \in Responses :
            LET error == ErrorFromHealth(CheckHealth(resp))
            IN  /\ circuit' = [circuit EXCEPT ![p] = RecordFailure(@, error)]
                /\ wait' = [wait EXCEPT ![p] = BackoffFor(circuit[p], error)]
                /\ req' = [req EXCEPT ![r].pc = "visit", ![r].seen = @ + 1,
                                      ![r].broke = (error = "model_unavailable")]
      BY <1>8, Zenon DEF ProbeFails
    <3> DEFINE error == ErrorFromHealth(CheckHealth(resp))
    <3> HIDE DEF error
    <3>2. /\ circuit' = [circuit EXCEPT ![p] = RecordFailure(@, error)]
          /\ wait' = [wait EXCEPT ![p] = BackoffFor(circuit[p], error)]
          /\ req' = [req EXCEPT ![r].pc = "visit", ![r].seen = @ + 1,
                                ![r].broke = (error = "model_unavailable")]
      BY <3>1, Zenon DEF error
    <3>3. QED
      BY ZenonT(30), <1>0, <3>2
  <2>2. /\ req[r].pc = "probe" /\ p \notin up
        /\ UNCHANGED <<config, cursor, quotas, calendar, ledger, used>>
    BY <1>8 DEF ProbeFails
  <2> DEFINE b == (error = "model_unavailable")
             v == [req[r] EXCEPT !.pc = "visit", !.seen = @ + 1, !.broke = b]
  <2>3. b \in BOOLEAN /\ req' = [req EXCEPT ![r] = v]
    BY <2>1
  <2> HIDE DEF b
  <2>4. /\ v \in Locals /\ v.pc = "visit" /\ v.list = req[r].list /\ v.start = req[r].start
        /\ v.seen = req[r].seen + 1 /\ v.paid = req[r].paid
    <3>1. req[r].seen + 1 \in Nat
      BY <1>0
    <3> DEFINE n == req[r].seen + 1
               w == [req[r] EXCEPT !.pc = "visit", !.seen = n, !.broke = b]
    <3>2. w = v
      OBVIOUS
    <3>3. n \in Nat
      BY <3>1
    <3> HIDE DEF n
    <3>4. /\ w \in Locals /\ w.pc = "visit" /\ w.list = req[r].list /\ w.start = req[r].start
          /\ w.seen = n /\ w.paid = req[r].paid
      BY <1>0, <2>3, <3>3 DEF Locals, States
    <3> HIDE DEF w, v
    <3>5. QED
      BY <3>2, <3>4 DEF n
  <2>5. MovesOnly(r) /\ req'[r] = v
    BY <1>0, <2>3, <2>4, SetLocals
  <2>6. req[r].seen < Len(Entries(req[r].list))
    BY <1>0, <2>2 DEF WalkAt
  <2>7. p \in Providers /\ circuit[p] \in Circuit
    BY <1>0, <2>2, <2>6, AtKnown
  <2>8. /\ RecordFailure(circuit[p], error) \in Circuit
        /\ BackoffFor(circuit[p], error) \in Nat \cup {Forever}
        /\ Keeps(RecordFailure(circuit[p], error), BackoffFor(circuit[p], error))
    BY <2>7, CircuitTypes, FailureKeeps
  <2>9. up' = up /\ cursor' = cursor
    BY <2>2 DEF config
  <2>10. WalkInv'
    BY <2>2, <2>4, <2>5, <2>6, <2>9, NextEntry
  <2>11. TypeOK'
    <3>1. circuit' \in [Providers -> Circuit] /\ wait' \in [Providers -> Nat \cup {Forever}]
      BY <1>0, <2>1, <2>8
    <3>2. QED
      BY <1>0, <2>2, <2>5, <2>9, <3>1, PickTypes
  <2> HIDE DEF p, v
  <2>12. PickInv'
    BY <2>1, <2>2, <2>7, <2>8, <2>9, <2>10, <2>11, BreakerMoves
  <2>13. QED
    BY <2>2, <2>4, <2>5, <2>12 DEF PickStep
<1>9. QED
  BY <1>1, <1>2, <1>3, <1>4, <1>5, <1>6, <1>7, <1>8 DEF Picking

\* Every other step leaves the breakers and the walks alone.
LEMMA PickRests ==
  ASSUME PickInv, TypeOK', up' = up, UNCHANGED picking,
         \A q \in Requests : req'[q] = req[q] \/ req'[q].pc \notin {"visit", "probe"}
  PROVE  PickInv'
<1>1. UNCHANGED <<circuit, cursor, wait>>
  BY DEF picking
<1>2. CursorInv'
  BY <1>1 DEF PickInv, WalkInv, CursorInv, Size
<1>3. ASSUME NEW q \in Requests PROVE WalkAt(q)'
  <2>1. CASE req'[q] = req[q]
    <3>1. WalkAt(q)
      BY DEF PickInv, WalkInv
    <3>2. QED
      BY <2>1, <3>1 DEF WalkAt, Entries, Slot, Size
  <2>2. CASE req'[q].pc \notin {"visit", "probe"}
    BY <2>2, RestingWalk
  <2>3. QED
    BY <2>1, <2>2
<1>4. WalkInv'
  BY <1>2, <1>3 DEF WalkInv
<1>5. QED
  BY <1>1, <1>4, CalmPick

-----------------------------------------------------------------------------
(* What the gates, the allowance and the ledger keep. *)

GrantedOn(d) == {r \in Requests : granted[r] = d}
CountingOn(d) == {r \in Requests : req[r].pc = "count" /\ req[r].day = d}

\* Whoever was granted a unit of a day, or is about to read its bucket, is counted in it.
DayInv ==
    /\ \A r \in Requests : req[r].pc = "count" => req[r].day \in Days
    /\ \A d \in Days : Cardinality(GrantedOn(d)) + Cardinality(CountingOn(d)) <= usage[d]
    /\ DailyCapHolds

Expiring == {"ip ttl", "global ttl"}
Asks(r, k) == k \in {IpOf[r], Global}
Aged(p, k, a) == {r \in Requests : Asks(r, k) /\ p[r][GateOf(k)] = a}
Within(p, k, h) == {r \in Requests : Asks(r, k) /\ p[r][GateOf(k)] < h}
Pending(k) == {r \in Requests : req[r].pc \in Expiring /\ KeyOf(r) = k}

\* In memory the hits of an age are at least the passes of that age.
MemoryAt(k) ==
    /\ Pending(k) = {} /\ hits[k].ttl = 0
    /\ \A a \in 0..(GlobalWindow - 1) : Cardinality(Aged(passed, k, a)) <= hits[k].ages[a]
    /\ Cardinality(Within(passed, k, WindowOf(k))) <= MaxOf(k)

\* In Redis a key counts up to its first expiry: until then at most one request
\* (about) is on its way to set it, and those that passed in the present tick
\* (now) are counted; after it, those that passed since (since) are.
RedisCounts(k, n, ttl, about, now, since) ==
    /\ ttl <= WindowOf(k)
    /\ ttl > 0 => n >= 1
    /\ since <= n /\ since <= MaxOf(k)
    /\ about >= 1 => ttl = 0 /\ n >= 1
    /\ about <= 1
    /\ now + about <= n
    /\ now >= 1 => now + about <= MaxOf(k)

Since(k, ttl) == IF ttl > 0 THEN WindowOf(k) - ttl + 1 ELSE 0

RedisAt(k) ==
    RedisCounts(k, hits[k].n, hits[k].ttl, Cardinality(Pending(k)),
                Cardinality(Within(passed, k, 1)),
                Cardinality(Within(passed, k, Since(k, hits[k].ttl))))

GateAt(k) == IF backend = "memory" THEN MemoryAt(k) ELSE RedisAt(k)
GateInv == \A k \in Keys : GateAt(k)

PoolInv == PickInv /\ DayInv /\ GateInv /\ LedgerNeverOverstates

LEMMA Few ==
  ASSUME NEW S \in SUBSET Requests
  PROVE  IsFiniteSet(S) /\ Cardinality(S) \in Nat
BY FS_Subset, FS_CardinalityType

LEMMA Fewer ==
  ASSUME NEW S \in SUBSET Requests, NEW T \in SUBSET S
  PROVE  Cardinality(T) <= Cardinality(S)
BY Few, FS_Subset

LEMMA OneMore ==
  ASSUME NEW S \in SUBSET Requests, NEW r, NEW T \in SUBSET Requests, T \subseteq S \cup {r}
  PROVE  Cardinality(T) <= Cardinality(S) + 1
<1>1. IsFiniteSet(S) /\ Cardinality(S) \in Nat /\ Cardinality(T) \in Nat
  BY Few
<1>2. IsFiniteSet(S \cup {r}) /\ Cardinality(S \cup {r}) <= Cardinality(S) + 1
  <2>1. /\ IsFiniteSet(S \cup {r})
        /\ Cardinality(S \cup {r}) = IF r \in S THEN Cardinality(S) ELSE Cardinality(S) + 1
    BY <1>1, FS_AddElement
  <2>2. QED
    BY <1>1, <2>1
<1>3. Cardinality(T) <= Cardinality(S \cup {r}) /\ Cardinality(S \cup {r}) \in Nat
  BY <1>2, FS_Subset, FS_CardinalityType
<1>4. QED
  BY <1>1, <1>2, <1>3

LEMMA OneLess ==
  ASSUME NEW S \in SUBSET Requests, NEW r \in S
  PROVE  Cardinality(S \ {r}) = Cardinality(S) - 1 /\ Cardinality(S) >= 1
<1>1. IsFiniteSet(S) /\ Cardinality(S) \in Nat
  BY Few
<1>2. Cardinality(S \ {r}) = Cardinality(S) - 1 /\ IsFiniteSet(S \ {r})
  BY <1>1, FS_RemoveElement
<1>3. Cardinality(S \ {r}) \in Nat
  BY <1>2, FS_CardinalityType
<1>4. QED
  BY <1>1, <1>2, <1>3

LEMMA NoneIs == Cardinality({}) = 0
BY FS_EmptySet

-----------------------------------------------------------------------------
(* Keys of the limiter. *)

LEMMA KeyFacts ==
  ASSUME NEW k \in Keys
  PROVE  /\ WindowOf(k) \in 1..GlobalWindow /\ MaxOf(k) \in Nat /\ GateOf(k) \in {"ip", "global"}
         /\ \A r \in Requests : k # Global /\ Asks(r, k) => k = IpOf[r]
BY DEF WindowOf, MaxOf, GateOf, Asks

\* The bounds the invariant gives are the ones the property asks for.
LEMMA GateGives == TypeOK /\ GateInv => QuotaHolds
<1> SUFFICES ASSUME TypeOK, GateInv, NEW k \in Keys
             PROVE  Cardinality({r \in Requests : /\ k \in {IpOf[r], Global}
                                                  /\ passed[r][GateOf(k)] < Horizon(k)}) <= MaxOf(k)
  BY DEF QuotaHolds
<1>1. GateAt(k) /\ backend \in {"memory", "redis"}
  BY DEF GateInv, TypeOK
<1>2. CASE backend = "memory"
  <2>1. MemoryAt(k)
    BY <1>1, <1>2 DEF GateAt
  <2>2. Horizon(k) = WindowOf(k)
    BY <1>2, <2>1 DEF Horizon, MemoryAt
  <2>3. QED
    BY <2>1, <2>2 DEF MemoryAt, Within, Asks
<1>3. CASE backend = "redis"
  <2>1. Horizon(k) = Since(k, hits[k].ttl) /\ RedisAt(k)
    BY <1>1, <1>3 DEF Horizon, Since, GateAt
  <2>2. QED
    BY <2>1 DEF RedisAt, RedisCounts, Within, Asks
<1>4. QED
  BY <1>1, <1>2, <1>3

\* A step that leaves a key and the passes of its gate alone.
LEMMA KeySame ==
  ASSUME TypeOK, NEW k \in Keys, GateAt(k), backend' = backend, hits'[k] = hits[k],
         \A r \in Requests : Asks(r, k) => passed'[r][GateOf(k)] = passed[r][GateOf(k)],
         Pending(k)' \subseteq Pending(k)
  PROVE  GateAt(k)'
<1>1. /\ \A a : Aged(passed', k, a) = Aged(passed, k, a)
      /\ \A h : Within(passed', k, h) = Within(passed, k, h)
  BY DEF Aged, Within
<1>2. CASE backend = "memory"
  <2>1. MemoryAt(k)
    BY <1>2 DEF GateAt
  <2>2. MemoryAt(k)'
    BY <1>1, <2>1 DEF MemoryAt, WindowOf, MaxOf
  <2>3. QED
    BY <1>2, <2>2 DEF GateAt
<1>3. CASE backend # "memory"
  <2>1. RedisAt(k)
    BY <1>3 DEF GateAt
  <2> DEFINE n == hits[k].n
             ttl == hits[k].ttl
             about == Cardinality(Pending(k))
             less == Cardinality(Pending(k)')
             now == Cardinality(Within(passed, k, 1))
             since == Cardinality(Within(passed, k, Since(k, ttl)))
  <2>2. about \in Nat /\ less \in Nat /\ now \in Nat /\ less <= about
    <3>1. Pending(k) \in SUBSET Requests /\ Pending(k)' \in SUBSET Requests
          /\ Within(passed, k, 1) \in SUBSET Requests
      BY DEF Pending, Within
    <3>2. QED
      BY <3>1, Few, Fewer
  <2>3. RedisCounts(k, n, ttl, about, now, since) /\ n \in Nat /\ MaxOf(k) \in Nat
    BY <2>1, KeyFacts DEF RedisAt, TypeOK, Counter
  <2>4. RedisAt(k)' <=> RedisCounts(k, n, ttl, less, now, since)
    BY <1>1 DEF RedisAt, RedisCounts, Since, WindowOf, MaxOf
  <2> HIDE DEF n, ttl, about, less, now, since
  <2>5. RedisCounts(k, n, ttl, less, now, since)
    BY <2>2, <2>3 DEF RedisCounts
  <2>6. QED
    BY <1>3, <2>4, <2>5 DEF GateAt
<1>4. QED
  BY <1>2, <1>3

-----------------------------------------------------------------------------
(* Steps that leave one part alone. *)

LEMMA GatesRest ==
  ASSUME TypeOK, GateInv, backend' = backend, hits' = hits, passed' = passed,
         \A q \in Requests : req'[q] = req[q] \/ req'[q].pc \notin Expiring
  PROVE  GateInv'
<1>1. ASSUME NEW k \in Keys PROVE GateAt(k)'
  <2>1. Pending(k)' \subseteq Pending(k)
    BY DEF Pending, KeyOf
  <2>2. QED
    BY <2>1, KeySame DEF GateInv
<1>2. QED
  BY <1>1 DEF GateInv, Keys

LEMMA DayRests ==
  ASSUME TypeOK, DayInv, usage' = usage, granted' = granted,
         \A q \in Requests : req'[q] = req[q] \/ req'[q].pc # "count"
  PROVE  DayInv'
<1>1. ASSUME NEW d \in Days
      PROVE  Cardinality(GrantedOn(d)') + Cardinality(CountingOn(d)') <= usage'[d]
  <2>1. GrantedOn(d)' = GrantedOn(d) /\ CountingOn(d)' \subseteq CountingOn(d)
    BY DEF GrantedOn, CountingOn
  <2>2. CountingOn(d) \in SUBSET Requests /\ GrantedOn(d) \in SUBSET Requests
    BY DEF CountingOn, GrantedOn
  <2>3. /\ Cardinality(CountingOn(d)') <= Cardinality(CountingOn(d))
        /\ Cardinality(CountingOn(d)) \in Nat /\ Cardinality(GrantedOn(d)) \in Nat
        /\ Cardinality(CountingOn(d)') \in Nat
    BY <2>1, <2>2, Few, Fewer
  <2>4. Cardinality(GrantedOn(d)) + Cardinality(CountingOn(d)) <= usage[d] /\ usage[d] \in Nat
    BY DEF DayInv, TypeOK
  <2>5. QED
    BY <2>1, <2>3, <2>4
<1>2. \A q \in Requests : req'[q].pc = "count" => req'[q].day \in Days
  BY DEF DayInv
<1>3. DailyCapHolds'
  BY DEF DayInv, DailyCapHolds
<1>4. QED
  BY <1>1, <1>2, <1>3 DEF DayInv, Days

Marked(rs, slug, ok) == {i \in DOMAIN rs : rs[i] = [slug |-> slug, ok |-> ok]}

LEMMA EndedMore ==
  ASSUME NEW slug, NEW pc \in {"ok", "failed"},
         \A q \in Requests : req[q].pc \in {"ok", "failed"} => req'[q] = req[q]
  PROVE  Ended(slug, pc) <= Ended(slug, pc)' /\ Ended(slug, pc) \in Nat /\ Ended(slug, pc)' \in Nat
<1> DEFINE S == {r \in Requests : req[r].slug = slug /\ req[r].pc = pc}
<1>1. S \subseteq S' /\ S' \in SUBSET Requests
  OBVIOUS
<1>2. Ended(slug, pc) = Cardinality(S) /\ Ended(slug, pc)' = Cardinality(S')
  BY DEF Ended
<1>3. QED
  <2> HIDE DEF S
  <2>1. S \in SUBSET Requests /\ S \in SUBSET S'
    BY <1>1
  <2>2. QED
    BY <1>1, <1>2, <2>1, Few, Fewer

LEMMA MarkedFew ==
  ASSUME NEW rs \in Seq(Row), NEW slug, NEW ok
  PROVE  IsFiniteSet(Marked(rs, slug, ok)) /\ Cardinality(Marked(rs, slug, ok)) \in Nat
<1>1. IsFiniteSet(1..Len(rs)) /\ DOMAIN rs = 1..Len(rs)
  BY FS_Interval
<1>2. IsFiniteSet(Marked(rs, slug, ok))
  BY <1>1, FS_Subset DEF Marked
<1>3. QED
  BY <1>2, FS_CardinalityType

\* Rows that gain no mark of an outcome report no more than they did.
LEMMA LedgerRests ==
  ASSUME TypeOK, TypeOK', LedgerNeverOverstates,
         \A slug \in Requests : \A ok \in {"ok", "failed"} :
            Marked(rows', slug, ok) \subseteq Marked(rows, slug, ok),
         \A q \in Requests : req[q].pc \in {"ok", "failed"} => req'[q] = req[q]
  PROVE  LedgerNeverOverstates'
<1> SUFFICES ASSUME NEW slug \in Requests, NEW ok \in {"ok", "failed"}
             PROVE  Cardinality(Marked(rows', slug, ok)) <= Ended(slug, ok)'
  BY DEF LedgerNeverOverstates, Marked
<1>1. rows \in Seq(Row) /\ rows' \in Seq(Row)
  BY DEF TypeOK
<1>2. /\ Cardinality(Marked(rows', slug, ok)) <= Cardinality(Marked(rows, slug, ok))
      /\ Cardinality(Marked(rows', slug, ok)) \in Nat /\ Cardinality(Marked(rows, slug, ok)) \in Nat
  BY <1>1, MarkedFew, FS_Subset
<1>3. Cardinality(Marked(rows, slug, ok)) <= Ended(slug, ok)
  BY DEF LedgerNeverOverstates, Marked
<1>4. QED
  BY <1>2, <1>3, EndedMore

\* A step of one request that only moves it along.
LEMMA OnlyMoves ==
  ASSUME PoolInv, PickInv', NEW r \in Requests, MovesOnly(r), backend' = backend, UNCHANGED quotas,
         rows' = rows, req[r].pc \notin {"ok", "failed"}, req'[r].pc \notin Expiring \cup {"count"}
  PROVE  PoolInv'
<1>1. /\ \A q \in Requests : req'[q] = req[q] \/ req'[q].pc \notin Expiring \cup {"count"}
      /\ \A q \in Requests : req[q].pc \in {"ok", "failed"} => req'[q] = req[q]
  BY DEF MovesOnly
<1>2. TypeOK /\ TypeOK' /\ UNCHANGED <<hits, usage, passed, granted>>
  BY DEF PoolInv, PickInv, quotas
<1>3. GateInv'
  BY <1>1, <1>2, GatesRest DEF PoolInv
<1>4. DayInv'
  BY <1>1, <1>2, DayRests DEF PoolInv
<1>5. LedgerNeverOverstates'
  <2>1. \A slug, ok : Marked(rows', slug, ok) \subseteq Marked(rows, slug, ok)
    OBVIOUS
  <2>2. QED
    BY <1>1, <1>2, <2>1, LedgerRests DEF PoolInv
<1>6. QED
  BY <1>3, <1>4, <1>5 DEF PoolInv

LEMMA PickingKeeps ==
  ASSUME PoolInv, NEW r \in Requests, Picking(r)
  PROVE  PoolInv'
<1>1. PickStep(r)
  BY PickSteps DEF PoolInv
<1>2. backend' = backend /\ UNCHANGED quotas /\ rows' = rows
  BY DEF Picking, TurnAway, Arrive, Skip, Probe, ProbeSucceeds, ProbeFails, FallThrough, PoolBlocked,
         config, ledger
<1>3. QED
  BY <1>1, <1>2, OnlyMoves DEF PickStep, Expiring

-----------------------------------------------------------------------------
(* The gates. *)

LEMMA Refused ==
  ASSUME TypeOK, NEW r \in Requests, Refuse(r)
  PROVE  MovesOnly(r) /\ req'[r].pc = "refused"
<1>1. FreshLocals \in Locals
  BY DEF FreshLocals, Locals, States
<1> DEFINE v == [FreshLocals EXCEPT !.pc = "refused"]
<1>2. v \in Locals /\ v.pc = "refused"
  BY <1>1 DEF FreshLocals, Locals, States
<1>3. req' = [req EXCEPT ![r] = v]
  BY DEF Refuse
<1> HIDE DEF v
<1>4. QED
  BY <1>2, <1>3, SetLocals

LEMMA Gone ==
  ASSUME TypeOK, NEW r \in Requests, NEW pc \in States, Goto(r, pc)
  PROVE  MovesOnly(r) /\ req'[r].pc = pc /\ req'[r].slug = req[r].slug
<1>0. req \in [Requests -> Locals] /\ req[r] \in Locals
  BY DEF TypeOK
<1> DEFINE v == [req[r] EXCEPT !.pc = pc]
<1>1. v \in Locals /\ v.pc = pc /\ v.slug = req[r].slug
  BY <1>0 DEF Locals
<1>2. req' = [req EXCEPT ![r] = v]
  BY <1>0 DEF Goto
<1> HIDE DEF v
<1>3. QED
  BY <1>1, <1>2, SetLocals

\* The types of a step that leaves picking alone.
LEMMA RestTypes ==
  ASSUME TypeOK, NEW r \in Requests, MovesOnly(r), UNCHANGED <<config, picking, calendar>>,
         hits' \in [Keys -> Counter], usage' \in [Days -> Nat],
         passed' \in [Requests -> [{"ip", "global"} -> 0..Never]],
         granted' \in [Requests -> Days \cup {NoSlug}],
         rows' \in Seq(Row), second' \in Requests \cup {NoSlug}, used' \in [crash : Nat, fault : Nat]
  PROVE  TypeOK'
BY DEF TypeOK, MovesOnly, config, picking, calendar

\* A request that goes through the gates or the launch leaves picking as it is.
LEMMA PickApart ==
  ASSUME PickInv, TypeOK', NEW r \in Requests, MovesOnly(r), req'[r].pc \notin {"visit", "probe"},
         UNCHANGED <<config, picking>>
  PROVE  PickInv'
<1>1. \A q \in Requests : req'[q] = req[q] \/ req'[q].pc \notin {"visit", "probe"}
  BY DEF MovesOnly
<1>2. up' = up
  BY DEF config
<1>3. QED
  BY <1>1, <1>2, PickRests

\* What a gate does with a count, and the passes it leaves behind.
Passes(r, k) == passed' = [passed EXCEPT ![r][GateOf(k)] = 0]

LEMMA PassDoes ==
  ASSUME TypeOK, NEW r \in Requests, NEW k \in Keys, NEW n, Pass(r, k, n)
  PROVE  /\ MovesOnly(r) /\ req'[r].pc \in {After(k), "refused"}
         /\ passed' \in [Requests -> [{"ip", "global"} -> 0..Never]]
         /\ (n <= MaxOf(k) /\ Passes(r, k)) \/ passed' = passed
<1>1. passed \in [Requests -> [{"ip", "global"} -> 0..Never]] /\ 0 \in 0..Never
  BY DEF TypeOK, Never
<1>2. GateOf(k) \in {"ip", "global"} /\ After(k) \in States
  BY DEF GateOf, After, States
<1>3. CASE n <= MaxOf(k)
  <2>1. Goto(r, After(k)) /\ Passes(r, k)
    BY <1>3 DEF Pass, Passes
  <2>2. passed' \in [Requests -> [{"ip", "global"} -> 0..Never]]
    BY <1>1, <1>2, <2>1 DEF Passes
  <2>3. QED
    BY <1>2, <1>3, <2>1, <2>2, Gone
<1>4. CASE ~(n <= MaxOf(k))
  <2>1. Refuse(r) /\ passed' = passed
    BY <1>4 DEF Pass
  <2>2. QED
    BY <1>1, <2>1, Refused
<1>5. QED
  BY <1>3, <1>4

\* Of the key it passes under, a request is one more that passed just now; of
\* no other key is anything different.
LEMMA PassedOf ==
  ASSUME TypeOK, NEW r \in Requests, NEW k \in Keys, Asks(r, k), Passes(r, k)
  PROVE  /\ \A a : Aged(passed', k, a) \subseteq Aged(passed, k, a) \cup {r}
         /\ \A a : a # 0 => Aged(passed', k, a) \subseteq Aged(passed, k, a)
         /\ \A h : Within(passed', k, h) \subseteq Within(passed, k, h) \cup {r}
         /\ \A j \in Keys \ {k} : \A q \in Requests :
                Asks(q, j) => passed'[q][GateOf(j)] = passed[q][GateOf(j)]
<1>1. /\ passed \in [Requests -> [{"ip", "global"} -> 0..Never]]
      /\ \A j : GateOf(j) \in {"ip", "global"}
  BY DEF TypeOK, GateOf
<1>2. /\ \A q \in Requests \ {r} : passed'[q] = passed[q]
      /\ passed'[r][GateOf(k)] = 0
      /\ \A g \in {"ip", "global"} \ {GateOf(k)} : passed'[r][g] = passed[r][g]
  BY <1>1 DEF Passes
<1>3. /\ \A a : Aged(passed', k, a) \subseteq Aged(passed, k, a) \cup {r}
      /\ \A a : a # 0 => Aged(passed', k, a) \subseteq Aged(passed, k, a)
      /\ \A h : Within(passed', k, h) \subseteq Within(passed, k, h) \cup {r}
  BY <1>2 DEF Aged, Within
<1>4. ASSUME NEW j \in Keys \ {k}, NEW q \in Requests, Asks(q, j)
      PROVE  passed'[q][GateOf(j)] = passed[q][GateOf(j)]
  <2>1. CASE q # r
    BY <1>2, <2>1
  <2>2. CASE q = r
    <3>1. GateOf(j) # GateOf(k)
      BY <1>4, <2>2 DEF Asks, GateOf
    <3>2. QED
      BY <1>1, <1>2, <2>2, <3>1
  <2>3. QED
    BY <2>1, <2>2
<1>5. QED
  BY <1>3, <1>4

LEMMA KeyAsked ==
  ASSUME NEW r \in Requests
  PROVE  KeyOf(r) \in Keys /\ Asks(r, KeyOf(r)) /\ (KeyOf(r) # Global => KeyOf(r) = IpOf[r])
BY DEF KeyOf, Keys, Asks

Expires(k) == IF k = Global THEN "global ttl" ELSE "ip ttl"

\* A step of a gate is kept by everything but the key it counts under.
LEMMA GateStep ==
  ASSUME PoolInv, NEW r \in Requests, NEW k \in Keys, Asks(r, k),
         req[r].pc \in {"ip", "global"} \cup Expiring,
         MovesOnly(r), req'[r].pc \in {After(k), "refused", Expires(k)},
         NEW c \in Counter, hits' = [hits EXCEPT ![k] = c],
         Passes(r, k) \/ passed' = passed,
         passed' \in [Requests -> [{"ip", "global"} -> 0..Never]],
         UNCHANGED <<config, picking, usage, granted, calendar, ledger, used>>,
         GateAt(k)'
  PROVE  PoolInv'
<1>0. /\ TypeOK /\ PickInv /\ DayInv /\ GateInv /\ LedgerNeverOverstates
      /\ backend' = backend /\ rows' = rows /\ second' = second
  BY DEF PoolInv, PickInv, config, ledger
<1>1. req'[r].pc \notin {"visit", "probe", "count"}
  BY DEF After, Expires
<1>2. TypeOK'
  <2>1. /\ hits' \in [Keys -> Counter] /\ usage' \in [Days -> Nat]
        /\ granted' \in [Requests -> Days \cup {NoSlug}] /\ rows' \in Seq(Row)
        /\ second' \in Requests \cup {NoSlug} /\ used' \in [crash : Nat, fault : Nat]
    BY <1>0 DEF TypeOK
  <2>2. QED
    BY <1>0, <2>1, RestTypes
<1>3. PickInv'
  BY <1>0, <1>1, <1>2, PickApart
<1>4. DayInv'
  <2>1. \A q \in Requests : req'[q] = req[q] \/ req'[q].pc # "count"
    BY <1>1 DEF MovesOnly
  <2>2. QED
    BY <1>0, <2>1, DayRests
<1>5. LedgerNeverOverstates'
  <2>1. \A q \in Requests : req[q].pc \in {"ok", "failed"} => req'[q] = req[q]
    BY DEF MovesOnly, Expiring
  <2>2. \A slug, ok : Marked(rows', slug, ok) \subseteq Marked(rows, slug, ok)
    BY <1>0
  <2>3. QED
    BY <1>0, <1>2, <2>1, <2>2, LedgerRests
<1>6. ASSUME NEW j \in Keys \ {k} PROVE GateAt(j)'
  <2>1. hits'[j] = hits[j]
    BY <1>0 DEF TypeOK
  <2>2. \A q \in Requests : Asks(q, j) => passed'[q][GateOf(j)] = passed[q][GateOf(j)]
    BY <1>0, PassedOf
  <2>3. Pending(j)' \subseteq Pending(j)
    <3>1. ASSUME NEW q \in Pending(j)' PROVE q \in Pending(j)
      <4>1. CASE q # r
        BY <3>1, <4>1 DEF Pending, KeyOf, MovesOnly
      <4>2. CASE q = r
        <5>1. req'[r].pc = Expires(k)
          BY <3>1, <4>2 DEF Pending, Expiring, After
        <5>2. KeyOf(r)' = k
          BY <5>1 DEF KeyOf, Expires, Asks
        <5>3. QED
          BY <3>1, <4>2, <5>2 DEF Pending
      <4>3. QED
        BY <4>1, <4>2
    <3>2. QED
      BY <3>1
  <2>4. QED
    BY <1>0, <2>1, <2>2, <2>3, KeySame DEF GateInv
<1>7. GateInv'
  <2>1. \A j \in Keys : GateAt(j)'
    BY <1>6
  <2>2. QED
    BY <2>1 DEF GateInv, Keys
<1>8. QED
  BY <1>3, <1>4, <1>5, <1>7 DEF PoolInv

\* What passed within a window was hit within it.
LEMMA WithinCount ==
  ASSUME NEW k \in Keys, NEW p \in [Requests -> [{"ip", "global"} -> 0..Never]], NEW c \in Counter,
         \A a \in 0..(GlobalWindow - 1) : Cardinality(Aged(p, k, a)) <= c.ages[a]
  PROVE  Cardinality(Within(p, k, WindowOf(k))) <= Count(c, k)
<1> DEFINE R == {r \in Requests : Asks(r, k)}
           key == [r \in Requests |-> p[r][GateOf(k)]]
           S == 0..(WindowOf(k) - 1)
           f == c.ages
<1>1. WindowOf(k) \in 1..GlobalWindow /\ GateOf(k) \in {"ip", "global"} /\ GlobalWindow \in Nat
  BY KeyFacts
<1>2. S \subseteq 0..(GlobalWindow - 1) /\ IsFiniteSet(S)
  BY <1>1, FS_Interval
<1>3. IsFiniteSet(R)
  BY FS_Subset
<1>4. \A a : {r \in R : key[r] = a} = Aged(p, k, a)
  BY DEF Aged
<1>5. {r \in R : key[r] \in S} = Within(p, k, WindowOf(k))
  <2>1. \A r \in Requests : key[r] \in Nat
    BY <1>1 DEF Never
  <2>2. \A r \in Requests : key[r] \in S <=> key[r] < WindowOf(k)
    BY <1>1, <2>1
  <2>3. QED
    BY <2>2 DEF Within
<1>6. \A a \in S : f[a] \in Int /\ Cardinality({r \in R : key[r] = a}) <= f[a]
  <2>1. ASSUME NEW a \in S PROVE f[a] \in Int /\ Cardinality({r \in R : key[r] = a}) <= f[a]
    <3>1. a \in 0..(GlobalWindow - 1) /\ f \in [0..(GlobalWindow - 1) -> Nat]
      BY <1>2 DEF Counter
    <3>2. Cardinality(Aged(p, k, a)) <= f[a]
      BY <3>1
    <3>3. f[a] \in Int
      BY <3>1
    <3> DEFINE some == {r \in R : key[r] = a}
    <3>4. some = Aged(p, k, a)
      BY <1>4
    <3> HIDE DEF some
    <3>5. Cardinality(some) <= f[a]
      BY <3>2, <3>4
    <3>6. QED
      BY <3>3, <3>5 DEF some
  <2>2. QED
    BY <2>1
<1>7. Count(c, k) = SumOver(f, S)
  BY DEF Count, SumOver
<1> HIDE DEF R, key, S, f
<1>8. Cardinality({r \in R : key[r] \in S}) <= SumOver(f, S)
  BY <1>2, <1>3, <1>6, SumCovers
<1>9. QED
  BY <1>5, <1>7, <1>8

LEMMA WithinFew ==
  /\ \A p, k, h : Within(p, k, h) \in SUBSET Requests
  /\ \A p, k, a : Aged(p, k, a) \in SUBSET Requests
  /\ \A k : Pending(k) \in SUBSET Requests /\ Pending(k)' \in SUBSET Requests
BY DEF Within, Aged, Pending

\* No other request's step to the expiry of a key but this one's.
LEMMA PendingMoves ==
  ASSUME NEW r \in Requests, MovesOnly(r), NEW k
  PROVE  /\ Pending(k)' \subseteq Pending(k) \cup {r}
         /\ req'[r].pc \notin Expiring => Pending(k)' \subseteq Pending(k) \ {r}
BY DEF Pending, KeyOf, MovesOnly

LEMMA CheckMemoryKeeps ==
  ASSUME PoolInv, NEW r \in Requests, CheckMemory(r)
  PROVE  PoolInv'
<1>k. PICK k \in Keys : k = KeyOf(r)
  BY KeyAsked
<1> DEFINE ages == [hits[k].ages EXCEPT ![0] = hits[k].ages[0] + 1]
           hit == [hits[k] EXCEPT !.ages = ages]
<1>0. /\ TypeOK /\ GateInv /\ hits \in [Keys -> Counter] /\ backend = "memory"
      /\ passed \in [Requests -> [{"ip", "global"} -> 0..Never]]
  BY DEF PoolInv, PickInv, TypeOK, CheckMemory
<1>1. k \in Keys /\ Asks(r, k)
  BY <1>k, KeyAsked
<1>2. hits[k] \in Counter /\ MemoryAt(k) /\ 0 \in 0..(GlobalWindow - 1)
  BY <1>0, <1>1 DEF GateInv, GateAt
<1>3. /\ ages \in [0..(GlobalWindow - 1) -> Nat] /\ ages[0] = hits[k].ages[0] + 1
      /\ \A a \in 0..(GlobalWindow - 1) : a # 0 => ages[a] = hits[k].ages[a]
  <2>1. hits[k].ages \in [0..(GlobalWindow - 1) -> Nat]
    BY <1>2 DEF Counter
  <2> DEFINE b == hits[k].ages
  <2> HIDE DEF b
  <2>2. b \in [0..(GlobalWindow - 1) -> Nat] => b[0] + 1 \in Nat
    BY <1>2
  <2>3. b \in [0..(GlobalWindow - 1) -> Nat] =>
            /\ [b EXCEPT ![0] = b[0] + 1] \in [0..(GlobalWindow - 1) -> Nat]
            /\ [b EXCEPT ![0] = b[0] + 1][0] = b[0] + 1
            /\ \A a \in 0..(GlobalWindow - 1) : a # 0 => [b EXCEPT ![0] = b[0] + 1][a] = b[a]
    BY <1>2, <2>2
  <2>4. QED
    BY <2>1, <2>3 DEF b
<1> HIDE DEF ages
<1>4. hit \in Counter /\ hit.ages = ages /\ hit.ttl = hits[k].ttl
  BY <1>2, <1>3 DEF Counter
<1>5. hits' = [hits EXCEPT ![k] = hit] /\ Pass(r, k, Count(hit, k))
  BY <1>k, <1>0, <1>1, <1>2 DEF CheckMemory, ages, Counter
<1>6. /\ req[r].pc \in {"ip", "global"}
      /\ UNCHANGED <<config, picking, usage, granted, calendar, ledger, used>>
  BY DEF CheckMemory
<1> HIDE DEF hit
<1>7. /\ MovesOnly(r) /\ req'[r].pc \in {After(k), "refused"}
      /\ passed' \in [Requests -> [{"ip", "global"} -> 0..Never]]
      /\ (Count(hit, k) <= MaxOf(k) /\ Passes(r, k)) \/ passed' = passed
  BY <1>0, <1>1, <1>5, PassDoes
<1>8. \A a \in 0..(GlobalWindow - 1) : Cardinality(Aged(passed', k, a)) <= hit.ages[a]
  <2> SUFFICES ASSUME NEW a \in 0..(GlobalWindow - 1)
               PROVE  Cardinality(Aged(passed', k, a)) <= ages[a]
    BY <1>4
  <2>1. /\ Cardinality(Aged(passed, k, a)) <= hits[k].ages[a] /\ hits[k].ages[a] \in Nat
        /\ Cardinality(Aged(passed, k, a)) \in Nat /\ Cardinality(Aged(passed', k, a)) \in Nat
    BY <1>2, WithinFew, Few DEF MemoryAt, Counter
  <2>2. CASE a # 0
    <3>1. Aged(passed', k, a) \subseteq Aged(passed, k, a)
      BY <1>0, <1>1, <1>7, <2>2, PassedOf
    <3>2. Cardinality(Aged(passed', k, a)) <= Cardinality(Aged(passed, k, a))
      BY <3>1, WithinFew, Fewer
    <3>3. QED
      BY <1>3, <2>1, <2>2, <3>2
  <2>3. CASE a = 0
    <3>1. Aged(passed', k, a) \subseteq Aged(passed, k, a) \cup {r}
      BY <1>0, <1>1, <1>7, PassedOf
    <3>2. Cardinality(Aged(passed', k, a)) <= Cardinality(Aged(passed, k, a)) + 1
      BY <3>1, WithinFew, OneMore
    <3>3. QED
      BY SMTT(30), <1>3, <2>1, <2>3, <3>2
  <2>4. QED
    BY <2>2, <2>3
<1>9. Cardinality(Within(passed', k, WindowOf(k))) <= MaxOf(k)
  <2>1. CASE Count(hit, k) <= MaxOf(k) /\ Passes(r, k)
    <3>1. Cardinality(Within(passed', k, WindowOf(k))) <= Count(hit, k)
      BY <1>1, <1>4, <1>7, <1>8, WithinCount
    <3>2. Count(hit, k) = SumOver(hit.ages, 0..(WindowOf(k) - 1))
      BY DEF Count, SumOver
    <3>3. Count(hit, k) \in Int
      <4>1. 0..(WindowOf(k) - 1) \subseteq 0..(GlobalWindow - 1) /\ IsFiniteSet(0..(WindowOf(k) - 1))
        <5>1. WindowOf(k) \in 1..GlobalWindow
          BY <1>1, KeyFacts
        <5>2. QED
          BY <5>1, FS_Interval
      <4>2. \A a \in 0..(WindowOf(k) - 1) : ages[a] \in Int
        BY SMTT(30), <1>3, <4>1
      <4>3. SumOver(ages, 0..(WindowOf(k) - 1)) \in Int
        BY <4>1, <4>2, SumType
      <4>4. QED
        BY <1>4, <3>2, <4>3
    <3>4. MaxOf(k) \in Nat /\ Cardinality(Within(passed', k, WindowOf(k))) \in Nat
      BY <1>1, KeyFacts, WithinFew, Few
    <3>5. QED
      BY <2>1, <3>1, <3>3, <3>4
  <2>2. CASE passed' = passed
    BY <1>2, <2>2 DEF MemoryAt
  <2>3. QED
    BY <1>7, <2>1, <2>2
<1>10. hits'[k] = hit
  BY <1>0, <1>1, <1>5
<1>11. Pending(k)' = {}
  <2>1. req'[r].pc \notin Expiring
    BY <1>7 DEF After, Expiring
  <2>2. QED
    BY <1>2, <1>7, <2>1, PendingMoves DEF MemoryAt
<1>12. GateAt(k)'
  <2>1. backend' = "memory"
    BY <1>0, <1>6 DEF config
  <2>2. /\ Pending(k)' = {} /\ hits'[k].ttl = 0
        /\ \A a \in 0..(GlobalWindow - 1) : Cardinality(Aged(passed', k, a)) <= hits'[k].ages[a]
        /\ Cardinality(Within(passed', k, WindowOf(k))) <= MaxOf(k)
    BY <1>2, <1>4, <1>8, <1>9, <1>10, <1>11 DEF MemoryAt
  <2>3. MemoryAt(k)'
    BY <2>2 DEF MemoryAt, WindowOf, MaxOf
  <2>4. QED
    BY <2>1, <2>3 DEF GateAt
<1>13. QED
  BY <1>1, <1>4, <1>5, <1>6, <1>7, <1>12, GateStep

\* The counts of a key in Redis, as numbers.
LEMMA RedisTypes ==
  ASSUME TypeOK, NEW k \in Keys
  PROVE  /\ hits[k].n \in Nat /\ hits[k].ttl \in Nat /\ MaxOf(k) \in Nat /\ WindowOf(k) \in Nat \ {0}
         /\ Cardinality(Pending(k)) \in Nat /\ Cardinality(Pending(k)') \in Nat
         /\ \A p, h : Cardinality(Within(p, k, h)) \in Nat
<1>1. hits[k].n \in Nat /\ hits[k].ttl \in Nat
  BY DEF TypeOK, Counter
<1>2. MaxOf(k) \in Nat /\ WindowOf(k) \in Nat \ {0}
  <2>1. WindowOf(k) \in 1..GlobalWindow /\ MaxOf(k) \in Nat
    BY KeyFacts
  <2>2. QED
    BY <2>1
<1>3. /\ Cardinality(Pending(k)) \in Nat /\ Cardinality(Pending(k)') \in Nat
      /\ \A p, h : Cardinality(Within(p, k, h)) \in Nat
  BY WithinFew, Few
<1>4. QED
  BY <1>1, <1>2, <1>3

\* A request that passes is one more within any span; one that does not is none.
LEMMA PassedCounts ==
  ASSUME TypeOK, NEW r \in Requests, NEW k \in Keys, Asks(r, k), Passes(r, k) \/ passed' = passed
  PROVE  \A h : Cardinality(Within(passed', k, h)) <=
                  Cardinality(Within(passed, k, h)) + (IF Passes(r, k) THEN 1 ELSE 0)
<1>1. ASSUME NEW h
      PROVE  Cardinality(Within(passed', k, h)) <=
                Cardinality(Within(passed, k, h)) + (IF Passes(r, k) THEN 1 ELSE 0)
  <2>1. CASE Passes(r, k)
    <3>1. Within(passed', k, h) \subseteq Within(passed, k, h) \cup {r}
      BY <2>1, PassedOf
    <3>2. Cardinality(Within(passed', k, h)) <= Cardinality(Within(passed, k, h)) + 1
      BY <3>1, WithinFew, OneMore
    <3>3. QED
      BY <2>1, <3>2
  <2>2. CASE ~Passes(r, k)
    <3>1. Within(passed', k, h) = Within(passed, k, h)
      BY <2>2
    <3>2. Cardinality(Within(passed, k, h)) \in Nat
      BY WithinFew, Few
    <3>3. QED
      BY <2>2, <3>1, <3>2
  <2>3. QED
    BY <2>1, <2>2
<1>2. QED
  BY <1>1

LEMMA CheckIncrKeeps ==
  ASSUME PoolInv, NEW r \in Requests, CheckIncr(r)
  PROVE  PoolInv'
<1>k. PICK k \in Keys : k = KeyOf(r)
  BY KeyAsked
<1> DEFINE n == hits[k].n + 1
           hit == [hits[k] EXCEPT !.n = n]
           ttl == hits[k].ttl
<1>0. TypeOK /\ GateInv /\ hits \in [Keys -> Counter] /\ backend = "redis"
  BY DEF PoolInv, PickInv, TypeOK, CheckIncr
<1>1. Asks(r, k) /\ RedisAt(k) /\ hits[k] \in Counter
  BY <1>k, <1>0, KeyAsked DEF GateInv, GateAt
<1>2. /\ req[r].pc \in {"ip", "global"}
      /\ UNCHANGED <<config, picking, usage, granted, calendar, ledger, used>>
      /\ hits' = [hits EXCEPT ![k] = hit]
      /\ (n = 1 /\ Goto(r, Expires(k)) /\ passed' = passed) \/ (n # 1 /\ Pass(r, k, n))
  BY <1>k, <1>0, Zenon DEF CheckIncr, Expires
<1>3. /\ hits[k].n \in Nat /\ ttl \in Nat /\ MaxOf(k) \in Nat /\ WindowOf(k) \in Nat \ {0}
      /\ Cardinality(Pending(k)) \in Nat /\ Cardinality(Pending(k)') \in Nat
      /\ \A p, h : Cardinality(Within(p, k, h)) \in Nat
  BY <1>0, RedisTypes
<1>4. hit \in Counter /\ hit.n = n /\ hit.ttl = ttl
  <2>1. n \in Nat
    BY <1>3
  <2> HIDE DEF n
  <2>2. QED
    BY <1>1, <2>1 DEF Counter
<1> HIDE DEF hit
<1>5. hits'[k] = hit
  BY <1>0, <1>2
<1> DEFINE about == Cardinality(Pending(k))
           about2 == Cardinality(Pending(k)')
           now == Cardinality(Within(passed, k, 1))
           now2 == Cardinality(Within(passed', k, 1))
           since == Cardinality(Within(passed, k, Since(k, ttl)))
           since2 == Cardinality(Within(passed', k, Since(k, ttl)))
<1>6. RedisCounts(k, hits[k].n, ttl, about, now, since)
  BY <1>1 DEF RedisAt
<1>7. RedisAt(k)' <=> RedisCounts(k, n, ttl, about2, now2, since2)
  BY <1>4, <1>5 DEF RedisAt, RedisCounts, Since, WindowOf, MaxOf
<1>8. backend' = "redis"
  BY <1>0, <1>2 DEF config
<1>9. about \in Nat /\ about2 \in Nat /\ now \in Nat /\ now2 \in Nat /\ since \in Nat /\ since2 \in Nat
  BY <1>3
<1>10. CASE n = 1
  <2>1. Goto(r, Expires(k)) /\ passed' = passed
    BY <1>2, <1>10
  <2>2. Expires(k) \in States
    BY DEF Expires, States
  <2>3. MovesOnly(r) /\ req'[r].pc = Expires(k)
    BY <1>0, <2>1, <2>2, Gone
  <2>4. hits[k].n = 0
    BY <1>3, <1>10
  <2>5. about2 <= about + 1
    <3>1. Pending(k)' \subseteq Pending(k) \cup {r}
      BY <2>3, PendingMoves
    <3>2. QED
      BY <3>1, WithinFew, OneMore
  <2>6. now2 = now /\ since2 = since
    BY <2>1
  <2>7. RedisCounts(k, n, ttl, about2, now2, since2)
    <3> HIDE DEF n, ttl, about, about2, now, now2, since, since2
    <3>1. QED
      BY <1>3, <1>6, <1>9, <1>10, <2>4, <2>5, <2>6 DEF RedisCounts
  <2>8. GateAt(k)'
    BY <1>7, <1>8, <2>7 DEF GateAt
  <2>9. passed' \in [Requests -> [{"ip", "global"} -> 0..Never]]
    BY <1>0, <2>1 DEF TypeOK
  <2>10. QED
    BY <1>1, <1>2, <1>4, <2>1, <2>3, <2>8, <2>9, GateStep
<1>11. CASE n # 1
  <2>1. Pass(r, k, n)
    BY <1>2, <1>11
  <2>2. /\ MovesOnly(r) /\ req'[r].pc \in {After(k), "refused"}
        /\ passed' \in [Requests -> [{"ip", "global"} -> 0..Never]]
        /\ (n <= MaxOf(k) /\ Passes(r, k)) \/ passed' = passed
    BY <1>0, <2>1, PassDoes
  <2>3. about2 <= about
    <3>1. req'[r].pc \notin Expiring
      BY <2>2 DEF After, Expiring
    <3>2. Pending(k)' \subseteq Pending(k)
      BY <2>2, <3>1, PendingMoves
    <3>3. QED
      BY <3>2, WithinFew, Fewer
  <2>4. CASE n <= MaxOf(k) /\ Passes(r, k)
    <3>1. now2 <= now + 1 /\ since2 <= since + 1
      BY <1>0, <1>1, <2>4, PassedCounts
    <3>2. /\ n = hits[k].n + 1 /\ hits[k].n \in Nat /\ ttl \in Nat /\ MaxOf(k) \in Nat
          /\ n <= MaxOf(k)
      BY <1>3, <2>4
    <3>3. RedisCounts(k, n, ttl, about2, now2, since2)
      <4> HIDE DEF n, ttl, about, about2, now, now2, since, since2
      <4>1. QED
        BY SMTT(30), <1>6, <1>9, <2>3, <3>1, <3>2 DEF RedisCounts
    <3>4. GateAt(k)'
      BY <1>7, <1>8, <3>3 DEF GateAt
    <3>5. QED
      BY <1>1, <1>2, <1>4, <2>2, <2>4, <3>4, GateStep
  <2>5. CASE passed' = passed
    <3>1. now2 = now /\ since2 = since
      BY <2>5
    <3>2. n = hits[k].n + 1 /\ hits[k].n \in Nat /\ ttl \in Nat /\ MaxOf(k) \in Nat
      BY <1>3
    <3>3. RedisCounts(k, n, ttl, about2, now2, since2)
      <4> HIDE DEF n, ttl, about, about2, now, now2, since, since2
      <4>1. QED
        BY SMTT(30), <1>6, <1>9, <2>3, <3>1, <3>2 DEF RedisCounts
    <3>4. GateAt(k)'
      BY <1>7, <1>8, <3>3 DEF GateAt
    <3>5. QED
      BY <1>1, <1>2, <1>4, <2>2, <2>5, <3>4, GateStep
  <2>6. QED
    BY <2>2, <2>4, <2>5
<1>12. QED
  BY <1>10, <1>11

LEMMA CheckExpireKeeps ==
  ASSUME PoolInv, NEW r \in Requests, CheckExpire(r)
  PROVE  PoolInv'
<1>k. PICK k \in Keys : k = KeyOf(r)
  BY KeyAsked
<1> DEFINE ttl == WindowOf(k)
           hit == [hits[k] EXCEPT !.ttl = ttl]
           n == hits[k].n
<1>0. TypeOK /\ GateInv /\ hits \in [Keys -> Counter] /\ r \in Pending(k)
  BY <1>k DEF PoolInv, PickInv, TypeOK, CheckExpire, Pending, Expiring
<1>1. Asks(r, k) /\ hits[k] \in Counter /\ GateAt(k)
  BY <1>k, <1>0, KeyAsked DEF GateInv
<1>2. backend # "memory" /\ RedisAt(k)
  BY <1>0, <1>1 DEF GateAt, MemoryAt
<1>3. /\ req[r].pc \in Expiring
      /\ UNCHANGED <<config, picking, usage, granted, calendar, ledger, used>>
      /\ hits' = [hits EXCEPT ![k] = hit] /\ Pass(r, k, 1)
  BY <1>k, <1>0, Zenon DEF CheckExpire, Expiring
<1>4. /\ n \in Nat /\ MaxOf(k) \in Nat /\ ttl \in Nat \ {0}
      /\ Cardinality(Pending(k)) \in Nat /\ Cardinality(Pending(k)') \in Nat
      /\ \A p, h : Cardinality(Within(p, k, h)) \in Nat
  BY <1>0, RedisTypes
<1>5. hit \in Counter /\ hit.n = n /\ hit.ttl = ttl
  BY <1>1, <1>4 DEF Counter
<1> HIDE DEF hit
<1>6. hits'[k] = hit
  BY <1>0, <1>3
<1> DEFINE about == Cardinality(Pending(k))
           about2 == Cardinality(Pending(k)')
           now == Cardinality(Within(passed, k, 1))
           now2 == Cardinality(Within(passed', k, 1))
           since == Cardinality(Within(passed, k, Since(k, hits[k].ttl)))
<1>7. RedisCounts(k, n, hits[k].ttl, about, now, since)
  BY <1>2 DEF RedisAt
<1>8. Since(k, ttl) = 1
  BY <1>4 DEF Since
<1>9. RedisAt(k)' <=> RedisCounts(k, n, ttl, about2, now2, now2)
  BY <1>5, <1>6, <1>8 DEF RedisAt, RedisCounts, Since, WindowOf, MaxOf
<1>10. /\ MovesOnly(r) /\ req'[r].pc \in {After(k), "refused"}
       /\ passed' \in [Requests -> [{"ip", "global"} -> 0..Never]]
       /\ (1 <= MaxOf(k) /\ Passes(r, k)) \/ passed' = passed
  BY <1>0, <1>3, PassDoes
<1>11. about >= 1 /\ about2 <= about - 1
  <2>1. req'[r].pc \notin Expiring
    BY <1>10 DEF After, Expiring
  <2>2. Pending(k)' \subseteq Pending(k) \ {r}
    BY <1>10, <2>1, PendingMoves
  <2>3. Pending(k) \in SUBSET Requests /\ Pending(k) \ {r} \in SUBSET Requests
    BY WithinFew
  <2>4. Cardinality(Pending(k)') <= Cardinality(Pending(k) \ {r})
    BY <2>2, <2>3, Fewer
  <2>5. Cardinality(Pending(k) \ {r}) = Cardinality(Pending(k)) - 1 /\ Cardinality(Pending(k)) >= 1
    BY <1>0, <2>3, OneLess
  <2>6. QED
    BY <2>4, <2>5
<1>12. /\ now2 <= now + (IF Passes(r, k) THEN 1 ELSE 0) /\ (Passes(r, k) => 1 <= MaxOf(k) \/ now2 = now)
  <2>1. now2 <= now + (IF Passes(r, k) THEN 1 ELSE 0)
    BY <1>0, <1>1, <1>10, PassedCounts
  <2>2. QED
    BY <1>10, <2>1
<1>13. now \in Nat /\ now2 \in Nat /\ about \in Nat /\ about2 \in Nat
  BY <1>4
<1>14. WindowOf(k) = ttl
  OBVIOUS
<1>15. RedisCounts(k, n, ttl, about2, now2, now2)
  <2> HIDE DEF n, ttl, about, about2, now, now2, since
  <2>1. QED
    BY <1>4, <1>7, <1>11, <1>12, <1>13, <1>14 DEF RedisCounts
<1>16. GateAt(k)'
  <2>1. backend' # "memory"
    BY <1>2, <1>3 DEF config
  <2>2. QED
    BY <1>9, <1>15, <2>1 DEF GateAt
<1>17. QED
  BY <1>1, <1>3, <1>5, <1>10, <1>16, GateStep

LEMMA CheckUnreachableKeeps ==
  ASSUME PoolInv, NEW r \in Requests, CheckUnreachable(r)
  PROVE  PoolInv'
<1>0. TypeOK /\ PickInv
  BY DEF PoolInv, PickInv
<1>1. /\ req[r].pc \notin {"ok", "failed"} /\ Refuse(r) /\ used' \in [crash : Nat, fault : Nat]
      /\ UNCHANGED <<config, picking, quotas, calendar, ledger>>
  <2>1. used \in [crash : Nat, fault : Nat]
    BY <1>0 DEF TypeOK
  <2>2. used.fault + 1 \in Nat
    BY <2>1
  <2>3. used' = [used EXCEPT !.fault = used.fault + 1]
    BY DEF CheckUnreachable
  <2>4. QED
    BY <2>1, <2>2, <2>3 DEF CheckUnreachable
<1>2. MovesOnly(r) /\ req'[r].pc = "refused"
  BY <1>0, <1>1, Refused
<1>3. TypeOK'
  <2>1. /\ hits' \in [Keys -> Counter] /\ usage' \in [Days -> Nat]
        /\ passed' \in [Requests -> [{"ip", "global"} -> 0..Never]]
        /\ granted' \in [Requests -> Days \cup {NoSlug}] /\ rows' \in Seq(Row)
        /\ second' \in Requests \cup {NoSlug}
    BY <1>0, <1>1 DEF TypeOK, quotas, ledger
  <2>2. QED
    BY <1>0, <1>1, <1>2, <2>1, RestTypes
<1>4. PickInv'
  BY <1>0, <1>1, <1>2, <1>3, PickApart
<1>5. backend' = backend /\ rows' = rows
  BY <1>1 DEF config, ledger
<1>6. QED
  BY <1>1, <1>2, <1>4, <1>5, OnlyMoves DEF Expiring

-----------------------------------------------------------------------------
(* The daily allowance. *)

LEMMA DayFew ==
  \A d : /\ GrantedOn(d) \in SUBSET Requests /\ GrantedOn(d)' \in SUBSET Requests
         /\ CountingOn(d) \in SUBSET Requests /\ CountingOn(d)' \in SUBSET Requests
         /\ Cardinality(GrantedOn(d)) \in Nat /\ Cardinality(GrantedOn(d)') \in Nat
         /\ Cardinality(CountingOn(d)) \in Nat /\ Cardinality(CountingOn(d)') \in Nat
<1>1. \A d : /\ GrantedOn(d) \in SUBSET Requests /\ GrantedOn(d)' \in SUBSET Requests
             /\ CountingOn(d) \in SUBSET Requests /\ CountingOn(d)' \in SUBSET Requests
  BY DEF GrantedOn, CountingOn
<1>2. QED
  BY <1>1, Few

\* What a step of the allowance leaves alone.
LEMMA DayStep ==
  ASSUME PoolInv, NEW r \in Requests, MovesOnly(r), req[r].pc \in {"bump", "count"},
         req'[r].pc \in {"count", "record", "refused"},
         usage' \in [Days -> Nat], granted' \in [Requests -> Days \cup {NoSlug}],
         UNCHANGED <<config, picking, hits, passed, calendar, ledger, used>>, DayInv'
  PROVE  PoolInv'
<1>0. /\ TypeOK /\ PickInv /\ GateInv /\ LedgerNeverOverstates
      /\ backend' = backend /\ rows' = rows /\ second' = second
  BY DEF PoolInv, PickInv, config, ledger
<1>1. TypeOK'
  <2>1. /\ hits' \in [Keys -> Counter] /\ passed' \in [Requests -> [{"ip", "global"} -> 0..Never]]
        /\ rows' \in Seq(Row) /\ second' \in Requests \cup {NoSlug}
        /\ used' \in [crash : Nat, fault : Nat]
    BY <1>0 DEF TypeOK
  <2>2. QED
    BY <1>0, <2>1, RestTypes
<1>2. PickInv'
  BY <1>0, <1>1, PickApart
<1>3. GateInv'
  <2>1. \A q \in Requests : req'[q] = req[q] \/ req'[q].pc \notin Expiring
    BY DEF MovesOnly, Expiring
  <2>2. QED
    BY <1>0, <2>1, GatesRest
<1>4. LedgerNeverOverstates'
  <2>1. \A q \in Requests : req[q].pc \in {"ok", "failed"} => req'[q] = req[q]
    BY DEF MovesOnly
  <2>2. \A slug, ok : Marked(rows', slug, ok) \subseteq Marked(rows, slug, ok)
    BY <1>0
  <2>3. QED
    BY <1>0, <1>1, <2>1, <2>2, LedgerRests
<1>5. QED
  BY <1>2, <1>3, <1>4 DEF PoolInv

LEMMA BumpKeeps ==
  ASSUME PoolInv, NEW r \in Requests, Bump(r)
  PROVE  PoolInv'
<1>0. /\ TypeOK /\ DayInv /\ day \in Days /\ usage \in [Days -> Nat] /\ usage[day] \in Nat
      /\ req \in [Requests -> Locals] /\ req[r] \in Locals
      /\ granted \in [Requests -> Days \cup {NoSlug}]
  BY DEF PoolInv, PickInv, TypeOK
<1> DEFINE v == [req[r] EXCEPT !.pc = "count", !.day = day]
           u == usage[day] + 1
<1>1. /\ req[r].pc = "bump" /\ req' = [req EXCEPT ![r] = v] /\ usage' = [usage EXCEPT ![day] = u]
      /\ UNCHANGED <<config, picking, hits, passed, granted, calendar, ledger, used>>
  BY <1>0 DEF Bump
<1>2. v \in Locals /\ v.pc = "count" /\ v.day = day
  BY <1>0 DEF Locals, States
<1>3. u \in Nat
  BY <1>0
<1> HIDE DEF v
<1>4. MovesOnly(r) /\ req'[r] = v
  BY <1>0, <1>1, <1>2, SetLocals
<1>5. usage' \in [Days -> Nat] /\ usage'[day] = u /\ \A d \in Days : d # day => usage'[d] = usage[d]
  <2> HIDE DEF u
  <2>1. QED
    BY <1>0, <1>1, <1>3
<1>6. DayInv'
  <2>1. \A q \in Requests : req'[q].pc = "count" => req'[q].day \in Days
    BY <1>0, <1>2, <1>4 DEF DayInv, MovesOnly
  <2>2. ASSUME NEW d \in Days
        PROVE  Cardinality(GrantedOn(d)') + Cardinality(CountingOn(d)') <= usage'[d]
    <3>1. GrantedOn(d)' = GrantedOn(d)
      BY <1>1 DEF GrantedOn
    <3>2. Cardinality(GrantedOn(d)) + Cardinality(CountingOn(d)) <= usage[d] /\ usage[d] \in Nat
      BY <1>0 DEF DayInv
    <3>3. CASE d = day
      <4>1. CountingOn(d)' \subseteq CountingOn(d) \cup {r}
        BY <1>4 DEF CountingOn, MovesOnly
      <4>2. Cardinality(CountingOn(d)') <= Cardinality(CountingOn(d)) + 1
        BY <4>1, DayFew, OneMore
      <4>3. QED
        BY <1>5, <3>1, <3>2, <3>3, <4>2, DayFew
    <3>4. CASE d # day
      <4>1. CountingOn(d)' \subseteq CountingOn(d)
        BY <1>2, <1>4, <3>4 DEF CountingOn, MovesOnly
      <4>2. Cardinality(CountingOn(d)') <= Cardinality(CountingOn(d))
        BY <4>1, DayFew, Fewer
      <4>3. QED
        BY <1>5, <3>1, <3>2, <3>4, <4>2, DayFew
    <3>5. QED
      BY <3>3, <3>4
  <2>3. DailyCapHolds'
    BY <1>0, <1>1 DEF DayInv, DailyCapHolds
  <2>4. QED
    BY <2>1, <2>2, <2>3 DEF DayInv, Days
<1>7. QED
  <2>1. granted' \in [Requests -> Days \cup {NoSlug}] /\ req'[r].pc = "count"
    BY <1>0, <1>1, <1>2, <1>4
  <2>2. QED
    BY <1>1, <1>4, <1>5, <1>6, <2>1, DayStep

LEMMA BumpReadKeeps ==
  ASSUME PoolInv, NEW r \in Requests, BumpRead(r)
  PROVE  PoolInv'
<1>0. /\ TypeOK /\ DayInv /\ usage \in [Days -> Nat] /\ DailyCap \in Nat
      /\ req \in [Requests -> Locals] /\ req[r] \in Locals
      /\ granted \in [Requests -> Days \cup {NoSlug}]
  BY DEF PoolInv, PickInv, TypeOK
<1>1. /\ req[r].pc = "count" /\ r \in CountingOn(req[r].day) /\ req[r].day \in Days
      /\ UNCHANGED <<config, picking, hits, usage, passed, calendar, ledger, used>>
  BY <1>0 DEF BumpRead, CountingOn, DayInv
<1>2. PICK b \in Days : b = req[r].day
  BY <1>1
<1>3. CASE ~Exceeds(usage[b])
  <2> DEFINE v == [req[r] EXCEPT !.pc = "record", !.day = NoSlug]
  <2>1. req' = [req EXCEPT ![r] = v] /\ granted' = [granted EXCEPT ![r] = b]
    BY <1>0, <1>2, <1>3 DEF BumpRead
  <2>2. v \in Locals /\ v.pc = "record"
    BY <1>0 DEF Locals, States, Days
  <2> HIDE DEF v
  <2>3. MovesOnly(r) /\ req'[r] = v
    BY <1>0, <2>1, <2>2, SetLocals
  <2>4. granted' \in [Requests -> Days \cup {NoSlug}] /\ granted'[r] = b
        /\ \A q \in Requests \ {r} : granted'[q] = granted[q]
    BY <1>0, <2>1
  <2>5. usage[b] <= DailyCap /\ usage[b] \in Nat
    BY <1>0, <1>3 DEF Exceeds
  <2>6. ASSUME NEW d \in Days
        PROVE  /\ Cardinality(GrantedOn(d)') + Cardinality(CountingOn(d)') <= usage'[d]
               /\ Cardinality(GrantedOn(d)') <= DailyCap
    <3>1. /\ Cardinality(GrantedOn(d)) + Cardinality(CountingOn(d)) <= usage[d] /\ usage[d] \in Nat
          /\ Cardinality(GrantedOn(d)) <= DailyCap /\ usage'[d] = usage[d]
      BY <1>0, <1>1 DEF DayInv, DailyCapHolds, GrantedOn
    <3>2. CASE d = b
      <4>1. /\ CountingOn(d)' \subseteq CountingOn(d) \ {r} /\ r \in CountingOn(d)
            /\ GrantedOn(d)' \subseteq GrantedOn(d) \cup {r}
        BY <1>1, <1>2, <2>2, <2>3, <2>4, <3>2 DEF CountingOn, GrantedOn, MovesOnly
      <4>2. Cardinality(GrantedOn(d)') <= Cardinality(GrantedOn(d)) + 1
        BY <4>1, DayFew, OneMore
      <4>3. Cardinality(CountingOn(d)') <= Cardinality(CountingOn(d)) - 1
        <5>1. Cardinality(CountingOn(d) \ {r}) = Cardinality(CountingOn(d)) - 1
          BY <4>1, DayFew, OneLess
        <5>2. CountingOn(d) \ {r} \in SUBSET Requests
          BY DayFew
        <5>3. Cardinality(CountingOn(d)') <= Cardinality(CountingOn(d) \ {r})
          BY <4>1, <5>2, Fewer
        <5>4. QED
          BY <5>1, <5>3
      <4>4. QED
        BY <2>5, <3>1, <3>2, <4>2, <4>3, DayFew
    <3>3. CASE d # b
      <4>1. CountingOn(d)' \subseteq CountingOn(d) /\ GrantedOn(d)' \subseteq GrantedOn(d)
        BY <2>2, <2>3, <2>4, <3>3 DEF CountingOn, GrantedOn, MovesOnly
      <4>2. /\ Cardinality(GrantedOn(d)') <= Cardinality(GrantedOn(d))
            /\ Cardinality(CountingOn(d)') <= Cardinality(CountingOn(d))
        BY <4>1, DayFew, Fewer
      <4>3. QED
        BY <1>0, <3>1, <4>2, DayFew
    <3>4. QED
      BY <3>2, <3>3
  <2>7. \A q \in Requests : req'[q].pc = "count" => req'[q].day \in Days
    BY <1>0, <2>2, <2>3 DEF DayInv, MovesOnly
  <2>8. DayInv'
    <3>1. DailyCapHolds'
      BY <2>6 DEF DailyCapHolds, GrantedOn, Days
    <3>2. QED
      BY <2>6, <2>7, <3>1 DEF DayInv, Days
  <2>9. usage' \in [Days -> Nat]
    BY <1>0, <1>1
  <2>10. QED
    BY <1>1, <2>2, <2>3, <2>4, <2>8, <2>9, DayStep
<1>4. CASE Exceeds(usage[b])
  <2>1. Refuse(r) /\ granted' = granted
    BY <1>2, <1>4 DEF BumpRead
  <2>2. MovesOnly(r) /\ req'[r].pc = "refused"
    BY <1>0, <2>1, Refused
  <2>3. DayInv'
    <3>1. \A q \in Requests : req'[q] = req[q] \/ req'[q].pc # "count"
      BY <2>2 DEF MovesOnly
    <3>2. usage' = usage
      BY <1>1
    <3>3. QED
      BY <1>0, <2>1, <3>1, <3>2, DayRests
  <2>4. QED
    <3>1. usage' \in [Days -> Nat] /\ granted' \in [Requests -> Days \cup {NoSlug}]
      BY <1>0, <1>1, <2>1
    <3>2. QED
      BY <1>1, <2>2, <2>3, <3>1, DayStep
<1>5. QED
  BY <1>3, <1>4

-----------------------------------------------------------------------------
(* The usage ledger. *)

LEMMA MaxIn ==
  ASSUME NEW S \in SUBSET Int, IsFiniteSet(S), S # {}
  PROVE  Max(S) \in S
<1> DEFINE From(x) == {y \in S : y >= x}
           B == {From(x) : x \in S}
<1>1. B # {} /\ \A s \in B : IsFiniteSet(s)
  <2>1. \A x \in S : From(x) \in SUBSET S
    OBVIOUS
  <2>2. \A x \in S : IsFiniteSet(From(x))
    <3> HIDE DEF From
    <3>1. QED
      BY <2>1, FS_Subset
  <2> HIDE DEF From
  <2>3. QED
    BY <2>2
<1>2. PICK s \in B : \A t \in B : ~(t \subseteq s /\ t # s)
  <2> HIDE DEF B
  <2>1. QED
    BY <1>1, LeastSet
<1>3. PICK x \in S : s = From(x)
  BY <1>2
<1>4. ASSUME NEW y \in S, y > x PROVE FALSE
  <2>1. From(y) \in B
    OBVIOUS
  <2>2. From(y) \subseteq s
    <3>1. \A z \in S : z >= y => z >= x
      BY <1>4
    <3>2. QED
      BY <1>3, <3>1
  <2>3. x \in s /\ x \notin From(y)
    BY <1>3, <1>4
  <2>4. QED
    BY <1>2, <2>1, <2>2, <2>3
<1>5. \A y \in S : x >= y
  BY <1>4
<1>6. QED
  BY <1>5 DEF Max

\* An outcome marks one row, of its slug and with its verdict.
LEMMA OutcomeMarks ==
  ASSUME TypeOK, NEW s, NEW v \in {"ok", "failed"}
  PROVE  /\ Outcome(s, v) \in Seq(Row)
         /\ \E m : Marked(Outcome(s, v), s, v) \subseteq Marked(rows, s, v) \cup {m}
         /\ \A slug : \A ok \in {"ok", "failed"} :
                slug # s \/ ok # v => Marked(Outcome(s, v), slug, ok) \subseteq Marked(rows, slug, ok)
<1>0. rows \in Seq(Row)
  BY DEF TypeOK
<1>1. CASE OpenRows(s) = {}
  <2>1. Outcome(s, v) = rows
    BY <1>1 DEF Outcome
  <2>2. QED
    BY <1>0, <2>1
<1>2. CASE OpenRows(s) # {}
  <2>1. /\ OpenRows(s) \in SUBSET Int /\ IsFiniteSet(OpenRows(s)) /\ OpenRows(s) \subseteq DOMAIN rows
    <3>1. DOMAIN rows = 1..Len(rows) /\ IsFiniteSet(1..Len(rows)) /\ 1..Len(rows) \subseteq Int
      BY <1>0, FS_Interval
    <3>2. OpenRows(s) \subseteq DOMAIN rows
      BY DEF OpenRows
    <3>3. QED
      BY <3>1, <3>2, FS_Subset
  <2>2. PICK m \in OpenRows(s) : m = Max(OpenRows(s))
    BY <1>2, <2>1, MaxIn
  <2>3. m \in DOMAIN rows /\ rows[m].slug = s /\ rows[m] \in Row
    BY <1>0, <2>1, <2>2 DEF OpenRows
  <2> DEFINE row == [rows[m] EXCEPT !.ok = v]
  <2>4. row \in Row /\ row = [slug |-> s, ok |-> v]
    BY SMTT(30), <2>3 DEF Row
  <2>5. Outcome(s, v) = [rows EXCEPT ![m] = row]
    BY <1>2, <2>2, <2>3 DEF Outcome
  <2> HIDE DEF row
  <2>6. /\ Outcome(s, v) \in Seq(Row) /\ DOMAIN Outcome(s, v) = DOMAIN rows
        /\ Outcome(s, v)[m] = row /\ \A i \in DOMAIN rows \ {m} : Outcome(s, v)[i] = rows[i]
    BY SMTT(30), <1>0, <2>3, <2>4, <2>5
  <2>7. Marked(Outcome(s, v), s, v) \subseteq Marked(rows, s, v) \cup {m}
    BY <2>6 DEF Marked
  <2>8. ASSUME NEW slug, NEW ok \in {"ok", "failed"}, slug # s \/ ok # v
        PROVE  Marked(Outcome(s, v), slug, ok) \subseteq Marked(rows, slug, ok)
    <3>1. row # [slug |-> slug, ok |-> ok]
      BY <2>4, <2>8
    <3>2. QED
      BY <2>6, <3>1 DEF Marked
  <2>9. QED
    BY <2>6, <2>7, <2>8
<1>3. QED
  BY <1>1, <1>2

\* What a step of a launch leaves alone.
LEMMA LaunchStep ==
  ASSUME PoolInv, NEW r \in Requests, MovesOnly(r), req[r].pc \in {"record", "build"},
         req'[r].pc \in {"build", "ok", "failed"},
         rows' \in Seq(Row), second' \in Requests \cup {NoSlug}, used' \in [crash : Nat, fault : Nat],
         UNCHANGED <<config, picking, quotas, calendar>>,
         TypeOK' => LedgerNeverOverstates'
  PROVE  PoolInv'
<1>0. /\ TypeOK /\ PickInv /\ GateInv /\ DayInv
      /\ backend' = backend /\ UNCHANGED <<hits, usage, passed, granted>>
  BY DEF PoolInv, PickInv, config, quotas
<1>1. TypeOK'
  <2>1. /\ hits' \in [Keys -> Counter] /\ passed' \in [Requests -> [{"ip", "global"} -> 0..Never]]
        /\ usage' \in [Days -> Nat] /\ granted' \in [Requests -> Days \cup {NoSlug}]
    BY <1>0 DEF TypeOK
  <2>2. QED
    BY <1>0, <2>1, RestTypes
<1>2. PickInv'
  BY <1>0, <1>1, PickApart
<1>3. GateInv' /\ DayInv'
  <2>1. \A q \in Requests : req'[q] = req[q] \/ req'[q].pc \notin Expiring \cup {"count"}
    BY DEF MovesOnly, Expiring
  <2>2. QED
    BY <1>0, <2>1, GatesRest, DayRests
<1>4. QED
  BY <1>1, <1>2, <1>3 DEF PoolInv

LEMMA RecordKeeps ==
  ASSUME PoolInv, NEW r \in Requests, Record(r)
  PROVE  PoolInv'
<1>0. /\ TypeOK /\ req \in [Requests -> Locals] /\ req[r] \in Locals /\ rows \in Seq(Row)
      /\ used \in [crash : Nat, fault : Nat] /\ second \in Requests \cup {NoSlug}
      /\ LedgerNeverOverstates
  BY DEF PoolInv, PickInv, TypeOK
<1>1. PICK slug \in SlugsNow(r) :
        /\ req' = [req EXCEPT ![r].pc = "build", ![r].slug = slug]
        /\ second' = slug
        /\ \/ rows' = Append(rows, [slug |-> slug, ok |-> "open"]) /\ used' = used
           \/ used' = [used EXCEPT !.fault = used.fault + 1] /\ rows' = rows
  BY <1>0 DEF Record
<1>2. slug \in Requests
  BY <1>0 DEF SlugsNow
<1> DEFINE v == [req[r] EXCEPT !.pc = "build", !.slug = slug]
<1>3. v \in Locals /\ v.pc = "build" /\ req' = [req EXCEPT ![r] = v]
  BY <1>0, <1>1, <1>2 DEF Locals, States
<1> HIDE DEF v
<1>4. MovesOnly(r) /\ req'[r] = v
  BY <1>0, <1>3, SetLocals
<1> DEFINE row == [slug |-> slug, ok |-> "open"]
<1>5. row \in Row /\ \A s : \A ok \in {"ok", "failed"} : row # [slug |-> s, ok |-> ok]
  BY <1>2 DEF Row
<1> HIDE DEF row
<1>6. /\ rows' \in Seq(Row)
      /\ \A s : \A ok \in {"ok", "failed"} : Marked(rows', s, ok) \subseteq Marked(rows, s, ok)
  <2>1. CASE rows' = rows
    BY <1>0, <2>1
  <2>2. CASE rows' = Append(rows, row)
    <3>1. /\ rows' \in Seq(Row) /\ DOMAIN rows' = 1..(Len(rows) + 1) /\ DOMAIN rows = 1..Len(rows)
          /\ Len(rows) \in Nat
          /\ rows'[Len(rows) + 1] = row /\ \A i \in 1..Len(rows) : rows'[i] = rows[i]
      BY <1>0, <1>5, <2>2
    <3>2. \A i \in DOMAIN rows' : i \in DOMAIN rows \/ i = Len(rows) + 1
      BY <3>1
    <3>3. QED
      BY <1>5, <3>1, <3>2 DEF Marked
  <2>3. QED
    BY <1>1, <2>1, <2>2 DEF row
<1>7. used' \in [crash : Nat, fault : Nat]
  <2>1. used.fault + 1 \in Nat
    BY <1>0
  <2> DEFINE n == used.fault + 1
  <2> HIDE DEF n
  <2>2. n \in Nat => [used EXCEPT !.fault = n] \in [crash : Nat, fault : Nat]
    BY <1>0
  <2>3. QED
    BY <1>0, <1>1, <2>1, <2>2 DEF n
<1>8. UNCHANGED <<config, picking, quotas, calendar>> /\ req[r].pc = "record"
  BY DEF Record
<1>9. TypeOK' => LedgerNeverOverstates'
  <2>1. \A q \in Requests : req[q].pc \in {"ok", "failed"} => req'[q] = req[q]
    BY <1>4, <1>8 DEF MovesOnly
  <2>2. QED
    BY <1>0, <1>6, <2>1, LedgerRests
<1>10. QED
  <2>1. second' \in Requests \cup {NoSlug} /\ req'[r].pc = "build"
    BY <1>1, <1>2, <1>3, <1>4
  <2>2. QED
    BY <1>4, <1>6, <1>7, <1>8, <1>9, <2>1, LaunchStep

\* A drive that ends marks one row at most, and is one more that ended so.
LEMMA VerdictKeeps ==
  ASSUME PoolInv, NEW r \in Requests, req[r].pc = "build", NEW v \in {"ok", "failed"}, Goto(r, v),
         rows' = Outcome(req[r].slug, v) \/ rows' = rows,
         UNCHANGED <<config, picking, quotas, calendar, second, used>>
  PROVE  PoolInv'
<1>0. /\ TypeOK /\ LedgerNeverOverstates /\ rows \in Seq(Row) /\ used \in [crash : Nat, fault : Nat]
      /\ second \in Requests \cup {NoSlug} /\ v \in States
  BY DEF PoolInv, PickInv, TypeOK, States
<1>1. MovesOnly(r) /\ req'[r].pc = v /\ req'[r].slug = req[r].slug
  BY <1>0, Gone
<1>2. \A q \in Requests : req[q].pc \in {"ok", "failed"} => req'[q] = req[q]
  BY <1>1 DEF MovesOnly
<1>3. PICK s : s = req[r].slug
  OBVIOUS
<1>4. /\ rows' \in Seq(Row)
      /\ \E m : Marked(rows', s, v) \subseteq Marked(rows, s, v) \cup {m}
      /\ \A slug : \A ok \in {"ok", "failed"} :
            slug # s \/ ok # v => Marked(rows', slug, ok) \subseteq Marked(rows, slug, ok)
  <2>1. CASE rows' = rows
    BY <1>0, <2>1
  <2>2. CASE rows' = Outcome(s, v)
    BY <1>0, <2>2, OutcomeMarks
  <2>3. QED
    BY <1>3, <2>1, <2>2
<1>5. Ended(s, v)' = Ended(s, v) + 1
  <2> DEFINE S == {q \in Requests : req[q].slug = s /\ req[q].pc = v}
  <2>1. S' = S \cup {r} /\ r \notin S
    BY <1>1, <1>3 DEF MovesOnly
  <2>2. Ended(s, v) = Cardinality(S) /\ Ended(s, v)' = Cardinality(S') /\ S \in SUBSET Requests
    BY DEF Ended
  <2> HIDE DEF S
  <2>3. IsFiniteSet(S)
    BY <2>2, Few
  <2>4. Cardinality(S \cup {r}) = Cardinality(S) + 1
    BY <2>1, <2>3, FS_AddElement
  <2>5. QED
    BY <2>1, <2>2, <2>4
<1>6. ASSUME TypeOK', NEW slug \in Requests, NEW ok \in {"ok", "failed"}
      PROVE  Cardinality(Marked(rows', slug, ok)) <= Ended(slug, ok)'
  <2>1. /\ IsFiniteSet(Marked(rows, slug, ok)) /\ Cardinality(Marked(rows, slug, ok)) \in Nat
        /\ Cardinality(Marked(rows', slug, ok)) \in Nat
    BY <1>0, <1>4, MarkedFew
  <2>2. /\ Cardinality(Marked(rows, slug, ok)) <= Ended(slug, ok)
        /\ Ended(slug, ok) <= Ended(slug, ok)' /\ Ended(slug, ok) \in Nat /\ Ended(slug, ok)' \in Nat
    BY <1>0, <1>2, EndedMore DEF LedgerNeverOverstates, Marked
  <2>3. CASE slug # s \/ ok # v
    <3>1. Cardinality(Marked(rows', slug, ok)) <= Cardinality(Marked(rows, slug, ok))
      BY <1>4, <2>1, <2>3, FS_Subset
    <3>2. QED
      BY <2>1, <2>2, <3>1
  <2>4. CASE slug = s /\ ok = v
    <3>1. PICK m : Marked(rows', s, v) \subseteq Marked(rows, s, v) \cup {m}
      BY <1>4
    <3>2. /\ IsFiniteSet(Marked(rows, s, v) \cup {m})
          /\ Cardinality(Marked(rows, s, v) \cup {m}) =
                IF m \in Marked(rows, s, v) THEN Cardinality(Marked(rows, s, v))
                                            ELSE Cardinality(Marked(rows, s, v)) + 1
      BY <2>1, <2>4, FS_AddElement
    <3>3. Cardinality(Marked(rows', s, v)) <= Cardinality(Marked(rows, s, v) \cup {m})
      BY <3>1, <3>2, FS_Subset
    <3>4. Cardinality(Marked(rows', s, v)) <= Cardinality(Marked(rows, s, v)) + 1
      BY <2>1, <2>4, <3>2, <3>3
    <3>5. QED
      BY <1>5, <2>1, <2>2, <2>4, <3>4
  <2>5. QED
    BY <2>3, <2>4
<1>7. TypeOK' => LedgerNeverOverstates'
  BY <1>6 DEF LedgerNeverOverstates, Marked
<1>8. QED
  BY <1>0, <1>1, <1>4, <1>7, LaunchStep

LEMMA LaunchingKeeps ==
  ASSUME PoolInv, NEW r \in Requests, Launching(r)
  PROVE  PoolInv'
<1>1. CASE Record(r)
  BY <1>1, RecordKeeps
<1>2. CASE BuildRaises(r)
  BY <1>2, VerdictKeeps DEF BuildRaises
<1>3. CASE DriveConverges(r)
  BY <1>3, VerdictKeeps DEF DriveConverges
<1>4. CASE DriveRaises(r)
  BY <1>4, VerdictKeeps DEF DriveRaises, ledger
<1>5. QED
  BY <1>1, <1>2, <1>3, <1>4 DEF Launching

-----------------------------------------------------------------------------
(* Time. *)

LEMMA LessIs == \A n \in Nat : Less(n) \in Nat /\ (n = 0 => Less(n) = 0) /\ (n > 0 => Less(n) = n - 1)
BY DEF Less

LEMMA OlderIs ==
  ASSUME NEW c \in Counter
  PROVE  /\ OlderCounter(c) \in Counter
         /\ OlderCounter(c).ages[0] = 0
         /\ \A a \in 1..(GlobalWindow - 1) : OlderCounter(c).ages[a] = c.ages[a - 1]
         /\ OlderCounter(c).n = IF c.ttl = 1 THEN 0 ELSE c.n
         /\ OlderCounter(c).ttl = Less(c.ttl)
<1>1. c.ages \in [0..(GlobalWindow - 1) -> Nat] /\ c.n \in Nat /\ c.ttl \in Nat
  BY DEF Counter
<1> DEFINE ages == [a \in DOMAIN c.ages |-> IF a = 0 THEN 0 ELSE c.ages[a - 1]]
           n == IF c.ttl = 1 THEN 0 ELSE c.n
<1>2. \A a \in 1..(GlobalWindow - 1) : a - 1 \in 0..(GlobalWindow - 1) /\ a # 0
  OBVIOUS
<1>3. \A a \in 0..(GlobalWindow - 1) : a = 0 \/ a \in 1..(GlobalWindow - 1)
  OBVIOUS
<1>4. ages \in [0..(GlobalWindow - 1) -> Nat]
  BY <1>1, <1>2, <1>3
<1>5. /\ ages[0] = 0 /\ \A a \in 1..(GlobalWindow - 1) : ages[a] = c.ages[a - 1]
  <2>1. 0 \in 0..(GlobalWindow - 1) /\ 1..(GlobalWindow - 1) \subseteq 0..(GlobalWindow - 1)
    OBVIOUS
  <2>2. QED
    BY <1>1, <1>2, <2>1
<1>6. Less(c.ttl) \in Nat /\ n \in Nat
  BY <1>1, LessIs
<1>7. OlderCounter(c) = [ages |-> ages, n |-> n, ttl |-> Less(c.ttl)]
  BY DEF OlderCounter
<1> HIDE DEF ages
<1>8. OlderCounter(c) \in Counter
  BY <1>4, <1>6, <1>7 DEF Counter
<1>9. QED
  BY <1>5, <1>7, <1>8

LEMMA AgesAre ==
  ASSUME TypeOK, Tick, NEW r \in Requests, NEW g \in {"ip", "global"}
  PROVE  /\ passed[r][g] \in 0..Never /\ passed'[r][g] \in 0..Never
         /\ passed'[r][g] = IF passed[r][g] = Never THEN Never ELSE passed[r][g] + 1
<1>1. passed \in [Requests -> [{"ip", "global"} -> 0..Never]] /\ Never \in Nat
  BY DEF TypeOK, Never
<1>2. passed[r] \in [{"ip", "global"} -> 0..Never] /\ passed[r][g] \in 0..Never
  BY <1>1
<1>3. passed'[r][g] = IF passed[r][g] = Never THEN Never ELSE passed[r][g] + 1
  BY <1>1, <1>2 DEF Tick
<1>4. QED
  BY <1>1, <1>2, <1>3

LEMMA OtherDayIs ==
  ASSUME day \in Days
  PROVE  OtherDay \in Days /\ OtherDay # day /\ \A d \in Days : d = day \/ d = OtherDay
<1>1. \E d \in Days : d # day
  BY DEF Days
<1>2. OtherDay \in Days /\ OtherDay # day
  BY <1>1 DEF OtherDay
<1>3. QED
  BY <1>2 DEF Days

LEMMA TickTypes == TypeOK /\ Tick => TypeOK'
<1> SUFFICES ASSUME TypeOK, Tick PROVE TypeOK'
  OBVIOUS
<1>1. circuit' \in [Providers -> Circuit]
  <2>1. \A p \in Providers : Older(circuit[p]) \in Circuit
    BY CircuitTypes DEF TypeOK
  <2>2. QED
    BY <2>1 DEF Tick
<1>2. wait' \in [Providers -> Nat \cup {Forever}]
  <2>1. \A p \in Providers :
            (IF wait[p] = Forever THEN Forever ELSE Less(wait[p])) \in Nat \cup {Forever}
    <3>1. ASSUME NEW p \in Providers
          PROVE (IF wait[p] = Forever THEN Forever ELSE Less(wait[p])) \in Nat \cup {Forever}
      <4>1. wait[p] \in Nat \cup {Forever}
        BY DEF TypeOK
      <4>2. QED
        BY <4>1, LessIs
    <3>2. QED
      BY <3>1
  <2>2. QED
    BY <2>1 DEF Tick
<1>3. hits' \in [Keys -> Counter]
  <2>1. \A k \in Keys : OlderCounter(hits[k]) \in Counter
    BY OlderIs DEF TypeOK
  <2>2. QED
    BY <2>1 DEF Tick
<1>4. passed' \in [Requests -> [{"ip", "global"} -> 0..Never]]
  <2>1. passed' = [r \in Requests |-> [g \in DOMAIN passed[r] |->
                    IF passed[r][g] = Never THEN Never ELSE passed[r][g] + 1]]
    BY DEF Tick
  <2>2. \A r \in Requests : DOMAIN passed[r] = {"ip", "global"}
    BY DEF TypeOK
  <2>3. \A r \in Requests : \A g \in {"ip", "global"} :
            (IF passed[r][g] = Never THEN Never ELSE passed[r][g] + 1) \in 0..Never
    <3>1. ASSUME NEW r \in Requests, NEW g \in {"ip", "global"}
          PROVE  (IF passed[r][g] = Never THEN Never ELSE passed[r][g] + 1) \in 0..Never
      BY AgesAre
    <3>2. QED
      BY <3>1
  <2>4. QED
    BY <2>1, <2>2, <2>3
<1>5. /\ usage' \in [Days -> Nat] /\ day' \in Days /\ dayLeft' \in 1..DayLength
      /\ granted' \in [Requests -> Days \cup {NoSlug}]
  <2>1. OtherDay \in Days
    BY OtherDayIs DEF TypeOK
  <2>2. CASE dayLeft > 1
    BY <2>2 DEF Tick, NewDay, TypeOK
  <2>3. CASE ~(dayLeft > 1)
    <3>1. /\ day' = OtherDay /\ dayLeft' = DayLength /\ usage' = [usage EXCEPT ![OtherDay] = 0]
          /\ granted' = [r \in Requests |-> IF granted[r] = OtherDay THEN NoSlug ELSE granted[r]]
      BY <2>3 DEF Tick, NewDay
    <3>2. usage \in [Days -> Nat] /\ granted \in [Requests -> Days \cup {NoSlug}]
      BY DEF TypeOK
    <3>3. granted' \in [Requests -> Days \cup {NoSlug}]
      BY <3>1, <3>2
    <3>4. usage' \in [Days -> Nat] /\ dayLeft' \in 1..DayLength
      <4>1. 0 \in Nat /\ DayLength \in 1..DayLength
        OBVIOUS
      <4>2. usage' \in [Days -> Nat]
        BY <3>1, <3>2, <4>1
      <4>3. QED
        BY <3>1, <4>1, <4>2
    <3>5. QED
      BY <2>1, <3>1, <3>3, <3>4
  <2>4. QED
    BY <2>2, <2>3
<1>6. /\ UNCHANGED <<backend, up, cursor, req, rows, used>> /\ second' \in Requests \cup {NoSlug}
  BY DEF Tick, config
<1>7. QED
  BY <1>1, <1>2, <1>3, <1>4, <1>5, <1>6 DEF TypeOK

\* Breakers and back-offs lapse together.
LEMMA TickPick == PickInv /\ Tick => PickInv'
<1> SUFFICES ASSUME PickInv, Tick PROVE PickInv'
  OBVIOUS
<1>0. TypeOK /\ WalkInv /\ UpInv /\ BackInv /\ TypeOK'
  BY TickTypes DEF PickInv
<1>1. UNCHANGED <<up, cursor, req>>
  BY DEF Tick, config
<1>2. WalkInv'
  BY <1>0, <1>1 DEF WalkInv, WalkAt, CursorInv, Entries, Slot, Size
<1>3. ASSUME NEW p \in Providers
      PROVE  circuit'[p].state = circuit[p].state /\ Keeps(circuit'[p], wait'[p])
  <2>1. circuit[p] \in Circuit /\ wait[p] \in Nat \cup {Forever} /\ Keeps(circuit[p], wait[p])
    BY <1>0, BackIs DEF TypeOK, BackInv
  <2>2. /\ circuit'[p] = Older(circuit[p])
        /\ wait'[p] = IF wait[p] = Forever THEN Forever ELSE Less(wait[p])
    BY DEF Tick
  <2>3. QED
    BY ZenonT(30), <2>1, <2>2, OlderKeeps
<1>4. UpInv'
  <2>1. up \subseteq Providers
    BY <1>0 DEF TypeOK
  <2>2. QED
    BY <1>0, <1>1, <1>3, <2>1 DEF UpInv
<1>5. BackInv'
  <2>1. ASSUME NEW p \in Providers PROVE BackAt(p)'
    <3>1. circuit'[p].state \in CircuitStates
      BY <1>0 DEF TypeOK, Circuit
    <3>2. Keeps(circuit'[p], wait'[p])
      BY <1>3
    <3>3. QED
      BY <3>1, <3>2, Zenon DEF BackAt, Keeps, CircuitStates
  <2>2. QED
    BY <2>1 DEF BackInv
<1>6. QED
  BY <1>0, <1>2, <1>4, <1>5 DEF PickInv

\* A new day begins with nothing granted and nobody about to read its bucket.
LEMMA TickDay == TypeOK /\ DayInv /\ Tick => DayInv'
<1> SUFFICES ASSUME TypeOK, DayInv, Tick PROVE DayInv'
  OBVIOUS
<1>1. req' = req /\ NewDay /\ day \in Days /\ usage \in [Days -> Nat]
  BY DEF Tick, TypeOK
<1>2. CASE dayLeft > 1
  <2>1. usage' = usage /\ granted' = granted
    BY <1>1, <1>2 DEF NewDay
  <2>2. QED
    BY <1>1, <2>1, DayRests
<1>3. CASE ~(dayLeft > 1)
  <2>1. /\ \A r \in Requests : req[r].pc = "count" => req[r].day = day
        /\ usage' = [usage EXCEPT ![OtherDay] = 0]
        /\ granted' = [r \in Requests |-> IF granted[r] = OtherDay THEN NoSlug ELSE granted[r]]
    BY <1>1, <1>3 DEF NewDay
  <2>2. OtherDay \in Days /\ OtherDay # day /\ \A d \in Days : d = day \/ d = OtherDay
    BY <1>1, OtherDayIs
  <2>3. PICK o \in Days : o = OtherDay
    BY <2>2
  <2>4. GrantedOn(o)' = {} /\ CountingOn(o)' = {} /\ usage'[o] = 0
    BY <1>1, <2>1, <2>2, <2>3 DEF GrantedOn, CountingOn, NoSlug, Days
  <2>5. ASSUME NEW d \in Days
        PROVE  /\ Cardinality(GrantedOn(d)') + Cardinality(CountingOn(d)') <= usage'[d]
               /\ Cardinality(GrantedOn(d)') <= DailyCap
    <3>1. CASE d = o
      <4>1. GrantedOn(d)' = {} /\ CountingOn(d)' = {} /\ usage'[d] = 0
        BY <2>4, <3>1 DEF GrantedOn, CountingOn
      <4>2. Cardinality(GrantedOn(d)') = 0 /\ Cardinality(CountingOn(d)') = 0
        BY <4>1, NoneIs
      <4>3. QED
        BY <4>1, <4>2
    <3>2. CASE d # o
      <4>1. /\ GrantedOn(d)' \subseteq GrantedOn(d) /\ CountingOn(d)' = CountingOn(d)
            /\ usage'[d] = usage[d]
        BY <1>1, <2>1, <2>2, <2>3, <3>2 DEF GrantedOn, CountingOn, NoSlug, Days
      <4>2. /\ Cardinality(GrantedOn(d)) + Cardinality(CountingOn(d)) <= usage[d] /\ usage[d] \in Nat
            /\ Cardinality(GrantedOn(d)) <= DailyCap
        BY <1>1 DEF DayInv, DailyCapHolds, GrantedOn
      <4>3. Cardinality(GrantedOn(d)') <= Cardinality(GrantedOn(d))
        BY <4>1, DayFew, Fewer
      <4>4. QED
        BY <4>1, <4>2, <4>3, DayFew
    <3>3. QED
      BY <3>1, <3>2
  <2>6. \A q \in Requests : req'[q].pc = "count" => req'[q].day \in Days
    BY <1>1 DEF DayInv
  <2>7. DailyCapHolds'
    BY <2>5 DEF DailyCapHolds, GrantedOn, Days
  <2>8. QED
    BY <2>5, <2>6, <2>7 DEF DayInv, Days
<1>4. QED
  BY <1>2, <1>3

\* Passes and counts grow older at the same pace.
LEMMA TickGates == TypeOK /\ GateInv /\ Tick => GateInv'
<1> SUFFICES ASSUME TypeOK, GateInv, Tick, NEW k \in Keys PROVE GateAt(k)'
  BY DEF GateInv, Keys
<1>0. /\ GateAt(k) /\ backend' = backend /\ Pending(k)' = Pending(k)
      /\ hits[k] \in Counter /\ hits'[k] = OlderCounter(hits[k])
  BY DEF GateInv, Tick, config, Pending, KeyOf, TypeOK
<1>1. WindowOf(k) \in 1..GlobalWindow /\ MaxOf(k) \in Nat /\ GateOf(k) \in {"ip", "global"}
      /\ Never = GlobalWindow /\ GlobalWindow \in Nat \ {0}
  BY KeyFacts DEF Never
<1>2. ASSUME NEW r \in Requests
      PROVE  /\ passed[r][GateOf(k)] \in 0..Never
             /\ passed'[r][GateOf(k)] = IF passed[r][GateOf(k)] = Never THEN Never
                                                        ELSE passed[r][GateOf(k)] + 1
  BY <1>1, AgesAre
<1>3. Within(passed', k, 1) = {} /\ Within(passed', k, 0) = {} /\ Aged(passed', k, 0) = {}
  BY <1>1, <1>2 DEF Within, Aged
<1>4. \A a \in 1..(GlobalWindow - 1) : Aged(passed', k, a) \subseteq Aged(passed, k, a - 1)
  BY <1>1, <1>2 DEF Aged
<1>5. \A h \in 0..GlobalWindow : Within(passed', k, h) \subseteq Within(passed, k, h)
  BY <1>1, <1>2 DEF Within
<1>6. \A h \in 0..(GlobalWindow - 1) : Within(passed', k, h + 1) \subseteq Within(passed, k, h)
  BY <1>1, <1>2 DEF Within
<1>7. CASE backend = "memory"
  <2>1. MemoryAt(k)
    BY <1>0, <1>7 DEF GateAt
  <2>2. Pending(k)' = {} /\ hits'[k].ttl = 0
    BY SMTT(30), <1>0, <2>1, OlderIs, LessIs DEF MemoryAt
  <2>3. ASSUME NEW a \in 0..(GlobalWindow - 1)
        PROVE  Cardinality(Aged(passed', k, a)) <= hits'[k].ages[a]
    <3>1. CASE a = 0
      <4>1. Aged(passed', k, a) = {} /\ hits'[k].ages[a] = 0
        BY <1>0, <1>3, <3>1, OlderIs
      <4>2. Cardinality(Aged(passed', k, a)) = 0
        BY <4>1, NoneIs
      <4>3. QED
        BY <4>1, <4>2
    <3>2. CASE a # 0
      <4>1. a \in 1..(GlobalWindow - 1) /\ a - 1 \in 0..(GlobalWindow - 1)
        BY <3>2
      <4>2. Cardinality(Aged(passed', k, a)) <= Cardinality(Aged(passed, k, a - 1))
        BY <1>4, <4>1, WithinFew, Fewer
      <4>3. hits'[k].ages[a] = hits[k].ages[a - 1]
        BY <1>0, <4>1, OlderIs
      <4>4. /\ Cardinality(Aged(passed, k, a - 1)) <= hits[k].ages[a - 1]
            /\ hits[k].ages[a - 1] \in Nat
        BY <1>0, <2>1, <4>1 DEF MemoryAt, Counter
      <4>5. Cardinality(Aged(passed', k, a)) \in Nat /\ Cardinality(Aged(passed, k, a - 1)) \in Nat
        BY WithinFew, Few
      <4>6. QED
        BY <4>2, <4>3, <4>4, <4>5
    <3>3. QED
      BY <3>1, <3>2
  <2>4. Cardinality(Within(passed', k, WindowOf(k))) <= MaxOf(k)
    <3>1. WindowOf(k) \in 0..GlobalWindow
      BY <1>1
    <3>2. Within(passed', k, WindowOf(k)) \subseteq Within(passed, k, WindowOf(k))
      BY <1>5, <3>1
    <3>3. Cardinality(Within(passed', k, WindowOf(k))) <= Cardinality(Within(passed, k, WindowOf(k)))
      BY <3>2, WithinFew, Fewer
    <3>4. /\ Cardinality(Within(passed', k, WindowOf(k))) \in Nat
          /\ Cardinality(Within(passed, k, WindowOf(k))) \in Nat
      BY WithinFew, Few
    <3>5. QED
      BY <1>1, <2>1, <3>3, <3>4 DEF MemoryAt
  <2>5. MemoryAt(k)'
    BY <2>2, <2>3, <2>4 DEF MemoryAt, WindowOf, MaxOf
  <2>6. QED
    BY <1>0, <1>7, <2>5 DEF GateAt
<1>8. CASE backend # "memory"
  <2>1. RedisAt(k)
    BY <1>0, <1>8 DEF GateAt
  <2> DEFINE n == hits[k].n
             n2 == hits'[k].n
             ttl == hits[k].ttl
             ttl2 == hits'[k].ttl
             about == Cardinality(Pending(k))
             now == Cardinality(Within(passed, k, 1))
             since == Cardinality(Within(passed, k, Since(k, ttl)))
             since2 == Cardinality(Within(passed', k, Since(k, ttl2)))
  <2>2. RedisCounts(k, n, ttl, about, now, since)
    BY <2>1 DEF RedisAt
  <2>3. n2 = (IF ttl = 1 THEN 0 ELSE n) /\ ttl2 = Less(ttl)
    BY <1>0, OlderIs
  <2>4. RedisAt(k)' <=> RedisCounts(k, n2, ttl2, about, 0, since2)
    BY <1>0, <1>3, NoneIs DEF RedisAt, RedisCounts, Since, WindowOf, MaxOf
  <2>5. n \in Nat /\ ttl \in Nat /\ about \in Nat /\ now \in Nat /\ since \in Nat /\ since2 \in Nat
    BY RedisTypes
  <2>6. ttl2 = 0 => since2 = 0
    <3> SUFFICES ASSUME ttl2 = 0 PROVE since2 = 0
      OBVIOUS
    <3>1. Since(k, ttl2) = 0
      BY DEF Since
    <3>2. Within(passed', k, Since(k, ttl2)) = {}
      BY <1>3, <3>1
    <3>3. QED
      BY <3>2, NoneIs
  <2>7. ttl > 1 => since2 <= since
    <3> SUFFICES ASSUME ttl > 1 PROVE since2 <= since
      OBVIOUS
    <3>1. ttl2 = ttl - 1 /\ ttl <= WindowOf(k)
      <4> HIDE DEF n, n2, ttl, ttl2, about, now, since
      <4>1. QED
        BY <2>2, <2>3, <2>5, LessIs DEF RedisCounts
    <3> DEFINE h == Since(k, ttl)
    <3>2. h \in 0..(GlobalWindow - 1) /\ Since(k, ttl2) = h + 1
      <4> HIDE DEF ttl, ttl2
      <4>1. QED
        BY <1>1, <2>5, <3>1 DEF Since
    <3> HIDE DEF h
    <3>3. Within(passed', k, h + 1) \subseteq Within(passed, k, h)
      BY <1>6, <3>2
    <3>4. Cardinality(Within(passed', k, h + 1)) <= Cardinality(Within(passed, k, h))
      BY <3>3, WithinFew, Fewer
    <3>5. QED
      BY <3>2, <3>4 DEF h
  <2>8. ttl2 = (IF ttl > 0 THEN ttl - 1 ELSE 0)
    BY <2>3 DEF Less
  <2>9. RedisCounts(k, n2, ttl2, about, 0, since2)
    <3> HIDE DEF n, n2, ttl, ttl2, about, now, since, since2
    <3>1. QED
      BY <1>1, <2>2, <2>3, <2>5, <2>6, <2>7, <2>8 DEF RedisCounts
  <2>10. QED
    BY <1>0, <1>8, <2>4, <2>9 DEF GateAt
<1>9. QED
  BY <1>7, <1>8

LEMMA TickKeeps == PoolInv /\ Tick => PoolInv'
<1> SUFFICES ASSUME PoolInv, Tick PROVE PoolInv'
  OBVIOUS
<1>1. PickInv' /\ DayInv' /\ GateInv'
  BY TickPick, TickDay, TickGates DEF PoolInv, PickInv
<1>2. LedgerNeverOverstates'
  <2>1. req' = req /\ rows' = rows /\ TypeOK /\ TypeOK' /\ LedgerNeverOverstates
    BY <1>1 DEF Tick, PoolInv, PickInv
  <2>2. QED
    BY <2>1, LedgerRests
<1>3. QED
  BY <1>1, <1>2 DEF PoolInv

-----------------------------------------------------------------------------
(* Restarts. *)

Resting == {"idle", "ok", "failed", "refused"}

LEMMA CrashMoves ==
  ASSUME TypeOK, CrashRestart
  PROVE  /\ req' \in [Requests -> Locals]
         /\ \A q \in Requests : req[q].pc \in Resting => req'[q] = req[q]
         /\ \A q \in Requests : req[q].pc \notin Resting => req'[q].pc = "dead" /\ ~req'[q].paid
<1>1. req \in [Requests -> Locals] /\ FreshLocals \in Locals
  BY DEF TypeOK, FreshLocals, Locals, States
<1> DEFINE gone(q) == [FreshLocals EXCEPT !.pc = "dead", !.slug = req[q].slug]
<1>2. \A q \in Requests : gone(q) \in Locals /\ gone(q).pc = "dead" /\ ~gone(q).paid
  <2>1. ASSUME NEW q \in Requests PROVE gone(q) \in Locals /\ gone(q).pc = "dead" /\ ~gone(q).paid
    <3>1. req[q].slug \in Requests \cup {NoSlug}
      BY <1>1 DEF Locals
    <3>2. QED
      BY <1>1, <3>1 DEF FreshLocals, Locals, States
  <2>2. QED
    BY <2>1
<1>3. req' = [q \in Requests |-> IF req[q].pc \in Resting THEN req[q] ELSE gone(q)]
  BY DEF CrashRestart, Resting
<1> HIDE DEF gone
<1>4. QED
  BY <1>1, <1>2, <1>3

LEMMA FreshTypes == FreshCircuit \in Circuit /\ FreshCounter \in Counter /\ Keeps(FreshCircuit, 0)
<1>1. FreshCircuit \in Circuit
  BY DEF FreshCircuit, Circuit, CircuitStates
<1>2. [a \in 0..(GlobalWindow - 1) |-> 0] \in [0..(GlobalWindow - 1) -> Nat]
  OBVIOUS
<1>3. FreshCounter \in Counter
  BY <1>2 DEF FreshCounter, Counter
<1>4. QED
  BY <1>1, <1>3 DEF Keeps, FreshCircuit

\* A limiter that is empty, with nobody at its gates, keeps its promise.
LEMMA FreshGate ==
  ASSUME NEW k \in Keys, NEW p, \A r \in Requests : p[r][GateOf(k)] = Never
  PROVE  /\ \A a \in 0..(GlobalWindow - 1) : Cardinality(Aged(p, k, a)) <= FreshCounter.ages[a]
         /\ \A h \in 0..GlobalWindow : Cardinality(Within(p, k, h)) = 0
<1>1. \A a \in 0..(GlobalWindow - 1) : Aged(p, k, a) = {} /\ FreshCounter.ages[a] = 0
  BY DEF Aged, Never, FreshCounter
<1>2. \A h \in 0..GlobalWindow : Within(p, k, h) = {}
  BY DEF Within, Never
<1>3. ASSUME NEW a \in 0..(GlobalWindow - 1) PROVE Cardinality(Aged(p, k, a)) <= FreshCounter.ages[a]
  <2>1. Cardinality(Aged(p, k, a)) = 0
    BY <1>1, NoneIs
  <2>2. QED
    BY <1>1, <2>1
<1>4. ASSUME NEW h \in 0..GlobalWindow PROVE Cardinality(Within(p, k, h)) = 0
  BY <1>2, NoneIs
<1>5. QED
  BY <1>3, <1>4

LEMMA CrashTypes == TypeOK /\ CrashRestart => TypeOK'
<1> SUFFICES ASSUME TypeOK, CrashRestart PROVE TypeOK'
  OBVIOUS
<1>1. circuit' \in [Providers -> Circuit] /\ wait' \in [Providers -> Nat \cup {Forever}] /\ cursor' \in Nat
  BY FreshTypes DEF CrashRestart
<1>2. hits' \in [Keys -> Counter]
  BY FreshTypes DEF CrashRestart, TypeOK
<1>3. passed' \in [Requests -> [{"ip", "global"} -> 0..Never]]
  <2>1. passed \in [Requests -> [{"ip", "global"} -> 0..Never]] /\ Never \in 0..Never
    BY DEF TypeOK, Never
  <2>2. CASE backend = "memory"
    <3>1. passed' = [r \in Requests |-> [g \in DOMAIN passed[r] |-> Never]]
      BY <2>2 DEF CrashRestart
    <3>2. \A r \in Requests : DOMAIN passed[r] = {"ip", "global"}
      BY <2>1
    <3>3. QED
      BY <2>1, <3>1, <3>2
  <2>3. CASE backend # "memory"
    BY <2>1, <2>3 DEF CrashRestart
  <2>4. QED
    BY <2>2, <2>3
<1>4. req' \in [Requests -> Locals]
  BY CrashMoves
<1>5. used' \in [crash : Nat, fault : Nat]
  <2>1. used \in [crash : Nat, fault : Nat] /\ used.crash + 1 \in Nat
    BY DEF TypeOK
  <2> DEFINE n == used.crash + 1
  <2>2. used' = [used EXCEPT !.crash = n] /\ n \in Nat
    BY <2>1 DEF CrashRestart
  <2> HIDE DEF n
  <2>3. QED
    BY <2>1, <2>2
<1>6. UNCHANGED <<backend, up, usage, granted, day, dayLeft, rows, second>>
  BY DEF CrashRestart, config, calendar, ledger
<1>7. QED
  BY <1>1, <1>2, <1>3, <1>4, <1>5, <1>6 DEF TypeOK

LEMMA CrashPick == PickInv /\ CrashRestart => PickInv'
<1> SUFFICES ASSUME PickInv, CrashRestart PROVE PickInv'
  OBVIOUS
<1>0. TypeOK /\ TypeOK' /\ up' = up /\ up \subseteq Providers
  BY CrashTypes DEF PickInv, TypeOK, CrashRestart, config
<1>1. /\ cursor' = 0
      /\ \A p \in Providers : circuit'[p] = FreshCircuit /\ wait'[p] = 0
  BY DEF CrashRestart
<1>2. WalkInv'
  <2>1. CursorInv'
    BY <1>1, PoolTypes DEF CursorInv, Size
  <2>2. ASSUME NEW q \in Requests PROVE WalkAt(q)'
    <3>1. req'[q].pc \notin {"visit", "probe"}
      BY <1>0, CrashMoves DEF Resting
    <3>2. QED
      BY <3>1, RestingWalk
  <2>3. QED
    BY <2>1, <2>2 DEF WalkInv
<1>3. UpInv'
  BY <1>0, <1>1 DEF UpInv, FreshCircuit
<1>4. BackInv'
  <2>1. ASSUME NEW p \in Providers PROVE BackAt(p)'
    <3>1. circuit'[p].state = "healthy" /\ wait'[p] = 0
      BY <1>1 DEF FreshCircuit
    <3>2. QED
      BY <3>1, Zenon DEF BackAt
  <2>2. QED
    BY <2>1 DEF BackInv
<1>5. QED
  BY <1>0, <1>2, <1>3, <1>4 DEF PickInv

LEMMA CrashGates == TypeOK /\ GateInv /\ CrashRestart => GateInv'
<1> SUFFICES ASSUME TypeOK, GateInv, CrashRestart PROVE GateInv'
  OBVIOUS
<1>0. /\ backend' = backend
      /\ \A q \in Requests : req'[q] = req[q] \/ req'[q].pc \notin Expiring
  BY CrashMoves DEF CrashRestart, config, Expiring
<1>1. CASE backend # "memory"
  <2>1. hits' = hits /\ passed' = passed
    BY <1>1 DEF CrashRestart
  <2>2. QED
    BY <1>0, <2>1, GatesRest
<1>2. CASE backend = "memory"
  <2>1. ASSUME NEW k \in Keys PROVE GateAt(k)'
    <3>1. hits'[k] = FreshCounter
      BY <1>2, <2>1 DEF CrashRestart
    <3>2. \A r \in Requests : passed'[r][GateOf(k)] = Never
      <4>1. GateOf(k) \in {"ip", "global"} /\ passed \in [Requests -> [{"ip", "global"} -> 0..Never]]
        BY DEF GateOf, TypeOK
      <4>2. passed' = [r \in Requests |-> [g \in DOMAIN passed[r] |-> Never]]
        BY <1>2 DEF CrashRestart
      <4>3. QED
        BY <4>1, <4>2
    <3>3. Pending(k)' = {}
      <4>1. MemoryAt(k)
        BY <1>2 DEF GateInv, GateAt
      <4>2. Pending(k)' \subseteq Pending(k)
        BY <1>0 DEF Pending, KeyOf
      <4>3. QED
        BY <4>1, <4>2 DEF MemoryAt
    <3>4. WindowOf(k) \in 0..GlobalWindow /\ MaxOf(k) \in Nat
      BY KeyFacts
    <3>5. /\ \A a \in 0..(GlobalWindow - 1) : Cardinality(Aged(passed', k, a)) <= hits'[k].ages[a]
          /\ Cardinality(Within(passed', k, WindowOf(k))) <= MaxOf(k)
      BY <3>1, <3>2, <3>4, FreshGate
    <3>6. MemoryAt(k)'
      BY <3>1, <3>3, <3>5 DEF MemoryAt, WindowOf, MaxOf, FreshCounter
    <3>7. QED
      BY <1>0, <1>2, <3>6 DEF GateAt
  <2>2. QED
    BY <2>1 DEF GateInv, Keys
<1>3. QED
  BY ZenonT(30), <1>1, <1>2

LEMMA CrashKeeps == PoolInv /\ CrashRestart => PoolInv'
<1> SUFFICES ASSUME PoolInv, CrashRestart PROVE PoolInv'
  OBVIOUS
<1>0. TypeOK /\ PickInv' /\ GateInv' /\ TypeOK'
  BY CrashPick, CrashGates DEF PoolInv, PickInv
<1>1. UNCHANGED <<usage, granted, rows>>
  BY DEF CrashRestart, ledger
<1>2. DayInv'
  <2>1. \A q \in Requests : req'[q] = req[q] \/ req'[q].pc # "count"
    BY <1>0, CrashMoves
  <2>2. QED
    BY <1>0, <1>1, <2>1, DayRests DEF PoolInv
<1>3. LedgerNeverOverstates'
  <2>1. \A q \in Requests : req[q].pc \in {"ok", "failed"} => req'[q] = req[q]
    BY <1>0, CrashMoves DEF Resting
  <2>2. \A slug, ok : Marked(rows', slug, ok) \subseteq Marked(rows, slug, ok)
    BY <1>1
  <2>3. QED
    BY <1>0, <2>1, <2>2, LedgerRests DEF PoolInv
<1>4. QED
  BY <1>0, <1>2, <1>3 DEF PoolInv

-----------------------------------------------------------------------------
(* The invariant of every behaviour. *)

LEMMA PoolInit == Init => PoolInv
<1> SUFFICES ASSUME Init PROVE PoolInv
  OBVIOUS
<1>1. TypeOK
  <2>1. FreshLocals \in Locals
    BY DEF FreshLocals, Locals, States
  <2>2. /\ req \in [Requests -> Locals] /\ hits \in [Keys -> Counter]
        /\ circuit \in [Providers -> Circuit]
    BY <2>1, FreshTypes DEF Init
  <2>3. wait \in [Providers -> Nat \cup {Forever}] /\ granted \in [Requests -> Days \cup {NoSlug}]
    BY DEF Init
  <2>4. passed \in [Requests -> [{"ip", "global"} -> 0..Never]]
    BY DEF Init, Never
  <2>5. usage \in [Days -> Nat] /\ day \in Days /\ dayLeft \in 1..DayLength
    <3>1. DayLength \in 1..DayLength
      OBVIOUS
    <3>2. QED
      BY <3>1 DEF Init, Days
  <2>6. used \in [crash : Nat, fault : Nat]
    BY DEF Init
  <2>7. rows \in Seq(Row) /\ second \in Requests \cup {NoSlug} /\ cursor \in Nat
        /\ backend \in {"memory", "redis"} /\ up \in SUBSET Providers
    BY DEF Init
  <2>8. QED
    BY <2>2, <2>3, <2>4, <2>5, <2>6, <2>7 DEF TypeOK
<1>2. \A q \in Requests : req[q].pc = "idle"
  BY DEF Init, FreshLocals
<1>3. PickInv
  <2>1. WalkInv
    <3>1. CursorInv
      BY PoolTypes DEF Init, CursorInv
    <3>2. \A q \in Requests : WalkAt(q)
      BY <1>2 DEF WalkAt
    <3>3. QED
      BY <3>1, <3>2 DEF WalkInv
  <2>2. UpInv
    BY DEF Init, UpInv, FreshCircuit
  <2>3. BackInv
    <3>1. ASSUME NEW p \in Providers PROVE BackAt(p)
      <4>1. circuit[p].state = "healthy" /\ wait[p] = 0
        BY DEF Init, FreshCircuit
      <4>2. QED
        BY <4>1, Zenon DEF BackAt
    <3>2. QED
      BY <3>1 DEF BackInv
  <2>4. QED
    BY <1>1, <2>1, <2>2, <2>3 DEF PickInv
<1>4. DayInv
  <2>1. ASSUME NEW d \in Days
        PROVE  /\ Cardinality(GrantedOn(d)) + Cardinality(CountingOn(d)) <= usage[d]
               /\ Cardinality(GrantedOn(d)) <= DailyCap
    <3>1. GrantedOn(d) = {} /\ CountingOn(d) = {} /\ usage[d] = 0
      BY <1>2 DEF Init, GrantedOn, CountingOn, NoSlug, Days
    <3>2. Cardinality(GrantedOn(d)) = 0 /\ Cardinality(CountingOn(d)) = 0
      BY <3>1, NoneIs
    <3>3. QED
      BY <3>1, <3>2
  <2>2. DailyCapHolds
    BY <2>1 DEF DailyCapHolds, GrantedOn
  <2>3. QED
    BY <1>2, <2>1, <2>2 DEF DayInv
<1>5. GateInv
  <2>1. ASSUME NEW k \in Keys PROVE GateAt(k)
    <3>1. hits[k] = FreshCounter /\ Pending(k) = {}
      BY <1>2 DEF Init, Pending, Expiring
    <3>2. \A r \in Requests : passed[r][GateOf(k)] = Never
      BY DEF Init, GateOf
    <3>3. WindowOf(k) \in 0..GlobalWindow /\ MaxOf(k) \in Nat /\ WindowOf(k) > 0
      <4>1. WindowOf(k) \in 1..GlobalWindow /\ MaxOf(k) \in Nat
        BY KeyFacts
      <4>2. QED
        BY <4>1
    <3>4. FreshCounter.n = 0 /\ FreshCounter.ttl = 0
      BY DEF FreshCounter
    <3>5. MemoryAt(k)
      BY <3>1, <3>2, <3>3, <3>4, FreshGate DEF MemoryAt
    <3>6. RedisAt(k)
      <4>1. Since(k, 0) = 0 /\ 0 \in 0..GlobalWindow /\ 1 \in 0..GlobalWindow
        BY DEF Since
      <4>2. Cardinality(Within(passed, k, 0)) = 0 /\ Cardinality(Within(passed, k, 1)) = 0
        BY <3>2, <4>1, FreshGate
      <4>3. RedisCounts(k, 0, 0, 0, 0, 0)
        BY <3>3 DEF RedisCounts
      <4>4. hits[k].n = 0 /\ hits[k].ttl = 0 /\ Cardinality(Pending(k)) = 0
        BY <3>1, <3>4, NoneIs
      <4>5. QED
        BY <4>1, <4>2, <4>3, <4>4 DEF RedisAt
    <3>7. QED
      BY <3>5, <3>6 DEF GateAt
  <2>2. QED
    BY <2>1 DEF GateInv
<1>6. LedgerNeverOverstates
  <2> SUFFICES ASSUME NEW slug \in Requests, NEW ok \in {"ok", "failed"}
               PROVE  Cardinality(Marked(rows, slug, ok)) <= Ended(slug, ok)
    BY DEF LedgerNeverOverstates, Marked
  <2>1. Marked(rows, slug, ok) = {}
    BY DEF Init, Marked
  <2>2. Ended(slug, ok) \in Nat
    BY Few DEF Ended
  <2>3. QED
    BY <2>1, <2>2, NoneIs
<1>7. QED
  BY <1>3, <1>4, <1>5, <1>6 DEF PoolInv

LEMMA PoolStutters == PoolInv /\ UNCHANGED vars => PoolInv'
<1> SUFFICES ASSUME PoolInv, UNCHANGED vars PROVE PoolInv'
  OBVIOUS
<1>1. /\ UNCHANGED <<backend, up, circuit, cursor, req, hits, usage, day, dayLeft, rows>>
      /\ UNCHANGED <<second, used, wait, passed, granted>>
  BY DEF vars
<1>2. TypeOK /\ TypeOK'
  BY <1>1 DEF PoolInv, PickInv, TypeOK
<1>3. PickInv'
  BY <1>1, <1>2, PickRests DEF PoolInv, picking
<1>4. DayInv' /\ GateInv' /\ LedgerNeverOverstates'
  <2>1. \A slug, ok : Marked(rows', slug, ok) \subseteq Marked(rows, slug, ok)
    BY <1>1
  <2>2. QED
    BY <1>1, <1>2, <2>1, DayRests, GatesRest, LedgerRests DEF PoolInv
<1>5. QED
  BY <1>3, <1>4 DEF PoolInv

LEMMA PoolStep == PoolInv /\ [Next]_vars => PoolInv'
<1> SUFFICES ASSUME PoolInv, [Next]_vars PROVE PoolInv'
  OBVIOUS
<1>1. ASSUME NEW r \in Requests, Picking(r) PROVE PoolInv'
  BY <1>1, PickingKeeps
<1>2. ASSUME NEW r \in Requests, Gating(r) PROVE PoolInv'
  BY <1>2, CheckMemoryKeeps, CheckIncrKeeps, CheckExpireKeeps, CheckUnreachableKeeps, BumpKeeps,
     BumpReadKeeps DEF Gating
<1>3. ASSUME NEW r \in Requests, Launching(r) PROVE PoolInv'
  BY <1>3, LaunchingKeeps
<1>4. CASE Tick
  BY <1>4, TickKeeps
<1>5. CASE CrashRestart
  BY <1>5, CrashKeeps
<1>6. CASE UNCHANGED vars
  BY <1>6, PoolStutters
<1>7. QED
  BY <1>1, <1>2, <1>3, <1>4, <1>5, <1>6 DEF Next

LEMMA PoolGives == PoolInv => PoolBounded
BY GateGives DEF PoolInv, PickInv, DayInv, PoolBounded

LEMMA PoolInvHolds == Spec => []PoolInv
<1>1. Init => PoolInv
  BY PoolInit
<1>2. PoolInv /\ [Next]_vars => PoolInv'
  BY PoolStep
<1>3. QED
  BY <1>1, <1>2, PTL DEF Spec

\* The demo never grants more than a day's cap, lets no more requests through
\* a gate than its window allows and reports no outcome a drive did not have,
\* whatever the requests, the crashes and the failed calls (api_demo_launch,
\* limiter.check, bump_demo_usage, update_provider_usage_outcome).
THEOREM PoolSafe == Spec => []PoolBounded
<1>1. PoolInv => PoolBounded
  BY PoolGives
<1>2. QED
  BY <1>1, PoolInvHolds, PTL

-----------------------------------------------------------------------------
(* What a step may never do. *)

\* Outside of picking no request is sent to probe or to the paid runtime.
Calm(r) ==
    /\ ~(req[r].pc = "visit" /\ req'[r].pc \in {"probe", "refused"})
    /\ req'[r].paid => req[r].paid

LEMMA GatingCalm ==
  ASSUME TypeOK, NEW r \in Requests, Gating(r) \/ Launching(r)
  PROVE  Calm(r) /\ \A q \in Requests \ {r} : req'[q] = req[q]
<1>0. req \in [Requests -> Locals] /\ req[r] \in Locals
  BY DEF TypeOK
<1>1. req[r].pc # "visit"
  BY DEF Gating, CheckMemory, CheckIncr, CheckExpire, CheckUnreachable, Bump, BumpRead,
         Launching, Record, BuildRaises, DriveConverges, DriveRaises
<1>2. \/ \E pc : Goto(r, pc)
      \/ Refuse(r)
      \/ req' = [req EXCEPT ![r].pc = "count", ![r].day = day]
      \/ req' = [req EXCEPT ![r].pc = "record", ![r].day = NoSlug]
      \/ \E slug : req' = [req EXCEPT ![r].pc = "build", ![r].slug = slug]
  <2>1. CASE CheckMemory(r) \/ CheckIncr(r) \/ CheckExpire(r) \/ CheckUnreachable(r)
    <3>1. \A k, n : Pass(r, k, n) => (\E pc : Goto(r, pc)) \/ Refuse(r)
      BY DEF Pass
    <3>2. QED
      BY <2>1, <3>1 DEF CheckMemory, CheckIncr, CheckExpire, CheckUnreachable
  <2>2. CASE Bump(r) \/ BumpRead(r)
    BY <2>2 DEF Bump, BumpRead
  <2>3. CASE Launching(r)
    BY <2>3 DEF Launching, Record, BuildRaises, DriveConverges, DriveRaises
  <2>4. QED
    BY <2>1, <2>2, <2>3 DEF Gating
<1>3. CASE \E pc : Goto(r, pc)
  BY <1>0, <1>1, <1>3 DEF Goto, Calm, Locals
<1>4. CASE Refuse(r)
  BY <1>0, <1>1, <1>4 DEF Refuse, FreshLocals, Calm
<1>5. CASE req' = [req EXCEPT ![r].pc = "count", ![r].day = day]
  BY <1>0, <1>1, <1>5 DEF Calm, Locals
<1>6. CASE req' = [req EXCEPT ![r].pc = "record", ![r].day = NoSlug]
  BY <1>0, <1>1, <1>6 DEF Calm, Locals
<1>7. CASE \E slug : req' = [req EXCEPT ![r].pc = "build", ![r].slug = slug]
  BY <1>0, <1>1, <1>7 DEF Calm, Locals
<1>8. QED
  BY <1>2, <1>3, <1>4, <1>5, <1>6, <1>7

\* Every step, seen from one request.
LEMMA SeenFrom ==
  ASSUME PoolInv, [Next]_vars, NEW r \in Requests
  PROVE  Calm(r) \/ PickStep(r)
<1>0. TypeOK /\ PickInv
  BY DEF PoolInv, PickInv
<1>1. req'[r] = req[r] => Calm(r)
  BY DEF Calm
<1>2. ASSUME NEW q \in Requests, Picking(q) PROVE Calm(r) \/ PickStep(r)
  <2>1. PickStep(q)
    BY <1>0, <1>2, PickSteps
  <2>2. q = r \/ req'[r] = req[r]
    BY <2>1 DEF PickStep, MovesOnly
  <2>3. QED
    BY <1>1, <2>1, <2>2
<1>3. ASSUME NEW q \in Requests, Gating(q) \/ Launching(q) PROVE Calm(r)
  <2>1. Calm(q) /\ \A p \in Requests \ {q} : req'[p] = req[p]
    BY <1>0, <1>3, GatingCalm
  <2>2. QED
    BY <1>1, <2>1
<1>4. CASE Tick
  BY <1>1, <1>4 DEF Tick
<1>5. CASE CrashRestart
  BY <1>0, <1>1, <1>5, CrashMoves DEF Calm, Resting
<1>6. CASE UNCHANGED vars
  BY <1>1, <1>6 DEF vars
<1>7. QED
  BY <1>2, <1>3, <1>4, <1>5, <1>6 DEF Next

\* No probe reaches a provider inside the back-off its last result asked for,
\* whichever of the threads recorded that result (pickable, record_failure).
THEOREM BackoffIsHonoured == Spec => BackoffHonoured
<1>1. ASSUME PoolInv, [Next]_vars, NEW r \in Requests, req[r].pc = "visit", req'[r].pc = "probe"
      PROVE  wait[At(r)] = 0
  BY <1>1, SeenFrom DEF Calm, PickStep
<1>2. PoolInv /\ [Next]_vars =>
        \A r \in Requests : req[r].pc = "visit" /\ req'[r].pc = "probe" => wait[At(r)] = 0
  BY <1>1
<1>3. QED
  BY <1>2, PoolInvHolds, PTL DEF Spec, BackoffHonoured

\* A provider that answers every probe is found by every walk of the pool,
\* wherever the cursor stands and whatever the others do (pick_rotation).
THEOREM HealthyIsServed == Spec => HealthyServes
<1>1. ASSUME PoolInv, [Next]_vars, NEW r \in Requests, ~req[r].broke, up # {}
      PROVE  /\ req[r].pc = "visit" => req'[r].pc # "refused"
             /\ req'[r].paid => req[r].paid
  BY <1>1, SeenFrom DEF Calm, PickStep
<1>2. PoolInv /\ [Next]_vars =>
        \A r \in Requests :
            /\ ~req[r].broke /\ up # {}
            => /\ req[r].pc = "visit" => req'[r].pc # "refused"
               /\ req'[r].paid => req[r].paid
  BY <1>1
<1>3. QED
  BY <1>2, PoolInvHolds, PTL DEF Spec, HealthyServes
=============================================================================
