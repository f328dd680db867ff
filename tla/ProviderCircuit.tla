-------------------------- MODULE ProviderCircuit --------------------------
(***************************************************************************)
(* The circuit breaker of one AI provider (provider_guard.py) and the      *)
(* classification of what a health probe (provider.py) found.  The         *)
(* absolute times opens_at and cooldown_until are kept as the ticks left   *)
(* until they lapse, so that no clock grows.                               *)
(***************************************************************************)
EXTENDS Integers, Sequences

CONSTANTS
    Fails,          \* FLUXSWARM_POOL_BREAKER_FAILS
    Cooldown,       \* FLUXSWARM_POOL_COOLDOWN_S, in ticks
    OpenFor,        \* FLUXSWARM_POOL_BREAKER_OPEN_S, in ticks
    AuthBackoff     \* FLUXSWARM_POOL_AUTH_BACKOFF_S, in ticks

ASSUME CircuitAssumption ==
    /\ Fails \in Nat \ {0}
    /\ Cooldown \in Nat /\ OpenFor \in Nat /\ AuthBackoff \in Nat

Codes == {400, 401, 403, 404, 408, 429, 500, 502, 503, 504}

\* What a probe meets: kind says how far it came, code is the HTTP status of
\* an answer, unknownModel that its body says so, quoted the codes that the
\* body or the exception text happens to contain.
Response ==
    [kind : {"no provider", "no model", "no key", "timeout", "no connection", "http"},
     code : Codes \cup {200, 418},
     unknownModel : BOOLEAN,
     quoted : SUBSET Codes]

\* check_provider_health: the status, and the codes its detail text contains.
CheckHealth(resp) ==
    LET health(status, codes) == [status |-> status, codes |-> codes]
    IN  CASE resp.kind \in {"no provider", "no model"} -> health("config_error", {})
          [] resp.kind = "no key" -> health("auth_error", {})
          [] resp.kind = "timeout" -> health("timeout", {})
          [] resp.kind = "no connection" -> health("provider_unavailable", resp.quoted)
          [] resp.code \in {401, 403} -> health("auth_error", {resp.code})
          [] resp.code \in {502, 503, 504, 429} -> health("provider_unavailable", {resp.code})
          [] resp.code >= 400 /\ resp.unknownModel -> health("model_unavailable", {resp.code})
          [] resp.code >= 400 -> health("provider_unavailable",
                                        ({resp.code} \cap Codes) \cup resp.quoted)
          [] OTHER -> health("success", {})

\* _status_code_for tries the codes in this order, whichever of them the
\* detail text contains.
CodeOrder == <<429, 401, 403, 400, 404, 408, 500, 502, 503, 504>>

StatusCodeFor(codes) ==
    CodeOrder[CHOOSE i \in DOMAIN CodeOrder :
                /\ CodeOrder[i] \in codes
                /\ \A j \in 1..(i - 1) : CodeOrder[j] \notin codes]

Transient == {"rate_limited", "timeout", "provider_error"}
ErrorClasses == Transient \cup {"auth_error", "bad_request", "model_unavailable", "unknown"}

ClassifyProviderError(code) ==
    CASE code = 429 -> "rate_limited"
      [] code \in {401, 403} -> "auth_error"
      [] code = 400 -> "bad_request"
      [] code = 404 -> "model_unavailable"
      [] code = 408 -> "timeout"
      [] OTHER -> "provider_error"

ErrorFromHealth(health) ==
    CASE health.status \in {"auth_error", "timeout", "model_unavailable"} -> health.status
      [] health.status = "config_error" -> "unknown"
      [] health.codes = {} -> "provider_error"
      [] OTHER -> ClassifyProviderError(StatusCodeFor(health.codes))

CircuitStates == {"healthy", "degraded", "cooldown", "exhausted", "auth_error", "disabled"}

Circuit ==
    [state : CircuitStates,
     fails : 0..Fails,      \* consecutive_fails, which only >= Fails tells apart
     open : Nat,            \* ticks until opens_at plus the back-off of the state
     cool : Nat]            \* ticks until cooldown_until

FreshCircuit == [state |-> "healthy", fails |-> 0, open |-> 0, cool |-> 0]

\* Mutant: an open breaker is judged by its cooldown.
PickableByCooldown(c) ==
    CASE c.state = "disabled" -> FALSE
      [] c.state = "auth_error" -> c.open = 0
      [] c.state \in {"cooldown", "exhausted"} -> c.cool = 0
      [] OTHER -> TRUE

Pickable(c) ==
    CASE c.state = "disabled" -> FALSE
      [] c.state \in {"auth_error", "exhausted"} -> c.open = 0
      [] c.state = "cooldown" -> c.cool = 0
      [] OTHER -> TRUE

\* pickable() itself turns a lapsed back-off into a cooldown that is over.
Picked(c) ==
    IF c.state \in {"auth_error", "exhausted"}
    THEN [c EXCEPT !.state = "cooldown", !.cool = 0]
    ELSE c

RecordSuccess(c) == [c EXCEPT !.state = "healthy", !.fails = 0, !.cool = 0]

OneMoreFail(c) == IF c.fails < Fails THEN c.fails + 1 ELSE Fails

RecordFailure(c, error) ==
    LET failed == [c EXCEPT !.fails = OneMoreFail(c)]
    IN  CASE error = "auth_error" -> [failed EXCEPT !.state = "auth_error", !.open = AuthBackoff]
          [] error \in Transient /\ OneMoreFail(c) = Fails ->
                [failed EXCEPT !.state = "exhausted", !.open = OpenFor, !.cool = Cooldown]
          [] error \in Transient /\ OneMoreFail(c) < Fails ->
                [failed EXCEPT !.state = "cooldown", !.cool = Cooldown]
          [] error = "model_unavailable" -> [c EXCEPT !.state = "disabled"]
          [] OTHER -> [c EXCEPT !.state = "degraded"]

Less(n) == IF n > 0 THEN n - 1 ELSE 0

Older(c) == [c EXCEPT !.open = Less(c.open), !.cool = Less(c.cool)]
=============================================================================
