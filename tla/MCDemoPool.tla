----------------------------- MODULE MCDemoPool -----------------------------
(* The demo pool on small instances: two providers, the first one the fast slot. *)
EXTENDS DemoPool, TLC

CONSTANTS r1, r2, r3, here, there

\* The probe key of "google" is "gemini".
TwoProviders == <<"gemini", "openrouter">>
TwoNames == {"google", "openrouter"}

\* One address twice and another one.
TwoAddresses == r1 :> here @@ r2 :> here @@ r3 :> there
SameAddress == r1 :> here @@ r2 :> here

Everyone == r1 :> here @@ r2 :> here @@ r3 :> here
Symmetry == Permutations({r1, r2, r3})

\* Picking never reads a quota and a gate never reads a breaker, so each half
\* is explored with the other one at rest: the gates where every provider
\* answers and requests pick one after the other, the breakers up to the first gate.
Halves ==
    \/ /\ up = Providers
       /\ \A p \in Providers : circuit[p] = FreshCircuit
       /\ Cardinality({r \in Requests : req[r].pc \in {"visit", "probe"}}) <= 1
    \/ /\ up \subseteq {"openrouter"} /\ backend = "memory" /\ used.crash = 0
       /\ usage["even"] + usage["odd"] = 0 /\ hits[here].ages[0] = 0

Http(code) == [kind |-> "http", code |-> code, unknownModel |-> FALSE, quoted |-> {}]
Some == {Http(200), Http(401), Http(429), Http(400),
         [Http(404) EXCEPT !.unknownModel = TRUE]}
=============================================================================
