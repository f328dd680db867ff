----------------------------- MODULE MCAccounts -----------------------------
(***************************************************************************)
(* Sessions, erasure, pairing and the market on small instances.  The four *)
(* share no state, so a behaviour takes the steps of one of them only.     *)
(***************************************************************************)
EXTENDS Sessions, Erasure, Pairing, Market, TLC

CONSTANTS c1, c2, r1, r2, dan, eve, phone, tablet, code1, code2, b1, b2, b3, ann, bob

VARIABLE part

Symmetry ==
    Permutations({c1, c2}) \cup Permutations({dan, eve}) \cup Permutations({code1, code2})

\* Two threads buy for bob, one for ann.
Buys == b1 :> bob @@ b2 :> bob @@ b3 :> ann
Author == [t \in Templates |-> ann]

Init ==
    /\ part \in {"sessions", "erasure", "pairing", "market"}
    /\ SessionsInit /\ ErasureInit /\ PairingInit /\ MarketInit
    /\ part # "sessions" => store = [db |-> "sqlite", limiter |-> "memory", legacy |-> FALSE]
                            /\ account.password = "old"
    /\ part # "erasure" => db = "sqlite"
    /\ links = [c \in Chats |-> Nobody] \/ (part = "pairing" /\ base = "sqlite" /\ links[tablet] = Nobody)
    /\ part # "pairing" => base = "sqlite"
    /\ part # "market" => engine = "sqlite"

Next ==
    /\ UNCHANGED part
    /\ \/ part = "sessions" /\ SessionsNext /\ UNCHANGED <<erasureVars, pairVars, marketVars>>
       \/ part = "erasure" /\ ErasureNext /\ UNCHANGED <<sessionVars, pairVars, marketVars>>
       \/ part = "pairing" /\ PairingNext /\ UNCHANGED <<sessionVars, erasureVars, marketVars>>
       \/ part = "market" /\ MarketNext /\ UNCHANGED <<sessionVars, erasureVars, pairVars>>

Spec == Init /\ [][Next]_<<part, sessionVars, erasureVars, pairVars, marketVars>>

\* Within a part, what does not meet is explored apart: the lockout and the
\* sessions; byok.json and the rows of the account; two codes and the bot's launches.
Corners ==
    /\ \/ store.limiter = "memory" /\ failures = NoFailures /\ restarts = 0
          /\ \A c \in Clients : client[c].pc # "failed"
       \/ sessions = {} /\ \A t \in ResetTokens : minted[t] = 0
    /\ \/ vault = {} /\ \A a \in Accounts : keyOp[a].pc = "idle"
       \/ rows \subseteq {"user", "codes"}
    /\ review = "none" \/ rows \subseteq {"user", "projects", "reviews"}
    /\ \/ bot.pc \in {"idle", "consume"} /\ botFaults = 0 /\ \A a \in Users : credit[a] = Credits
       \/ base = "sqlite" /\ \A c \in Codes : born[c] = 0
    /\ (\A m \in Members : agents[m] = 0) \/ \A t \in Templates : price[t] = 0
=============================================================================
