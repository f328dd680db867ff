------------------------------ MODULE LiveView ------------------------------
(***************************************************************************)
(* The sockets that follow a board (main.py), under a cap for the board    *)
(* and one for a user's on it.  The handlers share the event loop and give *)
(* way only where they await.                                              *)
(***************************************************************************)
EXTENDS Integers, FiniteSets

CONSTANTS
    Sockets,        \* connections, each opened once
    Viewers,        \* users
    Watched,        \* boards
    SlugCap,        \* _WS_MAX_SUBS_PER_SLUG
    UserCap         \* _WS_MAX_SUBS_PER_USER_SLUG

ASSUME LiveViewAssumption ==
    SlugCap \in Nat /\ UserCap \in Nat /\ Viewers # {} /\ Watched # {}

VARIABLES
    socket,     \* each socket: pc, its user and board
    subs,       \* _SUBS
    subsUser,   \* _SUBS_USER
    session     \* users whose session is still good

liveVars == <<socket, subs, subsUser, session>>

LiveInit ==
    /\ socket = [s \in Sockets |-> [pc |-> "new", user |-> CHOOSE u \in Viewers : TRUE,
                                    board |-> CHOOSE b \in Watched : TRUE]]
    /\ subs = [b \in Watched |-> {}] /\ subsUser = [p \in Viewers \X Watched |-> {}]
    /\ session = Viewers

\* The cookie, the session, the user, the owner and the board are checked once.
Handshake(s, u, b) ==
    /\ socket[s].pc = "new"
    /\ socket' = [socket EXCEPT ![s] = [pc |-> IF u \in session THEN "accepted" ELSE "closed", user |-> u, board |-> b]]
    /\ UNCHANGED <<subs, subsUser, session>>

\* Both sets take the socket before they are counted, and one too many leaves again.
Register(s) ==
    LET b == socket[s].board
        key == <<socket[s].user, b>>
        over == Cardinality(subs[b]) + 1 > SlugCap \/ Cardinality(subsUser[key]) + 1 > UserCap
    IN /\ socket[s].pc = "accepted"
       /\ socket' = [socket EXCEPT ![s].pc = IF over THEN "closed" ELSE "listing"]
       /\ subs' = IF over THEN subs ELSE [subs EXCEPT ![b] = @ \cup {s}]
       /\ subsUser' = IF over THEN subsUser ELSE [subsUser EXCEPT ![key] = @ \cup {s}]
       /\ UNCHANGED session

\* A snapshot or an update is listed in a worker thread, sent, and awaited again;
\* a listing that fails is reported and the loop goes on.
SendTasks(s) ==
    /\ socket[s].pc \in {"listing", "sleeping"}
    /\ socket' = [socket EXCEPT ![s].pc = IF @ = "listing" THEN "sleeping" ELSE "listing"]
    /\ UNCHANGED <<subs, subsUser, session>>

\* Mutant: a client that goes leaves its user's slot taken.
DisconnectsKept(s) ==
    /\ socket[s].pc \in {"accepted", "listing", "sleeping"}
    /\ socket' = [socket EXCEPT ![s].pc = "closed"]
    /\ subs' = [subs EXCEPT ![socket[s].board] = @ \ {s}]
    /\ UNCHANGED <<subsUser, session>>

\* The client goes at any await: both slots are given back.
Disconnects(s) ==
    /\ socket[s].pc \in {"accepted", "listing", "sleeping"}
    /\ socket' = [socket EXCEPT ![s].pc = "closed"]
    /\ subs' = [subs EXCEPT ![socket[s].board] = @ \ {s}]
    /\ subsUser' = [subsUser EXCEPT ![<<socket[s].user, socket[s].board>>] = @ \ {s}]
    /\ UNCHANGED session

\* A logout does not close the sockets that are open.
SessionEnds(u) == u \in session /\ session' = session \ {u} /\ UNCHANGED <<socket, subs, subsUser>>

LiveNext ==
    \/ \E s \in Sockets : Register(s) \/ SendTasks(s) \/ Disconnects(s)
                          \/ \E u \in Viewers, b \in Watched : Handshake(s, u, b)
    \/ \E u \in Viewers : SessionEnds(u)

LiveSpec == LiveInit /\ [][LiveNext]_liveVars

-----------------------------------------------------------------------------
(* Properties. *)

LiveTypeOK ==
    /\ socket \in [Sockets -> [pc : {"new", "accepted", "listing", "sleeping", "closed"}, user : Viewers, board : Watched]]
    /\ subs \in [Watched -> SUBSET Sockets] /\ subsUser \in [Viewers \X Watched -> SUBSET Sockets]

\* A slot is taken by a socket that streams, in both sets, and by nothing else,
\* whatever way the sockets went; and neither cap is passed.
SlotsAreHeld ==
    LiveTypeOK /\
    \A b \in Watched :
        /\ subs[b] = {s \in Sockets : socket[s].pc \in {"listing", "sleeping"} /\ socket[s].board = b}
        /\ Cardinality(subs[b]) <= SlugCap
        /\ \A u \in Viewers : /\ subsUser[<<u, b>>] = {s \in subs[b] : socket[s].user = u}
                              /\ Cardinality(subsUser[<<u, b>>]) <= UserCap
=============================================================================
