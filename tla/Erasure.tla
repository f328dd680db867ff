------------------------------ MODULE Erasure ------------------------------
(***************************************************************************)
(* What the database and the key vault hold about one account, the review  *)
(* requests made for its projects, and the erasure of all of it            *)
(* (DELETE /api/account) while requests of the account, purchases of its   *)
(* templates, key uploads of another account and the reviewers go on.      *)
(*                                                                         *)
(* Rows are kept by kind: whether the account has one.  On SQLite the      *)
(* erasure is one transaction that a broken foreign key fails as a whole;  *)
(* on PostgreSQL each DELETE commits alone and one that fails is skipped.  *)
(***************************************************************************)
EXTENDS Naturals, FiniteSets, Sequences

CONSTANTS
    Reviewers,      \* operators with the admin token
    Kinds,          \* the kinds of rows looked at
    MaxAsked,       \* bound: requests of the account in flight
    MaxVerdicts     \* bound: verdicts a run hands out

\* "sold" are purchases others made of the account's templates, "acks" notices
\* it acknowledged, "reviews" requests that name one of its projects.
AllKinds == {"user", "projects", "templates", "sold", "purchases", "referrals", "payments", "links",
             "codes", "resets", "agreements", "acks", "reviews", "agents"}

ASSUME ErasureAssumption ==
    /\ "user" \in Kinds /\ Kinds \subseteq AllKinds
    /\ MaxAsked \in Nat /\ MaxVerdicts \in Nat

VARIABLES
    db,         \* "sqlite" or "postgres"
    rows,       \* kinds of rows the account has; "user" is its own row
    review,     \* human_review_status of its request
    vault,      \* accounts with a key in byok.json
    asked,      \* kinds a request of the account, past its session check, adds
    keyOp,      \* what each account's key request holds of byok.json
    erasure,    \* where DELETE /api/account stands
    reviewer,   \* where each reviewer stands
    verdicts,   \* how much of the bound is used up
    notified,   \* history: verdicts the account was told
    late,       \* history: a request added rows once the account was erased
    crossed     \* history: two writers of byok.json crossed

erasureHistory == <<notified, late, crossed>>
erasureVars == <<db, rows, review, vault, asked, keyOp, erasure, reviewer, verdicts,
                 notified, late, crossed>>

Accounts == {"mine", "other"}

\* The foreign keys that restrict a DELETE, and those that follow it.
RefersSqlite(k) ==
    CASE k = "sold" -> {"templates"}
      [] k = "reviews" -> {"user", "projects"}
      [] k \in {"user", "referrals", "payments", "codes"} -> {}
      [] OTHER -> {"user"}

RefersPostgres(k) ==
    CASE k = "sold" -> {"templates"}
      [] k \in {"user", "referrals"} -> {}
      [] k = "reviews" -> {"user", "projects"}
      [] OTHER -> {"user"}

Cascades(k) == db = "postgres" /\ k \in {"agreements", "acks", "reviews"}

Refers(k) == IF db = "sqlite" THEN RefersSqlite(k) ELSE RefersPostgres(k)

\* Rows that keep a row of kind k where it is.
Holding(k, present) == {j \in present : k \in Refers(j) /\ ~Cascades(j)}
Following(k, present) == {j \in present : k \in Refers(j) /\ Cascades(j)}

Verdict == {"approved", "rejected", "needs_changes"}
NoFile == "none"

KeyOp == [pc : {"idle", "save"}, loaded : SUBSET Accounts]
ErasureState == [pc : {"idle", "slugs", "load", "save", "sql", "boards", "answered", "raised"},
                 loaded : SUBSET Accounts, at : 1..13, ok : BOOLEAN]

ErasureTypeOK ==
    /\ db \in {"sqlite", "postgres"}
    /\ rows \in SUBSET Kinds
    /\ review \in Verdict \cup {"none", "requested"}
    /\ vault \in SUBSET Accounts
    /\ asked \in SUBSET Kinds
    /\ keyOp \in [Accounts -> KeyOp]
    /\ erasure \in ErasureState
    /\ reviewer \in [Reviewers -> {"idle", "update", "notify"}]
    /\ verdicts \in 0..MaxVerdicts
    /\ notified \in Seq(Verdict) /\ late \in BOOLEAN /\ crossed \in BOOLEAN

ErasureInit ==
    /\ db \in {"sqlite", "postgres"}
    /\ rows = {"user"}
    /\ review = "none"
    /\ vault = {} /\ asked = {}
    /\ keyOp = [a \in Accounts |-> [pc |-> "idle", loaded |-> {}]]
    /\ erasure = [pc |-> "idle", loaded |-> {}, at |-> 1, ok |-> FALSE]
    /\ reviewer = [r \in Reviewers |-> "idle"]
    /\ verdicts = 0
    /\ notified = <<>> /\ late = FALSE /\ crossed = FALSE

------------------------------------------------------------------------------
(* Requests of the account: the session is checked, then the row is added. *)

Addable == Kinds \ {"user", "sold", "reviews", "referrals"}

\* The session check reads the user's row.
Ask(k) ==
    /\ "user" \in rows /\ k \in Addable \cup {"reviews"}
    /\ k = "reviews" => "projects" \in rows /\ review = "none"
    /\ k \notin rows \cup asked /\ Cardinality(asked) < MaxAsked
    /\ asked' = asked \cup {k}
    /\ UNCHANGED <<db, rows, review, vault, keyOp, erasure, reviewer, verdicts, erasureHistory>>

\* An INSERT whose foreign key finds nothing raises.
Insert(k) ==
    /\ k \in asked
    /\ asked' = asked \ {k}
    /\ rows' = IF Refers(k) \subseteq rows THEN rows \cup {k} ELSE rows
    /\ late' = (late \/ "user" \notin rows)
    /\ UNCHANGED <<db, vault, keyOp, erasure, reviewer, verdicts, notified, crossed>>

\* A row of a notice, an agreement, a project, a custom agent, a purchase.
AddRow(k) == k # "reviews" /\ Insert(k) /\ UNCHANGED review

\* request_human_review
RequestReview ==
    /\ Insert("reviews")
    /\ review' = IF Refers("reviews") \subseteq rows THEN "requested" ELSE review

\* Somebody else buys one of its templates.
Sell ==
    /\ "templates" \in rows /\ "sold" \in Kinds
    /\ rows' = rows \cup {"sold"}
    /\ UNCHANGED <<db, review, vault, asked, keyOp, erasure, reviewer, verdicts, erasureHistory>>

\* A friend registers with its code.
Refer ==
    /\ "user" \in rows /\ "referrals" \in Kinds
    /\ rows' = rows \cup {"referrals"}
    /\ UNCHANGED <<db, review, vault, asked, keyOp, erasure, reviewer, verdicts, erasureHistory>>

------------------------------------------------------------------------------
(* The reviewers: PATCH /api/admin/human-review/{id}. *)

\* get_human_review joins the user's row.
OpenReview(r) ==
    /\ reviewer[r] = "idle" /\ "reviews" \in rows /\ "user" \in rows
    /\ reviewer' = [reviewer EXCEPT ![r] = "update"]
    /\ UNCHANGED <<db, rows, review, vault, asked, keyOp, erasure, verdicts, erasureHistory>>

\* The UPDATE meets a row only while the request is open; then the account is told.
UpdateHumanReview(r) ==
    /\ reviewer[r] = "update" /\ verdicts < MaxVerdicts
    /\ verdicts' = verdicts + 1
    /\ IF "reviews" \in rows /\ review = "requested"
       THEN \E v \in Verdict : review' = v /\ notified' = Append(notified, v)
       ELSE UNCHANGED <<review, notified>>
    /\ reviewer' = [reviewer EXCEPT ![r] = "idle"]
    /\ UNCHANGED <<db, rows, vault, asked, keyOp, erasure, late, crossed>>

------------------------------------------------------------------------------
(* The vault: byok.json is loaded, changed and written back as a whole. *)

Writing == {a \in Accounts : keyOp[a].pc = "save"}
           \cup (IF erasure.pc = "save" THEN {"erasure"} ELSE {})

LoadVault(a) ==
    /\ keyOp[a].pc = "idle"
    /\ a = "mine" => "user" \in rows
    /\ keyOp' = [keyOp EXCEPT ![a] = [pc |-> "save", loaded |-> vault]]
    /\ crossed' = (crossed \/ Writing # {})
    /\ UNCHANGED <<db, rows, review, vault, asked, erasure, reviewer, verdicts, notified, late>>

\* set_user_key writes what it loaded and the new key.
SaveVault(a) ==
    /\ keyOp[a].pc = "save"
    /\ vault' = keyOp[a].loaded \cup {a}
    /\ keyOp' = [keyOp EXCEPT ![a] = [pc |-> "idle", loaded |-> {}]]
    /\ late' = (late \/ (a = "mine" /\ "user" \notin rows) \/ erasure.pc \notin {"idle", "slugs", "load"})
    /\ UNCHANGED <<db, rows, review, asked, erasure, reviewer, verdicts, notified, crossed>>

------------------------------------------------------------------------------
(* DELETE /api/account. *)

ErasureAt(pc) == erasure' = [erasure EXCEPT !.pc = pc]

\* The account's boards are listed before its rows go.
StartErasure ==
    /\ erasure.pc = "idle" /\ "user" \in rows
    /\ ErasureAt("load")
    /\ UNCHANGED <<db, rows, review, vault, asked, keyOp, reviewer, verdicts, erasureHistory>>

\* delete_user_key, before anything else: loaded here ...
LoadForErasure ==
    /\ erasure.pc = "load"
    /\ erasure' = [erasure EXCEPT !.pc = IF "mine" \in vault THEN "save" ELSE "sql", !.loaded = vault]
    /\ crossed' = (crossed \/ ("mine" \in vault /\ Writing # {}))
    /\ UNCHANGED <<db, rows, review, vault, asked, keyOp, reviewer, verdicts, notified, late>>

\* ... and written back without the account.
DeleteUserKey ==
    /\ erasure.pc = "save"
    /\ vault' = erasure.loaded \ {"mine"}
    /\ ErasureAt("sql")
    /\ UNCHANGED <<db, rows, review, asked, keyOp, reviewer, verdicts, erasureHistory>>

\* Mutant: the pairing codes are left out.
OrderSqliteNoCodes ==
    <<{"projects"}, {"templates"}, {"purchases"}, {}, {"payments"}, {"links"},
      {"resets"}, {"agreements"}, {"acks", "reviews"}, {"agents"}, {"user"}>>

\* The DELETEs in their order.  That of "referrals" is given the account's id
\* where the column holds its code, so it removes nothing; PostgreSQL's list has
\* no custom agents.
OrderSqlite ==
    <<{"projects"}, {"templates"}, {"purchases"}, {}, {"payments"}, {"links"}, {"codes"},
      {"resets"}, {"agreements"}, {"acks", "reviews"}, {"agents"}, {"user"}>>
OrderPostgres ==
    <<{"projects"}, {"templates"}, {"purchases"}, {}, {"payments"}, {"links"}, {"codes"},
      {"resets"}, {"agreements"}, {"acks", "reviews"}, {"user"}>>

HeldBack(ks, present) == \E k \in ks \cap present : Holding(k, present) # {}
Without(ks, present) == present \ (ks \cup UNION {Following(k, present) : k \in ks \cap present})

Listed(order, n) == UNION {order[i] : i \in 1..n}

\* Some DELETE of the list meets a row that one no earlier DELETE removed refers to.
AnyHeldBack(order) ==
    \E i \in DOMAIN order : HeldBack(order[i], rows \ Listed(order, i - 1))

\* Mutant: each DELETE is its own transaction.
DeleteUserSqliteEach ==
    /\ erasure.pc = "sql" /\ db = "sqlite"
    /\ rows' = IF HeldBack({"projects"}, rows) THEN rows ELSE rows \ {"projects"}
    /\ ErasureAt("raised")
    /\ UNCHANGED <<db, review, vault, asked, keyOp, reviewer, verdicts, erasureHistory>>

\* delete_user on SQLite: only OperationalError is caught, so a foreign key
\* that is held back undoes the whole and the request fails.
DeleteUserSqlite ==
    /\ erasure.pc = "sql" /\ db = "sqlite"
    /\ IF AnyHeldBack(OrderSqlite)
       THEN ErasureAt("raised") /\ UNCHANGED rows
       ELSE ErasureAt("boards") /\ rows' = rows \ Listed(OrderSqlite, Len(OrderSqlite))
    /\ UNCHANGED <<db, review, vault, asked, keyOp, reviewer, verdicts, erasureHistory>>

\* delete_user on PostgreSQL, one DELETE: refused ones are skipped.
DeleteUserPostgres ==
    /\ erasure.pc = "sql" /\ db = "postgres"
    /\ LET ks == OrderPostgres[erasure.at]
       IN  rows' = IF HeldBack(ks, rows) THEN rows ELSE Without(ks, rows)
    /\ erasure' = [erasure EXCEPT !.at = @ + 1,
                                  !.pc = IF erasure.at = Len(OrderPostgres) THEN "boards" ELSE "sql"]
    /\ UNCHANGED <<db, review, vault, asked, keyOp, reviewer, verdicts, erasureHistory>>

\* delete_boards is best effort; the answer is what delete_user returned.
AnswerErasure ==
    /\ erasure.pc = "boards"
    /\ erasure' = [erasure EXCEPT !.pc = "answered", !.ok = TRUE]
    /\ UNCHANGED <<db, rows, review, vault, asked, keyOp, reviewer, verdicts, erasureHistory>>

ErasureNext ==
    \/ \E k \in Kinds : Ask(k) \/ AddRow(k)
    \/ RequestReview \/ Sell \/ Refer
    \/ \E r \in Reviewers : OpenReview(r) \/ UpdateHumanReview(r)
    \/ \E a \in Accounts : LoadVault(a) \/ SaveVault(a)
    \/ StartErasure \/ LoadForErasure \/ DeleteUserKey
    \/ DeleteUserSqlite \/ DeleteUserPostgres \/ AnswerErasure

ErasureSpec == ErasureInit /\ [][ErasureNext]_erasureVars

------------------------------------------------------------------------------
(* What an answered erasure leaves.  delete_user says "all their rows"; the    *)
(* code leaves the referrals made with the account's code on either database,  *)
(* and on PostgreSQL whatever holds a DELETE back, which is skipped.  So: the   *)
(* key is gone; where the account's own row is gone, on SQLite always, no row   *)
(* but referrals is left; and where it stayed some row that is left refers to   *)
(* it.  Rows of a request that passed its session check before the erasure and  *)
(* wrote after it, and a byok.json two writers crossed on, are left out.        *)
ErasedLeavesReferrals ==
    erasure.pc = "answered" /\ ~late /\ ~crossed =>
        /\ "mine" \notin vault
        /\ db = "sqlite" \/ "user" \notin rows => rows \subseteq {"referrals"}
        /\ "user" \in rows => Holding("user", rows) # {}

(* Two reviewers at one request: the account hears one verdict and it stays.  *)
ReviewResolvedOnce == Len(notified) <= 1 /\ (notified # <<>> => review = notified[1])

(* An answered erasure and an answered review are what was answered.          *)
ErasureKept == ErasureTypeOK /\ ErasedLeavesReferrals /\ ReviewResolvedOnce

(* An erasure takes all rows of its account, or on SQLite none, and never the *)
(* keys of another account, unless two writers of byok.json crossed.          *)
ErasureAllOrNothing ==
    [][/\ db = "sqlite" /\ ~(rows \subseteq rows') => "user" \notin rows'
       /\ ~crossed' /\ "other" \in vault => "other" \in vault']_erasureVars
=============================================================================
