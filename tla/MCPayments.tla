----------------------------- MODULE MCPayments -----------------------------
(* Payments on small instances: friend was referred by ref. *)
EXTENDS Payments, TLC

CONSTANTS ref, friend, t1, t2

SamePayer == t1 :> friend @@ t2 :> friend
Friendship == ref :> NoUser @@ friend :> ref

Topups == t1 :> Topup @@ t2 :> Topup
Tiers == t1 :> "starter" @@ t2 :> "pro"

Tier == {"demo", "starter", "pro"}
Amounts == "demo" :> 1 @@ "starter" :> 2 @@ "pro" :> 3 @@ "topup" :> 2

Symmetry == Permutations(Workers)
=============================================================================
