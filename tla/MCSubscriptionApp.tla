------------------------- MODULE MCSubscriptionApp -------------------------
(* Small instances of SubscriptionApp and Latencies for TLC. *)
EXTENDS Latencies, TLC

CONSTANTS r1, r2, h1, h2, c1, c2, f1, f2, x1, x2, g1, g2, g3, a1, a2, t1, t2

MCAddressOf == (t1 :> a1 @@ t2 :> a2)

Symmetry ==
  UNION {Permutations(S) :
           S \in {{r1, r2}, {h1, h2}, {c1, c2}, {f1, f2}, {x1, x2}, {g1, g2, g3}}}
=============================================================================
