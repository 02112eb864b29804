----------------------------- MODULE MCCallers -----------------------------
(* Small instances of CallerApp for TLC. *)
EXTENDS CallerApp, TLC

CONSTANTS h1, h2, f1, f2

MCCallbackAt == (h1 :> f1 @@ h2 :> f2)
=============================================================================
