------------------------------- MODULE Known -------------------------------
(***************************************************************************)
(* Known<T> of src/utils.rs, the Option-like wrapper the model objects use *)
(* for fields that an initialisation event may or may not have delivered.  *)
(* A known value stands for itself; Unknown is one extra model value.      *)
(***************************************************************************)
CONSTANT Unknown

IsUnknown(x) == x = Unknown

IsKnown(x) == x # Unknown

IsUnknownOrEq(x, y) == x = Unknown \/ x = y

OrElse(x, y) == IF x = Unknown THEN y ELSE x

Maybe(S) == S \cup {Unknown}
=============================================================================
