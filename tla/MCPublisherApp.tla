--------------------------- MODULE MCPublisherApp ---------------------------
(* Small instances of PublisherApp for TLC. *)
EXTENDS PublisherApp, Naturals, FiniteSets, TLC

CONSTANTS r1, r2, h1, h2, h3, x1, x2, a1, a2

Symmetry ==
  UNION {Permutations(S) :
           S \in {{r1, r2}, {h1, h2, h3}, {x1, x2}, {a1, a2}}}

(* Bounds: of arbitrary events, those of few publishers; gids come in order. *)
FewPublishers ==
  /\ Cardinality({p \in Publisher : publishers[p] # Nil}) <= 2
  /\ Cardinality({h \in RclHandle : publishersByRcl[h] # Nil}) <= 2
  /\ LET gids == {publishers[p].gid : p \in {p \in Publisher : publishers[p] # Nil}}
     IN  gids \subseteq {1, 2, Unknown} /\ (2 \in gids => 1 \in gids)

Bounds == IF complete THEN usedGids = 1..Cardinality(usedGids) ELSE FewPublishers

MCSpec == AppInit /\ [][AppNext /\ Bounds']_allVars
=============================================================================
