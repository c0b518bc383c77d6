-------------------------------- MODULE Ranks --------------------------------
(***************************************************************************)
(* A sequence that is what another one leaves when only some of its        *)
(* positions are kept, in their order.  It is stated by counting: which    *)
(* place a position has among those that are kept.                         *)
(***************************************************************************)
EXTENDS Integers, Sequences, FiniteSets

(* The place of position k among the positions P.                          *)
Rank(P, k) == Cardinality({j \in P : j <= k})

(* t is s at the positions P, in their order, and nothing else.            *)
IsSelection(t, s, P) ==
  /\ Len(t) = Cardinality(P)
  /\ \A k \in P : t[Rank(P, k)] = s[k]
=============================================================================
