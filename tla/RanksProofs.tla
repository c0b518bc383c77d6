----------------------------- MODULE RanksProofs -----------------------------
(***************************************************************************)
(* What the proofs need to know of selections: how one grows at its end,   *)
(* and that every place in it belongs to a position that was kept.         *)
(***************************************************************************)
EXTENDS Ranks, FiniteSetTheorems, TLAPS

(* Positions of a sequence can be counted.                                 *)
LEMMA Countable ==
  ASSUME NEW n \in Nat, NEW P \in SUBSET (1 .. n)
  PROVE  IsFiniteSet(P) /\ Cardinality(P) \in Nat
<1>1. IsFiniteSet(1 .. n)
  BY FS_Interval
<1> QED
  BY <1>1, FS_Subset, FS_CardinalityType

(* The positions up to the next one.                                       *)
LEMMA UpToNext ==
  ASSUME NEW n \in Nat
  PROVE  \A k : k \in 1 .. n + 1 <=> k \in 1 .. n \/ k = n + 1
OBVIOUS

(* The next position counts one more.                                      *)
LEMMA CountNext ==
  ASSUME NEW n \in Nat, NEW P \in SUBSET (1 .. n)
  PROVE  Cardinality(P \cup {n + 1}) = Cardinality(P) + 1
<1>1. IsFiniteSet(P)
  BY Countable
<1>2. n + 1 \notin P
  OBVIOUS
<1> QED
  BY <1>1, <1>2, FS_AddElement

(* A place lies between the first and the last.                            *)
LEMMA RankBounds ==
  ASSUME NEW n \in Nat, NEW P \in SUBSET (1 .. n), NEW k \in P
  PROVE  Rank(P, k) \in 1 .. Cardinality(P)
<1> DEFINE below == {j \in P : j <= k}
<1>0. k \in Int
  OBVIOUS
<1>1. below \in SUBSET P /\ k \in below
  BY <1>0
<1>2. IsFiniteSet(P)
  BY Countable
<1>3. IsFiniteSet(below) /\ Cardinality(below) <= Cardinality(P)
  BY <1>1, <1>2, FS_Subset
<1>4. Cardinality(below) \in Nat /\ Cardinality(below) # 0
  BY <1>1, <1>3, FS_CardinalityType, FS_EmptySet
<1>5. Cardinality(P) \in Nat
  BY Countable
<1> QED
  BY <1>3, <1>4, <1>5 DEF Rank

(* Positions have their places in their order.                             *)
LEMMA RankIncreases ==
  ASSUME NEW n \in Nat, NEW P \in SUBSET (1 .. n), NEW k \in P, NEW m \in P, k < m
  PROVE  Rank(P, k) < Rank(P, m)
<1> DEFINE low == {j \in P : j <= k}
           high == {j \in P : j <= m}
<1>1. \A j \in P : j \in Int
  OBVIOUS
<1>2. low \in SUBSET high
  <2>1. \A j \in P : j <= k => j <= m
    BY <1>1
  <2> QED
    BY <2>1
<1>3. high \in SUBSET (1 .. n)
  OBVIOUS
<1>4. m \in high /\ m \notin low
  <2>1. m <= m /\ ~(m <= k)
    BY <1>1
  <2> QED
    BY <2>1
<1>5. /\ low \in SUBSET high /\ high \in SUBSET (1 .. n)
      /\ m \in high /\ m \notin low
  BY <1>2, <1>3, <1>4
<1>6. IsFiniteSet(high) /\ Cardinality(high) \in Nat
  BY <1>5, Countable
<1>7. /\ Cardinality(low) <= Cardinality(high)
      /\ Cardinality(low) = Cardinality(high) => low = high
  BY <1>5, <1>6, FS_Subset
<1>8. Cardinality(low) \in Nat
  BY <1>5, Countable
<1> QED
  BY <1>5, <1>6, <1>7, <1>8 DEF Rank

(* Every place belongs to a position.                                      *)
LEMMA EveryRank ==
  ASSUME NEW n \in Nat, NEW P \in SUBSET (1 .. n), NEW i \in 1 .. Cardinality(P)
  PROVE  \E k \in P : Rank(P, k) = i
<1> DEFINE places == 1 .. Cardinality(P)
           f == [k \in P |-> Rank(P, k)]
<1>1. IsFiniteSet(P) /\ Cardinality(P) \in Nat
  BY Countable
<1>2. IsFiniteSet(places) /\ Cardinality(places) = Cardinality(P)
  BY <1>1, FS_Interval
<1>3. f \in [P -> places]
  BY RankBounds
<1>4. ASSUME NEW k \in P, NEW m \in P, f[k] = f[m] PROVE k = m
  <2>1. k \in 1 .. n /\ m \in 1 .. n
    OBVIOUS
  <2>2. PICK r \in 1 .. Cardinality(P) : r = Rank(P, k) /\ r = Rank(P, m)
    BY <1>4, RankBounds
  <2>3. ~(r < r)
    BY <1>1
  <2>4. ~(k < m) /\ ~(m < k)
    BY <2>2, <2>3, RankIncreases
  <2> QED
    BY <2>1, <2>4
<1>5. f \in Injection(P, places)
  BY <1>3, <1>4 DEF Injection, IsInjective
<1>6. f \in Surjection(P, places)
  BY <1>2, <1>5, FS_Injection
<1>7. \E k \in P : f[k] = i
  BY <1>6 DEF Surjection
<1> QED
  BY <1>7

(* What comes later does not change the places of what is there.           *)
LEMMA RankStays ==
  ASSUME NEW n \in Nat, NEW P \in SUBSET (1 .. n), NEW k \in 1 .. n
  PROVE  Rank(P \cup {n + 1}, k) = Rank(P, k)
<1>1. {j \in P \cup {n + 1} : j <= k} = {j \in P : j <= k}
  OBVIOUS
<1> QED
  BY <1>1 DEF Rank

(* The next position has the next place.                                   *)
LEMMA RankNext ==
  ASSUME NEW n \in Nat, NEW P \in SUBSET (1 .. n)
  PROVE  Rank(P \cup {n + 1}, n + 1) = Cardinality(P) + 1
<1>1. \A j \in P \cup {n + 1} : j <= n + 1
  OBVIOUS
<1>2. {j \in P \cup {n + 1} : j <= n + 1} = P \cup {n + 1}
  BY <1>1, Zenon
<1> QED
  BY <1>2, CountNext DEF Rank

(* A selection grows by what the next position holds.                      *)
LEMMA SelectionGrows ==
  ASSUME NEW S, NEW t \in Seq(S), NEW e \in S, NEW n \in Nat,
         NEW P \in SUBSET (1 .. n), NEW s, NEW u,
         IsSelection(t, s, P), \A k \in P : u[k] = s[k], u[n + 1] = e
  PROVE  IsSelection(Append(t, e), u, P \cup {n + 1})
<1>1. /\ Len(t) \in Nat /\ Len(Append(t, e)) = Len(t) + 1
      /\ \A i \in 1 .. Len(t) : Append(t, e)[i] = t[i]
      /\ Append(t, e)[Len(t) + 1] = e
  OBVIOUS
<1>2. Len(t) = Cardinality(P)
  BY DEF IsSelection
<1>3. ASSUME NEW k \in P PROVE Append(t, e)[Rank(P \cup {n + 1}, k)] = u[k]
  <2>1. Rank(P, k) \in 1 .. Len(t)
    BY <1>2, RankBounds
  <2>2. Rank(P \cup {n + 1}, k) = Rank(P, k)
    BY RankStays
  <2> QED
    BY <1>1, <2>1, <2>2 DEF IsSelection
<1>4. Append(t, e)[Rank(P \cup {n + 1}, n + 1)] = u[n + 1]
  BY <1>1, <1>2, RankNext
<1>5. Len(Append(t, e)) = Cardinality(P \cup {n + 1})
  BY <1>1, <1>2, CountNext
<1> QED
  BY <1>3, <1>4, <1>5 DEF IsSelection

(* A selection is one of every sequence that has the same at its positions. *)
LEMMA SelectionStays ==
  ASSUME NEW t, NEW s, NEW u, NEW P, IsSelection(t, s, P), \A k \in P : u[k] = s[k]
  PROVE  IsSelection(t, u, P)
BY DEF IsSelection
=============================================================================
