---------------------------- MODULE LeastNumbers ----------------------------
(***************************************************************************)
(* Least and greatest elements of sets of numbers: what Min and Max of the *)
(* community modules return, and the least counterexample the inductions   *)
(* of the proof modules are made of.                                       *)
(***************************************************************************)
EXTENDS Integers, FiniteSetsExt, WellFoundedInduction, TLAPS

(* A nonempty set of numbers has a least element. *)
LEMMA Least == ASSUME NEW S \in SUBSET Nat, S # {}
               PROVE  \E n \in S : \A m \in S : n <= m
<1> DEFINE Less == {ss \in Nat \X Nat : ss[1] < ss[2]}
<1>1. IsWellFoundedOn(Less, Nat)  BY NatLessThanWellFounded DEF OpToRel
<1> HIDE DEF Less
<1>2. PICK n \in S : \A m \in S : <<m, n>> \notin Less  BY <1>1, WFMin, Zenon
<1>3. ASSUME NEW m \in S  PROVE n <= m
  <2>1. m \in Nat /\ n \in Nat  OBVIOUS
  <2>2. ~ (m < n)  BY <1>2, <2>1 DEF Less
  <2> QED  BY <2>1, <2>2
<1> QED  BY <1>3

(* Min is a member. *)
LEMMA MinIsMember == ASSUME NEW S \in SUBSET Nat, S # {}  PROVE Min(S) \in S
<1>1. PICK n \in S : \A m \in S : n <= m  BY Least
<1>2. QED  BY <1>1 DEF Min

(* Max of a bounded set is its greatest member, and no other number is.    *)
LEMMA MaxIsGreatest ==
    ASSUME NEW N \in Nat, NEW S \in SUBSET (1..N), S # {}
    PROVE  /\ Max(S) \in S /\ \A w \in S : w <= Max(S)
           /\ \A m \in S : (\A w \in S : w <= m) => Max(S) = m
<1> DEFINE Below == {n \in Nat : N - n \in S}
<1>1. PICK v \in S : TRUE  OBVIOUS
<1>2. N - v \in Nat /\ N - (N - v) = v  OBVIOUS
<1>3. Below # {}  BY <1>1, <1>2
<1>4. PICK n \in Below : \A m \in Below : n <= m  BY <1>3, Least
<1>5. \A w \in S : w <= N - n
  <2> TAKE w \in S
  <2>1. N - w \in Nat /\ N - (N - w) = w  OBVIOUS
  <2>2. n <= N - w  BY <1>4, <2>1
  <2> QED  BY <2>1, <2>2
<1>6. N - n \in S /\ \A w \in S : N - n >= w
  BY <1>4, <1>5
<1>7. Max(S) \in S /\ \A w \in S : Max(S) >= w
  BY <1>6 DEF Max
<1> HIDE DEF Below
<1>8. Max(S) \in Nat /\ S \subseteq Nat
  <2>1. S \subseteq Nat  OBVIOUS
  <2> QED  BY <1>7, <2>1, Zenon
<1>9. \A w \in S : w <= Max(S)  BY <1>7, <1>8
<1>10. ASSUME NEW m \in S, \A w \in S : w <= m  PROVE Max(S) = m
  <2>1. m \in Nat /\ m <= Max(S) /\ Max(S) <= m  BY <1>7, <1>8, <1>9, <1>10
  <2> QED  BY <1>8, <2>1
<1> QED  BY <1>7, <1>9, <1>10
=============================================================================
