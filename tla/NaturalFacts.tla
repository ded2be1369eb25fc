---------------------------- MODULE NaturalFacts ----------------------------
(***************************************************************************)
(* Facts about numbers that several proofs rest on: induction, from the    *)
(* least number that is not in a set, and blocks of m numbers each.        *)
(***************************************************************************)
EXTENDS Integers, WellFoundedInduction, TLAPS

LEMMA LeastNatural ==
    ASSUME NEW T, T \subseteq Nat, T # {}
    PROVE  \E m \in T : \A k \in T : m <= k
<1> DEFINE R == OpToRel(<, Nat)
<1>1. PICK m \in T : \A k \in T : ~(<<k, m>> \in R)
  BY NatLessThanWellFounded, WFMin
<1>2. \A k \in T : k < m => <<k, m>> \in R
  BY DEF OpToRel
<1> HIDE DEF R
<1>3. \A k \in T : ~(k < m)
  BY <1>1, <1>2
<1> QED
  BY <1>3

LEMMA SetInduction ==
    ASSUME NEW S, 0 \in S, \A n \in Nat : n \in S => n + 1 \in S
    PROVE  Nat \subseteq S
<1> SUFFICES ASSUME Nat \ S # {} PROVE FALSE
  OBVIOUS
<1>1. PICK m \in Nat \ S : \A k \in Nat \ S : m <= k
  BY LeastNatural
<1>2. m # 0 /\ m - 1 \in Nat /\ m - 1 \in S
  BY <1>1
<1> QED
  BY <1>1, <1>2

-----------------------------------------------------------------------------
LEMMA Times == ASSUME NEW a \in Int, NEW b \in Int, NEW m \in Nat, a <= b
               PROVE a * m \in Int /\ b * m \in Int /\ a * m <= b * m
OBVIOUS
LEMMA Distribute == ASSUME NEW a \in Int, NEW b \in Int, NEW m \in Int
               PROVE (a + b) * m = a * m + b * m /\ (a - b) * m = a * m - b * m
OBVIOUS

LEMMA Reorder == ASSUME NEW a \in Int, NEW b \in Int, NEW m \in Int
               PROVE (a * b) * m = a * (b * m) /\ (a * b) * m \in Int
OBVIOUS

LEMMA Apart ==
    ASSUME NEW m \in Nat \ {0}, NEW a \in Int, NEW b \in Int, NEW i \in 0 .. (m - 1), NEW j \in 0 .. (m - 1),
           a * m + i = b * m + j
    PROVE  a = b /\ i = j
<1>1. ~(a < b)
  <2> SUFFICES ASSUME a < b PROVE FALSE
    OBVIOUS
  <2>1. (a + 1) * m <= b * m /\ (a + 1) * m = a * m + m
    BY Times, Distribute
  <2> QED
    BY <2>1
<1>2. ~(b < a)
  <2> SUFFICES ASSUME b < a PROVE FALSE
    OBVIOUS
  <2>1. (b + 1) * m <= a * m /\ (b + 1) * m = b * m + m
    BY Times, Distribute
  <2> QED
    BY <2>1
<1> QED
  BY <1>1, <1>2

LEMMA Divide ==
    ASSUME NEW m \in Nat \ {0}, NEW a \in Int, NEW i \in 0 .. (m - 1)
    PROVE  (a * m + i) \div m = a /\ (a * m + i) % m = i
<1> DEFINE x == a * m + i
<1>1. x \in Int /\ x \div m \in Int /\ x % m \in 0 .. (m - 1) /\ x = (x \div m) * m + (x % m)
  OBVIOUS
<1> QED
  BY <1>1, Apart
=============================================================================
