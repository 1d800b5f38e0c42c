---------------------------- MODULE DmaRingProofs ----------------------------
(***************************************************************************)
(* Facts about distances on the ring of descriptors, of any size.  They    *)
(* turn what the two servers do with pointers that wrap around into linear *)
(* arithmetic.                                                             *)
(***************************************************************************)
EXTENDS DmaRing, TLAPS

USE RingSizeAssumption

LEMMA RingClosed == \A d \in Ring : NextOf(d) \in Ring /\ PrevOf(d) \in Ring
BY DEF Ring, NextOf, PrevOf

LEMMA RingEnds == 0 \in Ring /\ RingSize - 1 \in Ring
BY DEF Ring

\* Distances on the ring.
LEMMA DistRange ==
  ASSUME NEW a \in Ring, NEW b \in Ring
  PROVE  /\ Dist(a, b) \in 0 .. RingSize - 1
         /\ Dist(a, b) = 0 <=> a = b
BY DEF Dist, Ring

LEMMA DistInjective ==
  ASSUME NEW a \in Ring, NEW b \in Ring, NEW d \in Ring, Dist(a, b) = Dist(a, d)
  PROVE  b = d
BY DEF Dist, Ring

LEMMA DistNext ==
  ASSUME NEW a \in Ring, NEW b \in Ring
  PROVE  Dist(a, NextOf(b)) = IF Dist(a, b) = RingSize - 1 THEN 0 ELSE Dist(a, b) + 1
BY DEF Dist, Ring, NextOf

\* Counting from a descriptor further on.
LEMMA DistShift ==
  ASSUME NEW a \in Ring, NEW b \in Ring, NEW d \in Ring
  PROVE  Dist(a, d) = IF Dist(a, b) + Dist(b, d) < RingSize
                      THEN Dist(a, b) + Dist(b, d)
                      ELSE Dist(a, b) + Dist(b, d) - RingSize
BY DEF Dist, Ring

\* There is a descriptor at every distance.
LEMMA DistOnto ==
  ASSUME NEW a \in Ring, NEW n \in 0 .. RingSize - 1
  PROVE  \E d \in Ring : Dist(a, d) = n
<1> DEFINE d == IF a + n < RingSize THEN a + n ELSE a + n - RingSize
<1>1. d \in Ring /\ Dist(a, d) = n
  BY DEF Ring, Dist
<1> QED
  BY <1>1

LEMMA NextOfPrev == \A d \in Ring : NextOf(PrevOf(d)) = d
BY DEF Ring, NextOf, PrevOf

LEMMA DistFromNext ==
  ASSUME NEW a \in Ring, NEW d \in Ring
  PROVE  Dist(NextOf(a), d) = IF d = a THEN RingSize - 1 ELSE Dist(a, d) - 1
BY DEF Dist, Ring, NextOf
=============================================================================
