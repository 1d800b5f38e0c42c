------------------------------ MODULE DmaRing ------------------------------
(***************************************************************************)
(* The circular chain of DMA descriptors both servers work on, as          *)
(* init_circular_buffer (dma.cc) leaves it: buffer[0 .. RingSize-1], each  *)
(* descriptor linked to the next and to the previous one.  A descriptor is *)
(* named by its index; its address, its word and its hardware chain are    *)
(* built and checked in module CircularBuffer.                             *)
(***************************************************************************)
EXTENDS Integers

CONSTANT RingSize   \* number of descriptors (buffer_len)

\* One descriptor has no predecessor in the code: buffer[buffer_len - 2].
ASSUME RingSizeAssumption == RingSize \in Nat /\ RingSize >= 2

Ring == 0 .. RingSize - 1

NextOf(d) == IF d = RingSize - 1 THEN 0 ELSE d + 1
PrevOf(d) == IF d = 0 THEN RingSize - 1 ELSE d - 1

\* Number of descriptors from a to b, following the chain (0 when a = b).
Dist(a, b) == IF a <= b THEN b - a ELSE b - a + RingSize
=============================================================================
