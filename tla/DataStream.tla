----------------------------- MODULE DataStream -----------------------------
(***************************************************************************)
(* What the data server promises (README: "a continuous data stream of     *)
(* data from the larpix chips and PACMAN fpga"): the packets of the FPGA,  *)
(* numbered 1, 2, ... in the order they arrive, are handed to the          *)
(* publisher in messages of at most MAX_MSG_LEN words, each packet exactly *)
(* once and in order, and at most Capacity packets are held in between.    *)
(***************************************************************************)
EXTENDS Integers, Sequences

CONSTANTS Capacity, MAX_MSG_LEN, MAX_PACKETS

VARIABLES received, published

streamVars == <<received, published>>

StreamInit ==
  /\ received = 0
  /\ published = <<>>

\* The FPGA delivers one more packet; there is room for it.
Accept ==
  /\ received < MAX_PACKETS
  /\ received - Len(published) < Capacity
  /\ received' = received + 1
  /\ UNCHANGED published

\* One message: the oldest n packets not published yet.
Publish ==
  /\ \E n \in 1 .. MAX_MSG_LEN :
       /\ Len(published) + n <= received
       /\ published' = published \o [i \in 1 .. n |-> Len(published) + i]
  /\ UNCHANGED received

StreamNext == Accept \/ Publish

StreamSpec == StreamInit /\ [][StreamNext]_streamVars
=============================================================================
