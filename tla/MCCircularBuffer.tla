-------------------------- MODULE MCCircularBuffer --------------------------
(***************************************************************************)
(* Memory of 2 to 5 chunks with and without a rest, at two addresses, for  *)
(* words below, at and above half of the alignment.                        *)
(***************************************************************************)
EXTENDS CircularBuffer

MCCalls == [start : {0, 12288}, len : {256, 320, 383, 384, 500, 640}, word_len : {1, 16, 52, 63, 64}]
=============================================================================
