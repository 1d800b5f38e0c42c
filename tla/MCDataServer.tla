---------------------------- MODULE MCDataServer ----------------------------
(***************************************************************************)
(* Instances of the data server for TLC: a ring of a few descriptors and   *)
(* messages shorter than the ring, so that both breaks of the collecting   *)
(* loop, the full ring and several turns of it happen.                     *)
(***************************************************************************)
EXTENDS DataServerProps

\* The polling thread is never blocked for ever, and time passes.  Nothing is
\* assumed of the FPGA, the subscriber or the I/O thread.
Fairness == WF_vars(ServerStep) /\ WF_vars(Expire)

SlowLiveSpec == SlowSpec /\ Fairness
FaultLiveSpec == FaultSpec /\ Fairness
AnyLiveSpec == AnySpec /\ Fairness
=============================================================================
