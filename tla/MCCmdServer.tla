---------------------------- MODULE MCCmdServer ----------------------------
(***************************************************************************)
(* Instances of the command server for TLC.                                *)
(***************************************************************************)
EXTENDS CmdServer

\* What is run: the scripts for each tile, and single requests of pacman_util.
PowerJobs == {PowerUpJob(t) : t \in Tiles} \cup {PowerDownJob}
OddJob == SendJob(<<Word(TRIG, 1, 0)>>)
CmdJobs == PowerJobs \cup {SendJob(<<Word(PING, 0, 0), Word(DATA, 3, DAC_VALUE)>>), OddJob}
OddJobs == {OddJob, SendJob(<<Word(PING, 0, 0)>>)}
=============================================================================
