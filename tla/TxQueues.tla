------------------------------ MODULE TxQueues ------------------------------
(***************************************************************************)
(* What the TX buffer promises (pacman_units.cc, test_tx_buffer): one FIFO *)
(* queue per channel that holds at most Capacity words and refuses more,   *)
(* and an output operation that takes the oldest word of every queue that  *)
(* has one.                                                                *)
(***************************************************************************)
EXTENDS Integers, Sequences

CONSTANTS Chan, Capacity, Word, Inputs

VARIABLES queue, ret, output

queueVars == <<queue, ret, output>>

NoWord == 0   \* what the output holds for a channel that has no word

QueuesInit ==
  /\ queue = [c \in Chan |-> <<>>]
  /\ ret = 0
  /\ output = [mask |-> {}, data |-> [c \in Chan |-> NoWord]]

\* A word for a channel whose queue has room; ret says that it was taken.
Put(c, w) ==
  /\ c \in Chan
  /\ Len(queue[c]) < Capacity
  /\ queue' = [queue EXCEPT ![c] = Append(@, w)]
  /\ ret' = 1
  /\ UNCHANGED output

\* A word for a full queue, or for no channel.
Refuse(c) ==
  /\ c \in Chan => Len(queue[c]) = Capacity
  /\ ret' = 0
  /\ UNCHANGED <<queue, output>>

\* The oldest word of every queue that is not empty.
TakeAll ==
  LET mask == {c \in Chan : queue[c] # <<>>}
  IN  /\ mask # {}
      /\ output' = [mask |-> mask,
                    data |-> [c \in Chan |-> IF c \in mask THEN queue[c][1] ELSE NoWord]]
      /\ queue' = [c \in Chan |-> IF c \in mask THEN Tail(queue[c]) ELSE <<>>]
      /\ ret' = 1

TakeNone ==
  /\ \A c \in Chan : queue[c] = <<>>
  /\ ret' = 0
  /\ UNCHANGED <<queue, output>>

QueuesNext ==
  \/ \E c \in Inputs, w \in Word : Put(c, w) \/ Refuse(c)
  \/ TakeAll
  \/ TakeNone

QueuesSpec == QueuesInit /\ [][QueuesNext]_queueVars
=============================================================================
