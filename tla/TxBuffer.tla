------------------------------ MODULE TxBuffer ------------------------------
(***************************************************************************)
(* tx_buffer.cc: one ring of TX_BUFFER_DEPTH slots per channel, with the   *)
(* head and tail indices the code calls G_TX_BUFFER_HEAD and _TAIL.  Only  *)
(* the thread of the command server calls it.                              *)
(*                                                                         *)
(* A channel argument is an unsigned char: an io_channel from a request    *)
(* minus 1, so 255 for io_channel 0 and 254 for the broadcast channel 255. *)
(***************************************************************************)
EXTENDS Integers

CONSTANTS
  TX_BUFFER_CHAN,    \* number of channels
  TX_BUFFER_DEPTH,   \* slots of each ring
  TxWord,            \* the 64-bit words clients transmit
  TxInputs           \* channel arguments of tx_buffer_in

Chan == 0 .. TX_BUFFER_CHAN - 1
Slot == 0 .. TX_BUFFER_DEPTH - 1

\* The guards of the code let TX_BUFFER_CHAN itself through, past the end of
\* the arrays; it is io_channel 41 of 40 and no client is told to use it.
ASSUME TxBufferAssumption ==
  /\ TX_BUFFER_CHAN \in Nat \ {0}
  /\ TX_BUFFER_DEPTH \in Nat /\ TX_BUFFER_DEPTH >= 2
  /\ TxInputs \subseteq 0 .. 255
  /\ TX_BUFFER_CHAN \notin TxInputs

VARIABLES
  G_TX_BUFFER_DATA, G_TX_BUFFER_HEAD, G_TX_BUFFER_TAIL,
  ret,      \* what the last call returned
  output    \* the memory tx_buffer_out writes: channel mask and words

bufferVars == <<G_TX_BUFFER_DATA, G_TX_BUFFER_HEAD, G_TX_BUFFER_TAIL, ret, output>>

NoWord == 0

BufferTypeOK ==
  /\ G_TX_BUFFER_DATA \in [Chan -> [Slot -> TxWord \cup {NoWord}]]
  /\ G_TX_BUFFER_HEAD \in [Chan -> Slot]
  /\ G_TX_BUFFER_TAIL \in [Chan -> Slot]
  /\ ret \in {0, 1}
  /\ output \in [mask : SUBSET Chan, data : [Chan -> TxWord \cup {NoWord}]]

EmptyData == [c \in Chan |-> [s \in Slot |-> NoWord]]
ZeroIndex == [c \in Chan |-> 0]
NoOutput == [mask |-> {}, data |-> [c \in Chan |-> NoWord]]

tx_buffer_init ==
  /\ G_TX_BUFFER_DATA = EmptyData
  /\ G_TX_BUFFER_HEAD = ZeroIndex
  /\ G_TX_BUFFER_TAIL = ZeroIndex
  /\ ret = 0
  /\ output = NoOutput

-----------------------------------------------------------------------------
NextSlotNoWrap(s) == s + 1    \* mutant: the index is not reduced
NextSlot(s) == (s + 1) % TX_BUFFER_DEPTH

tx_buffer_count(c) ==
  IF c > TX_BUFFER_CHAN THEN 0
  ELSE (TX_BUFFER_DEPTH + G_TX_BUFFER_HEAD[c] - G_TX_BUFFER_TAIL[c]) % TX_BUFFER_DEPTH

FullNever(c) == FALSE         \* mutant: a full ring is overwritten
Full(c) == NextSlot(G_TX_BUFFER_HEAD[c]) = G_TX_BUFFER_TAIL[c]

\* tx_buffer_in(c, w)
tx_buffer_in(c, w) ==
  /\ UNCHANGED <<G_TX_BUFFER_TAIL, output>>
  /\ IF c > TX_BUFFER_CHAN \/ Full(c)
     THEN ret' = 0 /\ UNCHANGED <<G_TX_BUFFER_DATA, G_TX_BUFFER_HEAD>>
     ELSE LET head == G_TX_BUFFER_HEAD[c]
          IN  /\ G_TX_BUFFER_DATA' = [G_TX_BUFFER_DATA EXCEPT ![c][head] = w]
              /\ G_TX_BUFFER_HEAD' = [G_TX_BUFFER_HEAD EXCEPT ![c] = NextSlot(head)]
              /\ ret' = 1

\* The word tx_buffer_out takes from a channel.
OldestAtHead(c) == G_TX_BUFFER_DATA[c][G_TX_BUFFER_HEAD[c]]   \* mutant: wrong index
Oldest(c) == G_TX_BUFFER_DATA[c][G_TX_BUFFER_TAIL[c]]

\* tx_buffer_out(output)
tx_buffer_out ==
  LET mask == {c \in Chan : tx_buffer_count(c) > 0}
  IN  /\ UNCHANGED <<G_TX_BUFFER_DATA, G_TX_BUFFER_HEAD>>
      /\ IF mask = {}
         THEN ret' = 0 /\ UNCHANGED <<G_TX_BUFFER_TAIL, output>>
         ELSE /\ output' = [mask |-> mask,
                            data |-> [c \in Chan |-> IF c \in mask THEN Oldest(c) ELSE NoWord]]
              /\ G_TX_BUFFER_TAIL' = [c \in Chan |-> IF c \in mask
                                                     THEN NextSlot(G_TX_BUFFER_TAIL[c])
                                                     ELSE G_TX_BUFFER_TAIL[c]]
              /\ ret' = 1

\* Calls in any order.
BufferNext ==
  \/ \E c \in TxInputs, w \in TxWord : tx_buffer_in(c, w)
  \/ tx_buffer_out

BufferSpec == tx_buffer_init /\ [][BufferNext]_bufferVars

-----------------------------------------------------------------------------
\* The words a channel holds, the oldest first.
Queue(c) ==
  [i \in 1 .. tx_buffer_count(c) |->
     G_TX_BUFFER_DATA[c][(G_TX_BUFFER_TAIL[c] + i - 1) % TX_BUFFER_DEPTH]]

Queues == INSTANCE TxQueues WITH
  Chan <- Chan, Capacity <- TX_BUFFER_DEPTH - 1, Word <- TxWord, Inputs <- TxInputs,
  queue <- [c \in Chan |-> Queue(c)], ret <- ret, output <- output

(* The buffer implements the bounded queues of module TxQueues, whatever    *)
(* the order of the calls and however often the indices wrap around         *)
(* (tx_buffer.cc:52, 61 and 92).                                            *)
ImplementsQueues == Queues!QueuesSpec
=============================================================================
