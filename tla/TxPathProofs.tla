---------------------------- MODULE TxPathProofs ----------------------------
(***************************************************************************)
(* Proofs about the transmit path, for a ring of any size that holds what  *)
(* the TX buffer can, any number of channels and words, and any number of  *)
(* errors and kills.                                                       *)
(***************************************************************************)
EXTENDS TxPath, TxBufferProofs, DmaRingProofs, FiniteSetTheorems

USE TxBufferAssumption, RingSizeAssumption

LEMMA Bounds == MAX_TX \in Nat /\ MAX_FAULTS \in Nat /\ MAX_KILLS \in Nat /\ TxWord = 1 .. MAX_TX
BY TxPathAssumption

-----------------------------------------------------------------------------
(* What the calls of the TX buffer do to its queues, from the proof that it *)
(* implements module TxQueues.                                              *)

LEMMA InQueues ==
  ASSUME BufferTypeOK, NEW c \in TxInputs, NEW w \in TxWord, tx_buffer_in(c, w)
  PROVE  /\ output' = output
         /\ \/ /\ ret' = 1 /\ c \in Chan
               /\ Queue(c)' = Append(Queue(c), w)
               /\ \A d \in Chan : d # c => Queue(d)' = Queue(d)
            \/ /\ ret' = 0
               /\ \A d \in Chan : Queue(d)' = Queue(d)
<1> DEFINE queue == [d \in Chan |-> Queue(d)]
<1>1. CASE Queues!Put(c, w)
  <2>1. c \in Chan /\ queue' = [queue EXCEPT ![c] = Append(@, w)] /\ ret' = 1 /\ output' = output
    BY <1>1 DEF Queues!Put
  <2>2. \A d \in Chan : queue'[d] = Queue(d)'
    OBVIOUS
  <2>3. \A d \in Chan : queue'[d] = IF d = c THEN Append(Queue(c), w) ELSE Queue(d)
    BY <2>1
  <2> QED
    BY <2>1, <2>2, <2>3
<1>2. CASE Queues!Refuse(c)
  <2>1. queue' = queue /\ ret' = 0 /\ output' = output
    BY <1>2 DEF Queues!Refuse
  <2>2. \A d \in Chan : queue'[d] = Queue(d)' /\ queue[d] = Queue(d)
    OBVIOUS
  <2> QED
    BY <2>1, <2>2
<1> QED
  BY <1>1, <1>2, InImplementsPut

LEMMA OutQueues ==
  ASSUME BufferTypeOK, tx_buffer_out
  PROVE  \/ /\ ret' = 1
            /\ output'.mask = {c \in Chan : Queue(c) # << >>}
            /\ output'.mask # {}
            /\ \A c \in output'.mask : /\ output'.data[c] = Queue(c)[1]
                                       /\ Queue(c)' = Tail(Queue(c))
            /\ \A c \in Chan : c \notin output'.mask => Queue(c)' = << >>
         \/ /\ ret' = 0
            /\ output' = output
            /\ \A c \in Chan : Queue(c) = << >> /\ Queue(c)' = << >>
<1> DEFINE queue == [d \in Chan |-> Queue(d)]
           mask == {c \in Chan : queue[c] # << >>}
<1>0. \A d \in Chan : queue'[d] = Queue(d)' /\ queue[d] = Queue(d)
  OBVIOUS
<1>1. CASE Queues!TakeAll
  <2>1. /\ mask # {} /\ ret' = 1
        /\ output' = [mask |-> mask,
                      data |-> [c \in Chan |-> IF c \in mask THEN queue[c][1] ELSE 0]]
        /\ queue' = [c \in Chan |-> IF c \in mask THEN Tail(queue[c]) ELSE << >>]
    BY <1>1 DEF Queues!TakeAll, Queues!NoWord
  <2>2. output'.mask = mask
    BY <2>1
  <2>3. \A c \in mask : output'.data[c] = Queue(c)[1] /\ queue'[c] = Tail(Queue(c))
    BY <2>1
  <2>4. \A c \in Chan \ mask : queue'[c] = << >>
    BY <2>1
  <2>5. mask = {c \in Chan : Queue(c) # << >>}
    OBVIOUS
  <2> HIDE DEF queue, mask
  <2> QED
    BY <1>0, <2>1, <2>2, <2>3, <2>4, <2>5
<1>2. CASE Queues!TakeNone
  <2>1. /\ \A c \in Chan : queue[c] = << >>
        /\ ret' = 0 /\ queue' = queue /\ output' = output
    BY <1>2 DEF Queues!TakeNone
  <2> QED
    BY <1>0, <2>1
<1> QED
  BY <1>1, <1>2, OutImplementsTake

LEMMA QueueKept ==
  ASSUME UNCHANGED bufferVars
  PROVE  \A c \in Chan : Queue(c)' = Queue(c)
BY QueueIsContent, QueueIsContentNext DEF bufferVars

\* A queue holds words, and at most one less than its ring has slots.
LEMMA QueueTypes ==
  ASSUME BufferTypeOK, NEW c \in Chan
  PROVE  /\ Queue(c) \in Seq(Stored)
         /\ Len(Queue(c)) \in 0 .. TX_BUFFER_DEPTH - 1
         /\ Len(Queue(c)) = 0 <=> Queue(c) = << >>
         /\ tx_buffer_count(c) = Len(Queue(c))
BY QueueLength

\* The memory of a server that starts.
LEMMA EmptyBuffer ==
  ASSUME G_TX_BUFFER_HEAD' = ZeroIndex, G_TX_BUFFER_TAIL' = ZeroIndex, NEW c \in Chan
  PROVE  Queue(c)' = << >>
<1>1. Count(0, 0) = 0
  BY CountRange DEF Slot
<1>2. \A data : Content(data, 0, 0) = << >>
  BY <1>1 DEF Content
<1> QED
  BY <1>2, QueueIsContentNext DEF ZeroIndex

\* The channel that is served next.
LEMMA LowestIn ==
  ASSUME NEW S \in SUBSET Chan, S # {}
  PROVE  Min(S) \in S
<1> DEFINE less == OpToRel(<, Nat)
<1>1. IsWellFoundedOn(less, Nat)
  BY NatLessThanWellFounded
<1>2. \A x, y \in Nat : y < x => <<y, x>> \in less
  BY DEF OpToRel
<1>3. S \subseteq Nat
  BY DEF Chan
<1> HIDE DEF less
<1>4. PICK x \in S : \A y \in S : ~ (<<y, x>> \in less)
  BY <1>1, <1>3, WFMin
<1>5. ASSUME NEW y \in S
      PROVE  x <= y
  <2>1. x \in Nat /\ y \in Nat
    BY <1>3
  <2>2. ~ (y < x)
    BY <1>2, <1>4, <2>1
  <2> QED
    BY <2>1, <2>2
<1> QED
  BY <1>5 DEF Min

-----------------------------------------------------------------------------
(* Type correctness. *)

Polling == pc \in {"poll", "fill", "transmit"}

\* The most words that n rounds of a poll take.
Rounds(n) == TX_BUFFER_CHAN * n

\* What is in the descriptors of a poll, in output and in the queues never
\* exceeds what the rings of the TX buffer hold: a round of pacman_poll_tx takes
\* a word from every queue that has one.
RoomInv ==
  /\ pc \in {"recv", "words", "restart_dma"} => tx_words = 0
  /\ pc \notin {"fill", "down"} => unwritten = {}
  /\ pc \in {"transmit", "spin", "recv"} => \A c \in Chan : Queue(c) = << >>
  /\ Polling => \A c \in Chan :
       tx_words + Cardinality(unwritten) + Rounds(Len(Queue(c)))
         <= Rounds(TX_BUFFER_DEPTH - 1)

\* None of them is the memory of a ring that was never written.
WordsInv ==
  /\ \A c \in unwritten : output.data[c] \in TxWord
  /\ \A c \in Chan : Queue(c) \in Seq(TxWord)

TypeInv == TypeOK /\ RoomInv /\ WordsInv

LEMMA WordIsStored == \A w \in TxWord : w \in Nat /\ w > 0 /\ w \in Stored
BY Bounds DEF Stored, NoWord

LEMMA Products ==
  ASSUME NEW n \in 0 .. TX_BUFFER_DEPTH - 1
  PROVE  /\ Rounds(n) \in Nat
         /\ Rounds(0) = 0
         /\ n > 0 => Rounds(n - 1) = Rounds(n) - TX_BUFFER_CHAN
         /\ Rounds(n) <= Rounds(TX_BUFFER_DEPTH - 1)
         /\ Rounds(TX_BUFFER_DEPTH - 1) \in 0 .. RingSize - 1
<1>1. Rounds(n) \in Nat /\ Rounds(0) = 0
  BY DEF Rounds
<1>2. Rounds(n - 1) = Rounds(n) - TX_BUFFER_CHAN
  BY DEF Rounds
<1>3. Rounds(n) <= Rounds(TX_BUFFER_DEPTH - 1)
  <2> DEFINE m == TX_BUFFER_DEPTH - 1 - n
  <2>1. m \in Nat /\ TX_BUFFER_DEPTH - 1 = n + m
    OBVIOUS
  <2> HIDE DEF m
  <2>2. TX_BUFFER_CHAN * (n + m) = TX_BUFFER_CHAN * n + TX_BUFFER_CHAN * m
    BY <2>1
  <2>3. TX_BUFFER_CHAN * m \in Nat /\ TX_BUFFER_CHAN * n \in Nat
    BY <2>1
  <2> QED
    BY <2>1, <2>2, <2>3 DEF Rounds
<1>4. Rounds(TX_BUFFER_DEPTH - 1) \in 0 .. RingSize - 1
  BY TxPathAssumption DEF Rounds
<1> QED
  BY <1>1, <1>2, <1>3, <1>4

LEMMA ChanFinite ==
  ASSUME NEW S \in SUBSET Chan
  PROVE  IsFiniteSet(S) /\ Cardinality(S) \in 0 .. TX_BUFFER_CHAN
<1>1. IsFiniteSet(Chan) /\ Cardinality(Chan) = TX_BUFFER_CHAN
  BY FS_Interval DEF Chan
<1>2. IsFiniteSet(S) /\ Cardinality(S) <= TX_BUFFER_CHAN
  BY <1>1, FS_Subset
<1> QED
  BY <1>2, FS_CardinalityType

LEMMA TypeInit == Init => TypeInv
<1> SUFFICES ASSUME Init PROVE TypeInv
  OBVIOUS
<1>1. BufferTypeOK
  BY BufferTypeInit DEF Init
<1>2. EngineTypeOK
  BY RingEnds DEF Init, EngineInit, EngineTypeOK
<1>3. \A c \in Chan : Queue(c) = << >>
  <2>1. Count(0, 0) = 0
    BY CountRange DEF Slot
  <2>2. \A data : Content(data, 0, 0) = << >>
    BY <2>1 DEF Content
  <2> QED
    BY <2>2, QueueIsContent DEF Init, tx_buffer_init, ZeroIndex
<1>4. << >> \in Seq(TxWord) /\ Len(<< >>) = 0
  BY EmptySeq
<1>5. TypeOK
  <2>1. word \in [Ring -> Words \cup {NoData}]
    BY DEF Init
  <2>2. wire \in [Chan -> Seq(TxWord)] /\ accepted \in [Chan -> Seq(TxWord)]
    BY <1>4 DEF Init
  <2>3. replied \in [TxInputs -> Seq(TxWord)]
    BY <1>4 DEF Init
  <2> QED
    BY <1>1, <1>2, <2>1, <2>2, <2>3, RingEnds, Bounds DEF Init, TypeOK
<1>6. RoomInv
  <2>1. Cardinality({}) = 0
    BY FS_EmptySet
  <2>2. Rounds(0) <= Rounds(TX_BUFFER_DEPTH - 1) /\ Rounds(0) = 0
    BY Products
  <2> QED
    BY <1>3, <1>4, <2>1, <2>2 DEF Init, RoomInv
<1>7. WordsInv
  BY <1>3, <1>4 DEF Init, WordsInv
<1> QED
  BY <1>5, <1>6, <1>7 DEF TypeInv

\* The actions that leave the TX buffer alone.
LEMMA BufferKept ==
  ASSUME [CrashNext]_vars, ~ Poll, \A c \in TxInputs : ~ TxRequest(c), ~ Launch
  PROVE  UNCHANGED bufferVars
BY DEF CrashNext, FaultNext, Next, ServerStep, ClientStep, vars, Fill, FillEnd, TransmitNothing,
       Transmit, Spin, TransmitEnd, Recv, Reply, Complete, TransferError, ChannelError, Kill,
       RestartDma

LEMMA PollKeepsRoom ==
  ASSUME TypeInv, Poll
  PROVE  RoomInv' /\ WordsInv'
<1> USE DEF TypeInv
<1>1. BufferTypeOK /\ pc = "poll" /\ tx_words \in Nat /\ tx_words' = tx_words /\ unwritten = {}
  BY DEF Poll, TypeOK, RoomInv
<1>2. Cardinality({}) = 0
  BY FS_EmptySet
<1>3. tx_buffer_out
  BY DEF Poll
<1>4. CASE ret' # 1
  <2>1. \A c \in Chan : Queue(c) = << >> /\ Queue(c)' = Queue(c)
    BY <1>1, <1>3, <1>4, OutQueues
  <2>2. pc' = "transmit" /\ unwritten' = unwritten
    BY <1>4 DEF Poll
  <2> QED
    BY <1>1, <2>1, <2>2 DEF RoomInv, WordsInv, Polling
<1>5. CASE ret' = 1
  <2> DEFINE mask == output'.mask
  <2>1. /\ mask = {c \in Chan : Queue(c) # << >>} /\ mask # {}
        /\ \A c \in mask : output'.data[c] = Queue(c)[1] /\ Queue(c)' = Tail(Queue(c))
        /\ \A c \in Chan : c \notin mask => Queue(c)' = << >>
    BY <1>1, <1>3, <1>5, OutQueues
  <2>2. pc' = "fill" /\ unwritten' = mask
    BY <1>5 DEF Poll
  <2> HIDE DEF mask
  <2>3. ASSUME NEW c \in mask
        PROVE  /\ Queue(c) \in Seq(TxWord) /\ Len(Queue(c)) \in 1 .. TX_BUFFER_DEPTH - 1
               /\ Queue(c)' \in Seq(TxWord) /\ Len(Queue(c)') = Len(Queue(c)) - 1
               /\ output'.data[c] \in TxWord
    <3>1. c \in Chan /\ Queue(c) \in Seq(TxWord) /\ Queue(c) # << >>
      BY <2>1 DEF WordsInv
    <3>2. Len(Queue(c)) \in 1 .. TX_BUFFER_DEPTH - 1
      BY <1>1, <3>1, QueueTypes
    <3>3. Tail(Queue(c)) \in Seq(TxWord) /\ Len(Tail(Queue(c))) = Len(Queue(c)) - 1
      BY <3>1, HeadTailProperties
    <3>4. Queue(c)[1] \in TxWord
      BY <3>1, <3>2, ElementOfSeq
    <3> QED
      BY <2>1, <3>1, <3>2, <3>3, <3>4
  <2>4. WordsInv'
    BY <2>1, <2>2, <2>3, EmptySeq DEF WordsInv
  <2>5. Cardinality(mask) \in 0 .. TX_BUFFER_CHAN
    BY <2>1, ChanFinite
  <2>6. ASSUME NEW c \in mask
        PROVE  tx_words + Cardinality(mask) + Rounds(Len(Queue(c)'))
                 <= Rounds(TX_BUFFER_DEPTH - 1)
    <3>1. tx_words + 0 + Rounds(Len(Queue(c))) <= Rounds(TX_BUFFER_DEPTH - 1)
      BY <1>1, <1>2, <2>1 DEF RoomInv, Polling
    <3>2. /\ Rounds(Len(Queue(c)')) = Rounds(Len(Queue(c))) - TX_BUFFER_CHAN
          /\ Rounds(Len(Queue(c))) \in Nat
          /\ Rounds(TX_BUFFER_DEPTH - 1) \in Nat
      <4> DEFINE n == Len(Queue(c))
      <4>1. n \in 0 .. TX_BUFFER_DEPTH - 1 /\ n > 0 /\ Len(Queue(c)') = n - 1
        BY <2>3
      <4> HIDE DEF n
      <4>2. /\ Rounds(n - 1) = Rounds(n) - TX_BUFFER_CHAN
            /\ Rounds(n) \in Nat /\ Rounds(TX_BUFFER_DEPTH - 1) \in Nat
        BY <4>1, Products
      <4> QED
        BY <4>1, <4>2 DEF n
    <3> QED
      BY <1>1, <2>5, <3>1, <3>2
  <2>7. ASSUME NEW c \in Chan, c \notin mask
        PROVE  tx_words + Cardinality(mask) + Rounds(Len(Queue(c)'))
                 <= Rounds(TX_BUFFER_DEPTH - 1)
    <3>1. Len(Queue(c)') = 0 /\ Rounds(0) = 0
      BY <2>1, <2>7, EmptySeq, Products
    <3>2. PICK e \in mask : TRUE
      BY <2>1
    <3>3. Len(Queue(e)') \in 0 .. TX_BUFFER_DEPTH - 1 /\ Rounds(Len(Queue(e)')) \in Nat
      BY <2>3, Products
    <3>4. /\ tx_words + Cardinality(mask) + Rounds(Len(Queue(e)'))
               <= Rounds(TX_BUFFER_DEPTH - 1)
          /\ Rounds(TX_BUFFER_DEPTH - 1) \in Nat
      BY <2>6, Products
    <3> QED
      BY <1>1, <2>5, <3>1, <3>3, <3>4
  <2>8. RoomInv'
    BY <1>1, <2>2, <2>6, <2>7 DEF RoomInv
  <2> QED
    BY <2>4, <2>8
<1> QED
  BY <1>4, <1>5

LEMMA FillKeepsRoom ==
  ASSUME TypeInv, Fill
  PROVE  RoomInv' /\ WordsInv'
<1> USE DEF TypeInv
<1>1. /\ pc = "fill" /\ pc' = "fill" /\ unwritten # {} /\ unwritten \subseteq Chan
      /\ tx_words \in Nat /\ tx_words' = tx_words + 1 /\ output' = output
      /\ unwritten' = unwritten \ {FirstUnwritten}
  BY DEF Fill, bufferVars, TypeOK
<1>2. FirstUnwritten \in unwritten
  BY <1>1, LowestIn DEF FirstUnwritten
<1>3. \A c \in Chan : Queue(c)' = Queue(c)
  BY QueueKept DEF Fill
<1>4. /\ Cardinality(unwritten) \in Nat
      /\ Cardinality(unwritten') = Cardinality(unwritten) - 1
  BY <1>1, <1>2, ChanFinite, FS_RemoveElement
<1>5. WordsInv'
  BY <1>1, <1>3 DEF WordsInv
<1>6. ASSUME NEW c \in Chan
      PROVE  tx_words' + Cardinality(unwritten') + Rounds(Len(Queue(c)'))
               <= Rounds(TX_BUFFER_DEPTH - 1)
  <2>1. tx_words + Cardinality(unwritten) + Rounds(Len(Queue(c))) <= Rounds(TX_BUFFER_DEPTH - 1)
    BY <1>1 DEF RoomInv, Polling
  <2>2. Queue(c)' = Queue(c)
    BY <1>3
  <2>3. Rounds(Len(Queue(c))) \in Nat /\ Rounds(TX_BUFFER_DEPTH - 1) \in Nat
    BY QueueTypes, Products DEF TypeOK
  <2> QED
    BY <1>1, <1>4, <2>1, <2>2, <2>3
<1> QED
  BY <1>1, <1>5, <1>6 DEF RoomInv

\* A poll that starts with a drained ring finds room for everything.
LEMMA RoomAtStart ==
  ASSUME BufferTypeOK, NEW c \in Chan
  PROVE  0 + Cardinality({}) + Rounds(Len(Queue(c))) <= Rounds(TX_BUFFER_DEPTH - 1)
<1>1. Cardinality({}) = 0
  BY FS_EmptySet
<1>2. /\ Rounds(Len(Queue(c))) \in Nat
      /\ Rounds(Len(Queue(c))) <= Rounds(TX_BUFFER_DEPTH - 1)
      /\ Rounds(TX_BUFFER_DEPTH - 1) \in Nat
  BY QueueTypes, Products
<1> QED
  BY <1>1, <1>2

LEMMA RoomStep == TypeInv /\ [CrashNext]_vars => RoomInv' /\ WordsInv'
<1> SUFFICES ASSUME TypeInv, [CrashNext]_vars PROVE RoomInv' /\ WordsInv'
  OBVIOUS
<1> USE DEF TypeInv
<1>1. CASE Poll
  BY <1>1, PollKeepsRoom
<1>2. CASE Fill
  BY <1>2, FillKeepsRoom
<1>3. ASSUME NEW c \in TxInputs, TxRequest(c)
      PROVE  RoomInv' /\ WordsInv'
  <2> DEFINE w == Len(replied[c]) + 1
  <2>1. /\ pc = "words" /\ pc' = pc /\ tx_words' = tx_words /\ unwritten' = unwritten
        /\ tx_buffer_in(c, w) /\ w \in TxWord
    BY <1>3 DEF TxRequest, serverVars
  <2> HIDE DEF w
  <2>2. RoomInv'
    BY <2>1 DEF RoomInv, Polling
  <2>3. ASSUME NEW d \in Chan
        PROVE  Queue(d)' \in Seq(TxWord)
    <3>1. Queue(d) \in Seq(TxWord) /\ Append(Queue(d), w) \in Seq(TxWord)
      BY <2>1, AppendProperties DEF WordsInv
    <3>2. Queue(d)' = Queue(d) \/ Queue(d)' = Append(Queue(d), w)
      BY <2>1, InQueues DEF TypeOK
    <3> QED
      BY <3>1, <3>2
  <2>4. unwritten = {}
    BY <2>1 DEF RoomInv
  <2> QED
    BY <2>1, <2>2, <2>3, <2>4 DEF WordsInv
<1>4. CASE Launch
  <2>1. \A c \in Chan : Queue(c)' = << >>
    BY <1>4, EmptyBuffer DEF Launch
  <2>2. pc' = "restart_dma" /\ tx_words' = 0 /\ unwritten' = {}
    BY <1>4 DEF Launch
  <2> QED
    BY <2>1, <2>2, EmptySeq DEF RoomInv, WordsInv, Polling
<1>5. ASSUME UNCHANGED bufferVars, ~ Fill
      PROVE  RoomInv' /\ WordsInv'
  <2>1. \A c \in Chan : Queue(c)' = Queue(c)
    BY <1>5, QueueKept
  <2>2. output' = output /\ BufferTypeOK
    BY <1>5 DEF bufferVars, TypeOK
  <2>3. CASE FillEnd \/ TransmitNothing \/ Transmit \/ TransmitEnd \/ Recv \/ Kill
    BY <2>1, <2>2, <2>3
    DEF FillEnd, TransmitNothing, Transmit, TransmitEnd, Recv, Kill, RoomInv, WordsInv, Polling
  <2>4. CASE Reply \/ RestartDma
    <3>1. pc' = "poll" /\ tx_words' = 0 /\ unwritten' = {}
      BY <2>4 DEF Reply, RestartDma, RoomInv
    <3>2. \A c \in Chan :
            0 + Cardinality({}) + Rounds(Len(Queue(c))) <= Rounds(TX_BUFFER_DEPTH - 1)
      BY <2>2, RoomAtStart
    <3> QED
      BY <2>1, <2>2, <3>1, <3>2 DEF RoomInv, WordsInv
  <2>5. CASE UNCHANGED serverVars
    BY <2>1, <2>2, <2>5 DEF serverVars, RoomInv, WordsInv, Polling
  <2>6. CASE Poll \/ Launch \/ \E c \in TxInputs : TxRequest(c)
    BY <1>1, <1>3, <1>4, <2>6
  <2> QED
    BY <1>5, <2>3, <2>4, <2>5, <2>6
    DEF CrashNext, FaultNext, Next, ServerStep, ClientStep, vars, Spin, Complete, TransferError,
        ChannelError
<1> QED
  BY <1>1, <1>2, <1>3, <1>4, <1>5, BufferKept

\* The descriptor transmit_data walks to.
LEMMA TailOfWords ==
  ASSUME TypeOK, tx_words > 0
  PROVE  TailOf \in Ring /\ Dist(prev, TailOf) = tx_words - 1
<1>1. prev \in Ring /\ tx_words - 1 \in 0 .. RingSize - 1
  BY DEF TypeOK
<1>2. \E d \in Ring : Dist(prev, d) = tx_words - 1
  BY <1>1, DistOnto
<1> QED
  BY <1>2 DEF TailOf

\* A word for a descriptor, and the descriptor for it.
LEMMA FillHasRoom ==
  ASSUME TypeInv, Fill
  PROVE  /\ FirstUnwritten \in unwritten /\ FirstUnwritten \in Chan
         /\ output.data[FirstUnwritten] \in TxWord
         /\ tx_words + 1 \in 0 .. RingSize - 1
<1> USE DEF TypeInv
<1>1. pc = "fill" /\ unwritten # {} /\ unwritten \subseteq Chan /\ tx_words \in Nat
  BY DEF Fill, TypeOK
<1>2. FirstUnwritten \in unwritten /\ FirstUnwritten \in Chan
  BY <1>1, LowestIn DEF FirstUnwritten
<1>3. Cardinality(unwritten) \in Nat /\ Cardinality(unwritten) > 0
  BY <1>1, ChanFinite, FS_EmptySet
<1>4. 0 \in Chan
  BY DEF Chan
<1>5. tx_words + Cardinality(unwritten) + Rounds(Len(Queue(0))) <= Rounds(TX_BUFFER_DEPTH - 1)
  BY <1>1, <1>4 DEF RoomInv, Polling
<1>6. /\ Rounds(Len(Queue(0))) \in Nat
      /\ Rounds(TX_BUFFER_DEPTH - 1) \in 0 .. RingSize - 1
  BY <1>4, QueueTypes, Products DEF TypeOK
<1>7. tx_words + 1 \in 0 .. RingSize - 1
  BY <1>1, <1>3, <1>5, <1>6
<1> QED
  BY <1>2, <1>7 DEF WordsInv

LEMMA WireTypes ==
  ASSUME TypeOK, Complete
  PROVE  wire' \in [Chan -> Seq(TxWord)]
<1>1. wire \in [Chan -> Seq(TxWord)] /\ word[cur] \in Words \cup {NoData}
  BY DEF TypeOK, EngineTypeOK
<1>2. CASE word[cur] = NoData
  BY <1>1, <1>2 DEF Complete
<1>3. CASE word[cur] # NoData
  <2> DEFINE c == word[cur].io_channel - 1
  <2>1. c \in Chan /\ word[cur].data \in TxWord
    BY <1>1, <1>3 DEF Words, Chan
  <2> HIDE DEF c
  <2>2. Append(wire[c], word[cur].data) \in Seq(TxWord)
    BY <1>1, <2>1, AppendProperties
  <2>3. wire' = [wire EXCEPT ![c] = Append(@, word[cur].data)]
    BY <1>3 DEF Complete, c
  <2> QED
    BY <1>1, <2>1, <2>2, <2>3
<1> QED
  BY <1>2, <1>3

LEMMA TypeStep == TypeInv /\ [CrashNext]_vars => TypeOK'
<1> SUFFICES ASSUME TypeInv, [CrashNext]_vars PROVE TypeOK'
  OBVIOUS
<1>0. TypeOK /\ EngineTypeOK /\ BufferTypeOK
  BY DEF TypeInv, TypeOK
<1>1. CASE Poll
  <2>1. BufferTypeOK'
    BY <1>0, <1>1, OutTypes DEF Poll
  <2>2. unwritten' \subseteq Chan
    BY <1>0, <1>1, <2>1 DEF Poll, TypeOK, BufferTypeOK
  <2> QED
    BY <1>0, <1>1, <2>1, <2>2 DEF Poll, TypeOK, EngineTypeOK, engineVars, historyVars
<1>2. CASE Fill
  <2> DEFINE c == FirstUnwritten
             new == [io_channel |-> c + 1, data |-> output.data[c]]
  <2>1. c \in Chan /\ output.data[c] \in TxWord /\ tx_words + 1 \in 0 .. RingSize - 1
    BY <1>2, FillHasRoom
  <2>2. new \in Words
    BY <2>1 DEF Words
  <2>3. word' = [word EXCEPT ![curr] = new]
    BY <1>2 DEF Fill
  <2> HIDE DEF new
  <2>4. word' \in [Ring -> Words \cup {NoData}]
    BY <1>0, <2>2, <2>3 DEF TypeOK
  <2>5. stat' \in [Ring -> SUBSET StatBits]
    BY <1>0, <1>2 DEF Fill, ClearStat, EngineTypeOK
  <2>6. EngineTypeOK'
    BY <1>0, <1>2, <2>5 DEF Fill, EngineTypeOK
  <2>7. BufferTypeOK'
    BY <1>0, <1>2 DEF Fill, bufferVars, BufferTypeOK
  <2>8. curr' \in Ring
    BY <1>0, <1>2, RingClosed DEF Fill, TypeOK
  <2>9. /\ unwritten' \subseteq Chan /\ tx_words' = tx_words + 1
        /\ UNCHANGED <<pc, prev, last, wire, accepted, replied, faults, kills>>
    BY <1>0, <1>2 DEF Fill, TypeOK, historyVars
  <2> QED
    BY <1>0, <2>1, <2>4, <2>6, <2>7, <2>8, <2>9 DEF TypeOK
<1>3. CASE FillEnd \/ TransmitNothing \/ TransmitEnd \/ Recv \/ Reply
  <2>1. /\ pc' \in {"poll", "recv", "words"} /\ prev' \in {prev, curr}
        /\ tx_words' \in {tx_words, 0}
        /\ UNCHANGED <<stat, cur, tail, mode, irq, bufferVars, word, curr, unwritten, last,
                       wire, accepted, replied, faults, kills>>
    BY <1>3 DEF FillEnd, TransmitNothing, TransmitEnd, Recv, Reply, engineVars, historyVars
  <2>2. EngineTypeOK'
    BY <1>0, <2>1 DEF EngineTypeOK
  <2>3. BufferTypeOK'
    BY <1>0, <2>1 DEF bufferVars, BufferTypeOK
  <2> QED
    BY <1>0, <2>1, <2>2, <2>3 DEF TypeOK
<1>4. CASE Transmit
  <2>1. TailOf \in Ring
    BY <1>0, <1>4, TailOfWords DEF Transmit
  <2>2. /\ last' = TailOf /\ tail' = TailOf
        /\ mode' = IF mode = "idle" THEN "busy" ELSE mode
        /\ pc' = "spin"
        /\ UNCHANGED <<stat, cur, irq, bufferVars, word, curr, prev, unwritten, tx_words,
                       wire, accepted, replied, faults, kills>>
    BY <1>4 DEF Transmit, WriteTail, historyVars
  <2>3. EngineTypeOK'
    BY <1>0, <2>1, <2>2 DEF EngineTypeOK
  <2>4. BufferTypeOK'
    BY <1>0, <2>2 DEF bufferVars, BufferTypeOK
  <2> QED
    BY <1>0, <2>1, <2>2, <2>3, <2>4 DEF TypeOK
<1>5. ASSUME NEW c \in TxInputs, TxRequest(c)
      PROVE  TypeOK'
  <2> DEFINE w == Len(replied[c]) + 1
  <2>1. /\ w \in TxWord /\ tx_buffer_in(c, w)
        /\ accepted' = IF ret' = 1 THEN [accepted EXCEPT ![c] = Append(@, w)] ELSE accepted
        /\ replied' = [replied EXCEPT ![c] = Append(@, w)]
        /\ UNCHANGED <<engineVars, word, serverVars, wire, faults, kills>>
    BY <1>5 DEF TxRequest
  <2> HIDE DEF w
  <2>2. BufferTypeOK'
    BY <1>0, <2>1, InTypes
  <2>3. ret' = 1 => c \in Chan
    BY <1>0, <2>1, InQueues
  <2>4. accepted' \in [Chan -> Seq(TxWord)]
    <3>1. ret' = 1 => Append(accepted[c], w) \in Seq(TxWord)
      BY <1>0, <2>1, <2>3, AppendProperties DEF TypeOK
    <3> QED
      BY <1>0, <2>1, <3>1 DEF TypeOK
  <2>5. replied' \in [TxInputs -> Seq(TxWord)]
    <3>1. Append(replied[c], w) \in Seq(TxWord)
      BY <1>0, <2>1, AppendProperties DEF TypeOK
    <3> QED
      BY <1>0, <2>1, <3>1 DEF TypeOK
  <2>6. EngineTypeOK'
    BY <1>0, <2>1 DEF engineVars, EngineTypeOK
  <2> QED
    BY <1>0, <2>1, <2>2, <2>4, <2>5, <2>6 DEF TypeOK, serverVars
<1>6. CASE Complete
  <2>1. EngineTypeOK'
    BY <1>0, <1>6, RingClosed DEF Complete, EngineComplete, EngineTypeOK, StatBits
  <2>2. BufferTypeOK'
    BY <1>0, <1>6 DEF Complete, bufferVars, BufferTypeOK
  <2>3. wire' \in [Chan -> Seq(TxWord)]
    BY <1>0, <1>6, WireTypes
  <2> QED
    BY <1>0, <1>6, <2>1, <2>2, <2>3 DEF Complete, TypeOK, serverVars
<1>7. CASE TransferError \/ ChannelError
  <2>1. EngineTypeOK'
    BY <1>0, <1>7
    DEF TransferError, ChannelError, EngineTransferError, EngineChannelError, EngineTypeOK, StatBits
  <2>2. BufferTypeOK'
    BY <1>0, <1>7 DEF TransferError, ChannelError, bufferVars, BufferTypeOK
  <2>3. faults' \in 0 .. MAX_FAULTS
    BY <1>0, <1>7, Bounds DEF TransferError, ChannelError, TypeOK
  <2> QED
    BY <1>0, <1>7, <2>1, <2>2, <2>3
    DEF TransferError, ChannelError, TypeOK, serverVars, historyVars
<1>8. CASE Kill
  <2>1. EngineTypeOK' /\ BufferTypeOK'
    BY <1>0, <1>8 DEF Kill, engineVars, bufferVars, EngineTypeOK, BufferTypeOK
  <2>2. kills' \in 0 .. MAX_KILLS
    BY <1>0, <1>8, Bounds DEF Kill, TypeOK
  <2> QED
    BY <1>0, <1>8, <2>1, <2>2 DEF Kill, TypeOK, historyVars
<1>9. CASE Launch
  <2>1. EngineTypeOK'
    BY <1>0, <1>9 DEF Launch, RingMemoryZeroed, EngineTypeOK
  <2>2. BufferTypeOK'
    <3>1. /\ EmptyData \in [Chan -> [Slot -> TxWord \cup {NoWord}]]
          /\ ZeroIndex \in [Chan -> Slot]
          /\ NoOutput \in [mask : SUBSET Chan, data : [Chan -> TxWord \cup {NoWord}]]
      BY DEF EmptyData, ZeroIndex, NoOutput, Slot
    <3> QED
      BY <1>9, <3>1 DEF Launch, BufferTypeOK
  <2>3. word' \in [Ring -> Words \cup {NoData}]
    BY <1>9 DEF Launch, RingMemoryZeroed
  <2> QED
    BY <1>0, <1>9, <2>1, <2>2, <2>3, RingEnds DEF Launch, TypeOK, historyVars
<1>10. CASE RestartDma
  <2>1. EngineTypeOK'
    BY <1>0, <1>10 DEF RestartDma, RestartAt, TypeOK, EngineTypeOK
  <2>2. BufferTypeOK'
    BY <1>0, <1>10 DEF RestartDma, bufferVars, BufferTypeOK
  <2> QED
    BY <1>0, <1>10, <2>1, <2>2 DEF RestartDma, TypeOK, historyVars
<1>11. CASE UNCHANGED vars
  BY <1>0, <1>11
  DEF vars, TypeOK, EngineTypeOK, BufferTypeOK, engineVars, bufferVars, serverVars, historyVars
<1> QED
  BY <1>1, <1>2, <1>3, <1>4, <1>5, <1>6, <1>7, <1>8, <1>9, <1>10, <1>11
  DEF CrashNext, FaultNext, Next, ServerStep, ClientStep, Spin

(* Every variable of the transmit path keeps its type, for any number of    *)
(* errors and kills; in particular a poll never writes more descriptors     *)
(* than the ring has, and never takes a word from a slot that was not       *)
(* written (pacman.cc:192-205).                                             *)
THEOREM TxTypes == CrashSpec => []TypeOK
<1>1. TypeInv /\ [CrashNext]_vars => TypeInv'
  BY RoomStep, TypeStep DEF TypeInv
<1>2. TypeInv => TypeOK
  BY DEF TypeInv
<1> QED
  BY <1>1, <1>2, TypeInit, PTL DEF CrashSpec

-----------------------------------------------------------------------------
(* The thread and the channel agree on the ring. *)

\* What the two pointers of the thread enclose.
PointersInv ==
  /\ pc # "down" => Dist(prev, curr) = tx_words
  /\ pc = "spin" => curr = NextOf(last)

\* Where the channel is, and what lies ahead of it.  The channel works while the
\* thread waits for it, and after a kill; otherwise it stands where the thread
\* will write, and every descriptor of the poll has been cleared.
ChannelInv ==
  /\ mode = "busy" =>
       /\ pc \in {"spin", "down", "restart_dma"}
       /\ \A d \in Ring : Dist(cur, d) <= Dist(cur, tail) => ~ dma_desc_cmplt(d)
  /\ pc = "spin" /\ mode # "halted" => tail = last
  /\ mode = "idle" /\ pc = "spin" => cur = curr
  /\ mode = "idle" /\ pc \notin {"spin", "down", "restart_dma"} => cur = prev
  /\ Polling => \A d \in Ring : Dist(prev, d) < tx_words => ~ dma_desc_cmplt(d)

TxRingInv == PointersInv /\ ChannelInv

\* What the proofs below need of the types.
LEMMA RingTypes ==
  ASSUME TypeInv
  PROVE  /\ cur \in Ring /\ tail \in Ring /\ curr \in Ring /\ prev \in Ring /\ last \in Ring
         /\ tx_words \in 0 .. RingSize - 1 /\ stat \in [Ring -> SUBSET StatBits]
         /\ mode \in {"halted", "idle", "busy"}
         /\ BufferTypeOK
BY DEF TypeInv, TypeOK, EngineTypeOK

LEMMA TxRingInit == Init => TxRingInv
<1> SUFFICES ASSUME Init PROVE TxRingInv
  OBVIOUS
<1>1. \A d \in Ring : Dist(0, d) >= 0
  BY RingEnds, DistRange
<1>2. Dist(0, 0) = 0
  BY RingEnds, DistRange
<1> QED
  BY <1>1, <1>2
  DEF Init, EngineInit, TxRingInv, PointersInv, ChannelInv, Polling, dma_desc_cmplt

LEMMA FillKeepsRing ==
  ASSUME TypeInv, TxRingInv, Fill
  PROVE  TxRingInv'
<1> USE DEF TxRingInv
<1>1. /\ pc = "fill" /\ pc' = pc /\ tx_words' = tx_words + 1 /\ curr' = NextOf(curr)
      /\ stat' = [stat EXCEPT ![curr] = {}]
      /\ UNCHANGED <<cur, tail, mode, prev, last>>
  BY DEF Fill, ClearStat
<1>2. tx_words + 1 \in 0 .. RingSize - 1
  BY FillHasRoom
<1>3. Dist(prev, curr) = tx_words
  BY <1>1 DEF PointersInv
<1>4. Dist(prev, NextOf(curr)) = tx_words + 1
  BY <1>2, <1>3, RingTypes, DistNext
<1>5. ASSUME NEW d \in Ring, Dist(prev, d) < tx_words + 1
      PROVE  "CMPLT" \notin stat'[d]
  <2>1. CASE d = curr
    BY <1>1, <2>1, RingTypes
  <2>2. CASE d # curr
    <3>1. Dist(prev, d) # tx_words
      BY <1>3, <2>2, RingTypes, DistInjective
    <3>2. Dist(prev, d) \in Nat
      BY RingTypes, DistRange
    <3>3. Dist(prev, d) < tx_words
      BY <1>5, <3>1, <3>2, RingTypes
    <3> QED
      BY <1>1, <2>2, <3>3, RingTypes DEF ChannelInv, Polling, dma_desc_cmplt
  <2> QED
    BY <2>1, <2>2
<1> QED
  BY <1>1, <1>4, <1>5 DEF PointersInv, ChannelInv, Polling, dma_desc_cmplt

LEMMA TransmitKeepsRing ==
  ASSUME TypeInv, TxRingInv, Transmit
  PROVE  TxRingInv'
<1> USE DEF TxRingInv
<1>1. /\ pc = "transmit" /\ pc' = "spin" /\ tx_words > 0
      /\ last' = TailOf /\ tail' = TailOf
      /\ mode' = IF mode = "idle" THEN "busy" ELSE mode
      /\ UNCHANGED <<stat, cur, curr, prev, tx_words>>
  BY DEF Transmit, WriteTail
<1>2. TailOf \in Ring /\ Dist(prev, TailOf) = tx_words - 1
  BY <1>1, TailOfWords DEF TypeInv
<1>3. curr = NextOf(TailOf)
  <2>1. NextOf(TailOf) \in Ring
    BY <1>2, RingClosed
  <2>2. Dist(prev, NextOf(TailOf)) = tx_words
    BY <1>1, <1>2, RingTypes, DistNext
  <2> QED
    BY <1>1, <2>1, <2>2, RingTypes, DistInjective DEF PointersInv
<1>4. mode # "busy"
  BY <1>1 DEF ChannelInv
<1>5. mode = "idle" => cur = prev
  BY <1>1 DEF ChannelInv
<1>6. \A d \in Ring : Dist(prev, d) \in Nat
  BY RingTypes, DistRange
<1>7. \A d \in Ring : Dist(prev, d) <= tx_words - 1 => ~ dma_desc_cmplt(d)
  BY <1>1, <1>6, RingTypes DEF ChannelInv, Polling
<1> QED
  BY <1>1, <1>2, <1>3, <1>4, <1>5, <1>7, RingTypes
  DEF PointersInv, ChannelInv, Polling, dma_desc_cmplt

\* The channel completes a descriptor: those after it are as they were.
LEMMA CompleteKeepsRing ==
  ASSUME TypeInv, TxRingInv, Complete
  PROVE  TxRingInv'
<1> USE DEF TxRingInv
<1>1. /\ mode = "busy" /\ stat' = [stat EXCEPT ![cur] = {"CMPLT"}] /\ cur' = NextOf(cur)
      /\ mode' = IF cur = tail THEN "idle" ELSE "busy"
      /\ UNCHANGED <<tail, pc, curr, prev, tx_words, last>>
  BY DEF Complete, EngineComplete, serverVars
<1>2. pc \in {"spin", "down", "restart_dma"}
  BY <1>1 DEF ChannelInv
<1>3. ASSUME cur # tail, NEW d \in Ring, Dist(NextOf(cur), d) <= Dist(NextOf(cur), tail)
      PROVE  "CMPLT" \notin stat'[d]
  <2>1. Dist(NextOf(cur), d) = IF d = cur THEN RingSize - 1 ELSE Dist(cur, d) - 1
    BY RingTypes, DistFromNext
  <2>2. Dist(NextOf(cur), tail) = Dist(cur, tail) - 1
    BY <1>3, RingTypes, DistFromNext
  <2>3. Dist(cur, tail) \in 0 .. RingSize - 1 /\ Dist(cur, d) \in 0 .. RingSize - 1
    BY RingTypes, DistRange
  <2>4. d # cur /\ Dist(cur, d) <= Dist(cur, tail)
    BY <1>3, <2>1, <2>2, <2>3
  <2> QED
    BY <1>1, <2>4, RingTypes DEF ChannelInv, dma_desc_cmplt
<1>4. pc = "spin" /\ cur = tail => NextOf(cur) = curr
  BY <1>1 DEF PointersInv, ChannelInv
<1> QED
  BY <1>1, <1>2, <1>3, <1>4 DEF PointersInv, ChannelInv, Polling, dma_desc_cmplt

LEMMA TxRingStep == TypeInv /\ TxRingInv /\ [CrashNext]_vars => TxRingInv'
<1> SUFFICES ASSUME TypeInv, TxRingInv, [CrashNext]_vars PROVE TxRingInv'
  OBVIOUS
<1> USE DEF TxRingInv
<1>0. /\ Dist(curr, curr) = 0 /\ Dist(0, 0) = 0
      /\ \A d \in Ring : ~ (Dist(prev, d) < 0) /\ ~ (Dist(curr, d) < 0)
  BY RingTypes, RingEnds, DistRange
<1>1. CASE Poll
  BY <1>1 DEF Poll, engineVars, PointersInv, ChannelInv, Polling, dma_desc_cmplt
<1>2. CASE Fill
  BY <1>2, FillKeepsRing
<1>3. CASE FillEnd
  BY <1>3 DEF FillEnd, engineVars, PointersInv, ChannelInv, Polling, dma_desc_cmplt
<1>4. CASE TransmitNothing
  <2>1. /\ pc = "transmit" /\ pc' = "recv" /\ prev' = curr /\ tx_words = 0
        /\ UNCHANGED <<stat, cur, tail, mode, curr, tx_words>>
    BY <1>4 DEF TransmitNothing, engineVars
  <2>2. prev = curr
    BY <2>1, RingTypes, DistRange DEF PointersInv
  <2> QED
    BY <1>0, <2>1, <2>2 DEF PointersInv, ChannelInv, Polling, dma_desc_cmplt
<1>5. CASE Transmit
  BY <1>5, TransmitKeepsRing
<1>6. CASE TransmitEnd
  <2>1. /\ pc = "spin" /\ pc' = "recv" /\ prev' = curr /\ tx_words' = 0
        /\ dma_desc_cmplt(last)
        /\ UNCHANGED <<stat, cur, tail, mode, curr>>
    BY <1>6 DEF TransmitEnd, TransmitDone, engineVars
  <2>2. Dist(cur, tail) \in Nat
    BY RingTypes, DistRange
  <2>3. mode # "busy"
    BY <2>1, <2>2, RingTypes DEF ChannelInv
  <2> QED
    BY <1>0, <2>1, <2>3, RingTypes DEF PointersInv, ChannelInv, Polling, dma_desc_cmplt
<1>7. CASE Recv
  BY <1>7 DEF Recv, engineVars, PointersInv, ChannelInv, Polling, dma_desc_cmplt
<1>8. CASE Reply
  <2>1. tx_words = 0
    BY <1>8 DEF Reply, TypeInv, RoomInv
  <2> QED
    BY <1>0, <1>8, <2>1 DEF Reply, engineVars, PointersInv, ChannelInv, Polling, dma_desc_cmplt
<1>9. CASE Complete
  BY <1>9, CompleteKeepsRing
<1>10. CASE TransferError \/ ChannelError
  <2>1. /\ mode = "busy" /\ mode' = "halted"
        /\ UNCHANGED <<pc, curr, prev, tx_words, last>>
    BY <1>10
    DEF TransferError, ChannelError, EngineTransferError, EngineChannelError, serverVars
  <2>2. ~ Polling
    BY <2>1 DEF ChannelInv, Polling
  <2> QED
    BY <2>1, <2>2 DEF PointersInv, ChannelInv, Polling
<1>11. CASE Kill
  BY <1>11 DEF Kill, engineVars, PointersInv, ChannelInv, Polling, dma_desc_cmplt
<1>12. CASE Launch
  <2>1. /\ pc' = "restart_dma" /\ curr' = 0 /\ prev' = 0 /\ tx_words' = 0
        /\ stat' = [d \in Ring |-> {}]
        /\ UNCHANGED <<cur, tail, mode>>
    BY <1>12 DEF Launch, RingMemoryZeroed
  <2> QED
    BY <1>0, <2>1 DEF PointersInv, ChannelInv, Polling, dma_desc_cmplt
<1>13. CASE RestartDma
  <2>1. /\ pc = "restart_dma" /\ pc' = "poll" /\ cur' = curr /\ mode' \in {"idle", "halted"}
        /\ tx_words' = tx_words /\ tx_words = 0
        /\ UNCHANGED <<stat, tail, curr, prev>>
    BY <1>13 DEF RestartDma, RestartAt, TypeInv, RoomInv
  <2>2. prev = curr
    BY <2>1, RingTypes, DistRange DEF PointersInv
  <2> QED
    BY <1>0, <2>1, <2>2 DEF PointersInv, ChannelInv, Polling, dma_desc_cmplt
<1>14. CASE UNCHANGED <<engineVars, serverVars>>
  BY <1>14 DEF engineVars, serverVars, PointersInv, ChannelInv, Polling, dma_desc_cmplt
<1> QED
  BY <1>1, <1>2, <1>3, <1>4, <1>5, <1>6, <1>7, <1>8, <1>9, <1>10, <1>11, <1>12, <1>13, <1>14
  DEF CrashNext, FaultNext, Next, ServerStep, ClientStep, Spin, TxRequest, vars

(* The channel never fetches a descriptor that was not cleared for it,      *)
(* whatever errors and kills come between, over any number of turns of a    *)
(* ring of any size (pacman.cc:201).                                        *)
THEOREM TxNeverStaleFetch == CrashSpec => []NoStaleFetch
<1>1. TypeInv /\ [CrashNext]_vars => TypeInv'
  BY RoomStep, TypeStep DEF TypeInv
<1>2. TypeInv /\ TxRingInv /\ [CrashNext]_vars => TxRingInv'
  BY TxRingStep
<1>3. TypeInv /\ TxRingInv => NoStaleFetch
  <2> SUFFICES ASSUME TypeInv, TxRingInv, mode = "busy" PROVE ~ dma_desc_cmplt(cur)
    BY DEF NoStaleFetch
  <2>1. Dist(cur, cur) = 0 /\ Dist(cur, tail) >= 0
    BY RingTypes, DistRange
  <2> QED
    BY <2>1, RingTypes DEF TxRingInv, ChannelInv
<1> QED
  BY <1>1, <1>2, <1>3, TypeInit, TxRingInit, PTL DEF CrashSpec

-----------------------------------------------------------------------------
(* The order of the words. *)

\* The descriptors that the channel has still to transmit, and those of them
\* with a word for channel c.
InFlight(d) ==
  \/ mode = "busy" /\ Dist(cur, d) <= Dist(cur, tail)
  \/ mode = "idle" /\ Polling /\ Dist(cur, d) < tx_words

Holds(d, c) == InFlight(d) /\ word[d].io_channel = c + 1

\* Increasing sequences, and what is below or above all of one.
Rising(s) == \A i, j \in 1 .. Len(s) : i < j => s[i] < s[j]
Below(s, w) == \A i \in 1 .. Len(s) : s[i] < w
Above(w, s) == \A i \in 1 .. Len(s) : w < s[i]

\* Every word of channel c on its way was accepted for it.
Among(s, w) == \E p \in 1 .. Len(s) : s[p] = w

KnownWords(c) ==
  /\ Rising(accepted[c])
  /\ c \in TxInputs => \A p \in 1 .. Len(accepted[c]) : accepted[c][p] <= Len(replied[c])
  /\ \A i \in 1 .. Len(wire[c]) : Among(accepted[c], wire[c][i])
  /\ \A d \in Ring : word[d].io_channel = c + 1 => Among(accepted[c], word[d].data)
  /\ c \in unwritten => Among(accepted[c], output.data[c])
  /\ \A i \in 1 .. Len(Queue(c)) : Among(accepted[c], Queue(c)[i])

KnownInv == \A c \in Chan : KnownWords(c)

\* The words of channel c increase along their way: on the wire, in the
\* descriptors ahead of the channel, in output, in the queue.
InOrder(c) ==
  /\ Rising(wire[c])
  /\ Rising(Queue(c))
  /\ \A i \in 1 .. Len(wire[c]) : Above(wire[c][i], Queue(c))
  /\ c \in unwritten =>
       Below(wire[c], output.data[c]) /\ Above(output.data[c], Queue(c))
  /\ \A d \in Ring : Holds(d, c) =>
       /\ Below(wire[c], word[d].data)
       /\ Above(word[d].data, Queue(c))
       /\ c \in unwritten => word[d].data < output.data[c]
       /\ \A e \in Ring :
            Holds(e, c) /\ Dist(cur, d) < Dist(cur, e) => word[d].data < word[e].data

OrderInv == \A c \in Chan : InOrder(c)

LEMMA SeqNumbers ==
  ASSUME NEW s \in Seq(TxWord)
  PROVE  /\ Len(s) \in Nat
         /\ \A i \in 1 .. Len(s) : s[i] \in TxWord
BY LenProperties, ElementOfSeq

LEMMA AppendOrder ==
  ASSUME NEW s \in Seq(TxWord), NEW w \in TxWord
  PROVE  /\ Rising(s) /\ Below(s, w) => Rising(Append(s, w))
         /\ \A v \in TxWord : Below(s, v) /\ w < v => Below(Append(s, w), v)
         /\ \A v \in TxWord : Above(v, s) /\ v < w => Above(v, Append(s, w))
<1>1. /\ Append(s, w) \in Seq(TxWord) /\ Len(Append(s, w)) = Len(s) + 1
      /\ \A i \in 1 .. Len(s) : Append(s, w)[i] = s[i]
      /\ Append(s, w)[Len(s) + 1] = w
      /\ Len(s) \in Nat
  BY AppendProperties, LenProperties
<1> DEFINE t == Append(s, w)
<1>2. \A i \in 1 .. Len(t) : t[i] = IF i = Len(s) + 1 THEN w ELSE s[i]
  BY <1>1
<1>3. Len(t) = Len(s) + 1
  BY <1>1
<1> HIDE DEF t
<1>4. Rising(s) /\ Below(s, w) => Rising(t)
  BY <1>1, <1>2, <1>3 DEF Rising, Below
<1>5. \A v \in TxWord : Below(s, v) /\ w < v => Below(t, v)
  BY <1>1, <1>2, <1>3 DEF Below
<1>6. \A v \in TxWord : Above(v, s) /\ v < w => Above(v, t)
  BY <1>1, <1>2, <1>3 DEF Above
<1> QED
  BY <1>4, <1>5, <1>6 DEF t

LEMMA TailOrder ==
  ASSUME NEW s \in Seq(TxWord), s # << >>
  PROVE  /\ s[1] \in TxWord
         /\ Rising(s) => Rising(Tail(s)) /\ Above(s[1], Tail(s))
         /\ \A v \in TxWord : Above(v, s) => v < s[1] /\ Above(v, Tail(s))
         /\ \A i \in 1 .. Len(Tail(s)) : \E j \in 1 .. Len(s) : Tail(s)[i] = s[j]
<1>1. /\ Tail(s) \in Seq(TxWord) /\ Len(Tail(s)) = Len(s) - 1
      /\ \A i \in 1 .. Len(s) - 1 : Tail(s)[i] = s[i + 1]
      /\ Len(s) \in Nat /\ Len(s) > 0
  BY HeadTailProperties, LenProperties, EmptySeq
<1>2. s[1] \in TxWord
  BY <1>1, ElementOfSeq
<1> DEFINE t == Tail(s)
<1>3. Len(t) = Len(s) - 1
  BY <1>1
<1>4. \A i \in 1 .. Len(t) : i + 1 \in 1 .. Len(s) /\ t[i] = s[i + 1]
  BY <1>1
<1> HIDE DEF t
<1>5. Rising(s) => Rising(t) /\ Above(s[1], t)
  <2> SUFFICES ASSUME Rising(s) PROVE Rising(t) /\ Above(s[1], t)
    OBVIOUS
  <2>1. \A i, j \in 1 .. Len(t) : i < j => t[i] < t[j]
    BY <1>1, <1>3, <1>4 DEF Rising
  <2>2. \A i \in 1 .. Len(t) : s[1] < t[i]
    BY <1>1, <1>3, <1>4 DEF Rising
  <2> QED
    BY <2>1, <2>2 DEF Rising, Above
<1>6. \A v \in TxWord : Above(v, s) => v < s[1] /\ Above(v, t)
  BY <1>1, <1>3, <1>4 DEF Above
<1> QED
  BY <1>2, <1>4, <1>5, <1>6 DEF t

\* The words this section compares are numbers.
LEMMA OrderTypes ==
  ASSUME TypeInv, NEW c \in Chan
  PROVE  /\ wire[c] \in Seq(TxWord) /\ Queue(c) \in Seq(TxWord) /\ accepted[c] \in Seq(TxWord)
         /\ c \in unwritten => output.data[c] \in TxWord
         /\ \A d \in Ring : word[d].io_channel = c + 1 => word[d].data \in TxWord
<1>1. /\ wire[c] \in Seq(TxWord) /\ Queue(c) \in Seq(TxWord) /\ accepted[c] \in Seq(TxWord)
      /\ c \in unwritten => output.data[c] \in TxWord
  BY DEF TypeInv, TypeOK, WordsInv
<1>2. ASSUME NEW d \in Ring, word[d].io_channel = c + 1
      PROVE  word[d].data \in TxWord
  <2>1. word[d] \in Words \cup {NoData}
    BY DEF TypeInv, TypeOK
  <2>2. word[d] # NoData
    BY <1>2 DEF NoData, Chan
  <2> QED
    BY <2>1, <2>2 DEF Words
<1> QED
  BY <1>1, <1>2

LEMMA InitOrder == Init => KnownInv /\ OrderInv
<1> SUFFICES ASSUME Init, NEW c \in Chan
             PROVE  KnownInv /\ OrderInv
  BY DEF Chan
<1>1. /\ \A e \in Chan : wire[e] = << >> /\ accepted[e] = << >> /\ Queue(e) = << >>
      /\ unwritten = {}
      /\ \A d \in Ring : word[d].io_channel = 0
  <2>1. Count(0, 0) = 0
    BY CountRange DEF Slot
  <2>2. \A data : Content(data, 0, 0) = << >>
    BY <2>1 DEF Content
  <2>3. \A e \in Chan : Queue(e) = << >>
    BY <2>2, QueueIsContent DEF Init, tx_buffer_init, ZeroIndex
  <2> QED
    BY <2>3 DEF Init, NoData
<1>2. 1 .. Len(<< >>) = {}
  BY EmptySeq
<1>3. \A e \in Chan, d \in Ring : word[d].io_channel # e + 1
  BY <1>1 DEF Chan
<1>4. KnownInv
  BY <1>1, <1>2, <1>3 DEF KnownInv, KnownWords, Rising
<1>5. OrderInv
  BY <1>1, <1>2, <1>3 DEF OrderInv, InOrder, Holds, Rising
<1> QED
  BY <1>4, <1>5

\* What the actions that are not about words leave alone.
LEMMA WordsKept ==
  ASSUME [CrashNext]_vars, ~ Poll, ~ Fill, \A c \in TxInputs : ~ TxRequest(c), ~ Complete, ~ Launch
  PROVE  /\ UNCHANGED <<wire, word, output, unwritten, accepted, replied>>
         /\ \A c \in Chan : Queue(c)' = Queue(c)
<1>1. UNCHANGED bufferVars
  BY BufferKept
<1>2. UNCHANGED <<wire, word, output, unwritten, accepted, replied>>
  BY DEF CrashNext, FaultNext, Next, ServerStep, ClientStep, vars, FillEnd, TransmitNothing,
         Transmit, Spin, TransmitEnd, Recv, Reply, TransferError, ChannelError, Kill, RestartDma,
         bufferVars, serverVars, historyVars
<1> QED
  BY <1>1, <1>2, QueueKept

\* A request: what the buffer takes is new, and above all that came before.
LEMMA RequestSteps ==
  ASSUME TypeInv, NEW c \in TxInputs, TxRequest(c)
  PROVE  \E w \in TxWord :
           /\ w = Len(replied[c]) + 1
           /\ UNCHANGED <<wire, word, output, unwritten, stat, cur, tail, mode, pc, tx_words>>
           /\ unwritten = {} /\ tx_words = 0 /\ pc = "words"
           /\ Len(replied'[c]) = w
           /\ \A e \in TxInputs : e # c => replied'[e] = replied[e]
           /\ \/ /\ accepted' = accepted
                 /\ \A e \in Chan : Queue(e)' = Queue(e)
              \/ /\ c \in Chan
                 /\ accepted'[c] = Append(accepted[c], w)
                 /\ Queue(c)' = Append(Queue(c), w)
                 /\ \A e \in Chan : e # c => accepted'[e] = accepted[e] /\ Queue(e)' = Queue(e)
<1> DEFINE w == Len(replied[c]) + 1
<1>1. /\ w \in TxWord /\ tx_buffer_in(c, w) /\ pc = "words"
      /\ accepted' = IF ret' = 1 THEN [accepted EXCEPT ![c] = Append(@, w)] ELSE accepted
      /\ replied' = [replied EXCEPT ![c] = Append(@, w)]
      /\ UNCHANGED <<wire, word, unwritten, stat, cur, tail, mode, pc, tx_words>>
  BY DEF TxRequest, serverVars, engineVars
<1>2. w = Len(replied[c]) + 1
  OBVIOUS
<1> HIDE DEF w
<1>3. unwritten = {} /\ tx_words = 0
  BY <1>1 DEF TypeInv, RoomInv
<1>4. /\ replied \in [TxInputs -> Seq(TxWord)] /\ accepted \in [Chan -> Seq(TxWord)]
      /\ BufferTypeOK
  BY DEF TypeInv, TypeOK
<1>5. Len(replied'[c]) = w /\ \A e \in TxInputs : e # c => replied'[e] = replied[e]
  <2>1. Len(Append(replied[c], w)) = Len(replied[c]) + 1
    BY <1>1, <1>4, AppendProperties
  <2>2. replied'[c] = Append(replied[c], w)
    BY <1>1, <1>4
  <2> QED
    BY <1>1, <1>2, <1>4, <2>1, <2>2
<1>6. output' = output
  BY <1>1, <1>4, InQueues
<1>7. CASE ret' = 1
  <2>1. /\ c \in Chan /\ Queue(c)' = Append(Queue(c), w)
        /\ \A e \in Chan : e # c => Queue(e)' = Queue(e)
    BY <1>1, <1>4, <1>7, InQueues
  <2>2. /\ accepted'[c] = Append(accepted[c], w)
        /\ \A e \in Chan : e # c => accepted'[e] = accepted[e]
    BY <1>1, <1>4, <1>7, <2>1
  <2> QED
    BY <1>1, <1>2, <1>3, <1>5, <1>6, <2>1, <2>2
<1>8. CASE ret' # 1
  <2>1. \A e \in Chan : Queue(e)' = Queue(e)
    BY <1>1, <1>4, <1>8, InQueues
  <2> QED
    BY <1>1, <1>2, <1>3, <1>5, <1>6, <1>8, <2>1
<1> QED
  BY <1>7, <1>8

\* A round begins, or finds the buffer empty.
LEMMA PollSteps ==
  ASSUME TypeInv, Poll
  PROVE  /\ unwritten = {} /\ Polling /\ Polling'
         /\ UNCHANGED <<wire, word, accepted, replied, stat, cur, tail, mode, tx_words>>
         /\ \A c \in Chan :
              \/ /\ c \in unwritten' /\ Queue(c) # << >>
                 /\ output'.data[c] = Queue(c)[1]
                 /\ Queue(c)' = Tail(Queue(c))
              \/ c \notin unwritten' /\ Queue(c) = << >> /\ Queue(c)' = << >>
<1>1. /\ pc = "poll" /\ tx_buffer_out
      /\ UNCHANGED <<wire, word, accepted, replied, stat, cur, tail, mode, tx_words>>
      /\ IF ret' = 1
         THEN pc' = "fill" /\ unwritten' = output'.mask
         ELSE pc' = "transmit" /\ UNCHANGED unwritten
  BY DEF Poll, engineVars, historyVars
<1>2. unwritten = {} /\ BufferTypeOK
  BY <1>1 DEF TypeInv, TypeOK, RoomInv
<1> QED
  BY <1>1, <1>2, OutQueues DEF Polling

\* A word goes from output into the next descriptor.
LEMMA FillSteps ==
  ASSUME TypeInv, TxRingInv, Fill
  PROVE  \E c \in unwritten :
           /\ c \in Chan /\ output.data[c] \in TxWord
           /\ unwritten' = unwritten \ {c}
           /\ word'[curr].io_channel = c + 1 /\ word'[curr].data = output.data[c]
           /\ \A d \in Ring : d # curr => word'[d] = word[d]
           /\ UNCHANGED <<wire, output, accepted, replied, cur, tail, mode, pc>>
           /\ \A e \in Chan : Queue(e)' = Queue(e)
           /\ tx_words' = tx_words + 1 /\ Dist(prev, curr) = tx_words
           /\ Polling /\ (mode = "idle" => cur = prev) /\ mode # "busy"
<1> DEFINE c == FirstUnwritten
<1>1. c \in unwritten /\ c \in Chan /\ output.data[c] \in TxWord
  BY FillHasRoom
<1>2. /\ pc = "fill" /\ unwritten' = unwritten \ {c}
      /\ word' = [word EXCEPT ![curr] = [io_channel |-> c + 1, data |-> output.data[c]]]
      /\ tx_words' = tx_words + 1
      /\ UNCHANGED <<wire, bufferVars, accepted, replied, cur, tail, mode, pc>>
  BY DEF Fill, historyVars
<1> HIDE DEF c
<1>3. curr \in Ring /\ word \in [Ring -> Words \cup {NoData}]
  BY DEF TypeInv, TypeOK
<1>4. /\ word'[curr] = [io_channel |-> c + 1, data |-> output.data[c]]
      /\ \A d \in Ring : d # curr => word'[d] = word[d]
  BY <1>2, <1>3
<1>5. \A e \in Chan : Queue(e)' = Queue(e)
  BY <1>2, QueueKept
<1>6. /\ Dist(prev, curr) = tx_words /\ Polling
      /\ mode = "idle" => cur = prev
      /\ mode # "busy"
  BY <1>2 DEF TxRingInv, PointersInv, ChannelInv, Polling
<1> QED
  BY <1>1, <1>2, <1>4, <1>5, <1>6 DEF bufferVars

\* The channel transmits the word of a descriptor.
LEMMA CompleteSteps ==
  ASSUME TypeInv, TxRingInv, Complete
  PROVE  /\ InFlight(cur) /\ mode = "busy" /\ mode' # "halted"
         /\ UNCHANGED <<word, output, unwritten, accepted, replied>>
         /\ \A e \in Chan : Queue(e)' = Queue(e)
         /\ \A d \in Ring : InFlight(d)' <=> InFlight(d) /\ d # cur
         /\ \A d, e \in Ring :
              d # cur /\ e # cur /\ Dist(cur', d) < Dist(cur', e) => Dist(cur, d) < Dist(cur, e)
         /\ \A e \in Chan : word[cur].io_channel # e + 1 => wire'[e] = wire[e]
         /\ \A e \in Chan : word[cur].io_channel = e + 1 =>
              wire'[e] = Append(wire[e], word[cur].data) /\ word[cur].data \in TxWord
<1>1. /\ mode = "busy" /\ cur' = NextOf(cur) /\ tail' = tail /\ pc' = pc
      /\ mode' = IF cur = tail THEN "idle" ELSE "busy"
      /\ UNCHANGED <<bufferVars, word, output, unwritten, accepted, replied>>
      /\ wire' = IF word[cur] = NoData THEN wire
                 ELSE [wire EXCEPT ![word[cur].io_channel - 1] = Append(@, word[cur].data)]
  BY DEF Complete, EngineComplete, serverVars, bufferVars
<1>2. ~ Polling
  BY <1>1 DEF TxRingInv, ChannelInv, Polling
<1>3. \A d \in Ring : /\ Dist(cur, d) \in 0 .. RingSize - 1
                      /\ Dist(cur, d) = 0 <=> d = cur
                      /\ Dist(NextOf(cur), d) = IF d = cur THEN RingSize - 1 ELSE Dist(cur, d) - 1
  BY RingTypes, DistRange, DistFromNext
<1>4. InFlight(cur)
  BY <1>1, <1>3, RingTypes DEF InFlight
<1>5. ASSUME NEW d \in Ring
      PROVE  InFlight(d)' <=> InFlight(d) /\ d # cur
  <2>1. InFlight(d) <=> Dist(cur, d) <= Dist(cur, tail)
    BY <1>1 DEF InFlight
  <2>2. InFlight(d)' <=> cur # tail /\ Dist(NextOf(cur), d) <= Dist(NextOf(cur), tail)
    BY <1>1, <1>2 DEF InFlight, Polling
  <2>3. tail \in Ring
    BY RingTypes
  <2> QED
    BY <1>3, <2>1, <2>2, <2>3
<1>6. \A d, e \in Ring :
        d # cur /\ e # cur /\ Dist(cur', d) < Dist(cur', e) => Dist(cur, d) < Dist(cur, e)
  BY <1>1, <1>3
<1>7. wire \in [Chan -> Seq(TxWord)] /\ word[cur] \in Words \cup {NoData}
  BY RingTypes DEF TypeInv, TypeOK
<1>8. ASSUME NEW e \in Chan
      PROVE  /\ word[cur].io_channel # e + 1 => wire'[e] = wire[e]
             /\ word[cur].io_channel = e + 1 =>
                  wire'[e] = Append(wire[e], word[cur].data) /\ word[cur].data \in TxWord
  <2>1. CASE word[cur] = NoData
    <3>1. word[cur].io_channel # e + 1
      BY <2>1 DEF NoData, Chan
    <3> QED
      BY <1>1, <2>1, <3>1
  <2>2. CASE word[cur] # NoData
    <3> DEFINE c == word[cur].io_channel - 1
    <3>1. /\ c \in Chan /\ word[cur].data \in TxWord
          /\ word[cur].io_channel = e + 1 <=> e = c
      <4>1. PICK n \in Chan : word[cur].io_channel = n + 1
        BY <1>7, <2>2 DEF Words
      <4>2. word[cur].data \in TxWord
        BY <1>7, <2>2 DEF Words
      <4> QED
        BY <4>1, <4>2 DEF Chan
    <3>2. wire' = [wire EXCEPT ![c] = Append(@, word[cur].data)]
      BY <1>1, <2>2
    <3> HIDE DEF c
    <3> QED
      BY <1>7, <3>1, <3>2
  <2> QED
    BY <2>1, <2>2
<1>9. \A e \in Chan : Queue(e)' = Queue(e)
  BY <1>1, QueueKept
<1> QED
  BY <1>1, <1>4, <1>5, <1>6, <1>8, <1>9

\* The other actions put no descriptor in front of the channel, and take none away
\* unless it halts or starts again.
LEMMA FlightKept ==
  ASSUME TypeInv, TxRingInv, [CrashNext]_vars, ~ Fill, ~ Complete, ~ Launch
  PROVE  /\ \A d \in Ring : InFlight(d)' => InFlight(d) /\ cur' = cur
         /\ ~ Kill /\ ~ RestartDma /\ mode' # "halted" =>
              \A d \in Ring : InFlight(d) => InFlight(d)'
<1> USE DEF TxRingInv
<1>0. \A a, d \in Ring : Dist(a, d) \in Nat
  BY DistRange
<1>1. CASE Transmit
  <2>1. /\ pc = "transmit" /\ pc' = "spin" /\ tx_words > 0 /\ tail' = TailOf
        /\ mode' = IF mode = "idle" THEN "busy" ELSE mode
        /\ cur' = cur
    BY <1>1 DEF Transmit, WriteTail
  <2>2. /\ TailOf \in Ring /\ Dist(prev, TailOf) = tx_words - 1
        /\ mode = "idle" => cur = prev
        /\ mode # "busy"
    BY <2>1, TailOfWords DEF TypeInv, ChannelInv
  <2>3. \A d \in Ring : Dist(prev, d) <= tx_words - 1 <=> Dist(prev, d) < tx_words
    BY <1>0, RingTypes
  <2>4. ASSUME NEW d \in Ring
        PROVE  InFlight(d)' <=> InFlight(d)
    <3>1. InFlight(d) <=> mode = "idle" /\ Dist(cur, d) < tx_words
      BY <2>1, <2>2 DEF InFlight, Polling
    <3>2. InFlight(d)' <=> mode = "idle" /\ Dist(cur, d) <= Dist(cur, TailOf)
      BY <2>1, <2>2 DEF InFlight, Polling
    <3> QED
      BY <2>2, <2>3, <3>1, <3>2
  <2> QED
    BY <2>1, <2>4
<1>2. CASE TransmitEnd
  <2>1. pc = "spin" /\ pc' = "recv" /\ dma_desc_cmplt(last) /\ UNCHANGED <<mode, cur, tail>>
    BY <1>2 DEF TransmitEnd, TransmitDone, engineVars
  <2>2. mode # "busy"
    BY <1>0, <2>1, RingTypes DEF ChannelInv
  <2> QED
    BY <2>1, <2>2 DEF InFlight, Polling
<1>3. CASE TransmitNothing \/ Reply
  <2>1. tx_words = 0 /\ UNCHANGED <<mode, cur, tail, tx_words>>
    BY <1>3 DEF TransmitNothing, Reply, engineVars, TypeInv, RoomInv
  <2>2. pc # "spin" /\ pc \notin {"down", "restart_dma"}
    BY <1>3 DEF TransmitNothing, Reply
  <2>3. mode # "busy"
    BY <2>2 DEF ChannelInv
  <2> QED
    BY <1>0, <2>1, <2>3, RingTypes DEF InFlight
<1>4. CASE Poll \/ FillEnd
  BY <1>4 DEF Poll, FillEnd, engineVars, InFlight, Polling
<1>5. CASE Recv
  BY <1>5 DEF Recv, engineVars, InFlight, Polling
<1>6. CASE TransferError \/ ChannelError
  BY <1>6
  DEF TransferError, ChannelError, EngineTransferError, EngineChannelError, InFlight
<1>7. CASE Kill
  BY <1>7 DEF Kill, engineVars, InFlight, Polling
<1>8. CASE RestartDma
  <2>1. mode' \in {"idle", "halted"} /\ tx_words' = 0 /\ cur' = curr
    BY <1>8 DEF RestartDma, RestartAt, TypeInv, RoomInv
  <2>2. \A d \in Ring : ~ (Dist(curr, d) < 0)
    BY <1>0, RingTypes
  <2>3. \A d \in Ring : ~ InFlight(d)'
    BY <2>1, <2>2 DEF InFlight
  <2> QED
    BY <1>8, <2>3
<1>9. CASE UNCHANGED <<engineVars, serverVars>>
  BY <1>9 DEF engineVars, serverVars, InFlight, Polling
<1> QED
  BY <1>1, <1>2, <1>3, <1>4, <1>5, <1>6, <1>7, <1>8, <1>9
  DEF CrashNext, FaultNext, Next, ServerStep, ClientStep, Spin, TxRequest, vars

\* What a server that starts finds of its words: none.
LEMMA LaunchSteps ==
  ASSUME TypeInv, Launch
  PROVE  /\ UNCHANGED <<wire, accepted, replied>> /\ unwritten' = {}
         /\ \A d \in Ring : \A c \in Chan : word'[d].io_channel # c + 1
         /\ \A c \in Chan : Queue(c)' = << >>
<1>1. UNCHANGED <<wire, accepted, replied>> /\ unwritten' = {}
  BY DEF Launch, historyVars
<1>2. \A d \in Ring : word'[d].io_channel = 0
  BY DEF Launch, RingMemoryZeroed, NoData
<1>3. \A c \in Chan : Queue(c)' = << >>
  BY EmptyBuffer DEF Launch
<1> QED
  BY <1>1, <1>2, <1>3 DEF Chan

LEMMA KnownStep == TypeInv /\ TxRingInv /\ KnownInv /\ [CrashNext]_vars => KnownInv'
<1> SUFFICES ASSUME TypeInv, TxRingInv, KnownInv, [CrashNext]_vars, NEW c \in Chan
             PROVE  KnownWords(c)'
  BY DEF KnownInv
<1>0. KnownWords(c)
  BY DEF KnownInv
<1> USE DEF KnownWords
<1>1. /\ wire[c] \in Seq(TxWord) /\ Queue(c) \in Seq(TxWord) /\ accepted[c] \in Seq(TxWord)
  BY OrderTypes
<1>2. CASE Poll
  <2>1. accepted' = accepted /\ replied' = replied /\ wire' = wire /\ word' = word
    BY <1>2, PollSteps
  <2>3. CASE c \in unwritten'
    <3>1. /\ Queue(c) # << >> /\ output'.data[c] = Queue(c)[1] /\ Queue(c)' = Tail(Queue(c))
      BY <1>2, <2>3, PollSteps
    <3>2. 1 \in 1 .. Len(Queue(c))
      BY <1>1, <3>1, EmptySeq
    <3>3. \A i \in 1 .. Len(Queue(c)') : Among(accepted[c], Queue(c)'[i])
      BY <1>0, <1>1, <3>1, TailOrder
    <3> QED
      BY <1>0, <2>1, <3>1, <3>2, <3>3
  <2>4. CASE c \notin unwritten'
    <3>1. Queue(c)' = Queue(c)
      BY <1>2, <2>4, PollSteps
    <3> QED
      BY <1>0, <2>1, <2>4, <3>1
  <2> QED
    BY <2>3, <2>4
<1>3. CASE Fill
  <2>1. PICK e \in unwritten :
          /\ e \in Chan /\ unwritten' = unwritten \ {e}
          /\ word'[curr].io_channel = e + 1 /\ word'[curr].data = output.data[e]
          /\ \A d \in Ring : d # curr => word'[d] = word[d]
          /\ UNCHANGED <<wire, output, accepted, replied>>
          /\ \A n \in Chan : Queue(n)' = Queue(n)
    BY <1>3, FillSteps
  <2>3. \A d \in Ring : word'[d].io_channel = c + 1 => Among(accepted[c], word'[d].data)
    <3>1. e + 1 = c + 1 => e = c
      BY <2>1 DEF Chan
    <3> QED
      BY <1>0, <2>1, <3>1
  <2> QED
    BY <1>0, <2>1, <2>3
<1>4. ASSUME NEW r \in TxInputs, TxRequest(r)
      PROVE  KnownWords(c)'
  <2>1. PICK w \in TxWord :
           /\ w = Len(replied[r]) + 1
           /\ UNCHANGED <<wire, word, output, unwritten>>
           /\ Len(replied'[r]) = w
           /\ \A e \in TxInputs : e # r => replied'[e] = replied[e]
           /\ \/ /\ accepted' = accepted
                 /\ \A e \in Chan : Queue(e)' = Queue(e)
              \/ /\ r \in Chan
                 /\ accepted'[r] = Append(accepted[r], w)
                 /\ Queue(r)' = Append(Queue(r), w)
                 /\ \A e \in Chan : e # r => accepted'[e] = accepted[e] /\ Queue(e)' = Queue(e)
    BY <1>4, RequestSteps
  <2>2. c \in TxInputs => Len(replied[c]) \in Nat
    BY LenProperties DEF TypeInv, TypeOK
  <2>3. \A p \in 1 .. Len(accepted[c]) : accepted[c][p] \in Nat
    BY <1>1, SeqNumbers, WordIsStored
  <2>4. CASE accepted'[c] = accepted[c] /\ Queue(c)' = Queue(c)
    <3>1. c \in TxInputs => Len(replied[c]) <= Len(replied'[c]) /\ Len(replied'[c]) \in Nat
      BY <2>1, <2>2
    <3>3. c \in TxInputs => \A p \in 1 .. Len(accepted'[c]) : accepted'[c][p] <= Len(replied'[c])
      BY <1>0, <2>2, <2>3, <2>4, <3>1
    <3> QED
      BY <1>0, <2>1, <2>4, <3>3
  <2>5. CASE c = r /\ accepted'[c] = Append(accepted[c], w) /\ Queue(c)' = Append(Queue(c), w)
    <3>1. Below(accepted[c], w)
      BY <1>0, <2>1, <2>2, <2>3, <2>5 DEF Below
    <3>2. Rising(accepted'[c])
      BY <1>0, <1>1, <2>5, <3>1, AppendOrder
    <3>3. /\ Len(accepted'[c]) = Len(accepted[c]) + 1 /\ Len(accepted[c]) \in Nat
          /\ \A p \in 1 .. Len(accepted[c]) : accepted'[c][p] = accepted[c][p]
          /\ accepted'[c][Len(accepted[c]) + 1] = w
      BY <1>1, <2>5, AppendProperties, LenProperties
    <3>4. \A v : Among(accepted[c], v) \/ v = w => Among(accepted'[c], v)
      BY <3>3 DEF Among
    <3>5. c \in TxInputs => \A p \in 1 .. Len(accepted'[c]) : accepted'[c][p] <= Len(replied'[c])
      <4> SUFFICES ASSUME c \in TxInputs, NEW p \in 1 .. Len(accepted'[c])
                   PROVE  accepted'[c][p] <= Len(replied'[c])
        OBVIOUS
      <4>1. CASE p = Len(accepted[c]) + 1
        BY <2>1, <2>5, <3>3, <4>1
      <4>2. CASE p \in 1 .. Len(accepted[c])
        BY <1>0, <2>1, <2>2, <2>3, <2>5, <3>3, <4>2
      <4> QED
        BY <3>3, <4>1, <4>2
    <3>6. \A i \in 1 .. Len(Queue(c)') : Among(accepted'[c], Queue(c)'[i])
      <4>1. /\ Len(Queue(c)') = Len(Queue(c)) + 1 /\ Len(Queue(c)) \in Nat
            /\ \A i \in 1 .. Len(Queue(c)) : Queue(c)'[i] = Queue(c)[i]
            /\ Queue(c)'[Len(Queue(c)) + 1] = w
        BY <1>1, <2>5, AppendProperties, LenProperties
      <4>2. \A i \in 1 .. Len(Queue(c)') : i \in 1 .. Len(Queue(c)) \/ i = Len(Queue(c)) + 1
        BY <4>1
      <4> QED
        BY <1>0, <3>4, <4>1, <4>2
    <3> QED
      BY <1>0, <2>1, <3>2, <3>4, <3>5, <3>6
  <2> QED
    BY <2>1, <2>4, <2>5
<1>5. CASE Complete
  <2>1. /\ UNCHANGED <<word, output, unwritten, accepted, replied>>
        /\ Queue(c)' = Queue(c)
        /\ \/ wire'[c] = wire[c]
           \/ /\ word[cur].io_channel = c + 1 /\ word[cur].data \in TxWord
              /\ wire'[c] = Append(wire[c], word[cur].data)
    BY <1>5, CompleteSteps
  <2>3. \A i \in 1 .. Len(wire'[c]) : Among(accepted[c], wire'[c][i])
    <3>1. CASE wire'[c] = wire[c]
      BY <1>0, <3>1
    <3>2. CASE wire'[c] # wire[c]
      <4>1. /\ Len(wire'[c]) = Len(wire[c]) + 1 /\ Len(wire[c]) \in Nat
            /\ \A i \in 1 .. Len(wire[c]) : wire'[c][i] = wire[c][i]
            /\ wire'[c][Len(wire[c]) + 1] = word[cur].data
        BY <1>1, <2>1, <3>2, AppendProperties, LenProperties
      <4>2. Among(accepted[c], word[cur].data)
        BY <1>0, <2>1, <3>2, RingTypes
      <4>3. \A i \in 1 .. Len(wire'[c]) : i \in 1 .. Len(wire[c]) \/ i = Len(wire[c]) + 1
        BY <4>1
      <4> QED
        BY <1>0, <4>1, <4>2, <4>3
    <3> QED
      BY <3>1, <3>2
  <2> QED
    BY <1>0, <2>1, <2>3
<1>6. CASE Launch
  <2>1. /\ UNCHANGED <<wire, accepted, replied>> /\ unwritten' = {}
        /\ \A d \in Ring : word'[d].io_channel # c + 1
        /\ Queue(c)' = << >> /\ 1 .. Len(<< >>) = {}
    BY <1>6, LaunchSteps, EmptySeq
  <2> QED
    BY <1>0, <2>1
<1>7. ASSUME ~ Poll, ~ Fill, \A r \in TxInputs : ~ TxRequest(r), ~ Complete, ~ Launch
      PROVE  KnownWords(c)'
  <2>1. /\ UNCHANGED <<wire, word, output, unwritten, accepted, replied>>
        /\ Queue(c)' = Queue(c)
    BY <1>7, WordsKept
  <2> QED
    BY <1>0, <2>1
<1> QED
  BY <1>2, <1>3, <1>4, <1>5, <1>6, <1>7

\* Actions that leave the words of a channel alone and put nothing in front of the
\* DMA channel.
LEMMA OrderKept ==
  ASSUME OrderInv, NEW c \in Chan,
         wire'[c] = wire[c], Queue(c)' = Queue(c),
         c \in unwritten' => c \in unwritten /\ output' = output,
         \A d \in Ring : Holds(d, c)' => Holds(d, c) /\ word'[d] = word[d],
         \A d, e \in Ring : Holds(d, c)' /\ Holds(e, c)' /\ Dist(cur', d) < Dist(cur', e)
                            => Dist(cur, d) < Dist(cur, e)
  PROVE  InOrder(c)'
<1>1. InOrder(c)
  BY DEF OrderInv
<1> HIDE DEF Holds
<1>2. /\ Rising(wire'[c]) /\ Rising(Queue(c)')
      /\ \A i \in 1 .. Len(wire'[c]) : Above(wire'[c][i], Queue(c)')
  BY <1>1 DEF InOrder
<1>3. c \in unwritten' => Below(wire'[c], output'.data[c]) /\ Above(output'.data[c], Queue(c)')
  BY <1>1 DEF InOrder
<1>4. ASSUME NEW d \in Ring, Holds(d, c)'
      PROVE  /\ Below(wire'[c], word'[d].data)
             /\ Above(word'[d].data, Queue(c)')
             /\ c \in unwritten' => word'[d].data < output'.data[c]
             /\ \A e \in Ring :
                  Holds(e, c)' /\ Dist(cur', d) < Dist(cur', e) => word'[d].data < word'[e].data
  BY <1>1, <1>4 DEF InOrder
<1> QED
  BY <1>2, <1>3, <1>4 DEF InOrder

LEMMA PollKeepsOrder ==
  ASSUME TypeInv, TxRingInv, OrderInv, Poll, NEW c \in Chan
  PROVE  InOrder(c)'
<1>1. /\ unwritten = {}
      /\ UNCHANGED <<wire, word, cur>>
      /\ \/ /\ c \in unwritten' /\ Queue(c) # << >>
            /\ output'.data[c] = Queue(c)[1]
            /\ Queue(c)' = Tail(Queue(c))
         \/ c \notin unwritten' /\ Queue(c) = << >> /\ Queue(c)' = << >>
  BY PollSteps
<1>2. \A d \in Ring : Holds(d, c)' => Holds(d, c)
  <2>1. [CrashNext]_vars /\ ~ Fill /\ ~ Complete /\ ~ Launch
    BY DEF CrashNext, FaultNext, Next, ServerStep, Poll, Fill, Complete, EngineComplete, Launch,
           TxRingInv, ChannelInv
  <2>2. \A d \in Ring : InFlight(d)' => InFlight(d)
    BY <2>1, FlightKept
  <2> QED
    BY <1>1, <2>2 DEF Holds
<1>3. CASE c \notin unwritten'
  BY <1>1, <1>2, <1>3, OrderKept
<1>4. CASE c \in unwritten'
  <2>1. /\ Queue(c) # << >> /\ output'.data[c] = Queue(c)[1] /\ Queue(c)' = Tail(Queue(c))
        /\ Queue(c) \in Seq(TxWord) /\ wire[c] \in Seq(TxWord)
        /\ \A d \in Ring : word[d].io_channel = c + 1 => word[d].data \in TxWord
    BY <1>1, <1>4, OrderTypes
  <2>2. InOrder(c)
    BY DEF OrderInv
  <2>3. /\ Rising(Queue(c)') /\ Above(output'.data[c], Queue(c)')
        /\ \A v \in TxWord : Above(v, Queue(c)) => v < output'.data[c] /\ Above(v, Queue(c)')
    BY <2>1, <2>2, TailOrder DEF InOrder
  <2>4. \A i \in 1 .. Len(wire[c]) : wire[c][i] \in TxWord /\ Above(wire[c][i], Queue(c))
    BY <2>1, <2>2, SeqNumbers DEF InOrder
  <2>5. /\ \A i \in 1 .. Len(wire'[c]) : Above(wire'[c][i], Queue(c)')
        /\ Below(wire'[c], output'.data[c])
    BY <1>1, <2>3, <2>4 DEF Below
  <2>6. ASSUME NEW d \in Ring, Holds(d, c)'
        PROVE  /\ Below(wire'[c], word'[d].data)
               /\ Above(word'[d].data, Queue(c)')
               /\ word'[d].data < output'.data[c]
               /\ \A e \in Ring :
                    Holds(e, c)' /\ Dist(cur', d) < Dist(cur', e) => word'[d].data < word'[e].data
    <3>1. Holds(d, c) /\ word[d].data \in TxWord
      BY <1>2, <2>1, <2>6 DEF Holds
    <3>2. /\ Below(wire[c], word[d].data) /\ Above(word[d].data, Queue(c))
          /\ \A e \in Ring :
               Holds(e, c) /\ Dist(cur, d) < Dist(cur, e) => word[d].data < word[e].data
      BY <2>2, <3>1 DEF InOrder
    <3> HIDE DEF Holds
    <3> QED
      BY <1>1, <1>2, <2>3, <3>1, <3>2
  <2> HIDE DEF Holds
  <2>7. Rising(wire'[c])
    BY <1>1, <2>2 DEF InOrder
  <2> QED
    BY <2>3, <2>5, <2>6, <2>7 DEF InOrder
<1> QED
  BY <1>3, <1>4

\* The word that goes into a descriptor: behind those before it.
LEMMA FillKeepsOrder ==
  ASSUME TypeInv, TxRingInv, OrderInv, Fill, NEW c \in Chan
  PROVE  InOrder(c)'
<1>1. PICK b \in unwritten :
           /\ b \in Chan /\ output.data[b] \in TxWord
           /\ unwritten' = unwritten \ {b}
           /\ word'[curr].io_channel = b + 1 /\ word'[curr].data = output.data[b]
           /\ \A d \in Ring : d # curr => word'[d] = word[d]
           /\ UNCHANGED <<wire, output, accepted, replied, cur, tail, mode, pc>>
           /\ \A e \in Chan : Queue(e)' = Queue(e)
           /\ tx_words' = tx_words + 1 /\ Dist(prev, curr) = tx_words
           /\ Polling /\ (mode = "idle" => cur = prev) /\ mode # "busy"
  BY FillSteps
<1>2. curr \in Ring /\ cur \in Ring /\ tx_words \in Nat /\ prev \in Ring
  BY RingTypes
<1>3. \A d \in Ring : Dist(cur, d) \in Nat
  BY <1>2, DistRange
<1>4. ASSUME NEW d \in Ring
      PROVE  /\ InFlight(d) <=> mode = "idle" /\ Dist(cur, d) < tx_words
             /\ InFlight(d)' <=> mode = "idle" /\ Dist(cur, d) < tx_words + 1
             /\ mode = "idle" /\ Dist(cur, d) = tx_words => d = curr
  <2>1. mode = "idle" /\ Dist(cur, d) = tx_words => d = curr
    BY <1>1, <1>2, DistInjective
  <2>2. InFlight(d) <=> mode = "idle" /\ Dist(cur, d) < tx_words
    BY <1>1 DEF InFlight
  <2>3. InFlight(d)' <=> mode = "idle" /\ Dist(cur, d) < tx_words + 1
    BY <1>1 DEF InFlight, Polling
  <2> QED
    BY <2>1, <2>2, <2>3
<1>5. ASSUME NEW d \in Ring
      PROVE  /\ d # curr => (InFlight(d)' <=> InFlight(d)) /\ word'[d] = word[d]
             /\ InFlight(d) => Dist(cur, d) < Dist(cur, curr)
             /\ InFlight(d)' => d = curr \/ Dist(cur, d) < Dist(cur, curr)
  <2>1. mode = "idle" => Dist(cur, curr) = tx_words
    BY <1>1
  <2>2. InFlight(d)' => InFlight(d) \/ d = curr
    BY <1>2, <1>3, <1>4
  <2>3. InFlight(d) => Dist(cur, d) < Dist(cur, curr)
    BY <1>4, <2>1
  <2>4. InFlight(d) => InFlight(d)'
    BY <1>2, <1>3, <1>4
  <2> QED
    BY <1>1, <2>2, <2>3, <2>4
<1>6. InOrder(c)
  BY DEF OrderInv
<1>7. CASE c # b
  <2>1. \A d \in Ring : Holds(d, c)' => Holds(d, c) /\ word'[d] = word[d]
    <3>1. word'[curr].io_channel # c + 1
      BY <1>1, <1>7 DEF Chan
    <3> QED
      BY <1>5, <3>1 DEF Holds
  <2> QED
    BY <1>1, <1>7, <2>1, OrderKept
<1>8. CASE c = b
  <2>1. /\ Rising(wire'[c]) /\ Rising(Queue(c)')
        /\ \A i \in 1 .. Len(wire'[c]) : Above(wire'[c][i], Queue(c)')
        /\ c \notin unwritten'
    BY <1>1, <1>6, <1>8 DEF InOrder
  <2>2. /\ Below(wire[c], output.data[c]) /\ Above(output.data[c], Queue(c))
        /\ \A d \in Ring : Holds(d, c) => word[d].data < output.data[c]
    BY <1>1, <1>6, <1>8 DEF InOrder
  <2>3. word'[curr].data = output.data[c]
    BY <1>1, <1>8
  <2>4. ASSUME NEW d \in Ring, Holds(d, c)'
        PROVE  /\ Below(wire'[c], word'[d].data)
               /\ Above(word'[d].data, Queue(c)')
               /\ \A e \in Ring :
                    Holds(e, c)' /\ Dist(cur', d) < Dist(cur', e) => word'[d].data < word'[e].data
    <3>1. CASE d = curr
      <4>1. ASSUME NEW e \in Ring, Holds(e, c)' PROVE ~ (Dist(cur', d) < Dist(cur', e))
        <5>1. e = curr \/ Dist(cur, e) < Dist(cur, curr)
          BY <1>5, <4>1 DEF Holds
        <5>2. Dist(cur, e) \in Nat /\ Dist(cur, curr) \in Nat
          BY <1>2, <1>3
        <5> QED
          BY <1>1, <3>1, <5>1, <5>2
      <4> QED
        BY <1>1, <2>2, <2>3, <3>1, <4>1
    <3>2. CASE d # curr
      <4>1. Holds(d, c) /\ word'[d] = word[d]
        BY <1>5, <2>4, <3>2 DEF Holds
      <4>2. /\ Below(wire[c], word[d].data) /\ Above(word[d].data, Queue(c))
            /\ \A e \in Ring :
                 Holds(e, c) /\ Dist(cur, d) < Dist(cur, e) => word[d].data < word[e].data
        BY <1>6, <4>1 DEF InOrder
      <4>3. ASSUME NEW e \in Ring, Holds(e, c)', Dist(cur', d) < Dist(cur', e)
            PROVE  word'[d].data < word'[e].data
        <5>1. CASE e = curr
          BY <2>2, <2>3, <4>1, <5>1
        <5>2. CASE e # curr
          <6>1. Holds(e, c) /\ word'[e] = word[e]
            BY <1>5, <4>3, <5>2 DEF Holds
          <6> QED
            BY <1>1, <4>1, <4>2, <4>3, <6>1
        <5> QED
          BY <5>1, <5>2
      <4> QED
        BY <1>1, <4>1, <4>2, <4>3
    <3> QED
      BY <3>1, <3>2
  <2> QED
    BY <2>1, <2>4 DEF InOrder
<1> QED
  BY <1>7, <1>8

\* The word of a request: behind all that came before it on its channel.
LEMMA RequestKeepsOrder ==
  ASSUME TypeInv, TxRingInv, KnownInv, OrderInv, NEW r \in TxInputs, TxRequest(r), NEW c \in Chan
  PROVE  InOrder(c)'
<1>1. PICK w \in TxWord :
           /\ w = Len(replied[r]) + 1
           /\ UNCHANGED <<wire, word, output, unwritten, stat, cur, tail, mode, pc, tx_words>>
           /\ unwritten = {} /\ pc = "words"
           /\ \/ \A e \in Chan : Queue(e)' = Queue(e)
              \/ /\ r \in Chan
                 /\ Queue(r)' = Append(Queue(r), w)
                 /\ \A e \in Chan : e # r => Queue(e)' = Queue(e)
  BY RequestSteps
<1>2. \A d \in Ring : ~ InFlight(d)' /\ ~ InFlight(d)
  BY <1>1 DEF InFlight, Polling, TxRingInv, ChannelInv
<1>3. CASE Queue(c)' = Queue(c)
  BY <1>1, <1>2, <1>3, OrderKept DEF Holds
<1>4. CASE c = r /\ Queue(c)' = Append(Queue(c), w)
  <2>1. /\ wire[c] \in Seq(TxWord) /\ Queue(c) \in Seq(TxWord) /\ accepted[c] \in Seq(TxWord)
        /\ Len(replied[c]) \in Nat
    BY <1>4, OrderTypes, LenProperties DEF TypeInv, TypeOK
  <2>2. \A p \in 1 .. Len(accepted[c]) : accepted[c][p] \in Nat /\ accepted[c][p] < w
    <3>1. \A p \in 1 .. Len(accepted[c]) : accepted[c][p] \in Nat
      BY <2>1, SeqNumbers, WordIsStored
    <3>2. \A p \in 1 .. Len(accepted[c]) : accepted[c][p] <= Len(replied[c])
      BY <1>4 DEF KnownInv, KnownWords
    <3> QED
      BY <1>1, <1>4, <2>1, <3>1, <3>2
  <2>3. /\ \A i \in 1 .. Len(Queue(c)) : Queue(c)[i] < w
        /\ \A i \in 1 .. Len(wire[c]) : wire[c][i] < w /\ wire[c][i] \in TxWord
    <3>1. /\ \A i \in 1 .. Len(Queue(c)) : Among(accepted[c], Queue(c)[i])
          /\ \A i \in 1 .. Len(wire[c]) : Among(accepted[c], wire[c][i])
      BY DEF KnownInv, KnownWords
    <3>2. \A v : Among(accepted[c], v) => v < w
      BY <2>2 DEF Among
    <3> QED
      BY <2>1, <3>1, <3>2, SeqNumbers
  <2>4. InOrder(c)
    BY DEF OrderInv
  <2>5. Rising(Queue(c)')
    <3>1. Below(Queue(c), w)
      BY <2>3 DEF Below
    <3> QED
      BY <1>4, <2>1, <2>4, <3>1, AppendOrder DEF InOrder
  <2>6. \A i \in 1 .. Len(wire'[c]) : Above(wire'[c][i], Queue(c)')
    BY <1>1, <1>4, <2>1, <2>3, <2>4, AppendOrder DEF InOrder
  <2> QED
    BY <1>1, <1>2, <2>4, <2>5, <2>6 DEF InOrder, Holds
<1> QED
  BY <1>1, <1>3, <1>4

\* The word that leaves a descriptor for the wire: the first of those ahead.
LEMMA CompleteKeepsOrder ==
  ASSUME TypeInv, TxRingInv, OrderInv, Complete, NEW c \in Chan
  PROVE  InOrder(c)'
<1> DEFINE w == word[cur].data
<1>1. /\ InFlight(cur) /\ cur \in Ring
      /\ UNCHANGED <<word, output, unwritten>>
      /\ Queue(c)' = Queue(c)
      /\ \A d \in Ring : InFlight(d)' <=> InFlight(d) /\ d # cur
      /\ \A d, e \in Ring :
           d # cur /\ e # cur /\ Dist(cur', d) < Dist(cur', e) => Dist(cur, d) < Dist(cur, e)
      /\ word[cur].io_channel # c + 1 => wire'[c] = wire[c]
      /\ word[cur].io_channel = c + 1 => wire'[c] = Append(wire[c], w) /\ w \in TxWord
  BY CompleteSteps, RingTypes
<1>2. \A d \in Ring : Holds(d, c)' <=> Holds(d, c) /\ d # cur
  BY <1>1 DEF Holds
<1>3. CASE word[cur].io_channel # c + 1
  BY <1>1, <1>2, <1>3, OrderKept
<1>4. CASE word[cur].io_channel = c + 1
  <2>1. /\ wire'[c] = Append(wire[c], w) /\ w \in TxWord
        /\ wire[c] \in Seq(TxWord) /\ Queue(c) \in Seq(TxWord)
        /\ c \in unwritten => output.data[c] \in TxWord
        /\ \A d \in Ring : word[d].io_channel = c + 1 => word[d].data \in TxWord
    BY <1>1, <1>4, OrderTypes
  <2>2. InOrder(c) /\ Holds(cur, c)
    BY <1>1, <1>4 DEF OrderInv, Holds
  <2>3. /\ Below(wire[c], w) /\ Above(w, Queue(c))
        /\ c \in unwritten => w < output.data[c]
        /\ \A e \in Ring : Holds(e, c) /\ Dist(cur, cur) < Dist(cur, e) => w < word[e].data
    BY <1>1, <2>2 DEF InOrder
  <2> HIDE DEF w
  <2>4. \A e \in Ring : Holds(e, c)' => w < word[e].data /\ word[e].data \in TxWord
    <3>1. Dist(cur, cur) = 0 /\ \A e \in Ring : e # cur => Dist(cur, e) > 0
      BY <1>1, DistRange
    <3> QED
      BY <1>2, <2>1, <2>3, <3>1 DEF Holds
  <2>5. Rising(wire'[c])
    BY <2>1, <2>2, <2>3, AppendOrder DEF InOrder
  <2>6. \A i \in 1 .. Len(wire'[c]) : Above(wire'[c][i], Queue(c))
    <3>1. /\ Len(wire'[c]) = Len(wire[c]) + 1 /\ Len(wire[c]) \in Nat
          /\ \A i \in 1 .. Len(wire[c]) : wire'[c][i] = wire[c][i]
          /\ wire'[c][Len(wire[c]) + 1] = w
      BY <2>1, AppendProperties, LenProperties
    <3>2. \A i \in 1 .. Len(wire'[c]) : i \in 1 .. Len(wire[c]) \/ i = Len(wire[c]) + 1
      BY <3>1
    <3> QED
      BY <2>2, <2>3, <3>1, <3>2 DEF InOrder
  <2>7. c \in unwritten => Below(wire'[c], output.data[c]) /\ Above(output.data[c], Queue(c))
    BY <2>1, <2>2, <2>3, AppendOrder DEF InOrder
  <2>8. ASSUME NEW d \in Ring, Holds(d, c)'
        PROVE  /\ Below(wire'[c], word[d].data)
               /\ Above(word[d].data, Queue(c))
               /\ c \in unwritten => word[d].data < output.data[c]
               /\ \A e \in Ring :
                    Holds(e, c)' /\ Dist(cur', d) < Dist(cur', e) => word[d].data < word[e].data
    <3>1. Holds(d, c) /\ w < word[d].data /\ word[d].data \in TxWord
      BY <1>2, <2>4, <2>8
    <3>2. /\ Below(wire[c], word[d].data) /\ Above(word[d].data, Queue(c))
          /\ c \in unwritten => word[d].data < output.data[c]
          /\ \A e \in Ring :
               Holds(e, c) /\ Dist(cur, d) < Dist(cur, e) => word[d].data < word[e].data
      BY <2>2, <3>1 DEF InOrder
    <3>3. Below(wire'[c], word[d].data)
      BY <2>1, <3>1, <3>2, AppendOrder
    <3> HIDE DEF Holds
    <3> QED
      BY <1>1, <1>2, <2>8, <3>2, <3>3
  <2>9. Rising(Queue(c))
    BY <2>2 DEF InOrder
  <2> HIDE DEF Holds
  <2> QED
    BY <1>1, <2>5, <2>6, <2>7, <2>8, <2>9 DEF InOrder
<1> QED
  BY <1>3, <1>4

LEMMA OrderStep ==
  TypeInv /\ TxRingInv /\ KnownInv /\ OrderInv /\ [CrashNext]_vars => OrderInv'
<1> SUFFICES ASSUME TypeInv, TxRingInv, KnownInv, OrderInv, [CrashNext]_vars, NEW c \in Chan
             PROVE  InOrder(c)'
  BY DEF OrderInv
<1>1. CASE Poll
  BY <1>1, PollKeepsOrder
<1>2. CASE Fill
  BY <1>2, FillKeepsOrder
<1>3. ASSUME NEW r \in TxInputs, TxRequest(r)
      PROVE  InOrder(c)'
  BY <1>3, RequestKeepsOrder
<1>4. CASE Complete
  BY <1>4, CompleteKeepsOrder
<1>5. CASE Launch
  <2>1. /\ wire' = wire /\ unwritten' = {}
        /\ \A d \in Ring : ~ Holds(d, c)'
        /\ Queue(c)' = << >> /\ 1 .. Len(<< >>) = {}
    BY <1>5, LaunchSteps, EmptySeq DEF Holds
  <2>2. Rising(wire[c])
    BY DEF OrderInv, InOrder
  <2> HIDE DEF Holds
  <2> QED
    BY <2>1, <2>2 DEF InOrder, Rising, Above
<1>6. CASE ~ Poll /\ ~ Fill /\ (\A r \in TxInputs : ~ TxRequest(r)) /\ ~ Complete /\ ~ Launch
  <2>1. /\ UNCHANGED <<wire, word, output, unwritten>>
        /\ Queue(c)' = Queue(c)
    BY <1>6, WordsKept
  <2>2. \A d \in Ring : InFlight(d)' => InFlight(d) /\ cur' = cur
    BY <1>6, FlightKept
  <2>3. \A d \in Ring : Holds(d, c)' => Holds(d, c) /\ cur' = cur
    BY <2>1, <2>2 DEF Holds
  <2> HIDE DEF Holds
  <2> QED
    BY <2>1, <2>3, OrderKept
<1> QED
  BY <1>1, <1>2, <1>3, <1>4, <1>5, <1>6

TxOrderInv == TypeInv /\ TxRingInv /\ KnownInv /\ OrderInv

LEMMA TxOrderInit == Init => TxOrderInv
BY TypeInit, TxRingInit, InitOrder DEF TxOrderInv

LEMMA TxOrderStep == TxOrderInv /\ [CrashNext]_vars => TxOrderInv'
<1> SUFFICES ASSUME TxOrderInv, [CrashNext]_vars PROVE TxOrderInv'
  OBVIOUS
<1>1. TypeInv'
  BY RoomStep, TypeStep DEF TypeInv, TxOrderInv
<1> QED
  BY <1>1, TxRingStep, KnownStep, OrderStep DEF TxOrderInv

(* No word is transmitted twice, and those of a channel leave in the order  *)
(* they were sent, whatever errors stop the DMA and wherever the server is  *)
(* killed and launched again (pacman.cc:163-165 and 192-209).               *)
THEOREM TransmittedOnce == CrashSpec => []NothingTwice
<1>1. TxOrderInv => NothingTwice
  BY DEF TxOrderInv, OrderInv, InOrder, Rising, NothingTwice
<1> QED
  BY <1>1, TxOrderInit, TxOrderStep, PTL DEF CrashSpec

-----------------------------------------------------------------------------
(* No word is lost. *)

\* The thread waits for a new server only after a kill, and the channel stops only
\* for an error.
HaltInv ==
  /\ kills = 0 => pc \notin {"down", "restart_dma"}
  /\ faults = 0 => mode # "halted" /\ ~ irq

\* The words for channel c that were taken from a client and that the channel has
\* still to transmit.
OnTheWay(c) ==
  {w \in TxWord :
     \/ \E d \in Ring : Holds(d, c) /\ word[d].data = w
     \/ c \in unwritten /\ output.data[c] = w
     \/ Among(Queue(c), w)}

\* What is on the wire is the beginning of what was accepted, and unless the channel
\* has stopped the rest is on its way.
Covered(c) ==
  /\ Len(wire[c]) <= Len(accepted[c])
  /\ \A i \in 1 .. Len(wire[c]) : wire[c][i] = accepted[c][i]
  /\ mode # "halted" =>
       \A p \in Len(wire[c]) + 1 .. Len(accepted[c]) : accepted[c][p] \in OnTheWay(c)

CoverInv == kills = 0 => \A c \in Chan : Covered(c)

LEMMA HaltStep == TypeInv /\ HaltInv /\ [CrashNext]_vars => HaltInv'
<1> SUFFICES ASSUME TypeInv, HaltInv, [CrashNext]_vars PROVE HaltInv'
  OBVIOUS
<1>1. faults \in Nat /\ kills \in Nat
  BY Bounds DEF TypeInv, TypeOK
<1>2. CASE TransferError \/ ChannelError
  BY <1>1, <1>2 DEF TransferError, ChannelError, HaltInv, serverVars
<1>3. CASE Kill
  BY <1>1, <1>3 DEF Kill, HaltInv, engineVars
<1>4. CASE Launch
  BY <1>4 DEF Launch, HaltInv
<1>5. CASE RestartDma
  BY <1>5 DEF RestartDma, RestartAt, HaltInv
<1>6. CASE Complete
  BY <1>6 DEF Complete, EngineComplete, HaltInv, serverVars
<1>7. CASE Transmit
  BY <1>7 DEF Transmit, WriteTail, HaltInv
<1>8. CASE UNCHANGED <<mode, irq, faults, kills>> /\ (pc' = pc \/ pc' \notin {"down", "restart_dma"})
  BY <1>8 DEF HaltInv
<1> QED
  BY <1>2, <1>3, <1>4, <1>5, <1>6, <1>7, <1>8
  DEF CrashNext, FaultNext, Next, ServerStep, ClientStep, vars, engineVars, serverVars, Poll, Fill,
      FillEnd, TransmitNothing, Spin, TransmitEnd, Recv, TxRequest, Reply

LEMMA InitCovered == Init => HaltInv /\ CoverInv
<1> SUFFICES ASSUME Init PROVE HaltInv /\ CoverInv
  OBVIOUS
<1>1. HaltInv
  BY DEF Init, EngineInit, HaltInv
<1>2. ASSUME NEW c \in Chan PROVE Covered(c)
  <2>1. wire[c] = << >> /\ accepted[c] = << >>
    BY DEF Init
  <2>2. Len(<< >>) = 0 /\ 1 .. 0 = {} /\ 0 + 1 .. 0 = {}
    BY EmptySeq
  <2> QED
    BY <2>1, <2>2 DEF Covered
<1> QED
  BY <1>1, <1>2 DEF CoverInv

\* Actions that neither accept nor transmit a word of the channel, and lose none.
LEMMA CoveredKept ==
  ASSUME NEW c \in Chan, Covered(c), wire'[c] = wire[c], accepted'[c] = accepted[c],
         mode' # "halted" => mode # "halted" /\ OnTheWay(c) \subseteq OnTheWay(c)'
  PROVE  Covered(c)'
BY DEF Covered

\* A round takes the first word of a queue to output.
LEMMA PollKeepsWay ==
  ASSUME TypeInv, TxRingInv, Poll, NEW c \in Chan, mode' # "halted"
  PROVE  OnTheWay(c) \subseteq OnTheWay(c)'
<1>1. /\ c \notin unwritten
      /\ UNCHANGED <<wire, word, mode>>
      /\ \/ /\ c \in unwritten' /\ Queue(c) # << >>
            /\ output'.data[c] = Queue(c)[1]
            /\ Queue(c)' = Tail(Queue(c))
         \/ c \notin unwritten' /\ Queue(c) = << >> /\ Queue(c)' = << >>
  BY PollSteps
<1>2. \A d \in Ring : InFlight(d) => InFlight(d)'
  <2>1. [CrashNext]_vars /\ ~ Fill /\ ~ Complete /\ ~ Launch /\ ~ Kill /\ ~ RestartDma
    <3>1. pc = "poll" /\ pc' # "down" /\ mode' = mode /\ irq' = irq /\ stat' = stat
      BY DEF Poll, engineVars
    <3>2. ~ Complete
      BY <3>1 DEF Complete, serverVars, TxRingInv, ChannelInv, EngineComplete
    <3> QED
      BY <3>1, <3>2 DEF CrashNext, FaultNext, Next, ServerStep, Fill, Launch, Kill, RestartDma
  <2> QED
    BY <2>1, FlightKept
<1>3. \A d \in Ring : Holds(d, c) => Holds(d, c)'
  BY <1>1, <1>2 DEF Holds
<1>4. ASSUME NEW w \in TxWord, NEW i \in 1 .. Len(Queue(c)), Queue(c)[i] = w
      PROVE  c \in unwritten' /\ (output'.data[c] = w \/ Among(Queue(c)', w))
  <2>1. Queue(c) \in Seq(TxWord) /\ Queue(c) # << >>
    BY <1>4, OrderTypes, EmptySeq
  <2>2. /\ c \in unwritten' /\ output'.data[c] = Queue(c)[1]
        /\ Queue(c)' = Tail(Queue(c))
    BY <1>1, <2>1
  <2>3. /\ Len(Tail(Queue(c))) = Len(Queue(c)) - 1
        /\ \A j \in 1 .. Len(Tail(Queue(c))) : Tail(Queue(c))[j] = Queue(c)[j + 1]
        /\ Len(Queue(c)) \in Nat
    BY <2>1, HeadTailProperties, LenProperties
  <2>4. CASE i = 1
    BY <1>4, <2>2, <2>4
  <2>5. CASE i # 1
    <3>1. i - 1 \in 1 .. Len(Tail(Queue(c))) /\ Tail(Queue(c))[i - 1] = Queue(c)[i]
      BY <2>3, <2>5
    <3> QED
      BY <1>4, <2>2, <3>1 DEF Among
  <2> QED
    BY <2>4, <2>5
<1>5. ASSUME NEW w \in OnTheWay(c) PROVE w \in OnTheWay(c)'
  <2>1. CASE \E d \in Ring : Holds(d, c) /\ word[d].data = w
    BY <1>1, <1>3, <2>1 DEF OnTheWay
  <2>2. CASE Among(Queue(c), w)
    <3>1. PICK i \in 1 .. Len(Queue(c)) : Queue(c)[i] = w
      BY <2>2 DEF Among
    <3>2. w \in TxWord
      BY DEF OnTheWay
    <3> QED
      BY <1>4, <3>1, <3>2 DEF OnTheWay
  <2>3. (\E d \in Ring : Holds(d, c) /\ word[d].data = w) \/ Among(Queue(c), w)
    BY <1>1 DEF OnTheWay
  <2> QED
    BY <2>1, <2>2, <2>3
<1> QED
  BY <1>5

\* A word of output goes to a descriptor in front of the channel.
LEMMA FillKeepsWay ==
  ASSUME TypeInv, TxRingInv, Fill, NEW c \in Chan, mode' # "halted"
  PROVE  OnTheWay(c) \subseteq OnTheWay(c)'
<1>1. PICK b \in unwritten :
           /\ b \in Chan /\ output.data[b] \in TxWord
           /\ unwritten' = unwritten \ {b}
           /\ word'[curr].io_channel = b + 1 /\ word'[curr].data = output.data[b]
           /\ \A d \in Ring : d # curr => word'[d] = word[d]
           /\ UNCHANGED <<wire, output, accepted, replied, cur, tail, mode, pc>>
           /\ \A e \in Chan : Queue(e)' = Queue(e)
           /\ tx_words' = tx_words + 1 /\ Dist(prev, curr) = tx_words
           /\ Polling /\ (mode = "idle" => cur = prev) /\ mode # "busy"
  BY FillSteps
<1>2. cur \in Ring /\ tx_words \in Nat /\ mode = "idle" /\ cur = prev
  BY <1>1, RingTypes
<1>k. PICK k \in Ring : k = curr
  BY RingTypes
<1>3. ASSUME NEW d \in Ring
      PROVE  /\ InFlight(d) => d # k /\ InFlight(d)'
             /\ InFlight(k)'
  <2>1. Dist(cur, d) \in Nat /\ Dist(cur, k) = tx_words
    BY <1>1, <1>2, <1>k, DistRange
  <2>2. InFlight(d) <=> Dist(cur, d) < tx_words
    BY <1>1, <1>2 DEF InFlight
  <2>3. InFlight(d)' <=> Dist(cur, d) < tx_words + 1
    BY <1>1, <1>2 DEF InFlight, Polling
  <2>4. InFlight(k)' <=> Dist(cur, k) < tx_words + 1
    BY <1>1, <1>2 DEF InFlight, Polling
  <2> QED
    BY <1>2, <2>1, <2>2, <2>3, <2>4
<1>4. \A d \in Ring : Holds(d, c) => Holds(d, c)' /\ word'[d] = word[d]
  BY <1>1, <1>3, <1>k DEF Holds
<1>5. ASSUME NEW w \in OnTheWay(c) PROVE w \in OnTheWay(c)'
  <2>1. CASE \E d \in Ring : Holds(d, c) /\ word[d].data = w
    BY <1>4, <2>1 DEF OnTheWay
  <2>2. CASE c \in unwritten /\ output.data[c] = w
    <3>1. CASE c # b
      BY <1>1, <2>2, <3>1 DEF OnTheWay
    <3>2. CASE c = b
      <4>1. Holds(k, c)' /\ word'[k].data = w
        BY <1>1, <1>3, <1>k, <2>2, <3>2 DEF Holds
      <4> HIDE DEF Holds
      <4> QED
        BY <4>1 DEF OnTheWay
    <3> QED
      BY <3>1, <3>2
  <2>3. CASE Among(Queue(c), w)
    BY <1>1, <2>3 DEF OnTheWay
  <2>4. \/ \E d \in Ring : Holds(d, c) /\ word[d].data = w
        \/ c \in unwritten /\ output.data[c] = w
        \/ Among(Queue(c), w)
    BY DEF OnTheWay
  <2> QED
    BY <2>1, <2>2, <2>3, <2>4
<1> QED
  BY <1>5

\* A word that is accepted joins its queue.
LEMMA RequestKeepsCovered ==
  ASSUME TypeInv, TxRingInv, NEW r \in TxInputs, TxRequest(r), NEW c \in Chan, Covered(c)
  PROVE  Covered(c)'
<1>1. PICK w \in TxWord :
           /\ w = Len(replied[r]) + 1
           /\ UNCHANGED <<wire, word, output, unwritten, stat, cur, tail, mode, pc, tx_words>>
           /\ unwritten = {} /\ tx_words = 0 /\ pc = "words"
           /\ Len(replied'[r]) = w
           /\ \A e \in TxInputs : e # r => replied'[e] = replied[e]
           /\ \/ /\ accepted' = accepted
                 /\ \A e \in Chan : Queue(e)' = Queue(e)
              \/ /\ r \in Chan
                 /\ accepted'[r] = Append(accepted[r], w)
                 /\ Queue(r)' = Append(Queue(r), w)
                 /\ \A e \in Chan : e # r => accepted'[e] = accepted[e] /\ Queue(e)' = Queue(e)
  BY RequestSteps
<1>2. \A d \in Ring : Holds(d, c) => Holds(d, c)'
  BY <1>1 DEF Holds, InFlight, Polling
<1>3. CASE accepted'[c] = accepted[c] /\ Queue(c)' = Queue(c)
  <2>1. OnTheWay(c) \subseteq OnTheWay(c)'
    BY <1>1, <1>2, <1>3 DEF OnTheWay
  <2> QED
    BY <1>1, <1>3, <2>1, CoveredKept
<1>4. CASE accepted'[c] = Append(accepted[c], w) /\ Queue(c)' = Append(Queue(c), w)
  <2>1. /\ accepted[c] \in Seq(TxWord) /\ Queue(c) \in Seq(TxWord) /\ wire[c] \in Seq(TxWord)
    BY OrderTypes
  <2>2. /\ Len(accepted'[c]) = Len(accepted[c]) + 1
        /\ \A p \in 1 .. Len(accepted[c]) : accepted'[c][p] = accepted[c][p]
        /\ accepted'[c][Len(accepted[c]) + 1] = w
        /\ Len(accepted[c]) \in Nat /\ Len(wire[c]) \in Nat
    BY <1>4, <2>1, AppendProperties, LenProperties
  <2>3. /\ \A v : Among(Queue(c), v) => Among(Append(Queue(c), w), v)
        /\ Among(Append(Queue(c), w), w)
    <3> DEFINE q == Queue(c)
    <3>1. /\ Len(Append(q, w)) = Len(q) + 1 /\ Len(q) \in Nat
          /\ \A p \in 1 .. Len(q) : Append(q, w)[p] = q[p]
          /\ Append(q, w)[Len(q) + 1] = w
      BY <2>1, AppendProperties, LenProperties
    <3> HIDE DEF q
    <3>2. Len(q) + 1 \in 1 .. Len(q) + 1 /\ \A p \in 1 .. Len(q) : p \in 1 .. Len(q) + 1
      BY <3>1
    <3>3. /\ \A v : Among(q, v) => Among(Append(q, w), v)
          /\ Among(Append(q, w), w)
      BY <3>1, <3>2 DEF Among
    <3> QED
      BY <3>3 DEF q
  <2>4. OnTheWay(c) \subseteq OnTheWay(c)' /\ w \in OnTheWay(c)'
    BY <1>1, <1>2, <1>4, <2>3 DEF OnTheWay
  <2>5. Len(wire'[c]) <= Len(accepted'[c])
    BY <1>1, <2>2 DEF Covered
  <2>6. \A i \in 1 .. Len(wire'[c]) : wire'[c][i] = accepted'[c][i]
    <3>1. \A i \in 1 .. Len(wire[c]) : i \in 1 .. Len(accepted[c])
      BY <2>2 DEF Covered
    <3> QED
      BY <1>1, <2>2, <3>1 DEF Covered
  <2>7. ASSUME mode # "halted", NEW p \in Len(wire'[c]) + 1 .. Len(accepted'[c])
        PROVE  accepted'[c][p] \in OnTheWay(c)'
    <3>1. p = Len(accepted[c]) + 1 \/ p \in Len(wire[c]) + 1 .. Len(accepted[c])
      BY <1>1, <2>2
    <3>2. p \in Len(wire[c]) + 1 .. Len(accepted[c]) => p \in 1 .. Len(accepted[c])
      BY <2>2
    <3> QED
      BY <2>2, <2>4, <2>7, <3>1, <3>2 DEF Covered
  <2>8. mode' = mode
    BY <1>1
  <2> QED
    BY <2>5, <2>6, <2>7, <2>8 DEF Covered
<1> QED
  BY <1>1, <1>3, <1>4

\* The word that is transmitted is the first that was not.
LEMMA CompleteKeepsCovered ==
  ASSUME TypeInv, TxRingInv, KnownInv, OrderInv, Complete, NEW c \in Chan, Covered(c)
  PROVE  Covered(c)'
<1> DEFINE x == word[cur].data
           n == Len(wire[c])
<1>1. /\ InFlight(cur) /\ cur \in Ring /\ mode = "busy" /\ mode' # "halted"
      /\ UNCHANGED <<word, output, unwritten, accepted>>
      /\ Queue(c)' = Queue(c)
      /\ \A d \in Ring : InFlight(d)' <=> InFlight(d) /\ d # cur
      /\ word[cur].io_channel # c + 1 => wire'[c] = wire[c]
      /\ word[cur].io_channel = c + 1 => wire'[c] = Append(wire[c], x) /\ x \in TxWord
  BY CompleteSteps, RingTypes
<1>2. \A d \in Ring : Holds(d, c) /\ d # cur => Holds(d, c)'
  BY <1>1 DEF Holds
<1>3. CASE word[cur].io_channel # c + 1
  <2>1. \A d \in Ring : Holds(d, c) => Holds(d, c)'
    BY <1>2, <1>3 DEF Holds
  <2>2. OnTheWay(c) \subseteq OnTheWay(c)'
    BY <1>1, <2>1 DEF OnTheWay
  <2> QED
    BY <1>1, <1>3, <2>2, CoveredKept
<1>4. CASE word[cur].io_channel = c + 1
  <2>1. /\ wire'[c] = Append(wire[c], x) /\ x \in TxWord
        /\ wire[c] \in Seq(TxWord) /\ Queue(c) \in Seq(TxWord) /\ accepted[c] \in Seq(TxWord)
        /\ c \in unwritten => output.data[c] \in TxWord
        /\ \A d \in Ring : word[d].io_channel = c + 1 => word[d].data \in TxWord
        /\ n \in Nat /\ Len(accepted[c]) \in Nat
    BY <1>1, <1>4, OrderTypes, LenProperties
  <2>2. InOrder(c) /\ Holds(cur, c)
    BY <1>1, <1>4 DEF OrderInv, Holds
  <2>3. PICK p \in 1 .. Len(accepted[c]) : accepted[c][p] = x
    BY <1>1, <1>4 DEF KnownInv, KnownWords, Among
  <2>4. \A d \in Ring : Holds(d, c) /\ d # cur => x < word[d].data
    <3>1. \A d \in Ring : d # cur => Dist(cur, d) > Dist(cur, cur)
      BY <1>1, DistRange
    <3> HIDE DEF Holds
    <3> QED
      BY <1>1, <2>2, <3>1 DEF InOrder
  <2>0. x = word[cur].data
    OBVIOUS
  <2> HIDE DEF x, n
  <2>5. ASSUME NEW y \in OnTheWay(c)
        PROVE  y = x \/ (x < y /\ y \in OnTheWay(c)')
    <3>1. CASE \E d \in Ring : Holds(d, c) /\ word[d].data = y
      <4>1. PICK d \in Ring : Holds(d, c) /\ word[d].data = y
        BY <3>1
      <4>2. CASE d = cur
        BY <2>0, <4>1, <4>2
      <4>3. CASE d # cur
        <5>1. x < y /\ Holds(d, c)' /\ word'[d].data = y
          BY <1>1, <1>2, <2>4, <4>1, <4>3
        <5>2. y \in TxWord
          BY DEF OnTheWay
        <5> HIDE DEF Holds
        <5> QED
          BY <5>1, <5>2 DEF OnTheWay
      <4> QED
        BY <4>2, <4>3
    <3>2. CASE c \in unwritten /\ output.data[c] = y
      <4>1. x < y
        <5>1. x < output.data[c]
          BY <1>1, <2>0, <2>2, <3>2 DEF InOrder
        <5> QED
          BY <3>2, <5>1
      <4> QED
        BY <1>1, <3>2, <4>1 DEF OnTheWay
    <3>3. CASE Among(Queue(c), y)
      <4>1. Above(x, Queue(c))
        BY <1>1, <2>0, <2>2 DEF InOrder
      <4>2. x < y
        BY <3>3, <4>1 DEF Above, Among
      <4> QED
        BY <1>1, <3>3, <4>2 DEF OnTheWay
    <3>4. \/ \E d \in Ring : Holds(d, c) /\ word[d].data = y
          \/ c \in unwritten /\ output.data[c] = y
          \/ Among(Queue(c), y)
      BY DEF OnTheWay
    <3> QED
      BY <3>1, <3>2, <3>3, <3>4
  <2>6. /\ \A i \in 1 .. n : wire[c][i] = accepted[c][i] /\ wire[c][i] < x
        /\ n <= Len(accepted[c])
        /\ \A i \in n + 1 .. Len(accepted[c]) : accepted[c][i] \in OnTheWay(c)
    <3>1. Below(wire[c], x)
      BY <1>1, <2>0, <2>2 DEF InOrder
    <3> QED
      BY <1>1, <3>1 DEF Covered, Below, n
  <2>7. /\ x \in Nat
        /\ \A i \in 1 .. Len(accepted[c]) : accepted[c][i] \in Nat
        /\ \A i, j \in 1 .. Len(accepted[c]) : i < j => accepted[c][i] < accepted[c][j]
    BY <2>1, SeqNumbers, WordIsStored DEF KnownInv, KnownWords, Rising
  <2>8. p = n + 1
    <3>1. ASSUME p <= n PROVE FALSE
      <4>1. p \in 1 .. n
        BY <2>1, <3>1
      <4>2. x < x
        BY <2>3, <2>6, <4>1
      <4> QED
        BY <2>7, <4>2
    <3>2. ASSUME p > n + 1 PROVE FALSE
      <4>1. n + 1 \in n + 1 .. Len(accepted[c]) /\ n + 1 \in 1 .. Len(accepted[c])
        BY <2>1, <3>2
      <4>2. accepted[c][n + 1] \in OnTheWay(c) /\ accepted[c][n + 1] < x
        BY <2>1, <2>3, <2>6, <2>7, <3>2, <4>1
      <4>3. accepted[c][n + 1] = x \/ x < accepted[c][n + 1]
        BY <2>5, <4>2
      <4> QED
        BY <2>7, <4>1, <4>2, <4>3
    <3> QED
      BY <2>1, <3>1, <3>2
  <2>9. /\ Len(wire'[c]) = n + 1 /\ wire'[c][n + 1] = x
        /\ \A i \in 1 .. n : wire'[c][i] = wire[c][i]
    BY <2>1, AppendProperties DEF n
  <2>10. Len(wire'[c]) <= Len(accepted[c])
    BY <2>1, <2>8, <2>9
  <2>11. \A i \in 1 .. Len(wire'[c]) : wire'[c][i] = accepted[c][i]
    <3>1. \A i \in 1 .. n + 1 : i \in 1 .. n \/ i = n + 1
      BY <2>1
    <3> QED
      BY <2>3, <2>6, <2>8, <2>9, <3>1
  <2>12. ASSUME NEW i \in Len(wire'[c]) + 1 .. Len(accepted[c])
         PROVE  accepted[c][i] \in OnTheWay(c)'
    <3>1. i \in n + 1 .. Len(accepted[c]) /\ i \in 1 .. Len(accepted[c]) /\ p < i
      BY <2>1, <2>8, <2>9
    <3>2. accepted[c][i] \in OnTheWay(c) /\ x < accepted[c][i]
      BY <2>3, <2>6, <2>7, <3>1
    <3>3. accepted[c][i] # x
      BY <2>7, <3>1, <3>2
    <3> QED
      BY <2>5, <3>2, <3>3
  <2>13. accepted' = accepted
    BY <1>1
  <2> QED
    BY <2>10, <2>11, <2>12, <2>13 DEF Covered
<1> QED
  BY <1>3, <1>4

LEMMA CoverStep ==
  TypeInv /\ TxRingInv /\ KnownInv /\ OrderInv /\ HaltInv /\ CoverInv /\ [CrashNext]_vars
    => CoverInv'
<1> SUFFICES ASSUME TypeInv, TxRingInv, KnownInv, OrderInv, HaltInv, CoverInv, [CrashNext]_vars,
                    kills' = 0, NEW c \in Chan
             PROVE  Covered(c)'
  BY DEF CoverInv
<1>1. ~ Kill /\ kills = 0
  <2>1. kills \in Nat
    BY Bounds DEF TypeInv, TypeOK
  <2>2. ~ Kill
    BY <2>1 DEF Kill
  <2> QED
    BY <2>2 DEF CrashNext, FaultNext, Next, ServerStep, ClientStep, vars, Poll, Fill, FillEnd,
                TransmitNothing, Transmit, Spin, TransmitEnd, Recv, TxRequest, Reply, Complete,
                TransferError, ChannelError, Launch, RestartDma
<1>2. Covered(c) /\ ~ Launch /\ ~ RestartDma
  BY <1>1 DEF CoverInv, HaltInv, Launch, RestartDma
<1>3. \A r \in TxInputs : TxRequest(r) => Covered(c)'
  BY <1>2, RequestKeepsCovered
<1>4. CASE Complete
  BY <1>2, <1>4, CompleteKeepsCovered
<1>5. CASE Poll
  <2>1. wire' = wire /\ accepted' = accepted /\ mode' = mode
    BY <1>5, PollSteps
  <2> QED
    BY <1>2, <1>5, <2>1, PollKeepsWay, CoveredKept
<1>6. CASE Fill
  <2>1. wire' = wire /\ accepted' = accepted /\ mode' = mode
    BY <1>6 DEF Fill, historyVars
  <2> QED
    BY <1>2, <1>6, <2>1, FillKeepsWay, CoveredKept
<1>7. CASE ~ Poll /\ ~ Fill /\ (\A r \in TxInputs : ~ TxRequest(r)) /\ ~ Complete
  <2>1. /\ UNCHANGED <<wire, word, output, unwritten, accepted>>
        /\ Queue(c)' = Queue(c)
    BY <1>2, <1>7, WordsKept
  <2>2. mode' # "halted" => \A d \in Ring : InFlight(d) => InFlight(d)'
    BY <1>1, <1>2, <1>7, FlightKept
  <2>3. mode' # "halted" => OnTheWay(c) \subseteq OnTheWay(c)'
    BY <2>1, <2>2 DEF OnTheWay, Holds
  <2>4. mode' # "halted" => mode # "halted"
    BY <1>2, <1>7
    DEF CrashNext, FaultNext, Next, ServerStep, ClientStep, vars, engineVars, FillEnd,
        TransmitNothing, Transmit, WriteTail, Spin, TransmitEnd, Recv, Reply, TransferError,
        ChannelError, EngineTransferError, EngineChannelError, Kill
  <2> QED
    BY <1>2, <2>1, <2>3, <2>4, CoveredKept
<1> QED
  BY <1>3, <1>4, <1>5, <1>6, <1>7

TxPathInv == TxOrderInv /\ HaltInv /\ CoverInv

LEMMA TxPathInit == Init => TxPathInv
BY TxOrderInit, InitCovered DEF TxPathInv

LEMMA TxPathStep == TxPathInv /\ [CrashNext]_vars => TxPathInv'
BY TxOrderStep, HaltStep, CoverStep DEF TxPathInv, TxOrderInv

(* As long as the server is not killed, what leaves for a channel is the    *)
(* beginning of what the TX buffer accepted for it, whatever errors stop    *)
(* the DMA: nothing is skipped or reordered (pacman.cc:192-209).            *)
THEOREM TransmitsInOrder == CrashSpec => []WireInOrder
<1>1. TxPathInv => WireInOrder
  <2> SUFFICES ASSUME TxPathInv, kills = 0, NEW c \in Chan
               PROVE  IsPrefix(wire[c], accepted[c])
    BY DEF WireInOrder
  <2>1. Covered(c)
    BY DEF TxPathInv, CoverInv
  <2>2. PICK s \in Seq(TxWord), t \in Seq(TxWord) : s = wire[c] /\ t = accepted[c]
    BY OrderTypes DEF TxPathInv, TxOrderInv
  <2>3. /\ Len(s) \in Nat /\ Len(t) \in Nat /\ Len(s) <= Len(t)
        /\ \A i \in 1 .. Len(s) : s[i] = t[i]
    BY <2>1, <2>2, LenProperties DEF Covered
  <2>4. \A i \in 1 .. Len(s) : s[i] \in TxWord /\ t[i] \in TxWord
    BY <2>3, ElementOfSeq
  <2> DEFINE a == SubSeq(s, 1, Len(s))
             b == SubSeq(t, 1, Len(s))
  <2>5. /\ a \in Seq(TxWord) /\ b \in Seq(TxWord)
        /\ Len(a) = Len(s) /\ Len(b) = Len(s)
    BY <2>3, <2>4, SubSeqProperties
  <2>6. \A i \in 1 .. Len(s) : a[i] = s[i] /\ b[i] = t[i]
    BY <2>3, <2>4, SubSeqProperties
  <2> HIDE DEF a, b
  <2>7. a = b
    BY <2>3, <2>5, <2>6, SeqEqual
  <2> QED
    BY <2>2, <2>3, <2>7 DEF IsPrefix, a, b
<1> QED
  BY <1>1, TxPathInit, TxPathStep, PTL DEF CrashSpec

(* Without errors and kills, when the next request is taken every word that *)
(* the TX buffer accepted has been transmitted and the buffer is empty,     *)
(* whatever was queued (pacman.cc:208 and 55).                              *)
THEOREM PollTransmitsAll == CrashSpec => []AllTransmittedBeforeRecv
<1>1. TxPathInv => AllTransmittedBeforeRecv
  <2> SUFFICES ASSUME TxPathInv, faults = 0, kills = 0, pc = "recv", NEW c \in Chan
               PROVE  wire[c] = accepted[c] /\ tx_buffer_count(c) = 0
    BY DEF AllTransmittedBeforeRecv
  <2> USE DEF TxPathInv, TxOrderInv
  <2>1. mode # "halted" /\ Covered(c)
    BY DEF HaltInv, CoverInv
  <2>2. Queue(c) = << >> /\ unwritten = {} /\ Len(Queue(c)) = 0
    BY EmptySeq DEF TypeInv, RoomInv
  <2>3. \A d \in Ring : ~ InFlight(d)
    BY DEF InFlight, Polling, TxRingInv, ChannelInv
  <2>4. OnTheWay(c) = {}
    <3>1. 1 .. Len(Queue(c)) = {}
      BY <2>2
    <3> QED
      BY <2>2, <2>3, <3>1 DEF OnTheWay, Holds, Among
  <2>5. /\ wire[c] \in Seq(TxWord) /\ accepted[c] \in Seq(TxWord)
        /\ Len(wire[c]) \in Nat /\ Len(accepted[c]) \in Nat
    BY OrderTypes, LenProperties
  <2>6. ASSUME Len(wire[c]) < Len(accepted[c]) PROVE FALSE
    <3>1. Len(accepted[c]) \in Len(wire[c]) + 1 .. Len(accepted[c])
      BY <2>5, <2>6
    <3> QED
      BY <2>1, <2>4, <3>1 DEF Covered
  <2>7. Len(wire[c]) = Len(accepted[c])
    BY <2>1, <2>5, <2>6 DEF Covered
  <2>8. wire[c] = accepted[c]
    BY <2>1, <2>5, <2>7, SeqEqual DEF Covered
  <2> QED
    BY <2>2, <2>8, QueueTypes DEF TypeInv, TypeOK
<1> QED
  BY <1>1, TxPathInit, TxPathStep, PTL DEF CrashSpec
=============================================================================
