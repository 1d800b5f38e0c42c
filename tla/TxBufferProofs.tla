--------------------------- MODULE TxBufferProofs ---------------------------
(***************************************************************************)
(* Proofs about the TX buffer, for any number of channels, rings of any    *)
(* depth and any words.                                                    *)
(***************************************************************************)
EXTENDS TxBuffer, SequenceTheorems, TLAPS

USE TxBufferAssumption

-----------------------------------------------------------------------------
(* Slots and the words of one ring. *)

Stored == TxWord \cup {NoWord}

\* A sum that is reduced exceeds the depth at most once.
LEMMA Reduced ==
  \A n \in 0 .. 2 * TX_BUFFER_DEPTH - 1 :
    n % TX_BUFFER_DEPTH = IF n < TX_BUFFER_DEPTH THEN n ELSE n - TX_BUFFER_DEPTH
OBVIOUS

LEMMA NextSlotStep ==
  ASSUME NEW s \in Slot
  PROVE  /\ NextSlot(s) \in Slot
         /\ NextSlot(s) = IF s = TX_BUFFER_DEPTH - 1 THEN 0 ELSE s + 1
BY Reduced DEF NextSlot, Slot

\* The number of words between the indices, and the words.
Count(head, tail) == (TX_BUFFER_DEPTH + head - tail) % TX_BUFFER_DEPTH
Content(data, head, tail) ==
  [i \in 1 .. Count(head, tail) |-> data[(tail + i - 1) % TX_BUFFER_DEPTH]]

LEMMA CountRange ==
  ASSUME NEW head \in Slot, NEW tail \in Slot
  PROVE  /\ Count(head, tail) \in 0 .. TX_BUFFER_DEPTH - 1
         /\ Count(head, tail) = IF tail <= head THEN head - tail
                                ELSE TX_BUFFER_DEPTH + head - tail
<1> DEFINE n == TX_BUFFER_DEPTH + head - tail
<1>1. n \in 0 .. 2 * TX_BUFFER_DEPTH - 1
  BY DEF Slot
<1> HIDE DEF n
<1>2. n % TX_BUFFER_DEPTH = IF n < TX_BUFFER_DEPTH THEN n ELSE n - TX_BUFFER_DEPTH
  BY <1>1, Reduced
<1> QED
  BY <1>2 DEF n, Count, Slot

LEMMA SlotOfWord ==
  ASSUME NEW tail \in Slot, NEW i \in 1 .. TX_BUFFER_DEPTH
  PROVE  /\ (tail + i - 1) % TX_BUFFER_DEPTH \in Slot
         /\ (tail + i - 1) % TX_BUFFER_DEPTH =
              IF tail + i - 1 < TX_BUFFER_DEPTH THEN tail + i - 1
              ELSE tail + i - 1 - TX_BUFFER_DEPTH
<1> DEFINE n == tail + i - 1
<1>1. n \in 0 .. 2 * TX_BUFFER_DEPTH - 1
  BY DEF Slot
<1> HIDE DEF n
<1>2. n % TX_BUFFER_DEPTH = IF n < TX_BUFFER_DEPTH THEN n ELSE n - TX_BUFFER_DEPTH
  BY <1>1, Reduced
<1> QED
  BY <1>1, <1>2 DEF n, Slot

LEMMA ContentIsSeq ==
  ASSUME NEW data \in [Slot -> Stored], NEW head \in Slot, NEW tail \in Slot
  PROVE  /\ Content(data, head, tail) \in Seq(Stored)
         /\ Len(Content(data, head, tail)) = Count(head, tail)
<1>1. Count(head, tail) \in Nat /\ Count(head, tail) <= TX_BUFFER_DEPTH
  BY CountRange
<1>2. \A i \in 1 .. Count(head, tail) : data[(tail + i - 1) % TX_BUFFER_DEPTH] \in Stored
  BY <1>1, SlotOfWord
<1>3. Content(data, head, tail) \in [1 .. Count(head, tail) -> Stored]
  BY <1>2 DEF Content
<1>4. Content(data, head, tail) \in Seq(Stored)
  BY <1>1, <1>3
<1> QED
  BY <1>1, <1>4 DEF Content

\* The ring is full one word before its indices would meet.
LEMMA FullRing ==
  ASSUME NEW head \in Slot, NEW tail \in Slot
  PROVE  NextSlot(head) = tail <=> Count(head, tail) = TX_BUFFER_DEPTH - 1
<1>1. Count(head, tail) = IF tail <= head THEN head - tail
                          ELSE TX_BUFFER_DEPTH + head - tail
  BY CountRange
<1>2. NextSlot(head) = IF head = TX_BUFFER_DEPTH - 1 THEN 0 ELSE head + 1
  BY NextSlotStep
<1> QED
  BY <1>1, <1>2 DEF Slot

\* A ring that is not full has one word more after a call of tx_buffer_in, and
\* one that is not empty one less after a call of tx_buffer_out.
LEMMA CountStep ==
  ASSUME NEW head \in Slot, NEW tail \in Slot
  PROVE  /\ NextSlot(head) # tail => Count(NextSlot(head), tail) = Count(head, tail) + 1
         /\ Count(head, tail) > 0 => Count(head, NextSlot(tail)) = Count(head, tail) - 1
<1>1. Count(head, tail) = IF tail <= head THEN head - tail
                          ELSE TX_BUFFER_DEPTH + head - tail
  BY CountRange
<1>2. /\ NextSlot(head) \in Slot
      /\ NextSlot(head) = IF head = TX_BUFFER_DEPTH - 1 THEN 0 ELSE head + 1
      /\ NextSlot(tail) \in Slot
      /\ NextSlot(tail) = IF tail = TX_BUFFER_DEPTH - 1 THEN 0 ELSE tail + 1
  BY NextSlotStep
<1>3. Count(NextSlot(head), tail) = IF tail <= NextSlot(head) THEN NextSlot(head) - tail
                                    ELSE TX_BUFFER_DEPTH + NextSlot(head) - tail
  BY <1>2, CountRange
<1>4. Count(head, NextSlot(tail)) = IF NextSlot(tail) <= head THEN head - NextSlot(tail)
                                    ELSE TX_BUFFER_DEPTH + head - NextSlot(tail)
  BY <1>2, CountRange
<1> QED
  BY <1>1, <1>2, <1>3, <1>4 DEF Slot

\* What a call of tx_buffer_in does to the words of a ring that is not full.
LEMMA PutContent ==
  ASSUME NEW data \in [Slot -> Stored], NEW head \in Slot, NEW tail \in Slot,
         NEW w \in Stored, NextSlot(head) # tail
  PROVE  Content([data EXCEPT ![head] = w], NextSlot(head), tail)
           = Append(Content(data, head, tail), w)
<1> DEFINE old == Content(data, head, tail)
           new == Content([data EXCEPT ![head] = w], NextSlot(head), tail)
           n == Count(head, tail)
<1>1. NextSlot(head) \in Slot /\ n \in 0 .. TX_BUFFER_DEPTH - 1
  BY NextSlotStep, CountRange
<1>2. Count(NextSlot(head), tail) = n + 1
  BY <1>1, CountStep
<1>3. old \in Seq(Stored) /\ Len(old) = n
  BY ContentIsSeq
<1>4. new \in Seq(Stored) /\ Len(new) = n + 1
  <2>1. [data EXCEPT ![head] = w] \in [Slot -> Stored]
    OBVIOUS
  <2> QED
    BY <1>1, <1>2, <2>1, ContentIsSeq
<1>5. /\ Append(old, w) \in Seq(Stored) /\ Len(Append(old, w)) = n + 1
      /\ \A i \in 1 .. n : Append(old, w)[i] = old[i]
      /\ Append(old, w)[n + 1] = w
  BY <1>3, AppendProperties
<1>6. ASSUME NEW i \in 1 .. n + 1
      PROVE  new[i] = Append(old, w)[i]
  <2> DEFINE s == (tail + i - 1) % TX_BUFFER_DEPTH
  <2>1. s \in Slot /\ (s = head <=> i = n + 1)
    <3>1. s \in Slot /\ s = IF tail + i - 1 < TX_BUFFER_DEPTH THEN tail + i - 1
                           ELSE tail + i - 1 - TX_BUFFER_DEPTH
      BY <1>1, SlotOfWord
    <3>2. n = IF tail <= head THEN head - tail ELSE TX_BUFFER_DEPTH + head - tail
      BY CountRange
    <3> HIDE DEF s, n
    <3> QED
      BY <1>1, <3>1, <3>2 DEF Slot
  <2>2. new[i] = [data EXCEPT ![head] = w][s]
    BY <1>2 DEF Content
  <2>3. CASE i = n + 1
    BY <1>5, <2>1, <2>2, <2>3
  <2>4. CASE i # n + 1
    <3>1. i \in 1 .. n
      BY <1>1, <2>4
    <3>2. old[i] = data[s]
      BY <3>1 DEF Content
    <3> QED
      BY <1>5, <2>1, <2>2, <2>4, <3>1, <3>2
  <2> QED
    BY <2>3, <2>4
<1> HIDE DEF old, new, n
<1>7. new = Append(old, w)
  BY <1>4, <1>5, <1>6, SeqEqual
<1> QED
  BY <1>7 DEF old, new

\* What a call of tx_buffer_out does to the words of a ring that is not empty.
LEMMA TakeContent ==
  ASSUME NEW data \in [Slot -> Stored], NEW head \in Slot, NEW tail \in Slot,
         Count(head, tail) > 0
  PROVE  /\ Content(data, head, tail) # << >>
         /\ Content(data, head, tail)[1] = data[tail]
         /\ Content(data, head, NextSlot(tail)) = Tail(Content(data, head, tail))
<1> DEFINE old == Content(data, head, tail)
           new == Content(data, head, NextSlot(tail))
           n == Count(head, tail)
<1>1. NextSlot(tail) \in Slot /\ n \in 1 .. TX_BUFFER_DEPTH - 1
  BY NextSlotStep, CountRange
<1>2. Count(head, NextSlot(tail)) = n - 1
  BY <1>1, CountStep
<1>3. old \in Seq(Stored) /\ Len(old) = n /\ old # << >>
  BY <1>1, ContentIsSeq, EmptySeq
<1>4. old[1] = data[tail]
  <2>1. (tail + 1 - 1) % TX_BUFFER_DEPTH = tail
    BY SlotOfWord DEF Slot
  <2> QED
    BY <1>1, <2>1 DEF Content
<1>5. new \in Seq(Stored) /\ Len(new) = n - 1
  BY <1>1, <1>2, ContentIsSeq
<1>6. /\ Tail(old) \in Seq(Stored) /\ Len(Tail(old)) = n - 1
      /\ \A i \in 1 .. n - 1 : Tail(old)[i] = old[i + 1]
  BY <1>3, HeadTailProperties
<1>7. ASSUME NEW i \in 1 .. n - 1
      PROVE  new[i] = Tail(old)[i]
  <2> DEFINE j == i + 1
  <2>1. j \in 1 .. n /\ j \in 1 .. TX_BUFFER_DEPTH /\ j = i + 1
    BY <1>1
  <2> HIDE DEF j
  <2>2. (NextSlot(tail) + i - 1) % TX_BUFFER_DEPTH = (tail + j - 1) % TX_BUFFER_DEPTH
    <3>1. NextSlot(tail) = IF tail = TX_BUFFER_DEPTH - 1 THEN 0 ELSE tail + 1
      BY NextSlotStep
    <3>2. (NextSlot(tail) + i - 1) % TX_BUFFER_DEPTH =
            IF NextSlot(tail) + i - 1 < TX_BUFFER_DEPTH THEN NextSlot(tail) + i - 1
            ELSE NextSlot(tail) + i - 1 - TX_BUFFER_DEPTH
      BY <1>1, SlotOfWord
    <3>3. (tail + j - 1) % TX_BUFFER_DEPTH =
            IF tail + j - 1 < TX_BUFFER_DEPTH THEN tail + j - 1
            ELSE tail + j - 1 - TX_BUFFER_DEPTH
      BY <1>1, <2>1, SlotOfWord
    <3> HIDE DEF n
    <3> QED
      BY <1>1, <2>1, <3>1, <3>2, <3>3 DEF Slot
  <2>3. new[i] = data[(NextSlot(tail) + i - 1) % TX_BUFFER_DEPTH]
    BY <1>2 DEF Content
  <2>4. old[j] = data[(tail + j - 1) % TX_BUFFER_DEPTH]
    BY <2>1 DEF Content
  <2> QED
    BY <1>6, <2>1, <2>2, <2>3, <2>4
<1> HIDE DEF old, new, n
<1>8. new = Tail(old)
  BY <1>5, <1>6, <1>7, SeqEqual
<1> QED
  BY <1>3, <1>4, <1>8 DEF old, new

-----------------------------------------------------------------------------
(* Type correctness. *)

\* A channel argument that passes the guard of tx_buffer_in is a channel.
LEMMA InputIsChannel == \A c \in TxInputs : ~ (c > TX_BUFFER_CHAN) <=> c \in Chan
BY DEF Chan

LEMMA BufferTypeInit == tx_buffer_init => BufferTypeOK
<1> SUFFICES ASSUME tx_buffer_init PROVE BufferTypeOK
  OBVIOUS
<1>1. 0 \in Slot
  BY DEF Slot
<1>2. G_TX_BUFFER_DATA \in [Chan -> [Slot -> TxWord \cup {NoWord}]]
  BY DEF tx_buffer_init, EmptyData
<1>3. G_TX_BUFFER_HEAD \in [Chan -> Slot] /\ G_TX_BUFFER_TAIL \in [Chan -> Slot]
  BY <1>1 DEF tx_buffer_init, ZeroIndex
<1>4. output \in [mask : SUBSET Chan, data : [Chan -> TxWord \cup {NoWord}]]
  BY DEF tx_buffer_init, NoOutput
<1> QED
  BY <1>2, <1>3, <1>4 DEF tx_buffer_init, BufferTypeOK

LEMMA InTypes ==
  ASSUME BufferTypeOK, NEW c \in TxInputs, NEW w \in TxWord, tx_buffer_in(c, w)
  PROVE  BufferTypeOK'
<1>1. CASE c > TX_BUFFER_CHAN \/ Full(c)
  BY <1>1 DEF tx_buffer_in, BufferTypeOK
<1>2. CASE ~ (c > TX_BUFFER_CHAN \/ Full(c))
  <2>1. c \in Chan
    BY <1>2, InputIsChannel
  <2>2. NextSlot(G_TX_BUFFER_HEAD[c]) \in Slot
    BY <2>1, NextSlotStep DEF BufferTypeOK
  <2>3. G_TX_BUFFER_HEAD' \in [Chan -> Slot]
    BY <1>2, <2>2 DEF tx_buffer_in, BufferTypeOK
  <2>4. G_TX_BUFFER_DATA' \in [Chan -> [Slot -> TxWord \cup {NoWord}]]
    BY <1>2 DEF tx_buffer_in, BufferTypeOK
  <2> QED
    BY <1>2, <2>3, <2>4 DEF tx_buffer_in, BufferTypeOK
<1> QED
  BY <1>1, <1>2

LEMMA OutTypes ==
  ASSUME BufferTypeOK, tx_buffer_out
  PROVE  BufferTypeOK'
<1> DEFINE mask == {c \in Chan : tx_buffer_count(c) > 0}
<1>1. CASE mask = {}
  BY <1>1 DEF tx_buffer_out, BufferTypeOK
<1>2. CASE mask # {}
  <2>1. \A c \in Chan : NextSlot(G_TX_BUFFER_TAIL[c]) \in Slot
    BY NextSlotStep DEF BufferTypeOK
  <2>2. G_TX_BUFFER_TAIL' \in [Chan -> Slot]
    BY <1>2, <2>1 DEF tx_buffer_out, BufferTypeOK
  <2>3. \A c \in Chan : Oldest(c) \in TxWord \cup {NoWord}
    BY DEF Oldest, BufferTypeOK
  <2>4. output' \in [mask : SUBSET Chan, data : [Chan -> TxWord \cup {NoWord}]]
    BY <1>2, <2>3 DEF tx_buffer_out
  <2> QED
    BY <1>2, <2>2, <2>4 DEF tx_buffer_out, BufferTypeOK
<1> QED
  BY <1>1, <1>2

LEMMA BufferTypeStep == BufferTypeOK /\ [BufferNext]_bufferVars => BufferTypeOK'
BY InTypes, OutTypes DEF BufferNext, bufferVars, BufferTypeOK

(* No call of tx_buffer_in or tx_buffer_out, in any order, moves an index   *)
(* out of its ring (tx_buffer.cc:61 and 92).                                *)
THEOREM BufferTypes == BufferSpec => []BufferTypeOK
<1>1. BufferTypeOK /\ [BufferNext]_bufferVars => BufferTypeOK'
  BY BufferTypeStep
<1> QED
  BY <1>1, BufferTypeInit, PTL DEF BufferSpec

-----------------------------------------------------------------------------
(* The buffer implements the queues. *)

LEMMA QueueIsContent ==
  \A c \in Chan :
    /\ Queue(c) = Content(G_TX_BUFFER_DATA[c], G_TX_BUFFER_HEAD[c], G_TX_BUFFER_TAIL[c])
    /\ tx_buffer_count(c) = Count(G_TX_BUFFER_HEAD[c], G_TX_BUFFER_TAIL[c])
BY DEF Queue, tx_buffer_count, Content, Count, Chan

LEMMA QueueIsContentNext ==
  \A c \in Chan :
    Queue(c)' = Content(G_TX_BUFFER_DATA'[c], G_TX_BUFFER_HEAD'[c], G_TX_BUFFER_TAIL'[c])
BY DEF Queue, tx_buffer_count, Content, Count, Chan

\* The data, the head and the tail of a channel are what the lemmas above say.
LEMMA ChannelTypes ==
  ASSUME BufferTypeOK, NEW c \in Chan
  PROVE  /\ G_TX_BUFFER_DATA[c] \in [Slot -> Stored]
         /\ G_TX_BUFFER_HEAD[c] \in Slot
         /\ G_TX_BUFFER_TAIL[c] \in Slot
BY DEF BufferTypeOK, Stored

LEMMA QueueLength ==
  ASSUME BufferTypeOK, NEW c \in Chan
  PROVE  /\ Queue(c) \in Seq(Stored)
         /\ Len(Queue(c)) = tx_buffer_count(c)
         /\ tx_buffer_count(c) \in 0 .. TX_BUFFER_DEPTH - 1
         /\ Full(c) <=> Len(Queue(c)) = TX_BUFFER_DEPTH - 1
         /\ tx_buffer_count(c) > 0 <=> Queue(c) # << >>
<1> DEFINE head == G_TX_BUFFER_HEAD[c]
           tail == G_TX_BUFFER_TAIL[c]
<1>1. G_TX_BUFFER_DATA[c] \in [Slot -> Stored] /\ head \in Slot /\ tail \in Slot
  BY ChannelTypes
<1>2. Queue(c) \in Seq(Stored) /\ Len(Queue(c)) = Count(head, tail)
  BY <1>1, QueueIsContent, ContentIsSeq
<1>3. Count(head, tail) \in 0 .. TX_BUFFER_DEPTH - 1
  BY <1>1, CountRange
<1>4. tx_buffer_count(c) = Count(head, tail)
  BY QueueIsContent
<1>5. Full(c) <=> Count(head, tail) = TX_BUFFER_DEPTH - 1
  BY <1>1, FullRing DEF Full
<1>6. Queue(c) # << >> <=> Len(Queue(c)) > 0
  BY <1>2, <1>3, EmptySeq
<1> QED
  BY <1>2, <1>3, <1>4, <1>5, <1>6

LEMMA InImplementsPut ==
  ASSUME BufferTypeOK, NEW c \in TxInputs, NEW w \in TxWord, tx_buffer_in(c, w)
  PROVE  Queues!Put(c, w) \/ Queues!Refuse(c)
<1> DEFINE queue == [d \in Chan |-> Queue(d)]
<1>1. CASE c > TX_BUFFER_CHAN \/ Full(c)
  <2>1. c \in Chan => Len(queue[c]) = TX_BUFFER_DEPTH - 1
    BY <1>1, InputIsChannel, QueueLength
  <2>2. UNCHANGED <<queue, output>> /\ ret' = 0
    BY <1>1, QueueIsContent, QueueIsContentNext DEF tx_buffer_in
  <2> QED
    BY <2>1, <2>2 DEF Queues!Refuse
<1>2. CASE ~ (c > TX_BUFFER_CHAN \/ Full(c))
  <2> DEFINE head == G_TX_BUFFER_HEAD[c]
             tail == G_TX_BUFFER_TAIL[c]
             data == G_TX_BUFFER_DATA[c]
  <2>1. c \in Chan /\ NextSlot(head) # tail
    BY <1>2, InputIsChannel DEF Full
  <2>2. data \in [Slot -> Stored] /\ head \in Slot /\ tail \in Slot /\ w \in Stored
    BY <2>1, ChannelTypes DEF Stored
  <2>3. Len(queue[c]) < TX_BUFFER_DEPTH - 1
    BY <1>2, <2>1, QueueLength
  <2>4. /\ G_TX_BUFFER_DATA'[c] = [data EXCEPT ![head] = w]
        /\ G_TX_BUFFER_HEAD'[c] = NextSlot(head)
        /\ G_TX_BUFFER_TAIL'[c] = tail
        /\ \A d \in Chan \ {c} : /\ G_TX_BUFFER_DATA'[d] = G_TX_BUFFER_DATA[d]
                                 /\ G_TX_BUFFER_HEAD'[d] = G_TX_BUFFER_HEAD[d]
                                 /\ G_TX_BUFFER_TAIL'[d] = G_TX_BUFFER_TAIL[d]
    BY <1>2, <2>1 DEF tx_buffer_in, BufferTypeOK
  <2>5. Queue(c)' = Append(Queue(c), w)
    <3> HIDE DEF head, tail, data
    <3>1. Content([data EXCEPT ![head] = w], NextSlot(head), tail)
            = Append(Content(data, head, tail), w)
      BY <2>1, <2>2, PutContent
    <3>2. Queue(c) = Content(data, head, tail)
      BY <2>1, QueueIsContent DEF head, tail, data
    <3> QED
      BY <2>1, <2>4, <3>1, <3>2, QueueIsContentNext
  <2>6. \A d \in Chan \ {c} : Queue(d)' = Queue(d)
    BY <2>4, QueueIsContent, QueueIsContentNext
  <2>7. queue' = [queue EXCEPT ![c] = Append(@, w)]
    BY <2>1, <2>5, <2>6
  <2>8. ret' = 1 /\ UNCHANGED output
    BY <1>2 DEF tx_buffer_in
  <2> QED
    BY <2>1, <2>3, <2>7, <2>8 DEF Queues!Put
<1> QED
  BY <1>1, <1>2

LEMMA OutImplementsTake ==
  ASSUME BufferTypeOK, tx_buffer_out
  PROVE  Queues!TakeAll \/ Queues!TakeNone
<1> DEFINE queue == [d \in Chan |-> Queue(d)]
           mask == {c \in Chan : tx_buffer_count(c) > 0}
<1>1. mask = {c \in Chan : queue[c] # << >>}
  BY QueueLength
<1>2. CASE mask = {}
  <2>1. UNCHANGED <<queue, output>> /\ ret' = 0
    BY <1>2, QueueIsContent, QueueIsContentNext DEF tx_buffer_out
  <2> QED
    BY <1>1, <1>2, <2>1 DEF Queues!TakeNone
<1>3. CASE mask # {}
  <2>1. /\ UNCHANGED <<G_TX_BUFFER_DATA, G_TX_BUFFER_HEAD>>
        /\ \A c \in Chan : G_TX_BUFFER_TAIL'[c] = IF c \in mask
                                                  THEN NextSlot(G_TX_BUFFER_TAIL[c])
                                                  ELSE G_TX_BUFFER_TAIL[c]
        /\ output' = [mask |-> mask,
                      data |-> [c \in Chan |-> IF c \in mask THEN Oldest(c) ELSE NoWord]]
        /\ ret' = 1
    BY <1>3 DEF tx_buffer_out
  <2>2. ASSUME NEW c \in mask
        PROVE  Oldest(c) = Queue(c)[1] /\ Queue(c)' = Tail(Queue(c))
    <3> DEFINE head == G_TX_BUFFER_HEAD[c]
               tail == G_TX_BUFFER_TAIL[c]
               data == G_TX_BUFFER_DATA[c]
    <3>1. c \in Chan /\ Count(head, tail) > 0
      BY QueueIsContent
    <3>2. data \in [Slot -> Stored] /\ head \in Slot /\ tail \in Slot
      BY <3>1, ChannelTypes
    <3>3. Queue(c) = Content(data, head, tail)
      BY <3>1, QueueIsContent
    <3>4. Queue(c)' = Content(data, head, NextSlot(tail))
      BY <2>1, <3>1, QueueIsContentNext
    <3>5. Oldest(c) = data[tail]
      BY DEF Oldest
    <3> HIDE DEF head, tail, data
    <3> QED
      BY <3>1, <3>2, <3>3, <3>4, <3>5, TakeContent
  <2>3. \A c \in Chan \ mask : Queue(c)' = Queue(c) /\ Queue(c) = << >>
    BY <1>1, <2>1, QueueIsContent, QueueIsContentNext
  <2> HIDE DEF mask
  <2>4. queue' = [c \in Chan |-> IF c \in mask THEN Tail(queue[c]) ELSE << >>]
    BY <2>2, <2>3
  <2>5. output' = [mask |-> mask,
                   data |-> [c \in Chan |-> IF c \in mask THEN queue[c][1] ELSE 0]]
    BY <2>1, <2>2 DEF NoWord
  <2> QED
    BY <1>1, <1>3, <2>1, <2>4, <2>5 DEF Queues!TakeAll, Queues!NoWord
<1> QED
  BY <1>2, <1>3

(* Every call of tx_buffer_in and tx_buffer_out does to the words of the    *)
(* rings what module TxQueues says of its queues, for rings of any depth    *)
(* and however often the indices have wrapped (tx_buffer.cc:52, 61, 92).    *)
THEOREM BufferImplementsQueues == BufferSpec => ImplementsQueues
<1>1. tx_buffer_init => Queues!QueuesInit
  <2> SUFFICES ASSUME tx_buffer_init PROVE Queues!QueuesInit
    OBVIOUS
  <2>1. \A c \in Chan : Queue(c) = << >>
    <3>1. \A c \in Chan : tx_buffer_count(c) = 0
      <4>1. TX_BUFFER_DEPTH % TX_BUFFER_DEPTH = 0
        BY Reduced
      <4> QED
        BY <4>1 DEF tx_buffer_count, tx_buffer_init, ZeroIndex
    <3> QED
      BY <3>1, BufferTypeInit, QueueLength
  <2> QED
    BY <2>1 DEF Queues!QueuesInit, tx_buffer_init, NoOutput, NoWord, Queues!NoWord
<1>2. BufferTypeOK /\ [BufferNext]_bufferVars => [Queues!QueuesNext]_(Queues!queueVars)
  <2> SUFFICES ASSUME BufferTypeOK, [BufferNext]_bufferVars
               PROVE  [Queues!QueuesNext]_(Queues!queueVars)
    OBVIOUS
  <2>1. ASSUME NEW c \in TxInputs, NEW w \in TxWord, tx_buffer_in(c, w)
        PROVE  Queues!QueuesNext
    BY <2>1, InImplementsPut DEF Queues!QueuesNext
  <2>2. CASE tx_buffer_out
    BY <2>2, OutImplementsTake DEF Queues!QueuesNext
  <2>3. CASE UNCHANGED bufferVars
    BY <2>3, QueueIsContent, QueueIsContentNext DEF bufferVars, Queues!queueVars
  <2> QED
    BY <2>1, <2>2, <2>3 DEF BufferNext
<1>3. BufferTypeOK /\ [BufferNext]_bufferVars => BufferTypeOK'
  BY BufferTypeStep
<1> QED
  BY <1>1, <1>2, <1>3, BufferTypeInit, PTL DEF BufferSpec, ImplementsQueues, Queues!QueuesSpec
=============================================================================
