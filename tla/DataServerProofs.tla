-------------------------- MODULE DataServerProofs --------------------------
(***************************************************************************)
(* Proofs about the data server, for a ring of any size, messages of any   *)
(* length and any number of packets, errors and restarts: its types, its   *)
(* agreement with the channel about the ring, that it implements the data  *)
(* stream, that messages stay intact, that each packet is published once,  *)
(* and that a clean restart of the channel loses none.                     *)
(***************************************************************************)
EXTENDS DataServerProps, DmaRingProofs, SequenceTheorems, TLAPS

-----------------------------------------------------------------------------
(* Type correctness. *)

\* TypeOK is inductive once the collecting loop is known to stop at the longest
\* message.
RoomForWord == pc \in {"collect", "check", "restart_dma"} => words < MAX_MSG_LEN
TypeInv == TypeOK /\ RoomForWord

USE DataServerAssumption, RingSizeAssumption

\* What a memory without packets or messages is.
LEMMA Empty ==
  /\ << >> \in Message /\ << >> \in Seq(Message) /\ << >> \in Seq(Payload)
  /\ Len(<< >>) <= HWM
  /\ [d \in Ring |-> {}] \in [Ring -> SUBSET StatBits]
  /\ [d \in Ring |-> Garbage] \in [Ring -> Payload]
  /\ [hdr |-> 0, body |-> [i \in 1 .. MAX_MSG_LEN |-> Garbage]]
       \in [hdr : 0 .. MAX_MSG_LEN, body : [1 .. MAX_MSG_LEN -> Payload]]
<1>1. Garbage \in Payload
  BY DEF Garbage, Payload
<1>2. << >> \in Message /\ << >> \in Seq(Message) /\ << >> \in Seq(Payload)
  BY EmptySeq DEF Message
<1>3. Len(<< >>) <= HWM
  BY EmptySeq
<1>4. [d \in Ring |-> {}] \in [Ring -> SUBSET StatBits]
  OBVIOUS
<1>5. [d \in Ring |-> Garbage] \in [Ring -> Payload]
  BY <1>1
<1>6. [hdr |-> 0, body |-> [i \in 1 .. MAX_MSG_LEN |-> Garbage]]
        \in [hdr : 0 .. MAX_MSG_LEN, body : [1 .. MAX_MSG_LEN -> Payload]]
  BY <1>1
<1> QED
  BY <1>2, <1>3, <1>4, <1>5, <1>6

LEMMA MaxLen == MAX_MSG_LEN \in Nat /\ MAX_MSG_LEN >= 1
OBVIOUS

LEMMA Zero ==
  /\ 0 \in 0 .. MAX_MSG_LEN /\ 0 \in 0 .. MAX_PACKETS
  /\ 0 \in 0 .. MAX_FAULTS /\ 0 \in 0 .. MAX_KILLS
OBVIOUS

\* The words copied into the buffer are a message.
LEMMA BufferIsMessage ==
  ASSUME NEW body \in [1 .. MAX_MSG_LEN -> Payload], NEW n \in 0 .. MAX_MSG_LEN
  PROVE  /\ SubSeq(body, 1, n) \in Message
         /\ Len(SubSeq(body, 1, n)) = n
         /\ \A i \in 1 .. n : SubSeq(body, 1, n)[i] = body[i]
<1>1. \A i \in 1 .. n : body[i] \in Payload
  BY MaxLen
<1>2. /\ SubSeq(body, 1, n) \in Seq(Payload)
      /\ Len(SubSeq(body, 1, n)) = IF 1 <= n THEN n - 1 + 1 ELSE 0
      /\ \A i \in 1 .. n - 1 + 1 : SubSeq(body, 1, n)[i] = body[1 + i - 1]
  BY <1>1, SubSeqProperties, MaxLen
<1>3. Len(SubSeq(body, 1, n)) = n
  BY <1>2, MaxLen
<1>4. \A i \in 1 .. n : i \in 1 .. n - 1 + 1 /\ 1 + i - 1 = i
  BY MaxLen
<1> QED
  BY <1>2, <1>3, <1>4, MaxLen DEF Message

LEMMA TypeInit == Init => TypeInv
<1> SUFFICES ASSUME Init PROVE TypeInv
  OBVIOUS
<1>1. EngineTypeOK
  BY Empty, RingClosed, RingEnds DEF Init, EngineInit, EngineTypeOK
<1>2. TypeOK
  <2>1. [hdr |-> 0, got |-> <<>>, want |-> <<>>]
          \in [hdr : 0 .. MAX_MSG_LEN, got : Message, want : Message]
    BY Empty, MaxLen
  <2> QED
    BY <1>1, <2>1, Empty, RingEnds, Zero DEF Init, TypeOK, ServerPc
<1> QED
  BY <1>2, MaxLen DEF Init, TypeInv, RoomForWord

LEMMA RoomStep == TypeInv /\ [AnyNext]_vars => RoomForWord'
<1> SUFFICES ASSUME TypeInv, [AnyNext]_vars PROVE RoomForWord'
  OBVIOUS
<1> USE MaxLen DEF TypeInv, RoomForWord
<1>1. CASE Collect
  BY <1>1 DEF Collect, CollectBreak, TypeOK
<1>2. CASE Send \/ Launch
  BY <1>2 DEF Send, Launch
<1>3. CASE Check \/ RestartDma
  BY <1>3 DEF Check, RestartDma
<1>4. CASE CollectEnd \/ Compose \/ CopyWord \/ UpdateTail \/ Kill
  BY <1>4 DEF CollectEnd, Compose, CopyWord, UpdateTail, Kill
<1>5. CASE UNCHANGED serverVars
  BY <1>5 DEF serverVars
<1> QED
  BY <1>1, <1>2, <1>3, <1>4, <1>5
  DEF AnyNext, FaultNext, CrashNext, SlowNext, NominalNext, ServerStep, ChannelStep,
      SubscriberStep, Receive, StaleFetch, IoSend, Subscribe, Unsubscribe, Expire,
      TransferError, ChannelError, vars

LEMMA TypeStep == TypeInv /\ [AnyNext]_vars => TypeOK'
<1> SUFFICES ASSUME TypeInv, [AnyNext]_vars PROVE TypeOK'
  OBVIOUS
<1> USE DEF TypeInv, TypeOK, EngineTypeOK
<1>1. CASE Collect
  BY <1>1, RingClosed, MaxLen
  DEF Collect, CollectBreak, RoomForWord, engineVars, zmqVars, countVars, ServerPc
<1>2. CASE CollectEnd
  BY <1>2 DEF CollectEnd, engineVars, zmqVars, countVars, ServerPc
<1>3. CASE Compose
  <2>1. msg_buffer' \in [hdr : 0 .. MAX_MSG_LEN, body : [1 .. MAX_MSG_LEN -> Payload]]
    BY <1>3 DEF Compose
  <2> QED
    BY <1>3, <2>1, Zero DEF Compose, engineVars, zmqVars, countVars, ServerPc
<1>4. CASE CopyWord
  <2>1. stat' \in [Ring -> SUBSET StatBits] /\ err' \in BOOLEAN
    BY <1>4 DEF CopyWord, ClearStat
  <2>2. msg_buffer' \in [hdr : 0 .. MAX_MSG_LEN, body : [1 .. MAX_MSG_LEN -> Payload]]
    BY <1>4 DEF CopyWord, WordToCopy
  <2>3. word_idx' \in 0 .. MAX_MSG_LEN
    BY <1>4 DEF CopyWord
  <2> QED
    BY <1>4, <2>1, <2>2, <2>3, RingClosed DEF CopyWord, zmqVars, countVars
<1>5. CASE UpdateTail
  BY <1>5, RingClosed DEF UpdateTail, NewTail, WriteTail, zmqVars, countVars, ServerPc
<1>6. CASE Send
  <2> DEFINE message == SubSeq(msg_buffer.body, 1, words)
  <2>1. message \in Message
    BY BufferIsMessage
  <2>2. Len(pipe) < HWM =>
           Append(pipe, message) \in Seq(Message) /\ Len(Append(pipe, message)) <= HWM
    BY <2>1, AppendProperties
  <2>3. published \o message \in Seq(Payload)
    BY <2>1, ConcatProperties DEF Message
  <2> HIDE DEF message
  <2>4. pipe' \in Seq(Message) /\ Len(pipe') <= HWM /\ msg_ready' \in BOOLEAN
    BY <1>6, <2>2 DEF Send, message
  <2> QED
    BY <1>6, <2>3, <2>4, Zero DEF Send, message, engineVars, countVars, ServerPc
<1>7. CASE Check
  BY <1>7, RingClosed
  DEF Check, RestartPoint, NewTail, RestartAtWithTail, zmqVars, countVars, ServerPc
<1>8. CASE Receive
  <2>1. received' \in Payload
    BY <1>8 DEF Receive, Payload
  <2> QED
    BY <1>8, <2>1, RingClosed
    DEF Receive, EngineComplete, serverVars, zmqVars, countVars, StatBits
<1>9. CASE StaleFetch
  BY <1>9 DEF StaleFetch, EngineStaleFetch, serverVars, zmqVars, countVars
<1>10. CASE IoSend
  <2>1. Head(pipe) \in Message /\ Tail(pipe) \in Seq(Message)
          /\ Len(Tail(pipe)) = Len(pipe) - 1
    BY <1>10, HeadTailProperties DEF IoSend
  <2>2. Len(Head(pipe)) \in 0 .. MAX_MSG_LEN
    BY <2>1, LenProperties DEF Message
  <2>3. SubSeq(msg_buffer.body, 1, Len(Head(pipe))) \in Message
    BY <2>2, BufferIsMessage
  <2>4. Len(Tail(pipe)) <= HWM
    BY <2>1, LenProperties
  <2> QED
    BY <1>10, <2>1, <2>3, <2>4 DEF IoSend, engineVars, serverVars, countVars
<1>11. CASE Subscribe
  BY <1>11 DEF Subscribe, engineVars, serverVars, countVars
<1>12. CASE Unsubscribe
  BY <1>12, Empty DEF Unsubscribe, engineVars, serverVars, countVars
<1>13. CASE Expire
  BY <1>13 DEF Expire, engineVars, serverVars, zmqVars, countVars
<1>14. CASE TransferError
  <2>1. stat' \in [Ring -> SUBSET StatBits] /\ word' \in [Ring -> Payload]
    BY <1>14 DEF TransferError, EngineTransferError, StatBits, Payload, Garbage
  <2>2. faults' \in 0 .. MAX_FAULTS
    BY <1>14 DEF TransferError
  <2> QED
    BY <1>14, <2>1, <2>2 DEF TransferError, EngineTransferError, serverVars, zmqVars
<1>15. CASE ChannelError
  BY <1>15 DEF ChannelError, EngineChannelError, serverVars, zmqVars
<1>16. CASE Kill
  <2>1. kills' \in 0 .. MAX_KILLS
    BY <1>16 DEF Kill
  <2> QED
    BY <1>16, <2>1, Empty DEF Kill, engineVars, ServerPc
<1>17. CASE Launch
  BY <1>17, Empty, RingEnds, MaxLen DEF Launch, RingMemoryZeroed, countVars, ServerPc
<1>18. CASE RestartDma
  BY <1>18, RingClosed, RingEnds
  DEF RestartDma, RestartAtWithTail, zmqVars, countVars, ServerPc
<1>19. CASE UNCHANGED vars
  BY <1>19 DEF vars, engineVars, serverVars, zmqVars, countVars
<1> QED
  BY <1>1, <1>2, <1>3, <1>4, <1>5, <1>6, <1>7, <1>8, <1>9, <1>10, <1>11, <1>12,
     <1>13, <1>14, <1>15, <1>16, <1>17, <1>18, <1>19
  DEF AnyNext, FaultNext, CrashNext, SlowNext, NominalNext, ServerStep, ChannelStep,
      SubscriberStep

(* The data server is type correct whatever fails and however often it is   *)
(* restarted: no index leaves the ring or the message buffer                *)
(* (pacman_dataserver.cc:94-143).                                           *)
THEOREM TypeCorrect == AnySpec => []TypeOK
<1>1. TypeInv => TypeOK
  BY DEF TypeInv
<1>2. TypeInv /\ [AnyNext]_vars => TypeInv'
  BY TypeStep, RoomStep DEF TypeInv
<1> QED
  BY <1>1, <1>2, TypeInit, PTL DEF AnySpec

-----------------------------------------------------------------------------
(* The ring. *)

LEMMA RingInit == Init => RingInv
<1> SUFFICES ASSUME Init PROVE RingInv
  OBVIOUS
<1>1. Base = 0 /\ Filled = 0
  BY DEF Init, EngineInit, Base, Filled, NextOf, PrevOf, Dist
<1>2. \A d \in Ring : stat[d] = {} /\ Dist(0, d) >= 0
  BY DEF Init, EngineInit, Ring, Dist
<1> QED
  BY <1>1, <1>2
  DEF Init, EngineInit, RingInv, PointersInv, ChannelInv, StatInv, Dist, Ring

LEMMA RingStep == TypeInv /\ RingInv /\ [SlowNext]_vars => RingInv'
<1> SUFFICES ASSUME TypeInv, RingInv, [SlowNext]_vars PROVE RingInv'
  OBVIOUS
<1>0. /\ cur \in Ring /\ tail \in Ring /\ curr \in Ring /\ prev \in Ring
      /\ words \in Nat /\ word_idx \in Nat
      /\ mode \in {"halted", "idle", "busy"}
      /\ stat \in [Ring -> SUBSET StatBits]
  BY DEF TypeInv, TypeOK, EngineTypeOK
<1> USE <1>0 DEF RingInv, Base, Filled, NextOf, PrevOf, Dist, Ring
<1>1. CASE Collect
  <2>0. /\ pc = "collect" /\ "CMPLT" \in stat[curr]
        /\ curr' = NextOf(curr) /\ words' = words + 1
        /\ pc' = IF curr' = PrevOf(prev) \/ words' = MAX_MSG_LEN THEN "wait" ELSE "collect"
        /\ UNCHANGED <<stat, cur, tail, mode, irq, err, prev>>
    BY <1>1 DEF Collect, CollectBreak, engineVars, dma_desc_cmplt
  <2> USE <2>0
  <2>1. Dist(Base, curr) < Filled
    BY DEF StatInv
  <2>2. Base' = Base /\ Filled' = Filled
    OBVIOUS
  <2>3. Dist(Base, curr') <= Dist(Base, curr) + 1
    OBVIOUS
  <2>4. Dist(Base, curr') <= Filled
    BY <2>1, <2>3
  <2>5. PointersInv'
    BY DEF PointersInv, ChannelInv, StatInv
  <2>6. ChannelInv'
    BY <2>2, <2>4 DEF ChannelInv
  <2>7. StatInv'
    BY DEF StatInv
  <2> QED
    BY <2>5, <2>6, <2>7
<1>2. CASE CollectEnd
  BY <1>2 DEF CollectEnd, engineVars, PointersInv, ChannelInv, StatInv
<1>3. CASE Compose
  BY <1>3 DEF Compose, engineVars, PointersInv, ChannelInv, StatInv
<1>4. CASE CopyWord
  <2>0. /\ pc = "copy" /\ word_idx < words
        /\ word_idx' = word_idx + 1 /\ prev' = NextOf(prev)
        /\ stat' = [stat EXCEPT ![prev] = {}]
        /\ err' = (err \/ "ERR" \in stat[prev])
        /\ UNCHANGED <<cur, tail, mode, irq, pc, curr, words>>
    BY <1>4 DEF CopyWord, ClearStat, DescError
  <2> USE <2>0
  <2>1. word_idx < words /\ word_idx = Dist(Base, prev) /\ words = Dist(Base, curr)
    BY DEF PointersInv
  <2>2. Base' = Base /\ Filled' = Filled /\ Base \in Ring
    OBVIOUS
  <2>3. Dist(Base, prev') = word_idx + 1 /\ Dist(Base, curr') = words
    BY <2>1
  <2>4. PointersInv'
    BY <2>1, <2>2, <2>3 DEF PointersInv
  <2>5. ChannelInv'
    <3>1. "ERR" \notin stat[prev]
      BY DEF StatInv
    <3>2. ~ err'
      BY <3>1 DEF ChannelInv
    <3> QED
      BY <2>2, <3>2 DEF ChannelInv
  <2>6. StatInv'
    <3> SUFFICES ASSUME NEW d \in Ring
                 PROVE  stat'[d] = IF /\ word_idx + 1 <= Dist(Base, d)
                                      /\ Dist(Base, d) < Filled
                                   THEN {"CMPLT"} ELSE {}
      BY <2>2, <2>3 DEF StatInv
    <3>1. CASE d = prev
      BY <2>1, <3>1
    <3>2. CASE d # prev
      <4>1. Dist(Base, d) # word_idx /\ Dist(Base, d) \in Nat
        BY <2>1, <3>2
      <4>2. stat'[d] = stat[d]
        BY <3>2
      <4>3. stat[d] = IF word_idx <= Dist(Base, d) /\ Dist(Base, d) < Filled
                      THEN {"CMPLT"} ELSE {}
        BY <2>1 DEF StatInv
      <4> HIDE DEF Dist, Base, Filled
      <4> QED
        BY <4>1, <4>2, <4>3
    <3> QED
      BY <3>1, <3>2
  <2> QED
    BY <2>4, <2>5, <2>6
<1>5. CASE UpdateTail
  <2> USE <1>5 DEF UpdateTail, NewTail, WriteTail
  <2>1. PointersInv'
    BY DEF PointersInv, ChannelInv
  <2>2. ChannelInv'
    BY DEF PointersInv, ChannelInv
  <2>3. StatInv'
    BY DEF PointersInv, ChannelInv, StatInv
  <2> QED
    BY <2>1, <2>2, <2>3
<1>6. CASE Send
  BY <1>6 DEF Send, engineVars, PointersInv, ChannelInv, StatInv
<1>7. CASE Check
  BY <1>7 DEF Check, RestartNeeded, PointersInv, ChannelInv, StatInv
<1>8. CASE Receive
  <2>0. /\ mode = "busy" /\ "CMPLT" \notin stat[cur]
        /\ stat' = [stat EXCEPT ![cur] = {"CMPLT"}]
        /\ cur' = NextOf(cur)
        /\ mode' = IF cur = tail THEN "idle" ELSE "busy"
        /\ UNCHANGED <<tail, irq, pc, curr, prev, words, word_idx, err>>
    BY <1>8 DEF Receive, EngineComplete, dma_desc_cmplt, serverVars
  <2> USE <2>0
  <2>1. /\ Base' = Base /\ prev' = prev /\ Filled' = Filled + 1
        /\ Filled = Dist(Base, cur) /\ Filled \in Nat
    OBVIOUS
  <2>2. PointersInv'
    <3> HIDE DEF Dist, Base
    <3> QED
      BY <2>1 DEF PointersInv
  <2>3. ChannelInv'
    <3>1. mode' # "halted" /\ (mode' = "idle" => cur' = Base)
      OBVIOUS
    <3>2. Dist(Base, curr) \in Int
      OBVIOUS
    <3> HIDE DEF Dist, Base, Filled
    <3> QED
      BY <2>1, <3>1, <3>2 DEF ChannelInv
  <2>4. Dist(Base, prev) <= Filled
    <3>1. CASE pc \in {"collect", "wait", "send", "check"}
      BY <3>1 DEF PointersInv
    <3>2. CASE pc = "copy"
      BY <3>2 DEF PointersInv, ChannelInv
    <3> QED
      BY <3>1, <3>2 DEF PointersInv, TypeInv, TypeOK, ServerPc
  <2>5. StatInv'
    <3> SUFFICES ASSUME NEW d \in Ring
                 PROVE  stat'[d] = IF /\ Dist(Base, prev) <= Dist(Base, d)
                                      /\ Dist(Base, d) < Filled + 1
                                   THEN {"CMPLT"} ELSE {}
      BY <2>1 DEF StatInv
    <3>1. CASE d = cur
      BY <2>1, <2>4, <3>1
    <3>2. CASE d # cur
      <4>1. Dist(Base, d) # Filled /\ Dist(Base, d) \in Nat /\ Filled \in Nat
        BY <2>1, <3>2
      <4>2. stat'[d] = stat[d]
        BY <3>2
      <4>3. stat[d] = IF Dist(Base, prev) <= Dist(Base, d) /\ Dist(Base, d) < Filled
                      THEN {"CMPLT"} ELSE {}
        BY DEF StatInv
      <4> HIDE DEF Dist, Base, Filled
      <4> QED
        BY <4>1, <4>2, <4>3
    <3> QED
      BY <3>1, <3>2
  <2> QED
    BY <2>2, <2>3, <2>5
<1>9. CASE StaleFetch
  BY <1>9 DEF StaleFetch, EngineStaleFetch, dma_desc_cmplt, StatInv
<1>10. CASE UNCHANGED <<engineVars, serverVars>>
  BY <1>10 DEF engineVars, serverVars, PointersInv, ChannelInv, StatInv
<1> QED
  BY <1>1, <1>2, <1>3, <1>4, <1>5, <1>6, <1>7, <1>8, <1>9, <1>10
  DEF SlowNext, NominalNext, ServerStep, ChannelStep, SubscriberStep, IoSend, Subscribe,
      Unsubscribe, Expire, vars

(* Without errors the two sides of the ring agree at every step, for every  *)
(* size of the ring (pacman_dataserver.cc:90-170).                          *)
THEOREM RingCorrect == SlowSpec => []RingInv
<1>1. Init => TypeInv /\ RingInv
  BY TypeInit, RingInit
<1>2. TypeInv /\ RingInv /\ [SlowNext]_vars => (TypeInv /\ RingInv)'
  BY TypeStep, RoomStep, RingStep DEF TypeInv, AnyNext, FaultNext
<1> QED
  BY <1>1, <1>2, PTL DEF SlowSpec

LEMMA RingInvNoStaleFetch == TypeInv /\ RingInv => NoStaleFetch
BY DEF TypeInv, TypeOK, EngineTypeOK, RingInv, ChannelInv, StatInv, Filled, NoStaleFetch,
       dma_desc_cmplt, Dist, Base, NextOf, Ring

(* The channel never reaches a descriptor the server has not emptied: a     *)
(* data server without DMA errors never causes one (pacman_dataserver.cc:   *)
(* 138 and 145).                                                            *)
THEOREM NeverStaleFetch == SlowSpec => []NoStaleFetch
<1>1. Init => TypeInv /\ RingInv
  BY TypeInit, RingInit
<1>2. TypeInv /\ RingInv /\ [SlowNext]_vars => (TypeInv /\ RingInv)'
  BY TypeStep, RoomStep, RingStep DEF TypeInv, AnyNext, FaultNext
<1> QED
  BY <1>1, <1>2, RingInvNoStaleFetch, PTL DEF SlowSpec

-----------------------------------------------------------------------------
(* The data stream. *)

\* The part of the types that the proofs below need.
LEMMA StreamTypes ==
  ASSUME TypeInv
  PROVE  /\ cur \in Ring /\ tail \in Ring /\ curr \in Ring /\ prev \in Ring
         /\ words \in 0 .. MAX_MSG_LEN /\ word_idx \in 0 .. MAX_MSG_LEN
         /\ mode \in {"halted", "idle", "busy"} /\ pc \in ServerPc
         /\ word \in [Ring -> Payload]
         /\ msg_buffer \in [hdr : 0 .. MAX_MSG_LEN, body : [1 .. MAX_MSG_LEN -> Payload]]
         /\ published \in Seq(Payload) /\ Len(published) \in Nat
         /\ received \in 0 .. MAX_PACKETS
BY LenProperties DEF TypeInv, TypeOK, EngineTypeOK

LEMMA FilledRange ==
  ASSUME TypeInv
  PROVE  Base \in Ring /\ Filled \in 0 .. RingSize
<1>1. Base \in Ring
  BY StreamTypes, RingClosed DEF Base
<1>2. Dist(Base, cur) \in 0 .. RingSize - 1
  BY <1>1, StreamTypes, DistRange
<1> QED
  BY <1>1, <1>2 DEF Filled

-----------------------------------------------------------------------------
(* Which packet is where. *)

LEMMA PacketsInit == Init => PacketsInv
<1> SUFFICES ASSUME Init PROVE PacketsInv
  OBVIOUS
<1>1. Base = 0 /\ Filled = 0
  BY DEF Init, EngineInit, Base, Filled, NextOf, PrevOf, Dist
<1>2. Len(published) = 0 /\ Copied = 0 /\ Pending = 0 /\ received = 0
  BY EmptySeq DEF Init, Copied, Pending
<1>3. \A d \in Ring : ~ (Dist(0, d) < 0)
  BY DEF Dist, Ring
<1> QED
  BY <1>1, <1>2, <1>3 DEF PacketsInv

\* The server takes a word: the one at prev is the next in order.
LEMMA CopyKeepsPackets ==
  ASSUME TypeInv, RingInv, PacketsInv, CopyWord
  PROVE  PacketsInv'
<1>1. /\ pc = "copy" /\ pc' = pc /\ word_idx < words /\ word_idx' = word_idx + 1
      /\ msg_buffer' = [msg_buffer EXCEPT !.body[word_idx + 1] = word[prev]]
      /\ UNCHANGED <<cur, tail, mode, word, words, published, received>>
  BY DEF CopyWord, WordToCopy
<1>2. Base' = Base /\ Filled' = Filled /\ Pending' = 0 /\ Pending = 0
  BY <1>1 DEF Base, Filled, Pending
<1>3. Copied = word_idx /\ Copied' = word_idx + 1
  BY <1>1 DEF Copied
<1>4. word[prev] = Len(published) + word_idx + 1
  <2>1. word_idx = Dist(Base, prev) /\ words <= Filled
    BY <1>1 DEF RingInv, PointersInv, ChannelInv
  <2> QED
    BY <1>1, <1>2, <2>1, StreamTypes, FilledRange DEF PacketsInv
<1>5. ASSUME NEW i \in 1 .. Copied'
      PROVE  msg_buffer'.body[i] = Len(published) + i
  <2>1. i \in 1 .. MAX_MSG_LEN /\ word_idx \in Nat /\ i <= word_idx + 1
    BY <1>1, <1>3, StreamTypes
  <2>2. msg_buffer'.body[i] = IF i = word_idx + 1 THEN word[prev] ELSE msg_buffer.body[i]
    BY <1>1, <2>1, StreamTypes
  <2>3. i # word_idx + 1 => msg_buffer.body[i] = Len(published) + i
    BY <1>3, <2>1 DEF PacketsInv
  <2>4. Len(published) \in Nat
    BY StreamTypes
  <2> QED
    BY <1>4, <2>1, <2>2, <2>3, <2>4
<1> QED
  BY <1>1, <1>2, <1>5 DEF PacketsInv

\* Descriptors are given back: the counts from Base on shift by the words taken.
LEMMA TailKeepsPackets ==
  ASSUME TypeInv, RingInv, PacketsInv, UpdateTail
  PROVE  PacketsInv'
<1>1. /\ pc = "copy" /\ pc' = "send" /\ word_idx = words
      /\ tail' = PrevOf(prev) /\ mode' = IF mode = "idle" THEN "busy" ELSE mode
      /\ UNCHANGED <<cur, word, words, msg_buffer, published, received>>
  BY DEF UpdateTail, WriteTail, NewTail
<1>2. /\ words = Dist(Base, prev) /\ words > 0
      /\ mode = "idle" => cur = Base
      /\ mode # "halted" /\ words <= Filled
  BY <1>1 DEF RingInv, PointersInv, ChannelInv
<1>3. Base' = prev
  BY <1>1, StreamTypes, NextOfPrev DEF Base
<1>4. Copied = words /\ Copied' = words /\ Pending = 0 /\ Pending' = words
  BY <1>1 DEF Copied, Pending
<1>5. Filled' = Filled - words
  <2>1. /\ cur \in Ring /\ prev \in Ring /\ Base \in Ring
        /\ words \in Nat /\ Filled \in 0 .. RingSize
    BY StreamTypes, FilledRange
  <2>2. Filled' = Dist(prev, cur)
    BY <1>1, <1>2, <1>3 DEF Filled
  <2>3. /\ Dist(prev, cur) \in 0 .. RingSize - 1
        /\ Dist(Base, cur) \in 0 .. RingSize - 1
        /\ words \in 0 .. RingSize - 1
        /\ cur = Base => Dist(Base, cur) = 0
    BY <1>2, <2>1, DistRange
  <2>4. Dist(Base, cur) = IF words + Dist(prev, cur) < RingSize
                          THEN words + Dist(prev, cur)
                          ELSE words + Dist(prev, cur) - RingSize
    BY <1>2, <2>1, DistShift
  <2>5. Filled = IF mode = "idle" THEN RingSize ELSE Dist(Base, cur)
    BY DEF Filled
  <2> DEFINE new == Dist(prev, cur)
             old == Dist(Base, cur)
  <2> HIDE DEF new, old
  <2>6. /\ new \in 0 .. RingSize - 1
        /\ old \in 0 .. RingSize - 1
        /\ old = IF words + new < RingSize THEN words + new ELSE words + new - RingSize
        /\ Filled = IF mode = "idle" THEN RingSize ELSE old
        /\ (mode = "idle" => old = 0)
    BY <1>2, <2>3, <2>4, <2>5 DEF new, old
  <2>7. new = Filled - words
    BY <1>2, <2>1, <2>3, <2>6
  <2> QED
    BY <2>2, <2>7 DEF new
<1>6. ASSUME NEW d \in Ring, Dist(prev, d) < Filled - words
      PROVE  word[d] = Len(published) + words + Dist(prev, d) + 1
  <2>1. Dist(prev, d) \in Nat /\ words \in Nat /\ Filled \in 0 .. RingSize
    BY StreamTypes, FilledRange, DistRange
  <2>2. Dist(Base, d) = words + Dist(prev, d)
    <3>1. Dist(Base, d) = IF words + Dist(prev, d) < RingSize
                          THEN words + Dist(prev, d)
                          ELSE words + Dist(prev, d) - RingSize
      BY <1>2, StreamTypes, FilledRange, DistShift
    <3> HIDE DEF Dist
    <3> QED
      BY <1>6, <2>1, <3>1
  <2>3. word[d] = Len(published) + 0 + Dist(Base, d) + 1
    BY <1>4, <1>6, <2>1, <2>2 DEF PacketsInv
  <2> QED
    BY <2>1, <2>2, <2>3, StreamTypes
<1>7. received = Len(published) + words + (Filled - words)
  BY <1>4, StreamTypes, FilledRange DEF PacketsInv
<1> QED
  BY <1>1, <1>3, <1>4, <1>5, <1>6, <1>7 DEF PacketsInv

\* What the server hands to the publisher: the next packets, in order.
LEMMA SendPublishes ==
  ASSUME TypeInv, RingInv, PacketsInv, Send
  PROVE  /\ words \in 1 .. MAX_MSG_LEN
         /\ Len(published) + words <= received
         /\ published' = published \o [i \in 1 .. words |-> Len(published) + i]
         /\ published' \in Seq(Payload)
         /\ Len(published') = Len(published) + words
         /\ \A i \in 1 .. Len(published') : published'[i] = i
<1> DEFINE message == SubSeq(msg_buffer.body, 1, words)
           packets == [i \in 1 .. words |-> Len(published) + i]
<1>1. pc = "send" /\ published' = published \o message
  BY DEF Send
<1>2. words \in 1 .. MAX_MSG_LEN
  BY <1>1, StreamTypes DEF RingInv, PointersInv
<1>3. Copied = words /\ Pending = words
  BY <1>1 DEF Copied, Pending
<1>4. Len(published) + words <= received
  BY <1>2, <1>3, StreamTypes, FilledRange DEF PacketsInv
<1>5. /\ message \in Seq(Payload) /\ Len(message) = words
      /\ \A i \in 1 .. words : message[i] = Len(published) + i
  <2>1. msg_buffer.body \in [1 .. MAX_MSG_LEN -> Payload] /\ words \in 0 .. MAX_MSG_LEN
    BY StreamTypes
  <2>2. /\ message \in Message /\ Len(message) = words
        /\ \A i \in 1 .. words : message[i] = msg_buffer.body[i]
    BY <2>1, BufferIsMessage
  <2> QED
    BY <1>3, <2>2 DEF PacketsInv, Message
<1> HIDE DEF message
<1>6. /\ published' \in Seq(Payload)
      /\ Len(published') = Len(published) + words
      /\ \A i \in 1 .. Len(published) + words :
           published'[i] = IF i <= Len(published) THEN published[i]
                           ELSE message[i - Len(published)]
  <2>1. /\ published \o message \in Seq(Payload)
        /\ Len(published \o message) = Len(published) + Len(message)
        /\ \A i \in 1 .. Len(published) + Len(message) :
             (published \o message)[i] = IF i <= Len(published) THEN published[i]
                                        ELSE message[i - Len(published)]
    BY <1>5, StreamTypes, ConcatProperties
  <2> QED
    BY <1>1, <1>5, <2>1
<1>7. ASSUME NEW i \in 1 .. Len(published')
      PROVE  published'[i] = i
  <2>1. Len(published) \in Nat /\ i \in 1 .. Len(published) + words
    BY <1>6, StreamTypes
  <2>2. CASE i <= Len(published)
    BY <1>6, <2>1, <2>2 DEF PacketsInv
  <2>3. CASE i > Len(published)
    <3>1. i - Len(published) \in 1 .. words
      BY <1>2, <2>1, <2>3
    <3>2. message[i - Len(published)] = Len(published) + (i - Len(published))
      BY <1>5, <3>1
    <3> QED
      BY <1>6, <2>1, <2>3, <3>2
  <2> QED
    BY <2>1, <2>2, <2>3
<1>8. message = packets
  <2>1. message \in [1 .. words -> Payload]
    BY <1>5, LenProperties
  <2> QED
    BY <1>5, <2>1
<1> QED
  BY <1>1, <1>2, <1>4, <1>6, <1>7, <1>8

LEMMA SendKeepsPackets ==
  ASSUME TypeInv, RingInv, PacketsInv, Send
  PROVE  PacketsInv'
<1>1. /\ pc = "send" /\ pc' = "check" /\ words' = 0
      /\ UNCHANGED <<cur, tail, mode, word, received>>
  BY DEF Send, engineVars
<1>2. Base' = Base /\ Filled' = Filled
  BY <1>1 DEF Base, Filled
<1>3. Pending = words /\ Pending' = 0 /\ Copied' = 0
  BY <1>1 DEF Pending, Copied
<1>4. /\ Len(published') = Len(published) + words
      /\ \A i \in 1 .. Len(published') : published'[i] = i
      /\ Len(published) \in Nat /\ words \in Nat
  BY SendPublishes, StreamTypes
<1>5. ASSUME NEW d \in Ring, Dist(Base, d) < Filled
      PROVE  word[d] = Len(published') + 0 + Dist(Base, d) + 1
  BY <1>3, <1>4, <1>5 DEF PacketsInv
<1>6. received = Len(published') + 0 + Filled
  BY <1>3, <1>4 DEF PacketsInv
<1> QED
  BY <1>1, <1>2, <1>3, <1>4, <1>5, <1>6 DEF PacketsInv

\* The channel fills the descriptor after the last one filled.
LEMMA ReceiveKeepsPackets ==
  ASSUME TypeInv, RingInv, PacketsInv, Receive
  PROVE  PacketsInv'
<1>1. /\ mode = "busy" /\ cur' = NextOf(cur)
      /\ mode' = IF cur = tail THEN "idle" ELSE "busy"
      /\ received' = received + 1
      /\ word' = [word EXCEPT ![cur] = received + 1]
      /\ UNCHANGED <<tail, pc, words, word_idx, msg_buffer, published>>
  BY DEF Receive, EngineComplete, serverVars
<1>2. Base' = Base /\ Copied' = Copied /\ Pending' = Pending
  BY <1>1 DEF Base, Copied, Pending
<1>3. Filled = Dist(Base, cur) /\ Filled' = Filled + 1
  <2>1. Filled = Dist(Base, cur)
    BY <1>1 DEF Filled
  <2>2. tail \in Ring /\ cur \in Ring
    BY StreamTypes
  <2>3. Dist(NextOf(tail), tail) = RingSize - 1
    BY <2>2 DEF Dist, NextOf, Ring
  <2>4. Dist(Base, cur) = RingSize - 1 <=> cur = tail
    BY <2>2, <2>3, RingClosed, DistInjective DEF Base
  <2>5. Dist(Base, NextOf(cur)) = IF Dist(Base, cur) = RingSize - 1 THEN 0
                                  ELSE Dist(Base, cur) + 1
    BY <2>2, FilledRange, DistNext
  <2> HIDE DEF Dist, Base
  <2> QED
    BY <1>1, <1>2, <2>1, <2>4, <2>5 DEF Filled
<1>4. /\ Filled \in Nat /\ Len(published) \in Nat /\ Pending \in Nat
      /\ cur \in Ring /\ Base \in Ring /\ word \in [Ring -> Payload]
  BY StreamTypes, FilledRange DEF Pending
<1>5. received = Len(published) + Pending + Filled
  BY DEF PacketsInv
<1>6. ASSUME NEW d \in Ring, Dist(Base, d) < Filled + 1
      PROVE  word'[d] = Len(published) + Pending + Dist(Base, d) + 1
  <2>1. Dist(Base, d) \in Nat
    BY <1>4, DistRange
  <2>2. CASE d = cur
    BY <1>1, <1>3, <1>4, <1>5, <2>2
  <2>3. CASE d # cur
    <3>1. Dist(Base, d) # Filled
      BY <1>3, <1>4, <2>3, DistInjective
    <3>2. Dist(Base, d) < Filled
      BY <1>4, <1>6, <2>1, <3>1
    <3> QED
      BY <1>1, <1>4, <2>3, <3>2 DEF PacketsInv
  <2> QED
    BY <2>2, <2>3
<1>7. received' = Len(published) + Pending + (Filled + 1)
  BY <1>1, <1>4, <1>5
<1> QED
  BY <1>1, <1>2, <1>3, <1>6, <1>7 DEF PacketsInv

\* The steps that change neither the words nor the counts.
LEMMA OthersKeepPackets ==
  ASSUME PacketsInv, Base' = Base, Filled' = Filled, Copied' = Copied, Pending' = Pending,
         msg_buffer'.body = msg_buffer.body, UNCHANGED <<word, received, published>>
  PROVE  PacketsInv'
BY DEF PacketsInv

LEMMA PacketsStep == TypeInv /\ RingInv /\ PacketsInv /\ [SlowNext]_vars => PacketsInv'
<1> SUFFICES ASSUME TypeInv, RingInv, PacketsInv, [SlowNext]_vars PROVE PacketsInv'
  OBVIOUS
<1>1. CASE Collect \/ CollectEnd
  <2>1. /\ pc = "collect" /\ pc' \in {"collect", "wait"}
        /\ UNCHANGED <<cur, tail, mode, word, msg_buffer, received, published>>
    BY <1>1 DEF Collect, CollectEnd, engineVars
  <2> QED
    BY <2>1, OthersKeepPackets DEF Base, Filled, Copied, Pending
<1>2. CASE Compose
  <2>1. /\ pc = "wait" /\ pc' = "copy" /\ word_idx' = 0
        /\ UNCHANGED <<cur, tail, mode, word, received, published>>
    BY <1>2 DEF Compose, engineVars
  <2>2. msg_buffer'.body = msg_buffer.body
    BY <1>2, StreamTypes DEF Compose
  <2> QED
    BY <2>1, <2>2, OthersKeepPackets DEF Base, Filled, Copied, Pending
<1>3. CASE CopyWord
  BY <1>3, CopyKeepsPackets
<1>4. CASE UpdateTail
  BY <1>4, TailKeepsPackets
<1>5. CASE Send
  BY <1>5, SendKeepsPackets
<1>6. CASE Check
  <2>1. /\ pc = "check" /\ pc' = "collect"
        /\ UNCHANGED <<cur, tail, mode, word, msg_buffer, received, published>>
    BY <1>6 DEF Check, RestartNeeded, RingInv, ChannelInv
  <2> QED
    BY <2>1, OthersKeepPackets DEF Base, Filled, Copied, Pending
<1>7. CASE Receive
  BY <1>7, ReceiveKeepsPackets
<1>8. CASE StaleFetch
  BY <1>8, RingInvNoStaleFetch DEF StaleFetch, EngineStaleFetch, NoStaleFetch
<1>9. CASE UNCHANGED <<engineVars, serverVars, word, msg_buffer, received, published>>
  BY <1>9, OthersKeepPackets DEF engineVars, serverVars, Base, Filled, Copied, Pending
<1> QED
  BY <1>1, <1>2, <1>3, <1>4, <1>5, <1>6, <1>7, <1>8, <1>9
  DEF SlowNext, NominalNext, ServerStep, ChannelStep, SubscriberStep, IoSend, Subscribe,
      Unsubscribe, Expire, vars

\* The inductive invariant of the data server without errors.
StreamInv == TypeInv /\ RingInv /\ PacketsInv

LEMMA StreamInvInit == Init => StreamInv
BY TypeInit, RingInit, PacketsInit DEF StreamInv

LEMMA StreamInvStep == StreamInv /\ [SlowNext]_vars => StreamInv'
BY TypeStep, RoomStep, RingStep, PacketsStep DEF StreamInv, TypeInv, AnyNext, FaultNext

(* Every packet received is published, in the message buffer or in one      *)
(* filled descriptor, in the order of arrival (pacman_dataserver.cc:94-161). *)
THEOREM PacketsInOrder == SlowSpec => []PacketsInv
<1>1. StreamInv /\ [SlowNext]_vars => StreamInv'
  BY StreamInvStep
<1>2. StreamInv => PacketsInv
  BY DEF StreamInv
<1> QED
  BY <1>1, <1>2, StreamInvInit, PTL DEF SlowSpec

-----------------------------------------------------------------------------
(* The refinement. *)

LEMMA ReceiveIsAccept == StreamInv /\ Receive => Stream!Accept
<1> SUFFICES ASSUME StreamInv, Receive PROVE Stream!Accept
  OBVIOUS
<1>1. /\ received < MAX_PACKETS /\ received' = received + 1
      /\ mode = "busy" /\ UNCHANGED published
  BY DEF Receive, EngineComplete
<1>2. received = Len(published) + Pending + Filled
  BY DEF StreamInv, PacketsInv
<1>3. Filled < RingSize /\ Filled \in Nat
  <2>1. cur \in Ring /\ Base \in Ring
    BY StreamTypes, FilledRange DEF StreamInv
  <2>2. Filled = Dist(Base, cur)
    BY <1>1 DEF Filled
  <2> QED
    BY <2>1, <2>2, DistRange
<1>4. Pending \in 0 .. MAX_MSG_LEN /\ Len(published) \in Nat
  BY StreamTypes DEF StreamInv, Pending
<1>5. received - Len(published) < RingSize + MAX_MSG_LEN
  BY <1>2, <1>3, <1>4
<1> QED
  BY <1>1, <1>5 DEF Stream!Accept

LEMMA SendIsPublish == StreamInv /\ Send => Stream!Publish
<1> SUFFICES ASSUME StreamInv, Send PROVE Stream!Publish
  OBVIOUS
<1>1. /\ words \in 1 .. MAX_MSG_LEN
      /\ Len(published) + words <= received
      /\ published' = published \o [i \in 1 .. words |-> Len(published) + i]
  BY SendPublishes DEF StreamInv
<1>2. UNCHANGED received
  BY DEF Send
<1> QED
  BY <1>1, <1>2 DEF Stream!Publish

(* Without errors the data server is a stream: what it publishes is every   *)
(* packet once and in order, in messages of 1 to MAX_MSG_LEN words, with at  *)
(* most a ring and a message of packets in between, for any duration of the  *)
(* transfers (pacman_dataserver.cc:90-170).                                  *)
THEOREM ServerImplementsStream == SlowSpec => ImplementsStream
<1>1. Init => Stream!StreamInit
  BY DEF Init, Stream!StreamInit
<1>2. StreamInv /\ [SlowNext]_vars => [Stream!StreamNext]_(Stream!streamVars)
  <2> SUFFICES ASSUME StreamInv, [SlowNext]_vars
               PROVE  [Stream!StreamNext]_(Stream!streamVars)
    OBVIOUS
  <2>1. CASE Receive
    BY <2>1, ReceiveIsAccept DEF Stream!StreamNext
  <2>2. CASE Send
    BY <2>2, SendIsPublish DEF Stream!StreamNext
  <2>3. CASE Collect \/ CollectEnd \/ Compose \/ CopyWord \/ UpdateTail \/ Check
    BY <2>3
    DEF Collect, CollectEnd, Compose, CopyWord, UpdateTail, Check, Stream!streamVars
  <2>4. CASE StaleFetch \/ SubscriberStep \/ Expire \/ UNCHANGED vars
    BY <2>4
    DEF StaleFetch, SubscriberStep, IoSend, Subscribe, Unsubscribe, Expire, vars,
        Stream!streamVars
  <2> QED
    BY <2>1, <2>2, <2>3, <2>4 DEF SlowNext, NominalNext, ServerStep, ChannelStep
<1>3. StreamInv /\ [SlowNext]_vars => StreamInv'
  BY StreamInvStep
<1> QED
  BY <1>1, <1>2, <1>3, StreamInvInit, PTL DEF SlowSpec, ImplementsStream, Stream!StreamSpec

-----------------------------------------------------------------------------
(* The message buffer. *)

\* One message at most is in the hands of ZMQ, it is the one in the buffer, and
\* the server is not rewriting it.
BufferInv ==
  /\ msg_ready => pipe = << >>
  /\ pc \in {"copy", "send"} => msg_ready /\ msg_buffer.hdr = words
  /\ pc \in {"down", "restart_dma"} => pipe = << >>
  /\ pipe # << >> => /\ Len(pipe) = 1
                     /\ msg_buffer.hdr = Len(Head(pipe))
                     /\ Head(pipe) = SubSeq(msg_buffer.body, 1, msg_buffer.hdr)
  /\ DeliveredIntact

LEMMA BufferInit == Init => BufferInv
BY EmptySeq DEF Init, BufferInv, DeliveredIntact

LEMMA PipeTypes ==
  ASSUME TypeInv
  PROVE  /\ pipe \in Seq(Message) /\ Len(pipe) \in Nat
         /\ msg_ready \in BOOLEAN
         /\ pipe # << >> => /\ Head(pipe) \in Message
                            /\ Tail(pipe) \in Seq(Message)
                            /\ Len(Tail(pipe)) = Len(pipe) - 1
BY LenProperties, HeadTailProperties DEF TypeInv, TypeOK

\* The message sent is the whole content of the buffer.
LEMMA SendFillsPipe ==
  ASSUME TypeInv, BufferInv, Send
  PROVE  BufferInv'
<1> DEFINE message == SubSeq(msg_buffer.body, 1, words)
<1>1. /\ pc = "send" /\ pc' = "check"
      /\ UNCHANGED <<msg_buffer, delivered>>
      /\ IF subscribed /\ Len(pipe) < HWM
         THEN pipe' = Append(pipe, message) /\ msg_ready' = FALSE
         ELSE pipe' = pipe /\ msg_ready' = TRUE
  BY DEF Send
<1>2. pipe = << >> /\ msg_buffer.hdr = words
  BY <1>1 DEF BufferInv
<1>3. message \in Message /\ Len(message) = words
  BY BufferIsMessage, StreamTypes
<1> HIDE DEF message
<1>4. CASE subscribed /\ Len(pipe) < HWM
  <2>1. pipe' = << message >>
    BY <1>1, <1>2, <1>4
  <2>2. Len(pipe') = 1 /\ Head(pipe') = message /\ pipe' # << >>
    BY <1>3, <2>1
  <2>3. message = SubSeq(msg_buffer'.body, 1, msg_buffer'.hdr)
    BY <1>1, <1>2 DEF message
  <2>4. DeliveredIntact'
    BY <1>1 DEF BufferInv, DeliveredIntact
  <2>5. ~ msg_ready' /\ msg_buffer'.hdr = Len(message)
    BY <1>1, <1>2, <1>3, <1>4
  <2> QED
    BY <1>1, <2>2, <2>3, <2>4, <2>5 DEF BufferInv
<1>5. CASE ~ (subscribed /\ Len(pipe) < HWM)
  BY <1>1, <1>2, <1>5 DEF BufferInv, DeliveredIntact
<1> QED
  BY <1>4, <1>5

\* What the I/O thread transmits is what was sent.
LEMMA IoSendIntact ==
  ASSUME TypeInv, BufferInv, IoSend
  PROVE  BufferInv'
<1>1. /\ pipe # << >> /\ pipe' = Tail(pipe)
      /\ delivered' = [hdr  |-> msg_buffer.hdr,
                       got  |-> SubSeq(msg_buffer.body, 1, Len(Head(pipe))),
                       want |-> Head(pipe)]
      /\ UNCHANGED <<pc, words, msg_buffer>>
  BY DEF IoSend, serverVars
<1>2. /\ Len(pipe) = 1 /\ ~ msg_ready
      /\ msg_buffer.hdr = Len(Head(pipe))
      /\ Head(pipe) = SubSeq(msg_buffer.body, 1, msg_buffer.hdr)
  BY <1>1 DEF BufferInv
<1>3. pipe' = << >>
  BY <1>1, <1>2, PipeTypes, EmptySeq
<1>4. DeliveredIntact'
  BY <1>1, <1>2 DEF DeliveredIntact
<1>5. pc \notin {"copy", "send"}
  BY <1>2 DEF BufferInv
<1> QED
  BY <1>1, <1>3, <1>4, <1>5 DEF BufferInv

LEMMA BufferStep ==
  TypeInv /\ BufferInv /\ ~ GivesUp /\ [AnyNext]_vars => BufferInv'
<1> SUFFICES ASSUME TypeInv, BufferInv, ~ GivesUp, [AnyNext]_vars PROVE BufferInv'
  OBVIOUS
<1>1. CASE Compose
  <2>1. pc = "wait" /\ pc' = "copy" /\ msg_ready /\ pipe = << >>
    BY <1>1 DEF Compose, LastMessageDone, GivesUp, BufferInv
  <2>2. /\ msg_buffer'.hdr = words
        /\ UNCHANGED <<words, pipe, msg_ready, delivered>>
    BY <1>1, StreamTypes DEF Compose, zmqVars
  <2> QED
    BY <2>1, <2>2 DEF BufferInv, DeliveredIntact
<1>2. CASE CopyWord
  <2>1. pc = "copy" /\ pc' = pc /\ msg_ready /\ pipe = << >> /\ msg_buffer.hdr = words
    BY <1>2 DEF CopyWord, BufferInv
  <2>2. msg_buffer'.hdr = msg_buffer.hdr /\ UNCHANGED <<words, pipe, msg_ready, delivered>>
    BY <1>2, StreamTypes DEF CopyWord, zmqVars
  <2> QED
    BY <2>1, <2>2 DEF BufferInv, DeliveredIntact
<1>3. CASE Send
  BY <1>3, SendFillsPipe
<1>4. CASE IoSend
  BY <1>4, IoSendIntact
<1>5. CASE UpdateTail
  BY <1>5 DEF UpdateTail, zmqVars, BufferInv, DeliveredIntact
<1>6. CASE Collect \/ CollectEnd \/ Check
  BY <1>6 DEF Collect, CollectEnd, Check, zmqVars, BufferInv, DeliveredIntact
<1>7. CASE Subscribe
  BY <1>7 DEF Subscribe, serverVars, BufferInv, DeliveredIntact
<1>8. CASE Unsubscribe
  <2>1. pipe' = << >> /\ (msg_ready => msg_ready')
    BY <1>8, PipeTypes DEF Unsubscribe
  <2>2. UNCHANGED <<pc, words, msg_buffer, delivered>>
    BY <1>8 DEF Unsubscribe, serverVars
  <2> QED
    BY <2>1, <2>2 DEF BufferInv, DeliveredIntact
<1>9. CASE Kill
  BY <1>9 DEF Kill, BufferInv, DeliveredIntact
<1>10. CASE Launch
  BY <1>10 DEF Launch, BufferInv, DeliveredIntact
<1>11. CASE RestartDma
  BY <1>11 DEF RestartDma, zmqVars, BufferInv, DeliveredIntact
<1>12. CASE UNCHANGED <<serverVars, msg_buffer, zmqVars>>
  BY <1>12 DEF serverVars, zmqVars, BufferInv, DeliveredIntact
<1> QED
  BY <1>1, <1>2, <1>3, <1>4, <1>5, <1>6, <1>7, <1>8, <1>9, <1>10,
     <1>11, <1>12
  DEF AnyNext, FaultNext, CrashNext, SlowNext, NominalNext, ServerStep, ChannelStep,
      SubscriberStep, Receive, StaleFetch, Expire, TransferError, ChannelError, vars

(* As long as no wait for the last message is given up, a subscriber gets   *)
(* every message as it was sent, whatever errors the channel has and        *)
(* however often the server is killed (pacman_dataserver.cc:112-161).       *)
THEOREM MessagesIntact == AnySpec => IntactUntilGivingUp
<1>1. Init => TypeInv /\ BufferInv
  BY TypeInit, BufferInit
<1>2. TypeInv /\ [AnyNext]_vars => TypeInv'
  BY TypeStep, RoomStep DEF TypeInv
<1>3. TypeInv /\ BufferInv /\ ~ GivesUp /\ [AnyNext]_vars => BufferInv'
  BY BufferStep
<1>4. BufferInv => DeliveredIntact
  BY DEF BufferInv
<1> QED
  BY <1>1, <1>2, <1>3, <1>4, PTL DEF AnySpec, IntactUntilGivingUp

-----------------------------------------------------------------------------
(* Errors and restarts. *)

\* What the server has collected: the descriptors from prev up to curr, which are
\* still complete.
CollectedInv ==
  /\ pc \in {"collect", "wait"} => words = Dist(prev, curr)
  /\ pc = "collect" => Dist(prev, curr) < RingSize - 1
  /\ pc = "copy" => word_idx <= words /\ words - word_idx = Dist(prev, curr)
  /\ pc \in {"send", "check", "restart_dma"} => prev = curr
  /\ pc \in {"check", "restart_dma"} => words = 0
  /\ pc \in {"collect", "wait", "copy"} =>
       \A d \in Ring : Dist(prev, d) < Dist(prev, curr) => dma_desc_cmplt(d)

\* A descriptor that holds a packet not taken yet, and a word of the buffer that
\* is one not published yet.
Holds(d) == dma_desc_cmplt(d) /\ word[d] # Garbage
InBuffer(i) == i \in 1 .. Copied /\ msg_buffer.body[i] # Garbage

\* No packet is in two places.
OnceInv ==
  /\ \A i \in 1 .. Len(published) : published[i] <= received
  /\ \A d \in Ring : word[d] <= received
  /\ \A i \in 1 .. Copied : msg_buffer.body[i] <= received
  /\ AtMostOnce
  /\ \A d \in Ring : Holds(d) =>
       /\ \A i \in 1 .. Len(published) : published[i] # word[d]
       /\ \A e \in Ring : Holds(e) /\ e # d => word[e] # word[d]
  /\ \A i \in 1 .. MAX_MSG_LEN : InBuffer(i) =>
       /\ \A j \in 1 .. Len(published) : published[j] # msg_buffer.body[i]
       /\ \A d \in Ring : Holds(d) => word[d] # msg_buffer.body[i]
       /\ \A j \in 1 .. MAX_MSG_LEN :
            InBuffer(j) /\ j # i => msg_buffer.body[j] # msg_buffer.body[i]

LEMMA CollectedInit == Init => CollectedInv
<1>1. 0 \in Ring /\ Dist(0, 0) = 0
  BY RingEnds DEF Dist
<1>2. \A d \in Ring : ~ (Dist(0, d) < 0)
  BY DEF Dist, Ring
<1> QED
  BY <1>1, <1>2 DEF Init, CollectedInv

LEMMA CollectedStep == TypeInv /\ CollectedInv /\ [AnyNext]_vars => CollectedInv'
<1> SUFFICES ASSUME TypeInv, CollectedInv, [AnyNext]_vars PROVE CollectedInv'
  OBVIOUS
<1>0. /\ curr \in Ring /\ prev \in Ring /\ words \in Nat /\ word_idx \in Nat
      /\ cur \in Ring /\ stat \in [Ring -> SUBSET StatBits] /\ pc \in ServerPc
  BY DEF TypeInv, TypeOK, EngineTypeOK
<1>1. CASE Collect
  <2>1. /\ pc = "collect" /\ dma_desc_cmplt(curr)
        /\ curr' = NextOf(curr) /\ words' = words + 1
        /\ pc' = IF curr' = PrevOf(prev) \/ words' = MAX_MSG_LEN THEN "wait" ELSE "collect"
        /\ UNCHANGED <<stat, prev>>
    BY <1>1 DEF Collect, CollectBreak, engineVars
  <2>2. /\ words = Dist(prev, curr) /\ Dist(prev, curr) < RingSize - 1
        /\ \A d \in Ring : Dist(prev, d) < Dist(prev, curr) => dma_desc_cmplt(d)
    BY <2>1 DEF CollectedInv
  <2>3. Dist(prev, curr') = Dist(prev, curr) + 1 /\ Dist(prev, curr) \in Nat
    BY <1>0, <2>1, <2>2, DistNext, DistRange
  <2>4. Dist(prev, curr') = RingSize - 1 => curr' = PrevOf(prev)
    BY <1>0, <2>1 DEF Dist, Ring, NextOf, PrevOf
  <2>5. ASSUME NEW d \in Ring, Dist(prev, d) < Dist(prev, curr')
        PROVE  dma_desc_cmplt(d)
    <3>1. Dist(prev, d) \in Nat /\ (Dist(prev, d) = Dist(prev, curr) => d = curr)
      BY <1>0, DistRange, DistInjective
    <3> HIDE DEF Dist
    <3> QED
      BY <2>1, <2>2, <2>3, <2>5, <3>1
  <2>6. \A d \in Ring : dma_desc_cmplt(d)' <=> dma_desc_cmplt(d)
    BY <2>1 DEF dma_desc_cmplt
  <2>7. pc' = "collect" => Dist(prev, curr') < RingSize - 1
    BY <2>1, <2>2, <2>3, <2>4
  <2> HIDE DEF Dist
  <2> QED
    BY <2>1, <2>2, <2>3, <2>5, <2>6, <2>7 DEF CollectedInv
<1>2. CASE CopyWord
  <2>1. /\ pc = "copy" /\ pc' = pc /\ word_idx < words /\ word_idx' = word_idx + 1
        /\ prev' = NextOf(prev) /\ stat' = [stat EXCEPT ![prev] = {}]
        /\ UNCHANGED <<curr, words>>
    BY <1>2 DEF CopyWord, ClearStat
  <2>2. /\ words - word_idx = Dist(prev, curr)
        /\ \A d \in Ring : Dist(prev, d) < Dist(prev, curr) => dma_desc_cmplt(d)
    BY <2>1 DEF CollectedInv
  <2>3. Dist(prev, curr) > 0 /\ curr # prev
    BY <1>0, <2>1, <2>2, DistRange
  <2>4. Dist(prev', curr) = Dist(prev, curr) - 1
    BY <1>0, <2>1, <2>3, DistFromNext
  <2>5. ASSUME NEW d \in Ring, Dist(prev', d) < Dist(prev', curr)
        PROVE  dma_desc_cmplt(d)'
    <3>1. Dist(prev, curr) \in 0 .. RingSize - 1 /\ Dist(prev, d) \in Nat
      BY <1>0, DistRange
    <3>2. Dist(prev', d) = IF d = prev THEN RingSize - 1 ELSE Dist(prev, d) - 1
      BY <1>0, <2>1, DistFromNext
    <3> HIDE DEF Dist
    <3>3. d # prev /\ Dist(prev, d) < Dist(prev, curr)
      BY <2>4, <2>5, <3>1, <3>2
    <3> QED
      BY <1>0, <2>1, <2>2, <3>3 DEF dma_desc_cmplt
  <2> HIDE DEF Dist
  <2> QED
    BY <1>0, <2>1, <2>2, <2>4, <2>5 DEF CollectedInv
<1>3. CASE UpdateTail
  <2>1. pc = "copy" /\ pc' = "send" /\ word_idx = words /\ UNCHANGED <<prev, curr, words>>
    BY <1>3 DEF UpdateTail
  <2>2. Dist(prev, curr) = 0
    BY <1>0, <2>1 DEF CollectedInv
  <2>3. prev = curr
    BY <1>0, <2>2, DistRange
  <2> QED
    BY <2>1, <2>3 DEF CollectedInv
<1>4. CASE Send
  BY <1>4 DEF Send, CollectedInv
<1>5. CASE Check \/ RestartDma
  <2>1. /\ pc \in {"check", "restart_dma"} /\ pc' \in {"collect", "down"}
        /\ UNCHANGED <<prev, curr, words, stat>>
    BY <1>5 DEF Check, RestartDma
  <2>2. prev = curr /\ words = 0
    BY <2>1 DEF CollectedInv
  <2>3. Dist(prev, curr) = 0 /\ \A d \in Ring : ~ (Dist(prev, d) < 0)
    BY <1>0, <2>2, DistRange
  <2> QED
    BY <2>1, <2>2, <2>3 DEF CollectedInv
<1>6. CASE CollectEnd \/ Compose
  <2>1. /\ \/ pc = "collect" /\ pc' = "wait" /\ UNCHANGED word_idx
           \/ pc = "wait" /\ pc' = "copy" /\ word_idx' = 0
        /\ UNCHANGED <<prev, curr, words, stat>>
    BY <1>6 DEF CollectEnd, Compose, engineVars
  <2> QED
    BY <1>0, <2>1 DEF CollectedInv, dma_desc_cmplt
<1>7. CASE Kill
  BY <1>7 DEF Kill, CollectedInv
<1>8. CASE Launch
  BY <1>8 DEF Launch, CollectedInv
<1>9. CASE /\ UNCHANGED serverVars
           /\ \A d \in Ring : dma_desc_cmplt(d) => dma_desc_cmplt(d)'
  BY <1>9 DEF CollectedInv, serverVars
<1>10. CASE Receive \/ TransferError
  <2>1. \A d \in Ring : dma_desc_cmplt(d) => dma_desc_cmplt(d)'
    BY <1>0, <1>10
    DEF Receive, TransferError, EngineComplete, EngineTransferError, dma_desc_cmplt
  <2> QED
    BY <1>9, <1>10, <2>1 DEF Receive, TransferError
<1>11. CASE UNCHANGED <<stat, serverVars>>
  BY <1>9, <1>11 DEF dma_desc_cmplt
<1> QED
  BY <1>1, <1>2, <1>3, <1>4, <1>5, <1>6, <1>7, <1>8, <1>10, <1>11
  DEF AnyNext, FaultNext, CrashNext, SlowNext, NominalNext, ServerStep, ChannelStep,
      SubscriberStep, StaleFetch, EngineStaleFetch, ChannelError, EngineChannelError,
      IoSend, Subscribe, Unsubscribe, Expire, vars, engineVars

LEMMA OnceInit == Init => OnceInv
BY EmptySeq, FilledRange
DEF Init, OnceInv, AtMostOnce, Holds, InBuffer, Copied, Garbage, EngineInit, dma_desc_cmplt

\* A step that puts no packet into a new place keeps them apart.
LEMMA OthersKeepOnce ==
  ASSUME TypeInv, OnceInv, published' = published, received' = received,
         (Copied' = Copied /\ UNCHANGED msg_buffer) \/ Copied' = 0,
         \A d \in Ring : /\ word'[d] = word[d] \/ word'[d] = Garbage
                         /\ Holds(d)' => Holds(d)
  PROVE  OnceInv'
<1>1. /\ \A d \in Ring : word'[d] \in {word[d], Garbage} /\ word[d] \in Nat
      /\ \A d \in Ring : Holds(d)' => Holds(d) /\ word'[d] = word[d]
      /\ received \in Nat
  BY StreamTypes DEF Holds, Payload
<1>2. \A i \in 1 .. MAX_MSG_LEN :
        InBuffer(i)' => InBuffer(i) /\ msg_buffer'.body[i] = msg_buffer.body[i]
  BY DEF InBuffer
<1>3. \A d \in Ring : word'[d] <= received
  BY <1>1 DEF OnceInv, Garbage
<1>4. \A i \in 1 .. Copied' : msg_buffer'.body[i] <= received
  BY DEF OnceInv
<1>5. AtMostOnce' /\ \A i \in 1 .. Len(published) : published[i] <= received
  BY DEF OnceInv, AtMostOnce
<1>6. ASSUME NEW d \in Ring, Holds(d)'
      PROVE  /\ \A i \in 1 .. Len(published) : published[i] # word'[d]
             /\ \A e \in Ring : Holds(e)' /\ e # d => word'[e] # word'[d]
  BY <1>1, <1>6 DEF OnceInv
<1>7. ASSUME NEW i \in 1 .. MAX_MSG_LEN, InBuffer(i)'
      PROVE  /\ \A j \in 1 .. Len(published) : published[j] # msg_buffer'.body[i]
             /\ \A d \in Ring : Holds(d)' => word'[d] # msg_buffer'.body[i]
             /\ \A j \in 1 .. MAX_MSG_LEN :
                  InBuffer(j)' /\ j # i => msg_buffer'.body[j] # msg_buffer'.body[i]
  BY <1>1, <1>2, <1>7 DEF OnceInv
<1> QED
  BY <1>3, <1>4, <1>5, <1>6, <1>7 DEF OnceInv

\* A packet received is a new one.
LEMMA ReceiveKeepsOnce ==
  ASSUME TypeInv, OnceInv, Receive
  PROVE  OnceInv'
<1>1. /\ cur \in Ring /\ word \in [Ring -> Payload] /\ received \in Nat
      /\ received' = received + 1 /\ word' = [word EXCEPT ![cur] = received + 1]
      /\ stat' = [stat EXCEPT ![cur] = {"CMPLT"}] /\ stat \in [Ring -> SUBSET StatBits]
      /\ UNCHANGED <<published, msg_buffer, pc, words, word_idx>>
  BY StreamTypes DEF Receive, EngineComplete, serverVars, TypeInv, TypeOK, EngineTypeOK
<1>2. Copied' = Copied
  BY <1>1 DEF Copied
<1>3. \A d \in Ring : /\ word[d] \in Nat /\ word[d] <= received
                      /\ d # cur => word'[d] = word[d] /\ (Holds(d)' <=> Holds(d))
                      /\ d = cur => word'[d] = received + 1
  BY <1>1 DEF OnceInv, Holds, dma_desc_cmplt, Payload
<1>4. \A i \in 1 .. Len(published) : published[i] \in Nat /\ published[i] <= received
  BY StreamTypes, ElementOfSeq DEF OnceInv, Payload
<1>5. /\ Copied \in 0 .. MAX_MSG_LEN
      /\ \A i \in 1 .. Copied : msg_buffer.body[i] \in Nat /\ msg_buffer.body[i] <= received
  BY StreamTypes DEF OnceInv, Payload, Copied
<1>6. \A i \in 1 .. MAX_MSG_LEN : InBuffer(i)' <=> InBuffer(i)
  BY <1>1, <1>2 DEF InBuffer
<1>7. /\ \A i \in 1 .. Len(published') : published'[i] <= received'
      /\ \A d \in Ring : word'[d] <= received'
      /\ \A i \in 1 .. Copied' : msg_buffer'.body[i] <= received'
      /\ AtMostOnce'
  BY <1>1, <1>2, <1>3, <1>4, <1>5 DEF OnceInv, AtMostOnce
<1>8. ASSUME NEW d \in Ring, Holds(d)'
      PROVE  /\ \A i \in 1 .. Len(published) : published[i] # word'[d]
             /\ \A e \in Ring : Holds(e)' /\ e # d => word'[e] # word'[d]
  <2>1. CASE d = cur
    BY <1>1, <1>3, <1>4, <2>1
  <2>2. CASE d # cur
    BY <1>1, <1>3, <1>8, <2>2 DEF OnceInv
  <2> QED
    BY <2>1, <2>2
<1>9. ASSUME NEW i \in 1 .. MAX_MSG_LEN, InBuffer(i)
      PROVE  /\ \A j \in 1 .. Len(published) : published[j] # msg_buffer.body[i]
             /\ \A d \in Ring : Holds(d)' => word'[d] # msg_buffer.body[i]
             /\ \A j \in 1 .. MAX_MSG_LEN :
                  InBuffer(j) /\ j # i => msg_buffer.body[j] # msg_buffer.body[i]
  <2>1. msg_buffer.body[i] \in Nat /\ msg_buffer.body[i] <= received
    BY <1>5, <1>9 DEF InBuffer
  <2> QED
    BY <1>1, <1>3, <1>9, <2>1 DEF OnceInv
<1> QED
  BY <1>1, <1>6, <1>7, <1>8, <1>9 DEF OnceInv

\* A word copied leaves its descriptor.
LEMMA CopyKeepsOnce ==
  ASSUME TypeInv, CollectedInv, OnceInv, CopyWord
  PROVE  OnceInv'
<1> DEFINE n == word_idx + 1
<1>1. /\ pc = "copy" /\ pc' = pc /\ word_idx < words /\ word_idx' = n
      /\ msg_buffer' = [msg_buffer EXCEPT !.body[n] = word[prev]]
      /\ stat' = [stat EXCEPT ![prev] = {}] /\ stat \in [Ring -> SUBSET StatBits]
      /\ prev \in Ring /\ curr \in Ring /\ word_idx \in Nat /\ words \in 0 .. MAX_MSG_LEN
      /\ msg_buffer.body \in [1 .. MAX_MSG_LEN -> Payload]
      /\ UNCHANGED <<word, published, received>>
  BY StreamTypes DEF CopyWord, ClearStat, WordToCopy, TypeInv, TypeOK, EngineTypeOK
<1>2. n \in 1 .. MAX_MSG_LEN /\ Copied = word_idx /\ Copied' = n
  BY <1>1 DEF Copied
<1>3. dma_desc_cmplt(prev)
  <2>1. Dist(prev, prev) = 0 /\ Dist(prev, curr) = words - word_idx
    BY <1>1, DistRange DEF CollectedInv
  <2>2. Dist(prev, prev) < Dist(prev, curr)
    BY <1>1, <2>1
  <2> QED
    BY <1>1, <2>2 DEF CollectedInv
<1>4. \A d \in Ring : Holds(d)' <=> Holds(d) /\ d # prev
  BY <1>1 DEF Holds, dma_desc_cmplt
<1>5. \A i \in 1 .. MAX_MSG_LEN :
        msg_buffer'.body[i] = IF i = n THEN word[prev] ELSE msg_buffer.body[i]
  BY <1>1, <1>2, StreamTypes
<1>6. \A i \in 1 .. MAX_MSG_LEN :
        InBuffer(i)' <=> IF i = n THEN Holds(prev) ELSE InBuffer(i)
  <2> SUFFICES ASSUME NEW i \in 1 .. MAX_MSG_LEN
               PROVE  InBuffer(i)' <=> IF i = n THEN Holds(prev) ELSE InBuffer(i)
    OBVIOUS
  <2>1. InBuffer(i)' <=> i \in 1 .. n /\ msg_buffer'.body[i] # Garbage
    BY <1>2 DEF InBuffer
  <2>2. CASE i = n
    BY <1>1, <1>2, <1>3, <1>5, <2>1, <2>2 DEF Holds
  <2>3. CASE i # n
    BY <1>1, <1>2, <1>5, <2>1, <2>3 DEF InBuffer
  <2> QED
    BY <2>2, <2>3
<1>7. /\ \A i \in 1 .. Len(published') : published'[i] <= received'
      /\ \A d \in Ring : word'[d] <= received'
      /\ AtMostOnce'
  BY <1>1 DEF OnceInv, AtMostOnce
<1>8. \A i \in 1 .. Copied' : msg_buffer'.body[i] <= received'
  BY <1>1, <1>2, <1>5 DEF OnceInv
<1> HIDE DEF n
<1>9. ASSUME NEW d \in Ring, Holds(d)'
      PROVE  /\ \A i \in 1 .. Len(published) : published[i] # word[d]
             /\ \A e \in Ring : Holds(e)' /\ e # d => word[e] # word[d]
  BY <1>4, <1>9 DEF OnceInv
<1>10. ASSUME NEW i \in 1 .. MAX_MSG_LEN, InBuffer(i)'
       PROVE  /\ \A j \in 1 .. Len(published) : published[j] # msg_buffer'.body[i]
              /\ \A d \in Ring : Holds(d)' => word[d] # msg_buffer'.body[i]
              /\ \A j \in 1 .. MAX_MSG_LEN :
                   InBuffer(j)' /\ j # i => msg_buffer'.body[j] # msg_buffer'.body[i]
  <2>1. CASE i = n
    BY <1>1, <1>4, <1>5, <1>6, <1>10, <2>1 DEF OnceInv
  <2>2. CASE i # n
    BY <1>1, <1>4, <1>5, <1>6, <1>10, <2>2 DEF OnceInv
  <2> QED
    BY <2>1, <2>2
<1> QED
  BY <1>1, <1>7, <1>8, <1>9, <1>10 DEF OnceInv

\* The words of the buffer become published ones.
LEMMA SendKeepsOnce ==
  ASSUME TypeInv, OnceInv, Send
  PROVE  OnceInv'
<1> DEFINE message == SubSeq(msg_buffer.body, 1, words)
           n == Len(published)
<1>1. /\ pc = "send" /\ pc' = "check" /\ published' = published \o message
      /\ words \in 0 .. MAX_MSG_LEN /\ n \in Nat
      /\ msg_buffer.body \in [1 .. MAX_MSG_LEN -> Payload]
      /\ UNCHANGED <<stat, word, msg_buffer, received>>
  BY StreamTypes DEF Send, engineVars
<1>2. Copied = words /\ Copied' = 0
  BY <1>1 DEF Copied
<1>3. /\ message \in Seq(Payload) /\ Len(message) = words
      /\ \A i \in 1 .. words : message[i] = msg_buffer.body[i]
  BY <1>1, BufferIsMessage DEF Message
<1>4. /\ Len(published') = n + words
      /\ \A i \in 1 .. n + words :
           published'[i] = IF i <= n THEN published[i] ELSE message[i - n]
  <2> HIDE DEF message
  <2>1. /\ Len(published \o message) = Len(published) + Len(message)
        /\ \A i \in 1 .. Len(published) + Len(message) :
             (published \o message)[i] = IF i <= Len(published) THEN published[i]
                                        ELSE message[i - Len(published)]
    BY <1>3, StreamTypes, ConcatProperties
  <2> QED
    BY <1>1, <1>3, <2>1
<1> HIDE DEF message
\* Where a word of published' comes from.
<1>5. ASSUME NEW i \in 1 .. n + words
      PROVE  \/ i \in 1 .. n /\ published'[i] = published[i]
             \/ i - n \in 1 .. words /\ published'[i] = msg_buffer.body[i - n]
  <2>1. CASE i <= n
    BY <1>1, <1>4, <2>1
  <2>2. CASE i > n
    <3>1. i - n \in 1 .. words
      BY <1>1, <2>2
    <3>2. message[i - n] = msg_buffer.body[i - n]
      BY <1>3, <3>1
    <3> QED
      BY <1>1, <1>4, <2>2, <3>1, <3>2
  <2>3. i <= n \/ i > n
    BY <1>1
  <2> QED
    BY <2>1, <2>2, <2>3
<1>6. \A d \in Ring : Holds(d)' <=> Holds(d)
  BY <1>1 DEF Holds, dma_desc_cmplt
<1>7. \A i \in 1 .. MAX_MSG_LEN : InBuffer(i) <=> i \in 1 .. words /\ msg_buffer.body[i] # Garbage
  BY <1>2 DEF InBuffer
<1>8. \A i \in 1 .. words : i \in 1 .. MAX_MSG_LEN
  BY <1>1
<1>9. \A i \in 1 .. Len(published') : published'[i] <= received'
  BY <1>1, <1>2, <1>4, <1>5 DEF OnceInv
<1>10. AtMostOnce'
  <2> SUFFICES ASSUME NEW i \in 1 .. n + words, NEW j \in 1 .. n + words,
                      published'[i] # Garbage, i # j
               PROVE  published'[i] # published'[j]
    BY <1>4 DEF AtMostOnce
  <2>1. CASE i \in 1 .. n /\ published'[i] = published[i]
    <3>1. CASE j \in 1 .. n /\ published'[j] = published[j]
      BY <2>1, <3>1 DEF OnceInv, AtMostOnce
    <3>2. CASE j - n \in 1 .. words /\ published'[j] = msg_buffer.body[j - n]
      BY <1>7, <1>8, <2>1, <3>2 DEF OnceInv
    <3> QED
      BY <1>5, <3>1, <3>2
  <2>2. CASE i - n \in 1 .. words /\ published'[i] = msg_buffer.body[i - n]
    <3>1. CASE j \in 1 .. n /\ published'[j] = published[j]
      BY <1>7, <1>8, <2>2, <3>1 DEF OnceInv
    <3>2. CASE j - n \in 1 .. words /\ published'[j] = msg_buffer.body[j - n]
      <4>1. i - n # j - n
        BY <1>1
      <4>2. CASE msg_buffer.body[j - n] = Garbage
        BY <2>2, <3>2, <4>2
      <4>3. CASE msg_buffer.body[j - n] # Garbage
        <5>1. InBuffer(i - n) /\ InBuffer(j - n)
          BY <1>7, <1>8, <2>2, <3>2, <4>3
        <5> QED
          BY <1>8, <2>2, <3>2, <4>1, <5>1 DEF OnceInv
      <4> QED
        BY <4>2, <4>3
    <3> QED
      BY <1>5, <3>1, <3>2
  <2> QED
    BY <1>5, <2>1, <2>2
<1>11. ASSUME NEW d \in Ring, Holds(d)'
       PROVE  /\ \A i \in 1 .. Len(published') : published'[i] # word[d]
              /\ \A e \in Ring : Holds(e)' /\ e # d => word[e] # word[d]
  <2>1. Holds(d) /\ word[d] # Garbage
    BY <1>6, <1>11 DEF Holds
  <2>2. ASSUME NEW i \in 1 .. n + words
        PROVE  published'[i] # word[d]
    <3>1. CASE i \in 1 .. n /\ published'[i] = published[i]
      BY <2>1, <3>1 DEF OnceInv
    <3>2. CASE i - n \in 1 .. words /\ published'[i] = msg_buffer.body[i - n]
      BY <1>7, <1>8, <2>1, <3>2 DEF OnceInv
    <3> QED
      BY <1>5, <3>1, <3>2
  <2> QED
    BY <1>4, <1>6, <2>1, <2>2 DEF OnceInv
<1>12. \A i \in 1 .. MAX_MSG_LEN : ~ InBuffer(i)'
  BY <1>2 DEF InBuffer
<1>13. (\A d \in Ring : word'[d] <= received') /\ \A i \in 1 .. Copied' : FALSE
  BY <1>1, <1>2 DEF OnceInv
<1> QED
  BY <1>1, <1>9, <1>10, <1>11, <1>12, <1>13 DEF OnceInv

LEMMA OnceStep == TypeInv /\ CollectedInv /\ OnceInv /\ [AnyNext]_vars => OnceInv'
<1> SUFFICES ASSUME TypeInv, CollectedInv, OnceInv, [AnyNext]_vars PROVE OnceInv'
  OBVIOUS
<1>1. CASE CopyWord
  BY <1>1, CopyKeepsOnce
<1>2. CASE Send
  BY <1>2, SendKeepsOnce
<1>3. CASE Receive
  BY <1>3, ReceiveKeepsOnce
<1>4. CASE Compose
  <2>1. /\ pc' = "copy" /\ word_idx' = 0
        /\ UNCHANGED <<stat, word, published, received>>
    BY <1>4 DEF Compose, engineVars
  <2>2. Copied' = 0 /\ \A d \in Ring : Holds(d)' <=> Holds(d)
    BY <2>1 DEF Copied, Holds, dma_desc_cmplt
  <2> QED
    BY <2>1, <2>2, OthersKeepOnce
<1>5. CASE UpdateTail
  <2>1. /\ pc = "copy" /\ pc' = "send" /\ word_idx = words
        /\ UNCHANGED <<stat, word, words, msg_buffer, published, received>>
    BY <1>5 DEF UpdateTail
  <2>2. Copied' = Copied /\ \A d \in Ring : Holds(d)' <=> Holds(d)
    BY <2>1 DEF Copied, Holds, dma_desc_cmplt
  <2> QED
    BY <2>1, <2>2, OthersKeepOnce
<1>6. CASE Collect \/ CollectEnd \/ Check \/ RestartDma
  <2>1. /\ pc' \in {"collect", "wait", "down"}
        /\ UNCHANGED <<stat, word, msg_buffer, published, received>>
    BY <1>6 DEF Collect, CollectEnd, Check, RestartDma, engineVars
  <2>2. Copied' = 0 /\ \A d \in Ring : Holds(d)' <=> Holds(d)
    BY <2>1 DEF Copied, Holds, dma_desc_cmplt
  <2> QED
    BY <2>1, <2>2, OthersKeepOnce
<1>7. CASE Kill
  <2>1. /\ pc' = "down" /\ UNCHANGED <<stat, word, msg_buffer, published, received>>
    BY <1>7 DEF Kill, engineVars
  <2>2. Copied' = 0 /\ \A d \in Ring : Holds(d)' <=> Holds(d)
    BY <2>1 DEF Copied, Holds, dma_desc_cmplt
  <2> QED
    BY <2>1, <2>2, OthersKeepOnce
<1>8. CASE Launch
  <2>1. /\ pc' = "restart_dma" /\ UNCHANGED <<published, received>>
        /\ \A d \in Ring : word'[d] = Garbage /\ stat'[d] = {}
    BY <1>8 DEF Launch, RingMemoryZeroed
  <2>2. Copied' = 0 /\ \A d \in Ring : ~ Holds(d)'
    BY <2>1 DEF Copied, Holds, dma_desc_cmplt
  <2> QED
    BY <2>1, <2>2, OthersKeepOnce
<1>9. CASE TransferError
  <2>1. /\ stat \in [Ring -> SUBSET StatBits] /\ word \in [Ring -> Payload] /\ cur \in Ring
    BY StreamTypes DEF TypeInv, TypeOK, EngineTypeOK
  <2>2. /\ word' = [word EXCEPT ![cur] = Garbage]
        /\ stat' = [stat EXCEPT ![cur] = {"CMPLT", "ERR"}]
        /\ UNCHANGED <<pc, words, word_idx, msg_buffer, published, received>>
    BY <1>9 DEF TransferError, EngineTransferError, serverVars
  <2>3. \A d \in Ring : /\ word'[d] = word[d] \/ word'[d] = Garbage
                        /\ Holds(d)' => Holds(d)
    BY <2>1, <2>2 DEF Holds, dma_desc_cmplt
  <2>4. Copied' = Copied
    BY <2>2 DEF Copied
  <2> QED
    BY <2>2, <2>3, <2>4, OthersKeepOnce
<1>10. CASE UNCHANGED <<stat, word, serverVars, msg_buffer, published, received>>
  <2>1. Copied' = Copied /\ \A d \in Ring : Holds(d)' <=> Holds(d)
    BY <1>10 DEF Copied, Holds, dma_desc_cmplt, serverVars
  <2> QED
    BY <1>10, <2>1, OthersKeepOnce
<1> QED
  BY <1>1, <1>2, <1>3, <1>4, <1>5, <1>6, <1>7, <1>8, <1>9, <1>10
  DEF AnyNext, FaultNext, CrashNext, SlowNext, NominalNext, ServerStep, ChannelStep,
      SubscriberStep, StaleFetch, EngineStaleFetch, ChannelError, EngineChannelError,
      IoSend, Subscribe, Unsubscribe, Expire, vars, engineVars

(* No packet is published twice, whatever errors stop the channel, wherever  *)
(* it is restarted and whenever the server is killed: a word leaves its      *)
(* descriptor when it is copied, and only a new packet completes one again   *)
(* (pacman_dataserver.cc:61, 124-143 and 166).                               *)
THEOREM PublishedOnce == AnySpec => []AtMostOnce
<1>1. Init => TypeInv /\ CollectedInv /\ OnceInv
  BY TypeInit, CollectedInit, OnceInit
<1>2. TypeInv /\ CollectedInv /\ OnceInv /\ [AnyNext]_vars
        => (TypeInv /\ CollectedInv /\ OnceInv)'
  BY TypeStep, RoomStep, CollectedStep, OnceStep DEF TypeInv
<1>3. OnceInv => AtMostOnce
  BY DEF OnceInv
<1> QED
  BY <1>1, <1>2, <1>3, PTL DEF AnySpec

-----------------------------------------------------------------------------
(* Restarts of the channel. *)

\* Between two restarts the server's pointers follow the TAIL register, errors
\* or not.
TailInv ==
  /\ pc \in {"collect", "wait", "send", "check"} => prev = Base
  /\ pc = "copy" => word_idx = Dist(Base, prev) /\ words < RingSize
  /\ pc \in {"wait", "copy", "send"} => words > 0
  /\ pc \notin {"down", "restart_dma"}

\* Every packet received is a word of s, in order, besides what failed transfers
\* have left.
AllInOrder(s) ==
  /\ \A i \in 1 .. Len(s) : s[i] <= received
  /\ \A i, j \in 1 .. Len(s) : i < j /\ s[j] # Garbage => s[i] < s[j]
  /\ \A n \in 1 .. received : \E i \in 1 .. Len(s) : s[i] = n

\* The words of s that are still in descriptors.
Ahead(s) == Len(s) - Len(published) - Copied

\* The words published, those in the buffer and those in the complete descriptors
\* from prev on are s.
HoldsAll(s) ==
  /\ Ahead(s) \in 0 .. RingSize
  /\ \A i \in 1 .. Len(published) : published[i] = s[i]
  /\ \A i \in 1 .. Copied : msg_buffer.body[i] = s[Len(published) + i]
  /\ \A d \in Ring : dma_desc_cmplt(d) <=> Dist(prev, d) < Ahead(s)
  /\ \A d \in Ring :
       Dist(prev, d) < Ahead(s) => word[d] = s[Len(published) + Copied + Dist(prev, d) + 1]

\* A channel that runs is at the end of them; a halted one may be anywhere.
ChannelAfter(s) ==
  /\ Dist(Base, prev) + Ahead(s) <= RingSize
  /\ mode = "idle" => Dist(Base, prev) + Ahead(s) = RingSize /\ cur = Base
  /\ mode = "busy" => Dist(Base, cur) = Dist(Base, prev) + Ahead(s)

Transferred(s) == AllInOrder(s) /\ HoldsAll(s) /\ ChannelAfter(s)

GapInv == TailInv /\ \E s \in Seq(Payload) : Transferred(s)

LEMMA GapInit == Init => GapInv
<1> SUFFICES ASSUME Init PROVE GapInv
  OBVIOUS
<1>1. Base = 0 /\ Dist(0, 0) = 0 /\ \A d \in Ring : ~ (Dist(0, d) < 0)
  BY DEF Init, EngineInit, Base, NextOf, PrevOf, Dist, Ring
<1>2. << >> \in Seq(Payload) /\ Len(<< >>) = 0 /\ Len(published) = 0 /\ Copied = 0
      /\ received = 0
  BY EmptySeq DEF Init, Copied
<1>3. Ahead(<< >>) = 0 /\ AllInOrder(<< >>)
  BY <1>2 DEF Ahead, AllInOrder
<1>4. HoldsAll(<< >>)
  BY <1>1, <1>2, <1>3 DEF HoldsAll, Init, EngineInit, dma_desc_cmplt
<1>5. ChannelAfter(<< >>)
  BY <1>1, <1>3 DEF ChannelAfter, Init, EngineInit
<1>6. TailInv
  BY <1>1 DEF TailInv, Init
<1> QED
  BY <1>2, <1>3, <1>4, <1>5, <1>6 DEF GapInv, Transferred

\* A step that moves no word and at most halts the channel.
LEMMA OthersKeepGap ==
  ASSUME GapInv, TailInv',
         UNCHANGED <<stat, cur, tail, word, prev, received, published, msg_buffer>>,
         Copied' = Copied, mode' \in {mode, "halted"}
  PROVE  GapInv'
<1> PICK s \in Seq(Payload) : Transferred(s)
  BY DEF GapInv
<1>1. Ahead(s)' = Ahead(s) /\ Base' = Base
  BY DEF Ahead, Base
<1>2. AllInOrder(s)'
  BY DEF Transferred, AllInOrder
<1>3. HoldsAll(s)'
  BY <1>1 DEF Transferred, HoldsAll, dma_desc_cmplt
<1>4. ChannelAfter(s)'
  BY <1>1 DEF Transferred, ChannelAfter
<1> QED
  BY <1>2, <1>3, <1>4 DEF GapInv, Transferred

\* A word copied goes from the descriptors to the buffer.
LEMMA CopyKeepsGap ==
  ASSUME TypeInv, CollectedInv, GapInv, CopyWord
  PROVE  GapInv'
<1> PICK s \in Seq(Payload) : Transferred(s)
  BY DEF GapInv
<1> DEFINE n == word_idx + 1
           r == Ahead(s)
           m == Len(published)
<1>1. /\ pc = "copy" /\ pc' = pc /\ word_idx < words /\ word_idx' = n
      /\ msg_buffer' = [msg_buffer EXCEPT !.body[n] = word[prev]]
      /\ stat' = [stat EXCEPT ![prev] = {}] /\ stat \in [Ring -> SUBSET StatBits]
      /\ prev' = NextOf(prev)
      /\ prev \in Ring /\ curr \in Ring /\ word_idx \in Nat /\ words \in 0 .. MAX_MSG_LEN
      /\ msg_buffer.body \in [1 .. MAX_MSG_LEN -> Payload]
      /\ UNCHANGED <<cur, tail, mode, words, word, published, received>>
  BY StreamTypes DEF CopyWord, ClearStat, WordToCopy, TypeInv, TypeOK, EngineTypeOK
<1>2. Copied = word_idx /\ Copied' = n /\ m \in Nat /\ Len(s) \in Nat
  BY <1>1, StreamTypes, LenProperties DEF Copied
<1>3. r \in 1 .. RingSize /\ word[prev] = s[m + n] /\ Ahead(s)' = r - 1
  <2>1. Dist(prev, prev) = 0 /\ Dist(prev, curr) = words - word_idx
    BY <1>1, DistRange DEF CollectedInv
  <2>2. dma_desc_cmplt(prev)
    BY <1>1, <2>1 DEF CollectedInv
  <2>3. Dist(prev, prev) < r /\ r \in 0 .. RingSize
    BY <1>1, <2>2 DEF Transferred, HoldsAll
  <2>4. word[prev] = s[m + word_idx + 0 + 1]
    BY <1>1, <1>2, <2>1, <2>3 DEF Transferred, HoldsAll
  <2>5. m + word_idx + 0 + 1 = m + n
    BY <1>1, <1>2
  <2>6. Ahead(s)' = r - 1
    BY <1>1, <1>2 DEF Ahead
  <2> QED
    BY <2>1, <2>3, <2>4, <2>5, <2>6
<1>4. \A d \in Ring : /\ Dist(prev', d) = IF d = prev THEN RingSize - 1 ELSE Dist(prev, d) - 1
                      /\ Dist(prev, d) \in 0 .. RingSize - 1
                      /\ Dist(prev, d) = 0 <=> prev = d
  BY <1>1, DistRange, DistFromNext
<1> HIDE DEF r
<1>5. \A i \in 1 .. n : msg_buffer'.body[i] = s[m + i]
  <2> SUFFICES ASSUME NEW i \in 1 .. n PROVE msg_buffer'.body[i] = s[m + i]
    OBVIOUS
  <2>1. i \in 1 .. MAX_MSG_LEN /\ (i = n \/ i \in 1 .. word_idx)
    BY <1>1
  <2>2. msg_buffer'.body[i] = IF i = n THEN word[prev] ELSE msg_buffer.body[i]
    BY <1>1, <2>1, StreamTypes
  <2>3. i \in 1 .. word_idx => msg_buffer.body[i] = s[m + i]
    BY <1>2 DEF Transferred, HoldsAll
  <2> QED
    BY <1>3, <2>1, <2>2, <2>3
<1>6. ASSUME NEW d \in Ring
      PROVE  /\ dma_desc_cmplt(d)' <=> Dist(prev', d) < r - 1
             /\ Dist(prev', d) < r - 1 => word[d] = s[m + n + Dist(prev', d) + 1]
  <2>1. dma_desc_cmplt(d) <=> Dist(prev, d) < r
    BY DEF r, Transferred, HoldsAll
  <2>2. Dist(prev, d) < r => word[d] = s[m + word_idx + Dist(prev, d) + 1]
    BY <1>2 DEF r, Transferred, HoldsAll
  <2>3. dma_desc_cmplt(d)' <=> dma_desc_cmplt(d) /\ d # prev
    BY <1>1 DEF dma_desc_cmplt
  <2>4. CASE d = prev
    BY <1>3, <1>4, <2>3, <2>4
  <2>5. CASE d # prev
    <3>1. Dist(prev', d) = Dist(prev, d) - 1 /\ Dist(prev, d) \in Nat
      BY <1>4, <2>5
    <3>2. m + n + Dist(prev', d) + 1 = m + word_idx + Dist(prev, d) + 1
      BY <1>1, <1>2, <3>1
    <3>3. Dist(prev', d) < r - 1 <=> Dist(prev, d) < r
      BY <1>3, <3>1
    <3> QED
      BY <2>1, <2>2, <2>3, <2>5, <3>2, <3>3
  <2> QED
    BY <2>4, <2>5
<1>7. HoldsAll(s)'
  <2>1. \A i \in 1 .. Len(published') : published'[i] = s[i]
    BY <1>1 DEF Transferred, HoldsAll
  <2> QED
    BY <1>1, <1>2, <1>3, <1>5, <1>6, <2>1 DEF HoldsAll
<1>8. Base' = Base /\ Base \in Ring
  BY <1>1, FilledRange DEF Base
<1>9. Dist(Base, prev') = Dist(Base, prev) + 1 /\ Dist(Base, prev) \in Nat
  <2>1. /\ Dist(Base, prev) \in 0 .. RingSize - 1 /\ Dist(Base, prev) + r <= RingSize
        /\ Dist(Base, prev') = IF Dist(Base, prev) = RingSize - 1 THEN 0
                               ELSE Dist(Base, prev) + 1
    BY <1>1, <1>8, DistRange, DistNext DEF r, Transferred, ChannelAfter
  <2>2. word_idx = Dist(Base, prev) /\ words < RingSize
    BY <1>1 DEF GapInv, TailInv
  <2> QED
    BY <1>1, <2>1, <2>2
<1>10. ChannelAfter(s)'
  <2>1. Dist(Base', prev') + Ahead(s)' = Dist(Base, prev) + r
    BY <1>3, <1>8, <1>9
  <2> QED
    BY <1>1, <1>8, <2>1 DEF r, Transferred, ChannelAfter
<1>11. AllInOrder(s)'
  BY <1>1 DEF Transferred, AllInOrder
<1>12. TailInv'
  BY <1>1, <1>8, <1>9 DEF GapInv, TailInv
<1> QED
  BY <1>7, <1>10, <1>11, <1>12 DEF GapInv, Transferred

\* The words of the buffer are published.
LEMMA SendKeepsGap ==
  ASSUME TypeInv, CollectedInv, GapInv, Send
  PROVE  GapInv'
<1> PICK s \in Seq(Payload) : Transferred(s)
  BY DEF GapInv
<1> DEFINE message == SubSeq(msg_buffer.body, 1, words)
           m == Len(published)
<1>1. /\ pc = "send" /\ pc' = "check" /\ published' = published \o message
      /\ prev' = curr /\ words' = 0 /\ words \in 0 .. MAX_MSG_LEN /\ m \in Nat
      /\ msg_buffer.body \in [1 .. MAX_MSG_LEN -> Payload]
      /\ UNCHANGED <<stat, cur, tail, mode, word, msg_buffer, received>>
  BY StreamTypes DEF Send, engineVars
<1>2. Copied = words /\ Copied' = 0 /\ prev' = prev /\ Base' = Base
  BY <1>1 DEF Copied, CollectedInv, Base
<1>3. /\ message \in Seq(Payload) /\ Len(message) = words
      /\ \A i \in 1 .. words : message[i] = msg_buffer.body[i]
  BY <1>1, BufferIsMessage DEF Message
<1> HIDE DEF message
<1>4. /\ Len(published') = m + words
      /\ \A i \in 1 .. m + words :
           published'[i] = IF i <= m THEN published[i] ELSE message[i - m]
  <2>1. /\ Len(published \o message) = Len(published) + Len(message)
        /\ \A i \in 1 .. Len(published) + Len(message) :
             (published \o message)[i] = IF i <= Len(published) THEN published[i]
                                        ELSE message[i - Len(published)]
    BY <1>3, StreamTypes, ConcatProperties
  <2> QED
    BY <1>1, <1>3, <2>1
<1>5. Len(s) \in Nat /\ Ahead(s)' = Ahead(s)
  BY <1>1, <1>2, <1>4, LenProperties DEF Ahead
<1>6. ASSUME NEW i \in 1 .. m + words
      PROVE  published'[i] = s[i]
  <2>1. CASE i <= m
    BY <1>1, <1>4, <2>1 DEF Transferred, HoldsAll
  <2>2. CASE i > m
    <3>1. i - m \in 1 .. words /\ m + (i - m) = i
      BY <1>1, <2>2
    <3>2. message[i - m] = s[m + (i - m)]
      BY <1>2, <1>3, <3>1 DEF Transferred, HoldsAll
    <3> QED
      BY <1>1, <1>4, <2>2, <3>1, <3>2
  <2>3. i <= m \/ i > m
    BY <1>1
  <2> QED
    BY <2>1, <2>2, <2>3
<1>7. HoldsAll(s)'
  <2>1. ASSUME NEW d \in Ring, Dist(prev, d) < Ahead(s)
        PROVE  word[d] = s[m + words + 0 + Dist(prev, d) + 1]
    <3>1. word[d] = s[m + words + Dist(prev, d) + 1]
      BY <1>2, <2>1 DEF Transferred, HoldsAll
    <3>2. m + words + 0 = m + words
      BY <1>1
    <3> QED
      BY <3>1, <3>2
  <2>2. \A i \in 1 .. Copied' : FALSE
    BY <1>2
  <2>3. /\ Ahead(s)' \in 0 .. RingSize
        /\ \A d \in Ring : dma_desc_cmplt(d)' <=> Dist(prev', d) < Ahead(s)'
    BY <1>1, <1>2, <1>5 DEF Transferred, HoldsAll, dma_desc_cmplt
  <2> QED
    BY <1>1, <1>2, <1>4, <1>5, <1>6, <2>1, <2>2, <2>3 DEF HoldsAll
<1>8. ChannelAfter(s)' /\ AllInOrder(s)'
  BY <1>1, <1>2, <1>5 DEF Transferred, ChannelAfter, AllInOrder
<1>9. TailInv'
  BY <1>1, <1>2 DEF GapInv, TailInv
<1> QED
  BY <1>7, <1>8, <1>9 DEF GapInv, Transferred

\* The channel is given the descriptors up to prev.
LEMMA TailKeepsGap ==
  ASSUME TypeInv, CollectedInv, GapInv, UpdateTail
  PROVE  GapInv'
<1> PICK s \in Seq(Payload) : Transferred(s)
  BY DEF GapInv
<1> DEFINE r == Ahead(s)
<1>1. /\ pc = "copy" /\ pc' = "send" /\ word_idx = words
      /\ tail' = PrevOf(prev) /\ mode' = IF mode = "idle" THEN "busy" ELSE mode
      /\ UNCHANGED <<stat, cur, prev, curr, word, words, msg_buffer, published, received>>
  BY DEF UpdateTail, WriteTail, NewTail
<1>2. cur \in Ring /\ prev \in Ring /\ Base \in Ring /\ words \in Nat
  BY StreamTypes, FilledRange
<1>3. Base' = prev /\ Copied' = Copied
  BY <1>1, <1>2, NextOfPrev DEF Base, Copied
<1>4. words = Dist(Base, prev) /\ words > 0 /\ words < RingSize
  BY <1>1 DEF GapInv, TailInv
<1>5. r \in 0 .. RingSize /\ Ahead(s)' = r /\ HoldsAll(s)'
  BY <1>1, <1>3 DEF Transferred, HoldsAll, Ahead, dma_desc_cmplt
<1>6. /\ words + r <= RingSize
      /\ mode = "idle" => words + r = RingSize /\ cur = Base
      /\ mode = "busy" => Dist(Base, cur) = words + r
  BY <1>4 DEF Transferred, ChannelAfter
<1>7. /\ Dist(prev, cur) \in 0 .. RingSize - 1
      /\ Dist(prev', prev') = 0
      /\ Dist(Base, cur) = IF words + Dist(prev, cur) < RingSize
                           THEN words + Dist(prev, cur)
                           ELSE words + Dist(prev, cur) - RingSize
      /\ cur = Base => Dist(Base, cur) = 0
  <2>1. Dist(prev', prev') = 0 /\ Dist(prev, cur) \in 0 .. RingSize - 1
    BY <1>1, <1>2, DistRange
  <2>2. cur = Base => Dist(Base, cur) = 0
    BY <1>2, DistRange
  <2> QED
    BY <1>2, <1>4, <2>1, <2>2, DistShift
<1> HIDE DEF r
<1>8. mode' = "busy" => Dist(prev, cur) = r
  BY <1>1, <1>2, <1>4, <1>5, <1>6, <1>7
<1>9. mode' # "idle"
  BY <1>1
<1>10. ChannelAfter(s)'
  BY <1>1, <1>3, <1>5, <1>7, <1>8, <1>9 DEF ChannelAfter
<1>11. AllInOrder(s)'
  BY <1>1 DEF Transferred, AllInOrder
<1>12. TailInv'
  BY <1>1, <1>3 DEF GapInv, TailInv
<1> QED
  BY <1>5, <1>10, <1>11, <1>12 DEF GapInv, Transferred

\* A channel that is restarted with no complete descriptor in the ring goes on
\* where the server will look for the next word.
LEMMA CheckKeepsGap ==
  ASSUME TypeInv, CollectedInv, GapInv, ~ DirtyRestart, Check
  PROVE  GapInv'
<1>1. /\ pc = "check" /\ pc' = "collect"
      /\ UNCHANGED <<stat, prev, word, words, msg_buffer, published, received>>
  BY DEF Check
<1>2. prev = curr /\ prev = Base /\ Copied = 0 /\ Copied' = 0 /\ prev \in Ring
  BY <1>1, StreamTypes DEF CollectedInv, GapInv, TailInv, Copied
<1>3. CASE ~ RestartNeeded
  <2>1. UNCHANGED <<cur, tail, mode>>
    BY <1>3 DEF Check
  <2>2. TailInv'
    BY <1>1, <1>2, <2>1 DEF TailInv, Base
  <2> QED
    BY <1>1, <1>2, <2>1, <2>2, OthersKeepGap
<1>4. CASE RestartNeeded
  <2>1. cur' = curr /\ tail' = PrevOf(prev) /\ mode' \in {"halted", "busy"}
    BY <1>4 DEF Check, RestartAtWithTail, RestartPoint, NewTail
  <2>2. Base' = prev
    BY <1>2, <2>1, NextOfPrev DEF Base
  <2>3. \A d \in Ring : ~ dma_desc_cmplt(d)
    BY <1>1, <1>4 DEF DirtyRestart
  <2> PICK s \in Seq(Payload) : Transferred(s)
    BY DEF GapInv
  <2>4. Ahead(s) = 0 /\ Dist(prev, prev) = 0
    <3>1. ~ (Dist(prev, prev) < Ahead(s)) /\ Ahead(s) \in 0 .. RingSize
      BY <1>2, <2>3 DEF Transferred, HoldsAll
    <3> QED
      BY <1>2, <3>1, DistRange
  <2>5. Ahead(s)' = Ahead(s) /\ HoldsAll(s)' /\ AllInOrder(s)'
    BY <1>1, <1>2 DEF Transferred, HoldsAll, AllInOrder, Ahead, dma_desc_cmplt
  <2>6. ChannelAfter(s)'
    <3>1. Dist(Base', prev') = 0 /\ Dist(Base', cur') = 0 /\ Ahead(s)' = 0
      BY <1>1, <1>2, <2>1, <2>2, <2>4, <2>5
    <3> QED
      BY <2>1, <3>1 DEF ChannelAfter
  <2>7. TailInv'
    BY <1>1, <2>2 DEF TailInv
  <2> QED
    BY <2>5, <2>6, <2>7 DEF GapInv, Transferred
<1> QED
  BY <1>3, <1>4

\* The channel completes a descriptor: the word in it, a packet or what is left of
\* one, comes after all others.
LEMMA TransferKeepsGap ==
  ASSUME TypeInv, CollectedInv, GapInv, NEW w \in Payload,
         mode = "busy", ~ dma_desc_cmplt(cur),
         UNCHANGED <<serverVars, tail, msg_buffer, published>>,
         word' = [word EXCEPT ![cur] = w],
         "CMPLT" \in stat'[cur], \A d \in Ring \ {cur} : stat'[d] = stat[d],
         \/ w = Garbage /\ received' = received /\ mode' = "halted"
         \/ /\ w = received + 1 /\ received' = w /\ cur' = NextOf(cur)
            /\ mode' = IF cur = tail THEN "idle" ELSE "busy"
  PROVE  GapInv'
<1> PICK s \in Seq(Payload) : Transferred(s)
  BY DEF GapInv
<1> DEFINE t == Append(s, w)
           r == Ahead(s)
           m == Len(published)
           base == Dist(Base, prev)
<1>1. /\ cur \in Ring /\ tail \in Ring /\ prev \in Ring /\ Base \in Ring
      /\ word \in [Ring -> Payload] /\ received \in Nat /\ m \in Nat
  BY StreamTypes, FilledRange
<1>2. Copied' = Copied /\ Base' = Base /\ Copied \in Nat
  BY StreamTypes DEF Copied, Base, serverVars
<1>3. prev' = prev /\ pc' = pc /\ words' = words /\ word_idx' = word_idx
  BY DEF serverVars
<1>4. /\ t \in Seq(Payload) /\ Len(s) \in Nat /\ Len(t) = Len(s) + 1
      /\ \A i \in 1 .. Len(s) : t[i] = s[i] /\ s[i] \in Nat
      /\ t[Len(s) + 1] = w /\ w \in Nat
  BY AppendProperties, LenProperties, ElementOfSeq DEF Payload
<1>5. Ahead(t)' = r + 1 /\ r \in 0 .. RingSize /\ r = Len(s) - m - Copied
  BY <1>1, <1>2, <1>4 DEF Ahead, Transferred, HoldsAll
<1>6. base \in 0 .. RingSize - 1 /\ base + r <= RingSize /\ Dist(Base, cur) = base + r
  BY <1>1, DistRange DEF Transferred, ChannelAfter
<1>7. /\ Dist(Base, cur) \in 0 .. RingSize - 1 /\ Dist(prev, cur) \in 0 .. RingSize - 1
      /\ ~ (Dist(prev, cur) < r)
      /\ Dist(Base, cur) = IF base + Dist(prev, cur) < RingSize
                           THEN base + Dist(prev, cur)
                           ELSE base + Dist(prev, cur) - RingSize
  BY <1>1, DistRange, DistShift DEF Transferred, HoldsAll
<1> HIDE DEF t, r, base
<1>8. Dist(prev, cur) = r /\ base + r < RingSize
  BY <1>5, <1>6, <1>7
<1>9. AllInOrder(t)'
  <2>1. /\ \A i \in 1 .. Len(s) : s[i] <= received
        /\ \A i, j \in 1 .. Len(s) : i < j /\ s[j] # Garbage => s[i] < s[j]
        /\ \A n \in 1 .. received : \E i \in 1 .. Len(s) : s[i] = n
    BY DEF Transferred, AllInOrder
  <2>2. received <= received' /\ received' \in Nat /\ w <= received'
        /\ (w # Garbage => w > received)
    BY <1>1, <1>4 DEF Garbage
  <2>3. \A i \in 1 .. Len(t) : i = Len(s) + 1 \/ i \in 1 .. Len(s)
    BY <1>4
  <2>4. \A i \in 1 .. Len(t) : t[i] <= received'
    BY <1>1, <1>4, <2>1, <2>2, <2>3
  <2>5. ASSUME NEW i \in 1 .. Len(t), NEW j \in 1 .. Len(t), i < j, t[j] # Garbage
        PROVE  t[i] < t[j]
    <3>1. i \in 1 .. Len(s)
      BY <1>4, <2>5
    <3>2. CASE j \in 1 .. Len(s)
      BY <1>4, <2>1, <2>5, <3>1, <3>2
    <3>3. CASE j = Len(s) + 1
      <4>1. s[i] <= received /\ s[i] \in Nat /\ t[i] = s[i] /\ t[j] = w
        BY <1>4, <2>1, <3>1, <3>3
      <4> QED
        BY <1>1, <1>4, <2>2, <2>5, <4>1
    <3> QED
      BY <2>3, <3>2, <3>3
  <2>6. ASSUME NEW n \in 1 .. received'
        PROVE  \E i \in 1 .. Len(t) : t[i] = n
    <3>1. CASE n \in 1 .. received
      <4>1. PICK i \in 1 .. Len(s) : s[i] = n
        BY <2>1, <3>1
      <4>2. i \in 1 .. Len(t) /\ t[i] = n
        BY <1>4, <4>1
      <4> QED
        BY <4>2
    <3>2. CASE n \notin 1 .. received
      <4>1. n = w
        BY <1>1, <2>2, <3>2
      <4>2. Len(s) + 1 \in 1 .. Len(t)
        BY <1>4
      <4> QED
        BY <1>4, <4>1, <4>2
    <3> QED
      BY <3>1, <3>2
  <2> QED
    BY <2>4, <2>5, <2>6 DEF AllInOrder
<1>10. HoldsAll(t)'
  <2>1. m <= Len(s) /\ m + Copied <= Len(s)
    BY <1>1, <1>2, <1>4, <1>5
  <2>2. \A i \in 1 .. m : published[i] = t[i]
    <3>1. \A i \in 1 .. m : i \in 1 .. Len(s) /\ published[i] = s[i]
      BY <1>1, <1>4, <2>1 DEF Transferred, HoldsAll
    <3> QED
      BY <1>4, <3>1
  <2>3. \A i \in 1 .. Copied : msg_buffer.body[i] = t[m + i]
    <3>1. \A i \in 1 .. Copied : msg_buffer.body[i] = s[m + i]
      BY DEF Transferred, HoldsAll
    <3>2. \A i \in 1 .. Copied : m + i \in 1 .. Len(s)
      BY <1>1, <1>2, <1>4, <2>1
    <3> QED
      BY <1>4, <3>1, <3>2
  <2>4. ASSUME NEW d \in Ring
        PROVE  /\ dma_desc_cmplt(d)' <=> Dist(prev, d) < r + 1
               /\ Dist(prev, d) < r + 1 => word'[d] = t[m + Copied + Dist(prev, d) + 1]
    <3>1. CASE d = cur
      <4>1. m + Copied + Dist(prev, d) + 1 = Len(s) + 1
        BY <1>1, <1>2, <1>4, <1>5, <1>8, <3>1
      <4>2. Dist(prev, d) < r + 1
        BY <1>5, <1>8, <3>1
      <4>3. word'[d] = w /\ dma_desc_cmplt(d)'
        BY <1>1, <3>1 DEF dma_desc_cmplt
      <4> QED
        BY <1>4, <4>1, <4>2, <4>3
    <3>2. CASE d # cur
      <4>1. /\ dma_desc_cmplt(d) <=> Dist(prev, d) < r
            /\ Dist(prev, d) < r => word[d] = s[m + Copied + Dist(prev, d) + 1]
        BY DEF r, Transferred, HoldsAll
      <4>2. Dist(prev, d) # r /\ Dist(prev, d) \in 0 .. RingSize - 1
        BY <1>1, <1>8, <3>2, DistInjective, DistRange
      <4>3. Dist(prev, d) < r + 1 <=> Dist(prev, d) < r
        BY <1>5, <4>2
      <4>4. Dist(prev, d) < r => m + Copied + Dist(prev, d) + 1 \in 1 .. Len(s)
        BY <1>1, <1>2, <1>4, <1>5, <4>2
      <4>5. word'[d] = word[d] /\ stat'[d] = stat[d]
        BY <1>1, <3>2
      <4> QED
        BY <1>4, <4>1, <4>3, <4>4, <4>5 DEF dma_desc_cmplt
    <3> QED
      BY <3>1, <3>2
  <2>5. r + 1 \in 0 .. RingSize
    BY <1>5, <1>6, <1>8
  <2> QED
    BY <1>2, <1>3, <1>5, <2>2, <2>3, <2>4, <2>5 DEF HoldsAll
<1>11. ChannelAfter(t)'
  <2>1. base + (r + 1) <= RingSize
    BY <1>5, <1>6, <1>8
  <2>2. CASE mode' = "halted"
    BY <1>2, <1>3, <1>5, <2>1, <2>2 DEF ChannelAfter, base
  <2>3. CASE /\ cur' = NextOf(cur)
             /\ mode' = IF cur = tail THEN "idle" ELSE "busy"
    <3>1. Dist(Base, NextOf(cur)) = IF base + r = RingSize - 1 THEN 0 ELSE base + r + 1
      BY <1>1, <1>6, DistNext
    <3>2. Dist(Base, tail) = RingSize - 1
      BY <1>1 DEF Base, Dist, Ring, NextOf
    <3>3. cur = tail <=> base + r = RingSize - 1
      BY <1>1, <1>6, <3>2, DistInjective
    <3>4. cur = tail => NextOf(cur) = Base
      BY DEF Base
    <3> QED
      BY <1>2, <1>3, <1>5, <1>6, <2>1, <2>3, <3>1, <3>3, <3>4 DEF ChannelAfter, base
  <2> QED
    BY <2>2, <2>3
<1>12. TailInv'
  BY <1>2, <1>3 DEF GapInv, TailInv
<1> QED
  BY <1>4, <1>9, <1>10, <1>11, <1>12 DEF GapInv, Transferred

LEMMA GapStep ==
  ASSUME TypeInv, CollectedInv, GapInv, ~ DirtyRestart, kills = 0, kills' = 0,
         [AnyNext]_vars
  PROVE  GapInv'
<1>0. /\ kills \in Nat /\ pc \notin {"down", "restart_dma"}
      /\ curr \in Ring /\ prev \in Ring /\ words \in Nat /\ word_idx \in Nat
      /\ cur \in Ring /\ stat \in [Ring -> SUBSET StatBits] /\ received \in Nat
      /\ Base \in Ring
  BY StreamTypes, FilledRange DEF GapInv, TailInv, TypeInv, TypeOK, EngineTypeOK
<1>1. CASE Collect
  <2>1. /\ pc = "collect" /\ pc' \in {"collect", "wait"} /\ words' = words + 1
        /\ UNCHANGED <<engineVars, word, prev, msg_buffer, received, published>>
    BY <1>1 DEF Collect
  <2>2. Copied' = Copied /\ TailInv'
    BY <1>0, <2>1 DEF GapInv, TailInv, Copied, Base, engineVars
  <2> QED
    BY <2>1, <2>2, OthersKeepGap DEF engineVars
<1>2. CASE CollectEnd
  <2>1. /\ pc = "collect" /\ pc' = "wait" /\ curr # prev
        /\ UNCHANGED <<engineVars, word, prev, words, msg_buffer, received, published>>
    BY <1>2 DEF CollectEnd
  <2>2. words > 0
    BY <1>0, <2>1, DistRange DEF CollectedInv
  <2>3. Copied' = Copied /\ TailInv'
    BY <2>1, <2>2 DEF GapInv, TailInv, Copied, Base, engineVars
  <2> QED
    BY <2>1, <2>3, OthersKeepGap DEF engineVars
<1>3. CASE Compose
  <2>1. /\ pc = "wait" /\ pc' = "copy" /\ word_idx' = 0
        /\ UNCHANGED <<engineVars, word, prev, words, received, published>>
    BY <1>3 DEF Compose
  <2>2. words = Dist(prev, curr) /\ words < RingSize /\ Dist(prev, prev) = 0
    BY <1>0, <2>1, DistRange DEF CollectedInv
  <2>3. Base' = Base /\ Copied = 0 /\ Copied' = 0
    BY <2>1 DEF Base, Copied, engineVars
  <2>4. TailInv'
    BY <2>1, <2>2, <2>3 DEF GapInv, TailInv
  <2> PICK s \in Seq(Payload) : Transferred(s)
    BY DEF GapInv
  <2>5. Transferred(s)'
    BY <2>1, <2>3
    DEF Transferred, AllInOrder, HoldsAll, ChannelAfter, Ahead, engineVars, dma_desc_cmplt
  <2> QED
    BY <2>4, <2>5 DEF GapInv
<1>4. CASE CopyWord
  BY <1>4, CopyKeepsGap
<1>5. CASE UpdateTail
  BY <1>5, TailKeepsGap
<1>6. CASE Send
  BY <1>6, SendKeepsGap
<1>7. CASE Check
  BY <1>7, CheckKeepsGap
<1>8. CASE Receive
  <2>1. /\ mode = "busy" /\ ~ dma_desc_cmplt(cur)
        /\ UNCHANGED <<serverVars, tail, msg_buffer, published>>
        /\ received' = received + 1 /\ received < MAX_PACKETS
        /\ word' = [word EXCEPT ![cur] = received + 1]
        /\ stat' = [stat EXCEPT ![cur] = {"CMPLT"}]
        /\ cur' = NextOf(cur) /\ mode' = IF cur = tail THEN "idle" ELSE "busy"
    BY <1>8 DEF Receive, EngineComplete
  <2>2. received + 1 \in Payload
    BY <1>0, <2>1 DEF Payload
  <2>3. "CMPLT" \in stat'[cur] /\ \A d \in Ring \ {cur} : stat'[d] = stat[d]
    BY <1>0, <2>1
  <2> QED
    BY <2>1, <2>2, <2>3, TransferKeepsGap
<1>9. CASE TransferError
  <2>1. /\ mode = "busy" /\ ~ dma_desc_cmplt(cur)
        /\ UNCHANGED <<serverVars, tail, msg_buffer, published>>
        /\ received' = received /\ mode' = "halted"
        /\ word' = [word EXCEPT ![cur] = Garbage]
        /\ stat' = [stat EXCEPT ![cur] = {"CMPLT", "ERR"}]
    BY <1>9 DEF TransferError, EngineTransferError
  <2>2. Garbage \in Payload
    BY DEF Payload, Garbage
  <2>3. "CMPLT" \in stat'[cur] /\ \A d \in Ring \ {cur} : stat'[d] = stat[d]
    BY <1>0, <2>1
  <2> QED
    BY <2>1, <2>2, <2>3, TransferKeepsGap
<1>10. CASE Kill
  BY <1>0, <1>10 DEF Kill
<1>11. CASE Launch \/ RestartDma
  BY <1>0, <1>11 DEF Launch, RestartDma
<1>12. CASE /\ UNCHANGED <<stat, cur, tail, word, serverVars, received, published, msg_buffer>>
            /\ mode' \in {mode, "halted"}
  <2>1. Copied' = Copied /\ TailInv'
    BY <1>12 DEF serverVars, Copied, GapInv, TailInv, Base
  <2> QED
    BY <1>12, <2>1, OthersKeepGap DEF serverVars
<1>13. CASE StaleFetch \/ ChannelError
  BY <1>12, <1>13 DEF StaleFetch, EngineStaleFetch, ChannelError, EngineChannelError
<1>14. CASE IoSend \/ Subscribe \/ Unsubscribe \/ Expire \/ UNCHANGED vars
  BY <1>12, <1>14 DEF IoSend, Subscribe, Unsubscribe, Expire, vars, engineVars
<1> QED
  BY <1>1, <1>2, <1>3, <1>4, <1>5, <1>6, <1>7, <1>8, <1>9, <1>10, <1>11, <1>13, <1>14
  DEF AnyNext, FaultNext, CrashNext, SlowNext, NominalNext, ServerStep, ChannelStep,
      SubscriberStep

\* What is published is the beginning of what was transferred.
LEMMA GapInvNoGap == TypeInv /\ GapInv => NoGap
<1> SUFFICES ASSUME TypeInv, GapInv PROVE NoGap
  OBVIOUS
<1> PICK s \in Seq(Payload) : Transferred(s)
  BY DEF GapInv
<1>1. /\ Len(s) \in Nat /\ Len(published) \in Nat /\ Copied \in Nat
      /\ Len(published) <= Len(s) /\ received \in Nat
  <2>1. Ahead(s) \in Nat
    BY DEF Transferred, HoldsAll
  <2>2. Len(s) \in Nat /\ Len(published) \in Nat /\ Copied \in Nat /\ received \in Nat
    BY StreamTypes, LenProperties DEF Copied
  <2> QED
    BY <2>1, <2>2 DEF Ahead
<1>2. /\ \A i \in 1 .. Len(s) : s[i] <= received /\ s[i] \in Nat
      /\ \A i, j \in 1 .. Len(s) : i < j /\ s[j] # Garbage => s[i] < s[j]
      /\ \A n \in 1 .. received : \E i \in 1 .. Len(s) : s[i] = n
  BY ElementOfSeq DEF Transferred, AllInOrder, Payload
<1>3. \A i \in 1 .. Len(published) : i \in 1 .. Len(s) /\ published[i] = s[i]
  BY <1>1 DEF Transferred, HoldsAll
<1>4. ASSUME NEW i \in 1 .. Len(published), NEW n \in 1 .. published[i]
      PROVE  \E j \in 1 .. i : published[j] = n
  <2>1. i \in 1 .. Len(s) /\ published[i] = s[i] /\ n \in 1 .. s[i]
    BY <1>3
  <2>2. n \in 1 .. received /\ n # Garbage
    BY <1>1, <1>2, <2>1 DEF Garbage
  <2>3. PICK j \in 1 .. Len(s) : s[j] = n
    BY <1>2, <2>2
  <2>4. ~ (i < j)
    BY <1>2, <2>1, <2>2, <2>3
  <2>5. j \in 1 .. i /\ j \in 1 .. Len(published)
    BY <1>1, <2>1, <2>4
  <2> QED
    BY <1>3, <2>3, <2>5
<1>5. ASSUME NEW i \in 1 .. Len(published), NEW j \in i + 1 .. Len(published),
             published[j] # Garbage
      PROVE  published[i] < published[j]
  <2>1. j \in 1 .. Len(published) /\ i < j
    BY <1>1
  <2> QED
    BY <1>2, <1>3, <1>5, <2>1
<1> QED
  BY <1>4, <1>5 DEF NoGap

(* A restart of the channel loses and reorders nothing unless complete      *)
(* descriptors lay ahead of curr: after any number of errors, clean         *)
(* restarts and timeouts what is published is still the packets received,   *)
(* in order, from the first one on (pacman_dataserver.cc:162-167).          *)
THEOREM RestartLosesNothing == AnySpec => CleanRestartLosesNothing
<1> DEFINE Calm == kills = 0 /\ ~ DirtyRestart
           AllInv == TypeInv /\ CollectedInv /\ GapInv
<1>1. Init => AllInv
  BY TypeInit, CollectedInit, GapInit
<1>2. AllInv /\ Calm /\ [AnyNext]_vars /\ Calm' => AllInv'
  BY TypeStep, RoomStep, CollectedStep, GapStep DEF TypeInv
<1>3. AllInv => NoGap
  BY GapInvNoGap
<1> HIDE DEF AllInv
<1>4. Init /\ [][AnyNext]_vars => ([]Calm => []NoGap)
  BY <1>1, <1>2, <1>3, PTL
<1> QED
  BY <1>4 DEF AnySpec, CleanRestartLosesNothing
=============================================================================
