----------------------------- MODULE DataServer -----------------------------
(***************************************************************************)
(* pacman_dataserver.cc: one thread polls the descriptors of the S2MM ring *)
(* and packs the completed words into ZMQ messages, while                  *)
(*   - the DMA channel (module DmaEngine) completes descriptors,           *)
(*   - the ZMQ I/O thread transmits earlier messages straight out of       *)
(*     msg_buffer (zmq_msg_init_data does not copy) and then calls         *)
(*     clear_msg, and                                                      *)
(*   - time passes, so that the wait for the last message may give up.     *)
(* One step of the polling thread is one access to memory shared with the  *)
(* channel or the I/O thread.  Packets are numbered in the order the FPGA  *)
(* sends them.                                                             *)
(***************************************************************************)
EXTENDS DmaEngine, Sequences

CONSTANTS
  MAX_MSG_LEN,   \* words of the longest message
  HWM,           \* ZMQ_SNDHWM: messages queued for the subscriber
  MAX_PACKETS,   \* bound: packets the FPGA sends
  MAX_FAULTS,    \* bound: DMA errors
  MAX_KILLS      \* bound: times the server is killed

ASSUME DataServerAssumption ==
  /\ MAX_MSG_LEN \in Nat \ {0}
  /\ HWM \in Nat \ {0}
  /\ MAX_PACKETS \in Nat /\ MAX_FAULTS \in Nat /\ MAX_KILLS \in Nat

VARIABLES
  word,         \* the data word of each descriptor
  pc,           \* where the polling thread is
  curr, prev,   \* its two pointers into the ring
  words,        \* words collected for the next message
  word_idx,     \* words of it copied so far
  err,          \* one of its descriptors had an error
  msg_buffer,   \* header (word count) and body of the one message buffer
  msg_ready,    \* the flag clear_msg sets
  expired,      \* last_sent_msg + timeo has passed
  subscribed,   \* a subscriber is connected
  pipe,         \* messages in the hands of ZMQ: the words each one stands for
  received,     \* history: packets taken from the FPGA
  published,    \* history: words handed to zmq_msg_send
  delivered,    \* history: the last message the subscriber got
  faults, kills

serverVars == <<pc, curr, prev, words, word_idx, err>>
zmqVars == <<msg_ready, subscribed, pipe, delivered>>
countVars == <<faults, kills>>
vars == <<engineVars, word, serverVars, msg_buffer, expired, zmqVars,
          received, published, countVars>>

\* What a word holds that no packet was written to.
Garbage == 0
Payload == 0 .. MAX_PACKETS
Message == {m \in Seq(Payload) : Len(m) <= MAX_MSG_LEN}

\* restart_dma is part of the start-up and of the recovery from an error.
ServerPc == {"collect", "wait", "copy", "send", "check", "down", "restart_dma"}

TypeOK ==
  /\ EngineTypeOK
  /\ word \in [Ring -> Payload]
  /\ pc \in ServerPc
  /\ curr \in Ring /\ prev \in Ring
  /\ words \in 0 .. MAX_MSG_LEN
  /\ word_idx \in 0 .. MAX_MSG_LEN
  /\ err \in BOOLEAN
  /\ msg_buffer \in [hdr : 0 .. MAX_MSG_LEN, body : [1 .. MAX_MSG_LEN -> Payload]]
  /\ msg_ready \in BOOLEAN /\ expired \in BOOLEAN /\ subscribed \in BOOLEAN
  /\ pipe \in Seq(Message) /\ Len(pipe) <= HWM
  /\ received \in 0 .. MAX_PACKETS
  /\ published \in Seq(Payload)
  /\ delivered \in [hdr : 0 .. MAX_MSG_LEN, got : Message, want : Message]
  /\ faults \in 0 .. MAX_FAULTS
  /\ kills \in 0 .. MAX_KILLS

\* main() up to "Begin loop": the ring is built, the channel runs up to the
\* last descriptor.
Init ==
  /\ EngineInit("busy", PrevOf(0))
  /\ word = [d \in Ring |-> Garbage]
  /\ pc = "collect"
  /\ curr = 0 /\ prev = 0
  /\ words = 0 /\ word_idx = 0 /\ err = FALSE
  /\ msg_buffer = [hdr |-> 0, body |-> [i \in 1 .. MAX_MSG_LEN |-> Garbage]]
  /\ msg_ready = TRUE /\ expired = FALSE
  /\ subscribed = FALSE /\ pipe = <<>>
  /\ received = 0 /\ published = <<>>
  /\ delivered = [hdr |-> 0, got |-> <<>>, want |-> <<>>]
  /\ faults = 0 /\ kills = 0

-----------------------------------------------------------------------------
(* The polling thread. *)

\* The two breaks of the collecting loop: the end of the buffer is reached, or
\* the longest message.
CollectNoRingEnd(c, n) == n = MAX_MSG_LEN        \* mutant: no first break
CollectNoMaxLen(c, n) == c = PrevOf(prev)        \* mutant: no second break
CollectBreak(c, n) == c = PrevOf(prev) \/ n = MAX_MSG_LEN

\* while (dma_desc_cmplt(curr->desc)): one more word.
Collect ==
  /\ pc = "collect"
  /\ dma_desc_cmplt(curr)
  /\ curr' = NextOf(curr)
  /\ words' = words + 1
  /\ pc' = IF CollectBreak(curr', words') THEN "wait" ELSE "collect"
  /\ UNCHANGED <<engineVars, word, prev, word_idx, err, msg_buffer, expired,
                 zmqVars, received, published, countVars>>

\* The next descriptor is not complete; with curr = prev the thread polls on.
CollectEnd ==
  /\ pc = "collect"
  /\ ~ dma_desc_cmplt(curr)
  /\ curr # prev
  /\ pc' = "wait"
  /\ UNCHANGED <<engineVars, word, curr, prev, words, word_idx, err, msg_buffer,
                 expired, zmqVars, received, published, countVars>>

\* The wait for the last message: it was transmitted, or more than timeo has
\* passed since it was sent.
NoWait == TRUE                \* mutant: there is no wait
WaitForever == msg_ready      \* mutant: there is no timeout
LastMessageDone == msg_ready \/ expired

\* The wait is over; init_msg writes the header.
Compose ==
  /\ pc = "wait"
  /\ LastMessageDone
  /\ msg_buffer' = [msg_buffer EXCEPT !.hdr = words]
  /\ word_idx' = 0
  /\ pc' = "copy"
  /\ UNCHANGED <<engineVars, word, curr, prev, words, err, expired, zmqVars,
                 received, published, countVars>>

WordAtCurr == word[curr]      \* mutant: the wrong one of the two pointers
WordToCopy == word[prev]

\* One round of the copy loop: the word goes into the message and its
\* descriptor is cleared.
CopyWord ==
  /\ pc = "copy"
  /\ word_idx < words
  /\ msg_buffer' = [msg_buffer EXCEPT !.body[word_idx + 1] = WordToCopy]
  /\ err' = (err \/ DescError(prev))
  /\ ClearStat(prev)
  /\ word_idx' = word_idx + 1
  /\ prev' = NextOf(prev)
  /\ UNCHANGED <<cur, tail, mode, irq, word, pc, curr, words, expired, zmqVars,
                 received, published, countVars>>

\* The last descriptor the channel may fill: the one before prev.
TailAtPrev == prev            \* mutant: one descriptor too many
NewTail == PrevOf(prev)

\* After the loop: the descriptors are given back to the channel.
UpdateTail ==
  /\ pc = "copy"
  /\ word_idx = words
  /\ WriteTail(NewTail)
  /\ pc' = "send"
  /\ UNCHANGED <<stat, cur, irq, word, curr, prev, words, word_idx, err, msg_buffer,
                 expired, zmqVars, received, published, countVars>>

\* msg_ready = false; zmq_msg_send; zmq_msg_close.  ZMQ keeps the message for
\* the subscriber, or frees it in this call (no subscriber, its queue full, an
\* error), which runs clear_msg.
Send ==
  LET message == SubSeq(msg_buffer.body, 1, words)
  IN  /\ pc = "send"
      /\ IF subscribed /\ Len(pipe) < HWM
         THEN pipe' = Append(pipe, message) /\ msg_ready' = FALSE
         ELSE pipe' = pipe /\ msg_ready' = TRUE
      /\ expired' = FALSE
      /\ published' = published \o message
      /\ words' = 0
      /\ prev' = curr
      /\ pc' = "check"
      /\ UNCHANGED <<engineVars, word, curr, word_idx, err, msg_buffer, subscribed,
                     delivered, received, countVars>>

RestartNeeded == err \/ irq

RestartPointStart == 0        \* mutant: where the channel was first started
RestartPoint == curr

\* if (err || status & DMA_ERR_IRQ): restart the channel at curr.
Check ==
  /\ pc = "check"
  /\ IF RestartNeeded
     THEN RestartAtWithTail(RestartPoint, NewTail) /\ err' = FALSE
     ELSE UNCHANGED <<cur, tail, mode, irq, err>>
  /\ pc' = "collect"
  /\ UNCHANGED <<stat, word, curr, prev, words, word_idx, msg_buffer, expired,
                 zmqVars, received, published, countVars>>

ServerStep ==
  Collect \/ CollectEnd \/ Compose \/ CopyWord \/ UpdateTail \/ Send \/ Check
-----------------------------------------------------------------------------
(* The DMA channel, ZMQ and time. *)

\* The channel writes the next packet into the word of its descriptor.
Receive ==
  /\ received < MAX_PACKETS
  /\ EngineComplete
  /\ received' = received + 1
  /\ word' = [word EXCEPT ![cur] = received']
  /\ UNCHANGED <<serverVars, msg_buffer, expired, zmqVars, published, countVars>>

StaleFetch ==
  /\ EngineStaleFetch
  /\ UNCHANGED <<word, serverVars, msg_buffer, expired, zmqVars, received,
                 published, countVars>>

\* The transfer of a word fails: what its memory holds is not the packet.
TransferError ==
  /\ faults < MAX_FAULTS
  /\ EngineTransferError
  /\ word' = [word EXCEPT ![cur] = Garbage]
  /\ faults' = faults + 1
  /\ UNCHANGED <<serverVars, msg_buffer, expired, zmqVars, received, published, kills>>

ChannelError ==
  /\ faults < MAX_FAULTS
  /\ EngineChannelError
  /\ faults' = faults + 1
  /\ UNCHANGED <<word, serverVars, msg_buffer, expired, zmqVars, received,
                 published, kills>>

\* The I/O thread transmits the oldest message, reading msg_buffer only now,
\* and frees it: clear_msg.
IoSend ==
  /\ pipe # <<>>
  /\ delivered' = [hdr  |-> msg_buffer.hdr,
                   got  |-> SubSeq(msg_buffer.body, 1, Len(Head(pipe))),
                   want |-> Head(pipe)]
  /\ pipe' = Tail(pipe)
  /\ msg_ready' = TRUE
  /\ UNCHANGED <<engineVars, word, serverVars, msg_buffer, expired, subscribed,
                 received, published, countVars>>

Subscribe ==
  /\ ~ subscribed
  /\ pc # "down"
  /\ subscribed' = TRUE
  /\ UNCHANGED <<engineVars, word, serverVars, msg_buffer, expired, msg_ready, pipe,
                 delivered, received, published, countVars>>

\* The subscriber goes away: its queued messages are freed.
Unsubscribe ==
  /\ subscribed
  /\ subscribed' = FALSE
  /\ pipe' = <<>>
  /\ msg_ready' = (msg_ready \/ pipe # <<>>)
  /\ UNCHANGED <<engineVars, word, serverVars, msg_buffer, expired, delivered,
                 received, published, countVars>>

\* More than timeo has passed since the last message was sent.
Expire ==
  /\ ~ expired
  /\ expired' = TRUE
  /\ UNCHANGED <<engineVars, word, serverVars, msg_buffer, zmqVars, received,
                 published, countVars>>

-----------------------------------------------------------------------------
(* pacman_server.sh stops the server with a signal and launches it again. *)

\* The process ends wherever it is, with the messages it still had; the
\* channel is not told.
Kill ==
  /\ kills < MAX_KILLS
  /\ pc # "down"
  /\ pc' = "down"
  /\ subscribed' = FALSE /\ pipe' = <<>>
  /\ kills' = kills + 1
  /\ UNCHANGED <<engineVars, word, curr, prev, words, word_idx, err, msg_buffer,
                 msg_ready, expired, received, published, delivered, faults>>

RingMemoryZeroed ==
  /\ stat' = [d \in Ring |-> {}]
  /\ word' = [d \in Ring |-> Garbage]

\* A new process: init_circular_buffer zeroes the ring while the channel may
\* still be working on it.
Launch ==
  /\ pc = "down"
  /\ pc' = "restart_dma"
  /\ RingMemoryZeroed
  /\ curr' = 0 /\ prev' = 0
  /\ words' = 0 /\ word_idx' = 0 /\ err' = FALSE
  /\ msg_buffer' = [hdr |-> 0, body |-> [i \in 1 .. MAX_MSG_LEN |-> Garbage]]
  /\ msg_ready' = TRUE /\ expired' = FALSE
  /\ UNCHANGED <<cur, tail, mode, irq, subscribed, pipe, received, published,
                 delivered, countVars>>

\* Then restart_dma, the first write of TAIL and the check of DMA_HALTED.
RestartDma ==
  /\ pc = "restart_dma"
  /\ RestartAtWithTail(curr, PrevOf(0))
  /\ pc' = IF mode' = "halted" THEN "down" ELSE "collect"
  /\ UNCHANGED <<stat, word, curr, prev, words, word_idx, err, msg_buffer, expired,
                 zmqVars, received, published, countVars>>

-----------------------------------------------------------------------------
(* The environments the server is checked in. *)

ChannelStep == Receive \/ StaleFetch
SubscriberStep == IoSend \/ Subscribe \/ Unsubscribe

\* No errors, and every transfer ends before the timeout.
NominalNext == ServerStep \/ ChannelStep \/ SubscriberStep
NominalSpec == Init /\ [][NominalNext]_vars

\* Transfers may take longer than timeo.
SlowNext == NominalNext \/ Expire
SlowSpec == Init /\ [][SlowNext]_vars

\* DMA errors.
FaultNext == SlowNext \/ TransferError \/ ChannelError
FaultSpec == Init /\ [][FaultNext]_vars

\* The server is killed and launched again.
CrashNext == SlowNext \/ Kill \/ Launch \/ RestartDma
CrashSpec == Init /\ [][CrashNext]_vars

\* All of these.
AnyNext == FaultNext \/ CrashNext
AnySpec == Init /\ [][AnyNext]_vars
=============================================================================
