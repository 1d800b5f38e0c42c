------------------------------- MODULE TxPath -------------------------------
(***************************************************************************)
(* The transmit path of pacman_cmdserver.cc: its one thread alternates     *)
(* between answering the words of a request, which puts TX words into the  *)
(* TX buffer (module TxBuffer), and pacman_poll_tx (pacman.cc), which      *)
(* drains the buffer into the descriptors of the MM2S ring and waits for   *)
(* the DMA channel (module DmaEngine) to put them all on the wire.  The    *)
(* words for a channel are numbered in the order the clients send them.    *)
(***************************************************************************)
EXTENDS DmaEngine, TxBuffer, FiniteSetsExt, SequencesExt

CONSTANTS
  MAX_TX,       \* bound: TX words the clients send
  MAX_FAULTS,   \* bound: DMA errors
  MAX_KILLS     \* bound: times the server is killed

\* The ring holds all that the TX buffer can: 131072 descriptors for
\* 40 * 1023 words.
ASSUME TxPathAssumption ==
  /\ RingSize > TX_BUFFER_CHAN * (TX_BUFFER_DEPTH - 1)
  /\ MAX_TX \in Nat /\ MAX_FAULTS \in Nat /\ MAX_KILLS \in Nat
  /\ TxWord = 1 .. MAX_TX

VARIABLES
  word,        \* io_channel and larpix data in the word of each descriptor
  pc,          \* where the thread is
  curr, prev,  \* its two pointers into the ring
  unwritten,   \* channels of output that are not yet in a descriptor
  tx_words,    \* words written to descriptors in this poll
  last,        \* transmit_data: the descriptor it waits for
  wire,        \* history: what has been transmitted, per channel
  accepted,    \* history: words the buffer has taken, per channel
  replied,     \* history: words answered by a TX reply, per channel argument
  faults, kills

serverVars == <<pc, curr, prev, unwritten, tx_words, last>>
historyVars == <<wire, accepted, replied>>
vars == <<engineVars, bufferVars, word, serverVars, historyVars, faults, kills>>

NoData == [io_channel |-> 0, data |-> NoWord]
Words == [io_channel : {c + 1 : c \in Chan}, data : TxWord]

TypeOK ==
  /\ EngineTypeOK
  /\ BufferTypeOK
  /\ word \in [Ring -> Words \cup {NoData}]
  /\ pc \in {"poll", "fill", "transmit", "spin", "recv", "words", "down", "restart_dma"}
  /\ curr \in Ring /\ prev \in Ring /\ last \in Ring
  /\ unwritten \subseteq Chan
  /\ tx_words \in 0 .. RingSize - 1
  /\ wire \in [Chan -> Seq(TxWord)]
  /\ accepted \in [Chan -> Seq(TxWord)]
  /\ replied \in [TxInputs -> Seq(TxWord)]
  /\ faults \in 0 .. MAX_FAULTS /\ kills \in 0 .. MAX_KILLS

\* main() up to "Begin loop": tx_buffer_init and pacman_init_tx, whose
\* dma_restart leaves the channel waiting for a TAIL.
Init ==
  /\ EngineInit("idle", 0)
  /\ tx_buffer_init
  /\ word = [d \in Ring |-> NoData]
  /\ pc = "poll"
  /\ curr = 0 /\ prev = 0 /\ last = 0
  /\ unwritten = {} /\ tx_words = 0
  /\ wire = [c \in Chan |-> <<>>]
  /\ accepted = [c \in Chan |-> <<>>]
  /\ replied = [c \in TxInputs |-> <<>>]
  /\ faults = 0 /\ kills = 0

-----------------------------------------------------------------------------
(* pacman_poll_tx. *)

\* while (tx_buffer_out(output) == 1): the next round, or the end of the loop.
Poll ==
  /\ pc = "poll"
  /\ tx_buffer_out
  /\ IF ret' = 1
     THEN pc' = "fill" /\ unwritten' = output'.mask
     ELSE pc' = "transmit" /\ UNCHANGED unwritten
  /\ UNCHANGED <<engineVars, word, curr, prev, tx_words, last, historyVars, faults, kills>>

FirstUnwritten == Min(unwritten)

\* The next channel of the round: its word goes into descriptor curr.
Fill ==
  /\ pc = "fill"
  /\ unwritten # {}
  /\ LET c == FirstUnwritten
     IN  /\ word' = [word EXCEPT ![curr] = [io_channel |-> c + 1, data |-> output.data[c]]]
         /\ unwritten' = unwritten \ {c}
  /\ ClearStat(curr)
  /\ tx_words' = tx_words + 1
  /\ curr' = NextOf(curr)
  /\ UNCHANGED <<cur, tail, mode, irq, bufferVars, pc, prev, last, historyVars, faults, kills>>

FillEnd ==
  /\ pc = "fill"
  /\ unwritten = {}
  /\ pc' = "poll"
  /\ UNCHANGED <<engineVars, bufferVars, word, curr, prev, unwritten, tx_words, last,
                 historyVars, faults, kills>>

\* The descriptor of the last of the words written, counted from prev.
TailOnePast == curr           \* mutant: nwords steps instead of nwords - 1
TailOf == CHOOSE d \in Ring : Dist(prev, d) = tx_words - 1

\* transmit_data(dma, prev, tx_words): nothing to do, or a write of TAIL.
TransmitNothing ==
  /\ pc = "transmit"
  /\ tx_words = 0
  /\ prev' = curr
  /\ pc' = "recv"
  /\ UNCHANGED <<engineVars, bufferVars, word, curr, unwritten, tx_words, last,
                 historyVars, faults, kills>>

Transmit ==
  /\ pc = "transmit"
  /\ tx_words > 0
  /\ last' = TailOf
  /\ WriteTail(last')
  /\ pc' = "spin"
  /\ UNCHANGED <<stat, cur, irq, bufferVars, word, curr, prev, unwritten, tx_words,
                 historyVars, faults, kills>>

\* while (!dma_desc_cmplt(tail->desc))
TransmitDoneNext == dma_desc_cmplt(NextOf(last))   \* mutant: the wrong descriptor
TransmitDone == dma_desc_cmplt(last)

\* The loop has no other exit: after an error of the channel it spins for ever.
Spin ==
  /\ pc = "spin"
  /\ ~ TransmitDone
  /\ UNCHANGED vars

TransmitEnd ==
  /\ pc = "spin"
  /\ TransmitDone
  /\ prev' = curr
  /\ tx_words' = 0
  /\ pc' = "recv"
  /\ UNCHANGED <<engineVars, bufferVars, word, curr, unwritten, last, historyVars, faults, kills>>

-----------------------------------------------------------------------------
(* The request. *)

Recv ==
  /\ pc = "recv"
  /\ pc' = "words"
  /\ UNCHANGED <<engineVars, bufferVars, word, curr, prev, unwritten, tx_words, last,
                 historyVars, faults, kills>>

\* One TX word of it, for channel argument c: whatever tx_buffer_in returns,
\* the reply is a TX reply.
TxRequest(c) ==
  LET w == Len(replied[c]) + 1
  IN  /\ pc = "words"
      /\ w \in TxWord
      /\ SumFunction([d \in TxInputs |-> Len(replied[d])]) < MAX_TX
      /\ tx_buffer_in(c, w)
      /\ accepted' = IF ret' = 1 THEN [accepted EXCEPT ![c] = Append(@, w)] ELSE accepted
      /\ replied' = [replied EXCEPT ![c] = Append(@, w)]
      /\ UNCHANGED <<engineVars, word, serverVars, wire, faults, kills>>

\* The end of the request: the reply is sent.
Reply ==
  /\ pc = "words"
  /\ pc' = "poll"
  /\ UNCHANGED <<engineVars, bufferVars, word, curr, prev, unwritten, tx_words, last,
                 historyVars, faults, kills>>

ServerStep ==
  Poll \/ Fill \/ FillEnd \/ TransmitNothing \/ Transmit \/ Spin \/ TransmitEnd \/ Reply

ClientStep == Recv \/ \E c \in TxInputs : TxRequest(c)

-----------------------------------------------------------------------------
(* The DMA channel. *)

\* It transmits the word of the descriptor it completes, to the channel the word
\* names; a word of zeroes names none.  (It never fetches a stale one:
\* NoStaleFetch.)
Complete ==
  /\ EngineComplete
  /\ wire' = IF word[cur] = NoData THEN wire
              ELSE [wire EXCEPT ![word[cur].io_channel - 1] = Append(@, word[cur].data)]
  /\ UNCHANGED <<bufferVars, word, serverVars, accepted, replied, faults, kills>>

TransferError ==
  /\ faults < MAX_FAULTS
  /\ EngineTransferError
  /\ faults' = faults + 1
  /\ UNCHANGED <<bufferVars, word, serverVars, historyVars, kills>>

ChannelError ==
  /\ faults < MAX_FAULTS
  /\ EngineChannelError
  /\ faults' = faults + 1
  /\ UNCHANGED <<bufferVars, word, serverVars, historyVars, kills>>

-----------------------------------------------------------------------------
(* pacman_server.sh stops the server with a signal and launches it again. *)

Kill ==
  /\ kills < MAX_KILLS
  /\ pc # "down"
  /\ pc' = "down"
  /\ kills' = kills + 1
  /\ UNCHANGED <<engineVars, bufferVars, word, curr, prev, unwritten, tx_words, last,
                 historyVars, faults>>

\* The ring init_circular_buffer zeroes may still be in transmission.
RingMemoryZeroed ==
  /\ stat' = [d \in Ring |-> {}]
  /\ word' = [d \in Ring |-> NoData]

\* A new process: tx_buffer_init and the ring.
Launch ==
  /\ pc = "down"
  /\ pc' = "restart_dma"
  /\ G_TX_BUFFER_DATA' = EmptyData
  /\ G_TX_BUFFER_HEAD' = ZeroIndex
  /\ G_TX_BUFFER_TAIL' = ZeroIndex
  /\ ret' = 0 /\ output' = NoOutput
  /\ RingMemoryZeroed
  /\ curr' = 0 /\ prev' = 0 /\ last' = 0
  /\ unwritten' = {} /\ tx_words' = 0
  /\ UNCHANGED <<cur, tail, mode, irq, historyVars, faults, kills>>

\* dma_restart.  If the channel is halted then, pacman_init_tx returns 2, which
\* main does not take for a failure.
RestartDma ==
  /\ pc = "restart_dma"
  /\ RestartAt(curr)
  /\ pc' = "poll"
  /\ UNCHANGED <<stat, tail, bufferVars, word, curr, prev, unwritten, tx_words, last,
                 historyVars, faults, kills>>

-----------------------------------------------------------------------------
Next == ServerStep \/ ClientStep \/ Complete
Spec == Init /\ [][Next]_vars

FaultNext == Next \/ TransferError \/ ChannelError
FaultSpec == Init /\ [][FaultNext]_vars

CrashNext == FaultNext \/ Kill \/ Launch \/ RestartDma
CrashSpec == Init /\ [][CrashNext]_vars

\* The thread is never blocked for ever and the channel transmits what it is
\* given; nothing is assumed of the clients.
LiveSpec == CrashSpec /\ WF_vars(ServerStep) /\ WF_vars(Complete)

-----------------------------------------------------------------------------
(* Each channel's words go out in the order they were accepted, none twice  *)
(* and none from a descriptor's earlier use, whatever errors stop the DMA   *)
(* (pacman.cc:192-209).                                                     *)
WireInOrder ==
  kills = 0 => \A c \in Chan : IsPrefix(wire[c], accepted[c])

(* Nor is a word transmitted twice or out of order when the server is       *)
(* killed at any point and launched again, while the channel works on       *)
(* (pacman.cc:163-165).                                                     *)
NothingTwice ==
  \A c \in Chan : \A i, j \in 1 .. Len(wire[c]) : i < j => wire[c][i] < wire[c][j]

(* Without errors and kills, every word accepted has been transmitted when  *)
(* the next request is taken, and the buffer is empty (pacman.cc:208, 55).            *)
AllTransmittedBeforeRecv ==
  faults = 0 /\ kills = 0 /\ pc = "recv" =>
    \A c \in Chan : wire[c] = accepted[c] /\ tx_buffer_count(c) = 0

(* Whatever errors and kills came before, the channel never reaches a       *)
(* descriptor that was not written for it, over any number of turns of the  *)
(* ring (pacman.cc:201).                                                    *)
NoStaleFetch == mode = "busy" => ~ dma_desc_cmplt(cur)

(* Unless the DMA fails or the server is killed, a poll ends and the next   *)
(* request is taken, however much was queued (pacman.cc:192 and 55).        *)
PollEnds == [](faults = 0 /\ kills = 0) => (pc = "poll" ~> pc = "recv")

(* "Write data in specified word position as successful transmit"           *)
(* (message_format.cc:160): the words of a channel that got a TX reply are  *)
(* the ones transmitted, by the time the next request is taken.             *)
RepliedIsTransmitted ==
  pc = "recv" => \A c \in Chan \cap TxInputs : wire[c] = replied[c]

(* "PACMAN HW driver initialization was successful."                        *)
(* (pacman_cmdserver.cc:66): the TX channel is running then.                *)
InitSuccessMeansRunning ==
  [][pc = "restart_dma" /\ pc' = "poll" => mode' # "halted"]_vars
=============================================================================
