-------------------------- MODULE DataServerProps --------------------------
(***************************************************************************)
(* What the data server must do, stated over the states and steps of       *)
(* module DataServer.                                                      *)
(***************************************************************************)
EXTENDS DataServer

-----------------------------------------------------------------------------
(* The ring, as long as the channel has no error. *)

\* The first descriptor the server has not yet given back to the channel, and
\* the number of descriptors from there that the channel has filled.
Base == NextOf(tail)
Filled == IF mode = "idle" THEN RingSize ELSE Dist(Base, cur)

\* Where the two pointers and the two counters of the polling thread are.
PointersInv ==
  /\ pc \in {"collect", "wait"} =>
       /\ prev = Base
       /\ words = Dist(Base, curr)
       /\ words < RingSize
  /\ pc = "collect" => words < RingSize - 1
  /\ pc = "copy" =>
       /\ word_idx = Dist(Base, prev)
       /\ words = Dist(Base, curr)
       /\ word_idx <= words
  /\ pc \in {"send", "check"} => prev = Base /\ curr = Base
  /\ pc \in {"wait", "copy", "send"} => words > 0
  /\ pc = "check" => words = 0
  /\ pc \notin {"down", "restart_dma"}

\* No error; a full ring stops the channel at its first descriptor; the server
\* has collected nothing the channel has not filled.
ChannelInv ==
  /\ ~ irq /\ ~ err
  /\ mode # "halted"
  /\ mode = "idle" => cur = Base
  /\ pc \in {"collect", "wait", "copy"} => Dist(Base, curr) <= Filled

\* The descriptors from prev on that the channel has filled, and no others, are
\* complete.
StatInv ==
  \A d \in Ring :
    stat[d] = IF Dist(Base, prev) <= Dist(Base, d) /\ Dist(Base, d) < Filled
              THEN {"CMPLT"} ELSE {}

(* The server and the channel agree, at every step of either, on which      *)
(* descriptors hold words not yet taken: the two pointers of the server,    *)
(* the STAT words, the TAIL register and the channel's own position fit     *)
(* together (the loops at pacman_dataserver.cc:94 and 124).                 *)
RingInv == PointersInv /\ ChannelInv /\ StatInv

\* The words of the next message that are in the buffer, and those of them whose
\* descriptors the channel has been given back.
Copied == IF pc = "copy" THEN word_idx ELSE IF pc = "send" THEN words ELSE 0
Pending == IF pc = "send" THEN words ELSE 0

(* No packet is lost, repeated or moved anywhere on its way: at every step  *)
(* the published words, the words in the message buffer and the words in    *)
(* the filled descriptors are the packets received so far, in order         *)
(* (pacman_dataserver.cc:94-161).                                           *)
PacketsInv ==
  /\ \A i \in 1 .. Len(published) : published[i] = i
  /\ \A i \in 1 .. Copied : msg_buffer.body[i] = Len(published) + i
  /\ \A d \in Ring :
       Dist(Base, d) < Filled => word[d] = Len(published) + Pending + Dist(Base, d) + 1
  /\ received = Len(published) + Pending + Filled

(* Without errors the channel is never sent to a descriptor whose words the *)
(* server has not taken yet, which would stop it with an error: the tail it *)
(* is given and the STAT words cleared for it always agree                  *)
(* (pacman_dataserver.cc:138 and 145), however the two run.                 *)
NoStaleFetch == mode = "busy" => ~ dma_desc_cmplt(cur)

(* A channel that has filled the whole ring is given descriptors again.     *)
RingGivenBack == mode = "idle" ~> mode = "busy"

-----------------------------------------------------------------------------
(* The messages. *)

\* The last message the subscriber got is the one that was sent.
DeliveredIntact ==
  /\ delivered.hdr = Len(delivered.want)
  /\ delivered.got = delivered.want

\* The thread is about to give up waiting for the last message.
GivesUp == pc = "wait" /\ expired /\ ~ msg_ready

(* As long as no wait is given up, a subscriber receives the messages that  *)
(* were sent: neither the header nor a word of one has been overwritten by  *)
(* a later message in the one buffer (pacman_dataserver.cc:114 and 120).    *)
IntactUntilGivingUp == ([]~ GivesUp) => []DeliveredIntact

(* "wait for last message transfer to complete (up to some timeout)"        *)
(* (pacman_dataserver.cc:112): the buffer is only rewritten when ZMQ holds  *)
(* no message in it, or the timeout has passed.                             *)
BufferRewrittenWhenFree ==
  [][pc = "wait" /\ pc' = "copy" => pipe = <<>> \/ expired]_vars

(* Every packet received is eventually published, whatever subscribers do:  *)
(* one that never reads delays the readout by the timeout at most.          *)
EverythingPublished ==
  \A n \in 1 .. MAX_PACKETS : received >= n ~> Len(published) >= n

Stream == INSTANCE DataStream WITH Capacity <- RingSize + MAX_MSG_LEN

(* The data server implements the data stream of module DataStream: every   *)
(* packet exactly once, in order, in messages of at most MAX_MSG_LEN words. *)
ImplementsStream == Stream!StreamSpec

-----------------------------------------------------------------------------
(* After errors and restarts. *)

(* No packet is published twice, wherever the channel or the server was     *)
(* restarted (pacman_dataserver.cc:61 and 166).                             *)
AtMostOnce ==
  \A i, j \in 1 .. Len(published) :
    published[i] # Garbage /\ i # j => published[i] # published[j]

\* The packets published are the first ones received, in order: each of them
\* comes after all packets before it, and before all packets after it.
NoGap ==
  \A i \in 1 .. Len(published) :
    /\ \A n \in 1 .. published[i] : \E j \in 1 .. i : published[j] = n
    /\ \A j \in i + 1 .. Len(published) : published[j] # Garbage => published[i] < published[j]

\* The channel is restarted at curr although complete descriptors lie ahead:
\* they were filled after the collecting loop ended, or it ended at a break.
DirtyRestart == pc = "check" /\ RestartNeeded /\ \E d \in Ring : dma_desc_cmplt(d)

(* Without a kill, a restart of the channel after an error loses or         *)
(* reorders packets only if it is dirty (pacman_dataserver.cc:162-167).     *)
CleanRestartLosesNothing == ([](kills = 0 /\ ~ DirtyRestart)) => []NoGap

\* An error that has left no mark in a descriptor.
SilentError == irq /\ ~ err /\ \A d \in Ring : ~ DescError(d)

(* After the failure of a descriptor and a restart that is not dirty the    *)
(* channel runs again and, full, is given descriptors again.                *)
CleanRestartRecovers ==
  ([](kills = 0 /\ ~ DirtyRestart /\ ~ SilentError))
    => (irq ~> mode # "halted") /\ RingGivenBack

(* "try reset if errors occurred" (pacman_dataserver.cc:163): a channel     *)
(* that stopped with an error is running again some time later.             *)
EngineRecovers == irq ~> mode # "halted"
=============================================================================
