----------------------------- MODULE DmaEngine -----------------------------
(***************************************************************************)
(* One channel (S2MM or MM2S) of the AXI DMA in scatter/gather mode, which *)
(* is hardware: its behaviour is external, taken from the registers and    *)
(* status bits that dma.hh names and from how the two servers use them.    *)
(*                                                                         *)
(* The channel walks the descriptor chain from cur.  It completes each     *)
(* descriptor by setting CMPLT in its STAT word, stops (idle) once it has  *)
(* completed the descriptor named by the TAIL register and goes on when    *)
(* TAIL is written again.  A descriptor it fetches must not be CMPLT: that *)
(* is a stale descriptor, an SG internal error.  Every error halts the     *)
(* channel and raises ERR_IRQ until the channel is reset.                  *)
(***************************************************************************)
EXTENDS DmaRing

CONSTANT EngineResetBit   \* the bit of the control register that resets

VARIABLES
  stat,   \* STAT word of each descriptor: the set of its bits that are 1
  cur,    \* descriptor the channel works on next
  tail,   \* the TAIL register
  mode,   \* "halted", "idle" (tail completed) or "busy"
  irq     \* ERR_IRQ in the channel's status register

engineVars == <<stat, cur, tail, mode, irq>>

StatBits == {"CMPLT", "ERR"}   \* ERR: any of INTERR, SLVERR, DECERR

EngineTypeOK ==
  /\ stat \in [Ring -> SUBSET StatBits]
  /\ cur \in Ring
  /\ tail \in Ring
  /\ mode \in {"halted", "idle", "busy"}
  /\ irq \in BOOLEAN

\* The channel after init_circular_buffer, a restart at descriptor 0 and a
\* write of TAIL = t.
EngineInit(m, t) ==
  /\ stat = [d \in Ring |-> {}]
  /\ cur = 0
  /\ tail = t
  /\ mode = m
  /\ irq = FALSE

-----------------------------------------------------------------------------
(* What the servers read and write. *)

dma_desc_cmplt(d) == "CMPLT" \in stat[d]
DescError(d) == "ERR" \in stat[d]

ClearErrorOnly(d) == stat' = [stat EXCEPT ![d] = @ \ {"ERR"}]   \* mutant
ClearStat(d) == stat' = [stat EXCEPT ![d] = {}]

WriteTail(t) ==
  /\ tail' = t
  /\ mode' = IF mode = "idle" THEN "busy" ELSE mode

DMA_RST == 2

\* restart_dma / dma_restart: control := DMA_RST; control := 0;
\* current := d; control := RUN.  Only a control word with the channel's reset
\* bit clears its error, and a channel in error does not run.
RestartAt(d) ==
  LET stillInError == irq /\ EngineResetBit # DMA_RST
  IN  /\ cur' = d
      /\ irq' = stillInError
      /\ mode' = IF stillInError THEN "halted" ELSE "idle"

\* The same followed by a write of TAIL.
RestartAtWithTail(d, t) ==
  LET stillInError == irq /\ EngineResetBit # DMA_RST
  IN  /\ cur' = d
      /\ tail' = t
      /\ irq' = stillInError
      /\ mode' = IF stillInError THEN "halted" ELSE "busy"

-----------------------------------------------------------------------------
(* What the channel does by itself. *)

\* It has moved the data of descriptor cur and completes it.
EngineComplete ==
  /\ mode = "busy"
  /\ ~ dma_desc_cmplt(cur)
  /\ stat' = [stat EXCEPT ![cur] = {"CMPLT"}]
  /\ cur' = NextOf(cur)
  /\ mode' = IF cur = tail THEN "idle" ELSE "busy"
  /\ UNCHANGED <<tail, irq>>

\* It fetches a descriptor that is already complete.
EngineStaleFetch ==
  /\ mode = "busy"
  /\ dma_desc_cmplt(cur)
  /\ mode' = "halted"
  /\ irq' = TRUE
  /\ UNCHANGED <<stat, cur, tail>>

\* The transfer of descriptor cur fails: it completes with an error bit.
EngineTransferError ==
  /\ mode = "busy"
  /\ ~ dma_desc_cmplt(cur)
  /\ stat' = [stat EXCEPT ![cur] = {"CMPLT", "ERR"}]
  /\ mode' = "halted"
  /\ irq' = TRUE
  /\ UNCHANGED <<cur, tail>>

\* It fails between descriptors (SG errors): no descriptor completes.
EngineChannelError ==
  /\ mode = "busy"
  /\ mode' = "halted"
  /\ irq' = TRUE
  /\ UNCHANGED <<stat, cur, tail>>
=============================================================================
