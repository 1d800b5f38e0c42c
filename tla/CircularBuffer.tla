--------------------------- MODULE CircularBuffer ---------------------------
(***************************************************************************)
(* init_circular_buffer (dma.cc): cuts a range of physical memory into     *)
(* chunks of one descriptor and one word, and links them twice: buffer[]   *)
(* is the chain the servers follow, the NEXT registers in the memory are   *)
(* the chain the DMA channel follows.  One step is one round of the loop.  *)
(* Offsets and addresses are in bytes, buffer and chain by index.          *)
(***************************************************************************)
EXTENDS Integers

CONSTANT Calls   \* arguments of the call: start, len and word_len

Align == 64
DESC_LEN == 64                  \* 0x40
DESC_ADDR_LEN_BITS == 2 ^ 24    \* DESC_ADDR_LEN keeps the bits below, and bit 25

\* From addr_conf.hh: aligned ranges that hold two chunks at least and end
\* inside the 32-bit address space.  Both servers ask for words of 16 bytes.
ASSUME CallsAssumption ==
  \A c \in Calls :
    /\ c.start \in Nat /\ c.start % Align = 0
    /\ c.word_len \in 1 .. Align
    /\ c.len \in Nat /\ c.len >= 2 * (DESC_LEN + Align)

VARIABLES
  call,         \* the arguments
  pc,
  i,            \* the loop index
  chunk,        \* offset of the chunk from virtual_address
  chunk_addr,   \* its physical address
  buffer,       \* the dma_desc array, as far as it is filled
  mem           \* the registers written to the memory, per physical address

vars == <<call, pc, i, chunk, chunk_addr, buffer, mem>>

-----------------------------------------------------------------------------
addr_padding(bytes, addr_bndry) ==
  IF bytes % addr_bndry = 0 THEN 0 ELSE addr_bndry - (bytes % addr_bndry)

desc_len == DESC_LEN + addr_padding(DESC_LEN, Align)
WordLenUnpadded == call.word_len        \* mutant: the word is not padded
word_len == call.word_len + addr_padding(call.word_len, Align)
chunk_len == desc_len + word_len

BufferLenOneMore == call.len \div chunk_len + 1     \* mutant
buffer_len == call.len \div chunk_len

\* word_len & DESC_ADDR_LEN, and for the last chunk word_len & DESC_LEN: of a
\* multiple of 64 the latter keeps bit 6.
Ctrl(n) == n % DESC_ADDR_LEN_BITS
LastCtrl(n) == IF (n \div DESC_LEN) % 2 = 1 THEN DESC_LEN ELSE 0

Init ==
  /\ call \in Calls
  /\ pc = "loop"
  /\ i = 0
  /\ chunk = 0
  /\ chunk_addr = call.start
  /\ buffer = <<>>
  /\ mem = <<>>

\* A write to an index or an address.
Stored(f, x, v) == [y \in DOMAIN f \cup {x} |-> IF y = x THEN v ELSE f[y]]

\* What a round writes: an element of buffer and a descriptor in the memory.
Chunk(nxt, prv, next_addr, ctrl) ==
  /\ buffer' = Stored(buffer, i,
       [desc |-> chunk, next |-> nxt, prev |-> prv, word |-> chunk + desc_len,
        addr |-> chunk_addr, word_addr |-> chunk_addr + desc_len])
  /\ mem' = Stored(mem, call.start + chunk,
       [next |-> next_addr, addr |-> chunk_addr + desc_len, ctrl |-> ctrl])

\* for (i = 0; i < buffer_len-1; i++)
LoopChunk ==
  /\ pc = "loop"
  /\ i < buffer_len - 1
  /\ Chunk(i + 1, IF i > 0 THEN i - 1 ELSE buffer_len - 1,
           chunk_addr + chunk_len, Ctrl(word_len))
  /\ i' = i + 1
  /\ chunk' = chunk + chunk_len
  /\ chunk_addr' = chunk_addr + chunk_len
  /\ UNCHANGED <<call, pc>>

\* The last chunk closes both chains.
LastNextOpen == chunk_addr + chunk_len    \* mutant: as in the loop
LastNext == call.start
LastChunk ==
  /\ pc = "loop"
  /\ i = buffer_len - 1
  /\ Chunk(0, buffer_len - 2, LastNext, LastCtrl(word_len))
  /\ pc' = "done"
  /\ UNCHANGED <<call, i, chunk, chunk_addr>>

Done == pc = "done" /\ UNCHANGED vars

Next == LoopChunk \/ LastChunk \/ Done
Spec == Init /\ [][Next]_vars

-----------------------------------------------------------------------------
TypeOK ==
  /\ call \in Calls
  /\ pc \in {"loop", "done"}
  /\ i \in 0 .. buffer_len - 1
  /\ chunk \in 0 .. call.len - chunk_len /\ chunk_addr \in Nat
  /\ DOMAIN buffer \subseteq 0 .. buffer_len - 1

(* In the finished ring the channel, following NEXT, visits the descriptors *)
(* in the order in which the servers, following next and prev, expect them: *)
(* module DmaRing has one chain for both (dma.cc:144-172).                  *)
ChainsAgree ==
  pc = "done" =>
    \A d \in 0 .. buffer_len - 1 :
      LET b == buffer[d]
      IN  /\ b.next = (d + 1) % buffer_len
          /\ buffer[b.next].prev = d
          /\ mem[b.addr].next = buffer[b.next].addr
          /\ mem[b.addr].addr = b.word_addr
          /\ b.addr - call.start = b.desc
          /\ b.word_addr - call.start = b.word

(* The channel moves whole words, and the word of one descriptor overlaps   *)
(* neither another word, nor a descriptor, nor the end of the memory        *)
(* (dma.cc:127-139, 153 and 171).                                           *)
WordsFit ==
  pc = "done" =>
    \A d \in 0 .. buffer_len - 1 :
      LET b == buffer[d]
          n == mem[b.addr].ctrl
      IN  /\ n >= call.word_len
          /\ b.addr % Align = 0 /\ b.word_addr % Align = 0
          /\ b.addr + DESC_LEN <= b.word_addr
          /\ b.word_addr + n <= call.start + call.len
          /\ d + 1 < buffer_len => b.word_addr + n <= buffer[d + 1].addr
=============================================================================
