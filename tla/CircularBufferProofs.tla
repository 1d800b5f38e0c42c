------------------------ MODULE CircularBufferProofs ------------------------
(***************************************************************************)
(* Proofs about init_circular_buffer, for every memory that holds two      *)
(* chunks and words of up to 64 bytes.                                     *)
(***************************************************************************)
EXTENDS CircularBuffer, TLAPS

\* The arguments of the call.
LEMMA CallFacts ==
  ASSUME call \in Calls
  PROVE  /\ call.start \in Nat /\ call.start % 64 = 0
         /\ call.len \in Nat /\ call.len >= 256
         /\ call.word_len \in 1 .. 64
BY CallsAssumption DEF Align, DESC_LEN

\* Whatever the length of the word, a chunk has 128 bytes.
LEMMA Lengths ==
  ASSUME call \in Calls
  PROVE  /\ desc_len = 64 /\ word_len = 64 /\ chunk_len = 128
         /\ Ctrl(word_len) = 64 /\ LastCtrl(word_len) = 64
<1>1. desc_len = 64
  BY DEF desc_len, addr_padding, DESC_LEN, Align
<1>2. word_len = 64
  BY CallFacts DEF word_len, addr_padding, Align
<1>3. Ctrl(64) = 64 /\ LastCtrl(64) = 64
  BY DEF Ctrl, LastCtrl, DESC_ADDR_LEN_BITS, DESC_LEN
<1> QED
  BY <1>1, <1>2, <1>3 DEF chunk_len

LEMMA BufferLen ==
  ASSUME call \in Calls
  PROVE  /\ buffer_len = call.len \div 128
         /\ buffer_len \in Nat /\ buffer_len >= 2
         /\ 128 * buffer_len <= call.len
<1>1. buffer_len = call.len \div 128
  BY Lengths DEF buffer_len
<1> QED
  BY <1>1, CallFacts

-----------------------------------------------------------------------------
(* The loop. *)

\* The chunks that are written.
Filled == IF pc = "done" THEN buffer_len ELSE i

Element(d) ==
  [desc |-> 128 * d,
   next |-> IF d = buffer_len - 1 THEN 0 ELSE d + 1,
   prev |-> IF d = 0 THEN buffer_len - 1 ELSE d - 1,
   word |-> 128 * d + 64,
   addr |-> call.start + 128 * d,
   word_addr |-> call.start + 128 * d + 64]

Descriptor(d) ==
  [next |-> IF d = buffer_len - 1 THEN call.start ELSE call.start + 128 * (d + 1),
   addr |-> call.start + 128 * d + 64,
   ctrl |-> 64]

\* The chunk of the round, and what the rounds before it have left.
LoopInv ==
  /\ call \in Calls
  /\ pc \in {"loop", "done"}
  /\ i \in 0 .. buffer_len - 1
  /\ chunk = 128 * i
  /\ chunk_addr = call.start + 128 * i
  /\ DOMAIN buffer = 0 .. Filled - 1
  /\ DOMAIN mem = {call.start + 128 * d : d \in 0 .. Filled - 1}
  /\ \A d \in 0 .. Filled - 1 :
       buffer[d] = Element(d) /\ mem[call.start + 128 * d] = Descriptor(d)

LEMMA LoopInit == Init => LoopInv
<1> SUFFICES ASSUME Init PROVE LoopInv
  OBVIOUS
<1>1. /\ call \in Calls /\ pc = "loop" /\ i = 0 /\ chunk = 0 /\ chunk_addr = call.start
      /\ buffer = << >> /\ mem = << >>
  BY DEF Init
<1>2. Filled = 0 /\ 0 .. Filled - 1 = {} /\ DOMAIN << >> = {}
  BY <1>1 DEF Filled
<1> QED
  BY <1>1, <1>2, CallFacts, BufferLen DEF LoopInv

\* What a round adds to what the rounds before it have left.
LEMMA RoundWrites ==
  ASSUME LoopInv, pc = "loop", UNCHANGED call,
         Filled' = i + 1,
         \E nxt, prv, next_addr, ctrl :
           /\ Chunk(nxt, prv, next_addr, ctrl)
           /\ nxt = Element(i).next /\ prv = Element(i).prev
           /\ next_addr = Descriptor(i).next /\ ctrl = 64
  PROVE  /\ DOMAIN buffer' = 0 .. Filled' - 1
         /\ DOMAIN mem' = {call.start + 128 * d : d \in 0 .. Filled' - 1}
         /\ \A d \in 0 .. Filled' - 1 :
              buffer'[d] = Element(d) /\ mem'[call.start + 128 * d] = Descriptor(d)
<1>1. /\ i \in Nat /\ call.start \in Nat /\ Filled = i
      /\ chunk = 128 * i /\ chunk_addr = call.start + 128 * i
      /\ DOMAIN buffer = 0 .. i - 1
      /\ DOMAIN mem = {call.start + 128 * d : d \in 0 .. i - 1}
      /\ \A d \in 0 .. i - 1 :
           buffer[d] = Element(d) /\ mem[call.start + 128 * d] = Descriptor(d)
  BY CallFacts DEF LoopInv, Filled
<1>2. /\ buffer' = Stored(buffer, i, Element(i))
      /\ mem' = Stored(mem, call.start + 128 * i, Descriptor(i))
  BY <1>1, Lengths DEF Chunk, Element, Descriptor, LoopInv
<1>3. 0 .. Filled' - 1 = (0 .. i - 1) \cup {i}
  BY <1>1
<1>4. \A d \in 0 .. i - 1 : call.start + 128 * d # call.start + 128 * i
  BY <1>1
<1> HIDE DEF Element, Descriptor
<1>5. DOMAIN buffer' = 0 .. Filled' - 1
  BY <1>1, <1>2, <1>3 DEF Stored
<1>6. DOMAIN mem' = {call.start + 128 * d : d \in 0 .. Filled' - 1}
  <2>1. DOMAIN mem' = {call.start + 128 * d : d \in 0 .. i - 1} \cup {call.start + 128 * i}
    BY <1>1, <1>2 DEF Stored
  <2> QED
    BY <1>3, <2>1
<1>7. ASSUME NEW d \in 0 .. Filled' - 1
      PROVE  buffer'[d] = Element(d) /\ mem'[call.start + 128 * d] = Descriptor(d)
  <2>1. CASE d = i
    BY <1>2, <2>1 DEF Stored
  <2>2. CASE d # i
    <3>1. d \in 0 .. i - 1 /\ call.start + 128 * d # call.start + 128 * i
      BY <1>3, <1>4, <2>2
    <3>2. d \in DOMAIN buffer /\ call.start + 128 * d \in DOMAIN mem
      BY <1>1, <3>1
    <3> QED
      BY <1>1, <1>2, <2>2, <3>1, <3>2 DEF Stored
  <2> QED
    BY <2>1, <2>2
<1> QED
  BY <1>5, <1>6, <1>7

LEMMA LoopStep == LoopInv /\ [Next]_vars => LoopInv'
<1> SUFFICES ASSUME LoopInv, [Next]_vars PROVE LoopInv'
  OBVIOUS
<1>0. /\ call \in Calls /\ i \in 0 .. buffer_len - 1 /\ buffer_len \in Nat /\ buffer_len >= 2
      /\ chunk = 128 * i /\ chunk_addr = call.start + 128 * i
      /\ desc_len = 64 /\ chunk_len = 128 /\ call.start \in Nat
      /\ Ctrl(word_len) = 64 /\ LastCtrl(word_len) = 64
  BY Lengths, BufferLen, CallFacts DEF LoopInv
<1>1. CASE LoopChunk
  <2>1. /\ pc = "loop" /\ i < buffer_len - 1 /\ call' = call /\ pc' = pc
        /\ i' = i + 1 /\ chunk' = 128 * i' /\ chunk_addr' = call.start + 128 * i'
        /\ Chunk(i + 1, IF i > 0 THEN i - 1 ELSE buffer_len - 1, chunk_addr + chunk_len, 64)
    BY <1>0, <1>1 DEF LoopChunk
  <2>2. Filled' = i + 1 /\ buffer_len' = buffer_len
    BY <2>1 DEF Filled, buffer_len, chunk_len, word_len
  <2>3. /\ i + 1 = Element(i).next
        /\ (IF i > 0 THEN i - 1 ELSE buffer_len - 1) = Element(i).prev
        /\ chunk_addr + chunk_len = Descriptor(i).next
    BY <1>0, <2>1 DEF Element, Descriptor
  <2>4. /\ DOMAIN buffer' = 0 .. Filled' - 1
        /\ DOMAIN mem' = {call.start + 128 * d : d \in 0 .. Filled' - 1}
        /\ \A d \in 0 .. Filled' - 1 :
             buffer'[d] = Element(d) /\ mem'[call.start + 128 * d] = Descriptor(d)
    BY <2>1, <2>2, <2>3, RoundWrites
  <2>5. \A d : Element(d)' = Element(d) /\ Descriptor(d)' = Descriptor(d)
    BY <2>1, <2>2 DEF Element, Descriptor
  <2>6. i' \in 0 .. buffer_len' - 1
    BY <1>0, <2>1, <2>2
  <2> HIDE DEF Element, Descriptor, Filled
  <2> QED
    BY <1>0, <2>1, <2>4, <2>5, <2>6 DEF LoopInv
<1>2. CASE LastChunk
  <2>1. /\ pc = "loop" /\ i = buffer_len - 1 /\ pc' = "done"
        /\ UNCHANGED <<call, i, chunk, chunk_addr>>
        /\ Chunk(0, buffer_len - 2, call.start, 64)
    BY <1>0, <1>2 DEF LastChunk, LastNext
  <2>2. Filled' = i + 1 /\ buffer_len' = buffer_len
    BY <1>0, <2>1 DEF Filled, buffer_len, chunk_len, word_len
  <2>3. /\ 0 = Element(i).next
        /\ buffer_len - 2 = Element(i).prev
        /\ call.start = Descriptor(i).next
    BY <1>0, <2>1 DEF Element, Descriptor
  <2>4. /\ DOMAIN buffer' = 0 .. Filled' - 1
        /\ DOMAIN mem' = {call.start + 128 * d : d \in 0 .. Filled' - 1}
        /\ \A d \in 0 .. Filled' - 1 :
             buffer'[d] = Element(d) /\ mem'[call.start + 128 * d] = Descriptor(d)
    BY <2>1, <2>2, <2>3, RoundWrites
  <2>5. \A d : Element(d)' = Element(d) /\ Descriptor(d)' = Descriptor(d)
    BY <2>1, <2>2 DEF Element, Descriptor
  <2>6. /\ i' \in 0 .. buffer_len' - 1 /\ chunk' = 128 * i'
        /\ chunk_addr' = call'.start + 128 * i' /\ call' \in Calls
    BY <1>0, <2>1, <2>2
  <2> HIDE DEF Element, Descriptor, Filled
  <2> QED
    BY <2>1, <2>4, <2>5, <2>6 DEF LoopInv
<1>3. CASE UNCHANGED vars
  BY <1>3 DEF vars, LoopInv, Filled, Element, Descriptor, buffer_len, chunk_len, word_len
<1> QED
  BY <1>1, <1>2, <1>3 DEF Next, Done

LEMMA SpecLoop == Spec => []LoopInv
BY LoopInit, LoopStep, PTL DEF Spec

-----------------------------------------------------------------------------
(* The index, the offset and the array stay inside the memory the caller    *)
(* has given, for every length and every length of word (dma.cc:140-162).   *)
THEOREM BufferTypes == Spec => []TypeOK
<1>1. LoopInv => TypeOK
  <2> SUFFICES ASSUME LoopInv PROVE TypeOK
    OBVIOUS
  <2>1. /\ buffer_len \in Nat /\ 128 * buffer_len <= call.len /\ chunk_len = 128
        /\ call.len \in Nat /\ call.start \in Nat /\ i \in 0 .. buffer_len - 1
        /\ call \in Calls /\ pc \in {"loop", "done"}
    BY Lengths, BufferLen, CallFacts DEF LoopInv
  <2>2. chunk \in 0 .. call.len - chunk_len /\ chunk_addr \in Nat
    BY <2>1 DEF LoopInv
  <2>3. DOMAIN buffer \subseteq 0 .. buffer_len - 1
    BY <2>1 DEF LoopInv, Filled
  <2> QED
    BY <2>1, <2>2, <2>3 DEF TypeOK
<1> QED
  BY <1>1, SpecLoop, PTL

(* The DMA channel, which follows NEXT, and the servers, which follow next  *)
(* and prev, go round the same ring, of any length (dma.cc:144-172).        *)
THEOREM OneRing == Spec => []ChainsAgree
<1>1. LoopInv => ChainsAgree
  <2> SUFFICES ASSUME LoopInv, pc = "done", NEW d \in 0 .. buffer_len - 1
               PROVE  LET b == buffer[d]
                      IN  /\ b.next = (d + 1) % buffer_len
                          /\ buffer[b.next].prev = d
                          /\ mem[b.addr].next = buffer[b.next].addr
                          /\ mem[b.addr].addr = b.word_addr
                          /\ b.addr - call.start = b.desc
                          /\ b.word_addr - call.start = b.word
    BY DEF ChainsAgree
  <2>1. buffer_len \in Nat /\ buffer_len >= 2 /\ call.start \in Nat
    BY BufferLen, CallFacts DEF LoopInv
  <2> DEFINE n == buffer_len
             e == IF d = n - 1 THEN 0 ELSE d + 1
  <2>2. /\ buffer[d] = Element(d) /\ mem[call.start + 128 * d] = Descriptor(d)
        /\ e \in 0 .. n - 1 /\ buffer[e] = Element(e)
    BY <2>1 DEF LoopInv, Filled
  <2>3. e = (d + 1) % n
    BY <2>1
  <2>4. /\ Element(d).next = e /\ Element(e).prev = d
        /\ Descriptor(d).next = Element(e).addr
        /\ Descriptor(d).addr = Element(d).word_addr
        /\ Element(d).addr = call.start + 128 * d
        /\ Element(d).addr - call.start = Element(d).desc
        /\ Element(d).word_addr - call.start = Element(d).word
    BY <2>1 DEF Element, Descriptor
  <2> HIDE DEF n, e
  <2> QED
    BY <2>2, <2>3, <2>4 DEF n
<1> QED
  BY <1>1, SpecLoop, PTL

(* Each descriptor moves a whole word, inside its own chunk and inside the  *)
(* memory (dma.cc:127-139, 153 and 171).                                    *)
THEOREM WholeWords == Spec => []WordsFit
<1>1. LoopInv => WordsFit
  <2> SUFFICES ASSUME LoopInv, pc = "done", NEW d \in 0 .. buffer_len - 1
               PROVE  LET b == buffer[d]
                          n == mem[b.addr].ctrl
                      IN  /\ n >= call.word_len
                          /\ b.addr % Align = 0 /\ b.word_addr % Align = 0
                          /\ b.addr + DESC_LEN <= b.word_addr
                          /\ b.word_addr + n <= call.start + call.len
                          /\ d + 1 < buffer_len => b.word_addr + n <= buffer[d + 1].addr
    BY DEF WordsFit
  <2>1. /\ buffer_len \in Nat /\ 128 * buffer_len <= call.len /\ call.len \in Nat
        /\ call.start \in Nat /\ call.start % 64 = 0 /\ call.word_len \in 1 .. 64
    BY BufferLen, CallFacts DEF LoopInv
  <2>2. /\ buffer[d].addr = call.start + 128 * d
        /\ buffer[d].word_addr = call.start + 128 * d + 64
        /\ mem[buffer[d].addr].ctrl = 64
    <3>1. buffer[d] = Element(d) /\ mem[call.start + 128 * d] = Descriptor(d)
      BY <2>1 DEF LoopInv, Filled
    <3>2. Element(d).addr = call.start + 128 * d /\ Descriptor(d).ctrl = 64
      BY DEF Element, Descriptor
    <3>3. Element(d).word_addr = call.start + 128 * d + 64
      BY DEF Element
    <3> HIDE DEF Element, Descriptor
    <3> QED
      BY <3>1, <3>2, <3>3
  <2>3. d + 1 < buffer_len => buffer[d + 1].addr = call.start + 128 * (d + 1)
    <3>1. d + 1 < buffer_len => d + 1 \in 0 .. Filled - 1
      BY <2>1 DEF Filled
    <3> QED
      BY <3>1 DEF LoopInv, Element
  <2>4. (call.start + 128 * d) % 64 = 0 /\ (call.start + 128 * d + 64) % 64 = 0
    BY <2>1
  <2> QED
    BY <2>1, <2>2, <2>3, <2>4 DEF Align, DESC_LEN
<1> QED
  BY <1>1, SpecLoop, PTL
=============================================================================
