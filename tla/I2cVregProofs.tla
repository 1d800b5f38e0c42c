--------------------------- MODULE I2cVregProofs ---------------------------
(***************************************************************************)
(* Proofs about the virtual registers, for any requests and any number of  *)
(* failed transactions and kills.                                          *)
(***************************************************************************)
EXTENDS I2cVreg, SequenceTheorems, TLAPS

-----------------------------------------------------------------------------
(* The bytes on the bus. *)

LEMMA Powers ==
  /\ 2 ^ 0 = 1 /\ 2 ^ 8 = 256 /\ 2 ^ 16 = 65536
  /\ 2 ^ 24 = 16777216 /\ 2 ^ 32 = 4294967296
OBVIOUS

LEMMA PowerType ==
  ASSUME NEW n \in 0 .. 4
  PROVE  2 ^ (8 * n) \in Nat /\ 2 ^ (8 * n) > 0
<1> DEFINE P(x) == 2 ^ x \in Nat /\ 2 ^ x > 0
<1>1. P(0) /\ P(8) /\ P(16) /\ P(24) /\ P(32)
  BY Powers
<1> HIDE DEF P
<1>2. \/ 8 * n = 0 \/ 8 * n = 8 \/ 8 * n = 16 \/ 8 * n = 24 \/ 8 * n = 32
  OBVIOUS
<1>3. P(8 * n)
  BY <1>1, <1>2
<1> QED
  BY <1>3 DEF P

LEMMA Sent ==
  ASSUME NEW v \in Nat, NEW n \in 0 .. 4
  PROVE  LowBytes(v, n) \in Bytes(n) /\ LowBytes(v, n) \in Nat
<1> DEFINE m == 2 ^ (8 * n)
<1>1. m \in Nat /\ m > 0
  BY PowerType
<1> HIDE DEF m
<1>2. v % m \in 0 .. m - 1
  BY <1>1
<1>3. LowBytes(v, n) = v % m /\ Bytes(n) = 0 .. m - 1
  BY DEF LowBytes, Bytes, m
<1> QED
  BY <1>1, <1>2, <1>3

LEMMA OneByte ==
  /\ \A v : v \in Bytes(1) <=> v \in Nat /\ v < 256
  /\ 0 \in Bytes(0)
<1>1. 8 * 0 = 0 /\ 8 * 1 = 8 /\ 2 ^ 0 = 1 /\ 2 ^ 8 = 256
  OBVIOUS
<1> QED
  BY <1>1 DEF Bytes

LEMMA TransactionFields ==
  ASSUME NEW t \in Transaction
  PROVE  /\ t.kind \in {"set", "pointer", "recv"} /\ t.addr \in Bytes(1) /\ t.reg \in Bytes(1)
         /\ t.bytes \in 0 .. 4 /\ t.val \in Bytes(t.bytes)
BY DEF Transaction

LEMMA SetTypes ==
  ASSUME NEW addr \in Bytes(1), NEW reg \in Bytes(1), NEW val \in Nat, NEW n \in 0 .. 4
  PROVE  Set(addr, reg, val, n) \in Transaction
BY Sent DEF Set, Transaction

LEMMA PointerTypes ==
  ASSUME NEW addr \in Bytes(1), NEW reg \in Bytes(1)
  PROVE  Pointer(addr, reg) \in Transaction /\ Recv(addr, reg) \in Transaction
BY OneByte DEF Pointer, Recv, Transaction

\* Lists as short as those of the calls.
LEMMA ShortSeqs ==
  ASSUME NEW S
  PROVE  /\ << >> \in Seq(S)
         /\ \A a \in S : << a >> \in Seq(S)
         /\ \A a, b \in S : << a, b >> \in Seq(S)
         /\ \A a, b, c, d, e \in S : << a, b, c, d, e >> \in Seq(S)
OBVIOUS

LEMMA RequestFields ==
  ASSUME NEW r \in Requests
  PROVE  /\ r.op \in {"read", "write"} /\ r.upper \in Uppers
         /\ r.lower \in 0 .. 15 /\ r.val \in Nat
         /\ r # Idle
<1>1. r \in Request
  BY I2cVregAssumption
<1>2. r.op # "none"
  BY <1>1 DEF Request
<1> QED
  BY <1>1, <1>2 DEF Request, Idle

LEMMA WriteTypes ==
  ASSUME NEW r \in Requests, i2c_expert \in [Index -> Nat]
  PROVE  WriteSteps(r) \in Seq(Transaction)
<1>0. r.lower \in 0 .. 15 /\ r.val \in Nat
  BY RequestFields
<1>1. \A addr \in Bytes(1) : SetDac(addr, r.lower, r.val) \in Seq(Transaction)
  <2> SUFFICES ASSUME NEW addr \in Bytes(1)
               PROVE  SetDac(addr, r.lower, r.val) \in Seq(Transaction)
    OBVIOUS
  <2>1. CASE r.lower > 10
    BY <2>1, ShortSeqs DEF SetDac
  <2>2. CASE r.lower <= 10
    <3>1. DacReg(r.lower) \in Bytes(1)
      BY <1>0, <2>2, OneByte DEF DacReg
    <3>2. Set(addr, DacReg(r.lower), r.val, 2) \in Transaction
      BY <1>0, <3>1, SetTypes
    <3> QED
      BY <1>0, <2>2, <3>2, ShortSeqs DEF SetDac
  <2> QED
    BY <1>0, <2>1, <2>2
<1>2. \A reg \in {MUX_A, MUX_B} : SetMux(reg, r.val) \in Seq(Transaction)
  <2> SUFFICES ASSUME NEW reg \in {MUX_A, MUX_B}
               PROVE  SetMux(reg, r.val) \in Seq(Transaction)
    OBVIOUS
  <2>1. get_mux_code(r.val) \in Nat
    BY <1>0 DEF get_mux_code
  <2>2. /\ Set(ADDR_MUX_P, reg, get_mux_code(r.val), 1) \in Transaction
        /\ Set(ADDR_MUX_N, reg, get_mux_code(r.val), 1) \in Transaction
    <3>1. ADDR_MUX_P \in Bytes(1) /\ ADDR_MUX_N \in Bytes(1) /\ reg \in Bytes(1)
      BY OneByte DEF ADDR_MUX_P, ADDR_MUX_N, MUX_A, MUX_B
    <3> QED
      BY <2>1, <3>1, SetTypes
  <2> QED
    BY <2>2, ShortSeqs DEF SetMux
<1>3. i2c_direct_write(r.val) \in Seq(Transaction)
  <2>1. DirectAddr \in Bytes(1) /\ DirectReg \in Bytes(1) /\ i2c_expert[4] \in Nat
    BY Sent DEF DirectAddr, DirectReg, Index
  <2>2. CASE ~ DirectAllowed
    BY <2>2, ShortSeqs DEF i2c_direct_write
  <2>3. CASE DirectAllowed /\ i2c_expert[4] = 0
    BY <2>1, <2>3, PointerTypes, ShortSeqs DEF i2c_direct_write
  <2>4. CASE DirectAllowed /\ i2c_expert[4] # 0
    <3>1. i2c_expert[4] \in 0 .. 4
      BY <2>1, <2>4 DEF DirectAllowed
    <3>2. Set(DirectAddr, DirectReg, r.val, i2c_expert[4]) \in Transaction
      BY <1>0, <2>1, <3>1, SetTypes
    <3> QED
      BY <2>4, <3>2, ShortSeqs DEF i2c_direct_write
  <2> QED
    BY <2>2, <2>3, <2>4
<1>4. << >> \in Seq(Transaction)
  BY ShortSeqs
<1>5. ADDR_DAC_VDDA \in Bytes(1) /\ ADDR_DAC_VDDD \in Bytes(1)
  BY OneByte DEF ADDR_DAC_VDDA, ADDR_DAC_VDDD
<1> QED
  BY <1>1, <1>2, <1>3, <1>4, <1>5 DEF WriteSteps

\* The transactions of a reading of register reg of power monitor a.
Reading(a, reg) == <<Config(a), Refresh(a), Refresh(a), Pointer(a, reg), Recv(a, reg)>>

LEMMA ReadingTypes ==
  ASSUME NEW a \in Adcs, NEW reg \in 7 .. 14
  PROVE  Reading(a, reg) \in Seq(Transaction)
<1>1. a \in Bytes(1) /\ reg \in Bytes(1)
  BY OneByte DEF Adcs, ADDR_ADC_TILES
<1>2. /\ Config(a) \in Transaction /\ Refresh(a) \in Transaction
      /\ Pointer(a, reg) \in Transaction /\ Recv(a, reg) \in Transaction
  BY <1>1, OneByte, SetTypes, PointerTypes DEF Config, Refresh
<1> QED
  BY <1>2, ShortSeqs DEF Reading

LEMMA MonitorReads ==
  ASSUME NEW r \in Requests, i2c_expert \in [Index -> Nat], r.op = "read"
  PROVE  /\ Monitors(r) => \/ ReadSteps(r) = << >>
                           \/ \E a \in Adcs, reg \in 7 .. 14 : ReadSteps(r) = Reading(a, reg)
         /\ ReadSteps(r) \in Seq(Transaction)
         /\ ~ Monitors(r) => \/ ReadSteps(r) = << >>
                             \/ ReadSteps(r) = <<Recv(DirectAddr, DirectReg)>>
<1>0. r.lower \in 0 .. 15 /\ r.val \in Nat /\ r.upper \in Uppers
  BY RequestFields
<1>1. ASSUME NEW base \in {7, 8, 11, 12}
      PROVE  \/ Monitor(base, r.lower) = << >>
             \/ \E a \in Adcs, reg \in 7 .. 14 : Monitor(base, r.lower) = Reading(a, reg)
  <2>1. CASE r.lower > 11
    BY <2>1 DEF Monitor
  <2>2. CASE r.lower <= 11
    <3> DEFINE a == ADDR_ADC_TILES + r.lower \div 2
               reg == base + 2 * (r.lower % 2)
    <3>1. a \in Adcs /\ reg \in 7 .. 14
      BY <1>0, <2>2 DEF Adcs, ADDR_ADC_TILES
    <3>2. Monitor(base, r.lower) = Reading(a, reg)
      BY <1>0, <2>2 DEF Monitor, Reading
    <3> QED
      BY <3>1, <3>2
  <2> QED
    BY <1>0, <2>1, <2>2
<1>2. CASE Monitors(r)
  <2>1. \/ ReadSteps(r) = Monitor(7, r.lower) \/ ReadSteps(r) = Monitor(8, r.lower)
        \/ ReadSteps(r) = Monitor(11, r.lower) \/ ReadSteps(r) = Monitor(12, r.lower)
    BY <1>2 DEF ReadSteps, Monitors
  <2>2. \/ ReadSteps(r) = << >>
        \/ \E a \in Adcs, reg \in 7 .. 14 : ReadSteps(r) = Reading(a, reg)
    BY <1>1, <2>1
  <2> QED
    BY <1>2, <2>2, ReadingTypes, ShortSeqs
<1>3. CASE ~ Monitors(r)
  <2>1. \/ ReadSteps(r) = << >> \/ ReadSteps(r) = <<Recv(DirectAddr, DirectReg)>>
    BY <1>3 DEF ReadSteps, Monitors, i2c_direct_read
  <2>2. DirectAddr \in Bytes(1) /\ DirectReg \in Bytes(1)
    BY Sent DEF DirectAddr, DirectReg, Index
  <2> QED
    BY <1>3, <2>1, <2>2, PointerTypes, ShortSeqs
<1> QED
  BY <1>2, <1>3

-----------------------------------------------------------------------------
(* Type correctness. *)

LEMMA Bounds == MAX_NOW \in Nat \ {0} /\ MAX_FAULTS \in Nat /\ MAX_KILLS \in Nat
BY I2cVregAssumption

\* A transaction, on chips that may do what they are asked or not.
LEMMA EffectSteps ==
  ASSUME TypeOK, NEW t \in Transaction, Effect(t) \/ UNCHANGED <<hw, adc, sample>>
  PROVE  /\ DOMAIN hw' = DOMAIN hw
         /\ \A x \in DOMAIN hw : hw'[x] \in Bytes(RegBytes(x))
         /\ adc' \in [Adcs -> [conv : 0 .. now, out : 0 .. now]]
         /\ sample' \in 0 .. now
         /\ \A x \in DOMAIN hw : hw'[x] # hw[x] => Sets(t) /\ x = <<t.addr, t.reg>>
<1>1. CASE UNCHANGED <<hw, adc, sample>>
  BY <1>1 DEF TypeOK
<1>2. CASE Effect(t)
  <2>1. adc' \in [Adcs -> [conv : 0 .. now, out : 0 .. now]]
    <3>1. now \in 0 .. now /\ adc \in [Adcs -> [conv : 0 .. now, out : 0 .. now]]
      BY Bounds DEF TypeOK
    <3>2. CASE Refreshes(t)
      <4>1. adc' = [adc EXCEPT ![t.addr] = [out |-> adc[t.addr].conv, conv |-> now]]
        BY <1>2, <3>2 DEF Effect
      <4>2. t.addr \in Adcs /\ adc[t.addr].conv \in 0 .. now
        BY <3>1, <3>2 DEF Refreshes
      <4> QED
        BY <3>1, <4>1, <4>2
    <3>3. CASE ~ Refreshes(t)
      BY <1>2, <3>1, <3>3 DEF Effect
    <3> QED
      BY <3>2, <3>3
  <2>2. sample' \in 0 .. now
    <3>1. sample \in 0 .. now /\ \A a \in Adcs : adc[a].out \in 0 .. now
      BY DEF TypeOK
    <3> QED
      BY <1>2, <3>1 DEF Effect
  <2>3. CASE Sets(t)
    <3>1. PICK v \in Written(t) : hw' = [hw EXCEPT ![<<t.addr, t.reg>>] = v]
      BY <1>2, <2>3 DEF Effect
    <3> DEFINE r == <<t.addr, t.reg>>
    <3>2. v \in Bytes(RegBytes(r))
      BY TransactionFields DEF Written
    <3> HIDE DEF r
    <3>3. hw' = [hw EXCEPT ![r] = v]
      BY <3>1 DEF r
    <3>4. /\ DOMAIN hw' = DOMAIN hw
          /\ \A x \in DOMAIN hw : hw'[x] = IF x = r THEN v ELSE hw[x]
      BY <3>3
    <3>5. \A x \in DOMAIN hw : hw[x] \in Bytes(RegBytes(x))
      BY DEF TypeOK
    <3>6. \A x \in DOMAIN hw : hw'[x] \in Bytes(RegBytes(x))
      BY <3>2, <3>4, <3>5
    <3> QED
      BY <2>1, <2>2, <2>3, <3>4, <3>6 DEF r
  <2>4. CASE ~ Sets(t)
    BY <1>2, <2>1, <2>2, <2>4 DEF Effect, TypeOK
  <2> QED
    BY <2>3, <2>4
<1> QED
  BY <1>1, <1>2

\* One transaction of a call, done or failed.
LEMMA TransactionSteps ==
  ASSUME TypeOK, Succeed \/ Fail
  PROVE  \E t \in Transaction :
           /\ todo # << >> /\ t = todo[1] /\ todo' = Tail(todo)
           /\ Tail(todo) \in Seq(Transaction)
           /\ Effect(t) \/ UNCHANGED <<hw, adc, sample>>
           /\ status' => status /\ Effect(t)
           /\ status' \in BOOLEAN
           /\ faults' \in 0 .. MAX_FAULTS
           /\ UNCHANGED <<now, i2c_scratch, i2c_expert, call, began, ret, paired, kills>>
<1>1. todo \in Seq(Transaction) /\ todo # << >> /\ status \in BOOLEAN
  BY DEF TypeOK, Succeed, Fail
<1>2. todo[1] \in Transaction /\ Head(todo) = todo[1] /\ Tail(todo) \in Seq(Transaction)
  BY <1>1, EmptySeq, ElementOfSeq, HeadTailProperties
<1>3. faults' \in 0 .. MAX_FAULTS
  <2>1. faults \in 0 .. MAX_FAULTS /\ MAX_FAULTS \in Nat
    BY Bounds DEF TypeOK
  <2>2. faults' = faults \/ (faults < MAX_FAULTS /\ faults' = faults + 1)
    BY DEF Succeed, Fail
  <2> QED
    BY <2>1, <2>2
<1>4. CASE Succeed
  BY <1>1, <1>2, <1>3, <1>4 DEF Succeed, StatusAll
<1>5. CASE Fail
  BY <1>1, <1>2, <1>3, <1>5 DEF Fail, StatusAll
<1> QED
  BY <1>4, <1>5

LEMMA TypeInit == Init => TypeOK
<1> SUFFICES ASSUME Init PROVE TypeOK
  OBVIOUS
<1>1. /\ DOMAIN hw = DacRegs \cup MuxRegs
      /\ \A x \in DOMAIN hw : hw[x] \in {0, 16}
  BY DEF Init
<1>2. \A x : \A v \in {0, 16} : v \in Bytes(RegBytes(x))
  <2>1. 0 \in Bytes(1) /\ 16 \in Bytes(1)
    BY OneByte
  <2>2. 0 \in Bytes(2) /\ 16 \in Bytes(2)
    <3>1. 8 * 2 = 16 /\ 2 ^ 16 = 65536
      OBVIOUS
    <3> QED
      BY <3>1 DEF Bytes
  <2> QED
    BY <2>1, <2>2 DEF RegBytes
<1>3. \A x \in DOMAIN hw : hw[x] \in Bytes(RegBytes(x))
  BY <1>1, <1>2
<1>4. now = 1 /\ adc \in [Adcs -> [conv : 0 .. now, out : 0 .. now]]
  BY DEF Init
<1>5. /\ i2c_scratch \in [Index -> Nat] /\ i2c_expert \in [Index -> Nat]
      /\ call = Idle /\ todo = << >> /\ status = FALSE /\ sample = 0 /\ began = 0
      /\ paired = {} /\ faults = 0 /\ kills = 0
  BY DEF Init, Zeroed
<1>6. << >> \in Seq(Transaction)
  BY ShortSeqs
<1>7. /\ now \in 1 .. MAX_NOW /\ sample \in 0 .. now /\ began \in 0 .. now
      /\ faults \in 0 .. MAX_FAULTS /\ kills \in 0 .. MAX_KILLS
  BY <1>4, <1>5, Bounds
<1> QED
  BY <1>1, <1>3, <1>4, <1>5, <1>6, <1>7 DEF TypeOK

LEMMA CallTypes ==
  ASSUME TypeOK, NEW r \in Requests, Call(r)
  PROVE  TypeOK'
<1>1. /\ r.op \in {"read", "write"} /\ r.val \in Nat /\ r \in Requests
      /\ r.upper \in {"SCRATCH", "EXPERT"} => r.lower \in Index
  BY RequestFields, I2cVregAssumption
<1>2. todo' \in Seq(Transaction) /\ status' \in BOOLEAN
  BY <1>1, WriteTypes, MonitorReads DEF Call, TypeOK
<1>3. i2c_scratch' \in [Index -> Nat] /\ i2c_expert' \in [Index -> Nat]
  <2>1. \/ i2c_scratch' = i2c_scratch
        \/ r.lower \in Index /\ i2c_scratch' = [i2c_scratch EXCEPT ![r.lower] = r.val]
    BY <1>1 DEF Call
  <2>2. \/ i2c_expert' = i2c_expert
        \/ r.lower \in Index /\ i2c_expert' = [i2c_expert EXCEPT ![r.lower] = r.val]
    BY <1>1 DEF Call
  <2>3. i2c_scratch \in [Index -> Nat] /\ i2c_expert \in [Index -> Nat]
    BY DEF TypeOK
  <2> QED
    BY <1>1, <2>1, <2>2, <2>3
<1>4. paired' \subseteq {MUX_A, MUX_B} /\ call' = r /\ sample' = 0 /\ began' = now
  BY DEF Call, TypeOK
<1>5. UNCHANGED <<hw, adc, now, faults, kills>>
  BY DEF Call
<1>6. now \in 1 .. MAX_NOW /\ MAX_NOW \in Nat
  BY Bounds DEF TypeOK
<1> QED
  BY <1>2, <1>3, <1>4, <1>5, <1>6 DEF TypeOK

LEMMA TypeStep == TypeOK /\ [Next]_vars => TypeOK'
<1> SUFFICES ASSUME TypeOK, [Next]_vars PROVE TypeOK'
  OBVIOUS
<1>1. ASSUME NEW r \in Requests, Call(r) PROVE TypeOK'
  BY <1>1, CallTypes
<1>2. CASE Succeed \/ Fail
  <2>1. PICK t \in Transaction :
           /\ todo' \in Seq(Transaction)
           /\ Effect(t) \/ UNCHANGED <<hw, adc, sample>>
           /\ status' \in BOOLEAN
           /\ faults' \in 0 .. MAX_FAULTS
           /\ UNCHANGED <<now, i2c_scratch, i2c_expert, call, began, ret, paired, kills>>
    BY <1>2, TransactionSteps
  <2>2. /\ DOMAIN hw' = DOMAIN hw
        /\ \A x \in DOMAIN hw : hw'[x] \in Bytes(RegBytes(x))
        /\ adc' \in [Adcs -> [conv : 0 .. now, out : 0 .. now]]
        /\ sample' \in 0 .. now
    BY <2>1, EffectSteps
  <2> QED
    BY <2>1, <2>2 DEF TypeOK
<1>3. CASE Return
  <2>1. /\ paired' \subseteq paired \cup {Contact(call.upper)} /\ call' = Idle
        /\ Contact(call.upper) \in {MUX_A, MUX_B}
        /\ UNCHANGED <<hw, adc, now, i2c_scratch, i2c_expert, todo, status, sample, began,
                       faults, kills>>
    BY <1>3 DEF Return, Contact
  <2> QED
    BY <2>1 DEF TypeOK
<1>4. CASE Tick
  <2>1. /\ now' = now + 1 /\ now < MAX_NOW /\ now \in Nat /\ MAX_NOW \in Nat
        /\ UNCHANGED <<hw, adc, i2c_scratch, i2c_expert, call, todo, status, sample, began,
                       paired, faults, kills>>
    BY <1>4, Bounds DEF Tick, TypeOK
  <2>2. 0 .. now \subseteq 0 .. now' /\ now' \in 1 .. MAX_NOW
    BY <2>1
  <2>3. adc' \in [Adcs -> [conv : 0 .. now', out : 0 .. now']]
    <3>1. adc \in [Adcs -> [conv : 0 .. now, out : 0 .. now]]
      BY DEF TypeOK
    <3>2. [conv : 0 .. now, out : 0 .. now] \subseteq [conv : 0 .. now', out : 0 .. now']
      BY <2>2
    <3> QED
      BY <2>1, <3>1, <3>2
  <2> QED
    BY <2>1, <2>2, <2>3 DEF TypeOK
<1>5. CASE Kill
  <2>1. /\ i2c_scratch' \in [Index -> Nat] /\ i2c_expert' \in [Index -> Nat]
        /\ call' = Idle /\ todo' = << >> /\ status' = FALSE /\ sample' = 0
        /\ kills' \in 0 .. MAX_KILLS
        /\ UNCHANGED <<hw, adc, now, began, ret, paired, faults>>
    BY <1>5, Bounds DEF Kill, Zeroed, TypeOK
  <2>2. << >> \in Seq(Transaction) /\ 0 \in 0 .. now
    BY ShortSeqs, Bounds DEF TypeOK
  <2> QED
    BY <2>1, <2>2 DEF TypeOK
<1>6. CASE UNCHANGED vars
  BY <1>6 DEF vars, TypeOK
<1> QED
  BY <1>1, <1>2, <1>3, <1>4, <1>5, <1>6 DEF Next

(* Every variable keeps its type: what is sent is as many bytes as the call *)
(* says, and what a chip register holds are bytes of its own                *)
(* (pacman_i2c.cc:73-91).                                                   *)
THEOREM VregTypes == Spec => []TypeOK
BY TypeInit, TypeStep, PTL DEF Spec

-----------------------------------------------------------------------------
(* The switches of a contact: the writes pending for them, and what the one  *)
(* that was written first holds while the second is pending.                 *)

Switches(t) == t.kind = "set" /\ <<t.addr, t.reg>> \in MuxRegs
Equal(c) == hw[<<ADDR_MUX_P, c>>] = hw[<<ADDR_MUX_N, c>>]

PendingInv ==
  \A n \in 1 .. Len(todo) : Switches(todo[n]) => todo[n].reg \notin paired

SettingInv ==
  SetsMux(call) =>
    LET c == Contact(call.upper)
        second == Set(ADDR_MUX_N, c, get_mux_code(call.val), 1)
    IN  /\ c \notin paired
        /\ \/ todo = SetMux(c, call.val)
           \/ todo = <<second>> /\ (status => hw[<<ADDR_MUX_P, c>>] = second.val)
           \/ todo = << >> /\ (status => Equal(c))

PairInv == SwitchesPaired /\ PendingInv /\ SettingInv

LEMMA MuxFacts ==
  ASSUME NEW c \in {MUX_A, MUX_B}
  PROVE  /\ <<ADDR_MUX_P, c>> \in MuxRegs /\ <<ADDR_MUX_N, c>> \in MuxRegs
         /\ <<ADDR_MUX_P, c>> \notin DacRegs /\ <<ADDR_MUX_N, c>> \notin DacRegs
         /\ ADDR_MUX_P # ADDR_MUX_N
         /\ \A a \in Adcs : a # ADDR_MUX_P /\ a # ADDR_MUX_N
BY DEF MuxRegs, DacRegs, ADDR_MUX_P, ADDR_MUX_N, ADDR_DAC_VDDA, ADDR_DAC_VDDD, Adcs,
       ADDR_ADC_TILES

LEMMA MuxRegsFields ==
  \A a, c : <<a, c>> \in MuxRegs <=> a \in {ADDR_MUX_P, ADDR_MUX_N} /\ c \in {MUX_A, MUX_B}
BY DEF MuxRegs

\* The lists of the calls that write, by what they do to the switches.
LEMMA WriteLists ==
  ASSUME NEW r \in Requests, r.op = "write"
  PROVE  \/ SetsMux(r) /\ WriteSteps(r) = SetMux(Contact(r.upper), r.val)
         \/ ~ SetsMux(r) /\ r.upper = "DIRECT"
         \/ ~ SetsMux(r) /\ WriteSteps(r) = << >>
         \/ /\ ~ SetsMux(r)
            /\ \E a \in {ADDR_DAC_VDDA, ADDR_DAC_VDDD} :
                 WriteSteps(r) = <<Set(a, DacReg(r.lower), r.val, 2)>>
<1>1. CASE SetsMux(r)
  BY <1>1 DEF SetsMux, WriteSteps, Contact
<1>2. CASE r.upper \in {"SET_VDDA", "SET_VDDD"}
  <2>1. PICK a \in {ADDR_DAC_VDDA, ADDR_DAC_VDDD} : WriteSteps(r) = SetDac(a, r.lower, r.val)
    BY <1>2 DEF WriteSteps
  <2> QED
    BY <1>2, <2>1 DEF SetDac, SetsMux
<1>3. CASE ~ SetsMux(r) /\ r.upper \notin {"SET_VDDA", "SET_VDDD", "DIRECT"}
  BY <1>3 DEF SetsMux, WriteSteps
<1> QED
  BY <1>1, <1>2, <1>3 DEF SetsMux

\* A call takes the contacts it may change off the paired ones.
LEMMA CallPending ==
  ASSUME TypeOK, NEW r \in Requests, Call(r)
  PROVE  PendingInv'
<1>0. i2c_expert \in [Index -> Nat] /\ r.op \in {"read", "write"} /\ ADDR_MUX_P # ADDR_MUX_N
  BY RequestFields DEF TypeOK, ADDR_MUX_P, ADDR_MUX_N
<1>1. CASE r.op = "write" /\ SetsMux(r)
  <2> DEFINE c == Contact(r.upper)
             code == get_mux_code(r.val)
  <2>1. todo' = SetMux(c, r.val) /\ paired' = paired \ {c}
    BY <1>1, WriteLists DEF Call, SetsMux
  <2>2. SetMux(c, r.val) = <<Set(ADDR_MUX_P, c, code, 1), Set(ADDR_MUX_N, c, code, 1)>>
    BY DEF SetMux
  <2>3. Set(ADDR_MUX_P, c, code, 1).reg = c /\ Set(ADDR_MUX_N, c, code, 1).reg = c
    BY DEF Set
  <2> HIDE DEF c, code
  <2>4. \A n \in 1 .. Len(todo') : todo'[n].reg = c
    BY <2>1, <2>2, <2>3
  <2> QED
    BY <2>1, <2>4 DEF PendingInv
<1>2. CASE r.op = "write" /\ r.upper = "DIRECT"
  <2>1. todo' = << >> \/ paired' = {}
    BY <1>2 DEF Call, SetsMux
  <2> QED
    BY <2>1 DEF PendingInv
<1>3. CASE r.op = "write" /\ ~ SetsMux(r) /\ r.upper # "DIRECT"
  <2>1. \A x, v : \A a \in {ADDR_DAC_VDDA, ADDR_DAC_VDDD} : ~ Switches(Set(a, x, v, 2))
    BY MuxRegsFields DEF Switches, Set, ADDR_DAC_VDDA, ADDR_DAC_VDDD, ADDR_MUX_P, ADDR_MUX_N
  <2>2. todo' = WriteSteps(r)
    BY <1>3 DEF Call
  <2>3. \A n \in 1 .. Len(todo') : ~ Switches(todo'[n])
    BY <1>3, <2>1, <2>2, WriteLists
  <2> QED
    BY <2>3 DEF PendingInv, Switches
<1>4. CASE r.op = "read"
  <2>1. todo' = ReadSteps(r)
    BY <1>4 DEF Call
  <2>2. \A a \in Adcs : /\ ~ Switches(Config(a)) /\ ~ Switches(Refresh(a))
                        /\ \A reg : ~ Switches(Pointer(a, reg))
    BY MuxRegsFields, MuxFacts DEF Switches, Config, Refresh, Pointer, Set
  <2>3. \A a, reg : ~ Switches(Recv(a, reg))
    BY DEF Switches, Recv
  <2>4. CASE \E a \in Adcs, reg \in 7 .. 14 : ReadSteps(r) = Reading(a, reg)
    <3>1. PICK a \in Adcs, reg \in 7 .. 14 : todo' = Reading(a, reg)
      BY <2>1, <2>4
    <3> DEFINE e1 == Config(a)
               e2 == Refresh(a)
               e3 == Pointer(a, reg)
               e4 == Recv(a, reg)
    <3>2. ~ Switches(e1) /\ ~ Switches(e2) /\ ~ Switches(e3) /\ ~ Switches(e4)
      BY <2>2, <2>3
    <3>3. todo' = <<e1, e2, e2, e3, e4>>
      BY <3>1 DEF Reading
    <3> HIDE DEF e1, e2, e3, e4
    <3>4. \A n \in 1 .. Len(todo') : ~ Switches(todo'[n])
      BY <3>2, <3>3
    <3> QED
      BY <3>4 DEF PendingInv, Switches
  <2>5. CASE ReadSteps(r) = << >> \/ ReadSteps(r) = <<Recv(DirectAddr, DirectReg)>>
    <3>1. \A n \in 1 .. Len(todo') : ~ Switches(todo'[n])
      BY <2>1, <2>3, <2>5
    <3> QED
      BY <3>1 DEF PendingInv, Switches
  <2> QED
    BY <1>0, <1>4, <2>4, <2>5, MonitorReads
<1> QED
  BY <1>0, <1>1, <1>2, <1>3, <1>4

\* A transaction changes no switch but the one it is for.
LEMMA TransactionPairs ==
  ASSUME TypeOK, PairInv, Succeed \/ Fail
  PROVE  PairInv'
<1>1. PICK t \in Transaction :
         /\ todo # << >> /\ t = todo[1] /\ todo' = Tail(todo)
         /\ Effect(t) \/ UNCHANGED <<hw, adc, sample>>
         /\ status' => status /\ Effect(t)
         /\ UNCHANGED <<call, paired>>
  BY TransactionSteps
<1>2. \A x \in DOMAIN hw : hw'[x] # hw[x] => Sets(t) /\ x = <<t.addr, t.reg>>
  BY <1>1, EffectSteps
<1>3. DOMAIN hw' = DOMAIN hw /\ MuxRegs \subseteq DOMAIN hw /\ paired \subseteq {MUX_A, MUX_B}
  BY <1>1, EffectSteps DEF TypeOK
<1>4. todo \in Seq(Transaction)
  BY DEF TypeOK
<1>5. SwitchesPaired'
  <2>1. 1 \in 1 .. Len(todo)
    BY <1>1, <1>4
  <2>2. Switches(t) => t.reg \notin paired
    BY <1>1, <2>1 DEF PairInv, PendingInv
  <2>3. ASSUME NEW c \in paired
        PROVE  hw'[<<ADDR_MUX_P, c>>] = hw'[<<ADDR_MUX_N, c>>]
    <3>1. <<ADDR_MUX_P, c>> \in MuxRegs /\ <<ADDR_MUX_N, c>> \in MuxRegs
      BY <1>3, <2>3, MuxFacts
    <3>2. ASSUME NEW a \in {ADDR_MUX_P, ADDR_MUX_N}
          PROVE  hw'[<<a, c>>] = hw[<<a, c>>]
      <4>1. CASE hw'[<<a, c>>] # hw[<<a, c>>]
        <5>1. Sets(t) /\ <<a, c>> = <<t.addr, t.reg>> /\ <<a, c>> \in MuxRegs
          BY <1>2, <1>3, <3>1, <4>1
        <5>2. Switches(t) /\ t.reg = c
          BY <5>1 DEF Sets, Switches
        <5> QED
          BY <2>2, <5>2
      <4> QED
        BY <4>1
    <3> QED
      BY <3>2 DEF PairInv, SwitchesPaired
  <2> QED
    BY <1>1, <2>3 DEF SwitchesPaired
<1>6. PendingInv'
  <2>1. Len(todo') = Len(todo) - 1 /\ \A n \in 1 .. Len(todo') : todo'[n] = todo[n + 1]
    BY <1>1, <1>4
  <2>2. \A n \in 1 .. Len(todo') : n + 1 \in 1 .. Len(todo)
    BY <1>4, <2>1
  <2> QED
    BY <1>1, <2>1, <2>2 DEF PairInv, PendingInv
<1>7. SettingInv'
  <2> SUFFICES ASSUME SetsMux(call) PROVE SettingInv'
    BY <1>1 DEF SettingInv
  <2> DEFINE c == Contact(call.upper)
             code == get_mux_code(call.val)
             first == Set(ADDR_MUX_P, c, code, 1)
             second == Set(ADDR_MUX_N, c, code, 1)
  <2>1. /\ c \notin paired /\ c \in {MUX_A, MUX_B}
        /\ \/ todo = <<first, second>>
           \/ todo = <<second>> /\ (status => hw[<<ADDR_MUX_P, c>>] = second.val)
           \/ todo = << >> /\ (status => Equal(c))
    BY DEF PairInv, SettingInv, Contact, SetMux
  <2>2. /\ first.kind = "set" /\ first.addr = ADDR_MUX_P /\ first.reg = c /\ first.bytes = 1
        /\ second.kind = "set" /\ second.addr = ADDR_MUX_N /\ second.reg = c
        /\ second.bytes = 1 /\ first.val = second.val
    BY DEF Set
  <2>3. /\ \/ todo' = <<second>> /\ (status' => hw'[<<ADDR_MUX_P, c>>] = second.val)
           \/ todo' = << >> /\ (status' => hw'[<<ADDR_MUX_P, c>>] = hw'[<<ADDR_MUX_N, c>>])
    <3> HIDE DEF first, second, code, c
    <3>0. ASSUME status', t \in {first, second}
          PROVE  hw'[<<t.addr, c>>] = t.val
      <4>1. Sets(t) /\ RegBytes(<<t.addr, t.reg>>) = t.bytes /\ <<t.addr, t.reg>> \in DOMAIN hw
        BY <1>3, <2>1, <2>2, <3>0, MuxFacts DEF Sets, RegBytes
      <4>2. hw' = [hw EXCEPT ![<<t.addr, t.reg>>] = t.val]
        BY <1>1, <3>0, <4>1 DEF Effect, Written
      <4>3. t.reg = c
        BY <2>2, <3>0
      <4> QED
        BY <4>1, <4>2, <4>3
    <3>1. CASE todo = <<first, second>>
      <4>1. t = first /\ todo' = <<second>>
        BY <1>1, <3>1
      <4> QED
        BY <2>2, <3>0, <4>1
    <3>2. CASE todo = <<second>> /\ (status => hw[<<ADDR_MUX_P, c>>] = second.val)
      <4>1. t = second /\ todo' = << >>
        BY <1>1, <3>2
      <4>2. hw'[<<ADDR_MUX_P, c>>] = hw[<<ADDR_MUX_P, c>>]
        BY <1>2, <1>3, <2>1, <2>2, <4>1, MuxFacts
      <4> QED
        BY <1>1, <2>2, <3>0, <3>2, <4>1, <4>2
    <3> QED
      BY <1>1, <2>1, <3>1, <3>2
  <2> QED
    BY <1>1, <2>1, <2>3 DEF SettingInv, Equal
<1> QED
  BY <1>5, <1>6, <1>7 DEF PairInv

LEMMA PairStep == TypeOK /\ PairInv /\ [Next]_vars => PairInv'
<1> SUFFICES ASSUME TypeOK, PairInv, [Next]_vars PROVE PairInv'
  OBVIOUS
<1>1. ASSUME NEW r \in Requests, Call(r) PROVE PairInv'
  <2>1. paired' \subseteq paired /\ hw' = hw /\ call' = r
    BY <1>1 DEF Call
  <2>2. SwitchesPaired'
    BY <2>1 DEF PairInv, SwitchesPaired
  <2>3. SettingInv'
    <3>1. SetsMux(r) => /\ todo' = SetMux(Contact(r.upper), r.val)
                        /\ Contact(r.upper) \notin paired'
      BY <1>1, WriteLists DEF Call, SetsMux
    <3> QED
      BY <2>1, <3>1 DEF SettingInv
  <2> QED
    BY <1>1, <2>2, <2>3, CallPending DEF PairInv
<1>2. CASE Succeed \/ Fail
  BY <1>2, TransactionPairs
<1>3. CASE Return
  <2>1. todo' = << >> /\ todo = << >> /\ call' = Idle /\ hw' = hw
    BY <1>3 DEF Return
  <2>2. SwitchesPaired'
    <3>1. CASE SetsMux(call) /\ Result = 1
      <4>1. status
        BY <3>1 DEF Result, SetsMux
      <4>2. Equal(Contact(call.upper))
        BY <2>1, <3>1, <4>1 DEF PairInv, SettingInv, SetMux
      <4>3. paired' = paired \cup {Contact(call.upper)}
        BY <1>3, <3>1 DEF Return
      <4> QED
        BY <2>1, <4>2, <4>3 DEF PairInv, SwitchesPaired, Equal
    <3>2. CASE ~ (SetsMux(call) /\ Result = 1)
      <4>1. paired' = paired
        BY <1>3, <3>2 DEF Return
      <4> QED
        BY <2>1, <4>1 DEF PairInv, SwitchesPaired
    <3> QED
      BY <3>1, <3>2
  <2>3. PendingInv' /\ SettingInv'
    BY <2>1 DEF PendingInv, SettingInv, SetsMux, Idle
  <2> QED
    BY <2>2, <2>3 DEF PairInv
<1>4. CASE Tick
  BY <1>4 DEF Tick, PairInv, SwitchesPaired, PendingInv, SettingInv, Equal
<1>5. CASE Kill
  <2>1. todo' = << >> /\ call' = Idle /\ hw' = hw /\ paired' = paired
    BY <1>5 DEF Kill
  <2> QED
    BY <2>1 DEF PairInv, SwitchesPaired, PendingInv, SettingInv, SetsMux, Idle
<1>6. CASE UNCHANGED vars
  BY <1>6 DEF vars, PairInv, SwitchesPaired, PendingInv, SettingInv, Equal
<1> QED
  BY <1>1, <1>2, <1>3, <1>4, <1>5, <1>6 DEF Next

(* Whatever transactions fail and whenever the server is killed, a contact    *)
(* whose last setting returned 1 has both of its switches on the same tile    *)
(* (pacman_i2c.cc:424-430): after the first of the two writes its success is    *)
(* remembered while the second is pending.                                    *)
THEOREM ContactsPaired == Spec => []SwitchesPaired
<1>1. Init => PairInv
  BY DEF Init, PairInv, SwitchesPaired, PendingInv, SettingInv, SetsMux, Idle
<1>2. PairInv => SwitchesPaired
  BY DEF PairInv
<1> QED
  BY <1>1, <1>2, VregTypes, PairStep, PTL DEF Spec

\* How far a reading has got, and which sample is then of its own time.
ReadingInv ==
  Monitors(call) =>
    \/ todo = << >> /\ (status => sample >= began)
    \/ \E a \in Adcs, reg \in 7 .. 14 :
         \/ todo = Reading(a, reg)
         \/ todo = <<Refresh(a), Refresh(a), Pointer(a, reg), Recv(a, reg)>>
         \/ /\ todo = <<Refresh(a), Pointer(a, reg), Recv(a, reg)>>
            /\ status => adc[a].conv >= began
         \/ /\ todo = <<Pointer(a, reg), Recv(a, reg)>> \/ todo = <<Recv(a, reg)>>
            /\ status => adc[a].out >= began

FreshInv == FreshReading /\ ReadingInv

LEMMA ReadingSteps ==
  ASSUME TypeOK, ReadingInv, Succeed \/ Fail
  PROVE  ReadingInv'
<1>1. PICK t \in Transaction :
         /\ todo # << >> /\ t = todo[1] /\ todo' = Tail(todo)
         /\ status' => status /\ Effect(t)
         /\ UNCHANGED <<now, call, began>>
  BY TransactionSteps
<1>2. began \in Nat /\ now \in Nat /\ began <= now /\ DOMAIN adc = Adcs
  BY Bounds DEF TypeOK
<1> SUFFICES ASSUME Monitors(call) PROVE ReadingInv'
  BY <1>1 DEF ReadingInv
<1>3. PICK a \in Adcs, reg \in 7 .. 14 :
         \/ todo = Reading(a, reg)
         \/ todo = <<Refresh(a), Refresh(a), Pointer(a, reg), Recv(a, reg)>>
         \/ /\ todo = <<Refresh(a), Pointer(a, reg), Recv(a, reg)>>
            /\ status => adc[a].conv >= began
         \/ /\ todo = <<Pointer(a, reg), Recv(a, reg)>> \/ todo = <<Recv(a, reg)>>
            /\ status => adc[a].out >= began
  BY <1>1 DEF ReadingInv
<1> DEFINE config == Config(a)
           refresh == Refresh(a)
           pointer == Pointer(a, reg)
           recv == Recv(a, reg)
<1>4. Refreshes(refresh) /\ refresh.addr = a /\ refresh.kind # "recv"
  BY DEF Refreshes, Refresh, Pointer
<1>5. ~ Refreshes(pointer)
  BY DEF Refreshes, Pointer
<1>6. ~ Refreshes(recv) /\ recv.kind = "recv" /\ recv.addr = a
  BY DEF Refreshes, Recv
<1> HIDE DEF config, refresh, pointer, recv
<1>7. CASE todo = <<config, refresh, refresh, pointer, recv>>
  <2>1. todo' = <<refresh, refresh, pointer, recv>>
    BY <1>1, <1>7
  <2> QED
    BY <2>1 DEF ReadingInv, refresh, pointer, recv
<1>8. CASE todo = <<refresh, refresh, pointer, recv>>
  <2>1. t = refresh /\ todo' = <<refresh, pointer, recv>>
    BY <1>1, <1>8
  <2>2. status' => adc'[a].conv >= began'
    BY <1>1, <1>2, <1>4, <2>1 DEF Effect
  <2> QED
    BY <2>1, <2>2 DEF ReadingInv, refresh, pointer, recv
<1>9. CASE todo = <<refresh, pointer, recv>> /\ (status => adc[a].conv >= began)
  <2>1. t = refresh /\ todo' = <<pointer, recv>>
    BY <1>1, <1>9
  <2>2. status' => adc'[a].out >= began'
    BY <1>1, <1>2, <1>4, <1>9, <2>1 DEF Effect
  <2> QED
    BY <2>1, <2>2 DEF ReadingInv, pointer, recv
<1>10. CASE todo = <<pointer, recv>> /\ (status => adc[a].out >= began)
  <2>1. t = pointer /\ todo' = <<recv>>
    BY <1>1, <1>10
  <2>2. status' => adc'[a].out >= began'
    BY <1>1, <1>2, <1>5, <1>10, <2>1 DEF Effect
  <2> QED
    BY <2>1, <2>2 DEF ReadingInv, recv
<1>11. CASE todo = <<recv>> /\ (status => adc[a].out >= began)
  <2>1. t = recv /\ todo' = << >>
    BY <1>1, <1>11
  <2>2. status' => sample' >= began'
    BY <1>1, <1>2, <1>6, <1>11, <2>1 DEF Effect
  <2> QED
    BY <2>1, <2>2 DEF ReadingInv
<1>12. \/ todo = <<config, refresh, refresh, pointer, recv>>
       \/ todo = <<refresh, refresh, pointer, recv>>
       \/ todo = <<refresh, pointer, recv>> /\ (status => adc[a].conv >= began)
       \/ todo = <<pointer, recv>> /\ (status => adc[a].out >= began)
       \/ todo = <<recv>> /\ (status => adc[a].out >= began)
  BY <1>3 DEF Reading, config, refresh, pointer, recv
<1> QED
  BY <1>7, <1>8, <1>9, <1>10, <1>11, <1>12

LEMMA FreshStep == TypeOK /\ FreshInv /\ [Next]_vars => FreshInv'
<1> SUFFICES ASSUME TypeOK, FreshInv, [Next]_vars PROVE FreshInv'
  OBVIOUS
<1>1. ASSUME NEW r \in Requests, Call(r) PROVE FreshInv'
  <2>1. FreshReading'
    BY <1>1 DEF Call, FreshInv, FreshReading
  <2>2. ASSUME Monitors(r)
        PROVE  \/ todo' = << >> /\ ~ status'
               \/ \E a \in Adcs, reg \in 7 .. 14 : todo' = Reading(a, reg)
    <3>1. r.op = "read" /\ i2c_expert \in [Index -> Nat]
      BY <2>2 DEF Monitors, TypeOK
    <3>2. todo' = ReadSteps(r) /\ status' = (ReadSteps(r) # << >>)
      BY <1>1, <3>1 DEF Call
    <3> QED
      BY <2>2, <3>1, <3>2, MonitorReads
  <2>3. ReadingInv'
    BY <1>1, <2>2 DEF Call, ReadingInv
  <2> QED
    BY <2>1, <2>3 DEF FreshInv
<1>2. CASE Succeed \/ Fail
  <2>1. FreshReading'
    BY <1>2 DEF Succeed, Fail, FreshInv, FreshReading
  <2> QED
    BY <1>2, <2>1, ReadingSteps DEF FreshInv
<1>3. CASE Return
  <2>1. todo = << >> /\ call' = Idle
        /\ ret' = [call |-> call, val |-> Result, began |-> began]
    BY <1>3 DEF Return
  <2>2. Monitors(call) => Result = 0 \/ Result >= began
    <3>1. Monitors(call) => (status => sample >= began)
      BY <2>1 DEF FreshInv, ReadingInv, Reading
    <3>2. Monitors(call) => Result = IF status THEN sample ELSE 0
      BY DEF Monitors, Result
    <3> QED
      BY <3>1, <3>2
  <2>3. FreshReading'
    BY <2>1, <2>2 DEF FreshReading
  <2>4. ReadingInv'
    BY <2>1 DEF ReadingInv, Monitors, Idle
  <2> QED
    BY <2>3, <2>4 DEF FreshInv
<1>4. CASE Tick
  BY <1>4 DEF Tick, FreshInv, FreshReading, ReadingInv
<1>5. CASE Kill
  BY <1>5 DEF Kill, FreshInv, FreshReading, ReadingInv, Monitors, Idle
<1>6. CASE UNCHANGED vars
  BY <1>6 DEF vars, FreshInv, FreshReading, ReadingInv
<1> QED
  BY <1>1, <1>2, <1>3, <1>4, <1>5, <1>6 DEF Next

(* A power reading that is not 0 was sampled after the call that returns it   *)
(* began (pacman_i2c.cc:262-278): the first refresh of the call starts a      *)
(* conversion, the second puts its sample into the output registers, and no   *)
(* transaction that fails in between goes unnoticed.                          *)
THEOREM ReadingsFresh == Spec => []FreshReading
<1>1. Init => FreshInv
  BY DEF Init, FreshInv, FreshReading, ReadingInv, Monitors, Idle
<1>2. FreshInv => FreshReading
  BY DEF FreshInv
<1> QED
  BY <1>1, <1>2, VregTypes, FreshStep, PTL DEF Spec
=============================================================================
