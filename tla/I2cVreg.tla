------------------------------ MODULE I2cVreg ------------------------------
(***************************************************************************)
(* pacman_i2c.cc: the virtual registers of the command server and the      *)
(* chips behind them, on one I2C bus.  A call of i2c_write or i2c_read is  *)
(* a list of bus transactions, one step each; any of them may fail, the    *)
(* code goes on with the next one and remembers it.  Between two steps     *)
(* time passes and the server may be killed.                               *)
(*                                                                         *)
(* A chip register holds the last value written to it.  A power monitor    *)
(* holds the sample of the conversion its last refresh started, and in its *)
(* output registers the one that refresh found; a sample is the time at    *)
(* which it was taken.                                                     *)
(***************************************************************************)
EXTENDS Integers, Sequences

CONSTANTS
  Requests,     \* calls: op "read" or "write", virtual register, value
  MAX_NOW,      \* bound: time
  MAX_FAULTS,   \* bound: failed transactions
  MAX_KILLS     \* bound: times the server is killed

ADDR_DAC_VDDA == 12
ADDR_DAC_VDDD == 13
ADDR_ADC_TILES == 16     \* two tiles per chip; ADDR_ADC_BOARD is the sixth
ADDR_MUX_P == 76
ADDR_MUX_N == 77
MUX_A == 20              \* register 0x14, and 0x15 for contact B
MUX_B == 21

Adcs == ADDR_ADC_TILES .. ADDR_ADC_TILES + 5
DacReg(lower) == 48 + lower          \* 0x30 + lower
DacRegs == {ADDR_DAC_VDDA, ADDR_DAC_VDDD} \X {DacReg(n) : n \in 0 .. 10}
MuxRegs == {ADDR_MUX_P, ADDR_MUX_N} \X {MUX_A, MUX_B}
RegBytes(x) == IF x \in DacRegs THEN 2 ELSE 1

\* The version registers, which are constants, are left out.
Uppers == {"SET_VDDA", "SET_VDDD", "MON_VDDA", "MON_VDDD", "MON_IDDA", "MON_IDDD",
           "SET_MUXA", "SET_MUXB", "SCRATCH", "EXPERT", "DIRECT"}
Request == [op : {"read", "write"}, upper : Uppers, lower : 0 .. 15, val : Nat]

\* The arrays i2c_scratch and i2c_expert have 15 elements: what an access to
\* register 15 touches is left to the layout of the program.
Index == 0 .. 14

ASSUME I2cVregAssumption ==
  /\ Requests \subseteq Request
  /\ \A r \in Requests : r.upper \in {"SCRATCH", "EXPERT"} => r.lower \in Index
  /\ MAX_NOW \in Nat \ {0} /\ MAX_FAULTS \in Nat /\ MAX_KILLS \in Nat

VARIABLES
  hw,            \* the registers of the DACs and the multiplexers
  adc,           \* the two samples of each power monitor
  now,           \* time: what a conversion started now measures
  i2c_scratch, i2c_expert,
  call,          \* the call in progress, or Idle
  todo,          \* its transactions still to do
  status,        \* all its transactions so far have succeeded
  sample,        \* what it has read (0: nothing)
  began,         \* when it began
  ret,           \* what the last call returned, and when it had begun
  paired,        \* history: contacts whose last setting returned 1
  faults, kills

vars == <<hw, adc, now, i2c_scratch, i2c_expert, call, todo, status, sample, began,
          ret, paired, faults, kills>>

-----------------------------------------------------------------------------
(* The transactions: i2c_set with and without bytes of a value, i2c_recv. *)

\* What n bytes hold, and the n bytes that are sent of a value.
Bytes(n) == 0 .. 2 ^ (8 * n) - 1
LowBytesWhole(val, n) == val          \* mutant: more than the bytes sent
LowBytes(val, n) == val % 2 ^ (8 * n)

Transaction ==
  {t \in [kind : {"set", "pointer", "recv"}, addr : Bytes(1), reg : Bytes(1),
          val : Nat, bytes : 0 .. 4] : t.val \in Bytes(t.bytes)}

Set(addr, reg, val, nbytes) ==
  [kind |-> "set", addr |-> addr, reg |-> reg, val |-> LowBytes(val, nbytes), bytes |-> nbytes]
Pointer(addr, reg) == [kind |-> "pointer", addr |-> addr, reg |-> reg, val |-> 0, bytes |-> 0]
Recv(addr, reg) == [kind |-> "recv", addr |-> addr, reg |-> reg, val |-> 0, bytes |-> 0]
Config(addr) == Set(addr, 1, 34048, 2)
Refresh(addr) == Pointer(addr, 0)

get_mux_code(val) ==
  IF val \in 1 .. 10 THEN val - 1
  ELSE IF val = 11 THEN 11            \* DAC
  ELSE 16                             \* switch disabled

SetDac(addr, lower, val) ==
  IF lower > 10 THEN <<>> ELSE <<Set(addr, DacReg(lower), val, 2)>>

SetMux(reg, val) ==
  LET code == get_mux_code(val)
  IN  <<Set(ADDR_MUX_P, reg, code, 1), Set(ADDR_MUX_N, reg, code, 1)>>

\* base: 7 and 8 for the voltages, 0xB and 0xC for the currents.
MonitorOneRefresh(base, lower) ==     \* mutant
  LET addr == ADDR_ADC_TILES + lower \div 2
      reg == base + 2 * (lower % 2)
  IN  IF lower > 11 THEN <<>>
      ELSE <<Config(addr), Refresh(addr), Pointer(addr, reg), Recv(addr, reg)>>
Monitor(base, lower) ==
  LET addr == ADDR_ADC_TILES + lower \div 2
      reg == base + 2 * (lower % 2)
  IN  IF lower > 11 THEN <<>>
      ELSE <<Config(addr), Refresh(addr), Refresh(addr), Pointer(addr, reg), Recv(addr, reg)>>

\* Chip address, chip register and number of bytes come from the expert
\* registers, the first two as uint8_t; without bytes only the register is sent.
DirectAllowed == i2c_expert[1] = 1 /\ i2c_expert[4] <= 4
DirectAddr == LowBytes(i2c_expert[2], 1)
DirectReg == LowBytes(i2c_expert[3], 1)
i2c_direct_write(val) ==
  IF ~ DirectAllowed THEN <<>>
  ELSE IF i2c_expert[4] = 0 THEN <<Pointer(DirectAddr, DirectReg)>>
  ELSE <<Set(DirectAddr, DirectReg, val, i2c_expert[4])>>
i2c_direct_read ==
  IF ~ DirectAllowed THEN <<>> ELSE <<Recv(DirectAddr, DirectReg)>>

\* The switch of i2c_write.
WriteSteps(r) ==
  CASE r.upper = "SET_VDDA" -> SetDac(ADDR_DAC_VDDA, r.lower, r.val)
    [] r.upper = "SET_VDDD" -> SetDac(ADDR_DAC_VDDD, r.lower, r.val)
    [] r.upper = "SET_MUXA" -> SetMux(MUX_A, r.val)
    [] r.upper = "SET_MUXB" -> SetMux(MUX_B, r.val)
    [] r.upper = "DIRECT" -> i2c_direct_write(r.val)
    [] OTHER -> <<>>

\* The switch of i2c_read.
ReadSteps(r) ==
  CASE r.upper = "MON_VDDA" -> Monitor(7, r.lower)
    [] r.upper = "MON_VDDD" -> Monitor(8, r.lower)
    [] r.upper = "MON_IDDA" -> Monitor(11, r.lower)
    [] r.upper = "MON_IDDD" -> Monitor(12, r.lower)
    [] r.upper = "DIRECT" -> i2c_direct_read
    [] OTHER -> <<>>

Contact(upper) == IF upper = "SET_MUXA" THEN MUX_A ELSE MUX_B
SetsMux(r) == r.op = "write" /\ r.upper \in {"SET_MUXA", "SET_MUXB"}
Monitors(r) == r.op = "read" /\ r.upper \in {"MON_VDDA", "MON_VDDD", "MON_IDDA", "MON_IDDD"}

-----------------------------------------------------------------------------
Idle == [op |-> "none"]
Zeroed == [n \in Index |-> 0]

TypeOK ==
  /\ DOMAIN hw = DacRegs \cup MuxRegs
  /\ \A x \in DOMAIN hw : hw[x] \in Bytes(RegBytes(x))
  /\ adc \in [Adcs -> [conv : 0 .. now, out : 0 .. now]]
  /\ now \in 1 .. MAX_NOW
  /\ i2c_scratch \in [Index -> Nat] /\ i2c_expert \in [Index -> Nat]
  /\ call \in Requests \cup {Idle}
  /\ todo \in Seq(Transaction) /\ status \in BOOLEAN
  /\ sample \in 0 .. now /\ began \in 0 .. now
  /\ paired \subseteq {MUX_A, MUX_B}
  /\ faults \in 0 .. MAX_FAULTS /\ kills \in 0 .. MAX_KILLS

\* The switches are off and the DACs at 0 when the board is powered.
Init ==
  /\ hw = [x \in DacRegs \cup MuxRegs |-> IF x \in MuxRegs THEN 16 ELSE 0]
  /\ adc = [a \in Adcs |-> [conv |-> 0, out |-> 0]]
  /\ now = 1
  /\ i2c_scratch = Zeroed /\ i2c_expert = Zeroed
  /\ call = Idle /\ todo = <<>> /\ status = FALSE /\ sample = 0 /\ began = 0
  /\ ret = [call |-> Idle, val |-> 0, began |-> 0]
  /\ paired = {}
  /\ faults = 0 /\ kills = 0

\* The call of i2c_write or i2c_read.
Call(r) ==
  LET steps == IF r.op = "write" THEN WriteSteps(r) ELSE ReadSteps(r)
  IN  /\ call = Idle
      /\ call' = r
      /\ todo' = steps
      /\ status' = (steps # <<>>)
      /\ sample' = 0
      /\ began' = now
      /\ i2c_scratch' = IF r.op = "write" /\ r.upper = "SCRATCH"
                        THEN [i2c_scratch EXCEPT ![r.lower] = r.val] ELSE i2c_scratch
      /\ i2c_expert' = IF r.op = "write" /\ r.upper = "EXPERT"
                       THEN [i2c_expert EXCEPT ![r.lower] = r.val] ELSE i2c_expert
      /\ paired' = IF SetsMux(r) THEN paired \ {Contact(r.upper)}
                   ELSE IF r.op = "write" /\ r.upper = "DIRECT" /\ steps # <<>> THEN {}
                   ELSE paired
      /\ UNCHANGED <<hw, adc, now, ret, faults, kills>>

\* What a chip does with a transaction.  A power monitor takes its register 0 for the
\* command to refresh.
Chips == Adcs \cup {ADDR_DAC_VDDA, ADDR_DAC_VDDD, ADDR_MUX_P, ADDR_MUX_N}
Present(t) == t.addr \in Chips
Sets(t) == t.kind = "set" /\ <<t.addr, t.reg>> \in DacRegs \cup MuxRegs
Refreshes(t) == t.kind # "set" /\ t.addr \in Adcs /\ t.reg = 0

\* Where the length is not the register's, any value may result.
Written(t) ==
  LET x == <<t.addr, t.reg>>
  IN  IF t.bytes = RegBytes(x) THEN {t.val} ELSE Bytes(RegBytes(x))
Effect(t) ==
  /\ IF Sets(t) THEN \E v \in Written(t) : hw' = [hw EXCEPT ![<<t.addr, t.reg>>] = v]
                ELSE hw' = hw
  /\ adc' = IF Refreshes(t)
            THEN [adc EXCEPT ![t.addr] = [out |-> @.conv, conv |-> now]] ELSE adc
  /\ sample' = IF t.kind = "recv" /\ t.addr \in Adcs THEN adc[t.addr].out ELSE sample

StatusLast(ok) == ok                    \* mutant: only the last one counts
StatusAll(ok) == status /\ ok

\* One transaction.  One that fails may have been carried out all the same.
Succeed ==
  /\ todo # <<>>
  /\ Present(Head(todo))
  /\ Effect(Head(todo))
  /\ todo' = Tail(todo)
  /\ status' = StatusAll(TRUE)
  /\ UNCHANGED <<now, i2c_scratch, i2c_expert, call, began, ret, paired, faults, kills>>

Fail ==
  /\ todo # <<>>
  /\ IF Present(Head(todo))
     THEN /\ faults < MAX_FAULTS
          /\ faults' = faults + 1
          /\ Effect(Head(todo)) \/ UNCHANGED <<hw, adc, sample>>
     ELSE UNCHANGED <<faults, hw, adc, sample>>
  /\ todo' = Tail(todo)
  /\ status' = StatusAll(FALSE)
  /\ UNCHANGED <<now, i2c_scratch, i2c_expert, call, began, ret, paired, kills>>

\* (The value of a direct read from a chip that is no power monitor is left out.)
Result ==
  IF call.upper = "SCRATCH" THEN i2c_scratch[call.lower]
  ELSE IF call.upper = "EXPERT" THEN i2c_expert[call.lower]
  ELSE IF ~ status THEN 0
  ELSE IF call.op = "read" THEN sample ELSE 1

Return ==
  /\ call # Idle
  /\ todo = <<>>
  /\ ret' = [call |-> call, val |-> Result, began |-> began]
  /\ paired' = IF SetsMux(call) /\ Result = 1 THEN paired \cup {Contact(call.upper)} ELSE paired
  /\ call' = Idle
  /\ UNCHANGED <<hw, adc, now, i2c_scratch, i2c_expert, todo, status, sample, began,
                 faults, kills>>

Tick ==
  /\ now < MAX_NOW
  /\ now' = now + 1
  /\ UNCHANGED <<hw, adc, i2c_scratch, i2c_expert, call, todo, status, sample, began,
                 ret, paired, faults, kills>>

\* The server is killed and launched again; the chips are not reset.
Kill ==
  /\ kills < MAX_KILLS
  /\ kills' = kills + 1
  /\ i2c_scratch' = Zeroed /\ i2c_expert' = Zeroed
  /\ call' = Idle /\ todo' = <<>> /\ status' = FALSE /\ sample' = 0
  /\ UNCHANGED <<hw, adc, now, began, ret, paired, faults>>

Next == (\E r \in Requests : Call(r)) \/ Succeed \/ Fail \/ Return \/ Tick \/ Kill
Spec == Init /\ [][Next]_vars

-----------------------------------------------------------------------------
(* The two switches of a contact select the same tile whenever the last     *)
(* setting of the contact returned 1, whatever failed before and in         *)
(* between: a write that failed on one switch is reported as a failure      *)
(* (pacman_i2c.cc:424-430), and one the server did not survive is not       *)
(* reported at all.                                                         *)
SwitchesPaired ==
  \A c \in paired : hw[<<ADDR_MUX_P, c>>] = hw[<<ADDR_MUX_N, c>>]

(* A power reading is never older than the call that returns it, although   *)
(* the chip holds samples of earlier calls, of this tile or of the other    *)
(* one on the chip; if a transaction failed it is 0 (pacman_i2c.cc:262-278). *)
FreshReading ==
  Monitors(ret.call) => ret.val = 0 \/ ret.val >= ret.began
=============================================================================
