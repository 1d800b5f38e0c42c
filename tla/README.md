# The PACMAN servers in TLA+

A model of the two servers that run on a PACMAN board, the *data server* and the *command server*,
of the memory, DMA channels and I2C chips they work on, and of what clients and the start script do
to them. TLC checks it on small instances; TLAPS proves every safety property that a passing run checks for
all sizes (*Proofs*). Paths are relative to `src/files/`.

## 1. The system

| Component | Code | State | Operations |
|---|---|---|---|
| Descriptor ring, DMA channel | `src/dma.cc`, `include/dma.hh` | descriptors in physical memory (NEXT, ADDR, CTRL, STAT), the channel's CTRL/STAT/CURR/TAIL registers | `init_circular_buffer`, `dma_set/get`, `dma_desc_cmplt`; the channel completes descriptors by itself |
| Data server | `src/pacman_dataserver.cc` | `curr`, `prev`, `words`, `err`, one `msg_buffer`, the flag `msg_ready` | a polling loop: collect, wait for the last message, copy, give descriptors back, send, look for errors; `clear_msg` runs on the ZMQ I/O thread |
| TX buffer | `src/tx_buffer.cc` | 40 rings of 1024 words | `tx_buffer_in`, `tx_buffer_out` |
| Transmit path | `src/pacman.cc` | `curr`, `prev` of the second ring | `pacman_init_tx`, `pacman_poll_tx`, `transmit_data`, `dma_restart` |
| Command server | `src/pacman_cmdserver.cc` | the request and reply in hand | per request: PING, WRITE, READ, TX words, a reply, two echo messages |
| PACMAN registers | `src/pacman.cc` | AXI-Lite registers | `pacman_read`, `pacman_write` |
| I2C virtual registers | `src/pacman_i2c.cc` | scratch and expert registers; DACs, multiplexers, power monitors | `i2c_read`, `i2c_write`, each a list of bus transactions |
| Message format | `src/message_format.cc`, `pacman_util.py` | - | layout of messages and words, in two languages |
| RX buffer | `src/rx_buffer.cc` | one ring | only the unit tests call it |
| Start script | `pacman_server.sh` | the two processes | start, stop, restart |
| Client, power scripts | `pacman_util.py`, `power_up_tile.sh`, `power_down.sh`, `report_power.sh` | - | requests with a timeout; read-modify-write of the tile enables |
| Simulated hardware | `src/pacman_simulated.cc` | - | switched off by its `#if` |

**How they interact.** The FPGA's packets reach memory through the S2MM channel of the DMA, which
fills descriptor after descriptor. The data server polls the STAT words, copies the words into a
message, clears STAT, moves the TAIL register and hands the message to ZMQ without copying it. The
ZMQ I/O thread later reads the buffer and calls `clear_msg`. Nothing synchronises the three but
STAT, TAIL and `msg_ready`. In the other direction clients send requests to the command server,
one at a time; TX words go into the TX buffer, and before the next request `pacman_poll_tx` drains
it into the MM2S ring and waits for the channel. Register words become accesses to the FPGA or I2C
transactions. Clients share the servers' state (TX buffer, expert registers, tile enables) but
not memory. The start script kills and launches the servers without touching the hardware.

**What is hard**, and what would make each component correct:

- *Data server.* Three parties run concurrently over one ring and one buffer. It should publish every
  packet once, in order, in messages that stay intact until ZMQ has sent them; never give the
  channel a descriptor it has not emptied; not stop because of a slow subscriber or a full ring;
  recover from DMA errors; and publish nothing twice after a restart.
- *Transmit path.* What a client got an answer for should go out once and in order on its channel,
  before the next request is taken, over the wrap of both rings, and not again after a restart.
- *TX buffer.* Bounded FIFO queues, whose full and empty states differ only by one unused slot.
- *Ring layout.* Two chains in one memory, one for the hardware and one for the program, that must be
  the same, with no word over the end.
- *I2C.* Operations of several transactions that fail one by one.
- *Command server, scripts.* Replies that do not depend on what happened; requests of several
  clients between a read and a write; servers launched before the old ones are gone.

`PROJECT.json` lists the hazards one by one, with the line where each bites and the property that
would catch it.

## 2. The modules

| Module | What it is |
|---|---|
| `CircularBuffer` | `init_circular_buffer`, one step per round of its loop, with byte addresses |
| `CircularBufferProofs` | theorems about it |
| `DmaRing` | the ring it leaves: descriptors `0 .. RingSize-1`, `NextOf`, `PrevOf`, `Dist` |
| `DmaEngine` | one DMA channel (external) and the register accesses of the servers; used twice |
| `DataServer` | the data server over `DmaEngine`, with ZMQ, subscribers, time, errors, kills |
| `DataStream` | abstract: packets are accepted and published, once, in order, boundedly |
| `DataServerProps` | the properties of the data server |
| `MCDataServer` | its fairness |
| `DmaRingProofs` | lemmas about distances on a ring, for the proofs about both servers |
| `DataServerProofs` | theorems about the data server |
| `TxQueues` | abstract: bounded FIFO queues, one per channel |
| `TxBuffer` | `tx_buffer.cc` and its refinement of `TxQueues` |
| `TxBufferProofs` | theorems about it |
| `TxPath` | the command server's transmit loop over `TxBuffer` and `DmaEngine` |
| `TxPathProofs` | theorems about it, from those of `TxBufferProofs` |
| `I2cVreg` | `pacman_i2c.cc`, one step per bus transaction |
| `I2cVregProofs` | theorems about it |
| `ServerLifecycle` | `pacman_server.sh` and the start of a server: processes, ports, signals |
| `ServerLifecycleProofs` | theorems about it |
| `MessageFormat` | the words of requests and replies as bytes, in the server's and in the client's terms |
| `CmdServer` | the command server with its clients, the power scripts, a listener and `ServerLifecycle` |
| `CmdServerProofs` | theorems about it, from those of `ServerLifecycleProofs`, and lemmas about the words of `MessageFormat` |
| `MCCircularBuffer`, `MCI2cVreg`, `MCCmdServer` | the inputs of their runs |

Names follow the code where there is a name to follow. A definition with the comment "mutant"
stands before the one it would replace: it is a plausible slip in that line, which the property
named in `PROJECT.json` must notice.

### DmaEngine
`stat[d]` is the STAT word of a descriptor, reduced to complete and error; `cur`, `tail`, `mode` and
`irq` are the channel. The channel completes the descriptor at `cur`, goes idle after the one at
`tail`, continues when TAIL is written, and halts with `irq` when it fetches a descriptor that is
still complete, when a transfer fails, or when it fails between descriptors. This is the
AXI DMA as `dma.hh` names its bits and the servers use it; `EngineResetBit` is the control bit that
resets it, because the repository names two (`dma.hh:36` and `pacman.cc:110, 119`).

### DataServer
One action per access to shared memory: `Collect`/`CollectEnd` read one STAT word (lines 94-100),
`Compose` ends the wait and writes the header (112-122), `CopyWord` is one round of the copy loop
(124-143), `UpdateTail` line 145, `Send` 149-161, `Check` 162-169. Printing and rates are left out.
A word is a packet number, so that loss, repetition and order show; `Garbage` is what a failed
transfer or zeroed memory leaves. `published` is what `zmq_msg_send` was given; `pipe` holds what
each message was when sent, while the bytes stay in `msg_buffer` until `IoSend` reads them.
`Expire` is the passing of the 1 s timeout. Five specifications differ in their environment: `NominalSpec`
(every transfer ends in time), `SlowSpec` (adds timeouts), `FaultSpec` (DMA errors), `CrashSpec` (kills),
`AnySpec` (all).

### TxBuffer, TxPath
`tx_buffer_in(c, w)` and `tx_buffer_out` are the functions of those names, `ret` and `output` what they return.
`TxPath` runs them in the loop of `main`: `Poll`, `Fill`, `FillEnd`, `Transmit`, `Spin`, `TransmitEnd` are
`pacman_poll_tx` and `transmit_data`; `Recv`, `TxRequest`, `Reply` the request. The words for a channel are
numbered as clients send them, and `wire` is what went out on each channel, so order can be read off it. Channel argument 40 (io_channel 41) passes
the guards at `tx_buffer.cc:47` and `57` although the arrays end before it; `TxBufferAssumption` excludes it.

### CircularBuffer, I2cVreg
In `CircularBuffer` `buffer` is the `dma_desc` array and `mem` the registers in the ring's memory, by
physical address. In `I2cVreg` a call is turned into its list of transactions (`WriteSteps`, `ReadSteps`,
the two switches), `Succeed` and `Fail` take one off, `Return` computes the result. A failed transaction may have had
its effect. A direct access takes its chip address and register as bytes; it writes as many bytes as the client says, and a
chip register given another number of them than it has may hold anything afterwards; at register 0 of a power monitor it is a refresh. A power sample is the time it was taken. Scaling of readings, the version registers
and element 15 of the two 15-element arrays are left out.

### ServerLifecycle, MessageFormat, CmdServer
`ServerLifecycle` follows each process of one server: `Bind` is one `zmq_bind` (the command server has two ports, the
data server one), `BindFails` the `return 1`, `InitHardware` the rest up to the loop. `KillAll` only marks the
processes, `Exit` is when the signal takes effect. The script launches without waiting.

`MessageFormat` has the words as 16 bytes: `get_req_word_*` and `set_rep_word_*` by offset, `format_word` and `parse_word`
from the `struct` formats of `pacman_util.py`, whose offsets are added up from the widths, padding included. Values stay below 2^24.

`CmdServer` composes the two. `Receive`, one action per type of word, `EchoRequest` and `Reply` are the loop of `main`; a kill or the
end of a process can fall between any two of them, and takes the request in hand, any of the requests already in its
sockets and replies not yet sent along (`LosesMessages`). Each run of a client is a connection: `inbox` is a set, because
ZMQ takes connections in any order, and a request whose client timed out may stay in it (`Closed`). `power_up_tile.sh` is a
job of two requests, the second computed from the reply to the first as the client parses it. `fill` is what the memory of a reply held
before, since `zmq_msg_init_size` does not clear it. `logged` is the register map that follows from the log that
`pacman_util.py --listen --log` writes, for a listener that keeps up: the last write of a register counts. Registers are those the scripts use; a client
that is run by hand may read them, and leaves it to the scripts to write them (`MayBeSent`). The DACs behind the I2C
bus take a value or, `MAX_FAULTS` times, do not. `pacman_poll_tx` and TX words are the business of `TxPath`; here the poll is assumed to end,
which `TxPath` shows as long as the channel does not fail.

## 3. The runs

| Run | Question | Bounds |
|---|---|---|
| `data_slow` | without DMA errors, with transfers of any duration, is the ring consistent, every packet in its place, the stream complete and in order, the buffer intact until a wait is given up, and the readout live? | ring 3, messages up to 4 words, 6 packets, 2 queued messages |
| `data_any` | with an error and a kill at any step, is nothing published twice, and when does a restart lose nothing and recover? | ring 4, messages up to 2, 4 packets, 1 error, 1 kill |
| `tx_buffer` | do the rings implement FIFO queues in any order of calls? | 2 channels, 3 slots, arguments 0, 1, 254, 255 |
| `tx_any` | does each wire carry what was accepted, once, in order, in time, through a full buffer, an error and a kill? | ring 4, 2 channels, 2 slots, 5 words, 1 error, 1 kill |
| `ring_layout` | is the channel's chain the servers' chain, inside the memory? | 60 calls of 2 to 5 chunks |
| `i2c` | do the switches of a contact agree, are readings fresh? | 13 requests on shared chips, 1 failure, 1 kill, 2 instants |
| `cmd` | are tiles powered in order, do scripts do their work, does the log account for the registers, do replies match, is every request answered, through timeouts, I2C failures and restarts? | 2 shells, 2 tiles, 2 jobs, 2 processes, 1 command of the script after boot, 1 timeout, 1 failed I2C write |
| `data_stale_free`, `data_silent_error`, `tx_reply`, `tx_init`, `cmd_unknown` | violations, section 4 | |

*Why these bounds are enough.* What matters in a ring is where the pointers stand relative to each other:
3 or 4 descriptors give every order of `prev`, `curr`, `cur` and `tail`, the full and the empty ring,
and two turns of it. `data_slow` has messages longer than the ring, so that the break at the end of the
ring is taken, and `data_any` messages shorter than it, so that the break at the message limit is. (With
the real sizes, 1,966,080 descriptors and 65,535 words, the first break cannot come before the second.) In `tx_any` the ring holds what the
buffers can, as in the real system (131,072 descriptors for 40 x 1023 words). Two multiplexer writes and
two refreshes are the longest sequences in which one failure can hide behind another success. In `cmd` two jobs,
one after the other or at the same time, are any two scripts on the same or on different tiles, or a script and another client; one
command of the script is a stop, a second start or a restart at any step of them.

*Fairness.* `WF_vars(ServerStep)`: the servers' threads are never blocked for ever by the operating
system, and their loops only wait by polling (the wait at `pacman_dataserver.cc:114` and the spin at
`pacman.cc:55` included). `WF_vars(Expire)`: time passes. In `TxPath`, `WF_vars(Complete)`: a working channel
transmits what it was given. In `CmdServer` it is one condition for all, `WF_vars(Scheduled)`: as long as a process, the script or a client with
a reply has something to do, something is done. That is weaker than fairness to each of them, and enough because the bounds end every behaviour. No fairness is assumed of the FPGA, of subscribers, of the ZMQ I/O thread or
of clients: `EverythingPublished` and `RingGivenBack` hold even if a subscriber never reads. The
premises of conditional properties (`[](kills = 0 /\ ~ DirtyRestart)` and so on) select behaviours that the
run does contain. Deadlock checking is on wherever time and clients can always move; it is off for `CmdServer`,
where everything may come to rest when the bounded jobs are done.

## 4. What the runs show

Without DMA errors the data server implements `DataStream`, for transfers of any duration. With
errors, a restart at `curr` (line 166) is right when no complete descriptor lies ahead: otherwise
(`DirtyRestart`) the channel meets them as stale descriptors, or packets are published out of order or skipped.
After a kill no packet is published twice, but while the channel runs on between the `memset` of the new process and
its restart, what it completes may be published out of place or lost. The transmit path keeps its
promises up to an error, after which `transmit_data` spins for ever: the code has no way out of it.

Tiles are never powered before their voltages are set (`PowerOrder`), through any mix of scripts, late requests and
kills in the middle of a request. The rest holds under conditions, each of which is needed:

- `TilesOn`: two `power_up_tile.sh` at a time lose one of the two enables, because other requests are served between the read and the
  write; and a script that timed out may still change the enables later, behind the back of the next one.
- `LogReplays` and the voltages in `PowerOrder`: a failed I2C write is answered and echoed like a good one (`pacman.cc:221` drops the
  result); a server killed in the middle of a request leaves writes that are in no log.
- `Answered`: after `pacman_server restart` the new server may find the port of the dying one taken, and exit. Then nothing serves until
  the script is used again.

In a DATA reply the client prints a time stamp from bytes that no server sets. (In data words it looks for it at byte 2, while it is at byte 4:
`pacman_util.py:48`, `larpix.hh:8`.)

Five disagreements between the code and what the repository says of it, each with a run:

1. `data_stale_free`: `msg_ready` does not say which message was freed. After one timeout the late free of the
   older message ends the wait for the newer one, whose buffer is then rewritten while ZMQ holds it (comment at `pacman_dataserver.cc:112`).
2. `data_silent_error`: with no new word the loop `continue`s at line 100, before the check of
   `ERR_IRQ` at 162; a channel that halts then is never restarted (comment at line 163).
3. `tx_reply`: a TX word that finds its ring full (the 1024th of a request for one channel) is dropped and answered as transmitted
   (`message_format.cc:160`). The same happens to the broadcast channel that `pacman_util.py:284` advertises.
4. `tx_init`: `DMA_RST` is 0x2, while `pacman.cc:110, 119` say that 0x4 resets; if so, an error outlives
   `dma_restart`. `pacman_init_tx` then returns 2, which `main` compares with 1, and it reports success (`pacman_cmdserver.cc:61-66`).
5. `cmd_unknown`: a word of an unknown type is to be answered with an error word (`message_format.cc:171`), but `pacman_cmdserver.cc:150` passes null pointers to
   `set_rep_word_err`, which copies from them: the process ends, and with it every request that waits.

## 5. Proofs

Every invariant, action property and refinement that a passing run checks is a theorem of TLAPS, for all values of the
constants. The only assumptions are the named `ASSUME`s of the modules: a ring has 2 descriptors or more, a message 1 word, a ring of the TX buffer 2 slots,
the ring of the transmit path more descriptors than the TX buffer holds words, `TX_BUFFER_CHAN` is not a channel argument, the memory of a ring holds two chunks,
there are at most ten tiles, and so on. The bounds on packets, errors, kills, requests and time are any number.
In each module the theorems follow from an inductive invariant.

**Data server** (`DataServerProofs`; without errors under `SlowSpec`, with all of them under `AnySpec`).

- `TypeCorrect`: `TypeOK` is not inductive by itself: `Collect` adds one to `words`, which stays within `MAX_MSG_LEN` only
  because the loop was left when the limit was reached. `RoomForWord` says so.
- `RingCorrect`, `NeverStaleFetch`: `RingInv` relates the pointers to TAIL (`PointersInv`), the channel's position to both (`ChannelInv`) and
  every STAT word to all of them (`StatInv`). `Dist` turns the wrap-around into linear arithmetic.
- `PacketsInOrder`: with `RingInv`, `PacketsInv` is inductive: it says which packet is in which descriptor and which word of the buffer.
- `ServerImplementsStream`: the refinement of `DataStream`. `Receive` is `Accept`, `Send` is `Publish`, all else stutters; that the
  message is the next packets is `PacketsInv`, that there is room is `RingInv`.
- `MessagesIntact`: until a wait is given up, `BufferInv` holds: ZMQ has one message at most, the one in the buffer, and nobody writes there.
- `PublishedOnce`: under errors and kills the places of packets are not known any more, but no packet is in two of them (`OnceInv`): a copied word leaves its
  descriptor, since what was collected is complete (`CollectedInv`) and is cleared as it is copied.
- `RestartLosesNothing`: as long as no restart is dirty, the words published, those in the buffer and those in complete descriptors
  from `prev` on are one sequence in which all packets received come in order, mixed with what failed transfers left (`GapInv`). A step of
  the server only moves the borders between the three parts. A clean restart finds the third one empty, so that a channel that starts at `curr` cannot leave a gap.

**TX buffer** (`TxBufferProofs`): `BufferTypes`, and `BufferImplementsQueues`, the refinement of `TxQueues`. `Content` is the queue
between two indices; the lemmas say what adding at the head and taking at the tail do to it, wrapped or not.

**Transmit path** (`TxPathProofs`, under `CrashSpec`: errors, kills, launches).

- `TxTypes`: that a poll stays inside the ring needs `RoomInv`: the words written, those in `output` and those in the fullest queue
  are together never more than the buffer holds. `WordsInv`: no slot that was never written is transmitted.
- `TxNeverStaleFetch`: from `TxRingInv`: the channel works only while the thread waits for it, or after a kill, and finds cleared descriptors up to TAIL.
- `TransmittedOnce`: `OrderInv`: the words of a channel increase along their way, over the wire, the descriptors ahead
  of the channel, `output` and the queue, also when a new server has zeroed the ring while the channel runs. Order implies that none comes twice.
- `TransmitsInOrder`, `PollTransmitsAll`: `CoverInv` adds that without a kill each accepted word is on the wire or on its way; `HaltInv` that
  without an error the channel is not halted. After the wait no way is left.

**Ring layout** (`CircularBufferProofs`): `BufferTypes`, `OneRing`, `WholeWords`, from the loop invariant `LoopInv`: the elements and registers
written so far, each as a function of its index. No induction is needed beyond that of the loop.

**I2C** (`I2cVregProofs`): `VregTypes`. `ContactsPaired`: `SettingInv` follows the two writes of a contact, and remembers after the first
one that it succeeded; `PendingInv` keeps contacts with writes ahead out of `paired`. `ReadingsFresh`: `ReadingInv` says for each rest of a reading's list of
transactions which sample of the monitor is of the call's own time.

**Start and stop** (`ServerLifecycleProofs`, any processes, ports, commands): `LifeInvariant`, `HardwareExclusive`. `LifeInv` adds to the types that a
process past its binds holds every port and one that is gone none (`PortsHeld`), and that only one process holds any (`OneHolder`): ports are bound in one
order, so who has the first keeps all others from starting.

**Command server** (`CmdServerProofs`, any shells, jobs, timeouts, faults, kills).

- Words: `OneField` (the fields of a format do not overlap and fill a word), `WordCarried` (what a client puts the server gets), `AnswerParsed` (what
  the server sets the client gets, whatever the memory held), `TileAdded` (the bit arithmetic of `power_up_tile.sh`).
- `CmdInvariant`: `CmdInv` has four parts besides the types. `Power`: the registers are safe. `Handling`: the words of the request in hand that
  are answered have had their effect, so that the next one finds what it needs, and the enables a script has read were
  safe to read and stay so. `Messages`: each request in a socket is one a client may send, each reply the answer to one. `OnePlace`: what a client asked is
  in one socket, in hand, or in one reply, never in two. From it follow `CmdTypesRight`, `OneServer`, `PowerInOrder`, `AnswersRight`.
- `LogReplaysRight`: `LogInv` says that in the middle of a request the registers are those of the log after its first words.
- `TilesOnRight`: `TilesInv`: as long as no scripts overlap and none timed out, one at most is at work, and the enables are those of
  the tiles that are on, changed as far as the words of its request have been handled.

**Only model-checked.** `EverythingPublished`, `RingGivenBack`, `CleanRestartRecovers`, `PollEnds` and `Answered` are liveness
properties under fairness, which this prover cannot reason about (nor about ENABLED). The five violations of section 4 are
counterexamples of TLC. Nothing is defined by recursion, about which the prover could say nothing without induction over data: sequences are related by their
elements (`NoGap`, `Content`).

## 6. Not modelled, and the plan

Left out for good: printing, rates and versions; `pacman_simulated.cc` (in no build); `dma_*_sync` and
`i2c_rw` (never called); `pacman_util_test.py` and the build files. `restart_dma` (`pacman_dataserver.cc:31`) has no return statement although
it is not void: undefined, harmless without optimisation, and not a matter of states.

`rx_buffer.cc` is called by the unit tests only; its ring is the one of `tx_buffer.cc` with a single channel. Of the message format the
header and the setters of data words, which no server calls, are left out.

The plan of modules and runs is carried out, and so are its theorems. What could still be proved:

1. `TxPath` as a refinement of one abstract specification of a channel, which `TransmitsInOrder`, `TransmittedOnce` and `PollTransmitsAll` say in three parts.
2. The steps of the liveness arguments that are safety: which action brings a wait to its end, and that no other undoes it.
