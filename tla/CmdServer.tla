------------------------------ MODULE CmdServer ------------------------------
(***************************************************************************)
(* The command server and those who use it: the clients started from the   *)
(* command line (pacman_util.py) and by the power scripts, with their      *)
(* timeouts, the script that starts and stops the server                   *)
(* (ServerLifecycle), the registers behind it, and the log a listener on   *)
(* the echo port keeps.                                                    *)
(*                                                                         *)
(* The server handles one request at a time, word by word, so that it may  *)
(* be killed between two words.  Each run of a client is a connection of   *)
(* its own: requests of different connections are handled in any order,    *)
(* and one whose client gave up waiting is still handled.  What a word to  *)
(* transmit does is the subject of TxPath.                                 *)
(***************************************************************************)
EXTENDS ServerLifecycle, MessageFormat, SequencesExt

CONSTANTS
  Clients,        \* shells in which scripts and clients run, as numbers
  Tiles,          \* tiles that are powered up
  Jobs,           \* what may be run in a shell: PowerUpJob(t), PowerDownJob, SendJob(words)
  FILLS,          \* values of a byte of a reply that nobody initialised
  MAX_RUNS,       \* bound: jobs
  MAX_TIMEOUTS,   \* bound: jobs that give up waiting
  MAX_FAULTS      \* bound: I2C transfers that fail

PowerUpJob(t) == [script |-> "power_up_tile", tile |-> t, words |-> <<>>]
PowerDownJob == [script |-> "power_down", tile |-> 0, words |-> <<>>]
SendJob(words) == [script |-> "pacman_util", tile |-> 0, words |-> words]

VARIABLES
  pc,        \* of the server: "recv", "words" or "reply" (the request is echoed)
  req, rep,  \* the request being handled, and the words of its reply so far
  fill,      \* what the reply's memory held when it was allocated
  regs,      \* register -> value, in the FPGA and in the DACs
  client,    \* shell -> Idle, or what it is running and what it has asked
  inbox,     \* requests sent and not yet received by the server
  outbox,    \* replies sent and not yet received by their clients
  logged,    \* registers that result from the writes in the listener's log
  lost,      \* history: shells whose request or reply went down with a server
  cut,       \* history: a server ended in the middle of a request
  crashed,   \* history: a server ended of itself
  overlap,   \* history: two scripts changed the tile enables at the same time
  on,        \* history: tiles powered up and not powered down since
  runs, timeouts, faults

serverVars == <<pc, req, rep, fill>>
clientVars == <<client, inbox, outbox, lost>>
historyVars == <<overlap, on, runs, timeouts>>
vars == <<serverVars, regs, clientVars, logged, cut, crashed, historyVars, faults, lifeVars>>

-----------------------------------------------------------------------------
(* The registers and the scripts.                                           *)

PACMAN_LEN == 147456                        \* 0x24000: the I2C registers follow
TILE_EN == 16
PWR_EN == 20
VDDA(t) == PACMAN_LEN + 16 + t - 1
VDDD(t) == PACMAN_LEN + 32 + t - 1
DAC_VALUE == 43875
Registers == {TILE_EN, PWR_EN} \cup {VDDA(t) : t \in Tiles} \cup {VDDD(t) : t \in Tiles}

\* What a client that is run by hand sends.  It may read the scripts' registers, and
\* leaves it to the scripts to write them.
ByHand == [type : {PING, WRITE, READ, DATA, TRIG}, a : Values, b : Values]
MayBeSent(w) ==
  /\ w.type = PING => w.a = 0
  /\ w.type = WRITE => w.a \notin Registers
  /\ w.type = READ => w.a \in Registers
  /\ w.type = DATA => w.a \in 0 .. 255

ASSUME CmdServerAssumption ==
  /\ Clients \subseteq Nat \ {0}
  /\ Tiles \subseteq 1 .. 10
  /\ \A job \in Jobs :
       \/ job = PowerDownJob \/ \E t \in Tiles : job = PowerUpJob(t)
       \/ /\ job = SendJob(job.words) /\ job.words # <<>>
          /\ job.words \in Seq(ByHand) /\ \A i \in DOMAIN job.words : MayBeSent(job.words[i])
  /\ FILLS \subseteq 0 .. 255 /\ FILLS # {}
  /\ MAX_RUNS \in Nat /\ MAX_TIMEOUTS \in Nat /\ MAX_FAULTS \in Nat

Write(reg, val) == Word(WRITE, reg, val)

EnabledTiles(val) == {t \in Tiles : (val \div 2^(t - 1)) % 2 = 1}
TileAlone(val, t) == 2^(t - 1)              \* mutant: the enables are not read first
WithTile(val, t) == IF t \in EnabledTiles(val) THEN val ELSE val + 2^(t - 1)

ReadEnables == <<Word(READ, TILE_EN, 0)>>

EnableFirst(t, enables) ==                  \* mutant: powers on, then sets the voltages
  <<Write(PWR_EN, 1), Write(TILE_EN, WithTile(enables, t)),
    Write(VDDA(t), DAC_VALUE), Write(VDDD(t), DAC_VALUE)>>
PowerUp(t, enables) ==
  <<Write(VDDA(t), DAC_VALUE), Write(VDDD(t), DAC_VALUE),
    Write(PWR_EN, 1), Write(TILE_EN, WithTile(enables, t))>>

PowerDown == <<Write(TILE_EN, 0), Write(PWR_EN, 0)>>

-----------------------------------------------------------------------------
Idle == [job |-> SendJob(<<>>), sent |-> <<>>]
Busy == {c \in Clients : client[c] # Idle}
Powering == {c \in Busy : client[c].job.script # "pacman_util"}
NoRequest == [from |-> 0, words |-> <<>>]

Bytes == [0 .. WORD_LEN - 1 -> 0 .. 255]
IsMessage(m) == m.from \in Int /\ \A i \in DOMAIN m.words : m.words[i] \in Bytes

TypeOK ==
  /\ LifeTypeOK
  /\ pc \in {"recv", "words", "reply"}
  /\ IsMessage(req) /\ \A i \in DOMAIN rep : rep[i] \in Bytes
  /\ Len(rep) <= Len(req.words)
  /\ fill \in FILLS \cup {0}
  /\ regs \in [Registers -> Nat] /\ logged \in [Registers -> Nat]
  /\ \A c \in Clients : client[c] = Idle \/ client[c].job \in Jobs
  /\ \A m \in inbox : IsMessage(m)
  /\ \A m \in outbox : IsMessage(m) /\ m.from \in Busy
  /\ lost \subseteq Busy
  /\ on \subseteq Tiles
  /\ cut \in BOOLEAN /\ crashed \in BOOLEAN /\ overlap \in BOOLEAN
  /\ runs \in 0 .. MAX_RUNS /\ timeouts \in 0 .. MAX_TIMEOUTS /\ faults \in 0 .. MAX_FAULTS

Init ==
  /\ LifeInit
  /\ pc = "recv" /\ req = NoRequest /\ rep = <<>> /\ fill = 0
  /\ regs = [r \in Registers |-> 0] /\ logged = [r \in Registers |-> 0]
  /\ client = [c \in Clients |-> Idle] /\ inbox = {} /\ outbox = {}
  /\ lost = {} /\ cut = FALSE /\ crashed = FALSE /\ overlap = FALSE /\ on = {}
  /\ runs = 0 /\ timeouts = 0 /\ faults = 0

-----------------------------------------------------------------------------
(* The clients. *)

Request(c, words) == [from |-> c, words |-> [i \in DOMAIN words |-> format_word(words[i])]]
FirstRequest(job) ==
  CASE job.script = "power_up_tile" -> ReadEnables
    [] job.script = "power_down" -> PowerDown
    [] OTHER -> job.words

Run(c, job) ==
  /\ client[c] = Idle /\ runs < MAX_RUNS
  /\ client' = [client EXCEPT ![c] = [job |-> job, sent |-> FirstRequest(job)]]
  /\ inbox' = inbox \cup {Request(c, FirstRequest(job))}
  /\ overlap' = (overlap \/ (job.script # "pacman_util" /\ Powering # {}))
  /\ on' = IF job.script = "power_down" THEN {} ELSE on
  /\ runs' = runs + 1
  /\ UNCHANGED <<serverVars, regs, outbox, lost, logged, cut, crashed, timeouts, faults, lifeVars>>

\* power_up_tile.sh has read the enables: it sends all its writes.
AsksMore(c, m) ==
  /\ client[c].job.script = "power_up_tile" /\ client[c].sent = ReadEnables
  /\ \E enables \in {parse_word(Last(m.words)).b} :
     \E words \in {PowerUp(client[c].job.tile, enables)} :
       /\ client' = [client EXCEPT ![c].sent = words]
       /\ inbox' = inbox \cup {Request(c, words)}
  /\ UNCHANGED on

Finishes(c) ==
  /\ ~ (client[c].job.script = "power_up_tile" /\ client[c].sent = ReadEnables)
  /\ client' = [client EXCEPT ![c] = Idle]
  /\ on' = IF client[c].job.script = "power_up_tile"
           THEN on \cup {client[c].job.tile} ELSE on
  /\ UNCHANGED inbox

GetReply(c) ==
  /\ \E m \in outbox :
       /\ m.from = c
       /\ outbox' = outbox \ {m}
       /\ AsksMore(c, m) \/ Finishes(c)
  /\ UNCHANGED <<serverVars, regs, lost, logged, cut, crashed, overlap, runs,
                 timeouts, faults, lifeVars>>

\* A request of a connection that its client has closed, the n-th to be closed.
Closed(n) == 0 - n

\* The client closes its connection and its script ends, power_up_tile.sh too:
\* without an answer it has no value to write.  The request is with the server,
\* or was never delivered and goes with the client.
Timeout(c) ==
  /\ c \in Busy /\ timeouts < MAX_TIMEOUTS
  /\ timeouts' = timeouts + 1
  /\ client' = [client EXCEPT ![c] = Idle]
  /\ LET others == {m \in inbox : m.from # c}
         left == {[m EXCEPT !.from = Closed(timeouts')] : m \in inbox \ others}
     IN  inbox' \in {others \cup left, others}
  /\ outbox' = {m \in outbox : m.from # c}
  /\ req' = IF req.from = c THEN [req EXCEPT !.from = Closed(timeouts')] ELSE req
  /\ lost' = lost \ {c}
  /\ UNCHANGED <<pc, rep, fill, regs, logged, cut, crashed, overlap, on, runs, faults, lifeVars>>

-----------------------------------------------------------------------------
(* The server's loop. *)

Receive ==
  /\ \E p \in Procs : stage[p] = "serve"
  /\ pc = "recv"
  /\ \E m \in inbox, byte \in FILLS :
       req' = m /\ inbox' = inbox \ {m} /\ fill' = byte
  /\ pc' = "words"
  /\ UNCHANGED <<rep, regs, client, outbox, lost, logged, cut, crashed, historyVars, faults, lifeVars>>

NextWord == req.words[Len(rep) + 1]
HandlesWord(type) ==
  /\ pc = "words" /\ Len(rep) < Len(req.words)
  /\ get_word_type(NextWord) = type
\* The place of the next word in the reply, which zmq_msg_init_size does not clear.
ReplyWord == [i \in 0 .. WORD_LEN - 1 |-> fill]

Answer(bytes) ==
  /\ rep' = Append(rep, bytes)
  /\ UNCHANGED <<pc, req, fill, clientVars, logged, cut, crashed, historyVars, lifeVars>>

PingWord ==
  /\ HandlesWord(PING)
  /\ Answer(set_rep_word_pong(ReplyWord))
  /\ UNCHANGED <<regs, faults>>

\* An I2C write may fail, with or without effect, and the result is dropped.
pacman_write(reg, val) ==
  \/ /\ regs' = [regs EXCEPT ![reg] = val]
     /\ UNCHANGED faults
  \/ /\ reg >= PACMAN_LEN /\ faults < MAX_FAULTS
     /\ faults' = faults + 1
     /\ UNCHANGED regs
\* The DAC registers are write-only.
pacman_read(reg) == IF reg < PACMAN_LEN THEN regs[reg] ELSE 0

WriteWord ==
  LET reg == get_req_word_reg(NextWord)
      val == get_req_word_write_val(NextWord) IN
  /\ HandlesWord(WRITE)
  /\ pacman_write(reg, val)
  /\ Answer(set_rep_word_reg(ReplyWord, WRITE, reg, val))

ReadWord ==
  LET reg == get_req_word_reg(NextWord) IN
  /\ HandlesWord(READ)
  /\ Answer(set_rep_word_reg(ReplyWord, READ, reg, pacman_read(reg)))
  /\ UNCHANGED <<regs, faults>>

TxWord ==
  /\ HandlesWord(DATA)
  /\ Answer(set_rep_word_tx(ReplyWord, get_req_word_tx_channel(NextWord),
                            get_req_word_tx_data(NextWord)))
  /\ UNCHANGED <<regs, faults>>

\* The listener writes the writes of a request, as it parses them, to its log: the
\* last of a register is the one that counts.
LogOf(words, before) ==
  LET parsed == {<<i, parse_word(words[i])>> : i \in DOMAIN words}
      entries == {e \in parsed : e[2].type = WRITE}
      last(reg) == {e \in entries : /\ e[2].a = reg
                                    /\ \A f \in entries : f[2].a = reg => f[1] <= e[1]}
  IN  [reg \in Registers |->
         IF last(reg) = {} THEN before[reg] ELSE (CHOOSE e \in last(reg) : TRUE)[2].b]

ReplyEchoedTwice ==                         \* mutant: the copy is of the reply
  /\ pc = "words" /\ Len(rep) = Len(req.words)
  /\ pc' = "reply"
  /\ UNCHANGED <<req, rep, fill, regs, clientVars, logged, cut, crashed, historyVars, faults, lifeVars>>
EchoRequest ==
  /\ pc = "words" /\ Len(rep) = Len(req.words)
  /\ logged' = LogOf(req.words, logged)
  /\ pc' = "reply"
  /\ UNCHANGED <<req, rep, fill, regs, clientVars, cut, crashed, historyVars, faults, lifeVars>>

ReplyForgotten ==                           \* mutant: only the copies are sent
  /\ pc = "reply"
  /\ pc' = "recv" /\ req' = NoRequest /\ rep' = <<>> /\ fill' = 0
  /\ UNCHANGED <<regs, clientVars, logged, cut, crashed, historyVars, faults, lifeVars>>
\* The copy of the reply, for which the listener enters nothing, and the reply; one
\* for a connection that is closed goes nowhere.
Reply ==
  /\ pc = "reply"
  /\ outbox' = outbox \cup {[from |-> c, words |-> rep] : c \in Clients \cap {req.from}}
  /\ pc' = "recv" /\ req' = NoRequest /\ rep' = <<>> /\ fill' = 0
  /\ UNCHANGED <<regs, client, inbox, lost, logged, cut, crashed, historyVars, faults, lifeVars>>

-----------------------------------------------------------------------------
(* The end of a process.  With it go its loop, the requests that had        *)
(* reached its port (any of those sent), and replies not yet on their way.  *)

LosesMessages(p) ==
  /\ inbox' \in IF bound[p] > 0 THEN SUBSET inbox ELSE {inbox}
  /\ outbox' \in IF stage[p] = "serve" THEN SUBSET outbox ELSE {outbox}
  /\ LET gone == (inbox \ inbox') \cup (outbox \ outbox')
                 \cup (IF stage[p] = "serve" THEN {req} ELSE {})
     IN  lost' = lost \cup {c \in Clients : \E m \in gone : m.from = c}
  /\ IF stage[p] = "serve"
     THEN /\ pc' = "recv" /\ req' = NoRequest /\ rep' = <<>> /\ fill' = 0
          /\ cut' = (cut \/ pc = "words")
     ELSE UNCHANGED <<serverVars, cut>>
  /\ UNCHANGED <<regs, client, logged, historyVars, faults>>

\* set_rep_word_err copies from the null pointers it is given.
UnknownWord ==
  /\ pc = "words" /\ Len(rep) < Len(req.words)
  /\ get_word_type(NextWord) \notin {PING, WRITE, READ, DATA}
  /\ \E p \in Procs :
       /\ stage[p] = "serve"
       /\ Ends(p) /\ LosesMessages(p)
  /\ crashed' = TRUE
  /\ UNCHANGED <<script, wanted, raced, ops>>

Process(p) ==
  /\ UNCHANGED crashed
  /\ \/ /\ Bind(p) \/ InitHardware(p)
        /\ UNCHANGED <<serverVars, regs, clientVars, logged, cut, historyVars, faults>>
     \/ BindFails(p) /\ LosesMessages(p)

Killed(p) == Exit(p) /\ LosesMessages(p) /\ UNCHANGED crashed

Script ==
  /\ ScriptStep
  /\ UNCHANGED <<serverVars, regs, clientVars, logged, cut, crashed, historyVars, faults>>

HandleWord == PingWord \/ WriteWord \/ ReadWord \/ TxWord \/ UnknownWord
Loop == Receive \/ HandleWord \/ EchoRequest \/ Reply

Next ==
  \/ Script
  \/ \E p \in Procs : Process(p) \/ Killed(p)
  \/ Loop
  \/ \E c \in Clients : GetReply(c) \/ Timeout(c) \/ \E job \in Jobs : Run(c, job)

\* Processes are scheduled: as long as the script has a server to launch, a server
\* to start up, to end when it is signalled or to go on with its loop, or a client a
\* reply to read, one of them does.  This asks less than fairness to each of them, and
\* is enough where the bounds end every behaviour.  Nothing obliges anyone to run
\* anything or to time out.
Scheduled ==
  \/ Script /\ script = "launch"
  \/ \E p \in Procs : Process(p) \/ Killed(p)
  \/ Loop
  \/ \E c \in Clients : GetReply(c)

Spec == Init /\ [][Next]_vars /\ WF_vars(Scheduled)

-----------------------------------------------------------------------------
(* A tile never has its power on without its voltages: its enable bit is    *)
(* set only while the power is enabled and its two DACs have been written   *)
(* (unless the I2C bus failed).  It holds through two scripts at a time,    *)
(* requests handled after their clients gave up, and servers killed between *)
(* two words of a request (power_up_tile.sh:29-33, power_down.sh:10-12,     *)
(* pacman_cmdserver.cc:101-152).                                            *)
PowerOrder ==
  \A t \in EnabledTiles(regs[TILE_EN]) :
    /\ regs[PWR_EN] = 1
    /\ faults = 0 => regs[VDDA(t)] = DAC_VALUE /\ regs[VDDD(t)] = DAC_VALUE

(* Scripts that end well have done their work, whatever the other clients   *)
(* do and the restarts of the server do in between: when none of them is    *)
(* running, the tiles enabled are exactly those powered up since the last   *)
(* power_down.sh, if no two ran at the same time and none timed out         *)
(* (power_up_tile.sh:23-33).  The two conditions are needed: the enables    *)
(* are read in one request and written in another, and the write of a       *)
(* script that timed out may be handled later.                              *)
TilesOn ==
  ~ overlap /\ timeouts = 0 /\ Powering = {}
    => /\ EnabledTiles(regs[TILE_EN]) = on
       /\ regs[PWR_EN] = IF on = {} THEN 0 ELSE 1

(* Whoever listens can tell the registers from the log: its writes, in      *)
(* their order, lead to the values the registers have, also when the client *)
(* of a request gave up, unless a server ended within a request or a write  *)
(* to the I2C bus failed (pacman_cmdserver.cc:16-19, pacman_util.py:113).   *)
LogReplays == pc # "words" /\ ~ cut /\ faults = 0 => logged = regs

(* What a client parses is the answer to what it asked: as many words, of   *)
(* the same types in the same order, each with the register or the channel  *)
(* and packet it named, whatever was in the memory of the reply before (the *)
(* time stamp of a DATA word, which no server sets, aside)                  *)
(* (message_format.cc:105-168, pacman_util.py:47-54).                       *)
AnswersMatch ==
  \A m \in outbox :
    LET sent == client[m.from].sent IN
    /\ Len(m.words) = Len(sent)
    /\ \A i \in DOMAIN sent :
         LET got == parse_word(m.words[i]) IN
         /\ got.type = sent[i].type /\ got.a = sent[i].a
         /\ got.type \in {WRITE, DATA} => got.b = sent[i].b

(* Every request is answered, across start, stop and restart too, unless a  *)
(* server took it along when it ended, the server is stopped, one ended of  *)
(* itself, or the new one found the port of the one being stopped still     *)
(* taken: so a server that is started comes to serve                        *)
(* (pacman_cmdserver.cc:45-53 and 75-161, pacman_server.sh:33-36).          *)
Answered ==
  \A c \in Clients : []<>(c \notin Busy \/ c \in lost \/ ~ wanted \/ raced \/ crashed)

(* A word of an unknown type is answered like any other, with an error word *)
(* (pacman_cmdserver.cc:147-150, message_format.cc:170-179).                *)
UnknownAnswered ==
  \A c \in Clients :
    (c \in Busy /\ \E i \in DOMAIN client[c].sent : client[c].sent[i].type = TRIG)
      ~> (\E m \in outbox : m.from = c)
=============================================================================
