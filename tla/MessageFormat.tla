---------------------------- MODULE MessageFormat ----------------------------
(***************************************************************************)
(* The words of the messages between the servers and their clients, byte   *)
(* by byte.  The servers know each field by its offset (message_format.cc) *)
(* and the clients know each word as a format string of Python's struct    *)
(* (pacman_util.py): nothing but this agreement makes a client and a       *)
(* server of different releases understand each other.                     *)
(*                                                                         *)
(* A word is a record [type, a, b]: for READ and WRITE the register and    *)
(* its value, for DATA (a word to transmit) the channel and the packet.    *)
(* Bound: values are below 2^24, as the registers and values of the        *)
(* scripts are; the bytes of a field above its third are zero, and are not *)
(* read back.                                                              *)
(***************************************************************************)
EXTENDS Integers, Sequences

WORD_LEN == 16

\* The types of words, as the characters they are.
PING == 80
WRITE == 87
READ == 82
DATA == 68
ERROR == 69
TRIG == 84

Values == 0 .. 2^24 - 1
Word(type, a, b) == [type |-> type, a |-> a, b |-> b]

WholeOf(v, k) == IF k > 2 THEN 0 ELSE v \div 256^k     \* mutant: not masked
ByteOf(v, k) == IF k > 2 THEN 0 ELSE (v \div 256^k) % 256

\* memcpy of a little-endian value of width bytes, and what a cast there reads.
Put(bytes, at, width, v) ==
  [i \in 0 .. WORD_LEN - 1 |->
     IF i \in at .. at + width - 1 THEN ByteOf(v, i - at) ELSE bytes[i]]
Get(bytes, at, width) ==
  LET byte(k) == IF k < width THEN bytes[at + k] ELSE 0
  IN  byte(0) + 256 * byte(1) + 65536 * byte(2)

-----------------------------------------------------------------------------
(* The server: fields by offset.                                            *)

get_word_type(bytes) == Get(bytes, 0, 1)

get_req_word_reg(bytes) == Get(bytes, 4, 4)
get_req_word_write_val(bytes) == Get(bytes, 12, 4)
get_req_word_tx_channel(bytes) == Get(bytes, 1, 1)
get_req_word_tx_data(bytes) == Get(bytes, 8, 8)

SetType(bytes, type) == Put(bytes, 0, 1, type)

set_rep_word_pong(bytes) == SetType(bytes, PING)

\* set_rep_word_write and set_rep_word_read differ in the type only.
RegAtEight(bytes, type, reg, val) ==         \* mutant: the register two fields on
  Put(Put(SetType(bytes, type), 8, 4, reg), 12, 4, val)
set_rep_word_reg(bytes, type, reg, val) ==
  Put(Put(SetType(bytes, type), 4, 4, reg), 12, 4, val)

set_rep_word_tx(bytes, channel, data) ==
  Put(Put(SetType(bytes, DATA), 1, 1, channel), 8, 8, data)

-----------------------------------------------------------------------------
(* The client: fields by format.                                            *)

\* The widths of the fields, those of padding (x) included, of which the first is
\* the type.
WordFormat(type) ==
  CASE type = DATA -> <<1, 1, 4, 2, 8>>                  \* <cBLxxQ
    [] type \in {WRITE, READ} -> <<1, 3, 4, 4, 4>>       \* <c3xL4xL
    [] type = TRIG -> <<1, 1, 2, 4, 8>>                  \* <cBxxL8x
    [] type = ERROR -> <<1, 1, 14>>                      \* <cB14s
    [] type = PING -> <<1, 15>>                          \* <c15x

\* Where field n of a format begins; none has more than five.
Offset(fmt, n) ==
  LET before(f) == IF f < n THEN fmt[f] ELSE 0
  IN  before(1) + before(2) + before(3) + before(4) + before(5)

WordTypes == {PING, WRITE, READ, DATA, TRIG, ERROR}
Layout ==
  [type \in WordTypes |->
     LET fmt == WordFormat(type)
     IN  [f \in DOMAIN fmt |-> [at |-> Offset(fmt, f), width |-> fmt[f]]]]

\* What a client sends in the fields of a request word: 0 for the time stamp of DATA
\* and TRIG, and in padding.
FieldValues(w) ==
  CASE w.type = DATA -> <<w.type, w.a, 0, 0, w.b>>
    [] w.type \in {WRITE, READ} -> <<w.type, 0, w.a, 0, w.b>>
    [] w.type = TRIG -> <<w.type, w.a, 0, 0, 0>>
    [] OTHER -> <<w.type, 0, 0>>

\* The field that byte i of a word lies in.
FieldAt(type, i) ==
  LET fields == Layout[type]
  IN  CHOOSE f \in DOMAIN fields : i \in fields[f].at .. fields[f].at + fields[f].width - 1
FieldByte(w, i, f) == ByteOf(FieldValues(w)[f], i - Layout[w.type][f].at)
format_word(w) == [i \in 0 .. WORD_LEN - 1 |-> FieldByte(w, i, FieldAt(w.type, i))]

parse_word(bytes) ==
  LET type == get_word_type(bytes)
      value(f) == Get(bytes, Layout[type][f].at, Layout[type][f].width)
  IN  CASE type = DATA -> Word(type, value(2), value(5))
        [] type \in {WRITE, READ} -> Word(type, value(3), value(5))
        [] OTHER -> Word(type, 0, 0)

\* Every word a client can send has the length of a word.
ASSUME FormatsFillWords ==
  \A type \in WordTypes :
    Offset(WordFormat(type), Len(WordFormat(type)) + 1) = WORD_LEN
=============================================================================
