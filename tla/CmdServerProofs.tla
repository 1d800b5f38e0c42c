--------------------------- MODULE CmdServerProofs ---------------------------
(***************************************************************************)
(* Proofs about the command server and those who use it, for any clients,  *)
(* tiles and jobs, and any number of timeouts, faults and kills.           *)
(***************************************************************************)
EXTENDS CmdServer, ServerLifecycleProofs, SequenceTheorems

-----------------------------------------------------------------------------
(* The bytes of a word: what one side puts, the other side gets.            *)

LEMMA Powers256 == 256 ^ 0 = 1 /\ 256 ^ 1 = 256 /\ 256 ^ 2 = 65536
BY SMT

LEMMA ValueBounds ==
  /\ \A v \in Values : v \in Nat /\ v < 16777216
  /\ \A v \in Nat : v < 16777216 => v \in Values
<1>1. 2 ^ 24 = 16777216
  BY SMT
<1>2. \A v \in Values : v \in Nat /\ v < 16777216
  BY <1>1, SMT DEF Values
<1>3. \A v \in Nat : v < 16777216 => v \in Values
  BY <1>1, SMT DEF Values
<1> QED
  BY <1>2, <1>3

LEMMA Recomposed ==
  ASSUME NEW v \in Nat, v < 16777216
  PROVE  (v % 256) + 256 * ((v \div 256) % 256) + 65536 * ((v \div 65536) % 256) = v
BY SMT

LEMMA ByteValues ==
  ASSUME NEW v \in Values
  PROVE  /\ \A k \in Nat : ByteOf(v, k) \in 0 .. 255
         /\ ByteOf(v, 0) + 256 * ByteOf(v, 1) + 65536 * ByteOf(v, 2) = v
         /\ v \in 0 .. 255 => ByteOf(v, 0) = v
<1>0. v \in Nat /\ v < 16777216
  BY ValueBounds
<1>1. /\ ByteOf(v, 0) = v % 256
      /\ ByteOf(v, 1) = (v \div 256) % 256
      /\ ByteOf(v, 2) = (v \div 65536) % 256
  BY <1>0, Powers256, SMT DEF ByteOf
<1>2. \A k \in Nat : k = 0 \/ k = 1 \/ k = 2 \/ ByteOf(v, k) = 0
  BY SMT DEF ByteOf
<1>3. /\ v % 256 \in 0 .. 255 /\ (v \div 256) % 256 \in 0 .. 255
      /\ (v \div 65536) % 256 \in 0 .. 255
  BY <1>0, SMT
<1>4. \A k \in Nat : ByteOf(v, k) \in 0 .. 255
  BY <1>1, <1>2, <1>3, SMT
<1>5. v \in 0 .. 255 => v % 256 = v
  BY SMT
<1> QED
  BY <1>0, <1>1, <1>4, <1>5, Recomposed, SMT

LEMMA BytesOfWord == Bytes = [0 .. 15 -> 0 .. 255] /\ WORD_LEN - 1 = 15
<1>1. WORD_LEN - 1 = 15
  BY DEF WORD_LEN
<1> QED
  BY <1>1 DEF Bytes

LEMMA PutBytes ==
  ASSUME NEW b \in Bytes, NEW at \in 0 .. 15, NEW width \in 0 .. 16, NEW v \in Values
  PROVE  /\ Put(b, at, width, v) \in Bytes
         /\ \A i \in 0 .. 15 : i < at \/ i >= at + width => Put(b, at, width, v)[i] = b[i]
         /\ \A k \in 0 .. 15 : k < width /\ at + k <= 15 => Put(b, at, width, v)[at + k] = ByteOf(v, k)
<1>1. \A i \in 0 .. 15 : i >= at => ByteOf(v, i - at) \in 0 .. 255
  BY ByteValues, SMT
<1>2. /\ WORD_LEN - 1 = 15
      /\ Put(b, at, width, v) =
           [i \in 0 .. 15 |-> IF i \in at .. at + width - 1 THEN ByteOf(v, i - at) ELSE b[i]]
  BY DEF Put, WORD_LEN
<1> DEFINE p == Put(b, at, width, v)
<1>3. \A i \in 0 .. 15 : p[i] = IF i \in at .. at + width - 1 THEN ByteOf(v, i - at) ELSE b[i]
  BY <1>2
<1>4. DOMAIN p = 0 .. 15 /\ p \in [0 .. 15 -> 0 .. 255]
  <2>1. \A i \in 0 .. 15 : b[i] \in 0 .. 255
    BY <1>2 DEF Bytes
  <2>2. \A i \in 0 .. 15 : (IF i \in at .. at + width - 1 THEN ByteOf(v, i - at) ELSE b[i]) \in 0 .. 255
    BY <1>1, <2>1, SMT
  <2> QED
    BY <1>2, <2>2
<1>5. \A k \in 0 .. 15 : k < width /\ at + k <= 15 => p[at + k] = ByteOf(v, k)
  <2> SUFFICES ASSUME NEW k \in 0 .. 15, k < width, at + k <= 15
               PROVE  p[at + k] = ByteOf(v, k)
    OBVIOUS
  <2>1. at + k \in 0 .. 15 /\ at + k \in at .. at + width - 1 /\ (at + k) - at = k
    BY SMT
  <2> HIDE DEF p
  <2> QED
    BY <1>3, <2>1
<1>6. \A i \in 0 .. 15 : i < at \/ i >= at + width => p[i] = b[i]
  <2> HIDE DEF p
  <2> QED
    BY <1>3, SMT
<1> QED
  BY <1>2, <1>4, <1>5, <1>6 DEF Bytes

\* A field of one byte, and one of at least three.
LEMMA GetBytes ==
  ASSUME NEW b \in Bytes, NEW at \in 0 .. 15
  PROVE  /\ Get(b, at, 1) = b[at]
         /\ \A width \in {4, 8} : at + 2 <= 15 =>
              Get(b, at, width) = b[at] + 256 * b[at + 1] + 65536 * b[at + 2]
<1>1. \A i \in 0 .. 15 : b[i] \in Nat
  BY BytesOfWord
<1>2. Get(b, at, 1) = b[at + 0] + 256 * 0 + 65536 * 0
  BY SMT DEF Get
<1>3. \A width \in {4, 8} : Get(b, at, width) = b[at + 0] + 256 * b[at + 1] + 65536 * b[at + 2]
  BY SMT DEF Get
<1>4. at + 0 = at
  OBVIOUS
<1> QED
  BY <1>1, <1>2, <1>3, <1>4, SMT

LEMMA Layouts ==
  /\ \A type \in {WRITE, READ} :
       Layout[type] = << [at |-> 0, width |-> 1], [at |-> 1, width |-> 3], [at |-> 4, width |-> 4],
                         [at |-> 8, width |-> 4], [at |-> 12, width |-> 4] >>
  /\ Layout[DATA] = << [at |-> 0, width |-> 1], [at |-> 1, width |-> 1], [at |-> 2, width |-> 4],
                       [at |-> 6, width |-> 2], [at |-> 8, width |-> 8] >>
  /\ Layout[TRIG] = << [at |-> 0, width |-> 1], [at |-> 1, width |-> 1], [at |-> 2, width |-> 2],
                       [at |-> 4, width |-> 4], [at |-> 8, width |-> 8] >>
  /\ Layout[PING] = << [at |-> 0, width |-> 1], [at |-> 1, width |-> 15] >>
<1> DEFINE Placed(fmt) == [f \in DOMAIN fmt |-> [at |-> Offset(fmt, f), width |-> fmt[f]]]
<1>1. \A type \in WordTypes : Layout[type] = Placed(WordFormat(type))
  BY DEF Layout
<1>2. \A type \in {WRITE, READ} : WordFormat(type) = <<1, 3, 4, 4, 4>>
  BY DEF WordFormat, DATA, WRITE, READ, TRIG, ERROR, PING
<1>3. /\ WordFormat(DATA) = <<1, 1, 4, 2, 8>> /\ WordFormat(TRIG) = <<1, 1, 2, 4, 8>>
      /\ WordFormat(PING) = <<1, 15>>
  BY DEF WordFormat, DATA, WRITE, READ, TRIG, ERROR, PING
<1>4. Placed(<<1, 3, 4, 4, 4>>) =
        << [at |-> 0, width |-> 1], [at |-> 1, width |-> 3], [at |-> 4, width |-> 4],
           [at |-> 8, width |-> 4], [at |-> 12, width |-> 4] >>
  BY DEF Offset
<1>5. Placed(<<1, 1, 4, 2, 8>>) =
        << [at |-> 0, width |-> 1], [at |-> 1, width |-> 1], [at |-> 2, width |-> 4],
           [at |-> 6, width |-> 2], [at |-> 8, width |-> 8] >>
  BY DEF Offset
<1>6. Placed(<<1, 1, 2, 4, 8>>) =
        << [at |-> 0, width |-> 1], [at |-> 1, width |-> 1], [at |-> 2, width |-> 2],
           [at |-> 4, width |-> 4], [at |-> 8, width |-> 8] >>
  BY DEF Offset
<1>7. Placed(<<1, 15>>) = << [at |-> 0, width |-> 1], [at |-> 1, width |-> 15] >>
  BY DEF Offset
<1> HIDE DEF Placed
<1>8. {WRITE, READ, DATA, TRIG, PING} \subseteq WordTypes
  BY DEF WordTypes
<1> QED
  BY <1>1, <1>2, <1>3, <1>4, <1>5, <1>6, <1>7, <1>8

\* The types a client sends.
SentTypes == {PING, WRITE, READ, DATA, TRIG}
Lies(type, i, f) == i \in Layout[type][f].at .. Layout[type][f].at + Layout[type][f].width - 1

(* The fields of a format fill a word and do not overlap                    *)
(* (pacman_util.py:47-54).                                                  *)
LEMMA OneField ==
  ASSUME NEW type \in SentTypes, NEW i \in 0 .. 15
  PROVE  \E f \in DOMAIN Layout[type] :
           Lies(type, i, f) /\ \A g \in DOMAIN Layout[type] : Lies(type, i, g) => g = f
<1>1. CASE type \in {WRITE, READ}
  <2> DEFINE fields == << [at |-> 0, width |-> 1], [at |-> 1, width |-> 3], [at |-> 4, width |-> 4],
                          [at |-> 8, width |-> 4], [at |-> 12, width |-> 4] >>
  <2>1. Layout[type] = fields
    BY <1>1, Layouts
  <2>2. \E f \in DOMAIN fields : \A g \in DOMAIN fields :
          i \in fields[g].at .. fields[g].at + fields[g].width - 1 <=> g = f
    BY SMTT(30)
  <2> HIDE DEF fields
  <2> QED
    BY <2>1, <2>2 DEF Lies
<1>2. CASE type = DATA
  <2> DEFINE fields == << [at |-> 0, width |-> 1], [at |-> 1, width |-> 1], [at |-> 2, width |-> 4],
                          [at |-> 6, width |-> 2], [at |-> 8, width |-> 8] >>
  <2>1. Layout[type] = fields
    BY <1>2, Layouts
  <2>2. \E f \in DOMAIN fields : \A g \in DOMAIN fields :
          i \in fields[g].at .. fields[g].at + fields[g].width - 1 <=> g = f
    BY SMTT(30)
  <2> HIDE DEF fields
  <2> QED
    BY <2>1, <2>2 DEF Lies
<1>3. CASE type = TRIG
  <2> DEFINE fields == << [at |-> 0, width |-> 1], [at |-> 1, width |-> 1], [at |-> 2, width |-> 2],
                          [at |-> 4, width |-> 4], [at |-> 8, width |-> 8] >>
  <2>1. Layout[type] = fields
    BY <1>3, Layouts
  <2>2. \E f \in DOMAIN fields : \A g \in DOMAIN fields :
          i \in fields[g].at .. fields[g].at + fields[g].width - 1 <=> g = f
    BY SMTT(30)
  <2> HIDE DEF fields
  <2> QED
    BY <2>1, <2>2 DEF Lies
<1>4. CASE type = PING
  <2> DEFINE fields == << [at |-> 0, width |-> 1], [at |-> 1, width |-> 15] >>
  <2>1. Layout[type] = fields
    BY <1>4, Layouts
  <2>2. \E f \in DOMAIN fields : \A g \in DOMAIN fields :
          i \in fields[g].at .. fields[g].at + fields[g].width - 1 <=> g = f
    BY SMTT(30)
  <2> HIDE DEF fields
  <2> QED
    BY <2>1, <2>2 DEF Lies
<1> QED
  BY <1>1, <1>2, <1>3, <1>4 DEF SentTypes

LEMMA FormatField ==
  ASSUME NEW w, w.type \in SentTypes, NEW i \in 0 .. 15, NEW f \in DOMAIN Layout[w.type],
         Lies(w.type, i, f)
  PROVE  format_word(w)[i] = ByteOf(FieldValues(w)[f], i - Layout[w.type][f].at)
<1>1. format_word(w)[i] = FieldByte(w, i, FieldAt(w.type, i))
  BY BytesOfWord DEF format_word
<1>2. \A g \in DOMAIN Layout[w.type] : Lies(w.type, i, g) => g = f
  BY OneField
<1>3. FieldAt(w.type, i) = f
  BY <1>2, Zenon DEF FieldAt, Lies
<1> QED
  BY <1>1, <1>3 DEF FieldByte

(* The bytes of a word that is sent, those that anyone looks at one by one  *)
(* (pacman_util.py:65-97).                                                  *)
LEMMA WordBytes ==
  ASSUME NEW w \in ByHand
  PROVE  LET b == format_word(w) IN
         /\ b \in Bytes
         /\ b[0] = w.type
         /\ w.type \in {WRITE, READ} =>
              /\ b[4] = ByteOf(w.a, 0) /\ b[5] = ByteOf(w.a, 1) /\ b[6] = ByteOf(w.a, 2)
              /\ b[12] = ByteOf(w.b, 0) /\ b[13] = ByteOf(w.b, 1) /\ b[14] = ByteOf(w.b, 2)
         /\ w.type = DATA =>
              /\ b[1] = ByteOf(w.a, 0)
              /\ b[8] = ByteOf(w.b, 0) /\ b[9] = ByteOf(w.b, 1) /\ b[10] = ByteOf(w.b, 2)
<1> DEFINE b == format_word(w)
           fields == Layout[w.type]
           values == FieldValues(w)
<1>1. w.type \in SentTypes /\ w.a \in Values /\ w.b \in Values /\ w.type \in Nat /\ w.type < 256
  BY DEF ByHand, SentTypes, PING, WRITE, READ, DATA, TRIG
<1>2. w.type \in Values /\ 0 \in Values
  BY <1>1, ValueBounds, SMT
<1>3. ASSUME NEW i \in 0 .. 15, NEW f \in DOMAIN fields, Lies(w.type, i, f)
      PROVE  b[i] = ByteOf(values[f], i - fields[f].at)
  BY <1>1, <1>3, FormatField
<1>4. \A f \in DOMAIN fields : fields[f].at \in Nat /\ values[f] \in Values
  <2>1. CASE w.type \in {WRITE, READ}
    <3>1. values = <<w.type, 0, w.a, 0, w.b>>
      BY <2>1 DEF FieldValues, WRITE, READ, DATA, TRIG
    <3>2. DOMAIN fields = 1 .. 5 /\ \A f \in DOMAIN fields : fields[f].at \in Nat
      BY <2>1, Layouts
    <3> HIDE DEF values, fields
    <3> QED
      BY <3>1, <3>2, <1>1, <1>2
  <2>2. CASE w.type = DATA
    <3>1. values = <<w.type, w.a, 0, 0, w.b>>
      BY <2>2 DEF FieldValues, WRITE, READ, DATA, TRIG
    <3>2. DOMAIN fields = 1 .. 5 /\ \A f \in DOMAIN fields : fields[f].at \in Nat
      BY <2>2, Layouts
    <3> HIDE DEF values, fields
    <3> QED
      BY <3>1, <3>2, <1>1, <1>2
  <2>3. CASE w.type = TRIG
    <3>1. values = <<w.type, w.a, 0, 0, 0>>
      BY <2>3 DEF FieldValues, WRITE, READ, DATA, TRIG
    <3>2. DOMAIN fields = 1 .. 5 /\ \A f \in DOMAIN fields : fields[f].at \in Nat
      BY <2>3, Layouts
    <3> HIDE DEF values, fields
    <3> QED
      BY <3>1, <3>2, <1>1, <1>2
  <2>4. CASE w.type = PING
    <3>1. values = <<w.type, 0, 0>>
      BY <2>4 DEF FieldValues, WRITE, READ, DATA, TRIG, PING
    <3>2. DOMAIN fields = 1 .. 2 /\ \A f \in DOMAIN fields : fields[f].at \in Nat
      BY <2>4, Layouts
    <3> HIDE DEF values, fields
    <3> QED
      BY <3>1, <3>2, <1>1, <1>2
  <2> QED
    BY <1>1, <2>1, <2>2, <2>3, <2>4 DEF SentTypes
<1>5. b \in Bytes
  <2>1. \A i \in 0 .. 15 : b[i] \in 0 .. 255
    <3> SUFFICES ASSUME NEW i \in 0 .. 15 PROVE b[i] \in 0 .. 255
      OBVIOUS
    <3>1. PICK f \in DOMAIN fields : Lies(w.type, i, f)
      BY <1>1, OneField
    <3>2. b[i] = ByteOf(values[f], i - fields[f].at)
      BY <1>3, <3>1
    <3>3. fields[f].at \in Nat /\ i >= fields[f].at
      <4>1. fields[f].at \in Nat
        BY <1>4
      <4>2. i \in fields[f].at .. (fields[f].at + fields[f].width - 1)
        BY <3>1 DEF Lies
      <4> QED
        BY <4>1, <4>2
    <3>4. i - fields[f].at \in Nat
      BY <3>3, SMT
    <3> QED
      BY <1>4, <3>2, <3>4, ByteValues
  <2>2. b = [i \in 0 .. 15 |-> b[i]]
    BY BytesOfWord DEF format_word
  <2> HIDE DEF b
  <2> QED
    BY <2>1, <2>2, BytesOfWord
<1>6. \A type \in SentTypes : 1 \in DOMAIN Layout[type] /\ Layout[type][1].at = 0 /\ Lies(type, 0, 1)
  BY Layouts DEF SentTypes, Lies
<1>7. b[0] = w.type
  <2>1. b[0] = ByteOf(values[1], 0 - 0)
    BY <1>1, <1>3, <1>6
  <2>2. values[1] = w.type
    BY <1>1 DEF FieldValues, SentTypes, PING, WRITE, READ, DATA, TRIG
  <2>3. w.type \in 0 .. 255
    BY <1>1, SMT
  <2>4. ByteOf(w.type, 0) = w.type
    BY <1>2, <2>3, ByteValues
  <2>5. 0 - 0 = 0
    OBVIOUS
  <2> HIDE DEF b, values
  <2> QED
    BY <2>1, <2>2, <2>4, <2>5
<1>8. ASSUME w.type \in {WRITE, READ}
      PROVE  /\ b[4] = ByteOf(w.a, 0) /\ b[5] = ByteOf(w.a, 1) /\ b[6] = ByteOf(w.a, 2)
             /\ b[12] = ByteOf(w.b, 0) /\ b[13] = ByteOf(w.b, 1) /\ b[14] = ByteOf(w.b, 2)
  <2>1. /\ 3 \in DOMAIN fields /\ fields[3].at = 4 /\ fields[3].width = 4
        /\ 5 \in DOMAIN fields /\ fields[5].at = 12 /\ fields[5].width = 4
    BY <1>8, Layouts
  <2>2. values[3] = w.a /\ values[5] = w.b
    <3>1. values = <<w.type, 0, w.a, 0, w.b>>
      BY <1>8 DEF FieldValues, WRITE, READ, DATA, TRIG
    <3> HIDE DEF values
    <3> QED
      BY <3>1
  <2>3. \A i \in 4 .. 6 : i \in 0 .. 15 /\ Lies(w.type, i, 3)
    BY <2>1, SMT DEF Lies
  <2>4. \A i \in 12 .. 14 : i \in 0 .. 15 /\ Lies(w.type, i, 5)
    BY <2>1, SMT DEF Lies
  <2> HIDE DEF b, fields, values
  <2>5. \A i \in 4 .. 6 : b[i] = ByteOf(w.a, i - 4)
    BY <1>3, <2>1, <2>2, <2>3
  <2>6. \A i \in 12 .. 14 : b[i] = ByteOf(w.b, i - 12)
    BY <1>3, <2>1, <2>2, <2>4
  <2>7. 4 - 4 = 0 /\ 5 - 4 = 1 /\ 6 - 4 = 2 /\ 12 - 12 = 0 /\ 13 - 12 = 1 /\ 14 - 12 = 2
    BY SMT
  <2>8. 4 \in 4 .. 6 /\ 5 \in 4 .. 6 /\ 6 \in 4 .. 6 /\ 12 \in 12 .. 14 /\ 13 \in 12 .. 14 /\ 14 \in 12 .. 14
    BY SMT
  <2> QED
    BY <2>5, <2>6, <2>7, <2>8
<1>9. ASSUME w.type = DATA
      PROVE  /\ b[1] = ByteOf(w.a, 0)
             /\ b[8] = ByteOf(w.b, 0) /\ b[9] = ByteOf(w.b, 1) /\ b[10] = ByteOf(w.b, 2)
  <2>1. /\ 2 \in DOMAIN fields /\ fields[2].at = 1 /\ fields[2].width = 1
        /\ 5 \in DOMAIN fields /\ fields[5].at = 8 /\ fields[5].width = 8
    BY <1>9, Layouts
  <2>2. values[2] = w.a /\ values[5] = w.b
    <3>1. values = <<w.type, w.a, 0, 0, w.b>>
      BY <1>9 DEF FieldValues, WRITE, READ, DATA, TRIG
    <3> HIDE DEF values
    <3> QED
      BY <3>1
  <2>3. 1 \in 0 .. 15 /\ Lies(w.type, 1, 2) /\ \A i \in 8 .. 10 : i \in 0 .. 15 /\ Lies(w.type, i, 5)
    BY <2>1, SMT DEF Lies
  <2> HIDE DEF b, fields, values
  <2>4. b[1] = ByteOf(w.a, 1 - 1)
    BY <1>3, <2>1, <2>2, <2>3
  <2>5. \A i \in 8 .. 10 : b[i] = ByteOf(w.b, i - 8)
    BY <1>3, <2>1, <2>2, <2>3
  <2>6. 1 - 1 = 0 /\ 8 - 8 = 0 /\ 9 - 8 = 1 /\ 10 - 8 = 2 /\ 8 \in 8 .. 10 /\ 9 \in 8 .. 10 /\ 10 \in 8 .. 10
    BY SMT
  <2> QED
    BY <2>4, <2>5, <2>6
<1> QED
  BY <1>5, <1>7, <1>8, <1>9

(* What a client, or the listener, makes of bytes (pacman_util.py:113-127). *)
LEMMA ParsedWord ==
  ASSUME NEW b \in Bytes
  PROVE  /\ get_word_type(b) = b[0] /\ parse_word(b).type = b[0]
         /\ b[0] \in {WRITE, READ} => parse_word(b) = Word(b[0], Get(b, 4, 4), Get(b, 12, 4))
         /\ b[0] = DATA => parse_word(b) = Word(b[0], Get(b, 1, 1), Get(b, 8, 8))
         /\ b[0] = PING => parse_word(b) = Word(b[0], 0, 0)
<1>1. get_word_type(b) = b[0]
  BY GetBytes DEF get_word_type
<1>2. CASE b[0] \in {WRITE, READ}
  <2>1. parse_word(b) = Word(b[0], Get(b, Layout[b[0]][3].at, Layout[b[0]][3].width),
                                   Get(b, Layout[b[0]][5].at, Layout[b[0]][5].width))
    BY <1>1, <1>2 DEF parse_word, WRITE, READ, DATA
  <2>2. /\ Layout[b[0]][3].at = 4 /\ Layout[b[0]][3].width = 4
        /\ Layout[b[0]][5].at = 12 /\ Layout[b[0]][5].width = 4
    BY <1>2, Layouts
  <2>3. parse_word(b) = Word(b[0], Get(b, 4, 4), Get(b, 12, 4))
    BY <2>1, <2>2
  <2> QED
    BY <1>1, <1>2, <2>3 DEF Word, WRITE, READ, DATA, PING
<1>3. CASE b[0] = DATA
  <2>1. parse_word(b) = Word(b[0], Get(b, Layout[b[0]][2].at, Layout[b[0]][2].width),
                                   Get(b, Layout[b[0]][5].at, Layout[b[0]][5].width))
    BY <1>1, <1>3 DEF parse_word, WRITE, READ, DATA
  <2>2. /\ Layout[b[0]][2].at = 1 /\ Layout[b[0]][2].width = 1
        /\ Layout[b[0]][5].at = 8 /\ Layout[b[0]][5].width = 8
    BY <1>3, Layouts
  <2>3. parse_word(b) = Word(b[0], Get(b, 1, 1), Get(b, 8, 8))
    BY <2>1, <2>2
  <2> QED
    BY <1>1, <1>3, <2>3 DEF Word, WRITE, READ, DATA, PING
<1>4. CASE b[0] \notin {WRITE, READ, DATA}
  <2>1. parse_word(b) = Word(b[0], 0, 0)
    BY <1>1, <1>4 DEF parse_word, WRITE, READ, DATA
  <2> QED
    BY <1>1, <1>4, <2>1 DEF Word
<1> QED
  BY <1>2, <1>3, <1>4

LEMMA GotValue ==
  ASSUME NEW b \in Bytes, NEW at \in 0 .. 13, NEW width \in {4, 8}, NEW v \in Values,
         b[at] = ByteOf(v, 0), b[at + 1] = ByteOf(v, 1), b[at + 2] = ByteOf(v, 2)
  PROVE  Get(b, at, width) = v
<1>1. at \in 0 .. 15 /\ at + 2 <= 15
  BY SMT
<1>2. Get(b, at, width) = b[at] + 256 * b[at + 1] + 65536 * b[at + 2]
  BY <1>1, GetBytes
<1>3. Get(b, at, width) = ByteOf(v, 0) + 256 * ByteOf(v, 1) + 65536 * ByteOf(v, 2)
  BY <1>2
<1> QED
  BY <1>3, ByteValues

(* What the server and the listener find in a request is what its client    *)
(* put in it (message_format.cc:81-103, pacman_util.py:65-97).              *)
LEMMA WordCarried ==
  ASSUME NEW w \in ByHand
  PROVE  LET b == format_word(w) IN
         /\ b \in Bytes /\ get_word_type(b) = w.type /\ parse_word(b).type = w.type
         /\ w.type \in {WRITE, READ} =>
              /\ get_req_word_reg(b) = w.a /\ get_req_word_write_val(b) = w.b
              /\ parse_word(b) = Word(w.type, w.a, w.b)
         /\ w.type = DATA /\ w.a \in 0 .. 255 =>
              get_req_word_tx_channel(b) = w.a /\ get_req_word_tx_data(b) = w.b
<1> DEFINE b == format_word(w)
<1>1. b \in Bytes /\ b[0] = w.type
  BY WordBytes
<1>2. w.a \in Values /\ w.b \in Values
  BY DEF ByHand
<1>3. ASSUME w.type \in {WRITE, READ}
      PROVE  Get(b, 4, 4) = w.a /\ Get(b, 12, 4) = w.b
  <2>1. /\ b[4] = ByteOf(w.a, 0) /\ b[4 + 1] = ByteOf(w.a, 1) /\ b[4 + 2] = ByteOf(w.a, 2)
        /\ b[12] = ByteOf(w.b, 0) /\ b[12 + 1] = ByteOf(w.b, 1) /\ b[12 + 2] = ByteOf(w.b, 2)
    <3>1. 4 + 1 = 5 /\ 4 + 2 = 6 /\ 12 + 1 = 13 /\ 12 + 2 = 14
      OBVIOUS
    <3> QED
      BY <1>3, <3>1, WordBytes, Zenon
  <2>2. 4 \in 0 .. 13 /\ 12 \in 0 .. 13
    BY SMT
  <2> HIDE DEF b
  <2> QED
    BY <1>1, <1>2, <2>1, <2>2, GotValue
<1>4. ASSUME w.type = DATA, w.a \in 0 .. 255
      PROVE  Get(b, 1, 1) = w.a /\ Get(b, 8, 8) = w.b
  <2>1. b[1] = ByteOf(w.a, 0)
    BY <1>4, WordBytes
  <2>2. b[8] = ByteOf(w.b, 0) /\ b[8 + 1] = ByteOf(w.b, 1) /\ b[8 + 2] = ByteOf(w.b, 2)
    <3>1. 8 + 1 = 9 /\ 8 + 2 = 10
      OBVIOUS
    <3> QED
      BY <1>4, <3>1, WordBytes, Zenon
  <2>3. 8 \in 0 .. 13 /\ 1 \in 0 .. 15
    BY SMT
  <2>4. Get(b, 1, 1) = b[1]
    BY <1>1, <2>3, GetBytes
  <2> HIDE DEF b
  <2> QED
    BY <1>1, <1>2, <1>4, <2>1, <2>2, <2>3, <2>4, GotValue, ByteValues
<1>5. w.type \in {WRITE, READ} => parse_word(b) = Word(w.type, w.a, w.b)
  BY <1>1, <1>3, ParsedWord
<1>6. get_word_type(b) = w.type /\ parse_word(b).type = w.type
  BY <1>1, ParsedWord
<1>7. /\ get_req_word_reg(b) = Get(b, 4, 4) /\ get_req_word_write_val(b) = Get(b, 12, 4)
      /\ get_req_word_tx_channel(b) = Get(b, 1, 1) /\ get_req_word_tx_data(b) = Get(b, 8, 8)
  BY DEF get_req_word_reg, get_req_word_write_val, get_req_word_tx_channel, get_req_word_tx_data
<1> HIDE DEF b
<1> QED
  BY <1>1, <1>3, <1>4, <1>5, <1>6, <1>7 DEF b

(* What a client parses of a reply is what the server put in it, whatever   *)
(* was in the memory before (message_format.cc:105-168).                    *)
LEMMA AnswerParsed ==
  ASSUME NEW b \in Bytes, NEW reg \in Values, NEW val \in Values, NEW channel \in 0 .. 255
  PROVE  /\ set_rep_word_pong(b) \in Bytes /\ parse_word(set_rep_word_pong(b)) = Word(PING, 0, 0)
         /\ \A type \in {WRITE, READ} :
              /\ set_rep_word_reg(b, type, reg, val) \in Bytes
              /\ parse_word(set_rep_word_reg(b, type, reg, val)) = Word(type, reg, val)
         /\ set_rep_word_tx(b, channel, val) \in Bytes
         /\ parse_word(set_rep_word_tx(b, channel, val)) = Word(DATA, channel, val)
<1>1. ASSUME NEW type \in SentTypes
      PROVE  SetType(b, type) \in Bytes /\ SetType(b, type)[0] = type
  <2>1. type \in Values /\ type \in 0 .. 255
    BY ValueBounds, SMT DEF SentTypes, PING, WRITE, READ, DATA, TRIG
  <2>2. 0 \in 0 .. 15 /\ 1 \in 0 .. 16 /\ 0 < 1 /\ 0 + 0 = 0 /\ 0 + 0 <= 15
    BY SMT
  <2>3. Put(b, 0, 1, type) \in Bytes
    BY <2>1, <2>2, PutBytes
  <2>4. Put(b, 0, 1, type)[0 + 0] = ByteOf(type, 0)
    BY <2>1, <2>2, PutBytes
  <2>5. ByteOf(type, 0) = type
    BY <2>1, ByteValues
  <2> QED
    BY <2>2, <2>3, <2>4, <2>5 DEF SetType
<1>2. {PING, WRITE, READ, DATA} \subseteq SentTypes
  BY DEF SentTypes
<1>3. set_rep_word_pong(b) \in Bytes /\ parse_word(set_rep_word_pong(b)) = Word(PING, 0, 0)
  BY <1>1, <1>2, ParsedWord DEF set_rep_word_pong
<1>4. ASSUME NEW p \in Bytes, NEW at \in {4, 8, 12}, NEW width \in {4, 8}, at + width <= 16, NEW v \in Values
      PROVE  /\ Put(p, at, width, v) \in Bytes
             /\ Get(Put(p, at, width, v), at, width) = v
             /\ \A i \in 0 .. 15 : i < at \/ i >= at + width => Put(p, at, width, v)[i] = p[i]
  <2>1. at \in 0 .. 15 /\ width \in 0 .. 16 /\ at \in 0 .. 13 /\ at + 0 = at
    BY SMT
  <2>2. \A k \in 0 .. 2 : k \in 0 .. 15 /\ k < width /\ at + k <= 15
    BY SMT
  <2>3. \A k \in 0 .. 2 : Put(p, at, width, v)[at + k] = ByteOf(v, k)
    BY <2>1, <2>2, PutBytes
  <2>4. 0 \in 0 .. 2 /\ 1 \in 0 .. 2 /\ 2 \in 0 .. 2
    BY SMT
  <2>5. /\ Put(p, at, width, v)[at] = ByteOf(v, 0) /\ Put(p, at, width, v)[at + 1] = ByteOf(v, 1)
        /\ Put(p, at, width, v)[at + 2] = ByteOf(v, 2)
    BY <2>1, <2>3, <2>4
  <2>6. Put(p, at, width, v) \in Bytes
    BY <2>1, PutBytes
  <2>7. Get(Put(p, at, width, v), at, width) = v
    BY <2>1, <2>5, <2>6, GotValue
  <2>8. \A i \in 0 .. 15 : i < at \/ i >= at + width => Put(p, at, width, v)[i] = p[i]
    BY <2>1, PutBytes
  <2> QED
    BY <2>6, <2>7, <2>8
<1>5. ASSUME NEW type \in {WRITE, READ}
      PROVE  /\ set_rep_word_reg(b, type, reg, val) \in Bytes
             /\ parse_word(set_rep_word_reg(b, type, reg, val)) = Word(type, reg, val)
  <2> DEFINE p == SetType(b, type)
             q == Put(p, 4, 4, reg)
             r == Put(q, 12, 4, val)
  <2>1. p \in Bytes /\ p[0] = type
    BY <1>1, <1>2
  <2> HIDE DEF p
  <2>2. 4 + 4 <= 16 /\ 12 + 4 <= 16
    BY SMT
  <2>3. q \in Bytes /\ Get(q, 4, 4) = reg /\ q[0] = p[0]
    <3>1. 0 \in 0 .. 15 /\ 0 < 4
      BY SMT
    <3>2. \A i \in 0 .. 15 : i < 4 \/ i >= 4 + 4 => Put(p, 4, 4, reg)[i] = p[i]
      BY <1>4, <2>1, <2>2
    <3>3. q \in Bytes /\ Get(q, 4, 4) = reg
      BY <1>4, <2>1, <2>2
    <3> QED
      BY <3>1, <3>2, <3>3
  <2> HIDE DEF q
  <2>4. r \in Bytes /\ Get(r, 12, 4) = val /\ \A i \in 0 .. 11 : r[i] = q[i]
    <3>1. \A i \in 0 .. 11 : i \in 0 .. 15 /\ i < 12
      BY SMT
    <3> QED
      BY <1>4, <2>2, <2>3, <3>1
  <2> HIDE DEF r
  <2>5. Get(r, 4, 4) = Get(q, 4, 4)
    <3>1. 4 \in 0 .. 15 /\ 4 + 2 <= 15 /\ 4 + 1 = 5 /\ 4 + 2 = 6 /\ 4 \in {4, 8}
      BY SMT
    <3>2. Get(r, 4, 4) = r[4] + 256 * r[4 + 1] + 65536 * r[4 + 2]
      BY <2>4, <3>1, GetBytes
    <3>3. Get(q, 4, 4) = q[4] + 256 * q[4 + 1] + 65536 * q[4 + 2]
      BY <2>3, <3>1, GetBytes
    <3>4. 4 \in 0 .. 11 /\ 5 \in 0 .. 11 /\ 6 \in 0 .. 11
      BY SMT
    <3> QED
      BY <2>4, <3>1, <3>2, <3>3, <3>4
  <2>6. r[0] = type
    <3>1. 0 \in 0 .. 11
      BY SMT
    <3> QED
      BY <2>1, <2>3, <2>4, <3>1
  <2>7. parse_word(r) = Word(type, reg, val)
    BY <2>3, <2>4, <2>5, <2>6, ParsedWord
  <2>8. set_rep_word_reg(b, type, reg, val) = r
    BY DEF set_rep_word_reg, p, q, r
  <2> QED
    BY <2>4, <2>7, <2>8
<1>6. /\ set_rep_word_tx(b, channel, val) \in Bytes
      /\ parse_word(set_rep_word_tx(b, channel, val)) = Word(DATA, channel, val)
  <2> DEFINE p == SetType(b, DATA)
             q == Put(p, 1, 1, channel)
             r == Put(q, 8, 8, val)
  <2>1. p \in Bytes /\ p[0] = DATA
    BY <1>1, <1>2
  <2> HIDE DEF p
  <2>2. channel \in Values
    BY ValueBounds, SMT
  <2>3. q \in Bytes /\ q[1] = channel /\ q[0] = p[0]
    <3>1. 0 \in 0 .. 15 /\ 0 < 1 /\ 1 + 0 = 1 /\ 1 + 0 <= 15
      BY SMT
    <3>one. 1 \in 0 .. 15 /\ 1 \in 0 .. 16
      BY SMT
    <3>2. Put(p, 1, 1, channel)[1 + 0] = ByteOf(channel, 0)
      <4>1. \A k \in 0 .. 15 : k < 1 /\ 1 + k <= 15 => Put(p, 1, 1, channel)[1 + k] = ByteOf(channel, k)
        BY <2>1, <2>2, <3>one, PutBytes, Zenon
      <4> QED
        BY <3>1, <4>1
    <3>3. ByteOf(channel, 0) = channel
      BY <2>2, ByteValues
    <3>4. q \in Bytes /\ q[0] = p[0]
      <4>1. /\ q \in Bytes
            /\ \A i \in 0 .. 15 : i < 1 \/ i >= 1 + 1 => Put(p, 1, 1, channel)[i] = p[i]
        BY <2>1, <2>2, <3>one, PutBytes, Zenon
      <4> QED
        BY <3>1, <4>1
    <3> QED
      BY <3>1, <3>2, <3>3, <3>4
  <2> HIDE DEF q
  <2>4. r \in Bytes /\ Get(r, 8, 8) = val /\ r[0] = q[0] /\ r[1] = q[1]
    <3>1. 0 \in 0 .. 15 /\ 1 \in 0 .. 15 /\ 0 < 8 /\ 1 < 8 /\ 8 + 8 <= 16
      BY SMT
    <3> QED
      BY <1>4, <2>3, <3>1
  <2> HIDE DEF r
  <2>5. Get(r, 1, 1) = channel
    <3>1. 1 \in 0 .. 15
      BY SMT
    <3> QED
      BY <2>3, <2>4, <3>1, GetBytes
  <2>6. parse_word(r) = Word(DATA, channel, val)
    BY <2>1, <2>3, <2>4, <2>5, ParsedWord
  <2>7. set_rep_word_tx(b, channel, val) = r
    BY DEF set_rep_word_tx, p, q, r
  <2> QED
    BY <2>4, <2>6, <2>7
<1> QED
  BY <1>3, <1>5, <1>6

-----------------------------------------------------------------------------
(* The tile enables, a bit for each tile.                                   *)

\* What the register of the tile enables can hold.
Enables == 0 .. 1023
TilePowers == {1, 2, 4, 8, 16, 32, 64, 128, 256, 512}
Bit(v, p) == (v \div p) % 2
Sets(v, p) ==
  v + p \in Enables /\ \A q \in TilePowers : Bit(v + p, q) = IF q = p THEN 1 ELSE Bit(v, q)

LEMMA SetBit == \A p \in TilePowers : \A v \in Enables : Bit(v, p) = 0 => Sets(v, p)
<1>1. \A v \in Enables : Bit(v, 1) = 0 => Sets(v, 1)
  BY SMTT(120) DEF Enables, Bit, Sets, TilePowers
<1>2. \A v \in Enables : Bit(v, 2) = 0 => Sets(v, 2)
  BY SMTT(120) DEF Enables, Bit, Sets, TilePowers
<1>3. \A v \in Enables : Bit(v, 4) = 0 => Sets(v, 4)
  BY SMTT(120) DEF Enables, Bit, Sets, TilePowers
<1>4. \A v \in Enables : Bit(v, 8) = 0 => Sets(v, 8)
  BY SMTT(120) DEF Enables, Bit, Sets, TilePowers
<1>5. \A v \in Enables : Bit(v, 16) = 0 => Sets(v, 16)
  BY SMTT(120) DEF Enables, Bit, Sets, TilePowers
<1>6. \A v \in Enables : Bit(v, 32) = 0 => Sets(v, 32)
  BY SMTT(120) DEF Enables, Bit, Sets, TilePowers
<1>7. \A v \in Enables : Bit(v, 64) = 0 => Sets(v, 64)
  BY SMTT(120) DEF Enables, Bit, Sets, TilePowers
<1>8. \A v \in Enables : Bit(v, 128) = 0 => Sets(v, 128)
  BY SMTT(120) DEF Enables, Bit, Sets, TilePowers
<1>9. \A v \in Enables : Bit(v, 256) = 0 => Sets(v, 256)
  BY SMTT(120) DEF Enables, Bit, Sets, TilePowers
<1>10. \A v \in Enables : Bit(v, 512) = 0 => Sets(v, 512)
  BY SMTT(120) DEF Enables, Bit, Sets, TilePowers
<1> QED
  BY <1>1, <1>2, <1>3, <1>4, <1>5, <1>6, <1>7, <1>8, <1>9, <1>10 DEF TilePowers

LEMMA TilePower ==
  /\ \A t \in 1 .. 10 : 2 ^ (t - 1) \in TilePowers
  /\ \A s, t \in 1 .. 10 : 2 ^ (s - 1) = 2 ^ (t - 1) => s = t
<1> DEFINE f(t) == 2 ^ (t - 1)
<1>1. f(1) = 1
  BY SMT
<1>2. f(2) = 2
  BY SMT
<1>3. f(3) = 4
  BY SMT
<1>4. f(4) = 8
  BY SMT
<1>5. f(5) = 16
  BY SMT
<1>6. f(6) = 32
  BY SMT
<1>7. f(7) = 64
  BY SMT
<1>8. f(8) = 128
  BY SMT
<1>9. f(9) = 256
  BY SMT
<1>10. f(10) = 512
  BY SMT
<1> HIDE DEF f
<1>11. \A t \in 1 .. 10 : \/ t = 1 \/ t = 2 \/ t = 3 \/ t = 4 \/ t = 5
                         \/ t = 6 \/ t = 7 \/ t = 8 \/ t = 9 \/ t = 10
  BY SMT
<1>12. \A t \in 1 .. 10 : f(t) \in TilePowers
  BY <1>1, <1>2, <1>3, <1>4, <1>5, <1>6, <1>7, <1>8, <1>9, <1>10, <1>11 DEF TilePowers
<1>13. \A s, t \in 1 .. 10 : f(s) = f(t) => s = t
  BY <1>1, <1>2, <1>3, <1>4, <1>5, <1>6, <1>7, <1>8, <1>9, <1>10, <1>11, SMTT(60)
<1> QED
  BY <1>12, <1>13 DEF f

(* A tile is added to those enabled, the others stay as they are            *)
(* (power_up_tile.sh:23-33).                                                *)
LEMMA TileAdded ==
  ASSUME NEW e \in Enables, NEW t \in Tiles
  PROVE  WithTile(e, t) \in Enables /\ EnabledTiles(WithTile(e, t)) = EnabledTiles(e) \cup {t}
<1>1. Tiles \subseteq 1 .. 10
  BY CmdServerAssumption
<1>2. \A v : EnabledTiles(v) = {s \in Tiles : Bit(v, 2 ^ (s - 1)) = 1}
  BY DEF EnabledTiles, Bit
<1> DEFINE p == 2 ^ (t - 1)
<1>3. p \in TilePowers /\ \A s \in Tiles : 2 ^ (s - 1) \in TilePowers /\ (2 ^ (s - 1) = p <=> s = t)
  BY <1>1, TilePower
<1>4. CASE t \in EnabledTiles(e)
  BY <1>4 DEF WithTile
<1>5. CASE t \notin EnabledTiles(e)
  <2>1. WithTile(e, t) = e + p
    BY <1>5 DEF WithTile
  <2> HIDE DEF p
  <2>2. Bit(e, p) # 1
    BY <1>2, <1>5 DEF p
  <2>3. Bit(e, p) = 0
    <3>1. e \in Nat /\ p \in Nat \ {0}
      BY <1>3 DEF Enables, TilePowers
    <3>2. Bit(e, p) \in {0, 1}
      BY <3>1, SMT DEF Bit
    <3> QED
      BY <2>2, <3>2
  <2>4. Sets(e, p)
    BY <1>3, <2>3, SetBit
  <2>5. \A s \in Tiles : Bit(e + p, 2 ^ (s - 1)) = 1 <=> s = t \/ Bit(e, 2 ^ (s - 1)) = 1
    BY <1>3, <2>4, Zenon DEF Sets
  <2> QED
    BY <1>2, <2>1, <2>4, <2>5 DEF Sets
<1> QED
  BY <1>4, <1>5

LEMMA NoTiles == EnabledTiles(0) = {}
<1>1. \A t \in Tiles : 2 ^ (t - 1) \in TilePowers
  BY TilePower, CmdServerAssumption
<1>2. \A p \in TilePowers : (0 \div p) % 2 = 0
  BY SMT DEF TilePowers
<1>3. \A t \in Tiles : (0 \div 2 ^ (t - 1)) % 2 = 0
  BY <1>1, <1>2, Zenon
<1> QED
  BY <1>3 DEF EnabledTiles

-----------------------------------------------------------------------------
(* The invariant, in parts.                                                 *)

Supplied(t) == regs[VDDA(t)] = DAC_VALUE /\ regs[VDDD(t)] = DAC_VALUE
Safe(e) == e \in Enables /\ (faults = 0 => \A t \in EnabledTiles(e) : Supplied(t))

\* Lists of words that are sent: by a client that is run by hand (the words that read
\* the enables are such ones too), and by the scripts.
ByHandList(L) ==
  L # <<>> /\ L \in Seq(ByHand) /\ \A i \in DOMAIN L : MayBeSent(L[i])
SafeUp(L, t) == \E e \in Enables : Safe(e) /\ L = PowerUp(t, e)
Asked(L) == ByHandList(L) \/ L = PowerDown \/ \E t \in Tiles : SafeUp(L, t)
Lists ==
  {job.words : job \in Jobs} \cup {ReadEnables, PowerDown}
    \cup {PowerUp(t, e) : t \in Tiles, e \in Enables}

Asks(job, L) ==
  \/ \E t \in Tiles : job = PowerUpJob(t) /\ (L = ReadEnables \/ SafeUp(L, t))
  \/ job = PowerDownJob /\ L = PowerDown
  \/ job = SendJob(L) /\ ByHandList(L)

AsksItsOwn(c) == client[c].job \in Jobs /\ Asks(client[c].job, client[c].sent)

Formatted(L) == [i \in DOMAIN L |-> format_word(L[i])]

CmdTypes ==
  /\ pc \in {"recv", "words", "reply"}
  /\ fill \in FILLS \cup {0}
  /\ regs \in [Registers -> Values] /\ logged \in [Registers -> Values]
  /\ client \in [Clients -> [job : Jobs \cup {SendJob(<<>>)}, sent : Seq(ByHand)]]
  /\ \A c \in Clients : client[c] # Idle => AsksItsOwn(c)
  /\ on \subseteq Tiles
  /\ cut \in BOOLEAN /\ crashed \in BOOLEAN /\ overlap \in BOOLEAN
  /\ runs \in 0 .. MAX_RUNS /\ timeouts \in 0 .. MAX_TIMEOUTS /\ faults \in 0 .. MAX_FAULTS

\* A request carries a list of words, the one its client has sent last.
Requests(m, L) ==
  /\ m \in [from : Int, words : Seq(Bytes)] /\ m.words = Formatted(L)
  /\ L \in Lists /\ Asked(L)
  /\ m.from \in Clients => client[m.from].sent = L

\* What a client parses of the answer to a word.
AnswerTo(b, w) ==
  LET got == parse_word(b) IN
  /\ got.type = w.type /\ got.a = w.a
  /\ got.type \in {WRITE, DATA} => got.b = w.b
  /\ w = Word(READ, TILE_EN, 0) => Safe(got.b)
Answers(words, L) == \A i \in DOMAIN words : AnswerTo(words[i], L[i])

\* How far the registers are when k words of a list have been handled.
Handled(L, k) ==
  /\ L = PowerDown /\ k >= 1 => regs[TILE_EN] = 0
  /\ \A t \in Tiles, e \in Enables :
       L = PowerUp(t, e) => /\ (faults = 0 /\ k >= 1 => regs[VDDA(t)] = DAC_VALUE)
                           /\ (faults = 0 /\ k >= 2 => regs[VDDD(t)] = DAC_VALUE)
                           /\ (k >= 3 => regs[PWR_EN] = 1)

Power == Safe(regs[TILE_EN]) /\ (EnabledTiles(regs[TILE_EN]) # {} => regs[PWR_EN] = 1)

Handling ==
  /\ rep \in Seq(Bytes)
  /\ pc = "recv" => req = NoRequest /\ rep = <<>>
  /\ pc # "recv" => \E L \in Lists : /\ Requests(req, L) /\ Len(rep) <= Len(L)
                                      /\ Answers(rep, L) /\ Handled(L, Len(rep))
  /\ pc = "reply" => Len(rep) = Len(req.words)

Replies(m) ==
  /\ m \in [from : Busy, words : Seq(Bytes)]
  /\ Len(m.words) = Len(client[m.from].sent)
  /\ Answers(m.words, client[m.from].sent)

Messages == (\A m \in inbox : \E L \in Lists : Requests(m, L)) /\ \A m \in outbox : Replies(m)

\* What a client has asked is in one place at most, and nowhere once it is lost.
OnePlace ==
  /\ \A m \in inbox : m.from \in Clients =>
       /\ m.from \in Busy \ lost /\ m.from # req.from
       /\ \A n \in inbox : n.from = m.from => n = m
       /\ \A n \in outbox : n.from # m.from
  /\ req.from \in Clients => req.from \in Busy \ lost
  /\ \A m \in outbox : /\ m.from \notin lost /\ m.from # req.from
                        /\ \A n \in outbox : n.from = m.from => n = m
  /\ lost \subseteq Busy

\* But for the processes, and with them.
LoopInv == CmdTypes /\ Power /\ Handling /\ Messages /\ OnePlace
CmdInv == LifeInv /\ LoopInv

\* The log leads to the registers, with the words handled of the request in hand.
LogInv ==
  ~ cut /\ faults = 0 =>
    regs = IF pc = "words" THEN LogOf(SubSeq(req.words, 1, Len(rep)), logged) ELSE logged

\* The enables and the power when no script is at work, and when k words of the
\* request of a script have been handled.
Settled == EnabledTiles(regs[TILE_EN]) = on /\ regs[PWR_EN] = IF on = {} THEN 0 ELSE 1
UpReached(t, L, k) ==
  /\ EnabledTiles(L[4].b) = on \cup {t}
  /\ EnabledTiles(regs[TILE_EN]) = IF k >= 4 THEN on \cup {t} ELSE on
  /\ regs[PWR_EN] = IF k < 3 /\ on = {} THEN 0 ELSE 1
DownReached(k) ==
  on = {} /\ (k >= 1 => EnabledTiles(regs[TILE_EN]) = {}) /\ (k >= 2 => regs[PWR_EN] = 0)
Reached(c, words) ==
  LET job == client[c].job  L == client[c].sent IN
  /\ job = PowerDownJob => DownReached(Len(words))
  /\ job # PowerDownJob /\ L = ReadEnables =>
       /\ Settled
       /\ words # <<>> => EnabledTiles(parse_word(words[1]).b) = on
  /\ job # PowerDownJob /\ L # ReadEnables => UpReached(job.tile, L, Len(words))

\* What has been answered to a client so far, of what it asked last.
SoFar(c) ==
  (IF \E m \in inbox : m.from = c THEN {<<>>} ELSE {})
    \cup (IF req.from = c THEN {rep} ELSE {}) \cup {m.words : m \in {n \in outbox : n.from = c}}

InOrder ==
  /\ \A c, d \in Powering : c = d
  /\ Powering = {} => Settled
  /\ \A m \in inbox : m.from \in Clients
  /\ pc # "recv" => req.from \in Clients
  /\ \A c \in Powering : \A words \in SoFar(c) : Reached(c, words)
TilesInv == ~ overlap /\ timeouts = 0 => InOrder

-----------------------------------------------------------------------------
(* The registers, and the words of the scripts.                             *)

LEMMA RegisterFacts ==
  /\ TILE_EN \in Registers /\ PWR_EN \in Registers /\ TILE_EN # PWR_EN
  /\ TILE_EN < PACMAN_LEN /\ PWR_EN < PACMAN_LEN
  /\ Registers \subseteq Values
  /\ \A t \in Tiles : /\ VDDA(t) \in Registers /\ VDDD(t) \in Registers
                     /\ VDDA(t) \notin {TILE_EN, PWR_EN} /\ VDDD(t) \notin {TILE_EN, PWR_EN}
  /\ \A s, t \in Tiles : VDDA(s) # VDDD(t) /\ (VDDA(s) = VDDA(t) => s = t) /\ (VDDD(s) = VDDD(t) => s = t)
<1>1. Tiles \subseteq 1 .. 10
  BY CmdServerAssumption
<1>2. \A t \in 1 .. 10 : VDDA(t) = 147471 + t /\ VDDD(t) = 147487 + t
  BY SMT DEF VDDA, VDDD, PACMAN_LEN
<1>3. TILE_EN = 16 /\ PWR_EN = 20 /\ PACMAN_LEN = 147456
  BY DEF TILE_EN, PWR_EN, PACMAN_LEN
<1>4. \A t \in 1 .. 10 : VDDA(t) \notin {TILE_EN, PWR_EN} /\ VDDD(t) \notin {TILE_EN, PWR_EN}
  BY <1>2, <1>3, SMT
<1>5. \A s, t \in 1 .. 10 :
        VDDA(s) # VDDD(t) /\ (VDDA(s) = VDDA(t) => s = t) /\ (VDDD(s) = VDDD(t) => s = t)
  BY <1>2, SMT
<1>6. \A t \in Tiles : VDDA(t) \in Registers /\ VDDD(t) \in Registers
  BY DEF Registers
<1>7. Registers \subseteq Values
  <2>1. \A t \in 1 .. 10 : /\ VDDA(t) \in Nat /\ VDDA(t) < 16777216
                          /\ VDDD(t) \in Nat /\ VDDD(t) < 16777216
    BY <1>2, SMT
  <2>2. TILE_EN \in Nat /\ TILE_EN < 16777216 /\ PWR_EN \in Nat /\ PWR_EN < 16777216
    BY <1>3, SMT
  <2> QED
    BY <1>1, <2>1, <2>2, ValueBounds DEF Registers
<1>8. TILE_EN < PACMAN_LEN /\ PWR_EN < PACMAN_LEN /\ TILE_EN # PWR_EN
  BY <1>3, SMT
<1>9. TILE_EN \in Registers /\ PWR_EN \in Registers
  BY DEF Registers
<1> QED
  BY <1>1, <1>4, <1>5, <1>6, <1>7, <1>8, <1>9

LEMMA ScriptWords ==
  /\ ReadEnables = <<Word(READ, TILE_EN, 0)>> /\ ByHandList(ReadEnables)
  /\ PowerDown \in Seq(ByHand) /\ Len(PowerDown) = 2
  /\ PowerDown[1] = Write(TILE_EN, 0) /\ PowerDown[2] = Write(PWR_EN, 0)
  /\ \A t \in Tiles, e \in Enables :
       /\ PowerUp(t, e) \in Seq(ByHand) /\ Len(PowerUp(t, e)) = 4
       /\ PowerUp(t, e)[1] = Write(VDDA(t), DAC_VALUE) /\ PowerUp(t, e)[2] = Write(VDDD(t), DAC_VALUE)
       /\ PowerUp(t, e)[3] = Write(PWR_EN, 1) /\ PowerUp(t, e)[4] = Write(TILE_EN, WithTile(e, t))
<1>1. 0 \in Values /\ 1 \in Values /\ DAC_VALUE \in Values /\ Enables \subseteq Values
  BY ValueBounds, SMT DEF DAC_VALUE, Enables
<1>2. \A a, b \in Values : Write(a, b) \in ByHand /\ Word(READ, a, b) \in ByHand
  BY DEF Write, Word, ByHand
<1>3. ReadEnables = <<Word(READ, TILE_EN, 0)>>
  BY DEF ReadEnables
<1>4. ByHandList(ReadEnables)
  <2>1. Word(READ, TILE_EN, 0) \in ByHand
    BY <1>1, <1>2, RegisterFacts
  <2>2. MayBeSent(Word(READ, TILE_EN, 0))
    BY RegisterFacts DEF MayBeSent, Word, PING, WRITE, READ, DATA
  <2> DEFINE w == Word(READ, TILE_EN, 0)
  <2> HIDE DEF w
  <2>3. <<w>> # <<>> /\ (w \in ByHand => <<w>> \in Seq(ByHand))
        /\ (MayBeSent(w) => \A i \in DOMAIN <<w>> : MayBeSent(<<w>>[i]))
    OBVIOUS
  <2>4. ReadEnables = <<w>>
    BY <1>3 DEF w
  <2> QED
    BY <2>1, <2>2, <2>3, <2>4 DEF w, ByHandList
<1>5. /\ PowerDown \in Seq(ByHand) /\ Len(PowerDown) = 2
      /\ PowerDown[1] = Write(TILE_EN, 0) /\ PowerDown[2] = Write(PWR_EN, 0)
  <2>1. Write(TILE_EN, 0) \in ByHand /\ Write(PWR_EN, 0) \in ByHand
    BY <1>1, <1>2, RegisterFacts
  <2> QED
    BY <2>1 DEF PowerDown
<1>6. ASSUME NEW t \in Tiles, NEW e \in Enables
      PROVE  /\ PowerUp(t, e) \in Seq(ByHand) /\ Len(PowerUp(t, e)) = 4
             /\ PowerUp(t, e)[1] = Write(VDDA(t), DAC_VALUE) /\ PowerUp(t, e)[2] = Write(VDDD(t), DAC_VALUE)
             /\ PowerUp(t, e)[3] = Write(PWR_EN, 1) /\ PowerUp(t, e)[4] = Write(TILE_EN, WithTile(e, t))
  <2> DEFINE x == Write(VDDA(t), DAC_VALUE)  y == Write(VDDD(t), DAC_VALUE)
             z == Write(PWR_EN, 1)  u == Write(TILE_EN, WithTile(e, t))
  <2>1. x \in ByHand /\ y \in ByHand /\ z \in ByHand /\ u \in ByHand
    BY <1>1, <1>2, RegisterFacts, TileAdded
  <2>2. PowerUp(t, e) = <<x, y, z, u>>
    BY DEF PowerUp
  <2> HIDE DEF x, y, z, u
  <2>3. /\ PowerUp(t, e) \in Seq(ByHand) /\ Len(PowerUp(t, e)) = 4
        /\ PowerUp(t, e)[1] = x /\ PowerUp(t, e)[2] = y /\ PowerUp(t, e)[3] = z /\ PowerUp(t, e)[4] = u
    BY <2>1, <2>2
  <2> QED
    BY <2>3 DEF x, y, z, u
<1> QED
  BY <1>3, <1>4, <1>5, <1>6

\* The lists of the scripts differ from one another and from those sent by hand.
LEMMA ListsDiffer ==
  /\ \A L : ByHandList(L) => L # PowerDown /\ \A t \in Tiles, e \in Enables : L # PowerUp(t, e)
  /\ \A t \in Tiles, e \in Enables : PowerUp(t, e) # PowerDown /\ PowerUp(t, e) # ReadEnables
  /\ PowerDown # ReadEnables
  /\ \A s, t \in Tiles : \A d, e \in Enables : PowerUp(s, d) = PowerUp(t, e) => s = t
<1>1. \A a, b : Write(a, b).type = WRITE /\ Write(a, b).a = a /\ Write(a, b).b = b
  BY DEF Write, Word
<1>2. ASSUME NEW L, ByHandList(L), NEW i \in DOMAIN L, NEW r \in Registers, NEW v
      PROVE  L[i] # Write(r, v)
  BY <1>1, <1>2 DEF ByHandList, MayBeSent
<1>3. 1 \in DOMAIN PowerDown /\ \A t \in Tiles, e \in Enables : 1 \in DOMAIN PowerUp(t, e)
  BY ScriptWords
<1>4. \A L : ByHandList(L) => L # PowerDown /\ \A t \in Tiles, e \in Enables : L # PowerUp(t, e)
  BY <1>2, <1>3, ScriptWords, RegisterFacts
<1>5. \A t \in Tiles, e \in Enables : PowerUp(t, e) # PowerDown
  BY ScriptWords
<1>6. \A s, t \in Tiles : \A d, e \in Enables : PowerUp(s, d) = PowerUp(t, e) => s = t
  <2> SUFFICES ASSUME NEW s \in Tiles, NEW t \in Tiles, NEW d \in Enables, NEW e \in Enables,
                      PowerUp(s, d) = PowerUp(t, e)
               PROVE  s = t
    OBVIOUS
  <2>1. Write(VDDA(s), DAC_VALUE) = Write(VDDA(t), DAC_VALUE)
    BY ScriptWords
  <2>2. VDDA(s) = VDDA(t)
    BY <1>1, <2>1
  <2> QED
    BY <2>2, RegisterFacts
<1> QED
  BY <1>4, <1>5, <1>6, ScriptWords

LEMMA AskedWords ==
  ASSUME NEW L, Asked(L)
  PROVE  /\ L \in Seq(ByHand) /\ L # <<>>
         /\ Formatted(L) \in Seq(Bytes) /\ Len(Formatted(L)) = Len(L)
         /\ \A i \in 1 .. Len(L) : L[i] \in ByHand /\ Formatted(L)[i] = format_word(L[i])
<1>1. L \in Seq(ByHand) /\ L # <<>>
  BY ScriptWords DEF Asked, SafeUp, ByHandList
<1>2. \A i \in 1 .. Len(L) : L[i] \in ByHand
  BY <1>1
<1>3. Formatted(L) = [i \in 1 .. Len(L) |-> format_word(L[i])]
  BY <1>1 DEF Formatted
<1>4. \A i \in 1 .. Len(L) : format_word(L[i]) \in Bytes
  BY <1>2, WordCarried
<1>5. Formatted(L) \in Seq(Bytes) /\ Len(Formatted(L)) = Len(L)
  BY <1>1, <1>3, <1>4
<1> QED
  BY <1>1, <1>2, <1>3, <1>5

LEMMA JobFacts ==
  /\ \A t : PowerUpJob(t).script = "power_up_tile" /\ PowerUpJob(t).tile = t
  /\ PowerDownJob.script = "power_down"
  /\ \A L : SendJob(L).script = "pacman_util"
  /\ \A job, L : Asks(job, L) => Asked(L)
  /\ \A job \in Jobs : LET L == FirstRequest(job) IN Asks(job, L) /\ Asked(L) /\ L \in Lists
<1>1. \A t : PowerUpJob(t).script = "power_up_tile" /\ PowerUpJob(t).tile = t
  BY DEF PowerUpJob
<1>2. PowerDownJob.script = "power_down"
  BY DEF PowerDownJob
<1>3. \A L : SendJob(L).script = "pacman_util" /\ SendJob(L).words = L
  BY DEF SendJob
<1>4. \A job, L : Asks(job, L) => Asked(L)
  BY ScriptWords DEF Asks, Asked
<1>5. ASSUME NEW job \in Jobs
      PROVE  Asks(job, FirstRequest(job)) /\ FirstRequest(job) \in Lists
  <2>1. CASE job = PowerDownJob
    <3>1. FirstRequest(job) = PowerDown
      BY <2>1, <1>2 DEF FirstRequest
    <3> QED
      BY <2>1, <3>1 DEF Asks, Lists
  <2>2. CASE \E t \in Tiles : job = PowerUpJob(t)
    <3>1. FirstRequest(job) = ReadEnables
      BY <2>2, <1>1 DEF FirstRequest
    <3> QED
      BY <2>2, <3>1 DEF Asks, Lists
  <2>3. CASE /\ job = SendJob(job.words) /\ job.words # <<>>
             /\ job.words \in Seq(ByHand) /\ \A i \in DOMAIN job.words : MayBeSent(job.words[i])
    <3>1. job.script = "pacman_util"
      BY <2>3, <1>3
    <3>2. FirstRequest(job) = job.words
      BY <3>1 DEF FirstRequest
    <3>3. ByHandList(job.words)
      BY <2>3 DEF ByHandList
    <3> QED
      BY <2>3, <3>2, <3>3 DEF Asks, Lists
  <2> QED
    BY <2>1, <2>2, <2>3, CmdServerAssumption
<1> QED
  BY <1>1, <1>2, <1>3, <1>4, <1>5

-----------------------------------------------------------------------------
(* What stays true as the registers change.                                 *)

\* A tile's voltages stay set.
KeepsSupply ==
  /\ faults' = 0 => faults = 0
  /\ \A t \in Tiles : faults' = 0 /\ Supplied(t) => Supplied(t)'

LEMMA SafeStays ==
  ASSUME KeepsSupply
  PROVE  /\ \A e : Safe(e) => Safe(e)'
         /\ \A L : Asked(L) => Asked(L)'
         /\ \A job, L : Asks(job, L) => Asks(job, L)'
         /\ \A b, w : AnswerTo(b, w) => AnswerTo(b, w)'
         /\ \A words, L : Answers(words, L) => Answers(words, L)'
<1>1. \A e : Safe(e) => Safe(e)'
  BY DEF KeepsSupply, Safe, EnabledTiles
<1>2. \A L, t : SafeUp(L, t) => SafeUp(L, t)'
  BY <1>1 DEF SafeUp
<1>3. \A L : Asked(L) => Asked(L)'
  BY <1>2 DEF Asked
<1>4. \A job, L : Asks(job, L) => Asks(job, L)'
  BY <1>2 DEF Asks
<1>5. \A b, w : AnswerTo(b, w) => AnswerTo(b, w)'
  BY <1>1 DEF AnswerTo
<1>6. \A words, L : Answers(words, L) => Answers(words, L)'
  BY <1>5 DEF Answers
<1> QED
  BY <1>1, <1>3, <1>4, <1>5, <1>6

LEMMA SupplyUnchanged ==
  ASSUME UNCHANGED <<regs, faults>>
  PROVE  KeepsSupply /\ (Power => Power') /\ \A L, k : Handled(L, k) => Handled(L, k)'
<1>1. KeepsSupply
  BY DEF KeepsSupply, Supplied
<1>2. Power => Power'
  BY DEF Power, Safe, Supplied, EnabledTiles
<1>3. \A L, k : Handled(L, k) => Handled(L, k)'
  BY DEF Handled
<1> QED
  BY <1>1, <1>2, <1>3

LEMMA AskingStays ==
  ASSUME KeepsSupply, NEW c, AsksItsOwn(c), client'[c] = client[c]
  PROVE  AsksItsOwn(c)'
BY SafeStays DEF AsksItsOwn, Asks, SafeUp

\* A message is still one of its client's, if that has not sent anything new.
LEMMA RequestStays ==
  ASSUME KeepsSupply, NEW m, NEW L, Requests(m, L),
         m.from \in Clients => client'[m.from].sent = client[m.from].sent
  PROVE  Requests(m, L)'
BY SafeStays DEF Requests

LEMMA ReplyStays ==
  ASSUME KeepsSupply, NEW m, Replies(m), client'[m.from] = client[m.from]
  PROVE  Replies(m)'
BY SafeStays DEF Replies, Busy

LEMMA HandlingStays ==
  ASSUME Handling, UNCHANGED <<serverVars, regs, faults>>,
         req.from \in Clients => client'[req.from].sent = client[req.from].sent
  PROVE  Handling'
<1>1. KeepsSupply /\ \A L, k : Handled(L, k) => Handled(L, k)'
  BY SupplyUnchanged
<1>2. pc' = pc /\ req' = req /\ rep' = rep
  BY DEF serverVars
<1>3. \A L \in Lists : Requests(req, L) => Requests(req, L)'
  BY <1>1, <1>2, SafeStays DEF Requests
<1>4. \A L : Answers(rep, L) => Answers(rep, L)'
  BY <1>1, <1>2, SafeStays DEF Answers
<1>5. \A L : Handled(L, Len(rep)) => Handled(L, Len(rep))'
  BY <1>1, <1>2 DEF Handled
<1> QED
  BY <1>2, <1>3, <1>4, <1>5 DEF Handling

-----------------------------------------------------------------------------
(* The steps of the clients.                                                *)

LEMMA NumberedClients ==
  Clients \subseteq Int /\ 0 \notin Clients /\ \A n \in Nat \ {0} : Closed(n) \in Int \ Clients
<1>1. Clients \subseteq Nat \ {0}
  BY CmdServerAssumption
<1> QED
  BY <1>1, SMT DEF Closed

\* A request with a list of words, by a client of which there is no message.
LEMMA AskStep ==
  ASSUME LoopInv, NEW c \in Clients, NEW L \in Lists, Asked(L), NEW job \in Jobs, Asks(job, L),
         \A m \in inbox : m.from # c, req.from # c, c \notin lost,
         outbox' \subseteq outbox, \A m \in outbox' : m.from # c,
         client' = [client EXCEPT ![c] = [job |-> job, sent |-> L]],
         inbox' = inbox \cup {Request(c, L)},
         UNCHANGED <<serverVars, regs, faults, lost>>
  PROVE  /\ client' \in [Clients -> [job : Jobs \cup {SendJob(<<>>)}, sent : Seq(ByHand)]]
         /\ \A d \in Clients : client'[d] # Idle => AsksItsOwn(d)'
         /\ Power' /\ Handling' /\ Messages' /\ OnePlace'
<1>1. L \in Seq(ByHand) /\ L # <<>> /\ Formatted(L) \in Seq(Bytes)
  BY AskedWords
<1>2. KeepsSupply /\ Power'
  BY SupplyUnchanged DEF LoopInv
<1>3. client \in [Clients -> [job : Jobs \cup {SendJob(<<>>)}, sent : Seq(ByHand)]]
  BY DEF LoopInv, CmdTypes
<1>4. /\ client'[c] = [job |-> job, sent |-> L]
      /\ \A d \in Clients : d # c => client'[d] = client[d]
  BY <1>3
<1>5. client'[c] # Idle /\ client'[c].job = job /\ client'[c].sent = L
  BY <1>1, <1>4 DEF Idle
<1>6. Busy' = Busy \cup {c}
  BY <1>4, <1>5 DEF Busy
<1>7. client' \in [Clients -> [job : Jobs \cup {SendJob(<<>>)}, sent : Seq(ByHand)]]
  BY <1>1, <1>3
<1>8. \A d \in Clients : client'[d] # Idle => AsksItsOwn(d)'
  <2> SUFFICES ASSUME NEW d \in Clients, client'[d] # Idle
               PROVE  AsksItsOwn(d)'
    OBVIOUS
  <2>1. CASE d = c
    <3>1. Asks(job, L)'
      BY <1>2, SafeStays
    <3> QED
      BY <2>1, <1>5, <3>1 DEF AsksItsOwn, Asks, SafeUp
  <2>2. CASE d # c
    <3>1. client'[d] = client[d]
      BY <2>2, <1>4
    <3>2. AsksItsOwn(d)
      BY <3>1 DEF LoopInv, CmdTypes
    <3> QED
      BY <1>2, <3>1, <3>2, AskingStays
  <2> QED
    BY <2>1, <2>2
<1>9. Handling'
  <2>1. req.from \in Clients => client'[req.from].sent = client[req.from].sent
    BY <1>4
  <2> QED
    BY <2>1, HandlingStays DEF LoopInv
<1>10. Request(c, L) = [from |-> c, words |-> Formatted(L)]
  BY DEF Request, Formatted
<1>11. Messages'
  <2>1. Requests(Request(c, L), L)'
    <3>1. Asked(L)'
      BY <1>2, SafeStays
    <3>2. c \in Int
      BY NumberedClients
    <3> QED
      BY <1>1, <1>5, <1>10, <3>1, <3>2 DEF Requests
  <2>2. ASSUME NEW m \in inbox PROVE \E K \in Lists : Requests(m, K)'
    <3>1. PICK K \in Lists : Requests(m, K)
      BY DEF LoopInv, Messages
    <3>2. m.from \in Clients => client'[m.from].sent = client[m.from].sent
      BY <1>4
    <3> QED
      BY <1>2, <3>1, <3>2, RequestStays
  <2>3. ASSUME NEW m \in outbox' PROVE Replies(m)'
    <3>1. Replies(m)
      BY DEF LoopInv, Messages
    <3>2. client'[m.from] = client[m.from]
      BY <1>4, <3>1 DEF Replies, Busy
    <3> QED
      BY <1>2, <3>1, <3>2, ReplyStays
  <2> QED
    BY <1>10, <2>1, <2>2, <2>3 DEF Messages
<1>12. OnePlace'
  <2>1. OnePlace /\ req' = req /\ lost' = lost
    BY DEF LoopInv, serverVars
  <2>2. Request(c, L).from = c
    BY <1>10
  <2>3. \A m \in outbox' : m \in outbox /\ m.from # c
    OBVIOUS
  <2> HIDE DEF Request
  <2>4. \A m \in inbox' : m.from \in Clients =>
          /\ m.from \in Busy' \ lost' /\ m.from # req'.from
          /\ \A n \in inbox' : n.from = m.from => n = m
          /\ \A n \in outbox' : n.from # m.from
    BY <1>6, <2>1, <2>2, <2>3 DEF OnePlace
  <2>5. req'.from \in Clients => req'.from \in Busy' \ lost'
    BY <1>6, <2>1 DEF OnePlace
  <2>6. \A m \in outbox' : /\ m.from \notin lost' /\ m.from # req'.from
                           /\ \A n \in outbox' : n.from = m.from => n = m
    BY <2>1, <2>3 DEF OnePlace
  <2>7. lost' \subseteq Busy'
    BY <1>6, <2>1 DEF OnePlace
  <2> QED
    BY <2>4, <2>5, <2>6, <2>7 DEF OnePlace
<1> QED
  BY <1>2, <1>7, <1>8, <1>9, <1>11, <1>12

\* A client that stops waiting: what is left of it is a request of a closed connection.
LEMMA LeaveStep ==
  ASSUME LoopInv, NEW c \in Clients,
         client' = [client EXCEPT ![c] = Idle],
         \A m \in inbox' :
           \/ m \in inbox /\ m.from # c
           \/ m.from \in Int \ Clients /\ \E n \in inbox : m = [from |-> m.from, words |-> n.words],
         outbox' \subseteq outbox, \A m \in outbox' : m.from # c,
         \/ req' = req /\ req.from # c
         \/ req'.from \in Int \ Clients /\ pc # "recv" /\ req' = [from |-> req'.from, words |-> req.words],
         lost' = lost \ {c},
         UNCHANGED <<pc, rep, regs, faults>>
  PROVE  /\ client' \in [Clients -> [job : Jobs \cup {SendJob(<<>>)}, sent : Seq(ByHand)]]
         /\ \A d \in Clients : client'[d] # Idle => AsksItsOwn(d)'
         /\ Power' /\ Handling' /\ Messages' /\ OnePlace'
<1>1. KeepsSupply /\ Power'
  BY SupplyUnchanged DEF LoopInv
<1>2. client \in [Clients -> [job : Jobs \cup {SendJob(<<>>)}, sent : Seq(ByHand)]]
  BY DEF LoopInv, CmdTypes
<1>3. /\ client'[c] = Idle
      /\ \A d \in Clients : d # c => client'[d] = client[d]
  BY <1>2
<1>4. Busy' = Busy \ {c}
  BY <1>3 DEF Busy
<1>5. client' \in [Clients -> [job : Jobs \cup {SendJob(<<>>)}, sent : Seq(ByHand)]]
  BY <1>2 DEF Idle
<1>6. \A d \in Clients : client'[d] # Idle => AsksItsOwn(d)'
  <2> SUFFICES ASSUME NEW d \in Clients, client'[d] # Idle PROVE AsksItsOwn(d)'
    OBVIOUS
  <2>1. client'[d] = client[d]
    BY <1>3
  <2>2. AsksItsOwn(d)
    BY <2>1 DEF LoopInv, CmdTypes
  <2> QED
    BY <1>1, <2>1, <2>2, AskingStays
<1>7. Handling'
  <2>1. CASE pc = "recv"
    <3>1. req' = req /\ rep' = rep /\ pc' = "recv" /\ rep = <<>> /\ req = NoRequest
      BY <2>1 DEF LoopInv, Handling
    <3> QED
      BY <3>1 DEF LoopInv, Handling
  <2>2. CASE pc # "recv"
    <3>1. PICK L \in Lists : /\ Requests(req, L) /\ Len(rep) <= Len(L)
                             /\ Answers(rep, L) /\ Handled(L, Len(rep))
      BY <2>2 DEF LoopInv, Handling
    <3>2. Requests(req, L)'
      <4>1. Asked(L)'
        BY <1>1, <3>1, SafeStays DEF Requests
      <4>2. req' \in [from : Int, words : Seq(Bytes)] /\ req'.words = req.words
        BY <3>1 DEF Requests
      <4>3. req'.from \in Clients => client'[req'.from].sent = L
        BY <1>3, <3>1 DEF Requests
      <4> QED
        BY <3>1, <4>1, <4>2, <4>3 DEF Requests
    <3>3. Answers(rep, L)'
      <4>1. \A words, K : Answers(words, K) => Answers(words, K)'
        BY <1>1, SafeStays
      <4> QED
        BY <3>1, <4>1 DEF Answers
    <3>4. Handled(L, Len(rep))'
      BY <3>1 DEF Handled
    <3>5. req'.words = req.words
      BY <3>1 DEF Requests
    <3> QED
      BY <2>2, <3>1, <3>2, <3>3, <3>4, <3>5 DEF LoopInv, Handling
  <2> QED
    BY <2>1, <2>2
<1>8. Messages'
  <2>1. ASSUME NEW m \in inbox' PROVE \E K \in Lists : Requests(m, K)'
    <3>1. CASE m \in inbox /\ m.from # c
      <4>1. PICK K \in Lists : Requests(m, K)
        BY <3>1 DEF LoopInv, Messages
      <4>2. m.from \in Clients => client'[m.from].sent = client[m.from].sent
        BY <1>3, <3>1
      <4> QED
        BY <1>1, <4>1, <4>2, RequestStays
    <3>2. ASSUME m.from \in Int \ Clients, NEW n \in inbox, m = [from |-> m.from, words |-> n.words]
          PROVE  \E K \in Lists : Requests(m, K)'
      <4>1. PICK K \in Lists : Requests(n, K)
        BY DEF LoopInv, Messages
      <4>2. Asked(K)'
        BY <1>1, <4>1, SafeStays DEF Requests
      <4>3. m \in [from : Int, words : Seq(Bytes)] /\ m.words = n.words
        BY <3>2, <4>1 DEF Requests
      <4> QED
        BY <3>2, <4>1, <4>2, <4>3 DEF Requests
    <3> QED
      BY <3>1, <3>2
  <2>2. ASSUME NEW m \in outbox' PROVE Replies(m)'
    <3>1. Replies(m)
      BY DEF LoopInv, Messages
    <3>2. client'[m.from] = client[m.from]
      BY <1>3, <3>1 DEF Replies, Busy
    <3> QED
      BY <1>1, <3>1, <3>2, ReplyStays
  <2> QED
    BY <2>1, <2>2 DEF Messages
<1>9. OnePlace'
  <2>1. OnePlace
    BY DEF LoopInv
  <2>2. \A m \in inbox' : m.from \in Clients => m \in inbox /\ m.from # c
    OBVIOUS
  <2>3. req'.from \in Clients => req' = req /\ req.from # c
    OBVIOUS
  <2>4. \A m \in outbox' : m \in outbox /\ m.from # c /\ m.from \in Clients
    BY DEF LoopInv, Messages, Replies, Busy
  <2>5. \A m \in inbox' : m.from \in Clients =>
          /\ m.from \in Busy' \ lost' /\ m.from # req'.from
          /\ \A n \in inbox' : n.from = m.from => n = m
          /\ \A n \in outbox' : n.from # m.from
    BY <1>4, <2>1, <2>2, <2>3, <2>4 DEF OnePlace
  <2>6. req'.from \in Clients => req'.from \in Busy' \ lost'
    BY <1>4, <2>1, <2>3 DEF OnePlace
  <2>7. \A m \in outbox' : /\ m.from \notin lost' /\ m.from # req'.from
                           /\ \A n \in outbox' : n.from = m.from => n = m
    BY <2>1, <2>3, <2>4 DEF OnePlace
  <2>8. lost' \subseteq Busy'
    BY <1>4, <2>1 DEF OnePlace
  <2> QED
    BY <2>5, <2>6, <2>7, <2>8 DEF OnePlace
<1> QED
  BY <1>1, <1>5, <1>6, <1>7, <1>8, <1>9

LEMMA RunStep ==
  ASSUME LoopInv, NEW c \in Clients, NEW job \in Jobs, Run(c, job)
  PROVE  LoopInv'
<1> DEFINE L == FirstRequest(job)
<1>1. Asks(job, L) /\ Asked(L) /\ L \in Lists
  BY JobFacts
<1>2. client[c] = Idle /\ c \notin Busy
  BY DEF Run, Busy
<1>3. /\ \A m \in inbox : m.from # c
      /\ req.from # c /\ c \notin lost
      /\ \A m \in outbox : m.from # c
  BY <1>2 DEF LoopInv, OnePlace, Messages, Replies
<1>4. /\ client' = [client EXCEPT ![c] = [job |-> job, sent |-> L]]
      /\ inbox' = inbox \cup {Request(c, L)}
      /\ UNCHANGED <<serverVars, regs, faults, lost, outbox, logged, cut, crashed, timeouts>>
      /\ runs' = runs + 1 /\ runs < MAX_RUNS
      /\ overlap' \in BOOLEAN /\ on' \in {on, {}}
  BY DEF Run, LoopInv, CmdTypes
<1> HIDE DEF L
<1>5. /\ client' \in [Clients -> [job : Jobs \cup {SendJob(<<>>)}, sent : Seq(ByHand)]]
      /\ \A d \in Clients : client'[d] # Idle => AsksItsOwn(d)'
      /\ Power' /\ Handling' /\ Messages' /\ OnePlace'
  BY <1>1, <1>3, <1>4, AskStep
<1>6. runs' \in 0 .. MAX_RUNS
  BY <1>4, CmdServerAssumption, SMT DEF LoopInv, CmdTypes
<1>7. CmdTypes'
  BY <1>4, <1>5, <1>6 DEF LoopInv, CmdTypes, serverVars
<1> QED
  BY <1>5, <1>7 DEF LoopInv

\* power_up_tile.sh goes on with the enables it has read.
LEMMA EnablesRead ==
  ASSUME LoopInv, NEW c \in Clients, NEW m \in outbox, m.from = c, AsksMore(c, m)
  PROVE  \E t \in Tiles, e \in Enables :
           /\ client[c].job = PowerUpJob(t) /\ Safe(e)
           /\ m.words # <<>> /\ e = parse_word(m.words[1]).b
           /\ client' = [client EXCEPT ![c] = [job |-> client[c].job, sent |-> PowerUp(t, e)]]
           /\ inbox' = inbox \cup {Request(c, PowerUp(t, e))}
           /\ on' = on
<1> DEFINE e == parse_word(Last(m.words)).b
           t == client[c].job.tile
           L == PowerUp(t, e)
<1>1. /\ client[c].job.script = "power_up_tile" /\ client[c].sent = ReadEnables
      /\ client' = [client EXCEPT ![c].sent = L]
      /\ inbox' = inbox \cup {Request(c, L)}
      /\ on' = on
  BY DEF AsksMore
<1>2. Replies(m)
  BY DEF LoopInv, Messages
<1>3. t \in Tiles /\ client[c].job = PowerUpJob(t)
  <2>1. client[c].job # PowerDownJob /\ \A K : client[c].job # SendJob(K)
    BY <1>1, JobFacts
  <2>2. Asks(client[c].job, client[c].sent)
    BY <1>2 DEF Replies, Busy, LoopInv, CmdTypes, AsksItsOwn
  <2>3. PICK s \in Tiles : client[c].job = PowerUpJob(s)
    BY <2>1, <2>2 DEF Asks
  <2> QED
    BY <2>3, JobFacts
<1>4. Len(m.words) = 1 /\ m.words \in Seq(Bytes) /\ Answers(m.words, <<Word(READ, TILE_EN, 0)>>)
  BY <1>1, <1>2, ScriptWords DEF Replies
<1>5. Last(m.words) = m.words[1] /\ 1 \in DOMAIN m.words /\ m.words # <<>>
  BY <1>4 DEF Last
<1>6. AnswerTo(m.words[1], Word(READ, TILE_EN, 0))
  <2> DEFINE w == Word(READ, TILE_EN, 0)
  <2> HIDE DEF w
  <2>1. <<w>>[1] = w
    OBVIOUS
  <2>2. AnswerTo(m.words[1], <<w>>[1])
    BY <1>4, <1>5 DEF Answers, w
  <2> QED
    BY <2>1, <2>2 DEF w
<1>7. e \in Enables /\ Safe(e) /\ e = parse_word(m.words[1]).b
  BY <1>5, <1>6 DEF AnswerTo, Safe
<1> HIDE DEF e, t
<1>8. client' = [client EXCEPT ![c] = [job |-> client[c].job, sent |-> L]]
  <2> HIDE DEF L
  <2>1. client[c] \in [job : Jobs \cup {SendJob(<<>>)}, sent : Seq(ByHand)]
    BY DEF LoopInv, CmdTypes
  <2>2. [client[c] EXCEPT !.sent = L] = [job |-> client[c].job, sent |-> L]
    BY <2>1
  <2> QED
    BY <1>1, <2>2, Zenon
<1> QED
  BY <1>1, <1>3, <1>5, <1>7, <1>8, Zenon

LEMMA GetReplyStep ==
  ASSUME LoopInv, NEW c \in Clients, GetReply(c)
  PROVE  LoopInv'
<1>1. PICK m \in outbox : m.from = c /\ outbox' = outbox \ {m} /\ (AsksMore(c, m) \/ Finishes(c))
  BY DEF GetReply
<1>2. UNCHANGED <<serverVars, regs, lost, logged, cut, crashed, overlap, runs, timeouts, faults>>
  BY DEF GetReply
<1>3. Replies(m)
  BY DEF LoopInv, Messages
<1>4. /\ \A n \in inbox : n.from # c
      /\ req.from # c /\ c \notin lost
      /\ \A n \in outbox' : n.from # c
  BY <1>1 DEF LoopInv, OnePlace
<1>5. client[c] # Idle /\ client[c].job \in Jobs /\ Asks(client[c].job, client[c].sent)
  BY <1>1, <1>3 DEF Replies, Busy, LoopInv, CmdTypes, AsksItsOwn
<1>6. CASE AsksMore(c, m)
  <2>1. PICK t \in Tiles, e \in Enables :
          /\ client[c].job = PowerUpJob(t) /\ Safe(e)
          /\ client' = [client EXCEPT ![c] = [job |-> client[c].job, sent |-> PowerUp(t, e)]]
          /\ inbox' = inbox \cup {Request(c, PowerUp(t, e))}
          /\ on' = on
    BY <1>1, <1>6, EnablesRead
  <2>2. PICK L : L = PowerUp(t, e)
    OBVIOUS
  <2>3. Asks(client[c].job, L) /\ Asked(L) /\ L \in Lists
    <3>1. Asks(client[c].job, L)
      BY <2>1, <2>2 DEF Asks, SafeUp
    <3>2. L \in Lists
      BY <2>2 DEF Lists
    <3> QED
      BY <3>1, <3>2, JobFacts
  <2>4. /\ client' \in [Clients -> [job : Jobs \cup {SendJob(<<>>)}, sent : Seq(ByHand)]]
        /\ \A d \in Clients : client'[d] # Idle => AsksItsOwn(d)'
        /\ Power' /\ Handling' /\ Messages' /\ OnePlace'
    <3>1. outbox' \subseteq outbox
      BY <1>1
    <3>2. /\ client' = [client EXCEPT ![c] = [job |-> client[c].job, sent |-> L]]
          /\ inbox' = inbox \cup {Request(c, L)}
      BY <2>1, <2>2, Zenon
    <3> QED
      BY <1>2, <1>4, <1>5, <2>3, <3>1, <3>2, AskStep
  <2>5. CmdTypes'
    BY <1>2, <2>1, <2>4 DEF LoopInv, CmdTypes, serverVars
  <2> QED
    BY <2>4, <2>5 DEF LoopInv
<1>7. CASE Finishes(c)
  <2>1. client' = [client EXCEPT ![c] = Idle] /\ inbox' = inbox
    BY <1>7 DEF Finishes
  <2>2. lost' = lost \ {c} /\ outbox' \subseteq outbox
    BY <1>1, <1>2, <1>4
  <2>3. /\ client' \in [Clients -> [job : Jobs \cup {SendJob(<<>>)}, sent : Seq(ByHand)]]
        /\ \A d \in Clients : client'[d] # Idle => AsksItsOwn(d)'
        /\ Power' /\ Handling' /\ Messages' /\ OnePlace'
    BY <1>2, <1>4, <2>1, <2>2, LeaveStep DEF serverVars
  <2>4. on' \subseteq Tiles
    <3>1. client[c].job.script = "power_up_tile" => client[c].job.tile \in Tiles
      BY <1>5, JobFacts DEF Asks
    <3> QED
      BY <1>7, <3>1 DEF Finishes, LoopInv, CmdTypes
  <2>5. CmdTypes'
    BY <1>2, <2>3, <2>4 DEF LoopInv, CmdTypes, serverVars
  <2> QED
    BY <2>3, <2>5 DEF LoopInv
<1> QED
  BY <1>1, <1>6, <1>7

LEMMA TimeoutStep ==
  ASSUME LoopInv, NEW c \in Clients, Timeout(c)
  PROVE  LoopInv'
<1> DEFINE n == Closed(timeouts')
<1>1. /\ client' = [client EXCEPT ![c] = Idle]
      /\ timeouts' = timeouts + 1 /\ timeouts < MAX_TIMEOUTS
      /\ outbox' = {m \in outbox : m.from # c}
      /\ lost' = lost \ {c}
      /\ UNCHANGED <<pc, rep, fill, regs, logged, cut, crashed, overlap, on, runs, faults>>
  BY DEF Timeout
<1>2. timeouts' \in 0 .. MAX_TIMEOUTS /\ timeouts' \in Nat \ {0}
  BY <1>1, CmdServerAssumption, SMT DEF LoopInv, CmdTypes
<1>3. n \in Int \ Clients
  BY <1>2, NumberedClients
<1> HIDE DEF n
<1>4. \A m \in inbox' : \/ m \in inbox /\ m.from # c
                        \/ \E k \in inbox : m = [k EXCEPT !.from = n]
  BY DEF Timeout, n
<1>5. \A m \in inbox : m = [from |-> m.from, words |-> m.words]
  BY DEF LoopInv, Messages, Requests
<1>6. \A m \in inbox' :
        \/ m \in inbox /\ m.from # c
        \/ m.from \in Int \ Clients /\ \E k \in inbox : m = [from |-> m.from, words |-> k.words]
  BY <1>3, <1>4, <1>5
<1>7. \/ req' = req /\ req.from # c
      \/ req'.from \in Int \ Clients /\ pc # "recv" /\ req' = [from |-> req'.from, words |-> req.words]
  <2>1. CASE req.from = c
    <3>1. req' = [req EXCEPT !.from = n]
      BY <2>1 DEF Timeout, n
    <3>2. req = [from |-> req.from, words |-> req.words] /\ pc # "recv"
      BY <2>1, NumberedClients DEF LoopInv, Handling, Requests, NoRequest
    <3> QED
      BY <1>3, <3>1, <3>2
  <2>2. CASE req.from # c
    BY <2>2 DEF Timeout
  <2> QED
    BY <2>1, <2>2
<1>8. /\ client' \in [Clients -> [job : Jobs \cup {SendJob(<<>>)}, sent : Seq(ByHand)]]
      /\ \A d \in Clients : client'[d] # Idle => AsksItsOwn(d)'
      /\ Power' /\ Handling' /\ Messages' /\ OnePlace'
  <2>1. outbox' \subseteq outbox /\ \A m \in outbox' : m.from # c
    BY <1>1
  <2> QED
    BY <1>1, <1>6, <1>7, <2>1, LeaveStep
<1>9. CmdTypes'
  BY <1>1, <1>2, <1>8 DEF LoopInv, CmdTypes
<1> QED
  BY <1>8, <1>9 DEF LoopInv

-----------------------------------------------------------------------------
(* The steps of the server's loop.                                          *)

LEMMA ReceiveStep ==
  ASSUME LoopInv, Receive
  PROVE  LoopInv'
<1>1. /\ pc = "recv" /\ pc' = "words"
      /\ UNCHANGED <<rep, regs, client, outbox, lost, logged, cut, crashed, overlap, on, runs, timeouts, faults>>
  BY DEF Receive, historyVars
<1>2. PICK m \in inbox, byte \in FILLS : req' = m /\ inbox' = inbox \ {m} /\ fill' = byte
  BY DEF Receive
<1>3. rep = <<>> /\ req = NoRequest
  BY <1>1 DEF LoopInv, Handling
<1>4. KeepsSupply /\ Power'
  BY <1>1, SupplyUnchanged DEF LoopInv
<1>5. CmdTypes'
  <2>1. \A c \in Clients : client'[c] # Idle => AsksItsOwn(c)'
    BY <1>1, <1>4, AskingStays DEF LoopInv, CmdTypes
  <2> QED
    BY <1>1, <1>2, <2>1 DEF LoopInv, CmdTypes
<1>6. PICK L \in Lists : Requests(m, L)
  BY DEF LoopInv, Messages
<1>7. Handling'
  <2>1. Requests(m, L)'
    BY <1>1, <1>4, <1>6, RequestStays
  <2>2. Requests(req, L)'
    BY <1>2, <2>1 DEF Requests
  <2>3. rep' = <<>> /\ Len(<<>>) = 0 /\ DOMAIN <<>> = {}
    BY <1>1, <1>3
  <2>4. Answers(rep, L)'
    BY <2>3 DEF Answers
  <2>5. Handled(L, Len(rep))'
    BY <2>3, SMT DEF Handled
  <2>6. Len(rep') <= Len(L)
    <3>1. L \in Seq(ByHand)
      BY <1>6, AskedWords DEF Requests
    <3> QED
      BY <2>3, <3>1
  <2> QED
    BY <1>1, <1>3, <2>2, <2>4, <2>5, <2>6 DEF LoopInv, Handling
<1>8. Messages'
  <2>1. \A k \in inbox' : \E K \in Lists : Requests(k, K)'
    BY <1>1, <1>2, <1>4, RequestStays DEF LoopInv, Messages
  <2>2. \A k \in outbox' : Replies(k)'
    BY <1>1, <1>4, ReplyStays DEF LoopInv, Messages
  <2> QED
    BY <2>1, <2>2 DEF Messages
<1>9. OnePlace'
  <2>1. Busy' = Busy /\ OnePlace
    BY <1>1 DEF Busy, LoopInv
  <2>2. inbox' \subseteq inbox /\ m \notin inbox' /\ req' = m /\ outbox' = outbox /\ lost' = lost
    BY <1>1, <1>2
  <2>3. m.from \in Clients => /\ m.from \in Busy \ lost
                              /\ \A k \in inbox : k.from = m.from => k = m
                              /\ \A k \in outbox : k.from # m.from
    BY <2>1 DEF OnePlace
  <2>4. \A k \in outbox : k.from \in Clients
    BY DEF LoopInv, Messages, Replies, Busy
  <2> QED
    BY <2>1, <2>2, <2>3, <2>4 DEF OnePlace
<1> QED
  BY <1>4, <1>5, <1>7, <1>8, <1>9 DEF LoopInv

LEMMA WordInHand ==
  ASSUME LoopInv, pc = "words", Len(rep) < Len(req.words)
  PROVE  \E L \in Lists :
           /\ Requests(req, L) /\ Asked(L) /\ Answers(rep, L) /\ Handled(L, Len(rep))
           /\ Len(rep) \in Nat /\ Len(rep) + 1 \in 1 .. Len(L)
           /\ L[Len(rep) + 1] \in ByHand /\ NextWord = format_word(L[Len(rep) + 1])
<1>1. PICK L \in Lists : /\ Requests(req, L) /\ Len(rep) <= Len(L)
                         /\ Answers(rep, L) /\ Handled(L, Len(rep))
  BY DEF LoopInv, Handling
<1>2. Asked(L) /\ req.words = Formatted(L)
  BY <1>1 DEF Requests
<1>3. L \in Seq(ByHand) /\ Len(Formatted(L)) = Len(L)
  BY <1>2, AskedWords
<1>4. Len(rep) \in Nat /\ Len(L) \in Nat
  BY <1>3 DEF LoopInv, Handling
<1>5. Len(rep) + 1 \in 1 .. Len(L)
  BY <1>2, <1>3, <1>4, SMT
<1>6. L[Len(rep) + 1] \in ByHand /\ Formatted(L)[Len(rep) + 1] = format_word(L[Len(rep) + 1])
  BY <1>2, <1>5, AskedWords
<1> QED
  BY <1>1, <1>2, <1>4, <1>5, <1>6 DEF NextWord

LEMMA AnswerStep ==
  ASSUME LoopInv, pc = "words", NEW L \in Lists, Requests(req, L), Answers(rep, L),
         NEW k, k = Len(rep) + 1, k \in 1 .. Len(L), NEW b \in Bytes, Answer(b),
         KeepsSupply, Power', regs' \in [Registers -> Values], faults' \in 0 .. MAX_FAULTS,
         AnswerTo(b, L[k])', Handled(L, k)'
  PROVE  LoopInv'
<1>1. /\ rep' = Append(rep, b)
      /\ UNCHANGED <<pc, req, fill, client, inbox, outbox, lost, logged, cut, crashed, overlap, on, runs, timeouts>>
  BY DEF Answer, clientVars, historyVars
<1>2. CmdTypes'
  <2>1. \A c \in Clients : client'[c] # Idle => AsksItsOwn(c)'
    BY <1>1, AskingStays DEF LoopInv, CmdTypes
  <2> QED
    BY <1>1, <2>1 DEF LoopInv, CmdTypes
<1>3. rep \in Seq(Bytes) /\ rep' \in Seq(Bytes) /\ Len(rep') = k /\ Len(rep) \in Nat
  BY <1>1 DEF LoopInv, Handling
<1>4. Handling'
  <2>1. Requests(req, L)'
    BY <1>1, SafeStays DEF Requests
  <2>2. Answers(rep, L)'
    <3>1. ASSUME NEW i \in DOMAIN rep' PROVE AnswerTo(rep[i], L[i])'
      <4>1. CASE i = k
        <5>1. rep'[i] = b
          BY <4>1, <1>1, <1>3
        <5> QED
          BY <4>1, <5>1 DEF AnswerTo, Safe, EnabledTiles
      <4>2. CASE i # k
        <5>1. i \in DOMAIN rep /\ rep'[i] = rep[i]
          BY <4>2, <1>1, <1>3
        <5>2. AnswerTo(rep[i], L[i])
          BY <5>1 DEF Answers
        <5>3. \A e : Safe(e) => Safe(e)'
          BY SafeStays
        <5> QED
          BY <5>1, <5>2, <5>3 DEF AnswerTo, Safe, EnabledTiles
      <4> QED
        BY <4>1, <4>2
    <3> QED
      BY <3>1 DEF Answers
  <2>3. Handled(L, Len(rep))'
    BY <1>3 DEF Handled
  <2> QED
    BY <1>1, <1>3, <2>1, <2>2, <2>3 DEF LoopInv, Handling
<1>5. Messages'
  <2>1. \A m \in inbox' : \E K \in Lists : Requests(m, K)'
    BY <1>1, RequestStays DEF LoopInv, Messages
  <2>2. \A m \in outbox' : Replies(m)'
    BY <1>1, ReplyStays DEF LoopInv, Messages
  <2> QED
    BY <2>1, <2>2 DEF Messages
<1>6. OnePlace'
  BY <1>1 DEF LoopInv, OnePlace, Busy
<1> QED
  BY <1>2, <1>4, <1>5, <1>6 DEF LoopInv

\* A word of another type than WRITE was sent by hand, and changes no register.
LEMMA NotWritten ==
  ASSUME NEW L, Asked(L), NEW i \in 1 .. Len(L), L[i].type # WRITE
  PROVE  ByHandList(L) /\ MayBeSent(L[i]) /\ \A k : Handled(L, k)'
<1>1. \A a, b : Write(a, b).type = WRITE
  BY DEF Write, Word
<1>2. L # PowerDown
  <2>1. \A n \in 1 .. 2 : n = 1 \/ n = 2
    BY SMT
  <2> QED
    BY <1>1, <2>1, ScriptWords
<1>3. \A t \in Tiles, e \in Enables : L # PowerUp(t, e)
  <2>1. \A n \in 1 .. 4 : n = 1 \/ n = 2 \/ n = 3 \/ n = 4
    BY SMT
  <2> QED
    BY <1>1, <2>1, ScriptWords
<1>4. ByHandList(L)
  BY <1>2, <1>3 DEF Asked, SafeUp
<1>5. MayBeSent(L[i])
  BY <1>4 DEF ByHandList
<1> QED
  BY <1>2, <1>3, <1>4, <1>5 DEF Handled

LEMMA ReplyMemory ==
  ASSUME LoopInv
  PROVE  ReplyWord \in Bytes
<1>1. fill \in 0 .. 255
  BY CmdServerAssumption DEF LoopInv, CmdTypes
<1> QED
  BY <1>1, BytesOfWord DEF ReplyWord

\* A word that changes no register is answered.
LEMMA QuietStep ==
  ASSUME LoopInv, pc = "words", NEW L \in Lists, Requests(req, L), Answers(rep, L),
         NEW k, k = Len(rep) + 1, k \in 1 .. Len(L), NEW b \in Bytes, Answer(b),
         UNCHANGED <<regs, faults>>, L[k].type # WRITE, AnswerTo(b, L[k])
  PROVE  LoopInv'
<1>1. KeepsSupply /\ Power'
  BY SupplyUnchanged DEF LoopInv
<1>2. Handled(L, k)'
  BY NotWritten DEF Requests
<1>3. AnswerTo(b, L[k])'
  BY <1>1, SafeStays
<1>4. regs' \in [Registers -> Values] /\ faults' \in 0 .. MAX_FAULTS
  BY DEF LoopInv, CmdTypes
<1> QED
  BY <1>1, <1>2, <1>3, <1>4, AnswerStep

LEMMA PingStep ==
  ASSUME LoopInv, PingWord
  PROVE  LoopInv'
<1>1. pc = "words" /\ Len(rep) < Len(req.words) /\ get_word_type(NextWord) = PING
  BY DEF PingWord, HandlesWord
<1>2. PICK L \in Lists :
        /\ Requests(req, L) /\ Asked(L) /\ Answers(rep, L)
        /\ Len(rep) + 1 \in 1 .. Len(L)
        /\ L[Len(rep) + 1] \in ByHand /\ NextWord = format_word(L[Len(rep) + 1])
  BY <1>1, WordInHand
<1>3. PICK k : k = Len(rep) + 1
  OBVIOUS
<1>4. PICK b : b = set_rep_word_pong(ReplyWord)
  OBVIOUS
<1>5. L[k].type = PING
  BY <1>1, <1>2, <1>3, WordCarried
<1>6. b \in Bytes /\ parse_word(b) = Word(PING, 0, 0)
  <2>1. 0 \in Values /\ 0 \in 0 .. 255
    BY ValueBounds, SMT
  <2> QED
    BY <1>4, <2>1, ReplyMemory, AnswerParsed
<1>7. L[k].a = 0
  BY <1>2, <1>3, <1>5, NotWritten DEF PING, WRITE, MayBeSent
<1>8. AnswerTo(b, L[k])
  BY <1>5, <1>6, <1>7 DEF AnswerTo, Word, PING, WRITE, READ, DATA
<1>9. Answer(b) /\ UNCHANGED <<regs, faults>>
  BY <1>4 DEF PingWord
<1>10. L[k].type # WRITE /\ k \in 1 .. Len(L)
  BY <1>2, <1>3, <1>5 DEF PING, WRITE
<1> QED
  BY <1>1, <1>2, <1>3, <1>6, <1>8, <1>9, <1>10, QuietStep

LEMMA ReadStep ==
  ASSUME LoopInv, ReadWord
  PROVE  LoopInv'
<1>1. pc = "words" /\ Len(rep) < Len(req.words) /\ get_word_type(NextWord) = READ
  BY DEF ReadWord, HandlesWord
<1>2. PICK L \in Lists :
        /\ Requests(req, L) /\ Asked(L) /\ Answers(rep, L)
        /\ Len(rep) + 1 \in 1 .. Len(L)
        /\ L[Len(rep) + 1] \in ByHand /\ NextWord = format_word(L[Len(rep) + 1])
  BY <1>1, WordInHand
<1>3. PICK k : k = Len(rep) + 1
  OBVIOUS
<1>4. L[k].type = READ /\ get_req_word_reg(NextWord) = L[k].a
  BY <1>1, <1>2, <1>3, WordCarried
<1>5. PICK val : val = pacman_read(L[k].a)
  OBVIOUS
<1>6. PICK b : b = set_rep_word_reg(ReplyWord, READ, L[k].a, val)
  OBVIOUS
<1>7. L[k].a \in Registers
  BY <1>2, <1>3, <1>4, NotWritten DEF READ, WRITE, MayBeSent
<1>8. 0 \in Values /\ 0 \in 0 .. 255
  BY ValueBounds, SMT
<1>9. val \in Values /\ L[k].a \in Values
  BY <1>5, <1>7, <1>8, RegisterFacts DEF pacman_read, LoopInv, CmdTypes
<1>10. b \in Bytes /\ parse_word(b) = Word(READ, L[k].a, val)
  BY <1>6, <1>8, <1>9, ReplyMemory, AnswerParsed
<1>11. L[k] = Word(READ, TILE_EN, 0) => Safe(val)
  <2> SUFFICES ASSUME L[k] = Word(READ, TILE_EN, 0) PROVE Safe(val)
    OBVIOUS
  <2>1. L[k].a = TILE_EN
    BY DEF Word
  <2>2. val = regs[TILE_EN]
    BY <1>5, <2>1, RegisterFacts DEF pacman_read
  <2> QED
    BY <2>2 DEF LoopInv, Power
<1>12. AnswerTo(b, L[k])
  BY <1>4, <1>10, <1>11 DEF AnswerTo, Word, WRITE, READ, DATA
<1>13. Answer(b) /\ UNCHANGED <<regs, faults>>
  BY <1>4, <1>5, <1>6 DEF ReadWord
<1>14. L[k].type # WRITE /\ k \in 1 .. Len(L)
  BY <1>2, <1>3, <1>4 DEF READ, WRITE
<1> QED
  BY <1>1, <1>2, <1>3, <1>10, <1>12, <1>13, <1>14, QuietStep

LEMMA TxStep ==
  ASSUME LoopInv, TxWord
  PROVE  LoopInv'
<1>1. pc = "words" /\ Len(rep) < Len(req.words) /\ get_word_type(NextWord) = DATA
  BY DEF TxWord, HandlesWord
<1>2. PICK L \in Lists :
        /\ Requests(req, L) /\ Asked(L) /\ Answers(rep, L)
        /\ Len(rep) + 1 \in 1 .. Len(L)
        /\ L[Len(rep) + 1] \in ByHand /\ NextWord = format_word(L[Len(rep) + 1])
  BY <1>1, WordInHand
<1>3. PICK k : k = Len(rep) + 1
  OBVIOUS
<1>4. L[k].type = DATA
  BY <1>1, <1>2, <1>3, WordCarried
<1>5. L[k].a \in 0 .. 255
  <2>1. k \in 1 .. Len(L) /\ L[k].type # WRITE
    BY <1>2, <1>3, <1>4 DEF DATA, WRITE
  <2>2. MayBeSent(L[k])
    BY <1>2, <2>1, NotWritten
  <2> QED
    BY <1>4, <2>2, Zenon DEF MayBeSent
<1>6. get_req_word_tx_channel(NextWord) = L[k].a /\ get_req_word_tx_data(NextWord) = L[k].b
  <2>1. L[k] \in ByHand /\ NextWord = format_word(L[k])
    BY <1>2, <1>3
  <2>2. /\ get_req_word_tx_channel(format_word(L[k])) = L[k].a
        /\ get_req_word_tx_data(format_word(L[k])) = L[k].b
    BY <1>4, <1>5, <2>1, WordCarried, Zenon
  <2> QED
    BY <2>1, <2>2
<1>7. PICK b : b = set_rep_word_tx(ReplyWord, L[k].a, L[k].b)
  OBVIOUS
<1>8. b \in Bytes /\ parse_word(b) = Word(DATA, L[k].a, L[k].b)
  <2>1. 0 \in Values /\ L[k].b \in Values
    BY <1>2, <1>3, ValueBounds, SMT DEF ByHand
  <2> QED
    BY <1>5, <1>7, <2>1, ReplyMemory, AnswerParsed
<1>9. AnswerTo(b, L[k])
  BY <1>4, <1>8 DEF AnswerTo, Word, WRITE, READ, DATA
<1>10. Answer(b) /\ UNCHANGED <<regs, faults>>
  BY <1>6, <1>7 DEF TxWord
<1>11. L[k].type # WRITE /\ k \in 1 .. Len(L)
  BY <1>2, <1>3, <1>4 DEF DATA, WRITE
<1> QED
  BY <1>1, <1>2, <1>3, <1>8, <1>9, <1>10, <1>11, QuietStep

LEMMA WriteEffect ==
  ASSUME LoopInv, NEW reg \in Values, NEW val \in Values, pacman_write(reg, val)
  PROVE  /\ regs' \in [Registers -> Values] /\ faults' \in 0 .. MAX_FAULTS
         /\ faults' = 0 => faults = 0
         /\ \A r \in Registers \ {reg} : regs'[r] = regs[r]
         /\ reg \in Registers => regs'[reg] = val \/ (regs'[reg] = regs[reg] /\ faults' # 0)
         /\ reg \in Registers /\ reg < PACMAN_LEN => regs'[reg] = val
<1>1. regs \in [Registers -> Values] /\ faults \in 0 .. MAX_FAULTS
  BY DEF LoopInv, CmdTypes
<1>2. reg \in Nat /\ PACMAN_LEN \in Nat
  BY ValueBounds DEF PACMAN_LEN
<1>3. CASE regs' = [regs EXCEPT ![reg] = val] /\ faults' = faults
  BY <1>1, <1>3
<1>4. CASE reg >= PACMAN_LEN /\ faults < MAX_FAULTS /\ faults' = faults + 1 /\ regs' = regs
  <2>1. faults' \in 0 .. MAX_FAULTS /\ faults' # 0 /\ ~ (reg < PACMAN_LEN)
    BY <1>1, <1>2, <1>4, CmdServerAssumption, SMT
  <2> QED
    BY <1>1, <1>4, <2>1
<1> QED
  BY <1>3, <1>4 DEF pacman_write

(* The writes of a request, in their order: the voltages of a tile are set  *)
(* and the power is on before the tile is enabled, and the tiles are        *)
(* disabled before the power is off (power_up_tile.sh:29-33,                *)
(* power_down.sh:10-12).                                                    *)
LEMMA WriteHandled ==
  ASSUME LoopInv, NEW L, Asked(L), NEW n \in Nat, Handled(L, n), NEW k \in 1 .. Len(L), k = n + 1,
         L[k].type = WRITE, pacman_write(L[k].a, L[k].b)
  PROVE  KeepsSupply /\ Power' /\ Handled(L, k)'
<1> DEFINE reg == L[k].a  val == L[k].b
<1>1. reg \in Values /\ val \in Values
  BY AskedWords DEF ByHand
<1>2. /\ regs' \in [Registers -> Values] /\ (faults' = 0 => faults = 0)
      /\ \A r \in Registers \ {reg} : regs'[r] = regs[r]
      /\ reg \in Registers => regs'[reg] = val \/ (regs'[reg] = regs[reg] /\ faults' # 0)
      /\ reg \in Registers /\ reg < PACMAN_LEN => regs'[reg] = val
  BY <1>1, WriteEffect
<1>3. \A a, v : Write(a, v).a = a /\ Write(a, v).b = v
  BY DEF Write, Word
<1>4. PICK old : old = regs[TILE_EN]
  OBVIOUS
<1>5. Safe(old) /\ (EnabledTiles(old) # {} => regs[PWR_EN] = 1)
  BY <1>4 DEF LoopInv, Power
<1>6. \A e : KeepsSupply /\ Safe(e) => Safe(e)'
  BY SafeStays
<1>7. ASSUME KeepsSupply, regs'[TILE_EN] = old, EnabledTiles(old) # {} => regs'[PWR_EN] = 1
      PROVE  Power'
  <2>1. Safe(old)'
    BY <1>5, <1>6, <1>7
  <2>2. Safe(regs[TILE_EN])'
    BY <1>7, <2>1 DEF Safe, EnabledTiles
  <2>3. EnabledTiles(regs'[TILE_EN]) # {} => regs'[PWR_EN] = 1
    BY <1>7
  <2> QED
    BY <2>2, <2>3 DEF Power, EnabledTiles
<1>8. ASSUME regs'[TILE_EN] = 0
      PROVE  Power'
  <2>1. 0 \in Enables
    BY SMT DEF Enables
  <2> QED
    BY <1>8, <2>1, NoTiles DEF Power, Safe, EnabledTiles
<1>9. CASE ByHandList(L)
  <2>1. reg \notin Registers
    BY <1>9 DEF ByHandList, MayBeSent
  <2>2. \A r \in Registers : regs'[r] = regs[r]
    BY <1>2, <2>1
  <2>3. KeepsSupply
    BY <1>2, <2>2, RegisterFacts DEF KeepsSupply, Supplied
  <2>4. Power'
    BY <1>4, <1>5, <1>7, <2>2, <2>3, RegisterFacts
  <2>5. Handled(L, k)'
    BY <1>9, ListsDiffer DEF Handled
  <2> QED
    BY <2>3, <2>4, <2>5
<1>10. CASE L = PowerDown
  <2>1. k = 1 \/ k = 2
    BY <1>10, ScriptWords, SMT
  <2>2. CASE k = 1
    <3>1. reg = TILE_EN /\ val = 0
      BY <1>3, <1>10, <2>2, ScriptWords
    <3>2. regs'[TILE_EN] = 0 /\ \A r \in Registers \ {TILE_EN} : regs'[r] = regs[r]
      BY <1>2, <3>1, RegisterFacts
    <3>3. KeepsSupply
      BY <1>2, <3>2, RegisterFacts DEF KeepsSupply, Supplied
    <3>4. Handled(L, k)'
      BY <1>10, <3>2, ListsDiffer DEF Handled
    <3> QED
      BY <1>8, <3>2, <3>3, <3>4
  <2>3. CASE k = 2
    <3>1. reg = PWR_EN /\ val = 0
      BY <1>3, <1>10, <2>3, ScriptWords
    <3>2. \A r \in Registers \ {PWR_EN} : regs'[r] = regs[r]
      BY <1>2, <3>1
    <3>3. KeepsSupply
      BY <1>2, <3>2, RegisterFacts DEF KeepsSupply, Supplied
    <3>4. regs[TILE_EN] = 0
      BY <1>10, <2>3 DEF Handled
    <3>5. regs'[TILE_EN] = 0
      BY <3>2, <3>4, RegisterFacts
    <3>6. Handled(L, k)'
      BY <1>10, <3>5, ListsDiffer DEF Handled
    <3> QED
      BY <1>8, <3>3, <3>5, <3>6
  <2> QED
    BY <2>1, <2>2, <2>3
<1>11. ASSUME NEW t \in Tiles, SafeUp(L, t)
       PROVE  KeepsSupply /\ Power' /\ Handled(L, k)'
  <2>1. PICK e \in Enables : Safe(e) /\ L = PowerUp(t, e)
    BY <1>11 DEF SafeUp
  <2>2. k = 1 \/ k = 2 \/ k = 3 \/ k = 4
    BY <2>1, ScriptWords, SMT
  <2>3. /\ faults = 0 /\ n >= 1 => regs[VDDA(t)] = DAC_VALUE
        /\ faults = 0 /\ n >= 2 => regs[VDDD(t)] = DAC_VALUE
        /\ n >= 3 => regs[PWR_EN] = 1
    BY <2>1 DEF Handled
  <2>4. ASSUME /\ faults' = 0 /\ k >= 1 => regs'[VDDA(t)] = DAC_VALUE
               /\ faults' = 0 /\ k >= 2 => regs'[VDDD(t)] = DAC_VALUE
               /\ k >= 3 => regs'[PWR_EN] = 1
        PROVE  Handled(L, k)'
    <3>1. L # PowerDown /\ \A s \in Tiles, d \in Enables : L = PowerUp(s, d) => s = t
      BY <2>1, ListsDiffer
    <3> QED
      BY <2>4, <3>1 DEF Handled
  <2>5. CASE k = 1
    <3>1. reg = VDDA(t) /\ val = DAC_VALUE /\ reg \in Registers
      BY <1>3, <2>1, <2>5, ScriptWords, RegisterFacts
    <3>2. faults' = 0 => regs'[VDDA(t)] = DAC_VALUE
      BY <1>2, <3>1
    <3>3. KeepsSupply
      BY <1>2, <3>1, <3>2, RegisterFacts DEF KeepsSupply, Supplied
    <3>4. regs'[TILE_EN] = old /\ regs'[PWR_EN] = regs[PWR_EN]
      BY <1>2, <1>4, <3>1, RegisterFacts
    <3>5. Power'
      BY <1>5, <1>7, <3>3, <3>4
    <3>6. Handled(L, k)'
      BY <2>4, <2>5, <3>2
    <3> QED
      BY <3>3, <3>5, <3>6
  <2>6. CASE k = 2
    <3>1. reg = VDDD(t) /\ val = DAC_VALUE /\ reg \in Registers
      BY <1>3, <2>1, <2>6, ScriptWords, RegisterFacts
    <3>2. faults' = 0 => regs'[VDDD(t)] = DAC_VALUE
      BY <1>2, <3>1
    <3>3. KeepsSupply
      BY <1>2, <3>1, <3>2, RegisterFacts DEF KeepsSupply, Supplied
    <3>4. regs'[TILE_EN] = old /\ regs'[PWR_EN] = regs[PWR_EN] /\ regs'[VDDA(t)] = regs[VDDA(t)]
      BY <1>2, <1>4, <3>1, RegisterFacts
    <3>5. Power'
      BY <1>5, <1>7, <3>3, <3>4
    <3>6. faults' = 0 => regs'[VDDA(t)] = DAC_VALUE
      BY <1>2, <2>3, <2>6, <3>4
    <3>7. Handled(L, k)'
      BY <2>4, <2>6, <3>2, <3>6
    <3> QED
      BY <3>3, <3>5, <3>7
  <2>7. CASE k = 3
    <3>1. reg = PWR_EN /\ val = 1
      BY <1>3, <2>1, <2>7, ScriptWords
    <3>2. regs'[PWR_EN] = 1 /\ \A r \in Registers \ {PWR_EN} : regs'[r] = regs[r]
      BY <1>2, <3>1, RegisterFacts
    <3>3. KeepsSupply
      BY <1>2, <3>2, RegisterFacts DEF KeepsSupply, Supplied
    <3>4. Power'
      BY <1>4, <1>7, <3>2, <3>3, RegisterFacts
    <3>5. faults' = 0 => regs'[VDDA(t)] = DAC_VALUE /\ regs'[VDDD(t)] = DAC_VALUE
      BY <1>2, <2>3, <2>7, <3>2, RegisterFacts
    <3>6. Handled(L, k)'
      BY <2>4, <3>2, <3>5
    <3> QED
      BY <3>3, <3>4, <3>6
  <2>8. CASE k = 4
    <3>1. reg = TILE_EN /\ val = WithTile(e, t)
      BY <1>3, <2>1, <2>8, ScriptWords
    <3>2. regs'[TILE_EN] = WithTile(e, t) /\ \A r \in Registers \ {TILE_EN} : regs'[r] = regs[r]
      BY <1>2, <3>1, RegisterFacts
    <3>3. KeepsSupply
      BY <1>2, <3>2, RegisterFacts DEF KeepsSupply, Supplied
    <3>4. regs'[PWR_EN] = 1
      BY <2>3, <2>8, <3>2, RegisterFacts
    <3>5. faults' = 0 => regs'[VDDA(t)] = DAC_VALUE /\ regs'[VDDD(t)] = DAC_VALUE
      BY <1>2, <2>3, <2>8, <3>2, RegisterFacts
    <3>6. WithTile(e, t) \in Enables /\ EnabledTiles(WithTile(e, t)) = EnabledTiles(e) \cup {t}
      BY <2>1, TileAdded
    <3>7. Safe(WithTile(e, t))'
      <4>1. Safe(e)'
        BY <1>6, <2>1, <3>3
      <4>2. faults' = 0 => Supplied(t)'
        BY <3>5 DEF Supplied
      <4>3. \A d : EnabledTiles(d)' = EnabledTiles(d)
        BY DEF EnabledTiles
      <4> QED
        BY <3>6, <4>1, <4>2, <4>3 DEF Safe
    <3>8. Power'
      BY <3>2, <3>4, <3>7 DEF Power, Safe, EnabledTiles
    <3>9. Handled(L, k)'
      BY <2>4, <3>4, <3>5
    <3> QED
      BY <3>3, <3>8, <3>9
  <2> QED
    BY <2>2, <2>5, <2>6, <2>7, <2>8
<1> QED
  BY <1>9, <1>10, <1>11 DEF Asked

LEMMA WriteStep ==
  ASSUME LoopInv, WriteWord
  PROVE  LoopInv'
<1>1. pc = "words" /\ Len(rep) < Len(req.words) /\ get_word_type(NextWord) = WRITE
  BY DEF WriteWord, HandlesWord
<1>2. PICK L \in Lists :
        /\ Requests(req, L) /\ Asked(L) /\ Answers(rep, L) /\ Handled(L, Len(rep))
        /\ Len(rep) \in Nat /\ Len(rep) + 1 \in 1 .. Len(L)
        /\ L[Len(rep) + 1] \in ByHand /\ NextWord = format_word(L[Len(rep) + 1])
  BY <1>1, WordInHand
<1>3. PICK k : k = Len(rep) + 1
  OBVIOUS
<1>4. k \in 1 .. Len(L) /\ L[k] \in ByHand /\ NextWord = format_word(L[k])
  BY <1>2, <1>3
<1>5. L[k].type = WRITE /\ get_req_word_reg(NextWord) = L[k].a /\ get_req_word_write_val(NextWord) = L[k].b
  BY <1>1, <1>4, WordCarried
<1>6. PICK b : b = set_rep_word_reg(ReplyWord, WRITE, L[k].a, L[k].b)
  OBVIOUS
<1>7. L[k].a \in Values /\ L[k].b \in Values
  BY <1>4 DEF ByHand
<1>8. b \in Bytes /\ parse_word(b) = Word(WRITE, L[k].a, L[k].b)
  <2>1. 0 \in 0 .. 255
    BY SMT
  <2> QED
    BY <1>6, <1>7, <2>1, ReplyMemory, AnswerParsed
<1>9. Answer(b) /\ pacman_write(L[k].a, L[k].b)
  BY <1>5, <1>6 DEF WriteWord
<1>10. KeepsSupply /\ Power' /\ Handled(L, k)'
  BY <1>2, <1>3, <1>4, <1>5, <1>9, WriteHandled
<1>11. regs' \in [Registers -> Values] /\ faults' \in 0 .. MAX_FAULTS
  BY <1>7, <1>9, WriteEffect
<1>12. AnswerTo(b, L[k])'
  <2>1. L[k] # Word(READ, TILE_EN, 0)
    BY <1>5 DEF Word, WRITE, READ
  <2> QED
    BY <1>5, <1>8, <2>1 DEF AnswerTo, Word
<1> QED
  BY <1>1, <1>2, <1>3, <1>4, <1>8, <1>9, <1>10, <1>11, <1>12, AnswerStep

\* The registers that result from a log are registers.
LEMMA LogRegisters ==
  ASSUME NEW before \in [Registers -> Values], NEW L, Asked(L)
  PROVE  LogOf(Formatted(L), before) \in [Registers -> Values]
<1> DEFINE parsed == {<<i, parse_word(Formatted(L)[i])>> : i \in DOMAIN Formatted(L)}
           entries == {e \in parsed : e[2].type = WRITE}
           last(reg) == {e \in entries : /\ e[2].a = reg
                                         /\ \A f \in entries : f[2].a = reg => f[1] <= e[1]}
<1>1. \A e \in entries : e[2].b \in Values
  <2> SUFFICES ASSUME NEW i \in DOMAIN Formatted(L), parse_word(Formatted(L)[i]).type = WRITE
               PROVE  parse_word(Formatted(L)[i]).b \in Values
    OBVIOUS
  <2>1. i \in 1 .. Len(L) /\ L[i] \in ByHand /\ Formatted(L)[i] = format_word(L[i])
    BY AskedWords
  <2>2. L[i].type = WRITE /\ parse_word(Formatted(L)[i]) = Word(L[i].type, L[i].a, L[i].b)
    BY <2>1, WordCarried
  <2> QED
    BY <2>1, <2>2 DEF Word, ByHand
<1>2. LogOf(Formatted(L), before) =
        [reg \in Registers |-> IF last(reg) = {} THEN before[reg] ELSE (CHOOSE e \in last(reg) : TRUE)[2].b]
  BY Zenon DEF LogOf
<1>3. \A reg : last(reg) \subseteq entries
  OBVIOUS
<1> HIDE DEF last, entries
<1>4. \A reg \in Registers : last(reg) # {} => (CHOOSE e \in last(reg) : TRUE)[2].b \in Values
  BY <1>1, <1>3
<1> QED
  BY <1>2, <1>4

LEMMA EchoStep ==
  ASSUME LoopInv, EchoRequest
  PROVE  LoopInv'
<1>1. /\ pc = "words" /\ pc' = "reply" /\ Len(rep) = Len(req.words) /\ logged' = LogOf(req.words, logged)
      /\ UNCHANGED <<req, rep, fill, regs, client, inbox, outbox, lost, cut, crashed, overlap, on,
                     runs, timeouts, faults>>
  BY DEF EchoRequest, clientVars, historyVars
<1>2. KeepsSupply /\ Power' /\ \A K, k : Handled(K, k) => Handled(K, k)'
  BY <1>1, SupplyUnchanged DEF LoopInv
<1>3. PICK L \in Lists : /\ Requests(req, L) /\ Len(rep) <= Len(L)
                         /\ Answers(rep, L) /\ Handled(L, Len(rep))
  BY <1>1 DEF LoopInv, Handling
<1>4. CmdTypes'
  <2>1. \A c \in Clients : client'[c] # Idle => AsksItsOwn(c)'
    BY <1>1, <1>2, AskingStays DEF LoopInv, CmdTypes
  <2>2. logged' \in [Registers -> Values]
    BY <1>1, <1>3, LogRegisters DEF LoopInv, CmdTypes, Requests
  <2> QED
    BY <1>1, <2>1, <2>2 DEF LoopInv, CmdTypes
<1>5. Handling'
  <2>1. Requests(req, L)'
    BY <1>1, <1>2, <1>3, SafeStays DEF Requests
  <2>2. \A K : Answers(rep, K) => Answers(rep, K)'
    BY <1>1, <1>2, SafeStays DEF Answers
  <2>3. Handled(L, Len(rep))'
    BY <1>1, <1>2, <1>3 DEF Handled
  <2> QED
    BY <1>1, <1>3, <2>1, <2>2, <2>3 DEF LoopInv, Handling
<1>6. Messages'
  <2>1. \A m \in inbox' : \E K \in Lists : Requests(m, K)'
    BY <1>1, <1>2, RequestStays DEF LoopInv, Messages
  <2>2. \A m \in outbox' : Replies(m)'
    BY <1>1, <1>2, ReplyStays DEF LoopInv, Messages
  <2> QED
    BY <2>1, <2>2 DEF Messages
<1>7. OnePlace'
  BY <1>1 DEF LoopInv, OnePlace, Busy
<1> QED
  BY <1>2, <1>4, <1>5, <1>6, <1>7 DEF LoopInv

\* The server is ready for the next request.
LEMMA Cleared ==
  ASSUME req' = NoRequest, rep' = <<>>, pc' = "recv"
  PROVE  Handling' /\ req'.from \notin Clients
BY NumberedClients DEF Handling, NoRequest

LEMMA ReplySent ==
  ASSUME LoopInv, Reply
  PROVE  LoopInv'
<1>1. /\ pc = "reply" /\ pc' = "recv" /\ req' = NoRequest /\ rep' = <<>> /\ fill' = 0
      /\ outbox' = outbox \cup {[from |-> c, words |-> rep] : c \in Clients \cap {req.from}}
      /\ UNCHANGED <<regs, client, inbox, lost, logged, cut, crashed, overlap, on, runs, timeouts, faults>>
  BY DEF Reply, historyVars
<1>2. KeepsSupply /\ Power'
  BY <1>1, SupplyUnchanged DEF LoopInv
<1>3. PICK L \in Lists : Requests(req, L) /\ Answers(rep, L)
  BY <1>1 DEF LoopInv, Handling
<1>4. CmdTypes'
  <2>1. \A c \in Clients : client'[c] # Idle => AsksItsOwn(c)'
    BY <1>1, <1>2, AskingStays DEF LoopInv, CmdTypes
  <2> QED
    BY <1>1, <2>1 DEF LoopInv, CmdTypes
<1>5. Handling' /\ req'.from \notin Clients
  BY <1>1, Cleared
<1>r. PICK r : r = [from |-> req.from, words |-> rep]
  OBVIOUS
<1>6. \A m \in outbox' : m \in outbox \/ (m = r /\ req.from \in Clients)
  BY <1>1, <1>r
<1>7. OnePlace /\ (req.from \in Clients => req.from \in Busy \ lost)
  BY DEF LoopInv, OnePlace
<1>8. Messages'
  <2>1. \A m \in inbox' : \E K \in Lists : Requests(m, K)'
    BY <1>1, <1>2, RequestStays DEF LoopInv, Messages
  <2>2. \A m \in outbox : Replies(m)'
    BY <1>1, <1>2, ReplyStays DEF LoopInv, Messages
  <2>3. ASSUME req.from \in Clients PROVE Replies(r)'
    <3>1. Replies(r)
      <4>1. Len(rep) = Len(req.words) /\ rep \in Seq(Bytes)
        BY <1>1 DEF LoopInv, Handling
      <4>2. Len(req.words) = Len(L) /\ client[req.from].sent = L
        BY <1>3, <2>3, AskedWords DEF Requests
      <4> QED
        BY <1>3, <1>7, <1>r, <2>3, <4>1, <4>2 DEF Replies
    <3> QED
      BY <1>1, <1>2, <3>1, ReplyStays
  <2> QED
    BY <1>6, <2>1, <2>2, <2>3 DEF Messages
<1>9. OnePlace'
  <2>1. Busy' = Busy /\ inbox' = inbox /\ lost' = lost
    BY <1>1 DEF Busy
  <2>2. r.from = req.from
    BY <1>r
  <2>3. \A m \in outbox : m.from \in Clients
    BY DEF LoopInv, Messages, Replies, Busy
  <2>4. \A m \in outbox' : m.from \in Clients /\ m.from \notin lost
    BY <1>6, <1>7, <2>2, <2>3 DEF OnePlace
  <2>5. \A m \in outbox' : \A n \in outbox' : n.from = m.from => n = m
    BY <1>6, <1>7, <2>2 DEF OnePlace
  <2>6. \A m \in inbox : m.from \in Clients => \A n \in outbox' : n.from # m.from
    BY <1>6, <1>7, <2>2 DEF OnePlace
  <2> QED
    BY <1>5, <1>7, <2>1, <2>4, <2>5, <2>6 DEF OnePlace
<1> QED
  BY <1>2, <1>4, <1>5, <1>8, <1>9 DEF LoopInv

LEMMA LosesStep ==
  ASSUME LoopInv, NEW p \in Procs, LosesMessages(p), crashed' \in BOOLEAN
  PROVE  LoopInv'
<1>1. /\ inbox' \subseteq inbox /\ outbox' \subseteq outbox
      /\ UNCHANGED <<regs, client, logged, overlap, on, runs, timeouts, faults>>
  BY DEF LosesMessages, historyVars
<1>2. \/ pc' = "recv" /\ req' = NoRequest /\ rep' = <<>> /\ fill' = 0 /\ cut' \in BOOLEAN
      \/ UNCHANGED <<pc, req, rep, fill, cut>>
  BY DEF LosesMessages, serverVars, LoopInv, CmdTypes
<1>3. KeepsSupply /\ Power'
  BY <1>1, SupplyUnchanged DEF LoopInv
<1>4. CmdTypes'
  <2>1. \A c \in Clients : client'[c] # Idle => AsksItsOwn(c)'
    BY <1>1, <1>3, AskingStays DEF LoopInv, CmdTypes
  <2> QED
    BY <1>1, <1>2, <2>1 DEF LoopInv, CmdTypes
<1>5. Handling'
  <2>1. CASE UNCHANGED <<pc, req, rep, fill, cut>>
    BY <1>1, <2>1, HandlingStays DEF LoopInv, serverVars
  <2>2. CASE pc' = "recv" /\ req' = NoRequest /\ rep' = <<>>
    BY <2>2, Cleared
  <2> QED
    BY <1>2, <2>1, <2>2
<1>6. Messages'
  <2>1. \A m \in inbox' : \E K \in Lists : Requests(m, K)'
    BY <1>1, <1>3, RequestStays DEF LoopInv, Messages
  <2>2. \A m \in outbox' : Replies(m)'
    BY <1>1, <1>3, ReplyStays DEF LoopInv, Messages
  <2> QED
    BY <2>1, <2>2 DEF Messages
<1>7. OnePlace'
  <2> DEFINE gone == (inbox \ inbox') \cup (outbox \ outbox')
                       \cup (IF stage[p] = "serve" THEN {req} ELSE {})
  <2>1. lost' = lost \cup {c \in Clients : \E m \in gone : m.from = c}
    BY DEF LosesMessages
  <2>2. stage[p] # "serve" => req' = req
    BY DEF LosesMessages, serverVars
  <2>3. stage[p] = "serve" => req'.from \notin Clients
    BY Cleared DEF LosesMessages
  <2>4. OnePlace /\ Busy' = Busy
    BY <1>1 DEF LoopInv, Busy
  <2>5. \A m \in outbox : m.from \in Clients /\ m.from \in Busy
    BY DEF LoopInv, Messages, Replies, Busy
  <2>6. \A m \in gone : \/ m \in inbox /\ m \notin inbox'
                        \/ m \in outbox /\ m \notin outbox'
                        \/ m = req /\ stage[p] = "serve"
    OBVIOUS
  <2> HIDE DEF gone
  <2>7. \A m \in gone : m.from \in Clients =>
          /\ m.from \in Busy
          /\ \A n \in inbox' : n.from # m.from
          /\ req'.from # m.from
          /\ \A n \in outbox' : n.from # m.from
    <3> SUFFICES ASSUME NEW m \in gone, m.from \in Clients
                 PROVE  /\ m.from \in Busy
                        /\ \A n \in inbox' : n.from # m.from
                        /\ req'.from # m.from
                        /\ \A n \in outbox' : n.from # m.from
      OBVIOUS
    <3>1. CASE m \in inbox /\ m \notin inbox'
      BY <1>1, <2>2, <2>3, <2>4, <3>1 DEF OnePlace
    <3>2. CASE m \in outbox /\ m \notin outbox'
      BY <1>1, <2>2, <2>3, <2>4, <2>5, <3>2 DEF OnePlace
    <3>3. CASE m = req /\ stage[p] = "serve"
      BY <1>1, <2>3, <2>4, <3>3 DEF OnePlace
    <3> QED
      BY <2>6, <3>1, <3>2, <3>3
  <2>8. lost' \subseteq Busy'
    BY <2>1, <2>4, <2>7 DEF OnePlace
  <2>9. \A m \in inbox' : m.from \in Clients =>
          /\ m.from \in Busy' \ lost' /\ m.from # req'.from
          /\ \A n \in inbox' : n.from = m.from => n = m
          /\ \A n \in outbox' : n.from # m.from
    BY <1>1, <2>1, <2>2, <2>3, <2>4, <2>7 DEF OnePlace
  <2>10. req'.from \in Clients => req'.from \in Busy' \ lost'
    BY <2>1, <2>2, <2>3, <2>4, <2>7 DEF OnePlace
  <2>11. \A m \in outbox' : /\ m.from \notin lost' /\ m.from # req'.from
                            /\ \A n \in outbox' : n.from = m.from => n = m
    BY <1>1, <2>1, <2>2, <2>3, <2>4, <2>5, <2>7 DEF OnePlace
  <2> QED
    BY <2>8, <2>9, <2>10, <2>11 DEF OnePlace
<1> QED
  BY <1>3, <1>4, <1>5, <1>6, <1>7 DEF LoopInv

-----------------------------------------------------------------------------
(* The invariant holds in every state.                                      *)

LEMMA LoopIdles ==
  ASSUME LoopInv, UNCHANGED <<serverVars, regs, clientVars, logged, cut, crashed, historyVars, faults>>
  PROVE  LoopInv'
<1>1. UNCHANGED <<pc, req, rep, fill, regs, client, inbox, outbox, lost, logged, cut, crashed, overlap, on,
                  runs, timeouts, faults>>
  BY DEF serverVars, clientVars, historyVars
<1>2. KeepsSupply /\ Power'
  BY <1>1, SupplyUnchanged DEF LoopInv
<1>3. CmdTypes'
  <2>1. \A c \in Clients : client'[c] # Idle => AsksItsOwn(c)'
    BY <1>1, <1>2, AskingStays DEF LoopInv, CmdTypes
  <2> QED
    BY <1>1, <2>1 DEF LoopInv, CmdTypes
<1>4. Handling'
  BY <1>1, HandlingStays DEF LoopInv, serverVars
<1>5. Messages'
  <2>1. \A m \in inbox' : \E K \in Lists : Requests(m, K)'
    BY <1>1, <1>2, RequestStays DEF LoopInv, Messages
  <2>2. \A m \in outbox' : Replies(m)'
    BY <1>1, <1>2, ReplyStays DEF LoopInv, Messages
  <2> QED
    BY <2>1, <2>2 DEF Messages
<1>6. OnePlace'
  BY <1>1 DEF LoopInv, OnePlace, Busy
<1> QED
  BY <1>2, <1>3, <1>4, <1>5, <1>6 DEF LoopInv

LEMMA EndsStep ==
  ASSUME LifeInv, NEW p \in Procs, Ends(p), UNCHANGED <<script, wanted, raced, ops>>
  PROVE  LifeInv'
BY EndsPreserves DEF LifeInv, LifeTypeOK

LEMMA CmdInit == Init => CmdInv
<1> SUFFICES ASSUME Init PROVE CmdInv
  OBVIOUS
<1>1. LifeInit => LifeInv
  <2> SUFFICES ASSUME LifeInit PROVE LifeInv
    OBVIOUS
  <2>1. signalled \subseteq Procs /\ script \in {"none", "launch"} /\ wanted \in BOOLEAN /\ raced \in BOOLEAN
    BY DEF LifeInit
  <2>2. bound \in [Procs -> 0 .. NPorts] /\ ops \in 0 .. MAX_OPS
    BY LifecycleAssumption DEF LifeInit
  <2>3. stage \in [Procs -> {"none", "bind", "init", "serve"}]
    BY DEF LifeInit
  <2>4. PortsHeld /\ OneHolder
    BY DEF LifeInit, PortsHeld, OneHolder
  <2> QED
    BY <2>1, <2>2, <2>3, <2>4 DEF LifeInv, LifeTypeOK
<1>2. \A r \in Registers : regs[r] = 0
  BY DEF Init
<1>3. 0 \in Values /\ 0 \in Enables
  BY ValueBounds, SMT DEF Enables
<1>4. CmdTypes
  <2>1. Idle \in [job : Jobs \cup {SendJob(<<>>)}, sent : Seq(ByHand)]
    BY DEF Idle
  <2>2. client \in [Clients -> [job : Jobs \cup {SendJob(<<>>)}, sent : Seq(ByHand)]]
    BY <2>1 DEF Init
  <2>3. \A c \in Clients : client[c] = Idle
    BY DEF Init
  <2>4. regs \in [Registers -> Values] /\ logged \in [Registers -> Values]
    BY <1>3 DEF Init
  <2>5. runs \in 0 .. MAX_RUNS /\ timeouts \in 0 .. MAX_TIMEOUTS /\ faults \in 0 .. MAX_FAULTS
    BY CmdServerAssumption DEF Init
  <2>6. pc \in {"recv", "words", "reply"} /\ fill \in FILLS \cup {0} /\ on \subseteq Tiles
    BY DEF Init
  <2>7. cut \in BOOLEAN /\ crashed \in BOOLEAN /\ overlap \in BOOLEAN
    BY DEF Init
  <2> QED
    BY <2>2, <2>3, <2>4, <2>5, <2>6, <2>7 DEF CmdTypes
<1>5. Power
  BY <1>2, <1>3, NoTiles, RegisterFacts DEF Power, Safe
<1>6. Handling /\ Messages
  BY DEF Init, Handling, Messages
<1>7. OnePlace
  BY NumberedClients DEF Init, OnePlace, NoRequest
<1> QED
  BY <1>1, <1>4, <1>5, <1>6, <1>7 DEF CmdInv, LoopInv, Init

LEMMA CmdStep == CmdInv /\ [Next]_vars => CmdInv'
<1> SUFFICES ASSUME CmdInv, [Next]_vars PROVE CmdInv'
  OBVIOUS
<1> USE DEF CmdInv
<1>1. CASE Script
  <2>1. LifeInv'
    BY <1>1, LifeStep DEF Script, LifeNext
  <2> QED
    BY <1>1, <2>1, LoopIdles DEF Script
<1>2. ASSUME NEW p \in Procs, Process(p) PROVE CmdInv'
  <2>1. LifeInv'
    BY <1>2, LifeStep DEF Process, LifeNext, StartUp
  <2>2. CASE UNCHANGED <<serverVars, regs, clientVars, logged, cut, historyVars, faults>>
    BY <1>2, <2>1, <2>2, LoopIdles DEF Process
  <2>3. CASE LosesMessages(p)
    <3>1. crashed' \in BOOLEAN
      BY <1>2 DEF Process, LoopInv, CmdTypes
    <3> QED
      BY <2>1, <2>3, <3>1, LosesStep
  <2> QED
    BY <1>2, <2>2, <2>3 DEF Process
<1>3. ASSUME NEW p \in Procs, Killed(p) PROVE CmdInv'
  <2>1. LifeInv'
    BY <1>3, LifeStep DEF Killed, LifeNext
  <2>2. LosesMessages(p) /\ crashed' \in BOOLEAN
    BY <1>3 DEF Killed, LoopInv, CmdTypes
  <2> QED
    BY <2>1, <2>2, LosesStep
<1>4. CASE UnknownWord
  <2>1. PICK p \in Procs : Ends(p) /\ LosesMessages(p)
    BY <1>4 DEF UnknownWord
  <2>2. UNCHANGED <<script, wanted, raced, ops>> /\ crashed' \in BOOLEAN
    BY <1>4 DEF UnknownWord
  <2> QED
    BY <2>1, <2>2, EndsStep, LosesStep
<1>5. UNCHANGED lifeVars => LifeInv'
  BY LifeStep
<1>6. CASE Receive
  BY <1>5, <1>6, ReceiveStep DEF Receive
<1>7. CASE PingWord
  BY <1>5, <1>7, PingStep DEF PingWord, Answer
<1>8. CASE WriteWord
  BY <1>5, <1>8, WriteStep DEF WriteWord, Answer
<1>9. CASE ReadWord
  BY <1>5, <1>9, ReadStep DEF ReadWord, Answer
<1>10. CASE TxWord
  BY <1>5, <1>10, TxStep DEF TxWord, Answer
<1>11. CASE EchoRequest
  BY <1>5, <1>11, EchoStep DEF EchoRequest
<1>12. CASE Reply
  BY <1>5, <1>12, ReplySent DEF Reply
<1>13. ASSUME NEW c \in Clients, GetReply(c) PROVE CmdInv'
  BY <1>5, <1>13, GetReplyStep DEF GetReply
<1>14. ASSUME NEW c \in Clients, Timeout(c) PROVE CmdInv'
  BY <1>5, <1>14, TimeoutStep DEF Timeout
<1>15. ASSUME NEW c \in Clients, NEW job \in Jobs, Run(c, job) PROVE CmdInv'
  BY <1>5, <1>15, RunStep DEF Run
<1>16. CASE UNCHANGED vars
  BY <1>5, <1>16, LoopIdles DEF vars
<1> HIDE DEF CmdInv
<1>17. CASE Loop
  BY <1>4, <1>6, <1>7, <1>8, <1>9, <1>10, <1>11, <1>12, <1>17 DEF Loop, HandleWord
<1> QED
  BY <1>1, <1>2, <1>3, <1>13, <1>14, <1>15, <1>16, <1>17 DEF Next

(* The invariant: the registers are safe in every state that the requests   *)
(* under way, the one in hand and the replies can lead to, and a client's   *)
(* question is in one place at most (pacman_cmdserver.cc:75-161).           *)
THEOREM CmdInvariant == Spec => []CmdInv
  BY CmdInit, CmdStep, PTL DEF Spec

(* The types are right: every message is whole words, replies are for       *)
(* clients that wait, and only clients that wait have lost anything         *)
(* (pacman_cmdserver.cc:75-161, pacman_util.py:100-127).                    *)
THEOREM CmdTypesRight == Spec => []TypeOK
<1>1. CmdInv => TypeOK
  <2> SUFFICES ASSUME CmdInv PROVE TypeOK
    OBVIOUS
  <2>1. CmdTypes /\ LifeTypeOK
    BY DEF CmdInv, LoopInv, LifeInv
  <2>2. IsMessage(req) /\ Len(rep) <= Len(req.words)
    <3>1. CASE pc = "recv"
      <4>1. req = [from |-> 0, words |-> <<>>] /\ rep = <<>>
        BY <3>1 DEF CmdInv, LoopInv, Handling, NoRequest
      <4> QED
        BY <4>1 DEF IsMessage
    <3>2. CASE pc # "recv"
      <4>1. PICK L \in Lists : Requests(req, L) /\ Len(rep) <= Len(L)
        BY <3>2 DEF CmdInv, LoopInv, Handling
      <4>2. Len(req.words) = Len(L)
        BY <4>1, AskedWords DEF Requests
      <4> QED
        BY <4>1, <4>2 DEF Requests, IsMessage
    <3> QED
      BY <3>1, <3>2
  <2>3. \A i \in DOMAIN rep : rep[i] \in Bytes
    BY DEF CmdInv, LoopInv, Handling
  <2>4. \A m \in inbox : IsMessage(m)
    BY DEF CmdInv, LoopInv, Messages, Requests, IsMessage
  <2>5. \A m \in outbox : IsMessage(m) /\ m.from \in Busy
    <3> SUFFICES ASSUME NEW m \in outbox PROVE IsMessage(m) /\ m.from \in Busy
      OBVIOUS
    <3>1. m \in [from : Busy, words : Seq(Bytes)]
      BY DEF CmdInv, LoopInv, Messages, Replies
    <3>2. m.from \in Busy /\ m.from \in Int
      BY <3>1, NumberedClients DEF Busy
    <3>3. \A i \in DOMAIN m.words : m.words[i] \in Bytes
      BY <3>1
    <3> QED
      BY <3>2, <3>3 DEF IsMessage
  <2>6. lost \subseteq Busy
    BY DEF CmdInv, LoopInv, OnePlace
  <2>7. regs \in [Registers -> Nat] /\ logged \in [Registers -> Nat]
    BY <2>1, ValueBounds DEF CmdTypes
  <2>8. \A c \in Clients : client[c] = Idle \/ client[c].job \in Jobs
    BY <2>1 DEF CmdTypes, AsksItsOwn
  <2> QED
    BY <2>1, <2>2, <2>3, <2>4, <2>5, <2>6, <2>7, <2>8 DEF TypeOK, CmdTypes
<1> QED
  BY CmdInvariant, <1>1, PTL

(* At most one process works with the hardware, also as servers end of      *)
(* themselves or find their ports taken (pacman_cmdserver.cc:45-61).        *)
THEOREM OneServer == Spec => []ExclusiveHardware
<1>1. CmdInv => ExclusiveHardware
  BY OneHolderExcludes DEF CmdInv
<1> QED
  BY CmdInvariant, <1>1, PTL

(* No tile is enabled without its voltages and the power, through any       *)
(* number of scripts at a time, of requests handled after their clients     *)
(* gave up, and of servers killed between two words                         *)
(* (power_up_tile.sh:29-33, power_down.sh:10-12).                           *)
THEOREM PowerInOrder == Spec => []PowerOrder
<1>1. CmdInv => PowerOrder
  BY DEF CmdInv, LoopInv, Power, Safe, Supplied, PowerOrder
<1> QED
  BY CmdInvariant, <1>1, PTL

(* What a client parses is the answer to the words it sent, whatever was in *)
(* the memory of the reply and whoever has given up waiting before          *)
(* (message_format.cc:105-168, pacman_util.py:47-54).                       *)
THEOREM AnswersRight == Spec => []AnswersMatch
<1>1. CmdInv => AnswersMatch
  <2> SUFFICES ASSUME CmdInv, NEW m \in outbox
               PROVE  LET sent == client[m.from].sent IN
                      /\ Len(m.words) = Len(sent)
                      /\ \A i \in DOMAIN sent :
                           LET got == parse_word(m.words[i]) IN
                           /\ got.type = sent[i].type /\ got.a = sent[i].a
                           /\ got.type \in {WRITE, DATA} => got.b = sent[i].b
    BY DEF AnswersMatch
  <2>1. /\ m \in [from : Busy, words : Seq(Bytes)]
        /\ Len(m.words) = Len(client[m.from].sent)
        /\ Answers(m.words, client[m.from].sent)
    BY DEF CmdInv, LoopInv, Messages, Replies
  <2>2. client[m.from].sent \in Seq(ByHand)
    BY <2>1 DEF CmdInv, LoopInv, CmdTypes, Busy
  <2>3. DOMAIN m.words = DOMAIN client[m.from].sent
    BY <2>1, <2>2
  <2> QED
    BY <2>1, <2>3 DEF Answers, AnswerTo
<1> QED
  BY CmdInvariant, <1>1, PTL

-----------------------------------------------------------------------------
(* The log.                                                                 *)

Entries(words) == {e \in {<<i, parse_word(words[i])>> : i \in DOMAIN words} : e[2].type = WRITE}
LastOf(entries, reg) ==
  {e \in entries : e[2].a = reg /\ \A f \in entries : f[2].a = reg => f[1] <= e[1]}

LEMMA LogDefined ==
  \A words, before :
    LogOf(words, before) =
      [reg \in Registers |-> IF LastOf(Entries(words), reg) = {} THEN before[reg]
                             ELSE (CHOOSE e \in LastOf(Entries(words), reg) : TRUE)[2].b]
BY Zenon DEF LogOf, Entries, LastOf

(* The last write of a register counts: a word more that is a write         *)
(* overwrites what the words before it led to (pacman_util.py:113-127).     *)
LEMMA LogGrows ==
  ASSUME NEW before, NEW words \in Seq(Bytes), NEW n \in Nat, n < Len(words)
  PROVE  LET p == LogOf(SubSeq(words, 1, n), before)
             q == LogOf(SubSeq(words, 1, n + 1), before)
             x == parse_word(words[n + 1])
         IN  /\ DOMAIN q = Registers
             /\ \A reg \in Registers : q[reg] = IF x.type = WRITE /\ x.a = reg THEN x.b ELSE p[reg]
<1> DEFINE P == SubSeq(words, 1, n)  Q == SubSeq(words, 1, n + 1)
           x == parse_word(words[n + 1])
           last == <<n + 1, x>>
           E == Entries(P)  F == Entries(Q)
<1>1. /\ DOMAIN P = 1 .. n /\ \A i \in 1 .. n : P[i] = words[i]
      /\ DOMAIN Q = 1 .. n + 1 /\ \A i \in 1 .. n + 1 : Q[i] = words[i]
  OBVIOUS
<1>2. E = {e \in {<<i, parse_word(words[i])>> : i \in 1 .. n} : e[2].type = WRITE}
  BY <1>1 DEF Entries
<1>3. F = {e \in {<<i, parse_word(words[i])>> : i \in 1 .. n + 1} : e[2].type = WRITE}
  BY <1>1 DEF Entries
<1> HIDE DEF P, Q, E, F
<1>4. 1 .. n + 1 = 1 .. n \cup {n + 1}
  BY SMT
<1>5. F = IF x.type = WRITE THEN E \cup {last} ELSE E
  BY <1>2, <1>3, <1>4
<1>6. \A e \in E : e[1] \in 1 .. n
  BY <1>2
<1> HIDE DEF x, last
<1>7. ASSUME NEW reg, x.type = WRITE, x.a = reg PROVE LastOf(F, reg) = {last}
  <2>1. F = E \cup {last} /\ last[1] = n + 1 /\ last[2] = x
    BY <1>5, <1>7 DEF last
  <2>2. \A e \in E : e[1] <= n + 1 /\ ~ (n + 1 <= e[1])
    BY <1>6, SMT
  <2>3. n + 1 <= n + 1
    OBVIOUS
  <2> QED
    BY <1>7, <2>1, <2>2, <2>3, Zenon DEF LastOf
<1>8. ASSUME NEW reg, ~ (x.type = WRITE /\ x.a = reg) PROVE LastOf(F, reg) = LastOf(E, reg)
  <2>1. last[2] = x
    BY DEF last
  <2>2. \A e : e \in F /\ e[2].a = reg <=> e \in E /\ e[2].a = reg
    BY <1>5, <1>8, <2>1
  <2> QED
    BY <2>2, Zenon DEF LastOf
<1>9. ASSUME NEW reg \in Registers
      PROVE  LogOf(Q, before)[reg] = IF x.type = WRITE /\ x.a = reg THEN x.b ELSE LogOf(P, before)[reg]
  <2>1. LogOf(Q, before)[reg] = IF LastOf(F, reg) = {} THEN before[reg]
                                ELSE (CHOOSE e \in LastOf(F, reg) : TRUE)[2].b
    BY LogDefined, Zenon DEF F
  <2>2. LogOf(P, before)[reg] = IF LastOf(E, reg) = {} THEN before[reg]
                                ELSE (CHOOSE e \in LastOf(E, reg) : TRUE)[2].b
    BY LogDefined, Zenon DEF E
  <2>3. CASE x.type = WRITE /\ x.a = reg
    <3>1. LastOf(F, reg) = {last}
      BY <1>7, <2>3
    <3>2. (CHOOSE e \in {last} : TRUE) = last
      OBVIOUS
    <3>3. LogOf(Q, before)[reg] = last[2].b
      BY <2>1, <3>1, <3>2
    <3> QED
      BY <2>3, <3>3 DEF last
  <2>4. CASE ~ (x.type = WRITE /\ x.a = reg)
    <3>1. LastOf(F, reg) = LastOf(E, reg)
      BY <1>8, <2>4
    <3> QED
      BY <2>1, <2>2, <2>4, <3>1
  <2> QED
    BY <2>3, <2>4
<1>10. DOMAIN LogOf(Q, before) = Registers
  BY LogDefined
<1> QED
  BY <1>9, <1>10 DEF P, Q, x

LEMMA EmptyLog ==
  ASSUME NEW before \in [Registers -> Values]
  PROVE  LogOf(<<>>, before) = before
<1>1. \A reg : LastOf(Entries(<<>>), reg) = {}
  BY DEF LastOf, Entries
<1>2. LogOf(<<>>, before) = [reg \in Registers |-> before[reg]]
  BY <1>1, LogDefined
<1> QED
  BY <1>2

\* A word that is handled: the log up to it.
LEMMA LogWord ==
  ASSUME LoopInv, LogInv, pc = "words", Len(rep) < Len(req.words),
         NEW b \in Bytes, Answer(b), faults' = 0 => faults = 0,
         \A reg \in Registers : faults' = 0 =>
           regs'[reg] = IF get_word_type(NextWord) = WRITE /\ parse_word(NextWord).a = reg
                        THEN parse_word(NextWord).b ELSE regs[reg],
         regs' \in [Registers -> Values]
  PROVE  LogInv'
<1> SUFFICES ASSUME ~ cut', faults' = 0
             PROVE  regs' = LogOf(SubSeq(req'.words, 1, Len(rep')), logged')
  BY DEF LogInv, Answer
<1>1. rep' = Append(rep, b) /\ UNCHANGED <<pc, req, cut, logged>>
  BY DEF Answer
<1>2. rep \in Seq(Bytes) /\ req.words \in Seq(Bytes)
  <2>1. \E L \in Lists : Requests(req, L)
    BY WordInHand
  <2> QED
    BY <2>1 DEF Requests, LoopInv, Handling
<1>3. PICK n \in Nat : n = Len(rep)
  BY <1>2
<1>4. n < Len(req.words) /\ Len(rep') = n + 1 /\ NextWord = req.words[n + 1]
  BY <1>1, <1>2, <1>3 DEF NextWord
<1>5. regs = LogOf(SubSeq(req.words, 1, n), logged)
  BY <1>1, <1>3 DEF LogInv
<1>6. PICK x : x = parse_word(NextWord)
  OBVIOUS
<1>7. get_word_type(NextWord) = x.type
  BY <1>2, <1>4, <1>6, ParsedWord
<1>8. PICK q : q = LogOf(SubSeq(req.words, 1, n + 1), logged)
  OBVIOUS
<1>9. \A reg \in Registers : q[reg] = IF x.type = WRITE /\ x.a = reg THEN x.b ELSE regs[reg]
  BY <1>2, <1>4, <1>5, <1>6, <1>8, LogGrows
<1>10. \A reg \in Registers : regs'[reg] = q[reg]
  BY <1>6, <1>7, <1>9
<1>11. q = [reg \in Registers |-> q[reg]]
  <2>1. \A words, before : LogOf(words, before) = [reg \in Registers |-> LogOf(words, before)[reg]]
    BY LogDefined
  <2>2. LogOf(SubSeq(req.words, 1, n + 1), logged)
          = [reg \in Registers |-> LogOf(SubSeq(req.words, 1, n + 1), logged)[reg]]
    BY <2>1, Zenon
  <2> QED
    BY <1>8, <2>2
<1>12. regs' = [reg \in Registers |-> regs'[reg]]
  OBVIOUS
<1>13. regs' = q
  BY <1>10, <1>11, <1>12
<1> QED
  BY <1>1, <1>4, <1>8, <1>13

LEMMA LogStep == LoopInv /\ LoopInv' /\ LogInv /\ [Next]_vars => LogInv'
<1> SUFFICES ASSUME LoopInv, LoopInv', LogInv, [Next]_vars PROVE LogInv'
  OBVIOUS
<1>1. ASSUME UNCHANGED <<pc, req, rep, regs, logged, cut, faults>> PROVE LogInv'
  BY <1>1 DEF LogInv, LogOf
<1>2. ASSUME NEW p, LosesMessages(p) PROVE LogInv'
  <2>1. UNCHANGED <<regs, logged, faults>>
    BY <1>2 DEF LosesMessages
  <2>2. CASE stage[p] = "serve"
    BY <1>2, <2>1, <2>2 DEF LosesMessages, LogInv
  <2>3. CASE stage[p] # "serve"
    BY <1>1, <1>2, <2>1, <2>3 DEF LosesMessages, serverVars
  <2> QED
    BY <2>2, <2>3
<1>3. CASE Script
  BY <1>1, <1>3 DEF Script, serverVars
<1>4. ASSUME NEW p \in Procs, Process(p) PROVE LogInv'
  BY <1>1, <1>2, <1>4 DEF Process, serverVars
<1>5. ASSUME NEW p \in Procs, Killed(p) PROVE LogInv'
  BY <1>2, <1>5 DEF Killed
<1>6. CASE UnknownWord
  BY <1>2, <1>6 DEF UnknownWord
<1>7. CASE Receive
  <2>1. /\ pc = "recv" /\ pc' = "words" /\ rep = <<>>
        /\ UNCHANGED <<rep, regs, logged, cut, faults>>
    BY <1>7 DEF Receive, LoopInv, Handling
  <2>2. req'.words \in Seq(Bytes)
    BY <2>1 DEF LoopInv, Handling, Requests
  <2>3. SubSeq(req'.words, 1, Len(rep')) = <<>>
    BY <2>1, <2>2
  <2>4. logged \in [Registers -> Values]
    BY DEF LoopInv, CmdTypes
  <2>5. LogOf(<<>>, logged) = logged
    BY <2>4, EmptyLog
  <2>6. LogOf(SubSeq(req'.words, 1, Len(rep')), logged') = logged
    BY <2>1, <2>3, <2>5
  <2> QED
    BY <2>1, <2>6 DEF LogInv
<1>8. regs' \in [Registers -> Values] /\ ReplyWord \in Bytes
  BY ReplyMemory DEF LoopInv, CmdTypes
<1>9. ASSUME HandlesWord(PING) \/ HandlesWord(READ) \/ HandlesWord(DATA), NEW b, Answer(b), UNCHANGED <<regs, faults>>
      PROVE  LogInv'
  <2>1. pc = "words" /\ Len(rep) < Len(req.words) /\ get_word_type(NextWord) # WRITE
    BY <1>9 DEF HandlesWord, PING, READ, DATA, WRITE
  <2>2. b \in Bytes
    <3>1. rep' = Append(rep, b) /\ rep' \in Seq(Bytes) /\ rep \in Seq(Bytes)
      BY <1>9 DEF Answer, LoopInv, Handling
    <3>2. Len(rep') \in 1 .. Len(rep') /\ rep'[Len(rep')] = b
      BY <3>1
    <3> QED
      BY <3>1, <3>2
  <2> QED
    BY <1>8, <1>9, <2>1, <2>2, LogWord
<1>10. CASE PingWord
  BY <1>9, <1>10 DEF PingWord
<1>11. CASE ReadWord
  BY <1>9, <1>11 DEF ReadWord
<1>12. CASE TxWord
  BY <1>9, <1>12 DEF TxWord
<1>13. CASE WriteWord
  <2>1. pc = "words" /\ Len(rep) < Len(req.words) /\ get_word_type(NextWord) = WRITE
    BY <1>13 DEF WriteWord, HandlesWord
  <2>2. PICK L \in Lists :
          /\ Asked(L) /\ L[Len(rep) + 1] \in ByHand /\ NextWord = format_word(L[Len(rep) + 1])
    BY <2>1, WordInHand
  <2>3. PICK w \in ByHand : w = L[Len(rep) + 1]
    BY <2>2
  <2>4. w.type = WRITE /\ get_req_word_reg(NextWord) = w.a /\ get_req_word_write_val(NextWord) = w.b
        /\ parse_word(NextWord) = Word(WRITE, w.a, w.b)
    BY <2>1, <2>2, <2>3, WordCarried
  <2>5. w.a \in Values /\ w.b \in Values /\ pacman_write(w.a, w.b)
    BY <1>13, <2>4 DEF WriteWord, ByHand
  <2>6. PICK b : b = set_rep_word_reg(ReplyWord, WRITE, w.a, w.b)
    OBVIOUS
  <2>7. Answer(b)
    BY <1>13, <2>4, <2>6 DEF WriteWord
  <2>8. b \in Bytes
    <3>1. 0 \in 0 .. 255
      BY SMT
    <3> QED
      BY <1>8, <2>5, <2>6, <3>1, AnswerParsed
  <2>9. /\ faults' = 0 => faults = 0
        /\ \A r \in Registers \ {w.a} : regs'[r] = regs[r]
        /\ w.a \in Registers => regs'[w.a] = w.b \/ (regs'[w.a] = regs[w.a] /\ faults' # 0)
    BY <2>5, WriteEffect
  <2>10. parse_word(NextWord).a = w.a /\ parse_word(NextWord).b = w.b
    BY <2>4 DEF Word
  <2>11. \A reg \in Registers : faults' = 0 =>
           regs'[reg] = IF get_word_type(NextWord) = WRITE /\ parse_word(NextWord).a = reg
                        THEN parse_word(NextWord).b ELSE regs[reg]
    BY <2>1, <2>9, <2>10
  <2> QED
    BY <1>8, <2>1, <2>7, <2>8, <2>9, <2>11, LogWord
<1>14. CASE EchoRequest
  <2>1. /\ pc = "words" /\ pc' = "reply" /\ Len(rep) = Len(req.words)
        /\ logged' = LogOf(req.words, logged) /\ UNCHANGED <<regs, cut, faults>>
    BY <1>14 DEF EchoRequest
  <2>2. req.words \in Seq(Bytes)
    BY <2>1 DEF LoopInv, Handling, Requests
  <2>3. SubSeq(req.words, 1, Len(req.words)) = req.words
    BY <2>2
  <2> QED
    BY <2>1, <2>3 DEF LogInv
<1>15. CASE Reply
  <2>1. pc = "reply" /\ pc' = "recv" /\ UNCHANGED <<regs, logged, cut, faults>>
    BY <1>15 DEF Reply
  <2> QED
    BY <2>1 DEF LogInv
<1>16. ASSUME NEW c \in Clients, GetReply(c) PROVE LogInv'
  BY <1>1, <1>16 DEF GetReply, serverVars
<1>17. ASSUME NEW c \in Clients, Timeout(c) PROVE LogInv'
  <2>1. UNCHANGED <<pc, rep, regs, logged, cut, faults>>
    BY <1>17 DEF Timeout
  <2>2. CASE req.from # c
    BY <1>1, <1>17, <2>1, <2>2 DEF Timeout
  <2>3. CASE req.from = c
    <3>1. req = [from |-> req.from, words |-> req.words]
      BY DEF LoopInv, Handling, Requests, NoRequest
    <3>2. req'.words = req.words
      BY <1>17, <2>3, <3>1 DEF Timeout
    <3> QED
      BY <2>1, <3>2 DEF LogInv, LogOf
  <2> QED
    BY <2>2, <2>3
<1>18. ASSUME NEW c \in Clients, NEW job \in Jobs, Run(c, job) PROVE LogInv'
  BY <1>1, <1>18 DEF Run, serverVars
<1>19. CASE UNCHANGED vars
  BY <1>1, <1>19 DEF vars, serverVars
<1>20. CASE Loop
  BY <1>6, <1>7, <1>10, <1>11, <1>12, <1>13, <1>14, <1>15, <1>20 DEF Loop, HandleWord
<1> QED
  BY <1>3, <1>4, <1>5, <1>16, <1>17, <1>18, <1>19, <1>20 DEF Next

(* The writes in the listener's log lead to the values the registers have,  *)
(* also when the client of a request gave up, unless a server ended within  *)
(* a request or an I2C write failed (pacman_cmdserver.cc:16-19,             *)
(* pacman_util.py:113-127).                                                 *)
THEOREM LogReplaysRight == Spec => []LogReplays
<1>1. Init => LogInv
  BY DEF Init, LogInv
<1>2. CmdInv /\ LogInv /\ [Next]_vars => CmdInv' /\ LogInv'
  BY CmdStep, LogStep DEF CmdInv
<1>3. LogInv => LogReplays
  BY DEF LogInv, LogReplays
<1> QED
  BY CmdInit, <1>1, <1>2, <1>3, PTL DEF Spec

-----------------------------------------------------------------------------
(* The tile enables and the power, as the scripts leave them.               *)

LEMMA PoweringAsks ==
  ASSUME LoopInv, NEW c \in Powering
  PROVE  /\ c \in Clients /\ c \in Busy
         /\ \/ client[c].job = PowerDownJob /\ client[c].sent = PowerDown
            \/ \E t \in Tiles : client[c].job = PowerUpJob(t) /\ client[c].sent = ReadEnables
            \/ \E t \in Tiles, e \in Enables :
                 client[c].job = PowerUpJob(t) /\ client[c].sent = PowerUp(t, e)
<1>1. c \in Clients /\ c \in Busy /\ client[c].job.script # "pacman_util"
  BY DEF Powering, Busy
<1>2. Asks(client[c].job, client[c].sent)
  BY <1>1 DEF LoopInv, CmdTypes, AsksItsOwn, Busy
<1>3. \A L : client[c].job # SendJob(L)
  BY <1>1 DEF SendJob
<1> QED
  BY <1>1, <1>2, <1>3 DEF Asks, SafeUp

LEMMA SentByHand ==
  ASSUME LoopInv, NEW c \in Busy, c \notin Powering
  PROVE  ByHandList(client[c].sent) /\ client[c].job.script = "pacman_util"
<1>1. c \in Clients /\ client[c].job.script = "pacman_util"
  BY DEF Powering, Busy
<1>2. Asks(client[c].job, client[c].sent)
  BY <1>1 DEF LoopInv, CmdTypes, AsksItsOwn, Busy
<1>3. client[c].job # PowerDownJob /\ \A t : client[c].job # PowerUpJob(t)
  BY <1>1 DEF PowerDownJob, PowerUpJob
<1> QED
  BY <1>1, <1>2, <1>3 DEF Asks, SendJob

LEMMA JobsDiffer ==
  \A t : /\ PowerUpJob(t) # PowerDownJob /\ PowerUpJob(t).tile = t
        /\ PowerUpJob(t).script = "power_up_tile" /\ PowerDownJob.script = "power_down"
BY JobFacts

\* What was reached remains so for a client that goes on waiting.
LEMMA ReachedStays ==
  ASSUME on' = on, regs'[TILE_EN] = regs[TILE_EN], regs'[PWR_EN] = regs[PWR_EN]
  PROVE  /\ Settled => Settled'
         /\ \A c, words : client'[c] = client[c] /\ Reached(c, words) => Reached(c, words)'
<1>1. Settled => Settled'
  BY DEF Settled, EnabledTiles
<1>2. \A k : DownReached(k) => DownReached(k)'
  BY DEF DownReached, EnabledTiles
<1>3. \A t, L, k : UpReached(t, L, k) => UpReached(t, L, k)'
  BY DEF UpReached, EnabledTiles
<1>4. ASSUME NEW c, NEW words, client'[c] = client[c], Reached(c, words)
      PROVE  Reached(c, words)'
  <2>1. client[c].job = PowerDownJob => DownReached(Len(words))'
    BY <1>2, <1>4 DEF Reached
  <2>2. client[c].job # PowerDownJob /\ client[c].sent = ReadEnables =>
          /\ Settled'
          /\ words # <<>> => EnabledTiles(parse_word(words[1]).b) = on
    BY <1>1, <1>4 DEF Reached
  <2>3. client[c].job # PowerDownJob /\ client[c].sent # ReadEnables =>
          UpReached(client[c].job.tile, client[c].sent, Len(words))'
    BY <1>3, <1>4 DEF Reached
  <2> QED
    BY <1>4, <2>1, <2>2, <2>3 DEF Reached, EnabledTiles
<1> QED
  BY <1>1, <1>4

\* A step that changes neither the registers nor a client.
LEMMA OrderIdles ==
  ASSUME InOrder, UNCHANGED <<regs, client, on>>,
         \A m \in inbox' : m.from \in Clients, pc' # "recv" => req'.from \in Clients,
         \A c \in Powering : SoFar(c)' \subseteq SoFar(c)
  PROVE  InOrder'
<1>1. Powering' = Powering
  BY DEF Powering, Busy
<1>2. Settled => Settled'
  BY ReachedStays
<1>3. \A c \in Powering : \A words \in SoFar(c)' : Reached(c, words)'
  BY ReachedStays DEF InOrder
<1> QED
  BY <1>1, <1>2, <1>3 DEF InOrder

\* Only the request in hand moves on when one of its words is answered.
LEMMA AnsweredSoFar ==
  ASSUME LoopInv, NEW b, Answer(b), pc = "words"
  PROVE  \A c \in Clients :
           /\ req.from = c => rep \in SoFar(c) /\ SoFar(c)' = {rep'}
           /\ req.from # c => SoFar(c)' = SoFar(c)
<1>1. UNCHANGED <<req, inbox, outbox>>
  BY DEF Answer, clientVars
<1>2. ASSUME NEW c \in Clients, req.from = c
      PROVE  (\A m \in inbox : m.from # c) /\ \A m \in outbox : m.from # c
  BY <1>2 DEF LoopInv, OnePlace
<1>3. ASSUME NEW c \in Clients, req.from = c
      PROVE  rep \in SoFar(c) /\ SoFar(c)' = {rep'}
  BY <1>1, <1>2, <1>3 DEF SoFar
<1>4. ASSUME NEW c \in Clients, req.from # c
      PROVE  SoFar(c)' = SoFar(c)
  BY <1>1, <1>4 DEF SoFar
<1> QED
  BY <1>3, <1>4

\* The words of the request in hand are answered in order, and have the effects
\* that the script they come from counts on.
LEMMA OrderAnswers ==
  ASSUME LoopInv, InOrder, pc = "words", NEW b, Answer(b), NEW c, c = req.from, NEW answers, answers = rep',
         c \in Powering /\ Reached(c, rep) => Reached(c, answers)',
         c \notin Powering => regs'[TILE_EN] = regs[TILE_EN] /\ regs'[PWR_EN] = regs[PWR_EN]
  PROVE  InOrder'
<1>1. UNCHANGED <<pc, req, client, inbox, outbox, on>>
  BY DEF Answer, clientVars, historyVars
<1>2. Powering' = Powering /\ Powering \subseteq Clients
  BY <1>1 DEF Powering, Busy
<1>3. c \in Clients
  BY DEF InOrder
<1>4. CASE c \in Powering
  <2>1. \A d \in Powering : d = c
    BY <1>4 DEF InOrder
  <2>2. rep \in SoFar(c) /\ SoFar(c)' = {answers}
    BY <1>3, AnsweredSoFar
  <2>3. Reached(c, answers)'
    BY <1>4, <2>2 DEF InOrder
  <2>4. \A d \in Powering' : \A words \in SoFar(d)' : Reached(d, words)'
    BY <1>2, <2>1, <2>2, <2>3
  <2> QED
    BY <1>1, <1>2, <1>4, <2>4 DEF InOrder
<1>5. CASE c \notin Powering
  <2>1. \A d \in Powering : SoFar(d)' = SoFar(d)
    BY <1>2, <1>5, AnsweredSoFar
  <2>2. \A d \in Powering : \A words \in SoFar(d) : Reached(d, words)'
    BY <1>1, <1>5, ReachedStays DEF InOrder
  <2>3. Settled => Settled'
    BY <1>1, <1>5, ReachedStays
  <2> QED
    BY <1>1, <1>2, <2>1, <2>2, <2>3 DEF InOrder
<1> QED
  BY <1>4, <1>5

\* The word in hand is the next of those its client sent last.
LEMMA WordOfClient ==
  ASSUME LoopInv, pc = "words", Len(rep) < Len(req.words), req.from \in Clients
  PROVE  LET L == client[req.from].sent  k == Len(rep) + 1 IN
         /\ Len(rep) \in Nat /\ k \in 1 .. Len(L) /\ L[k] \in ByHand /\ NextWord = format_word(L[k])
         /\ get_word_type(NextWord) = L[k].type
         /\ L[k].type \in {WRITE, READ} => /\ get_req_word_reg(NextWord) = L[k].a
                                          /\ get_req_word_write_val(NextWord) = L[k].b
<1>1. PICK L \in Lists :
        /\ Requests(req, L) /\ Len(rep) \in Nat /\ Len(rep) + 1 \in 1 .. Len(L)
        /\ L[Len(rep) + 1] \in ByHand /\ NextWord = format_word(L[Len(rep) + 1])
  BY WordInHand
<1>2. client[req.from].sent = L
  BY <1>1 DEF Requests
<1>3. PICK w \in ByHand : w = L[Len(rep) + 1]
  BY <1>1
<1>4. /\ get_word_type(NextWord) = w.type
      /\ w.type \in {WRITE, READ} => get_req_word_reg(NextWord) = w.a /\ get_req_word_write_val(NextWord) = w.b
  BY <1>1, <1>3, WordCarried
<1> QED
  BY <1>1, <1>2, <1>3, <1>4

LEMMA QuietOrder ==
  ASSUME LoopInv, InOrder, NEW b, Answer(b), UNCHANGED <<regs, faults>>,
         pc = "words", Len(rep) < Len(req.words), get_word_type(NextWord) # WRITE,
         get_word_type(NextWord) = READ =>
           b = set_rep_word_reg(ReplyWord, READ, get_req_word_reg(NextWord),
                                pacman_read(get_req_word_reg(NextWord)))
  PROVE  InOrder'
<1>1. PICK c : c = req.from
  OBVIOUS
<1>2. PICK answers : answers = rep'
  OBVIOUS
<1>3. c \in Clients /\ on' = on /\ client' = client /\ rep' = Append(rep, b)
  BY <1>1 DEF InOrder, Answer, historyVars, clientVars
<1>4. ASSUME c \in Powering, Reached(c, rep) PROVE Reached(c, answers)'
  <2> DEFINE L == client[c].sent
  <2>1. PICK k : k = Len(rep) + 1
    OBVIOUS
  <2>2. /\ Len(rep) \in Nat /\ k \in 1 .. Len(L) /\ L[k].type # WRITE /\ get_word_type(NextWord) = L[k].type
        /\ L[k].type \in {WRITE, READ} => get_req_word_reg(NextWord) = L[k].a
    BY <1>1, <1>3, <2>1, WordOfClient
  <2>3. \A a, v : Write(a, v).type = WRITE
    BY DEF Write, Word
  <2>4. L # PowerDown
    <3>1. \A n \in 1 .. 2 : n = 1 \/ n = 2
      BY SMT
    <3> QED
      BY <2>2, <2>3, <3>1, ScriptWords
  <2>5. \A t \in Tiles, e \in Enables : L # PowerUp(t, e)
    <3> SUFFICES ASSUME NEW t \in Tiles, NEW e \in Enables, L = PowerUp(t, e) PROVE FALSE
      OBVIOUS
    <3>1. Len(L) = 4 /\ \A n \in {1, 2, 3, 4} : L[n].type = WRITE
      BY <2>3, ScriptWords
    <3>2. k \in {1, 2, 3, 4}
      BY <2>2, <3>1, SMT
    <3> QED
      BY <2>2, <3>1, <3>2
  <2>6. L = ReadEnables /\ client[c].job # PowerDownJob
    BY <1>4, <2>4, <2>5, PoweringAsks, JobsDiffer
  <2>7. Settled
    BY <1>4, <2>6 DEF Reached
  <2>8. k = 1 /\ L[k] = Word(READ, TILE_EN, 0) /\ rep = <<>>
    <3>1. Len(ReadEnables) = 1 /\ ReadEnables[1] = Word(READ, TILE_EN, 0)
      BY DEF ReadEnables
    <3>2. k = 1 /\ Len(rep) = 0
      BY <2>1, <2>2, <2>6, <3>1, SMT
    <3> QED
      BY <2>6, <3>1, <3>2 DEF LoopInv, Handling
  <2>9. PICK val : val = regs[TILE_EN]
    OBVIOUS
  <2>10. b = set_rep_word_reg(ReplyWord, READ, TILE_EN, val)
    <3>1. L[k].type = READ /\ L[k].a = TILE_EN
      BY <2>8 DEF Word
    <3>2. get_word_type(NextWord) = READ /\ get_req_word_reg(NextWord) = TILE_EN
      BY <2>2, <3>1
    <3>3. pacman_read(TILE_EN) = val
      BY <2>9, RegisterFacts DEF pacman_read
    <3> QED
      BY <3>2, <3>3
  <2>11. parse_word(b) = Word(READ, TILE_EN, val)
    <3>1. val \in Values /\ TILE_EN \in Values
      BY <2>9, RegisterFacts DEF LoopInv, CmdTypes
    <3>2. 0 \in 0 .. 255
      BY SMT
    <3> QED
      BY <2>10, <3>1, <3>2, ReplyMemory, AnswerParsed
  <2>12. answers[1] = b
    BY <1>2, <1>3, <2>8
  <2>13. EnabledTiles(parse_word(answers[1]).b) = on
    <3>1. parse_word(answers[1]).b = val
      BY <2>11, <2>12 DEF Word
    <3> QED
      BY <2>7, <2>9, <3>1 DEF Settled
  <2>14. Settled'
    BY <1>3, <2>7, ReachedStays
  <2> QED
    BY <1>3, <2>6, <2>13, <2>14 DEF Reached, EnabledTiles
<1>5. c \notin Powering => regs'[TILE_EN] = regs[TILE_EN] /\ regs'[PWR_EN] = regs[PWR_EN]
  OBVIOUS
<1> QED
  BY <1>1, <1>2, <1>4, <1>5, OrderAnswers

(* What the writes of the scripts lead to: power_down.sh leaves no tile     *)
(* enabled and then no power, power_up_tile.sh adds its tile to those that  *)
(* were enabled when it read (power_up_tile.sh:23-33, power_down.sh:10-12). *)
LEMMA WriteOrder ==
  ASSUME LoopInv, InOrder, WriteWord
  PROVE  InOrder'
<1>1. PICK c : c = req.from
  OBVIOUS
<1>2. PICK answers : answers = rep'
  OBVIOUS
<1>3. pc = "words" /\ Len(rep) < Len(req.words) /\ get_word_type(NextWord) = WRITE
  BY DEF WriteWord, HandlesWord
<1>4. PICK b : Answer(b)
  BY DEF WriteWord
<1>5. c \in Clients /\ on' = on /\ client' = client /\ rep' = Append(rep, b)
  BY <1>1, <1>3, <1>4 DEF InOrder, Answer, historyVars, clientVars
<1> DEFINE L == client[c].sent
<1>6. PICK k : k = Len(rep) + 1
  OBVIOUS
<1>7. PICK n \in Nat : n = Len(rep)
  BY <1>1, <1>3, <1>5, WordOfClient
<1>8. PICK w \in ByHand : w = L[k]
  BY <1>1, <1>3, <1>5, <1>6, WordOfClient
<1>9. /\ k = n + 1 /\ k \in 1 .. Len(L) /\ w.type = WRITE
      /\ get_req_word_reg(NextWord) = w.a /\ get_req_word_write_val(NextWord) = w.b
  BY <1>1, <1>3, <1>5, <1>6, <1>7, <1>8, WordOfClient
<1>10. Len(answers) = k
  <2>1. rep \in Seq(Bytes)
    BY DEF LoopInv, Handling
  <2> QED
    BY <1>2, <1>5, <1>6, <2>1
<1>11. /\ \A r \in Registers \ {w.a} : regs'[r] = regs[r]
       /\ w.a \in Registers /\ w.a < PACMAN_LEN => regs'[w.a] = w.b
  <2>1. w.a \in Values /\ w.b \in Values /\ pacman_write(w.a, w.b)
    BY <1>9 DEF WriteWord, ByHand
  <2> QED
    BY <2>1, WriteEffect
<1> HIDE DEF L
<1>12. \A a, v : Write(a, v).a = a /\ Write(a, v).b = v
  BY DEF Write, Word
<1>13. ASSUME c \notin Powering
       PROVE  regs'[TILE_EN] = regs[TILE_EN] /\ regs'[PWR_EN] = regs[PWR_EN]
  <2>1. c \in Busy
    BY <1>1, <1>5 DEF LoopInv, OnePlace
  <2>2. ByHandList(L)
    BY <1>13, <2>1, SentByHand DEF L
  <2>3. w.a \notin Registers
    BY <1>8, <1>9, <2>2 DEF ByHandList, MayBeSent
  <2> QED
    BY <1>11, <2>3, RegisterFacts
<1>14. ASSUME c \in Powering, Reached(c, rep)
       PROVE  Reached(c, answers)'
  <2>1. L # ReadEnables
    <3>1. Len(ReadEnables) = 1 /\ ReadEnables[1].type = READ
      BY DEF ReadEnables, Word
    <3>2. L = ReadEnables => k = 1
      <4> SUFFICES ASSUME L = ReadEnables PROVE k = 1
        OBVIOUS
      <4>1. Len(L) = 1
        BY <3>1
      <4>2. k \in 1 .. Len(L)
        BY <1>9
      <4> QED
        BY <4>1, <4>2, SMT
    <3> QED
      BY <1>8, <1>9, <3>1, <3>2 DEF READ, WRITE
  <2>2. CASE client[c].job = PowerDownJob
    <3>1. L = PowerDown
      BY <1>14, <2>2, PoweringAsks, JobsDiffer DEF L
    <3>2. DownReached(n)
      BY <1>7, <1>14, <2>2 DEF Reached
    <3>3. k = 1 \/ k = 2
      BY <1>9, <3>1, ScriptWords, SMT
    <3>4. CASE k = 1
      <4>1. w.a = TILE_EN /\ w.b = 0
        BY <1>8, <1>12, <3>1, <3>4, ScriptWords
      <4>2. regs'[TILE_EN] = 0
        BY <1>11, <4>1, RegisterFacts
      <4>3. DownReached(k)'
        BY <1>5, <3>2, <3>4, <4>2, NoTiles DEF DownReached, EnabledTiles
      <4> QED
        BY <1>5, <1>10, <2>2, <4>3 DEF Reached
    <3>5. CASE k = 2
      <4>1. w.a = PWR_EN /\ w.b = 0
        BY <1>8, <1>12, <3>1, <3>5, ScriptWords
      <4>2. regs'[PWR_EN] = 0 /\ regs'[TILE_EN] = regs[TILE_EN]
        BY <1>11, <4>1, RegisterFacts
      <4>3. n = 1
        BY <1>9, <3>5, SMT
      <4>4. DownReached(k)'
        BY <1>5, <3>2, <3>5, <4>2, <4>3 DEF DownReached, EnabledTiles
      <4> QED
        BY <1>5, <1>10, <2>2, <4>4 DEF Reached
    <3> QED
      BY <3>3, <3>4, <3>5
  <2>3. CASE client[c].job # PowerDownJob
    <3>1. PICK t \in Tiles, e \in Enables : client[c].job = PowerUpJob(t) /\ L = PowerUp(t, e)
      BY <1>14, <2>1, <2>3, PoweringAsks DEF L
    <3>2. UpReached(t, L, n)
      BY <1>7, <1>14, <2>1, <2>3, <3>1, JobsDiffer DEF Reached, L
    <3>3. ASSUME UpReached(t, L, k)'
          PROVE  Reached(c, answers)'
      BY <1>5, <1>10, <2>1, <2>3, <3>1, <3>3, JobsDiffer DEF Reached, L
    <3>4. k = 1 \/ k = 2 \/ k = 3 \/ k = 4
      <4>1. Len(L) = 4
        BY <3>1, ScriptWords
      <4>2. k \in 1 .. Len(L)
        BY <1>9
      <4> QED
        BY <4>1, <4>2, SMT
    <3>5. CASE k = 1 \/ k = 2
      <4>1. w.a \in Registers \ {TILE_EN, PWR_EN}
        BY <1>8, <1>12, <3>1, <3>5, ScriptWords, RegisterFacts
      <4>2. regs'[PWR_EN] = regs[PWR_EN] /\ regs'[TILE_EN] = regs[TILE_EN]
        BY <1>11, <4>1, RegisterFacts
      <4>3. ~ (n >= 4) /\ ~ (k >= 4) /\ n < 3 /\ k < 3
        BY <1>9, <3>5, SMT
      <4>4. UpReached(t, L, k)'
        BY <1>5, <3>2, <4>2, <4>3 DEF UpReached, EnabledTiles, L
      <4> QED
        BY <3>3, <4>4
    <3>6. CASE k = 3
      <4>1. w.a = PWR_EN /\ w.b = 1
        BY <1>8, <1>12, <3>1, <3>6, ScriptWords
      <4>2. regs'[PWR_EN] = 1 /\ regs'[TILE_EN] = regs[TILE_EN]
        BY <1>11, <4>1, RegisterFacts
      <4>3. ~ (n >= 4) /\ ~ (k >= 4) /\ ~ (k < 3)
        BY <1>9, <3>6, SMT
      <4>4. UpReached(t, L, k)'
        BY <1>5, <3>2, <4>2, <4>3 DEF UpReached, EnabledTiles, L
      <4> QED
        BY <3>3, <4>4
    <3>7. CASE k = 4
      <4>1. w = L[4] /\ w.a = TILE_EN
        BY <1>8, <1>12, <3>1, <3>7, ScriptWords
      <4>2. regs'[TILE_EN] = L[4].b /\ regs'[PWR_EN] = regs[PWR_EN]
        BY <1>11, <4>1, RegisterFacts
      <4>3. k >= 4 /\ ~ (n < 3) /\ ~ (k < 3)
        BY <1>9, <3>7, SMT
      <4>4. UpReached(t, L, k)'
        BY <1>5, <3>2, <4>2, <4>3 DEF UpReached, EnabledTiles, L
      <4> QED
        BY <3>3, <4>4
    <3> QED
      BY <3>4, <3>5, <3>6, <3>7
  <2> QED
    BY <2>2, <2>3
<1> QED
  BY <1>1, <1>2, <1>3, <1>4, <1>13, <1>14, OrderAnswers

\* The scripts at work once a client has asked something, and once it has ended.
LEMMA PoweringNext ==
  ASSUME LoopInv, NEW c \in Clients
  PROVE  /\ \A job, L : client' = [client EXCEPT ![c] = [job |-> job, sent |-> L]] /\ L # <<>> =>
              /\ client'[c].job = job /\ client'[c].sent = L
              /\ \A d \in Clients \ {c} : client'[d] = client[d]
              /\ Powering' = (Powering \ {c}) \cup (IF job.script # "pacman_util" THEN {c} ELSE {})
         /\ client' = [client EXCEPT ![c] = Idle] =>
              /\ \A d \in Clients \ {c} : client'[d] = client[d]
              /\ Powering' = Powering \ {c}
<1>1. client \in [Clients -> [job : Jobs \cup {SendJob(<<>>)}, sent : Seq(ByHand)]]
  BY DEF LoopInv, CmdTypes
<1>2. Powering = {d \in Clients : client[d] # Idle /\ client[d].job.script # "pacman_util"}
  BY DEF Powering, Busy
<1>3. Powering' = {d \in Clients : client'[d] # Idle /\ client'[d].job.script # "pacman_util"}
  BY DEF Powering, Busy
<1>4. ASSUME NEW job, NEW L, client' = [client EXCEPT ![c] = [job |-> job, sent |-> L]], L # <<>>
      PROVE  /\ client'[c].job = job /\ client'[c].sent = L
             /\ \A d \in Clients \ {c} : client'[d] = client[d]
             /\ Powering' = (Powering \ {c}) \cup (IF job.script # "pacman_util" THEN {c} ELSE {})
  <2>1. client'[c] = [job |-> job, sent |-> L] /\ \A d \in Clients \ {c} : client'[d] = client[d]
    BY <1>1, <1>4
  <2>2. client'[c] # Idle
    <3>1. Idle.sent = <<>>
      BY DEF Idle
    <3> QED
      BY <1>4, <2>1, <3>1
  <2> QED
    BY <1>2, <1>3, <2>1, <2>2
<1>5. ASSUME client' = [client EXCEPT ![c] = Idle]
      PROVE  /\ \A d \in Clients \ {c} : client'[d] = client[d]
             /\ Powering' = Powering \ {c}
  <2>1. client'[c] = Idle /\ \A d \in Clients \ {c} : client'[d] = client[d]
    BY <1>1, <1>5
  <2> QED
    BY <1>2, <1>3, <2>1
<1> QED
  BY <1>4, <1>5

LEMMA RunOrder ==
  ASSUME LoopInv, InOrder, NEW c \in Clients, NEW job \in Jobs, Run(c, job), ~ overlap'
  PROVE  InOrder'
<1> DEFINE L == FirstRequest(job)
<1>1. Asks(job, L) /\ L # <<>>
  BY JobFacts, AskedWords
<1>2. client[c] = Idle /\ c \notin Busy /\ c \notin Powering
  BY DEF Run, Busy, Powering
<1>3. /\ \A m \in inbox : m.from # c
      /\ req.from # c
      /\ \A m \in outbox : m.from # c
  BY <1>2 DEF LoopInv, OnePlace, Messages, Replies
<1>4. /\ client' = [client EXCEPT ![c] = [job |-> job, sent |-> L]]
      /\ inbox' = inbox \cup {Request(c, L)}
      /\ UNCHANGED <<pc, req, rep, regs, outbox>>
      /\ job.script # "pacman_util" => Powering = {}
      /\ on' = IF job.script = "power_down" THEN {} ELSE on
  BY DEF Run, serverVars
<1> HIDE DEF L
<1>5. /\ client'[c].job = job /\ client'[c].sent = L
      /\ \A d \in Clients \ {c} : client'[d] = client[d]
      /\ Powering' = Powering \cup (IF job.script # "pacman_util" THEN {c} ELSE {})
  <2>1. /\ client'[c].job = job /\ client'[c].sent = L
        /\ \A d \in Clients \ {c} : client'[d] = client[d]
        /\ Powering' = (Powering \ {c}) \cup (IF job.script # "pacman_util" THEN {c} ELSE {})
    BY <1>1, <1>4, PoweringNext, Zenon
  <2>2. Powering \ {c} = Powering
    BY <1>2
  <2> QED
    BY <2>1, <2>2
<1>6. Request(c, L).from = c
  BY DEF Request
<1>7. /\ \A m \in inbox' : m.from \in Clients
      /\ pc' # "recv" => req'.from \in Clients
  BY <1>4, <1>6 DEF InOrder
<1>8. \A d \in Clients : IF d = c THEN SoFar(d)' \subseteq {<<>>} ELSE SoFar(d)' = SoFar(d)
  BY <1>3, <1>4, <1>6 DEF SoFar
<1>9. CASE job.script = "pacman_util"
  <2>1. Powering' = Powering /\ on' = on
    BY <1>4, <1>5, <1>9
  <2>2. Powering \subseteq Clients \ {c}
    BY <1>2 DEF Powering, Busy
  <2>3. \A d \in Powering : \A words \in SoFar(d)' : Reached(d, words)'
    BY <1>4, <1>5, <1>8, <2>1, <2>2, ReachedStays DEF InOrder
  <2>4. Settled => Settled'
    BY <1>4, <2>1, ReachedStays
  <2> QED
    BY <1>7, <2>1, <2>3, <2>4 DEF InOrder
<1>10. CASE job.script # "pacman_util"
  <2>1. Powering = {} /\ Powering' = {c} /\ Settled
    BY <1>4, <1>5, <1>10 DEF InOrder
  <2>2. SoFar(c)' \subseteq {<<>>}
    BY <1>8
  <2>3. job = PowerDownJob \/ \E t \in Tiles : job = PowerUpJob(t)
    BY <1>1, <1>10, JobFacts DEF Asks
  <2>4. Len(<<>>) = 0 /\ ~ (0 >= 1) /\ ~ (0 >= 2)
    BY SMT
  <2>5. Reached(c, <<>>)'
    <3>1. CASE job = PowerDownJob
      <4>1. DownReached(0)'
        BY <1>4, <2>4, <3>1, JobFacts DEF DownReached
      <4> QED
        BY <1>5, <2>4, <3>1, <4>1 DEF Reached
    <3>2. CASE \E t \in Tiles : job = PowerUpJob(t)
      <4>1. job # PowerDownJob /\ job.script = "power_up_tile"
        BY <3>2, JobsDiffer
      <4>2. L = ReadEnables
        BY <4>1 DEF FirstRequest, L
      <4>3. Settled'
        BY <1>4, <2>1, <4>1, ReachedStays
      <4> QED
        BY <1>5, <4>1, <4>2, <4>3 DEF Reached
    <3> QED
      BY <2>3, <3>1, <3>2
  <2> QED
    BY <1>7, <2>1, <2>2, <2>5 DEF InOrder
<1> QED
  BY <1>9, <1>10

LEMMA ReplyOrder ==
  ASSUME LoopInv, InOrder, NEW c \in Clients, GetReply(c)
  PROVE  InOrder'
<1>1. PICK m \in outbox : m.from = c /\ outbox' = outbox \ {m} /\ (AsksMore(c, m) \/ Finishes(c))
  BY DEF GetReply
<1>2. UNCHANGED <<pc, req, rep, regs>>
  BY DEF GetReply, serverVars
<1>3. /\ \A n \in inbox : n.from # c
      /\ req.from # c
      /\ \A n \in outbox' : n.from # c
  BY <1>1 DEF LoopInv, OnePlace
<1>4. Replies(m) /\ c \in Busy
  BY <1>1 DEF LoopInv, Messages, Replies
<1>5. PICK words : words = m.words
  OBVIOUS
<1>6. Len(words) = Len(client[c].sent) /\ (c \in Powering => Reached(c, words))
  <2>1. words \in SoFar(c)
    BY <1>1, <1>5 DEF SoFar
  <2> QED
    BY <1>1, <1>4, <1>5, <2>1 DEF InOrder, Replies
<1>7. CASE AsksMore(c, m)
  <2>1. PICK t \in Tiles, e \in Enables :
          /\ client[c].job = PowerUpJob(t)
          /\ m.words # <<>> /\ e = parse_word(m.words[1]).b
          /\ client' = [client EXCEPT ![c] = [job |-> client[c].job, sent |-> PowerUp(t, e)]]
          /\ inbox' = inbox \cup {Request(c, PowerUp(t, e))}
          /\ on' = on
    BY <1>1, <1>7, EnablesRead
  <2>2. PICK L : L = PowerUp(t, e)
    OBVIOUS
  <2>3. client' = [client EXCEPT ![c] = [job |-> client[c].job, sent |-> L]] /\ Len(L) = 4
        /\ L # <<>> /\ L # ReadEnables /\ L[4].b = WithTile(e, t)
    <3>1. L # <<>>
      BY <2>2 DEF PowerUp
    <3>2. L[4].b = WithTile(e, t)
      <4>1. L[4] = Write(TILE_EN, WithTile(e, t))
        BY <2>2, ScriptWords, Zenon
      <4> QED
        BY <4>1 DEF Write, Word
    <3> QED
      BY <2>1, <2>2, <3>1, <3>2, ScriptWords, ListsDiffer, Zenon
  <2>4. client[c].job # PowerDownJob /\ client[c].job.script # "pacman_util" /\ client[c].job.tile = t
    BY <2>1, JobsDiffer
  <2>5. c \in Powering
    BY <1>4, <2>4 DEF Powering
  <2>6. /\ client'[c].job = client[c].job /\ client'[c].sent = L /\ Powering' = Powering
    <3>1. /\ client'[c].job = client[c].job /\ client'[c].sent = L
          /\ Powering' = (Powering \ {c}) \cup
                           (IF client[c].job.script # "pacman_util" THEN {c} ELSE {})
      BY <2>3, PoweringNext, Zenon
    <3> QED
      BY <2>4, <2>5, <3>1
  <2>7. Settled /\ EnabledTiles(e) = on
    <3>1. client[c].sent = ReadEnables
      BY <1>7 DEF AsksMore
    <3> QED
      BY <1>5, <1>6, <2>1, <2>4, <2>5, <3>1 DEF Reached
  <2>8. UpReached(t, L, 0)'
    <3>1. EnabledTiles(WithTile(e, t)) = on \cup {t}
      BY <2>7, TileAdded
    <3>2. ~ (0 >= 4) /\ 0 < 3
      BY SMT
    <3> QED
      BY <1>2, <2>1, <2>3, <2>7, <3>1, <3>2 DEF UpReached, Settled, EnabledTiles
  <2>9. Reached(c, <<>>)'
    <3>1. Len(<<>>) = 0
      OBVIOUS
    <3> QED
      BY <2>3, <2>4, <2>6, <2>8, <3>1 DEF Reached
  <2>10. Request(c, L).from = c /\ inbox' = inbox \cup {Request(c, L)}
    BY <2>1, <2>2 DEF Request
  <2>11. SoFar(c)' \subseteq {<<>>}
    BY <1>2, <1>3, <2>10 DEF SoFar
  <2>12. \A d \in Powering : d = c
    BY <2>5 DEF InOrder
  <2> QED
    BY <1>2, <2>5, <2>6, <2>9, <2>10, <2>11, <2>12 DEF InOrder
<1>8. CASE Finishes(c)
  <2>1. /\ client' = [client EXCEPT ![c] = Idle] /\ inbox' = inbox
        /\ ~ (client[c].job.script = "power_up_tile" /\ client[c].sent = ReadEnables)
        /\ on' = IF client[c].job.script = "power_up_tile" THEN on \cup {client[c].job.tile} ELSE on
    BY <1>8 DEF Finishes
  <2>2. Powering' = Powering \ {c} /\ \A d \in Clients \ {c} : client'[d] = client[d]
    BY <2>1, PoweringNext, Zenon
  <2>3. /\ \A n \in inbox' : n.from \in Clients
        /\ pc' # "recv" => req'.from \in Clients
    BY <1>2, <2>1 DEF InOrder
  <2>4. CASE c \in Powering
    <3>1. Powering' = {}
      BY <2>2, <2>4 DEF InOrder
    <3>2. Settled'
      <4>1. CASE client[c].job = PowerDownJob
        <5>1. client[c].sent = PowerDown /\ on' = on
          BY <2>1, <2>4, <4>1, PoweringAsks, JobsDiffer
        <5>2. Len(words) = 2 /\ 2 >= 1 /\ 2 >= 2
          BY <1>6, <5>1, ScriptWords
        <5>3. DownReached(2)
          BY <1>6, <2>4, <4>1, <5>2 DEF Reached
        <5> QED
          BY <1>2, <5>1, <5>2, <5>3 DEF DownReached, Settled, EnabledTiles
      <4>2. CASE client[c].job # PowerDownJob
        <5>1. PICK t \in Tiles, e \in Enables : client[c].job = PowerUpJob(t) /\ client[c].sent = PowerUp(t, e)
          BY <2>1, <2>4, <4>2, PoweringAsks, JobsDiffer
        <5>2. on' = on \cup {t} /\ client[c].sent # ReadEnables /\ client[c].job.tile = t
          BY <2>1, <5>1, JobsDiffer
        <5>3. Len(words) = 4 /\ 4 >= 4 /\ ~ (4 < 3)
          <6>1. Len(client[c].sent) = 4
            BY <5>1, ScriptWords, Zenon
          <6> QED
            BY <1>6, <6>1, SMT
        <5>4. UpReached(t, client[c].sent, 4)
          BY <1>6, <2>4, <4>2, <5>2, <5>3 DEF Reached
        <5> QED
          BY <1>2, <5>2, <5>3, <5>4 DEF UpReached, Settled, EnabledTiles
      <4> QED
        BY <4>1, <4>2
    <3> QED
      BY <2>3, <3>1, <3>2 DEF InOrder
  <2>5. CASE c \notin Powering
    <3>1. Powering' = Powering /\ Powering \subseteq Clients \ {c}
      BY <2>2, <2>5 DEF Powering, Busy
    <3>2. on' = on
      BY <1>4, <2>1, <2>5, SentByHand
    <3>3. \A d \in Powering : SoFar(d)' \subseteq SoFar(d)
      BY <1>1, <1>2, <2>1 DEF SoFar
    <3>4. \A d \in Powering : \A answers \in SoFar(d)' : Reached(d, answers)'
      BY <1>2, <2>2, <3>1, <3>2, <3>3, ReachedStays DEF InOrder
    <3>5. Settled => Settled'
      BY <1>2, <3>2, ReachedStays
    <3> QED
      BY <2>3, <3>1, <3>4, <3>5 DEF InOrder
  <2> QED
    BY <2>4, <2>5
<1> QED
  BY <1>1, <1>7, <1>8

LEMMA TilesStep == LoopInv /\ TilesInv /\ [Next]_vars => TilesInv'
<1> SUFFICES ASSUME LoopInv, TilesInv, [Next]_vars, ~ overlap', timeouts' = 0 PROVE InOrder'
  BY DEF TilesInv
<1>1. ASSUME InOrder, UNCHANGED <<pc, req, rep, regs, client, inbox, outbox, on>> PROVE InOrder'
  BY <1>1, OrderIdles DEF InOrder, SoFar
<1>2. ASSUME NEW p, LosesMessages(p), InOrder PROVE InOrder'
  <2>1. /\ inbox' \subseteq inbox /\ outbox' \subseteq outbox
        /\ UNCHANGED <<regs, client, on>>
    BY <1>2 DEF LosesMessages, historyVars
  <2>2. (pc' = "recv" /\ req' = NoRequest) \/ UNCHANGED <<pc, req, rep>>
    BY <1>2 DEF LosesMessages, serverVars
  <2>3. \A c \in Powering : SoFar(c)' \subseteq SoFar(c)
    <3> SUFFICES ASSUME NEW c \in Clients PROVE SoFar(c)' \subseteq SoFar(c)
      BY DEF Powering, Busy
    <3>1. req'.from = c => UNCHANGED <<req, rep>>
      BY <2>2, NumberedClients DEF NoRequest
    <3> QED
      BY <2>1, <3>1 DEF SoFar
  <2> QED
    BY <1>2, <2>1, <2>2, <2>3, OrderIdles DEF InOrder
<1>3. overlap' = overlap /\ timeouts' = timeouts => InOrder
  BY DEF TilesInv
<1>4. CASE Script
  BY <1>1, <1>3, <1>4 DEF Script, serverVars, clientVars, historyVars
<1>5. ASSUME NEW p \in Procs, Process(p) PROVE InOrder'
  <2>1. CASE UNCHANGED <<serverVars, regs, clientVars, logged, cut, historyVars, faults>>
    BY <1>1, <1>3, <2>1 DEF serverVars, clientVars, historyVars
  <2>2. CASE LosesMessages(p)
    BY <1>2, <1>3, <2>2 DEF LosesMessages, historyVars
  <2> QED
    BY <1>5, <2>1, <2>2 DEF Process
<1>6. ASSUME NEW p \in Procs, Killed(p) PROVE InOrder'
  BY <1>2, <1>3, <1>6 DEF Killed, LosesMessages, historyVars
<1>7. CASE UnknownWord
  BY <1>2, <1>3, <1>7 DEF UnknownWord, LosesMessages, historyVars
<1>8. CASE Receive
  <2>1. /\ pc = "recv" /\ UNCHANGED <<rep, regs, client, outbox, on, overlap, timeouts>>
    BY <1>8 DEF Receive, historyVars
  <2>2. PICK m \in inbox : req' = m /\ inbox' = inbox \ {m}
    BY <1>8 DEF Receive
  <2>3. rep = <<>> /\ req = NoRequest
    BY <2>1 DEF LoopInv, Handling
  <2>4. \A c \in Powering : SoFar(c)' \subseteq SoFar(c)
    BY <2>1, <2>2, <2>3 DEF SoFar
  <2> QED
    BY <1>3, <2>1, <2>2, <2>4, OrderIdles DEF InOrder
<1>9. CASE EchoRequest
  <2>1. /\ pc = "words" /\ UNCHANGED <<req, rep, regs, client, inbox, outbox, on, overlap, timeouts>>
    BY <1>9 DEF EchoRequest, clientVars, historyVars
  <2> QED
    BY <1>3, <2>1, OrderIdles DEF InOrder, SoFar
<1>10. CASE Reply
  <2>1. /\ outbox' = outbox \cup {[from |-> c, words |-> rep] : c \in Clients \cap {req.from}}
        /\ pc' = "recv" /\ req' = NoRequest
        /\ UNCHANGED <<regs, client, inbox, on, overlap, timeouts>>
    BY <1>10 DEF Reply, historyVars
  <2>2. \A c \in Powering : SoFar(c)' \subseteq SoFar(c)
    <3> SUFFICES ASSUME NEW c \in Clients PROVE SoFar(c)' \subseteq SoFar(c)
      BY DEF Powering, Busy
    <3>1. req'.from # c
      BY <2>1, NumberedClients DEF NoRequest
    <3>2. \A n \in outbox' : n.from = c => n \in outbox \/ (req.from = c /\ n.words = rep)
      BY <2>1
    <3>3. \A n \in outbox' : n.from = c => n.words \in SoFar(c)
      BY <3>2 DEF SoFar
    <3> QED
      BY <2>1, <3>1, <3>3 DEF SoFar
  <2> QED
    BY <1>3, <2>1, <2>2, OrderIdles DEF InOrder
<1>11. ASSUME HandlesWord(PING) \/ HandlesWord(DATA), NEW b, Answer(b), UNCHANGED <<regs, faults>>
       PROVE  InOrder'
  <2>1. /\ pc = "words" /\ Len(rep) < Len(req.words)
        /\ get_word_type(NextWord) # WRITE /\ get_word_type(NextWord) # READ
    BY <1>11 DEF HandlesWord, PING, DATA, WRITE, READ
  <2>2. InOrder
    BY <1>3, <1>11 DEF Answer, historyVars
  <2> QED
    BY <1>11, <2>1, <2>2, QuietOrder
<1>12. CASE PingWord
  BY <1>11, <1>12 DEF PingWord
<1>13. CASE TxWord
  BY <1>11, <1>13 DEF TxWord
<1>14. CASE ReadWord
  <2>1. pc = "words" /\ Len(rep) < Len(req.words) /\ get_word_type(NextWord) = READ
    BY <1>14 DEF ReadWord, HandlesWord
  <2>2. PICK b : b = set_rep_word_reg(ReplyWord, READ, get_req_word_reg(NextWord),
                                      pacman_read(get_req_word_reg(NextWord)))
    OBVIOUS
  <2>3. Answer(b) /\ UNCHANGED <<regs, faults>>
    BY <1>14, <2>2 DEF ReadWord
  <2>4. InOrder
    BY <1>3, <2>3 DEF Answer, historyVars
  <2>5. get_word_type(NextWord) # WRITE
    BY <2>1 DEF READ, WRITE
  <2> QED
    BY <2>1, <2>2, <2>3, <2>4, <2>5, QuietOrder
<1>15. CASE WriteWord
  <2>1. InOrder
    BY <1>3, <1>15 DEF WriteWord, Answer, historyVars
  <2> QED
    BY <1>15, <2>1, WriteOrder
<1>16. ASSUME NEW c \in Clients, GetReply(c) PROVE InOrder'
  <2>1. InOrder
    BY <1>3, <1>16 DEF GetReply
  <2> QED
    BY <1>16, <2>1, ReplyOrder
<1>17. ASSUME NEW c \in Clients, Timeout(c) PROVE FALSE
  <2>1. timeouts' = timeouts + 1 /\ timeouts \in Nat
    BY <1>17, CmdServerAssumption DEF Timeout, LoopInv, CmdTypes
  <2> QED
    BY <2>1
<1>18. ASSUME NEW c \in Clients, NEW job \in Jobs, Run(c, job) PROVE InOrder'
  <2>1. ~ overlap /\ timeouts = 0
    BY <1>18 DEF Run
  <2>2. InOrder
    BY <2>1 DEF TilesInv
  <2> QED
    BY <1>18, <2>2, RunOrder
<1>19. CASE UNCHANGED vars
  BY <1>1, <1>3, <1>19 DEF vars, serverVars, clientVars, historyVars
<1>20. CASE Loop
  BY <1>7, <1>8, <1>9, <1>10, <1>12, <1>13, <1>14, <1>15, <1>20 DEF Loop, HandleWord
<1> QED
  BY <1>4, <1>5, <1>6, <1>16, <1>17, <1>18, <1>19, <1>20 DEF Next

(* Scripts that end well have done their work: with no two of them at a     *)
(* time and none that timed out, the tiles enabled when none is at work are *)
(* those powered up since the last power_down.sh, however often the server  *)
(* was restarted in between and whatever failed on the I2C bus              *)
(* (power_up_tile.sh:23-33, power_down.sh:10-12).                           *)
THEOREM TilesOnRight == Spec => []TilesOn
<1>1. Init => TilesInv
  <2> SUFFICES ASSUME Init PROVE InOrder
    BY DEF TilesInv
  <2>1. Powering = {}
    BY DEF Init, Powering, Busy
  <2>2. regs[TILE_EN] = 0 /\ regs[PWR_EN] = 0 /\ on = {}
    BY RegisterFacts DEF Init
  <2>3. Settled
    BY <2>2, NoTiles DEF Settled
  <2> QED
    BY <2>1, <2>3 DEF InOrder, Init
<1>2. CmdInv /\ TilesInv /\ [Next]_vars => CmdInv' /\ TilesInv'
  BY CmdStep, TilesStep DEF CmdInv
<1>3. TilesInv => TilesOn
  BY DEF TilesInv, InOrder, Settled, TilesOn
<1> QED
  BY CmdInit, <1>1, <1>2, <1>3, PTL DEF Spec
=============================================================================
