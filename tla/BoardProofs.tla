---------------------------- MODULE BoardProofs ----------------------------
(***************************************************************************)
(* Proofs about the devices behind the port dispatch, for any accesses a    *)
(* guest makes, any image, any amount of RAM and any geometry.               *)
(*                                                                         *)
(* The first part says what each device looks like and that its operations   *)
(* keep it so; the second that an access through the dispatch, however it is  *)
(* split, is made of those operations; the third takes the properties in     *)
(* turn, each with the invariant that carries it.                            *)
(***************************************************************************)
EXTENDS Board, SequenceTheorems, TLAPS

-----------------------------------------------------------------------------
(* The shape of the devices                                                  *)

Word == Seq(Byte)
Stream == Seq(Pair)
LbaRegs == 0..3
IdePorts == \h1F1..\h1F6
IdeType == [disk : Stream, error : Byte, count : Byte, lba : [LbaRegs -> Byte],
            buffer : Stream, index : Nat, pending : Byte, busy : BOOLEAN]

Latch == {a \in Word : Len(a) = 4}
Space == [P!Offsets -> Byte]
PciType == [address : Latch, config : [Present -> Space]]

DmaType == [base : [D!Channels -> D!Halves], count : [D!Channels -> D!Halves],
            page : [D!Channels -> Byte], enabled : SUBSET D!Channels,
            done : SUBSET D!Channels, high : BOOLEAN]

CmosRegs == 0..127
CmosType == [epoch : Nat, elapsed : Nat, index : CmosRegs, nmi : BOOLEAN, ram : [Ram -> Byte]]

CrtcRegs == 0..31
Shown == {Blank} \cup Chars
VgaType == [mode : {3} \cup Modes, row : Byte, col : Byte, text : [V!Places -> Shown],
            index : CrtcRegs, crtc : [CrtcRegs -> Byte], retrace : BOOLEAN]

\* The bytes are not looked into after this.
LEMMA ByteType == /\ \A x \in Byte : x \in Nat /\ x <= 255
                  /\ \A x \in 0..255 : x \in Byte
  BY DEF Byte

\* A register of the ATA controller takes a byte (write_reg).
LEMMA IdeRegType ==
  ASSUME NEW d \in IdeType, NEW port \in IdePorts, NEW v \in Byte
  PROVE  /\ I!WriteReg(d, port, v) \in IdeType
         /\ I!WriteReg(d, port, v).disk = d.disk
         /\ I!WriteReg(d, port, v).buffer = d.buffer
         /\ I!WriteReg(d, port, v).index = d.index
<1>1. CASE port = \h1F1
  <2>1. I!WriteReg(d, port, v) = [d EXCEPT !.error = v]
    BY <1>1 DEF I!WriteReg
  <2> QED
    BY <2>1 DEF IdeType
<1>2. CASE port = \h1F2
  <2>1. I!WriteReg(d, port, v) = [d EXCEPT !.count = v]
    BY <1>2 DEF I!WriteReg
  <2> QED
    BY <2>1 DEF IdeType
<1>3. CASE port \in \h1F3..\h1F6
  <2>1. I!WriteReg(d, port, v) = [d EXCEPT !.lba[port - \h1F3] = v]
    BY <1>3 DEF I!WriteReg
  <2> QED
    BY <2>1 DEF IdeType
<1> QED
  BY <1>1, <1>2, <1>3 DEF IdePorts

\* A command keeps the image and leaves a buffer of words: the sectors the
\* registers name, if they all exist, after a read (command).
LEMMA IdeCommand ==
  ASSUME NEW d \in IdeType, NEW c \in Byte
  PROVE  LET s == Words * I!Lba(d)
             n == Words * I!Sectors(d)
             e == I!Command(d, c)
         IN  /\ s \in Nat /\ n \in Nat
             /\ e \in IdeType /\ e.disk = d.disk /\ e.index = 0
             /\ c \in I!Reads => e.buffer = IF s + n <= Len(d.disk) THEN SubSeq(d.disk, s + 1, s + n) ELSE <<>>
<1> DEFINE s == Words * I!Lba(d)  n == Words * I!Sectors(d)  e == I!Command(d, c)  b == I!Begun(d, c)
<1>1. I!Lba(d) \in Nat /\ I!Sectors(d) \in Nat
  <2>1. d.count \in Nat /\ d.lba[0] \in Nat /\ d.lba[1] \in Nat /\ d.lba[2] \in Nat /\ d.lba[3] \in Nat
    <3>1. d.count \in Byte /\ d.lba \in [LbaRegs -> Byte]
      BY DEF IdeType
    <3>2. 0 \in LbaRegs /\ 1 \in LbaRegs /\ 2 \in LbaRegs /\ 3 \in LbaRegs
      BY DEF LbaRegs
    <3> QED
      BY <3>1, <3>2, ByteType
  <2>2. d.lba[3] % 16 \in Nat
    BY <2>1
  <2> QED
    BY <2>1, <2>2 DEF I!Lba, I!Sectors
<1>2. s \in Nat /\ n \in Nat
  BY <1>1, IdeAssumption
<1> DEFINE sectors == SubSeq(d.disk, s + 1, s + n)  blank == [i \in 1..n |-> I!Null]
<1>3. c \in I!Reads => c \notin I!Writes
  BY DEF I!Reads, I!Writes
<1>4. /\ I!Within(d, s, n) => sectors \in Stream
      /\ blank \in Stream
      /\ <<>> \in Stream
  <2>1. I!Null \in Pair
    BY ByteType DEF I!Null, Pair
  <2>2. d.disk \in Stream
    BY DEF IdeType
  <2> HIDE DEF s, n
  <2>3. I!Within(d, s, n) => sectors \in Stream
    BY <1>2, <2>2 DEF I!Within, Stream
  <2>4. blank \in Stream /\ <<>> \in Stream
    BY <1>2, <2>1 DEF Stream
  <2> QED
    BY <2>3, <2>4
<1>5. /\ c \in I!Reads /\ I!Within(d, s, n) => b = [d EXCEPT !.buffer = sectors, !.error = 0]
      /\ c \in I!Reads /\ ~I!Within(d, s, n) => b = [d EXCEPT !.buffer = <<>>, !.error = 4]
      /\ c \in I!Writes => b = [d EXCEPT !.buffer = blank, !.error = 0]
      /\ c \notin I!Reads /\ c \notin I!Writes => b = [d EXCEPT !.error = 4]
  BY <1>3, Zenon DEF I!Begun
<1>6. I!Within(d, s, n) <=> s + n <= Len(d.disk)
  BY Zenon DEF I!Within
<1> DEFINE within == I!Within(d, s, n)
<1> HIDE DEF s, n, b, sectors, blank, within
<1>7. /\ b \in IdeType /\ b.disk = d.disk
      /\ c \in I!Reads => b.buffer = IF within THEN sectors ELSE <<>>
  <2>3. 0 \in Byte /\ 4 \in Byte
    BY ByteType
  <2>4. CASE c \in I!Reads /\ within
    BY <1>4, <1>5, <2>3, <2>4 DEF within, IdeType
  <2>5. CASE c \in I!Reads /\ ~within
    BY <1>4, <1>5, <2>3, <2>5 DEF within, IdeType
  <2>6. CASE c \in I!Writes
    BY <1>3, <1>4, <1>5, <2>3, <2>6 DEF IdeType
  <2>7. CASE c \notin I!Reads /\ c \notin I!Writes
    BY <1>5, <2>3, <2>7 DEF IdeType
  <2> QED
    BY <2>4, <2>5, <2>6, <2>7
<1>8. e = [b EXCEPT !.pending = c, !.index = 0, !.busy = FALSE]
  BY DEF I!Command, b
<1> HIDE DEF e
<1>9. e \in IdeType /\ e.disk = b.disk /\ e.index = 0 /\ e.buffer = b.buffer
  BY <1>7, <1>8 DEF IdeType
<1>10. c \in I!Reads => e.buffer = IF s + n <= Len(d.disk) THEN sectors ELSE <<>>
  BY <1>6, <1>7, <1>9 DEF within
<1> QED
  BY <1>2, <1>7, <1>9, <1>10 DEF s, n, e, sectors

\* The data port moves within the buffer, in both directions (read_data, write_data).
LEMMA IdeDataType ==
  ASSUME NEW d \in IdeType, NEW v \in Pair
  PROVE  /\ I!WriteData(d, v) \in IdeType /\ I!WriteData(d, v).disk = d.disk
         /\ I!ReadData(d) \in IdeType /\ I!ReadData(d).disk = d.disk
         /\ I!ReadData(d).buffer = d.buffer
         /\ I!ReadData(d).index = IF d.index < Len(d.buffer) THEN d.index + 1 ELSE d.index
<1>1. CASE d.index < Len(d.buffer)
  <2>1. /\ I!WriteData(d, v) = [d EXCEPT !.buffer[d.index + 1] = v, !.index = @ + 1]
        /\ I!ReadData(d) = [d EXCEPT !.index = @ + 1]
    BY <1>1 DEF I!WriteData, I!ReadData, I!AtData
  <2>2. d.buffer \in Stream /\ d.index \in Nat
    BY DEF IdeType
  <2>3. d.index + 1 \in 1..Len(d.buffer)
    BY <1>1, <2>2 DEF Stream
  <2>4. [d.buffer EXCEPT ![d.index + 1] = v] \in Stream
    BY <2>2, <2>3, ExceptSeq DEF Stream
  <2> DEFINE x == [d.buffer EXCEPT ![d.index + 1] = v]  i == d.index + 1
  <2>6. d.index + 1 \in Nat
    BY <2>2
  <2>7. /\ I!WriteData(d, v) = [d EXCEPT !.buffer = x, !.index = i]
        /\ I!ReadData(d) = [d EXCEPT !.index = i]
    BY <2>1
  <2> HIDE DEF x, i
  <2>8. I!WriteData(d, v) \in IdeType /\ I!WriteData(d, v).disk = d.disk
    BY <2>4, <2>6, <2>7 DEF IdeType, x, i
  <2>9. /\ I!ReadData(d) \in IdeType /\ I!ReadData(d).disk = d.disk
        /\ I!ReadData(d).buffer = d.buffer /\ I!ReadData(d).index = i
    BY <2>6, <2>7 DEF IdeType, i
  <2> QED
    BY <1>1, <2>8, <2>9 DEF i
<1>2. CASE ~(d.index < Len(d.buffer))
  BY <1>2 DEF I!WriteData, I!ReadData, I!AtData
<1> QED
  BY <1>1, <1>2

\* What is stored in an image keeps its length (flush_write, Bios::disk).
LEMMA StoredType ==
  ASSUME NEW disk \in Stream, NEW s, NEW words \in Stream
  PROVE  I!Stored(disk, s, words) \in Stream /\ Len(I!Stored(disk, s, words)) = Len(disk)
<1> DEFINE new == [i \in 1..Len(disk) |-> IF i - s \in 1..Len(words) THEN words[i - s] ELSE disk[i]]
<1>1. \A i \in 1..Len(disk) : (IF i - s \in 1..Len(words) THEN words[i - s] ELSE disk[i]) \in Pair
  BY DEF Stream
<1>2. new \in Stream /\ Len(new) = Len(disk)
  BY <1>1 DEF Stream
<1> QED
  BY <1>2 DEF I!Stored

\* The two operations that change the image keep its length and the transfer.
LEMMA IdeStoreType ==
  ASSUME NEW d \in IdeType, NEW at, NEW words \in Stream
  PROVE  /\ I!FlushWrite(d) \in IdeType /\ Len(I!FlushWrite(d).disk) = Len(d.disk)
         /\ I!FlushWrite(d).buffer = d.buffer /\ I!FlushWrite(d).index = d.index
         /\ I!BiosWrite(d, at, words) \in IdeType /\ Len(I!BiosWrite(d, at, words).disk) = Len(d.disk)
         /\ I!BiosWrite(d, at, words).buffer = d.buffer /\ I!BiosWrite(d, at, words).index = d.index
<1>1. /\ I!BiosWrite(d, at, words) \in IdeType /\ Len(I!BiosWrite(d, at, words).disk) = Len(d.disk)
      /\ I!BiosWrite(d, at, words).buffer = d.buffer /\ I!BiosWrite(d, at, words).index = d.index
  <2>1. I!BiosWrite(d, at, words) = [d EXCEPT !.disk = I!Stored(d.disk, at, words)]
    BY DEF I!BiosWrite
  <2>2. d.disk \in Stream
    BY DEF IdeType
  <2> QED
    BY <2>1, <2>2, StoredType DEF IdeType
<1>2. /\ I!FlushWrite(d) \in IdeType /\ Len(I!FlushWrite(d).disk) = Len(d.disk)
      /\ I!FlushWrite(d).buffer = d.buffer /\ I!FlushWrite(d).index = d.index
  <2> DEFINE s == Words * I!Lba(d)  fits == I!Within(d, s, Len(d.buffer))
             disk == IF fits THEN I!Stored(d.disk, s, d.buffer) ELSE d.disk
  <2>1. CASE d.pending \notin I!Writes
    BY <2>1 DEF I!FlushWrite
  <2>2. CASE d.pending \in I!Writes
    <3>1. I!FlushWrite(d) = [d EXCEPT !.pending = 0, !.disk = disk]
      BY <2>2 DEF I!FlushWrite
    <3>2. d.disk \in Stream /\ d.buffer \in Stream
      BY DEF IdeType
    <3>3. disk \in Stream /\ Len(disk) = Len(d.disk)
      BY <3>2, StoredType
    <3> HIDE DEF disk
    <3>4. 0 \in Byte
      BY ByteType
    <3> QED
      BY <3>1, <3>3, <3>4 DEF IdeType
  <2> QED
    BY <2>1, <2>2
<1> QED
  BY <1>1, <1>2

\* The low byte a base address register keeps: a multiple of its size, and its
\* own type bit (write_data).
LEMMA LowByteShape ==
  ASSUME NEW v \in Byte, NEW io \in BOOLEAN
  PROVE  /\ P!LowByte(v, BarSize, io) \in Byte
         /\ io => P!LowByte(v, BarSize, io) % BarSize = 1
<1>1. v \in Nat /\ v <= 255
  BY ByteType
<1>2. BarSize \in {4, 8, 16, 32, 64, 128}
  BY PciAssumption
<1>3. /\ v - (v % BarSize) >= 0 /\ v - (v % BarSize) <= 254 /\ v - (v % BarSize) \in Int
      /\ ((v - (v % BarSize)) + 1) % BarSize = 1
  <2>1. CASE BarSize = 4
    BY <1>1, <2>1
  <2>2. CASE BarSize = 8
    BY <1>1, <2>2
  <2>3. CASE BarSize = 16
    BY <1>1, <2>3
  <2>4. CASE BarSize = 32
    BY <1>1, <2>4
  <2>5. CASE BarSize = 64
    BY <1>1, <2>5
  <2>6. CASE BarSize = 128
    BY <1>1, <2>6
  <2> QED
    BY <1>2, <2>1, <2>2, <2>3, <2>4, <2>5, <2>6
<1> DEFINE m == v - (v % BarSize)
<1>4. P!LowByte(v, BarSize, io) = m + (IF io THEN 1 ELSE 0)
  BY DEF P!LowByte
<1>5. m \in Int /\ m >= 0 /\ m <= 254 /\ (m + 1) % BarSize = 1
  BY <1>3
<1> HIDE DEF m
<1>6. P!LowByte(v, BarSize, io) \in 0..255 /\ (io => P!LowByte(v, BarSize, io) = m + 1)
  BY <1>4, <1>5
<1> QED
  BY <1>5, <1>6 DEF Byte

\* The registers that say what the device is are not among those a write reaches.
LEMMA Identity == /\ \A off \in 0..3 : P!ReadOnly(off)
                  /\ ~P!ReadOnly(\h10)
  BY DEF P!ReadOnly

\* The latch names a register of four bytes.
LEMMA RegType ==
  ASSUME NEW p \in PciType
  PROVE  P!Reg(p) \in Nat /\ P!Reg(p) % 4 = 0
<1>1. p.address \in Latch
  BY DEF PciType
<1>2. p.address[1] \in Byte
  BY <1>1 DEF Latch, Word
<1>3. p.address[1] \in Nat
  BY <1>2, ByteType
<1> QED
  BY <1>3 DEF P!Reg

(* what a write leaves of a function's space: whole, when it is one of the whole *)
(* register, and part, when it goes byte by byte                                *)
Stored(cfg, p, lane, v, whole, part) ==
  /\ P!BarWrite(p, lane, v) =>
       /\ whole \in Space
       /\ \A off \in 0..3 : whole[off] = cfg[off]
       /\ \/ whole[\h10] = cfg[\h10]
          \/ P!Reg(p) = \h10 /\ (cfg[\h10] % 2 = 1 => whole[\h10] % BarSize = 1)
  /\ part \in Space
  /\ \A off \in 0..3 : part[off] = cfg[off]
  /\ part[\h10] = cfg[\h10] \/ \h10 - P!Reg(p) - lane \in 0..(Len(v) - 1)

\* What a write leaves of one function: its identity stays, and the low byte of
\* the first base address register changes only when the write covers it, as a
\* whole register of the size the code masks or in part (write_data).
LEMMA SpaceWrite ==
  ASSUME NEW p \in PciType, NEW lane \in 0..3, NEW v \in Word, Len(v) \in {1, 2, 4}, NEW cfg \in Space
  PROVE  /\ P!Reg(p) \in Nat /\ P!Reg(p) % 4 = 0
         /\ Stored(cfg, p, lane, v, P!BarStored(cfg, P!Reg(p), P!Size(P!Slot(p), (P!Reg(p) - \h10) \div 4), v),
                   P!BytesStored(cfg, P!Reg(p) + lane, v))
<1> DEFINE reg == P!Reg(p)  size == P!Size(P!Slot(p), (reg - \h10) \div 4)
           whole == P!BarStored(cfg, reg, size, v)  part == P!BytesStored(cfg, reg + lane, v)
<1>1. reg \in Nat /\ reg % 4 = 0
  BY RegType
<1> HIDE DEF reg
<1>2. cfg[\h10] \in Nat /\ \A off \in 0..255 : cfg[off] \in Byte
  BY ByteType DEF Space, P!Offsets
<1>3. ASSUME P!BarWrite(p, lane, v)
      PROVE  /\ whole \in Space
             /\ \A off \in 0..3 : whole[off] = cfg[off]
             /\ \/ whole[\h10] = cfg[\h10]
                \/ reg = \h10 /\ (cfg[\h10] % 2 = 1 => whole[\h10] % BarSize = 1)
  <2>1. reg \in \h10..\h27 /\ Len(v) = 4
    BY <1>3 DEF P!BarWrite, reg
  <2>2. v[1] \in Byte /\ v[2] \in Byte /\ v[3] \in Byte /\ v[4] \in Byte
    <3>1. 1 \in 1..Len(v) /\ 2 \in 1..Len(v) /\ 3 \in 1..Len(v) /\ 4 \in 1..Len(v)
      BY <2>1
    <3> QED
      BY <3>1, ElementOfSeq DEF Word
  <2>3. CASE size = 0
    BY <2>3 DEF P!BarStored
  <2>4. CASE size # 0
    <3>1. size = BarSize /\ (reg - \h10) \div 4 = 0
      BY <2>4 DEF P!Size
    <3>2. reg = \h10
      BY <1>1, <2>1, <3>1
    <3> DEFINE low == P!LowByte(v[1], BarSize, cfg[\h10] % 2 = 1)
    <3>3. whole = [cfg EXCEPT ![\h10] = low, ![\h11] = v[2], ![\h12] = v[3], ![\h13] = v[4]]
      <4>1. whole = [cfg EXCEPT ![reg] = P!LowByte(v[1], size, cfg[reg] % 2 = 1),
                                ![reg + 1] = v[2], ![reg + 2] = v[3], ![reg + 3] = v[4]]
        BY <2>4, Zenon DEF P!BarStored
      <4>2. reg + 1 = \h11 /\ reg + 2 = \h12 /\ reg + 3 = \h13
        BY <3>2
      <4> HIDE DEF whole, size
      <4> QED
        BY <4>1, <4>2, <3>1, <3>2, Zenon
    <3>4. low \in Byte /\ (cfg[\h10] % 2 = 1 => low % BarSize = 1)
      BY <2>2, LowByteShape
    <3> HIDE DEF low, whole
    <3>5. whole \in Space
      BY <2>2, <3>3, <3>4 DEF Space
    <3>6. whole[\h10] = low /\ \A off \in 0..3 : whole[off] = cfg[off]
      BY <3>3 DEF Space, P!Offsets
    <3> QED
      BY <3>2, <3>4, <3>5, <3>6
  <2> QED
    BY <2>3, <2>4
<1>4. part \in Space
  <2>1. \A off \in P!Offsets : off - (reg + lane) + 1 \in 1..Len(v) => v[off - (reg + lane) + 1] \in Byte
    BY DEF Word
  <2> QED
    BY <2>1 DEF P!BytesStored, Space
<1>5. \A off \in 0..3 : part[off] = cfg[off]
  <2>1. SUFFICES ASSUME NEW off \in 0..3 PROVE part[off] = cfg[off]
    OBVIOUS
  <2>2. off \in P!Offsets /\ P!ReadOnly(off)
    BY Identity DEF P!Offsets
  <2> QED
    BY <2>2, Zenon DEF P!BytesStored
<1>6. part[\h10] = cfg[\h10] \/ \h10 - reg - lane \in 0..(Len(v) - 1)
  <2>1. part[\h10] = IF \h10 - (reg + lane) + 1 \in 1..Len(v) /\ ~P!ReadOnly(\h10)
                     THEN v[\h10 - (reg + lane) + 1] ELSE cfg[\h10]
    BY DEF P!BytesStored, P!Offsets
  <2>2. CASE ~(\h10 - (reg + lane) + 1 \in 1..Len(v))
    BY <2>1, <2>2, Zenon
  <2>3. CASE \h10 - (reg + lane) + 1 \in 1..Len(v)
    <3>1. PICK n : n = Len(v)
      BY Zenon
    <3>2. n \in {1, 2, 4}
      BY <3>1
    <3>3. \h10 - (reg + lane) + 1 \in 1..n
      BY <2>3, <3>1
    <3> HIDE DEF part
    <3>4. \h10 - reg - lane \in 0..(n - 1)
      BY <1>1, <3>2, <3>3
    <3> QED
      BY <3>1, <3>4
  <2> QED
    BY <2>2, <2>3
<1> HIDE DEF whole, part, size
<1>7. Stored(cfg, p, lane, v, whole, part)
  BY <1>3, <1>4, <1>5, <1>6, Zenon DEF Stored, reg
<1> QED
  BY <1>1, <1>7, Zenon DEF reg, size, whole, part

(* what a write of v at a lane of the data port may do *)
Written(p, q, lane, v) ==
  LET low == p.config[Disk][\h10]
      new == q.config[Disk][\h10]
  IN  /\ q \in PciType /\ q.address = p.address
      /\ \A s \in Present, off \in 0..3 : q.config[s][off] = p.config[s][off]
      /\ \/ new = low
         \/ low % 2 = 1 => new % BarSize = 1
         \/ /\ P!Answers(p) /\ P!Slot(p) = Disk
            /\ ~(lane = 0 /\ Len(v) = 4 /\ P!Reg(p) = \h10)
            /\ \h10 - P!Reg(p) - lane \in 0..(Len(v) - 1)

\* A write to the data port, as SpaceWrite says for the function it reaches.
LEMMA PciWrite ==
  ASSUME NEW p \in PciType, NEW lane \in 0..3, NEW v \in Word, Len(v) \in {1, 2, 4}
  PROVE  Written(p, P!WriteData(p, lane, v), lane, v)
<1> DEFINE q == P!WriteData(p, lane, v)  slot == P!Slot(p)  cfg == p.config[slot]
           whole == P!BarStored(cfg, P!Reg(p), P!Size(slot, (P!Reg(p) - \h10) \div 4), v)
           part == P!BytesStored(cfg, P!Reg(p) + lane, v)
           set == IF P!BarWrite(p, lane, v) THEN whole ELSE part
<1>1. CASE ~P!Answers(p)
  BY <1>1 DEF P!WriteData, Written
<1>2. CASE P!Answers(p)
  <2>1. slot \in Present /\ cfg \in Space
    BY <1>2 DEF P!Answers, PciType
  <2>2. q = [p EXCEPT !.config[slot] = set]
    BY <1>2, Zenon DEF P!WriteData
  <2>3. /\ set \in Space
        /\ \A off \in 0..3 : set[off] = cfg[off]
        /\ \/ set[\h10] = cfg[\h10]
           \/ P!BarWrite(p, lane, v) /\ P!Reg(p) = \h10 /\ (cfg[\h10] % 2 = 1 => set[\h10] % BarSize = 1)
           \/ ~P!BarWrite(p, lane, v) /\ \h10 - P!Reg(p) - lane \in 0..(Len(v) - 1)
    <3>1. Stored(cfg, p, lane, v, whole, part)
      BY <2>1, SpaceWrite, Zenon
    <3> HIDE DEF whole, part
    <3>2. CASE P!BarWrite(p, lane, v)
      BY <3>1, <3>2, Zenon DEF Stored
    <3>3. CASE ~P!BarWrite(p, lane, v)
      BY <3>1, <3>3, Zenon DEF Stored
    <3> QED
      BY <3>2, <3>3, Zenon
  <2> HIDE DEF set, q, slot
  <2>4. q \in PciType /\ q.address = p.address
    BY <2>1, <2>2, <2>3 DEF PciType
  <2>5. \A s \in Present : q.config[s] = IF s = slot THEN set ELSE p.config[s]
    BY <2>1, <2>2 DEF PciType
  <2>6. \A s \in Present, off \in 0..3 : q.config[s][off] = p.config[s][off]
    BY <2>3, <2>5
  <2>7. CASE slot # Disk
    BY <2>4, <2>5, <2>6, <2>7, PciAssumption DEF q, Written
  <2>8. CASE slot = Disk
    <3>1. q.config[Disk] = set /\ cfg = p.config[Disk]
      BY <2>1, <2>5, <2>8
    <3>2. P!BarWrite(p, lane, v) <=> (P!Reg(p) \in \h10..\h27 /\ Len(v) = 4 /\ lane = 0)
      BY DEF P!BarWrite
    <3>3. \h10 \in \h10..\h27
      OBVIOUS
    <3>4. ~P!BarWrite(p, lane, v) => ~(lane = 0 /\ Len(v) = 4 /\ P!Reg(p) = \h10)
      BY <3>2, <3>3
    <3> QED
      BY <1>2, <2>3, <2>4, <2>6, <2>8, <3>1, <3>4 DEF q, slot, Written
  <2> QED
    BY <2>7, <2>8
<1> QED
  BY <1>1, <1>2

\* The base of the window of the disk is a port, and on a boundary of four.
LEMMA IoBaseType ==
  ASSUME NEW p \in PciType
  PROVE  P!IoBase(p) \in Nat /\ P!IoBase(p) <= 65532 /\ P!IoBase(p) % 4 = 0
<1> DEFINE c == p.config[Disk]
<1>1. c \in Space
  BY PciAssumption DEF PciType
<1>2. c[\h10] \in 0..255 /\ c[\h11] \in 0..255
  <2>1. \h10 \in P!Offsets /\ \h11 \in P!Offsets
    BY DEF P!Offsets
  <2>2. c[\h10] \in Byte /\ c[\h11] \in Byte
    BY <1>1, <2>1 DEF Space
  <2> QED
    BY <2>2 DEF Byte
<1>3. P!IoBase(p) = IF c[4] % 2 = 0 THEN 0 ELSE (c[\h10] - (c[\h10] % 4)) + 256 * c[\h11]
  BY DEF P!IoBase
<1> DEFINE x == c[\h10]  y == c[\h11]
<1> HIDE DEF c, x, y
<1>4. x \in 0..255 /\ y \in 0..255 /\ (P!IoBase(p) = 0 \/ P!IoBase(p) = (x - (x % 4)) + 256 * y)
  BY <1>2, <1>3 DEF x, y
<1> DEFINE z == (x - (x % 4)) + 256 * y
<1>5. z \in Nat /\ z <= 65532
  BY <1>4
<1>6. z % 4 = 0
  <2>1. PICK q \in Int : x - (x % 4) = 4 * q
    <3>1. x - (x % 4) = 4 * (x \div 4) /\ x \div 4 \in Int
      BY <1>4
    <3> QED
      BY <3>1
  <2>2. z = 4 * (q + 64 * y) /\ q + 64 * y \in Int
    BY <1>4, <2>1
  <2> QED
    BY <2>2
<1> HIDE DEF z
<1>7. P!IoBase(p) = 0 \/ P!IoBase(p) = z
  BY <1>4 DEF z
<1>8. CASE P!IoBase(p) = 0
  BY <1>8
<1>9. CASE P!IoBase(p) = z
  BY <1>5, <1>6, <1>9
<1> QED
  BY <1>7, <1>8, <1>9

(* the halves that are written through the flip-flop stay *)
DmaKept(d, e) == e \in DmaType /\ e.base = d.base /\ e.count = d.count /\ e.high = d.high

\* What the two registers the ports reach, and the end of a transfer, leave of the
\* DMA controller: no address, no count and not the flip-flop (dma.rs).
LEMMA DmaPorts ==
  ASSUME NEW d \in DmaType, NEW port, NEW v \in Byte
  PROVE  /\ DmaKept(d, D!WritePage(d, port, v)) /\ DmaKept(d, D!WriteMask(d, v))
         /\ \A c \in D!Channels : DmaKept(d, D!Transferred(d, c))
<1>1. v % 4 \in D!Channels
  BY ByteType DEF D!Channels
<1>2. DmaKept(d, D!WritePage(d, port, v))
  <2> DEFINE e == D!WritePage(d, port, v)
  <2>1. e = d \/ e = [d EXCEPT !.page[D!PageOf[port]] = v]
    BY DEF D!WritePage
  <2> HIDE DEF e
  <2>2. DmaKept(d, e)
    BY <2>1 DEF DmaType, DmaKept
  <2> QED
    BY <2>2 DEF e
<1>3. DmaKept(d, D!WriteMask(d, v))
  <2> DEFINE e == D!WriteMask(d, v)
             on == IF (v \div 4) % 2 = 0 THEN d.enabled \cup {v % 4} ELSE d.enabled \ {v % 4}
  <2>1. e = [d EXCEPT !.enabled = on]
    BY Zenon DEF D!WriteMask
  <2>2. on \in SUBSET D!Channels
    BY <1>1 DEF DmaType
  <2> HIDE DEF on, e
  <2>3. DmaKept(d, e)
    BY <2>1, <2>2 DEF DmaType, DmaKept
  <2> QED
    BY <2>3 DEF e
<1>4. ASSUME NEW c \in D!Channels
      PROVE  DmaKept(d, D!Transferred(d, c))
  BY DEF D!Transferred, DmaType, DmaKept
<1> QED
  BY <1>2, <1>3, <1>4

\* A half of an address or count, as the flip-flop names it.
Put(h, high, v) == IF high THEN [h EXCEPT !.hi = v] ELSE [h EXCEPT !.lo = v]

(* what a byte v for a port of a channel does: the half that the flip-flop names *)
(* takes it, and the flip-flop turns                                           *)
Turn(d, e, port, v) ==
  /\ e \in DmaType /\ e.high = ~d.high
  /\ \A c \in D!Channels :
       /\ e.base[c] = IF port = 2 * c THEN Put(d.base[c], d.high, v) ELSE d.base[c]
       /\ e.count[c] = IF port = 2 * c + 1 THEN Put(d.count[c], d.high, v) ELSE d.count[c]

\* A byte for a channel: the flip-flop turns and the half it named takes the byte
\* (write_channel).
LEMMA DmaChannel ==
  ASSUME NEW d \in DmaType, NEW port \in 0..7, NEW v \in ChannelBytes
  PROVE  Turn(d, D!WriteChannel(d, port, v), port, v)
<1> DEFINE k == (port \div 2) % 4  e == D!WriteChannel(d, port, v)
<1>1. /\ k \in D!Channels
      /\ port % 2 = 1 => \A c \in D!Channels : port # 2 * c /\ (port = 2 * c + 1 <=> c = k)
      /\ port % 2 # 1 => \A c \in D!Channels : port # 2 * c + 1 /\ (port = 2 * c <=> c = k)
  BY DEF D!Channels
<1>2. \A h \in D!Halves : Put(h, d.high, v) \in D!Halves
  <2>1. v \in 0..(Radix - 1)
    BY DmaAssumption
  <2> QED
    BY <2>1 DEF D!Halves, Put
<1>3. /\ port % 2 = 1 => e = [d EXCEPT !.high = ~d.high, !.count[k] = Put(d.count[k], d.high, v)]
      /\ port % 2 # 1 => e = [d EXCEPT !.high = ~d.high, !.base[k] = Put(d.base[k], d.high, v)]
  <2>1. d.high \in BOOLEAN /\ d.count \in [D!Channels -> D!Halves] /\ d.base \in [D!Channels -> D!Halves]
    BY DEF DmaType
  <2>2. CASE d.high
    BY <1>1, <2>1, <2>2 DEF D!WriteChannel, D!Half, DmaType, Put
  <2>3. CASE ~d.high
    BY <1>1, <2>1, <2>3 DEF D!WriteChannel, D!Half, DmaType, Put
  <2> QED
    BY <2>1, <2>2, <2>3
<1> HIDE DEF k, e
<1>4. d.base \in [D!Channels -> D!Halves] /\ d.count \in [D!Channels -> D!Halves]
  BY DEF DmaType
<1>5. Put(d.base[k], d.high, v) \in D!Halves /\ Put(d.count[k], d.high, v) \in D!Halves
  BY <1>1, <1>2, <1>4
<1>6. CASE port % 2 = 1
  <2>1. /\ e \in DmaType /\ e.high = ~d.high /\ e.base = d.base
        /\ e.count = [d.count EXCEPT ![k] = Put(d.count[k], d.high, v)]
    <3> DEFINE new == [d.count EXCEPT ![k] = Put(d.count[k], d.high, v)]  turned == ~d.high
    <3>1. e = [d EXCEPT !.high = turned, !.count = new]
      BY <1>3, <1>6 DEF DmaType
    <3>2. new \in [D!Channels -> D!Halves] /\ turned \in BOOLEAN
      BY <1>4, <1>5
    <3> HIDE DEF new, turned
    <3>3. e \in DmaType /\ e.high = turned /\ e.base = d.base /\ e.count = new
      BY <3>1, <3>2 DEF DmaType
    <3> QED
      BY <3>3 DEF new, turned
  <2>2. \A c \in D!Channels : e.count[c] = IF c = k THEN Put(d.count[c], d.high, v) ELSE d.count[c]
    BY <1>4, <2>1
  <2>3. \A c \in D!Channels : port # 2 * c /\ (port = 2 * c + 1 <=> c = k)
    BY <1>1, <1>6
  <2>4. \A c \in D!Channels :
           /\ e.base[c] = IF port = 2 * c THEN Put(d.base[c], d.high, v) ELSE d.base[c]
           /\ e.count[c] = IF port = 2 * c + 1 THEN Put(d.count[c], d.high, v) ELSE d.count[c]
    BY <2>1, <2>2, <2>3, Zenon
  <2> QED
    BY <2>1, <2>4 DEF Turn, e
<1>7. CASE port % 2 # 1
  <2>1. /\ e \in DmaType /\ e.high = ~d.high /\ e.count = d.count
        /\ e.base = [d.base EXCEPT ![k] = Put(d.base[k], d.high, v)]
    <3> DEFINE new == [d.base EXCEPT ![k] = Put(d.base[k], d.high, v)]  turned == ~d.high
    <3>1. e = [d EXCEPT !.high = turned, !.base = new]
      BY <1>3, <1>7 DEF DmaType
    <3>2. new \in [D!Channels -> D!Halves] /\ turned \in BOOLEAN
      BY <1>4, <1>5
    <3> HIDE DEF new, turned
    <3>3. e \in DmaType /\ e.high = turned /\ e.count = d.count /\ e.base = new
      BY <3>1, <3>2 DEF DmaType
    <3> QED
      BY <3>3 DEF new, turned
  <2>2. \A c \in D!Channels : e.base[c] = IF c = k THEN Put(d.base[c], d.high, v) ELSE d.base[c]
    BY <1>4, <2>1
  <2>3. \A c \in D!Channels : port # 2 * c + 1 /\ (port = 2 * c <=> c = k)
    BY <1>1, <1>7
  <2>4. \A c \in D!Channels :
           /\ e.base[c] = IF port = 2 * c THEN Put(d.base[c], d.high, v) ELSE d.base[c]
           /\ e.count[c] = IF port = 2 * c + 1 THEN Put(d.count[c], d.high, v) ELSE d.count[c]
    BY <2>1, <2>2, <2>3, Zenon
  <2> QED
    BY <2>1, <2>4 DEF Turn, e
<1> QED
  BY <1>6, <1>7

\* The clock keeps its shape through its two ports and through a second
\* (cmos.rs, write and read of 0x70 and 0x71, tick_second).
LEMMA CmosOps ==
  ASSUME NEW c \in CmosType, NEW v \in Byte
  PROVE  /\ C!WriteIndex(c, v) \in CmosType /\ C!WriteData(c, v) \in CmosType
         /\ C!ReadData(c) \in CmosType /\ C!TickSecond(c) \in CmosType
<1>1. C!WriteIndex(c, v) \in CmosType
  <2> DEFINE masked == v >= 128  index == v % 128
  <2>1. masked \in BOOLEAN /\ index \in CmosRegs
    BY ByteType DEF CmosRegs
  <2>2. C!WriteIndex(c, v) = [c EXCEPT !.nmi = masked, !.index = index]
    BY DEF C!WriteIndex
  <2> HIDE DEF masked, index
  <2> QED
    BY <2>1, <2>2 DEF CmosType
<1>2. C!WriteData(c, v) \in CmosType
  <2>1. C!WriteData(c, v) = c \/ C!WriteData(c, v) = [c EXCEPT !.ram[c.index] = v]
    BY DEF C!WriteData
  <2> QED
    BY <2>1 DEF CmosType
<1>3. C!ReadData(c) \in CmosType
  <2>1. C!ReadData(c) = c \/ C!ReadData(c) = [c EXCEPT !.ram[C!StatusC] = 0]
    BY DEF C!ReadData
  <2>2. 0 \in Byte
    BY ByteType
  <2> QED
    BY <2>1, <2>2 DEF CmosType
<1>4. C!TickSecond(c) \in CmosType
  <2> DEFINE after == c.elapsed + 1
  <2>1. after \in Nat
    BY DEF CmosType
  <2>2. C!TickSecond(c) = [c EXCEPT !.elapsed = after]
    BY DEF C!TickSecond
  <2> HIDE DEF after
  <2> QED
    BY <2>1, <2>2 DEF CmosType
<1> QED
  BY <1>1, <1>2, <1>3, <1>4

(* the text and the cursor stay *)
VgaKept(v, w) == w \in VgaType /\ w.text = v.text /\ w.row = v.row /\ w.col = v.col

\* What the ports of the display reach is neither its text nor its cursor (vga.rs).
LEMMA VgaPorts ==
  ASSUME NEW v \in VgaType, NEW x \in Byte, NEW r \in BOOLEAN
  PROVE  /\ VgaKept(v, V!WriteIndex(v, x)) /\ VgaKept(v, V!WriteCrtc(v, x))
         /\ VgaKept(v, [v EXCEPT !.retrace = r])
<1>1. VgaKept(v, V!WriteIndex(v, x))
  <2> DEFINE index == x % 32  w == V!WriteIndex(v, x)
  <2>1. index \in CrtcRegs
    BY ByteType DEF CrtcRegs
  <2>2. w = [v EXCEPT !.index = index]
    BY DEF V!WriteIndex
  <2> HIDE DEF index, w
  <2>3. VgaKept(v, w)
    BY <2>1, <2>2 DEF VgaType, VgaKept
  <2> QED
    BY <2>3 DEF w
<1>2. VgaKept(v, V!WriteCrtc(v, x))
  BY DEF V!WriteCrtc, VgaType, VgaKept
<1>3. VgaKept(v, [v EXCEPT !.retrace = r])
  BY DEF VgaType, VgaKept
<1> QED
  BY <1>1, <1>2, <1>3

Screens == [V!Places -> Shown]

\* The services that place the cursor or the text.
LEMMA VgaPlaced ==
  ASSUME NEW v \in VgaType
  PROVE  /\ \A m \in Modes : V!SetMode(v, m) \in VgaType
         /\ \A at \in Cursors : V!SetCursor(v, at[1], at[2]) \in VgaType
         /\ \A at \in Cursors, ch \in Chars : V!WriteString(v, at[1], at[2], <<ch, ch>>) \in VgaType
<1>1. 0 \in Byte /\ \A at \in Cursors : at[1] \in Byte /\ at[2] \in Byte
  BY ByteType, VgaAssumption
<1>2. ASSUME NEW m \in Modes PROVE V!SetMode(v, m) \in VgaType
  <2>1. V!SetMode(v, m) = [v EXCEPT !.mode = m] \/ V!SetMode(v, m) = [v EXCEPT !.mode = m, !.row = 0, !.col = 0]
    BY DEF V!SetMode
  <2> QED
    BY <1>1, <2>1 DEF VgaType
<1>3. ASSUME NEW at \in Cursors PROVE V!SetCursor(v, at[1], at[2]) \in VgaType
  <2> DEFINE r == at[1]  c == at[2]
  <2>1. V!SetCursor(v, r, c) = [v EXCEPT !.row = r, !.col = c]
    BY DEF V!SetCursor
  <2> HIDE DEF r, c
  <2> QED
    BY <1>1, <2>1 DEF VgaType, r, c
<1>4. ASSUME NEW at \in Cursors, NEW ch \in Chars
      PROVE  V!WriteString(v, at[1], at[2], <<ch, ch>>) \in VgaType
  <2> DEFINE r == at[1]  c == at[2]  str == <<ch, ch>>
             text == [p \in V!Places |-> IF p[1] = r /\ p[2] - c + 1 \in 1..Len(str)
                                         THEN str[p[2] - c + 1] ELSE v.text[p]]
  <2>1. V!WriteString(v, r, c, str) = [v EXCEPT !.text = text]
    BY DEF V!WriteString
  <2>2. \A i \in 1..Len(str) : str[i] \in Shown
    <3>1. str[1] = ch /\ str[2] = ch /\ Len(str) = 2
      OBVIOUS
    <3> QED
      BY <3>1 DEF Shown
  <2>3. v.text \in Screens
    BY DEF VgaType, Screens
  <2> HIDE DEF str, r, c
  <2>4. text \in Screens
    BY <2>2, <2>3 DEF Screens
  <2> HIDE DEF text
  <2>5. V!WriteString(v, r, c, str) \in VgaType
    BY <2>1, <2>4 DEF VgaType, Screens
  <2> QED
    BY <2>5 DEF r, c, str
<1> QED
  BY <1>2, <1>3, <1>4

\* A character goes where the cursor is, and the cursor to the next column, the next
\* line, or the last line of a screen scrolled up by one (put_char).
ScrolledUp(text) == [p \in V!Places |-> IF p[1] < Rows - 1 THEN text[<<p[1] + 1, p[2]>>] ELSE Blank]
Put1(v, ch) == IF <<v.row, v.col>> \in V!Places THEN [v.text EXCEPT ![<<v.row, v.col>>] = ch] ELSE v.text
Printed(v, w, ch) ==
  LET put == Put1(v, ch)
  IN  /\ w \in VgaType /\ put \in Screens
      /\ \/ /\ (v.col + 1) % 256 < Cols
            /\ w.col = (v.col + 1) % 256 /\ w.row = v.row /\ w.text = put
         \/ /\ ~((v.col + 1) % 256 < Cols) /\ (v.row + 1) % 256 < Rows
            /\ w.col = 0 /\ w.row = (v.row + 1) % 256 /\ w.text = put
         \/ /\ ~((v.col + 1) % 256 < Cols) /\ ~((v.row + 1) % 256 < Rows)
            /\ w.col = 0 /\ w.row = Rows - 1 /\ w.text = ScrolledUp(put)
LEMMA PutCharShape ==
  ASSUME NEW v \in VgaType, NEW ch \in Chars
  PROVE  Printed(v, V!PutChar(v, ch), ch)
<1> DEFINE put == Put1(v, ch)
           right == (v.col + 1) % 256  below == (v.row + 1) % 256  last == Rows - 1
           w == V!PutChar(v, ch)
           a == [v EXCEPT !.text = put, !.col = right]
           b == [a EXCEPT !.col = 0, !.row = below]
<1>1. v.row \in Byte /\ v.col \in Byte /\ v.text \in Screens
  BY DEF VgaType, Screens
<1>2. right \in Byte /\ below \in Byte /\ last \in Byte /\ 0 \in Byte
  <2>1. v.row \in Nat /\ v.col \in Nat
    BY <1>1, ByteType
  <2>2. right \in 0..255 /\ below \in 0..255
    BY <2>1
  <2>3. last \in 0..255 /\ 0 \in 0..255
    BY VgaAssumption
  <2> QED
    BY <2>2, <2>3, ByteType
<1>3. put \in Screens
  BY <1>1 DEF Screens, Shown, Put1
<1>4. ScrolledUp(put) \in Screens
  <2>1. \A p \in V!Places : p[1] < Rows - 1 => <<p[1] + 1, p[2]>> \in V!Places
    BY VgaAssumption DEF V!Places
  <2> HIDE DEF put
  <2> QED
    BY <1>3, <2>1 DEF ScrolledUp, Screens, Shown
<1>5. V!PutCharAt(v, v.row, v.col, ch) = [v EXCEPT !.text = put]
  BY DEF V!PutCharAt, VgaType, Put1
<1> HIDE DEF put, right, below, last
<1>6. a = [[v EXCEPT !.text = put] EXCEPT !.col = right]
  BY DEF VgaType
<1>7. /\ a \in VgaType /\ a.row = v.row /\ a.col = right /\ a.text = put
      /\ b \in VgaType /\ b.row = below /\ b.col = 0 /\ b.text = put
  BY <1>2, <1>3 DEF VgaType, Screens
<1>8. /\ right < Cols => w = a
      /\ ~(right < Cols) /\ below < Rows => w = b
      /\ ~(right < Cols) /\ ~(below < Rows) => w = [V!Scroll(b) EXCEPT !.row = last]
  <2>1. [V!PutCharAt(v, v.row, v.col, ch) EXCEPT !.col = (@ + 1) % 256] = a
    BY <1>5, <1>6 DEF right, VgaType
  <2>2. [a EXCEPT !.col = 0, !.row = (@ + 1) % 256] = b
    BY <1>7 DEF below
  <2> HIDE DEF a, b
  <2>3. w = IF a.col < Cols THEN a ELSE IF b.row < Rows THEN b ELSE [V!Scroll(b) EXCEPT !.row = Rows - 1]
    <3> DEFINE put1 == [V!PutCharAt(v, v.row, v.col, ch) EXCEPT !.col = (@ + 1) % 256]
               down == [put1 EXCEPT !.col = 0, !.row = (@ + 1) % 256]
    <3>1. w = IF put1.col < Cols THEN put1 ELSE IF down.row < Rows THEN down
              ELSE [V!Scroll(down) EXCEPT !.row = Rows - 1]
      BY Zenon DEF V!PutChar
    <3>2. put1 = a
      BY <2>1
    <3> HIDE DEF put1
    <3>3. down = b
      BY <2>2, <3>2
    <3> HIDE DEF down, w
    <3> QED
      BY <3>1, <3>2, <3>3
  <2> HIDE DEF w
  <2> QED
    BY <1>7, <2>3, Zenon DEF last
<1> HIDE DEF a, b
<1>9. [V!Scroll(b) EXCEPT !.row = last] = [b EXCEPT !.text = ScrolledUp(put), !.row = last]
  <2>1. V!Scroll(b) = [b EXCEPT !.text = ScrolledUp(put)]
    <3>1. V!Scroll(b) = [b EXCEPT !.text = ScrolledUp(b.text)]
      BY Zenon DEF V!Scroll, ScrolledUp
    <3> QED
      BY <3>1, <1>7
  <2> DEFINE up == ScrolledUp(put)
  <2> HIDE DEF up
  <2> QED
    BY <2>1, Zenon DEF up
<1> HIDE DEF w
<1>10. ASSUME ~(right < Cols), ~(below < Rows)
       PROVE  w \in VgaType /\ w.col = 0 /\ w.row = last /\ w.text = ScrolledUp(put)
  <2> DEFINE up == ScrolledUp(put)
  <2>1. up \in Screens /\ w = [b EXCEPT !.text = up, !.row = last]
    BY <1>4, <1>8, <1>9, <1>10
  <2> HIDE DEF up
  <2>2. w \in VgaType /\ w.col = 0 /\ w.row = last /\ w.text = up
    BY <1>2, <1>7, <2>1 DEF VgaType, Screens
  <2> QED
    BY <2>2 DEF up
<1>11. /\ w \in VgaType
       /\ \/ right < Cols /\ w.col = right /\ w.row = v.row /\ w.text = put
          \/ ~(right < Cols) /\ below < Rows /\ w.col = 0 /\ w.row = below /\ w.text = put
          \/ ~(right < Cols) /\ ~(below < Rows) /\ w.col = 0 /\ w.row = last /\ w.text = ScrolledUp(put)
  <2>1. CASE right < Cols
    BY <1>7, <1>8, <2>1
  <2>2. CASE ~(right < Cols) /\ below < Rows
    BY <1>7, <1>8, <2>2
  <2>3. CASE ~(right < Cols) /\ ~(below < Rows)
    BY <1>10, <2>3
  <2> QED
    BY <2>1, <2>2, <2>3
<1> QED
  BY <1>3, <1>11, Zenon DEF Printed, w, put, right, below, last

-----------------------------------------------------------------------------
(* The dispatch                                                              *)

(* What a device behind the board is handed: offsets for the disk, ports for *)
(* the others.                                                              *)
Others == {"pic", "kbd", "pit"}
Event == ({"virtio"} \X (0..(BarSize - 1)) \X Word) \cup (Others \X Port \X Word)

(* a board with the memory m: no port access changes it *)
Boards(m) == [ide : IdeType, pci : PciType, dma : DmaType, cmos : CmosType, vga : VgaType,
              mem : {m}, seen : Seq(Event)]

(* what no port access changes either: the image, the addresses and counts of *)
(* the DMA channels (those ports lead nowhere), the cursor and the screen     *)
Moves(b, c) == /\ c.ide.disk = b.ide.disk
               /\ c.dma.base = b.dma.base /\ c.dma.count = b.dma.count /\ c.dma.high = b.dma.high
               /\ c.vga.text = b.vga.text /\ c.vga.row = b.vga.row /\ c.vga.col = b.vga.col
IdeRests(b, c) == c.ide.buffer = b.ide.buffer /\ c.ide.index = b.ide.index
Unseen(b, c) == VirtioSeen(b) = {} => VirtioSeen(c) = {}

\* A device is replaced by another state of it, and the rest of the board stays.
LEMMA Replaced ==
  ASSUME NEW m, NEW b \in Boards(m)
  PROVE  /\ \A d \in IdeType :
              LET c == [b EXCEPT !.ide = d]
              IN  /\ c \in Boards(m) /\ c.ide = d /\ c.pci = b.pci /\ c.dma = b.dma /\ c.cmos = b.cmos
                  /\ c.vga = b.vga /\ c.seen = b.seen
         /\ \A q \in PciType :
              LET c == [b EXCEPT !.pci = q]
              IN  /\ c \in Boards(m) /\ c.ide = b.ide /\ c.pci = q /\ c.dma = b.dma /\ c.cmos = b.cmos
                  /\ c.vga = b.vga /\ c.seen = b.seen
         /\ \A e \in DmaType :
              LET c == [b EXCEPT !.dma = e]
              IN  /\ c \in Boards(m) /\ c.ide = b.ide /\ c.pci = b.pci /\ c.dma = e /\ c.cmos = b.cmos
                  /\ c.vga = b.vga /\ c.seen = b.seen
         /\ \A f \in CmosType :
              LET c == [b EXCEPT !.cmos = f]
              IN  /\ c \in Boards(m) /\ c.ide = b.ide /\ c.pci = b.pci /\ c.dma = b.dma /\ c.cmos = f
                  /\ c.vga = b.vga /\ c.seen = b.seen
         /\ \A g \in VgaType :
              LET c == [b EXCEPT !.vga = g]
              IN  /\ c \in Boards(m) /\ c.ide = b.ide /\ c.pci = b.pci /\ c.dma = b.dma /\ c.cmos = b.cmos
                  /\ c.vga = g /\ c.seen = b.seen
  BY DEF Boards

\* What another device is handed is recorded, and the board stays (To).
LEMMA Handed ==
  ASSUME NEW m, NEW b \in Boards(m), NEW who, NEW p, NEW v, <<who, p, v>> \in Event
  PROVE  LET c == To(b, who, p, v)
         IN  /\ c \in Boards(m) /\ c.ide = b.ide /\ c.pci = b.pci /\ c.dma = b.dma
             /\ c.cmos = b.cmos /\ c.vga = b.vga
             /\ who # "virtio" => Unseen(b, c)
<1> DEFINE e == <<who, p, v>>  seen == Append(b.seen, e)
<1>1. To(b, who, p, v) = [b EXCEPT !.seen = seen]
  BY DEF To
<1>2. b.seen \in Seq(Event) /\ e \in Event
  BY DEF Boards
<1>3. e[1] = who
  OBVIOUS
<1> HIDE DEF e
<1>4. /\ seen \in Seq(Event) /\ Len(seen) = Len(b.seen) + 1
      /\ \A i \in 1..Len(b.seen) : seen[i] = b.seen[i]
      /\ seen[Len(b.seen) + 1] = e
  BY <1>2
<1> HIDE DEF seen
<1>5. [b EXCEPT !.seen = seen] \in Boards(m)
  BY <1>4 DEF Boards
<1>6. ASSUME who # "virtio", VirtioSeen(b) = {}
      PROVE  VirtioSeen([b EXCEPT !.seen = seen]) = {}
  <2>1. \A i \in 1..Len(b.seen) : b.seen[i][1] # "virtio"
    BY <1>2, <1>6 DEF VirtioSeen
  <2>2. \A i \in 1..Len(seen) : seen[i][1] # "virtio"
    <3> SUFFICES ASSUME NEW i \in 1..Len(seen) PROVE seen[i][1] # "virtio"
      OBVIOUS
    <3>1. i \in 1..Len(b.seen) \/ i = Len(b.seen) + 1
      BY <1>2, <1>4
    <3> QED
      BY <2>1, <3>1, <1>3, <1>4, <1>6
  <2>3. [b EXCEPT !.seen = seen].seen = seen /\ DOMAIN seen = 1..Len(seen)
    BY <1>4 DEF Boards
  <2> QED
    BY <2>2, <2>3 DEF VirtioSeen
<1> QED
  BY <1>1, <1>5, <1>6 DEF Boards, Unseen

(* every device is as it was *)
Still(b, c) == c.ide = b.ide /\ c.pci = b.pci /\ c.dma = b.dma /\ c.cmos = b.cmos /\ c.vga = b.vga

\* A window that wraps around the port space is not decoded (virtio_port).
LEMMA VirtioWindow ==
  ASSUME NEW m, NEW b \in Boards(m), NEW p \in Port
  PROVE  LET base == P!IoBase(b.pci)
         IN  /\ Claimed(b, p) <=> base # 0 /\ base < 65536 - BarSize /\ p \in base..(base + BarSize - 1)
             /\ Claimed(b, p) => p - base \in 0..(BarSize - 1)
<1> DEFINE base == P!IoBase(b.pci)
<1>1. base \in Nat /\ base <= 65532 /\ base % 4 = 0
  BY IoBaseType DEF Boards
<1>2. BarSize \in Nat /\ BarSize <= 128 /\ BarSize > 0 /\ p \in Nat /\ p < 65536
  BY PciAssumption DEF Port
<1> HIDE DEF base
<1>3. CASE base + BarSize < 65536
  <2>1. (base + BarSize) % 65536 = base + BarSize
    BY <1>1, <1>2, <1>3
  <2> QED
    BY <1>1, <1>2, <1>3, <2>1 DEF Claimed, base
<1>4. CASE ~(base + BarSize < 65536)
  <2>1. (base + BarSize) % 65536 = base + BarSize - 65536
    BY <1>1, <1>2, <1>4
  <2> QED
    BY <1>1, <1>2, <1>4, <2>1 DEF Claimed, base
<1> QED
  BY <1>3, <1>4 DEF base

\* An access inside the window goes to the virtio disk and nowhere else.
LEMMA ClaimedAccess ==
  ASSUME NEW m, NEW b \in Boards(m), NEW p \in Port, NEW v \in Word, Claimed(b, p)
  PROVE  ToVirtio(b, p, v) \in Boards(m) /\ Still(b, ToVirtio(b, p, v))
<1>1. <<"virtio", p - P!IoBase(b.pci), v>> \in Event
  BY VirtioWindow DEF Event
<1> QED
  BY <1>1, Handed DEF ToVirtio, Still

\* A byte written to a port reaches one device, or none (port_out8).
LEMMA OwnByteOut ==
  ASSUME NEW m, NEW b \in Boards(m), NEW p \in Port, NEW v \in Byte
  PROVE  LET c == OwnOut8(b, p, v)
         IN  /\ c \in Boards(m) /\ Moves(b, c) /\ Unseen(b, c)
             /\ p # \h1F7 => IdeRests(b, c)
             /\ p = \h1F7 => c.ide = I!Command(b.ide, v)
             /\ p \notin PciData => c.pci = b.pci
             /\ p \in PciData => c.pci = P!WriteData(b.pci, p - \hCFC, <<v>>) /\ c.ide = b.ide
<1> DEFINE c == OwnOut8(b, p, v)
<1>1. /\ b.ide \in IdeType /\ b.pci \in PciType /\ b.dma \in DmaType /\ b.cmos \in CmosType
      /\ b.vga \in VgaType
  BY DEF Boards
<1>2. <<v>> \in Word /\ Len(<<v>>) = 1
  BY DEF Word
<1>3. CASE p \in PciData
  <2> DEFINE q == P!WriteData(b.pci, p - \hCFC, <<v>>)
  <2>1. q \in PciType
    <3> DEFINE lane == p - \hCFC
    <3>1. lane \in 0..3
      BY <1>3 DEF PciData
    <3> HIDE DEF lane
    <3>2. P!WriteData(b.pci, lane, <<v>>) \in PciType
      BY <1>1, <1>2, <3>1, PciWrite DEF Written
    <3> QED
      BY <3>2 DEF lane
  <2>2. c = [b EXCEPT !.pci = q]
    BY <1>3 DEF OwnOut8, Outside, PciData
  <2>3. p # \h1F7
    BY <1>3 DEF PciData
  <2> HIDE DEF q, c
  <2>4. /\ c \in Boards(m) /\ c.ide = b.ide /\ c.pci = q /\ c.dma = b.dma /\ c.cmos = b.cmos
        /\ c.vga = b.vga /\ c.seen = b.seen
    BY <1>1, <2>1, <2>2, Replaced
  <2> QED
    BY <2>3, <2>4, <1>3 DEF Moves, Unseen, VirtioSeen, IdeRests, q, c
<1>4. CASE p \in Outside
  <2>1. <<Owner(p), p, <<v>>>> \in Event /\ Owner(p) # "virtio"
    BY <1>2 DEF Event, Others, Owner
  <2>2. c = To(b, Owner(p), p, <<v>>)
    BY <1>4 DEF OwnOut8, Outside, PciData
  <2>3. p # \h1F7 /\ p \notin PciData
    BY <1>4 DEF Outside, PciData
  <2> HIDE DEF c
  <2> QED
    BY <2>1, <2>2, <2>3, Handed DEF Moves, IdeRests, c
<1>5. CASE p = \h0A \/ p \in \h81..\h8F
  <2> DEFINE e == IF p = \h0A THEN D!WriteMask(b.dma, v) ELSE D!WritePage(b.dma, p, v)
  <2>1. e \in DmaType /\ e.base = b.dma.base /\ e.count = b.dma.count /\ e.high = b.dma.high
    <3>1. DmaKept(b.dma, D!WriteMask(b.dma, v)) /\ DmaKept(b.dma, D!WritePage(b.dma, p, v))
      BY <1>1, DmaPorts
    <3> QED
      BY <3>1 DEF DmaKept
  <2>2. c = [b EXCEPT !.dma = e]
    BY <1>5 DEF OwnOut8, Outside, PciData
  <2>3. p # \h1F7 /\ p \notin PciData
    BY <1>5 DEF PciData
  <2> HIDE DEF c, e
  <2>4. /\ c \in Boards(m) /\ c.ide = b.ide /\ c.pci = b.pci /\ c.dma = e /\ c.cmos = b.cmos
        /\ c.vga = b.vga /\ c.seen = b.seen
    BY <1>1, <2>1, <2>2, Replaced
  <2> QED
    BY <2>1, <2>3, <2>4 DEF Moves, Unseen, VirtioSeen, IdeRests, c
<1>6. CASE p \in \h1F1..\h1F6
  <2> DEFINE d == I!WriteReg(b.ide, p, v)
  <2>1. d \in IdeType /\ d.disk = b.ide.disk /\ d.buffer = b.ide.buffer /\ d.index = b.ide.index
    <3>1. p \in IdePorts
      BY <1>6 DEF IdePorts
    <3> HIDE DEF c
    <3> QED
      BY <1>1, <3>1, IdeRegType
  <2>2. c = [b EXCEPT !.ide = d]
    BY <1>6 DEF OwnOut8, Outside, PciData
  <2>3. p # \h1F7 /\ p \notin PciData
    BY <1>6 DEF PciData
  <2> HIDE DEF c, d
  <2>4. /\ c \in Boards(m) /\ c.ide = d /\ c.pci = b.pci /\ c.dma = b.dma /\ c.cmos = b.cmos
        /\ c.vga = b.vga /\ c.seen = b.seen
    BY <1>1, <2>1, <2>2, Replaced
  <2> QED
    BY <2>1, <2>3, <2>4 DEF Moves, Unseen, VirtioSeen, IdeRests, c
<1>7. CASE p = \h1F7
  <2> DEFINE d == I!Command(b.ide, v)
  <2>1. d \in IdeType /\ d.disk = b.ide.disk
    BY <1>1, IdeCommand
  <2>2. c = [b EXCEPT !.ide = d]
    BY <1>7 DEF OwnOut8, Outside, PciData
  <2>3. p \notin PciData
    BY <1>7 DEF PciData
  <2> HIDE DEF c, d
  <2>4. /\ c \in Boards(m) /\ c.ide = d /\ c.pci = b.pci /\ c.dma = b.dma /\ c.cmos = b.cmos
        /\ c.vga = b.vga /\ c.seen = b.seen
    BY <1>1, <2>1, <2>2, Replaced
  <2> QED
    BY <1>7, <2>1, <2>3, <2>4 DEF Moves, Unseen, VirtioSeen, d, c
<1>8. CASE p \in {\h3D4, \h3D5}
  <2> DEFINE g == IF p = \h3D4 THEN V!WriteIndex(b.vga, v) ELSE V!WriteCrtc(b.vga, v)
  <2>1. g \in VgaType /\ g.text = b.vga.text /\ g.row = b.vga.row /\ g.col = b.vga.col
    <3>1. VgaKept(b.vga, V!WriteIndex(b.vga, v)) /\ VgaKept(b.vga, V!WriteCrtc(b.vga, v))
      BY <1>1, VgaPorts
    <3> QED
      BY <3>1 DEF VgaKept
  <2>2. c = [b EXCEPT !.vga = g]
    BY <1>8 DEF OwnOut8, Outside, PciData
  <2>3. p # \h1F7 /\ p \notin PciData
    BY <1>8 DEF PciData
  <2> HIDE DEF c, g
  <2>4. /\ c \in Boards(m) /\ c.ide = b.ide /\ c.pci = b.pci /\ c.dma = b.dma /\ c.cmos = b.cmos
        /\ c.vga = g /\ c.seen = b.seen
    BY <1>1, <2>1, <2>2, Replaced
  <2> QED
    BY <2>1, <2>3, <2>4 DEF Moves, Unseen, VirtioSeen, IdeRests, c
<1>9. CASE p \in {\h70, \h71}
  <2> DEFINE f == IF p = \h70 THEN C!WriteIndex(b.cmos, v) ELSE C!WriteData(b.cmos, v)
  <2>1. f \in CmosType
    BY <1>1, CmosOps
  <2>2. c = [b EXCEPT !.cmos = f]
    BY <1>9 DEF OwnOut8, Outside, PciData
  <2>3. p # \h1F7 /\ p \notin PciData
    BY <1>9 DEF PciData
  <2> HIDE DEF c, f
  <2>4. /\ c \in Boards(m) /\ c.ide = b.ide /\ c.pci = b.pci /\ c.dma = b.dma /\ c.cmos = f
        /\ c.vga = b.vga /\ c.seen = b.seen
    BY <1>1, <2>1, <2>2, Replaced
  <2> QED
    BY <2>3, <2>4 DEF Moves, Unseen, VirtioSeen, IdeRests, c
<1>10. CASE /\ p \notin PciData /\ p \notin Outside /\ p # \h0A /\ p \notin \h81..\h8F
            /\ p \notin \h1F1..\h1F6 /\ p # \h1F7 /\ p \notin {\h3D4, \h3D5} /\ p \notin {\h70, \h71}
  <2>1. c = b
    BY <1>10 DEF OwnOut8
  <2> QED
    BY <1>10, <2>1 DEF Moves, Unseen, IdeRests, c
<1> QED
  BY <1>3, <1>4, <1>5, <1>6, <1>7, <1>8, <1>9, <1>10

(* a command begins, and leaves the buffer and the index it leaves *)
Begins(b, c, x) == /\ c.ide.buffer = I!Command(b.ide, x).buffer
                   /\ c.ide.index = I!Command(b.ide, x).index

(* an access of n bytes reaches the low byte of the disk's base address register, *)
(* and not with the whole of it                                                *)
Low(x) == x.config[Disk][\h10]
Narrow(x, p, n) == /\ P!Answers(x) /\ P!Slot(x) = Disk /\ P!Reg(x) <= \h10
                   /\ ~(p = \hCFC /\ n = 4 /\ P!Reg(x) = \h10) /\ p <= \hCFF
                   /\ \h10 - P!Reg(x) \in (p - \hCFC)..(p - \hCFC + n - 1)
BarKept(x, y, p, n) ==
  /\ \A s \in Present, off \in 0..3 : y.config[s][off] = x.config[s][off]
  /\ Low(x) % BarSize = 1 /\ ~Narrow(x, p, n) => Low(y) % BarSize = 1
Configured(x, y, p, n) == y.address = x.address /\ BarKept(x, y, p, n)

\* A write to the data port of the configuration space (write_data).
LEMMA ConfigOut ==
  ASSUME NEW x \in PciType, NEW p \in PciData, NEW v \in Word, Len(v) \in {1, 2, 4}
  PROVE  LET y == P!WriteData(x, p - \hCFC, v)
         IN  /\ y \in PciType
             /\ Len(v) = 1 => Configured(x, y, p, 1)
             /\ Len(v) = 2 => Configured(x, y, p, 2)
             /\ Len(v) = 4 => Configured(x, y, p, 4)
<1> DEFINE lane == p - \hCFC  y == P!WriteData(x, lane, v)  low == Low(x)  new == Low(y)
<1>2. lane \in 0..3 /\ p = lane + \hCFC /\ p \in Nat
  BY DEF PciData
<1> HIDE DEF lane
<1>3. /\ y \in PciType /\ y.address = x.address
      /\ \A s \in Present, off \in 0..3 : y.config[s][off] = x.config[s][off]
      /\ \/ new = low
         \/ low % 2 = 1 => new % BarSize = 1
         \/ /\ P!Answers(x) /\ P!Slot(x) = Disk
            /\ ~(lane = 0 /\ Len(v) = 4 /\ P!Reg(x) = \h10)
            /\ \h10 - P!Reg(x) - lane \in 0..(Len(v) - 1)
  <2>1. Written(x, y, lane, v)
    BY <1>2, PciWrite
  <2> HIDE DEF y
  <2> QED
    BY <2>1 DEF Written, Low
<1> HIDE DEF y
<1>4. low \in Nat /\ P!Reg(x) \in Nat
  <2>1. low \in Byte
    BY PciAssumption DEF Low, PciType, Space, P!Offsets
  <2> QED
    BY <2>1, ByteType, RegType
<1>5. low % BarSize = 1 => low % 2 = 1
  BY <1>4, PciAssumption
<1>6. ASSUME P!Answers(x), P!Slot(x) = Disk,
             ~(lane = 0 /\ Len(v) = 4 /\ P!Reg(x) = \h10),
             \h10 - P!Reg(x) - lane \in 0..(Len(v) - 1)
      PROVE  Narrow(x, p, Len(v))
  BY <1>2, <1>4, <1>6 DEF Narrow
<1>7. low % BarSize = 1 /\ ~Narrow(x, p, Len(v)) => new % BarSize = 1
  <2> HIDE DEF low, new
  <2> QED
    BY <1>3, <1>5, <1>6
<1>8. Configured(x, y, p, Len(v))
  BY <1>3, <1>7 DEF BarKept, Configured
<1>9. /\ Len(v) = 1 => Configured(x, y, p, 1)
      /\ Len(v) = 2 => Configured(x, y, p, 2)
      /\ Len(v) = 4 => Configured(x, y, p, 4)
  <2> DEFINE n == Len(v)
  <2>1. Configured(x, y, p, n)
    BY <1>8
  <2> HIDE DEF n
  <2>2. (n = 1 => Configured(x, y, p, 1)) /\ (n = 2 => Configured(x, y, p, 2)) /\ (n = 4 => Configured(x, y, p, 4))
    BY <2>1
  <2> QED
    BY <2>2, Zenon DEF n
<1> QED
  BY <1>3, <1>9 DEF y, lane

\* The port after a port, which wraps (add_port).
LEMMA NextPort ==
  ASSUME NEW p \in Port
  PROVE  /\ Next16(p, 1) \in Port /\ Next16(p, 1) = IF p + 1 < 65536 THEN p + 1 ELSE p + 1 - 65536
         /\ Next16(p, 2) \in Port /\ Next16(p, 2) = IF p + 2 < 65536 THEN p + 2 ELSE p + 2 - 65536
         /\ Next16(p, 3) \in Port /\ Next16(p, 3) = IF p + 3 < 65536 THEN p + 3 ELSE p + 3 - 65536
<1> SUFFICES ASSUME NEW n \in 1..3
             PROVE  Next16(p, n) \in Port /\ Next16(p, n) = IF p + n < 65536 THEN p + n ELSE p + n - 65536
  OBVIOUS
<1>1. p \in Nat /\ p < 65536 /\ p + n \in Nat /\ p + n < 131072
  BY DEF Port
<1>2. CASE p + n < 65536
  <2>1. (p + n) % 65536 = p + n
    BY <1>1, <1>2
  <2> QED
    BY <1>1, <1>2, <2>1 DEF Next16, Port
<1>3. CASE ~(p + n < 65536)
  <2>1. (p + n) % 65536 = p + n - 65536
    BY <1>1, <1>3
  <2> QED
    BY <1>1, <1>3, <2>1 DEF Next16, Port
<1> QED
  BY <1>2, <1>3

\* A byte written to a port, the window first (port_out8).
LEMMA ByteOut ==
  ASSUME NEW m, NEW b \in Boards(m), NEW p \in Port, NEW v \in Byte
  PROVE  LET c == Out8(b, p, v)
         IN  /\ c \in Boards(m) /\ Moves(b, c)
             /\ p # \h1F7 => IdeRests(b, c)
             /\ p = \h1F7 /\ ~Claimed(b, p) => Begins(b, c, v)
             /\ p \notin PciData => c.pci = b.pci
             /\ Configured(b.pci, c.pci, p, 1)
             /\ Claimed(b, p) => Still(b, c)
             /\ ~Claimed(b, p) => Unseen(b, c)
<1> DEFINE c == Out8(b, p, v)
<1>1. <<v>> \in Word /\ Len(<<v>>) = 1
  BY DEF Word
<1>2. CASE Claimed(b, p)
  <2>1. c = ToVirtio(b, p, <<v>>)
    BY <1>2 DEF Out8
  <2> HIDE DEF c
  <2>2. c \in Boards(m) /\ Still(b, c)
    BY <1>1, <1>2, <2>1, ClaimedAccess
  <2> QED
    BY <1>2, <2>2 DEF Still, Moves, IdeRests, BarKept, Configured, c
<1>3. CASE ~Claimed(b, p)
  <2>1. c = OwnOut8(b, p, v)
    BY <1>3 DEF Out8
  <2> HIDE DEF c
  <2>2. /\ c \in Boards(m) /\ Moves(b, c) /\ Unseen(b, c)
        /\ p # \h1F7 => IdeRests(b, c)
        /\ p = \h1F7 => c.ide = I!Command(b.ide, v)
        /\ p \notin PciData => c.pci = b.pci
        /\ p \in PciData => c.pci = P!WriteData(b.pci, p - \hCFC, <<v>>)
    BY <2>1, OwnByteOut
  <2>3. Configured(b.pci, c.pci, p, 1)
    <3>1. CASE p \in PciData
      <4> DEFINE w == <<v>>  x == b.pci
      <4>1. w \in Word /\ Len(w) = 1 /\ x \in PciType
        BY <1>1 DEF Boards
      <4>2. c.pci = P!WriteData(x, p - \hCFC, w)
        BY <2>2, <3>1
      <4> HIDE DEF w, x
      <4>3. Configured(x, P!WriteData(x, p - \hCFC, w), p, 1)
        BY <3>1, <4>1, ConfigOut
      <4> QED
        BY <4>1, <4>2, <4>3 DEF x
    <3>2. CASE p \notin PciData
      BY <2>2, <3>2 DEF BarKept, Configured
    <3> QED
      BY <3>1, <3>2
  <2> QED
    BY <1>3, <2>2, <2>3 DEF Begins, c
<1> QED
  BY <1>2, <1>3

\* A word at the data port of the configuration space, the ATA data port or a
\* register reaches one device, and any other word is two bytes (port_out16).
LEMMA OwnHalfOut ==
  ASSUME NEW m, NEW b \in Boards(m), NEW p \in Port, NEW v \in Pair
  PROVE  LET c == OwnOut16(b, p, v)
             second == Next16(p, 1)
         IN  /\ c \in Boards(m) /\ Moves(b, c)
             /\ p \notin {\h1F0, \h1F7} => IdeRests(b, c)
             /\ p = \h1F7 => Begins(b, c, v[1])
             /\ p \notin \hCFB..\hCFF => c.pci = b.pci
             /\ ~Claimed(b, p) => Configured(b.pci, c.pci, p, 2)
             /\ p \in PciData => Unseen(b, c)
             /\ ~Claimed(b, p) /\ ~Claimed(b, second) => Unseen(b, c)
<1> DEFINE c == OwnOut16(b, p, v)  second == Next16(p, 1)
<1>1. /\ b.ide \in IdeType /\ b.pci \in PciType
  BY DEF Boards
<1>2. v \in Word /\ Len(v) = 2 /\ v[1] \in Byte /\ v[2] \in Byte
  <2>1. 1 \in 1..Len(v) /\ 2 \in 1..Len(v)
    BY DEF Pair
  <2> QED
    BY <2>1, ElementOfSeq DEF Pair, Word
<1>3. CASE p \in PciData
  <2> DEFINE x == b.pci  q == P!WriteData(x, p - \hCFC, v)
  <2>1. x \in PciType /\ v \in Word /\ Len(v) = 2
    BY <1>1, <1>2
  <2>2. c = [b EXCEPT !.pci = q]
    BY <1>3 DEF OwnOut16, PciData
  <2> HIDE DEF x
  <2>3. q \in PciType /\ Configured(x, q, p, 2)
    BY <1>3, <2>1, ConfigOut
  <2> HIDE DEF q, c
  <2>4. /\ c \in Boards(m) /\ c.ide = b.ide /\ c.pci = q /\ c.dma = b.dma /\ c.cmos = b.cmos
        /\ c.vga = b.vga /\ c.seen = b.seen
    BY <2>2, <2>3, Replaced
  <2>5. p \in \hCFB..\hCFF /\ p # \h1F7
    BY <1>3 DEF PciData
  <2> QED
    BY <2>3, <2>4, <2>5 DEF Moves, IdeRests, Unseen, VirtioSeen, x, c
<1>4. CASE p = \h1F0
  <2> DEFINE d == I!WriteData(b.ide, v)
  <2>1. d \in IdeType /\ d.disk = b.ide.disk
    BY <1>1, IdeDataType
  <2>2. c = [b EXCEPT !.ide = d]
    BY <1>4 DEF OwnOut16, PciData
  <2> HIDE DEF d, c
  <2>3. /\ c \in Boards(m) /\ c.ide = d /\ c.pci = b.pci /\ c.dma = b.dma /\ c.cmos = b.cmos
        /\ c.vga = b.vga /\ c.seen = b.seen
    BY <2>1, <2>2, Replaced
  <2>4. p \notin \hCFB..\hCFF /\ p \notin PciData /\ p # \h1F7
    BY <1>4 DEF PciData
  <2> QED
    BY <1>4, <2>1, <2>3, <2>4 DEF Moves, Unseen, VirtioSeen, Configured, BarKept, c
<1>5. CASE p \in \h1F1..\h1F6
  <2> DEFINE d == I!WriteReg(b.ide, p, v[1])
  <2>1. d \in IdeType /\ d.disk = b.ide.disk /\ d.buffer = b.ide.buffer /\ d.index = b.ide.index
    <3>1. p \in IdePorts
      BY <1>5 DEF IdePorts
    <3> HIDE DEF c
    <3> QED
      BY <1>1, <1>2, <3>1, IdeRegType
  <2>2. c = [b EXCEPT !.ide = d]
    BY <1>5 DEF OwnOut16, PciData
  <2> HIDE DEF d, c
  <2>3. /\ c \in Boards(m) /\ c.ide = d /\ c.pci = b.pci /\ c.dma = b.dma /\ c.cmos = b.cmos
        /\ c.vga = b.vga /\ c.seen = b.seen
    BY <2>1, <2>2, Replaced
  <2>4. p \notin \hCFB..\hCFF /\ p \notin PciData /\ p # \h1F7
    BY <1>5 DEF PciData
  <2> QED
    BY <2>1, <2>3, <2>4 DEF Moves, IdeRests, Unseen, VirtioSeen, Configured, BarKept, c
<1>6. CASE p = \h1F7
  <2> DEFINE d == I!Command(b.ide, v[1])
  <2>1. d \in IdeType /\ d.disk = b.ide.disk
    BY <1>1, <1>2, IdeCommand
  <2>2. c = [b EXCEPT !.ide = d]
    BY <1>6 DEF OwnOut16, PciData
  <2> HIDE DEF d, c
  <2>3. /\ c \in Boards(m) /\ c.ide = d /\ c.pci = b.pci /\ c.dma = b.dma /\ c.cmos = b.cmos
        /\ c.vga = b.vga /\ c.seen = b.seen
    BY <2>1, <2>2, Replaced
  <2>4. p \notin \hCFB..\hCFF /\ p \notin PciData
    BY <1>6 DEF PciData
  <2> QED
    BY <1>6, <2>1, <2>3, <2>4 DEF Moves, Begins, Unseen, VirtioSeen, Configured, BarKept, c, d
<1>7. CASE p = \h3F6
  <2>1. c = b
    BY <1>7 DEF OwnOut16, PciData
  <2>2. p \notin \hCFB..\hCFF /\ p \notin PciData /\ p # \h1F7
    BY <1>7 DEF PciData
  <2> HIDE DEF c
  <2> QED
    BY <2>1, <2>2 DEF Moves, IdeRests, Unseen, Configured, BarKept, c
<1>8. CASE p \notin PciData /\ p # \h1F0 /\ p \notin \h1F1..\h1F6 /\ p # \h1F7 /\ p # \h3F6
  <2> DEFINE one == Out8(b, p, v[1])
  <2>1. c = Out8(one, second, v[2])
    BY <1>8 DEF OwnOut16
  <2>2. second \in Port /\ second = IF p + 1 < 65536 THEN p + 1 ELSE p + 1 - 65536
    BY NextPort
  <2>3. p \in Nat /\ p < 65536
    BY DEF Port
  <2>4. /\ one \in Boards(m) /\ Moves(b, one) /\ IdeRests(b, one) /\ one.pci = b.pci
        /\ ~Claimed(b, p) => Unseen(b, one)
    BY <1>2, <1>8, ByteOut
  <2>5. second # \h1F7
    BY <1>8, <2>2, <2>3
  <2>6. second \in PciData => p = \hCFB
    BY <1>8, <2>2, <2>3 DEF PciData
  <2>7. Claimed(one, second) <=> Claimed(b, second)
    BY <2>4 DEF Claimed
  <2> HIDE DEF one, c, second
  <2>8. /\ c \in Boards(m) /\ Moves(one, c) /\ IdeRests(one, c)
        /\ second \notin PciData => c.pci = one.pci
        /\ Configured(one.pci, c.pci, second, 1)
        /\ ~Claimed(one, second) => Unseen(one, c)
    BY <1>2, <2>1, <2>2, <2>4, <2>5, ByteOut, SMTT(20)
  <2>9. Moves(b, c) /\ IdeRests(b, c)
    BY <2>4, <2>8 DEF Moves, IdeRests
  <2>10. p \notin \hCFB..\hCFF => c.pci = b.pci
    BY <2>4, <2>6, <2>8
  <2>11. Configured(b.pci, c.pci, p, 2)
    <3>1. CASE second \notin PciData
      BY <2>4, <2>8, <3>1 DEF Configured, BarKept
    <3>2. CASE second \in PciData
      <4>1. p = \hCFB /\ second = \hCFC
        BY <2>2, <2>6, <3>2 DEF PciData
      <4> DEFINE x == b.pci  reg == P!Reg(x)
      <4>2. reg \in Nat
        BY <1>1, RegType
      <4> HIDE DEF reg, x
      <4>3. Narrow(x, second, 1) => Narrow(x, p, 2)
        BY <4>1, <4>2 DEF Narrow, reg
      <4> QED
        BY <2>4, <2>8, <4>3 DEF Configured, BarKept, x
    <3> QED
      BY <3>1, <3>2
  <2>12. ~Claimed(b, p) /\ ~Claimed(b, second) => Unseen(b, c)
    BY <2>4, <2>7, <2>8 DEF Unseen
  <2> QED
    BY <1>8, <2>8, <2>9, <2>10, <2>11, <2>12 DEF c, second
<1> QED
  BY <1>3, <1>4, <1>5, <1>6, <1>7, <1>8

(* what a word written to p does, the first of its bytes x *)
HalfDone(m, b, c, p, x) ==
  /\ c \in Boards(m) /\ Moves(b, c)
  /\ p \notin {\h1F0, \h1F7} => IdeRests(b, c)
  /\ p = \h1F7 /\ ~Claimed(b, p) => Begins(b, c, x)
  /\ p \notin \hCFB..\hCFF => c.pci = b.pci
  /\ Configured(b.pci, c.pci, p, 2)
  /\ Claimed(b, p) => Still(b, c)
  /\ p \in PciData /\ ~Claimed(b, p) => Unseen(b, c)
  /\ ~Claimed(b, p) /\ ~Claimed(b, Next16(p, 1)) => Unseen(b, c)

\* A word written to a port, the window first (port_out16).
LEMMA HalfOut ==
  ASSUME NEW m, NEW b \in Boards(m), NEW p \in Port, NEW v \in Pair
  PROVE  HalfDone(m, b, Out16(b, p, v), p, v[1])
<1> DEFINE c == Out16(b, p, v)
<1>1. v \in Word
  BY DEF Pair, Word
<1>2. CASE Claimed(b, p)
  <2>1. c = ToVirtio(b, p, v)
    BY <1>2 DEF Out16
  <2> HIDE DEF c
  <2>2. c \in Boards(m) /\ Still(b, c)
    BY <1>1, <1>2, <2>1, ClaimedAccess
  <2> QED
    BY <1>2, <2>2 DEF Still, Moves, IdeRests, BarKept, Configured, HalfDone, c
<1>3. CASE ~Claimed(b, p)
  <2>1. c = OwnOut16(b, p, v)
    BY <1>3 DEF Out16
  <2> HIDE DEF c
  <2>2. /\ c \in Boards(m) /\ Moves(b, c)
        /\ p \notin {\h1F0, \h1F7} => IdeRests(b, c)
        /\ p = \h1F7 => Begins(b, c, v[1])
        /\ p \notin \hCFB..\hCFF => c.pci = b.pci
        /\ Configured(b.pci, c.pci, p, 2)
        /\ p \in PciData => Unseen(b, c)
        /\ ~Claimed(b, Next16(p, 1)) => Unseen(b, c)
    BY <1>3, <2>1, OwnHalfOut
  <2> QED
    BY <1>3, <2>2 DEF HalfDone, c
<1> QED
  BY <1>2, <1>3

(* the ports an access of four bytes reaches, and the data or command register *)
(* as one half of it                                                          *)
Four(p) == {p, Next16(p, 1), Next16(p, 2), Next16(p, 3)}
Halved == {\h1EE, \h1F0, \h1F5}

\* A double word that is not the configuration address or its data is two words;
\* only one at 0xCFB lets the first of them move the window (port_out32).
LEMMA OwnWordOut ==
  ASSUME NEW m, NEW b \in Boards(m), NEW p \in Port, NEW v \in Latch, ~Claimed(b, p)
  PROVE  LET c == OwnOut32(b, p, v)
         IN  /\ c \in Boards(m) /\ Moves(b, c)
             /\ p # \h1F7 /\ p \notin Halved => IdeRests(b, c)
             /\ p = \h1F7 => Begins(b, c, v[1])
             /\ BarKept(b.pci, c.pci, p, 4)
             /\ P!IoBase(c.pci) = P!IoBase(b.pci) /\ (\A q \in Four(p) : ~Claimed(b, q)) => Unseen(b, c)
<1> DEFINE c == OwnOut32(b, p, v)  third == Next16(p, 2)
           low == SubSeq(v, 1, 2)  high == SubSeq(v, 3, 4)
<1>1. b.pci \in PciType
  BY DEF Boards
<1>2. v \in Word /\ Len(v) = 4 /\ low \in Pair /\ high \in Pair /\ low[1] = v[1]
  <2>1. v \in Seq(Byte) /\ Len(v) = 4
    BY DEF Latch, Word
  <2>2. v[1] \in Byte /\ v[2] \in Byte /\ v[3] \in Byte /\ v[4] \in Byte
    <3>1. 1 \in 1..Len(v) /\ 2 \in 1..Len(v) /\ 3 \in 1..Len(v) /\ 4 \in 1..Len(v)
      BY <2>1
    <3> QED
      BY <2>1, <3>1, ElementOfSeq
  <2>3. low \in Seq(Byte) /\ Len(low) = 2 /\ low[1] = v[1]
    <3>1. \A i \in 1..2 : v[i] \in Byte
      BY <2>2
    <3> QED
      BY <3>1, SubSeqProperties
  <2>4. high \in Seq(Byte) /\ Len(high) = 2
    <3>1. \A i \in 3..4 : v[i] \in Byte
      BY <2>2
    <3> QED
      BY <3>1, SubSeqProperties
  <2> QED
    BY <2>1, <2>3, <2>4 DEF Pair, Word
<1>3. CASE p = \hCF8
  <2> DEFINE q == [b.pci EXCEPT !.address = v]
  <2>1. q \in PciType /\ q.config = b.pci.config
    BY <1>1 DEF PciType
  <2>2. c = [b EXCEPT !.pci = q]
    BY <1>3 DEF OwnOut32, PciData
  <2> HIDE DEF q, c
  <2>3. /\ c \in Boards(m) /\ c.ide = b.ide /\ c.pci = q /\ c.dma = b.dma /\ c.cmos = b.cmos
        /\ c.vga = b.vga /\ c.seen = b.seen
    BY <2>1, <2>2, Replaced
  <2>4. BarKept(b.pci, q, p, 4)
    BY <2>1 DEF BarKept, Low
  <2>5. p # \h1F7
    BY <1>3
  <2> QED
    BY <2>3, <2>4, <2>5 DEF Moves, IdeRests, Unseen, VirtioSeen, c
<1>4. CASE p \in PciData
  <2> DEFINE x == b.pci  q == P!WriteData(x, p - \hCFC, v)
  <2>1. x \in PciType /\ v \in Word /\ Len(v) = 4
    BY <1>1, <1>2
  <2>2. c = [b EXCEPT !.pci = q]
    BY <1>4 DEF OwnOut32, PciData
  <2> HIDE DEF x
  <2>3. q \in PciType /\ Configured(x, q, p, 4)
    BY <1>4, <2>1, ConfigOut
  <2> HIDE DEF q, c
  <2>4. /\ c \in Boards(m) /\ c.ide = b.ide /\ c.pci = q /\ c.dma = b.dma /\ c.cmos = b.cmos
        /\ c.vga = b.vga /\ c.seen = b.seen
    BY <2>2, <2>3, Replaced
  <2>5. p # \h1F7
    BY <1>4 DEF PciData
  <2> QED
    BY <2>3, <2>4, <2>5 DEF Moves, IdeRests, Unseen, VirtioSeen, Configured, x, c
<1>5. CASE p # \hCF8 /\ p \notin PciData
  <2> DEFINE one == Out16(b, p, low)
  <2>1. c = Out16(one, third, high)
    BY <1>5 DEF OwnOut32
  <2> HIDE DEF low, high, c, one, third
  <2>2. third \in Port /\ third = IF p + 2 < 65536 THEN p + 2 ELSE p + 2 - 65536
    BY NextPort DEF third
  <2>3. p \in Nat /\ p < 65536
    BY DEF Port
  <2>4. /\ one \in Boards(m) /\ Moves(b, one)
        /\ p \notin {\h1F0, \h1F7} => IdeRests(b, one)
        /\ p = \h1F7 => Begins(b, one, low[1])
        /\ p \notin \hCFB..\hCFF => one.pci = b.pci
        /\ Configured(b.pci, one.pci, p, 2)
        /\ ~Claimed(b, Next16(p, 1)) => Unseen(b, one)
    <3>1. HalfDone(m, b, one, p, low[1])
      BY <1>2, HalfOut DEF one
    <3> QED
      BY <3>1 DEF HalfDone
  <2>5. /\ c \in Boards(m) /\ Moves(one, c)
        /\ third \notin {\h1F0, \h1F7} => IdeRests(one, c)
        /\ third \notin \hCFB..\hCFF => c.pci = one.pci
        /\ Configured(one.pci, c.pci, third, 2)
        /\ Claimed(one, third) => Still(one, c)
        /\ third \in PciData /\ ~Claimed(one, third) => Unseen(one, c)
        /\ ~Claimed(one, third) /\ ~Claimed(one, Next16(third, 1)) => Unseen(one, c)
    <3>1. HalfDone(m, one, c, third, high[1])
      BY <1>2, <2>1, <2>2, <2>4, HalfOut
    <3> QED
      BY <3>1 DEF HalfDone
  <2>6. Moves(b, c)
    BY <2>4, <2>5 DEF Moves
  <2>7. p # \h1F7 /\ p \notin Halved => IdeRests(b, c)
    <3>1. p \notin Halved => third \notin {\h1F0, \h1F7} /\ p # \h1F0
      BY <2>2, <2>3 DEF Halved
    <3> QED
      BY <2>4, <2>5, <3>1 DEF IdeRests
  <2>8. p = \h1F7 => Begins(b, c, v[1])
    <3>1. p = \h1F7 => third = \h1F9
      BY <2>2
    <3> QED
      BY <1>2, <2>4, <2>5, <3>1 DEF Begins, IdeRests, low
  <2>9. BarKept(b.pci, c.pci, p, 4)
    <3> DEFINE x == b.pci  y == one.pci  reg == P!Reg(x)
    <3>1. reg \in Nat
      BY <1>1, RegType
    <3>2. y.address = x.address
      BY <2>4 DEF Configured
    <3> HIDE DEF x, y
    <3>3. P!Answers(y) = P!Answers(x) /\ P!Slot(y) = P!Slot(x) /\ P!Reg(y) = reg
      BY <3>2 DEF P!Answers, P!Enabled, P!Slot, P!Reg
    <3> HIDE DEF reg
    <3>4. Narrow(x, p, 2) => Narrow(x, p, 4)
      BY <1>5, <2>3, <3>1 DEF Narrow, PciData, reg
    <3>5. Narrow(y, third, 2) => Narrow(x, p, 4)
      BY <1>5, <2>2, <2>3, <3>1, <3>3 DEF Narrow, PciData, reg
    <3> QED
      BY <2>4, <2>5, <3>4, <3>5 DEF Configured, BarKept, x, y
  <2>10. ASSUME P!IoBase(c.pci) = P!IoBase(b.pci), \A q \in Four(p) : ~Claimed(b, q)
         PROVE  Unseen(b, c)
    <3>1. ~Claimed(b, Next16(p, 1)) /\ ~Claimed(b, third) /\ ~Claimed(b, Next16(p, 3))
      BY <2>10 DEF Four, third
    <3>2. Unseen(b, one)
      BY <2>4, <3>1
    <3>3. Next16(third, 1) = Next16(p, 3)
      BY <2>2, <2>3, NextPort
    <3>4. Unseen(one, c)
      <4>1. CASE p \notin \hCFB..\hCFF
        <5>1. ~Claimed(one, third) /\ ~Claimed(one, Next16(third, 1))
          BY <2>4, <3>1, <3>3, <4>1 DEF Claimed
        <5> QED
          BY <2>5, <5>1
      <4>2. CASE p \in \hCFB..\hCFF
        <5>1. third = \hCFD /\ third \in PciData
          BY <1>5, <2>2, <2>3, <4>2 DEF PciData
        <5>2. CASE Claimed(one, third)
          <6>1. P!IoBase(one.pci) = P!IoBase(b.pci)
            BY <2>5, <2>10, <5>2 DEF Still
          <6> QED
            BY <3>1, <5>2, <6>1 DEF Claimed
        <5>3. CASE ~Claimed(one, third)
          BY <2>5, <5>1, <5>3
        <5> QED
          BY <5>2, <5>3
      <4> QED
        BY <4>1, <4>2
    <3> QED
      BY <3>2, <3>4 DEF Unseen
  <2> QED
    BY <2>5, <2>6, <2>7, <2>8, <2>9, <2>10 DEF c
<1> QED
  BY <1>3, <1>4, <1>5

(* what an access of n bytes to p does, the first of them x *)
Reached(p, n) == IF n = 1 THEN {p} ELSE IF n = 2 THEN {p, Next16(p, 1)} ELSE Four(p)
OutDone(m, b, c, p, x, n) ==
  /\ c \in Boards(m) /\ Moves(b, c)
  /\ Claimed(b, p) \/ (p # \h1F7 /\ ~(p = \h1F0 /\ n = 2) /\ ~(n = 4 /\ p \in Halved)) => IdeRests(b, c)
  /\ p = \h1F7 /\ ~Claimed(b, p) => Begins(b, c, x)
  /\ BarKept(b.pci, c.pci, p, n)
  /\ Claimed(b, p) => Still(b, c)
  /\ P!IoBase(c.pci) = P!IoBase(b.pci) /\ (\A q \in Reached(p, n) : ~Claimed(b, q)) => Unseen(b, c)

\* A double word written to a port, the window first (port_out32).
LEMMA WordOut ==
  ASSUME NEW m, NEW b \in Boards(m), NEW p \in Port, NEW v \in Latch
  PROVE  OutDone(m, b, Out32(b, p, v), p, v[1], 4)
<1> DEFINE c == Out32(b, p, v)
<1>1. CASE Claimed(b, p)
  <2>1. c = ToVirtio(b, p, v)
    BY <1>1 DEF Out32
  <2>2. v \in Word /\ p \in Four(p)
    BY DEF Latch, Four
  <2> HIDE DEF c
  <2>3. c \in Boards(m) /\ Still(b, c)
    BY <1>1, <2>1, <2>2, ClaimedAccess
  <2> QED
    BY <1>1, <2>2, <2>3 DEF OutDone, Reached, Still, Moves, IdeRests, BarKept, c
<1>2. CASE ~Claimed(b, p)
  <2>1. c = OwnOut32(b, p, v)
    BY <1>2 DEF Out32
  <2> HIDE DEF c
  <2>2. /\ c \in Boards(m) /\ Moves(b, c)
        /\ p # \h1F7 /\ p \notin Halved => IdeRests(b, c)
        /\ p = \h1F7 => Begins(b, c, v[1])
        /\ BarKept(b.pci, c.pci, p, 4)
        /\ P!IoBase(c.pci) = P!IoBase(b.pci) /\ (\A q \in Four(p) : ~Claimed(b, q)) => Unseen(b, c)
    BY <1>2, <2>1, OwnWordOut
  <2> QED
    BY <1>2, <2>2 DEF OutDone, Reached, c
<1> QED
  BY <1>1, <1>2

\* An OUT of any width.
LEMMA AnyOut ==
  ASSUME NEW m, NEW b \in Boards(m), NEW p \in Port, NEW v \in Seq(Byte), Len(v) \in {1, 2, 4}
  PROVE  OutDone(m, b, PortOut(b, p, v), p, v[1], Len(v))
<1> DEFINE c == PortOut(b, p, v)
<1>1. CASE Len(v) = 1
  <2>1. v[1] \in Byte /\ c = Out8(b, p, v[1])
    BY <1>1 DEF PortOut
  <2> HIDE DEF c
  <2>2. /\ c \in Boards(m) /\ Moves(b, c)
        /\ p # \h1F7 => IdeRests(b, c)
        /\ p = \h1F7 /\ ~Claimed(b, p) => Begins(b, c, v[1])
        /\ Configured(b.pci, c.pci, p, 1)
        /\ Claimed(b, p) => Still(b, c)
        /\ ~Claimed(b, p) => Unseen(b, c)
    BY <2>1, ByteOut
  <2>3. OutDone(m, b, c, p, v[1], 1)
    BY <2>2 DEF OutDone, Reached, Configured, Still, IdeRests
  <2> QED
    BY <1>1, <2>3 DEF c
<1>2. CASE Len(v) = 2
  <2>1. v \in Pair /\ c = Out16(b, p, v)
    BY <1>2 DEF PortOut, Pair
  <2> HIDE DEF c
  <2>2. HalfDone(m, b, c, p, v[1])
    BY <2>1, HalfOut
  <2>3. OutDone(m, b, c, p, v[1], 2)
    BY <2>2 DEF OutDone, HalfDone, Reached, Configured, Still, IdeRests
  <2> QED
    BY <1>2, <2>3 DEF c
<1>3. CASE Len(v) = 4
  <2>1. v \in Latch /\ c = Out32(b, p, v)
    BY <1>3 DEF PortOut, Latch, Word
  <2> HIDE DEF c
  <2>2. OutDone(m, b, c, p, v[1], 4)
    BY <2>1, WordOut
  <2> QED
    BY <1>3, <2>2 DEF c
<1> QED
  BY <1>1, <1>2, <1>3

\* A byte read changes at most the clock's flags and the display's flip-flop (port_in).
LEMMA ByteIn ==
  ASSUME NEW m, NEW b \in Boards(m), NEW p \in Port
  PROVE  LET c == In8(b, p).board
         IN  c \in Boards(m) /\ Moves(b, c) /\ c.ide = b.ide /\ c.pci = b.pci
<1> DEFINE c == In8(b, p).board
<1>1. b.cmos \in CmosType /\ b.vga \in VgaType /\ b.vga.retrace \in BOOLEAN /\ <<>> \in Word
  BY DEF Boards, VgaType, Word
<1>2. CASE Claimed(b, p)
  <2>1. c = ToVirtio(b, p, <<>>)
    BY <1>2 DEF In8, FromVirtio, Answer
  <2> HIDE DEF c
  <2>2. c \in Boards(m) /\ Still(b, c)
    BY <1>1, <1>2, <2>1, ClaimedAccess
  <2> QED
    BY <2>2 DEF Still, Moves, c
<1>3. CASE ~Claimed(b, p)
  <2>1. c = OwnIn8(b, p).board
    BY <1>3 DEF In8
  <2>2. CASE p \in Outside \ {\h43}
    <3>1. <<Owner(p), p, <<>>>> \in Event /\ Owner(p) # "virtio"
      BY <1>1 DEF Event, Others, Owner
    <3>2. c = To(b, Owner(p), p, <<>>)
      BY <2>1, <2>2, SMTT(20) DEF OwnIn8, Outside, PciData, Answer
    <3> HIDE DEF c
    <3>3. c \in Boards(m) /\ c.ide = b.ide /\ c.pci = b.pci /\ c.dma = b.dma /\ c.vga = b.vga
      BY <3>1, <3>2, Handed
    <3> QED
      BY <3>3 DEF Moves, c
  <2>3. CASE p = \h71
    <3> DEFINE f == C!ReadData(b.cmos)
    <3>1. f \in CmosType
      <4>1. 0 \in Byte
        BY ByteType
      <4> QED
        BY <1>1, <4>1, CmosOps
    <3>2. c = [b EXCEPT !.cmos = f]
      BY <2>1, <2>3 DEF OwnIn8, Outside, PciData, Answer
    <3> HIDE DEF c, f
    <3>3. c \in Boards(m) /\ c.ide = b.ide /\ c.pci = b.pci /\ c.dma = b.dma /\ c.vga = b.vga
      BY <3>1, <3>2, Replaced
    <3> QED
      BY <3>3 DEF Moves, c
  <2>4. CASE p = \h3DA
    <3> DEFINE turned == ~b.vga.retrace  g == [b.vga EXCEPT !.retrace = turned]
    <3>1. g \in VgaType /\ g.text = b.vga.text /\ g.row = b.vga.row /\ g.col = b.vga.col
      <4>1. 0 \in Byte /\ turned \in BOOLEAN
        BY <1>1, ByteType
      <4> HIDE DEF turned, c
      <4>2. VgaKept(b.vga, g)
        BY <1>1, <4>1, VgaPorts
      <4> QED
        BY <4>2 DEF VgaKept
    <3>2. c = [b EXCEPT !.vga = g]
      BY <2>1, <2>4 DEF OwnIn8, Outside, PciData, Answer
    <3> HIDE DEF c, g
    <3>3. c \in Boards(m) /\ c.ide = b.ide /\ c.pci = b.pci /\ c.dma = b.dma /\ c.vga = g
      BY <3>1, <3>2, Replaced
    <3> QED
      BY <3>1, <3>3 DEF Moves, c
  <2>5. CASE p \notin Outside \ {\h43} /\ p # \h71 /\ p # \h3DA
    <3>1. c = b
      BY <2>1, <2>5 DEF OwnIn8, Answer
    <3> QED
      BY <3>1 DEF Moves
  <2> QED
    BY <2>2, <2>3, <2>4, <2>5
<1> QED
  BY <1>2, <1>3

(* what a read of a word at p does: at the ATA data port it takes a word *)
Takes(b, c) == c.ide.buffer = b.ide.buffer /\ c.ide.index = I!ReadData(b.ide).index
HalfRead(m, b, r, p) ==
  /\ r.board \in Boards(m) /\ Moves(b, r.board) /\ r.board.pci = b.pci
  /\ p # \h1F0 \/ Claimed(b, p) => IdeRests(b, r.board)
  /\ p = \h1F0 /\ ~Claimed(b, p) => Takes(b, r.board) /\ r.bytes = I!DataRead(b.ide)

\* A word read (port_in16).
LEMMA HalfIn ==
  ASSUME NEW m, NEW b \in Boards(m), NEW p \in Port
  PROVE  HalfRead(m, b, In16(b, p), p)
<1> DEFINE r == In16(b, p)  c == r.board
<1>1. b.ide \in IdeType /\ <<>> \in Word
  BY DEF Boards, Word
<1>2. CASE Claimed(b, p)
  <2>1. c = ToVirtio(b, p, <<>>)
    BY <1>2 DEF In16, FromVirtio, Answer
  <2> HIDE DEF c
  <2>2. c \in Boards(m) /\ Still(b, c)
    BY <1>1, <1>2, <2>1, ClaimedAccess
  <2> QED
    BY <1>2, <2>2 DEF HalfRead, Still, Moves, IdeRests, c
<1>3. CASE ~Claimed(b, p)
  <2>1. r = OwnIn16(b, p)
    BY <1>3 DEF In16
  <2>2. CASE p = \h1F0
    <3> DEFINE d == I!ReadData(b.ide)
    <3>1. d \in IdeType /\ d.disk = b.ide.disk /\ d.buffer = b.ide.buffer
      <4>1. I!Null \in Pair
        BY ByteType DEF I!Null, Pair
      <4> QED
        BY <1>1, <4>1, IdeDataType
    <3>2. c = [b EXCEPT !.ide = d] /\ r.bytes = I!DataRead(b.ide)
      BY <2>1, <2>2 DEF OwnIn16, PciData, Answer
    <3> HIDE DEF c, d, r
    <3>3. c \in Boards(m) /\ c.ide = d /\ c.pci = b.pci /\ c.dma = b.dma /\ c.vga = b.vga
      BY <3>1, <3>2, Replaced
    <3> QED
      BY <1>3, <2>2, <3>1, <3>2, <3>3 DEF HalfRead, Moves, Takes, c, d, r
  <2>3. CASE p \in PciData \/ p \in {\h1F1, \h1F7, \h3F6}
    <3>1. c = b /\ p # \h1F0
      BY <2>1, <2>3 DEF OwnIn16, PciData, Answer
    <3> HIDE DEF r
    <3> QED
      BY <3>1 DEF HalfRead, Moves, IdeRests, r
  <2>4. CASE p \notin PciData /\ p # \h1F0 /\ p \notin {\h1F1, \h1F7, \h3F6}
    <3> DEFINE one == In8(b, p).board  two == In8(one, Next16(p, 1)).board
    <3>1. c = two
      BY <2>1, <2>4 DEF OwnIn16, Joined, Answer
    <3>2. one \in Boards(m) /\ Moves(b, one) /\ one.ide = b.ide /\ one.pci = b.pci
      BY ByteIn
    <3>3. Next16(p, 1) \in Port
      BY NextPort
    <3> HIDE DEF one
    <3>4. two \in Boards(m) /\ Moves(one, two) /\ two.ide = one.ide /\ two.pci = one.pci
      BY <3>2, <3>3, ByteIn
    <3> HIDE DEF two, r
    <3> QED
      BY <2>4, <3>1, <3>2, <3>4 DEF HalfRead, Moves, IdeRests, r
  <2> QED
    BY <2>2, <2>3, <2>4
<1> QED
  BY <1>2, <1>3

\* The word at the data port, and what follows it.
LEMMA FirstWord ==
  ASSUME NEW x \in Seq(Nat), Len(x) = 2, NEW y \in Seq(Nat)
  PROVE  SubSeq(x \o y, 1, 2) = x
<1> DEFINE z == x \o y
<1>1. z \in Seq(Nat) /\ z[1] = x[1] /\ z[2] = x[2] /\ Len(z) = Len(x) + Len(y) /\ Len(y) \in Nat
  <2>1. /\ z \in Seq(Nat) /\ Len(z) = Len(x) + Len(y)
        /\ \A i \in 1..(Len(x) + Len(y)) : z[i] = IF i <= Len(x) THEN x[i] ELSE y[i - Len(x)]
    BY ConcatProperties
  <2>2. Len(y) \in Nat
    OBVIOUS
  <2> HIDE DEF z
  <2>3. 1 \in 1..(Len(x) + Len(y)) /\ 2 \in 1..(Len(x) + Len(y)) /\ 1 <= Len(x) /\ 2 <= Len(x)
    BY <2>2
  <2> QED
    BY <2>1, <2>2, <2>3
<1> HIDE DEF z
<1>2. \A i \in 1..2 : z[i] \in Nat
  BY <1>1
<1>3. /\ SubSeq(z, 1, 2) \in Seq(Nat) /\ Len(SubSeq(z, 1, 2)) = 2
      /\ \A i \in 1..2 : SubSeq(z, 1, 2)[i] = z[i]
  <2>1. /\ SubSeq(z, 1, 2) \in Seq(Nat)
        /\ Len(SubSeq(z, 1, 2)) = IF 1 <= 2 THEN 2 - 1 + 1 ELSE 0
        /\ \A i \in 1..(2 - 1 + 1) : SubSeq(z, 1, 2)[i] = z[1 + i - 1]
    BY <1>2, SubSeqProperties
  <2>2. \A i \in 1..2 : 1 + i - 1 = i
    OBVIOUS
  <2> QED
    BY <2>1, <2>2
<1> DEFINE w == SubSeq(z, 1, 2)
<1> HIDE DEF w
<1>4. w \in Seq(Nat) /\ Len(w) = Len(x) /\ \A i \in 1..Len(x) : w[i] = x[i]
  <2>1. \A i \in 1..2 : i = 1 \/ i = 2
    OBVIOUS
  <2> QED
    BY <1>1, <1>3, <2>1 DEF w
<1>5. w = x
  BY <1>4, SeqEqual
<1> QED
  BY <1>5 DEF w, z

\* Two bytes come from the ports of the ATA registers that are not decoded.
LEMMA RegisterBytes ==
  ASSUME NEW b, NEW p, p = \h1F2
  PROVE  In16(b, p).bytes \in Seq(Nat)
<1> DEFINE zero == [i \in 1..1 |-> 0]  zeros == [i \in 1..2 |-> 0]  ones == <<\hFF>>
<1>1. zero \in Seq(Nat) /\ zeros \in Seq(Nat) /\ ones \in Seq(Nat)
  OBVIOUS
<1> HIDE DEF zero, zeros, ones
<1>2. ASSUME NEW c, NEW q, q = \h1F2 \/ q = \h1F3
      PROVE  In8(c, q).bytes \in Seq(Nat)
  <2>1. CASE Claimed(c, q)
    <3>1. In8(c, q).bytes = zero
      BY <2>1 DEF In8, FromVirtio, Answer, zero
    <3> QED
      BY <1>1, <3>1
  <2>2. CASE ~Claimed(c, q)
    <3>1. In8(c, q).bytes = ones
      BY <1>2, <2>2 DEF In8, OwnIn8, Outside, PciData, Answer, ones
    <3> QED
      BY <1>1, <3>1
  <2> QED
    BY <2>1, <2>2
<1>3. CASE Claimed(b, p)
  <2>1. In16(b, p).bytes = zeros
    BY <1>3 DEF In16, FromVirtio, Answer, zeros
  <2> QED
    BY <1>1, <2>1
<1>4. CASE ~Claimed(b, p)
  <2> DEFINE q == Next16(p, 1)  one == In8(b, p)  two == In8(one.board, q)
             x == one.bytes  y == two.bytes
  <2>1. q = \h1F3
    BY DEF Next16
  <2>2. In16(b, p) = OwnIn16(b, p)
    BY <1>4 DEF In16
  <2> HIDE DEF q
  <2>3. In16(b, p).bytes = x \o y
    <3>1. p \notin PciData /\ p # \h1F0 /\ p \notin {\h1F1, \h1F7, \h3F6}
      BY DEF PciData
    <3> DEFINE z == x \o y
    <3>2. In16(b, p) = [board |-> two.board, bytes |-> z]
      <4>1. OwnIn16(b, p) = Joined(one, two)
        BY <3>1 DEF OwnIn16, q, one, two
      <4> QED
        <5> HIDE DEF one, two
        <5> QED
          BY <2>2, <4>1, Zenon DEF Joined, Answer
    <3> HIDE DEF z
    <3>3. In16(b, p).bytes = z
      BY <3>2
    <3> QED
      BY <3>3 DEF z
  <2>4. x \in Seq(Nat) /\ y \in Seq(Nat)
    BY <1>2, <2>1
  <2> HIDE DEF x, y
  <2>5. x \o y \in Seq(Nat)
    BY <2>4
  <2> QED
    BY <2>3, <2>5
<1> QED
  BY <1>3, <1>4

(* what a read of n bytes at p does *)
InDone(m, b, r, p, n) ==
  /\ r.board \in Boards(m) /\ Moves(b, r.board) /\ r.board.pci = b.pci
  /\ n = 1 \/ Claimed(b, p) \/ ~(p = \h1F0 \/ (p = \h1EE /\ n = 4)) => IdeRests(b, r.board)
  /\ p = \h1F0 /\ n # 1 /\ ~Claimed(b, p) => Takes(b, r.board) /\ SubSeq(r.bytes, 1, 2) = I!DataRead(b.ide)

\* What the data port delivers is a word.
LEMMA DataWord ==
  ASSUME NEW d \in IdeType
  PROVE  I!DataRead(d) \in Pair
<1>1. d.buffer \in Stream /\ d.index \in Nat /\ I!Null \in Pair
  BY ByteType DEF IdeType, I!Null, Pair
<1>2. d.index < Len(d.buffer) => d.index + 1 \in 1..Len(d.buffer)
  BY <1>1 DEF Stream
<1>3. d.index < Len(d.buffer) => d.buffer[d.index + 1] \in Pair
  BY <1>1, <1>2, ElementOfSeq DEF Stream
<1> QED
  BY <1>1, <1>3 DEF I!DataRead, I!AtData

\* A word is two numbers.
LEMMA WordOfNumbers ==
  ASSUME NEW w \in Pair
  PROVE  w \in Seq(Nat) /\ Len(w) = 2
<1>1. w \in Seq(Byte) /\ Len(w) = 2
  BY DEF Pair
<1>2. \A i \in 1..Len(w) : w[i] \in Nat
  <2> SUFFICES ASSUME NEW i \in 1..Len(w) PROVE w[i] \in Nat
    OBVIOUS
  <2>1. w[i] \in Byte
    BY <1>1, ElementOfSeq
  <2> QED
    BY <2>1, ByteType
<1> DEFINE n == Len(w)
<1>3. w \in [1..n -> Nat] /\ n \in Nat /\ n = 2
  BY <1>1, <1>2
<1> HIDE DEF n
<1>4. w \in Seq(Nat)
  BY <1>3, SeqDef
<1> QED
  BY <1>1, <1>4
\* A double word read is the configuration space's, or two words (port_in32).
LEMMA WordIn ==
  ASSUME NEW m, NEW b \in Boards(m), NEW p \in Port
  PROVE  InDone(m, b, In32(b, p), p, 4)
<1> DEFINE r == In32(b, p)  c == r.board
<1>1. b.ide \in IdeType /\ <<>> \in Word
  BY DEF Boards, Word
<1>2. CASE Claimed(b, p)
  <2>1. c = ToVirtio(b, p, <<>>)
    BY <1>2 DEF In32, FromVirtio, Answer
  <2> HIDE DEF c
  <2>2. c \in Boards(m) /\ Still(b, c)
    BY <1>1, <1>2, <2>1, ClaimedAccess
  <2> QED
    BY <1>2, <2>2 DEF InDone, Still, Moves, IdeRests, c
<1>3. CASE ~Claimed(b, p) /\ (p = \hCF8 \/ p \in PciData)
  <2>1. c = b /\ p # \h1F0
    BY <1>3 DEF In32, OwnIn32, PciData, Answer
  <2> HIDE DEF r
  <2> QED
    BY <2>1 DEF InDone, Moves, IdeRests, r
<1>4. CASE ~Claimed(b, p) /\ p # \hCF8 /\ p \notin PciData
  <2> DEFINE one == In16(b, p)  third == Next16(p, 2)  two == In16(one.board, third)
  <2>1. c = two.board /\ r.bytes = one.bytes \o two.bytes
    <3>1. r = Joined(one, two)
      BY <1>4 DEF In32, OwnIn32
    <3> HIDE DEF r, one, two
    <3> QED
      BY <3>1 DEF Joined, Answer
  <2>2. HalfRead(m, b, one, p)
    BY HalfIn
  <2>3. third \in Port /\ third = IF p + 2 < 65536 THEN p + 2 ELSE p + 2 - 65536
    BY NextPort
  <2>4. p \in Nat /\ p < 65536
    BY DEF Port
  <2>5. p # \h1EE => third # \h1F0
    BY <2>3, <2>4
  <2>6. p = \h1F0 => two.bytes \in Seq(Nat)
    <3>1. p = \h1F0 => third = \h1F2
      BY <2>3
    <3> HIDE DEF third, one
    <3> QED
      BY <3>1, RegisterBytes
  <2> HIDE DEF one, third
  <2>7. HalfRead(m, one.board, two, third)
    <3>1. one.board \in Boards(m)
      BY <2>2 DEF HalfRead
    <3> QED
      BY <2>3, <3>1, HalfIn
  <2> HIDE DEF two, r
  <2>8. c \in Boards(m) /\ Moves(b, c) /\ c.pci = b.pci
    BY <2>1, <2>2, <2>7 DEF HalfRead, Moves
  <2>9. p # \h1F0 /\ p # \h1EE => IdeRests(b, c)
    BY <2>1, <2>2, <2>5, <2>7 DEF HalfRead, IdeRests
  <2>10. p = \h1F0 => Takes(b, c) /\ SubSeq(r.bytes, 1, 2) = I!DataRead(b.ide)
    <3> SUFFICES ASSUME p = \h1F0 PROVE Takes(b, c) /\ SubSeq(r.bytes, 1, 2) = I!DataRead(b.ide)
      OBVIOUS
    <3>1. Takes(b, one.board) /\ one.bytes = I!DataRead(b.ide)
      BY <1>4, <2>2 DEF HalfRead
    <3>2. one.bytes \in Seq(Nat) /\ Len(one.bytes) = 2
      BY <1>1, <3>1, DataWord, WordOfNumbers
    <3>3. SubSeq(r.bytes, 1, 2) = one.bytes
      BY <2>1, <2>6, <3>2, FirstWord
    <3>4. IdeRests(one.board, c)
      BY <2>1, <2>5, <2>7 DEF HalfRead
    <3> QED
      BY <3>1, <3>3, <3>4 DEF Takes, IdeRests
  <2>11. InDone(m, b, r, p, 4)
    BY <1>4, <2>8, <2>9, <2>10 DEF InDone
  <2> QED
    BY <2>11 DEF r
<1> QED
  BY <1>2, <1>3, <1>4

\* An IN of any width.
LEMMA AnyIn ==
  ASSUME NEW m, NEW b \in Boards(m), NEW p \in Port, NEW n \in {1, 2, 4}
  PROVE  InDone(m, b, PortIn(b, p, n), p, n)
<1>1. CASE n = 1
  <2> DEFINE r == In8(b, p)
  <2>1. r.board \in Boards(m) /\ Moves(b, r.board) /\ r.board.ide = b.ide /\ r.board.pci = b.pci
    BY ByteIn
  <2> HIDE DEF r
  <2>2. InDone(m, b, r, p, 1)
    BY <2>1 DEF InDone, IdeRests
  <2> QED
    BY <1>1, <2>2 DEF PortIn, r
<1>2. CASE n = 2
  <2> DEFINE r == In16(b, p)
  <2>1. HalfRead(m, b, r, p) /\ b.ide \in IdeType
    BY HalfIn DEF Boards
  <2> HIDE DEF r
  <2>2. p = \h1F0 /\ ~Claimed(b, p) => SubSeq(r.bytes, 1, 2) = I!DataRead(b.ide)
    <3> SUFFICES ASSUME p = \h1F0, ~Claimed(b, p) PROVE SubSeq(r.bytes, 1, 2) = I!DataRead(b.ide)
      OBVIOUS
    <3>1. r.bytes = I!DataRead(b.ide)
      BY <2>1 DEF HalfRead
    <3>2. r.bytes \in Seq(Nat) /\ Len(r.bytes) = 2 /\ <<>> \in Seq(Nat)
      BY <2>1, <3>1, DataWord, WordOfNumbers
    <3>3. SubSeq(r.bytes \o <<>>, 1, 2) = r.bytes /\ r.bytes \o <<>> = r.bytes
      BY <3>2, FirstWord, ConcatEmptySeq
    <3> QED
      BY <3>1, <3>3
  <2>3. /\ r.board \in Boards(m) /\ Moves(b, r.board) /\ r.board.pci = b.pci
        /\ p # \h1F0 \/ Claimed(b, p) => IdeRests(b, r.board)
        /\ p = \h1F0 /\ ~Claimed(b, p) => Takes(b, r.board)
    BY <2>1 DEF HalfRead
  <2>4. InDone(m, b, r, p, 2)
    BY <2>2, <2>3 DEF InDone
  <2> QED
    BY <1>2, <2>4 DEF PortIn, r
<1>3. CASE n = 4
  <2>1. PortIn(b, p, 4) = In32(b, p)
    BY DEF PortIn
  <2> QED
    BY <1>3, <2>1, WordIn
<1> QED
  BY <1>1, <1>2, <1>3

-----------------------------------------------------------------------------
(* The properties                                                            *)

Entries == [base : Nat, end : Nat, usable : BOOLEAN]
Turns == (0..7) \X ChannelBytes
(* bytes by address *)
Stores == UNION {[A -> Int] : A \in SUBSET Int}
Histories == [steps : Nat, command : Byte, from : Nat, size : Nat, moved : Stream, found : Stream,
              channel : Seq(Turns), printed : Seq(Chars), placed : BOOLEAN, partial : BOOLEAN,
              stored : Stores, regular : BOOLEAN, map : Seq(Entries), next : Nat]

(* Every device has its shape.  The bytes of the memory are not said anything   *)
(* of: only a store and a transfer change the memory, each for its own subject.  *)
Shape == /\ subject \in Subjects
         /\ board \in Boards(board.mem)
         /\ hist \in Histories
         /\ subject \notin {"mem", "dma"} => board.mem.ram \in Sizes

\* A board starts with the devices as their constructors make them (Devices::new).
LEMMA NewShape ==
  ASSUME NEW epoch \in Epochs, NEW size \in Sizes, board = New(epoch, size), hist = Fresh, subject \in Subjects
  PROVE  Shape
<1> DEFINE mem == [M!New(size) EXCEPT !.data = [s \in DOMAIN @ |-> s]]
<1>1. mem.ram = size
  BY DEF M!New
<1> HIDE DEF mem
<1>2. 0 \in Byte /\ 1 \in Byte /\ 2 \in Byte /\ \h80 \in Byte /\ \h21 \in Byte /\ 11 \in Byte /\ \hC0 \in Byte
  BY ByteType
<1>3. I!New(Image) \in IdeType
  <2>1. [i \in 0..3 |-> 0] \in [LbaRegs -> Byte]
    BY <1>2 DEF LbaRegs
  <2>2. Image \in Stream /\ <<>> \in Stream
    BY ImageAssumption DEF Stream
  <2> QED
    BY <1>2, <2>1, <2>2 DEF I!New, IdeType
<1>4. P!New \in PciType
  <2>1. \A s \in Present : s + 1 \in Byte
    BY PciAssumption, ByteType
  <2>2. \A s \in Present : P!Config(s) \in Space
    <3> SUFFICES ASSUME NEW s \in Present, NEW off \in P!Offsets
                 PROVE  (CASE P!ReadOnly(off)           -> s + 1
                           [] s = Disk /\ off = 4       -> 1
                           [] s = Disk /\ off = \h10    -> 1
                           [] s = Disk /\ off = \h11    -> P!IoBase0
                           [] s = Disk /\ off = \h3C    -> 11
                           [] OTHER                     -> 0) \in Byte
      BY Zenon DEF P!Config, Space
    <3>1. ~P!ReadOnly(4) /\ ~P!ReadOnly(\h10) /\ ~P!ReadOnly(\h11) /\ ~P!ReadOnly(\h3C)
      BY DEF P!ReadOnly
    <3> QED
      BY <1>2, <2>1, <3>1 DEF P!IoBase0
  <2>3. <<0, 0, 0, 0>> \in Latch
    BY <1>2 DEF Latch, Word
  <2> QED
    BY <2>2, <2>3 DEF P!New, PciType
<1>5. D!New \in DmaType
  <2>1. [lo |-> 0, hi |-> 0] \in D!Halves
    BY DmaAssumption DEF D!Halves
  <2> QED
    BY <1>2, <2>1 DEF D!New, DmaType
<1>6. C!New(epoch) \in CmosType
  <2>1. epoch \in Nat /\ 0 \in CmosRegs
    BY SizeAssumption DEF CmosRegs
  <2>2. [r \in Ram |-> CASE r = C!StatusB -> 2 [] r = C!StatusD -> \h80 [] r = 20 -> \h21 [] OTHER -> 0]
          \in [Ram -> Byte]
    BY <1>2 DEF C!StatusB, C!StatusD
  <2> QED
    BY <2>1, <2>2 DEF C!New, CmosType
<1>7. V!New \in VgaType
  BY <1>2 DEF V!New, VgaType, Shown, CrtcRegs
<1>8. New(epoch, size) = [ide |-> I!New(Image), pci |-> P!New, dma |-> D!New, cmos |-> C!New(epoch),
                          vga |-> V!New, mem |-> mem, seen |-> <<>>]
  BY DEF New, mem
<1>9. board \in Boards(board.mem) /\ board.mem = mem
  <2>1. <<>> \in Seq(Event)
    OBVIOUS
  <2> QED
    BY <1>3, <1>4, <1>5, <1>6, <1>7, <1>8, <2>1 DEF Boards
<1>10. hist \in Histories
  <2>1. Image \in Stream /\ <<>> \in Stream
    BY ImageAssumption DEF Stream
  <2>2. <<>> \in Stores
    <3>1. <<>> \in [{} -> Int] /\ {} \in SUBSET Int
      OBVIOUS
    <3> QED
      BY <3>1 DEF Stores
  <2> QED
    BY <1>2, <2>1, <2>2 DEF Fresh, Histories
<1> QED
  BY <1>1, <1>9, <1>10 DEF Shape

\* The board an access finds is the one the last left, with nothing handed yet.
LEMMA QuietShape ==
  ASSUME Shape
  PROVE  /\ Quiet \in Boards(board.mem) /\ Still(board, Quiet) /\ Quiet.mem = board.mem
         /\ VirtioSeen(Quiet) = {}
         /\ \A p : Claimed(Quiet, p) <=> Claimed(board, p)
<1>1. <<>> \in Seq(Event) /\ board \in Boards(board.mem)
  BY DEF Shape
<1>2. Quiet \in Boards(board.mem) /\ Still(board, Quiet) /\ Quiet.mem = board.mem /\ Quiet.seen = <<>>
  BY <1>1 DEF Boards, Quiet, Still
<1> QED
  BY <1>2 DEF VirtioSeen, Claimed, Still

(* what an access leaves of the history of the other subjects, and what leaves *)
(* the transfer at the data port alone                                        *)
Apart(h, g) == /\ g.channel = h.channel /\ g.printed = h.printed /\ g.placed = h.placed
               /\ g.stored = h.stored /\ g.regular = h.regular /\ g.map = h.map /\ g.next = h.next
Transfers(h, g) == /\ g.command = h.command /\ g.from = h.from /\ g.size = h.size
                   /\ g.moved = h.moved /\ g.found = h.found
Commanded(h, x) == /\ h.command = x /\ h.moved = <<>> /\ h.found = board.ide.disk
                   /\ h.from = Words * I!Lba(board.ide) /\ h.size = Words * I!Sectors(board.ide)

\* An access is counted, and nothing else in the history changes by that (Step).
LEMMA Counted ==
  ASSUME NEW h \in Histories
  PROVE  LET g == [h EXCEPT !.steps = @ + 1]
         IN  g \in Histories /\ Apart(h, g) /\ Transfers(h, g) /\ g.partial = h.partial
<1> DEFINE n == h.steps + 1  g == [h EXCEPT !.steps = n]
<1>1. n \in Nat
  BY DEF Histories
<1> HIDE DEF n
<1>2. g \in Histories
  BY <1>1 DEF Histories
<1>3. Apart(h, g) /\ Transfers(h, g) /\ g.partial = h.partial
  BY DEF Histories, Apart, Transfers
<1> QED
  BY <1>2, <1>3 DEF n

(* what GuestOut does with the bytes v at the port p *)
OutRecorded(p, v) ==
  /\ Len(v) \in {1, 2, 4}
  /\ OutDone(board.mem, Quiet, board', p, v[1], Len(v))
  /\ hist' \in Histories /\ Apart(hist, hist')
  /\ ~hist'.partial => ~hist.partial /\ (Claimed(board, p) \/ ~NarrowBar(p, v))
  /\ Claimed(board, p) => Transfers(hist, hist')
  /\ ~Claimed(board, p) /\ p = \h1F7 => Commanded(hist', v[1])
  /\ (p = \h1F0 /\ Len(v) = 2) \/ OtherHalf(p, Len(v)) =>
       (hist'.command \notin I!Reads /\ hist'.found = hist.found) \/ (Transfers(hist, hist') /\ Claimed(board, p))
  /\ p # \h1F7 /\ ~(p = \h1F0 /\ Len(v) = 2) /\ ~OtherHalf(p, Len(v)) => Transfers(hist, hist')

\* An access of the guest, and what the history keeps of it.
LEMMA OutStep ==
  ASSUME Shape, GuestOut
  PROVE  \E p \in Port, v \in Word : OutRecorded(p, v)
<1>1. PICK o \in Outs(subject) :
        LET p == o[1]  v == o[2]
        IN  Step(IF Claimed(board, p) THEN hist
                 ELSE CASE p = \h1F7 -> [hist EXCEPT !.command = v[1], !.from = Words * I!Lba(board.ide),
                                                     !.size = Words * I!Sectors(board.ide),
                                                     !.moved = <<>>, !.found = board.ide.disk]
                        [] p = \h1F0 /\ Len(v) = 2 -> DataPort(I!Writes, hist, v)
                        [] OtherHalf(p, Len(v))    -> [hist EXCEPT !.command = 0]
                        [] NarrowBar(p, v)         -> [hist EXCEPT !.partial = TRUE]
                        [] OTHER                   -> hist,
                 PortOut(Quiet, p, v))
  BY Zenon DEF GuestOut
<1> DEFINE p == o[1]  v == o[2]
           begun == [hist EXCEPT !.command = v[1], !.from = Words * I!Lba(board.ide),
                                 !.size = Words * I!Sectors(board.ide), !.moved = <<>>, !.found = board.ide.disk]
           h == IF Claimed(board, p) THEN hist
                ELSE CASE p = \h1F7 -> begun
                       [] p = \h1F0 /\ Len(v) = 2 -> DataPort(I!Writes, hist, v)
                       [] OtherHalf(p, Len(v))    -> [hist EXCEPT !.command = 0]
                       [] NarrowBar(p, v)         -> [hist EXCEPT !.partial = TRUE]
                       [] OTHER                   -> hist
<1>2. p \in Port /\ v \in Word /\ Len(v) \in {1, 2, 4}
  BY AccessAssumption DEF Shape, Word
<1>3. hist' = [h EXCEPT !.steps = @ + 1] /\ board' = PortOut(Quiet, p, v)
  BY <1>1 DEF Step
<1>4. v[1] \in Byte
  BY <1>2 DEF Word
<1> DEFINE x == v[1]
<1> HIDE DEF p, v, begun, h
<1> SUFFICES OutRecorded(p, v)
  BY <1>2
<1>5. NarrowBar(p, v) => p # \h1F7 /\ p # \h1F0 /\ ~OtherHalf(p, Len(v))
  <2>1. P!Reg(board.pci) \in Nat /\ p \in Nat
    BY <1>2, RegType DEF Shape, Boards, Port
  <2> DEFINE n == Len(v)  reg == P!Reg(board.pci)
  <2>2. n \in {1, 2, 4} /\ reg \in Nat
    BY <1>2, <2>1
  <2>3. NarrowBar(p, v) => reg <= \h10 /\ \h10 - reg \in (p - \hCFC)..(p - \hCFC + n - 1)
    BY DEF NarrowBar
  <2> HIDE DEF n, reg
  <2>4. NarrowBar(p, v) => p >= \hCEC
    BY <2>1, <2>2, <2>3
  <2> QED
    BY <2>1, <2>4 DEF OtherHalf
<1>6. /\ Claimed(board, p) => h = hist
      /\ ~Claimed(board, p) /\ p = \h1F7 => h = begun
      /\ ~Claimed(board, p) /\ p = \h1F0 /\ Len(v) = 2 => h = DataPort(I!Writes, hist, v)
      /\ ~Claimed(board, p) /\ OtherHalf(p, Len(v)) => h = [hist EXCEPT !.command = 0]
      /\ /\ ~Claimed(board, p) /\ p # \h1F7 /\ ~(p = \h1F0 /\ Len(v) = 2) /\ ~OtherHalf(p, Len(v))
         => h = IF NarrowBar(p, v) THEN [hist EXCEPT !.partial = TRUE] ELSE hist
  <2>1. p # \h1F7 \/ ~(p = \h1F0 /\ Len(v) = 2)
    OBVIOUS
  <2>2. OtherHalf(p, Len(v)) => p # \h1F7 /\ ~(p = \h1F0 /\ Len(v) = 2)
    BY DEF OtherHalf
  <2> QED
    BY <1>5, <2>1, <2>2, ZenonT(30) DEF h
<1>7. hist \in Histories /\ board.ide \in IdeType
  BY DEF Shape, Boards
<1>8. OutDone(board.mem, Quiet, board', p, x, Len(v))
  BY <1>2, <1>3, QuietShape, AnyOut DEF Word, x
<1> HIDE DEF x
<1>9. CASE Claimed(board, p)
  <2>1. h = hist
    BY <1>6, <1>9
  <2>2. hist' \in Histories /\ Apart(hist, hist') /\ Transfers(hist, hist') /\ hist'.partial = hist.partial
    BY <1>3, <1>7, <2>1, Counted
  <2> QED
    BY <1>2, <1>8, <1>9, <2>2 DEF OutRecorded, x
<1>10. CASE ~Claimed(board, p) /\ p = \h1F7
  <2>1. h = begun
    BY <1>6, <1>10
  <2> DEFINE from == Words * I!Lba(board.ide)  size == Words * I!Sectors(board.ide)
  <2>2. from \in Nat /\ size \in Nat
    BY <1>4, <1>7, IdeCommand
  <2>3. board.ide.disk \in Stream /\ <<>> \in Stream
    BY <1>7 DEF IdeType, Stream
  <2> HIDE DEF from, size
  <2>4. begun = [hist EXCEPT !.command = x, !.from = from, !.size = size, !.moved = <<>>, !.found = board.ide.disk]
    BY DEF begun, x, from, size
  <2>5. /\ hist' \in Histories /\ Apart(hist, hist') /\ hist'.partial = hist.partial
        /\ hist'.command = x /\ hist'.moved = <<>> /\ hist'.found = board.ide.disk
        /\ hist'.from = from /\ hist'.size = size
    <3>1. x \in Byte
      BY <1>4 DEF x
    <3>2. /\ h \in Histories /\ Apart(hist, h) /\ h.partial = hist.partial
          /\ h.command = x /\ h.moved = <<>> /\ h.found = board.ide.disk /\ h.from = from /\ h.size = size
      BY <1>7, <2>1, <2>2, <2>3, <2>4, <3>1 DEF Histories, Apart
    <3> QED
      BY <1>3, <3>2, Counted DEF Apart, Transfers
  <2>6. Commanded(hist', x)
    BY <2>5 DEF Commanded, from, size
  <2>7. ~NarrowBar(p, v) /\ ~OtherHalf(p, Len(v)) /\ ~(p = \h1F0 /\ Len(v) = 2)
    BY <1>10, <1>5 DEF OtherHalf
  <2> QED
    BY <1>2, <1>8, <1>10, <2>5, <2>6, <2>7 DEF OutRecorded, x
<1>11. CASE ~Claimed(board, p) /\ ((p = \h1F0 /\ Len(v) = 2) \/ OtherHalf(p, Len(v)))
  <2>1. /\ h \in Histories /\ Apart(hist, h) /\ h.partial = hist.partial
        /\ h.command \notin I!Reads /\ h.found = hist.found
    <3>1. CASE p = \h1F0 /\ Len(v) = 2
      <4>1. h = DataPort(I!Writes, hist, v)
        BY <1>6, <1>11, <3>1
      <4>2. CASE hist.command \in I!Writes
        <5>1. Append(hist.moved, v) \in Stream
          BY <1>2, <1>7, <3>1 DEF Histories, Stream, Pair, Word
        <5>2. h = [hist EXCEPT !.moved = Append(hist.moved, v)]
          BY <4>1, <4>2 DEF DataPort
        <5>3. hist.command \notin I!Reads
          BY <4>2 DEF I!Reads, I!Writes
        <5> QED
          BY <1>7, <5>1, <5>2, <5>3 DEF Histories, Apart
      <4>3. CASE hist.command \notin I!Writes
        <5>1. h = [hist EXCEPT !.command = 0]
          BY <4>1, <4>3 DEF DataPort
        <5>2. 0 \in Byte /\ 0 \notin I!Reads
          BY ByteType DEF I!Reads
        <5> QED
          BY <1>7, <5>1, <5>2 DEF Histories, Apart
      <4> QED
        BY <4>2, <4>3
    <3>2. CASE OtherHalf(p, Len(v))
      <4>1. h = [hist EXCEPT !.command = 0]
        BY <1>6, <1>11, <3>2
      <4>2. 0 \in Byte /\ 0 \notin I!Reads
        BY ByteType DEF I!Reads
      <4> QED
        BY <1>7, <4>1, <4>2 DEF Histories, Apart
    <3> QED
      BY <1>11, <3>1, <3>2
  <2>2. /\ hist' \in Histories /\ Apart(hist, hist') /\ hist'.partial = hist.partial
        /\ hist'.command \notin I!Reads /\ hist'.found = hist.found
    BY <1>3, <2>1, Counted DEF Apart, Transfers
  <2>3. ~NarrowBar(p, v) /\ p # \h1F7
    BY <1>11, <1>5 DEF OtherHalf
  <2>4. ~(p # \h1F7 /\ ~(p = \h1F0 /\ Len(v) = 2) /\ ~OtherHalf(p, Len(v)))
    BY <1>11, Zenon
  <2>5. Len(v) \in {1, 2, 4} /\ OutDone(board.mem, Quiet, board', p, v[1], Len(v))
    BY <1>2, <1>8 DEF x
  <2> QED
    BY <1>11, <2>2, <2>3, <2>4, <2>5 DEF OutRecorded
<1>12. CASE ~Claimed(board, p) /\ p # \h1F7 /\ ~(p = \h1F0 /\ Len(v) = 2) /\ ~OtherHalf(p, Len(v))
  <2>1. h = IF NarrowBar(p, v) THEN [hist EXCEPT !.partial = TRUE] ELSE hist
    BY <1>6, <1>12
  <2>2. /\ hist' \in Histories /\ Apart(hist, hist') /\ Transfers(hist, hist')
        /\ ~hist'.partial => ~hist.partial /\ ~NarrowBar(p, v)
    <3>1. h \in Histories /\ Apart(hist, h) /\ Transfers(hist, h) /\ (~h.partial => ~hist.partial /\ ~NarrowBar(p, v))
      BY <1>7, <2>1 DEF Histories, Apart, Transfers
    <3> QED
      BY <1>3, <3>1, Counted DEF Apart, Transfers
  <2> QED
    BY <1>2, <1>8, <1>12, <2>2 DEF OutRecorded, x
<1> QED
  BY <1>2, <1>9, <1>10, <1>11, <1>12

(* what GuestIn does: it moves the next word of a read, ends what is followed of *)
(* a transfer, or leaves it                                                    *)
Fetched(h, g) == /\ h.command \in I!Reads /\ g.moved = Append(h.moved, I!DataRead(board.ide))
                 /\ g.command = h.command /\ g.from = h.from /\ g.size = h.size /\ g.found = h.found
                 /\ Takes(board, board')
InRecorded ==
  /\ board' \in Boards(board.mem) /\ Moves(board, board') /\ board'.pci = board.pci
  /\ hist' \in Histories /\ Apart(hist, hist') /\ hist'.partial = hist.partial
  /\ \/ Transfers(hist, hist') /\ IdeRests(board, board')
     \/ hist'.command \notin I!Reads /\ hist'.found = hist.found
     \/ Fetched(hist, hist')

\* A read of the guest, and what the history keeps of it.
LEMMA InStep ==
  ASSUME Shape, GuestIn
  PROVE  InRecorded
<1>1. PICK i \in Ins(subject) :
        LET p == i[1]  got == PortIn(Quiet, p, i[2])
        IN  Step(IF Claimed(board, p) THEN hist
                 ELSE CASE p = \h1F0 /\ i[2] # 1 -> DataPort(I!Reads, hist, SubSeq(got.bytes, 1, 2))
                        [] p = \h1EE /\ i[2] = 4 -> [hist EXCEPT !.command = 0]
                        [] OTHER                 -> hist,
                 got.board)
  BY Zenon DEF GuestIn
<1> DEFINE p == i[1]  n == i[2]  got == PortIn(Quiet, p, n)  w == SubSeq(got.bytes, 1, 2)
           h == IF Claimed(board, p) THEN hist
                ELSE CASE p = \h1F0 /\ n # 1 -> DataPort(I!Reads, hist, w)
                       [] p = \h1EE /\ n = 4 -> [hist EXCEPT !.command = 0]
                       [] OTHER              -> hist
<1>2. p \in Port /\ n \in {1, 2, 4}
  BY AccessAssumption DEF Shape
<1>3. hist' = [h EXCEPT !.steps = @ + 1] /\ board' = got.board
  BY <1>1 DEF Step
<1>4. InDone(board.mem, Quiet, got, p, n)
  BY <1>2, QuietShape, AnyIn
<1>5. hist \in Histories /\ board \in Boards(board.mem) /\ board.ide \in IdeType
  BY DEF Shape, Boards
<1>6. Still(board, Quiet) /\ (Claimed(Quiet, p) <=> Claimed(board, p))
  BY QuietShape
<1> HIDE DEF p, n, got, w
<1>7. /\ board' \in Boards(board.mem) /\ Moves(board, board') /\ board'.pci = board.pci
      /\ n = 1 \/ Claimed(board, p) \/ ~(p = \h1F0 \/ (p = \h1EE /\ n = 4)) => IdeRests(board, board')
      /\ p = \h1F0 /\ n # 1 /\ ~Claimed(board, p) => Takes(board, board') /\ w = I!DataRead(board.ide)
  BY <1>3, <1>4, <1>6, ZenonT(30) DEF InDone, Still, Moves, IdeRests, Takes, w
<1>8. /\ Claimed(board, p) => h = hist
      /\ ~Claimed(board, p) /\ p = \h1F0 /\ n # 1 => h = DataPort(I!Reads, hist, w)
      /\ ~Claimed(board, p) /\ p = \h1EE /\ n = 4 => h = [hist EXCEPT !.command = 0]
      /\ ~Claimed(board, p) /\ ~(p = \h1F0 /\ n # 1) /\ ~(p = \h1EE /\ n = 4) => h = hist
  <2>1. p # \h1F0 \/ p # \h1EE
    OBVIOUS
  <2> QED
    BY <2>1, Zenon DEF h
<1> HIDE DEF h
<1>9. 0 \in Byte /\ 0 \notin I!Reads
  BY ByteType DEF I!Reads
<1> SUFFICES /\ h \in Histories /\ Apart(hist, h) /\ h.partial = hist.partial
             /\ \/ Transfers(hist, h) /\ IdeRests(board, board')
                \/ h.command \notin I!Reads /\ h.found = hist.found
                \/ Fetched(hist, h)
  BY <1>3, <1>7, Counted DEF InRecorded, Apart, Transfers, Fetched
<1>10. CASE h = hist /\ IdeRests(board, board')
  BY <1>5, <1>10 DEF Apart, Transfers
<1>11. CASE h = [hist EXCEPT !.command = 0]
  BY <1>5, <1>9, <1>11 DEF Histories, Apart
<1>12. CASE ~Claimed(board, p) /\ p = \h1F0 /\ n # 1
  <2> DEFINE moved == Append(hist.moved, w)
  <2>1. w = I!DataRead(board.ide) /\ w \in Pair /\ Takes(board, board')
    BY <1>5, <1>7, <1>12, DataWord
  <2>2. moved \in Stream
    BY <1>5, <2>1 DEF Histories, Stream
  <2>3. CASE hist.command \in I!Reads
    <3>1. h = [hist EXCEPT !.moved = moved]
      BY <1>8, <1>12, <2>3 DEF DataPort
    <3> HIDE DEF moved
    <3>2. h \in Histories /\ Apart(hist, h) /\ h.partial = hist.partial /\ h.moved = moved
          /\ h.command = hist.command /\ h.from = hist.from /\ h.size = hist.size /\ h.found = hist.found
      BY <1>5, <2>2, <3>1 DEF Histories, Apart
    <3> QED
      BY <2>1, <2>3, <3>2 DEF Fetched, moved
  <2>4. CASE hist.command \notin I!Reads
    <3>1. h = [hist EXCEPT !.command = 0]
      BY <1>8, <1>12, <2>4 DEF DataPort
    <3> QED
      BY <1>11, <3>1
  <2> QED
    BY <2>3, <2>4
<1> QED
  BY <1>7, <1>8, <1>10, <1>11, <1>12

(* The steps of the services; each is about one device. *)
Alike(h, g) == Apart(h, g) /\ Transfers(h, g) /\ g.partial = h.partial

\* The image is written by the two services of the disk; the transfer stays.
LEMMA DiskStep ==
  ASSUME Shape, Flush \/ DiskService
  PROVE  /\ board' \in Boards(board.mem)
         /\ board'.pci = board.pci /\ board'.dma = board.dma /\ board'.vga = board.vga
         /\ Len(board'.ide.disk) = Len(board.ide.disk) /\ IdeRests(board, board')
         /\ hist' \in Histories /\ Alike(hist, hist') /\ subject' = subject
<1>1. hist \in Histories /\ Quiet \in Boards(board.mem) /\ Still(board, Quiet) /\ Quiet.ide \in IdeType
  BY QuietShape DEF Shape, Boards
<1>2. hist' = [hist EXCEPT !.steps = @ + 1] /\ subject' = subject
  BY DEF Flush, DiskService, Step
<1>3. hist' \in Histories /\ Alike(hist, hist') /\ subject' = subject
  BY <1>1, <1>2, Counted DEF Alike
<1>4. \/ board' = Quiet
      \/ \E d \in IdeType : /\ board' = [Quiet EXCEPT !.ide = d]
                            /\ Len(d.disk) = Len(Quiet.ide.disk)
                            /\ d.buffer = Quiet.ide.buffer /\ d.index = Quiet.ide.index
  <2>1. CASE Flush
    <3> DEFINE d == I!FlushWrite(Quiet.ide)
    <3>1. board' = [Quiet EXCEPT !.ide = d]
      BY <2>1 DEF Flush, Step
    <3>2. <<>> \in Stream
      BY DEF Stream
    <3>3. d \in IdeType /\ Len(d.disk) = Len(Quiet.ide.disk) /\ d.buffer = Quiet.ide.buffer /\ d.index = Quiet.ide.index
      BY <1>1, <3>2, IdeStoreType
    <3> QED
      BY <3>1, <3>3
  <2>2. CASE DiskService
    <3>1. PICK place \in Sites, words \in Blocks :
            board' = BiosDiskWrite(Quiet, I!Chs(place[1], place[2], place[3]), words)
      BY <2>2 DEF DiskService, Step
    <3> DEFINE at == I!Chs(place[1], place[2], place[3])  d == I!BiosWrite(Quiet.ide, at, words)
    <3>2. board' = Quiet \/ board' = [Quiet EXCEPT !.ide = d]
      BY <3>1 DEF BiosDiskWrite
    <3>3. words \in Stream
      BY ImageAssumption DEF Stream
    <3>4. d \in IdeType /\ Len(d.disk) = Len(Quiet.ide.disk) /\ d.buffer = Quiet.ide.buffer /\ d.index = Quiet.ide.index
      BY <1>1, <3>3, IdeStoreType, ZenonT(60)
    <3> HIDE DEF d
    <3> QED
      BY <3>2, <3>4, ZenonT(30)
  <2> QED
    BY <2>1, <2>2
<1>5. CASE board' = Quiet
  BY <1>1, <1>3, <1>5 DEF Still, IdeRests
<1>6. CASE \E d \in IdeType : /\ board' = [Quiet EXCEPT !.ide = d]
                              /\ Len(d.disk) = Len(Quiet.ide.disk)
                              /\ d.buffer = Quiet.ide.buffer /\ d.index = Quiet.ide.index
  <2>1. PICK d \in IdeType : /\ board' = [Quiet EXCEPT !.ide = d]
                             /\ Len(d.disk) = Len(Quiet.ide.disk)
                             /\ d.buffer = Quiet.ide.buffer /\ d.index = Quiet.ide.index
    BY <1>6
  <2>2. /\ board' \in Boards(board.mem) /\ board'.ide = d
        /\ board'.pci = Quiet.pci /\ board'.dma = Quiet.dma /\ board'.vga = Quiet.vga
    BY <1>1, <2>1, Replaced
  <2> QED
    BY <1>1, <1>3, <2>1, <2>2 DEF Still, IdeRests
<1> QED
  BY <1>4, <1>5, <1>6

\* A byte for a channel, and a transfer, which moves memory and no half.
LEMMA DmaStep ==
  ASSUME Shape, ChannelByte \/ RunTransfer
  PROVE  /\ board' \in Boards(board'.mem) /\ subject = "dma" /\ subject' = subject
         /\ board'.ide = board.ide /\ board'.pci = board.pci /\ board'.vga = board.vga
         /\ hist' \in Histories /\ Transfers(hist, hist') /\ hist'.partial = hist.partial
         /\ hist'.printed = hist.printed /\ hist'.placed = hist.placed /\ hist'.map = hist.map /\ hist'.next = hist.next
         /\ \/ /\ hist'.channel = hist.channel /\ DmaKept(board.dma, board'.dma)
            \/ \E port \in 0..7, v \in ChannelBytes :
                 /\ hist'.channel = Append(hist.channel, <<port, v>>)
                 /\ board'.dma = D!WriteChannel(board.dma, port, v)
<1>1. hist \in Histories /\ Quiet \in Boards(board.mem) /\ Still(board, Quiet) /\ Quiet.dma \in DmaType
  BY QuietShape DEF Shape, Boards
<1>2. CASE ChannelByte
  <2>1. PICK port \in 0..7, v \in ChannelBytes :
          Step([hist EXCEPT !.channel = Append(@, <<port, v>>)], [Quiet EXCEPT !.dma = D!WriteChannel(@, port, v)])
    BY <1>2 DEF ChannelByte
  <2> DEFINE d == D!WriteChannel(Quiet.dma, port, v)  channel == Append(hist.channel, <<port, v>>)
             h == [hist EXCEPT !.channel = channel]
  <2>2. d \in DmaType
    BY <1>1, DmaChannel DEF Turn
  <2>3. channel \in Seq(Turns)
    BY <1>1 DEF Histories, Turns
  <2>4. hist' = [h EXCEPT !.steps = @ + 1] /\ board' = [Quiet EXCEPT !.dma = d] /\ subject = "dma" /\ subject' = subject
    BY <1>2, <2>1 DEF ChannelByte, Step
  <2> HIDE DEF d, channel
  <2>5. /\ h \in Histories /\ h.channel = channel /\ Transfers(hist, h) /\ h.partial = hist.partial
        /\ h.printed = hist.printed /\ h.placed = hist.placed /\ h.map = hist.map /\ h.next = hist.next
    BY <1>1, <2>3 DEF Histories, Transfers
  <2> HIDE DEF h
  <2>6. /\ board' \in Boards(board.mem) /\ board'.dma = d
        /\ board'.ide = Quiet.ide /\ board'.pci = Quiet.pci /\ board'.vga = Quiet.vga
    BY <1>1, <2>2, <2>4, Replaced
  <2>7. board' \in Boards(board'.mem)
    BY <2>6 DEF Boards
  <2>8. /\ hist' \in Histories /\ hist'.channel = channel /\ Transfers(hist, hist') /\ hist'.partial = hist.partial
        /\ hist'.printed = hist.printed /\ hist'.placed = hist.placed /\ hist'.map = hist.map /\ hist'.next = hist.next
    BY <2>4, <2>5, Counted DEF Apart, Transfers
  <2>9. \E k \in 0..7, x \in ChannelBytes : /\ hist'.channel = Append(hist.channel, <<k, x>>)
                                            /\ board'.dma = D!WriteChannel(board.dma, k, x)
    BY <1>1, <2>6, <2>8 DEF d, channel, Still
  <2> QED
    BY <1>1, <2>4, <2>6, <2>7, <2>8, <2>9 DEF Still
<1>3. CASE RunTransfer
  <2>1. PICK c \in D!Channels : subject = "dma" /\ Step(hist, Transfer(Quiet, c))
    BY <1>3 DEF RunTransfer
  <2>2. hist' = [hist EXCEPT !.steps = @ + 1] /\ board' = Transfer(Quiet, c) /\ subject' = subject
    BY <2>1 DEF Step
  <2>3. hist' \in Histories /\ Alike(hist, hist')
    BY <1>1, <2>2, Counted DEF Alike
  <2>4. \E mem, d : /\ board' = [Quiet EXCEPT !.mem = mem, !.dma = d] /\ DmaKept(Quiet.dma, d)
    <3>1. CASE c \in Quiet.dma.enabled
      <4>1. \E mem : board' = [Quiet EXCEPT !.mem = mem, !.dma = D!Transferred(Quiet.dma, c)]
        BY <2>2, <3>1 DEF Transfer, Swept
      <4>2. DmaKept(Quiet.dma, D!Transferred(Quiet.dma, c))
        <5>1. 0 \in Byte
          BY ByteType
        <5> QED
          BY <1>1, <5>1, DmaPorts
      <4> QED
        BY <4>1, <4>2
    <3>2. CASE c \notin Quiet.dma.enabled
      <4>1. board' = Quiet
        BY <2>2, <3>2 DEF Transfer
      <4>2. Quiet = [Quiet EXCEPT !.mem = Quiet.mem, !.dma = Quiet.dma]
        BY <1>1 DEF Boards
      <4> QED
        BY <1>1, <4>1, <4>2 DEF DmaKept
    <3> QED
      BY <3>1, <3>2
  <2>5. PICK mem, d : board' = [Quiet EXCEPT !.mem = mem, !.dma = d] /\ DmaKept(Quiet.dma, d)
    BY <2>4
  <2>6. /\ board' \in Boards(board'.mem) /\ board'.dma = d
        /\ board'.ide = Quiet.ide /\ board'.pci = Quiet.pci /\ board'.vga = Quiet.vga
    BY <1>1, <2>5 DEF Boards, DmaKept
  <2> QED
    BY <1>1, <2>1, <2>2, <2>3, <2>5, <2>6 DEF Alike, Apart, Still, DmaKept
<1> QED
  BY <1>2, <1>3

\* A second passes.
LEMMA ClockStep ==
  ASSUME Shape, TickSecond
  PROVE  /\ board' \in Boards(board.mem) /\ board'.ide = board.ide /\ board'.pci = board.pci
         /\ board'.dma = board.dma /\ board'.vga = board.vga
         /\ hist' \in Histories /\ Alike(hist, hist') /\ subject' = subject
<1>1. hist \in Histories /\ Quiet \in Boards(board.mem) /\ Still(board, Quiet) /\ Quiet.cmos \in CmosType
  BY QuietShape DEF Shape, Boards
<1> DEFINE c == C!TickSecond(Quiet.cmos)
<1>2. hist' = [hist EXCEPT !.steps = @ + 1] /\ subject' = subject /\ board' = [Quiet EXCEPT !.cmos = c]
  BY DEF TickSecond, Step
<1>3. hist' \in Histories /\ Alike(hist, hist')
  BY <1>1, <1>2, Counted DEF Alike
<1>4. c \in CmosType
  <2>1. 0 \in Byte
    BY ByteType
  <2> QED
    BY <1>1, <2>1, CmosOps
<1> HIDE DEF c
<1>5. /\ board' \in Boards(board.mem) /\ board'.ide = Quiet.ide /\ board'.pci = Quiet.pci
      /\ board'.dma = Quiet.dma /\ board'.vga = Quiet.vga
  BY <1>1, <1>2, <1>4, Replaced
<1> QED
  BY <1>1, <1>2, <1>3, <1>5 DEF Still

\* The services of the screen: those that place the cursor or the text, and the
\* one that prints.
LEMMA ScreenStep ==
  ASSUME Shape, SetMode \/ SetCursor \/ WriteString \/ Teletype
  PROVE  /\ board' \in Boards(board.mem) /\ board'.ide = board.ide /\ board'.pci = board.pci
         /\ board'.dma = board.dma
         /\ hist' \in Histories /\ Transfers(hist, hist') /\ hist'.partial = hist.partial
         /\ hist'.channel = hist.channel /\ hist'.map = hist.map /\ hist'.next = hist.next
         /\ subject' = subject
         /\ \/ hist'.placed
            \/ \E ch \in Chars : /\ board'.vga = V!PutChar(board.vga, ch) /\ hist'.placed = hist.placed
                                 /\ hist'.printed = Append(hist.printed, ch)
<1>1. hist \in Histories /\ Quiet \in Boards(board.mem) /\ Still(board, Quiet) /\ Quiet.vga \in VgaType
  BY QuietShape DEF Shape, Boards
<1> DEFINE Rest(g, h) == /\ h \in Histories /\ Transfers(g, h) /\ h.partial = g.partial
                         /\ h.channel = g.channel /\ h.map = g.map /\ h.next = g.next
<1>2. ASSUME NEW w \in VgaType, NEW h \in Histories, Step(h, [Quiet EXCEPT !.vga = w]), Rest(hist, h)
      PROVE  /\ board' \in Boards(board.mem) /\ board'.ide = board.ide /\ board'.pci = board.pci
             /\ board'.dma = board.dma /\ board'.vga = w
             /\ Rest(hist, hist') /\ hist'.placed = h.placed /\ hist'.printed = h.printed
             /\ subject' = subject
  <2>1. /\ board' = [Quiet EXCEPT !.vga = w] /\ hist' = [h EXCEPT !.steps = @ + 1]
        /\ subject' = subject
    BY <1>2 DEF Step
  <2>2. /\ board' \in Boards(board.mem) /\ board'.ide = Quiet.ide /\ board'.pci = Quiet.pci
        /\ board'.dma = Quiet.dma /\ board'.vga = w
    BY <1>1, <2>1, Replaced
  <2>3. hist' \in Histories /\ Apart(h, hist') /\ Transfers(h, hist') /\ hist'.partial = h.partial
    BY <2>1, Counted
  <2> QED
    BY <1>1, <1>2, <2>1, <2>2, <2>3 DEF Apart, Transfers, Still
<1> DEFINE placed == [hist EXCEPT !.placed = TRUE]
<1>3. placed \in Histories /\ Rest(hist, placed) /\ placed.placed
  BY <1>1 DEF Histories, Transfers
<1> HIDE DEF placed
<1>4. CASE SetMode \/ SetCursor \/ WriteString
  <2>1. \E w \in VgaType : Step(placed, [Quiet EXCEPT !.vga = w])
    <3>1. CASE SetMode
      <4>1. PICK m \in Modes : Step(placed, [Quiet EXCEPT !.vga = V!SetMode(Quiet.vga, m)])
        BY <3>1 DEF SetMode, placed
      <4>2. V!SetMode(Quiet.vga, m) \in VgaType
        BY <1>1, VgaPlaced
      <4> QED
        BY <4>1, <4>2
    <3>2. CASE SetCursor
      <4>1. PICK at \in Cursors : Step(placed, [Quiet EXCEPT !.vga = V!SetCursor(Quiet.vga, at[1], at[2])])
        BY <3>2 DEF SetCursor, placed
      <4>2. V!SetCursor(Quiet.vga, at[1], at[2]) \in VgaType
        BY <1>1, VgaPlaced
      <4> QED
        BY <4>1, <4>2
    <3>3. CASE WriteString
      <4>1. PICK at \in Cursors, ch \in Chars :
              Step(placed, [Quiet EXCEPT !.vga = V!WriteString(Quiet.vga, at[1], at[2], <<ch, ch>>)])
        BY <3>3 DEF WriteString, placed
      <4>2. V!WriteString(Quiet.vga, at[1], at[2], <<ch, ch>>) \in VgaType
        BY <1>1, VgaPlaced
      <4> QED
        BY <4>1, <4>2
    <3> QED
      BY <1>4, <3>1, <3>2, <3>3
  <2>2. PICK w \in VgaType : Step(placed, [Quiet EXCEPT !.vga = w])
    BY <2>1
  <2> QED
    BY <1>2, <1>3, <2>2
<1>5. CASE Teletype
  <2>1. PICK ch \in Chars : Step([hist EXCEPT !.printed = Append(@, ch)], [Quiet EXCEPT !.vga = V!PutChar(@, ch)])
    BY <1>5 DEF Teletype
  <2> DEFINE w == V!PutChar(Quiet.vga, ch)  printed == Append(hist.printed, ch)
             h == [hist EXCEPT !.printed = printed]
  <2>2. w \in VgaType
    BY <1>1, PutCharShape DEF Printed
  <2>3. printed \in Seq(Chars)
    BY <1>1 DEF Histories
  <2> HIDE DEF printed
  <2>4. h \in Histories /\ Rest(hist, h) /\ h.placed = hist.placed /\ h.printed = printed
    BY <1>1, <2>3 DEF Histories, Transfers
  <2>5. Step(h, [Quiet EXCEPT !.vga = w])
    BY <2>1 DEF printed
  <2> HIDE DEF h, w
  <2>6. /\ board' \in Boards(board.mem) /\ board'.ide = board.ide /\ board'.pci = board.pci
        /\ board'.dma = board.dma /\ board'.vga = w
        /\ Rest(hist, hist') /\ hist'.placed = hist.placed /\ hist'.printed = printed
        /\ subject' = subject
    BY <1>2, <2>2, <2>4, <2>5
  <2> QED
    BY <1>1, <2>6 DEF w, printed, Still
<1> QED
  BY <1>4, <1>5

\* The map of the memory has a base and an end for each of its entries.
LEMMA MapType ==
  ASSUME NEW m, m.ram \in Nat
  PROVE  M!E820Map(m) \in Seq(Entries)
<1>1. /\ Conventional \in Nat /\ Adapter \in Nat /\ Meg \in Nat /\ Hole \in Nat /\ High \in Nat
      /\ M!LowSize(m) \in Nat /\ (m.ram > Hole => M!TopOfRam(m) \in Nat)
  BY MemoryAssumption DEF M!LowSize, M!TopOfRam
<1>2. \A base \in Nat, end \in Nat, usable \in BOOLEAN : M!Entry(base, end, usable) \in Entries
  BY DEF M!Entry, Entries
<1> DEFINE a == M!Entry(0, Conventional, TRUE)  b == M!Entry(Conventional, Adapter, FALSE)
           c == M!Entry(Adapter, Meg, FALSE)    d == M!Entry(Meg, M!LowSize(m), TRUE)
           e == M!Entry(Hole, High, FALSE)      f == M!Entry(High, M!TopOfRam(m), TRUE)
           low == <<a, b, c>>
           mid == IF M!LowSize(m) > Meg THEN <<d>> ELSE <<>>
           top == IF m.ram > Hole THEN <<e, f>> ELSE <<>>
<1>3. a \in Entries /\ b \in Entries /\ c \in Entries /\ d \in Entries /\ e \in Entries
  BY <1>1, <1>2
<1>4. m.ram > Hole => f \in Entries
  BY <1>1, <1>2
<1> HIDE DEF a, b, c, d, e, f
<1>5. low \in Seq(Entries) /\ mid \in Seq(Entries) /\ top \in Seq(Entries)
  BY <1>3, <1>4
<1>6. M!E820Map(m) = low \o mid \o top
  BY DEF M!E820Map, a, b, c, d, e, f
<1> HIDE DEF low, mid, top
<1> QED
  BY <1>5, <1>6

(* the step that stores w bytes from a on *)
StoresAt(a, w) ==
  /\ subject = "mem" /\ subject' = subject
  /\ hist' = [[hist EXCEPT !.stored = After(a, w), !.regular = hist.regular /\ Regular(board.mem, a, w)]
               EXCEPT !.steps = @ + 1]
  /\ board' = [Quiet EXCEPT !.mem = M!Write(board.mem, a, Bytes(w))]

\* A store is one of an address and a width.
LEMMA StoreTaken ==
  ASSUME Shape, Store
  PROVE  \E a \in Addresses, w \in M!Widths : StoresAt(a, w)
<1>1. hist \in Histories /\ Quiet.mem = board.mem
  BY QuietShape DEF Shape
<1>2. PICK a \in Addresses, w \in M!Widths :
        Step([hist EXCEPT !.stored = After(a, w), !.regular = @ /\ Regular(board.mem, a, w)],
             [Quiet EXCEPT !.mem = M!Write(@, a, Bytes(w))])
  BY DEF Store
<1>3. [hist EXCEPT !.stored = After(a, w), !.regular = @ /\ Regular(board.mem, a, w)]
      = [hist EXCEPT !.stored = After(a, w), !.regular = hist.regular /\ Regular(board.mem, a, w)]
  BY <1>1 DEF Histories
<1>4. [Quiet EXCEPT !.mem = M!Write(@, a, Bytes(w))] = [Quiet EXCEPT !.mem = M!Write(board.mem, a, Bytes(w))]
  BY <1>1
<1>5. subject = "mem" /\ subject' = subject
  BY <1>2 DEF Store, Step
<1> QED
  BY <1>2, <1>3, <1>4, <1>5 DEF Step, StoresAt

\* It adds its bytes to those stored, over the ones that were there.
LEMMA AfterType ==
  ASSUME NEW a \in Addresses, NEW w \in M!Widths, hist \in Histories
  PROVE  /\ After(a, w) \in Stores
         /\ DOMAIN After(a, w) = (a..(a + w - 1)) \cup DOMAIN hist.stored
         /\ \A x \in a..(a + w - 1) : After(a, w)[x] = Bytes(w)[x - a + 1]
         /\ \A x \in DOMAIN hist.stored : x \notin a..(a + w - 1) => After(a, w)[x] = hist.stored[x]
<1> DEFINE new == [x \in a..(a + w - 1) |-> Bytes(w)[x - a + 1]]
<1>1. a \in Nat /\ w \in Nat /\ hist.steps \in Nat
  BY SizeAssumption DEF M!Widths, Histories
<1>2. new \in [a..(a + w - 1) -> Int] /\ \A x \in a..(a + w - 1) : new[x] = Bytes(w)[x - a + 1]
  BY <1>1 DEF Bytes
<1>3. PICK A \in SUBSET Int : hist.stored \in [A -> Int]
  BY DEF Histories, Stores
<1> HIDE DEF new
<1>5. /\ After(a, w) \in [(a..(a + w - 1)) \cup A -> Int]
      /\ \A x \in a..(a + w - 1) : After(a, w)[x] = new[x]
      /\ \A x \in A : x \notin a..(a + w - 1) => After(a, w)[x] = hist.stored[x]
  <2> DEFINE R == a..(a + w - 1)  old == hist.stored
  <2>1. DOMAIN old = A
    BY <1>3
  <2>2. After(a, w) = [x \in R \cup DOMAIN old |-> IF x \in R THEN Bytes(w)[x - a + 1] ELSE old[x]]
    BY Zenon DEF After
  <2> HIDE DEF R, old
  <2>3. After(a, w) = [x \in R \cup A |-> IF x \in R THEN new[x] ELSE old[x]]
    BY <1>2, <2>1, <2>2 DEF R
  <2>4. new \in [R -> Int] /\ old \in [A -> Int]
    BY <1>2, <1>3 DEF R, old
  <2>5. /\ After(a, w) \in [R \cup A -> Int]
        /\ \A x \in R : After(a, w)[x] = new[x]
        /\ \A x \in A : x \notin R => After(a, w)[x] = old[x]
    BY <2>3, <2>4
  <2> QED
    BY <2>5 DEF R, old
<1>6. (a..(a + w - 1)) \cup A \in SUBSET Int
  BY <1>1
<1>7. After(a, w) \in Stores
  <2>1. \A B : B \in SUBSET Int => \A f \in [B -> Int] : f \in Stores
    BY DEF Stores
  <2> QED
    BY <1>5, <1>6, <2>1, Zenon
<1>8. DOMAIN After(a, w) = (a..(a + w - 1)) \cup A /\ DOMAIN hist.stored = A
  BY <1>3, <1>5
<1> QED
  BY <1>2, <1>5, <1>7, <1>8, Zenon

\* A store and a call for the map.
LEMMA MemoryStep ==
  ASSUME Shape, Store \/ AskMap
  PROVE  /\ board' \in Boards(board'.mem) /\ subject' = subject /\ Still(board, board')
         /\ hist' \in Histories /\ Transfers(hist, hist') /\ hist'.partial = hist.partial
         /\ hist'.channel = hist.channel /\ hist'.printed = hist.printed /\ hist'.placed = hist.placed
         /\ \/ subject = "mem" /\ hist'.map = hist.map /\ hist'.next = hist.next
            \/ /\ subject = "map" /\ board'.mem = board.mem
               /\ ~(hist.map # <<>> /\ hist.next = 0) /\ ~M!E820Fails(board.mem, hist.next)
               /\ hist'.map = Append(hist.map, M!E820Entry(board.mem, hist.next))
               /\ hist'.next = M!E820Next(board.mem, hist.next)
<1>1. hist \in Histories /\ Quiet \in Boards(board.mem) /\ Still(board, Quiet)
  BY QuietShape DEF Shape
<1>2. CASE Store
  <2>1. PICK a \in Addresses, w \in M!Widths : StoresAt(a, w)
    BY <1>2, StoreTaken
  <2> DEFINE v == Bytes(w)  mem == M!Write(board.mem, a, v)  stored == After(a, w)
             regular == hist.regular /\ Regular(board.mem, a, w)
             h == [hist EXCEPT !.stored = stored, !.regular = regular]
  <2>2. stored \in Stores /\ regular \in BOOLEAN
    BY <1>1, <2>1, AfterType DEF Histories
  <2>3. hist' = [h EXCEPT !.steps = @ + 1] /\ board' = [Quiet EXCEPT !.mem = mem] /\ subject' = subject /\ subject = "mem"
    BY <2>1 DEF StoresAt
  <2> HIDE DEF mem, stored, regular
  <2>4. /\ h \in Histories /\ Transfers(hist, h) /\ h.partial = hist.partial
        /\ h.channel = hist.channel /\ h.printed = hist.printed /\ h.placed = hist.placed
        /\ h.map = hist.map /\ h.next = hist.next
    BY <1>1, <2>2 DEF Histories, Transfers
  <2> HIDE DEF h
  <2>5. board' \in Boards(board'.mem) /\ Still(Quiet, board')
    BY <1>1, <2>3 DEF Boards, Still
  <2> QED
    BY <1>1, <2>3, <2>4, <2>5, Counted DEF Apart, Transfers, Still
<1>3. CASE AskMap
  <2>1. /\ subject = "map" /\ ~(hist.map # <<>> /\ hist.next = 0) /\ ~M!E820Fails(board.mem, hist.next)
        /\ Step([hist EXCEPT !.map = Append(@, M!E820Entry(board.mem, hist.next)),
                             !.next = M!E820Next(board.mem, hist.next)], Quiet)
    BY <1>3 DEF AskMap
  <2> DEFINE map == Append(hist.map, M!E820Entry(board.mem, hist.next))  next == M!E820Next(board.mem, hist.next)
             h == [hist EXCEPT !.map = map, !.next = next]
  <2>2. hist' = [h EXCEPT !.steps = @ + 1] /\ board' = Quiet /\ subject' = subject
    BY <2>1 DEF Step
  <2>3. map \in Seq(Entries) /\ next \in Nat
    <3>1. board.mem.ram \in Nat
      BY <2>1, SizeAssumption DEF Shape
    <3>2. M!E820Map(board.mem) \in Seq(Entries)
      BY <3>1, MapType
    <3>3. hist.next \in Nat /\ hist.map \in Seq(Entries)
      BY <1>1 DEF Histories
    <3>4. hist.next + 1 \in 1..Len(M!E820Map(board.mem))
      BY <2>1, <3>2, <3>3 DEF M!E820Fails
    <3>5. M!E820Entry(board.mem, hist.next) \in Entries
      BY <3>2, <3>4, ElementOfSeq DEF M!E820Entry
    <3> QED
      BY <3>3, <3>5 DEF M!E820Next
  <2> HIDE DEF map, next
  <2>4. /\ h \in Histories /\ Transfers(hist, h) /\ h.partial = hist.partial
        /\ h.channel = hist.channel /\ h.printed = hist.printed /\ h.placed = hist.placed
        /\ h.map = map /\ h.next = next
    BY <1>1, <2>3 DEF Histories, Transfers
  <2> HIDE DEF h
  <2>5. board' \in Boards(board'.mem) /\ board'.mem = board.mem
    BY <1>1, <2>2, QuietShape
  <2>6. /\ hist' \in Histories /\ Transfers(hist, hist') /\ hist'.partial = hist.partial
        /\ hist'.channel = hist.channel /\ hist'.printed = hist.printed /\ hist'.placed = hist.placed
        /\ hist'.map = map /\ hist'.next = next
    BY <2>2, <2>4, Counted DEF Apart, Transfers
  <2> QED
    BY <1>1, <2>1, <2>2, <2>5, <2>6 DEF map, next
<1> QED
  BY <1>2, <1>3

LEMMA ShapeInit == Init => Shape
<1> SUFFICES ASSUME Init PROVE Shape
  OBVIOUS
<1>1. PICK s \in Subjects, epoch \in Epochs, size \in Sizes :
        subject = s /\ board = New(epoch, size) /\ hist = Fresh
  BY DEF Init
<1> QED
  BY <1>1, NewShape

LEMMA ShapeNext ==
  ASSUME Shape, [Next]_vars
  PROVE  Shape'
<1>1. \A c : c \in Boards(board.mem) => c.mem = board.mem
  BY DEF Boards
<1> SUFFICES /\ subject' = subject /\ hist' \in Histories
             /\ \/ board' \in Boards(board.mem)
                \/ board' \in Boards(board'.mem) /\ subject \in {"mem", "dma"}
  BY <1>1 DEF Shape
<1>2. CASE GuestOut
  <2>1. subject' = subject
    BY <1>2 DEF GuestOut, Step
  <2>2. PICK p \in Port, v \in Word : OutRecorded(p, v)
    BY <1>2, OutStep
  <2>3. hist' \in Histories /\ OutDone(board.mem, Quiet, board', p, v[1], Len(v))
    BY <2>2, Zenon DEF OutRecorded
  <2>4. board' \in Boards(board.mem)
    BY <2>3, Zenon DEF OutDone
  <2> QED
    BY <2>1, <2>3, <2>4
<1>3. CASE GuestIn
  <2>1. subject' = subject
    BY <1>3 DEF GuestIn, Step
  <2> QED
    BY <1>3, <2>1, InStep DEF InRecorded
<1>4. CASE Flush \/ DiskService
  BY <1>4, DiskStep
<1>5. CASE ChannelByte \/ RunTransfer
  BY <1>5, DmaStep
<1>6. CASE TickSecond
  BY <1>6, ClockStep
<1>7. CASE SetMode \/ SetCursor \/ WriteString \/ Teletype
  BY <1>7, ScreenStep
<1>8. CASE Store \/ AskMap
  <2>1. PICK how \in {"mem", "map"} : subject = how /\ (how = "map" => board'.mem = board.mem)
    BY <1>8, MemoryStep
  <2> QED
    BY <1>8, <2>1, MemoryStep
<1>9. CASE UNCHANGED vars
  BY <1>9 DEF vars, Shape
<1> QED
  BY <1>2, <1>3, <1>4, <1>5, <1>6, <1>7, <1>8, <1>9 DEF Next

\* The devices keep their shape through every access of the guest, every service of
\* the BIOS and every call of the machine.
THEOREM Shapes == Spec => []Shape
<1> QED
  BY ShapeInit, ShapeNext, PTL DEF Spec

-----------------------------------------------------------------------------
(* The window of the virtio disk                                             *)

\* WindowHides is a property of every board that has the shape of one: what an
\* access does through the dispatch, split or whole (virtio_port).
LEMMA WindowStep == Shape => WindowHides
<1> SUFFICES ASSUME Shape, NEW o \in Outs(subject)
             PROVE  LET p == o[1]  b == PortOut(Quiet, p, o[2])
                    IN  /\ InVirtio(p) => Devices(b) = Devices(board)
                        /\ \A i \in VirtioSeen(b) : b.seen[i][2] \in 0..(BarSize - 1)
                        /\ /\ P!IoBase(b.pci) = P!IoBase(board.pci)
                           /\ \A q \in p..(p + Len(o[2]) - 1) : ~InVirtio(q)
                           => VirtioSeen(b) = {}
  BY Zenon DEF WindowHides
<1> DEFINE p == o[1]  v == o[2]  b == PortOut(Quiet, p, v)  n == Len(v)
<1>1. p \in Port /\ v \in Seq(Byte) /\ n \in {1, 2, 4}
  BY AccessAssumption DEF Shape
<1>2. /\ Quiet \in Boards(board.mem) /\ Still(board, Quiet) /\ VirtioSeen(Quiet) = {}
      /\ board \in Boards(board.mem)
  BY QuietShape DEF Shape
<1>3. OutDone(board.mem, Quiet, b, p, v[1], n)
  BY <1>1, <1>2, AnyOut
<1> HIDE DEF p, v, b, n
<1>4. \A q \in Port : Claimed(Quiet, q) <=> InVirtio(q)
  <2>1. \A q \in Port : Claimed(board, q) <=> InVirtio(q)
    BY <1>2, VirtioWindow DEF InVirtio
  <2> QED
    BY <2>1, QuietShape
<1>5. InVirtio(p) => Devices(b) = Devices(board)
  BY <1>1, <1>2, <1>3, <1>4, Zenon DEF OutDone, Still, Devices
<1>6. b \in Boards(board.mem)
  BY <1>3, Zenon DEF OutDone
<1>7. ASSUME NEW i \in VirtioSeen(b)
      PROVE  b.seen[i][2] \in 0..(BarSize - 1)
  <2> DEFINE seen == b.seen
  <2>1. seen \in Seq(Event)
    BY <1>6 DEF Boards
  <2>2. i \in 1..Len(seen) /\ seen[i][1] = "virtio"
    BY <1>7, <2>1 DEF VirtioSeen
  <2> HIDE DEF seen
  <2>3. seen[i] \in Event
    BY <2>1, <2>2
  <2>4. seen[i] \in {"virtio"} \X (0..(BarSize - 1)) \X Word
    BY <2>2, <2>3 DEF Event, Others
  <2> QED
    BY <2>4 DEF seen
<1>8. ASSUME P!IoBase(b.pci) = P!IoBase(board.pci), \A q \in p..(p + n - 1) : ~InVirtio(q)
      PROVE  VirtioSeen(b) = {}
  <2> DEFINE base == P!IoBase(board.pci)
  <2>1. base \in Nat /\ base % 4 = 0 /\ (base # 0 => base >= 4)
    BY <1>2, IoBaseType, SMTT(20) DEF Boards
  <2>2. \A q \in 0..3 : ~InVirtio(q)
    BY <2>1 DEF InVirtio
  <2>3. p \in Nat /\ p < 65536
    BY <1>1 DEF Port
  <2>4. ASSUME NEW k \in 0..(n - 1)
        PROVE  Next16(p, k) \in Port /\ ~InVirtio(Next16(p, k))
    <3>1. CASE p + k < 65536
      <4>1. Next16(p, k) = p + k /\ p + k \in p..(p + n - 1)
        BY <1>1, <2>3, <3>1 DEF Next16
      <4> QED
        BY <1>8, <2>3, <3>1, <4>1 DEF Port
    <3>2. CASE ~(p + k < 65536)
      <4>1. Next16(p, k) \in 0..3
        BY <1>1, <2>3, <3>2 DEF Next16
      <4> QED
        BY <2>2, <4>1 DEF Port
    <3> QED
      BY <3>1, <3>2
  <2>5. Next16(p, 0) = p
    BY <2>3 DEF Next16
  <2>6. \A q \in Reached(p, n) : ~Claimed(Quiet, q)
    <3>1. CASE n = 1
      BY <1>4, <2>4, <2>5, <3>1 DEF Reached
    <3>2. CASE n = 2
      BY <1>4, <2>4, <2>5, <3>2 DEF Reached
    <3>3. CASE n = 4
      BY <1>4, <2>4, <2>5, <3>3 DEF Reached, Four
    <3> QED
      BY <1>1, <3>1, <3>2, <3>3
  <2>7. P!IoBase(Quiet.pci) = P!IoBase(b.pci)
    BY <1>2, <1>8 DEF Still
  <2> QED
    BY <1>2, <1>3, <2>6, <2>7, Zenon DEF OutDone, Unseen
<1> QED
  BY <1>5, <1>7, <1>8 DEF p, v, b, n

\* What the window of the virtio disk claims changes no other device and stays inside
\* of it, and nothing else reaches the disk, in every state.
THEOREM WindowHidesAlways == Spec => []WindowHides
<1> QED
  BY Shapes, WindowStep, PTL

-----------------------------------------------------------------------------
(* The base address register of the disk                                     *)

BarInv == /\ ~hist.partial => Low(board.pci) % BarSize = 1
          /\ \A s \in Present, off \in 0..3 : board.pci.config[s][off] = s + 1

LEMMA BarInit == Init => BarInv
<1> SUFFICES ASSUME Init PROVE BarInv
  OBVIOUS
<1>1. PICK epoch \in Epochs, size \in Sizes : board = New(epoch, size) /\ hist = Fresh
  BY DEF Init
<1>2. board.pci = P!New /\ hist.partial = FALSE
  BY <1>1 DEF New, Fresh
<1>3. \A s \in Present : board.pci.config[s] = P!Config(s)
  BY <1>2 DEF P!New
<1>4. \A s \in Present, off \in 0..3 : P!Config(s)[off] = s + 1
  <2> SUFFICES ASSUME NEW s \in Present, NEW off \in 0..3 PROVE P!Config(s)[off] = s + 1
    OBVIOUS
  <2>1. off \in P!Offsets /\ P!ReadOnly(off) /\ off # 4 /\ off # \h10 /\ off # \h11 /\ off # \h3C
    BY Identity DEF P!Offsets
  <2> QED
    BY <2>1 DEF P!Config
<1>5. P!Config(Disk)[\h10] = 1
  <2>1. \h10 \in P!Offsets /\ ~P!ReadOnly(\h10)
    BY Identity DEF P!Offsets
  <2> QED
    BY <2>1 DEF P!Config
<1>6. 1 % BarSize = 1
  BY PciAssumption
<1> QED
  BY <1>2, <1>3, <1>4, <1>5, <1>6, PciAssumption DEF BarInv, Low

LEMMA BarNext ==
  ASSUME Shape, BarInv, [Next]_vars
  PROVE  BarInv'
<1>1. CASE board'.pci = board.pci /\ hist'.partial = hist.partial
  BY <1>1 DEF BarInv, Low
<1>2. CASE GuestOut
  <2>1. PICK p \in Port, v \in Word : OutRecorded(p, v)
    BY <1>2, OutStep
  <2> DEFINE n == Len(v)
  <2>2. /\ OutDone(board.mem, Quiet, board', p, v[1], n)
        /\ ~hist'.partial => ~hist.partial /\ (Claimed(board, p) \/ ~NarrowBar(p, v))
    BY <2>1, Zenon DEF OutRecorded
  <2>3. Still(board, Quiet) /\ (Claimed(Quiet, p) <=> Claimed(board, p))
    BY QuietShape
  <2>4. NarrowBar(p, v) <=> Narrow(board.pci, p, n)
    BY Zenon DEF NarrowBar, WholeBar, Narrow
  <2> HIDE DEF n
  <2>5. /\ BarKept(board.pci, board'.pci, p, n)
        /\ Claimed(board, p) => board'.pci = board.pci
    BY <2>2, <2>3, Zenon DEF OutDone, Still
  <2>6. CASE Claimed(board, p)
    BY <2>2, <2>5, <2>6 DEF BarInv
  <2>7. CASE ~Claimed(board, p)
    BY <2>2, <2>4, <2>5, <2>7 DEF BarInv, BarKept
  <2> QED
    BY <2>6, <2>7
<1>3. CASE GuestIn
  BY <1>1, <1>3, InStep DEF InRecorded
<1>4. CASE Flush \/ DiskService
  BY <1>1, <1>4, DiskStep DEF Alike
<1>5. CASE ChannelByte \/ RunTransfer
  BY <1>1, <1>5, DmaStep
<1>6. CASE TickSecond
  BY <1>1, <1>6, ClockStep DEF Alike
<1>7. CASE SetMode \/ SetCursor \/ WriteString \/ Teletype
  BY <1>1, <1>7, ScreenStep
<1>8. CASE Store \/ AskMap
  BY <1>1, <1>8, MemoryStep DEF Still
<1>9. CASE UNCHANGED vars
  BY <1>1, <1>9 DEF vars
<1> QED
  BY <1>2, <1>3, <1>4, <1>5, <1>6, <1>7, <1>8, <1>9 DEF Next

\* Written whole, the base address register stays a multiple of its size and marked
\* I/O, and no write changes what a function says it is (write_data).
THEOREM BarKeepsItsShape == Spec => []BarKeepsShape
<1>1. Spec => []BarInv
  BY ShapeInit, ShapeNext, BarInit, BarNext, PTL DEF Spec
<1>2. BarInv => BarKeepsShape
  <2>1. \A off : off \in {0, 1, 2, 3} => off \in 0..3
    OBVIOUS
  <2> QED
    BY <2>1 DEF BarInv, BarKeepsShape, Low
<1> QED
  BY <1>1, <1>2, PTL

-----------------------------------------------------------------------------
(* The halves of the DMA controller                                          *)

(* the turns at which a port was written, on odd (r = 1) or even (r = 0) ones, *)
(* and the byte of the last of them                                           *)
Turned(ch, port, r) == {i \in DOMAIN ch : ch[i][1] = port /\ i % 2 = r}
LastIn(ch, port, r) ==
  IF Turned(ch, port, r) = {} THEN 0
  ELSE ch[CHOOSE i \in Turned(ch, port, r) : \A j \in Turned(ch, port, r) : j <= i][2]
HasLast(ch, port, r) ==
  Turned(ch, port, r) = {} \/ \E i \in Turned(ch, port, r) : \A j \in Turned(ch, port, r) : j <= i

\* One more byte is the last one of its port and its half, and of no other.
LEMMA NextTurn ==
  ASSUME NEW ch \in Seq(Turns), NEW port \in 0..7, NEW v \in ChannelBytes, NEW q \in 0..7, NEW r \in {0, 1},
         HasLast(ch, q, r)
  PROVE  LET new == Append(ch, <<port, v>>)
             turn == (Len(ch) + 1) % 2
         IN  /\ HasLast(new, q, r)
             /\ LastIn(new, q, r) = IF q = port /\ r = turn THEN v ELSE LastIn(ch, q, r)
<1> DEFINE new == Append(ch, <<port, v>>)  turn == (Len(ch) + 1) % 2  n == Len(ch) + 1
           old == Turned(ch, q, r)  now == Turned(new, q, r)
<1>1. /\ n \in Nat /\ n >= 1 /\ DOMAIN ch = 1..(n - 1) /\ DOMAIN new = 1..n
      /\ \A i \in 1..(n - 1) : new[i] = ch[i]
      /\ new[n] = <<port, v>>
  OBVIOUS
<1>2. new[n][1] = port /\ new[n][2] = v
  BY <1>1
<1> HIDE DEF new, n
<1>3. old \subseteq 1..(n - 1)
  BY <1>1 DEF Turned
<1>4. CASE q = port /\ r = turn
  <2>1. now = old \cup {n}
    BY <1>1, <1>2, <1>4 DEF Turned, n
  <2> HIDE DEF now, old
  <2>2. n \in now /\ \A j \in now : j <= n
    BY <1>1, <1>3, <2>1
  <2>3. \A i \in now : (\A j \in now : j <= i) => i = n
    BY <1>1, <1>3, <2>1, <2>2
  <2>4. (CHOOSE i \in now : \A j \in now : j <= i) = n
    BY <2>2, <2>3
  <2> QED
    BY <1>2, <1>4, <2>2, <2>4 DEF HasLast, LastIn, now, new, n
<1>5. CASE ~(q = port /\ r = turn)
  <2>1. now = old
    <3>1. \A i \in 1..n : i \in 1..(n - 1) \/ i = n
      BY <1>1
    <3>2. n \notin now
      BY <1>1, <1>2, <1>5 DEF Turned, n
    <3>3. \A i \in 1..(n - 1) : i \in now <=> i \in old
      BY <1>1 DEF Turned
    <3>4. now \subseteq 1..n
      BY <1>1 DEF Turned
    <3> QED
      BY <1>3, <3>1, <3>2, <3>3, <3>4
  <2>2. CASE old = {}
    BY <1>5, <2>1, <2>2 DEF HasLast, LastIn, old, now, new, n
  <2>3. CASE old # {}
    <3> DEFINE i == CHOOSE i \in old : \A j \in old : j <= i
    <3>1. \E k \in old : \A j \in old : j <= k
      BY <2>3 DEF HasLast
    <3>2. i \in old
      BY <3>1
    <3>3. new[i] = ch[i]
      BY <1>1, <1>3, <3>2
    <3>4. HasLast(new, q, r)
      BY <2>1, <3>1 DEF HasLast
    <3>5. LastIn(new, q, r) = new[i][2] /\ LastIn(ch, q, r) = ch[i][2]
      BY <2>1, <2>3, Zenon DEF LastIn
    <3> QED
      BY <1>5, <3>3, <3>4, <3>5 DEF new, n
  <2> QED
    BY <2>2, <2>3
<1> QED
  BY <1>4, <1>5

(* each half is the last byte written to it; the flip-flop counts the bytes *)
HalvesInv ==
  /\ board.dma.high <=> Len(hist.channel) % 2 = 1
  /\ \A q \in 0..7, r \in {0, 1} : HasLast(hist.channel, q, r)
  /\ \A c \in D!Channels :
       /\ board.dma.base[c].lo = LastIn(hist.channel, 2 * c, 1)
       /\ board.dma.base[c].hi = LastIn(hist.channel, 2 * c, 0)
       /\ board.dma.count[c].lo = LastIn(hist.channel, 2 * c + 1, 1)
       /\ board.dma.count[c].hi = LastIn(hist.channel, 2 * c + 1, 0)

LEMMA HalvesInit == Init => HalvesInv
<1> SUFFICES ASSUME Init PROVE HalvesInv
  OBVIOUS
<1>1. PICK epoch \in Epochs, size \in Sizes : board = New(epoch, size) /\ hist = Fresh
  BY DEF Init
<1>2. board.dma = D!New /\ hist.channel = <<>>
  BY <1>1 DEF New, Fresh
<1>3. \A q, r : Turned(<<>>, q, r) = {}
  BY DEF Turned
<1>4. \A c \in D!Channels : /\ board.dma.base[c].lo = 0 /\ board.dma.base[c].hi = 0
                            /\ board.dma.count[c].lo = 0 /\ board.dma.count[c].hi = 0
  BY <1>2 DEF D!New
<1>5. ~board.dma.high
  BY <1>2 DEF D!New
<1>6. \A q, r : HasLast(<<>>, q, r) /\ LastIn(<<>>, q, r) = 0
  BY <1>3, Zenon DEF HasLast, LastIn
<1>7. Len(<<>>) % 2 = 0
  OBVIOUS
<1>8. ~(Len(<<>>) % 2 = 1)
  BY <1>7
<1> QED
  BY <1>2, <1>4, <1>5, <1>6, <1>8, Zenon DEF HalvesInv

\* Odd and even alternate.
LEMMA Parity ==
  ASSUME NEW n \in Nat
  PROVE  /\ n % 2 = 1 <=> (n + 1) % 2 = 0
         /\ n % 2 = 1 <=> ~((n + 1) % 2 = 1)
         /\ (n + 1) % 2 \in {0, 1}
  OBVIOUS

\* A byte for a channel goes to the half that its turn names (write_channel).
LEMMA HalvesChannel ==
  ASSUME HalvesInv, NEW port \in 0..7, NEW v \in ChannelBytes, board.dma \in DmaType,
         hist.channel \in Seq(Turns), hist'.channel = Append(hist.channel, <<port, v>>),
         board'.dma = D!WriteChannel(board.dma, port, v)
  PROVE  HalvesInv'
<1> DEFINE ch == hist.channel  new == Append(ch, <<port, v>>)  turn == (Len(ch) + 1) % 2
           d == board.dma  e == D!WriteChannel(d, port, v)
<1>1. /\ e.high = ~d.high
      /\ \A c \in D!Channels :
           /\ e.base[c] = IF port = 2 * c THEN Put(d.base[c], d.high, v) ELSE d.base[c]
           /\ e.count[c] = IF port = 2 * c + 1 THEN Put(d.count[c], d.high, v) ELSE d.count[c]
  <2>1. d \in DmaType
    OBVIOUS
  <2> HIDE DEF d
  <2>2. Turn(d, e, port, v)
    BY <2>1, DmaChannel
  <2> HIDE DEF e
  <2> QED
    BY <2>2 DEF Turn
<1>2. \A q \in 0..7, r \in {0, 1} :
        /\ HasLast(new, q, r)
        /\ LastIn(new, q, r) = IF q = port /\ r = turn THEN v ELSE LastIn(ch, q, r)
  <2> SUFFICES ASSUME NEW q \in 0..7, NEW r \in {0, 1}
               PROVE  /\ HasLast(new, q, r)
                      /\ LastIn(new, q, r) = IF q = port /\ r = turn THEN v ELSE LastIn(ch, q, r)
    OBVIOUS
  <2>1. HasLast(ch, q, r)
    BY Zenon DEF HalvesInv
  <2>2. ch \in Seq(Turns)
    OBVIOUS
  <2> HIDE DEF ch
  <2> QED
    BY <2>1, <2>2, NextTurn
<1>3. /\ d.high <=> turn = 0
      /\ e.high <=> Len(new) % 2 = 1
      /\ turn \in {0, 1}
  <2> DEFINE n == Len(ch)
  <2>1. n \in Nat /\ Len(new) = n + 1
    OBVIOUS
  <2>2. (d.high <=> n % 2 = 1) /\ e.high = ~d.high
    BY <1>1, Zenon DEF HalvesInv
  <2>3. turn = (n + 1) % 2
    OBVIOUS
  <2> HIDE DEF n, d, e, new, turn
  <2>4. n % 2 = 1 <=> (n + 1) % 2 = 0
    BY <2>1, Parity
  <2>5. n % 2 = 1 <=> ~((n + 1) % 2 = 1)
    BY <2>1, Parity
  <2>6. d.high <=> turn = 0
    BY <2>2, <2>3, <2>4, Zenon
  <2>7. e.high <=> Len(new) % 2 = 1
    BY <2>1, <2>2, <2>5, Zenon
  <2>8. turn \in {0, 1}
    BY <2>1, <2>3, Parity
  <2> QED
    BY <2>6, <2>7, <2>8
<1>5. \A c \in D!Channels : /\ 2 * c \in 0..7 /\ 2 * c + 1 \in 0..7
                            /\ d.base[c] \in D!Halves /\ d.count[c] \in D!Halves
  BY DEF D!Channels, DmaType
<1>6. \A h \in D!Halves : /\ Put(h, d.high, v).lo = IF d.high THEN h.lo ELSE v
                          /\ Put(h, d.high, v).hi = IF d.high THEN v ELSE h.hi
  BY DEF Put, D!Halves
<1>7. ch = hist.channel /\ d = board.dma
  OBVIOUS
<1> HIDE DEF ch, new, turn, d, e
<1>8. ASSUME NEW c \in D!Channels
      PROVE  /\ e.base[c].lo = LastIn(new, 2 * c, 1) /\ e.base[c].hi = LastIn(new, 2 * c, 0)
             /\ e.count[c].lo = LastIn(new, 2 * c + 1, 1) /\ e.count[c].hi = LastIn(new, 2 * c + 1, 0)
  <2>1. /\ d.base[c].lo = LastIn(ch, 2 * c, 1) /\ d.base[c].hi = LastIn(ch, 2 * c, 0)
        /\ d.count[c].lo = LastIn(ch, 2 * c + 1, 1) /\ d.count[c].hi = LastIn(ch, 2 * c + 1, 0)
    BY <1>7 DEF HalvesInv
  <2>2. /\ LastIn(new, 2 * c, 1) = IF 2 * c = port /\ turn = 1 THEN v ELSE LastIn(ch, 2 * c, 1)
        /\ LastIn(new, 2 * c, 0) = IF 2 * c = port /\ turn = 0 THEN v ELSE LastIn(ch, 2 * c, 0)
    BY <1>2, <1>5
  <2>3. /\ LastIn(new, 2 * c + 1, 1) = IF 2 * c + 1 = port /\ turn = 1 THEN v ELSE LastIn(ch, 2 * c + 1, 1)
        /\ LastIn(new, 2 * c + 1, 0) = IF 2 * c + 1 = port /\ turn = 0 THEN v ELSE LastIn(ch, 2 * c + 1, 0)
    BY <1>2, <1>5
  <2>4. /\ e.base[c].lo = IF port = 2 * c /\ ~d.high THEN v ELSE d.base[c].lo
        /\ e.base[c].hi = IF port = 2 * c /\ d.high THEN v ELSE d.base[c].hi
        /\ e.count[c].lo = IF port = 2 * c + 1 /\ ~d.high THEN v ELSE d.count[c].lo
        /\ e.count[c].hi = IF port = 2 * c + 1 /\ d.high THEN v ELSE d.count[c].hi
    BY <1>1, <1>5, <1>6
  <2> QED
    BY <1>3, <2>1, <2>2, <2>3, <2>4
<1>9. hist'.channel = new /\ board'.dma = e
  BY DEF new, e, ch, d
<1>10. board'.dma.high <=> Len(hist'.channel) % 2 = 1
  BY <1>3, <1>9, Zenon
<1>11. \A q \in 0..7, r \in {0, 1} : HasLast(hist'.channel, q, r)
  BY <1>2, <1>9, Zenon
<1>12. \A c \in D!Channels :
         /\ board'.dma.base[c].lo = LastIn(hist'.channel, 2 * c, 1)
         /\ board'.dma.base[c].hi = LastIn(hist'.channel, 2 * c, 0)
         /\ board'.dma.count[c].lo = LastIn(hist'.channel, 2 * c + 1, 1)
         /\ board'.dma.count[c].hi = LastIn(hist'.channel, 2 * c + 1, 0)
  BY <1>8, <1>9, Zenon
<1> QED
  BY <1>10, <1>11, <1>12, Zenon DEF HalvesInv

LEMMA HalvesNext ==
  ASSUME Shape, HalvesInv, [Next]_vars
  PROVE  HalvesInv'
<1>1. board.dma \in DmaType /\ hist.channel \in Seq(Turns)
  BY DEF Shape, Boards, Histories
<1>2. CASE /\ hist'.channel = hist.channel /\ board'.dma.base = board.dma.base
           /\ board'.dma.count = board.dma.count /\ board'.dma.high = board.dma.high
  BY <1>2 DEF HalvesInv
<1>3. CASE GuestOut
  <2>1. PICK p \in Port, v \in Word : OutRecorded(p, v)
    BY <1>3, OutStep
  <2>2. OutDone(board.mem, Quiet, board', p, v[1], Len(v)) /\ Apart(hist, hist')
    BY <2>1, Zenon DEF OutRecorded
  <2>3. Still(board, Quiet)
    BY QuietShape
  <2> QED
    BY <1>2, <2>2, <2>3, Zenon DEF OutDone, Moves, Apart, Still
<1>4. CASE GuestIn
  BY <1>2, <1>4, InStep DEF InRecorded, Moves, Apart
<1>5. CASE Flush \/ DiskService
  BY <1>2, <1>5, DiskStep DEF Alike, Apart
<1>6. CASE ChannelByte \/ RunTransfer
  <2>1. CASE hist'.channel = hist.channel /\ DmaKept(board.dma, board'.dma)
    BY <1>2, <2>1 DEF DmaKept
  <2>2. CASE \E port \in 0..7, v \in ChannelBytes :
               /\ hist'.channel = Append(hist.channel, <<port, v>>)
               /\ board'.dma = D!WriteChannel(board.dma, port, v)
    BY <1>1, <2>2, HalvesChannel
  <2> QED
    BY <1>6, <2>1, <2>2, DmaStep
<1>7. CASE TickSecond
  BY <1>2, <1>7, ClockStep DEF Alike, Apart
<1>8. CASE SetMode \/ SetCursor \/ WriteString \/ Teletype
  BY <1>2, <1>8, ScreenStep
<1>9. CASE Store \/ AskMap
  BY <1>2, <1>9, MemoryStep DEF Still
<1>10. CASE UNCHANGED vars
  BY <1>2, <1>10 DEF vars
<1> QED
  BY <1>3, <1>4, <1>5, <1>6, <1>7, <1>8, <1>9, <1>10 DEF Next

\* Through the one flip-flop every address and count pairs the bytes that were meant
\* for it, whatever was written to the other channels between (write_channel).
THEOREM HalvesArePaired == Spec => []HalvesPair
<1>1. Spec => []HalvesInv
  BY ShapeInit, ShapeNext, HalvesInit, HalvesNext, PTL DEF Spec
<1>2. Shape /\ HalvesInv => HalvesPair
  <2> SUFFICES ASSUME Shape, HalvesInv PROVE HalvesPair
    OBVIOUS
  <2> DEFINE ch == hist.channel
  <2>1. ch \in Seq(Turns)
    BY DEF Shape, Histories
  <2>2. \A i \in DOMAIN ch : i \in Nat
    BY <2>1
  <2>3. \A port : {i \in DOMAIN ch : ch[i][1] = port /\ (i % 2 = 0) = FALSE} = Turned(ch, port, 1)
    BY <2>2 DEF Turned
  <2>4. \A port : {i \in DOMAIN ch : ch[i][1] = port /\ (i % 2 = 0) = TRUE} = Turned(ch, port, 0)
    BY <2>2 DEF Turned
  <2> DEFINE At(S) == IF S = {} THEN 0 ELSE ch[CHOOSE i \in S : \A j \in S : j <= i][2]
             A(port) == {i \in DOMAIN ch : ch[i][1] = port /\ (i % 2 = 0) = FALSE}
             B(port) == {i \in DOMAIN ch : ch[i][1] = port /\ (i % 2 = 0) = TRUE}
  <2>8. \A port : LastOf(port, FALSE) = At(A(port)) /\ LastOf(port, TRUE) = At(B(port))
    BY Zenon DEF LastOf
  <2>9. \A port, r : LastIn(ch, port, r) = At(Turned(ch, port, r))
    BY Zenon DEF LastIn
  <2>10. \A port : A(port) = Turned(ch, port, 1) /\ B(port) = Turned(ch, port, 0)
    BY <2>3, <2>4
  <2> HIDE DEF At, A, B
  <2>5. \A port : LastOf(port, FALSE) = LastIn(ch, port, 1)
    BY <2>8, <2>9, <2>10
  <2>6. \A port : LastOf(port, TRUE) = LastIn(ch, port, 0)
    BY <2>8, <2>9, <2>10
  <2>7. \A c \in D!Channels :
          /\ D!Word(board.dma.base[c]) = LastIn(ch, 2 * c, 1) + Radix * LastIn(ch, 2 * c, 0)
          /\ D!Word(board.dma.count[c]) = LastIn(ch, 2 * c + 1, 1) + Radix * LastIn(ch, 2 * c + 1, 0)
    BY Zenon DEF HalvesInv, D!Word
  <2> QED
    BY <2>5, <2>6, <2>7, Zenon DEF HalvesPair
<1> QED
  BY Shapes, <1>1, <1>2, PTL

-----------------------------------------------------------------------------
(* The text that is printed                                                  *)

\* A number of characters is so many lines and the rest of one, in one way.
LEMMA Quotient ==
  ASSUME NEW c \in Nat \ {0}, NEW q \in Nat, NEW r \in 0..(c - 1), NEW n \in Nat, n = q * c + r
  PROVE  n \div c = q
<1>1. q * c <= n /\ n < q * c + c /\ c > 0
  OBVIOUS
<1> QED
  BY <1>1

LEMMA Unique ==
  ASSUME NEW c \in Nat \ {0}, NEW a \in Int, NEW b \in Int, NEW x \in 0..(c - 1), NEW y \in 0..(c - 1),
         a * c + x = b * c + y
  PROVE  a = b /\ x = y
<1>1. ASSUME a < b PROVE FALSE
  <2>1. PICK k \in Nat : b = a + 1 + k
    BY <1>1
  <2>2. b * c = a * c + c + k * c /\ k * c >= 0
    BY <2>1
  <2> QED
    BY <2>2
<1>2. ASSUME b < a PROVE FALSE
  <2>1. PICK k \in Nat : a = b + 1 + k
    BY <1>2
  <2>2. a * c = b * c + c + k * c /\ k * c >= 0
    BY <2>1
  <2> QED
    BY <2>2
<1>3. a = b
  BY <1>1, <1>2
<1> QED
  BY <1>3

(* q lines and r characters are printed, and the screen shows the last of them *)
Above(q) == IF q >= Rows THEN q - Rows + 1 ELSE 0
Mark(printed, gone, x, y) ==
  LET i == (gone + x) * Cols + y + 1 IN IF i <= Len(printed) THEN printed[i] ELSE Blank
Displays(vga, printed, q, r) ==
  /\ Len(printed) = q * Cols + r
  /\ vga.col = r /\ vga.row = q - Above(q)
  /\ \A x \in 0..(Rows - 1), y \in 0..(Cols - 1) : vga.text[<<x, y>>] = Mark(printed, Above(q), x, y)
ScreenInv == ~hist.placed => \E q \in Nat, r \in 0..(Cols - 1) : Displays(board.vga, hist.printed, q, r)

\* Where the next character goes on the screen it was not yet, and nowhere else is
\* anything told of it.
LEMMA NextMark ==
  ASSUME NEW printed \in Seq(Chars), NEW ch \in Chars, NEW q \in Nat, NEW r \in 0..(Cols - 1),
         Len(printed) = q * Cols + r, NEW gone \in Nat, NEW x \in 0..(Rows - 1), NEW y \in 0..(Cols - 1)
  PROVE  Mark(Append(printed, ch), gone, x, y) = IF gone + x = q /\ y = r THEN ch ELSE Mark(printed, gone, x, y)
<1> DEFINE new == Append(printed, ch)  n == Len(printed)  k == (gone + x) * Cols  i == k + y + 1
<1>1. Cols \in Nat \ {0} /\ Rows \in Nat
  BY VgaAssumption
<1>2. n \in Nat /\ Len(new) = n + 1 /\ new[n + 1] = ch /\ \A j \in 1..n : new[j] = printed[j]
  OBVIOUS
<1>3. k \in Nat /\ q * Cols \in Nat
  BY <1>1
<1>4. i \in Nat /\ i >= 1
  BY <1>1, <1>3
<1>5. CASE gone + x = q /\ y = r
  <2>1. i = n + 1
    BY <1>1, <1>5
  <2> HIDE DEF i, n, new
  <2>2. Mark(new, gone, x, y) = new[i]
    BY <1>2, <2>1 DEF Mark, i
  <2> QED
    BY <1>2, <1>5, <2>1, <2>2 DEF new
<1>6. CASE ~(gone + x = q /\ y = r)
  <2>1. i # n + 1
    <3> SUFFICES ASSUME i = n + 1 PROVE FALSE
      OBVIOUS
    <3>1. (gone + x) * Cols + y = q * Cols + r
      BY <1>1, <1>3
    <3>2. gone + x \in Int
      BY <1>1
    <3> QED
      BY <1>1, <1>6, <3>1, <3>2, Unique
  <2> HIDE DEF n, new, k
  <2>2. i <= n + 1 <=> i <= n
    BY <1>2, <1>4, <2>1
  <2>3. i <= n => new[i] = printed[i]
    BY <1>2, <1>4
  <2>4. Mark(new, gone, x, y) = Mark(printed, gone, x, y)
    BY <1>2, <2>2, <2>3 DEF Mark, n, k
  <2> QED
    BY <1>6, <2>4 DEF new
<1> QED
  BY <1>5, <1>6

\* A character moves the screen as it moves what is printed (put_char).
LEMMA PrintStep ==
  ASSUME NEW vga \in VgaType, NEW printed \in Seq(Chars), NEW ch \in Chars,
         NEW q \in Nat, NEW r \in 0..(Cols - 1), Displays(vga, printed, q, r)
  PROVE  \E s \in Nat, t \in 0..(Cols - 1) : Displays(V!PutChar(vga, ch), Append(printed, ch), s, t)
<1> DEFINE w == V!PutChar(vga, ch)  new == Append(printed, ch)  gone == Above(q)
           put == Put1(vga, ch)
<1>1. Cols \in 1..255 /\ Rows \in 1..255
  BY VgaAssumption
<1>2. /\ Len(printed) = q * Cols + r /\ vga.col = r /\ vga.row = q - gone
      /\ \A x \in 0..(Rows - 1), y \in 0..(Cols - 1) : vga.text[<<x, y>>] = Mark(printed, gone, x, y)
  BY Zenon DEF Displays
<1>3. gone \in Nat /\ q - gone \in 0..(Rows - 1)
  BY <1>1 DEF Above
<1>4. Len(new) = Len(printed) + 1 /\ q * Cols \in Nat
  BY <1>1
<1>5. \A x \in 0..(Rows - 1), y \in 0..(Cols - 1) : put[<<x, y>>] = Mark(new, gone, x, y)
  <2> SUFFICES ASSUME NEW x \in 0..(Rows - 1), NEW y \in 0..(Cols - 1)
               PROVE  put[<<x, y>>] = Mark(new, gone, x, y)
    OBVIOUS
  <2>1. Mark(new, gone, x, y) = IF gone + x = q /\ y = r THEN ch ELSE Mark(printed, gone, x, y)
    BY <1>2, <1>3, NextMark
  <2>2. gone + x = q /\ y = r <=> x = vga.row /\ y = vga.col
    <3>1. gone \in Int /\ q \in Int /\ x \in Int
      BY <1>1, <1>3
    <3>2. vga.row = q - gone /\ vga.col = r
      BY <1>2, Zenon
    <3> HIDE DEF gone
    <3>3. gone + x = q <=> x = q - gone
      BY <3>1
    <3> QED
      BY <3>2, <3>3, Zenon
  <2>3. <<x, y>> \in V!Places /\ <<vga.row, vga.col>> \in V!Places /\ DOMAIN vga.text = V!Places
    BY <1>2, <1>3 DEF V!Places, VgaType
  <2>4. put[<<x, y>>] = IF x = vga.row /\ y = vga.col THEN ch ELSE vga.text[<<x, y>>]
    BY <2>3 DEF Put1
  <2> QED
    BY <1>2, <2>1, <2>2, <2>4, Zenon
<1>6. /\ put \in Screens
      /\ \/ /\ (vga.col + 1) % 256 < Cols
            /\ w.col = (vga.col + 1) % 256 /\ w.row = vga.row /\ w.text = put
         \/ /\ ~((vga.col + 1) % 256 < Cols) /\ (vga.row + 1) % 256 < Rows
            /\ w.col = 0 /\ w.row = (vga.row + 1) % 256 /\ w.text = put
         \/ /\ ~((vga.col + 1) % 256 < Cols) /\ ~((vga.row + 1) % 256 < Rows)
            /\ w.col = 0 /\ w.row = Rows - 1 /\ w.text = ScrolledUp(put)
  BY PutCharShape, Zenon DEF Printed
<1>7. (vga.col + 1) % 256 = r + 1 /\ (vga.row + 1) % 256 = q - gone + 1
  <2>1. \A k \in Nat : k < 255 => (k + 1) % 256 = k + 1
    OBVIOUS
  <2> DEFINE row == q - gone
  <2>3. row \in 0..(Rows - 1)
    BY <1>3
  <2> HIDE DEF row
  <2>4. r \in Nat /\ r < 255 /\ row \in Nat /\ row < 255
    BY <1>1, <2>3
  <2>2. r \in Nat /\ r < 255 /\ q - gone \in Nat /\ q - gone < 255
    BY <2>4 DEF row
  <2> QED
    BY <1>2, <2>1, <2>2, Zenon
<1> HIDE DEF w, new, gone, put
<1>8. CASE r + 1 < Cols
  <2>1. w.col = r + 1 /\ w.row = q - gone /\ w.text = put
    BY <1>2, <1>6, <1>7, <1>8
  <2>2. Len(new) = q * Cols + (r + 1) /\ r + 1 \in 0..(Cols - 1)
    <3>1. PICK whole : whole = q * Cols
      BY Zenon
    <3>2. whole \in Nat /\ Len(new) = (whole + r) + 1
      BY <1>2, <1>4, <3>1, Zenon
    <3>3. (whole + r) + 1 = whole + (r + 1) /\ r + 1 \in 0..(Cols - 1)
      BY <1>1, <1>8, <3>2
    <3> QED
      BY <3>1, <3>2, <3>3, Zenon
  <2>3. Displays(w, new, q, r + 1)
    BY <1>5, <2>1, <2>2 DEF Displays, gone
  <2> QED
    BY <2>2, <2>3 DEF w, new
<1>9. CASE ~(r + 1 < Cols)
  <2>1. Len(new) = (q + 1) * Cols + 0 /\ 0 \in 0..(Cols - 1) /\ q + 1 \in Nat
    <3>1. r + 1 = Cols /\ (q + 1) * Cols = q * Cols + Cols
      BY <1>1, <1>9
    <3>2. PICK whole : whole = q * Cols
      BY Zenon
    <3>3. whole \in Nat /\ Len(new) = (whole + r) + 1 /\ (q + 1) * Cols = whole + Cols
      BY <1>2, <1>4, <3>1, <3>2, Zenon
    <3>4. PICK all : all = (q + 1) * Cols
      BY Zenon
    <3>5. all = whole + Cols
      BY <3>3, <3>4, Zenon
    <3>6. (whole + r) + 1 = all + 0 /\ 0 \in 0..(Cols - 1) /\ q + 1 \in Nat
      BY <1>1, <3>1, <3>3, <3>5
    <3> QED
      BY <3>3, <3>4, <3>6, Zenon
  <2>2. CASE q - gone + 1 < Rows
    <3>1. gone = 0 /\ Above(q + 1) = 0
      BY <1>1, <1>3, <2>2 DEF Above, gone
    <3>2. w.col = 0 /\ w.row = (q + 1) - Above(q + 1) /\ w.text = put
      BY <1>6, <1>7, <1>9, <2>2, <3>1
    <3>3. Displays(w, new, q + 1, 0)
      BY <1>5, <2>1, <3>1, <3>2 DEF Displays
    <3> QED
      BY <2>1, <3>3 DEF w, new
  <2>3. CASE ~(q - gone + 1 < Rows)
    <3>1. Above(q + 1) = gone + 1 /\ (q + 1) - Above(q + 1) = Rows - 1
      BY <1>1, <1>3, <2>3 DEF Above, gone
    <3>2. w.col = 0 /\ w.row = (q + 1) - Above(q + 1) /\ w.text = ScrolledUp(put)
      BY <1>6, <1>7, <1>9, <2>3, <3>1
    <3>3. ASSUME NEW x \in 0..(Rows - 1), NEW y \in 0..(Cols - 1)
          PROVE  w.text[<<x, y>>] = Mark(new, gone + 1, x, y)
      <4>1. <<x, y>> \in V!Places /\ <<x, y>>[1] = x /\ <<x, y>>[2] = y
        BY DEF V!Places
      <4>2. w.text[<<x, y>>] = IF x < Rows - 1 THEN put[<<x + 1, y>>] ELSE Blank
        BY <3>2, <4>1 DEF ScrolledUp
      <4>3. CASE x < Rows - 1
        <5>1. x + 1 \in 0..(Rows - 1) /\ gone + 1 + x = gone + (x + 1)
          BY <1>1, <1>3, <4>3
        <5>2. put[<<x + 1, y>>] = Mark(new, gone, x + 1, y)
          BY <1>5, <5>1
        <5> QED
          BY <4>2, <4>3, <5>1, <5>2 DEF Mark
      <4>4. CASE ~(x < Rows - 1)
        <5> DEFINE k == (gone + 1 + x) * Cols
        <5>1. gone + 1 + x = q + 1
          BY <1>1, <1>3, <3>1, <4>4
        <5>2. k = (q + 1) * Cols /\ (q + 1) * Cols \in Nat
          BY <1>1, <5>1
        <5> HIDE DEF k
        <5>3. ~(k + y + 1 <= Len(new))
          <6> DEFINE m == (q + 1) * Cols
          <6>1. k = m /\ m \in Nat /\ Len(new) = m + 0
            BY <2>1, <5>2
          <6> HIDE DEF m
          <6> QED
            BY <6>1
        <5> QED
          BY <4>2, <4>4, <5>3 DEF Mark, k
      <4> QED
        BY <4>3, <4>4
    <3>4. \A x \in 0..(Rows - 1), y \in 0..(Cols - 1) : w.text[<<x, y>>] = Mark(new, Above(q + 1), x, y)
      BY <3>1, <3>3, Zenon
    <3>5. Displays(w, new, q + 1, 0)
      BY <2>1, <3>2, <3>4, Zenon DEF Displays
    <3> QED
      BY <2>1, <3>5 DEF w, new
  <2> QED
    BY <2>2, <2>3
<1> QED
  BY <1>8, <1>9

LEMMA ScreenInit == Init => ScreenInv
<1> SUFFICES ASSUME Init PROVE ScreenInv
  OBVIOUS
<1>1. PICK epoch \in Epochs, size \in Sizes : board = New(epoch, size) /\ hist = Fresh
  BY DEF Init
<1>2. board.vga = V!New /\ hist.printed = <<>>
  BY <1>1 DEF New, Fresh
<1> DEFINE vga == board.vga
<1>3. vga.col = 0 /\ vga.row = 0 /\ \A p \in V!Places : vga.text[p] = Blank
  BY <1>2 DEF V!New
<1>4. Cols \in Nat \ {0} /\ Rows \in Nat \ {0}
  BY VgaAssumption
<1> HIDE DEF vga
<1>5. Above(0) = 0 /\ 0 * Cols + 0 = 0 /\ 0 \in 0..(Cols - 1)
  BY <1>4 DEF Above
<1>6. ASSUME NEW x \in 0..(Rows - 1), NEW y \in 0..(Cols - 1)
      PROVE  vga.text[<<x, y>>] = Mark(<<>>, 0, x, y)
  <2>1. <<x, y>> \in V!Places
    BY DEF V!Places
  <2>2. (0 + x) * Cols \in Nat
    BY <1>4
  <2> DEFINE k == (0 + x) * Cols
  <2> HIDE DEF k
  <2>3. ~(k + y + 1 <= Len(<<>>))
    BY <2>2 DEF k
  <2>4. Mark(<<>>, 0, x, y) = Blank
    BY <2>3, Zenon DEF Mark, k
  <2> QED
    BY <1>3, <2>1, <2>4
<1>7. Displays(vga, <<>>, 0, 0)
  <2>1. Len(<<>>) = 0 * Cols + 0 /\ 0 = 0 - Above(0)
    BY <1>5
  <2> QED
    BY <1>3, <1>5, <1>6, <2>1 DEF Displays
<1> QED
  BY <1>2, <1>5, <1>7 DEF ScreenInv, vga

LEMMA ScreenNext ==
  ASSUME Shape, ScreenInv, [Next]_vars
  PROVE  ScreenInv'
<1> DEFINE Same == /\ hist'.printed = hist.printed /\ hist'.placed = hist.placed
                   /\ board'.vga.text = board.vga.text /\ board'.vga.row = board.vga.row
                   /\ board'.vga.col = board.vga.col
<1>1. CASE Same
  BY <1>1 DEF ScreenInv, Displays
<1>2. CASE GuestOut
  <2>1. PICK p \in Port, v \in Word : OutRecorded(p, v)
    BY <1>2, OutStep
  <2>2. OutDone(board.mem, Quiet, board', p, v[1], Len(v)) /\ Apart(hist, hist')
    BY <2>1, Zenon DEF OutRecorded
  <2>3. Still(board, Quiet)
    BY QuietShape
  <2>4. Same
    BY <2>2, <2>3, Zenon DEF OutDone, Moves, Apart, Still
  <2> QED
    BY <1>1, <2>4
<1>3. CASE GuestIn
  <2>1. Same
    BY <1>3, InStep DEF InRecorded, Moves, Apart
  <2> QED
    BY <1>1, <2>1
<1>4. CASE Flush \/ DiskService
  BY <1>1, <1>4, DiskStep DEF Alike, Apart
<1>5. CASE ChannelByte \/ RunTransfer
  BY <1>1, <1>5, DmaStep
<1>6. CASE TickSecond
  BY <1>1, <1>6, ClockStep DEF Alike, Apart
<1>7. CASE SetMode \/ SetCursor \/ WriteString \/ Teletype
  <2>1. CASE hist'.placed
    BY <2>1 DEF ScreenInv
  <2>2. CASE \E ch \in Chars : /\ board'.vga = V!PutChar(board.vga, ch) /\ hist'.placed = hist.placed
                               /\ hist'.printed = Append(hist.printed, ch)
    <3>1. PICK ch \in Chars : /\ board'.vga = V!PutChar(board.vga, ch) /\ hist'.placed = hist.placed
                              /\ hist'.printed = Append(hist.printed, ch)
      BY <2>2
    <3>2. board.vga \in VgaType /\ hist.printed \in Seq(Chars)
      BY DEF Shape, Boards, Histories
    <3> SUFFICES ASSUME ~hist'.placed
                 PROVE  \E q \in Nat, r \in 0..(Cols - 1) : Displays(board'.vga, hist'.printed, q, r)
      BY DEF ScreenInv
    <3>3. PICK q \in Nat, r \in 0..(Cols - 1) : Displays(board.vga, hist.printed, q, r)
      BY <3>1 DEF ScreenInv
    <3> QED
      BY <3>1, <3>2, <3>3, PrintStep
  <2> QED
    BY <1>7, <2>1, <2>2, ScreenStep
<1>8. CASE Store \/ AskMap
  BY <1>1, <1>8, MemoryStep DEF Still
<1>9. CASE UNCHANGED vars
  BY <1>1, <1>9 DEF vars
<1> QED
  BY <1>2, <1>3, <1>4, <1>5, <1>6, <1>7, <1>8, <1>9 DEF Next

\* As long as nobody moves the cursor, the screen is the end of what was printed, for
\* every number of rows and columns (put_char).
THEOREM ScreenShowsTail == Spec => []ScreenTail
<1>1. Spec => []ScreenInv
  BY ShapeInit, ShapeNext, ScreenInit, ScreenNext, PTL DEF Spec
<1>2. Shape /\ ScreenInv => ScreenTail
  <2> SUFFICES ASSUME Shape, ScreenInv, ~hist.placed,
                      NEW p \in V!Places
               PROVE  LET n == Len(hist.printed)
                          gone == IF n \div Cols >= Rows THEN n \div Cols - Rows + 1 ELSE 0
                          i == (gone + p[1]) * Cols + p[2] + 1
                      IN  board.vga.text[p] = IF i <= n THEN hist.printed[i] ELSE Blank
    BY Zenon DEF ScreenTail
  <2> DEFINE n == Len(hist.printed)
  <2>1. PICK q \in Nat, r \in 0..(Cols - 1) : Displays(board.vga, hist.printed, q, r)
    BY DEF ScreenInv
  <2>2. n \in Nat
    BY DEF Shape, Histories
  <2>3. Cols \in Nat \ {0} /\ n = q * Cols + r
    <3>1. Cols \in Nat \ {0}
      BY VgaAssumption
    <3> QED
      BY <2>1, <3>1, Zenon DEF Displays
  <2> HIDE DEF n
  <2>4. n \div Cols = q
    BY <2>2, <2>3, Quotient
  <2>5. PICK x \in 0..(Rows - 1), y \in 0..(Cols - 1) : p = <<x, y>>
    BY DEF V!Places
  <2>6. p[1] = x /\ p[2] = y
    BY <2>5
  <2>7. board.vga.text[p] = Mark(hist.printed, Above(q), x, y)
    BY <2>1, <2>5, Zenon DEF Displays
  <2> QED
    BY <2>4, <2>6, <2>7, Zenon DEF Mark, Above, n
<1> QED
  BY Shapes, <1>1, <1>2, PTL

-----------------------------------------------------------------------------
(* The words at the data port                                                *)

(* what a read command leaves to be moved, and the words that have been         *)
Due(h) == IF h.from + h.size <= Len(h.found) THEN SubSeq(h.found, h.from + 1, h.from + h.size) ELSE <<>>
Moving(d, h) ==
  /\ d.buffer = Due(h)
  /\ d.index = IF Len(h.moved) < Len(d.buffer) THEN Len(h.moved) ELSE Len(d.buffer)
  /\ \A i \in 1..Len(h.moved) : h.moved[i] = IF i <= Len(d.buffer) THEN d.buffer[i] ELSE I!Null
SectorInv ==
  /\ Len(board.ide.disk) = Len(Image) /\ Len(hist.found) = Len(Image)
  /\ hist.command \in I!Reads => Moving(board.ide, hist)

LEMMA SectorInit == Init => SectorInv
<1> SUFFICES ASSUME Init PROVE SectorInv
  OBVIOUS
<1>1. PICK epoch \in Epochs, size \in Sizes : board = New(epoch, size) /\ hist = Fresh
  BY DEF Init
<1>2. board.ide.disk = Image /\ hist.found = Image /\ hist.command = 0
  BY <1>1 DEF New, Fresh, I!New
<1> QED
  BY <1>2 DEF SectorInv, I!Reads

\* A read of the data port moves the next word, or a zero past the last (read_data).
LEMMA Fetch ==
  ASSUME NEW d \in IdeType, NEW e, NEW h \in Histories, NEW g \in Histories, Moving(d, h),
         g.moved = Append(h.moved, I!DataRead(d)), g.from = h.from, g.size = h.size, g.found = h.found,
         e.buffer = d.buffer, e.index = I!ReadData(d).index
  PROVE  Moving(e, g)
<1> DEFINE buffer == d.buffer  moved == h.moved  n == Len(moved)  k == Len(buffer)  new == g.moved
<1>1. buffer \in Stream /\ moved \in Stream /\ d.index \in Nat /\ I!DataRead(d) \in Pair
  BY DataWord DEF IdeType, Histories
<1>2. n \in Nat /\ k \in Nat
  BY <1>1 DEF Stream
<1>3. /\ Len(new) = n + 1 /\ new[n + 1] = I!DataRead(d)
      /\ \A i \in 1..n : new[i] = moved[i]
  BY <1>1 DEF Stream
<1>4. /\ d.index = IF n < k THEN n ELSE k
      /\ \A i \in 1..n : moved[i] = IF i <= k THEN buffer[i] ELSE I!Null
  BY Zenon DEF Moving
<1>5. I!DataRead(d) = IF d.index < k THEN buffer[d.index + 1] ELSE I!Null
  BY Zenon DEF I!DataRead, I!AtData
<1>6. e.index = IF d.index < k THEN d.index + 1 ELSE d.index
  BY <1>1, IdeDataType
<1>7. d.buffer = Due(h) /\ Due(g) = Due(h)
  BY Zenon DEF Moving, Due
<1> DEFINE w == I!DataRead(d)  index == d.index
<1>8. w = IF index < k THEN buffer[index + 1] ELSE I!Null
  BY <1>5
<1> HIDE DEF buffer, moved, n, k, new, w, index
<1>9. e.index = IF n + 1 < k THEN n + 1 ELSE k
  BY <1>2, <1>4, <1>6 DEF index
<1>10. \A i \in 1..(n + 1) : new[i] = IF i <= k THEN buffer[i] ELSE I!Null
  <2> SUFFICES ASSUME NEW i \in 1..(n + 1) PROVE new[i] = IF i <= k THEN buffer[i] ELSE I!Null
    OBVIOUS
  <2>1. CASE i \in 1..n
    BY <1>3, <1>4, <2>1, Zenon
  <2>2. CASE i = n + 1
    <3>1. n < k <=> i <= k
      BY <1>2, <2>2
    <3>2. index < k <=> n < k
      BY <1>2, <1>4 DEF index
    <3>3. n < k => index + 1 = i
      BY <1>4, <2>2 DEF index
    <3>4. new[i] = w
      BY <1>3, <2>2 DEF w
    <3> QED
      BY <1>8, <3>1, <3>2, <3>3, <3>4, Zenon
  <2> QED
    BY <1>2, <2>1, <2>2
<1>11. e.buffer = Due(g) /\ Len(e.buffer) = k /\ e.buffer = buffer /\ g.moved = new
  BY <1>7 DEF k, buffer, new
<1> QED
  BY <1>3, <1>9, <1>10, <1>11, Zenon DEF Moving

LEMMA SectorNext ==
  ASSUME Shape, SectorInv, [Next]_vars
  PROVE  SectorInv'
<1>1. board.ide \in IdeType /\ hist \in Histories
  BY DEF Shape, Boards
<1>2. CASE /\ Len(board'.ide.disk) = Len(board.ide.disk) /\ IdeRests(board, board')
           /\ Transfers(hist, hist')
  <2>1. hist.command \in I!Reads => Moving(board'.ide, hist')
    <3> SUFFICES ASSUME hist.command \in I!Reads PROVE Moving(board'.ide, hist')
      OBVIOUS
    <3> DEFINE buffer == board.ide.buffer  moved == hist.moved
    <3>1. /\ buffer = Due(hist)
          /\ board.ide.index = IF Len(moved) < Len(buffer) THEN Len(moved) ELSE Len(buffer)
          /\ \A i \in 1..Len(moved) : moved[i] = IF i <= Len(buffer) THEN buffer[i] ELSE I!Null
      BY Zenon DEF SectorInv, Moving
    <3>2. /\ Due(hist') = Due(hist) /\ hist'.moved = moved
          /\ board'.ide.buffer = buffer /\ board'.ide.index = board.ide.index
      BY <1>2, Zenon DEF Due, IdeRests, Transfers
    <3> HIDE DEF buffer, moved
    <3> QED
      BY <3>1, <3>2 DEF Moving
  <2> QED
    BY <1>2, <2>1, Zenon DEF SectorInv, Transfers
<1>3. CASE /\ Len(board'.ide.disk) = Len(board.ide.disk) /\ Len(hist'.found) = Len(Image)
           /\ hist'.command \notin I!Reads
  BY <1>3 DEF SectorInv
<1>4. CASE GuestOut
  <2>1. PICK p \in Port, v \in Word : OutRecorded(p, v)
    BY <1>4, OutStep
  <2> DEFINE n == Len(v)
  <2>2. OutDone(board.mem, Quiet, board', p, v[1], n) /\ hist' \in Histories
    BY <2>1, Zenon DEF OutRecorded
  <2>3. Still(board, Quiet) /\ (Claimed(Quiet, p) <=> Claimed(board, p))
    BY QuietShape
  <2>4. board'.ide.disk = board.ide.disk
    BY <2>2, <2>3, Zenon DEF OutDone, Moves, Still
  <2>5. CASE Claimed(board, p)
    <3>1. Transfers(hist, hist')
      BY <2>1, <2>5, Zenon DEF OutRecorded
    <3>2. IdeRests(board, board')
      BY <2>2, <2>3, <2>5, Zenon DEF OutDone, Still, IdeRests
    <3> QED
      BY <1>2, <2>4, <3>1, <3>2
  <2>6. CASE ~Claimed(board, p) /\ p = \h1F7
    <3>1. Commanded(hist', v[1])
      BY <2>1, <2>6, Zenon DEF OutRecorded
    <3>2. board'.ide.buffer = I!Command(board.ide, v[1]).buffer /\ board'.ide.index = I!Command(board.ide, v[1]).index
      BY <2>2, <2>3, <2>6, Zenon DEF OutDone, Begins, Still
    <3>3. v[1] \in Byte
      <4>1. n \in {1, 2, 4}
        BY <2>1, Zenon DEF OutRecorded
      <4> QED
        BY <4>1 DEF Word
    <3>4. /\ I!Command(board.ide, v[1]).index = 0
          /\ v[1] \in I!Reads => I!Command(board.ide, v[1]).buffer = Due(hist')
      BY <1>1, <3>1, <3>3, IdeCommand DEF Commanded, Due
    <3>5. v[1] \in I!Reads => Moving(board'.ide, hist')
      <4> SUFFICES ASSUME v[1] \in I!Reads PROVE Moving(board'.ide, hist')
        OBVIOUS
      <4>1. board'.ide.buffer = Due(hist') /\ board'.ide.index = 0 /\ hist'.moved = <<>>
        BY <3>1, <3>2, <3>4 DEF Commanded
      <4>2. board' \in Boards(board.mem)
        BY <2>2, Zenon DEF OutDone
      <4>3. Len(board'.ide.buffer) \in Nat
        BY <4>2 DEF Boards, IdeType, Stream
      <4> QED
        BY <4>1, <4>3 DEF Moving
    <3> QED
      BY <2>4, <3>1, <3>5 DEF SectorInv, Commanded
  <2>7. CASE ~Claimed(board, p) /\ ((p = \h1F0 /\ n = 2) \/ OtherHalf(p, n))
    <3>1. hist'.command \notin I!Reads
      BY <2>1, <2>7, Zenon DEF OutRecorded
    <3>2. Len(hist'.found) = Len(Image)
      <4>1. hist'.found = hist.found
        BY <2>1, <2>7, Zenon DEF OutRecorded
      <4> QED
        BY <4>1 DEF SectorInv
    <3> QED
      BY <1>3, <2>4, <3>1, <3>2
  <2>8. CASE p # \h1F7 /\ ~(p = \h1F0 /\ n = 2) /\ ~OtherHalf(p, n)
    <3>1. Transfers(hist, hist')
      BY <2>1, <2>8, Zenon DEF OutRecorded
    <3>2. ~(n = 4 /\ p \in Halved)
      BY <2>8 DEF OtherHalf, Halved
    <3>3. IdeRests(board, board')
      <4>1. IdeRests(Quiet, board')
        BY <2>2, <2>8, <3>2, Zenon DEF OutDone
      <4>2. board.ide = Quiet.ide
        BY <2>3, Zenon DEF Still
      <4> QED
        BY <4>1, <4>2, Zenon DEF IdeRests
    <3> QED
      BY <1>2, <2>4, <3>1, <3>3
  <2> QED
    BY <2>5, <2>6, <2>7, <2>8
<1>5. CASE GuestIn
  <2>1. /\ Moves(board, board') /\ hist' \in Histories
        /\ \/ Transfers(hist, hist') /\ IdeRests(board, board')
           \/ hist'.command \notin I!Reads /\ hist'.found = hist.found
           \/ Fetched(hist, hist')
    BY <1>5, InStep DEF InRecorded
  <2>2. board'.ide.disk = board.ide.disk
    BY <2>1 DEF Moves
  <2>3. CASE Fetched(hist, hist')
    <3>1. Moving(board'.ide, hist')
      BY <1>1, <2>1, <2>3, Fetch DEF Fetched, Takes, SectorInv
    <3> QED
      BY <2>2, <2>3, <3>1 DEF SectorInv, Fetched
  <2>4. CASE hist'.command \notin I!Reads /\ hist'.found = hist.found
    BY <1>3, <2>2, <2>4 DEF SectorInv
  <2> QED
    BY <1>2, <2>1, <2>2, <2>3, <2>4
<1>6. CASE Flush \/ DiskService
  BY <1>2, <1>6, DiskStep DEF Alike
<1>7. CASE board'.ide = board.ide /\ Transfers(hist, hist')
  BY <1>2, <1>7 DEF IdeRests
<1>8. CASE ChannelByte \/ RunTransfer
  BY <1>7, <1>8, DmaStep
<1>9. CASE TickSecond
  BY <1>7, <1>9, ClockStep DEF Alike
<1>10. CASE SetMode \/ SetCursor \/ WriteString \/ Teletype
  BY <1>7, <1>10, ScreenStep
<1>11. CASE Store \/ AskMap
  BY <1>7, <1>11, MemoryStep DEF Still
<1>12. CASE UNCHANGED vars
  BY <1>7, <1>12 DEF vars, Transfers
<1> QED
  BY <1>4, <1>5, <1>6, <1>8, <1>9, <1>10, <1>11, <1>12 DEF Next

\* A read command delivers the words of its sectors, in order and from the image it
\* found, whatever is written meanwhile, and zeros past them (command, read_data).
THEOREM SectorsComeInOrder == Spec => []SectorsInOrder
<1>1. Spec => []SectorInv
  BY ShapeInit, ShapeNext, SectorInit, SectorNext, PTL DEF Spec
<1>2. Shape /\ SectorInv => SectorsInOrder
  <2> SUFFICES ASSUME Shape, SectorInv, hist.command \in I!Reads, NEW i \in DOMAIN hist.moved
               PROVE  hist.moved[i] = IF hist.from + hist.size <= Len(Image) /\ i <= hist.size
                                      THEN hist.found[hist.from + i] ELSE I!Null
    BY Zenon DEF SectorsInOrder
  <2> DEFINE from == hist.from  size == hist.size  found == hist.found  buffer == board.ide.buffer
  <2>1. from \in Nat /\ size \in Nat /\ found \in Stream /\ hist.moved \in Stream
    BY DEF Shape, Histories
  <2>2. i \in Nat /\ i >= 1 /\ i \in 1..Len(hist.moved)
    BY <2>1 DEF Stream
  <2>3. /\ buffer = IF from + size <= Len(found) THEN SubSeq(found, from + 1, from + size) ELSE <<>>
        /\ hist.moved[i] = IF i <= Len(buffer) THEN buffer[i] ELSE I!Null
        /\ Len(found) = Len(Image)
    BY <2>2, Zenon DEF SectorInv, Moving, Due
  <2> HIDE DEF from, size, found, buffer
  <2>4. CASE from + size <= Len(found)
    <3>1. Len(buffer) = size /\ \A j \in 1..size : buffer[j] = found[from + j]
      BY <2>1, <2>3, <2>4 DEF Stream
    <3>2. hist.moved[i] = IF i <= size THEN found[from + i] ELSE I!Null
      BY <2>1, <2>2, <2>3, <3>1
    <3>3. hist.from + hist.size <= Len(Image)
      BY <2>3, <2>4 DEF from, size
    <3> QED
      BY <3>2, <3>3, Zenon DEF from, size, found
  <2>5. CASE ~(from + size <= Len(found))
    <3>1. Len(buffer) = 0
      BY <2>3, <2>5
    <3> QED
      BY <2>2, <2>3, <2>5, <3>1 DEF from, size, found
  <2> QED
    BY <2>4, <2>5
<1> QED
  BY Shapes, <1>1, <1>2, PTL

-----------------------------------------------------------------------------
(* The map of the memory                                                     *)

(* what has been handed out is the beginning of the map, and the continuation   *)
(* is the place in it, or zero at its end                                       *)
MapInv ==
  LET map == hist.map  whole == M!E820Map(board.mem)
  IN  IF subject = "map"
      THEN /\ Len(map) <= Len(whole)
           /\ \A i \in 1..Len(map) : map[i] = whole[i]
           /\ hist.next = IF Len(map) < Len(whole) THEN Len(map) ELSE 0
      ELSE map = <<>> /\ hist.next = 0

LEMMA MapInit == Init => MapInv
<1> SUFFICES ASSUME Init PROVE MapInv
  OBVIOUS
<1>1. PICK epoch \in Epochs, size \in Sizes : board = New(epoch, size) /\ hist = Fresh
  BY DEF Init
<1>2. hist.map = <<>> /\ hist.next = 0
  BY <1>1 DEF Fresh
<1>3. subject = "map" => board.mem.ram \in Nat
  BY ShapeInit, SizeAssumption DEF Shape
<1>4. subject = "map" => Len(M!E820Map(board.mem)) \in Nat
  BY <1>3, MapType
<1> QED
  BY <1>2, <1>4 DEF MapInv

LEMMA MapNext ==
  ASSUME Shape, MapInv, [Next]_vars
  PROVE  MapInv'
<1>1. /\ hist.map \in Seq(Entries) /\ hist.next \in Nat
      /\ subject = "map" => M!E820Map(board.mem) \in Seq(Entries)
  BY MapType, SizeAssumption DEF Shape, Histories
<1>2. CASE /\ board' \in Boards(board.mem) /\ subject' = subject
           /\ hist'.map = hist.map /\ hist'.next = hist.next
  <2>1. board'.mem = board.mem
    BY <1>2 DEF Boards
  <2> QED
    BY <1>2, <2>1 DEF MapInv
<1>3. CASE hist'.map = hist.map /\ hist'.next = hist.next /\ subject # "map" /\ subject' = subject
  BY <1>3 DEF MapInv
<1>4. CASE GuestOut
  <2>1. PICK p \in Port, v \in Word : OutRecorded(p, v)
    BY <1>4, OutStep
  <2>2. board' \in Boards(board.mem) /\ Apart(hist, hist') /\ subject' = subject
    BY <1>4, <2>1 DEF OutRecorded, OutDone, GuestOut, Step
  <2> QED
    BY <1>2, <2>2 DEF Apart
<1>5. CASE GuestIn
  <2>1. subject' = subject
    BY <1>5 DEF GuestIn, Step
  <2> QED
    BY <1>2, <1>5, <2>1, InStep DEF InRecorded, Apart
<1>6. CASE Flush \/ DiskService
  BY <1>2, <1>6, DiskStep DEF Alike, Apart
<1>7. CASE ChannelByte \/ RunTransfer
  BY <1>3, <1>7, DmaStep
<1>8. CASE TickSecond
  BY <1>2, <1>8, ClockStep DEF Alike, Apart
<1>9. CASE SetMode \/ SetCursor \/ WriteString \/ Teletype
  BY <1>2, <1>9, ScreenStep
<1>10. CASE Store \/ AskMap
  <2>1. CASE subject = "mem" /\ hist'.map = hist.map /\ hist'.next = hist.next
    BY <1>3, <1>10, <2>1, MemoryStep
  <2>2. CASE /\ subject = "map" /\ board'.mem = board.mem /\ subject' = subject
             /\ ~(hist.map # <<>> /\ hist.next = 0) /\ ~M!E820Fails(board.mem, hist.next)
             /\ hist'.map = Append(hist.map, M!E820Entry(board.mem, hist.next))
             /\ hist'.next = M!E820Next(board.mem, hist.next)
    <3> DEFINE map == hist.map  whole == M!E820Map(board.mem)  n == Len(map)  k == Len(whole)
    <3>1. map \in Seq(Entries) /\ whole \in Seq(Entries) /\ n \in Nat /\ k \in Nat
      BY <1>1, <2>2
    <3>2. /\ n <= k /\ \A i \in 1..n : map[i] = whole[i]
          /\ hist.next = IF n < k THEN n ELSE 0
      BY <2>2 DEF MapInv
    <3>3. hist.next < k
      BY <1>1, <2>2, <3>1 DEF M!E820Fails
    <3>4. n = 0 => map = <<>>
      BY <3>1
    <3>5. n < k /\ hist.next = n
      BY <2>2, <3>1, <3>2, <3>3, <3>4
    <3> DEFINE more == hist'.map
    <3>6. more = Append(map, whole[n + 1]) /\ whole[n + 1] \in Entries
      BY <2>2, <3>1, <3>5 DEF M!E820Entry
    <3>7. hist'.next = IF n + 1 < k THEN n + 1 ELSE 0
      BY <2>2, <3>5 DEF M!E820Next
    <3>8. k = Len(M!E820Map(board'.mem)) /\ whole = M!E820Map(board'.mem)
      BY <2>2
    <3> HIDE DEF map, whole, n, k, more
    <3>9. Len(more) = n + 1 /\ \A i \in 1..(n + 1) : more[i] = IF i <= n THEN map[i] ELSE whole[n + 1]
      BY <3>1, <3>6 DEF n
    <3>10. \A i \in 1..(n + 1) : more[i] = whole[i]
      BY <3>1, <3>2, <3>9
    <3> QED
      BY <2>2, <3>1, <3>5, <3>7, <3>8, <3>9, <3>10 DEF MapInv, more
  <2> QED
    BY <1>10, <2>1, <2>2, MemoryStep
<1>11. CASE UNCHANGED vars
  BY <1>11 DEF vars, MapInv
<1> QED
  BY <1>4, <1>5, <1>6, <1>7, <1>8, <1>9, <1>10, <1>11 DEF Next

\* The map itself, for each of the three ways the RAM can end: before the hole begins
\* and with nothing above the first megabyte, before it, or above it (e820_map).
LEMMA MapIsRight ==
  ASSUME NEW m, m.ram \in Nat, m.ram >= Meg
  PROVE  LET whole == M!E820Map(m)
         IN  /\ \A i, j \in 1..Len(whole) : i < j => whole[i].end <= whole[j].base
             /\ \A a \in Nat :
                  (\E i \in 1..Len(whole) : whole[i].usable /\ a \in whole[i].base..(whole[i].end - 1))
                  <=> M!Slot(m, a) # M!None /\ a \notin Conventional..(Meg - 1)
<1> DEFINE a == M!Entry(0, Conventional, TRUE)  b == M!Entry(Conventional, Adapter, FALSE)
           c == M!Entry(Adapter, Meg, FALSE)    d == M!Entry(Meg, M!LowSize(m), TRUE)
           e == M!Entry(Hole, High, FALSE)      f == M!Entry(High, M!TopOfRam(m), TRUE)
           whole == M!E820Map(m)  ram == m.ram  low == M!LowSize(m)  top == M!TopOfRam(m)
<1>1. /\ a.base = 0 /\ a.end = Conventional /\ a.usable
      /\ b.base = Conventional /\ b.end = Adapter /\ ~b.usable
      /\ c.base = Adapter /\ c.end = Meg /\ ~c.usable
      /\ d.base = Meg /\ d.end = low /\ d.usable
      /\ e.base = Hole /\ e.end = High /\ ~e.usable
      /\ f.base = High /\ f.end = top /\ f.usable
  BY DEF M!Entry
<1>2. /\ Conventional \in Nat /\ Adapter \in Nat /\ Meg \in Nat /\ Hole \in Nat /\ High \in Nat
      /\ Conventional < Adapter /\ Adapter < Meg /\ Meg < Hole /\ Hole < High /\ ram \in Nat /\ Meg <= ram
  BY MemoryAssumption
<1>3. low = (IF ram < Hole THEN ram ELSE Hole) /\ top = (IF ram > Hole THEN High + (ram - Hole) ELSE ram)
  BY DEF M!LowSize, M!TopOfRam
<1>4. ASSUME NEW x \in Nat
      PROVE  (M!Slot(m, x) # M!None) <=> (x < low \/ (High <= x /\ x < High + (ram - low)))
  <2>1. CASE x < low
    BY <1>2, <1>3, <2>1 DEF M!Slot, M!None
  <2>2. CASE ~(x < low) /\ x >= High /\ x - High + low < ram
    BY <1>2, <1>3, <2>2 DEF M!Slot, M!None
  <2>3. CASE ~(x < low) /\ ~(x >= High /\ x - High + low < ram)
    BY <1>2, <1>3, <2>3 DEF M!Slot, M!None
  <2> QED
    BY <2>1, <2>2, <2>3
<1>5. whole = <<a, b, c>> \o (IF low > Meg THEN <<d>> ELSE <<>>) \o (IF ram > Hole THEN <<e, f>> ELSE <<>>)
  BY DEF M!E820Map
<1> HIDE DEF a, b, c, d, e, f, ram, low, top, whole
<1> SUFFICES /\ \A i, j \in 1..Len(whole) : i < j => whole[i].end <= whole[j].base
             /\ \A x \in Nat :
                  (\E i \in 1..Len(whole) : whole[i].usable /\ x \in whole[i].base..(whole[i].end - 1))
                  <=> (x < low \/ (High <= x /\ x < High + (ram - low))) /\ x \notin Conventional..(Meg - 1)
  BY <1>4, Zenon DEF whole
<1>6. CASE ram = Meg
  <2>1. low = ram /\ ~(low > Meg) /\ ~(ram > Hole)
    BY <1>2, <1>3, <1>6
  <2>2. Len(whole) = 3 /\ whole[1] = a /\ whole[2] = b /\ whole[3] = c
    <3>1. whole = <<a, b, c>> \o <<>> \o <<>>
      BY <1>5, <2>1, Zenon
    <3> QED
      BY <3>1
  <2>3. \A i, j \in 1..Len(whole) : i < j => whole[i].end <= whole[j].base
    BY <1>1, <1>2, <2>1, <2>2
  <2>4. \A x \in Nat :
          (\E i \in 1..Len(whole) : whole[i].usable /\ x \in whole[i].base..(whole[i].end - 1))
          <=> x \in 0..(Conventional - 1)
    BY <1>1, <1>2, <2>2
  <2> QED
    BY <1>2, <1>6, <2>1, <2>3, <2>4
<1>7. CASE Meg < ram /\ ram <= Hole
  <2>1. low = ram /\ low > Meg /\ ~(ram > Hole)
    BY <1>2, <1>3, <1>7
  <2>2. Len(whole) = 4 /\ whole[1] = a /\ whole[2] = b /\ whole[3] = c /\ whole[4] = d
    <3>1. whole = <<a, b, c>> \o <<d>> \o <<>>
      BY <1>5, <2>1, Zenon
    <3> QED
      BY <3>1
  <2>3. \A i, j \in 1..Len(whole) : i < j => whole[i].end <= whole[j].base
    BY <1>1, <1>2, <2>1, <2>2
  <2>4. \A x \in Nat :
          (\E i \in 1..Len(whole) : whole[i].usable /\ x \in whole[i].base..(whole[i].end - 1))
          <=> x \in 0..(Conventional - 1) \/ x \in Meg..(low - 1)
    BY <1>1, <1>2, <2>1, <2>2
  <2> QED
    BY <1>2, <1>7, <2>1, <2>3, <2>4
<1>8. CASE ram > Hole
  <2>1. low = Hole /\ low > Meg /\ ram > Hole /\ top = High + (ram - Hole)
    BY <1>2, <1>3, <1>8
  <2>2. /\ Len(whole) = 6 /\ whole[1] = a /\ whole[2] = b /\ whole[3] = c /\ whole[4] = d
        /\ whole[5] = e /\ whole[6] = f
    <3>1. whole = <<a, b, c>> \o <<d>> \o <<e, f>>
      BY <1>5, <2>1, Zenon
    <3> QED
      BY <3>1
  <2>3. \A i, j \in 1..Len(whole) : i < j => whole[i].end <= whole[j].base
    BY <1>1, <1>2, <2>1, <2>2
  <2>4. \A x \in Nat :
          (\E i \in 1..Len(whole) : whole[i].usable /\ x \in whole[i].base..(whole[i].end - 1))
          <=> x \in 0..(Conventional - 1) \/ x \in Meg..(low - 1) \/ x \in High..(top - 1)
    BY <1>1, <1>2, <2>1, <2>2
  <2>5. \A x \in Nat :
          (x \in 0..(Conventional - 1) \/ x \in Meg..(low - 1) \/ x \in High..(top - 1))
          <=> (x < low \/ (High <= x /\ x < High + (ram - low))) /\ x \notin Conventional..(Meg - 1)
    BY <1>2, <1>8, <2>1
  <2> QED
    BY <2>3, <2>4, <2>5, Zenon
<1>9. ram = Meg \/ (Meg < ram /\ ram <= Hole) \/ ram > Hole
  BY <1>2
<1> QED
  BY <1>6, <1>7, <1>8, <1>9, Zenon

\* What E820 hands out describes the RAM, for every amount of it (e820_map, e820).
THEOREM MapIsRam == Spec => []MapDescribesRam
<1>1. Spec => []MapInv
  BY ShapeInit, ShapeNext, MapInit, MapNext, PTL DEF Spec
<1>2. Shape /\ MapInv => MapDescribesRam
  <2> SUFFICES ASSUME Shape, MapInv, hist.map # <<>>, hist.next = 0
               PROVE  MapDescribesRam
    BY DEF MapDescribesRam
  <2> DEFINE map == hist.map  whole == M!E820Map(board.mem)
  <2>1. subject = "map"
    BY DEF MapInv
  <2>2. board.mem.ram \in Nat /\ board.mem.ram >= Meg
    BY <2>1, SizeAssumption DEF Shape
  <2>3. map \in Seq(Entries) /\ whole \in Seq(Entries)
    BY <2>2, MapType DEF Shape, Histories
  <2>4. Len(map) = Len(whole) /\ \A i \in 1..Len(map) : map[i] = whole[i]
    <3>1. /\ Len(map) <= Len(whole) /\ \A i \in 1..Len(map) : map[i] = whole[i]
          /\ 0 = IF Len(map) < Len(whole) THEN Len(map) ELSE 0
      BY <2>1, Zenon DEF MapInv
    <3>2. Len(map) \in Nat /\ Len(whole) \in Nat /\ Len(map) # 0
      BY <2>3
    <3> HIDE DEF map, whole
    <3> QED
      BY <3>1, <3>2
  <2>5. /\ \A i, j \in 1..Len(whole) : i < j => whole[i].end <= whole[j].base
        /\ \A a \in Nat :
             (\E i \in 1..Len(whole) : whole[i].usable /\ a \in whole[i].base..(whole[i].end - 1))
             <=> M!Slot(board.mem, a) # M!None /\ a \notin Conventional..(Meg - 1)
    BY <2>2, MapIsRight, Zenon
  <2>6. DOMAIN map = 1..Len(whole)
    BY <2>3, <2>4
  <2>7. \A i, j \in DOMAIN map : i < j => map[i].end <= map[j].base
    BY <2>4, <2>5, <2>6, Zenon
  <2>8. \A a \in Addresses : Usable(a) <=> M!Slot(board.mem, a) # M!None /\ a \notin Conventional..(Meg - 1)
    <3> SUFFICES ASSUME NEW a \in Addresses
                 PROVE  (\E i \in DOMAIN map : map[i].usable /\ a \in map[i].base..(map[i].end - 1))
                        <=> M!Slot(board.mem, a) # M!None /\ a \notin Conventional..(Meg - 1)
      BY Zenon DEF Usable
    <3>1. a \in Nat
      BY SizeAssumption
    <3> QED
      BY <2>4, <2>5, <2>6, <3>1, Zenon
  <2> QED
    BY <2>7, <2>8, Zenon DEF MapDescribesRam
<1> QED
  BY Shapes, <1>1, <1>2, PTL

-----------------------------------------------------------------------------
(* Physical memory                                                           *)

(* a memory with so much RAM: a byte for each index, and the text window     *)
Contents == Int \cup {Zero}
Mems(ram) == [ram : {ram}, data : [0..(ram - 1) -> Contents], text : [Window..(WindowEnd - 1) -> Contents]]
Rams == {ram \in Nat : ram >= Meg}

(* n is m with the bytes i to j of the store of v at a: each is found at its  *)
(* address, where something answers there, and nothing else has changed      *)
Answers(m, x) == M!InWindow(x) \/ M!Slot(m, x) # M!None
Holds(m, n, a, v, i, j) ==
  /\ n \in Mems(m.ram)
  /\ \A x \in Nat :
       M!Read1(n, x) = IF x \in (a + i - 1)..(a + j - 1) /\ Answers(m, x) THEN v[x - a + 1] ELSE M!Read1(m, x)

\* Where the bytes of RAM are depends on its amount alone (slot).
LEMMA SlotOfRam ==
  ASSUME NEW m, NEW n, NEW x, m.ram = n.ram
  PROVE  M!Slot(m, x) = M!Slot(n, x) /\ (Answers(m, x) <=> Answers(n, x)) /\ M!LowSize(m) = M!LowSize(n)
<1>1. M!LowSize(m) = M!LowSize(n)
  BY DEF M!LowSize
<1>2. M!Slot(m, x) = M!Slot(n, x)
  BY <1>1 DEF M!Slot
<1> QED
  BY <1>1, <1>2 DEF Answers

\* The two parts of the RAM do not overlap (slot).
LEMMA SlotIs ==
  ASSUME NEW m, m.ram \in Rams, NEW x \in Nat
  PROVE  M!Slot(m, x) = IF x < M!LowSize(m) THEN x
                        ELSE IF x >= High /\ x - High + M!LowSize(m) < m.ram THEN x - High + M!LowSize(m) ELSE -1
<1> DEFINE low == M!LowSize(m)  p == x < low  q == x >= High /\ x - High + low < m.ram
<1>1. M!Slot(m, x) = CASE p -> x [] q -> x - High + low [] OTHER -> -1
  BY DEF M!Slot, M!None
<1> HIDE DEF low, p, q
<1>2. CASE p
  <2>1. low \in Int /\ low < High
    BY MemoryAssumption DEF low, M!LowSize, Rams
  <2>2. ~q
    BY <1>2, <2>1, MemoryAssumption DEF p, q
  <2> QED
    BY <1>1, <1>2, <2>2 DEF low, p
<1>3. CASE ~p /\ q
  BY <1>1, <1>3 DEF low, p, q
<1>4. CASE ~p /\ ~q
  BY <1>1, <1>4 DEF low, p, q
<1> QED
  BY <1>2, <1>3, <1>4

\* An index is inside of the RAM, is that of one address, and is the address itself
\* under the hole.
LEMMA SlotFacts ==
  ASSUME NEW ram \in Rams, NEW m, m.ram = ram
  PROVE  /\ M!LowSize(m) \in Nat /\ Meg <= M!LowSize(m) /\ M!LowSize(m) <= ram /\ M!LowSize(m) <= Hole
         /\ \A x \in Nat : M!Slot(m, x) # M!None => M!Slot(m, x) \in 0..(ram - 1)
         /\ \A x \in Nat : x < M!LowSize(m) => M!Slot(m, x) = x
         /\ \A x \in Nat : M!InWindow(x) => M!Slot(m, x) = x
         /\ \A x, y \in Nat : M!Slot(m, x) = M!Slot(m, y) /\ M!Slot(m, x) # M!None => x = y
<1> DEFINE low == M!LowSize(m)
<1>1. /\ Meg \in Nat /\ Hole \in Nat /\ High \in Nat /\ Window \in Nat /\ WindowEnd \in Nat
      /\ WindowEnd <= Meg /\ Meg < Hole /\ Hole < High /\ ram \in Nat /\ ram >= Meg
  BY MemoryAssumption DEF Rams
<1>2. low \in Nat /\ Meg <= low /\ low <= ram /\ low <= Hole
  BY <1>1 DEF M!LowSize
<1>3. \A x \in Nat : M!Slot(m, x) = IF x < low THEN x
                                    ELSE IF x >= High /\ x - High + low < ram THEN x - High + low ELSE -1
  BY SlotIs
<1>4. \A x \in Nat : M!InWindow(x) => x < low
  BY <1>1, <1>2 DEF M!InWindow
<1>5. M!None = -1
  BY DEF M!None
<1> HIDE DEF low
<1>6. \A x \in Nat : M!Slot(m, x) # -1 => M!Slot(m, x) \in 0..(ram - 1)
  BY <1>1, <1>2, <1>3
<1>7. \A x \in Nat : x < low => M!Slot(m, x) = x
  BY <1>3
<1>8. ASSUME NEW x \in Nat, NEW y \in Nat, M!Slot(m, x) = M!Slot(m, y), M!Slot(m, x) # -1
      PROVE  x = y
  BY <1>1, <1>2, <1>3, <1>8
<1> QED
  BY <1>2, <1>4, <1>5, <1>6, <1>7, <1>8 DEF low

\* The check of the wide paths covers the bytes that follow, away from the end of the
\* RAM under the hole (read_u16 to write_u128).
Inside(m, a, w) == ~(a < M!LowSize(m) /\ a + w > M!LowSize(m) /\ m.ram > M!LowSize(m))
OffScreen(a, w) == a + w - 1 < Window \/ a >= WindowEnd
LEMMA DirectRun ==
  ASSUME NEW ram \in Rams, NEW m, m.ram = ram, NEW a \in Nat, NEW w \in Nat \ {0},
         M!Direct(m, a, w), Inside(m, a, w)
  PROVE  \A i \in 0..(w - 1) : M!Slot(m, a + i) = M!Slot(m, a) + i /\ M!Slot(m, a) + i \in 0..(ram - 1)
<1> DEFINE low == M!LowSize(m)
<1>1. /\ Meg \in Nat /\ Hole \in Nat /\ High \in Nat /\ Meg < Hole /\ Hole < High /\ ram \in Nat
  BY MemoryAssumption DEF Rams
<1>2. low \in Nat /\ low <= ram /\ low <= Hole
  BY SlotFacts
<1>3. \A x \in Nat : M!Slot(m, x) = IF x < low THEN x
                                    ELSE IF x >= High /\ x - High + low < ram THEN x - High + low ELSE -1
  BY SlotIs
<1>4. M!Slot(m, a) # -1 /\ M!Slot(m, a) + w - 1 < ram /\ ~(a < low /\ a + w > low /\ ram > low)
  BY DEF M!Direct, M!None, Inside
<1> HIDE DEF low
<1> SUFFICES ASSUME NEW i \in 0..(w - 1)
             PROVE  M!Slot(m, a + i) = M!Slot(m, a) + i /\ M!Slot(m, a) + i \in 0..(ram - 1)
  OBVIOUS
<1>5. CASE a < low
  <2>1. M!Slot(m, a) = a /\ a + i < low
    BY <1>1, <1>2, <1>3, <1>4, <1>5
  <2> QED
    BY <1>1, <1>2, <1>3, <2>1
<1>6. CASE ~(a < low)
  <2>1. a >= High /\ a - High + low < ram /\ M!Slot(m, a) = a - High + low
    BY <1>3, <1>4, <1>6
  <2>2. a - High + low + w - 1 < ram
    BY <1>4, <2>1
  <2>3. ~(a + i < low) /\ a + i >= High /\ a + i - High + low < ram
    BY <1>1, <1>2, <1>6, <2>1, <2>2
  <2> QED
    BY <1>1, <1>2, <1>3, <2>1, <2>3
<1> QED
  BY <1>5, <1>6

\* One store after another, of the bytes that follow.
LEMMA HoldsMore ==
  ASSUME NEW m, NEW n, NEW k, NEW a \in Nat, NEW v, NEW i \in Nat, NEW j \in Nat, NEW l \in Nat,
         1 <= i, i <= j, j <= l, Holds(m, n, a, v, i, j), Holds(n, k, a, v, j + 1, l)
  PROVE  Holds(m, k, a, v, i, l)
<1>1. n \in Mems(m.ram) /\ k \in Mems(n.ram)
  BY DEF Holds
<1>2. n.ram = m.ram
  BY <1>1 DEF Mems
<1>3. ASSUME NEW x \in Nat
      PROVE  M!Read1(k, x) = IF x \in (a + i - 1)..(a + l - 1) /\ Answers(m, x) THEN v[x - a + 1] ELSE M!Read1(m, x)
  <2>1. Answers(n, x) <=> Answers(m, x)
    BY <1>2, SlotOfRam
  <2>2. M!Read1(n, x) = IF x \in (a + i - 1)..(a + j - 1) /\ Answers(m, x) THEN v[x - a + 1] ELSE M!Read1(m, x)
    BY DEF Holds
  <2>3. M!Read1(k, x) = IF x \in (a + (j + 1) - 1)..(a + l - 1) /\ Answers(n, x) THEN v[x - a + 1] ELSE M!Read1(n, x)
    BY Zenon DEF Holds
  <2>4. x \in (a + i - 1)..(a + l - 1) <=> x \in (a + i - 1)..(a + j - 1) \/ x \in (a + (j + 1) - 1)..(a + l - 1)
    OBVIOUS
  <2> QED
    BY <2>1, <2>2, <2>3, <2>4, Zenon
<1> QED
  BY <1>1, <1>2, <1>3, Zenon DEF Holds

\* A store of the bytes i to j of v is one of the bytes of that part of it.
LEMMA HoldsPart ==
  ASSUME NEW m, NEW n, NEW a \in Nat, NEW v, NEW u, NEW h \in Nat, NEW j \in Nat,
         \A x \in 1..j : u[x] = v[x + h], Holds(m, n, a + h, u, 1, j)
  PROVE  Holds(m, n, a, v, h + 1, h + j)
<1> SUFFICES ASSUME NEW x \in Nat
             PROVE  M!Read1(n, x) = IF x \in (a + (h + 1) - 1)..(a + (h + j) - 1) /\ Answers(m, x)
                                    THEN v[x - a + 1] ELSE M!Read1(m, x)
  BY Zenon DEF Holds
<1>1. M!Read1(n, x) = IF x \in (a + h + 1 - 1)..(a + h + j - 1) /\ Answers(m, x)
                      THEN u[x - (a + h) + 1] ELSE M!Read1(m, x)
  BY DEF Holds
<1>2. x \in (a + h + 1 - 1)..(a + h + j - 1) <=> x \in (a + (h + 1) - 1)..(a + (h + j) - 1)
  OBVIOUS
<1>3. x \in (a + h + 1 - 1)..(a + h + j - 1) => u[x - (a + h) + 1] = v[x - a + 1]
  <2> SUFFICES ASSUME x \in (a + h + 1 - 1)..(a + h + j - 1) PROVE u[x - (a + h) + 1] = v[x - a + 1]
    OBVIOUS
  <2>1. PICK y \in 1..j : y = x - (a + h) + 1 /\ y + h = x - a + 1
    OBVIOUS
  <2>2. u[y] = v[y + h]
    OBVIOUS
  <2> QED
    BY <2>1, <2>2, Zenon
<1> QED
  BY <1>1, <1>2, <1>3, Zenon

\* A byte goes where it is found again, or nowhere (write_u8).
LEMMA ByteHolds ==
  ASSUME NEW ram \in Rams, NEW m \in Mems(ram), NEW a \in Nat, NEW v, v[1] \in Int
  PROVE  M!Write1(m, a, v[1]) \in Mems(ram) /\ Holds(m, M!Write1(m, a, v[1]), a, v, 1, 1)
<1> DEFINE b == v[1]  n == M!Write1(m, a, b)
<1>1. b \in Contents /\ m.ram = ram
  BY DEF Contents, Mems
<1> HIDE DEF b
<1>2. \A x \in Nat : M!Slot(m, x) # M!None => M!Slot(m, x) \in 0..(ram - 1)
  BY <1>1, SlotFacts
<1>3. n \in Mems(ram) /\ n.ram = ram
  <2>1. CASE M!InWindow(a)
    BY <1>1, <2>1 DEF M!Write1, Mems
  <2>2. CASE ~M!InWindow(a) /\ M!Slot(m, a) # M!None
    <3> DEFINE s == M!Slot(m, a)
    <3>1. n = [m EXCEPT !.data[s] = b]
      BY <2>2 DEF M!Write1
    <3> HIDE DEF n, s
    <3> QED
      BY <1>1, <3>1 DEF Mems
  <2>3. CASE ~M!InWindow(a) /\ ~(M!Slot(m, a) # M!None)
    BY <1>1, <2>3 DEF M!Write1
  <2> QED
    BY <2>1, <2>2, <2>3
<1>4. ASSUME NEW x \in Nat
      PROVE  M!Read1(n, x) = IF x = a /\ Answers(m, x) THEN b ELSE M!Read1(m, x)
  <2> DEFINE s == M!Slot(m, a)  t == M!Slot(m, x)
  <2>1. M!Slot(n, x) = t
    BY <1>1, <1>3, SlotOfRam
  <2>2. /\ M!Read1(m, x) = IF M!InWindow(x) THEN m.text[x] ELSE IF t # M!None THEN m.data[t] ELSE Open
        /\ M!Read1(n, x) = IF M!InWindow(x) THEN n.text[x] ELSE IF t # M!None THEN n.data[t] ELSE Open
    BY <2>1 DEF M!Read1
  <2>3. Answers(m, x) <=> M!InWindow(x) \/ t # M!None
    BY DEF Answers
  <2>4. s = t /\ t # M!None => x = a
    BY <1>1, SlotFacts
  <2>5. x = a => s = t
    OBVIOUS
  <2>6. M!InWindow(x) <=> x \in Window..(WindowEnd - 1)
    BY DEF M!InWindow
  <2>7. /\ t # M!None => t \in 0..(ram - 1)
        /\ DOMAIN m.data = 0..(ram - 1) /\ DOMAIN m.text = Window..(WindowEnd - 1)
    BY <1>2 DEF Mems
  <2> HIDE DEF s, t
  <2>8. CASE M!InWindow(a)
    <3>1. n = [m EXCEPT !.text[a] = b]
      BY <2>8 DEF M!Write1
    <3>2. n.data = m.data /\ (M!InWindow(x) => n.text[x] = IF x = a THEN b ELSE m.text[x])
      BY <2>6, <2>7, <3>1 DEF Mems
    <3> HIDE DEF n
    <3> QED
      BY <2>2, <2>3, <2>8, <3>2
  <2>9. CASE ~M!InWindow(a) /\ s # M!None
    <3>1. n = [m EXCEPT !.data[s] = b]
      BY <2>9 DEF M!Write1, s
    <3>2. n.text = m.text /\ (t # M!None => n.data[t] = IF t = s THEN b ELSE m.data[t])
      BY <2>7, <3>1 DEF Mems
    <3> HIDE DEF n
    <3> QED
      BY <2>2, <2>3, <2>4, <2>5, <2>9, <3>2
  <2>10. CASE ~M!InWindow(a) /\ ~(s # M!None)
    <3>1. n = m
      BY <2>10 DEF M!Write1, s
    <3> QED
      BY <2>2, <2>3, <2>5, <2>10, <3>1
  <2> QED
    BY <2>8, <2>9, <2>10
<1>5. \A x \in Nat : (x = a <=> x \in (a + 1 - 1)..(a + 1 - 1)) /\ (x = a => x - a + 1 = 1)
  OBVIOUS
<1> HIDE DEF n
<1>6. ASSUME NEW x \in Nat
      PROVE  M!Read1(n, x) = IF x \in (a + 1 - 1)..(a + 1 - 1) /\ Answers(m, x) THEN v[x - a + 1] ELSE M!Read1(m, x)
  BY <1>4, <1>5, Zenon DEF b
<1>7. Holds(m, n, a, v, 1, 1)
  BY <1>1, <1>3, <1>6, Zenon DEF Holds
<1> QED
  BY <1>3, <1>7 DEF n, b

\* So does a store straight into the RAM, outside of the window (write_u16 to write_u128).
LEMMA RanHolds ==
  ASSUME NEW ram \in Rams, NEW m \in Mems(ram), NEW a \in Nat, NEW v \in Seq(Int), NEW w \in Nat \ {0},
         Len(v) = w, M!Direct(m, a, w), Inside(m, a, w), OffScreen(a, w)
  PROVE  Holds(m, M!Ran(m, a, v), a, v, 1, w)
<1> DEFINE n == M!Ran(m, a, v)  s == M!Slot(m, a)
<1>1. m.ram = ram /\ DOMAIN m.data = 0..(ram - 1) /\ w \in Nat \ {0} /\ ram \in Nat
  BY DEF Mems, Rams
<1>2. \A i \in 0..(w - 1) : M!Slot(m, a + i) = s + i /\ s + i \in 0..(ram - 1)
  BY <1>1, DirectRun
<1>3. n = [m EXCEPT !.data = [t \in 0..(ram - 1) |-> IF t - s + 1 \in 1..w THEN v[t - s + 1] ELSE m.data[t]]]
  BY <1>1 DEF M!Ran
<1> HIDE DEF n, s
<1>4. s \in Int
  <2>1. s + 0 \in 0..(ram - 1) /\ M!Slot(m, a) = s
    BY <1>1, <1>2 DEF s
  <2>2. s \in 0..(ram - 1)
    BY <1>1, SlotFacts DEF s, M!Direct
  <2> QED
    BY <1>1, <2>2
<1>5. n \in Mems(ram)
  <2>1. \A t \in 0..(ram - 1) : (IF t - s + 1 \in 1..w THEN v[t - s + 1] ELSE m.data[t]) \in Contents
    <3>1. \A i \in 1..w : v[i] \in Contents
      BY DEF Contents
    <3> QED
      BY <3>1 DEF Mems
  <2> QED
    BY <1>3, <2>1 DEF Mems
<1>6. ASSUME NEW x \in Nat
      PROVE  M!Read1(n, x) = IF x \in (a + 1 - 1)..(a + w - 1) /\ Answers(m, x) THEN v[x - a + 1] ELSE M!Read1(m, x)
  <2> DEFINE t == M!Slot(m, x)
  <2>1. M!Slot(n, x) = t
    BY <1>1, <1>5, SlotOfRam DEF Mems
  <2>2. /\ M!Read1(m, x) = IF M!InWindow(x) THEN m.text[x] ELSE IF t # M!None THEN m.data[t] ELSE Open
        /\ M!Read1(n, x) = IF M!InWindow(x) THEN n.text[x] ELSE IF t # M!None THEN n.data[t] ELSE Open
    BY <2>1 DEF M!Read1
  <2>3. Answers(m, x) <=> M!InWindow(x) \/ t # M!None
    BY DEF Answers
  <2>4. M!InWindow(x) => x \notin (a + 1 - 1)..(a + w - 1)
    BY <1>1, MemoryAssumption DEF M!InWindow, OffScreen
  <2>5. t # M!None => t \in 0..(ram - 1)
    BY <1>1, SlotFacts
  <2>6. x \in (a + 1 - 1)..(a + w - 1) => t = s + (x - a)
    <3> SUFFICES ASSUME x \in (a + 1 - 1)..(a + w - 1) PROVE t = s + (x - a)
      OBVIOUS
    <3>1. PICK i \in 0..(w - 1) : x = a + i
      <4>1. x - a \in 0..(w - 1) /\ x = a + (x - a)
        BY <1>1
      <4> QED
        BY <4>1
    <3>2. M!Slot(m, a + i) = s + i
      BY <1>2
    <3> QED
      BY <1>4, <3>1, <3>2
  <2>7. t # M!None /\ t - s + 1 \in 1..w => x \in (a + 1 - 1)..(a + w - 1)
    <3> SUFFICES ASSUME t # M!None, t - s + 1 \in 1..w PROVE x \in (a + 1 - 1)..(a + w - 1)
      OBVIOUS
    <3>1. PICK i \in 0..(w - 1) : t = s + i
      <4>1. t - s \in 0..(w - 1) /\ t = s + (t - s)
        BY <1>1, <1>4, <2>5
      <4> QED
        BY <4>1
    <3>2. M!Slot(m, a + i) = t /\ a + i \in Nat
      BY <1>2, <3>1
    <3>3. x = a + i
      BY <1>1, <3>2, SlotFacts
    <3> QED
      BY <1>1, <3>3
  <2> HIDE DEF t
  <2>8. n.text = m.text /\ (t # M!None => n.data[t] = IF t - s + 1 \in 1..w THEN v[t - s + 1] ELSE m.data[t])
    BY <1>3, <2>5 DEF Mems
  <2>9. x \in (a + 1 - 1)..(a + w - 1) => t - s + 1 = x - a + 1 /\ t - s + 1 \in 1..w
    BY <1>1, <1>4, <2>6
  <2> QED
    BY <2>2, <2>3, <2>4, <2>7, <2>8, <2>9, Zenon
<1> QED
  BY <1>1, <1>5, <1>6 DEF Holds, n

\* A part of the bytes of a store.
LEMMA PartOf ==
  ASSUME NEW v \in Seq(Int), NEW h \in Nat, NEW l \in Nat, h < l, l <= Len(v)
  PROVE  /\ SubSeq(v, h + 1, l) \in Seq(Int) /\ Len(SubSeq(v, h + 1, l)) = l - h
         /\ \A x \in 1..(l - h) : SubSeq(v, h + 1, l)[x] = v[x + h]
<1> DEFINE u == SubSeq(v, h + 1, l)
<1>1. h + 1 \in 1..(Len(v) + 1) /\ l \in h..Len(v) /\ l \in (h + 1 - 1)..Len(v)
  OBVIOUS
<1>2. /\ u \in Seq(Int) /\ Len(u) = IF h + 1 <= l THEN l - (h + 1) + 1 ELSE 0
      /\ \A i \in 1..(l - (h + 1) + 1) : u[i] = v[h + 1 + i - 1]
  BY <1>1, SubSeqProperties
<1> HIDE DEF u
<1>3. \A i \in 1..(l - h) : u[i] = v[i + h]
  <2> SUFFICES ASSUME NEW i \in 1..(l - h) PROVE u[i] = v[i + h]
    OBVIOUS
  <2>1. u[i] = v[h + 1 + i - 1] /\ h + 1 + i - 1 = i + h
    BY <1>2
  <2> QED
    BY <2>1
<1>4. Len(u) = l - h
  BY <1>2
<1> QED
  BY <1>2, <1>3, <1>4 DEF u

\* The first bytes of a store, and then the rest of them.
LEMMA FirstBytes ==
  ASSUME NEW m, NEW n, NEW a \in Nat, NEW v \in Seq(Int), NEW h \in Nat \ {0}, h <= Len(v),
         Holds(m, n, a, SubSeq(v, 1, h), 1, h)
  PROVE  Holds(m, n, a, v, 1, h)
<1> DEFINE u == SubSeq(v, 0 + 1, h)
<1>1. \A x \in 1..h : u[x] = v[x + 0]
  BY PartOf, h - 0 = h
<1>2. u = SubSeq(v, 1, h) /\ a + 0 = a
  OBVIOUS
<1>3. Holds(m, n, a + 0, u, 1, h)
  BY <1>2
<1> HIDE DEF u
<1>4. Holds(m, n, a, v, 0 + 1, 0 + h)
  BY <1>1, <1>3, HoldsPart
<1> QED
  BY <1>4, 0 + 1 = 1, 0 + h = h

LEMMA ThenTheRest ==
  ASSUME NEW m, NEW n, NEW k, NEW a \in Nat, NEW v \in Seq(Int), NEW h \in Nat \ {0}, NEW l \in Nat,
         h < l, l <= Len(v), Holds(m, n, a, v, 1, h), Holds(n, k, a + h, SubSeq(v, h + 1, l), 1, l - h)
  PROVE  Holds(m, k, a, v, 1, l)
<1> DEFINE u == SubSeq(v, h + 1, l)
<1>1. \A x \in 1..(l - h) : u[x] = v[x + h]
  BY PartOf
<1>2. Holds(n, k, a + h, u, 1, l - h) /\ l - h \in Nat
  OBVIOUS
<1> HIDE DEF u
<1>3. Holds(n, k, a, v, h + 1, h + (l - h))
  BY <1>1, <1>2, HoldsPart
<1>4. Holds(n, k, a, v, h + 1, l)
  BY <1>3, h + (l - h) = l
<1> QED
  BY <1>4, HoldsMore, 1 <= 1

\* A byte at a time, a store of any width goes where it is found again (write_u8).
LEMMA BytesHold ==
  ASSUME NEW ram \in Rams, NEW m \in Mems(ram), NEW a \in Nat, NEW v \in Seq(Int)
  PROVE  /\ Len(v) >= 2 => Holds(m, M!ByBytes2(m, a, v), a, v, 1, 2)
         /\ Len(v) >= 4 => Holds(m, M!ByBytes4(m, a, v), a, v, 1, 4)
         /\ Len(v) >= 8 => Holds(m, M!ByBytes8(m, a, v), a, v, 1, 8)
<1>1. ASSUME NEW n \in Mems(ram), NEW b \in Nat, NEW u \in Seq(Int), Len(u) >= 2
      PROVE  Holds(n, M!ByBytes2(n, b, u), b, u, 1, 2) /\ M!ByBytes2(n, b, u) \in Mems(ram)
  <2> DEFINE one == M!Write1(n, b, u[1])  two == M!Write1(one, b + 1, u[2])
             t == [i \in {1} |-> u[2]]
  <2>1. u[1] \in Int /\ u[2] \in Int /\ t[1] = u[2]
    BY <1>1
  <2>2. one \in Mems(ram) /\ Holds(n, one, b, u, 1, 1)
    BY <2>1, ByteHolds
  <2> HIDE DEF one
  <2>3. M!Write1(one, b + 1, t[1]) \in Mems(ram) /\ Holds(one, M!Write1(one, b + 1, t[1]), b + 1, t, 1, 1)
    BY <2>1, <2>2, ByteHolds
  <2>4. two \in Mems(ram) /\ Holds(one, two, b + 1, t, 1, 1)
    BY <2>1, <2>3
  <2> HIDE DEF two
  <2>5. \A x \in 1..1 : t[x] = u[x + 1]
    OBVIOUS
  <2> HIDE DEF t
  <2>6. Holds(one, two, b, u, 1 + 1, 1 + 1)
    BY <2>4, <2>5, HoldsPart
  <2>7. Holds(n, two, b, u, 1, 1 + 1)
    BY <2>2, <2>6, HoldsMore, 1 + 1 \in Nat, 1 <= 1 + 1, 1 <= 1
  <2>8. two = M!ByBytes2(n, b, u) /\ 1 + 1 = 2
    BY DEF M!ByBytes2, one, two
  <2> QED
    BY <2>4, <2>7, <2>8
<1>2. ASSUME NEW n \in Mems(ram), NEW b \in Nat, NEW u \in Seq(Int), Len(u) >= 4
      PROVE  Holds(n, M!ByBytes4(n, b, u), b, u, 1, 4) /\ M!ByBytes4(n, b, u) \in Mems(ram)
  <2> DEFINE one == M!ByBytes2(n, b, u)  t == SubSeq(u, 2 + 1, 4)  two == M!ByBytes2(one, b + 2, t)
  <2>1. one \in Mems(ram) /\ Holds(n, one, b, u, 1, 2)
    BY <1>1, <1>2
  <2>2. t \in Seq(Int) /\ Len(t) = 4 - 2
    BY <1>2, PartOf
  <2>3. b + 2 \in Nat /\ Len(t) >= 2
    BY <2>2
  <2> HIDE DEF one
  <2>4. two \in Mems(ram) /\ Holds(one, two, b + 2, t, 1, 2)
    BY <1>1, <2>1, <2>2, <2>3
  <2>5. Holds(one, two, b + 2, SubSeq(u, 2 + 1, 4), 1, 4 - 2)
    BY <2>4, 4 - 2 = 2
  <2>6. two = M!ByBytes4(n, b, u)
    BY 2 + 1 = 3 DEF M!ByBytes4, one
  <2> HIDE DEF two
  <2>7. Holds(n, two, b, u, 1, 4)
    <3>1. 2 \in Nat \ {0} /\ 4 \in Nat /\ 2 < 4 /\ 4 <= Len(u)
      BY <1>2
    <3>2. \A h \in Nat \ {0}, l \in Nat :
            /\ h < l /\ l <= Len(u) /\ Holds(n, one, b, u, 1, h)
            /\ Holds(one, two, b + h, SubSeq(u, h + 1, l), 1, l - h)
            => Holds(n, two, b, u, 1, l)
      BY ThenTheRest
    <3> QED
      BY <2>1, <2>5, <3>1, <3>2, Zenon
  <2> QED
    BY <2>4, <2>6, <2>7
<1>3. ASSUME Len(v) >= 8
      PROVE  Holds(m, M!ByBytes8(m, a, v), a, v, 1, 8)
  <2> DEFINE one == M!ByBytes4(m, a, v)  t == SubSeq(v, 4 + 1, 8)  two == M!ByBytes4(one, a + 4, t)
  <2>1. one \in Mems(ram) /\ Holds(m, one, a, v, 1, 4)
    BY <1>2, <1>3
  <2>2. t \in Seq(Int) /\ Len(t) = 8 - 4
    BY <1>3, PartOf
  <2>3. a + 4 \in Nat /\ Len(t) >= 4
    BY <2>2
  <2> HIDE DEF one
  <2>4. Holds(one, two, a + 4, t, 1, 4)
    BY <1>2, <2>1, <2>2, <2>3
  <2>5. Holds(one, two, a + 4, SubSeq(v, 4 + 1, 8), 1, 8 - 4)
    BY <2>4, 8 - 4 = 4
  <2>6. two = M!ByBytes8(m, a, v)
    BY 4 + 1 = 5 DEF M!ByBytes8, one
  <2> HIDE DEF two
  <2>7. Holds(m, two, a, v, 1, 8)
    BY <1>3, <2>1, <2>5, ThenTheRest
  <2> QED
    BY <2>6, <2>7
<1> QED
  BY <1>1, <1>2, <1>3

\* A store in two halves.
LEMMA InHalves ==
  ASSUME NEW m, NEW n, NEW k, NEW a \in Nat, NEW v \in Seq(Int), NEW h \in Nat \ {0}, NEW l \in Nat,
         l = h + h, Len(v) = l, Holds(m, n, a, SubSeq(v, 1, h), 1, h),
         Holds(n, k, a + h, SubSeq(v, h + 1, l), 1, h)
  PROVE  Holds(m, k, a, v, 1, l)
<1>1. h < l /\ l <= Len(v) /\ h <= Len(v) /\ l - h = h
  OBVIOUS
<1>2. Holds(m, n, a, v, 1, h)
  BY <1>1, FirstBytes
<1>3. Holds(n, k, a + h, SubSeq(v, h + 1, l), 1, l - h)
  BY <1>1
<1> QED
  BY <1>1, <1>2, <1>3, ThenTheRest

\* The halves of a regular access are regular.
LEMMA HalvesRegular ==
  ASSUME NEW m, NEW n, m.ram \in Rams, n.ram = m.ram, NEW a \in Nat, NEW h \in {2, 4, 8}, NEW w, w = h + h,
         Regular(m, a, w)
  PROVE  Regular(m, a, h) /\ Regular(n, a + h, h)
<1> DEFINE low == M!LowSize(m)
<1>1. low \in Nat /\ low <= m.ram /\ m.ram \in Nat
  BY SlotFacts DEF Rams
<1>2. M!LowSize(n) = low
  BY SlotOfRam
<1>3. w \in Nat /\ h \in Nat /\ Window \in Nat /\ WindowEnd \in Nat
  BY MemoryAssumption
<1> HIDE DEF low
<1>4. CASE M!InWindow(a) /\ M!InWindow(a + w - 1) /\ a % 2 = 0
  <2>1. M!InWindow(a + h - 1) /\ M!InWindow(a + h) /\ M!InWindow(a + h + h - 1)
    BY <1>3, <1>4 DEF M!InWindow
  <2>2. (a + h) % 2 = 0 /\ h < 16
    BY <1>4
  <2> QED
    BY <1>4, <2>1, <2>2 DEF Regular
<1>5. CASE /\ (a + w - 1 < Window \/ a >= WindowEnd)
           /\ ~(a < M!LowSize(m) /\ a + w > M!LowSize(m) /\ m.ram > M!LowSize(m))
  <2>1. a + h - 1 < Window \/ a >= WindowEnd
    BY <1>3, <1>5
  <2>2. a + h + h - 1 < Window \/ a + h >= WindowEnd
    BY <1>3, <1>5
  <2>3. ~(a < low /\ a + w > low /\ m.ram > low)
    BY <1>5 DEF low
  <2>4. ~(a < low /\ a + h > low /\ m.ram > low)
    BY <1>1, <1>3, <2>3
  <2>5. ~(a + h < low /\ a + h + h > low /\ n.ram > low)
    BY <1>1, <1>3, <2>3
  <2>6. Regular(m, a, h)
    BY <2>1, <2>4 DEF Regular, low
  <2>7. Regular(n, a + h, h)
    BY <1>2, <2>2, <2>5 DEF Regular
  <2> QED
    BY <2>6, <2>7
<1>6. w # 1
  OBVIOUS
<1> QED
  BY <1>4, <1>5, <1>6 DEF Regular

\* What a regular access of more than a byte is: of whole cells in the window, or away
\* from it and from the end of the RAM under the hole.
LEMMA RegularIs ==
  ASSUME NEW m, NEW a \in Nat, NEW w \in {2, 4, 8, 16}, Regular(m, a, w)
  PROVE  \/ /\ M!InWindow(a) /\ M!InWindow(a + 1) /\ M!InWindow(a + w - 1) /\ M!CellOf(a) = a /\ w < 16
            /\ a + w - 1 >= Window /\ a < WindowEnd
         \/ /\ ~M!InWindow(a) /\ ~M!InWindow(a + w - 1) /\ ~(a + w - 1 >= Window /\ a < WindowEnd)
            /\ OffScreen(a, w) /\ Inside(m, a, w)
<1>1. Window \in Nat /\ WindowEnd \in Nat
  BY MemoryAssumption
<1>2. CASE M!InWindow(a) /\ M!InWindow(a + w - 1) /\ a % 2 = 0 /\ w < 16
  BY <1>1, <1>2 DEF M!InWindow, M!CellOf
<1>3. CASE /\ (a + w - 1 < Window \/ a >= WindowEnd)
           /\ ~(a < M!LowSize(m) /\ a + w > M!LowSize(m) /\ m.ram > M!LowSize(m))
  <2>1. ~M!InWindow(a) /\ ~M!InWindow(a + w - 1) /\ ~(a + w - 1 >= Window /\ a < WindowEnd)
    BY <1>1, <1>3 DEF M!InWindow
  <2>2. OffScreen(a, w) /\ Inside(m, a, w)
    BY <1>3 DEF OffScreen, Inside
  <2> QED
    BY <1>3, <2>1, <2>2
<1> QED
  BY <1>2, <1>3 DEF Regular

\* The halves of the bytes of a store.
LEMMA HalfType ==
  ASSUME NEW v \in Seq(Int), NEW h \in Nat \ {0}, NEW l \in Nat, l = h + h, Len(v) = l
  PROVE  /\ SubSeq(v, 1, h) \in Seq(Int) /\ Len(SubSeq(v, 1, h)) = h
         /\ SubSeq(v, h + 1, l) \in Seq(Int) /\ Len(SubSeq(v, h + 1, l)) = h
<1>1. SubSeq(v, 0 + 1, h) \in Seq(Int) /\ Len(SubSeq(v, 0 + 1, h)) = h - 0
  <2>1. 0 \in Nat /\ h \in Nat /\ 0 < h /\ h <= Len(v)
    OBVIOUS
  <2> QED
    BY <2>1, PartOf
<1>2. SubSeq(v, h + 1, l) \in Seq(Int) /\ Len(SubSeq(v, h + 1, l)) = l - h
  <2>1. h \in Nat /\ l \in Nat /\ h < l /\ l <= Len(v)
    OBVIOUS
  <2> QED
    BY <2>1, PartOf
<1>3. 0 + 1 = 1 /\ h - 0 = h /\ l - h = h
  OBVIOUS
<1> QED
  BY <1>1, <1>2, <1>3

\* A regular store of each width goes where it is found again (write_u16 to write_u128).
LEMMA WordHolds ==
  ASSUME NEW ram \in Rams, NEW m \in Mems(ram), NEW a \in Nat, NEW v \in Seq(Int), NEW w \in {2},
         Len(v) = w, Regular(m, a, w)
  PROVE  Holds(m, M!Write2(m, a, v), a, v, 1, w)
<1>1. Holds(m, M!ByBytes2(m, a, v), a, v, 1, w)
  <2>1. Len(v) >= 2 /\ w = 2
    OBVIOUS
  <2>2. Holds(m, M!ByBytes2(m, a, v), a, v, 1, 2)
    BY <2>1, BytesHold
  <2> QED
    BY <2>1, <2>2
<1>2. CASE M!InWindow(a) /\ M!InWindow(a + 1) /\ M!CellOf(a) = a
  <2> DEFINE one == [m EXCEPT !.text[a] = v[1]]
  <2>1. M!Write2(m, a, v) = [m EXCEPT !.text[a] = v[1], !.text[a + 1] = v[2]]
    BY <1>2 DEF M!Write2
  <2>2. M!ByBytes2(m, a, v) = [one EXCEPT !.text[a + 1] = v[2]]
    BY <1>2 DEF M!ByBytes2, M!Write1
  <2>3. [m EXCEPT !.text[a] = v[1], !.text[a + 1] = v[2]] = [one EXCEPT !.text[a + 1] = v[2]]
    OBVIOUS
  <2> QED
    BY <1>1, <2>1, <2>2, <2>3
<1>3. CASE ~M!InWindow(a) /\ OffScreen(a, w) /\ Inside(m, a, w)
  <2>1. CASE M!Direct(m, a, w)
    <3>1. M!Write2(m, a, v) = M!Ran(m, a, v)
      BY <1>3, <2>1 DEF M!Write2
    <3>2. w \in Nat \ {0}
      OBVIOUS
    <3>3. Holds(m, M!Ran(m, a, v), a, v, 1, w)
      BY <1>3, <2>1, <3>2, RanHolds, Zenon
    <3> QED
      BY <3>1, <3>3
  <2>2. CASE ~M!Direct(m, a, w)
    <3>1. M!Write2(m, a, v) = M!ByBytes2(m, a, v)
      BY <1>3, <2>2 DEF M!Write2
    <3> QED
      BY <1>1, <3>1
  <2> QED
    BY <2>1, <2>2
<1>4. w \in {2, 4, 8, 16}
  OBVIOUS
<1> QED
  BY <1>2, <1>3, <1>4, RegularIs

LEMMA DwordHolds ==
  ASSUME NEW ram \in Rams, NEW m \in Mems(ram), NEW a \in Nat, NEW v \in Seq(Int), NEW w \in {4},
         Len(v) = w, Regular(m, a, w)
  PROVE  Holds(m, M!Write4(m, a, v), a, v, 1, w)
<1>1. w = 4 /\ w \in {2, 4, 8, 16} /\ w \in Nat \ {0} /\ Len(v) >= w
  OBVIOUS
<1>2. Holds(m, M!ByBytes4(m, a, v), a, v, 1, w)
  <2>1. Len(v) >= 4 => Holds(m, M!ByBytes4(m, a, v), a, v, 1, 4)
    BY BytesHold
  <2> QED
    BY <1>1, <2>1
<1>3. CASE M!InWindow(a + 3)
  <2>1. PICK h \in {2} : h \in {2, 4, 8} /\ h \in Nat \ {0} /\ w = h + h /\ h = 2
    BY <1>1
  <2> DEFINE u == SubSeq(v, 1, h)  t == SubSeq(v, h + 1, w)
             one == M!Write2(m, a, u)  two == M!Write2(one, a + h, t)
  <2>2. u \in Seq(Int) /\ Len(u) = h /\ t \in Seq(Int) /\ Len(t) = h
    BY <1>1, <2>1, HalfType
  <2>3. m.ram \in Rams /\ m.ram = ram
    BY DEF Mems
  <2>4. Regular(m, a, h)
    BY <2>1, <2>3, HalvesRegular
  <2>5. two = M!Write4(m, a, v)
    BY <1>1, <1>3, <2>1, 2 + 1 = 3 DEF M!Write4
  <2> HIDE DEF u, t
  <2>6. Holds(m, one, a, u, 1, h)
    BY <2>1, <2>2, <2>4, WordHolds, Zenon
  <2>7. one \in Mems(ram) /\ one.ram = m.ram
    BY <2>3, <2>6 DEF Holds, Mems
  <2> HIDE DEF one
  <2>8. Regular(one, a + h, h) /\ a + h \in Nat
    <3>1. Regular(one, a + h, h)
      BY <2>1, <2>3, <2>7, HalvesRegular, Zenon
    <3> QED
      BY <2>1, <3>1
  <2>9. Holds(one, two, a + h, t, 1, h)
    BY <2>1, <2>2, <2>7, <2>8, WordHolds, Zenon
  <2> HIDE DEF two
  <2>10. Holds(m, two, a, v, 1, w)
    <3>1. Holds(m, one, a, SubSeq(v, 1, h), 1, h) /\ Holds(one, two, a + h, SubSeq(v, h + 1, w), 1, h)
      BY <2>6, <2>9 DEF u, t
    <3>2. h \in Nat \ {0} /\ w \in Nat /\ w = h + h
      BY <1>1, <2>1
    <3> QED
      BY <3>1, <3>2, InHalves, Zenon
  <2> QED
    BY <2>5, <2>10
<1>4. CASE ~M!InWindow(a + 3) /\ OffScreen(a, w) /\ Inside(m, a, w)
  <2>1. CASE M!Direct(m, a, w)
    <3>1. M!Write4(m, a, v) = M!Ran(m, a, v)
      BY <1>1, <1>4, <2>1 DEF M!Write4
    <3>2. Holds(m, M!Ran(m, a, v), a, v, 1, w)
      BY <1>1, <1>4, <2>1, RanHolds, Zenon
    <3> QED
      BY <3>1, <3>2
  <2>2. CASE ~M!Direct(m, a, w)
    <3>1. M!Write4(m, a, v) = M!ByBytes4(m, a, v)
      BY <1>1, <1>4, <2>2 DEF M!Write4
    <3> QED
      BY <1>2, <3>1
  <2> QED
    BY <2>1, <2>2
<1>5. a + w - 1 = a + 3
  BY <1>1
<1> QED
  BY <1>1, <1>3, <1>4, <1>5, RegularIs

LEMMA QwordHolds ==
  ASSUME NEW ram \in Rams, NEW m \in Mems(ram), NEW a \in Nat, NEW v \in Seq(Int), NEW w \in {8},
         Len(v) = w, Regular(m, a, w)
  PROVE  Holds(m, M!Write8(m, a, v), a, v, 1, w)
<1>1. w = 8 /\ w \in {2, 4, 8, 16} /\ w \in Nat \ {0} /\ Len(v) >= w
  OBVIOUS
<1>2. Holds(m, M!ByBytes8(m, a, v), a, v, 1, w)
  <2>1. Len(v) >= 8 => Holds(m, M!ByBytes8(m, a, v), a, v, 1, 8)
    BY BytesHold
  <2> QED
    BY <1>1, <2>1
<1>3. CASE a + 7 >= Window /\ a < WindowEnd
  <2>1. PICK h \in {4} : h \in {2, 4, 8} /\ h \in Nat \ {0} /\ w = h + h /\ h = 4
    BY <1>1
  <2> DEFINE u == SubSeq(v, 1, h)  t == SubSeq(v, h + 1, w)
             one == M!Write4(m, a, u)  two == M!Write4(one, a + h, t)
  <2>2. u \in Seq(Int) /\ Len(u) = h /\ t \in Seq(Int) /\ Len(t) = h
    BY <1>1, <2>1, HalfType
  <2>3. m.ram \in Rams /\ m.ram = ram
    BY DEF Mems
  <2>4. Regular(m, a, h)
    BY <2>1, <2>3, HalvesRegular
  <2>5. two = M!Write8(m, a, v)
    BY <1>1, <1>3, <2>1, 4 + 1 = 5 DEF M!Write8
  <2> HIDE DEF u, t
  <2>6. Holds(m, one, a, u, 1, h)
    BY <2>1, <2>2, <2>4, DwordHolds, Zenon
  <2>7. one \in Mems(ram) /\ one.ram = m.ram
    BY <2>3, <2>6 DEF Holds, Mems
  <2> HIDE DEF one
  <2>8. Regular(one, a + h, h) /\ a + h \in Nat
    <3>1. Regular(one, a + h, h)
      BY <2>1, <2>3, <2>7, HalvesRegular, Zenon
    <3> QED
      BY <2>1, <3>1
  <2>9. Holds(one, two, a + h, t, 1, h)
    BY <2>1, <2>2, <2>7, <2>8, DwordHolds, Zenon
  <2> HIDE DEF two
  <2>10. Holds(m, two, a, v, 1, w)
    <3>1. Holds(m, one, a, SubSeq(v, 1, h), 1, h) /\ Holds(one, two, a + h, SubSeq(v, h + 1, w), 1, h)
      BY <2>6, <2>9 DEF u, t
    <3>2. h \in Nat \ {0} /\ w \in Nat /\ w = h + h
      BY <1>1, <2>1
    <3> QED
      BY <3>1, <3>2, InHalves, Zenon
  <2> QED
    BY <2>5, <2>10
<1>4. CASE ~(a + 7 >= Window /\ a < WindowEnd) /\ OffScreen(a, w) /\ Inside(m, a, w)
  <2>1. CASE M!Direct(m, a, w)
    <3>1. M!Write8(m, a, v) = M!Ran(m, a, v)
      BY <1>1, <1>4, <2>1 DEF M!Write8
    <3>2. Holds(m, M!Ran(m, a, v), a, v, 1, w)
      BY <1>1, <1>4, <2>1, RanHolds, Zenon
    <3> QED
      BY <3>1, <3>2
  <2>2. CASE ~M!Direct(m, a, w)
    <3>1. M!Write8(m, a, v) = M!ByBytes8(m, a, v)
      BY <1>1, <1>4, <2>2 DEF M!Write8
    <3> QED
      BY <1>2, <3>1
  <2> QED
    BY <2>1, <2>2
<1>5. a + w - 1 = a + 7
  BY <1>1
<1> QED
  BY <1>1, <1>3, <1>4, <1>5, RegularIs

LEMMA OwordHolds ==
  ASSUME NEW ram \in Rams, NEW m \in Mems(ram), NEW a \in Nat, NEW v \in Seq(Int), NEW w \in {16},
         Len(v) = w, Regular(m, a, w)
  PROVE  Holds(m, M!Write16(m, a, v), a, v, 1, w)
<1>1. w = 16 /\ w \in {2, 4, 8, 16} /\ w \in Nat \ {0} /\ Len(v) >= w
  OBVIOUS
<1>2. CASE ~M!Direct(m, a, w)
  <2>1. PICK h \in {8} : h \in {2, 4, 8} /\ h \in Nat \ {0} /\ w = h + h /\ h = 8
    BY <1>1
  <2> DEFINE u == SubSeq(v, 1, h)  t == SubSeq(v, h + 1, w)
             one == M!Write8(m, a, u)  two == M!Write8(one, a + h, t)
  <2>2. u \in Seq(Int) /\ Len(u) = h /\ t \in Seq(Int) /\ Len(t) = h
    BY <1>1, <2>1, HalfType
  <2>3. m.ram \in Rams /\ m.ram = ram
    BY DEF Mems
  <2>4. Regular(m, a, h)
    BY <2>1, <2>3, HalvesRegular
  <2>5. two = M!Write16(m, a, v)
    BY <1>1, <1>2, <2>1, 8 + 1 = 9 DEF M!Write16
  <2> HIDE DEF u, t
  <2>6. Holds(m, one, a, u, 1, h)
    BY <2>1, <2>2, <2>4, QwordHolds, Zenon
  <2>7. one \in Mems(ram) /\ one.ram = m.ram
    BY <2>3, <2>6 DEF Holds, Mems
  <2> HIDE DEF one
  <2>8. Regular(one, a + h, h) /\ a + h \in Nat
    <3>1. Regular(one, a + h, h)
      BY <2>1, <2>3, <2>7, HalvesRegular, Zenon
    <3> QED
      BY <2>1, <3>1
  <2>9. Holds(one, two, a + h, t, 1, h)
    BY <2>1, <2>2, <2>7, <2>8, QwordHolds, Zenon
  <2> HIDE DEF two
  <2>10. Holds(m, two, a, v, 1, w)
    <3>1. Holds(m, one, a, SubSeq(v, 1, h), 1, h) /\ Holds(one, two, a + h, SubSeq(v, h + 1, w), 1, h)
      BY <2>6, <2>9 DEF u, t
    <3>2. h \in Nat \ {0} /\ w \in Nat /\ w = h + h
      BY <1>1, <2>1
    <3> QED
      BY <3>1, <3>2, InHalves, Zenon
  <2> QED
    BY <2>5, <2>10
<1>3. CASE M!Direct(m, a, w) /\ OffScreen(a, w) /\ Inside(m, a, w)
  <2>1. M!Write16(m, a, v) = M!Ran(m, a, v)
    BY <1>1, <1>3 DEF M!Write16
  <2>2. Holds(m, M!Ran(m, a, v), a, v, 1, w)
    BY <1>1, <1>3, RanHolds, Zenon
  <2> QED
    BY <2>1, <2>2
<1> QED
  BY <1>1, <1>2, <1>3, RegularIs

LEMMA WriteHolds ==
  ASSUME NEW ram \in Rams, NEW m \in Mems(ram), NEW a \in Nat, NEW v \in Seq(Int), NEW w \in M!Widths,
         Len(v) = w, Regular(m, a, w)
  PROVE  Holds(m, M!Write(m, a, v), a, v, 1, w)
<1>1. CASE w = 1
  <2>1. v[1] \in Int /\ M!Write(m, a, v) = M!Write1(m, a, v[1])
    <3>1. Len(v) = 1
      BY <1>1
    <3>2. v[1] \in Int
      <4>1. \A i \in 1..Len(v) : v[i] \in Int
        OBVIOUS
      <4> QED
        BY <3>1, <4>1
    <3>3. M!Write(m, a, v) = M!Write1(m, a, v[1])
      BY <3>1 DEF M!Write
    <3> QED
      BY <3>2, <3>3
  <2>2. Holds(m, M!Write1(m, a, v[1]), a, v, 1, 1)
    BY <2>1, ByteHolds
  <2> QED
    BY <1>1, <2>1, <2>2
<1>2. CASE w = 2
  <2>1. M!Write(m, a, v) = M!Write2(m, a, v) /\ w \in {2}
    BY <1>2 DEF M!Write
  <2> QED
    BY <2>1, WordHolds
<1>3. CASE w = 4
  <2>1. M!Write(m, a, v) = M!Write4(m, a, v) /\ w \in {4}
    BY <1>3 DEF M!Write
  <2> QED
    BY <2>1, DwordHolds
<1>4. CASE w = 8
  <2>1. M!Write(m, a, v) = M!Write8(m, a, v) /\ w \in {8}
    BY <1>4 DEF M!Write
  <2> QED
    BY <2>1, QwordHolds
<1>5. CASE w = 16
  <2>1. M!Write(m, a, v) = M!Write16(m, a, v) /\ w \in {16}
    BY <1>5 DEF M!Write
  <2> QED
    BY <2>1, OwordHolds
<1> QED
  BY <1>1, <1>2, <1>3, <1>4, <1>5 DEF M!Widths

\* The bytes of a load, and those of its halves one after the other.
Loaded == Contents \cup {Open}
LEMMA BytesType ==
  ASSUME NEW ram \in Rams, NEW m \in Mems(ram), NEW a \in Nat, NEW w \in Nat
  PROVE  /\ M!Bytes(m, a, w) \in Seq(Loaded) /\ Len(M!Bytes(m, a, w)) = w
         /\ \A i \in 1..w : M!Bytes(m, a, w)[i] = M!Read1(m, a + i - 1)
<1>1. ASSUME NEW x \in Nat PROVE M!Read1(m, x) \in Loaded
  <2>1. m.ram = ram
    BY DEF Mems
  <2>2. M!Slot(m, x) # M!None => M!Slot(m, x) \in 0..(ram - 1)
    BY <2>1, SlotFacts
  <2>3. M!Slot(m, x) # M!None => m.data[M!Slot(m, x)] \in Contents
    BY <2>2 DEF Mems
  <2>4. M!InWindow(x) => m.text[x] \in Contents
    BY DEF Mems, M!InWindow
  <2> QED
    BY <2>3, <2>4 DEF M!Read1, Loaded
<1>2. \A i \in 1..w : a + i - 1 \in Nat
  OBVIOUS
<1>3. \A i \in 1..w : M!Read1(m, a + i - 1) \in Loaded
  BY <1>1, <1>2
<1>4. M!Bytes(m, a, w) = [i \in 1..w |-> M!Read1(m, a + i - 1)]
  BY DEF M!Bytes
<1> QED
  BY <1>3, <1>4

LEMMA BytesInHalves ==
  ASSUME NEW ram \in Rams, NEW m \in Mems(ram), NEW a \in Nat, NEW h \in Nat, NEW w \in Nat, w = h + h
  PROVE  M!Bytes(m, a, h) \o M!Bytes(m, a + h, h) = M!Bytes(m, a, w)
<1> DEFINE s == M!Bytes(m, a, h)  t == M!Bytes(m, a + h, h)  u == M!Bytes(m, a, w)
<1>1. a + h \in Nat
  OBVIOUS
<1>2. /\ s \in Seq(Loaded) /\ Len(s) = h /\ \A i \in 1..h : s[i] = M!Read1(m, a + i - 1)
      /\ u \in Seq(Loaded) /\ Len(u) = w /\ \A i \in 1..w : u[i] = M!Read1(m, a + i - 1)
  BY BytesType
<1>3. t \in Seq(Loaded) /\ Len(t) = h /\ \A i \in 1..h : t[i] = M!Read1(m, (a + h) + i - 1)
  BY <1>1, BytesType
<1> HIDE DEF s, t, u
<1>4. /\ s \o t \in Seq(Loaded) /\ Len(s \o t) = Len(s) + Len(t)
      /\ \A i \in 1..(Len(s) + Len(t)) : (s \o t)[i] = IF i <= Len(s) THEN s[i] ELSE t[i - Len(s)]
  BY <1>2, <1>3, ConcatProperties
<1>5. ASSUME NEW i \in 1..w PROVE (s \o t)[i] = u[i]
  <2>1. i \in 1..(Len(s) + Len(t))
    BY <1>2, <1>3
  <2>2. CASE i <= h
    <3>1. i \in 1..h /\ (s \o t)[i] = s[i]
      BY <1>2, <1>4, <2>1, <2>2
    <3> QED
      BY <1>2, <3>1
  <2>3. CASE ~(i <= h)
    <3>1. PICK j \in 1..h : j = i - h
      BY <2>3
    <3>2. (s \o t)[i] = t[j] /\ (a + h) + j - 1 = a + i - 1
      BY <1>2, <1>4, <2>1, <2>3, <3>1
    <3> QED
      BY <1>2, <1>3, <3>1, <3>2
  <2> QED
    BY <2>2, <2>3
<1>6. Len(s \o t) = Len(u)
  BY <1>2, <1>3, <1>4
<1>7. s \o t = u
  BY <1>2, <1>4, <1>5, <1>6, SeqEqual
<1> QED
  BY <1>7 DEF s, t, u

\* A load straight from the RAM finds what a byte at a time would.
LEMMA RunIs ==
  ASSUME NEW ram \in Rams, NEW m \in Mems(ram), NEW a \in Nat, NEW w \in Nat \ {0},
         M!Direct(m, a, w), Inside(m, a, w), OffScreen(a, w)
  PROVE  M!Run(m, a, w) = M!Bytes(m, a, w)
<1> DEFINE s == M!Slot(m, a)
<1>1. m.ram = ram
  BY DEF Mems
<1>2. \A i \in 0..(w - 1) : M!Slot(m, a + i) = s + i /\ s + i \in 0..(ram - 1)
  BY <1>1, DirectRun
<1>3. s \in Int
  <2>1. s \in 0..(ram - 1)
    BY <1>1, SlotFacts DEF M!Direct
  <2> QED
    BY <2>1 DEF Rams
<1> HIDE DEF s
<1>4. ASSUME NEW i \in 1..w PROVE m.data[s + i - 1] = M!Read1(m, a + i - 1)
  <2>1. PICK j \in 0..(w - 1) : j = i - 1
    OBVIOUS
  <2>2. a + i - 1 = a + j /\ s + i - 1 = s + j
    BY <1>3, <2>1
  <2>3. ~M!InWindow(a + j)
    BY MemoryAssumption DEF M!InWindow, OffScreen
  <2>4. M!Slot(m, a + j) = s + j /\ s + j # M!None
    <3>1. M!Slot(m, a + j) = s + j /\ s + j \in 0..(ram - 1)
      BY <1>2
    <3> QED
      BY <3>1 DEF M!None, Rams
  <2>5. M!Read1(m, a + j) = m.data[s + j]
    BY <2>3, <2>4 DEF M!Read1
  <2> QED
    BY <2>2, <2>5
<1>5. M!Run(m, a, w) = [i \in 1..w |-> m.data[s + i - 1]]
  BY DEF M!Run, s
<1>6. M!Bytes(m, a, w) = [i \in 1..w |-> M!Read1(m, a + i - 1)]
  BY DEF M!Bytes
<1> QED
  BY <1>4, <1>5, <1>6

\* A regular load of each width finds what a byte at a time would (read_u16 to read_u128).
LEMMA WordLoad ==
  ASSUME NEW ram \in Rams, NEW m \in Mems(ram), NEW a \in Nat, NEW w \in {2}, Regular(m, a, w)
  PROVE  M!Read2(m, a) = M!Bytes(m, a, w)
<1>1. w = 2 /\ w \in {2, 4, 8, 16} /\ w \in Nat \ {0}
  OBVIOUS
<1>2. CASE M!InWindow(a) /\ M!InWindow(a + 1) /\ M!CellOf(a) = a
  <2>1. M!Read2(m, a) = <<m.text[a], m.text[a + 1]>>
    BY <1>2 DEF M!Read2
  <2>2. M!Read1(m, a) = m.text[a] /\ M!Read1(m, a + 1) = m.text[a + 1]
    BY <1>2 DEF M!Read1
  <2>3. M!Bytes(m, a, w) = [i \in 1..2 |-> M!Read1(m, a + i - 1)]
    BY <1>1 DEF M!Bytes
  <2>4. <<m.text[a], m.text[a + 1]>> = [i \in 1..2 |-> M!Read1(m, a + i - 1)]
    <3>1. a + 1 - 1 = a /\ a + 2 - 1 = a + 1
      OBVIOUS
    <3> QED
      BY <2>2, <3>1
  <2> QED
    BY <2>1, <2>3, <2>4
<1>3. CASE ~M!InWindow(a) /\ OffScreen(a, w) /\ Inside(m, a, w)
  <2>1. CASE M!Direct(m, a, w)
    <3>1. M!Read2(m, a) = M!Run(m, a, w)
      BY <1>1, <1>3, <2>1 DEF M!Read2
    <3>2. M!Run(m, a, w) = M!Bytes(m, a, w)
      BY <1>1, <1>3, <2>1, RunIs, Zenon
    <3> QED
      BY <3>1, <3>2
  <2>2. CASE ~M!Direct(m, a, w)
    BY <1>1, <1>3, <2>2 DEF M!Read2
  <2> QED
    BY <2>1, <2>2
<1> QED
  BY <1>1, <1>2, <1>3, RegularIs

LEMMA DwordLoad ==
  ASSUME NEW ram \in Rams, NEW m \in Mems(ram), NEW a \in Nat, NEW w \in {4}, Regular(m, a, w)
  PROVE  M!Read4(m, a) = M!Bytes(m, a, w)
<1>1. w = 4 /\ w \in {2, 4, 8, 16} /\ w \in Nat \ {0}
  OBVIOUS
<1>2. M!Read2(m, a) \o M!Read2(m, a + 2) = M!Bytes(m, a, w)
  <2>1. PICK h \in {2} : h \in {2, 4, 8} /\ h \in Nat /\ w = h + h /\ h = 2
    BY <1>1
  <2>2. m.ram \in Rams /\ m.ram = m.ram /\ a + h \in Nat
    BY <2>1 DEF Mems
  <2>3. Regular(m, a, h) /\ Regular(m, a + h, h)
    BY <2>1, <2>2, HalvesRegular
  <2>4. M!Read2(m, a) = M!Bytes(m, a, h)
    BY <2>3, WordLoad, Zenon
  <2>5. M!Read2(m, a + h) = M!Bytes(m, a + h, h)
    BY <2>2, <2>3, WordLoad, Zenon
  <2>6. M!Bytes(m, a, h) \o M!Bytes(m, a + h, h) = M!Bytes(m, a, w)
    <3>1. h \in Nat /\ w \in Nat /\ w = h + h
      BY <1>1, <2>1
    <3> QED
      BY <3>1, BytesInHalves, ZenonT(60)
  <2>7. M!Read2(m, a + 2) = M!Read2(m, a + h)
    BY <2>1
  <2> QED
    BY <2>4, <2>5, <2>6, <2>7
<1>3. CASE M!InWindow(a + 3)
  BY <1>2, <1>3 DEF M!Read4
<1>4. CASE ~M!InWindow(a + 3) /\ OffScreen(a, w) /\ Inside(m, a, w)
  <2>1. CASE M!Direct(m, a, w)
    <3>1. M!Read4(m, a) = M!Run(m, a, w)
      BY <1>1, <1>4, <2>1 DEF M!Read4
    <3>2. M!Run(m, a, w) = M!Bytes(m, a, w)
      BY <1>1, <1>4, <2>1, RunIs, Zenon
    <3> QED
      BY <3>1, <3>2
  <2>2. CASE ~M!Direct(m, a, w)
    BY <1>1, <1>4, <2>2 DEF M!Read4
  <2> QED
    BY <2>1, <2>2
<1>5. a + w - 1 = a + 3
  BY <1>1
<1> QED
  BY <1>1, <1>3, <1>4, <1>5, RegularIs

LEMMA QwordLoad ==
  ASSUME NEW ram \in Rams, NEW m \in Mems(ram), NEW a \in Nat, NEW w \in {8}, Regular(m, a, w)
  PROVE  M!Read8(m, a) = M!Bytes(m, a, w)
<1>1. w = 8 /\ w \in {2, 4, 8, 16} /\ w \in Nat \ {0}
  OBVIOUS
<1>2. M!Read4(m, a) \o M!Read4(m, a + 4) = M!Bytes(m, a, w)
  <2>1. PICK h \in {4} : h \in {2, 4, 8} /\ h \in Nat /\ w = h + h /\ h = 4
    BY <1>1
  <2>2. m.ram \in Rams /\ m.ram = m.ram /\ a + h \in Nat
    BY <2>1 DEF Mems
  <2>3. Regular(m, a, h) /\ Regular(m, a + h, h)
    BY <2>1, <2>2, HalvesRegular
  <2>4. M!Read4(m, a) = M!Bytes(m, a, h)
    BY <2>3, DwordLoad, Zenon
  <2>5. M!Read4(m, a + h) = M!Bytes(m, a + h, h)
    BY <2>2, <2>3, DwordLoad, Zenon
  <2>6. M!Bytes(m, a, h) \o M!Bytes(m, a + h, h) = M!Bytes(m, a, w)
    <3>1. h \in Nat /\ w \in Nat /\ w = h + h
      BY <1>1, <2>1
    <3> QED
      BY <3>1, BytesInHalves, ZenonT(60)
  <2>7. M!Read4(m, a + 4) = M!Read4(m, a + h)
    BY <2>1
  <2> QED
    BY <2>4, <2>5, <2>6, <2>7
<1>3. CASE a + 7 >= Window /\ a < WindowEnd
  BY <1>2, <1>3 DEF M!Read8
<1>4. CASE ~(a + 7 >= Window /\ a < WindowEnd) /\ OffScreen(a, w) /\ Inside(m, a, w)
  <2>1. CASE M!Direct(m, a, w)
    <3>1. M!Read8(m, a) = M!Run(m, a, w)
      BY <1>1, <1>4, <2>1 DEF M!Read8
    <3>2. M!Run(m, a, w) = M!Bytes(m, a, w)
      BY <1>1, <1>4, <2>1, RunIs, Zenon
    <3> QED
      BY <3>1, <3>2
  <2>2. CASE ~M!Direct(m, a, w)
    BY <1>1, <1>2, <1>4, <2>2 DEF M!Read8
  <2> QED
    BY <2>1, <2>2
<1>5. a + w - 1 = a + 7
  BY <1>1
<1> QED
  BY <1>1, <1>3, <1>4, <1>5, RegularIs

LEMMA OwordLoad ==
  ASSUME NEW ram \in Rams, NEW m \in Mems(ram), NEW a \in Nat, NEW w \in {16}, Regular(m, a, w)
  PROVE  M!Read16(m, a) = M!Bytes(m, a, w)
<1>1. w = 16 /\ w \in {2, 4, 8, 16} /\ w \in Nat \ {0}
  OBVIOUS
<1>2. M!Read8(m, a) \o M!Read8(m, a + 8) = M!Bytes(m, a, w)
  <2>1. PICK h \in {8} : h \in {2, 4, 8} /\ h \in Nat /\ w = h + h /\ h = 8
    BY <1>1
  <2>2. m.ram \in Rams /\ m.ram = m.ram /\ a + h \in Nat
    BY <2>1 DEF Mems
  <2>3. Regular(m, a, h) /\ Regular(m, a + h, h)
    BY <2>1, <2>2, HalvesRegular
  <2>4. M!Read8(m, a) = M!Bytes(m, a, h)
    BY <2>3, QwordLoad, Zenon
  <2>5. M!Read8(m, a + h) = M!Bytes(m, a + h, h)
    BY <2>2, <2>3, QwordLoad, Zenon
  <2>6. M!Bytes(m, a, h) \o M!Bytes(m, a + h, h) = M!Bytes(m, a, w)
    <3>1. h \in Nat /\ w \in Nat /\ w = h + h
      BY <1>1, <2>1
    <3> QED
      BY <3>1, BytesInHalves, ZenonT(60)
  <2>7. M!Read8(m, a + 8) = M!Read8(m, a + h)
    BY <2>1
  <2> QED
    BY <2>4, <2>5, <2>6, <2>7
<1>3. CASE ~M!Direct(m, a, w)
  BY <1>1, <1>2, <1>3 DEF M!Read16
<1>4. CASE M!Direct(m, a, w) /\ OffScreen(a, w) /\ Inside(m, a, w)
  <2>1. M!Read16(m, a) = M!Run(m, a, w)
    BY <1>1, <1>4 DEF M!Read16
  <2>2. M!Run(m, a, w) = M!Bytes(m, a, w)
    BY <1>1, <1>4, RunIs, Zenon
  <2> QED
    BY <2>1, <2>2
<1> QED
  BY <1>1, <1>3, <1>4, RegularIs

LEMMA ReadIs ==
  ASSUME NEW ram \in Rams, NEW m \in Mems(ram), NEW a \in Nat, NEW w \in M!Widths, Regular(m, a, w)
  PROVE  M!Read(m, a, w) = M!Bytes(m, a, w)
<1>1. CASE w = 1
  <2>1. M!Read(m, a, w) = <<M!Read1(m, a)>>
    BY <1>1 DEF M!Read
  <2>2. M!Bytes(m, a, w) = [i \in 1..1 |-> M!Read1(m, a + i - 1)]
    BY <1>1 DEF M!Bytes
  <2>3. a + 1 - 1 = a
    OBVIOUS
  <2> QED
    BY <2>1, <2>2, <2>3
<1>2. CASE w = 2
  <2>1. M!Read(m, a, w) = M!Read2(m, a) /\ w \in {2}
    BY <1>2 DEF M!Read
  <2> QED
    BY <2>1, WordLoad
<1>3. CASE w = 4
  <2>1. M!Read(m, a, w) = M!Read4(m, a) /\ w \in {4}
    BY <1>3 DEF M!Read
  <2> QED
    BY <2>1, DwordLoad
<1>4. CASE w = 8
  <2>1. M!Read(m, a, w) = M!Read8(m, a) /\ w \in {8}
    BY <1>4 DEF M!Read
  <2> QED
    BY <2>1, QwordLoad
<1>5. CASE w = 16
  <2>1. M!Read(m, a, w) = M!Read16(m, a) /\ w \in {16}
    BY <1>5 DEF M!Read
  <2> QED
    BY <2>1, OwordLoad
<1> QED
  BY <1>1, <1>2, <1>3, <1>4, <1>5 DEF M!Widths

(* the byte at an address, given those stored; the memory that answers with it *)
ByteAt(mem, stored, x) ==
  IF x \in DOMAIN stored /\ Answers(mem, x) THEN stored[x] ELSE M!Read1(New(0, mem.ram).mem, x)
FlatAt(mem, stored) ==
  /\ mem.ram \in Rams /\ mem \in Mems(mem.ram)
  /\ \A x \in Nat : M!Read1(mem, x) = ByteAt(mem, stored, x)
FlatInv == subject = "mem" /\ hist.regular => FlatAt(board.mem, hist.stored)

LEMMA FlatInit == Init => FlatInv
<1> SUFFICES ASSUME Init PROVE FlatInv
  OBVIOUS
<1>1. PICK epoch \in Epochs, size \in Sizes : board = New(epoch, size) /\ hist = Fresh
  BY DEF Init
<1> DEFINE mem == [M!New(size) EXCEPT !.data = [s \in DOMAIN @ |-> s]]
<1>2. hist.stored = <<>>
  BY <1>1 DEF Fresh
<1>3. board.mem = mem /\ New(0, size).mem = mem
  BY <1>1 DEF New
<1>4. size \in Rams /\ size \in Nat
  BY SizeAssumption DEF Rams
<1>5. mem \in Mems(size) /\ mem.ram = size
  <2>1. M!New(size) = [ram |-> size, data |-> [s \in 0..(size - 1) |-> Zero],
                       text |-> [a \in Window..(WindowEnd - 1) |-> Zero]]
    BY DEF M!New
  <2>2. mem = [ram |-> size, data |-> [s \in 0..(size - 1) |-> s], text |-> [a \in Window..(WindowEnd - 1) |-> Zero]]
    <3> DEFINE from == M!New(size)  R == 0..(size - 1)  at == [s \in R |-> s]
               text == [a \in Window..(WindowEnd - 1) |-> Zero]
    <3>1. DOMAIN from.data = R
      BY <2>1
    <3>2. mem = [from EXCEPT !.data = [s \in DOMAIN from.data |-> s]]
      OBVIOUS
    <3>3. mem = [from EXCEPT !.data = at]
      BY <3>1, <3>2
    <3>4. from = [ram |-> size, data |-> [s \in R |-> Zero], text |-> text]
      BY <2>1
    <3> HIDE DEF from, at, text, mem
    <3>5. mem = [ram |-> size, data |-> at, text |-> text]
      BY <3>3, <3>4
    <3> QED
      BY <3>5 DEF at, text
  <2>3. \A s \in 0..(size - 1) : s \in Contents
    BY DEF Contents
  <2>4. Zero \in Contents
    BY DEF Contents
  <2> QED
    BY <2>2, <2>3, <2>4 DEF Mems
<1> HIDE DEF mem
<1>6. DOMAIN <<>> = {}
  OBVIOUS
<1>7. \A x \in Nat : ByteAt(mem, <<>>, x) = M!Read1(New(0, mem.ram).mem, x)
  BY <1>6, Zenon DEF ByteAt
<1> QED
  BY <1>2, <1>3, <1>4, <1>5, <1>7 DEF FlatInv, FlatAt

\* A regular store leaves the memory flat.
LEMMA FlatStore ==
  ASSUME hist \in Histories, NEW a \in Addresses, NEW w \in M!Widths, FlatAt(board.mem, hist.stored),
         Regular(board.mem, a, w)
  PROVE  FlatAt(M!Write(board.mem, a, Bytes(w)), After(a, w))
<1> DEFINE v == Bytes(w)  m == board.mem  n == M!Write(m, a, v)  new == After(a, w)  old == hist.stored
<1>1. a \in Nat /\ w \in Nat \ {0} /\ hist.steps \in Nat
  BY SizeAssumption DEF M!Widths, Histories
<1>2. v \in Seq(Int) /\ Len(v) = w
  BY <1>1 DEF Bytes
<1>3. m.ram \in Rams /\ m \in Mems(m.ram) /\ \A x \in Nat : M!Read1(m, x) = ByteAt(m, old, x)
  BY DEF FlatAt
<1>4. Holds(m, n, a, v, 1, w)
  <2> HIDE DEF v, m
  <2> QED
    BY <1>1, <1>2, <1>3, WriteHolds DEF m
<1>5. /\ DOMAIN new = (a..(a + w - 1)) \cup DOMAIN old
      /\ \A x \in a..(a + w - 1) : new[x] = v[x - a + 1]
      /\ \A x \in DOMAIN old : x \notin a..(a + w - 1) => new[x] = old[x]
  BY AfterType
<1> HIDE DEF v, m, n, new, old
<1>6. n \in Mems(m.ram) /\ n.ram = m.ram
  BY <1>4 DEF Holds, Mems
<1>7. ASSUME NEW x \in Nat PROVE M!Read1(n, x) = ByteAt(n, new, x)
  <2>1. M!Read1(n, x) = IF x \in a..(a + w - 1) /\ Answers(m, x) THEN v[x - a + 1] ELSE M!Read1(m, x)
    <3>1. M!Read1(n, x) = IF x \in (a + 1 - 1)..(a + w - 1) /\ Answers(m, x) THEN v[x - a + 1] ELSE M!Read1(m, x)
      BY <1>4, Zenon DEF Holds
    <3>2. a + 1 - 1 = a
      BY <1>1
    <3> QED
      BY <3>1, <3>2
  <2>2. Answers(n, x) <=> Answers(m, x)
    BY <1>6, SlotOfRam
  <2> DEFINE before == M!Read1(New(0, m.ram).mem, x)
  <2>3. /\ ByteAt(m, old, x) = IF x \in DOMAIN old /\ Answers(m, x) THEN old[x] ELSE before
        /\ ByteAt(n, new, x) = IF x \in DOMAIN new /\ Answers(m, x) THEN new[x] ELSE before
    BY <1>6, <2>2 DEF ByteAt
  <2>4. M!Read1(m, x) = ByteAt(m, old, x)
    BY <1>3
  <2> HIDE DEF before
  <2>5. CASE x \in a..(a + w - 1)
    BY <1>5, <2>1, <2>3, <2>4, <2>5, Zenon
  <2>6. CASE x \notin a..(a + w - 1)
    BY <1>5, <2>1, <2>3, <2>4, <2>6, Zenon
  <2> QED
    BY <2>5, <2>6
<1>8. FlatAt(n, new)
  BY <1>3, <1>6, <1>7 DEF FlatAt
<1> QED
  BY <1>8 DEF n, new, m, v

LEMMA FlatNext ==
  ASSUME Shape, FlatInv, [Next]_vars
  PROVE  FlatInv'
<1>1. CASE subject' = subject /\ subject # "mem"
  BY <1>1 DEF FlatInv
<1>2. CASE /\ board' \in Boards(board.mem) /\ subject' = subject
           /\ hist'.stored = hist.stored /\ hist'.regular = hist.regular
  <2>1. board'.mem = board.mem
    BY <1>2 DEF Boards
  <2> QED
    BY <1>2, <2>1 DEF FlatInv
<1>3. CASE GuestOut
  <2>1. subject' = subject
    BY <1>3 DEF GuestOut, Step
  <2>2. PICK p \in Port, v \in Word : OutRecorded(p, v)
    BY <1>3, OutStep
  <2>3. Apart(hist, hist') /\ OutDone(board.mem, Quiet, board', p, v[1], Len(v))
    BY <2>2, Zenon DEF OutRecorded
  <2>4. board' \in Boards(board.mem)
    BY <2>3, Zenon DEF OutDone
  <2> QED
    BY <1>2, <2>1, <2>3, <2>4 DEF Apart
<1>4. CASE GuestIn
  <2>1. subject' = subject
    BY <1>4 DEF GuestIn, Step
  <2> QED
    BY <1>2, <1>4, <2>1, InStep DEF InRecorded, Apart
<1>5. CASE Flush \/ DiskService
  BY <1>2, <1>5, DiskStep DEF Alike, Apart
<1>6. CASE ChannelByte \/ RunTransfer
  BY <1>1, <1>6, DmaStep
<1>7. CASE TickSecond
  BY <1>2, <1>7, ClockStep DEF Alike, Apart
<1>8. CASE SetMode \/ SetCursor \/ WriteString \/ Teletype
  <2>1. subject = "vga"
    BY <1>8 DEF SetMode, SetCursor, WriteString, Teletype
  <2> QED
    BY <1>1, <1>8, <2>1, ScreenStep
<1>9. CASE AskMap
  <2>1. subject = "map" /\ subject' = subject
    BY <1>9, MemoryStep DEF AskMap
  <2> QED
    BY <1>1, <2>1
<1>10. CASE Store
  <2>1. PICK a \in Addresses, w \in M!Widths : StoresAt(a, w)
    BY <1>10, StoreTaken
  <2> DEFINE stored == After(a, w)  mem == M!Write(board.mem, a, Bytes(w))
             regular == hist.regular /\ Regular(board.mem, a, w)
  <2>2. hist \in Histories /\ Quiet \in Boards(board.mem)
    BY QuietShape DEF Shape
  <2>3. /\ subject = "mem" /\ subject' = subject
        /\ hist' = [[hist EXCEPT !.stored = stored, !.regular = regular] EXCEPT !.steps = @ + 1]
        /\ board' = [Quiet EXCEPT !.mem = mem]
    BY <2>1 DEF StoresAt
  <2> HIDE DEF stored, mem, regular
  <2>4. hist'.stored = stored /\ hist'.regular = regular /\ board'.mem = mem
    BY <2>2, <2>3 DEF Histories, Boards
  <2>5. ASSUME hist'.regular PROVE FlatAt(board'.mem, hist'.stored)
    <3>1. hist.regular /\ Regular(board.mem, a, w)
      BY <2>4, <2>5 DEF regular
    <3>2. FlatAt(board.mem, hist.stored)
      BY <2>3, <3>1 DEF FlatInv
    <3>3. FlatAt(mem, stored)
      BY <2>2, <3>1, <3>2, FlatStore DEF mem, stored
    <3> QED
      BY <2>4, <3>3
  <2> QED
    BY <2>5 DEF FlatInv
<1>11. CASE UNCHANGED vars
  BY <1>11 DEF vars, FlatInv
<1> QED
  BY <1>3, <1>4, <1>5, <1>6, <1>7, <1>8, <1>9, <1>10, <1>11 DEF Next

\* After any regular stores, a regular load of any width gives at each address the byte
\* stored there last, what the memory started with where nothing was stored, and an
\* open bus where nothing answers (read_u8 to write_u128).
THEOREM MemoryAlwaysFlat == Spec => []MemoryIsFlat
<1>1. Spec => []FlatInv
  BY ShapeInit, ShapeNext, FlatInit, FlatNext, PTL DEF Spec
<1>2. FlatInv => MemoryIsFlat
  <2> SUFFICES ASSUME FlatInv, subject = "mem", hist.regular, NEW a \in Addresses, NEW w \in M!Widths,
                      Regular(board.mem, a, w)
               PROVE  M!Read(board.mem, a, w) = [i \in 1..w |-> Flat(a + i - 1)]
    BY DEF MemoryIsFlat
  <2>1. FlatAt(board.mem, hist.stored) /\ a \in Nat /\ w \in Nat
    BY SizeAssumption DEF FlatInv, M!Widths
  <2>2. M!Read(board.mem, a, w) = M!Bytes(board.mem, a, w)
    BY <2>1, ReadIs DEF FlatAt
  <2>3. ASSUME NEW x \in Nat PROVE M!Read1(board.mem, x) = Flat(x)
    <3>1. M!Read1(board.mem, x) = ByteAt(board.mem, hist.stored, x)
      BY <2>1 DEF FlatAt
    <3>2. ByteAt(board.mem, hist.stored, x) = Flat(x)
      BY Zenon DEF ByteAt, Flat, Before, Answers
    <3> QED
      BY <3>1, <3>2
  <2>4. \A i \in 1..w : M!Read1(board.mem, a + i - 1) = Flat(a + i - 1)
    <3>1. \A i \in 1..w : a + i - 1 \in Nat
      BY <2>1
    <3> QED
      BY <2>3, <3>1
  <2>5. M!Bytes(board.mem, a, w) = [i \in 1..w |-> M!Read1(board.mem, a + i - 1)]
    BY Zenon DEF M!Bytes
  <2> QED
    BY <2>2, <2>4, <2>5
<1> QED
  BY <1>1, <1>2, PTL

-----------------------------------------------------------------------------
(* The calendar                                                              *)

\* The reckoning of the code begins a year in March: the months of such a year, the
\* date of its day d, and its last day, which is a leap day if the civil year in
\* which it ends has one (cmos.rs, civil_from_days).
MonthStart(i) == (153 * i + 2) \div 5
MonthOf(i) == IF i < 10 THEN i + 3 ELSE i - 9
DateOf(y, d) ==
  LET i == (5 * d + 2) \div 153
  IN  [year |-> IF MonthOf(i) <= 2 THEN y + 1 ELSE y, month |-> MonthOf(i), day |-> d - MonthStart(i) + 1]
YearEnd(y) == IF Leap(y + 1) THEN 365 ELSE 364

\* The first days of the twelve months.
LEMMA MonthStarts ==
  /\ MonthStart(0) = 0 /\ MonthStart(1) = 31 /\ MonthStart(2) = 61 /\ MonthStart(3) = 92
  /\ MonthStart(4) = 122 /\ MonthStart(5) = 153 /\ MonthStart(6) = 184 /\ MonthStart(7) = 214
  /\ MonthStart(8) = 245 /\ MonthStart(9) = 275 /\ MonthStart(10) = 306 /\ MonthStart(11) = 337
  BY DEF MonthStart

\* The division of the code finds the month a day falls in,
LEMMA MonthFound ==
  ASSUME NEW d \in Int, 0 <= d, d <= 365
  PROVE  LET i == (5 * d + 2) \div 153
         IN  i \in 0..11 /\ MonthStart(i) <= d /\ d < MonthStart(i + 1)
<1>1. PICK i \in Int : i = (5 * d + 2) \div 153 /\ 153 * i <= 5 * d + 2 /\ 5 * d + 2 <= 153 * i + 152
  OBVIOUS
<1>2. 0 <= i /\ i <= 11
  BY <1>1
<1>3. PICK f \in Int : f = MonthStart(i) /\ 5 * f <= 153 * i + 2 /\ 153 * i + 2 <= 5 * f + 4
  BY DEF MonthStart
<1>4. PICK g \in Int : g = MonthStart(i + 1) /\ 5 * g <= 153 * i + 155 /\ 153 * i + 155 <= 5 * g + 4
  BY DEF MonthStart
<1>5. f <= d /\ d < g
  BY <1>1, <1>3, <1>4
<1>6. i \in 0..11
  BY <1>2
<1> QED
  BY <1>1, <1>3, <1>4, <1>5, <1>6

\* and no other month.
LEMMA MonthIs ==
  ASSUME NEW i \in Int, NEW d \in Int, MonthStart(i) <= d, d < MonthStart(i + 1)
  PROVE  (5 * d + 2) \div 153 = i
<1>3. PICK f \in Int : f = MonthStart(i) /\ 5 * f <= 153 * i + 2 /\ 153 * i + 2 <= 5 * f + 4
  BY DEF MonthStart
<1>4. PICK g \in Int : g = MonthStart(i + 1) /\ 5 * g <= 153 * i + 155 /\ 153 * i + 155 <= 5 * g + 4
  BY DEF MonthStart
<1>5. 153 * i <= 5 * d + 2 /\ 5 * d + 2 <= 153 * i + 152
  BY <1>3, <1>4
<1> QED
  BY <1>5

\* The months that begin and end within the year have the lengths of the calendar.
LEMMA MonthLengths ==
  ASSUME NEW i \in 0..10, NEW y \in Int
  PROVE  MonthStart(i + 1) - MonthStart(i) = MonthDays(MonthOf(i), y)
<1>1. MonthOf(i) # 2 /\ MonthOf(i) \in Int /\ (MonthOf(i) \in {4, 6, 9, 11} <=> i \in {1, 3, 6, 8})
  BY DEF MonthOf
<1>2. MonthDays(MonthOf(i), y) = IF i \in {1, 3, 6, 8} THEN 30 ELSE 31
  BY <1>1 DEF MonthDays
<1>3. MonthStart(i + 1) - MonthStart(i) = IF i \in {1, 3, 6, 8} THEN 30 ELSE 31
  <2>1. CASE i = 0 \/ i = 1 \/ i = 2 \/ i = 3
    BY <2>1, MonthStarts
  <2>2. CASE i = 4 \/ i = 5 \/ i = 6 \/ i = 7
    BY <2>2, MonthStarts
  <2>3. CASE i = 8 \/ i = 9 \/ i = 10
    BY <2>3, MonthStarts
  <2> QED
    BY <2>1, <2>2, <2>3
<1> QED
  BY <1>2, <1>3

\* The date after the date of a day is that of the next day, or that of the first day
\* of the next year.
LEMMA DayAfter ==
  ASSUME NEW y \in Int, NEW d \in Int, 0 <= d, d <= YearEnd(y)
  PROVE  NextDay(DateOf(y, d)) = IF d < YearEnd(y) THEN DateOf(y, d + 1) ELSE DateOf(y + 1, 0)
<1>0. 0 <= d /\ d <= 365 /\ d + 1 \in Int /\ YearEnd(y) \in {364, 365} /\ (YearEnd(y) = 365 <=> Leap(y + 1))
  BY DEF YearEnd
<1>1. PICK i \in 0..11 : i = (5 * d + 2) \div 153 /\ MonthStart(i) <= d /\ d < MonthStart(i + 1)
  BY <1>0, MonthFound
<1>2. PICK m \in 1..12 : m = MonthOf(i)
  BY DEF MonthOf
<1>3. PICK x \in Int : x = IF m <= 2 THEN y + 1 ELSE y
  OBVIOUS
<1>4. PICK s \in Int : s = MonthStart(i)
  BY DEF MonthStart
<1>5. PICK e \in Int : e = MonthStart(i + 1)
  BY DEF MonthStart
<1>6. PICK t : t = DateOf(y, d)
  OBVIOUS
<1>7. t = [year |-> x, month |-> m, day |-> d - s + 1]
  BY <1>1, <1>2, <1>3, <1>4, <1>6 DEF DateOf
<1>8. t.year = x /\ t.month = m /\ t.day = d - s + 1
  BY <1>7
<1>9. CASE i < 11
  <2>1. i \in 0..10
    BY <1>9
  <2>2. MonthDays(m, x) = e - s
    BY <1>2, <1>4, <1>5, <2>1, MonthLengths
  <2>3. d < YearEnd(y)
    <3>1. i + 1 \in 1..11 /\ MonthStart(i + 1) <= 337
      BY <2>1, MonthStarts
    <3> QED
      BY <1>0, <1>1, <3>1
  <2>4. CASE d + 1 < e
    <3>1. MonthStart(i) <= d + 1 /\ d + 1 < MonthStart(i + 1)
      BY <1>1, <1>4, <1>5, <2>4
    <3>2. (5 * (d + 1) + 2) \div 153 = i
      BY <1>0, <3>1, MonthIs
    <3>3. DateOf(y, d + 1) = [year |-> x, month |-> m, day |-> d - s + 2]
      BY <1>2, <1>3, <1>4, <3>2 DEF DateOf
    <3>4. NextDay(t) = [t EXCEPT !.day = @ + 1]
      BY <1>8, <2>2, <2>4 DEF NextDay
    <3>5. [t EXCEPT !.day = @ + 1] = [year |-> x, month |-> m, day |-> d - s + 2]
      BY <1>7
    <3> QED
      BY <1>6, <2>3, <3>3, <3>4, <3>5
  <2>5. CASE d + 1 = e
    <3>1. i + 1 \in Int /\ i + 1 \in 0..11
      BY <2>1
    <3>2. MonthStart(i + 1) <= d + 1 /\ d + 1 < MonthStart((i + 1) + 1)
      <4>1. d + 1 = MonthStart(i + 1)
        BY <1>5, <2>5
      <4>2. MonthStart(i + 1) < MonthStart((i + 1) + 1)
        <5>1. PICK j \in Int : j = i + 1
          BY <3>1
        <5>2. MonthStart(j) < MonthStart(j + 1)
          BY DEF MonthStart
        <5> QED
          BY <5>1, <5>2
      <4> QED
        BY <1>0, <4>1, <4>2
    <3>3. (5 * (d + 1) + 2) \div 153 = i + 1
      BY <1>0, <3>1, <3>2, MonthIs
    <3>4. DateOf(y, d + 1) = [year |-> IF MonthOf(i + 1) <= 2 THEN y + 1 ELSE y, month |-> MonthOf(i + 1), day |-> 1]
      <4>1. PICK f \in Int : f = d + 1 /\ (f - MonthStart(i + 1)) + 1 = 1
        BY <1>5, <2>5
      <4>2. (5 * f + 2) \div 153 = i + 1
        BY <3>3, <4>1
      <4> QED
        BY <3>3, <4>1, <4>2 DEF DateOf
    <3>5. t.day = MonthDays(m, x)
      BY <1>8, <2>2, <2>5
    <3>6. CASE m < 12
      <4>1. NextDay(t) = [year |-> x, month |-> m + 1, day |-> 1]
        BY <1>8, <2>2, <3>5, <3>6 DEF NextDay
      <4>2. MonthOf(i + 1) = m + 1 /\ (m + 1 <= 2 <=> m <= 2)
        BY <1>2, <2>1, <3>6 DEF MonthOf
      <4> QED
        BY <1>3, <1>6, <2>3, <3>4, <4>1, <4>2
    <3>7. CASE m = 12
      <4>1. NextDay(t) = [year |-> x + 1, month |-> 1, day |-> 1]
        BY <1>8, <2>2, <3>5, <3>7 DEF NextDay
      <4>2. MonthOf(i + 1) = 1 /\ x = y
        BY <1>2, <1>3, <2>1, <3>7 DEF MonthOf
      <4> QED
        BY <1>6, <2>3, <3>4, <4>1, <4>2
    <3> QED
      BY <3>6, <3>7
  <2> QED
    BY <1>1, <1>5, <2>4, <2>5
<1>10. CASE i = 11
  <2>1. m = 2 /\ x = y + 1 /\ s = 337
    BY <1>2, <1>3, <1>4, <1>10, MonthStarts DEF MonthOf
  <2>2. MonthDays(m, x) = YearEnd(y) - 336
    BY <2>1 DEF MonthDays, YearEnd
  <2>3. e = 367
    BY <1>5, <1>10 DEF MonthStart
  <2>4. CASE d < YearEnd(y)
    <3>1. MonthStart(i) <= d + 1 /\ d + 1 < MonthStart(i + 1)
      BY <1>0, <1>1, <1>4, <1>5, <2>3, <2>4
    <3>2. (5 * (d + 1) + 2) \div 153 = i
      BY <1>0, <3>1, MonthIs
    <3>3. DateOf(y, d + 1) = [year |-> x, month |-> m, day |-> d - s + 2]
      BY <1>2, <1>3, <1>4, <3>2 DEF DateOf
    <3>4. NextDay(t) = [t EXCEPT !.day = @ + 1]
      BY <1>0, <1>8, <2>1, <2>2, <2>4 DEF NextDay
    <3>5. [t EXCEPT !.day = @ + 1] = [year |-> x, month |-> m, day |-> d - s + 2]
      BY <1>7
    <3> QED
      BY <1>6, <2>4, <3>3, <3>4, <3>5
  <2>5. CASE d = YearEnd(y)
    <3>1. NextDay(t) = [year |-> x, month |-> 3, day |-> 1]
      BY <1>0, <1>8, <2>1, <2>2, <2>5 DEF NextDay
    <3>2. DateOf(y + 1, 0) = [year |-> y + 1, month |-> 3, day |-> 1]
      BY MonthStarts DEF DateOf, MonthOf
    <3> QED
      BY <1>0, <1>6, <2>1, <2>5, <3>1, <3>2
  <2> QED
    BY <1>0, <2>4, <2>5
<1> QED
  BY <1>9, <1>10

\* Four hundred years are an era.  A day of an era is reckoned by its century, the
\* four years in the century, the year of the four and the day of the year; the last
\* year of four ends in a leap day, but for the last of a century, which does only if
\* it ends the era.
Reckoned(c, q, k, d) == 36524 * c + 1461 * q + 365 * k + d
LastDay(c, q, k) == IF k = 3 /\ (q < 24 \/ c = 3) THEN 365 ELSE 364
Known(c, q, k, d) == c \in 0..3 /\ q \in 0..24 /\ k \in 0..3 /\ d \in 0..LastDay(c, q, k)
EraYear(c, q, k) == 100 * c + 4 * q + k
WithinEra(x) == x \in Int /\ 0 <= x /\ x <= 146096
DaysOf(z, x) == 146097 * z + x
YearsOf(z, y) == 400 * z + y
DayOfEra(n, z, x) == n + 719468 = DaysOf(z, x)

\* A day of an era has its century, whose rest is a day of the century,
LEMMA Century ==
  ASSUME NEW doe \in Int, 0 <= doe, doe <= 146096
  PROVE  \E c \in 0..3, e \in Int : doe = 36524 * c + e /\ 0 <= e /\ e <= 36524 /\ (c < 3 => e < 36524)
<1>1. PICK b \in Int : 36524 * b <= doe /\ doe <= 36524 * b + 36523
  <2>1. doe \div 36524 \in Int /\ 36524 * (doe \div 36524) <= doe /\ doe <= 36524 * (doe \div 36524) + 36523
    BY SMTT(30)
  <2> QED
    BY <2>1, SMTT(30)
<1>2. 0 <= b /\ b <= 4
  BY <1>1, SMTT(30)
<1>3. CASE b <= 3
  <2>1. b \in 0..3 /\ doe - 36524 * b \in Int
    BY <1>2, <1>3, SMTT(30)
  <2> QED
    BY <1>1, <2>1, SMTT(30)
<1>4. CASE b = 4
  <2>1. 3 \in 0..3 /\ 36524 \in Int /\ doe = 36524 * 3 + 36524
    BY <1>1, <1>4, SMTT(30)
  <2> QED
    BY <2>1, SMTT(30)
<1> QED
  BY <1>2, <1>3, <1>4, SMTT(30)

\* that day its four years,
LEMMA Olympiad ==
  ASSUME NEW e \in Int, 0 <= e, e <= 36524
  PROVE  \E q \in 0..24, f \in Int : e = 1461 * q + f /\ 0 <= f /\ f <= 1460
<1>1. PICK q \in Int : 1461 * q <= e /\ e <= 1461 * q + 1460
  <2>1. e \div 1461 \in Int /\ 1461 * (e \div 1461) <= e /\ e <= 1461 * (e \div 1461) + 1460
    BY SMTT(30)
  <2> QED
    BY <2>1, SMTT(30)
<1>2. 0 <= q /\ q <= 24
  BY <1>1, SMTT(30)
<1>3. q \in 0..24 /\ e - 1461 * q \in Int
  BY <1>2, SMTT(30)
<1> QED
  BY <1>1, <1>3, SMTT(30)

\* and the day is reckoned in this way.
LEMMA Reckoning ==
  ASSUME NEW doe \in Int, WithinEra(doe)
  PROVE  \E c \in 0..3, q \in 0..24, k \in 0..3 : \E d \in 0..LastDay(c, q, k) : doe = Reckoned(c, q, k, d)
<1>1. PICK c \in 0..3, e \in Int : doe = 36524 * c + e /\ 0 <= e /\ e <= 36524 /\ (c < 3 => e < 36524)
  BY Century, SMTT(30) DEF WithinEra
<1>2. PICK q \in 0..24, f \in Int : e = 1461 * q + f /\ 0 <= f /\ f <= 1460
  BY <1>1, Olympiad, SMTT(30)
<1>3. q = 24 /\ c < 3 => f <= 1459
  BY <1>1, <1>2, SMTT(30)
<1>4. PICK k \in 0..3, d \in Int : f = 365 * k + d /\ 0 <= d /\ d <= 365 /\ (k < 3 => d <= 364)
  <2>1. CASE f < 365
    BY <1>2, <2>1, SMTT(30)
  <2>2. CASE 365 <= f /\ f < 730
    <3>1. f = 365 * 1 + (f - 365) /\ 1 \in 0..3 /\ f - 365 \in Int /\ 0 <= f - 365 /\ f - 365 <= 364
      BY <2>2, SMTT(30)
    <3> QED
      BY <3>1, SMTT(30)
  <2>3. CASE 730 <= f /\ f < 1095
    <3>1. f = 365 * 2 + (f - 730) /\ 2 \in 0..3 /\ f - 730 \in Int /\ 0 <= f - 730 /\ f - 730 <= 364
      BY <2>3, SMTT(30)
    <3> QED
      BY <3>1, SMTT(30)
  <2>4. CASE 1095 <= f
    <3>1. f = 365 * 3 + (f - 1095) /\ 3 \in 0..3 /\ f - 1095 \in Int /\ 0 <= f - 1095 /\ f - 1095 <= 365
      BY <1>2, <2>4, SMTT(30)
    <3> QED
      BY <3>1, SMTT(30)
  <2> QED
    BY <2>1, <2>2, <2>3, <2>4, SMTT(30)
<1>5. d = 365 => k = 3 /\ (q < 24 \/ c = 3)
  BY <1>3, <1>4, SMTT(30)
<1>6. d \in 0..LastDay(c, q, k)
  BY <1>4, <1>5, SMTT(30) DEF LastDay
<1>7. doe = Reckoned(c, q, k, d)
  BY <1>1, <1>2, <1>4, SMTT(30) DEF Reckoned
<1> QED
  BY <1>6, <1>7, SMTT(30)

\* The corrections the code divides by: a day in 1460 too many,
LEMMA ByYears ==
  ASSUME NEW doe \in Int, NEW c \in 0..3, NEW r \in Int, 0 <= r, r <= 2560, NEW q \in 0..24,
         doe = 1460 * (25 * c + q) + r
  PROVE  doe \div 1460 = 25 * c + q + (IF r >= 1460 THEN 1 ELSE 0)
<1>1. CASE r < 1460
  BY <1>1, SMTT(30)
<1>2. CASE r >= 1460
  BY <1>2, SMTT(30)
<1> QED
  BY <1>1, <1>2, SMTT(30)

\* and the day that a fourth century has more than the others.
LEMMA ByCenturies ==
  ASSUME NEW doe \in Int, NEW c \in Int, NEW e \in Int, doe = 36524 * c + e, 0 <= e, e <= 36524
  PROVE  doe \div 36524 = c + (IF e = 36524 THEN 1 ELSE 0)
<1>1. CASE e < 36524
  BY <1>1, SMTT(30)
<1>2. CASE e = 36524
  <2>1. PICK g \in Int : g = c + 1 /\ doe = 36524 * g
    BY <1>2, SMTT(30)
  <2>2. doe \div 36524 = g
    <3>1. \A f \in Int : (36524 * f) \div 36524 = f
      BY SMTT(30)
    <3> QED
      BY <2>1, <3>1, SMTT(30)
  <2> QED
    BY <1>2, <2>1, <2>2, SMTT(30)
<1> QED
  BY <1>1, <1>2, SMTT(30)

\* They find the year of the era and the day of the year.
LEMMA YearFound ==
  ASSUME NEW c \in 0..3, NEW q \in 0..24, NEW k \in 0..3, NEW d \in 0..LastDay(c, q, k)
  PROVE  /\ WithinEra(Reckoned(c, q, k, d))
         /\ C!YearOf(Reckoned(c, q, k, d)) = EraYear(c, q, k)
         /\ C!DayOf(Reckoned(c, q, k, d)) = d
<1>1. /\ d \in Int /\ 0 <= d /\ d <= 365 /\ (d = 365 => k = 3 /\ (q < 24 \/ c = 3))
      /\ c \in Int /\ q \in Int /\ k \in Int /\ 0 <= c /\ c <= 3 /\ 0 <= q /\ q <= 24 /\ 0 <= k /\ k <= 3
  BY SMTT(30) DEF LastDay
<1>2. PICK doe \in Int : doe = Reckoned(c, q, k, d) /\ doe = 36524 * c + 1461 * q + 365 * k + d
  BY <1>1, SMTT(30) DEF Reckoned
<1>3. PICK e \in Int : e = 1461 * q + 365 * k + d
  BY <1>1, SMTT(30)
<1>4. PICK r \in Int : r = 24 * c + q + 365 * k + d
  BY <1>1, SMTT(30)
<1>5. 0 <= e /\ e <= 36524 /\ (e = 36524 => c = 3 /\ q = 24 /\ k = 3 /\ d = 365)
  BY <1>1, <1>3, SMTT(30)
<1>6. 0 <= r /\ r <= 1556 /\ (r >= 1460 => d >= 269)
  BY <1>1, <1>4, SMTT(30)
<1>7. PICK x \in {0, 1} : x = IF r >= 1460 THEN 1 ELSE 0
  BY <1>4, SMTT(30)
<1>8. PICK w \in {0, 1} : w = IF e = 36524 THEN 1 ELSE 0
  BY <1>3, SMTT(30)
<1>9. doe \div 1460 = 25 * c + q + x
  <2>1. doe = 1460 * (25 * c + q) + r
    BY <1>1, <1>2, <1>4, SMTT(30)
  <2> QED
    BY <1>4, <1>6, <1>7, <2>1, ByYears, SMTT(30)
<1>10. doe \div 36524 = c + w
  <2>1. doe = 36524 * c + e
    BY <1>1, <1>2, <1>3, SMTT(30)
  <2> QED
    BY <1>1, <1>5, <1>8, <2>1, ByCenturies, SMTT(30)
<1>11. 0 <= doe /\ doe <= 146096 /\ (doe = 146096 <=> w = 1)
  <2>1. doe = 36524 * c + e
    BY <1>1, <1>2, <1>3, SMTT(30)
  <2>2. CASE w = 1
    BY <1>5, <1>8, <2>1, <2>2, SMTT(30)
  <2>3. CASE w = 0
    BY <1>1, <1>3, <1>5, <1>8, <2>1, <2>3, SMTT(30)
  <2> QED
    BY <2>2, <2>3, SMTT(30)
<1>12. doe \div 146096 = w
  <2>1. CASE w = 1
    BY <1>11, <2>1, SMTT(30)
  <2>2. CASE w = 0
    BY <1>11, <2>2, SMTT(30)
  <2> QED
    BY <2>1, <2>2, SMTT(30)
<1>13. PICK y \in Int : y = 100 * c + 4 * q + k
  BY <1>1, SMTT(30)
<1>14. PICK z \in Int : z = d - x /\ 0 <= z /\ z <= 364
  <2>1. d - x \in Int /\ 0 <= d - x
    <3>1. CASE x = 0
      BY <1>1, <3>1, SMTT(30)
    <3>2. CASE x = 1
      BY <1>1, <1>6, <1>7, <3>2, SMTT(30)
    <3> QED
      BY <3>1, <3>2, SMTT(30)
  <2>2. d - x <= 364
    <3>1. d = 365 => r >= 1460
      BY <1>1, <1>4, SMTT(30)
    <3> QED
      BY <1>1, <1>7, <3>1, SMTT(30)
  <2> QED
    BY <2>1, <2>2, SMTT(30)
<1>15. PICK n \in Int : n = doe - (doe \div 1460) + (doe \div 36524) - (doe \div 146096)
  BY <1>2, <1>9, <1>10, <1>12, SMTT(30)
<1>16. C!YearOf(doe) = y
  <2>1. n = 365 * y + z
    BY <1>1, <1>2, <1>9, <1>10, <1>12, <1>13, <1>14, <1>15, SMTT(30)
  <2>2. n \div 365 = y
    BY <1>14, <2>1, SMTT(30)
  <2> QED
    BY <1>15, <2>2, SMTT(30) DEF C!YearOf
<1>17. y \div 4 = 25 * c + q /\ y \div 100 = c
  <2>1. PICK g \in Int : g = 25 * c + q /\ y = 4 * g + k
    BY <1>1, <1>13, SMTT(30)
  <2>2. PICK h \in Int : h = 4 * q + k /\ y = 100 * c + h /\ 0 <= h /\ h <= 99
    BY <1>1, <1>13, SMTT(30)
  <2> QED
    BY <1>1, <2>1, <2>2, SMTT(30)
<1>18. C!DayOf(doe) = d
  <2>1. doe - (365 * y + (25 * c + q) - c) = d
    BY <1>1, <1>2, <1>13, SMTT(30)
  <2> QED
    BY <1>16, <1>17, <2>1, SMTT(30) DEF C!DayOf
<1> QED
  <2>1. C!YearOf(doe) = EraYear(c, q, k)
    BY <1>13, <1>16, SMTT(30) DEF EraYear
  <2>2. WithinEra(doe)
    BY <1>11, SMTT(30) DEF WithinEra
  <2> QED
    BY <1>2, <1>18, <2>1, <2>2, SMTT(30)

\* Every day after the epoch belongs to an era.
LEMMA EraFound ==
  ASSUME NEW n \in Nat
  PROVE  \E z \in Int, x \in Int : DayOfEra(n, z, x) /\ WithinEra(x)
<1>1. PICK s \in Int : s = n + 719468
  BY SMTT(30)
<1>2. PICK z \in Int : 146097 * z <= s /\ s <= 146097 * z + 146096
  <2>1. s \div 146097 \in Int /\ 146097 * (s \div 146097) <= s /\ s <= 146097 * (s \div 146097) + 146096
    BY SMTT(30)
  <2> QED
    BY <2>1, SMTT(30)
<1>3. PICK x \in Int : x = s - 146097 * z
  BY SMTT(30)
<1>4. DayOfEra(n, z, x) /\ WithinEra(x)
  BY <1>1, <1>2, <1>3, SMTT(30) DEF DayOfEra, DaysOf, WithinEra
<1> QED
  BY <1>4, Zenon

\* What civil_from_days answers is the date of the day of the year it found,
LEMMA Dated ==
  ASSUME NEW n \in Nat, NEW z \in Int, NEW x \in Int, DayOfEra(n, z, x), WithinEra(x), C!YearOf(x) \in Int
  PROVE  C!CivilFromDays(n) = DateOf(YearsOf(z, C!YearOf(x)), C!DayOf(x))
<1>1. C!Shifted(n) = 146097 * z + x
  BY SMTT(30) DEF C!Shifted, DayOfEra, DaysOf
<1>2. C!Era(C!Shifted(n)) = z
  <2>1. (146097 * z + x) \div 146097 = z
    BY SMTT(30) DEF WithinEra
  <2> QED
    BY <1>1, <2>1, SMTT(30) DEF C!Era
<1>3. C!InEra(C!Shifted(n)) = x
  BY <1>1, <1>2, SMTT(30) DEF C!InEra
<1>4. C!YearOf(x) + z * 400 = YearsOf(z, C!YearOf(x))
  BY SMTT(30) DEF YearsOf
<1> QED
  BY <1>2, <1>3, <1>4, SMTT(30) DEF C!CivilFromDays, DateOf, MonthOf, MonthStart

\* hence that of the reckoning.
LEMMA Placed ==
  ASSUME NEW n \in Nat, NEW z \in Int, NEW c, NEW q, NEW k, NEW d, Known(c, q, k, d), DayOfEra(n, z, Reckoned(c, q, k, d))
  PROVE  C!CivilFromDays(n) = DateOf(YearsOf(z, EraYear(c, q, k)), d)
<1>1. /\ WithinEra(Reckoned(c, q, k, d)) /\ C!DayOf(Reckoned(c, q, k, d)) = d
      /\ C!YearOf(Reckoned(c, q, k, d)) = EraYear(c, q, k)
  BY YearFound, Zenon DEF Known
<1>2. Reckoned(c, q, k, d) \in Int /\ EraYear(c, q, k) \in Int /\ d \in Int
  BY <1>1, SMTT(30) DEF Known, WithinEra, EraYear, LastDay
<1>3. C!CivilFromDays(n) = DateOf(YearsOf(z, C!YearOf(Reckoned(c, q, k, d))), C!DayOf(Reckoned(c, q, k, d)))
  BY <1>1, <1>2, Dated, Zenon
<1> QED
  BY <1>1, <1>3, Zenon

\* The years that end in a leap day are those of the Gregorian calendar.
LEMMA LeapYears ==
  ASSUME NEW z \in Int, NEW c \in 0..3, NEW q \in 0..24, NEW k \in 0..3
  PROVE  YearEnd(YearsOf(z, EraYear(c, q, k))) = LastDay(c, q, k)
<1>0. c \in Int /\ q \in Int /\ k \in Int /\ 0 <= c /\ c <= 3 /\ 0 <= q /\ q <= 24 /\ 0 <= k /\ k <= 3
  OBVIOUS
<1>1. PICK y \in Int : y = 400 * z + (100 * c + 4 * q + k) + 1 /\ y = YearsOf(z, EraYear(c, q, k)) + 1
  BY <1>0 DEF EraYear, YearsOf
<1>2. CASE k < 3
  <2>1. PICK g \in Int : y = 4 * g + (k + 1)
    <3>1. y = 4 * (100 * z + 25 * c + q) + (k + 1)
      BY <1>0, <1>1
    <3> QED
      BY <1>0, <3>1
  <2>2. y % 4 # 0
    BY <1>0, <1>2, <2>1
  <2> QED
    BY <1>0, <1>1, <1>2, <2>2 DEF YearEnd, Leap, LastDay
<1>3. CASE k = 3
  <2>1. y % 4 = 0
    <3>1. PICK g \in Int : g = 100 * z + 25 * c + q + 1 /\ y = 4 * g
      BY <1>0, <1>1, <1>3
    <3> QED
      BY <3>1
  <2>2. CASE q < 24
    <3>1. PICK g \in Int, r \in Int : g = 4 * z + c /\ r = 4 * q + 4 /\ y = 100 * g + r /\ 0 < r /\ r < 100
      BY <1>0, <1>1, <1>3, <2>2
    <3>2. y % 100 # 0
      BY <3>1
    <3> QED
      BY <1>0, <1>1, <1>3, <2>1, <2>2, <3>2 DEF YearEnd, Leap, LastDay
  <2>3. CASE q = 24
    <3>1. y % 100 = 0
      <4>1. PICK g \in Int : g = 4 * z + c + 1 /\ y = 100 * g
        BY <1>0, <1>1, <1>3, <2>3
      <4> QED
        BY <4>1
    <3>2. y % 400 = 0 <=> c = 3
      <4>1. y = 400 * z + 100 * (c + 1)
        BY <1>0, <1>1, <1>3, <2>3
      <4>2. CASE c = 3
        <5>1. PICK g \in Int : g = z + 1 /\ y = 400 * g
          BY <4>1, <4>2
        <5> QED
          BY <4>2, <5>1
      <4>3. CASE c < 3
        <5>1. PICK r \in Int : r = 100 * (c + 1) /\ 0 < r /\ r < 400
          BY <1>0, <4>3
        <5>2. y % 400 = r
          BY <4>1, <5>1
        <5> QED
          BY <4>3, <5>1, <5>2
      <4> QED
        BY <1>0, <4>2, <4>3
    <3> QED
      BY <1>0, <1>1, <1>3, <2>1, <2>3, <3>1, <3>2 DEF YearEnd, Leap, LastDay
  <2> QED
    BY <1>0, <2>2, <2>3
<1> QED
  BY <1>0, <1>2, <1>3

\* After the last day of a year comes the first of the next, in the same four years,
\* the same century, the same era or the one after it.
LEMMA NewYear ==
  ASSUME NEW z \in Int, NEW c \in 0..3, NEW q \in 0..24, NEW k \in 0..3
  PROVE  \E y \in Int, a \in 0..3, b \in 0..24, j \in 0..3 :
           /\ DaysOf(z, Reckoned(c, q, k, LastDay(c, q, k))) + 1 = DaysOf(y, Reckoned(a, b, j, 0))
           /\ YearsOf(y, EraYear(a, b, j)) = YearsOf(z, EraYear(c, q, k)) + 1
<1>0. c \in Int /\ q \in Int /\ k \in Int /\ 0 <= c /\ c <= 3 /\ 0 <= q /\ q <= 24 /\ 0 <= k /\ k <= 3
  BY SMTT(30)
<1>1. CASE k < 3
  <2>1. z \in Int /\ c \in 0..3 /\ q \in 0..24 /\ k + 1 \in 0..3
    BY <1>1, SMTT(30)
  <2>2. LastDay(c, q, k) = 364
    BY <1>1, SMTT(30) DEF LastDay
  <2>3. Reckoned(c, q, k, LastDay(c, q, k)) + 1 = Reckoned(c, q, k + 1, 0)
    BY <1>0, <2>2, SMTT(30) DEF Reckoned
  <2>4. Reckoned(c, q, k, LastDay(c, q, k)) \in Int
    BY <1>0, <2>2, SMTT(30) DEF Reckoned
  <2>5. /\ DaysOf(z, Reckoned(c, q, k, LastDay(c, q, k))) + 1 = DaysOf(z, Reckoned(c, q, k + 1, 0))
        /\ YearsOf(z, EraYear(c, q, k + 1)) = YearsOf(z, EraYear(c, q, k)) + 1
    BY <1>0, <2>3, <2>4, SMTT(30) DEF EraYear, DaysOf, YearsOf
  <2> QED
    BY <2>1, <2>5, Zenon
<1>2. CASE k = 3 /\ q < 24
  <2>1. z \in Int /\ c \in 0..3 /\ q + 1 \in 0..24 /\ 0 \in 0..3
    BY <1>2, SMTT(30)
  <2>2. LastDay(c, q, k) = 365
    BY <1>2, SMTT(30) DEF LastDay
  <2>3. Reckoned(c, q, k, LastDay(c, q, k)) + 1 = Reckoned(c, q + 1, 0, 0)
    BY <1>0, <1>2, <2>2, SMTT(30) DEF Reckoned
  <2>4. Reckoned(c, q, k, LastDay(c, q, k)) \in Int
    BY <1>0, <2>2, SMTT(30) DEF Reckoned
  <2>5. /\ DaysOf(z, Reckoned(c, q, k, LastDay(c, q, k))) + 1 = DaysOf(z, Reckoned(c, q + 1, 0, 0))
        /\ YearsOf(z, EraYear(c, q + 1, 0)) = YearsOf(z, EraYear(c, q, k)) + 1
    BY <1>0, <1>2, <2>3, <2>4, SMTT(30) DEF EraYear, DaysOf, YearsOf
  <2> QED
    BY <2>1, <2>5, Zenon
<1>3. CASE k = 3 /\ q = 24 /\ c < 3
  <2>1. z \in Int /\ c + 1 \in 0..3 /\ 0 \in 0..24 /\ 0 \in 0..3
    BY <1>3, SMTT(30)
  <2>2. LastDay(c, q, k) = 364
    BY <1>3, SMTT(30) DEF LastDay
  <2>3. Reckoned(c, q, k, LastDay(c, q, k)) + 1 = Reckoned(c + 1, 0, 0, 0)
    BY <1>0, <1>3, <2>2, SMTT(30) DEF Reckoned
  <2>4. Reckoned(c, q, k, LastDay(c, q, k)) \in Int
    BY <1>0, <2>2, SMTT(30) DEF Reckoned
  <2>5. /\ DaysOf(z, Reckoned(c, q, k, LastDay(c, q, k))) + 1 = DaysOf(z, Reckoned(c + 1, 0, 0, 0))
        /\ YearsOf(z, EraYear(c + 1, 0, 0)) = YearsOf(z, EraYear(c, q, k)) + 1
    BY <1>0, <1>3, <2>3, <2>4, SMTT(30) DEF EraYear, DaysOf, YearsOf
  <2> QED
    BY <2>1, <2>5, Zenon
<1>4. CASE k = 3 /\ q = 24 /\ c = 3
  <2>1. z + 1 \in Int /\ 0 \in 0..3 /\ 0 \in 0..24
    BY SMTT(30)
  <2>2. LastDay(c, q, k) = 365
    BY <1>4, SMTT(30) DEF LastDay
  <2>3. Reckoned(c, q, k, LastDay(c, q, k)) + 1 = 146097 /\ Reckoned(0, 0, 0, 0) = 0
    BY <1>0, <1>4, <2>2, SMTT(30) DEF Reckoned
  <2>4. Reckoned(c, q, k, LastDay(c, q, k)) \in Int
    BY <1>0, <2>2, SMTT(30) DEF Reckoned
  <2>5. /\ DaysOf(z, Reckoned(c, q, k, LastDay(c, q, k))) + 1 = DaysOf(z + 1, Reckoned(0, 0, 0, 0))
        /\ YearsOf(z + 1, EraYear(0, 0, 0)) = YearsOf(z, EraYear(c, q, k)) + 1
    BY <1>0, <1>4, <2>3, <2>4, SMTT(30) DEF EraYear, DaysOf, YearsOf
  <2> QED
    BY <2>1, <2>5, Zenon
<1> QED
  BY <1>0, <1>1, <1>2, <1>3, <1>4, SMTT(30)

\* So the day after a day has the date after its date.
LEMMA CivilFollows ==
  ASSUME NEW n \in Nat
  PROVE  C!CivilFromDays(n + 1) = NextDay(C!CivilFromDays(n))
<1>1. PICK z \in Int, x \in Int : DayOfEra(n, z, x) /\ WithinEra(x)
  BY EraFound, Zenon
<1>2. PICK c \in 0..3, q \in 0..24, k \in 0..3 : \E d \in 0..LastDay(c, q, k) : x = Reckoned(c, q, k, d)
  BY <1>1, Reckoning, Zenon
<1>3. PICK d \in 0..LastDay(c, q, k) : x = Reckoned(c, q, k, d)
  BY <1>2
<1>4. PICK y \in Int : y = YearsOf(z, EraYear(c, q, k))
  BY SMTT(30) DEF EraYear, YearsOf
<1>5. C!CivilFromDays(n) = DateOf(y, d)
  <2>1. Known(c, q, k, d) /\ DayOfEra(n, z, Reckoned(c, q, k, d))
    BY <1>1, <1>3, Zenon DEF Known
  <2> QED
    BY <1>4, <2>1, Placed, Zenon
<1>6. YearEnd(y) = LastDay(c, q, k)
  BY <1>4, LeapYears, Zenon
<1>7. d \in Int /\ 0 <= d /\ d <= YearEnd(y) /\ YearEnd(y) \in Int
  BY <1>6, SMTT(30) DEF LastDay
<1>8. NextDay(C!CivilFromDays(n)) = IF d < YearEnd(y) THEN DateOf(y, d + 1) ELSE DateOf(y + 1, 0)
  BY <1>5, <1>7, DayAfter, SMTT(30)
<1>9. CASE d < YearEnd(y)
  <2>1. PICK m \in Nat, e \in Int : m = n + 1 /\ e = d + 1
    BY <1>7, SMTT(30)
  <2>2. Known(c, q, k, e)
    BY <1>6, <1>7, <1>9, <2>1, SMTT(30) DEF Known
  <2>3. DayOfEra(m, z, Reckoned(c, q, k, e))
    BY <1>1, <1>3, <1>7, <2>1, SMTT(30) DEF Reckoned, DayOfEra, DaysOf
  <2>4. C!CivilFromDays(m) = DateOf(YearsOf(z, EraYear(c, q, k)), e)
    BY <2>2, <2>3, Placed, SMTT(30)
  <2> QED
    BY <1>4, <1>8, <1>9, <2>1, <2>4, SMTT(30)
<1>10. CASE d = YearEnd(y)
  <2>1. PICK w \in Int, a \in 0..3, b \in 0..24, j \in 0..3 :
           /\ DaysOf(z, Reckoned(c, q, k, LastDay(c, q, k))) + 1 = DaysOf(w, Reckoned(a, b, j, 0))
           /\ YearsOf(w, EraYear(a, b, j)) = YearsOf(z, EraYear(c, q, k)) + 1
    BY NewYear, Zenon
  <2>2. PICK m \in Nat : m = n + 1
    BY SMTT(30)
  <2>3. DayOfEra(m, w, Reckoned(a, b, j, 0)) /\ Known(a, b, j, 0)
    <3>1. DaysOf(z, x) + 1 = DaysOf(w, Reckoned(a, b, j, 0))
      BY <1>3, <1>6, <1>10, <2>1, SMTT(30)
    <3>2. DayOfEra(m, w, Reckoned(a, b, j, 0))
      BY <1>1, <2>2, <3>1, SMTT(30) DEF DayOfEra, DaysOf
    <3>3. Known(a, b, j, 0)
      BY SMTT(30) DEF Known, LastDay
    <3> QED
      BY <3>2, <3>3
  <2>4. C!CivilFromDays(m) = DateOf(YearsOf(w, EraYear(a, b, j)), 0)
    BY <2>3, Placed, SMTT(30)
  <2>5. YearsOf(w, EraYear(a, b, j)) = y + 1
    BY <1>4, <2>1, SMTT(30)
  <2> QED
    BY <1>7, <1>8, <1>10, <2>2, <2>4, <2>5, SMTT(30)
<1> QED
  BY <1>7, <1>9, <1>10, SMTT(30)

\* The epoch is the first of January 1970.
LEMMA CivilBegins == C!CivilFromDays(0) = [year |-> 1970, month |-> 1, day |-> 1]
<1>1. PICK d \in Int : d = 306
  BY SMTT(30)
<1>2. 0 \in Nat /\ 4 \in Int /\ Known(3, 17, 1, d)
  BY <1>1, SMTT(30) DEF Known, LastDay
<1>3. DayOfEra(0, 4, Reckoned(3, 17, 1, d))
  BY <1>1, SMTT(30) DEF Reckoned, DayOfEra, DaysOf
<1>4. C!CivilFromDays(0) = DateOf(YearsOf(4, EraYear(3, 17, 1)), d)
  BY <1>2, <1>3, Placed, Zenon
<1>5. YearsOf(4, EraYear(3, 17, 1)) = 1969
  BY SMTT(30) DEF EraYear, YearsOf
<1>6. (5 * 306 + 2) \div 153 = 10 /\ MonthOf(10) = 1
  BY SMTT(30) DEF MonthOf
<1>7. DateOf(1969, 306) = [year |-> 1970, month |-> 1, day |-> 1]
  BY <1>6, MonthStarts, SMTT(30) DEF DateOf
<1> QED
  BY <1>1, <1>4, <1>5, <1>7, SMTT(30)

\* The seconds fill a day when its length divides them.
LEMMA Midnight ==
  ASSUME NEW t \in Nat
  PROVE  /\ t \div Day \in Nat
         /\ (t + 1) % Day = 0 => (t + 1) \div Day = (t \div Day) + 1
         /\ (t + 1) % Day # 0 => (t + 1) \div Day = t \div Day
<1>1. Day \in Nat /\ Day > 0
  BY CmosAssumption
<1>2. PICK q \in Int, r \in Int : q = t \div Day /\ r = t % Day /\ t = Day * q + r /\ 0 <= r /\ r < Day
  BY <1>1
<1>3. PICK p \in Int, s \in Int : p = (t + 1) \div Day /\ s = (t + 1) % Day /\ t + 1 = Day * p + s /\ 0 <= s /\ s < Day
  BY <1>1
<1>4. Day * p + s = Day * q + r + 1
  BY <1>2, <1>3, SMT
<1>5. q >= 0
  <2>1. ASSUME q < 0 PROVE FALSE
    <3>1. Day * q <= 0 - Day
      BY <1>1, <2>1
    <3> QED
      BY <1>1, <1>2, <3>1
  <2> QED
    BY <2>1
<1>6. p < q + 2
  <2>1. ASSUME p >= q + 2 PROVE FALSE
    <3>1. Day * p >= Day * q + 2 * Day
      <4>1. PICK g \in Nat : p = q + 2 + g
        BY <2>1
      <4>2. Day * p = Day * q + 2 * Day + Day * g /\ Day * g >= 0
        BY <1>1, <4>1
      <4> QED
        BY <1>1, <4>2
    <3>2. Day * p \in Int /\ Day * q \in Int
      BY <1>1
    <3> QED
      BY <1>1, <1>2, <1>3, <1>4, <3>1, <3>2
  <2> QED
    BY <2>1
<1>7. p >= q
  <2>1. ASSUME p < q PROVE FALSE
    <3>1. PICK g \in Nat : q = p + 1 + g
      BY <2>1
    <3>2. Day * q = Day * p + Day + Day * g /\ Day * g >= 0 /\ Day * p \in Int /\ Day * g \in Int
      BY <1>1, <3>1
    <3> QED
      BY <1>1, <1>2, <1>3, <1>4, <3>2
  <2> QED
    BY <2>1
<1>8. CASE p = q
  <2>1. s = r + 1 /\ s # 0
    <3>1. Day * p = Day * q /\ Day * q \in Int
      BY <1>1, <1>8
    <3> QED
      BY <1>2, <1>4, <3>1
  <2> QED
    BY <1>2, <1>3, <1>5, <1>8, <2>1
<1>9. CASE p = q + 1
  <2>1. Day * p = Day * q + Day /\ Day * q \in Int
    BY <1>1, <1>9
  <2>2. s = 0
    BY <1>1, <1>2, <1>3, <1>4, <2>1
  <2> QED
    BY <1>2, <1>3, <1>5, <1>9, <2>2
<1> QED
  BY <1>6, <1>7, <1>8, <1>9

\* The days of the week come round.
LEMMA WeekdayFollows ==
  ASSUME NEW n \in Int
  PROVE  ((n + 1) + 4) % 7 = (((n + 4) % 7) + 1) % 7
<1>1. PICK g \in Int, r \in Int : n + 4 = 7 * g + r /\ 0 <= r /\ r <= 6 /\ r = (n + 4) % 7
  OBVIOUS
<1>2. CASE r < 6
  BY <1>1, <1>2
<1>3. CASE r = 6
  <2>1. PICK h \in Int : h = g + 1 /\ (n + 1) + 4 = 7 * h
    BY <1>1, <1>3
  <2> QED
    BY <1>1, <1>3, <2>1
<1> QED
  BY <1>1, <1>2, <1>3

\* At midnight no hour, minute or second has passed.
LEMMA Noughts ==
  /\ 0 \div Hour = 0 /\ 0 % Hour = 0 /\ 0 \div Minute = 0 /\ 0 % Minute = 0
<1>1. \A n \in Nat \ {0} : 0 \div n = 0 /\ 0 % n = 0
  <2> TAKE n \in Nat \ {0}
  <2>1. 0 \div n \in Int /\ 0 % n \in Int /\ 0 = n * (0 \div n) + (0 % n) /\ 0 <= 0 % n /\ 0 % n < n /\ n > 0
    OBVIOUS
  <2>2. PICK q \in Int, r \in Int : q = 0 \div n /\ r = 0 % n
    BY <2>1
  <2>3. ASSUME q > 0 PROVE FALSE
    <3>1. n * q >= n
      BY <2>1, <2>3
    <3> QED
      BY <2>1, <2>2, <3>1
  <2>4. ASSUME q < 0 PROVE FALSE
    <3>1. n * q <= 0 - n
      BY <2>1, <2>4
    <3> QED
      BY <2>1, <2>2, <3>1
  <2>5. q = 0
    BY <2>3, <2>4
  <2> QED
    BY <2>1, <2>2, <2>5
<1> QED
  BY <1>1, CmosAssumption

\* A second passes on the clock.
LEMMA ClockTicks ==
  ASSUME Shape, TickSecond
  PROVE  C!Now(board.cmos) \in Nat /\ C!Now(board'.cmos) = C!Now(board.cmos) + 1
<1>1. Quiet \in Boards(board.mem) /\ Quiet.cmos = board.cmos /\ board.cmos \in CmosType
  BY QuietShape DEF Shape, Boards, Still
<1>2. board' = [Quiet EXCEPT !.cmos = C!TickSecond(@)]
  BY DEF TickSecond, Step
<1>3. board'.cmos = C!TickSecond(board.cmos)
  BY <1>1, <1>2 DEF Boards
<1>4. /\ board.cmos.epoch \in Nat /\ board.cmos.elapsed \in Nat
      /\ C!TickSecond(board.cmos) = [board.cmos EXCEPT !.elapsed = @ + 1]
  BY <1>1 DEF CmosType, C!TickSecond
<1>5. /\ C!TickSecond(board.cmos).epoch = board.cmos.epoch
      /\ C!TickSecond(board.cmos).elapsed = board.cmos.elapsed + 1
  BY <1>1, <1>4 DEF CmosType
<1> QED
  BY <1>3, <1>4, <1>5 DEF C!Now

\* The clock shows the first of January 1970 at the epoch, and its date is followed
\* by the next one of the Gregorian calendar at each midnight and at no other second.
THEOREM DatesFollow == Spec => DateFollows
<1>1. ASSUME Shape, TickSecond PROVE DateMoves
  <2>1. PICK t \in Nat : t = C!Now(board.cmos) /\ C!Now(board'.cmos) = t + 1
    BY <1>1, ClockTicks
  <2>2. PICK n \in Nat : n = t \div Day
    BY Midnight
  <2>3. /\ Time(board).date = C!CivilFromDays(n) /\ Time(board).weekday = (n + 4) % 7
        /\ Time(board').date = C!CivilFromDays((t + 1) \div Day)
        /\ Time(board').weekday = (((t + 1) \div Day) + 4) % 7
    BY <2>1, <2>2 DEF Time, C!CivilTime
  <2>4. CASE (t + 1) % Day = 0
    <3>1. (t + 1) \div Day = n + 1
      BY <2>2, <2>4, Midnight
    <3>2. Time(board').date = NextDay(Time(board).date)
      BY <2>3, <3>1, CivilFollows, SMTT(30)
    <3>3. Time(board').weekday = (Time(board).weekday + 1) % 7
      <4>1. ((n + 1) + 4) % 7 = (((n + 4) % 7) + 1) % 7
        BY WeekdayFollows
      <4> QED
        BY <2>3, <3>1, <4>1
    <3>4. Time(board').hour = 0 /\ Time(board').minute = 0 /\ Time(board').second = 0
      BY <2>1, <2>4, Noughts DEF Time, C!CivilTime
    <3> QED
      BY <2>1, <2>4, <3>2, <3>3, <3>4, CivilBegins, SMTT(30) DEF DateMoves
  <2>5. CASE (t + 1) % Day # 0
    <3>1. (t + 1) \div Day = n
      BY <2>2, <2>5, Midnight
    <3> QED
      BY <2>1, <2>3, <2>5, <3>1, CivilBegins, SMTT(30) DEF DateMoves
  <2> QED
    BY <2>4, <2>5
<1>2. Shape => [TickSecond => DateMoves]_vars
  BY <1>1
<1> QED
  BY <1>2, Shapes, PTL DEF DateFollows
=============================================================================
