------------------------------- MODULE Board -------------------------------
(***************************************************************************)
(* The devices behind the port dispatch of the CPU (cpu.rs, port_in to       *)
(* port_out16), physical memory, and the BIOS services that reach them.      *)
(* Devices with a module of their own (the PICs, the PIT, the keyboard       *)
(* controller, the virtio disk) appear as what they are handed, in `seen`.   *)
(* They share nothing here but the dispatch, so that a behaviour exercises   *)
(* one `subject` (and, for pci, the window its disk may be moved to).        *)
(***************************************************************************)
EXTENDS Integers, Sequences, FiniteSets, SequencesExt
CONSTANTS
  Words, Heads, Track,                                   \* Ide
  Present, Disk, BarSize,                                \* Pci
  Radix,                                                 \* Dma
  Minute, Hour, Day, Ram,                                \* Cmos
  Rows, Cols, Blank,                                     \* Vga
  Conventional, Adapter, Meg, Window, WindowEnd, Hole, High, Zero, Open,  \* Memory
  Image, Epochs, Sizes,        \* disk image, times of reset, amounts of RAM
  Outs(_), Ins(_),             \* <<port, bytes>>, <<port, width>> a subject uses
  Sites, Blocks,                \* places and words of a BIOS write to the disk
  ChannelBytes, Modes, Cursors, Chars, Addresses,
  MaxSteps                     \* accesses a behaviour makes, by subject (bound)

(* the constants of the devices, with what the code's own values are *)
ASSUME CmosAssumption == /\ Minute \in Nat \ {0} /\ Hour \in Nat \ {0} /\ Day \in Nat \ {0}
                         /\ Hour % Minute = 0 /\ Day % Hour = 0
ASSUME DmaAssumption == Radix \in Nat \ {0} /\ ChannelBytes \subseteq 0..(Radix - 1)
ASSUME IdeAssumption == Words \in Nat \ {0} /\ Heads \in Nat \ {0} /\ Track \in Nat \ {0}
ASSUME MemoryAssumption ==
  /\ {Conventional, Adapter, Meg, Window, WindowEnd, Hole, High} \subseteq Nat
  /\ Conventional < Adapter /\ Adapter <= Window /\ Window < WindowEnd /\ WindowEnd <= Meg
  /\ Meg < Hole /\ Hole < High /\ Window % 2 = 0 /\ WindowEnd % 2 = 0 /\ Zero # Open
ASSUME PciAssumption == Present \subseteq 0..31 /\ Disk \in Present /\ BarSize \in {4, 8, 16, 32, 64, 128}

(* what a behaviour is about, and the values of the accesses it makes *)
Subjects == {"ide", "pci", "dma", "cmos", "vga", "mem", "map"}
Byte == 0..255
Port == {p \in Nat : p < 65536}
Pair == {w \in Seq(Byte) : Len(w) = 2}      \* a word of the data port
(* the cursor is two bytes *)
ASSUME VgaAssumption == Rows \in 1..255 /\ Cols \in 1..255 /\ Cursors \subseteq Byte \X Byte
ASSUME AccessAssumption ==
  \A s \in Subjects :
    /\ \A o \in Outs(s) : o[1] \in Port /\ o[2] \in Seq(Byte) /\ Len(o[2]) \in {1, 2, 4}
    /\ \A i \in Ins(s) : i[1] \in Port /\ i[2] \in {1, 2, 4}
ASSUME ImageAssumption == Image \in Seq(Pair) /\ Blocks \subseteq Seq(Pair)
(* RAM is never smaller than the first megabyte (Memory::with_size) *)
ASSUME SizeAssumption == /\ Sizes \subseteq Nat /\ \A size \in Sizes : size >= Meg
                         /\ Addresses \subseteq Nat /\ Epochs \subseteq Nat

I == INSTANCE Ide
P == INSTANCE Pci
D == INSTANCE Dma
C == INSTANCE Cmos
V == INSTANCE Vga
M == INSTANCE Memory

VARIABLES board,    \* the devices, and what the last access handed the others
          subject,  \* the device this behaviour is about
          hist      \* what was done to it, for the properties
vars == <<board, subject, hist>>

-----------------------------------------------------------------------------
(* Dispatch of a port access.  The window of the virtio disk goes before      *)
(* every other port, wherever the guest has moved it.                        *)

SlipClaimed(b, p) == LET base == P!IoBase(b.pci) IN base # 0 /\ base <= p
Claimed(b, p) == LET base == P!IoBase(b.pci) IN base # 0 /\ base <= p /\ p < (base + BarSize) % 65536
To(b, who, p, v) == [b EXCEPT !.seen = Append(@, <<who, p, v>>)]
ToVirtio(b, p, v) == To(b, "virtio", p - P!IoBase(b.pci), v)

PciData == \hCFC..\hCFF
Next16(p, n) == (p + n) % 65536
Outside == {\h20, \h21, \hA0, \hA1, \h40, \h41, \h42, \h43, \h60, \h64, \h61}
Owner(p) == CASE p \in {\h20, \h21, \hA0, \hA1} -> "pic" [] p \in {\h60, \h64} -> "kbd" [] OTHER -> "pit"

OwnOut8(b, p, v) ==
  CASE p \in PciData      -> [b EXCEPT !.pci = P!WriteData(@, p - \hCFC, <<v>>)]
    [] p \in Outside      -> To(b, Owner(p), p, <<v>>)
    [] p = \h0A           -> [b EXCEPT !.dma = D!WriteMask(@, v)]
    [] p \in \h81..\h8F   -> [b EXCEPT !.dma = D!WritePage(@, p, v)]
    [] p \in \h1F1..\h1F6 -> [b EXCEPT !.ide = I!WriteReg(@, p, v)]
    [] p = \h1F7          -> [b EXCEPT !.ide = I!Command(@, v)]
    [] p = \h3D4          -> [b EXCEPT !.vga = V!WriteIndex(@, v)]
    [] p = \h3D5          -> [b EXCEPT !.vga = V!WriteCrtc(@, v)]
    [] p = \h70           -> [b EXCEPT !.cmos = C!WriteIndex(@, v)]
    [] p = \h71           -> [b EXCEPT !.cmos = C!WriteData(@, v)]
    [] OTHER              -> b
Out8(b, p, v) == IF Claimed(b, p) THEN ToVirtio(b, p, <<v>>) ELSE OwnOut8(b, p, v)

OwnOut16(b, p, v) ==
  CASE p \in PciData      -> [b EXCEPT !.pci = P!WriteData(@, p - \hCFC, v)]
    [] p = \h1F0          -> [b EXCEPT !.ide = I!WriteData(@, v)]
    [] p \in \h1F1..\h1F6 -> [b EXCEPT !.ide = I!WriteReg(@, p, v[1])]
    [] p = \h1F7          -> [b EXCEPT !.ide = I!Command(@, v[1])]
    [] p = \h3F6          -> b
    [] OTHER              -> Out8(Out8(b, p, v[1]), Next16(p, 1), v[2])
Out16(b, p, v) == IF Claimed(b, p) THEN ToVirtio(b, p, v) ELSE OwnOut16(b, p, v)

OwnOut32(b, p, v) ==
  CASE p = \hCF8      -> [b EXCEPT !.pci.address = v]
    [] p \in PciData  -> [b EXCEPT !.pci = P!WriteData(@, p - \hCFC, v)]
    [] OTHER -> Out16(Out16(b, p, SubSeq(v, 1, 2)), Next16(p, 2), SubSeq(v, 3, 4))
Out32(b, p, v) == IF Claimed(b, p) THEN ToVirtio(b, p, v) ELSE OwnOut32(b, p, v)
PortOut(b, p, v) == CASE Len(v) = 1 -> Out8(b, p, v[1]) [] Len(v) = 2 -> Out16(b, p, v)
                      [] Len(v) = 4 -> Out32(b, p, v)

(* A read gives bytes and a board.  What another device answers is not known  *)
(* here, and stands as 0; 0x3F6 and 0x1F7 show a status that is always ready. *)
Answer(b, v) == [board |-> b, bytes |-> v]
Joined(one, two) == Answer(two.board, one.bytes \o two.bytes)
Ready == \h40
FromVirtio(b, p, width) == Answer(ToVirtio(b, p, <<>>), [i \in 1..width |-> 0])

OwnIn8(b, p) ==
  CASE p \in PciData         -> Answer(b, P!ReadData(b.pci, p - \hCFC, 1))
    [] p \in Outside \ {\h43} -> Answer(To(b, Owner(p), p, <<>>), <<0>>)
    [] p = \h08              -> Answer(b, <<D!Status(b.dma)>>)
    [] p = \h71              -> Answer([b EXCEPT !.cmos = C!ReadData(@)], <<C!DataRead(b.cmos)>>)
    [] p = \h1F1             -> Answer(b, <<b.ide.error>>)
    [] p \in {\h1F7, \h3F6}  -> Answer(b, <<Ready>>)
    [] p = \h3D4             -> Answer(b, <<b.vga.index>>)
    [] p = \h3D5             -> Answer(b, <<V!ReadCrtc(b.vga)>>)
    [] p = \h3DA             -> Answer([b EXCEPT !.vga.retrace = ~@], <<IF b.vga.retrace THEN 0 ELSE 9>>)
    [] OTHER                 -> Answer(b, <<\hFF>>)
In8(b, p) == IF Claimed(b, p) THEN FromVirtio(b, p, 1) ELSE OwnIn8(b, p)

OwnIn16(b, p) ==
  CASE p \in PciData         -> Answer(b, P!ReadData(b.pci, p - \hCFC, 2))
    [] p = \h1F0             -> Answer([b EXCEPT !.ide = I!ReadData(@)], I!DataRead(b.ide))
    [] p = \h1F1             -> Answer(b, <<b.ide.error, 0>>)
    [] p \in {\h1F7, \h3F6}  -> Answer(b, <<Ready, 0>>)
    [] OTHER                 -> LET one == In8(b, p) IN Joined(one, In8(one.board, Next16(p, 1)))
In16(b, p) == IF Claimed(b, p) THEN FromVirtio(b, p, 2) ELSE OwnIn16(b, p)

OwnIn32(b, p) ==
  CASE p = \hCF8     -> Answer(b, b.pci.address)
    [] p \in PciData -> Answer(b, P!ReadData(b.pci, p - \hCFC, 4))
    [] OTHER         -> LET one == In16(b, p) IN Joined(one, In16(one.board, Next16(p, 2)))
In32(b, p) == IF Claimed(b, p) THEN FromVirtio(b, p, 4) ELSE OwnIn32(b, p)
PortIn(b, p, w) == CASE w = 1 -> In8(b, p) [] w = 2 -> In16(b, p) [] w = 4 -> In32(b, p)

-----------------------------------------------------------------------------
(* The services of the BIOS that move data, and the calls the machine and its *)
(* tests make on the devices themselves.                                     *)

Swept(b, c) ==
  LET from == D!Address(b.dma, c)  n == D!Moved(b.dma, c)
      Copy(m, i) == M!Write1(m, from + n + i - 1, M!Read1(m, from + i - 1))
  IN  [b EXCEPT !.mem = FoldLeft(Copy, @, [i \in 1..n |-> i]), !.dma = D!Transferred(@, c)]
Transfer(b, c) == IF c \in b.dma.enabled THEN Swept(b, c) ELSE b

BiosDiskWrite(b, at, words) ==
  IF I!BiosFails(b.ide, at, Len(words) \div Words) THEN b ELSE [b EXCEPT !.ide = I!BiosWrite(@, at, words)]

New(epoch, size) ==
  [ide |-> I!New(Image), pci |-> P!New, dma |-> D!New, cmos |-> C!New(epoch), vga |-> V!New,
   mem |-> [M!New(size) EXCEPT !.data = [s \in DOMAIN @ |-> s]], seen |-> <<>>]

-----------------------------------------------------------------------------
(* What was done, as the outside sees it: the command in progress at the data *)
(* port, with the words moved since, where they belong and the image it found *)
(* (0 once reads and writes are mixed, or a wide access reaches the data or    *)
(* the command register with its other half); whether the first base address  *)
(* register was written in part; the bytes written to the DMA channels; the    *)
(* characters printed on a new screen; the bytes stored, by address, and       *)
(* whether every store was regular; and the entries of the memory map.        *)

Fresh ==
  [steps |-> 0, command |-> 0, from |-> 0, size |-> 0, moved |-> <<>>, found |-> Image,
   channel |-> <<>>, printed |-> <<>>, placed |-> FALSE, partial |-> FALSE,
   stored |-> <<>>, regular |-> TRUE, map |-> <<>>, next |-> 0]

(* a subject that needs no choice of time or memory takes any *)
Some(S) == CHOOSE x \in S : TRUE
Init == \E s \in Subjects, epoch \in Epochs, size \in Sizes :
          /\ s # "cmos" => epoch = Some(Epochs)
          /\ s \notin {"mem", "map"} => size = Some(Sizes)
          /\ subject = s /\ board = New(epoch, size) /\ hist = Fresh

Step(h, b) ==
  /\ hist.steps < MaxSteps[subject]
  /\ hist' = [h EXCEPT !.steps = @ + 1]
  /\ board' = b
  /\ UNCHANGED subject
Quiet == [board EXCEPT !.seen = <<>>]

DataPort(commands, h, word) ==
  IF hist.command \in commands THEN [h EXCEPT !.moved = Append(@, word)] ELSE [h EXCEPT !.command = 0]
WholeBar(p, v) == p = \hCFC /\ Len(v) = 4 /\ P!Reg(board.pci) = \h10
NarrowBar(p, v) == /\ P!Answers(board.pci) /\ P!Slot(board.pci) = Disk /\ P!Reg(board.pci) <= \h10
                   /\ ~WholeBar(p, v) /\ p <= \hCFF
                   /\ \h10 - P!Reg(board.pci) \in (p - \hCFC)..(p - \hCFC + Len(v) - 1)
OtherHalf(p, width) == width = 4 /\ p \in {\h1EE, \h1F0, \h1F5}

GuestOut ==
  \E o \in Outs(subject) :
    LET p == o[1]  v == o[2]
    IN  Step(IF Claimed(board, p) THEN hist
             ELSE CASE p = \h1F7 -> [hist EXCEPT !.command = v[1], !.from = Words * I!Lba(board.ide),
                                                 !.size = Words * I!Sectors(board.ide),
                                                 !.moved = <<>>, !.found = board.ide.disk]
                    [] p = \h1F0 /\ Len(v) = 2 -> DataPort(I!Writes, hist, v)
                    [] OtherHalf(p, Len(v))    -> [hist EXCEPT !.command = 0]
                    [] NarrowBar(p, v)         -> [hist EXCEPT !.partial = TRUE]
                    [] OTHER                   -> hist,
             PortOut(Quiet, p, v))

GuestIn ==
  \E i \in Ins(subject) :
    LET p == i[1]  got == PortIn(Quiet, p, i[2])
    IN  Step(IF Claimed(board, p) THEN hist
             ELSE CASE p = \h1F0 /\ i[2] # 1 -> DataPort(I!Reads, hist, SubSeq(got.bytes, 1, 2))
                    [] p = \h1EE /\ i[2] = 4 -> [hist EXCEPT !.command = 0]
                    [] OTHER                 -> hist,
             got.board)

(* the buffer reaches the image only here, and nothing in the machine calls it *)
Flush == subject = "ide" /\ Step(hist, [Quiet EXCEPT !.ide = I!FlushWrite(@)])

DiskService == \E place \in Sites, words \in Blocks :
  /\ subject = "ide"
  /\ Step(hist, BiosDiskWrite(Quiet, I!Chs(place[1], place[2], place[3]), words))

ChannelByte == \E port \in 0..7, v \in ChannelBytes :
  /\ subject = "dma"
  /\ Step([hist EXCEPT !.channel = Append(@, <<port, v>>)], [Quiet EXCEPT !.dma = D!WriteChannel(@, port, v)])

RunTransfer == \E c \in D!Channels : subject = "dma" /\ Step(hist, Transfer(Quiet, c))

TickSecond == subject = "cmos" /\ Step(hist, [Quiet EXCEPT !.cmos = C!TickSecond(@)])

SetMode == \E m \in Modes :
  /\ subject = "vga"
  /\ Step([hist EXCEPT !.placed = TRUE], [Quiet EXCEPT !.vga = V!SetMode(@, m)])
SetCursor == \E at \in Cursors :
  /\ subject = "vga"
  /\ Step([hist EXCEPT !.placed = TRUE], [Quiet EXCEPT !.vga = V!SetCursor(@, at[1], at[2])])
WriteString == \E at \in Cursors, ch \in Chars :
  /\ subject = "vga"
  /\ Step([hist EXCEPT !.placed = TRUE], [Quiet EXCEPT !.vga = V!WriteString(@, at[1], at[2], <<ch, ch>>)])
Teletype == \E ch \in Chars :
  /\ subject = "vga"
  /\ Step([hist EXCEPT !.printed = Append(@, ch)], [Quiet EXCEPT !.vga = V!PutChar(@, ch)])

(* an access the paths of every width agree on: not one over an edge of the text *)
(* window, nor an odd or 128-bit one in it, nor one over the end of low RAM when   *)
(* there is RAM above the hole                                                   *)
Regular(m, a, w) ==
  \/ w = 1
  \/ M!InWindow(a) /\ M!InWindow(a + w - 1) /\ a % 2 = 0 /\ w < 16
  \/ /\ (a + w - 1 < Window \/ a >= WindowEnd)
     /\ ~(a < M!LowSize(m) /\ a + w > M!LowSize(m) /\ m.ram > M!LowSize(m))

(* a store of bytes that are told apart *)
Bytes(w) == [i \in 1..w |-> -(16 * hist.steps + i)]
After(a, w) == [x \in (a..(a + w - 1)) \cup DOMAIN hist.stored |->
                  IF x \in a..(a + w - 1) THEN Bytes(w)[x - a + 1] ELSE hist.stored[x]]
Store == \E a \in Addresses, w \in M!Widths :
  /\ subject = "mem"
  /\ Step([hist EXCEPT !.stored = After(a, w), !.regular = @ /\ Regular(board.mem, a, w)],
          [Quiet EXCEPT !.mem = M!Write(@, a, Bytes(w))])

(* INT 15h E820 with the continuation of the last call, until it says 0 *)
AskMap ==
  /\ subject = "map" /\ ~(hist.map # <<>> /\ hist.next = 0)
  /\ ~M!E820Fails(board.mem, hist.next)
  /\ Step([hist EXCEPT !.map = Append(@, M!E820Entry(board.mem, hist.next)),
                       !.next = M!E820Next(board.mem, hist.next)], Quiet)

Next == \/ GuestOut \/ GuestIn \/ Flush \/ DiskService \/ ChannelByte \/ RunTransfer \/ TickSecond
        \/ SetMode \/ SetCursor \/ WriteString \/ Teletype \/ Store \/ AskMap
Spec == Init /\ [][Next]_vars

-----------------------------------------------------------------------------
(* Properties                                                                *)

(* SectorsInOrder: after a read command the data port delivers the words of   *)
(* the sectors the registers named then, in order and from the image of that   *)
(* time, whatever is written to the registers or the image meanwhile; past     *)
(* them, and when they do not all exist, it delivers zeros (ide.rs, read_data). *)
SectorsInOrder ==
  hist.command \in I!Reads =>
    \A i \in DOMAIN hist.moved :
      hist.moved[i] = IF hist.from + hist.size <= Len(Image) /\ i <= hist.size
                      THEN hist.found[hist.from + i] ELSE I!Null

(* BarKeepsShape: as long as the base address register is written whole, it    *)
(* is a multiple of its size and marked I/O, so that sizing it by ones and     *)
(* writing it back finds the size and moves the window by none of its type     *)
(* bits (pci.rs, write_data); the identity of the functions never changes.     *)
BarKeepsShape ==
  LET cfg == board.pci.config[Disk]
  IN  /\ ~hist.partial => cfg[\h10] % BarSize = 1
      /\ \A s \in Present, off \in {0, 1, 2, 3} : board.pci.config[s][off] = s + 1

(* WindowHides: what the window claims changes no other device, the disk sees   *)
(* only offsets inside its window, and an access whose ports lie outside of it  *)
(* does not reach the disk, wherever the window has been moved and however the  *)
(* access is split (cpu.rs, virtio_port).  One access may move the window over  *)
(* its own second half: a double word at 0xCFB writes 0xCFC first.             *)
Devices(b) == <<b.ide, b.pci, b.dma, b.cmos, b.vga>>
VirtioSeen(b) == {i \in DOMAIN b.seen : b.seen[i][1] = "virtio"}
InVirtio(p) == LET base == P!IoBase(board.pci)
               IN  base # 0 /\ base < 65536 - BarSize /\ p \in base..(base + BarSize - 1)
WindowHides ==
  \A o \in Outs(subject) :
    LET p == o[1]  b == PortOut(Quiet, p, o[2])
    IN  /\ InVirtio(p) => Devices(b) = Devices(board)
        /\ \A i \in VirtioSeen(b) : b.seen[i][2] \in 0..(BarSize - 1)
        /\ /\ P!IoBase(b.pci) = P!IoBase(board.pci)
           /\ \A q \in p..(p + Len(o[2]) - 1) : ~InVirtio(q)
           => VirtioSeen(b) = {}

(* HalvesPair: through the one flip-flop, an address or count holds the last    *)
(* byte written to its port on an even turn below the last one written on an    *)
(* odd turn, whatever was written to other channels between (dma.rs).           *)
LastOf(port, odd) ==
  LET at == {i \in DOMAIN hist.channel : hist.channel[i][1] = port /\ (i % 2 = 0) = odd}
  IN  IF at = {} THEN 0 ELSE hist.channel[CHOOSE i \in at : \A j \in at : j <= i][2]
HalvesPair ==
  \A c \in D!Channels :
    /\ D!Word(board.dma.base[c]) = LastOf(2 * c, FALSE) + Radix * LastOf(2 * c, TRUE)
    /\ D!Word(board.dma.count[c]) = LastOf(2 * c + 1, FALSE) + Radix * LastOf(2 * c + 1, TRUE)

(* DateFollows: the date of the clock is the first of January 1970 at the       *)
(* epoch and moves at midnight, and only then, to the next day of the           *)
(* Gregorian calendar, with its month lengths and leap years (cmos.rs,          *)
(* civil_from_days); a week later it is the same day of the week.               *)
Leap(y) == y % 4 = 0 /\ (y % 100 # 0 \/ y % 400 = 0)
MonthDays(m, y) == CASE m = 2 -> IF Leap(y) THEN 29 ELSE 28 [] m \in {4, 6, 9, 11} -> 30 [] OTHER -> 31
NextDay(d) ==
  CASE d.day < MonthDays(d.month, d.year) -> [d EXCEPT !.day = @ + 1]
    [] d.day = MonthDays(d.month, d.year) /\ d.month < 12 -> [year |-> d.year, month |-> d.month + 1, day |-> 1]
    [] OTHER -> [year |-> d.year + 1, month |-> 1, day |-> 1]
Time(b) == C!CivilTime(C!Now(b.cmos))
DateMoves ==
  LET t == Time(board)  u == Time(board')
  IN  /\ C!CivilFromDays(0) = [year |-> 1970, month |-> 1, day |-> 1]
      /\ IF C!Now(board'.cmos) % Day = 0
         THEN /\ u.date = NextDay(t.date) /\ u.weekday = (t.weekday + 1) % 7
              /\ u.hour = 0 /\ u.minute = 0 /\ u.second = 0
         ELSE u.date = t.date /\ u.weekday = t.weekday
DateFollows == [][TickSecond => DateMoves]_vars

(* ScreenTail: as long as nobody moves the cursor, the screen shows the end of   *)
(* what was printed, line after line, the last line that is full scrolled up     *)
(* to make room for a blank one (bios.rs, put_char).                            *)
ScreenTail ==
  ~hist.placed =>
    LET n == Len(hist.printed)
        gone == IF n \div Cols >= Rows THEN n \div Cols - Rows + 1 ELSE 0
    IN  \A p \in V!Places :
          LET i == (gone + p[1]) * Cols + p[2] + 1
          IN  board.vga.text[p] = IF i <= n THEN hist.printed[i] ELSE Blank

(* MemoryIsFlat: after stores of any width anywhere, a load of any width gives at  *)
(* each address the byte stored there last, what was there before where nothing     *)
(* was stored, and an open bus where nothing answers: the wide paths and the       *)
(* byte path are one memory (memory.rs, read_u8 to write_u128).  Accesses over      *)
(* an edge of the text window, odd or 128-bit ones inside it, and those over the    *)
(* end of the RAM below the hole are left out: there the paths disagree.            *)
Before(a) == LET m == New(0, board.mem.ram).mem IN M!Read1(m, a)
Flat(a) ==
  IF a \in DOMAIN hist.stored /\ (M!InWindow(a) \/ M!Slot(board.mem, a) # M!None)
  THEN hist.stored[a] ELSE Before(a)
MemoryIsFlat ==
  (subject = "mem" /\ hist.regular) =>
    \A a \in Addresses, w \in M!Widths :
      Regular(board.mem, a, w) => M!Read(board.mem, a, w) = [i \in 1..w |-> Flat(a + i - 1)]

(* MapDescribesRam: once E820 has been asked until it says there is no more, the  *)
(* entries are disjoint, every usable byte has RAM behind it, and all RAM outside *)
(* of the first megabyte's reserved part is usable, for every amount of RAM       *)
(* (memory.rs, e820_map; bios.rs, e820).                                         *)
Usable(a) == \E i \in DOMAIN hist.map : hist.map[i].usable /\ a \in hist.map[i].base..(hist.map[i].end - 1)
MapDescribesRam ==
  (hist.map # <<>> /\ hist.next = 0) =>
    /\ \A i, j \in DOMAIN hist.map : i < j => hist.map[i].end <= hist.map[j].base
    /\ \A a \in Addresses : Usable(a) <=> M!Slot(board.mem, a) # M!None /\ a \notin Conventional..(Meg - 1)
=============================================================================
