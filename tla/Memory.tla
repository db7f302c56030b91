------------------------------- MODULE Memory ------------------------------
(***************************************************************************)
(* Physical memory (memory.rs): RAM up to a hole for devices and again above *)
(* 4 GiB, and the text window in front of the RAM under it.  A byte is any   *)
(* value; what has no RAM behind it reads as Open and swallows writes.       *)
(* The code has a path of its own for each width; so has the model.          *)
(***************************************************************************)
EXTENDS Integers, Sequences
CONSTANTS Conventional, Adapter, Meg,   \* 0x9FC00, 0xA0000, 0x100000
          Window, WindowEnd,            \* the text window, 0xB8000 to 0xC0000
          Hole, High,                   \* MMIO_HOLE_START, HIGH_RAM_BASE
          Zero, Open                    \* contents of fresh RAM, and of none

Widths == {1, 2, 4, 8, 16}
New(ram) == [ram |-> ram, data |-> [s \in 0..(ram - 1) |-> Zero],
             text |-> [a \in Window..(WindowEnd - 1) |-> Zero]]

(* the index of the byte that answers at an address, or None *)
None == -1
LowSize(m) == IF m.ram < Hole THEN m.ram ELSE Hole
Slot(m, a) == CASE a < LowSize(m) -> a
                [] a >= High /\ a - High + LowSize(m) < m.ram -> a - High + LowSize(m)
                [] OTHER -> None
TopOfRam(m) == IF m.ram > Hole THEN High + (m.ram - Hole) ELSE m.ram

InWindow(a) == a \in Window..(WindowEnd - 1)
CellOf(a) == a - (a % 2)
(* the check the multi-byte paths make: the last byte's index is an index     *)
Direct(m, a, w) == Slot(m, a) # None /\ Slot(m, a) + w - 1 < m.ram
Run(m, a, w) == [i \in 1..w |-> m.data[Slot(m, a) + i - 1]]

Read1(m, a) == IF InWindow(a) THEN m.text[a]
               ELSE IF Slot(m, a) # None THEN m.data[Slot(m, a)] ELSE Open
Bytes(m, a, w) == [i \in 1..w |-> Read1(m, a + i - 1)]
Read2(m, a) == IF InWindow(a) /\ InWindow(a + 1) THEN <<m.text[CellOf(a)], m.text[CellOf(a) + 1]>>
               ELSE IF Direct(m, a, 2) THEN Run(m, a, 2) ELSE Bytes(m, a, 2)
Read4(m, a) == IF InWindow(a + 3) THEN Read2(m, a) \o Read2(m, a + 2)
               ELSE IF Direct(m, a, 4) THEN Run(m, a, 4) ELSE Bytes(m, a, 4)
Read8(m, a) == IF ~(a + 7 >= Window /\ a < WindowEnd) /\ Direct(m, a, 8) THEN Run(m, a, 8)
               ELSE Read4(m, a) \o Read4(m, a + 4)
Read16(m, a) == IF Direct(m, a, 16) THEN Run(m, a, 16) ELSE Read8(m, a) \o Read8(m, a + 8)
Read(m, a, w) == CASE w = 1 -> <<Read1(m, a)>> [] w = 2 -> Read2(m, a) [] w = 4 -> Read4(m, a)
                   [] w = 8 -> Read8(m, a) [] w = 16 -> Read16(m, a)

(* v is a sequence of bytes, low byte first *)
Ran(m, a, v) == [m EXCEPT !.data = [s \in DOMAIN @ |->
                  LET i == s - Slot(m, a) + 1 IN IF i \in 1..Len(v) THEN v[i] ELSE @[s]]]
Write1(m, a, b) == IF InWindow(a) THEN [m EXCEPT !.text[a] = b]
                   ELSE IF Slot(m, a) # None THEN [m EXCEPT !.data[Slot(m, a)] = b] ELSE m
(* a byte at a time, low first *)
ByBytes2(m, a, v) == Write1(Write1(m, a, v[1]), a + 1, v[2])
ByBytes4(m, a, v) == ByBytes2(ByBytes2(m, a, v), a + 2, SubSeq(v, 3, 4))
ByBytes8(m, a, v) == ByBytes4(ByBytes4(m, a, v), a + 4, SubSeq(v, 5, 8))
Write2(m, a, v) ==
  IF InWindow(a) /\ InWindow(a + 1) THEN [m EXCEPT !.text[CellOf(a)] = v[1], !.text[CellOf(a) + 1] = v[2]]
  ELSE IF Direct(m, a, 2) THEN Ran(m, a, v) ELSE ByBytes2(m, a, v)
SlipWrite4(m, a, v) == IF Direct(m, a, 4) THEN Ran(m, a, v) ELSE ByBytes4(m, a, v)
Write4(m, a, v) ==
  IF InWindow(a + 3) THEN Write2(Write2(m, a, SubSeq(v, 1, 2)), a + 2, SubSeq(v, 3, 4))
  ELSE IF Direct(m, a, 4) THEN Ran(m, a, v) ELSE ByBytes4(m, a, v)
Write8(m, a, v) ==
  IF a + 7 >= Window /\ a < WindowEnd THEN Write4(Write4(m, a, SubSeq(v, 1, 4)), a + 4, SubSeq(v, 5, 8))
  ELSE IF Direct(m, a, 8) THEN Ran(m, a, v) ELSE ByBytes8(m, a, v)
Write16(m, a, v) == IF Direct(m, a, 16) THEN Ran(m, a, v)
                    ELSE Write8(Write8(m, a, SubSeq(v, 1, 8)), a + 8, SubSeq(v, 9, 16))
Write(m, a, v) == CASE Len(v) = 1 -> Write1(m, a, v[1]) [] Len(v) = 2 -> Write2(m, a, v)
                    [] Len(v) = 4 -> Write4(m, a, v) [] Len(v) = 8 -> Write8(m, a, v)
                    [] Len(v) = 16 -> Write16(m, a, v)

-----------------------------------------------------------------------------
(* The map of the memory the BIOS and the boot loader report, and INT 15h    *)
(* E820, which hands it out an entry a call.                                *)

Entry(base, end, usable) == [base |-> base, end |-> end, usable |-> usable]
E820Map(m) ==
  <<Entry(0, Conventional, TRUE), Entry(Conventional, Adapter, FALSE), Entry(Adapter, Meg, FALSE)>>
    \o (IF LowSize(m) > Meg THEN <<Entry(Meg, LowSize(m), TRUE)>> ELSE <<>>)
    \o (IF m.ram > Hole THEN <<Entry(Hole, High, FALSE), Entry(High, TopOfRam(m), TRUE)>> ELSE <<>>)

E820Fails(m, cont) == cont >= Len(E820Map(m))
E820Entry(m, cont) == E820Map(m)[cont + 1]
SlipE820Next(m, cont) == IF cont + 2 < Len(E820Map(m)) THEN cont + 1 ELSE 0
E820Next(m, cont) == IF cont + 1 < Len(E820Map(m)) THEN cont + 1 ELSE 0
=============================================================================
