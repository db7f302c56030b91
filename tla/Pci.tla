-------------------------------- MODULE Pci --------------------------------
(***************************************************************************)
(* Configuration space through the ports 0xCF8 and 0xCFC (pci.rs).  A value *)
(* is a sequence of bytes, low byte first, as long as the access is wide.   *)
(* A function is its 256 bytes and the sizes of its base address registers; *)
(* a size below 256 only touches the low byte of a register.                *)
(***************************************************************************)
EXTENDS Integers, Sequences
CONSTANTS Present,   \* the slots that hold a function
          Disk,      \* the slot of the virtio disk
          BarSize    \* bytes of its I/O region, its only one

Offsets == 0..255
IoBase0 == \hC0    \* high byte of the base it starts at (0xC000)

(* the registers that tell what the device is *)
ReadOnly(off) == off \in (0..3) \cup (8..11) \cup {14} \cup (\h2C..\h2F) \cup {\h3D}

(* the functions differ in their identity, which only has to differ here *)
Config(slot) == [off \in Offsets |->
  CASE ReadOnly(off)                 -> slot + 1
    [] slot = Disk /\ off = 4        -> 1
    [] slot = Disk /\ off = \h10     -> 1
    [] slot = Disk /\ off = \h11     -> IoBase0
    [] slot = Disk /\ off = \h3C     -> 11
    [] OTHER                         -> 0]
Size(slot, bar) == IF slot = Disk /\ bar = 0 THEN BarSize ELSE 0

New == [address |-> <<0, 0, 0, 0>>, config |-> [s \in Present |-> Config(s)]]

(* the latch names a register of function 0 of a slot of bus 0, or nothing *)
Enabled(p) == p.address[4] >= 128 /\ p.address[3] = 0 /\ p.address[2] % 8 = 0
Slot(p) == p.address[2] \div 8
Reg(p)  == p.address[1] - (p.address[1] % 4)
Answers(p) == Enabled(p) /\ Slot(p) \in Present

ReadData(p, lane, width) ==
  [i \in 1..width |-> LET off == Reg(p) + lane + i - 1
                      IN  IF Answers(p) /\ off \in Offsets THEN p.config[Slot(p)][off] ELSE \hFF]

(* a base address register takes the bits above its size and keeps its type; *)
(* all ones is no special case: what is left of it tells the size            *)
SlipLowByte(v, size, io) == v - (v % size)
LowByte(v, size, io) == (v - (v % size)) + (IF io THEN 1 ELSE 0)
BarWrite(p, lane, v) == Reg(p) \in \h10..\h27 /\ Len(v) = 4 /\ lane = 0
BarStored(cfg, reg, size, v) ==
  IF size = 0 THEN cfg
  ELSE [cfg EXCEPT ![reg]     = LowByte(v[1], size, cfg[reg] % 2 = 1),
                   ![reg + 1] = v[2], ![reg + 2] = v[3], ![reg + 3] = v[4]]

(* any other write goes byte by byte, past the registers it may not change *)
BytesStored(cfg, at, v) ==
  [off \in Offsets |-> IF off - at + 1 \in 1..Len(v) /\ ~ReadOnly(off) THEN v[off - at + 1] ELSE cfg[off]]

WriteData(p, lane, v) ==
  IF ~Answers(p) THEN p
  ELSE [p EXCEPT !.config[Slot(p)] =
          IF BarWrite(p, lane, v)
          THEN BarStored(@, Reg(p), Size(Slot(p), (Reg(p) - \h10) \div 4), v)
          ELSE BytesStored(@, Reg(p) + lane, v)]

(* where the disk's registers are in the port space: 0 while it decodes none *)
IoBase(p) ==
  LET c == p.config[Disk]
  IN  IF c[4] % 2 = 0 THEN 0 ELSE (c[\h10] - (c[\h10] % 4)) + 256 * c[\h11]
=============================================================================
