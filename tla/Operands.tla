------------------------------ MODULE Operands ------------------------------
(***************************************************************************)
(* What an instruction works on (cpu.rs, modrm.rs): registers at every      *)
(* width, flags, segments, memory behind page tables, the stack.            *)
(*                                                                         *)
(* The CPU is a record c: regs, flags, rip, ip, seg (selectors) and desc    *)
(* (their descriptors), pe, lma, pg, the pending exception exc, memory mem  *)
(* and what the page tables map, pages; and of the instruction under way    *)
(* its prefixes, opsize, addrsize, addr64, over, rex, and the fetch cursor. *)
(* An operator that reads what may fault gives a value v and the CPU c      *)
(* after it.                                                               *)
(***************************************************************************)
EXTENDS Arithmetic, Sequences
CONSTANTS PageBytes,      \* bytes in a page
          RamBytes,       \* bytes of memory
          Descriptors,    \* by a selector's index: base, long and big of a segment
          None            \* nothing

SegRegs == <<"Es", "Cs", "Ss", "Ds", "Fs", "Gs">>
Rax == 0
Rcx == 1
Rdx == 2
Rbx == 3
Rsp == 4
Rbp == 5
Rsi == 6
Rdi == 7

Faulted(c) == c.exc # None
Raise(c, e) == [c EXCEPT !.exc = e]
Got(v, c) == [v |-> v, c |-> c]
Then(one, Next(_)) == Next(one)      \* what Next makes of what came of one

Long64(c) == c.lma /\ c.desc["Cs"].long
Cpl(c)    == IF c.pe THEN c.seg["Cs"] % 4 ELSE 0
OSize(c)  == IF "W" \in c.rex THEN 8 ELSE IF c.opsize THEN 4 ELSE 2
ASize(c)  == IF c.addr64 THEN 8 ELSE IF c.addrsize THEN 4 ELSE 2
StackWidth(c) == IF Long64(c) THEN 8 ELSE IF c.opsize THEN 4 ELSE 2

-----------------------------------------------------------------------------
(* Registers.  Four bytes written clear the rest of the register, one or    *)
(* two leave it.  An instruction's result is dropped once it has faulted.   *)

RegW(c, i, w) == c.regs[i % 16] % Mod(w)
Merged(old, w, v) ==
  IF w >= 4 THEN v % Mod(w) ELSE old - (old % Mod(w)) + (v % Mod(w))
SetRegRaw(c, i, w, v) == [c EXCEPT !.regs[i % 16] = Merged(@, w, v)]
SetRegW(c, i, w, v)   == IF Faulted(c) THEN c ELSE SetRegRaw(c, i, w, v)

\* Without REX the byte registers 4 to 7 are the second bytes of 0 to 3.
HighByte(c, i) == c.rex = {} /\ i \in 4..7
Reg8(c, i) == IF HighByte(c, i) THEN Byte(c.regs[i - 4], 1) ELSE RegW(c, i, 1)
SetReg8(c, i, v) ==
  IF Faulted(c) THEN c
  ELSE IF HighByte(c, i)
       THEN [c EXCEPT !.regs[i - 4] = @ + ((v % Mod(1)) - Byte(@, 1)) * Mod(1)]
       ELSE SetRegRaw(c, i, 1, v)
Reg(c, i, w)       == IF w = 1 THEN Reg8(c, i) ELSE RegW(c, i, w)
SetReg(c, i, w, v) == IF w = 1 THEN SetReg8(c, i, v) ELSE SetRegW(c, i, w, v)

SetFlag(c, f, on) == [c EXCEPT !.flags = Set(@, f, on)]

DescriptorFor(sel) == Descriptors[sel \div 4]
LoadSeg(c, s, sel) ==
  [c EXCEPT !.seg[s] = sel, !.desc[s] = IF c.pe THEN DescriptorFor(sel) ELSE @,
            !.cursor = IF s = "Cs" THEN None ELSE @]

-----------------------------------------------------------------------------
(* Memory.  Page tables (module Mmu) are here what they map: page to frame, *)
(* and whether it may be written.                                           *)

\* Far beyond memory, and at the end of a page.
Unbacked == 1024 * PageBytes * RamBytes - 1

ReadMem(c, a, w) ==
  Joined([n \in 0..w - 1 |-> IF a + n \in DOMAIN c.mem THEN c.mem[a + n] ELSE Mod(1) - 1], w)
WriteMem(c, a, w, v) ==
  [c EXCEPT !.mem = [x \in DOMAIN @ |-> IF x \in a..a + w - 1 THEN Byte(v, x - a) ELSE @[x]]]

RealAddr(sel, offset) == sel * (2 ^ (ByteBits \div 2)) + offset
LinearAddr(c, s, offset) ==
  CASE Long64(c) -> (offset + (IF s \in {"Fs", "Gs"} THEN c.threads[s] ELSE 0)) % Mod(8)
    [] ~Long64(c) /\ c.pe -> (c.desc[s].base + offset) % Mod(4)
    [] ~Long64(c) /\ ~c.pe -> RealAddr(c.seg[s], offset) % Mod(4)

PageFault(lin, write) == [vector |-> 14, lin |-> lin, write |-> write]
Page(lin) == lin \div PageBytes
Maps(c, lin, write) ==
  Page(lin) \in DOMAIN c.pages /\ (write => c.pages[Page(lin)].writable)
ApplyPaging(c, lin, write) ==
  IF ~c.pg THEN Got(lin, c)
  ELSE IF Maps(c, lin, write)
       THEN Got(c.pages[Page(lin)].frame * PageBytes + (lin % PageBytes), c)
       ELSE Got(Unbacked, IF Faulted(c) THEN c ELSE Raise(c, PageFault(lin, write)))
Translate(c, s, offset, write) == ApplyPaging(c, LinearAddr(c, s, offset), write)

\* An access whose bytes lie in two pages goes by both translations.
Straddles(a, w) == (a % PageBytes) + w > PageBytes
NextPage(lin)   == ((Page(lin) + 1) * PageBytes) % Mod(8)
InFirst(a) == PageBytes - (a % PageBytes)
SplitByte(a, a2, n) == IF n < InFirst(a) THEN a + n ELSE a2 + n - InFirst(a)
ReadSplit(c, a, lin, w) ==
  Then(ApplyPaging(c, NextPage(lin), FALSE), LAMBDA t :
    IF Faulted(t.c) THEN Got(0, t.c)
    ELSE Got(Joined([n \in 0..w - 1 |-> ReadMem(t.c, SplitByte(a, t.v, n), 1)], w), t.c))
\* What lies in the first page is written before the second one is looked up.
\* (Operators named Slip... are slips a change to the code could make.)
SlipWriteSplit(c, a, lin, w, v) ==
  Then(ApplyPaging(WriteMem(c, a, InFirst(a), v), NextPage(lin), TRUE), LAMBDA t :
    IF Faulted(t.c) THEN t.c
    ELSE WriteMem(t.c, t.v, w - InFirst(a), Right(v, Bits(InFirst(a)))))

WriteSplit(c, a, lin, w, v) ==
  Then(ApplyPaging(c, NextPage(lin), TRUE), LAMBDA t :
    IF Faulted(t.c) THEN t.c
    ELSE WriteMem(WriteMem(t.c, a, InFirst(a), v), t.v, w - InFirst(a), Right(v, Bits(InFirst(a)))))

-----------------------------------------------------------------------------
(* The operand a ModR/M byte names: m.mod = 3 for the register m.rm, else    *)
(* memory at an address computed from m.raw, m.sib and m.disp.               *)

IsReg(m) == m.mod = 3
DefaultSeg(c, s) == IF c.over = None THEN s ELSE c.over
Two(c, a, b) == (RegW(c, a, 2) + RegW(c, b, 2)) % Mod(2)

\* With two bytes of address: a sum that the displacement carries beyond 64
\* KiB is not brought back.
Offset16(c, m) ==
  m.disp + (CASE m.raw = 0 -> Two(c, Rbx, Rsi) [] m.raw = 1 -> Two(c, Rbx, Rdi)
              [] m.raw = 2 -> Two(c, Rbp, Rsi) [] m.raw = 3 -> Two(c, Rbp, Rdi)
              [] m.raw = 4 -> RegW(c, Rsi, 2)  [] m.raw = 5 -> RegW(c, Rdi, 2)
              [] m.raw = 6 -> RegW(c, Rbp, 2)  [] m.raw = 7 -> RegW(c, Rbx, 2))
Seg16(m) == IF m.raw \in {2, 3, 6} THEN "Ss" ELSE "Ds"

\* With four or eight: base, index times scale, and displacement.
NoBase(m) == m.mod = 0 /\ (IF m.sib = None THEN m.raw ELSE m.sib.base) = 5
BaseRaw(m) == IF m.sib = None THEN m.raw ELSE m.sib.base
Rex(b, bit) == IF bit \in b THEN 8 ELSE 0
AddrBytes(c) == IF c.addr64 THEN 8 ELSE 4
Index(c, m) ==
  IF m.sib = None \/ (m.sib.index = 4 /\ "X" \notin m.rex) THEN 0
  ELSE RegW(c, m.sib.index + Rex(m.rex, "X"), AddrBytes(c)) * (2 ^ m.sib.scale)
Base(c, m) == IF NoBase(m) THEN 0 ELSE RegW(c, BaseRaw(m) + Rex(m.rex, "B"), AddrBytes(c))
Offset32(c, m) ==
  IF m.riprel THEN (c.rip + m.disp) % Mod(8)
  ELSE (Index(c, m) + Base(c, m) + m.disp) % Mod(AddrBytes(c))
Seg32(m) == IF ~m.riprel /\ ~NoBase(m) /\ BaseRaw(m) \in {4, 5} THEN "Ss" ELSE "Ds"

LeaOffset(c, m)   == IF c.addrsize THEN Offset32(c, m) ELSE Offset16(c, m)
OperandSeg(c, m)  == DefaultSeg(c, IF c.addrsize THEN Seg32(m) ELSE Seg16(m))
RmLinear(c, m)    == LinearAddr(c, OperandSeg(c, m), LeaOffset(c, m))
RmAddr(c, m, write) == ApplyPaging(c, RmLinear(c, m), write)

ReadAt(c, a, lin, w) ==
  IF w = 1 \/ ~Straddles(a, w) THEN Got(ReadMem(c, a, w), c)
  ELSE IF Faulted(c) THEN Got(0, c) ELSE ReadSplit(c, a, lin, w)
WriteAt(c, a, lin, w, v) ==
  IF w = 1 \/ ~Straddles(a, w) THEN WriteMem(c, a, w, v) ELSE WriteSplit(c, a, lin, w, v)
ReadRm(c, m, w) ==
  IF IsReg(m) THEN Got(Reg(c, m.rm, w), c)
  ELSE Then(RmLinear(c, m), LAMBDA lin :
         Then(ApplyPaging(c, lin, FALSE), LAMBDA t : ReadAt(t.c, t.v, lin, w)))
WriteRm(c, m, w, v) ==
  CASE Faulted(c) -> c
    [] ~Faulted(c) /\ IsReg(m) -> SetReg(c, m.rm, w, v)
    [] ~Faulted(c) /\ ~IsReg(m) ->
         Then(RmLinear(c, m), LAMBDA lin :
           Then(ApplyPaging(c, lin, TRUE), LAMBDA t :
             IF Faulted(t.c) THEN t.c ELSE WriteAt(t.c, t.v, lin, w, v)))

-----------------------------------------------------------------------------
(* The stack, whose pointer has eight bytes in 64-bit mode, four in others  *)
(* with protection, two without.  An access is not split: its address is    *)
(* translated once, and before the pointer moves.                           *)

SpWidth(c) == IF Long64(c) THEN 8 ELSE IF c.pe THEN 4 ELSE 2
Sp(c)      == RegW(c, Rsp, SpWidth(c))
MoveSp(c, sp) == SetRegRaw(c, Rsp, SpWidth(c), sp)
StackAddr(c, sp, write) ==
  IF c.pe THEN Translate(c, "Ss", sp, write)
  ELSE Got(RealAddr(c.seg["Ss"], sp) % (2 ^ (2 * ByteBits + ByteBits \div 2)), c)

SpAfter(c, n) == (Sp(c) + n) % Mod(SpWidth(c))
Push(c, w, v) ==
  Then(StackAddr(c, SpAfter(c, -w), TRUE), LAMBDA t :
    IF c.pe /\ Faulted(t.c) THEN t.c
    ELSE WriteMem(MoveSp(t.c, SpAfter(c, -w)), t.v, w, v))
Pop(c, w) ==
  Then(StackAddr(c, Sp(c), FALSE), LAMBDA t :
    IF c.pe /\ Faulted(t.c) THEN Got(0, t.c)
    ELSE Got(ReadMem(t.c, t.v, w), MoveSp(t.c, SpAfter(c, w))))
=============================================================================
