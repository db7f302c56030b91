------------------------------- MODULE Execute -------------------------------
(***************************************************************************)
(* The executor (instructions.rs): what each decoded instruction does, with  *)
(* its effects in the code's order.  The order shows when one of them        *)
(* faults: registers written as results are dropped from then on, flags,     *)
(* segments and the stack pointer are not.  An instruction maps a CPU to a   *)
(* CPU; Step is one turn of the run loop, and Dispatch what the delivery of   *)
(* a fault leaves before its handler runs.                                   *)
(***************************************************************************)
EXTENDS Decode
CONSTANT FlagAt           \* flag to its bit in the image of the flags

Read(c, o, w) ==
  CASE o.t = "rm"  -> ReadRm(c, o.m, w)
    [] o.t = "reg" -> Got(Reg(c, o.r, w), c)
    [] o.t = "imm" -> Got(o.v, c)
Write(c, o, w, v) == IF o.t = "rm" THEN WriteRm(c, o.m, w, v) ELSE SetReg(c, o.r, w, v)
WithFlags(c, fl)  == [c EXCEPT !.flags = fl]
DivideError(c)    == Raise(c, [vector |-> 0])

-----------------------------------------------------------------------------
(* Moves.                                                                   *)

Mov(c, i) == LET s == Read(c, i.src, i.w) IN Write(s.c, i.dst, i.w, s.v)
Load(c, i) ==
  LET t == Translate(c, i.s, i.at, FALSE) IN SetReg(t.c, Rax, i.w, ReadMem(t.c, t.v, i.w))
Store(c, i) ==
  LET t == Translate(c, i.s, i.at, TRUE) IN WriteMem(t.c, t.v, i.w, Reg(c, Rax, i.w))
MovFromSeg(c, i) == WriteRm(c, i.m, 2, c.seg[i.s])
MovToSeg(c, i)   == LET s == ReadRm(c, i.m, 2) IN LoadSeg(s.c, i.s, s.v)
LoadFarPointer(c, i) ==
  LET t == RmAddr(c, i.m, FALSE)
      w == IF c.opsize THEN 4 ELSE 2
  IN LoadSeg(SetReg(t.c, i.m.reg, w, ReadMem(t.c, t.v, w)), i.s, ReadMem(t.c, t.v + w, 2))
Lea(c, i) == SetReg(c, i.m.reg, i.w, LeaOffset(c, i.m))
Widen(c, i) ==
  LET s == Read(c, i.src, i.from)
  IN SetReg(s.c, i.dst, i.w, IF i.k = "movzx" THEN s.v ELSE Sext(s.v, i.from))
Movsxd(c, i) == LET s == Read(c, i.src, 4) IN Write(s.c, i.dst, i.w, Sext(s.v, 4))
Cmov(c, i)   == IF Test(i.cond, c.flags) THEN Mov(c, i) ELSE c
SetCond(c, i) == Write(c, i.dst, 1, IF Test(i.cond, c.flags) THEN 1 ELSE 0)
Xchg(c, i) ==
  LET a == Read(c, i.dst, i.w)
  IN Write(Write(a.c, i.dst, i.w, Reg(c, i.src.r, i.w)), i.src, i.w, a.v)

-----------------------------------------------------------------------------
(* Arithmetic.                                                              *)

AluArm(c, i) ==
  LET a == Read(c, i.dst, i.w)
      b == Read(a.c, i.src, i.w)
      r == Alu(i.op, a.v, b.v, i.w, c.flags)
      d == WithFlags(b.c, r.fl)
  IN IF i.op = "Cmp" THEN d ELSE Write(d, i.dst, i.w, r.r)
TestArm(c, i) ==
  LET a == Read(c, i.dst, i.w)
      b == Read(a.c, i.src, i.w)
  IN WithFlags(b.c, Logic(c.flags, a.v & b.v, i.w).fl)
\* INC, DEC, NEG and NOT write before they set their flags.
Unary(c, i) ==
  LET a == Read(c, i.dst, i.w)
      r == CASE i.k = "inc" -> Inc(a.v, i.w, c.flags)
             [] i.k = "dec" -> Dec(a.v, i.w, c.flags)
             [] i.k = "neg" -> Negate(a.v, i.w, c.flags)
             [] i.k = "not" -> Ans(Mod(i.w) - 1 - a.v, c.flags)
  IN WithFlags(Write(a.c, i.dst, i.w, r.r), r.fl)
ShiftArm(c, i) ==
  LET a == ReadRm(c, i.m, i.w)
      r == Shift(i.op, a.v, i.n, i.w, c.flags)
  IN WriteRm(WithFlags(a.c, r.fl), i.m, i.w, r.r)
DoubleShift(c, i) ==
  LET n == i.n % (CountMask(i.w) + 1)
      a == ReadRm(c, i.m, i.w)
      s == Reg(c, i.m.reg, i.w)
      r == IF i.k = "shld" THEN Shld(a.v, s, n, i.w, c.flags) ELSE Shrd(a.v, s, n, i.w, c.flags)
  IN IF n = 0 THEN c ELSE WithFlags(WriteRm(a.c, i.m, i.w, r.r), r.fl)

\* The double word of MUL and DIV: AX for bytes, else rDX:rAX.
Wide(c, w) ==
  IF w = 1 THEN [hi |-> Byte(c.regs[Rax], 1), lo |-> RegW(c, Rax, 1)]
  ELSE [hi |-> RegW(c, Rdx, w), lo |-> RegW(c, Rax, w)]
SetWide(c, w, hi, lo) ==
  IF w = 1 THEN SetReg(c, Rax, 2, hi * Mod(1) + lo)
  ELSE SetReg(SetReg(c, Rax, w, lo), Rdx, w, hi)
Multiply(c, i) ==
  LET s == Read(c, i.dst, i.w)
      a == RegW(c, Rax, i.w)
      p == IF i.k = "mul" THEN Mul(a, s.v, i.w, c.flags) ELSE Imul(a, s.v, i.w, c.flags)
  IN WithFlags(SetWide(s.c, i.w, p.hi, p.lo), p.fl)
\* A divisor that could not be read is zero, and then this fault is the one
\* that is delivered.
Divide(c, i) ==
  LET s == Read(c, i.dst, i.w)
      a == Wide(c, i.w)
      answers == IF s.v = 0 THEN {}
                 ELSE IF i.k = "div" THEN Div(a.hi, a.lo, s.v, i.w) ELSE Idiv(a.hi, a.lo, s.v, i.w)
      x == CHOOSE y \in answers : TRUE
  IN IF answers = {} THEN DivideError(s.c) ELSE SetWide(s.c, i.w, x.rem, x.q)
Imul3(c, i) ==
  LET a == Read(c, i.a, i.w)
      b == Read(a.c, i.b, i.w)
      r == ImulStore(a.v, b.v, i.w, c.flags)
  IN WithFlags(SetReg(b.c, i.dst, i.w, r.r), r.fl)
\* CBW, CWDE, CDQE; CWD, CDQ, CQO.
ExtendAcc(c, i) == SetReg(c, Rax, i.w, Sext(RegW(c, Rax, i.w \div 2), i.w \div 2))
SignAcc(c, i)   == SetReg(c, Rdx, i.w, IF Neg(RegW(c, Rax, i.w), i.w) THEN Mod(i.w) - 1 ELSE 0)
BswapArm(c, i)  == SetReg(c, i.dst.r, i.w, Bswap(Reg(c, i.dst.r, i.w), i.w))

-----------------------------------------------------------------------------
(* Bits, and the instructions that compare and store.                       *)

\* In memory a bit's number counts from the operand, beyond it as well; only
\* the operand's address is translated.
BitArm(c, i) ==
  LET bits == Bits(i.w)
      off  == IF i.bit.t = "imm" THEN i.bit.v ELSE Signed(Reg(c, i.bit.r, i.w), i.w)
      t    == RmAddr(c, i.m, i.op # "Test")
      at   == t.v + (off \div bits) * i.w
      v    == IF IsReg(i.m) THEN Reg(c, i.m.rm, i.w) ELSE ReadMem(t.c, at, i.w)
      new  == ApplyBit(v, off % bits, i.op)
      d    == SetFlag(IF IsReg(i.m) THEN c ELSE t.c, "CF", BitOf(v, off % bits) = 1)
  IN CASE i.op = "Test" -> d
       [] i.op # "Test" /\ IsReg(i.m)  -> SetReg(d, i.m.rm, i.w, new)
       [] i.op # "Test" /\ ~IsReg(i.m) -> WriteMem(d, at, i.w, new)
Scan(c, i) ==
  LET s == Read(c, i.src, i.w)
      d == SetFlag(s.c, "ZF", s.v = 0)
  IN IF s.v = 0 THEN d
     ELSE SetReg(d, i.dst.r, i.w, IF i.k = "bsf" THEN Lowest(s.v) ELSE Highest(s.v))
Cmpxchg(c, i) ==
  LET a == Read(c, i.dst, i.w)
      d == WithFlags(a.c, Alu("Cmp", RegW(c, Rax, i.w), a.v, i.w, c.flags).fl)
  IN IF RegW(c, Rax, i.w) = a.v THEN Write(d, i.dst, i.w, Reg(c, i.src.r, i.w))
     ELSE SetReg(d, Rax, i.w, a.v)
Xadd(c, i) ==
  LET a == Read(c, i.dst, i.w)
      r == Alu("Add", a.v, Reg(c, i.src.r, i.w), i.w, c.flags)
      d == WithFlags(a.c, r.fl)
  IN IF IsReg(i.dst.m) THEN Write(Write(d, i.src, i.w, a.v), i.dst, i.w, r.r)
     ELSE Write(Write(d, i.dst, i.w, r.r), i.src, i.w, a.v)
Cmpxchg8b(c, i) ==
  LET t  == RmAddr(c, i.m, TRUE)
      lo == ReadMem(t.c, t.v, 4)
      hi == ReadMem(t.c, t.v + 4, 4)
      eq == lo = RegW(c, Rax, 4) /\ hi = RegW(c, Rdx, 4)
      d  == SetFlag(t.c, "ZF", eq)
  IN IF eq THEN WriteMem(WriteMem(d, t.v, 4, RegW(c, Rbx, 4)), t.v + 4, 4, RegW(c, Rcx, 4))
     ELSE SetReg(SetReg(d, Rax, 4, lo), Rdx, 4, hi)

-----------------------------------------------------------------------------
(* The stack.                                                               *)

PushAll(c, w, vs) ==
  LET f[n \in 0..Len(vs)] == IF n = 0 THEN c ELSE LET p == f[n - 1] IN Push(p, w, vs[n])
  IN f[Len(vs)]
PopAll(c, w, count) ==
  LET f[n \in 0..count] ==
        IF n = 0 THEN Got(<<>>, c)
        ELSE LET p == f[n - 1]
                 q == Pop(p.c, w)
             IN Got(Append(p.v, q.v), q.c)
  IN f[count]

PushArm(c, i) == LET s == Read(c, i.dst, i.w) IN Push(s.c, i.w, s.v)
PopArm(c, i)  == LET p == Pop(c, i.w) IN Write(p.c, i.dst, i.w, p.v)
Pusha(c, i)   == PushAll(c, i.w, [n \in 1..8 |-> RegW(c, n - 1, i.w)])
\* The last one pushed comes first, and the stack pointer's own is dropped.
Popa(c, i) ==
  LET p == PopAll(c, i.w, 8)
      f[n \in 0..8] == IF n = 0 THEN p.c
                       ELSE IF 8 - n = Rsp THEN f[n - 1] ELSE SetReg(f[n - 1], 8 - n, i.w, p.v[n])
  IN f[8]
PushSeg(c, i) == Push(c, StackWidth(c), c.seg[i.s])
PopSeg(c, i)  == LET p == Pop(c, StackWidth(c)) IN LoadSeg(p.c, i.s, p.v % Mod(2))
Leave(c, i) ==
  LET w == IF Long64(c) THEN 8 ELSE i.w
      d == IF Long64(c) THEN SetRegRaw(c, Rsp, 8, c.regs[Rbp]) ELSE SetReg(c, Rsp, w, RegW(c, Rbp, w))
      p == Pop(d, w)
  IN SetReg(p.c, Rbp, w, p.v)

Image(fl) ==
  LET f[n \in 0..Bits(2)] ==
        IF n = 0 THEN 0
        ELSE f[n - 1] + (IF \E x \in fl \cap DOMAIN FlagAt : FlagAt[x] = n - 1 THEN 2 ^ (n - 1) ELSE 0)
  IN f[Bits(2)]
WriteFlags(c, v) ==
  [c EXCEPT !.flags = (@ \ DOMAIN FlagAt) \cup {x \in DOMAIN FlagAt : BitOf(v, FlagAt[x]) = 1}]
Pushf(c, i) == Push(c, i.w, Image(c.flags))
Popf(c, i)  == LET p == Pop(c, i.w) IN WriteFlags(p.c, p.v)

-----------------------------------------------------------------------------
(* Control.  Two bytes of operand size move ip, which only real mode runs    *)
(* from; the other widths move rip.                                         *)

NextIp(c, w) == IF w = 2 THEN c.ip ELSE c.rip % Mod(w)
SetIp(c, w, v) == IF w = 2 THEN [c EXCEPT !.ip = v % Mod(2)] ELSE [c EXCEPT !.rip = v % Mod(w)]
BranchWidth(c) == IF Long64(c) THEN 8 ELSE IF c.opsize THEN 4 ELSE 2
Branch(c, rel) == LET w == BranchWidth(c) IN SetIp(c, w, NextIp(c, w) + rel)

Jcc(c, i) == IF Test(i.cond, c.flags) THEN Branch(c, i.rel) ELSE c
Jmp(c, i) == IF i.w = 2 THEN SetIp(c, 2, c.ip + i.rel) ELSE Branch(c, i.rel)
JmpRm(c, i) == LET t == Read(c, i.dst, i.w) IN SetIp(t.c, i.w, t.v)
Call(c, i) ==
  LET d == Push(c, i.w, NextIp(c, i.w)) IN IF i.w # 2 /\ Faulted(d) THEN d ELSE Jmp(d, i)
CallRm(c, i) ==
  LET t == Read(c, i.dst, i.w)
      d == Push(t.c, i.w, NextIp(c, i.w))
  IN IF i.w # 2 /\ Faulted(d) THEN d ELSE SetIp(d, i.w, t.v)
Ret(c, i) ==
  LET p == Pop(c, i.w)
      d == SetRegRaw(p.c, Rsp, i.w, RegW(p.c, Rsp, i.w) + i.drop)
  IN SetIp(IF i.imm THEN d ELSE p.c, i.w, p.v)

LoopArm(c, i) ==
  LET w == IF c.addr64 THEN 8 ELSE IF c.opsize THEN 4 ELSE 2
      n == IF i.cond = "Jcxz" THEN RegW(c, Rcx, w) ELSE (RegW(c, Rcx, w) - 1) % Mod(w)
      d == IF i.cond = "Jcxz" THEN c ELSE SetRegRaw(c, Rcx, w, n)
      taken == CASE i.cond = "Jcxz"   -> n = 0
                 [] i.cond = "Loop"   -> n # 0
                 [] i.cond = "Loopz"  -> n # 0 /\ "ZF" \in c.flags
                 [] i.cond = "Loopnz" -> n # 0 /\ "ZF" \notin c.flags
      at == IF c.addr64 THEN BranchWidth(c) ELSE IF c.opsize THEN 4 ELSE 2
  IN IF taken THEN SetIp(d, at, NextIp(d, at) + i.rel) ELSE d

FarTo(c, w, cs, at) == SetIp(LoadSeg(c, "Cs", cs % Mod(2)), w, at)
JmpFar(c, i)  == FarTo(c, i.w, i.sel, i.at)
CallFar(c, i) == FarTo(PushAll(c, i.w, <<c.seg["Cs"], NextIp(c, i.w)>>), i.w, i.sel, i.at)
FarWidth(c, i) == IF i.w = 4 /\ c.lma THEN 8 ELSE i.w
Retf(c, i) ==
  LET w == FarWidth(c, i)
      p == PopAll(c, w, 2)
  IN FarTo(p.c, w, p.v[2], p.v[1])

\* IRET pops three words, and the stack as well in long mode or when it goes
\* to a lower privilege.  The form of two bytes leaves the descriptor of CS.
Iret16(c) ==
  LET p == PopAll(c, 2, 3)
  IN WriteFlags(SetIp([p.c EXCEPT !.seg["Cs"] = p.v[2]], 2, p.v[1]), p.v[3])
IretLong(c) ==
  LET p == PopAll(c, 8, 5)
      d == LoadSeg(LoadSeg(p.c, "Cs", p.v[2] % Mod(2)), "Ss", p.v[5] % Mod(2))
  IN WriteFlags(SetIp(SetRegRaw(d, Rsp, 8, p.v[4]), 8, p.v[1]), p.v[3])
Iret32(c) ==
  LET p == PopAll(c, 4, 3)
      q == PopAll(p.c, 4, 2)
      outer == SetRegRaw(LoadSeg(q.c, "Ss", q.v[2] % Mod(2)), Rsp, 4, q.v[1])
      d == IF p.v[2] % 4 > Cpl(c) THEN outer ELSE p.c
  IN WriteFlags(FarTo(d, 4, p.v[2], p.v[1]), p.v[3])
Iret(c, i) == IF i.w = 2 THEN Iret16(c) ELSE IF c.lma THEN IretLong(c) ELSE Iret32(c)

-----------------------------------------------------------------------------
(* Strings.  A loop that faults leaves index and count at the element that   *)
(* did, whatever else is dropped.                                           *)

StrRead(c, at, s, off, w) ==
  IF w > 1 /\ Straddles(at, w) THEN ReadSplit(c, at, LinearAddr(c, s, off), w)
  ELSE Got(ReadMem(c, at, w), c)
StrWrite(c, at, off, w, v) ==
  IF w > 1 /\ Straddles(at, w) THEN WriteSplit(c, at, LinearAddr(c, "Es", off), w, v)
  ELSE WriteMem(c, at, w, v)

UsesSi(i) == i.k \in {"movs", "lods", "cmps"}
UsesDi(i) == i.k # "lods"
\* What one element does, at si and di, once both are looked up.
Compared(c, i, a, at) ==
  WithFlags(c, Alu("Cmp", a, ReadMem(c, at, i.w), i.w, c.flags).fl)
StrSource(c, i, src, si) == StrRead(c, src, DefaultSeg(c, "Ds"), si, i.w)
ElementAt(c, i, src, dst, si, di) ==
  CASE Faulted(c) -> c
    [] ~Faulted(c) /\ i.k = "movs" ->
         Then(StrSource(c, i, src, si), LAMBDA r : StrWrite(r.c, dst, di, i.w, r.v))
    [] ~Faulted(c) /\ i.k = "lods" ->
         Then(StrSource(c, i, src, si), LAMBDA r :
           IF Faulted(r.c) THEN r.c ELSE SetRegW(r.c, Rax, i.w, r.v))
    [] ~Faulted(c) /\ i.k = "stos" -> StrWrite(c, dst, di, i.w, RegW(c, Rax, i.w))
    [] ~Faulted(c) /\ i.k = "cmps" -> Compared(c, i, ReadMem(c, src, i.w), dst)
    [] ~Faulted(c) /\ i.k = "scas" -> Compared(c, i, RegW(c, Rax, i.w), dst)
Element(c, i, si, di) ==
  Then(IF UsesSi(i) THEN Translate(c, DefaultSeg(c, "Ds"), si, FALSE) ELSE Got(0, c), LAMBDA src :
    Then(IF UsesDi(i) THEN Translate(src.c, "Es", di, i.k \in {"movs", "stos"}) ELSE src, LAMBDA dst :
      ElementAt(dst.c, i, src.v, dst.v, si, di)))
Repeats(c, i, left) ==
  /\ left > 0
  /\ i.k \in {"cmps", "scas"} => /\ i.rep = "Repe"  => "ZF" \in c.flags
                                 /\ i.rep = "Repne" => "ZF" \notin c.flags

\* The loop: the CPU, both indices and the count, and whether it goes on.
StrStep(c, i) == IF "DF" \in c.flags THEN -i.w ELSE i.w
StrCount(c, i) == IF i.rep = "None" THEN 1 ELSE RegW(c, Rcx, ASize(c))
StrStart(c, i) ==
  [c |-> c, si |-> RegW(c, Rsi, ASize(c)), di |-> RegW(c, Rdi, ASize(c)),
   left |-> StrCount(c, i), go |-> StrCount(c, i) > 0]
StrAfter(p, i) ==
  Then(Element(p.c, i, p.si, p.di), LAMBDA d :
    IF Faulted(d) THEN [p EXCEPT !.c = d, !.go = FALSE]
    ELSE [c |-> d, si |-> (p.si + StrStep(d, i)) % Mod(ASize(d)),
          di |-> (p.di + StrStep(d, i)) % Mod(ASize(d)),
          left |-> p.left - 1, go |-> Repeats(d, i, p.left - 1)])
RECURSIVE StrLoop(_, _)
StrLoop(p, i) == IF p.go THEN StrLoop(StrAfter(p, i), i) ELSE p
SetIndex(c, used, r, v) == IF used THEN SetRegRaw(c, r, ASize(c), v) ELSE c
String(c, i) ==
  Then(StrLoop(StrStart(c, i), i), LAMBDA e :
    SetIndex(SetIndex(SetIndex(e.c, UsesSi(i), Rsi, e.si), UsesDi(i), Rdi, e.di),
             i.rep # "None", Rcx, e.left))

-----------------------------------------------------------------------------
(* One instruction.                                                         *)

Apply(c, i) ==
  CASE i.k = "mov"      -> Mov(c, i)        [] i.k = "load"     -> Load(c, i)
    [] i.k = "store"    -> Store(c, i)      [] i.k = "movrmseg" -> MovFromSeg(c, i)
    [] i.k = "movsegrm" -> MovToSeg(c, i)   [] i.k = "loadfar"  -> LoadFarPointer(c, i)
    [] i.k = "lea"      -> Lea(c, i)        [] i.k = "movsxd"   -> Movsxd(c, i)
    [] i.k \in {"movzx", "movsx"} -> Widen(c, i)
    [] i.k = "cmov"     -> Cmov(c, i)       [] i.k = "set"      -> SetCond(c, i)
    [] i.k = "xchg"     -> Xchg(c, i)       [] i.k = "alu"      -> AluArm(c, i)
    [] i.k = "test"     -> TestArm(c, i)    [] i.k = "shift"    -> ShiftArm(c, i)
    [] i.k \in {"inc", "dec", "neg", "not"} -> Unary(c, i)
    [] i.k \in {"shld", "shrd"} -> DoubleShift(c, i)
    [] i.k \in {"mul", "imul"}  -> Multiply(c, i)
    [] i.k \in {"div", "idiv"}  -> Divide(c, i)
    [] i.k = "imul3"    -> Imul3(c, i)      [] i.k = "cbw"      -> ExtendAcc(c, i)
    [] i.k = "cwd"      -> SignAcc(c, i)    [] i.k = "bswap"    -> BswapArm(c, i)
    [] i.k = "bit"      -> BitArm(c, i)     [] i.k \in {"bsf", "bsr"} -> Scan(c, i)
    [] i.k = "cmpxchg"  -> Cmpxchg(c, i)    [] i.k = "xadd"     -> Xadd(c, i)
    [] i.k = "cmpxchg8b" -> Cmpxchg8b(c, i)
    [] i.k = "push"     -> PushArm(c, i)    [] i.k \in {"popreg", "poprm"} -> PopArm(c, i)
    [] i.k = "pusha"    -> Pusha(c, i)      [] i.k = "popa"     -> Popa(c, i)
    [] i.k = "pushseg"  -> PushSeg(c, i)    [] i.k = "popseg"   -> PopSeg(c, i)
    [] i.k = "pushf"    -> Pushf(c, i)      [] i.k = "popf"     -> Popf(c, i)
    [] i.k = "leave"    -> Leave(c, i)      [] i.k = "jcc"      -> Jcc(c, i)
    [] i.k = "jmp"      -> Jmp(c, i)        [] i.k = "jmp8"     -> Branch(c, i.rel)
    [] i.k = "jmprm"    -> JmpRm(c, i)      [] i.k = "call"     -> Call(c, i)
    [] i.k = "callrm"   -> CallRm(c, i)     [] i.k = "ret"      -> Ret(c, i)
    [] i.k = "loop"     -> LoopArm(c, i)    [] i.k = "jmpfar"   -> JmpFar(c, i)
    [] i.k = "callfar"  -> CallFar(c, i)    [] i.k = "retf"     -> Retf(c, i)
    [] i.k = "iret"     -> Iret(c, i)
    [] i.k \in {"movs", "stos", "lods", "cmps", "scas"} -> String(c, i)
    [] i.k = "flag"     -> SetFlag(c, i.f, i.on)
    [] i.k = "cmc"      -> SetFlag(c, "CF", "CF" \notin c.flags)
    [] i.k = "hlt"      -> [c EXCEPT !.halted = TRUE]
    [] i.k = "raise"    -> Raise(c, [vector |-> i.vector])
    [] i.k = "into"     -> IF "OF" \in c.flags THEN Raise(c, [vector |-> 4]) ELSE c
    [] i.k = "unknown"  -> Raise(c, [vector |-> 6])
    [] i.k \in {"nop", "other"} -> c

\* A fault while decoding keeps the instruction from being executed.
Step(c) ==
  LET n == DecodeNext([c EXCEPT !.cursor = None, !.ripStart = c.rip, !.ipStart = c.ip])
  IN IF Faulted(n.c) THEN n.c ELSE Apply(n.c, n.i)

\* INT3 and INTO report the next instruction, every other fault its own.
Dispatch(c) ==
  IF c.exc.vector \in {3, 4} THEN c ELSE [c EXCEPT !.rip = c.ripStart, !.ip = c.ipStart]
=============================================================================
