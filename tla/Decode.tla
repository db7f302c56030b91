------------------------------- MODULE Decode -------------------------------
(***************************************************************************)
(* The decoder (instructions.rs) and the fetch cursor it reads through      *)
(* (cpu.rs).  The program lies in c.text by physical address: opcodes,       *)
(* ModR/M and prefixes are the code's own, immediates and displacements are *)
(* bytes of this model's size.  Decoding gives an instruction i and the CPU *)
(* c after it; an instruction has a kind k, a width w and its operands.      *)
(***************************************************************************)
EXTENDS Operands

IpLinear(c) ==
  CASE Long64(c) -> c.rip
    [] ~Long64(c) /\ c.pe  -> (c.desc["Cs"].base + (c.rip % Mod(4))) % Mod(4)
    [] ~Long64(c) /\ ~c.pe -> RealAddr(c.seg["Cs"], c.ip) % Mod(4)

\* Where the next byte is read from: looked up at the first byte fetched and
\* at the first one of every page, and moved along in between.
EnsurePhysIp(c) ==
  IF c.cursor # None THEN c
  ELSE Then(ApplyPaging(c, IpLinear(c), FALSE), LAMBDA t :
         [t.c EXCEPT !.cursor = [phys |-> t.v, lin |-> IpLinear(c)]])
AdvanceIp(c, n) ==
  IF c.pe THEN [c EXCEPT !.rip = (@ + n) % Mod(IF Long64(c) THEN 8 ELSE 4)]
  ELSE [c EXCEPT !.ip = (@ + n) % Mod(2)]
MoveCursor(c, n, atEnd) ==
  LET d == AdvanceIp(c, n)
  IN [d EXCEPT !.cursor = IF atEnd THEN None
                          ELSE [phys |-> @.phys + n, lin |-> @.lin + n]]

Text(c, a) == IF a \in DOMAIN c.text THEN c.text[a] ELSE 255
PeekU8(c)  == Then(EnsurePhysIp(c), LAMBDA d : Got(Text(d, d.cursor.phys), d))
FetchU8(c) ==
  Then(PeekU8(c), LAMBDA p :
    Got(p.v, MoveCursor(p.c, 1, p.c.cursor.lin % PageBytes = PageBytes - 1)))
\* The wider ones read their bytes in order, a page looked up where it begins.
Unsigned(c, w) ==
  LET f[n \in 0..w] ==
        IF n = 0 THEN Got(0, c)
        ELSE Then(f[n - 1], LAMBDA lo :
               Then(FetchU8(lo.c), LAMBDA b : Got(lo.v + b.v * Mod(n - 1), b.c)))
  IN f[w]
FetchU16(c) == Unsigned(c, 2)
Extended(c, from, w) == Then(Unsigned(c, from), LAMBDA f : Got(Signed(f.v, from) % Mod(w), f.c))
\* The eight-byte forms extend a four-byte immediate.
Immediate(c, w) == Extended(c, IF w = 8 THEN 4 ELSE w, w)
Relative(c, w)  == Then(Unsigned(c, w), LAMBDA f : Got(Signed(f.v, w), f.c))

-----------------------------------------------------------------------------
(* ModR/M, SIB and displacement.                                            *)

ModOf(b) == b \div 64
RawOf(b) == b % 8
HasSib(c, b) == c.addrsize /\ ModOf(b) # 3 /\ RawOf(b) = 4
Sib(b) == [scale |-> b \div 64, index |-> (b \div 8) % 8, base |-> b % 8]
FetchSib(c, b) ==
  IF HasSib(c, b) THEN Then(FetchU8(c), LAMBDA s : Got(Sib(s.v), s.c)) ELSE Got(None, c)

\* Without a base the displacement has the width of an address.
Far(c, b, sib) ==
  \/ ModOf(b) = 2
  \/ ModOf(b) = 0 /\ ~c.addrsize /\ RawOf(b) = 6
  \/ ModOf(b) = 0 /\ c.addrsize /\ (IF sib = None THEN RawOf(b) ELSE sib.base) = 5
DispBytes(c, b, sib) ==
  CASE ModOf(b) = 1 -> 1
    [] ModOf(b) # 1 /\ Far(c, b, sib)  -> IF c.addrsize THEN 4 ELSE 2
    [] ModOf(b) # 1 /\ ~Far(c, b, sib) -> 0
FetchDisp(c, n) == IF n = 0 THEN Got(0, c) ELSE Relative(c, n)
FetchModrm(c) ==
  Then(FetchU8(c), LAMBDA b :
    Then(FetchSib(b.c, b.v), LAMBDA s :
      Then(FetchDisp(s.c, DispBytes(s.c, b.v, s.v)), LAMBDA disp :
        Got([mod |-> ModOf(b.v), raw |-> RawOf(b.v), rex |-> c.rex,
             reg |-> ((b.v \div 8) % 8) + Rex(c.rex, "R"),
             rm  |-> RawOf(b.v) + (IF ModOf(b.v) = 3 THEN Rex(c.rex, "B") ELSE 0),
             sib |-> s.v, riprel |-> ModOf(b.v) = 0 /\ RawOf(b.v) = 5 /\ c.addr64,
             disp |-> IF c.addrsize THEN disp.v ELSE disp.v % Mod(2)],
            disp.c))))

RmOp(m)  == [t |-> "rm", m |-> m]
RegOp(r) == [t |-> "reg", r |-> r]
ImmOp(v) == [t |-> "imm", v |-> v]
Decoded(i, c) == [i |-> i, c |-> c]
Unknown == [k |-> "unknown"]
Nop     == [k |-> "nop"]
Other   == [k |-> "other"]      \* not modelled: I/O, INT, system, FPU and SSE

\* What follows the operand, or what it is: an immediate, one of a byte that
\* is extended, a byte, or how far to branch.
Imm(c, w, I(_)) == Then(Immediate(c, w), LAMBDA f : Decoded(I(ImmOp(f.v)), f.c))
Imm8(c, w, I(_)) == Then(Extended(c, 1, w), LAMBDA f : Decoded(I(ImmOp(f.v)), f.c))
Imm64(c, w, I(_)) == Then(Unsigned(c, w), LAMBDA f : Decoded(I(ImmOp(f.v)), f.c))
Count8(c, I(_)) == Then(FetchU8(c), LAMBDA f : Decoded(I(f.v), f.c))
Rel(c, w, I(_)) == Then(Relative(c, w), LAMBDA f : Decoded(I(f.v), f.c))

-----------------------------------------------------------------------------
(* Prefixes.                                                                *)

Legacy == {240, 243, 242, 102, 103, 46, 54, 62, 38, 100, 101}
RexBits(b) ==
  {"P"} \cup (IF BitOf(b, 3) = 1 THEN {"W"} ELSE {}) \cup (IF BitOf(b, 2) = 1 THEN {"R"} ELSE {})
        \cup (IF BitOf(b, 1) = 1 THEN {"X"} ELSE {}) \cup (IF BitOf(b, 0) = 1 THEN {"B"} ELSE {})
Override(c, s) == [c EXCEPT !.over = s]
Applied(c, p) ==
  CASE p = 240 -> c
    [] p = 243 -> [c EXCEPT !.rep = "Repe"]
    [] p = 242 -> [c EXCEPT !.rep = "Repne"]
    [] p = 102 -> [c EXCEPT !.opsize = ~Long64(c) /\ ~@]
    [] p = 103 -> IF Long64(c) THEN [c EXCEPT !.addr64 = FALSE] ELSE [c EXCEPT !.addrsize = ~@]
    [] p \in {46, 54, 62, 38} ->
         IF Long64(c) THEN c
         ELSE Override(c, CASE p = 46 -> "Cs" [] p = 54 -> "Ss" [] p = 62 -> "Ds" [] p = 38 -> "Es")
    [] p = 100 -> Override(c, "Fs")
    [] p = 101 -> Override(c, "Gs")

RECURSIVE Prefixes(_), Prefixed(_, _)
Prefixed(p, c) ==
  CASE Long64(c) /\ p.v \in 64..79 -> Prefixes([c EXCEPT !.rex = RexBits(p.v)])
    [] p.v \in Legacy -> Prefixes(Applied([c EXCEPT !.rex = {}], p.v))
    [] p.v \notin Legacy /\ ~(Long64(c) /\ p.v \in 64..79) -> p.c
Prefixes(c) == Prefixed(PeekU8(c), FetchU8(c).c)

Defaults(c) ==
  LET d32 == c.pe /\ c.desc["Cs"].big
  IN [c EXCEPT !.opsize = Long64(c) \/ d32, !.addrsize = Long64(c) \/ d32,
               !.addr64 = Long64(c), !.over = None, !.rex = {}, !.rep = "None"]

-----------------------------------------------------------------------------
(* Instructions of several opcodes.  m is the operand of a ModR/M byte.      *)

Rb(c) == Rex(c.rex, "B")
OpWidth(c, op) == IF op % 2 = 0 THEN 1 ELSE OSize(c)
PushWidth(c)   == IF c.opsize THEN StackWidth(c) ELSE 2
NearWidth(c)   == IF c.opsize THEN 4 ELSE 2
GroupOp(r) == IF r < 8 THEN AluOps[r + 1] ELSE "Cmp"
SegOf(r)   == IF r % 8 < 5 THEN SegRegs[(r % 8) + 1] ELSE "Gs"

Plain(c, i) == Decoded(i, c)
Kind(k, w)  == [k |-> k, w |-> w]
One(kind, w, dst)  == [k |-> kind, w |-> w, dst |-> dst]
\* Two operands and no more: TEST, XCHG, MOV.
Both(kind, w, dst, src) == [k |-> kind, w |-> w, dst |-> dst, src |-> src]
ToRm(kind, w, m)   == Both(kind, w, RmOp(m), RegOp(m.reg))
ToReg(kind, w, m)  == Both(kind, w, RegOp(m.reg), RmOp(m))
LoadFar(s, m)      == [k |-> "loadfar", m |-> m, s |-> s]
ImulInst(w, m, b)  == [k |-> "imul3", w |-> w, dst |-> m.reg, a |-> RmOp(m), b |-> b]

AluInst(a, w, dst, src) == [k |-> "alu", op |-> a, w |-> w, dst |-> dst, src |-> src]
AluForms(c, op, m) ==
  IF op % 8 < 2 THEN AluInst(AluOps[(op \div 8) + 1], OpWidth(c, op), RmOp(m), RegOp(m.reg))
  ELSE AluInst(AluOps[(op \div 8) + 1], OpWidth(c, op), RegOp(m.reg), RmOp(m))
Group1(c, op, m) ==
  LET I(v) == AluInst(GroupOp(m.reg), OpWidth(c, op), RmOp(m), v)
  IN IF op = 131 THEN Imm8(c, OpWidth(c, op), I) ELSE Imm(c, OpWidth(c, op), I)

ShiftInst(c, op, m, n) ==
  [k |-> "shift", op |-> ShiftOps[(m.reg % 8) + 1], w |-> OpWidth(c, op), m |-> m, n |-> n]
ShiftForms(c, op, m) ==
  CASE op \in {208, 209} -> Plain(c, ShiftInst(c, op, m, 1))
    [] op \in {210, 211} -> Plain(c, ShiftInst(c, op, m, RegW(c, Rcx, 1)))
    [] op \in {192, 193} -> Count8(c, LAMBDA n : ShiftInst(c, op, m, n))

Group3(c, op, m) ==
  IF m.reg % 8 = 0 THEN Imm(c, OpWidth(c, op), LAMBDA v : Both("test", OpWidth(c, op), RmOp(m), v))
  ELSE Plain(c, One(<<"idiv", "not", "neg", "mul", "imul", "div", "idiv">>[m.reg % 8],
                    OpWidth(c, op), RmOp(m)))
Group45(c, op, m) ==
  CASE m.reg % 8 = 0 -> One("inc", OpWidth(c, op), RmOp(m))
    [] m.reg % 8 = 1 -> One("dec", OpWidth(c, op), RmOp(m))
    [] m.reg % 8 \in {2, 4, 6} /\ op = 255 ->
         One(CASE m.reg % 8 = 2 -> "callrm" [] m.reg % 8 = 4 -> "jmprm" [] m.reg % 8 = 6 -> "push",
             PushWidth(c), RmOp(m))
    [] m.reg % 8 \in {3, 5, 7} \/ (m.reg % 8 > 1 /\ op = 254) -> Unknown

Stores(op) == op \in {162, 163}
Bytes(op)  == op \in {160, 162}
PlainStore(c, op) == Stores(op) /\ c.addrsize /\ (Bytes(op) \/ (~c.addr64 /\ ~c.opsize))
Moffs(c, op) ==
  Then(Unsigned(c, IF c.addr64 /\ ~Bytes(op) THEN 8 ELSE IF c.addrsize THEN 4 ELSE 2), LAMBDA f :
    Decoded([k |-> IF Stores(op) THEN "store" ELSE "load", w |-> IF Bytes(op) THEN 1 ELSE OSize(c),
             at |-> f.v, s |-> IF PlainStore(c, op) THEN "Ds" ELSE DefaultSeg(c, "Ds")], f.c))
Strings == <<"movs", "cmps", "none", "stos", "lods", "scas">>
Loops   == <<"Loop", "Loopz", "Loopnz", "Jcxz">>
StringInst(c, op) == [k |-> Strings[(op - 164) \div 2 + 1], w |-> OpWidth(c, op), rep |-> c.rep]
FarInst(c, k) ==
  Then(Unsigned(c, NearWidth(c)), LAMBDA off :
    Then(FetchU16(off.c), LAMBDA sel :
      Decoded([k |-> k, w |-> NearWidth(c), at |-> off.v, sel |-> sel.v], sel.c)))
NearImm(c, k) == Rel(c, NearWidth(c), LAMBDA r : [k |-> k, w |-> PushWidth(c), rel |-> r])

-----------------------------------------------------------------------------
(* Opcodes of one byte with a ModR/M byte, and without one.                  *)

AluRm == {op \in 0..63 : op % 8 < 4}
HasModrm == AluRm \cup {99, 105, 107, 128, 129, 131} \cup 132..143 \cup {192, 193} \cup 196..199
            \cup 208..211 \cup {246, 247, 254, 255}
RmOpcodes(c, op, m) ==
  CASE op \in AluRm -> Plain(c, AluForms(c, op, m))
    [] op = 99  -> Plain(c, IF Long64(c) THEN ToReg("movsxd", OSize(c), m) ELSE Nop)
    [] op = 105 -> Imm(c, OSize(c), LAMBDA v : ImulInst(OSize(c), m, v))
    [] op = 107 -> Imm8(c, OSize(c), LAMBDA v : ImulInst(OSize(c), m, v))
    [] op \in {128, 129, 131} -> Group1(c, op, m)
    [] op \in {132, 133} -> Plain(c, ToRm("test", OpWidth(c, op), m))
    [] op \in {134, 135} -> Plain(c, ToRm("xchg", OpWidth(c, op), m))
    [] op \in {136, 137} -> Plain(c, ToRm("mov", OpWidth(c, op), m))
    [] op \in {138, 139} -> Plain(c, ToReg("mov", OpWidth(c, op), m))
    [] op = 140 -> Plain(c, [k |-> "movrmseg", m |-> m, s |-> SegOf(m.reg)])
    [] op = 141 -> Plain(c, [k |-> "lea", w |-> OSize(c), m |-> m])
    [] op = 142 -> Plain(c, [k |-> "movsegrm", m |-> m, s |-> SegOf(m.reg)])
    [] op = 143 -> Plain(c, IF m.reg % 8 = 0 THEN One("poprm", PushWidth(c), RmOp(m)) ELSE Unknown)
    [] op \in {192, 193} \cup 208..211 -> ShiftForms(c, op, m)
    [] op \in {196, 197} -> Plain(c, LoadFar(IF op = 196 THEN "Es" ELSE "Ds", m))
    [] op \in {198, 199} -> Imm(c, OpWidth(c, op), LAMBDA v : Both("mov", OpWidth(c, op), RmOp(m), v))
    [] op \in {246, 247} -> Group3(c, op, m)
    [] op \in {254, 255} -> Plain(c, Group45(c, op, m))

\* 00 to 6F: the ALU's immediates, stack, INC and DEC.
LowOpcodes(c, op) ==
  CASE op < 64 /\ op % 8 \in {4, 5} ->
         Imm(c, OpWidth(c, op), LAMBDA v : AluInst(AluOps[(op \div 8) + 1], OpWidth(c, op), RegOp(Rax), v))
    [] op \in {6, 14, 22, 30} -> Plain(c, [k |-> "pushseg", s |-> SegRegs[(op \div 8) + 1]])
    [] op \in {7, 23, 31}     -> Plain(c, [k |-> "popseg", s |-> SegRegs[(op \div 8) + 1]])
    [] op \in 64..79 -> Plain(c, One(IF op < 72 THEN "inc" ELSE "dec", OSize(c), RegOp(op % 8)))
    [] op \in 80..87 -> Plain(c, One("push", PushWidth(c), RegOp((op % 8) + Rb(c))))
    [] op \in 88..95 -> Plain(c, One("popreg", PushWidth(c), RegOp((op % 8) + Rb(c))))
    [] op \in {96, 97} -> Plain(c, Kind(IF op = 96 THEN "pusha" ELSE "popa", NearWidth(c)))
    [] op = 104 -> Imm(c, PushWidth(c), LAMBDA v : One("push", PushWidth(c), v))
    [] op = 106 -> Imm8(c, PushWidth(c), LAMBDA v : One("push", PushWidth(c), v))
    [] OTHER -> Plain(c, Unknown)

\* 70 to 9F.
MidOpcodes(c, op) ==
  CASE op \in 112..127 -> Rel(c, 1, LAMBDA r : [k |-> "jcc", cond |-> op - 112, rel |-> r])
    [] op = 144 /\ Rb(c) = 0 -> Plain(c, Nop)
    [] op \in 144..151 /\ ~(op = 144 /\ Rb(c) = 0) ->
         Plain(c, Both("xchg", OSize(c), RegOp((op % 8) + Rb(c)), RegOp(Rax)))
    [] op \in {152, 153} -> Plain(c, Kind(IF op = 152 THEN "cbw" ELSE "cwd", OSize(c)))
    [] op = 154 -> FarInst(c, "callfar")
    [] op = 155 -> Plain(c, Nop)
    [] op \in {156, 157} -> Plain(c, Kind(IF op = 156 THEN "pushf" ELSE "popf", StackWidth(c)))
    [] op \in {130, 158, 159} -> Plain(c, Unknown)

\* A0 to CF.
HighOpcodes(c, op) ==
  CASE op \in 160..163 -> Moffs(c, op)
    [] op \in 164..167 \cup 170..175 -> Plain(c, StringInst(c, op))
    [] op \in {168, 169} ->
         Imm(c, OpWidth(c, op), LAMBDA v : Both("test", OpWidth(c, op), RegOp(Rax), v))
    [] op \in 176..183 -> Imm(c, 1, LAMBDA v : Both("mov", 1, RegOp((op % 8) + Rb(c)), v))
    [] op \in 184..191 -> Imm64(c, OSize(c), LAMBDA v : Both("mov", OSize(c), RegOp((op % 8) + Rb(c)), v))
    [] op = 194 -> Then(FetchU16(c), LAMBDA f :
                     Decoded([k |-> "ret", w |-> StackWidth(c), drop |-> f.v, imm |-> TRUE], f.c))
    [] op = 195 -> Plain(c, [k |-> "ret", w |-> PushWidth(c), drop |-> 0, imm |-> FALSE])
    [] op = 201 -> Plain(c, Kind("leave", NearWidth(c)))
    [] op = 203 -> Plain(c, Kind("retf", NearWidth(c)))
    [] op = 204 -> Plain(c, [k |-> "raise", vector |-> 3])
    [] op = 205 -> Plain(c, Other)
    [] op = 206 -> Plain(c, [k |-> "into"])
    [] op = 207 -> Plain(c, Kind("iret", NearWidth(c)))
    [] op \in {200, 202} -> Plain(c, Unknown)

\* D0 to FF.
TopOpcodes(c, op) ==
  CASE op \in 224..227 -> Rel(c, 1, LAMBDA r : [k |-> "loop", cond |-> Loops[op - 223], rel |-> r])
    [] op \in 216..223 \cup 228..231 \cup 236..239 -> Plain(c, Other)
    [] op = 232 -> NearImm(c, "call")
    [] op = 233 -> NearImm(c, "jmp")
    [] op = 234 -> FarInst(c, "jmpfar")
    [] op = 235 -> Rel(c, 1, LAMBDA r : [k |-> "jmp8", rel |-> r])
    [] op = 244 -> Plain(c, [k |-> "hlt"])
    [] op = 245 -> Plain(c, [k |-> "cmc"])
    [] op \in 248..253 ->
         Plain(c, [k |-> "flag", f |-> CASE op < 250 -> "CF" [] op \in {250, 251} -> "IF" [] op > 251 -> "DF",
                   on |-> op % 2 = 1])
    [] op \in 212..215 \cup 240..243 -> Plain(c, Unknown)

-----------------------------------------------------------------------------
(* Opcodes after 0F, with a ModR/M byte and without one.                     *)

BitInst(op, w, m, bit) == [k |-> "bit", op |-> op, w |-> w, m |-> m, bit |-> bit]
BitOps == <<"Test", "Set", "Reset", "Complement">>
DoubleInst(c, op, m, n) == [k |-> IF op < 168 THEN "shld" ELSE "shrd", w |-> OSize(c), m |-> m, n |-> n]
Group8(c, m) ==
  Count8(c, LAMBDA n : BitInst(IF m.reg % 8 \in 4..7 THEN BitOps[(m.reg % 8) - 3] ELSE "Complement",
                               OSize(c), m, ImmOp(n)))
Widening(k, w, from, m) == [k |-> k, w |-> w, from |-> from, dst |-> m.reg, src |-> RmOp(m)]

EscapeHasModrm ==
  {13} \cup 24..31 \cup 64..79 \cup 144..159 \cup 163..165 \cup 171..173 \cup {175} \cup 176..183
  \cup {186, 187} \cup 188..193 \cup {199}
EscapeRm(c, op, m) ==
  CASE op \in {182, 183} -> Plain(c, Widening("movzx", OSize(c), op - 181, m))
    [] op \in {190, 191} -> Plain(c, Widening("movsx", OSize(c), op - 189, m))
    [] op \in {163, 171, 179, 187} ->
         Plain(c, BitInst(BitOps[(op - 163) \div 8 + 1], OSize(c), m, RegOp(m.reg)))
    [] op \in {178, 180, 181} ->
         Plain(c, LoadFar(CASE op = 178 -> "Ss" [] op = 180 -> "Fs" [] op = 181 -> "Gs", m))
    [] op = 186 -> Group8(c, m)
    [] op = 175 -> Plain(c, ImulInst(OSize(c), m, RegOp(m.reg)))
    [] op \in {164, 172} -> Count8(c, LAMBDA n : DoubleInst(c, op, m, n))
    [] op \in {165, 173} -> Plain(c, DoubleInst(c, op, m, RegW(c, Rcx, 1)))
    [] op \in {188, 189} -> Plain(c, ToReg(IF op = 188 THEN "bsf" ELSE "bsr", OSize(c), m))
    [] op \in {176, 177} -> Plain(c, ToRm("cmpxchg", OpWidth(c, op), m))
    [] op \in {192, 193} -> Plain(c, ToRm("xadd", OpWidth(c, op), m))
    [] op = 199 -> Plain(c, IF m.reg % 8 = 1 THEN [k |-> "cmpxchg8b", m |-> m] ELSE Other)
    [] op \in 64..79 ->
         Plain(c, [k |-> "cmov", cond |-> op - 64, w |-> OSize(c), dst |-> RegOp(m.reg), src |-> RmOp(m)])
    [] op \in 144..159 -> Plain(c, [k |-> "set", cond |-> op - 144, dst |-> RmOp(m)])
    [] op \in {13} \cup 24..31 -> Plain(c, Nop)
Escape(c, op) ==
  CASE op \in EscapeHasModrm -> Then(FetchModrm(c), LAMBDA f : EscapeRm(f.c, op, f.v))
    [] op \in 128..143 -> Rel(c, 4, LAMBDA r : [k |-> "jcc", cond |-> op - 128, rel |-> r])
    [] op \in {160, 168} -> Plain(c, [k |-> "pushseg", s |-> IF op = 160 THEN "Fs" ELSE "Gs"])
    [] op \in {161, 169} -> Plain(c, [k |-> "popseg", s |-> IF op = 161 THEN "Fs" ELSE "Gs"])
    [] op \in 200..207 -> Plain(c, One("bswap", OSize(c), RegOp((op % 8) + Rb(c))))
    [] op = 11 -> Plain(c, Unknown)
    [] OTHER   -> Plain(c, Other)

DecodeOp(c, op) ==
  CASE op \in HasModrm -> Then(FetchModrm(c), LAMBDA f : RmOpcodes(f.c, op, f.v))
    [] op = 15 -> Then(FetchU8(c), LAMBDA f : Escape(f.c, f.v))
    [] op < 112 /\ op \notin HasModrm \cup {15} -> LowOpcodes(c, op)
    [] op \in 112..159 \ HasModrm -> MidOpcodes(c, op)
    [] op \in 160..207 \ HasModrm -> HighOpcodes(c, op)
    [] op \in 208..255 \ HasModrm -> TopOpcodes(c, op)
DecodeNext(c) ==
  Then(Prefixes(Defaults(c)), LAMBDA d :
    Then(FetchU8([d EXCEPT !.opsize = @ \/ "W" \in d.rex]), LAMBDA f : DecodeOp(f.c, f.v)))
=============================================================================
