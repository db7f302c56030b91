------------------------------- MODULE MCGuest -------------------------------
(***************************************************************************)
(* Programs for Guest, in a machine of bytes of two bits: pages of eight     *)
(* bytes, three of code, two of data at 24 and two of stack at 40, each in    *)
(* a frame that does not follow the last one's.  Opcodes and ModR/M bytes     *)
(* are the code's.                                                          *)
(***************************************************************************)
EXTENDS Guest

MCFrame(p) == 6 - p
MCPages == 0..6
MCDescriptors == [n \in 0..3 |-> [base |-> IF n = 3 THEN 8 ELSE 0, long |-> n = 2, big |-> TRUE]]
MCFlagAt == [CF |-> 0, ZF |-> 1, SF |-> 2, OF |-> 3]

(* n bytes of v *)
D(v, n) == [k \in 1..n |-> (v \div 4 ^ (k - 1)) % 4]
Memory0 == [a \in 0..55 |-> (a * 7 + a \div 4) % 4]
Registers(f) == [r \in 0..15 |-> IF r \in DOMAIN f THEN f[r] ELSE 0]
(* EAX, ECX, EDX, EBX at the data, ESP in the stack, EBP, ESI and EDI *)
Eight(a, c, d, b, sp, bp, si, di) ==
  Registers([r \in 0..7 |-> <<a, c, d, b, sp, bp, si, di>>[r + 1]])
Usual == Eight(5, 3, 0, 30, 52, 48, 26, 30)
Hlt == 244

Case(mode, text, regs, flags, absent, law, w) ==
  [mode |-> mode, text |-> Append(text, Hlt), regs |-> regs, flags |-> flags,
   mem |-> Memory0, absent |-> absent, law |-> law, w |-> w]

-----------------------------------------------------------------------------
(* Programs on memory at 30, which lies in two pages, and the stack.         *)

Absences == SUBSET {1, 3, 4, 6} \cup {MCPages}
Touching ==
  {<<1, 3>>, <<3, 3>>, <<41, 3>>, <<57, 3>>,           \* ADD, SUB and CMP of memory
   <<255, 3>>, <<255, 11>>, <<247, 27>>, <<247, 19>>,  \* INC, DEC, NEG, NOT
   <<135, 3>>, <<15, 193, 3>>, <<15, 177, 11>>,        \* XCHG, XADD, CMPXCHG
   <<209, 35>>, <<209, 3>>, <<193, 59, 3>>,            \* SHL and ROL by one, SAR by three
   <<15, 164, 11, 2>>, <<15, 171, 3>>, <<15, 188, 3>>, \* SHLD, BTS, BSF
   <<15, 199, 11>>, <<15, 148, 3>>, <<15, 69, 3>>,     \* CMPXCHG8B, SETE, CMOVNE
   <<139, 3>>, <<137, 3>>, <<15, 183, 3>>, <<141, 67, 1>>,
   <<15, 175, 3>>, <<247, 35>>, <<247, 43>>,           \* IMUL, MUL
   <<255, 51>>, <<80, 89>>, <<156, 157>>, <<30, 31>>,  \* PUSH of memory, PUSH POP, PUSHF POPF
   <<201>>, <<232>> \o D(0, 4), <<163>> \o D(29, 4),   \* LEAVE, CALL, MOV to an address
   <<243, 165>>, <<243, 171>>, <<243, 172>>, <<243, 167>>, <<242, 174>>, <<253, 165, 165>>}
Strings16 == {<<102, 243, 165>>, <<102, 171, 171>>, <<103, 102, 173>>}
Apart == {t \in Touching : t[1] = 163}                 \* eight bytes of address in long mode
FaultCases ==
  {Case(m, t, Usual, fl, Absences, "none", 4) :
     m \in {"legacy", "long"}, t \in (Touching \ Apart) \cup Strings16, fl \in {{}, {"CF", "ZF"}}}
  \cup {Case("legacy", t, Usual, {}, Absences, "none", 4) : t \in Apart \cup {<<64, 72, 144>>}}
  \cup {Case("long", <<72>> \o t, Usual, {}, Absences, "none", 8) :
          t \in {<<1, 3>>, <<135, 3>>, <<15, 193, 3>>, <<243, 165>>, <<184>> \o D(300, 8), <<163>> \o D(29, 8)}}

(* instructions whose effects a fault leaves: a carry taken in, a stack pointer
   moved by the words before or the drop after, a divisor that lies in two
   pages, a code segment loaded from what was not read; on the stack lie the
   address of the last byte and a selector *)
Careless(mode, t, sp, stack) ==
  [Case(mode, t, Eight(5, 3, 0, 30, sp, 48, 26, 30), {"CF"}, Absences \cup {{5}}, "none", 4)
     EXCEPT !.mem = [a \in 0..55 |-> IF a < Len(stack) THEN stack[a + 1] ELSE Memory0[a]]]
CarelessCases ==
  {Careless("legacy", t, 48, D(Entry + 3, 4)) :
     t \in {<<17, 3>>, <<25, 3>>, <<96>>, <<143, 3>>, <<247, 51>>, <<194, 1, 0>>}}
  \cup {Careless("long", <<203>>, 40, D(8, 8) \o D(Entry + 1, 8))}

-----------------------------------------------------------------------------
(* Programs on registers.                                                   *)

AllThere == {{}}
Edges(w) == {0, 1, Sign(w) - 1, Sign(w), Mod(w) - 1}
(* a legacy program's operands: the opcode before it for one byte, a prefix
   for two *)
Sized(w, op) == (IF w = 2 THEN <<102>> ELSE <<>>) \o <<IF w = 1 THEN op - 1 ELSE op>>
(* EAX op ECX, then EDX op EBX with the carry *)
Chain(w, low, high) == Sized(w, low) \o <<200>> \o Sized(w, high) \o <<218>>
Quads(w) == {Eight(a, c, d, b, 50, 1, 2, 3) : a \in Edges(w), c \in Edges(w), d \in Edges(w), b \in Edges(w)}
Couples(as, cs) == {Eight(a, c, 0, 0, 50, 1, 2, 3) : a \in as, c \in cs}

Sums(w) == {Case("legacy", Chain(w, 1, 17), r, {}, AllThere, "sum", w) : r \in Quads(w)}
Differences(w) == {Case("legacy", Chain(w, 41, 25), r, {}, AllThere, "difference", w) : r \in Quads(w)}
Every(w) == IF w = 4 THEN {0, 1, 2, 63, 64, 126, 127, 128, 129, 200, 254, 255} ELSE 0..Mod(w) - 1
Compares(w) ==
  {Case("legacy", Sized(w, 57) \o <<200>>, r, {}, AllThere, "order", w) : r \in Couples(Every(w), Every(w))}
RealCompares == {Case("real", <<57, 200>>, r, {}, AllThere, "order", 2) : r \in Couples(Every(2), Every(2))}
(* MUL ECX, DIV ECX *)
Divisions(w) ==
  {Case("legacy", Sized(w, 247) \o <<225>> \o Sized(w, 247) \o <<241>>, r, {}, AllThere, "division", w) :
     r \in Couples(Every(w), Every(w))}

Undone ==
  {<<80, 88>>, <<96, 97>>, <<209, 192, 209, 200>>, <<193, 192, 3, 193, 200, 3>>, <<145, 145>>,
   <<135, 208, 135, 208>>, <<247, 216, 247, 216>>, <<247, 208, 247, 208>>, <<15, 200, 15, 200>>,
   <<1, 200, 41, 200>>, <<49, 200, 49, 200>>, <<137, 3, 139, 3>>, <<30, 31>>, <<15, 160, 15, 161>>,
   <<15, 187, 200, 15, 187, 200>>, <<15, 192, 200, 40, 200, 134, 200>>,
   <<232>> \o D(1, 4) \o <<Hlt, 195>>, <<141, 64, 1, 141, 64, 3>>, <<226, 0, 65>>}
WithCarry ==
  {<<209, 208, 209, 216>>, <<193, 208, 3, 193, 216, 3>>, <<64, 72>>, <<254, 192, 254, 200>>,
   <<156, 248, 157>>, <<245, 245>>, <<102, 209, 208, 102, 209, 216>>, <<208, 208, 208, 216>>,
   <<156, 14, 232>> \o D(1, 4) \o <<Hlt, 207>>,
   <<154>> \o D(Entry + 8, 4) \o D(4, 2) \o <<Hlt, 203>>}
Backs(texts, law) ==
  {Case("legacy", t, Eight(a, 3, 2, 28, 52, 1, 2, 3), fl, AllThere, law, 4) :
     t \in texts, a \in {0, 5, 129, 255}, fl \in {{}, {"CF", "DF"}}}

MCCases ==
  FaultCases \cup Backs(Undone, "back") \cup Backs(WithCarry, "back with carry") \cup RealCompares
  \cup UNION {Sums(w) : w \in {1, 2, 4}}
  \cup UNION {Differences(w) \cup Compares(w) \cup Divisions(w) : w \in {2, 4}}
MCByteCases == Compares(1)
=============================================================================
