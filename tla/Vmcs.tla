-------------------------------- MODULE Vmcs --------------------------------
(***************************************************************************)
(* The VMCS and the VMX instructions of the root (vmx.rs).  A VMCS lives in *)
(* a region of memory; the current one is a working copy in the CPU, written *)
(* back when another takes its place.  A slot of it holds two halves; where  *)
(* the code keeps bits, a field that the CPU looks at holds in its low half  *)
(* what the bits say: a set of control names, a place in a program.          *)
(*                                                                         *)
(* The CPU is a record c.  Of it, this module is about on, feature, vmxon    *)
(* and cur, the working copy work, the regions mem, and result, the six      *)
(* arithmetic flags after a VMX instruction.                                *)
(***************************************************************************)
EXTENDS Integers, Sequences, FiniteSets
CONSTANTS Regions,     \* regions of memory that begin with the revision
          Blank,       \* one that does not
          None,        \* a value apart from all others
          Encodings    \* the fields of this model, and any the guest names

Own == "own"           \* the region given to VMXON
Misaligned == "misaligned"
Unmapped == "unmapped" \* an operand whose address faults

-----------------------------------------------------------------------------
(* An encoding is: half, index, type, width.                                *)

Index(e) == (e \div 2) % 512
Type(e)  == (e \div 1024) % 4
Width(e) == (e \div 8192) % 4
HighestIndex == \h1A
Known(e)    == Index(e) <= HighestIndex /\ e < 32768
Slot(e)     == (4 * Width(e) + Type(e)) * 32 + Index(e)
High(e)     == e % 2 = 1
Narrow(e)   == Width(e) \in {0, 2}
ReadOnly(e) == Type(e) = 1
LaunchSlot  == 31

Val(x) == [lo |-> x, hi |-> 0]
Slots == {LaunchSlot} \cup {Slot(e) : e \in {d \in Encodings : Known(d)}}
Read(work, e) ==
  LET s == work[Slot(e)]
  IN  CASE High(e) -> Val(s.hi) [] ~High(e) /\ Narrow(e) -> Val(s.lo) [] OTHER -> s
Write(work, e, v) ==
  [work EXCEPT ![Slot(e)] = CASE High(e) -> [@ EXCEPT !.hi = v.lo]
                              [] ~High(e) /\ Narrow(e) -> [@ EXCEPT !.lo = v.lo]
                              [] OTHER -> v]

InstructionError == \h4400
F(c, e)       == Read(c.work, e).lo
Put(c, e, x)  == [c EXCEPT !.work = Write(@, e, Val(x))]
Launched(c)   == c.work[LaunchSlot].lo = 1
SetLaunched(c, n) == [c EXCEPT !.work[LaunchSlot] = Val(n)]

-----------------------------------------------------------------------------
(* VMsucceed, VMfailInvalid, VMfailValid, and faults, the first of which stays. *)

Succeed(c)      == [c EXCEPT !.result = "succeed"]
FailInvalid(c)  == [c EXCEPT !.result = "invalid"]
FailValid(c, n) == [Put(c, InstructionError, n) EXCEPT !.result = "valid"]
Fault(vector, code) == [vector |-> vector, code |-> code]
Raised(c, x)    == IF c.pend = None THEN [c EXCEPT !.pend = x] ELSE c
Raise(c, v)     == Raised(c, Fault(v, {}))

SlipFlush(c) == c
Flush(c)   == IF c.cur = None THEN c ELSE [c EXCEPT !.mem[c.cur] = c.work]
Load(c, p) == [c EXCEPT !.work = c.mem[p], !.cur = p]

CR0Fixed == {"PE", "NE", "PG"}

Vmxon(c, p) ==
  CASE ~c.vmxe                             -> Raise(c, "ud")
    [] c.vmxe /\ c.on                      -> FailValid(c, 15)
    [] c.vmxe /\ ~c.on /\ (c.feature # {"lock", "vmx"} \/ ~(CR0Fixed \subseteq c.cr0)) -> Raise(c, "gp")
    [] OTHER -> CASE p = Unmapped                -> Raise(c, "pf")
                  [] p \in {Misaligned, Blank}   -> FailInvalid(c)
                  [] OTHER -> Succeed([c EXCEPT !.on = TRUE, !.vmxon = p, !.cur = None])

Vmxoff(c) == Succeed([Flush(c) EXCEPT !.on = FALSE, !.cur = None])

Vmclear(c, p) ==
  CASE p = Unmapped   -> Raise(c, "pf")
    [] p = Misaligned -> FailValid(c, 2)
    [] p = c.vmxon    -> FailValid(c, 3)
    [] p = c.cur      -> Succeed([Flush(SetLaunched(c, 0)) EXCEPT !.cur = None])
    [] OTHER          -> Succeed([c EXCEPT !.mem[p][LaunchSlot] = Val(0)])

Vmptrld(c, p) ==
  CASE p = Unmapped   -> Raise(c, "pf")
    [] p = Misaligned -> FailValid(c, 9)
    [] p = c.vmxon    -> FailValid(c, 10)
    [] p = Blank      -> FailValid(c, 11)
    [] p = c.cur      -> Succeed(c)
    [] OTHER          -> Succeed(Load(Flush(c), p))

(* VMPTRST, VMREAD: what they store goes to memory or a register, kept in got *)
Vmptrst(c, p) == IF p = Unmapped THEN Raise(c, "pf") ELSE Succeed([c EXCEPT !.got = Val(c.cur)])
Vmread(c, e, p) ==
  CASE c.cur = None -> FailInvalid(c)
    [] c.cur # None /\ ~Known(e) -> FailValid(c, 12)
    [] OTHER -> IF p = Unmapped THEN Raise(c, "pf") ELSE Succeed([c EXCEPT !.got = Read(c.work, e)])
Vmwrite(c, e, v, p) ==
  CASE c.cur = None -> FailInvalid(c)
    [] c.cur # None /\ ~Known(e) -> FailValid(c, 12)
    [] c.cur # None /\ Known(e) /\ ReadOnly(e) -> FailValid(c, 13)
    [] OTHER -> IF p = Unmapped THEN Raise(c, "pf") ELSE Succeed([c EXCEPT !.work = Write(@, e, v)])

(* nothing is tagged: INVVPID has nothing left to invalidate, INVEPT always fails *)
Invalidate(c, op, type) == IF op = "invept" \/ type > 3 THEN FailValid(c, 28) ELSE Succeed(c)

(* IA32_FEATURE_CONTROL, until it is locked *)
SetFeature(c, bits) == IF "lock" \in c.feature THEN Raise(c, "gp") ELSE [c EXCEPT !.feature = bits]
=============================================================================
