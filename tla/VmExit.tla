------------------------------- MODULE VmExit -------------------------------
(***************************************************************************)
(* VM entries and exits and what causes them (vmx.rs), and the delivery of    *)
(* exceptions and interrupts (cpu.rs, dispatch_exception and                 *)
(* deliver_hardware_interrupt), which asks whether to exit instead.          *)
(*                                                                         *)
(* Of the CPU: rip and start (rip_start), the interrupt flag, halted, CR0,     *)
(* CR4.VMXE, long mode, env for all other registers that entries and exits     *)
(* load, the pending exception, guest (in_guest), irq (a line the PIC would     *)
(* deliver), idt (the vectors its table covers), reset (triple_fault).  A       *)
(* place is a code and an instruction of it; a vector's handler is a code of     *)
(* its name.  The stacks of host and guest hold the frames of their handlers.   *)
(***************************************************************************)
EXTENDS Vmcs

PinCtls == \h4000
CpuCtls == \h4002
CpuCtls2 == \h401E
ExitCtls == \h400C
EntryCtls == \h4012
ExceptionBitmap == \h4004
PfErrorMask == \h4006
PfErrorMatch == \h4008
Cr3Targets == \h6008
IoBitmap == \h2000
MsrBitmap == \h2004
EntryIntrInfo == \h4016
EntryInstrLen == \h401A
ExitReason == \h4402
ExitIntrInfo == \h4404
ExitInstrLen == \h440C
Cr0Mask == \h6000
Cr0Shadow == \h6004
GuestCr0 == \h6800
GuestEnv == \h6802
GuestEfer == \h2806
GuestRip == \h681E
GuestFlags == \h6820
GuestActivity == \h4826
HostCr0 == \h6C00
HostEnv == \h6C02
HostCr4 == \h6C04
HostRip == \h6C16
HostEfer == \h2C02

Place(code, n) == [code |-> code, at |-> n]
Event(vector, soft) == [vector |-> vector, soft |-> soft]

-----------------------------------------------------------------------------
(* Entry and exit.                                                          *)

Supported(ctl, e) == "unsupported" \notin F(ctl, e)
(* the error of a VM entry, or 0 *)
CheckControls(c) ==
  CASE \/ \E e \in {PinCtls, CpuCtls, ExitCtls, EntryCtls} : ~Supported(c, e)
       \/ "secondary" \in F(c, CpuCtls) /\ ~Supported(c, CpuCtls2) -> 7
    [] OTHER -> IF \/ ~(CR0Fixed \subseteq F(c, HostCr0)) \/ ~F(c, HostCr4)
                   \/ "hostlong" \notin F(c, ExitCtls) /\ Read(c.work, HostRip).hi # 0
                THEN 8 ELSE 0

Saved(c, rip) ==
  LET system == Put(Put(Put(c, GuestCr0, c.cr0), GuestEnv, c.env), GuestEfer, c.long)
  IN  Put(Put(Put(system, GuestRip, rip), GuestFlags, c.ifl), GuestActivity, c.halt)
SlipSaveGuest(c, rip) == Saved(c, c.rip)
SaveGuest(c, rip)     == Saved(c, rip)

LoadGuest(c) ==
  [c EXCEPT !.cr0 = F(c, GuestCr0) \cup CR0Fixed, !.vmxe = TRUE, !.env = F(c, GuestEnv),
            !.long = IF "loadefer" \in F(c, EntryCtls) THEN F(c, GuestEfer) ELSE "ia32e" \in F(c, EntryCtls),
            !.rip = F(c, GuestRip), !.ifl = F(c, GuestFlags), !.halt = F(c, GuestActivity)]

SlipLoadHost(c) ==
  [c EXCEPT !.cr0 = F(c, HostCr0), !.vmxe = F(c, HostCr4), !.env = F(c, HostEnv),
            !.long = IF "loadefer" \in F(c, ExitCtls) THEN F(c, HostEfer) ELSE c.long,
            !.rip = F(c, HostRip), !.ifl = FALSE, !.halt = FALSE, !.pend = None]
LoadHost(c) ==
  [c EXCEPT !.cr0 = F(c, HostCr0), !.vmxe = F(c, HostCr4), !.env = F(c, HostEnv),
            !.long = IF "loadefer" \in F(c, ExitCtls) THEN F(c, HostEfer) ELSE "hostlong" \in F(c, ExitCtls),
            !.rip = F(c, HostRip), !.ifl = FALSE, !.halt = FALSE, !.pend = None]

(* between instructions the guest goes on where it is; else the instruction exits *)
Between == {"interrupt", "window", "triple"}
VmExit(c, reason, vector) ==
  LET d == SaveGuest(c, IF reason \in Between THEN c.rip ELSE c.start)
      len == IF reason \in Between THEN 0 ELSE c.rip.at - c.start.at
      told == Put(Put(Put(d, ExitReason, reason), ExitInstrLen, len), ExitIntrInfo, vector)
  IN  LoadHost([told EXCEPT !.guest = FALSE])

-----------------------------------------------------------------------------
(* Exceptions and interrupts.  `bad` of the deliveries of one step find the   *)
(* stack not present.                                                       *)

Traps == {"bp", "of"}
Contributory == {"de", "ts", "np", "ss", "gp"}
SlipEscalates(first, second) == first \in Contributory /\ second \in Contributory
Escalates(first, second) == \/ first = "pf" /\ second \in Contributory \cup {"pf"}
                            \/ first \in Contributory /\ second \in Contributory

Who(c) == IF c.guest THEN "guest" ELSE "host"
Frame(c, whole) == [rip |-> c.rip, ifl |-> c.ifl, whole |-> whole]
Gated(c, v, whole) ==
  [c EXCEPT !.stack[Who(c)] = Append(@, Frame(c, whole)), !.ifl = FALSE, !.rip = Place(v, 0)]
(* the pushes that fault leave the rest of the entry to run, and a page fault pending *)
Entered(c, v, bad) == IF bad = 0 THEN Gated(c, v, TRUE) ELSE Raised(Gated(c, v, FALSE), Fault("pf", {"w"}))

TripleFault(c) == IF c.guest THEN VmExit(c, "triple", None) ELSE [c EXCEPT !.reset = TRUE, !.halt = TRUE]

ExceptionExits(c, x) ==
  /\ x.vector \in F(c, ExceptionBitmap)
  /\ x.vector = "pf" => x.code \cap F(c, PfErrorMask) = F(c, PfErrorMatch)
ExceptionExit(c, x) == VmExit([c EXCEPT !.rip = c.start], "exception", x.vector)
AtFault(c, x) == [c EXCEPT !.rip = IF x.vector \in Traps THEN @ ELSE c.start]

DoubleFaultRaw(c, bad) ==
  LET e == Entered(c, "df", bad)
  IN  CASE "df" \notin c.idt -> TripleFault(c)
        [] "df" \in c.idt /\ e.pend # None -> TripleFault([e EXCEPT !.pend = None])
        [] OTHER -> e
DoubleFault(c, bad) ==
  LET x == Fault("df", {})  d == AtFault(c, x)
  IN  IF d.guest /\ ExceptionExits(d, x) THEN ExceptionExit(d, x) ELSE DoubleFaultRaw(d, bad)

DispatchRaw(c, x, bad) ==
  LET d == AtFault(c, x)  e == Entered(d, x.vector, bad)
  IN  CASE x.vector = "df" -> DoubleFaultRaw(d, bad)
        [] x.vector # "df" /\ x.vector \notin c.idt -> TripleFault(d)
        [] OTHER -> IF e.pend # None /\ Escalates(x.vector, e.pend.vector)
                    THEN DoubleFault([e EXCEPT !.pend = None], bad - 1) ELSE e
Dispatch(c, x, bad) ==
  IF c.guest /\ ExceptionExits(c, x) THEN ExceptionExit(AtFault(c, x), x) ELSE DispatchRaw(c, x, bad)

(* the boundary of IRQ_CHECK_INTERVAL, with a line to deliver *)
SlipInterruptExit(c) ==
  VmExit([c EXCEPT !.irq = FALSE], "interrupt", IF "ack" \in F(c, ExitCtls) THEN "irq" ELSE None)
InterruptExit(c) ==
  IF "ack" \in F(c, ExitCtls) THEN VmExit([c EXCEPT !.irq = FALSE], "interrupt", "irq")
  ELSE VmExit(c, "interrupt", None)
Takes(c) == c.irq /\ c.ifl
Interrupted(c, bad) ==
  IF c.guest /\ "extint" \in F(c, PinCtls) THEN InterruptExit(c)
  ELSE Entered([c EXCEPT !.irq = FALSE], "irq", bad)
Delivered(c, bad) == IF Takes(c) THEN Interrupted(c, bad) ELSE c

VmEntry(c, bad) ==
  LET d == [SetLaunched(LoadGuest(c), 1) EXCEPT !.guest = TRUE]
      i == F(c, EntryIntrInfo)
      to == IF i.soft THEN [d.rip EXCEPT !.at = @ + F(c, EntryInstrLen)] ELSE d.rip
  IN  IF i = None THEN d
      ELSE DispatchRaw([Put(d, EntryIntrInfo, None) EXCEPT !.rip = to, !.start = to, !.halt = FALSE],
                       Fault(i.vector, {}), bad)

VmLaunch(c, op, bad) ==
  CASE c.cur = None -> FailInvalid(c)
    [] c.cur # None /\ op = "vmlaunch" /\ Launched(c)  -> FailValid(c, 4)
    [] c.cur # None /\ op = "vmresume" /\ ~Launched(c) -> FailValid(c, 5)
    [] OTHER -> IF CheckControls(c) # 0 THEN FailValid(c, CheckControls(c)) ELSE VmEntry(c, bad)

-----------------------------------------------------------------------------
(* Instructions of a guest that exit, or run with the masks of CR0.           *)

VmxOps == {"vmcall", "vmclear", "vmlaunch", "vmptrld", "vmptrst", "vmread", "vmresume", "vmwrite",
           "vmxoff", "vmxon", "invept", "invvpid"}
Always == VmxOps \cup {"cpuid", "xsetbv", "invd"}
(* named like their controls *)
Controlled == {"hlt", "invlpg", "rdtsc", "mwait", "monitor", "pause", "storecr3", "loadcr8", "storecr8", "movdr"}
Low == {"PE", "MP", "EM", "TS"}
Differ(s, t) == (s \ t) \cup (t \ s)

Exits(c, ins) ==
  LET ctl == F(c, CpuCtls)  ctl2 == IF "secondary" \in ctl THEN F(c, CpuCtls2) ELSE {}
      mask == F(c, Cr0Mask)  shadow == F(c, Cr0Shadow)
  IN  \/ ins.op \in Always \cup (Controlled \cap ctl)
      \/ ins.op = "rdtscp" /\ "rdtsc" \in ctl
      \/ ins.op = "wbinvd" /\ "wbinvd" \in ctl2
      \/ ins.op \in {"rdmsr", "wrmsr"} /\ ("msrbitmaps" \in ctl => <<ins.op, ins.arg>> \in F(c, MsrBitmap))
      \/ ins.op = "io" /\ ("io" \in ctl \/ ("iobitmaps" \in ctl /\ ins.arg \in F(c, IoBitmap)))
      \/ ins.op = "loadcr3" /\ "loadcr3" \in ctl /\ ins.arg \notin F(c, Cr3Targets)
      \/ ins.op = "tocr0" /\ Differ(ins.arg, shadow) \cap mask # {}
      \/ ins.op = "clts" /\ "TS" \in mask \cap shadow
      \/ ins.op = "lmsw" /\ Differ((ins.arg \cap Low) \cup (c.cr0 \cap {"PE"}), shadow) \cap mask \cap Low # {}

(* what the guest sees of CR0, and what its writes do *)
SlipMasked(c) == c.cr0
Masked(c) == (c.cr0 \ F(c, Cr0Mask)) \cup (F(c, Cr0Shadow) \cap F(c, Cr0Mask))
Owned(c, v) == (v \ F(c, Cr0Mask)) \cup (c.cr0 \cap F(c, Cr0Mask))
NoRdtscp(c) == ~("secondary" \in F(c, CpuCtls) /\ "rdtscp" \in F(c, CpuCtls2))

(* the VMX instructions of the root *)
ExecuteVmx(c, i, bad) ==
  CASE i.op # "vmxon" /\ ~c.on -> Raise(c, "ud")
    [] i.op = "vmxon" -> Vmxon(c, i.p)
    [] OTHER -> CASE i.op = "vmxoff"  -> Vmxoff(c)
                  [] i.op = "vmclear" -> Vmclear(c, i.p)
                  [] i.op = "vmptrld" -> Vmptrld(c, i.p)
                  [] i.op = "vmptrst" -> Vmptrst(c, i.p)
                  [] i.op = "vmread"  -> Vmread(c, i.e, i.p)
                  [] i.op = "vmwrite" -> Vmwrite(c, i.e, i.v, i.p)
                  [] i.op \in {"vmlaunch", "vmresume"} -> VmLaunch(c, i.op, bad)
                  [] i.op = "vmcall"  -> FailValid(c, 1)
                  [] i.op \in {"invept", "invvpid"} -> Invalidate(c, i.op, i.e)

(* the interrupt window is looked at before anything else *)
PreStep(c) ==
  IF c.guest /\ "window" \in F(c, CpuCtls) /\ c.ifl /\ c.pend = None THEN VmExit(c, "window", None) ELSE c
=============================================================================
