----------------------------- MODULE Hypervisor -----------------------------
(***************************************************************************)
(* The CPU (cpu.rs, step and run) under a hypervisor and its guest, or under   *)
(* an operating system alone (native).  A step is split where rip_start is     *)
(* set: first the events (window, exception, interrupt), then an instruction.  *)
(*                                                                         *)
(* The guest runs a program of End instructions, then spins.  Each is any     *)
(* instruction of the subject, chosen when it runs; so are those of handlers,  *)
(* which return at their second.  The hypervisor does what its own manual says: *)
(* it skips an instruction it has emulated by the length reported, retries one  *)
(* whose fault it has repaired, or hands the exception to the guest.           *)
(***************************************************************************)
EXTENDS VmExit
CONSTANTS End, MaxEvents,     \* bounds: instructions, interrupts
          MaxDepth, MaxSteps,  \* bounds: frames on a stack, VMX instructions
          Setups(_),           \* control structures of a subject
          Tables,              \* sets of vectors an interrupt table may cover
          RootOps,             \* what a hypervisor tries on its regions
          Bits                 \* values of CR0 a guest writes

VARIABLES c, subject, phase, hist
vars == <<c, subject, phase, hist>>

Vectors == {"ud", "gp", "pf", "bp", "irq", "df"}
Subjects == {"regions", "guest", "shadow", "native"}
First == CHOOSE p \in Regions : TRUE
Memory == Regions \cup {Blank, Own}
Hosted == {"guest", "shadow"}

ASSUME BoundAssumption == End \in Nat
ASSUME MemoryAssumption ==
  /\ Regions # {} /\ Blank \notin Regions /\ {Own, Misaligned, Unmapped} \cap (Regions \cup {Blank}) = {}
  /\ None \notin Memory \cup {Misaligned, Unmapped} \cup Vectors
  /\ None \notin [vector : Vectors, soft : BOOLEAN] \cup [vector : Vectors, code : SUBSET {"w"}]

(* the fields that the CPU looks at *)
Named == {PinCtls, CpuCtls, CpuCtls2, ExitCtls, EntryCtls, ExceptionBitmap, PfErrorMask, PfErrorMatch, Cr3Targets,
          IoBitmap, MsrBitmap, EntryIntrInfo, EntryInstrLen, ExitReason, ExitIntrInfo, ExitInstrLen, Cr0Mask,
          Cr0Shadow, GuestCr0, GuestEnv, GuestEfer, GuestRip, GuestFlags, GuestActivity, HostCr0, HostEnv,
          HostCr4, HostRip, HostEfer, InstructionError}
Field == {e \in Encodings : Known(e) /\ ~High(e)}
ASSUME FieldAssumption ==         \* no two name one slot: bit 12 of an encoding, which the code ignores, is clear
  /\ Named \subseteq Field /\ Encodings \subseteq Nat
  /\ \A e, g \in Field : Slot(e) = Slot(g) => e = g

(* the host area and the controls of a hypervisor that follows its manual, and a guest at its start *)
Structure(w) == w = [t \in Slots |-> [lo |-> w[t].lo, hi |-> w[t].hi]]
At(w, e)     == w[Slot(e)].lo
Prepared(w) ==
  /\ \A e \in {PinCtls, CpuCtls, CpuCtls2, ExitCtls, EntryCtls} : "unsupported" \notin At(w, e)
  /\ "hostlong" \in At(w, ExitCtls) /\ At(w, HostEfer) = TRUE /\ At(w, HostCr0) = CR0Fixed /\ At(w, HostCr4) = TRUE
  /\ At(w, HostEnv) = "host" /\ At(w, HostRip) = Place("host", 1)
  /\ At(w, EntryIntrInfo) = None /\ At(w, EntryInstrLen) = 1 /\ At(w, ExitReason) = "none" /\ At(w, ExitIntrInfo) = None
  /\ CR0Fixed \subseteq At(w, Cr0Mask) /\ At(w, GuestCr0) = CR0Fixed /\ At(w, GuestEnv) = "a"
  /\ At(w, GuestRip) = Place("main", 0) /\ At(w, GuestFlags) = FALSE /\ At(w, GuestActivity) = FALSE
ASSUME SetupAssumption ==
  \A s \in Subjects : \A w \in Setups(s) :
    /\ Structure(w)
    /\ s \in Hosted => Prepared(w)
    /\ s = "native" => At(w, EntryIntrInfo) = None
(* what it tries on regions: any instruction, on any of them *)
ASSUME RootAssumption ==
  \A i \in RootOps : /\ i.op \in VmxOps /\ i.p \in Memory \cup {Misaligned, Unmapped} /\ i.e \in Nat
                     /\ i.v = [lo |-> i.v.lo, hi |-> i.v.hi] /\ (i.op = "vmwrite" => i.e \in Encodings)

New(s, work, table, feature) ==
  LET at == IF s = "native" THEN Place("main", 0) ELSE Place("host", 1)
  IN  [on |-> s \in Hosted, feature |-> feature,
       vmxon |-> IF s \in Hosted THEN Own ELSE None, cur |-> IF s \in Hosted THEN First ELSE None,
       work |-> work, mem |-> [p \in Memory |-> work], result |-> "succeed", got |-> Val({}),
       rip |-> at, start |-> at, ifl |-> FALSE, halt |-> FALSE, cr0 |-> CR0Fixed, vmxe |-> TRUE,
       env |-> IF s = "native" THEN "a" ELSE "host", long |-> TRUE, pend |-> None, guest |-> FALSE,
       irq |-> FALSE, idt |-> table, reset |-> FALSE, stack |-> [w \in {"host", "guest"} |-> <<>>]]

(* what the program has done: the instruction due, its flag and registers, CR0 as it  *)
(* should see it and as it last read it; interrupts raised for it or the hypervisor, those whose handler has  *)
(* returned, those told to the hypervisor; what the hypervisor owes the last exit; and    *)
(* whether the delivery of an event other than a page fault has been torn by one         *)
Init ==
  \E s \in Subjects, table \in Tables : \E work \in Setups(s) :
    \E bits \in {{}, {"lock", "vmx"}} :
    /\ (s # "native" => table = Vectors) /\ (s \in Hosted => bits # {}) /\ (s = "native" => bits = {})
    /\ subject = s /\ phase = "event" /\ c = New(s, work, table, bits)
    /\ hist = [due |-> 0, ifl |-> FALSE, env |-> "a", sees |-> Masked(c), saw |-> {}, raised |-> 0, ended |-> 0,
               reported |-> 0, owes |-> "none", torn |-> FALSE, steps |-> 0]

-----------------------------------------------------------------------------
(* Steps.                                                                    *)

RaiseLine ==
  /\ ~c.irq /\ hist.raised < MaxEvents /\ phase = "event"
  /\ c' = [c EXCEPT !.irq = TRUE] /\ hist' = [hist EXCEPT !.raised = @ + 1]
  /\ UNCHANGED <<subject, phase>>

(* what an exit leaves the hypervisor to do *)
Fatal(d) == F(d, ExitReason) = "triple" \/ F(d, ExitIntrInfo) = "df"
Owes(d) == CASE Fatal(d) -> "burial"
             [] ~Fatal(d) /\ F(d, ExitReason) = "exception" -> "repair"
             [] ~Fatal(d) /\ F(d, ExitReason) \in {"interrupt", "window"} -> "none"
             [] OTHER -> "skip"
Told(d) == F(d, ExitReason) = "interrupt" /\ F(d, ExitIntrInfo) = "irq"
Exited(h, d) ==
  IF c.guest /\ ~d.guest
  THEN [h EXCEPT !.owes = Owes(d), !.reported = @ + (IF Told(d) THEN 1 ELSE 0)] ELSE h

(* the pushes that may fault; a hypervisor that follows its manual keeps its own stack in memory *)
Plans(x) == IF x.guest \/ subject = "native" THEN 0..2 ELSE {0}
(* a fault in the pushes of another event than a page fault is left pending, at a handler on half a frame *)
Torn(h, vector, d) == [h EXCEPT !.torn = @ \/ (vector # "pf" /\ d.pend # None)]
Room(x) == Len(x.stack[Who(x)]) < MaxDepth

Events ==
  /\ phase = "event" /\ ~c.halt
  /\ LET p == PreStep(c)
     IN  \E poll \in BOOLEAN, bad \in Plans(p) :
           LET d == CASE p.pend # None -> Dispatch([p EXCEPT !.pend = None], p.pend, bad)
                      [] p.pend = None /\ poll -> Delivered(p, bad)
                      [] OTHER -> p
               vector == IF p.pend # None THEN p.pend.vector ELSE "irq"
               trapped == p.pend # None /\ p.pend.vector \in Traps /\ d.guest = p.guest /\ c.start.code = "main"
           IN  /\ poll => p.pend = None /\ Takes(p)
               /\ c' = [d EXCEPT !.start = d.rip]
               /\ hist' = Torn(Exited(IF trapped THEN [hist EXCEPT !.due = @ + 1] ELSE hist, d), vector, d)
  /\ phase' = "exec" /\ UNCHANGED subject

(* run, with the CPU parked: a fault in the pushes finds rip_start at the HLT *)
Park ==
  /\ phase = "event" /\ c.halt /\ ~c.reset /\ Takes(c)
  /\ \E bad \in Plans(c) : c' = [Delivered(c, bad) EXCEPT !.halt = FALSE]
  /\ hist' = Torn(Exited(hist, c'), "irq", c') /\ UNCHANGED <<subject, phase>>

(* the end of an instruction: x has been decoded, d is what it did *)
Next1(x) == IF x.rip.code = "host" THEN Place("host", 1)
            ELSE [x.rip EXCEPT !.at = IF x.rip.code = "main" /\ @ = End THEN @ ELSE @ + 1]
Decoded == [c EXCEPT !.rip = Next1(c)]
Done(d, h) == /\ phase = "exec" /\ c.pend = None /\ phase' = "event" /\ UNCHANGED subject
              /\ c' = d /\ hist' = Exited(h, d)
(* with a fault pending it is not executed *)
Defers == /\ phase = "exec" /\ c.pend # None /\ phase' = "event"
          /\ c' = Decoded /\ UNCHANGED <<subject, hist>>
Retired(h) == IF c.rip.code = "main" /\ c.rip.at < End THEN [h EXCEPT !.due = @ + 1] ELSE h
Runs(ins, d, h) == IF c.guest /\ Exits(Decoded, ins) THEN Done(VmExit(Decoded, ins.op, None), hist)
                   ELSE Done(d, Retired(h))
Op(o) == [op |-> o, arg |-> None]
Running == c.guest \/ subject = "native"
InMain == c.rip.code = "main" /\ Running
Free == InMain /\ c.rip.at < End

(* a fetch from a page that is not there; a stored page that is not *)
FetchFaults == Free /\ Room(c) /\ Done(Raise(c, "pf"), hist)
Faults == \E v \in {"ud", "gp", "pf"} :
  (Free \/ (c.rip.code \in {"irq", "ud"} /\ c.rip.at = 0 /\ Running)) /\ Room(c) /\ Done(Raise(Decoded, v), hist)
Int3 == Free /\ Room(c) /\ Done(Raise(Decoded, "bp"), hist)
Spins == ((InMain /\ c.rip.at = End) \/ c.rip.code \in {"df", "lost"}) /\ Done(c, hist)
SetFlag == \E v \in BOOLEAN :
  Free /\ subject \in {"guest", "native"} /\ Done([Decoded EXCEPT !.ifl = v], Retired([hist EXCEPT !.ifl = v]))
SetEnv == \E v \in {"a", "b"} :
  Free /\ subject = "guest" /\ Done([Decoded EXCEPT !.env = v], Retired([hist EXCEPT !.env = v]))
Halts == Free /\ subject \in {"guest", "native"} /\ Runs(Op("hlt"), [Decoded EXCEPT !.halt = TRUE], hist)
Others == \E o \in {"cpuid", "rdtsc", "rdtscp", "wbinvd", "vmcall"} :
  /\ subject # "native" /\ (Free \/ (c.rip.code = "irq" /\ c.rip.at = 0 /\ c.guest))
  /\ IF o = "rdtscp" /\ NoRdtscp(c) /\ ~Exits(c, Op(o)) THEN Room(c) /\ Done(Raise(Decoded, "ud"), hist)
     ELSE Runs(Op(o), Decoded, hist)
Ports == \E o \in {"io", "loadcr3", "rdmsr", "wrmsr"}, a \in {0, 1} :
  Free /\ subject = "shadow" /\ Runs([op |-> o, arg |-> a], Decoded, hist)

(* handlers: an instruction, and the return; half a frame leads anywhere *)
Handles == c.rip.code \in Vectors \ {"df"} /\ c.rip.at = 0 /\ Done(Decoded, hist)
Popped(f) == IF f.whole THEN {[rip |-> f.rip, ifl |-> f.ifl]} ELSE [rip : {Place("lost", 0)}, ifl : BOOLEAN]
Iret ==
  /\ c.rip.code \in Vectors \ {"df"} /\ c.rip.at = 1
  /\ LET s == c.stack[Who(c)]
     IN  \E b \in Popped(s[Len(s)]) :
           Done([c EXCEPT !.rip = b.rip, !.ifl = b.ifl, !.stack[Who(c)] = SubSeq(s, 1, Len(s) - 1)],
                [hist EXCEPT !.ended = @ + (IF c.rip.code = "irq" THEN 1 ELSE 0)])

(* CR0 in the guest: `sees` is what it should read *)
WritesCr0 == \E v \in Bits :
  Free /\ subject = "shadow"
  /\ Runs([op |-> "tocr0", arg |-> v], [Decoded EXCEPT !.cr0 = Owned(c, v)], [hist EXCEPT !.sees = v])
ReadsCr0 == Free /\ subject = "shadow" /\ Runs(Op("fromcr0"), [Decoded EXCEPT !.got = Val(Masked(c))],
                 [hist EXCEPT !.saw = hist.sees])
Clts == Free /\ subject = "shadow"
  /\ Runs(Op("clts"), [Decoded EXCEPT !.cr0 = @ \ {"TS"}], [hist EXCEPT !.sees = @ \ {"TS"}])
Loaded(r, v) == (r \ (Low \ {"PE"})) \cup (v \cap Low)
Lmsw == \E v \in Bits :
  Free /\ subject = "shadow"
  /\ Runs([op |-> "lmsw", arg |-> v], [Decoded EXCEPT !.cr0 = Loaded(@, v)], [hist EXCEPT !.sees = Loaded(@, v)])

-----------------------------------------------------------------------------
(* The hypervisor.                                                          *)

AtHost == c.rip.code = "host" /\ subject # "native" /\ ~c.guest
Vmx(i, h) == Done(ExecuteVmx(Decoded, i, 0), h)
Instr(op, e, x) == [op |-> op, p |-> None, e |-> e, v |-> Val(x)]
Working == AtHost /\ subject \in Hosted

RootTries == \E i \in RootOps :
  AtHost /\ subject = "regions" /\ hist.steps < MaxSteps
  /\ Vmx(i, [hist EXCEPT !.steps = @ + 1, !.owes = "none"])
SetsFeature == \E bits \in SUBSET {"lock", "vmx"} :
  AtHost /\ subject = "regions" /\ hist.steps < MaxSteps
  /\ Done(SetFeature(Decoded, bits), [hist EXCEPT !.steps = @ + 1])

(* it skips what it has emulated ... *)
Past == [F(c, GuestRip) EXCEPT !.at = @ + F(c, ExitInstrLen)]
OnCr0 == F(c, ExitReason) \in {"clts", "lmsw", "tocr0"}
Skips == /\ Working /\ (hist.owes = "past" \/ (hist.owes = "skip" /\ ~OnCr0))
         /\ Vmx(Instr("vmwrite", GuestRip, Past),
                [hist EXCEPT !.owes = "none", !.due = @ + (IF F(c, GuestRip).code = "main" THEN 1 ELSE 0)])
(* ... first granting a write of CR0, through the shadow and what the guest owns ... *)
Grants == \E v \in Bits : /\ Working /\ hist.owes = "skip" /\ OnCr0
                         /\ Vmx(Instr("vmwrite", Cr0Shadow, v), [hist EXCEPT !.owes = "cr0", !.sees = v])
GrantsOwn == LET m == F(c, Cr0Mask)
             IN  /\ Working /\ hist.owes = "cr0"
                 /\ Vmx(Instr("vmwrite", GuestCr0, (F(c, GuestCr0) \cap m) \cup (F(c, Cr0Shadow) \ m)),
                        [hist EXCEPT !.owes = "past"])
(* ... retries what it has repaired, or hands the exception on: a trap with its length ... *)
Repairs == Working /\ hist.owes = "repair" /\ F(c, ExitIntrInfo) # "bp" /\ Done(Decoded, [hist EXCEPT !.owes = "none"])
Hands == /\ Working /\ hist.owes = "repair"
         /\ LET v == F(c, ExitIntrInfo)
            IN  Vmx(Instr("vmwrite", EntryIntrInfo, Event(v, v = "bp")), [hist EXCEPT !.owes = "entry"])
(* ... interrupts the guest when it may be, or asks for the window ... *)
Injects == /\ Working /\ hist.owes = "none" /\ F(c, GuestFlags) /\ F(c, EntryIntrInfo) = None
           /\ hist.raised < MaxEvents /\ Len(c.stack["guest"]) < MaxDepth
           /\ Vmx(Instr("vmwrite", EntryIntrInfo, Event("irq", FALSE)), [hist EXCEPT !.raised = @ + 1])
Asks == \E x \in {"window"} :
  /\ Working /\ hist.owes = "none" /\ subject = "guest"
  /\ Vmx(Instr("vmwrite", CpuCtls, Differ(F(c, CpuCtls), {x})), hist)
(* ... lets its own interrupts in, and resumes; an event that faults badly enough exits again *)
Opens == Working /\ c.irq /\ ~c.ifl /\ Done([Decoded EXCEPT !.ifl = TRUE], hist)
Resumes == /\ Working /\ hist.owes \in {"none", "entry"} /\ c.stack["host"] = <<>>
           /\ \E bad \in 0..2 :
                LET d == ExecuteVmx(Decoded, Instr(IF Launched(c) THEN "vmresume" ELSE "vmlaunch", 0, 0), bad)
                    i == F(c, EntryIntrInfo)
                    trap == i # None /\ i.soft /\ F(c, GuestRip).code = "main"
                    h == [hist EXCEPT !.owes = IF d.guest THEN "none" ELSE Owes(d), !.due = @ + (IF trap THEN 1 ELSE 0)]
                IN  Done(d, IF i = None THEN h ELSE Torn(h, i.vector, d))

Guest == \/ Defers \/ FetchFaults \/ Faults \/ Int3 \/ Spins \/ SetFlag \/ SetEnv \/ Halts \/ Others \/ Ports
         \/ Handles \/ Iret \/ WritesCr0 \/ ReadsCr0 \/ Clts \/ Lmsw
Host == \/ RootTries \/ SetsFeature \/ Skips \/ Grants \/ GrantsOwn \/ Repairs \/ Hands \/ Injects \/ Asks \/ Opens \/ Resumes
Next == RaiseLine \/ Events \/ Park \/ Guest \/ Host
Spec == Init /\ [][Next]_vars

-----------------------------------------------------------------------------
(* Properties.                                                               *)

(* What a program was doing: running, under its handlers, or put away in the VMCS.  A     *)
(* fault not yet delivered leaves it at the instruction, as does a trap.                  *)
Mine == IF subject = "native" THEN "host" ELSE "guest"
Position ==
  CASE c.stack[Mine] # <<>>             -> LET f == Head(c.stack[Mine]) IN <<f.rip, f.ifl>>
    [] c.stack[Mine] = <<>> /\ Running  -> <<IF c.pend = None THEN c.rip ELSE c.start, c.ifl>>
    [] c.stack[Mine] = <<>> /\ ~Running -> <<F(c, GuestRip), F(c, GuestFlags)>>
(* a double or a triple fault ends a program *)
Broken == c.reset \/ Fatal(c) \/ "df" \in {c.rip.code, F(c, GuestRip).code}

(* A program under a hypervisor goes on where it was after any exits, injections and         *)
(* interrupts: no instruction is skipped or done twice, and its flag and registers are       *)
(* those it set (save_guest_state, load_guest_state, and the lengths that vm_exit reports).  *)
(* A torn delivery ends that: its handler returns by half a frame, or its event is lost.     *)
GuestIntact ==
  subject # "regions" /\ ~Broken /\ ~hist.torn =>
    /\ Position = <<Place("main", hist.due), hist.ifl>>
    /\ hist.env = IF Running THEN c.env ELSE F(c, GuestEnv)

(* Out of a guest the hypervisor has its own registers and mode, whatever the guest's were,  *)
(* awake and with no fault of the guest's pending (load_host_state).                         *)
HostIntact ==
  subject \in Hosted /\ ~c.guest =>
    /\ c.env = "host" /\ c.cr0 = CR0Fixed /\ c.vmxe /\ c.long /\ ~c.halt /\ ~c.reset
    /\ c.rip.code \in {"host", "irq"} /\ c.pend = None

(* An interrupt is where it should be exactly once: on the line, in the entry's event, in a   *)
(* handler that has not returned, or told to the hypervisor by an exit that acknowledged it   *)
(* (interrupt_exit, and the field that vm_entry consumes); until a triple fault or the exit    *)
(* of a double one ends the program, or a fault tears the delivery of an event.               *)
Frames(w) == {i \in DOMAIN c.stack[w] : c.stack[w][i].whole /\ c.stack[w][i].rip.code = "irq"}
One(b) == IF b THEN 1 ELSE 0
EventsKept ==
  subject # "regions" /\ ~c.reset /\ ~Fatal(c) /\ ~hist.torn =>
    hist.raised = One(c.irq) + One(F(c, EntryIntrInfo) # None /\ F(c, EntryIntrInfo).vector = "irq")
                  + One(c.rip.code = "irq") + One(~Running /\ F(c, GuestRip).code = "irq")
                  + Cardinality(Frames("host")) + Cardinality(Frames("guest"))
                  + hist.ended + hist.reported

(* The handler of a page fault or a double fault, running or put away, has the frame it will  *)
(* return by, whatever faults have met the pushes of whatever deliveries: its own pushes      *)
(* escalate.  Another event's do not, and start its handler on half a frame; until one's      *)
(* have faulted, every handler has its frame (dispatch_exception_raw).                        *)
Whole(frames) == frames # <<>> /\ frames[Len(frames)].whole
Framed == IF hist.torn THEN {"pf", "df"} ELSE Vectors
HandlerHasFrame ==
  subject # "regions" /\ ~c.reset =>
    /\ c.rip.code \in Framed => Whole(c.stack[Who(c)])
    /\ ~Running /\ ~Broken /\ F(c, GuestRip).code \in Framed => Whole(c.stack["guest"])

(* A guest reads of CR0 what it last wrote or was granted, although the bits the hypervisor    *)
(* owns keep their own values (intercept, cr_write_intercept).                                *)
GuestSees == subject = "shadow" => c.got.lo = hist.saw

(* The working copy and the regions together are the structures the manual promises, and no    *)
(* run of a guest changes a control or the host's state (flush_vmcs, load_vmcs, set_launched). *)
Work(p) == IF c.cur = p THEN c.work ELSE c.mem[p]
Structures == INSTANCE VmcsStore WITH
  Region <- Memory, Nowhere <- None, ErrorField <- InstructionError,
  Reported <- {e \in Field : Type(e) \in {1, 2} \/ e = EntryIntrInfo}, Fixed <- {e \in Field : ReadOnly(e)},
  current <- c.cur, data <- [p \in Memory |-> [e \in Field |-> Work(p)[Slot(e)]]],
  launched <- [p \in Memory |-> Work(p)[LaunchSlot].lo = 1]
ImplementsStore == Structures!Spec
=============================================================================
