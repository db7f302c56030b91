------------------------------ MODULE Machine ------------------------------
(***************************************************************************)
(* The CPU loop and the devices it polls (src/cpu.rs: run, step and        *)
(* deliver_hardware_interrupt), composed of the interrupt controllers, the *)
(* keyboard controller and the timer.                                      *)
(*                                                                         *)
(* The machine is one record, and one step of the program is one function  *)
(* of it, as in the code: the loop is single-threaded, and what interleaves*)
(* is the guest's program, its interrupt handlers and the devices.  The    *)
(* guest is the constant Program, a set of triples: at a location it may   *)
(* execute an instruction and go on at another.  Of its memory only the    *)
(* frames that interrupts push are modelled.  A hypervisor guest (vmx.rs), *)
(* a triple fault and a fault in the delivery of an interrupt are left to  *)
(* modules of their own; gates are interrupt gates.                        *)
(***************************************************************************)
EXTENDS Integers, Sequences, FiniteSets

CONSTANTS
  Width, Cascade,                   \* the interrupt controllers, as in Pic
  PicBytes, MaskOf, BaseOf,
  Radix, Clocks,                    \* the timer, as in Pit
  KbdBytes, CtrOf,                  \* the keyboard controller, as in Kbd
  DiskIrq,                          \* the line of the virtio disk (11)
  Interval,                         \* IRQ_CHECK_INTERVAL (64)
  KeyInterval,                      \* KEY_INTERVAL (20,000 instructions)
  Location,                         \* where the guest's program can be
  Program,                          \* what it may do there
  Start,                            \* where it starts
  Entry,                            \* its interrupt table: the entry of each vector
  OwnerOf,                          \* whose handler a location belongs to
  Script,                           \* length of the script of keys to type
  MaxDepth                          \* bound of the model: frames on the stack

TimerIrq == 0
KbdIrq   == 1
Fault    == 14                      \* the vector of the fault its instructions raise
NoOwner  == -1

\* The timer and the keyboard are on the master, before the slave's cascade line, and
\* the disk is on the slave (lines 0, 1, 2 and 11).
ASSUME MachineAssumption ==
  /\ Width \in Nat \ {0} /\ Cascade \in 0 .. Width - 1 /\ Cascade > KbdIrq
  /\ DiskIrq \in Width .. 2 * Width - 1 /\ DiskIrq # Fault
  /\ MaskOf \in [PicBytes -> SUBSET (0 .. Width - 1)] /\ BaseOf \in [PicBytes -> Nat]
  /\ Interval \in Nat \ {0} /\ KeyInterval \in Nat
  /\ Start \in Location
  /\ DOMAIN Entry \subseteq Nat /\ \A v \in DOMAIN Entry : Entry[v] \in Location
  /\ OwnerOf \in [Location -> {NoOwner, Fault, TimerIrq, KbdIrq, DiskIrq}]
  /\ Script \in Nat /\ MaxDepth \in Nat

\* The operators named Slip... are slips a change to the code could make, each
\* before the definition it gets wrong: the properties must notice them.

VARIABLE m

P == INSTANCE Pic WITH pic <- m.pic, Bytes <- PicBytes,
                       Sources <- {TimerIrq, KbdIrq, DiskIrq}
K == INSTANCE Kbd WITH kbd <- m.kbd, Bytes <- KbdBytes, Scancodes <- {"key"}, MaxOut <- 0
T == INSTANCE Pit WITH pit <- m.pit, since <- 0, Used <- {}

\* An instruction is a tuple of its name and its operands.
Instruction ==
  { <<name>> : name \in {"nop", "hlt", "sti", "cli", "fault", "iret", "kbdRead", "diskNotify", "diskIsr"} }
  \cup ({"icw1", "eoi"} \X P!Chip)
  \cup ({"picData"} \X P!Chip \X PicBytes)
  \cup ({"kbdWrite"} \X KbdBytes)
  \cup ({"pitControl"} \X (0 .. 3) \X T!Access)
  \cup ({"pitWrite"} \X T!Byte)

ASSUME ProgramAssumption ==
  /\ Program \subseteq Location \X Instruction \X Location
  /\ \A p \in Program : p[2] = <<"fault">> => p[3] = p[1]

\* virtio is the interrupt line of the disk; phase is instructions_executed modulo
\* Interval; gap is how far key_next lies ahead.
New == [ pic    |-> P!New,
         kbd    |-> K!New,
         pit    |-> T!New,
         virtio |-> FALSE,
         script |-> Script,
         gap    |-> 0,
         phase  |-> 0,
         iflag  |-> FALSE,
         halted |-> FALSE,
         fault  |-> FALSE,
         at     |-> Start,
         stack  |-> <<>> ]

----------------------------------------------------------------------------
(* deliver_hardware_interrupt.                                             *)

RaiseIf(x, asserted, irq) == IF asserted THEN [x EXCEPT !.pic = P!RaiseIrq(@, irq)] ELSE x

TimerPolled(x) ==
  LET t == T!Tick(x.pit, Clocks)
  IN  RaiseIf([x EXCEPT !.pit = T!TakeIrq0(t)], t.irq0, TimerIrq)

\* The last key stays in the script.
SlipKeyTyped(x) ==
  IF x.script > 1 /\ x.kbd.driverAttached /\ K!Idle(x.kbd) /\ x.gap = 0
  THEN [x EXCEPT !.script = @ - 1, !.kbd = K!PushScancode(@, "key"), !.gap = KeyInterval]
  ELSE x

\* The next key of the script, once a driver is attached, everything is read and
\* its time has come.
KeyTyped(x) ==
  IF x.script > 0 /\ x.kbd.driverAttached /\ K!Idle(x.kbd) /\ x.gap = 0
  THEN [x EXCEPT !.script = @ - 1,
                 !.kbd = K!PushScancode(@, "key"),
                 !.gap = KeyInterval]
  ELSE x

\* The edge is taken before it is looked at.
SlipKbdPolled(x) ==
  LET y == [x EXCEPT !.kbd = K!TakeIrq1(@)] IN RaiseIf(y, y.kbd.irq1, KbdIrq)

KbdPolled(x) == RaiseIf([x EXCEPT !.kbd = K!TakeIrq1(@)], x.kbd.irq1, KbdIrq)

\* The disk's line is wired to nothing.
SlipDiskPolled(x) == x

\* The disk's line stays asserted until the guest reads its ISR.  (The IDE line
\* is left out: nothing ever sets ide.busy when the loop looks at it.)
DiskPolled(x) == RaiseIf(x, x.virtio, DiskIrq)

Polled(x) == DiskPolled(KbdPolled(KeyTyped(TimerPolled(x))))

\* The frame every interrupt and exception pushes, and its gate.
Entered(x, vector) ==
  [x EXCEPT !.stack = Append(@, [iflag |-> x.iflag, at |-> x.at]),
            !.iflag = FALSE,
            !.at = Entry[vector]]

SlipTaken(x) == P!NextIrq(x.pic)       \* whatever IF says

\* The request the CPU takes: none with IF clear.
Taken(x) == IF x.iflag THEN P!NextIrq(x.pic) ELSE {}

Interrupted(x) ==
  IF Taken(x) = {} THEN x
  ELSE LET irq == CHOOSE i \in Taken(x) : TRUE
       IN  Entered([x EXCEPT !.pic = P!Acknowledged(@, irq)], P!Vector(x.pic, irq))

\* Nothing happens between the boundaries of the check interval.
Delivered(x) == IF x.phase = 0 THEN Interrupted(Polled(x)) ELSE x
SlipDelivers(x) == FALSE           \* run forgets to look at the answer
Delivers(x)  == x.phase = 0 /\ Taken(Polled(x)) # {}

----------------------------------------------------------------------------
(* The instructions of the guest.                                          *)

\* A faulting instruction leaves the location where it was, to be restarted.
Execute(x, i, next) ==
  LET y == [x EXCEPT !.at = next]
  IN  CASE i[1] = "nop"        -> y
        [] i[1] = "hlt"        -> [y EXCEPT !.halted = TRUE]
        [] i[1] = "sti"        -> [y EXCEPT !.iflag = TRUE]
        [] i[1] = "cli"        -> [y EXCEPT !.iflag = FALSE]
        [] i[1] = "fault"      -> [x EXCEPT !.fault = TRUE]
        [] i[1] = "iret"       -> LET top == x.stack[Len(x.stack)]
                                  IN  [x EXCEPT !.iflag = top.iflag, !.at = top.at,
                                                !.stack = SubSeq(@, 1, Len(@) - 1)]
        [] i[1] = "icw1"       -> [y EXCEPT !.pic = P!Icw1(@, i[2])]
        [] i[1] = "picData"    -> [y EXCEPT !.pic = P!DataWritten(@, i[2], i[3])]
        [] i[1] = "eoi"        -> [y EXCEPT !.pic = P!Eoi(@, i[2])]
        [] i[1] = "kbdWrite"   -> [y EXCEPT !.kbd = K!WriteData(@, i[2])]
        [] i[1] = "kbdRead"    -> [y EXCEPT !.kbd = K!ReadData(@)]
        [] i[1] = "pitControl" -> [y EXCEPT !.pit = T!WriteControl(@, i[2], i[3])]
        [] i[1] = "pitWrite"   -> [y EXCEPT !.pit = T!WriteData(@, i[2])]
        \* a request to the disk completes at once and asserts its line
        [] i[1] = "diskNotify" -> [y EXCEPT !.virtio = TRUE]
        [] i[1] = "diskIsr"    -> [y EXCEPT !.virtio = FALSE]

Instructions(x) == { <<t[2], t[3]>> : t \in { p \in Program : p[1] = x.at } }

----------------------------------------------------------------------------
(* The loop.                                                               *)

Counted(x) == [x EXCEPT !.phase = (@ + 1) % Interval,
                        !.gap = IF @ > 0 THEN @ - 1 ELSE 0]

\* The interrupt goes first and the exception stays pending.
SlipDispatched(x) ==
  IF Delivers(x) THEN Delivered(x)
  ELSE IF x.fault THEN Entered([x EXCEPT !.fault = FALSE], Fault) ELSE Delivered(x)

\* step: a pending exception is dispatched instead of looking at the devices.
Dispatched(x) ==
  IF x.fault THEN Entered([x EXCEPT !.fault = FALSE], Fault) ELSE Delivered(x)

Init == m = New

Step ==
  /\ ~m.halted
  /\ LET d == Dispatched(m)
     IN  /\ Len(d.stack) <= MaxDepth
         /\ \E i \in Instructions(d) :
              /\ i[1][1] = "iret" => d.stack # <<>>
              /\ m' = Counted(Execute(d, i[1], i[2]))

\* A halted CPU counts, then polls, and wakes for an interrupt; the run ends when
\* it is halted with IF clear.
Park ==
  /\ m.halted /\ m.iflag
  /\ Len(m.stack) < MaxDepth
  /\ LET c == Counted(m)
     IN  m' = [Delivered(c) EXCEPT !.halted = ~Delivers(c)]

Next == Step \/ Park

Spec == Init /\ [][Next]_m

\* Weak fairness of Next, said without ENABLED: run is a loop in which every
\* iteration counts an instruction, so until the run ends it reaches every phase
\* of the interval again and again (Interval > 1).
Ended  == m.halted /\ ~m.iflag
RunsOn == []<>Ended \/ \A p \in 0 .. Interval - 1 : []<>(m.phase = p)

FairSpec == Spec /\ RunsOn

----------------------------------------------------------------------------
(* Properties, for any guest.                                              *)

\* A request the controllers would deliver wakes a CPU parked with IF set: the
\* sti; hlt of an idle loop, which the code does not make atomic, and a HLT that
\* ends on a boundary, which skips that boundary's poll, delay it and lose nothing.
HaltWakes ==
  m.halted /\ m.iflag /\ P!NextIrq(m.pic) # {} ~> ~m.halted

\* cpu.rs:2379-2384: a pending fault is dispatched before any interrupt is taken,
\* so it is never blamed on the first instruction of an interrupt handler: while
\* it is pending the machine stands at an instruction that can fault.
FaultAtInstruction ==
  m.fault => <<m.at, <<"fault">>, m.at>> \in Program

----------------------------------------------------------------------------
(* Properties of a machine whose guest ends each service in its handler.   *)

Hardware == {TimerIrq, KbdIrq, DiskIrq}

\* Whose handlers are active, the outermost first.
Active == [ j \in 1 .. Len(m.stack) + 1 |->
              OwnerOf[ IF j <= Len(m.stack) THEN m.stack[j].at ELSE m.at ] ]
Activations(irq) == { j \in DOMAIN Active : Active[j] = irq }

InService(irq) == P!LineOf(irq) \in m.pic.isr[P!ChipOf(irq)]
Requested(irq) == P!LineOf(irq) \in m.pic.irr[P!ChipOf(irq)]

\* Every line in service has exactly one handler running for it, and no handler
\* ever interrupts one of its own or of a higher priority.
ServiceHasHandler ==
  /\ \A irq \in Hardware : InService(irq) => Cardinality(Activations(irq)) = 1
  /\ \A j, k \in DOMAIN Active :
       j < k /\ {Active[j], Active[k]} \subseteq Hardware
       => P!Rank(Active[k]) < P!Rank(Active[j])

\* A key byte that waits is announced: the controller asserts its line, the request
\* is latched or its handler is being served.  A byte without one would never be
\* read, and would hold back the rest of the script with it.
KeySignalled ==
  K!HeadInterrupts(m.kbd) => m.kbd.irq1 \/ Requested(KbdIrq) \/ InService(KbdIrq)

\* What the guest owes for its interrupts to be served: again and again the loop
\* must find IF set when it polls the devices, before an instruction or parked; and
\* for the devices below the timer, with the timer asking for nothing.
Checked       == IF m.halted THEN Counted(m) ELSE m
AtCheck       == m.iflag /\ ~m.fault /\ Checked.phase = 0
Interruptible == []<>AtCheck
Unhurried     == []<>(AtCheck /\ P!LineOf(TimerIrq) \notin Polled(Checked).pic.irr["master"])

\* Every key of the script is typed in the end, and every byte read, by a guest
\* that can be interrupted.
ScriptTyped == Unhurried => <>[](m.script = 0 /\ m.kbd.out = <<>>)

\* Every device is served: a timer the guest has programmed keeps interrupting it,
\* idle or busy, and every request to the disk is answered, by its handler or by a
\* guest that polls (cpu.rs, step and deliver_hardware_interrupt).
DevicesServed ==
  /\ Interruptible => (m.pit.ch[0].reload > 0 ~> InService(TimerIrq))
  /\ Unhurried => (m.virtio ~> ~m.virtio)

=============================================================================
