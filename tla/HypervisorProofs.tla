-------------------------- MODULE HypervisorProofs --------------------------
(***************************************************************************)
(* What holds of every hypervisor that follows its manual, of the guest it    *)
(* runs and of a system alone: for all programs, bounds and control            *)
(* structures.                                                             *)
(***************************************************************************)
EXTENDS Hypervisor, FiniteSetTheorems, SequenceTheorems, TLAPS

-----------------------------------------------------------------------------
(* Fields of a structure.                                                    *)

LEMMA NamedFields ==
  /\ Named \subseteq Field /\ Field \subseteq Encodings
  /\ InstructionError \in Field
BY FieldAssumption DEF Named, Field

\* A field has a slot, which is not that of the launch state (slot).
LEMMA FieldSlot ==
  ASSUME NEW e \in Encodings, Known(e)
  PROVE  Slot(e) \in Slots /\ Slot(e) # LaunchSlot /\ LaunchSlot \in Slots
<1>1. Slot(e) \in Slots /\ LaunchSlot \in Slots
  BY DEF Slots
<1>2. Slot(e) # LaunchSlot
  <2>1. PICK k, n : k = 4 * Width(e) + Type(e) /\ n = Index(e)
    BY Zenon
  <2>2. e \in Nat
    BY FieldAssumption
  <2>3. k \in Nat /\ n \in Nat /\ n <= 26
    BY <2>1, <2>2 DEF Width, Type, Index, Known, HighestIndex
  <2>4. k * 32 + n # 31
    BY <2>3
  <2> QED
    BY <2>1, <2>4 DEF Slot, LaunchSlot
<1> QED
  BY <1>1, <1>2

\* Reading a field of the CPU's reads the low half of its slot (read).
LEMMA ReadsField ==
  ASSUME NEW w, NEW e \in Field
  PROVE  Read(w, e).lo = At(w, e)
BY DEF Read, At, Field, Val

\* A write of any encoding changes its slot and no other (write).
LEMMA WriteSlot ==
  ASSUME NEW w, Structure(w), NEW e \in Encodings, Known(e), NEW v, v = [lo |-> v.lo, hi |-> v.hi],
         NEW u, u = Write(w, e, v)
  PROVE  /\ Structure(u)
         /\ \A t \in Slots \ {Slot(e)} : u[t] = w[t]
         /\ ~High(e) => u[Slot(e)].lo = v.lo
<1>1. Slot(e) \in Slots
  BY FieldSlot
<1>2. w = [t \in Slots |-> [lo |-> w[t].lo, hi |-> w[t].hi]]
  BY DEF Structure
<1> DEFINE s == Slot(e)
           cell == CASE High(e) -> [w[s] EXCEPT !.hi = v.lo]
                     [] ~High(e) /\ Narrow(e) -> [w[s] EXCEPT !.lo = v.lo]
                     [] OTHER -> v
<1>3. u = [w EXCEPT ![s] = cell]
  BY DEF Write
<1>4. cell = [lo |-> cell.lo, hi |-> cell.hi] /\ (~High(e) => cell.lo = v.lo)
  <2>1. w[s] = [lo |-> w[s].lo, hi |-> w[s].hi]
    BY <1>1, <1>2
  <2> QED
    BY <2>1
<1> HIDE DEF s, cell
<1>5. s \in Slots
  BY <1>1 DEF s
<1>6. /\ u[s] = cell /\ \A t \in Slots \ {s} : u[t] = w[t]
      /\ u = [t \in Slots |-> u[t]]
  <2>1. w = [t \in Slots |-> w[t]]
    <3>1. PICK cells : cells = [t \in Slots |-> [lo |-> w[t].lo, hi |-> w[t].hi]]
      BY Zenon
    <3>2. w = cells /\ cells = [t \in Slots |-> cells[t]]
      BY <1>2, <3>1, Zenon
    <3> QED
      BY <3>2
  <2> QED
    BY <1>3, <1>5, <2>1
<1>7. \A t \in Slots : u[t] = [lo |-> u[t].lo, hi |-> u[t].hi]
  BY <1>2, <1>4, <1>6
<1>8. u = [t \in Slots |-> [lo |-> u[t].lo, hi |-> u[t].hi]]
  BY <1>6, <1>7
<1> QED
  BY <1>4, <1>6, <1>8 DEF Structure, s

-----------------------------------------------------------------------------
(* The CPU.                                                                  *)

Names == {"on", "feature", "vmxon", "cur", "work", "mem", "result", "got", "rip", "start", "ifl", "halt", "cr0",
          "vmxe", "env", "long", "pend", "guest", "irq", "idt", "reset", "stack"}
Worlds == {"host", "guest"}
IsCpu(x) == x = [n \in Names |-> x[n]] /\ Structure(x.work) /\ x.stack = [w \in Worlds |-> x.stack[w]]
\* d is a CPU that differs from x in the registers N at most, ...
Agree(x, d, N) == IsCpu(d) /\ \A n \in Names \ N : d[n] = x[n]
\* ... and in the fields E of the working copy at most.
Rest(x, d, E) ==
  /\ d.work[LaunchSlot] = x.work[LaunchSlot]
  /\ \A g \in Field \ E : d.work[Slot(g)] = x.work[Slot(g)] /\ F(d, g) = F(x, g)

LEMMA SameWork ==
  ASSUME NEW x, NEW d, d.work = x.work
  PROVE  /\ \A e : F(d, e) = F(x, e) /\ Read(d.work, e) = Read(x.work, e)
         /\ Launched(d) = Launched(x) /\ (Fatal(d) <=> Fatal(x))
BY DEF F, Launched, Fatal

\* A field of the working copy is set (vmwrite of the CPU's own).
LEMMA PutField ==
  ASSUME NEW x, IsCpu(x), NEW e \in Field, NEW v, NEW d, d = Put(x, e, v)
  PROVE  IsCpu(d) /\ Agree(x, d, {"work"}) /\ F(d, e) = v /\ Rest(x, d, {e})
<1>1. PICK w, z : w = Val(v) /\ z = Write(x.work, e, w)
  BY Zenon
<1>2. e \in Encodings /\ Known(e) /\ ~High(e)
  BY DEF Field
<1>3. w = [lo |-> w.lo, hi |-> w.hi] /\ w.lo = v
  BY <1>1 DEF Val
<1>4. /\ Structure(z) /\ z[Slot(e)].lo = v
      /\ \A t \in Slots \ {Slot(e)} : z[t] = x.work[t]
  BY <1>1, <1>2, <1>3, WriteSlot DEF IsCpu
<1>5. d = [x EXCEPT !.work = z]
  BY <1>1 DEF Put
<1>6. IsCpu(d) /\ d.work = z /\ \A n \in Names \ {"work"} : d[n] = x[n]
  BY <1>4, <1>5 DEF IsCpu, Names
<1>7. F(d, e) = v
  BY <1>4, <1>6, ReadsField DEF F, At
<1>8. d.work[LaunchSlot] = x.work[LaunchSlot]
  BY <1>2, <1>4, <1>6, FieldSlot
<1>9. ASSUME NEW g \in Field, g # e
      PROVE  d.work[Slot(g)] = x.work[Slot(g)] /\ F(d, g) = F(x, g)
  <2>1. Slot(g) \in Slots /\ Slot(g) # Slot(e)
    BY <1>9, FieldSlot, FieldAssumption DEF Field
  <2>2. d.work[Slot(g)] = x.work[Slot(g)]
    BY <1>4, <1>6, <2>1
  <2> QED
    BY <2>2, ReadsField DEF F, At
<1> QED
  BY <1>6, <1>7, <1>8, <1>9 DEF Agree, Rest

\* What two such changes leave, one after the other.
LEMMA AgreeTwice ==
  ASSUME NEW x, NEW y, NEW d, NEW N, NEW M, Agree(x, y, N), Agree(y, d, M)
  PROVE  Agree(x, d, N \cup M)
BY Zenon DEF Agree

LEMMA RestTwice ==
  ASSUME NEW x, NEW y, NEW d, NEW E, NEW G, Rest(x, y, E), Rest(y, d, G)
  PROVE  Rest(x, d, E \cup G)
BY DEF Rest

-----------------------------------------------------------------------------
(* Exits.                                                                    *)

(* the registers that an exit loads, and the fields it stores *)
Reloaded == {"work", "guest", "cr0", "vmxe", "env", "long", "rip", "start", "ifl", "halt", "pend"}
State == {GuestCr0, GuestEnv, GuestEfer, GuestRip, GuestFlags, GuestActivity}
Told3 == {ExitReason, ExitInstrLen, ExitIntrInfo}
Holds(x, d, rip) ==
  /\ F(d, GuestCr0) = x.cr0 /\ F(d, GuestEnv) = x.env /\ F(d, GuestEfer) = x.long
  /\ F(d, GuestRip) = rip /\ F(d, GuestFlags) = x.ifl /\ F(d, GuestActivity) = x.halt
Home(x, d) ==
  /\ d.guest = FALSE /\ d.pend = None /\ d.halt = FALSE /\ d.ifl = FALSE
  /\ d.rip = F(x, HostRip) /\ d.cr0 = F(x, HostCr0) /\ d.vmxe = F(x, HostCr4) /\ d.env = F(x, HostEnv)
  /\ d.long = IF "loadefer" \in F(x, ExitCtls) THEN F(x, HostEfer) ELSE "hostlong" \in F(x, ExitCtls)
Left(x, d, reason, vector) ==
  /\ Agree(x, d, Reloaded) /\ Rest(x, d, State \cup Told3) /\ Home(x, d)
  /\ Holds(x, d, IF reason \in Between THEN x.rip ELSE x.start)
  /\ F(d, ExitReason) = reason /\ F(d, ExitIntrInfo) = vector
  /\ F(d, ExitInstrLen) = IF reason \in Between THEN 0 ELSE x.rip.at - x.start.at

\* The guest's state goes into its fields (save_guest_state).
LEMMA SavedState ==
  ASSUME NEW x, IsCpu(x), NEW rip, NEW d, d = Saved(x, rip)
  PROVE  IsCpu(d) /\ Agree(x, d, {"work"}) /\ Holds(x, d, rip) /\ Rest(x, d, State)
<1>1. State \subseteq Field
  BY NamedFields DEF Named, State
<1>2. PICK a : a = Put(x, GuestCr0, x.cr0)
  BY Zenon
<1>3. PICK b : b = Put(a, GuestEnv, x.env)
  BY Zenon
<1>4. PICK e : e = Put(b, GuestEfer, x.long)
  BY Zenon
<1>5. PICK f : f = Put(e, GuestRip, rip)
  BY Zenon
<1>6. PICK g : g = Put(f, GuestFlags, x.ifl)
  BY Zenon
<1>7. d = Put(g, GuestActivity, x.halt)
  BY <1>2, <1>3, <1>4, <1>5, <1>6, Zenon DEF Saved
<1>8. IsCpu(a) /\ Agree(x, a, {"work"}) /\ F(a, GuestCr0) = x.cr0 /\ Rest(x, a, {GuestCr0})
  BY <1>1, <1>2, PutField DEF State
<1>9. IsCpu(b) /\ Agree(a, b, {"work"}) /\ F(b, GuestEnv) = x.env /\ Rest(a, b, {GuestEnv})
  BY <1>1, <1>3, <1>8, PutField DEF State
<1>10. IsCpu(e) /\ Agree(b, e, {"work"}) /\ F(e, GuestEfer) = x.long /\ Rest(b, e, {GuestEfer})
  BY <1>1, <1>4, <1>9, PutField DEF State
<1>11. IsCpu(f) /\ Agree(e, f, {"work"}) /\ F(f, GuestRip) = rip /\ Rest(e, f, {GuestRip})
  BY <1>1, <1>5, <1>10, PutField DEF State
<1>12. IsCpu(g) /\ Agree(f, g, {"work"}) /\ F(g, GuestFlags) = x.ifl /\ Rest(f, g, {GuestFlags})
  BY <1>1, <1>6, <1>11, PutField DEF State
<1>13. IsCpu(d) /\ Agree(g, d, {"work"}) /\ F(d, GuestActivity) = x.halt /\ Rest(g, d, {GuestActivity})
  BY <1>1, <1>7, <1>12, PutField DEF State
<1>14. IsCpu(d) /\ Agree(x, d, {"work"})
  BY <1>8, <1>9, <1>10, <1>11, <1>12, <1>13, Zenon DEF Agree
<1>15. Rest(x, d, State)
  BY <1>8, <1>9, <1>10, <1>11, <1>12, <1>13 DEF Rest, State
<1>16. Holds(x, d, rip)
  BY <1>1, <1>8, <1>9, <1>10, <1>11, <1>12, <1>13
     DEF Rest, Holds, State, GuestCr0, GuestEnv, GuestEfer, GuestRip, GuestFlags, GuestActivity
<1> QED
  BY <1>14, <1>15, <1>16

\* The host's state comes out of its fields (load_host_state).
LEMMA LoadedHost ==
  ASSUME NEW x, IsCpu(x), NEW d, d = LoadHost([x EXCEPT !.guest = FALSE])
  PROVE  Agree(x, d, Reloaded \ {"work"}) /\ Home(x, d) /\ d.work = x.work
<1>1. PICK y : y = [x EXCEPT !.guest = FALSE]
  BY Zenon
<1>2. Agree(x, y, {"guest"}) /\ y.guest = FALSE /\ y.work = x.work
  BY <1>1 DEF Agree, IsCpu, Names
<1>3. Agree(y, d, {"cr0", "vmxe", "env", "long", "rip", "start", "ifl", "halt", "pend"}) /\ Home(y, d) /\ d.work = y.work
  <2>1. PICK cr0, vmxe, env, long, rip :
          /\ cr0 = F(y, HostCr0) /\ vmxe = F(y, HostCr4) /\ env = F(y, HostEnv) /\ rip = F(y, HostRip)
          /\ long = IF "loadefer" \in F(y, ExitCtls) THEN F(y, HostEfer) ELSE "hostlong" \in F(y, ExitCtls)
    BY Zenon
  <2>2. d = [y EXCEPT !.cr0 = cr0, !.vmxe = vmxe, !.env = env, !.long = long,
                      !.rip = rip, !.ifl = FALSE, !.halt = FALSE, !.pend = None]
    BY <1>1, <2>1, Zenon DEF LoadHost
  <2>3. IsCpu(y)
    BY <1>2 DEF Agree
  <2>4. /\ Agree(y, d, {"cr0", "vmxe", "env", "long", "rip", "start", "ifl", "halt", "pend"}) /\ d.work = y.work
        /\ d.cr0 = cr0 /\ d.vmxe = vmxe /\ d.env = env /\ d.long = long /\ d.rip = rip
        /\ d.ifl = FALSE /\ d.halt = FALSE /\ d.pend = None /\ d.guest = y.guest
    BY <2>2, <2>3 DEF Agree, IsCpu, Names
  <2> QED
    BY <1>2, <2>1, <2>4 DEF Home
<1>4. Agree(x, d, Reloaded \ {"work"})
  BY <1>2, <1>3 DEF Agree, Reloaded
<1>5. Home(x, d)
  BY <1>2, <1>3, SameWork DEF Home
<1> QED
  BY <1>2, <1>3, <1>4, <1>5

\* An exit stores the guest, tells the reason and goes on with the host (vm_exit).
LEMMA ExitLeaves ==
  ASSUME NEW x, IsCpu(x), NEW reason, NEW vector, NEW d, d = VmExit(x, reason, vector)
  PROVE  Left(x, d, reason, vector)
<1>1. Told3 \subseteq Field /\ State \subseteq Field /\ {HostCr0, HostEnv, HostCr4, HostRip, HostEfer, ExitCtls} \subseteq Field
  BY NamedFields DEF Named, Told3, State
<1>2. PICK rip, len : /\ rip = IF reason \in Between THEN x.rip ELSE x.start
                      /\ len = IF reason \in Between THEN 0 ELSE x.rip.at - x.start.at
  BY Zenon
<1>3. PICK a : a = Saved(x, rip)
  BY Zenon
<1>4. PICK b : b = Put(a, ExitReason, reason)
  BY Zenon
<1>5. PICK e : e = Put(b, ExitInstrLen, len)
  BY Zenon
<1>6. PICK f : f = Put(e, ExitIntrInfo, vector)
  BY Zenon
<1>7. d = LoadHost([f EXCEPT !.guest = FALSE])
  BY <1>2, <1>3, <1>4, <1>5, <1>6, Zenon DEF VmExit, SaveGuest
<1>8. IsCpu(a) /\ Agree(x, a, {"work"}) /\ Holds(x, a, rip) /\ Rest(x, a, State)
  BY <1>3, SavedState
<1>9. IsCpu(b) /\ Agree(a, b, {"work"}) /\ F(b, ExitReason) = reason /\ Rest(a, b, {ExitReason})
  BY <1>1, <1>4, <1>8, PutField DEF Told3
<1>10. IsCpu(e) /\ Agree(b, e, {"work"}) /\ F(e, ExitInstrLen) = len /\ Rest(b, e, {ExitInstrLen})
  BY <1>1, <1>5, <1>9, PutField DEF Told3
<1>11. IsCpu(f) /\ Agree(e, f, {"work"}) /\ F(f, ExitIntrInfo) = vector /\ Rest(e, f, {ExitIntrInfo})
  BY <1>1, <1>6, <1>10, PutField DEF Told3
<1>12. Agree(f, d, Reloaded \ {"work"}) /\ Home(f, d) /\ d.work = f.work
  BY <1>7, <1>11, LoadedHost
<1>13. Rest(x, f, State \cup Told3)
  BY <1>8, <1>9, <1>10, <1>11 DEF Rest, Told3
<1>14. Rest(x, d, State \cup Told3) /\ \A g : F(d, g) = F(f, g)
  BY <1>12, <1>13, SameWork DEF Rest
<1>15. Agree(x, d, Reloaded)
  BY <1>8, <1>9, <1>10, <1>11, <1>12, Zenon DEF Agree, Reloaded
<1>16. Rest(a, f, Told3)
  BY <1>9, <1>10, <1>11 DEF Rest, Told3
<1>17. Holds(x, d, rip)
  BY <1>1, <1>8, <1>14, <1>16 DEF Rest, Holds, State, Told3, GuestCr0, GuestEnv, GuestEfer, GuestRip, GuestFlags,
     GuestActivity, ExitReason, ExitInstrLen, ExitIntrInfo
<1>18. F(d, ExitReason) = reason /\ F(d, ExitIntrInfo) = vector /\ F(d, ExitInstrLen) = len
  BY <1>1, <1>9, <1>10, <1>11, <1>14 DEF Rest, Told3, ExitReason, ExitInstrLen, ExitIntrInfo
<1>19. Home(x, d)
  <2>1. \A g \in {HostCr0, HostEnv, HostCr4, HostRip, HostEfer, ExitCtls} : F(f, g) = F(x, g)
    BY <1>1, <1>13 DEF Rest, State, Told3, HostCr0, HostEnv, HostCr4, HostRip, HostEfer, ExitCtls, GuestCr0, GuestEnv,
       GuestEfer, GuestRip, GuestFlags, GuestActivity, ExitReason, ExitInstrLen, ExitIntrInfo
  <2> QED
    BY <1>12, <2>1, Zenon DEF Home
<1> QED
  BY <1>2, <1>14, <1>15, <1>17, <1>18, <1>19, Zenon DEF Left

-----------------------------------------------------------------------------
(* Deliveries.                                                               *)

(* the registers that the delivery of an event may change, short of an exit *)
Plain == {"rip", "start", "ifl", "halt", "pend", "irq", "reset", "stack"}
Apart(x, d) == /\ Agree(x, d, Plain) /\ (x.reset => d.reset)
               /\ x.guest => d.reset = x.reset /\ d.stack["host"] = x.stack["host"]
\* An event changes those, and from a guest it may exit.
Delivery(x, d) == \/ Apart(x, d)
                  \/ \E y, reason, vector : x.guest /\ Apart(x, y) /\ Left(y, d, reason, vector)

LEMMA ApartCpu ==
  ASSUME NEW x, NEW d, Apart(x, d)
  PROVE  IsCpu(d) /\ d.guest = x.guest /\ d.work = x.work /\ d.idt = x.idt
BY DEF Apart, Agree, Plain, Names

LEMMA ApartTwice ==
  ASSUME NEW x, NEW y, NEW d, Apart(x, y), Apart(y, d)
  PROVE  Apart(x, d)
<1>1. y.guest = x.guest
  BY ApartCpu
<1>2. Agree(x, d, Plain)
  BY Zenon DEF Apart, Agree
<1> QED
  BY <1>1, <1>2 DEF Apart

LEMMA ApartDelivery ==
  ASSUME NEW x, NEW y, NEW d, Apart(x, y), Delivery(y, d)
  PROVE  Delivery(x, d)
<1>1. y.guest = x.guest
  BY ApartCpu
<1>2. CASE Apart(y, d)
  BY <1>2, ApartTwice DEF Delivery
<1>3. CASE \E z, reason, vector : y.guest /\ Apart(y, z) /\ Left(z, d, reason, vector)
  <2>1. PICK z, reason, vector : y.guest /\ Apart(y, z) /\ Left(z, d, reason, vector)
    BY <1>3
  <2>2. Apart(x, z)
    BY <2>1, ApartTwice
  <2> QED
    BY <1>1, <2>1, <2>2, Zenon DEF Delivery
<1> QED
  BY <1>2, <1>3 DEF Delivery

\* The steps of a delivery: the return address, the gate, a fault raised, an exit.
LEMMA FaultApart ==
  ASSUME NEW x, IsCpu(x), NEW f, NEW d, d = AtFault(x, f)
  PROVE  Apart(x, d) /\ IsCpu(d)
<1>1. PICK to : to = IF f.vector \in Traps THEN x.rip ELSE x.start
  BY Zenon
<1>2. d = [x EXCEPT !.rip = to]
  BY <1>1 DEF AtFault
<1> QED
  BY <1>2 DEF Apart, Agree, IsCpu, Names, Plain

LEMMA PendApart ==
  ASSUME NEW x, IsCpu(x), NEW f, NEW d, d = [x EXCEPT !.pend = f]
  PROVE  Apart(x, d) /\ IsCpu(d)
BY DEF Apart, Agree, IsCpu, Names, Plain

LEMMA GateApart ==
  ASSUME NEW x, IsCpu(x), NEW v, NEW whole, NEW d, d = Gated(x, v, whole)
  PROVE  Apart(x, d) /\ IsCpu(d)
<1>1. PICK w, more, to : w = Who(x) /\ more = Append(x.stack[w], Frame(x, whole)) /\ to = Place(v, 0)
  BY Zenon
<1>2. PICK st : st = [x.stack EXCEPT ![w] = more]
  BY Zenon
<1>3. d = [x EXCEPT !.stack = st, !.ifl = FALSE, !.rip = to]
  BY <1>1, <1>2, Zenon DEF Gated
<1>4. w \in Worlds /\ (x.guest => w = "guest")
  BY <1>1 DEF Who, Worlds
<1>5. st = [t \in Worlds |-> st[t]] /\ (x.guest => st["host"] = x.stack["host"])
  BY <1>2, <1>4 DEF IsCpu, Worlds
<1> QED
  BY <1>3, <1>5 DEF Apart, Agree, IsCpu, Names, Plain

LEMMA EntryApart ==
  ASSUME NEW x, IsCpu(x), NEW v, NEW bad, NEW d, d = Entered(x, v, bad)
  PROVE  Apart(x, d) /\ IsCpu(d)
<1>1. CASE bad = 0
  BY <1>1, GateApart DEF Entered
<1>2. CASE bad # 0
  <2>1. PICK y, f : y = Gated(x, v, FALSE) /\ f = Fault("pf", {"w"})
    BY Zenon
  <2>2. d = Raised(y, f) /\ Apart(x, y) /\ IsCpu(y)
    BY <1>2, <2>1, GateApart DEF Entered
  <2>3. Apart(y, d) /\ IsCpu(d)
    <3>1. CASE y.pend = None
      BY <2>2, <3>1, PendApart DEF Raised
    <3>2. CASE y.pend # None
      BY <2>2, <3>2 DEF Raised, Apart, Agree
    <3> QED
      BY <3>1, <3>2
  <2> QED
    BY <2>2, <2>3, ApartTwice
<1> QED
  BY <1>1, <1>2

LEMMA TripleDelivery ==
  ASSUME NEW x, IsCpu(x), NEW d, d = TripleFault(x)
  PROVE  Delivery(x, d) /\ (~x.guest => d.reset = TRUE)
<1>1. Apart(x, x)
  BY DEF Apart, Agree
<1>2. CASE x.guest
  <2>1. Left(x, d, "triple", None)
    BY <1>2, ExitLeaves DEF TripleFault
  <2> QED
    BY <1>1, <1>2, <2>1 DEF Delivery
<1>3. CASE ~x.guest
  <2>1. d = [x EXCEPT !.reset = TRUE, !.halt = TRUE]
    BY <1>3 DEF TripleFault
  <2>2. Apart(x, d) /\ d.reset = TRUE
    BY <1>3, <2>1 DEF Apart, Agree, IsCpu, Names, Plain
  <2> QED
    BY <2>2 DEF Delivery
<1> QED
  BY <1>2, <1>3

LEMMA DoubleDelivery ==
  ASSUME NEW x, IsCpu(x), NEW bad, NEW d, d = DoubleFaultRaw(x, bad)
  PROVE  Delivery(x, d)
<1>1. CASE "df" \notin x.idt
  BY <1>1, TripleDelivery DEF DoubleFaultRaw
<1>2. CASE "df" \in x.idt
  <2>1. PICK e : e = Entered(x, "df", bad)
    BY Zenon
  <2>2. Apart(x, e) /\ IsCpu(e)
    BY <2>1, EntryApart
  <2>3. CASE e.pend # None
    <3>1. PICK y : y = [e EXCEPT !.pend = None]
      BY Zenon
    <3>2. Apart(e, y) /\ IsCpu(y)
      BY <2>2, <3>1, PendApart
    <3>3. d = TripleFault(y)
      BY <1>2, <2>1, <2>3, <3>1 DEF DoubleFaultRaw
    <3>4. Delivery(y, d)
      BY <3>2, <3>3, TripleDelivery
    <3>5. Apart(x, y)
      BY <2>2, <3>2, ApartTwice
    <3> QED
      BY <3>4, <3>5, ApartDelivery
  <2>4. CASE e.pend = None
    <3>1. d = e
      BY <1>2, <2>1, <2>4 DEF DoubleFaultRaw
    <3> QED
      BY <2>2, <3>1 DEF Delivery
  <2> QED
    BY <2>3, <2>4
<1> QED
  BY <1>1, <1>2

LEMMA ExceptionLeaves ==
  ASSUME NEW x, IsCpu(x), NEW f, NEW d, d = ExceptionExit(x, f)
  PROVE  \E y : /\ Apart(x, y) /\ y = [x EXCEPT !.rip = x.start] /\ IsCpu(y)
                /\ Left(y, d, "exception", f.vector)
<1>1. PICK y : y = [x EXCEPT !.rip = x.start]
  BY Zenon
<1>2. Apart(x, y) /\ IsCpu(y)
  BY <1>1 DEF Apart, Agree, IsCpu, Names, Plain
<1>3. Left(y, d, "exception", f.vector)
  BY <1>1, <1>2, ExitLeaves DEF ExceptionExit
<1> QED
  BY <1>1, <1>2, <1>3

LEMMA ExceptionDelivery ==
  ASSUME NEW x, IsCpu(x), x.guest, NEW f, NEW d, d = ExceptionExit(x, f)
  PROVE  Delivery(x, d)
BY ExceptionLeaves, Zenon DEF Delivery

LEMMA DoubleFaultDelivery ==
  ASSUME NEW x, IsCpu(x), NEW bad, NEW d, d = DoubleFault(x, bad)
  PROVE  Delivery(x, d)
<1>1. PICK f, y : f = Fault("df", {}) /\ y = AtFault(x, f)
  BY Zenon
<1>2. Apart(x, y) /\ IsCpu(y)
  BY <1>1, FaultApart
<1>3. Delivery(y, d)
  <2>1. CASE y.guest /\ ExceptionExits(y, f)
    BY <1>1, <1>2, <2>1, ExceptionDelivery DEF DoubleFault
  <2>2. CASE ~(y.guest /\ ExceptionExits(y, f))
    BY <1>1, <1>2, <2>2, DoubleDelivery DEF DoubleFault
  <2> QED
    BY <2>1, <2>2
<1> QED
  BY <1>2, <1>3, ApartDelivery

LEMMA RawDelivery ==
  ASSUME NEW x, IsCpu(x), NEW f, NEW bad, NEW d, d = DispatchRaw(x, f, bad)
  PROVE  Delivery(x, d)
<1>1. PICK y, e : y = AtFault(x, f) /\ e = Entered(y, f.vector, bad)
  BY Zenon
<1>2. Apart(x, y) /\ IsCpu(y) /\ Apart(y, e) /\ IsCpu(e)
  BY <1>1, FaultApart, EntryApart
<1>3. Delivery(y, d)
  <2>1. CASE f.vector = "df"
    BY <1>1, <1>2, <2>1, DoubleDelivery DEF DispatchRaw
  <2>2. CASE f.vector # "df" /\ f.vector \notin x.idt
    BY <1>1, <1>2, <2>2, TripleDelivery DEF DispatchRaw
  <2>3. CASE f.vector # "df" /\ f.vector \in x.idt
    <3>1. CASE e.pend # None /\ Escalates(f.vector, e.pend.vector)
      <4>1. PICK z : z = [e EXCEPT !.pend = None]
        BY Zenon
      <4>2. Apart(e, z) /\ IsCpu(z)
        BY <1>2, <4>1, PendApart
      <4>3. Delivery(z, d)
        BY <1>1, <2>3, <3>1, <4>1, <4>2, DoubleFaultDelivery DEF DispatchRaw
      <4>4. Delivery(e, d)
        BY <4>2, <4>3, ApartDelivery
      <4> QED
        BY <1>2, <4>4, ApartDelivery
    <3>2. CASE ~(e.pend # None /\ Escalates(f.vector, e.pend.vector))
      BY <1>1, <1>2, <2>3, <3>2 DEF DispatchRaw, Delivery
    <3> QED
      BY <3>1, <3>2
  <2> QED
    BY <2>1, <2>2, <2>3
<1> QED
  BY <1>2, <1>3, ApartDelivery

\* An exception, and an interrupt at the boundary (dispatch_exception, deliver_hardware_interrupt).
LEMMA DispatchDelivery ==
  ASSUME NEW x, IsCpu(x), NEW f, NEW bad, NEW d, d = Dispatch(x, f, bad)
  PROVE  Delivery(x, d)
<1>1. CASE x.guest /\ ExceptionExits(x, f)
  <2>1. PICK y : y = AtFault(x, f)
    BY Zenon
  <2>2. Apart(x, y) /\ IsCpu(y)
    BY <2>1, FaultApart
  <2>3. Delivery(y, d)
    BY <1>1, <2>1, <2>2, ExceptionDelivery, ApartCpu DEF Dispatch
  <2> QED
    BY <2>2, <2>3, ApartDelivery
<1>2. CASE ~(x.guest /\ ExceptionExits(x, f))
  BY <1>2, RawDelivery DEF Dispatch
<1> QED
  BY <1>1, <1>2

LEMMA LineApart ==
  ASSUME NEW x, IsCpu(x), NEW d, d = [x EXCEPT !.irq = FALSE]
  PROVE  Apart(x, d) /\ IsCpu(d)
BY DEF Apart, Agree, IsCpu, Names, Plain

LEMMA InterruptDelivery ==
  ASSUME NEW x, IsCpu(x), NEW bad, NEW d, d = Interrupted(x, bad)
  PROVE  Delivery(x, d)
<1>1. PICK y : y = [x EXCEPT !.irq = FALSE]
  BY Zenon
<1>2. Apart(x, y) /\ IsCpu(y) /\ Apart(x, x) /\ (y.guest <=> x.guest)
  BY <1>1, LineApart, ApartCpu DEF Apart, Agree
<1>3. CASE x.guest /\ "extint" \in F(x, PinCtls)
  <2>1. CASE "ack" \in F(x, ExitCtls)
    <3>1. Left(y, d, "interrupt", "irq")
      BY <1>1, <1>2, <1>3, <2>1, ExitLeaves DEF Interrupted, InterruptExit
    <3> QED
      BY <1>2, <1>3, <3>1 DEF Delivery
  <2>2. CASE "ack" \notin F(x, ExitCtls)
    <3>1. Left(x, d, "interrupt", None)
      BY <1>3, <2>2, ExitLeaves DEF Interrupted, InterruptExit
    <3> QED
      BY <1>2, <1>3, <3>1 DEF Delivery
  <2> QED
    BY <2>1, <2>2
<1>4. CASE ~(x.guest /\ "extint" \in F(x, PinCtls))
  <2>1. Apart(y, d)
    BY <1>1, <1>2, <1>4, EntryApart DEF Interrupted
  <2> QED
    BY <1>2, <2>1, ApartTwice DEF Delivery
<1> QED
  BY <1>3, <1>4

\* A step moves on to the next instruction, whatever the event did.
LEMMA LeftStart ==
  ASSUME NEW z, NEW y, NEW reason, NEW vector, Left(z, y, reason, vector), NEW d, Agree(y, d, {"start"})
  PROVE  Left(z, d, reason, vector)
<1>1. IsCpu(y) /\ Agree(z, y, Reloaded)
  BY DEF Left, Agree
<1>3. Agree(z, d, Reloaded)
  BY <1>1, Zenon DEF Agree, Reloaded
<1>4. /\ d.work = y.work /\ d.guest = y.guest /\ d.pend = y.pend /\ d.halt = y.halt /\ d.ifl = y.ifl /\ d.rip = y.rip
      /\ d.cr0 = y.cr0 /\ d.vmxe = y.vmxe /\ d.env = y.env /\ d.long = y.long
  BY DEF Agree, Names
<1>5. \A g : F(d, g) = F(y, g)
  BY <1>4, SameWork
<1>6. Rest(z, d, State \cup Told3)
  BY <1>4, <1>5 DEF Left, Rest
<1> QED
  BY <1>3, <1>4, <1>5, <1>6, Zenon DEF Left, Home, Holds

LEMMA StartDelivery ==
  ASSUME NEW x, NEW y, Delivery(x, y), NEW to, NEW d, d = [y EXCEPT !.start = to]
  PROVE  Delivery(x, d)
<1>1. CASE Apart(x, y)
  <2>1. IsCpu(y)
    BY <1>1, ApartCpu
  <2>2. Apart(y, d)
    BY <2>1 DEF Apart, Agree, IsCpu, Names, Plain
  <2> QED
    BY <1>1, <2>2, ApartTwice DEF Delivery
<1>2. CASE \E z, reason, vector : x.guest /\ Apart(x, z) /\ Left(z, y, reason, vector)
  <2>1. PICK z, reason, vector : x.guest /\ Apart(x, z) /\ Left(z, y, reason, vector)
    BY <1>2
  <2>2. IsCpu(y)
    BY <2>1 DEF Left, Agree
  <2>3. Agree(y, d, {"start"})
    BY <2>2 DEF Agree, IsCpu, Names
  <2>4. Left(z, d, reason, vector)
    BY <2>1, <2>3, LeftStart
  <2> QED
    BY <2>1, <2>4, Zenon DEF Delivery
<1> QED
  BY <1>1, <1>2 DEF Delivery

\* The events before an instruction: p after the window, d after them all (step, up to rip_start).
Happens(p, poll, bad, d) ==
  /\ p = PreStep(c) /\ bad \in Plans(p) /\ (poll => p.pend = None /\ Takes(p))
  /\ d = CASE p.pend # None -> Dispatch([p EXCEPT !.pend = None], p.pend, bad)
           [] p.pend = None /\ poll -> Delivered(p, bad)
           [] OTHER -> p
Trapped(p, d) == p.pend # None /\ p.pend.vector \in Traps /\ d.guest = p.guest /\ c.start.code = "main"
Noted(p, d) == IF Trapped(p, d) THEN [hist EXCEPT !.due = @ + 1] ELSE hist
Cause(p) == IF p.pend # None THEN p.pend.vector ELSE "irq"
LEMMA EventsShape ==
  ASSUME IsCpu(c), Events
  PROVE  \E p, poll, bad, d :
           /\ Happens(p, poll, bad, d) /\ IsCpu(p) /\ IsCpu(d) /\ Delivery(c, d) /\ c' = [d EXCEPT !.start = d.rip]
           /\ hist' = Torn(Exited(Noted(p, d), d), Cause(p), d)
           /\ p = c \/ (Left(c, p, "window", None) /\ d = p /\ c.guest /\ c.ifl /\ c.pend = None)
<1>1. PICK p : p = PreStep(c)
  BY Zenon
<1>2. PICK poll, bad, d :
        /\ Happens(p, poll, bad, d) /\ c' = [d EXCEPT !.start = d.rip]
        /\ hist' = Torn(Exited(Noted(p, d), d), Cause(p), d)
  BY <1>1, Zenon DEF Events, Happens, Trapped, Noted, Cause
<1>3. IsCpu(p) /\ (p = c \/ (Left(c, p, "window", None) /\ c.guest /\ c.ifl /\ c.pend = None))
  <2>1. CASE c.guest /\ "window" \in F(c, CpuCtls) /\ c.ifl /\ c.pend = None
    <3>1. Left(c, p, "window", None)
      BY <1>1, <2>1, ExitLeaves DEF PreStep
    <3> QED
      BY <2>1, <3>1 DEF Left, Agree
  <2>2. CASE ~(c.guest /\ "window" \in F(c, CpuCtls) /\ c.ifl /\ c.pend = None)
    BY <1>1, <2>2 DEF PreStep
  <2> QED
    BY <2>1, <2>2
<1>4. Apart(c, c)
  BY DEF Apart, Agree
<1>5. Delivery(c, d) /\ (p = c \/ d = p)
  <2>1. CASE p = c
    <3>1. CASE c.pend # None
      <4>1. PICK y : y = [c EXCEPT !.pend = None]
        BY Zenon
      <4>2. Apart(c, y) /\ IsCpu(y)
        BY <4>1, PendApart
      <4>3. Delivery(y, d)
        BY <1>2, <2>1, <3>1, <4>1, <4>2, DispatchDelivery DEF Happens
      <4> QED
        BY <2>1, <4>2, <4>3, ApartDelivery
    <3>2. CASE c.pend = None /\ poll /\ Takes(c)
      BY <1>2, <2>1, <3>2, InterruptDelivery DEF Happens, Delivered
    <3>3. CASE c.pend = None /\ ~(poll /\ Takes(c))
      BY <1>2, <1>4, <2>1, <3>3 DEF Happens, Delivered, Delivery
    <3> QED
      BY <3>1, <3>2, <3>3
  <2>2. CASE p # c
    <3>1. Left(c, p, "window", None) /\ p.pend = None /\ p.ifl = FALSE /\ c.guest
      BY <1>3, <2>2 DEF Left, Home
    <3>2. d = p
      BY <1>2, <3>1 DEF Happens, Takes
    <3> QED
      BY <1>4, <3>1, <3>2, Zenon DEF Delivery
  <2> QED
    BY <2>1, <2>2
<1>6. IsCpu(d)
  BY <1>5 DEF Delivery, Left, Apart, Agree
<1> QED
  BY <1>2, <1>3, <1>5, <1>6, Zenon

LEMMA EventsDelivery ==
  ASSUME IsCpu(c), Events
  PROVE  Delivery(c, c')
BY EventsShape, StartDelivery, Zenon

-----------------------------------------------------------------------------
(* Control structures and where the CPU keeps them.                          *)

Pointers == {"on", "vmxon", "cur", "work", "mem", "guest"}
Regional(x) ==
  /\ x.mem = [p \in Memory |-> x.mem[p]] /\ \A p \in Memory : Structure(x.mem[p])
  /\ x.cur \in (Memory \ {Blank}) \cup {None} /\ x.vmxon \in Memory \cup {None}
  /\ ~x.on => x.cur = None
  /\ x.cur # None => x.cur # x.vmxon
  /\ x.guest => x.cur # None /\ Launched(x)
Body(x, p) == IF x.cur = p THEN x.work ELSE x.mem[p]

(* what a step does to them *)
Keeps(x, d) == /\ d.cur \in Memory \cup {None}
               /\ \A p \in Memory : Body(d, p) = Body(x, p)
Clears(x, d, p) ==
  /\ p \in Memory /\ d.cur = IF x.cur = p THEN None ELSE x.cur
  /\ Body(d, p)[LaunchSlot].lo = 0
  /\ \A q \in Memory, e \in Field : Body(d, q)[Slot(e)] = Body(x, q)[Slot(e)]
  /\ \A q \in Memory \ {p} : Body(d, q)[LaunchSlot] = Body(x, q)[LaunchSlot]
Alters(x, d, E) ==
  /\ x.cur \in Memory /\ d.cur = x.cur /\ d.mem = x.mem
  /\ \A g \in Field \ E : d.work[Slot(g)] = x.work[Slot(g)]
Effect(x, d) ==
  \/ Keeps(x, d)
  \/ \E p \in Memory : Clears(x, d, p)
  \/ \E e \in Field : ~ReadOnly(e) /\ Alters(x, d, {e}) /\ d.work[LaunchSlot] = x.work[LaunchSlot]
  \/ Alters(x, d, {InstructionError}) /\ d.work[LaunchSlot] = x.work[LaunchSlot]
  \/ Alters(x, d, {e \in Field : Type(e) \in {1, 2} \/ e = EntryIntrInfo}) /\ Launched(d)
\* A step of the CPU: it keeps its shape, and the structures change in one of those ways.
Sound(x) == IsCpu(x) /\ Regional(x)
Steps(x, d) == Sound(d) /\ Effect(x, d)

LEMMA ReportedFields == State \cup Told3 \subseteq {e \in Field : Type(e) \in {1, 2} \/ e = EntryIntrInfo}
<1>1. State \cup Told3 \subseteq Field
  BY NamedFields DEF Named, State, Told3
<1>2. \A e \in State \cup Told3 : Type(e) \in {1, 2}
  BY DEF State, Told3, Type, GuestCr0, GuestEnv, GuestEfer, GuestRip, GuestFlags, GuestActivity, ExitReason,
     ExitInstrLen, ExitIntrInfo
<1> QED
  BY <1>1, <1>2

\* A step that leaves the structures alone (no VMX instruction, no exit).
LEMMA QuietSteps ==
  ASSUME NEW x, Sound(x), NEW N, N \cap Pointers = {}, NEW d, Agree(x, d, N)
  PROVE  Steps(x, d)
<1>1. IsCpu(d)
  BY DEF Agree
<1>2. d.on = x.on /\ d.vmxon = x.vmxon /\ d.cur = x.cur /\ d.work = x.work /\ d.mem = x.mem /\ d.guest = x.guest
  BY DEF Agree, Pointers, Names
<1>3. Regional(d)
  BY <1>2 DEF Sound, Regional, Launched
<1>4. Keeps(x, d)
  BY <1>2 DEF Sound, Regional, Keeps, Body
<1> QED
  BY <1>1, <1>3, <1>4 DEF Steps, Sound, Effect

\* A guest's exit changes what it reports and the guest's state.
LEMMA ExitSteps ==
  ASSUME NEW x, Sound(x), x.guest, NEW reason, NEW vector, NEW d, Left(x, d, reason, vector)
  PROVE  Steps(x, d)
<1>1. IsCpu(d)
  BY DEF Left, Agree
<1>2. /\ d.on = x.on /\ d.vmxon = x.vmxon /\ d.cur = x.cur /\ d.mem = x.mem /\ d.guest = FALSE
      /\ d.work[LaunchSlot] = x.work[LaunchSlot] /\ \A g \in Field \ (State \cup Told3) : d.work[Slot(g)] = x.work[Slot(g)]
  BY DEF Left, Agree, Reloaded, Names, Rest, Home
<1>3. x.cur \in Memory /\ Launched(x)
  BY DEF Sound, Regional
<1>4. Regional(d)
  BY <1>2 DEF Sound, Regional
<1>5. Alters(x, d, {e \in Field : Type(e) \in {1, 2} \/ e = EntryIntrInfo}) /\ Launched(d)
  BY <1>2, <1>3, ReportedFields DEF Alters, Launched
<1> QED
  BY <1>1, <1>4, <1>5 DEF Steps, Sound, Effect

LEMMA DeliverySteps ==
  ASSUME NEW x, Sound(x), NEW d, Delivery(x, d)
  PROVE  Steps(x, d)
<1>1. Plain \cap Pointers = {}
  BY DEF Plain, Pointers
<1>2. CASE Apart(x, d)
  BY <1>1, <1>2, QuietSteps DEF Apart
<1>3. CASE \E y, reason, vector : x.guest /\ Apart(x, y) /\ Left(y, d, reason, vector)
  <2>1. PICK y, reason, vector : x.guest /\ Apart(x, y) /\ Left(y, d, reason, vector)
    BY <1>3
  <2>2. Sound(y) /\ y.guest
    BY <1>1, <2>1, QuietSteps, ApartCpu DEF Apart, Steps
  <2>3. Steps(y, d)
    BY <2>1, <2>2, ExitSteps
  <2>4. y.cur = x.cur /\ y.work = x.work /\ y.mem = x.mem
    BY <2>1 DEF Apart, Agree, Plain, Names
  <2>5. Effect(x, d)
    <3>1. \A p \in Memory : Body(y, p) = Body(x, p)
      BY <2>4 DEF Body
    <3>2. Keeps(y, d) => Keeps(x, d)
      BY <3>1 DEF Keeps
    <3>3. \A p : Clears(y, d, p) => Clears(x, d, p)
      BY <2>4, <3>1 DEF Clears
    <3>4. \A E : Alters(y, d, E) => Alters(x, d, E)
      BY <2>4 DEF Alters
    <3> QED
      BY <2>3, <2>4, <3>2, <3>3, <3>4, Zenon DEF Steps, Effect
  <2> QED
    BY <2>3, <2>5 DEF Steps
<1> QED
  BY <1>2, <1>3 DEF Delivery

\* What leaves the structures alone, or reports an error in the current one.
LEMMA StillSteps ==
  ASSUME NEW x, Sound(x)
  PROVE  Steps(x, x)
<1>1. Agree(x, x, {})
  BY DEF Agree, Sound
<1> QED
  BY <1>1, QuietSteps

LEMMA ResultSteps ==
  ASSUME NEW x, Sound(x), NEW r, NEW g, NEW d, d = [x EXCEPT !.result = r] \/ d = [x EXCEPT !.result = r, !.got = g]
  PROVE  Steps(x, d)
<1>1. Agree(x, d, {"result", "got"})
  BY DEF Sound, Agree, IsCpu, Names
<1>2. {"result", "got"} \cap Pointers = {}
  BY DEF Pointers
<1> QED
  BY <1>1, <1>2, QuietSteps

LEMMA RaiseSteps ==
  ASSUME NEW x, Sound(x), NEW v, NEW d, d = Raise(x, v)
  PROVE  Steps(x, d)
<1>1. PICK f : f = Fault(v, {})
  BY Zenon
<1>2. d = x \/ d = [x EXCEPT !.pend = f]
  BY <1>1 DEF Raise, Raised
<1>3. Agree(x, d, {"pend"})
  BY <1>2 DEF Sound, Agree, IsCpu, Names
<1>4. {"pend"} \cap Pointers = {}
  BY DEF Pointers
<1> QED
  BY <1>3, <1>4, QuietSteps

LEMMA FailSteps ==
  ASSUME NEW x, Sound(x), NEW n, NEW d, d = FailValid(x, n)
  PROVE  Steps(x, d)
<1>1. PICK y : y = Put(x, InstructionError, n)
  BY Zenon
<1>2. Agree(x, y, {"work"}) /\ Rest(x, y, {InstructionError}) /\ IsCpu(y)
  BY <1>1, NamedFields, PutField DEF Sound
<1>3. d = [y EXCEPT !.result = "valid"]
  BY <1>1 DEF FailValid
<1>4. Agree(y, d, {"result"}) /\ d.work = y.work
  BY <1>2, <1>3 DEF Agree, IsCpu, Names
<1>5. /\ IsCpu(d) /\ d.on = x.on /\ d.vmxon = x.vmxon /\ d.cur = x.cur /\ d.mem = x.mem /\ d.guest = x.guest
      /\ d.work[LaunchSlot] = x.work[LaunchSlot]
      /\ \A g \in Field \ {InstructionError} : d.work[Slot(g)] = x.work[Slot(g)]
  BY <1>2, <1>4 DEF Agree, Names, Rest
<1>6. Regional(d)
  BY <1>5 DEF Sound, Regional, Launched
<1>7. CASE x.cur = None
  <2>1. Keeps(x, d)
    BY <1>5, <1>7, MemoryAssumption DEF Keeps, Body
  <2> QED
    BY <1>5, <1>6, <2>1 DEF Steps, Sound, Effect
<1>8. CASE x.cur # None
  <2>1. Alters(x, d, {InstructionError}) /\ d.work[LaunchSlot] = x.work[LaunchSlot]
    BY <1>5, <1>8 DEF Alters, Sound, Regional
  <2> QED
    BY <1>5, <1>6, <2>1 DEF Steps, Sound, Effect
<1> QED
  BY <1>7, <1>8

-----------------------------------------------------------------------------
(* The VMX instructions.                                                     *)

LEMMA VmxonSteps ==
  ASSUME NEW x, Sound(x), ~x.guest, NEW p \in Memory \cup {Misaligned, Unmapped}, NEW d, d = Vmxon(x, p)
  PROVE  Steps(x, d)
<1>1. CASE ~x.vmxe
  BY <1>1, RaiseSteps DEF Vmxon
<1>2. CASE x.vmxe /\ x.on
  BY <1>2, FailSteps DEF Vmxon
<1>3. CASE x.vmxe /\ ~x.on /\ (x.feature # {"lock", "vmx"} \/ ~(CR0Fixed \subseteq x.cr0))
  BY <1>3, RaiseSteps DEF Vmxon
<1>4. CASE x.vmxe /\ ~x.on /\ ~(x.feature # {"lock", "vmx"} \/ ~(CR0Fixed \subseteq x.cr0))
  <2>1. CASE p = Unmapped
    BY <1>4, <2>1, RaiseSteps, MemoryAssumption DEF Vmxon, Misaligned, Unmapped
  <2>2. CASE p # Unmapped /\ p \in {Misaligned, Blank}
    BY <1>4, <2>2, ResultSteps DEF Vmxon, FailInvalid
  <2>3. CASE p \notin {Unmapped, Misaligned, Blank}
    <3>1. d = [x EXCEPT !.on = TRUE, !.vmxon = p, !.cur = None, !.result = "succeed"]
      BY <1>4, <2>3 DEF Vmxon, Succeed, Sound, IsCpu, Names
    <3>2. /\ IsCpu(d) /\ d.on = TRUE /\ d.vmxon = p /\ d.cur = None /\ d.work = x.work /\ d.mem = x.mem
          /\ d.guest = x.guest
      BY <3>1 DEF Sound, IsCpu, Names
    <3>3. Regional(d)
      BY <2>3, <3>2 DEF Sound, Regional
    <3>4. x.cur = None
      BY <1>4 DEF Sound, Regional
    <3>5. Keeps(x, d)
      BY <3>2, <3>4 DEF Keeps, Body
    <3> QED
      BY <3>2, <3>3, <3>5 DEF Steps, Sound, Effect
  <2> QED
    BY <2>1, <2>2, <2>3
<1> QED
  BY <1>1, <1>2, <1>3, <1>4

\* The working copy goes back to its region (flush_vmcs).
LEMMA Flushed ==
  ASSUME NEW x, Sound(x), NEW d, d = Flush(x)
  PROVE  /\ Agree(x, d, {"mem"})
         /\ d.mem = [p \in Memory |-> Body(x, p)] /\ \A p \in Memory : Structure(d.mem[p]) /\ d.mem[p] = Body(x, p)
<1>1. CASE x.cur = None
  BY <1>1, MemoryAssumption DEF Flush, Sound, Regional, Agree, Body
<1>2. CASE x.cur # None
  <2>1. PICK m : m = [x.mem EXCEPT ![x.cur] = x.work]
    BY Zenon
  <2>2. d = [x EXCEPT !.mem = m]
    BY <1>2, <2>1, Zenon DEF Flush
  <2>3. Agree(x, d, {"mem"}) /\ d.mem = m
    <3>1. IsCpu(x)
      BY DEF Sound
    <3> QED
      BY <2>2, <3>1 DEF Agree, IsCpu, Names
  <2>4. m = [p \in Memory |-> Body(x, p)]
    <3>1. x.mem = [p \in Memory |-> x.mem[p]] /\ x.cur \in Memory
      BY <1>2 DEF Sound, Regional
    <3> QED
      BY <2>1, <3>1 DEF Body
  <2>5. \A p \in Memory : Structure(Body(x, p))
    BY DEF Sound, Regional, Body, IsCpu
  <2> QED
    BY <2>3, <2>4, <2>5
<1> QED
  BY <1>1, <1>2

LEMMA VmxoffSteps ==
  ASSUME NEW x, Sound(x), ~x.guest, NEW d, d = Vmxoff(x)
  PROVE  Steps(x, d)
<1>1. PICK y : y = Flush(x)
  BY Zenon
<1>2. Agree(x, y, {"mem"}) /\ y.mem = [p \in Memory |-> Body(x, p)] /\ \A p \in Memory : Structure(y.mem[p]) /\ y.mem[p] = Body(x, p)
  BY <1>1, Flushed
<1>3. d = [y EXCEPT !.on = FALSE, !.cur = None, !.result = "succeed"]
  BY <1>1, <1>2 DEF Vmxoff, Succeed, Agree, IsCpu, Names
<1>4. IsCpu(d) /\ d.on = FALSE /\ d.cur = None /\ d.mem = y.mem /\ d.vmxon = x.vmxon /\ d.guest = x.guest
  BY <1>2, <1>3 DEF Agree, IsCpu, Names
<1>5. Regional(d)
  BY <1>2, <1>4 DEF Sound, Regional
<1>6. Keeps(x, d)
  BY <1>2, <1>4, MemoryAssumption DEF Keeps, Body
<1> QED
  BY <1>4, <1>5, <1>6 DEF Steps, Sound, Effect

LEMMA LaunchWritten ==
  ASSUME NEW w, Structure(w), NEW n, NEW u, u = [w EXCEPT ![LaunchSlot] = Val(n)]
  PROVE  Structure(u) /\ u[LaunchSlot].lo = n /\ \A t \in Slots \ {LaunchSlot} : u[t] = w[t]
<1>1. LaunchSlot \in Slots
  BY DEF Slots
<1>2. PICK v : v = Val(n)
  BY Zenon
<1>3. v = [lo |-> v.lo, hi |-> v.hi] /\ v.lo = n
  BY <1>2 DEF Val
<1>4. /\ u = [t \in Slots |-> u[t]] /\ u[LaunchSlot] = v /\ \A t \in Slots \ {LaunchSlot} : u[t] = w[t]
  <2>1. w = [t \in Slots |-> w[t]]
    <3>1. PICK cells : cells = [t \in Slots |-> [lo |-> w[t].lo, hi |-> w[t].hi]]
      BY Zenon
    <3>2. w = cells /\ cells = [t \in Slots |-> cells[t]]
      BY <3>1, Zenon DEF Structure
    <3> QED
      BY <3>2
  <2> QED
    BY <1>1, <1>2, <2>1
<1>5. \A t \in Slots : w[t] = [lo |-> w[t].lo, hi |-> w[t].hi]
  BY DEF Structure
<1>6. \A t \in Slots : u[t] = [lo |-> u[t].lo, hi |-> u[t].hi]
  BY <1>3, <1>4, <1>5
<1>7. u = [t \in Slots |-> [lo |-> u[t].lo, hi |-> u[t].hi]]
  BY <1>4, <1>6
<1> QED
  BY <1>3, <1>4, <1>7 DEF Structure

LEMMA VmclearSteps ==
  ASSUME NEW x, Sound(x), ~x.guest, NEW p \in Memory \cup {Misaligned, Unmapped}, NEW d, d = Vmclear(x, p)
  PROVE  Steps(x, d)
<1>1. /\ Misaligned # Unmapped /\ Misaligned \notin Memory \cup {None} /\ Unmapped \notin Memory \cup {None}
      /\ None \notin Memory
  BY MemoryAssumption DEF Misaligned, Unmapped, Memory, Own
<1>2. x.cur \in Memory \cup {None} /\ x.vmxon \in Memory \cup {None} /\ (x.cur # None => x.cur # x.vmxon)
  BY DEF Sound, Regional
<1>3. CASE p = Unmapped
  BY <1>1, <1>2, <1>3, RaiseSteps DEF Vmclear
<1>4. CASE p = Misaligned
  BY <1>1, <1>2, <1>4, FailSteps DEF Vmclear
<1>5. CASE p \in Memory /\ p = x.vmxon
  BY <1>1, <1>2, <1>5, FailSteps DEF Vmclear
<1>6. CASE p \in Memory /\ p # x.vmxon /\ p = x.cur
  <2>1. PICK w : w = [x.work EXCEPT ![LaunchSlot] = Val(0)]
    BY Zenon
  <2>2. Structure(w) /\ w[LaunchSlot].lo = 0 /\ \A t \in Slots \ {LaunchSlot} : w[t] = x.work[t]
    BY <2>1, LaunchWritten DEF Sound, IsCpu
  <2>3. PICK y : y = [x EXCEPT !.work = w]
    BY Zenon
  <2>4. IsCpu(x)
    BY DEF Sound
  <2>5. Agree(x, y, {"work"}) /\ y.work = w
    BY <2>2, <2>3, <2>4 DEF Agree, IsCpu, Names
  <2>6. IsCpu(y) /\ y.cur = x.cur /\ y.mem = x.mem /\ y.on = x.on /\ y.vmxon = x.vmxon /\ y.guest = x.guest
    BY <2>5 DEF Agree, Names
  <2>7. Sound(y)
    BY <2>6 DEF Sound, Regional
  <2>8. PICK z : z = Flush(y)
    BY Zenon
  <2>9. /\ Agree(y, z, {"mem"}) /\ z.mem = [q \in Memory |-> Body(y, q)]
        /\ \A q \in Memory : Structure(z.mem[q]) /\ z.mem[q] = Body(y, q)
    BY <2>7, <2>8, Flushed
  <2>10. d = [z EXCEPT !.cur = None, !.result = "succeed"]
    <3>1. y = SetLaunched(x, 0)
      BY <2>1, <2>3, Zenon DEF SetLaunched
    <3>2. d = Succeed([Flush(SetLaunched(x, 0)) EXCEPT !.cur = None])
      BY <1>1, <1>2, <1>6 DEF Vmclear
    <3> QED
      BY <2>8, <3>1, <3>2, Zenon DEF Succeed
  <2>11. /\ IsCpu(d) /\ d.cur = None /\ d.mem = z.mem /\ d.on = x.on /\ d.vmxon = x.vmxon /\ d.guest = x.guest
    <3>1. IsCpu(z)
      BY <2>9 DEF Agree
    <3>2. IsCpu(d) /\ d.cur = None /\ d.mem = z.mem /\ d.on = z.on /\ d.vmxon = z.vmxon /\ d.guest = z.guest
      BY <2>10, <3>1 DEF IsCpu, Names
    <3>3. z.on = y.on /\ z.vmxon = y.vmxon /\ z.guest = y.guest
      BY <2>9 DEF Agree, Names
    <3> QED
      BY <2>6, <3>2, <3>3
  <2>12. Regional(d)
    BY <2>9, <2>11 DEF Sound, Regional
  <2>13. \A q \in Memory : Body(d, q) = IF q = p THEN w ELSE Body(x, q)
    BY <1>1, <1>6, <2>5, <2>6, <2>9, <2>11 DEF Body
  <2>14. Body(x, p) = x.work
    BY <1>6 DEF Body
  <2>15. \A e \in Field : Slot(e) \in Slots \ {LaunchSlot}
    BY FieldSlot DEF Field
  <2>16. Clears(x, d, p)
    BY <1>6, <2>2, <2>11, <2>13, <2>14, <2>15 DEF Clears
  <2> QED
    BY <1>6, <2>11, <2>12, <2>16 DEF Steps, Sound, Effect
<1>7. CASE p \in Memory /\ p # x.vmxon /\ p # x.cur
  <2>1. PICK u : u = [x.mem[p] EXCEPT ![LaunchSlot] = Val(0)]
    BY Zenon
  <2>2. Structure(u) /\ u[LaunchSlot].lo = 0 /\ \A t \in Slots \ {LaunchSlot} : u[t] = x.mem[p][t]
    BY <1>7, <2>1, LaunchWritten DEF Sound, Regional
  <2>3. PICK m : m = [x.mem EXCEPT ![p] = u]
    BY Zenon
  <2>4. m = [q \in Memory |-> m[q]] /\ m[p] = u /\ \A q \in Memory \ {p} : m[q] = x.mem[q]
    <3>1. x.mem = [q \in Memory |-> x.mem[q]]
      BY DEF Sound, Regional
    <3> QED
      BY <1>7, <2>3, <3>1
  <2>5. d = [x EXCEPT !.mem = m, !.result = "succeed"]
    <3>1. d = Succeed([x EXCEPT !.mem[p][LaunchSlot] = Val(0)])
      BY <1>1, <1>2, <1>7 DEF Vmclear
    <3> QED
      BY <2>1, <2>3, <3>1, Zenon DEF Succeed
  <2>6. IsCpu(x)
    BY DEF Sound
  <2>7. /\ IsCpu(d) /\ d.cur = x.cur /\ d.mem = m /\ d.on = x.on /\ d.vmxon = x.vmxon /\ d.guest = x.guest
        /\ d.work = x.work
    BY <2>5, <2>6 DEF IsCpu, Names
  <2>8. \A q \in Memory : Structure(m[q])
    BY <2>2, <2>4 DEF Sound, Regional
  <2>9. Regional(d)
    BY <2>4, <2>7, <2>8 DEF Sound, Regional, Launched
  <2>10. Body(d, p) = u /\ Body(x, p) = x.mem[p] /\ \A q \in Memory \ {p} : Body(d, q) = Body(x, q)
    BY <1>7, <2>4, <2>7 DEF Body
  <2>11. \A e \in Field : Slot(e) \in Slots \ {LaunchSlot}
    BY FieldSlot DEF Field
  <2>12. Clears(x, d, p)
    BY <1>7, <2>2, <2>7, <2>10, <2>11 DEF Clears
  <2> QED
    BY <1>7, <2>7, <2>9, <2>12 DEF Steps, Sound, Effect
<1> QED
  BY <1>3, <1>4, <1>5, <1>6, <1>7

LEMMA VmptrldSteps ==
  ASSUME NEW x, Sound(x), ~x.guest, x.on, NEW p \in Memory \cup {Misaligned, Unmapped}, NEW d, d = Vmptrld(x, p)
  PROVE  Steps(x, d)
<1>1. /\ Misaligned # Unmapped /\ Misaligned \notin Memory \cup {None} /\ Unmapped \notin Memory \cup {None}
      /\ None \notin Memory /\ Blank \in Memory
  BY MemoryAssumption DEF Misaligned, Unmapped, Memory, Own
<1>2. x.cur \in (Memory \ {Blank}) \cup {None} /\ x.vmxon \in Memory \cup {None} /\ (x.cur # None => x.cur # x.vmxon)
  BY DEF Sound, Regional
<1>3. CASE p = Unmapped
  BY <1>1, <1>2, <1>3, RaiseSteps DEF Vmptrld
<1>4. CASE p = Misaligned
  BY <1>1, <1>2, <1>4, FailSteps DEF Vmptrld
<1>5. CASE p \in Memory /\ (p = x.vmxon \/ p = Blank)
  <2>1. \E n : d = FailValid(x, n)
    BY <1>1, <1>2, <1>5 DEF Vmptrld
  <2> QED
    BY <2>1, FailSteps
<1>6. CASE p \in Memory \ {Blank} /\ p # x.vmxon /\ p = x.cur
  BY <1>1, <1>2, <1>6, ResultSteps DEF Vmptrld, Succeed
<1>7. CASE p \in Memory \ {Blank} /\ p # x.vmxon /\ p # x.cur
  <2>1. PICK y : y = Flush(x)
    BY Zenon
  <2>2. /\ Agree(x, y, {"mem"}) /\ y.mem = [q \in Memory |-> Body(x, q)]
        /\ \A q \in Memory : Structure(y.mem[q]) /\ y.mem[q] = Body(x, q)
    BY <2>1, Flushed
  <2>3. PICK w : w = y.mem[p]
    BY Zenon
  <2>4. Structure(w) /\ w = Body(x, p)
    BY <1>7, <2>2, <2>3
  <2>5. d = [y EXCEPT !.work = w, !.cur = p, !.result = "succeed"]
    <3>1. d = Succeed(Load(Flush(x), p))
      BY <1>1, <1>2, <1>7 DEF Vmptrld
    <3> QED
      BY <2>1, <2>3, <3>1, Zenon DEF Succeed, Load
  <2>6. /\ IsCpu(d) /\ d.work = w /\ d.cur = p /\ d.mem = y.mem /\ d.on = x.on /\ d.vmxon = x.vmxon /\ d.guest = x.guest
    <3>1. IsCpu(y) /\ y.on = x.on /\ y.vmxon = x.vmxon /\ y.guest = x.guest
      BY <2>2 DEF Agree, Names
    <3>2. IsCpu(d) /\ d.work = w /\ d.cur = p /\ d.mem = y.mem /\ d.on = y.on /\ d.vmxon = y.vmxon /\ d.guest = y.guest
      BY <2>4, <2>5, <3>1 DEF IsCpu, Names
    <3> QED
      BY <3>1, <3>2
  <2>7. Regional(d)
    BY <1>7, <2>2, <2>6 DEF Sound, Regional
  <2>8. Keeps(x, d)
    BY <1>7, <2>2, <2>4, <2>6 DEF Keeps, Body
  <2> QED
    BY <2>6, <2>7, <2>8 DEF Steps, Sound, Effect
<1> QED
  BY <1>3, <1>4, <1>5, <1>6, <1>7

LEMMA VmptrstSteps ==
  ASSUME NEW x, Sound(x), NEW p, NEW d, d = Vmptrst(x, p)
  PROVE  Steps(x, d)
<1>1. CASE p = Unmapped
  BY <1>1, RaiseSteps DEF Vmptrst
<1>2. CASE p # Unmapped
  <2>1. PICK g : g = Val(x.cur)
    BY Zenon
  <2>2. d = [x EXCEPT !.got = g, !.result = "succeed"]
    BY <1>2, <2>1, Zenon DEF Vmptrst, Succeed
  <2>3. d = [x EXCEPT !.result = "succeed", !.got = g]
    BY <2>2 DEF Sound, IsCpu, Names
  <2> QED
    BY <2>3, ResultSteps
<1> QED
  BY <1>1, <1>2

LEMMA VmreadSteps ==
  ASSUME NEW x, Sound(x), NEW e, NEW p, NEW d, d = Vmread(x, e, p)
  PROVE  Steps(x, d)
<1>1. CASE x.cur = None
  BY <1>1, ResultSteps DEF Vmread, FailInvalid
<1>2. CASE x.cur # None /\ ~Known(e)
  BY <1>2, FailSteps DEF Vmread
<1>3. CASE x.cur # None /\ Known(e) /\ p = Unmapped
  BY <1>3, RaiseSteps DEF Vmread
<1>4. CASE x.cur # None /\ Known(e) /\ p # Unmapped
  <2>1. PICK g : g = Read(x.work, e)
    BY Zenon
  <2>2. d = [x EXCEPT !.got = g, !.result = "succeed"]
    BY <1>4, <2>1, Zenon DEF Vmread, Succeed
  <2>3. d = [x EXCEPT !.result = "succeed", !.got = g]
    BY <2>2 DEF Sound, IsCpu, Names
  <2> QED
    BY <2>3, ResultSteps
<1> QED
  BY <1>1, <1>2, <1>3, <1>4

\* Halves of one field share its slot and its kind.
LEMMA SlotType ==
  ASSUME NEW e \in Nat, Known(e), NEW g \in Nat, Known(g), Slot(e) = Slot(g)
  PROVE  Type(e) = Type(g)
<1>1. PICK a, b, i, j, k, l : /\ a = Width(e) /\ b = Width(g) /\ i = Type(e) /\ j = Type(g)
                             /\ k = Index(e) /\ l = Index(g)
  BY Zenon
<1>2. /\ a \in Nat /\ b \in Nat /\ i \in 0 .. 3 /\ j \in 0 .. 3 /\ k \in 0 .. 26 /\ l \in 0 .. 26
  BY <1>1 DEF Width, Type, Index, Known, HighestIndex
<1>3. (4 * a + i) * 32 + k = (4 * b + j) * 32 + l
  BY <1>1 DEF Slot
<1>4. i = j
  BY <1>2, <1>3
<1> QED
  BY <1>1, <1>4

LEMMA VmwriteSteps ==
  ASSUME NEW x, Sound(x), NEW e \in Encodings, NEW v, v = [lo |-> v.lo, hi |-> v.hi], NEW p,
         NEW d, d = Vmwrite(x, e, v, p)
  PROVE  Steps(x, d)
<1>1. CASE x.cur = None
  BY <1>1, ResultSteps DEF Vmwrite, FailInvalid
<1>2. CASE x.cur # None /\ ~Known(e)
  BY <1>2, FailSteps DEF Vmwrite
<1>3. CASE x.cur # None /\ Known(e) /\ ReadOnly(e)
  BY <1>3, FailSteps DEF Vmwrite
<1>4. CASE x.cur # None /\ Known(e) /\ ~ReadOnly(e) /\ p = Unmapped
  BY <1>4, RaiseSteps DEF Vmwrite
<1>5. CASE x.cur # None /\ Known(e) /\ ~ReadOnly(e) /\ p # Unmapped
  <2>1. PICK u : u = Write(x.work, e, v)
    BY Zenon
  <2>2. Structure(u) /\ \A t \in Slots \ {Slot(e)} : u[t] = x.work[t]
    BY <1>5, <2>1, WriteSlot DEF Sound, IsCpu
  <2>3. d = [x EXCEPT !.work = u, !.result = "succeed"]
    BY <1>5, <2>1, Zenon DEF Vmwrite, Succeed
  <2>4. IsCpu(x)
    BY DEF Sound
  <2>5. /\ IsCpu(d) /\ d.work = u /\ d.cur = x.cur /\ d.mem = x.mem /\ d.on = x.on /\ d.vmxon = x.vmxon
        /\ d.guest = x.guest
    BY <2>2, <2>3, <2>4 DEF IsCpu, Names
  <2>6. Slot(e) \in Slots /\ Slot(e) # LaunchSlot /\ LaunchSlot \in Slots /\ x.cur \in Memory
    BY <1>5, FieldSlot DEF Sound, Regional
  <2>7. d.work[LaunchSlot] = x.work[LaunchSlot]
    BY <2>2, <2>5, <2>6
  <2>8. Regional(d)
    BY <2>5, <2>7 DEF Sound, Regional, Launched
  <2>9. \A g \in Field : Slot(g) \in Slots /\ (Slot(g) = Slot(e) => ReadOnly(g) = ReadOnly(e))
    BY <1>5, FieldSlot, SlotType, FieldAssumption DEF Field, ReadOnly
  <2>10. \E g \in Field : ~ReadOnly(g) /\ \A h \in Field \ {g} : d.work[Slot(h)] = x.work[Slot(h)]
    <3>1. CASE \E g \in Field : Slot(g) = Slot(e)
      <4>1. PICK g \in Field : Slot(g) = Slot(e)
        BY <3>1
      <4>2. ~ReadOnly(g) /\ \A h \in Field \ {g} : Slot(h) # Slot(e)
        BY <1>5, <2>9, <4>1, FieldAssumption
      <4> QED
        BY <2>2, <2>5, <2>9, <4>2
    <3>2. CASE \A g \in Field : Slot(g) # Slot(e)
      <4>1. GuestRip \in Field /\ ~ReadOnly(GuestRip)
        BY NamedFields DEF Named, ReadOnly, Type, GuestRip
      <4> QED
        BY <2>2, <2>5, <2>9, <3>2, <4>1
    <3> QED
      BY <3>1, <3>2
  <2>11. Effect(x, d)
    BY <2>5, <2>6, <2>7, <2>10 DEF Effect, Alters
  <2> QED
    BY <2>5, <2>8, <2>11 DEF Steps, Sound
<1> QED
  BY <1>1, <1>2, <1>3, <1>4, <1>5

-----------------------------------------------------------------------------
(* Entries.                                                                  *)

Entering == {"work", "guest", "cr0", "vmxe", "env", "long", "rip", "start", "ifl", "halt"}
(* d runs the guest of x's fields, up to an event of the entry *)
Begun(x, d) ==
  /\ Agree(x, d, Entering) /\ d.guest = TRUE
  /\ d.cr0 = F(x, GuestCr0) \cup CR0Fixed /\ d.vmxe = TRUE /\ d.env = F(x, GuestEnv) /\ d.ifl = F(x, GuestFlags)
  /\ Launched(d)
Quiet(x, d) == /\ Begun(x, d) /\ d.rip = F(x, GuestRip) /\ d.halt = F(x, GuestActivity)
               /\ \A g \in Field : d.work[Slot(g)] = x.work[Slot(g)] /\ F(d, g) = F(x, g)
Target(x) == LET i == F(x, EntryIntrInfo)  to == F(x, GuestRip)
             IN  IF i.soft THEN [to EXCEPT !.at = @ + F(x, EntryInstrLen)] ELSE to
Injected(x, d) ==
  /\ Begun(x, d) /\ d.rip = Target(x) /\ d.start = Target(x) /\ d.halt = FALSE /\ F(d, EntryIntrInfo) = None
  /\ \A g \in Field \ {EntryIntrInfo} : d.work[Slot(g)] = x.work[Slot(g)] /\ F(d, g) = F(x, g)

\* An entry loads the guest and delivers the event that waits for it (vm_entry).
LEMMA EntryLoads ==
  ASSUME NEW x, IsCpu(x), NEW bad, NEW d, d = VmEntry(x, bad)
  PROVE  \/ F(x, EntryIntrInfo) = None /\ Quiet(x, d)
         \/ /\ F(x, EntryIntrInfo) # None
            /\ \E y, f : /\ Injected(x, y) /\ IsCpu(y) /\ d = DispatchRaw(y, f, bad)
                        /\ f = Fault(F(x, EntryIntrInfo).vector, {})
<1>1. PICK cr0, env, long, rip, ifl, halt :
        /\ cr0 = F(x, GuestCr0) \cup CR0Fixed /\ env = F(x, GuestEnv) /\ rip = F(x, GuestRip) /\ ifl = F(x, GuestFlags)
        /\ halt = F(x, GuestActivity)
        /\ long = IF "loadefer" \in F(x, EntryCtls) THEN F(x, GuestEfer) ELSE "ia32e" \in F(x, EntryCtls)
  BY Zenon
<1>2. PICK y : y = [x EXCEPT !.cr0 = cr0, !.vmxe = TRUE, !.env = env, !.long = long, !.rip = rip, !.ifl = ifl, !.halt = halt]
  BY Zenon
<1>3. y = LoadGuest(x)
  BY <1>1, <1>2, Zenon DEF LoadGuest
<1>4. /\ IsCpu(y) /\ y.work = x.work /\ Agree(x, y, {"cr0", "vmxe", "env", "long", "rip", "ifl", "halt"})
      /\ y.cr0 = cr0 /\ y.vmxe = TRUE /\ y.env = env /\ y.rip = rip /\ y.ifl = ifl /\ y.halt = halt
  BY <1>2 DEF Agree, IsCpu, Names
<1>5. PICK w : w = [y.work EXCEPT ![LaunchSlot] = Val(1)]
  BY Zenon
<1>6. Structure(w) /\ w[LaunchSlot].lo = 1 /\ \A t \in Slots \ {LaunchSlot} : w[t] = x.work[t]
  BY <1>4, <1>5, LaunchWritten DEF IsCpu
<1>7. PICK z : z = [y EXCEPT !.work = w, !.guest = TRUE]
  BY Zenon
<1>8. z = [SetLaunched(LoadGuest(x), 1) EXCEPT !.guest = TRUE]
  BY <1>3, <1>5, <1>7, Zenon DEF SetLaunched
<1>9. Agree(y, z, {"work", "guest"}) /\ z.work = w /\ z.guest = TRUE
  BY <1>4, <1>6, <1>7 DEF Agree, IsCpu, Names
<1>10. IsCpu(z) /\ Agree(x, z, Entering) /\ Launched(z)
  <2>1. Agree(x, z, Entering)
    BY <1>4, <1>9, Zenon DEF Agree, Entering
  <2> QED
    BY <1>6, <1>9, <2>1 DEF Agree, Launched
<1>11. z.cr0 = cr0 /\ z.vmxe = TRUE /\ z.env = env /\ z.rip = rip /\ z.ifl = ifl /\ z.halt = halt
  BY <1>4, <1>9 DEF Agree, Names
<1>12. \A g \in Field : z.work[Slot(g)] = x.work[Slot(g)] /\ F(z, g) = F(x, g)
  <2>1. \A g \in Field : Slot(g) \in Slots \ {LaunchSlot}
    BY FieldSlot DEF Field
  <2>2. \A g \in Field : z.work[Slot(g)] = x.work[Slot(g)]
    BY <1>6, <1>9, <2>1
  <2> QED
    BY <2>2, ReadsField DEF F, At
<1>13. Begun(x, z)
  BY <1>1, <1>9, <1>10, <1>11 DEF Begun
<1>14. CASE F(x, EntryIntrInfo) = None
  <2>1. d = z
    BY <1>8, <1>14, Zenon DEF VmEntry
  <2>2. Quiet(x, z)
    BY <1>1, <1>11, <1>12, <1>13 DEF Quiet
  <2> QED
    BY <1>14, <2>1, <2>2
<1>15. CASE F(x, EntryIntrInfo) # None
  <2>1. PICK to : to = Target(x)
    BY Zenon
  <2>2. PICK u : u = Put(z, EntryIntrInfo, None)
    BY Zenon
  <2>3. IsCpu(u) /\ Agree(z, u, {"work"}) /\ F(u, EntryIntrInfo) = None /\ Rest(z, u, {EntryIntrInfo})
    BY <1>10, <2>2, PutField, NamedFields DEF Named
  <2>4. PICK v : v = [u EXCEPT !.rip = to, !.start = to, !.halt = FALSE]
    BY Zenon
  <2>5. IsCpu(v) /\ Agree(u, v, {"rip", "start", "halt"}) /\ v.work = u.work /\ v.rip = to /\ v.start = to /\ v.halt = FALSE
    BY <2>3, <2>4 DEF Agree, IsCpu, Names
  <2>6. to = LET i == F(x, EntryIntrInfo)
             IN  IF i.soft THEN [z.rip EXCEPT !.at = @ + F(x, EntryInstrLen)] ELSE z.rip
    BY <1>1, <1>11, <2>1, Zenon DEF Target
  <2>7. d = DispatchRaw(v, Fault(F(x, EntryIntrInfo).vector, {}), bad)
    <3>1. PICK i : i = F(x, EntryIntrInfo)
      BY Zenon
    <3>2. to = IF i.soft THEN [z.rip EXCEPT !.at = @ + F(x, EntryInstrLen)] ELSE z.rip
      BY <2>6, <3>1, Zenon
    <3>3. d = DispatchRaw([Put(z, EntryIntrInfo, None) EXCEPT !.rip = to, !.start = to, !.halt = FALSE], Fault(i.vector, {}), bad)
      BY <1>8, <1>15, <3>1, <3>2 DEF VmEntry
    <3> QED
      BY <2>2, <2>4, <3>1, <3>3, Zenon
  <2>8. Agree(x, v, Entering)
    BY <1>10, <2>3, <2>5, Zenon DEF Agree, Entering
  <2>9. \A g : F(v, g) = F(u, g)
    BY <2>5, SameWork
  <2>10. Launched(v) /\ \A g \in Field \ {EntryIntrInfo} : v.work[Slot(g)] = x.work[Slot(g)] /\ F(v, g) = F(x, g)
    BY <1>10, <1>12, <2>3, <2>5, <2>9 DEF Rest, Launched
  <2>11. v.guest = TRUE /\ v.cr0 = cr0 /\ v.vmxe = TRUE /\ v.env = env /\ v.ifl = ifl
    <3>1. u.guest = TRUE /\ u.cr0 = cr0 /\ u.vmxe = TRUE /\ u.env = env /\ u.ifl = ifl
      BY <1>9, <1>11, <2>3 DEF Agree, Names
    <3> QED
      BY <2>5, <3>1 DEF Agree, Names
  <2>12. Begun(x, v)
    BY <1>1, <2>8, <2>10, <2>11 DEF Begun
  <2>13. Injected(x, v)
    BY <2>1, <2>3, <2>5, <2>9, <2>10, <2>12 DEF Injected
  <2> QED
    BY <1>15, <2>5, <2>7, <2>13
<1> QED
  BY <1>14, <1>15, Zenon

LEMMA DeliveryAlters ==
  ASSUME NEW x, Sound(x), x.guest, NEW d, Delivery(x, d)
  PROVE  /\ Launched(d) /\ d.cur = x.cur /\ d.mem = x.mem
         /\ \A g \in Field \ (State \cup Told3) : d.work[Slot(g)] = x.work[Slot(g)]
<1>1. Launched(x)
  BY DEF Sound, Regional
<1>2. CASE Apart(x, d)
  <2>1. d.cur = x.cur /\ d.mem = x.mem /\ d.work = x.work
    BY <1>2 DEF Apart, Agree, Plain, Names
  <2> QED
    BY <1>1, <2>1 DEF Launched
<1>3. CASE \E y, reason, vector : x.guest /\ Apart(x, y) /\ Left(y, d, reason, vector)
  <2>1. PICK y, reason, vector : x.guest /\ Apart(x, y) /\ Left(y, d, reason, vector)
    BY <1>3
  <2>2. y.cur = x.cur /\ y.mem = x.mem /\ y.work = x.work
    BY <2>1 DEF Apart, Agree, Plain, Names
  <2>3. d.cur = y.cur /\ d.mem = y.mem /\ Rest(y, d, State \cup Told3)
    BY <2>1 DEF Left, Agree, Reloaded, Names
  <2> QED
    BY <1>1, <2>2, <2>3 DEF Rest, Launched
<1> QED
  BY <1>2, <1>3 DEF Delivery

LEMMA EntrySteps ==
  ASSUME NEW x, Sound(x), x.on, x.cur # None, NEW bad, NEW d, d = VmEntry(x, bad)
  PROVE  Steps(x, d)
<1> DEFINE Open == {e \in Field : Type(e) \in {1, 2} \/ e = EntryIntrInfo}
<1>1. x.cur \in Memory /\ IsCpu(x)
  BY DEF Sound, Regional
<1>2. ASSUME NEW y, Begun(x, y), \A g \in Field \ {EntryIntrInfo} : y.work[Slot(g)] = x.work[Slot(g)]
      PROVE  Sound(y) /\ y.guest /\ Steps(x, y)
  <2>1. /\ IsCpu(y) /\ y.on = x.on /\ y.vmxon = x.vmxon /\ y.cur = x.cur /\ y.mem = x.mem /\ y.guest = TRUE
        /\ Launched(y)
    BY <1>2 DEF Begun, Agree, Entering, Names
  <2>2. Regional(y)
    BY <2>1 DEF Sound, Regional
  <2>3. Alters(x, y, Open) /\ Launched(y)
    BY <1>1, <1>2, <2>1, NamedFields DEF Alters, Named
  <2> QED
    BY <2>1, <2>2, <2>3 DEF Steps, Sound, Effect
<1>3. CASE Quiet(x, d)
  BY <1>2, <1>3 DEF Quiet
<1>4. CASE \E y, f : Injected(x, y) /\ IsCpu(y) /\ d = DispatchRaw(y, f, bad)
  <2>1. PICK y, f : Injected(x, y) /\ IsCpu(y) /\ d = DispatchRaw(y, f, bad)
    BY <1>4
  <2>2. Sound(y) /\ y.guest /\ Delivery(y, d)
    BY <1>2, <2>1, RawDelivery DEF Injected
  <2>3. Sound(d)
    BY <2>2, DeliverySteps DEF Steps
  <2>4. y.cur = x.cur /\ y.mem = x.mem
    BY <2>1 DEF Injected, Begun, Agree, Entering, Names
  <2>5. Alters(x, d, Open) /\ Launched(d)
    BY <1>1, <2>1, <2>2, <2>4, DeliveryAlters, ReportedFields, NamedFields DEF Alters, Named, Injected
  <2> QED
    BY <2>3, <2>5 DEF Steps, Effect
<1> QED
  BY <1>1, <1>3, <1>4, EntryLoads

LEMMA LaunchSteps ==
  ASSUME NEW x, Sound(x), x.on, NEW op, NEW bad, NEW d, d = VmLaunch(x, op, bad)
  PROVE  Steps(x, d)
<1>1. CASE x.cur = None
  BY <1>1, ResultSteps DEF VmLaunch, FailInvalid
<1>2. CASE x.cur # None /\ op = "vmlaunch" /\ Launched(x)
  BY <1>2, FailSteps DEF VmLaunch
<1>3. CASE x.cur # None /\ op = "vmresume" /\ ~Launched(x)
  BY <1>3, FailSteps DEF VmLaunch
<1>4. CASE x.cur # None /\ ~(op = "vmlaunch" /\ Launched(x)) /\ ~(op = "vmresume" /\ ~Launched(x))
  BY <1>4, FailSteps, EntrySteps DEF VmLaunch
<1> QED
  BY <1>1, <1>2, <1>3, <1>4

\* A VMX instruction of the root (execute).
RootOp(i) == /\ i.p \in Memory \cup {Misaligned, Unmapped} /\ i.v = [lo |-> i.v.lo, hi |-> i.v.hi]
             /\ (i.op = "vmwrite" => i.e \in Encodings)
LEMMA ExecuteSteps ==
  ASSUME NEW x, Sound(x), ~x.guest, NEW i,
         i.op \in VmxOps,
         \/ i.op \in {"vmlaunch", "vmresume"} \/ RootOp(i)
         \/ (i.op = "vmwrite" /\ i.e \in Encodings /\ i.v = [lo |-> i.v.lo, hi |-> i.v.hi]),
         NEW bad, NEW d, d = ExecuteVmx(x, i, bad)
  PROVE  Steps(x, d)
<1>1. CASE i.op # "vmxon" /\ ~x.on
  BY <1>1, RaiseSteps DEF ExecuteVmx
<1>2. CASE i.op = "vmxon"
  BY <1>2, VmxonSteps DEF ExecuteVmx, RootOp
<1>3. CASE i.op # "vmxon" /\ x.on
  <2>1. CASE i.op = "vmxoff"
    BY <1>3, <2>1, VmxoffSteps DEF ExecuteVmx
  <2>2. CASE i.op = "vmclear"
    BY <1>3, <2>2, VmclearSteps DEF ExecuteVmx, RootOp
  <2>3. CASE i.op = "vmptrld"
    BY <1>3, <2>3, VmptrldSteps DEF ExecuteVmx, RootOp
  <2>4. CASE i.op = "vmptrst"
    BY <1>3, <2>4, VmptrstSteps DEF ExecuteVmx
  <2>5. CASE i.op = "vmread"
    BY <1>3, <2>5, VmreadSteps DEF ExecuteVmx
  <2>6. CASE i.op = "vmwrite"
    BY <1>3, <2>6, VmwriteSteps DEF ExecuteVmx, RootOp
  <2>7. CASE i.op \in {"vmlaunch", "vmresume"}
    BY <1>3, <2>7, LaunchSteps DEF ExecuteVmx
  <2>8. CASE i.op = "vmcall"
    BY <1>3, <2>8, FailSteps DEF ExecuteVmx
  <2>9. CASE i.op \in {"invept", "invvpid"}
    <3>1. d = FailValid(x, 28) \/ d = [x EXCEPT !.result = "succeed"]
      BY <1>3, <2>9 DEF ExecuteVmx, Invalidate, Succeed
    <3> QED
      BY <3>1, FailSteps, ResultSteps
  <2> QED
    BY <1>3, <2>1, <2>2, <2>3, <2>4, <2>5, <2>6, <2>7, <2>8, <2>9 DEF VmxOps
<1> QED
  BY <1>1, <1>2, <1>3

-----------------------------------------------------------------------------
(* Every step keeps the shape, and changes the structures in one of the ways. *)

LEMMA DecodedApart ==
  ASSUME IsCpu(c)
  PROVE  IsCpu(Decoded) /\ Apart(c, Decoded) /\ Decoded.rip = Next1(c)
<1>1. PICK to, d : to = Next1(c) /\ d = Decoded
  BY Zenon
<1>2. d = [c EXCEPT !.rip = to]
  BY <1>1, Zenon DEF Decoded
<1>3. IsCpu(d) /\ Apart(c, d) /\ d.rip = to
  BY <1>2 DEF Apart, Agree, IsCpu, Names, Plain
<1> QED
  BY <1>1, <1>3

LEMMA ApartSteps ==
  ASSUME NEW x, Sound(x), NEW y, Apart(x, y)
  PROVE  Sound(y) /\ \A d : Steps(y, d) => Steps(x, d)
<1>1. Plain \cap Pointers = {}
  BY DEF Plain, Pointers
<1>2. Sound(y)
  BY <1>1, QuietSteps DEF Apart, Steps
<1>3. y.cur = x.cur /\ y.work = x.work /\ y.mem = x.mem
  BY DEF Apart, Agree, Plain, Names
<1>4. ASSUME NEW d, Steps(y, d)
      PROVE  Steps(x, d)
  <2>1. \A p \in Memory : Body(y, p) = Body(x, p)
    BY <1>3 DEF Body
  <2>2. Keeps(y, d) => Keeps(x, d)
    BY <2>1 DEF Keeps
  <2>3. \A p : Clears(y, d, p) => Clears(x, d, p)
    BY <1>3, <2>1 DEF Clears
  <2>4. \A E : Alters(y, d, E) => Alters(x, d, E)
    BY <1>3 DEF Alters
  <2> QED
    BY <1>3, <1>4, <2>2, <2>3, <2>4, Zenon DEF Steps, Effect
<1> QED
  BY <1>2, <1>4

(* what the instructions of programs and handlers change, short of an exit *)
Going == {"rip", "ifl", "halt", "pend", "stack", "env"}
System == {"rip", "cr0", "got"}
Goes(x, d, N) == Agree(x, d, N) /\ (x.guest => d.stack["host"] = x.stack["host"])
GoesOn(N) == Goes(c, c', N) \/ (c.guest /\ Delivery(c, c'))
Cr0Acts == WritesCr0 \/ ReadsCr0 \/ Clts \/ Lmsw

LEMMA RunsGoes ==
  ASSUME IsCpu(c), NEW ins, NEW d, NEW h, NEW N, Runs(ins, d, h), Goes(c, d, N)
  PROVE  GoesOn(N)
<1>1. IsCpu(Decoded) /\ Apart(c, Decoded)
  BY DecodedApart
<1>2. CASE c.guest /\ Exits(Decoded, ins)
  <2>1. c' = VmExit(Decoded, ins.op, None)
    BY <1>2 DEF Runs, Done
  <2>2. Left(Decoded, c', ins.op, None)
    BY <1>1, <2>1, ExitLeaves
  <2> QED
    BY <1>1, <1>2, <2>2, Zenon DEF Delivery, GoesOn
<1>3. CASE ~(c.guest /\ Exits(Decoded, ins))
  BY <1>3 DEF Runs, Done, GoesOn
<1> QED
  BY <1>2, <1>3

\* The return of a handler: by its frame, or by half a one.
Pops(w, f, more, rip, ifl) ==
  /\ w = Who(c) /\ f = c.stack[w][Len(c.stack[w])] /\ more = SubSeq(c.stack[w], 1, Len(c.stack[w]) - 1)
  /\ c' = [c EXCEPT !.rip = rip, !.ifl = ifl, !.stack[w] = more]
  /\ hist' = Exited([hist EXCEPT !.ended = @ + (IF c.rip.code = "irq" THEN 1 ELSE 0)], c')
  /\ IF f.whole THEN rip = f.rip /\ ifl = f.ifl ELSE rip = Place("lost", 0)
LEMMA IretPops ==
  ASSUME Iret
  PROVE  \E w, f, more, rip, ifl : Pops(w, f, more, rip, ifl)
<1>1. PICK w, f, more : w = Who(c) /\ f = c.stack[w][Len(c.stack[w])] /\ more = SubSeq(c.stack[w], 1, Len(c.stack[w]) - 1)
  BY Zenon
<1>2. PICK b \in Popped(f) : Done([c EXCEPT !.rip = b.rip, !.ifl = b.ifl, !.stack[w] = more],
                                  [hist EXCEPT !.ended = @ + (IF c.rip.code = "irq" THEN 1 ELSE 0)])
  BY <1>1, Zenon DEF Iret
<1>3. PICK rip, ifl : rip = b.rip /\ ifl = b.ifl
  BY Zenon
<1>4. IF f.whole THEN rip = f.rip /\ ifl = f.ifl ELSE rip = Place("lost", 0)
  <2>1. CASE f.whole
    BY <1>2, <1>3, <2>1 DEF Popped
  <2>2. CASE ~f.whole
    BY <1>2, <1>3, <2>2 DEF Popped
  <2> QED
    BY <2>1, <2>2
<1>5. /\ c' = [c EXCEPT !.rip = rip, !.ifl = ifl, !.stack[w] = more]
      /\ hist' = Exited([hist EXCEPT !.ended = @ + (IF c.rip.code = "irq" THEN 1 ELSE 0)], c')
  BY <1>2, <1>3, Zenon DEF Done
<1> QED
  BY <1>1, <1>4, <1>5, Zenon DEF Pops

\* The instructions of guests, handlers and systems alone.
LEMMA ProgramGoes ==
  ASSUME IsCpu(c), Guest, ~Cr0Acts
  PROVE  GoesOn(Going)
<1> USE DEF GoesOn
<1>2. PICK y : y = Decoded
  BY Zenon
<1>3. IsCpu(y) /\ Agree(c, y, {"rip"}) /\ Goes(c, y, Going) /\ Goes(c, c, Going) /\ y.stack = c.stack
  <2>1. PICK to : to = Next1(c)
    BY Zenon
  <2>2. y = [c EXCEPT !.rip = to]
    BY <1>2, <2>1, Zenon DEF Decoded
  <2>3. Agree(c, y, {"rip"}) /\ Agree(c, c, Going) /\ y.stack = c.stack
    BY <2>2 DEF Agree, IsCpu, Names
  <2>4. IsCpu(y) /\ Agree(c, y, Going)
    BY <2>3 DEF Agree, Going
  <2> QED
    BY <2>3, <2>4 DEF Goes
<1>4. ASSUME NEW d, Agree(y, d, Going \ {"stack"})
      PROVE  Goes(c, d, Going)
  <2>1. d.stack = y.stack
    BY <1>4 DEF Agree, Names, Going
  <2>2. Agree(c, d, Going)
    BY <1>3, <1>4, Zenon DEF Agree, Going
  <2> QED
    BY <1>3, <2>1, <2>2 DEF Goes
<1>20. ASSUME NEW x, x \in {c, y}, NEW v
       PROVE  Goes(c, Raise(x, v), Going)
  <2>1. PICK f, d : f = Fault(v, {}) /\ d = Raise(x, v)
    BY Zenon
  <2>2. d = x \/ d = [x EXCEPT !.pend = f]
    BY <2>1 DEF Raise, Raised
  <2>3. IsCpu(x) /\ Agree(c, x, {"rip"}) /\ x.stack = c.stack
    BY <1>3, <1>20 DEF Agree
  <2>4. Agree(x, d, {"pend"}) /\ d.stack = x.stack
    BY <2>2, <2>3 DEF Agree, IsCpu, Names
  <2>5. Agree(c, d, Going)
    BY <2>3, <2>4, Zenon DEF Agree, Going
  <2> QED
    BY <2>1, <2>3, <2>4, <2>5 DEF Goes
<1>5. CASE FetchFaults
  BY <1>5, <1>20 DEF FetchFaults, Done
<1>6. CASE Faults
  BY <1>2, <1>20, <1>6 DEF Faults, Done
<1>7. CASE Int3
  BY <1>2, <1>20, <1>7 DEF Int3, Done
<1>8. CASE Spins
  BY <1>3, <1>8 DEF Spins, Done
<1>9. CASE SetFlag
  <2>1. PICK v \in BOOLEAN : c' = [y EXCEPT !.ifl = v]
    BY <1>2, <1>9, Zenon DEF SetFlag, Done
  <2>2. Agree(y, c', Going \ {"stack"})
    BY <1>3, <2>1 DEF Agree, IsCpu, Names, Going
  <2> QED
    BY <1>4, <2>2
<1>10. CASE SetEnv
  <2>1. PICK v \in {"a", "b"} : c' = [y EXCEPT !.env = v]
    BY <1>2, <1>10, Zenon DEF SetEnv, Done
  <2>2. Agree(y, c', Going \ {"stack"})
    BY <1>3, <2>1 DEF Agree, IsCpu, Names, Going
  <2> QED
    BY <1>4, <2>2
<1>11. CASE Halts
  <2>1. PICK d : d = [y EXCEPT !.halt = TRUE]
    BY Zenon
  <2>2. Runs(Op("hlt"), d, hist)
    BY <1>2, <1>11, <2>1, Zenon DEF Halts
  <2>3. Agree(y, d, Going \ {"stack"})
    BY <1>3, <2>1 DEF Agree, IsCpu, Names, Going
  <2> QED
    BY <1>4, <2>2, <2>3, RunsGoes
<1>12. CASE Others
  <2>1. c' = Raise(y, "ud") \/ \E o : Runs(Op(o), y, hist)
    BY <1>2, <1>12, Zenon DEF Others, Done
  <2> QED
    BY <1>3, <1>20, <2>1, RunsGoes
<1>13. CASE Ports
  <2>1. \E i : Runs(i, y, hist)
    BY <1>2, <1>13, Zenon DEF Ports
  <2> QED
    BY <1>3, <2>1, RunsGoes
<1>14. CASE Handles
  BY <1>2, <1>3, <1>14 DEF Handles, Done
<1>15. CASE Iret
  <2>0. PICK w, f, more, rip, ifl : Pops(w, f, more, rip, ifl)
    BY <1>15, IretPops
  <2>1. w = Who(c) /\ c' = [c EXCEPT !.rip = rip, !.ifl = ifl, !.stack[w] = more]
    BY <2>0, Zenon DEF Pops
  <2>2. PICK st : st = [c.stack EXCEPT ![w] = more]
    BY Zenon
  <2>3. c' = [c EXCEPT !.rip = rip, !.ifl = ifl, !.stack = st]
    BY <2>1, <2>2, Zenon
  <2>4. st = [t \in Worlds |-> st[t]] /\ (c.guest => st["host"] = c.stack["host"])
    BY <2>1, <2>2 DEF IsCpu, Who, Worlds
  <2>5. Agree(c, c', Going) /\ (c.guest => c'.stack["host"] = c.stack["host"])
    BY <2>3, <2>4 DEF Agree, IsCpu, Names, Going
  <2> QED
    BY <2>5 DEF Goes
<1>21. CASE Defers
  BY <1>2, <1>3, <1>21 DEF Defers
<1> QED
  BY <1>5, <1>6, <1>7, <1>8, <1>9, <1>10, <1>11, <1>12, <1>13, <1>14, <1>15, <1>21 DEF Guest, Cr0Acts

LEMMA Cr0Goes ==
  ASSUME IsCpu(c), Cr0Acts
  PROVE  GoesOn(System)
<1> USE DEF GoesOn
<1>2. PICK y : y = Decoded
  BY Zenon
<1>3. IsCpu(y) /\ Agree(c, y, {"rip"}) /\ y.stack = c.stack
  <2>1. PICK to : to = Next1(c)
    BY Zenon
  <2>2. y = [c EXCEPT !.rip = to]
    BY <1>2, <2>1, Zenon DEF Decoded
  <2> QED
    BY <2>2 DEF Agree, IsCpu, Names
<1>4. ASSUME NEW d, Agree(y, d, {"cr0", "got"})
      PROVE  Goes(c, d, System)
  <2>1. d.stack = y.stack
    BY <1>4 DEF Agree, Names
  <2>2. Agree(c, d, System)
    BY <1>3, <1>4, Zenon DEF Agree, System
  <2> QED
    BY <1>3, <2>1, <2>2 DEF Goes
<1>16. CASE WritesCr0
  <2>1. PICK v \in Bits : \E h : Runs([op |-> "tocr0", arg |-> v], [y EXCEPT !.cr0 = Owned(c, v)], h)
    BY <1>2, <1>16, Zenon DEF WritesCr0
  <2>2. PICK b, d : b = Owned(c, v) /\ d = [y EXCEPT !.cr0 = b]
    BY Zenon
  <2>3. Agree(y, d, {"cr0", "got"})
    BY <1>3, <2>2 DEF Agree, IsCpu, Names
  <2>4. Goes(c, d, System)
    BY <1>4, <2>3
  <2> QED
    BY <2>1, <2>2, <2>4, RunsGoes
<1>17. CASE ReadsCr0
  <2>1. PICK b, d : b = Val(Masked(c)) /\ d = [y EXCEPT !.got = b]
    BY Zenon
  <2>2. Agree(y, d, {"cr0", "got"})
    BY <1>3, <2>1 DEF Agree, IsCpu, Names
  <2>3. Goes(c, d, System)
    BY <1>4, <2>2
  <2>4. \E h : Runs(Op("fromcr0"), d, h)
    BY <1>2, <1>17, <2>1, Zenon DEF ReadsCr0
  <2> QED
    BY <2>3, <2>4, RunsGoes
<1>18. CASE Clts
  <2>1. PICK b, d : b = y.cr0 \ {"TS"} /\ d = [y EXCEPT !.cr0 = b]
    BY Zenon
  <2>2. Agree(y, d, {"cr0", "got"})
    BY <1>3, <2>1 DEF Agree, IsCpu, Names
  <2>3. Goes(c, d, System)
    BY <1>4, <2>2
  <2>4. \E h : Runs(Op("clts"), d, h)
    BY <1>2, <1>18, <2>1, Zenon DEF Clts
  <2> QED
    BY <2>3, <2>4, RunsGoes
<1>19. CASE Lmsw
  <2>1. PICK v \in Bits : \E h : Runs([op |-> "lmsw", arg |-> v], [y EXCEPT !.cr0 = Loaded(@, v)], h)
    BY <1>2, <1>19, Zenon DEF Lmsw
  <2>2. PICK b, d : b = Loaded(y.cr0, v) /\ d = [y EXCEPT !.cr0 = b]
    BY Zenon
  <2>3. Agree(y, d, {"cr0", "got"})
    BY <1>3, <2>2 DEF Agree, IsCpu, Names
  <2>4. Goes(c, d, System)
    BY <1>4, <2>3
  <2> QED
    BY <2>1, <2>2, <2>4, RunsGoes, Zenon
<1> QED
  BY <1>16, <1>17, <1>18, <1>19 DEF Cr0Acts

LEMMA GuestGoes ==
  ASSUME IsCpu(c), Guest
  PROVE  GoesOn(Going \cup System)
<1>1. ASSUME NEW N, N \subseteq Going \cup System, GoesOn(N)
      PROVE  GoesOn(Going \cup System)
  BY <1>1, Zenon DEF GoesOn, Goes, Agree
<1> QED
  BY <1>1, ProgramGoes, Cr0Goes

LEMMA GuestSteps ==
  ASSUME Sound(c), Guest
  PROVE  Steps(c, c')
<1>1. IsCpu(c) /\ (Going \cup System) \cap Pointers = {}
  BY DEF Sound, Going, System, Pointers
<1> QED
  BY <1>1, GuestGoes, QuietSteps, DeliverySteps DEF GoesOn, Goes

\* The instructions of a hypervisor.
LEMMA VmxSteps ==
  ASSUME Sound(c), ~c.guest, NEW i, NEW h, NEW bad, Done(ExecuteVmx(Decoded, i, bad), h), i.op \in VmxOps,
         \/ i.op \in {"vmlaunch", "vmresume"} \/ RootOp(i)
         \/ (i.op = "vmwrite" /\ i.e \in Encodings /\ i.v = [lo |-> i.v.lo, hi |-> i.v.hi])
  PROVE  Steps(c, c')
<1>1. PICK y : y = Decoded
  BY Zenon
<1>2. Apart(c, y) /\ Sound(y) /\ (\A d : Steps(y, d) => Steps(c, d)) /\ ~y.guest
  BY <1>1, DecodedApart, ApartSteps, ApartCpu DEF Sound
<1>3. c' = ExecuteVmx(y, i, bad)
  BY <1>1 DEF Done
<1>4. Steps(y, c')
  BY <1>2, <1>3, ExecuteSteps
<1> QED
  BY <1>2, <1>4

LEMMA InstrShape ==
  ASSUME NEW op, NEW e, NEW v, NEW i, i = Instr(op, e, v)
  PROVE  i.op = op /\ i.e = e /\ i.v = [lo |-> i.v.lo, hi |-> i.v.hi] /\ i.v = Val(v)
BY DEF Instr, Val

\* An entry of the hypervisor, with what becomes of its event (Resumes).
Resumed(d) == LET i == F(c, EntryIntrInfo)
                  trap == i # None /\ i.soft /\ F(c, GuestRip).code = "main"
              IN  [hist EXCEPT !.owes = IF d.guest THEN "none" ELSE Owes(d), !.due = @ + (IF trap THEN 1 ELSE 0)]
LEMMA ResumesShape ==
  ASSUME Resumes
  PROVE  \E bad, d, i, op, h :
           /\ bad \in 0..2 /\ op = (IF Launched(c) THEN "vmresume" ELSE "vmlaunch") /\ i = F(c, EntryIntrInfo)
           /\ d = ExecuteVmx(Decoded, Instr(op, 0, 0), bad)
           /\ h = (IF i = None THEN Resumed(d) ELSE Torn(Resumed(d), i.vector, d))
           /\ Done(ExecuteVmx(Decoded, Instr(op, 0, 0), bad), h) /\ c' = d /\ hist' = Exited(h, d)
BY Zenon DEF Resumes, Resumed, Done
(* an entry that faults has torn the delivery of its event *)
LEMMA ResumesHist ==
  ASSUME Resumes
  PROVE  \E v, h : (h = Resumed(c') \/ h = Torn(Resumed(c'), v, c')) /\ hist' = Exited(h, c')
<1>1. PICK bad, d, i, op, h :
           /\ bad \in 0..2 /\ op = (IF Launched(c) THEN "vmresume" ELSE "vmlaunch") /\ i = F(c, EntryIntrInfo)
           /\ d = ExecuteVmx(Decoded, Instr(op, 0, 0), bad)
           /\ h = (IF i = None THEN Resumed(d) ELSE Torn(Resumed(d), i.vector, d))
           /\ Done(ExecuteVmx(Decoded, Instr(op, 0, 0), bad), h) /\ c' = d /\ hist' = Exited(h, d)
  BY ResumesShape
<1>2. PICK v, a : v = i.vector /\ a = d
  BY Zenon
<1>3. a = c' /\ hist' = Exited(h, a)
  BY <1>1, <1>2
<1>4. h = Resumed(a) \/ h = Torn(Resumed(a), v, a)
  <2>1. h = (IF i = None THEN Resumed(d) ELSE Torn(Resumed(d), i.vector, d))
    BY <1>1, Zenon
  <2> QED
    BY <1>2, <2>1, Zenon
<1> QED
  BY <1>3, <1>4

LEMMA HostSteps ==
  ASSUME Sound(c), Host
  PROVE  Steps(c, c')
<1>0. IsCpu(c)
  BY DEF Sound
<1>1. ~c.guest
  BY DEF Host, RootTries, SetsFeature, Skips, Grants, GrantsOwn, Repairs, Hands, Injects, Asks, Opens, Resumes,
     Working, AtHost
<1>2. PICK y : y = Decoded
  BY Zenon
<1>3. IsCpu(y) /\ Apart(c, y) /\ Sound(y) /\ (\A d : Steps(y, d) => Steps(c, d)) /\ Steps(c, y)
  <2>1. Sound(y) /\ \A d : Steps(y, d) => Steps(c, d)
    BY <1>0, <1>2, DecodedApart, ApartSteps
  <2> QED
    BY <1>0, <1>2, <2>1, DecodedApart, StillSteps
<1>4. "vmwrite" \in VmxOps /\ "vmlaunch" \in VmxOps /\ "vmresume" \in VmxOps
  BY DEF VmxOps
<1>5. ASSUME NEW e \in Encodings, NEW v, NEW h, Vmx(Instr("vmwrite", e, v), h)
      PROVE  Steps(c, c')
  <2>1. PICK i : i = Instr("vmwrite", e, v)
    BY Zenon
  <2>2. i.op = "vmwrite" /\ i.e = e /\ i.v = [lo |-> i.v.lo, hi |-> i.v.hi]
    BY <2>1, InstrShape
  <2>3. Vmx(i, h)
    BY <1>5, <2>1
  <2>4. i.op \in VmxOps /\ i.e \in Encodings
    BY <1>4, <2>2
  <2> QED
    BY <1>1, <2>2, <2>3, <2>4, VmxSteps, Zenon DEF Vmx
<1>6. {GuestRip, Cr0Shadow, GuestCr0, EntryIntrInfo, CpuCtls} \subseteq Encodings
  BY NamedFields DEF Named
<1>7. CASE RootTries
  <2>1. PICK i \in RootOps : \E h : Vmx(i, h)
    BY <1>7, Zenon DEF RootTries
  <2>2. i.op \in VmxOps /\ RootOp(i)
    BY RootAssumption DEF RootOp
  <2> QED
    BY <1>1, <2>1, <2>2, VmxSteps DEF Vmx
<1>8. CASE SetsFeature
  <2>1. PICK bits : c' = SetFeature(y, bits)
    BY <1>2, <1>8, Zenon DEF SetsFeature, Done
  <2>2. CASE "lock" \in y.feature
    BY <1>3, <2>1, <2>2, RaiseSteps DEF SetFeature
  <2>3. CASE "lock" \notin y.feature
    <3>1. c' = [y EXCEPT !.feature = bits]
      BY <2>1, <2>3 DEF SetFeature
    <3>2. Agree(y, c', {"feature"}) /\ {"feature"} \cap Pointers = {}
      BY <1>3, <3>1 DEF Agree, IsCpu, Names, Pointers
    <3> QED
      BY <1>3, <3>2, QuietSteps
  <2> QED
    BY <2>2, <2>3
<1>9. CASE Skips
  BY <1>5, <1>6, <1>9 DEF Skips
<1>10. CASE Grants
  BY <1>5, <1>6, <1>10 DEF Grants
<1>11. CASE GrantsOwn
  BY <1>5, <1>6, <1>11, Zenon DEF GrantsOwn
<1>12. CASE Repairs
  BY <1>2, <1>3, <1>12 DEF Repairs, Done
<1>13. CASE Hands
  BY <1>5, <1>6, <1>13 DEF Hands
<1>14. CASE Injects
  BY <1>5, <1>6, <1>14 DEF Injects
<1>15. CASE Asks
  BY <1>5, <1>6, <1>15 DEF Asks
<1>16. CASE Opens
  <2>1. c' = [y EXCEPT !.ifl = TRUE]
    BY <1>2, <1>16, Zenon DEF Opens, Done
  <2>2. Agree(y, c', {"ifl"}) /\ {"ifl"} \cap Pointers = {}
    BY <1>3, <2>1 DEF Agree, IsCpu, Names, Pointers
  <2> QED
    BY <1>3, <2>2, QuietSteps
<1>17. CASE Resumes
  <2>1. PICK op, i : op = (IF Launched(c) THEN "vmresume" ELSE "vmlaunch") /\ i = Instr(op, 0, 0)
    BY Zenon
  <2>2. i.op \in {"vmlaunch", "vmresume"}
    <3>1. i.op = op
      BY <2>1 DEF Instr
    <3>2. op = "vmlaunch" \/ op = "vmresume"
      BY <2>1
    <3> QED
      BY <3>1, <3>2
  <2>3. PICK h, bad : Done(ExecuteVmx(Decoded, i, bad), h)
    BY <1>17, <2>1, ResumesShape
  <2>4. i.op \in VmxOps
    BY <1>4, <2>2
  <2> QED
    BY <1>1, <2>2, <2>3, <2>4, VmxSteps, Zenon
<1> QED
  BY <1>7, <1>8, <1>9, <1>10, <1>11, <1>12, <1>13, <1>14, <1>15, <1>16, <1>17 DEF Host

LEMMA NextSteps ==
  ASSUME Sound(c), [Next]_vars
  PROVE  Steps(c, c')
<1>1. IsCpu(c)
  BY DEF Sound
<1>2. CASE RaiseLine
  <2>1. c' = [c EXCEPT !.irq = TRUE]
    BY <1>2 DEF RaiseLine
  <2>2. Agree(c, c', {"irq"}) /\ {"irq"} \cap Pointers = {}
    BY <1>1, <2>1 DEF Agree, IsCpu, Names, Pointers
  <2> QED
    BY <2>2, QuietSteps
<1>3. CASE Events
  BY <1>1, <1>3, EventsDelivery, DeliverySteps
<1>4. CASE Park
  <2>1. PICK bad : c' = [Interrupted(c, bad) EXCEPT !.halt = FALSE]
    BY <1>4 DEF Park, Delivered
  <2>2. PICK y : y = Interrupted(c, bad) /\ c' = [y EXCEPT !.halt = FALSE]
    BY <2>1
  <2>3. Steps(c, y) /\ IsCpu(y)
    BY <1>1, <2>2, InterruptDelivery, DeliverySteps DEF Steps, Sound
  <2>4. Agree(y, c', {"halt"}) /\ {"halt"} \cap Pointers = {}
    BY <2>2, <2>3 DEF Agree, IsCpu, Names, Pointers
  <2>5. Sound(c')
    BY <2>3, <2>4, QuietSteps DEF Steps
  <2>6. c'.cur = y.cur /\ c'.work = y.work /\ c'.mem = y.mem
    BY <2>4 DEF Agree, Names
  <2>7. Effect(c, c')
    <3>1. \A p \in Memory : Body(c', p) = Body(y, p)
      BY <2>6 DEF Body
    <3>2. Keeps(c, y) => Keeps(c, c')
      BY <2>6, <3>1 DEF Keeps
    <3>3. \A p : Clears(c, y, p) => Clears(c, c', p)
      BY <2>6, <3>1 DEF Clears
    <3>4. \A E : Alters(c, y, E) => Alters(c, c', E)
      BY <2>6 DEF Alters
    <3>5. Launched(y) => Launched(c')
      BY <2>6 DEF Launched
    <3> QED
      BY <2>3, <2>6, <3>2, <3>3, <3>4, <3>5, Zenon DEF Steps, Effect
  <2> QED
    BY <2>5, <2>7 DEF Steps
<1>5. CASE Guest
  BY <1>5, GuestSteps
<1>6. CASE Host
  BY <1>6, HostSteps
<1>7. CASE UNCHANGED vars
  BY <1>7, StillSteps DEF vars
<1> QED
  BY <1>2, <1>3, <1>4, <1>5, <1>6, <1>7 DEF Next

-----------------------------------------------------------------------------
(* The structures are the store that the manual promises.                    *)

LEMMA InitSound == Init => Sound(c)
<1> SUFFICES ASSUME Init PROVE Sound(c)
  OBVIOUS
<1>1. PICK s \in Subjects, table \in Tables : \E work \in Setups(s), bits \in {{}, {"lock", "vmx"}} : c = New(s, work, table, bits)
  BY Zenon DEF Init
<1>2. PICK work \in Setups(s), bits \in {{}, {"lock", "vmx"}} : c = New(s, work, table, bits)
  BY <1>1
<1>3. Structure(work)
  BY SetupAssumption
<1>4. PICK at, st, m : /\ at = (IF s = "native" THEN Place("main", 0) ELSE Place("host", 1))
                       /\ st = [w \in {"host", "guest"} |-> <<>>] /\ m = [p \in Memory |-> work]
  BY Zenon
<1>5. PICK on, vmxon, cur, env, got :
        /\ on = (s \in Hosted) /\ vmxon = (IF s \in Hosted THEN Own ELSE None) /\ cur = (IF s \in Hosted THEN First ELSE None)
        /\ env = (IF s = "native" THEN "a" ELSE "host") /\ got = Val({})
  BY Zenon
<1>6. c = [on |-> on, feature |-> bits, vmxon |-> vmxon, cur |-> cur, work |-> work, mem |-> m, result |-> "succeed",
           got |-> got, rip |-> at, start |-> at, ifl |-> FALSE, halt |-> FALSE, cr0 |-> CR0Fixed, vmxe |-> TRUE,
           env |-> env, long |-> TRUE, pend |-> None, guest |-> FALSE, irq |-> FALSE, idt |-> table, reset |-> FALSE,
           stack |-> st]
  BY <1>2, <1>4, <1>5, Zenon DEF New
<1>7. st = [w \in Worlds |-> st[w]]
  BY <1>4 DEF Worlds
<1>8. IsCpu(c) /\ c.on = on /\ c.vmxon = vmxon /\ c.cur = cur /\ c.mem = m /\ c.guest = FALSE
  BY <1>3, <1>6, <1>7 DEF IsCpu, Names
<1>9. First \in Regions /\ Own \in Memory /\ Regions \subseteq Memory /\ First # Own /\ First # Blank
  BY MemoryAssumption DEF First, Memory
<1>10. Regional(c)
  BY <1>3, <1>4, <1>5, <1>8, <1>9 DEF Regional
<1> QED
  BY <1>8, <1>10 DEF Sound

LEMMA AlwaysSound == Spec => []Sound(c)
<1>1. Init => Sound(c)
  BY InitSound
<1>2. Sound(c) /\ [Next]_vars => Sound(c)'
  <2>1. ASSUME Sound(c), [Next]_vars
        PROVE  Sound(c')
    BY <2>1, NextSteps DEF Steps
  <2> QED
    BY <2>1 DEF Sound, IsCpu, Structure, Regional, Launched
<1> QED
  BY <1>1, <1>2, PTL DEF Spec

LEMMA EffectIsStore ==
  ASSUME Sound(c), Sound(c'), Effect(c, c')
  PROVE  [Structures!Next]_(Structures!vars)
<1> DEFINE Datum(x) == [p \in Memory |-> [e \in Field |-> Body(x, p)[Slot(e)]]]
           Marked(x) == [p \in Memory |-> Body(x, p)[LaunchSlot].lo = 1]
           Open == {e \in Field : Type(e) \in {1, 2} \/ e = EntryIntrInfo}
           Change(r, E) == /\ \A q \in Memory \ {r} : Datum(c')[q] = Datum(c)[q]
                           /\ \A f \in Field : Datum(c')[r][f] # Datum(c)[r][f] => f \in E
           Set == \E e \in Field \ {g \in Field : ReadOnly(g)} : Change(c.cur, {e})
<1>1. None \notin Memory /\ c.cur \in Memory \cup {None} /\ c'.cur \in Memory \cup {None}
  BY MemoryAssumption DEF Memory, Own, Sound, Regional
<1>2. ASSUME NEW E, Alters(c, c', E)
      PROVE  Change(c.cur, E) /\ c'.cur = c.cur /\ c.cur # None
  <2>1. \A q \in Memory \ {c.cur} : Body(c', q) = Body(c, q)
    BY <1>2 DEF Alters, Body
  <2>2. Body(c', c.cur) = c'.work /\ Body(c, c.cur) = c.work
    BY <1>2 DEF Alters, Body
  <2> QED
    BY <1>1, <1>2, <2>1, <2>2 DEF Alters
<1>3. ASSUME NEW E, Alters(c, c', E), c'.work[LaunchSlot] = c.work[LaunchSlot]
      PROVE  Marked(c') = Marked(c)
  <2>1. \A q \in Memory : Body(c', q)[LaunchSlot] = Body(c, q)[LaunchSlot]
    BY <1>3 DEF Alters, Body
  <2> QED
    BY <2>1
<1>4. \/ Datum(c') = Datum(c) /\ Marked(c') = Marked(c) /\ c'.cur \in Memory \cup {None}
      \/ \E p \in Memory : /\ Marked(c') = [Marked(c) EXCEPT ![p] = FALSE] /\ Datum(c') = Datum(c)
                           /\ c'.cur = IF c.cur = p THEN None ELSE c.cur
      \/ c.cur # None /\ Set /\ Marked(c') = Marked(c) /\ c'.cur = c.cur
      \/ c.cur # None /\ Change(c.cur, {InstructionError}) /\ Marked(c') = Marked(c) /\ c'.cur = c.cur
      \/ c.cur # None /\ Change(c.cur, Open) /\ Marked(c') = [Marked(c) EXCEPT ![c.cur] = TRUE] /\ c'.cur = c.cur
  <2>1. CASE Keeps(c, c')
    BY <1>1, <2>1 DEF Keeps
  <2>2. CASE \E p \in Memory : Clears(c, c', p)
    <3>1. PICK p \in Memory : Clears(c, c', p)
      BY <2>2
    <3>2. Datum(c') = Datum(c)
      BY <3>1 DEF Clears
    <3>3. Marked(c') = [Marked(c) EXCEPT ![p] = FALSE]
      <4>1. /\ (Body(c', p)[LaunchSlot].lo = 1) = FALSE
            /\ \A q \in Memory \ {p} : Body(c', q)[LaunchSlot] = Body(c, q)[LaunchSlot]
        BY <3>1 DEF Clears
      <4> QED
        BY <3>1, <4>1
    <3> QED
      BY <3>1, <3>2, <3>3 DEF Clears
  <2>3. CASE \E e \in Field : ~ReadOnly(e) /\ Alters(c, c', {e}) /\ c'.work[LaunchSlot] = c.work[LaunchSlot]
    BY <1>2, <1>3, <2>3
  <2>4. CASE Alters(c, c', {InstructionError}) /\ c'.work[LaunchSlot] = c.work[LaunchSlot]
    BY <1>2, <1>3, <2>4
  <2>5. CASE Alters(c, c', Open) /\ Launched(c')
    <3>1. Marked(c') = [Marked(c) EXCEPT ![c.cur] = TRUE]
      BY <2>5 DEF Alters, Body, Launched
    <3> QED
      BY <1>2, <2>5, <3>1
  <2> QED
    BY <2>1, <2>2, <2>3, <2>4, <2>5 DEF Effect
<1> QED
  BY <1>4 DEF Structures!Next, Structures!vars, Structures!Select, Structures!Clear, Structures!SetField, Structures!Fail,
     Structures!Enter, Structures!Change, Work, Body

\* Working copy and regions are the structures the manual promises: what a hypervisor writes to one stays in it,
\* through VMCLEAR, VMPTRLD and every run of its guest (flush_vmcs, load_vmcs, set_launched).
THEOREM StructuresAreStored == Spec => ImplementsStore
<1>1. Init => Structures!Init
  <2>1. ASSUME Init
        PROVE  Structures!Init
    <3>1. c.cur \in Memory \cup {None}
      BY <2>1, InitSound DEF Sound, Regional
    <3> QED
      BY <3>1 DEF Structures!Init
  <2> QED
    BY <2>1
<1>2. Sound(c) /\ Sound(c)' /\ [Next]_vars => [Structures!Next]_(Structures!vars)
  <2>1. ASSUME Sound(c), [Next]_vars
        PROVE  [Structures!Next]_(Structures!vars)
    <3>1. Sound(c') /\ Effect(c, c')
      BY <2>1, NextSteps DEF Steps
    <3> QED
      BY <2>1, <3>1, EffectIsStore
  <2> QED
    BY <2>1
<1> QED
  BY <1>1, <1>2, AlwaysSound, PTL DEF Spec, ImplementsStore, Structures!Spec

-----------------------------------------------------------------------------
(* Out of a guest: the host.                                                 *)

(* what a hypervisor that follows its manual keeps while its guest exists *)
Kept(x) ==
  /\ x.idt = Vectors /\ x.on /\ x.cur = First /\ x.vmxon = Own /\ x.reset = FALSE
  /\ \A e \in {PinCtls, CpuCtls, CpuCtls2, ExitCtls, EntryCtls} : "unsupported" \notin F(x, e)
  /\ "hostlong" \in F(x, ExitCtls) /\ F(x, HostEfer) = TRUE /\ F(x, HostCr0) = CR0Fixed /\ F(x, HostCr4) = TRUE
  /\ F(x, HostEnv) = "host" /\ F(x, HostRip) = Place("host", 1) /\ F(x, EntryInstrLen) = 1
Settings == {PinCtls, CpuCtls2, ExitCtls, EntryCtls, HostEfer, HostCr0, HostCr4, HostEnv, HostRip, EntryInstrLen}
Bare(x) == x.rip = Place("host", 1) /\ x.stack["host"] = <<>>
OneFrame(x) == \E f : x.stack["host"] = <<f>> /\ f.whole /\ f.rip = Place("host", 1)
InHandler(x) == x.rip = Place("irq", x.rip.at) /\ x.ifl = FALSE /\ OneFrame(x)
AtWork(x) == /\ x.env = "host" /\ x.cr0 = CR0Fixed /\ x.vmxe = TRUE /\ x.long = TRUE /\ x.halt = FALSE /\ x.pend = None
             /\ Bare(x) \/ InHandler(x)
Hosting(x) ==
  /\ Kept(x) /\ x.guest \in BOOLEAN
  /\ x.guest => x.stack["host"] = <<>>
  /\ ~x.guest => AtWork(x)

LEMMA KeptOn ==
  ASSUME NEW x, Kept(x), NEW d,
         d.idt = x.idt, d.on = x.on, d.cur = x.cur, d.vmxon = x.vmxon, d.reset = x.reset,
         \A e \in Settings : F(d, e) = F(x, e), "unsupported" \notin F(d, CpuCtls)
  PROVE  Kept(d)
BY DEF Kept, Settings

LEMMA SettingFields ==
  /\ Settings \cup {CpuCtls} \subseteq Field \ (State \cup Told3)
  /\ (Settings \cup {CpuCtls}) \cap {EntryIntrInfo, Cr0Shadow, Cr0Mask, InstructionError} = {} /\ CpuCtls \notin Settings
<1>1. Settings \cup {CpuCtls} \subseteq Field
  BY NamedFields DEF Named, Settings
<1>2. (Settings \cup {CpuCtls}) \cap (State \cup Told3) = {}
  BY DEF Settings, State, Told3, GuestCr0, GuestEnv, GuestEfer, GuestRip, GuestFlags, GuestActivity, ExitReason,
     ExitInstrLen, ExitIntrInfo, PinCtls, CpuCtls, CpuCtls2, ExitCtls, EntryCtls, HostEfer, HostCr0, HostCr4, HostEnv,
     HostRip, EntryInstrLen
<1>3. (Settings \cup {CpuCtls}) \cap {EntryIntrInfo, Cr0Shadow, Cr0Mask, InstructionError} = {} /\ CpuCtls \notin Settings
  BY DEF Settings, EntryIntrInfo, Cr0Shadow, Cr0Mask, InstructionError, PinCtls, CpuCtls, CpuCtls2, ExitCtls, EntryCtls,
     HostEfer, HostCr0, HostCr4, HostEnv, HostRip, EntryInstrLen
<1> QED
  BY <1>1, <1>2, <1>3

\* An exit finds the host as its fields have it (load_host_state).
LEMMA ExitHosting ==
  ASSUME NEW x, Hosting(x), x.guest, NEW reason, NEW vector, NEW d, Left(x, d, reason, vector)
  PROVE  Hosting(d) /\ Bare(d) /\ d.guest = FALSE
<1>1. /\ d.idt = x.idt /\ d.on = x.on /\ d.cur = x.cur /\ d.vmxon = x.vmxon /\ d.reset = x.reset /\ d.stack = x.stack
  BY DEF Left, Agree, Reloaded, Names
<1>2. \A e \in Settings \cup {CpuCtls} : F(d, e) = F(x, e)
  BY SettingFields DEF Left, Rest
<1>3. Kept(d)
  BY <1>1, <1>2, KeptOn DEF Hosting, Kept
<1>4. /\ d.guest = FALSE /\ d.pend = None /\ d.halt = FALSE /\ d.rip = F(x, HostRip) /\ d.cr0 = F(x, HostCr0)
      /\ d.vmxe = F(x, HostCr4) /\ d.env = F(x, HostEnv)
      /\ d.long = IF "loadefer" \in F(x, ExitCtls) THEN F(x, HostEfer) ELSE "hostlong" \in F(x, ExitCtls)
  BY DEF Left, Home
<1>5. d.rip = Place("host", 1) /\ d.cr0 = CR0Fixed /\ d.vmxe = TRUE /\ d.env = "host" /\ d.long = TRUE
  <2>1. /\ F(x, HostCr0) = CR0Fixed /\ F(x, HostCr4) = TRUE /\ F(x, HostEnv) = "host" /\ F(x, HostEfer) = TRUE
        /\ F(x, HostRip) = Place("host", 1) /\ ("hostlong" \in F(x, ExitCtls)) = TRUE
    BY Zenon DEF Hosting, Kept
  <2>2. d.long = TRUE
    BY <1>4, <2>1, Zenon
  <2> QED
    BY <1>4, <2>1, <2>2, Zenon
<1>6. Bare(d)
  BY <1>1, <1>5 DEF Bare, Hosting
<1> QED
  BY <1>3, <1>4, <1>5, <1>6 DEF Hosting, AtWork

LEMMA DeliveryHosting ==
  ASSUME NEW x, Hosting(x), x.guest, NEW d, Delivery(x, d)
  PROVE  Hosting(d)
<1>1. ASSUME NEW y, Apart(x, y)
      PROVE  Hosting(y) /\ y.guest = x.guest
  <2>1. /\ y.idt = x.idt /\ y.on = x.on /\ y.cur = x.cur /\ y.vmxon = x.vmxon /\ y.reset = x.reset /\ y.guest = x.guest
        /\ y.work = x.work /\ y.stack["host"] = x.stack["host"]
    BY <1>1 DEF Apart, Agree, Plain, Names
  <2>2. Kept(y)
    BY <2>1, SameWork, KeptOn DEF Hosting, Kept
  <2> QED
    BY <2>1, <2>2 DEF Hosting
<1>2. CASE Apart(x, d)
  BY <1>1, <1>2
<1>3. CASE \E y, reason, vector : x.guest /\ Apart(x, y) /\ Left(y, d, reason, vector)
  BY <1>1, <1>3, ExitHosting
<1> QED
  BY <1>2, <1>3 DEF Delivery

\* The gate of a handler: a frame above those of the same world (deliver).
Gates(x, d, v, whole) ==
  /\ Agree(x, d, {"stack", "ifl", "rip"}) /\ d.ifl = FALSE /\ d.rip = Place(v, 0)
  /\ d.stack[Who(x)] = Append(x.stack[Who(x)], Frame(x, whole))
  /\ \A u \in Worlds \ {Who(x)} : d.stack[u] = x.stack[u]
LEMMA GateEffect ==
  ASSUME NEW x, IsCpu(x), NEW v, NEW whole, NEW d, d = Gated(x, v, whole)
  PROVE  IsCpu(d) /\ Gates(x, d, v, whole)
<1>1. PICK w, more, to : w = Who(x) /\ more = Append(x.stack[w], Frame(x, whole)) /\ to = Place(v, 0)
  BY Zenon
<1>2. PICK st : st = [x.stack EXCEPT ![w] = more]
  BY Zenon
<1>3. d = [x EXCEPT !.stack = st, !.ifl = FALSE, !.rip = to]
  BY <1>1, <1>2, Zenon DEF Gated
<1>4. w \in Worlds
  BY <1>1 DEF Who, Worlds
<1>5. st = [t \in Worlds |-> st[t]] /\ st[w] = more /\ \A u \in Worlds \ {w} : st[u] = x.stack[u]
  BY <1>2, <1>4 DEF IsCpu, Worlds
<1>6. IsCpu(d) /\ Agree(x, d, {"stack", "ifl", "rip"}) /\ d.ifl = FALSE /\ d.rip = to /\ d.stack = st
  BY <1>3, <1>5 DEF Agree, IsCpu, Names
<1> QED
  BY <1>1, <1>5, <1>6, Zenon DEF Gates

\* An interrupt that does not exit, into a handler of its own.
Line(x, d) ==
  /\ Agree(x, d, {"irq", "stack", "ifl", "rip"}) /\ d.irq = FALSE /\ d.ifl = FALSE /\ d.rip = Place("irq", 0)
  /\ d.stack[Who(x)] = Append(x.stack[Who(x)], [rip |-> x.rip, ifl |-> x.ifl, whole |-> TRUE])
  /\ \A u \in Worlds \ {Who(x)} : d.stack[u] = x.stack[u]
LEMMA LineGates ==
  ASSUME NEW x, IsCpu(x), ~(x.guest /\ "extint" \in F(x, PinCtls)), NEW d, d = Interrupted(x, 0)
  PROVE  Line(x, d)
<1>1. PICK y : y = [x EXCEPT !.irq = FALSE]
  BY Zenon
<1>2. /\ IsCpu(y) /\ Agree(x, y, {"irq"}) /\ y.irq = FALSE /\ y.rip = x.rip /\ y.ifl = x.ifl /\ y.stack = x.stack
      /\ y.guest = x.guest
  BY <1>1 DEF Agree, IsCpu, Names
<1>3. d = Gated(y, "irq", TRUE)
  BY <1>1 DEF Interrupted, Entered
<1>4. Gates(y, d, "irq", TRUE)
  BY <1>2, <1>3, GateEffect
<1>5. Who(y) = Who(x) /\ Frame(y, TRUE) = [rip |-> x.rip, ifl |-> x.ifl, whole |-> TRUE]
  BY <1>2 DEF Who, Frame
<1>6. Agree(x, d, {"irq", "stack", "ifl", "rip"}) /\ d.irq = FALSE
  BY <1>2, <1>4 DEF Agree, Gates, Names
<1> QED
  BY <1>2, <1>4, <1>5, <1>6, Zenon DEF Gates, Line

LEMMA OneFrameStack ==
  ASSUME NEW s, s = <<>>, NEW f, NEW t, t = Append(s, f)
  PROVE  t = <<f>>
OBVIOUS

LEMMA EventsHosting ==
  ASSUME IsCpu(c), Hosting(c), subject \in Hosted, Events
  PROVE  Hosting(c')
<1>1. CASE c.guest
  BY <1>1, EventsDelivery, DeliveryHosting
<1>2. CASE ~c.guest
  <2>1. AtWork(c) /\ PreStep(c) = c /\ c.pend = None
    BY <1>2 DEF Hosting, AtWork, PreStep
  <2>2. PICK poll, bad, d :
          /\ bad \in Plans(c) /\ d = CASE c.pend # None -> Dispatch([c EXCEPT !.pend = None], c.pend, bad)
                   [] c.pend = None /\ poll -> Delivered(c, bad)
                   [] OTHER -> c
          /\ c' = [d EXCEPT !.start = d.rip]
    BY <2>1, Zenon DEF Events
  <2>3. bad = 0
    BY <1>2, <2>1, <2>2 DEF Plans, Hosted
  <2>4. d = c \/ (Takes(c) /\ d = Interrupted(c, 0))
    BY <2>1, <2>2, <2>3 DEF Delivered
  <2>5. IsCpu(d) /\ Hosting(d)
    <3>1. CASE Takes(c) /\ d = Interrupted(c, 0)
      <4>1. PICK f : f = [rip |-> c.rip, ifl |-> c.ifl, whole |-> TRUE]
        BY Zenon
      <4>2. Line(c, d) /\ Who(c) = "host" /\ Bare(c)
        BY <1>2, <2>1, <3>1, LineGates DEF Takes, AtWork, Who, InHandler
      <4>3. d.stack["host"] = <<f>>
        BY <4>1, <4>2, OneFrameStack DEF Line, Bare
      <4>4. f.whole = TRUE /\ f.rip = Place("host", 1)
        BY <4>1, <4>2 DEF Bare
      <4>5. OneFrame(d)
        BY <4>3, <4>4 DEF OneFrame
      <4>6. InHandler(d)
        BY <4>2, <4>5 DEF Line, Place, InHandler
      <4>7. /\ IsCpu(d) /\ d.idt = c.idt /\ d.on = c.on /\ d.cur = c.cur /\ d.vmxon = c.vmxon /\ d.reset = c.reset
            /\ d.guest = c.guest /\ d.work = c.work /\ d.env = c.env /\ d.cr0 = c.cr0 /\ d.vmxe = c.vmxe
            /\ d.long = c.long /\ d.halt = c.halt /\ d.pend = c.pend
        BY <4>2 DEF Line, Agree, Names
      <4>8. Kept(d)
        BY <4>7, SameWork, KeptOn DEF Hosting, Kept
      <4>9. AtWork(d)
        <5>1. d.env = "host" /\ d.cr0 = CR0Fixed /\ d.vmxe = TRUE /\ d.long = TRUE /\ d.halt = FALSE /\ d.pend = None
          BY <2>1, <4>7, Zenon DEF AtWork
        <5> QED
          BY <4>6, <5>1, Zenon DEF AtWork
      <4> QED
        BY <1>2, <4>7, <4>8, <4>9 DEF Hosting
    <3> QED
      BY <2>4, <3>1
  <2>6. Agree(d, c', {"start"})
    BY <2>2, <2>5 DEF Agree, IsCpu, Names
  <2>7. /\ c'.idt = d.idt /\ c'.on = d.on /\ c'.cur = d.cur /\ c'.vmxon = d.vmxon /\ c'.reset = d.reset
        /\ c'.guest = d.guest /\ c'.work = d.work /\ c'.env = d.env /\ c'.cr0 = d.cr0 /\ c'.vmxe = d.vmxe
        /\ c'.long = d.long /\ c'.halt = d.halt /\ c'.pend = d.pend /\ c'.stack = d.stack /\ c'.rip = d.rip /\ c'.ifl = d.ifl
    BY <2>6 DEF Agree, Names
  <2>8. Kept(c')
    BY <2>5, <2>7, SameWork, KeptOn DEF Hosting, Kept
  <2> QED
    BY <2>5, <2>7, <2>8 DEF Hosting, AtWork, Bare, OneFrame, InHandler
<1> QED
  BY <1>1, <1>2 DEF Hosting

\* Registers that a host's instructions leave alone.
LEMMA SameHosting ==
  ASSUME NEW x, Hosting(x), NEW d, Agree(x, d, {"rip", "ifl", "irq", "start", "result", "work", "stack"}),
         \A e \in Settings : F(d, e) = F(x, e), "unsupported" \notin F(d, CpuCtls),
         x.guest => d.stack["host"] = x.stack["host"],
         ~x.guest => Bare(d) \/ InHandler(d)
  PROVE  Hosting(d)
<1>1. /\ d.idt = x.idt /\ d.on = x.on /\ d.cur = x.cur /\ d.vmxon = x.vmxon /\ d.reset = x.reset
      /\ d.guest = x.guest /\ d.env = x.env /\ d.cr0 = x.cr0 /\ d.vmxe = x.vmxe
      /\ d.long = x.long /\ d.halt = x.halt /\ d.pend = x.pend
  BY DEF Agree, Names
<1>2. Kept(d)
  BY <1>1, KeptOn DEF Hosting
<1>3. ASSUME ~x.guest PROVE AtWork(d)
  <2>1. d.env = "host" /\ d.cr0 = CR0Fixed /\ d.vmxe = TRUE /\ d.long = TRUE /\ d.halt = FALSE /\ d.pend = None
    BY <1>1, <1>3, Zenon DEF Hosting, AtWork
  <2> QED
    BY <1>3, <2>1, Zenon DEF AtWork
<1> QED
  BY <1>1, <1>2, <1>3 DEF Hosting

\* In a guest, its instructions; out of it, those of the hypervisor's own handler.
LEMMA GuestHosting ==
  ASSUME IsCpu(c), Hosting(c), subject \in Hosted, Guest
  PROVE  Hosting(c')
<1>1. CASE c.guest
  <2>1. ASSUME Goes(c, c', Going \cup System)
        PROVE  Hosting(c')
    <3>1. /\ c'.idt = c.idt /\ c'.on = c.on /\ c'.cur = c.cur /\ c'.vmxon = c.vmxon /\ c'.reset = c.reset
          /\ c'.guest = c.guest /\ c'.work = c.work /\ c'.stack["host"] = c.stack["host"]
      BY <1>1, <2>1 DEF Goes, Agree, Going, System, Names
    <3>2. Kept(c')
      BY <3>1, SameWork, KeptOn DEF Hosting, Kept
    <3> QED
      BY <1>1, <3>1, <3>2 DEF Hosting
  <2> QED
    BY <1>1, <2>1, GuestGoes, DeliveryHosting DEF GoesOn
<1>2. CASE ~c.guest
  <2>0. AtWork(c) /\ c.rip.code \in {"host", "irq"}
    BY <1>2 DEF Hosting, AtWork, Bare, InHandler, Place
  <2>1. AtWork(c) /\ c.rip.code \in {"host", "irq"} /\ ~Running /\ ~InMain /\ ~Free
    BY <1>2, <2>0 DEF Running, InMain, Free, Hosted
  <2>2. Spins \/ Handles \/ Iret
    BY <1>2, <2>1 DEF Guest, Defers, AtWork, FetchFaults, Faults, Int3, SetFlag, SetEnv, Halts, Others, Ports, WritesCr0, ReadsCr0, Clts, Lmsw
  <2>3. ~Spins
    BY <2>1 DEF Spins
  <2>4. InHandler(c)
    <3>1. c.rip.code \in Vectors
      BY <2>2, <2>3 DEF Handles, Iret
    <3>2. ~Bare(c)
      BY <3>1 DEF Bare, Place, Vectors
    <3> QED
      BY <2>1, <3>2 DEF AtWork
  <2>5. "unsupported" \notin F(c, CpuCtls)
    BY DEF Hosting, Kept
  <2>6. CASE Handles
    <3>1. PICK to : to = Next1(c)
      BY Zenon
    <3>2. c' = [c EXCEPT !.rip = to]
      BY <2>6, <3>1, Zenon DEF Handles, Done, Decoded
    <3>3. Agree(c, c', {"rip"}) /\ c'.rip = to /\ c'.stack = c.stack /\ c'.ifl = c.ifl /\ c'.work = c.work
      BY <3>2 DEF Agree, IsCpu, Names
    <3>4. to = Place("irq", to.at)
      <4>1. PICK n : n = c.rip.at
        BY Zenon
      <4>2. c.rip = [code |-> "irq", at |-> n]
        BY <2>4, <4>1 DEF InHandler, Place
      <4>3. to = [code |-> "irq", at |-> n + 1]
        BY <3>1, <4>2 DEF Next1
      <4> QED
        BY <4>3 DEF Place
    <3>5. Agree(c, c', {"rip", "ifl", "irq", "start", "result", "work", "stack"})
      BY <3>3 DEF Agree
    <3>6. InHandler(c')
      BY <2>4, <3>3, <3>4 DEF OneFrame, InHandler
    <3> QED
      BY <1>2, <2>5, <3>3, <3>4, <3>5, <3>6, SameWork, SameHosting
  <2>7. CASE Iret
    <3>1. PICK s, f : s = c.stack["host"] /\ s = <<f>> /\ f.rip = Place("host", 1) /\ f.whole
      BY <2>4 DEF OneFrame, InHandler
    <3>2. Who(c) = "host" /\ Len(s) = 1 /\ s[1] = f /\ SubSeq(s, 1, Len(s) - 1) = <<>>
      BY <1>2, <3>1 DEF Who
    <3>3. PICK g, more : g = s[Len(s)] /\ more = SubSeq(s, 1, Len(s) - 1)
      BY Zenon
    <3>4. c' = [c EXCEPT !.rip = g.rip, !.ifl = g.ifl, !.stack["host"] = more]
      <4>0. PICK w, h, less, rip, ifl : Pops(w, h, less, rip, ifl)
        BY <2>7, IretPops
      <4>1. /\ w = Who(c) /\ h = c.stack[w][Len(c.stack[w])] /\ less = SubSeq(c.stack[w], 1, Len(c.stack[w]) - 1)
            /\ c' = [c EXCEPT !.rip = rip, !.ifl = ifl, !.stack[w] = less]
            /\ IF h.whole THEN rip = h.rip /\ ifl = h.ifl ELSE rip = Place("lost", 0)
        BY <4>0, Zenon DEF Pops
      <4>2. h = g /\ w = "host" /\ less = more /\ h.whole
        BY <3>1, <3>2, <3>3, <4>1
      <4>3. rip = g.rip /\ ifl = g.ifl
        BY <4>1, <4>2
      <4> QED
        BY <4>1, <4>2, <4>3, Zenon
    <3>5. PICK rip, ifl, st : rip = g.rip /\ ifl = g.ifl /\ st = [c.stack EXCEPT !["host"] = more]
      BY Zenon
    <3>6. c' = [c EXCEPT !.rip = rip, !.ifl = ifl, !.stack = st]
      BY <3>4, <3>5, Zenon
    <3>7. st = [t \in Worlds |-> st[t]] /\ st["host"] = more
      BY <3>5 DEF IsCpu, Worlds
    <3>8. Agree(c, c', {"rip", "ifl", "stack"}) /\ c'.rip = rip /\ c'.stack = st /\ c'.work = c.work
      BY <3>6, <3>7 DEF Agree, IsCpu, Names
    <3>9. Agree(c, c', {"rip", "ifl", "irq", "start", "result", "work", "stack"})
      BY <3>8 DEF Agree
    <3>10. Bare(c')
      BY <3>1, <3>2, <3>3, <3>5, <3>7, <3>8 DEF Bare
    <3> QED
      BY <1>2, <2>5, <3>8, <3>9, <3>10, SameWork, SameHosting
  <2> QED
    BY <2>2, <2>3, <2>6, <2>7
<1> QED
  BY <1>1, <1>2 DEF Hosting

\* The hypervisor writes a field of its own (vmwrite).
HostWrote(d, e, v) == /\ IsCpu(d) /\ Agree(c, d, {"rip", "result", "work"}) /\ d.rip = Next1(c)
                      /\ F(d, e) = v /\ Rest(c, d, {e})
LEMMA HostWrites ==
  ASSUME IsCpu(c), Hosting(c), ~c.guest, NEW e \in Field, ~ReadOnly(e), NEW v, NEW h,
         Vmx(Instr("vmwrite", e, v), h)
  PROVE  HostWrote(c', e, v) /\ hist' = h
<1>1. PICK y, i, d : y = Decoded /\ i = Instr("vmwrite", e, v) /\ d = Put(y, e, v)
  BY Zenon
<1>2. PICK to : to = Next1(c)
  BY Zenon
<1>3. y = [c EXCEPT !.rip = to]
  BY <1>1, <1>2, Zenon DEF Decoded
<1>4. IsCpu(y) /\ Agree(c, y, {"rip"}) /\ y.rip = to /\ y.work = c.work /\ y.on = c.on /\ y.cur = c.cur
  BY <1>3 DEF Agree, IsCpu, Names
<1>5. y.on /\ y.cur # None
  BY <1>4, MemoryAssumption DEF Hosting, Kept, First, Memory
<1>6. c' = ExecuteVmx(y, i, 0) /\ hist' = h
  <2>1. c' = ExecuteVmx(Decoded, i, 0) /\ hist' = Exited(h, c')
    BY <1>1 DEF Vmx, Done
  <2> QED
    BY <1>1, <2>1 DEF Exited
<1>7. i.op = "vmwrite" /\ i.e = e /\ i.v = Val(v) /\ i.p = None
  BY <1>1 DEF Instr
<1>8. c' = Vmwrite(y, e, Val(v), None)
  BY <1>5, <1>6, <1>7 DEF ExecuteVmx
<1>9. c' = Succeed(d)
  <2>1. Known(e) /\ None # Unmapped
    BY MemoryAssumption DEF Field
  <2>2. c' = Succeed([y EXCEPT !.work = Write(@, e, Val(v))])
    BY <1>5, <1>8, <2>1 DEF Vmwrite
  <2> QED
    BY <1>1, <2>2, Zenon DEF Put
<1>10. IsCpu(d) /\ Agree(y, d, {"work"}) /\ F(d, e) = v /\ Rest(y, d, {e})
  BY <1>1, <1>4, PutField
<1>11. IsCpu(c') /\ Agree(d, c', {"result"}) /\ c'.work = d.work
  BY <1>9, <1>10 DEF Succeed, Agree, IsCpu, Names
<1>12. Agree(c, c', {"rip", "result", "work"}) /\ c'.rip = to
  <2>1. Agree(c, c', {"rip", "result", "work"})
    BY <1>4, <1>10, <1>11, Zenon DEF Agree
  <2> QED
    BY <1>4, <1>10, <1>11, <2>1 DEF Agree, Names
<1>13. F(c', e) = v /\ Rest(c, c', {e})
  BY <1>4, <1>10, <1>11, SameWork DEF Rest
<1> QED
  BY <1>2, <1>6, <1>11, <1>12, <1>13 DEF HostWrote

\* Its entries pass the checks of the controls (check_controls, vmlaunch).
LEMMA HostEnters ==
  ASSUME IsCpu(c), Hosting(c), ~c.guest, NEW op, op = (IF Launched(c) THEN "vmresume" ELSE "vmlaunch"),
         NEW y, y = Decoded, NEW bad, NEW d, d = ExecuteVmx(y, Instr(op, 0, 0), bad)
  PROVE  d = VmEntry(y, bad)
<1>1. PICK to, i : to = Next1(c) /\ i = Instr(op, 0, 0)
  BY Zenon
<1>2. y = [c EXCEPT !.rip = to]
  BY <1>1, Zenon DEF Decoded
<1>3. IsCpu(y) /\ y.work = c.work /\ y.on = c.on /\ y.cur = c.cur
  BY <1>2 DEF IsCpu, Names
<1>4. y.on /\ y.cur # None /\ Launched(y) = Launched(c) /\ (op = "vmresume" \/ op = "vmlaunch")
  BY <1>3, MemoryAssumption, SameWork DEF Hosting, Kept, First, Memory
<1>5. i.op = op
  BY <1>1 DEF Instr
<1>6. d = VmLaunch(y, op, bad)
  BY <1>1, <1>4, <1>5 DEF ExecuteVmx
<1>7. CheckControls(y) = 0
  <2>1. \A e : F(y, e) = F(c, e)
    BY <1>3, SameWork
  <2>2. \A e \in {PinCtls, CpuCtls, CpuCtls2, ExitCtls, EntryCtls} : Supported(y, e)
    BY <2>1 DEF Hosting, Kept, Supported
  <2>3. F(y, HostCr0) = CR0Fixed /\ F(y, HostCr4) = TRUE /\ "hostlong" \in F(y, ExitCtls)
    BY <2>1 DEF Hosting, Kept
  <2> QED
    BY <2>2, <2>3, Zenon DEF CheckControls
<1>8. (op = "vmlaunch" => ~Launched(y)) /\ (op = "vmresume" => Launched(y))
  BY <1>4
<1> QED
  BY <1>4, <1>6, <1>7, <1>8 DEF VmLaunch

HostFields == {GuestRip, GuestCr0, Cr0Shadow, EntryIntrInfo, CpuCtls}
LEMMA HostFieldsWritable ==
  /\ HostFields \subseteq Field /\ \A e \in HostFields : ~ReadOnly(e)
  /\ HostFields \cap Settings = {}
<1>1. HostFields \subseteq Field
  BY NamedFields DEF Named, HostFields
<1>2. \A e \in HostFields : ~ReadOnly(e)
  BY DEF HostFields, ReadOnly, Type, GuestRip, GuestCr0, Cr0Shadow, EntryIntrInfo, CpuCtls
<1>3. HostFields \cap Settings = {}
  BY SettingFields DEF HostFields, State
<1> QED
  BY <1>1, <1>2, <1>3

\* What the instructions of a hypervisor are, with what each writes.
HostActs ==
  \/ \E e \in HostFields : \E v, h :
       /\ Vmx(Instr("vmwrite", e, v), h) /\ ("unsupported" \notin F(c, CpuCtls) => (e = CpuCtls => "unsupported" \notin v))
  \/ Repairs \/ Opens \/ Resumes
LEMMA HostActing ==
  ASSUME subject \in Hosted, Host
  PROVE  HostActs /\ ~c.guest /\ c.rip.code = "host" /\ Working
<1>1. subject # "regions"
  BY DEF Hosted
<1>2. Skips \/ Grants \/ GrantsOwn \/ Repairs \/ Hands \/ Injects \/ Asks \/ Opens \/ Resumes
  BY <1>1 DEF Host, RootTries, SetsFeature
<1>3. Working /\ ~c.guest /\ c.rip.code = "host"
  BY <1>2 DEF Skips, Grants, GrantsOwn, Repairs, Hands, Injects, Asks, Opens, Resumes, Working, AtHost
<1>4. CASE Skips \/ Grants \/ GrantsOwn \/ Hands \/ Injects
  <2>1. \E e \in HostFields \ {CpuCtls} : \E v, h : Vmx(Instr("vmwrite", e, v), h)
    <3>1. {GuestRip, GuestCr0, Cr0Shadow, EntryIntrInfo} \subseteq HostFields \ {CpuCtls}
      BY DEF HostFields, GuestRip, GuestCr0, Cr0Shadow, EntryIntrInfo, CpuCtls
    <3> QED
      BY <1>4, <3>1, Zenon DEF Skips, Grants, GrantsOwn, Hands, Injects
  <2> QED
    BY <1>3, <2>1 DEF HostActs
<1>5. CASE Asks
  <2>1. Vmx(Instr("vmwrite", CpuCtls, Differ(F(c, CpuCtls), {"window"})), hist)
    BY <1>5, Zenon DEF Asks
  <2>2. CpuCtls \in HostFields
    BY DEF HostFields
  <2>3. "unsupported" \notin F(c, CpuCtls) => "unsupported" \notin Differ(F(c, CpuCtls), {"window"})
    BY DEF Differ
  <2> QED
    BY <1>3, <2>1, <2>2, <2>3, Zenon DEF HostActs
<1> QED
  BY <1>2, <1>3, <1>4, <1>5 DEF HostActs

LEMMA HostHosting ==
  ASSUME IsCpu(c), Hosting(c), subject \in Hosted, Host
  PROVE  Hosting(c')
<1>1. HostActs /\ ~c.guest /\ c.rip.code = "host" /\ AtWork(c) /\ Bare(c)
  BY HostActing DEF Hosting, AtWork, InHandler, Place
<1>2. "unsupported" \notin F(c, CpuCtls) /\ Next1(c) = Place("host", 1)
  BY <1>1 DEF Hosting, Kept, Next1, Place
<1>3. CASE \E e \in HostFields : \E v, h :
             /\ Vmx(Instr("vmwrite", e, v), h) /\ ("unsupported" \notin F(c, CpuCtls) => (e = CpuCtls => "unsupported" \notin v))
  <2> PICK e \in HostFields : \E v, h :
          /\ Vmx(Instr("vmwrite", e, v), h) /\ ("unsupported" \notin F(c, CpuCtls) => (e = CpuCtls => "unsupported" \notin v))
    BY <1>3, Zenon
  <2>1. PICK v, h :
          /\ Vmx(Instr("vmwrite", e, v), h) /\ ("unsupported" \notin F(c, CpuCtls) => (e = CpuCtls => "unsupported" \notin v))
    OBVIOUS
  <2>2. e \in Field /\ ~ReadOnly(e) /\ e \notin Settings
    BY HostFieldsWritable
  <2>3. HostWrote(c', e, v)
    BY <1>1, <2>1, <2>2, HostWrites
  <2>4. Agree(c, c', {"rip", "ifl", "irq", "start", "result", "work", "stack"}) /\ c'.stack = c.stack /\ c'.rip = Place("host", 1)
    BY <1>2, <2>3 DEF HostWrote, Agree, Names
  <2>5. \A g \in Settings : F(c', g) = F(c, g)
    BY <2>2, <2>3, SettingFields DEF HostWrote, Rest
  <2>6. "unsupported" \notin F(c', CpuCtls)
    BY <1>2, <2>1, <2>3, SettingFields DEF HostWrote, Rest
  <2>7. Bare(c')
    BY <1>1, <2>4 DEF Bare
  <2> QED
    BY <1>1, <2>4, <2>5, <2>6, <2>7, SameHosting
<1>4. CASE Repairs \/ Opens
  <2>1. PICK to : to = Next1(c)
    BY Zenon
  <2>2. c' = [c EXCEPT !.rip = to] \/ c' = [c EXCEPT !.rip = to, !.ifl = TRUE]
    BY <1>4, <2>1, Zenon DEF Repairs, Opens, Done, Decoded
  <2>3. Agree(c, c', {"rip", "ifl"}) /\ c'.rip = to /\ c'.stack = c.stack /\ c'.work = c.work
    <3>1. CASE c' = [c EXCEPT !.rip = to]
      BY <3>1 DEF Agree, IsCpu, Names
    <3>2. CASE c' = [c EXCEPT !.rip = to, !.ifl = TRUE]
      BY <3>2 DEF Agree, IsCpu, Names
    <3> QED
      BY <2>2, <3>1, <3>2
  <2>4. Agree(c, c', {"rip", "ifl", "irq", "start", "result", "work", "stack"}) /\ Bare(c')
    BY <1>1, <1>2, <2>1, <2>3 DEF Agree, Bare
  <2> QED
    BY <1>1, <1>2, <2>3, <2>4, SameWork, SameHosting
<1>5. CASE Resumes
  <2>1. PICK op, y : op = (IF Launched(c) THEN "vmresume" ELSE "vmlaunch") /\ y = Decoded
    BY Zenon
  <2>2. PICK bad : c' = ExecuteVmx(y, Instr(op, 0, 0), bad)
    BY <1>5, <2>1, ResumesShape
  <2>3. c' = VmEntry(y, bad)
    BY <1>1, <2>1, <2>2, HostEnters
  <2>4. IsCpu(y) /\ Apart(c, y) /\ Agree(c, y, {"rip"})
    <3>1. PICK to : to = Next1(c)
      BY Zenon
    <3>2. y = [c EXCEPT !.rip = to]
      BY <2>1, <3>1, Zenon DEF Decoded
    <3> QED
      BY <2>1, <3>2, DecodedApart DEF Agree, IsCpu, Names
  <2>5. ASSUME NEW z, Begun(y, z), \A g \in Field \ {EntryIntrInfo} : F(z, g) = F(y, g)
        PROVE  Hosting(z) /\ z.guest
    <3>1. /\ z.idt = y.idt /\ z.on = y.on /\ z.cur = y.cur /\ z.vmxon = y.vmxon /\ z.reset = y.reset
          /\ z.guest = TRUE /\ z.stack = y.stack
      BY <2>5 DEF Begun, Agree, Entering, Names
    <3>2. /\ y.idt = c.idt /\ y.on = c.on /\ y.cur = c.cur /\ y.vmxon = c.vmxon /\ y.reset = c.reset
          /\ y.stack = c.stack /\ y.work = c.work
      BY <2>4 DEF Agree, Names
    <3>3. \A g \in Settings \cup {CpuCtls} : F(z, g) = F(c, g)
      BY <2>5, <3>2, SameWork, SettingFields
    <3>4. Kept(z)
      BY <1>2, <3>1, <3>2, <3>3, KeptOn DEF Hosting
    <3> QED
      BY <1>1, <3>1, <3>2, <3>4 DEF Hosting, Bare
  <2>6. CASE Quiet(y, c')
    BY <2>5, <2>6 DEF Quiet
  <2>7. CASE \E z, f : Injected(y, z) /\ IsCpu(z) /\ c' = DispatchRaw(z, f, bad)
    <3>1. PICK z, f : Injected(y, z) /\ IsCpu(z) /\ c' = DispatchRaw(z, f, bad)
      BY <2>7
    <3>2. Hosting(z) /\ z.guest
      BY <2>5, <3>1 DEF Injected
    <3> QED
      BY <3>1, <3>2, RawDelivery, DeliveryHosting
  <2> QED
    BY <2>3, <2>4, <2>6, <2>7, EntryLoads
<1> QED
  BY <1>1, <1>3, <1>4, <1>5 DEF HostActs

LEMMA ParkDelivery ==
  ASSUME IsCpu(c), Park
  PROVE  Delivery(c, c') /\ c.halt
<1>0. PICK bad : c' = [Interrupted(c, bad) EXCEPT !.halt = FALSE] /\ c.halt
  BY DEF Park, Delivered
<1>1. PICK y : y = Interrupted(c, bad)
  BY Zenon
<1>2. c' = [y EXCEPT !.halt = FALSE] /\ c.halt
  BY <1>0, <1>1
<1>3. Delivery(c, y)
  BY <1>1, InterruptDelivery
<1>4. CASE Apart(c, y)
  <2>1. IsCpu(y)
    BY <1>4, ApartCpu
  <2>2. Apart(y, c')
    BY <1>2, <2>1 DEF Apart, Agree, IsCpu, Names, Plain
  <2> QED
    BY <1>2, <1>4, <2>2, ApartTwice DEF Delivery
<1>5. CASE \E z, reason, vector : c.guest /\ Apart(c, z) /\ Left(z, y, reason, vector)
  <2>1. PICK z, reason, vector : c.guest /\ Apart(c, z) /\ Left(z, y, reason, vector)
    BY <1>5
  <2>2. IsCpu(y) /\ y.halt = FALSE
    BY <2>1 DEF Left, Agree, Home
  <2>3. c' = y
    BY <1>2, <2>2 DEF IsCpu, Names
  <2> QED
    BY <1>2, <1>3, <2>3
<1> QED
  BY <1>3, <1>4, <1>5 DEF Delivery

LEMMA SubjectStays ==
  ASSUME [Next]_vars
  PROVE  subject' = subject
BY DEF Next, vars, RaiseLine, Events, Park, Guest, Defers, FetchFaults, Faults, Int3, Spins, SetFlag, SetEnv, Halts, Others, Ports,
   Handles, Iret, WritesCr0, ReadsCr0, Clts, Lmsw, Runs, Host, RootTries, SetsFeature, Skips, Grants, GrantsOwn, Repairs,
   Hands, Injects, Asks, Opens, Resumes, Vmx, Done

LEMMA NextHosting ==
  ASSUME IsCpu(c), subject \in Hosted => Hosting(c), [Next]_vars
  PROVE  subject' \in Hosted => Hosting(c')
<1> SUFFICES ASSUME subject' \in Hosted
             PROVE  Hosting(c')
  OBVIOUS
<1>1. subject' = subject
  BY SubjectStays
<1>2. Hosting(c) /\ subject \in Hosted /\ "unsupported" \notin F(c, CpuCtls)
  BY <1>1 DEF Hosting, Kept
<1>3. CASE RaiseLine
  <2>1. c' = [c EXCEPT !.irq = TRUE]
    BY <1>3 DEF RaiseLine
  <2>2. Agree(c, c', {"irq"}) /\ c'.stack = c.stack /\ c'.work = c.work /\ c'.rip = c.rip /\ c'.ifl = c.ifl
    BY <2>1 DEF Agree, IsCpu, Names
  <2>3. Agree(c, c', {"rip", "ifl", "irq", "start", "result", "work", "stack"})
    BY <2>2 DEF Agree
  <2>4. ~c.guest => Bare(c') \/ InHandler(c')
    BY <1>2, <2>2 DEF Hosting, AtWork, Bare, InHandler, OneFrame
  <2> QED
    BY <1>2, <2>2, <2>3, <2>4, SameWork, SameHosting
<1>4. CASE Events
  BY <1>2, <1>4, EventsHosting
<1>5. CASE Park
  <2>1. Delivery(c, c') /\ c.halt
    BY <1>5, ParkDelivery
  <2>2. c.guest
    BY <1>2, <2>1 DEF Hosting, AtWork
  <2> QED
    BY <1>2, <2>1, <2>2, DeliveryHosting
<1>6. CASE Guest
  BY <1>2, <1>6, GuestHosting
<1>7. CASE Host
  BY <1>2, <1>7, HostHosting
<1>8. CASE UNCHANGED vars
  BY <1>2, <1>8 DEF vars
<1> QED
  BY <1>3, <1>4, <1>5, <1>6, <1>7, <1>8 DEF Next

LEMMA SetupKept ==
  ASSUME NEW x, x.idt = Vectors, x.on, x.cur = First, x.vmxon = Own, x.reset = FALSE, Prepared(x.work)
  PROVE  Kept(x)
<1>1. \A e \in Named : F(x, e) = At(x.work, e)
  BY ReadsField, NamedFields DEF F
<1>2. {PinCtls, CpuCtls, CpuCtls2, ExitCtls, EntryCtls, HostEfer, HostCr0, HostCr4, HostEnv, HostRip, EntryInstrLen} \subseteq Named
  BY DEF Named
<1>3. \A e \in {PinCtls, CpuCtls, CpuCtls2, ExitCtls, EntryCtls} : "unsupported" \notin F(x, e)
  BY <1>1, <1>2, Zenon DEF Prepared
<1>4. /\ "hostlong" \in F(x, ExitCtls) /\ F(x, HostEfer) = TRUE /\ F(x, HostCr0) = CR0Fixed /\ F(x, HostCr4) = TRUE
      /\ F(x, HostEnv) = "host" /\ F(x, HostRip) = Place("host", 1) /\ F(x, EntryInstrLen) = 1
  BY <1>1, <1>2, Zenon DEF Prepared
<1> QED
  BY <1>3, <1>4 DEF Kept

\* The CPU at the start, register by register.
Begins(s, x) ==
  /\ IsCpu(x) /\ x.guest = FALSE /\ x.pend = None /\ x.irq = FALSE /\ x.reset = FALSE /\ x.halt = FALSE /\ x.ifl = FALSE
  /\ x.on = (s \in Hosted) /\ x.cr0 = CR0Fixed /\ x.vmxe = TRUE /\ x.long = TRUE /\ x.got = Val({})
  /\ x.stack["host"] = <<>> /\ x.stack["guest"] = <<>> /\ x.idt \in Tables /\ (s # "native" => x.idt = Vectors)
  /\ s \in Hosted => x.cur = First /\ x.vmxon = Own
  /\ x.rip = (IF s = "native" THEN Place("main", 0) ELSE Place("host", 1)) /\ x.start = x.rip
  /\ x.env = (IF s = "native" THEN "a" ELSE "host") /\ x.work \in Setups(s)
LEMMA InitBegins == Init => Begins(subject, c) /\ subject \in Subjects
<1> SUFFICES ASSUME Init PROVE Begins(subject, c) /\ subject \in Subjects
  OBVIOUS
<1> PICK s \in Subjects, table \in Tables : \E work \in Setups(s) : \E bits \in {{}, {"lock", "vmx"}} :
        subject = s /\ c = New(s, work, table, bits) /\ (s # "native" => table = Vectors)
  BY Zenon DEF Init
<1>1. PICK work \in Setups(s), bits \in {{}, {"lock", "vmx"}} :
        subject = s /\ c = New(s, work, table, bits) /\ (s # "native" => table = Vectors)
  OBVIOUS
<1>2. Structure(work)
  BY SetupAssumption
<1>3. PICK at, st, m : /\ at = (IF s = "native" THEN Place("main", 0) ELSE Place("host", 1))
                       /\ st = [w \in {"host", "guest"} |-> <<>>] /\ m = [p \in Memory |-> work]
  BY Zenon
<1>4. PICK on, vmxon, cur, env, got :
        /\ on = (s \in Hosted) /\ vmxon = (IF s \in Hosted THEN Own ELSE None) /\ cur = (IF s \in Hosted THEN First ELSE None)
        /\ env = (IF s = "native" THEN "a" ELSE "host") /\ got = Val({})
  BY Zenon
<1>5. c = [on |-> on, feature |-> bits, vmxon |-> vmxon, cur |-> cur, work |-> work, mem |-> m, result |-> "succeed",
           got |-> got, rip |-> at, start |-> at, ifl |-> FALSE, halt |-> FALSE, cr0 |-> CR0Fixed, vmxe |-> TRUE,
           env |-> env, long |-> TRUE, pend |-> None, guest |-> FALSE, irq |-> FALSE, idt |-> table, reset |-> FALSE,
           stack |-> st]
  BY <1>1, <1>3, <1>4, Zenon DEF New
<1>6. st = [w \in Worlds |-> st[w]] /\ st["host"] = <<>> /\ st["guest"] = <<>>
  BY <1>3 DEF Worlds
<1>7. /\ IsCpu(c) /\ c.guest = FALSE /\ c.pend = None /\ c.irq = FALSE /\ c.reset = FALSE /\ c.halt = FALSE /\ c.ifl = FALSE
      /\ c.on = on /\ c.cr0 = CR0Fixed /\ c.vmxe = TRUE /\ c.long = TRUE /\ c.got = got /\ c.stack = st /\ c.idt = table
      /\ c.cur = cur /\ c.vmxon = vmxon /\ c.rip = at /\ c.start = at /\ c.env = env /\ c.work = work
  BY <1>2, <1>5, <1>6 DEF IsCpu, Names
<1> QED
  BY <1>1, <1>3, <1>4, <1>6, <1>7 DEF Begins

LEMMA InitHosting == Init => (subject \in Hosted => Hosting(c) /\ Prepared(c.work))
<1> SUFFICES ASSUME Init, subject \in Hosted
             PROVE  Hosting(c) /\ Prepared(c.work)
  OBVIOUS
<1>1. Begins(subject, c) /\ Prepared(c.work) /\ subject # "native"
  BY InitBegins, SetupAssumption DEF Begins, Hosted
<1>2. Kept(c)
  BY <1>1, SetupKept DEF Begins
<1>4. Bare(c) /\ c.env = "host" /\ c.guest = FALSE
  BY <1>1 DEF Begins, Bare
<1> QED
  BY <1>1, <1>2, <1>4 DEF Begins, Hosting, AtWork

\* Out of a guest the hypervisor has its own registers and mode, whatever the guest's were, awake and with no fault
\* of the guest's pending (load_host_state).
THEOREM HostIsIntact == Spec => []HostIntact
<1>1. Init => (subject \in Hosted => Hosting(c))
  BY InitHosting
<1>2. (subject \in Hosted => Hosting(c)) /\ Sound(c) /\ [Next]_vars => (subject \in Hosted => Hosting(c))'
  <2>1. ASSUME subject \in Hosted => Hosting(c), Sound(c), [Next]_vars
        PROVE  subject' \in Hosted => Hosting(c')
    BY <2>1, NextHosting DEF Sound
  <2>2. (subject \in Hosted => Hosting(c))' <=> (subject' \in Hosted => Hosting(c'))
    BY DEF Hosting, Kept, AtWork, Bare, InHandler, OneFrame, F, Read
  <2> QED
    BY <2>1, <2>2
<1>3. (subject \in Hosted => Hosting(c)) => HostIntact
  BY DEF HostIntact, Hosting, Kept, AtWork, Bare, InHandler, Place
<1> QED
  BY <1>1, <1>2, <1>3, AlwaysSound, PTL DEF Spec

-----------------------------------------------------------------------------
(* CR0 as a guest sees it.                                                   *)

HistNames == {"due", "ifl", "env", "sees", "saw", "raised", "ended", "reported", "owes", "torn", "steps"}
IsHist(h) == h = [n \in HistNames |-> h[n]] /\ h.torn \in BOOLEAN
Same(g, h, N) == IsHist(h) /\ \A n \in HistNames \ N : h[n] = g[n]

\* What an exit owes is told from what it reported; nothing else of the history changes.
LEMMA ExitedHist ==
  ASSUME NEW g, IsHist(g), NEW d, NEW h, h = Exited(g, d)
  PROVE  /\ Same(g, h, {"owes", "reported"})
         /\ c.guest /\ ~d.guest => h.owes = Owes(d) /\ h.reported = g.reported + (IF Told(d) THEN 1 ELSE 0)
         /\ ~(c.guest /\ ~d.guest) => h = g
<1>1. CASE c.guest /\ ~d.guest
  <2>1. PICK o, r : o = Owes(d) /\ r = g.reported + (IF Told(d) THEN 1 ELSE 0)
    BY Zenon
  <2>2. h = [g EXCEPT !.owes = o, !.reported = r]
    BY <1>1, <2>1 DEF Exited
  <2>3. Same(g, h, {"owes", "reported"}) /\ h.owes = o /\ h.reported = r
    BY <2>2 DEF Same, IsHist, HistNames
  <2> QED
    BY <1>1, <2>1, <2>3
<1>2. CASE ~(c.guest /\ ~d.guest)
  BY <1>2 DEF Exited, Same
<1> QED
  BY <1>1, <1>2

\* A delivery that a page fault tears is told, and no other changes the history.
LEMMA TornHist ==
  ASSUME NEW g, IsHist(g), NEW v, NEW d, NEW h, h = Torn(g, v, d)
  PROVE  /\ Same(g, h, {"torn"}) /\ (g.torn => h.torn)
         /\ v # "pf" /\ d.pend # None => h.torn
         /\ v = "pf" \/ d.pend = None => h = g
<1>1. CASE v # "pf" /\ d.pend # None
  <2>1. h = [g EXCEPT !.torn = TRUE]
    <3>1. PICK b : b = (g.torn \/ (v # "pf" /\ d.pend # None)) /\ h = [g EXCEPT !.torn = b]
      BY Zenon DEF Torn
    <3>2. b = TRUE
      BY <1>1, <3>1, Zenon
    <3> QED
      BY <3>1, <3>2, Zenon
  <2> QED
    BY <1>1, <2>1 DEF Same, IsHist, HistNames
<1>2. CASE v = "pf" \/ d.pend = None
  <2>1. h = [g EXCEPT !.torn = g.torn]
    <3>1. PICK b : b = (g.torn \/ (v # "pf" /\ d.pend # None)) /\ h = [g EXCEPT !.torn = b]
      BY Zenon DEF Torn
    <3>2. b = g.torn
      BY <1>2, <3>1 DEF IsHist
    <3> QED
      BY <3>1, <3>2, Zenon
  <2>2. h = g
    BY <2>1 DEF IsHist, HistNames
  <2> QED
    BY <1>2, <2>2 DEF Same
<1> QED
  BY <1>1, <1>2

(* the hypervisor has done with its exit; what it owes the next is told when the entry itself exits *)
LEMMA ResumedHist ==
  ASSUME IsHist(hist), NEW d, NEW g, g = Resumed(d)
  PROVE  /\ Same(hist, g, {"owes", "due"}) /\ g.owes = (IF d.guest THEN "none" ELSE Owes(d))
         /\ g.due = hist.due + (IF F(c, EntryIntrInfo) # None /\ F(c, EntryIntrInfo).soft /\ F(c, GuestRip).code = "main" THEN 1 ELSE 0)
<1>1. PICK o, n : /\ o = (IF d.guest THEN "none" ELSE Owes(d))
                  /\ n = hist.due + (IF F(c, EntryIntrInfo) # None /\ F(c, EntryIntrInfo).soft /\ F(c, GuestRip).code = "main" THEN 1 ELSE 0)
  BY Zenon
<1>2. g = [hist EXCEPT !.owes = o, !.due = n]
  BY <1>1, Zenon DEF Resumed
<1>3. Same(hist, g, {"owes", "due"}) /\ g.owes = o /\ g.due = n
  BY <1>2 DEF Same, IsHist, HistNames
<1> QED
  BY <1>1, <1>3, Zenon

LEMMA OwesKinds ==
  ASSUME NEW d
  PROVE  Owes(d) \in {"burial", "repair", "none", "skip"} /\ (Owes(d) = "burial" <=> Fatal(d))
BY DEF Owes

Cr0Of(x) == IF x.guest THEN x.cr0 ELSE F(x, GuestCr0)
View(x) == (Cr0Of(x) \ F(x, Cr0Mask)) \cup (F(x, Cr0Shadow) \cap F(x, Cr0Mask))
Seen(x, h) ==
  /\ IsHist(h) /\ CR0Fixed \subseteq F(x, Cr0Mask)
  /\ h.owes # "cr0" => View(x) = h.sees
  /\ h.owes = "cr0" => F(x, Cr0Shadow) = h.sees /\ ~x.guest
  /\ x.got.lo = h.saw
(* d shows its guest the CR0 that x does *)
Sights(x, d) == /\ F(d, Cr0Mask) = F(x, Cr0Mask) /\ F(d, Cr0Shadow) = F(x, Cr0Shadow) /\ d.got = x.got
                /\ (CR0Fixed \subseteq F(x, Cr0Mask) => View(d) = View(x))

LEMMA SightFields ==
  /\ {Cr0Mask, Cr0Shadow} \subseteq Field \ (State \cup Told3) /\ GuestCr0 \in Field
  /\ Cr0Mask # Cr0Shadow /\ EntryIntrInfo \notin {Cr0Mask, Cr0Shadow, GuestCr0}
<1>1. {Cr0Mask, Cr0Shadow, GuestCr0} \subseteq Field
  BY NamedFields DEF Named
<1>2. {Cr0Mask, Cr0Shadow} \cap (State \cup Told3) = {}
  BY DEF Cr0Mask, Cr0Shadow, State, Told3, GuestCr0, GuestEnv, GuestEfer, GuestRip, GuestFlags, GuestActivity, ExitReason,
     ExitInstrLen, ExitIntrInfo
<1> QED
  BY <1>1, <1>2 DEF Cr0Mask, Cr0Shadow, EntryIntrInfo, GuestCr0

LEMMA SameSights ==
  ASSUME NEW x, NEW d, \A g \in {Cr0Mask, Cr0Shadow} : F(d, g) = F(x, g), d.got = x.got, Cr0Of(d) = Cr0Of(x)
  PROVE  Sights(x, d)
BY DEF Sights, View

LEMMA ApartSights ==
  ASSUME NEW x, NEW d, NEW N, N \cap {"work", "got", "cr0", "guest"} = {}, Agree(x, d, N)
  PROVE  Sights(x, d)
<1>1. d.work = x.work /\ d.got = x.got /\ d.cr0 = x.cr0 /\ d.guest = x.guest
  BY DEF Agree, Names
<1>2. Cr0Of(d) = Cr0Of(x)
  BY <1>1, SameWork DEF Cr0Of
<1> QED
  BY <1>1, <1>2, SameWork, SameSights

LEMMA DeliverySights ==
  ASSUME NEW x, NEW d, Delivery(x, d)
  PROVE  Sights(x, d)
<1>1. Plain \cap {"work", "got", "cr0", "guest"} = {}
  BY DEF Plain
<1>2. CASE Apart(x, d)
  BY <1>1, <1>2, ApartSights DEF Apart
<1>3. CASE \E y, reason, vector : x.guest /\ Apart(x, y) /\ Left(y, d, reason, vector)
  <2>1. PICK y, reason, vector : x.guest /\ Apart(x, y) /\ Left(y, d, reason, vector)
    BY <1>3
  <2>2. Sights(x, y) /\ y.guest = x.guest /\ y.cr0 = x.cr0
    BY <1>1, <2>1, ApartSights DEF Apart, Agree, Plain, Names
  <2>3. d.got = y.got /\ d.guest = FALSE /\ F(d, GuestCr0) = y.cr0
    BY <2>1 DEF Left, Agree, Reloaded, Names, Home, Holds
  <2>4. \A g \in {Cr0Mask, Cr0Shadow} : F(d, g) = F(y, g)
    BY <2>1, SightFields DEF Left, Rest
  <2>5. Cr0Of(d) = Cr0Of(y)
    BY <2>1, <2>2, <2>3 DEF Cr0Of
  <2>6. Sights(y, d)
    BY <2>3, <2>4, <2>5, SameSights
  <2> QED
    BY <2>2, <2>6 DEF Sights
<1> QED
  BY <1>2, <1>3 DEF Delivery

(* what a step may add to the history of a program, besides an exit *)
Adds == {"due", "ifl", "env", "raised", "ended", "reported", "steps"}

\* A step that shows the guest the same, whatever it owes.
LEMMA SeenOn ==
  ASSUME Seen(c, hist), NEW g, Same(hist, g, Adds),
         NEW d, Sights(c, d), d.guest => c.guest, NEW e, e.guest = d.guest, NEW h, h = Exited(g, e)
  PROVE  Seen(d, h)
<1>1. IsHist(g) /\ g.sees = hist.sees /\ g.saw = hist.saw /\ g.owes = hist.owes
  BY DEF Same, Adds, HistNames
<1>2. Same(g, h, {"owes", "reported"})
  BY <1>1, ExitedHist
<1>3. IsHist(h) /\ h.sees = hist.sees /\ h.saw = hist.saw
  BY <1>1, <1>2 DEF Same, HistNames
<1>4. h.owes = hist.owes \/ (c.guest /\ ~d.guest /\ h.owes # "cr0")
  <2>1. CASE c.guest /\ ~d.guest
    BY <1>1, <2>1, ExitedHist, OwesKinds
  <2>2. CASE ~(c.guest /\ ~d.guest)
    BY <1>1, <2>2, ExitedHist
  <2> QED
    BY <2>1, <2>2
<1> QED
  BY <1>3, <1>4 DEF Seen, Sights

\* What a program's instruction adds to the history, short of an exit.
LEMMA RetiredHist ==
  ASSUME NEW g, IsHist(g)
  PROVE  Same(g, Retired(g), {"due"})
<1>1. PICK h : h = Retired(g)
  BY Zenon
<1>2. CASE h = [g EXCEPT !.due = @ + 1]
  BY <1>1, <1>2 DEF Same, IsHist, HistNames
<1>3. CASE h = g
  BY <1>1, <1>3 DEF Same
<1> QED
  BY <1>1, <1>2, <1>3 DEF Retired

LEMMA RunsHist ==
  ASSUME IsHist(hist), NEW ins, NEW d, NEW g, Runs(ins, d, g), Same(hist, g, Adds)
  PROVE  \E h : Same(hist, h, Adds) /\ hist' = Exited(h, c')
<1>1. CASE hist' = Exited(hist, c')
  BY <1>1 DEF Same
<1>2. CASE hist' = Exited(Retired(g), c')
  <2>1. Same(g, Retired(g), {"due"})
    BY RetiredHist DEF Same
  <2>2. Same(hist, Retired(g), Adds)
    BY <2>1, Zenon DEF Same, Adds
  <2> QED
    BY <1>2, <2>2
<1>3. CASE c.guest /\ Exits(Decoded, ins)
  <2>1. PICK e : e = VmExit(Decoded, ins.op, None)
    BY Zenon
  <2>2. Done(e, hist)
    BY <1>3, <2>1 DEF Runs
  <2> QED
    BY <1>1, <2>2 DEF Done
<1>4. CASE ~(c.guest /\ Exits(Decoded, ins))
  <2>1. Done(d, Retired(g))
    BY <1>4 DEF Runs
  <2> QED
    BY <1>2, <2>1 DEF Done
<1> QED
  BY <1>3, <1>4

LEMMA ProgramHist ==
  ASSUME IsHist(hist), Guest, ~Cr0Acts, ~Defers
  PROVE  \E h : Same(hist, h, Adds) /\ hist' = Exited(h, c')
<1>1. Same(hist, hist, Adds)
  BY DEF Same
<1>2. CASE FetchFaults \/ Faults \/ Int3 \/ Spins \/ Handles
  BY <1>1, <1>2, Zenon DEF FetchFaults, Faults, Int3, Spins, Handles, Done
<1>3. CASE SetFlag
  <2>1. PICK v, g : g = [hist EXCEPT !.ifl = v] /\ hist' = Exited(Retired(g), c')
    BY <1>3, Zenon DEF SetFlag, Done
  <2>2. IsHist(g) /\ Same(hist, g, Adds)
    BY <2>1 DEF Same, IsHist, HistNames, Adds
  <2>3. Same(hist, Retired(g), Adds)
    BY <2>2, RetiredHist, Zenon DEF Same, Adds
  <2> QED
    BY <2>1, <2>3
<1>4. CASE SetEnv
  <2>1. PICK v, g : g = [hist EXCEPT !.env = v] /\ hist' = Exited(Retired(g), c')
    BY <1>4, Zenon DEF SetEnv, Done
  <2>2. IsHist(g) /\ Same(hist, g, Adds)
    BY <2>1 DEF Same, IsHist, HistNames, Adds
  <2>3. Same(hist, Retired(g), Adds)
    BY <2>2, RetiredHist, Zenon DEF Same, Adds
  <2> QED
    BY <2>1, <2>3
<1>5. CASE Halts
  <2>1. \E i, d : Runs(i, d, hist)
    BY <1>5, Zenon DEF Halts
  <2> QED
    BY <1>1, <2>1, RunsHist
<1>6. CASE Others
  <2>1. (\E d : Done(d, hist)) \/ \E i, d : Runs(i, d, hist)
    BY <1>6, Zenon DEF Others
  <2> QED
    BY <1>1, <2>1, RunsHist DEF Done
<1>7. CASE Ports
  <2>1. \E i, d : Runs(i, d, hist)
    BY <1>7, Zenon DEF Ports
  <2> QED
    BY <1>1, <2>1, RunsHist
<1>8. CASE Iret
  <2>1. PICK n, g : g = [hist EXCEPT !.ended = n] /\ hist' = Exited(g, c')
    <3>1. PICK n : n = hist.ended + (IF c.rip.code = "irq" THEN 1 ELSE 0)
      BY Zenon
    <3>2. PICK w, f, more, rip, ifl : Pops(w, f, more, rip, ifl)
      BY <1>8, IretPops
    <3> QED
      BY <3>1, <3>2, Zenon DEF Pops
  <2>2. Same(hist, g, Adds)
    BY <2>1 DEF Same, IsHist, HistNames, Adds
  <2> QED
    BY <2>1, <2>2
<1> QED
  BY <1>2, <1>3, <1>4, <1>5, <1>6, <1>7, <1>8 DEF Guest, Cr0Acts

\* Where an instruction of the guest on CR0 does not exit, the guest sees what it does (cr_write_intercept).
LEMMA MovSees ==
  ASSUME NEW r, NEW m, NEW s, NEW v, Differ(v, s) \cap m = {}
  PROVE  (((v \ m) \cup (r \cap m)) \ m) \cup (s \cap m) = v
BY DEF Differ
LEMMA ClearSees ==
  ASSUME NEW r, NEW m, NEW s, "TS" \notin m \cap s
  PROVE  ((r \ {"TS"}) \ m) \cup (s \cap m) = ((r \ m) \cup (s \cap m)) \ {"TS"}
OBVIOUS
LEMMA GrantSees ==
  ASSUME NEW r, NEW m, NEW s
  PROVE  (((r \cap m) \cup (s \ m)) \ m) \cup (s \cap m) = s
OBVIOUS
LEMMA LowSees ==
  ASSUME NEW r, NEW m, NEW s, NEW v, CR0Fixed \subseteq m,
         Differ((v \cap Low) \cup (r \cap {"PE"}), s) \cap m \cap Low = {}
  PROVE  (Loaded(r, v) \ m) \cup (s \cap m) = Loaded((r \ m) \cup (s \cap m), v)
BY DEF Differ, Low, Loaded, CR0Fixed

\* Either it exits, or it changes just CR0 and what was read of it.
LEMMA Cr0Runs ==
  ASSUME IsCpu(c), IsHist(hist), c.guest, NEW ins, NEW y, y = Decoded,
         NEW d, Agree(y, d, {"cr0", "got"}), NEW h, IsHist(h), Runs(ins, d, h)
  PROVE  \/ Delivery(c, c') /\ hist' = Exited(hist, c')
         \/ /\ ~Exits(y, ins) /\ Agree(c, c', {"rip", "cr0", "got"}) /\ c'.cr0 = d.cr0 /\ c'.got = d.got
            /\ Same(h, hist', {"due"})
<1>1. IsCpu(y) /\ Apart(c, y) /\ y.guest = c.guest
  BY DecodedApart, ApartCpu
<1>2. CASE Exits(y, ins)
  <2>1. c' = VmExit(y, ins.op, None) /\ hist' = Exited(hist, c')
    <3>1. PICK e : e = VmExit(y, ins.op, None)
      BY Zenon
    <3>2. Done(e, hist)
      BY <1>2, <3>1 DEF Runs
    <3> QED
      BY <3>1, <3>2 DEF Done
  <2>2. Left(y, c', ins.op, None)
    BY <1>1, <2>1, ExitLeaves
  <2> QED
    BY <1>1, <2>1, <2>2, Zenon DEF Delivery
<1>3. CASE ~Exits(y, ins)
  <2>1. PICK to : to = Next1(c)
    BY Zenon
  <2>2. y = [c EXCEPT !.rip = to]
    BY <2>1, Zenon DEF Decoded
  <2>3. Agree(c, d, {"rip", "cr0", "got"}) /\ d.guest = c.guest
    BY <2>2 DEF Agree, IsCpu, Names
  <2>4. Done(d, Retired(h))
    BY <1>3 DEF Runs
  <2>5. c' = d /\ hist' = Exited(Retired(h), d)
    BY <2>4 DEF Done
  <2>6. hist' = Retired(h)
    BY <2>3, <2>5 DEF Exited
  <2> QED
    BY <1>3, <2>3, <2>5, <2>6, RetiredHist
<1> QED
  BY <1>2, <1>3

LEMMA Cr0Sees ==
  ASSUME IsCpu(c), subject = "shadow", Seen(c, hist), Cr0Acts
  PROVE  Seen(c', hist')
<1>1. IsHist(hist) /\ c.guest /\ CR0Fixed \subseteq F(c, Cr0Mask) /\ hist.owes # "cr0" /\ View(c) = hist.sees /\ c.got.lo = hist.saw
  BY DEF Cr0Acts, WritesCr0, ReadsCr0, Clts, Lmsw, Free, InMain, Running, Seen
<1>2. PICK y, m, s : y = Decoded /\ m = F(c, Cr0Mask) /\ s = F(c, Cr0Shadow)
  BY Zenon
<1>3. IsCpu(y) /\ y.cr0 = c.cr0 /\ y.got = c.got /\ F(y, Cr0Mask) = m /\ F(y, Cr0Shadow) = s
  <2>1. IsCpu(y) /\ Apart(c, y) /\ y.work = c.work
    BY <1>2, DecodedApart, ApartCpu
  <2> QED
    BY <1>2, <2>1, SameWork DEF Apart, Agree, Plain, Names
<1>4. View(c) = (c.cr0 \ m) \cup (s \cap m)
  BY <1>1, <1>2 DEF View, Cr0Of
<1>5. ASSUME Delivery(c, c'), hist' = Exited(hist, c')
      PROVE  Seen(c', hist')
  BY <1>1, <1>5, DeliverySights, SeenOn DEF Same
<1>6. ASSUME NEW ins, NEW d, NEW h, Runs(ins, d, h), Agree(y, d, {"cr0", "got"}), Same(hist, h, {"sees", "saw"}),
             ~Exits(y, ins) => (d.cr0 \ m) \cup (s \cap m) = h.sees, d.got.lo = h.saw
      PROVE  Seen(c', hist')
  <2>1. CASE Delivery(c, c') /\ hist' = Exited(hist, c')
    BY <1>5, <2>1
  <2>2. CASE /\ ~Exits(y, ins) /\ Agree(c, c', {"rip", "cr0", "got"}) /\ c'.cr0 = d.cr0 /\ c'.got = d.got
             /\ Same(h, hist', {"due"})
    <3>1. IsHist(hist') /\ hist'.sees = h.sees /\ hist'.saw = h.saw /\ hist'.owes = hist.owes
      BY <1>6, <2>2 DEF Same, HistNames
    <3>2. c'.guest = c.guest /\ c'.work = c.work
      BY <2>2 DEF Agree, Names
    <3>3. F(c', Cr0Mask) = m /\ F(c', Cr0Shadow) = s
      BY <1>2, <3>2, SameWork
    <3>4. View(c') = h.sees
      BY <1>1, <1>6, <2>2, <3>2, <3>3 DEF View, Cr0Of
    <3> QED
      BY <1>1, <1>2, <1>6, <2>2, <3>1, <3>3, <3>4 DEF Seen
  <2>3. IsHist(h)
    BY <1>6 DEF Same
  <2> QED
    BY <1>1, <1>2, <1>6, <2>1, <2>2, <2>3, Cr0Runs
<1>7. CASE WritesCr0
  <2>1. PICK v : Runs([op |-> "tocr0", arg |-> v], [Decoded EXCEPT !.cr0 = Owned(c, v)], [hist EXCEPT !.sees = v])
    BY <1>7, Zenon DEF WritesCr0
  <2>2. PICK ins, r : ins = [op |-> "tocr0", arg |-> v] /\ r = Owned(c, v)
    BY Zenon
  <2>3. PICK d, h : d = [y EXCEPT !.cr0 = r] /\ h = [hist EXCEPT !.sees = v]
    BY Zenon
  <2>4. /\ Agree(y, d, {"cr0", "got"}) /\ d.cr0 = r /\ d.got = y.got
        /\ Same(hist, h, {"sees", "saw"}) /\ h.sees = v /\ h.saw = hist.saw
    BY <1>1, <1>3, <2>3 DEF Agree, IsCpu, Names, Same, IsHist, HistNames
  <2>5. Runs(ins, d, h)
    BY <1>2, <2>1, <2>2, <2>3, Zenon
  <2>6. ASSUME ~Exits(y, ins)
        PROVE  (r \ m) \cup (s \cap m) = v
    <3>1. Differ(v, s) \cap m = {}
      BY <1>3, <2>2, <2>6 DEF Exits
    <3>2. r = (v \ m) \cup (c.cr0 \cap m)
      BY <1>2, <2>2 DEF Owned
    <3> QED
      BY <3>1, <3>2, MovSees
  <2> QED
    BY <1>1, <1>3, <1>6, <2>4, <2>5, <2>6
<1>8. CASE ReadsCr0
  <2>1. Runs(Op("fromcr0"), [Decoded EXCEPT !.got = Val(Masked(c))], [hist EXCEPT !.saw = hist.sees])
    BY <1>8, Zenon DEF ReadsCr0
  <2>2. PICK ins, got : ins = Op("fromcr0") /\ got = Val(Masked(c))
    BY Zenon
  <2>3. PICK d, h : d = [y EXCEPT !.got = got] /\ h = [hist EXCEPT !.saw = hist.sees]
    BY Zenon
  <2>4. /\ Agree(y, d, {"cr0", "got"}) /\ d.cr0 = y.cr0 /\ d.got = got
        /\ Same(hist, h, {"sees", "saw"}) /\ h.sees = hist.sees /\ h.saw = hist.sees
    BY <1>1, <1>3, <2>3 DEF Agree, IsCpu, Names, Same, IsHist, HistNames
  <2>5. Runs(ins, d, h)
    BY <1>2, <2>1, <2>2, <2>3, Zenon
  <2>6. got.lo = hist.sees
    BY <1>1, <1>2, <1>4, <2>2 DEF Masked, Val
  <2> QED
    BY <1>1, <1>3, <1>4, <1>6, <2>4, <2>5, <2>6
<1>9. CASE Clts
  <2>1. Runs(Op("clts"), [Decoded EXCEPT !.cr0 = @ \ {"TS"}], [hist EXCEPT !.sees = @ \ {"TS"}])
    BY <1>9, Zenon DEF Clts
  <2>2. PICK ins : ins = Op("clts")
    BY Zenon
  <2>3. PICK d, h : d = [y EXCEPT !.cr0 = @ \ {"TS"}] /\ h = [hist EXCEPT !.sees = @ \ {"TS"}]
    BY Zenon
  <2>4. /\ Agree(y, d, {"cr0", "got"}) /\ d.cr0 = y.cr0 \ {"TS"} /\ d.got = y.got
        /\ Same(hist, h, {"sees", "saw"}) /\ h.sees = hist.sees \ {"TS"} /\ h.saw = hist.saw
    BY <1>1, <1>3, <2>3 DEF Agree, IsCpu, Names, Same, IsHist, HistNames
  <2>5. Runs(ins, d, h)
    BY <1>2, <2>1, <2>2, <2>3, Zenon
  <2>6. ASSUME ~Exits(y, ins)
        PROVE  ((c.cr0 \ {"TS"}) \ m) \cup (s \cap m) = hist.sees \ {"TS"}
    <3>1. "TS" \notin m \cap s
      BY <1>3, <2>2, <2>6 DEF Exits, Op
    <3> QED
      BY <1>1, <1>4, <3>1, ClearSees
  <2> QED
    BY <1>1, <1>3, <1>6, <2>4, <2>5, <2>6
<1>10. CASE Lmsw
  <2>1. PICK v : Runs([op |-> "lmsw", arg |-> v], [Decoded EXCEPT !.cr0 = Loaded(@, v)], [hist EXCEPT !.sees = Loaded(@, v)])
    BY <1>10, Zenon DEF Lmsw
  <2>2. PICK ins, r, sees : ins = [op |-> "lmsw", arg |-> v] /\ r = Loaded(y.cr0, v) /\ sees = Loaded(hist.sees, v)
    BY Zenon
  <2>3. PICK d, h : d = [y EXCEPT !.cr0 = r] /\ h = [hist EXCEPT !.sees = sees]
    BY Zenon
  <2>4. /\ Agree(y, d, {"cr0", "got"}) /\ d.cr0 = r /\ d.got = y.got
        /\ Same(hist, h, {"sees", "saw"}) /\ h.sees = sees /\ h.saw = hist.saw
    BY <1>1, <1>3, <2>3 DEF Agree, IsCpu, Names, Same, IsHist, HistNames
  <2>5. Runs(ins, d, h)
    BY <1>2, <2>1, <2>2, <2>3, Zenon
  <2>6. ASSUME ~Exits(y, ins)
        PROVE  (r \ m) \cup (s \cap m) = sees
    <3>1. Differ((v \cap Low) \cup (c.cr0 \cap {"PE"}), s) \cap m \cap Low = {}
      BY <1>3, <2>2, <2>6, SMTT(30) DEF Exits
    <3>2. (Loaded(c.cr0, v) \ m) \cup (s \cap m) = Loaded((c.cr0 \ m) \cup (s \cap m), v)
      BY <1>1, <1>2, <3>1, LowSees
    <3> QED
      BY <1>1, <1>3, <1>4, <2>2, <3>2, Zenon
  <2> QED
    BY <1>1, <1>3, <1>6, <2>4, <2>5, <2>6
<1> QED
  BY <1>7, <1>8, <1>9, <1>10 DEF Cr0Acts

\* The hypervisor's own steps: what it grants is what the guest will see.
LEMMA HostSees ==
  ASSUME IsCpu(c), subject = "shadow", Hosting(c), Seen(c, hist), Host
  PROVE  Seen(c', hist')
<1>1. subject \in Hosted /\ subject # "guest" /\ subject # "regions"
  BY DEF Hosted
<1>2. ~c.guest /\ Working
  BY <1>1, HostActing
<1>3. Skips \/ Grants \/ GrantsOwn \/ Repairs \/ Hands \/ Injects \/ Opens \/ Resumes
  BY <1>1 DEF Host, RootTries, SetsFeature, Asks
<1>4. /\ IsHist(hist) /\ CR0Fixed \subseteq F(c, Cr0Mask) /\ c.got.lo = hist.saw
      /\ hist.owes # "cr0" => View(c) = hist.sees
      /\ hist.owes = "cr0" => F(c, Cr0Shadow) = hist.sees
  BY DEF Seen
<1>5. {GuestRip, EntryIntrInfo, Cr0Shadow, GuestCr0, Cr0Mask} \subseteq Field /\ \A e \in HostFields : e \in Field /\ ~ReadOnly(e)
  BY NamedFields, HostFieldsWritable DEF Named
<1>6. Cr0Mask \notin HostFields /\ Cr0Shadow \notin {GuestRip, EntryIntrInfo, GuestCr0} /\ GuestCr0 \notin {GuestRip, EntryIntrInfo, Cr0Shadow}
  BY DEF HostFields, GuestRip, GuestCr0, Cr0Shadow, EntryIntrInfo, CpuCtls, Cr0Mask
<1>7. ASSUME NEW e \in HostFields, NEW v, NEW h, Vmx(Instr("vmwrite", e, v), h)
      PROVE  /\ c'.guest = c.guest /\ c'.got = c.got /\ F(c', e) = v /\ hist' = h
             /\ \A g \in Field \ {e} : F(c', g) = F(c, g)
  <2>1. HostWrote(c', e, v) /\ hist' = h
    BY <1>2, <1>5, <1>7, HostWrites
  <2> QED
    BY <2>1 DEF HostWrote, Agree, Names, Rest
\* a field that the view does not depend on
<1>8. ASSUME NEW e \in {GuestRip, EntryIntrInfo}, NEW v, NEW h, Vmx(Instr("vmwrite", e, v), h), hist.owes # "cr0",
             Same(hist, h, {"owes", "due", "raised"}), h.owes # "cr0"
      PROVE  Seen(c', hist')
  <2>1. e \in HostFields
    BY <1>8 DEF HostFields
  <2>2. /\ F(c', Cr0Mask) = F(c, Cr0Mask) /\ F(c', Cr0Shadow) = F(c, Cr0Shadow) /\ F(c', GuestCr0) = F(c, GuestCr0)
        /\ c'.guest = c.guest /\ c'.got = c.got /\ hist' = h
    BY <1>5, <1>6, <1>7, <1>8, <2>1
  <2>3. View(c') = View(c)
    BY <1>2, <2>2 DEF View, Cr0Of
  <2>4. IsHist(h) /\ h.sees = hist.sees /\ h.saw = hist.saw
    BY <1>8 DEF Same, HistNames
  <2> QED
    BY <1>4, <1>8, <2>2, <2>3, <2>4 DEF Seen
<1>9. CASE Skips
  <2>1. PICK n, h : /\ h = [hist EXCEPT !.owes = "none", !.due = n] /\ Vmx(Instr("vmwrite", GuestRip, Past), h)
                    /\ hist.owes # "cr0"
    <3>1. PICK n : n = hist.due + (IF F(c, GuestRip).code = "main" THEN 1 ELSE 0)
      BY Zenon
    <3>2. hist.owes # "cr0"
      BY <1>9 DEF Skips
    <3> QED
      BY <1>9, <3>1, <3>2, Zenon DEF Skips
  <2>2. Same(hist, h, {"owes", "due", "raised"}) /\ h.owes # "cr0"
    BY <1>4, <2>1 DEF Same, IsHist, HistNames
  <2> QED
    BY <1>8, <2>1, <2>2
<1>10. CASE Hands
  <2>1. PICK v, h : /\ h = [hist EXCEPT !.owes = "entry"] /\ Vmx(Instr("vmwrite", EntryIntrInfo, v), h)
                    /\ hist.owes = "repair"
    BY <1>10, Zenon DEF Hands
  <2>2. Same(hist, h, {"owes", "due", "raised"}) /\ h.owes # "cr0"
    BY <1>4, <2>1 DEF Same, IsHist, HistNames
  <2> QED
    BY <1>8, <2>1, <2>2
<1>11. CASE Injects
  <2>1. PICK v, h : /\ h = [hist EXCEPT !.raised = @ + 1] /\ Vmx(Instr("vmwrite", EntryIntrInfo, v), h)
                    /\ hist.owes = "none"
    BY <1>11, Zenon DEF Injects
  <2>2. Same(hist, h, {"owes", "due", "raised"}) /\ h.owes # "cr0"
    BY <1>4, <2>1 DEF Same, IsHist, HistNames
  <2> QED
    BY <1>8, <2>1, <2>2
<1>12. CASE Grants
  <2>1. PICK v, h : h = [hist EXCEPT !.owes = "cr0", !.sees = v] /\ Vmx(Instr("vmwrite", Cr0Shadow, v), h)
    BY <1>12, Zenon DEF Grants
  <2>2. Cr0Shadow \in HostFields
    BY DEF HostFields
  <2>3. /\ c'.guest = c.guest /\ c'.got = c.got /\ F(c', Cr0Shadow) = v /\ hist' = h /\ F(c', Cr0Mask) = F(c, Cr0Mask)
    BY <1>5, <1>6, <1>7, <2>1, <2>2
  <2>4. IsHist(h) /\ h.sees = v /\ h.saw = hist.saw /\ h.owes = "cr0"
    BY <1>4, <2>1 DEF IsHist, HistNames
  <2> QED
    BY <1>2, <1>4, <2>3, <2>4 DEF Seen
<1>13. CASE GrantsOwn
  <2>1. PICK v, h : /\ h = [hist EXCEPT !.owes = "past"] /\ Vmx(Instr("vmwrite", GuestCr0, v), h) /\ hist.owes = "cr0"
                    /\ v = (F(c, GuestCr0) \cap F(c, Cr0Mask)) \cup (F(c, Cr0Shadow) \ F(c, Cr0Mask))
    BY <1>13, Zenon DEF GrantsOwn
  <2>2. GuestCr0 \in HostFields
    BY DEF HostFields
  <2>3. /\ c'.guest = c.guest /\ c'.got = c.got /\ F(c', GuestCr0) = v /\ hist' = h
        /\ F(c', Cr0Mask) = F(c, Cr0Mask) /\ F(c', Cr0Shadow) = F(c, Cr0Shadow)
    BY <1>5, <1>6, <1>7, <2>1, <2>2
  <2>4. IsHist(h) /\ h.sees = hist.sees /\ h.saw = hist.saw /\ h.owes = "past"
    BY <1>4, <2>1 DEF IsHist, HistNames
  <2>5. View(c') = F(c, Cr0Shadow)
    <3>1. View(c') = (v \ F(c, Cr0Mask)) \cup (F(c, Cr0Shadow) \cap F(c, Cr0Mask))
      BY <1>2, <2>3 DEF View, Cr0Of
    <3> QED
      BY <2>1, <3>1, GrantSees
  <2> QED
    BY <1>2, <1>4, <2>1, <2>3, <2>4, <2>5 DEF Seen
<1>14. CASE Repairs \/ Opens
  <2>1. PICK to : to = Next1(c)
    BY Zenon
  <2>2. c' = [c EXCEPT !.rip = to] \/ c' = [c EXCEPT !.rip = to, !.ifl = TRUE]
    BY <1>14, <2>1, Zenon DEF Repairs, Opens, Done, Decoded
  <2>3. Agree(c, c', {"rip", "ifl"})
    <3>1. CASE c' = [c EXCEPT !.rip = to]
      BY <3>1 DEF Agree, IsCpu, Names
    <3>2. CASE c' = [c EXCEPT !.rip = to, !.ifl = TRUE]
      BY <3>2 DEF Agree, IsCpu, Names
    <3> QED
      BY <2>2, <3>1, <3>2
  <2>4. Sights(c, c') /\ c'.guest = c.guest
    <3>1. c'.guest = c.guest
      BY <2>3 DEF Agree, Names
    <3> QED
      BY <2>3, <3>1, ApartSights
  <2>5. hist' = hist \/ (hist' = [hist EXCEPT !.owes = "none"] /\ hist.owes = "repair")
    BY <1>2, <1>14 DEF Repairs, Opens, Done, Exited
  <2>6. IsHist(hist') /\ hist'.sees = hist.sees /\ hist'.saw = hist.saw
        /\ (hist'.owes = hist.owes \/ (hist.owes = "repair" /\ hist'.owes = "none"))
    BY <1>4, <2>5 DEF IsHist, HistNames
  <2> QED
    BY <1>2, <1>4, <2>4, <2>6 DEF Seen, Sights
<1>15. CASE Resumes
  <2>1. PICK op, y : op = (IF Launched(c) THEN "vmresume" ELSE "vmlaunch") /\ y = Decoded
    BY Zenon
  <2>2. PICK bad : c' = ExecuteVmx(y, Instr(op, 0, 0), bad)
    BY <1>15, <2>1, ResumesShape
  <2>3. c' = VmEntry(y, bad)
    BY <1>2, <2>1, <2>2, HostEnters
  <2>4. IsCpu(y) /\ Apart(c, y) /\ Sights(c, y) /\ y.work = c.work /\ y.guest = c.guest
    <3>1. IsCpu(y) /\ Apart(c, y) /\ y.work = c.work /\ y.guest = c.guest
      BY <2>1, DecodedApart, ApartCpu
    <3> QED
      BY <3>1, ApartSights DEF Apart, Plain
  <2>5. ASSUME NEW z, Begun(y, z), \A g \in Field \ {EntryIntrInfo} : F(z, g) = F(y, g)
        PROVE  Sights(y, z) /\ z.guest = TRUE
    <3>1. z.guest = TRUE /\ z.cr0 = F(y, GuestCr0) \cup CR0Fixed /\ z.got = y.got
      BY <2>5 DEF Begun, Agree, Entering, Names
    <3>2. F(z, Cr0Mask) = F(y, Cr0Mask) /\ F(z, Cr0Shadow) = F(y, Cr0Shadow)
      BY <1>5, <2>5, SightFields
    <3>3. CR0Fixed \subseteq F(y, Cr0Mask) => View(z) = View(y)
      BY <1>2, <2>4, <3>1, <3>2 DEF View, Cr0Of
    <3> QED
      BY <3>1, <3>2, <3>3 DEF Sights
  <2>6. Sights(y, c')
    <3>1. CASE Quiet(y, c')
      BY <2>5, <3>1 DEF Quiet
    <3>2. CASE \E z, f : Injected(y, z) /\ IsCpu(z) /\ c' = DispatchRaw(z, f, bad)
      <4>1. PICK z, f : Injected(y, z) /\ IsCpu(z) /\ c' = DispatchRaw(z, f, bad)
        BY <3>2
      <4>2. Sights(y, z)
        BY <2>5, <4>1 DEF Injected
      <4>3. Sights(z, c')
        BY <4>1, RawDelivery, DeliverySights
      <4> QED
        BY <4>2, <4>3 DEF Sights
    <3> QED
      BY <2>3, <2>4, <3>1, <3>2, EntryLoads
  <2>7. PICK g, h, v : /\ g = Resumed(c') /\ (h = g \/ h = Torn(g, v, c')) /\ hist' = Exited(h, c')
                       /\ hist.owes # "cr0"
    <3>1. PICK v, h : (h = Resumed(c') \/ h = Torn(Resumed(c'), v, c')) /\ hist' = Exited(h, c')
      BY <1>15, ResumesHist
    <3>2. PICK g : g = Resumed(c')
      BY Zenon
    <3>3. hist.owes # "cr0"
      BY <1>15 DEF Resumes
    <3> QED
      BY <3>1, <3>2, <3>3
  <2>8. hist' = h
    BY <1>2, <2>7 DEF Exited
  <2>9. IsHist(h) /\ h.sees = hist.sees /\ h.saw = hist.saw /\ h.owes # "cr0"
    <3>1. Same(hist, g, {"owes", "due"}) /\ g.owes # "cr0"
      <4>1. Same(hist, g, {"owes", "due"}) /\ g.owes = (IF c'.guest THEN "none" ELSE Owes(c'))
        BY <1>4, <2>7, ResumedHist
      <4> QED
        BY <4>1, OwesKinds
    <3>2. IsHist(g) /\ g.sees = hist.sees /\ g.saw = hist.saw /\ g.owes # "cr0"
      BY <3>1 DEF Same, HistNames
    <3>3. CASE h = Torn(g, v, c')
      BY <3>2, <3>3, TornHist DEF Same, HistNames
    <3> QED
      BY <2>7, <3>2, <3>3
  <2>10. Sights(c, c')
    BY <2>4, <2>6 DEF Sights
  <2> QED
    BY <1>4, <2>7, <2>8, <2>9, <2>10 DEF Seen, Sights
<1> QED
  BY <1>3, <1>9, <1>10, <1>11, <1>12, <1>13, <1>14, <1>15

\* The instructions of programs and handlers: a guest in the shadow sees what it wrote.
LEMMA GuestSeen ==
  ASSUME IsCpu(c), subject = "shadow", Seen(c, hist), Guest
  PROVE  Seen(c', hist')
<1>1. CASE Cr0Acts
  BY <1>1, Cr0Sees
<1>2. CASE ~Cr0Acts
  <2>1. IsHist(hist)
    BY DEF Seen
  <2>2. PICK h : Same(hist, h, Adds) /\ hist' = Exited(h, c')
    <3>1. CASE Defers
      <4>1. PICK y : y = Decoded
        BY Zenon
      <4>2. c' = y /\ hist' = hist
        BY <3>1, <4>1 DEF Defers
      <4>3. c'.guest = c.guest
        BY <4>1, <4>2, DecodedApart, ApartCpu
      <4> QED
        BY <2>1, <4>2, <4>3 DEF Same, Exited
    <3> QED
      BY <1>2, <2>1, <3>1, ProgramHist
  <2>3. Sights(c, c') /\ (c'.guest => c.guest)
    <3>1. CASE Goes(c, c', Going)
      <4>1. Agree(c, c', Going)
        BY <3>1 DEF Goes
      <4>2. Going \cap {"work", "got", "cr0", "guest"} = {}
        BY DEF Going
      <4>3. c'.guest = c.guest
        BY <4>1 DEF Agree, Going, Names
      <4> QED
        BY <4>1, <4>2, <4>3, ApartSights
    <3>2. CASE c.guest /\ Delivery(c, c')
      BY <3>2, DeliverySights
    <3> QED
      BY <1>2, <3>1, <3>2, ProgramGoes DEF GoesOn
  <2> QED
    BY <2>2, <2>3, SeenOn
<1> QED
  BY <1>1, <1>2

LEMMA DeliveryGuest ==
  ASSUME NEW x, NEW d, Delivery(x, d)
  PROVE  d.guest => x.guest
BY ApartCpu DEF Delivery

LEMMA SeenTorn ==
  ASSUME NEW x, NEW g, Seen(x, g), NEW v, NEW d, NEW h, h = Torn(g, v, d)
  PROVE  Seen(x, h)
<1>1. Same(g, h, {"torn"})
  BY TornHist DEF Seen
<1> QED
  BY <1>1 DEF Seen, Same, HistNames

LEMMA EventsSeen ==
  ASSUME IsCpu(c), Seen(c, hist), Events
  PROVE  Seen(c', hist')
<1>1. PICK p, poll, bad, d :
        /\ IsCpu(d) /\ Delivery(c, d) /\ c' = [d EXCEPT !.start = d.rip]
        /\ hist' = Torn(Exited(Noted(p, d), d), Cause(p), d)
  BY EventsShape
<1>2. PICK n, h, at, v, e : /\ n = hist.due + 1 /\ h = Noted(p, d) /\ v = Cause(p) /\ e = Exited(h, d)
                            /\ hist' = Torn(e, v, d) /\ at = d.rip
  BY <1>1, Zenon
<1>3. Same(hist, h, Adds)
  <2>1. h = hist \/ h = [hist EXCEPT !.due = n]
    BY <1>2 DEF Noted
  <2> QED
    BY <2>1 DEF Seen, Same, IsHist, HistNames, Adds
<1>4. c'.guest = d.guest
  BY <1>1, <1>2 DEF IsCpu, Names
<1>5. Delivery(c, c')
  BY <1>1, StartDelivery
<1>6. Seen(c', e)
  BY <1>2, <1>3, <1>4, <1>5, DeliverySights, DeliveryGuest, SeenOn
<1> QED
  BY <1>2, <1>6, SeenTorn

LEMMA NextSees ==
  ASSUME IsCpu(c), subject = "shadow" => Hosting(c) /\ Seen(c, hist), [Next]_vars
  PROVE  subject' = "shadow" => Seen(c', hist')
<1> SUFFICES ASSUME subject' = "shadow"
             PROVE  Seen(c', hist')
  OBVIOUS
<1>1. subject' = subject
  BY SubjectStays
<1>2. Hosting(c) /\ Seen(c, hist) /\ subject = "shadow" /\ IsHist(hist)
  BY <1>1 DEF Seen
<1>3. CASE RaiseLine
  <2>1. c' = [c EXCEPT !.irq = TRUE] /\ hist' = [hist EXCEPT !.raised = @ + 1]
    BY <1>3 DEF RaiseLine
  <2>2. Agree(c, c', {"irq"}) /\ c'.guest = c.guest
    BY <2>1 DEF Agree, IsCpu, Names
  <2>3. Same(hist, hist', Adds)
    BY <1>2, <2>1 DEF Same, IsHist, HistNames, Adds
  <2>4. hist' = Exited(hist', c')
    BY <2>2 DEF Exited
  <2> QED
    BY <1>2, <2>2, <2>3, <2>4, ApartSights, SeenOn
<1>4. CASE Events
  BY <1>2, <1>4, EventsSeen
<1>5. CASE Park
  <2>1. PICK e, v : Delivery(c, c') /\ e = Exited(hist, c') /\ hist' = Torn(e, v, c')
    BY <1>5, ParkDelivery DEF Park
  <2>2. Seen(c', e)
    BY <1>2, <2>1, DeliverySights, DeliveryGuest, SeenOn DEF Same
  <2> QED
    BY <2>1, <2>2, SeenTorn
<1>6. CASE Guest
  BY <1>2, <1>6, GuestSeen
<1>7. CASE Host
  BY <1>2, <1>7, HostSees
<1>8. CASE UNCHANGED vars
  BY <1>2, <1>8 DEF vars
<1> QED
  BY <1>3, <1>4, <1>5, <1>6, <1>7, <1>8 DEF Next

LEMMA InitSees == Init => (subject = "shadow" => Seen(c, hist))
<1> SUFFICES ASSUME Init, subject = "shadow"
             PROVE  Seen(c, hist)
  OBVIOUS
<1>1. Begins(subject, c) /\ Prepared(c.work)
  BY InitBegins, InitHosting DEF Hosted
<1>2. /\ CR0Fixed \subseteq F(c, Cr0Mask) /\ F(c, GuestCr0) = CR0Fixed
  <2>1. \A e \in Named : F(c, e) = At(c.work, e)
    BY ReadsField, NamedFields DEF F
  <2>2. Cr0Mask \in Named /\ GuestCr0 \in Named
    BY DEF Named
  <2> QED
    BY <1>1, <2>1, <2>2 DEF Prepared
<1>3. c.guest = FALSE /\ c.cr0 = CR0Fixed /\ c.got.lo = {}
  BY <1>1 DEF Begins, Val
<1>4. PICK sees : sees = Masked(c)
  BY Zenon
<1>5. hist = [due |-> 0, ifl |-> FALSE, env |-> "a", sees |-> sees, saw |-> {}, raised |-> 0, ended |-> 0,
              reported |-> 0, owes |-> "none", torn |-> FALSE, steps |-> 0]
  BY <1>4, Zenon DEF Init
<1>6. IsHist(hist) /\ hist.sees = sees /\ hist.saw = {} /\ hist.owes = "none"
  BY <1>5 DEF IsHist, HistNames
<1>7. View(c) = sees
  BY <1>2, <1>3, <1>4 DEF View, Cr0Of, Masked
<1> QED
  BY <1>2, <1>3, <1>6, <1>7 DEF Seen

\* A guest reads of CR0 what it last wrote or was granted, although the bits the hypervisor owns keep their own values
\* (intercept, cr_write_intercept).
THEOREM GuestSeesItsOwn == Spec => []GuestSees
<1> DEFINE Inv == (subject \in Hosted => Hosting(c)) /\ (subject = "shadow" => Seen(c, hist))
<1>1. Init => Inv
  BY InitHosting, InitSees
<1>2. Inv /\ Sound(c) /\ [Next]_vars => Inv'
  <2>1. ASSUME Inv, Sound(c), [Next]_vars
        PROVE  (subject' \in Hosted => Hosting(c')) /\ (subject' = "shadow" => Seen(c', hist'))
    <3>1. IsCpu(c) /\ (subject = "shadow" => Hosting(c) /\ Seen(c, hist))
      BY <2>1 DEF Sound, Hosted
    <3> QED
      BY <2>1, <3>1, NextHosting, NextSees
  <2>2. Inv' <=> (subject' \in Hosted => Hosting(c')) /\ (subject' = "shadow" => Seen(c', hist'))
    BY DEF Hosting, Kept, AtWork, Bare, InHandler, OneFrame, F, Read, Seen, View, Cr0Of, IsHist
  <2> QED
    BY <2>1, <2>2
<1>3. Inv => GuestSees
  BY DEF GuestSees, Seen
<1> QED
  BY <1>1, <1>2, <1>3, AlwaysSound, PTL DEF Spec

-----------------------------------------------------------------------------
(* A program and its handlers, wherever its state is.                        *)

Handlers == Vectors \ {"df"}
Spots == [code : Vectors \cup {"main"}, at : Nat]
FrameSet == [rip : Spots, ifl : BOOLEAN, whole : BOOLEAN]
Irqs(st) == Cardinality({i \in DOMAIN st : st[i].whole /\ st[i].rip.code = "irq"})
(* each frame has what ran under the next: the program under all, handlers in between *)
Chain(st, code) ==
  /\ code \in Handlers \cup {"main"} /\ (code = "main" <=> st = <<>>)
  /\ \A i \in 1..Len(st) : /\ st[i].whole /\ st[i].rip.code \in Handlers \cup {"main"}
                           /\ st[i].rip.code = "main" <=> i = 1
Held(st, rip, ifl, h) == /\ st = <<>> => rip = Place("main", h.due) /\ ifl = h.ifl
                         /\ st # <<>> => st[1].rip = Place("main", h.due) /\ st[1].ifl = h.ifl
Program(st, rip, ifl, h) ==
  /\ st \in Seq(FrameSet) /\ rip \in Spots /\ ifl \in BOOLEAN /\ h.due \in Nat
  /\ Chain(st, rip.code) /\ Held(st, rip, ifl, h)

LEMMA SpotShape ==
  ASSUME NEW r \in Spots
  PROVE  r = [code |-> r.code, at |-> r.at] /\ r.code \in Vectors \cup {"main"} /\ r.at \in Nat
BY DEF Spots
LEMMA PlaceShape ==
  ASSUME NEW v \in Vectors \cup {"main"}, NEW n \in Nat
  PROVE  Place(v, n) \in Spots /\ Place(v, n).code = v /\ Place(v, n).at = n
BY DEF Place, Spots

\* An interrupt whose handler is interrupted is counted by the frame that it returns by.
LEMMA IrqsType ==
  ASSUME NEW st \in Seq(FrameSet)
  PROVE  Irqs(st) \in Nat /\ IsFiniteSet({i \in DOMAIN st : st[i].whole /\ st[i].rip.code = "irq"})
<1>1. DOMAIN st = 1..Len(st) /\ Len(st) \in Nat
  OBVIOUS
<1>2. IsFiniteSet(1..Len(st))
  BY <1>1, FS_Interval
<1>3. {i \in DOMAIN st : st[i].whole /\ st[i].rip.code = "irq"} \in SUBSET (1..Len(st))
  BY <1>1
<1> QED
  BY <1>2, <1>3, FS_Subset, FS_CardinalityType DEF Irqs
LEMMA IrqsNone == Irqs(<<>>) = 0
<1>1. PICK st \in Seq(FrameSet) : st = <<>>
  BY EmptySeq
<1>2. DOMAIN st = 1..0
  BY <1>1
<1>3. {i \in DOMAIN st : st[i].whole /\ st[i].rip.code = "irq"} = {}
  BY <1>2
<1> QED
  BY <1>1, <1>3, FS_EmptySet DEF Irqs
LEMMA IrqsPush ==
  ASSUME NEW st \in Seq(FrameSet), NEW f \in FrameSet, NEW t, t = Append(st, f)
  PROVE  Irqs(t) = Irqs(st) + One(f.whole /\ f.rip.code = "irq")
<1>1. PICK n : n = Len(st)
  OBVIOUS
<1>2. n \in Nat /\ DOMAIN st = 1..n /\ DOMAIN t = 1..(n + 1) /\ t[n + 1] = f /\ \A i \in 1..n : t[i] = st[i]
  BY <1>1
<1>3. PICK S, T : S = {i \in DOMAIN st : st[i].whole /\ st[i].rip.code = "irq"} /\ T = {i \in DOMAIN t : t[i].whole /\ t[i].rip.code = "irq"}
  OBVIOUS
<1>4. IsFiniteSet(S) /\ (n + 1) \notin S /\ Cardinality(S) = Irqs(st) /\ Cardinality(T) = Irqs(t) /\ Irqs(st) \in Nat
  BY <1>2, <1>3, IrqsType DEF Irqs
<1>5. CASE f.whole /\ f.rip.code = "irq"
  <2>1. T = S \cup {n + 1}
    BY <1>2, <1>3, <1>5
  <2> QED
    BY <1>4, <1>5, <2>1, FS_AddElement DEF One
<1>6. CASE ~(f.whole /\ f.rip.code = "irq")
  <2>1. T = S
    BY <1>2, <1>3, <1>6
  <2> QED
    BY <1>4, <1>6, <2>1 DEF One
<1> QED
  BY <1>5, <1>6
LEMMA PopShape ==
  ASSUME NEW st \in Seq(FrameSet), st # <<>>, NEW t, t = SubSeq(st, 1, Len(st) - 1)
  PROVE  /\ t \in Seq(FrameSet) /\ Len(t) = Len(st) - 1 /\ (\A i \in 1..Len(t) : t[i] = st[i])
         /\ st[Len(st)] \in FrameSet /\ Append(t, st[Len(st)]) = st /\ Len(st) \in Nat \ {0}
<1>1. Len(st) \in Nat \ {0} /\ \A i \in 1..Len(st) : st[i] \in FrameSet
  BY EmptySeq
<1>2. t \in Seq(FrameSet) /\ Len(t) = Len(st) - 1 /\ (\A i \in 1..Len(t) : t[i] = st[i])
  <2>1. PICK n \in Nat : n = Len(st) - 1 /\ t = SubSeq(st, 1, n)
    BY <1>1
  <2>2. \A i \in 1..n : st[i] \in FrameSet
    BY <1>1, <2>1
  <2>3. t \in Seq(FrameSet) /\ Len(t) = (IF 1 <= n THEN n - 1 + 1 ELSE 0) /\ \A i \in 1..(n - 1 + 1) : t[i] = st[1 + i - 1]
    BY <2>1, <2>2, SubSeqProperties
  <2> QED
    BY <2>1, <2>3
<1>3. Append(t, st[Len(st)]) = st
  <2>1. PICK u : u = Append(t, st[Len(st)])
    OBVIOUS
  <2>2. u \in Seq(FrameSet) /\ Len(u) = Len(st) /\ \A i \in 1..Len(st) : u[i] = st[i]
    BY <1>1, <1>2, <2>1
  <2> QED
    BY <2>1, <2>2, SeqEqual
<1> QED
  BY <1>1, <1>2, <1>3
LEMMA IrqsPop ==
  ASSUME NEW st \in Seq(FrameSet), st # <<>>, NEW t, t = SubSeq(st, 1, Len(st) - 1), NEW f, f = st[Len(st)], f.whole = TRUE
  PROVE  Irqs(st) = Irqs(t) + One(f.rip.code = "irq")
<1>1. t \in Seq(FrameSet) /\ f \in FrameSet /\ st = Append(t, f)
  BY PopShape
<1> QED
  BY <1>1, IrqsPush

\* An event takes a program into a handler, which will return to it.
LEMMA ProgramPush ==
  ASSUME NEW st, NEW rip, NEW ifl, NEW h, Program(st, rip, ifl, h), NEW v \in Handlers,
         NEW f, f = [rip |-> rip, ifl |-> ifl, whole |-> TRUE], NEW t, t = Append(st, f)
  PROVE  /\ Program(t, Place(v, 0), FALSE, h) /\ f \in FrameSet
         /\ Irqs(t) = Irqs(st) + One(rip.code = "irq")
<1>1. st \in Seq(FrameSet) /\ f \in FrameSet /\ t \in Seq(FrameSet) /\ h.due \in Nat
  BY AppendProperties DEF Program, FrameSet
<1>2. PICK n : n = Len(st)
  OBVIOUS
<1>3. n \in Nat /\ Len(t) = n + 1 /\ t[n + 1] = f /\ (\A i \in 1..n : t[i] = st[i]) /\ t # <<>> /\ (n = 0 <=> st = <<>>)
  BY <1>1, <1>2, EmptySeq, AppendProperties
<1>4. f.rip = rip /\ f.ifl = ifl /\ f.whole = TRUE
  OBVIOUS
<1>5. Irqs(t) = Irqs(st) + One(rip.code = "irq")
  <2>1. (f.whole /\ f.rip.code = "irq") = (rip.code = "irq")
    BY <1>4
  <2> QED
    BY <1>1, <2>1, IrqsPush
<1>6. Place(v, 0) \in Spots /\ Place(v, 0).code = v /\ v # "main"
  BY PlaceShape DEF Handlers, Vectors
<1>7. Chain(t, v)
  <2>1. Chain(st, rip.code)
    BY DEF Program
  <2>2. ASSUME NEW i \in 1..(n + 1)
        PROVE  t[i].whole /\ t[i].rip.code \in Handlers \cup {"main"} /\ (t[i].rip.code = "main" <=> i = 1)
    <3>1. CASE i = n + 1
      BY <1>2, <1>3, <1>4, <2>1, <3>1 DEF Chain
    <3>2. CASE i # n + 1
      <4>1. i \in 1..Len(st) /\ t[i] = st[i]
        BY <1>2, <1>3, <2>2, <3>2
      <4> QED
        BY <2>1, <4>1 DEF Chain
    <3> QED
      BY <3>1, <3>2
  <2> QED
    BY <1>3, <1>6, <2>2 DEF Chain
<1>8. Held(t, Place(v, 0), FALSE, h)
  <2>1. Held(st, rip, ifl, h)
    BY DEF Program
  <2>2. CASE st = <<>>
    BY <1>3, <1>4, <2>1, <2>2 DEF Held
  <2>3. CASE st # <<>>
    <3>1. 1 \in 1..n /\ t[1] = st[1]
      BY <1>3, <2>3
    <3> QED
      BY <1>3, <2>1, <2>3, <3>1 DEF Held
  <2> QED
    BY <2>2, <2>3
<1> QED
  BY <1>1, <1>5, <1>6, <1>7, <1>8 DEF Program

\* A return takes it back.
LEMMA ProgramPop ==
  ASSUME NEW st, NEW rip, NEW ifl, NEW h, Program(st, rip, ifl, h), rip.code \in Handlers,
         NEW f, f = st[Len(st)], NEW t, t = SubSeq(st, 1, Len(st) - 1)
  PROVE  /\ Program(t, f.rip, f.ifl, h) /\ f.rip.code # "df"
         /\ Irqs(st) = Irqs(t) + (IF f.rip.code = "irq" THEN 1 ELSE 0)
<1>1. st \in Seq(FrameSet) /\ st # <<>> /\ Chain(st, rip.code) /\ h.due \in Nat
  BY DEF Program, Chain, Handlers, Vectors
<1>2. /\ t \in Seq(FrameSet) /\ Len(t) = Len(st) - 1 /\ (\A i \in 1..Len(t) : t[i] = st[i])
      /\ f \in FrameSet /\ Len(st) \in Nat \ {0} /\ (Len(t) = 0 <=> t = <<>>)
  <2>1. /\ t \in Seq(FrameSet) /\ Len(t) = Len(st) - 1 /\ (\A i \in 1..Len(t) : t[i] = st[i])
        /\ f \in FrameSet /\ Len(st) \in Nat \ {0}
    BY <1>1, PopShape
  <2> QED
    BY <2>1, EmptySeq
<1>3. f.rip \in Spots /\ f.ifl \in BOOLEAN /\ f.whole = TRUE /\ f.rip.code \in Handlers \cup {"main"} /\ (f.rip.code = "main" <=> Len(st) = 1)
  BY <1>1, <1>2 DEF FrameSet, Chain
<1>4. Chain(t, f.rip.code)
  BY <1>1, <1>2, <1>3 DEF Chain
<1>5. Held(t, f.rip, f.ifl, h)
  BY <1>1, <1>2 DEF Held, Program
<1>6. f.rip.code # "df"
  BY <1>3 DEF Handlers
<1>7. Irqs(st) = Irqs(t) + One(f.rip.code = "irq")
  BY <1>1, <1>3, IrqsPop
<1>8. One(f.rip.code = "irq") = IF f.rip.code = "irq" THEN 1 ELSE 0
  BY DEF One
<1> QED
  BY <1>1, <1>2, <1>3, <1>4, <1>5, <1>6, <1>7, <1>8 DEF Program

\* The program goes on; a handler does.
LEMMA ProgramMoves ==
  ASSUME NEW st, NEW rip, NEW ifl, NEW h, Program(st, rip, ifl, h)
  PROVE  /\ rip.code = "main" => /\ rip = Place("main", h.due) /\ ifl = h.ifl /\ st = <<>>
                                 /\ \A fl \in BOOLEAN : \A g : g.due = h.due + 1 /\ g.ifl = fl =>
                                      Program(st, Place("main", h.due + 1), fl, g)
         /\ rip.code # "main" => \A r \in Spots : r.code = rip.code => Program(st, r, ifl, h)
         /\ \A g : g.due = h.due /\ g.ifl = h.ifl => Program(st, rip, ifl, g)
         /\ rip \in Spots /\ rip.code \in Handlers \cup {"main"} /\ ifl \in BOOLEAN /\ h.due \in Nat
         /\ rip.code \in Handlers => Whole(st)
<1>1. st \in Seq(FrameSet) /\ rip \in Spots /\ ifl \in BOOLEAN /\ h.due \in Nat /\ Chain(st, rip.code) /\ Held(st, rip, ifl, h)
  BY DEF Program
<1>2. rip.code \in Handlers \cup {"main"} /\ (rip.code = "main" <=> st = <<>>)
  BY <1>1 DEF Chain
<1>3. ASSUME rip.code = "main", NEW fl \in BOOLEAN, NEW g, g.due = h.due + 1, g.ifl = fl
      PROVE  Program(st, Place("main", h.due + 1), fl, g)
  <2>1. PICK n, r : n \in Nat /\ n = h.due + 1 /\ r = Place("main", n)
    BY <1>1
  <2>2. r \in Spots /\ r.code = "main" /\ g.due \in Nat
    BY <1>3, <2>1, PlaceShape
  <2>3. st = <<>> /\ Chain(st, r.code)
    BY <1>1, <1>2, <1>3, <2>2
  <2>4. Held(st, r, fl, g)
    BY <1>3, <2>1, <2>3 DEF Held
  <2> QED
    BY <1>1, <1>3, <2>1, <2>2, <2>3, <2>4 DEF Program
<1>4. ASSUME rip.code # "main", NEW r \in Spots, r.code = rip.code
      PROVE  Program(st, r, ifl, h)
  BY <1>1, <1>2, <1>4 DEF Program, Held
<1>5. ASSUME NEW g, g.due = h.due, g.ifl = h.ifl
      PROVE  Program(st, rip, ifl, g)
  BY <1>1, <1>5 DEF Program, Held
<1>6. rip.code \in Handlers => Whole(st)
  <2>1. ASSUME rip.code \in Handlers PROVE Whole(st)
    <3>1. st # <<>> /\ Len(st) \in 1..Len(st)
      BY <1>1, <1>2, <2>1, EmptySeq DEF Handlers, Vectors
    <3> QED
      BY <1>1, <3>1 DEF Chain, Whole
  <2> QED
    BY <2>1
<1> QED
  BY <1>1, <1>2, <1>3, <1>4, <1>5, <1>6 DEF Held

-----------------------------------------------------------------------------
(* A program under a hypervisor, or alone, from one step to the next.         *)

Raisable == {"ud", "gp", "pf", "bp"}
Active(x, s) == x.guest \/ s = "native"
World(s) == IF s = "native" THEN "host" ELSE "guest"
(* what the hypervisor owes, and the event that waits for the next entry *)
Owing(x, h) ==
  LET i == F(x, EntryIntrInfo)
  IN  /\ h.owes \in {"none", "skip", "cr0", "past", "repair", "entry", "burial"}
      /\ Fatal(x) <=> h.owes = "burial"
      /\ x.guest => h.owes = "none"
      /\ h.owes \notin {"none", "entry"} \/ x.guest => i = None
      /\ h.owes = "none" => i = None \/ i = Event("irq", FALSE)
      /\ h.owes = "entry" => \E v \in Raisable : i = Event(v, v = "bp")
      /\ h.owes = "repair" => F(x, ExitIntrInfo) \in Raisable
      /\ h.owes \in {"skip", "cr0", "past"} => F(x, ExitInstrLen) = 1
Awaited(x) == F(x, EntryIntrInfo) # None /\ F(x, EntryIntrInfo).vector = "irq"
Stored(x, s) == ~Active(x, s) /\ F(x, GuestRip).code = "irq"
Counted(x, h, s) ==
  /\ Irqs(x.stack["host"]) \in Nat /\ Irqs(x.stack["guest"]) \in Nat /\ h.ended \in Nat /\ h.reported \in Nat
  /\ h.raised = One(x.irq) + One(Awaited(x)) + One(x.rip.code = "irq") + One(Stored(x, s))
                + Irqs(x.stack["host"]) + Irqs(x.stack["guest"]) + h.ended + h.reported
(* a fault leaves the program at the instruction, a trap behind it *)
Pending(x) ==
  /\ x.rip \in Spots /\ x.start.code = x.rip.code
  /\ \E v \in Raisable : /\ x.pend = Fault(v, {})
                         /\ v = "bp" => x.start.code = "main" /\ x.rip = Place("main", x.start.at + 1)
Living(x, h, s) ==
  /\ Program(x.stack[World(s)], IF x.pend = None THEN x.rip ELSE x.start, x.ifl, h)
  /\ x.pend # None => Pending(x) /\ ~x.halt
  /\ x.env = h.env
Resting(x, h) == Program(x.stack["guest"], F(x, GuestRip), F(x, GuestFlags), h) /\ F(x, GuestEnv) = h.env
Doomed(x, s) == x.pend = None /\ x.ifl = FALSE /\ Whole(x.stack[World(s)])
Life(x, h, s, ph) ==
  /\ IsHist(h) /\ (ph = "exec" => x.start = x.rip /\ x.pend = None /\ ~x.halt)
  /\ s \in Hosted => Owing(x, h)
  /\ s = "native" => x.guest = FALSE /\ F(x, EntryIntrInfo) = None /\ x.stack["guest"] = <<>>
  /\ (s \in Hosted /\ h.owes = "burial") \/ Counted(x, h, s)
  /\ Active(x, s) => IF x.rip.code = "df" THEN Doomed(x, s) ELSE Living(x, h, s)
  /\ ~Active(x, s) /\ h.owes # "burial" => Resting(x, h)

LEMMA OwingOn ==
  ASSUME NEW x, NEW h, Owing(x, h), NEW d, NEW k, d.guest = x.guest, k.owes = h.owes,
         \A g \in {EntryIntrInfo, ExitReason, ExitIntrInfo, ExitInstrLen} : F(d, g) = F(x, g)
  PROVE  Owing(d, k)
<1>1. Fatal(d) <=> Fatal(x)
  BY DEF Fatal
<1> QED
  BY <1>1 DEF Owing

LEMMA CountedOn ==
  ASSUME NEW x, NEW h, NEW s, Counted(x, h, s), NEW d, NEW k, d.guest = x.guest, d.irq = x.irq, d.stack = x.stack,
         (d.rip.code = "irq") = (x.rip.code = "irq"), F(d, EntryIntrInfo) = F(x, EntryIntrInfo), F(d, GuestRip) = F(x, GuestRip),
         k.raised = h.raised, k.ended = h.ended, k.reported = h.reported
  PROVE  Counted(d, k, s)
<1>1. Awaited(d) = Awaited(x) /\ Stored(d, s) = Stored(x, s)
  BY DEF Awaited, Stored, Active
<1> QED
  BY <1>1 DEF Counted

(* the history is as it was, but for the program's own *)
Owns == {"due", "ifl", "env", "sees", "saw", "steps"}

\* A step within a code.
LEMMA LifeStays ==
  ASSUME NEW x, NEW h, NEW s, NEW ph, Life(x, h, s, ph), Active(x, s), NEW d, NEW k, NEW pg,
         d.guest = x.guest, d.work = x.work, d.irq = x.irq, d.stack = x.stack, d.rip.code = x.rip.code,
         Same(h, k, Owns), pg = "exec" => d.start = d.rip /\ d.pend = None /\ ~d.halt,
         IF d.rip.code = "df" THEN Doomed(d, s) ELSE Living(d, k, s)
  PROVE  Life(d, k, s, pg)
<1>1. IsHist(k) /\ k.owes = h.owes /\ k.raised = h.raised /\ k.ended = h.ended /\ k.reported = h.reported
  BY DEF Same, HistNames, Owns
<1>2. \A g : F(d, g) = F(x, g)
  BY SameWork
<1>3. (s \in Hosted /\ k.owes = "burial") \/ Counted(d, k, s)
  BY <1>1, <1>2, CountedOn DEF Life
<1>4. s \in Hosted => Owing(d, k)
  BY <1>1, <1>2, OwingOn DEF Life
<1>5. Active(d, s)
  BY DEF Active
<1> QED
  BY <1>1, <1>2, <1>3, <1>4, <1>5 DEF Life

LEMMA OneType ==
  ASSUME NEW b
  PROVE  /\ One(b) \in {0, 1} /\ (b => One(b) = 1) /\ (~b => One(b) = 0)
         /\ \A e : (b <=> e) => One(b) = One(e)
BY DEF One

LEMMA LifeFields ==
  /\ {EntryIntrInfo, HostRip} \subseteq Field \ (State \cup Told3) /\ {ExitReason, ExitIntrInfo, ExitInstrLen} \subseteq Field
  /\ {GuestRip, GuestFlags, GuestEnv, GuestActivity} \subseteq Field
  /\ EntryIntrInfo \notin {GuestRip, GuestFlags, GuestEnv, GuestActivity, ExitReason, ExitIntrInfo, ExitInstrLen}
<1>1. {EntryIntrInfo, HostRip, ExitReason, ExitIntrInfo, ExitInstrLen, GuestRip, GuestFlags, GuestEnv, GuestActivity} \subseteq Field
  BY NamedFields DEF Named
<1>2. EntryIntrInfo \notin State \cup Told3 /\ HostRip \notin State \cup Told3
  BY DEF EntryIntrInfo, HostRip, State, Told3, GuestCr0, GuestEnv, GuestEfer, GuestRip, GuestFlags, GuestActivity, ExitReason,
     ExitInstrLen, ExitIntrInfo
<1> QED
  BY <1>1, <1>2 DEF State, Told3

\* An exit puts the program away where it goes on, and the hypervisor owes what the reason asks for.
Exiting(y, d, reason, vector, g, r) ==
  /\ Left(y, d, reason, vector) /\ r = (IF reason \in Between THEN y.rip ELSE y.start)
  /\ y.stack["host"] = <<>> /\ F(y, EntryIntrInfo) = None /\ F(y, HostRip) = Place("host", 1)
  /\ reason # "triple" /\ vector # "df" => Program(y.stack["guest"], r, y.ifl, g) /\ y.env = g.env
  /\ reason = "exception" /\ vector # "df" => vector \in Raisable
  /\ reason \notin Between \cup {"exception"} => y.rip.at - y.start.at = 1
  /\ IsHist(g)
  /\ reason # "triple" /\ vector # "df" =>
       /\ Irqs(y.stack["guest"]) \in Nat /\ g.ended \in Nat /\ g.reported \in Nat
       /\ g.raised = One(y.irq) + One(reason = "interrupt" /\ vector = "irq") + One(r.code = "irq")
                     + Irqs(y.stack["guest"]) + g.ended + g.reported
Informs(g, d, k) == /\ Same(g, k, {"owes", "reported"}) /\ k.owes = Owes(d)
                    /\ k.reported = g.reported + (IF Told(d) THEN 1 ELSE 0)
LEMMA LifeExits ==
  ASSUME NEW y, NEW d, NEW reason, NEW vector, NEW g, NEW r, Exiting(y, d, reason, vector, g, r), NEW s \in Hosted,
         NEW k, Informs(g, d, k), NEW ph, ph = "exec" => d.start = d.rip
  PROVE  Life(d, k, s, ph) /\ d.guest = FALSE
<1> USE DEF Exiting, Informs
<1>1. /\ d.guest = FALSE /\ d.pend = None /\ d.halt = FALSE /\ d.rip = Place("host", 1)
      /\ d.irq = y.irq /\ d.stack = y.stack
  BY DEF Left, Home, Agree, Reloaded, Names
<1>2. F(d, EntryIntrInfo) = None
  BY LifeFields DEF Left, Rest
<1>3. /\ F(d, GuestRip) = r /\ F(d, GuestFlags) = y.ifl /\ F(d, GuestEnv) = y.env
      /\ F(d, ExitReason) = reason /\ F(d, ExitIntrInfo) = vector
      /\ F(d, ExitInstrLen) = IF reason \in Between THEN 0 ELSE y.rip.at - y.start.at
  BY DEF Left, Holds
<1>4. /\ IsHist(k) /\ k.due = g.due /\ k.ifl = g.ifl /\ k.env = g.env /\ k.raised = g.raised /\ k.ended = g.ended
  BY DEF Same, HistNames
<1>5. d.rip.code = "host" /\ ~Active(d, s) /\ s # "native"
  BY <1>1 DEF Place, Active, Hosted
<1>6. Owing(d, k)
  <2>1. Fatal(d) <=> reason = "triple" \/ vector = "df"
    BY <1>3 DEF Fatal
  <2>2. k.owes \in {"burial", "repair", "none", "skip"} /\ (k.owes = "burial" <=> Fatal(d))
    BY OwesKinds
  <2>3. ~Fatal(d) => /\ k.owes = "repair" <=> reason = "exception"
                     /\ k.owes = "none" <=> reason \in {"interrupt", "window"}
    BY <1>3 DEF Owes
  <2>4. k.owes = "repair" => F(d, ExitIntrInfo) \in Raisable
    BY <1>3, <2>1, <2>2, <2>3
  <2>5. k.owes = "skip" => F(d, ExitInstrLen) = 1
    <3>1. k.owes = "skip" => reason \notin Between \cup {"exception"}
      BY <2>1, <2>2, <2>3 DEF Between
    <3> QED
      BY <1>3, <3>1
  <2> QED
    BY <1>1, <1>2, <2>2, <2>4, <2>5 DEF Owing
<1>7. k.owes # "burial" => Counted(d, k, s)
  <2> SUFFICES ASSUME k.owes # "burial" PROVE Counted(d, k, s)
    OBVIOUS
  <2>0. reason # "triple" /\ vector # "df"
    BY <1>3, OwesKinds DEF Fatal
  <2>1. ~Awaited(d) /\ (Stored(d, s) <=> r.code = "irq") /\ Irqs(d.stack["host"]) = 0
    BY <1>1, <1>2, <1>3, <1>5, IrqsNone DEF Awaited, Stored
  <2>2. Told(d) <=> reason = "interrupt" /\ vector = "irq"
    BY <1>3 DEF Told
  <2>3. PICK a, b, t, n : /\ a = One(y.irq) /\ b = One(r.code = "irq") /\ n = Irqs(y.stack["guest"])
                          /\ t = One(reason = "interrupt" /\ vector = "irq")
    OBVIOUS
  <2>4. {a, b, t} \subseteq {0, 1}
    BY <2>3, OneType
  <2>5. One(d.irq) = a /\ One(Awaited(d)) = 0 /\ One(d.rip.code = "irq") = 0 /\ One(Stored(d, s)) = b
    BY <1>1, <1>5, <2>1, <2>3, OneType
  <2>6. k.reported = g.reported + t
    BY <2>2, <2>3 DEF One
  <2>7. g.raised = a + t + b + n + g.ended + g.reported
    BY <2>0, <2>3
  <2>8. Irqs(d.stack["guest"]) = n /\ n \in Nat /\ k.raised = g.raised /\ k.ended = g.ended
    BY <1>1, <1>4, <2>0, <2>3
  <2>9. g.ended \in Nat /\ g.reported \in Nat /\ Irqs(d.stack["host"]) = 0
    BY <2>0, <2>1
  <2> HIDE DEF Exiting, Informs
  <2>10. PICK m, o, q, w : m = g.ended /\ o = g.reported /\ q = k.reported /\ w = k.raised
    OBVIOUS
  <2>11. w = a + 0 + 0 + b + 0 + n + m + q /\ q \in Nat
    BY <2>4, <2>6, <2>7, <2>8, <2>9, <2>10
  <2> QED
    BY <2>4, <2>5, <2>8, <2>9, <2>10, <2>11 DEF Counted
<1>8. k.owes # "burial" => Resting(d, k)
  <2>1. k.owes # "burial" => reason # "triple" /\ vector # "df"
    BY <1>3, OwesKinds DEF Fatal
  <2>2. Program(y.stack["guest"], r, y.ifl, g) => Program(y.stack["guest"], r, y.ifl, k)
    BY <1>4, ProgramMoves
  <2> QED
    BY <1>1, <1>3, <1>4, <2>1, <2>2 DEF Resting
<1> QED
  BY <1>1, <1>4, <1>5, <1>6, <1>7, <1>8 DEF Life

(* what is so of a world whose program runs a handler's first instruction *)
Upon(x, s, d, f) == /\ d.stack[World(s)] = Append(x.stack[World(s)], f)
                    /\ \A u \in Worlds \ {World(s)} : d.stack[u] = x.stack[u]
Native(d) == d.guest = FALSE /\ F(d, EntryIntrInfo) = None /\ d.stack["guest"] = <<>>
IrqsOf(x) == Irqs(x.stack["host"]) + Irqs(x.stack["guest"])
IrqsIn(x) == Irqs(x.stack["host"]) \in Nat /\ Irqs(x.stack["guest"]) \in Nat

LEMMA UponIrqs ==
  ASSUME NEW x, IrqsIn(x), NEW s, x.stack[World(s)] \in Seq(FrameSet), NEW f \in FrameSet, NEW d, Upon(x, s, d, f)
  PROVE  IrqsIn(d) /\ IrqsOf(d) = IrqsOf(x) + One(f.whole /\ f.rip.code = "irq")
<1>1. Irqs(d.stack[World(s)]) = Irqs(x.stack[World(s)]) + One(f.whole /\ f.rip.code = "irq")
  BY IrqsPush DEF Upon
<1>2. \A u \in Worlds \ {World(s)} : Irqs(d.stack[u]) = Irqs(x.stack[u])
  BY DEF Upon
<1>3. One(f.whole /\ f.rip.code = "irq") \in {0, 1}
  BY OneType
<1>4. PICK n, a, b, k, m : /\ n = One(f.whole /\ f.rip.code = "irq")
                           /\ a = Irqs(x.stack["host"]) /\ b = Irqs(x.stack["guest"])
                           /\ k = Irqs(d.stack["host"]) /\ m = Irqs(d.stack["guest"])
  OBVIOUS
<1>5. (k = a + n /\ m = b) \/ (k = a /\ m = b + n)
  <2>1. CASE World(s) = "host"
    BY <1>1, <1>2, <1>4, <2>1 DEF Worlds
  <2>2. CASE World(s) = "guest"
    BY <1>1, <1>2, <1>4, <2>2 DEF Worlds
  <2> QED
    BY <2>1, <2>2 DEF World
<1>6. a \in Nat /\ b \in Nat /\ n \in {0, 1}
  BY <1>3, <1>4 DEF IrqsIn
<1> QED
  BY <1>4, <1>5, <1>6 DEF IrqsIn, IrqsOf

(* d is at a handler of v with the interrupts of x and that of the program at r *)
Handling(d, s, g, v) ==
  /\ Active(d, s) /\ d.ifl = FALSE /\ d.rip = Place(v, 0) /\ d.pend = None
  /\ s \in Hosted => Owing(d, g)
  /\ s = "native" => Native(d)
  /\ IsHist(g) /\ g.ended \in Nat /\ g.reported \in Nat
Tally(x, r, d, g, v) ==
  /\ IrqsIn(x)
  /\ g.raised = One(d.irq) + One(v = "irq") + One(Awaited(d)) + One(r.code = "irq") + IrqsOf(x) + g.ended + g.reported

\* The handler of an event that a program has taken.
LEMMA LifePush ==
  ASSUME NEW x, NEW d, NEW s \in Hosted \cup {"native"}, NEW g, NEW r, NEW v \in Handlers,
         Handling(d, s, g, v), Tally(x, r, d, g, v), Program(x.stack[World(s)], r, x.ifl, g), d.env = g.env,
         Upon(x, s, d, [rip |-> r, ifl |-> x.ifl, whole |-> TRUE]),
         NEW ph, ph = "exec" => d.start = d.rip /\ ~d.halt
  PROVE  Life(d, g, s, ph)
<1> USE DEF Handling, Tally
<1>1. PICK f : f = [rip |-> r, ifl |-> x.ifl, whole |-> TRUE]
  OBVIOUS
<1>2. /\ Program(d.stack[World(s)], Place(v, 0), FALSE, g) /\ f \in FrameSet /\ x.stack[World(s)] \in Seq(FrameSet)
      /\ f.whole = TRUE /\ f.rip = r
  <2>1. x.stack[World(s)] \in Seq(FrameSet)
    BY DEF Program
  <2>2. PICK t : t = Append(x.stack[World(s)], f)
    OBVIOUS
  <2>3. Program(t, Place(v, 0), FALSE, g) /\ f \in FrameSet
    BY <1>1, <2>2, ProgramPush
  <2> QED
    BY <1>1, <2>1, <2>2, <2>3 DEF Upon
<1>3. IrqsIn(d) /\ IrqsOf(d) = IrqsOf(x) + One(f.whole /\ f.rip.code = "irq")
  BY <1>1, <1>2, UponIrqs
<1>4. d.rip.code = v /\ v # "df"
  BY PlaceShape DEF Handlers, Place
<1>5. Counted(d, g, s)
  <2>1. PICK a, b, e, t, n, m : /\ a = One(d.irq) /\ b = One(v = "irq") /\ e = One(Awaited(d)) /\ t = One(r.code = "irq")
                                /\ n = Irqs(d.stack["host"]) /\ m = Irqs(d.stack["guest"])
    OBVIOUS
  <2>2. {a, b, e, t} \subseteq {0, 1} /\ One(d.rip.code = "irq") = b /\ One(Stored(d, s)) = 0
    BY <1>4, <2>1, OneType DEF Stored
  <2>3. One(f.whole /\ f.rip.code = "irq") = t
    BY <1>2, <2>1, OneType
  <2>4. n \in Nat /\ m \in Nat /\ IrqsOf(x) + t = n + m /\ IrqsOf(x) \in Nat
    BY <1>3, <2>1, <2>3 DEF IrqsIn, IrqsOf
  <2>5. g.raised = a + e + b + 0 + n + m + g.ended + g.reported
    BY <2>1, <2>2, <2>4
  <2> QED
    BY SMTT(30), <2>1, <2>2, <2>4, <2>5 DEF Counted
<1>6. Living(d, g, s)
  BY <1>2 DEF Living
<1> QED
  BY <1>4, <1>5, <1>6 DEF Life, Hosted, Native

\* The frame that a fault in its pushes has left half done is nobody's to return by.
LEMMA HalfFrame ==
  ASSUME NEW x, IrqsIn(x), NEW s, x.stack[World(s)] \in Seq(FrameSet), NEW r \in Spots, NEW ifl \in BOOLEAN,
         NEW q, Upon(x, s, q, [rip |-> r, ifl |-> ifl, whole |-> FALSE])
  PROVE  IrqsIn(q) /\ IrqsOf(q) = IrqsOf(x) /\ q.stack[World(s)] \in Seq(FrameSet)
<1>1. PICK f : f = [rip |-> r, ifl |-> ifl, whole |-> FALSE]
  OBVIOUS
<1>2. f \in FrameSet /\ ~f.whole
  BY <1>1 DEF FrameSet
<1>3. IrqsIn(q) /\ IrqsOf(q) = IrqsOf(x) + One(f.whole /\ f.rip.code = "irq")
  BY <1>1, <1>2, UponIrqs
<1>4. One(f.whole /\ f.rip.code = "irq") = 0
  BY <1>2 DEF One
<1>6. IrqsOf(x) \in Nat
  BY DEF IrqsIn, IrqsOf
<1>5. q.stack[World(s)] \in Seq(FrameSet)
  <2>1. PICK st, t : st = x.stack[World(s)] /\ t = Append(st, f)
    OBVIOUS
  <2>2. t \in Seq(FrameSet)
    BY <1>2, <2>1, AppendProperties
  <2> QED
    BY <1>1, <2>1, <2>2 DEF Upon
<1> QED
  BY <1>3, <1>4, <1>5, <1>6

\* The handler of a double fault, which does not return.
LEMMA LifeFalls ==
  ASSUME NEW q, NEW d, NEW s \in Hosted \cup {"native"}, NEW g, NEW r \in Spots,
         Handling(d, s, g, "df"), Tally(q, r, d, g, "df"),
         q.stack[World(s)] \in Seq(FrameSet), Upon(q, s, d, [rip |-> r, ifl |-> FALSE, whole |-> TRUE]),
         NEW ph, ph = "exec" => d.start = d.rip /\ ~d.halt
  PROVE  Life(d, g, s, ph)
<1> USE DEF Handling, Tally
<1>1. PICK f : f = [rip |-> r, ifl |-> FALSE, whole |-> TRUE]
  OBVIOUS
<1>2. f \in FrameSet /\ f.whole = TRUE /\ f.rip = r
  BY <1>1 DEF FrameSet
<1>3. IrqsIn(d) /\ IrqsOf(d) = IrqsOf(q) + One(f.whole /\ f.rip.code = "irq")
  BY <1>1, <1>2, UponIrqs
<1>4. d.rip.code = "df"
  BY DEF Place
<1>5. Counted(d, g, s)
  <2>1. PICK a, e, t, n, m : /\ a = One(d.irq) /\ e = One(Awaited(d)) /\ t = One(r.code = "irq")
                             /\ n = Irqs(d.stack["host"]) /\ m = Irqs(d.stack["guest"])
    OBVIOUS
  <2>2. {a, e, t} \subseteq {0, 1} /\ One(d.rip.code = "irq") = 0 /\ One(Stored(d, s)) = 0 /\ One("df" = "irq") = 0
    BY <1>4, <2>1, OneType DEF Stored
  <2>3. One(f.whole /\ f.rip.code = "irq") = t
    BY <1>2, <2>1, OneType
  <2>4. n \in Nat /\ m \in Nat /\ IrqsOf(q) + t = n + m /\ IrqsOf(q) \in Nat
    BY <1>3, <2>1, <2>3 DEF IrqsIn, IrqsOf
  <2>5. g.raised = a + e + 0 + 0 + n + m + g.ended + g.reported
    BY <2>1, <2>2, <2>4
  <2> QED
    BY SMTT(30), <2>1, <2>2, <2>4, <2>5 DEF Counted
<1>6. Doomed(d, s)
  <2>1. PICK st, t, n : st = q.stack[World(s)] /\ t = Append(st, f) /\ n = Len(st)
    OBVIOUS
  <2>2. st \in Seq(FrameSet) /\ n \in Nat
    BY <2>1
  <2>3. t # <<>> /\ Len(t) = n + 1 /\ t[n + 1] = f
    BY <1>2, <2>1, <2>2
  <2>4. Whole(t)
    BY <1>2, <2>3 DEF Whole
  <2> QED
    BY <1>1, <2>1, <2>4 DEF Doomed, Upon
<1> QED
  BY <1>4, <1>5, <1>6 DEF Life, Hosted, Native

(* d has half a frame of v's, and the fault of its pushes pending *)
Halved(z, d, v) == \E y : Gates(z, y, v, FALSE) /\ Agree(y, d, {"pend"}) /\ d.pend = Fault("pf", {"w"})
(* a CPU whose stack has faulted under the delivery of a page fault *)
Half(x, q) ==
  /\ Agree(x, q, {"rip", "ifl", "stack", "pend"}) /\ q.rip = x.start /\ q.ifl = FALSE /\ q.pend = None
  /\ q.stack[Who(x)] = Append(x.stack[Who(x)], [rip |-> x.start, ifl |-> x.ifl, whole |-> FALSE])
  /\ \A u \in Worlds \ {Who(x)} : q.stack[u] = x.stack[u]
Falls(x, q, d) == \/ x.guest /\ Left(q, d, "exception", "df")
                  \/ x.guest /\ \E z : Apart(q, z) /\ Left(z, d, "triple", None)
                  \/ Gates(q, d, "df", TRUE)
                  \/ ~x.guest /\ d.reset

LEMMA FaultAt ==
  ASSUME NEW x, IsCpu(x), NEW f, NEW z, z = AtFault(x, f)
  PROVE  IsCpu(z) /\ Agree(x, z, {"rip"}) /\ z.rip = (IF f.vector \in Traps THEN x.rip ELSE x.start)
<1>1. PICK to : to = IF f.vector \in Traps THEN x.rip ELSE x.start
  BY Zenon
<1>2. z = [x EXCEPT !.rip = to]
  BY <1>1 DEF AtFault
<1> QED
  BY <1>1, <1>2 DEF Agree, IsCpu, Names

LEMMA HalfShape ==
  ASSUME NEW x, IsCpu(x), x.pend = None, NEW z, IsCpu(z), Agree(x, z, {"rip"}), z.rip = x.start,
         NEW h, h = [Entered(z, "pf", 1) EXCEPT !.pend = None], NEW q, q = AtFault(h, Fault("df", {}))
  PROVE  Half(x, q) /\ IsCpu(q)
<1>1. PICK g, f : g = Gated(z, "pf", FALSE) /\ f = Fault("pf", {"w"})
  BY Zenon
<1>2. IsCpu(g) /\ Gates(z, g, "pf", FALSE)
  BY <1>1, GateEffect
<1>3. /\ z.pend = None /\ z.start = x.start /\ z.guest = x.guest /\ z.stack = x.stack /\ z.ifl = x.ifl
      /\ g.pend = None /\ g.start = x.start
  BY <1>2 DEF Gates, Agree, Names
<1>4. h = [[g EXCEPT !.pend = f] EXCEPT !.pend = None]
  BY <1>1, <1>3 DEF Entered, Raised
<1>5. IsCpu(h) /\ Agree(g, h, {"pend"}) /\ h.pend = None /\ h.start = x.start /\ h.stack = g.stack /\ h.ifl = g.ifl
  BY <1>2, <1>3, <1>4 DEF Agree, IsCpu, Names
<1>6. IsCpu(q) /\ Agree(h, q, {"rip"}) /\ q.rip = x.start
  <2>1. Fault("df", {}).vector = "df"
    BY DEF Fault
  <2> QED
    BY <1>5, <2>1, FaultAt DEF Traps
<1>7. Agree(x, q, {"rip", "ifl", "stack", "pend"}) /\ q.stack = g.stack /\ q.ifl = FALSE /\ q.pend = None
  <2>1. PICK N : N = {"rip", "ifl", "stack", "pend"}
    OBVIOUS
  <2>2. Agree(x, z, N) /\ Agree(z, g, N) /\ Agree(g, h, N) /\ Agree(h, q, N)
    BY <1>2, <1>5, <1>6, <2>1 DEF Gates, Agree
  <2>3. Agree(x, q, {"rip", "ifl", "stack", "pend"})
    BY <2>1, <2>2, AgreeTwice
  <2> QED
    BY <1>2, <1>5, <1>6, <2>3 DEF Gates, Agree, Names
<1>8. Who(z) = Who(x) /\ Frame(z, FALSE) = [rip |-> x.start, ifl |-> x.ifl, whole |-> FALSE]
  BY <1>3 DEF Who, Frame
<1> QED
  BY <1>2, <1>3, <1>6, <1>7, <1>8, Zenon DEF Half, Gates

LEMMA PushFault == Fault("pf", {"w"}) # None /\ Fault("pf", {"w"}).vector = "pf"
<1>1. Fault("pf", {"w"}) = [vector |-> "pf", code |-> {"w"}]
  BY DEF Fault
<1>2. Fault("pf", {"w"}) \in [vector : Vectors, code : SUBSET {"w"}]
  BY <1>1 DEF Vectors
<1> QED
  BY <1>1, <1>2, MemoryAssumption

\* An entry into a handler: whole, or with the fault of its pushes pending.
LEMMA EnteredShape ==
  ASSUME NEW z, IsCpu(z), z.pend = None, NEW v, NEW bad, NEW d, d = Entered(z, v, bad)
  PROVE  /\ bad = 0 => Gates(z, d, v, TRUE) /\ d.pend = None
         /\ bad # 0 => Halved(z, d, v)
         /\ IsCpu(d)
<1>1. CASE bad = 0
  <2>1. d = Gated(z, v, TRUE)
    BY <1>1 DEF Entered
  <2>2. IsCpu(d) /\ Gates(z, d, v, TRUE)
    BY <2>1, GateEffect
  <2> QED
    BY <1>1, <2>2 DEF Gates, Agree, Names
<1>2. CASE bad # 0
  <2>1. PICK y, f : y = Gated(z, v, FALSE) /\ f = Fault("pf", {"w"})
    BY Zenon
  <2>2. IsCpu(y) /\ Gates(z, y, v, FALSE)
    BY <2>1, GateEffect
  <2>3. y.pend = None
    BY <2>2 DEF Gates, Agree, Names
  <2>4. d = [y EXCEPT !.pend = f]
    BY <1>2, <2>1, <2>3 DEF Entered, Raised
  <2>5. IsCpu(d) /\ Agree(y, d, {"pend"}) /\ d.pend = f
    BY <2>2, <2>4 DEF Agree, IsCpu, Names
  <2> QED
    BY <1>2, <2>1, <2>2, <2>5, Zenon DEF Halved
<1> QED
  BY <1>1, <1>2

\* A double fault: its own handler, or the end.
LEMMA FallShape ==
  ASSUME NEW x, NEW q, IsCpu(q), q.guest = x.guest, q.pend = None, x.guest => q.idt = Vectors, q.start = q.rip,
         NEW h, NEW e, e = Fault("df", {}), q = AtFault(h, e), NEW n, NEW d, d = DoubleFault(h, n)
  PROVE  Falls(x, q, d)
<1>1. e.vector = "df"
  BY DEF Fault
<1>2. CASE q.guest /\ ExceptionExits(q, e)
  <2>1. d = ExceptionExit(q, e)
    BY <1>2 DEF DoubleFault
  <2>2. PICK y : y = [q EXCEPT !.rip = q.start] /\ IsCpu(y) /\ Left(y, d, "exception", e.vector)
    BY <2>1, ExceptionLeaves, Zenon
  <2>3. y = q
    BY <2>2 DEF IsCpu, Names
  <2> QED
    BY <1>1, <1>2, <2>2, <2>3 DEF Falls
<1>3. CASE ~(q.guest /\ ExceptionExits(q, e))
  <2>1. d = DoubleFaultRaw(q, n)
    BY <1>3 DEF DoubleFault
  <2>2. PICK g : g = Entered(q, "df", n)
    BY Zenon
  <2>3. CASE "df" \notin q.idt
    <3>1. ~q.guest /\ ~x.guest
      BY <2>3 DEF Vectors
    <3>2. d = TripleFault(q)
      BY <2>1, <2>3 DEF DoubleFaultRaw
    <3> QED
      BY <3>1, <3>2, TripleDelivery DEF Falls
  <2>4. CASE "df" \in q.idt /\ n = 0
    <3>1. Gates(q, g, "df", TRUE) /\ g.pend = None
      BY <2>2, <2>4, EnteredShape
    <3>2. d = g
      BY <2>1, <2>2, <2>4, <3>1 DEF DoubleFaultRaw
    <3> QED
      BY <3>1, <3>2 DEF Falls
  <2>5. CASE "df" \in q.idt /\ n # 0
    <3>1. g.pend # None /\ IsCpu(g) /\ Apart(q, g)
      <4>1. Halved(q, g, "df")
        BY <2>2, <2>5, EnteredShape
      <4>2. g.pend # None
        BY <4>1, PushFault DEF Halved
      <4> QED
        BY <2>2, <4>2, EntryApart
    <3>2. PICK z : z = [g EXCEPT !.pend = None]
      BY Zenon
    <3>3. Apart(g, z) /\ IsCpu(z)
      BY <3>1, <3>2, PendApart
    <3>4. Apart(q, z) /\ z.guest = q.guest
      <4>1. Apart(q, z)
        BY <3>1, <3>3, ApartTwice
      <4> QED
        BY <4>1, ApartCpu
    <3>5. d = TripleFault(z)
      BY <2>1, <2>2, <2>5, <3>1, <3>2 DEF DoubleFaultRaw
    <3>6. CASE q.guest
      <4>1. Left(z, d, "triple", None)
        BY <3>3, <3>4, <3>5, <3>6, ExitLeaves DEF TripleFault
      <4> QED
        BY <3>4, <3>6, <4>1, Zenon DEF Falls
    <3>7. CASE ~q.guest
      BY <3>3, <3>4, <3>5, <3>7, TripleDelivery DEF Falls
    <3> QED
      BY <3>6, <3>7
  <2> QED
    BY <2>3, <2>4, <2>5
<1> QED
  BY <1>2, <1>3

(* what the delivery of an event can do: enter its handler, with its frame or half of it, or end in a double fault *)
Handed(x, v, d) == \E z : /\ IsCpu(z) /\ Agree(x, z, {"rip"}) /\ z.rip = (IF v \in Traps THEN x.rip ELSE x.start)
                          /\ Gates(z, d, v, TRUE) \/ (v # "pf" /\ Halved(z, d, v))
Doubled(x, d) == \E q : IsCpu(q) /\ Half(x, q) /\ Falls(x, q, d)
Refused(x, v, d) == \E y : x.guest /\ IsCpu(y) /\ Agree(x, y, {"rip"}) /\ y.rip = x.start /\ Left(y, d, "exception", v)
\* What the delivery of an event does, past its exit (dispatch_exception_raw): a page fault's whose pushes fault is a
\* double fault, another's is left to its handler with the page fault pending.
LEMMA RawShape ==
  ASSUME NEW x, IsCpu(x), x.pend = None, x.guest => x.idt = Vectors, NEW v, v \in Raisable \cup {"irq"}, NEW f, f.vector = v,
         NEW bad, bad \in 0..2, NEW d, d = DispatchRaw(x, f, bad)
  PROVE  Handed(x, v, d) \/ (v = "pf" /\ Doubled(x, d)) \/ (~x.guest /\ d.reset)
<1>1. PICK z : z = AtFault(x, f)
  BY Zenon
<1>2. f.vector = v /\ v \in Vectors /\ v # "df"
  BY DEF Raisable, Vectors
<1>3. IsCpu(z) /\ Agree(x, z, {"rip"}) /\ z.rip = (IF v \in Traps THEN x.rip ELSE x.start)
  BY <1>1, <1>2, FaultAt
<1>4. z.guest = x.guest /\ z.start = x.start /\ z.idt = x.idt /\ z.pend = None
  BY <1>3 DEF Agree, Names
<1>5. CASE v \notin x.idt
  <2>1. ~x.guest /\ ~z.guest
    BY <1>2, <1>4, <1>5
  <2>2. d = TripleFault(z)
    BY <1>1, <1>2, <1>4, <1>5, <2>1 DEF DispatchRaw
  <2> QED
    BY <1>3, <2>1, <2>2, TripleDelivery
<1>6. PICK e : e = Entered(z, v, bad)
  BY Zenon
<1>7. /\ bad = 0 => Gates(z, e, v, TRUE) /\ e.pend = None
      /\ bad # 0 => Halved(z, e, v)
  BY <1>3, <1>4, <1>6, EnteredShape
<1>8. CASE v \in x.idt /\ bad = 0
  <2>1. d = e
    BY <1>1, <1>2, <1>4, <1>6, <1>7, <1>8 DEF DispatchRaw
  <2> QED
    BY <1>3, <1>7, <1>8, <2>1 DEF Handed
<1>9. CASE v \in x.idt /\ bad # 0 /\ v # "pf"
  <2>1. e.pend = Fault("pf", {"w"}) /\ ~Escalates(v, e.pend.vector)
    <3>1. e.pend = Fault("pf", {"w"}) /\ e.pend.vector = "pf"
      BY <1>7, <1>9, PushFault DEF Halved
    <3> QED
      BY <1>9, <3>1 DEF Escalates, Contributory
  <2>2. d = e
    BY <1>1, <1>2, <1>4, <1>6, <1>9, <2>1 DEF DispatchRaw
  <2> QED
    BY <1>3, <1>7, <1>9, <2>2 DEF Handed
<1>10. CASE v \in x.idt /\ bad # 0 /\ v = "pf"
  <2>1. PICK h, n, q, g : h = [Entered(z, "pf", 1) EXCEPT !.pend = None] /\ n = bad - 1 /\ g = Fault("df", {}) /\ q = AtFault(h, g)
    BY Zenon
  <2>2. e = Entered(z, "pf", 1)
    <3>1. bad # 0 /\ 1 # 0
      BY <1>10
    <3> QED
      BY <1>6, <1>10, <3>1, Zenon DEF Entered
  <2>3. e.pend # None /\ Escalates("pf", e.pend.vector)
    <3>1. e.pend = Fault("pf", {"w"}) /\ e.pend # None /\ e.pend.vector = "pf"
      BY <1>7, <1>10, PushFault DEF Halved
    <3> QED
      BY <3>1 DEF Escalates
  <2>4. h = [e EXCEPT !.pend = None]
    BY <2>1, <2>2
  <2>5. d = DoubleFault(h, n)
    <3>1. z.idt = x.idt
      BY <1>4
    <3> QED
      BY <1>1, <1>2, <1>6, <1>10, <2>1, <2>3, <2>4, <3>1 DEF DispatchRaw
  <2>6. Half(x, q) /\ IsCpu(q)
    <3>1. z.rip = x.start
      BY <1>3, <1>10 DEF Traps
    <3> QED
      BY <1>3, <2>1, <3>1, HalfShape
  <2>7. q.guest = x.guest /\ q.start = x.start /\ q.idt = x.idt /\ q.rip = x.start /\ q.pend = None
    BY <2>6 DEF Half, Agree, Names
  <2>8. Falls(x, q, d)
    BY <2>1, <2>5, <2>6, <2>7, FallShape
  <2> QED
    BY <1>10, <2>6, <2>8 DEF Doubled
<1> QED
  BY <1>5, <1>8, <1>9, <1>10

\* What the delivery of an exception does (dispatch_exception).
LEMMA DispatchShape ==
  ASSUME NEW x, IsCpu(x), x.pend = None, x.guest => x.idt = Vectors, NEW v, v \in Raisable, NEW f, f.vector = v,
         NEW bad, bad \in 0..2, NEW d, d = Dispatch(x, f, bad)
  PROVE  Refused(x, v, d) \/ Handed(x, v, d) \/ (v = "pf" /\ Doubled(x, d)) \/ (~x.guest /\ d.reset)
<1>1. PICK z : z = AtFault(x, f)
  BY Zenon
<1>2. IsCpu(z) /\ Agree(x, z, {"rip"})
  BY <1>1, FaultAt
<1>3. CASE x.guest /\ ExceptionExits(x, f)
  <2>1. d = ExceptionExit(z, f)
    BY <1>1, <1>3 DEF Dispatch
  <2>2. PICK y : y = [z EXCEPT !.rip = z.start] /\ IsCpu(y) /\ Left(y, d, "exception", f.vector)
    BY <1>2, <2>1, ExceptionLeaves, Zenon
  <2>3. Agree(z, y, {"rip"}) /\ y.rip = x.start
    BY <1>2, <2>2 DEF Agree, IsCpu, Names
  <2>4. Agree(x, y, {"rip"})
    BY <1>2, <2>3, Zenon DEF Agree
  <2> QED
    BY <1>3, <2>2, <2>3, <2>4 DEF Refused
<1>4. CASE ~(x.guest /\ ExceptionExits(x, f))
  <2>1. d = DispatchRaw(x, f, bad)
    BY <1>4 DEF Dispatch
  <2>2. v \in Raisable \cup {"irq"}
    OBVIOUS
  <2> QED
    BY <2>1, <2>2, RawShape
<1> QED
  BY <1>3, <1>4

(* a program that runs *)
Alive(x, h, s, ph) == /\ IsCpu(x) /\ s \in Hosted \cup {"native"} /\ (s \in Hosted => Hosting(x))
                      /\ Life(x, h, s, ph) /\ Active(x, s)
LEMMA AliveFacts ==
  ASSUME NEW x, NEW h, NEW s, NEW ph, Alive(x, h, s, ph)
  PROVE  /\ IsHist(h) /\ (x.guest => x.idt = Vectors) /\ h.ended \in Nat /\ h.reported \in Nat /\ IrqsIn(x)
         /\ s \in Hosted => /\ x.guest = TRUE /\ x.stack["host"] = <<>> /\ Owing(x, h) /\ h.owes = "none"
                            /\ F(x, HostRip) = Place("host", 1)
         /\ s = "native" => Native(x)
         /\ F(x, EntryIntrInfo) = None /\ ~Awaited(x) /\ ~Stored(x, s) /\ Who(x) = World(s)
         /\ h.raised = One(x.irq) + One(x.rip.code = "irq") + IrqsOf(x) + h.ended + h.reported
         /\ IF x.rip.code = "df" THEN Doomed(x, s) ELSE Living(x, h, s)
<1>1. s \in Hosted \/ s = "native"
  BY DEF Alive
<1>2. s \in Hosted => /\ x.guest = TRUE /\ x.stack["host"] = <<>> /\ Owing(x, h) /\ h.owes = "none"
                      /\ F(x, HostRip) = Place("host", 1) /\ F(x, EntryIntrInfo) = None
  <2>1. ASSUME s \in Hosted
        PROVE  x.guest = TRUE /\ x.stack["host"] = <<>> /\ F(x, HostRip) = Place("host", 1) /\ Owing(x, h)
    BY <2>1 DEF Alive, Active, Hosting, Kept, Hosted, Life
  <2> QED
    BY <2>1 DEF Owing
<1>3. s = "native" => Native(x) /\ F(x, EntryIntrInfo) = None
  BY DEF Alive, Life, Native, Hosted
<1>4. ~Awaited(x) /\ ~Stored(x, s) /\ Who(x) = World(s)
  <2>1. Who(x) = World(s)
    BY <1>1, <1>2, <1>3 DEF Who, World, Hosted, Native
  <2> QED
    BY <1>1, <1>2, <1>3, <2>1 DEF Awaited, Stored, Alive
<1>5. /\ IsHist(h) /\ Counted(x, h, s)
      /\ IF x.rip.code = "df" THEN Doomed(x, s) ELSE Living(x, h, s)
  <2>1. ~(s \in Hosted /\ h.owes = "burial")
    BY <1>2
  <2> QED
    BY <2>1 DEF Alive, Life
<1>6. h.raised = One(x.irq) + One(x.rip.code = "irq") + IrqsOf(x) + h.ended + h.reported
  <2>1. PICK a, b, n, m : /\ a = One(x.irq) /\ b = One(x.rip.code = "irq")
                          /\ n = Irqs(x.stack["host"]) /\ m = Irqs(x.stack["guest"])
    OBVIOUS
  <2>2. {a, b} \subseteq {0, 1} /\ One(Awaited(x)) = 0 /\ One(Stored(x, s)) = 0
    BY <1>4, <2>1, OneType
  <2>3. n \in Nat /\ m \in Nat /\ h.ended \in Nat /\ h.reported \in Nat
        /\ h.raised = a + One(Awaited(x)) + b + One(Stored(x, s)) + n + m + h.ended + h.reported
    BY <1>5, <2>1 DEF Counted
  <2>4. h.raised = a + b + (n + m) + h.ended + h.reported
    BY <2>2, <2>3
  <2> QED
    BY <2>1, <2>4 DEF IrqsOf
<1>7. x.guest => x.idt = Vectors
  BY <1>1, <1>3 DEF Native, Alive, Hosting, Kept
<1> QED
  BY <1>1, <1>2, <1>3, <1>4, <1>5, <1>6, <1>7 DEF Counted, IrqsIn

\* It exits ...
LEMMA AliveExits ==
  ASSUME NEW x, NEW h, NEW s \in Hosted, NEW ph, Alive(x, h, s, ph),
         NEW y, y.work = x.work, y.stack = x.stack, y.env = x.env, y.ifl = x.ifl,
         NEW d, NEW reason, NEW vector, Left(y, d, reason, vector),
         NEW r, r = (IF reason \in Between THEN y.rip ELSE y.start),
         Program(x.stack["guest"], r, x.ifl, h), x.env = h.env, r.code = x.rip.code,
         reason = "exception" => vector \in Raisable,
         reason \notin Between \cup {"exception"} => y.rip.at - y.start.at = 1,
         One(x.irq) = One(y.irq) + One(reason = "interrupt" /\ vector = "irq"),
         NEW k, Informs(h, d, k), NEW pg, pg = "exec" => d.start = d.rip
  PROVE  Life(d, k, s, pg)
<1>1. /\ IsHist(h) /\ h.ended \in Nat /\ h.reported \in Nat /\ IrqsIn(x)
      /\ x.stack["host"] = <<>> /\ F(x, HostRip) = Place("host", 1) /\ F(x, EntryIntrInfo) = None
      /\ h.raised = One(x.irq) + One(x.rip.code = "irq") + IrqsOf(x) + h.ended + h.reported
  BY AliveFacts
<1>2. F(y, HostRip) = Place("host", 1) /\ F(y, EntryIntrInfo) = None
  BY <1>1, SameWork
<1>3. Irqs(y.stack["guest"]) \in Nat /\ IrqsOf(x) = Irqs(y.stack["guest"])
  <2>1. PICK n, m : n = Irqs(x.stack["host"]) /\ m = Irqs(x.stack["guest"])
    OBVIOUS
  <2>2. n = 0 /\ m \in Nat
    BY <1>1, <2>1, IrqsNone DEF IrqsIn
  <2> QED
    BY <2>1, <2>2 DEF IrqsOf
<1>4. h.raised = One(y.irq) + One(reason = "interrupt" /\ vector = "irq") + One(r.code = "irq")
                 + Irqs(y.stack["guest"]) + h.ended + h.reported
  <2>1. PICK a, t, b, n : /\ a = One(y.irq) /\ t = One(reason = "interrupt" /\ vector = "irq") /\ b = One(r.code = "irq")
                          /\ n = Irqs(y.stack["guest"])
    OBVIOUS
  <2>2. {a, t, b} \subseteq {0, 1} /\ One(x.rip.code = "irq") = b
    BY <2>1, OneType
  <2>3. n \in Nat /\ h.raised = (a + t) + b + n + h.ended + h.reported
    BY <1>1, <1>3, <2>1, <2>2
  <2> QED
    BY <1>1, <2>1, <2>2, <2>3
<1>5. y.stack["host"] = <<>> /\ Program(y.stack["guest"], r, y.ifl, h) /\ y.env = h.env
  BY <1>1
<1>6. /\ reason # "triple" /\ vector # "df" => Program(y.stack["guest"], r, y.ifl, h) /\ y.env = h.env
      /\ reason = "exception" /\ vector # "df" => vector \in Raisable
  BY <1>5
<1>7. Irqs(y.stack["guest"]) \in Nat /\ h.ended \in Nat /\ h.reported \in Nat /\ IsHist(h)
  BY <1>1, <1>3
<1> QED
  <2>1. Exiting(y, d, reason, vector, h, r)
    BY <1>2, <1>4, <1>5, <1>6, <1>7, Zenon DEF Exiting
  <2> QED
    BY <2>1, LifeExits

\* ... or takes a handler's first instruction.
LEMMA AliveHandling ==
  ASSUME NEW x, NEW h, NEW s, NEW ph, Alive(x, h, s, ph), NEW q, IrqsIn(q), IrqsOf(q) = IrqsOf(x),
         NEW d, d.work = x.work, d.guest = x.guest, d.ifl = FALSE, d.pend = None, NEW v, d.rip = Place(v, 0),
         s = "native" => d.stack["guest"] = <<>>, NEW r, r.code = x.rip.code, NEW g, Same(h, g, {"due"}),
         One(x.irq) = One(d.irq) + One(v = "irq")
  PROVE  Handling(d, s, g, v) /\ Tally(q, r, d, g, v)
<1>1. /\ h.ended \in Nat /\ h.reported \in Nat /\ (s \in Hosted => Owing(x, h)) /\ (s = "native" => Native(x))
      /\ h.raised = One(x.irq) + One(x.rip.code = "irq") + IrqsOf(x) + h.ended + h.reported /\ ~Awaited(x) /\ IrqsIn(x)
  BY AliveFacts
<1>2. IsHist(g) /\ g.ended = h.ended /\ g.reported = h.reported /\ g.raised = h.raised /\ g.owes = h.owes
  BY DEF Same, HistNames
<1>3. \A e : F(d, e) = F(x, e)
  BY SameWork
<1>4. Active(d, s) /\ ~Awaited(d)
  BY <1>1, <1>3 DEF Active, Alive, Awaited
<1>5. s \in Hosted => Owing(d, g)
  BY <1>1, <1>2, <1>3, OwingOn
<1>6. s = "native" => Native(d)
  BY <1>1, <1>3 DEF Native
<1>7. g.raised = One(d.irq) + One(v = "irq") + One(Awaited(d)) + One(r.code = "irq") + IrqsOf(q) + g.ended + g.reported
  <2>1. PICK a, t, b, n, m : /\ a = One(d.irq) /\ t = One(v = "irq") /\ b = One(r.code = "irq")
                             /\ n = IrqsOf(x)
                             /\ m = One(Awaited(d))
    OBVIOUS
  <2>2. {a, t, b} \subseteq {0, 1} /\ One(x.rip.code = "irq") = b /\ m = 0
    BY <1>4, <2>1, OneType
  <2>3. n \in Nat
    BY <1>1, <2>1 DEF IrqsIn, IrqsOf
  <2>4. h.raised = (a + t) + b + n + h.ended + h.reported
    BY <1>1, <2>1, <2>2
  <2>5. h.raised = a + t + m + b + n + h.ended + h.reported
    BY <1>1, <2>2, <2>3, <2>4
  <2> QED
    BY <1>2, <2>1, <2>5
<1> QED
  BY <1>1, <1>2, <1>4, <1>5, <1>6, <1>7 DEF Handling, Tally

LEMMA ExitedInforms ==
  ASSUME NEW h, IsHist(h), NEW d, NEW k, k = Exited(h, d)
  PROVE  /\ c.guest /\ ~d.guest => Informs(h, d, k)
         /\ ~(c.guest /\ ~d.guest) => k = h
BY ExitedHist DEF Informs

LEMMA InterruptLeaves ==
  ASSUME NEW x, IsCpu(x), x.guest, "extint" \in F(x, PinCtls), NEW bad, NEW d, d = Interrupted(x, bad)
  PROVE  \E y, vector : /\ IsCpu(y) /\ Agree(x, y, {"irq"}) /\ Left(y, d, "interrupt", vector)
                        /\ (vector = "irq" /\ y.irq = FALSE) \/ (vector # "irq" /\ y.irq = x.irq)
<1>1. CASE "ack" \in F(x, ExitCtls)
  <2>1. PICK y : y = [x EXCEPT !.irq = FALSE]
    BY Zenon
  <2>2. IsCpu(y) /\ Agree(x, y, {"irq"}) /\ y.irq = FALSE
    BY <2>1 DEF Agree, IsCpu, Names
  <2>3. Left(y, d, "interrupt", "irq")
    BY <1>1, <2>1, <2>2, ExitLeaves DEF Interrupted, InterruptExit
  <2> QED
    BY <2>2, <2>3
<1>2. CASE "ack" \notin F(x, ExitCtls)
  <2>1. Left(x, d, "interrupt", None)
    BY <1>2, ExitLeaves DEF Interrupted, InterruptExit
  <2>2. None # "irq" /\ Agree(x, x, {"irq"})
    BY MemoryAssumption DEF Vectors, Agree
  <2> QED
    BY <2>1, <2>2
<1> QED
  BY <1>1, <1>2

\* With its pushes faulting, the handler of an interrupt has half a frame, and the page fault is left pending.
LEMMA LineHalves ==
  ASSUME NEW x, IsCpu(x), x.pend = None, ~(x.guest /\ "extint" \in F(x, PinCtls)), NEW bad, bad # 0,
         NEW d, d = Interrupted(x, bad)
  PROVE  \E y : /\ IsCpu(y) /\ Agree(x, y, {"irq"}) /\ y.irq = FALSE /\ Halved(y, d, "irq") /\ d.pend # None
                /\ IsCpu(d)
<1>1. PICK y : y = [x EXCEPT !.irq = FALSE]
  BY Zenon
<1>2. IsCpu(y) /\ Agree(x, y, {"irq"}) /\ y.irq = FALSE /\ y.pend = None
  BY <1>1 DEF Agree, IsCpu, Names
<1>3. d = Entered(y, "irq", bad)
  BY <1>1 DEF Interrupted
<1>4. Halved(y, d, "irq") /\ IsCpu(d)
  BY <1>2, <1>3, EnteredShape
<1>5. d.pend # None
  BY <1>4, PushFault DEF Halved
<1> QED
  BY <1>2, <1>4, <1>5

\* An interrupt is told to the hypervisor, or has its handler (deliver_hardware_interrupt).
LEMMA AliveLine ==
  ASSUME Alive(c, hist, subject, phase), Takes(c), c.pend = None, NEW bad, NEW y, y = Interrupted(c, bad), y.pend = None,
         NEW d, Agree(y, d, {"start", "halt"}), d.halt = FALSE \/ (d.halt = y.halt /\ ~c.halt),
         NEW k, k = Exited(hist, d), NEW pg, pg = "exec" => d.start = d.rip
  PROVE  Life(d, k, subject, pg)
<1>1. /\ IsCpu(c) /\ IsHist(hist) /\ IrqsIn(c) /\ Who(c) = World(subject)
      /\ subject \in Hosted \cup {"native"} /\ (subject = "native" => Native(c)) /\ (subject \in Hosted => c.guest = TRUE)
  BY AliveFacts DEF Alive
<1>2. c.rip.code # "df"
  BY AliveFacts DEF Doomed, Takes
<1>3. Program(c.stack[World(subject)], c.rip, c.ifl, hist) /\ c.env = hist.env
  BY <1>2, AliveFacts DEF Living
<1>4. CASE c.guest /\ "extint" \in F(c, PinCtls)
  <2>1. PICK z, vector : /\ IsCpu(z) /\ Agree(c, z, {"irq"}) /\ Left(z, y, "interrupt", vector)
                         /\ (vector = "irq" /\ z.irq = FALSE) \/ (vector # "irq" /\ z.irq = c.irq)
    BY <1>1, <1>4, InterruptLeaves
  <2>2. y.halt = FALSE /\ y.guest = FALSE /\ IsCpu(y)
    BY <2>1 DEF Left, Home, Agree
  <2>3. Agree(y, d, {"start"}) /\ d.guest = FALSE
    BY <2>2 DEF Agree, Names
  <2>4. Left(z, d, "interrupt", vector)
    BY <2>1, <2>3, LeftStart
  <2>5. subject \in Hosted /\ World(subject) = "guest"
    BY <1>1, <1>4 DEF Native, World, Hosted
  <2>6. /\ z.work = c.work /\ z.stack = c.stack /\ z.env = c.env /\ z.ifl = c.ifl /\ z.rip = c.rip
    BY <2>1 DEF Agree, Names
  <2>7. Informs(hist, d, k)
    BY <1>1, <1>4, <2>3, ExitedInforms
  <2>8. One(c.irq) = One(z.irq) + One("interrupt" = "interrupt" /\ vector = "irq")
    <3>1. One(c.irq) = 1
      BY OneType DEF Takes
    <3>2. One("interrupt" = "interrupt" /\ vector = "irq") = IF vector = "irq" THEN 1 ELSE 0
      BY Zenon DEF One
    <3>3. One(z.irq) = IF vector = "irq" THEN 0 ELSE 1
      BY <2>1, <3>1, OneType
    <3> QED
      BY <3>1, <3>2, <3>3
  <2>9. c.rip = IF "interrupt" \in Between THEN z.rip ELSE z.start
    BY <2>6 DEF Between
  <2>10. "interrupt" \in Between
    BY DEF Between
  <2> QED
    BY <1>3, <2>4, <2>5, <2>6, <2>7, <2>8, <2>9, <2>10, AliveExits
<1>5. CASE ~(c.guest /\ "extint" \in F(c, PinCtls))
  <2>0. bad = 0
    BY <1>1, <1>5, LineHalves
  <2>1. Line(c, y)
    BY <1>1, <1>5, <2>0, LineGates
  <2>2. IsCpu(y) /\ y.halt = c.halt
    BY <2>1 DEF Line, Agree, Names
  <2>3. /\ d.work = c.work /\ d.guest = c.guest /\ d.ifl = FALSE /\ d.pend = None /\ d.rip = Place("irq", 0)
        /\ d.irq = FALSE /\ d.stack = y.stack /\ d.env = c.env /\ ~d.halt
    BY <2>1, <2>2 DEF Line, Agree, Names
  <2>4. Upon(c, subject, d, [rip |-> c.rip, ifl |-> c.ifl, whole |-> TRUE])
    BY <1>1, <2>1, <2>3 DEF Line, Upon
  <2>5. subject = "native" => d.stack["guest"] = <<>>
    BY <1>1, <2>4 DEF Upon, World, Worlds, Native
  <2>6. k = hist
    BY <1>1, <2>3, ExitedInforms
  <2>7. One(c.irq) = One(d.irq) + One("irq" = "irq")
    BY <2>3 DEF One, Takes
  <2>8. Same(hist, hist, {"due"})
    BY <1>1 DEF Same
  <2>9. Handling(d, subject, hist, "irq") /\ Tally(c, c.rip, d, hist, "irq")
    BY <1>1, <2>3, <2>5, <2>7, <2>8, AliveHandling
  <2>10. "irq" \in Handlers
    BY DEF Handlers, Vectors
  <2> QED
    BY <1>1, <1>3, <2>3, <2>4, <2>6, <2>9, <2>10, LifePush
<1> QED
  BY <1>4, <1>5

LEMMA ExitedOn ==
  ASSUME NEW d, NEW e, Agree(d, e, {"start"}), NEW h
  PROVE  Exited(h, e) = Exited(h, d)
<1>1. e.guest = d.guest /\ e.work = d.work
  BY DEF Agree, Names
<1>2. Owes(e) = Owes(d) /\ Told(e) = Told(d)
  <2>1. F(e, ExitReason) = F(d, ExitReason) /\ F(e, ExitIntrInfo) = F(d, ExitIntrInfo)
    BY <1>1, SameWork
  <2> QED
    BY <2>1, Zenon DEF Owes, Told, Fatal
<1> QED
  BY <1>1, <1>2, Zenon DEF Exited

\* A stack that faults under a page fault: its frame is dropped with the program.
LEMMA AliveFalls ==
  ASSUME Alive(c, hist, subject, phase), c.start \in Spots, c.start.code = c.rip.code, c.ifl \in BOOLEAN,
         c.stack[World(subject)] \in Seq(FrameSet), ~c.halt,
         NEW x, Agree(c, x, {"pend"}), NEW q, IsCpu(q), Half(x, q), NEW d, Falls(x, q, d), NEW e, Agree(d, e, {"start"}),
         e.start = e.rip, NEW k, k = Exited(hist, e)
  PROVE  e.reset \/ Life(e, k, subject, "exec")
<1>1. /\ IsCpu(c) /\ IsHist(hist) /\ IrqsIn(c) /\ Who(c) = World(subject)
      /\ subject \in Hosted \cup {"native"} /\ (subject = "native" => Native(c)) /\ hist.ended \in Nat /\ hist.reported \in Nat
      /\ hist.raised = One(c.irq) + One(c.rip.code = "irq") + IrqsOf(c) + hist.ended + hist.reported
  BY AliveFacts DEF Alive
<1>2. subject \in Hosted => c.guest = TRUE /\ c.stack["host"] = <<>> /\ F(c, HostRip) = Place("host", 1) /\ F(c, EntryIntrInfo) = None
  BY AliveFacts
<1>3. x.guest = c.guest /\ x.stack = c.stack /\ x.start = c.start /\ x.ifl = c.ifl /\ Who(x) = World(subject)
  <2>1. x.guest = c.guest /\ x.stack = c.stack /\ x.start = c.start /\ x.ifl = c.ifl
    BY DEF Agree, Names
  <2> QED
    BY <1>1, <2>1 DEF Who
<1>4. Upon(c, subject, q, [rip |-> c.start, ifl |-> c.ifl, whole |-> FALSE])
  BY <1>3 DEF Half, Upon
<1>5. IrqsIn(q) /\ IrqsOf(q) = IrqsOf(c) /\ q.stack[World(subject)] \in Seq(FrameSet)
  BY <1>1, <1>4, HalfFrame
<1>6. /\ q.work = c.work /\ q.guest = c.guest /\ q.irq = c.irq /\ q.start = c.start /\ q.rip = c.start
      /\ q.ifl = FALSE /\ q.pend = None /\ q.halt = c.halt
  BY <1>3 DEF Half, Agree, Names
<1>7. CASE \E z, reason, vector :
             /\ x.guest /\ Left(z, d, reason, vector) /\ (z = q \/ Apart(q, z))
             /\ (reason = "exception" /\ vector = "df") \/ (reason = "triple" /\ vector = None)
  <2>1. PICK z, reason, vector : /\ x.guest /\ Left(z, d, reason, vector) /\ (z = q \/ Apart(q, z))
                                 /\ (reason = "exception" /\ vector = "df") \/ (reason = "triple" /\ vector = None)
    BY <1>7, Zenon
  <2>2. Left(z, e, reason, vector)
    BY <2>1, LeftStart
  <2>3. subject \in Hosted /\ World(subject) = "guest"
    BY <1>1, <1>3, <2>1 DEF Native, World, Hosted
  <2>4. q.stack["host"] = <<>> /\ q.guest
    BY <1>2, <1>3, <1>4, <1>6, <2>1, <2>3 DEF Upon, Worlds
  <2>5. z.work = q.work /\ z.stack["host"] = <<>>
    BY <2>1, <2>4, ApartCpu DEF Apart
  <2>6. F(z, EntryIntrInfo) = None /\ F(z, HostRip) = Place("host", 1)
    BY <1>1, <1>2, <1>6, <2>3, <2>5, SameWork
  <2>7. (reason = "triple" \/ vector = "df") /\ reason \in Between \cup {"exception"}
    BY <2>1 DEF Between
  <2>8. PICK r : r = IF reason \in Between THEN z.rip ELSE z.start
    BY Zenon
  <2>9. Exiting(z, e, reason, vector, hist, r)
    BY <1>1, <2>2, <2>5, <2>6, <2>7, <2>8, Zenon DEF Exiting
  <2>10. e.guest = FALSE
    BY <2>2 DEF Left, Home
  <2>11. Informs(hist, e, k)
    BY <1>1, <1>3, <2>1, <2>10, ExitedInforms
  <2> QED
    BY <2>3, <2>9, <2>11, LifeExits
<1>8. CASE Gates(q, d, "df", TRUE)
  <2>1. Who(q) = World(subject) /\ Frame(q, TRUE) = [rip |-> c.start, ifl |-> FALSE, whole |-> TRUE]
    BY <1>1, <1>6 DEF Who, Frame
  <2>2. /\ e.work = c.work /\ e.guest = c.guest /\ e.ifl = FALSE /\ e.pend = None /\ e.rip = Place("df", 0)
        /\ e.irq = c.irq /\ e.stack = d.stack /\ ~e.halt
    BY <1>6, <1>8 DEF Gates, Agree, Names
  <2>3. Upon(q, subject, e, [rip |-> c.start, ifl |-> FALSE, whole |-> TRUE])
    BY <1>8, <2>1, <2>2 DEF Gates, Upon
  <2>4. subject = "native" => e.stack["guest"] = <<>>
    BY <1>1, <1>4, <2>3 DEF Upon, World, Worlds, Native
  <2>5. k = hist
    BY <1>1, <2>2, ExitedInforms
  <2>6. One(c.irq) = One(e.irq) + One("df" = "irq")
    <3>1. One("df" = "irq") = 0 /\ One(c.irq) \in {0, 1} /\ One(e.irq) = One(c.irq)
      BY <2>2, OneType
    <3> QED
      BY <3>1
  <2>7. Same(hist, hist, {"due"})
    BY <1>1 DEF Same
  <2>8. Handling(e, subject, hist, "df") /\ Tally(q, c.start, e, hist, "df")
    BY <1>1, <1>5, <2>2, <2>4, <2>6, <2>7, AliveHandling
  <2> QED
    BY <1>1, <1>5, <2>2, <2>3, <2>5, <2>8, LifeFalls
<1>9. CASE d.reset
  BY <1>9 DEF Agree, Names
<1> QED
  BY <1>7, <1>8, <1>9 DEF Falls

\* A fault that was raised is delivered at the instruction, and a trap behind it.
LEMMA AliveFault ==
  ASSUME Alive(c, hist, subject, phase), c.pend # None, NEW bad, bad \in Plans(c),
         NEW x, x = [c EXCEPT !.pend = None], NEW d, d = Dispatch(x, c.pend, bad),
         NEW g, g = Noted(c, d),
         NEW e, Agree(d, e, {"start"}), e.start = e.rip, NEW k, k = Exited(g, e), NEW t, t = Torn(k, c.pend.vector, d)
  PROVE  e.reset \/ t.torn \/ Life(e, t, subject, "exec")
<1>1. /\ IsCpu(c) /\ IsHist(hist) /\ (c.guest => c.idt = Vectors) /\ IrqsIn(c) /\ Who(c) = World(subject)
      /\ subject \in Hosted \cup {"native"} /\ (subject = "native" => Native(c)) /\ (subject \in Hosted => c.guest = TRUE)
  BY AliveFacts DEF Alive
<1>2. Living(c, hist, subject) /\ Pending(c) /\ ~c.halt
  BY AliveFacts DEF Doomed, Living
<1>3. Program(c.stack[World(subject)], c.start, c.ifl, hist) /\ c.env = hist.env
  BY <1>2 DEF Living
<1>4. /\ c.start \in Spots /\ c.ifl \in BOOLEAN /\ hist.due \in Nat /\ c.stack[World(subject)] \in Seq(FrameSet)
      /\ c.start.code = c.rip.code
  BY <1>2, <1>3 DEF Program, Pending
<1>5. PICK v \in Raisable : /\ c.pend = Fault(v, {})
                            /\ v = "bp" => c.start.code = "main" /\ c.rip = Place("main", c.start.at + 1)
  BY <1>2 DEF Pending
<1>6. c.pend.vector = v /\ v \in Handlers /\ v # "irq" /\ (v \in Traps <=> v = "bp")
  BY <1>5 DEF Fault, Raisable, Handlers, Vectors, Traps
<1>7. bad \in 0..2
  BY DEF Plans
<1>8. /\ IsCpu(x) /\ Agree(c, x, {"pend"}) /\ x.pend = None /\ x.guest = c.guest /\ x.idt = c.idt /\ x.rip = c.rip
      /\ x.start = c.start
  BY <1>1 DEF Agree, IsCpu, Names
<1>9. \/ Refused(x, v, d) \/ (v = "pf" /\ Doubled(x, d)) \/ d.reset \/ (v # "pf" /\ d.pend # None)
      \/ \E z : IsCpu(z) /\ Agree(x, z, {"rip"}) /\ z.rip = (IF v \in Traps THEN x.rip ELSE x.start) /\ Gates(z, d, v, TRUE)
  <2>1. PICK f : f = c.pend
    OBVIOUS
  <2>2. (x.guest => x.idt = Vectors) /\ f.vector = v /\ d = Dispatch(x, f, bad)
    BY <1>1, <1>6, <1>8, <2>1
  <2>3. Refused(x, v, d) \/ Handed(x, v, d) \/ (v = "pf" /\ Doubled(x, d)) \/ (~x.guest /\ d.reset)
    BY <1>5, <1>7, <1>8, <2>2, DispatchShape
  <2>4. \A z : Halved(z, d, v) => d.pend # None
    BY PushFault DEF Halved
  <2> QED
    BY <2>3, <2>4 DEF Handed
<1>10. /\ Same(hist, g, {"due"}) /\ IsHist(g) /\ (Trapped(c, d) => g.due = hist.due + 1) /\ g.ifl = hist.ifl
       /\ g.env = hist.env /\ (~Trapped(c, d) => g = hist)
  <2>1. PICK n : n = hist.due + 1
    OBVIOUS
  <2>2. IF Trapped(c, d) THEN g = [hist EXCEPT !.due = n] ELSE g = hist
    BY <2>1 DEF Noted
  <2> QED
    BY <1>1, <2>1, <2>2 DEF Same, IsHist, HistNames
<1>15. /\ v = "pf" \/ d.pend = None => t = k
       /\ v # "pf" /\ d.pend # None => t.torn
  <2>1. IsHist(k)
    BY <1>10, ExitedHist DEF Same
  <2> QED
    BY <1>6, <2>1, TornHist
<1>11. CASE Refused(x, v, d)
  <2>1. PICK y : x.guest /\ IsCpu(y) /\ Agree(x, y, {"rip"}) /\ y.rip = x.start /\ Left(y, d, "exception", v)
    BY <1>11 DEF Refused
  <2>2. Left(y, e, "exception", v) /\ e.guest = FALSE /\ d.guest = FALSE /\ d.pend = None
    <3>1. Left(y, e, "exception", v)
      BY <2>1, LeftStart
    <3> QED
      BY <2>1, <3>1 DEF Left, Home
  <2>3. subject \in Hosted /\ World(subject) = "guest"
    BY <1>1, <1>8, <2>1 DEF Native, World, Hosted
  <2>4. g = hist /\ c.guest = TRUE
    BY <1>1, <1>10, <2>2, <2>3 DEF Trapped
  <2>5. Informs(hist, e, k)
    BY <1>1, <2>2, <2>4, ExitedInforms
  <2>6. /\ y.work = c.work /\ y.stack = c.stack /\ y.env = c.env /\ y.ifl = c.ifl /\ y.start = c.start /\ y.irq = c.irq
    BY <1>8, <2>1 DEF Agree, Names
  <2>7. "exception" \notin Between /\ One("exception" = "interrupt" /\ v = "irq") = 0 /\ One(y.irq) = One(c.irq) /\ One(y.irq) \in {0, 1}
    BY <2>6, OneType DEF Between
  <2>8. One(c.irq) = One(y.irq) + One("exception" = "interrupt" /\ v = "irq")
    BY <2>7
  <2>9. c.start = IF "exception" \in Between THEN y.rip ELSE y.start
    BY <2>6, <2>7
  <2> QED
    <3>1. Life(e, k, subject, "exec")
      BY <1>3, <1>4, <2>2, <2>3, <2>5, <2>6, <2>8, <2>9, AliveExits
    <3> QED
      BY <1>15, <2>2, <3>1
<1>12. CASE \E z : /\ IsCpu(z) /\ Agree(x, z, {"rip"}) /\ z.rip = (IF v \in Traps THEN x.rip ELSE x.start)
                   /\ Gates(z, d, v, TRUE)
  <2>1. PICK z : /\ IsCpu(z) /\ Agree(x, z, {"rip"}) /\ z.rip = (IF v \in Traps THEN x.rip ELSE x.start)
                 /\ Gates(z, d, v, TRUE)
    BY <1>12
  <2>2. PICK r : r = z.rip
    OBVIOUS
  <2>3. Program(c.stack[World(subject)], r, c.ifl, g) /\ r.code = c.rip.code
    <3>1. CASE v = "bp"
      <4>1. r = Place("main", c.start.at + 1) /\ c.start.code = "main" /\ r = c.rip
        BY <1>5, <1>6, <1>8, <2>1, <2>2, <3>1
      <4>2. /\ c.start = Place("main", hist.due) /\ c.ifl = hist.ifl
            /\ \A fl \in BOOLEAN : \A h : h.due = hist.due + 1 /\ h.ifl = fl =>
                 Program(c.stack[World(subject)], Place("main", hist.due + 1), fl, h)
        BY <1>3, <4>1, ProgramMoves
      <4>3. r = Place("main", hist.due + 1)
        BY <4>1, <4>2 DEF Place
      <4>4. Trapped(c, d)
        <5>1. d.guest = c.guest
          BY <1>8, <2>1 DEF Gates, Agree, Names
        <5> QED
          BY <1>6, <3>1, <4>1, <5>1 DEF Trapped
      <4>5. g.due = hist.due + 1 /\ g.ifl = c.ifl
        BY <1>10, <4>2, <4>4
      <4> QED
        BY <1>4, <4>1, <4>2, <4>3, <4>5
    <3>2. CASE v # "bp"
      <4>1. r = c.start /\ ~Trapped(c, d)
        BY <1>6, <1>8, <2>1, <2>2, <3>2 DEF Trapped
      <4> QED
        BY <1>3, <1>4, <1>10, <4>1
    <3> QED
      BY <3>1, <3>2
  <2>4. z.stack = c.stack /\ z.ifl = c.ifl /\ z.guest = c.guest /\ Frame(z, TRUE) = [rip |-> r, ifl |-> c.ifl, whole |-> TRUE]
    BY <1>8, <2>1, <2>2 DEF Agree, Names, Frame
  <2>5. /\ e.work = c.work /\ e.guest = c.guest /\ e.ifl = FALSE /\ e.pend = None /\ e.rip = Place(v, 0)
        /\ e.irq = c.irq /\ e.stack = d.stack /\ ~e.halt /\ e.env = c.env
    <3>1. x.work = c.work /\ x.irq = c.irq /\ x.halt = c.halt /\ x.env = c.env
      BY <1>8 DEF Agree, Names
    <3>2. z.work = x.work /\ z.irq = x.irq /\ z.halt = x.halt /\ z.env = x.env /\ z.pend = x.pend
      BY <2>1 DEF Agree, Names
    <3>3. /\ d.work = z.work /\ d.irq = z.irq /\ d.halt = z.halt /\ d.env = z.env /\ d.pend = z.pend /\ d.guest = z.guest
          /\ d.ifl = FALSE /\ d.rip = Place(v, 0)
      BY <2>1 DEF Gates, Agree, Names
    <3>4. /\ e.work = d.work /\ e.irq = d.irq /\ e.halt = d.halt /\ e.env = d.env /\ e.pend = d.pend /\ e.guest = d.guest
          /\ e.ifl = d.ifl /\ e.rip = d.rip /\ e.stack = d.stack
      BY DEF Agree, Names
    <3> QED
      BY <1>2, <1>8, <2>4, <3>1, <3>2, <3>3, <3>4
  <2>6. Upon(c, subject, e, [rip |-> r, ifl |-> c.ifl, whole |-> TRUE])
    <3>1. Who(z) = World(subject)
      BY <1>1, <2>4 DEF Who
    <3> QED
      BY <2>1, <2>4, <2>5, <3>1 DEF Gates, Upon
  <2>7. subject = "native" => e.stack["guest"] = <<>>
    BY <1>1, <2>6 DEF Upon, World, Worlds, Native
  <2>8. k = g
    BY <1>10, <2>5, ExitedInforms
  <2>9. One(c.irq) = One(e.irq) + One(v = "irq")
    <3>1. One(v = "irq") = 0 /\ One(e.irq) = One(c.irq) /\ One(c.irq) \in {0, 1}
      BY <1>6, <2>5, OneType
    <3> QED
      BY <3>1
  <2>10. Handling(e, subject, g, v) /\ Tally(c, r, e, g, v)
    BY <1>1, <1>10, <2>3, <2>5, <2>7, <2>9, AliveHandling
  <2> QED
    <3>1. e.env = g.env
      BY <1>3, <1>10, <2>5
    <3>2. Program(c.stack[World(subject)], r, c.ifl, g) /\ ~e.halt
      BY <2>3, <2>5
    <3> HIDE DEF Alive
    <3>3. Life(e, g, subject, "exec")
      BY <1>1, <1>6, <2>6, <2>10, <3>1, <3>2, LifePush
    <3>4. d.pend = None
      BY <2>5 DEF Agree, Names
    <3> QED
      BY <1>15, <2>8, <3>3, <3>4
<1>13. CASE v = "pf" /\ Doubled(x, d)
  <2>1. PICK q : v = "pf" /\ IsCpu(q) /\ Half(x, q) /\ Falls(x, q, d)
    BY <1>13 DEF Doubled
  <2>2. g = hist
    BY <1>6, <1>10, <2>1 DEF Trapped
  <2> QED
    <3>1. e.reset \/ Life(e, k, subject, "exec")
      BY <1>2, <1>4, <1>8, <2>1, <2>2, AliveFalls
    <3> QED
      BY <1>15, <2>1, <3>1
<1>14. CASE d.reset
  BY <1>14 DEF Agree, Names
<1> QED
  BY <1>9, <1>11, <1>12, <1>13, <1>14, <1>15

\* The events before an instruction.
LEMMA AliveEvents ==
  ASSUME Alive(c, hist, subject, phase), Events
  PROVE  c'.reset \/ hist'.torn \/ Life(c', hist', subject, "exec")
<1>1. /\ IsCpu(c) /\ IsHist(hist) /\ subject \in Hosted \cup {"native"} /\ (subject = "native" => Native(c))
      /\ IF c.rip.code = "df" THEN Doomed(c, subject) ELSE Living(c, hist, subject)
  BY AliveFacts DEF Alive
<1>2. PICK p, poll, bad, d :
        /\ Happens(p, poll, bad, d) /\ IsCpu(p) /\ IsCpu(d) /\ c' = [d EXCEPT !.start = d.rip]
        /\ hist' = Torn(Exited(Noted(p, d), d), Cause(p), d)
        /\ p = c \/ (Left(c, p, "window", None) /\ d = p /\ c.guest /\ c.ifl /\ c.pend = None)
  BY <1>1, EventsShape
<1>3. Agree(d, c', {"start"}) /\ c'.start = c'.rip /\ c'.start = d.rip /\ ~c.halt
  BY <1>2 DEF Agree, IsCpu, Names, Events
<1>5. PICK k : k = Exited(Noted(p, d), c')
  BY Zenon
<1>10. hist' = Torn(k, Cause(p), d)
  BY <1>2, <1>3, <1>5, ExitedOn
<1>11. /\ d.pend = None => hist' = k
       /\ Cause(p) # "pf" /\ d.pend # None => hist'.torn
  <2>1. PICK n : n = hist.due + 1
    OBVIOUS
  <2>2. IF Trapped(p, d) THEN Noted(p, d) = [hist EXCEPT !.due = n] ELSE Noted(p, d) = hist
    BY <2>1, Zenon DEF Noted
  <2>3. IsHist(Noted(p, d))
    BY <1>1, <2>2 DEF IsHist, HistNames
  <2>4. IsHist(k)
    BY <1>5, <2>3, ExitedHist DEF Same
  <2> QED
    BY <1>10, <2>4, TornHist
<1>4. ASSUME ~Trapped(p, d), d.pend = None
      PROVE  hist' = Exited(hist, c')
  BY <1>4, <1>5, <1>11 DEF Noted
<1>6. CASE p # c
  <2>1. Left(c, d, "window", None) /\ d = p /\ c.guest /\ c.ifl /\ c.pend = None
    BY <1>2, <1>6
  <2>2. c.rip.code # "df" /\ subject \in Hosted /\ World(subject) = "guest"
    BY <1>1, <2>1 DEF Doomed, Native, World, Hosted
  <2>3. Program(c.stack["guest"], c.rip, c.ifl, hist) /\ c.env = hist.env
    BY <1>1, <2>1, <2>2 DEF Living
  <2>4. Left(c, c', "window", None) /\ c'.guest = FALSE /\ p.pend = None
    <3>1. Left(c, c', "window", None)
      BY <1>3, <2>1, LeftStart
    <3> QED
      BY <2>1, <3>1 DEF Left, Home
  <2>5. hist' = Exited(hist, c')
    BY <1>4, <2>1, <2>4 DEF Trapped
  <2>6. Informs(hist, c', hist')
    BY <1>1, <2>1, <2>4, <2>5, ExitedInforms
  <2>7. One("window" = "interrupt" /\ None = "irq") = 0 /\ One(c.irq) \in {0, 1} /\ "window" \in Between
    BY OneType DEF Between
  <2>8. c.rip = (IF "window" \in Between THEN c.rip ELSE c.start) /\ One(c.irq) = One(c.irq) + One("window" = "interrupt" /\ None = "irq")
    BY <2>7
  <2> QED
    <3>1. PICK reason, vector : reason = "window" /\ vector = None
      OBVIOUS
    <3>2. /\ Left(c, c', reason, vector) /\ reason \in Between
          /\ One(c.irq) = One(c.irq) + One(reason = "interrupt" /\ vector = "irq")
      BY <2>4, <2>7, <2>8, <3>1
    <3>3. c.rip = IF reason \in Between THEN c.rip ELSE c.start
      BY <3>2
    <3>4. (reason = "exception" => vector \in Raisable) /\ c'.start = c'.rip
      BY <1>3, <3>1
    <3> HIDE DEF Alive
    <3> QED
      BY <2>2, <2>3, <2>6, <3>2, <3>3, <3>4, AliveExits
<1>7. CASE p = c /\ c.pend # None
  <2>1. bad \in Plans(c) /\ d = Dispatch([c EXCEPT !.pend = None], c.pend, bad)
    BY <1>2, <1>7 DEF Happens
  <2>2. PICK g : g = Noted(c, d)
    BY Zenon
  <2>3. k = Exited(g, c') /\ hist' = Torn(k, c.pend.vector, d)
    BY <1>5, <1>7, <1>10, <2>2 DEF Cause
  <2> QED
    BY <1>3, <1>7, <2>1, <2>2, <2>3, AliveFault
<1>8. CASE p = c /\ c.pend = None /\ poll
  <2>1. Takes(c)
    BY <1>2, <1>8 DEF Happens
  <2>2. d = Interrupted(c, bad)
    BY <1>2, <1>8, <2>1 DEF Happens, Delivered
  <2>3. c.rip.code # "df" /\ ~Trapped(p, d)
    BY <1>1, <1>8, <2>1 DEF Takes, Doomed, Trapped
  <2>4. CASE d.pend # None
    BY <1>8, <1>11, <2>4 DEF Cause
  <2>5. CASE d.pend = None
    <3>1. hist' = Exited(hist, c') /\ Agree(d, c', {"start", "halt"}) /\ c'.halt = d.halt
      BY <1>3, <1>4, <2>3, <2>5 DEF Agree, Names
    <3> QED
      BY <1>3, <1>8, <2>1, <2>2, <2>5, <3>1, AliveLine
  <2> QED
    BY <2>4, <2>5
<1>9. CASE p = c /\ c.pend = None /\ ~poll
  <2>1. d = c
    BY <1>2, <1>9 DEF Happens
  <2>2. /\ c'.guest = c.guest /\ c'.work = c.work /\ c'.irq = c.irq /\ c'.stack = c.stack /\ c'.rip = c.rip
        /\ c'.pend = c.pend /\ c'.halt = c.halt /\ c'.ifl = c.ifl /\ c'.env = c.env
    BY <1>3, <2>1 DEF Agree, Names
  <2>3. hist' = hist
    BY <1>4, <1>9, <2>1, <2>2 DEF Exited, Trapped
  <2>4. IF c'.rip.code = "df" THEN Doomed(c', subject) ELSE Living(c', hist', subject)
    BY <1>1, <1>9, <2>2, <2>3 DEF Doomed, Living
  <2>5. Same(hist, hist', Owns)
    BY <1>1, <2>3 DEF Same
  <2> QED
    BY <1>3, <1>9, <2>2, <2>4, <2>5, LifeStays DEF Alive
<1> QED
  BY <1>2, <1>6, <1>7, <1>8, <1>9

\* A parked CPU is woken by an interrupt (run).
LEMMA AlivePark ==
  ASSUME Alive(c, hist, subject, phase), Park
  PROVE  hist'.torn \/ Life(c', hist', subject, phase')
<1>0. PICK bad : c' = [Delivered(c, bad) EXCEPT !.halt = FALSE] /\ Takes(c) /\ c.halt
  BY DEF Park
<1>1. PICK y : y = Interrupted(c, bad)
  BY Zenon
<1>2. c' = [y EXCEPT !.halt = FALSE] /\ Takes(c) /\ c.halt /\ phase' = "event"
  BY <1>0, <1>1 DEF Park, Delivered
<1>3. IsCpu(c) /\ c.pend = None
  <2>1. c.rip.code # "df"
    BY <1>2, AliveFacts DEF Takes, Doomed
  <2> QED
    BY <1>2, <2>1, AliveFacts DEF Living, Alive
<1>4. IsCpu(y)
  BY <1>1, <1>3, InterruptDelivery DEF Delivery, Left, Apart, Agree
<1>5. Agree(y, c', {"start", "halt"}) /\ c'.halt = FALSE
  BY <1>2, <1>4 DEF Agree, IsCpu, Names
<1>6. c'.pend = y.pend
  BY <1>5 DEF Agree, Names
<1>7. IsHist(hist)
  BY AliveFacts
<1>8. PICK k : k = Exited(hist, c') /\ IsHist(k)
  BY <1>7, ExitedHist DEF Same
<1>9. hist' = Torn(k, "irq", c')
  BY <1>8 DEF Park
<1>10. CASE c'.pend # None
  BY <1>8, <1>9, <1>10, TornHist
<1>11. CASE c'.pend = None
  <2>1. hist' = k
    BY <1>8, <1>9, <1>11, TornHist
  <2> QED
    BY <1>1, <1>2, <1>3, <1>5, <1>6, <1>8, <1>11, <2>1, AliveLine
<1> QED
  BY <1>10, <1>11

(* a program at an instruction that is not the end of it *)
AtOne == c.rip.code # "df" /\ (c.rip.code = "main" => c.rip.at < End)
LEMMA AliveAt ==
  ASSUME Alive(c, hist, subject, phase), phase = "exec", c.rip.code # "df"
  PROVE  /\ Program(c.stack[World(subject)], c.rip, c.ifl, hist) /\ c.env = hist.env /\ c.pend = None /\ c.start = c.rip /\ ~c.halt
         /\ c.rip \in Spots /\ c.rip.code \in Handlers \cup {"main"} /\ hist.due \in Nat
         /\ Next1(c) \in Spots /\ Next1(c).code = c.rip.code /\ IsCpu(c) /\ IsHist(hist)
         /\ AtOne => Next1(c).at = c.rip.at + 1
         /\ AtOne /\ c.rip.code = "main" => c.rip.at = hist.due /\ Next1(c) = Place("main", hist.due + 1)
<1>1. IsCpu(c) /\ IsHist(hist) /\ Living(c, hist, subject) /\ c.pend = None /\ c.start = c.rip /\ ~c.halt
  <2>1. Living(c, hist, subject)
    BY AliveFacts
  <2> QED
    BY <2>1 DEF Alive, Life
<1>2. Program(c.stack[World(subject)], c.rip, c.ifl, hist) /\ c.env = hist.env
  BY <1>1 DEF Living
<1>3. /\ c.rip \in Spots /\ c.rip.code \in Handlers \cup {"main"} /\ hist.due \in Nat
      /\ c.rip.code = "main" => c.rip = Place("main", hist.due)
  BY <1>2, ProgramMoves
<1>4. c.rip = [code |-> c.rip.code, at |-> c.rip.at] /\ c.rip.at \in Nat /\ c.rip.code \in Vectors \cup {"main"}
  BY <1>3, SpotShape
<1>5. PICK n : n = IF c.rip.code = "main" /\ c.rip.at = End THEN c.rip.at ELSE c.rip.at + 1
  OBVIOUS
<1>6. n \in Nat /\ (AtOne => n = c.rip.at + 1)
  BY <1>4, <1>5, BoundAssumption DEF AtOne
<1>7. Next1(c) = [code |-> c.rip.code, at |-> n]
  <2>1. c.rip.code # "host"
    BY <1>4 DEF Vectors
  <2>2. Next1(c) = [c.rip EXCEPT !.at = n]
    BY <1>5, <2>1 DEF Next1
  <2> QED
    BY <1>4, <2>2
<1>8. Next1(c) \in Spots /\ Next1(c).code = c.rip.code /\ (AtOne => Next1(c).at = c.rip.at + 1)
  BY <1>4, <1>6, <1>7 DEF Spots
<1>9. AtOne /\ c.rip.code = "main" => c.rip.at = hist.due /\ Next1(c) = Place("main", hist.due + 1)
  BY <1>3, <1>6, <1>7 DEF Place
<1> QED
  BY <1>1, <1>2, <1>3, <1>8, <1>9

\* An instruction is done, of the program or of a handler.
LEMMA AliveRetires ==
  ASSUME Alive(c, hist, subject, phase), phase = "exec", AtOne,
         NEW d, d.guest = c.guest, d.work = c.work, d.irq = c.irq, d.stack = c.stack, d.pend = c.pend, d.rip = Next1(c),
         NEW k, Same(hist, k, Owns), d.env = k.env,
         c.rip.code = "main" => k.due = hist.due + 1 /\ d.ifl = k.ifl /\ d.ifl \in BOOLEAN,
         c.rip.code # "main" => k.due = hist.due /\ k.ifl = hist.ifl /\ d.ifl = c.ifl
  PROVE  Life(d, k, subject, "event")
<1>1. /\ Program(c.stack[World(subject)], c.rip, c.ifl, hist) /\ c.pend = None /\ c.rip.code # "df"
      /\ Next1(c) \in Spots /\ Next1(c).code = c.rip.code
      /\ c.rip.code = "main" => Next1(c) = Place("main", hist.due + 1)
  BY AliveAt DEF AtOne
<1>2. Program(d.stack[World(subject)], d.rip, d.ifl, k)
  <2>1. CASE c.rip.code = "main"
    BY <1>1, <2>1, ProgramMoves
  <2>2. CASE c.rip.code # "main"
    <3>1. Program(c.stack[World(subject)], d.rip, c.ifl, hist)
      BY <1>1, <2>2, ProgramMoves
    <3>2. Program(c.stack[World(subject)], d.rip, c.ifl, k)
      BY <2>2, <3>1, ProgramMoves
    <3> QED
      BY <2>2, <3>2
  <2> QED
    BY <2>1, <2>2
<1>3. Living(d, k, subject) /\ d.rip.code = c.rip.code
  BY <1>1, <1>2 DEF Living
<1> QED
  BY <1>1, <1>3, LifeStays DEF Alive

\* It faults, or traps: the exception waits for the next step.
LEMMA AliveRaises ==
  ASSUME Alive(c, hist, subject, phase), phase = "exec", c.rip.code # "df",
         NEW x, x = c \/ x = Decoded, NEW v \in Raisable, v = "bp" => AtOne /\ c.rip.code = "main" /\ x = Decoded,
         NEW d, d = Raise(x, v)
  PROVE  Life(d, hist, subject, "event") /\ d.guest = c.guest
<1>1. /\ Program(c.stack[World(subject)], c.rip, c.ifl, hist) /\ c.env = hist.env /\ c.pend = None /\ c.start = c.rip /\ ~c.halt
      /\ c.rip \in Spots /\ Next1(c) \in Spots /\ Next1(c).code = c.rip.code /\ IsCpu(c) /\ IsHist(hist)
      /\ AtOne /\ c.rip.code = "main" => c.rip.at = hist.due /\ Next1(c) = Place("main", hist.due + 1)
  BY AliveAt
<1>2. PICK to, f : to = Next1(c) /\ f = Fault(v, {})
  BY Zenon
<1>3. x = c \/ x = [c EXCEPT !.rip = to]
  BY <1>2, Zenon DEF Decoded
<1>4. IsCpu(x) /\ Agree(c, x, {"rip"}) /\ x.rip \in {c.rip, to} /\ (x = Decoded => x.rip = to)
  <2>1. Decoded.rip = Next1(c)
    BY <1>1, DecodedApart
  <2>2. CASE x = c
    BY <1>1, <1>2, <2>1, <2>2 DEF Agree
  <2>3. CASE x = [c EXCEPT !.rip = to]
    BY <1>1, <1>2, <2>1, <2>3 DEF Agree, IsCpu, Names
  <2> QED
    BY <1>3, <2>2, <2>3
<1>5. x.pend = None
  BY <1>1, <1>4 DEF Agree, Names
<1>6. d = [x EXCEPT !.pend = f]
  BY <1>2, <1>5 DEF Raise, Raised
<1>7. IsCpu(d) /\ Agree(x, d, {"pend"}) /\ d.pend = f /\ d.rip = x.rip
  BY <1>4, <1>6 DEF Agree, IsCpu, Names
<1>8. /\ d.guest = c.guest /\ d.work = c.work /\ d.irq = c.irq /\ d.stack = c.stack /\ d.ifl = c.ifl /\ d.env = c.env
      /\ d.start = c.rip /\ ~d.halt
  BY <1>1, <1>4, <1>7 DEF Agree, Names
<1>9. d.rip \in Spots /\ d.rip.code = c.rip.code /\ d.pend # None
  <2>1. Fault(v, {}) \in [vector : Vectors, code : SUBSET {"w"}]
    BY DEF Fault, Raisable, Vectors
  <2>2. d.pend # None
    BY <1>2, <1>7, <2>1, MemoryAssumption
  <2> QED
    BY <1>1, <1>2, <1>4, <1>7, <2>2
<1>10. v = "bp" => d.start.code = "main" /\ d.rip = Place("main", d.start.at + 1)
  BY <1>1, <1>2, <1>4, <1>7, <1>8
<1>11. Pending(d)
  BY <1>2, <1>7, <1>8, <1>9, <1>10 DEF Pending
<1>12. Living(d, hist, subject)
  BY <1>1, <1>8, <1>9, <1>11 DEF Living
<1>13. Same(hist, hist, Owns)
  BY <1>1 DEF Same
<1> QED
  BY <1>8, <1>9, <1>12, <1>13, LifeStays DEF Alive

\* It exits instead: the program stays at it, and its length is reported (vm_exit).
LEMMA AliveLeaves ==
  ASSUME Alive(c, hist, subject, phase), phase = "exec", AtOne, c.guest,
         NEW reason, reason \notin Between \cup {"exception"}, NEW d, d = VmExit(Decoded, reason, None),
         NEW k, k = Exited(hist, d)
  PROVE  Life(d, k, subject, "event")
<1>1. /\ Program(c.stack[World(subject)], c.rip, c.ifl, hist) /\ c.env = hist.env /\ c.start = c.rip
      /\ c.rip \in Spots /\ IsCpu(c) /\ IsHist(hist) /\ Next1(c).at = c.rip.at + 1
  BY AliveAt DEF AtOne
<1>2. PICK y : y = Decoded
  BY Zenon
<1>3. IsCpu(y) /\ y.rip = Next1(c)
  BY <1>1, <1>2, DecodedApart
<1>4. y.work = c.work /\ y.stack = c.stack /\ y.env = c.env /\ y.ifl = c.ifl /\ y.irq = c.irq /\ y.start = c.rip
  <2>1. PICK to : to = Next1(c)
    BY Zenon
  <2>2. y = [c EXCEPT !.rip = to]
    BY <1>2, <2>1, Zenon DEF Decoded
  <2> QED
    BY <1>1, <2>2 DEF IsCpu, Names
<1>5. PICK vector : vector = None
  OBVIOUS
<1>6. Left(y, d, reason, vector) /\ d.guest = FALSE
  <2>1. Left(y, d, reason, vector)
    BY <1>2, <1>3, <1>5, ExitLeaves
  <2> QED
    BY <2>1 DEF Left, Home
<1>7. subject \in Hosted /\ World(subject) = "guest"
  <2>1. subject \in Hosted \cup {"native"} /\ (subject = "native" => Native(c))
    BY AliveFacts DEF Alive
  <2> QED
    BY <2>1 DEF Native, World, Hosted
<1>8. Informs(hist, d, k)
  BY <1>1, <1>6, ExitedInforms
<1>9. y.rip.at - y.start.at = 1
  <2>1. c.rip.at \in Nat
    BY <1>1, SpotShape
  <2> QED
    BY <1>1, <1>3, <1>4, <2>1
<1>10. One(c.irq) = One(y.irq) + One(reason = "interrupt" /\ vector = "irq")
  <2>1. One(reason = "interrupt" /\ vector = "irq") = 0 /\ One(y.irq) = One(c.irq) /\ One(c.irq) \in {0, 1}
    BY <1>4, OneType DEF Between
  <2> QED
    BY <2>1
<1>11. (c.rip = IF reason \in Between THEN y.rip ELSE y.start) /\ (reason = "exception" => vector \in Raisable)
  BY <1>4
<1> HIDE DEF Alive
<1> QED
  BY <1>1, <1>4, <1>6, <1>7, <1>8, <1>9, <1>10, <1>11, AliveExits

LEMMA AliveRuns ==
  ASSUME Alive(c, hist, subject, phase), phase = "exec", AtOne,
         NEW ins, ins.op \notin Between \cup {"exception"}, NEW d, Agree(c, d, {"rip", "halt", "cr0", "got"}), d.rip = Next1(c),
         NEW g, Same(hist, g, {"sees", "saw"}), Runs(ins, d, g)
  PROVE  Life(c', hist', subject, phase')
<1>1. phase' = "event"
  BY DEF Runs, Done
<1>2. CASE c.guest /\ Exits(Decoded, ins)
  <2>1. c' = VmExit(Decoded, ins.op, None) /\ hist' = Exited(hist, c')
    BY <1>2 DEF Runs, Done
  <2> QED
    BY <1>1, <1>2, <2>1, AliveLeaves
<1>3. CASE ~(c.guest /\ Exits(Decoded, ins))
  <2>1. c' = d /\ hist' = Exited(Retired(g), d)
    BY <1>3 DEF Runs, Done
  <2>2. d.guest = c.guest /\ d.work = c.work /\ d.irq = c.irq /\ d.stack = c.stack /\ d.pend = c.pend /\ d.ifl = c.ifl /\ d.env = c.env
    BY DEF Agree, Names
  <2>3. hist' = Retired(g)
    BY <2>1, <2>2 DEF Exited
  <2>4. Same(g, hist', {"due"})
    BY <2>3, RetiredHist DEF Same
  <2>5. Same(hist, hist', Owns) /\ g.due = hist.due /\ hist'.ifl = hist.ifl /\ hist'.env = hist.env
    BY <2>4 DEF Same, HistNames, Owns
  <2>6. c.env = hist.env /\ (c.rip.code = "main" => c.ifl = hist.ifl) /\ c.ifl \in BOOLEAN /\ hist.due \in Nat
    <3>1. Program(c.stack[World(subject)], c.rip, c.ifl, hist) /\ c.env = hist.env
      BY AliveAt DEF AtOne
    <3> QED
      BY <3>1, ProgramMoves
  <2>7. /\ c.rip.code = "main" => hist'.due = hist.due + 1
        /\ c.rip.code # "main" => hist'.due = hist.due
    <3>1. PICK m : m = g.due + 1
      OBVIOUS
    <3>2. c.rip.code = "main" => hist' = [g EXCEPT !.due = m]
      BY <2>3, <3>1 DEF Retired, AtOne
    <3>3. c.rip.code # "main" => hist' = g
      BY <2>3 DEF Retired
    <3> QED
      BY <2>5, <3>1, <3>2, <3>3 DEF Same, IsHist, HistNames
  <2>8. Life(d, hist', subject, "event")
    BY <2>2, <2>5, <2>6, <2>7, AliveRetires
  <2> QED
    BY <1>1, <2>1, <2>8
<1> QED
  BY <1>2, <1>3

(* a return, by the frame on top of a world's stack *)
Returns(x, d, w, t, f) ==
  /\ Agree(x, d, {"rip", "ifl", "stack"}) /\ d.rip = f.rip /\ d.ifl = f.ifl /\ d.stack[w] = t
  /\ \A u \in Worlds \ {w} : d.stack[u] = x.stack[u]
LEMMA IretEffect ==
  ASSUME IsCpu(c), IsHist(hist), Iret, NEW w, w = Who(c), NEW st, st = c.stack[w], NEW f, f = st[Len(st)], f.whole,
         NEW t, t = SubSeq(st, 1, Len(st) - 1)
  PROVE  /\ Returns(c, c', w, t, f) /\ Same(hist, hist', {"ended"}) /\ c.rip.code \in Handlers /\ phase' = "event"
         /\ hist'.ended = hist.ended + (IF c.rip.code = "irq" THEN 1 ELSE 0)
<1>1. PICK n : n = hist.ended + (IF c.rip.code = "irq" THEN 1 ELSE 0)
  BY Zenon
<1>2. PICK g : g = [hist EXCEPT !.ended = n]
  BY Zenon
<1>3. /\ c' = [c EXCEPT !.rip = f.rip, !.ifl = f.ifl, !.stack[w] = t] /\ hist' = Exited(g, c') /\ phase' = "event"
      /\ c.rip.code \in Handlers
  <2>1. PICK u, e, more, rip, ifl : Pops(u, e, more, rip, ifl)
    BY IretPops
  <2>2. u = w /\ e = f /\ more = t /\ rip = f.rip /\ ifl = f.ifl
    <3>1. u = w
      BY <2>1 DEF Pops
    <3>2. e = f /\ more = t
      BY <2>1, <3>1 DEF Pops
    <3> QED
      BY <2>1, <3>1, <3>2 DEF Pops
  <2>3. /\ c' = [c EXCEPT !.rip = rip, !.ifl = ifl, !.stack[u] = more]
        /\ hist' = Exited([hist EXCEPT !.ended = @ + (IF c.rip.code = "irq" THEN 1 ELSE 0)], c')
    BY <2>1, Zenon DEF Pops
  <2>4. hist' = Exited(g, c')
    BY <1>1, <1>2, <2>3, Zenon
  <2>5. phase' = "event" /\ c.rip.code \in Handlers
    BY Zenon DEF Iret, Done, Handlers
  <2> QED
    BY <2>2, <2>3, <2>4, <2>5, Zenon
<1>4. PICK s, to, fl : s = [c.stack EXCEPT ![w] = t] /\ to = f.rip /\ fl = f.ifl
  BY Zenon
<1>5. c' = [c EXCEPT !.rip = to, !.ifl = fl, !.stack = s]
  BY <1>3, <1>4, Zenon
<1>6. w \in Worlds
  BY DEF Who, Worlds
<1>7. s = [u \in Worlds |-> s[u]] /\ s[w] = t /\ \A u \in Worlds \ {w} : s[u] = c.stack[u]
  BY <1>4, <1>6 DEF IsCpu
<1>8. Agree(c, c', {"rip", "ifl", "stack"}) /\ c'.rip = to /\ c'.ifl = fl /\ c'.stack = s /\ c'.guest = c.guest
  BY <1>5, <1>7 DEF Agree, IsCpu, Names
<1>9. Returns(c, c', w, t, f)
  BY <1>4, <1>7, <1>8 DEF Returns
<1>10. hist' = g
  BY <1>3, <1>8 DEF Exited
<1>11. Same(hist, hist', {"ended"}) /\ hist'.ended = n
  BY <1>2, <1>10 DEF Same, IsHist, HistNames
<1> QED
  BY <1>1, <1>3, <1>9, <1>11

\* A handler returns to the program, or to the handler it interrupted.
LEMMA AliveReturns ==
  ASSUME Alive(c, hist, subject, phase), phase = "exec", Iret
  PROVE  Life(c', hist', subject, phase')
<1>1. /\ IsCpu(c) /\ IsHist(hist) /\ hist.ended \in Nat /\ hist.reported \in Nat /\ IrqsIn(c) /\ ~Awaited(c)
      /\ Who(c) = World(subject) /\ (subject \in Hosted => Owing(c, hist)) /\ (subject = "native" => Native(c))
      /\ hist.raised = One(c.irq) + One(c.rip.code = "irq") + IrqsOf(c) + hist.ended + hist.reported
  BY AliveFacts DEF Alive
<1>2. PICK w, st : w = World(subject) /\ st = c.stack[w]
  BY Zenon
<1>3. PICK f, t : f = st[Len(st)] /\ t = SubSeq(st, 1, Len(st) - 1)
  BY Zenon
<1>0. c.rip.code \in Handlers
  BY DEF Iret, Handlers
<1>5. Program(st, c.rip, c.ifl, hist) /\ c.env = hist.env /\ c.pend = None
  BY <1>0, <1>2, AliveAt DEF Handlers
<1>15. f.whole
  <2>1. PICK n : n = Len(st)
    OBVIOUS
  <2>2. st \in Seq(FrameSet) /\ st # <<>> /\ \A i \in 1..n : st[i].whole
    BY <1>0, <1>5, <2>1 DEF Program, Chain, Handlers, Vectors
  <2>3. n \in 1..n
    BY <2>1, <2>2
  <2> QED
    BY <1>3, <2>1, <2>2, <2>3
<1>4. /\ Returns(c, c', w, t, f) /\ Same(hist, hist', {"ended"}) /\ c.rip.code \in Handlers /\ phase' = "event"
      /\ hist'.ended = hist.ended + (IF c.rip.code = "irq" THEN 1 ELSE 0)
  BY <1>1, <1>2, <1>3, <1>15, IretEffect
<1>6. Program(t, f.rip, f.ifl, hist) /\ f.rip.code # "df" /\ Irqs(st) = Irqs(t) + (IF f.rip.code = "irq" THEN 1 ELSE 0)
  <2>1. PICK r, ifl : r = c.rip /\ ifl = c.ifl
    OBVIOUS
  <2>2. Program(st, r, ifl, hist) /\ r.code \in Handlers
    BY <1>4, <1>5, <2>1
  <2> QED
    BY <1>3, <2>2, ProgramPop
<1>7. /\ c'.work = c.work /\ c'.guest = c.guest /\ c'.irq = c.irq /\ c'.pend = None /\ c'.env = c.env
      /\ c'.rip = f.rip /\ c'.ifl = f.ifl /\ c'.stack[w] = t
      /\ \A u \in Worlds \ {w} : c'.stack[u] = c.stack[u]
  BY <1>4, <1>5 DEF Returns, Agree, Names
<1>8. /\ IsHist(hist') /\ hist'.due = hist.due /\ hist'.ifl = hist.ifl /\ hist'.env = hist.env /\ hist'.owes = hist.owes
      /\ hist'.raised = hist.raised /\ hist'.reported = hist.reported
  BY <1>4 DEF Same, HistNames
<1>9. Program(t, f.rip, f.ifl, hist')
  BY <1>6, <1>8, ProgramMoves
<1>10. Living(c', hist', subject)
  BY <1>2, <1>5, <1>7, <1>8, <1>9 DEF Living
<1>11. Active(c', subject) /\ (\A g : F(c', g) = F(c, g))
  BY <1>7, SameWork DEF Active, Alive
<1>12. subject \in Hosted => Owing(c', hist')
  BY <1>1, <1>7, <1>8, <1>11, OwingOn
<1>13. subject = "native" => Native(c')
  BY <1>1, <1>2, <1>7, <1>11 DEF Native, World, Worlds
<1>14. Counted(c', hist', subject)
  <2>1. PICK a, b, i, n, m, p, q :
          /\ a = One(c.irq) /\ b = One(f.rip.code = "irq") /\ i = One(c.rip.code = "irq")
          /\ n = Irqs(c.stack["host"]) /\ m = Irqs(c.stack["guest"])
          /\ p = Irqs(c'.stack["host"]) /\ q = Irqs(c'.stack["guest"])
    OBVIOUS
  <2>2. {a, b, i} \subseteq {0, 1} /\ hist'.ended = hist.ended + i
    BY <1>4, <2>1, OneType DEF One
  <2>3. Irqs(t) \in Nat
    BY <1>6, IrqsType DEF Program
  <2>10. b = IF f.rip.code = "irq" THEN 1 ELSE 0
    BY <2>1 DEF One
  <2>4. (n = p + b /\ m = q) \/ (n = p /\ m = q + b)
    BY <1>2, <1>6, <1>7, <2>1, <2>10 DEF World, Worlds
  <2>5. n \in Nat /\ m \in Nat /\ p \in Nat /\ q \in Nat
    BY <1>1, <1>2, <1>7, <2>1, <2>3 DEF IrqsIn, World, Worlds
  <2>6. One(Awaited(c')) = 0 /\ One(Stored(c', subject)) = 0 /\ One(c'.irq) = a /\ One(c'.rip.code = "irq") = b
    <3>1. ~Awaited(c') /\ ~Stored(c', subject)
      BY <1>1, <1>11 DEF Awaited, Stored
    <3> QED
      BY <1>7, <2>1, <3>1, OneType
  <2>7. hist.raised = a + i + (n + m) + hist.ended + hist.reported
    BY <1>1, <2>1 DEF IrqsOf
  <2>8. PICK e, o, k : e = hist.ended /\ o = hist.reported /\ k = hist'.ended
    OBVIOUS
  <2>9. hist'.raised = a + 0 + b + 0 + p + q + k + o /\ k \in Nat
    BY <1>1, <1>8, <2>2, <2>4, <2>5, <2>7, <2>8
  <2> QED
    BY <1>1, <1>8, <2>1, <2>5, <2>6, <2>8, <2>9 DEF Counted
<1> QED
  BY <1>4, <1>6, <1>7, <1>8, <1>10, <1>11, <1>12, <1>13, <1>14 DEF Life, Native

LEMMA CrActs ==
  ASSUME Cr0Acts, NEW y, y = Decoded
  PROVE  \E ins, d, g : /\ ins.op \in {"tocr0", "fromcr0", "clts", "lmsw"} /\ Runs(ins, d, g)
                        /\ (\E b : d = [y EXCEPT !.cr0 = b]) \/ (\E b : d = [y EXCEPT !.got = b])
                        /\ (\E b : g = [hist EXCEPT !.sees = b]) \/ (\E b : g = [hist EXCEPT !.saw = b])
<1>1. CASE WritesCr0
  <2>1. PICK v \in Bits : Runs([op |-> "tocr0", arg |-> v], [y EXCEPT !.cr0 = Owned(c, v)], [hist EXCEPT !.sees = v])
    BY <1>1, Zenon DEF WritesCr0
  <2>2. PICK ins, d, g, b : /\ ins = [op |-> "tocr0", arg |-> v] /\ b = Owned(c, v) /\ d = [y EXCEPT !.cr0 = b]
                            /\ g = [hist EXCEPT !.sees = v] /\ Runs(ins, d, g)
    BY <2>1, Zenon
  <2>3. ins.op = "tocr0"
    BY <2>2
  <2> QED
    BY <2>2, <2>3
<1>2. CASE ReadsCr0
  <2>1. Runs(Op("fromcr0"), [y EXCEPT !.got = Val(Masked(c))], [hist EXCEPT !.saw = hist.sees])
    BY <1>2, Zenon DEF ReadsCr0
  <2>2. PICK ins, d, g, b, e : /\ ins = Op("fromcr0") /\ b = Val(Masked(c)) /\ d = [y EXCEPT !.got = b]
                               /\ e = hist.sees /\ g = [hist EXCEPT !.saw = e] /\ Runs(ins, d, g)
    BY <2>1, Zenon
  <2>3. ins.op = "fromcr0"
    BY <2>2 DEF Op
  <2> QED
    BY <2>2, <2>3
<1>3. CASE Clts
  <2>1. Runs(Op("clts"), [y EXCEPT !.cr0 = @ \ {"TS"}], [hist EXCEPT !.sees = @ \ {"TS"}])
    BY <1>3, Zenon DEF Clts
  <2>2. PICK ins, d, g, b, e : /\ ins = Op("clts") /\ b = y.cr0 \ {"TS"} /\ d = [y EXCEPT !.cr0 = b]
                               /\ e = hist.sees \ {"TS"} /\ g = [hist EXCEPT !.sees = e] /\ Runs(ins, d, g)
    BY <2>1, Zenon
  <2>3. ins.op = "clts"
    BY <2>2 DEF Op
  <2> QED
    BY <2>2, <2>3
<1>4. CASE Lmsw
  <2>1. PICK v \in Bits : Runs([op |-> "lmsw", arg |-> v], [y EXCEPT !.cr0 = Loaded(@, v)], [hist EXCEPT !.sees = Loaded(@, v)])
    BY <1>4, Zenon DEF Lmsw
  <2>2. PICK ins, d, g, b, e : /\ ins = [op |-> "lmsw", arg |-> v] /\ b = Loaded(y.cr0, v) /\ d = [y EXCEPT !.cr0 = b]
                               /\ e = Loaded(hist.sees, v) /\ g = [hist EXCEPT !.sees = e] /\ Runs(ins, d, g)
    BY <2>1, Zenon
  <2>3. ins.op = "lmsw"
    BY <2>2
  <2> QED
    BY <2>2, <2>3
<1> QED
  BY <1>1, <1>2, <1>3, <1>4 DEF Cr0Acts

\* An instruction of a program or of its handlers.
LEMMA AliveGuest ==
  ASSUME Alive(c, hist, subject, phase), Guest
  PROVE  Life(c', hist', subject, phase')
<1>1. phase = "exec" /\ phase' = "event"
  BY Zenon DEF Guest, Defers, FetchFaults, Faults, Int3, Spins, SetFlag, SetEnv, Halts, Others, Ports, Handles, Iret, WritesCr0, ReadsCr0,
     Clts, Lmsw, Runs, Done
<1>2. IsCpu(c) /\ IsHist(hist)
  BY AliveFacts DEF Alive
<1>3. PICK y : y = Decoded
  BY Zenon
<1>4. IsCpu(y) /\ Agree(c, y, {"rip"}) /\ y.rip = Next1(c)
  <2>1. PICK to : to = Next1(c)
    BY Zenon
  <2>2. y = [c EXCEPT !.rip = to]
    BY <1>3, <2>1, Zenon DEF Decoded
  <2> QED
    BY <1>2, <2>1, <2>2 DEF Agree, IsCpu, Names
<1>5. Same(hist, hist, Owns) /\ Same(hist, hist, {"sees", "saw"})
  BY <1>2 DEF Same
<1>6. (c.rip.code = "main" /\ c.rip.at < End) \/ c.rip.code \in {"irq", "ud"} => AtOne
  BY DEF AtOne
<1>7. ASSUME NEW d, NEW h, d.guest = c.guest, Done(d, h)
      PROVE  c' = d /\ hist' = h
  BY <1>7 DEF Done, Exited
<1>8. ASSUME NEW x, x = c \/ x = Decoded, NEW v \in Raisable, c.rip.code # "df",
             v = "bp" => AtOne /\ c.rip.code = "main" /\ x = Decoded, Done(Raise(x, v), hist)
      PROVE  Life(c', hist', subject, phase')
  <2>1. PICK d : d = Raise(x, v)
    BY Zenon
  <2>2. Life(d, hist, subject, "event") /\ d.guest = c.guest
    BY <1>1, <1>8, <2>1, AliveRaises
  <2> QED
    BY <1>1, <1>7, <1>8, <2>1, <2>2
<1>9. ASSUME NEW ins, ins.op \notin Between \cup {"exception"}, AtOne, NEW d, Agree(y, d, {"halt", "cr0", "got"}),
             NEW g, Same(hist, g, {"sees", "saw"}), Runs(ins, d, g)
      PROVE  Life(c', hist', subject, phase')
  <2>1. d.rip = Next1(c) /\ Agree(c, d, {"rip", "halt", "cr0", "got"})
    BY <1>4, <1>9 DEF Agree, Names
  <2> QED
    BY <1>1, <1>9, <2>1, AliveRuns
<1>22. ~Defers
  BY <1>1 DEF Defers, Alive, Life
<1>10. CASE FetchFaults
  <2>1. c.rip.code = "main" /\ Done(Raise(c, "pf"), hist) /\ "pf" \in Raisable
    BY <1>10 DEF FetchFaults, Free, InMain, Raisable
  <2> QED
    BY <1>8, <2>1
<1>11. CASE Faults
  <2>1. PICK v \in {"ud", "gp", "pf"} : Done(Raise(Decoded, v), hist)
    BY <1>11, Zenon DEF Faults
  <2>2. c.rip.code \in {"main", "irq", "ud"} /\ v \in Raisable /\ v # "bp"
    BY <1>11 DEF Faults, Free, InMain, Raisable
  <2> QED
    BY <1>8, <2>1, <2>2
<1>12. CASE Int3
  <2>1. c.rip.code = "main" /\ AtOne /\ Done(Raise(Decoded, "bp"), hist) /\ "bp" \in Raisable
    BY <1>6, <1>12 DEF Int3, Free, InMain, Raisable
  <2> QED
    BY <1>8, <2>1
<1>13. CASE Spins
  <2>1. c' = c /\ hist' = hist
    <3>1. Done(c, hist)
      BY <1>13 DEF Spins
    <3> QED
      BY <1>7, <3>1
  <2>2. IF c.rip.code = "df" THEN Doomed(c, subject) ELSE Living(c, hist, subject)
    BY AliveFacts
  <2> QED
    BY <1>1, <1>5, <2>1, <2>2, LifeStays DEF Alive
<1>14. CASE SetFlag
  <2>1. PICK v, g, d : /\ v \in BOOLEAN /\ g = [hist EXCEPT !.ifl = v] /\ d = [y EXCEPT !.ifl = v] /\ Done(d, Retired(g))
    BY <1>3, <1>14, Zenon DEF SetFlag
  <2>2. AtOne /\ c.rip.code = "main" /\ c.rip.at < End
    BY <1>6, <1>14 DEF SetFlag, Free, InMain
  <2>3. /\ d.guest = c.guest /\ d.work = c.work /\ d.irq = c.irq /\ d.stack = c.stack /\ d.pend = c.pend /\ d.rip = Next1(c)
        /\ d.env = c.env /\ d.ifl = v
    BY <1>4, <2>1 DEF Agree, IsCpu, Names
  <2>4. c' = d /\ hist' = Retired(g)
    BY <1>7, <2>1, <2>3
  <2>5. PICK m : m = hist.due + 1
    OBVIOUS
  <2>6. hist' = [[hist EXCEPT !.ifl = v] EXCEPT !.due = m]
    <3>1. g.due = hist.due
      BY <1>2, <2>1 DEF IsHist, HistNames
    <3> QED
      BY <2>1, <2>2, <2>4, <2>5, <3>1 DEF Retired
  <2>7. Same(hist, hist', Owns) /\ hist'.ifl = v /\ hist'.due = m /\ hist'.env = hist.env
    BY <1>2, <2>6 DEF Same, IsHist, HistNames, Owns
  <2>8. c.env = hist.env
    BY <1>1, <2>2, AliveAt
  <2>9. Life(d, hist', subject, "event")
    BY <1>1, <2>1, <2>2, <2>3, <2>5, <2>7, <2>8, AliveRetires
  <2> QED
    BY <1>1, <2>4, <2>9
<1>15. CASE SetEnv
  <2>1. PICK v, g, d : /\ g = [hist EXCEPT !.env = v] /\ d = [y EXCEPT !.env = v] /\ Done(d, Retired(g))
    <3>1. PICK v \in {"a", "b"} : Done([y EXCEPT !.env = v], Retired([hist EXCEPT !.env = v]))
      BY <1>3, <1>15, Zenon DEF SetEnv
    <3> QED
      BY <3>1, Zenon
  <2>2. AtOne /\ c.rip.code = "main" /\ c.rip.at < End
    BY <1>6, <1>15 DEF SetEnv, Free, InMain
  <2>3. /\ d.guest = c.guest /\ d.work = c.work /\ d.irq = c.irq /\ d.stack = c.stack /\ d.pend = c.pend /\ d.rip = Next1(c)
        /\ d.env = v /\ d.ifl = c.ifl
    BY <1>4, <2>1 DEF Agree, IsCpu, Names
  <2>4. c' = d /\ hist' = Retired(g)
    BY <1>7, <2>1, <2>3
  <2>5. PICK m : m = hist.due + 1
    OBVIOUS
  <2>6. hist' = [[hist EXCEPT !.env = v] EXCEPT !.due = m]
    <3>1. g.due = hist.due
      BY <1>2, <2>1 DEF IsHist, HistNames
    <3> QED
      BY <2>1, <2>2, <2>4, <2>5, <3>1 DEF Retired
  <2>7. Same(hist, hist', Owns) /\ hist'.ifl = hist.ifl /\ hist'.due = m /\ hist'.env = v
    BY <1>2, <2>6 DEF Same, IsHist, HistNames, Owns
  <2>8. c.ifl = hist.ifl /\ c.ifl \in BOOLEAN
    <3>1. Program(c.stack[World(subject)], c.rip, c.ifl, hist)
      BY <1>1, <2>2, AliveAt
    <3> QED
      BY <2>2, <3>1, ProgramMoves
  <2>9. Life(d, hist', subject, "event")
    BY <1>1, <2>2, <2>3, <2>5, <2>7, <2>8, AliveRetires
  <2> QED
    BY <1>1, <2>4, <2>9
<1>16. CASE Halts
  <2>1. PICK d : d = [y EXCEPT !.halt = TRUE]
    BY Zenon
  <2>2. Runs(Op("hlt"), d, hist) /\ AtOne
    BY <1>3, <1>6, <1>16, <2>1 DEF Halts, Free, InMain
  <2>3. Agree(y, d, {"halt", "cr0", "got"})
    BY <1>4, <2>1 DEF Agree, IsCpu, Names
  <2>4. Op("hlt").op \notin Between \cup {"exception"}
    BY DEF Op, Between
  <2> QED
    BY <1>5, <1>9, <2>2, <2>3, <2>4
<1>17. CASE Others
  <2>1. PICK o \in {"cpuid", "rdtsc", "rdtscp", "wbinvd", "vmcall"} : Done(Raise(Decoded, "ud"), hist) \/ Runs(Op(o), y, hist)
    BY <1>3, <1>17, Zenon DEF Others
  <2>2. AtOne
    BY <1>6, <1>17 DEF Others, Free, InMain
  <2>3. Op(o).op \notin Between \cup {"exception"} /\ Agree(y, y, {"halt", "cr0", "got"})
    BY <1>4 DEF Op, Between, Agree
  <2>4. CASE Done(Raise(Decoded, "ud"), hist)
    <3>1. "ud" \in Raisable /\ c.rip.code # "df"
      BY <2>2 DEF Raisable, AtOne
    <3> QED
      BY <1>8, <2>4, <3>1
  <2>5. CASE Runs(Op(o), y, hist)
    BY <1>5, <1>9, <2>2, <2>3, <2>5
  <2> QED
    BY <2>1, <2>4, <2>5
<1>18. CASE Ports
  <2>1. PICK o \in {"io", "loadcr3", "rdmsr", "wrmsr"}, a \in {0, 1} : Runs([op |-> o, arg |-> a], y, hist)
    BY <1>3, <1>18, Zenon DEF Ports
  <2>2. AtOne
    BY <1>6, <1>18 DEF Ports, Free, InMain
  <2>3. PICK ins : ins = [op |-> o, arg |-> a]
    OBVIOUS
  <2>4. ins.op \notin Between \cup {"exception"} /\ Agree(y, y, {"halt", "cr0", "got"})
    BY <1>4, <2>3 DEF Between, Agree
  <2> QED
    BY <1>5, <1>9, <2>1, <2>2, <2>3, <2>4
<1>19. CASE Handles
  <2>1. c' = y /\ hist' = hist /\ AtOne /\ c.rip.code \in Handlers
    <3>1. Done(y, hist) /\ y.guest = c.guest
      BY <1>3, <1>4, <1>19 DEF Handles, Agree, Names
    <3> QED
      BY <1>7, <1>19, <3>1 DEF Handles, AtOne, Handlers, Vectors
  <2>2. /\ y.guest = c.guest /\ y.work = c.work /\ y.irq = c.irq /\ y.stack = c.stack /\ y.pend = c.pend /\ y.rip = Next1(c)
        /\ y.env = c.env /\ y.ifl = c.ifl /\ c.env = hist.env /\ c.rip.code # "main"
    <3>1. c.env = hist.env
      BY <1>1, <2>1, AliveAt DEF AtOne
    <3> QED
      BY <1>4, <2>1, <3>1 DEF Agree, Names, Handlers, Vectors
  <2>3. Life(y, hist, subject, "event")
    BY <1>1, <1>5, <2>1, <2>2, AliveRetires
  <2> QED
    BY <1>1, <2>1, <2>3
<1>20. CASE Iret
  BY <1>1, <1>20, AliveReturns
<1>21. CASE Cr0Acts
  <2>1. AtOne
    BY <1>6, <1>21 DEF Cr0Acts, WritesCr0, ReadsCr0, Clts, Lmsw, Free, InMain
  <2>2. PICK ins, d, g : /\ ins.op \in {"tocr0", "fromcr0", "clts", "lmsw"} /\ Runs(ins, d, g)
                         /\ (\E b : d = [y EXCEPT !.cr0 = b]) \/ (\E b : d = [y EXCEPT !.got = b])
                         /\ (\E b : g = [hist EXCEPT !.sees = b]) \/ (\E b : g = [hist EXCEPT !.saw = b])
    BY <1>3, <1>21, CrActs
  <2>3. Agree(y, d, {"halt", "cr0", "got"})
    <3>1. ASSUME NEW b, d = [y EXCEPT !.cr0 = b]
          PROVE  Agree(y, d, {"halt", "cr0", "got"})
      BY <1>4, <3>1 DEF Agree, IsCpu, Names
    <3>2. ASSUME NEW b, d = [y EXCEPT !.got = b]
          PROVE  Agree(y, d, {"halt", "cr0", "got"})
      BY <1>4, <3>2 DEF Agree, IsCpu, Names
    <3> QED
      BY <2>2, <3>1, <3>2
  <2>4. Same(hist, g, {"sees", "saw"})
    <3>1. ASSUME NEW b, g = [hist EXCEPT !.sees = b]
          PROVE  Same(hist, g, {"sees", "saw"})
      BY <1>2, <3>1 DEF Same, IsHist, HistNames
    <3>2. ASSUME NEW b, g = [hist EXCEPT !.saw = b]
          PROVE  Same(hist, g, {"sees", "saw"})
      BY <1>2, <3>2 DEF Same, IsHist, HistNames
    <3> QED
      BY <2>2, <3>1, <3>2
  <2>5. ins.op \notin Between \cup {"exception"}
    BY <2>2 DEF Between
  <2> QED
    BY <1>9, <2>1, <2>2, <2>3, <2>4, <2>5
<1> QED
  BY <1>22, <1>10, <1>11, <1>12, <1>13, <1>14, <1>15, <1>16, <1>17, <1>18, <1>19, <1>20, <1>21 DEF Guest, Cr0Acts

\* A line is raised, wherever the program is.
LEMMA RaisedLife ==
  ASSUME IsCpu(c), Life(c, hist, subject, phase), RaiseLine
  PROVE  Life(c', hist', subject, phase')
<1>1. PICK n : n = hist.raised + 1
  OBVIOUS
<1>2. c' = [c EXCEPT !.irq = TRUE] /\ hist' = [hist EXCEPT !.raised = n] /\ ~c.irq /\ phase = "event" /\ phase' = phase
  BY <1>1, Zenon DEF RaiseLine
<1>3. Same(hist, hist', {"raised"}) /\ hist'.raised = n
  BY <1>2 DEF Same, IsHist, HistNames, Life
<1>4. /\ IsHist(hist') /\ hist'.due = hist.due /\ hist'.ifl = hist.ifl /\ hist'.env = hist.env /\ hist'.owes = hist.owes
      /\ hist'.ended = hist.ended /\ hist'.reported = hist.reported
  BY <1>3 DEF Same, HistNames
<1>5. Agree(c, c', {"irq"}) /\ c'.irq = TRUE
  BY <1>2 DEF Agree, IsCpu, Names
<1>6. /\ c'.guest = c.guest /\ c'.work = c.work /\ c'.stack = c.stack /\ c'.rip = c.rip /\ c'.start = c.start
      /\ c'.pend = c.pend /\ c'.ifl = c.ifl /\ c'.env = c.env /\ c'.halt = c.halt
  BY <1>5 DEF Agree, Names
<1>7. \A g : F(c', g) = F(c, g)
  BY <1>6, SameWork
<1>8. Active(c', subject) = Active(c, subject) /\ Awaited(c') = Awaited(c) /\ Stored(c', subject) = Stored(c, subject)
  BY <1>6, <1>7 DEF Active, Awaited, Stored
<1>9. ASSUME Counted(c, hist, subject)
      PROVE  Counted(c', hist', subject)
  <2>1. PICK a, b, e, n1, m, x, y :
          /\ a = One(Awaited(c)) /\ b = One(c.rip.code = "irq") /\ e = One(Stored(c, subject))
          /\ n1 = Irqs(c.stack["host"]) /\ m = Irqs(c.stack["guest"]) /\ x = hist.ended /\ y = hist.reported
    OBVIOUS
  <2>2. /\ {a, b, e} \subseteq {0, 1} /\ One(c.irq) = 0 /\ One(c'.irq) = 1
        /\ One(Awaited(c')) = a /\ One(c'.rip.code = "irq") = b /\ One(Stored(c', subject)) = e
    BY <1>2, <1>5, <1>6, <1>8, <2>1, OneType
  <2>3. /\ n1 \in Nat /\ m \in Nat /\ x \in Nat /\ y \in Nat
        /\ hist.raised = 0 + a + b + e + n1 + m + x + y
    BY <1>9, <2>1, <2>2 DEF Counted
  <2>4. n = 1 + a + b + e + n1 + m + x + y
    BY <1>1, <2>2, <2>3
  <2> QED
    BY <1>3, <1>4, <1>6, <2>1, <2>2, <2>3, <2>4 DEF Counted
<1>10. subject \in Hosted => Owing(c', hist')
  BY <1>4, <1>6, <1>7, OwingOn DEF Life
<1>11. \A st, r, fl : Program(st, r, fl, hist) => Program(st, r, fl, hist')
  BY <1>4, ProgramMoves
<1>12. Living(c, hist, subject) => Living(c', hist', subject)
  BY <1>4, <1>6, <1>11 DEF Living, Pending
<1>13. Doomed(c, subject) => Doomed(c', subject)
  BY <1>6 DEF Doomed
<1>14. Resting(c, hist) => Resting(c', hist')
  BY <1>4, <1>6, <1>7, <1>11 DEF Resting
<1> QED
  BY <1>2, <1>4, <1>6, <1>7, <1>8, <1>9, <1>10, <1>12, <1>13, <1>14 DEF Life

-----------------------------------------------------------------------------
(* The program put away, while the hypervisor works.                          *)

Idle(x, h, s, ph) == IsCpu(x) /\ s \in Hosted /\ Hosting(x) /\ ~x.guest /\ h.owes # "burial" /\ Life(x, h, s, ph)
Numbered(x, h) ==
  /\ Irqs(x.stack["guest"]) \in Nat /\ h.ended \in Nat /\ h.reported \in Nat
  /\ h.raised = One(x.irq) + One(Awaited(x)) + One(x.rip.code = "irq") + One(F(x, GuestRip).code = "irq")
                + Irqs(x.stack["guest"]) + h.ended + h.reported

\* The frames of the host are not the program's.
LEMMA HostIrqs ==
  ASSUME NEW x, AtWork(x)
  PROVE  Irqs(x.stack["host"]) = 0
<1>1. CASE Bare(x)
  BY <1>1, IrqsNone DEF Bare
<1>2. CASE InHandler(x)
  <2>1. PICK f, st : st = x.stack["host"] /\ st = <<f>> /\ f.rip.code = "host"
    BY <1>2 DEF InHandler, OneFrame, Place
  <2>2. DOMAIN st = 1..1 /\ st[1] = f
    BY <2>1
  <2>3. {i \in DOMAIN st : st[i].whole /\ st[i].rip.code = "irq"} = {}
    BY <2>1, <2>2
  <2> QED
    BY <2>1, <2>3, FS_EmptySet DEF Irqs
<1> QED
  BY <1>1, <1>2 DEF AtWork

LEMMA IdleFacts ==
  ASSUME NEW x, NEW h, NEW s, NEW ph, Idle(x, h, s, ph)
  PROVE  /\ IsCpu(x) /\ IsHist(h) /\ Hosting(x) /\ AtWork(x) /\ x.guest = FALSE /\ Owing(x, h) /\ Numbered(x, h)
         /\ h.owes # "burial" => Resting(x, h)
         /\ ph = "exec" => x.start = x.rip
<1>1. /\ IsCpu(x) /\ IsHist(h) /\ Hosting(x) /\ AtWork(x) /\ x.guest = FALSE /\ Owing(x, h) /\ Counted(x, h, s)
      /\ ~Active(x, s) /\ (h.owes # "burial" => Resting(x, h)) /\ (ph = "exec" => x.start = x.rip)
  BY DEF Idle, Hosting, Life, Active, Hosted
<1>2. Irqs(x.stack["host"]) = 0 /\ (Stored(x, s) <=> F(x, GuestRip).code = "irq")
  BY <1>1, HostIrqs DEF Stored
<1>3. Numbered(x, h)
  <2>1. PICK a, b, e, g, n, o, k :
          /\ a = One(x.irq) /\ b = One(Awaited(x)) /\ e = One(x.rip.code = "irq") /\ g = One(F(x, GuestRip).code = "irq")
          /\ n = Irqs(x.stack["guest"]) /\ o = h.ended /\ k = h.reported
    OBVIOUS
  <2>2. {a, b, e, g} \subseteq {0, 1} /\ One(Stored(x, s)) = g
    BY <1>2, <2>1, OneType
  <2>3. n \in Nat /\ o \in Nat /\ k \in Nat /\ h.raised = a + b + e + g + 0 + n + o + k
    BY <1>1, <1>2, <2>1, <2>2 DEF Counted
  <2>4. h.raised = a + b + e + g + n + o + k
    BY <2>2, <2>3
  <2> QED
    BY <2>1, <2>3, <2>4 DEF Numbered
<1> QED
  BY <1>1, <1>3

LEMMA IdleLife ==
  ASSUME NEW d, NEW k, NEW s \in Hosted, IsHist(k), Hosting(d), d.guest = FALSE, Owing(d, k), Numbered(d, k),
         k.owes # "burial" => Resting(d, k), NEW pg, pg = "exec" => d.start = d.rip
  PROVE  Life(d, k, s, pg)
<1>1. AtWork(d) /\ ~Active(d, s) /\ s # "native"
  BY DEF Hosting, Active, Hosted
<1>2. Irqs(d.stack["host"]) = 0 /\ (Stored(d, s) <=> F(d, GuestRip).code = "irq") /\ d.pend = None /\ ~d.halt
  BY <1>1, HostIrqs DEF Stored, AtWork
<1>3. Counted(d, k, s)
  <2>1. PICK a, b, e, g, n, o, m :
          /\ a = One(d.irq) /\ b = One(Awaited(d)) /\ e = One(d.rip.code = "irq") /\ g = One(F(d, GuestRip).code = "irq")
          /\ n = Irqs(d.stack["guest"]) /\ o = k.ended /\ m = k.reported
    OBVIOUS
  <2>2. {a, b, e, g} \subseteq {0, 1} /\ One(Stored(d, s)) = g
    BY <1>2, <2>1, OneType
  <2>3. n \in Nat /\ o \in Nat /\ m \in Nat /\ k.raised = a + b + e + g + n + o + m
    BY <2>1 DEF Numbered
  <2>4. k.raised = a + b + e + g + 0 + n + o + m
    BY <2>2, <2>3
  <2> QED
    BY <1>2, <2>1, <2>2, <2>3, <2>4 DEF Counted
<1> QED
  BY <1>1, <1>2, <1>3 DEF Life

(* an interrupt is somewhere else, and counted there *)
Balance(x, h, d, k) ==
  k.raised + One(x.irq) + One(Awaited(x)) + One(x.rip.code = "irq") + h.ended
    = h.raised + One(d.irq) + One(Awaited(d)) + One(d.rip.code = "irq") + k.ended
LEMMA IdleGoes ==
  ASSUME NEW x, NEW h, NEW s, NEW ph, Idle(x, h, s, ph), NEW d, NEW k, IsHist(k), Hosting(d), d.guest = FALSE, Owing(d, k),
         k.owes # "burial" => Resting(d, k), d.stack["guest"] = x.stack["guest"],
         F(d, GuestRip).code = F(x, GuestRip).code, k.reported = h.reported, k.ended \in Nat, k.raised \in Nat,
         Balance(x, h, d, k), NEW pg, pg = "exec" => d.start = d.rip
  PROVE  Life(d, k, s, pg)
<1>1. Numbered(x, h) /\ s \in Hosted
  BY IdleFacts DEF Idle
<1>2. Numbered(d, k)
  <2>1. PICK a, b, e, g, n, o, m :
          /\ a = One(x.irq) /\ b = One(Awaited(x)) /\ e = One(x.rip.code = "irq") /\ g = One(F(x, GuestRip).code = "irq")
          /\ n = Irqs(x.stack["guest"]) /\ o = h.ended /\ m = h.reported
    OBVIOUS
  <2>2. PICK p, q, r, t, w : /\ p = One(d.irq) /\ q = One(Awaited(d)) /\ r = One(d.rip.code = "irq") /\ t = k.ended /\ w = k.raised
    OBVIOUS
  <2>3. {a, b, e, g, p, q, r} \subseteq {0, 1} /\ One(F(d, GuestRip).code = "irq") = g
    BY <2>1, <2>2, OneType
  <2>4. n \in Nat /\ o \in Nat /\ m \in Nat /\ h.raised = a + b + e + g + n + o + m
    BY <1>1, <2>1 DEF Numbered
  <2>5. w + a + b + e + o = h.raised + p + q + r + t /\ w \in Nat /\ t \in Nat
    BY <2>1, <2>2 DEF Balance
  <2>6. w = p + q + r + g + n + t + m
    BY <2>3, <2>4, <2>5
  <2> QED
    BY <2>1, <2>2, <2>3, <2>4, <2>5, <2>6 DEF Numbered
<1> QED
  BY <1>1, <1>2, IdleLife

LEMMA RestingOn ==
  ASSUME NEW x, NEW h, Resting(x, h), NEW d, NEW k, \A g \in {GuestRip, GuestFlags, GuestEnv} : F(d, g) = F(x, g),
         d.stack["guest"] = x.stack["guest"], k.due = h.due, k.ifl = h.ifl, k.env = h.env
  PROVE  Resting(d, k)
<1>1. PICK st, r, fl : st = x.stack["guest"] /\ r = F(x, GuestRip) /\ fl = F(x, GuestFlags)
  OBVIOUS
<1>2. Program(st, r, fl, h)
  BY <1>1 DEF Resting
<1>3. Program(st, r, fl, k)
  BY <1>2, ProgramMoves
<1> QED
  BY <1>1, <1>3 DEF Resting

\* A step that touches neither the program nor its structure.
LEMMA IdleStays ==
  ASSUME NEW x, NEW h, NEW s, NEW ph, Idle(x, h, s, ph), NEW d, NEW k, Hosting(d), d.guest = FALSE, d.work = x.work,
         d.stack["guest"] = x.stack["guest"], Same(h, k, {"ended"}), k.ended \in Nat,
         One(x.irq) + One(x.rip.code = "irq") + h.ended = One(d.irq) + One(d.rip.code = "irq") + k.ended,
         NEW pg, pg = "exec" => d.start = d.rip
  PROVE  Life(d, k, s, pg)
<1>1. /\ IsHist(k) /\ k.owes = h.owes /\ k.due = h.due /\ k.ifl = h.ifl /\ k.env = h.env /\ k.raised = h.raised
      /\ k.reported = h.reported
  BY DEF Same, HistNames
<1>2. \A g : F(d, g) = F(x, g)
  BY SameWork
<1>3. Owing(x, h) /\ Numbered(x, h) /\ x.guest = FALSE /\ (h.owes # "burial" => Resting(x, h))
  BY IdleFacts
<1>4. Owing(d, k)
  BY <1>1, <1>2, <1>3, OwingOn
<1>5. k.owes # "burial" => Resting(d, k)
  BY <1>1, <1>2, <1>3, RestingOn
<1>6. Awaited(d) = Awaited(x)
  BY <1>2 DEF Awaited
<1>7. h.raised \in Nat /\ Balance(x, h, d, k)
  <2>1. PICK a, b, e, g, n, o, m :
          /\ a = One(x.irq) /\ b = One(Awaited(x)) /\ e = One(x.rip.code = "irq") /\ g = One(F(x, GuestRip).code = "irq")
          /\ n = Irqs(x.stack["guest"]) /\ o = h.ended /\ m = h.reported
    OBVIOUS
  <2>2. PICK p, r, t : p = One(d.irq) /\ r = One(d.rip.code = "irq") /\ t = k.ended
    OBVIOUS
  <2>3. {a, b, e, g, p, r} \subseteq {0, 1} /\ One(Awaited(d)) = b
    BY <1>6, <2>1, <2>2, OneType
  <2>4. n \in Nat /\ o \in Nat /\ m \in Nat /\ h.raised = a + b + e + g + n + o + m
    BY <1>3, <2>1 DEF Numbered
  <2>5. a + e + o = p + r + t /\ t \in Nat
    BY <2>1, <2>2
  <2>6. h.raised + a + b + e + o = h.raised + p + b + r + t /\ h.raised \in Nat
    BY <2>3, <2>4, <2>5
  <2> QED
    BY <1>1, <2>1, <2>2, <2>3, <2>6 DEF Balance
<1> QED
  BY <1>1, <1>2, <1>4, <1>5, <1>7, IdleGoes

\* The hypervisor is interrupted, or not ...
LEMMA HostEvents ==
  ASSUME IsCpu(c), IsHist(hist), subject \in Hosted, Hosting(c), c.guest = FALSE, Events
  PROVE  /\ c'.guest = FALSE /\ c'.work = c.work /\ c'.stack["guest"] = c.stack["guest"] /\ c'.start = c'.rip
         /\ hist' = hist /\ phase' = "exec"
         /\ \/ c'.irq = c.irq /\ c'.rip = c.rip
            \/ c.irq = TRUE /\ c'.irq = FALSE /\ c.rip.code # "irq" /\ c'.rip.code = "irq"
<1>1. AtWork(c) /\ phase' = "exec"
  BY DEF Hosting, Events
<1>2. PICK p, poll, bad, d :
        /\ Happens(p, poll, bad, d) /\ IsCpu(p) /\ IsCpu(d) /\ c' = [d EXCEPT !.start = d.rip]
        /\ hist' = Torn(Exited(Noted(p, d), d), Cause(p), d)
        /\ p = c \/ (Left(c, p, "window", None) /\ d = p /\ c.guest /\ c.ifl /\ c.pend = None)
  BY EventsShape
<1>3. p = c /\ c.pend = None
  BY <1>1, <1>2 DEF AtWork
<1>4. Exited(Noted(p, d), d) = hist
  BY <1>1, <1>3 DEF Exited, Noted, Trapped
<1>5. /\ c'.guest = d.guest /\ c'.pend = d.pend /\ c'.work = d.work /\ c'.irq = d.irq /\ c'.stack = d.stack /\ c'.rip = d.rip
      /\ c'.start = c'.rip
  BY <1>2 DEF IsCpu, Names
<1>6. Hosting(c')
  BY <1>1, EventsHosting
<1>7. d = c \/ (Takes(c) /\ d = Interrupted(c, 0))
  <2>1. bad = 0
    <3>1. subject # "native"
      BY DEF Hosted
    <3> QED
      BY <1>1, <1>2, <1>3, <3>1 DEF Happens, Plans
  <2> QED
    BY <1>2, <1>3, <2>1 DEF Happens, Delivered
<1>8. CASE d = c
  <2>1. d.pend = None
    BY <1>3, <1>8
  <2>2. hist' = hist
    BY <1>2, <1>4, <2>1, TornHist
  <2> QED
    BY <1>1, <1>5, <1>8, <2>2
<1>9. CASE Takes(c) /\ d = Interrupted(c, 0)
  <2>1. Line(c, d) /\ Who(c) = "host"
    BY <1>9, LineGates DEF Who
  <2>2. /\ d.guest = FALSE /\ d.work = c.work /\ d.irq = FALSE /\ d.rip.code = "irq" /\ d.pend = None
        /\ d.stack["guest"] = c.stack["guest"]
    BY <1>3, <2>1 DEF Line, Agree, Names, Place, Worlds
  <2>3. c.irq = TRUE /\ c.rip.code # "irq"
    BY <1>1, <1>9 DEF Takes, AtWork, Bare, InHandler, IsCpu, Place
  <2>4. hist' = hist
    BY <1>2, <1>4, <2>2, TornHist
  <2> QED
    BY <1>1, <1>5, <2>2, <2>3, <2>4
<1> QED
  BY <1>7, <1>8, <1>9

LEMMA IdleEvents ==
  ASSUME Idle(c, hist, subject, phase), Events
  PROVE  Life(c', hist', subject, "exec")
<1>1. /\ IsCpu(c) /\ IsHist(hist) /\ subject \in Hosted /\ Hosting(c) /\ c.guest = FALSE /\ hist.ended \in Nat
  BY IdleFacts DEF Numbered, Idle
<1>2. /\ c'.guest = FALSE /\ c'.work = c.work /\ c'.stack["guest"] = c.stack["guest"] /\ c'.start = c'.rip
      /\ hist' = hist
      /\ \/ c'.irq = c.irq /\ c'.rip = c.rip
         \/ c.irq = TRUE /\ c'.irq = FALSE /\ c.rip.code # "irq" /\ c'.rip.code = "irq"
  BY <1>1, HostEvents
<1>3. Hosting(c')
  BY <1>1, EventsHosting
<1>4. Same(hist, hist', {"ended"}) /\ hist'.ended = hist.ended
  BY <1>1, <1>2 DEF Same
<1>5. One(c.irq) + One(c.rip.code = "irq") + hist.ended = One(c'.irq) + One(c'.rip.code = "irq") + hist'.ended
  <2>1. CASE c'.irq = c.irq /\ c'.rip = c.rip
    BY <1>4, <2>1
  <2>2. CASE c.irq = TRUE /\ c'.irq = FALSE /\ c.rip.code # "irq" /\ c'.rip.code = "irq"
    <3>1. One(c.irq) = 1 /\ One(c'.irq) = 0 /\ One(c.rip.code = "irq") = 0 /\ One(c'.rip.code = "irq") = 1
      BY <2>2, OneType
    <3> QED
      BY <1>1, <1>4, <3>1
  <2> QED
    BY <1>2, <2>1, <2>2
<1> QED
  BY <1>1, <1>2, <1>3, <1>4, <1>5, IdleStays

\* ... its handler of interrupts runs, and returns.
LEMMA HostGuest ==
  ASSUME IsCpu(c), IsHist(hist), subject \in Hosted, Hosting(c), c.guest = FALSE, Guest
  PROVE  /\ c'.guest = FALSE /\ c'.work = c.work /\ c'.irq = c.irq /\ c'.stack["guest"] = c.stack["guest"]
         /\ c.rip.code = "irq" /\ Same(hist, hist', {"ended"}) /\ phase' = "event"
         /\ \/ c'.rip.code = "irq" /\ hist'.ended = hist.ended
            \/ c'.rip.code # "irq" /\ hist'.ended = hist.ended + 1
<1>1. AtWork(c)
  BY DEF Hosting
<1>2. c.rip.code \in {"host", "irq"} /\ ~Running /\ ~InMain /\ ~Free
  BY <1>1 DEF AtWork, Bare, InHandler, Place, Running, InMain, Free, Hosted
<1>3. Handles \/ Iret
  <2>1. Spins \/ Handles \/ Iret
    <3>1. ~Defers /\ subject # "native"
      BY <1>1 DEF AtWork, Defers, Hosted
    <3> QED
      BY <1>2, <3>1 DEF Guest, FetchFaults, Faults, Int3, SetFlag, SetEnv, Halts, Others, Ports, WritesCr0, ReadsCr0, Clts, Lmsw,
         Running
  <2> QED
    BY <1>2, <2>1 DEF Spins
<1>4. c.rip.code = "irq" /\ InHandler(c) /\ phase' = "event"
  <2>1. c.rip.code \in Vectors /\ phase' = "event"
    BY <1>3 DEF Handles, Iret, Done
  <2>2. ~Bare(c) /\ c.rip.code = "irq"
    BY <1>2, <2>1 DEF Bare, Place, Vectors
  <2> QED
    BY <1>1, <2>1, <2>2 DEF AtWork
<1>6. CASE Handles
  <2>1. PICK to : to = Next1(c)
    BY Zenon
  <2>2. c' = [c EXCEPT !.rip = to] /\ hist' = Exited(hist, c')
    BY <1>6, <2>1, Zenon DEF Handles, Done, Decoded
  <2>3. /\ c'.guest = FALSE /\ c'.work = c.work /\ c'.irq = c.irq /\ c'.stack = c.stack /\ c'.rip = to
    BY <2>2 DEF IsCpu, Names
  <2>4. hist' = hist /\ to.code = "irq"
    <3>1. PICK n : n = c.rip.at
      BY Zenon
    <3>2. c.rip = [code |-> "irq", at |-> n]
      BY <1>4, <3>1 DEF InHandler, Place
    <3> QED
      BY <2>1, <2>2, <3>2 DEF Next1, Exited
  <2> QED
    BY <1>4, <2>3, <2>4 DEF Same
<1>7. CASE Iret
  <2>1. PICK st, f, t : st = c.stack["host"] /\ f = st[Len(st)] /\ t = SubSeq(st, 1, Len(st) - 1)
    BY Zenon
  <2>2. Who(c) = "host"
    BY DEF Who
  <2>4. f.rip.code = "host" /\ f.whole
    <3>1. PICK g : st = <<g>> /\ g.rip.code = "host" /\ g.whole
      BY <1>4, <2>1 DEF InHandler, OneFrame, Place
    <3>2. Len(st) = 1 /\ st[1] = g
      BY <3>1
    <3> QED
      BY <2>1, <3>1, <3>2
  <2>3. Returns(c, c', "host", t, f) /\ Same(hist, hist', {"ended"}) /\ hist'.ended = hist.ended + 1
    BY <1>4, <1>7, <2>1, <2>2, <2>4, IretEffect
  <2>5. /\ c'.guest = FALSE /\ c'.work = c.work /\ c'.irq = c.irq /\ c'.stack["guest"] = c.stack["guest"] /\ c'.rip.code # "irq"
    BY <2>3, <2>4 DEF Returns, Agree, Names, Worlds
  <2> QED
    BY <1>4, <2>3, <2>5
<1> QED
  BY <1>3, <1>6, <1>7

LEMMA IdleGuest ==
  ASSUME Idle(c, hist, subject, phase), Guest
  PROVE  Life(c', hist', subject, phase')
<1>1. /\ IsCpu(c) /\ IsHist(hist) /\ subject \in Hosted /\ Hosting(c) /\ c.guest = FALSE /\ hist.ended \in Nat
  BY IdleFacts DEF Numbered, Idle
<1>2. /\ c'.guest = FALSE /\ c'.work = c.work /\ c'.irq = c.irq /\ c'.stack["guest"] = c.stack["guest"]
      /\ c.rip.code = "irq" /\ Same(hist, hist', {"ended"}) /\ phase' = "event"
      /\ \/ c'.rip.code = "irq" /\ hist'.ended = hist.ended
         \/ c'.rip.code # "irq" /\ hist'.ended = hist.ended + 1
  BY <1>1, HostGuest
<1>3. Hosting(c')
  BY <1>1, GuestHosting
<1>4. One(c.irq) + One(c.rip.code = "irq") + hist.ended = One(c'.irq) + One(c'.rip.code = "irq") + hist'.ended
      /\ hist'.ended \in Nat
  <2>1. One(c.rip.code = "irq") = 1 /\ One(c.irq) = One(c'.irq) /\ One(c.irq) \in {0, 1}
    BY <1>2, OneType
  <2>2. CASE c'.rip.code = "irq" /\ hist'.ended = hist.ended
    <3>1. One(c'.rip.code = "irq") = 1
      BY <2>2, OneType
    <3> QED
      BY <1>1, <2>1, <2>2, <3>1
  <2>3. CASE c'.rip.code # "irq" /\ hist'.ended = hist.ended + 1
    <3>1. One(c'.rip.code = "irq") = 0
      BY <2>3, OneType
    <3> QED
      BY <1>1, <2>1, <2>3, <3>1
  <2> QED
    BY <1>2, <2>2, <2>3
<1> QED
  BY <1>1, <1>2, <1>3, <1>4, IdleStays

\* What the hypervisor owes after a step of its own, with i waiting for the next entry.
OwesNext(h, k, i) ==
  \/ k.owes = "none" /\ (i = None \/ i = Event("irq", FALSE))
  \/ k.owes = "entry" /\ \E v \in Raisable : i = Event(v, v = "bp")
  \/ k.owes \in {"cr0", "past"} /\ h.owes \in {"skip", "cr0", "past"} /\ i = None
LEMMA OwingMoves ==
  ASSUME NEW x, NEW h, Owing(x, h), NEW d, NEW k, d.guest = FALSE, h.owes # "burial",
         \A g \in {ExitReason, ExitIntrInfo, ExitInstrLen} : F(d, g) = F(x, g),
         NEW i, i = F(d, EntryIntrInfo), OwesNext(h, k, i)
  PROVE  Owing(d, k)
<1>1. ~Fatal(d)
  BY DEF Owing, Fatal
<1> QED
  BY <1>1 DEF Owing, OwesNext

LEMMA WriteFields ==
  /\ {GuestCr0, Cr0Shadow, CpuCtls} \cap {GuestRip, GuestFlags, GuestEnv, EntryIntrInfo, ExitReason, ExitIntrInfo, ExitInstrLen} = {}
  /\ GuestRip \notin {GuestFlags, GuestEnv, EntryIntrInfo, ExitReason, ExitIntrInfo, ExitInstrLen}
  /\ {GuestRip, GuestFlags, GuestEnv, EntryIntrInfo, ExitReason, ExitIntrInfo, ExitInstrLen} \subseteq Field
BY LifeFields DEF GuestCr0, Cr0Shadow, CpuCtls, GuestRip, GuestFlags, GuestEnv, EntryIntrInfo, ExitReason, ExitIntrInfo, ExitInstrLen

\* A field is written: nothing else of the program or its interrupts is.
LEMMA IdleWrites ==
  ASSUME Idle(c, hist, subject, phase), Working, NEW e \in HostFields, NEW v, NEW h, Vmx(Instr("vmwrite", e, v), h)
  PROVE  /\ c'.guest = FALSE /\ c'.stack = c.stack /\ F(c', e) = v /\ hist' = h /\ phase' = "event"
         /\ \A g \in Field \ {e} : F(c', g) = F(c, g)
         /\ One(c'.irq) = One(c.irq) /\ One(c'.rip.code = "irq") = One(c.rip.code = "irq")
<1>1. IsCpu(c) /\ Hosting(c) /\ c.guest = FALSE /\ c.rip.code = "host"
  BY IdleFacts DEF Working, AtHost
<1>2. e \in Field /\ ~ReadOnly(e)
  BY HostFieldsWritable
<1>3. HostWrote(c', e, v) /\ hist' = h
  BY <1>1, <1>2, HostWrites
<1>4. Next1(c).code = "host"
  BY <1>1 DEF Next1, Place
<1>5. /\ c'.guest = FALSE /\ c'.stack = c.stack /\ c'.irq = c.irq /\ c'.rip.code = "host" /\ F(c', e) = v
      /\ \A g \in Field \ {e} : F(c', g) = F(c, g)
  BY <1>1, <1>3, <1>4 DEF HostWrote, Agree, Names, Rest
<1>6. phase' = "event"
  BY DEF Vmx, Done
<1> QED
  BY <1>1, <1>3, <1>5, <1>6

LEMMA IdleKeeps ==
  ASSUME Idle(c, hist, subject, phase), NEW d, NEW k, Hosting(d), d.guest = FALSE, d.stack["guest"] = c.stack["guest"],
         One(d.irq) = One(c.irq), One(d.rip.code = "irq") = One(c.rip.code = "irq"), Awaited(d) = Awaited(c),
         \A g \in {GuestRip, GuestFlags, GuestEnv} : F(d, g) = F(c, g),
         Same(hist, k, {"owes", "sees"}), Owing(d, k), k.owes = "burial" <=> hist.owes = "burial"
  PROVE  Life(d, k, subject, "event")
<1>1. Numbered(c, hist) /\ (hist.owes # "burial" => Resting(c, hist))
  BY IdleFacts
<1>2. /\ IsHist(k) /\ k.due = hist.due /\ k.ifl = hist.ifl /\ k.env = hist.env /\ k.raised = hist.raised
      /\ k.reported = hist.reported /\ k.ended = hist.ended
  BY DEF Same, HistNames
<1>4. k.owes # "burial" => Resting(d, k)
  BY <1>1, <1>2, RestingOn
<1>5. Balance(c, hist, d, k) /\ k.raised \in Nat /\ k.ended \in Nat
  <2>1. One(Awaited(d)) = One(Awaited(c))
    BY OneType
  <2>2. hist.raised \in Nat /\ hist.ended \in Nat
    <3>1. PICK a, b, e, g, n, o, m :
            /\ a = One(c.irq) /\ b = One(Awaited(c)) /\ e = One(c.rip.code = "irq") /\ g = One(F(c, GuestRip).code = "irq")
            /\ n = Irqs(c.stack["guest"]) /\ o = hist.ended /\ m = hist.reported
      OBVIOUS
    <3>2. {a, b, e, g} \subseteq {0, 1}
      BY <3>1, OneType
    <3>3. n \in Nat /\ o \in Nat /\ m \in Nat /\ hist.raised = a + b + e + g + n + o + m
      BY <1>1, <3>1 DEF Numbered
    <3> QED
      BY <3>1, <3>2, <3>3
  <2> QED
    BY <1>2, <2>1, <2>2 DEF Balance
<1> QED
  BY <1>2, <1>4, <1>5, IdleGoes

\* It grants a write of CR0, asks for the window, opens its interrupts, has repaired a fault, hands one on.
LEMMA IdleOwns ==
  ASSUME Idle(c, hist, subject, phase), Hosting(c'), Grants \/ GrantsOwn \/ Asks \/ Opens \/ Repairs \/ Hands
  PROVE  Life(c', hist', subject, phase')
<1>1. /\ IsCpu(c) /\ IsHist(hist) /\ c.guest = FALSE /\ Owing(c, hist) /\ Working /\ c.rip.code = "host"
  BY IdleFacts DEF Grants, GrantsOwn, Asks, Opens, Repairs, Hands, Working, AtHost
<1>2. Same(hist, hist, {"owes", "sees"})
  BY <1>1 DEF Same
<1>3. PICK i : i = F(c, EntryIntrInfo)
  OBVIOUS
<1>4. ASSUME NEW e \in {GuestCr0, Cr0Shadow, CpuCtls}, NEW v, NEW h, Vmx(Instr("vmwrite", e, v), h),
             Same(hist, h, {"owes", "sees"}),
             h.owes = hist.owes \/ (h.owes \in {"cr0", "past"} /\ hist.owes \in {"skip", "cr0"})
      PROVE  Life(c', hist', subject, phase')
  <2>1. e \in HostFields
    BY <1>4 DEF HostFields
  <2>2. /\ c'.guest = FALSE /\ c'.stack = c.stack /\ hist' = h /\ phase' = "event"
        /\ \A g \in Field \ {e} : F(c', g) = F(c, g)
        /\ One(c'.irq) = One(c.irq) /\ One(c'.rip.code = "irq") = One(c.rip.code = "irq")
    BY <1>1, <1>4, <2>1, IdleWrites
  <2>3. \A g \in {GuestRip, GuestFlags, GuestEnv, EntryIntrInfo, ExitReason, ExitIntrInfo, ExitInstrLen} : F(c', g) = F(c, g)
    BY <2>2, WriteFields
  <2>4. Awaited(c') = Awaited(c)
    BY <2>3 DEF Awaited
  <2>5. Owing(c', h)
    <3>1. CASE h.owes = hist.owes
      BY <1>1, <2>2, <2>3, <3>1, OwingOn
    <3>2. CASE h.owes \in {"cr0", "past"} /\ hist.owes \in {"skip", "cr0"}
      <4>1. i = None /\ hist.owes # "burial"
        BY <1>1, <1>3, <3>2 DEF Owing
      <4>2. F(c', EntryIntrInfo) = i /\ \A g \in {ExitReason, ExitIntrInfo, ExitInstrLen} : F(c', g) = F(c, g)
        BY <1>3, <2>3
      <4>3. OwesNext(hist, h, i)
        BY <3>2, <4>1 DEF OwesNext
      <4> QED
        BY <1>1, <2>2, <4>1, <4>2, <4>3, OwingMoves
    <3> QED
      BY <1>4, <3>1, <3>2
  <2>6. h.owes = "burial" <=> hist.owes = "burial"
    BY <1>4
  <2> QED
    BY <1>4, <2>2, <2>3, <2>4, <2>5, <2>6, IdleKeeps
<1>5. CASE Grants
  <2>1. PICK v, h : h = [hist EXCEPT !.owes = "cr0", !.sees = v] /\ Vmx(Instr("vmwrite", Cr0Shadow, v), h) /\ hist.owes = "skip"
    BY <1>5, Zenon DEF Grants
  <2>2. Same(hist, h, {"owes", "sees"}) /\ h.owes = "cr0"
    BY <1>1, <2>1 DEF Same, IsHist, HistNames
  <2> QED
    BY <1>4, <2>1, <2>2
<1>6. CASE GrantsOwn
  <2>1. PICK v, h : h = [hist EXCEPT !.owes = "past"] /\ Vmx(Instr("vmwrite", GuestCr0, v), h) /\ hist.owes = "cr0"
    BY <1>6, Zenon DEF GrantsOwn
  <2>2. Same(hist, h, {"owes", "sees"}) /\ h.owes = "past"
    BY <1>1, <2>1 DEF Same, IsHist, HistNames
  <2> QED
    BY <1>4, <2>1, <2>2
<1>7. CASE Asks
  <2>1. PICK v : Vmx(Instr("vmwrite", CpuCtls, v), hist)
    BY <1>7, Zenon DEF Asks
  <2> QED
    BY <1>2, <1>4, <2>1
<1>8. CASE Opens \/ Repairs
  <2>1. PICK to : to = Next1(c)
    BY Zenon
  <2>2. c' = [c EXCEPT !.rip = to] \/ c' = [c EXCEPT !.rip = to, !.ifl = TRUE]
    BY <1>8, <2>1, Zenon DEF Repairs, Opens, Done, Decoded
  <2>3. /\ c'.guest = FALSE /\ c'.work = c.work /\ c'.irq = c.irq /\ c'.stack = c.stack /\ c'.rip.code = "host"
    <3>1. to.code = "host"
      BY <1>1, <2>1 DEF Next1, Place
    <3>2. CASE c' = [c EXCEPT !.rip = to]
      BY <1>1, <3>1, <3>2 DEF IsCpu, Names
    <3>3. CASE c' = [c EXCEPT !.rip = to, !.ifl = TRUE]
      BY <1>1, <3>1, <3>3 DEF IsCpu, Names
    <3> QED
      BY <2>2, <3>2, <3>3
  <2>4. phase' = "event" /\ (hist' = hist \/ (hist' = [hist EXCEPT !.owes = "none"] /\ hist.owes = "repair"))
    BY <1>1, <1>8 DEF Repairs, Opens, Done, Exited
  <2>5. /\ Same(hist, hist', {"owes", "sees"})
        /\ hist'.owes = hist.owes \/ (hist.owes = "repair" /\ hist'.owes = "none")
    <3>1. CASE hist' = hist
      BY <1>2, <3>1
    <3>2. CASE hist' = [hist EXCEPT !.owes = "none"] /\ hist.owes = "repair"
      BY <1>1, <3>2 DEF Same, IsHist, HistNames
    <3> QED
      BY <2>4, <3>1, <3>2
  <2>6. (\A g : F(c', g) = F(c, g)) /\ Awaited(c') = Awaited(c)
    BY <2>3, SameWork DEF Awaited
  <2>7. Owing(c', hist')
    <3>1. CASE hist'.owes = hist.owes
      BY <1>1, <2>3, <2>6, <3>1, OwingOn
    <3>2. CASE hist'.owes = "none" /\ hist.owes = "repair"
      <4>1. i = None /\ hist.owes # "burial"
        BY <1>1, <1>3, <3>2 DEF Owing
      <4>2. F(c', EntryIntrInfo) = i /\ \A g \in {ExitReason, ExitIntrInfo, ExitInstrLen} : F(c', g) = F(c, g)
        BY <1>3, <2>6
      <4>3. OwesNext(hist, hist', i)
        BY <3>2, <4>1 DEF OwesNext
      <4> QED
        BY <1>1, <2>3, <4>1, <4>2, <4>3, OwingMoves
    <3> QED
      BY <2>5, <3>1, <3>2
  <2>8. One(c'.irq) = One(c.irq) /\ One(c'.rip.code = "irq") = One(c.rip.code = "irq")
    BY <1>1, <2>3
  <2>9. hist'.owes = "burial" <=> hist.owes = "burial"
    BY <2>5
  <2> QED
    BY <2>3, <2>4, <2>5, <2>6, <2>7, <2>8, <2>9, IdleKeeps
<1>9. CASE Hands
  <2>1. PICK v, w, h : /\ h = [hist EXCEPT !.owes = "entry"] /\ Vmx(Instr("vmwrite", EntryIntrInfo, w), h)
                       /\ hist.owes = "repair" /\ v = F(c, ExitIntrInfo) /\ w = Event(v, v = "bp")
    BY <1>9, Zenon DEF Hands
  <2>2. EntryIntrInfo \in HostFields /\ Vmx(Instr("vmwrite", EntryIntrInfo, w), h)
    BY <2>1 DEF HostFields
  <2>3. /\ c'.guest = FALSE /\ c'.stack = c.stack /\ F(c', EntryIntrInfo) = w /\ hist' = h /\ phase' = "event"
        /\ \A g \in Field \ {EntryIntrInfo} : F(c', g) = F(c, g)
        /\ One(c'.irq) = One(c.irq) /\ One(c'.rip.code = "irq") = One(c.rip.code = "irq")
    BY <1>1, <2>2, IdleWrites
  <2>4. \A g \in {GuestRip, GuestFlags, GuestEnv, ExitReason, ExitIntrInfo, ExitInstrLen} : F(c', g) = F(c, g)
    <3>1. ASSUME NEW g \in {GuestRip, GuestFlags, GuestEnv, ExitReason, ExitIntrInfo, ExitInstrLen}
          PROVE  g \in Field \ {EntryIntrInfo}
      <4>1. g # EntryIntrInfo
        BY <3>1, LifeFields
      <4> QED
        BY <3>1, <4>1, WriteFields
    <3> QED
      BY <2>3, <3>1
  <2>5. v \in Raisable /\ i = None
    BY <1>1, <1>3, <2>1 DEF Owing
  <2>6. ~Awaited(c) /\ ~Awaited(c')
    <3>1. w.vector = v /\ v # "irq"
      BY <2>1, <2>5 DEF Event, Raisable
    <3> QED
      BY <1>3, <2>3, <2>5, <3>1 DEF Awaited
  <2>7. Same(hist, h, {"owes", "sees"}) /\ h.owes = "entry"
    BY <1>1, <2>1 DEF Same, IsHist, HistNames
  <2>8. Owing(c', h)
    <3>1. OwesNext(hist, h, w) /\ hist.owes # "burial" /\ w = F(c', EntryIntrInfo)
      BY <2>1, <2>3, <2>5, <2>7 DEF OwesNext
    <3>2. \A g \in {ExitReason, ExitIntrInfo, ExitInstrLen} : F(c', g) = F(c, g)
      BY <2>4
    <3> QED
      BY <1>1, <2>3, <2>7, <3>1, <3>2, OwingMoves
  <2>9. Awaited(c') = Awaited(c)
    BY <2>6 DEF Awaited
  <2>10. h.owes = "burial" <=> hist.owes = "burial"
    BY <2>1, <2>7
  <2> QED
    BY <2>3, <2>4, <2>7, <2>8, <2>9, <2>10, IdleKeeps
<1> QED
  BY <1>5, <1>6, <1>7, <1>8, <1>9

\* It injects an interrupt, which waits for the entry.
LEMMA IdleInjects ==
  ASSUME Idle(c, hist, subject, phase), Hosting(c'), Injects
  PROVE  Life(c', hist', subject, phase')
<1>1. /\ IsHist(hist) /\ c.guest = FALSE /\ Owing(c, hist) /\ Numbered(c, hist) /\ (hist.owes # "burial" => Resting(c, hist))
      /\ Working
  BY IdleFacts DEF Injects
<1>2. PICK w, n, h : /\ w = Event("irq", FALSE) /\ n = hist.raised + 1 /\ h = [hist EXCEPT !.raised = n]
                     /\ Vmx(Instr("vmwrite", EntryIntrInfo, w), h) /\ hist.owes = "none" /\ F(c, EntryIntrInfo) = None
  BY Zenon DEF Injects
<1>3. EntryIntrInfo \in HostFields /\ Vmx(Instr("vmwrite", EntryIntrInfo, w), h)
  BY <1>2 DEF HostFields
<1>4. /\ c'.guest = FALSE /\ c'.stack = c.stack /\ F(c', EntryIntrInfo) = w /\ hist' = h /\ phase' = "event"
      /\ \A g \in Field \ {EntryIntrInfo} : F(c', g) = F(c, g)
      /\ One(c'.irq) = One(c.irq) /\ One(c'.rip.code = "irq") = One(c.rip.code = "irq")
  BY <1>1, <1>3, IdleWrites
<1>5. \A g \in {GuestRip, GuestFlags, GuestEnv, ExitReason, ExitIntrInfo, ExitInstrLen} : F(c', g) = F(c, g)
  <2>1. ASSUME NEW g \in {GuestRip, GuestFlags, GuestEnv, ExitReason, ExitIntrInfo, ExitInstrLen}
        PROVE  g \in Field \ {EntryIntrInfo}
    <3>1. g # EntryIntrInfo
      BY <2>1, LifeFields
    <3> QED
      BY <2>1, <3>1, WriteFields
  <2> QED
    BY <1>4, <2>1
<1>6. /\ IsHist(h) /\ h.due = hist.due /\ h.ifl = hist.ifl /\ h.env = hist.env /\ h.owes = "none"
      /\ h.ended = hist.ended /\ h.reported = hist.reported /\ h.raised = n
  <2>1. Same(hist, h, {"raised"}) /\ h.raised = n
    BY <1>1, <1>2 DEF Same, IsHist, HistNames
  <2> QED
    BY <1>2, <2>1 DEF Same, HistNames
<1>7. OwesNext(hist, h, w) /\ hist.owes # "burial" /\ w = F(c', EntryIntrInfo)
  BY <1>2, <1>4, <1>6 DEF OwesNext
<1>8. Owing(c', h)
  BY <1>1, <1>4, <1>5, <1>7, OwingMoves
<1>9. Resting(c', h)
  BY <1>1, <1>4, <1>5, <1>6, <1>7, RestingOn
<1>10. ~Awaited(c) /\ Awaited(c')
  <2>1. w # None /\ w.vector = "irq"
    <3>1. w = [vector |-> "irq", soft |-> FALSE] /\ w.vector = "irq"
      BY <1>2 DEF Event
    <3>2. w \in [vector : Vectors, soft : BOOLEAN]
      BY <3>1 DEF Vectors
    <3> QED
      BY <3>1, <3>2, MemoryAssumption
  <2> QED
    BY <1>2, <1>4, <2>1 DEF Awaited
<1>11. Balance(c, hist, c', h) /\ h.raised \in Nat /\ h.ended \in Nat
  <2>1. PICK a, e, g, i, o, m :
          /\ a = One(c.irq) /\ e = One(c.rip.code = "irq") /\ g = One(F(c, GuestRip).code = "irq")
          /\ i = Irqs(c.stack["guest"]) /\ o = hist.ended /\ m = hist.reported
    OBVIOUS
  <2>2. {a, e, g} \subseteq {0, 1} /\ One(Awaited(c)) = 0 /\ One(Awaited(c')) = 1
    BY <1>10, <2>1, OneType
  <2>3. i \in Nat /\ o \in Nat /\ m \in Nat /\ hist.raised = a + 0 + e + g + i + o + m
    BY <1>1, <2>1, <2>2 DEF Numbered
  <2>4. n \in Nat /\ n + a + 0 + e + o = hist.raised + a + 1 + e + o
    BY <1>2, <2>2, <2>3
  <2> QED
    BY <1>4, <1>6, <2>1, <2>2, <2>3, <2>4 DEF Balance
<1> QED
  BY <1>4, <1>5, <1>6, <1>8, <1>9, <1>11, IdleGoes

\* It skips an instruction that it has emulated.
LEMMA IdleSkips ==
  ASSUME Idle(c, hist, subject, phase), Hosting(c'), Skips
  PROVE  Life(c', hist', subject, phase')
<1>1. /\ IsHist(hist) /\ c.guest = FALSE /\ Owing(c, hist) /\ Numbered(c, hist) /\ (hist.owes # "burial" => Resting(c, hist))
      /\ Working
  BY IdleFacts DEF Skips
<1>2. PICK w, n, h : /\ w = Past /\ n = hist.due + (IF F(c, GuestRip).code = "main" THEN 1 ELSE 0)
                     /\ h = [hist EXCEPT !.owes = "none", !.due = n]
                     /\ Vmx(Instr("vmwrite", GuestRip, w), h) /\ hist.owes \in {"past", "skip"}
  <2>1. hist.owes \in {"past", "skip"}
    BY DEF Skips
  <2> QED
    BY <2>1, Zenon DEF Skips
<1>3. GuestRip \in HostFields /\ Vmx(Instr("vmwrite", GuestRip, w), h)
  BY <1>2 DEF HostFields
<1>4. /\ c'.guest = FALSE /\ c'.stack = c.stack /\ F(c', GuestRip) = w /\ hist' = h /\ phase' = "event"
      /\ \A g \in Field \ {GuestRip} : F(c', g) = F(c, g)
      /\ One(c'.irq) = One(c.irq) /\ One(c'.rip.code = "irq") = One(c.rip.code = "irq")
  BY <1>1, <1>3, IdleWrites
<1>5. \A g \in {EntryIntrInfo, GuestFlags, GuestEnv, ExitReason, ExitIntrInfo, ExitInstrLen} : F(c', g) = F(c, g)
  BY <1>4, WriteFields
<1>6. /\ IsHist(h) /\ h.due = n /\ h.ifl = hist.ifl /\ h.env = hist.env /\ h.owes = "none"
      /\ h.ended = hist.ended /\ h.reported = hist.reported /\ h.raised = hist.raised
  <2>1. Same(hist, h, {"owes", "due"}) /\ h.due = n /\ h.owes = "none"
    BY <1>1, <1>2 DEF Same, IsHist, HistNames
  <2> QED
    BY <2>1 DEF Same, HistNames
<1>7. F(c, EntryIntrInfo) = None /\ F(c, ExitInstrLen) = 1 /\ hist.owes # "burial"
  BY <1>1, <1>2 DEF Owing
<1>8. Owing(c', h)
  <2>1. F(c', EntryIntrInfo) = None /\ OwesNext(hist, h, None)
    BY <1>5, <1>6, <1>7 DEF OwesNext
  <2> QED
    BY <1>1, <1>4, <1>5, <1>7, <2>1, OwingMoves
<1>9. PICK r, st, fl : r = F(c, GuestRip) /\ st = c.stack["guest"] /\ fl = F(c, GuestFlags)
  OBVIOUS
<1>10. Program(st, r, fl, hist) /\ r \in Spots /\ hist.due \in Nat /\ F(c, GuestEnv) = hist.env
  <2>1. Program(st, r, fl, hist) /\ F(c, GuestEnv) = hist.env
    BY <1>1, <1>7, <1>9 DEF Resting
  <2> QED
    BY <2>1, ProgramMoves
<1>11. r = [code |-> r.code, at |-> r.at] /\ r.at \in Nat /\ w = [code |-> r.code, at |-> r.at + 1] /\ w \in Spots
  <2>1. r = [code |-> r.code, at |-> r.at] /\ r.at \in Nat /\ r.code \in Vectors \cup {"main"}
    BY <1>10, SpotShape
  <2>2. w = [r EXCEPT !.at = @ + 1]
    BY <1>2, <1>7, <1>9 DEF Past
  <2>3. w = [code |-> r.code, at |-> r.at + 1]
    BY <2>1, <2>2
  <2> QED
    BY <2>1, <2>3 DEF Spots
<1>12. Program(st, w, fl, h)
  <2>1. CASE r.code = "main"
    <3>1. r = Place("main", hist.due) /\ fl = hist.ifl /\ fl \in BOOLEAN
      BY <1>10, <2>1, ProgramMoves
    <3>2. w = Place("main", hist.due + 1) /\ h.due = hist.due + 1
      BY <1>2, <1>6, <1>9, <1>11, <2>1, <3>1 DEF Place
    <3> QED
      BY <1>6, <1>10, <2>1, <3>1, <3>2, ProgramMoves
  <2>2. CASE r.code # "main"
    <3>1. w.code = r.code /\ h.due = hist.due
      BY <1>2, <1>6, <1>9, <1>10, <1>11, <2>2
    <3>2. Program(st, w, fl, hist)
      BY <1>10, <1>11, <2>2, <3>1, ProgramMoves
    <3> QED
      BY <1>6, <3>1, <3>2, ProgramMoves
  <2> QED
    BY <2>1, <2>2
<1>13. Resting(c', h)
  BY <1>4, <1>5, <1>6, <1>9, <1>10, <1>12 DEF Resting
<1>14. F(c', GuestRip).code = F(c, GuestRip).code /\ Awaited(c') = Awaited(c)
  <2>1. F(c', GuestRip).code = F(c, GuestRip).code
    BY <1>4, <1>9, <1>11
  <2> QED
    BY <1>5, <2>1 DEF Awaited
<1>15. Balance(c, hist, c', h) /\ h.raised \in Nat /\ h.ended \in Nat
  <2>1. One(Awaited(c')) = One(Awaited(c))
    BY <1>14
  <2>2. PICK a, b, e, g, i, o, m :
          /\ a = One(c.irq) /\ b = One(Awaited(c)) /\ e = One(c.rip.code = "irq") /\ g = One(F(c, GuestRip).code = "irq")
          /\ i = Irqs(c.stack["guest"]) /\ o = hist.ended /\ m = hist.reported
    OBVIOUS
  <2>3. {a, b, e, g} \subseteq {0, 1}
    BY <2>2, OneType
  <2>4. i \in Nat /\ o \in Nat /\ m \in Nat /\ hist.raised = a + b + e + g + i + o + m
    BY <1>1, <2>2 DEF Numbered
  <2>5. hist.raised \in Nat
    BY <2>3, <2>4
  <2> QED
    BY <1>4, <1>6, <2>1, <2>2, <2>4, <2>5 DEF Balance
<1> QED
  BY <1>4, <1>6, <1>8, <1>13, <1>14, <1>15, IdleGoes

(* the event that waits is one that a hypervisor hands on or injects, and a trap has its length *)
Waits(i, v) == v \in Raisable \cup {"irq"} /\ i.vector = v /\ i.soft = (v = "bp")
LEMMA WaitsShape ==
  ASSUME NEW x, NEW h, Owing(x, h), h.owes \in {"none", "entry"}, NEW i, i = F(x, EntryIntrInfo)
  PROVE  /\ i # None => \E v : Waits(i, v)
         /\ h.owes = "entry" => i # None
<1>1. ASSUME NEW v \in Raisable \cup {"irq"}, NEW b, b = (v = "bp"), i = Event(v, b)
      PROVE  Waits(i, v) /\ i # None
  <2>0. i = [vector |-> v, soft |-> b]
    BY <1>1, Zenon DEF Event
  <2>1. b \in BOOLEAN
    <3>1. CASE v = "bp"
      <4>1. b = TRUE
        BY <1>1, <3>1
      <4> QED
        BY <4>1
    <3>2. CASE v # "bp"
      <4>1. b = FALSE
        BY <1>1, <3>2
      <4> QED
        BY <4>1
    <3> QED
      BY <3>1, <3>2
  <2>2. i.vector = v /\ i.soft = b
    BY <2>0
  <2>3. i \in [vector : Vectors, soft : BOOLEAN]
    <3>1. v \in Vectors
      BY DEF Vectors, Raisable
    <3> QED
      BY <2>0, <2>1, <3>1
  <2> QED
    BY <1>1, <2>2, <2>3, MemoryAssumption, Zenon DEF Waits
<1>2. CASE h.owes = "none"
  <2>1. i = None \/ i = Event("irq", FALSE)
    BY <1>2 DEF Owing
  <2>2. FALSE = ("irq" = "bp")
    OBVIOUS
  <2> QED
    BY <1>1, <1>2, <2>1, <2>2
<1>3. CASE h.owes = "entry"
  <2>1. PICK v \in Raisable : i = Event(v, v = "bp")
    BY <1>3 DEF Owing
  <2>2. PICK b : b = (v = "bp") /\ i = Event(v, b)
    BY <2>1, Zenon
  <2> QED
    BY <1>1, <2>2
<1> QED
  BY <1>2, <1>3

\* What is due of a program when an entry delivers a trap behind its instruction (vm_entry).
LEMMA EntryProgram ==
  ASSUME NEW st, NEW r, NEW fl, Program(st, r, fl, hist), NEW soft \in BOOLEAN,
         NEW to, to = (IF soft THEN [r EXCEPT !.at = @ + 1] ELSE r),
         NEW k, k.due = hist.due + (IF soft /\ r.code = "main" THEN 1 ELSE 0), k.ifl = hist.ifl
  PROVE  Program(st, to, fl, k) /\ to.code = r.code /\ to \in Spots
<1>1. r \in Spots /\ hist.due \in Nat /\ fl \in BOOLEAN
  BY ProgramMoves
<1>2. r = [code |-> r.code, at |-> r.at] /\ r.at \in Nat /\ r.code \in Vectors \cup {"main"}
  BY <1>1, SpotShape
<1>3. CASE ~soft
  <2>1. to = r /\ k.due = hist.due
    BY <1>1, <1>3
  <2> QED
    BY <1>1, <2>1, ProgramMoves
<1>4. CASE soft
  <2>1. to = [r EXCEPT !.at = @ + 1]
    BY <1>4
  <2>2. to = [code |-> r.code, at |-> r.at + 1]
    BY <1>2, <2>1
  <2>3. to \in Spots /\ to.code = r.code
    BY <1>2, <2>2 DEF Spots
  <2>4. CASE r.code = "main"
    <3>1. r = Place("main", hist.due) /\ fl = hist.ifl
      BY <2>4, ProgramMoves
    <3>2. to = Place("main", hist.due + 1) /\ k.due = hist.due + 1
      BY <1>4, <2>2, <2>4, <3>1 DEF Place
    <3>3. fl \in BOOLEAN /\ k.due = hist.due + 1 /\ k.ifl = fl
      BY <1>1, <3>1, <3>2
    <3>4. Program(st, Place("main", hist.due + 1), fl, k)
      BY <2>4, <3>3, ProgramMoves
    <3> QED
      BY <2>3, <3>2, <3>4
  <2>5. CASE r.code # "main"
    <3>0. \A p \in Spots : p.code = r.code => Program(st, p, fl, hist)
      BY <2>5, ProgramMoves
    <3>1. Program(st, to, fl, hist)
      BY <2>3, <3>0
    <3>2. k.due = hist.due
      <4>1. (IF soft /\ r.code = "main" THEN 1 ELSE 0) = 0
        BY <2>5
      <4>2. k.due = hist.due + 0
        BY <4>1
      <4> QED
        BY <1>1, <4>2
    <3> QED
      BY <2>3, <3>1, <3>2, ProgramMoves
  <2> QED
    BY <2>4, <2>5
<1> QED
  BY <1>3, <1>4

(* d runs the guest of x's fields, short of where it runs *)
Entered1(x, d) == /\ IsCpu(d) /\ d.guest = TRUE /\ d.stack = x.stack /\ d.irq = x.irq /\ d.idt = x.idt /\ d.pend = None
                  /\ d.env = F(x, GuestEnv) /\ d.ifl = F(x, GuestFlags)
                  /\ \A g \in {ExitReason, ExitIntrInfo, ExitInstrLen, HostRip} : F(d, g) = F(x, g)
LEMMA BegunEnters ==
  ASSUME IsCpu(c), c.pend = None, NEW y, Agree(c, y, {"rip"}), NEW z, Begun(y, z), \A g \in Field \ {EntryIntrInfo} : F(z, g) = F(y, g)
  PROVE  Entered1(c, z)
<1>1. /\ y.work = c.work /\ y.stack = c.stack /\ y.irq = c.irq /\ y.idt = c.idt /\ y.pend = None
  BY DEF Agree, Names
<1>2. /\ IsCpu(z) /\ z.guest = TRUE /\ z.stack = y.stack /\ z.irq = y.irq /\ z.idt = y.idt /\ z.pend = y.pend
      /\ z.env = F(y, GuestEnv) /\ z.ifl = F(y, GuestFlags)
  BY DEF Begun, Agree, Entering, Names
<1>3. \A g : F(y, g) = F(c, g)
  BY <1>1, SameWork
<1>4. {ExitReason, ExitIntrInfo, ExitInstrLen, HostRip} \subseteq Field \ {EntryIntrInfo}
  <2>1. HostRip # EntryIntrInfo
    BY DEF HostRip, EntryIntrInfo
  <2> QED
    BY <2>1, LifeFields
<1>5. \A g \in {ExitReason, ExitIntrInfo, ExitInstrLen, HostRip} : F(z, g) = F(y, g)
  BY <1>4
<1> QED
  BY <1>1, <1>2, <1>3, <1>5 DEF Entered1

\* What the entry counts, once the hypervisor has no more to do with it.
LEMMA EntryNumbers ==
  ASSUME Idle(c, hist, subject, phase), c.rip.code = "host", NEW v, v = "irq" <=> Awaited(c),
         NEW r, r.code = F(c, GuestRip).code, NEW h, h.raised = hist.raised, h.ended = hist.ended, h.reported = hist.reported
  PROVE  /\ IrqsIn(c) /\ h.ended \in Nat /\ h.reported \in Nat
         /\ h.raised = One(c.irq) + One(v = "irq") + 0 + One(r.code = "irq") + IrqsOf(c) + h.ended + h.reported
<1>1. Numbered(c, hist) /\ AtWork(c) /\ Irqs(c.stack["host"]) = 0
  BY IdleFacts, HostIrqs
<1>2. PICK a, b, e, i, o, m :
        /\ a = One(c.irq) /\ b = One(Awaited(c)) /\ e = One(F(c, GuestRip).code = "irq")
        /\ i = Irqs(c.stack["guest"]) /\ o = hist.ended /\ m = hist.reported
  OBVIOUS
<1>3. {a, b, e} \subseteq {0, 1} /\ One(v = "irq") = b /\ One(c.rip.code = "irq") = 0 /\ One(r.code = "irq") = e
  BY <1>2, OneType
<1>4. i \in Nat /\ o \in Nat /\ m \in Nat /\ hist.raised = a + b + 0 + e + i + o + m
  BY <1>1, <1>2, <1>3 DEF Numbered
<1>5. IrqsOf(c) = i
  BY <1>1, <1>2, <1>4 DEF IrqsOf
<1>6. hist.raised = a + b + 0 + e + i + o + m
  BY <1>3, <1>4
<1> QED
  BY <1>1, <1>2, <1>3, <1>4, <1>5, <1>6 DEF IrqsIn

(* the hypervisor has no more to do with its last exit; an entry that exits at once leaves it what that one asks for *)
Onward(h, n, d) == /\ IsHist(h) /\ h.owes = (IF d.guest THEN "none" ELSE Owes(d)) /\ h.due = n /\ h.ifl = hist.ifl /\ h.env = hist.env
                   /\ h.raised = hist.raised /\ h.ended = hist.ended /\ h.reported = hist.reported
LEMMA EntryOwes ==
  ASSUME Idle(c, hist, subject, phase), NEW d, d.guest = TRUE, NEW h, NEW n, Onward(h, n, d),
         \A g \in {ExitReason, ExitIntrInfo, ExitInstrLen} : F(d, g) = F(c, g), F(d, EntryIntrInfo) = None
  PROVE  Owing(d, h) /\ h.owes # "burial"
<1>1. Owing(c, hist) /\ h.owes = "none" /\ hist.owes # "burial"
  BY IdleFacts DEF Onward, Idle
<1>2. ~Fatal(d)
  BY <1>1 DEF Owing, Fatal
<1> QED
  BY <1>1, <1>2 DEF Owing

\* An entry without an event goes on where the program was.
LEMMA EntryQuiet ==
  ASSUME Idle(c, hist, subject, phase), c.rip.code = "host", F(c, EntryIntrInfo) = None,
         NEW d, Entered1(c, d), d.rip = F(c, GuestRip), F(d, EntryIntrInfo) = None, NEW h, Onward(h, hist.due, d)
  PROVE  Life(d, h, subject, "event")
<1>1. Owing(d, h)
  BY EntryOwes DEF Entered1
<1>2. Resting(c, hist) /\ subject \in Hosted /\ World(subject) = "guest"
  BY IdleFacts DEF Idle, World, Hosted
<1>3. Program(c.stack["guest"], F(c, GuestRip), F(c, GuestFlags), h) /\ d.env = h.env
  <2>1. h.due = hist.due /\ h.ifl = hist.ifl /\ h.env = hist.env
    BY DEF Onward
  <2>2. Program(c.stack["guest"], F(c, GuestRip), F(c, GuestFlags), hist) /\ F(c, GuestEnv) = hist.env
    BY <1>2 DEF Resting
  <2>3. Program(c.stack["guest"], F(c, GuestRip), F(c, GuestFlags), h)
    BY <2>1, <2>2, ProgramMoves
  <2> QED
    BY <2>1, <2>2, <2>3 DEF Entered1
<1>4. d.rip.code # "df"
  <2>1. d.rip.code \in Handlers \cup {"main"}
    BY <1>3, ProgramMoves
  <2> QED
    BY <2>1 DEF Handlers
<1>5. Living(d, h, subject)
  BY <1>2, <1>3 DEF Living, Entered1
<1>6. Active(d, subject)
  BY DEF Active, Entered1
<1>7. Counted(d, h, subject)
  <2>1. ("none" = "irq") <=> Awaited(c)
    BY DEF Awaited
  <2>2. /\ IrqsIn(c) /\ h.ended \in Nat /\ h.reported \in Nat
        /\ h.raised = One(c.irq) + One("none" = "irq") + 0 + One(d.rip.code = "irq") + IrqsOf(c) + h.ended + h.reported
    BY <2>1, EntryNumbers DEF Onward
  <2>3. PICK a, e, i, j : /\ a = One(c.irq) /\ e = One(d.rip.code = "irq")
                          /\ i = Irqs(c.stack["host"]) /\ j = Irqs(c.stack["guest"])
    OBVIOUS
  <2>4. {a, e} \subseteq {0, 1} /\ One("none" = "irq") = 0 /\ One(Awaited(d)) = 0 /\ One(Stored(d, subject)) = 0
    BY <1>6, <2>3, OneType DEF Awaited, Stored
  <2>5. i \in Nat /\ j \in Nat /\ h.raised = a + 0 + e + 0 + i + j + h.ended + h.reported
    BY <2>2, <2>3, <2>4 DEF IrqsIn, IrqsOf
  <2>6. d.irq = c.irq /\ d.stack = c.stack
    BY DEF Entered1
  <2> QED
    BY <2>2, <2>3, <2>4, <2>5, <2>6 DEF Counted
<1> QED
  BY <1>1, <1>2, <1>4, <1>5, <1>6, <1>7 DEF Life, Hosted, Onward

(* z is a guest entered at `to`, where the event v of the entry is to be delivered *)
Entrance(v, soft, r, to, z) ==
  /\ Idle(c, hist, subject, phase) /\ c.rip.code = "host" /\ Waits(F(c, EntryIntrInfo), v) /\ F(c, EntryIntrInfo) # None
  /\ soft = F(c, EntryIntrInfo).soft /\ r = F(c, GuestRip) /\ to = (IF soft THEN [r EXCEPT !.at = @ + 1] ELSE r)
  /\ Entered1(c, z) /\ F(z, EntryIntrInfo) = None /\ z.rip = to /\ z.start = to
Dues(soft, r) == hist.due + (IF soft /\ r.code = "main" THEN 1 ELSE 0)
(* what is so of it, and of the history once the entry is made *)
Onset(v, to, z, h) ==
  /\ z.guest = TRUE /\ z.stack = c.stack /\ z.irq = c.irq /\ z.idt = Vectors /\ z.pend = None
  /\ z.env = F(c, GuestEnv) /\ z.ifl = F(c, GuestFlags) /\ IsCpu(z)
  /\ v \in Handlers /\ v # "df" /\ v \in Raisable \cup {"irq"}
  /\ subject \in Hosted /\ World(subject) = "guest" /\ Resting(c, hist)
  /\ Program(c.stack["guest"], to, F(c, GuestFlags), h) /\ to \in Spots
  /\ IsHist(h) /\ h.ended \in Nat /\ h.reported \in Nat /\ IrqsIn(c)
  /\ h.raised = One(c.irq) + One(v = "irq") + 0 + One(to.code = "irq") + IrqsOf(c) + h.ended + h.reported
LEMMA EntryFacts ==
  ASSUME NEW v, NEW soft, NEW r, NEW to, NEW z, Entrance(v, soft, r, to, z), NEW h, NEW d, Onward(h, Dues(soft, r), d)
  PROVE  Onset(v, to, z, h)
<1>1. Idle(c, hist, subject, phase) /\ c.rip.code = "host" /\ Entered1(c, z) /\ Waits(F(c, EntryIntrInfo), v)
  BY DEF Entrance
<1>2. c.idt = Vectors /\ Resting(c, hist)
  BY <1>1, IdleFacts DEF Hosting, Kept, Idle
<1>3. v \in Handlers /\ v # "df" /\ v \in Raisable \cup {"irq"}
  BY <1>1 DEF Waits, Raisable, Handlers, Vectors
<1>4. soft \in BOOLEAN
  <2>1. soft = (v = "bp")
    BY DEF Waits, Entrance
  <2> QED
    BY <2>1
<1>5. Program(c.stack["guest"], to, F(c, GuestFlags), h) /\ to.code = r.code /\ to \in Spots
  <2>1. Program(c.stack["guest"], r, F(c, GuestFlags), hist) /\ to = (IF soft THEN [r EXCEPT !.at = @ + 1] ELSE r)
    BY <1>2 DEF Resting, Entrance
  <2>2. h.due = hist.due + (IF soft /\ r.code = "main" THEN 1 ELSE 0) /\ h.ifl = hist.ifl
    BY DEF Onward, Dues
  <2> QED
    BY <1>4, <2>1, <2>2, EntryProgram
<1>6. /\ IrqsIn(c) /\ h.ended \in Nat /\ h.reported \in Nat
      /\ h.raised = One(c.irq) + One(v = "irq") + 0 + One(to.code = "irq") + IrqsOf(c) + h.ended + h.reported
  <2>1. h.raised = hist.raised /\ h.ended = hist.ended /\ h.reported = hist.reported /\ to.code = F(c, GuestRip).code
    BY <1>5 DEF Onward, Entrance
  <2>2. (v = "irq") <=> Awaited(c)
    BY DEF Awaited, Waits, Entrance
  <2> QED
    BY <1>1, <2>1, <2>2, EntryNumbers
<1> QED
  BY <1>1, <1>2, <1>3, <1>5, <1>6 DEF Onset, Entered1, Idle, World, Hosted, Onward

\* An entry with an event runs its handler, on a frame that returns to where the program was ...
LEMMA EntryGates ==
  ASSUME NEW v, NEW soft, NEW r, NEW to, NEW z, Entrance(v, soft, r, to, z), NEW h, NEW d, Onward(h, Dues(soft, r), d),
         Gates(z, d, v, TRUE)
  PROVE  Life(d, h, subject, "event")
<1>1. /\ z.guest = TRUE /\ z.stack = c.stack /\ z.irq = c.irq /\ z.pend = None
      /\ z.env = F(c, GuestEnv) /\ z.ifl = F(c, GuestFlags) /\ IsCpu(z)
      /\ v \in Handlers /\ v # "df" /\ subject \in Hosted /\ World(subject) = "guest" /\ Resting(c, hist)
      /\ Program(c.stack["guest"], to, F(c, GuestFlags), h)
      /\ IsHist(h) /\ h.ended \in Nat /\ h.reported \in Nat /\ IrqsIn(c)
      /\ h.raised = One(c.irq) + One(v = "irq") + 0 + One(to.code = "irq") + IrqsOf(c) + h.ended + h.reported
  <2>1. Onset(v, to, z, h)
    BY EntryFacts
  <2> QED
    BY <2>1 DEF Onset
<1>2. z.rip = to /\ Entered1(c, z) /\ F(z, EntryIntrInfo) = None /\ Idle(c, hist, subject, phase)
  BY DEF Entrance
<1>3. /\ d.guest = TRUE /\ d.ifl = FALSE /\ d.rip = Place(v, 0) /\ d.pend = None /\ d.irq = c.irq /\ d.env = F(c, GuestEnv)
      /\ d.work = z.work
  BY <1>1 DEF Gates, Agree, Names
<1>4. /\ F(d, EntryIntrInfo) = None
      /\ \A g \in {ExitReason, ExitIntrInfo, ExitInstrLen} : F(d, g) = F(c, g)
  <2>1. \A g : F(d, g) = F(z, g)
    BY <1>3, SameWork
  <2> QED
    BY <1>2, <2>1 DEF Entered1
<1>5. Handling(d, subject, h, v)
  <2>1. Owing(d, h)
    BY <1>2, <1>3, <1>4, EntryOwes
  <2> QED
    BY <1>1, <1>3, <2>1 DEF Handling, Active, Hosted
<1>6. Tally(z, to, d, h, v)
  <2>1. One(Awaited(d)) = 0
    BY <1>4, OneType DEF Awaited
  <2> QED
    BY <1>1, <1>3, <2>1 DEF Tally, IrqsIn, IrqsOf
<1>7. Upon(z, subject, d, [rip |-> to, ifl |-> z.ifl, whole |-> TRUE])
  <2>1. Who(z) = "guest" /\ Frame(z, TRUE) = [rip |-> to, ifl |-> z.ifl, whole |-> TRUE]
    BY <1>1, <1>2 DEF Who, Frame
  <2> QED
    BY <1>1, <2>1 DEF Gates, Upon
<1>8. d.env = h.env
  BY <1>1, <1>3 DEF Resting, Onward
<1>9. Program(z.stack[World(subject)], to, z.ifl, h) /\ subject \in Hosted \cup {"native"}
  BY <1>1
<1> QED
  BY <1>1, <1>5, <1>6, <1>7, <1>8, <1>9, LifePush

\* ... or, if its stack faults under a page fault, exits or runs the handler of the double fault.
LEMMA EntryFalls ==
  ASSUME NEW soft, NEW r, NEW to, NEW z, Entrance("pf", soft, r, to, z), NEW h, NEW d, Onward(h, Dues(soft, r), d),
         NEW q, IsCpu(q), Half(z, q), Falls(z, q, d)
  PROVE  Life(d, h, subject, "event")
<1>1. /\ z.guest = TRUE /\ z.stack = c.stack /\ z.irq = c.irq /\ z.ifl = F(c, GuestFlags)
      /\ subject \in Hosted /\ World(subject) = "guest"
      /\ Program(c.stack["guest"], to, F(c, GuestFlags), h) /\ to \in Spots
      /\ IsHist(h) /\ h.ended \in Nat /\ h.reported \in Nat /\ IrqsIn(c)
      /\ h.raised = One(c.irq) + One("pf" = "irq") + 0 + One(to.code = "irq") + IrqsOf(c) + h.ended + h.reported
  <2>1. Onset("pf", to, z, h)
    BY EntryFacts
  <2> QED
    BY <2>1 DEF Onset
<1>2. /\ z.start = to /\ Entered1(c, z) /\ F(z, EntryIntrInfo) = None /\ Idle(c, hist, subject, phase) /\ c.rip.code = "host"
  BY DEF Entrance
<1>3. c.stack["host"] = <<>> /\ F(c, HostRip) = Place("host", 1)
  <2>1. AtWork(c) /\ F(c, HostRip) = Place("host", 1)
    BY <1>2, IdleFacts DEF Hosting, Kept
  <2>2. ~InHandler(c)
    BY <1>2 DEF InHandler, Place
  <2> QED
    BY <2>1, <2>2 DEF AtWork, Bare
<1>4. /\ q.work = z.work /\ q.guest = TRUE /\ q.irq = c.irq /\ q.rip = to /\ q.ifl = FALSE /\ q.pend = None
      /\ Who(z) = "guest" /\ Who(q) = "guest"
  BY <1>1, <1>2 DEF Half, Agree, Names, Who
<1>5. Upon(c, subject, q, [rip |-> to, ifl |-> F(c, GuestFlags), whole |-> FALSE])
  BY <1>1, <1>2, <1>4 DEF Half, Upon
<1>6. c.stack[World(subject)] \in Seq(FrameSet) /\ F(c, GuestFlags) \in BOOLEAN
  BY <1>1 DEF Program
<1>7. IrqsIn(q) /\ IrqsOf(q) = IrqsOf(c) /\ q.stack[World(subject)] \in Seq(FrameSet)
  BY <1>1, <1>5, <1>6, HalfFrame
<1>8. CASE \E w, reason, vector :
             /\ Left(w, d, reason, vector) /\ (w = q \/ Apart(q, w))
             /\ (reason = "exception" /\ vector = "df") \/ (reason = "triple" /\ vector = None)
  <2>1. PICK w, reason, vector : /\ Left(w, d, reason, vector) /\ (w = q \/ Apart(q, w))
                                 /\ (reason = "exception" /\ vector = "df") \/ (reason = "triple" /\ vector = None)
    BY <1>8, Zenon
  <2>2. q.stack["host"] = <<>>
    BY <1>1, <1>3, <1>5 DEF Upon, Worlds
  <2>3. w.work = q.work /\ w.stack["host"] = <<>>
    BY <1>4, <2>1, <2>2, ApartCpu DEF Apart
  <2>4. F(w, EntryIntrInfo) = None /\ F(w, HostRip) = Place("host", 1)
    BY <1>2, <1>3, <1>4, <2>3, SameWork DEF Entered1
  <2>5. (reason = "triple" \/ vector = "df") /\ reason \in Between \cup {"exception"}
    BY <2>1 DEF Between
  <2>6. PICK p : p = IF reason \in Between THEN w.rip ELSE w.start
    BY Zenon
  <2>7. Exiting(w, d, reason, vector, h, p)
    BY <1>1, <2>1, <2>3, <2>4, <2>5, <2>6, Zenon DEF Exiting
  <2>8. d.guest = FALSE /\ F(d, ExitReason) = reason
    BY <2>1 DEF Left, Home, Holds
  <2>9. Informs(h, d, h)
    <3>1. h.owes = Owes(d) /\ ~Told(d) /\ Same(h, h, {"owes", "reported"})
      BY <1>1, <2>1, <2>8 DEF Onward, Told, Same
    <3> QED
      BY <1>1, <3>1 DEF Informs
  <2> QED
    BY <1>1, <2>7, <2>9, LifeExits
<1>9. CASE Gates(q, d, "df", TRUE)
  <2>1. /\ d.work = z.work /\ d.guest = TRUE /\ d.ifl = FALSE /\ d.pend = None /\ d.rip = Place("df", 0) /\ d.irq = c.irq
    BY <1>4, <1>9 DEF Gates, Agree, Names
  <2>2. /\ F(d, EntryIntrInfo) = None
        /\ \A g \in {ExitReason, ExitIntrInfo, ExitInstrLen} : F(d, g) = F(c, g)
    <3>1. \A g : F(d, g) = F(z, g)
      BY <2>1, SameWork
    <3> QED
      BY <1>2, <3>1 DEF Entered1
  <2>3. Handling(d, subject, h, "df")
    <3>1. Owing(d, h)
      BY <1>2, <2>1, <2>2, EntryOwes
    <3> QED
      BY <1>1, <2>1, <3>1 DEF Handling, Active, Hosted
  <2>4. Tally(q, to, d, h, "df")
    <3>1. One(Awaited(d)) = 0 /\ One("pf" = "irq") = 0 /\ One("df" = "irq") = 0
      BY <2>2, OneType DEF Awaited
    <3> QED
      BY <1>1, <1>7, <2>1, <3>1 DEF Tally
  <2>5. Upon(q, subject, d, [rip |-> to, ifl |-> FALSE, whole |-> TRUE])
    <3>1. Frame(q, TRUE) = [rip |-> to, ifl |-> FALSE, whole |-> TRUE]
      BY <1>4 DEF Frame
    <3> QED
      BY <1>1, <1>4, <1>9, <3>1 DEF Gates, Upon
  <2> QED
    BY <1>1, <1>7, <2>3, <2>4, <2>5, LifeFalls
<1> QED
  BY <1>1, <1>8, <1>9, Zenon DEF Falls

LEMMA EntryHandles ==
  ASSUME NEW v, NEW soft, NEW r, NEW to, NEW z, Entrance(v, soft, r, to, z), NEW bad \in 0..2, NEW f, f.vector = v,
         NEW d, d = DispatchRaw(z, f, bad), NEW h, Onward(h, Dues(soft, r), d)
  PROVE  (v # "pf" /\ d.pend # None) \/ Life(d, h, subject, "event")
<1>1. z.guest = TRUE /\ z.idt = Vectors /\ z.pend = None /\ IsCpu(z) /\ v \in Raisable \cup {"irq"}
  <2>1. Onset(v, to, z, h)
    BY EntryFacts
  <2> QED
    BY <2>1 DEF Onset
<1>2. z.rip = to /\ z.start = to
  BY DEF Entrance
<1>3. Handed(z, v, d) \/ (v = "pf" /\ Doubled(z, d))
  <2>1. Handed(z, v, d) \/ (v = "pf" /\ Doubled(z, d)) \/ (~z.guest /\ d.reset)
    BY <1>1, RawShape
  <2> QED
    BY <1>1, <2>1
<1>4. CASE Handed(z, v, d)
  <2>1. PICK w : /\ IsCpu(w) /\ Agree(z, w, {"rip"}) /\ w.rip = (IF v \in Traps THEN z.rip ELSE z.start)
                 /\ Gates(w, d, v, TRUE) \/ (v # "pf" /\ Halved(w, d, v))
    BY <1>4 DEF Handed
  <2>2. w = z
    BY <1>1, <1>2, <2>1 DEF Agree, IsCpu, Names
  <2>3. Halved(w, d, v) => d.pend # None
    BY PushFault DEF Halved
  <2>4. Gates(z, d, v, TRUE) => Life(d, h, subject, "event")
    BY EntryGates
  <2> QED
    BY <2>1, <2>2, <2>3, <2>4
<1>5. CASE v = "pf" /\ Doubled(z, d)
  <2>1. PICK q : IsCpu(q) /\ Half(z, q) /\ Falls(z, q, d)
    BY <1>5 DEF Doubled
  <2>2. Entrance("pf", soft, r, to, z)
    BY <1>5
  <2> QED
    BY <2>1, <2>2, EntryFalls
<1> QED
  BY <1>3, <1>4, <1>5

\* The hypervisor enters its guest.
LEMMA IdleResumes ==
  ASSUME Idle(c, hist, subject, phase), Resumes
  PROVE  hist'.torn \/ Life(c', hist', subject, phase')
<1>1. IsCpu(c) /\ Hosting(c) /\ c.guest = FALSE /\ c.rip.code = "host" /\ c.pend = None /\ IsHist(hist) /\ Owing(c, hist)
      /\ hist.owes \in {"none", "entry"} /\ phase' = "event" /\ hist.due \in Nat
  <2>1. Working /\ hist.owes \in {"none", "entry"} /\ phase' = "event"
    BY DEF Resumes, Done
  <2>2. hist.due \in Nat
    BY <2>1, IdleFacts, ProgramMoves DEF Resting, Idle
  <2> QED
    BY <2>1, <2>2, IdleFacts DEF Working, AtHost, AtWork
<1>2. PICK op, y, bad, d, i, g :
        /\ bad \in 0..2 /\ y = Decoded /\ op = (IF Launched(c) THEN "vmresume" ELSE "vmlaunch")
        /\ i = F(c, EntryIntrInfo) /\ d = ExecuteVmx(y, Instr(op, 0, 0), bad)
        /\ g = (IF i = None THEN Resumed(d) ELSE Torn(Resumed(d), i.vector, d)) /\ c' = d /\ hist' = Exited(g, d)
  <2>1. PICK bad, d, i, op, g :
           /\ bad \in 0..2 /\ op = (IF Launched(c) THEN "vmresume" ELSE "vmlaunch") /\ i = F(c, EntryIntrInfo)
           /\ d = ExecuteVmx(Decoded, Instr(op, 0, 0), bad)
           /\ g = (IF i = None THEN Resumed(d) ELSE Torn(Resumed(d), i.vector, d))
           /\ Done(ExecuteVmx(Decoded, Instr(op, 0, 0), bad), g) /\ c' = d /\ hist' = Exited(g, d)
    BY ResumesShape
  <2> QED
    BY <2>1, Zenon
<1>3. d = VmEntry(y, bad)
  BY <1>1, <1>2, HostEnters
<1>4. hist' = g
  BY <1>1, <1>2 DEF Exited
<1>5. IsCpu(y) /\ Agree(c, y, {"rip"}) /\ \A e : F(y, e) = F(c, e)
  <2>1. PICK to : to = Next1(c)
    BY Zenon
  <2>2. y = [c EXCEPT !.rip = to]
    BY <1>2, <2>1, Zenon DEF Decoded
  <2>3. IsCpu(y) /\ Agree(c, y, {"rip"}) /\ y.work = c.work
    BY <1>1, <2>2 DEF Agree, IsCpu, Names
  <2> QED
    BY <2>3, SameWork
<1>6. PICK r : r = F(c, GuestRip)
  BY Zenon
<1>7. PICK h : h = Resumed(d)
  BY Zenon
<1>8. IsHist(h) /\ \A n : n = h.due => Onward(h, n, d)
  <2>1. Same(hist, h, {"owes", "due"}) /\ h.owes = (IF d.guest THEN "none" ELSE Owes(d))
    BY <1>1, <1>7, ResumedHist
  <2> QED
    BY <2>1 DEF Onward, Same, HistNames
<1>9. h.due = hist.due + (IF i # None /\ i.soft /\ r.code = "main" THEN 1 ELSE 0)
  BY <1>1, <1>2, <1>6, <1>7, ResumedHist
<1>10. CASE i = None /\ Quiet(y, d)
  <2>1. \A e \in Field : F(d, e) = F(c, e)
    BY <1>5, <1>10 DEF Quiet
  <2>2. Entered1(c, d)
    <3>1. Begun(y, d) /\ \A e \in Field \ {EntryIntrInfo} : F(d, e) = F(y, e)
      BY <1>10 DEF Quiet
    <3> QED
      BY <1>1, <1>5, <3>1, BegunEnters
  <2>3. d.rip = r /\ F(d, EntryIntrInfo) = None
    BY <1>2, <1>5, <1>6, <1>10, <2>1, LifeFields DEF Quiet
  <2>4. h.due = hist.due
    <3>1. h.due = hist.due + 0
      BY <1>9, <1>10
    <3> QED
      BY <1>1, <3>1
  <2>5. Onward(h, hist.due, d)
    BY <1>8, <2>4
  <2>6. Life(d, h, subject, "event")
    BY <1>1, <1>2, <1>6, <1>10, <2>2, <2>3, <2>5, EntryQuiet
  <2>7. hist' = h
    BY <1>2, <1>4, <1>7, <1>10
  <2> QED
    BY <1>1, <1>2, <2>6, <2>7
<1>11. CASE i # None /\ \E z, f : Injected(y, z) /\ IsCpu(z) /\ d = DispatchRaw(z, f, bad) /\ f = Fault(i.vector, {})
  <2>1. PICK z, f : Injected(y, z) /\ IsCpu(z) /\ d = DispatchRaw(z, f, bad) /\ f = Fault(i.vector, {})
    BY <1>11
  <2>2. PICK v : Waits(i, v)
    BY <1>1, <1>2, <1>11, WaitsShape
  <2>3. PICK soft, to : soft = i.soft /\ to = (IF soft THEN [r EXCEPT !.at = @ + 1] ELSE r)
    BY Zenon
  <2>4. Entered1(c, z)
    <3>1. Begun(y, z) /\ \A e \in Field \ {EntryIntrInfo} : F(z, e) = F(y, e)
      BY <2>1 DEF Injected
    <3> QED
      BY <1>1, <1>5, <3>1, BegunEnters
  <2>5. z.rip = to /\ z.start = to /\ F(z, EntryIntrInfo) = None
    <3>1. F(c, EntryInstrLen) = 1
      BY <1>1 DEF Hosting, Kept
    <3>2. Target(y) = to
      BY <1>2, <1>5, <1>6, <2>3, <3>1, Zenon DEF Target
    <3> QED
      BY <2>1, <3>2 DEF Injected
  <2>6. Entrance(v, soft, r, to, z)
    BY <1>1, <1>2, <1>6, <1>11, <2>2, <2>3, <2>4, <2>5 DEF Entrance
  <2>7. Onward(h, Dues(soft, r), d)
    <3>1. h.due = Dues(soft, r)
      BY <1>9, <1>11, <2>3 DEF Dues
    <3> QED
      BY <1>8, <3>1
  <2>8. f.vector = v
    BY <2>1, <2>2 DEF Waits, Fault
  <2>9. (v # "pf" /\ d.pend # None) \/ Life(d, h, subject, "event")
    BY <1>2, <2>1, <2>6, <2>7, <2>8, EntryHandles
  <2>10. hist' = Torn(h, v, d)
    BY <1>2, <1>4, <1>7, <1>11, <2>2 DEF Waits
  <2>11. /\ v # "pf" /\ d.pend # None => hist'.torn
         /\ v = "pf" \/ d.pend = None => hist' = h
    BY <1>8, <2>10, TornHist
  <2> QED
    BY <1>1, <1>2, <2>9, <2>11
<1> QED
  BY <1>2, <1>3, <1>5, <1>10, <1>11, EntryLoads

LEMMA IdleHost ==
  ASSUME Idle(c, hist, subject, phase), Hosting(c'), Host
  PROVE  hist'.torn \/ Life(c', hist', subject, phase')
<1>1. subject # "regions"
  BY DEF Idle, Hosted
<1>2. Skips \/ Grants \/ GrantsOwn \/ Repairs \/ Hands \/ Injects \/ Asks \/ Opens \/ Resumes
  BY <1>1 DEF Host, RootTries, SetsFeature
<1> QED
  BY <1>2, IdleSkips, IdleOwns, IdleInjects, IdleResumes

\* A hypervisor that has been told of a double or a triple fault has its own interrupts, and no more.
LEMMA BuriedStays ==
  ASSUME IsCpu(c), Life(c, hist, subject, phase), subject \in Hosted, Hosting(c), Hosting(c'), c.guest = FALSE,
         hist.owes = "burial", Events \/ Guest \/ Host
  PROVE  Life(c', hist', subject, phase')
<1>1. IsHist(hist) /\ Owing(c, hist)
  BY DEF Life
<1>2. /\ c'.guest = FALSE /\ c'.work = c.work /\ (phase' = "exec" => c'.start = c'.rip)
      /\ IsHist(hist') /\ hist'.owes = hist.owes
  <2>1. CASE Events
    BY <1>1, <2>1, HostEvents
  <2>2. CASE Guest
    <3>1. Same(hist, hist', {"ended"}) /\ c'.guest = FALSE /\ c'.work = c.work /\ phase' = "event"
      BY <1>1, <2>2, HostGuest
    <3> QED
      BY <3>1 DEF Same, HistNames
  <2>3. CASE Host
    <3>1. Opens
      BY <2>3 DEF Host, RootTries, SetsFeature, Skips, Grants, GrantsOwn, Repairs, Hands, Injects, Asks, Resumes, Hosted
    <3>2. PICK to : to = Next1(c)
      BY Zenon
    <3>3. c' = [c EXCEPT !.rip = to, !.ifl = TRUE] /\ hist' = hist /\ phase' = "event"
      BY <3>1, <3>2 DEF Opens, Done, Decoded, Exited
    <3> QED
      BY <1>1, <3>3 DEF IsCpu, Names
  <2> QED
    BY <2>1, <2>2, <2>3
<1>3. Owing(c', hist')
  <2>1. (\A g : F(c', g) = F(c, g)) /\ c'.guest = c.guest
    BY <1>2, SameWork
  <2> QED
    BY <1>1, <1>2, <2>1, OwingOn
<1>4. c'.pend = None /\ c'.halt = FALSE
  BY <1>2 DEF Hosting, AtWork
<1>5. ~Active(c', subject) /\ subject # "native"
  BY <1>2 DEF Active, Hosted
<1> QED
  BY <1>2, <1>3, <1>4, <1>5 DEF Life

-----------------------------------------------------------------------------
(* Programs under a hypervisor and alone.                                    *)

(* an operating system alone may end by a triple fault, and any program lose its place to a torn delivery *)
Lives(x, h, s, ph) ==
  IsHist(h) /\ (s = "native" => x.guest = FALSE) /\ (x.reset \/ h.torn \/ Life(x, h, s, ph))

\* No instruction tears a delivery, but for the entry to a guest.
KeepsTorn(g) == IsHist(g) /\ g.torn = hist.torn
LEMMA DoneTorn ==
  ASSUME NEW g, KeepsTorn(g), NEW d, hist' = Exited(g, d)
  PROVE  KeepsTorn(hist')
<1>1. PICK h : h = Exited(g, d) /\ hist' = h
  OBVIOUS
<1>2. Same(g, h, {"owes", "reported"})
  BY <1>1, ExitedHist DEF KeepsTorn
<1> QED
  BY <1>1, <1>2 DEF KeepsTorn, Same, HistNames
LEMMA RunsTorn ==
  ASSUME KeepsTorn(hist), NEW ins, NEW d, NEW g, KeepsTorn(g), Runs(ins, d, g)
  PROVE  KeepsTorn(hist')
<1>1. Same(g, Retired(g), {"due"})
  BY RetiredHist DEF KeepsTorn
<1>2. KeepsTorn(Retired(g))
  BY <1>1 DEF KeepsTorn, Same, HistNames
<1>3. CASE c.guest /\ Exits(Decoded, ins)
  <2>1. PICK e : e = VmExit(Decoded, ins.op, None)
    BY Zenon
  <2>2. Done(e, hist)
    BY <1>3, <2>1 DEF Runs
  <2> QED
    BY <2>2, DoneTorn DEF Done
<1>4. CASE ~(c.guest /\ Exits(Decoded, ins))
  <2>1. Done(d, Retired(g))
    BY <1>4 DEF Runs
  <2> QED
    BY <1>2, <2>1, DoneTorn DEF Done
<1> QED
  BY <1>3, <1>4
LEMMA GuestTorn ==
  ASSUME IsHist(hist), Guest
  PROVE  KeepsTorn(hist')
<1>1. KeepsTorn(hist)
  BY DEF KeepsTorn
<1>2. CASE Defers
  BY <1>1, <1>2 DEF Defers, KeepsTorn
<1>3. CASE Cr0Acts
  <2>1. CASE ReadsCr0
    <3>1. PICK d, g, sees : g = [hist EXCEPT !.saw = sees] /\ Runs(Op("fromcr0"), d, g)
      BY <2>1, Zenon DEF ReadsCr0
    <3>2. KeepsTorn(g)
      BY <1>1, <3>1 DEF KeepsTorn, IsHist, HistNames
    <3> QED
      BY <1>1, <3>1, <3>2, RunsTorn
  <2>2. CASE WritesCr0 \/ Clts \/ Lmsw
    <3>1. PICK op, d, g, v : g = [hist EXCEPT !.sees = v] /\ Runs(op, d, g)
      BY <2>2, Zenon DEF WritesCr0, Clts, Lmsw
    <3>2. KeepsTorn(g)
      BY <1>1, <3>1 DEF KeepsTorn, IsHist, HistNames
    <3> QED
      BY <1>1, <3>1, <3>2, RunsTorn
  <2> QED
    BY <1>3, <2>1, <2>2 DEF Cr0Acts
<1>4. CASE ~Defers /\ ~Cr0Acts
  <2>1. PICK h : Same(hist, h, Adds) /\ hist' = Exited(h, c')
    BY <1>4, ProgramHist
  <2>2. KeepsTorn(h)
    BY <2>1 DEF KeepsTorn, Same, Adds, HistNames
  <2> QED
    BY <2>1, <2>2, DoneTorn
<1> QED
  BY <1>2, <1>3, <1>4
LEMMA HostTorn ==
  ASSUME IsHist(hist), subject # "regions", Host
  PROVE  IsHist(hist') /\ (hist.torn => hist'.torn)
<1>1. KeepsTorn(hist)
  BY DEF KeepsTorn
<1>2. Skips \/ Grants \/ GrantsOwn \/ Repairs \/ Hands \/ Injects \/ Asks \/ Opens \/ Resumes
  BY DEF Host, RootTries, SetsFeature
<1>3. CASE Resumes
  <2>1. PICK v, h : (h = Resumed(c') \/ h = Torn(Resumed(c'), v, c')) /\ hist' = Exited(h, c')
    BY <1>3, ResumesHist
  <2>2. PICK g : g = Resumed(c')
    BY Zenon
  <2>3. Same(hist, g, {"owes", "due"})
    BY <2>2, ResumedHist
  <2>4. IsHist(g) /\ g.torn = hist.torn
    BY <2>3 DEF Same, HistNames
  <2>5. IsHist(h) /\ (hist.torn => h.torn)
    <3>1. CASE h = g
      BY <2>4, <3>1
    <3>2. CASE h = Torn(g, v, c')
      BY <2>4, <3>2, TornHist DEF Same
    <3> QED
      BY <2>1, <2>2, <3>1, <3>2
  <2>6. hist' = h
    <3>1. ~c.guest
      BY <1>3 DEF Resumes, Working, AtHost
    <3> QED
      BY <2>1, <3>1 DEF Exited
  <2> QED
    BY <2>5, <2>6
<1>4. CASE Skips \/ Grants \/ GrantsOwn \/ Repairs \/ Hands \/ Injects \/ Asks \/ Opens
  <2>10. CASE Skips
    <3>1. PICK d, o, n : Done(d, [hist EXCEPT !.owes = o, !.due = n])
      BY <2>10, Zenon DEF Skips, Vmx
    <3>2. PICK g : g = [hist EXCEPT !.owes = o, !.due = n]
      OBVIOUS
    <3>3. KeepsTorn(g)
      BY <1>1, <3>2 DEF KeepsTorn, IsHist, HistNames
    <3>4. hist' = Exited(g, d)
      BY <3>1, <3>2, Zenon DEF Done
    <3> QED
      BY <3>3, <3>4, DoneTorn DEF KeepsTorn
  <2>11. CASE Grants
    <3>1. PICK d, o, v : Done(d, [hist EXCEPT !.owes = o, !.sees = v])
      BY <2>11, Zenon DEF Grants, Vmx
    <3>2. PICK g : g = [hist EXCEPT !.owes = o, !.sees = v]
      OBVIOUS
    <3>3. KeepsTorn(g)
      BY <1>1, <3>2 DEF KeepsTorn, IsHist, HistNames
    <3>4. hist' = Exited(g, d)
      BY <3>1, <3>2, Zenon DEF Done
    <3> QED
      BY <3>3, <3>4, DoneTorn DEF KeepsTorn
  <2>12. CASE GrantsOwn \/ Repairs \/ Hands
    <3>1. PICK d, o : Done(d, [hist EXCEPT !.owes = o])
      BY <2>12, Zenon DEF GrantsOwn, Repairs, Hands, Vmx
    <3>2. PICK g : g = [hist EXCEPT !.owes = o]
      OBVIOUS
    <3>3. KeepsTorn(g)
      BY <1>1, <3>2 DEF KeepsTorn, IsHist, HistNames
    <3>4. hist' = Exited(g, d)
      BY <3>1, <3>2, Zenon DEF Done
    <3> QED
      BY <3>3, <3>4, DoneTorn DEF KeepsTorn
  <2>13. CASE Injects
    <3>1. PICK d, n : Done(d, [hist EXCEPT !.raised = n])
      BY <2>13, Zenon DEF Injects, Vmx
    <3>2. PICK g : g = [hist EXCEPT !.raised = n]
      OBVIOUS
    <3>3. KeepsTorn(g)
      BY <1>1, <3>2 DEF KeepsTorn, IsHist, HistNames
    <3>4. hist' = Exited(g, d)
      BY <3>1, <3>2, Zenon DEF Done
    <3> QED
      BY <3>3, <3>4, DoneTorn DEF KeepsTorn
  <2>14. CASE Asks \/ Opens
    <3>1. PICK d : Done(d, hist)
      BY <2>14, Zenon DEF Asks, Opens, Vmx
    <3>2. hist' = Exited(hist, d)
      BY <3>1, Zenon DEF Done
    <3> QED
      BY <1>1, <3>2, DoneTorn DEF KeepsTorn
  <2> QED
    BY <1>4, <2>10, <2>11, <2>12, <2>13, <2>14
<1> QED
  BY <1>2, <1>3, <1>4

\* The history keeps what it is made of, and a torn delivery is never forgotten.
LEMMA TornStays ==
  ASSUME IsHist(hist), subject # "regions", IsCpu(c), [Next]_vars
  PROVE  IsHist(hist') /\ (hist.torn => hist'.torn)
<1>1. \A g, d, h : Same(hist, g, HistNames \ {"torn"}) /\ h = Exited(g, d) => IsHist(h) /\ h.torn = hist.torn
  <2>1. ASSUME NEW g, NEW d, NEW h, Same(hist, g, HistNames \ {"torn"}), h = Exited(g, d)
        PROVE  IsHist(h) /\ h.torn = hist.torn
    <3>1. IsHist(g) /\ g.torn = hist.torn
      BY <2>1 DEF Same, HistNames
    <3>2. Same(g, h, {"owes", "reported"})
      BY <2>1, <3>1, ExitedHist
    <3> QED
      BY <3>1, <3>2 DEF Same, HistNames
  <2> QED
    BY <2>1
<1>2. Same(hist, hist, HistNames \ {"torn"})
  BY DEF Same
<1>3. CASE RaiseLine
  <2>1. PICK n : n = hist.raised + 1
    OBVIOUS
  <2>2. hist' = [hist EXCEPT !.raised = n]
    BY <1>3, <2>1, Zenon DEF RaiseLine
  <2> QED
    BY <2>2 DEF IsHist, HistNames
<1>4. CASE Events
  <2>1. PICK p, d : hist' = Torn(Exited(Noted(p, d), d), Cause(p), d)
    BY <1>4, EventsShape
  <2>2. Same(hist, Noted(p, d), HistNames \ {"torn"})
    <3>1. PICK n : n = hist.due + 1
      OBVIOUS
    <3>2. IF Trapped(p, d) THEN Noted(p, d) = [hist EXCEPT !.due = n] ELSE Noted(p, d) = hist
      BY <3>1 DEF Noted
    <3> QED
      BY <3>2 DEF Same, IsHist, HistNames
  <2>3. PICK k : k = Exited(Noted(p, d), d)
    OBVIOUS
  <2>4. IsHist(k) /\ k.torn = hist.torn /\ hist' = Torn(k, Cause(p), d)
    BY <1>1, <2>1, <2>2, <2>3
  <2> QED
    BY <2>4, TornHist DEF Same
<1>5. CASE Park
  <2>1. PICK k : k = Exited(hist, c') /\ hist' = Torn(k, "irq", c')
    BY <1>5 DEF Park
  <2>2. IsHist(k) /\ k.torn = hist.torn
    BY <1>1, <1>2, <2>1
  <2> QED
    BY <2>1, <2>2, TornHist DEF Same
<1>6. CASE Guest
  BY <1>6, GuestTorn DEF KeepsTorn
<1>7. CASE Host
  BY <1>7, HostTorn
<1>8. CASE UNCHANGED vars
  BY <1>8 DEF vars
<1> QED
  BY <1>3, <1>4, <1>5, <1>6, <1>7, <1>8 DEF Next

LEMMA NativeStays ==
  ASSUME IsCpu(c), subject = "native", c.guest = FALSE, [Next]_vars
  PROVE  c'.guest = FALSE /\ (c.reset => c'.reset) /\ ~Host
<1>1. ~Host
  BY DEF Host, RootTries, SetsFeature, Skips, Grants, GrantsOwn, Repairs, Hands, Injects, Asks, Opens, Resumes, Working, AtHost
<1>2. CASE RaiseLine
  BY <1>1, <1>2 DEF RaiseLine, IsCpu, Names
<1>3. CASE Events
  <2>1. Apart(c, c')
    BY <1>3, EventsDelivery DEF Delivery
  <2> QED
    BY <1>1, <2>1, ApartCpu DEF Apart
<1>4. CASE Park
  <2>1. Apart(c, c')
    BY <1>4, ParkDelivery DEF Delivery
  <2> QED
    BY <1>1, <2>1, ApartCpu DEF Apart
<1>5. CASE Guest
  <2>1. Goes(c, c', Going \cup System)
    BY <1>5, GuestGoes DEF GoesOn
  <2> QED
    BY <1>1, <2>1 DEF Goes, Agree, Going, System, Names
<1>6. CASE UNCHANGED vars
  BY <1>1, <1>6 DEF vars
<1> QED
  BY <1>1, <1>2, <1>3, <1>4, <1>5, <1>6 DEF Next

LEMMA NextLives ==
  ASSUME IsCpu(c), subject \in Hosted \cup {"native"}, subject \in Hosted => Hosting(c),
         Lives(c, hist, subject, phase), [Next]_vars
  PROVE  Lives(c', hist', subject', phase')
<1>1. subject' = subject
  BY SubjectStays
<1>2. subject = "native" => c'.guest = FALSE /\ (c.reset => c'.reset) /\ ~Host
  BY NativeStays DEF Lives
<1>3. subject \in Hosted => Hosting(c') /\ c.reset = FALSE
  BY <1>1, NextHosting DEF Hosting, Kept
<1>4. IsHist(hist') /\ (hist.torn => hist'.torn)
  BY TornStays DEF Lives, Hosted
<1>5. CASE c.reset \/ hist.torn
  BY <1>1, <1>2, <1>3, <1>4, <1>5 DEF Lives
<1>6. ASSUME ~c.reset, ~hist.torn
      PROVE  c'.reset \/ hist'.torn \/ Life(c', hist', subject, phase')
  <2>1. Life(c, hist, subject, phase)
    BY <1>6 DEF Lives
  <2>2. CASE RaiseLine
    BY <2>1, <2>2, RaisedLife
  <2>3. CASE UNCHANGED vars
    BY <2>1, <2>3 DEF vars
  <2>4. CASE Active(c, subject) /\ ~RaiseLine /\ ~(UNCHANGED vars)
    <3>1. Alive(c, hist, subject, phase)
      BY <2>1, <2>4 DEF Alive
    <3>2. Events => phase' = "exec"
      BY DEF Events
    <3>3. ~Host
      BY <1>2, <2>4 DEF Active, Host, RootTries, SetsFeature, Skips, Grants, GrantsOwn, Repairs, Hands, Injects, Asks, Opens,
         Resumes, Working, AtHost
    <3>4. Events \/ Park \/ Guest
      BY <2>4, <3>3 DEF Next
    <3> QED
      BY <3>1, <3>2, <3>4, AliveEvents, AlivePark, AliveGuest
  <2>5. CASE ~Active(c, subject) /\ ~RaiseLine /\ ~(UNCHANGED vars)
    <3>1. subject \in Hosted /\ Hosting(c) /\ Hosting(c') /\ ~c.guest
      BY <1>3, <2>5 DEF Active
    <3>2. c.guest = FALSE /\ AtWork(c)
      BY <3>1 DEF Hosting
    <3>3. ~Park
      BY <3>2 DEF Park, AtWork
    <3>4. Events \/ Guest \/ Host
      BY <2>5, <3>3 DEF Next
    <3>5. CASE hist.owes = "burial"
      BY <2>1, <3>1, <3>2, <3>4, <3>5, BuriedStays
    <3>6. CASE hist.owes # "burial"
      <4>1. Idle(c, hist, subject, phase)
        BY <2>1, <3>1, <3>6 DEF Idle
      <4>2. Events => phase' = "exec"
        BY DEF Events
      <4> QED
        BY <3>1, <3>4, <4>1, <4>2, IdleEvents, IdleGuest, IdleHost
    <3> QED
      BY <3>5, <3>6
  <2> QED
    BY <2>2, <2>3, <2>4, <2>5
<1> QED
  BY <1>1, <1>2, <1>4, <1>5, <1>6 DEF Lives

LEMMA InitLives ==
  ASSUME Init, subject \in Hosted \cup {"native"}
  PROVE  Lives(c, hist, subject, phase)
<1>1. Begins(subject, c) /\ (subject \in Hosted => Hosting(c) /\ Prepared(c.work))
  BY InitBegins, InitHosting
<1>2. /\ c.guest = FALSE /\ c.irq = FALSE /\ c.pend = None /\ c.ifl = FALSE /\ c.halt = FALSE /\ c.start = c.rip
      /\ c.stack["host"] = <<>> /\ c.stack["guest"] = <<>> /\ c.work \in Setups(subject)
      /\ c.rip = (IF subject = "native" THEN Place("main", 0) ELSE Place("host", 1))
      /\ c.env = (IF subject = "native" THEN "a" ELSE "host")
  BY <1>1 DEF Begins
<1>3. PICK sees : sees = Masked(c)
  BY Zenon
<1>4. hist = [due |-> 0, ifl |-> FALSE, env |-> "a", sees |-> sees, saw |-> {}, raised |-> 0, ended |-> 0,
              reported |-> 0, owes |-> "none", torn |-> FALSE, steps |-> 0] /\ phase = "event"
  BY <1>3, Zenon DEF Init
<1>5. /\ IsHist(hist) /\ hist.due = 0 /\ hist.ifl = FALSE /\ hist.env = "a" /\ hist.raised = 0 /\ hist.ended = 0
      /\ hist.reported = 0 /\ hist.owes = "none"
  BY <1>4 DEF IsHist, HistNames
<1>6. \A e \in Named : F(c, e) = At(c.work, e)
  BY <1>1, ReadsField, NamedFields DEF F, Begins
<1>7. {EntryIntrInfo, ExitReason, ExitIntrInfo, GuestRip, GuestFlags, GuestEnv} \subseteq Named
  BY DEF Named
<1>8. PICK r : r = Place("main", 0) /\ r \in Spots /\ r.code = "main"
  BY PlaceShape
<1>9. Program(<<>>, r, FALSE, hist)
  <2>1. <<>> \in Seq(FrameSet) /\ Len(<<>>) = 0
    OBVIOUS
  <2>2. Chain(<<>>, r.code)
    BY <1>8, <2>1 DEF Chain
  <2>3. Held(<<>>, r, FALSE, hist)
    <3>1. r = Place("main", hist.due)
      BY <1>5, <1>8
    <3>2. hist.ifl = FALSE
      BY <1>5
    <3> QED
      BY <3>1, <3>2 DEF Held
  <2>4. hist.due \in Nat /\ r \in Spots /\ FALSE \in BOOLEAN
    BY <1>5, <1>8
  <2> QED
    BY <2>1, <2>2, <2>3, <2>4 DEF Program
<1>10. CASE subject \in Hosted
  <2>1. /\ F(c, EntryIntrInfo) = None /\ F(c, ExitReason) = "none" /\ F(c, ExitIntrInfo) = None
        /\ F(c, GuestRip) = r /\ F(c, GuestFlags) = FALSE /\ F(c, GuestEnv) = "a"
    BY <1>1, <1>6, <1>7, <1>8, <1>10, Zenon DEF Prepared
  <2>2. ~Fatal(c)
    BY <2>1, MemoryAssumption DEF Fatal, Vectors
  <2>3. Owing(c, hist)
    BY <1>2, <1>5, <2>1, <2>2 DEF Owing
  <2>4. Resting(c, hist)
    BY <1>2, <1>5, <1>9, <2>1 DEF Resting
  <2>5. Numbered(c, hist)
    <3>1. ~Awaited(c) /\ c.rip.code # "irq" /\ F(c, GuestRip).code # "irq" /\ ~c.irq
      BY <1>2, <1>8, <1>10, <2>1 DEF Awaited, Hosted, Place
    <3>2. One(c.irq) = 0 /\ One(Awaited(c)) = 0 /\ One(c.rip.code = "irq") = 0 /\ One(F(c, GuestRip).code = "irq") = 0
      BY <3>1, OneType
    <3> QED
      BY <1>2, <1>5, <3>2, IrqsNone DEF Numbered
  <2> QED
    BY <1>1, <1>2, <1>4, <1>5, <1>10, <2>3, <2>4, <2>5, IdleLife DEF Lives, Hosted
<1>11. CASE subject = "native"
  <2>1. F(c, EntryIntrInfo) = None
    <3>1. At(c.work, EntryIntrInfo) = None
      BY <1>2, <1>11, SetupAssumption DEF Subjects
    <3> QED
      BY <1>6, <1>7, <3>1
  <2>2. Living(c, hist, "native")
    BY <1>2, <1>5, <1>8, <1>9, <1>11 DEF Living, World
  <2>3. Counted(c, hist, "native")
    <3>1. ~Awaited(c) /\ c.rip.code # "irq" /\ ~Stored(c, "native") /\ ~c.irq
      BY <1>2, <1>8, <1>11, <2>1 DEF Awaited, Stored, Active
    <3>2. One(c.irq) = 0 /\ One(Awaited(c)) = 0 /\ One(c.rip.code = "irq") = 0 /\ One(Stored(c, "native")) = 0
      BY <3>1, OneType
    <3> QED
      BY <1>2, <1>5, <3>2, IrqsNone DEF Counted
  <2>4. c.rip.code # "df" /\ "native" \notin Hosted
    BY <1>2, <1>8, <1>11 DEF Hosted
  <2> QED
    BY <1>2, <1>4, <1>5, <1>11, <2>1, <2>2, <2>3, <2>4 DEF Lives, Life, Active
<1> QED
  BY <1>10, <1>11

-----------------------------------------------------------------------------
(* What a torn delivery leaves of a program: where its frames return to.      *)

(* the events whose pushes escalate *)
Firm == {"pf", "df"}
Sited(r) == r = [code |-> r.code, at |-> r.at]
(* no frame returns to a handler of these, nor to any without a frame below *)
Linked(st, code) ==
  /\ \E S : st \in Seq(S)
  /\ code \in Vectors => st # <<>>
  /\ \A i \in 1..Len(st) : /\ Sited(st[i].rip) /\ st[i].rip.code \notin Firm
                           /\ st[i].rip.code \in Vectors => i # 1
(* a place where an event may find the program *)
Loose(r, st) == Sited(r) /\ r.code \notin Firm /\ Linked(st, r.code)
Footing(x, st) ==
  /\ Sited(x.rip) /\ Linked(st, x.rip.code)
  /\ x.rip.code \in Firm => x.ifl = FALSE /\ x.pend = None /\ Whole(st)
  /\ x.pend # None => x.pend.vector \in Raisable /\ Loose(x.start, st)
  /\ x.halt => x.pend = None /\ Sited(x.start) /\ x.start.code \notin Firm
(* what the hypervisor has been told, and may hand on *)
Bound(x, h) ==
  LET i == F(x, EntryIntrInfo)
  IN  /\ h.owes = "repair" => F(x, ExitIntrInfo) \in Raisable
      /\ i = None \/ i.vector \in Raisable \cup {"irq"}
Away(x, h) == (h.owes = "burial" /\ Fatal(x)) \/ Loose(F(x, GuestRip), x.stack["guest"])
Foot(x, h, s, ph) ==
  /\ ph = "exec" => x.start = x.rip /\ ~x.halt
  /\ s = "native" => x.guest = FALSE
  /\ s \in Hosted => Bound(x, h) /\ (x.guest \/ Away(x, h))
  /\ Active(x, s) => Footing(x, x.stack[World(s)])

\* A frame is pushed ...
LEMMA LinkPush ==
  ASSUME NEW st, NEW f, Loose(f.rip, st), NEW t, t = Append(st, f)
  PROVE  /\ \A k : Linked(t, k)
         /\ f.whole = TRUE => Whole(t)
<1>1. PICK S : st \in Seq(S)
  BY DEF Loose, Linked
<1>2. PICK n : n = Len(st) /\ n \in Nat
  BY <1>1
<1>3. /\ t \in Seq(S \cup {f}) /\ Len(t) = n + 1 /\ t[n + 1] = f /\ (\A i \in 1..n : t[i] = st[i])
      /\ t # <<>> /\ (st # <<>> => n # 0)
  BY <1>1, <1>2
<1>4. ASSUME NEW i \in 1..Len(t)
      PROVE  Sited(t[i].rip) /\ t[i].rip.code \notin Firm /\ (t[i].rip.code \in Vectors => i # 1)
  <2>1. CASE i \in 1..n
    BY <1>2, <1>3, <2>1 DEF Loose, Linked
  <2>2. CASE i = n + 1
    <3>1. f.rip.code \in Vectors => n # 0
      BY <1>3 DEF Loose, Linked
    <3> QED
      BY <1>2, <1>3, <2>2, <3>1 DEF Loose
  <2> QED
    BY <1>2, <1>3, <1>4, <2>1, <2>2
<1>5. \A k : Linked(t, k)
  BY <1>3, <1>4 DEF Linked
<1> QED
  BY <1>3, <1>5 DEF Whole

\* ... and popped.
LEMMA LinkPop ==
  ASSUME NEW st, NEW code \in Vectors, Linked(st, code), NEW f, f = st[Len(st)], NEW t, t = SubSeq(st, 1, Len(st) - 1)
  PROVE  Loose(f.rip, t) /\ Linked(t, "lost")
<1>1. PICK S : st \in Seq(S) /\ st # <<>>
  BY DEF Linked
<1>2. PICK n, m : n = Len(st) /\ n \in Nat /\ n # 0 /\ m = n - 1 /\ m \in Nat
  BY <1>1
<1>3. t \in Seq(S) /\ Len(t) = m /\ (\A i \in 1..m : t[i] = st[i]) /\ (m # 0 => t # <<>>)
  <2>1. t = SubSeq(st, 1, m) /\ Len(st) = n
    BY <1>2
  <2>2. \A i \in 1..m : st[i] \in S
    BY <1>1, <1>2
  <2>3. t \in Seq(S) /\ Len(t) = (IF 1 <= m THEN m - 1 + 1 ELSE 0) /\ \A i \in 1..(m - 1 + 1) : t[i] = st[1 + i - 1]
    BY <1>2, <2>1, <2>2, SubSeqProperties
  <2>4. Len(t) = m /\ \A i \in 1..m : t[i] = st[i]
    BY <1>2, <2>3
  <2> QED
    BY <2>3, <2>4
<1>4. n \in 1..n /\ Len(st) = n
  BY <1>2
<1>5. Sited(f.rip) /\ f.rip.code \notin Firm /\ (f.rip.code \in Vectors => n # 1)
  BY <1>2, <1>4 DEF Linked
<1>6. ASSUME NEW i \in 1..Len(t)
      PROVE  Sited(t[i].rip) /\ t[i].rip.code \notin Firm /\ (t[i].rip.code \in Vectors => i # 1)
  <2>1. i \in 1..n /\ i \in 1..m
    BY <1>2, <1>3, <1>6
  <2> QED
    BY <1>2, <1>3, <2>1 DEF Linked
<1>7. f.rip.code \in Vectors => t # <<>>
  BY <1>2, <1>3, <1>5
<1>8. "lost" \notin Vectors
  BY DEF Vectors
<1> QED
  BY <1>3, <1>5, <1>6, <1>7, <1>8 DEF Linked, Loose

\* A handler has been taken up: a whole frame, or another event's with the page fault of its pushes pending.
LEMMA FootPush ==
  ASSUME NEW st, NEW f, Loose(f.rip, st), NEW t, t = Append(st, f), NEW v,
         NEW e, e.rip = Place(v, 0), e.ifl = FALSE, ~e.halt,
         \/ e.pend = None /\ f.whole = TRUE
         \/ v \notin Firm /\ e.pend = Fault("pf", {"w"}) /\ Sited(e.start) /\ e.start.code \notin Firm
  PROVE  Footing(e, t)
<1>1. (\A k : Linked(t, k)) /\ (f.whole = TRUE => Whole(t))
  BY LinkPush
<1>2. Sited(e.rip) /\ e.rip.code = v
  BY DEF Sited, Place
<1>3. Fault("pf", {"w"}) # None /\ Fault("pf", {"w"}).vector \in Raisable
  BY PushFault DEF Raisable
<1> QED
  BY <1>1, <1>2, <1>3 DEF Footing, Loose

(* a delivery leaves a program, of p's world, on its feet, or outside of it, where it goes on unless the exit is fatal *)
Upright(p, e) == e.guest = p.guest /\ e.work = p.work /\ ~e.halt /\ Footing(e, e.stack[Who(p)])
Thrown(p, e) == p.guest /\ \E y, reason, vector :
  /\ Left(y, e, reason, vector) /\ y.work = p.work
  /\ reason = "exception" => vector \in Raisable \cup {"df"}
  /\ reason = "triple" \/ vector = "df" \/ Loose(IF reason \in Between THEN y.rip ELSE y.start, y.stack["guest"])
Mapped(x) == F(x, EntryIntrInfo) = None \/ F(x, EntryIntrInfo).vector \in Raisable \cup {"irq"}

LEMMA FootThrown ==
  ASSUME NEW p, NEW e, Thrown(p, e), Mapped(p), NEW s \in Hosted, NEW k, k.owes = Owes(e), NEW ph, ph = "exec" => e.start = e.rip
  PROVE  Foot(e, k, s, ph)
<1>1. PICK y, reason, vector :
        /\ Left(y, e, reason, vector) /\ y.work = p.work
        /\ reason = "exception" => vector \in Raisable \cup {"df"}
        /\ reason = "triple" \/ vector = "df" \/ Loose(IF reason \in Between THEN y.rip ELSE y.start, y.stack["guest"])
  BY DEF Thrown
<1>2. PICK r : r = IF reason \in Between THEN y.rip ELSE y.start
  BY Zenon
<1>3. e.guest = FALSE /\ e.halt = FALSE /\ e.stack = y.stack
  BY <1>1 DEF Left, Home, Agree, Reloaded, Names
<1>4. F(e, GuestRip) = r /\ F(e, ExitReason) = reason /\ F(e, ExitIntrInfo) = vector
  BY <1>1, <1>2 DEF Left, Holds
<1>5. F(e, EntryIntrInfo) = F(p, EntryIntrInfo)
  <2>1. F(e, EntryIntrInfo) = F(y, EntryIntrInfo)
    BY <1>1, LifeFields DEF Left, Rest
  <2> QED
    BY <1>1, <2>1, SameWork
<1>6. Fatal(e) <=> reason = "triple" \/ vector = "df"
  BY <1>4 DEF Fatal
<1>7. k.owes = "burial" <=> Fatal(e)
  BY OwesKinds
<1>8. k.owes = "repair" => ~Fatal(e) /\ reason = "exception"
  BY <1>4 DEF Owes
<1>9. Bound(e, k)
  BY <1>1, <1>4, <1>5, <1>6, <1>8 DEF Bound, Mapped
<1>10. Away(e, k)
  BY <1>1, <1>2, <1>3, <1>4, <1>6, <1>7 DEF Away
<1>11. s # "native" /\ ~Active(e, s)
  BY <1>3 DEF Active, Hosted
<1> QED
  BY <1>3, <1>9, <1>10, <1>11 DEF Foot

LEMMA FootSettles ==
  ASSUME NEW p, NEW e, Upright(p, e) \/ Thrown(p, e), NEW s \in Hosted \cup {"native"},
         s \in Hosted => p.guest = TRUE, s = "native" => p.guest = FALSE, s \in Hosted => Mapped(p), NEW k, s \in Hosted /\ e.guest = TRUE => Bound(p, k),
         p.guest /\ e.guest = FALSE => k.owes = Owes(e), NEW ph, ph = "exec" => e.start = e.rip
  PROVE  Foot(e, k, s, ph)
<1>1. CASE Upright(p, e)
  <2>1. Who(p) = World(s)
    BY DEF Who, World, Hosted
  <2>2. Footing(e, e.stack[World(s)]) /\ e.guest = p.guest /\ ~e.halt
    BY <1>1, <2>1 DEF Upright
  <2>3. s \in Hosted => Bound(e, k)
    <3>1. \A g : F(e, g) = F(p, g)
      BY <1>1, SameWork DEF Upright
    <3> QED
      BY <2>2, <3>1 DEF Bound
  <2>4. (s = "native" => e.guest = FALSE) /\ (s \in Hosted => e.guest = TRUE)
    BY <2>2 DEF Hosted
  <2> QED
    BY <2>2, <2>3, <2>4 DEF Foot
<1>2. CASE Thrown(p, e)
  <2>1. s \in Hosted /\ e.guest = FALSE
    BY <1>2 DEF Thrown, Left, Home
  <2> QED
    BY <1>2, <2>1, FootThrown
<1> QED
  BY <1>1, <1>2

\* A program that has been left, seen once the next instruction is due.
LEMMA ThrownOn ==
  ASSUME NEW p, p.guest, NEW y, NEW d, NEW reason, NEW vector, Left(y, d, reason, vector), y.work = p.work,
         reason = "exception" => vector \in Raisable \cup {"df"},
         reason = "triple" \/ vector = "df" \/ Loose(IF reason \in Between THEN y.rip ELSE y.start, y.stack["guest"]),
         NEW e, Agree(d, e, {"start", "halt"}), e.halt = FALSE \/ e.halt = d.halt
  PROVE  Thrown(p, e)
<1>1. IsCpu(d) /\ d.halt = FALSE
  BY DEF Left, Agree, Home
<1>2. Agree(d, e, {"start"})
  BY <1>1 DEF Agree
<1>3. Left(y, e, reason, vector)
  BY <1>2, LeftStart
<1> QED
  BY <1>3 DEF Thrown

\* A handler takes an event up ...
LEMMA FootHands ==
  ASSUME NEW p, p.pend = None, NEW v \in Raisable \cup {"irq"}, NEW d, NEW z, Agree(p, z, {"rip", "irq"}),
         NEW st, st = p.stack[Who(p)], Loose(z.rip, st), Gates(z, d, v, TRUE) \/ (v # "pf" /\ Halved(z, d, v)),
         NEW e, Agree(d, e, {"start", "halt"}), ~e.halt, e.start = e.rip \/ (Sited(e.start) /\ e.start.code \notin Firm)
  PROVE  Upright(p, e)
<1>1. z.pend = None /\ z.guest = p.guest /\ z.work = p.work /\ z.stack = p.stack /\ Who(z) = Who(p)
  BY DEF Agree, Names, Who
<1>2. PICK w : w = Who(p) /\ st = z.stack[w]
  BY <1>1
<1>3. e.rip = d.rip /\ e.guest = d.guest /\ e.work = d.work /\ e.stack = d.stack /\ e.ifl = d.ifl /\ e.pend = d.pend
  BY DEF Agree, Names
<1>4. CASE Gates(z, d, v, TRUE)
  <2>1. PICK f : f = Frame(z, TRUE)
    BY Zenon
  <2>2. f.rip = z.rip /\ f.whole = TRUE
    BY <2>1 DEF Frame
  <2>3. d.stack[w] = Append(st, f) /\ d.rip = Place(v, 0) /\ d.ifl = FALSE
    BY <1>1, <1>2, <1>4, <2>1, Zenon DEF Gates
  <2>4. d.guest = p.guest /\ d.work = p.work /\ d.pend = None
    BY <1>1, <1>4 DEF Gates, Agree, Names
  <2>5. PICK t : t = Append(st, f)
    OBVIOUS
  <2>6. Footing(e, t)
    BY <1>3, <2>2, <2>3, <2>4, <2>5, FootPush
  <2> QED
    BY <1>2, <1>3, <2>3, <2>4, <2>5, <2>6 DEF Upright
<1>5. CASE v # "pf" /\ Halved(z, d, v)
  <2>1. PICK y : Gates(z, y, v, FALSE) /\ Agree(y, d, {"pend"}) /\ d.pend = Fault("pf", {"w"})
    BY <1>5 DEF Halved
  <2>2. PICK f : f = Frame(z, FALSE)
    BY Zenon
  <2>3. f.rip = z.rip
    BY <2>2 DEF Frame
  <2>4. y.stack[w] = Append(st, f) /\ y.rip = Place(v, 0) /\ y.ifl = FALSE
    BY <1>1, <1>2, <2>1, <2>2, Zenon DEF Gates
  <2>5. d.guest = p.guest /\ d.work = p.work /\ d.rip = y.rip /\ d.ifl = y.ifl /\ d.stack = y.stack
    BY <1>1, <2>1 DEF Gates, Agree, Names
  <2>6. v \notin Firm /\ Place(v, 0).code = v /\ Sited(Place(v, 0))
    BY <1>5 DEF Firm, Raisable, Place, Sited
  <2>7. Sited(e.start) /\ e.start.code \notin Firm
    BY <1>3, <2>4, <2>5, <2>6
  <2>8. PICK t : t = Append(st, f)
    OBVIOUS
  <2>9. e.rip = Place(v, 0) /\ e.ifl = FALSE /\ e.pend = Fault("pf", {"w"})
    BY <1>3, <2>1, <2>4, <2>5
  <2>10. Footing(e, t)
    BY <2>3, <2>6, <2>7, <2>8, <2>9, FootPush
  <2> QED
    BY <1>2, <1>3, <2>4, <2>5, <2>8, <2>10 DEF Upright
<1> QED
  BY <1>4, <1>5

\* ... or a double fault, on top of the half of the page fault's frame, ends the program or has a handler.
LEMMA FootDoubles ==
  ASSUME NEW p, p.pend = None, ~p.halt, NEW d, Doubled(p, d), NEW st, st = p.stack[Who(p)], Loose(p.start, st),
         NEW e, Agree(d, e, {"start", "halt"}), e.halt = FALSE \/ e.halt = d.halt
  PROVE  Upright(p, e) \/ Thrown(p, e) \/ (~p.guest /\ e.reset)
<1>1. PICK q : IsCpu(q) /\ Half(p, q) /\ Falls(p, q, d)
  BY DEF Doubled
<1>2. PICK w, f, m : w = Who(p) /\ f = [rip |-> p.start, ifl |-> p.ifl, whole |-> FALSE] /\ m = Append(st, f)
  BY Zenon
<1>3. q.stack[w] = m /\ q.rip = p.start /\ q.guest = p.guest /\ q.work = p.work /\ q.pend = None /\ Who(q) = w
  BY <1>1, <1>2 DEF Half, Agree, Names, Who
<1>4. f.rip = p.start /\ \A k : Linked(m, k)
  <2>1. f.rip = p.start
    BY <1>2
  <2> QED
    BY <1>2, <2>1, LinkPush
<1>5. Loose(q.rip, m)
  BY <1>3, <1>4 DEF Loose
<1>6. CASE p.guest /\ Left(q, d, "exception", "df")
  BY <1>3, <1>6, ThrownOn
<1>7. CASE p.guest /\ \E z : Apart(q, z) /\ Left(z, d, "triple", None)
  <2>1. PICK z : Apart(q, z) /\ Left(z, d, "triple", None)
    BY <1>7
  <2>2. z.work = p.work
    BY <1>3, <2>1 DEF Apart, Agree, Plain, Names
  <2> QED
    BY <1>7, <2>1, <2>2, ThrownOn
<1>8. CASE Gates(q, d, "df", TRUE)
  <2>1. PICK g, t : g = Frame(q, TRUE) /\ t = Append(m, g)
    BY Zenon
  <2>2. g.rip = q.rip /\ g.whole = TRUE
    BY <2>1 DEF Frame
  <2>3. d.stack[w] = t /\ d.rip = Place("df", 0) /\ d.ifl = FALSE
    BY <1>3, <1>8, <2>1, Zenon DEF Gates
  <2>4. d.guest = p.guest /\ d.work = p.work /\ d.pend = None
    BY <1>3, <1>8 DEF Gates, Agree, Names
  <2>7. ~e.halt
    <3>1. d.halt = p.halt
      BY <1>1, <1>8 DEF Half, Gates, Agree, Names
    <3> QED
      BY <3>1
  <2>5. e.rip = d.rip /\ e.guest = d.guest /\ e.work = d.work /\ e.stack = d.stack /\ e.ifl = d.ifl /\ e.pend = d.pend
    BY DEF Agree, Names
  <2>6. Footing(e, t)
    BY <1>5, <2>1, <2>2, <2>3, <2>4, <2>5, <2>7, FootPush
  <2> QED
    BY <1>2, <2>3, <2>4, <2>5, <2>6, <2>7 DEF Upright
<1>9. CASE ~p.guest /\ d.reset
  BY <1>9 DEF Agree, Names
<1> QED
  BY <1>1, <1>6, <1>7, <1>8, <1>9 DEF Falls

(* a program on its feet *)
Stands(x, h, s, ph) == /\ IsCpu(x) /\ IsHist(h) /\ s \in Hosted \cup {"native"} /\ (s \in Hosted => Hosting(x))
                       /\ Foot(x, h, s, ph) /\ Active(x, s)
LEMMA StandsFacts ==
  ASSUME NEW x, NEW h, NEW s, NEW ph, Stands(x, h, s, ph)
  PROVE  /\ s \in Hosted => x.guest = TRUE /\ Bound(x, h) /\ Mapped(x)
         /\ s = "native" => x.guest = FALSE
         /\ Who(x) = World(s) /\ (x.guest => x.idt = Vectors) /\ Footing(x, x.stack[Who(x)])
<1>1. s \in Hosted => x.guest = TRUE /\ Bound(x, h) /\ x.idt = Vectors
  BY DEF Stands, Foot, Active, Hosted, Hosting, Kept
<1>2. s = "native" => x.guest = FALSE
  BY DEF Stands, Foot
<1>3. Who(x) = World(s)
  BY <1>1, <1>2 DEF Stands, Who, World, Hosted
<1>4. s \in Hosted => Mapped(x)
  BY <1>1 DEF Bound, Mapped
<1>5. Footing(x, x.stack[World(s)])
  BY DEF Stands, Foot
<1>6. x.guest => x.idt = Vectors
  BY <1>1, <1>2 DEF Stands
<1>7. Footing(x, x.stack[Who(x)])
  BY <1>3, <1>5, Zenon
<1>8. s \in Hosted => x.guest = TRUE /\ Bound(x, h) /\ Mapped(x)
  BY <1>1, <1>4
<1> QED
  BY <1>2, <1>3, <1>6, <1>7, <1>8, Zenon

\* What a step that may leave the guest makes of the history.
LEMMA StandsOwes ==
  ASSUME NEW g, IsHist(g), g.owes = hist.owes, NEW d, NEW k, k = Exited(g, d), NEW h, h = k \/ \E v, e : h = Torn(k, v, e)
  PROVE  /\ IsHist(h) /\ (c.guest /\ ~d.guest => h.owes = Owes(d))
         /\ ~(c.guest /\ ~d.guest) => h.owes = hist.owes
<1>1. IsHist(k) /\ (c.guest /\ ~d.guest => k.owes = Owes(d)) /\ (~(c.guest /\ ~d.guest) => k.owes = hist.owes)
  <2>1. Same(g, k, {"owes", "reported"}) /\ (c.guest /\ ~d.guest => k.owes = Owes(d)) /\ (~(c.guest /\ ~d.guest) => k = g)
    BY ExitedHist
  <2>2. IsHist(k)
    BY <2>1 DEF Same
  <2> QED
    BY <2>1, <2>2
<1>2. CASE h = k
  BY <1>1, <1>2
<1>3. CASE \E v, e : h = Torn(k, v, e)
  <2>1. PICK v, e : h = Torn(k, v, e)
    BY <1>3
  <2>2. Same(k, h, {"torn"})
    BY <1>1, <2>1, TornHist
  <2>3. IsHist(h) /\ h.owes = k.owes
    BY <2>2 DEF Same, HistNames
  <2> QED
    BY <1>1, <2>3
<1> QED
  BY <1>2, <1>3

\* An interrupt finds a program with its interrupts open.
LEMMA FootLine ==
  ASSUME IsCpu(c), c.pend = None, Loose(c.rip, c.stack[Who(c)]), NEW bad, NEW y, y = Interrupted(c, bad),
         NEW e, Agree(y, e, {"start", "halt"}), e.halt = FALSE \/ (e.halt = y.halt /\ ~c.halt),
         e.start = e.rip \/ (e.start = y.start /\ Sited(c.start) /\ c.start.code \notin Firm)
  PROVE  Upright(c, e) \/ Thrown(c, e)
<1>1. CASE c.guest /\ "extint" \in F(c, PinCtls)
  <2>1. PICK z, vector : IsCpu(z) /\ Agree(c, z, {"irq"}) /\ Left(z, y, "interrupt", vector)
    BY <1>1, InterruptLeaves
  <2>2. z.work = c.work /\ z.stack = c.stack /\ z.rip = c.rip /\ Who(c) = "guest"
    BY <1>1, <2>1 DEF Agree, Names, Who
  <2>3. PICK reason : reason = "interrupt" /\ reason \in Between
    BY DEF Between
  <2>4. Loose(IF reason \in Between THEN z.rip ELSE z.start, z.stack["guest"])
    BY <2>2, <2>3
  <2> QED
    BY <1>1, <2>1, <2>2, <2>3, <2>4, ThrownOn
<1>2. CASE ~(c.guest /\ "extint" \in F(c, PinCtls))
  <2>1. PICK z : z = [c EXCEPT !.irq = FALSE]
    BY Zenon
  <2>2. IsCpu(z) /\ Agree(c, z, {"irq"}) /\ z.pend = None /\ z.rip = c.rip /\ z.start = c.start
    BY <2>1 DEF Agree, IsCpu, Names
  <2>3. y = Entered(z, "irq", bad)
    BY <1>2, <2>1 DEF Interrupted
  <2>4. /\ bad = 0 => Gates(z, y, "irq", TRUE)
        /\ bad # 0 => Halved(z, y, "irq")
    BY <2>2, <2>3, EnteredShape
  <2>5. y.start = c.start /\ y.halt = c.halt
    <3>1. CASE bad = 0
      BY <2>2, <2>4, <3>1 DEF Gates, Agree, Names
    <3>2. CASE bad # 0
      BY <2>2, <2>4, <3>2 DEF Halved, Gates, Agree, Names
    <3> QED
      BY <3>1, <3>2
  <2>6. (e.start = e.rip \/ (Sited(e.start) /\ e.start.code \notin Firm)) /\ ~e.halt
    BY <2>5
  <2>7. PICK v, st : v = "irq" /\ st = c.stack[Who(c)]
    BY Zenon
  <2>8. v \in Raisable \cup {"irq"} /\ v # "pf" /\ (Gates(z, y, v, TRUE) \/ Halved(z, y, v)) /\ Loose(z.rip, st)
    BY <2>2, <2>4, <2>7
  <2>9. Agree(c, z, {"rip", "irq"})
    BY <2>2 DEF Agree
  <2> QED
    BY <2>6, <2>7, <2>8, <2>9, FootHands
<1> QED
  BY <1>1, <1>2

\* An exception is delivered.
LEMMA FootFault ==
  ASSUME Stands(c, hist, subject, phase), c.pend # None, ~c.halt, NEW bad \in 0..2,
         NEW d, d = Dispatch([c EXCEPT !.pend = None], c.pend, bad),
         NEW e, Agree(d, e, {"start"}), e.start = e.rip
  PROVE  Upright(c, e) \/ Thrown(c, e) \/ (~c.guest /\ e.reset)
<1>1. IsCpu(c) /\ Footing(c, c.stack[Who(c)]) /\ (c.guest => c.idt = Vectors)
  BY StandsFacts DEF Stands
<1>2. PICK x : x = [c EXCEPT !.pend = None]
  BY Zenon
<1>3. /\ IsCpu(x) /\ x.pend = None /\ x.rip = c.rip /\ x.start = c.start /\ x.stack = c.stack /\ x.guest = c.guest
      /\ x.work = c.work /\ x.halt = c.halt /\ x.idt = c.idt
  BY <1>1, <1>2 DEF IsCpu, Names
<1>4. PICK v : v = c.pend.vector /\ v \in Raisable
  BY <1>1 DEF Footing
<1>5. PICK st : st = x.stack[Who(x)] /\ Who(x) = Who(c) /\ st = c.stack[Who(c)]
  BY <1>3 DEF Who
<1>6. Loose(x.start, st) /\ Loose(x.rip, st)
  BY <1>1, <1>3, <1>5 DEF Footing, Loose
<1>7. Refused(x, v, d) \/ Handed(x, v, d) \/ (v = "pf" /\ Doubled(x, d)) \/ (~x.guest /\ d.reset)
  BY <1>1, <1>2, <1>3, <1>4, DispatchShape
<1>8. (Upright(x, e) => Upright(c, e)) /\ (Thrown(x, e) => Thrown(c, e))
  BY <1>3, <1>5 DEF Upright, Thrown
<1>9. CASE Refused(x, v, d)
  <2>1. PICK y, reason : /\ x.guest /\ Agree(x, y, {"rip"}) /\ reason = "exception" /\ Left(y, d, reason, v)
    BY <1>9 DEF Refused
  <2>2. y.work = x.work /\ y.start = x.start /\ y.stack["guest"] = st
    BY <1>5, <2>1 DEF Agree, Names, Who
  <2>3. Loose(IF reason \in Between THEN y.rip ELSE y.start, y.stack["guest"])
    BY <1>6, <2>1, <2>2 DEF Between
  <2>4. d.halt = FALSE /\ e.halt = d.halt /\ Agree(d, e, {"start", "halt"})
    BY <2>1 DEF Left, Home, Agree, Names
  <2>5. v \in Raisable \cup {"df"}
    BY <1>4
  <2> QED
    BY <1>8, <2>1, <2>2, <2>3, <2>4, <2>5, ThrownOn
<1>10. CASE Handed(x, v, d)
  <2>1. PICK z : /\ IsCpu(z) /\ Agree(x, z, {"rip"}) /\ z.rip = (IF v \in Traps THEN x.rip ELSE x.start)
                 /\ Gates(z, d, v, TRUE) \/ (v # "pf" /\ Halved(z, d, v))
    BY <1>10 DEF Handed
  <2>2. Loose(z.rip, st) /\ Agree(x, z, {"rip", "irq"})
    BY <1>6, <2>1 DEF Agree
  <2>3. ~e.halt
    <3>1. z.halt = c.halt
      BY <1>3, <2>1 DEF Agree, Names
    <3>2. d.halt = z.halt /\ e.halt = d.halt
      BY <2>1 DEF Gates, Halved, Agree, Names
    <3> QED
      BY <3>1, <3>2
  <2>4. Agree(d, e, {"start", "halt"}) /\ v \in Raisable \cup {"irq"}
    BY <1>4 DEF Agree
  <2> QED
    BY <1>3, <1>5, <1>8, <2>1, <2>2, <2>3, <2>4, FootHands
<1>11. CASE v = "pf" /\ Doubled(x, d)
  <2>1. Agree(d, e, {"start", "halt"}) /\ e.halt = d.halt
    BY DEF Agree, Names
  <2>2. Upright(x, e) \/ Thrown(x, e) \/ (~x.guest /\ e.reset)
    BY <1>3, <1>5, <1>6, <1>11, <2>1, FootDoubles
  <2> QED
    BY <1>3, <1>8, <2>2
<1>12. CASE ~x.guest /\ d.reset
  BY <1>3, <1>12 DEF Agree, Names
<1> QED
  BY <1>7, <1>9, <1>10, <1>11, <1>12

\* The events before an instruction leave a program on its feet.
LEMMA FootEvents ==
  ASSUME Stands(c, hist, subject, phase), Events
  PROVE  c'.reset \/ Foot(c', hist', subject, "exec")
<1>1. /\ subject \in Hosted => c.guest = TRUE /\ Bound(c, hist) /\ Mapped(c)
      /\ subject = "native" => c.guest = FALSE
      /\ Who(c) = World(subject) /\ Footing(c, c.stack[Who(c)])
  BY StandsFacts
<1>2. IsCpu(c) /\ IsHist(hist) /\ subject \in Hosted \cup {"native"}
  BY DEF Stands
<1>3. PICK p, poll, bad, d :
        /\ Happens(p, poll, bad, d) /\ IsCpu(p) /\ IsCpu(d) /\ c' = [d EXCEPT !.start = d.rip]
        /\ hist' = Torn(Exited(Noted(p, d), d), Cause(p), d)
        /\ p = c \/ (Left(c, p, "window", None) /\ d = p /\ c.guest /\ c.ifl /\ c.pend = None)
  BY <1>2, EventsShape
<1>4. Agree(d, c', {"start"}) /\ c'.start = c'.rip /\ ~c.halt
  BY <1>3 DEF Agree, IsCpu, Names, Events
<1>5. Agree(d, c', {"start", "halt"}) /\ c'.halt = d.halt
  BY <1>4 DEF Agree, Names
<1>6. /\ c.guest /\ ~c'.guest => hist'.owes = Owes(c')
      /\ ~(c.guest /\ ~c'.guest) => hist'.owes = hist.owes
  <2>1. PICK n, g : n = hist.due + 1 /\ g = Noted(p, d)
    OBVIOUS
  <2>2. IF Trapped(p, d) THEN g = [hist EXCEPT !.due = n] ELSE g = hist
    BY <2>1, Zenon DEF Noted
  <2>3. IsHist(g) /\ g.owes = hist.owes
    BY <1>2, <2>2 DEF IsHist, HistNames
  <2>4. PICK k : k = Exited(g, c')
    BY Zenon
  <2>5. hist' = Torn(k, Cause(p), d)
    BY <1>3, <1>4, <2>1, <2>4, ExitedOn
  <2>6. hist' = k \/ \E v, e : hist' = Torn(k, v, e)
    BY <2>5, Zenon
  <2> QED
    BY <2>3, <2>4, <2>6, StandsOwes
<1>7. ASSUME Upright(c, c') \/ Thrown(c, c')
      PROVE  Foot(c', hist', subject, "exec")
  <2>1. subject \in Hosted /\ c'.guest = TRUE => Bound(c, hist')
    BY <1>1, <1>6 DEF Bound
  <2>2. c.guest /\ c'.guest = FALSE => hist'.owes = Owes(c')
    BY <1>6
  <2> QED
    BY <1>1, <1>2, <1>4, <1>7, <2>1, <2>2, FootSettles
<1>8. CASE p # c
  <2>1. Left(c, d, "window", None) /\ c.guest /\ c.ifl
    BY <1>3, <1>8
  <2>2. Loose(c.rip, c.stack["guest"])
    BY <1>1, <2>1 DEF Footing, Loose, Who
  <2>3. PICK reason, vector : reason = "window" /\ vector = None /\ reason \in Between
    BY DEF Between
  <2>4. Loose(IF reason \in Between THEN c.rip ELSE c.start, c.stack["guest"]) /\ Left(c, d, reason, vector)
    BY <2>1, <2>2, <2>3
  <2>5. reason = "exception" => vector \in Raisable \cup {"df"}
    BY <2>3
  <2>6. Thrown(c, c')
    BY <1>5, <2>1, <2>4, <2>5, ThrownOn
  <2> QED
    BY <1>7, <2>6
<1>9. CASE p = c /\ c.pend # None
  <2>1. bad \in 0..2 /\ d = Dispatch([c EXCEPT !.pend = None], c.pend, bad)
    BY <1>1, <1>2, <1>3, <1>9 DEF Happens, Plans
  <2>2. Upright(c, c') \/ Thrown(c, c') \/ (~c.guest /\ c'.reset)
    BY <1>4, <1>9, <2>1, FootFault
  <2> QED
    BY <1>7, <2>2
<1>10. CASE p = c /\ c.pend = None /\ poll
  <2>1. Takes(c)
    BY <1>3, <1>10 DEF Happens
  <2>2. d = Interrupted(c, bad)
    BY <1>3, <1>10, <2>1 DEF Happens, Delivered
  <2>3. Loose(c.rip, c.stack[Who(c)])
    BY <1>1, <2>1 DEF Footing, Loose, Takes
  <2>4. c'.halt = d.halt /\ ~c.halt /\ c'.start = c'.rip
    BY <1>4, <1>5
  <2>5. Upright(c, c') \/ Thrown(c, c')
    BY <1>2, <1>5, <1>10, <2>2, <2>3, <2>4, FootLine
  <2> QED
    BY <1>7, <2>5
<1>11. CASE p = c /\ c.pend = None /\ ~poll
  <2>1. d = c
    BY <1>3, <1>11 DEF Happens
  <2>2. /\ c'.guest = c.guest /\ c'.work = c.work /\ c'.stack = c.stack /\ c'.rip = c.rip
        /\ c'.pend = c.pend /\ c'.halt = c.halt /\ c'.ifl = c.ifl
    BY <1>4, <2>1 DEF Agree, Names
  <2>3. Footing(c', c'.stack[Who(c)])
    BY <1>1, <1>4, <1>11, <2>2 DEF Footing
  <2>4. Upright(c, c')
    BY <1>4, <2>2, <2>3 DEF Upright
  <2> QED
    BY <1>7, <2>4
<1> QED
  BY <1>3, <1>8, <1>9, <1>10, <1>11

LEMMA FootPark ==
  ASSUME Stands(c, hist, subject, phase), Park
  PROVE  Foot(c', hist', subject, phase')
<1>1. /\ subject \in Hosted => c.guest = TRUE /\ Bound(c, hist) /\ Mapped(c)
      /\ subject = "native" => c.guest = FALSE
      /\ Who(c) = World(subject) /\ Footing(c, c.stack[Who(c)])
  BY StandsFacts
<1>2. IsCpu(c) /\ IsHist(hist) /\ subject \in Hosted \cup {"native"}
  BY DEF Stands
<1>3. PICK bad : c' = [Delivered(c, bad) EXCEPT !.halt = FALSE] /\ Takes(c) /\ c.halt
  BY DEF Park
<1>4. PICK y : y = Interrupted(c, bad)
  BY Zenon
<1>5. c' = [y EXCEPT !.halt = FALSE] /\ phase' = "event"
  BY <1>3, <1>4 DEF Park, Delivered
<1>6. c.pend = None /\ Sited(c.start) /\ c.start.code \notin Firm /\ Loose(c.rip, c.stack[Who(c)])
  BY <1>1, <1>3 DEF Footing, Loose, Takes
<1>7. IsCpu(y)
  BY <1>2, <1>4, InterruptDelivery DEF Delivery, Left, Apart, Agree
<1>8. Agree(y, c', {"start", "halt"}) /\ c'.halt = FALSE /\ c'.start = y.start
  BY <1>5, <1>7 DEF Agree, IsCpu, Names
<1>9. Upright(c, c') \/ Thrown(c, c')
  BY <1>2, <1>4, <1>6, <1>8, FootLine
<1>10. /\ c.guest /\ ~c'.guest => hist'.owes = Owes(c')
       /\ ~(c.guest /\ ~c'.guest) => hist'.owes = hist.owes
  <2>1. PICK k : k = Exited(hist, c')
    BY Zenon
  <2>2. hist' = k \/ \E v, e : hist' = Torn(k, v, e)
    BY <2>1, Zenon DEF Park
  <2> QED
    BY <1>2, <2>1, <2>2, StandsOwes
<1>11. subject \in Hosted /\ c'.guest = TRUE => Bound(c, hist')
  BY <1>1, <1>10 DEF Bound
<1>12. (c.guest /\ c'.guest = FALSE => hist'.owes = Owes(c')) /\ (phase' = "exec" => c'.start = c'.rip)
  BY <1>5, <1>10
<1> QED
  BY <1>1, <1>2, <1>9, <1>11, <1>12, FootSettles

\* An instruction is decoded at the place where it is.
LEMMA SitedNext ==
  ASSUME Sited(c.rip), IsCpu(c), NEW y, y = Decoded
  PROVE  IsCpu(y) /\ Agree(c, y, {"rip"}) /\ Sited(y.rip) /\ y.rip.code = c.rip.code
<1>1. PICK to : to = Next1(c)
  BY Zenon
<1>2. y = [c EXCEPT !.rip = to]
  BY <1>1, Zenon DEF Decoded
<1>3. IsCpu(y) /\ Agree(c, y, {"rip"}) /\ y.rip = to
  BY <1>2 DEF Agree, IsCpu, Names
<1>4. Sited(to) /\ to.code = c.rip.code
  <2>1. CASE c.rip.code = "host"
    BY <1>1, <2>1 DEF Next1, Place, Sited
  <2>2. CASE c.rip.code # "host"
    <3>1. PICK n : n = IF c.rip.code = "main" /\ c.rip.at = End THEN c.rip.at ELSE c.rip.at + 1
      OBVIOUS
    <3>2. to = [c.rip EXCEPT !.at = n]
      BY <1>1, <2>2, <3>1 DEF Next1
    <3> QED
      BY <3>2 DEF Sited
  <2> QED
    BY <2>1, <2>2
<1> QED
  BY <1>3, <1>4

\* A program goes on under its own flag, is put to sleep, or meets an exception.
LEMMA FootMoves ==
  ASSUME Stands(c, hist, subject, phase), phase = "exec",
         NEW d, d.guest = c.guest, d.work = c.work, d.stack = c.stack, d.start = c.start,
         Sited(d.rip), d.rip.code = c.rip.code,
         \/ d.pend = c.pend /\ d.ifl = c.ifl /\ d.halt = c.halt
         \/ c.rip.code \notin Firm /\ d.pend = None
         \/ c.rip.code \notin Firm /\ d.pend.vector \in Raisable /\ ~d.halt,
         NEW k, k.owes = hist.owes
  PROVE  Foot(d, k, subject, "event")
<1>1. /\ subject \in Hosted => c.guest = TRUE /\ Bound(c, hist)
      /\ subject = "native" => c.guest = FALSE
      /\ Footing(c, c.stack[World(subject)]) /\ c.start = c.rip /\ ~c.halt
  <2>1. c.start = c.rip /\ ~c.halt
    BY DEF Stands, Foot
  <2>2. Footing(c, c.stack[World(subject)])
    BY DEF Stands, Foot
  <2> QED
    BY <2>1, <2>2, StandsFacts
<1>2. subject \in Hosted => Bound(d, k)
  <2>1. \A g : F(d, g) = F(c, g)
    BY SameWork
  <2> QED
    BY <1>1, <2>1 DEF Bound
<1>3. PICK st : st = c.stack[World(subject)] /\ st = d.stack[World(subject)]
  OBVIOUS
<1>4. Footing(d, st)
  <2>1. CASE d.pend = c.pend /\ d.ifl = c.ifl /\ d.halt = c.halt
    BY <1>1, <1>3, <2>1 DEF Footing
  <2>2. CASE c.rip.code \notin Firm /\ d.pend = None
    BY <1>1, <1>3, <2>2 DEF Footing
  <2>3. CASE c.rip.code \notin Firm /\ d.pend.vector \in Raisable /\ ~d.halt
    BY <1>1, <1>3, <2>3 DEF Footing, Loose
  <2> QED
    BY <2>1, <2>2, <2>3
<1> QED
  BY <1>1, <1>2, <1>3, <1>4 DEF Foot

\* An instruction is done, or exits.
LEMMA FootRuns ==
  ASSUME Stands(c, hist, subject, phase), phase = "exec", c.rip.code \notin Firm,
         NEW ins, ins.op \notin Between \cup {"exception"}, NEW y, y = Decoded, NEW d, Agree(y, d, {"halt", "cr0", "got"}),
         NEW g, IsHist(g), g.owes = hist.owes, Runs(ins, d, g)
  PROVE  Foot(c', hist', subject, phase')
<1>1. /\ subject \in Hosted => c.guest = TRUE /\ Bound(c, hist) /\ Mapped(c)
      /\ subject = "native" => c.guest = FALSE
      /\ Who(c) = World(subject) /\ Footing(c, c.stack[Who(c)]) /\ c.start = c.rip
  <2>1. c.start = c.rip
    BY DEF Stands, Foot
  <2> QED
    BY <2>1, StandsFacts
<1>2. IsCpu(c) /\ IsHist(hist) /\ subject \in Hosted \cup {"native"} /\ Sited(c.rip)
  BY <1>1 DEF Stands, Footing
<1>3. IsCpu(y) /\ Agree(c, y, {"rip"}) /\ Sited(y.rip) /\ y.rip.code = c.rip.code
  BY <1>2, SitedNext
<1>4. phase' = "event" /\ c.pend = None
  BY DEF Runs, Done
<1>5. CASE c.guest /\ Exits(Decoded, ins)
  <2>1. PICK reason, vector : reason = ins.op /\ vector = None
    BY Zenon
  <2>2. c' = VmExit(y, reason, vector) /\ hist' = Exited(hist, c')
    BY <1>5, <2>1 DEF Runs, Done
  <2>3. Left(y, c', reason, vector) /\ c'.guest = FALSE
    <3>1. Left(y, c', reason, vector)
      BY <1>3, <2>2, ExitLeaves
    <3> QED
      BY <3>1 DEF Left, Home
  <2>4. y.work = c.work /\ y.start = c.rip /\ y.stack = c.stack /\ Who(c) = "guest"
    BY <1>1, <1>3, <1>5 DEF Agree, Names, Who
  <2>5. Loose(c.rip, c.stack["guest"])
    BY <1>1, <2>4 DEF Footing, Loose
  <2>6. Loose(IF reason \in Between THEN y.rip ELSE y.start, y.stack["guest"])
    BY <2>1, <2>4, <2>5
  <2>7. Thrown(c, c')
    <3>1. reason = "exception" => vector \in Raisable \cup {"df"}
      BY <2>1
    <3> QED
      BY <1>5, <2>3, <2>4, <2>6, <3>1 DEF Thrown
  <2>8. hist'.owes = Owes(c')
    <3>1. PICK k : k = Exited(hist, c')
      BY Zenon
    <3>2. hist' = k
      BY <2>2, <3>1
    <3> QED
      BY <1>2, <1>5, <2>3, <3>1, <3>2, StandsOwes
  <2>9. subject \in Hosted
    BY <1>1, <1>2, <1>5
  <2> QED
    BY <1>1, <1>4, <2>3, <2>7, <2>8, <2>9, FootSettles
<1>6. CASE ~(c.guest /\ Exits(Decoded, ins))
  <2>1. c' = d /\ hist' = Exited(Retired(g), d)
    BY <1>6 DEF Runs, Done
  <2>2. /\ d.guest = c.guest /\ d.work = c.work /\ d.stack = c.stack /\ d.start = c.start /\ d.pend = None
        /\ d.rip = y.rip
    BY <1>3, <1>4 DEF Agree, Names
  <2>3. hist'.owes = hist.owes
    <3>1. hist' = Retired(g)
      BY <2>1, <2>2 DEF Exited
    <3>2. Same(g, hist', {"due"})
      BY <3>1, RetiredHist
    <3> QED
      BY <3>2 DEF Same, HistNames
  <2> QED
    BY <1>3, <1>4, <2>1, <2>2, <2>3, FootMoves
<1> QED
  BY <1>5, <1>6

\* A handler returns, by its frame or by half of one.
LEMMA FootReturns ==
  ASSUME Stands(c, hist, subject, phase), phase = "exec", Iret
  PROVE  Foot(c', hist', subject, phase')
<1>1. /\ subject \in Hosted => c.guest = TRUE /\ Bound(c, hist)
      /\ subject = "native" => c.guest = FALSE
      /\ Who(c) = World(subject) /\ Footing(c, c.stack[Who(c)]) /\ ~c.halt
  <2>1. ~c.halt
    BY DEF Stands, Foot
  <2> QED
    BY <2>1, StandsFacts
<1>2. IsCpu(c) /\ IsHist(hist) /\ subject \in Hosted \cup {"native"}
  BY DEF Stands
<1>3. PICK w, f, t, rip, ifl : Pops(w, f, t, rip, ifl)
  BY IretPops
<1>4. PICK st : st = c.stack[w]
  OBVIOUS
<1>5. w = Who(c) /\ f = st[Len(st)] /\ t = SubSeq(st, 1, Len(st) - 1) /\ (rip = f.rip \/ rip = Place("lost", 0))
  BY <1>3, <1>4 DEF Pops
<1>6. c.rip.code \in Vectors /\ c.pend = None /\ phase' = "event"
  BY Zenon DEF Iret, Done
<1>7. Linked(st, c.rip.code)
  BY <1>1, <1>4, <1>5 DEF Footing
<1>8. Loose(f.rip, t) /\ Linked(t, "lost")
  BY <1>5, <1>6, <1>7, LinkPop
<1>9. Sited(rip) /\ Linked(t, rip.code) /\ rip.code \notin Firm
  <2>1. CASE rip = f.rip
    BY <1>8, <2>1 DEF Loose
  <2>2. CASE rip = Place("lost", 0)
    BY <1>8, <2>2 DEF Place, Sited, Firm
  <2> QED
    BY <1>5, <2>1, <2>2
<1>10. PICK s : s = [c.stack EXCEPT ![w] = t]
  BY Zenon
<1>11. w \in Worlds
  BY <1>5 DEF Who, Worlds
<1>12. s = [u \in Worlds |-> s[u]] /\ s[w] = t
  BY <1>2, <1>10, <1>11 DEF IsCpu
<1>13. c' = [c EXCEPT !.rip = rip, !.ifl = ifl, !.stack = s]
  <2>1. c' = [c EXCEPT !.rip = rip, !.ifl = ifl, !.stack[w] = t]
    BY <1>3, Zenon DEF Pops
  <2> QED
    BY <1>10, <2>1, Zenon
<1>14. c'.guest = c.guest /\ c'.work = c.work /\ c'.rip = rip /\ c'.stack = s /\ c'.pend = c.pend /\ c'.halt = c.halt
  BY <1>2, <1>13 DEF IsCpu, Names
<1>15. Footing(c', t)
  BY <1>1, <1>6, <1>9, <1>14 DEF Footing
<1>16. c'.stack[World(subject)] = t
  BY <1>1, <1>5, <1>12, <1>14
<1>17. hist'.owes = hist.owes
  <2>1. PICK n : n = hist.ended + (IF c.rip.code = "irq" THEN 1 ELSE 0)
    BY Zenon
  <2>2. PICK g : g = [hist EXCEPT !.ended = n]
    BY Zenon
  <2>3. hist' = Exited(g, c')
    BY <1>3, <2>1, <2>2, Zenon DEF Pops
  <2>4. hist' = g
    BY <1>14, <2>3 DEF Exited
  <2> QED
    BY <1>2, <2>2, <2>4 DEF IsHist, HistNames
<1>18. subject \in Hosted => Bound(c', hist')
  <2>1. \A g : F(c', g) = F(c, g)
    BY <1>14, SameWork
  <2> QED
    BY <1>1, <1>17, <2>1 DEF Bound
<1> QED
  BY <1>1, <1>6, <1>14, <1>15, <1>16, <1>18 DEF Foot

\* An instruction of a program or of its handlers leaves it on its feet.
LEMMA FootGuest ==
  ASSUME Stands(c, hist, subject, phase), Guest
  PROVE  Foot(c', hist', subject, phase')
<1>1. phase = "exec" /\ phase' = "event"
  BY Zenon DEF Guest, Defers, FetchFaults, Faults, Int3, Spins, SetFlag, SetEnv, Halts, Others, Ports, Handles, Iret, WritesCr0, ReadsCr0,
     Clts, Lmsw, Runs, Done
<1>2. IsCpu(c) /\ IsHist(hist) /\ Sited(c.rip)
  <2>1. Footing(c, c.stack[Who(c)])
    BY StandsFacts
  <2> QED
    BY <2>1 DEF Stands, Footing
<1>3. PICK y : y = Decoded
  BY Zenon
<1>4. IsCpu(y) /\ Agree(c, y, {"rip"}) /\ Sited(y.rip) /\ y.rip.code = c.rip.code
  BY <1>2, <1>3, SitedNext
<1>5. y.guest = c.guest /\ y.work = c.work /\ y.stack = c.stack /\ y.start = c.start /\ y.pend = c.pend /\ y.ifl = c.ifl /\ y.halt = c.halt
  BY <1>4 DEF Agree, Names
<1>6. Free \/ c.rip.code \in {"irq", "ud"} => c.rip.code \notin Firm
  BY DEF Free, InMain, Firm
<1>7. ASSUME NEW d, NEW h, d.guest = c.guest, Done(d, h)
      PROVE  c' = d /\ hist' = h
  BY <1>7 DEF Done, Exited
<1>8. ASSUME NEW x \in {c, y}, NEW v \in Raisable, c.rip.code \notin Firm, Done(Raise(x, v), hist)
      PROVE  Foot(c', hist', subject, phase')
  <2>1. PICK f, d : f = Fault(v, {}) /\ d = Raise(x, v)
    BY Zenon
  <2>2. IsCpu(x) /\ Agree(c, x, {"rip"}) /\ Sited(x.rip) /\ x.rip.code = c.rip.code
    BY <1>2, <1>4, <1>8 DEF Agree
  <2>3. x.pend = None /\ ~x.halt
    BY <1>1, <1>8, <2>2 DEF Done, Agree, Names, Stands, Foot
  <2>4. d = [x EXCEPT !.pend = f]
    BY <2>1, <2>3 DEF Raise, Raised
  <2>5. IsCpu(d) /\ Agree(x, d, {"pend"}) /\ d.pend = f /\ f.vector = v
    BY <2>1, <2>2, <2>4 DEF Agree, IsCpu, Names, Fault
  <2>6. /\ d.guest = c.guest /\ d.work = c.work /\ d.stack = c.stack /\ d.start = c.start /\ d.rip = x.rip /\ d.halt = x.halt
    BY <2>2, <2>5 DEF Agree, Names
  <2>7. c' = d /\ hist' = hist
    BY <1>7, <1>8, <2>1, <2>6
  <2>8. Foot(d, hist, subject, "event")
    BY <1>1, <1>8, <2>2, <2>3, <2>5, <2>6, FootMoves
  <2> QED
    BY <1>1, <2>7, <2>8
<1>9. ASSUME NEW ins, ins.op \notin Between \cup {"exception"}, c.rip.code \notin Firm, NEW d, Agree(y, d, {"halt", "cr0", "got"}),
             NEW g, IsHist(g), g.owes = hist.owes, Runs(ins, d, g)
      PROVE  Foot(c', hist', subject, phase')
  BY <1>1, <1>3, <1>9, FootRuns
<1>10. CASE Defers
  <2>1. c' = y /\ hist' = hist
    BY <1>3, <1>10 DEF Defers
  <2> QED
    BY <1>1, <1>4, <1>5, <2>1, FootMoves
<1>11. CASE FetchFaults
  <2>1. Free /\ Done(Raise(c, "pf"), hist) /\ "pf" \in Raisable
    BY <1>11 DEF FetchFaults, Raisable
  <2> QED
    BY <1>6, <1>8, <2>1
<1>12. CASE Faults
  <2>1. PICK v \in {"ud", "gp", "pf"} : Done(Raise(y, v), hist)
    BY <1>3, <1>12, Zenon DEF Faults
  <2>2. (Free \/ c.rip.code \in {"irq", "ud"}) /\ v \in Raisable
    BY <1>12 DEF Faults, Raisable
  <2> QED
    BY <1>6, <1>8, <2>1, <2>2
<1>13. CASE Int3
  <2>1. Free /\ Done(Raise(y, "bp"), hist) /\ "bp" \in Raisable
    BY <1>3, <1>13 DEF Int3, Raisable
  <2> QED
    BY <1>6, <1>8, <2>1
<1>14. CASE Spins
  <2>1. Done(c, hist)
    BY <1>14 DEF Spins
  <2>2. c' = c /\ hist' = hist
    BY <1>7, <2>1
  <2> QED
    BY <1>1, <1>2, <2>2, FootMoves
<1>15. CASE SetFlag
  <2>1. PICK v, g, d : g = [hist EXCEPT !.ifl = v] /\ d = [y EXCEPT !.ifl = v] /\ Done(d, Retired(g)) /\ Free
    BY <1>3, <1>15, Zenon DEF SetFlag
  <2>2. d.guest = c.guest /\ d.work = c.work /\ d.stack = c.stack /\ d.start = c.start /\ d.rip = y.rip /\ d.pend = None
    <3>1. c.pend = None
      BY <2>1 DEF Done
    <3> QED
      BY <1>4, <1>5, <2>1, <3>1 DEF IsCpu, Names
  <2>3. c' = d /\ hist' = Retired(g)
    BY <1>7, <2>1, <2>2
  <2>4. IsHist(g) /\ g.owes = hist.owes
    BY <1>2, <2>1 DEF IsHist, HistNames
  <2>5. hist'.owes = hist.owes
    BY <2>3, <2>4, RetiredHist DEF Same, HistNames
  <2> QED
    BY <1>1, <1>4, <1>6, <2>1, <2>2, <2>3, <2>5, FootMoves
<1>16. CASE SetEnv
  <2>1. PICK v, g, d : g = [hist EXCEPT !.env = v] /\ d = [y EXCEPT !.env = v] /\ Done(d, Retired(g)) /\ Free
    <3>1. PICK v \in {"a", "b"} : Done([y EXCEPT !.env = v], Retired([hist EXCEPT !.env = v])) /\ Free
      BY <1>3, <1>16, Zenon DEF SetEnv
    <3> QED
      BY <3>1, Zenon
  <2>2. d.guest = c.guest /\ d.work = c.work /\ d.stack = c.stack /\ d.start = c.start /\ d.rip = y.rip /\ d.pend = None
    <3>1. c.pend = None
      BY <2>1 DEF Done
    <3> QED
      BY <1>4, <1>5, <2>1, <3>1 DEF IsCpu, Names
  <2>3. c' = d /\ hist' = Retired(g)
    BY <1>7, <2>1, <2>2
  <2>4. IsHist(g) /\ g.owes = hist.owes
    BY <1>2, <2>1 DEF IsHist, HistNames
  <2>5. hist'.owes = hist.owes
    BY <2>3, <2>4, RetiredHist DEF Same, HistNames
  <2> QED
    BY <1>1, <1>4, <1>6, <2>1, <2>2, <2>3, <2>5, FootMoves
<1>17. CASE Halts
  <2>1. PICK d : d = [y EXCEPT !.halt = TRUE]
    BY Zenon
  <2>2. Runs(Op("hlt"), d, hist) /\ Free
    BY <1>3, <1>17, <2>1 DEF Halts
  <2>3. Agree(y, d, {"halt", "cr0", "got"})
    BY <1>4, <2>1 DEF Agree, IsCpu, Names
  <2>4. Op("hlt").op \notin Between \cup {"exception"}
    BY DEF Op, Between
  <2> QED
    BY <1>2, <1>6, <1>9, <2>2, <2>3, <2>4
<1>18. CASE Others
  <2>1. PICK o \in {"cpuid", "rdtsc", "rdtscp", "wbinvd", "vmcall"} : Done(Raise(y, "ud"), hist) \/ Runs(Op(o), y, hist)
    BY <1>3, <1>18, Zenon DEF Others
  <2>2. c.rip.code \notin Firm
    BY <1>6, <1>18 DEF Others
  <2>3. Op(o).op \notin Between \cup {"exception"} /\ Agree(y, y, {"halt", "cr0", "got"})
    BY <1>4 DEF Op, Between, Agree
  <2>4. CASE Done(Raise(y, "ud"), hist)
    <3>1. "ud" \in Raisable
      BY DEF Raisable
    <3> QED
      BY <1>8, <2>2, <2>4, <3>1
  <2>5. CASE Runs(Op(o), y, hist)
    BY <1>2, <1>9, <2>2, <2>3, <2>5
  <2> QED
    BY <2>1, <2>4, <2>5
<1>19. CASE Ports
  <2>1. PICK o \in {"io", "loadcr3", "rdmsr", "wrmsr"}, a \in {0, 1} : Runs([op |-> o, arg |-> a], y, hist)
    BY <1>3, <1>19, Zenon DEF Ports
  <2>2. c.rip.code \notin Firm
    BY <1>6, <1>19 DEF Ports
  <2>3. PICK ins : ins = [op |-> o, arg |-> a]
    OBVIOUS
  <2>4. ins.op \notin Between \cup {"exception"} /\ Agree(y, y, {"halt", "cr0", "got"})
    BY <1>4, <2>3 DEF Between, Agree
  <2> QED
    BY <1>2, <1>9, <2>1, <2>2, <2>3, <2>4
<1>20. CASE Handles
  <2>1. Done(y, hist)
    BY <1>3, <1>20 DEF Handles
  <2>2. c' = y /\ hist' = hist
    BY <1>5, <1>7, <2>1
  <2> QED
    BY <1>1, <1>4, <1>5, <2>2, FootMoves
<1>21. CASE Iret
  BY <1>1, <1>21, FootReturns
<1>22. CASE Cr0Acts
  <2>1. c.rip.code \notin Firm
    BY <1>6, <1>22 DEF Cr0Acts, WritesCr0, ReadsCr0, Clts, Lmsw
  <2>2. PICK ins, d, g : /\ ins.op \in {"tocr0", "fromcr0", "clts", "lmsw"} /\ Runs(ins, d, g)
                         /\ (\E b : d = [y EXCEPT !.cr0 = b]) \/ (\E b : d = [y EXCEPT !.got = b])
                         /\ (\E b : g = [hist EXCEPT !.sees = b]) \/ (\E b : g = [hist EXCEPT !.saw = b])
    BY <1>3, <1>22, CrActs
  <2>3. Agree(y, d, {"halt", "cr0", "got"})
    <3>1. ASSUME NEW b, d = [y EXCEPT !.cr0 = b]
          PROVE  Agree(y, d, {"halt", "cr0", "got"})
      BY <1>4, <3>1 DEF Agree, IsCpu, Names
    <3>2. ASSUME NEW b, d = [y EXCEPT !.got = b]
          PROVE  Agree(y, d, {"halt", "cr0", "got"})
      BY <1>4, <3>2 DEF Agree, IsCpu, Names
    <3> QED
      BY <2>2, <3>1, <3>2
  <2>4. IsHist(g) /\ g.owes = hist.owes
    <3>1. ASSUME NEW b, g = [hist EXCEPT !.sees = b]
          PROVE  IsHist(g) /\ g.owes = hist.owes
      BY <1>2, <3>1 DEF IsHist, HistNames
    <3>2. ASSUME NEW b, g = [hist EXCEPT !.saw = b]
          PROVE  IsHist(g) /\ g.owes = hist.owes
      BY <1>2, <3>2 DEF IsHist, HistNames
    <3> QED
      BY <2>2, <3>1, <3>2
  <2>5. ins.op \notin Between \cup {"exception"}
    BY <2>2 DEF Between
  <2> QED
    BY <1>9, <2>1, <2>2, <2>3, <2>4, <2>5
<1> QED
  BY <1>10, <1>11, <1>12, <1>13, <1>14, <1>15, <1>16, <1>17, <1>18, <1>19, <1>20, <1>21, <1>22 DEF Guest, Cr0Acts

\* Out of a guest, a step keeps where the program was ...
LEMMA FootAway ==
  ASSUME NEW d, d.guest = FALSE, NEW k, Bound(d, k), Away(d, k), NEW s \in Hosted,
         NEW ph, ph = "exec" => d.start = d.rip /\ ~d.halt
  PROVE  Foot(d, k, s, ph)
BY DEF Foot, Active, Hosted

LEMMA FootRests ==
  ASSUME Foot(c, hist, subject, phase), subject \in Hosted, c.guest = FALSE, NEW d, d.guest = FALSE, d.work = c.work,
         d.stack["guest"] = c.stack["guest"],
         NEW k, k.owes = hist.owes \/ (hist.owes = "repair" /\ k.owes = "none"),
         NEW ph, ph = "exec" => d.start = d.rip /\ ~d.halt
  PROVE  Foot(d, k, subject, ph)
<1>1. Bound(c, hist) /\ Away(c, hist)
  BY DEF Foot
<1>2. \A g : F(d, g) = F(c, g)
  BY SameWork
<1>3. Fatal(d) <=> Fatal(c)
  BY <1>2 DEF Fatal
<1>4. Bound(d, k)
  BY <1>1, <1>2 DEF Bound
<1>5. Away(d, k)
  BY <1>1, <1>2, <1>3 DEF Away
<1> QED
  BY <1>4, <1>5, FootAway

\* ... as the interrupts of the hypervisor and its handler of them do ...
LEMMA FootIdles ==
  ASSUME IsCpu(c), IsHist(hist), Hosting(c), Foot(c, hist, subject, phase), subject \in Hosted, c.guest = FALSE, Events \/ Guest
  PROVE  Foot(c', hist', subject, phase')
<1>1. CASE Events
  <2>1. /\ c'.guest = FALSE /\ c'.work = c.work /\ c'.stack["guest"] = c.stack["guest"] /\ c'.start = c'.rip /\ hist' = hist
    BY <1>1, HostEvents
  <2>2. ~c'.halt
    BY <1>1, <2>1, EventsHosting DEF Hosting, AtWork
  <2>3. hist'.owes = hist.owes
    BY <2>1
  <2> QED
    BY <2>1, <2>2, <2>3, FootRests
<1>2. CASE Guest
  <2>1. /\ c'.guest = FALSE /\ c'.work = c.work /\ c'.stack["guest"] = c.stack["guest"] /\ Same(hist, hist', {"ended"})
        /\ phase' = "event"
    BY <1>2, HostGuest
  <2>2. hist'.owes = hist.owes
    BY <2>1 DEF Same, HistNames
  <2> QED
    BY <2>1, <2>2, FootRests
<1> QED
  BY <1>1, <1>2

\* ... and a field that it writes, but for the place itself, which it moves on in the same code.
LEMMA FootWrites ==
  ASSUME IsCpu(c), Hosting(c), Foot(c, hist, subject, phase), subject \in Hosted, c.guest = FALSE,
         NEW e \in HostFields, NEW v, NEW h, Vmx(Instr("vmwrite", e, v), h), hist.owes # "burial",
         h.owes = "repair" => hist.owes = "repair",
         e = GuestRip => \E n : v = [F(c, GuestRip) EXCEPT !.at = n],
         e = EntryIntrInfo => v.vector \in Raisable \cup {"irq"}
  PROVE  Foot(c', hist', subject, phase')
<1>1. e \in Field /\ ~ReadOnly(e)
  BY HostFieldsWritable
<1>2. HostWrote(c', e, v) /\ hist' = h
  BY <1>1, HostWrites
<1>3. c'.guest = FALSE /\ c'.stack = c.stack /\ F(c', e) = v /\ \A g \in Field \ {e} : F(c', g) = F(c, g)
  BY <1>2 DEF HostWrote, Agree, Names, Rest
<1>4. phase' = "event"
  BY DEF Vmx, Done
<1>5. Bound(c, hist) /\ Loose(F(c, GuestRip), c.stack["guest"])
  BY DEF Foot, Away
<1>6. e # ExitIntrInfo
  BY DEF HostFields, GuestRip, GuestCr0, Cr0Shadow, EntryIntrInfo, CpuCtls, ExitIntrInfo
<1>7. F(c', ExitIntrInfo) = F(c, ExitIntrInfo)
  BY <1>3, <1>6, WriteFields
<1>8. F(c', EntryIntrInfo) = None \/ F(c', EntryIntrInfo).vector \in Raisable \cup {"irq"}
  <2>1. CASE e = EntryIntrInfo
    BY <1>3, <2>1
  <2>2. CASE e # EntryIntrInfo
    BY <1>3, <1>5, <2>2, WriteFields DEF Bound
  <2> QED
    BY <2>1, <2>2
<1>9. Loose(F(c', GuestRip), c'.stack["guest"])
  <2>1. CASE e = GuestRip
    <3>1. PICK n, r, a, b : v = [r EXCEPT !.at = n] /\ r = F(c, GuestRip) /\ a = r.code /\ b = r.at
      BY <2>1
    <3>2. r = [code |-> a, at |-> b]
      BY <1>5, <3>1 DEF Loose, Sited
    <3>3. v = [code |-> a, at |-> n]
      BY <3>1, <3>2
    <3>4. v.code = r.code /\ Sited(v)
      BY <3>1, <3>3 DEF Sited
    <3> QED
      BY <1>3, <1>5, <2>1, <3>1, <3>4 DEF Loose
  <2>2. CASE e # GuestRip
    BY <1>3, <1>5, <2>2, WriteFields
  <2> QED
    BY <2>1, <2>2
<1>10. Bound(c', h)
  BY <1>5, <1>7, <1>8 DEF Bound
<1>11. Away(c', h)
  BY <1>9 DEF Away
<1> QED
  BY <1>2, <1>3, <1>4, <1>10, <1>11, FootAway

LEMMA FootOwns ==
  ASSUME IsCpu(c), IsHist(hist), Hosting(c), Foot(c, hist, subject, phase), subject \in Hosted, c.guest = FALSE,
         Skips \/ Grants \/ GrantsOwn \/ Repairs \/ Hands \/ Injects \/ Asks \/ Opens
  PROVE  Foot(c', hist', subject, phase')
<1>1. {GuestRip, GuestCr0, Cr0Shadow, EntryIntrInfo, CpuCtls} = HostFields /\ GuestRip # EntryIntrInfo
      /\ {GuestCr0, Cr0Shadow, CpuCtls} \cap {GuestRip, EntryIntrInfo} = {}
  BY DEF HostFields, GuestRip, GuestCr0, Cr0Shadow, EntryIntrInfo, CpuCtls
<1>2. ASSUME NEW h, NEW o, h.owes = o, o \in {"none", "cr0", "past", "entry"}
      PROVE  h.owes # "repair"
  BY <1>2
<1>3. CASE Skips
  <2>1. PICK n, h : /\ h = [hist EXCEPT !.owes = "none", !.due = n]
                    /\ Vmx(Instr("vmwrite", GuestRip, Past), h) /\ hist.owes \in {"past", "skip"}
    BY <1>3, Zenon DEF Skips
  <2>2. h.owes = "none"
    BY <2>1 DEF IsHist, HistNames
  <2>3. \E m : Past = [F(c, GuestRip) EXCEPT !.at = m]
    <3>1. PICK r, m : r = F(c, GuestRip) /\ m = r.at + F(c, ExitInstrLen)
      BY Zenon
    <3>2. Past = [r EXCEPT !.at = m]
      BY <3>1 DEF Past
    <3> QED
      BY <3>1, <3>2
  <2> QED
    BY <1>1, <2>1, <2>2, <2>3, FootWrites
<1>4. CASE Grants
  <2>1. PICK v, h : h = [hist EXCEPT !.owes = "cr0", !.sees = v] /\ Vmx(Instr("vmwrite", Cr0Shadow, v), h) /\ hist.owes = "skip"
    BY <1>4, Zenon DEF Grants
  <2>2. h.owes = "cr0"
    BY <2>1 DEF IsHist, HistNames
  <2> QED
    BY <1>1, <2>1, <2>2, FootWrites
<1>5. CASE GrantsOwn
  <2>1. PICK v, h : h = [hist EXCEPT !.owes = "past"] /\ Vmx(Instr("vmwrite", GuestCr0, v), h) /\ hist.owes = "cr0"
    BY <1>5, Zenon DEF GrantsOwn
  <2>2. h.owes = "past"
    BY <2>1 DEF IsHist, HistNames
  <2> QED
    BY <1>1, <2>1, <2>2, FootWrites
<1>6. CASE Asks
  <2>1. PICK v : Vmx(Instr("vmwrite", CpuCtls, v), hist) /\ hist.owes = "none"
    BY <1>6, Zenon DEF Asks
  <2> QED
    BY <1>1, <2>1, FootWrites
<1>7. CASE Hands
  <2>1. PICK v, w, h : /\ h = [hist EXCEPT !.owes = "entry"] /\ Vmx(Instr("vmwrite", EntryIntrInfo, w), h)
                       /\ hist.owes = "repair" /\ v = F(c, ExitIntrInfo) /\ w = Event(v, v = "bp")
    BY <1>7, Zenon DEF Hands
  <2>2. h.owes = "entry"
    BY <2>1 DEF IsHist, HistNames
  <2>3. v \in Raisable
    BY <2>1 DEF Foot, Bound
  <2>4. w.vector \in Raisable \cup {"irq"}
    BY <2>1, <2>3 DEF Event
  <2> QED
    BY <1>1, <2>1, <2>2, <2>4, FootWrites
<1>8. CASE Injects
  <2>1. PICK w, n, h : /\ w = Event("irq", FALSE) /\ n = hist.raised + 1 /\ h = [hist EXCEPT !.raised = n]
                       /\ Vmx(Instr("vmwrite", EntryIntrInfo, w), h) /\ hist.owes = "none"
    BY <1>8, Zenon DEF Injects
  <2>2. h.owes = "none"
    BY <2>1 DEF IsHist, HistNames
  <2>3. w.vector \in Raisable \cup {"irq"}
    BY <2>1 DEF Event
  <2> QED
    BY <1>1, <2>1, <2>2, <2>3, FootWrites
<1>9. CASE Repairs \/ Opens
  <2>1. PICK to : to = Next1(c)
    BY Zenon
  <2>2. c' = [c EXCEPT !.rip = to] \/ c' = [c EXCEPT !.rip = to, !.ifl = TRUE]
    BY <1>9, <2>1, Zenon DEF Repairs, Opens, Done, Decoded
  <2>3. c'.guest = FALSE /\ c'.work = c.work /\ c'.stack = c.stack
    <3>1. CASE c' = [c EXCEPT !.rip = to]
      BY <3>1 DEF IsCpu, Names
    <3>2. CASE c' = [c EXCEPT !.rip = to, !.ifl = TRUE]
      BY <3>2 DEF IsCpu, Names
    <3> QED
      BY <2>2, <3>1, <3>2
  <2>4. phase' = "event" /\ (hist' = hist \/ (hist' = [hist EXCEPT !.owes = "none"] /\ hist.owes = "repair"))
    BY <1>9 DEF Repairs, Opens, Done, Exited
  <2>5. hist'.owes = hist.owes \/ (hist.owes = "repair" /\ hist'.owes = "none")
    BY <2>4 DEF IsHist, HistNames
  <2> QED
    BY <2>3, <2>4, <2>5, FootRests
<1> QED
  BY <1>3, <1>4, <1>5, <1>6, <1>7, <1>8, <1>9

\* An entry without an event leaves rip_start at the hypervisor's instruction.
LEMMA EntryStarts ==
  ASSUME NEW x, IsCpu(x), F(x, EntryIntrInfo) = None, NEW bad, NEW d, d = VmEntry(x, bad)
  PROVE  d.start = x.start
<1>1. PICK cr0, env, long, rip, ifl, halt :
        /\ cr0 = F(x, GuestCr0) \cup CR0Fixed /\ env = F(x, GuestEnv) /\ rip = F(x, GuestRip) /\ ifl = F(x, GuestFlags)
        /\ halt = F(x, GuestActivity)
        /\ long = IF "loadefer" \in F(x, EntryCtls) THEN F(x, GuestEfer) ELSE "ia32e" \in F(x, EntryCtls)
  BY Zenon
<1>2. PICK y : y = [x EXCEPT !.cr0 = cr0, !.vmxe = TRUE, !.env = env, !.long = long, !.rip = rip, !.ifl = ifl, !.halt = halt]
  BY Zenon
<1>3. y = LoadGuest(x)
  BY <1>1, <1>2, Zenon DEF LoadGuest
<1>4. y = [n \in Names |-> y[n]] /\ y.start = x.start
  BY <1>2 DEF IsCpu, Names
<1>5. PICK w : w = [y.work EXCEPT ![LaunchSlot] = Val(1)]
  BY Zenon
<1>6. PICK z : z = [y EXCEPT !.work = w, !.guest = TRUE]
  BY Zenon
<1>7. z = [SetLaunched(LoadGuest(x), 1) EXCEPT !.guest = TRUE]
  BY <1>3, <1>5, <1>6, Zenon DEF SetLaunched
<1>8. z.start = y.start
  BY <1>4, <1>6 DEF Names
<1>9. d = z
  BY <1>7, Zenon DEF VmEntry
<1> QED
  BY <1>4, <1>8, <1>9

\* An event of an entry is taken up at z, or ends what the entry began.
LEMMA FootEnters ==
  ASSUME NEW z, IsCpu(z), z.guest = TRUE, z.idt = Vectors, z.pend = None, ~z.halt, z.start = z.rip, Mapped(z),
         Loose(z.rip, z.stack["guest"]), NEW v \in Raisable \cup {"irq"}, NEW f, f.vector = v,
         NEW bad \in 0..2, NEW d, d = DispatchRaw(z, f, bad)
  PROVE  IsCpu(d) /\ (Upright(z, d) \/ Thrown(z, d))
<1>1. Who(z) = "guest"
  BY DEF Who
<1>2. PICK st : st = z.stack[Who(z)] /\ Loose(z.rip, st) /\ Loose(z.start, st)
  BY <1>1
<1>3. Handed(z, v, d) \/ (v = "pf" /\ Doubled(z, d))
  BY RawShape
<1>4. IsCpu(d)
  <2>1. Delivery(z, d)
    BY RawDelivery
  <2> QED
    BY <2>1, ApartCpu DEF Delivery, Left, Agree
<1>5. Agree(d, d, {"start", "halt"})
  BY <1>4 DEF Agree
<1>6. CASE Handed(z, v, d)
  <2>1. PICK u : /\ IsCpu(u) /\ Agree(z, u, {"rip"}) /\ u.rip = (IF v \in Traps THEN z.rip ELSE z.start)
                 /\ Gates(u, d, v, TRUE) \/ (v # "pf" /\ Halved(u, d, v))
    BY <1>6 DEF Handed
  <2>2. Loose(u.rip, st) /\ Agree(z, u, {"rip", "irq"})
    BY <1>2, <2>1 DEF Agree
  <2>3. d.halt = u.halt /\ d.start = u.start
    BY <2>1 DEF Gates, Halved, Agree, Names
  <2>4. u.halt = z.halt /\ u.start = z.start
    BY <2>1 DEF Agree, Names
  <2>5. ~d.halt /\ Sited(d.start) /\ d.start.code \notin Firm
    BY <1>2, <2>3, <2>4 DEF Loose
  <2>6. Upright(z, d)
    BY <1>2, <1>5, <2>1, <2>2, <2>5, FootHands
  <2> QED
    BY <1>4, <2>6
<1>7. CASE Doubled(z, d)
  <2>1. Upright(z, d) \/ Thrown(z, d)
    BY <1>2, <1>5, <1>7, FootDoubles
  <2> QED
    BY <1>4, <2>1
<1> QED
  BY <1>3, <1>6, <1>7

\* The hypervisor resumes its guest.
LEMMA FootResumes ==
  ASSUME IsCpu(c), IsHist(hist), Hosting(c), Foot(c, hist, subject, phase), subject \in Hosted, c.guest = FALSE, Resumes
  PROVE  Foot(c', hist', subject, phase')
<1>1. /\ c.pend = None /\ c.start = Place("host", 1) /\ hist.owes \in {"none", "entry"} /\ phase' = "event" /\ c.idt = Vectors
  <2>1. c.rip.code = "host" /\ hist.owes \in {"none", "entry"} /\ phase = "exec" /\ phase' = "event"
    BY DEF Resumes, Working, AtHost, Done
  <2>2. AtWork(c) /\ c.idt = Vectors /\ c.start = c.rip
    BY <2>1 DEF Hosting, Kept, Foot
  <2>3. Bare(c)
    BY <2>1, <2>2 DEF AtWork, InHandler, Place
  <2> QED
    BY <2>1, <2>2, <2>3 DEF AtWork, Bare
<1>2. PICK op, y, bad, d, i, g :
        /\ bad \in 0..2 /\ y = Decoded /\ op = (IF Launched(c) THEN "vmresume" ELSE "vmlaunch")
        /\ i = F(c, EntryIntrInfo) /\ d = ExecuteVmx(y, Instr(op, 0, 0), bad)
        /\ g = (IF i = None THEN Resumed(d) ELSE Torn(Resumed(d), i.vector, d)) /\ c' = d /\ hist' = Exited(g, d)
  <2>1. PICK bad, d, i, op, g :
           /\ bad \in 0..2 /\ op = (IF Launched(c) THEN "vmresume" ELSE "vmlaunch") /\ i = F(c, EntryIntrInfo)
           /\ d = ExecuteVmx(Decoded, Instr(op, 0, 0), bad)
           /\ g = (IF i = None THEN Resumed(d) ELSE Torn(Resumed(d), i.vector, d))
           /\ Done(ExecuteVmx(Decoded, Instr(op, 0, 0), bad), g) /\ c' = d /\ hist' = Exited(g, d)
    BY ResumesShape
  <2> QED
    BY <2>1, Zenon
<1>3. d = VmEntry(y, bad)
  BY <1>2, HostEnters
<1>4. hist' = g
  BY <1>2 DEF Exited
<1>5. IsCpu(y) /\ Agree(c, y, {"rip"}) /\ y.start = c.start /\ \A e : F(y, e) = F(c, e)
  <2>1. PICK to : to = Next1(c)
    BY Zenon
  <2>2. y = [c EXCEPT !.rip = to]
    BY <1>2, <2>1, Zenon DEF Decoded
  <2>3. IsCpu(y) /\ Agree(c, y, {"rip"}) /\ y.work = c.work /\ y.start = c.start
    BY <2>2 DEF Agree, IsCpu, Names
  <2> QED
    BY <2>3, SameWork
<1>6. PICK r, st : r = F(c, GuestRip) /\ st = c.stack["guest"]
  BY Zenon
<1>7. Bound(c, hist) /\ Loose(r, st)
  BY <1>1, <1>6 DEF Foot, Away
<1>8. g.owes = (IF d.guest THEN "none" ELSE Owes(d))
  <2>1. PICK h : h = Resumed(d)
    BY Zenon
  <2>2. Same(hist, h, {"owes", "due"}) /\ h.owes = (IF d.guest THEN "none" ELSE Owes(d))
    BY <2>1, ResumedHist
  <2>3. IsHist(h)
    BY <2>2 DEF Same
  <2>4. CASE i = None
    BY <1>2, <2>1, <2>2, <2>4
  <2>5. CASE i # None
    <3>1. PICK v : v = i.vector /\ g = Torn(h, v, d)
      BY <1>2, <2>1, <2>5
    <3>2. Same(h, g, {"torn"})
      BY <2>3, <3>1, TornHist
    <3>3. g.owes = h.owes
      BY <3>2 DEF Same, HistNames
    <3> QED
      BY <2>2, <3>3
  <2> QED
    BY <2>4, <2>5
<1>9. CASE i = None /\ Quiet(y, d)
  <2>1. \A e \in Field : F(d, e) = F(c, e)
    BY <1>5, <1>9 DEF Quiet
  <2>2. Entered1(c, d)
    <3>1. Begun(y, d) /\ \A e \in Field \ {EntryIntrInfo} : F(d, e) = F(y, e)
      BY <1>9 DEF Quiet
    <3> QED
      BY <1>1, <1>5, <3>1, BegunEnters
  <2>3. d.guest = TRUE /\ d.stack = c.stack /\ d.pend = None /\ d.rip = r
    BY <1>5, <1>6, <1>9, <2>2 DEF Quiet, Entered1
  <2>4. F(d, EntryIntrInfo) = None
    BY <1>2, <1>9, <2>1, LifeFields
  <2>5. d.start = Place("host", 1)
    <3>1. F(y, EntryIntrInfo) = None
      BY <1>2, <1>5, <1>9
    <3> QED
      BY <1>1, <1>3, <1>5, <3>1, EntryStarts
  <2>6. Sited(d.start) /\ d.start.code \notin Firm
    BY <2>5 DEF Sited, Place, Firm
  <2>7. Footing(d, d.stack["guest"])
    BY <1>6, <1>7, <2>3, <2>6 DEF Footing, Loose
  <2>8. Bound(d, g)
    BY <1>8, <2>3, <2>4 DEF Bound
  <2>9. World(subject) = "guest" /\ subject # "native"
    BY DEF World, Hosted
  <2>10. Foot(d, g, subject, "event")
    BY <2>3, <2>7, <2>8, <2>9 DEF Foot
  <2> QED
    BY <1>1, <1>2, <1>4, <2>10
<1>10. CASE i # None /\ \E z, f : Injected(y, z) /\ IsCpu(z) /\ d = DispatchRaw(z, f, bad) /\ f = Fault(i.vector, {})
  <2>1. PICK z, f : Injected(y, z) /\ IsCpu(z) /\ d = DispatchRaw(z, f, bad) /\ f = Fault(i.vector, {})
    BY <1>10
  <2>2. PICK v : v = i.vector /\ v \in Raisable \cup {"irq"} /\ f.vector = v
    <3>1. i.vector \in Raisable \cup {"irq"}
      BY <1>2, <1>7, <1>10 DEF Bound
    <3> QED
      BY <2>1, <3>1 DEF Fault
  <2>3. Entered1(c, z)
    <3>1. Begun(y, z) /\ \A e \in Field \ {EntryIntrInfo} : F(z, e) = F(y, e)
      BY <2>1 DEF Injected
    <3> QED
      BY <1>1, <1>5, <3>1, BegunEnters
  <2>4. z.guest = TRUE /\ z.idt = Vectors /\ z.pend = None /\ z.stack["guest"] = st
    BY <1>1, <1>6, <2>3 DEF Entered1
  <2>5. ~z.halt /\ z.start = z.rip /\ F(z, EntryIntrInfo) = None /\ z.rip = Target(y)
    BY <2>1 DEF Injected
  <2>6. Loose(z.rip, st)
    <3>1. PICK soft, n, to : soft = i.soft /\ n = r.at + F(c, EntryInstrLen) /\ to = (IF soft THEN [r EXCEPT !.at = n] ELSE r)
      BY Zenon
    <3>2. z.rip = to
      <4>1. Target(y) = (IF i.soft THEN [r EXCEPT !.at = @ + F(c, EntryInstrLen)] ELSE r)
        BY <1>2, <1>5, <1>6, Zenon DEF Target
      <4>2. [r EXCEPT !.at = @ + F(c, EntryInstrLen)] = [r EXCEPT !.at = n]
        BY <3>1
      <4> QED
        BY <2>5, <3>1, <4>1, <4>2
    <3>3. PICK a, b : r = [code |-> a, at |-> b] /\ r.code = a
      BY <1>7 DEF Loose, Sited
    <3>4. to = [code |-> a, at |-> n] \/ to = r
      BY <3>1, <3>3
    <3>5. Sited(to) /\ to.code = r.code
      BY <1>7, <3>3, <3>4 DEF Sited, Loose
    <3> QED
      BY <1>7, <3>2, <3>5 DEF Loose
  <2>7. Mapped(z)
    BY <2>5 DEF Mapped
  <2>8. IsCpu(d) /\ (Upright(z, d) \/ Thrown(z, d))
    BY <1>2, <2>1, <2>2, <2>4, <2>5, <2>6, <2>7, FootEnters
  <2>9. d.guest = TRUE => Bound(z, g)
    BY <1>8, <2>5 DEF Bound
  <2>10. d.guest = FALSE => g.owes = Owes(d)
    BY <1>8
  <2>11. subject \in Hosted \cup {"native"} /\ subject # "native" /\ "event" # "exec"
    BY DEF Hosted
  <2>12. Foot(d, g, subject, "event")
    BY <2>4, <2>7, <2>8, <2>9, <2>10, <2>11, FootSettles
  <2> QED
    BY <1>1, <1>2, <1>4, <2>12
<1> QED
  BY <1>2, <1>3, <1>5, <1>9, <1>10, EntryLoads

LEMMA FootHost ==
  ASSUME IsCpu(c), IsHist(hist), Hosting(c), Foot(c, hist, subject, phase), subject \in Hosted, c.guest = FALSE, Host
  PROVE  Foot(c', hist', subject, phase')
<1>1. subject # "regions"
  BY DEF Hosted
<1>2. Skips \/ Grants \/ GrantsOwn \/ Repairs \/ Hands \/ Injects \/ Asks \/ Opens \/ Resumes
  BY <1>1 DEF Host, RootTries, SetsFeature
<1> QED
  BY <1>2, FootOwns, FootResumes

\* Every step keeps the programs on their feet, until the CPU is reset ...
LEMMA FootNext ==
  ASSUME IsCpu(c), IsHist(hist), subject \in Hosted \cup {"native"}, subject \in Hosted => Hosting(c),
         subject = "native" => c.guest = FALSE, c.reset \/ Foot(c, hist, subject, phase), [Next]_vars
  PROVE  c'.reset \/ Foot(c', hist', subject', phase')
<1>1. subject' = subject
  BY SubjectStays
<1>2. subject = "native" => (c.reset => c'.reset) /\ ~Host
  BY NativeStays
<1>3. subject \in Hosted => c.reset = FALSE
  BY DEF Hosting, Kept
<1>4. CASE c.reset
  BY <1>2, <1>3, <1>4
<1>5. ASSUME ~c.reset
      PROVE  c'.reset \/ Foot(c', hist', subject, phase')
  <2>1. Foot(c, hist, subject, phase)
    BY <1>5
  <2>2. CASE RaiseLine
    <3>1. /\ c'.guest = c.guest /\ c'.work = c.work /\ c'.stack = c.stack /\ c'.rip = c.rip /\ c'.start = c.start
          /\ c'.halt = c.halt /\ c'.pend = c.pend /\ c'.ifl = c.ifl /\ phase' = phase
      BY <2>2 DEF RaiseLine, IsCpu, Names
    <3>2. hist'.owes = hist.owes
      BY <2>2 DEF RaiseLine, IsHist, HistNames
    <3>3. \A g : F(c', g) = F(c, g)
      BY <3>1, SameWork
    <3>4. Bound(c, hist) => Bound(c', hist')
      BY <3>2, <3>3 DEF Bound
    <3>5. Away(c, hist) => Away(c', hist')
      BY <3>1, <3>2, <3>3 DEF Away, Fatal
    <3>6. Active(c, subject) <=> Active(c', subject)
      BY <3>1 DEF Active
    <3>7. Footing(c, c.stack[World(subject)]) => Footing(c', c'.stack[World(subject)])
      BY <3>1 DEF Footing
    <3>8. Foot(c', hist', subject, phase')
      BY <2>1, <3>1, <3>4, <3>5, <3>6, <3>7 DEF Foot
    <3> QED
      BY <3>8
  <2>3. CASE UNCHANGED vars
    BY <2>1, <2>3 DEF vars
  <2>4. CASE Active(c, subject) /\ ~RaiseLine /\ ~(UNCHANGED vars)
    <3>1. Stands(c, hist, subject, phase)
      BY <2>1, <2>4 DEF Stands
    <3>2. Events => phase' = "exec"
      BY DEF Events
    <3>3. ~Host
      BY <1>2, <2>4 DEF Active, Host, RootTries, SetsFeature, Skips, Grants, GrantsOwn, Repairs, Hands, Injects, Asks, Opens,
         Resumes, Working, AtHost
    <3>4. Events \/ Park \/ Guest
      BY <2>4, <3>3 DEF Next
    <3> QED
      BY <3>1, <3>2, <3>4, FootEvents, FootPark, FootGuest
  <2>5. CASE ~Active(c, subject) /\ ~RaiseLine /\ ~(UNCHANGED vars)
    <3>1. subject \in Hosted /\ Hosting(c) /\ ~c.guest
      BY <2>5 DEF Active
    <3>2. c.guest = FALSE /\ AtWork(c)
      BY <3>1 DEF Hosting
    <3>3. ~Park
      BY <3>2 DEF Park, AtWork
    <3>4. Events \/ Guest \/ Host
      BY <2>5, <3>3 DEF Next
    <3> QED
      BY <2>1, <3>1, <3>2, <3>4, FootIdles, FootHost
  <2> QED
    BY <2>2, <2>3, <2>4, <2>5
<1> QED
  BY <1>1, <1>4, <1>5

\* ... from the start.
LEMMA InitFoot ==
  ASSUME Init, subject \in Hosted \cup {"native"}
  PROVE  Foot(c, hist, subject, phase)
<1>1. Begins(subject, c) /\ (subject \in Hosted => Prepared(c.work))
  BY InitBegins, InitHosting
<1>2. /\ c.guest = FALSE /\ c.pend = None /\ c.halt = FALSE /\ c.start = c.rip
      /\ c.stack["host"] = <<>> /\ c.stack["guest"] = <<>>
      /\ c.rip = (IF subject = "native" THEN Place("main", 0) ELSE Place("host", 1))
  BY <1>1 DEF Begins
<1>3. PICK sees : sees = Masked(c)
  BY Zenon
<1>4. hist = [due |-> 0, ifl |-> FALSE, env |-> "a", sees |-> sees, saw |-> {}, raised |-> 0, ended |-> 0,
              reported |-> 0, owes |-> "none", torn |-> FALSE, steps |-> 0] /\ phase = "event"
  BY <1>3, Zenon DEF Init
<1>5. hist.owes = "none"
  BY <1>4
<1>6. PICK r : r = Place("main", 0) /\ Sited(r) /\ r.code = "main" /\ r.code \notin Firm
  <2>1. PICK r : r = Place("main", 0)
    BY Zenon
  <2>2. r = [code |-> "main", at |-> 0]
    BY <2>1 DEF Place
  <2>3. Sited(r) /\ r.code = "main" /\ r.code \notin Firm
    BY <2>2 DEF Sited, Firm
  <2> QED
    BY <2>1, <2>3
<1>7. Loose(r, <<>>)
  <2>1. <<>> \in Seq({}) /\ Len(<<>>) = 0 /\ "main" \notin Vectors
    BY DEF Vectors
  <2>2. Linked(<<>>, r.code)
    BY <1>6, <2>1 DEF Linked
  <2> QED
    BY <1>6, <2>2 DEF Loose
<1>8. CASE subject \in Hosted
  <2>1. \A e \in Named : F(c, e) = At(c.work, e)
    BY <1>1, ReadsField, NamedFields DEF F, Begins
  <2>2. {EntryIntrInfo, GuestRip} \subseteq Named
    BY DEF Named
  <2>3. F(c, EntryIntrInfo) = None /\ F(c, GuestRip) = r
    BY <1>1, <1>6, <1>8, <2>1, <2>2, Zenon DEF Prepared
  <2>4. Bound(c, hist)
    BY <1>5, <2>3 DEF Bound
  <2>5. Away(c, hist)
    BY <1>2, <1>7, <2>3 DEF Away
  <2> QED
    BY <1>2, <1>4, <1>8, <2>4, <2>5, FootAway
<1>9. CASE subject = "native"
  <2>1. World(subject) = "host" /\ subject \notin Hosted /\ c.rip = r
    BY <1>2, <1>6, <1>9 DEF World, Hosted
  <2>2. Footing(c, c.stack["host"])
    BY <1>2, <1>6, <1>7, <2>1 DEF Footing, Loose
  <2> QED
    BY <1>2, <1>4, <2>1, <2>2 DEF Foot
<1> QED
  BY <1>8, <1>9

(* of every subject but the regions *)
Carries == /\ subject \in Subjects /\ (subject \in Hosted => Hosting(c))
           /\ subject # "regions" => Lives(c, hist, subject, phase)
LEMMA AlwaysCarries == Spec => []Carries
<1>1. Subjects = Hosted \cup {"native", "regions"}
  BY DEF Subjects, Hosted
<1>2. Init => Carries
  <2>1. ASSUME Init
        PROVE  Carries
    BY <1>1, <2>1, InitBegins, InitHosting, InitLives DEF Carries
  <2> QED
    BY <2>1
<1>3. Carries /\ Sound(c) /\ [Next]_vars => Carries'
  <2>1. ASSUME Carries, Sound(c), [Next]_vars
        PROVE  /\ subject' \in Subjects /\ (subject' \in Hosted => Hosting(c'))
               /\ subject' # "regions" => Lives(c', hist', subject', phase')
    <3>1. subject' = subject
      BY <2>1, SubjectStays
    <3>2. IsCpu(c)
      BY <2>1 DEF Sound
    <3>3. subject' \in Hosted => Hosting(c')
      BY <2>1, <3>2, NextHosting DEF Carries
    <3>4. subject' # "regions" => Lives(c', hist', subject', phase')
      BY <1>1, <2>1, <3>1, <3>2, NextLives DEF Carries
    <3> QED
      BY <2>1, <3>1, <3>3, <3>4 DEF Carries
  <2>2. Carries' <=> /\ subject' \in Subjects /\ (subject' \in Hosted => Hosting(c'))
                     /\ subject' # "regions" => Lives(c', hist', subject', phase')
    BY DEF Carries, Hosting, Kept, AtWork, Bare, InHandler, OneFrame, Lives, Life, IsHist, Owing, Fatal, Counted, Awaited,
           Stored, Active, Living, Program, Chain, Held, Pending, Resting, Doomed, Whole, Irqs, One, F, Read
  <2> QED
    BY <2>1, <2>2
<1> QED
  BY <1>2, <1>3, AlwaysSound, PTL DEF Spec

LEMMA CarriesOn ==
  ASSUME Carries, subject # "regions", ~c.reset, ~hist.torn
  PROVE  /\ Life(c, hist, subject, phase) /\ (Running <=> Active(c, subject))
         /\ ~Running => subject \in Hosted /\ Hosting(c) /\ Who(c) = "host"
         /\ Running => Who(c) = World(subject) /\ (c.rip.code # "df" => Living(c, hist, subject))
         /\ ~Running /\ ~Fatal(c) => Resting(c, hist)
<1>1. subject \in Hosted \cup {"native"} /\ Life(c, hist, subject, phase)
  BY DEF Carries, Lives, Subjects, Hosted
<1>2. Running <=> Active(c, subject)
  BY DEF Running, Active
<1>3. ~Running => subject \in Hosted /\ Hosting(c) /\ Who(c) = "host"
  BY <1>1 DEF Running, Who, Carries
<1>4. Running => Who(c) = World(subject)
  <2>1. subject = "native" => c.guest = FALSE
    BY DEF Carries, Lives
  <2> QED
    BY <1>1, <2>1 DEF Running, Who, World, Hosted
<1>5. ~Running /\ ~Fatal(c) => Resting(c, hist)
  BY <1>1, <1>2, <1>3 DEF Life, Owing
<1> QED
  BY <1>1, <1>2, <1>3, <1>4, <1>5 DEF Life

\* An interrupt is where it should be exactly once: on the line, in the entry's event, in a handler that has not
\* returned, or told to the hypervisor by an exit that acknowledged it (interrupt_exit, and the field that vm_entry
\* consumes); until a double or a triple fault ends the program or a page fault tears the delivery of another event.
THEOREM EventsAreKept == Spec => []EventsKept
<1>1. Carries => EventsKept
  <2>1. ASSUME Carries, subject # "regions", ~c.reset, ~Fatal(c), ~hist.torn
        PROVE  hist.raised = One(c.irq) + One(F(c, EntryIntrInfo) # None /\ F(c, EntryIntrInfo).vector = "irq")
                  + One(c.rip.code = "irq") + One(~Running /\ F(c, GuestRip).code = "irq")
                  + Cardinality(Frames("host")) + Cardinality(Frames("guest"))
                  + hist.ended + hist.reported
    <3>1. Life(c, hist, subject, phase) /\ (Running <=> Active(c, subject))
      BY <2>1, CarriesOn
    <3>2. Counted(c, hist, subject)
      <4>1. ~(subject \in Hosted /\ hist.owes = "burial")
        BY <2>1, <3>1 DEF Life, Owing
      <4> QED
        BY <3>1, <4>1 DEF Life
    <3>3. Cardinality(Frames("host")) = Irqs(c.stack["host"]) /\ Cardinality(Frames("guest")) = Irqs(c.stack["guest"])
      BY DEF Frames, Irqs
    <3>4. PICK n : n = One(~Running /\ F(c, GuestRip).code = "irq")
      OBVIOUS
    <3>5. One(Stored(c, subject)) = n
      BY <3>1, <3>4, OneType DEF Stored
    <3> QED
      BY <3>2, <3>3, <3>4, <3>5 DEF Counted, Awaited
  <2> QED
    BY <2>1 DEF EventsKept
<1> QED
  BY <1>1, AlwaysCarries, PTL

(* ... and, whatever has been torn, of its feet *)
Carried == Carries /\ (subject # "regions" => c.reset \/ Foot(c, hist, subject, phase))
LEMMA AlwaysCarried == Spec => []Carried
<1>1. Subjects = Hosted \cup {"native", "regions"}
  BY DEF Subjects, Hosted
<1>2. Init /\ Carries => Carried
  BY <1>1, InitFoot DEF Carries, Carried
<1>3. Carried /\ Carries' /\ Sound(c) /\ [Next]_vars => Carried'
  <2>1. ASSUME Carried, Sound(c), [Next]_vars
        PROVE  subject' # "regions" => c'.reset \/ Foot(c', hist', subject', phase')
    <3>1. subject' = subject
      BY <2>1, SubjectStays
    <3>2. IsCpu(c) /\ (subject \in Hosted => Hosting(c))
      BY <2>1 DEF Sound, Carried, Carries
    <3>3. CASE subject = "regions"
      BY <3>1, <3>3
    <3>4. CASE subject # "regions"
      <4>1. subject \in Hosted \cup {"native"} /\ Lives(c, hist, subject, phase) /\ (c.reset \/ Foot(c, hist, subject, phase))
        BY <1>1, <2>1, <3>4 DEF Carried, Carries
      <4>2. IsHist(hist) /\ (subject = "native" => c.guest = FALSE)
        BY <4>1 DEF Lives
      <4> QED
        BY <2>1, <3>2, <4>1, <4>2, FootNext
    <3> QED
      BY <3>3, <3>4
  <2>2. (subject # "regions" => c.reset \/ Foot(c, hist, subject, phase))'
        <=> (subject' # "regions" => c'.reset \/ Foot(c', hist', subject', phase'))
    BY DEF Foot, Bound, Away, Active, Footing, Loose, Linked, Sited, Whole, Fatal, F, Read
  <2> QED
    BY <2>1, <2>2 DEF Carried
<1> QED
  BY <1>2, <1>3, AlwaysSound, AlwaysCarries, PTL DEF Spec

\* The handler of a page fault or a double fault, running or put away, has the frame it will return by, whatever faults
\* have met the pushes of whatever deliveries; and every handler has, until the delivery of an event other than a page
\* fault has been torn by one (dispatch_exception_raw).
THEOREM HandlersHaveFrames == Spec => []HandlerHasFrame
<1>1. Carried /\ ~hist.torn => HandlerHasFrame
  <2> SUFFICES ASSUME Carries, ~hist.torn
               PROVE  HandlerHasFrame
    BY DEF Carried
  <2>1. ASSUME subject # "regions", ~c.reset, c.rip.code \in Vectors
        PROVE  Whole(c.stack[Who(c)])
    <3>1. CASE Running /\ c.rip.code = "df"
      <4>1. Doomed(c, subject) /\ Who(c) = World(subject)
        BY <2>1, <3>1, CarriesOn DEF Life
      <4> QED
        BY <4>1 DEF Doomed
    <3>2. CASE Running /\ c.rip.code # "df"
      <4>1. Living(c, hist, subject) /\ Who(c) = World(subject)
        BY <2>1, <3>2, CarriesOn
      <4>2. PICK r : r = (IF c.pend = None THEN c.rip ELSE c.start) /\ r.code = c.rip.code
        BY <4>1 DEF Living, Pending
      <4>3. Program(c.stack[World(subject)], r, c.ifl, hist) /\ r.code \in Handlers
        BY <2>1, <3>2, <4>1, <4>2 DEF Living, Handlers
      <4> QED
        BY <4>1, <4>3, ProgramMoves
    <3>3. CASE ~Running
      <4>1. Hosting(c) /\ Who(c) = "host" /\ ~c.guest
        BY <2>1, <3>3, CarriesOn DEF Running
      <4>2. InHandler(c)
        BY <2>1, <4>1 DEF Hosting, AtWork, Bare, Place, Vectors
      <4>3. PICK f, st : st = c.stack["host"] /\ st = <<f>> /\ f.whole
        BY <4>2 DEF InHandler, OneFrame
      <4>4. st # <<>> /\ st[Len(st)] = f
        BY <4>3
      <4> QED
        BY <4>1, <4>3, <4>4 DEF Whole
    <3> QED
      BY <3>1, <3>2, <3>3
  <2>2. ASSUME subject # "regions", ~c.reset, ~Running, ~Broken, F(c, GuestRip).code \in Vectors
        PROVE  Whole(c.stack["guest"])
    <3>1. ~Fatal(c) /\ F(c, GuestRip).code \in Handlers
      BY <2>2 DEF Broken, Handlers
    <3>2. Program(c.stack["guest"], F(c, GuestRip), F(c, GuestFlags), hist)
      BY <2>2, <3>1, CarriesOn DEF Resting
    <3> QED
      BY <3>1, <3>2, ProgramMoves
  <2>3. Framed = Vectors
    BY DEF Framed
  <2> QED
    BY <2>1, <2>2, <2>3 DEF HandlerHasFrame
<1>2. Carried /\ hist.torn => HandlerHasFrame
  <2> SUFFICES ASSUME Carried, hist.torn
               PROVE  HandlerHasFrame
    OBVIOUS
  <2>1. Framed = Firm
    BY DEF Framed, Firm
  <2>2. ASSUME subject # "regions", ~c.reset
        PROVE  /\ Foot(c, hist, subject, phase) /\ (Running <=> Active(c, subject))
               /\ ~Running => subject \in Hosted /\ Hosting(c)
               /\ Running => Who(c) = World(subject)
    <3>1. subject \in Hosted \cup {"native"} /\ Foot(c, hist, subject, phase) /\ (subject \in Hosted => Hosting(c))
      BY <2>2 DEF Carried, Carries, Subjects, Hosted
    <3>2. Running <=> Active(c, subject)
      BY DEF Running, Active
    <3>3. subject = "native" => c.guest = FALSE
      BY <3>1 DEF Foot
    <3>4. ~Running => subject \in Hosted
      BY <3>1 DEF Running
    <3>5. Running => Who(c) = World(subject)
      BY <3>1, <3>3 DEF Running, Who, World, Hosted
    <3> QED
      BY <3>1, <3>2, <3>4, <3>5
  <2>3. ASSUME subject # "regions", ~c.reset, c.rip.code \in Firm
        PROVE  Whole(c.stack[Who(c)])
    <3>1. CASE Running
      <4>1. Footing(c, c.stack[World(subject)]) /\ Who(c) = World(subject)
        BY <2>2, <2>3, <3>1 DEF Foot
      <4> QED
        BY <2>3, <4>1 DEF Footing
    <3>2. CASE ~Running
      <4>1. AtWork(c)
        BY <2>2, <2>3, <3>2 DEF Running, Hosting
      <4> QED
        BY <2>3, <4>1 DEF AtWork, Bare, InHandler, Place, Firm
    <3> QED
      BY <3>1, <3>2
  <2>4. ASSUME subject # "regions", ~c.reset, ~Running, ~Broken
        PROVE  F(c, GuestRip).code \notin Firm
    <3>1. Away(c, hist) /\ ~Fatal(c)
      BY <2>2, <2>4 DEF Foot, Running, Broken
    <3> QED
      BY <3>1 DEF Away, Loose
  <2> QED
    BY <2>1, <2>3, <2>4 DEF HandlerHasFrame
<1> QED
  BY <1>1, <1>2, AlwaysCarried, PTL

LEMMA HeldBelow ==
  ASSUME NEW st, NEW r, NEW fl, NEW h, Program(st, r, fl, h)
  PROVE  /\ st # <<>> => Head(st).rip = Place("main", h.due) /\ Head(st).ifl = h.ifl
         /\ st = <<>> => r = Place("main", h.due) /\ fl = h.ifl
<1>1. st \in Seq(FrameSet) /\ Held(st, r, fl, h)
  BY DEF Program
<1>2. Head(st) = st[1]
  BY <1>1
<1> QED
  BY <1>1, <1>2 DEF Held

\* A program under a hypervisor goes on where it was after any exits, injections and interrupts: no instruction is
\* skipped or done twice, and its flag and registers are those it set (save_guest_state, load_guest_state, and the
\* lengths that vm_exit reports), until a page fault tears the delivery of another event.
THEOREM GuestIsIntact == Spec => []GuestIntact
<1>1. Carries => GuestIntact
  <2>1. ASSUME Carries, subject # "regions", ~Broken, ~hist.torn
        PROVE  /\ Position = <<Place("main", hist.due), hist.ifl>>
               /\ hist.env = IF Running THEN c.env ELSE F(c, GuestEnv)
    <3>1. ~c.reset /\ ~Fatal(c) /\ c.rip.code # "df"
      BY <2>1 DEF Broken
    <3>2. PICK st, r, fl, at : /\ st = c.stack[Mine] /\ at = Place("main", hist.due)
                               /\ r = (IF Running THEN IF c.pend = None THEN c.rip ELSE c.start ELSE F(c, GuestRip))
                               /\ fl = (IF Running THEN c.ifl ELSE F(c, GuestFlags))
      BY Zenon
    <3>3. /\ Program(st, r, fl, hist)
          /\ hist.env = IF Running THEN c.env ELSE F(c, GuestEnv)
      <4>1. CASE Running
        <5>1. Living(c, hist, subject) /\ Mine = World(subject)
          BY <2>1, <3>1, <4>1, CarriesOn DEF Mine, World
        <5> QED
          BY <3>2, <4>1, <5>1 DEF Living
      <4>2. CASE ~Running
        <5>1. Resting(c, hist) /\ Mine = "guest"
          BY <2>1, <3>1, <4>2, CarriesOn DEF Mine, Running
        <5> QED
          BY <3>2, <4>2, <5>1 DEF Resting
      <4> QED
        BY <4>1, <4>2
    <3>4. CASE st # <<>>
      <4>1. Head(st).rip = at /\ Head(st).ifl = hist.ifl
        BY <3>2, <3>3, <3>4, HeldBelow
      <4>2. Position = <<Head(st).rip, Head(st).ifl>>
        BY <3>2, <3>4 DEF Position
      <4> QED
        BY <3>2, <3>3, <4>1, <4>2
    <3>5. CASE st = <<>>
      <4>1. r = at /\ fl = hist.ifl
        BY <3>2, <3>3, <3>5, HeldBelow
      <4>2. Position = <<r, fl>>
        BY <3>2, <3>5, Zenon DEF Position
      <4> QED
        BY <3>2, <3>3, <4>1, <4>2
    <3> QED
      BY <3>4, <3>5
  <2> QED
    BY <2>1 DEF GuestIntact
<1> QED
  BY <1>1, AlwaysCarries, PTL
=============================================================================
