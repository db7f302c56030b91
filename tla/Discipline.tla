----------------------------- MODULE Discipline -----------------------------
(***************************************************************************)
(* What a guest of the Machine owes for its interrupts to be served: that  *)
(* its controllers are set up before it sets IF, and that each handler      *)
(* serves its device, ends its service and returns.                         *)
(*                                                                         *)
(* It is said of the program's text, with an outline of it: what holds      *)
(* whenever the guest is at a location.  Any guest may be held to it; the    *)
(* theorems about the machine's interrupts (MachineProofs) hold for each     *)
(* that keeps it, whatever its instructions, its handlers and their faults.  *)
(***************************************************************************)
EXTENDS Machine

CONSTANTS
  Closed,     \* locations where IF is clear
  Serving,    \* locations of a handler that has not ended its service
  Drained,    \* locations of the keyboard's where it has read a byte
  Ready,      \* locations of the main program where the controllers are set up
  Bases,      \* the vector bases they are then set up with
  Awaits      \* at a location: what the controllers' bases and pending ICW2 may be

Hardwares == {TimerIrq, KbdIrq, DiskIrq}
Owned(o) == {l \in Location : OwnerOf[l] = o}
Handling == UNION {Owned(o) : o \in Hardwares}

ASSUME OutlineAssumption ==
  /\ Closed \subseteq Location /\ Serving \subseteq Handling
  /\ Drained \subseteq Serving \cap Owned(KbdIrq)
  /\ Ready \subseteq Owned(NoOwner)

\* Where the outline says what it must of a location, and of the program's entries.
Outlined ==
  /\ Handling \subseteq Closed \cup Serving
  /\ Owned(Fault) \subseteq Closed
  /\ Owned(NoOwner) \subseteq Closed \cup Ready
  /\ \A l \in Ready : Awaits[l] = {<<Bases, FALSE>>}
  /\ Start \in Owned(NoOwner) /\ <<P!New.base, FALSE>> \in Awaits[Start]
  /\ Entry[Fault] \in Owned(Fault)
  /\ \A irq \in Hardwares :
       Entry[Bases[P!ChipOf(irq)] + P!LineOf(irq)] \in (Serving \cap Owned(irq)) \ Drained

\* What a write to a data port of the controllers makes of their set-up.
Set(s, chip, byte) ==
  IF s[2] THEN <<[s[1] EXCEPT ![chip] = BaseOf[byte]], FALSE>> ELSE s

\* An instruction i from location l on to location n keeps the outline.
KeepsFlag(l, i, n) ==
  n \in Closed => i[1] = "cli" \/ (i[1] # "sti" /\ l \in Closed)

\* A service is ended once, on its own chip, and the keyboard's when it has read.
KeepsService(l, i, n) ==
  IF i[1] = "eoi"
  THEN /\ l \in Serving /\ n \notin Serving /\ i[2] = P!ChipOf(OwnerOf[l])
       /\ l \in Owned(KbdIrq) => l \in Drained
  ELSE /\ l \in Serving <=> n \in Serving
       /\ n \in Drained => l \in Drained \/ i[1] = "kbdRead"

\* Only the main program sets the controllers up, and before anything else.
KeepsSetup(l, i, n) ==
  /\ l \in Ready => n \in Ready
  /\ i[1] \in {"icw1", "picData"} => l \in Owned(NoOwner)
  /\ i[1] = "icw1" => l \notin Ready
  /\ i[1] = "kbdWrite" => l \in Ready \cup Handling
  /\ l \in Owned(NoOwner) =>
       \A s \in Awaits[l] :
         (CASE i[1] = "icw1"    -> <<s[1], TRUE>>
            [] i[1] = "picData" -> Set(s, i[2], i[3])
            [] OTHER            -> s) \in Awaits[n]

Keeps(l, i, n) ==
  IF i[1] = "iret" THEN l \in (Owned(Fault) \cup Handling) \ Serving
  ELSE /\ OwnerOf[n] = OwnerOf[l]
       /\ KeepsFlag(l, i, n) /\ KeepsService(l, i, n) /\ KeepsSetup(l, i, n)

Disciplined == Outlined /\ \A p \in Program : Keeps(p[1], p[2], p[3])
=============================================================================
