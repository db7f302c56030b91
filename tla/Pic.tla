-------------------------------- MODULE Pic --------------------------------
(***************************************************************************)
(* The pair of cascaded 8259 interrupt controllers (src/pic.rs).           *)
(*                                                                         *)
(* The registers of the two chips are one record of functions over the     *)
(* chip; a register is the set of the lines whose bit is set.  A byte the  *)
(* guest writes is an abstract value: what tells two bytes apart is the    *)
(* lines its bits select (OCW1) and the vector base its upper bits give    *)
(* (ICW2), the constants MaskOf and BaseOf.  The operators on the record   *)
(* are the methods of the Rust type; the Machine module calls them from    *)
(* the CPU loop, the actions below let an arbitrary guest call them.       *)
(***************************************************************************)
EXTENDS Integers

CONSTANTS
  Width,      \* lines of one chip (8 in the code)
  Cascade,    \* the master line the slave's output is wired to (2)
  Sources,    \* interrupt requests some device is wired to
  Bytes,      \* what the guest can write to a data port
  MaskOf,     \* the lines a byte's bits name, as OCW1 reads it
  BaseOf      \* the vector base in a byte, as ICW2 reads it (val & 0xF8)

Line == 0 .. Width - 1
Irq  == 0 .. 2 * Width - 1      \* the slave's lines are numbered from Width
Chip == {"master", "slave"}

ASSUME PicAssumption ==
  /\ Width \in Nat \ {0}
  /\ Cascade \in Line
  /\ Sources \subseteq Irq \ {Cascade}
  /\ MaskOf \in [Bytes -> SUBSET Line]
  /\ BaseOf \in [Bytes -> Nat]

VARIABLE pic

\* Slips a change to this code could make are kept as operators named Slip...,
\* each before the definition it gets wrong: the properties must notice them.

\* The chip an interrupt request belongs to, and its line there.
ChipOf(irq) == IF irq < Width THEN "master" ELSE "slave"
LineOf(irq) == IF irq < Width THEN irq ELSE irq - Width

Pics == [ base:        [Chip -> Nat],
          imr:         [Chip -> SUBSET Line],
          irr:         [Chip -> SUBSET Line],
          isr:         [Chip -> SUBSET Line],
          readIsr:     [Chip -> BOOLEAN],
          icw2Pending: BOOLEAN,
          initialized: BOOLEAN ]

\* Pic::new.  The auto-EOI flags and icw2_for_slave are never read.
New ==
  [ base        |-> [c \in Chip |-> IF c = "master" THEN 8 ELSE 112],   \* 0x08, 0x70
    imr         |-> [c \in Chip |-> {}],
    irr         |-> [c \in Chip |-> {}],
    isr         |-> [c \in Chip |-> {}],
    readIsr     |-> [c \in Chip |-> FALSE],
    icw2Pending |-> FALSE,
    initialized |-> FALSE ]

----------------------------------------------------------------------------
(* The priority walk of next_irq.                                          *)

Pending(p, c) == p.irr[c] \ p.imr[c]

\* The slave's requests are seen only through an unmasked cascade line.
SlaveVisible(p) == Cascade \notin p.imr["master"]

\* The slave's walk passes over its own services.
SlipSlaveStops(p, j) == j \in Pending(p, "slave")

\* A line at which the walk of its chip ends, with a request or without.
SlaveStops(p, j) == j \in p.isr["slave"] \cup Pending(p, "slave")

\* A service of the slave does not stop the master's walk: only its requests do.
SlipMasterStops(p, i) ==
  IF i = Cascade
  THEN \/ Cascade \in p.isr["master"]
       \/ SlaveVisible(p) /\ \E j \in Line : j \in Pending(p, "slave")
  ELSE i \in p.isr["master"] \cup Pending(p, "master")

MasterStops(p, i) ==
  IF i = Cascade
  THEN \/ Cascade \in p.isr["master"]
       \/ SlaveVisible(p) /\ \E j \in Line : SlaveStops(p, j)
  ELSE i \in p.isr["master"] \cup Pending(p, "master")

\* The walk gets as far as master line i, as far as slave line j.
MasterReached(p, i) == \A k \in Line : k < i => ~MasterStops(p, k)
SlaveReached(p, j)  == /\ MasterReached(p, Cascade)
                       /\ SlaveVisible(p)
                       /\ \A k \in Line : k < j => ~SlaveStops(p, k)

\* The request the pair would deliver now: a set of at most one element, empty
\* for the code's None.
NextIrq(p) ==
  { i \in Line : /\ i # Cascade
                 /\ i \in Pending(p, "master") \ p.isr["master"]
                 /\ MasterReached(p, i) }
  \cup
  { Width + j : j \in { k \in Line : /\ k \in Pending(p, "slave") \ p.isr["slave"]
                                     /\ SlaveReached(p, k) } }

HasPending(p) == NextIrq(p) # {}

----------------------------------------------------------------------------
(* The methods that change the registers.                                  *)

RaiseIrq(p, irq) == [p EXCEPT !.irr[ChipOf(irq)] = @ \cup {LineOf(irq)}]

\* The acknowledged chip's request register is cleared, not the one bit of it; the
\* request is left latched.
SlipClearsAll(p, irq) ==
  [p EXCEPT !.irr[ChipOf(irq)] = {}, !.isr[ChipOf(irq)] = @ \cup {LineOf(irq)}]
SlipKeepsLatched(p, irq) ==
  [p EXCEPT !.isr[ChipOf(irq)] = @ \cup {LineOf(irq)}]

\* acknowledge: the request moves to service; a slave request also puts the
\* master's cascade line in service.
Acknowledged(p, irq) ==
  LET c == ChipOf(irq)
  IN  [p EXCEPT !.irr[c] = @ \ {LineOf(irq)},
                !.isr = [d \in Chip |->
                           @[d] \cup (IF d = c THEN {LineOf(irq)} ELSE {})
                                \cup (IF c = "slave" /\ d = "master" THEN {Cascade} ELSE {})]]

Vector(p, irq) == p.base[ChipOf(irq)] + LineOf(irq)

\* ICW1 resets the requests and services of its own chip and makes the next
\* data write, to whichever chip, an ICW2.
Icw1(p, c) ==
  [p EXCEPT !.icw2Pending = TRUE, !.irr[c] = {}, !.isr[c] = {}]

\* OCW2: the lines `served` leave service, and a slave command that leaves
\* nothing in service on the slave also ends the master's cascade line.
Ocw2(p, c, served) ==
  LET left == p.isr[c] \ served
  IN  [p EXCEPT !.isr =
         [d \in Chip |-> (IF d = c THEN left ELSE @[d])
                         \ (IF c = "slave" /\ d = "master" /\ left = {}
                            THEN {Cascade} ELSE {})]]

\* What the three kinds of OCW2 command end: the lowest line in service, a
\* named line, nothing.
NonSpecific(p, c) == { i \in p.isr[c] : \A j \in p.isr[c] : i <= j }
Eoi(p, c)            == Ocw2(p, c, NonSpecific(p, c))
SpecificEoi(p, c, i) == Ocw2(p, c, {i})
OtherOcw2(p, c)      == Ocw2(p, c, {})

\* OCW3 chooses the register the next command-port reads return.
Ocw3(p, c, readIsr) == [p EXCEPT !.readIsr[c] = readIsr]

\* write_data: an awaited ICW2, or the mask (OCW1).
DataWritten(p, c, b) ==
  IF p.icw2Pending
  THEN [p EXCEPT !.base[c] = BaseOf[b], !.icw2Pending = FALSE, !.initialized = TRUE]
  ELSE [p EXCEPT !.imr[c] = MaskOf[b]]

ReadCommand(p, c) == IF p.readIsr[c] THEN p.isr[c] ELSE p.irr[c]

----------------------------------------------------------------------------
(* An arbitrary guest and arbitrary devices driving the pair.              *)

Init == pic = New

Raise(irq)     == pic' = RaiseIrq(pic, irq)
Acknowledge    == \E irq \in NextIrq(pic) : pic' = Acknowledged(pic, irq)
WriteIcw1(c)   == pic' = Icw1(pic, c)
WriteEoi(c)    == pic' = Eoi(pic, c)
WriteSpecificEoi(c, i) == pic' = SpecificEoi(pic, c, i)
WriteOtherOcw2(c)      == pic' = OtherOcw2(pic, c)
WriteOcw3(c, readIsr)  == pic' = Ocw3(pic, c, readIsr)
WriteData(c, b)        == pic' = DataWritten(pic, c, b)

Next ==
  \/ \E irq \in Sources : Raise(irq)
  \/ Acknowledge
  \/ \E c \in Chip :
       \/ WriteIcw1(c)
       \/ WriteEoi(c)
       \/ \E i \in Line : WriteSpecificEoi(c, i)
       \/ WriteOtherOcw2(c)
       \/ \E readIsr \in BOOLEAN : WriteOcw3(c, readIsr)
       \/ \E b \in Bytes : WriteData(c, b)

Spec == Init /\ [][Next]_pic

----------------------------------------------------------------------------
(* Properties.                                                             *)

\* Every register holds lines of its chip (the type of the record).
TypeOK == pic \in Pics

\* Fixed priority of a request: IRQ0 highest (smallest rank), the slave's
\* lines at the cascade input, the master's later lines after them.
Rank(irq) == IF irq < Cascade THEN irq
             ELSE IF irq >= Width THEN Cascade + (irq - Width)
             ELSE Width + irq

\* The ranks in service that the walk can see: the slave's only while the
\* cascade line is unmasked.
ServiceRanks(p) ==
  { Rank(i) : i \in p.isr["master"] }
  \cup (IF SlaveVisible(p) THEN { Rank(Width + j) : j \in p.isr["slave"] } ELSE {})

\* The declarative reading of next_irq's comment (pic.rs:175-182).
Eligible(p) ==
  { irq \in Irq \ {Cascade} :
      /\ LineOf(irq) \in Pending(p, ChipOf(irq))
      /\ ChipOf(irq) = "slave" => SlaveVisible(p)
      /\ \A r \in ServiceRanks(p) : Rank(irq) < r }

\* The priority walk delivers exactly the highest-priority pending unmasked
\* request that nothing of equal or higher priority in service blocks, and
\* delivers one whenever there is one (next_irq, pic.rs:183-212).
NextIrqIsBest ==
  NextIrq(pic) = { irq \in Eligible(pic) :
                     \A other \in Eligible(pic) : Rank(irq) <= Rank(other) }

\* A line enters service only if it outranks every service the walk can see, so
\* no handler is re-entered by its own or a lower request before its EOI.
AckOutranks ==
  [][ \A irq \in Irq \ {Cascade} :
        /\ LineOf(irq) \in pic'.isr[ChipOf(irq)]
        /\ LineOf(irq) \notin pic.isr[ChipOf(irq)]
        => \A r \in ServiceRanks(pic) : Rank(irq) < r ]_pic

\* A latched request is never lost: it leaves the request register only by
\* entering service on its own chip, or by the guest re-initialising that chip.
RequestsKept ==
  [][ \A c \in Chip : \A i \in pic.irr[c] \ pic'.irr[c] :
        \/ i \in pic'.isr[c] \ pic.isr[c]
        \/ pic'.icw2Pending /\ pic'.irr[c] = {} /\ pic'.isr[c] = {} ]_pic

----------------------------------------------------------------------------
(* The pair as one controller with fixed nested priorities.                *)

CascadeNeverMasked == \A b \in Bytes : Cascade \notin MaskOf[b]

IrqsOf(reg) == (reg["master"] \ {Cascade}) \cup { Width + j : j \in reg["slave"] }

Nested == INSTANCE NestedPriority WITH
            Request   <- Irq \ {Cascade},
            Priority  <- [irq \in Irq |-> Rank(irq)],
            requested <- IrqsOf(pic.irr),
            inService <- IrqsOf(pic.isr),
            masked    <- IrqsOf(pic.imr)

\* While the guest leaves the cascade line unmasked the pair behaves as a single
\* fixed-priority controller with nested services.
ImplementsNested == Nested!Spec
=============================================================================
