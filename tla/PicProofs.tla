----------------------------- MODULE PicProofs -----------------------------
(***************************************************************************)
(* Theorems about the interrupt controllers for every width, cascade line  *)
(* and wiring.                                                             *)
(***************************************************************************)
EXTENDS Pic, TLAPS

\* A request names a chip and a line of it, and is the only one that does.
LEMMA IrqPlace ==
  ASSUME NEW irq \in Irq
  PROVE  /\ ChipOf(irq) \in Chip
         /\ LineOf(irq) \in Line
         /\ irq = IF ChipOf(irq) = "master" THEN LineOf(irq) ELSE Width + LineOf(irq)
BY PicAssumption DEF Irq, ChipOf, LineOf, Chip, Line

\* What the walk returns are requests (never the cascade line).
LEMMA NextIrqType == \A p : NextIrq(p) \subseteq Irq \ {Cascade}
<1> SUFFICES ASSUME NEW p, NEW irq \in NextIrq(p)
             PROVE  irq \in Irq \ {Cascade}
  OBVIOUS
<1>1. CASE irq \in Line /\ irq # Cascade
  BY <1>1, PicAssumption DEF Irq, Line
<1>2. CASE \E j \in Line : irq = Width + j
  BY <1>2, PicAssumption DEF Irq, Line
<1> QED BY <1>1, <1>2 DEF NextIrq

\* The new pair is typed.
LEMMA InitType == Init => TypeOK
BY DEF Init, New, TypeOK, Pics, Chip

\* Latching a request keeps the registers typed (raise_irq).
LEMMA RaiseType ==
  ASSUME NEW p \in Pics, NEW irq \in Irq
  PROVE  RaiseIrq(p, irq) \in Pics
BY IrqPlace DEF RaiseIrq, Pics

\* So does serving one, on either chip (acknowledge).
LEMMA AcknowledgedType ==
  ASSUME NEW p \in Pics, NEW irq \in Irq
  PROVE  Acknowledged(p, irq) \in Pics
<1> DEFINE c == ChipOf(irq)
           gained(d) == (IF d = c THEN {LineOf(irq)} ELSE {})
                        \cup (IF c = "slave" /\ d = "master" THEN {Cascade} ELSE {})
<1>1. \A d \in Chip : p.isr[d] \cup gained(d) \in SUBSET Line
  BY IrqPlace, PicAssumption DEF Pics
<1>2. [d \in Chip |-> p.isr[d] \cup (IF d = c THEN {LineOf(irq)} ELSE {})
                        \cup (IF c = "slave" /\ d = "master" THEN {Cascade} ELSE {})]
        \in [Chip -> SUBSET Line]
  BY <1>1
<1> QED BY <1>2, IrqPlace DEF Acknowledged, Pics

\* So does ending any set of services (the OCW2 commands).
LEMMA Ocw2Type ==
  ASSUME NEW p \in Pics, NEW c \in Chip, NEW served
  PROVE  Ocw2(p, c, served) \in Pics
BY DEF Ocw2, Pics

\* So do the guest's other writes (ICW1, OCW3, ICW2 and OCW1).
LEMMA WriteType ==
  ASSUME NEW p \in Pics, NEW c \in Chip
  PROVE  /\ Icw1(p, c) \in Pics
         /\ \A i : SpecificEoi(p, c, i) \in Pics
         /\ Eoi(p, c) \in Pics /\ OtherOcw2(p, c) \in Pics
         /\ \A r \in BOOLEAN : Ocw3(p, c, r) \in Pics
         /\ \A b \in Bytes : DataWritten(p, c, b) \in Pics
<1>1. Icw1(p, c) \in Pics
  BY DEF Icw1, Pics
<1>2. /\ \A i : SpecificEoi(p, c, i) \in Pics
      /\ Eoi(p, c) \in Pics /\ OtherOcw2(p, c) \in Pics
  BY Ocw2Type DEF SpecificEoi, Eoi, OtherOcw2
<1>3. \A r \in BOOLEAN : Ocw3(p, c, r) \in Pics
  BY DEF Ocw3, Pics
<1>4. \A b \in Bytes : DataWritten(p, c, b) \in Pics
  BY PicAssumption DEF DataWritten, Pics
<1> QED BY <1>1, <1>2, <1>3, <1>4

\* So does every step.
LEMMA NextType == TypeOK /\ [Next]_pic => TypeOK'
<1> SUFFICES ASSUME TypeOK, [Next]_pic PROVE TypeOK'
  OBVIOUS
<1> USE DEF TypeOK
<1>1. ASSUME NEW irq \in Sources, Raise(irq) PROVE TypeOK'
  BY <1>1, RaiseType, PicAssumption DEF Raise
<1>2. CASE Acknowledge
  BY <1>2, AcknowledgedType, NextIrqType DEF Acknowledge
<1>3. ASSUME NEW c \in Chip,
             \/ WriteIcw1(c) \/ WriteEoi(c) \/ WriteOtherOcw2(c)
             \/ \E i \in Line : WriteSpecificEoi(c, i)
             \/ \E r \in BOOLEAN : WriteOcw3(c, r)
             \/ \E b \in Bytes : WriteData(c, b)
      PROVE  TypeOK'
  BY <1>3, WriteType
     DEF WriteIcw1, WriteEoi, WriteOtherOcw2, WriteSpecificEoi, WriteOcw3, WriteData
<1>4. CASE UNCHANGED pic
  BY <1>4
<1> QED BY <1>1, <1>2, <1>3, <1>4 DEF Next

\* Every register of both chips always holds lines of its chip, whatever the
\* guest writes and the devices raise.
THEOREM TypeCorrect == Spec => []TypeOK
BY InitType, NextType, PTL DEF Spec

----------------------------------------------------------------------------
(* The priority walk.                                                      *)

\* Lines of one chip are ranked in order, and the slave's lines lie between the
\* master's lines below the cascade input and the cascade line itself.
LEMMA RankOrder ==
  /\ \A i \in Line : i < Cascade => Rank(i) = i
  /\ \A i \in Line : i >= Cascade => Rank(i) = Width + i
  /\ \A j \in Line : Rank(Width + j) = Cascade + j
BY PicAssumption DEF Rank, Line

\* A request the walk returns outranks everything in service the walk can see.
LEMMA WalkOutranks ==
  ASSUME NEW p \in Pics, NEW irq \in NextIrq(p), NEW r \in ServiceRanks(p)
  PROVE  Rank(irq) < r
<1> USE PicAssumption, RankOrder DEF Line
<1>0. PICK m \in Line : \/ m \in p.isr["master"] /\ r = Rank(m)
                        \/ m \in p.isr["slave"] /\ SlaveVisible(p) /\ r = Rank(Width + m)
  BY DEF ServiceRanks, Pics, Chip
<1>1. ASSUME irq \in Line, irq # Cascade, irq \notin p.isr["master"], MasterReached(p, irq)
      PROVE  Rank(irq) < r
  <2>1. CASE m \in p.isr["master"] /\ r = Rank(m)
    BY <1>1, <2>1 DEF MasterReached, MasterStops
  <2>2. CASE m \in p.isr["slave"] /\ SlaveVisible(p) /\ r = Rank(Width + m)
    <3>1. MasterStops(p, Cascade)
      BY <2>2 DEF MasterStops, SlaveStops
    <3>2. irq < Cascade
      BY <1>1, <3>1 DEF MasterReached
    <3> QED BY <1>1, <2>2, <3>2
  <2> QED BY <1>0, <2>1, <2>2
<1>2. ASSUME NEW j \in Line, irq = Width + j, j \notin p.isr["slave"], SlaveReached(p, j)
      PROVE  Rank(irq) < r
  <2>1. CASE m \in p.isr["master"] /\ r = Rank(m)
    <3>1. m >= Cascade
      BY <1>2, <2>1 DEF SlaveReached, MasterReached, MasterStops
    <3> QED BY <1>2, <2>1, <3>1
  <2>2. CASE m \in p.isr["slave"] /\ r = Rank(Width + m)
    <3>1. j < m
      BY <1>2, <2>2 DEF SlaveReached, SlaveStops
    <3> QED BY <1>2, <2>2, <3>1
  <2> QED BY <1>0, <2>1, <2>2
<1> QED BY <1>1, <1>2 DEF NextIrq

\* The request the walk returns is eligible, and no eligible request outranks
\* it: an eligible request before it would have stopped the walk.
LEMMA WalkBest ==
  ASSUME NEW p \in Pics, NEW irq \in NextIrq(p)
  PROVE  /\ irq \in Eligible(p)
         /\ \A other \in Eligible(p) : Rank(irq) <= Rank(other)
<1> USE PicAssumption, RankOrder DEF Line
<1>1. irq \in Eligible(p)
  <2>1. irq \in Irq \ {Cascade}
    BY NextIrqType
  <2>2. \A r \in ServiceRanks(p) : Rank(irq) < r
    BY WalkOutranks
  <2>3. /\ LineOf(irq) \in Pending(p, ChipOf(irq))
        /\ ChipOf(irq) = "slave" => SlaveVisible(p)
    BY DEF NextIrq, LineOf, ChipOf, SlaveReached
  <2> QED BY <2>1, <2>2, <2>3 DEF Eligible
<1>2. ASSUME NEW other \in Eligible(p), Rank(other) < Rank(irq)
      PROVE  FALSE
  <2> USE <1>2
  <2>0. /\ other \in Irq \ {Cascade}
        /\ LineOf(other) \in Pending(p, ChipOf(other))
        /\ ChipOf(other) = "slave" => SlaveVisible(p)
    BY DEF Eligible
  <2>1. CASE other < Width
    <3>1. other \in Line /\ other # Cascade /\ MasterStops(p, other)
      BY <2>0, <2>1 DEF Irq, LineOf, ChipOf, MasterStops
    <3>2. CASE irq \in Line /\ irq # Cascade /\ MasterReached(p, irq)
      BY <3>1, <3>2 DEF MasterReached
    <3>3. CASE \E j \in Line : irq = Width + j /\ MasterReached(p, Cascade)
      BY <3>1, <3>3 DEF MasterReached
    <3> QED BY <3>2, <3>3 DEF NextIrq, SlaveReached
  <2>2. CASE other >= Width
    <3>1. PICK k \in Line : other = Width + k /\ SlaveVisible(p) /\ SlaveStops(p, k)
      <4>1. other - Width \in Line
        BY <2>0, <2>2 DEF Irq
      <4> QED BY <2>0, <2>2, <4>1 DEF Irq, LineOf, ChipOf, SlaveStops
    <3>2. MasterStops(p, Cascade)
      BY <3>1 DEF MasterStops
    <3>3. CASE irq \in Line /\ irq # Cascade /\ MasterReached(p, irq)
      BY <3>1, <3>2, <3>3 DEF MasterReached
    <3>4. CASE \E j \in Line : irq = Width + j /\ SlaveReached(p, j)
      BY <3>1, <3>4 DEF SlaveReached
    <3> QED BY <3>3, <3>4 DEF NextIrq
  <2> QED BY <2>0, <2>1, <2>2 DEF Irq
<1>3. \A q \in Irq : Rank(q) \in Int
  BY DEF Rank, Irq
<1> QED BY <1>1, <1>2, <1>3 DEF Eligible

\* The best eligible request is reached: whatever stopped the walk before it
\* would be in service above it, or eligible and better.
LEMMA BestReached ==
  ASSUME NEW p \in Pics, NEW irq \in Eligible(p),
         \A other \in Eligible(p) : Rank(irq) <= Rank(other)
  PROVE  irq \in NextIrq(p)
<1> USE PicAssumption, RankOrder DEF Line
<1>0. /\ irq \in Irq \ {Cascade}
      /\ LineOf(irq) \in Pending(p, ChipOf(irq))
      /\ ChipOf(irq) = "slave" => SlaveVisible(p)
      /\ \A r \in ServiceRanks(p) : Rank(irq) < r
      /\ Rank(irq) \in Int
  BY DEF Eligible, Rank, Irq
<1>1. ASSUME NEW other \in Irq \ {Cascade}, Rank(other) < Rank(irq),
             LineOf(other) \in Pending(p, ChipOf(other)),
             ChipOf(other) = "slave" => SlaveVisible(p)
      PROVE  FALSE
  <2>1. ServiceRanks(p) \subseteq Int
    <3>1. /\ p.isr["master"] \subseteq Line
          /\ p.isr["slave"] \subseteq Line
      BY DEF Pics, Chip
    <3>2. ASSUME NEW i \in Line
          PROVE  Rank(i) \in Int /\ Rank(Width + i) \in Int
      <4>1. Rank(Width + i) \in Int
        OBVIOUS
      <4>2. Rank(i) \in Int
        <5>1. CASE i < Cascade
          BY <5>1
        <5>2. CASE i >= Cascade
          BY <5>2
        <5> QED BY <5>1, <5>2
      <4> QED BY <4>1, <4>2
    <3> QED BY <3>1, <3>2 DEF ServiceRanks
  <2>2. Rank(other) \in Int
    BY DEF Rank, Irq
  <2>3. other \in Eligible(p)
    BY <1>0, <1>1, <2>1, <2>2 DEF Eligible
  <2> QED BY <1>0, <1>1, <2>2, <2>3
<1>2. ASSUME NEW k \in Line, k # Cascade, Rank(k) < Rank(irq)
      PROVE  ~MasterStops(p, k)
  <2>1. k \notin p.isr["master"]
    BY <1>0, <1>2 DEF ServiceRanks
  <2>2. k \in Irq /\ ChipOf(k) = "master" /\ LineOf(k) = k
    BY DEF Irq, ChipOf, LineOf
  <2>3. k \notin Pending(p, "master")
    BY <1>1, <1>2, <2>2
  <2> QED BY <1>2, <2>1, <2>3 DEF MasterStops
<1>3. ASSUME NEW k \in Line, SlaveVisible(p), Rank(Width + k) < Rank(irq)
      PROVE  ~SlaveStops(p, k)
  <2>1. k \notin p.isr["slave"]
    BY <1>0, <1>3 DEF ServiceRanks
  <2>2. Width + k \in Irq \ {Cascade} /\ ChipOf(Width + k) = "slave" /\ LineOf(Width + k) = k
    BY DEF Irq, ChipOf, LineOf
  <2>3. k \notin Pending(p, "slave")
    BY <1>1, <1>3, <2>2
  <2> QED BY <2>1, <2>3 DEF SlaveStops
<1>4. CASE irq < Width
  <2>1. irq \in Line /\ irq \in Pending(p, "master")
    BY <1>0, <1>4 DEF Irq, ChipOf, LineOf
  <2>2. irq \notin p.isr["master"]
    <3>1. irq \in p.isr["master"] => Rank(irq) \in ServiceRanks(p)
      BY DEF ServiceRanks
    <3>2. ~(Rank(irq) < Rank(irq))
      BY <1>0
    <3> QED BY <1>0, <3>1, <3>2
  <2>3. ASSUME NEW k \in Line, k < irq PROVE ~MasterStops(p, k)
    <3>1. CASE k # Cascade
      BY <1>2, <2>1, <2>3, <3>1
    <3>2. CASE k = Cascade
      <4>1. Rank(irq) = Width + irq
        BY <2>1, <2>3, <3>2
      <4>2. Cascade \notin p.isr["master"]
        BY <1>0, <2>1, <2>3, <3>2, <4>1 DEF ServiceRanks
      <4>3. SlaveVisible(p) => \A j \in Line : ~SlaveStops(p, j)
        BY <1>3, <2>1, <2>3, <3>2, <4>1
      <4> QED BY <3>2, <4>2, <4>3 DEF MasterStops
    <3> QED BY <3>1, <3>2
  <2> QED BY <1>0, <2>1, <2>2, <2>3 DEF NextIrq, MasterReached
<1>5. CASE irq >= Width
  <2>1. PICK j \in Line : irq = Width + j /\ j \in Pending(p, "slave") /\ SlaveVisible(p)
    <3>1. irq - Width \in Line
      BY <1>0, <1>5 DEF Irq
    <3> QED BY <1>0, <1>5, <3>1 DEF Irq, ChipOf, LineOf
  <2>2. j \notin p.isr["slave"]
    BY <1>0, <2>1 DEF ServiceRanks
  <2>3. MasterReached(p, Cascade)
    BY <1>2, <2>1 DEF MasterReached
  <2>4. \A k \in Line : k < j => ~SlaveStops(p, k)
    BY <1>3, <2>1
  <2>5. SlaveReached(p, j)
    BY <2>1, <2>3, <2>4 DEF SlaveReached
  <2> QED BY <2>1, <2>2, <2>5 DEF NextIrq
<1> QED BY <1>0, <1>4, <1>5 DEF Irq

\* Whatever the registers hold, the walk of next_irq delivers the highest-priority
\* request that is pending, unmasked and unblocked, and only that one.
THEOREM WalkCorrect == Spec => []NextIrqIsBest
<1>1. TypeOK => NextIrqIsBest
  <2> SUFFICES ASSUME TypeOK PROVE NextIrqIsBest
    OBVIOUS
  <2>1. \A irq \in NextIrq(pic) : /\ irq \in Eligible(pic)
                                  /\ \A other \in Eligible(pic) : Rank(irq) <= Rank(other)
    BY WalkBest DEF TypeOK
  <2>2. \A irq \in Eligible(pic) :
          (\A other \in Eligible(pic) : Rank(irq) <= Rank(other)) => irq \in NextIrq(pic)
    BY BestReached DEF TypeOK
  <2> QED BY <2>1, <2>2 DEF NextIrqIsBest
<1> QED BY <1>1, TypeCorrect, PTL

----------------------------------------------------------------------------
(* What a step may never do.                                               *)

\* Of the methods, only acknowledge puts a line other than the cascade line in
\* service.
LEMMA NoNewService ==
  ASSUME NEW p \in Pics, NEW c \in Chip, NEW d \in Chip
  PROVE  /\ Icw1(p, c).isr[d] \subseteq p.isr[d]
         /\ \A served : Ocw2(p, c, served).isr[d] \subseteq p.isr[d]
         /\ \A r : Ocw3(p, c, r).isr = p.isr
         /\ \A b : DataWritten(p, c, b).isr = p.isr
         /\ \A irq : RaiseIrq(p, irq).isr = p.isr
<1>1. Icw1(p, c).isr[d] \subseteq p.isr[d]
  BY DEF Icw1, Pics
<1>2. \A served : Ocw2(p, c, served).isr[d] \subseteq p.isr[d]
  BY DEF Ocw2, Pics
<1>3. /\ \A r : Ocw3(p, c, r).isr = p.isr
      /\ \A b : DataWritten(p, c, b).isr = p.isr
      /\ \A irq : RaiseIrq(p, irq).isr = p.isr
  BY DEF Ocw3, DataWritten, RaiseIrq, Pics
<1> QED BY <1>1, <1>2, <1>3

\* A step of the guest or of a device other than an acknowledge adds no service.
LEMMA ServiceGrows ==
  ASSUME TypeOK, [Next]_pic, NEW d \in Chip, ~(pic'.isr[d] \subseteq pic.isr[d])
  PROVE  Acknowledge
<1> USE DEF TypeOK
<1>0. pic' # pic
  OBVIOUS
<1>1. ASSUME NEW irq \in Sources, Raise(irq) PROVE FALSE
  <2>1. pic'.isr = pic.isr
    BY <1>1, NoNewService DEF Raise
  <2> QED BY <2>1
<1>2. ASSUME NEW c \in Chip,
             \/ WriteIcw1(c) \/ WriteEoi(c) \/ WriteOtherOcw2(c)
             \/ \E i \in Line : WriteSpecificEoi(c, i)
             \/ \E r \in BOOLEAN : WriteOcw3(c, r)
             \/ \E b \in Bytes : WriteData(c, b)
      PROVE  FALSE
  <2>1. CASE WriteIcw1(c)
    BY <2>1, NoNewService DEF WriteIcw1
  <2>2. CASE WriteEoi(c) \/ WriteOtherOcw2(c) \/ \E i \in Line : WriteSpecificEoi(c, i)
    <3>1. PICK served : pic' = Ocw2(pic, c, served)
      BY <2>2 DEF WriteEoi, WriteOtherOcw2, WriteSpecificEoi, Eoi, SpecificEoi, OtherOcw2
    <3> QED BY <3>1, NoNewService
  <2>3. CASE \E r \in BOOLEAN : WriteOcw3(c, r)
    <3>1. pic'.isr = pic.isr
      BY <2>3, NoNewService DEF WriteOcw3
    <3> QED BY <3>1
  <2>4. CASE \E b \in Bytes : WriteData(c, b)
    <3>1. pic'.isr = pic.isr
      BY <2>4, NoNewService DEF WriteData
    <3> QED BY <3>1
  <2> QED BY <1>2, <2>1, <2>2, <2>3, <2>4
<1> QED BY <1>0, <1>1, <1>2 DEF Next

\* Nothing enters service beneath a service the walk can see: a handler is never
\* interrupted by its own or a lower-priority request before its EOI.
THEOREM AckSafe == Spec => AckOutranks
<1> DEFINE Step == \A irq \in Irq \ {Cascade} :
                     /\ LineOf(irq) \in pic'.isr[ChipOf(irq)]
                     /\ LineOf(irq) \notin pic.isr[ChipOf(irq)]
                     => \A r \in ServiceRanks(pic) : Rank(irq) < r
<1>1. ASSUME TypeOK, [Next]_pic PROVE Step
  <2> SUFFICES ASSUME NEW irq \in Irq \ {Cascade},
                      LineOf(irq) \in pic'.isr[ChipOf(irq)],
                      LineOf(irq) \notin pic.isr[ChipOf(irq)],
                      NEW r \in ServiceRanks(pic)
               PROVE  Rank(irq) < r
    OBVIOUS
  <2>1. ChipOf(irq) \in Chip /\ LineOf(irq) \in Line
    BY IrqPlace
  <2>2. Acknowledge
    BY <1>1, <2>1, ServiceGrows
  <2>3. PICK acked \in NextIrq(pic) : pic' = Acknowledged(pic, acked)
    BY <2>2 DEF Acknowledge
  <2>4. acked \in Irq \ {Cascade}
    BY NextIrqType, <2>3
  <2>5. irq = acked
    <3>1. LineOf(irq) = LineOf(acked) /\ ChipOf(irq) = ChipOf(acked)
      <4>1. pic'.isr[ChipOf(irq)] \subseteq
              pic.isr[ChipOf(irq)]
              \cup (IF ChipOf(irq) = ChipOf(acked) THEN {LineOf(acked)} ELSE {})
              \cup (IF ChipOf(irq) = "master" THEN {Cascade} ELSE {})
        BY <1>1, <2>1, <2>3 DEF Acknowledged, TypeOK, Pics
      <4>2. ChipOf(irq) = "master" => LineOf(irq) # Cascade
        BY DEF ChipOf, LineOf
      <4> QED BY <4>1, <4>2
    <3> QED BY <3>1, <2>4, IrqPlace
  <2> QED BY <1>1, <2>3, <2>5, WalkOutranks DEF TypeOK
<1> QED BY <1>1, TypeCorrect, PTL DEF Spec, AckOutranks

\* A latched request is never dropped by another chip's command, by a mask, by an
\* EOI or by another request's acknowledge.
THEOREM RequestsSurvive == Spec => RequestsKept
<1> DEFINE Step == \A c \in Chip : \A i \in pic.irr[c] \ pic'.irr[c] :
                     \/ i \in pic'.isr[c] \ pic.isr[c]
                     \/ pic'.icw2Pending /\ pic'.irr[c] = {} /\ pic'.isr[c] = {}
<1>1. ASSUME TypeOK, [Next]_pic PROVE Step
  <2> SUFFICES ASSUME NEW c \in Chip, NEW i \in pic.irr[c], i \notin pic'.irr[c]
               PROVE  \/ i \in pic'.isr[c] \ pic.isr[c]
                      \/ pic'.icw2Pending /\ pic'.irr[c] = {} /\ pic'.isr[c] = {}
    OBVIOUS
  <2> USE <1>1 DEF TypeOK
  <2>0. pic' # pic
    OBVIOUS
  <2>1. ASSUME NEW irq \in Sources, Raise(irq) PROVE FALSE
    BY <2>1, PicAssumption, IrqPlace DEF Raise, RaiseIrq, Pics
  <2>2. CASE Acknowledge
    <3>1. PICK irq \in NextIrq(pic) : pic' = Acknowledged(pic, irq)
      BY <2>2 DEF Acknowledge
    <3>2. irq \in Irq /\ ChipOf(irq) \in Chip /\ LineOf(irq) \in Line
      BY <3>1, NextIrqType, IrqPlace
    <3>3. c = ChipOf(irq) /\ i = LineOf(irq)
      BY <3>1, <3>2 DEF Acknowledged, Pics
    <3>4. i \in pic'.isr[c]
      BY <3>1, <3>2, <3>3 DEF Acknowledged, Pics
    <3>5. i \notin pic.isr[c]
      BY <3>1, <3>3, PicAssumption DEF NextIrq, ChipOf, LineOf, Line
    <3> QED BY <3>4, <3>5
  <2>3. ASSUME NEW d \in Chip, WriteIcw1(d)
        PROVE  pic'.icw2Pending /\ pic'.irr[c] = {} /\ pic'.isr[c] = {}
    BY <2>3 DEF WriteIcw1, Icw1, Pics
  <2>4. ASSUME NEW d \in Chip,
               \/ WriteEoi(d) \/ WriteOtherOcw2(d)
               \/ \E k \in Line : WriteSpecificEoi(d, k)
               \/ \E r \in BOOLEAN : WriteOcw3(d, r)
               \/ \E b \in Bytes : WriteData(d, b)
        PROVE  FALSE
    BY <2>4 DEF WriteEoi, WriteOtherOcw2, WriteSpecificEoi, WriteOcw3, WriteData,
                Eoi, SpecificEoi, OtherOcw2, Ocw2, Ocw3, DataWritten, Pics
  <2> QED BY <2>0, <2>1, <2>2, <2>3, <2>4 DEF Next
<1> QED BY <1>1, TypeCorrect, PTL DEF Spec, RequestsKept

----------------------------------------------------------------------------
(* The pair implements one controller with nested priorities.              *)

\* Reading a pair of registers as one set of requests loses nothing: a request
\* other than the cascade line is in it exactly when its bit is set.
LEMMA IrqsOfMember ==
  ASSUME NEW reg \in [Chip -> SUBSET Line], NEW irq \in Irq \ {Cascade}
  PROVE  irq \in IrqsOf(reg) <=> LineOf(irq) \in reg[ChipOf(irq)]
<1> USE PicAssumption DEF Line
<1>0. reg["master"] \subseteq Line /\ reg["slave"] \subseteq Line
  BY DEF Chip
<1>1. CASE irq < Width
  BY <1>0, <1>1 DEF IrqsOf, ChipOf, LineOf, Irq
<1>2. CASE irq >= Width
  <2>1. irq = Width + LineOf(irq) /\ ChipOf(irq) = "slave"
    BY <1>2 DEF ChipOf, LineOf, Irq
  <2>2. irq \notin reg["master"]
    BY <1>0, <1>2
  <2>3. \A j \in reg["slave"] : irq = Width + j => j = LineOf(irq)
    BY <1>0, <2>1 DEF LineOf, Irq
  <2> QED BY <2>1, <2>2, <2>3 DEF IrqsOf
<1> QED BY <1>1, <1>2 DEF Irq

\* The requests of a typed pair of registers are requests of the abstract controller.
LEMMA IrqsOfType ==
  ASSUME NEW reg \in [Chip -> SUBSET Line]
  PROVE  IrqsOf(reg) \subseteq Irq \ {Cascade}
<1>1. reg["master"] \subseteq Line /\ reg["slave"] \subseteq Line
  BY DEF Chip
<1> QED BY <1>1, PicAssumption DEF IrqsOf, Irq, Line

\* The cascade line stays unmasked if no byte the guest writes masks it.
VisibleInv == TypeOK /\ SlaveVisible(pic)

\* The cascade line starts unmasked.
LEMMA VisibleInit == Init => VisibleInv
BY InitType DEF Init, New, VisibleInv, SlaveVisible, Chip

\* It stays so under a guest whose bytes never mask it.
LEMMA VisibleNext ==
  ASSUME CascadeNeverMasked, VisibleInv, [Next]_pic
  PROVE  VisibleInv'
<1>1. TypeOK /\ TypeOK' /\ SlaveVisible(pic)
  BY NextType DEF VisibleInv
<1>2. SUFFICES SlaveVisible(pic)'
  BY <1>1 DEF VisibleInv
<1> USE DEF SlaveVisible
<1>3. ASSUME NEW irq \in Sources, Raise(irq) PROVE SlaveVisible(pic)'
  BY <1>1, <1>3 DEF Raise, RaiseIrq, TypeOK, Pics
<1>4. CASE Acknowledge
  <2>1. pic'.imr = pic.imr
    BY <1>1, <1>4 DEF Acknowledge, Acknowledged, TypeOK, Pics
  <2> QED BY <1>1, <2>1
<1>5. ASSUME NEW c \in Chip,
             \/ WriteIcw1(c) \/ WriteEoi(c) \/ WriteOtherOcw2(c)
             \/ \E i \in Line : WriteSpecificEoi(c, i)
             \/ \E r \in BOOLEAN : WriteOcw3(c, r)
      PROVE  SlaveVisible(pic)'
  <2>1. pic'.imr = pic.imr
    BY <1>1, <1>5 DEF WriteIcw1, WriteEoi, WriteOtherOcw2, WriteSpecificEoi, WriteOcw3,
                      Icw1, Eoi, SpecificEoi, OtherOcw2, Ocw2, Ocw3, TypeOK, Pics
  <2> QED BY <1>1, <2>1
<1>6. ASSUME NEW c \in Chip, NEW b \in Bytes, WriteData(c, b)
      PROVE  SlaveVisible(pic)'
  BY <1>1, <1>6, CascadeNeverMasked DEF CascadeNeverMasked, WriteData, DataWritten, TypeOK, Pics
<1>7. CASE UNCHANGED pic
  BY <1>1, <1>7
<1> QED BY <1>3, <1>4, <1>5, <1>6, <1>7 DEF Next

\* The new pair is the abstract controller's initial state.
LEMMA NestedInit == Init => Nested!Init
BY DEF Init, New, Nested!Init, IrqsOf, Chip

\* An acknowledge is the abstract controller's Serve of the same request.
LEMMA NestedAcknowledge ==
  ASSUME VisibleInv, Acknowledge
  PROVE  \E irq \in Irq \ {Cascade} : Nested!Serve(irq)
<1>1. PICK irq \in NextIrq(pic) : pic' = Acknowledged(pic, irq)
  BY DEF Acknowledge
<1>2. irq \in Irq \ {Cascade} /\ ChipOf(irq) \in Chip /\ LineOf(irq) \in Line
  BY NextIrqType, IrqPlace
<1>3. pic \in Pics /\ pic' \in Pics /\ SlaveVisible(pic)
  BY <1>1, <1>2, AcknowledgedType DEF VisibleInv, TypeOK
<1>4. /\ pic.irr \in [Chip -> SUBSET Line] /\ pic'.irr \in [Chip -> SUBSET Line]
      /\ pic.isr \in [Chip -> SUBSET Line] /\ pic'.isr \in [Chip -> SUBSET Line]
      /\ pic.imr \in [Chip -> SUBSET Line] /\ pic'.imr = pic.imr
  BY <1>1, <1>3 DEF Pics, Acknowledged
<1>5. \A q \in Irq \ {Cascade} :
        q \in IrqsOf(pic.irr) \ IrqsOf(pic.imr) => LineOf(q) \in Pending(pic, ChipOf(q))
  BY <1>4, IrqsOfMember DEF Pending
<1>6. \A s \in IrqsOf(pic.isr) : Rank(s) \in ServiceRanks(pic)
  <2> SUFFICES ASSUME NEW s \in IrqsOf(pic.isr) PROVE Rank(s) \in ServiceRanks(pic)
    OBVIOUS
  <2> QED BY <1>3 DEF IrqsOf, ServiceRanks
<1>7. irq \in Eligible(pic) /\ \A other \in Eligible(pic) : Rank(irq) <= Rank(other)
  BY <1>3, WalkBest
<1>8. \A r \in ServiceRanks(pic) : Rank(irq) < r
  BY <1>7 DEF Eligible
<1>9. \A q \in Irq : Rank(q) \in Int
  BY PicAssumption DEF Rank, Irq, Line
<1>10. irq \in IrqsOf(pic.irr) \ IrqsOf(pic.imr)
  <2>1. LineOf(irq) \in Pending(pic, ChipOf(irq))
    BY <1>7 DEF Eligible
  <2> QED BY <1>2, <1>4, <2>1, IrqsOfMember DEF Pending
<1>11. \A other \in IrqsOf(pic.irr) \ IrqsOf(pic.imr) : Rank(irq) <= Rank(other)
  <2> SUFFICES ASSUME NEW other \in IrqsOf(pic.irr) \ IrqsOf(pic.imr),
                      ~(Rank(irq) <= Rank(other))
               PROVE  FALSE
    OBVIOUS
  <2>1. other \in Irq \ {Cascade}
    BY <1>4, IrqsOfType
  <2>2. Rank(other) < Rank(irq)
    BY <1>2, <1>9, <2>1
  <2>3. \A r \in ServiceRanks(pic) : r \in Int
    BY <1>3, RankOrder, PicAssumption DEF ServiceRanks, Pics, Chip, Line
  <2>4. \A r \in ServiceRanks(pic) : Rank(other) < r
    BY <1>2, <1>8, <1>9, <2>1, <2>2, <2>3
  <2>5. other \in Eligible(pic)
    BY <1>3, <1>5, <2>1, <2>4 DEF Eligible
  <2> QED BY <1>7, <2>5
<1>12. IrqsOf(pic'.irr) = IrqsOf(pic.irr) \ {irq}
  <2>1. \A q \in Irq \ {Cascade} : q \in IrqsOf(pic'.irr) <=> q \in IrqsOf(pic.irr) \ {irq}
    <3> SUFFICES ASSUME NEW q \in Irq \ {Cascade}
                 PROVE  q \in IrqsOf(pic'.irr) <=> q \in IrqsOf(pic.irr) \ {irq}
      OBVIOUS
    <3>1. LineOf(q) \in pic'.irr[ChipOf(q)]
            <=> LineOf(q) \in pic.irr[ChipOf(q)] /\ ~(LineOf(q) = LineOf(irq) /\ ChipOf(q) = ChipOf(irq))
      BY <1>1, <1>2, <1>3, IrqPlace DEF Acknowledged, Pics
    <3>2. (LineOf(q) = LineOf(irq) /\ ChipOf(q) = ChipOf(irq)) <=> q = irq
      BY <1>2, IrqPlace
    <3> QED BY <1>4, <3>1, <3>2, IrqsOfMember
  <2> QED BY <1>4, <2>1, IrqsOfType
<1>13. IrqsOf(pic'.isr) = IrqsOf(pic.isr) \cup {irq}
  <2>1. \A q \in Irq \ {Cascade} : q \in IrqsOf(pic'.isr) <=> q \in IrqsOf(pic.isr) \cup {irq}
    <3> SUFFICES ASSUME NEW q \in Irq \ {Cascade}
                 PROVE  q \in IrqsOf(pic'.isr) <=> q \in IrqsOf(pic.isr) \cup {irq}
      OBVIOUS
    <3>0. ChipOf(q) = "master" => LineOf(q) # Cascade
      BY DEF ChipOf, LineOf
    <3>1. LineOf(q) \in pic'.isr[ChipOf(q)]
            <=> LineOf(q) \in pic.isr[ChipOf(q)] \/ (LineOf(q) = LineOf(irq) /\ ChipOf(q) = ChipOf(irq))
      BY <1>1, <1>2, <1>3, <3>0, IrqPlace DEF Acknowledged, Pics
    <3>2. (LineOf(q) = LineOf(irq) /\ ChipOf(q) = ChipOf(irq)) <=> q = irq
      BY <1>2, IrqPlace
    <3> QED BY <1>4, <3>1, <3>2, IrqsOfMember
  <2> QED BY <1>2, <1>4, <2>1, IrqsOfType
<1>14. \A s \in IrqsOf(pic.isr) : Rank(irq) < Rank(s)
  BY <1>6, <1>8
<1>15. IrqsOf(pic.isr) \subseteq Irq /\ IrqsOf(pic.irr) \subseteq Irq
  BY <1>4, IrqsOfType
<1>16. Nested!Serve(irq)
  BY <1>2, <1>4, <1>10, <1>11, <1>12, <1>13, <1>14, <1>15 DEF Nested!Serve
<1> QED BY <1>2, <1>16

\* Every step of the pair is a step of the abstract controller, or a stutter.
LEMMA NestedStep ==
  ASSUME CascadeNeverMasked, VisibleInv, [Next]_pic
  PROVE  [Nested!Next]_(Nested!vars)
<1> USE DEF VisibleInv, TypeOK
<1>0. /\ pic \in Pics /\ pic' \in Pics
      /\ pic.irr \in [Chip -> SUBSET Line] /\ pic'.irr \in [Chip -> SUBSET Line]
      /\ pic.isr \in [Chip -> SUBSET Line] /\ pic'.isr \in [Chip -> SUBSET Line]
      /\ pic.imr \in [Chip -> SUBSET Line] /\ pic'.imr \in [Chip -> SUBSET Line]
  BY NextType DEF Pics
<1>1. ASSUME NEW irq \in Sources, Raise(irq) PROVE Nested!Latch(irq)
  <2>1. irq \in Irq \ {Cascade} /\ ChipOf(irq) \in Chip /\ LineOf(irq) \in Line
    BY PicAssumption, IrqPlace
  <2>2. pic'.isr = pic.isr /\ pic'.imr = pic.imr
    BY <1>0, <1>1 DEF Raise, RaiseIrq, Pics
  <2>3. \A q \in Irq \ {Cascade} : q \in IrqsOf(pic'.irr) <=> q \in IrqsOf(pic.irr) \cup {irq}
    <3> SUFFICES ASSUME NEW q \in Irq \ {Cascade}
                 PROVE  q \in IrqsOf(pic'.irr) <=> q \in IrqsOf(pic.irr) \cup {irq}
      OBVIOUS
    <3>1. LineOf(q) \in pic'.irr[ChipOf(q)]
            <=> LineOf(q) \in pic.irr[ChipOf(q)] \/ (LineOf(q) = LineOf(irq) /\ ChipOf(q) = ChipOf(irq))
      BY <1>0, <1>1, <2>1, IrqPlace DEF Raise, RaiseIrq, Pics
    <3>2. (LineOf(q) = LineOf(irq) /\ ChipOf(q) = ChipOf(irq)) <=> q = irq
      BY <2>1, IrqPlace
    <3> QED BY <1>0, <3>1, <3>2, IrqsOfMember
  <2>4. IrqsOf(pic'.irr) = IrqsOf(pic.irr) \cup {irq}
    BY <1>0, <2>1, <2>3, IrqsOfType
  <2> QED BY <2>2, <2>4 DEF Nested!Latch
<1>2. ASSUME NEW c \in Chip, WriteIcw1(c) PROVE \E s \in SUBSET (Irq \ {Cascade}) : Nested!Reset(s)
  <2> DEFINE part == { q \in Irq \ {Cascade} : ChipOf(q) = c }
  <2>1. /\ pic'.imr = pic.imr
        /\ \A d \in Chip : pic'.irr[d] = (IF d = c THEN {} ELSE pic.irr[d])
        /\ \A d \in Chip : pic'.isr[d] = (IF d = c THEN {} ELSE pic.isr[d])
    BY <1>0, <1>2 DEF WriteIcw1, Icw1, Pics
  <2>2. \A q \in Irq \ {Cascade} : /\ q \in IrqsOf(pic'.irr) <=> q \in IrqsOf(pic.irr) \ part
                                   /\ q \in IrqsOf(pic'.isr) <=> q \in IrqsOf(pic.isr) \ part
    BY <1>0, <2>1, IrqsOfMember, IrqPlace
  <2>3. IrqsOf(pic'.irr) = IrqsOf(pic.irr) \ part /\ IrqsOf(pic'.isr) = IrqsOf(pic.isr) \ part
    BY <1>0, <2>2, IrqsOfType
  <2>4. Nested!Reset(part)
    BY <2>1, <2>3 DEF Nested!Reset
  <2> QED BY <2>4
<1>3. ASSUME NEW c \in Chip, NEW served, pic' = Ocw2(pic, c, served)
      PROVE  \E s \in SUBSET (Irq \ {Cascade}) : Nested!End(s)
  <2> DEFINE ended == IrqsOf(pic.isr) \ IrqsOf(pic'.isr)
  <2>1. pic'.irr = pic.irr /\ pic'.imr = pic.imr
    BY <1>0, <1>3 DEF Ocw2, Pics
  <2>2. \A d \in Chip : pic'.isr[d] \subseteq pic.isr[d]
    BY <1>3, NoNewService
  <2>3. IrqsOf(pic'.isr) \subseteq IrqsOf(pic.isr)
    BY <2>2 DEF IrqsOf, Chip
  <2>4. ended \in SUBSET (Irq \ {Cascade}) /\ IrqsOf(pic'.isr) = IrqsOf(pic.isr) \ ended
    BY <1>0, <2>3, IrqsOfType
  <2>5. Nested!End(ended)
    BY <2>1, <2>4 DEF Nested!End
  <2> QED BY <2>4, <2>5
<1>4. ASSUME NEW c \in Chip, NEW r \in BOOLEAN, WriteOcw3(c, r) PROVE UNCHANGED Nested!vars
  BY <1>0, <1>4 DEF WriteOcw3, Ocw3, Pics, Nested!vars
<1>5. ASSUME NEW c \in Chip, NEW b \in Bytes, WriteData(c, b)
      PROVE  \E s \in SUBSET (Irq \ {Cascade}) : Nested!SetMask(s)
  <2>1. pic'.irr = pic.irr /\ pic'.isr = pic.isr
    BY <1>0, <1>5 DEF WriteData, DataWritten, Pics
  <2>2. IrqsOf(pic'.imr) \in SUBSET (Irq \ {Cascade})
    BY <1>0, IrqsOfType
  <2> QED BY <2>1, <2>2 DEF Nested!SetMask
<1>6. CASE UNCHANGED pic
  BY <1>6 DEF Nested!vars
<1>7. ASSUME NEW c \in Chip,
             WriteEoi(c) \/ WriteOtherOcw2(c) \/ \E i \in Line : WriteSpecificEoi(c, i)
      PROVE  \E s \in SUBSET (Irq \ {Cascade}) : Nested!End(s)
  <2>1. PICK served : pic' = Ocw2(pic, c, served)
    BY <1>7 DEF WriteEoi, WriteOtherOcw2, WriteSpecificEoi, Eoi, SpecificEoi, OtherOcw2
  <2> QED BY <1>3, <2>1
<1>8. CASE Acknowledge
  BY <1>8, NestedAcknowledge DEF Nested!Next
<1>9. \A irq \in Sources : irq \in Irq \ {Cascade}
  BY PicAssumption
<1> QED BY <1>1, <1>2, <1>4, <1>5, <1>6, <1>7, <1>8, <1>9 DEF Next, Nested!Next

\* A guest that never masks the cascade line sees the two chips as a single
\* controller: latched requests, best first, services strictly nested.
THEOREM PairImplementsNested == CascadeNeverMasked /\ Spec => ImplementsNested
<1>1. ASSUME CascadeNeverMasked PROVE Spec => ImplementsNested
  <2>1. VisibleInv /\ [Next]_pic => VisibleInv'
    BY <1>1, VisibleNext
  <2>2. VisibleInv /\ [Next]_pic => [Nested!Next]_(Nested!vars)
    BY <1>1, NestedStep
  <2> QED BY <2>1, <2>2, VisibleInit, NestedInit, PTL
             DEF Spec, ImplementsNested, Nested!Spec
<1> QED BY <1>1
=============================================================================
