--------------------------- MODULE MachineProofs ---------------------------
(***************************************************************************)
(* Theorems about the CPU loop with its devices: for any guest, that a     *)
(* fault stays at the instruction that raised it; for every guest that     *)
(* keeps the discipline, that each service has its handler and each key    *)
(* is announced.                                                           *)
(***************************************************************************)
EXTENDS Discipline, FiniteSetTheorems, TLAPS

Latched(p, irq)   == P!LineOf(irq) \in p.irr[P!ChipOf(irq)]
Servicing(p, irq) == P!LineOf(irq) \in p.isr[P!ChipOf(irq)]

\* Only the lines the devices are wired to, and the cascade's, are ever in use.
Wired(p) ==
  /\ p \in P!Pics
  /\ p.isr["master"] \subseteq {TimerIrq, KbdIrq, Cascade}
  /\ p.irr["master"] \subseteq {TimerIrq, KbdIrq}
  /\ p.isr["slave"] \subseteq {DiskIrq - Width}
  /\ p.irr["slave"] \subseteq {DiskIrq - Width}

----------------------------------------------------------------------------
(* The interrupt controllers, as they are wired here.                      *)

\* The three lines, their chips and their priorities.
LEMMA Places ==
  /\ P!ChipOf(TimerIrq) = "master" /\ P!LineOf(TimerIrq) = TimerIrq
  /\ P!ChipOf(KbdIrq) = "master" /\ P!LineOf(KbdIrq) = KbdIrq
  /\ P!ChipOf(DiskIrq) = "slave" /\ P!LineOf(DiskIrq) = DiskIrq - Width
  /\ P!Rank(TimerIrq) = 0 /\ P!Rank(KbdIrq) = 1
  /\ P!Rank(DiskIrq) \in Nat /\ P!Rank(DiskIrq) >= Cascade
BY MachineAssumption DEF P!ChipOf, P!LineOf, P!Rank, TimerIrq, KbdIrq

\* They are three, and none of them is a fault or the cascade.
LEMMA Distinct ==
  /\ Cascade \in Int /\ Cascade > 1 /\ Cascade < Width /\ Width \in Nat
  /\ DiskIrq \in Int /\ DiskIrq >= Width /\ DiskIrq - Width < Width
  /\ TimerIrq = 0 /\ KbdIrq = 1 /\ DiskIrq # 0 /\ DiskIrq # 1
  /\ Fault \notin Hardwares /\ NoOwner \notin Hardwares /\ Fault # NoOwner
BY MachineAssumption DEF TimerIrq, KbdIrq, Fault, NoOwner, Hardwares

\* A line in service or latched, told by its request's number.
LEMMA Registers ==
  ASSUME NEW p
  PROVE  /\ Servicing(p, TimerIrq) <=> TimerIrq \in p.isr["master"]
         /\ Servicing(p, KbdIrq) <=> KbdIrq \in p.isr["master"]
         /\ Servicing(p, DiskIrq) <=> DiskIrq - Width \in p.isr["slave"]
         /\ Latched(p, TimerIrq) <=> TimerIrq \in p.irr["master"]
         /\ Latched(p, KbdIrq) <=> KbdIrq \in p.irr["master"]
         /\ Latched(p, DiskIrq) <=> DiskIrq - Width \in p.irr["slave"]
BY Places, Zenon DEF Servicing, Latched

\* The walk finds a request of a device that outranks every service (next_irq).
LEMMA NextOutranks ==
  ASSUME NEW p, Wired(p), NEW irq \in P!NextIrq(p)
  PROVE  /\ irq \in Hardwares
         /\ \A other \in Hardwares : Servicing(p, other) => P!Rank(irq) < P!Rank(other)
<1>1. CASE irq \in P!Line /\ irq \in p.irr["master"] \ p.isr["master"] /\ P!MasterReached(p, irq)
  <2>1. irq = TimerIrq \/ irq = KbdIrq
    BY <1>1 DEF Wired
  <2>2. irq = KbdIrq => TimerIrq \notin p.isr["master"]
    BY <1>1, Distinct, MachineAssumption DEF P!MasterReached, P!MasterStops, P!Line
  <2> QED BY <1>1, <2>1, <2>2, Places, Distinct, Registers DEF Hardwares
<1>2. CASE \E j \in P!Line : irq = Width + j /\ j \in p.irr["slave"] \ p.isr["slave"]
                             /\ P!MasterReached(p, Cascade)
  <2>1. irq = DiskIrq /\ DiskIrq - Width \notin p.isr["slave"]
    BY <1>2, Distinct DEF Wired, P!Line
  <2>2. TimerIrq \notin p.isr["master"] /\ KbdIrq \notin p.isr["master"]
    BY <1>2, Distinct, MachineAssumption DEF P!MasterReached, P!MasterStops, P!Line
  <2> QED BY <2>1, <2>2, Registers DEF Hardwares
<1>3. \/ irq \in P!Line /\ irq \in p.irr["master"] \ p.isr["master"] /\ P!MasterReached(p, irq)
      \/ \E j \in P!Line : irq = Width + j /\ j \in p.irr["slave"] \ p.isr["slave"]
                           /\ P!MasterReached(p, Cascade)
  BY DEF P!NextIrq, P!Pending, P!SlaveReached
<1> QED BY <1>1, <1>2, <1>3

\* A device latches its request (raise_irq).
LEMMA Raised ==
  ASSUME NEW p, Wired(p), NEW irq \in Hardwares,
         NEW q, q = P!RaiseIrq(p, irq)
  PROVE  /\ Wired(q) /\ q.base = p.base /\ q.icw2Pending = p.icw2Pending
         /\ \A other \in Hardwares : Servicing(q, other) <=> Servicing(p, other)
         /\ \A other \in Hardwares : Latched(q, other) <=> Latched(p, other) \/ other = irq
<1> USE Distinct, Places
<1> DEFINE c == P!ChipOf(irq)
<1>1. c \in P!Chip /\ P!LineOf(irq) \in P!Line
  BY DEF Hardwares, P!Chip, P!Line
<1>2. /\ q.isr = p.isr /\ q.base = p.base /\ q.icw2Pending = p.icw2Pending
      /\ q.irr = [p.irr EXCEPT ![c] = @ \cup {P!LineOf(irq)}]
  BY DEF P!RaiseIrq, Wired, P!Pics
<1>3. q \in P!Pics
  BY <1>1 DEF P!RaiseIrq, Wired, P!Pics
<1>4. /\ q.irr["master"] = IF c = "master" THEN p.irr["master"] \cup {P!LineOf(irq)} ELSE p.irr["master"]
      /\ q.irr["slave"] = IF c = "slave" THEN p.irr["slave"] \cup {P!LineOf(irq)} ELSE p.irr["slave"]
  BY <1>1, <1>2 DEF Wired, P!Pics, P!Chip
<1>5. Wired(q)
  BY <1>2, <1>3, <1>4 DEF Wired, Hardwares
<1>6. \A other \in Hardwares : Latched(q, other) <=> Latched(p, other) \/ other = irq
  BY <1>4, Registers DEF Hardwares
<1> QED BY <1>2, <1>5, <1>6 DEF Servicing

\* A request moves to service (acknowledge).
LEMMA Acknowledges ==
  ASSUME NEW p, Wired(p), NEW irq \in Hardwares,
         NEW q, q = P!Acknowledged(p, irq)
  PROVE  /\ Wired(q) /\ q.base = p.base /\ q.icw2Pending = p.icw2Pending
         /\ \A other \in Hardwares : Servicing(q, other) <=> Servicing(p, other) \/ other = irq
         /\ \A other \in Hardwares : Latched(q, other) <=> Latched(p, other) /\ other # irq
<1> USE Distinct, Places
<1> DEFINE c == P!ChipOf(irq)
           more(d) == (IF d = c THEN {P!LineOf(irq)} ELSE {})
                      \cup (IF c = "slave" /\ d = "master" THEN {Cascade} ELSE {})
<1>1. c \in P!Chip /\ P!LineOf(irq) \in P!Line /\ Cascade \in P!Line
  BY DEF Hardwares, P!Chip, P!Line
<1>2. /\ q.base = p.base /\ q.icw2Pending = p.icw2Pending
      /\ q.irr = [p.irr EXCEPT ![c] = @ \ {P!LineOf(irq)}]
      /\ q.isr = [d \in P!Chip |-> p.isr[d] \cup (IF d = c THEN {P!LineOf(irq)} ELSE {})
                      \cup (IF c = "slave" /\ d = "master" THEN {Cascade} ELSE {})]
  BY DEF P!Acknowledged, Wired, P!Pics
<1>3. q.irr \in [P!Chip -> SUBSET P!Line] /\ q.isr \in [P!Chip -> SUBSET P!Line]
  BY <1>1, <1>2 DEF Wired, P!Pics
<1>4. q \in P!Pics
  <2>1. q = [p EXCEPT !.irr = q.irr, !.isr = q.isr]
    BY <1>2 DEF P!Acknowledged, Wired, P!Pics
  <2> QED BY <1>3, <2>1 DEF Wired, P!Pics
<1>5. /\ q.irr["master"] = IF c = "master" THEN p.irr["master"] \ {P!LineOf(irq)} ELSE p.irr["master"]
      /\ q.irr["slave"] = IF c = "slave" THEN p.irr["slave"] \ {P!LineOf(irq)} ELSE p.irr["slave"]
      /\ q.isr["master"] = p.isr["master"] \cup IF c = "master" THEN {P!LineOf(irq)} ELSE {Cascade}
      /\ q.isr["slave"] = p.isr["slave"] \cup IF c = "slave" THEN {P!LineOf(irq)} ELSE {}
  BY <1>1, <1>2 DEF Wired, P!Pics, P!Chip
<1>6. Wired(q)
  BY <1>4, <1>5 DEF Wired, Hardwares
<1>7. /\ \A other \in Hardwares : Servicing(q, other) <=> Servicing(p, other) \/ other = irq
      /\ \A other \in Hardwares : Latched(q, other) <=> Latched(p, other) /\ other # irq
  BY <1>5, Registers DEF Hardwares
<1> QED BY <1>2, <1>6, <1>7

\* A non-specific EOI ends the service of the device that outranks the others in
\* service on its chip (write_command).
LEMMA Ends ==
  ASSUME NEW p, Wired(p), NEW irq \in Hardwares, Servicing(p, irq),
         \A other \in Hardwares : Servicing(p, other) => P!Rank(irq) <= P!Rank(other),
         NEW q, q = P!Eoi(p, P!ChipOf(irq))
  PROVE  /\ Wired(q) /\ q.base = p.base /\ q.icw2Pending = p.icw2Pending
         /\ \A other \in Hardwares : Servicing(q, other) <=> Servicing(p, other) /\ other # irq
         /\ \A other \in Hardwares : Latched(q, other) <=> Latched(p, other)
<1> USE Distinct, Places
<1> DEFINE c == P!ChipOf(irq)
           left == p.isr[c] \ {P!LineOf(irq)}
<1>1. c \in P!Chip
  BY DEF Hardwares, P!Chip
<1>2. P!NonSpecific(p, c) = {P!LineOf(irq)}
  <2>1. CASE irq = DiskIrq
    BY <2>1, Registers DEF Wired, P!NonSpecific
  <2>2. CASE irq = KbdIrq
    BY <2>2, Registers DEF Wired, P!NonSpecific, Hardwares
  <2>3. CASE irq = TimerIrq
    BY <2>3, Registers DEF Wired, P!NonSpecific
  <2> QED BY <2>1, <2>2, <2>3 DEF Hardwares
<1>3. /\ q.base = p.base /\ q.icw2Pending = p.icw2Pending /\ q.irr = p.irr
      /\ q.isr = [d \in P!Chip |-> (IF d = c THEN left ELSE p.isr[d])
                      \ (IF c = "slave" /\ d = "master" /\ left = {} THEN {Cascade} ELSE {})]
  BY <1>2 DEF P!Eoi, P!Ocw2, Wired, P!Pics
<1>4. q.isr \in [P!Chip -> SUBSET P!Line]
  BY <1>1, <1>3 DEF Wired, P!Pics
<1>5. q \in P!Pics
  <2>1. q = [p EXCEPT !.isr = q.isr]
    BY <1>3 DEF P!Eoi, P!Ocw2, Wired, P!Pics
  <2> QED BY <1>4, <2>1 DEF Wired, P!Pics
<1>6. /\ q.isr["master"] \subseteq p.isr["master"]
      /\ q.isr["slave"] = IF c = "slave" THEN left ELSE p.isr["slave"]
      /\ \A i : i # Cascade => (i \in q.isr["master"] <=>
                                i \in p.isr["master"] /\ ~(c = "master" /\ i = P!LineOf(irq)))
  BY <1>1, <1>3 DEF P!Chip
<1>7. Wired(q)
  BY <1>3, <1>5, <1>6 DEF Wired
<1>8. \A other \in Hardwares : Servicing(q, other) <=> Servicing(p, other) /\ other # irq
  BY <1>6, Registers DEF Hardwares
<1> QED BY <1>3, <1>7, <1>8 DEF Latched

\* ICW1 starts the set-up of a chip and leaves nothing in service that was not.
LEMMA Resets ==
  ASSUME NEW p, Wired(p), NEW c \in P!Chip, NEW q, q = P!Icw1(p, c)
  PROVE  /\ Wired(q) /\ q.base = p.base /\ q.icw2Pending = TRUE
         /\ \A other \in Hardwares : Servicing(q, other) => Servicing(p, other)
<1> USE Distinct, Places
<1>1. /\ q.base = p.base /\ q.icw2Pending = TRUE
      /\ q.irr = [p.irr EXCEPT ![c] = {}] /\ q.isr = [p.isr EXCEPT ![c] = {}]
  BY DEF P!Icw1, Wired, P!Pics
<1>2. q \in P!Pics
  BY DEF P!Icw1, Wired, P!Pics
<1>3. /\ q.irr["master"] \subseteq p.irr["master"] /\ q.irr["slave"] \subseteq p.irr["slave"]
      /\ q.isr["master"] \subseteq p.isr["master"] /\ q.isr["slave"] \subseteq p.isr["slave"]
  BY <1>1 DEF Wired, P!Pics, P!Chip
<1>4. Wired(q)
  BY <1>2, <1>3 DEF Wired
<1>5. \A other \in Hardwares : Servicing(q, other) => Servicing(p, other)
  BY <1>3, Registers DEF Hardwares
<1> QED BY <1>1, <1>4, <1>5

\* A data byte sets a chip up or masks lines, and serves nothing (write_data).
LEMMA SetsUp ==
  ASSUME NEW p, Wired(p), NEW c \in P!Chip, NEW b \in PicBytes,
         NEW q, q = P!DataWritten(p, c, b)
  PROVE  /\ Wired(q) /\ <<q.base, q.icw2Pending>> = Set(<<p.base, p.icw2Pending>>, c, b)
         /\ \A other \in Hardwares : Servicing(q, other) <=> Servicing(p, other)
         /\ \A other \in Hardwares : Latched(q, other) <=> Latched(p, other)
<1>1. CASE p.icw2Pending
  <2>1. /\ q.irr = p.irr /\ q.isr = p.isr /\ q.icw2Pending = FALSE
        /\ q.base = [p.base EXCEPT ![c] = BaseOf[b]]
    BY <1>1 DEF P!DataWritten, Wired, P!Pics
  <2>2. q \in P!Pics
    BY <1>1, MachineAssumption DEF P!DataWritten, Wired, P!Pics
  <2>3. Set(<<p.base, p.icw2Pending>>, c, b) = <<[p.base EXCEPT ![c] = BaseOf[b]], FALSE>>
    BY <1>1 DEF Set
  <2> QED BY <2>1, <2>2, <2>3 DEF Wired, Servicing, Latched
<1>2. CASE ~p.icw2Pending
  <2>1. q.irr = p.irr /\ q.isr = p.isr /\ q.icw2Pending = p.icw2Pending /\ q.base = p.base
    BY <1>2 DEF P!DataWritten, Wired, P!Pics
  <2>2. q \in P!Pics
    BY <1>2, MachineAssumption DEF P!DataWritten, Wired, P!Pics, P!Line
  <2>3. Set(<<p.base, p.icw2Pending>>, c, b) = <<p.base, p.icw2Pending>>
    BY <1>2 DEF Set
  <2> QED BY <2>1, <2>2, <2>3 DEF Wired, Servicing, Latched
<1> QED BY <1>1, <1>2

----------------------------------------------------------------------------
(* The keyboard controller.                                                *)

\* A record with the fields of a keyboard controller.
Controller(k) ==
  k = [ out |-> k.out, ctr |-> k.ctr, pending |-> k.pending, devPending |-> k.devPending,
        irq1 |-> k.irq1, cmdWritten |-> k.cmdWritten, scanning |-> k.scanning,
        driverAttached |-> k.driverAttached ]

\* What an operation leaves: a line that says what the head of the queue says, or a
\* queue, an enable and a line it has not touched.
Settled(k, l) ==
  /\ Controller(l)
  /\ \/ l.irq1 <=> K!HeadInterrupts(l)
     \/ l.out = k.out /\ l.ctr = k.ctr /\ l.irq1 = k.irq1

\* refresh_irq sets the line and nothing else.
LEMMA Refreshed ==
  ASSUME NEW k, Controller(k), NEW l, l = K!RefreshIrq(k)
  PROVE  /\ Controller(l) /\ (l.irq1 <=> K!HeadInterrupts(l))
         /\ l.out = k.out /\ l.driverAttached = k.driverAttached
<1>1. PICK h : h = K!HeadInterrupts(k)
  BY Zenon
<1>2. l = [k EXCEPT !.irq1 = h]
  BY <1>1, Zenon DEF K!RefreshIrq
<1>3. /\ Controller(l) /\ l.irq1 = h /\ l.out = k.out /\ l.ctr = k.ctr
      /\ l.driverAttached = k.driverAttached
  BY <1>2 DEF Controller
<1>4. K!HeadInterrupts(l) = K!HeadInterrupts(k)
  BY <1>3, Zenon DEF K!HeadInterrupts
<1> QED BY <1>1, <1>3, <1>4, Zenon

\* An answer settles the line (reply and reply_aux).
LEMMA Answered ==
  ASSUME NEW k, NEW j, Controller(j), NEW bytes, NEW aux, NEW l, l = K!Replies(j, bytes, aux)
  PROVE  Settled(k, l) /\ l.driverAttached = j.driverAttached
<1>1. PICK w : w = j.out \o [i \in DOMAIN bytes |-> [byte |-> bytes[i], aux |-> aux]]
  BY Zenon
<1>2. PICK q : q = [j EXCEPT !.out = w]
  BY Zenon
<1>3. l = K!RefreshIrq(q)
  BY <1>1, <1>2, Zenon DEF K!Replies
<1>4. Controller(q) /\ q.driverAttached = j.driverAttached
  BY <1>2 DEF Controller
<1> QED BY <1>3, <1>4, Refreshed DEF Settled

\* A read settles it for the byte behind the one read (read_data).
LEMMA Read ==
  ASSUME NEW k, Controller(k), NEW l, l = K!ReadData(k)
  PROVE  /\ Controller(l) /\ (l.irq1 <=> K!HeadInterrupts(l))
         /\ l.driverAttached = k.driverAttached /\ (k.out = <<>> => l.out = <<>>)
<1>1. PICK w : w = IF k.out = <<>> THEN k.out ELSE Tail(k.out)
  BY Zenon
<1>2. PICK q : q = [k EXCEPT !.out = w]
  BY Zenon
<1>3. l = K!RefreshIrq(q)
  BY <1>1, <1>2, Zenon DEF K!ReadData
<1>4. Controller(q) /\ q.out = w /\ q.driverAttached = k.driverAttached
  BY <1>2 DEF Controller
<1>5. k.out = <<>> => w = <<>>
  BY <1>1, Zenon
<1> QED BY <1>3, <1>4, <1>5, Refreshed

\* A key settles it (push_scancode).
LEMMA Typed ==
  ASSUME NEW k, Controller(k), NEW l, l = K!PushScancode(k, "key")
  PROVE  Settled(k, l)
<1>1. CASE k.scanning
  BY <1>1, Answered, Zenon DEF K!PushScancode, K!Reply
<1>2. CASE ~k.scanning
  BY <1>2, Zenon DEF K!PushScancode, Settled
<1> QED BY <1>1, <1>2

\* So does a byte at the data port, whoever it is for (write_data).
LEMMA Written ==
  ASSUME NEW k, Controller(k), NEW b, NEW l, l = K!WriteData(k, b)
  PROVE  Settled(k, l)
<1>1. PICK w : w = [k EXCEPT !.cmdWritten = FALSE]
  BY Zenon
<1>2. Controller(w) /\ w.out = k.out /\ w.ctr = k.ctr /\ w.irq1 = k.irq1
  BY <1>1 DEF Controller
<1>3. l = IF k.pending # K!None THEN K!ControllerArgument(w, b)
          ELSE IF k.devPending # K!None THEN K!DeviceArgument(w, b)
          ELSE K!DeviceCommanded(w, b)
  BY <1>1, Zenon DEF K!WriteData
<1>4. ASSUME l = K!ControllerArgument(w, b)  PROVE Settled(k, l)
  <2>1. PICK t : t = [w EXCEPT !.pending = K!None]
    BY Zenon
  <2>2. Controller(t) /\ t.out = k.out /\ t.ctr = k.ctr /\ t.irq1 = k.irq1
    BY <1>2, <2>1 DEF Controller
  <2>3. CASE w.pending = "writeCtr"
    <3>1. PICK c : c = [t EXCEPT !.ctr = CtrOf[b]]
      BY Zenon
    <3>2. Controller(c)
      BY <2>2, <3>1 DEF Controller
    <3>3. l = K!RefreshIrq(c)
      BY <1>4, <2>1, <2>3, <3>1 DEF K!ControllerArgument
    <3> QED BY <3>2, <3>3, Refreshed DEF Settled
  <2>4. CASE w.pending = "echoKbd"
    <3>1. l = K!Replies(t, <<<<"echoed", b>>>>, FALSE)
      BY <1>4, <2>1, <2>4 DEF K!ControllerArgument, K!Reply
    <3> QED BY <2>2, <3>1, Answered
  <2>5. CASE w.pending = "echoAux"
    <3>1. l = K!Replies(t, <<<<"echoed", b>>>>, TRUE)
      BY <1>4, <2>1, <2>5 DEF K!ControllerArgument
    <3> QED BY <2>2, <3>1, Answered
  <2>6. CASE w.pending \notin {"writeCtr", "echoKbd", "echoAux"}
    <3>1. l = t
      BY <1>4, <2>1, <2>6 DEF K!ControllerArgument
    <3> QED BY <2>2, <3>1, Zenon DEF Settled
  <2> QED BY <2>3, <2>4, <2>5, <2>6
<1>5. ASSUME l = K!DeviceArgument(w, b)  PROVE Settled(k, l)
  <2>1. PICK t : t = [w EXCEPT !.devPending = K!None]
    BY Zenon
  <2>2. PICK says : says = K!Says(IF w.devPending = "scanSet" /\ b = "zero"
                                  THEN <<"ack", "set2">> ELSE <<"ack">>)
    BY Zenon
  <2>3. l = K!Replies(t, says, FALSE)
    BY <1>5, <2>1, <2>2, Zenon DEF K!DeviceArgument
  <2>4. Controller(t)
    BY <1>2, <2>1 DEF Controller
  <2> QED BY <2>3, <2>4, Answered
<1>6. ASSUME l = K!DeviceCommanded(w, b)  PROVE Settled(k, l)
  <2>1. \E v, bytes : Controller(v) /\ l = K!Replies(v, bytes, FALSE)
    <3>1. CASE b = "enable"
      <4>1. PICK v : v = [w EXCEPT !.scanning = TRUE, !.driverAttached = TRUE]
        BY Zenon
      <4>2. Controller(v)
        BY <1>2, <4>1 DEF Controller
      <4>3. l = K!Replies(v, K!Says(<<"ack">>), FALSE)
        BY <1>6, <3>1, <4>1 DEF K!DeviceCommanded
      <4> QED BY <4>2, <4>3
    <3>2. CASE b = "disable"
      <4>1. PICK v : v = [w EXCEPT !.scanning = FALSE]
        BY Zenon
      <4>2. Controller(v)
        BY <1>2, <4>1 DEF Controller
      <4>3. l = K!Replies(v, K!Says(<<"ack">>), FALSE)
        BY <1>6, <3>2, <4>1 DEF K!DeviceCommanded
      <4> QED BY <4>2, <4>3
    <3>3. CASE b \in {"scanSet", "setLeds"}
      <4>1. PICK v : v = [w EXCEPT !.devPending = b]
        BY Zenon
      <4>2. Controller(v)
        BY <1>2, <4>1 DEF Controller
      <4>3. l = K!Replies(v, K!Says(<<"ack">>), FALSE)
        BY <1>6, <3>3, <4>1 DEF K!DeviceCommanded
      <4> QED BY <4>2, <4>3
    <3>4. CASE b \in {"reset", "echo", "identify"}
      BY <1>2, <1>6, <3>4 DEF K!DeviceCommanded, K!Reply
    <3>5. CASE b \notin {"reset", "echo", "identify", "enable", "disable", "scanSet", "setLeds"}
      BY <1>2, <1>6, <3>5 DEF K!DeviceCommanded
    <3> QED BY <3>1, <3>2, <3>3, <3>4, <3>5
  <2> QED BY <2>1, Answered
<1> QED BY <1>3, <1>4, <1>5, <1>6

----------------------------------------------------------------------------
(* The inductive invariant.                                                *)
(* It speaks of the contexts of the machine, the outermost first: the      *)
(* frames its interrupts and faults have pushed and, at the end, the one   *)
(* that runs; and of how they go with the controllers and the keyboard.    *)

Frame == [iflag: BOOLEAN, at: Location]

Contexts(x) == Append(x.stack, [iflag |-> x.iflag, at |-> x.at])
Levels(c)   == 1 .. Len(c)
Hand(c, j)  == OwnerOf[c[j].at]

\* The main program is outermost; whatever runs with IF clear can only be left for a
\* fault's handler; and a device's handler is left only for one that outranks it.
Nests(c) ==
  /\ c \in Seq(Frame) /\ Len(c) > 0
  /\ Hand(c, 1) = NoOwner
  /\ \A j \in Levels(c) : /\ j > 1 => Hand(c, j) # NoOwner
                          /\ c[j].at \in Closed => ~c[j].iflag
  /\ \A j, k \in Levels(c) :
       j < k => /\ ~c[j].iflag => Hand(c, k) = Fault
                /\ Hand(c, j) \in Hardwares /\ Hand(c, k) \in Hardwares
                   => P!Rank(Hand(c, k)) < P!Rank(Hand(c, j))

\* In service are the lines of the handlers that have not ended their service.
Served(c, p) ==
  \A irq \in Hardwares :
    Servicing(p, irq) <=> \E j \in Levels(c) : Hand(c, j) = irq /\ c[j].at \in Serving

\* The controllers are set up as far as the main program has come.
SetUp(c, p) == <<p.base, p.icw2Pending>> \in Awaits[c[1].at]

\* Before they are, the keyboard has nothing to say.
Quiet(c, k) == c[1].at \notin Ready => k.out = <<>> /\ ~k.driverAttached

\* A byte that waits is announced, or its handler has yet to read.
Told(c, k, p) ==
  K!HeadInterrupts(k) =>
    \/ k.irq1 \/ Latched(p, KbdIrq)
    \/ Servicing(p, KbdIrq) /\ \A j \in Levels(c) : c[j].at \notin Drained

Kept(c, p, k) ==
  /\ Nests(c) /\ Wired(p) /\ Controller(k)
  /\ Served(c, p) /\ SetUp(c, p) /\ Quiet(c, k) /\ Told(c, k, p)

----------------------------------------------------------------------------
(* What happens to the contexts.                                           *)

\* The outline's sets of locations.
LEMMA Locations ==
  /\ Closed \subseteq Location /\ Serving \subseteq Location
  /\ \A l \in Serving : OwnerOf[l] \in Hardwares
  /\ \A l \in Drained : l \in Serving /\ OwnerOf[l] = KbdIrq
  /\ \A l \in Ready : l \in Location /\ OwnerOf[l] = NoOwner
  /\ \A l, o : l \in Owned(o) <=> l \in Location /\ OwnerOf[l] = o
  /\ \A l : l \in Handling <=> l \in Location /\ OwnerOf[l] \in Hardwares
BY OutlineAssumption DEF Owned, Handling

\* A new context f is put on top of the others.
Grown(c, f, d) ==
  /\ d \in Seq(Frame) /\ Len(c) \in Nat /\ Len(d) = Len(c) + 1 /\ Len(c) > 0
  /\ \A j \in Levels(c) : j \in Levels(d) /\ j < Len(d) /\ d[j] = c[j] /\ Hand(d, j) = Hand(c, j)
  /\ 1 \in Levels(c) /\ Len(d) \in Levels(d) /\ Len(d) > 1 /\ d[Len(d)] = f
  /\ \A j \in Levels(d) : j \in Levels(c) \/ j = Len(d)

\* It comes on top of them by Append.
LEMMA Pushed ==
  ASSUME NEW c, Nests(c), NEW f \in Frame, NEW d, d = Append(c, f)
  PROVE  Grown(c, f, d)
<1>1. c \in Seq(Frame) /\ Len(c) > 0
  BY DEF Nests
<1>2. /\ d \in Seq(Frame) /\ Len(c) \in Nat /\ Len(d) = Len(c) + 1
      /\ \A j \in Levels(c) : j \in Levels(d) /\ j < Len(d) /\ d[j] = c[j]
      /\ d[Len(d)] = f
      /\ \A j \in Levels(d) : j \in Levels(c) \/ j = Len(d)
  BY <1>1 DEF Levels
<1>3. 1 \in Levels(c) /\ Len(d) \in Levels(d) /\ Len(d) > 1
  BY <1>1, <1>2 DEF Levels
<1> QED BY <1>1, <1>2, <1>3 DEF Grown, Hand

\* It is above what may be below it.
LEMMA PushedNests ==
  ASSUME NEW c, Nests(c), NEW f \in Frame, NEW d, Grown(c, f, d),
         NEW o, o = OwnerOf[f.at], o # NoOwner, f.at \in Closed => ~f.iflag,
         \A j \in Levels(c) : ~c[j].iflag => o = Fault,
         o \in Hardwares => \A j \in Levels(c) :
                              Hand(c, j) \in Hardwares => P!Rank(o) < P!Rank(Hand(c, j))
  PROVE  Nests(d)
<1>1. Hand(d, Len(d)) = o
  BY DEF Grown, Hand
<1>2. d \in Seq(Frame) /\ Len(d) > 0 /\ Hand(d, 1) = NoOwner
  BY DEF Grown, Nests
<1>3. \A j \in Levels(d) : /\ j > 1 => Hand(d, j) # NoOwner
                           /\ d[j].at \in Closed => ~d[j].iflag
  BY <1>1 DEF Grown, Nests
<1>4. ASSUME NEW j \in Levels(d), NEW i \in Levels(d), j < i
      PROVE  /\ ~d[j].iflag => Hand(d, i) = Fault
             /\ Hand(d, j) \in Hardwares /\ Hand(d, i) \in Hardwares
                => P!Rank(Hand(d, i)) < P!Rank(Hand(d, j))
  <2>1. j \in Levels(c)
    BY <1>4 DEF Grown, Levels
  <2>2. CASE i \in Levels(c)
    <3>1. /\ ~c[j].iflag => Hand(c, i) = Fault
          /\ Hand(c, j) \in Hardwares /\ Hand(c, i) \in Hardwares
             => P!Rank(Hand(c, i)) < P!Rank(Hand(c, j))
      BY <1>4, <2>1, <2>2, Zenon DEF Nests
    <3>2. d[j] = c[j] /\ Hand(d, j) = Hand(c, j) /\ Hand(d, i) = Hand(c, i)
      BY <2>1, <2>2, Zenon DEF Grown
    <3> QED BY <3>1, <3>2, Zenon
  <2>3. CASE i = Len(d)
    <3>1. d[j] = c[j] /\ Hand(d, j) = Hand(c, j) /\ Hand(d, i) = o
      BY <1>1, <2>1, <2>3, Zenon DEF Grown
    <3> QED BY <2>1, <3>1, Zenon
  <2> QED BY <2>2, <2>3, Zenon DEF Grown
<1> QED BY <1>2, <1>3, <1>4 DEF Nests

\* A handler in service is, and no other, one more.
LEMMA PushedServed ==
  ASSUME NEW c, NEW p, Served(c, p), NEW f, NEW d, Grown(c, f, d), NEW q,
         \A irq \in Hardwares :
           Servicing(q, irq) <=> Servicing(p, irq) \/ (OwnerOf[f.at] = irq /\ f.at \in Serving)
  PROVE  Served(d, q)
<1> SUFFICES ASSUME NEW irq \in Hardwares
             PROVE  Servicing(q, irq) <=> \E j \in Levels(d) : Hand(d, j) = irq /\ d[j].at \in Serving
  BY Zenon DEF Served
<1>1. Servicing(p, irq) <=> \E j \in Levels(c) : Hand(c, j) = irq /\ c[j].at \in Serving
  BY Zenon DEF Served
<1>2. Hand(d, Len(d)) = OwnerOf[f.at]
  BY DEF Grown, Hand
<1> QED BY <1>1, <1>2 DEF Grown

\* A machine whose IF is set runs the main program, set up, or a handler in service;
\* and so do all the contexts below.
LEMMA Open ==
  ASSUME Disciplined, NEW c, NEW p, NEW k, Kept(c, p, k), c[Len(c)].iflag
  PROVE  /\ c[1].at \in Ready
         /\ \A j \in Levels(c) : /\ c[j].iflag
                                 /\ Hand(c, j) \in Hardwares => Servicing(p, Hand(c, j))
<1> USE Locations, Distinct
<1>1. /\ Len(c) \in Levels(c) /\ 1 \in Levels(c) /\ Len(c) \in Nat
      /\ \A j \in Levels(c) : c[j].at \in Location /\ j <= Len(c)
  <2>1. c \in Seq(Frame) /\ Len(c) > 0
    BY DEF Kept, Nests
  <2>2. Len(c) \in Nat /\ \A j \in Levels(c) : c[j] \in Frame
    BY <2>1 DEF Levels
  <2> QED BY <2>1, <2>2 DEF Levels, Frame
<1>2. Hand(c, Len(c)) # Fault
  <2>1. Owned(Fault) \subseteq Closed
    BY DEF Disciplined, Outlined
  <2> QED BY <1>1, <2>1 DEF Kept, Nests, Hand
<1>3. \A j \in Levels(c) : c[j].iflag
  <2> SUFFICES ASSUME NEW j \in Levels(c), j # Len(c)  PROVE c[j].iflag
    OBVIOUS
  <2>1. j < Len(c)
    BY <1>1 DEF Levels
  <2> QED BY <1>1, <1>2, <2>1 DEF Kept, Nests
<1>4. \A j \in Levels(c) : c[j].at \notin Closed
  BY <1>3 DEF Kept, Nests
<1>5. c[1].at \in Ready
  <2>1. Owned(NoOwner) \subseteq Closed \cup Ready
    BY DEF Disciplined, Outlined
  <2> QED BY <1>1, <1>4, <2>1 DEF Kept, Nests, Hand
<1>6. \A j \in Levels(c) : Hand(c, j) \in Hardwares => Servicing(p, Hand(c, j))
  <2>1. Handling \subseteq Closed \cup Serving
    BY DEF Disciplined, Outlined
  <2>2. \A j \in Levels(c) : Hand(c, j) \in Hardwares => c[j].at \in Serving
    BY <1>1, <1>4, <2>1 DEF Hand
  <2> QED BY <2>2 DEF Kept, Served
<1> QED BY <1>3, <1>5, <1>6

\* The handler of an interrupt starts.
LEMMA Interrupts ==
  ASSUME Disciplined, NEW c, NEW p, NEW k, Kept(c, p, k), c[Len(c)].iflag,
         NEW irq \in P!NextIrq(p), NEW q, q = P!Acknowledged(p, irq),
         NEW d, d = Append(c, [iflag |-> FALSE, at |-> Entry[P!Vector(p, irq)]])
  PROVE  Kept(d, q, k)
<1> USE Locations
<1>1. /\ irq \in Hardwares
      /\ \A other \in Hardwares : Servicing(p, other) => P!Rank(irq) < P!Rank(other)
  BY NextOutranks DEF Kept
<1>2. /\ Wired(q) /\ q.base = p.base /\ q.icw2Pending = p.icw2Pending
      /\ \A other \in Hardwares : Servicing(q, other) <=> Servicing(p, other) \/ other = irq
      /\ \A other \in Hardwares : Latched(q, other) <=> Latched(p, other) /\ other # irq
  BY <1>1, Acknowledges DEF Kept
<1>3. /\ c[1].at \in Ready
      /\ \A j \in Levels(c) : /\ c[j].iflag
                              /\ Hand(c, j) \in Hardwares => Servicing(p, Hand(c, j))
  BY Open
<1>4. PICK f : f = [iflag |-> FALSE, at |-> Entry[P!Vector(p, irq)]]
  BY Zenon
<1>5. f.at \in Location /\ OwnerOf[f.at] = irq /\ f.at \in Serving /\ f.at \notin Drained
      /\ ~f.iflag /\ f \in Frame
  <2>1. p.base = Bases
    <3>1. <<p.base, p.icw2Pending>> \in Awaits[c[1].at]
      BY Zenon DEF Kept, SetUp
    <3>2. Awaits[c[1].at] = {<<Bases, FALSE>>}
      BY <1>3, Zenon DEF Disciplined, Outlined
    <3> QED BY <3>1, <3>2
  <2>2. Entry[P!Vector(p, irq)] \in (Serving \cap Owned(irq)) \ Drained
    BY <1>1, <2>1 DEF P!Vector, Disciplined, Outlined
  <2>3. PICK l : l = Entry[P!Vector(p, irq)]
    BY Zenon
  <2>4. f = [iflag |-> FALSE, at |-> l] /\ l \in (Serving \cap Owned(irq)) \ Drained
    BY <1>4, <2>2, <2>3, Zenon
  <2> QED BY <2>4 DEF Frame
<1>6. Grown(c, f, d)
  <2>1. Nests(c) /\ d = Append(c, f)
    BY <1>4, Zenon DEF Kept
  <2> QED BY <1>5, <2>1, Pushed
<1>7. Nests(d)
  <2>1. irq # NoOwner /\ \A j \in Levels(c) : c[j].iflag
    BY <1>1, <1>3, Distinct
  <2>2. \A j \in Levels(c) : Hand(c, j) \in Hardwares => P!Rank(irq) < P!Rank(Hand(c, j))
    BY <1>1, <1>3, Zenon
  <2>3. Nests(c)
    BY Zenon DEF Kept
  <2> QED BY <1>5, <1>6, <2>1, <2>2, <2>3, PushedNests
<1>8. Served(d, q)
  <2>1. Served(c, p)
    BY Zenon DEF Kept
  <2>2. \A other \in Hardwares :
          Servicing(q, other) <=> Servicing(p, other) \/ (OwnerOf[f.at] = other /\ f.at \in Serving)
    BY <1>2, <1>5, Zenon
  <2> QED BY <1>6, <2>1, <2>2, PushedServed
<1>9. SetUp(d, q) /\ Quiet(d, k)
  <2>1. d[1] = c[1]
    BY <1>6, Zenon DEF Grown
  <2> QED BY <1>2, <2>1, Zenon DEF Kept, SetUp, Quiet
<1>10. Told(d, k, q)
  <2> SUFFICES ASSUME K!HeadInterrupts(k), ~k.irq1, ~Latched(q, KbdIrq)
               PROVE  Servicing(q, KbdIrq) /\ \A j \in Levels(d) : d[j].at \notin Drained
    BY DEF Told
  <2>1. KbdIrq \in Hardwares
    BY DEF Hardwares
  <2>2. CASE irq = KbdIrq
    <3>1. \A j \in Levels(c) : Hand(c, j) # KbdIrq
      <4> SUFFICES ASSUME NEW j \in Levels(c), Hand(c, j) = KbdIrq  PROVE FALSE
        OBVIOUS
      <4> QED BY <1>1, <1>3, <2>1, <2>2, Places
    <3>2. ASSUME NEW j \in Levels(d)
          PROVE  d[j].at \notin Drained
      <4>1. CASE j \in Levels(c)
        <5>1. d[j] = c[j] /\ OwnerOf[c[j].at] # KbdIrq
          BY <1>6, <3>1, <4>1, Zenon DEF Hand, Grown
        <5> QED BY <5>1 DEF Owned
      <4>2. CASE j \notin Levels(c)
        <5>1. d[j] = f
          BY <1>6, <4>2, Zenon DEF Grown
        <5> QED BY <1>5, <5>1, Zenon
      <4> QED BY <4>1, <4>2
    <3> QED BY <1>2, <2>1, <2>2, <3>2, Zenon
  <2>3. CASE irq # KbdIrq
    <3>1. Servicing(p, KbdIrq) /\ \A j \in Levels(c) : c[j].at \notin Drained
      BY <1>2, <2>1, <2>3 DEF Kept, Told
    <3>2. ASSUME NEW j \in Levels(d)
          PROVE  d[j].at \notin Drained
      <4>1. j \in Levels(c) => d[j] = c[j]
        BY <1>6, Zenon DEF Grown
      <4>2. j \notin Levels(c) => d[j] = f
        BY <1>6, Zenon DEF Grown
      <4> QED BY <1>5, <3>1, <4>1, <4>2, Zenon
    <3> QED BY <1>2, <2>1, <3>1, <3>2, Zenon
  <2> QED BY <2>2, <2>3
<1> QED BY <1>2, <1>7, <1>8, <1>9, <1>10, Zenon DEF Kept

\* The handler of a fault starts, wherever it happened.
LEMMA FaultEnters ==
  ASSUME Disciplined, NEW c, NEW p, NEW k, Kept(c, p, k),
         NEW d, d = Append(c, [iflag |-> FALSE, at |-> Entry[Fault]])
  PROVE  Kept(d, p, k)
<1> USE Locations
<1>1. PICK f : f = [iflag |-> FALSE, at |-> Entry[Fault]]
  BY Zenon
<1>2. /\ f.at \in Location /\ OwnerOf[f.at] = Fault /\ f.at \notin Serving /\ f.at \notin Drained
      /\ ~f.iflag /\ f \in Frame
  <2>1. Entry[Fault] \in Owned(Fault)
    BY Zenon DEF Disciplined, Outlined
  <2>2. PICK l : l = Entry[Fault]
    BY Zenon
  <2>3. f = [iflag |-> FALSE, at |-> l] /\ l \in Owned(Fault)
    BY <1>1, <2>1, <2>2, Zenon
  <2> QED BY <2>3, Distinct DEF Frame
<1>3. Nests(c) /\ Served(c, p)
  BY Zenon DEF Kept
<1>4. Grown(c, f, d)
  <2>1. d = Append(c, f)
    BY <1>1, Zenon
  <2> QED BY <1>2, <1>3, <2>1, Pushed
<1>5. Nests(d)
  BY <1>2, <1>3, <1>4, Distinct, PushedNests
<1>6. Served(d, p)
  <2>1. \A other \in Hardwares :
          Servicing(p, other) <=> Servicing(p, other) \/ (OwnerOf[f.at] = other /\ f.at \in Serving)
    BY <1>2, Zenon
  <2> QED BY <1>3, <1>4, <2>1, PushedServed
<1>7. SetUp(d, p) /\ Quiet(d, k)
  <2>1. d[1] = c[1]
    BY <1>4, Zenon DEF Grown
  <2> QED BY <2>1, Zenon DEF Kept, SetUp, Quiet
<1>8. Told(d, k, p)
  BY <1>2, <1>4 DEF Kept, Told, Grown
<1> QED BY <1>5, <1>6, <1>7, <1>8, Zenon DEF Kept

\* A handler returns, its service ended, to what it had left.
LEMMA Returns ==
  ASSUME NEW c, NEW p, NEW k, Kept(c, p, k), NEW d \in Seq(Frame), NEW f, Grown(d, f, c),
         f.at \notin Serving
  PROVE  Kept(d, p, k)
<1> USE Locations
<1>1. Nests(c) /\ Served(c, p)
  BY Zenon DEF Kept
<1>2. c[Len(c)] = f /\ f.at \notin Serving
  BY DEF Grown
<1>3. Nests(d)
  BY <1>1 DEF Grown, Nests
<1>4. Served(d, p)
  BY <1>1, <1>2 DEF Grown, Served
<1>5. SetUp(d, p) /\ Quiet(d, k)
  <2>1. d[1] = c[1]
    BY Zenon DEF Grown
  <2> QED BY <2>1, Zenon DEF Kept, SetUp, Quiet
<1>6. Told(d, k, p)
  BY DEF Kept, Told, Grown
<1> QED BY <1>3, <1>4, <1>5, <1>6, Zenon DEF Kept

\* The running context alone goes on, by an instruction i that is not a return.
Goes(c, i, d) ==
  /\ d \in Seq(Frame) /\ Len(d) = Len(c)
  /\ \A j \in Levels(c) : j # Len(c) => d[j] = c[j]
  /\ i[1] # "iret" /\ Keeps(c[Len(c)].at, i, d[Len(c)].at)
  /\ i[1] = "cli" => ~d[Len(c)].iflag
  /\ i[1] \notin {"cli", "sti"} => d[Len(c)].iflag = c[Len(c)].iflag

\* The outermost context is the main program's, and no other.
LEMMA Outermost ==
  ASSUME NEW c, Nests(c)
  PROVE  /\ Len(c) \in Nat /\ Len(c) > 0 /\ 1 \in Levels(c) /\ Len(c) \in Levels(c)
         /\ Hand(c, 1) = NoOwner /\ c[1].at \in Location
         /\ \A j \in Levels(c) : j > 1 => Hand(c, j) # NoOwner
<1>1. c \in Seq(Frame) /\ Len(c) > 0
  BY DEF Nests
<1>2. Len(c) \in Nat /\ 1 \in Levels(c) /\ Len(c) \in Levels(c) /\ c[1] \in Frame
  BY <1>1 DEF Levels
<1>3. c[1].at \in Location
  BY <1>2 DEF Frame
<1> QED BY <1>1, <1>2, <1>3, Zenon DEF Nests

\* It keeps its place among the others.
LEMMA GoesNests ==
  ASSUME NEW c, Nests(c), NEW i, NEW d, Goes(c, i, d)
  PROVE  /\ Nests(d) /\ Levels(d) = Levels(c) /\ Len(d) = Len(c)
         /\ Len(c) \in Levels(c) /\ 1 \in Levels(c)
         /\ \A j \in Levels(c) : Hand(d, j) = Hand(c, j)
         /\ \A j \in Levels(c) : j # Len(c) => d[j] = c[j]
<1>1. PICK n : n = Len(c)
  BY Zenon
<1>2. /\ n \in Nat /\ n > 0 /\ n \in Levels(c) /\ 1 \in Levels(c)
      /\ \A j \in Levels(c) : j \in Int /\ j <= n
  BY <1>1 DEF Nests, Levels
<1>3. Len(d) = n /\ Levels(d) = Levels(c)
  BY <1>1 DEF Goes, Levels
<1>4. /\ OwnerOf[d[n].at] = OwnerOf[c[n].at] /\ KeepsFlag(c[n].at, i, d[n].at)
      /\ i[1] = "cli" => ~d[n].iflag
      /\ i[1] \notin {"cli", "sti"} => d[n].iflag = c[n].iflag
  BY <1>1 DEF Goes, Keeps
<1>5. \A j \in Levels(c) : j # n => d[j] = c[j]
  BY <1>1, Zenon DEF Goes
<1>6. \A j \in Levels(c) : Hand(d, j) = Hand(c, j)
  BY <1>4, <1>5, Zenon DEF Hand
<1>7. \A j \in Levels(c) : /\ j > 1 => Hand(c, j) # NoOwner
                           /\ c[j].at \in Closed => ~c[j].iflag
  BY Zenon DEF Nests
<1>8. d[n].at \in Closed => ~d[n].iflag
  BY <1>2, <1>4, <1>7 DEF KeepsFlag
<1>9. \A j \in Levels(d) : /\ j > 1 => Hand(d, j) # NoOwner
                           /\ d[j].at \in Closed => ~d[j].iflag
  BY <1>3, <1>5, <1>6, <1>7, <1>8, Zenon
<1>10. ASSUME NEW j \in Levels(d), NEW o \in Levels(d), j < o
       PROVE  /\ ~d[j].iflag => Hand(d, o) = Fault
              /\ Hand(d, j) \in Hardwares /\ Hand(d, o) \in Hardwares
                 => P!Rank(Hand(d, o)) < P!Rank(Hand(d, j))
  <2>1. /\ ~c[j].iflag => Hand(c, o) = Fault
        /\ Hand(c, j) \in Hardwares /\ Hand(c, o) \in Hardwares
           => P!Rank(Hand(c, o)) < P!Rank(Hand(c, j))
    BY <1>3, <1>10, Zenon DEF Nests
  <2>2. j # n
    BY <1>2, <1>3, <1>10
  <2>3. d[j] = c[j] /\ Hand(d, j) = Hand(c, j) /\ Hand(d, o) = Hand(c, o)
    BY <1>3, <1>5, <1>6, <2>2, Zenon
  <2> QED BY <2>1, <2>3, Zenon
<1>11. Hand(d, 1) = NoOwner
  BY <1>2, <1>6 DEF Nests
<1>12. d \in Seq(Frame) /\ Len(d) > 0
  BY <1>2, <1>3 DEF Goes
<1>13. Nests(d)
  BY <1>9, <1>10, <1>11, <1>12 DEF Nests
<1> QED BY <1>1, <1>2, <1>3, <1>5, <1>6, <1>13

\* What ends no service leaves each with its handler.
LEMMA GoesServed ==
  ASSUME NEW c, NEW p, Nests(c), Served(c, p), NEW i, NEW d, Goes(c, i, d), i[1] # "eoi",
         NEW q, \A irq \in Hardwares : Servicing(q, irq) <=> Servicing(p, irq)
  PROVE  Served(d, q)
<1>1. /\ Levels(d) = Levels(c)
      /\ \A j \in Levels(c) : Hand(d, j) = Hand(c, j)
      /\ \A j \in Levels(c) : j # Len(c) => d[j] = c[j]
  BY GoesNests
<1>2. c[Len(c)].at \in Serving <=> d[Len(c)].at \in Serving
  BY Zenon DEF Goes, Keeps, KeepsService
<1>3. \A j \in Levels(c) : c[j].at \in Serving <=> d[j].at \in Serving
  BY <1>1, <1>2, Zenon
<1> QED BY <1>1, <1>3, Zenon DEF Served

\* The main program alone, and before anything else, sets the controllers up.
LEMMA GoesMain ==
  ASSUME NEW c, Nests(c), NEW i, NEW d, Goes(c, i, d), i[1] \in {"icw1", "picData"}
  PROVE  Len(c) = 1 /\ c[1].at \in Owned(NoOwner) /\ (i[1] = "icw1" => c[1].at \notin Ready)
<1>1. KeepsSetup(c[Len(c)].at, i, d[Len(c)].at)
  BY Zenon DEF Goes, Keeps
<1>2. c[Len(c)].at \in Owned(NoOwner) /\ (i[1] = "icw1" => c[Len(c)].at \notin Ready)
  BY <1>1, Zenon DEF KeepsSetup
<1>3. Len(c) \in Levels(c) /\ Len(c) \in Nat /\ Len(c) > 0
  BY GoesNests DEF Nests
<1>4. Hand(c, Len(c)) = NoOwner
  BY <1>2 DEF Hand, Owned
<1>5. ~(Len(c) > 1)
  BY <1>3, <1>4, Outermost
<1>6. Len(c) = 1
  <2>1. PICK n : n = Len(c)
    BY Zenon
  <2>2. n \in Nat /\ n > 0 /\ ~(n > 1)
    BY <1>3, <1>5, <2>1, Zenon
  <2> QED BY <2>1, <2>2
<1> QED BY <1>2, <1>6

\* The set-up follows the program (write_command, write_data).
LEMMA GoesSetUp ==
  ASSUME NEW c, NEW p, Nests(c), SetUp(c, p), NEW i, NEW d, Goes(c, i, d),
         NEW q, NEW s, s = <<p.base, p.icw2Pending>>, NEW t, t = <<q.base, q.icw2Pending>>,
         i[1] = "icw1" => t = <<s[1], TRUE>>,
         i[1] = "picData" => t = Set(s, i[2], i[3]),
         i[1] \notin {"icw1", "picData"} => t = s
  PROVE  SetUp(d, q)
<1>1. s \in Awaits[c[1].at]
  BY Zenon DEF SetUp
<1>2. Len(c) # 1 => d[1] = c[1]
  BY GoesNests, Zenon
<1>3. CASE Len(c) # 1
  <2>1. t = s
    BY <1>3, GoesMain, Zenon
  <2> QED BY <1>1, <1>2, <1>3, <2>1, Zenon DEF SetUp
<1>4. CASE Len(c) = 1
  <2>1. c[1].at \in Owned(NoOwner)
    <3>1. Hand(c, 1) = NoOwner /\ c[1].at \in Location
      BY Outermost
    <3> QED BY <3>1 DEF Hand, Owned
  <2>2. KeepsSetup(c[1].at, i, d[1].at)
    BY <1>4, Zenon DEF Goes, Keeps
  <2>3. PICK u : u = CASE i[1] = "icw1"    -> <<s[1], TRUE>>
                       [] i[1] = "picData" -> Set(s, i[2], i[3])
                       [] OTHER            -> s
    BY Zenon
  <2>4. u \in Awaits[d[1].at]
    BY <1>1, <2>1, <2>2, <2>3, Zenon DEF KeepsSetup
  <2>5. t = u
    <3>1. CASE i[1] = "icw1"
      BY <2>3, <3>1
    <3>2. CASE i[1] = "picData"
      BY <2>3, <3>2
    <3>3. CASE i[1] \notin {"icw1", "picData"}
      BY <2>3, <3>3
    <3> QED BY <3>1, <3>2, <3>3
  <2> QED BY <2>4, <2>5, Zenon DEF SetUp
<1> QED BY <1>3, <1>4

\* The keyboard speaks only to a program that is set up.
LEMMA GoesQuiet ==
  ASSUME NEW c, NEW k, Nests(c), Quiet(c, k), NEW i, NEW d, Goes(c, i, d), NEW l,
         c[1].at \notin Ready /\ k.out = <<>> /\ ~k.driverAttached
           => l.out = <<>> /\ ~l.driverAttached
  PROVE  Quiet(d, l)
<1>1. Len(c) # 1 => d[1] = c[1]
  BY GoesNests, Zenon
<1>2. c[1].at \in Ready => d[1].at \in Ready
  <2>1. CASE Len(c) = 1
    BY <2>1, Zenon DEF Goes, Keeps, KeepsSetup
  <2>2. CASE Len(c) # 1
    BY <1>1, <2>2, Zenon
  <2> QED BY <2>1, <2>2
<1> QED BY <1>2, Zenon DEF Quiet

\* Only a read of the keyboard drains it.
LEMMA GoesUndrained ==
  ASSUME NEW c, Nests(c), NEW i, NEW d, Goes(c, i, d), i[1] # "kbdRead",
         \A j \in Levels(c) : c[j].at \notin Drained
  PROVE  \A j \in Levels(d) : d[j].at \notin Drained
<1>1. /\ Levels(d) = Levels(c) /\ Len(c) \in Levels(c)
      /\ \A j \in Levels(c) : j # Len(c) => d[j] = c[j]
  BY GoesNests
<1>2. d[Len(c)].at \notin Drained
  <2>1. KeepsService(c[Len(c)].at, i, d[Len(c)].at) /\ c[Len(c)].at \notin Drained
    BY <1>1, Zenon DEF Goes, Keeps
  <2> QED BY <2>1, Locations, Zenon DEF KeepsService
<1> QED BY <1>1, <1>2, Zenon

----------------------------------------------------------------------------
(* The instructions, one kind after another.                               *)

\* One that leaves the controllers and the keyboard alone.
LEMMA Plain ==
  ASSUME NEW c, NEW p, NEW k, Kept(c, p, k), NEW i, NEW d, Goes(c, i, d),
         i[1] \notin {"icw1", "picData", "eoi", "kbdWrite", "kbdRead"}
  PROVE  Kept(d, p, k)
<1>1. /\ Nests(c) /\ Wired(p) /\ Controller(k)
      /\ Served(c, p) /\ SetUp(c, p) /\ Quiet(c, k) /\ Told(c, k, p)
  BY Zenon DEF Kept
<1>2. Nests(d)
  BY <1>1, GoesNests
<1>3. Served(d, p)
  BY <1>1, GoesServed
<1>4. SetUp(d, p)
  <2>1. PICK s : s = <<p.base, p.icw2Pending>>
    BY Zenon
  <2> QED BY <1>1, <2>1, GoesSetUp
<1>5. Quiet(d, k)
  BY <1>1, GoesQuiet
<1>6. Told(d, k, p)
  BY <1>1, GoesUndrained DEF Told
<1> QED BY <1>1, <1>2, <1>3, <1>4, <1>5, <1>6, Zenon DEF Kept

\* ICW1, before the keyboard speaks: nothing is in service.
LEMMA GoesIcw1 ==
  ASSUME NEW c, NEW p, NEW k, Kept(c, p, k), NEW i, NEW d, Goes(c, i, d),
         i[1] = "icw1", i[2] \in P!Chip, NEW q, q = P!Icw1(p, i[2])
  PROVE  Kept(d, q, k)
<1>1. /\ Nests(c) /\ Wired(p) /\ Controller(k)
      /\ Served(c, p) /\ SetUp(c, p) /\ Quiet(c, k)
  BY Zenon DEF Kept
<1>2. /\ Wired(q) /\ q.base = p.base /\ q.icw2Pending = TRUE
      /\ \A other \in Hardwares : Servicing(q, other) => Servicing(p, other)
  BY <1>1, Resets, ZenonT(40)
<1>3. Len(c) = 1 /\ c[1].at \notin Ready
  <2>1. i[1] \in {"icw1", "picData"}
    OBVIOUS
  <2> QED BY <1>1, <2>1, GoesMain
<1>4. \A irq \in Hardwares : ~Servicing(p, irq)
  <2>1. \A j \in Levels(c) : Hand(c, j) = NoOwner
    BY <1>1, <1>3 DEF Levels, Nests
  <2> QED BY <1>1, <2>1, Distinct DEF Served
<1>5. Nests(d)
  BY <1>1, GoesNests
<1>6. Served(d, q)
  BY <1>1, <1>2, <1>4, GoesServed
<1>7. SetUp(d, q)
  <2>1. PICK s, t : s = <<p.base, p.icw2Pending>> /\ t = <<q.base, q.icw2Pending>>
    BY Zenon
  <2>2. s[1] = p.base
    BY <2>1
  <2>3. t = <<s[1], TRUE>> /\ i[1] # "picData"
    BY <1>2, <2>1, <2>2
  <2>4. /\ i[1] = "icw1" => t = <<s[1], TRUE>>
        /\ i[1] = "picData" => t = Set(s, i[2], i[3])
        /\ i[1] \notin {"icw1", "picData"} => t = s
    BY <2>3, Zenon
  <2> QED BY <1>1, <2>1, <2>4, GoesSetUp, ZenonT(30)
<1>8. Quiet(d, k)
  BY <1>1, GoesQuiet
<1>9. Told(d, k, q)
  BY <1>1, <1>3 DEF Quiet, Told, K!HeadInterrupts
<1> QED BY <1>1, <1>2, <1>5, <1>6, <1>7, <1>8, <1>9, Zenon DEF Kept

\* A byte to a data port of the controllers.
LEMMA GoesData ==
  ASSUME NEW c, NEW p, NEW k, Kept(c, p, k), NEW i, NEW d, Goes(c, i, d),
         i[1] = "picData", i[2] \in P!Chip, i[3] \in PicBytes,
         NEW q, q = P!DataWritten(p, i[2], i[3])
  PROVE  Kept(d, q, k)
<1>1. /\ Nests(c) /\ Wired(p) /\ Controller(k)
      /\ Served(c, p) /\ SetUp(c, p) /\ Quiet(c, k) /\ Told(c, k, p)
  BY Zenon DEF Kept
<1>2. /\ Wired(q) /\ <<q.base, q.icw2Pending>> = Set(<<p.base, p.icw2Pending>>, i[2], i[3])
      /\ \A other \in Hardwares : Servicing(q, other) <=> Servicing(p, other)
      /\ \A other \in Hardwares : Latched(q, other) <=> Latched(p, other)
  BY <1>1, SetsUp
<1>3. Nests(d)
  BY <1>1, GoesNests
<1>4. Served(d, q)
  BY <1>1, <1>2, GoesServed
<1>5. SetUp(d, q)
  <2>1. PICK s, t : s = <<p.base, p.icw2Pending>> /\ t = <<q.base, q.icw2Pending>>
    BY Zenon
  <2>2. t = Set(s, i[2], i[3])
    BY <1>2, <2>1, Zenon
  <2>3. i[1] # "icw1"
    OBVIOUS
  <2>4. /\ i[1] = "icw1" => t = <<s[1], TRUE>>
        /\ i[1] = "picData" => t = Set(s, i[2], i[3])
        /\ i[1] \notin {"icw1", "picData"} => t = s
    BY <2>2, <2>3, Zenon
  <2> QED BY <1>1, <2>1, <2>4, GoesSetUp, ZenonT(30)
<1>6. Quiet(d, k)
  BY <1>1, GoesQuiet
<1>7. Told(d, k, q)
  <2>1. KbdIrq \in Hardwares
    BY DEF Hardwares
  <2> QED BY <1>1, <1>2, <2>1, GoesUndrained DEF Told
<1> QED BY <1>1, <1>2, <1>3, <1>4, <1>5, <1>6, <1>7, Zenon DEF Kept

\* An EOI, by the handler it is owed by: the one that runs outranks all the others.
LEMMA GoesEoi ==
  ASSUME NEW c, NEW p, NEW k, Kept(c, p, k), NEW i, NEW d, Goes(c, i, d),
         i[1] = "eoi", NEW q, q = P!Eoi(p, i[2])
  PROVE  Kept(d, q, k)
<1> USE Locations
<1>1. /\ Nests(c) /\ Wired(p) /\ Controller(k)
      /\ Served(c, p) /\ SetUp(c, p) /\ Quiet(c, k) /\ Told(c, k, p)
  BY Zenon DEF Kept
<1>2. PICK n : n = Len(c)
  BY Zenon
<1> PICK irq : irq = OwnerOf[c[n].at]                    \* the line of the handler that runs
  BY Zenon
<1>3. /\ c[n].at \in Serving /\ d[n].at \notin Serving /\ i[2] = P!ChipOf(irq)
      /\ c[n].at \in Owned(KbdIrq) => c[n].at \in Drained
  BY <1>2, Zenon DEF Goes, Keeps, KeepsService
<1>4. /\ Nests(d) /\ Levels(d) = Levels(c) /\ n \in Levels(c)
      /\ \A j \in Levels(c) : Hand(d, j) = Hand(c, j)
      /\ \A j \in Levels(c) : j # n => d[j] = c[j]
  BY <1>1, <1>2, GoesNests
<1>5. irq \in Hardwares /\ Hand(c, n) = irq /\ c[n].at \in Location
  BY <1>2, <1>3 DEF Hand
<1>6. \A j \in Levels(c) : j # n /\ Hand(c, j) \in Hardwares => P!Rank(irq) < P!Rank(Hand(c, j))
  <2> SUFFICES ASSUME NEW j \in Levels(c), j # n, Hand(c, j) \in Hardwares
               PROVE  P!Rank(irq) < P!Rank(Hand(c, j))
    OBVIOUS
  <2>1. j < n
    <3>1. n \in Nat
      BY <1>1, <1>2, Outermost
    <3> QED BY <1>2, <3>1 DEF Levels
  <2>2. \A a, b \in Levels(c) :
          a < b => (Hand(c, a) \in Hardwares /\ Hand(c, b) \in Hardwares
                      => P!Rank(Hand(c, b)) < P!Rank(Hand(c, a)))
    BY <1>1, Zenon DEF Nests
  <2>3. P!Rank(Hand(c, n)) < P!Rank(Hand(c, j))
    BY <1>4, <1>5, <2>1, <2>2, Zenon
  <2> QED BY <1>5, <2>3, Zenon
<1>7. Servicing(p, irq)
  BY <1>1, <1>3, <1>4, <1>5, Zenon DEF Served
<1>8. \A other \in Hardwares : Servicing(p, other) => P!Rank(irq) <= P!Rank(other)
  <2> SUFFICES ASSUME NEW other \in Hardwares, Servicing(p, other)
               PROVE  P!Rank(irq) <= P!Rank(other)
    OBVIOUS
  <2>1. PICK j \in Levels(c) : Hand(c, j) = other
    BY <1>1 DEF Served
  <2>2. P!Rank(irq) \in Int /\ P!Rank(other) \in Int
    BY <1>5, Places DEF Hardwares
  <2>3. CASE j = n
    BY <1>5, <2>1, <2>2, <2>3
  <2>4. CASE j # n
    BY <1>6, <2>1, <2>2, <2>4
  <2> QED BY <2>3, <2>4
<1>9. /\ Wired(q) /\ q.base = p.base /\ q.icw2Pending = p.icw2Pending
      /\ \A other \in Hardwares : Servicing(q, other) <=> Servicing(p, other) /\ other # irq
      /\ \A other \in Hardwares : Latched(q, other) <=> Latched(p, other)
  <2>1. q = P!Eoi(p, P!ChipOf(irq))
    BY <1>3, Zenon
  <2> QED BY <1>1, <1>5, <1>7, <1>8, <2>1, Ends
<1>10. Served(d, q)
  <2> SUFFICES ASSUME NEW other \in Hardwares
               PROVE  Servicing(q, other) <=> \E j \in Levels(d) : Hand(d, j) = other /\ d[j].at \in Serving
    BY Zenon DEF Served
  <2>1. Servicing(p, other) <=> \E j \in Levels(c) : Hand(c, j) = other /\ c[j].at \in Serving
    BY <1>1, Zenon DEF Served
  <2>2. CASE other = irq
    <3>1. \A j \in Levels(c) : j # n => Hand(c, j) # irq
      <4>1. P!Rank(irq) \in Int
        BY <1>5, Places DEF Hardwares
      <4> QED BY <1>5, <1>6, <4>1
    <3>2. ~\E j \in Levels(d) : Hand(d, j) = other /\ d[j].at \in Serving
      <4> SUFFICES ASSUME NEW j \in Levels(d), Hand(d, j) = irq, d[j].at \in Serving
                   PROVE  FALSE
        BY <2>2, Zenon
      <4>1. j \in Levels(c) /\ Hand(c, j) = irq
        BY <1>4, Zenon
      <4>2. j # n
        BY <1>3
      <4> QED BY <3>1, <4>1, <4>2, Zenon
    <3> QED BY <1>9, <2>2, <3>2, Zenon
  <2>3. CASE other # irq
    <3>1. \A j \in Levels(c) : Hand(c, j) = other /\ c[j].at \in Serving
                               <=> Hand(d, j) = other /\ d[j].at \in Serving
      BY <1>4, <1>5, <2>3, Zenon
    <3> QED BY <1>4, <1>9, <2>1, <2>3, <3>1, Zenon
  <2> QED BY <2>2, <2>3
<1>11. SetUp(d, q)
  <2>1. PICK s, t : s = <<p.base, p.icw2Pending>> /\ t = <<q.base, q.icw2Pending>>
    BY Zenon
  <2>2. t = s /\ i[1] # "icw1" /\ i[1] # "picData"
    BY <1>9, <2>1
  <2>3. /\ i[1] = "icw1" => t = <<s[1], TRUE>>
        /\ i[1] = "picData" => t = Set(s, i[2], i[3])
        /\ i[1] \notin {"icw1", "picData"} => t = s
    BY <2>2, Zenon
  <2> QED BY <1>1, <2>1, <2>3, GoesSetUp, ZenonT(30)
<1>12. Quiet(d, k)
  BY <1>1, GoesQuiet
<1>13. Told(d, k, q)
  <2> SUFFICES ASSUME K!HeadInterrupts(k), ~k.irq1, ~Latched(q, KbdIrq)
               PROVE  Servicing(q, KbdIrq) /\ \A j \in Levels(d) : d[j].at \notin Drained
    BY Zenon DEF Told
  <2>1. KbdIrq \in Hardwares
    BY DEF Hardwares
  <2>2. Servicing(p, KbdIrq) /\ \A j \in Levels(c) : c[j].at \notin Drained
    BY <1>1, <1>9, <2>1, Zenon DEF Told
  <2>3. irq # KbdIrq
    BY <1>2, <1>3, <1>4, <1>5, <2>2
  <2>4. \A j \in Levels(d) : d[j].at \notin Drained
    BY <1>3, <1>4, <2>2, Zenon
  <2> QED BY <1>9, <2>1, <2>2, <2>3, <2>4, Zenon
<1> QED BY <1>1, <1>4, <1>9, <1>10, <1>11, <1>12, <1>13, Zenon DEF Kept

\* A byte to the keyboard, or one from it, settles its line.
LEMMA GoesKeyboard ==
  ASSUME Disciplined, NEW c, NEW p, NEW k, Kept(c, p, k), NEW i, NEW d, Goes(c, i, d), NEW l,
         \/ i[1] = "kbdWrite" /\ l = K!WriteData(k, i[2])
         \/ i[1] = "kbdRead" /\ l = K!ReadData(k)
  PROVE  Kept(d, p, l)
<1>1. /\ Nests(c) /\ Wired(p) /\ Controller(k)
      /\ Served(c, p) /\ SetUp(c, p) /\ Quiet(c, k) /\ Told(c, k, p)
  BY Zenon DEF Kept
<1>2. i[1] \notin {"icw1", "picData", "eoi"}
  OBVIOUS
<1>3. Nests(d)
  BY <1>1, GoesNests
<1>4. Served(d, p)
  BY <1>1, <1>2, GoesServed
<1>5. SetUp(d, p)
  <2>1. PICK s : s = <<p.base, p.icw2Pending>>
    BY Zenon
  <2> QED BY <1>1, <1>2, <2>1, GoesSetUp
<1>6. CASE i[1] = "kbdWrite" /\ l = K!WriteData(k, i[2])
  <2>1. c[1].at \in Ready
    <3>1. PICK n : n = Len(c)
      BY Zenon
    <3>2. c[n].at \in Ready \cup Handling
      BY <1>6, <3>1, Zenon DEF Goes, Keeps, KeepsSetup
    <3>3. n \in Nat /\ n \in Levels(c) /\ 1 \in Levels(c) /\ Hand(c, 1) = NoOwner /\ c[1].at \in Location
      BY <1>1, <3>1, Outermost
    <3>4. CASE n = 1
      BY <3>2, <3>3, <3>4, Distinct, Locations DEF Hand
    <3>5. CASE n # 1
      <4>1. 1 < n
        BY <3>3, <3>5 DEF Levels
      <4>2. Hand(c, n) # NoOwner
        BY <1>1, <3>1, <3>3, <4>1, Outermost
      <4>3. Hand(c, n) # Fault
        BY <3>2, <4>2, Locations, Distinct DEF Hand
      <4>4. c[1].iflag
        BY <1>1, <3>3, <4>1, <4>3, Zenon DEF Nests
      <4>5. c[1].at \notin Closed
        BY <1>1, <3>3, <4>4, Zenon DEF Nests
      <4>6. c[1].at \in Owned(NoOwner)
        BY <3>3, Locations DEF Hand
      <4> QED BY <4>5, <4>6 DEF Disciplined, Outlined
    <3> QED BY <3>4, <3>5
  <2>2. Settled(k, l)
    BY <1>1, <1>6, Written
  <2>3. Quiet(d, l)
    BY <1>1, <2>1, GoesQuiet
  <2>4. Told(d, l, p)
    <3>1. CASE l.irq1 <=> K!HeadInterrupts(l)
      BY <3>1, Zenon DEF Told
    <3>2. CASE l.out = k.out /\ l.ctr = k.ctr /\ l.irq1 = k.irq1
      <4>1. K!HeadInterrupts(l) = K!HeadInterrupts(k)
        BY <3>2, Zenon DEF K!HeadInterrupts
      <4>2. i[1] # "kbdRead"
        BY <1>6
      <4> QED BY <1>1, <3>2, <4>1, <4>2, GoesUndrained, Zenon DEF Told
    <3> QED BY <2>2, <3>1, <3>2, Zenon DEF Settled
  <2> QED BY <1>1, <1>3, <1>4, <1>5, <2>2, <2>3, <2>4, Zenon DEF Kept, Settled
<1>7. CASE i[1] = "kbdRead" /\ l = K!ReadData(k)
  <2>1. /\ Controller(l) /\ (l.irq1 <=> K!HeadInterrupts(l))
        /\ l.driverAttached = k.driverAttached /\ (k.out = <<>> => l.out = <<>>)
    BY <1>1, <1>7, Read
  <2>2. Quiet(d, l)
    BY <1>1, <2>1, GoesQuiet
  <2>3. Told(d, l, p)
    BY <2>1, Zenon DEF Told
  <2> QED BY <1>1, <1>3, <1>4, <1>5, <2>1, <2>2, <2>3, Zenon DEF Kept
<1> QED BY <1>6, <1>7

----------------------------------------------------------------------------
(* The devices, polled.                                                    *)

\* A request is latched, and nothing else (raise_irq).
LEMMA RaiseKept ==
  ASSUME NEW c, NEW p, NEW k, Kept(c, p, k), NEW irq \in Hardwares, NEW q, q = P!RaiseIrq(p, irq)
  PROVE  Kept(c, q, k)
<1>1. /\ Nests(c) /\ Wired(p) /\ Controller(k)
      /\ Served(c, p) /\ SetUp(c, p) /\ Quiet(c, k) /\ Told(c, k, p)
  BY Zenon DEF Kept
<1>2. /\ Wired(q) /\ q.base = p.base /\ q.icw2Pending = p.icw2Pending
      /\ \A other \in Hardwares : Servicing(q, other) <=> Servicing(p, other)
      /\ \A other \in Hardwares : Latched(q, other) <=> Latched(p, other) \/ other = irq
  BY <1>1, Raised
<1>3. Served(c, q) /\ SetUp(c, q)
  BY <1>1, <1>2, Zenon DEF Served, SetUp
<1>4. KbdIrq \in Hardwares
  BY DEF Hardwares
<1>5. Told(c, k, q)
  BY <1>1, <1>2, <1>4, Zenon DEF Told
<1> QED BY <1>1, <1>2, <1>3, <1>5, Zenon DEF Kept

\* A key is typed, to a driver.
LEMMA TypedKept ==
  ASSUME NEW c, NEW p, NEW k, Kept(c, p, k), k.driverAttached, NEW l, l = K!PushScancode(k, "key")
  PROVE  Kept(c, p, l)
<1>1. /\ Nests(c) /\ Wired(p) /\ Controller(k)
      /\ Served(c, p) /\ SetUp(c, p) /\ Quiet(c, k) /\ Told(c, k, p)
  BY Zenon DEF Kept
<1>2. Settled(k, l)
  BY <1>1, Typed
<1>3. Quiet(c, l)
  BY <1>1, Zenon DEF Quiet
<1>4. Told(c, l, p)
  <2>1. CASE l.irq1 <=> K!HeadInterrupts(l)
    BY <2>1, Zenon DEF Told
  <2>2. CASE l.out = k.out /\ l.ctr = k.ctr /\ l.irq1 = k.irq1
    <3>1. K!HeadInterrupts(l) = K!HeadInterrupts(k)
      BY <2>2, Zenon DEF K!HeadInterrupts
    <3> QED BY <1>1, <2>2, <3>1, Zenon DEF Told
  <2> QED BY <1>2, <2>1, <2>2, Zenon DEF Settled
<1> QED BY <1>1, <1>2, <1>3, <1>4, Zenon DEF Kept, Settled

\* The keyboard's edge is taken, and its request latched for it.
LEMMA TakenKept ==
  ASSUME NEW c, NEW p, NEW k, Kept(c, p, k), NEW l, l = K!TakeIrq1(k),
         NEW q, k.irq1 => q = P!RaiseIrq(p, KbdIrq), ~k.irq1 => q = p
  PROVE  Kept(c, q, l)
<1>1. /\ Controller(l) /\ l.out = k.out /\ l.ctr = k.ctr /\ l.driverAttached = k.driverAttached
  BY DEF Kept, Controller, K!TakeIrq1
<1>2. K!HeadInterrupts(l) = K!HeadInterrupts(k)
  BY <1>1, Zenon DEF K!HeadInterrupts
<1>3. KbdIrq \in Hardwares
  BY DEF Hardwares
<1>4. Kept(c, q, k)
  BY <1>3, RaiseKept
<1>5. Told(c, l, q)
  <2>1. CASE k.irq1
    <3>1. Wired(p)
      BY Zenon DEF Kept
    <3>2. Latched(q, KbdIrq)
      BY <1>3, <2>1, <3>1, Raised
    <3> QED BY <3>2, Zenon DEF Told
  <2>2. CASE ~k.irq1
    BY <1>2, <1>4, <2>2, Zenon DEF Kept, Told
  <2> QED BY <2>1, <2>2
<1>6. Quiet(c, l)
  BY <1>1, <1>4, Zenon DEF Kept, Quiet
<1> QED BY <1>1, <1>4, <1>5, <1>6, Zenon DEF Kept

----------------------------------------------------------------------------
(* The machine.                                                            *)

\* A record with the fields of a machine.
Fields(x) ==
  x = [ pic |-> x.pic, kbd |-> x.kbd, pit |-> x.pit, virtio |-> x.virtio,
        script |-> x.script, gap |-> x.gap, phase |-> x.phase, iflag |-> x.iflag,
        halted |-> x.halted, fault |-> x.fault, at |-> x.at, stack |-> x.stack ]

\* With frames on its stack.
Shaped(x) == Fields(x) /\ x.stack \in Seq(Frame) /\ x.iflag \in BOOLEAN /\ x.at \in Location

Held(x) == Shaped(x) /\ Kept(Contexts(x), x.pic, x.kbd)

\* What leaves the contexts alone.
Same(x, y) == Shaped(y) /\ y.stack = x.stack /\ y.iflag = x.iflag /\ y.at = x.at

LEMMA SameHeld ==
  ASSUME NEW x, Held(x), NEW y, Same(x, y), Kept(Contexts(x), y.pic, y.kbd)
  PROVE  Held(y)
<1>1. Contexts(y) = Contexts(x)
  BY Zenon DEF Same, Contexts
<1> QED BY <1>1, Zenon DEF Held, Same

\* A raised request keeps the machine.
LEMMA RaiseIfHeld ==
  ASSUME NEW x, Held(x), NEW b, NEW irq \in Hardwares, NEW y, y = RaiseIf(x, b, irq)
  PROVE  Held(y)
<1>1. CASE b
  <2>1. PICK q : q = P!RaiseIrq(x.pic, irq)
    BY Zenon
  <2>2. y = [x EXCEPT !.pic = q]
    BY <1>1, <2>1, Zenon DEF RaiseIf
  <2>3. Same(x, y) /\ y.pic = q /\ y.kbd = x.kbd
    BY <2>2 DEF Held, Same, Shaped, Fields
  <2>4. Kept(Contexts(x), q, x.kbd)
    BY <2>1, RaiseKept, Zenon DEF Held
  <2> QED BY <2>3, <2>4, SameHeld
<1>2. CASE ~b
  BY <1>2, Zenon DEF RaiseIf
<1> QED BY <1>1, <1>2

\* The devices, one by one (deliver_hardware_interrupt).
LEMMA PolledHeld ==
  ASSUME NEW x, Held(x), NEW y, y = Polled(x)
  PROVE  Held(y)
<1> Hardwares = {TimerIrq, KbdIrq, DiskIrq}
  BY DEF Hardwares
<1>1. PICK a : a = TimerPolled(x)
  BY Zenon
<1>2. PICK b : b = KeyTyped(a)
  BY Zenon
<1>3. PICK d : d = KbdPolled(b)
  BY Zenon
<1>4. y = DiskPolled(d)
  BY <1>1, <1>2, <1>3, Zenon DEF Polled
<1>5. Held(a)
  <2>1. PICK t, u : t = T!Tick(x.pit, Clocks) /\ u = T!TakeIrq0(t)
    BY Zenon
  <2>2. PICK z : z = [x EXCEPT !.pit = u]
    BY Zenon
  <2>3. a = RaiseIf(z, t.irq0, TimerIrq)
    BY <1>1, <2>1, <2>2, Zenon DEF TimerPolled
  <2>4. Same(x, z) /\ z.pic = x.pic /\ z.kbd = x.kbd
    BY <2>2 DEF Held, Same, Shaped, Fields
  <2>5. Held(z)
    BY <2>4, SameHeld DEF Held
  <2> QED BY <2>3, <2>5, RaiseIfHeld
<1>6. Held(b)
  <2>1. CASE a.script > 0 /\ a.kbd.driverAttached /\ K!Idle(a.kbd) /\ a.gap = 0
    <3>1. PICK l : l = K!PushScancode(a.kbd, "key")
      BY Zenon
    <3>2. b = [a EXCEPT !.script = @ - 1, !.kbd = l, !.gap = KeyInterval]
      BY <1>2, <2>1, <3>1, Zenon DEF KeyTyped
    <3>3. Same(a, b) /\ b.pic = a.pic /\ b.kbd = l
      BY <1>5, <3>2 DEF Held, Same, Shaped, Fields
    <3>4. Kept(Contexts(a), a.pic, l)
      BY <1>5, <2>1, <3>1, TypedKept, Zenon DEF Held
    <3> QED BY <1>5, <3>3, <3>4, SameHeld
  <2>2. CASE ~(a.script > 0 /\ a.kbd.driverAttached /\ K!Idle(a.kbd) /\ a.gap = 0)
    BY <1>2, <1>5, <2>2, Zenon DEF KeyTyped
  <2> QED BY <2>1, <2>2
<1>7. Held(d)
  <2>1. PICK l : l = K!TakeIrq1(b.kbd)
    BY Zenon
  <2>2. PICK z : z = [b EXCEPT !.kbd = l]
    BY Zenon
  <2>3. Same(b, z) /\ z.pic = b.pic /\ z.kbd = l
    BY <1>6, <2>2 DEF Held, Same, Shaped, Fields
  <2>4. PICK q : q = IF b.kbd.irq1 THEN P!RaiseIrq(b.pic, KbdIrq) ELSE b.pic
    BY Zenon
  <2>5. d = IF b.kbd.irq1 THEN [z EXCEPT !.pic = P!RaiseIrq(b.pic, KbdIrq)] ELSE z
    <3>1. d = IF b.kbd.irq1 THEN [z EXCEPT !.pic = P!RaiseIrq(z.pic, KbdIrq)] ELSE z
      BY <1>3, <2>1, <2>2, Zenon DEF KbdPolled, RaiseIf
    <3> QED BY <2>3, <3>1, Zenon
  <2>6. d = IF b.kbd.irq1 THEN [z EXCEPT !.pic = q] ELSE z
    BY <2>4, <2>5, Zenon
  <2>7. Same(b, d) /\ d.pic = q /\ d.kbd = l
    BY <2>3, <2>4, <2>6 DEF Same, Shaped, Fields
  <2>8. Kept(Contexts(b), q, l)
    BY <1>6, <2>1, <2>4, TakenKept, Zenon DEF Held
  <2> QED BY <1>6, <2>7, <2>8, SameHeld
<1> QED BY <1>4, <1>7, RaiseIfHeld, Zenon DEF DiskPolled

\* A handler is entered: the running context goes to the stack.
LEMMA EnteredContexts ==
  ASSUME NEW x, Shaped(x), NEW v, NEW f, f = [iflag |-> FALSE, at |-> Entry[v]], f \in Frame,
         NEW y, y = Entered(x, v)
  PROVE  /\ Shaped(y) /\ Contexts(y) = Append(Contexts(x), f)
         /\ y.pic = x.pic /\ y.kbd = x.kbd
<1>1. PICK g : g = [iflag |-> x.iflag, at |-> x.at]
  BY Zenon
<1>2. PICK s : s = Append(x.stack, g)
  BY Zenon
<1>3. PICK l : l = Entry[v]
  BY Zenon
<1>4. y = [x EXCEPT !.stack = s, !.iflag = FALSE, !.at = l]
  BY <1>1, <1>2, <1>3, Zenon DEF Entered
<1>5. g \in Frame /\ l \in Location
  BY <1>1, <1>3 DEF Shaped, Fields, Frame
<1>6. s \in Seq(Frame)
  BY <1>2, <1>5 DEF Shaped, Fields
<1>7. /\ y.stack = s /\ y.iflag = FALSE /\ y.at = l /\ Shaped(y)
      /\ y.pic = x.pic /\ y.kbd = x.kbd
  BY <1>4, <1>5, <1>6 DEF Shaped, Fields
<1>8. Contexts(y) = Append(s, f)
  <2>1. f = [iflag |-> FALSE, at |-> l]
    BY <1>3, Zenon
  <2> QED BY <1>7, <2>1, Zenon DEF Contexts
<1>9. Contexts(x) = s
  BY <1>1, <1>2, Zenon DEF Contexts
<1> QED BY <1>7, <1>8, <1>9, Zenon

\* The interrupt that is taken (deliver_hardware_interrupt).
LEMMA InterruptedHeld ==
  ASSUME Disciplined, NEW x, Held(x), NEW y, y = Interrupted(x)
  PROVE  Held(y)
<1>1. CASE Taken(x) = {}
  BY <1>1, Zenon DEF Interrupted
<1>2. CASE Taken(x) # {}
  <2>1. PICK irq : irq = CHOOSE i \in Taken(x) : TRUE
    BY Zenon
  <2>2. irq \in Taken(x)
    BY <1>2, <2>1, Zenon
  <2>3. x.iflag /\ irq \in P!NextIrq(x.pic)
    BY <2>2 DEF Taken
  <2>4. PICK q, v : q = P!Acknowledged(x.pic, irq) /\ v = P!Vector(x.pic, irq)
    BY Zenon
  <2>5. PICK z : z = [x EXCEPT !.pic = q]
    BY Zenon
  <2>6. y = Entered(z, v)
    BY <1>2, <2>1, <2>4, <2>5, Zenon DEF Interrupted
  <2>7. Same(x, z) /\ z.pic = q /\ z.kbd = x.kbd
    BY <2>5 DEF Held, Same, Shaped, Fields
  <2>8. PICK c : c = Contexts(x)
    BY Zenon
  <2>9. Contexts(z) = c /\ Kept(c, x.pic, x.kbd)
    BY <2>7, <2>8, Zenon DEF Same, Contexts, Held
  <2>10. c[Len(c)].iflag
    <3>1. PICK f : f = [iflag |-> x.iflag, at |-> x.at]
      BY Zenon
    <3>2. f \in Frame /\ f.iflag = x.iflag /\ x.stack \in Seq(Frame)
      BY <3>1 DEF Held, Shaped, Fields, Frame
    <3>3. c = Append(x.stack, f)
      BY <2>8, <3>1, Zenon DEF Contexts
    <3>4. c[Len(c)] = f
      BY <3>2, <3>3
    <3> QED BY <2>3, <3>2, <3>4
  <2>11. PICK f : f = [iflag |-> FALSE, at |-> Entry[v]]
    BY Zenon
  <2>12. Kept(Append(c, f), q, x.kbd)
    BY <2>3, <2>4, <2>9, <2>10, <2>11, Interrupts, Zenon
  <2>13. f \in Frame
    <3>1. PICK d : d = Append(c, f)
      BY Zenon
    <3>2. d \in Seq(Frame) /\ c \in Seq(Frame) /\ d[Len(d)] = f /\ Len(d) > 0
      <4>1. d \in Seq(Frame) /\ c \in Seq(Frame)
        BY <2>9, <2>12, <3>1, Zenon DEF Kept, Nests
      <4>2. Len(d) = Len(c) + 1 /\ d[Len(c) + 1] = f
        BY <3>1, <4>1
      <4> QED BY <4>1, <4>2
    <3> QED BY <3>2
  <2>14. Shaped(y) /\ Contexts(y) = Append(c, f) /\ y.pic = q /\ y.kbd = x.kbd
    <3>1. Shaped(z)
      BY <2>7, Zenon DEF Same
    <3>2. /\ Shaped(y) /\ Contexts(y) = Append(Contexts(z), f)
          /\ y.pic = z.pic /\ y.kbd = z.kbd
      BY <2>6, <2>11, <2>13, <3>1, EnteredContexts
    <3> QED BY <2>7, <2>9, <3>2, Zenon
  <2> QED BY <2>12, <2>14, Zenon DEF Held
<1> QED BY <1>1, <1>2

\* The devices looked at, and the interrupt taken, at the boundaries of the interval.
LEMMA DeliveredHeld ==
  ASSUME Disciplined, NEW x, Held(x), NEW y, y = Delivered(x)
  PROVE  Held(y)
<1>1. CASE x.phase = 0
  <2>1. PICK z : z = Polled(x)
    BY Zenon
  <2>2. y = Interrupted(z)
    BY <1>1, <2>1, Zenon DEF Delivered
  <2> QED BY <2>1, <2>2, PolledHeld, InterruptedHeld
<1>2. CASE x.phase # 0
  BY <1>2, Zenon DEF Delivered
<1> QED BY <1>1, <1>2

\* What a step begins with: a pending fault's handler, or the devices.
LEMMA DispatchedHeld ==
  ASSUME Disciplined, NEW x, Held(x), NEW y, y = Dispatched(x)
  PROVE  Held(y)
<1>1. CASE x.fault
  <2>1. PICK z : z = [x EXCEPT !.fault = FALSE]
    BY Zenon
  <2>2. y = Entered(z, Fault)
    BY <1>1, <2>1, Zenon DEF Dispatched
  <2>3. Same(x, z) /\ z.pic = x.pic /\ z.kbd = x.kbd
    BY <2>1 DEF Held, Same, Shaped, Fields
  <2>4. Held(z)
    BY <2>3, SameHeld DEF Held
  <2>5. PICK f : f = [iflag |-> FALSE, at |-> Entry[Fault]]
    BY Zenon
  <2>6. f \in Frame
    <3>1. Entry[Fault] \in Location
      BY Locations, Zenon DEF Disciplined, Outlined
    <3>2. PICK l : l = Entry[Fault]
      BY Zenon
    <3>3. f = [iflag |-> FALSE, at |-> l] /\ l \in Location
      BY <2>5, <3>1, <3>2, Zenon
    <3> QED BY <3>3 DEF Frame
  <2>7. /\ Shaped(y) /\ Contexts(y) = Append(Contexts(z), f)
        /\ y.pic = z.pic /\ y.kbd = z.kbd
    BY <2>2, <2>4, <2>5, <2>6, EnteredContexts DEF Held
  <2>8. Kept(Append(Contexts(z), f), z.pic, z.kbd)
    BY <2>4, <2>5, FaultEnters, Zenon DEF Held
  <2> QED BY <2>7, <2>8, Zenon DEF Held
<1>2. CASE ~x.fault
  BY <1>2, DeliveredHeld, Zenon DEF Dispatched
<1> QED BY <1>1, <1>2

\* The names of the instructions, and the operands the controllers take.
LEMMA Names ==
  ASSUME NEW i \in Instruction
  PROVE  /\ i[1] \in {"nop", "hlt", "sti", "cli", "fault", "iret", "icw1", "picData", "eoi", "kbdWrite",
                      "kbdRead", "pitControl", "pitWrite", "diskNotify", "diskIsr"}
         /\ i[1] = "fault" => i = <<"fault">>
         /\ i[1] \in {"icw1", "picData"} => i[2] \in P!Chip
         /\ i[1] = "picData" => i[3] \in PicBytes
BY DEF Instruction

\* An instruction of the program names locations, and keeps the outline.
LEMMA Text ==
  ASSUME NEW l, NEW i, NEW n, <<l, i, n>> \in Program
  PROVE  /\ l \in Location /\ i \in Instruction /\ n \in Location
         /\ i = <<"fault">> => n = l
         /\ Disciplined => Keeps(l, i, n)
<1>1. PICK t \in Program : t = <<l, i, n>>
  OBVIOUS
<1>2. t[1] = l /\ t[2] = i /\ t[3] = n
  BY <1>1
<1>3. l \in Location /\ i \in Instruction /\ n \in Location
  BY <1>1, ProgramAssumption
<1>4. i = <<"fault">> => n = l
  BY <1>1, <1>2, ProgramAssumption, Zenon
<1>5. Disciplined => Keeps(t[1], t[2], t[3])
  BY <1>1, Zenon DEF Disciplined
<1> QED BY <1>2, <1>3, <1>4, <1>5, Zenon

\* The running context, on top of the stack, goes on.
LEMMA Moves ==
  ASSUME NEW x, Shaped(x), NEW y, Shaped(y), y.stack = x.stack,
         NEW i, i[1] # "iret", Keeps(x.at, i, y.at),
         i[1] = "cli" => ~y.iflag, i[1] \notin {"cli", "sti"} => y.iflag = x.iflag
  PROVE  Goes(Contexts(x), i, Contexts(y))
<1>1. PICK s : s = x.stack
  BY Zenon
<1>2. PICK f, g : f = [iflag |-> x.iflag, at |-> x.at] /\ g = [iflag |-> y.iflag, at |-> y.at]
  BY Zenon
<1>3. PICK c, d : c = Append(s, f) /\ d = Append(s, g)
  BY Zenon
<1>4. f \in Frame /\ g \in Frame /\ s \in Seq(Frame)
  BY <1>1, <1>2 DEF Shaped, Fields, Frame
<1>5. f.at = x.at /\ f.iflag = x.iflag /\ g.at = y.at /\ g.iflag = y.iflag
  BY <1>2
<1>6. c = Contexts(x) /\ d = Contexts(y)
  BY <1>1, <1>2, <1>3, Zenon DEF Contexts
<1>7. /\ d \in Seq(Frame) /\ Len(d) = Len(c) /\ c[Len(c)] = f /\ d[Len(c)] = g
      /\ \A j \in Levels(c) : j # Len(c) => d[j] = c[j]
  BY <1>3, <1>4 DEF Levels
<1>8. Goes(c, i, d)
  BY <1>5, <1>7, Zenon DEF Goes
<1> QED BY <1>6, <1>8, Zenon

\* A return takes the running context away.
LEMMA IretHeld ==
  ASSUME Disciplined, NEW x, Held(x), x.stack # <<>>, NEW i, i[1] = "iret",
         NEW n, <<x.at, i, n>> \in Program, NEW y, y = Execute(x, i, n)
  PROVE  Held(y)
<1>1. PICK s, u : s = x.stack /\ u = Len(s)
  BY Zenon
<1>2. PICK f : f = [iflag |-> x.iflag, at |-> x.at]
  BY Zenon
<1>3. /\ s \in Seq(Frame) /\ u \in Nat /\ u > 0 /\ f \in Frame /\ f.at = x.at /\ s[u] \in Frame
  <2>1. s \in Seq(Frame) /\ s # <<>> /\ f \in Frame /\ f.at = x.at
    BY <1>1, <1>2 DEF Held, Shaped, Fields, Frame
  <2>2. u \in Nat /\ u > 0
    BY <1>1, <2>1
  <2> QED BY <1>1, <2>1, <2>2
<1>4. PICK top, r : top = s[u] /\ r = SubSeq(s, 1, u - 1)
  BY Zenon
<1>5. y = [x EXCEPT !.iflag = top.iflag, !.at = top.at, !.stack = r]
  <2>1. y = [x EXCEPT !.iflag = x.stack[Len(x.stack)].iflag, !.at = x.stack[Len(x.stack)].at,
                      !.stack = SubSeq(x.stack, 1, Len(x.stack) - 1)]
    BY DEF Execute, Held, Shaped, Fields
  <2> QED BY <1>1, <1>4, <2>1, Zenon
<1>6. top \in Frame /\ r \in Seq(Frame) /\ Append(r, top) = s
  BY <1>1, <1>3, <1>4
<1>7. /\ Shaped(y) /\ y.stack = r /\ y.iflag = top.iflag /\ y.at = top.at
      /\ y.pic = x.pic /\ y.kbd = x.kbd
  BY <1>5, <1>6 DEF Held, Shaped, Fields, Frame
<1>8. Contexts(y) = s
  <2>1. top = [iflag |-> top.iflag, at |-> top.at]
    BY <1>6 DEF Frame
  <2> QED BY <1>6, <1>7, <2>1, Zenon DEF Contexts
<1>9. PICK c : c = Contexts(x)
  BY Zenon
<1>10. c = Append(s, f) /\ Kept(c, x.pic, x.kbd)
  BY <1>1, <1>2, <1>9, Zenon DEF Contexts, Held
<1>11. Grown(s, f, c)
  <2>1. /\ c \in Seq(Frame) /\ Len(c) = u + 1 /\ Len(c) \in Levels(c) /\ Len(c) > 1 /\ c[Len(c)] = f
        /\ 1 \in Levels(s)
        /\ \A j \in Levels(s) : j \in Levels(c) /\ j < Len(c) /\ c[j] = s[j]
        /\ \A j \in Levels(c) : j \in Levels(s) \/ j = Len(c)
    BY <1>1, <1>3, <1>10 DEF Levels
  <2>2. \A j \in Levels(s) : Hand(c, j) = Hand(s, j)
    BY <2>1, Zenon DEF Hand
  <2> QED BY <1>1, <1>3, <2>1, <2>2, Zenon DEF Grown
<1>12. f.at \notin Serving
  <2>1. Keeps(x.at, i, n)
    BY Text
  <2> QED BY <1>3, <2>1 DEF Keeps
<1>13. Kept(s, x.pic, x.kbd)
  BY <1>3, <1>10, <1>11, <1>12, Returns
<1> QED BY <1>7, <1>8, <1>13, Zenon DEF Held

\* Every instruction keeps the machine.
LEMMA ExecuteHeld ==
  ASSUME Disciplined, NEW x, Held(x), NEW i, NEW n, <<x.at, i, n>> \in Program,
         i[1] = "iret" => x.stack # <<>>, NEW y, y = Execute(x, i, n)
  PROVE  Held(y)
<1>1. i \in Instruction /\ n \in Location /\ Keeps(x.at, i, n)
  BY Text
<1>2. PICK z : z = [x EXCEPT !.at = n]
  BY Zenon
<1>3. /\ Shaped(x) /\ Shaped(z) /\ z.at = n /\ z.stack = x.stack /\ z.iflag = x.iflag
      /\ z.pic = x.pic /\ z.kbd = x.kbd
  BY <1>1, <1>2 DEF Held, Shaped, Fields
<1>4. Kept(Contexts(x), x.pic, x.kbd)
  BY Zenon DEF Held
<1>5. CASE i[1] = "fault"
  <2>1. y = [x EXCEPT !.fault = TRUE]
    BY <1>5 DEF Execute
  <2>2. Same(x, y) /\ y.pic = x.pic /\ y.kbd = x.kbd
    BY <1>3, <2>1 DEF Same, Shaped, Fields
  <2> QED BY <1>4, <2>2, SameHeld
<1>6. CASE i[1] = "iret"
  BY <1>6, IretHeld
<1>7. CASE i[1] \in {"nop", "hlt", "sti", "cli", "pitControl", "pitWrite", "diskNotify", "diskIsr"}
  <2>1. /\ Shaped(y) /\ y.stack = x.stack /\ y.at = n /\ y.pic = x.pic /\ y.kbd = x.kbd
        /\ i[1] = "cli" => ~y.iflag
        /\ i[1] \notin {"cli", "sti"} => y.iflag = x.iflag
    <3>1. CASE i[1] = "nop"
      <4>1. y = z
        BY <1>2, <3>1 DEF Execute
      <4> QED BY <1>3, <3>1, <4>1
    <3>2. CASE i[1] = "hlt"
      <4>1. y = [z EXCEPT !.halted = TRUE]
        BY <1>2, <3>2 DEF Execute
      <4> QED BY <1>3, <3>2, <4>1 DEF Shaped, Fields
    <3>3. CASE i[1] = "sti"
      <4>1. y = [z EXCEPT !.iflag = TRUE]
        BY <1>2, <3>3 DEF Execute
      <4> QED BY <1>3, <3>3, <4>1 DEF Shaped, Fields
    <3>4. CASE i[1] = "cli"
      <4>1. y = [z EXCEPT !.iflag = FALSE]
        BY <1>2, <3>4 DEF Execute
      <4> QED BY <1>3, <3>4, <4>1 DEF Shaped, Fields
    <3>5. CASE i[1] \in {"pitControl", "pitWrite"}
      <4>1. \E t : y = [z EXCEPT !.pit = t]
        BY <1>2, <3>5 DEF Execute
      <4> QED BY <1>3, <3>5, <4>1 DEF Shaped, Fields
    <3>6. CASE i[1] \in {"diskNotify", "diskIsr"}
      <4>1. \E t : y = [z EXCEPT !.virtio = t]
        BY <1>2, <3>6 DEF Execute
      <4> QED BY <1>3, <3>6, <4>1 DEF Shaped, Fields
    <3> QED BY <1>7, <3>1, <3>2, <3>3, <3>4, <3>5, <3>6
  <2>2. Goes(Contexts(x), i, Contexts(y))
    BY <1>1, <1>3, <1>7, <2>1, Moves
  <2>3. i[1] \notin {"icw1", "picData", "eoi", "kbdWrite", "kbdRead"}
    BY <1>7
  <2>4. Kept(Contexts(y), x.pic, x.kbd)
    BY <1>4, <2>2, <2>3, Plain
  <2> QED BY <2>1, <2>4, Zenon DEF Held
<1>8. CASE i[1] \in {"icw1", "picData", "eoi"}
  <2>1. PICK q : q = CASE i[1] = "icw1"    -> P!Icw1(x.pic, i[2])
                       [] i[1] = "picData" -> P!DataWritten(x.pic, i[2], i[3])
                       [] i[1] = "eoi"     -> P!Eoi(x.pic, i[2])
    BY Zenon
  <2>2. y = [z EXCEPT !.pic = q]
    <3>1. CASE i[1] = "icw1"
      <4>1. y = [z EXCEPT !.pic = P!Icw1(z.pic, i[2])]
        BY <1>2, <3>1 DEF Execute
      <4>2. q = P!Icw1(x.pic, i[2])
        BY <2>1, <3>1
      <4> QED BY <1>3, <4>1, <4>2, Zenon
    <3>2. CASE i[1] = "picData"
      <4>1. y = [z EXCEPT !.pic = P!DataWritten(z.pic, i[2], i[3])]
        BY <1>2, <3>2 DEF Execute
      <4>2. q = P!DataWritten(x.pic, i[2], i[3])
        BY <2>1, <3>2
      <4> QED BY <1>3, <4>1, <4>2, Zenon
    <3>3. CASE i[1] = "eoi"
      <4>1. y = [z EXCEPT !.pic = P!Eoi(z.pic, i[2])]
        BY <1>2, <3>3 DEF Execute
      <4>2. q = P!Eoi(x.pic, i[2])
        BY <2>1, <3>3
      <4> QED BY <1>3, <4>1, <4>2, Zenon
    <3> QED BY <1>8, <3>1, <3>2, <3>3
  <2>3. /\ Shaped(y) /\ y.stack = x.stack /\ y.at = n /\ y.iflag = x.iflag
        /\ y.pic = q /\ y.kbd = x.kbd
    BY <1>3, <2>2 DEF Shaped, Fields
  <2>4. Goes(Contexts(x), i, Contexts(y))
    BY <1>1, <1>3, <1>8, <2>3, Moves
  <2>5. Kept(Contexts(y), q, x.kbd)
    <3>1. CASE i[1] = "icw1"
      <4>1. q = P!Icw1(x.pic, i[2]) /\ i[2] \in P!Chip
        BY <1>1, <2>1, <3>1, Names
      <4> QED BY <1>4, <2>4, <3>1, <4>1, GoesIcw1
    <3>2. CASE i[1] = "picData"
      <4>1. q = P!DataWritten(x.pic, i[2], i[3]) /\ i[2] \in P!Chip /\ i[3] \in PicBytes
        BY <1>1, <2>1, <3>2, Names
      <4> QED BY <1>4, <2>4, <3>2, <4>1, GoesData
    <3>3. CASE i[1] = "eoi"
      <4>1. q = P!Eoi(x.pic, i[2])
        BY <2>1, <3>3
      <4> QED BY <1>4, <2>4, <3>3, <4>1, GoesEoi
    <3> QED BY <1>8, <3>1, <3>2, <3>3
  <2> QED BY <2>3, <2>5, Zenon DEF Held
<1>9. CASE i[1] \in {"kbdWrite", "kbdRead"}
  <2>1. PICK l : l = IF i[1] = "kbdWrite" THEN K!WriteData(x.kbd, i[2]) ELSE K!ReadData(x.kbd)
    BY Zenon
  <2>2. y = [z EXCEPT !.kbd = l]
    <3>1. CASE i[1] = "kbdWrite"
      <4>1. y = [z EXCEPT !.kbd = K!WriteData(z.kbd, i[2])]
        BY <1>2, <3>1 DEF Execute
      <4> QED BY <1>3, <2>1, <3>1, <4>1, Zenon
    <3>2. CASE i[1] = "kbdRead"
      <4>1. y = [z EXCEPT !.kbd = K!ReadData(z.kbd)]
        BY <1>2, <3>2 DEF Execute
      <4>2. l = K!ReadData(x.kbd)
        BY <2>1, <3>2
      <4> QED BY <1>3, <4>1, <4>2, Zenon
    <3> QED BY <1>9, <3>1, <3>2
  <2>3. /\ Shaped(y) /\ y.stack = x.stack /\ y.at = n /\ y.iflag = x.iflag
        /\ y.pic = x.pic /\ y.kbd = l
    BY <1>3, <2>2 DEF Shaped, Fields
  <2>4. Goes(Contexts(x), i, Contexts(y))
    BY <1>1, <1>3, <1>9, <2>3, Moves
  <2>5. Kept(Contexts(y), x.pic, l)
    <3>1. \/ i[1] = "kbdWrite" /\ l = K!WriteData(x.kbd, i[2])
          \/ i[1] = "kbdRead" /\ l = K!ReadData(x.kbd)
      BY <1>9, <2>1
    <3> QED BY <1>4, <2>4, <3>1, GoesKeyboard
  <2> QED BY <2>3, <2>5, Zenon DEF Held
<1> QED BY <1>1, <1>5, <1>6, <1>7, <1>8, <1>9, Names

\* Counting an instruction keeps the machine.
LEMMA CountedHeld ==
  ASSUME NEW x, Held(x), NEW y, y = Counted(x)
  PROVE  Held(y)
<1>1. PICK a, b : a = (x.phase + 1) % Interval /\ b = IF x.gap > 0 THEN x.gap - 1 ELSE 0
  BY Zenon
<1>2. y = [x EXCEPT !.phase = a, !.gap = b]
  BY <1>1, Zenon DEF Counted
<1>3. Same(x, y) /\ y.pic = x.pic /\ y.kbd = x.kbd
  BY <1>2 DEF Held, Same, Shaped, Fields
<1> QED BY <1>3, SameHeld DEF Held

----------------------------------------------------------------------------
(* The theorems for a guest that keeps the discipline.                     *)

IInv == Held(m)

\* The machine starts in the main program, the controllers as they come out of reset.
LEMMA InitHeld == Disciplined /\ Init => IInv
<1> SUFFICES ASSUME Disciplined, Init  PROVE Held(m)
  BY DEF IInv
<1> USE Locations, Distinct
<1>1. Start \in Location /\ OwnerOf[Start] = NoOwner /\ <<P!New.base, FALSE>> \in Awaits[Start]
      /\ (Start \in Closed \/ Start \in Ready) /\ Start \notin Serving
  <2>1. Start \in Owned(NoOwner) /\ Owned(NoOwner) \subseteq Closed \cup Ready
        /\ <<P!New.base, FALSE>> \in Awaits[Start]
    BY Zenon DEF Disciplined, Outlined
  <2> QED BY <2>1
<1>2. /\ Fields(m) /\ m.pic = P!New /\ m.kbd = K!New /\ m.iflag = FALSE /\ m.at = Start
      /\ m.stack = <<>>
  <2>1. PICK a, b, e : a = P!New /\ b = K!New /\ e = T!New
    BY Zenon
  <2>2. m = [ pic |-> a, kbd |-> b, pit |-> e, virtio |-> FALSE, script |-> Script, gap |-> 0,
              phase |-> 0, iflag |-> FALSE, halted |-> FALSE, fault |-> FALSE, at |-> Start,
              stack |-> <<>> ]
    BY <2>1, Zenon DEF Init, New
  <2>3. /\ Fields(m) /\ m.pic = a /\ m.kbd = b /\ m.iflag = FALSE /\ m.at = Start
        /\ m.stack = <<>>
    BY <2>2 DEF Fields
  <2> QED BY <2>1, <2>3, Zenon
<1>3. Shaped(m)
  <2>1. <<>> \in Seq(Frame) /\ FALSE \in BOOLEAN
    OBVIOUS
  <2> QED BY <1>1, <1>2, <2>1, Zenon DEF Shaped
<1>4. PICK f, c : f = [iflag |-> FALSE, at |-> Start] /\ c = Append(<<>>, f)
  BY Zenon
<1>5. Contexts(m) = c
  BY <1>2, <1>4, Zenon DEF Contexts
<1>6. f \in Frame /\ f.at = Start /\ f.iflag = FALSE
  BY <1>1, <1>4 DEF Frame
<1>7. c \in Seq(Frame) /\ Len(c) = 1 /\ c[1] = f /\ Levels(c) = {1}
  BY <1>4, <1>6 DEF Levels
<1>8. Nests(c)
  BY <1>1, <1>6, <1>7 DEF Nests, Hand
<1>9. Wired(P!New)
  BY MachineAssumption DEF Wired, P!New, P!Pics, P!Chip, P!Line
<1>10. Controller(K!New)
  BY DEF Controller, K!New
<1>11. Served(c, P!New)
  <2>1. P!New.isr["master"] = {} /\ P!New.isr["slave"] = {}
    BY DEF P!New, P!Chip
  <2>2. \A irq \in Hardwares : ~Servicing(P!New, irq)
    BY <2>1, Registers DEF Hardwares
  <2> QED BY <1>1, <1>6, <1>7, <2>2 DEF Served
<1>12. SetUp(c, P!New)
  <2>1. P!New.icw2Pending = FALSE
    BY DEF P!New
  <2> QED BY <1>1, <1>6, <1>7, <2>1, Zenon DEF SetUp
<1>13. K!New.out = <<>> /\ ~K!New.driverAttached
  BY DEF K!New
<1>14. Quiet(c, K!New) /\ Told(c, K!New, P!New)
  BY <1>13, Zenon DEF Quiet, Told, K!HeadInterrupts
<1>15. Kept(c, P!New, K!New)
  BY <1>8, <1>9, <1>10, <1>11, <1>12, <1>14, Zenon DEF Kept
<1> QED BY <1>2, <1>3, <1>5, <1>15, Zenon DEF Held

\* Every turn of the loop keeps the invariant (step, run).
LEMMA NextHeld == Disciplined /\ IInv /\ [Next]_m => IInv'
<1> SUFFICES ASSUME Disciplined, IInv, [Next]_m  PROVE Held(m')
  BY DEF IInv
<1> USE DEF IInv
<1>1. CASE Step
  <2>1. PICK d : d = Dispatched(m)
    BY Zenon
  <2>2. Held(d)
    BY <2>1, DispatchedHeld
  <2>3. PICK t \in Instructions(d) : /\ t[1][1] = "iret" => d.stack # <<>>
                                     /\ m' = Counted(Execute(d, t[1], t[2]))
    BY <1>1, <2>1, Zenon DEF Step
  <2>4. PICK p \in Program : p[1] = d.at /\ t = <<p[2], p[3]>>
    BY <2>3 DEF Instructions
  <2>5. <<d.at, t[1], t[2]>> \in Program
    <3>1. t[1] = p[2] /\ t[2] = p[3]
      BY <2>4
    <3>2. p = <<p[1], p[2], p[3]>>
      BY <2>4, ProgramAssumption
    <3> QED BY <2>4, <3>1, <3>2, Zenon
  <2>6. PICK e : e = Execute(d, t[1], t[2])
    BY Zenon
  <2>7. Held(e)
    BY <2>2, <2>3, <2>5, <2>6, ExecuteHeld, Zenon
  <2>8. m' = Counted(e)
    BY <2>3, <2>6, Zenon
  <2> QED BY <2>7, <2>8, CountedHeld
<1>2. CASE Park
  <2>1. PICK c, d, h : c = Counted(m) /\ d = Delivered(c) /\ h = ~Delivers(c)
    BY Zenon
  <2>2. m' = [d EXCEPT !.halted = h]
    BY <1>2, <2>1, Zenon DEF Park
  <2>3. Held(d)
    BY <2>1, CountedHeld, DeliveredHeld
  <2>4. PICK y : y = m'
    BY Zenon
  <2>5. Same(d, y) /\ y.pic = d.pic /\ y.kbd = d.kbd
    BY <2>2, <2>3, <2>4 DEF Held, Same, Shaped, Fields
  <2>6. Held(y)
    BY <2>3, <2>5, SameHeld DEF Held
  <2> QED BY <2>4, <2>6, Zenon
<1>3. CASE m' = m
  BY <1>3, Zenon
<1> QED BY <1>1, <1>2, <1>3 DEF Next

\* Its invariant holds of every machine whose guest keeps the discipline.
LEMMA Invariance == Disciplined /\ Spec => []IInv
<1>1. Disciplined /\ Init => IInv
  BY InitHeld
<1>2. Disciplined /\ IInv /\ [Next]_m => IInv'
  BY NextHeld
<1> QED
  <2> SUFFICES ASSUME Disciplined  PROVE Spec => []IInv
    OBVIOUS
  <2> QED BY <1>1, <1>2, PTL DEF Spec

\* Each line in service has one handler, and none interrupts its own or a higher one.
LEMMA HeldServes == IInv => ServiceHasHandler
<1> SUFFICES ASSUME IInv  PROVE ServiceHasHandler
  OBVIOUS
<1>1. PICK c, n : c = Contexts(m) /\ n = Len(m.stack)
  BY Zenon
<1>2. Nests(c) /\ Served(c, m.pic)
  BY <1>1, Zenon DEF IInv, Held, Kept
<1>3. n \in Nat /\ Len(c) = n + 1 /\ c[n + 1].at = m.at /\ \A j \in 1 .. n : c[j] = m.stack[j]
  <2>1. PICK f : f = [iflag |-> m.iflag, at |-> m.at]
    BY Zenon
  <2>2. m.stack \in Seq(Frame) /\ f \in Frame /\ f.at = m.at
    BY <2>1 DEF IInv, Held, Shaped, Frame
  <2>3. c = Append(m.stack, f)
    BY <1>1, <2>1, Zenon DEF Contexts
  <2>4. PICK s : s = m.stack
    BY Zenon
  <2>5. s \in Seq(Frame) /\ c = Append(s, f) /\ n = Len(s)
    BY <1>1, <2>2, <2>3, <2>4, Zenon
  <2>6. n \in Nat /\ Len(c) = n + 1 /\ c[n + 1] = f /\ \A j \in 1 .. n : c[j] = s[j]
    BY <2>2, <2>5
  <2> QED BY <2>2, <2>4, <2>6, Zenon
<1>4. PICK a : a = Active
  BY Zenon
<1>5. DOMAIN a = Levels(c) /\ \A j \in Levels(c) : a[j] = Hand(c, j)
  <2>1. PICK s, l : s = m.stack /\ l = m.at
    BY Zenon
  <2>2. a = [ j \in 1 .. n + 1 |-> OwnerOf[ IF j <= n THEN s[j].at ELSE l ] ]
    BY <1>1, <1>4, <2>1, Zenon DEF Active
  <2>3. \A j \in 1 .. n + 1 : j <= n => j \in 1 .. n
    BY <1>3
  <2>4. \A j \in 1 .. n + 1 : ~(j <= n) => j = n + 1
    BY <1>3
  <2>5. Levels(c) = 1 .. n + 1
    BY <1>3 DEF Levels
  <2>6. /\ c[n + 1].at = l /\ \A j \in 1 .. n : c[j] = s[j]
    BY <1>3, <2>1, Zenon
  <2>7. \A j \in 1 .. n + 1 : c[j].at = IF j <= n THEN s[j].at ELSE l
    BY <2>3, <2>4, <2>6, Zenon
  <2> QED BY <2>2, <2>5, <2>7, Zenon DEF Hand
<1>6. \A j, k \in Levels(c) :
        j < k /\ {a[j], a[k]} \subseteq Hardwares => P!Rank(a[k]) < P!Rank(a[j])
  BY <1>2, <1>5 DEF Nests
<1>7. ASSUME NEW irq \in Hardwares, InService(irq)
      PROVE  Cardinality(Activations(irq)) = 1
  <2>1. Servicing(m.pic, irq)
    BY <1>7, Zenon DEF InService, Servicing
  <2>2. PICK j \in Levels(c) : Hand(c, j) = irq
    BY <1>2, <2>1, Zenon DEF Served
  <2>3. \A k \in Levels(c) : Hand(c, k) = irq => k = j
    <3> SUFFICES ASSUME NEW k \in Levels(c), Hand(c, k) = irq, k # j  PROVE FALSE
      OBVIOUS
    <3>1. P!Rank(irq) \in Int
      BY Places, Distinct DEF Hardwares
    <3>2. k < j \/ j < k
      BY DEF Levels
    <3>3. P!Rank(irq) < P!Rank(irq)
      BY <1>2, <2>2, <3>2, Zenon DEF Nests
    <3> QED BY <3>1, <3>3
  <2>4. {k \in DOMAIN a : a[k] = irq} = {j}
    BY <1>5, <2>2, <2>3
  <2>5. Activations(irq) = {j}
    BY <1>4, <2>4, Zenon DEF Activations
  <2> QED BY <2>5, FS_Singleton, Zenon
<1>8. Hardware = Hardwares
  BY DEF Hardware, Hardwares
<1> QED BY <1>4, <1>5, <1>6, <1>7, <1>8, Zenon DEF ServiceHasHandler

\* Every line in service has exactly one handler running for it, and no handler
\* interrupts one of its own or of a higher priority, whatever program keeps the
\* discipline (deliver_hardware_interrupt, pic.rs).
THEOREM ServicesHaveHandlers == Disciplined /\ Spec => []ServiceHasHandler
<1> SUFFICES ASSUME Disciplined  PROVE Spec => []ServiceHasHandler
  OBVIOUS
<1>1. Spec => []IInv
  BY Invariance
<1> QED BY <1>1, HeldServes, PTL

\* A key byte that waits is announced, or its handler is being served, whatever
\* program keeps the discipline (kbd.rs refresh_irq, cpu.rs deliver_hardware_interrupt).
THEOREM KeysAreSignalled == Disciplined /\ Spec => []KeySignalled
<1>1. IInv => KeySignalled
  BY Zenon DEF IInv, Held, Kept, Told, KeySignalled, Latched, Servicing, Requested, InService
<1> SUFFICES ASSUME Disciplined  PROVE Spec => []KeySignalled
  OBVIOUS
<1>2. Spec => []IInv
  BY Invariance
<1> QED BY <1>1, <1>2, PTL

----------------------------------------------------------------------------
(* The theorem for any guest: a fault stays at its instruction.            *)

\* A machine with a fault pending stands at an instruction that can raise it, and
\* does not halt there.
Blamed(x) ==
  /\ Fields(x)
  /\ x.fault => <<x.at, <<"fault">>, x.at>> \in Program
  /\ x.halted => ~x.fault

\* What looking at the devices leaves alone.
Spared(x, y) == Fields(y) /\ y.fault = x.fault /\ y.halted = x.halted

\* It keeps the machine's exceptions and its halt (deliver_hardware_interrupt).
LEMMA DeliveredSpares ==
  ASSUME NEW x, Fields(x), NEW y, y = Delivered(x)
  PROVE  Spared(x, y)
<1>1. ASSUME NEW u, Fields(u), NEW b, NEW irq  PROVE Spared(u, RaiseIf(u, b, irq))
  <2>1. PICK q : q = P!RaiseIrq(u.pic, irq)
    BY Zenon
  <2>2. PICK v : v = RaiseIf(u, b, irq)
    BY Zenon
  <2>3. v = [u EXCEPT !.pic = q] \/ v = u
    BY <2>1, <2>2, Zenon DEF RaiseIf
  <2>4. Spared(u, v)
    BY <1>1, <2>3 DEF Spared, Fields
  <2> QED BY <2>2, <2>4, Zenon
<1>2. \A u, v, w : Spared(u, v) /\ Spared(v, w) => Spared(u, w)
  BY Zenon DEF Spared
<1>3. \A u, v : Spared(u, v) => Fields(v)
  BY Zenon DEF Spared
<1>4. ASSUME NEW u, Fields(u)  PROVE Spared(u, TimerPolled(u))
  <2>1. PICK t, r : t = T!Tick(u.pit, Clocks) /\ r = T!TakeIrq0(t)
    BY Zenon
  <2>2. PICK v : v = [u EXCEPT !.pit = r]
    BY Zenon
  <2>3. Spared(u, v)
    BY <1>4, <2>2 DEF Spared, Fields
  <2>4. TimerPolled(u) = RaiseIf(v, t.irq0, TimerIrq)
    BY <2>1, <2>2, Zenon DEF TimerPolled
  <2>5. Spared(v, TimerPolled(u))
    BY <1>1, <1>3, <2>3, <2>4, Zenon
  <2> QED BY <1>2, <2>3, <2>5, Zenon
<1>5. ASSUME NEW u, Fields(u)  PROVE Spared(u, KeyTyped(u))
  <2>1. PICK l, s : l = K!PushScancode(u.kbd, "key") /\ s = u.script - 1
    BY Zenon
  <2>2. PICK v : v = KeyTyped(u)
    BY Zenon
  <2>3. v = [u EXCEPT !.script = s, !.kbd = l, !.gap = KeyInterval] \/ v = u
    BY <2>1, <2>2, Zenon DEF KeyTyped
  <2>4. Spared(u, v)
    BY <1>5, <2>3 DEF Spared, Fields
  <2> QED BY <2>2, <2>4, Zenon
<1>6. ASSUME NEW u, Fields(u)  PROVE Spared(u, KbdPolled(u))
  <2>1. PICK l : l = K!TakeIrq1(u.kbd)
    BY Zenon
  <2>2. PICK v : v = [u EXCEPT !.kbd = l]
    BY Zenon
  <2>3. Spared(u, v)
    BY <1>6, <2>2 DEF Spared, Fields
  <2>4. KbdPolled(u) = RaiseIf(v, u.kbd.irq1, KbdIrq)
    BY <2>1, <2>2, Zenon DEF KbdPolled
  <2>5. Spared(v, KbdPolled(u))
    BY <1>1, <1>3, <2>3, <2>4, Zenon
  <2> QED BY <1>2, <2>3, <2>5, Zenon
<1>7. ASSUME NEW u, Fields(u)  PROVE Spared(u, Polled(u))
  <2>1. PICK a : a = TimerPolled(u)
    BY Zenon
  <2>2. PICK b : b = KeyTyped(a)
    BY Zenon
  <2>3. PICK c : c = KbdPolled(b)
    BY Zenon
  <2>4. Polled(u) = RaiseIf(c, c.virtio, DiskIrq)
    BY <2>1, <2>2, <2>3, Zenon DEF Polled, DiskPolled
  <2>5. Spared(u, a) /\ Spared(a, b) /\ Spared(b, c)
    BY <1>4, <1>5, <1>6, <1>7, <1>3, <2>1, <2>2, <2>3, Zenon
  <2>6. Spared(c, Polled(u))
    BY <1>1, <1>3, <2>4, <2>5, Zenon
  <2> QED BY <1>2, <2>5, <2>6, Zenon
<1>8. ASSUME NEW u, Fields(u)  PROVE Spared(u, Interrupted(u))
  <2>1. CASE Taken(u) = {}
    BY <1>8, <2>1, Zenon DEF Interrupted, Spared
  <2>2. CASE Taken(u) # {}
    <3>1. PICK irq : irq = CHOOSE i \in Taken(u) : TRUE
      BY Zenon
    <3>2. PICK q, e : q = P!Acknowledged(u.pic, irq) /\ e = P!Vector(u.pic, irq)
      BY Zenon
    <3>3. PICK v, w : v = [u EXCEPT !.pic = q] /\ w = Entered(v, e)
      BY Zenon
    <3>4. Interrupted(u) = w
      BY <2>2, <3>1, <3>2, <3>3, Zenon DEF Interrupted
    <3>5. Spared(u, v)
      BY <1>8, <3>3 DEF Spared, Fields
    <3>6. PICK s, l : s = Append(v.stack, [iflag |-> v.iflag, at |-> v.at]) /\ l = Entry[e]
      BY Zenon
    <3>7. w = [v EXCEPT !.stack = s, !.iflag = FALSE, !.at = l]
      BY <3>3, <3>6, Zenon DEF Entered
    <3>8. Spared(u, w)
      BY <3>5, <3>7 DEF Spared, Fields
    <3> QED BY <3>4, <3>8, Zenon
  <2> QED BY <2>1, <2>2
<1>9. CASE x.phase = 0
  <2>1. PICK z : z = Polled(x)
    BY Zenon
  <2>2. y = Interrupted(z)
    BY <1>9, <2>1, Zenon DEF Delivered
  <2> QED BY <1>7, <1>8, <2>1, <2>2, Zenon DEF Spared
<1>10. CASE x.phase # 0
  BY <1>10, Zenon DEF Delivered, Spared
<1> QED BY <1>9, <1>10

\* A pending fault is dispatched before the devices are looked at.
LEMMA DispatchedBlamed ==
  ASSUME NEW x, Fields(x), NEW y, y = Dispatched(x)
  PROVE  Fields(y) /\ ~y.fault /\ y.halted = x.halted
<1>1. CASE x.fault
  <2>1. PICK z : z = [x EXCEPT !.fault = FALSE]
    BY Zenon
  <2>2. y = Entered(z, Fault)
    BY <1>1, <2>1, Zenon DEF Dispatched
  <2>3. PICK s, l : s = Append(z.stack, [iflag |-> z.iflag, at |-> z.at]) /\ l = Entry[Fault]
    BY Zenon
  <2>4. y = [z EXCEPT !.stack = s, !.iflag = FALSE, !.at = l]
    BY <2>2, <2>3, Zenon DEF Entered
  <2> QED BY <2>1, <2>4 DEF Fields
<1>2. CASE ~x.fault
  <2>1. y = Delivered(x)
    BY <1>2, Zenon DEF Dispatched
  <2>2. Spared(x, y)
    BY <2>1, DeliveredSpares
  <2> QED BY <1>2, <2>2, Zenon DEF Spared
<1> QED BY <1>1, <1>2

\* An instruction raises a fault where it stands, or none.
LEMMA ExecuteBlamed ==
  ASSUME NEW x, Fields(x), ~x.fault, ~x.halted, NEW i, NEW n, <<x.at, i, n>> \in Program,
         NEW y, y = Execute(x, i, n)
  PROVE  Blamed(y)
<1>1. i \in Instruction /\ (i = <<"fault">> => n = x.at)
  BY Text
<1>2. PICK z : z = [x EXCEPT !.at = n]
  BY Zenon
<1>3. Fields(z) /\ ~z.fault
  BY <1>2 DEF Fields
<1>4. CASE i[1] = "fault"
  <2>1. y = [x EXCEPT !.fault = TRUE]
    BY <1>4 DEF Execute
  <2>2. Fields(y) /\ y.at = x.at /\ y.halted = x.halted
    BY <2>1 DEF Fields
  <2>3. i = <<"fault">>
    BY <1>1, <1>4, Names
  <2> QED BY <1>1, <2>2, <2>3, Zenon DEF Blamed
<1>5. CASE i[1] # "fault"
  <2>1. Fields(y) /\ ~y.fault
    <3>1. CASE i[1] = "nop"
      BY <1>2, <1>3, <3>1 DEF Execute
    <3>2. CASE i[1] = "hlt"
      <4>1. y = [z EXCEPT !.halted = TRUE]
        BY <1>2, <3>2 DEF Execute
      <4> QED BY <1>3, <4>1 DEF Fields
    <3>3. CASE i[1] \in {"sti", "cli"}
      <4>1. \E t : y = [z EXCEPT !.iflag = t]
        BY <1>2, <3>3 DEF Execute
      <4> QED BY <1>3, <4>1 DEF Fields
    <3>4. CASE i[1] = "iret"
      <4>1. PICK top, r : top = x.stack[Len(x.stack)] /\ r = SubSeq(x.stack, 1, Len(x.stack) - 1)
        BY Zenon
      <4>2. y = [x EXCEPT !.iflag = x.stack[Len(x.stack)].iflag, !.at = x.stack[Len(x.stack)].at,
                          !.stack = SubSeq(x.stack, 1, Len(x.stack) - 1)]
        BY <3>4 DEF Execute, Fields
      <4>3. y = [x EXCEPT !.iflag = top.iflag, !.at = top.at, !.stack = r]
        BY <4>1, <4>2, Zenon
      <4> QED BY <4>3 DEF Fields
    <3>5. CASE i[1] \in {"icw1", "picData", "eoi"}
      <4>1. \E t : y = [z EXCEPT !.pic = t]
        <5>1. CASE i[1] = "icw1"
          BY <1>2, <5>1 DEF Execute
        <5>2. CASE i[1] = "picData"
          BY <1>2, <5>2 DEF Execute
        <5>3. CASE i[1] = "eoi"
          BY <1>2, <5>3 DEF Execute
        <5> QED BY <3>5, <5>1, <5>2, <5>3
      <4> QED BY <1>3, <4>1 DEF Fields
    <3>6. CASE i[1] \in {"kbdWrite", "kbdRead"}
      <4>1. \E t : y = [z EXCEPT !.kbd = t]
        BY <1>2, <3>6 DEF Execute
      <4> QED BY <1>3, <4>1 DEF Fields
    <3>7. CASE i[1] \in {"pitControl", "pitWrite"}
      <4>1. \E t : y = [z EXCEPT !.pit = t]
        BY <1>2, <3>7 DEF Execute
      <4> QED BY <1>3, <4>1 DEF Fields
    <3>8. CASE i[1] \in {"diskNotify", "diskIsr"}
      <4>1. \E t : y = [z EXCEPT !.virtio = t]
        BY <1>2, <3>8 DEF Execute
      <4> QED BY <1>3, <4>1 DEF Fields
    <3> QED BY <1>1, <1>5, <3>1, <3>2, <3>3, <3>4, <3>5, <3>6, <3>7, <3>8, Names
  <2> QED BY <2>1, Zenon DEF Blamed
<1> QED BY <1>4, <1>5

\* A pending fault is dispatched before any interrupt is taken, so it is never blamed
\* on the first instruction of an interrupt handler, whatever the guest does
\* (cpu.rs step, deliver_hardware_interrupt).
THEOREM FaultsStay == Spec => []FaultAtInstruction
<1>1. Init => Blamed(m)
  <2> SUFFICES ASSUME Init  PROVE Blamed(m)
    OBVIOUS
  <2>1. PICK a, b, e : a = P!New /\ b = K!New /\ e = T!New
    BY Zenon
  <2>2. m = [ pic |-> a, kbd |-> b, pit |-> e, virtio |-> FALSE, script |-> Script, gap |-> 0,
              phase |-> 0, iflag |-> FALSE, halted |-> FALSE, fault |-> FALSE, at |-> Start,
              stack |-> <<>> ]
    BY <2>1, Zenon DEF Init, New
  <2> QED BY <2>2 DEF Blamed, Fields
<1>2. Blamed(m) /\ [Next]_m => Blamed(m)'
  <2> SUFFICES ASSUME Blamed(m), [Next]_m  PROVE Blamed(m')
    OBVIOUS
  <2>1. CASE Step
    <3>1. PICK d : d = Dispatched(m)
      BY Zenon
    <3>2. ~m.halted /\ Fields(d) /\ ~d.fault /\ ~d.halted
      <4>1. ~m.halted
        BY <2>1, Zenon DEF Step
      <4>2. Fields(d) /\ ~d.fault /\ d.halted = m.halted
        BY <3>1, DispatchedBlamed DEF Blamed
      <4> QED BY <4>1, <4>2, Zenon
    <3>3. PICK t \in Instructions(d) : m' = Counted(Execute(d, t[1], t[2]))
      BY <2>1, <3>1, Zenon DEF Step
    <3>4. PICK p \in Program : p[1] = d.at /\ t = <<p[2], p[3]>>
      BY <3>3 DEF Instructions
    <3>5. <<d.at, t[1], t[2]>> \in Program
      <4>1. t[1] = p[2] /\ t[2] = p[3]
        BY <3>4
      <4>2. p = <<p[1], p[2], p[3]>>
        BY <3>4, ProgramAssumption
      <4> QED BY <3>4, <4>1, <4>2, Zenon
    <3>6. PICK e : e = Execute(d, t[1], t[2])
      BY Zenon
    <3>7. Blamed(e)
      BY <3>2, <3>5, <3>6, ExecuteBlamed
    <3>8. PICK a, b : a = (e.phase + 1) % Interval /\ b = IF e.gap > 0 THEN e.gap - 1 ELSE 0
      BY Zenon
    <3>9. PICK y : y = [e EXCEPT !.phase = a, !.gap = b]
      BY Zenon
    <3>10. m' = y
      BY <3>3, <3>6, <3>8, <3>9, Zenon DEF Counted
    <3>11. Blamed(y)
      BY <3>7, <3>9 DEF Blamed, Fields
    <3> QED BY <3>10, <3>11, Zenon
  <2>2. CASE Park
    <3>1. PICK c, d, h : c = Counted(m) /\ d = Delivered(c) /\ h = ~Delivers(c)
      BY Zenon
    <3>2. PICK y : y = [d EXCEPT !.halted = h]
      BY Zenon
    <3>3. m' = y
      BY <2>2, <3>1, <3>2, Zenon DEF Park
    <3>4. Fields(m) /\ ~m.fault
      BY <2>2, Zenon DEF Park, Blamed
    <3>5. PICK a, b : a = (m.phase + 1) % Interval /\ b = IF m.gap > 0 THEN m.gap - 1 ELSE 0
      BY Zenon
    <3>6. c = [m EXCEPT !.phase = a, !.gap = b]
      BY <3>1, <3>5, Zenon DEF Counted
    <3>7. Fields(c) /\ ~c.fault
      BY <3>4, <3>6 DEF Fields
    <3>8. Fields(d) /\ ~d.fault
      BY <3>1, <3>7, DeliveredSpares DEF Spared
    <3>9. Fields(y) /\ ~y.fault
      BY <3>2, <3>8 DEF Fields
    <3> QED BY <3>3, <3>9, Zenon DEF Blamed
  <2>3. CASE m' = m
    BY <2>3, Zenon
  <2> QED BY <2>1, <2>2, <2>3 DEF Next
<1>3. Blamed(m) => FaultAtInstruction
  BY Zenon DEF Blamed, FaultAtInstruction
<1> QED BY <1>1, <1>2, <1>3, PTL DEF Spec
=============================================================================
