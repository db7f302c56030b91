------------------------------ MODULE KbdProofs ------------------------------
(***************************************************************************)
(* The keyboard controller of module Kbd for a queue of any length, any    *)
(* scancodes and any bytes.                                                *)
(***************************************************************************)
EXTENDS Kbd, SequenceTheorems, TLAPS

Entry == [byte: Byte, aux: BOOLEAN]

\* The fields of a controller, one by one.
LEMMA Fields ==
  ASSUME NEW k \in Kbds
  PROVE  /\ k.out \in Seq(Entry) /\ k.ctr \in SUBSET CtrFlag
         /\ k.pending \in TakesArgument \cup {None}
         /\ k.devPending \in {"scanSet", "setLeds", None}
         /\ k.irq1 \in BOOLEAN /\ k.cmdWritten \in BOOLEAN
         /\ k.scanning \in BOOLEAN /\ k.driverAttached \in BOOLEAN
BY DEF Kbds, Entry

\* refresh_irq changes the interrupt line and nothing else.
LEMMA RefreshType ==
  ASSUME NEW k \in Kbds
  PROVE  /\ RefreshIrq(k) \in Kbds
         /\ RefreshIrq(k).irq1 = HeadInterrupts(k)
         /\ HeadInterrupts(RefreshIrq(k)) = HeadInterrupts(k)
         /\ RefreshIrq(k).out = k.out /\ RefreshIrq(k).ctr = k.ctr
         /\ RefreshIrq(k).pending = k.pending /\ RefreshIrq(k).devPending = k.devPending
         /\ RefreshIrq(k).scanning = k.scanning
         /\ RefreshIrq(k).driverAttached = k.driverAttached
<1>1. HeadInterrupts(k) \in BOOLEAN
  BY DEF HeadInterrupts
<1>2. RefreshIrq(k) = [k EXCEPT !.irq1 = HeadInterrupts(k)]
  BY DEF RefreshIrq
<1> DEFINE h == HeadInterrupts(k)
<1>3. /\ RefreshIrq(k) \in Kbds
      /\ RefreshIrq(k).irq1 = h
      /\ RefreshIrq(k).out = k.out /\ RefreshIrq(k).ctr = k.ctr
      /\ RefreshIrq(k).pending = k.pending /\ RefreshIrq(k).devPending = k.devPending
      /\ RefreshIrq(k).scanning = k.scanning
      /\ RefreshIrq(k).driverAttached = k.driverAttached
  <2> HIDE DEF h
  <2> QED  BY <1>1, <1>2 DEF Kbds, h
<1>4. HeadInterrupts(RefreshIrq(k)) = HeadInterrupts(k)
  BY <1>3 DEF HeadInterrupts
<1> QED  BY <1>3, <1>4

\* What an operation leaves: a line that says what the head of the queue says, or
\* a queue, an enable and a line it has not touched (but for lowering the line).
Settled(k, l) ==
  \/ l.irq1 = HeadInterrupts(l)
  \/ /\ l.out = k.out
     /\ ("kbdInt" \in l.ctr) = ("kbdInt" \in k.ctr)
     /\ l.irq1 => k.irq1

\* The answers go to the end of the queue, and change nothing else but the line.
LEMMA RepliesType ==
  ASSUME NEW k \in Kbds, NEW bytes \in Seq(Byte), NEW aux \in BOOLEAN
  PROVE  LET l == Replies(k, bytes, aux)
         IN  /\ l \in Kbds
             /\ l.irq1 = HeadInterrupts(l)
             /\ l.pending = k.pending /\ l.devPending = k.devPending
             /\ l.scanning = k.scanning /\ l.driverAttached = k.driverAttached
<1> DEFINE added == [i \in DOMAIN bytes |-> [byte |-> bytes[i], aux |-> aux]]
           long  == k.out \o added
           queued == [k EXCEPT !.out = long]
<1>1. added \in Seq(Entry)
  <2>1. DOMAIN bytes = 1 .. Len(bytes) /\ Len(bytes) \in Nat
    OBVIOUS
  <2>2. \A i \in DOMAIN bytes : [byte |-> bytes[i], aux |-> aux] \in Entry
    BY DEF Entry
  <2>3. added \in [1 .. Len(bytes) -> Entry]
    BY <2>1, <2>2
  <2> QED
    <3> HIDE DEF added
    <3> QED  BY <2>1, <2>3
<1>2. long \in Seq(Entry)
  <2> HIDE DEF added
  <2> QED  BY <1>1, Fields
<1>3. queued \in Kbds /\ queued.pending = k.pending /\ queued.devPending = k.devPending
      /\ queued.scanning = k.scanning /\ queued.driverAttached = k.driverAttached
  <2> HIDE DEF long
  <2> QED  BY <1>2 DEF Kbds, Entry
<1>4. Replies(k, bytes, aux) = RefreshIrq(queued)
  BY DEF Replies
<1> QED
  <2> HIDE DEF queued
  <2> QED  BY <1>3, <1>4, RefreshType

\* The constants of the answers are bytes of the queue.
LEMMA Answers ==
  /\ \A c \in SUBSET CtrFlag : <<"ctr", c>> \in Byte
  /\ \A f \in Fixed : <<"fixed", f>> \in Byte
  /\ \A b \in Bytes : <<"echoed", b>> \in Byte
  /\ \A s \in Scancodes : <<"scan", s>> \in Byte
BY DEF Byte

\* The short answers of the keyboard are sequences of bytes.
LEMMA SaysType ==
  /\ Says(<<"ack">>) \in Seq(Byte)
  /\ Says(<<"ack", "batOk">>) \in Seq(Byte)
  /\ Says(<<"ack", "set2">>) \in Seq(Byte)
  /\ Says(<<"ack", "id1", "id2">>) \in Seq(Byte)
<1>1. ASSUME NEW names \in Seq(Fixed)
      PROVE  Says(names) \in Seq(Byte)
  <2>1. DOMAIN names = 1 .. Len(names) /\ Len(names) \in Nat
    OBVIOUS
  <2>2. \A i \in DOMAIN names : <<"fixed", names[i]>> \in Byte
    BY Answers
  <2>3. Says(names) \in [1 .. Len(names) -> Byte]
    BY <2>1, <2>2 DEF Says
  <2> QED
    <3> DEFINE says == Says(names)
    <3> HIDE DEF says
    <3> QED  BY <2>1, <2>3 DEF says
<1>2. {"ack", "batOk", "set2", "id1", "id2"} \subseteq Fixed
  BY DEF Fixed
<1>3. /\ <<"ack">> \in Seq(Fixed) /\ <<"ack", "batOk">> \in Seq(Fixed)
      /\ <<"ack", "set2">> \in Seq(Fixed) /\ <<"ack", "id1", "id2">> \in Seq(Fixed)
  BY <1>2
<1> QED  BY <1>1, <1>3

\* What every operation does: keep the type, settle the line, and give a byte that a
\* controller command waits for to no one else.
Lawful(k, l) ==
  /\ l \in Kbds
  /\ Settled(k, l)
  /\ k.pending # None /\ l.pending = None
       => /\ l.scanning = k.scanning
          /\ l.driverAttached = k.driverAttached
          /\ l.devPending = k.devPending

\* One byte in answer.
LEMMA ReplyType ==
  ASSUME NEW k \in Kbds, NEW b \in Byte
  PROVE  LET l == Reply(k, b)
         IN  /\ l \in Kbds
             /\ l.irq1 = HeadInterrupts(l)
             /\ l.pending = k.pending /\ l.devPending = k.devPending
             /\ l.scanning = k.scanning /\ l.driverAttached = k.driverAttached
<1>1. <<b>> \in Seq(Byte)
  OBVIOUS
<1> QED  BY <1>1, RepliesType DEF Reply

\* A key event (push_scancode).
LEMMA PushLawful ==
  ASSUME NEW k \in Kbds, NEW s \in Scancodes
  PROVE  Lawful(k, PushScancode(k, s))
<1>1. CASE k.scanning
  BY <1>1, Answers, ReplyType DEF PushScancode, Lawful, Settled
<1>2. CASE ~k.scanning
  BY <1>2 DEF PushScancode, Lawful, Settled
<1> QED  BY <1>1, <1>2

\* A read of the data port (read_data).
LEMMA ReadLawful ==
  ASSUME NEW k \in Kbds
  PROVE  Lawful(k, ReadData(k))
<1> DEFINE rest == IF k.out = <<>> THEN k.out ELSE Tail(k.out)
           q    == [k EXCEPT !.out = rest]
<1>1. rest \in Seq(Entry)
  BY Fields
<1>2. q \in Kbds /\ q.pending = k.pending /\ q.devPending = k.devPending
      /\ q.scanning = k.scanning /\ q.driverAttached = k.driverAttached
  <2> HIDE DEF rest
  <2> QED  BY <1>1 DEF Kbds, Entry
<1>3. ReadData(k) = RefreshIrq(q)
  BY DEF ReadData
<1> QED
  <2> HIDE DEF q
  <2> QED  BY <1>2, <1>3, RefreshType DEF Lawful, Settled

\* A command of the controller (write_command).
LEMMA CommandLawful ==
  ASSUME NEW k \in Kbds, NEW cmd \in Command
  PROVE  Lawful(k, WriteCommand(k, cmd))
<1> DEFINE w == [k EXCEPT !.cmdWritten = TRUE]
           l == Commanded(w, cmd)
<1>1. /\ w \in Kbds /\ w.out = k.out /\ w.ctr = k.ctr /\ w.irq1 = k.irq1
      /\ w.pending = k.pending /\ w.devPending = k.devPending
      /\ w.scanning = k.scanning /\ w.driverAttached = k.driverAttached
  BY DEF Kbds
<1>2. WriteCommand(k, cmd) = l
  BY DEF WriteCommand
<1> HIDE DEF w
<1> SUFFICES Lawful(k, l)
  BY <1>2
<1>3. CASE cmd = "readCtr"
  <2>1. l = Reply(w, <<"ctr", w.ctr>>)
    BY <1>3 DEF Commanded, FixedAnswer, TakesArgument
  <2> QED  BY <1>1, <2>1, Fields, Answers, ReplyType DEF Lawful, Settled
<1>4. CASE cmd \in FixedAnswer
  <2>1. l = Reply(w, <<"fixed", cmd>>)
    BY <1>4 DEF Commanded, FixedAnswer, TakesArgument
  <2> QED  BY <1>1, <1>4, <2>1, Answers, ReplyType DEF Lawful, Settled, Fixed
<1>5. CASE cmd \in TakesArgument
  <2>1. l = [w EXCEPT !.pending = cmd]
    BY <1>5 DEF Commanded, TakesArgument, FixedAnswer
  <2>2. cmd # None
    BY <1>5 DEF TakesArgument, None
  <2> QED  BY <1>1, <1>5, <2>1, <2>2 DEF Lawful, Settled, Kbds
<1>6. CASE cmd \in {"disableAux", "enableAux", "disableKbd", "enableKbd"}
  <2>1. \E c \in SUBSET CtrFlag : /\ l = [w EXCEPT !.ctr = c]
                                 /\ ("kbdInt" \in c) = ("kbdInt" \in w.ctr)
    <3>1. w.ctr \in SUBSET CtrFlag
      BY <1>1, Fields
    <3>2. CASE cmd = "disableAux"
      BY <3>1, <3>2 DEF Commanded, FixedAnswer, TakesArgument, CtrFlag
    <3>3. CASE cmd = "enableAux"
      BY <3>1, <3>3 DEF Commanded, FixedAnswer, TakesArgument, CtrFlag
    <3>4. CASE cmd = "disableKbd"
      BY <3>1, <3>4 DEF Commanded, FixedAnswer, TakesArgument, CtrFlag
    <3>5. CASE cmd = "enableKbd"
      BY <3>1, <3>5 DEF Commanded, FixedAnswer, TakesArgument, CtrFlag
    <3> QED  BY <1>6, <3>2, <3>3, <3>4, <3>5
  <2> QED  BY <1>1, <2>1 DEF Lawful, Settled, Kbds
<1>7. CASE cmd = "selfTest"
  <2> DEFINE p == [w EXCEPT !.ctr = @ \cup {"sys"}]
  <2>1. p \in Kbds /\ p.pending = w.pending /\ p.devPending = w.devPending
        /\ p.scanning = w.scanning /\ p.driverAttached = w.driverAttached
    BY <1>1 DEF Kbds, CtrFlag
  <2>2. l = Reply(p, <<"fixed", "selfTest">>)
    BY <1>7 DEF Commanded, FixedAnswer, TakesArgument
  <2>3. <<"fixed", "selfTest">> \in Byte
    BY Answers DEF Fixed
  <2> HIDE DEF p
  <2> QED  BY <1>1, <2>1, <2>2, <2>3, ReplyType DEF Lawful, Settled
<1>8. CASE cmd = "pulseReset"
  <2>1. l = w
    BY <1>8 DEF Commanded, FixedAnswer, TakesArgument
  <2> QED  BY <1>1, <2>1 DEF Lawful, Settled
<1> QED  BY <1>3, <1>4, <1>5, <1>6, <1>7, <1>8 DEF Command

\* A byte at the data port (write_data), whoever it is for.
LEMMA WriteLawful ==
  ASSUME NEW k \in Kbds, NEW b \in Bytes
  PROVE  Lawful(k, WriteData(k, b))
<1> DEFINE w == [k EXCEPT !.cmdWritten = FALSE]
           l == WriteData(k, b)
<1>1. /\ w \in Kbds /\ w.out = k.out /\ w.ctr = k.ctr /\ w.irq1 = k.irq1
      /\ w.pending = k.pending /\ w.devPending = k.devPending
      /\ w.scanning = k.scanning /\ w.driverAttached = k.driverAttached
  BY DEF Kbds
<1>2. l = IF k.pending # None THEN ControllerArgument(w, b)
          ELSE IF k.devPending # None THEN DeviceArgument(w, b)
          ELSE DeviceCommanded(w, b)
  BY DEF WriteData
<1> SUFFICES Lawful(k, l)
  OBVIOUS
<1> HIDE DEF w, l
<1>3. CASE k.pending # None
  <2> DEFINE t == [w EXCEPT !.pending = None]
  <2>1. /\ t \in Kbds /\ t.out = k.out /\ t.ctr = k.ctr /\ t.irq1 = k.irq1
        /\ t.scanning = k.scanning /\ t.driverAttached = k.driverAttached
        /\ t.devPending = k.devPending
    BY <1>1 DEF Kbds
  <2>2. l = ControllerArgument(w, b) /\ w.pending # None
    BY <1>1, <1>2, <1>3
  <2>3. CASE w.pending = "writeCtr"
    <3> DEFINE c == [t EXCEPT !.ctr = CtrOf[b]]
    <3>1. c \in Kbds /\ c.scanning = k.scanning /\ c.driverAttached = k.driverAttached
          /\ c.devPending = k.devPending
      BY <2>1, KbdAssumption DEF Kbds
    <3>2. l = RefreshIrq(c)
      BY <2>2, <2>3 DEF ControllerArgument
    <3> HIDE DEF c
    <3> QED  BY <3>1, <3>2, RefreshType DEF Lawful, Settled
  <2>4. CASE w.pending = "echoKbd"
    <3>1. l = Reply(t, <<"echoed", b>>)
      BY <2>2, <2>4 DEF ControllerArgument
    <3> HIDE DEF t
    <3> QED  BY <2>1, <3>1, Answers, ReplyType DEF Lawful, Settled
  <2>5. CASE w.pending = "echoAux"
    <3>1. l = Replies(t, <<<<"echoed", b>>>>, TRUE)
      BY <2>2, <2>5 DEF ControllerArgument
    <3>2. <<<<"echoed", b>>>> \in Seq(Byte)
      BY Answers
    <3> HIDE DEF t
    <3> QED  BY <2>1, <3>1, <3>2, RepliesType DEF Lawful, Settled
  <2>6. CASE w.pending \notin {"writeCtr", "echoKbd", "echoAux"}
    <3>1. l = t
      BY <2>2, <2>6 DEF ControllerArgument
    <3> QED  BY <2>1, <3>1 DEF Lawful, Settled
  <2> QED  BY <2>3, <2>4, <2>5, <2>6
<1>4. CASE k.pending = None /\ k.devPending # None
  <2> DEFINE t == [w EXCEPT !.devPending = None]
             says == Says(IF w.devPending = "scanSet" /\ b = "zero"
                          THEN <<"ack", "set2">> ELSE <<"ack">>)
  <2>1. t \in Kbds
    BY <1>1 DEF Kbds
  <2>2. l = Replies(t, says, FALSE)
    BY <1>2, <1>4 DEF DeviceArgument
  <2>3. says \in Seq(Byte)
    BY SaysType
  <2> HIDE DEF t, says
  <2> QED  BY <1>4, <2>1, <2>2, <2>3, RepliesType DEF Lawful, Settled
<1>5. CASE k.pending = None /\ k.devPending = None
  <2>1. l = DeviceCommanded(w, b)
    BY <1>2, <1>5
  <2>2. \E v \in Kbds, bytes \in Seq(Byte) : l = Replies(v, bytes, FALSE)
    <3>1. CASE b = "reset"
      BY <1>1, <2>1, <3>1, SaysType DEF DeviceCommanded
    <3>2. CASE b = "echo"
      <4>1. <<<<"echoed", b>>>> \in Seq(Byte)
        BY Answers
      <4> QED  BY <1>1, <2>1, <3>2, <4>1 DEF DeviceCommanded, Reply
    <3>3. CASE b = "identify"
      BY <1>1, <2>1, <3>3, SaysType DEF DeviceCommanded
    <3>4. CASE b = "enable"
      <4>1. [w EXCEPT !.scanning = TRUE, !.driverAttached = TRUE] \in Kbds
        BY <1>1 DEF Kbds
      <4> QED  BY <2>1, <3>4, <4>1, SaysType DEF DeviceCommanded
    <3>5. CASE b = "disable"
      <4>1. [w EXCEPT !.scanning = FALSE] \in Kbds
        BY <1>1 DEF Kbds
      <4> QED  BY <2>1, <3>5, <4>1, SaysType DEF DeviceCommanded
    <3>6. CASE b \in {"scanSet", "setLeds"}
      <4>1. [w EXCEPT !.devPending = b] \in Kbds
        BY <1>1, <3>6 DEF Kbds
      <4> QED  BY <2>1, <3>6, <4>1, SaysType DEF DeviceCommanded
    <3>7. CASE b \notin DeviceCommand
      BY <1>1, <2>1, <3>7, SaysType DEF DeviceCommanded, DeviceCommand
    <3> QED  BY <3>1, <3>2, <3>3, <3>4, <3>5, <3>6, <3>7 DEF DeviceCommand
  <2>3. PICK v \in Kbds, bytes \in Seq(Byte) : l = Replies(v, bytes, FALSE)
    BY <2>2
  <2>4. l \in Kbds /\ l.irq1 = HeadInterrupts(l)
    BY <2>3, RepliesType
  <2> QED  BY <1>5, <2>4 DEF Lawful, Settled
<1> QED  BY <1>3, <1>4, <1>5

\* The CPU loop takes the edge.
LEMMA TakeLawful ==
  ASSUME NEW k \in Kbds
  PROVE  Lawful(k, TakeIrq1(k))
BY DEF TakeIrq1, Lawful, Settled, Kbds

\* Every step is lawful.
LEMMA NextLawful ==
  ASSUME TypeOK, Next
  PROVE  Lawful(kbd, kbd')
<1> USE DEF TypeOK
<1>1. ASSUME NEW s \in Scancodes, KeyEvent(s) PROVE Lawful(kbd, kbd')
  BY <1>1, PushLawful DEF KeyEvent
<1>2. ASSUME NEW c \in Command, GuestCommands(c) PROVE Lawful(kbd, kbd')
  BY <1>2, CommandLawful DEF GuestCommands
<1>3. ASSUME NEW b \in Bytes, GuestWrites(b) PROVE Lawful(kbd, kbd')
  BY <1>3, WriteLawful DEF GuestWrites
<1>4. CASE GuestReads
  BY <1>4, ReadLawful DEF GuestReads
<1>5. CASE CpuTakesIrq1
  BY <1>5, TakeLawful DEF CpuTakesIrq1
<1> QED  BY <1>1, <1>2, <1>3, <1>4, <1>5 DEF Next

\* The line of a lawful step still has its cause.
LEMMA CauseKept ==
  ASSUME NEW k, NEW l, Settled(k, l), k.irq1 => HeadInterrupts(k)
  PROVE  l.irq1 => HeadInterrupts(l)
BY DEF Settled, HeadInterrupts

\* Both invariants, together.
LEMMA Invariance == Spec => [](TypeOK /\ Irq1HasCause)
<1>1. Init => TypeOK /\ Irq1HasCause
  <2>1. <<>> \in Seq(Entry)
    OBVIOUS
  <2>2. New \in Kbds /\ New.irq1 = FALSE
    BY <2>1 DEF New, Kbds, CtrFlag, Entry
  <2> QED  BY <2>2 DEF Init, TypeOK, Irq1HasCause
<1>2. (TypeOK /\ Irq1HasCause) /\ [Next]_kbd => (TypeOK /\ Irq1HasCause)'
  <2>1. ASSUME TypeOK, Irq1HasCause, Next PROVE (TypeOK /\ Irq1HasCause)'
    BY <2>1, NextLawful, CauseKept DEF Lawful, TypeOK, Irq1HasCause
  <2>2. ASSUME TypeOK, Irq1HasCause, UNCHANGED kbd PROVE (TypeOK /\ Irq1HasCause)'
    BY <2>2 DEF TypeOK, Irq1HasCause
  <2> QED  BY <2>1, <2>2
<1> QED  BY <1>1, <1>2, PTL DEF Spec

\* The registers and the queue of the controller keep their type.
THEOREM TypeCorrect == Spec => []TypeOK
BY Invariance, PTL

\* IRQ1 never lies: it is asserted only for a keyboard byte at the head of the queue.
THEOREM CauseCorrect == Spec => []Irq1HasCause
BY Invariance, PTL

\* No byte comes to the head of the queue, with its interrupt enabled, unannounced.
THEOREM HeadsAnnounced == Spec => HeadAnnounced
<1>1. TypeOK /\ [Next]_kbd => [ NewHead /\ HeadInterrupts(kbd)' => kbd'.irq1 ]_kbd
  <2> SUFFICES ASSUME TypeOK, Next, NewHead, HeadInterrupts(kbd)'
               PROVE  kbd'.irq1
    OBVIOUS
  <2>1. Settled(kbd, kbd') /\ kbd' \in Kbds
    BY NextLawful DEF Lawful
  <2>2. CASE kbd'.irq1 = HeadInterrupts(kbd')
    BY <2>2 DEF HeadInterrupts
  <2>3. CASE kbd'.out = kbd.out /\ ("kbdInt" \in kbd'.ctr) = ("kbdInt" \in kbd.ctr)
    <3>1. Len(kbd.out) \in Nat
      BY Fields DEF TypeOK
    <3> QED  BY <2>3, <3>1 DEF NewHead, HeadInterrupts
  <2> QED  BY <2>1, <2>2, <2>3 DEF Settled
<1> QED  BY <1>1, TypeCorrect, PTL DEF Spec, HeadAnnounced

\* The argument of a controller command never reaches the keyboard device.
THEOREM ArgumentsNotLeaked == Spec => ArgumentNotLeaked
<1>1. TypeOK /\ [Next]_kbd =>
        [ kbd.pending # None /\ kbd'.pending = None
          => /\ kbd'.scanning = kbd.scanning
             /\ kbd'.driverAttached = kbd.driverAttached
             /\ kbd'.devPending = kbd.devPending ]_kbd
  BY NextLawful DEF Lawful
<1> QED  BY <1>1, TypeCorrect, PTL DEF Spec, ArgumentNotLeaked

----------------------------------------------------------------------------
(* The order of the queue.                                                 *)

\* A queue t is s with at most three bytes behind it.
Grows(s, t) ==
  \E n \in 0..3 : Len(t) = Len(s) + n /\ SubSeq(t, 1, Len(s)) = s

LEMMA NoneIsFew == 0 \in 0..3
OBVIOUS

LEMMA GrowsBy ==
  ASSUME NEW s \in Seq(Entry), NEW a \in Seq(Entry), Len(a) <= 3
  PROVE  Grows(s, s) /\ Grows(s, s \o a)
<1>1. Len(s) \in Nat /\ Len(a) \in 0..3
  <2>1. Len(s) \in Nat
    OBVIOUS
  <2>2. PICK n : n = Len(a)
    BY Zenon
  <2>3. n \in Nat
    BY <2>2
  <2>4. n \in 0..3
    BY <2>2, <2>3, Len(a) <= 3
  <2> QED  BY <2>1, <2>2, <2>4, Zenon
<1>2. SubSeq(s, 1, Len(s)) = s
  BY SubSeqFull
<1>3. SubSeq(s \o a, 1, Len(s)) = s
  <2>1. CASE Len(s) = 0
    <3>1. SubSeq(s \o a, 1, 0) = <<>> /\ s = <<>>
      BY <2>1, SubSeqEmpty
    <3> QED  BY <2>1, <3>1
  <2>2. CASE Len(s) > 0
    <3>1. SubSeq(s \o a, 1, Len(s)) = SubSeq(s, 1, Len(s))
      BY <1>1, <2>2, SubSeqOfConcat1
    <3> QED  BY <1>2, <3>1
  <2> QED  BY <1>1, <2>1, <2>2
<1>4. Len(s \o a) = Len(s) + Len(a) /\ Len(s) = Len(s) + 0
  <2>1. Len(s \o a) = Len(s) + Len(a)
    OBVIOUS
  <2>2. Len(s) = Len(s) + 0
    BY <1>1
  <2> QED  BY <2>1, <2>2
<1>5. Grows(s, s)
  BY <1>2, <1>4, NoneIsFew, Zenon DEF Grows
<1> DEFINE t == s \o a
<1>6. Grows(s, t)
  <2> HIDE DEF t
  <2>1. Len(t) = Len(s) + Len(a) /\ SubSeq(t, 1, Len(s)) = s
    BY <1>3, <1>4 DEF t
  <2> QED  BY <1>1, <2>1 DEF Grows
<1> QED  BY <1>5, <1>6

\* An operation that leaves the queue alone.
LEMMA Rests ==
  ASSUME NEW k \in Kbds, NEW l, l.out = k.out
  PROVE  Grows(k.out, l.out)
<1>1. k.out \in Seq(Entry) /\ <<>> \in Seq(Entry) /\ Len(<<>>) <= 3
  BY Fields
<1>2. Grows(k.out, k.out)
  BY <1>1, GrowsBy
<1> QED  BY <1>2

\* Answers of at most three bytes.
LEMMA RepliesGrow ==
  ASSUME NEW k \in Kbds, NEW bytes \in Seq(Byte), Len(bytes) <= 3, NEW aux \in BOOLEAN
  PROVE  Grows(k.out, Replies(k, bytes, aux).out)
<1> DEFINE added == [i \in DOMAIN bytes |-> [byte |-> bytes[i], aux |-> aux]]
           long  == k.out \o added
           queued == [k EXCEPT !.out = long]
<1>1. added \in Seq(Entry) /\ Len(added) <= 3
  <2>1. DOMAIN bytes = 1 .. Len(bytes) /\ Len(bytes) \in Nat
    OBVIOUS
  <2>2. \A i \in DOMAIN bytes : [byte |-> bytes[i], aux |-> aux] \in Entry
    BY DEF Entry
  <2>3. added \in [1 .. Len(bytes) -> Entry]
    BY <2>1, <2>2
  <2> QED
    <3> HIDE DEF added
    <3> QED  BY <2>1, <2>3
<1>2. k.out \in Seq(Entry)
  BY Fields
<1>3. long \in Seq(Entry) /\ Grows(k.out, long)
  <2> HIDE DEF added
  <2> QED  BY <1>1, <1>2, GrowsBy
<1>4. queued \in Kbds /\ queued.out = long
  <2> HIDE DEF long
  <2> QED  BY <1>3 DEF Kbds, Entry
<1>5. Replies(k, bytes, aux) = RefreshIrq(queued)
  BY DEF Replies
<1> QED
  <2> HIDE DEF queued, long
  <2> QED  BY <1>3, <1>4, <1>5, RefreshType

LEMMA ReplyGrows ==
  ASSUME NEW k \in Kbds, NEW b \in Byte
  PROVE  Grows(k.out, Reply(k, b).out)
<1>1. <<b>> \in Seq(Byte) /\ Len(<<b>>) <= 3
  OBVIOUS
<1> QED  BY <1>1, RepliesGrow DEF Reply

\* The answers of the keyboard have one to three bytes.
LEMMA SaysLength ==
  /\ Len(Says(<<"ack">>)) <= 3
  /\ Len(Says(<<"ack", "batOk">>)) <= 3
  /\ Len(Says(<<"ack", "set2">>)) <= 3
  /\ Len(Says(<<"ack", "id1", "id2">>)) <= 3
<1>1. ASSUME NEW names \in Seq(Fixed), Len(names) <= 3
      PROVE  Len(Says(names)) <= 3
  <2>1. DOMAIN names = 1 .. Len(names) /\ Len(names) \in Nat
    OBVIOUS
  <2>2. Says(names) \in [1 .. Len(names) -> {Says(names)[i] : i \in 1 .. Len(names)}]
    BY <2>1 DEF Says
  <2> DEFINE says == Says(names)
  <2> HIDE DEF says
  <2>3. says \in [1 .. Len(names) -> {says[i] : i \in 1 .. Len(names)}]
    BY <2>2 DEF says
  <2>4. Len(says) = Len(names)
    BY <2>1, <2>3
  <2> QED  BY <1>1, <2>4 DEF says
<1>2. {"ack", "batOk", "set2", "id1", "id2"} \subseteq Fixed
  BY DEF Fixed
<1>3. /\ <<"ack">> \in Seq(Fixed) /\ <<"ack", "batOk">> \in Seq(Fixed)
      /\ <<"ack", "set2">> \in Seq(Fixed) /\ <<"ack", "id1", "id2">> \in Seq(Fixed)
  BY <1>2
<1>4. /\ Len(<<"ack">>) <= 3 /\ Len(<<"ack", "batOk">>) <= 3
      /\ Len(<<"ack", "set2">>) <= 3 /\ Len(<<"ack", "id1", "id2">>) <= 3
  OBVIOUS
<1> QED  BY <1>1, <1>3, <1>4

\* What happens to the queue.
Ordered(k, l) ==
  Grows(k.out, l.out) \/ (k.out # <<>> /\ l.out = Tail(k.out))

LEMMA PushOrdered ==
  ASSUME NEW k \in Kbds, NEW s \in Scancodes
  PROVE  Ordered(k, PushScancode(k, s))
<1>1. CASE k.scanning
  BY <1>1, Answers, ReplyGrows DEF PushScancode, Ordered
<1>2. CASE ~k.scanning
  BY <1>2, Rests DEF PushScancode, Ordered
<1> QED  BY <1>1, <1>2

LEMMA ReadOrdered ==
  ASSUME NEW k \in Kbds
  PROVE  Ordered(k, ReadData(k))
<1> DEFINE rest == IF k.out = <<>> THEN k.out ELSE Tail(k.out)
           q    == [k EXCEPT !.out = rest]
<1>1. rest \in Seq(Entry)
  BY Fields
<1>2. q \in Kbds /\ q.out = rest
  <2> HIDE DEF rest
  <2> QED  BY <1>1 DEF Kbds, Entry
<1>3. ReadData(k) = RefreshIrq(q)
  BY DEF ReadData
<1>4. ReadData(k).out = rest
  <2> HIDE DEF q
  <2> QED  BY <1>2, <1>3, RefreshType
<1>5. CASE k.out = <<>>
  BY <1>4, <1>5, Rests DEF Ordered
<1>6. CASE k.out # <<>>
  BY <1>4, <1>6 DEF Ordered
<1> QED  BY <1>5, <1>6

LEMMA CommandOrdered ==
  ASSUME NEW k \in Kbds, NEW cmd \in Command
  PROVE  Ordered(k, WriteCommand(k, cmd))
<1> DEFINE w == [k EXCEPT !.cmdWritten = TRUE]
           l == Commanded(w, cmd)
<1>1. w \in Kbds /\ w.out = k.out /\ w.ctr = k.ctr
  BY DEF Kbds
<1>2. WriteCommand(k, cmd) = l
  BY DEF WriteCommand
<1> HIDE DEF w
<1> SUFFICES Grows(k.out, l.out)
  BY <1>2 DEF Ordered
<1>3. CASE cmd = "readCtr"
  <2>1. l = Reply(w, <<"ctr", w.ctr>>)
    BY <1>3 DEF Commanded, FixedAnswer, TakesArgument
  <2> QED  BY <1>1, <2>1, Fields, Answers, ReplyGrows
<1>4. CASE cmd \in FixedAnswer
  <2>1. l = Reply(w, <<"fixed", cmd>>)
    BY <1>4 DEF Commanded, FixedAnswer, TakesArgument
  <2> QED  BY <1>1, <1>4, <2>1, Answers, ReplyGrows DEF Fixed
<1>5. CASE cmd = "selfTest"
  <2> DEFINE p == [w EXCEPT !.ctr = @ \cup {"sys"}]
  <2>1. p \in Kbds /\ p.out = w.out
    BY <1>1 DEF Kbds, CtrFlag
  <2>2. l = Reply(p, <<"fixed", "selfTest">>)
    BY <1>5 DEF Commanded, FixedAnswer, TakesArgument
  <2>3. <<"fixed", "selfTest">> \in Byte
    BY Answers DEF Fixed
  <2> HIDE DEF p
  <2> QED  BY <1>1, <2>1, <2>2, <2>3, ReplyGrows
<1>6. CASE cmd \in TakesArgument \cup {"disableAux", "enableAux", "disableKbd", "enableKbd", "pulseReset"}
  <2>1. l.out = w.out
    BY <1>1, <1>6 DEF Commanded, FixedAnswer, TakesArgument, Kbds
  <2> QED  BY <1>1, <2>1, Rests
<1> QED  BY <1>3, <1>4, <1>5, <1>6 DEF Command

LEMMA WriteOrdered ==
  ASSUME NEW k \in Kbds, NEW b \in Bytes
  PROVE  Ordered(k, WriteData(k, b))
<1> DEFINE w == [k EXCEPT !.cmdWritten = FALSE]
           l == WriteData(k, b)
<1>1. w \in Kbds /\ w.out = k.out /\ w.pending = k.pending /\ w.devPending = k.devPending
  BY DEF Kbds
<1>2. l = IF k.pending # None THEN ControllerArgument(w, b)
          ELSE IF k.devPending # None THEN DeviceArgument(w, b)
          ELSE DeviceCommanded(w, b)
  BY DEF WriteData
<1> SUFFICES Grows(k.out, l.out)
  BY DEF Ordered
<1> HIDE DEF w, l
<1>3. CASE k.pending # None
  <2> DEFINE t == [w EXCEPT !.pending = None]
  <2>1. t \in Kbds /\ t.out = k.out
    BY <1>1 DEF Kbds
  <2>2. l = ControllerArgument(w, b)
    BY <1>2, <1>3
  <2>3. CASE w.pending = "writeCtr"
    <3> DEFINE c == [t EXCEPT !.ctr = CtrOf[b]]
    <3>1. c \in Kbds /\ c.out = k.out
      BY <2>1, KbdAssumption DEF Kbds
    <3>2. l = RefreshIrq(c)
      BY <2>2, <2>3 DEF ControllerArgument
    <3> HIDE DEF c
    <3> QED  BY <3>1, <3>2, RefreshType, Rests
  <2>4. CASE w.pending = "echoKbd"
    <3>1. l = Reply(t, <<"echoed", b>>)
      BY <2>2, <2>4 DEF ControllerArgument
    <3> HIDE DEF t
    <3> QED  BY <2>1, <3>1, Answers, ReplyGrows
  <2>5. CASE w.pending = "echoAux"
    <3>1. l = Replies(t, <<<<"echoed", b>>>>, TRUE)
      BY <2>2, <2>5 DEF ControllerArgument
    <3>2. <<<<"echoed", b>>>> \in Seq(Byte) /\ Len(<<<<"echoed", b>>>>) <= 3
      BY Answers
    <3> HIDE DEF t
    <3> QED  BY <2>1, <3>1, <3>2, RepliesGrow
  <2>6. CASE w.pending \notin {"writeCtr", "echoKbd", "echoAux"}
    <3>1. l = t
      BY <2>2, <2>6 DEF ControllerArgument
    <3> QED  BY <2>1, <3>1, Rests
  <2> QED  BY <2>3, <2>4, <2>5, <2>6
<1>4. CASE k.pending = None /\ k.devPending # None
  <2> DEFINE t == [w EXCEPT !.devPending = None]
             says == Says(IF w.devPending = "scanSet" /\ b = "zero"
                          THEN <<"ack", "set2">> ELSE <<"ack">>)
  <2>1. t \in Kbds /\ t.out = k.out
    BY <1>1 DEF Kbds
  <2>2. l = Replies(t, says, FALSE)
    BY <1>2, <1>4 DEF DeviceArgument
  <2>3. says \in Seq(Byte) /\ Len(says) <= 3
    BY SaysType, SaysLength
  <2> HIDE DEF t, says
  <2> QED  BY <2>1, <2>2, <2>3, RepliesGrow
<1>5. CASE k.pending = None /\ k.devPending = None
  <2>1. l = DeviceCommanded(w, b)
    BY <1>2, <1>5
  <2>2. \E v \in Kbds, bytes \in Seq(Byte) :
          v.out = w.out /\ Len(bytes) <= 3 /\ l = Replies(v, bytes, FALSE)
    <3> USE SaysType, SaysLength
    <3>1. CASE b = "reset"
      BY <1>1, <2>1, <3>1 DEF DeviceCommanded
    <3>2. CASE b = "echo"
      <4>1. <<<<"echoed", b>>>> \in Seq(Byte) /\ Len(<<<<"echoed", b>>>>) <= 3
        BY Answers
      <4> QED  BY <1>1, <2>1, <3>2, <4>1 DEF DeviceCommanded, Reply
    <3>3. CASE b = "identify"
      BY <1>1, <2>1, <3>3 DEF DeviceCommanded
    <3>4. CASE b = "enable"
      <4> DEFINE v == [w EXCEPT !.scanning = TRUE, !.driverAttached = TRUE]
      <4>1. v \in Kbds /\ v.out = w.out
        BY <1>1 DEF Kbds
      <4> QED  BY <2>1, <3>4, <4>1 DEF DeviceCommanded
    <3>5. CASE b = "disable"
      <4> DEFINE v == [w EXCEPT !.scanning = FALSE]
      <4>1. v \in Kbds /\ v.out = w.out
        BY <1>1 DEF Kbds
      <4> QED  BY <2>1, <3>5, <4>1 DEF DeviceCommanded
    <3>6. CASE b \in {"scanSet", "setLeds"}
      <4> DEFINE v == [w EXCEPT !.devPending = b]
      <4>1. v \in Kbds /\ v.out = w.out
        BY <1>1, <3>6 DEF Kbds
      <4> QED  BY <2>1, <3>6, <4>1 DEF DeviceCommanded
    <3>7. CASE b \notin DeviceCommand
      BY <1>1, <2>1, <3>7 DEF DeviceCommanded, DeviceCommand
    <3> QED  BY <3>1, <3>2, <3>3, <3>4, <3>5, <3>6, <3>7 DEF DeviceCommand
  <2>3. PICK v \in Kbds, bytes \in Seq(Byte) :
          v.out = w.out /\ Len(bytes) <= 3 /\ l = Replies(v, bytes, FALSE)
    BY <2>2
  <2> QED  BY <1>1, <2>3, RepliesGrow
<1> QED  BY <1>3, <1>4, <1>5

\* Whatever is interleaved, bytes leave the queue in the order in which they came:
\* an operation takes at most the head and adds only at the end (read_data, reply).
THEOREM QueueInOrder == Spec => QueueOrder
<1> DEFINE A == \/ \E n \in 0..3 : /\ Len(kbd'.out) = Len(kbd.out) + n
                                   /\ SubSeq(kbd'.out, 1, Len(kbd.out)) = kbd.out
                \/ kbd.out # <<>> /\ kbd'.out = Tail(kbd.out)
<1>1. TypeOK /\ [Next]_kbd => [A]_kbd
  <2> SUFFICES ASSUME TypeOK, Next  PROVE Ordered(kbd, kbd')
    BY DEF Ordered, Grows
  <2> USE DEF TypeOK
  <2>1. ASSUME NEW s \in Scancodes, KeyEvent(s)  PROVE Ordered(kbd, kbd')
    BY <2>1, PushOrdered DEF KeyEvent
  <2>2. ASSUME NEW c \in Command, GuestCommands(c)  PROVE Ordered(kbd, kbd')
    BY <2>2, CommandOrdered DEF GuestCommands
  <2>3. ASSUME NEW b \in Bytes, GuestWrites(b)  PROVE Ordered(kbd, kbd')
    BY <2>3, WriteOrdered DEF GuestWrites
  <2>4. CASE GuestReads
    BY <2>4, ReadOrdered DEF GuestReads
  <2>5. CASE CpuTakesIrq1
    <3>1. kbd' = TakeIrq1(kbd) /\ TakeIrq1(kbd).out = kbd.out
      BY <2>5 DEF CpuTakesIrq1, TakeIrq1, Kbds
    <3> QED  BY <3>1, Rests DEF Ordered
  <2> QED  BY <2>1, <2>2, <2>3, <2>4, <2>5 DEF Next
<1> QED  BY <1>1, TypeCorrect, PTL DEF Spec, QueueOrder
=============================================================================
