------------------------------ MODULE PitProofs ------------------------------
(***************************************************************************)
(* The timer of module Pit for bytes of any size and ticks of any length.  *)
(***************************************************************************)
EXTENDS Pit, TLAPS

\* Two bytes make a count, and a count is two bytes (the 16-bit registers).
LEMMA Halves ==
  ASSUME NEW n \in Count
  PROVE  Low(n) \in Byte /\ High(n) \in Byte
<1> USE PitAssumption
<1>1. Low(n) \in Byte
  BY SMT DEF Low, Byte, Count
<1>2. High(n) \in Byte
  <2>1. n = Radix * (n \div Radix) + (n % Radix) /\ n % Radix >= 0 /\ n \div Radix \in Int
    BY SMT DEF Count
  <2> DEFINE q == n \div Radix
  <2>2. Radix * q < Radix * Radix /\ Radix * q > -Radix
    BY <2>1, SMT DEF Count
  <2>3. q \in 0 .. Radix - 1
    <3> HIDE DEF q
    <3>1. q \in Int
      BY <2>1 DEF q
    <3>2. CASE q >= Radix
      <4>1. Radix * q >= Radix * Radix
        BY <3>1, <3>2, SMT
      <4> QED  BY <4>1, <2>2, <3>1, SMT
    <3>3. CASE q <= -1
      <4>1. Radix * q <= -Radix
        BY <3>1, <3>3, SMT
      <4> QED  BY <4>1, <2>2, <3>1, SMT
    <3> QED  BY <3>1, <3>2, <3>3, SMT
  <2> QED  BY <2>3 DEF High, Byte
<1> QED  BY <1>1, <1>2

\* A count never leaves its 16 bits: two bytes put together are a count.
LEMMA WordIsCount ==
  ASSUME NEW low \in Byte, NEW high \in Byte
  PROVE  Word(low, high) \in Count
<1> USE PitAssumption
<1>1. Radix * high \in Nat /\ Radix * high <= Radix * (Radix - 1)
  BY SMT DEF Byte
<1>2. Radix * (Radix - 1) = Radix * Radix - Radix /\ Radix * Radix \in Nat
  BY SMT
<1> QED  BY <1>1, <1>2, SMT DEF Word, Byte, Count

\* What a data byte makes of a channel is a channel, and loads it or keeps its count.
LEMMA ByteWrittenType ==
  ASSUME NEW d \in Channels, NEW b \in Byte
  PROVE  /\ ByteWritten(d, b) \in Channels
         /\ FirstHalf(d) => /\ ByteWritten(d, b).count = d.count
                            /\ ByteWritten(d, b).reload = d.reload
         /\ ~FirstHalf(d) => ByteWritten(d, b).count = ByteWritten(d, b).reload
<1>1. /\ d.count \in Count /\ d.reload \in Count /\ d.lsb \in Byte
      /\ d.access \in Access /\ d.lsbPending \in BOOLEAN
  BY DEF Channels
<1>2. \A n \in Count : Loaded(d, n) \in Channels
                       /\ Loaded(d, n).count = n /\ Loaded(d, n).reload = n
  BY DEF Loaded, Channels
<1>3. CASE d.access = "lsb"
  <2>1. Word(b, High(d.reload)) \in Count
    BY <1>1, Halves, WordIsCount
  <2>2. ByteWritten(d, b) = Loaded(d, Word(b, High(d.reload)))
    BY <1>3 DEF ByteWritten, FirstHalf
  <2> QED  BY <1>2, <1>3, <2>1, <2>2 DEF FirstHalf
<1>4. CASE d.access = "msb"
  <2>1. Word(Low(d.reload), b) \in Count
    BY <1>1, Halves, WordIsCount
  <2>2. ByteWritten(d, b) = Loaded(d, Word(Low(d.reload), b))
    BY <1>4 DEF ByteWritten, FirstHalf
  <2> QED  BY <1>2, <1>4, <2>1, <2>2 DEF FirstHalf
<1>5. CASE d.access \notin {"lsb", "msb"} /\ FirstHalf(d)
  <2>1. ByteWritten(d, b) = [d EXCEPT !.lsb = b, !.lsbPending = TRUE]
    BY <1>5 DEF ByteWritten, FirstHalf
  <2> QED  BY <1>5, <2>1 DEF Channels
<1>6. CASE d.access \notin {"lsb", "msb"} /\ ~FirstHalf(d)
  <2>1. Word(d.lsb, b) \in Count
    BY <1>1, WordIsCount
  <2> DEFINE loaded == Loaded(d, Word(d.lsb, b))
  <2>2. ByteWritten(d, b) = [loaded EXCEPT !.lsbPending = FALSE]
    BY <1>6 DEF ByteWritten, FirstHalf
  <2>3. loaded \in Channels /\ loaded.count = loaded.reload
    BY <1>2, <2>1
  <2> QED
    <3> HIDE DEF loaded
    <3> QED  BY <1>6, <2>2, <2>3 DEF Channels
<1> QED  BY <1>3, <1>4, <1>5, <1>6

\* A tick leaves every count a count.
LEMMA CountAfterType ==
  ASSUME NEW t \in Pits, NEW c \in Channel
  PROVE  CountAfter(t, c, Clocks) \in Count
<1> DEFINE d == t.ch[c]
<1>1. d.count \in Count /\ d.reload \in Count
  BY DEF Pits, Channels
<1>2. 0 \in Count
  BY PitAssumption, SMT DEF Count
<1>3. d.count > Clocks => d.count - Clocks \in Count
  BY <1>1, PitAssumption, SMT DEF Count
<1>4. d.count <= Clocks \/ d.count > Clocks
  BY <1>1, PitAssumption, SMT DEF Count
<1>5. Counted(d, Clocks) \in Count
  BY <1>1, <1>2, <1>3 DEF Counted
<1>6. CASE c # 2
  BY <1>5, <1>6 DEF CountAfter
<1>7. CASE c = 2
  BY <1>1, <1>2, <1>3, <1>4, <1>7 DEF CountAfter, Expires
<1> QED  BY <1>6, <1>7

\* A tick keeps the timer's type.
LEMMA TickType ==
  ASSUME NEW t \in Pits
  PROVE  Tick(t, Clocks) \in Pits
<1>1. t.ch \in [Channel -> Channels] /\ t.out \in BOOLEAN /\ t.irq0 \in BOOLEAN
  BY DEF Pits
<1>2. \A c \in Channel : CountAfter(t, c, Clocks) \in Count
  BY CountAfterType
<1> DEFINE ch == [c \in Channel |-> [t.ch[c] EXCEPT !.count = CountAfter(t, c, Clocks)]]
<1>3. ch \in [Channel -> Channels]
  BY <1>1, <1>2 DEF Channels
<1>4. Tick(t, Clocks) = [t EXCEPT !.ch   = ch,
                                  !.out  = t.out \/ Expires(t, Clocks),
                                  !.irq0 = t.irq0 \/ Wraps(t, Clocks)]
  BY DEF Tick
<1>5. (t.out \/ Expires(t, Clocks)) \in BOOLEAN /\ (t.irq0 \/ Wraps(t, Clocks)) \in BOOLEAN
  OBVIOUS
<1> QED
  <2> HIDE DEF ch
  <2> QED  BY <1>3, <1>4, <1>5 DEF Pits

\* The invariant the theorems rest on: channel 0 counts down from its reload value,
\* no programmed channel stands still, and a channel 2 whose OUT is high has run out.
IInv == TypeOK /\ Countdown /\ (pit.out => pit.ch[2].count = 0)

\* The fields of a timer, one by one.
LEMMA Fields ==
  ASSUME NEW t \in Pits
  PROVE  /\ t.ch \in [Channel -> Channels] /\ t.active \in Channel
         /\ t.gate \in BOOLEAN /\ t.out \in BOOLEAN /\ t.speaker \in BOOLEAN
         /\ t.refresh \in BOOLEAN /\ t.irq0 \in BOOLEAN
         /\ \A c \in Channel : t.ch[c].count \in Nat /\ t.ch[c].reload \in Nat
BY PitAssumption, SMT DEF Pits, Channels, Count

\* The initial timer satisfies the invariant.
LEMMA InitIInv == Init => IInv
<1>1. 0 \in Count /\ 0 \in Byte
  BY PitAssumption, SMT DEF Count, Byte
<1>2. New \in Pits
  BY <1>1 DEF New, Pits, Channels, Channel, Access
<1> QED  BY <1>2 DEF Init, IInv, TypeOK, Countdown, New, Channel

\* Programming the timer through its data port keeps the invariant.
LEMMA WritesKeep ==
  ASSUME IInv, NEW b \in Byte, GuestWrites(b)
  PROVE  IInv'
<1> DEFINE d == pit.ch[pit.active]
           e == ByteWritten(d, b)
<1>1. pit \in Pits /\ since \in Nat
  BY DEF IInv, TypeOK
<1>2. d \in Channels /\ pit.active \in Channel
  BY <1>1, Fields
<1>3. /\ e \in Channels
      /\ FirstHalf(d) => e.count = d.count /\ e.reload = d.reload
      /\ ~FirstHalf(d) => e.count = e.reload
  BY <1>2, ByteWrittenType
<1>4. pit' = [pit EXCEPT !.ch[pit.active] = e,
                         !.out = @ /\ (pit.active # 2 \/ FirstHalf(d))]
  BY DEF GuestWrites, WriteData
<1>5. /\ pit'.ch = [pit.ch EXCEPT ![pit.active] = e]
      /\ pit'.out = (pit.out /\ (pit.active # 2 \/ FirstHalf(d)))
  BY <1>1, <1>4, Fields DEF Pits
<1>6. since' = IF pit.active = 0 /\ ~FirstHalf(d) THEN 0 ELSE since
  BY DEF GuestWrites, LoadsTimer
<1>7. TypeOK'
  <2> HIDE DEF d, e
  <2>1. pit' \in Pits
    <3>1. pit'.out \in BOOLEAN
      BY <1>1, <1>5, Fields
    <3>2. pit'.ch \in [Channel -> Channels]
      BY <1>1, <1>2, <1>3, <1>5, Fields
    <3>3. pit' = [pit EXCEPT !.ch = pit'.ch, !.out = pit'.out]
      BY <1>1, <1>4, <1>5 DEF Pits
    <3> QED  BY <1>1, <3>1, <3>2, <3>3 DEF Pits
  <2> QED  BY <2>1, <1>1, <1>6 DEF TypeOK
<1>8. \A c \in Channel : pit'.ch[c] = IF c = pit.active THEN e ELSE pit.ch[c]
  BY <1>1, <1>2, <1>5, Fields
<1>9. e.count \in Nat /\ e.reload \in Nat
  BY <1>3, PitAssumption, SMT DEF Channels, Count
<1>10. Countdown'
  <2>1. pit'.ch[0].count + since' = pit'.ch[0].reload
    <3>1. CASE pit.active = 0
      BY <1>1, <1>3, <1>6, <1>8, <1>9, <3>1 DEF IInv, Countdown, Channel
    <3>2. CASE pit.active # 0
      BY <1>6, <1>8, <3>2 DEF IInv, Countdown, Channel
    <3> QED  BY <3>1, <3>2
  <2>2. \A c \in {0, 1} : pit'.ch[c].reload > 0 => pit'.ch[c].count > 0
    BY <1>3, <1>8 DEF IInv, Countdown, Channel
  <2> QED  BY <2>1, <2>2 DEF Countdown
<1>11. pit'.out => pit'.ch[2].count = 0
  <2>1. 2 \in Channel /\ (pit.out => pit.ch[2].count = 0)
    BY DEF IInv, Channel
  <2>2. CASE pit.active # 2
    <3>1. pit'.ch[2] = pit.ch[2]
      BY <1>8, <2>1, <2>2
    <3> QED  BY <1>5, <2>1, <3>1
  <2>3. CASE pit.active = 2
    <3>1. pit'.ch[2] = e
      BY <1>8, <2>1, <2>3
    <3>2. pit'.out => pit.out /\ FirstHalf(d)
      BY <1>5, <2>3
    <3> QED  BY <1>3, <2>1, <2>3, <3>1, <3>2
  <2> QED  BY <2>2, <2>3
<1> QED  BY <1>7, <1>10, <1>11 DEF IInv

\* A tick keeps the invariant, and raises IRQ0 only when a period has passed.
LEMMA TicksKeep ==
  ASSUME IInv, CpuTicks
  PROVE  /\ IInv'
         /\ pit'.irq0 => /\ since < pit.ch[0].reload
                         /\ pit.ch[0].reload <= since + Clocks
                         /\ pit'.ch[0].count = pit.ch[0].reload
<1>1. pit \in Pits /\ since \in Nat /\ pit' = Tick(pit, Clocks) /\ Clocks \in Nat \ {0}
  BY PitAssumption DEF IInv, TypeOK, CpuTicks
<1>2. pit' \in Pits
  BY <1>1, TickType
<1>3. /\ \A c \in Channel : /\ pit'.ch[c].count = CountAfter(pit, c, Clocks)
                            /\ pit'.ch[c].reload = pit.ch[c].reload
      /\ pit'.out = (pit.out \/ Expires(pit, Clocks))
      /\ pit'.irq0 = Wraps(pit, Clocks)
  <2>1. \A c \in Channel : pit.ch[c] \in Channels
    BY <1>1, Fields
  <2>2. /\ pit'.ch = [c \in Channel |-> [pit.ch[c] EXCEPT !.count = CountAfter(pit, c, Clocks)]]
        /\ pit'.out = (pit.out \/ Expires(pit, Clocks))
        /\ pit'.irq0 = (pit.irq0 \/ Wraps(pit, Clocks))
    BY <1>1 DEF Tick, Pits
  <2>3. pit'.irq0 = Wraps(pit, Clocks)
    BY <2>2 DEF CpuTicks, Wraps
  <2>4. \A c \in Channel : /\ pit'.ch[c].count = CountAfter(pit, c, Clocks)
                           /\ pit'.ch[c].reload = pit.ch[c].reload
    BY <2>1, <2>2 DEF Channels
  <2> QED  BY <2>2, <2>3, <2>4
<1> DEFINE n == pit.ch[0].count
           r == pit.ch[0].reload
<1>4. n \in Nat /\ r \in Nat /\ n + since = r
  BY <1>1, Fields DEF IInv, Countdown, Channel
<1>5. /\ pit'.ch[0].count = Counted(pit.ch[0], Clocks)
      /\ pit'.ch[1].count = Counted(pit.ch[1], Clocks)
      /\ pit'.ch[2].count = CountAfter(pit, 2, Clocks)
  BY <1>3 DEF CountAfter, Channel
<1>6. since' = IF n = 0 \/ Wraps(pit, Clocks) THEN 0 ELSE since + Clocks
  BY DEF CpuTicks
<1>7. since' \in Nat
  BY <1>1, <1>6
<1>8. pit'.ch[0].count + since' = pit'.ch[0].reload
  <2>1. pit'.ch[0].reload = r
    BY <1>3 DEF Channel
  <2>2. /\ pit'.ch[0].count = IF n > Clocks THEN n - Clocks ELSE IF n > 0 THEN r ELSE 0
        /\ since' = IF n = 0 \/ (n > 0 /\ n <= Clocks) THEN 0 ELSE since + Clocks
    BY <1>5, <1>6 DEF Counted, Wraps
  <2> HIDE DEF n, r
  <2>3. CASE n > Clocks
    BY <1>1, <1>4, <2>1, <2>2, <2>3, SMT
  <2>4. CASE 0 < n /\ n <= Clocks
    BY <1>1, <1>4, <2>1, <2>2, <2>4, SMT
  <2>5. CASE n = 0
    <3>1. r = 0
      BY <2>5, <1>4 DEF IInv, Countdown, n, r
    <3> QED  BY <1>1, <1>4, <2>1, <2>2, <2>5, <3>1, SMT
  <2> QED  BY <1>1, <1>4, <2>3, <2>4, <2>5, SMT
<1>9. \A c \in {0, 1} : pit'.ch[c].reload > 0 => pit'.ch[c].count > 0
  <2> TAKE c \in {0, 1}
  <2>1. pit.ch[c].count \in Nat /\ pit.ch[c].reload \in Nat /\ c \in Channel
    BY <1>1, Fields DEF Channel
  <2>2. pit'.ch[c].count = Counted(pit.ch[c], Clocks) /\ pit'.ch[c].reload = pit.ch[c].reload
    BY <1>3, <1>5, <2>1
  <2>3. pit.ch[c].reload > 0 => pit.ch[c].count > 0
    BY DEF IInv, Countdown
  <2> QED  BY <1>1, <2>1, <2>2, <2>3, SMT DEF Counted
<1>10. pit'.out => pit'.ch[2].count = 0
  BY <1>3, <1>5 DEF IInv, CountAfter, Expires, Gated
<1>11. pit'.irq0 => since < r /\ r <= since + Clocks /\ pit'.ch[0].count = r
  <2> SUFFICES ASSUME pit'.irq0
               PROVE  since < r /\ r <= since + Clocks /\ pit'.ch[0].count = r
    OBVIOUS
  <2>1. n > 0 /\ n <= Clocks
    BY <1>3 DEF Wraps
  <2>2. pit'.ch[0].count = IF n > Clocks THEN n - Clocks ELSE IF n > 0 THEN r ELSE 0
    BY <1>5 DEF Counted
  <2> HIDE DEF n, r
  <2> QED  BY <1>1, <1>4, <2>1, <2>2, SMT
<1> QED  BY <1>2, <1>7, <1>8, <1>9, <1>10, <1>11 DEF IInv, TypeOK, Countdown

\* The steps that touch no count, no reload value and no OUT.
LEMMA OthersKeep ==
  ASSUME IInv,
         \/ \E c \in Used \cup {3}, access \in Access : GuestControls(c, access)
         \/ \E c \in Used : GuestReads(c)
         \/ \E g, s \in BOOLEAN : GuestWrites61(g, s)
         \/ GuestReads61
         \/ CpuTakesIrq0
  PROVE  /\ IInv' /\ pit'.out = pit.out
         /\ pit'.irq0 => pit.irq0
         /\ pit'.ch[2].count = pit.ch[2].count
<1>1. pit \in Pits /\ since \in Nat /\ since' = since
  BY DEF IInv, TypeOK, GuestControls, GuestReads, GuestWrites61, GuestReads61, CpuTakesIrq0
<1>2. \A c \in Channel : pit.ch[c] \in Channels /\ Low(pit.ch[c].count) \in Byte
  BY <1>1, Fields, Halves DEF Channels
<1> DEFINE Kept(t) == /\ t \in Pits /\ t.out = pit.out /\ (t.irq0 => pit.irq0)
                      /\ \A c \in Channel : /\ t.ch[c].count = pit.ch[c].count
                                           /\ t.ch[c].reload = pit.ch[c].reload
<1>3. \A c \in Channel, d \in Channels :
         d.count = pit.ch[c].count /\ d.reload = pit.ch[c].reload
         => Kept([pit EXCEPT !.ch[c] = d])
  BY <1>1, <1>2, Fields DEF Pits
<1>4. Kept(pit)
  BY <1>1
<1>5. ASSUME NEW c \in Used \cup {3}, NEW access \in Access, GuestControls(c, access)
      PROVE  Kept(pit')
  <2>1. CASE c = 3
    BY <1>4, <1>5, <2>1 DEF GuestControls, WriteControl
  <2>2. CASE c # 3
    <3>1. c \in Channel
      BY <2>2, PitAssumption
    <3> DEFINE d == [pit.ch[c] EXCEPT !.access = access]
               t == [pit EXCEPT !.ch[c] = d]
    <3>2. d \in Channels /\ d.count = pit.ch[c].count /\ d.reload = pit.ch[c].reload
      BY <1>2, <3>1 DEF Channels
    <3>3. Kept(t)
      BY <1>3, <3>1, <3>2
    <3>4. pit' = [t EXCEPT !.active = c]
      BY <1>1, <1>5, <2>2 DEF GuestControls, WriteControl, Pits
    <3> QED
      <4> HIDE DEF t
      <4> QED  BY <3>1, <3>3, <3>4 DEF Pits
  <2> QED  BY <2>1, <2>2
<1>6. ASSUME NEW c \in Used, GuestReads(c)
      PROVE  Kept(pit')
  <2>1. c \in Channel
    BY PitAssumption
  <2>2. CASE pit.ch[c].access \in {"lsb", "msb"}
    BY <1>4, <1>6, <2>2 DEF GuestReads, ReadData
  <2>3. CASE pit.ch[c].access \notin {"lsb", "msb"} /\ pit.ch[c].lsbPending
    <3> DEFINE d == [pit.ch[c] EXCEPT !.lsbPending = FALSE]
    <3>1. d \in Channels /\ d.count = pit.ch[c].count /\ d.reload = pit.ch[c].reload
      BY <1>2, <2>1 DEF Channels
    <3>2. pit' = [pit EXCEPT !.ch[c] = d]
      BY <1>1, <1>6, <2>3 DEF GuestReads, ReadData
    <3> QED  BY <1>3, <2>1, <3>1, <3>2
  <2>4. CASE pit.ch[c].access \notin {"lsb", "msb"} /\ ~pit.ch[c].lsbPending
    <3> DEFINE d == [pit.ch[c] EXCEPT !.lsbPending = TRUE, !.lsb = Low(pit.ch[c].count)]
    <3>1. d \in Channels /\ d.count = pit.ch[c].count /\ d.reload = pit.ch[c].reload
      BY <1>2, <2>1 DEF Channels
    <3>2. pit' = [pit EXCEPT !.ch[c] = d]
      BY <1>1, <1>6, <2>4 DEF GuestReads, ReadData, Pits
    <3> QED  BY <1>3, <2>1, <3>1, <3>2
  <2> QED  BY <2>2, <2>3, <2>4
<1>7. ASSUME NEW g \in BOOLEAN, NEW s \in BOOLEAN, GuestWrites61(g, s)
      PROVE  Kept(pit')
  BY <1>1, <1>7 DEF GuestWrites61, WritePort61, Pits
<1>8. ASSUME GuestReads61
      PROVE  Kept(pit')
  BY <1>1, <1>8 DEF GuestReads61, ReadPort61, Pits
<1>9. ASSUME CpuTakesIrq0
      PROVE  Kept(pit')
  BY <1>1, <1>9 DEF CpuTakesIrq0, TakeIrq0, Pits
<1>10. Kept(pit')
  BY <1>5, <1>6, <1>7, <1>8, <1>9
<1> QED
  BY <1>1, <1>10 DEF IInv, TypeOK, Countdown, Channel

\* Every step keeps the invariant.
LEMMA NextIInv == IInv /\ [Next]_vars => IInv'
<1> SUFFICES ASSUME IInv, [Next]_vars PROVE IInv'
  OBVIOUS
<1>1. CASE UNCHANGED vars
  BY <1>1 DEF vars, IInv, TypeOK, Countdown
<1>2. ASSUME NEW b \in Byte, GuestWrites(b)
      PROVE  IInv'
  BY <1>2, WritesKeep
<1>3. CASE CpuTicks
  BY <1>3, TicksKeep
<1> QED  BY <1>1, <1>2, <1>3, OthersKeep DEF Next

\* The invariant holds in every state of the timer.
THEOREM Invariance == Spec => []IInv
BY InitIInv, NextIInv, PTL DEF Spec

\* Every register keeps its width, whatever the guest writes (pit.rs).
THEOREM TypeCorrect == Spec => []TypeOK
BY Invariance, PTL DEF IInv

\* The countdown is exact for every byte size and tick length (write_ch0, tick).
THEOREM CountdownExact == Spec => []Countdown
BY Invariance, PTL DEF IInv

\* IRQ0 is raised at the first tick that completes a period, never otherwise.
THEOREM EdgesOnTime == Spec => EdgeOnTime
<1>1. IInv /\ [Next]_vars =>
        [ ~pit.irq0 /\ pit'.irq0
          => /\ since < pit.ch[0].reload /\ pit.ch[0].reload <= since + Clocks
             /\ pit'.ch[0].count = pit.ch[0].reload ]_vars
  <2> SUFFICES ASSUME IInv, Next, ~pit.irq0, pit'.irq0
               PROVE  /\ since < pit.ch[0].reload /\ pit.ch[0].reload <= since + Clocks
                      /\ pit'.ch[0].count = pit.ch[0].reload
    BY DEF vars
  <2>1. CASE CpuTicks
    BY <2>1, TicksKeep
  <2>2. ASSUME NEW b \in Byte, GuestWrites(b)
        PROVE  FALSE
    BY <2>2 DEF GuestWrites, WriteData, IInv, TypeOK, Pits
  <2> QED  BY <2>1, <2>2, OthersKeep DEF Next
<1> QED  BY <1>1, Invariance, PTL DEF Spec, EdgeOnTime

\* OUT stays high until a count is loaded into channel 2, and means that it ran out.
THEOREM OutIsHeld == Spec => OutHeld
<1>1. IInv /\ IInv' /\ [Next]_vars =>
        [ /\ pit.out /\ ~pit'.out => pit'.ch[2].count = pit'.ch[2].reload /\ pit.active = 2
          /\ pit'.out => pit'.ch[2].count = 0 ]_vars
  <2> SUFFICES ASSUME IInv, IInv', Next, pit.out, ~pit'.out
               PROVE  pit'.ch[2].count = pit'.ch[2].reload /\ pit.active = 2
    BY DEF vars, IInv
  <2>1. pit \in Pits
    BY DEF IInv, TypeOK
  <2>2. ASSUME CpuTicks PROVE FALSE
    BY <2>1, <2>2 DEF CpuTicks, Tick, Pits
  <2>3. ASSUME NEW b \in Byte, GuestWrites(b)
        PROVE  pit'.ch[2].count = pit'.ch[2].reload /\ pit.active = 2
    <3> DEFINE d == pit.ch[pit.active]
               e == ByteWritten(d, b)
    <3>1. pit.active = 2 /\ ~FirstHalf(d)
      BY <2>1, <2>3 DEF GuestWrites, WriteData, Pits
    <3>2. pit'.ch[2] = e
      <4>1. pit.ch \in [Channel -> Channels] /\ 2 \in Channel
        BY <2>1 DEF Pits, Channel
      <4> QED  BY <2>1, <2>3, <3>1, <4>1 DEF GuestWrites, WriteData, Pits
    <3>3. e.count = e.reload
      <4>1. d \in Channels
        BY <2>1 DEF Pits
      <4> QED  BY <3>1, <4>1, ByteWrittenType
    <3> QED  BY <3>1, <3>2, <3>3
  <2> QED  BY <2>2, <2>3, OthersKeep DEF Next
<1> QED  BY <1>1, Invariance, PTL DEF Spec, OutHeld
=============================================================================
