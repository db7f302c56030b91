-------------------------------- MODULE Pit --------------------------------
(***************************************************************************)
(* The 8254 interval timer (src/pit.rs).                                   *)
(*                                                                         *)
(* The timer is one record with a function over its three channels.  A     *)
(* byte is a digit in base Radix (256 in the code) and a count is two of   *)
(* them, the low one first.  The operating mode and the BCD flag are left  *)
(* out: the code stores them and never reads them.                         *)
(***************************************************************************)
EXTENDS Integers

CONSTANTS
  Radix,      \* values of a byte (256 in the code)
  Clocks,     \* timer clocks the CPU loop passes in one tick (4 in the code)
  Used        \* bound of the model: channels the guest programs

Channel == 0 .. 2
Byte    == 0 .. Radix - 1
Count   == 0 .. Radix * Radix - 1
Access  == {"latch", "lsb", "msb", "word"}      \* bits 5-4 of a control word

ASSUME PitAssumption ==
  /\ Radix \in Nat \ {0}
  /\ Clocks \in Nat \ {0}
  /\ Used \subseteq Channel

Low(n)          == n % Radix
High(n)         == n \div Radix
Word(low, high) == low + Radix * high

\* A counting channel; lsbPending and lsb serve its reads and its writes alike.
Channels == [count: Count, reload: Count, access: Access, lsbPending: BOOLEAN, lsb: Byte]

Pits == [ ch:      [Channel -> Channels],
          active:  Channel,
          gate:    BOOLEAN,
          out:     BOOLEAN,
          speaker: BOOLEAN,
          refresh: BOOLEAN,
          irq0:    BOOLEAN ]

\* The operators named Slip... are slips a change to the code could make, each
\* before the definition it gets wrong: the properties must notice them.

VARIABLES
  pit,
  since       \* history: clocks since channel 0 was last loaded or wrapped

vars == <<pit, since>>

New == [ ch      |-> [c \in Channel |-> [count |-> 0, reload |-> 0, access |-> "word",
                                         lsbPending |-> FALSE, lsb |-> 0]],
         active  |-> 0,
         gate    |-> FALSE,
         out     |-> FALSE,
         speaker |-> FALSE,
         refresh |-> FALSE,
         irq0    |-> FALSE ]

----------------------------------------------------------------------------
(* The methods, as operators on the record.                                *)

\* A control word; the read-back command, channel 3, does nothing.
WriteControl(t, c, access) ==
  IF c = 3 THEN t ELSE [t EXCEPT !.active = c, !.ch[c].access = access]

\* What a data byte b makes of the channel d: every access mode but the single
\* halves takes the low byte first and loads with the high one.
FirstHalf(d) == d.access \in {"latch", "word"} /\ ~d.lsbPending

Loaded(d, n) == [d EXCEPT !.reload = n, !.count = n]

\* The low byte of a word takes effect before the high one has come.
SlipByteWritten(d, b) ==
  IF FirstHalf(d) THEN [Loaded(d, Word(b, High(d.reload))) EXCEPT !.lsb = b, !.lsbPending = TRUE]
  ELSE [Loaded(d, Word(d.lsb, b)) EXCEPT !.lsbPending = FALSE]

ByteWritten(d, b) ==
  CASE d.access = "lsb" -> Loaded(d, Word(b, High(d.reload)))
    [] d.access = "msb" -> Loaded(d, Word(Low(d.reload), b))
    [] FirstHalf(d)     -> [d EXCEPT !.lsb = b, !.lsbPending = TRUE]
    [] OTHER            -> [Loaded(d, Word(d.lsb, b)) EXCEPT !.lsbPending = FALSE]

\* write_data goes to the channel of the last control word.  A load of channel 2
\* takes its OUT line low.
WriteData(t, b) ==
  LET d == t.ch[t.active]
  IN  [t EXCEPT !.ch[t.active] = ByteWritten(d, b),
                !.out = @ /\ (t.active # 2 \/ FirstHalf(d))]

\* read_data goes to the port's own channel.
ByteRead(t, c) ==
  LET d == t.ch[c]
  IN  IF d.access = "lsb" \/ FirstHalf(d) THEN Low(d.count) ELSE High(d.count)

ReadData(t, c) ==
  LET d == t.ch[c]
  IN  IF d.access \in {"lsb", "msb"} THEN t
      ELSE IF d.lsbPending THEN [t EXCEPT !.ch[c].lsbPending = FALSE]
      ELSE [t EXCEPT !.ch[c].lsbPending = TRUE, !.ch[c].lsb = Low(d.count)]

WritePort61(t, gate, speaker) == [t EXCEPT !.gate = gate, !.speaker = speaker]
ReadPort61(t)                 == [t EXCEPT !.refresh = ~@]

\* One tick of n clocks.  Channel 0 wraps to its reload value and asserts IRQ0,
\* and drops the clocks by which it overshot; channel 1 wraps silently; channel
\* 2 counts while its gate is high until it raises OUT.
SlipWraps(t, n) == t.ch[0].count > 0 /\ t.ch[0].count <= n + 1        \* a clock early
Wraps(t, n)   == t.ch[0].count > 0 /\ t.ch[0].count <= n
SlipOneShot(d, n) == IF d.count > n THEN d.count - n ELSE 0           \* no reload
Counted(d, n) == IF d.count > n THEN d.count - n ELSE IF d.count > 0 THEN d.reload ELSE 0

SlipGated(t) == t.gate /\ ~t.out /\ t.ch[2].count > 0                 \* stands at zero
Gated(t)      == t.gate /\ ~t.out
Expires(t, n) == Gated(t) /\ t.ch[2].count <= n

\* Channel 2 runs on below zero.
SlipCountAfter(t, c, n) ==
  IF c # 2 THEN Counted(t.ch[c], n)
  ELSE IF Gated(t) THEN t.ch[2].count - n ELSE t.ch[2].count

CountAfter(t, c, n) ==
  LET d == t.ch[c]
  IN  IF c # 2 THEN Counted(d, n)
      ELSE IF Expires(t, n) THEN 0
      ELSE IF Gated(t) THEN d.count - n ELSE d.count

Tick(t, n) ==
  [t EXCEPT !.ch   = [c \in Channel |-> [@[c] EXCEPT !.count = CountAfter(t, c, n)]],
            !.out  = @ \/ Expires(t, n),
            !.irq0 = @ \/ Wraps(t, n)]

\* The CPU loop consumes the interrupt as an edge (cpu.rs).
TakeIrq0(t) == [t EXCEPT !.irq0 = FALSE]

----------------------------------------------------------------------------
(* The timer between an arbitrary guest and the CPU loop.                  *)

Init == pit = New /\ since = 0

LoadsTimer == pit.active = 0 /\ ~FirstHalf(pit.ch[0])

GuestControls(c, access) == pit' = WriteControl(pit, c, access) /\ UNCHANGED since
GuestWrites(b) ==
  /\ pit' = WriteData(pit, b)
  /\ since' = IF LoadsTimer THEN 0 ELSE since
GuestReads(c)            == pit' = ReadData(pit, c) /\ UNCHANGED since
GuestWrites61(g, s)      == pit' = WritePort61(pit, g, s) /\ UNCHANGED since
GuestReads61             == pit' = ReadPort61(pit) /\ UNCHANGED since

\* The CPU loop takes the edge of one tick before the next (cpu.rs:2287-2300).
CpuTicks ==
  /\ ~pit.irq0
  /\ pit' = Tick(pit, Clocks)
  /\ since' = IF pit.ch[0].count = 0 \/ Wraps(pit, Clocks) THEN 0 ELSE since + Clocks
CpuTakesIrq0 == pit.irq0 /\ pit' = TakeIrq0(pit) /\ UNCHANGED since

Next ==
  \/ \E c \in Used \cup {3}, access \in Access : GuestControls(c, access)
  \/ pit.active \in Used /\ \E b \in Byte : GuestWrites(b)
  \/ \E c \in Used : GuestReads(c)
  \/ \E g, s \in BOOLEAN : GuestWrites61(g, s)
  \/ GuestReads61
  \/ CpuTicks
  \/ CpuTakesIrq0

Spec == Init /\ [][Next]_vars

\* The run loop ticks the timer for as long as the machine runs, whatever the
\* guest does (Cpu::run); the guest itself owes nothing.
FairSpec == Spec /\ WF_vars(CpuTicks) /\ WF_vars(CpuTakesIrq0)

----------------------------------------------------------------------------
(* Properties.                                                             *)

\* Counts, reload values and latched bytes stay in range under every order of
\* half-written words, mode changes and ticks: no subtraction of tick underflows.
TypeOK == pit \in Pits /\ since \in Nat

\* A channel with a reload value never stands still at zero, and channel 0 is at
\* every moment exactly as far below its reload value as clocks have passed since
\* it was loaded or last wrapped, whatever the guest wrote meanwhile: half of a
\* word changes nothing (write_ch0, tick).
Countdown ==
  /\ pit.ch[0].count + since = pit.ch[0].reload
  /\ \A c \in {0, 1} : pit.ch[c].reload > 0 => pit.ch[c].count > 0

\* IRQ0 rises only at the first tick by which a whole period of the programmed
\* rate has passed since the last edge or load: never early, never a tick late.
EdgeOnTime ==
  [][ ~pit.irq0 /\ pit'.irq0
      => /\ since < pit.ch[0].reload /\ pit.ch[0].reload <= since + Clocks
         /\ pit'.ch[0].count = pit.ch[0].reload ]_vars

\* pit.rs:45-48 and 250-252: once OUT is high it stays high until a count is
\* loaded into channel 2, and a channel whose OUT is high has run out.
OutHeld ==
  [][ /\ pit.out /\ ~pit'.out => pit'.ch[2].count = pit'.ch[2].reload /\ pit.active = 2
      /\ pit'.out => pit'.ch[2].count = 0 ]_vars

\* A programmed timer keeps interrupting: unless the guest keeps reloading it or
\* stops it with a zero count, IRQ0 is asserted again and again.
Reload == \E b \in Byte : GuestWrites(b) /\ LoadsTimer
TimerLives ==
  []<>(pit.ch[0].reload = 0) \/ []<><<Reload>>_vars \/ []<>pit.irq0

\* The loop of a guest that calibrates against channel 2 ends: with the gate
\* left high and no further count written, OUT goes high.
Load2 == \E b \in Byte : GuestWrites(b) /\ pit.active = 2 /\ ~FirstHalf(pit.ch[2])
CalibrationEnds ==
  []<>(~pit.gate) \/ []<><<Load2>>_vars \/ <>[]pit.out
=============================================================================
