-------------------------------- MODULE Kbd --------------------------------
(***************************************************************************)
(* The 8042 keyboard controller (src/kbd.rs).                              *)
(*                                                                         *)
(* The controller is one record.  The command byte is the set of its       *)
(* flags; a byte in the output queue is a pair of a kind and a value, so   *)
(* that a read-back command byte, a scancode, an echoed byte and a fixed   *)
(* answer stay apart.  What the guest writes to port 0x60 is one of the    *)
(* constants Bytes: CtrOf says which flags it stands for when it is taken  *)
(* as a command byte, and the bytes named below are commands of the        *)
(* keyboard device.                                                        *)
(***************************************************************************)
EXTENDS Naturals, Sequences

CONSTANTS
  Bytes,        \* bytes the guest writes to port 0x60
  CtrOf,        \* the command-byte flags each of them sets
  Scancodes,    \* bytes of host key events
  MaxOut        \* bound of the model: bytes the output queue can hold

CtrFlag == {"kbdInt", "sys", "kbdDisable", "auxDisable", "translate"}

\* Device commands: reset 0xFF, echo 0xEE, identify 0xF2, enable and disable
\* scanning 0xF4 and 0xF5, scancode set 0xF0, and one that takes an argument
\* and no more (set LEDs 0xED, typematic rate 0xF3).  Every other byte is just
\* acknowledged; "zero" is the argument that queries the scancode set.
DeviceCommand == {"reset", "echo", "identify", "enable", "disable", "scanSet", "setLeds"}

ASSUME KbdAssumption ==
  /\ DeviceCommand \cup {"zero"} \subseteq Bytes
  /\ CtrOf \in [Bytes -> SUBSET CtrFlag]
  /\ MaxOut \in Nat

\* Controller commands that answer with a byte of their own: 0x21-0x3F, 0xA9,
\* 0xAB, 0xC0 and 0xD0.
FixedAnswer == {"readRam", "testAux", "testKbd", "readInput", "readOutput"}

\* Controller commands that wait for a byte at port 0x60.
TakesArgument == {"writeCtr", "writeRam", "writeOutput", "echoKbd", "echoAux", "sendAux"}

Fixed == FixedAnswer \cup {"ack", "selfTest", "batOk", "id1", "id2", "set2"}

Byte == ({"ctr"} \X SUBSET CtrFlag) \cup ({"fixed"} \X Fixed)
        \cup ({"scan"} \X Scancodes) \cup ({"echoed"} \X Bytes)

None == "none"

Kbds == [ out:            Seq([byte: Byte, aux: BOOLEAN]),
          ctr:            SUBSET CtrFlag,
          pending:        TakesArgument \cup {None},
          devPending:     {"scanSet", "setLeds", None},
          irq1:           BOOLEAN,
          cmdWritten:     BOOLEAN,
          scanning:       BOOLEAN,
          driverAttached: BOOLEAN ]

\* The operators named Slip... are slips a change to the code could make, each
\* before the definition it gets wrong: the properties must notice them.

VARIABLE kbd

New == [ out            |-> <<>>,
         ctr            |-> {"kbdInt", "sys", "auxDisable", "translate"},
         pending        |-> None,
         devPending     |-> None,
         irq1           |-> FALSE,
         cmdWritten     |-> FALSE,
         scanning       |-> TRUE,
         driverAttached |-> FALSE ]

----------------------------------------------------------------------------
(* The methods, as operators on the record.                                *)

\* A keyboard byte waits at the head and its interrupt is enabled.
HeadInterrupts(k) == k.out # <<>> /\ ~Head(k.out).aux /\ "kbdInt" \in k.ctr

\* IRQ1 follows the queue and forgets whose byte is at its head.
SlipRefreshIrq(k) == [k EXCEPT !.irq1 = k.out # <<>>]

RefreshIrq(k) == [k EXCEPT !.irq1 = HeadInterrupts(k)]

\* An answer overtakes what already waits.
SlipReplies(k, bytes, aux) ==
  RefreshIrq([k EXCEPT !.out = [i \in DOMAIN bytes |-> [byte |-> bytes[i], aux |-> aux]] \o @])

\* reply and reply_aux, for one byte or for the several of one answer (each of
\* their refreshes leaves what the last one computes).
Replies(k, bytes, aux) ==
  RefreshIrq([k EXCEPT !.out = @ \o [i \in DOMAIN bytes |-> [byte |-> bytes[i], aux |-> aux]]])

Reply(k, b) == Replies(k, <<b>>, FALSE)
Says(names) == [i \in DOMAIN names |-> <<"fixed", names[i]>>]

PushScancode(k, s) == IF k.scanning THEN Reply(k, <<"scan", s>>) ELSE k

\* The byte behind the one just read is not announced.
SlipReadData(k) == [k EXCEPT !.out = IF @ = <<>> THEN @ ELSE Tail(@)]

\* An empty queue reads as zero and changes nothing.
ReadData(k) == RefreshIrq([k EXCEPT !.out = IF @ = <<>> THEN @ ELSE Tail(@)])

Idle(k) == k.out = <<>>

ReadStatus(k) == [ obf |-> k.out # <<>>,
                   sys |-> "sys" \in k.ctr,
                   cmd |-> k.cmdWritten,
                   aux |-> k.out # <<>> /\ Head(k.out).aux ]

\* write_command, after it has noted that the write went to port 0x64.
Commanded(k, cmd) ==
  CASE cmd = "readCtr"        -> Reply(k, <<"ctr", k.ctr>>)
    [] cmd \in FixedAnswer    -> Reply(k, <<"fixed", cmd>>)
    [] cmd \in TakesArgument  -> [k EXCEPT !.pending = cmd]
    [] cmd = "disableAux"     -> [k EXCEPT !.ctr = @ \cup {"auxDisable"}]
    [] cmd = "enableAux"      -> [k EXCEPT !.ctr = @ \ {"auxDisable"}]
    [] cmd = "disableKbd"     -> [k EXCEPT !.ctr = @ \cup {"kbdDisable"}]
    [] cmd = "enableKbd"      -> [k EXCEPT !.ctr = @ \ {"kbdDisable"}]
    [] cmd = "selfTest"       -> Reply([k EXCEPT !.ctr = @ \cup {"sys"}], <<"fixed", "selfTest">>)
    [] cmd = "pulseReset"     -> k

Command == {"readCtr", "disableAux", "enableAux", "disableKbd", "enableKbd",
            "selfTest", "pulseReset"} \cup FixedAnswer \cup TakesArgument

WriteCommand(k, cmd) == Commanded([k EXCEPT !.cmdWritten = TRUE], cmd)

\* The argument of the controller command that waits for one.
ControllerArgument(k, b) ==
  LET taken == [k EXCEPT !.pending = None]
  IN  CASE k.pending = "writeCtr" -> RefreshIrq([taken EXCEPT !.ctr = CtrOf[b]])
        [] k.pending = "echoKbd"  -> Reply(taken, <<"echoed", b>>)
        [] k.pending = "echoAux"  -> Replies(taken, <<<<"echoed", b>>>>, TRUE)
        [] OTHER                  -> taken

\* The argument of the device command that waits for one.
DeviceArgument(k, b) ==
  Replies([k EXCEPT !.devPending = None],
          Says(IF k.devPending = "scanSet" /\ b = "zero" THEN <<"ack", "set2">> ELSE <<"ack">>),
          FALSE)

\* A command of the keyboard itself.
DeviceCommanded(k, b) ==
  CASE b = "reset"    -> Replies(k, Says(<<"ack", "batOk">>), FALSE)
    [] b = "echo"     -> Reply(k, <<"echoed", b>>)
    [] b = "identify" -> Replies(k, Says(<<"ack", "id1", "id2">>), FALSE)
    [] b = "enable"   -> Replies([k EXCEPT !.scanning = TRUE, !.driverAttached = TRUE],
                                 Says(<<"ack">>), FALSE)
    [] b = "disable"  -> Replies([k EXCEPT !.scanning = FALSE], Says(<<"ack">>), FALSE)
    [] b \in {"scanSet", "setLeds"} ->
                         Replies([k EXCEPT !.devPending = b], Says(<<"ack">>), FALSE)
    [] OTHER          -> Replies(k, Says(<<"ack">>), FALSE)

\* The early return after the controller's argument is missing.
SlipWriteData(k, b) ==
  LET written == [k EXCEPT !.cmdWritten = FALSE]
  IN  IF k.pending # None THEN DeviceCommanded(ControllerArgument(written, b), b)
      ELSE IF k.devPending # None THEN DeviceArgument(written, b)
      ELSE DeviceCommanded(written, b)

WriteData(k, b) ==
  LET written == [k EXCEPT !.cmdWritten = FALSE]
  IN  IF k.pending # None THEN ControllerArgument(written, b)
      ELSE IF k.devPending # None THEN DeviceArgument(written, b)
      ELSE DeviceCommanded(written, b)

\* The CPU loop consumes the interrupt as an edge (cpu.rs).
TakeIrq1(k) == [k EXCEPT !.irq1 = FALSE]

----------------------------------------------------------------------------
(* The controller between an arbitrary guest and an arbitrary typist.      *)

Init == kbd = New

KeyEvent(s)       == kbd' = PushScancode(kbd, s)
GuestReads        == kbd' = ReadData(kbd)
GuestCommands(c)  == kbd' = WriteCommand(kbd, c)
GuestWrites(b)    == kbd' = WriteData(kbd, b)
CpuTakesIrq1      == kbd.irq1 /\ kbd' = TakeIrq1(kbd)

\* The longest answer is three bytes: a bound of the model, not of the code.
RoomLeft == Len(kbd.out) + 3 <= MaxOut

Next ==
  \/ RoomLeft /\ \E s \in Scancodes : KeyEvent(s)
  \/ RoomLeft /\ \E c \in Command : GuestCommands(c)
  \/ RoomLeft /\ \E b \in Bytes : GuestWrites(b)
  \/ GuestReads
  \/ CpuTakesIrq1

Spec == Init /\ [][Next]_kbd

----------------------------------------------------------------------------
(* Properties.                                                             *)

\* The queue holds only bytes some party produced, and a waiting command is always
\* one that takes an argument (write_command, write_data).
TypeOK == kbd \in Kbds

\* IRQ1 is asserted only for a keyboard byte that waits at the head of the shared
\* queue with its interrupt enabled: never for an auxiliary byte, an empty queue
\* or a masked command byte (refresh_irq, kbd.rs:104-110).
Irq1HasCause == kbd.irq1 => HeadInterrupts(kbd)

\* Whenever a keyboard byte comes to the head of the queue with its interrupt
\* enabled, or the interrupt of one that waits there is enabled, IRQ1 is asserted
\* by that same operation.  An edge missed here is never made up for: the byte
\* blocks the queue and nothing announces it.
NewHead == \/ kbd.out = <<>>
           \/ Len(kbd'.out) < Len(kbd.out)
           \/ "kbdInt" \notin kbd.ctr
HeadAnnounced ==
  [][ NewHead /\ HeadInterrupts(kbd)' => kbd'.irq1 ]_kbd

\* The queue is first in, first out whatever is interleaved: an operation takes
\* at most its head and adds only at its end, so answers and scancodes keep the
\* order in which they were produced.
QueueOrder ==
  [][ \/ \E n \in 0..3 : /\ Len(kbd'.out) = Len(kbd.out) + n
                         /\ SubSeq(kbd'.out, 1, Len(kbd.out)) = kbd.out
      \/ kbd.out # <<>> /\ kbd'.out = Tail(kbd.out) ]_kbd

\* A controller command that waits for its argument takes the next data byte:
\* the keyboard device never sees it, and no device state changes.
ArgumentNotLeaked ==
  [][ kbd.pending # None /\ kbd'.pending = None
      => /\ kbd'.scanning = kbd.scanning
         /\ kbd'.driverAttached = kbd.driverAttached
         /\ kbd'.devPending = kbd.devPending ]_kbd
=============================================================================
