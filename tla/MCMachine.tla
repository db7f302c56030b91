----------------------------- MODULE MCMachine -----------------------------
(***************************************************************************)
(* A machine of two small interrupt controllers, with the disk on the      *)
(* slave, and two guests: one that boots, sets its devices up, works or    *)
(* idles and runs a handler for each interrupt, and the same one with      *)
(* instructions that fault.                                                *)
(***************************************************************************)
EXTENDS Discipline

MCPicBytes == {0, 32, 40}
MCMaskOf   == [b \in MCPicBytes |-> {}]
MCBaseOf   == [b \in MCPicBytes |-> b]
MCKbdBytes == {"reset", "echo", "identify", "enable", "disable", "scanSet", "setLeds", "zero"}
MCCtrOf    == [b \in MCKbdBytes |-> {"kbdInt", "sys"}]

MCDisk == 4

\* A stretch of straight-line code of one owner, and where control goes after it.
Block(owner, code, exit) ==
  { << <<owner, j>>, code[j], IF j < Len(code) THEN <<owner, j + 1>> ELSE exit >> :
      j \in DOMAIN code }

Boot == << <<"icw1", "master">>, <<"picData", "master", 32>>,
           <<"icw1", "slave">>, <<"picData", "slave", 40>>,
           <<"pitControl", 0, "lsb">>, <<"pitWrite", 3>>, <<"kbdWrite", "enable">> >>

\* Set-up may vary, and the work a guest does with interrupts off: it may ask the
\* disk for something, or ask the disk itself whether it is done.  Then it idles
\* with sti and hlt, or goes on with interrupts on, for ever if it likes.
Main(j, i, k) == << <<NoOwner, j>>, i, <<NoOwner, k>> >>
MCMain ==
  Block(NoOwner, Boot, <<NoOwner, 8>>)
  \cup { Main(6, <<"pitWrite", 2>>, 7), Main(6, <<"pitWrite", 7>>, 7),
         Main(8, <<"nop">>, 9), Main(8, <<"diskNotify">>, 9), Main(8, <<"diskIsr">>, 9),
         Main(9, <<"sti">>, 10),
         Main(10, <<"nop">>, 10), Main(10, <<"hlt">>, 11), Main(10, <<"cli">>, 8),
         Main(11, <<"cli">>, 8) }

\* A handler serves its device, ends its service and returns; those of the slow
\* devices may let higher interrupts in meanwhile, and any may take a little longer
\* after it has ended its service.
MCHandlers ==
  Block(TimerIrq, << <<"nop">>, <<"eoi", "master">>, <<"iret">> >>, <<TimerIrq, 3>>)
  \cup Block(KbdIrq, << <<"sti">>, <<"kbdRead">>, <<"cli">>, <<"eoi", "master">>, <<"iret">> >>,
              <<KbdIrq, 5>>)
  \cup Block(MCDisk, << <<"sti">>, <<"diskIsr">>, <<"cli">>, <<"eoi", "slave">>, <<"iret">> >>,
              <<MCDisk, 5>>)
  \cup { << <<o, 1>>, <<"nop">>, <<o, 2>> >> : o \in {KbdIrq, MCDisk} }
  \cup UNION { { << <<h[1], h[2]>>, <<"nop">>, <<h[1], h[2] + 1>> >>,
                 << <<h[1], h[2] + 1>>, <<"iret">>, <<h[1], h[2] + 1>> >> }
              : h \in { <<TimerIrq, 3>>, <<KbdIrq, 5>>, <<MCDisk, 5>> } }

MCGuest == MCMain \cup MCHandlers

\* The fault handler returns to the instruction, which may fault again.
MCFaulty ==
  MCGuest \cup { <<l, <<"fault">>, l>> : l \in { <<NoOwner, 9>>, <<NoOwner, 10>>, <<KbdIrq, 2>> } }
          \cup Block(Fault, << <<"nop">>, <<"iret">> >>, <<Fault, 2>>)

MCLocation == { <<o, j>> : o \in {NoOwner, Fault, TimerIrq, KbdIrq, MCDisk}, j \in 1 .. 11 }
MCStart    == <<NoOwner, 1>>
MCEntry    == [v \in {Fault, 32, 33, 40} |->
                 << CASE v = 32 -> TimerIrq [] v = 33 -> KbdIrq [] v = 40 -> MCDisk
                      [] v = Fault -> Fault, 1 >>]
MCOwnerOf  == [l \in MCLocation |-> l[1]]

\* The outline of these guests, who keep the discipline.
At(o, J)  == {<<o, j>> : j \in J}
MCReady   == At(NoOwner, 5 .. 11)
MCServing == At(TimerIrq, 1 .. 2) \cup At(KbdIrq, 1 .. 4) \cup At(MCDisk, 1 .. 4)
MCDrained == At(KbdIrq, 3 .. 4)
MCClosed  == At(NoOwner, 1 .. 9) \cup At(Fault, 1 .. 11) \cup At(TimerIrq, 1 .. 11)
             \cup At(KbdIrq, {1} \cup 4 .. 11) \cup At(MCDisk, {1} \cup 4 .. 11)
MCBases   == [c \in {"master", "slave"} |-> IF c = "master" THEN 32 ELSE 40]
MCAwaits  ==
  LET half == [P!New.base EXCEPT !["master"] = 32]
  IN  [l \in MCLocation |->
         CASE l = <<NoOwner, 1>> -> {<<P!New.base, FALSE>>} [] l = <<NoOwner, 2>> -> {<<P!New.base, TRUE>>}
           [] l = <<NoOwner, 3>> -> {<<half, FALSE>>}       [] l = <<NoOwner, 4>> -> {<<half, TRUE>>}
           [] OTHER -> {<<MCBases, FALSE>>}]

ASSUME MCDiscipline == Disciplined
=============================================================================
