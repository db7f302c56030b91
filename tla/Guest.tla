-------------------------------- MODULE Guest --------------------------------
(***************************************************************************)
(* Small programs run by the executor while a handler of the guest's own     *)
(* brings its pages in on demand: a page that was absent comes in read-only   *)
(* for a read, writable for a write, as a kernel does it.  A program is the   *)
(* record k of a case: its mode, its text, its registers and flags, and the   *)
(* pages absent at first.                                                    *)
(***************************************************************************)
EXTENDS Execute, TLC
CONSTANTS Cases,        \* the programs
          Frame(_),     \* page to frame
          Pages,        \* the pages there are
          Entry,        \* offset of a program's first byte
          Steps         \* more than any of the programs takes
VARIABLES case, cpu, whole
vars == <<case, cpu, whole>>

Flat == [base |-> 0, long |-> FALSE, big |-> TRUE]
CodeSel(mode) == CASE mode = "real" -> 0 [] mode = "legacy" -> 4 [] mode = "long" -> 8
Mapped(ps) == [p \in ps |-> [frame |-> Frame(p), writable |-> TRUE]]
Phys(k, a) == IF k.mode = "real" THEN a ELSE (Frame(a \div PageBytes) * PageBytes) + (a % PageBytes)
TextOf(k) ==
  LET at == {n \in 1..Len(k.text) : TRUE}
      off(a) == CHOOSE n \in at : Phys(k, Entry + n - 1) = a
  IN [a \in {Phys(k, Entry + n - 1) : n \in at} |-> k.text[off(a)]]

Start(k, absent) ==
  [regs |-> k.regs, flags |-> k.flags, rip |-> Entry, ip |-> Entry, ripStart |-> 0, ipStart |-> 0,
   seg  |-> [s \in {"Cs", "Ds", "Es", "Ss", "Fs", "Gs"} |-> IF s = "Cs" THEN CodeSel(k.mode) ELSE 0],
   desc |-> [s \in {"Cs", "Ds", "Es", "Ss", "Fs", "Gs"} |->
               IF s = "Cs" THEN Descriptors[CodeSel(k.mode) \div 4] ELSE Flat],
   threads |-> [s \in {"Fs", "Gs"} |-> 0],
   pe |-> k.mode # "real", lma |-> k.mode = "long", pg |-> k.mode # "real",
   exc |-> None, mem |-> k.mem, pages |-> Mapped(Pages \ absent), text |-> TextOf(k),
   cursor |-> None, opsize |-> FALSE, addrsize |-> FALSE, addr64 |-> FALSE,
   over |-> None, rex |-> {}, rep |-> "None", halted |-> FALSE]

PageFaulted(c) == Faulted(c) /\ c.exc.vector = 14
Stopped(c)     == c.halted \/ (Faulted(c) /\ c.exc.vector # 14)
\* The run of a program all of whose pages are there.
Undisturbed(k) ==
  LET f[n \in 0..Steps] ==
        IF n = 0 THEN Start(k, {})
        ELSE LET c == f[n - 1] IN IF Stopped(c) THEN c ELSE Step(c)
  IN f[Steps]

Init ==
  \E k \in Cases : \E absent \in k.absent :
    /\ case = k
    /\ cpu = Start(k, absent)
    /\ whole = Undisturbed(k)
Run ==
  /\ ~Stopped(cpu) /\ ~PageFaulted(cpu)
  /\ cpu' = Step(cpu)
  /\ UNCHANGED <<case, whole>>
BringIn(c) ==
  LET p == Page(c.exc.lin)
  IN [Dispatch(c) EXCEPT !.exc = None,
        !.pages = (p :> [frame |-> Frame(p), writable |-> c.exc.write]) @@ @]
Handle ==
  /\ PageFaulted(cpu)
  /\ Page(cpu.exc.lin) \in Pages
  /\ cpu' = BringIn(cpu)
  /\ UNCHANGED <<case, whole>>
Next == Run \/ Handle
Spec == Init /\ [][Next]_vars

-----------------------------------------------------------------------------
(* Properties.                                                              *)

Visible(c) ==
  [regs |-> c.regs, flags |-> c.flags, rip |-> c.rip, ip |-> c.ip, seg |-> c.seg,
   mem |-> c.mem, halted |-> c.halted, exc |-> c.exc]

\* "A fault means the instruction did not happen" (cpu.rs): whatever pages
\* come in while a program runs, and in whatever order, it ends as it would
\* have with all of them there.
FaultsInvisible == Stopped(cpu) => Visible(cpu) = Visible(whole)

\* Instructions work on numbers wider than a register by the carry between
\* them, comparisons order numbers as the conditions read them, and division
\* undoes multiplication.
In(r, w)  == case.regs[r] % Mod(w)
Out(r, w) == RegW(cpu, r, w)
Pairs(hi, lo, w) == [before |-> In(hi, w) * Mod(w) + In(lo, w), after |-> Out(hi, w) * Mod(w) + Out(lo, w)]
Carried == "CF" \in cpu.flags
WideSum(w) ==
  LET x == Pairs(Rdx, Rax, w)
      y == In(Rbx, w) * Mod(w) + In(Rcx, w)
  IN x.before + y = x.after + (IF Carried THEN Mod(w) * Mod(w) ELSE 0)
WideDifference(w) ==
  LET x == Pairs(Rdx, Rax, w)
      y == In(Rbx, w) * Mod(w) + In(Rcx, w)
  IN x.before - y = x.after - (IF Carried THEN Mod(w) * Mod(w) ELSE 0)
Orders(w) ==
  LET a == In(Rax, w)
      b == In(Rcx, w)
      holds(n) == Test(n, cpu.flags)
  IN /\ holds(2) = (a < b) /\ holds(4) = (a = b) /\ holds(6) = (a <= b)
     /\ holds(12) = (Signed(a, w) < Signed(b, w)) /\ holds(14) = (Signed(a, w) <= Signed(b, w))
     /\ \A n \in {2, 4, 6, 12, 14} : holds(n + 1) = ~holds(n)
DividesBack(w) ==
  In(Rcx, w) # 0 => /\ Out(Rax, w) = In(Rax, w)
                    /\ Out(Rdx, w) = 0
NumbersKept ==
  Stopped(cpu) =>
    /\ case.law = "sum"        => WideSum(case.w)
    /\ case.law = "difference" => WideDifference(case.w)
    /\ case.law = "order"      => Orders(case.w)
    /\ case.law = "division"   => DividesBack(case.w)

\* What one instruction did, its opposite undoes: registers, segments, the
\* carry where the pair keeps it, and the program goes on after the two.
RoundTrips ==
  Stopped(cpu) /\ case.law \in {"back", "back with carry"} =>
    /\ cpu.regs = case.regs
    /\ cpu.seg = Start(case, {}).seg
    /\ cpu.halted
    /\ case.law = "back with carry" => (Carried <=> "CF" \in case.flags)
=============================================================================
