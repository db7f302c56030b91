------------------------------- MODULE MCTlb -------------------------------
(***************************************************************************)
(* Tables of two entries, one table a level, and a TLB of two entries that *)
(* three pages share: one with a table of its own, two in a large page, of  *)
(* which the second is in the hole of the address space of long mode.  The *)
(* guest starts with paging off and enters long mode, PAE or legacy paging.*)
(***************************************************************************)
EXTENDS Tlb

Pml4 == 10
Pdpt == 11
Pd   == 12
Pt   == 13

Absent == [p |-> FALSE, rw |-> FALSE, us |-> FALSE, nx |-> FALSE, ps |-> FALSE, to |-> 0]
To(target, rw, us, nx) ==
  [p |-> TRUE, rw |-> rw, us |-> us, nx |-> nx, ps |-> FALSE, to |-> target]
Large(target, rw, us, nx) == [To(target, rw, us, nx) EXCEPT !.ps = TRUE]

MCTables0 ==
  [x \in {Pml4, Pdpt, Pd, Pt} \X {0, 1} |->
     CASE x = <<Pml4, 0>> -> To(Pdpt, TRUE, TRUE, FALSE)
       [] x = <<Pdpt, 0>> -> To(Pd, TRUE, TRUE, FALSE)
       [] x = <<Pd, 0>>   -> To(Pt, TRUE, TRUE, FALSE)
       [] x = <<Pt, 1>>   -> To(3, TRUE, FALSE, TRUE)
       [] OTHER             -> Absent]

MCWrites ==
  { << <<Pt, 0>>, Absent, {} >>,
    << <<Pt, 0>>, To(1, FALSE, TRUE, FALSE), {} >>,
    << <<Pt, 0>>, To(1, TRUE, TRUE, TRUE), {} >>,
    << <<Pd, 1>>, Absent, {} >>,
    << <<Pd, 1>>, Large(5, FALSE, FALSE, TRUE), {} >> }

Kind(write, user, fetch) == [write |-> write, user |-> user, fetch |-> fetch]
MCKinds == { Kind(FALSE, FALSE, FALSE), Kind(TRUE, FALSE, FALSE), Kind(FALSE, TRUE, TRUE) }
MCUserKinds == { Kind(FALSE, TRUE, FALSE), Kind(TRUE, TRUE, FALSE) }

Control(pg, wp, pae, lme, nxe, root) ==
  [pg |-> pg, wp |-> wp, pae |-> pae, lme |-> lme, nxe |-> nxe, root |-> root]
MCSettings ==
  { Control(FALSE, FALSE, TRUE, FALSE, FALSE, Pdpt),      \* PAE with WP, and NXE
    Control(TRUE, TRUE, TRUE, FALSE, FALSE, Pdpt),
    Control(TRUE, TRUE, TRUE, FALSE, TRUE, Pdpt),
    Control(FALSE, FALSE, TRUE, FALSE, FALSE, Pml4),      \* to long mode
    Control(FALSE, FALSE, TRUE, TRUE, FALSE, Pml4),
    Control(TRUE, FALSE, TRUE, TRUE, FALSE, Pml4),
    Control(FALSE, FALSE, TRUE, FALSE, FALSE, Pd),        \* to legacy paging
    Control(FALSE, FALSE, FALSE, FALSE, FALSE, Pd),
    Control(TRUE, FALSE, FALSE, FALSE, FALSE, Pd),        \* without WP and with
    Control(TRUE, TRUE, FALSE, FALSE, FALSE, Pd) }
=============================================================================
