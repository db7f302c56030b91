-------------------------------- MODULE Mmu --------------------------------
(***************************************************************************)
(* What the guest may rely on when it uses memory through page tables: a   *)
(* memory management unit without a cache, which walks the tables at every *)
(* access.  The TLB of module Tlb implements this specification.           *)
(***************************************************************************)
EXTENDS Paging

CONSTANTS
  Kinds,          \* how the guest uses memory
  Writes,         \* what the guest writes into its tables: <<place, entry, marks>>
  Settings,       \* how it sets its control registers
  Tables0         \* the tables it starts with

VARIABLES
  table,          \* the guest's page tables
  marks,          \* their accessed and dirty bits
  cr,             \* the control registers
  fault,          \* the pending exception
  got             \* the physical page the last access has reached

vars == <<table, marks, cr, fault, got>>

Unbacked == -1

Init ==
  /\ table = Tables0 /\ marks = [x \in Place |-> {}]
  /\ cr \in Settings /\ ~cr.pg
  /\ fault = NoFault /\ got = Unbacked

Refuse(new) == got' = Unbacked /\ fault' = Raised(fault, new) /\ UNCHANGED marks
Grant(ppage) == got' = ppage /\ UNCHANGED fault

Use(page, k) ==
  /\ UNCHANGED <<table, cr>>
  /\ \/ ~Canonical(cr, page) /\ Refuse(Gp)
     \/ Mode(cr) = "off" /\ Grant(page) /\ UNCHANGED marks
     \/ /\ Canonical(cr, page) /\ Mode(cr) # "off"
        /\ \/ /\ Translate(table, cr, page) = {}
              /\ Refuse(PageFault(cr, page, FALSE, k))
           \/ \E m \in Translate(table, cr, page) :
                \/ ~Allowed(cr, m, k) /\ Refuse(PageFault(cr, page, TRUE, k))
                \/ /\ Allowed(cr, m, k) /\ Grant(m.ppage)
                   /\ marks' = Marked(marks, m, k.write)

\* The guest runs only with its exceptions dispatched.
Dispatch ==
  /\ fault # NoFault /\ fault' = NoFault /\ got' = Unbacked
  /\ UNCHANGED <<table, marks, cr>>

Write(where, entry, bits) ==
  /\ fault = NoFault /\ got' = Unbacked
  /\ table' = [table EXCEPT ![where] = entry]
  /\ marks' = [marks EXCEPT ![where] = bits]
  /\ UNCHANGED <<cr, fault>>

Set(c) ==
  /\ fault = NoFault /\ got' = Unbacked
  /\ cr' = c
  /\ UNCHANGED <<table, marks, fault>>

\* An instruction that leaves the unit as it is: there is nothing to invalidate.
Other ==
  /\ fault = NoFault /\ got' = Unbacked
  /\ UNCHANGED <<table, marks, cr, fault>>

Next ==
  \/ Other
  \/ Dispatch
  \/ \E w \in Writes : Write(w[1], w[2], w[3])
  \/ \E c \in Settings : Set(c)
  \/ \E page \in Page, k \in Kinds : Use(page, k)

Spec == Init /\ [][Next]_vars
=============================================================================
