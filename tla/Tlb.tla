-------------------------------- MODULE Tlb --------------------------------
(***************************************************************************)
(* The TLB of the emulated CPU (src/cpu.rs: apply_paging_inner, flush_tlb, *)
(* invlpg and what changes the control registers) and the guest's          *)
(* operating system, which changes its tables under it.                    *)
(*                                                                         *)
(* The guest does what the code asks of it: between a change that takes    *)
(* back what a page's translation was, and the next use of that page, it   *)
(* invalidates the page (`owed` are those it has not invalidated yet).     *)
(* Other pages it may use meanwhile.  A lazy guest owes nothing for a page *)
(* it only gave more permissions.  The debugging switches (no_tlb, the     *)
(* watched addresses) are left out.                                        *)
(***************************************************************************)
EXTENDS Paging

CONSTANTS
  Slots,          \* entries of the TLB (256)
  Kinds,          \* how the guest uses memory
  Writes,         \* what the guest writes into its tables: <<place, entry, marks>>
  Settings,       \* how it sets its control registers
  Tables0,        \* the tables it starts with
  Lazy            \* it does not invalidate what it only permits more of

ASSUME TlbAssumption ==
  /\ Slots \in Nat \ {0}
  /\ Settings \subseteq Controls /\ Tables0 \in Tables
  /\ Lazy \in BOOLEAN /\ Kinds \subseteq Access
  /\ Writes \subseteq Place \X Entries \X SUBSET Mark

VARIABLES
  table, marks,   \* the guest's page tables, and their accessed and dirty bits
  cr,             \* the control registers
  tlb,            \* at each index an entry, or none
  fault,          \* the pending exception
  got,            \* the physical page the last access has reached
  owed            \* pages the guest has still to invalidate

vars == <<table, marks, cr, tlb, fault, got, owed>>

Unbacked == -1

Slot(page) == page % Slots
SlotSet    == 0 .. Slots - 1
TlbEntry   == [vpage: Page, ppage: Nat, writable: BOOLEAN, user: BOOLEAN,
               exec: BOOLEAN, dirtied: BOOLEAN]

\* Operators named Slip... are slips a change to the code could make, each before
\* the definition it gets wrong: the properties must notice them.

Empty == [s \in SlotSet |-> {}]

Init ==
  /\ table = Tables0 /\ marks = [x \in Place |-> {}]
  /\ cr \in Settings /\ ~cr.pg
  /\ tlb = Empty /\ fault = NoFault /\ got = Unbacked /\ owed = {}

----------------------------------------------------------------------------
(* apply_paging_inner.                                                     *)

Hits(page) == { e \in tlb[Slot(page)] : e.vpage = page }

\* The dirty bit of an entry that a load has filled counts as set.
SlipFilled(page, m, write) ==
  { [vpage |-> page, ppage |-> m.ppage, writable |-> m.writable, user |-> m.user,
     exec |-> m.exec, dirtied |-> TRUE] }

Filled(page, m, write) ==
  { [vpage |-> page, ppage |-> m.ppage, writable |-> m.writable, user |-> m.user,
     exec |-> m.exec, dirtied |-> write] }

Refuse(new) ==
  /\ fault' = Raised(fault, new) /\ got' = Unbacked
  /\ UNCHANGED <<table, marks, cr, tlb, owed>>

Grant(ppage) == got' = ppage /\ UNCHANGED <<table, cr, fault, owed>>

\* The first store through an entry that a load has filled walks the tables again,
\* for the dirty bit.
Dirtied(e, page) ==
  /\ tlb' = [tlb EXCEPT ![Slot(page)] = {[e EXCEPT !.dirtied = TRUE]}]
  /\ IF Translate(table, cr, page) = {} THEN UNCHANGED marks
     ELSE \E m \in Translate(table, cr, page) : marks' = Marked(marks, m, TRUE)

\* Permissions are checked when the entry is filled only.
SlipHit(e, page, k) ==
  /\ Grant(e.ppage)
  /\ IF k.write /\ ~e.dirtied THEN Dirtied(e, page) ELSE UNCHANGED <<tlb, marks>>

Hit(e, page, k) ==
  \/ ~Allowed(cr, e, k) /\ Refuse(PageFault(cr, page, TRUE, k))
  \/ /\ Allowed(cr, e, k)
     /\ Grant(e.ppage)
     /\ IF k.write /\ ~e.dirtied THEN Dirtied(e, page) ELSE UNCHANGED <<tlb, marks>>

Miss(page, k) ==
  \/ /\ Translate(table, cr, page) = {}
     /\ Refuse(PageFault(cr, page, FALSE, k))
  \/ \E m \in Translate(table, cr, page) :
       \/ ~Allowed(cr, m, k) /\ Refuse(PageFault(cr, page, TRUE, k))
       \/ /\ Allowed(cr, m, k)
          /\ Grant(m.ppage)
          /\ tlb' = [tlb EXCEPT ![Slot(page)] = Filled(page, m, k.write)]
          /\ marks' = Marked(marks, m, k.write)

Use(page, k) ==
  /\ page \notin owed
  /\ \/ ~Canonical(cr, page) /\ Refuse(Gp)
     \/ Mode(cr) = "off" /\ Grant(page) /\ UNCHANGED <<marks, tlb>>
     \/ /\ Canonical(cr, page) /\ Mode(cr) # "off"
        /\ \/ \E e \in Hits(page) : Hit(e, page, k)
           \/ Hits(page) = {} /\ Miss(page, k)

\* step: the exception is dispatched before the next instruction.
Dispatch ==
  /\ fault # NoFault /\ fault' = NoFault /\ got' = Unbacked
  /\ UNCHANGED <<table, marks, cr, tlb, owed>>

----------------------------------------------------------------------------
(* The operating system.                                                   *)

\* Nothing but permissions is added.
Widens(m, n) ==
  /\ n.ppage = m.ppage /\ n.path = m.path
  /\ m.writable => n.writable
  /\ m.user => n.user
  /\ m.exec => n.exec

Kept(m, ms) == \A x \in Steps(m) : marks[x] \subseteq ms[x]

\* The pages whose translation a change takes back: those that had one, and have
\* another now, or whose walk has lost a mark.
TakenBack(t, ms, c) ==
  { page \in Page :
      \E m \in Translate(table, cr, page) :
        /\ ~(Translate(t, c, page) = {m} /\ Kept(m, ms))
        /\ ~(Lazy /\ \E n \in Translate(t, c, page) : Widens(m, n)) }

Runs == fault = NoFault /\ got' = Unbacked /\ UNCHANGED fault

Write(where, entry, bits) ==
  /\ Runs
  /\ table' = [table EXCEPT ![where] = entry]
  /\ marks' = [marks EXCEPT ![where] = bits]
  /\ owed'  = owed \cup TakenBack(table', marks', cr)
  /\ UNCHANGED <<cr, tlb>>

Flush == tlb' = Empty /\ owed' = {}
Keep  == tlb' = tlb /\ owed' = owed \cup TakenBack(table, marks, cr')

\* MOV CR0 flushes when paging is switched, MOV CR3 and MOV CR4 always, and a write
\* of EFER when it switches long mode.
WriteCr0(c) ==
  /\ cr' = [cr EXCEPT !.pg = c.pg, !.wp = c.wp]
  /\ IF c.pg # cr.pg THEN Flush ELSE Keep

WriteCr3(c)  == cr' = [cr EXCEPT !.root = c.root] /\ Flush
WriteCr4(c)  == cr' = [cr EXCEPT !.pae = c.pae] /\ Flush

WriteEfer(c) ==
  /\ cr' = [cr EXCEPT !.lme = c.lme, !.nxe = c.nxe]
  /\ IF cr.pg /\ c.lme # cr.lme THEN Flush ELSE Keep

Set(c) ==
  /\ Runs
  /\ WriteCr0(c) \/ WriteCr3(c) \/ WriteCr4(c) \/ WriteEfer(c)
  /\ cr' = c
  /\ UNCHANGED <<table, marks>>

Invlpg(page) ==
  /\ Runs
  /\ tlb' = IF Hits(page) # {} THEN [tlb EXCEPT ![Slot(page)] = {}] ELSE tlb
  /\ owed' = owed \ {page}
  /\ UNCHANGED <<table, marks, cr>>

Next ==
  \/ \E page \in Page, k \in Kinds : Use(page, k)
  \/ Dispatch
  \/ \E w \in Writes : Write(w[1], w[2], w[3])
  \/ \E c \in Settings : Set(c)
  \/ \E page \in Page : Invlpg(page)

Spec == Init /\ [][Next]_vars

----------------------------------------------------------------------------
(* Properties.                                                             *)

\* Every register, table and entry keeps its type, and every entry of the TLB sits
\* at the index its page names.
TypeOK ==
  /\ table \in Tables /\ marks \in [Place -> SUBSET Mark] /\ cr \in Controls
  /\ tlb \in [SlotSet -> SUBSET TlbEntry]
  /\ fault \in Faults /\ got \in Nat \cup {Unbacked} /\ owed \subseteq Page
  /\ \A s \in SlotSet : \A e, f \in tlb[s] : e = f /\ Slot(e.vpage) = s

\* An entry is what a walk would find, its walk is marked as accessed, and its leaf
\* as dirty once it lets stores by: for every page the guest may use.
Agrees(e) ==
  \E m \in Translate(table, cr, e.vpage) :
    /\ e.ppage = m.ppage /\ e.writable = m.writable /\ e.user = m.user /\ e.exec = m.exec
    /\ \A x \in Steps(m) : "a" \in marks[x]
    /\ e.dirtied => "d" \in marks[Leaf(m)]

Coherent ==
  \A s \in SlotSet : \A e \in tlb[s] :
    cr.pg /\ (e.vpage \notin owed => Agrees(e))

\* The guest cannot tell the TLB from a unit that walks at every access: the same
\* pages, the same faults, the same accessed and dirty bits.
M == INSTANCE Mmu
ImplementsMmu == M!Spec
=============================================================================
