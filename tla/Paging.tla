------------------------------- MODULE Paging -------------------------------
(***************************************************************************)
(* Page-table walks in the three structures of src/paging.rs, and the      *)
(* check of an access against what a walk finds (src/cpu.rs,               *)
(* access_allowed).                                                        *)
(*                                                                         *)
(* Addresses are page numbers.  The tables of the guest are a function     *)
(* from places, a page of memory and an index into it, to entries.  The    *)
(* accessed and dirty bits of the entries are kept apart, in sets of marks:*)
(* nothing a walk finds depends on them.  Pages of memory other than those *)
(* in Table hold no tables, and read as absent entries.  A walk is a set:  *)
(* empty where some level is not present.                                  *)
(***************************************************************************)
EXTENDS Integers, Sequences

CONSTANTS
  Fan,            \* entries of a table (1024, or 512 of 8 bytes)
  Frame,          \* physical pages
  Table,          \* those that hold tables
  Page,           \* linear pages
  NonCanonical    \* those in the hole of the 64-bit address space

ASSUME PagingAssumption ==
  /\ Fan \in Nat \ {0}
  /\ Frame \subseteq Nat /\ Table \subseteq Frame
  /\ Page \subseteq Nat /\ NonCanonical \subseteq Page

Place   == Table \X (0 .. Fan - 1)
Entries == [p: BOOLEAN, rw: BOOLEAN, us: BOOLEAN, nx: BOOLEAN, ps: BOOLEAN,
            to: Frame]
Tables  == [Place -> Entries]
Mark    == {"a", "d"}

\* The control registers: PG and WP of CR0, PAE of CR4, LME and NXE of EFER, and the
\* root CR3 holds.  EFER.LMA is PG and LME: write_cr0 and write_msr keep it so.
Controls == [pg: BOOLEAN, wp: BOOLEAN, pae: BOOLEAN, lme: BOOLEAN, nxe: BOOLEAN, root: Table]

Mode(c) == CASE ~c.pg -> "off"
             [] c.pg /\ c.lme -> "long"
             [] c.pg /\ ~c.lme /\ c.pae -> "pae"
             [] OTHER -> "legacy"

----------------------------------------------------------------------------
(* The walks.  Levels are counted from the table that names 4 KiB pages.   *)

\* The pages that an entry of a level stands for.
Span(level) == CASE level = 0 -> 1
                 [] level = 1 -> Fan
                 [] level = 2 -> Fan * Fan
                 [] level = 3 -> Fan * Fan * Fan
Index(page, level) == (page \div Span(level)) % Fan

Begin(root) == [at |-> root, rw |-> TRUE, us |-> TRUE, nx |-> FALSE,
                leaf |-> FALSE, level |-> 0, path |-> <<>>]

\* One level: the permissions of all levels combine, and an entry with PS set ends
\* the walk where the structure has large pages of that size.
Down(t, page, level, large, w) ==
  LET place == <<w.at, Index(page, level)>>
      e     == t[place]
  IN  IF w.at \notin Table \/ ~e.p THEN {}
      ELSE { [at    |-> e.to,
              rw    |-> w.rw /\ e.rw,
              us    |-> w.us /\ e.us,
              nx    |-> w.nx \/ e.nx,
              leaf  |-> level = 0 \/ (large /\ e.ps),
              level |-> level,
              path  |-> Append(w.path, place)] }

Level(t, page, level, large, ws) ==
  UNION { IF w.leaf THEN {w} ELSE Down(t, page, level, large, w) : w \in ws }

\* The pointer table of PAE has a present bit and no permissions.
Neutral(ws) == { [w EXCEPT !.rw = TRUE, !.us = TRUE, !.nx = FALSE] : w \in ws }

Lowest(t, page, ws) == Level(t, page, 0, FALSE, Level(t, page, 1, TRUE, ws))

Walk(t, c, page) ==
  LET root == {Begin(c.root)}
  IN  CASE Mode(c) = "long"   -> Lowest(t, page, Level(t, page, 2, TRUE,
                                                       Level(t, page, 3, FALSE, root)))
        [] Mode(c) = "pae"    -> Lowest(t, page, Neutral(Level(t, page, 2, FALSE, root)))
        [] Mode(c) = "legacy" -> Lowest(t, page, root)
        [] OTHER              -> {}

\* The offset in a large page is the page's own, below a base that is aligned.
PhysOf(w, page) == Span(w.level) * (w.at \div Span(w.level)) + (page % Span(w.level))

\* 4-byte entries have no NX, and without EFER.NXE the bit means nothing.
Executable(c, w) == Mode(c) = "legacy" \/ ~c.nxe \/ ~w.nx

Translate(t, c, page) ==
  { [ppage |-> PhysOf(w, page), writable |-> w.rw, user |-> w.us,
     exec |-> Executable(c, w), path |-> w.path] : w \in Walk(t, c, page) }

----------------------------------------------------------------------------
(* An access and its fault.                                                *)

\* An address in the hole of the 64-bit space never reaches the tables.
Canonical(c, page) == Mode(c) # "long" \/ page \notin NonCanonical

Access == [write: BOOLEAN, user: BOOLEAN, fetch: BOOLEAN]

Allowed(c, m, k) ==
  /\ k.fetch => m.exec
  /\ k.user  => m.user
  /\ k.write /\ ~m.writable => ~k.user /\ ~c.wp

NoFault == [vector |-> "none"]
Gp      == [vector |-> "gp"]
PageFault(c, page, present, k) ==
  [vector |-> "pf", cr2 |-> page, present |-> present, write |-> k.write,
   user |-> k.user, fetch |-> k.fetch /\ c.nxe]
Faults == {NoFault, Gp} \cup [vector: {"pf"}, cr2: Page, present: BOOLEAN,
                              write: BOOLEAN, user: BOOLEAN, fetch: BOOLEAN]

\* The first fault of an instruction is the one that is kept.
Raised(f, new) == IF f = NoFault THEN new ELSE f

\* Every entry of the walk gets its accessed bit, the leaf of a store its dirty bit.
Steps(m) == { m.path[i] : i \in DOMAIN m.path }
Leaf(m)  == m.path[Len(m.path)]
Marked(marks, m, write) ==
  [ x \in Place |-> marks[x] \cup (IF x \in Steps(m) THEN {"a"} ELSE {})
                             \cup (IF write /\ x = Leaf(m) THEN {"d"} ELSE {}) ]
=============================================================================
