----------------------------- MODULE TlbProofs -----------------------------
(***************************************************************************)
(* Proofs about the TLB, for any tables, any number of entries and any     *)
(* guest that invalidates what it takes back.                              *)
(*                                                                         *)
(* What a walk finds is used as a whole: the lemmas of the first part say  *)
(* that it is at most one mapping, of the right type, and the rest never   *)
(* looks into the walk again.                                              *)
(***************************************************************************)
EXTENDS Tlb, TLAPS

----------------------------------------------------------------------------
(* Walks.                                                                  *)

Walker == [at: Frame, rw: BOOLEAN, us: BOOLEAN, nx: BOOLEAN, leaf: BOOLEAN,
           level: 0 .. 3, path: Seq(Place)]
AtMostOne(S) == \A x, y \in S : x = y

\* Walkers that have read an entry, or are about to.
Sound(ws) == /\ AtMostOne(ws)
             /\ \A w \in ws : w \in Walker /\ (w.leaf => w.path # <<>>)
Done(ws)  == Sound(ws) /\ \A w \in ws : w.path # <<>>

Mappings == [ppage: Nat, writable: BOOLEAN, user: BOOLEAN, exec: BOOLEAN, path: Seq(Place)]

\* An entry stands for at least one page (Span).
LEMMA SpanType == \A level \in 0 .. 3 : Span(level) \in Nat \ {0}
<1>1. Fan \in Nat /\ Fan >= 1
  BY PagingAssumption
<1>2. Fan * Fan \in Nat /\ Fan * Fan >= 1
  BY <1>1
<1>3. Fan * Fan * Fan \in Nat /\ Fan * Fan * Fan >= 1
  BY <1>1, <1>2
<1> QED
  BY <1>1, <1>2, <1>3 DEF Span

\* An index stays within its table (pd_index, pt_index and the others).
LEMMA IndexType ==
  ASSUME NEW page \in Page, NEW level \in 0 .. 3
  PROVE  Index(page, level) \in 0 .. Fan - 1
<1>1. Span(level) \in Nat \ {0}
  BY SpanType
<1>2. page \div Span(level) \in Int
  BY <1>1, PagingAssumption
<1> QED
  BY <1>2, PagingAssumption DEF Index

\* One level down, a walk is still at most one walk, and has read an entry.
LEMMA DownSound ==
  ASSUME NEW t \in Tables, NEW page \in Page, NEW level \in 0 .. 3, NEW large \in BOOLEAN,
         NEW w \in Walker
  PROVE  Done(Down(t, page, level, large, w))
<1> DEFINE place == <<w.at, Index(page, level)>>
<1>1. CASE w.at \notin Table \/ ~t[place].p
  BY <1>1 DEF Down, Done, Sound, AtMostOne
<1>2. CASE w.at \in Table /\ t[place].p
  <2>1. place \in Place
    BY <1>2, IndexType DEF Place
  <2>2. t[place] \in Entries
    BY <2>1 DEF Tables
  <2>3. Append(w.path, place) \in Seq(Place) /\ Append(w.path, place) # <<>>
    <3>1. w.path \in Seq(Place)
      BY DEF Walker
    <3> HIDE DEF place
    <3> QED
      BY <2>1, <3>1
  <2>4. (level = 0 \/ (large /\ t[place].ps)) \in BOOLEAN
    OBVIOUS
  <2> DEFINE v == [at |-> t[place].to, rw |-> w.rw /\ t[place].rw, us |-> w.us /\ t[place].us,
                   nx |-> w.nx \/ t[place].nx, leaf |-> level = 0 \/ (large /\ t[place].ps),
                   level |-> level, path |-> Append(w.path, place)]
  <2>5. Down(t, page, level, large, w) = {v}
    BY <1>2 DEF Down
  <2>6. v \in Walker
    BY <2>2, <2>3, <2>4 DEF Entries, Walker
  <2> QED
    BY <2>3, <2>5, <2>6 DEF Done, Sound, AtMostOne
<1> QED
  BY <1>1, <1>2

LEMMA LevelSound ==
  ASSUME NEW t \in Tables, NEW page \in Page, NEW level \in 0 .. 3, NEW large \in BOOLEAN,
         NEW ws, Sound(ws)
  PROVE  Done(Level(t, page, level, large, ws))
<1>1. CASE ws = {}
  BY <1>1 DEF Level, Done, Sound, AtMostOne
<1>2. CASE ws # {}
  <2>1. PICK w \in ws : ws = {w}
    BY <1>2 DEF Sound, AtMostOne
  <2>2. w \in Walker /\ (w.leaf => w.path # <<>>)
    BY DEF Sound
  <2>3. Level(t, page, level, large, ws)
          = IF w.leaf THEN {w} ELSE Down(t, page, level, large, w)
    BY <2>1 DEF Level
  <2>4. CASE w.leaf
    BY <2>2, <2>3, <2>4 DEF Done, Sound, AtMostOne
  <2>5. CASE ~w.leaf
    BY <2>2, <2>3, <2>5, DownSound
  <2> QED
    BY <2>4, <2>5
<1> QED
  BY <1>1, <1>2

\* A whole walk, in each of the three structures.
LEMMA WalkSound ==
  ASSUME NEW t \in Tables, NEW c \in Controls, NEW page \in Page
  PROVE  Done(Walk(t, c, page))
<1> DEFINE root == {Begin(c.root)}
<1>0. {TRUE, FALSE} \subseteq BOOLEAN /\ {0, 1, 2, 3} \subseteq 0 .. 3
  OBVIOUS
<1>1. Begin(c.root) \in Walker
  <2>1. c.root \in Frame
    BY PagingAssumption DEF Controls
  <2>2. <<>> \in Seq(Place) /\ 0 \in 0 .. 3
    OBVIOUS
  <2> QED
    BY <2>1, <2>2 DEF Begin, Walker
<1>2. Sound(root)
  BY <1>1 DEF Sound, AtMostOne, Begin
<1>3. ASSUME NEW ws, Sound(ws)
      PROVE  Done(Lowest(t, page, ws))
  <2>1. Done(Level(t, page, 1, TRUE, ws))
    BY <1>3, <1>0, LevelSound
  <2> QED
    BY <2>1, <1>0, LevelSound DEF Lowest, Done
<1>4. CASE Mode(c) = "long"
  <2>1. Done(Level(t, page, 3, FALSE, root))
    BY <1>2, <1>0, LevelSound
  <2>2. Done(Level(t, page, 2, TRUE, Level(t, page, 3, FALSE, root)))
    BY <2>1, <1>0, LevelSound DEF Done
  <2>3. Walk(t, c, page)
          = Lowest(t, page, Level(t, page, 2, TRUE, Level(t, page, 3, FALSE, root)))
    BY <1>4 DEF Walk
  <2> QED
    BY <1>3, <2>2, <2>3 DEF Done
<1>5. CASE Mode(c) = "pae"
  <2> DEFINE ps == Level(t, page, 2, FALSE, root)
  <2>1. Done(ps)
    BY <1>2, <1>0, LevelSound
  <2>2. Sound(Neutral(ps))
    BY <2>1 DEF Neutral, Done, Sound, AtMostOne, Walker
  <2>3. Walk(t, c, page) = Lowest(t, page, Neutral(ps))
    BY <1>5 DEF Walk
  <2> QED
    BY <1>3, <2>2, <2>3
<1>6. CASE Mode(c) = "legacy"
  <2>1. Walk(t, c, page) = Lowest(t, page, root)
    BY <1>6 DEF Walk
  <2> QED
    BY <1>2, <1>3, <2>1
<1>7. CASE Mode(c) = "off"
  <2>1. Walk(t, c, page) = {}
    BY <1>7 DEF Walk
  <2> QED
    BY <2>1 DEF Done, Sound, AtMostOne
<1> QED
  BY <1>4, <1>5, <1>6, <1>7 DEF Mode

\* A page has at most one mapping, and nothing is mapped with paging off.
LEMMA TranslateType ==
  ASSUME NEW t \in Tables, NEW c \in Controls, NEW page \in Page
  PROVE  /\ AtMostOne(Translate(t, c, page))
         /\ \A m \in Translate(t, c, page) :
              m \in Mappings /\ Leaf(m) \in Steps(m) /\ Steps(m) \subseteq Place
         /\ Mode(c) = "off" => Translate(t, c, page) = {}
<1> DEFINE F(w) == [ppage |-> PhysOf(w, page), writable |-> w.rw, user |-> w.us,
                    exec |-> Executable(c, w), path |-> w.path]
<1>1. Translate(t, c, page) = { F(w) : w \in Walk(t, c, page) }
  BY DEF Translate
<1>2. Done(Walk(t, c, page))
  BY WalkSound
<1>3. AtMostOne(Translate(t, c, page))
  <2>1. AtMostOne(Walk(t, c, page))
    BY <1>2 DEF Done, Sound
  <2> HIDE DEF F
  <2> QED
    BY <1>1, <2>1 DEF AtMostOne
<1>4. ASSUME NEW w \in Walk(t, c, page)
      PROVE  /\ F(w) \in Mappings
             /\ Leaf(F(w)) \in Steps(F(w)) /\ Steps(F(w)) \subseteq Place
  <2>1. w \in Walker /\ w.path # <<>>
    BY <1>2 DEF Done, Sound
  <2>2. PhysOf(w, page) \in Nat
    <3>1. Span(w.level) \in Nat \ {0}
      BY <2>1, SpanType DEF Walker
    <3>2. w.at \in Nat /\ page \in Nat
      BY <2>1, PagingAssumption DEF Walker
    <3>3. w.at \div Span(w.level) \in Nat
      BY <3>1, <3>2
    <3>4. Span(w.level) * (w.at \div Span(w.level)) \in Nat
      BY <3>1, <3>3
    <3>5. page % Span(w.level) \in Nat
      BY <3>1, <3>2
    <3> QED
      BY <3>4, <3>5 DEF PhysOf
  <2>3. Executable(c, w) \in BOOLEAN
    BY DEF Executable
  <2>4. w.path \in Seq(Place)
    BY <2>1 DEF Walker
  <2>5. F(w) \in Mappings
    BY <2>1, <2>2, <2>3, <2>4 DEF Mappings, Walker
  <2>6. F(w).path = w.path
    OBVIOUS
  <2>7. Len(w.path) \in DOMAIN w.path
    BY <2>1, <2>4
  <2> HIDE DEF F
  <2>8. Leaf(F(w)) \in Steps(F(w))
    BY <2>6, <2>7 DEF Leaf, Steps
  <2>9. Steps(F(w)) \subseteq Place
    BY <2>4, <2>6 DEF Steps
  <2> QED
    BY <2>5, <2>8, <2>9
<1>5. Mode(c) = "off" => Translate(t, c, page) = {}
  <2>1. Mode(c) = "off" => Walk(t, c, page) = {}
    BY DEF Walk
  <2> HIDE DEF F
  <2> QED
    BY <1>1, <2>1
<1> HIDE DEF F
<1> QED
  BY <1>1, <1>3, <1>4, <1>5

----------------------------------------------------------------------------
(* Types.                                                                  *)

LEMMA SlotType == \A page \in Page : Slot(page) \in SlotSet
  BY PagingAssumption, TlbAssumption DEF Slot, SlotSet

LEMMA MarkedType ==
  ASSUME NEW ms \in [Place -> SUBSET Mark], NEW m, NEW write
  PROVE  Marked(ms, m, write) \in [Place -> SUBSET Mark]
  BY DEF Marked, Mark

LEMMA FaultType ==
  ASSUME TypeOK, NEW page \in Page, NEW present \in BOOLEAN, NEW k \in Access
  PROVE  /\ PageFault(cr, page, present, k) \in Faults /\ Gp \in Faults
         /\ \A new \in Faults : Raised(fault, new) \in Faults
<1>1. cr.nxe \in BOOLEAN
  BY DEF TypeOK, Controls
<1>2. (k.fetch /\ cr.nxe) \in BOOLEAN /\ k.write \in BOOLEAN /\ k.user \in BOOLEAN
  BY <1>1 DEF Access
<1>3. PageFault(cr, page, present, k) \in Faults
  BY <1>2 DEF PageFault, Faults
<1> QED
  BY <1>3 DEF Faults, Raised, TypeOK

LEMMA FilledType ==
  ASSUME TypeOK, NEW page \in Page, NEW m \in Mappings, NEW write \in BOOLEAN
  PROVE  LET new == [tlb EXCEPT ![Slot(page)] = Filled(page, m, write)]
         IN  /\ new \in [SlotSet -> SUBSET TlbEntry]
             /\ \A s \in SlotSet : \A e, f \in new[s] : e = f /\ Slot(e.vpage) = s
<1>1. Slot(page) \in SlotSet
  BY SlotType
<1>2. Filled(page, m, write) \subseteq TlbEntry
  BY DEF Filled, Mappings, TlbEntry
<1>3. \A e, f \in Filled(page, m, write) : e = f /\ e.vpage = page
  BY DEF Filled
<1> QED
  BY <1>1, <1>2, <1>3 DEF TypeOK

LEMMA DirtiedType ==
  ASSUME TypeOK, NEW page \in Page, NEW e \in Hits(page)
  PROVE  LET new == [tlb EXCEPT ![Slot(page)] = {[e EXCEPT !.dirtied = TRUE]}]
         IN  /\ new \in [SlotSet -> SUBSET TlbEntry]
             /\ \A s \in SlotSet : \A x, y \in new[s] : x = y /\ Slot(x.vpage) = s
<1>1. Slot(page) \in SlotSet
  BY SlotType
<1>2. e \in TlbEntry /\ e.vpage = page
  BY <1>1 DEF Hits, TypeOK
<1>3. [e EXCEPT !.dirtied = TRUE] \in TlbEntry /\ [e EXCEPT !.dirtied = TRUE].vpage = page
  BY <1>2 DEF TlbEntry
<1> QED
  BY <1>1, <1>3 DEF TypeOK

LEMMA EmptyType ==
  /\ Empty \in [SlotSet -> SUBSET TlbEntry]
  /\ \A s \in SlotSet : Empty[s] = {}
  BY DEF Empty

LEMMA UseType ==
  ASSUME TypeOK, NEW page \in Page, NEW k \in Kinds, Use(page, k)
  PROVE  TypeOK'
<1>1. k \in Access
  BY TlbAssumption
<1>2. \A m \in Translate(table, cr, page) : m \in Mappings
  BY TranslateType DEF TypeOK
<1>3. ASSUME NEW new \in Faults, Refuse(new)
      PROVE  TypeOK'
  <2>1. fault' \in Faults
    BY <1>1, <1>3, FaultType DEF Refuse
  <2> QED
    BY <1>3, <2>1 DEF TypeOK, Refuse
<1>4. CASE Refuse(Gp)
  BY <1>3, <1>4 DEF Faults
<1>5. CASE \E present \in BOOLEAN : Refuse(PageFault(cr, page, present, k))
  BY <1>1, <1>3, <1>5, FaultType
<1>6. CASE Mode(cr) = "off" /\ Grant(page) /\ UNCHANGED <<marks, tlb>>
  BY <1>6, PagingAssumption DEF TypeOK, Grant
<1>7. ASSUME NEW e \in Hits(page), Allowed(cr, e, k), Grant(e.ppage),
             IF k.write /\ ~e.dirtied THEN Dirtied(e, page) ELSE UNCHANGED <<tlb, marks>>
      PROVE  TypeOK'
  <2>1. e \in TlbEntry
    BY SlotType DEF Hits, TypeOK
  <2>2. e.ppage \in Nat
    BY <2>1 DEF TlbEntry
  <2>3. CASE k.write /\ ~e.dirtied
    <3>0. Dirtied(e, page)
      BY <1>7, <2>3
    <3>1. tlb' \in [SlotSet -> SUBSET TlbEntry]
          /\ \A s \in SlotSet : \A x, y \in tlb'[s] : x = y /\ Slot(x.vpage) = s
      BY <3>0, DirtiedType DEF Dirtied
    <3>2. marks' \in [Place -> SUBSET Mark]
      <4>1. CASE UNCHANGED marks
        BY <4>1 DEF TypeOK
      <4>2. ASSUME NEW m, marks' = Marked(marks, m, TRUE)
            PROVE  marks' \in [Place -> SUBSET Mark]
        BY <4>2, MarkedType DEF TypeOK
      <4> QED
        BY <3>0, <4>1, <4>2 DEF Dirtied
    <3> QED
      BY <1>7, <2>2, <3>1, <3>2 DEF TypeOK, Grant
  <2>4. CASE ~(k.write /\ ~e.dirtied)
    BY <1>7, <2>2, <2>4 DEF TypeOK, Grant
  <2> QED
    BY <2>3, <2>4
<1>8. ASSUME NEW m \in Translate(table, cr, page), Grant(m.ppage),
             tlb' = [tlb EXCEPT ![Slot(page)] = Filled(page, m, k.write)],
             marks' = Marked(marks, m, k.write)
      PROVE  TypeOK'
  <2>1. m \in Mappings /\ m.ppage \in Nat /\ k.write \in BOOLEAN
    BY <1>1, <1>2 DEF Mappings, Access
  <2>2. tlb' \in [SlotSet -> SUBSET TlbEntry]
        /\ \A s \in SlotSet : \A x, y \in tlb'[s] : x = y /\ Slot(x.vpage) = s
    BY <1>8, <2>1, FilledType
  <2>3. marks' \in [Place -> SUBSET Mark]
    BY <1>8, MarkedType DEF TypeOK
  <2> QED
    BY <1>8, <2>1, <2>2, <2>3 DEF TypeOK, Grant
<1> QED
  BY <1>4, <1>5, <1>6, <1>7, <1>8 DEF Use, Hit, Miss

\* TypeOK is inductive: every handler keeps every type (apply_paging_inner, invlpg,
\* flush_tlb and the writes of the control registers).
LEMMA TypeStep == TypeOK /\ [Next]_vars => TypeOK'
<1> SUFFICES ASSUME TypeOK, [Next]_vars
             PROVE  TypeOK'
  OBVIOUS
<1>1. ASSUME NEW page \in Page, NEW k \in Kinds, Use(page, k)
      PROVE  TypeOK'
  BY <1>1, UseType
<1>2. CASE Dispatch
  BY <1>2 DEF Dispatch, TypeOK, Faults
<1>3. ASSUME NEW w \in Writes, Write(w[1], w[2], w[3])
      PROVE  TypeOK'
  <2>1. w[1] \in Place /\ w[2] \in Entries /\ w[3] \in SUBSET Mark
    BY TlbAssumption
  <2>2. table' \in Tables /\ marks' \in [Place -> SUBSET Mark]
    BY <1>3, <2>1 DEF Write, TypeOK, Tables
  <2>3. owed' \subseteq Page
    BY <1>3 DEF Write, TypeOK, TakenBack
  <2> QED
    BY <1>3, <2>2, <2>3 DEF Write, Runs, TypeOK
<1>4. ASSUME NEW c \in Settings, Set(c)
      PROVE  TypeOK'
  <2>1. cr' \in Controls
    BY <1>4, TlbAssumption DEF Set
  <2>2. Flush \/ Keep
    BY <1>4 DEF Set, WriteCr0, WriteCr3, WriteCr4, WriteEfer
  <2>3. CASE Flush
    BY <1>4, <2>1, <2>3, EmptyType DEF Flush, Set, Runs, TypeOK
  <2>4. CASE Keep
    <3>1. owed' \subseteq Page
      BY <2>4 DEF Keep, TakenBack, TypeOK
    <3> QED
      BY <1>4, <2>1, <2>4, <3>1 DEF Keep, Set, Runs, TypeOK
  <2> QED
    BY <2>2, <2>3, <2>4
<1>5. ASSUME NEW page \in Page, Invlpg(page)
      PROVE  TypeOK'
  BY <1>5, SlotType DEF Invlpg, Runs, TypeOK
<1>6. CASE UNCHANGED vars
  BY <1>6 DEF vars, TypeOK
<1> QED
  BY <1>1, <1>2, <1>3, <1>4, <1>5, <1>6 DEF Next

\* For every table, every size of the TLB and every guest, all types are kept.
THEOREM TypeCorrect == Spec => []TypeOK
<1>1. Init => TypeOK
  BY EmptyType, TlbAssumption DEF Init, TypeOK, Faults, Mark, Unbacked
<1> QED
  BY <1>1, TypeStep, PTL DEF Spec

----------------------------------------------------------------------------
(* The entries agree with the tables.                                      *)

\* More marks never make an entry wrong.
LEMMA AgreesKept ==
  ASSUME NEW e, Agrees(e), UNCHANGED <<table, cr>>,
         \A m \in Translate(table, cr, e.vpage) : \A x \in Steps(m) \cup {Leaf(m)} :
           marks[x] \subseteq marks'[x]
  PROVE  Agrees(e)'
  BY DEF Agrees

LEMMA MarksGrow ==
  ASSUME TypeOK, NEW m, NEW write, marks' = Marked(marks, m, write)
  PROVE  /\ \A x \in Place : marks[x] \subseteq marks'[x]
         /\ \A x \in Place \cap Steps(m) : "a" \in marks'[x]
         /\ write /\ Leaf(m) \in Place => "d" \in marks'[Leaf(m)]
<1>1. \A x \in Place :
        marks'[x] = marks[x] \cup (IF x \in Steps(m) THEN {"a"} ELSE {})
                             \cup (IF write /\ x = Leaf(m) THEN {"d"} ELSE {})
  BY DEF Marked
<1> QED
  BY <1>1

\* An access marks the walk of what it fills or uses, and no other entry suffers.
LEMMA CoherentUse ==
  ASSUME TypeOK, Coherent, NEW page \in Page, NEW k \in Kinds, Use(page, k)
  PROVE  Coherent'
<1>0. TypeOK'
  BY UseType
<1>1. UNCHANGED <<table, cr, owed>>
  BY DEF Use, Hit, Miss, Refuse, Grant
<1>2. \A v \in Page : \A m \in Translate(table, cr, v) :
        m \in Mappings /\ Leaf(m) \in Steps(m) /\ Steps(m) \subseteq Place
  BY TranslateType DEF TypeOK
<1>3. \A s \in SlotSet : \A e \in tlb[s] : e \in TlbEntry /\ e.vpage \in Page
  BY DEF TypeOK, TlbEntry
<1>4. ASSUME \A x \in Place : marks[x] \subseteq marks'[x]
      PROVE  \A s \in SlotSet : \A e \in tlb[s] :
               cr'.pg /\ (e.vpage \notin owed' => Agrees(e)')
  BY <1>1, <1>2, <1>3, <1>4, AgreesKept DEF Coherent
<1>5. CASE UNCHANGED <<tlb, marks>>
  BY <1>1, <1>5 DEF Coherent, Agrees
<1>6. ASSUME NEW e \in Hits(page), page \notin owed, Dirtied(e, page)
      PROVE  Coherent'
  <2>1. e \in tlb[Slot(page)] /\ e.vpage = page /\ Slot(page) \in SlotSet
    BY SlotType DEF Hits
  <2>2. PICK m \in Translate(table, cr, page) :
          /\ e.ppage = m.ppage /\ e.writable = m.writable /\ e.user = m.user /\ e.exec = m.exec
          /\ \A x \in Steps(m) : "a" \in marks[x]
    BY <1>6, <2>1 DEF Coherent, Agrees
  <2>3. marks' = Marked(marks, m, TRUE)
    BY <1>6, <2>2, TranslateType DEF Dirtied, TypeOK, AtMostOne
  <2>4. /\ \A x \in Place : marks[x] \subseteq marks'[x]
        /\ \A x \in Place \cap Steps(m) : "a" \in marks'[x]
        /\ Leaf(m) \in Place => "d" \in marks'[Leaf(m)]
    BY <2>3, MarksGrow
  <2> DEFINE n == [e EXCEPT !.dirtied = TRUE]
  <2>5. e \in TlbEntry
    BY <1>3, <2>1
  <2>6. n.vpage = page /\ n.ppage = e.ppage /\ n.writable = e.writable /\ n.user = e.user
        /\ n.exec = e.exec
    BY <2>1, <2>5 DEF TlbEntry
  <2> HIDE DEF n
  <2>7. Agrees(n)'
    BY <1>1, <1>2, <2>2, <2>4, <2>6 DEF Agrees
  <2>8. \A s \in SlotSet : tlb'[s] = IF s = Slot(page) THEN {n} ELSE tlb[s]
    BY <1>6, <2>1 DEF Dirtied, TypeOK, n
  <2>9. cr'.pg
    BY <1>1, <2>1 DEF Coherent
  <2> QED
    BY <1>4, <2>4, <2>7, <2>8, <2>9 DEF Coherent
<1>7. ASSUME NEW m \in Translate(table, cr, page), Mode(cr) # "off",
             tlb' = [tlb EXCEPT ![Slot(page)] = Filled(page, m, k.write)],
             marks' = Marked(marks, m, k.write)
      PROVE  Coherent'
  <2>1. /\ \A x \in Place : marks[x] \subseteq marks'[x]
        /\ \A x \in Place \cap Steps(m) : "a" \in marks'[x]
        /\ k.write /\ Leaf(m) \in Place => "d" \in marks'[Leaf(m)]
    BY <1>7, MarksGrow
  <2>2. Leaf(m) \in Steps(m) /\ Steps(m) \subseteq Place
    BY <1>2, <1>7
  <2>3. \A e \in Filled(page, m, k.write) : Agrees(e)'
    BY <1>1, <1>7, <2>1, <2>2 DEF Filled, Agrees
  <2>4. cr'.pg
    BY <1>1, <1>7 DEF Mode, TypeOK, Controls
  <2>5. \A s \in SlotSet :
          tlb'[s] = IF s = Slot(page) THEN Filled(page, m, k.write) ELSE tlb[s]
    BY <1>7, SlotType DEF TypeOK
  <2> QED
    BY <1>4, <2>1, <2>3, <2>4, <2>5 DEF Coherent
<1> QED
  BY <1>5, <1>6, <1>7 DEF Use, Hit, Miss, Refuse

\* What the guest changes leaves the entries right, but for the pages it owes.
LEMMA CoherentChange ==
  ASSUME TypeOK, Coherent, ~Lazy, NEW t, NEW ms, NEW c,
         NEW s \in SlotSet, NEW e \in tlb[s], e.vpage \notin owed \cup TakenBack(t, ms, c)
  PROVE  \E m \in Translate(t, c, e.vpage) :
           /\ e.ppage = m.ppage /\ e.writable = m.writable /\ e.user = m.user /\ e.exec = m.exec
           /\ \A x \in Steps(m) : "a" \in ms[x]
           /\ e.dirtied => "d" \in ms[Leaf(m)]
<1>1. e.vpage \in Page
  BY DEF TypeOK, TlbEntry
<1>2. PICK m \in Translate(table, cr, e.vpage) :
        /\ e.ppage = m.ppage /\ e.writable = m.writable /\ e.user = m.user /\ e.exec = m.exec
        /\ \A x \in Steps(m) : "a" \in marks[x]
        /\ e.dirtied => "d" \in marks[Leaf(m)]
  BY DEF Coherent, Agrees
<1>3. Translate(t, c, e.vpage) = {m} /\ Kept(m, ms)
  BY <1>1, <1>2 DEF TakenBack
<1>4. Leaf(m) \in Steps(m)
  BY <1>1, <1>2, TranslateType DEF TypeOK
<1> QED
  BY <1>2, <1>3, <1>4 DEF Kept

\* Coherent is inductive with the types, for a guest that is not lazy.
LEMMA CoherentStep == ~Lazy /\ TypeOK /\ Coherent /\ [Next]_vars => Coherent'
<1> SUFFICES ASSUME ~Lazy, TypeOK, Coherent, [Next]_vars
             PROVE  Coherent'
  OBVIOUS
<1>1. ASSUME NEW page \in Page, NEW k \in Kinds, Use(page, k)
      PROVE  Coherent'
  BY <1>1, CoherentUse
<1>2. CASE Dispatch
  BY <1>2 DEF Dispatch, Coherent, Agrees
<1>3. ASSUME NEW w \in Writes, Write(w[1], w[2], w[3])
      PROVE  Coherent'
  <2>1. tlb' = tlb /\ cr' = cr /\ owed' = owed \cup TakenBack(table', marks', cr)
    BY <1>3 DEF Write
  <2> QED
    BY <2>1, CoherentChange DEF Coherent, Agrees
<1>4. ASSUME NEW c \in Settings, Set(c)
      PROVE  Coherent'
  <2>1. CASE Flush
    BY <2>1, EmptyType DEF Flush, Coherent
  <2>2. CASE Keep /\ cr'.pg = cr.pg
    <3>1. tlb' = tlb /\ table' = table /\ marks' = marks
          /\ owed' = owed \cup TakenBack(table, marks, cr')
      BY <1>4, <2>2 DEF Keep, Set
    <3> QED
      BY <2>2, <3>1, CoherentChange DEF Coherent, Agrees
  <2>3. Flush \/ (Keep /\ cr'.pg = cr.pg)
    BY <1>4 DEF Set, WriteCr0, WriteCr3, WriteCr4, WriteEfer, TypeOK, Controls
  <2> QED
    BY <2>1, <2>2, <2>3
<1>5. ASSUME NEW page \in Page, Invlpg(page)
      PROVE  Coherent'
  <2>1. \A s \in SlotSet : \A e \in tlb'[s] : e \in tlb[s] /\ e.vpage # page
    <3>1. \A s \in SlotSet : \A e \in tlb[s] : e.vpage = page => s = Slot(page) /\ e \in Hits(page)
      BY DEF TypeOK, Hits
    <3>2. CASE Hits(page) = {}
      BY <1>5, <3>1, <3>2 DEF Invlpg
    <3>3. CASE Hits(page) # {}
      BY <1>5, <3>1, <3>3, SlotType DEF Invlpg, TypeOK
    <3> QED
      BY <3>2, <3>3
  <2>2. UNCHANGED <<table, marks, cr>> /\ owed' = owed \ {page}
    BY <1>5 DEF Invlpg
  <2> QED
    BY <2>1, <2>2 DEF Coherent, Agrees
<1>6. CASE UNCHANGED vars
  BY <1>6 DEF vars, Coherent, Agrees
<1> QED
  BY <1>1, <1>2, <1>3, <1>4, <1>5, <1>6 DEF Next

\* For every table and size of the TLB, and every guest that invalidates what it
\* takes back, an entry is what a walk would find, whatever is switched, written,
\* filled, evicted or flushed in between.
THEOREM CoherentAlways ==
  ASSUME ~Lazy
  PROVE  Spec => []Coherent
<1>1. Init => Coherent
  BY EmptyType DEF Init, Coherent
<1>2. TypeOK /\ Coherent /\ [Next]_vars => Coherent'
  BY CoherentStep
<1> QED
  BY <1>1, <1>2, TypeCorrect, PTL DEF Spec

----------------------------------------------------------------------------
(* The TLB implements a unit that walks at every access.                   *)

\* The walks of the abstract unit are those of the TLB's.
LEMMA SameWalks ==
  /\ \A t, c, page : M!Translate(t, c, page) = Translate(t, c, page)
  /\ \A c, page : M!Canonical(c, page) = Canonical(c, page) /\ M!Mode(c) = Mode(c)
  /\ \A c, m, k : M!Allowed(c, m, k) = Allowed(c, m, k)
<1>1. \A c : M!Mode(c) = Mode(c)
  BY DEF M!Mode, Mode
<1>2. \A c, page : M!Canonical(c, page) = Canonical(c, page)
  BY <1>1 DEF M!Canonical, Canonical
<1>3. \A c, m, k : M!Allowed(c, m, k) = Allowed(c, m, k)
  BY DEF M!Allowed, Allowed
<1>4. \A level : M!Span(level) = Span(level)
  BY DEF M!Span, Span
<1>5. \A t, c, page : M!Walk(t, c, page) = Walk(t, c, page)
  BY DEF M!Walk, Walk, M!Lowest, Lowest, M!Level, Level, M!Down, Down, M!Index, Index,
         M!Span, Span, M!Neutral, Neutral, M!Begin, Begin, M!Mode, Mode
<1>6. \A t, c, page : M!Translate(t, c, page) = Translate(t, c, page)
  BY <1>1, <1>4, <1>5 DEF M!Translate, Translate, M!PhysOf, PhysOf, M!Executable, Executable
<1> QED
  BY <1>1, <1>2, <1>3, <1>6

LEMMA SameFaults ==
  /\ \A c, page, present, k : M!PageFault(c, page, present, k) = PageFault(c, page, present, k)
  /\ \A f, new : M!Raised(f, new) = Raised(f, new)
  /\ M!NoFault = NoFault /\ M!Gp = Gp /\ M!Unbacked = Unbacked
  BY DEF M!PageFault, PageFault, M!Raised, Raised, M!NoFault, NoFault, M!Gp, Gp,
         M!Unbacked, Unbacked

LEMMA SameMarked == \A ms, m, write : M!Marked(ms, m, write) = Marked(ms, m, write)
  BY DEF M!Marked, Marked, M!Steps, Steps, M!Leaf, Leaf, M!Place, Place

\* An access that the abstract unit makes, in the words of the TLB's walks.
LEMMA MmuUse ==
  ASSUME NEW page, NEW k, UNCHANGED <<table, cr>>,
         \/ /\ \/ ~Canonical(cr, page) /\ fault' = Raised(fault, Gp)
               \/ /\ Canonical(cr, page) /\ Mode(cr) # "off"
                  /\ Translate(table, cr, page) = {}
                  /\ fault' = Raised(fault, PageFault(cr, page, FALSE, k))
               \/ /\ Canonical(cr, page) /\ Mode(cr) # "off"
                  /\ \E m \in Translate(table, cr, page) : ~Allowed(cr, m, k)
                  /\ fault' = Raised(fault, PageFault(cr, page, TRUE, k))
            /\ got' = Unbacked /\ marks' = marks
         \/ /\ fault' = fault
            /\ \/ Mode(cr) = "off" /\ got' = page /\ marks' = marks
               \/ /\ Canonical(cr, page) /\ Mode(cr) # "off"
                  /\ \E m \in Translate(table, cr, page) :
                       Allowed(cr, m, k) /\ got' = m.ppage /\ marks' = Marked(marks, m, k.write)
  PROVE  M!Use(page, k)
  BY SameWalks, SameFaults, SameMarked DEF M!Use, M!Refuse, M!Grant

\* What is marked already stays as it is.
LEMMA MarkedSame ==
  ASSUME marks \in [Place -> SUBSET Mark], NEW m, NEW write \in BOOLEAN,
         \A x \in Steps(m) : "a" \in marks[x],
         write => "d" \in marks[Leaf(m)]
  PROVE  Marked(marks, m, write) = marks
<1>1. \A x \in Place : marks[x] \cup (IF x \in Steps(m) THEN {"a"} ELSE {})
                               \cup (IF write /\ x = Leaf(m) THEN {"d"} ELSE {}) = marks[x]
  OBVIOUS
<1> QED
  BY <1>1 DEF Marked

\* Every access through the TLB is one of a unit that walks.
LEMMA UseMaps ==
  ASSUME TypeOK, Coherent, NEW page \in Page, NEW k \in Kinds, Use(page, k)
  PROVE  M!Use(page, k)
<1>0. UNCHANGED <<table, cr>>
  BY DEF Use, Hit, Miss, Refuse, Grant
<1>1. k \in Access /\ k.write \in BOOLEAN
  BY TlbAssumption DEF Access
<1>2. CASE ~Canonical(cr, page) /\ Refuse(Gp)
  BY <1>0, <1>2, MmuUse DEF Refuse
<1>3. CASE Mode(cr) = "off" /\ Grant(page) /\ UNCHANGED <<marks, tlb>>
  BY <1>0, <1>3, MmuUse DEF Grant
<1>4. ASSUME Canonical(cr, page), Mode(cr) # "off", page \notin owed,
             NEW e \in Hits(page), Hit(e, page, k)
      PROVE  M!Use(page, k)
  <2>1. e \in tlb[Slot(page)] /\ e.vpage = page /\ Slot(page) \in SlotSet
    BY SlotType DEF Hits
  <2>2. PICK m \in Translate(table, cr, page) :
          /\ e.ppage = m.ppage /\ e.writable = m.writable /\ e.user = m.user /\ e.exec = m.exec
          /\ \A x \in Steps(m) : "a" \in marks[x]
          /\ e.dirtied => "d" \in marks[Leaf(m)]
    BY <1>4, <2>1 DEF Coherent, Agrees
  <2>3. Allowed(cr, e, k) <=> Allowed(cr, m, k)
    BY <2>2 DEF Allowed
  <2>4. CASE ~Allowed(cr, e, k) /\ Refuse(PageFault(cr, page, TRUE, k))
    BY <1>0, <1>4, <2>2, <2>3, <2>4, MmuUse DEF Refuse
  <2>5. ASSUME Allowed(cr, e, k), Grant(e.ppage), marks' = Marked(marks, m, k.write)
        PROVE  M!Use(page, k)
    <3>1. fault' = fault /\ got' = m.ppage /\ Allowed(cr, m, k)
      BY <2>2, <2>3, <2>5 DEF Grant
    <3> QED
      BY <1>0, <1>4, <2>2, <2>5, <3>1, MmuUse
  <2>6. CASE k.write /\ ~e.dirtied /\ Dirtied(e, page)
    <3>1. marks' = Marked(marks, m, TRUE)
      BY <2>2, <2>6, TranslateType DEF Dirtied, TypeOK, AtMostOne
    <3>2. k.write = TRUE
      BY <1>1, <2>6
    <3>3. marks' = Marked(marks, m, k.write)
      BY <3>1, <3>2
    <3> QED
      BY <1>4, <2>4, <2>5, <3>3 DEF Hit
  <2>7. CASE ~(k.write /\ ~e.dirtied) /\ UNCHANGED <<tlb, marks>>
    <3>1. marks' = Marked(marks, m, k.write)
      BY <1>1, <2>2, <2>7, MarkedSame DEF TypeOK
    <3> QED
      BY <1>4, <2>4, <2>5, <3>1 DEF Hit
  <2> QED
    BY <1>4, <2>4, <2>6, <2>7 DEF Hit
<1>5. ASSUME Canonical(cr, page), Mode(cr) # "off", Miss(page, k)
      PROVE  M!Use(page, k)
  <2>1. CASE Translate(table, cr, page) = {} /\ Refuse(PageFault(cr, page, FALSE, k))
    BY <1>0, <1>5, <2>1, MmuUse DEF Refuse
  <2>2. ASSUME NEW m \in Translate(table, cr, page), ~Allowed(cr, m, k),
               Refuse(PageFault(cr, page, TRUE, k))
        PROVE  M!Use(page, k)
    BY <1>0, <1>5, <2>2, MmuUse DEF Refuse
  <2>3. ASSUME NEW m \in Translate(table, cr, page), Allowed(cr, m, k), Grant(m.ppage),
               marks' = Marked(marks, m, k.write)
        PROVE  M!Use(page, k)
    BY <1>0, <1>5, <2>3, MmuUse DEF Grant
  <2> QED
    BY <1>5, <2>1, <2>2, <2>3 DEF Miss
<1> QED
  BY <1>2, <1>3, <1>4, <1>5 DEF Use

\* For every table and size of the TLB, a guest that invalidates what it takes back
\* cannot tell the TLB from a unit that walks the tables at every access: it reaches
\* the same pages, takes the same faults, and finds the same accessed and dirty bits.
THEOREM TlbImplementsMmu ==
  ASSUME ~Lazy
  PROVE  Spec => ImplementsMmu
<1>1. Init => M!Init
  BY SameFaults DEF Init, M!Init, M!Place, Place
<1>2. TypeOK /\ Coherent /\ [Next]_vars => [M!Next]_(M!vars)
  <2> SUFFICES ASSUME TypeOK, Coherent, [Next]_vars
               PROVE  [M!Next]_(M!vars)
    OBVIOUS
  <2>1. ASSUME NEW page \in Page, NEW k \in Kinds, Use(page, k)
        PROVE  M!Next
    BY <2>1, UseMaps DEF M!Next
  <2>2. CASE Dispatch
    BY <2>2, SameFaults DEF Dispatch, M!Dispatch, M!Next
  <2>3. ASSUME NEW w \in Writes, Write(w[1], w[2], w[3])
        PROVE  M!Next
    BY <2>3, SameFaults DEF Write, Runs, M!Write, M!Next
  <2>4. ASSUME NEW c \in Settings, Set(c)
        PROVE  M!Next
    BY <2>4, SameFaults DEF Set, Runs, M!Set, M!Next
  <2>5. ASSUME NEW page \in Page, Invlpg(page)
        PROVE  M!Next
    BY <2>5, SameFaults DEF Invlpg, Runs, M!Other, M!Next
  <2>6. CASE UNCHANGED vars
    BY <2>6 DEF vars, M!vars
  <2> QED
    BY <2>1, <2>2, <2>3, <2>4, <2>5, <2>6 DEF Next
<1>3. Spec => []Coherent
  BY CoherentAlways
<1> QED
  BY <1>1, <1>2, <1>3, TypeCorrect, PTL DEF Spec, ImplementsMmu, M!Spec
=============================================================================
