---------------------------- MODULE BlockRequest ----------------------------
(***************************************************************************)
(* What one request to the virtio disk does (src/virtio.rs, request): a    *)
(* chain of descriptors in guest memory, carried out against the image.    *)
(*                                                                         *)
(* A store is the image and the guest's memory, both in blocks of a sector.*)
(* A chain is its header (a type and a sector), its data descriptors in    *)
(* order, and whether it is `whole`: a chain of fewer than two descriptors *)
(* has no status to write.  Descriptors never overlap the rings, and their *)
(* links, which end within the table, are followed already.                *)
(***************************************************************************)
EXTENDS Integers, Sequences, SequencesExt

CONSTANTS
  Sectors,      \* blocks of the image
  Address,      \* blocks of guest memory the driver uses for data
  Value,        \* contents of a block
  Zero          \* the block of zeros

RequestType == {"in", "out", "flush", "getId", "other"}
Status      == {"ok", "ioErr", "unsupp", "none"}

Descriptor == [addr: Address, len: Nat, write: BOOLEAN]
Chain      == [type: RequestType, sector: Nat, data: Seq(Descriptor), whole: BOOLEAN]

Stores == [disk: [0 .. Sectors - 1 -> Value], mem: [Address -> Value]]

\* The progress of a request: where it stands in the image, whether all went well
\* and how much it says it has written.
Begun(s, c) == [store |-> s, offset |-> c.sector, ok |-> TRUE, written |-> 0]

Past(r, d) == r.offset + d.len > Sectors

\* The block of the image that a descriptor pairs with an address, and the address
\* it pairs with a block.
BlockOf(r, d, a)   == r.offset + (a - d.addr)
AddressOf(r, d, b) == d.addr + (b - r.offset)
Covers(d, a)       == a \in d.addr .. d.addr + d.len - 1

\* The place in the image after a descriptor; and a slip that stays at the first.
SlipAdvanced(r, d) == r.offset
Advanced(r, d)     == r.offset + d.len

\* One data descriptor of a read: what lies past the end of the image is left.
ReadInto(r, d) ==
  [ store   |-> [r.store EXCEPT !.mem =
                   [a \in Address |->
                      IF Covers(d, a) /\ BlockOf(r, d, a) < Sectors
                      THEN r.store.disk[BlockOf(r, d, a)] ELSE @[a]]],
    offset  |-> Advanced(r, d),
    ok      |-> r.ok /\ ~Past(r, d),
    written |-> r.written + d.len ]

WrittenFrom(r, d) ==
  [ store   |-> [r.store EXCEPT !.disk =
                   [b \in 0 .. Sectors - 1 |->
                      IF b >= r.offset /\ b < r.offset + d.len
                      THEN r.store.mem[AddressOf(r, d, b)] ELSE @[b]]],
    offset  |-> Advanced(r, d),
    ok      |-> r.ok /\ ~Past(r, d),
    written |-> r.written ]

Zeroed(r, d) ==
  [r EXCEPT !.store.mem = [a \in Address |-> IF Covers(d, a) THEN Zero ELSE @[a]],
            !.written   = @ + d.len]

\* A read stops at the first descriptor the driver did not make writable.
Writable(data) ==
  { n \in 0 .. Len(data) : /\ \A i \in 1 .. n : data[i].write
                           /\ n < Len(data) => ~data[n + 1].write }
Usable(data) == SubSeq(data, 1, CHOOSE n \in Writable(data) : TRUE)

Verdict(r) == IF r.ok THEN "ok" ELSE "ioErr"
Ended(r, status) == [store |-> r.store, status |-> status, written |-> r.written]

Performed(s, c) ==
  LET begun == Begun(s, c)
  IN  IF ~c.whole THEN Ended(begun, "none")
      ELSE CASE c.type = "in"    -> LET r == FoldLeft(ReadInto, begun, Usable(c.data))
                                    IN  Ended(r, IF Usable(c.data) = c.data THEN Verdict(r) ELSE "ioErr")
             [] c.type = "out"   -> LET r == FoldLeft(WrittenFrom, begun, c.data)
                                    IN  Ended(r, Verdict(r))
             [] c.type = "flush" -> Ended(begun, "ok")
             [] c.type = "getId" -> Ended(FoldLeft(Zeroed, begun, c.data), "ok")
             [] c.type = "other" -> Ended(begun, "unsupp")

\* The stores between the requests of a queue: before the first, ..., after the last.
After(s, q) ==
  LET at[i \in 0 .. Len(q)] ==
        IF i = 0 THEN s ELSE Performed(at[i - 1], q[i].chain).store
  IN  at

Answers(s, q) ==
  [ i \in DOMAIN q |->
      LET r == Performed(After(s, q)[i - 1], q[i].chain)
      IN  [id |-> q[i].id, status |-> r.status, written |-> r.written] ]

----------------------------------------------------------------------------
(* A reference definition, by blocks: the k-th block a chain names.        *)

Places(c) ==
  LET before[i \in 1 .. Len(c.data)] == IF i = 1 THEN 0 ELSE before[i - 1] + c.data[i - 1].len
  IN  UNION { { [addr  |-> c.data[i].addr + j, block |-> c.sector + before[i] + j,
                 write |-> c.data[i].write] : j \in 0 .. c.data[i].len - 1 }
              : i \in DOMAIN c.data }

Inside(c)   == \A p \in Places(c) : p.block < Sectors
Disjoint(c) == \A p, q \in Places(c) : p.addr = q.addr => p = q

\* What a driver may rely on: a request that is answered "ok" moved every block, and
\* only those; one that is not ran past the image or into a read-only buffer;
\* nothing but a write changes the image and a write changes nothing else.
Correct(s, c) ==
  LET r == Performed(s, c)
      moved == { p \in Places(c) : p.block < Sectors }
  IN  /\ c.type # "out" \/ ~c.whole => r.store.disk = s.disk
      /\ c.type \notin {"in", "getId"} \/ ~c.whole => r.store.mem = s.mem
      /\ c.whole /\ c.type = "in" =>
           /\ r.status = "ok" <=> Inside(c) /\ \A p \in Places(c) : p.write
           /\ \A a \in Address : r.store.mem[a] # s.mem[a] => \E p \in moved : p.addr = a
           /\ r.status = "ok" => \A p \in Places(c) : r.store.mem[p.addr] = s.disk[p.block]
      /\ c.whole /\ c.type = "out" =>
           /\ r.status = "ok" <=> Inside(c)
           /\ \A b \in 0 .. Sectors - 1 :
                r.store.disk[b] = IF \E p \in moved : p.block = b
                                  THEN s.mem[(CHOOSE p \in moved : p.block = b).addr]
                                  ELSE s.disk[b]
=============================================================================
