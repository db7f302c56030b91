------------------------------- MODULE Virtio -------------------------------
(***************************************************************************)
(* The virtio block device (src/virtio.rs) and the driver on the other     *)
(* side of its ring.                                                       *)
(*                                                                         *)
(* The device is its registers and the place it has reached in the         *)
(* available ring; the rings are guest memory, which only a notification   *)
(* makes it read or write.  Free-running indices count modulo Wrap (65536  *)
(* in the code) and a ring has Size slots (128).  The driver, external     *)
(* code, reuses a descriptor chain only when it has taken its answer, and  *)
(* hands over rings full of zeros, after it has given up the last ones.    *)
(***************************************************************************)
EXTENDS BlockRequest

CONSTANTS
  Size,       \* slots of a ring, and chains the driver can have outstanding
  Wrap,       \* values of a ring index
  Chains,     \* what the driver asks for
  Cases       \* what a driver could ask for, each checked on its own

ASSUME VirtioAssumption ==
  /\ Size \in Nat \ {0} /\ Wrap \in Nat
  /\ Wrap % Size = 0 /\ Wrap > Size
  /\ Sectors \in Nat /\ (Chains \cup Cases) \subseteq Chain /\ Zero \in Value

Index == 0 .. Wrap - 1
Id  == 0 .. Size - 1

Devices == [ ready: BOOLEAN, isr: BOOLEAN, irq: BOOLEAN, last: Index ]

Rings == [ availIdx: Index, avail: [Id -> Id],
           usedIdx:  Index, used:  [Id -> [id: Id, written: Nat]],
           table:    [Id -> Chain],
           answer:   [Id -> Status] ]

VARIABLES
  dev,        \* the device's registers; ready: a ring is set
  ring,       \* the rings, the descriptor table and the status bytes
  store,      \* the image and the driver's buffers
  seen,       \* how far the driver has got in the used ring
  draining    \* the driver was told of completions and takes answers until none is left

vars == <<dev, ring, store, seen, draining>>

\* Operators named Slip... are slips a change to the code could make, each before
\* the definition it gets wrong: the properties must notice them.

Plus(x, k)     == (x + k) % Wrap
Slot(x)        == x % Size

\* Indices compared by their order stall the queue when one has wrapped.
SlipDistance(x, y) == IF x < y THEN y - x ELSE 0
Distance(x, y)     == (y - x) % Wrap

NoDevice == [ready |-> FALSE, isr |-> FALSE, irq |-> FALSE, last |-> 0]
NoRings    == [ availIdx |-> 0, avail |-> [s \in Id |-> 0],
                usedIdx  |-> 0, used  |-> [s \in Id |-> [id |-> 0, written |-> 0]],
                table    |-> [h \in Id |-> CHOOSE c \in Chains : TRUE],
                answer   |-> [h \in Id |-> "none"] ]

----------------------------------------------------------------------------
(* notify.                                                                 *)

\* The requests between the device's place and the driver's index.
Batch(d, r) ==
  [ i \in 1 .. Distance(d.last, r.availIdx) |->
      LET h == r.avail[Slot(Plus(d.last, i - 1))] IN [id |-> h, chain |-> r.table[h]] ]

\* The rings with the answers written: to the slots after the used index, and each
\* status byte at the end of its own chain.
Completed(r, answers) ==
  LET n       == Len(answers)
      at(s)   == { i \in 1 .. n : Slot(Plus(r.usedIdx, i - 1)) = s }
      of(h)   == { i \in 1 .. n : answers[i].id = h /\ answers[i].status # "none" }
      last(I) == CHOOSE i \in I : \A j \in I : j <= i
  IN  [r EXCEPT !.used = [s \in Id |->
                            IF at(s) = {} THEN @[s]
                            ELSE [id      |-> answers[last(at(s))].id,
                                  written |-> answers[last(at(s))].written]],
                !.answer = [h \in Id |->
                            IF of(h) = {} THEN @[h] ELSE answers[last(of(h))].status],
                !.usedIdx = Plus(@, n)]

\* The line goes up for a request served alone and is forgotten for a batch.
SlipSignalled(d, n) == [d EXCEPT !.isr = @ \/ n > 0, !.irq = @ \/ n = 1, !.last = Plus(@, n)]
Signalled(d, n)     == [d EXCEPT !.isr = @ \/ n > 0, !.irq = @ \/ n > 0, !.last = Plus(@, n)]

Notify ==
  /\ IF dev.ready
     THEN LET batch == Batch(dev, ring)
          IN  /\ ring'  = Completed(ring, Answers(store, batch))
              /\ store' = After(store, batch)[Len(batch)]
              /\ dev'   = Signalled(dev, Len(batch))
     ELSE UNCHANGED <<dev, ring, store>>
  /\ UNCHANGED <<seen, draining>>

----------------------------------------------------------------------------
(* The other registers.                                                    *)

\* The interrupt status: reading it clears it and drops the line.
ReadIsr ==
  /\ dev' = [dev EXCEPT !.isr = FALSE, !.irq = FALSE]
  /\ draining' = (draining \/ dev.isr)
  /\ UNCHANGED <<ring, store, seen>>

\* The page frame of rings the driver has just zeroed, or of none.  Either way the
\* device starts again at the first slot.
WriteQueue(ready) ==
  /\ ready => ~dev.ready
  /\ dev'  = [dev EXCEPT !.ready = ready, !.last = 0]
  /\ ring' = IF ready THEN NoRings ELSE ring
  /\ seen' = 0
  /\ draining' = FALSE
  /\ UNCHANGED store

\* A device status of zero.  (Any other changes nothing that is modelled.)
Reset ==
  /\ dev' = NoDevice
  /\ seen' = 0
  /\ draining' = FALSE
  /\ UNCHANGED <<ring, store>>

----------------------------------------------------------------------------
(* The driver.                                                             *)

Waiting == IF dev.ready THEN Batch(dev, ring) ELSE <<>>
Done ==
  IF ~dev.ready THEN <<>>
  ELSE [ i \in 1 .. Distance(seen, ring.usedIdx) |->
           LET u == ring.used[Slot(Plus(seen, i - 1))]
           IN  [id |-> u.id, status |-> ring.answer[u.id], written |-> u.written] ]

Free(h) == /\ \A i \in DOMAIN Waiting : Waiting[i].id # h
           /\ \A i \in DOMAIN Done : Done[i].id # h

Submit(h, c) ==
  /\ dev.ready /\ Free(h)
  /\ ring' = [ring EXCEPT !.table[h] = c, !.answer[h] = "none",
                          !.avail[Slot(ring.availIdx)] = h,
                          !.availIdx = Plus(@, 1)]
  /\ UNCHANGED <<dev, store, seen, draining>>

\* It takes answers when it was told of some, or when it polls the ring.
Take ==
  /\ Done # <<>>
  /\ seen' = Plus(seen, 1)
  /\ UNCHANGED <<dev, ring, store, draining>>

Drained ==
  /\ draining /\ Done = <<>>
  /\ draining' = FALSE
  /\ UNCHANGED <<dev, ring, store, seen>>

Change(a, v) ==
  /\ store' = [store EXCEPT !.mem[a] = v]
  /\ UNCHANGED <<dev, ring, seen, draining>>

----------------------------------------------------------------------------

Init ==
  /\ dev = NoDevice /\ seen = 0 /\ draining = FALSE
  /\ store = [disk |-> [b \in 0 .. Sectors - 1 |-> Zero], mem |-> [a \in Address |-> Zero]]
  /\ ring = NoRings

Next ==
  \/ Notify
  \/ ReadIsr
  \/ \E ready \in BOOLEAN : WriteQueue(ready)
  \/ Reset
  \/ \E h \in Id, c \in Chains : Submit(h, c)
  \/ Take
  \/ Drained
  \/ \E a \in Address, v \in Value : Change(a, v)

Spec == Init /\ [][Next]_vars

----------------------------------------------------------------------------
(* Properties.                                                             *)

\* An answer the driver has not taken is always announced: the line is up, or the
\* driver has read the interrupt status since and is still taking answers.
CompletionSignalled == Done # <<>> => dev.irq \/ draining

\* Every request a driver could make does to the store what a driver relies on
\* (request, virtio.rs:219-306).  Looked at where nothing is set up: the store takes
\* all its values there.
RequestsCorrect ==
  dev = NoDevice /\ ring = NoRings =>
    \A c \in Cases : Disjoint(c) => Correct(store, c)

\* The rings and their wrapping indices implement a queue: nothing is lost, served
\* twice or reordered, through wraps, resets and changes of the ring.
Queue == INSTANCE BlockQueue WITH open <- dev.ready, queue <- Waiting, done <- Done
ImplementsQueue == Queue!Spec
=============================================================================
