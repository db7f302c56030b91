----------------------------- MODULE BlockQueue -----------------------------
(***************************************************************************)
(* What a disk with one request queue promises its driver: requests are    *)
(* carried out once each, in the order in which they were made available,  *)
(* and their answers come back in that order, none lost and none twice.    *)
(* The split ring of module Virtio implements this specification.          *)
(***************************************************************************)
EXTENDS BlockRequest

CONSTANTS Id, Chains

VARIABLES
  store,      \* the image and the driver's buffers
  open,       \* the driver has a queue
  queue,      \* requests made available and not yet carried out
  done        \* answers the driver has not yet taken

vars == <<store, open, queue, done>>

Init == store \in Stores /\ open = FALSE /\ queue = <<>> /\ done = <<>>

Submit(h, c) ==
  /\ open
  /\ queue' = Append(queue, [id |-> h, chain |-> c])
  /\ UNCHANGED <<store, open, done>>

Serve ==
  /\ queue # <<>>
  /\ store' = After(store, queue)[Len(queue)]
  /\ done' = done \o Answers(store, queue)
  /\ queue' = <<>>
  /\ UNCHANGED open

Take ==
  /\ done # <<>>
  /\ done' = Tail(done)
  /\ UNCHANGED <<store, open, queue>>

\* The driver changes its buffers; it gives up the queue, and opens another.
Change(a, v) == store' = [store EXCEPT !.mem[a] = v] /\ UNCHANGED <<open, queue, done>>
Abandon == open /\ open' = FALSE /\ queue' = <<>> /\ done' = <<>> /\ UNCHANGED store
Open    == ~open /\ open' = TRUE /\ UNCHANGED <<store, queue, done>>

Next ==
  \/ \E h \in Id, c \in Chains : Submit(h, c)
  \/ Serve
  \/ Take
  \/ \E a \in Address, v \in Value : Change(a, v)
  \/ Abandon
  \/ Open

Spec == Init /\ [][Next]_vars
=============================================================================
