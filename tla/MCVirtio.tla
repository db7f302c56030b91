------------------------------ MODULE MCVirtio ------------------------------
(***************************************************************************)
(* A disk of two sectors and a driver with two chains and two buffers; its *)
(* requests are reads and writes of one and of two descriptors, inside the *)
(* image and past its end, with a read into a buffer that is not writable. *)
(***************************************************************************)
EXTENDS Virtio

At(addr, len, write) == [addr |-> addr, len |-> len, write |-> write]
Request(type, sector, data) == [type |-> type, sector |-> sector, data |-> data, whole |-> TRUE]

MCChains ==
  { Request("in", 1, <<At(1, 1, TRUE), At(0, 1, TRUE)>>),
    Request("in", 0, <<At(0, 1, TRUE), At(1, 1, FALSE)>>),
    Request("out", 0, <<At(1, 1, FALSE), At(0, 1, FALSE)>>) }

Buffers == { At(0, 1, w) : w \in BOOLEAN } \cup { At(1, 1, w) : w \in BOOLEAN }
           \cup { At(0, 2, w) : w \in BOOLEAN }
MCCases ==
  { [type |-> t, sector |-> s, data |-> d, whole |-> w] :
      t \in RequestType, s \in 0 .. 2, w \in BOOLEAN,
      d \in {<<>>} \cup { <<a>> : a \in Buffers } \cup { <<a, b>> : a, b \in Buffers } }
=============================================================================
