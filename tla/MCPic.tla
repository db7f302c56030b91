------------------------------- MODULE MCPic -------------------------------
(***************************************************************************)
(* A small pair for TLC: four lines a chip, so that the cascade input has  *)
(* a line below and a line above it, and a device on a line of each kind.  *)
(* A byte is a number whose bits select the lines.                         *)
(***************************************************************************)
EXTENDS Pic

MCBytes  == {0, 4, 9}           \* nothing; the cascade line; lines 0 and 3
MCNested == {0, 1, 8}           \* never the cascade line
MCMaskOf == [b \in Bytes |-> {i \in Line : (b \div 2^i) % 2 = 1}]
MCBaseOf == [b \in Bytes |-> b - (b % 8)]
=============================================================================
