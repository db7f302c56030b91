------------------------------- MODULE MCKbd -------------------------------
(***************************************************************************)
(* The keyboard controller with a queue of a few bytes, one scancode, and  *)
(* every byte the device knows, one of which also turns the interrupt on   *)
(* and one off when it is taken as a command byte.                         *)
(***************************************************************************)
EXTENDS Kbd

MCBytes == DeviceCommand \cup {"zero", "ctrOn"}
MCCtrOf == [b \in MCBytes |-> IF b = "ctrOn" THEN {"kbdInt", "sys"} ELSE {}]
=============================================================================
