-------------------------------- MODULE Dma --------------------------------
(***************************************************************************)
(* The 8237 (dma.rs).  Addresses and counts are written a byte at a time    *)
(* through one flip-flop that all channels share; a count is one less than  *)
(* the number of 16-bit words.  Radix is the size of a byte (256).          *)
(***************************************************************************)
EXTENDS Integers, Sequences, FiniteSetsExt, TLC
CONSTANT Radix

Channels == 0..3
Halves == [lo : 0..(Radix - 1), hi : 0..(Radix - 1)]
Word(h) == h.lo + Radix * h.hi

New == [base    |-> [c \in Channels |-> [lo |-> 0, hi |-> 0]],
        count   |-> [c \in Channels |-> [lo |-> 0, hi |-> 0]],
        page    |-> [c \in Channels |-> 0],
        enabled |-> {}, done |-> {}, high |-> FALSE]

Half(d) == IF d.high THEN "hi" ELSE "lo"

(* ports 0 to 7: an address and a count for each channel in turn *)
SlipWriteChannel(d, port, v) ==
  LET c == (port \div 2) % 4
  IN  IF port % 2 = 1 THEN [d EXCEPT !.count[c][Half(d)] = v] ELSE [d EXCEPT !.base[c][Half(d)] = v]
WriteChannel(d, port, v) ==
  LET c == (port \div 2) % 4
      f == [d EXCEPT !.high = ~@]
  IN  IF port % 2 = 1 THEN [f EXCEPT !.count[c][Half(d)] = v] ELSE [f EXCEPT !.base[c][Half(d)] = v]

PageOf == (\h87 :> 0) @@ (\h83 :> 1) @@ (\h81 :> 2) @@ (\h82 :> 3)
WritePage(d, port, v) == IF port \in DOMAIN PageOf THEN [d EXCEPT !.page[PageOf[port]] = v] ELSE d

(* single mask register: bits 1-0 are the channel, bit 2 masks it *)
WriteMask(d, v) ==
  LET c == v % 4
  IN  [d EXCEPT !.enabled = IF (v \div 4) % 2 = 0 THEN @ \cup {c} ELSE @ \ {c}]

Address(d, c) == Radix * Radix * d.page[c] + Word(d.base[c])
Moved(d, c) == 2 * (Word(d.count[c]) + 1)
(* a bit for each channel that has finished a transfer *)
Status(d) == SumSet({2 ^ c : c \in d.done})
Transferred(d, c) == [d EXCEPT !.done = @ \cup {c}, !.enabled = @ \ {c}]
=============================================================================
