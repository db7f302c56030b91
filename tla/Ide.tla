-------------------------------- MODULE Ide --------------------------------
(***************************************************************************)
(* The ATA controller (ide.rs) and the disk services of the BIOS that share *)
(* its image (bios.rs).  The image and the transfer buffer are sequences of *)
(* 16-bit words, the unit in which the data port moves them: pairs of bytes. *)
(* Words of them make a sector (256 in the code); an image need not end on   *)
(* one.                                                                     *)
(***************************************************************************)
EXTENDS Integers, Sequences, SequencesExt
CONSTANTS Words,         \* words a sector
          Heads, Track   \* geometry the BIOS assumes: heads, sectors a track

Null == <<0, 0>>
Reads  == {\h20, \h21}
Writes == {\h30, \h31}

New(image) == [disk |-> image, error |-> 0, count |-> 0, lba |-> [i \in 0..3 |-> 0],
               buffer |-> <<>>, index |-> 0, pending |-> 0, busy |-> FALSE]

Lba(d) == d.lba[0] + 256 * d.lba[1] + 65536 * d.lba[2] + 16777216 * (d.lba[3] % 16)
Sectors(d) == IF d.count = 0 THEN 1 ELSE d.count

WriteReg(d, port, v) ==
  CASE port = \h1F1 -> [d EXCEPT !.error = v]
    [] port = \h1F2 -> [d EXCEPT !.count = v]
    [] OTHER        -> [d EXCEPT !.lba[port - \h1F3] = v]

(* n words from word s on lie within the image *)
Within(d, s, n) == s + n <= Len(d.disk)

Begun(d, c) ==
  LET s == Words * Lba(d)  n == Words * Sectors(d)
  IN  CASE c \in Reads  -> IF Within(d, s, n)
                           THEN [d EXCEPT !.buffer = SubSeq(d.disk, s + 1, s + n), !.error = 0]
                           ELSE [d EXCEPT !.buffer = <<>>, !.error = 4]
        [] c \in Writes -> [d EXCEPT !.buffer = [i \in 1..n |-> Null], !.error = 0]
        [] OTHER        -> [d EXCEPT !.error = 4]

(* the whole command runs within the write to the port: busy is set and cleared *)
Command(d, c) == [Begun(d, c) EXCEPT !.pending = c, !.index = 0, !.busy = FALSE]

AtData(d) == d.index < Len(d.buffer)
DataRead(d) == IF AtData(d) THEN d.buffer[d.index + 1] ELSE Null
SlipReadData(d) == d
ReadData(d) == IF AtData(d) THEN [d EXCEPT !.index = @ + 1] ELSE d
WriteData(d, v) == IF AtData(d) THEN [d EXCEPT !.buffer[d.index + 1] = v, !.index = @ + 1] ELSE d

Stored(disk, s, words) == [i \in 1..Len(disk) |->
                             IF i - s \in 1..Len(words) THEN words[i - s] ELSE disk[i]]

FlushWrite(d) ==
  IF d.pending \notin Writes THEN d
  ELSE LET s == Words * Lba(d)
       IN  [d EXCEPT !.pending = 0,
                     !.disk = IF Within(d, s, Len(d.buffer)) THEN Stored(@, s, d.buffer) ELSE @]

-----------------------------------------------------------------------------
(* INT 13h: cylinder, head and a sector counted from 1; the carry flag says  *)
(* that the sectors are not in the image, and then nothing is moved.         *)

Chs(c, h, s) == Words * ((c * Heads + h) * Track + (s - 1))
BiosFails(d, at, n) == ~Within(d, at, Words * n)
BiosWrite(d, at, words) == [d EXCEPT !.disk = Stored(@, at, words)]
=============================================================================
