-------------------------------- MODULE Vga --------------------------------
(***************************************************************************)
(* The display: mode, cursor and CRTC registers (vga.rs), and the characters *)
(* of the text window as the video services of the BIOS write them (bios.rs). *)
(* Attributes and pixels are left out.                                      *)
(***************************************************************************)
EXTENDS Integers, Sequences
CONSTANTS Rows, Cols, Blank

Places == (0..(Rows - 1)) \X (0..(Cols - 1))
Graphics == {\h12, \h13}
New == [mode |-> 3, row |-> 0, col |-> 0, text |-> [p \in Places |-> Blank],
        index |-> 0, crtc |-> [r \in 0..31 |-> 0], retrace |-> FALSE]

(* a text mode puts the cursor home; the window belongs to the memory and is *)
(* not cleared                                                              *)
SetMode(v, m) == IF m \in Graphics THEN [v EXCEPT !.mode = m]
                 ELSE [v EXCEPT !.mode = m, !.row = 0, !.col = 0]
SetCursor(v, row, col) == [v EXCEPT !.row = row, !.col = col]

PutCharAt(v, row, col, ch) ==
  IF <<row, col>> \in Places THEN [v EXCEPT !.text[<<row, col>>] = ch] ELSE v
SlipScroll(v) == [v EXCEPT !.text = [p \in Places |-> IF p[1] < Rows - 1 THEN @[<<p[1] + 1, p[2]>>] ELSE @[p]]]
Scroll(v) == [v EXCEPT !.text = [p \in Places |-> IF p[1] < Rows - 1 THEN @[<<p[1] + 1, p[2]>>] ELSE Blank]]

PutChar(v, ch) ==
  LET put == [PutCharAt(v, v.row, v.col, ch) EXCEPT !.col = (@ + 1) % 256]
      down == [put EXCEPT !.col = 0, !.row = (@ + 1) % 256]
  IN  IF put.col < Cols THEN put
      ELSE IF down.row < Rows THEN down
      ELSE [Scroll(down) EXCEPT !.row = Rows - 1]

WriteString(v, row, col, str) ==
  [v EXCEPT !.text = [p \in Places |-> IF p[1] = row /\ p[2] - col + 1 \in 1..Len(str)
                                       THEN str[p[2] - col + 1] ELSE @[p]]]

WriteIndex(v, x) == [v EXCEPT !.index = x % 32]
WriteCrtc(v, x) == [v EXCEPT !.crtc[v.index] = x]
ReadCrtc(v) == v.crtc[v.index]
=============================================================================
