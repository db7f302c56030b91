------------------------------ MODULE MCBoard ------------------------------
(***************************************************************************)
(* A small board: sectors of two words and an image of two and a half of     *)
(* them, a screen of two by two, bytes of one bit in the DMA controller, a    *)
(* day of eight seconds, and an address space of 88 bytes in which the text   *)
(* window, the hole and the RAM above it are each as long as the widest       *)
(* access or longer.                                                         *)
(***************************************************************************)
EXTENDS Board

MCWords == 2
MCImage == <<<<1, 1>>, <<2, 1>>, <<3, 1>>, <<4, 1>>, <<5, 1>>>>
MCPresent == {0, 1}
MCSizes == {24, 32, 40, 56}
MCRam == {10, 11, 12, 13, 20, 21}
MCOpen == -100

(* the last second of days: the first years, around 2000 and around 2100 *)
MCDays == (0..1500) \cup (10950..11100) \cup (47400..47600)
MCEpochs == {8 * d + 7 : d \in MCDays}

(* the address of BAR 0, the command register and the identity of the disk, an
   empty slot, and no cycle at all *)
Latches == {<<\h10, 8, 0, 128>>, <<4, 8, 0, 128>>, <<0, 8, 0, 128>>, <<\h10, 40, 0, 128>>, <<\h10, 8, 0, 0>>}
Dwords == {<<255, 255, 255, 255>>, <<\hC0, \h01, 0, 0>>, <<\hE1, \hFF, 0, 0>>, <<1, 0, 0, 0>>}
Ides == {<<\h1F2, <<n>>>> : n \in 0..2} \cup {<<\h1F3, <<n, 9>>>> : n \in {0, 2}} \cup {<<\h1F3, <<1>>>>}
        \cup {<<\h1F7, <<c>>>> : c \in {\h20, \h30, \hEC}} \cup {<<\h1F0, <<7, n>>>> : n \in {0, 8}}
        \cup {<<\h1F5, <<0, 0, \h20, 0>>>>}
MCOuts(s) ==
  CASE s = "ide" -> Ides
    [] s = "pci" -> {<<\hCF8, a>> : a \in Latches} \cup {<<\hCFC, d>> : d \in Dwords}
                      \cup {<<\hCFC, <<6>>>>, <<\hCFD, <<3, 3>>>>, <<\h1F1, <<5>>>>, <<\h1BF, <<5, 5>>>>,
                            <<\h1FE, <<5, 6, 7, 8>>>>, <<\hCFB, <<0, \hC0, 12, 0>>>>, <<\h20, <<\h20>>>>, <<\hC000, <<1, 2>>>>}
    [] s = "dma" -> {<<\h0A, <<v>>>> : v \in {0, 4, 1}} \cup {<<\h87, <<v>>>> : v \in {0, 1}} \cup {<<\h80, <<1, 1>>>>}
    [] s = "vga" -> {<<\h3D4, <<\h2E, 1>>>>, <<\h3D5, <<2>>>>}
    [] s = "cmos" -> {<<\h70, <<v>>>> : v \in {7, 139, 12}} \cup {<<\h71, <<6>>>>}
    [] OTHER -> {}
MCIns(s) ==
  CASE s = "ide" -> {<<\h1F0, 2>>, <<\h1F0, 4>>, <<\h1F1, 1>>, <<\h1F7, 2>>}
    [] s = "pci" -> {<<\hCFC, 4>>, <<\hC03F, 2>>}
    [] s = "vga" -> {<<\h3DA, 1>>, <<\h3D4, 2>>}
    [] s = "cmos" -> {<<\h71, 1>>}
    [] s = "dma" -> {<<\h08, 1>>}
    [] OTHER -> {}

MCSites == {<<0, 0, 1>>, <<0, 0, 2>>, <<0, 1, 1>>}
MCBlocks == {<<<<9, 9>>, <<8, 8>>>>}
MCCursors == {<<0, 1>>, <<1, 0>>, <<200, 255>>}
MCModes == {3, \h13}
MCAddresses == 0..88
MCMaxSteps == [ide |-> 6, pci |-> 5, dma |-> 4, cmos |-> 2, vga |-> 6, mem |-> 1, map |-> 7]
=============================================================================
