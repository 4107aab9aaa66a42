------------------------- MODULE MCAesdSocketSimple -------------------------
(* Two clients that send their packet in two pieces, unless they leave      *)
(* before; one has the newline in both of them, one has two in the last.    *)
EXTENDS AesdSocketSimple

(* More than the sockets and the file need, so that descriptors leak and    *)
(* numbers are used again before the table is full.                         *)
MCFds    == 4 .. 7
MCScript ==
  [h \in Handler |->
     IF ToString(h) = "c1" THEN <<"packet+part", "packet">> ELSE <<"part", "packets">>]

=============================================================================
