---------------------------- MODULE MCAesdSocket ----------------------------
(* The device holds a command and the start of another.  One client sends   *)
(* the next part of it and asks for a position; the other one begins an     *)
(* ioctl command too, but what follows is a packet, which ends the command  *)
(* on the device and fills the ring.                                        *)
EXTENDS AesdSocket

CONSTANTS c1, c2, OLD

(* Enough for both sockets and one open of the device. *)
MCFds    == 4 .. 6
MCScript == [h \in Handler |-> IF h = c1 THEN <<"part", "seek">>
                                         ELSE <<"seek part", "packet">>]
MCStored == <<<<OLD, NL>>>>
MCUnfinished == <<OLD>>
MCAsks   == [h \in Handler |-> {<<0, 1>>}]

=============================================================================
