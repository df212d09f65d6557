--------------------------- MODULE MCPacketReader ---------------------------
EXTENDS PacketReader

(* A request of the version, the end of a measurement, and a duty cycle    *)
(* whose two bytes are those that begin a packet.                          *)
MCContents == << <<1, 224, 0>>, <<2, 65, 1, 15>>, <<3, 75, 2, 85, 170>> >>
=============================================================================
