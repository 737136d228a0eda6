----------------------- MODULE MCOscOutboundPacketStream -----------------------
(* Lengths on both sides of a multiple of four.                             *)
EXTENDS OscOutboundPacketStream

MCAddressLengths == {3, 4}
MCStringLengths == {2, 7}
MCBlobSizes == {0, 5}
=============================================================================
