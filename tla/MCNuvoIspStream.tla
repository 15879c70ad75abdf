--------------------------- MODULE MCNuvoIspStream ---------------------------
(***************************************************************************)
(* Instances of NuvoIspStream: the geometry and checksum of MCNuvoIspI2c,  *)
(* with flash words of one bit.                                            *)
(***************************************************************************)
EXTENDS NuvoIspStream, MCNuvoIspI2c

MCTransports == {"uart", "hid", "legacy"}

MCBit == {1}

\* A binary of blocks of one, two and two words, across a page boundary.
MCStreamImage == [i \in 1..5 |-> IF i \in {2, 5} THEN {1} ELSE {}]
=============================================================================
