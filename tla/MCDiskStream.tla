---------------------------- MODULE MCDiskStream ----------------------------
(* Nine sectors of four bytes behind binary LBA registers, so that sector 8 *)
(* needs all four of them; reads of up to two and a half sectors.           *)
EXTENDS DiskStream
=============================================================================
