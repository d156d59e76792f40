----------------------------- MODULE ByteStream -----------------------------
(***************************************************************************)
(* What the users of a disk stream rely on: a position on the disk, and    *)
(* reads that deliver the bytes from the position on and move it past      *)
(* them.  Sectors do not show.  A byte is named by its address.            *)
(***************************************************************************)
EXTENDS Integers

CONSTANTS
    Positions,  \* where a stream is put
    Counts      \* how many bytes a read asks for

VARIABLES
    at,         \* the position
    got         \* what the last read delivered, a sequence of bytes

StreamInit == at = 0 /\ got = <<>>

Bytes(from, n) == [k \in 1..n |-> from + k - 1]

Seek(p) == at' = p /\ UNCHANGED got

Read(n) ==
    /\ got' = Bytes(at, n)
    /\ at' = at + n

StreamNext ==
    \/ \E p \in Positions : Seek(p)
    \/ \E n \in Counts : Read(n)

StreamSpec == StreamInit /\ [][StreamNext]_<<at, got>>
=============================================================================
