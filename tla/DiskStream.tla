----------------------------- MODULE DiskStream -----------------------------
(***************************************************************************)
(* Reading the disk: the streams of src/disk/stream.c on top of            *)
(* read_sector of src/disk/disk.c, and the ATA drive it polls.  stream_read *)
(* fetches one sector into a buffer, copies from it, and calls itself for  *)
(* what is left.  There is one disk, and one stream is used at a time.     *)
(***************************************************************************)
EXTENDS Integers, Sequences

CONSTANTS
    SECTOR_SIZE,    \* MYSTOS_SECTOR_SIZE, bytes per sector
    Sectors,        \* sectors of the drive
    Radix,          \* 256: three LBA registers of the drive hold one digit each
    Counts,         \* the numbers of bytes the users of a stream read
    Garbage         \* what lies on the stack behind buf

ASSUME DiskAssumption ==
    /\ SECTOR_SIZE \in Nat \ {0} /\ Sectors \in Nat \ {0}
    /\ Radix \in Nat \ {0, 1} /\ Sectors <= 16 * Radix * Radix * Radix
    /\ Counts \subseteq Nat \ {0}

VARIABLES
    pos,        \* stream->pos
    pc,         \* where the running stream_read is, "idle" if none runs
    num,        \* its second argument, what is still to be read
    out,        \* the caller's buffer
    buf,        \* the sector buffer of stream_read
    regs,       \* the LBA registers of the drive, lowest digit first, and the
                \* drive and head register
    drive       \* "ready", "busy" with a command, or "drq": holding a sector

vars == <<pos, pc, num, out, buf, regs, drive>>

Size == Sectors * SECTOR_SIZE

Offset == pos % SECTOR_SIZE

SectorBytes(lba) == [k \in 0..(SECTOR_SIZE - 1) |-> lba * SECTOR_SIZE + k]

Init ==
    /\ pos = 0
    /\ pc = "idle" /\ num = 0
    /\ out = <<>>
    /\ buf = [k \in 0..(SECTOR_SIZE - 1) |-> Garbage]
    /\ regs = <<0, 0, 0, 0>>
    /\ drive = "ready"

-----------------------------------------------------------------------------
(* The users of the stream.                                                *)

stream_seek(p) ==
    /\ pc = "idle"
    /\ pos' = p
    /\ UNCHANGED <<pc, num, out, buf, regs, drive>>

stream_read(n) ==
    /\ pc = "idle"
    /\ pos + n <= Size
    /\ pc' = "command"
    /\ num' = n
    /\ out' = <<>>
    /\ UNCHANGED <<pos, buf, regs, drive>>

-----------------------------------------------------------------------------
(* read_sector and the drive.                                              *)

\* lba >> 8
Shifted(lba) == lba \div Radix

\* outb takes an unsigned char: three registers get one digit of the LBA each, and
\* the drive and head register what is left, | 0xE0.
Registers(lba) ==
    <<lba % Radix, Shifted(lba) % Radix, Shifted(Shifted(lba)) % Radix,
      224 + (Shifted(Shifted(Shifted(lba))) % 32)>>

\* Mutants: two registers swapped; the command byte is not written.
WriteCommand_Swapped ==
    /\ pc = "command"
    /\ LET lba == Registers(pos \div SECTOR_SIZE)
       IN  regs' = <<lba[1], lba[3], lba[2], lba[4]>>
    /\ drive' = "busy"
    /\ pc' = "poll"
    /\ UNCHANGED <<pos, num, out, buf>>

WriteCommand_Silent ==
    /\ pc = "command"
    /\ pc' = "poll"
    /\ UNCHANGED <<pos, num, out, buf, regs, drive>>

WriteCommand ==
    /\ pc = "command"
    /\ regs' = Registers(pos \div SECTOR_SIZE)
    /\ drive' = "busy"
    /\ pc' = "poll"
    /\ UNCHANGED <<pos, num, out, buf>>

\* The low four bits of the last register belong to the LBA.
Addressed == regs[1] + Radix * (regs[2] + Radix * (regs[3] + Radix * (regs[4] % 16)))

\* The drive has found the sector and raises DRQ.
DriveReady ==
    /\ drive = "busy"
    /\ drive' = "drq"
    /\ UNCHANGED <<pos, pc, num, out, buf, regs>>

\* The polling loop reads a status without DRQ.
PollAgain ==
    /\ pc = "poll" /\ drive # "drq"
    /\ UNCHANGED vars

\* DRQ is up: the sector is read word by word, and DRQ goes down.
Transfer ==
    /\ pc = "poll" /\ drive = "drq"
    /\ buf' = SectorBytes(Addressed)
    /\ drive' = "ready"
    /\ pc' = "copy"
    /\ UNCHANGED <<pos, num, out, regs>>

-----------------------------------------------------------------------------
(* The rest of stream_read.                                                *)

BufferedByte(k) == IF k < SECTOR_SIZE THEN buf[k] ELSE Garbage

\* buf[offset + i] for the bytes of this round; nothing stops offset + i at the
\* end of the buffer.  buf is dead after the round.
Copy(total) ==
    /\ out' = out \o [k \in 1..total |-> BufferedByte(Offset + k - 1)]
    /\ buf' = [k \in 0..(SECTOR_SIZE - 1) |-> Garbage]
    /\ pos' = pos + total
    /\ UNCHANGED <<regs, drive>>

CopyAndRecurse ==
    /\ pc = "copy" /\ num > SECTOR_SIZE
    /\ Copy(SECTOR_SIZE)
    /\ num' = num - SECTOR_SIZE
    /\ pc' = "command"

CopyAndReturn ==
    /\ pc = "copy" /\ num <= SECTOR_SIZE
    /\ Copy(num)
    /\ num' = 0
    /\ pc' = "idle"

ReadStep == WriteCommand \/ PollAgain \/ Transfer \/ CopyAndRecurse \/ CopyAndReturn

\* A read that starts in the middle of a sector ends in the same sector.
Fits(n) == Offset = 0 \/ Offset + n <= SECTOR_SIZE

Next ==
    \/ \E p \in 0..(Size - 1) : stream_seek(p)
    \/ \E n \in Counts : stream_read(n)
    \/ ReadStep
    \/ DriveReady

FittingNext ==
    \/ \E p \in 0..(Size - 1) : stream_seek(p)
    \/ \E n \in Counts : Fits(n) /\ stream_read(n)
    \/ ReadStep
    \/ DriveReady

Spec == Init /\ [][Next]_vars

\* The drive answers every command, and the processor goes on.
FittingSpec ==
    /\ Init /\ [][FittingNext]_vars
    /\ WF_vars(ReadStep) /\ WF_vars(DriveReady)

-----------------------------------------------------------------------------
(* Properties.                                                             *)

\* stream.c: "We can only read 1 sector at a time. So if we want to read more,
\* we are going into recursion."  So the bytes delivered are those of the
\* sectors, never what lies behind the one-sector buffer.
OnlyDiskBytes == \A k \in DOMAIN out : out[k] # Garbage

\* Reads that fit deliver exactly the bytes at the position and leave the
\* position behind them: the recursion picks the right sector each time, the
\* drive is told the right address, and the data is not taken too early.  What
\* a running read will deliver is what it has and what it has still to fetch.
Contents == INSTANCE ByteStream WITH
    Positions <- 0..(Size - 1),
    at <- pos + num,
    got <- out \o [k \in 1..num |-> pos + k - 1]

ReadsBytes == Contents!StreamSpec

\* Every read returns: the recursion ends and the polling loop sees the drive.
ReadsReturn == []<>(pc = "idle")
=============================================================================
