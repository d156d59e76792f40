----------------------------- MODULE DiskProofs -----------------------------
(***************************************************************************)
(* Proofs about DiskStream, for sectors and disks of any size and any      *)
(* width of the LBA registers: reads that fit deliver exactly the bytes at *)
(* the position.  The bytes that a running read has still to fetch are     *)
(* told by the position only as long as the registers, the buffer and the  *)
(* place in its sector agree with it, and that is the invariant.           *)
(*                                                                         *)
(* Behind them, proofs about Fat16, which reads through these streams, for *)
(* any geometry, files and paths that Fat16 assumes of a disk: the file    *)
(* that opening a path finds, and the bytes that reading it delivers.      *)
(***************************************************************************)
EXTENDS DiskStream, Fat16, NaturalLemmas, SequenceTheorems, FiniteSetTheorems, TLAPS

\* The bytes of the disk from a position on.
DiskBytes(from, n) == [k \in 1..n |-> from + k - 1]

TypeOK ==
    /\ pos \in Nat /\ num \in Nat /\ pos + num <= Size
    /\ out \in Seq(Nat)
    /\ pc \in {"idle", "command", "poll", "copy"}

\* A read that is under way has something left, and what is left fits.
LeftFits ==
    /\ pc = "idle" <=> num = 0
    /\ pc # "idle" => Fits(num)

\* The drive is asked for the sector of the position, and its bytes are in the buffer.
RightSector ==
    /\ pc = "poll" => Addressed = pos \div SECTOR_SIZE
    /\ pc = "copy" => buf = SectorBytes(pos \div SECTOR_SIZE)

IInv == TypeOK /\ LeftFits /\ RightSector

-----------------------------------------------------------------------------
(* Sectors, registers and bytes.                                           *)

\* A shift by one register takes off the lowest digit.
LEMMA ShiftTakesDigit ==
    ASSUME NEW n \in Nat
    PROVE  /\ Shifted(n) \in Nat /\ n % Radix \in Nat
           /\ n = (n % Radix) + Radix * Shifted(n)
           /\ \A m \in Nat : n < m * Radix => Shifted(n) < m
<1>1. Radix \in Nat \ {0}
  BY DiskAssumption
<1>2. Shifted(n) \in Nat /\ n % Radix \in Nat /\ n = Radix * Shifted(n) + (n % Radix)
  BY <1>1, QuotientRemainder, SMTT(20) DEF Shifted
<1> DEFINE q == Shifted(n)
           r == n % Radix
<1>3. Radix * q + r = r + Radix * q
  <2> HIDE DEF q, r
  <2>1. Radix * q \in Nat /\ r \in Nat
    BY <1>1, <1>2, SMT DEF q, r
  <2> QED
    BY <2>1
<1>4. ASSUME NEW m \in Nat, n < m * Radix
      PROVE  Shifted(n) < m
  BY <1>1, <1>4, QuotientBelow, Zenon DEF Shifted
<1> QED
  BY <1>2, <1>3, <1>4, Zenon

\* The drive puts the digits of the four registers together to the LBA again.
LEMMA RegistersAddress ==
    ASSUME NEW lba \in Nat, lba < 16 * Radix * Radix * Radix
    PROVE  LET r == Registers(lba)
           IN  r[1] + Radix * (r[2] + Radix * (r[3] + Radix * (r[4] % 16))) = lba
<1> DEFINE q1 == Shifted(lba)
           q2 == Shifted(q1)
           q3 == Shifted(q2)
<1>0. Radix \in Nat \ {0} /\ 16 * Radix \in Nat /\ 16 * Radix * Radix \in Nat
  BY DiskAssumption, SMT
<1>1. /\ q1 \in Nat /\ lba % Radix \in Nat
      /\ lba = (lba % Radix) + Radix * q1
      /\ q1 < 16 * Radix * Radix
  BY <1>0, ShiftTakesDigit, Zenon
<1>2. /\ q2 \in Nat /\ q1 % Radix \in Nat
      /\ q1 = (q1 % Radix) + Radix * q2
      /\ q2 < 16 * Radix
  BY <1>0, <1>1, ShiftTakesDigit, Zenon
<1>3. /\ q3 \in Nat /\ q2 % Radix \in Nat
      /\ q2 = (q2 % Radix) + Radix * q3
      /\ q3 < 16
  BY <1>0, <1>2, ShiftTakesDigit, Zenon
<1>4. q3 % 32 = q3 /\ (224 + q3) % 16 = q3
  <2> HIDE DEF q3
  <2> QED
    BY <1>3
<1>5. Registers(lba) = <<lba % Radix, q1 % Radix, q2 % Radix, 224 + q3>>
  BY <1>4 DEF Registers
<1> HIDE DEF q1, q2, q3
<1>6. (lba % Radix) + Radix * ((q1 % Radix) + Radix * ((q2 % Radix) + Radix * q3)) = lba
  BY <1>1, <1>2, <1>3, Zenon
<1> QED
  BY <1>4, <1>5, <1>6

\* A byte of the disk has its sector below the number of sectors.
LEMMA SectorOnDisk ==
    ASSUME pos \in Nat, pos < Size
    PROVE  /\ pos \div SECTOR_SIZE \in Nat
           /\ pos \div SECTOR_SIZE < 16 * Radix * Radix * Radix
<1>1. SECTOR_SIZE \in Nat \ {0} /\ Sectors \in Nat
  BY DiskAssumption
<1>2. pos \div SECTOR_SIZE \in Nat /\ pos \div SECTOR_SIZE < Sectors
  BY <1>1, QuotientRemainder, QuotientBelow DEF Size
<1>3. 16 * Radix * Radix * Radix \in Nat /\ Sectors <= 16 * Radix * Radix * Radix
  BY DiskAssumption, SMT
<1> DEFINE q == pos \div SECTOR_SIZE
           r == 16 * Radix * Radix * Radix
<1> HIDE DEF q, r
<1>4. q \in Nat /\ q < Sectors /\ r \in Nat /\ Sectors <= r => q < r
  BY <1>1, SMT
<1> QED
  BY <1>2, <1>3, <1>4 DEF q, r

\* The buffered sector holds the byte at the position and those after it up to its end.
LEMMA BufferedBytes ==
    ASSUME pos \in Nat, buf = SectorBytes(pos \div SECTOR_SIZE),
           NEW count \in Nat, Offset + count <= SECTOR_SIZE
    PROVE  [k \in 1..count |-> BufferedByte(Offset + k - 1)] = DiskBytes(pos, count)
<1>1. SECTOR_SIZE \in Nat \ {0}
  BY DiskAssumption
<1> DEFINE q == pos \div SECTOR_SIZE
<1>2. q \in Nat /\ Offset \in Nat /\ pos = SECTOR_SIZE * q + Offset
  <2>1. PICK r : r = pos % SECTOR_SIZE
    OBVIOUS
  <2>2. q \in Nat /\ r \in 0..(SECTOR_SIZE - 1) /\ pos = SECTOR_SIZE * q + r
    BY <1>1, <2>1, QuotientRemainder
  <2>3. Offset = r
    BY <2>1 DEF Offset
  <2> HIDE DEF q
  <2> QED
    BY <1>1, <2>2, <2>3
<1>3. ASSUME NEW k \in 1..count
      PROVE  BufferedByte(Offset + k - 1) = pos + k - 1
  <2>1. /\ Offset + k - 1 \in 0..(SECTOR_SIZE - 1)
        /\ Offset + k - 1 < SECTOR_SIZE
    BY <1>1, <1>2, SMT
  <2>2. BufferedByte(Offset + k - 1) = q * SECTOR_SIZE + (Offset + k - 1)
    BY <2>1, Zenon DEF BufferedByte, SectorBytes
  <2>3. q * SECTOR_SIZE = SECTOR_SIZE * q /\ SECTOR_SIZE * q \in Nat
    <3> HIDE DEF q
    <3> QED
      BY <1>1, <1>2, SMT
  <2> DEFINE b == SECTOR_SIZE * q
  <2>4. pos + k - 1 = b + (Offset + k - 1)
    <3>1. b \in Nat /\ pos = b + Offset
      BY <1>2, <2>3
    <3> HIDE DEF b
    <3> QED
      BY <1>2, <3>1
  <2> QED
    BY <2>2, <2>3, <2>4, Zenon
<1> QED
  BY <1>3, Zenon DEF DiskBytes

\* Concatenation is associative.
LEMMA ConcatTwice ==
    ASSUME NEW s \in Seq(Nat), NEW t \in Seq(Nat), NEW u \in Seq(Nat)
    PROVE  (s \o t) \o u = s \o (t \o u)
<1> DEFINE st == s \o t
           tu == t \o u
           l == st \o u
           r == s \o tu
<1>1. Len(s) \in Nat /\ Len(t) \in Nat /\ Len(u) \in Nat
  BY LenProperties
<1>2. /\ st \in Seq(Nat) /\ Len(st) = Len(s) + Len(t)
      /\ \A i \in 1..(Len(s) + Len(t)) : st[i] = IF i <= Len(s) THEN s[i] ELSE t[i - Len(s)]
  BY ConcatProperties, Zenon
<1>3. /\ tu \in Seq(Nat) /\ Len(tu) = Len(t) + Len(u)
      /\ \A i \in 1..(Len(t) + Len(u)) : tu[i] = IF i <= Len(t) THEN t[i] ELSE u[i - Len(t)]
  BY ConcatProperties, Zenon
<1> HIDE DEF st, tu
<1>4. st \in Seq(Nat) /\ tu \in Seq(Nat)
  BY <1>2, <1>3
<1>5. /\ l \in Seq(Nat) /\ Len(l) = Len(st) + Len(u)
      /\ \A i \in 1..(Len(st) + Len(u)) : l[i] = IF i <= Len(st) THEN st[i] ELSE u[i - Len(st)]
  BY <1>4, ConcatProperties, Zenon
<1>6. /\ r \in Seq(Nat) /\ Len(r) = Len(s) + Len(tu)
      /\ \A i \in 1..(Len(s) + Len(tu)) : r[i] = IF i <= Len(s) THEN s[i] ELSE tu[i - Len(s)]
  BY <1>4, ConcatProperties, Zenon
<1> HIDE DEF l, r
<1>7. Len(l) = Len(r)
  BY <1>1, <1>2, <1>3, <1>5, <1>6
<1>8. ASSUME NEW i \in 1..Len(l)
      PROVE  l[i] = r[i]
  <2>1. i \in 1..(Len(s) + Len(t) + Len(u))
    BY <1>1, <1>2, <1>5
  <2>2. l[i] = IF i <= Len(s) + Len(t) THEN st[i] ELSE u[i - (Len(s) + Len(t))]
    BY <1>2, <1>5, Zenon
  <2>3. r[i] = IF i <= Len(s) THEN s[i] ELSE tu[i - Len(s)]
    BY <1>6, <1>7, Zenon
  <2>4. CASE i <= Len(s)
    BY <1>1, <1>2, <2>1, <2>2, <2>3, <2>4
  <2>5. CASE i > Len(s) /\ i <= Len(s) + Len(t)
    <3>1. st[i] = t[i - Len(s)]
      BY <1>1, <1>2, <2>1, <2>5
    <3> DEFINE j == i - Len(s)
    <3>2. j \in 1..(Len(t) + Len(u)) /\ j <= Len(t)
      BY <1>1, <2>1, <2>5
    <3>3. tu[j] = t[j]
      <4> HIDE DEF j
      <4> QED
        BY <1>3, <3>2, Zenon
    <3> QED
      BY <1>1, <2>1, <2>2, <2>3, <2>5, <3>1, <3>3
  <2>6. CASE i > Len(s) + Len(t)
    <3> DEFINE j == i - Len(s)
    <3>1. tu[j] = u[j - Len(t)]
      <4>1. j \in 1..(Len(t) + Len(u)) /\ ~(j <= Len(t))
        BY <1>1, <2>1, <2>6
      <4> HIDE DEF j
      <4> QED
        BY <1>3, <4>1, Zenon
    <3>2. (i - Len(s)) - Len(t) = i - (Len(s) + Len(t))
      BY <1>1, <2>1
    <3> QED
      BY <1>1, <2>1, <2>2, <2>3, <2>6, <3>1, <3>2
  <2> QED
    BY <1>1, <2>1, <2>4, <2>5, <2>6
<1>9. l = r
  BY <1>5, <1>6, <1>7, <1>8, SeqEqual, Zenon
<1> QED
  BY <1>9 DEF l, r, st, tu

\* Two stretches of the disk that meet are one.
LEMMA StretchesMeet ==
    ASSUME NEW s \in Seq(Nat), NEW from \in Nat, NEW m \in Nat, NEW n \in Nat
    PROVE  /\ s \o DiskBytes(from, m) \in Seq(Nat)
           /\ (s \o DiskBytes(from, m)) \o DiskBytes(from + m, n) = s \o DiskBytes(from, m + n)
<1>1. /\ DiskBytes(from, m) \in Seq(Nat) /\ Len(DiskBytes(from, m)) = m
      /\ DiskBytes(from + m, n) \in Seq(Nat) /\ Len(DiskBytes(from + m, n)) = n
      /\ DiskBytes(from, m + n) \in Seq(Nat) /\ Len(DiskBytes(from, m + n)) = m + n
  BY IsASeq, SMT DEF DiskBytes
<1> DEFINE a == DiskBytes(from, m)
           b == DiskBytes(from + m, n)
           l == a \o b
           r == DiskBytes(from, m + n)
<1>2. /\ l \in Seq(Nat) /\ Len(l) = Len(a) + Len(b)
      /\ \A i \in 1..(Len(a) + Len(b)) : l[i] = IF i <= Len(a) THEN a[i] ELSE b[i - Len(a)]
  <2> HIDE DEF a, b
  <2> QED
    BY <1>1, ConcatProperties, Zenon DEF a, b
<1>3. ASSUME NEW i \in 1..(m + n)
      PROVE  l[i] = r[i]
  <2>1. l[i] = IF i <= m THEN a[i] ELSE b[i - m]
    <3> HIDE DEF a, b, l
    <3> QED
      BY <1>1, <1>2, Zenon DEF a, b
  <2>2. CASE i <= m
    BY <2>1, <2>2, SMT DEF DiskBytes
  <2>3. CASE i > m
    BY <2>1, <2>3, SMT DEF DiskBytes
  <2> HIDE DEF a, b, l, r
  <2> QED
    BY <2>2, <2>3
<1>4. l = r
  <2>1. Len(l) = m + n /\ Len(r) = m + n /\ l \in Seq(Nat) /\ r \in Seq(Nat)
    BY <1>1, <1>2, Zenon
  <2> HIDE DEF l, r
  <2> QED
    BY <1>3, <2>1, SeqEqual, Zenon
<1>5. s \o a \in Seq(Nat) /\ (s \o a) \o b = s \o (a \o b)
  <2>1. a \in Seq(Nat) /\ b \in Seq(Nat)
    BY <1>1
  <2> HIDE DEF a, b
  <2>2. s \o a \in Seq(Nat)
    BY <2>1, ConcatProperties, Zenon
  <2>3. (s \o a) \o b = s \o (a \o b)
    BY <2>1, ConcatTwice, Zenon
  <2> QED
    BY <2>2, <2>3
<1> QED
  BY <1>4, <1>5, Zenon

-----------------------------------------------------------------------------
(* The invariant.                                                          *)

\* The offset of the position lies inside a sector.
LEMMA OffsetType ==
    ASSUME pos \in Nat
    PROVE  Offset \in 0..(SECTOR_SIZE - 1)
  BY DiskAssumption, QuotientRemainder DEF Offset

\* A read under way stands at a byte of the disk.
LEMMA UnderWay ==
    ASSUME TypeOK, LeftFits, pc # "idle"
    PROVE  num \in Nat \ {0} /\ pos < Size /\ Fits(num) /\ Size \in Nat
<1>1. Size \in Nat
  BY DiskAssumption, SMT DEF Size
<1> QED
  BY <1>1 DEF TypeOK, LeftFits

\* What a round of the loop copies.
LEMMA CopiesBytes ==
    ASSUME IInv, pc = "copy", NEW count \in Nat, Offset + count <= SECTOR_SIZE, Copy(count)
    PROVE  out' = out \o DiskBytes(pos, count) /\ pos' = pos + count
<1>1. buf = SectorBytes(pos \div SECTOR_SIZE) /\ pos \in Nat
  BY DEF IInv, TypeOK, RightSector
<1> QED
  BY <1>1, BufferedBytes DEF Copy

\* The first state has the invariant.
LEMMA InitInvariant == Init => IInv
<1>1. Size \in Nat
  BY DiskAssumption, SMT DEF Size
<1> QED
  BY <1>1 DEF Init, IInv, TypeOK, LeftFits, RightSector

\* Every step keeps the invariant.
LEMMA NextInvariant == IInv /\ [FittingNext]_vars => IInv'
<1> SUFFICES ASSUME IInv, [FittingNext]_vars
             PROVE  IInv'
  OBVIOUS
<1>1. SECTOR_SIZE \in Nat \ {0} /\ Size \in Nat
  BY DiskAssumption, SMT DEF Size
<1>2. TypeOK /\ LeftFits /\ RightSector
  BY DEF IInv
<1>3. ASSUME NEW p \in 0..(Size - 1), stream_seek(p)
      PROVE  IInv'
  BY <1>1, <1>2, <1>3 DEF stream_seek, IInv, TypeOK, LeftFits, RightSector
<1>4. ASSUME NEW n \in Counts, Fits(n), stream_read(n)
      PROVE  IInv'
  <2>1. n \in Nat \ {0}
    BY DiskAssumption
  <2> QED
    BY <1>1, <1>2, <1>4, <2>1 DEF stream_read, IInv, TypeOK, LeftFits, RightSector, Fits, Offset
<1>5. CASE WriteCommand
  <2>1. /\ pos \div SECTOR_SIZE \in Nat
        /\ pos \div SECTOR_SIZE < 16 * Radix * Radix * Radix
    BY <1>2, <1>5, UnderWay, SectorOnDisk DEF WriteCommand, TypeOK
  <2>2. (Addressed = pos \div SECTOR_SIZE)'
    <3> DEFINE lba == pos \div SECTOR_SIZE
    <3>1. regs' = Registers(lba) /\ pos' = pos
      BY <1>5 DEF WriteCommand
    <3>2. Addressed' = lba
      <4> HIDE DEF lba
      <4> QED
        BY <2>1, <3>1, RegistersAddress, Zenon DEF Addressed, lba
    <3> QED
      BY <3>1, <3>2
  <2> QED
    BY <1>2, <1>5, <2>2 DEF WriteCommand, IInv, TypeOK, LeftFits, RightSector, Fits, Offset
<1>6. CASE PollAgain
  BY <1>2, <1>6 DEF PollAgain, vars, IInv, TypeOK, LeftFits, RightSector, Fits, Offset, Addressed
<1>7. CASE Transfer
  BY <1>2, <1>7 DEF Transfer, IInv, TypeOK, LeftFits, RightSector, Fits, Offset
<1>8. CASE CopyAndRecurse
  <2>1. pos \in Nat /\ num \in Nat /\ out \in Seq(Nat) /\ pos + num <= Size
    BY <1>2 DEF TypeOK
  <2>2. Offset = 0
    BY <1>1, <1>2, <1>8, <2>1, OffsetType DEF CopyAndRecurse, LeftFits, Fits
  <2>3. out' = out \o DiskBytes(pos, SECTOR_SIZE) /\ pos' = pos + SECTOR_SIZE
    BY <1>1, <1>8, <2>2, CopiesBytes DEF CopyAndRecurse
  <2>4. out' \in Seq(Nat)
    BY <1>1, <2>1, <2>3, StretchesMeet
  <2>5. Offset' = 0
    BY <1>1, <2>1, <2>2, <2>3, NextMultiple DEF Offset
  <2> QED
    BY <1>1, <1>8, <2>1, <2>3, <2>4, <2>5
       DEF CopyAndRecurse, IInv, TypeOK, LeftFits, RightSector, Fits
<1>9. CASE CopyAndReturn
  <2>1. pos \in Nat /\ num \in Nat /\ out \in Seq(Nat) /\ pos + num <= Size
    BY <1>2 DEF TypeOK
  <2>2. Offset + num <= SECTOR_SIZE
    BY <1>1, <1>2, <1>9, <2>1 DEF CopyAndReturn, LeftFits, Fits
  <2>3. out' = out \o DiskBytes(pos, num) /\ pos' = pos + num
    BY <1>9, <2>1, <2>2, CopiesBytes DEF CopyAndReturn
  <2>4. out' \in Seq(Nat)
    BY <2>1, <2>3, StretchesMeet
  <2> QED
    BY <1>1, <1>9, <2>1, <2>3, <2>4 DEF CopyAndReturn, IInv, TypeOK, LeftFits, RightSector
<1>10. CASE DriveReady
  BY <1>2, <1>10 DEF DriveReady, IInv, TypeOK, LeftFits, RightSector, Fits, Offset, Addressed
<1>11. CASE UNCHANGED vars
  BY <1>2, <1>11 DEF vars, IInv, TypeOK, LeftFits, RightSector, Fits, Offset, Addressed
<1> QED
  BY <1>3, <1>4, <1>5, <1>6, <1>7, <1>8, <1>9, <1>10, <1>11 DEF FittingNext, ReadStep

\* The position, the caller's buffer and the loop stay well typed, and a read
\* that is under way has the sector of its position (stream_read and read_sector).
THEOREM StreamInvariant == FittingSpec => []IInv
  BY InitInvariant, NextInvariant, PTL DEF FittingSpec

-----------------------------------------------------------------------------
(* The refinement: the bytes that a running read will deliver stand when it *)
(* starts, and no step of it changes them.                                  *)

Delivered == out \o DiskBytes(pos, num)

\* A round of the loop moves bytes from what is to come to what is there.
LEMMA RoundKeepsDelivered ==
    ASSUME TypeOK, NEW count \in Nat, count <= num,
           out' = out \o DiskBytes(pos, count), pos' = pos + count, num' = num - count
    PROVE  Delivered' = Delivered /\ pos' + num' = pos + num
<1>1. out \in Seq(Nat) /\ pos \in Nat /\ num \in Nat
  BY DEF TypeOK
<1>2. count + (num - count) = num /\ num - count \in Nat /\ pos + count \in Nat
  BY <1>1
<1>3. (out \o DiskBytes(pos, count)) \o DiskBytes(pos + count, num - count)
         = out \o DiskBytes(pos, num)
  <2> DEFINE left == num - count
  <2>1. left \in Nat /\ count + left = num
    BY <1>2
  <2> HIDE DEF left
  <2>2. (out \o DiskBytes(pos, count)) \o DiskBytes(pos + count, left)
           = out \o DiskBytes(pos, count + left)
    BY <1>1, <2>1, StretchesMeet, Zenon
  <2> QED
    BY <2>1, <2>2, Zenon DEF left
<1>4. pos' + num' = pos + num
  BY <1>1, <1>2
<1>5. Delivered' = (out \o DiskBytes(pos, count)) \o DiskBytes(pos + count, num - count)
  BY Zenon DEF Delivered, DiskBytes
<1> QED
  BY <1>3, <1>4, <1>5, Zenon DEF Delivered

\* Every step of the stream is a step of the abstract one, or none.
LEMMA StepSimulation ==
    IInv /\ [FittingNext]_vars => [Contents!StreamNext]_<<pos + num, Delivered>>
<1> SUFFICES ASSUME IInv, [FittingNext]_vars
             PROVE  [Contents!StreamNext]_<<pos + num, Delivered>>
  OBVIOUS
<1>1. SECTOR_SIZE \in Nat \ {0}
  BY DiskAssumption
<1>2. TypeOK /\ LeftFits /\ RightSector
  BY DEF IInv
<1>3. pos \in Nat /\ num \in Nat /\ out \in Seq(Nat)
  BY <1>2 DEF TypeOK
<1>4. ASSUME NEW p \in 0..(Size - 1), stream_seek(p)
      PROVE  Contents!Seek(p)
  <2>1. num = 0 /\ num' = 0 /\ pos' = p /\ out' = out
    BY <1>2, <1>4 DEF stream_seek, LeftFits
  <2>2. DiskBytes(pos, 0) = DiskBytes(p, 0)
    BY DEF DiskBytes
  <2>3. pos' + num' = p
    BY <2>1
  <2> QED
    BY <2>1, <2>2, <2>3 DEF Contents!Seek, DiskBytes
<1>5. ASSUME NEW n \in Counts, stream_read(n)
      PROVE  Contents!Read(n)
  <2>1. num = 0 /\ num' = n /\ pos' = pos /\ out' = <<>>
    BY <1>2, <1>5 DEF stream_read, LeftFits
  <2>2. n \in Nat /\ DiskBytes(pos, n) \in Seq(Nat)
    BY <1>3, DiskAssumption, IsASeq DEF DiskBytes
  <2>3. <<>> \o DiskBytes(pos, n) = DiskBytes(pos, n)
    BY <2>2, ConcatEmptySeq
  <2>4. pos + num = pos /\ pos' + num' = (pos + num) + n
    BY <1>3, <2>1, <2>2
  <2> QED
    BY <2>1, <2>3, <2>4 DEF Contents!Read, Contents!Bytes, DiskBytes
<1>6. CASE UNCHANGED <<pos, num, out>>
  BY <1>6 DEF Delivered
<1>7. CASE CopyAndRecurse
  <2>1. Offset + SECTOR_SIZE <= SECTOR_SIZE
    BY <1>1, <1>2, <1>3, <1>7, OffsetType DEF CopyAndRecurse, LeftFits, Fits
  <2>2. out' = out \o DiskBytes(pos, SECTOR_SIZE) /\ pos' = pos + SECTOR_SIZE
    BY <1>1, <1>7, <2>1, CopiesBytes DEF CopyAndRecurse
  <2> QED
    BY <1>1, <1>2, <1>3, <1>7, <2>2, RoundKeepsDelivered DEF CopyAndRecurse
<1>8. CASE CopyAndReturn
  <2>1. Offset + num <= SECTOR_SIZE
    BY <1>1, <1>2, <1>3, <1>8 DEF CopyAndReturn, LeftFits, Fits
  <2>2. out' = out \o DiskBytes(pos, num) /\ pos' = pos + num
    BY <1>3, <1>8, <2>1, CopiesBytes DEF CopyAndReturn
  <2>3. num' = num - num
    BY <1>3, <1>8 DEF CopyAndReturn
  <2> QED
    BY <1>2, <1>3, <2>2, <2>3, RoundKeepsDelivered
<1>9. CASE WriteCommand \/ PollAgain \/ Transfer \/ DriveReady \/ UNCHANGED vars
  BY <1>6, <1>9 DEF WriteCommand, PollAgain, Transfer, DriveReady, vars
<1> QED
  BY <1>4, <1>5, <1>7, <1>8, <1>9 DEF FittingNext, ReadStep, Contents!StreamNext

\* Whatever the size of the disk and of its sectors, reads that fit deliver
\* exactly the bytes at the position and leave the position behind them.
THEOREM StreamRefinesContents == FittingSpec => ReadsBytes
<1>1. Init => Contents!StreamInit
  BY DEF Init, Contents!StreamInit
<1>2. IInv /\ [FittingNext]_vars
        => [Contents!StreamNext]_<<pos + num, out \o [k \in 1..num |-> pos + k - 1]>>
  BY StepSimulation DEF Delivered, DiskBytes
<1> QED
  BY <1>1, <1>2, StreamInvariant, PTL DEF FittingSpec, ReadsBytes, Contents!StreamSpec

-----------------------------------------------------------------------------
(* FAT16, which reads through these streams.  Names.                       *)

\* What NamesFit says of a file, for the item of one.
Named(d) ==
    /\ d.name \in Seq(STRING) /\ Len(d.name) \in 1..NameLength
    /\ d.ext \in Seq(STRING) /\ Len(d.ext) \in 0..ExtLength
    /\ \A n \in 1..Len(d.name) : d.name[n] # Dot /\ ~Ends(d.name[n])
    /\ \A n \in 1..Len(d.ext) : d.ext[n] # Dot /\ ~Ends(d.ext[n])

\* Neither field is empty.
LEMMA Lengths == NameLength \in Nat \ {0} /\ ExtLength \in Nat \ {0}
  BY Fat16Assumption DEF Geometry

\* A string ends at the first space or zero.
LEMMA ProperString ==
    ASSUME NEW S, NEW s \in Seq(S), NEW n \in 1..Len(s), Ends(s[n]),
           \A k \in 1..(n - 1) : ~Ends(s[k])
    PROVE  /\ fat16_to_proper_string(s) = SubSeq(s, 1, n - 1)
           /\ fat16_to_proper_string(s) \in Seq(S)
           /\ Len(fat16_to_proper_string(s)) = n - 1
           /\ \A k \in 1..(n - 1) : fat16_to_proper_string(s)[k] = s[k]
<1> DEFINE ends == {k \in 1..Len(s) : Ends(s[k])}
<1>1. n \in ends /\ \A k \in ends : n <= k
  OBVIOUS
<1>2. \A m \in ends : (\A k \in ends : m <= k) => m = n
  BY <1>1
<1>3. Min(ends) = n
  <2> HIDE DEF ends
  <2> QED
    BY <1>1, <1>2 DEF Min
<1>4. SelectInSeq(s, Ends) = Min(ends)
  BY <1>1, Zenon DEF SelectInSeq
<1>5. fat16_to_proper_string(s) = SubSeq(s, 1, n - 1)
  BY <1>3, <1>4 DEF fat16_to_proper_string
<1> DEFINE q == SubSeq(s, 1, n - 1)
<1>6. q \in Seq(S) /\ Len(q) = n - 1 /\ \A k \in 1..(n - 1) : q[k] = s[k]
  <2>1. \A k \in 1..(n - 1) : s[k] \in S
    OBVIOUS
  <2>2. /\ q \in Seq(S)
        /\ Len(q) = IF 1 <= n - 1 THEN (n - 1) - 1 + 1 ELSE 0
        /\ \A k \in 1..((n - 1) - 1 + 1) : q[k] = s[1 + k - 1]
    BY <2>1, SubSeqProperties
  <2> HIDE DEF q
  <2> QED
    BY <2>2
<1> QED
  BY <1>5, <1>6

\* A field is filled up with spaces.
LEMMA PaddedIs ==
    ASSUME NEW S, NEW q \in Seq(S), Space \in S, NEW l \in Nat, Len(q) <= l
    PROVE  /\ Padded(q, l) \in Seq(S) /\ Len(Padded(q, l)) = l
           /\ \A k \in 1..l : Padded(q, l)[k] = IF k <= Len(q) THEN q[k] ELSE Space
<1> DEFINE T == Len(q)
           pad == [k \in 1..(l - T) |-> Space]
<1>1. T \in Nat /\ l - T \in Nat
  OBVIOUS
<1>2. pad \in Seq(S) /\ Len(pad) = l - T /\ \A k \in 1..(l - T) : pad[k] = Space
  <2> HIDE DEF T
  <2>1. pad \in [1..(l - T) -> S]
    OBVIOUS
  <2>2. \A k \in 1..(l - T) : pad[k] = Space
    OBVIOUS
  <2> HIDE DEF pad
  <2>3. pad \in Seq(S)
    BY <1>1, <2>1
  <2>4. Len(pad) = l - T
    BY <1>1, <2>1, <2>3
  <2> QED
    BY <2>2, <2>3, <2>4
<1>3. Padded(q, l) = q \o pad
  BY DEF Padded
<1> HIDE DEF pad
<1>4. /\ q \o pad \in Seq(S) /\ Len(q \o pad) = T + (l - T)
      /\ \A k \in 1..(T + (l - T)) : (q \o pad)[k] = IF k <= T THEN q[k] ELSE pad[k - T]
  BY <1>2, ConcatProperties
<1>5. \A k \in 1..l : (q \o pad)[k] = IF k <= T THEN q[k] ELSE Space
  <2> SUFFICES ASSUME NEW k \in 1..l
               PROVE  (q \o pad)[k] = IF k <= T THEN q[k] ELSE Space
    OBVIOUS
  <2>1. k \in 1..(T + (l - T)) /\ (~(k <= T) => k - T \in 1..(l - T))
    BY <1>1
  <2> QED
    BY <1>2, <1>4, <2>1
<1> QED
  BY <1>1, <1>3, <1>4, <1>5

\* The bytes of an item.
LEMMA ItemBytesAre ==
    ASSUME NEW d, Named(d)
    PROVE  /\ ItemBytes(d) \in Seq(STRING \cup {Space, Zero, d.attribute})
           /\ Len(ItemBytes(d)) = NameLength + ExtLength + 2
           /\ \A k \in 1..NameLength :
                 ItemBytes(d)[k] = IF k <= Len(d.name) THEN d.name[k] ELSE Space
           /\ \A k \in 1..ExtLength :
                 ItemBytes(d)[NameLength + k] = IF k <= Len(d.ext) THEN d.ext[k] ELSE Space
           /\ ItemBytes(d)[NameLength + ExtLength + 1] = d.attribute
           /\ ItemBytes(d)[NameLength + ExtLength + 2] = Zero
<1> DEFINE S == STRING \cup {Space, Zero, d.attribute}
           N == Padded(d.name, NameLength)
           X == Padded(d.ext, ExtLength)
<1>1. PICK l : l = NameLength
  OBVIOUS
<1>2. PICK e : e = ExtLength
  OBVIOUS
<1>3. l \in Nat /\ e \in Nat
  BY <1>1, <1>2, Lengths
<1>4. PICK z : z = <<d.attribute, Zero>>
  OBVIOUS
<1>5. Space \in S /\ Zero \in S /\ d.attribute \in S
  OBVIOUS
<1>6. d.name \in Seq(S) /\ d.ext \in Seq(S) /\ Len(d.name) <= l /\ Len(d.ext) <= e
  <2>1. STRING \subseteq S
    OBVIOUS
  <2> HIDE DEF S
  <2>2. d.name \in Seq(STRING) /\ d.ext \in Seq(STRING) /\ Len(d.name) \in 1..l /\ Len(d.ext) \in 0..e
    BY <1>1, <1>2 DEF Named
  <2>3. d.name \in Seq(S) /\ d.ext \in Seq(S)
    BY <2>1, <2>2, SeqMonotonic
  <2> QED
    BY <1>3, <2>2, <2>3
<1> HIDE DEF S
<1>7. N \in Seq(S) /\ Len(N) = l /\ \A k \in 1..l : N[k] = IF k <= Len(d.name) THEN d.name[k] ELSE Space
  BY <1>1, <1>3, <1>5, <1>6, PaddedIs
<1>8. X \in Seq(S) /\ Len(X) = e /\ \A k \in 1..e : X[k] = IF k <= Len(d.ext) THEN d.ext[k] ELSE Space
  BY <1>2, <1>3, <1>5, <1>6, PaddedIs
<1>9. z \in Seq(S) /\ Len(z) = 2 /\ z[1] = d.attribute /\ z[2] = Zero
  <2>1. PICK a : a = d.attribute
    OBVIOUS
  <2>2. z = <<a, Zero>> /\ a \in S
    BY <1>4, <1>5, <2>1
  <2> QED
    BY <1>5, <2>1, <2>2
<1>10. ItemBytes(d) = (N \o X) \o z
  BY <1>4, Zenon DEF ItemBytes
<1> HIDE DEF N, X
<1>11. /\ N \o X \in Seq(S) /\ Len(N \o X) = l + e
       /\ \A k \in 1..(l + e) : (N \o X)[k] = IF k <= l THEN N[k] ELSE X[k - l]
  BY <1>7, <1>8, ConcatProperties
<1> DEFINE b == (N \o X) \o z
<1>12. /\ b \in Seq(S) /\ Len(b) = l + e + 2
       /\ \A k \in 1..(l + e + 2) : b[k] = IF k <= l + e THEN (N \o X)[k] ELSE z[k - (l + e)]
  <2>1. PICK q : q = N \o X
    OBVIOUS
  <2>2. q \in Seq(S) /\ Len(q) = l + e
    BY <1>11, <2>1
  <2>3. /\ q \o z \in Seq(S) /\ Len(q \o z) = Len(q) + Len(z)
        /\ \A k \in 1..(Len(q) + Len(z)) : (q \o z)[k] = IF k <= Len(q) THEN q[k] ELSE z[k - Len(q)]
    BY <1>9, <2>2, ConcatProperties
  <2>4. b = q \o z
    BY <2>1
  <2> HIDE DEF b
  <2>5. \A k \in 1..(l + e + 2) : k \in 1..(Len(q) + Len(z))
    BY <1>3, <1>9, <2>2
  <2>6. /\ b \in Seq(S) /\ Len(b) = l + e + 2
        /\ \A k \in 1..(l + e + 2) : b[k] = IF k <= l + e THEN q[k] ELSE z[k - (l + e)]
    BY <1>3, <1>9, <2>2, <2>3, <2>4, <2>5
  <2> QED
    BY <2>1, <2>6
<1> HIDE DEF b
<1>13. \A k \in 1..l : b[k] = N[k]
  <2> SUFFICES ASSUME NEW k \in 1..l
               PROVE  b[k] = N[k]
    OBVIOUS
  <2>1. k \in 1..(l + e + 2) /\ k <= l + e /\ k \in 1..(l + e) /\ k <= l
    BY <1>3
  <2> QED
    BY <1>11, <1>12, <2>1
<1>14. \A k \in 1..e : b[l + k] = X[k]
  <2> SUFFICES ASSUME NEW k \in 1..e
               PROVE  b[l + k] = X[k]
    OBVIOUS
  <2>1. l + k \in 1..(l + e + 2) /\ l + k <= l + e /\ l + k \in 1..(l + e) /\ ~(l + k <= l) /\ (l + k) - l = k
    BY <1>3
  <2> QED
    BY <1>11, <1>12, <2>1
<1>15. b[l + e + 1] = z[1] /\ b[l + e + 2] = z[2]
  <2>1. /\ l + e + 1 \in 1..(l + e + 2) /\ ~(l + e + 1 <= l + e) /\ (l + e + 1) - (l + e) = 1
        /\ l + e + 2 \in 1..(l + e + 2) /\ ~(l + e + 2 <= l + e) /\ (l + e + 2) - (l + e) = 2
    BY <1>3
  <2> QED
    BY <1>12, <2>1
<1>16. ItemBytes(d) = b
  BY <1>10 DEF b
<1> QED
  BY <1>1, <1>2, <1>7, <1>8, <1>9, <1>12, <1>13, <1>14, <1>15, <1>16 DEF S

\* What an item can hold, and the dot.
Bytes(d) == STRING \cup {Space, Dot, Zero, d.attribute}

\* The bytes from the extension on.
ExtBytes(d) == SubSeq(ItemBytes(d), NameLength + 1, Len(ItemBytes(d)))

\* They end with the attribute and a zero.
LEMMA ExtBytesAre ==
    ASSUME NEW d, Named(d)
    PROVE  /\ ExtBytes(d) \in Seq(Bytes(d)) /\ Len(ExtBytes(d)) = ExtLength + 2
           /\ \A k \in 1..ExtLength : ExtBytes(d)[k] = IF k <= Len(d.ext) THEN d.ext[k] ELSE Space
           /\ ExtBytes(d)[ExtLength + 1] = d.attribute /\ ExtBytes(d)[ExtLength + 2] = Zero
<1>1. PICK l : l = NameLength
  OBVIOUS
<1>2. PICK e : e = ExtLength
  OBVIOUS
<1>3. PICK b : b = ItemBytes(d)
  OBVIOUS
<1>4. l \in Nat \ {0} /\ e \in Nat \ {0}
  BY <1>1, <1>2, Lengths
<1> DEFINE S == STRING \cup {Space, Zero, d.attribute}
<1>5. /\ b \in Seq(S) /\ Len(b) = l + e + 2
      /\ \A k \in 1..e : b[l + k] = IF k <= Len(d.ext) THEN d.ext[k] ELSE Space
      /\ b[l + e + 1] = d.attribute /\ b[l + e + 2] = Zero
  BY <1>1, <1>2, <1>3, ItemBytesAre
<1>6. PICK x : x = SubSeq(b, l + 1, Len(b))
  OBVIOUS
<1>7. S \subseteq Bytes(d)
  BY DEF Bytes
<1> HIDE DEF S
<1>8. x \in Seq(S) /\ Len(x) = e + 2 /\ \A k \in 1..(e + 2) : x[k] = b[l + k]
  <2> DEFINE t == l + e + 2
  <2>1. t \in Int /\ l + 1 \in Int /\ l + 1 <= t /\ t - (l + 1) + 1 = e + 2
    BY <1>4
  <2>2. \A k \in (l + 1)..t : b[k] \in S
    <3>1. \A k \in (l + 1)..t : k \in 1..Len(b)
      BY <1>4, <1>5
    <3> QED
      BY <1>5, <3>1
  <2> HIDE DEF t
  <2>3. /\ SubSeq(b, l + 1, t) \in Seq(S)
        /\ Len(SubSeq(b, l + 1, t)) = t - (l + 1) + 1
        /\ \A k \in 1..(t - (l + 1) + 1) : SubSeq(b, l + 1, t)[k] = b[l + 1 + k - 1]
    BY <2>1, <2>2, SubSeqProperties
  <2>4. x = SubSeq(b, l + 1, t)
    BY <1>5, <1>6 DEF t
  <2>5. \A k \in 1..(e + 2) : l + 1 + k - 1 = l + k
    BY <1>4
  <2> QED
    BY <2>1, <2>3, <2>4, <2>5
<1>9. x \in Seq(Bytes(d))
  BY <1>7, <1>8, SeqMonotonic
<1>10. ExtBytes(d) = x
  BY <1>1, <1>3, <1>6 DEF ExtBytes
<1>11. \A k \in 1..e : x[k] = IF k <= Len(d.ext) THEN d.ext[k] ELSE Space
  <2>1. \A k \in 1..e : k \in 1..(e + 2)
    BY <1>4
  <2> QED
    BY <1>5, <1>8, <2>1
<1>12. x[e + 1] = d.attribute /\ x[e + 2] = Zero
  <2>1. e + 1 \in 1..(e + 2) /\ e + 2 \in 1..(e + 2) /\ l + (e + 1) = l + e + 1 /\ l + (e + 2) = l + e + 2
    BY <1>4
  <2> QED
    BY <1>5, <1>8, <2>1
<1> QED
  BY <1>2, <1>8, <1>9, <1>10, <1>11, <1>12

\* A name that leaves room in its field ends there; one that does not is read on.
LEMMA NameString ==
    ASSUME NEW d, Named(d)
    PROVE  LET s == fat16_to_proper_string(ItemBytes(d))
           IN  /\ Len(d.name) < NameLength => s = d.name
               /\ Len(d.name) = NameLength =>
                     /\ s \in Seq(Bytes(d)) /\ Len(s) >= NameLength
                     /\ \A k \in 1..NameLength : s[k] = d.name[k]
<1>1. PICK l : l = NameLength
  OBVIOUS
<1>2. PICK e : e = ExtLength
  OBVIOUS
<1>3. PICK b : b = ItemBytes(d)
  OBVIOUS
<1>4. PICK s : s = fat16_to_proper_string(b)
  OBVIOUS
<1> DEFINE S == STRING \cup {Space, Zero, d.attribute}
           T == Len(d.name)
<1>5. l \in Nat \ {0} /\ e \in Nat \ {0} /\ T \in 1..l /\ d.name \in Seq(STRING)
  BY <1>1, <1>2, Lengths DEF Named
<1>6. /\ b \in Seq(S) /\ Len(b) = l + e + 2 /\ b[l + e + 2] = Zero
      /\ \A k \in 1..l : b[k] = IF k <= T THEN d.name[k] ELSE Space
  BY <1>1, <1>2, <1>3, ItemBytesAre
<1>7. S \subseteq Bytes(d) /\ STRING \subseteq Bytes(d)
  BY DEF Bytes
<1>8. Ends(Space) /\ Ends(Zero)
  BY DEF Ends
<1>9. \A k \in 1..T : ~Ends(d.name[k])
  BY DEF Named
<1> HIDE DEF S
<1>10. \A k \in 1..T : k \in 1..l /\ k <= T /\ b[k] = d.name[k] /\ ~Ends(b[k])
  <2>1. \A k \in 1..T : k \in 1..l /\ k <= T
    BY <1>5
  <2> QED
    BY <1>6, <1>9, <2>1
<1>11. CASE T < l
  <2>1. T + 1 \in 1..l /\ ~(T + 1 <= T) /\ T + 1 \in 1..Len(b) /\ (T + 1) - 1 = T
    BY <1>5, <1>6, <1>11
  <2>2. Ends(b[T + 1])
    BY <1>6, <1>8, <2>1
  <2>3. \A k \in 1..((T + 1) - 1) : ~Ends(b[k])
    BY <1>10, <2>1
  <2>4. PICK n : n = T + 1
    OBVIOUS
  <2>5. n \in 1..Len(b) /\ Ends(b[n]) /\ \A k \in 1..(n - 1) : ~Ends(b[k])
    BY <2>1, <2>2, <2>3, <2>4
  <2>6. s \in Seq(S) /\ Len(s) = n - 1 /\ \A k \in 1..(n - 1) : s[k] = b[k]
    BY <1>4, <1>6, <2>5, ProperString
  <2>7. s \in Seq(Bytes(d)) /\ d.name \in Seq(Bytes(d))
    BY <1>5, <1>7, <2>6, SeqMonotonic
  <2>8. Len(s) = T /\ \A k \in 1..Len(s) : s[k] = d.name[k]
    BY <1>10, <2>1, <2>4, <2>6
  <2>9. s = d.name
    BY <2>7, <2>8, SeqEqual
  <2> QED
    BY <1>1, <1>3, <1>4, <1>5, <1>11, <2>9
<1>12. CASE T = l
  <2> DEFINE ends == {k \in Nat : k \in 1..Len(b) /\ Ends(b[k])}
  <2>1. l + e + 2 \in ends
    BY <1>5, <1>6, <1>8
  <2>2. ends \in SUBSET Nat /\ ends # {}
    BY <2>1
  <2> HIDE DEF ends
  <2>3. PICK n \in ends : \A k \in ends : n <= k
    BY <2>2, LeastElement
  <2>4. n \in 1..Len(b) /\ Ends(b[n])
    BY DEF ends
  <2>5. ASSUME NEW k \in 1..(n - 1)
        PROVE  ~Ends(b[k])
    <3>1. k \in Nat /\ k \in 1..Len(b) /\ ~(n <= k)
      BY <1>5, <1>6, <2>4
    <3>2. k \notin ends
      BY <2>3, <3>1
    <3> QED
      BY <3>1, <3>2 DEF ends
  <2>6. s \in Seq(S) /\ Len(s) = n - 1 /\ \A k \in 1..(n - 1) : s[k] = b[k]
    BY <1>4, <1>6, <2>4, <2>5, ProperString
  <2>7. n > l
    <3>1. n \notin 1..T
      BY <1>10, <2>4
    <3> QED
      BY <1>5, <1>6, <1>12, <2>4, <3>1
  <2>8. Len(s) >= l /\ \A k \in 1..l : s[k] = d.name[k]
    <3>1. \A k \in 1..l : k \in 1..(n - 1) /\ k \in 1..T
      BY <1>5, <1>6, <1>12, <2>4, <2>7
    <3>2. Len(s) >= l
      BY <1>5, <1>6, <2>4, <2>6, <2>7
    <3> QED
      BY <1>10, <2>6, <3>1, <3>2
  <2>9. s \in Seq(Bytes(d))
    BY <1>7, <2>6, SeqMonotonic
  <2> QED
    BY <1>1, <1>3, <1>4, <1>5, <1>12, <2>8, <2>9
<1> QED
  BY <1>1, <1>5, <1>11, <1>12

\* So does an extension, unless the attribute ends it.
LEMMA ExtString ==
    ASSUME NEW d, Named(d)
    PROVE  LET s == fat16_to_proper_string(ExtBytes(d))
           IN  /\ Ends(Head(ExtBytes(d))) <=> d.ext = <<>>
               /\ d.ext # <<>> /\ (Len(d.ext) < ExtLength \/ Ends(d.attribute)) => s = d.ext
               /\ Len(d.ext) = ExtLength /\ ~Ends(d.attribute) =>
                     s \in Seq(Bytes(d)) /\ Len(s) = ExtLength + 1
<1>1. PICK e : e = ExtLength
  OBVIOUS
<1>2. PICK b : b = ExtBytes(d)
  OBVIOUS
<1>3. PICK s : s = fat16_to_proper_string(b)
  OBVIOUS
<1> DEFINE T == Len(d.ext)
<1>4. e \in Nat \ {0} /\ T \in 0..e /\ d.ext \in Seq(STRING)
  BY <1>1, Lengths DEF Named
<1>5. /\ b \in Seq(Bytes(d)) /\ Len(b) = e + 2 /\ b[e + 1] = d.attribute /\ b[e + 2] = Zero
      /\ \A k \in 1..e : b[k] = IF k <= T THEN d.ext[k] ELSE Space
  BY <1>1, <1>2, ExtBytesAre
<1>6. Ends(Space) /\ Ends(Zero)
  BY DEF Ends
<1>7. \A k \in 1..T : ~Ends(d.ext[k])
  BY DEF Named
<1>8. \A k \in 1..T : b[k] = d.ext[k] /\ ~Ends(b[k])
  <2>1. \A k \in 1..T : k \in 1..e /\ k <= T
    BY <1>4
  <2> QED
    BY <1>5, <1>7, <2>1
<1>9. Ends(Head(b)) <=> d.ext = <<>>
  <2>1. Head(b) = b[1]
    BY <1>4, <1>5
  <2>2. CASE T = 0
    <3>1. 1 \in 1..e /\ ~(1 <= T) /\ d.ext = <<>>
      BY <1>4, <2>2
    <3> QED
      BY <1>5, <1>6, <2>1, <3>1
  <2>3. CASE T # 0
    <3>1. 1 \in 1..T /\ d.ext # <<>>
      BY <1>4, <2>3
    <3> QED
      BY <1>8, <2>1, <3>1
  <2> QED
    BY <2>2, <2>3
<1>10. ASSUME NEW n \in 1..Len(b), Ends(b[n]), \A k \in 1..(n - 1) : ~Ends(b[k])
       PROVE  s \in Seq(Bytes(d)) /\ Len(s) = n - 1 /\ \A k \in 1..(n - 1) : s[k] = b[k]
  BY <1>3, <1>5, <1>10, ProperString
<1>11. T < e \/ Ends(d.attribute) => s = d.ext
  <2> SUFFICES ASSUME T < e \/ Ends(d.attribute)
               PROVE  s = d.ext
    OBVIOUS
  <2>1. PICK n : n = T + 1
    OBVIOUS
  <2>2. n \in 1..Len(b) /\ n - 1 = T
    BY <1>4, <1>5, <2>1
  <2>3. Ends(b[n])
    <3>1. CASE T < e
      <4>1. n \in 1..e /\ ~(n <= T)
        BY <1>4, <2>1, <3>1
      <4> QED
        BY <1>5, <1>6, <4>1
    <3>2. CASE T = e
      BY <1>4, <1>5, <2>1, <3>2
    <3> QED
      BY <1>4, <3>1, <3>2
  <2>4. s \in Seq(Bytes(d)) /\ Len(s) = T /\ \A k \in 1..T : s[k] = b[k]
    BY <1>8, <1>10, <2>2, <2>3
  <2>5. d.ext \in Seq(Bytes(d))
    <3>1. STRING \subseteq Bytes(d)
      BY DEF Bytes
    <3> QED
      BY <1>4, <3>1, SeqMonotonic
  <2>6. \A k \in 1..Len(s) : s[k] = d.ext[k]
    BY <1>8, <2>4
  <2> QED
    BY <2>4, <2>5, <2>6, SeqEqual
<1>12. T = e /\ ~Ends(d.attribute) => s \in Seq(Bytes(d)) /\ Len(s) = e + 1
  <2> SUFFICES ASSUME T = e, ~Ends(d.attribute)
               PROVE  s \in Seq(Bytes(d)) /\ Len(s) = e + 1
    OBVIOUS
  <2>1. PICK n : n = e + 2
    OBVIOUS
  <2>2. n \in 1..Len(b) /\ Ends(b[n]) /\ n - 1 = e + 1
    BY <1>4, <1>5, <1>6, <2>1
  <2>3. \A k \in 1..(n - 1) : ~Ends(b[k])
    <3>1. \A k \in 1..(n - 1) : k \in 1..T \/ k = e + 1
      BY <1>4, <2>2
    <3> QED
      BY <1>5, <1>8, <3>1
  <2> QED
    BY <1>10, <2>2, <2>3
<1> QED
  BY <1>1, <1>2, <1>3, <1>9, <1>11, <1>12

\* The full name is the two strings, with a dot between them if there is an extension.
LEMMA FullName ==
    ASSUME NEW d
    PROVE  fat16_get_full_relative_filename(d)
              = fat16_to_proper_string(ItemBytes(d))
                \o (IF Ends(Head(ExtBytes(d))) THEN <<>>
                    ELSE <<Dot>> \o fat16_to_proper_string(ExtBytes(d)))
  BY Zenon DEF fat16_get_full_relative_filename, ExtBytes

\* A name is read back as it was written if neither part of it fills its field.
LEMMA NameReadBack ==
    ASSUME NEW d, Named(d), ReadsBack(d)
    PROVE  fat16_get_full_relative_filename(d) = PathOf(d)
<1>1. fat16_to_proper_string(ItemBytes(d)) = d.name
  BY NameString, Zenon DEF ReadsBack
<1>2. CASE d.ext = <<>>
  <2>1. Ends(Head(ExtBytes(d)))
    BY <1>2, ExtString, Zenon
  <2> QED
    BY <1>1, <1>2, <2>1, FullName, Zenon DEF PathOf
<1>3. CASE d.ext # <<>>
  <2>1. ~Ends(Head(ExtBytes(d)))
    BY <1>3, ExtString, Zenon
  <2>2. fat16_to_proper_string(ExtBytes(d)) = d.ext
    BY <1>3, ExtString, Zenon DEF ReadsBack
  <2> QED
    BY <1>1, <1>3, <2>1, <2>2, FullName, Zenon DEF PathOf
<1> QED
  BY <1>2, <1>3

\* A text behind a dot.
LEMMA Dotted ==
    ASSUME NEW S, Dot \in S, NEW a \in Seq(S), NEW b \in Seq(S)
    PROVE  /\ a \o (<<Dot>> \o b) \in Seq(S) /\ Len(a \o (<<Dot>> \o b)) = Len(a) + 1 + Len(b)
           /\ \A k \in 1..Len(a) : (a \o (<<Dot>> \o b))[k] = a[k]
           /\ (a \o (<<Dot>> \o b))[Len(a) + 1] = Dot
           /\ \A k \in 1..Len(b) : (a \o (<<Dot>> \o b))[Len(a) + 1 + k] = b[k]
<1>1. PICK dot : dot = Dot
  OBVIOUS
<1>2. PICK t : t = <<dot>>
  OBVIOUS
<1>3. t \in Seq(S) /\ Len(t) = 1 /\ t[1] = dot
  BY <1>1, <1>2
<1>4. PICK c : c = t \o b
  OBVIOUS
<1>5. PICK z : z = a \o c
  OBVIOUS
<1>6. Len(a) \in Nat /\ Len(b) \in Nat
  OBVIOUS
<1>7. /\ c \in Seq(S) /\ Len(c) = 1 + Len(b)
      /\ \A k \in 1..(1 + Len(b)) : c[k] = IF k <= 1 THEN t[k] ELSE b[k - 1]
  <2>1. /\ t \o b \in Seq(S) /\ Len(t \o b) = Len(t) + Len(b)
        /\ \A k \in 1..(Len(t) + Len(b)) : (t \o b)[k] = IF k <= Len(t) THEN t[k] ELSE b[k - Len(t)]
    BY <1>3, ConcatProperties
  <2> QED
    BY <1>3, <1>4, <2>1, Zenon
<1>8. /\ z \in Seq(S) /\ Len(z) = Len(a) + Len(c)
      /\ \A k \in 1..(Len(a) + Len(c)) : z[k] = IF k <= Len(a) THEN a[k] ELSE c[k - Len(a)]
  BY <1>5, <1>7, ConcatProperties
<1>9. \A k \in 1..Len(a) : z[k] = a[k]
  <2>1. \A k \in 1..Len(a) : k \in 1..(Len(a) + Len(c)) /\ k <= Len(a)
    BY <1>6, <1>7
  <2> QED
    BY <1>8, <2>1
<1>10. z[Len(a) + 1] = dot
  <2>1. /\ Len(a) + 1 \in 1..(Len(a) + Len(c)) /\ ~(Len(a) + 1 <= Len(a)) /\ (Len(a) + 1) - Len(a) = 1
        /\ 1 \in 1..(1 + Len(b))
    BY <1>6, <1>7
  <2> QED
    <3>1. z[Len(a) + 1] = c[(Len(a) + 1) - Len(a)]
      BY <1>8, <2>1, Zenon
    <3>2. c[1] = t[1]
      BY <1>7, <2>1
    <3> QED
      BY <1>3, <2>1, <3>1, <3>2, Zenon
<1>11. ASSUME NEW k \in 1..Len(b)
       PROVE  z[Len(a) + 1 + k] = b[k]
  <2>1. /\ Len(a) + 1 + k \in 1..(Len(a) + Len(c)) /\ ~(Len(a) + 1 + k <= Len(a))
        /\ (Len(a) + 1 + k) - Len(a) = 1 + k /\ 1 + k \in 1..(1 + Len(b)) /\ ~(1 + k <= 1) /\ (1 + k) - 1 = k
    BY <1>6, <1>7
  <2> QED
    BY <1>7, <1>8, <2>1
<1>12. z = a \o (<<Dot>> \o b)
  BY <1>1, <1>2, <1>4, <1>5
<1> QED
  BY <1>1, <1>6, <1>7, <1>8, <1>9, <1>10, <1>11, <1>12

Chars == STRING \cup {Dot}

\* The path of a file has a dot before its extension and nowhere else.
LEMMA PathIs ==
    ASSUME NEW d, Named(d)
    PROVE  /\ PathOf(d) \in Seq(Chars)
           /\ Len(PathOf(d)) = Len(d.name) + (IF d.ext = <<>> THEN 0 ELSE 1 + Len(d.ext))
           /\ d.ext # <<>> => PathOf(d)[Len(d.name) + 1] = Dot
           /\ \A k \in 1..Len(PathOf(d)) :
                 PathOf(d)[k] = Dot => d.ext # <<>> /\ k = Len(d.name) + 1
<1>1. /\ d.name \in Seq(STRING) /\ d.ext \in Seq(STRING)
      /\ \A n \in 1..Len(d.name) : d.name[n] # Dot
      /\ \A n \in 1..Len(d.ext) : d.ext[n] # Dot
  BY DEF Named
<1>2. PICK p : p = PathOf(d)
  OBVIOUS
<1>3. CASE d.ext = <<>>
  <2>1. p = d.name \o <<>>
    BY <1>2, <1>3, Zenon DEF PathOf
  <2>2. p = d.name
    BY <1>1, <2>1, ConcatEmptySeq
  <2>3. p \in Seq(Chars)
    <3>1. STRING \subseteq Chars
      BY DEF Chars
    <3> QED
      BY <1>1, <2>2, <3>1, SeqMonotonic
  <2> QED
    BY <1>1, <1>2, <1>3, <2>2, <2>3
<1>4. CASE d.ext # <<>>
  <2>1. Dot \in Chars /\ STRING \subseteq Chars
    BY DEF Chars
  <2>2. p = d.name \o (<<Dot>> \o d.ext)
    BY <1>2, <1>4, Zenon DEF PathOf
  <2>3. PICK a : a = d.name
    OBVIOUS
  <2>4. PICK b : b = d.ext
    OBVIOUS
  <2>5. /\ p \in Seq(Chars) /\ Len(p) = Len(a) + 1 + Len(b)
        /\ \A k \in 1..Len(a) : p[k] = a[k]
        /\ p[Len(a) + 1] = Dot
        /\ \A k \in 1..Len(b) : p[Len(a) + 1 + k] = b[k]
    <3>1. d.name \in Seq(Chars) /\ d.ext \in Seq(Chars)
      BY <1>1, <2>1, SeqMonotonic
    <3>2. a \in Seq(Chars) /\ b \in Seq(Chars) /\ p = a \o (<<Dot>> \o b)
      BY <2>2, <2>3, <2>4, <3>1
    <3> HIDE DEF Chars
    <3>3. /\ a \o (<<Dot>> \o b) \in Seq(Chars) /\ Len(a \o (<<Dot>> \o b)) = Len(a) + 1 + Len(b)
          /\ \A k \in 1..Len(a) : (a \o (<<Dot>> \o b))[k] = a[k]
          /\ (a \o (<<Dot>> \o b))[Len(a) + 1] = Dot
          /\ \A k \in 1..Len(b) : (a \o (<<Dot>> \o b))[Len(a) + 1 + k] = b[k]
      BY <2>1, <3>2, Dotted
    <3> QED
      BY <3>2, <3>3, Zenon
  <2>6. Len(a) \in Nat /\ Len(b) \in Nat
    BY <1>1, <2>3, <2>4
  <2>7. ASSUME NEW k \in 1..Len(p), p[k] = Dot
        PROVE  k = Len(a) + 1
    <3>1. k \in 1..Len(a) \/ k = Len(a) + 1 \/ (k - (Len(a) + 1) \in 1..Len(b) /\ Len(a) + 1 + (k - (Len(a) + 1)) = k)
      BY <2>5, <2>6
    <3>2. k \notin 1..Len(a)
      BY <1>1, <2>3, <2>5, <2>7
    <3>3. CASE k - (Len(a) + 1) \in 1..Len(b) /\ Len(a) + 1 + (k - (Len(a) + 1)) = k
      <4>1. PICK n \in 1..Len(b) : Len(a) + 1 + n = k
        BY <3>3
      <4>2. p[k] = b[n]
        BY <2>5, <4>1
      <4> QED
        BY <1>1, <2>4, <2>7, <4>2
    <3> QED
      BY <3>1, <3>2, <3>3
  <2>8. Len(p) = Len(a) + (1 + Len(b))
    BY <2>5, <2>6
  <2> QED
    BY <1>2, <1>4, <2>3, <2>4, <2>5, <2>7, <2>8
<1> QED
  BY <1>3, <1>4

\* A letter is no dot, and a dot no letter.
LEMMA DotStays ==
    ASSUME NEW a, NEW b, char_tolower(a) = char_tolower(b)
    PROVE  a = Dot <=> b = Dot
<1>1. \A c \in DOMAIN lower : c # Dot /\ lower[c] # Dot
  BY NamesAssumption, Zenon DEF NamesFit
<1> QED
  BY <1>1, Zenon DEF char_tolower

\* A name that is not read back is never taken for one that is.
LEMMA NotTakenFor ==
    ASSUME NEW d, Named(d), ~ReadsBack(d), NEW e, Named(e), ReadsBack(e),
           NEW p, istrncmp(fat16_get_full_relative_filename(d), p), istrncmp(PathOf(e), p)
    PROVE  FALSE
<1>1. PICK n : n = fat16_get_full_relative_filename(d)
  OBVIOUS
<1>2. PICK q : q = PathOf(e)
  OBVIOUS
<1>3. PICK a : a = fat16_to_proper_string(ItemBytes(d))
  OBVIOUS
<1>4. PICK l : l = NameLength
  OBVIOUS
<1>5. PICK x : x = ExtLength
  OBVIOUS
<1>6. /\ l \in Nat \ {0} /\ x \in Nat \ {0}
      /\ d.name \in Seq(STRING) /\ d.ext \in Seq(STRING) /\ Len(d.name) \in 1..l /\ Len(d.ext) \in 0..x
      /\ e.name \in Seq(STRING) /\ e.ext \in Seq(STRING) /\ Len(e.name) \in 1..l /\ Len(e.ext) \in 0..x
      /\ \A k \in 1..Len(d.name) : d.name[k] # Dot
  BY <1>4, <1>5, Lengths DEF Named
<1>7. Len(e.name) < l /\ ~(Len(d.name) < l /\ (Len(d.ext) < x \/ Ends(d.attribute)))
  BY <1>4, <1>5, Zenon DEF ReadsBack
<1>8. /\ q \in Seq(Chars)
      /\ Len(q) = Len(e.name) + (IF e.ext = <<>> THEN 0 ELSE 1 + Len(e.ext))
      /\ e.ext # <<>> => q[Len(e.name) + 1] = Dot
      /\ \A k \in 1..Len(q) : q[k] = Dot => e.ext # <<>> /\ k = Len(e.name) + 1
  BY <1>2, PathIs
<1>9. Len(n) = Len(q) /\ \A k \in DOMAIN n : k \in DOMAIN q => char_tolower(n[k]) = char_tolower(q[k])
  <2>1. /\ Len(n) = Len(p) /\ \A k \in DOMAIN n : char_tolower(n[k]) = char_tolower(p[k])
        /\ Len(q) = Len(p) /\ \A k \in DOMAIN q : char_tolower(q[k]) = char_tolower(p[k])
    BY <1>1, <1>2, Zenon DEF istrncmp
  <2> QED
    BY <2>1, Zenon
<1>10. Dot \in Bytes(d)
  BY DEF Bytes
<1>11. CASE Len(d.name) = l
  <2>1. a \in Seq(Bytes(d)) /\ Len(a) >= l /\ \A k \in 1..l : a[k] = d.name[k]
    BY <1>3, <1>4, <1>11, NameString
  <2>2. n \in Seq(Bytes(d)) /\ Len(n) >= l /\ \A k \in 1..l : n[k] = d.name[k]
    <3>1. CASE Ends(Head(ExtBytes(d)))
      <4>1. n = a \o <<>>
        BY <1>1, <1>3, <3>1, FullName, Zenon
      <4>2. n = a
        BY <2>1, <4>1, ConcatEmptySeq
      <4> QED
        BY <2>1, <4>2
    <3>2. CASE ~Ends(Head(ExtBytes(d)))
      <4>1. PICK b : b = fat16_to_proper_string(ExtBytes(d))
        OBVIOUS
      <4>2. n = a \o (<<Dot>> \o b)
        BY <1>1, <1>3, <3>2, <4>1, FullName, Zenon
      <4>3. b \in Seq(Bytes(d))
        <5>1. d.ext # <<>>
          BY <3>2, ExtString, Zenon
        <5>2. CASE Len(d.ext) < x \/ Ends(d.attribute)
          <6>1. b = d.ext
            BY <1>5, <4>1, <5>1, <5>2, ExtString, Zenon
          <6>2. STRING \subseteq Bytes(d)
            BY DEF Bytes
          <6> QED
            BY <1>6, <6>1, <6>2, SeqMonotonic
        <5>3. CASE ~(Len(d.ext) < x \/ Ends(d.attribute))
          <6>1. Len(d.ext) = x
            BY <1>6, <5>3
          <6> QED
            BY <1>5, <4>1, <5>3, <6>1, ExtString, Zenon
        <5> QED
          BY <5>2, <5>3
      <4>4. n \in Seq(Bytes(d)) /\ Len(n) = Len(a) + 1 + Len(b) /\ \A k \in 1..Len(a) : n[k] = a[k]
        BY <1>10, <2>1, <4>2, <4>3, Dotted
      <4>5. Len(a) \in Nat /\ Len(b) \in Nat
        BY <2>1, <4>3
      <4>6. \A k \in 1..l : k \in 1..Len(a)
        BY <1>6, <2>1, <4>5
      <4> QED
        BY <1>6, <2>1, <4>4, <4>5, <4>6
    <3> QED
      BY <3>1, <3>2
  <2>3. e.ext # <<>>
    <3>1. Len(n) >= l /\ Len(n) = Len(q) /\ Len(e.name) < l
      BY <1>7, <1>9, <2>2
    <3>2. Len(e.name) \in Nat
      BY <1>6
    <3>3. SUFFICES ASSUME e.ext = <<>>
                   PROVE  FALSE
      OBVIOUS
    <3>4. Len(q) = Len(e.name) + 0
      BY <1>8, <3>3
    <3> QED
      BY <1>6, <3>1, <3>2, <3>4
  <2> DEFINE k == Len(e.name) + 1
  <2>4. k \in 1..l /\ k \in DOMAIN n /\ k \in DOMAIN q /\ k \in 1..Len(d.name)
    <3>1. DOMAIN n = 1..Len(n) /\ DOMAIN q = 1..Len(q) /\ Len(n) \in Nat
      BY <1>8, <2>2
    <3> QED
      BY <1>6, <1>7, <1>9, <1>11, <2>2, <3>1
  <2>5. q[k] = Dot /\ n[k] = d.name[k] /\ n[k] # Dot
    BY <1>6, <1>8, <2>2, <2>3, <2>4
  <2> HIDE DEF k
  <2> QED
    BY <1>9, <2>4, <2>5, DotStays, Zenon
<1>12. CASE Len(d.name) < l
  <2>1. ~(Len(d.ext) < x \/ Ends(d.attribute)) /\ Len(d.ext) = x /\ d.ext # <<>>
    BY <1>6, <1>7, <1>12
  <2>2. a = d.name
    BY <1>3, <1>4, <1>12, NameString, Zenon
  <2>3. PICK b : b = fat16_to_proper_string(ExtBytes(d))
    OBVIOUS
  <2>4. b \in Seq(Bytes(d)) /\ Len(b) = x + 1
    BY <1>5, <2>1, <2>3, ExtString, Zenon
  <2>5. ~Ends(Head(ExtBytes(d)))
    BY <2>1, ExtString, Zenon
  <2>6. n = a \o (<<Dot>> \o b)
    BY <1>1, <1>3, <2>3, <2>5, FullName, Zenon
  <2>7. a \in Seq(Bytes(d))
    <3>1. STRING \subseteq Bytes(d)
      BY DEF Bytes
    <3> QED
      BY <1>6, <2>2, <3>1, SeqMonotonic
  <2>8. n \in Seq(Bytes(d)) /\ Len(n) = Len(a) + 1 + Len(b) /\ n[Len(a) + 1] = Dot
    BY <1>10, <2>4, <2>6, <2>7, Dotted
  <2>9. PICK k : k = Len(a) + 1
    OBVIOUS
  <2>10. k \in DOMAIN n /\ k \in DOMAIN q /\ k \in 1..Len(q) /\ n[k] = Dot
    <3>1. DOMAIN n = 1..Len(n) /\ DOMAIN q = 1..Len(q) /\ Len(n) \in Nat /\ Len(a) \in Nat /\ Len(b) \in Nat
      BY <1>8, <2>4, <2>7, <2>8
    <3> QED
      BY <1>9, <2>8, <2>9, <3>1
  <2>11. q[k] = Dot
    BY <1>9, <2>10, DotStays, Zenon
  <2>12. e.ext # <<>> /\ k = Len(e.name) + 1
    BY <1>8, <2>10, <2>11
  <2>13. Len(n) = k + x + 1 /\ Len(q) = k + Len(e.ext)
    <3>1. Len(a) \in Nat /\ Len(e.name) \in Nat /\ Len(e.ext) \in Nat
      BY <1>6, <2>7
    <3>2. Len(n) = Len(a) + 1 + (x + 1)
      BY <2>4, <2>8
    <3>3. Len(q) = Len(e.name) + (1 + Len(e.ext))
      BY <1>8, <2>12
    <3>4. x \in Nat /\ k = Len(a) + 1 /\ k = Len(e.name) + 1
      BY <1>6, <2>9, <2>12
    <3>5. PICK i : i = Len(a)
      OBVIOUS
    <3>6. PICK j : j = Len(e.name)
      OBVIOUS
    <3>7. PICK m : m = Len(e.ext)
      OBVIOUS
    <3>8. /\ i \in Nat /\ j \in Nat /\ m \in Nat /\ x \in Nat /\ k = i + 1 /\ k = j + 1
          /\ Len(n) = i + 1 + (x + 1) /\ Len(q) = j + (1 + m)
      BY <3>1, <3>2, <3>3, <3>4, <3>5, <3>6, <3>7, Zenon
    <3>9. Len(n) = k + x + 1 /\ Len(q) = k + m
      BY <3>8
    <3> QED
      BY <3>7, <3>9
  <2>14. Len(e.ext) \in Nat /\ Len(e.ext) <= x /\ k \in Nat
    BY <1>6, <2>7, <2>9
  <2>15. k + x + 1 = k + Len(e.ext)
    BY <1>9, <2>13
  <2> QED
    BY <1>6, <2>14, <2>15
<1> QED
  BY <1>6, <1>11, <1>12

-----------------------------------------------------------------------------
(* The disk and what is mounted.                                           *)

FileItems == {File(f, chain) : f \in Files, chain \in Seq(Clusters) \ {<<>>}}

\* Unused slots are at the end, and no two files have the same path.
DirectoryIntact ==
    /\ slots \in [Slot -> {Unused, Deleted} \cup FileItems]
    /\ \A s \in Slot : \A r \in 1..(s - 1) : slots[r] = Unused => slots[s] = Unused
    /\ \A r, s \in Live : PathOf(slots[r]) = PathOf(slots[s]) => r = s

\* The directory in memory is that of the disk, and every file of it is counted.
MountIntact ==
    phase = "up" => items = slots /\ total \in Nat /\ total >= Cardinality(Live)

FileIntact == filePos \in Nat

FatInv == DirectoryIntact /\ MountIntact /\ FileIntact

\* The states of items.
LEMMA States ==
    /\ Unused.state = "unused" /\ Deleted.state = "deleted" /\ NoFile.state = "none"
    /\ \A d \in FileItems : d.state = "file"
    /\ Unused # Deleted /\ NoFile \notin FileItems
    /\ \A d \in FileItems : d # Unused /\ d # Deleted
<1>1. Unused.state = "unused" /\ Deleted.state = "deleted" /\ NoFile.state = "none"
  BY DEF Unused, Deleted, NoFile
<1>2. ASSUME NEW d \in FileItems
      PROVE  d.state = "file"
  <2>1. PICK f \in Files, chain \in Seq(Clusters) \ {<<>>} : d = File(f, chain)
    BY DEF FileItems
  <2> QED
    BY <2>1 DEF File
<1> QED
  BY <1>1, <1>2

\* An item has the name of its file.
LEMMA ItemNamed ==
    ASSUME NEW d \in FileItems
    PROVE  Named(d)
<1>1. PICK f \in Files, chain \in Seq(Clusters) \ {<<>>} : d = File(f, chain)
  BY DEF FileItems
<1>2. d.name = f.name /\ d.ext = f.ext
  BY <1>1 DEF File
<1>3. /\ f.name \in Seq(STRING) /\ Len(f.name) \in 1..NameLength
      /\ f.ext \in Seq(STRING) /\ Len(f.ext) \in 0..ExtLength
      /\ \A c \in ToSet(f.name \o f.ext) : c # Dot /\ ~Ends(c)
  BY NamesAssumption, Zenon DEF NamesFit
<1>4. PICK a : a = f.name
  OBVIOUS
<1>5. PICK b : b = f.ext
  OBVIOUS
<1>6. a \in Seq(STRING) /\ b \in Seq(STRING) /\ \A c \in ToSet(a \o b) : c # Dot /\ ~Ends(c)
  BY <1>3, <1>4, <1>5
<1>7. PICK q : q = a \o b
  OBVIOUS
<1>8. /\ q \in Seq(STRING) /\ Len(q) = Len(a) + Len(b)
      /\ \A k \in 1..(Len(a) + Len(b)) : q[k] = IF k <= Len(a) THEN a[k] ELSE b[k - Len(a)]
  BY <1>6, <1>7, ConcatProperties
<1>9. \A k \in 1..Len(q) : q[k] # Dot /\ ~Ends(q[k])
  <2>1. \A k \in 1..Len(q) : q[k] \in ToSet(q)
    BY <1>8 DEF ToSet
  <2> QED
    BY <1>6, <1>7, <2>1
<1>10. \A n \in 1..Len(a) : a[n] # Dot /\ ~Ends(a[n])
  <2>1. \A n \in 1..Len(a) : n \in 1..(Len(a) + Len(b)) /\ n <= Len(a)
    BY <1>6
  <2> QED
    BY <1>8, <1>9, <2>1
<1>11. \A n \in 1..Len(b) : b[n] # Dot /\ ~Ends(b[n])
  <2>1. \A n \in 1..Len(b) : Len(a) + n \in 1..(Len(a) + Len(b)) /\ ~(Len(a) + n <= Len(a)) /\ (Len(a) + n) - Len(a) = n
    BY <1>6
  <2> QED
    BY <1>8, <1>9, <2>1
<1>12. Named(d) <=> /\ d.name \in Seq(STRING) /\ Len(d.name) \in 1..NameLength
                    /\ d.ext \in Seq(STRING) /\ Len(d.ext) \in 0..ExtLength
                    /\ \A n \in 1..Len(d.name) : d.name[n] # Dot /\ ~Ends(d.name[n])
                    /\ \A n \in 1..Len(d.ext) : d.ext[n] # Dot /\ ~Ends(d.ext[n])
  BY DEF Named
<1> QED
  BY <1>2, <1>3, <1>4, <1>5, <1>10, <1>11, <1>12, Zenon

\* An empty disk is intact.
LEMMA IntactInit ==
    ASSUME FatInit
    PROVE  FatInv
<1>1. slots = [s \in Slot |-> Unused] /\ phase = "off" /\ file = NoFile /\ filePos = 0
  BY Zenon DEF FatInit
<1>2. \A s \in Slot : slots[s] = Unused
  BY <1>1
<1>3. DirectoryIntact
  <2>1. Live = {}
    BY <1>2, States, Zenon DEF Live
  <2>2. slots \in [Slot -> {Unused, Deleted} \cup FileItems]
    BY <1>1
  <2> QED
    BY <1>2, <2>1, <2>2 DEF DirectoryIntact
<1>4. MountIntact /\ FileIntact
  BY <1>1 DEF MountIntact, FileIntact
<1> QED
  BY <1>3, <1>4 DEF FatInv

\* The live slots are those with files, and they can be counted.
LEMMA LiveIs ==
    ASSUME DirectoryIntact
    PROVE  /\ RootDirEntries \in Nat \ {0}
           /\ Live \subseteq Slot /\ \A s \in Slot : s \in Live <=> slots[s] \in FileItems
           /\ IsFiniteSet(Live) /\ Cardinality(Live) \in Nat
<1>1. RootDirEntries \in Nat \ {0}
  BY Fat16Assumption DEF Geometry
<1>2. Live \subseteq Slot
  BY DEF Live
<1>3. ASSUME NEW s \in Slot
      PROVE  s \in Live <=> slots[s] \in FileItems
  <2>1. slots[s] \in {Unused, Deleted} \cup FileItems
    BY DEF DirectoryIntact
  <2>2. slots[s].state = "file" <=> slots[s] \in FileItems
    BY <2>1, States
  <2> QED
    BY <2>2 DEF Live
<1>4. IsFiniteSet(Live)
  <2>1. IsFiniteSet(Slot)
    BY <1>1, FS_Interval DEF Slot
  <2> QED
    BY <1>2, <2>1, FS_Subset
<1> QED
  BY <1>1, <1>2, <1>3, <1>4, FS_CardinalityType

-----------------------------------------------------------------------------
(* Opening.                                                                *)

\* Two paths that the same text matches are the same but for capitals.
LEMMA SameMatch ==
    ASSUME NEW d, Named(d), NEW e, Named(e), NEW p,
           istrncmp(PathOf(d), p), istrncmp(PathOf(e), p)
    PROVE  istrncmp(PathOf(d), PathOf(e))
<1>1. PICK a : a = PathOf(d)
  OBVIOUS
<1>2. PICK b : b = PathOf(e)
  OBVIOUS
<1>3. a \in Seq(Chars) /\ b \in Seq(Chars)
  BY <1>1, <1>2, PathIs
<1>4. /\ Len(a) = Len(p) /\ \A k \in DOMAIN a : char_tolower(a[k]) = char_tolower(p[k])
      /\ Len(b) = Len(p) /\ \A k \in DOMAIN b : char_tolower(b[k]) = char_tolower(p[k])
  BY <1>1, <1>2, Zenon DEF istrncmp
<1>5. DOMAIN a = DOMAIN b
  BY <1>3, <1>4
<1>6. istrncmp(a, b)
  BY <1>4, <1>5, Zenon DEF istrncmp
<1> QED
  BY <1>1, <1>2, <1>6

\* The greatest of one.
LEMMA MaxOne ==
    ASSUME NEW n \in Nat
    PROVE  Max({n}) = n
<1>1. n >= n
  OBVIOUS
<1> QED
  BY <1>1, Zenon DEF Max

\* Every set of numbers up to N that is not empty has a greatest one.
LEMMA MaxIs ==
    ASSUME NEW N \in Nat, NEW M \in SUBSET (1..N), M # {}
    PROVE  Max(M) \in M
<1> DEFINE Below == {n \in Nat : \A m \in M : m <= n}
<1>1. N \in Below
  OBVIOUS
<1>2. Below \in SUBSET Nat /\ Below # {}
  BY <1>1
<1>3. M \subseteq Nat \ {0}
  OBVIOUS
<1> HIDE DEF Below
<1>4. PICK n \in Below : \A k \in Below : n <= k
  BY <1>2, LeastElement
<1>5. n \in Nat /\ \A m \in M : m <= n
  BY <1>4 DEF Below
<1>6. n \in M
  <2>1. SUFFICES ASSUME n \notin M
                 PROVE  FALSE
    OBVIOUS
  <2>2. PICK m \in M : TRUE
    OBVIOUS
  <2>3. n - 1 \in Nat /\ \A k \in M : k <= n - 1
    <3>1. \A k \in M : k <= n /\ k # n /\ k \in Nat \ {0}
      BY <1>3, <1>5, <2>1
    <3> QED
      BY <1>5, <2>2, <3>1
  <2>4. n - 1 \in Below
    BY <2>3 DEF Below
  <2> QED
    BY <1>4, <1>5, <2>4
<1>7. \E x \in M : \A y \in M : x >= y
  <2>1. \A y \in M : n >= y
    BY <1>3, <1>5
  <2> QED
    BY <1>6, <2>1
<1> QED
  BY <1>7, Zenon DEF Max

\* As long as the count stays in the blocks of the root directory, what is found is
\* a file of the disk, whatever memory holds behind them.
LEMMA MatchesAre ==
    ASSUME DirectoryIntact, MountIntact, phase = "up", total <= BlockItems, NEW p,
           NEW memory \in [(BlockItems + 1)..total -> {Unused} \cup Debris]
    PROVE  /\ Matches(p, memory) \subseteq Live
           /\ \A s \in Live : s \in Matches(p, memory) <=>
                 s <= total /\ istrncmp(fat16_get_full_relative_filename(slots[s]), p)
           /\ \A s \in Live : ItemAt(s, memory) = slots[s]
<1>1. items = slots /\ total \in Nat /\ BlockItems \in Nat
  BY Fat16Assumption DEF MountIntact, Geometry
<1>2. DOMAIN memory = {}
  BY <1>1
<1>3. \A s \in Slot : ItemAt(s, memory) = slots[s]
  BY <1>1, Zenon DEF ItemAt
<1>4. \A s : s \notin Slot => ItemAt(s, memory) = Unused
  BY <1>2, Zenon DEF ItemAt
<1>5. \A s : s \in Matches(p, memory) <=>
         /\ s \in 1..total /\ ItemAt(s, memory).state = "file"
         /\ istrncmp(fat16_get_full_relative_filename(ItemAt(s, memory)), p)
  BY Zenon DEF Matches
<1>6. \A s \in Slot : s \in 1..total <=> s <= total
  BY <1>1, Fat16Assumption DEF Slot, Geometry
<1>7. Unused.state # "file"
  BY States
<1>8. Live \subseteq Slot /\ \A s \in Slot : s \in Live <=> slots[s].state = "file"
  BY Zenon DEF Live
<1>9. ASSUME NEW s \in Matches(p, memory)
      PROVE  s \in Live
  <2>1. s \in Slot
    BY <1>4, <1>5, <1>7, Zenon
  <2> QED
    BY <1>3, <1>5, <1>8, <2>1, Zenon
<1>10. ASSUME NEW s \in Live
       PROVE  /\ ItemAt(s, memory) = slots[s]
              /\ s \in Matches(p, memory) <=>
                    s <= total /\ istrncmp(fat16_get_full_relative_filename(slots[s]), p)
  <2>1. s \in Slot /\ slots[s].state = "file"
    BY <1>8, Zenon
  <2> QED
    BY <1>3, <1>5, <1>6, <2>1, Zenon
<1> QED
  BY <1>9, <1>10, Zenon

\* What is opened is a match, and so a file of the disk.
LEMMA OpenGivesFile ==
    ASSUME FatInv, NEW path, phase = "up", total <= BlockItems,
           NEW memory \in [(BlockItems + 1)..total -> {Unused} \cup Debris],
           file' = fat16_get_dir_entry(path, memory)
    PROVE  file' # NoFile =>
              /\ ~(Len(path) > 1)
              /\ \E s \in Live : s \in Matches(Head(path), memory) /\ file' = slots[s]
<1> DEFINE M == Matches(Head(path), memory)
<1>1. DirectoryIntact /\ MountIntact /\ total \in Nat
  BY Zenon DEF FatInv, MountIntact
<1>2. M \subseteq Live /\ \A s \in Live : ItemAt(s, memory) = slots[s]
  BY <1>1, MatchesAre, Zenon
<1>3. M \in SUBSET (1..total)
  BY Zenon DEF Matches
<1> SUFFICES ASSUME file' # NoFile
             PROVE  /\ ~(Len(path) > 1)
                    /\ \E s \in Live : s \in M /\ file' = slots[s]
  OBVIOUS
<1>4. M # {} /\ ~(Len(path) > 1) /\ file' = ItemAt(Max(M), memory)
  BY Zenon DEF fat16_get_dir_entry
<1> HIDE DEF M
<1>5. Max(M) \in M
  BY <1>1, <1>3, <1>4, MaxIs
<1> QED
  BY <1>2, <1>4, <1>5

\* Opening a path.
LEMMA OpenStep ==
    ASSUME FatInv, NEW path \in Paths, fat16_open(path), total <= BlockItems
    PROVE  FindsFile(path)
<1>1. /\ DirectoryIntact /\ MountIntact /\ phase = "up"
      /\ items = slots /\ total \in Nat /\ total >= Cardinality(Live)
  BY Zenon DEF FatInv, fat16_open, MountIntact
<1>7. PICK memory \in [(BlockItems + 1)..total -> {Unused} \cup Debris] :
         file' = fat16_get_dir_entry(path, memory)
  BY Zenon DEF fat16_open
<1> DEFINE M == Matches(Head(path), memory)
<1>2. Head(path) = path[1] /\ Len(path) \in Nat \ {0}
  <2>1. path # <<>> /\ path \in Seq(Seq(STRING))
    BY NamesAssumption, Zenon DEF NamesFit
  <2>2. PICK q : q = path
    OBVIOUS
  <2>3. PICK T : T = Seq(STRING)
    OBVIOUS
  <2>4. q # <<>> /\ q \in Seq(T)
    BY <2>1, <2>2, <2>3
  <2>5. Head(q) = q[1] /\ Len(q) \in Nat \ {0}
    BY <2>4
  <2> QED
    BY <2>2, <2>5
<1>3. \A s \in Live : slots[s] \in FileItems /\ Named(slots[s]) /\ s \in Slot
  BY <1>1, LiveIs, ItemNamed
<1>4. /\ M \subseteq Live
      /\ \A s \in Live : s \in M <=>
            s <= total /\ istrncmp(fat16_get_full_relative_filename(slots[s]), path[1])
      /\ \A s \in Live : ItemAt(s, memory) = slots[s]
  BY <1>1, <1>2, MatchesAre, Zenon
<1> HIDE DEF M
<1>5. ASSUME file' # NoFile
      PROVE  /\ Len(path) = 1
             /\ \E s \in Live :
                   file' = slots[s] /\ (ReadsBack(file') => istrncmp(PathOf(file'), path[1]))
  <2>1. ~(Len(path) > 1) /\ \E s \in Live : s \in M /\ file' = slots[s]
    BY <1>1, <1>5, <1>7, OpenGivesFile DEF M
  <2>2. PICK s \in Live : s \in M /\ file' = slots[s]
    BY <2>1
  <2>3. istrncmp(fat16_get_full_relative_filename(slots[s]), path[1])
    BY <1>4, <2>2
  <2>4. ReadsBack(slots[s]) => istrncmp(PathOf(slots[s]), path[1])
    BY <1>3, <2>3, NameReadBack, Zenon
  <2>5. Len(path) = 1
    <3>1. PICK n : n = Len(path)
      OBVIOUS
    <3>2. n \in Nat \ {0} /\ ~(n > 1)
      BY <1>2, <2>1, <3>1
    <3>3. n = 1
      BY <3>2
    <3> QED
      BY <3>1, <3>3
  <2> QED
    BY <2>2, <2>4, <2>5, Zenon
<1>6. ASSUME NEW s \in Live, Len(path) = 1,
             istrncmp(PathOf(slots[s]), path[1]), ReadsBack(slots[s])
      PROVE  /\ file' \in {NoFile, slots[s]}
             /\ (\A r \in 1..(s - 1) : slots[r] # Deleted) => file' = slots[s]
  <2>1. ASSUME NEW r \in M
        PROVE  r = s
    <3>1. /\ r \in Live /\ Named(slots[r]) /\ Named(slots[s]) /\ slots[r] \in FileItems /\ slots[s] \in FileItems
          /\ istrncmp(fat16_get_full_relative_filename(slots[r]), path[1])
      BY <1>3, <1>4
    <3>2. ReadsBack(slots[r])
      BY <1>6, <3>1, NotTakenFor
    <3>3. istrncmp(PathOf(slots[r]), path[1])
      BY <3>1, <3>2, NameReadBack, Zenon
    <3>4. istrncmp(PathOf(slots[r]), PathOf(slots[s]))
      BY <1>6, <3>1, <3>3, SameMatch
    <3>5. PathOf(slots[r]) = PathOf(slots[s])
      <4>1. PICK f \in Files, c \in Seq(Clusters) \ {<<>>} : slots[r] = File(f, c)
        BY <3>1 DEF FileItems
      <4>2. PICK g \in Files, e \in Seq(Clusters) \ {<<>>} : slots[s] = File(g, e)
        BY <3>1 DEF FileItems
      <4>3. PathOf(slots[r]) = PathOf(f)
        <5>1. slots[r].name = f.name /\ slots[r].ext = f.ext
          BY <4>1 DEF File
        <5> QED
          BY <5>1, Zenon DEF PathOf
      <4>4. PathOf(slots[s]) = PathOf(g)
        <5>1. slots[s].name = g.name /\ slots[s].ext = g.ext
          BY <4>2 DEF File
        <5> QED
          BY <5>1, Zenon DEF PathOf
      <4>5. istrncmp(PathOf(f), PathOf(g)) => PathOf(f) = PathOf(g)
        BY NamesAssumption, Zenon DEF NamesFit
      <4> QED
        BY <3>4, <4>3, <4>4, <4>5, Zenon
    <3> QED
      BY <1>1, <3>1, <3>5, Zenon DEF DirectoryIntact
  <2>2. file' \in {NoFile, slots[s]}
    <3>1. CASE file' # NoFile
      <4>1. \E r \in Live : r \in M /\ file' = slots[r]
        BY <1>1, <1>7, <3>1, OpenGivesFile DEF M
      <4> QED
        BY <2>1, <4>1
    <3> QED
      BY <3>1
  <2>3. ASSUME \A r \in 1..(s - 1) : slots[r] # Deleted
        PROVE  file' = slots[s]
    <3>1. s <= total
      <4>1. /\ RootDirEntries \in Nat \ {0} /\ s \in Slot
            /\ Live \subseteq Slot /\ \A r \in Slot : r \in Live <=> slots[r] \in FileItems
            /\ IsFiniteSet(Live) /\ Cardinality(Live) \in Nat
        BY <1>1, <1>3, LiveIs
      <4>2. s \in Nat \ {0} /\ \A r \in 1..(s - 1) : r \in Slot
        BY <4>1 DEF Slot
      <4>3. ASSUME NEW r \in 1..(s - 1)
            PROVE  r \in Live
        <5>1. slots[r] \in {Unused, Deleted} \cup FileItems
          BY <1>1, <4>2 DEF DirectoryIntact
        <5>2. slots[r] # Unused
          <6>1. slots[r] = Unused => slots[s] = Unused
            BY <1>1, <4>1 DEF DirectoryIntact
          <6>2. slots[s] # Unused
            BY <1>3, States
          <6> QED
            BY <6>1, <6>2
        <5> QED
          BY <2>3, <4>1, <4>2, <5>1, <5>2
      <4>4. 1..s \subseteq Live
        BY <4>2, <4>3
      <4>5. Cardinality(1..s) = s
        BY <4>2, FS_Interval
      <4>6. Cardinality(1..s) <= Cardinality(Live)
        BY <4>1, <4>4, FS_Subset
      <4> QED
        BY <1>1, <4>1, <4>2, <4>5, <4>6
    <3>2. s \in M
      <4>1. istrncmp(fat16_get_full_relative_filename(slots[s]), path[1])
        BY <1>3, <1>6, NameReadBack, Zenon
      <4> QED
        BY <1>4, <3>1, <4>1
    <3>3. M = {s}
      BY <2>1, <3>2
    <3>4. s \in Nat
      BY <1>1, <1>3, LiveIs DEF Slot
    <3>5. ~(Len(path) > 1)
      BY <1>6
    <3>6. file' = ItemAt(Max({s}), memory)
      BY <1>7, <3>3, <3>5, Zenon DEF fat16_get_dir_entry, M
    <3> QED
      BY <1>4, <3>4, <3>6, MaxOne
  <2> QED
    BY <2>2, <2>3
<1> QED
  BY <1>5, <1>6, Zenon DEF FindsFile

-----------------------------------------------------------------------------
(* Every step.                                                             *)

\* A new file.
LEMMA ChainsAre ==
    ASSUME NEW chain \in Chains
    PROVE  chain \in Seq(Clusters) \ {<<>>}
<1>1. MaxChain \in Nat
  BY Fat16Assumption DEF Geometry
<1>2. PICK C : C = Clusters \ InUse
  OBVIOUS
<1>3. chain \in BoundedSeq(C, MaxChain) /\ chain # <<>>
  BY <1>2, Zenon DEF Chains
<1>4. chain \in Seq(C)
  BY <1>1, <1>3 DEF BoundedSeq, SeqOf
<1>5. C \subseteq Clusters
  BY <1>2
<1> QED
  BY <1>3, <1>4, <1>5, SeqMonotonic

\* It gets a path of its own, and a slot before the unused ones or the first of them.
LEMMA CreateKeeps ==
    ASSUME FatInv, NEW f \in Files, NEW s \in Slot, Create(f, s)
    PROVE  FatInv'
<1>1. PICK chain \in Chains : slots' = [slots EXCEPT ![s] = File(f, chain)]
  BY Zenon DEF Create
<1>2. /\ phase = "off" /\ phase' = phase /\ file' = file /\ filePos' = filePos
      /\ PathOf(f) \notin Present
      /\ \/ slots[s] = Deleted
         \/ slots[s] = Unused /\ \A r \in 1..(s - 1) : slots[r] # Unused
  BY Zenon DEF Create
<1>3. PICK d : d = File(f, chain)
  OBVIOUS
<1>4. d \in FileItems
  BY <1>3, ChainsAre DEF FileItems
<1>5. /\ slots \in [Slot -> {Unused, Deleted} \cup FileItems]
      /\ \A t \in Slot : \A r \in 1..(t - 1) : slots[r] = Unused => slots[t] = Unused
      /\ \A r, t \in Live : PathOf(slots[r]) = PathOf(slots[t]) => r = t
  BY DEF FatInv, DirectoryIntact
<1>6. /\ slots' \in [Slot -> {Unused, Deleted} \cup FileItems]
      /\ slots'[s] = d /\ \A t \in Slot \ {s} : slots'[t] = slots[t]
  BY <1>1, <1>3, <1>4, <1>5
<1>7. RootDirEntries \in Nat \ {0}
  BY Fat16Assumption DEF Geometry
<1>8. ASSUME NEW t \in Slot, NEW r \in 1..(t - 1), slots'[r] = Unused
      PROVE  slots'[t] = Unused
  <2>1. r \in Slot /\ r < t
    BY <1>7 DEF Slot
  <2>2. r # s
    BY <1>4, <1>6, <1>8, States
  <2>3. slots[r] = Unused /\ slots[t] = Unused
    BY <1>5, <1>6, <1>8, <2>1, <2>2
  <2>4. t # s
    BY <1>2, <2>3, States
  <2> QED
    BY <1>6, <2>3, <2>4
<1>9. /\ \A t \in Slot : t \in Live <=> slots[t].state = "file"
      /\ Live' \subseteq Slot /\ \A t \in Live' : t = s \/ t \in Live
  BY <1>6 DEF Live
<1>10. PathOf(d) = PathOf(f)
  <2>1. d.name = f.name /\ d.ext = f.ext
    BY <1>3 DEF File
  <2> QED
    BY <2>1, Zenon DEF PathOf
<1>11. ASSUME NEW r \in Live', NEW t \in Live', PathOf(slots'[r]) = PathOf(slots'[t])
       PROVE  r = t
  <2>1. \A q \in Live : PathOf(slots[q]) \in Present
    BY DEF Present
  <2>2. CASE r = s /\ t # s
    BY <1>2, <1>6, <1>9, <1>10, <1>11, <2>1, <2>2, Zenon
  <2>3. CASE r # s /\ t = s
    BY <1>2, <1>6, <1>9, <1>10, <1>11, <2>1, <2>3, Zenon
  <2>4. CASE r # s /\ t # s
    <3>1. r \in Live /\ t \in Live /\ slots'[r] = slots[r] /\ slots'[t] = slots[t]
      BY <1>6, <1>9, <2>4
    <3> QED
      BY <1>5, <1>11, <3>1, Zenon
  <2> QED
    BY <2>2, <2>3, <2>4
<1>12. DirectoryIntact'
  BY <1>6, <1>8, <1>11 DEF DirectoryIntact, Slot
<1>13. MountIntact' /\ FileIntact'
  BY <1>2 DEF FatInv, MountIntact, FileIntact
<1> QED
  BY <1>12, <1>13 DEF FatInv

\* A file that is gone.
LEMMA DeleteKeeps ==
    ASSUME FatInv, NEW s \in Slot, Delete(s)
    PROVE  FatInv'
<1>1. /\ slots' = [slots EXCEPT ![s] = Deleted] /\ s \in Live
      /\ phase = "off" /\ phase' = phase /\ file' = file /\ filePos' = filePos
  BY Zenon DEF Delete
<1>2. /\ slots \in [Slot -> {Unused, Deleted} \cup FileItems]
      /\ \A t \in Slot : \A r \in 1..(t - 1) : slots[r] = Unused => slots[t] = Unused
      /\ \A r, t \in Live : PathOf(slots[r]) = PathOf(slots[t]) => r = t
  BY DEF FatInv, DirectoryIntact
<1>3. /\ slots' \in [Slot -> {Unused, Deleted} \cup FileItems]
      /\ slots'[s] = Deleted /\ \A t \in Slot \ {s} : slots'[t] = slots[t]
  BY <1>1, <1>2
<1>4. RootDirEntries \in Nat \ {0}
  BY Fat16Assumption DEF Geometry
<1>5. slots[s] # Unused
  BY <1>1, States, Zenon DEF Live
<1>6. ASSUME NEW t \in Slot, NEW r \in 1..(t - 1), slots'[r] = Unused
      PROVE  slots'[t] = Unused
  <2>1. r \in Slot
    BY <1>4 DEF Slot
  <2>2. r # s
    BY <1>3, <1>6, States
  <2>3. slots[t] = Unused /\ t # s
    BY <1>2, <1>3, <1>5, <1>6, <2>1, <2>2
  <2> QED
    BY <1>3, <2>3
<1>7. s \notin Live' /\ Live' \subseteq Live /\ \A t \in Live' : slots'[t] = slots[t]
  <2>1. s \notin Live'
    BY <1>3, States DEF Live, Deleted
  <2>2. \A t \in Live' : t \in Slot /\ t # s
    BY <2>1 DEF Live
  <2> QED
    BY <1>3, <2>1, <2>2 DEF Live
<1>8. DirectoryIntact'
  BY <1>2, <1>3, <1>6, <1>7 DEF DirectoryIntact, Slot
<1>9. MountIntact' /\ FileIntact'
  BY <1>1 DEF FatInv, MountIntact, FileIntact
<1> QED
  BY <1>8, <1>9 DEF FatInv

\* A step that leaves the disk alone.
LEMMA DirectoryStays ==
    ASSUME DirectoryIntact, slots' = slots
    PROVE  DirectoryIntact' /\ Live' = Live
<1>1. Live' = Live
  BY DEF Live, Slot
<1> QED
  BY <1>1 DEF DirectoryIntact, Slot

\* Mounting reads the whole directory and counts at least its files.
LEMMA ResolveKeeps ==
    ASSUME FatInv, fat16_resolve
    PROVE  FatInv'
<1>1. /\ slots' = slots /\ file' = file /\ filePos' = filePos
      /\ phase' = "up" => items' = slots /\ total' \in fat16_get_total_items_for_directory
  BY Zenon DEF fat16_resolve, disk
<1>2. DirectoryIntact /\ DirectoryIntact' /\ Live' = Live
  BY <1>1, DirectoryStays, Zenon DEF FatInv
<1>3. MountIntact'
  <2> SUFFICES ASSUME phase' = "up"
               PROVE  items' = slots' /\ total' \in Nat /\ total' >= Cardinality(Live')
    BY DEF MountIntact
  <2>1. PICK c : c = Cardinality(Live)
    OBVIOUS
  <2>2. PICK n \in {0} \cup Behind : total' = c + n
    BY <1>1, <2>1 DEF fat16_get_total_items_for_directory
  <2>3. c \in Nat /\ n \in Nat
    BY <1>2, <2>1, LiveIs, Fat16Assumption DEF Geometry
  <2>4. total' \in Nat /\ total' >= c
    BY <2>2, <2>3
  <2> QED
    BY <1>1, <1>2, <2>1, <2>4
<1>4. FileIntact'
  BY <1>1 DEF FatInv, FileIntact
<1> QED
  BY <1>2, <1>3, <1>4 DEF FatInv

\* The disk and the mount stay intact.
LEMMA IntactNext ==
    ASSUME FatInv, [FatNext]_fatVars
    PROVE  FatInv'
<1>1. ASSUME NEW f \in Files, NEW s \in Slot, Create(f, s)
      PROVE  FatInv'
  BY <1>1, CreateKeeps
<1>2. ASSUME NEW s \in Slot, Delete(s)
      PROVE  FatInv'
  BY <1>2, DeleteKeeps
<1>3. CASE PowerOff
  <2>1. slots' = slots /\ phase' = "off" /\ file' = NoFile /\ filePos' = 0
    BY <1>3, Zenon DEF PowerOff, disk
  <2>2. DirectoryIntact'
    BY <2>1, DirectoryStays, Zenon DEF FatInv
  <2>3. MountIntact' /\ FileIntact'
    BY <2>1 DEF MountIntact, FileIntact
  <2> QED
    BY <2>2, <2>3 DEF FatInv
<1>4. CASE fat16_resolve
  BY <1>4, ResolveKeeps
<1>5. ASSUME slots' = slots, phase' = phase, items' = items, total' = total, FileIntact'
      PROVE  FatInv'
  <2>1. DirectoryIntact' /\ Live' = Live
    BY <1>5, DirectoryStays, Zenon DEF FatInv
  <2>2. MountIntact'
    BY <1>5, <2>1 DEF FatInv, MountIntact
  <2> QED
    BY <1>5, <2>1, <2>2 DEF FatInv
<1>6. ASSUME NEW path \in Paths, fat16_open(path)
      PROVE  FatInv'
  <2>1. slots' = slots /\ phase' = phase /\ items' = items /\ total' = total /\ filePos' = 0
    BY <1>6, Zenon DEF fat16_open, disk, mounted
  <2>3. FileIntact'
    BY <2>1 DEF FileIntact
  <2> QED
    BY <1>5, <2>1, <2>3
<1>7. ASSUME NEW offset \in 0..(MaxChain * SizeOfCluster - 1), fat16_seek(offset)
      PROVE  FatInv'
  <2>1. slots' = slots /\ phase' = phase /\ items' = items /\ total' = total /\ filePos' = offset /\ file' = file
    BY <1>7, Zenon DEF fat16_seek, disk, mounted
  <2>2. offset \in Nat
    OBVIOUS
  <2>3. FileIntact'
    BY <2>1, <2>2 DEF FatInv, FileIntact
  <2> QED
    BY <1>5, <2>1, <2>3
<1>8. ASSUME NEW size \in Sizes, NEW nmemb \in Members, fat16_read(size, nmemb)
      PROVE  FatInv'
  <2>1. slots' = slots /\ phase' = phase /\ items' = items /\ total' = total /\ filePos' = filePos /\ file' = file
    BY <1>8, Zenon DEF fat16_read, disk, mounted
  <2>2. FileIntact'
    BY <2>1 DEF FatInv, FileIntact
  <2> QED
    BY <1>5, <2>1, <2>2
<1>9. CASE UNCHANGED fatVars
  <2>1. slots' = slots /\ phase' = phase /\ items' = items /\ total' = total /\ filePos' = filePos /\ file' = file
    BY <1>9, Zenon DEF fatVars, disk, mounted
  <2>2. FileIntact'
    BY <2>1 DEF FatInv, FileIntact
  <2> QED
    BY <1>5, <2>1, <2>2
<1> QED
  BY <1>1, <1>2, <1>3, <1>4, <1>6, <1>7, <1>8, <1>9, Zenon DEF FatNext

\* For every disk, and every history of creating, deleting and mounting, unused slots are
\* at the end, no two files have the same path, and the directory in memory is that of the
\* disk with every file of it counted.
THEOREM DirectoryInvariant == FatSpec => []FatInv
<1>1. FatInit => FatInv
  BY IntactInit
<1>2. FatInv /\ [FatNext]_fatVars => FatInv'
  BY IntactNext
<1> QED
  BY <1>1, <1>2, PTL DEF FatSpec

\* For every disk and every history of it: opening a path (fat16_open) finds the file of
\* that name or none, and the file itself if no deleted slot is before its own.
THEOREM FileOfTheName == FatSpec => OpensFile
<1>1. FatInv => \A path \in Paths : fat16_open(path) /\ total <= BlockItems => FindsFile(path)
  BY OpenStep
<1>2. FatSpec => []FatInv
  BY DirectoryInvariant
<1> QED
  BY <1>1, <1>2, PTL DEF FatSpec, OpensFile

-----------------------------------------------------------------------------
(* Reading a file.                                                         *)

\* A read that fits delivers the bytes of the disk, for FAT16 as for DiskStream.
LEMMA StreamBytesAre ==
    ASSUME SectorSize \in Nat \ {0}, NEW from \in Nat, NEW n \in Nat,
           from % SectorSize = 0 \/ (from % SectorSize) + n <= SectorSize
    PROVE  StreamBytes(from, n) = DiskBytes(from, n)
<1>1. PICK s : s = SectorSize
  OBVIOUS
<1>2. PICK r : r = from % s
  OBVIOUS
<1>3. s \in Nat \ {0} /\ r \in 0..(s - 1)
  BY <1>1, <1>2, QuotientRemainder
<1>4. ASSUME NEW k \in 1..n
      PROVE  r + ((k - 1) % s) < s
  <2>1. k - 1 \in Nat /\ k - 1 < n
    OBVIOUS
  <2>2. (k - 1) % s \in 0..(s - 1)
    BY <1>3, <2>1, QuotientRemainder
  <2>3. CASE r = 0
    BY <1>3, <2>2, <2>3
  <2>4. CASE r + n <= s
    <3>1. k - 1 \in 0..(s - 1) /\ k - 1 = s * 0 + (k - 1)
      BY <1>3, <2>1, <2>4
    <3>2. (k - 1) % s = k - 1
      BY <1>3, <2>1, <3>1, QuotientUnique
    <3> QED
      BY <1>3, <2>1, <2>4, <3>2
  <2> QED
    BY <1>1, <1>2, <2>3, <2>4
<1> QED
  BY <1>1, <1>2, <1>4, Zenon DEF StreamBytes, DiskBytes

\* The walk along the chain does not leave the first cluster.
LEMMA FirstCluster ==
    ASSUME SizeOfCluster \in Nat \ {0}, NEW start, NEW offset \in Nat, offset < SizeOfCluster
    PROVE  fat16_get_cluster_for_offset(start, offset) = start
<1> DEFINE ahead == offset \div SizeOfCluster
           Body(h) == [n \in 0..ahead |->
                         IF n = 0 THEN start
                         ELSE IF h[n - 1] = EIO \/ fat16_get_fat_entry(h[n - 1]) \in Refused THEN EIO
                         ELSE fat16_get_fat_entry(h[n - 1])]
           walk == CHOOSE h : h = Body(h)
<1>1. PICK c : c = SizeOfCluster
  OBVIOUS
<1>2. c \in Nat \ {0} /\ offset \in 0..(c - 1) /\ offset = c * 0 + offset
  BY <1>1
<1>3. ahead = 0
  BY <1>1, <1>2, QuotientUnique
<1>4. fat16_get_cluster_for_offset(start, offset) = walk[ahead]
  BY DEF fat16_get_cluster_for_offset
<1>5. \E h : h = Body(h)
  <2> DEFINE g == [n \in 0..ahead |-> start]
  <2> HIDE DEF ahead
  <2>1. \A n \in 0..ahead : n = 0
    BY <1>3
  <2>2. g = Body(g)
    BY <2>1
  <2> QED
    BY <2>2, Zenon
<1>6. walk = Body(walk)
  <2> HIDE DEF Body
  <2> QED
    BY <1>5
<1> HIDE DEF walk, ahead
<1>7. walk[0] = start
  <2>1. 0 \in 0..ahead
    BY <1>3
  <2> QED
    BY <1>6, <2>1
<1> QED
  BY <1>3, <1>4, <1>7

\* One round reads all that is asked for.
LEMMA OneRound ==
    ASSUME SizeOfCluster \in Nat \ {0}, NEW start \in Nat, NEW offset \in Nat, NEW count \in Nat \ {0},
           offset + count <= SizeOfCluster
    PROVE  fat16_read_internal(start, offset, count) =
              [bytes |-> StreamBytes(fat16_cluster_to_sector(start) * SectorSize + offset, count),
               failed |-> FALSE]
<1>1. PICK c : c = SizeOfCluster
  OBVIOUS
<1> DEFINE rounds == (count + c - 1) \div c
           Body(h) == [r \in 0..rounds |->
                         IF r = 0 THEN Nothing ELSE ReadRound(start, offset, count, h[r - 1])]
           got == CHOOSE h : h = Body(h)
<1>2. c \in Nat \ {0} /\ offset + count <= c
  BY <1>1
<1>3. rounds = 1
  <2>1. count + c - 1 = c * 1 + (count - 1) /\ count - 1 \in 0..(c - 1) /\ count + c - 1 \in Nat
    BY <1>2
  <2> QED
    BY <1>2, <2>1, QuotientUnique
<1>4. fat16_read_internal(start, offset, count) = got[rounds]
  BY <1>1, Zenon DEF fat16_read_internal
<1> HIDE DEF rounds
<1>5. \E h : h = Body(h)
  <2> DEFINE g == [r \in 0..rounds |->
                     IF r = 0 THEN Nothing ELSE ReadRound(start, offset, count, Nothing)]
  <2>1. \A r \in 0..rounds : r # 0 => r - 1 = 0
    BY <1>3
  <2>2. g[0] = Nothing
    BY <1>3
  <2>3. Body(g) = [r \in 0..rounds |->
                     IF r = 0 THEN Nothing ELSE ReadRound(start, offset, count, g[r - 1])]
    OBVIOUS
  <2>4. \A r \in 0..rounds : r # 0 => g[r - 1] = Nothing
    <3> HIDE DEF g
    <3> QED
      BY <2>1, <2>2
  <2> HIDE DEF Body
  <2>5. g = Body(g)
    BY <2>3, <2>4, Zenon
  <2> QED
    BY <2>5
<1>6. got = Body(got)
  <2> HIDE DEF Body
  <2> QED
    BY <1>5
<1> HIDE DEF got
<1>7. got[0] = Nothing /\ got[1] = ReadRound(start, offset, count, Nothing)
  <2>1. 0 \in 0..rounds /\ 1 \in 0..rounds /\ 1 # 0 /\ 1 - 1 = 0
    BY <1>3
  <2> QED
    BY <1>6, <2>1
<1>8. Len(Nothing.bytes) = 0 /\ Nothing.failed = FALSE /\ Nothing.bytes = <<>>
  BY DEF Nothing
<1>9. fat16_get_cluster_for_offset(start, offset) = start /\ offset + 0 = offset /\ count - 0 = count
  BY <1>1, <1>2, FirstCluster
<1>10. start # EIO
  BY DEF EIO
<1>11. offset % c = offset
  <2>1. offset \in 0..(c - 1) /\ offset = c * 0 + offset
    BY <1>2
  <2> QED
    BY <1>2, <2>1, QuotientUnique
<1>12. Min({count, c}) = count
  <2>1. count <= count /\ count <= c /\ (c <= count => c = count)
    BY <1>2
  <2>2. \A x \in {count, c} : (\A y \in {count, c} : x <= y) => x = count
    BY <2>1
  <2>3. count \in {count, c} /\ \A y \in {count, c} : count <= y
    BY <2>1
  <2> QED
    BY <2>2, <2>3 DEF Min
<1>13. PICK b : b = StreamBytes(fat16_cluster_to_sector(start) * SectorSize + offset, count)
  OBVIOUS
<1>14. ReadRound(start, offset, count, Nothing) = [bytes |-> Nothing.bytes \o b, failed |-> FALSE]
  BY <1>1, <1>8, <1>9, <1>10, <1>11, <1>12, <1>13, Zenon DEF ReadRound
<1>15. <<>> \o b = b
  <2>1. b = [k \in 1..count |-> b[k]] /\ count \in Nat
    BY <1>13 DEF StreamBytes
  <2>2. b \in Seq({b[k] : k \in 1..count})
    BY <2>1
  <2> QED
    BY <2>2, ConcatEmptySeq
<1>16. ReadRound(start, offset, count, Nothing) = [bytes |-> b, failed |-> FALSE]
  BY <1>8, <1>14, <1>15, Zenon
<1> QED
  BY <1>3, <1>4, <1>7, <1>13, <1>16, Zenon

\* No round reads nothing.
LEMMA NoRound ==
    ASSUME SizeOfCluster \in Nat \ {0}, NEW start, NEW offset
    PROVE  fat16_read_internal(start, offset, 0) = Nothing
<1>1. PICK c : c = SizeOfCluster
  OBVIOUS
<1> DEFINE rounds == (0 + c - 1) \div c
           Body(h) == [r \in 0..rounds |->
                         IF r = 0 THEN Nothing ELSE ReadRound(start, offset, 0, h[r - 1])]
           got == CHOOSE h : h = Body(h)
<1>2. rounds = 0
  <2>1. c \in Nat \ {0} /\ 0 + c - 1 = c * 0 + (c - 1) /\ c - 1 \in 0..(c - 1) /\ 0 + c - 1 \in Nat
    BY <1>1
  <2> QED
    BY <2>1, QuotientUnique
<1>3. fat16_read_internal(start, offset, 0) = got[rounds]
  BY <1>1, Zenon DEF fat16_read_internal
<1> HIDE DEF rounds
<1>4. \E h : h = Body(h)
  <2> DEFINE g == [r \in 0..rounds |-> Nothing]
  <2>1. \A r \in 0..rounds : r = 0
    BY <1>2
  <2>2. g = Body(g)
    BY <2>1
  <2> QED
    BY <2>2, Zenon
<1>5. got = Body(got)
  <2> HIDE DEF Body
  <2> QED
    BY <1>4
<1> HIDE DEF got
<1>6. got[0] = Nothing
  <2>1. 0 \in 0..rounds
    BY <1>2
  <2> QED
    BY <1>5, <2>1
<1> QED
  BY <1>2, <1>3, <1>6

\* A product of naturals is one.
LEMMA ProductNat == \A m, n \in Nat : m * n \in Nat
  OBVIOUS

\* The layout that the code computes in sectors is that of FAT16 in bytes.
LEMMA ClusterPosition ==
    ASSUME NEW c \in Clusters
    PROVE  /\ SizeOfCluster \in Nat \ {0} /\ c \in Nat
           /\ \E x \in Nat :
                 /\ fat16_cluster_to_sector(c) = x
                 /\ x * SectorSize = (ReservedSectors + FATCopies * SectorsPerFAT) * SectorSize
                                      + RootDirEntries * ItemSize + (c - 2) * SizeOfCluster
<1>1. PICK s : s = SectorSize
  OBVIOUS
<1>2. PICK p : p = SectorsPerCluster
  OBVIOUS
<1>3. PICK f : f = FATCopies * SectorsPerFAT
  OBVIOUS
<1>4. PICK r : r = ReservedSectors
  OBVIOUS
<1>5. PICK i : i = RootDirEntries * ItemSize
  OBVIOUS
<1>6. s \in Nat \ {0} /\ p \in Nat \ {0} /\ r \in Nat /\ f \in Nat /\ i \in Nat /\ i % s = 0
  <2>1. /\ SectorSize \in Nat \ {0} /\ SectorsPerCluster \in Nat \ {0} /\ ReservedSectors \in Nat \ {0}
        /\ FATCopies \in Nat \ {0} /\ SectorsPerFAT \in Nat \ {0} /\ RootDirEntries \in Nat \ {0}
        /\ ItemSize \in Nat \ {0} /\ (RootDirEntries * ItemSize) % SectorSize = 0
    BY Fat16Assumption DEF Geometry
  <2> QED
    BY <1>1, <1>2, <1>3, <1>4, <1>5, <2>1, ProductNat
<1>7. c \in Nat /\ c - 2 \in Nat
  BY Fat16Assumption DEF Geometry
<1>8. PICK d : d = c - 2
  OBVIOUS
<1>9. PICK q : q = i \div s
  OBVIOUS
<1>10. q \in Nat /\ i = s * q
  <2>1. i \div s \in Nat /\ i % s \in Nat /\ i = s * (i \div s) + (i % s)
    BY <1>6, QuotientRemainder
  <2>2. s * (i \div s) \in Nat
    BY <1>6, <2>1, ProductNat
  <2> QED
    BY <1>6, <1>9, <2>1, <2>2
<1>11. SizeOfCluster = p * s
  BY <1>1, <1>2 DEF SizeOfCluster
<1>12. fat16_cluster_to_sector(c) = f + r + q + d * p
  BY <1>1, <1>2, <1>3, <1>4, <1>5, <1>8, <1>9, Zenon
     DEF fat16_cluster_to_sector, ending_sector_pos, root_dir_sector_pos
<1>13. d \in Nat /\ d * p \in Nat /\ p * s \in Nat \ {0}
  <2>1. p * s > 0
    BY <1>6
  <2> QED
    BY <1>6, <1>7, <1>8, <2>1, ProductNat
<1>14. (f + r + q + d * p) * s = (r + f) * s + i + d * (p * s)
  <2>1. (f + r + q + d * p) * s = f * s + r * s + q * s + (d * p) * s
    BY <1>6, <1>10, <1>13
  <2>2. (d * p) * s = d * (p * s)
    BY <1>6, <1>13
  <2>3. (r + f) * s = r * s + f * s
    BY <1>6
  <2>4. q * s = i
    BY <1>6, <1>10
  <2>5. f * s \in Nat /\ r * s \in Nat /\ d * (p * s) \in Nat
    BY <1>6, <1>13, ProductNat
  <2> QED
    BY <1>6, <2>1, <2>2, <2>3, <2>4, <2>5
<1> DEFINE x == f + r + q + d * p
<1>15. x \in Nat
  BY <1>6, <1>10, <1>13
<1> HIDE DEF x
<1>16. fat16_cluster_to_sector(c) = x
  BY <1>12 DEF x
<1>17. x * SectorSize = (ReservedSectors + FATCopies * SectorsPerFAT) * SectorSize
                         + RootDirEntries * ItemSize + (c - 2) * SizeOfCluster
  <2>1. x * s = (r + f) * s + i + d * (p * s)
    BY <1>14 DEF x
  <2> QED
    BY <1>1, <1>3, <1>4, <1>5, <1>8, <1>11, <2>1, Zenon
<1> QED
  BY <1>7, <1>11, <1>13, <1>15, <1>16, <1>17

\* The bytes of a file up to the end of its first cluster lie one behind the other.
LEMMA ByteOfFirstCluster ==
    ASSUME SizeOfCluster \in Nat \ {0}, NEW d, NEW k \in Nat, k < SizeOfCluster
    PROVE  ByteOf(d, k) = (ReservedSectors + FATCopies * SectorsPerFAT) * SectorSize
                              + RootDirEntries * ItemSize + (d.chain[1] - 2) * SizeOfCluster + k
<1>1. PICK c : c = SizeOfCluster
  OBVIOUS
<1>2. c \in Nat \ {0} /\ k \in 0..(c - 1) /\ k = c * 0 + k
  BY <1>1
<1>3. k \div c = 0 /\ k % c = k /\ 0 + 1 = 1
  BY <1>2, QuotientUnique
<1> QED
  BY <1>1, <1>3, Zenon DEF ByteOf

\* One member, read from a place of the first cluster that suits it.
LEMMA MemberBytes ==
    ASSUME NEW d \in FileItems, NEW offset \in Nat, NEW size \in Nat,
           offset + size <= SizeOfCluster,
           offset % SectorSize = 0 \/ (offset % SectorSize) + size <= SectorSize
    PROVE  fat16_read_internal(Head(d.chain), offset, size) =
              [bytes |-> [k \in 1..size |-> ByteOf(d, offset + k - 1)], failed |-> FALSE]
<1>1. PICK c : c = d.chain[1]
  OBVIOUS
<1>2. Head(d.chain) = c /\ c \in Clusters
  <2>1. PICK f \in Files, chain \in Seq(Clusters) \ {<<>>} : d = File(f, chain)
    BY DEF FileItems
  <2>2. d.chain = chain
    BY <2>1 DEF File
  <2>3. Head(chain) = chain[1] /\ chain[1] \in Clusters
    OBVIOUS
  <2> QED
    BY <1>1, <2>2, <2>3
<1>3. PICK z : z = SizeOfCluster
  OBVIOUS
<1>4. PICK s : s = SectorSize
  OBVIOUS
<1>5. PICK start : start = (ReservedSectors + FATCopies * SectorsPerFAT) * SectorSize
                           + RootDirEntries * ItemSize + (c - 2) * SizeOfCluster
  OBVIOUS
<1>6. z \in Nat \ {0} /\ c \in Nat /\ \E y \in Nat : fat16_cluster_to_sector(c) = y /\ y * s = start
  BY <1>2, <1>3, <1>4, <1>5, ClusterPosition
<1>7. PICK x \in Nat : fat16_cluster_to_sector(c) = x /\ x * s = start
  BY <1>6
<1>8. s \in Nat \ {0}
  BY <1>4, Fat16Assumption DEF Geometry
<1>9. start \in Nat
  BY <1>7, <1>8, ProductNat
<1>10. ASSUME NEW k \in 1..size
       PROVE  ByteOf(d, offset + k - 1) = start + offset + k - 1
  <2>1. offset + k - 1 \in Nat /\ offset + k - 1 < z
    BY <1>3, <1>6
  <2>2. PICK n : n = offset + k - 1
    OBVIOUS
  <2>3. ByteOf(d, n) = start + n
    BY <1>1, <1>3, <1>5, <1>6, <2>1, <2>2, ByteOfFirstCluster
  <2> QED
    BY <1>9, <2>2, <2>3
<1>11. CASE size = 0
  <2>1. fat16_read_internal(Head(d.chain), offset, size) = Nothing
    BY <1>3, <1>6, <1>11, NoRound
  <2>2. [k \in 1..size |-> ByteOf(d, offset + k - 1)] = <<>>
    BY <1>11
  <2> QED
    BY <2>1, <2>2, Zenon DEF Nothing
<1>12. CASE size # 0
  <2>1. fat16_read_internal(c, offset, size) =
           [bytes |-> StreamBytes(x * s + offset, size), failed |-> FALSE]
    BY <1>3, <1>4, <1>6, <1>7, <1>12, OneRound
  <2>2. PICK from : from = start + offset
    OBVIOUS
  <2>3. from \in Nat /\ from % s = offset % s
    <3>1. PICK q : q = offset \div s
      OBVIOUS
    <3>2. PICK r : r = offset % s
      OBVIOUS
    <3>3. q \in Nat /\ r \in 0..(s - 1) /\ offset = s * q + r
      BY <1>8, <3>1, <3>2, QuotientRemainder
    <3>4. from = s * (x + q) + r
      <4>1. s * (x + q) = x * s + s * q
        BY <1>7, <1>8, <3>3
      <4>2. x * s \in Nat /\ s * q \in Nat
        BY <1>7, <1>8, <3>3, ProductNat
      <4> QED
        BY <1>7, <2>2, <3>3, <4>1, <4>2
    <3>5. from \in Nat /\ x + q \in Nat
      BY <1>7, <1>9, <2>2, <3>3
    <3> QED
      BY <1>8, <3>2, <3>3, <3>4, <3>5, QuotientUnique
  <2>4. StreamBytes(from, size) = DiskBytes(from, size)
    BY <1>4, <1>8, <2>3, StreamBytesAre
  <2>5. DiskBytes(from, size) = [k \in 1..size |-> ByteOf(d, offset + k - 1)]
    <3>1. \A k \in 1..size : from + k - 1 = ByteOf(d, offset + k - 1)
      BY <1>10, <2>2
    <3> QED
      BY <3>1 DEF DiskBytes
  <2> QED
    BY <1>2, <1>7, <2>1, <2>2, <2>4, <2>5, Zenon
<1> QED
  BY <1>11, <1>12

\* Bytes of a file behind bytes of it.
LEMMA BytesJoin ==
    ASSUME NEW d, NEW from \in Nat, NEW a \in Nat, NEW b \in Nat
    PROVE  [k \in 1..a |-> ByteOf(d, from + k - 1)] \o [k \in 1..b |-> ByteOf(d, from + a + k - 1)]
              = [k \in 1..(a + b) |-> ByteOf(d, from + k - 1)]
<1> DEFINE x == [k \in 1..a |-> ByteOf(d, from + k - 1)]
           y == [k \in 1..b |-> ByteOf(d, from + a + k - 1)]
           z == [k \in 1..(a + b) |-> ByteOf(d, from + k - 1)]
           S == {ByteOf(d, n) : n \in Nat}
<1>1. /\ \A k \in 1..a : from + k - 1 \in Nat
      /\ \A k \in 1..b : from + a + k - 1 \in Nat
      /\ \A k \in 1..(a + b) : from + k - 1 \in Nat
  OBVIOUS
<1>2. x \in Seq(S) /\ Len(x) = a /\ \A k \in 1..a : x[k] = ByteOf(d, from + k - 1)
  <2>1. \A k \in 1..a : ByteOf(d, from + k - 1) \in S
    BY <1>1
  <2> HIDE DEF S
  <2> QED
    BY <2>1
<1>3. y \in Seq(S) /\ Len(y) = b /\ \A k \in 1..b : y[k] = ByteOf(d, from + a + k - 1)
  <2>1. \A k \in 1..b : ByteOf(d, from + a + k - 1) \in S
    BY <1>1
  <2> HIDE DEF S
  <2> QED
    BY <2>1
<1>4. z \in Seq(S) /\ Len(z) = a + b /\ \A k \in 1..(a + b) : z[k] = ByteOf(d, from + k - 1)
  <2>1. \A k \in 1..(a + b) : ByteOf(d, from + k - 1) \in S
    BY <1>1
  <2>2. a + b \in Nat
    OBVIOUS
  <2> HIDE DEF S
  <2> QED
    BY <2>1, <2>2
<1> HIDE DEF x, y, z, S
<1>5. /\ x \o y \in Seq(S) /\ Len(x \o y) = a + b
      /\ \A k \in 1..(a + b) : (x \o y)[k] = IF k <= a THEN x[k] ELSE y[k - a]
  BY <1>2, <1>3, ConcatProperties
<1>6. ASSUME NEW k \in 1..(a + b)
      PROVE  (x \o y)[k] = z[k]
  <2>1. CASE k <= a
    <3>1. k \in 1..a
      BY <2>1
    <3> QED
      BY <1>2, <1>4, <1>5, <2>1, <3>1
  <2>2. CASE ~(k <= a)
    <3>1. k - a \in 1..b /\ from + a + (k - a) - 1 = from + k - 1
      BY <2>2
    <3> QED
      BY <1>3, <1>4, <1>5, <2>2, <3>1
  <2> QED
    BY <2>1, <2>2
<1>7. x \o y = z
  <2>1. \A k \in 1..Len(x \o y) : (x \o y)[k] = z[k]
    BY <1>5, <1>6
  <2> QED
    BY <1>4, <1>5, <2>1, SeqEqual
<1> QED
  BY <1>7 DEF x, y, z

\* What the members before the m-th have delivered.
MembersRead(d, from, size, m) ==
    [bytes |-> [k \in 1..(m * size) |-> ByteOf(d, from + k - 1)], failed |-> FALSE]

\* Every member goes on where the one before has ended.
LEMMA NextMember ==
    ASSUME NEW d \in FileItems, NEW from \in Nat, NEW size \in Nat, NEW n \in Nat, NEW m \in 0..(n - 1),
           from + size * n <= SizeOfCluster,
           LET offset == (from + m * size) % SectorSize
           IN  offset = 0 \/ offset + size <= SectorSize
    PROVE  ReadMember(d, from, size, MembersRead(d, from, size, m)) = MembersRead(d, from, size, m + 1)
<1>1. PICK a : a = m * size
  OBVIOUS
<1>2. m \in Nat /\ m + 1 <= n
  OBVIOUS
<1>3. a \in Nat /\ (m + 1) * size = a + size /\ from + a + size <= SizeOfCluster
  <2>1. PICK z : z = SizeOfCluster
    OBVIOUS
  <2>2. z \in Nat
    <3>1. SectorsPerCluster \in Nat /\ SectorSize \in Nat
      BY Fat16Assumption DEF Geometry
    <3> QED
      BY <2>1, <3>1, ProductNat DEF SizeOfCluster
  <2>3. a \in Nat
    BY <1>1, <1>2, ProductNat
  <2>4. (m + 1) * size = a + size
    BY <1>1, <1>2
  <2>5. (m + 1) * size <= size * n
    <3>1. PICK r \in Nat : n = (m + 1) + r
      <4>1. n - (m + 1) \in Nat /\ n = (m + 1) + (n - (m + 1))
        BY <1>2
      <4> QED
        BY <4>1
    <3>2. size * n = (m + 1) * size + size * r
      BY <1>2, <3>1
    <3>3. size * r \in Nat /\ (m + 1) * size \in Nat
      BY <1>2, ProductNat
    <3> QED
      BY <3>2, <3>3
  <2>6. size * n \in Nat
    BY ProductNat
  <2>7. PICK t : t = size * n
    OBVIOUS
  <2>8. a + size <= t /\ t \in Nat /\ from + t <= z
    BY <2>1, <2>4, <2>5, <2>6, <2>7
  <2> QED
    BY <2>1, <2>2, <2>3, <2>4, <2>8
<1> DEFINE x == [k \in 1..a |-> ByteOf(d, from + k - 1)]
           y == [k \in 1..size |-> ByteOf(d, from + a + k - 1)]
<1>4. MembersRead(d, from, size, m) = [bytes |-> x, failed |-> FALSE]
  BY <1>1 DEF MembersRead
<1>5. Len(x) = a
  BY <1>3
<1>6. fat16_read_internal(Head(d.chain), from + a, size) = [bytes |-> y, failed |-> FALSE]
  <2>1. PICK o : o = from + a
    OBVIOUS
  <2>2. o \in Nat /\ o + size <= SizeOfCluster
    BY <1>3, <2>1
  <2>3. o % SectorSize = 0 \/ (o % SectorSize) + size <= SectorSize
    BY <1>1, <2>1
  <2>4. fat16_read_internal(Head(d.chain), o, size) =
           [bytes |-> [k \in 1..size |-> ByteOf(d, o + k - 1)], failed |-> FALSE]
    BY <2>2, <2>3, MemberBytes
  <2> QED
    BY <2>1, <2>4, Zenon
<1>7. x \o y = [k \in 1..(a + size) |-> ByteOf(d, from + k - 1)]
  BY <1>3, BytesJoin
<1> HIDE DEF x, y
<1>8. ReadMember(d, from, size, [bytes |-> x, failed |-> FALSE]) = [bytes |-> x \o y, failed |-> FALSE]
  <2>1. PICK g : g = [bytes |-> x, failed |-> FALSE]
    OBVIOUS
  <2>2. g.bytes = x /\ g.failed = FALSE
    BY <2>1
  <2>3. PICK h : h = [bytes |-> y, failed |-> FALSE]
    OBVIOUS
  <2>4. h.bytes = y /\ h.failed = FALSE
    BY <2>3
  <2>5. ReadMember(d, from, size, g) = [bytes |-> x \o y, failed |-> FALSE]
    BY <1>5, <1>6, <2>2, <2>3, <2>4, Zenon DEF ReadMember
  <2> QED
    BY <2>1, <2>5
<1>9. MembersRead(d, from, size, m + 1) = [bytes |-> x \o y, failed |-> FALSE]
  BY <1>3, <1>7, Zenon DEF MembersRead
<1> QED
  BY <1>4, <1>8, <1>9, Zenon

\* Reading delivers the bytes of the file.
LEMMA ReadGivesBytes ==
    ASSUME FatInv, NEW size \in Sizes, NEW nmemb \in Members,
           OnDisk, fat16_read(size, nmemb), InSectors(size, nmemb), filePos + size * nmemb <= SizeOfCluster
    PROVE  delivered' = FileBytes(size * nmemb)
<1>1. size \in Nat /\ nmemb \in Nat
  BY Fat16Assumption DEF Geometry
<1>2. file \in FileItems /\ filePos \in Nat
  <2>1. file \in FileItems
    BY LiveIs, Zenon DEF FatInv, OnDisk
  <2> QED
    BY <2>1, Zenon DEF FatInv, FileIntact
<1> DEFINE Body(h) == [m \in 0..nmemb |->
                         IF m = 0 THEN Nothing ELSE ReadMember(file, filePos, size, h[m - 1])]
           got == CHOOSE h : h = Body(h)
           Right(m) == MembersRead(file, filePos, size, m)
<1>3. delivered' = got[nmemb].bytes
  BY DEF fat16_read
<1>4. Right(0) = Nothing
  <2>1. 0 * size = 0
    BY <1>1
  <2>2. [k \in 1..0 |-> ByteOf(file, filePos + k - 1)] = <<>>
    OBVIOUS
  <2> QED
    BY <2>1, <2>2, Zenon DEF MembersRead, Nothing
<1>5. ASSUME NEW m \in 0..nmemb, m # 0
      PROVE  m - 1 \in 0..nmemb /\ ReadMember(file, filePos, size, Right(m - 1)) = Right(m)
  <2>1. PICK n : n = m - 1
    OBVIOUS
  <2>2. n \in 0..(nmemb - 1) /\ n + 1 = m /\ n \in 0..nmemb
    BY <1>1, <1>5, <2>1
  <2>3. LET offset == (filePos + n * size) % SectorSize
        IN  offset = 0 \/ offset + size <= SectorSize
    BY <2>2, Zenon DEF InSectors
  <2>4. ReadMember(file, filePos, size, Right(n)) = Right(n + 1)
    BY <1>1, <1>2, <2>2, <2>3, NextMember
  <2> QED
    BY <2>1, <2>2, <2>4, Zenon
<1>6. \E h : h = Body(h)
  <2> DEFINE g == [m \in 0..nmemb |-> Right(m)]
  <2> HIDE DEF Right
  <2>1. \A m \in 0..nmemb : g[m] = Right(m)
    OBVIOUS
  <2> HIDE DEF g
  <2>2. \A m \in 0..nmemb :
           Right(m) = IF m = 0 THEN Nothing ELSE ReadMember(file, filePos, size, g[m - 1])
    BY <1>4, <1>5, <2>1
  <2>3. Body(g) = [m \in 0..nmemb |-> Right(m)]
    BY <2>2, Zenon
  <2> HIDE DEF Body
  <2>4. g = Body(g)
    BY <2>3 DEF g
  <2> QED
    BY <2>4
<1>7. got = Body(got)
  <2> HIDE DEF Body
  <2> QED
    BY <1>6
<1> HIDE DEF got, Right
<1>8. \A m \in 0..nmemb :
         got[m] = IF m = 0 THEN Nothing ELSE ReadMember(file, filePos, size, got[m - 1])
  BY <1>7
<1> DEFINE Done == {m \in Nat : m <= nmemb => got[m] = Right(m)}
<1>9. 0 \in Done
  BY <1>1, <1>4, <1>8
<1>10. ASSUME NEW m \in Done
       PROVE  m + 1 \in Done
  <2>1. ASSUME m + 1 <= nmemb
        PROVE  got[m + 1] = Right(m + 1)
    <3>1. m \in Nat /\ m + 1 \in 0..nmemb /\ m + 1 # 0 /\ (m + 1) - 1 = m /\ m <= nmemb
      BY <1>1, <2>1
    <3>2. got[m] = Right(m)
      BY <3>1
    <3> QED
      BY <1>5, <1>8, <3>1, <3>2
  <2> QED
    BY <2>1
<1>11. nmemb \in Done
  <2>1. Done \in SUBSET Nat
    OBVIOUS
  <2> HIDE DEF Done
  <2> QED
    BY <1>1, <1>9, <1>10, <2>1, SetInduction
<1>12. got[nmemb] = Right(nmemb)
  BY <1>1, <1>11
<1>13. nmemb * size = size * nmemb
  BY <1>1
<1>14. Right(nmemb).bytes = [k \in 1..(nmemb * size) |-> ByteOf(file, filePos + k - 1)]
  BY DEF Right, MembersRead
<1> QED
  BY <1>3, <1>12, <1>13, <1>14, Zenon DEF FileBytes

\* For every disk: fread delivers exactly the bytes of the open file by the layout of FAT16,
\* as far as its first cluster goes and every member fits its sectors.
THEOREM ReadsTheFile == FatSpec => ReadsFile
<1>1. FatInv => \A size \in Sizes, nmemb \in Members :
         /\ OnDisk /\ fat16_read(size, nmemb)
         /\ InSectors(size, nmemb) /\ filePos + size * nmemb <= SizeOfCluster
         => delivered' = FileBytes(size * nmemb)
  BY ReadGivesBytes
<1>2. FatSpec => []FatInv
  BY DirectoryInvariant
<1> QED
  BY <1>1, <1>2, PTL DEF FatSpec, ReadsFile
=============================================================================
