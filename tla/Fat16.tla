------------------------------- MODULE Fat16 -------------------------------
(***************************************************************************)
(* The file system of src/fs/fat/fat16.c from mounting a disk to reading a *)
(* file: the scan of the root directory, the search for a name, the walk   *)
(* along the cluster chain and the cutting of reads into clusters.  While  *)
(* the machine is off another system writes to the disk: it creates files  *)
(* in unused slots of the root directory and marks the slots of deleted    *)
(* ones.  MystOS itself never writes.                                      *)
(*                                                                         *)
(* Positions on the disk are bytes, and a byte is named by its position.   *)
(* A stream read delivers what DiskStream says it does.  A name is the     *)
(* bytes of its directory item, as far as the code reads them.             *)
(*                                                                         *)
(* DiskProofs extends this module and DiskStream together, so the two have *)
(* no names in common.                                                     *)
(***************************************************************************)
EXTENDS Integers, FiniteSetsExt, SequencesExt

CONSTANTS
    SectorSize,         \* disk->sector_size
    SectorsPerCluster, ReservedSectors, FATCopies, SectorsPerFAT, RootDirEntries,
    ItemSize,           \* sizeof(struct fat_directory_item)
    Clusters,           \* the data clusters of the disk
    NameLength, ExtLength,  \* the fields filename and ext of an item, 8 and 3
    Zero,               \* the byte 0
    lower,              \* the small letter of each letter
    Files,              \* name, extension and attribute of the files of the disk
    Paths,              \* the paths that are opened, parts of characters
    MaxChain,           \* bound on the clusters of a file
    Sizes, Members,    \* the arguments size and nmemb of fread
    Words,              \* what two bytes outside of the FATs may hold
    BlockItems,         \* the items that fit into the heap blocks of the root directory
    Behind,             \* the items that may be counted behind a full root directory
    Debris,             \* what memory behind those blocks may look like as an item
    OffDisk             \* a byte that is not from the disk

\* The root directory fills its sectors, the FAT has an entry for each cluster.
Geometry ==
    /\ \A n \in {SectorSize, SectorsPerCluster, ReservedSectors, FATCopies, SectorsPerFAT,
                 RootDirEntries, ItemSize, NameLength, ExtLength} : n \in Nat \ {0}
    /\ (RootDirEntries * ItemSize) % SectorSize = 0
    /\ SectorSize % ItemSize = 0
    /\ Clusters \subseteq 2..(SectorsPerFAT * SectorSize) \div 2 - 1
    /\ OffDisk \notin Nat /\ {MaxChain} \cup Sizes \cup Members \cup Behind \subseteq Nat
    /\ BlockItems \in Nat /\ BlockItems >= RootDirEntries

ASSUME Fat16Assumption == Geometry

VARIABLES
    slots,      \* the root directory on the disk
    stray,      \* the two bytes at the places outside of the FATs that
                \* fat16_get_fat_entry looks at, by the cluster it is asked for
    isFat,      \* whether the boot sector has the signature of FAT16
    phase,      \* "off", "up" or "panic"
    items,      \* fat_private->root_directory.item
    total,      \* fat_private->root_directory.total
    file,       \* the directory item of the open file, or NoFile
    filePos,    \* its position
    delivered   \* what the last fread delivered

disk == <<slots, stray, isFat>>
mounted == <<items, total>>
fatVars == <<disk, phase, mounted, file, filePos, delivered>>

EndOfChain == 65535
ENTRY_SIZE == 2

Space == " "
Dot == "."

Unused == [state |-> "unused"]      \* filename[0] = 0x00: nothing follows
Deleted == [state |-> "deleted"]    \* filename[0] = 0xE5
File(f, chain) == [state |-> "file", name |-> f.name, ext |-> f.ext,
                   attribute |-> f.attribute, chain |-> chain]
NoFile == [state |-> "none"]

Slot == 1..RootDirEntries
SizeOfCluster == SectorsPerCluster * SectorSize
\* The attribute byte is 0x10 for a directory, whose item has no size.
SizeOf(f) == IF f.attribute = "directory" THEN 0 ELSE Len(f.chain) * SizeOfCluster

-----------------------------------------------------------------------------
(* The other system.                                                       *)

Live == {s \in Slot : slots[s].state = "file"}
\* The path of an entry in the root.
PathOf(f) == f.name \o (IF f.ext = <<>> THEN <<>> ELSE <<Dot>> \o f.ext)

Present == {PathOf(slots[s]) : s \in Live}
InUse == UNION {ToSet(slots[s].chain) : s \in Live}

Chains == {c \in BoundedSeq(Clusters \ InUse, MaxChain) : c # <<>> /\ IsInjective(c)}

FatInit ==
    /\ slots = [s \in Slot |-> Unused]
    /\ stray \in [Clusters -> Words]
    /\ isFat \in BOOLEAN
    /\ phase = "off"
    /\ items = slots /\ total = 0
    /\ file = NoFile /\ filePos = 0 /\ delivered = <<>>

\* A new file gets the slot of a deleted one, or the first that was never used.
Create(f, s) ==
    /\ phase = "off" /\ PathOf(f) \notin Present
    /\ \/ slots[s] = Deleted
       \/ slots[s] = Unused /\ \A r \in 1..(s - 1) : slots[r] # Unused
    /\ \E chain \in Chains : slots' = [slots EXCEPT ![s] = File(f, chain)]
    /\ UNCHANGED <<stray, isFat, phase, mounted, file, filePos, delivered>>

Delete(s) ==
    /\ phase = "off" /\ s \in Live
    /\ slots' = [slots EXCEPT ![s] = Deleted]
    /\ UNCHANGED <<stray, isFat, phase, mounted, file, filePos, delivered>>

PowerOff ==
    /\ phase # "off"
    /\ phase' = "off"
    /\ items' = [s \in Slot |-> Unused] /\ total' = 0
    /\ file' = NoFile /\ filePos' = 0 /\ delivered' = <<>>
    /\ UNCHANGED disk

-----------------------------------------------------------------------------
(* Mounting.                                                               *)

\* The items before the first slot that was never used, deleted ones left out.
\* In a full directory the scan goes on in the data behind it until an item
\* begins with a zero, and counts what it finds there.
fat16_get_total_items_for_directory ==
    {Cardinality(Live) + n :
        n \in IF \E s \in Slot : slots[s] = Unused THEN {0} ELSE Behind}

\* Another kind of disk makes disks_init panic.
fat16_resolve ==
    /\ phase = "off"
    /\ IF isFat
       THEN /\ phase' = "up"
            /\ items' = slots
            /\ total' \in fat16_get_total_items_for_directory
       ELSE phase' = "panic" /\ UNCHANGED mounted
    /\ UNCHANGED <<disk, file, filePos, delivered>>

-----------------------------------------------------------------------------
(* Opening.                                                                *)

Padded(field, length) == field \o [k \in 1..(length - Len(field)) |-> Space]

ItemBytes(f) ==
    Padded(f.name, NameLength) \o Padded(f.ext, ExtLength) \o <<f.attribute, Zero>>

Ends(byte) == byte \in {Space, Zero}

\* Only a space or a zero ends a name: a field that is full goes on in the next
\* field.  The attribute byte of a file is a space when it is 0x20.
fat16_to_proper_string(bytes) ==
    SubSeq(bytes, 1, SelectInSeq(bytes, Ends) - 1)

\* Mutant: the extension is left out.
fat16_get_full_relative_filename_NameOnly(f) == fat16_to_proper_string(ItemBytes(f))

fat16_get_full_relative_filename(f) ==
    LET bytes == ItemBytes(f)
        ext == SubSeq(bytes, NameLength + 1, Len(bytes))
    IN  fat16_to_proper_string(bytes)
        \o (IF Ends(Head(ext)) THEN <<>> ELSE <<Dot>> \o fat16_to_proper_string(ext))

char_tolower(c) == IF c \in DOMAIN lower THEN lower[c] ELSE c

\* Equal but for capitals.
istrncmp(a, b) ==
    Len(a) = Len(b) /\ \A k \in DOMAIN a : char_tolower(a[k]) = char_tolower(b[k])

\* The rest of the root directory's heap blocks is zero; what follows them is
\* the memory of something else.
ItemAt(s, memory) ==
    IF s \in Slot THEN items[s] ELSE IF s \in DOMAIN memory THEN memory[s] ELSE Unused

\* The first total items are looked at, deleted ones included.
Matches(part, memory) ==
    {s \in 1..total :
        /\ ItemAt(s, memory).state = "file"
        /\ istrncmp(fat16_get_full_relative_filename(ItemAt(s, memory)), part)}

\* The last match is the one that counts.  Every item is made one of type file, a
\* directory too, so that nothing is ever found behind it.
fat16_get_dir_entry(path, memory) ==
    LET matches == Matches(Head(path), memory)
    IN  IF matches = {} \/ Len(path) > 1 THEN NoFile ELSE ItemAt(Max(matches), memory)

\* A name fits its field, is written in capitals, and has a dot only between its two
\* parts.  fopen refuses a path without parts.
NamesFit ==
    /\ \A f \in Files :
          /\ f.name \in Seq(STRING) /\ Len(f.name) \in 1..NameLength
          /\ f.ext \in Seq(STRING) /\ Len(f.ext) \in 0..ExtLength
          /\ \A c \in ToSet(f.name \o f.ext) : c # Dot /\ ~Ends(c)
    /\ \A f, g \in Files : istrncmp(PathOf(f), PathOf(g)) => PathOf(f) = PathOf(g)
    /\ ~Ends(Dot) /\ \A c \in DOMAIN lower : c # Dot /\ lower[c] # Dot
    /\ \A path \in Paths : path # <<>> /\ path \in Seq(Seq(STRING))

ASSUME NamesAssumption == NamesFit

fat16_open(path) ==
    /\ phase = "up"
    /\ filePos' = 0 /\ delivered' = <<>>
    /\ UNCHANGED <<disk, phase, mounted>>
    /\ \E memory \in [(BlockItems + 1)..total -> {Unused} \cup Debris] :
          file' = fat16_get_dir_entry(path, memory)

\* SEEK_SET; the other modes are in Vfs.
fat16_seek(offset) ==
    /\ file # NoFile /\ offset < SizeOf(file)
    /\ filePos' = offset /\ delivered' = <<>>
    /\ UNCHANGED <<disk, phase, mounted, file>>

-----------------------------------------------------------------------------
(* Reading.                                                                *)

root_dir_sector_pos == FATCopies * SectorsPerFAT + ReservedSectors

ending_sector_pos == root_dir_sector_pos + (RootDirEntries * ItemSize) \div SectorSize

\* Mutant: the first data cluster is taken to be number 0.
fat16_cluster_to_sector_FromZero(cluster) == ending_sector_pos + cluster * SectorsPerCluster

fat16_cluster_to_sector(cluster) == ending_sector_pos + (cluster - 2) * SectorsPerCluster

\* The entry of a cluster in the FAT.
NextOf(cluster) ==
    LET next == {c \in Clusters : \E s \in Live : \E k \in 2..Len(slots[s].chain) :
                    slots[s].chain[k - 1] = cluster /\ slots[s].chain[k] = c}
    IN  CASE next # {} -> CHOOSE c \in next : TRUE
          [] cluster \in InUse -> EndOfChain
          [] OTHER -> 0

\* The two bytes at a position that fat16_get_fat_entry computes for a cluster.
\* What lies behind the data clusters is zero.
WordAt(position, cluster) ==
    LET fat == position - ReservedSectors * SectorSize
        size == SectorsPerFAT * SectorSize
    IN  IF fat \in 0..(FATCopies * size - 1)
        THEN NextOf((fat % size) \div ENTRY_SIZE)
        ELSE IF cluster \in Clusters THEN stray[cluster] ELSE 0

\* The first sector is multiplied with the offset of the entry.
fat16_get_fat_entry(cluster) ==
    WordAt(ReservedSectors * SectorSize * (cluster * ENTRY_SIZE), cluster)

\* 0xFF8 and 0xFFF, 0xFF7, 0xFF0 and 0xFF6: the marks of FAT12.
Refused == {4088, 4095, 4087, 4080, 4086, 0}

EIO == -1

fat16_get_cluster_for_offset(start, offset) ==
    LET ahead == offset \div SizeOfCluster
        walk[n \in 0..ahead] ==
            IF n = 0 THEN start
            ELSE IF walk[n - 1] = EIO \/ fat16_get_fat_entry(walk[n - 1]) \in Refused THEN EIO
            ELSE fat16_get_fat_entry(walk[n - 1])
    IN  walk[ahead]

\* stream_read: a round copies from the same place of its sector in which the
\* read began.
StreamBytes(from, n) ==
    [k \in 1..n |->
        IF (from % SectorSize) + ((k - 1) % SectorSize) < SectorSize
        THEN from + k - 1 ELSE OffDisk]

\* One round of the recursion, from what the rounds before have delivered.  The
\* rest of the cluster does not limit it.
ReadRound(start, offset, count, got) ==
    LET done == Len(got.bytes)
        cluster == fat16_get_cluster_for_offset(start, offset + done)
        from == fat16_cluster_to_sector(cluster) * SectorSize + ((offset + done) % SizeOfCluster)
    IN  IF got.failed \/ cluster = EIO THEN [got EXCEPT !.failed = TRUE]
        ELSE [bytes |-> got.bytes \o StreamBytes(from, Min({count - done, SizeOfCluster})),
              failed |-> FALSE]

Nothing == [bytes |-> <<>>, failed |-> FALSE]

fat16_read_internal(start, offset, count) ==
    LET rounds == (count + SizeOfCluster - 1) \div SizeOfCluster
        got[r \in 0..rounds] ==
            IF r = 0 THEN Nothing ELSE ReadRound(start, offset, count, got[r - 1])
    IN  got[rounds]

ReadMember(f, from, size, got) ==
    LET read == fat16_read_internal(Head(f.chain), from + Len(got.bytes), size)
    IN  IF got.failed THEN got
        ELSE [bytes |-> got.bytes \o read.bytes, failed |-> read.failed]

\* The position stays, and nothing asks how long the file is.
fat16_read(size, nmemb) ==
    /\ file # NoFile
    /\ UNCHANGED <<disk, phase, mounted, file, filePos>>
    /\ LET got[m \in 0..nmemb] == IF m = 0 THEN Nothing ELSE ReadMember(file, filePos, size, got[m - 1])
       IN  delivered' = got[nmemb].bytes

-----------------------------------------------------------------------------
FatNext ==
    \/ \E f \in Files, s \in Slot : Create(f, s)
    \/ \E s \in Slot : Delete(s)
    \/ PowerOff
    \/ fat16_resolve
    \/ \E path \in Paths : fat16_open(path)
    \/ \E offset \in 0..(MaxChain * SizeOfCluster - 1) : fat16_seek(offset)
    \/ \E size \in Sizes, nmemb \in Members : fat16_read(size, nmemb)

FatSpec == FatInit /\ [][FatNext]_fatVars

-----------------------------------------------------------------------------
(* Properties.                                                             *)

\* A name that the code reads back as it was written: it does not fill its field,
\* and neither does its extension unless the attribute byte behind it ends it.
ReadsBack(f) ==
    Len(f.name) < NameLength /\ (Len(f.ext) < ExtLength \/ Ends(f.attribute))

\* A path gives a file of that name, in capitals or not, or none; a file whose name
\* does not read back may be what is found too, but never in place of one whose name
\* does.  That one is found as long as no slot before its own is that of a deleted file.
FindsFile(path) ==
    /\ file' # NoFile =>
          /\ Len(path) = 1
          /\ \E s \in Live : file' = slots[s] /\ (ReadsBack(file') => istrncmp(PathOf(file'), path[1]))
    /\ \A s \in Live :
          Len(path) = 1 /\ istrncmp(PathOf(slots[s]), path[1]) /\ ReadsBack(slots[s]) =>
             /\ file' \in {NoFile, slots[s]}
             /\ (\A r \in 1..(s - 1) : slots[r] # Deleted) => file' = slots[s]

\* Opening a path finds the right file or none, after any history of creating and
\* deleting: also in a full directory, as long as the items counted there do not lead
\* out of the heap blocks it was loaded into.
OpensFile ==
    [][\A path \in Paths : fat16_open(path) /\ total <= BlockItems => FindsFile(path)]_fatVars

\* The position on the disk of a byte of a file, by the layout of FAT16.
ByteOf(f, k) ==
    LET dataStart == (ReservedSectors + FATCopies * SectorsPerFAT) * SectorSize
                     + RootDirEntries * ItemSize
    IN  dataStart + (f.chain[k \div SizeOfCluster + 1] - 2) * SizeOfCluster + (k % SizeOfCluster)

\* Every member starts at a sector or stays inside one.
InSectors(size, nmemb) ==
    \A m \in 0..(nmemb - 1) :
        LET offset == (filePos + m * size) % SectorSize
        IN  offset = 0 \/ offset + size <= SectorSize

\* What a read delivers when it gives the bytes of the file from the position on.
FileBytes(n) == [k \in 1..n |-> ByteOf(file, filePos + k - 1)]

\* The open file is one of the disk.
OnDisk == \E s \in Live : file = slots[s]

\* Reading from an open file of the disk delivers the bytes of that file, whatever
\* else has been on the disk, as far as its first cluster goes.
ReadsFile ==
    [][\A size \in Sizes, nmemb \in Members :
        /\ OnDisk /\ fat16_read(size, nmemb)
        /\ InSectors(size, nmemb) /\ filePos + size * nmemb <= SizeOfCluster
        => delivered' = FileBytes(size * nmemb)]_fatVars

\* fat16.c:335: "Get the correct cluster to use based on the starting cluster
\* and the offset".  So for an offset inside of the file it is the cluster of
\* the chain that holds the offset.
CorrectCluster ==
    OnDisk =>
        \A offset \in 0..(SizeOf(file) - 1) :
            fat16_get_cluster_for_offset(Head(file.chain), offset)
                = file.chain[offset \div SizeOfCluster + 1]
=============================================================================
