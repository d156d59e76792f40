-------------------------------- MODULE Vfs --------------------------------
(***************************************************************************)
(* Files: fopen, fread, fseek, fstat and fclose of src/fs/vfs.c, with the  *)
(* memory of everything an open file consists of: the descriptor of vfs.c, *)
(* the fat_file_descriptor, fat_item and directory item of                 *)
(* src/fs/fat/fat16.c, and the parsed path of src/fs/pparser.c.            *)
(*                                                                         *)
(* Each of these is smaller than a heap block, so kzalloc is "the first    *)
(* free block" and kfree frees one block; only the items of a directory    *)
(* may take several in a row.  What Heap proves is that this is what the   *)
(* block table does.  A pointer is a block number.  The contents of the    *)
(* files are left out: what a read delivers is named by the file and the   *)
(* position it starts from.                                                *)
(*                                                                         *)
(* Callers use a descriptor until they close it, and close it once.  The   *)
(* file calls are made by the main line only and are one step each.        *)
(***************************************************************************)
EXTENDS Integers, Sequences, FiniteSets

CONSTANTS
    MAX_DESCRIPTORS,    \* MYSTOS_MAX_DESCRIPTORS
    HeapBlocks,         \* blocks of the heap
    Root,               \* the items of the root directory, by name: whether an item is
                        \* a directory, its size, and of a directory the heap blocks
                        \* its items take and whether they can be read
    Paths,              \* the paths callers open: [valid, drive, parts]
    Offsets,            \* the offsets callers seek to
    MaxOpens,           \* bound on the number of fopen calls
    MaxPos              \* bound on positions

ASSUME VfsAssumption ==
    /\ MAX_DESCRIPTORS \in Nat \ {0} /\ HeapBlocks \in Nat \ {0} /\ MaxOpens \in Nat
    /\ Paths \subseteq [valid : BOOLEAN, drive : Nat, parts : Seq(STRING)]
    /\ Offsets \subseteq Nat

ASSUME DiskAssumption ==
    /\ Root \in [DOMAIN Root -> [dir : BOOLEAN, size : Nat, blocks : Nat, readable : BOOLEAN]]
    /\ \A name \in DOMAIN Root : Root[name].dir => Root[name].blocks > 0
    /\ "no file" \notin DOMAIN Root

VARIABLES
    mem,                \* the heap: what each block holds
    file_descriptors,   \* the table of descriptors
    handles,            \* the descriptors the callers have open
    answer,             \* what the last call told its caller, and what fopen was asked for
    opens               \* history: number of fopen calls

vars == <<mem, file_descriptors, handles, answer, opens>>

Block == 1..HeapBlocks
NULL == 0

Free == [kind |-> "free"]
Path == [kind |-> "path"]
FileDesc(index, private) == [kind |-> "file_desc", index |-> index, private |-> private]
FatDesc(item, pos) == [kind |-> "fat_file_descriptor", item |-> item, pos |-> pos]
FatItem(item) == [kind |-> "fat_item", item |-> item]
DirItem(name) == [kind |-> "fat_directory_item", name |-> name]
FatDirectory == [kind |-> "fat_directory"]

Init ==
    /\ mem = [b \in Block |-> Free]
    /\ file_descriptors = [s \in 0..(MAX_DESCRIPTORS - 1) |-> NULL]
    /\ handles = {}
    /\ answer = <<"none">>
    /\ opens = 0

-----------------------------------------------------------------------------
(* Memory.  A function that allocates returns the memory it leaves and a   *)
(* pointer.                                                                *)

FreeBlocks(m) == {b \in Block : m[b] = Free}

\* Mutant: with no block left, the last one is handed out again.
kzalloc_Unchecked(m, object) ==
    LET free == FreeBlocks(m)
        b == IF free = {} THEN HeapBlocks ELSE CHOOSE b \in free : \A c \in free : b <= c
    IN  [mem |-> [m EXCEPT ![b] = object], ptr |-> b]

kzalloc(m, object) ==
    LET free == FreeBlocks(m)
    IN  IF free = {} THEN [mem |-> m, ptr |-> NULL]
        ELSE LET b == CHOOSE b \in free : \A c \in free : b <= c
             IN  [mem |-> [m EXCEPT ![b] = object], ptr |-> b]

\* Several blocks in a row: the first run of free blocks that is long enough, or
\* the free ones at the end of the heap, however few.
kzalloc_blocks(m, n, object) ==
    LET free == FreeBlocks(m)
        runs == {b \in Block : b + n - 1 <= HeapBlocks /\ b..(b + n - 1) \subseteq free}
        starts == IF runs # {} THEN runs ELSE {b \in Block : b..HeapBlocks \subseteq free}
        first == CHOOSE b \in starts : \A c \in starts : b <= c
    IN  IF starts = {} THEN [mem |-> m, ptr |-> NULL]
        ELSE [mem |-> [b \in Block |-> IF b \in first..(first + n - 1) THEN object ELSE m[b]],
              ptr |-> first]

kfree(m, blocks) == [b \in Block |-> IF b \in blocks THEN Free ELSE m[b]]

-----------------------------------------------------------------------------
(* The path: a root, and a string and a part for every component.  Nobody  *)
(* calls parser_free.                                                      *)

Parsed(m) == [mem |-> m, parts |-> <<>>, ended |-> FALSE]

\* A component that finds no memory ends the path, and nobody notices.  The
\* block taken to find that no component is left is freed at once.
parse_path_part(p, name) ==
    IF p.ended THEN p
    ELSE LET string == kzalloc(p.mem, Path)
             part == kzalloc(string.mem, Path)
         IN  IF string.ptr = NULL \/ part.ptr = NULL
             THEN [mem |-> part.mem, parts |-> p.parts, ended |-> TRUE]
             ELSE [mem |-> part.mem, parts |-> Append(p.parts, name), ended |-> FALSE]

\* No parts: there was no path, or no memory for its root.
parse_path(m, path) ==
    LET root == kzalloc(m, Path)
        parsed[k \in 0..Len(path.parts)] ==
            IF k = 0 THEN Parsed(root.mem) ELSE parse_path_part(parsed[k - 1], path.parts[k])
    IN  IF ~path.valid \/ root.ptr = NULL THEN Parsed(m) ELSE parsed[Len(path.parts)]

-----------------------------------------------------------------------------
(* The file system's side of an open file.                                 *)

\* The directory and the array of its items; without memory for both, or when the
\* items cannot be read, none.
fat16_load_fat_directory(m, name) ==
    LET directory == kzalloc(m, FatDirectory)
        items == kzalloc_blocks(directory.mem, Root[name].blocks, FatDirectory)
    IN  IF directory.ptr = NULL \/ items.ptr = NULL \/ ~Root[name].readable THEN m
        ELSE items.mem

\* Mutant: the directory item is not cloned but shared with other open files.
fat16_new_fat_item_for_dir_item_Shared(m, name) ==
    LET f_item == kzalloc(m, FatItem(NULL))
        same == {b \in Block : m[b] = DirItem(name)}
        item == IF same = {} THEN kzalloc(f_item.mem, DirItem(name))
                ELSE [mem |-> f_item.mem, ptr |-> CHOOSE b \in same : TRUE]
    IN  IF f_item.ptr = NULL THEN f_item
        ELSE [mem |-> [item.mem EXCEPT ![f_item.ptr] = FatItem(item.ptr)],
              ptr |-> f_item.ptr]

\* A subdirectory is loaded, and then the item is made a file all the same:
\* the loaded directory is lost.
fat16_new_fat_item_for_dir_item(m, name) ==
    LET f_item == kzalloc(m, FatItem(NULL))
        loaded == IF Root[name].dir THEN fat16_load_fat_directory(f_item.mem, name)
                  ELSE f_item.mem
        item == kzalloc(loaded, DirItem(name))
    IN  IF f_item.ptr = NULL THEN f_item
        ELSE [mem |-> [item.mem EXCEPT ![f_item.ptr] = FatItem(item.ptr)],
              ptr |-> f_item.ptr]

\* No item is ever of type directory, so a path with more than one part has
\* no entry; its first item is lost.
fat16_get_dir_entry(m, parts) ==
    LET root_item == fat16_new_fat_item_for_dir_item(m, Head(parts))
    IN  IF Head(parts) \notin DOMAIN Root THEN [mem |-> m, ptr |-> NULL]
        ELSE IF Len(parts) > 1 THEN [root_item EXCEPT !.ptr = NULL]
        ELSE root_item

fat16_open(m, parts, mode) ==
    LET descriptor == kzalloc(m, FatDesc(NULL, 0))
        entry == fat16_get_dir_entry(descriptor.mem, parts)
    IN  IF mode # "r" THEN [mem |-> m, ptr |-> NULL]
        ELSE IF descriptor.ptr = NULL THEN descriptor
        ELSE IF entry.ptr = NULL THEN entry
        ELSE [mem |-> [entry.mem EXCEPT ![descriptor.ptr] = FatDesc(entry.ptr, 0)],
              ptr |-> descriptor.ptr]

-----------------------------------------------------------------------------
(* The calls.                                                              *)

Slots == DOMAIN file_descriptors
EmptySlots == {s \in Slots : file_descriptors[s] = NULL}

get_file_descriptor(fd) ==
    IF fd = 0 \/ fd >= MAX_DESCRIPTORS THEN NULL ELSE file_descriptors[fd - 1]

\* The item a path asks for when it is opened in a mode, if it can be opened.
Target(path, mode) ==
    IF path.valid /\ path.drive = 0 /\ mode = "r" /\ Len(path.parts) = 1
       /\ Head(path.parts) \in DOMAIN Root
    THEN Head(path.parts) ELSE "no file"

\* fopen returns 0.
FopenFails(m, target) ==
    /\ answer' = <<"refused", target>>
    /\ mem' = m
    /\ UNCHANGED <<file_descriptors, handles>>

\* Mutant: descriptors start at 0.
FopenReturns_FromZero(opened, target) ==
    LET slot == CHOOSE s \in EmptySlots : \A t \in EmptySlots : s <= t
        desc == kzalloc(opened.mem, FileDesc(slot, opened.ptr))
    IN  /\ mem' = desc.mem
        /\ file_descriptors' = [file_descriptors EXCEPT ![slot] = desc.ptr]
        /\ answer' = <<"fd", slot, target>>
        /\ handles' = handles \cup {slot}

\* The descriptor is not checked for NULL: without memory its index is written
\* to and read from address 0, and the slot stays empty.
FopenReturns(opened, target) ==
    LET slot == CHOOSE s \in EmptySlots : \A t \in EmptySlots : s <= t
        desc == kzalloc(opened.mem, FileDesc(slot + 1, opened.ptr))
    IN  /\ mem' = desc.mem
        /\ file_descriptors' = [file_descriptors EXCEPT ![slot] = desc.ptr]
        /\ answer' = <<"fd", slot + 1, target>>
        /\ handles' = handles \cup {slot + 1}

fopen(path, mode) ==
    /\ opens < MaxOpens
    /\ opens' = opens + 1
    /\ LET parsed == parse_path(mem, path)
           opened == fat16_open(parsed.mem, parsed.parts, mode)
       IN  IF parsed.parts = <<>> \/ path.drive # 0 THEN FopenFails(parsed.mem, Target(path, mode))
           ELSE IF opened.ptr = NULL \/ EmptySlots = {} THEN FopenFails(opened.mem, Target(path, mode))
           ELSE FopenReturns(opened, Target(path, mode))

\* What a live descriptor leads to.
Private(fd) == mem[get_file_descriptor(fd)].private
ItemOf(fd) == mem[Private(fd)].item
DirItemOf(fd) == mem[ItemOf(fd)].item

\* Without memory for the copy of the directory item an open file has none, and
\* its size is whatever is at address 0.
Sizes(fd) ==
    IF DirItemOf(fd) = NULL THEN Offsets ELSE {Root[mem[DirItemOf(fd)].name].size}

NameOf(fd) ==
    IF DirItemOf(fd) = NULL THEN "unknown" ELSE mem[DirItemOf(fd)].name

Fails(call) == answer' = <<"error", call>> /\ UNCHANGED mem

Found(fd) == get_file_descriptor(fd) # NULL

fstat(fd) ==
    /\ IF Found(fd)
       THEN (\E size \in Sizes(fd) : answer' = <<"size", size>>) /\ UNCHANGED mem
       ELSE Fails("fstat")
    /\ UNCHANGED <<file_descriptors, handles, opens>>

\* Mutant: the end of the file is an offset to seek to.
fat16_seek_ToEnd(fd, offset, whence) ==
    \E size \in Sizes(fd) :
        IF offset > size \/ whence \notin {"SEEK_SET", "SEEK_CUR"} THEN Fails("fseek")
        ELSE LET pos == offset + (IF whence = "SEEK_CUR" THEN mem[Private(fd)].pos ELSE 0)
             IN  /\ pos <= MaxPos
                 /\ mem' = [mem EXCEPT ![Private(fd)].pos = pos]
                 /\ answer' = <<"ok">>

fat16_seek(fd, offset, whence) ==
    \E size \in Sizes(fd) :
        IF offset >= size \/ whence \notin {"SEEK_SET", "SEEK_CUR"} THEN Fails("fseek")
        ELSE LET pos == offset + (IF whence = "SEEK_CUR" THEN mem[Private(fd)].pos ELSE 0)
             IN  /\ pos <= MaxPos
                 /\ mem' = [mem EXCEPT ![Private(fd)].pos = pos]
                 /\ answer' = <<"ok">>

fseek(fd, offset, whence) ==
    /\ IF Found(fd) THEN fat16_seek(fd, offset, whence) ELSE Fails("fseek")
    /\ UNCHANGED <<file_descriptors, handles, opens>>

\* The reading itself may fail; the position stays where it is.
fread(fd) ==
    /\ IF Found(fd)
       THEN \/ /\ answer' = <<"data", NameOf(fd), mem[Private(fd)].pos>>
               /\ UNCHANGED mem
            \/ Fails("fread")
       ELSE Fails("fread")
    /\ UNCHANGED <<file_descriptors, handles, opens>>

\* The table entry and the descriptor of vfs.c are left as they are.
fclose(fd) ==
    /\ IF Found(fd)
       THEN /\ answer' = <<"ok">>
            /\ mem' = kfree(mem, {DirItemOf(fd), ItemOf(fd), Private(fd)})
       ELSE Fails("fclose")
    /\ handles' = handles \ {fd}
    /\ UNCHANGED <<file_descriptors, opens>>

Next ==
    \/ \E path \in Paths, mode \in {"r", "w"} : fopen(path, mode)
    \/ \E fd \in handles :
        \/ fstat(fd) \/ fread(fd) \/ fclose(fd)
        \/ \E offset \in Offsets, whence \in {"SEEK_SET", "SEEK_CUR", "SEEK_END"} :
              fseek(fd, offset, whence)

Spec == Init /\ [][Next]_vars

-----------------------------------------------------------------------------
(* Properties.                                                             *)

TypeOK ==
    /\ \A b \in Block :
        mem[b].kind \in {"free", "path", "file_desc", "fat_file_descriptor",
                         "fat_item", "fat_directory_item", "fat_directory"}
    /\ file_descriptors \in [Slots -> Block \cup {NULL}]
    /\ handles \subseteq 1..MAX_DESCRIPTORS
    /\ opens \in 0..MaxOpens

Live == {fd \in handles : Found(fd)}

BlocksOf(fd) ==
    {get_file_descriptor(fd), Private(fd), ItemOf(fd), DirItemOf(fd)} \ {NULL}

\* Following the pointers of an open file never leads into memory that was
\* freed, or given to something else since, however many files have been opened
\* and closed, and also when memory runs out on the way.
OpenFilesIntact ==
    \A fd \in Live :
        /\ mem[get_file_descriptor(fd)].kind = "file_desc"
        /\ mem[get_file_descriptor(fd)].index = fd
        /\ mem[Private(fd)].kind = "fat_file_descriptor"
        /\ mem[ItemOf(fd)].kind = "fat_item"
        /\ DirItemOf(fd) # NULL => mem[DirItemOf(fd)].kind = "fat_directory_item"

\* Two open files share no memory, so closing or seeking one cannot disturb the
\* other.
OpenFilesApart ==
    \A a, b \in Live : a # b => BlocksOf(a) \cap BlocksOf(b) = {}

\* Memory for whatever file is opened next: three blocks for the path, four for the
\* open file, and for a directory, which is lost, one and those of its items.
Enough ==
    LET free == Cardinality(FreeBlocks(mem))
    IN  /\ free >= 7
        /\ \A name \in DOMAIN Root : Root[name].dir => free >= 8 + Root[name].blocks

\* No fopen that ran out of memory has given out a descriptor without a file or
\* without its directory item, or it was closed.
Sound == handles = Live /\ \A fd \in handles : DirItemOf(fd) # NULL

Service == INSTANCE FileService WITH
    Fds <- 1..MAX_DESCRIPTORS,
    Files <- DOMAIN Root,
    FileSize <- [f \in DOMAIN Root |-> Root[f].size],
    open <- [fd \in handles |->
                [file |-> NameOf(fd), pos |-> mem[Private(fd)].pos]],
    spent <- {s + 1 : s \in Slots \ EmptySlots}

\* With memory for one more file, and the last slot not the only empty one, every
\* call is a step of a file service whose descriptors are spent one by one: fopen
\* gives out a whole file or refuses, whatever failed calls have taken before.
ImplementsFileService ==
    Service!ServiceInit
    /\ [][Sound /\ Enough /\ EmptySlots # {MAX_DESCRIPTORS - 1}
            => [Service!ServiceNext]_(Service!service)]_vars
=============================================================================
