------------------------------- MODULE Paging -------------------------------
(***************************************************************************)
(* The page tables of src/mem/page/pagefile.c, in a memory of frames: the  *)
(* directory and the tables are heap blocks, each by a kzalloc of its own, *)
(* and once paging is on the kernel reaches them through the very          *)
(* translation they define.  Other code takes and frees heap blocks too,   *)
(* so tables fall into the holes it leaves.  The processor walks the tables by physical address and may keep what it     *)
(* found until the directory is loaded again; paging_set does not tell it  *)
(* that a page has changed.                                                *)
(*                                                                         *)
(* A word is an address of a frame plus flags below PageSize, so | is +    *)
(* and & 0xFFFFF000 takes off the remainder.                               *)
(***************************************************************************)
EXTENDS Integers, FiniteSets

CONSTANTS
    Entries,    \* PAGING_TOTAL_ENTRIES_PER_TABLE
    PageSize,   \* PAGING_PAGE_SIZE, a table fills a page
    HeapStart, HeapEnd,     \* the first and the last frame of the heap
    Flags,      \* the flags callers of paging_new_4gb pass, PAGING_IS_PRESENT among them
    Values,     \* the words callers of paging_set pass
    UserPages,  \* the pages callers set and look at: none that the heap lies in
    Offsets,    \* the offsets in a page of the addresses they pass
    Elsewhere   \* the sets of heap blocks other code may hold at a paging_new_4gb

PAGING_IS_PRESENT == 1
PAGING_IS_WRITEABLE == 2

Frames == 0..(Entries * Entries - 1)
Index == 0..(Entries - 1)
HeapFrames == HeapStart..HeapEnd
Words == 0..(Entries * Entries * PageSize - 1)
Present(word) == word % 2 = PAGING_IS_PRESENT

ASSUME PagingAssumption ==
    /\ Entries \in Nat \ {0} /\ PageSize \in Nat \ {0} /\ PageSize % 4 = 0
    /\ HeapStart \in Nat \ {0} /\ HeapEnd \in Nat /\ HeapStart <= HeapEnd
    /\ HeapFrames \subseteq Frames
    /\ \A f \in Flags : f \in 0..(PageSize - 1) /\ Present(f)
    /\ Values \subseteq Words
    /\ UserPages \subseteq Frames \ HeapFrames
    /\ 0 \in Offsets /\ Offsets \subseteq 0..(PageSize - 1)
    /\ Elsewhere \subseteq SUBSET HeapFrames

Fault == -1     \* what an access to a page that is not present gives
NoDir == 0      \* current_dir before the first switch

VARIABLES
    mem,        \* the words of every frame the heap can give out
    used,       \* the heap blocks that chunks have taken
    dirs,       \* the directories paging_new_4gb has returned
    current_dir,
    cr3,        \* the directory the processor walks
    paging,     \* CR0.PG
    tlb,        \* the words the processor remembers: page |-> word
    seen,       \* the frame the last access went to, or Fault
    changed     \* history: the pages of the current directory that were set
                \* since it was loaded

registers == <<current_dir, cr3, paging>>
vars == <<mem, used, dirs, registers, tlb, seen, changed>>

Nothing == [p \in {} |-> 0]

FrameOf(word) == word \div PageSize

-----------------------------------------------------------------------------
(* The processor.                                                          *)

\* The word of a page in the tables, found by physical address.
Walk(dir, page) == mem[FrameOf(mem[dir][page \div Entries])][page % Entries]

\* The frame in which a page of the heap is reached.  Nobody sets such a page,
\* and so the processor remembers of it what the tables say.
Reached(page) == IF paging THEN FrameOf(Walk(cr3, page)) ELSE page

\* A program touches a page; the processor may keep the word it finds.
Access(page) ==
    /\ paging
    /\ LET word == IF page \in DOMAIN tlb THEN tlb[page] ELSE Walk(cr3, page)
       IN  /\ seen' = IF Present(word) THEN FrameOf(word) ELSE Fault
           /\ tlb' \in {tlb, [p \in DOMAIN tlb \cup (IF Present(word) THEN {page} ELSE {}) |->
                                IF p = page THEN word ELSE tlb[p]]}
    /\ UNCHANGED <<mem, used, dirs, registers, changed>>

-----------------------------------------------------------------------------
(* pagefile.c.                                                             *)

Init ==
    /\ mem = [f \in HeapFrames |-> [i \in Index |-> 0]]
    /\ used = {} /\ dirs = {}
    /\ current_dir = NoDir /\ cr3 = NoDir /\ paging = FALSE
    /\ tlb = Nothing /\ seen = Fault /\ changed = {}

\* Mutant: the offset is not advanced from table to table.
TableWords_NoOffset(i, flags) ==
    [j \in Index |-> j * PageSize + flags]

\* The words of table i of a new chunk, and of its directory.
TableWords(i, flags) ==
    [j \in Index |-> (i * Entries + j) * PageSize + flags]

\* flags | PAGING_IS_WRITEABLE
Writeable(flags) ==
    IF (flags \div PAGING_IS_WRITEABLE) % 2 = 1 THEN flags ELSE flags + PAGING_IS_WRITEABLE

\* Mutant: every word of the directory gets the address of the first table.
DirWords_SameTable(tables, flags) ==
    [i \in Index |-> tables[0] * PageSize + Writeable(flags)]

DirWords(tables, flags) == [i \in Index |-> tables[i] * PageSize + Writeable(flags)]

\* What the heap gives to the call that follows n others, for a block each: the
\* first block that is free then.
FirstFit(free, n) == CHOOSE f \in free : Cardinality({g \in free : g < f}) = n

\* Mutant: the first table is given back to the heap.
paging_new_4gb_Overlaps(flags, other) ==
    LET free == HeapFrames \ (used \cup other)
        dir == FirstFit(free, 0)
        tables == [i \in Index |-> FirstFit(free, i + 1)]
        chunk == FirstFit(free, Entries + 1)
    IN  /\ Cardinality(free) >= Entries + 2
        /\ mem' = [f \in HeapFrames |->
                    IF f = Reached(dir) THEN DirWords(tables, flags)
                    ELSE IF \E i \in Index : f = Reached(tables[i])
                    THEN TableWords((CHOOSE i \in Index : f = Reached(tables[i])), flags)
                    ELSE mem[f]]
        /\ used' = used \cup {dir, chunk} \cup {tables[i] : i \in Index \ {0}}
        /\ dirs' = dirs \cup {dir}
        /\ UNCHANGED <<registers, tlb, seen, changed>>

\* A block for the directory, one for each table and one for the chunk, of those
\* that neither chunks nor other code hold.  Enough of the heap is left: what
\* kzalloc returns is not looked at.
paging_new_4gb(flags, other) ==
    LET free == HeapFrames \ (used \cup other)
        dir == FirstFit(free, 0)
        tables == [i \in Index |-> FirstFit(free, i + 1)]
        chunk == FirstFit(free, Entries + 1)
    IN  /\ Cardinality(free) >= Entries + 2
        /\ mem' = [f \in HeapFrames |->
                    IF f = Reached(dir) THEN DirWords(tables, flags)
                    ELSE IF \E i \in Index : f = Reached(tables[i])
                    THEN TableWords((CHOOSE i \in Index : f = Reached(tables[i])), flags)
                    ELSE mem[f]]
        /\ used' = used \cup {dir, chunk} \cup {tables[i] : i \in Index}
        /\ dirs' = dirs \cup {dir}
        /\ UNCHANGED <<registers, tlb, seen, changed>>

\* Mutant: the chunk's table is loaded instead of its directory.
page_switch_Table(dir) ==
    /\ cr3' = FrameOf(mem[dir][0]) /\ current_dir' = dir
    /\ tlb' = Nothing /\ changed' = {}
    /\ UNCHANGED <<mem, used, dirs, paging, seen>>

\* Mutant: the directory is noted and not loaded when it is the current one.
page_switch_Lazy(dir) ==
    /\ cr3' = dir /\ current_dir' = dir
    /\ tlb' = IF dir = current_dir THEN tlb ELSE Nothing
    /\ changed' = {}
    /\ UNCHANGED <<mem, used, dirs, paging, seen>>

\* Loading CR3 makes the processor forget.
page_switch(dir) ==
    /\ cr3' = dir /\ current_dir' = dir
    /\ tlb' = Nothing /\ changed' = {}
    /\ UNCHANGED <<mem, used, dirs, paging, seen>>

enable_paging ==
    /\ current_dir # NoDir
    /\ paging' = TRUE
    /\ UNCHANGED <<mem, used, dirs, current_dir, cr3, tlb, seen, changed>>

paging_is_aligned(addr) == addr % PageSize = 0

\* Mutant: the entries of the directory are taken to map a page each.
paging_get_indexes_Swapped(addr) ==
    [dir |-> addr % (Entries * PageSize) \div PageSize, table |-> addr \div (Entries * PageSize)]

paging_get_indexes(addr) ==
    [dir |-> addr \div (Entries * PageSize), table |-> (addr % (Entries * PageSize)) \div PageSize]

\* An address that is not aligned gives -EINVARG.
paging_set(dir, addr, value) ==
    LET at == paging_get_indexes(addr)
        table == FrameOf(mem[Reached(dir)][at.dir])
    IN  /\ paging_is_aligned(addr)
        /\ mem' = [mem EXCEPT ![Reached(table)][at.table] = value]
        /\ changed' = IF dir = cr3 THEN changed \cup {addr \div PageSize} ELSE changed
        /\ UNCHANGED <<used, dirs, registers, tlb, seen>>

-----------------------------------------------------------------------------
Next ==
    \/ \E flags \in Flags, other \in Elsewhere : paging_new_4gb(flags, other)
    \/ \E dir \in dirs : page_switch(dir)
    \/ enable_paging
    \/ \E dir \in dirs, page \in UserPages, offset \in Offsets, value \in Values :
            paging_set(dir, page * PageSize + offset, value)
    \/ \E page \in UserPages : Access(page)

Spec == Init /\ [][Next]_vars

-----------------------------------------------------------------------------
(* Properties.                                                             *)

TypeOK ==
    /\ \A f \in HeapFrames, i \in Index : mem[f][i] \in Words
    /\ used \subseteq HeapFrames
    /\ cr3 \in dirs \cup {NoDir} /\ current_dir = cr3
    /\ paging => cr3 # NoDir
    /\ seen \in Frames \cup {Fault}

\* The blocks of different address spaces, and different tables of one, are
\* different, so that a write to one can not change another.
TablesApart ==
    LET Tables == dirs \X Index
        FrameAt(t) == FrameOf(mem[t[1]][t[2]])
    IN  \A s, t \in Tables :
            /\ FrameAt(s) \in HeapFrames \ dirs
            /\ s # t => FrameAt(s) # FrameAt(t)

\* Every address space maps the heap onto itself, its own tables included: the
\* addresses the kernel keeps in the directory stay usable when paging is on.
HeapStaysMapped ==
    \A d \in dirs, p \in HeapFrames : Present(Walk(d, p)) /\ FrameOf(Walk(d, p)) = p

\* The address spaces behind the directories.
SpaceOf == [d \in dirs |-> [p \in Frames |-> Walk(d, p)]]

Abstract == INSTANCE AddressSpace WITH
    Names <- HeapFrames, Pages <- Frames,
    spaces <- SpaceOf, active <- IF cr3 = NoDir THEN -1 ELSE cr3

\* Directories and tables are address spaces: making one, switching and setting
\* a page are steps of AddressSpace, and enabling paging and accesses are none.
ImplementsAddressSpace == Abstract!SpaceSpec

\* paging_set maps the page that was asked for, in the space that was asked for.
SetsThePage ==
    [][\A d \in dirs, page \in UserPages, value \in Values :
        paging_set(d, page * PageSize, value) => Abstract!SetPage(d, page, value)]_vars

\* An access goes where the tables say, unless the page was set after the
\* directory was loaded.
AccessFollowsTables ==
    [][\A page \in UserPages \ changed :
        Access(page) =>
            seen' = IF Present(SpaceOf[cr3][page]) THEN FrameOf(SpaceOf[cr3][page]) ELSE Fault]_vars
=============================================================================
