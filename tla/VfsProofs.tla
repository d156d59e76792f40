------------------------------ MODULE VfsProofs ------------------------------
(***************************************************************************)
(* Proofs about Vfs, for any heap, any table of descriptors, any disk and  *)
(* any callers.  An open file is a chain of four blocks, and every pointer *)
(* of the chain is followed without a look at what it leads to.  What      *)
(* keeps the chains right is that a block in use is never handed out and   *)
(* that a slot, once taken, is never taken again, so that no chain has two *)
(* ends; that has to be said of every step of fopen, with and without      *)
(* memory, before anything can be said of fopen.                           *)
(***************************************************************************)
EXTENDS Vfs, NaturalLemmas, FiniteSetTheorems

\* A pointer to a block, or none.
Ptr == Block \cup {NULL}

\* What a block of the heap can hold.
Object ==
    {Free, Path, FatDirectory}
    \cup [kind : {"file_desc"}, index : 1..MAX_DESCRIPTORS, private : Ptr]
    \cup [kind : {"fat_file_descriptor"}, item : Ptr, pos : Nat]
    \cup [kind : {"fat_item"}, item : Ptr]
    \cup [kind : {"fat_directory_item"}, name : DOMAIN Root]

\* What the state is made of.
Typed ==
    /\ mem \in [Block -> Object]
    /\ file_descriptors \in [0..(MAX_DESCRIPTORS - 1) -> Ptr]
    /\ handles \subseteq 1..MAX_DESCRIPTORS
    /\ opens \in 0..MaxOpens

\* A descriptor is never freed, whether its file is open or closed.
SlotsRight ==
    \A s \in Slots : file_descriptors[s] # NULL =>
        /\ mem[file_descriptors[s]].kind = "file_desc"
        /\ mem[file_descriptors[s]].index = s + 1

\* The chain of blocks behind a descriptor.
Intact(fd) ==
    /\ get_file_descriptor(fd) \in Block
    /\ mem[get_file_descriptor(fd)].kind = "file_desc"
    /\ mem[get_file_descriptor(fd)].index = fd
    /\ Private(fd) \in Block /\ mem[Private(fd)].kind = "fat_file_descriptor"
    /\ ItemOf(fd) \in Block /\ mem[ItemOf(fd)].kind = "fat_item"
    /\ DirItemOf(fd) \in Ptr
    /\ DirItemOf(fd) # NULL => mem[DirItemOf(fd)].kind = "fat_directory_item"

\* The chain of every open file is whole.
AllIntact == \A fd \in Live : Intact(fd)

\* Blocks of the same kind belong to one open file only.
SameKindApart ==
    \A a, b \in Live : a # b =>
        /\ Private(a) # Private(b)
        /\ ItemOf(a) # ItemOf(b)
        /\ DirItemOf(a) # NULL => DirItemOf(a) # DirItemOf(b)

\* The inductive invariant.
IInv == Typed /\ SlotsRight /\ AllIntact /\ SameKindApart

-----------------------------------------------------------------------------
(* Memory.                                                                 *)

\* m2 is m with objects in some of its free blocks.
Extends(m, m2) ==
    /\ m2 \in [Block -> Object]
    /\ \A b \in Block : m[b] # Free => m2[b] = m[b]

\* One extension after another is an extension.
LEMMA ExtendsTransitive ==
    ASSUME NEW m, NEW m2, NEW m3, Extends(m, m2), Extends(m2, m3)
    PROVE  Extends(m, m3)
  BY DEF Extends

\* kzalloc puts the object into a block that was free, or finds no memory.
LEMMA Kzalloc ==
    ASSUME NEW m \in [Block -> Object], NEW object \in Object
    PROVE  /\ Extends(m, kzalloc(m, object).mem)
           /\ kzalloc(m, object).ptr \in Ptr
           /\ kzalloc(m, object).ptr = NULL => kzalloc(m, object).mem = m
           /\ kzalloc(m, object).ptr # NULL =>
                /\ m[kzalloc(m, object).ptr] = Free
                /\ kzalloc(m, object).mem = [m EXCEPT ![kzalloc(m, object).ptr] = object]
<1> DEFINE free == FreeBlocks(m)
           b == CHOOSE b \in free : \A c \in free : b <= c
<1>1. CASE free = {}
  <2>1. kzalloc(m, object) = [mem |-> m, ptr |-> NULL]
    BY <1>1 DEF kzalloc
  <2> QED
    BY <2>1 DEF Extends, Ptr
<1>2. CASE free # {}
  <2>1. kzalloc(m, object) = [mem |-> [m EXCEPT ![b] = object], ptr |-> b]
    BY <1>2 DEF kzalloc
  <2>2. b \in free
    <3>1. free \in SUBSET Nat
      BY VfsAssumption DEF FreeBlocks, Block
    <3> HIDE DEF free
    <3>2. \E x \in free : \A c \in free : x <= c
      BY <1>2, <3>1, LeastElement
    <3> QED
      BY <3>2
  <2> HIDE DEF b
  <2>3. b \in Block /\ m[b] = Free /\ b # NULL
    BY <2>2, VfsAssumption DEF FreeBlocks, Block, NULL
  <2>4. Extends(m, [m EXCEPT ![b] = object])
    BY <2>3 DEF Extends
  <2> QED
    BY <2>1, <2>3, <2>4 DEF Ptr
<1> QED
  BY <1>1, <1>2

\* kzalloc_blocks puts the object into a row of blocks that were free, as many as it was
\* asked for or fewer, or finds no memory.
LEMMA KzallocBlocks ==
    ASSUME NEW m \in [Block -> Object], NEW object \in Object, NEW n \in Nat \ {0}
    PROVE  /\ Extends(m, kzalloc_blocks(m, n, object).mem)
           /\ \E first \in Nat :
                \A b \in Block : b \notin first..(first + n - 1) =>
                    kzalloc_blocks(m, n, object).mem[b] = m[b]
<1> DEFINE free == FreeBlocks(m)
           runs == {b \in Block : b + n - 1 <= HeapBlocks /\ b..(b + n - 1) \subseteq free}
           tails == {b \in Block : b..HeapBlocks \subseteq free}
           starts == IF runs # {} THEN runs ELSE tails
           first == CHOOSE b \in starts : \A c \in starts : b <= c
           full == [b \in Block |-> IF b \in first..(first + n - 1) THEN object ELSE m[b]]
<1>1. HeapBlocks \in Nat \ {0}
  BY VfsAssumption
<1>2. CASE starts = {}
  <2>1. kzalloc_blocks(m, n, object).mem = m
    BY <1>2 DEF kzalloc_blocks
  <2> QED
    BY <2>1 DEF Extends
<1>3. CASE starts # {}
  <2>1. kzalloc_blocks(m, n, object).mem = full
    BY <1>3 DEF kzalloc_blocks
  <2>2. first \in starts
    <3>1. starts \in SUBSET Nat
      BY DEF Block
    <3> HIDE DEF starts
    <3>2. \E x \in starts : \A c \in starts : x <= c
      BY <1>3, <3>1, LeastElement
    <3> QED
      BY <3>2
  <2> HIDE DEF first
  <2>3. first \in Nat
    BY <2>2 DEF Block
  <2>4. ASSUME NEW b \in Block, b \in first..(first + n - 1)
        PROVE  b \in free
    <3>1. b \in first..HeapBlocks
      BY <1>1, <2>3, <2>4 DEF Block
    <3> HIDE DEF free
    <3> QED
      BY <2>2, <2>4, <3>1
  <2>5. \A b \in Block : b \in first..(first + n - 1) => m[b] = Free
    BY <2>4 DEF FreeBlocks
  <2>6. Extends(m, full)
    BY <2>5 DEF Extends
  <2> QED
    BY <2>1, <2>3, <2>6
<1> QED
  BY <1>2, <1>3

\* What the code allocates is what a block can hold.
LEMMA Objects ==
    /\ Path \in Object /\ FatDirectory \in Object /\ Free \in Object
    /\ FatItem(NULL) \in Object /\ FatDesc(NULL, 0) \in Object
    /\ \A p \in Ptr : FatItem(p) \in Object /\ FatDesc(p, 0) \in Object
    /\ \A i \in 1..MAX_DESCRIPTORS, p \in Ptr : FileDesc(i, p) \in Object
    /\ \A name \in DOMAIN Root : DirItem(name) \in Object
  BY DEF Object, Path, FatDirectory, Free, FatItem, FatDesc, FileDesc, DirItem, Ptr, NULL

-----------------------------------------------------------------------------
(* The path.                                                               *)

\* One more part takes two free blocks, or one, or none.
LEMMA PartExtends ==
    ASSUME NEW m \in [Block -> Object], NEW p, NEW name, Extends(m, p.mem)
    PROVE  Extends(m, parse_path_part(p, name).mem)
<1> DEFINE string == kzalloc(p.mem, Path)
           piece == kzalloc(string.mem, Path)
<1>1. p.mem \in [Block -> Object]
  BY DEF Extends
<1>2. Extends(p.mem, string.mem)
  BY <1>1, Kzalloc, Objects
<1>3. Extends(string.mem, piece.mem)
  <2>1. string.mem \in [Block -> Object]
    BY <1>2 DEF Extends
  <2> HIDE DEF string
  <2> QED
    BY <2>1, Kzalloc, Objects
<1>4. Extends(m, piece.mem)
  <2> HIDE DEF string, piece
  <2> QED
    BY <1>2, <1>3, ExtendsTransitive
<1>5. parse_path_part(p, name) =
        IF p.ended THEN p
        ELSE IF string.ptr = NULL \/ piece.ptr = NULL
             THEN [mem |-> piece.mem, parts |-> p.parts, ended |-> TRUE]
             ELSE [mem |-> piece.mem, parts |-> Append(p.parts, name), ended |-> FALSE]
  BY DEF parse_path_part
<1> HIDE DEF string, piece
<1> QED
  BY <1>4, <1>5

\* The recursion of parse_path has a solution.
LEMMA PartsDefined ==
    ASSUME NEW m, NEW path \in Paths, path.valid, kzalloc(m, Path).ptr # NULL
    PROVE  \E f : /\ parse_path(m, path) = f[Len(path.parts)]
                  /\ \A k \in 0..Len(path.parts) :
                        f[k] = IF k = 0 THEN Parsed(kzalloc(m, Path).mem)
                               ELSE parse_path_part(f[k - 1], path.parts[k])
<1> DEFINE N == Len(path.parts)
           first == Parsed(kzalloc(m, Path).mem)
           Value(f, k) == IF k = 0 THEN first ELSE parse_path_part(f[k - 1], path.parts[k])
           Body(f) == [k \in 0..N |-> Value(f, k)]
           Good(f, n) == \A k \in 0..N : k <= n => f[k] = Value(f, k)
           S == {n \in Nat : \E f : f = [k \in 0..N |-> f[k]] /\ Good(f, n)}
<1>1. N \in Nat
  <2>1. path.parts \in Seq(STRING)
    BY VfsAssumption
  <2> QED
    BY <2>1
<1>2. 0 \in S
  <2> DEFINE f == [k \in 0..N |-> first]
  <2>1. f = [k \in 0..N |-> f[k]]
    OBVIOUS
  <2>2. Good(f, 0)
    BY <1>1
  <2> QED
    BY <2>1, <2>2
<1>3. ASSUME NEW n \in S
      PROVE  n + 1 \in S
  <2>1. n \in Nat
    OBVIOUS
  <2>2. PICK f : f = [k \in 0..N |-> f[k]] /\ Good(f, n)
    OBVIOUS
  <2> HIDE DEF S
  <2> DEFINE g == [k \in 0..N |-> IF k = n + 1 THEN Value(f, n + 1) ELSE f[k]]
  <2>3. /\ \A k \in 0..N : g[k] = IF k = n + 1 THEN Value(f, n + 1) ELSE f[k]
        /\ g = [k \in 0..N |-> g[k]]
    OBVIOUS
  <2> HIDE DEF g
  <2>4. ASSUME NEW k \in 0..N, k <= n + 1
        PROVE  g[k] = Value(g, k)
    <3>1. k \in Nat /\ (k # 0 => k - 1 \in 0..N /\ k - 1 <= n /\ k - 1 # n + 1)
      BY <1>1, <2>1, <2>4
    <3>2. k # 0 => g[k - 1] = f[k - 1]
      BY <2>3, <3>1
    <3>3. CASE k = n + 1
      BY <2>3, <3>2, <3>3
    <3>4. CASE k # n + 1
      <4>1. k <= n
        BY <2>1, <2>4, <3>1, <3>4
      <4>2. g[k] = f[k] /\ f[k] = Value(f, k)
        BY <2>2, <2>3, <3>4, <4>1
      <4> QED
        BY <3>2, <4>2
    <3> QED
      BY <3>3, <3>4
  <2>5. Good(g, n + 1)
    BY <2>4
  <2> HIDE DEF Good
  <2>6. \E h : h = [k \in 0..N |-> h[k]] /\ Good(h, n + 1)
    BY <2>3, <2>5
  <2> QED
    BY <2>1, <2>6 DEF S
<1>4. N \in S
  <2>1. S \in SUBSET Nat
    OBVIOUS
  <2> HIDE DEF S
  <2> QED
    BY <1>1, <1>2, <1>3, <2>1, SetInduction
<1>5. PICK f : f = [k \in 0..N |-> f[k]] /\ Good(f, N)
  BY <1>4
<1> HIDE DEF S
<1>6. f = Body(f)
  <2>1. \A k \in 0..N : f[k] = Value(f, k)
    <3>1. \A k \in 0..N : k <= N
      BY <1>1
    <3> HIDE DEF Value
    <3> QED
      BY <1>5, <3>1
  <2> HIDE DEF Value
  <2> QED
    BY <1>5, <2>1
<1> DEFINE parsed == CHOOSE h : h = Body(h)
<1>7. parsed = Body(parsed)
  <2> HIDE DEF Body
  <2> QED
    BY <1>6
<1>8. parse_path(m, path) = parsed[N]
  BY DEF parse_path
<1> HIDE DEF parsed
<1>9. \A k \in 0..N : parsed[k] = Value(parsed, k)
  BY <1>7
<1> QED
  BY <1>8, <1>9

\* A path takes blocks that were free, however far the memory goes.
LEMMA ParsePathExtends ==
    ASSUME NEW m \in [Block -> Object], NEW path \in Paths
    PROVE  Extends(m, parse_path(m, path).mem)
<1> DEFINE root == kzalloc(m, Path)
           N == Len(path.parts)
<1>1. CASE ~path.valid \/ root.ptr = NULL
  <2>1. parse_path(m, path) = Parsed(m)
    BY <1>1 DEF parse_path
  <2> QED
    BY <2>1 DEF Parsed, Extends
<1>2. CASE path.valid /\ root.ptr # NULL
  <2>1. PICK f : /\ parse_path(m, path) = f[N]
                 /\ \A k \in 0..N : f[k] = IF k = 0 THEN Parsed(root.mem)
                                           ELSE parse_path_part(f[k - 1], path.parts[k])
    BY <1>2, PartsDefined
  <2>2. N \in Nat
    <3>1. path.parts \in Seq(STRING)
      BY VfsAssumption
    <3> QED
      BY <3>1
  <2> DEFINE S == {n \in Nat : n <= N => Extends(m, f[n].mem)}
  <2>3. 0 \in S
    <3>1. Extends(m, root.mem)
      BY Kzalloc, Objects
    <3>2. f[0] = Parsed(root.mem)
      BY <2>1, <2>2
    <3> QED
      BY <3>1, <3>2 DEF Parsed
  <2>4. ASSUME NEW n \in S
        PROVE  n + 1 \in S
    <3> SUFFICES ASSUME n + 1 <= N
                 PROVE  Extends(m, f[n + 1].mem)
      OBVIOUS
    <3>1. n \in Nat /\ Extends(m, f[n].mem)
      BY <2>2
    <3>2. n + 1 \in 0..N /\ n + 1 # 0 /\ (n + 1) - 1 = n
      BY <2>2, <3>1
    <3>3. f[n + 1] = parse_path_part(f[n], path.parts[n + 1])
      BY <2>1, <3>2
    <3> QED
      BY <3>1, <3>3, PartExtends
  <2>5. N \in S
    <3>1. S \in SUBSET Nat
      OBVIOUS
    <3> HIDE DEF S
    <3> QED
      BY <2>2, <2>3, <2>4, <3>1, SetInduction
  <2> QED
    BY <2>1, <2>5
<1> QED
  BY <1>1, <1>2

-----------------------------------------------------------------------------
(* The file system's side.                                                 *)

\* What an item of the root directory is.
LEMMA RootItem ==
    ASSUME NEW name \in DOMAIN Root
    PROVE  /\ Root[name].dir \in BOOLEAN /\ Root[name].blocks \in Nat
           /\ Root[name].dir => Root[name].blocks \in Nat \ {0}
<1>1. Root[name] \in [dir : BOOLEAN, size : Nat, blocks : Nat, readable : BOOLEAN]
  BY DiskAssumption
<1>2. Root[name].dir \in BOOLEAN /\ Root[name].blocks \in Nat
  BY <1>1
<1>3. Root[name].dir => Root[name].blocks > 0
  BY DiskAssumption
<1>4. Root[name].dir => Root[name].blocks # 0
  <2> DEFINE n == Root[name].blocks
  <2>1. n \in Nat /\ (Root[name].dir => n > 0)
    BY <1>2, <1>3
  <2> HIDE DEF n
  <2>2. n > 0 => n # 0
    BY <2>1
  <2> QED
    BY <2>1, <2>2 DEF n
<1> QED
  BY <1>2, <1>4

\* Loading a directory writes to free blocks only.
LEMMA LoadExtends ==
    ASSUME NEW m \in [Block -> Object], NEW name \in DOMAIN Root, Root[name].dir
    PROVE  Extends(m, fat16_load_fat_directory(m, name))
<1> DEFINE directory == kzalloc(m, FatDirectory)
           items == kzalloc_blocks(directory.mem, Root[name].blocks, FatDirectory)
<1>1. Extends(m, directory.mem)
  BY Kzalloc, Objects
<1>2. Root[name].blocks \in Nat \ {0}
  BY RootItem
<1>3. Extends(directory.mem, items.mem)
  <2>1. directory.mem \in [Block -> Object]
    BY <1>1 DEF Extends
  <2> HIDE DEF directory
  <2> QED
    BY <1>2, <2>1, KzallocBlocks, Objects
<1>4. Extends(m, items.mem)
  <2> HIDE DEF directory, items
  <2> QED
    BY <1>1, <1>3, ExtendsTransitive
<1>5. fat16_load_fat_directory(m, name) = m \/ fat16_load_fat_directory(m, name) = items.mem
  BY DEF fat16_load_fat_directory
<1> HIDE DEF items
<1> QED
  BY <1>4, <1>5 DEF Extends

\* A new item in blocks that were free, with a directory item or without.
NewItem(m, m2, p) ==
    /\ Extends(m, m2)
    /\ p \in Ptr
    /\ p # NULL =>
         /\ m[p] = Free
         /\ \E c \in Ptr : /\ m2[p] = FatItem(c)
                           /\ c # NULL => m[c] = Free /\ \E name \in DOMAIN Root : m2[c] = DirItem(name)

\* A new item is in blocks that were free, with or without memory for all of it.
LEMMA NewItemExtends ==
    ASSUME NEW m \in [Block -> Object], NEW name \in DOMAIN Root
    PROVE  LET r == fat16_new_fat_item_for_dir_item(m, name) IN NewItem(m, r.mem, r.ptr)
<1> DEFINE f_item == kzalloc(m, FatItem(NULL))
           loaded == IF Root[name].dir THEN fat16_load_fat_directory(f_item.mem, name)
                     ELSE f_item.mem
           item == kzalloc(loaded, DirItem(name))
           m2 == [item.mem EXCEPT ![f_item.ptr] = FatItem(item.ptr)]
<1>1. fat16_new_fat_item_for_dir_item(m, name) =
        IF f_item.ptr = NULL THEN f_item ELSE [mem |-> m2, ptr |-> f_item.ptr]
  BY DEF fat16_new_fat_item_for_dir_item
<1>2. /\ Extends(m, f_item.mem) /\ f_item.ptr \in Ptr
      /\ f_item.ptr # NULL => m[f_item.ptr] = Free /\ f_item.mem = [m EXCEPT ![f_item.ptr] = FatItem(NULL)]
  BY Kzalloc, Objects
<1>3. CASE f_item.ptr = NULL
  BY <1>1, <1>2, <1>3 DEF NewItem
<1>4. CASE f_item.ptr # NULL
  <2> HIDE DEF f_item
  <2>1. f_item.mem \in [Block -> Object] /\ f_item.ptr \in Block
    BY <1>2, <1>4 DEF Extends, Ptr
  <2>2. Extends(f_item.mem, loaded)
    BY <2>1, LoadExtends DEF Extends
  <2>3. loaded \in [Block -> Object]
    BY <2>2 DEF Extends
  <2> HIDE DEF loaded
  <2>4. /\ Extends(loaded, item.mem) /\ item.ptr \in Ptr
        /\ item.ptr # NULL => loaded[item.ptr] = Free /\ item.mem = [loaded EXCEPT ![item.ptr] = DirItem(name)]
    BY <2>3, Kzalloc, Objects
  <2> HIDE DEF item
  <2>5. f_item.mem[f_item.ptr] = FatItem(NULL) /\ FatItem(NULL) # Free
    BY <1>2, <1>4, <2>1 DEF FatItem, Free
  <2>6. loaded[f_item.ptr] = FatItem(NULL) /\ (item.ptr # NULL => item.ptr # f_item.ptr)
    BY <2>1, <2>2, <2>4, <2>5 DEF Extends
  <2>7. item.ptr # NULL => m[item.ptr] = Free /\ item.ptr \in Block
    <3>1. item.ptr # NULL => f_item.mem[item.ptr] = Free /\ item.ptr \in Block
      BY <2>2, <2>4 DEF Extends, Ptr
    <3> QED
      BY <1>2, <3>1 DEF Extends
  <2>8. Extends(m, item.mem)
    BY <1>2, <2>2, <2>4 DEF Extends
  <2>9. FatItem(item.ptr) \in Object
    BY <2>4, Objects
  <2>10. /\ m2 \in [Block -> Object] /\ m2[f_item.ptr] = FatItem(item.ptr)
         /\ \A b \in Block : b # f_item.ptr => m2[b] = item.mem[b]
    BY <2>1, <2>8, <2>9 DEF Extends
  <2> HIDE DEF m2
  <2>11. Extends(m, m2)
    BY <1>2, <1>4, <2>8, <2>10 DEF Extends
  <2>12. item.ptr # NULL => m2[item.ptr] = DirItem(name)
    BY <2>3, <2>4, <2>6, <2>7, <2>10
  <2> QED
    BY <1>1, <1>2, <1>4, <2>4, <2>7, <2>10, <2>11, <2>12 DEF NewItem
<1> QED
  BY <1>3, <1>4

\* A look-up in the root directory answers with no item or a new one.
LEMMA EntryExtends ==
    ASSUME NEW m \in [Block -> Object], NEW parts
    PROVE  LET r == fat16_get_dir_entry(m, parts) IN NewItem(m, r.mem, r.ptr)
<1> DEFINE root_item == fat16_new_fat_item_for_dir_item(m, Head(parts))
<1>1. fat16_get_dir_entry(m, parts) =
        IF Head(parts) \notin DOMAIN Root THEN [mem |-> m, ptr |-> NULL]
        ELSE IF Len(parts) > 1 THEN [root_item EXCEPT !.ptr = NULL] ELSE root_item
  BY DEF fat16_get_dir_entry
<1>2. CASE Head(parts) \notin DOMAIN Root
  BY <1>1, <1>2 DEF NewItem, Extends, Ptr
<1>3. CASE Head(parts) \in DOMAIN Root
  <2>1. NewItem(m, root_item.mem, root_item.ptr)
    BY <1>3, NewItemExtends
  <2>2. root_item = [mem |-> root_item.mem, ptr |-> root_item.ptr]
    BY DEF fat16_new_fat_item_for_dir_item, kzalloc
  <2> HIDE DEF root_item
  <2>3. [root_item EXCEPT !.ptr = NULL] = [mem |-> root_item.mem, ptr |-> NULL]
    BY <2>2
  <2> QED
    BY <1>1, <1>3, <2>1, <2>3 DEF NewItem, Ptr
<1> QED
  BY <1>2, <1>3

\* A new chain behind a descriptor of the file system.
NewFile(m, m2, d) ==
    /\ Extends(m, m2)
    /\ d \in Ptr
    /\ d # NULL =>
         /\ m[d] = Free
         /\ \E p \in Block : /\ m2[d] = FatDesc(p, 0) /\ m[p] = Free
                             /\ \E c \in Ptr : /\ m2[p] = FatItem(c)
                                               /\ c # NULL => m[c] = Free /\ \E name \in DOMAIN Root : m2[c] = DirItem(name)

\* A file that fat16_open answers with is in blocks that were free.
LEMMA OpenExtends ==
    ASSUME NEW m \in [Block -> Object], NEW parts, NEW mode
    PROVE  LET r == fat16_open(m, parts, mode) IN NewFile(m, r.mem, r.ptr)
<1> DEFINE desc == kzalloc(m, FatDesc(NULL, 0))
           entry == fat16_get_dir_entry(desc.mem, parts)
           m2 == [entry.mem EXCEPT ![desc.ptr] = FatDesc(entry.ptr, 0)]
<1>1. fat16_open(m, parts, mode) =
        IF mode # "r" THEN [mem |-> m, ptr |-> NULL]
        ELSE IF desc.ptr = NULL THEN desc
        ELSE IF entry.ptr = NULL THEN entry
        ELSE [mem |-> m2, ptr |-> desc.ptr]
  BY DEF fat16_open
<1>2. /\ Extends(m, desc.mem) /\ desc.ptr \in Ptr
      /\ desc.ptr # NULL => m[desc.ptr] = Free /\ desc.mem = [m EXCEPT ![desc.ptr] = FatDesc(NULL, 0)]
  BY Kzalloc, Objects
<1> HIDE DEF desc
<1>3. desc.mem \in [Block -> Object]
  BY <1>2 DEF Extends
<1>4. NewItem(desc.mem, entry.mem, entry.ptr)
  BY <1>3, EntryExtends
<1> HIDE DEF entry
<1>5. Extends(m, entry.mem)
  BY <1>2, <1>4, ExtendsTransitive DEF NewItem
<1>6. CASE mode # "r"
  BY <1>1, <1>6 DEF NewFile, Extends, Ptr
<1>7. CASE mode = "r" /\ (desc.ptr = NULL \/ entry.ptr = NULL)
  BY <1>1, <1>2, <1>5, <1>7 DEF NewFile, Ptr
<1>8. CASE mode = "r" /\ desc.ptr # NULL /\ entry.ptr # NULL
  <2>1. desc.ptr \in Block /\ entry.ptr \in Block /\ m[desc.ptr] = Free
    BY <1>2, <1>4, <1>8 DEF NewItem, Ptr
  <2>2. desc.mem[desc.ptr] = FatDesc(NULL, 0) /\ FatDesc(NULL, 0) # Free
    BY <1>2, <1>8, <2>1 DEF FatDesc, Free
  <2>3. PICK c \in Ptr : /\ entry.mem[entry.ptr] = FatItem(c)
                         /\ c # NULL => desc.mem[c] = Free /\ \E name \in DOMAIN Root : entry.mem[c] = DirItem(name)
    BY <1>4, <1>8 DEF NewItem
  <2>4. desc.mem[entry.ptr] = Free /\ entry.ptr # desc.ptr /\ (c # NULL => c # desc.ptr)
    BY <1>4, <1>8, <2>2, <2>3 DEF NewItem
  <2>5. m[entry.ptr] = Free /\ (c # NULL => m[c] = Free /\ c \in Block)
    BY <1>2, <2>1, <2>3, <2>4 DEF Extends, Ptr
  <2>6. FatDesc(entry.ptr, 0) \in Object
    BY <1>4, Objects DEF NewItem
  <2>7. /\ m2 \in [Block -> Object] /\ m2[desc.ptr] = FatDesc(entry.ptr, 0)
        /\ \A b \in Block : b # desc.ptr => m2[b] = entry.mem[b]
    BY <1>5, <2>1, <2>6 DEF Extends
  <2> HIDE DEF m2
  <2>8. Extends(m, m2)
    BY <1>5, <2>1, <2>7 DEF Extends
  <2>9. m2[entry.ptr] = FatItem(c) /\ (c # NULL => \E name \in DOMAIN Root : m2[c] = DirItem(name))
    BY <2>1, <2>3, <2>4, <2>5, <2>7
  <2>10. fat16_open(m, parts, mode) = [mem |-> m2, ptr |-> desc.ptr]
    BY <1>1, <1>8
  <2> QED
    BY <1>2, <1>8, <2>1, <2>3, <2>5, <2>7, <2>8, <2>9, <2>10 DEF NewFile
<1> QED
  BY <1>6, <1>7, <1>8

-----------------------------------------------------------------------------
(* The calls.                                                              *)

\* The descriptor of a handle is in the slot before its number, and the last slot is refused.
LEMMA SlotOf ==
    ASSUME Typed, NEW fd \in handles
    PROVE  /\ fd \in Nat \ {0} /\ fd <= MAX_DESCRIPTORS
           /\ get_file_descriptor(fd) = IF fd >= MAX_DESCRIPTORS THEN NULL ELSE file_descriptors[fd - 1]
           /\ get_file_descriptor(fd) # NULL => fd - 1 \in Slots /\ get_file_descriptor(fd) \in Block
<1>1. fd \in Nat \ {0} /\ fd <= MAX_DESCRIPTORS /\ MAX_DESCRIPTORS \in Nat
  BY VfsAssumption DEF Typed
<1>2. get_file_descriptor(fd) = IF fd >= MAX_DESCRIPTORS THEN NULL ELSE file_descriptors[fd - 1]
  BY <1>1 DEF get_file_descriptor
<1>3. fd < MAX_DESCRIPTORS => fd - 1 \in 0..(MAX_DESCRIPTORS - 1)
  BY <1>1
<1> QED
  BY <1>1, <1>2, <1>3 DEF Typed, Slots, Ptr

\* What a step leaves of an open file whose four blocks keep their kinds and
\* pointers.
LEMMA KeptFile ==
    ASSUME NEW fd \in Live, Intact(fd),
           get_file_descriptor(fd)' = get_file_descriptor(fd),
           mem'[get_file_descriptor(fd)] = mem[get_file_descriptor(fd)],
           mem'[Private(fd)].kind = mem[Private(fd)].kind, mem'[Private(fd)].item = mem[Private(fd)].item,
           mem'[ItemOf(fd)] = mem[ItemOf(fd)],
           DirItemOf(fd) # NULL => mem'[DirItemOf(fd)].kind = mem[DirItemOf(fd)].kind
    PROVE  /\ Intact(fd)'
           /\ Private(fd)' = Private(fd) /\ ItemOf(fd)' = ItemOf(fd) /\ DirItemOf(fd)' = DirItemOf(fd)
<1>1. Private(fd)' = Private(fd)
  BY DEF Private
<1>2. ItemOf(fd)' = ItemOf(fd)
  BY <1>1 DEF ItemOf
<1>3. DirItemOf(fd)' = DirItemOf(fd)
  BY <1>2 DEF DirItemOf
<1> QED
  BY <1>1, <1>2, <1>3 DEF Intact

\* A block with a record of an open file is in use.
LEMMA NotFree ==
    ASSUME Typed, NEW b \in Block,
           mem[b].kind \in {"file_desc", "fat_file_descriptor", "fat_item", "fat_directory_item"}
    PROVE  mem[b] # Free
  BY DEF Free

\* The blocks of a file that is open are in use.
LEMMA LiveInUse ==
    ASSUME IInv, NEW fd \in Live
    PROVE  /\ Intact(fd)
           /\ mem[get_file_descriptor(fd)] # Free /\ mem[Private(fd)] # Free /\ mem[ItemOf(fd)] # Free
           /\ DirItemOf(fd) # NULL => DirItemOf(fd) \in Block /\ mem[DirItemOf(fd)] # Free
<1>1. Intact(fd)
  BY DEF IInv, AllIntact
<1> QED
  BY <1>1, NotFree DEF IInv, Intact, Ptr

\* A step that writes to free blocks only, and opens nothing, keeps the open files.
LEMMA ExtendingStep ==
    ASSUME IInv, Extends(mem, mem'), UNCHANGED <<file_descriptors, handles>>, opens' \in 0..MaxOpens
    PROVE  IInv'
<1>1. Typed'
  BY DEF IInv, Typed, Extends
<1>2. SlotsRight'
  <2> SUFFICES ASSUME NEW s \in Slots, file_descriptors[s] # NULL
               PROVE  /\ mem'[file_descriptors[s]].kind = "file_desc"
                      /\ mem'[file_descriptors[s]].index = s + 1
    BY DEF SlotsRight, Slots
  <2>1. file_descriptors[s] \in Block /\ mem[file_descriptors[s]].kind = "file_desc"
    BY DEF IInv, Typed, SlotsRight, Slots, Ptr
  <2>2. mem'[file_descriptors[s]] = mem[file_descriptors[s]]
    BY <2>1, NotFree DEF IInv, Extends
  <2> QED
    BY <2>2 DEF IInv, SlotsRight
<1>3. Live' = Live /\ \A fd : get_file_descriptor(fd)' = get_file_descriptor(fd)
  BY DEF Live, Found, get_file_descriptor
<1>4. ASSUME NEW fd \in Live
      PROVE  /\ Intact(fd)'
             /\ Private(fd)' = Private(fd) /\ ItemOf(fd)' = ItemOf(fd) /\ DirItemOf(fd)' = DirItemOf(fd)
  <2>1. /\ Intact(fd)
        /\ mem[get_file_descriptor(fd)] # Free /\ mem[Private(fd)] # Free /\ mem[ItemOf(fd)] # Free
        /\ DirItemOf(fd) # NULL => DirItemOf(fd) \in Block /\ mem[DirItemOf(fd)] # Free
    BY LiveInUse
  <2>2. /\ mem'[get_file_descriptor(fd)] = mem[get_file_descriptor(fd)]
        /\ mem'[Private(fd)] = mem[Private(fd)] /\ mem'[ItemOf(fd)] = mem[ItemOf(fd)]
        /\ DirItemOf(fd) # NULL => mem'[DirItemOf(fd)] = mem[DirItemOf(fd)]
    BY <2>1 DEF Extends, Intact
  <2> QED
    BY <1>3, <2>1, <2>2, KeptFile
<1>5. AllIntact' /\ SameKindApart'
  BY <1>3, <1>4 DEF AllIntact, SameKindApart, IInv
<1> QED
  BY <1>1, <1>2, <1>5 DEF IInv

\* The slot that a new descriptor goes to.
FirstSlot == CHOOSE s \in EmptySlots : \A t \in EmptySlots : s <= t

\* A table with an empty slot has a first one.
LEMMA FirstSlotEmpty ==
    ASSUME Typed, EmptySlots # {}
    PROVE  FirstSlot \in Slots /\ FirstSlot \in Nat /\ FirstSlot < MAX_DESCRIPTORS /\ file_descriptors[FirstSlot] = NULL
<1>1. EmptySlots \in SUBSET Nat
  BY VfsAssumption DEF EmptySlots, Slots, Typed
<1>2. \E s \in EmptySlots : \A t \in EmptySlots : s <= t
  BY <1>1, LeastElement
<1>3. FirstSlot \in EmptySlots
  BY <1>2 DEF FirstSlot
<1> QED
  BY <1>3, VfsAssumption DEF EmptySlots, Slots, Typed

\* A file is opened: its chain is new, and its slot was nobody's.
LEMMA FopenReturnsIInv ==
    ASSUME IInv, NEW opened, NEW target, NewFile(mem, opened.mem, opened.ptr), opened.ptr # NULL, EmptySlots # {},
           FopenReturns(opened, target), opens' \in 0..MaxOpens
    PROVE  IInv'
<1> PICK slot : slot = FirstSlot
  OBVIOUS
<1> DEFINE private == opened.ptr
           new == FileDesc(slot + 1, private)
           desc == kzalloc(opened.mem, new)
           fdn == slot + 1
<1>1. /\ mem' = desc.mem
      /\ file_descriptors' = [file_descriptors EXCEPT ![slot] = desc.ptr]
      /\ handles' = handles \cup {fdn}
  BY DEF FopenReturns, FirstSlot
<1>2. slot \in Slots /\ slot \in Nat /\ slot < MAX_DESCRIPTORS /\ file_descriptors[slot] = NULL
      /\ MAX_DESCRIPTORS \in Nat /\ Slots = 0..(MAX_DESCRIPTORS - 1)
  BY FirstSlotEmpty, VfsAssumption DEF IInv, Typed, Slots
<1>3. /\ Extends(mem, opened.mem) /\ private \in Block /\ mem[private] = Free
      /\ \E p \in Block : /\ opened.mem[private] = FatDesc(p, 0) /\ mem[p] = Free
                          /\ \E c \in Ptr : /\ opened.mem[p] = FatItem(c)
                                            /\ c # NULL => mem[c] = Free /\ \E name \in DOMAIN Root : opened.mem[c] = DirItem(name)
  BY DEF NewFile, Ptr
<1>4. new \in Object /\ opened.mem \in [Block -> Object]
  BY <1>2, <1>3, Objects DEF Extends, Ptr
<1>5. /\ Extends(opened.mem, mem') /\ desc.ptr \in Ptr
      /\ desc.ptr # NULL => opened.mem[desc.ptr] = Free /\ mem' = [opened.mem EXCEPT ![desc.ptr] = new]
  BY <1>1, <1>4, Kzalloc
<1> HIDE DEF desc
<1>6. Extends(mem, mem')
  BY <1>3, <1>5, ExtendsTransitive
<1>7. Typed'
  BY <1>1, <1>2, <1>5, <1>6 DEF IInv, Typed, Extends
<1>8. Slots' = Slots /\ \A s \in Slots : file_descriptors'[s] = IF s = slot THEN desc.ptr ELSE file_descriptors[s]
  BY <1>1, <1>2 DEF IInv, Typed, Slots
<1>9. desc.ptr # NULL => desc.ptr \in Block /\ mem'[desc.ptr] = new
  BY <1>4, <1>5 DEF Ptr
<1>10. ASSUME NEW s \in Slots, s # slot, file_descriptors[s] # NULL
       PROVE  /\ mem'[file_descriptors[s]] = mem[file_descriptors[s]]
              /\ file_descriptors[s] \in Block
  <2>1. file_descriptors[s] \in Block /\ mem[file_descriptors[s]].kind = "file_desc"
    BY <1>10 DEF IInv, Typed, SlotsRight, Slots, Ptr
  <2> QED
    BY <1>6, <2>1, NotFree DEF IInv, Extends
<1>11. SlotsRight'
  <2> SUFFICES ASSUME NEW s \in Slots, file_descriptors'[s] # NULL
               PROVE  /\ mem'[file_descriptors'[s]].kind = "file_desc"
                      /\ mem'[file_descriptors'[s]].index = s + 1
    BY <1>8 DEF SlotsRight
  <2>1. CASE s = slot
    BY <1>8, <1>9, <2>1 DEF FileDesc
  <2>2. CASE s # slot
    BY <1>8, <1>10, <2>2 DEF IInv, SlotsRight
  <2> QED
    BY <2>1, <2>2
<1>12. ASSUME NEW fd \in handles
       PROVE  /\ fd # fdn => get_file_descriptor(fd)' = get_file_descriptor(fd)
              /\ fd = fdn => get_file_descriptor(fd) = NULL
  <2>1. /\ fd \in Nat \ {0} /\ fd <= MAX_DESCRIPTORS
        /\ get_file_descriptor(fd) = IF fd >= MAX_DESCRIPTORS THEN NULL ELSE file_descriptors[fd - 1]
    BY SlotOf DEF IInv
  <2>2. get_file_descriptor(fd)' = IF fd >= MAX_DESCRIPTORS THEN NULL ELSE file_descriptors'[fd - 1]
    BY <2>1 DEF get_file_descriptor
  <2>3. fd < MAX_DESCRIPTORS => fd - 1 \in Slots
    BY <1>2, <2>1
  <2>4. fd # fdn => fd - 1 # slot
    BY <1>2, <2>1
  <2>5. fd = fdn => fd - 1 = slot
    BY <1>2
  <2> QED
    BY <1>2, <1>8, <2>1, <2>2, <2>3, <2>4, <2>5
<1>13. ASSUME NEW fd \in Live
       PROVE  /\ fd # fdn
              /\ get_file_descriptor(fd)' = get_file_descriptor(fd)
              /\ Intact(fd)'
              /\ Private(fd)' = Private(fd) /\ ItemOf(fd)' = ItemOf(fd) /\ DirItemOf(fd)' = DirItemOf(fd)
              /\ mem[Private(fd)] # Free /\ mem[ItemOf(fd)] # Free
              /\ DirItemOf(fd) # NULL => DirItemOf(fd) \in Block /\ mem[DirItemOf(fd)] # Free
  <2>1. /\ Intact(fd)
        /\ mem[get_file_descriptor(fd)] # Free /\ mem[Private(fd)] # Free /\ mem[ItemOf(fd)] # Free
        /\ DirItemOf(fd) # NULL => DirItemOf(fd) \in Block /\ mem[DirItemOf(fd)] # Free
    BY LiveInUse
  <2>2. fd # fdn /\ get_file_descriptor(fd)' = get_file_descriptor(fd)
    BY <1>12 DEF Live, Found
  <2>3. /\ mem'[get_file_descriptor(fd)] = mem[get_file_descriptor(fd)]
        /\ mem'[Private(fd)] = mem[Private(fd)] /\ mem'[ItemOf(fd)] = mem[ItemOf(fd)]
        /\ DirItemOf(fd) # NULL => mem'[DirItemOf(fd)] = mem[DirItemOf(fd)]
    BY <1>6, <2>1 DEF Extends, Intact
  <2> QED
    BY <2>1, <2>2, <2>3, KeptFile
<1>14. Live' \subseteq Live \cup {fdn}
  <2> SUFFICES ASSUME NEW fd \in Live', fd # fdn
               PROVE  fd \in Live
    OBVIOUS
  <2>1. fd \in handles /\ get_file_descriptor(fd)' # NULL
    BY <1>1 DEF Live, Found
  <2> QED
    BY <1>12, <2>1 DEF Live, Found
<1>15. ASSUME fdn \in Live'
       PROVE  /\ Intact(fdn)'
              /\ mem[Private(fdn)'] = Free /\ mem[ItemOf(fdn)'] = Free
              /\ DirItemOf(fdn)' # NULL => mem[DirItemOf(fdn)'] = Free
  <2>1. get_file_descriptor(fdn)' # NULL
    BY <1>15 DEF Live, Found
  <2>2. get_file_descriptor(fdn)' = desc.ptr /\ desc.ptr # NULL
    <3>1. fdn - 1 = slot
      BY <1>2
    <3> QED
      BY <1>2, <1>8, <2>1, <3>1 DEF get_file_descriptor
  <2>3. mem'[desc.ptr] = new /\ desc.ptr \in Block
    BY <1>9, <2>2
  <2>4. Private(fdn)' = private
    BY <2>2, <2>3 DEF Private, FileDesc
  <2>5. PICK p \in Block, c \in Ptr :
            /\ opened.mem[private] = FatDesc(p, 0) /\ mem[p] = Free
            /\ opened.mem[p] = FatItem(c)
            /\ c # NULL => mem[c] = Free /\ \E name \in DOMAIN Root : opened.mem[c] = DirItem(name)
    BY <1>3
  <2>6. mem'[private] = FatDesc(p, 0) /\ mem'[p] = FatItem(c)
        /\ (c # NULL => c \in Block /\ \E name \in DOMAIN Root : mem'[c] = DirItem(name))
    BY <1>3, <1>5, <2>5 DEF Extends, FatDesc, FatItem, DirItem, Free, Ptr
  <2>7. ItemOf(fdn)' = p
    BY <2>4, <2>6 DEF ItemOf, FatDesc
  <2>8. DirItemOf(fdn)' = c
    BY <2>6, <2>7 DEF DirItemOf, FatItem
  <2>9. Intact(fdn)'
    <3>1. mem'[get_file_descriptor(fdn)'].kind = "file_desc" /\ mem'[get_file_descriptor(fdn)'].index = fdn
      BY <2>2, <2>3 DEF FileDesc
    <3>2. mem'[private].kind = "fat_file_descriptor" /\ mem'[p].kind = "fat_item"
          /\ (c # NULL => mem'[c].kind = "fat_directory_item")
      <4>1. FatDesc(p, 0).kind = "fat_file_descriptor" /\ FatItem(c).kind = "fat_item"
        BY DEF FatDesc, FatItem
      <4>2. \A name : DirItem(name).kind = "fat_directory_item"
        BY DEF DirItem
      <4> HIDE DEF private
      <4> QED
        BY <2>6, <4>1, <4>2
    <3> QED
      BY <1>3, <2>2, <2>3, <2>4, <2>5, <2>7, <2>8, <3>1, <3>2 DEF Intact
  <2> QED
    BY <1>3, <2>4, <2>5, <2>7, <2>8, <2>9
<1>16. AllIntact'
  BY <1>13, <1>14, <1>15 DEF AllIntact
<1>17. SameKindApart'
  <2> SUFFICES ASSUME NEW a \in Live', NEW b \in Live', a # b
               PROVE  /\ Private(a)' # Private(b)'
                      /\ ItemOf(a)' # ItemOf(b)'
                      /\ DirItemOf(a)' # NULL => DirItemOf(a)' # DirItemOf(b)'
    BY DEF SameKindApart
  <2>1. CASE a \in Live /\ b \in Live
    BY <1>13, <2>1 DEF IInv, SameKindApart
  <2>2. CASE a = fdn /\ b \in Live
    BY <1>13, <1>15, <2>2
  <2>3. CASE a \in Live /\ b = fdn
    BY <1>13, <1>15, <2>3
  <2> QED
    BY <1>14, <2>1, <2>2, <2>3
<1> QED
  BY <1>7, <1>11, <1>16, <1>17 DEF IInv

\* fopen keeps the invariant, wherever it gives up.
LEMMA FopenIInv ==
    ASSUME IInv, NEW path \in Paths, NEW mode, fopen(path, mode)
    PROVE  IInv'
<1> DEFINE parsed == parse_path(mem, path)
           opened == fat16_open(parsed.mem, parsed.parts, mode)
<1>1. /\ opens' \in 0..MaxOpens
      /\ \/ FopenFails(parsed.mem, Target(path, mode))
         \/ FopenFails(opened.mem, Target(path, mode))
         \/ opened.ptr # NULL /\ EmptySlots # {} /\ FopenReturns(opened, Target(path, mode))
  BY VfsAssumption DEF fopen, IInv, Typed
<1>2. Extends(mem, parsed.mem)
  BY ParsePathExtends DEF IInv, Typed
<1> HIDE DEF parsed
<1>3. NewFile(parsed.mem, opened.mem, opened.ptr)
  BY <1>2, OpenExtends DEF Extends
<1> HIDE DEF opened
<1>4. NewFile(mem, opened.mem, opened.ptr)
  <2>1. Extends(mem, opened.mem)
    BY <1>2, <1>3, ExtendsTransitive DEF NewFile
  <2>2. \A b \in Block : parsed.mem[b] = Free => mem[b] = Free
    BY <1>2 DEF Extends
  <2>3. opened.ptr # NULL => opened.ptr \in Block
    BY <1>3 DEF NewFile, Ptr
  <2>4. \A c \in Ptr : c # NULL => c \in Block
    BY DEF Ptr
  <2> QED
    BY <1>3, <2>1, <2>2, <2>3, <2>4 DEF NewFile
<1>5. ASSUME NEW m, Extends(mem, m), FopenFails(m, Target(path, mode))
      PROVE  IInv'
  BY <1>1, <1>5, ExtendingStep DEF FopenFails
<1>6. CASE opened.ptr # NULL /\ EmptySlots # {} /\ FopenReturns(opened, Target(path, mode))
  BY <1>1, <1>4, <1>6, FopenReturnsIInv
<1> QED
  BY <1>1, <1>2, <1>4, <1>5, <1>6 DEF NewFile

\* A position moves; the chain that leads to it does not.
LEMMA SeekIInv ==
    ASSUME IInv, NEW fd \in handles, NEW offset \in Offsets, NEW whence, fseek(fd, offset, whence)
    PROVE  IInv'
<1>1. UNCHANGED <<file_descriptors, handles, opens>>
  BY DEF fseek
<1>2. CASE mem' = mem
  BY <1>1, <1>2, ExtendingStep DEF Extends, IInv, Typed
<1>3. CASE mem' # mem
  <2>1. Found(fd) /\ fat16_seek(fd, offset, whence)
    BY <1>3 DEF fseek, Fails
  <2> DEFINE p == Private(fd)
  <2>2. fd \in Live /\ Intact(fd) /\ p \in Block /\ mem[p].kind = "fat_file_descriptor"
    BY <2>1, LiveInUse DEF Live, Intact
  <2>3. mem[p] \in [kind : {"fat_file_descriptor"}, item : Ptr, pos : Nat]
    BY <2>2 DEF IInv, Typed, Object, Free, Path, FatDirectory
  <2>4. PICK pos \in Nat : mem' = [mem EXCEPT ![p] = [mem[p] EXCEPT !.pos = pos]]
    <3>1. PICK pos : /\ pos = offset + (IF whence = "SEEK_CUR" THEN mem[Private(fd)].pos ELSE 0)
                     /\ mem' = [mem EXCEPT ![Private(fd)].pos = pos]
      BY <1>3, <2>1 DEF fat16_seek, Fails
    <3>2. pos \in Nat
      BY <2>3, <3>1, VfsAssumption
    <3> QED
      BY <3>1, <3>2
  <2> HIDE DEF p
  <2>5. /\ [mem[p] EXCEPT !.pos = pos] \in Object
        /\ [mem[p] EXCEPT !.pos = pos].kind = mem[p].kind
        /\ [mem[p] EXCEPT !.pos = pos].item = mem[p].item
    <3>1. [mem[p] EXCEPT !.pos = pos] = [kind |-> "fat_file_descriptor", item |-> mem[p].item, pos |-> pos]
      BY <2>3
    <3> QED
      BY <2>3, <3>1 DEF Object
  <2>6. /\ mem' \in [Block -> Object]
        /\ \A b \in Block : b # p => mem'[b] = mem[b]
        /\ mem'[p].kind = mem[p].kind /\ mem'[p].item = mem[p].item
    BY <2>2, <2>4, <2>5 DEF IInv, Typed
  <2>7. Typed'
    BY <1>1, <2>6 DEF IInv, Typed
  <2>8. SlotsRight'
    <3> SUFFICES ASSUME NEW s \in Slots, file_descriptors[s] # NULL
                 PROVE  mem'[file_descriptors[s]] = mem[file_descriptors[s]]
      BY <1>1 DEF IInv, SlotsRight, Slots
    <3>1. file_descriptors[s] \in Block /\ mem[file_descriptors[s]].kind = "file_desc"
      BY DEF IInv, Typed, SlotsRight, Slots, Ptr
    <3> QED
      BY <2>2, <2>6, <3>1
  <2>9. Live' = Live /\ \A d : get_file_descriptor(d)' = get_file_descriptor(d)
    BY <1>1 DEF Live, Found, get_file_descriptor
  <2>10. ASSUME NEW d \in Live
         PROVE  /\ Intact(d)'
                /\ Private(d)' = Private(d) /\ ItemOf(d)' = ItemOf(d) /\ DirItemOf(d)' = DirItemOf(d)
    <3>1. Intact(d)
      BY LiveInUse
    <3>2. /\ get_file_descriptor(d) # p /\ ItemOf(d) # p
          /\ get_file_descriptor(d) \in Block /\ ItemOf(d) \in Block /\ Private(d) \in Block
          /\ DirItemOf(d) # NULL => DirItemOf(d) \in Block
      BY <2>2, <3>1 DEF Intact, Ptr
    <3>3. /\ mem'[get_file_descriptor(d)] = mem[get_file_descriptor(d)]
          /\ mem'[ItemOf(d)] = mem[ItemOf(d)]
          /\ mem'[Private(d)].kind = mem[Private(d)].kind /\ mem'[Private(d)].item = mem[Private(d)].item
          /\ DirItemOf(d) # NULL => mem'[DirItemOf(d)].kind = mem[DirItemOf(d)].kind
      BY <2>6, <3>2
    <3> QED
      BY <2>9, <3>1, <3>3, KeptFile
  <2>11. AllIntact' /\ SameKindApart'
    BY <2>9, <2>10 DEF AllIntact, SameKindApart, IInv
  <2> QED
    BY <2>7, <2>8, <2>11 DEF IInv
<1> QED
  BY <1>2, <1>3

\* fclose gives back the blocks of one file and cuts no other chain.
LEMMA CloseIInv ==
    ASSUME IInv, NEW fd \in handles, fclose(fd)
    PROVE  IInv'
<1>1. UNCHANGED <<file_descriptors, opens>> /\ handles' = handles \ {fd}
  BY DEF fclose
<1> DEFINE gone == IF Found(fd) THEN {DirItemOf(fd), ItemOf(fd), Private(fd)} ELSE {}
<1>2. \/ Found(fd) /\ mem' = kfree(mem, gone)
      \/ ~Found(fd) /\ mem' = mem
  BY DEF fclose, Fails
<1>3. /\ mem' \in [Block -> Object]
      /\ \A b \in Block : b \notin gone => mem'[b] = mem[b]
  <2> HIDE DEF gone
  <2> QED
    BY <1>2, Objects DEF kfree, IInv, Typed
<1>4. Found(fd) => fd \in Live /\ Intact(fd)
  BY LiveInUse DEF Live
<1>5. \A b \in Block : mem[b].kind = "file_desc" => b \notin gone
  <2>1. \A b \in Block : b # NULL
    BY VfsAssumption DEF Block, NULL
  <2> QED
    BY <1>4, <2>1 DEF Intact
<1>6. Typed'
  BY <1>1, <1>3 DEF IInv, Typed
<1>7. SlotsRight'
  <2> SUFFICES ASSUME NEW s \in Slots, file_descriptors[s] # NULL
               PROVE  mem'[file_descriptors[s]] = mem[file_descriptors[s]]
    BY <1>1 DEF IInv, SlotsRight, Slots
  <2>1. file_descriptors[s] \in Block /\ mem[file_descriptors[s]].kind = "file_desc"
    BY DEF IInv, Typed, SlotsRight, Slots, Ptr
  <2> HIDE DEF gone
  <2> QED
    BY <1>3, <1>5, <2>1
<1>8. Live' = Live \ {fd} /\ \A d : get_file_descriptor(d)' = get_file_descriptor(d)
  BY <1>1 DEF Live, Found, get_file_descriptor
<1>9. ASSUME NEW d \in Live'
      PROVE  /\ d \in Live /\ Intact(d)'
             /\ Private(d)' = Private(d) /\ ItemOf(d)' = ItemOf(d) /\ DirItemOf(d)' = DirItemOf(d)
  <2>1. d \in Live /\ d # fd /\ Intact(d)
    BY <1>8, LiveInUse
  <2>2. /\ get_file_descriptor(d) \notin gone /\ Private(d) \notin gone /\ ItemOf(d) \notin gone
        /\ DirItemOf(d) # NULL => DirItemOf(d) \notin gone
    <3> SUFFICES ASSUME Found(fd)
                 PROVE  /\ get_file_descriptor(d) \notin gone /\ Private(d) \notin gone /\ ItemOf(d) \notin gone
                        /\ DirItemOf(d) # NULL => DirItemOf(d) \notin gone
      OBVIOUS
    <3>1. /\ Private(d) # Private(fd) /\ ItemOf(d) # ItemOf(fd)
          /\ DirItemOf(d) # NULL => DirItemOf(d) # DirItemOf(fd)
      BY <1>4, <2>1 DEF IInv, SameKindApart
    <3>2. \A b \in Block : b # NULL
      BY VfsAssumption DEF Block, NULL
    <3> QED
      BY <1>4, <2>1, <3>1, <3>2 DEF Intact
  <2> HIDE DEF gone
  <2>3. /\ mem'[get_file_descriptor(d)] = mem[get_file_descriptor(d)]
        /\ mem'[Private(d)] = mem[Private(d)] /\ mem'[ItemOf(d)] = mem[ItemOf(d)]
        /\ DirItemOf(d) # NULL => mem'[DirItemOf(d)] = mem[DirItemOf(d)]
    BY <1>3, <2>1, <2>2 DEF Intact, Ptr
  <2> QED
    BY <1>8, <2>1, <2>3, KeptFile
<1>10. AllIntact' /\ SameKindApart'
  BY <1>9 DEF AllIntact, SameKindApart, IInv
<1> QED
  BY <1>6, <1>7, <1>10 DEF IInv

\* The invariant holds at the start.
LEMMA InitIInv == Init => IInv
<1> SUFFICES ASSUME Init
             PROVE  IInv
  OBVIOUS
<1>1. Typed
  BY Objects, VfsAssumption DEF Init, Typed, Ptr
<1>2. Live = {} /\ SlotsRight
  BY DEF Init, Live, SlotsRight, Slots
<1> QED
  BY <1>1, <1>2 DEF IInv, AllIntact, SameKindApart

\* Every step keeps the invariant.
LEMMA NextIInv == IInv /\ [Next]_vars => IInv'
<1> SUFFICES ASSUME IInv, [Next]_vars
             PROVE  IInv'
  OBVIOUS
<1>1. ASSUME UNCHANGED <<mem, file_descriptors, handles, opens>>
      PROVE  IInv'
  BY <1>1, ExtendingStep DEF Extends, IInv, Typed
<1>2. CASE UNCHANGED vars
  BY <1>1, <1>2 DEF vars
<1>3. ASSUME NEW fd \in handles, fstat(fd) \/ fread(fd)
      PROVE  IInv'
  BY <1>1, <1>3 DEF fstat, fread, Fails
<1> QED
  BY <1>2, <1>3, FopenIInv, SeekIInv, CloseIInv DEF Next

\* The chains of the open files are whole and share no block that they write to or free.
THEOREM Invariance == Spec => []IInv
  BY InitIInv, NextIInv, PTL DEF Spec

-----------------------------------------------------------------------------
(* What follows for the properties that the runs check.                    *)

\* The table and every block keep their shape through any sequence of calls,
\* those that run out of memory included.
THEOREM TypeCorrect == Spec => []TypeOK
<1>1. IInv => TypeOK
  <2> SUFFICES ASSUME IInv
               PROVE  TypeOK
    OBVIOUS
  <2>1. \A b \in Block :
          mem[b].kind \in {"free", "path", "file_desc", "fat_file_descriptor",
                           "fat_item", "fat_directory_item", "fat_directory"}
    <3>1. \A o \in Object :
          o.kind \in {"free", "path", "file_desc", "fat_file_descriptor",
                      "fat_item", "fat_directory_item", "fat_directory"}
      BY DEF Object, Free, Path, FatDirectory
    <3> QED
      BY <3>1 DEF IInv, Typed
  <2> QED
    BY <2>1 DEF IInv, Typed, TypeOK, Slots, Ptr
<1> QED
  BY <1>1, Invariance, PTL

\* Every pointer that fread, fseek, fstat and fclose follow without a look leads
\* to the kind of block they take it for, whatever has been opened and closed and
\* wherever memory ran out.
THEOREM OpenFilesStayIntact == Spec => []OpenFilesIntact
<1>1. IInv => OpenFilesIntact
  BY DEF IInv, AllIntact, Intact, OpenFilesIntact
<1> QED
  BY <1>1, Invariance, PTL

\* No block belongs to two open files, so a seek or a close never reaches another
\* file than its own.
THEOREM OpenFilesStayApart == Spec => []OpenFilesApart
<1>1. ASSUME IInv, NEW a \in Live, NEW b \in Live, a # b
      PROVE  BlocksOf(a) \cap BlocksOf(b) = {}
  <2>1. Intact(a) /\ Intact(b)
    BY <1>1 DEF IInv, AllIntact
  <2>2. /\ Private(a) # Private(b) /\ ItemOf(a) # ItemOf(b)
        /\ DirItemOf(a) # NULL => DirItemOf(a) # DirItemOf(b)
    BY <1>1 DEF IInv, SameKindApart
  <2>3. get_file_descriptor(a) # get_file_descriptor(b)
    BY <1>1, <2>1 DEF Intact
  <2> QED
    BY <2>1, <2>2, <2>3 DEF BlocksOf, Intact
<1>2. IInv => OpenFilesApart
  BY <1>1 DEF OpenFilesApart
<1> QED
  BY <1>2, Invariance, PTL

-----------------------------------------------------------------------------
(* Enough memory.                                                          *)

\* At least n blocks are free.
Room(m, n) == n <= Cardinality(FreeBlocks(m))

\* The free blocks can be counted.
LEMMA FreeFinite ==
    ASSUME NEW m
    PROVE  IsFiniteSet(FreeBlocks(m)) /\ Cardinality(FreeBlocks(m)) \in Nat
<1>1. IsFiniteSet(Block)
  BY VfsAssumption, FS_Interval DEF Block
<1>2. FreeBlocks(m) \in SUBSET Block
  BY DEF FreeBlocks
<1> QED
  BY <1>1, <1>2, FS_Subset, FS_CardinalityType

\* With a free block left, kzalloc finds one, and takes that one only.
LEMMA KzallocRoom ==
    ASSUME NEW m \in [Block -> Object], NEW object \in Object, object # Free, NEW n \in Nat, Room(m, n + 1)
    PROVE  LET r == kzalloc(m, object)
           IN  /\ r.ptr \in Block /\ m[r.ptr] = Free
               /\ r.mem \in [Block -> Object] /\ r.mem[r.ptr] = object
               /\ Extends(m, r.mem)
               /\ Room(r.mem, n)
<1> DEFINE r == kzalloc(m, object)
<1>1. /\ Extends(m, r.mem) /\ r.ptr \in Ptr
      /\ r.ptr # NULL => m[r.ptr] = Free /\ r.mem = [m EXCEPT ![r.ptr] = object]
  BY Kzalloc
<1>2. IsFiniteSet(FreeBlocks(m)) /\ Cardinality(FreeBlocks(m)) \in Nat
  BY FreeFinite
<1>3. FreeBlocks(m) # {}
  BY <1>2, FS_EmptySet DEF Room
<1>4. r.ptr # NULL
  <2>1. \E x \in FreeBlocks(m) : \A c \in FreeBlocks(m) : x <= c
    <3>1. FreeBlocks(m) \in SUBSET Nat
      BY VfsAssumption DEF FreeBlocks, Block
    <3> QED
      BY <1>3, <3>1, LeastElement
  <2> DEFINE b == CHOOSE b \in FreeBlocks(m) : \A c \in FreeBlocks(m) : b <= c
  <2>2. b \in FreeBlocks(m)
    BY <2>1
  <2>3. r = [mem |-> [m EXCEPT ![b] = object], ptr |-> b]
    BY <1>3 DEF kzalloc
  <2> HIDE DEF b, r
  <2> QED
    BY <2>2, <2>3, VfsAssumption DEF FreeBlocks, Block, NULL
<1> HIDE DEF r
<1>5. r.ptr \in Block /\ m[r.ptr] = Free /\ r.mem = [m EXCEPT ![r.ptr] = object]
  BY <1>1, <1>4 DEF Ptr
<1>6. FreeBlocks(r.mem) = FreeBlocks(m) \ {r.ptr} /\ r.ptr \in FreeBlocks(m)
  BY <1>5 DEF FreeBlocks
<1>7. Cardinality(FreeBlocks(r.mem)) = Cardinality(FreeBlocks(m)) - 1
  BY <1>2, <1>6, FS_RemoveElement
<1>8. Room(r.mem, n)
  BY <1>2, <1>7 DEF Room
<1> QED
  BY <1>1, <1>5, <1>8 DEF r

\* Writing an object over an object leaves as much room as before.
LEMMA RoomKept ==
    ASSUME NEW m \in [Block -> Object], NEW b \in Block, m[b] # Free, NEW object \in Object, object # Free,
           NEW n, Room(m, n)
    PROVE  Room([m EXCEPT ![b] = object], n)
<1>1. FreeBlocks([m EXCEPT ![b] = object]) = FreeBlocks(m)
  BY DEF FreeBlocks
<1> QED
  BY <1>1 DEF Room

\* What the code allocates is not a free block.
LEMMA NotFreeObjects ==
    /\ Path # Free /\ FatDirectory # Free
    /\ \A p : FatItem(p) # Free /\ FatDesc(p, 0) # Free /\ DirItem(p) # Free
    /\ \A i, p : FileDesc(i, p) # Free
  BY DEF Free, Path, FatDirectory, FatItem, FatDesc, DirItem, FileDesc

\* A component of a path takes two blocks at most.
LEMMA PartRoom ==
    ASSUME NEW p, NEW name, NEW n \in Nat, p.mem \in [Block -> Object], Room(p.mem, n + 2), p.ended = FALSE
    PROVE  LET r == parse_path_part(p, name)
           IN  r.parts = Append(p.parts, name) /\ r.ended = FALSE /\ r.mem \in [Block -> Object] /\ Room(r.mem, n)
<1> DEFINE string == kzalloc(p.mem, Path)
           piece == kzalloc(string.mem, Path)
<1>1. string.ptr \in Block /\ string.mem \in [Block -> Object] /\ Room(string.mem, n + 1)
  <2>1. n + 1 \in Nat /\ Room(p.mem, (n + 1) + 1)
    <3>1. n + 2 = (n + 1) + 1
      OBVIOUS
    <3> QED
      BY <3>1
  <2> QED
    BY <2>1, KzallocRoom, Objects, NotFreeObjects
<1>2. piece.ptr \in Block /\ piece.mem \in [Block -> Object] /\ Room(piece.mem, n)
  <2> HIDE DEF string
  <2> QED
    BY <1>1, KzallocRoom, Objects, NotFreeObjects
<1>3. parse_path_part(p, name) =
        IF p.ended THEN p
        ELSE IF string.ptr = NULL \/ piece.ptr = NULL
             THEN [mem |-> piece.mem, parts |-> p.parts, ended |-> TRUE]
             ELSE [mem |-> piece.mem, parts |-> Append(p.parts, name), ended |-> FALSE]
  BY DEF parse_path_part
<1>4. \A b \in Block : b # NULL
  BY VfsAssumption DEF Block, NULL
<1> HIDE DEF string, piece
<1>5. parse_path_part(p, name) = [mem |-> piece.mem, parts |-> Append(p.parts, name), ended |-> FALSE]
  BY <1>1, <1>2, <1>3, <1>4
<1> QED
  BY <1>2, <1>5

\* Parts are added and never taken away.
LEMMA PartAdds ==
    ASSUME NEW p, NEW name \in STRING, p.parts \in Seq(STRING), Len(p.parts) >= 2
    PROVE  parse_path_part(p, name).parts \in Seq(STRING) /\ Len(parse_path_part(p, name).parts) >= 2
<1>1. Append(p.parts, name) \in Seq(STRING) /\ Len(Append(p.parts, name)) >= 2
  OBVIOUS
<1> QED
  BY <1>1 DEF parse_path_part

\* With room for a file, a path of one part is parsed to its end, and one of more
\* parts is not taken for one of a single part.
LEMMA ParseRoom ==
    ASSUME NEW m \in [Block -> Object], NEW path \in Paths, path.valid, NEW k \in Nat, Room(m, 7 + k)
    PROVE  LET r == parse_path(m, path)
           IN  /\ Len(path.parts) = 0 => r.parts = <<>>
               /\ Len(path.parts) = 1 =>
                    r.parts = path.parts /\ r.mem \in [Block -> Object] /\ Room(r.mem, 4 + k)
               /\ Len(path.parts) > 1 => Len(r.parts) > 1
<1> DEFINE root == kzalloc(m, Path)
           N == Len(path.parts)
<1>1. root.ptr \in Block /\ root.mem \in [Block -> Object] /\ Room(root.mem, 6 + k)
  <2>1. 6 + k \in Nat /\ Room(m, (6 + k) + 1)
    <3>1. 7 + k = (6 + k) + 1
      OBVIOUS
    <3> QED
      BY <3>1
  <2> QED
    BY <2>1, KzallocRoom, Objects, NotFreeObjects
<1>2. root.ptr # NULL
  BY <1>1, VfsAssumption DEF Block, NULL
<1>3. PICK f : /\ parse_path(m, path) = f[N]
               /\ \A i \in 0..N : f[i] = IF i = 0 THEN Parsed(root.mem)
                                         ELSE parse_path_part(f[i - 1], path.parts[i])
  <2> HIDE DEF N
  <2> QED
    BY <1>2, PartsDefined DEF N
<1>4. path.parts \in Seq(STRING)
  BY VfsAssumption
<1>5. N \in Nat
  BY <1>4
<1>6. f[0] = [mem |-> root.mem, parts |-> <<>>, ended |-> FALSE]
  <2>1. f[0] = Parsed(root.mem)
    <3>1. 0 \in 0..N
      BY <1>5
    <3> QED
      BY <1>3, <3>1
  <2> QED
    BY <2>1 DEF Parsed
<1> HIDE DEF root
<1>7. N >= 1 => /\ f[1].parts = <<path.parts[1]>> /\ f[1].ended = FALSE
                /\ f[1].mem \in [Block -> Object] /\ Room(f[1].mem, 4 + k)
  <2> SUFFICES ASSUME N >= 1
               PROVE  /\ f[1].parts = <<path.parts[1]>> /\ f[1].ended = FALSE
                      /\ f[1].mem \in [Block -> Object] /\ Room(f[1].mem, 4 + k)
    OBVIOUS
  <2>1. f[1] = parse_path_part(f[0], path.parts[1])
    <3>1. 1 \in 0..N /\ 1 - 1 = 0
      BY <1>5
    <3> QED
      BY <1>3, <3>1
  <2>2. f[0].mem \in [Block -> Object] /\ Room(f[0].mem, (4 + k) + 2) /\ f[0].ended = FALSE /\ f[0].parts = <<>>
    <3>1. 6 + k = (4 + k) + 2
      OBVIOUS
    <3> QED
      BY <1>1, <1>6, <3>1
  <2>3. Append(<<>>, path.parts[1]) = <<path.parts[1]>>
    OBVIOUS
  <2> DEFINE g == f[0]
             r == parse_path_part(g, path.parts[1])
  <2> HIDE DEF g
  <2>4. r.parts = Append(g.parts, path.parts[1]) /\ r.ended = FALSE /\ r.mem \in [Block -> Object] /\ Room(r.mem, 4 + k)
    <3>1. 4 + k \in Nat /\ g.mem \in [Block -> Object] /\ Room(g.mem, (4 + k) + 2) /\ g.ended = FALSE
      BY <2>2 DEF g
    <3> QED
      BY ONLY <3>1, PartRoom
  <2> QED
    BY <2>1, <2>2, <2>3, <2>4 DEF g
<1>8. N >= 2 => f[2].parts \in Seq(STRING) /\ Len(f[2].parts) >= 2
  <2> SUFFICES ASSUME N >= 2
               PROVE  f[2].parts \in Seq(STRING) /\ Len(f[2].parts) >= 2
    OBVIOUS
  <2>1. f[2] = parse_path_part(f[1], path.parts[2])
    <3>1. 2 \in 0..N /\ 2 - 1 = 1
      BY <1>5
    <3> QED
      BY <1>3, <3>1
  <2>2. f[1].mem \in [Block -> Object] /\ Room(f[1].mem, (2 + k) + 2) /\ f[1].ended = FALSE
        /\ f[1].parts = <<path.parts[1]>>
    <3>1. 4 + k = (2 + k) + 2
      OBVIOUS
    <3> QED
      BY <1>5, <1>7, <3>1
  <2>3. f[2].parts = Append(<<path.parts[1]>>, path.parts[2])
    <3> DEFINE g == f[1]
               r == parse_path_part(g, path.parts[2])
    <3> HIDE DEF g
    <3>1. 2 + k \in Nat /\ g.mem \in [Block -> Object] /\ Room(g.mem, (2 + k) + 2) /\ g.ended = FALSE
      BY <2>2 DEF g
    <3>2. r.parts = Append(g.parts, path.parts[2])
      BY ONLY <3>1, PartRoom
    <3> QED
      BY <2>1, <2>2, <3>2 DEF g
  <2>4. path.parts[1] \in STRING /\ path.parts[2] \in STRING
    BY <1>4
  <2> QED
    BY <2>3, <2>4
<1>9. ASSUME N >= 2
      PROVE  Len(f[N].parts) > 1
  <2> DEFINE S == {n \in Nat : n + 2 <= N => f[n + 2].parts \in Seq(STRING) /\ Len(f[n + 2].parts) >= 2}
  <2>1. 0 \in S
    BY <1>8
  <2>2. ASSUME NEW n \in S
        PROVE  n + 1 \in S
    <3> SUFFICES ASSUME (n + 1) + 2 <= N
                 PROVE  f[(n + 1) + 2].parts \in Seq(STRING) /\ Len(f[(n + 1) + 2].parts) >= 2
      OBVIOUS
    <3>1. n \in Nat /\ f[n + 2].parts \in Seq(STRING) /\ Len(f[n + 2].parts) >= 2
      BY <1>5
    <3>2. (n + 1) + 2 \in 1..N /\ (n + 1) + 2 \in 0..N /\ (n + 1) + 2 # 0 /\ ((n + 1) + 2) - 1 = n + 2
      BY <1>5, <3>1
    <3>3. f[(n + 1) + 2] = parse_path_part(f[n + 2], path.parts[(n + 1) + 2])
      BY <1>3, <3>2
    <3>4. path.parts[(n + 1) + 2] \in STRING
      BY <1>4, <3>2
    <3> QED
      BY <3>1, <3>3, <3>4, PartAdds
  <2>3. N - 2 \in S
    <3>1. S \in SUBSET Nat
      OBVIOUS
    <3>2. N - 2 \in Nat
      BY <1>5, <1>9
    <3> HIDE DEF S
    <3> QED
      BY <2>1, <2>2, <3>1, <3>2, SetInduction
  <2>4. (N - 2) + 2 = N
    BY <1>5
  <2>5. Len(f[N].parts) >= 2 /\ Len(f[N].parts) \in Nat
    BY <1>5, <2>3, <2>4
  <2> QED
    BY <2>5
<1>10. N = 1 => path.parts = <<path.parts[1]>>
  BY <1>4
<1> QED
  BY <1>3, <1>5, <1>6, <1>7, <1>9, <1>10

\* The blocks that an item of the root directory loses when it is opened.
Lost(name) == IF Root[name].dir THEN Root[name].blocks + 1 ELSE 0

\* n objects in blocks that were free leave as many fewer of them.
LEMMA RoomLeft ==
    ASSUME NEW m, NEW m2, NEW first \in Nat, NEW n \in Nat \ {0}, NEW k \in Nat, Room(m, k + n),
           \A b \in Block : b \notin first..(first + n - 1) => m2[b] = m[b]
    PROVE  Room(m2, k)
<1> DEFINE row == first..(first + n - 1)
<1>1. IsFiniteSet(row) /\ Cardinality(row) = n
  BY FS_Interval
<1>2. FreeBlocks(m) \subseteq FreeBlocks(m2) \cup row
  BY DEF FreeBlocks
<1>3. IsFiniteSet(FreeBlocks(m2)) /\ Cardinality(FreeBlocks(m2)) \in Nat
      /\ Cardinality(FreeBlocks(m)) \in Nat
  BY FreeFinite
<1> HIDE DEF row
<1> DEFINE both == FreeBlocks(m2) \cap row
<1>4. IsFiniteSet(FreeBlocks(m2) \cup row) /\ IsFiniteSet(both)
      /\ Cardinality(FreeBlocks(m2) \cup row) =
            Cardinality(FreeBlocks(m2)) + Cardinality(row) - Cardinality(both)
  BY <1>1, <1>3, FS_Union, FS_Intersection
<1>5. Cardinality(both) \in Nat
  BY <1>4, FS_CardinalityType
<1>6. Cardinality(FreeBlocks(m)) <= Cardinality(FreeBlocks(m2) \cup row)
  BY <1>2, <1>4, FS_Subset
<1> QED
  BY <1>1, <1>3, <1>4, <1>5, <1>6 DEF Room

\* A directory takes a block, and those of its items at most.
LEMMA LoadRoom ==
    ASSUME NEW m \in [Block -> Object], NEW name \in DOMAIN Root, Root[name].dir,
           NEW n \in Nat, Room(m, n + Lost(name))
    PROVE  Room(fat16_load_fat_directory(m, name), n)
<1> DEFINE blocks == Root[name].blocks
           directory == kzalloc(m, FatDirectory)
           items == kzalloc_blocks(directory.mem, blocks, FatDirectory)
<1>1. blocks \in Nat \ {0} /\ Lost(name) = blocks + 1
  BY RootItem DEF Lost
<1> HIDE DEF blocks
<1>2. Room(m, n)
  BY <1>1, FreeFinite DEF Room
<1>3. directory.mem \in [Block -> Object] /\ Room(directory.mem, n + blocks)
  <2>1. n + blocks \in Nat /\ Room(m, (n + blocks) + 1)
    <3>1. n + Lost(name) = (n + blocks) + 1
      BY <1>1
    <3> QED
      BY <1>1, <3>1
  <2> QED
    BY <2>1, KzallocRoom, Objects, NotFreeObjects
<1> HIDE DEF directory
<1>4. PICK first \in Nat : \A b \in Block : b \notin first..(first + blocks - 1) =>
                                items.mem[b] = directory.mem[b]
  BY <1>1, <1>3, KzallocBlocks, Objects
<1> HIDE DEF items
<1>5. Room(items.mem, n)
  BY <1>1, <1>3, <1>4, RoomLeft
<1>6. fat16_load_fat_directory(m, name) = m \/ fat16_load_fat_directory(m, name) = items.mem
  BY DEF fat16_load_fat_directory, items, directory, blocks
<1> QED
  BY <1>2, <1>5, <1>6

LEMMA LostNat ==
    ASSUME NEW name \in DOMAIN Root
    PROVE  Lost(name) \in Nat
  BY RootItem DEF Lost

\* With two blocks and those that are lost there is memory for an item.
LEMMA NewItemRoom ==
    ASSUME NEW m \in [Block -> Object], NEW name \in DOMAIN Root, Room(m, 3 + Lost(name))
    PROVE  LET r == fat16_new_fat_item_for_dir_item(m, name)
           IN  /\ r.ptr \in Block /\ Extends(m, r.mem) /\ Room(r.mem, 1)
               /\ \E c \in Block : r.mem[r.ptr] = FatItem(c) /\ r.mem[c] = DirItem(name)
<1> DEFINE f_item == kzalloc(m, FatItem(NULL))
           loaded == IF Root[name].dir THEN fat16_load_fat_directory(f_item.mem, name)
                     ELSE f_item.mem
           item == kzalloc(loaded, DirItem(name))
           m2 == [item.mem EXCEPT ![f_item.ptr] = FatItem(item.ptr)]
<1>1. fat16_new_fat_item_for_dir_item(m, name) =
        IF f_item.ptr = NULL THEN f_item ELSE [mem |-> m2, ptr |-> f_item.ptr]
  BY DEF fat16_new_fat_item_for_dir_item
<1>2. /\ f_item.ptr \in Block /\ m[f_item.ptr] = Free
      /\ f_item.mem \in [Block -> Object] /\ f_item.mem[f_item.ptr] = FatItem(NULL)
      /\ Room(f_item.mem, 2 + Lost(name))
  <2>1. 2 + Lost(name) \in Nat /\ Room(m, (2 + Lost(name)) + 1)
    <3>1. Lost(name) \in Nat
      BY LostNat
    <3>2. 3 + Lost(name) = (2 + Lost(name)) + 1
      BY <3>1
    <3> QED
      BY <3>1, <3>2
  <2> QED
    BY <2>1, KzallocRoom, Objects, NotFreeObjects
<1>3. f_item.ptr # NULL
  BY <1>2, VfsAssumption DEF Block, NULL
<1> HIDE DEF f_item
<1>4. ASSUME Root[name].dir
      PROVE  Extends(f_item.mem, loaded) /\ Room(loaded, 2)
  <2>1. loaded = fat16_load_fat_directory(f_item.mem, name)
    BY <1>4
  <2> HIDE DEF loaded
  <2> QED
    BY <1>2, <1>4, <2>1, LoadExtends, LoadRoom
<1>5. ASSUME ~Root[name].dir
      PROVE  Extends(f_item.mem, loaded) /\ Room(loaded, 2)
  <2>1. loaded = f_item.mem /\ Lost(name) = 0
    BY <1>5 DEF Lost
  <2> HIDE DEF loaded
  <2> QED
    BY <1>2, <2>1 DEF Extends
<1> HIDE DEF loaded
<1>14. Extends(f_item.mem, loaded) /\ Room(loaded, 2)
  BY <1>4, <1>5
<1>6. loaded \in [Block -> Object] /\ loaded[f_item.ptr] = FatItem(NULL)
  BY <1>2, <1>14, NotFreeObjects DEF Extends
<1>7. /\ item.ptr \in Block /\ loaded[item.ptr] = Free
      /\ item.mem \in [Block -> Object] /\ item.mem[item.ptr] = DirItem(name)
      /\ Extends(loaded, item.mem) /\ Room(item.mem, 1)
  <2>1. Room(loaded, 1 + 1)
    BY <1>14
  <2> QED
    BY <1>6, <2>1, KzallocRoom, Objects, NotFreeObjects
<1> HIDE DEF item
<1>8. item.ptr # f_item.ptr /\ item.mem[f_item.ptr] = FatItem(NULL)
  BY <1>2, <1>6, <1>7, NotFreeObjects DEF Extends
<1>9. FatItem(item.ptr) \in Object /\ FatItem(item.ptr) # Free
  BY <1>7, Objects, NotFreeObjects DEF Ptr
<1>10. Room(m2, 1)
  BY <1>2, <1>7, <1>8, <1>9, NotFreeObjects, RoomKept
<1>11. m2[f_item.ptr] = FatItem(item.ptr) /\ m2[item.ptr] = DirItem(name)
  BY <1>2, <1>7, <1>8
<1>12. fat16_new_fat_item_for_dir_item(m, name) = [mem |-> m2, ptr |-> f_item.ptr]
  BY <1>1, <1>3
<1>13. Extends(m, m2)
  <2> HIDE DEF m2
  <2>1. NewItem(m, m2, f_item.ptr)
    BY <1>12, NewItemExtends
  <2> QED
    BY <2>1 DEF NewItem
<1> QED
  BY <1>2, <1>7, <1>10, <1>11, <1>12, <1>13

\* The whole chain, down to the item that was asked for.
LEMMA OpenRoom ==
    ASSUME NEW m \in [Block -> Object], NEW parts \in Seq(STRING), Len(parts) = 1, Head(parts) \in DOMAIN Root,
           Room(m, 4 + Lost(Head(parts)))
    PROVE  LET r == fat16_open(m, parts, "r")
           IN  /\ r.ptr \in Block /\ r.mem \in [Block -> Object] /\ Room(r.mem, 1)
               /\ \E p, c \in Block : /\ r.mem[r.ptr] = FatDesc(p, 0)
                                      /\ r.mem[p] = FatItem(c)
                                      /\ r.mem[c] = DirItem(Head(parts))
<1> DEFINE desc == kzalloc(m, FatDesc(NULL, 0))
           entry == fat16_get_dir_entry(desc.mem, parts)
           m2 == [entry.mem EXCEPT ![desc.ptr] = FatDesc(entry.ptr, 0)]
<1>1. /\ desc.ptr \in Block /\ m[desc.ptr] = Free
      /\ desc.mem \in [Block -> Object] /\ desc.mem[desc.ptr] = FatDesc(NULL, 0)
      /\ Room(desc.mem, 3 + Lost(Head(parts)))
  <2>1. 3 + Lost(Head(parts)) \in Nat /\ Room(m, (3 + Lost(Head(parts))) + 1)
    <3>1. Lost(Head(parts)) \in Nat
      BY LostNat
    <3>2. 4 + Lost(Head(parts)) = (3 + Lost(Head(parts))) + 1
      BY <3>1
    <3> QED
      BY <3>1, <3>2
  <2> QED
    BY <2>1, KzallocRoom, Objects, NotFreeObjects
<1> HIDE DEF desc
<1>2. entry = fat16_new_fat_item_for_dir_item(desc.mem, Head(parts))
  BY DEF fat16_get_dir_entry
<1>3. /\ entry.ptr \in Block /\ Extends(desc.mem, entry.mem) /\ Room(entry.mem, 1)
      /\ \E c \in Block : entry.mem[entry.ptr] = FatItem(c) /\ entry.mem[c] = DirItem(Head(parts))
  BY <1>1, <1>2, NewItemRoom
<1> HIDE DEF entry
<1>4. PICK c \in Block : entry.mem[entry.ptr] = FatItem(c) /\ entry.mem[c] = DirItem(Head(parts))
  BY <1>3
<1>5. entry.mem \in [Block -> Object] /\ entry.mem[desc.ptr] = FatDesc(NULL, 0)
  BY <1>1, <1>3, NotFreeObjects DEF Extends
<1>6. entry.ptr # desc.ptr /\ c # desc.ptr
  BY <1>4, <1>5 DEF FatDesc, FatItem, DirItem
<1>7. FatDesc(entry.ptr, 0) \in Object /\ FatDesc(entry.ptr, 0) # Free
  BY <1>3, Objects, NotFreeObjects DEF Ptr
<1>8. Room(m2, 1) /\ m2 \in [Block -> Object]
  BY <1>1, <1>3, <1>5, <1>7, NotFreeObjects, RoomKept
<1>9. m2[desc.ptr] = FatDesc(entry.ptr, 0) /\ m2[entry.ptr] = FatItem(c) /\ m2[c] = DirItem(Head(parts))
  BY <1>1, <1>3, <1>4, <1>5, <1>6
<1>10. desc.ptr # NULL /\ entry.ptr # NULL
  BY <1>1, <1>3, VfsAssumption DEF Block, NULL
<1>11. fat16_open(m, parts, "r") = [mem |-> m2, ptr |-> desc.ptr]
  BY <1>10 DEF fat16_open, desc, entry
<1> QED
  BY <1>1, <1>3, <1>8, <1>9, <1>11

-----------------------------------------------------------------------------
(* The file service.                                                       *)

\* The state of the file service that a state of Vfs stands for.
OpenFiles == [fd \in handles |-> [file |-> NameOf(fd), pos |-> mem[Private(fd)].pos]]
\* The descriptors that were handed out so far.
Spent == {s + 1 : s \in Slots \ EmptySlots}

\* What the service sees of a file whose blocks a step leaves alone.
LEMMA KeptOpen ==
    ASSUME NEW fd \in Live, Intact(fd),
           get_file_descriptor(fd)' = get_file_descriptor(fd),
           mem'[get_file_descriptor(fd)] = mem[get_file_descriptor(fd)],
           mem'[Private(fd)] = mem[Private(fd)], mem'[ItemOf(fd)] = mem[ItemOf(fd)],
           DirItemOf(fd) # NULL => mem'[DirItemOf(fd)] = mem[DirItemOf(fd)]
    PROVE  Private(fd)' = Private(fd) /\ NameOf(fd)' = NameOf(fd)
<1>1. Private(fd)' = Private(fd) /\ ItemOf(fd)' = ItemOf(fd) /\ DirItemOf(fd)' = DirItemOf(fd)
  BY KeptFile
<1> QED
  BY <1>1 DEF NameOf

\* A step that writes to free blocks only leaves an open file alone.
LEMMA ExtendingKeeps ==
    ASSUME IInv, Extends(mem, mem'), NEW fd \in Live, get_file_descriptor(fd)' = get_file_descriptor(fd)
    PROVE  /\ Private(fd)' = Private(fd) /\ NameOf(fd)' = NameOf(fd)
           /\ mem'[Private(fd)] = mem[Private(fd)]
<1>1. /\ Intact(fd)
      /\ mem[get_file_descriptor(fd)] # Free /\ mem[Private(fd)] # Free /\ mem[ItemOf(fd)] # Free
      /\ DirItemOf(fd) # NULL => DirItemOf(fd) \in Block /\ mem[DirItemOf(fd)] # Free
  BY LiveInUse
<1>2. /\ mem'[get_file_descriptor(fd)] = mem[get_file_descriptor(fd)]
      /\ mem'[Private(fd)] = mem[Private(fd)] /\ mem'[ItemOf(fd)] = mem[ItemOf(fd)]
      /\ DirItemOf(fd) # NULL => mem'[DirItemOf(fd)] = mem[DirItemOf(fd)]
  BY <1>1 DEF Extends, Intact
<1> QED
  BY <1>1, <1>2, KeptOpen

\* A call that writes to free blocks only changes nothing that is open.
LEMMA ExtendingOpen ==
    ASSUME IInv, Sound, Extends(mem, mem'), UNCHANGED <<file_descriptors, handles>>
    PROVE  OpenFiles' = OpenFiles /\ Spent' = Spent
<1>1. \A fd : get_file_descriptor(fd)' = get_file_descriptor(fd)
  BY DEF get_file_descriptor
<1>2. \A fd \in handles : /\ Private(fd)' = Private(fd) /\ NameOf(fd)' = NameOf(fd)
                          /\ mem'[Private(fd)] = mem[Private(fd)]
  BY <1>1, ExtendingKeeps DEF Sound
<1>3. Spent' = Spent
  BY DEF Spent, Slots, EmptySlots
<1> QED
  BY <1>2, <1>3 DEF OpenFiles

\* The descriptors of the slots 0 to n - 1 are the numbers 1 to n.
LEMMA ShiftedSlots ==
    ASSUME NEW n \in Nat
    PROVE  {s + 1 : s \in 0..(n - 1)} = 1..n
<1>1. \A x \in 1..n : x - 1 \in 0..(n - 1) /\ x = (x - 1) + 1
  OBVIOUS
<1>2. \A s \in 0..(n - 1) : s + 1 \in 1..n
  OBVIOUS
<1> QED
  BY <1>1, <1>2

\* A path that is neither empty nor longer than one component has one component.
LEMMA OneLong ==
    ASSUME NEW n \in Nat, n # 0, ~(n > 1)
    PROVE  n = 1
OBVIOUS

\* A call that is refused changes nothing, and has a reason to refuse.
LEMMA RefusedStep ==
    ASSUME IInv, Sound, Extends(mem, mem'), NEW t \in DOMAIN Root \cup {"no file"}, FopenFails(mem', t),
           t = "no file" \/ EmptySlots = {}
    PROVE  Service!ServiceNext
<1>1. UNCHANGED <<file_descriptors, handles>> /\ answer' = <<"refused", t>>
  BY DEF FopenFails
<1>2. OpenFiles' = OpenFiles /\ Spent' = Spent
  BY <1>1, ExtendingOpen
<1>3. t \notin DOMAIN Root \/ Spent = 1..MAX_DESCRIPTORS
  <2>1. CASE t = "no file"
    BY <2>1, DiskAssumption
  <2>2. CASE EmptySlots = {}
    <3>1. Slots = 0..(MAX_DESCRIPTORS - 1) /\ MAX_DESCRIPTORS \in Nat
      BY VfsAssumption DEF IInv, Typed, Slots
    <3>2. Spent = {s + 1 : s \in 0..(MAX_DESCRIPTORS - 1)}
      BY <2>2, <3>1 DEF Spent
    <3> QED
      BY <3>1, <3>2, ShiftedSlots
  <2> QED
    BY <2>1, <2>2
<1>4. Service!Refuse(t)
  BY <1>1, <1>2, <1>3 DEF Service!Refuse, OpenFiles, Spent
<1> QED
  BY <1>4 DEF Service!ServiceNext, Service!Targets

\* The descriptor that is handed out leads to the item that was asked for.
LEMMA OpenedStep ==
    ASSUME IInv, Sound, NEW opened, NEW name \in DOMAIN Root,
           EmptySlots # {}, EmptySlots # {MAX_DESCRIPTORS - 1},
           Extends(mem, opened.mem), opened.ptr \in Block, Room(opened.mem, 1),
           \E p, c \in Block : /\ opened.mem[opened.ptr] = FatDesc(p, 0)
                               /\ opened.mem[p] = FatItem(c)
                               /\ opened.mem[c] = DirItem(name),
           FopenReturns(opened, name)
    PROVE  Service!ServiceNext
<1> PICK slot : slot = FirstSlot
  OBVIOUS
<1> DEFINE new == FileDesc(slot + 1, opened.ptr)
           desc == kzalloc(opened.mem, new)
           fdn == slot + 1
<1>1. /\ mem' = desc.mem
      /\ file_descriptors' = [file_descriptors EXCEPT ![slot] = desc.ptr]
      /\ handles' = handles \cup {fdn}
      /\ answer' = <<"fd", fdn, name>>
  BY DEF FopenReturns, FirstSlot
<1>2. /\ slot \in Slots /\ slot \in Nat /\ slot < MAX_DESCRIPTORS /\ file_descriptors[slot] = NULL
      /\ MAX_DESCRIPTORS \in Nat /\ Slots = 0..(MAX_DESCRIPTORS - 1)
  BY FirstSlotEmpty, VfsAssumption DEF IInv, Typed, Slots
<1>3. new \in Object /\ new # Free /\ opened.mem \in [Block -> Object]
  BY <1>2, Objects, NotFreeObjects DEF Extends, Ptr
<1>4. /\ desc.ptr \in Block /\ opened.mem[desc.ptr] = Free /\ Extends(opened.mem, mem')
      /\ mem'[desc.ptr] = new
  <2>1. Room(opened.mem, 0 + 1)
    OBVIOUS
  <2> HIDE DEF new
  <2> QED
    BY <1>1, <1>3, <2>1, KzallocRoom
<1> HIDE DEF desc
<1>5. desc.ptr # NULL
  BY <1>4, VfsAssumption DEF Block, NULL
<1>6. Extends(mem, mem')
  BY <1>4, ExtendsTransitive
<1>7. Slots' = Slots /\ \A s \in Slots : file_descriptors'[s] = IF s = slot THEN desc.ptr ELSE file_descriptors[s]
  BY <1>1, <1>2 DEF IInv, Typed, Slots
<1>8. slot # MAX_DESCRIPTORS - 1
  <2>1. PICK s \in EmptySlots : s # MAX_DESCRIPTORS - 1
    OBVIOUS
  <2>2. slot <= s
    <3>1. EmptySlots \in SUBSET Nat
      BY <1>2 DEF EmptySlots
    <3>2. \E m \in EmptySlots : \A t \in EmptySlots : m <= t
      BY <3>1, LeastElement
    <3> QED
      BY <3>2 DEF FirstSlot
  <2>3. s \in 0..(MAX_DESCRIPTORS - 1)
    BY <1>2 DEF EmptySlots
  <2> QED
    BY <1>2, <2>1, <2>2, <2>3
<1>9. fdn < MAX_DESCRIPTORS /\ get_file_descriptor(fdn)' = desc.ptr
  <2>1. fdn < MAX_DESCRIPTORS /\ fdn # 0 /\ fdn - 1 = slot
    BY <1>2, <1>8
  <2> QED
    BY <1>2, <1>7, <2>1 DEF get_file_descriptor
<1>10. fdn \notin handles
  <2> SUFFICES ASSUME fdn \in handles
               PROVE  FALSE
    OBVIOUS
  <2>1. get_file_descriptor(fdn) # NULL
    BY DEF Sound, Live, Found
  <2>2. fdn - 1 = slot
    BY <1>2
  <2> QED
    BY <1>2, <2>1, <2>2, SlotOf DEF IInv
<1>11. Private(fdn)' = opened.ptr
  BY <1>4, <1>9 DEF Private, FileDesc
<1>12. PICK p \in Block, c \in Block : /\ opened.mem[opened.ptr] = FatDesc(p, 0)
                                       /\ opened.mem[p] = FatItem(c)
                                       /\ opened.mem[c] = DirItem(name)
  OBVIOUS
<1>13. mem'[opened.ptr] = FatDesc(p, 0) /\ mem'[p] = FatItem(c) /\ mem'[c] = DirItem(name)
  BY <1>4, <1>12, NotFreeObjects DEF Extends
<1>14. ItemOf(fdn)' = p
  BY <1>11, <1>13 DEF ItemOf, FatDesc
<1>15. DirItemOf(fdn)' = c
  BY <1>13, <1>14 DEF DirItemOf, FatItem
<1>16. NameOf(fdn)' = name /\ mem'[Private(fdn)'].pos = 0
  <2>1. c # NULL
    BY VfsAssumption DEF Block, NULL
  <2>2. DirItem(name).name = name /\ FatDesc(p, 0).pos = 0
    BY DEF DirItem, FatDesc
  <2> QED
    BY <1>11, <1>13, <1>15, <2>1, <2>2 DEF NameOf
<1>17. ASSUME NEW fd \in handles
       PROVE  NameOf(fd)' = NameOf(fd) /\ mem'[Private(fd)'].pos = mem[Private(fd)].pos
  <2>1. fd \in Live /\ fd # fdn
    BY <1>10 DEF Sound
  <2>2. get_file_descriptor(fd)' = get_file_descriptor(fd)
    <3>1. /\ fd \in Nat \ {0} /\ fd <= MAX_DESCRIPTORS
          /\ get_file_descriptor(fd) = IF fd >= MAX_DESCRIPTORS THEN NULL ELSE file_descriptors[fd - 1]
      BY SlotOf DEF IInv
    <3>2. get_file_descriptor(fd)' = IF fd >= MAX_DESCRIPTORS THEN NULL ELSE file_descriptors'[fd - 1]
      BY <3>1 DEF get_file_descriptor
    <3>3. fd - 1 # slot /\ (fd < MAX_DESCRIPTORS => fd - 1 \in Slots)
      BY <1>2, <2>1, <3>1
    <3> QED
      BY <1>2, <1>7, <3>1, <3>2, <3>3
  <2> QED
    BY <1>6, <2>1, <2>2, ExtendingKeeps
<1>18. OpenFiles' = [d \in handles \cup {fdn} |-> IF d = fdn THEN [file |-> name, pos |-> 0] ELSE OpenFiles[d]]
  BY <1>1, <1>10, <1>16, <1>17 DEF OpenFiles
<1>19. fdn \notin Spent /\ Spent' = Spent \cup {fdn}
  <2>1. \A s \in Slots : s \in EmptySlots <=> file_descriptors[s] = NULL
    BY DEF EmptySlots
  <2>2. \A s \in Slots : s \in EmptySlots' <=> file_descriptors'[s] = NULL
    BY <1>7 DEF EmptySlots
  <2>3. Slots' \ EmptySlots' = (Slots \ EmptySlots) \cup {slot} /\ slot \in EmptySlots
    BY <1>2, <1>5, <1>7, <2>1, <2>2
  <2>4. \A s \in Slots : s + 1 = fdn => s = slot
    BY <1>2
  <2>5. Spent' = {s + 1 : s \in Slots' \ EmptySlots'}
    BY DEF Spent
  <2> QED
    BY <2>3, <2>4, <2>5 DEF Spent
<1>20. fdn \in 1..MAX_DESCRIPTORS
  BY <1>2
<1>21. DOMAIN OpenFiles = handles
  BY DEF OpenFiles
<1>22. Service!Open(name, fdn)
  BY <1>1, <1>18, <1>19, <1>21 DEF Service!Open, OpenFiles, Spent
<1> QED
  BY <1>20, <1>22 DEF Service!ServiceNext

\* Memory for every file is memory for the one that is opened.
LEMMA EnoughRoom ==
    ASSUME Enough, NEW name \in DOMAIN Root
    PROVE  Lost(name) \in Nat /\ Room(mem, 7 + Lost(name))
<1>1. Cardinality(FreeBlocks(mem)) \in Nat /\ Lost(name) \in Nat
  BY FreeFinite, LostNat
<1>2. CASE Root[name].dir
  <2>1. Root[name].blocks \in Nat /\ Lost(name) = Root[name].blocks + 1
    BY <1>2, DiskAssumption DEF Lost
  <2> QED
    BY <1>1, <1>2, <2>1 DEF Enough, Room
<1>3. CASE ~Root[name].dir
  BY <1>1, <1>3 DEF Enough, Room, Lost
<1> QED
  BY <1>1, <1>2, <1>3

\* With enough memory, fopen is a step of the service.
LEMMA FopenServes ==
    ASSUME IInv, Sound, Enough, EmptySlots # {MAX_DESCRIPTORS - 1},
           NEW path \in Paths, NEW mode \in {"r", "w"}, fopen(path, mode)
    PROVE  Service!ServiceNext
<1> DEFINE parsed == parse_path(mem, path)
           opened == fat16_open(parsed.mem, parsed.parts, mode)
           t == Target(path, mode)
<1>1. IF parsed.parts = <<>> \/ path.drive # 0 THEN FopenFails(parsed.mem, t)
      ELSE IF opened.ptr = NULL \/ EmptySlots = {} THEN FopenFails(opened.mem, t)
      ELSE FopenReturns(opened, t)
  BY DEF fopen
<1>2. mem \in [Block -> Object] /\ Extends(mem, parsed.mem)
  BY ParsePathExtends DEF IInv, Typed
<1>3. Extends(mem, opened.mem)
  <2> HIDE DEF parsed
  <2>1. parsed.mem \in [Block -> Object]
    BY <1>2 DEF Extends
  <2>2. Extends(parsed.mem, opened.mem)
    BY <2>1, OpenExtends DEF NewFile
  <2> HIDE DEF opened
  <2> QED
    BY <1>2, <2>2, ExtendsTransitive
<1>4. t \in DOMAIN Root \cup {"no file"}
  BY DEF Target
<1>5. path.parts \in Seq(STRING)
  BY VfsAssumption
<1>6. ASSUME path.valid, NEW k \in Nat, Room(mem, 7 + k)
      PROVE  /\ Len(path.parts) = 0 => parsed.parts = <<>>
             /\ Len(path.parts) = 1 =>
                  /\ parsed.parts = path.parts /\ parsed.mem \in [Block -> Object]
                  /\ Room(parsed.mem, 4 + k)
             /\ Len(path.parts) > 1 => Len(parsed.parts) > 1
  BY <1>2, <1>6, ParseRoom
<1>11. Room(mem, 7 + 0)
  BY FreeFinite DEF Enough, Room
<1>12. path.valid =>
        /\ Len(path.parts) = 0 => parsed.parts = <<>>
        /\ Len(path.parts) = 1 => parsed.parts = path.parts
        /\ Len(path.parts) > 1 => Len(parsed.parts) > 1
  BY <1>6, <1>11
<1>7. ~path.valid => parsed.parts = <<>>
  BY DEF parse_path, Parsed
<1> HIDE DEF parsed
<1>8. ASSUME NEW m, Extends(mem, m), FopenFails(m, t), t = "no file" \/ EmptySlots = {}
      PROVE  Service!ServiceNext
  <2> HIDE DEF t
  <2>1. mem' = m
    BY <1>8 DEF FopenFails
  <2>2. FopenFails(mem', t) /\ Extends(mem, mem')
    BY <1>8, <2>1 DEF FopenFails
  <2> QED
    BY <1>4, <1>8, <2>2, RefusedStep
<1>9. CASE t = "no file"
  <2>1. opened.ptr # NULL /\ parsed.parts # <<>> /\ path.drive = 0 => FALSE
    <3> SUFFICES ASSUME opened.ptr # NULL, parsed.parts # <<>>, path.drive = 0
                 PROVE  FALSE
      OBVIOUS
    <3>1. mode = "r" /\ Head(parsed.parts) \in DOMAIN Root /\ ~(Len(parsed.parts) > 1)
      BY DEF fat16_open, fat16_get_dir_entry
    <3>2. path.valid /\ Len(path.parts) = 1 /\ parsed.parts = path.parts
      <4>1. path.valid
        BY <1>7
      <4>2. Len(path.parts) # 0 /\ ~(Len(path.parts) > 1)
        BY <1>12, <3>1, <4>1
      <4>3. Len(path.parts) \in Nat
        BY <1>5
      <4>4. Len(path.parts) = 1
        BY <4>2, <4>3, OneLong
      <4> QED
        BY <1>12, <4>1, <4>4
    <3>3. t = Head(path.parts)
      BY <3>1, <3>2 DEF Target
    <3> QED
      BY <1>9, <3>1, <3>2, <3>3, DiskAssumption
  <2>2. FopenFails(parsed.mem, t) \/ FopenFails(opened.mem, t)
    BY <1>1, <2>1
  <2> HIDE DEF opened, t
  <2> QED
    BY <1>2, <1>3, <1>8, <1>9, <2>2
<1>10. CASE t # "no file"
  <2>1. path.valid /\ path.drive = 0 /\ mode = "r" /\ Len(path.parts) = 1
        /\ Head(path.parts) \in DOMAIN Root /\ t = Head(path.parts)
    BY <1>10 DEF Target
  <2>2. /\ parsed.parts = path.parts /\ parsed.mem \in [Block -> Object]
        /\ Room(parsed.mem, 4 + Lost(Head(path.parts)))
    <3>1. Lost(Head(path.parts)) \in Nat /\ Room(mem, 7 + Lost(Head(path.parts)))
      BY <2>1, EnoughRoom
    <3> QED
      BY <1>6, <2>1, <3>1
  <2>3. parsed.parts # <<>>
    BY <2>1, <2>2
  <2>4. /\ opened.ptr \in Block /\ Room(opened.mem, 1)
        /\ \E p, c \in Block : /\ opened.mem[opened.ptr] = FatDesc(p, 0)
                               /\ opened.mem[p] = FatItem(c)
                               /\ opened.mem[c] = DirItem(t)
    BY <1>5, <2>1, <2>2, OpenRoom
  <2>5. opened.ptr # NULL
    BY <2>4, VfsAssumption DEF Block, NULL
  <2>6. t \in DOMAIN Root
    BY <2>1
  <2> HIDE DEF opened, t
  <2>7. CASE EmptySlots = {}
    BY <1>1, <1>3, <1>8, <2>1, <2>3, <2>7
  <2>8. CASE EmptySlots # {}
    <3>1. FopenReturns(opened, t)
      BY <1>1, <2>1, <2>3, <2>5, <2>8
    <3> QED
      BY <1>3, <2>4, <2>6, <2>8, <3>1, OpenedStep
  <2> QED
    BY <2>7, <2>8
<1> QED
  BY <1>9, <1>10

\* What the other calls know of an open file.
LEMMA OpenFileFacts ==
    ASSUME IInv, Sound, NEW fd \in handles
    PROVE  /\ fd \in Live /\ Found(fd) /\ Intact(fd)
           /\ NameOf(fd) \in DOMAIN Root
           /\ Sizes(fd) = {Root[NameOf(fd)].size}
           /\ Root[NameOf(fd)].size \in Nat
           /\ mem[Private(fd)] \in [kind : {"fat_file_descriptor"}, item : Ptr, pos : Nat]
           /\ OpenFiles[fd] = [file |-> NameOf(fd), pos |-> mem[Private(fd)].pos]
<1>1. fd \in Live /\ Found(fd) /\ DirItemOf(fd) # NULL
  BY DEF Sound, Live
<1>2. Intact(fd)
  BY <1>1 DEF IInv, AllIntact
<1>3. DirItemOf(fd) \in Block /\ mem[DirItemOf(fd)].kind = "fat_directory_item"
  BY <1>1, <1>2 DEF Intact, Ptr
<1>4. mem[DirItemOf(fd)] \in [kind : {"fat_directory_item"}, name : DOMAIN Root]
  BY <1>3 DEF IInv, Typed, Object, Free, Path, FatDirectory
<1>5. NameOf(fd) = mem[DirItemOf(fd)].name /\ NameOf(fd) \in DOMAIN Root
  BY <1>1, <1>4 DEF NameOf
<1>6. Sizes(fd) = {Root[NameOf(fd)].size}
  BY <1>1, <1>5 DEF Sizes
<1>7. Root[NameOf(fd)].size \in Nat
  BY <1>5, DiskAssumption
<1>8. mem[Private(fd)] \in [kind : {"fat_file_descriptor"}, item : Ptr, pos : Nat]
  BY <1>2 DEF Intact, IInv, Typed, Object, Free, Path, FatDirectory
<1> QED
  BY <1>1, <1>2, <1>5, <1>6, <1>7, <1>8 DEF OpenFiles

\* A step that changes nothing of Vfs changes nothing of the service.
LEMMA UnchangedOpen ==
    ASSUME UNCHANGED <<mem, file_descriptors, handles>>
    PROVE  OpenFiles' = OpenFiles /\ Spent' = Spent
  BY DEF OpenFiles, Spent, Slots, EmptySlots, NameOf, DirItemOf, ItemOf, Private, get_file_descriptor

\* fstat and fread answer with the size that the service has for the file.
LEMMA LookServes ==
    ASSUME IInv, Sound, NEW fd \in handles, fstat(fd) \/ fread(fd)
    PROVE  Service!ServiceNext
<1>1. /\ Found(fd) /\ Sizes(fd) = {Root[NameOf(fd)].size} /\ NameOf(fd) \in DOMAIN Root
      /\ OpenFiles[fd] = [file |-> NameOf(fd), pos |-> mem[Private(fd)].pos]
  BY OpenFileFacts
<1>2. UNCHANGED <<mem, file_descriptors, handles>>
  BY DEF fstat, fread, Fails
<1>3. OpenFiles' = OpenFiles /\ Spent' = Spent
  BY <1>2, UnchangedOpen
<1>4. \/ answer' = <<"size", Root[NameOf(fd)].size>>
      \/ answer' = <<"data", NameOf(fd), mem[Private(fd)].pos>>
      \/ answer' = <<"error", "fread">>
  BY <1>1 DEF fstat, fread, Fails
<1>5. [f \in DOMAIN Root |-> Root[f].size][NameOf(fd)] = Root[NameOf(fd)].size
  BY <1>1
<1>6. OpenFiles[fd].file = NameOf(fd) /\ OpenFiles[fd].pos = mem[Private(fd)].pos
  BY <1>1
<1>7. Service!Stat(fd) \/ Service!Read(fd) \/ Service!Fail("fread")
  BY <1>3, <1>4, <1>5, <1>6 DEF Service!Stat, Service!Read, Service!Fail, OpenFiles, Spent
<1>8. fd \in DOMAIN OpenFiles
  BY DEF OpenFiles
<1> QED
  BY <1>7, <1>8 DEF Service!ServiceNext, OpenFiles

\* fclose takes its file from the service and no other.
LEMMA CloseServes ==
    ASSUME IInv, Sound, NEW fd \in handles, fclose(fd)
    PROVE  Service!ServiceNext
<1>1. Found(fd) /\ Intact(fd) /\ fd \in Live
  BY OpenFileFacts
<1> DEFINE gone == {DirItemOf(fd), ItemOf(fd), Private(fd)}
<1>2. /\ answer' = <<"ok">> /\ mem' = kfree(mem, gone)
      /\ UNCHANGED file_descriptors /\ handles' = handles \ {fd}
  BY <1>1 DEF fclose
<1>3. \A b \in Block : b \notin gone => mem'[b] = mem[b]
  <2> HIDE DEF gone
  <2> QED
    BY <1>2 DEF kfree
<1>4. ASSUME NEW d \in handles \ {fd}
      PROVE  NameOf(d)' = NameOf(d) /\ mem'[Private(d)'].pos = mem[Private(d)].pos
  <2>1. d \in Live /\ Intact(d)
    BY OpenFileFacts
  <2>2. /\ Private(d) # Private(fd) /\ ItemOf(d) # ItemOf(fd)
        /\ DirItemOf(d) # NULL => DirItemOf(d) # DirItemOf(fd)
    BY <1>1, <2>1 DEF IInv, SameKindApart
  <2>3. \A b \in Block : b # NULL
    BY VfsAssumption DEF Block, NULL
  <2>4. /\ get_file_descriptor(d) \notin gone /\ Private(d) \notin gone /\ ItemOf(d) \notin gone
        /\ DirItemOf(d) # NULL => DirItemOf(d) \notin gone
    BY <1>1, <2>1, <2>2, <2>3 DEF Intact
  <2> HIDE DEF gone
  <2>5. /\ mem'[get_file_descriptor(d)] = mem[get_file_descriptor(d)]
        /\ mem'[Private(d)] = mem[Private(d)] /\ mem'[ItemOf(d)] = mem[ItemOf(d)]
        /\ DirItemOf(d) # NULL => mem'[DirItemOf(d)] = mem[DirItemOf(d)]
    BY <1>3, <2>1, <2>4 DEF Intact, Ptr
  <2>6. get_file_descriptor(d)' = get_file_descriptor(d)
    BY <1>2 DEF get_file_descriptor
  <2>7. Private(d)' = Private(d) /\ NameOf(d)' = NameOf(d)
    BY <2>1, <2>5, <2>6, KeptOpen
  <2> QED
    BY <2>5, <2>7
<1>5. OpenFiles' = [d \in handles \ {fd} |-> OpenFiles[d]]
  BY <1>2, <1>4 DEF OpenFiles
<1>6. Spent' = Spent
  BY <1>2 DEF Spent, Slots, EmptySlots
<1>7. DOMAIN OpenFiles = handles
  BY DEF OpenFiles
<1>8. Service!Close(fd)
  BY <1>2, <1>5, <1>6, <1>7 DEF Service!Close, OpenFiles, Spent
<1> QED
  BY <1>7, <1>8 DEF Service!ServiceNext, OpenFiles

\* fseek moves to the position that the service moves to, or is refused as there.
LEMMA SeekServes ==
    ASSUME IInv, Sound, NEW fd \in handles, NEW offset \in Offsets,
           NEW whence \in {"SEEK_SET", "SEEK_CUR", "SEEK_END"}, fseek(fd, offset, whence)
    PROVE  Service!ServiceNext
<1> DEFINE p == Private(fd)
           size == Root[NameOf(fd)].size
           inside == offset < size
<1>1. /\ Found(fd) /\ Intact(fd) /\ fd \in Live /\ Sizes(fd) = {size} /\ size \in Nat
      /\ NameOf(fd) \in DOMAIN Root
      /\ mem[p] \in [kind : {"fat_file_descriptor"}, item : Ptr, pos : Nat]
      /\ OpenFiles[fd] = [file |-> NameOf(fd), pos |-> mem[p].pos]
  BY OpenFileFacts
<1>2. UNCHANGED <<file_descriptors, handles>> /\ fat16_seek(fd, offset, whence)
  BY <1>1 DEF fseek
<1>3. offset \in Nat /\ (inside <=> ~(offset >= size))
  BY <1>1, VfsAssumption
<1>4. OpenFiles[fd].file = NameOf(fd) /\ OpenFiles[fd].pos = mem[p].pos
  BY <1>1
<1>5. [f \in DOMAIN Root |-> Root[f].size][OpenFiles[fd].file] = size
  BY <1>1, <1>4
<1>6. Spent' = Spent
  BY <1>2 DEF Spent, Slots, EmptySlots
<1>7. DOMAIN OpenFiles = handles
  BY DEF OpenFiles
<1>8. CASE ~inside \/ whence = "SEEK_END"
  <2>1. mem' = mem /\ answer' = <<"error", "fseek">>
    BY <1>1, <1>2, <1>3, <1>8 DEF fat16_seek, Fails
  <2>2. OpenFiles' = OpenFiles
    BY <1>2, <2>1, UnchangedOpen
  <2>3. Service!Fail("fseek")
    BY <1>6, <2>1, <2>2 DEF Service!Fail, OpenFiles, Spent
  <2>4. Service!Seek(fd, offset, whence)
    BY <1>5, <1>8, <2>3 DEF Service!Seek, OpenFiles
  <2> QED
    BY <1>7, <2>4 DEF Service!ServiceNext, OpenFiles
<1>9. CASE inside /\ whence # "SEEK_END"
  <2> DEFINE pos == offset + (IF whence = "SEEK_CUR" THEN mem[p].pos ELSE 0)
  <2>1. mem' = [mem EXCEPT ![p].pos = pos] /\ answer' = <<"ok">>
    BY <1>1, <1>2, <1>3, <1>9 DEF fat16_seek
  <2> HIDE DEF pos, p
  <2>2. p \in Block /\ mem[p].kind = "fat_file_descriptor" /\ mem \in [Block -> Object]
    BY <1>1 DEF Intact, IInv, Typed, p
  <2>3. /\ \A b \in Block : b # p => mem'[b] = mem[b]
        /\ mem'[p].pos = pos /\ mem'[p].kind = mem[p].kind /\ mem'[p].item = mem[p].item
    BY <1>1, <2>1, <2>2
  <2>4. ASSUME NEW d \in handles
        PROVE  /\ Private(d)' = Private(d) /\ NameOf(d)' = NameOf(d)
               /\ d # fd => Private(d) # p /\ Private(d) \in Block
    <3>1. d \in Live /\ Intact(d) /\ DirItemOf(d) # NULL
      BY OpenFileFacts DEF Sound
    <3>2. /\ get_file_descriptor(d) # p /\ ItemOf(d) # p /\ DirItemOf(d) # p
          /\ get_file_descriptor(d) \in Block /\ ItemOf(d) \in Block /\ Private(d) \in Block
          /\ DirItemOf(d) \in Block
      BY <2>2, <3>1 DEF Intact, Ptr
    <3>3. /\ mem'[get_file_descriptor(d)] = mem[get_file_descriptor(d)]
          /\ mem'[ItemOf(d)] = mem[ItemOf(d)] /\ mem'[DirItemOf(d)] = mem[DirItemOf(d)]
          /\ mem'[Private(d)].kind = mem[Private(d)].kind /\ mem'[Private(d)].item = mem[Private(d)].item
      BY <2>3, <3>2
    <3>4. get_file_descriptor(d)' = get_file_descriptor(d)
      BY <1>2 DEF get_file_descriptor
    <3>5. Private(d)' = Private(d) /\ DirItemOf(d)' = DirItemOf(d)
      BY <3>1, <3>3, <3>4, KeptFile
    <3>6. NameOf(d)' = NameOf(d)
      BY <3>3, <3>5 DEF NameOf
    <3>7. d # fd => Private(d) # p
      BY <1>1, <3>1 DEF IInv, SameKindApart, p
    <3> QED
      BY <3>2, <3>5, <3>6, <3>7
  <2>5. OpenFiles' = [OpenFiles EXCEPT ![fd].pos = pos]
    <3>1. OpenFiles' = [d \in handles |-> [file |-> NameOf(d)', pos |-> mem'[Private(d)'].pos]]
      BY <1>2 DEF OpenFiles
    <3>2. \A d \in handles : mem'[Private(d)'].pos = IF d = fd THEN pos ELSE mem[Private(d)].pos
      BY <2>3, <2>4 DEF p
    <3>3. \A d \in handles : [file |-> NameOf(d)', pos |-> mem'[Private(d)'].pos]
                = IF d = fd THEN [file |-> NameOf(fd), pos |-> pos] ELSE OpenFiles[d]
      BY <2>4, <3>2 DEF OpenFiles
    <3>4. [OpenFiles[fd] EXCEPT !.pos = pos] = [file |-> NameOf(fd), pos |-> pos]
      BY <1>1
    <3>5. OpenFiles = [d \in handles |-> OpenFiles[d]]
      BY DEF OpenFiles
    <3> HIDE DEF OpenFiles
    <3>6. OpenFiles' = [d \in handles |-> IF d = fd THEN [OpenFiles[fd] EXCEPT !.pos = pos] ELSE OpenFiles[d]]
      BY <3>1, <3>3, <3>4
    <3> QED
      BY <3>5, <3>6
  <2>6. Service!MoveTo(fd, pos)
    BY <1>6, <2>1, <2>5 DEF Service!MoveTo, OpenFiles, Spent
  <2>7. pos = IF whence = "SEEK_CUR" THEN OpenFiles[fd].pos + offset ELSE offset
    BY <1>1, <1>3, <1>4 DEF pos
  <2>8. Service!Seek(fd, offset, whence)
    BY <1>5, <1>9, <2>6, <2>7 DEF Service!Seek, OpenFiles
  <2> QED
    BY <1>7, <2>8 DEF Service!ServiceNext, OpenFiles
<1> QED
  BY <1>8, <1>9

\* vfs.c, fat16.c and pparser.c with all their memory are the file service as long
\* as there is memory for one more file and the last slot is not the only one left:
\* fopen opens what it was asked for, whole, and every descriptor keeps its file and
\* its position, whatever the other calls do.
THEOREM VfsImplementsFileService == Spec => ImplementsFileService
<1>1. Init => Service!ServiceInit
  <2> SUFFICES ASSUME Init
               PROVE  Service!ServiceInit
    OBVIOUS
  <2>1. handles = {} /\ answer = <<"none">> /\ Slots \ EmptySlots = {}
    BY DEF Init, Slots, EmptySlots
  <2> QED
    BY <2>1 DEF Service!ServiceInit
<1>2. ASSUME IInv, Next, Sound, Enough, EmptySlots # {MAX_DESCRIPTORS - 1}
      PROVE  Service!ServiceNext
  BY <1>2, FopenServes, LookServes, CloseServes, SeekServes DEF Next
<1>3. IInv /\ [Next]_vars =>
        [Sound /\ Enough /\ EmptySlots # {MAX_DESCRIPTORS - 1}
            => [Service!ServiceNext]_(Service!service)]_vars
  BY <1>2
<1> QED
  BY <1>1, <1>3, Invariance, PTL DEF Spec, ImplementsFileService
=============================================================================
