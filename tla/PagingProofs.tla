---------------------------- MODULE PagingProofs ----------------------------
(***************************************************************************)
(* Proofs about Paging, for tables of any size.  What makes the kernel     *)
(* able to edit its tables with paging on is a circle: the tables lie in   *)
(* the heap, the heap is mapped onto itself, and it is the tables that map *)
(* it.  The invariant says that directories and tables are blocks of their *)
(* own, wherever the heap has found room for them (Located), and that the  *)
(* circle closes (HeapStaysMapped).                                        *)
(***************************************************************************)
EXTENDS Paging, FiniteSetTheorems, NaturalLemmas, TLAPS

Typed ==
    /\ mem \in [HeapFrames -> [Index -> Words]]
    /\ used \subseteq HeapFrames
    /\ cr3 \in dirs \cup {NoDir} /\ current_dir = cr3
    /\ paging \in BOOLEAN
    /\ paging => cr3 # NoDir
    /\ \A p \in DOMAIN tlb : tlb[p] \in Words
    /\ seen \in Frames \cup {Fault}

\* The frame that word i of a directory points to.
TableAt(d, i) == FrameOf(mem[d][i])

\* Directories and tables lie in blocks that have been taken, a block each.
Located ==
    /\ dirs \subseteq used
    /\ \A d \in dirs, i \in Index : TableAt(d, i) \in used \ dirs
    /\ \A c, d \in dirs, i, j \in Index : TableAt(c, i) = TableAt(d, j) => c = d /\ i = j

\* What the processor remembers of a page is what the tables say, unless the page
\* was set after the directory was loaded.
Remembered ==
    /\ DOMAIN tlb \subseteq UserPages
    /\ DOMAIN tlb # {} => cr3 # NoDir
    /\ \A p \in DOMAIN tlb \ changed : tlb[p] = Walk(cr3, p)

PInv == Typed /\ Located /\ HeapStaysMapped /\ Remembered

-----------------------------------------------------------------------------
(* Words and indexes.                                                      *)

\* A frame and flags make a word from which the frame can be read again.
LEMMA FrameOfWord ==
    ASSUME NEW f \in Nat, NEW x \in 0..(PageSize - 1)
    PROVE  FrameOf(f * PageSize + x) = f /\ f * PageSize + x \in Nat
<1>1. PageSize \in Nat \ {0}
  BY PagingAssumption
<1>2. f * PageSize = PageSize * f /\ f * PageSize \in Nat
  BY <1>1, SMTT(20)
<1> DEFINE n == f * PageSize + x
<1>3. n \in Nat /\ n = PageSize * f + x
  BY <1>1, <1>2
<1> HIDE DEF n
<1>4. n \div PageSize = f
  BY <1>1, <1>3, QuotientUnique, Zenon
<1> QED
  BY <1>3, <1>4 DEF n, FrameOf

LEMMA WordInWords ==
    ASSUME NEW f \in Frames, NEW x \in 0..(PageSize - 1)
    PROVE  f * PageSize + x \in Words
<1>1. PageSize \in Nat \ {0} /\ Entries \in Nat \ {0}
  BY PagingAssumption
<1> DEFINE all == Entries * Entries
<1>2. all \in Nat /\ f \in Nat /\ f + 1 <= all
  <2>1. all \in Nat
    BY <1>1, SMTT(20)
  <2> QED
    BY <2>1 DEF Frames
<1> HIDE DEF all
<1>3. (f + 1) * PageSize <= all * PageSize
  BY <1>1, <1>2, SMTT(20)
<1>4. (f + 1) * PageSize = f * PageSize + PageSize
  BY <1>1, <1>2, SMTT(20)
<1> DEFINE a == f * PageSize
           b == all * PageSize
<1>5. a \in Nat /\ b \in Nat
  BY <1>1, <1>2, SMTT(20)
<1>6. a + PageSize <= b
  BY <1>3, <1>4
<1> HIDE DEF a, b
<1>7. a + x \in 0..(b - 1)
  BY <1>1, <1>5, <1>6
<1> QED
  BY <1>7 DEF a, b, all, Words

LEMMA FrameOfWords ==
    ASSUME NEW w \in Words
    PROVE  FrameOf(w) \in Frames
<1>1. PageSize \in Nat \ {0} /\ Entries \in Nat \ {0}
  BY PagingAssumption
<1> DEFINE all == Entries * Entries
<1>2. all \in Nat
  BY <1>1, SMTT(20)
<1>3. all * PageSize \in Nat
  <2> HIDE DEF all
  <2> QED
    BY <1>1, <1>2, SMTT(20)
<1>4. w \in Nat /\ w < all * PageSize
  BY <1>3 DEF Words
<1> HIDE DEF all
<1>5. w \div PageSize < all
  BY <1>1, <1>2, <1>4, QuotientBelow
<1>6. w \div PageSize \in Nat
  BY <1>1, <1>4, QuotientRemainder
<1> QED
  BY <1>2, <1>5, <1>6 DEF FrameOf, Frames, all

\* The flags of a page are those of its word.
LEMMA PresentWord ==
    ASSUME NEW f \in Nat, NEW x \in Nat, Present(x)
    PROVE  Present(f * PageSize + x)
<1>1. PageSize \in Nat /\ PageSize % 4 = 0
  BY PagingAssumption
<1>2. PageSize = 4 * (PageSize \div 4) /\ PageSize \div 4 \in Nat
  BY <1>1, SMT
<1> DEFINE k == PageSize \div 4
<1>3. f * PageSize = 2 * (2 * (f * k)) /\ f * k \in Nat
  <2>1. k \in Nat /\ PageSize = 4 * k
    BY <1>2
  <2> HIDE DEF k
  <2> QED
    BY <2>1, SMTT(20)
<1> DEFINE m == f * k
           n == f * PageSize
<1>4. n = 2 * (2 * m) /\ m \in Nat
  BY <1>3
<1> HIDE DEF m, n
<1>5. (n + x) % 2 = x % 2
  BY <1>4, SMT
<1> QED
  BY <1>5 DEF n, Present

\* The writeable flag makes no address out of flags.
LEMMA WriteableFlags ==
    ASSUME NEW flags \in Flags
    PROVE  Writeable(flags) \in 0..(PageSize - 1)
<1>1. /\ PageSize \in Nat \ {0} /\ PageSize % 4 = 0
      /\ flags \in 0..(PageSize - 1)
  BY PagingAssumption
<1>2. (flags \div 2) % 2 # 1 => flags + 2 \in 0..(PageSize - 1)
  BY <1>1, SMTT(20)
<1> QED
  BY <1>1, <1>2 DEF Writeable, PAGING_IS_WRITEABLE

\* A page is found by the number of its table and its number in the table.
LEMMA PageIndex ==
    ASSUME NEW p \in Frames
    PROVE  /\ p \in Nat
           /\ p \div Entries \in Index /\ p % Entries \in Index
           /\ p = (p \div Entries) * Entries + (p % Entries)
<1>1. Entries \in Nat \ {0}
  BY PagingAssumption
<1>2. Entries * Entries \in Nat
  BY <1>1, SMTT(20)
<1>3. p \in Nat /\ p < Entries * Entries
  BY <1>2 DEF Frames
<1>4. p \div Entries < Entries
  BY <1>1, <1>3, QuotientBelow
<1>5. p \div Entries \in Nat /\ p % Entries \in 0..(Entries - 1)
      /\ p = Entries * (p \div Entries) + (p % Entries)
  BY <1>1, <1>3, QuotientRemainder
<1> DEFINE q == p \div Entries
           r == p % Entries
<1>6. q \in Nat /\ q < Entries /\ r \in 0..(Entries - 1) /\ p = Entries * q + r
  BY <1>4, <1>5
<1> HIDE DEF q, r
<1>7. Entries * q = q * Entries
  BY <1>1, <1>6, SMTT(20)
<1> QED
  BY <1>1, <1>3, <1>6, <1>7 DEF Index, q, r

LEMMA IndexInFrames ==
    ASSUME NEW i \in Index, NEW j \in Index
    PROVE  i * Entries + j \in Frames
<1>1. Entries \in Nat \ {0} /\ i \in Nat /\ j \in Nat /\ i + 1 <= Entries /\ j < Entries
  BY PagingAssumption DEF Index
<1>2. (i + 1) * Entries <= Entries * Entries
  BY <1>1, SMTT(20)
<1>3. (i + 1) * Entries = i * Entries + Entries
  BY <1>1, SMTT(20)
<1> DEFINE a == i * Entries
           b == Entries * Entries
<1>4. a \in Nat /\ b \in Nat
  BY <1>1, SMTT(20)
<1>5. a + Entries <= b
  BY <1>2, <1>3
<1> HIDE DEF a, b
<1>6. a + j \in 0..(b - 1)
  BY <1>1, <1>4, <1>5
<1> QED
  BY <1>6 DEF a, b, Frames

\* paging_get_indexes finds the same place as the processor does.
LEMMA SameIndexes ==
    ASSUME NEW page \in Frames
    PROVE  /\ paging_get_indexes(page * PageSize).dir = page \div Entries
           /\ paging_get_indexes(page * PageSize).table = page % Entries
           /\ (page * PageSize) \div PageSize = page
<1>1. PageSize \in Nat \ {0} /\ Entries \in Nat \ {0}
  BY PagingAssumption
<1> DEFINE n == page * PageSize
           q == page \div Entries
           r == page % Entries
<1>2. page \in Nat /\ q \in Index /\ r \in Index /\ page = q * Entries + r
  BY PageIndex
<1>3. n \in Nat /\ n = PageSize * page
  BY <1>1, <1>2, SMTT(20)
<1>4. n \div PageSize = page
  <2>1. 0 \in 0..(PageSize - 1) /\ n = PageSize * page + 0
    BY <1>1, <1>2, <1>3
  <2> HIDE DEF n
  <2> QED
    BY <1>1, <1>2, <1>3, <2>1, QuotientUnique
<1> DEFINE whole == Entries * PageSize
<1>5. whole \in Nat \ {0} /\ whole = PageSize * Entries
  BY <1>1, SMTT(20)
<1>6. n \div whole = q
  <2> HIDE DEF n, whole
  <2>1. n \div (PageSize * Entries) = (n \div PageSize) \div Entries
    BY <1>1, <1>3, QuotientOfQuotient
  <2> QED
    BY <1>4, <1>5, <2>1 DEF q
<1>7. n = whole * q + PageSize * r
  <2>1. q \in Nat /\ r \in Nat
    BY <1>1, <1>2 DEF Index
  <2> HIDE DEF q, r
  <2>2. PageSize * (q * Entries + r) = (Entries * PageSize) * q + PageSize * r
    BY <1>1, <2>1, SMTT(20)
  <2>3. PageSize * page = PageSize * (q * Entries + r)
    BY <1>2
  <2> QED
    BY <1>3, <2>2, <2>3
<1>8. PageSize * r \in 0..(whole - 1)
  <2>1. r \in Nat /\ r + 1 <= Entries
    BY <1>1, <1>2 DEF Index
  <2> HIDE DEF r
  <2>2. PageSize * (r + 1) <= PageSize * Entries /\ PageSize * (r + 1) = PageSize * r + PageSize
    BY <1>1, <2>1, SMTT(20)
  <2> DEFINE a == PageSize * r
  <2>3. a \in Nat
    BY <1>1, <2>1, SMTT(20)
  <2>4. a + PageSize <= whole
    BY <1>5, <2>2
  <2> HIDE DEF a, whole
  <2>5. a \in 0..(whole - 1)
    BY <1>1, <1>5, <2>3, <2>4
  <2> QED
    BY <2>5 DEF a
<1>9. n % whole = PageSize * r
  <2> DEFINE a == PageSize * r
  <2>1. n = whole * q + a /\ a \in 0..(whole - 1) /\ q \in Nat
    BY <1>1, <1>2, <1>7, <1>8 DEF Index
  <2> HIDE DEF n, whole, a, q
  <2>2. n % whole = a
    BY <1>3, <1>5, <2>1, QuotientUnique
  <2> QED
    BY <2>2 DEF a
<1>10. (PageSize * r) \div PageSize = r
  <2> DEFINE a == PageSize * r
  <2>1. r \in Nat
    BY <1>1, <1>2 DEF Index
  <2>2. a \in Nat /\ a = PageSize * r + 0 /\ 0 \in 0..(PageSize - 1)
    <3> HIDE DEF r
    <3> QED
      BY <1>1, <2>1, SMTT(20)
  <2> HIDE DEF a, r
  <2>3. a \div PageSize = r
    BY <1>1, <2>1, <2>2, QuotientUnique
  <2> QED
    BY <2>3 DEF a
<1>11. /\ paging_get_indexes(n).dir = n \div whole
       /\ paging_get_indexes(n).table = (n % whole) \div PageSize
  BY DEF paging_get_indexes
<1> HIDE DEF whole
<1> QED
  BY <1>4, <1>6, <1>9, <1>10, <1>11

\* Only the first address of a page is aligned.
LEMMA AlignedOffset ==
    ASSUME NEW page \in Nat, NEW offset \in 0..(PageSize - 1),
           paging_is_aligned(page * PageSize + offset)
    PROVE  offset = 0
<1>1. PageSize \in Nat \ {0}
  BY PagingAssumption
<1> DEFINE n == page * PageSize + offset
<1>2. n \in Nat /\ n = PageSize * page + offset
  <2>1. page * PageSize = PageSize * page /\ page * PageSize \in Nat
    BY <1>1, SMTT(20)
  <2> QED
    BY <1>1, <2>1
<1>3. n % PageSize = 0
  BY DEF paging_is_aligned
<1> HIDE DEF n
<1>4. n % PageSize = offset
  BY <1>1, <1>2, QuotientUnique
<1> QED
  BY <1>3, <1>4
-----------------------------------------------------------------------------
(* Where things lie.                                                       *)

\* A directory and its tables are frames of the heap.
LEMMA PlacesInHeap ==
    ASSUME Typed, Located, NEW d \in dirs
    PROVE  /\ d \in HeapFrames /\ d \in Nat /\ d # NoDir
           /\ \A i \in Index : TableAt(d, i) \in HeapFrames
<1>1. d \in HeapFrames /\ \A i \in Index : TableAt(d, i) \in HeapFrames
  BY DEF Typed, Located
<1> QED
  BY <1>1, PagingAssumption DEF HeapFrames, NoDir

\* What the processor finds for a page.
LEMMA WalkWord ==
    ASSUME NEW d, NEW p
    PROVE  Walk(d, p) = mem[TableAt(d, p \div Entries)][p % Entries]
  BY DEF Walk, TableAt

\* The kernel reaches its heap under the addresses it knows, with paging or without.
LEMMA ReachedItself ==
    ASSUME PInv, NEW f \in HeapFrames
    PROVE  Reached(f) = f
  BY DEF PInv, Typed, HeapStaysMapped, Reached

\* Tables of one directory, and of different ones, are different.
LEMMA PlacesApart ==
    ASSUME Located, NEW c \in dirs, NEW d \in dirs, NEW i \in Index, NEW j \in Index
    PROVE  /\ c # TableAt(d, j)
           /\ TableAt(c, i) = TableAt(d, j) => c = d /\ i = j
  BY DEF Located

-----------------------------------------------------------------------------
(* What the heap gives to a row of calls.                                  *)

\* A finite set of numbers has, for every n below its size, a member that n others
\* are smaller than.
LEMMA RankedMember ==
    ASSUME NEW S \in SUBSET Nat, IsFiniteSet(S), NEW n \in Nat, n < Cardinality(S)
    PROVE  \E f \in S : Cardinality({g \in S : g < f}) = n
<1> DEFINE Ranked(k) == \A T \in SUBSET Nat :
                            IsFiniteSet(T) /\ k < Cardinality(T) =>
                                \E f \in T : Cardinality({g \in T : g < f}) = k
           R == {k \in Nat : Ranked(k)}
<1>1. ASSUME NEW T \in SUBSET Nat, IsFiniteSet(T), NEW k \in Nat, k < Cardinality(T)
      PROVE  \E m \in T : \A g \in T : m <= g
  <2>1. T # {}
    BY <1>1, FS_EmptySet
  <2> QED
    BY <2>1, LeastElement
<1>2. Ranked(0)
  <2> SUFFICES ASSUME NEW T \in SUBSET Nat, IsFiniteSet(T), 0 < Cardinality(T)
               PROVE  \E f \in T : Cardinality({g \in T : g < f}) = 0
    OBVIOUS
  <2>1. PICK m \in T : \A g \in T : m <= g
    BY <1>1
  <2>2. ASSUME NEW g \in T, g < m
        PROVE  FALSE
    BY <2>1, <2>2
  <2>3. {g \in T : g < m} = {}
    BY <2>2
  <2> QED
    BY <2>3, FS_EmptySet
<1>3. ASSUME NEW k \in Nat, Ranked(k)
      PROVE  Ranked(k + 1)
  <2> SUFFICES ASSUME NEW T \in SUBSET Nat, IsFiniteSet(T), k + 1 < Cardinality(T)
               PROVE  \E f \in T : Cardinality({g \in T : g < f}) = k + 1
    OBVIOUS
  <2>1. PICK m \in T : \A g \in T : m <= g
    BY <1>1
  <2> DEFINE U == T \ {m}
  <2>2. IsFiniteSet(U) /\ Cardinality(U) = Cardinality(T) - 1 /\ Cardinality(T) \in Nat
    BY FS_RemoveElement, FS_CardinalityType
  <2>3. U \in SUBSET Nat /\ k < Cardinality(U)
    BY <2>2
  <2>4. PICK f \in U : Cardinality({g \in U : g < f}) = k
    BY <1>3, <2>2, <2>3
  <2> DEFINE V == {g \in U : g < f}
  <2>5. m < f
    BY <2>1
  <2>6. {g \in T : g < f} = V \cup {m}
    BY <2>5
  <2>7. IsFiniteSet(V) /\ m \notin V
    BY <2>2, FS_Subset
  <2>8. Cardinality(V \cup {m}) = k + 1
    BY <2>4, <2>7, FS_AddElement
  <2> QED
    BY <2>6, <2>8
<1> HIDE DEF Ranked
<1>4. 0 \in R /\ \A k \in R : k + 1 \in R
  BY <1>2, <1>3
<1>5. R \in SUBSET Nat
  OBVIOUS
<1> HIDE DEF R
<1>6. R = Nat
  BY <1>4, <1>5, SetInduction
<1>7. Ranked(n)
  BY <1>6 DEF R
<1> QED
  BY <1>7 DEF Ranked

\* Each of a row of calls gets a block that was free, and none gets another's.
LEMMA FirstFitApart ==
    ASSUME NEW free \in SUBSET HeapFrames, Cardinality(free) >= Entries + 2
    PROVE  /\ \A n \in 0..(Entries + 1) : FirstFit(free, n) \in free
           /\ \A m, n \in 0..(Entries + 1) : FirstFit(free, m) = FirstFit(free, n) => m = n
<1>1. /\ HeapStart \in Nat /\ HeapEnd \in Nat /\ Entries \in Nat
  BY PagingAssumption
<1>2. IsFiniteSet(free) /\ free \in SUBSET Nat
  <2>1. IsFiniteSet(HeapFrames) /\ HeapFrames \in SUBSET Nat
    BY <1>1, FS_Interval DEF HeapFrames
  <2> QED
    BY <2>1, FS_Subset
<1>3. Cardinality(free) \in Nat
  BY <1>2, FS_CardinalityType
<1>4. ASSUME NEW n \in 0..(Entries + 1)
      PROVE  /\ FirstFit(free, n) \in free
             /\ Cardinality({g \in free : g < FirstFit(free, n)}) = n
  <2>1. \E f \in free : Cardinality({g \in free : g < f}) = n
    BY <1>1, <1>2, <1>3, RankedMember
  <2> QED
    BY <2>1 DEF FirstFit
<1> QED
  BY <1>4

-----------------------------------------------------------------------------
(* A new chunk.                                                            *)

\* The blocks of a new chunk.
Free(other) == HeapFrames \ (used \cup other)
NewDir(other) == FirstFit(Free(other), 0)
NewTable(other, i) == FirstFit(Free(other), i + 1)
NewBlocks(other) == {NewDir(other), FirstFit(Free(other), Entries + 1)}
                        \cup {NewTable(other, i) : i \in Index}

\* They are blocks that no chunk has taken, and all different.
LEMMA NewPlaces ==
    ASSUME NEW flags, NEW other, paging_new_4gb(flags, other)
    PROVE  /\ NewDir(other) \in HeapFrames \ used
           /\ \A i \in Index : /\ NewTable(other, i) \in HeapFrames \ used
                               /\ NewTable(other, i) # NewDir(other)
           /\ \A i, j \in Index : NewTable(other, i) = NewTable(other, j) => i = j
           /\ NewBlocks(other) \subseteq HeapFrames
<1>1. Entries \in Nat
  BY PagingAssumption
<1>2. Cardinality(Free(other)) >= Entries + 2 /\ Free(other) \in SUBSET HeapFrames
  BY DEF paging_new_4gb, Free
<1>3. /\ \A n \in 0..(Entries + 1) : FirstFit(Free(other), n) \in Free(other)
      /\ \A m, n \in 0..(Entries + 1) :
            FirstFit(Free(other), m) = FirstFit(Free(other), n) => m = n
  BY <1>2, FirstFitApart
<1>4. /\ 0 \in 0..(Entries + 1) /\ Entries + 1 \in 0..(Entries + 1)
      /\ \A i \in Index : i \in Nat /\ i + 1 \in 0..(Entries + 1) /\ i + 1 # 0
  BY <1>1 DEF Index
<1>5. NewDir(other) \in Free(other) /\ FirstFit(Free(other), Entries + 1) \in Free(other)
  BY <1>3, <1>4 DEF NewDir
<1>6. \A i \in Index : NewTable(other, i) \in Free(other) /\ NewTable(other, i) # NewDir(other)
  BY <1>3, <1>4 DEF NewDir, NewTable
<1>7. \A i, j \in Index : NewTable(other, i) = NewTable(other, j) => i = j
  <2> SUFFICES ASSUME NEW i \in Index, NEW j \in Index, NewTable(other, i) = NewTable(other, j)
               PROVE  i = j
    OBVIOUS
  <2>1. i + 1 = j + 1
    BY <1>3, <1>4 DEF NewTable
  <2> QED
    BY <1>4, <2>1
<1> QED
  BY <1>5, <1>6, <1>7 DEF NewBlocks, Free

\* What paging_new_4gb writes: its own blocks, and nothing else.
LEMMA NewChunk ==
    ASSUME PInv, NEW flags \in Flags, NEW other, paging_new_4gb(flags, other)
    PROVE  /\ mem'[NewDir(other)] = [i \in Index |-> NewTable(other, i) * PageSize + Writeable(flags)]
           /\ \A i \in Index : mem'[NewTable(other, i)] = TableWords(i, flags)
           /\ \A f \in used : mem'[f] = mem[f]
           /\ mem' \in [HeapFrames -> [Index -> Words]]
           /\ used' = used \cup NewBlocks(other)
           /\ dirs' = dirs \cup {NewDir(other)}
<1> DEFINE free == HeapFrames \ (used \cup other)
           dir == FirstFit(free, 0)
           tables == [i \in Index |-> FirstFit(free, i + 1)]
           Words1(f) == IF f = Reached(dir) THEN DirWords(tables, flags)
                        ELSE IF \E i \in Index : f = Reached(tables[i])
                        THEN TableWords((CHOOSE i \in Index : f = Reached(tables[i])), flags)
                        ELSE mem[f]
<1>1. /\ mem' = [f \in HeapFrames |-> Words1(f)]
      /\ used' = used \cup {dir, FirstFit(free, Entries + 1)} \cup {tables[i] : i \in Index}
      /\ dirs' = dirs \cup {dir}
  BY DEF paging_new_4gb
<1>2. dir = NewDir(other) /\ FirstFit(free, Entries + 1) = FirstFit(Free(other), Entries + 1)
  BY DEF NewDir, Free
<1>3. \A i \in Index : tables[i] = NewTable(other, i)
  BY DEF NewTable, Free
<1>4. DirWords(tables, flags) = [i \in Index |-> NewTable(other, i) * PageSize + Writeable(flags)]
  BY <1>3 DEF DirWords
<1>5. used' = used \cup NewBlocks(other)
  BY <1>1, <1>2, <1>3 DEF NewBlocks
<1> HIDE DEF free, tables
<1>6. /\ dir \in HeapFrames \ used
      /\ \A i \in Index : tables[i] \in HeapFrames \ used /\ tables[i] # dir
      /\ \A i, j \in Index : tables[i] = tables[j] => i = j
  BY <1>2, <1>3, NewPlaces
<1> HIDE DEF dir
<1>7. Reached(dir) = dir /\ \A i \in Index : Reached(tables[i]) = tables[i]
  BY <1>6, ReachedItself
<1>8. Words1(dir) = DirWords(tables, flags)
  BY <1>7
<1>9. ASSUME NEW i \in Index
      PROVE  Words1(tables[i]) = TableWords(i, flags)
  <2>1. tables[i] # Reached(dir) /\ \A j \in Index : tables[i] = Reached(tables[j]) <=> j = i
    BY <1>6, <1>7
  <2>2. (CHOOSE j \in Index : tables[i] = Reached(tables[j])) = i
    BY <2>1
  <2> QED
    BY <2>1, <2>2
<1>10. \A f \in used : Words1(f) = mem[f]
  BY <1>6, <1>7
<1>11. DirWords(tables, flags) \in [Index -> Words]
  <2> SUFFICES ASSUME NEW i \in Index
               PROVE  tables[i] * PageSize + Writeable(flags) \in Words
    BY DEF DirWords
  <2>1. tables[i] \in Frames
    BY <1>6, PagingAssumption
  <2> QED
    BY <2>1, WriteableFlags, WordInWords
<1>12. \A i \in Index : TableWords(i, flags) \in [Index -> Words]
  <2> SUFFICES ASSUME NEW i \in Index, NEW j \in Index
               PROVE  (i * Entries + j) * PageSize + flags \in Words
    BY DEF TableWords
  <2>1. flags \in 0..(PageSize - 1)
    BY PagingAssumption
  <2> QED
    BY <2>1, IndexInFrames, WordInWords
<1>13. ASSUME NEW f \in HeapFrames
       PROVE  Words1(f) \in [Index -> Words]
  <2>1. CASE f = dir
    BY <1>8, <1>11, <2>1
  <2>2. ASSUME NEW i \in Index, f = tables[i]
        PROVE  Words1(f) \in [Index -> Words]
    BY <1>9, <1>12, <2>2
  <2>3. CASE f # dir /\ \A i \in Index : f # tables[i]
    BY <1>7, <2>3 DEF PInv, Typed
  <2> QED
    BY <2>1, <2>2, <2>3
<1> HIDE DEF Words1
<1>14. mem' \in [HeapFrames -> [Index -> Words]]
  BY <1>1, <1>13
<1>15. used \subseteq HeapFrames
  BY DEF PInv, Typed
<1>16. \A f \in used : mem'[f] = mem[f]
  BY <1>1, <1>10, <1>15
<1>17. mem'[dir] = DirWords(tables, flags) /\ \A i \in Index : mem'[tables[i]] = TableWords(i, flags)
  BY <1>1, <1>6, <1>8, <1>9
<1> QED
  BY <1>1, <1>2, <1>3, <1>4, <1>5, <1>14, <1>16, <1>17

\* The tables of the new directory, and those of the others.
LEMMA NewTables ==
    ASSUME PInv, NEW flags \in Flags, NEW other, paging_new_4gb(flags, other)
    PROVE  /\ \A i \in Index : FrameOf(mem'[NewDir(other)][i]) = NewTable(other, i)
           /\ \A d \in dirs, i \in Index : FrameOf(mem'[d][i]) = TableAt(d, i)
<1>1. ASSUME NEW i \in Index
      PROVE  FrameOf(mem'[NewDir(other)][i]) = NewTable(other, i)
  <2>1. mem'[NewDir(other)] =
            [j \in Index |-> NewTable(other, j) * PageSize + Writeable(flags)]
    BY NewChunk
  <2>2. NewTable(other, i) \in Nat
    <3>1. NewTable(other, i) \in HeapFrames
      BY NewPlaces
    <3> QED
      BY <3>1, PagingAssumption DEF HeapFrames
  <2> QED
    BY <2>1, <2>2, FrameOfWord, WriteableFlags
<1>2. \A d \in dirs : mem'[d] = mem[d]
  BY NewChunk DEF PInv, Located
<1> QED
  BY <1>1, <1>2 DEF TableAt

LEMMA NewTyped ==
    ASSUME PInv, NEW flags \in Flags, NEW other, paging_new_4gb(flags, other)
    PROVE  Typed' /\ Located'
<1>1. /\ mem' \in [HeapFrames -> [Index -> Words]]
      /\ used' = used \cup NewBlocks(other)
      /\ dirs' = dirs \cup {NewDir(other)}
  BY NewChunk
<1>2. UNCHANGED <<current_dir, cr3, paging, tlb, seen>>
  BY DEF paging_new_4gb, registers
<1>3. /\ NewDir(other) \in HeapFrames \ used
      /\ \A i \in Index : NewTable(other, i) \in HeapFrames \ used /\ NewTable(other, i) # NewDir(other)
      /\ \A i, j \in Index : NewTable(other, i) = NewTable(other, j) => i = j
      /\ NewBlocks(other) \subseteq HeapFrames
  BY NewPlaces
<1>4. NewDir(other) \in NewBlocks(other) /\ \A i \in Index : NewTable(other, i) \in NewBlocks(other)
  BY DEF NewBlocks
<1>5. /\ dirs \subseteq used
      /\ \A d \in dirs, i \in Index : TableAt(d, i) \in used \ dirs
      /\ \A c, d \in dirs, i, j \in Index : TableAt(c, i) = TableAt(d, j) => c = d /\ i = j
  BY DEF PInv, Located
<1>6. Typed'
  BY <1>1, <1>2, <1>3 DEF PInv, Typed
<1> DEFINE At(d, i) == FrameOf(mem'[d][i])
<1>7. \A d, i : TableAt(d, i)' = At(d, i)
  BY DEF TableAt, FrameOf
<1>8. /\ \A i \in Index : At(NewDir(other), i) = NewTable(other, i)
      /\ \A d \in dirs, i \in Index : At(d, i) = TableAt(d, i)
  BY NewTables
<1> HIDE DEF At
<1>9. dirs' \subseteq used'
  BY <1>1, <1>4, <1>5
<1>10. \A d \in dirs', i \in Index : At(d, i) \in used' \ dirs'
  BY <1>1, <1>3, <1>4, <1>5, <1>8
<1>11. \A c, d \in dirs', i, j \in Index : At(c, i) = At(d, j) => c = d /\ i = j
  BY <1>1, <1>3, <1>5, <1>8
<1>12. Located'
  BY <1>9, <1>10, <1>11 DEF Located, TableAt, FrameOf, At
<1> QED
  BY <1>6, <1>12

\* Other directories keep their words, the new one gets its own, and the pages of
\* all are as they should be.
LEMMA NewWalks ==
    ASSUME PInv, NEW flags \in Flags, NEW other, paging_new_4gb(flags, other),
           NEW dir, dir = NewDir(other)
    PROVE  /\ \A d \in dirs, p \in Frames : Walk(d, p)' = Walk(d, p)
           /\ \A p \in Frames : Walk(dir, p)' = p * PageSize + flags
           /\ dir \notin dirs
<1>1. /\ \A i \in Index : FrameOf(mem'[dir][i]) = NewTable(other, i)
      /\ \A d \in dirs, i \in Index : FrameOf(mem'[d][i]) = TableAt(d, i)
  BY NewTables
<1>2. /\ \A i \in Index : mem'[NewTable(other, i)] = TableWords(i, flags)
      /\ \A f \in used : mem'[f] = mem[f]
  BY NewChunk
<1>3. \A d, p : Walk(d, p)' = mem'[FrameOf(mem'[d][p \div Entries])][p % Entries]
  BY DEF Walk, FrameOf
<1>4. ASSUME NEW d \in dirs, NEW p \in Frames
      PROVE  Walk(d, p)' = Walk(d, p)
  <2>1. p \div Entries \in Index
    BY PageIndex
  <2>2. TableAt(d, p \div Entries) \in used
    BY <2>1 DEF PInv, Located
  <2>3. Walk(d, p)' = mem'[TableAt(d, p \div Entries)][p % Entries]
    BY <1>1, <1>3, <2>1
  <2> QED
    BY <1>2, <2>2, <2>3, WalkWord
<1>5. ASSUME NEW p \in Frames
      PROVE  Walk(dir, p)' = p * PageSize + flags
  <2>1. /\ p \div Entries \in Index /\ p % Entries \in Index
        /\ p = (p \div Entries) * Entries + (p % Entries)
    BY PageIndex
  <2>2. Walk(dir, p)' = TableWords(p \div Entries, flags)[p % Entries]
    BY <1>1, <1>2, <1>3, <2>1
  <2>3. TableWords(p \div Entries, flags)[p % Entries] =
            ((p \div Entries) * Entries + (p % Entries)) * PageSize + flags
    BY <2>1 DEF TableWords
  <2> QED
    BY <2>1, <2>2, <2>3
<1>6. dir \notin dirs
  BY NewPlaces DEF PInv, Located
<1> QED
  BY <1>4, <1>5, <1>6
-----------------------------------------------------------------------------
(* Setting a page.                                                         *)

\* paging_set changes one word, in the table that the directory names.
LEMMA SetWord ==
    ASSUME PInv, NEW d \in dirs, NEW page \in UserPages, NEW value,
           paging_set(d, page * PageSize, value)
    PROVE  /\ mem' = [mem EXCEPT ![TableAt(d, page \div Entries)][page % Entries] = value]
           /\ changed' = IF d = cr3 THEN changed \cup {page} ELSE changed
           /\ UNCHANGED <<used, dirs, registers, tlb, seen>>
<1>1. page \in Frames
  BY PagingAssumption
<1>2. /\ page \div Entries \in Index
      /\ paging_get_indexes(page * PageSize).dir = page \div Entries
      /\ paging_get_indexes(page * PageSize).table = page % Entries
      /\ (page * PageSize) \div PageSize = page
  BY <1>1, PageIndex, SameIndexes
<1>3. /\ Reached(d) = d
      /\ FrameOf(mem[d][page \div Entries]) = TableAt(d, page \div Entries)
      /\ Reached(TableAt(d, page \div Entries)) = TableAt(d, page \div Entries)
  BY <1>2, PlacesInHeap, ReachedItself DEF PInv, TableAt
<1> QED
  BY <1>2, <1>3, Zenon DEF paging_set

LEMMA SetWalks ==
    ASSUME PInv, NEW d \in dirs, NEW page \in UserPages, NEW value,
           paging_set(d, page * PageSize, value)
    PROVE  /\ \A c \in dirs, i \in Index : FrameOf(mem'[c][i]) = TableAt(c, i)
           /\ \A c \in dirs, p \in Frames :
                 Walk(c, p)' = IF c = d /\ p = page THEN value ELSE Walk(c, p)
<1> DEFINE q == page \div Entries
           r == page % Entries
           table == TableAt(d, q)
<1>1. /\ page \in Frames /\ q \in Index /\ r \in Index
      /\ page = q * Entries + r
  BY PagingAssumption, PageIndex
<1>2. mem' = [mem EXCEPT ![table][r] = value] /\ dirs' = dirs
  BY SetWord
<1>3. mem \in [HeapFrames -> [Index -> Words]] /\ table \in HeapFrames
  BY <1>1, PlacesInHeap DEF PInv, Typed
<1>4. /\ \A c \in dirs : c \in HeapFrames /\ c # table
      /\ \A c \in dirs, i \in Index :
            TableAt(c, i) \in HeapFrames /\ (TableAt(c, i) = table => c = d /\ i = q)
  BY <1>1, PlacesInHeap, PlacesApart DEF PInv
<1> HIDE DEF q, r, table
<1>5. \A f \in HeapFrames : f # table => mem'[f] = mem[f]
  BY <1>2, <1>3
<1>6. \A j \in Index : mem'[table][j] = IF j = r THEN value ELSE mem[table][j]
  BY <1>2, <1>3
<1>7. \A c \in dirs, i \in Index : FrameOf(mem'[c][i]) = TableAt(c, i)
  BY <1>4, <1>5 DEF TableAt
<1>8. ASSUME NEW c \in dirs, NEW p \in Frames
      PROVE  Walk(c, p)' = IF c = d /\ p = page THEN value ELSE Walk(c, p)
  <2> DEFINE i == p \div Entries
             j == p % Entries
  <2>1. i \in Index /\ j \in Index /\ p = i * Entries + j
    BY PageIndex
  <2>2. Walk(c, p)' = mem'[FrameOf(mem'[c][i])][j]
    BY DEF Walk, FrameOf
  <2>3. Walk(c, p)' = mem'[TableAt(c, i)][j] /\ Walk(c, p) = mem[TableAt(c, i)][j]
    BY <1>7, <2>1, <2>2, WalkWord
  <2>4. i = q /\ j = r <=> p = page
    BY <1>1, <2>1 DEF q, r
  <2>5. c = d /\ i = q => TableAt(c, i) = table
    BY DEF table
  <2> HIDE DEF i, j
  <2>6. CASE c = d /\ i = q
    BY <1>6, <2>1, <2>3, <2>4, <2>5, <2>6
  <2>7. CASE ~(c = d /\ i = q)
    BY <1>4, <1>5, <2>1, <2>3, <2>4, <2>7
  <2> QED
    BY <2>6, <2>7
<1> QED
  BY <1>7, <1>8

-----------------------------------------------------------------------------
(* The inductive invariant, call by call.                                  *)

LEMMA InitPInv == Init => PInv
<1> SUFFICES ASSUME Init
             PROVE  PInv
  OBVIOUS
<1>1. 0 \in Words
  <2>1. 0 \in Frames /\ PageSize \in Nat \ {0} /\ 0 \in 0..(PageSize - 1)
    <3>1. Entries \in Nat \ {0} /\ PageSize \in Nat \ {0}
      BY PagingAssumption
    <3>2. Entries * Entries \in Nat \ {0}
      BY <3>1, SMTT(20)
    <3> QED
      BY <3>1, <3>2 DEF Frames
  <2>2. 0 * PageSize + 0 \in Words
    BY <2>1, WordInWords
  <2>3. 0 * PageSize + 0 = 0
    BY <2>1
  <2> QED
    BY <2>2, <2>3
<1>2. Typed
  <2>1. \A p \in DOMAIN Nothing : FALSE
    BY DEF Nothing
  <2> QED
    BY <1>1, <2>1 DEF Init, Typed
<1>3. Located /\ HeapStaysMapped
  BY DEF Init, Located, HeapStaysMapped
<1>4. Remembered
  BY DEF Init, Remembered, Nothing
<1> QED
  BY <1>2, <1>3, <1>4 DEF PInv

LEMMA NewPInv ==
    ASSUME PInv, NEW flags \in Flags, NEW other, paging_new_4gb(flags, other)
    PROVE  PInv'
<1>1. PICK dir : dir = NewDir(other)
  OBVIOUS
<1>2. /\ \A d \in dirs, p \in Frames : Walk(d, p)' = Walk(d, p)
      /\ \A p \in Frames : Walk(dir, p)' = p * PageSize + flags
  BY <1>1, NewWalks
<1>3. /\ dirs' = dirs \cup {dir} /\ tlb' = tlb /\ changed' = changed /\ cr3' = cr3
  BY <1>1, NewChunk DEF paging_new_4gb, registers
<1>4. Typed' /\ Located'
  BY NewTyped
<1>5. HeapFrames \subseteq Frames /\ UserPages \subseteq Frames
      /\ flags \in 0..(PageSize - 1) /\ Present(flags) /\ PageSize \in Nat
  BY PagingAssumption
<1>6. ASSUME NEW p \in HeapFrames
      PROVE  Present(p * PageSize + flags) /\ FrameOf(p * PageSize + flags) = p
  <2>1. p \in Nat /\ flags \in Nat
    BY <1>5, PageIndex
  <2> QED
    BY <1>5, <2>1, PresentWord, FrameOfWord
<1>7. \A d \in dirs', p \in HeapFrames : Present(Walk(d, p)') /\ FrameOf(Walk(d, p)') = p
  BY <1>2, <1>3, <1>5, <1>6 DEF PInv, HeapStaysMapped
<1>8. HeapStaysMapped'
  BY <1>7 DEF HeapStaysMapped, Present, FrameOf
<1>9. Remembered'
  <2>1. DOMAIN tlb' \subseteq UserPages /\ (DOMAIN tlb' # {} => cr3' # NoDir)
    BY <1>3 DEF PInv, Remembered
  <2>2. ASSUME NEW p \in DOMAIN tlb' \ changed'
        PROVE  tlb'[p] = Walk(cr3, p)'
    <3>1. cr3 \in dirs /\ cr3' = cr3 /\ p \in Frames /\ tlb[p] = Walk(cr3, p)
      BY <1>3, <1>5, <2>2 DEF PInv, Remembered, Typed
    <3>2. PICK c \in dirs : c = cr3
      BY <3>1
    <3>3. Walk(c, p)' = Walk(c, p)
      BY <1>2, <3>1
    <3>4. Walk(cr3, p)' = Walk(c, p)'
      BY <3>1, <3>2 DEF Walk
    <3> QED
      BY <1>3, <3>1, <3>2, <3>3, <3>4
  <2> QED
    BY <2>1, <2>2 DEF Remembered
<1> QED
  BY <1>4, <1>8, <1>9 DEF PInv

LEMMA SetPInv ==
    ASSUME PInv, NEW d \in dirs, NEW page \in UserPages, NEW value \in Values,
           paging_set(d, page * PageSize, value)
    PROVE  PInv'
<1>1. /\ mem' = [mem EXCEPT ![TableAt(d, page \div Entries)][page % Entries] = value]
      /\ changed' = IF d = cr3 THEN changed \cup {page} ELSE changed
      /\ UNCHANGED <<used, dirs, registers, tlb, seen>>
  BY SetWord
<1>2. /\ \A c \in dirs, i \in Index : FrameOf(mem'[c][i]) = TableAt(c, i)
      /\ \A c \in dirs, p \in Frames :
            Walk(c, p)' = IF c = d /\ p = page THEN value ELSE Walk(c, p)
  BY SetWalks
<1>3. /\ UserPages \subseteq Frames \ HeapFrames /\ HeapFrames \subseteq Frames
      /\ Values \subseteq Words
  BY PagingAssumption
<1>4. mem' \in [HeapFrames -> [Index -> Words]]
  <2>1. page \div Entries \in Index /\ page % Entries \in Index
    BY <1>3, PageIndex
  <2>2. TableAt(d, page \div Entries) \in HeapFrames
    BY <2>1, PlacesInHeap DEF PInv
  <2>3. mem \in [HeapFrames -> [Index -> Words]] /\ value \in Words
    BY <1>3 DEF PInv, Typed
  <2> QED
    BY <1>1, <2>1, <2>2, <2>3
<1>5. Typed' /\ Located'
  <2>1. Typed'
    BY <1>1, <1>4 DEF PInv, Typed, registers
  <2>2. \A c \in dirs, i \in Index : TableAt(c, i)' = TableAt(c, i)
    BY <1>2 DEF TableAt, FrameOf
  <2>3. used' = used /\ dirs' = dirs
    BY <1>1
  <2>4. /\ dirs' \subseteq used'
        /\ \A c \in dirs', i \in Index : TableAt(c, i)' \in used' \ dirs'
        /\ \A b, c \in dirs', i, j \in Index :
                TableAt(b, i)' = TableAt(c, j)' => b = c /\ i = j
    BY <2>2, <2>3 DEF PInv, Located
  <2>5. Located'
    BY <2>4 DEF Located
  <2> QED
    BY <2>1, <2>5
<1>6. \A c \in dirs', p \in HeapFrames : Present(Walk(c, p)') /\ FrameOf(Walk(c, p)') = p
  BY <1>1, <1>2, <1>3 DEF PInv, HeapStaysMapped
<1>7. HeapStaysMapped'
  BY <1>6 DEF HeapStaysMapped, Present, FrameOf
<1>8. Remembered'
  <2>1. DOMAIN tlb' \subseteq UserPages /\ (DOMAIN tlb' # {} => cr3' # NoDir)
    BY <1>1 DEF PInv, Remembered, registers
  <2>2. ASSUME NEW p \in DOMAIN tlb' \ changed'
        PROVE  tlb'[p] = Walk(cr3, p)'
    <3>1. /\ cr3 \in dirs /\ cr3' = cr3 /\ tlb' = tlb /\ p \in Frames
          /\ tlb[p] = Walk(cr3, p) /\ ~(cr3 = d /\ p = page)
      BY <1>1, <1>3, <2>2 DEF PInv, Remembered, Typed, registers
    <3>2. PICK c \in dirs : c = cr3
      BY <3>1
    <3>3. Walk(c, p)' = Walk(c, p)
      BY <1>2, <3>1, <3>2
    <3>4. Walk(cr3, p)' = Walk(c, p)'
      BY <3>1, <3>2 DEF Walk
    <3> QED
      BY <3>1, <3>2, <3>3, <3>4
  <2> QED
    BY <2>1, <2>2 DEF Remembered
<1> QED
  BY <1>5, <1>7, <1>8 DEF PInv

LEMMA AccessPInv ==
    ASSUME PInv, NEW page \in UserPages, Access(page)
    PROVE  PInv'
<1> DEFINE word == IF page \in DOMAIN tlb THEN tlb[page] ELSE Walk(cr3, page)
           Kept == [p \in DOMAIN tlb \cup (IF Present(word) THEN {page} ELSE {}) |->
                        IF p = page THEN word ELSE tlb[p]]
<1>1. /\ seen' = IF Present(word) THEN FrameOf(word) ELSE Fault
      /\ tlb' = tlb \/ tlb' = Kept
      /\ UNCHANGED <<mem, used, dirs, current_dir, cr3, paging, changed>>
      /\ paging
  BY DEF Access, registers
<1>2. cr3 \in dirs /\ cr3 # NoDir
  BY <1>1 DEF PInv, Typed
<1>3. page \in Frames
  BY PagingAssumption
<1>4. Walk(cr3, page) \in Words
  <2>1. Walk(cr3, page) = mem[TableAt(cr3, page \div Entries)][page % Entries]
    BY WalkWord
  <2>2. page \div Entries \in Index /\ page % Entries \in Index
    BY <1>3, PageIndex
  <2>3. TableAt(cr3, page \div Entries) \in HeapFrames
    BY <1>2, <2>2, PlacesInHeap DEF PInv
  <2> QED
    BY <2>1, <2>2, <2>3 DEF PInv, Typed
<1>5. word \in Words
  BY <1>4 DEF PInv, Typed
<1>6. page \notin changed => word = Walk(cr3, page)
  BY DEF PInv, Remembered
<1>7. /\ DOMAIN tlb' \subseteq DOMAIN tlb \cup {page}
      /\ \A p \in DOMAIN tlb' : \/ p \in DOMAIN tlb /\ tlb'[p] = tlb[p]
                                \/ p = page /\ tlb'[p] = word
  <2> HIDE DEF word
  <2> QED
    BY <1>1
<1> HIDE DEF word, Kept
<1>8. Typed'
  <2>1. seen' \in Frames \cup {Fault}
    BY <1>1, <1>5, FrameOfWords
  <2>2. \A p \in DOMAIN tlb' : tlb'[p] \in Words
    BY <1>5, <1>7 DEF PInv, Typed
  <2> QED
    BY <1>1, <2>1, <2>2 DEF PInv, Typed
<1>9. Located' /\ HeapStaysMapped'
  BY <1>1 DEF PInv, Located, TableAt, HeapStaysMapped, Walk, FrameOf, Present
<1>10. Remembered'
  <2>1. \A p \in DOMAIN tlb' \ changed' : tlb'[p] = Walk(cr3, p)
    BY <1>1, <1>6, <1>7 DEF PInv, Remembered
  <2>2. \A p : Walk(cr3, p)' = Walk(cr3, p)
    BY <1>1 DEF Walk
  <2> QED
    BY <1>1, <1>2, <1>7, <2>1, <2>2 DEF PInv, Remembered
<1> QED
  BY <1>8, <1>9, <1>10 DEF PInv

\* A call of paging_set that changes something is one for the start of a page.
LEMMA SetAligned ==
    ASSUME NEW d, NEW page \in UserPages, NEW offset \in Offsets, NEW value,
           paging_set(d, page * PageSize + offset, value)
    PROVE  paging_set(d, page * PageSize, value)
<1>1. page \in Nat /\ offset \in 0..(PageSize - 1)
  BY PagingAssumption, PageIndex
<1>2. offset = 0
  BY <1>1, AlignedOffset DEF paging_set
<1>3. page * PageSize + offset = page * PageSize
  <2>1. page * PageSize \in Nat
    BY <1>1, PagingAssumption, SMTT(20)
  <2> QED
    BY <1>2, <2>1
<1> QED
  BY <1>3

LEMMA NextPInv == PInv /\ [Next]_vars => PInv'
<1> SUFFICES ASSUME PInv, [Next]_vars
             PROVE  PInv'
  OBVIOUS
<1>1. CASE \E flags \in Flags, other \in Elsewhere : paging_new_4gb(flags, other)
  BY <1>1, NewPInv
<1>2. ASSUME NEW dir \in dirs, page_switch(dir)
      PROVE  PInv'
  <2>1. /\ cr3' = dir /\ current_dir' = dir /\ tlb' = Nothing /\ changed' = {}
        /\ UNCHANGED <<mem, used, dirs, paging, seen>>
    BY <1>2 DEF page_switch
  <2>2. dir # NoDir
    BY PlacesInHeap DEF PInv
  <2>3. \A p \in DOMAIN Nothing : FALSE
    BY DEF Nothing
  <2>4. Typed'
    BY <2>1, <2>2, <2>3 DEF PInv, Typed
  <2>5. Located' /\ HeapStaysMapped'
    BY <2>1 DEF PInv, Located, TableAt, HeapStaysMapped, Walk, FrameOf, Present
  <2>6. Remembered'
    BY <2>1, <2>3 DEF Remembered
  <2> QED
    BY <2>4, <2>5, <2>6 DEF PInv
<1>3. CASE enable_paging
  BY <1>3 DEF enable_paging, PInv, Typed, Located, TableAt, HeapStaysMapped, Remembered,
     Walk, FrameOf, Present
<1>4. ASSUME NEW dir \in dirs, NEW page \in UserPages, NEW offset \in Offsets,
             NEW value \in Values, paging_set(dir, page * PageSize + offset, value)
      PROVE  PInv'
  BY <1>4, SetAligned, SetPInv
<1>5. CASE \E page \in UserPages : Access(page)
  BY <1>5, AccessPInv
<1>6. CASE UNCHANGED vars
  BY <1>6 DEF vars, registers, PInv, Typed, Located, TableAt, HeapStaysMapped, Remembered,
     Walk, FrameOf, Present
<1> QED
  BY <1>1, <1>2, <1>3, <1>4, <1>5, <1>6 DEF Next

\* Directories and tables are blocks of their own, and the heap they lie in is mapped
\* onto itself, in every reachable state.
THEOREM PagingInvariant == Spec => []PInv
  BY InitPInv, NextPInv, PTL DEF Spec
-----------------------------------------------------------------------------
(* What follows for the properties that the run checks.                    *)

\* The kernel's registers, the words of its tables and what it sees stay well
\* typed, for tables of any size.
THEOREM TypeCorrect == Spec => []TypeOK
<1>1. PInv => TypeOK
  BY DEF PInv, Typed, TypeOK
<1> QED
  BY <1>1, PagingInvariant, PTL

\* Whatever chunks are made and pages are set, and wherever other code leaves room
\* for the directories and tables of pagefile.c, no two tables are the same frame and
\* none is a directory.
THEOREM TablesAreApart == Spec => []TablesApart
<1>1. PInv => TablesApart
  <2> SUFFICES ASSUME PInv
               PROVE  TablesApart
    OBVIOUS
  <2> DEFINE FrameAt(t) == FrameOf(mem[t[1]][t[2]])
  <2> SUFFICES ASSUME NEW s \in dirs \X Index, NEW t \in dirs \X Index
               PROVE  FrameAt(s) \in HeapFrames \ dirs /\ (s # t => FrameAt(s) # FrameAt(t))
    BY DEF TablesApart
  <2>1. PICK c \in dirs, i \in Index, d \in dirs, j \in Index : s = <<c, i>> /\ t = <<d, j>>
    OBVIOUS
  <2>2. FrameAt(s) = TableAt(c, i) /\ FrameAt(t) = TableAt(d, j)
    BY <2>1 DEF TableAt
  <2>3. TableAt(c, i) \in HeapFrames /\ \A e \in dirs : e # TableAt(c, i)
    BY PlacesInHeap, PlacesApart DEF PInv
  <2>4. TableAt(c, i) = TableAt(d, j) => c = d /\ i = j
    BY PlacesApart DEF PInv
  <2> HIDE DEF FrameAt
  <2> QED
    BY <2>1, <2>2, <2>3, <2>4
<1> QED
  BY <1>1, PagingInvariant, PTL

\* Every address space maps the heap onto itself, so that the kernel reaches its
\* tables under the addresses it knows, also after it has edited them.
THEOREM HeapAlwaysMapped == Spec => []HeapStaysMapped
<1>1. PInv => HeapStaysMapped
  BY DEF PInv
<1> QED
  BY <1>1, PagingInvariant, PTL

\* The spaces after a page has been set.
LEMMA SetIsSetPage ==
    ASSUME PInv, NEW d \in dirs, NEW page \in UserPages, NEW value,
           paging_set(d, page * PageSize, value)
    PROVE  Abstract!SetPage(d, page, value)
<1>1. /\ dirs' = dirs /\ cr3' = cr3
  BY SetWord DEF registers
<1>2. page \in Frames
  BY PagingAssumption
<1>3. \A c \in dirs, p \in Frames :
        Walk(c, p)' = IF c = d /\ p = page THEN value ELSE Walk(c, p)
  BY SetWalks
<1>4. SpaceOf' = [c \in dirs |-> [p \in Frames |-> Walk(c, p)']]
  BY <1>1 DEF SpaceOf, Walk, FrameOf
<1>5. SpaceOf' = [c \in dirs |-> [p \in Frames |->
                    IF c = d /\ p = page THEN value ELSE SpaceOf[c][p]]]
  BY <1>3, <1>4 DEF SpaceOf
<1>6. SpaceOf' = [SpaceOf EXCEPT ![d][page] = value]
  <2> DEFINE New == [SpaceOf EXCEPT ![d][page] = value]
  <2>1. SpaceOf = [c \in dirs |-> SpaceOf[c]] /\ \A c \in dirs : SpaceOf[c] = [p \in Frames |-> SpaceOf[c][p]]
    BY DEF SpaceOf
  <2>2. DOMAIN New = dirs
    BY <2>1
  <2>3. ASSUME NEW c \in dirs
        PROVE  New[c] = [p \in Frames |-> IF c = d /\ p = page THEN value ELSE SpaceOf[c][p]]
    BY <1>2, <2>1
  <2>4. New = [c \in dirs |-> New[c]]
    BY <2>1
  <2> HIDE DEF New
  <2> QED
    BY <1>5, <2>3, <2>4 DEF New
<1> QED
  BY <1>1, <1>6 DEF Abstract!SetPage, SpaceOf

\* The spaces after a chunk has been made.
LEMMA NewIsNew ==
    ASSUME PInv, NEW flags \in Flags, NEW other, paging_new_4gb(flags, other)
    PROVE  \E s \in HeapFrames : Abstract!New(s, flags)
<1>1. PICK dir : dir = NewDir(other)
  OBVIOUS
<1>2. /\ \A d \in dirs, p \in Frames : Walk(d, p)' = Walk(d, p)
      /\ \A p \in Frames : Walk(dir, p)' = p * PageSize + flags
      /\ dir \notin dirs
  BY <1>1, NewWalks
<1>3. dir \in HeapFrames
  BY <1>1, NewPlaces
<1>4. dirs' = dirs \cup {dir} /\ cr3' = cr3
  BY <1>1, NewChunk DEF paging_new_4gb, registers
<1>5. SpaceOf' = [r \in dirs \cup {dir} |-> [p \in Frames |-> Walk(r, p)']]
  BY <1>4 DEF SpaceOf, Walk, FrameOf
<1>6. DOMAIN SpaceOf = dirs
  BY DEF SpaceOf
<1>7. SpaceOf' = [r \in dirs \cup {dir} |->
                    IF r = dir THEN [p \in Frames |-> p * PageSize + flags] ELSE SpaceOf[r]]
  BY <1>2, <1>5 DEF SpaceOf
<1>8. Abstract!New(dir, flags)
  BY <1>2, <1>4, <1>6, <1>7 DEF Abstract!New
<1> QED
  BY <1>3, <1>8

LEMMA InitRefines == Init => Abstract!SpaceInit
<1> SUFFICES ASSUME Init
             PROVE  Abstract!SpaceInit
  OBVIOUS
<1>1. dirs = {} /\ cr3 = NoDir
  BY DEF Init
<1>2. SpaceOf = [s \in {} |-> <<>>]
  BY <1>1 DEF SpaceOf
<1> QED
  BY <1>1, <1>2 DEF Abstract!SpaceInit

LEMMA NextRefines == PInv /\ [Next]_vars => [Abstract!SpaceNext]_(Abstract!spaceVars)
<1> SUFFICES ASSUME PInv, [Next]_vars
             PROVE  [Abstract!SpaceNext]_(Abstract!spaceVars)
  OBVIOUS
<1>1. ASSUME NEW flags \in Flags, NEW other \in Elsewhere, paging_new_4gb(flags, other)
      PROVE  Abstract!SpaceNext
  BY <1>1, NewIsNew DEF Abstract!SpaceNext
<1>2. ASSUME NEW dir \in dirs, page_switch(dir)
      PROVE  Abstract!SpaceNext
  <2>1. mem' = mem /\ dirs' = dirs /\ cr3' = dir
    BY <1>2 DEF page_switch
  <2>2. dir \in HeapFrames /\ dir # NoDir
    BY PlacesInHeap DEF PInv
  <2>3. SpaceOf' = SpaceOf /\ DOMAIN SpaceOf = dirs
    BY <2>1 DEF SpaceOf, Walk, FrameOf
  <2>4. Abstract!Switch(dir)
    BY <2>1, <2>2, <2>3 DEF Abstract!Switch
  <2> QED
    BY <2>2, <2>4 DEF Abstract!SpaceNext
<1>3. ASSUME NEW dir \in dirs, NEW page \in UserPages, NEW offset \in Offsets,
             NEW value \in Values, paging_set(dir, page * PageSize + offset, value)
      PROVE  Abstract!SpaceNext
  <2>1. paging_set(dir, page * PageSize, value)
    BY <1>3, SetAligned
  <2>2. Abstract!SetPage(dir, page, value)
    BY <2>1, SetIsSetPage
  <2>3. dir \in HeapFrames /\ page \in Frames
    BY PlacesInHeap, PagingAssumption DEF PInv
  <2> QED
    BY <2>2, <2>3 DEF Abstract!SpaceNext
<1>4. ASSUME UNCHANGED <<mem, dirs, cr3>>
      PROVE  UNCHANGED Abstract!spaceVars
  <2>1. SpaceOf' = SpaceOf
    BY <1>4 DEF SpaceOf, Walk, FrameOf
  <2> QED
    BY <1>4, <2>1 DEF Abstract!spaceVars
<1>5. CASE enable_paging
  BY <1>4, <1>5 DEF enable_paging
<1>6. CASE \E page \in UserPages : Access(page)
  BY <1>4, <1>6 DEF Access, registers
<1>7. CASE UNCHANGED vars
  BY <1>4, <1>7 DEF vars, registers
<1> QED
  BY <1>1, <1>2, <1>3, <1>5, <1>6, <1>7 DEF Next

\* Directories and tables, edited through their own translation, implement spaces
\* that know nothing of them: making one, switching and setting a page are steps
\* of AddressSpace, and nothing else changes a space.
THEOREM PagingImplementsSpaces == Spec => ImplementsAddressSpace
  BY InitRefines, NextRefines, PagingInvariant, PTL
     DEF Spec, ImplementsAddressSpace, Abstract!SpaceSpec

\* paging_set maps the page it was asked to map in the space it was given, and
\* leaves all others alone.
THEOREM SetsItsPage == Spec => SetsThePage
<1>1. PInv /\ [Next]_vars =>
        [\A d \in dirs, page \in UserPages, value \in Values :
            paging_set(d, page * PageSize, value) => Abstract!SetPage(d, page, value)]_vars
  BY SetIsSetPage
<1> QED
  BY <1>1, PagingInvariant, PTL DEF Spec, SetsThePage

\* The processor follows the tables for every page that was not set since its
\* directory was loaded.
THEOREM AccessesFollow == Spec => AccessFollowsTables
<1>1. ASSUME PInv, NEW page \in UserPages \ changed, Access(page)
      PROVE  seen' = IF Present(SpaceOf[cr3][page]) THEN FrameOf(SpaceOf[cr3][page]) ELSE Fault
  <2>1. cr3 \in dirs
    BY <1>1 DEF Access, PInv, Typed
  <2>2. page \in Frames
    BY PagingAssumption
  <2>3. SpaceOf[cr3][page] = Walk(cr3, page)
    BY <2>1, <2>2 DEF SpaceOf
  <2>4. page \in DOMAIN tlb => tlb[page] = Walk(cr3, page)
    BY <1>1 DEF PInv, Remembered
  <2> QED
    BY <1>1, <2>3, <2>4 DEF Access
<1>2. PInv /\ [Next]_vars =>
        [\A page \in UserPages \ changed :
            Access(page) =>
                seen' = IF Present(SpaceOf[cr3][page])
                        THEN FrameOf(SpaceOf[cr3][page]) ELSE Fault]_vars
  BY <1>1
<1> QED
  BY <1>2, PagingInvariant, PTL DEF Spec, AccessFollowsTables
=============================================================================
