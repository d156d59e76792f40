---------------------------- MODULE KernelProofs ----------------------------
(***************************************************************************)
(* Proofs about Kernel, for a screen of any size, any texts that fit on    *)
(* it, any segments, vectors and lines, and any number of interrupts.  No  *)
(* step of the boot and no interrupt comes too early, and the segments in  *)
(* use are those of the source: what is up is known from the step the main *)
(* line is at.  The cursor stays on the screen unless an interrupt tears   *)
(* a line on the last row apart: the running text fits behind the place    *)
(* where it goes on, and ends its line.  Until an interrupt prints in a    *)
(* running call, what has scrolled off and what stands on the screen make  *)
(* up the page of Terminal, and the numbers on that page count up.  And,   *)
(* for a byte of any even number of bits, the processor reads from a       *)
(* descriptor the segment that was encoded.                                *)
(***************************************************************************)
EXTENDS Kernel, NaturalLemmas, SequenceTheorems

-----------------------------------------------------------------------------
(* Descriptors: the code cuts base and limit into the bytes of the         *)
(* descriptor; the proof puts them together again.                         *)

\* The sizes of the parts of a descriptor.
LEMMA Sizes ==
    /\ R \in Nat \ {0, 1} /\ Byte \in Nat \ {0} /\ PageSize \in Nat \ {0} /\ Word \in Nat \ {0}
    /\ Word < R * Word /\ Word = Byte * Byte /\ Word * Word = (R * Word) * PageSize
<1>1. R \in Nat \ {0, 1}
  BY RadixAssumption
<1>2. Byte \in Nat \ {0}
  BY <1>1, SMTT(20) DEF Byte
<1>3. PageSize \in Nat \ {0}
  BY <1>1, <1>2, SMTT(20) DEF PageSize
<1>4. Word \in Nat \ {0}
  BY <1>1, <1>3, SMTT(20) DEF Word
<1>5. Word < R * Word
  BY <1>1, <1>4, SMTT(20)
<1>6. Word = Byte * Byte
  BY <1>1, SMTT(20) DEF Word, PageSize, Byte
<1>7. Word * Word = (R * Word) * PageSize
  BY <1>1, <1>3, <1>4, SMTT(20) DEF Word
<1> QED
  BY <1>1, <1>2, <1>3, <1>4, <1>5, <1>6, <1>7

\* A number below a product consists of its remainder and its quotient by one
\* factor, and the quotient fits below the other.
LEMMA TwoDigits ==
    ASSUME NEW n \in Nat, NEW d \in Nat \ {0}, NEW m \in Nat \ {0}, n < m * d
    PROVE  (n % d) + d * ((n \div d) % m) = n
<1> DEFINE q == n \div d
           r == n % d
<1>1. q \in Nat /\ r \in 0..(d - 1) /\ n = d * q + r
  BY QuotientRemainder
<1>2. q < m
  BY QuotientBelow
<1> HIDE DEF q, r
<1>3. q % m = q
  BY <1>1, <1>2
<1>4. d * q \in Nat
  BY <1>1, SMTT(20)
<1> DEFINE dq == d * q
<1>5. r + dq = n
  <2>1. dq \in Nat /\ n = dq + r
    BY <1>1, <1>4
  <2> HIDE DEF dq
  <2> QED
    BY <1>1, <2>1
<1> QED
  BY <1>3, <1>5 DEF q, r

\* The three parts of the base make the base again.
LEMMA BaseParts ==
    ASSUME NEW n \in Nat, n < Word * Word
    PROVE  (n % Word) + Word * (((n \div Word) % Byte) + Byte * ((n \div (Word * Byte)) % Byte)) = n
<1> DEFINE q == n \div Word
<1>1. q \in Nat /\ q < Word
  BY Sizes, QuotientRemainder, QuotientBelow
<1>2. n \div (Word * Byte) = q \div Byte
  BY Sizes, QuotientOfQuotient
<1>3. (q % Byte) + Byte * ((q \div Byte) % Byte) = q
  <2> HIDE DEF q
  <2> QED
    BY <1>1, Sizes, TwoDigits
<1>4. (n % Word) + Word * (q % Word) = n
  BY Sizes, TwoDigits
<1>5. q % Word = q
  <2> HIDE DEF q
  <2> QED
    BY <1>1, Sizes
<1> QED
  BY <1>2, <1>3, <1>4, <1>5, Zenon

\* Whatever segment encodeGdtEntry does not refuse, the processor takes its
\* descriptor for that segment (gdt.c).
THEOREM DecodesEncoded ==
    ASSUME NEW src \in Segment, ~Invalid(src)
    PROVE  Decode(encodeGdtEntry(src)) = src
<1> DEFINE l == src.limit
           big == l > Word
           k == IF big THEN l \div PageSize ELSE l
           d == encodeGdtEntry(src)
<1>1. /\ src.base \in Nat /\ src.base < Word * Word
      /\ l \in Nat /\ l < Word * Word
      /\ src = [base |-> src.base, limit |-> l, type |-> src.type]
  <2>1. Word * Word \in Nat
    BY Sizes, SMTT(20)
  <2> DEFINE ww == Word * Word
  <2>2. ww \in Nat /\ src \in [base : 0..(ww - 1), limit : 0..(ww - 1), type : 0..(Byte - 1)]
    BY <2>1 DEF Segment
  <2> HIDE DEF ww
  <2>3. /\ src.base \in Nat /\ src.base < ww /\ l \in Nat /\ l < ww
        /\ src = [base |-> src.base, limit |-> l, type |-> src.type]
    BY <2>2
  <2> QED
    BY <2>3 DEF ww
<1>2. k \in Nat /\ k < R * Word
  <2>1. CASE big
    <3>1. R * Word \in Nat /\ l < (R * Word) * PageSize
      <4>1. R * Word \in Nat
        BY Sizes, SMTT(20)
      <4> QED
        BY <1>1, <4>1, Sizes, Zenon
    <3>2. l \div PageSize \in Nat /\ l \div PageSize < R * Word
      BY <1>1, <3>1, Sizes, QuotientRemainder, QuotientBelow, Zenon
    <3> QED
      BY <2>1, <3>2
  <2>2. CASE ~big
    BY <1>1, <2>2, Sizes
  <2> QED
    BY <2>1, <2>2
<1>3. (k % Word) + Word * ((k \div Word) % R) = k
  <2> HIDE DEF k
  <2> QED
    BY <1>2, Sizes, TwoDigits
<1>4. big => k * PageSize + (PageSize - 1) = l
  <2> SUFFICES ASSUME big
               PROVE  (l \div PageSize) * PageSize + (PageSize - 1) = l
    OBVIOUS
  <2> DEFINE q == l \div PageSize
  <2>1. q \in Nat /\ l = PageSize * q + (l % PageSize)
    BY <1>1, Sizes, QuotientRemainder
  <2>2. l % PageSize = PageSize - 1
    BY DEF Invalid
  <2>3. q * PageSize = PageSize * q
    <3> HIDE DEF q
    <3> QED
      BY <2>1, Sizes
  <2> QED
    BY <2>1, <2>2, <2>3, Zenon
<1>5. /\ d.high_flags.granular = big
      /\ d.segment + Word * d.high_flags.limit = (k % Word) + Word * ((k \div Word) % R)
      /\ d.access = src.type
      /\ d.base_first + Word * (d.base + Byte * d.base_24_31_bits) = src.base
  <2>1. d = [segment |-> k % Word,
             base_first |-> src.base % Word,
             base |-> (src.base \div Word) % Byte,
             access |-> src.type,
             high_flags |-> [granular |-> big, limit |-> (k \div Word) % R],
             base_24_31_bits |-> (src.base \div (Word * Byte)) % Byte]
    BY Zenon DEF encodeGdtEntry
  <2> HIDE DEF d, k, big
  <2> QED
    BY <1>1, <2>1, BaseParts
<1>6. Decode(d) = [base |-> src.base,
                   limit |-> IF big THEN k * PageSize + (PageSize - 1) ELSE k,
                   type |-> src.type]
  <2> HIDE DEF d, k, big
  <2> QED
    BY <1>3, <1>5 DEF Decode
<1>7. (IF big THEN k * PageSize + (PageSize - 1) ELSE k) = l
  BY <1>4
<1> HIDE DEF d, k, big
<1> QED
  BY <1>1, <1>6, <1>7 DEF d

-----------------------------------------------------------------------------
(* The boot.                                                               *)

\* What must be up when the main line is at a step.
Brought(step) ==
    CASE step = "gdt" -> {"console"}
      [] step \in {"heap", "file systems"} -> {"console", "gdt", "heap"} \ {step}
      [] step = "disks" -> {"console", "gdt", "heap", "file systems"}
      [] step = "check" -> {"console", "gdt", "heap", "file systems", "disk"}
      [] step = "idt" -> {"console", "gdt", "heap"}
      [] step \in {"tss", "chunk"} -> {"console", "gdt", "heap", "idt"}
      [] step = "switch" -> {"console", "gdt", "heap", "idt", "chunk"}
      [] step = "enable" -> {"console", "gdt", "heap", "idt", "directory"}
      [] step \in {"sti", "loop", "halted"} -> {"console", "gdt", "heap", "idt", "paging"}
      [] OTHER -> {}

\* The steps are taken in the order in which they bring the parts up.
Ordered ==
    /\ Brought(at) \subseteq up
    /\ at # "_start" => base = 32
    /\ interrupts => at \in {"loop", "halted"}

\* Every descriptor that is loaded was encoded from its segment.
DescriptorsRight ==
    "gdt" \in up => \A s \in 0..5 : ~Invalid(gdt_structured[s])
                                    /\ gdt[s] = encodeGdtEntry(gdt_structured[s])

\* Every vector has a gate.
GatesSet == "idt" \in up => \A v \in Vectors : idt[v] \in {"INT21H", "no_int"}

\* What is known at every step of the boot.
IInv == Ordered /\ DescriptorsRight /\ GatesSet

\* The first state has the invariant.
LEMMA InitInvariant == Init => IInv
  BY DEF Init, IInv, Ordered, DescriptorsRight, GatesSet, Brought

\* Every step keeps the invariant.
LEMMA NextInvariant == IInv /\ [Next]_vars => IInv'
<1> SUFFICES ASSUME IInv, [Next]_vars
             PROVE  IInv'
  OBVIOUS
<1> USE DEF IInv, Ordered, DescriptorsRight, GatesSet, Brought, Step, Brings, tables, pic
<1>1. CASE UNCHANGED <<at, up, gdt, idt, interrupts, base>>
  BY <1>1
<1>2. CASE PrintText \/ GoOnPrinting
  BY <1>1, <1>2 DEF PrintText, GoOnPrinting
<1>3. CASE _start
  BY <1>3 DEF _start
<1>4. CASE ClearScreen
  BY <1>4 DEF ClearScreen
<1>5. CASE gdt_load
  <2>1. DOMAIN gdt_structured = 0..5
    BY KernelAssumption
  <2>2. CASE \E s \in DOMAIN gdt_structured : Invalid(gdt_structured[s])
    BY <1>5, <2>2 DEF gdt_load
  <2>3. CASE ~\E s \in DOMAIN gdt_structured : Invalid(gdt_structured[s])
    BY <1>5, <2>1, <2>3 DEF gdt_load
  <2> QED
    BY <2>2, <2>3
<1>6. CASE kheap_init
  BY <1>6 DEF kheap_init
<1>7. CASE fs_init
  BY <1>7 DEF fs_init
<1>8. CASE disks_init
  BY <1>8 DEF disks_init
<1>9. CASE check_fs
  BY <1>9 DEF check_fs
<1>10. CASE idt_init
  BY <1>10 DEF idt_init
<1>11. CASE tss_load
  BY <1>11 DEF tss_load
<1>12. CASE paging_new_4gb
  BY <1>12 DEF paging_new_4gb
<1>13. CASE page_switch
  BY <1>13 DEF page_switch
<1>14. CASE enable_paging
  BY <1>14 DEF enable_paging
<1>15. CASE sti
  BY <1>15 DEF sti
<1>16. CASE NumberedLine \/ LastTexts
  BY <1>16 DEF NumberedLine, LastTexts
<1>17. CASE panic
  BY <1>17 DEF panic
<1>18. CASE \E n \in Lines : Raise(n)
  BY <1>1, <1>18 DEF Raise
<1>19. CASE \E n \in irr : Accept(n)
  BY <1>1, <1>19 DEF Accept
<1>20. CASE UNCHANGED vars
  BY <1>1, <1>20 DEF vars
<1> QED
  BY <1>2, <1>3, <1>4, <1>5, <1>6, <1>7, <1>8, <1>9, <1>10, <1>11, <1>12, <1>13, <1>14,
     <1>15, <1>16, <1>17, <1>18, <1>19, <1>20 DEF Next, MainLine

\* What is up and what the tables hold follows from the step of the main line.
THEOREM BootInvariant == Spec => []IInv
  BY InitInvariant, NextInvariant, PTL DEF Spec

\* The descriptors that are loaded stand for the segments of the source.
LEMMA SegmentsFromInvariant == IInv => SegmentsLoaded
<1>1. gdt_structured \in [0..5 -> Segment]
  BY KernelAssumption
<1> QED
  BY <1>1, DecodesEncoded DEF IInv, DescriptorsRight, SegmentsLoaded

\* Once the segment table is up, the processor takes each of its descriptors for
\* the segment that gdt_structured describes, whatever segments those are.
THEOREM SegmentsAlwaysLoaded == Spec => []SegmentsLoaded
  BY BootInvariant, SegmentsFromInvariant, PTL

\* What each boot step of kernel_main uses has been brought up before it.
THEOREM StepsInOrder == Spec => []NeedsMet
<1>1. IInv => NeedsMet
  BY DEF IInv, Ordered, Brought, NeedsMet, Needs
<1> QED
  BY <1>1, BootInvariant, PTL

\* Interrupts are on only when the vector of every line has a handler, clear of
\* the processor's own exceptions, in a segment that covers all memory.
THEOREM InterruptsAlwaysReady == Spec => []InterruptsReady
<1>1. IInv => InterruptsReady
  <2> SUFFICES ASSUME IInv, interrupts
               PROVE  /\ {"console", "heap", "paging"} \subseteq up
                      /\ \A n \in Lines \cup {14} : Vector(n) \in Vectors /\ idt[Vector(n)] # "none"
                      /\ base >= 32
                      /\ Decode(gdt[1]).base = 0 /\ Decode(gdt[1]).limit = Word * Word - 1
    BY DEF InterruptsReady
  <2>1. {"console", "gdt", "heap", "idt", "paging"} \subseteq up /\ base = 32
    BY DEF IInv, Ordered, Brought
  <2>2. ASSUME NEW n \in Lines \cup {14}
        PROVE  Vector(n) \in Vectors
    BY <2>1, KernelAssumption DEF Vector
  <2>3. \A v \in Vectors : idt[v] # "none"
    BY <2>1 DEF IInv, GatesSet
  <2>4. Decode(gdt[1]) = gdt_structured[1]
    BY <2>1, SegmentsFromInvariant, KernelAssumption DEF SegmentsLoaded
  <2> QED
    BY <2>1, <2>2, <2>3, <2>4, KernelAssumption
<1> QED
  BY <1>1, BootInvariant, PTL

-----------------------------------------------------------------------------
(* The screen.                                                             *)

\* The columns left to the main line.
Limit == IF interrupts THEN Shared ELSE VGA_WIDTH

\* The text s fits behind column c, and unless a new line ends it, one more
\* character does.
Fits(s, c) == c + Len(s) < Limit \/ (c + Len(s) = Limit /\ s # <<>> /\ s[Len(s)] = "\n")

\* The text ends its line.
EndsLine(s) == s # <<>> /\ s[Len(s)] = "\n"

\* A new line ends a text, and is fetched last.
Texts ==
    /\ text \in Seq(Chars) /\ \A n \in DOMAIN text : text[n] = "\n" => n = Len(text)
    /\ pc \in {"idle", "scroll", "char", "put", "load_col", "store_col", "newline", "load_row", "store_row"}
    /\ pc = "put" => text # <<>> /\ text[1] \notin {"\n", "\r"}
    /\ pc \in {"idle", "newline", "load_row", "store_row"} => text = <<>>

\* What is left of the running text fits behind the column where it goes on.
Columns ==
    /\ col \in Nat /\ row \in Int /\ y \in Int /\ reg \in Int
    /\ Fits(text, col)
    /\ pc = "load_col" => Fits(text, col + 1)
    /\ pc = "store_col" => reg \in Nat /\ Fits(text, reg + 1)

\* The running text ends its line, and the next one starts at its beginning.
Aligned ==
    /\ pc \in {"scroll", "put", "load_col", "store_col"} => EndsLine(text)
    /\ pc \in {"idle", "load_row", "store_row"} => col = 0
    /\ pc = "char" => IF text = <<>> THEN col = 0 ELSE EndsLine(text)

\* All texts are lines that fit.
AllLines(s) == \A n \in DOMAIN s : LineWithin(s[n], Limit)

\* The column behind the running text.
EndColumn == CASE pc = "load_col" -> col + 1 + Len(text)
               [] pc = "store_col" -> reg + 1 + Len(text)
               [] OTHER -> col + Len(text)

\* The running text is the first part of a panic.
Panicking ==
    /\ EndColumn <= Len(PanicMark)
    /\ \A n \in DOMAIN text : text[n] # "\n"
    /\ pc \notin {"newline", "load_row", "store_row"}

\* What is still to be printed.
Unprinted ==
    IF at = "halted"
    THEN todo = <<>> \/ (todo \in {<<log(LastMessage), LastMessage>>, <<LastMessage>>} /\ Aligned)
    ELSE IF at = "panicked"
    THEN /\ ~interrupts
         /\ \/ todo = <<PanicMark, PanicMessage>> /\ pc = "idle" /\ col = 0
            \/ todo = <<PanicMessage>> /\ Panicking
            \/ todo = <<>>
    ELSE AllLines(todo) /\ todo \in Seq(Seq(Chars)) /\ Aligned

\* The rows of the cursor and of its copies.
Rows ==
    ~torn =>
        /\ row <= VGA_HEIGHT
        /\ pc = "scroll" => row = VGA_HEIGHT
        /\ pc \in {"put", "load_col", "store_col", "newline", "load_row", "store_row"} => row < VGA_HEIGHT
        /\ pc = "char" /\ text # <<>> => row < VGA_HEIGHT
        /\ pc = "put" => y < VGA_HEIGHT
        /\ pc = "store_row" => reg < VGA_HEIGHT

\* The number of the next line.
Counting == line \in Nat

\* What is known of the screen, its cursor and the texts.
ScreenInv == Texts /\ Columns /\ Unprinted /\ Rows

\* The rows that are taken when the texts of the steps so far have been printed.
Printed == CASE at \in {"_start", "clear"} -> 0
             [] at \in {"gdt", "panic"} -> 3
             [] OTHER -> 5

\* Whether the running call has still to end its row.
Running == IF pc = "idle" \/ (pc = "char" /\ text = <<>>) THEN 0 ELSE 1

\* As long as there is no heap, no interrupt comes and the screen does not get full.
BeforeHeap ==
    "heap" \notin up =>
        /\ at \in {"_start", "clear", "gdt", "heap", "panic", "panicked"}
        /\ row + Len(todo) + Running <= Printed
        /\ pc # "scroll"
        /\ pc = "store_row" => reg = row

-----------------------------------------------------------------------------
(* The handler's line.                                                     *)

\* What a character does to the cursor.
LEMMA PrintChar ==
    ASSUME NEW d, NEW chr
    PROVE  LET e == print_char(d, chr)
           IN  /\ chr = "\n" => e.col = 0 /\ e.row = d.row + 1
               /\ chr # "\n" /\ ~(d.col + 1 >= VGA_WIDTH) => e.row = d.row /\ e.col \in {0, d.col + 1}
<1>1. CASE chr = "\n"
  BY <1>1 DEF print_char, NewLine, Display
<1>2. CASE chr = "\r"
  BY <1>2 DEF print_char, Display
<1>3. CASE chr \notin {"\n", "\r"}
  <2> DEFINE put == Display(put_char(d.screen, d.col, d.row, chr), d.row, d.col + 1, d.gone)
  <2>1. print_char(d, chr) = IF put.col >= VGA_WIDTH THEN NewLine(put) ELSE put
    BY <1>3 DEF print_char
  <2>2. put.col = d.col + 1 /\ put.row = d.row
    BY DEF Display
  <2> HIDE DEF put
  <2> QED
    BY <1>3, <2>1, <2>2
<1> QED
  BY <1>1, <1>2, <1>3

\* The recursion of printc has a solution.
LEMMA PrintDefined ==
    ASSUME NEW d, NEW s \in Seq(Chars)
    PROVE  \E f : /\ printc(d, s) = f[Len(s)]
                  /\ f[0] = IF check_screen_overflow(d.row) THEN scroll_down_on_screen_overflow(d) ELSE d
                  /\ \A n \in 1..Len(s) : f[n] = print_char(f[n - 1], s[n])
<1> DEFINE Chs == 0..Len(s)
           first == IF check_screen_overflow(d.row) THEN scroll_down_on_screen_overflow(d) ELSE d
           Val(f, n) == IF n # 0 THEN print_char(f[n - 1], s[n]) ELSE first
           Body(f) == [n \in Chs |-> Val(f, n)]
           Good(f, m) == \A n \in Chs : n <= m => f[n] = Val(f, n)
           Possible(m) == \E f : f = [n \in Chs |-> f[n]] /\ Good(f, m)
           S == {m \in Nat : Possible(m)}
<1>1. Len(s) \in Nat
  OBVIOUS
<1> HIDE DEF first
<1>2. 0 \in S
  <2> DEFINE f == [n \in Chs |-> first]
  <2>1. f = [n \in Chs |-> f[n]]
    OBVIOUS
  <2>2. Good(f, 0)
    <3> SUFFICES ASSUME NEW n \in Chs, n <= 0
                 PROVE  f[n] = Val(f, n)
      OBVIOUS
    <3>1. n = 0 /\ f[n] = first
      BY <1>1
    <3> QED
      BY <3>1
  <2> QED
    BY <2>1, <2>2
<1>3. ASSUME NEW m \in S
      PROVE  m + 1 \in S
  <2>1. m \in Nat
    OBVIOUS
  <2>2. PICK f : f = [n \in Chs |-> f[n]] /\ Good(f, m)
    OBVIOUS
  <2> HIDE DEF S
  <2> DEFINE g == [n \in Chs |-> IF n = m + 1 THEN print_char(f[m], s[n]) ELSE f[n]]
  <2>3. \A n \in Chs : g[n] = IF n = m + 1 THEN print_char(f[m], s[n]) ELSE f[n]
    OBVIOUS
  <2>4. g = [n \in Chs |-> g[n]]
    OBVIOUS
  <2> HIDE DEF g
  <2>5. Good(g, m + 1)
    <3> SUFFICES ASSUME NEW n \in Chs, n <= m + 1
                 PROVE  g[n] = Val(g, n)
      OBVIOUS
    <3>1. n \in Nat /\ (n # 0 => n - 1 \in Chs /\ n - 1 <= m /\ n - 1 # m + 1)
      BY <1>1, <2>1
    <3>2. CASE n = m + 1
      <4>1. n # 0 /\ n - 1 = m /\ g[m] = f[m]
        BY <2>1, <2>3, <3>1, <3>2
      <4> QED
        BY <2>3, <3>2, <4>1
    <3>3. CASE n # m + 1
      <4>1. n <= m
        BY <2>1, <3>1, <3>3
      <4>2. g[n] = f[n] /\ (n # 0 => g[n - 1] = f[n - 1])
        BY <2>3, <3>1, <3>3
      <4>3. f[n] = Val(f, n)
        BY <2>2, <4>1
      <4> QED
        BY <4>2, <4>3
    <3> QED
      BY <3>2, <3>3
  <2>6. Possible(m + 1)
    <3> HIDE DEF Good
    <3> QED
      BY <2>4, <2>5
  <2> HIDE DEF Possible
  <2> QED
    BY <2>1, <2>6 DEF S
<1>4. Len(s) \in S
  <2>1. S \in SUBSET Nat
    OBVIOUS
  <2> HIDE DEF S
  <2> QED
    BY <1>1, <1>2, <1>3, <2>1, SetInduction
<1>5. PICK f : f = [n \in Chs |-> f[n]] /\ Good(f, Len(s))
  BY <1>4
<1> HIDE DEF S
<1>6. f = Body(f)
  <2>1. ASSUME NEW n \in Chs
        PROVE  f[n] = Val(f, n)
    <3>1. n <= Len(s)
      BY <1>1
    <3>2. Good(f, Len(s))
      BY <1>5
    <3> QED
      BY <3>1, <3>2
  <2> QED
    BY <1>5, <2>1
<1> DEFINE printed == CHOOSE h : h = Body(h)
<1>7. printed = Body(printed)
  <2> HIDE DEF Body
  <2> QED
    BY <1>6
<1>8. printc(d, s) = printed[Len(s)]
  BY DEF printc, first
<1> HIDE DEF printed
<1>9. \A n \in Chs : printed[n] = Val(printed, n)
  BY <1>7
<1>10. 0 \in Chs /\ \A n \in 1..Len(s) : n \in Chs /\ n # 0
  BY <1>1
<1> QED
  BY <1>8, <1>9, <1>10 DEF first

\* Where the handler's line fits, it takes the row of the cursor and leaves the
\* cursor at the beginning of the next one.
LEMMA KeyTextPrints ==
    ASSUME LineWithin(KeyText, VGA_WIDTH), NEW d, d.row \in Int, d.col \in Nat,
           d.col + Len(KeyText) <= VGA_WIDTH
    PROVE  LET e == printc(d, KeyText)
           IN  e.col = 0 /\ e.row = (IF d.row = VGA_HEIGHT THEN d.row ELSE d.row + 1)
<1>1. /\ KeyText \in Seq(Chars) /\ Len(KeyText) \in Nat \ {0} /\ VGA_WIDTH \in Nat
      /\ \A n \in 1..Len(KeyText) : KeyText[n] = "\n" <=> n = Len(KeyText)
  BY ConsoleAssumption DEF LineWithin
<1> DEFINE L == Len(KeyText)
           r == IF d.row = VGA_HEIGHT THEN d.row - 1 ELSE d.row
<1>2. PICK f : /\ printc(d, KeyText) = f[L]
               /\ f[0] = IF check_screen_overflow(d.row) THEN scroll_down_on_screen_overflow(d) ELSE d
               /\ \A n \in 1..L : f[n] = print_char(f[n - 1], KeyText[n])
  <2> HIDE DEF L
  <2>1. \E f : /\ printc(d, KeyText) = f[Len(KeyText)]
               /\ f[0] = IF check_screen_overflow(d.row) THEN scroll_down_on_screen_overflow(d) ELSE d
               /\ \A n \in 1..Len(KeyText) : f[n] = print_char(f[n - 1], KeyText[n])
    BY <1>1, PrintDefined
  <2> QED
    BY <2>1 DEF L
<1> DEFINE Before1(n) == f[n].row = r /\ f[n].col \in Nat /\ f[n].col <= d.col + n
           S == {n \in Nat : n < L => Before1(n)}
<1>3. 0 \in S
  <2>1. CASE d.row = VGA_HEIGHT
    <3>1. f[0] = scroll_down_on_screen_overflow(d)
      BY <1>2, <2>1 DEF check_screen_overflow
    <3>2. f[0].row = d.row - 1 /\ f[0].col = d.col
      BY <3>1 DEF scroll_down_on_screen_overflow, Display
    <3> QED
      BY <2>1, <3>2
  <2>2. CASE d.row # VGA_HEIGHT
    BY <1>2, <2>2 DEF check_screen_overflow
  <2> QED
    BY <2>1, <2>2
<1>4. ASSUME NEW n \in S
      PROVE  n + 1 \in S
  <2>1. ASSUME n + 1 < L
        PROVE  Before1(n + 1)
    <3>1. n \in Nat /\ Before1(n) /\ n + 1 \in 1..L /\ (n + 1) - 1 = n
      BY <1>1, <2>1
    <3>2. f[n + 1] = print_char(f[n], KeyText[n + 1]) /\ KeyText[n + 1] # "\n"
      BY <1>1, <1>2, <2>1, <3>1
    <3>3. ~(f[n].col + 1 >= VGA_WIDTH)
      BY <1>1, <2>1, <3>1
    <3>4. f[n + 1].row = f[n].row /\ f[n + 1].col \in {0, f[n].col + 1}
      BY <3>1, <3>2, <3>3, PrintChar
    <3>5. f[n].row = r /\ f[n].col \in Nat /\ f[n].col <= d.col + n /\ n \in Nat
      BY <3>1
    <3> HIDE DEF r
    <3>6. f[n + 1].row = r
      BY <3>4, <3>5
    <3>7. f[n + 1].col \in Nat /\ f[n + 1].col <= d.col + (n + 1)
      <4> DEFINE p == f[n].col
                 q == f[n + 1].col
                 b == d.col
      <4>1. n \in Nat /\ p \in Nat /\ b \in Nat /\ p <= b + n /\ q \in {0, p + 1}
        BY <3>4, <3>5
      <4> HIDE DEF p, q, b, S
      <4>2. q \in Nat /\ q <= b + (n + 1)
        BY <4>1
      <4> QED
        BY <4>2 DEF q, b
    <3> QED
      BY <3>6, <3>7
  <2> QED
    BY <2>1
<1>5. L - 1 \in S
  <2>1. S \in SUBSET Nat /\ L - 1 \in Nat
    BY <1>1
  <2> HIDE DEF S
  <2> QED
    BY <1>3, <1>4, <2>1, SetInduction
<1>6. Before1(L - 1) /\ L \in 1..L
  BY <1>1, <1>5
<1>7. f[L] = print_char(f[L - 1], KeyText[L]) /\ KeyText[L] = "\n"
  BY <1>1, <1>2, <1>6
<1>8. f[L].col = 0 /\ f[L].row = r + 1
  BY <1>6, <1>7, PrintChar
<1> QED
  BY <1>2, <1>8

-----------------------------------------------------------------------------
(* One step of a running call.                                             *)

\* The widths of the screen.
LEMMA Widths ==
    ASSUME TextsFit
    PROVE  /\ VGA_WIDTH \in Nat \ {0} /\ VGA_HEIGHT \in Nat \ {0, 1}
           /\ Len(KeyText) \in Nat \ {0} /\ Shared \in Nat \ {0} /\ Shared + Len(KeyText) = VGA_WIDTH + 1
           /\ Limit \in Nat /\ Shared <= Limit /\ Limit <= VGA_WIDTH
<1>1. KeyText \in Seq(Chars) /\ KeyText # <<>> /\ Len(KeyText) <= VGA_WIDTH
  BY DEF TextsFit, LineWithin
<1>2. VGA_WIDTH \in Nat \ {0} /\ VGA_HEIGHT \in Nat \ {0, 1}
  BY ConsoleAssumption
<1>3. Len(KeyText) \in Nat \ {0}
  BY <1>1
<1> QED
  BY <1>1, <1>2, <1>3 DEF Shared, Limit

\* A text without its first character.
LEMMA TailOf ==
    ASSUME NEW t \in Seq(Chars), t # <<>>
    PROVE  /\ Head(t) = t[1] /\ 1 \in DOMAIN t /\ DOMAIN t = 1..Len(t)
           /\ Len(t) \in Nat \ {0} /\ Tail(t) \in Seq(Chars) /\ Len(Tail(t)) = Len(t) - 1
           /\ \A n \in DOMAIN Tail(t) : n \in Nat /\ n + 1 \in DOMAIN t /\ Tail(t)[n] = t[n + 1]
           /\ Tail(t) = <<>> <=> Len(t) = 1
           /\ EndsLine(t) /\ Tail(t) # <<>> => EndsLine(Tail(t))
<1>1. /\ Head(t) = t[1] /\ 1 \in DOMAIN t /\ DOMAIN t = 1..Len(t)
      /\ Len(t) \in Nat \ {0} /\ Tail(t) \in Seq(Chars) /\ Len(Tail(t)) = Len(t) - 1
  OBVIOUS
<1>2. Tail(t) = <<>> <=> Len(t) = 1
  BY <1>1
<1>3. \A n \in DOMAIN Tail(t) : n \in Nat /\ n + 1 \in DOMAIN t /\ Tail(t)[n] = t[n + 1]
  <2>1. DOMAIN Tail(t) = 1..(Len(t) - 1)
    BY <1>1
  <2> QED
    BY <1>1, <2>1
<1>4. EndsLine(t) /\ Tail(t) # <<>> => EndsLine(Tail(t))
  <2> SUFFICES ASSUME t[Len(t)] = "\n", Len(t) # 1
               PROVE  Tail(t)[Len(t) - 1] = "\n"
    BY <1>1, <1>2 DEF EndsLine
  <2>1. Len(t) - 1 \in DOMAIN Tail(t) /\ (Len(t) - 1) + 1 = Len(t)
    BY <1>1
  <2> QED
    BY <1>3, <2>1
<1> QED
  BY <1>1, <1>2, <1>3, <1>4

\* What is left of a text fits where the text did.
LEMMA TailFits ==
    ASSUME TextsFit, NEW t \in Seq(Chars), t # <<>>, NEW c \in Nat, Fits(t, c)
    PROVE  /\ Fits(Tail(t), c) /\ Fits(Tail(t), 0) /\ Fits(t, 0)
           /\ t[1] # "\n" => Fits(Tail(t), c + 1) /\ c + 1 < VGA_WIDTH
<1>1. /\ Len(t) \in Nat \ {0} /\ Len(Tail(t)) = Len(t) - 1 /\ Limit \in Nat /\ Limit <= VGA_WIDTH
      /\ VGA_WIDTH \in Nat
  BY TailOf, Widths
<1>2. c + Len(t) < Limit \/ (c + Len(t) = Limit /\ EndsLine(t))
  BY DEF Fits, EndsLine
<1>3. c + Len(t) < Limit \/ c + Len(t) = Limit
  BY <1>2
<1>4. c + Len(Tail(t)) < Limit /\ 0 + Len(Tail(t)) < Limit
  BY <1>1, <1>3
<1>5. 0 + Len(t) < Limit \/ (0 + Len(t) = Limit /\ EndsLine(t))
  <2> DEFINE n == Len(t)
             m == Limit
  <2>1. n \in Nat /\ m \in Nat /\ (c + n < m \/ c + n = m)
    BY <1>1, <1>3
  <2> HIDE DEF n, m
  <2>2. 0 + n < m \/ (0 + n = m /\ c = 0)
    BY <2>1
  <2>3. c = 0 => (c + n < m \/ (c + n = m /\ EndsLine(t)))
    BY <1>2 DEF n, m
  <2> QED
    BY <2>2, <2>3, Zenon DEF n, m
<1>6. ASSUME t[1] # "\n"
      PROVE  Fits(Tail(t), c + 1) /\ c + 1 < VGA_WIDTH
  <2>1. CASE c + Len(t) < Limit
    BY <1>1, <2>1 DEF Fits
  <2>2. CASE c + Len(t) = Limit /\ EndsLine(t)
    <3>1. Len(t) # 1
      BY <1>6, <2>2 DEF EndsLine
    <3>2. EndsLine(Tail(t))
      BY <1>1, <2>2, <3>1, TailOf
    <3> QED
      BY <1>1, <2>2, <3>1, <3>2 DEF Fits, EndsLine
  <2> QED
    BY <1>2, <2>1, <2>2
<1> QED
  BY <1>4, <1>5, <1>6 DEF Fits, EndsLine

\* A text that fits ends before the end of the row.
LEMMA FitsBelow ==
    ASSUME TextsFit, NEW t \in Seq(Chars), NEW c \in Nat, Fits(t, c)
    PROVE  c < VGA_WIDTH /\ c < Limit /\ Fits(<<>>, c)
<1>1. Len(t) \in Nat /\ (t # <<>> => Len(t) # 0) /\ Limit \in Nat /\ Limit <= VGA_WIDTH /\ VGA_WIDTH \in Nat
  BY Widths
<1>2. c + Len(t) < Limit \/ (c + Len(t) = Limit /\ t # <<>>)
  BY DEF Fits
<1>3. Len(<<>>) = 0
  OBVIOUS
<1> QED
  BY <1>1, <1>2, <1>3 DEF Fits

\* The messages that are not lines: the last one fits at the beginning of a row,
\* the second part of a panic behind the first when interrupts are off.
LEMMA MessageFits ==
    ASSUME TextsFit
    PROVE  /\ Unended(LastMessage) /\ Unended(PanicMark) /\ Unended(PanicMessage)
           /\ Len(PanicMark) \in Nat /\ Fits(LastMessage, 0)
           /\ ~interrupts => Fits(PanicMark, 0)
           /\ \A c \in Nat : ~interrupts /\ c <= Len(PanicMark) => Fits(PanicMessage, c)
<1>1. Unended(LastMessage) /\ Unended(PanicMark) /\ Unended(PanicMessage)
  BY Zenon DEF TextsFit
<1>2. LastMessage \in Seq(Chars) /\ PanicMark \in Seq(Chars) /\ PanicMessage \in Seq(Chars)
  BY <1>1, Zenon DEF Unended
<1>3. Len(LastMessage) \in Nat /\ Len(PanicMark) \in Nat /\ Len(PanicMessage) \in Nat
  BY <1>2
<1>4. Len(LastMessage) < Shared /\ Len(PanicMark) + Len(PanicMessage) < VGA_WIDTH
  BY Zenon DEF TextsFit
<1>5. 0 + Len(LastMessage) < Limit
  BY <1>3, <1>4, Widths
<1>6. ~interrupts => 0 + Len(PanicMark) < Limit
  BY <1>3, <1>4, Widths DEF Limit
<1>7. ASSUME NEW c \in Nat, ~interrupts, c <= Len(PanicMark)
      PROVE  c + Len(PanicMessage) < Limit
  <2>1. Limit = VGA_WIDTH
    BY <1>7 DEF Limit
  <2> QED
    BY <1>3, <1>4, <1>7, <2>1, Widths
<1> QED
  BY <1>1, <1>3, <1>5, <1>6, <1>7, Zenon DEF Fits

\* What is still to be printed stays so while a call runs.
LEMMA UnprintedKept ==
    ASSUME Unprinted, UNCHANGED <<at, todo, interrupts>>, pc # "idle",
           Aligned => Aligned', Panicking => Panicking'
    PROVE  Unprinted'
<1>1. AllLines(todo) => AllLines(todo)'
  BY DEF AllLines, Limit
<1> QED
  BY <1>1 DEF Unprinted

\* Where the cursor and its copies are.
LEMMA Cursor ==
    ASSUME ScreenInv
    PROVE  /\ col \in Nat /\ row \in Int /\ y \in Int /\ reg \in Int
           /\ pc = "store_col" => reg \in Nat
  BY Zenon DEF ScreenInv, Columns

\* A step that moves neither cursor nor text.
LEMMA NothingMoves ==
    ASSUME ScreenInv, UNCHANGED <<pc, text, row, col, reg, y, at, todo, interrupts, torn>>
    PROVE  ScreenInv'
<1>1. Limit' = Limit
  BY DEF Limit
<1>2. Texts' /\ Rows'
  BY DEF ScreenInv, Texts, Rows
<1>3. Columns'
  BY <1>1 DEF ScreenInv, Columns, Fits
<1>4. Aligned' <=> Aligned
  BY DEF Aligned
<1>5. Panicking' <=> Panicking
  BY DEF Panicking, EndColumn
<1>6. Unprinted'
  BY <1>1, <1>4, <1>5 DEF ScreenInv, Unprinted, AllLines
<1> QED
  BY <1>2, <1>3, <1>6 DEF ScreenInv

\* After scrolling the cursor is on the last row.
LEMMA EndScrollScreen ==
    ASSUME TextsFit, ScreenInv, EndScroll, UNCHANGED <<at, todo, interrupts, torn>>
    PROVE  ScreenInv'
<1>1. /\ pc = "scroll" /\ pc' = "char" /\ row' = row - 1 /\ UNCHANGED <<text, col, reg, y>>
      /\ Limit' = Limit
  BY DEF EndScroll, Goto, Limit
<1>2. Texts'
  BY <1>1 DEF ScreenInv, Texts
<1>3. Columns'
  BY <1>1 DEF ScreenInv, Columns, Fits
<1>4. Rows'
  BY <1>1, Widths DEF ScreenInv, Rows, Columns
<1>5. Aligned => Aligned'
  BY <1>1 DEF Aligned, EndsLine
<1>6. Panicking => Panicking'
  BY <1>1 DEF Panicking, EndColumn
<1> QED
  BY <1>1, <1>2, <1>3, <1>4, <1>5, <1>6, UnprintedKept DEF ScreenInv

\* A new line or a return is fetched.
LEMMA FetchControlScreen ==
    ASSUME TextsFit, ScreenInv, FetchControl, UNCHANGED <<at, todo, interrupts, torn>>
    PROVE  ScreenInv'
<1>1. /\ pc = "char" /\ text # <<>> /\ text \in Seq(Chars) /\ text' = Tail(text)
      /\ UNCHANGED <<row, reg, y>> /\ Limit' = Limit
      /\ \/ text[1] = "\n" /\ pc' = "newline" /\ col' = col
         \/ text[1] = "\r" /\ pc' = "char" /\ col' = 0
  BY TailOf DEF FetchControl, Goto, ScreenInv, Texts, Limit
<1>2. text' \in Seq(Chars) /\ Len(text) \in Nat \ {0} /\ Len(text') = Len(text) - 1 /\ col \in Nat
  BY <1>1, TailOf DEF ScreenInv, Columns
<1>3. text[1] = "\n" => text' = <<>>
  <2> SUFFICES ASSUME text[1] = "\n"
               PROVE  text' = <<>>
    OBVIOUS
  <2>1. 1 \in DOMAIN text
    BY <1>1, TailOf
  <2>2. Len(text) = 1
    BY <2>1 DEF ScreenInv, Texts
  <2> QED
    BY <1>1, <2>2, TailOf
<1>4. \A n \in DOMAIN text' : text'[n] = "\n" => n = Len(text')
  <2> SUFFICES ASSUME NEW n \in DOMAIN text', text'[n] = "\n"
               PROVE  n = Len(text')
    OBVIOUS
  <2>1. n \in Nat /\ n + 1 \in DOMAIN text /\ text[n + 1] = "\n"
    BY <1>1, TailOf
  <2>2. n + 1 = Len(text)
    BY <2>1 DEF ScreenInv, Texts
  <2> QED
    BY <1>2, <2>1, <2>2
<1>5. Texts'
  BY <1>1, <1>2, <1>3, <1>4 DEF Texts
<1>6. Columns'
  <2>1. Fits(Tail(text), col) /\ Fits(Tail(text), 0)
    BY <1>1, <1>2, TailFits DEF ScreenInv, Columns
  <2>2. Fits(text', col')
    BY <1>1, <2>1
  <2>3. Fits(text, col)' <=> Fits(text', col')
    BY <1>1 DEF Fits
  <2>4. col' \in Nat /\ row' \in Int /\ y' \in Int /\ reg' \in Int /\ pc' \notin {"load_col", "store_col"}
    BY <1>1, Cursor
  <2> QED
    BY <2>2, <2>3, <2>4, Zenon DEF Columns
<1>7. Rows'
  BY <1>1, Widths DEF ScreenInv, Rows, Columns
<1>8. Aligned => Aligned'
  <2> SUFFICES ASSUME Aligned, text[1] = "\r"
               PROVE  Aligned'
    BY <1>1 DEF Aligned
  <2>1. EndsLine(text) /\ text' # <<>> => EndsLine(text')
    BY <1>1, TailOf
  <2>2. pc' = "char" /\ col' = 0 /\ EndsLine(text)
    BY <1>1 DEF Aligned
  <2> QED
    BY <2>1, <2>2 DEF Aligned, EndsLine
<1>9. Panicking => Panicking'
  <2> SUFFICES ASSUME Panicking
               PROVE  Panicking'
    OBVIOUS
  <2>1. text[1] = "\r" /\ pc' = "char" /\ col' = 0 /\ col + Len(text) <= Len(PanicMark)
    BY <1>1, TailOf DEF Panicking, EndColumn
  <2>2. EndColumn' <= Len(PanicMark)
    BY <1>2, <2>1, MessageFits DEF EndColumn
  <2>3. \A n \in DOMAIN text' : text'[n] # "\n"
    BY <1>1, TailOf DEF Panicking
  <2> QED
    BY <2>1, <2>2, <2>3 DEF Panicking
<1> QED
  BY <1>1, <1>5, <1>6, <1>7, <1>8, <1>9, UnprintedKept DEF ScreenInv

\* The cursor is looked at.
LEMMA FetchScreen ==
    ASSUME TextsFit, ScreenInv, Fetch, UNCHANGED <<at, todo, interrupts, torn>>
    PROVE  ScreenInv'
<1>1. /\ pc = "char" /\ text # <<>> /\ Head(text) \notin {"\n", "\r"} /\ pc' = "put" /\ y' = row
      /\ UNCHANGED <<text, row, col, reg>> /\ Limit' = Limit
  BY DEF Fetch, Goto, Limit, display
<1>2. Texts'
  BY <1>1, TailOf DEF ScreenInv, Texts
<1>3. Columns'
  BY <1>1 DEF ScreenInv, Columns, Fits
<1>4. Rows'
  BY <1>1 DEF ScreenInv, Rows
<1>5. Aligned => Aligned'
  BY <1>1 DEF Aligned, EndsLine
<1>6. Panicking => Panicking'
  BY <1>1 DEF Panicking, EndColumn
<1> QED
  BY <1>1, <1>2, <1>3, <1>4, <1>5, <1>6, UnprintedKept DEF ScreenInv

\* The character is written where the cursor was.
LEMMA PutScreen ==
    ASSUME TextsFit, ScreenInv, Put, UNCHANGED <<at, todo, interrupts, torn>>
    PROVE  ScreenInv'
<1>1. /\ pc = "put" /\ text # <<>> /\ text \in Seq(Chars) /\ text' = Tail(text) /\ text[1] \notin {"\n", "\r"}
      /\ pc' = "load_col" /\ UNCHANGED <<row, col, reg, y>> /\ Limit' = Limit
  BY DEF Put, Goto, ScreenInv, Texts, Limit
<1>2. text' \in Seq(Chars) /\ Len(text) \in Nat \ {0} /\ Len(text') = Len(text) - 1 /\ col \in Nat
  BY <1>1, TailOf DEF ScreenInv, Columns
<1>3. \A n \in DOMAIN text' : text'[n] = "\n" => n = Len(text')
  <2> SUFFICES ASSUME NEW n \in DOMAIN text', text'[n] = "\n"
               PROVE  n = Len(text')
    OBVIOUS
  <2>1. n \in Nat /\ n + 1 \in DOMAIN text /\ text[n + 1] = "\n"
    BY <1>1, TailOf
  <2>2. n + 1 = Len(text)
    BY <2>1 DEF ScreenInv, Texts
  <2> QED
    BY <1>2, <2>1, <2>2
<1>4. Texts'
  BY <1>1, <1>2, <1>3 DEF Texts
<1>5. Columns'
  <2>1. Fits(Tail(text), col) /\ Fits(Tail(text), col + 1)
    BY <1>1, <1>2, TailFits DEF ScreenInv, Columns
  <2>2. (Fits(text, col)' <=> Fits(Tail(text), col)) /\ (Fits(text, col + 1)' <=> Fits(Tail(text), col + 1))
    BY <1>1 DEF Fits
  <2> QED
    BY <1>1, <1>2, <2>1, <2>2 DEF ScreenInv, Columns
<1>6. Rows'
  BY <1>1 DEF ScreenInv, Rows
<1>7. Aligned => Aligned'
  <2> SUFFICES ASSUME Aligned
               PROVE  Aligned'
    OBVIOUS
  <2>1. EndsLine(text)
    BY <1>1 DEF Aligned
  <2>2. text' # <<>>
    <3>1. Len(text) # 1
      BY <1>1, <2>1 DEF EndsLine
    <3> QED
      BY <1>1, <3>1, TailOf
  <2>3. EndsLine(text')
    BY <1>1, <2>1, <2>2, TailOf
  <2> QED
    BY <1>1, <2>3 DEF Aligned, EndsLine
<1>8. Panicking => Panicking'
  <2> SUFFICES ASSUME Panicking
               PROVE  Panicking'
    OBVIOUS
  <2>1. col + Len(text) <= Len(PanicMark)
    BY <1>1 DEF Panicking, EndColumn
  <2>2. EndColumn' = col + 1 + Len(text')
    BY <1>1 DEF EndColumn
  <2>3. EndColumn' <= Len(PanicMark)
    BY <1>2, <2>1, <2>2
  <2>4. \A n \in DOMAIN text' : text'[n] # "\n"
    BY <1>1, TailOf DEF Panicking
  <2> QED
    BY <1>1, <2>3, <2>4 DEF Panicking
<1> QED
  BY <1>1, <1>4, <1>5, <1>6, <1>7, <1>8, UnprintedKept DEF ScreenInv

\* The column is loaded.
LEMMA LoadColScreen ==
    ASSUME TextsFit, ScreenInv, LoadCol, UNCHANGED <<at, todo, interrupts, torn>>
    PROVE  ScreenInv'
<1>1. pc = "load_col" /\ pc' = "store_col" /\ reg' = col /\ UNCHANGED <<text, row, col, y>> /\ Limit' = Limit
  BY DEF LoadCol, Goto, Limit, display
<1>2. Texts'
  BY <1>1 DEF ScreenInv, Texts
<1>3. Columns'
  <2>1. Fits(text, col) /\ Fits(text, col + 1)
    BY <1>1 DEF ScreenInv, Columns
  <2>2. (Fits(text, col)' <=> Fits(text, col)) /\ (Fits(text, reg + 1)' <=> Fits(text, col + 1))
    BY <1>1 DEF Fits
  <2>3. col' \in Nat /\ row' \in Int /\ y' \in Int /\ reg' \in Nat /\ reg' \in Int /\ pc' # "load_col"
    BY <1>1, Cursor
  <2> QED
    BY <2>1, <2>2, <2>3, Zenon DEF Columns
<1>4. Rows'
  BY <1>1 DEF ScreenInv, Rows
<1>5. Aligned => Aligned'
  BY <1>1 DEF Aligned, EndsLine
<1>6. Panicking => Panicking'
  BY <1>1 DEF Panicking, EndColumn
<1> QED
  BY <1>1, <1>2, <1>3, <1>4, <1>5, <1>6, UnprintedKept DEF ScreenInv

\* The column that was loaded is stored, one more; there is always one more.
LEMMA StoreColScreen ==
    ASSUME TextsFit, ScreenInv, StoreCol, UNCHANGED <<at, todo, interrupts, torn>>
    PROVE  ScreenInv'
<1>1. pc = "store_col" /\ text \in Seq(Chars) /\ reg \in Nat /\ Fits(text, reg + 1) /\ row \in Int /\ y \in Int
  BY DEF StoreCol, ScreenInv, Texts, Columns
<1>2. reg + 1 < VGA_WIDTH /\ reg + 1 \in Nat /\ VGA_WIDTH \in Nat /\ ~(reg + 1 >= VGA_WIDTH)
  <2> DEFINE c == reg + 1
  <2>1. c \in Nat
    BY Cursor, <1>1
  <2>2. Fits(text, c)
    BY <1>1, Zenon
  <2> HIDE DEF c
  <2>3. c < VGA_WIDTH /\ VGA_WIDTH \in Nat
    BY <1>1, <2>1, <2>2, FitsBelow, Widths
  <2> QED
    BY <2>1, <2>3 DEF c
<1>3. pc' = "char" /\ col' = reg + 1 /\ UNCHANGED <<text, row, reg, y>> /\ Limit' = Limit
  BY <1>2 DEF StoreCol, Goto, Limit
<1>4. Texts'
  BY <1>1, <1>3 DEF ScreenInv, Texts
<1>5. Columns'
  <2>1. Fits(text, col)' <=> Fits(text, reg + 1)
    BY <1>3 DEF Fits
  <2>2. col' \in Nat /\ row' \in Int /\ y' \in Int /\ reg' \in Int /\ pc' \notin {"load_col", "store_col"}
    <3>1. reg \in Nat /\ row \in Int /\ y \in Int
      BY <1>1, Cursor
    <3> QED
      BY <1>3, <3>1
  <2> QED
    BY <1>1, <2>1, <2>2, Zenon DEF Columns
<1>6. Rows'
  BY <1>1, <1>3, Widths DEF ScreenInv, Rows
<1>7. Aligned => Aligned'
  BY <1>1, <1>3 DEF Aligned, EndsLine
<1>8. Panicking => Panicking'
  BY <1>1, <1>3 DEF Panicking, EndColumn
<1> QED
  BY <1>1, <1>3, <1>4, <1>5, <1>6, <1>7, <1>8, UnprintedKept DEF ScreenInv

\* The three steps of a new line.
LEMMA NewLineScreen ==
    ASSUME TextsFit, ScreenInv, ResetCol \/ LoadRow \/ StoreRow, UNCHANGED <<at, todo, interrupts, torn>>
    PROVE  ScreenInv'
<1>1. text = <<>> /\ UNCHANGED <<text, y>> /\ Limit' = Limit /\ ~Panicking /\ pc # "idle"
  BY DEF ResetCol, LoadRow, StoreRow, ScreenInv, Texts, Limit, display, Panicking
<1>2. Len(<<>>) = 0 /\ 0 < Limit /\ Limit \in Nat
  BY Widths
<1>3. CASE ResetCol
  <2>1. pc = "newline" /\ pc' = "load_row" /\ col' = 0 /\ UNCHANGED <<row, reg>>
    BY <1>3 DEF ResetCol, Goto
  <2>2. Texts' /\ Rows' /\ Aligned'
    BY <1>1, <2>1 DEF ScreenInv, Texts, Rows, Aligned
  <2>3. Columns'
    <3>1. col' = 0 /\ Len(text') = 0 /\ Limit' = Limit /\ 0 + 0 < Limit
      BY <1>1, <1>2, <2>1
    <3>2. Fits(text, col)'
      BY <3>1, Zenon DEF Fits
    <3>3. col' \in Nat /\ row' \in Int /\ y' \in Int /\ reg' \in Int /\ pc' \notin {"load_col", "store_col"}
      BY <1>1, <2>1, Cursor
    <3> QED
      BY <3>2, <3>3, Zenon DEF Columns
  <2> QED
    BY <1>1, <2>2, <2>3, UnprintedKept DEF ScreenInv
<1>4. CASE LoadRow
  <2>1. pc = "load_row" /\ pc' = "store_row" /\ reg' = row /\ UNCHANGED <<row, col>>
    BY <1>4 DEF LoadRow, Goto, display
  <2>2. Texts' /\ Rows' /\ (Aligned => Aligned')
    BY <1>1, <2>1 DEF ScreenInv, Texts, Rows, Aligned
  <2>3. Columns'
    BY <1>1, <2>1 DEF ScreenInv, Columns, Fits
  <2> QED
    BY <1>1, <2>2, <2>3, UnprintedKept DEF ScreenInv
<1>5. CASE StoreRow
  <2>1. pc = "store_row" /\ pc' = "char" /\ row' = reg + 1 /\ UNCHANGED <<reg, col>>
    BY <1>5 DEF StoreRow, Goto
  <2>2. Texts' /\ (Aligned => Aligned')
    BY <1>1, <2>1 DEF ScreenInv, Texts, Aligned
  <2>3. row' \in Int /\ reg \in Int
    BY <2>1, Cursor
  <2>4. Columns'
    <3>1. Fits(text, col)' <=> Fits(text, col)
      BY <1>1, <2>1 DEF Fits
    <3>2. Fits(text, col)
      BY DEF ScreenInv, Columns
    <3>3. col' \in Nat /\ y' \in Int /\ reg' \in Int /\ pc' \notin {"load_col", "store_col"}
      BY <1>1, <2>1, Cursor
    <3> QED
      BY <2>3, <3>1, <3>2, <3>3, Zenon DEF Columns
  <2>5. Rows'
    <3>1. ~torn => reg < VGA_HEIGHT
      BY <2>1, Zenon DEF ScreenInv, Rows
    <3>2. ~torn => row' <= VGA_HEIGHT
      BY <2>1, <2>3, <3>1, Widths
    <3>3. text' = <<>>
      BY <1>1
    <3> QED
      BY <2>1, <3>2, <3>3 DEF Rows
  <2> QED
    BY <1>1, <2>2, <2>4, <2>5, UnprintedKept DEF ScreenInv
<1> QED
  BY <1>3, <1>4, <1>5

\* The call returns.
LEMMA ReturnScreen ==
    ASSUME TextsFit, ScreenInv, Return, UNCHANGED <<at, todo, interrupts, torn>>
    PROVE  ScreenInv'
<1>1. /\ pc = "char" /\ pc' = "idle" /\ text = <<>> /\ reg' = 0 /\ y' = 0
      /\ UNCHANGED <<text, row, col>> /\ Limit' = Limit
  BY DEF Return, Goto, Limit, display
<1>2. Texts' /\ Rows'
  BY <1>1 DEF ScreenInv, Texts, Rows
<1>3. Columns'
  BY <1>1 DEF ScreenInv, Columns, Fits
<1>4. Aligned => Aligned'
  BY <1>1 DEF Aligned
<1>5. Panicking => Panicking'
  BY <1>1 DEF Panicking, EndColumn
<1> QED
  BY <1>1, <1>2, <1>3, <1>4, <1>5, UnprintedKept DEF ScreenInv

\* Whatever step a call makes.
LEMMA PrintStepScreen ==
    ASSUME TextsFit, ScreenInv, PrintStep, UNCHANGED <<at, todo, interrupts>>
    PROVE  ScreenInv'
<1>1. UNCHANGED torn
  BY DEF PrintStep
<1>2. CASE ScrollRow
  BY <1>1, <1>2, NothingMoves DEF ScrollRow
<1> QED
  BY <1>1, <1>2, EndScrollScreen, FetchControlScreen, FetchScreen, PutScreen, LoadColScreen, StoreColScreen,
     NewLineScreen, ReturnScreen DEF PrintStep

-----------------------------------------------------------------------------
(* The next text, the steps of the boot, and the handler.                  *)

\* A text fits further to the left too.
LEMMA FitsLeft ==
    ASSUME TextsFit, NEW t \in Seq(Chars), NEW c \in Nat, NEW b \in Nat, b <= c, Fits(t, c)
    PROVE  Fits(t, b)
<1> DEFINE n == Len(t)
           m == Limit
<1>1. n \in Nat /\ m \in Nat
  BY Widths
<1>2. c + n < m \/ (c + n = m /\ EndsLine(t))
  BY DEF Fits, EndsLine
<1> HIDE DEF n, m
<1>3. b + n < m \/ (b + n = m /\ EndsLine(t))
  <2>1. CASE c + n < m
    BY <1>1, <2>1
  <2>2. CASE c + n = m /\ EndsLine(t)
    BY <1>1, <2>2
  <2> QED
    BY <1>2, <2>1, <2>2
<1> QED
  BY <1>3, Zenon DEF Fits, EndsLine, n, m

\* A line fits at the beginning of a row.
LEMMA LineFits ==
    ASSUME TextsFit, NEW s, LineWithin(s, Limit)
    PROVE  /\ s \in Seq(Chars) /\ s # <<>> /\ EndsLine(s) /\ Fits(s, 0)
           /\ \A n \in DOMAIN s : s[n] = "\n" => n = Len(s)
<1>1. s \in Seq(Chars) /\ s # <<>> /\ Len(s) <= Limit /\ \A n \in DOMAIN s : s[n] = "\n" <=> n = Len(s)
  BY Zenon DEF LineWithin
<1>2. Len(s) \in DOMAIN s
  <2>1. s \in Seq(Chars) /\ s # <<>>
    BY <1>1
  <2> QED
    BY <2>1
<1>3. EndsLine(s)
  BY <1>1, <1>2, Zenon DEF EndsLine
<1>4. 0 + Len(s) < Limit \/ 0 + Len(s) = Limit
  <2>1. s \in Seq(Chars) /\ Len(s) <= Limit /\ Limit \in Nat
    BY <1>1, Widths
  <2> QED
    BY <2>1
<1> QED
  BY <1>1, <1>3, <1>4, Zenon DEF Fits, EndsLine

\* A line that fits into fewer columns fits into more.
LEMMA LineWithinMore ==
    ASSUME NEW s, NEW r \in Nat, NEW q \in Nat, r <= q, LineWithin(s, r)
    PROVE  LineWithin(s, q)
<1>1. s \in Seq(Chars) /\ Len(s) <= r
  BY Zenon DEF LineWithin
<1>2. Len(s) <= q
  BY <1>1
<1> QED
  BY <1>2, Zenon DEF LineWithin

\* A call begins with a text that fits behind the cursor.
LEMMA CallScreen ==
    ASSUME TextsFit, ScreenInv, PrintText, Head(todo) \in Seq(Chars), Fits(Head(todo), col),
           \A n \in DOMAIN Head(todo) : Head(todo)[n] = "\n" => n = Len(Head(todo))
    PROVE  Texts' /\ Columns' /\ Rows'
<1>1. /\ pc = "idle" /\ text' = Head(todo) /\ UNCHANGED <<row, col, y, reg, torn>> /\ Limit' = Limit
      /\ pc' = IF row = VGA_HEIGHT THEN "scroll" ELSE "char"
  BY DEF PrintText, Call, Goto, check_screen_overflow, display, Limit
<1>2. pc' \in {"scroll", "char"}
  BY <1>1
<1>3. Texts'
  BY <1>1, <1>2, Zenon DEF Texts
<1>4. Columns'
  <2>1. Fits(text, col)' <=> Fits(Head(todo), col)
    BY <1>1, Zenon DEF Fits
  <2>2. col' \in Nat /\ row' \in Int /\ y' \in Int /\ reg' \in Int /\ pc' \notin {"load_col", "store_col"}
    BY <1>1, <1>2, Cursor
  <2> QED
    BY <2>1, <2>2, Zenon DEF Columns
<1>5. Rows'
  <2>1. ~torn => row <= VGA_HEIGHT
    BY DEF ScreenInv, Rows
  <2>2. row \in Int /\ VGA_HEIGHT \in Nat
    BY Cursor, Widths
  <2> QED
    BY <1>1, <1>2, <2>1, <2>2 DEF Rows
<1> QED
  BY <1>3, <1>4, <1>5

\* The first of the texts that are left.
LEMMA HeadOf ==
    ASSUME NEW S, NEW t \in Seq(S), t # <<>>
    PROVE  /\ 1 \in DOMAIN t /\ Head(t) = t[1] /\ Tail(t) \in Seq(S) /\ Len(Tail(t)) = Len(t) - 1
           /\ Len(t) \in Nat \ {0}
           /\ \A n \in DOMAIN Tail(t) : n + 1 \in DOMAIN t /\ Tail(t)[n] = t[n + 1]
<1>1. 1 \in DOMAIN t /\ Head(t) = t[1] /\ Tail(t) \in Seq(S) /\ Len(Tail(t)) = Len(t) - 1 /\ Len(t) \in Nat \ {0}
  OBVIOUS
<1>2. DOMAIN Tail(t) = 1..(Len(t) - 1)
  BY <1>1
<1> QED
  BY <1>1, <1>2

\* The next text is printed.
LEMMA PrintTextScreen ==
    ASSUME TextsFit, ScreenInv, PrintText
    PROVE  ScreenInv'
<1>1. /\ todo # <<>> /\ pc = "idle" /\ text' = Head(todo) /\ todo' = Tail(todo)
      /\ UNCHANGED <<col, at, interrupts>> /\ Limit' = Limit /\ pc' \in {"scroll", "char"} /\ text = <<>>
  <2>1. /\ todo # <<>> /\ pc = "idle" /\ text' = Head(todo) /\ todo' = Tail(todo)
        /\ UNCHANGED <<col, at, interrupts>> /\ Limit' = Limit
        /\ pc' = IF check_screen_overflow(row) THEN "scroll" ELSE "char"
    BY DEF PrintText, Call, Goto, display, Limit
  <2>2. text = <<>>
    BY <2>1 DEF ScreenInv, Texts
  <2> QED
    BY <2>1, <2>2
<1>2. CASE at = "halted"
  <2>1. todo \in {<<log(LastMessage), LastMessage>>, <<LastMessage>>} /\ Aligned
    BY <1>1, <1>2 DEF ScreenInv, Unprinted
  <2>2. col = 0
    BY <1>1, <2>1 DEF Aligned
  <2>3. CASE todo = <<log(LastMessage), LastMessage>>
    <3>1. Head(todo) = log(LastMessage) /\ todo' = <<LastMessage>>
      BY <1>1, <2>3
    <3>2. LineWithin(log(LastMessage), Limit)
      <4>1. LineWithin(log(LastMessage), Shared)
        BY Zenon DEF TextsFit
      <4> QED
        BY <4>1, Widths, LineWithinMore
    <3>3. Texts' /\ Columns' /\ Rows' /\ EndsLine(text')
      BY <1>1, <2>2, <3>1, <3>2, LineFits, CallScreen, Zenon
    <3>4. Aligned'
      BY <1>1, <3>3, Zenon DEF Aligned, EndsLine
    <3> QED
      BY <1>1, <1>2, <3>1, <3>3, <3>4 DEF ScreenInv, Unprinted
  <2>4. CASE todo = <<LastMessage>>
    <3>1. Head(todo) = LastMessage /\ todo' = <<>>
      BY <1>1, <2>4
    <3>2. Texts' /\ Columns' /\ Rows'
      BY <2>2, <3>1, MessageFits, CallScreen, Zenon DEF Unended
    <3> QED
      BY <1>1, <1>2, <3>1, <3>2 DEF ScreenInv, Unprinted
  <2> QED
    BY <2>1, <2>3, <2>4
<1>3. CASE at = "panicked"
  <2>1. /\ ~interrupts
        /\ \/ todo = <<PanicMark, PanicMessage>> /\ col = 0
           \/ todo = <<PanicMessage>> /\ Panicking
    BY <1>1, <1>3 DEF ScreenInv, Unprinted
  <2>2. CASE todo = <<PanicMark, PanicMessage>> /\ col = 0
    <3>1. Head(todo) = PanicMark /\ todo' = <<PanicMessage>>
      BY <1>1, <2>2
    <3>2. Texts' /\ Columns' /\ Rows'
      BY <2>1, <2>2, <3>1, MessageFits, CallScreen, Zenon DEF Unended
    <3>3. EndColumn' <= Len(PanicMark)
      <4>1. EndColumn' = 0 + Len(PanicMark)
        BY <1>1, <2>2, <3>1 DEF EndColumn
      <4> QED
        BY <4>1, MessageFits
    <3>4. Panicking'
      BY <1>1, <3>1, <3>3, MessageFits, Zenon DEF Panicking, Unended
    <3> QED
      BY <1>1, <1>3, <2>1, <3>1, <3>2, <3>4 DEF ScreenInv, Unprinted
  <2>3. CASE todo = <<PanicMessage>> /\ Panicking
    <3>1. Head(todo) = PanicMessage /\ todo' = <<>>
      BY <1>1, <2>3
    <3>2. col \in Nat /\ col <= Len(PanicMark)
      <4>1. EndColumn = col + Len(text)
        BY <1>1 DEF EndColumn
      <4>2. EndColumn <= Len(PanicMark)
        BY <2>3 DEF Panicking
      <4> QED
        BY <1>1, <4>1, <4>2, MessageFits, Cursor
    <3>3. Texts' /\ Columns' /\ Rows'
      BY <2>1, <3>1, <3>2, MessageFits, CallScreen, Zenon DEF Unended
    <3> QED
      BY <1>1, <1>3, <2>1, <3>1, <3>3 DEF ScreenInv, Unprinted
  <2> QED
    BY <2>1, <2>2, <2>3
<1>4. CASE at \notin {"halted", "panicked"}
  <2>1. AllLines(todo) /\ todo \in Seq(Seq(Chars)) /\ Aligned
    BY <1>4 DEF ScreenInv, Unprinted
  <2>2. col = 0
    BY <1>1, <2>1 DEF Aligned
  <2>3. LineWithin(Head(todo), Limit)
    BY <1>1, <2>1, HeadOf DEF AllLines
  <2>4. Texts' /\ Columns' /\ Rows' /\ EndsLine(text')
    BY <1>1, <2>2, <2>3, LineFits, CallScreen, Zenon
  <2>5. Aligned'
    BY <1>1, <2>4, Zenon DEF Aligned, EndsLine
  <2>6. AllLines(todo') /\ todo' \in Seq(Seq(Chars))
    BY <1>1, <2>1, HeadOf DEF AllLines
  <2>7. AllLines(todo)' <=> AllLines(todo')
    BY <1>1 DEF AllLines
  <2> QED
    BY <1>1, <1>4, <2>4, <2>5, <2>6, <2>7 DEF ScreenInv, Unprinted
<1> QED
  BY <1>2, <1>3, <1>4

\* From one step of the boot to the next.
LEMMA StepScreen ==
    ASSUME TextsFit, ScreenInv, pc = "idle", todo = <<>>, at \notin {"halted", "panicked"},
           UNCHANGED <<pc, text, y, reg, torn>>, row' \in {row, 0}, col' \in {col, 0}
    PROVE  /\ col = 0
           /\ \/ at' \notin {"halted", "panicked"} /\ todo' \in Seq({s \in Seq(Chars) : LineWithin(s, Limit')})
              \/ at' = "halted" /\ todo' = <<log(LastMessage), LastMessage>>
              \/ at' = "panicked" /\ todo' = <<PanicMark, PanicMessage>> /\ ~interrupts'
              => ScreenInv'
<1>1. text = <<>> /\ col = 0 /\ row \in Int /\ y \in Int /\ reg \in Int
  <2>1. text = <<>>
    BY DEF ScreenInv, Texts
  <2>2. Aligned
    BY DEF ScreenInv, Unprinted
  <2>3. col = 0
    BY <2>2 DEF Aligned
  <2> QED
    BY <2>1, <2>3, Cursor
<1>2. VGA_WIDTH \in Nat \ {0} /\ VGA_HEIGHT \in Nat \ {0, 1} /\ Shared \in Nat \ {0}
  BY Widths
<1>3. Limit' \in Nat \ {0}
  BY <1>2 DEF Limit
<1>4. Texts'
  BY Zenon DEF ScreenInv, Texts
<1>5. Columns'
  <2>1. col' = 0 /\ text' = <<>> /\ Len(<<>>) = 0 /\ 0 + 0 < Limit'
    BY <1>1, <1>3
  <2>2. Fits(text, col)'
    BY <2>1, Zenon DEF Fits
  <2>3. col' \in Nat /\ row' \in Int /\ y' \in Int /\ reg' \in Int /\ pc' \notin {"load_col", "store_col"}
    BY <1>1
  <2> QED
    BY <2>2, <2>3, Zenon DEF Columns
<1>6. Rows'
  <2>1. ~torn => row <= VGA_HEIGHT
    BY DEF ScreenInv, Rows
  <2> QED
    BY <1>1, <1>2, <2>1 DEF Rows
<1>7. Aligned'
  BY <1>1, Zenon DEF Aligned
<1>8. todo' \in Seq({s \in Seq(Chars) : LineWithin(s, Limit')}) => AllLines(todo)' /\ todo' \in Seq(Seq(Chars))
  <2> DEFINE L == {s \in Seq(Chars) : LineWithin(s, Limit')}
  <2>1. L \subseteq Seq(Chars) /\ \A s \in L : LineWithin(s, Limit')
    OBVIOUS
  <2> HIDE DEF L
  <2>2. ASSUME todo' \in Seq(L)
        PROVE  todo' \in Seq(Seq(Chars)) /\ \A n \in DOMAIN todo' : LineWithin(todo'[n], Limit')
    BY <2>1, <2>2
  <2> QED
    BY <2>2 DEF AllLines, L
<1>9. \/ at' \notin {"halted", "panicked"} /\ todo' \in Seq({s \in Seq(Chars) : LineWithin(s, Limit')})
      \/ at' = "halted" /\ todo' = <<log(LastMessage), LastMessage>>
      \/ at' = "panicked" /\ todo' = <<PanicMark, PanicMessage>> /\ ~interrupts'
      => Unprinted'
  BY <1>1, <1>7, <1>8 DEF Unprinted
<1> QED
  BY <1>1, <1>4, <1>5, <1>6, <1>9 DEF ScreenInv

\* The lines that the boot prints.
LEMMA BootLines ==
    ASSUME TextsFit, NEW r \in {VGA_WIDTH, Shared}
    PROVE  LET L == {s \in Seq(Chars) : LineWithin(s, r)}
           IN  /\ log(LastMessage) \in L
               /\ line \in 0..(MaxLines - 1) => log(inttostr(line)) \in L
               /\ r = VGA_WIDTH => log(Message) \in L
               /\ r = VGA_WIDTH => \A g \in Behind : log(g) \in L /\ log(hex(33, g)) \in L
<1>1. r \in Nat /\ Shared \in Nat /\ Shared <= r
  BY Widths
<1>2. ASSUME NEW s, LineWithin(s, r)
      PROVE  s \in {t \in Seq(Chars) : LineWithin(t, r)}
  BY <1>2, Zenon DEF LineWithin
<1>3. ASSUME NEW s, LineWithin(s, Shared)
      PROVE  LineWithin(s, r)
  BY <1>1, <1>3, LineWithinMore
<1>4. LineWithin(log(LastMessage), Shared) /\ \A n \in 0..(MaxLines - 1) : LineWithin(log(inttostr(n)), Shared)
  BY Zenon DEF TextsFit
<1>5. ASSUME r = VGA_WIDTH
      PROVE  LineWithin(log(Message), r) /\ \A g \in Behind : LineWithin(log(g), r) /\ LineWithin(log(hex(33, g)), r)
  BY <1>5, Zenon DEF TextsFit
<1> QED
  BY <1>2, <1>3, <1>4, <1>5, Zenon

\* A step before interrupts are on.
LEMMA BootScreen ==
    ASSUME TextsFit, ScreenInv, ~interrupts,
           \/ _start \/ ClearScreen \/ gdt_load \/ kheap_init \/ fs_init \/ disks_init \/ check_fs
           \/ idt_init \/ tss_load \/ paging_new_4gb \/ page_switch \/ enable_paging
    PROVE  ScreenInv'
<1> DEFINE T == log(Message)
           L == {s \in Seq(Chars) : LineWithin(s, VGA_WIDTH)}
<1>1. T \in L /\ \A g \in Behind : log(g) \in L /\ log(hex(33, g)) \in L
  BY BootLines, Zenon
<1>2. /\ pc = "idle" /\ todo = <<>> /\ at \notin {"halted", "panicked"} /\ at' \notin {"halted", "panicked"}
      /\ UNCHANGED <<pc, text, y, reg, torn>> /\ row' \in {row, 0} /\ col' \in {col, 0} /\ ~interrupts'
  <2>1. /\ pc = "idle" /\ todo = <<>>
        /\ at \in {"_start", "clear", "gdt", "heap", "file systems", "disks", "check", "idt", "tss", "chunk",
                   "switch", "enable"}
        /\ at' \in {"clear", "gdt", "heap", "file systems", "disks", "check", "idt", "tss", "chunk", "switch",
                    "enable", "sti", "panic"}
    BY Zenon DEF _start, ClearScreen, gdt_load, kheap_init, fs_init, disks_init, check_fs, idt_init, tss_load,
       paging_new_4gb, page_switch, enable_paging, Step
  <2>2. CASE ClearScreen
    BY <2>1, <2>2, Zenon DEF ClearScreen, clear, call
  <2>3. CASE UNCHANGED consoleVars /\ interrupts' = interrupts
    BY <2>1, <2>3, Zenon DEF consoleVars, display, call
  <2>4. ClearScreen \/ (UNCHANGED consoleVars /\ interrupts' = interrupts)
    BY Zenon DEF _start, gdt_load, kheap_init, fs_init, disks_init, check_fs, idt_init, tss_load,
       paging_new_4gb, page_switch, enable_paging
  <2> QED
    BY <2>2, <2>3, <2>4, Zenon
<1>3. \/ todo' \in {<<>>, <<T, T, T>>, <<T, T>>, <<T>>, <<T, T, T, T>>}
      \/ \E g \in Behind : todo' \in {<<log(g)>>, <<T, T, log(hex(33, g)), T, T, T>>}
  BY Zenon DEF _start, ClearScreen, gdt_load, kheap_init, fs_init, disks_init, check_fs, idt_init, tss_load,
     paging_new_4gb, page_switch, enable_paging, Step, ok, notice
<1>4. todo' \in Seq(L)
  <2> HIDE DEF T, L
  <2>1. CASE todo' \in {<<>>, <<T, T, T>>, <<T, T>>, <<T>>, <<T, T, T, T>>}
    <3>1. <<>> \in Seq(L) /\ <<T>> \in Seq(L)
      BY <1>1
    <3>2. <<T, T>> \in Seq(L)
      BY <1>1
    <3>3. <<T, T, T>> \in Seq(L)
      BY <1>1
    <3>4. <<T, T, T, T>> \in Seq(L)
      BY <1>1
    <3> QED
      BY <2>1, <3>1, <3>2, <3>3, <3>4, Zenon
  <2>2. ASSUME NEW g \in Behind, todo' \in {<<log(g)>>, <<T, T, log(hex(33, g)), T, T, T>>}
        PROVE  todo' \in Seq(L)
    <3> DEFINE a == log(g)
               b == log(hex(33, g))
    <3>1. a \in L /\ b \in L /\ T \in L /\ todo' \in {<<a>>, <<T, T, b, T, T, T>>}
      BY <1>1, <2>2
    <3> HIDE DEF a, b
    <3>2. <<a>> \in Seq(L)
      BY <3>1
    <3>3. <<T, T, b, T, T, T>> \in Seq(L)
      BY <3>1
    <3> QED
      BY <3>1, <3>2, <3>3, Zenon
  <2> QED
    BY <1>3, <2>1, <2>2, Zenon
<1>5. Limit' = VGA_WIDTH
  BY <1>2 DEF Limit
<1> QED
  BY <1>2, <1>4, <1>5, StepScreen, Zenon

\* The steps from sti on, and a panic.
LEMMA LastScreen ==
    ASSUME TextsFit, ScreenInv, Counting, sti \/ NumberedLine \/ LastTexts \/ panic
    PROVE  ScreenInv'
<1>1. /\ pc = "idle" /\ todo = <<>> /\ at \notin {"halted", "panicked"}
      /\ UNCHANGED <<pc, text, y, reg, torn>> /\ row' \in {row, 0} /\ col' \in {col, 0}
  BY Zenon DEF sti, NumberedLine, LastTexts, panic, Step, consoleVars, display, call
<1>2. Limit' \in {VGA_WIDTH, Shared}
  BY DEF Limit
<1> DEFINE L == {s \in Seq(Chars) : LineWithin(s, Limit')}
<1>3. CASE sti
  <2>1. log(LastMessage) \in L /\ todo' = <<log(LastMessage)>> /\ at' = "loop"
    BY <1>2, <1>3, BootLines, Zenon DEF sti, Step
  <2> HIDE DEF L
  <2>2. todo' \in Seq(L)
    BY <2>1
  <2> QED
    BY <1>1, <2>1, <2>2, StepScreen, Zenon DEF L
<1>4. CASE NumberedLine
  <2>1. line < MaxLines /\ todo' = <<log(inttostr(line))>> /\ at' = "loop"
    BY <1>4, Zenon DEF NumberedLine, Step
  <2>2. line \in 0..(MaxLines - 1)
    <3>1. MaxLines \in Nat
      BY KernelAssumption, Zenon
    <3> QED
      BY <2>1, <3>1 DEF Counting
  <2>3. log(inttostr(line)) \in L
    BY <1>2, <2>2, BootLines, Zenon
  <2> HIDE DEF L
  <2>4. todo' \in Seq(L)
    BY <2>1, <2>3
  <2> QED
    BY <1>1, <2>1, <2>4, StepScreen, Zenon DEF L
<1>5. CASE LastTexts
  <2>1. at' = "halted" /\ todo' = <<log(LastMessage), LastMessage>>
    BY <1>5, Zenon DEF LastTexts, Step
  <2> QED
    BY <1>1, <2>1, StepScreen, Zenon
<1>6. CASE panic
  <2>1. col = 0
    BY <1>1, StepScreen, Zenon
  <2>2. at' = "panicked" /\ todo' = (IF col # 0 THEN <<<<"\n">>>> ELSE <<>>) \o <<PanicMark, PanicMessage>> /\ ~interrupts'
    BY <1>6, Zenon DEF panic, Step
  <2>3. todo' = <<>> \o <<PanicMark, PanicMessage>>
    BY <2>1, <2>2, Zenon
  <2>4. todo' = <<PanicMark, PanicMessage>>
    BY <2>3
  <2> QED
    BY <1>1, <2>2, <2>4, StepScreen, Zenon
<1> QED
  BY <1>3, <1>4, <1>5, <1>6

\* The keyboard handler prints a line.
LEMMA HandlerScreen ==
    ASSUME TextsFit, ScreenInv, interrupts, PrintInHandler(KeyText), UNCHANGED <<at, todo, interrupts>>
    PROVE  ScreenInv'
<1> DEFINE d == Display(screen, row, col, gone)
           e == printc(d, KeyText)
<1>1. /\ row' = e.row /\ col' = e.col /\ UNCHANGED <<pc, text, y, reg>> /\ Limit' = Limit
      /\ ~torn' => ~torn /\ (pc # "idle" => ~(row >= VGA_HEIGHT - 1))
  BY Zenon DEF PrintInHandler, call, Limit
<1>2. text \in Seq(Chars) /\ Fits(text, col)
  BY Zenon DEF ScreenInv, Texts, Columns
<1>3. col \in Nat /\ row \in Int /\ y \in Int /\ reg \in Int /\ (pc = "store_col" => reg \in Nat)
  BY Cursor
<1>4. Limit = Shared
  BY DEF Limit
<1>5. col' = 0 /\ row' = (IF row = VGA_HEIGHT THEN row ELSE row + 1)
  <2>1. d.row = row /\ d.col = col
    BY DEF Display
  <2>2. col + Len(KeyText) <= VGA_WIDTH
    BY <1>2, <1>3, <1>4, FitsBelow, Widths
  <2>3. LineWithin(KeyText, VGA_WIDTH)
    BY Zenon DEF TextsFit
  <2> HIDE DEF d, e
  <2>4. e.col = 0 /\ e.row = (IF d.row = VGA_HEIGHT THEN d.row ELSE d.row + 1)
    BY <1>3, <2>1, <2>2, <2>3, KeyTextPrints DEF e
  <2> QED
    BY <1>1, <2>1, <2>4
<1>6. Texts'
  BY <1>1, Zenon DEF ScreenInv, Texts
<1>7. Columns'
  <2>1. Fits(text, 0)
    BY <1>2, <1>3, FitsLeft
  <2>2. pc = "load_col" => Fits(text, 1)
    <3> DEFINE c == col + 1
    <3>1. c \in Nat /\ 1 <= c
      BY <1>3
    <3>2. pc = "load_col" => Fits(text, c)
      BY Zenon DEF ScreenInv, Columns
    <3> HIDE DEF c
    <3> QED
      BY <1>2, <3>1, <3>2, FitsLeft
  <2>3. pc = "store_col" => Fits(text, reg + 1)
    BY Zenon DEF ScreenInv, Columns
  <2>4. /\ Fits(text, col)' <=> Fits(text, 0)
        /\ Fits(text, col + 1)' <=> Fits(text, 0 + 1)
        /\ Fits(text, reg + 1)' <=> Fits(text, reg + 1)
    BY <1>1, <1>5, Zenon DEF Fits
  <2>5. 0 + 1 = 1 /\ col' \in Nat /\ row' \in Int /\ y' \in Int /\ reg' \in Int /\ (pc' = "store_col" => reg' \in Nat)
    BY <1>1, <1>3, <1>5
  <2> QED
    BY <1>1, <2>1, <2>2, <2>3, <2>4, <2>5, Zenon DEF Columns
<1>8. Unprinted'
  <2>1. Aligned => Aligned'
    BY <1>1, <1>5, Zenon DEF Aligned
  <2>2. AllLines(todo)' <=> AllLines(todo)
    BY <1>1 DEF AllLines
  <2> QED
    BY <2>1, <2>2 DEF ScreenInv, Unprinted
<1>9. Rows'
  <2> SUFFICES ASSUME ~torn'
               PROVE  Rows'
    BY DEF Rows
  <2>1. ~torn /\ (pc # "idle" => ~(row >= VGA_HEIGHT - 1))
    BY <1>1
  <2>2. row <= VGA_HEIGHT /\ (pc = "scroll" => row = VGA_HEIGHT)
        /\ (pc = "put" => y < VGA_HEIGHT) /\ (pc = "store_row" => reg < VGA_HEIGHT)
    BY <2>1 DEF ScreenInv, Rows
  <2>3. VGA_HEIGHT \in Nat
    BY Widths
  <2>4. row' <= VGA_HEIGHT /\ (pc # "idle" => row' < VGA_HEIGHT /\ pc # "scroll")
    BY <1>3, <1>5, <2>1, <2>2, <2>3
  <2> QED
    BY <1>1, <2>2, <2>4 DEF Rows
<1> QED
  BY <1>6, <1>7, <1>8, <1>9 DEF ScreenInv

\* The first state.
LEMMA InitScreen == TextsFit /\ Init => ScreenInv /\ Counting
<1> SUFFICES ASSUME TextsFit, Init
             PROVE  ScreenInv /\ Counting
  OBVIOUS
<1>1. /\ row = 0 /\ col = 0 /\ pc = "idle" /\ text = <<>> /\ y = 0 /\ reg = 0 /\ at = "_start" /\ todo = <<>>
      /\ line = 0
  BY Zenon DEF Init, ConsoleInit
<1>2. 0 + 0 < Limit /\ VGA_HEIGHT \in Nat /\ Len(<<>>) = 0
  BY Widths
<1>3. text \in Seq(Chars) /\ \A n \in DOMAIN text : FALSE
  BY <1>1
<1>4. Texts
  BY <1>1, <1>3, Zenon DEF Texts
<1>5. Fits(text, col)
  BY <1>1, <1>2, Zenon DEF Fits
<1>6. Columns
  <2>1. col \in Nat /\ row \in Int /\ y \in Int /\ reg \in Int /\ pc \notin {"load_col", "store_col"}
    BY <1>1
  <2> QED
    BY <1>5, <2>1, Zenon DEF Columns
<1>7. Rows
  BY <1>1, <1>2 DEF Rows
<1>8. Unprinted
  <2>1. Aligned
    BY <1>1, Zenon DEF Aligned
  <2>2. AllLines(todo) /\ todo \in Seq(Seq(Chars))
    BY <1>1 DEF AllLines
  <2> QED
    BY <1>1, <2>1, <2>2, Zenon DEF Unprinted
<1>9. line \in Nat
  BY <1>1
<1> QED
  BY <1>4, <1>6, <1>7, <1>8, <1>9 DEF ScreenInv, Counting

\* Every step keeps what is known of the screen.
LEMMA NextScreen == TextsFit /\ IInv /\ ScreenInv /\ Counting /\ [Next]_vars => ScreenInv' /\ Counting'
<1> SUFFICES ASSUME TextsFit, IInv, ScreenInv, Counting, [Next]_vars
             PROVE  ScreenInv' /\ Counting'
  OBVIOUS
<1>1. CASE MainLine
  <2>1. line' \in {line, line + 1}
    BY <1>1, Zenon DEF MainLine, PrintText, GoOnPrinting, _start, ClearScreen, gdt_load, kheap_init, fs_init,
       disks_init, check_fs, idt_init, tss_load, paging_new_4gb, page_switch, enable_paging, sti,
       NumberedLine, LastTexts, panic
  <2>2. Counting'
    BY <2>1 DEF Counting
  <2>3. CASE PrintText
    BY <2>2, <2>3, PrintTextScreen
  <2>4. CASE GoOnPrinting
    BY <2>2, <2>4, PrintStepScreen DEF GoOnPrinting
  <2>5. CASE \/ _start \/ ClearScreen \/ gdt_load \/ kheap_init \/ fs_init \/ disks_init \/ check_fs
             \/ idt_init \/ tss_load \/ paging_new_4gb \/ page_switch \/ enable_paging
    <3>1. at \notin {"loop", "halted"}
      BY <2>5, Zenon DEF _start, ClearScreen, gdt_load, kheap_init, fs_init, disks_init, check_fs, idt_init,
         tss_load, paging_new_4gb, page_switch, enable_paging, Step
    <3>2. ~interrupts
      BY <3>1, Zenon DEF IInv, Ordered
    <3> QED
      BY <2>2, <2>5, <3>2, BootScreen, Zenon
  <2>6. CASE sti \/ NumberedLine \/ LastTexts \/ panic
    BY <2>2, <2>6, LastScreen
  <2> QED
    BY <1>1, <2>3, <2>4, <2>5, <2>6, Zenon DEF MainLine
<1>2. CASE \E n \in Lines : Raise(n)
  <2>1. UNCHANGED <<pc, text, row, col, reg, y, at, todo, interrupts, torn, line>>
    BY <1>2, Zenon DEF Raise, consoleVars, call, display
  <2> QED
    BY <2>1, NothingMoves DEF Counting
<1>3. CASE \E n \in irr : Accept(n)
  <2>1. /\ interrupts /\ UNCHANGED <<at, todo, line, interrupts>>
        /\ \/ PrintInHandler(KeyText)
           \/ UNCHANGED consoleVars
    BY <1>3, Zenon DEF Accept
  <2>2. CASE PrintInHandler(KeyText)
    BY <2>1, <2>2, HandlerScreen DEF Counting
  <2>3. CASE UNCHANGED consoleVars
    <3>1. UNCHANGED <<pc, text, row, col, reg, y, torn>>
      BY <2>3, Zenon DEF consoleVars, call, display
    <3> QED
      BY <2>1, <3>1, NothingMoves DEF Counting
  <2> QED
    BY <2>1, <2>2, <2>3
<1>4. CASE UNCHANGED vars
  <2>1. UNCHANGED <<pc, text, row, col, reg, y, at, todo, interrupts, torn, line>>
    BY <1>4, Zenon DEF vars, consoleVars, call, display
  <2> QED
    BY <2>1, NothingMoves DEF Counting
<1> QED
  BY <1>1, <1>2, <1>3, <1>4, Zenon DEF Next

\* Until an interrupt tears a line on the last row or a scroll apart, the cursor
\* stays on the screen and every character lands on it (vgaio.c), whatever the texts
\* are that fit, however many interrupts come and whatever they interrupt.
THEOREM NeverOffScreen == Spec => []OffScreenOnlyWhenTorn
<1>1. Init => ScreenInv /\ Counting
  BY InitScreen, ScreenAssumption
<1>2. IInv /\ ScreenInv /\ Counting /\ [Next]_vars => ScreenInv' /\ Counting'
  BY NextScreen, ScreenAssumption, Zenon
<1>3. ScreenInv => OffScreenOnlyWhenTorn
  BY Zenon DEF ScreenInv, Rows, OffScreenOnlyWhenTorn
<1> QED
  BY <1>1, <1>2, <1>3, BootInvariant, PTL DEF Spec

-----------------------------------------------------------------------------
(* Before there is a heap.                                                 *)

\* What is still to be printed is a sequence, and the cursor stands at the
\* beginning of a row when the kernel panics.
LEMMA TodoIs ==
    ASSUME TextsFit, ScreenInv, at # "halted"
    PROVE  todo \in Seq(Seq(Chars)) /\ (pc = "idle" /\ at # "panicked" => col = 0)
<1>1. CASE at = "panicked"
  <2>1. PanicMark \in Seq(Chars) /\ PanicMessage \in Seq(Chars)
    BY MessageFits, Zenon DEF Unended
  <2>2. todo \in {<<PanicMark, PanicMessage>>, <<PanicMessage>>, <<>>}
    BY <1>1 DEF ScreenInv, Unprinted
  <2> DEFINE S == Seq(Chars)
  <2>3. PanicMark \in S /\ PanicMessage \in S
    BY <2>1
  <2> HIDE DEF S
  <2>4. <<PanicMark, PanicMessage>> \in Seq(S) /\ <<PanicMessage>> \in Seq(S) /\ <<>> \in Seq(S)
    BY <2>3
  <2> QED
    BY <1>1, <2>2, <2>4, Zenon DEF S
<1>2. CASE at # "panicked"
  <2>1. todo \in Seq(Seq(Chars)) /\ Aligned
    BY <1>2 DEF ScreenInv, Unprinted
  <2> QED
    BY <2>1, Zenon DEF Aligned
<1> QED
  BY <1>1, <1>2

\* A running call adds at most one row.
LEMMA PrintStepBeforeHeap ==
    ASSUME ScreenInv, BeforeHeap, PrintStep, UNCHANGED <<at, todo, up>>, "heap" \notin up
    PROVE  BeforeHeap'
<1>1. /\ at \in {"_start", "clear", "gdt", "heap", "panic", "panicked"}
      /\ row + Len(todo) + Running <= Printed /\ pc # "scroll" /\ (pc = "store_row" => reg = row)
  BY DEF BeforeHeap
<1>2. Printed' = Printed
  BY DEF Printed
<1>3. CASE FetchControl \/ Fetch \/ Put \/ LoadCol \/ StoreCol \/ ResetCol \/ LoadRow
  <2>1. /\ row' = row /\ pc # "idle" /\ (pc = "char" => text # <<>>) /\ pc' # "scroll"
        /\ (pc' = "store_row" => reg' = row)
    BY <1>3, Zenon DEF FetchControl, Fetch, Put, LoadCol, StoreCol, ResetCol, LoadRow, Goto, display
  <2>2. Running = 1 /\ Running' \in {0, 1}
    BY <2>1 DEF Running
  <2>3. row' + Len(todo') + Running' <= Printed'
    <3>1. row + Len(todo) + 1 <= Printed
      BY <1>1, <2>2
    <3>2. Running' = 1 => row + Len(todo) + Running' <= Printed
      BY <3>1
    <3>3. Printed \in Int /\ row \in Int /\ Len(todo) \in Int
      BY Cursor DEF Printed
    <3> QED
      BY <1>2, <2>1, <2>2, <3>1, <3>3
  <2> QED
    BY <1>1, <2>1, <2>3 DEF BeforeHeap
<1>4. CASE StoreRow
  <2>1. /\ row' = reg + 1 /\ pc = "store_row" /\ pc' = "char" /\ text' = text
    BY <1>4, Zenon DEF StoreRow, Goto
  <2>2. text = <<>>
    BY <2>1 DEF ScreenInv, Texts
  <2>3. Running = 1 /\ Running' = 0
    BY <2>1, <2>2 DEF Running
  <2>4. row' + Len(todo') + Running' <= Printed'
    BY <1>1, <1>2, <2>1, <2>3, Cursor
  <2> QED
    BY <1>1, <2>1, <2>4 DEF BeforeHeap
<1>5. CASE Return
  <2>1. /\ row' = row /\ pc = "char" /\ text = <<>> /\ pc' = "idle"
    BY <1>5, Zenon DEF Return, Goto, display
  <2>2. Running = 0 /\ Running' = 0
    BY <2>1 DEF Running
  <2>3. row' + Len(todo') + Running' <= Printed'
    BY <1>1, <1>2, <2>1, <2>2
  <2> QED
    BY <1>1, <2>1, <2>3 DEF BeforeHeap
<1>6. CASE ScrollRow \/ EndScroll
  BY <1>1, <1>6, Zenon DEF ScrollRow, EndScroll
<1> QED
  BY <1>3, <1>4, <1>5, <1>6, Zenon DEF PrintStep

\* The next text is printed, and the screen is not full.
LEMMA PrintTextBeforeHeap ==
    ASSUME TextsFit, VGA_HEIGHT >= 5, ScreenInv, BeforeHeap, PrintText, "heap" \notin up
    PROVE  BeforeHeap'
<1>1. /\ at \in {"_start", "clear", "gdt", "heap", "panic", "panicked"} /\ at # "halted"
      /\ row + Len(todo) + Running <= Printed
  BY DEF BeforeHeap
<1>2. /\ todo # <<>> /\ todo' = Tail(todo) /\ pc = "idle" /\ UNCHANGED <<row, at, up>>
      /\ pc' = IF row = VGA_HEIGHT THEN "scroll" ELSE "char"
  BY Zenon DEF PrintText, Call, Goto, check_screen_overflow, display
<1>3. Len(todo) \in Nat \ {0} /\ Len(todo') = Len(todo) - 1
  BY <1>1, <1>2, TodoIs, HeadOf
<1>4. Running = 0 /\ Running' \in {0, 1}
  BY <1>2 DEF Running
<1>5. Printed \in 0..5 /\ Printed' = Printed
  BY <1>2 DEF Printed
<1>6. row \in Int /\ VGA_HEIGHT \in Nat
  BY Cursor, Widths
<1>7. row' + Len(todo') + Running' <= Printed' /\ row < VGA_HEIGHT
  BY <1>1, <1>2, <1>3, <1>4, <1>5, <1>6
<1>8. pc' = "char"
  BY <1>2, <1>6, <1>7
<1> QED
  BY <1>1, <1>2, <1>7, <1>8 DEF BeforeHeap

\* The steps of the boot up to the heap.
LEMMA StepsBeforeHeap ==
    ASSUME TextsFit, ScreenInv, BeforeHeap, "heap" \notin up',
           _start \/ ClearScreen \/ gdt_load \/ kheap_init \/ panic, "heap" \notin up
    PROVE  BeforeHeap'
<1>1. row + Len(todo) + Running <= Printed /\ row \in Int
  BY Cursor DEF BeforeHeap
<1>2. pc = "idle" /\ todo = <<>> /\ pc' = "idle"
  BY Zenon DEF _start, ClearScreen, gdt_load, kheap_init, panic, Step, clear, consoleVars, call
<1>3. Running = 0 /\ Running' = 0 /\ Len(<<>>) = 0
  BY <1>2 DEF Running
<1>4. row <= Printed
  <2>1. Printed \in Int
    BY DEF Printed
  <2> QED
    BY <1>1, <1>2, <1>3, <2>1
<1>5. CASE _start
  <2>1. at = "_start" /\ at' = "clear" /\ todo' = <<>> /\ row' = row
    BY <1>5, Zenon DEF _start, Step, consoleVars, display
  <2> QED
    BY <1>1, <1>2, <1>3, <1>4, <2>1 DEF BeforeHeap, Printed
<1>6. CASE ClearScreen
  <2>1. at' = "gdt" /\ row' = 0 /\ Len(todo') = 3
    BY <1>6 DEF ClearScreen, Step, clear
  <2> QED
    BY <1>2, <1>3, <2>1 DEF BeforeHeap, Printed
<1>7. CASE gdt_load
  <2>1. at = "gdt" /\ row' = row /\ ((at' = "panic" /\ todo' = <<>>) \/ (at' = "heap" /\ todo' = <<ok, notice>>))
    BY <1>7, Zenon DEF gdt_load, Step, consoleVars, display
  <2>2. Len(<<ok, notice>>) = 2
    OBVIOUS
  <2>3. row <= 3
    BY <1>4, <2>1 DEF Printed
  <2>4. CASE at' = "panic"
    BY <1>1, <1>2, <1>3, <2>1, <2>3, <2>4 DEF BeforeHeap, Printed
  <2>5. CASE at' = "heap"
    <3>1. Len(todo') = 2
      BY <2>1, <2>2, <2>5
    <3>2. Printed' = 5
      BY <2>5 DEF Printed
    <3>3. row' + Len(todo') + Running' <= Printed'
      BY <1>1, <1>3, <2>1, <2>3, <3>1, <3>2
    <3> QED
      BY <1>2, <2>5, <3>3 DEF BeforeHeap
  <2> QED
    BY <2>1, <2>4, <2>5
<1>8. CASE kheap_init
  BY <1>8 DEF kheap_init, Brings
<1>9. CASE panic
  <2>1. at = "panic" /\ at' = "panicked" /\ row' = row
        /\ todo' = (IF col # 0 THEN <<<<"\n">>>> ELSE <<>>) \o <<PanicMark, PanicMessage>>
    BY <1>9, Zenon DEF panic, Step, consoleVars, display
  <2>2. col = 0
    BY <1>2, <2>1, TodoIs
  <2>3. todo' = <<>> \o <<PanicMark, PanicMessage>>
    BY <2>1, <2>2, Zenon
  <2>4. Len(todo') = 2
    BY <2>3
  <2>5. row <= 3
    BY <1>4, <2>1 DEF Printed
  <2> QED
    BY <1>1, <1>2, <1>3, <2>1, <2>4, <2>5 DEF BeforeHeap, Printed
<1> QED
  BY <1>5, <1>6, <1>7, <1>8, <1>9

\* Every step keeps what is known as long as there is no heap.
LEMMA NextBeforeHeap ==
    ASSUME TextsFit, VGA_HEIGHT >= 5, IInv, ScreenInv, BeforeHeap, [Next]_vars
    PROVE  BeforeHeap'
<1> SUFFICES ASSUME "heap" \notin up'
             PROVE  BeforeHeap'
  BY DEF BeforeHeap
<1>1. CASE UNCHANGED <<at, todo, up, row, pc, text, reg>>
  BY <1>1 DEF BeforeHeap, Printed, Running
<1>2. CASE MainLine
  <2>1. "heap" \notin up
    BY <1>2, Zenon DEF MainLine, PrintText, GoOnPrinting, _start, ClearScreen, gdt_load, kheap_init, fs_init,
       disks_init, check_fs, idt_init, tss_load, paging_new_4gb, page_switch, enable_paging, sti,
       NumberedLine, LastTexts, panic, Brings
  <2>2. at \in {"_start", "clear", "gdt", "heap", "panic", "panicked"}
    BY <2>1 DEF BeforeHeap
  <2>3. CASE PrintText
    BY <2>1, <2>3, PrintTextBeforeHeap
  <2>4. CASE GoOnPrinting
    BY <2>1, <2>4, PrintStepBeforeHeap DEF GoOnPrinting
  <2>5. CASE _start \/ ClearScreen \/ gdt_load \/ kheap_init \/ panic
    BY <2>1, <2>5, StepsBeforeHeap
  <2>6. ~(\/ fs_init \/ disks_init \/ check_fs \/ idt_init \/ tss_load \/ paging_new_4gb \/ page_switch
          \/ enable_paging \/ sti \/ NumberedLine \/ LastTexts)
    BY <2>2, Zenon DEF fs_init, disks_init, check_fs, idt_init, tss_load, paging_new_4gb, page_switch,
       enable_paging, sti, NumberedLine, LastTexts, Step
  <2> QED
    BY <1>2, <2>3, <2>4, <2>5, <2>6, Zenon DEF MainLine
<1>3. CASE \E n \in Lines : Raise(n)
  <2>1. UNCHANGED <<at, todo, up, row, pc, text, reg>>
    BY <1>3, Zenon DEF Raise, consoleVars, call, display
  <2> QED
    BY <1>1, <2>1
<1>4. CASE \E n \in irr : Accept(n)
  <2>1. interrupts /\ up' = up
    BY <1>4, Zenon DEF Accept
  <2>2. at \in {"loop", "halted"}
    BY <2>1, Zenon DEF IInv, Ordered
  <2> QED
    BY <2>1, <2>2 DEF BeforeHeap
<1>5. CASE UNCHANGED vars
  <2>1. UNCHANGED <<at, todo, up, row, pc, text, reg>>
    BY <1>5, Zenon DEF vars, consoleVars, call, display
  <2> QED
    BY <1>1, <2>1
<1> QED
  BY <1>2, <1>3, <1>4, <1>5, Zenon DEF Next

\* Nothing comes too early: no step of kernel_main, no interrupt, and no scrolling,
\* which takes heap blocks (vgaio.c): the lines before the heap do not fill the
\* screen, also when the kernel panics there.
THEOREM NeverTooEarly == Spec => []NothingTooEarly
<1>1. Init => BeforeHeap
  <2> SUFFICES ASSUME Init
               PROVE  BeforeHeap
    OBVIOUS
  <2>1. row = 0 /\ pc = "idle" /\ at = "_start" /\ todo = <<>>
    BY Zenon DEF Init, ConsoleInit
  <2>2. Len(<<>>) = 0
    OBVIOUS
  <2> QED
    BY <2>1, <2>2 DEF BeforeHeap, Printed, Running
<1>2. IInv /\ ScreenInv /\ Counting /\ BeforeHeap /\ [Next]_vars => BeforeHeap'
  BY NextBeforeHeap, ScreenAssumption, Zenon
<1>3. BeforeHeap => (pc = "scroll" => "heap" \in up)
  BY Zenon DEF BeforeHeap
<1>4. NeedsMet /\ InterruptsReady /\ BeforeHeap => NothingTooEarly
  BY <1>3 DEF NothingTooEarly
<1>5. Init => ScreenInv /\ Counting
  BY InitScreen, ScreenAssumption
<1>6. IInv /\ ScreenInv /\ Counting /\ [Next]_vars => ScreenInv' /\ Counting'
  BY NextScreen, ScreenAssumption, Zenon
<1> QED
  BY <1>1, <1>2, <1>4, <1>5, <1>6, BootInvariant, StepsInOrder, InterruptsAlwaysReady, PTL DEF Spec

-----------------------------------------------------------------------------
(* The page.                                                               *)

\* What a row of the screen may hold.
Cells == [0..(VGA_WIDTH - 1) -> Chars \cup {" ", "?"}]

\* A row of the page: below the screen it is blank.
Shown(s, n) == IF n < VGA_HEIGHT THEN s[n] ELSE Blank

\* The page that ends in a screen whose cursor is on row r.
PageOf(s, g, r) == g \o [n \in 1..(r + 1) |-> Shown(s, n - 1)]

\* The cursor is on the screen or just below it, and nothing stands below the cursor.
Proper(s, g, r) ==
    /\ s \in [MemoryRows -> Cells] /\ g \in Seq(Cells)
    /\ r \in 0..VGA_HEIGHT
    /\ \A n \in MemoryRows : r < n /\ n < VGA_HEIGHT => s[n] = Blank

\* The numbers of the screen.
LEMMA Rooms ==
    /\ VGA_WIDTH \in Nat \ {0} /\ VGA_HEIGHT \in Nat \ {0, 1} /\ LastRow \in Nat
    /\ \A n \in 0..VGA_HEIGHT : n \in MemoryRows
    /\ Blank \in Cells
<1>1. VGA_WIDTH \in Nat \ {0} /\ VGA_HEIGHT \in Nat \ {0, 1} /\ LastRow \in Nat /\ LastRow > VGA_HEIGHT
  BY ConsoleAssumption
<1>2. \A n \in 0..VGA_HEIGHT : n \in MemoryRows
  BY <1>1 DEF MemoryRows
<1>3. Blank \in Cells
  BY DEF Blank, Cells
<1> QED
  BY <1>1, <1>2, <1>3

\* A sequence that is given line by line.
LEMMA Listed ==
    ASSUME NEW S, NEW n \in Nat, NEW f \in [1..n -> S]
    PROVE  f \in Seq(S) /\ Len(f) = n
  OBVIOUS

\* The lines of the page.
LEMMA PageLinesOf ==
    ASSUME NEW s, NEW g, NEW r, Proper(s, g, r)
    PROVE  /\ PageOf(s, g, r) \in Seq(Cells)
           /\ Len(PageOf(s, g, r)) = Len(g) + r + 1 /\ Len(g) \in Nat
           /\ \A n \in 1..(Len(g) + r + 1) :
                 PageOf(s, g, r)[n] = IF n <= Len(g) THEN g[n] ELSE Shown(s, n - Len(g) - 1)
<1> DEFINE v == [n \in 1..(r + 1) |-> Shown(s, n - 1)]
<1>1. r \in Nat /\ r <= VGA_HEIGHT /\ s \in [MemoryRows -> Cells] /\ g \in Seq(Cells) /\ Len(g) \in Nat
  BY Rooms DEF Proper
<1>2. ASSUME NEW n \in 1..(r + 1)
      PROVE  Shown(s, n - 1) \in Cells
  <2>1. n - 1 \in 0..VGA_HEIGHT
    BY <1>1, Rooms
  <2>2. n - 1 \in MemoryRows
    BY <2>1, Rooms
  <2> QED
    BY <1>1, <2>2, Rooms DEF Shown
<1>3. v \in [1..(r + 1) -> Cells]
  BY <1>2
<1>4. v \in Seq(Cells) /\ Len(v) = r + 1 /\ \A n \in 1..(r + 1) : v[n] = Shown(s, n - 1)
  <2>1. r + 1 \in Nat
    BY <1>1
  <2>2. \A n \in 1..(r + 1) : v[n] = Shown(s, n - 1)
    OBVIOUS
  <2> HIDE DEF v
  <2> QED
    BY <1>3, <2>1, <2>2, Listed
<1>5. PageOf(s, g, r) = g \o v
  BY DEF PageOf
<1> HIDE DEF v
<1>6. /\ g \o v \in Seq(Cells) /\ Len(g \o v) = Len(g) + Len(v)
      /\ \A n \in 1..(Len(g) + Len(v)) : (g \o v)[n] = IF n <= Len(g) THEN g[n] ELSE v[n - Len(g)]
  BY <1>1, <1>4, ConcatProperties
<1>7. ASSUME NEW n \in 1..(Len(g) + r + 1)
      PROVE  (g \o v)[n] = IF n <= Len(g) THEN g[n] ELSE Shown(s, n - Len(g) - 1)
  <2>1. Len(g) + Len(v) = Len(g) + r + 1
    BY <1>1, <1>4
  <2>2. (g \o v)[n] = IF n <= Len(g) THEN g[n] ELSE v[n - Len(g)]
    BY <1>6, <2>1
  <2>3. ~(n <= Len(g)) => n - Len(g) \in 1..(r + 1)
    BY <1>1
  <2> QED
    BY <1>4, <2>2, <2>3
<1> QED
  BY <1>1, <1>4, <1>5, <1>6, <1>7

\* A new line adds a blank one.
LEMMA PageNewLine ==
    ASSUME NEW s, NEW g, NEW r, Proper(s, g, r), r < VGA_HEIGHT
    PROVE  Proper(s, g, r + 1) /\ PageOf(s, g, r + 1) = Append(PageOf(s, g, r), Blank)
<1> DEFINE P == PageOf(s, g, r)
           Q == PageOf(s, g, r + 1)
           l == Len(g)
<1>1. r \in Nat /\ VGA_HEIGHT \in Nat /\ g \in Seq(Cells) /\ l \in Nat
  BY Rooms DEF Proper
<1>2. Proper(s, g, r + 1)
  BY <1>1, Rooms DEF Proper, MemoryRows
<1>3. /\ P \in Seq(Cells) /\ Len(P) = l + r + 1
      /\ \A n \in 1..(l + r + 1) : P[n] = IF n <= l THEN g[n] ELSE Shown(s, n - l - 1)
  BY PageLinesOf
<1>4. /\ Q \in Seq(Cells) /\ Len(Q) = l + (r + 1) + 1
      /\ \A n \in 1..(l + (r + 1) + 1) : Q[n] = IF n <= l THEN g[n] ELSE Shown(s, n - l - 1)
  BY <1>2, PageLinesOf
<1>5. Shown(s, r + 1) = Blank
  <2>1. r + 1 \in 0..VGA_HEIGHT
    BY <1>1
  <2>2. r + 1 \in MemoryRows /\ r < r + 1
    BY <1>1, <2>1, Rooms
  <2> QED
    BY <2>2 DEF Shown, Proper
<1> HIDE DEF P, Q, l
<1>6. /\ Append(P, Blank) \in Seq(Cells) /\ Len(Append(P, Blank)) = Len(P) + 1
      /\ \A n \in 1..Len(P) : Append(P, Blank)[n] = P[n]
      /\ Append(P, Blank)[Len(P) + 1] = Blank
  BY <1>3, Rooms, AppendProperties
<1>7. ASSUME NEW n \in 1..Len(Q)
      PROVE  Q[n] = Append(P, Blank)[n]
  <2>1. n \in 1..(l + (r + 1) + 1) /\ l + (r + 1) + 1 = l + r + 2
    BY <1>1, <1>4
  <2>2. CASE n = l + r + 2
    <3>1. ~(n <= l) /\ n - l - 1 = r + 1 /\ n = Len(P) + 1
      BY <1>1, <1>3, <2>2
    <3> QED
      BY <1>4, <1>5, <1>6, <2>1, <3>1
  <2>3. CASE n # l + r + 2
    <3>1. n \in 1..(l + r + 1)
      BY <1>1, <2>1, <2>3
    <3>2. n \in 1..Len(P)
      BY <1>3, <3>1
    <3> QED
      BY <1>3, <1>4, <1>6, <2>1, <3>1, <3>2
  <2> QED
    BY <2>2, <2>3
<1>8. Len(Q) = Len(Append(P, Blank))
  BY <1>1, <1>3, <1>4, <1>6
<1>9. Q = Append(P, Blank)
  BY <1>4, <1>6, <1>7, <1>8, SeqEqual
<1> QED
  BY <1>2, <1>9 DEF P, Q

\* A character on the row of the cursor is one on the last line of the page.
LEMMA PagePut ==
    ASSUME NEW s, NEW g, NEW r, Proper(s, g, r), r < VGA_HEIGHT, NEW c \in 0..(VGA_WIDTH - 1), NEW chr \in Chars
    PROVE  /\ Proper(put_char(s, c, r, chr), g, r)
           /\ PageOf(put_char(s, c, r, chr), g, r)
                 = [PageOf(s, g, r) EXCEPT ![Len(PageOf(s, g, r))][c] = chr]
<1> DEFINE t == put_char(s, c, r, chr)
           P == PageOf(s, g, r)
           Q == PageOf(t, g, r)
           l == Len(g)
<1>1. r \in Nat /\ VGA_HEIGHT \in Nat /\ g \in Seq(Cells) /\ l \in Nat /\ r \in MemoryRows /\ s \in [MemoryRows -> Cells]
  BY Rooms DEF Proper
<1>2. c \in Nat /\ VGA_WIDTH \in Nat \ {0} /\ c < VGA_WIDTH
  BY Rooms
<1>3. c \div VGA_WIDTH = 0 /\ c % VGA_WIDTH = c
  <2>1. c = VGA_WIDTH * 0 + c /\ 0 \in Nat /\ c \in 0..(VGA_WIDTH - 1)
    BY <1>2
  <2> QED
    BY <1>2, <2>1, QuotientUnique
<1> DEFINE q == [s[r] EXCEPT ![c] = chr]
<1>4. t = [s EXCEPT ![r] = q]
  <2>1. t = [s EXCEPT ![r + 0][c] = chr]
    BY <1>3 DEF put_char
  <2>2. r + 0 = r
    BY <1>1
  <2> QED
    BY <2>1, <2>2
<1>5. q \in Cells
  <2>1. s[r] \in Cells
    BY <1>1
  <2> QED
    BY <2>1 DEF Cells
<1> HIDE DEF q, t
<1>6. t \in [MemoryRows -> Cells] /\ t[r] = q /\ \A n \in MemoryRows : n # r => t[n] = s[n]
  BY <1>1, <1>4, <1>5
<1>7. Proper(t, g, r)
  BY <1>1, <1>6, Rooms DEF Proper, MemoryRows
<1>8. /\ P \in Seq(Cells) /\ Len(P) = l + r + 1
      /\ \A n \in 1..(l + r + 1) : P[n] = IF n <= l THEN g[n] ELSE Shown(s, n - l - 1)
  BY PageLinesOf
<1>9. /\ Q \in Seq(Cells) /\ Len(Q) = l + r + 1
      /\ \A n \in 1..(l + r + 1) : Q[n] = IF n <= l THEN g[n] ELSE Shown(t, n - l - 1)
  BY <1>7, PageLinesOf
<1> HIDE DEF P, Q, l
<1> DEFINE e == l + r + 1
<1>10. e \in 1..Len(P) /\ ~(e <= l) /\ e - l - 1 = r
  BY <1>1, <1>8
<1>11. P[e] = s[r] /\ Q[e] = q
  BY <1>1, <1>6, <1>8, <1>9, <1>10 DEF Shown
<1> DEFINE W == [P EXCEPT ![e] = q]
<1>12. W \in Seq(Cells) /\ Len(W) = Len(P) /\ \A n \in 1..Len(P) : W[n] = IF n = e THEN q ELSE P[n]
  BY <1>5, <1>8, <1>10, ExceptSeq
<1>13. ASSUME NEW n \in 1..Len(Q)
       PROVE  Q[n] = W[n]
  <2>1. n \in 1..(l + r + 1) /\ n \in 1..Len(P)
    BY <1>8, <1>9
  <2>2. CASE n = e
    BY <1>11, <1>12, <2>1, <2>2
  <2>3. CASE n # e /\ n <= l
    BY <1>8, <1>9, <1>12, <2>1, <2>3
  <2>4. CASE n # e /\ ~(n <= l)
    <3> DEFINE m == n - l - 1
    <3>1. m \in 0..VGA_HEIGHT /\ m # r
      BY <1>1, <2>1, <2>4
    <3>2. Shown(t, m) = Shown(s, m)
      BY <1>6, <3>1, Rooms DEF Shown
    <3> QED
      BY <1>8, <1>9, <1>12, <2>1, <2>4, <3>2
  <2> QED
    BY <2>2, <2>3, <2>4
<1>14. Q = W
  <2> HIDE DEF W
  <2> QED
    BY <1>8, <1>9, <1>12, <1>13, SeqEqual
<1>15. W = [P EXCEPT ![Len(P)][c] = chr]
  <2>1. Len(P) = e
    BY <1>8
  <2>2. W = [P EXCEPT ![e] = [P[e] EXCEPT ![c] = chr]]
    BY <1>11 DEF q
  <2> HIDE DEF e, W
  <2> QED
    BY <2>1, <2>2
<1> QED
  BY <1>7, <1>14, <1>15 DEF P, Q, t

\* Scrolling changes nothing on the page.
LEMMA PageScrolled ==
    ASSUME NEW s, NEW g, Proper(s, g, VGA_HEIGHT),
           NEW t \in [MemoryRows -> Cells], \A n \in 0..(VGA_HEIGHT - 1) : t[n] = ScrolledRow(s, n)
    PROVE  LET h == Append(g, s[0])
           IN  /\ Proper(t, h, VGA_HEIGHT - 1)
               /\ PageOf(t, h, VGA_HEIGHT - 1) = PageOf(s, g, VGA_HEIGHT)
<1> DEFINE h == Append(g, s[0])
           P == PageOf(s, g, VGA_HEIGHT)
           Q == PageOf(t, h, VGA_HEIGHT - 1)
           l == Len(g)
           H == VGA_HEIGHT
<1>1. H \in Nat \ {0, 1} /\ g \in Seq(Cells) /\ l \in Nat /\ s \in [MemoryRows -> Cells] /\ 0 \in MemoryRows
  BY Rooms DEF Proper
<1>2. /\ h \in Seq(Cells) /\ Len(h) = l + 1 /\ h[l + 1] = s[0]
      /\ \A n \in 1..l : h[n] = g[n]
  BY <1>1, AppendProperties
<1> HIDE DEF h
<1>3. Proper(t, h, H - 1)
  <2>1. H - 1 \in 0..H
    BY <1>1
  <2>2. \A n \in MemoryRows : ~(H - 1 < n /\ n < H)
    BY <1>1 DEF MemoryRows
  <2> QED
    BY <1>2, <2>1, <2>2 DEF Proper
<1>4. /\ P \in Seq(Cells) /\ Len(P) = l + H + 1
      /\ \A n \in 1..(l + H + 1) : P[n] = IF n <= l THEN g[n] ELSE Shown(s, n - l - 1)
  BY PageLinesOf
<1>5. /\ Q \in Seq(Cells) /\ Len(Q) = (l + 1) + (H - 1) + 1
      /\ \A n \in 1..((l + 1) + (H - 1) + 1) : Q[n] = IF n <= l + 1 THEN h[n] ELSE Shown(t, n - (l + 1) - 1)
  BY <1>2, <1>3, PageLinesOf
<1> HIDE DEF P, Q, l
<1>6. (l + 1) + (H - 1) + 1 = l + H + 1
  BY <1>1
<1>7. ASSUME NEW n \in 1..Len(Q)
      PROVE  Q[n] = P[n]
  <2>1. n \in 1..(l + H + 1) /\ n \in 1..((l + 1) + (H - 1) + 1)
    BY <1>5, <1>6
  <2>2. CASE n <= l
    <3>1. n <= l + 1 /\ n \in 1..l
      BY <1>1, <2>1, <2>2
    <3> QED
      BY <1>2, <1>4, <1>5, <2>1, <2>2, <3>1
  <2>3. CASE n = l + 1
    <3>1. ~(n <= l) /\ n <= l + 1 /\ n - l - 1 = 0
      BY <1>1, <2>3
    <3>2. Shown(s, 0) = s[0]
      BY <1>1 DEF Shown
    <3>3. Q[n] = h[l + 1]
      BY <1>5, <2>1, <2>3, <3>1
    <3>4. P[n] = Shown(s, 0)
      BY <1>4, <2>1, <3>1
    <3> QED
      BY <1>2, <3>2, <3>3, <3>4
  <2>4. CASE n > l + 1
    <3> DEFINE m == n - (l + 1) - 1
    <3>1. ~(n <= l) /\ ~(n <= l + 1) /\ n - l - 1 = m + 1 /\ m \in 0..(H - 1) /\ m < H
      BY <1>1, <2>1, <2>4
    <3>2. t[m] = ScrolledRow(s, m)
      BY <3>1
    <3>3. Q[n] = Shown(t, m) /\ P[n] = Shown(s, m + 1)
      BY <1>4, <1>5, <2>1, <3>1
    <3> HIDE DEF m
    <3>4. Shown(t, m) = Shown(s, m + 1)
      <4>1. m = H - 1 \/ (m # H - 1 /\ m + 1 < H)
        BY <1>1, <3>1
      <4>2. m = H - 1 => ~(m + 1 < H)
        BY <1>1
      <4> QED
        BY <3>1, <3>2, <4>1, <4>2 DEF Shown, ScrolledRow
    <3> QED
      BY <3>3, <3>4
  <2> QED
    <3>1. n <= l \/ n = l + 1 \/ n > l + 1
      BY <1>1, <2>1
    <3> QED
      BY <2>2, <2>3, <2>4, <3>1
<1>8. Q = P
  BY <1>4, <1>5, <1>6, <1>7, SeqEqual
<1> QED
  BY <1>3, <1>8 DEF P, Q, h

-----------------------------------------------------------------------------
(* What appears on it.                                                     *)

\* The page that a display ends.
Document(d) == [lines |-> PageOf(d.screen, d.gone, d.row), at |-> d.col]

\* The recursion of After has a solution, which these pages are.
LEMMA AfterIs ==
    ASSUME NEW s \in Seq(Chars), NEW w, \A n \in 1..Len(s) : w[n] = Page!Typed(w[n - 1], s[n])
    PROVE  Page!After(w[0], s) = w[Len(s)]
<1> DEFINE Places == 0..Len(s)
           Val(f, n) == IF n = 0 THEN w[0] ELSE Page!Typed(f[n - 1], s[n])
           Body(f) == [n \in Places |-> Val(f, n)]
           v == [n \in Places |-> w[n]]
           typed == CHOOSE f : f = Body(f)
<1>1. Len(s) \in Nat
  OBVIOUS
<1>2. v = Body(v)
  <2>1. ASSUME NEW n \in Places
        PROVE  w[n] = Val(v, n)
    <3>1. CASE n = 0
      BY <3>1
    <3>2. CASE n # 0
      <4>1. n \in 1..Len(s) /\ n - 1 \in Places
        BY <1>1, <3>2
      <4>2. v[n - 1] = w[n - 1]
        BY <4>1
      <4>3. w[n] = Page!Typed(w[n - 1], s[n])
        BY <4>1
      <4> QED
        BY <3>2, <4>2, <4>3, Zenon
    <3> QED
      BY <3>1, <3>2
  <2> HIDE DEF Val
  <2> QED
    BY <2>1
<1>3. typed = Body(typed)
  <2> HIDE DEF Body, v
  <2> QED
    BY <1>2
<1>4. Page!After(w[0], s) = typed[Len(s)]
  BY DEF Page!After
<1> HIDE DEF typed
<1>5. \A n \in Places : typed[n] = Val(typed, n)
  BY <1>3
<1> DEFINE S == {n \in Nat : n <= Len(s) => typed[n] = w[n]}
<1>6. 0 \in S
  BY <1>1, <1>5
<1>7. ASSUME NEW n \in S
      PROVE  n + 1 \in S
  <2> SUFFICES ASSUME n + 1 <= Len(s)
               PROVE  typed[n + 1] = w[n + 1]
    OBVIOUS
  <2>1. n \in Nat /\ n + 1 \in 1..Len(s) /\ n + 1 \in Places /\ n + 1 # 0 /\ (n + 1) - 1 = n /\ n <= Len(s)
    BY <1>1
  <2>2. typed[n] = w[n]
    BY <2>1
  <2>3. typed[n + 1] = Page!Typed(typed[n], s[n + 1])
    BY <1>5, <2>1, Zenon
  <2>4. w[n + 1] = Page!Typed(w[n], s[n + 1])
    BY <2>1, Zenon
  <2> QED
    BY <2>2, <2>3, <2>4, Zenon
<1>8. Len(s) \in S
  <2>1. S \in SUBSET Nat
    OBVIOUS
  <2> HIDE DEF S
  <2> QED
    BY <1>1, <1>6, <1>7, <2>1, SetInduction
<1> QED
  BY <1>1, <1>4, <1>8

\* What a character does to a page.
LEMMA TypedIs ==
    ASSUME NEW P, NEW c, NEW chr
    PROVE  LET p == [lines |-> P, at |-> c]
           IN  /\ chr = "\n" => Page!Typed(p, chr) = [lines |-> Append(P, Blank), at |-> 0]
               /\ chr = "\r" => Page!Typed(p, chr) = [lines |-> P, at |-> 0]
               /\ chr \notin {"\n", "\r"} /\ c # VGA_WIDTH - 1
                     => Page!Typed(p, chr) = [lines |-> [P EXCEPT ![Len(P)][c] = chr], at |-> c + 1]
<1> DEFINE p == [lines |-> P, at |-> c]
<1>1. p.lines = P /\ p.at = c /\ [p EXCEPT !.at = 0] = [lines |-> P, at |-> 0]
  OBVIOUS
<1>2. Page!Blank = Blank
  BY DEF Page!Blank, Blank
<1> HIDE DEF p
<1>3. chr = "\n" => Page!Typed(p, chr) = [lines |-> Append(P, Blank), at |-> 0]
  BY <1>1, <1>2 DEF Page!Typed
<1>4. chr = "\r" => Page!Typed(p, chr) = [lines |-> P, at |-> 0]
  BY <1>1 DEF Page!Typed
<1>5. chr \notin {"\n", "\r"} /\ c # VGA_WIDTH - 1
         => Page!Typed(p, chr) = [lines |-> [P EXCEPT ![Len(P)][c] = chr], at |-> c + 1]
  BY <1>1 DEF Page!Typed
<1> QED
  BY <1>3, <1>4, <1>5 DEF p

\* A character that is printed appears on the page.
LEMMA CharOnPage ==
    ASSUME NEW d, Proper(d.screen, d.gone, d.row), d.row < VGA_HEIGHT, d.col \in Nat,
           NEW chr \in Chars, chr # "\n" => d.col + 1 < VGA_WIDTH
    PROVE  LET e == print_char(d, chr)
           IN  Proper(e.screen, e.gone, e.row) /\ Document(e) = Page!Typed(Document(d), chr)
<1> DEFINE e == print_char(d, chr)
           P == PageOf(d.screen, d.gone, d.row)
<1>1. Document(d).lines = P /\ Document(d).at = d.col /\ DOMAIN Document(d) = {"lines", "at"}
  BY DEF Document
<1>2. Page!Blank = Blank
  BY DEF Page!Blank, Blank
<1>3. CASE chr = "\n"
  <2>1. e.screen = d.screen /\ e.gone = d.gone /\ e.row = d.row + 1 /\ e.col = 0
    BY <1>3 DEF print_char, NewLine, Display
  <2>2. Proper(d.screen, d.gone, d.row + 1) /\ PageOf(d.screen, d.gone, d.row + 1) = Append(P, Blank)
    BY PageNewLine
  <2>3. Page!Typed(Document(d), chr) = [lines |-> Append(P, Blank), at |-> 0]
    BY <1>1, <1>2, <1>3 DEF Page!Typed
  <2> HIDE DEF e, P
  <2> QED
    BY <2>1, <2>2, <2>3 DEF Document, e
<1>4. CASE chr = "\r"
  <2>1. e.screen = d.screen /\ e.gone = d.gone /\ e.row = d.row /\ e.col = 0
    BY <1>4 DEF print_char, Display
  <2>2. Page!Typed(Document(d), chr) = [lines |-> P, at |-> 0]
    <3>1. Page!Typed(Document(d), chr) = [Document(d) EXCEPT !.at = 0]
      BY <1>4 DEF Page!Typed
    <3>2. [Document(d) EXCEPT !.at = 0] = [lines |-> P, at |-> 0]
      BY DEF Document
    <3> QED
      BY <3>1, <3>2
  <2> HIDE DEF e, P
  <2> QED
    BY <2>1, <2>2 DEF Document, e, P
<1>5. CASE chr \notin {"\n", "\r"}
  <2> DEFINE t == put_char(d.screen, d.col, d.row, chr)
             put == Display(t, d.row, d.col + 1, d.gone)
  <2>1. VGA_WIDTH \in Nat \ {0} /\ d.col + 1 < VGA_WIDTH /\ d.col \in 0..(VGA_WIDTH - 1) /\ d.col # VGA_WIDTH - 1
    BY <1>5, Rooms
  <2>2. put.screen = t /\ put.row = d.row /\ put.col = d.col + 1 /\ put.gone = d.gone
    BY DEF Display
  <2>3. e = put
    <3>1. e = IF put.col >= VGA_WIDTH THEN NewLine(put) ELSE put
      BY <1>5 DEF print_char
    <3>2. ~(put.col >= VGA_WIDTH)
      BY <2>1, <2>2
    <3> HIDE DEF put, e
    <3> QED
      BY <3>1, <3>2
  <2>4. Proper(t, d.gone, d.row) /\ PageOf(t, d.gone, d.row) = [P EXCEPT ![Len(P)][d.col] = chr]
    <3> HIDE DEF put, e
    <3> DEFINE b == d.screen
               g == d.gone
               r == d.row
               c == d.col
    <3>1. Proper(b, g, r) /\ r < VGA_HEIGHT /\ c \in 0..(VGA_WIDTH - 1)
      BY <2>1
    <3> HIDE DEF b, g, r, c
    <3>2. /\ Proper(put_char(b, c, r, chr), g, r)
          /\ PageOf(put_char(b, c, r, chr), g, r) = [PageOf(b, g, r) EXCEPT ![Len(PageOf(b, g, r))][c] = chr]
      BY <3>1, PagePut
    <3> QED
      BY <3>2, Zenon DEF b, g, r, c
  <2> HIDE DEF t
  <2>5. Page!Typed(Document(d), chr) = [lines |-> [P EXCEPT ![Len(P)][d.col] = chr], at |-> d.col + 1]
    <3> HIDE DEF P
    <3>1. ~(d.col = VGA_WIDTH - 1)
      BY <2>1
    <3> QED
      BY <1>1, <1>5, <3>1 DEF Page!Typed
  <2> HIDE DEF put, e, P
  <2> QED
    BY <2>2, <2>3, <2>4, <2>5 DEF Document, e
<1> QED
  BY <1>3, <1>4, <1>5

\* So does the whole line of the handler, whether or not the screen scrolls first.
LEMMA KeyTextOnPage ==
    ASSUME LineWithin(KeyText, VGA_WIDTH), NEW d, Proper(d.screen, d.gone, d.row), d.col \in Nat,
           d.col + Len(KeyText) <= VGA_WIDTH
    PROVE  LET e == printc(d, KeyText)
           IN  /\ Proper(e.screen, e.gone, e.row)
               /\ Document(e) = Page!After(Document(d), KeyText)
<1>1. /\ KeyText \in Seq(Chars) /\ Len(KeyText) \in Nat \ {0} /\ VGA_WIDTH \in Nat
      /\ VGA_HEIGHT \in Nat \ {0, 1} /\ d.row \in 0..VGA_HEIGHT
      /\ \A n \in 1..Len(KeyText) : KeyText[n] \in Chars /\ (KeyText[n] = "\n" <=> n = Len(KeyText))
  <2>1. KeyText \in Seq(Chars) /\ KeyText # <<>> /\ \A n \in DOMAIN KeyText : KeyText[n] = "\n" <=> n = Len(KeyText)
    BY Zenon DEF LineWithin
  <2> QED
    BY <2>1, Rooms DEF Proper
<1> DEFINE L == Len(KeyText)
<1>2. PICK f : /\ printc(d, KeyText) = f[L]
               /\ f[0] = IF check_screen_overflow(d.row) THEN scroll_down_on_screen_overflow(d) ELSE d
               /\ \A n \in 1..L : f[n] = print_char(f[n - 1], KeyText[n])
  <2> HIDE DEF L
  <2>1. \E f : /\ printc(d, KeyText) = f[Len(KeyText)]
               /\ f[0] = IF check_screen_overflow(d.row) THEN scroll_down_on_screen_overflow(d) ELSE d
               /\ \A n \in 1..Len(KeyText) : f[n] = print_char(f[n - 1], KeyText[n])
    BY <1>1, PrintDefined
  <2> QED
    BY <2>1 DEF L
<1>3. /\ Proper(f[0].screen, f[0].gone, f[0].row) /\ f[0].row < VGA_HEIGHT /\ f[0].col = d.col
      /\ Document(f[0]) = Document(d)
  <2>1. CASE d.row = VGA_HEIGHT
    <3> DEFINE t == [n \in MemoryRows |-> IF n < VGA_HEIGHT THEN ScrolledRow(d.screen, n) ELSE d.screen[n]]
               h == Append(d.gone, d.screen[0])
    <3>1. f[0] = Display(t, d.row - 1, d.col, h)
      BY <1>2, <2>1 DEF check_screen_overflow, scroll_down_on_screen_overflow
    <3>2. f[0].screen = t /\ f[0].row = VGA_HEIGHT - 1 /\ f[0].col = d.col /\ f[0].gone = h
      BY <2>1, <3>1 DEF Display
    <3>3. t \in [MemoryRows -> Cells] /\ \A n \in 0..(VGA_HEIGHT - 1) : t[n] = ScrolledRow(d.screen, n)
      <4>1. ASSUME NEW n \in MemoryRows
            PROVE  t[n] \in Cells
        <5>1. d.screen \in [MemoryRows -> Cells]
          BY DEF Proper
        <5>2. n < VGA_HEIGHT /\ n # VGA_HEIGHT - 1 => n + 1 \in MemoryRows
          <6>1. n < VGA_HEIGHT /\ n # VGA_HEIGHT - 1 => n + 1 \in 0..VGA_HEIGHT
            BY <1>1 DEF MemoryRows
          <6> QED
            BY <6>1, Rooms
        <5>3. n < VGA_HEIGHT => ScrolledRow(d.screen, n) \in Cells
          BY <5>1, <5>2, Rooms DEF ScrolledRow
        <5> QED
          BY <5>1, <5>3
      <4>2. ASSUME NEW n \in 0..(VGA_HEIGHT - 1)
            PROVE  t[n] = ScrolledRow(d.screen, n)
        <5>1. n \in 0..VGA_HEIGHT /\ n < VGA_HEIGHT
          BY <1>1
        <5> QED
          BY <5>1, Rooms
      <4> QED
        BY <4>1, <4>2
    <3>4. /\ Proper(t, h, VGA_HEIGHT - 1)
          /\ PageOf(t, h, VGA_HEIGHT - 1) = PageOf(d.screen, d.gone, VGA_HEIGHT)
      <4> HIDE DEF t
      <4> DEFINE b == d.screen
                 g == d.gone
      <4>1. Proper(b, g, VGA_HEIGHT) /\ \A n \in 0..(VGA_HEIGHT - 1) : t[n] = ScrolledRow(b, n)
        BY <2>1, <3>3
      <4> HIDE DEF b, g
      <4>2. /\ Proper(t, Append(g, b[0]), VGA_HEIGHT - 1)
            /\ PageOf(t, Append(g, b[0]), VGA_HEIGHT - 1) = PageOf(b, g, VGA_HEIGHT)
        BY <3>3, <4>1, PageScrolled
      <4> QED
        BY <4>2 DEF b, g
    <3> HIDE DEF t, h
    <3> QED
      BY <1>1, <2>1, <3>2, <3>4 DEF Document
  <2>2. CASE d.row # VGA_HEIGHT
    <3>1. f[0] = d
      BY <1>2, <2>2 DEF check_screen_overflow
    <3>2. d.row < VGA_HEIGHT
      BY <1>1, <2>2
    <3> QED
      BY <3>1, <3>2
  <2> QED
    BY <2>1, <2>2
<1> DEFINE Good(n) == /\ Proper(f[n].screen, f[n].gone, f[n].row) /\ f[n].row < VGA_HEIGHT
                      /\ f[n].col \in Nat /\ f[n].col <= d.col + n
           S == {n \in Nat : n < L => Good(n)}
<1>4. 0 \in S
  BY <1>3
<1>5. ASSUME NEW n \in Nat, n < L, Good(n)
      PROVE  /\ Proper(f[n + 1].screen, f[n + 1].gone, f[n + 1].row)
             /\ Document(f[n + 1]) = Page!Typed(Document(f[n]), KeyText[n + 1])
             /\ n + 1 < L => Good(n + 1)
  <2>1. n + 1 \in 1..L /\ (n + 1) - 1 = n
    BY <1>1, <1>5
  <2>2. f[n + 1] = print_char(f[n], KeyText[n + 1]) /\ KeyText[n + 1] \in Chars
    BY <1>1, <1>2, <2>1
  <2>3. KeyText[n + 1] # "\n" => n + 1 < L
    BY <1>1, <2>1
  <2> DEFINE p == f[n].col
             b == d.col
  <2>4. p \in Nat /\ b \in Nat /\ p <= b + n /\ b + L <= VGA_WIDTH /\ L \in Nat
    BY <1>1, <1>5
  <2>5. n + 1 < L => p + 1 < VGA_WIDTH
    <3> HIDE DEF p, b, L
    <3> QED
      BY <1>1, <2>4
  <2> PICK c : c = f[n]
    OBVIOUS
  <2> PICK chr : chr = KeyText[n + 1]
    OBVIOUS
  <2>6. /\ Proper(c.screen, c.gone, c.row) /\ c.row < VGA_HEIGHT /\ c.col \in Nat
        /\ chr \in Chars /\ (chr # "\n" => c.col + 1 < VGA_WIDTH)
    BY <1>5, <2>2, <2>3, <2>5
  <2>7. LET e == print_char(c, chr)
        IN  Proper(e.screen, e.gone, e.row) /\ Document(e) = Page!Typed(Document(c), chr)
    BY <2>6, CharOnPage
  <2>8. ASSUME n + 1 < L
        PROVE  Good(n + 1)
    <3>1. chr # "\n"
      BY <1>1, <2>1, <2>8
    <3>2. ~(c.col + 1 >= VGA_WIDTH)
      BY <1>1, <2>6, <3>1
    <3>3. f[n + 1].row = c.row /\ f[n + 1].col \in {0, p + 1}
      BY <2>2, <3>1, <3>2, PrintChar
    <3>4. f[n + 1].col \in Nat /\ f[n + 1].col <= b + (n + 1)
      <4> DEFINE q == f[n + 1].col
      <4>1. q \in {0, p + 1}
        BY <3>3
      <4> HIDE DEF p, b, q
      <4>2. q \in Nat /\ q <= b + (n + 1)
        BY <2>4, <4>1
      <4> QED
        BY <4>2 DEF q
    <3> QED
      BY <2>2, <2>6, <2>7, <3>3, <3>4
  <2> QED
    BY <2>2, <2>7, <2>8
<1>6. ASSUME NEW n \in Nat, n < L
      PROVE  Good(n)
  <2>1. ASSUME NEW m \in S
        PROVE  m + 1 \in S
    <3>1. m \in Nat /\ (m + 1 < L => m < L)
      BY <1>1
    <3>2. m < L => Good(m)
      BY <2>1
    <3> HIDE DEF Good
    <3>3. m + 1 < L => Good(m + 1)
      BY <1>5, <3>1, <3>2
    <3> QED
      BY <3>1, <3>3
  <2>2. S \in SUBSET Nat
    OBVIOUS
  <2>3. S = Nat
    <3> HIDE DEF S
    <3> QED
      BY <1>4, <2>1, <2>2, SetInduction
  <2> QED
    BY <1>6, <2>3
<1> DEFINE w == [n \in 0..L |-> Document(f[n])]
<1>7. ASSUME NEW n \in 1..L
      PROVE  w[n] = Page!Typed(w[n - 1], KeyText[n])
  <2>1. n - 1 \in Nat /\ n - 1 < L /\ (n - 1) + 1 = n /\ n \in 0..L /\ n - 1 \in 0..L
    BY <1>1
  <2>2. Good(n - 1)
    BY <1>6, <2>1
  <2> HIDE DEF Good
  <2>3. Document(f[(n - 1) + 1]) = Page!Typed(Document(f[n - 1]), KeyText[(n - 1) + 1])
    BY <1>5, <2>1, <2>2
  <2>4. w[n] = Document(f[n]) /\ w[n - 1] = Document(f[n - 1])
    BY <2>1
  <2> HIDE DEF w
  <2> QED
    BY <2>1, <2>3, <2>4, Zenon
<1>8. Page!After(w[0], KeyText) = w[L]
  <2> HIDE DEF w
  <2> QED
    BY <1>1, <1>7, AfterIs
<1>9. w[0] = Document(d) /\ w[L] = Document(f[L])
  BY <1>1, <1>3
<1>10. Proper(f[L].screen, f[L].gone, f[L].row)
  <2>1. L - 1 \in Nat /\ L - 1 < L /\ (L - 1) + 1 = L
    BY <1>1
  <2>2. Good(L - 1)
    BY <1>6, <2>1
  <2> HIDE DEF Good
  <2>3. Proper(f[(L - 1) + 1].screen, f[(L - 1) + 1].gone, f[(L - 1) + 1].row)
    BY <1>5, <2>1, <2>2
  <2> QED
    BY <2>1, <2>3, Zenon
<1> HIDE DEF w
<1> QED
  BY <1>2, <1>8, <1>9, <1>10

\* The page of the model, its lines and the place of the cursor.
Now == [lines |-> PageLines, at |-> IF OnNewLine THEN 0 ELSE TypedCol]

\* What the screen will be when row j and those below it have been moved.
Completed(s, j) == [n \in MemoryRows |-> IF j <= n /\ n < VGA_HEIGHT THEN ScrolledRow(s, n) ELSE s[n]]

\* The cursor and its copies agree, as long as no interrupt prints in a running call.
Steady ==
    /\ Proper(screen, gone, row) /\ ~torn
    /\ pc = "put" => x = col /\ y = row
    /\ pc = "store_col" => reg = col
    /\ pc = "store_row" => reg = row
    /\ pc \in {"load_row", "store_row"} => col = 0
    /\ i \in 0..VGA_HEIGHT /\ (pc # "scroll" => i = 0)
    /\ pc = "scroll" => row = VGA_HEIGHT

\* Before the screen is cleared nothing is printed.
Unstarted ==
    /\ at \in {"_start", "clear"} /\ todo = <<>>
    /\ screen \in [MemoryRows -> Cells] /\ gone = <<>>
    /\ pc = "idle" /\ i = 0 /\ ~torn

PageInv ==
    IF "console" \in up THEN at \notin {"_start", "clear"} /\ (~mixed => Steady)
                        ELSE Unstarted /\ ~mixed

\* The text stays within the row.
LEMMA WithinRow ==
    TextsFit /\ ScreenInv =>
        /\ col \in 0..(VGA_WIDTH - 1)
        /\ pc = "load_col" => col + 1 < VGA_WIDTH
        /\ pc = "store_col" => reg + 1 < VGA_WIDTH
        /\ pc = "put" => col + 1 < VGA_WIDTH
<1> SUFFICES ASSUME TextsFit, ScreenInv
             PROVE  /\ col \in 0..(VGA_WIDTH - 1)
                    /\ pc = "load_col" => col + 1 < VGA_WIDTH
                    /\ pc = "store_col" => reg + 1 < VGA_WIDTH
                    /\ pc = "put" => col + 1 < VGA_WIDTH
  OBVIOUS
<1>1. /\ text \in Seq(Chars) /\ Fits(text, col) /\ (pc = "load_col" => Fits(text, col + 1))
      /\ (pc = "store_col" => Fits(text, reg + 1)) /\ (pc = "put" => text # <<>> /\ text[1] # "\n")
  BY DEF ScreenInv, Texts, Columns
<1>2. col \in Nat /\ (pc = "store_col" => reg \in Nat)
  BY Cursor
<1>3. VGA_WIDTH \in Nat \ {0}
  BY Rooms
<1>4. col < VGA_WIDTH
  BY <1>1, <1>2, FitsBelow
<1>5. ASSUME pc = "load_col"
      PROVE  col + 1 < VGA_WIDTH
  <2> DEFINE c == col + 1
  <2>1. c \in Nat /\ Fits(text, c)
    BY <1>1, <1>2, <1>5
  <2> HIDE DEF c
  <2>2. c < VGA_WIDTH
    BY <1>1, <2>1, FitsBelow
  <2> QED
    BY <2>2 DEF c
<1>6. ASSUME pc = "store_col"
      PROVE  reg + 1 < VGA_WIDTH
  <2> DEFINE c == reg + 1
  <2>1. c \in Nat /\ Fits(text, c)
    BY <1>1, <1>2, <1>6
  <2> HIDE DEF c
  <2>2. c < VGA_WIDTH
    BY <1>1, <2>1, FitsBelow
  <2> QED
    BY <2>2 DEF c
<1>7. ASSUME pc = "put"
      PROVE  col + 1 < VGA_WIDTH
  BY <1>1, <1>2, <1>7, TailFits
<1> QED
  BY <1>2, <1>3, <1>4, <1>5, <1>6, <1>7

\* What the page is, by the place where the main line is.
PageByPlace ==
    /\ pc \in {"idle", "char", "put"} => Now = [lines |-> PageOf(screen, gone, row), at |-> col]
    /\ pc \in {"load_col", "store_col"} => Now = [lines |-> PageOf(screen, gone, row), at |-> col + 1]
    /\ pc \in {"newline", "load_row", "store_row"}
          => Now = [lines |-> Append(PageOf(screen, gone, row), Blank), at |-> 0]
    /\ pc = "scroll" /\ i = 0 => Now = [lines |-> PageOf(screen, gone, VGA_HEIGHT), at |-> col]
    /\ pc = "scroll" /\ i # 0 => Now = [lines |-> PageOf(Completed(screen, i), gone, VGA_HEIGHT - 1), at |-> col]

LEMMA PageIs == TextsFit /\ ScreenInv /\ Steady => PageByPlace
<1> SUFFICES ASSUME TextsFit, ScreenInv, Steady
             PROVE  PageByPlace
  OBVIOUS
<1>1. /\ Proper(screen, gone, row) /\ row \in 0..VGA_HEIGHT /\ gone \in Seq(Cells) /\ screen \in [MemoryRows -> Cells]
      /\ i \in 0..VGA_HEIGHT /\ (pc # "scroll" => i = 0) /\ (pc = "scroll" => row = VGA_HEIGHT)
  BY DEF Steady, Proper
<1>2. /\ VGA_WIDTH \in Nat \ {0} /\ VGA_HEIGHT \in Nat \ {0, 1}
      /\ col \in 0..(VGA_WIDTH - 1) /\ (pc = "load_col" => col + 1 < VGA_WIDTH)
      /\ (pc = "store_col" => reg = col /\ reg + 1 < VGA_WIDTH)
  BY WithinRow, Rooms DEF Steady
<1> DEFINE P == PageOf(screen, gone, row)
<1>3. P \in Seq(Cells) /\ Blank \in Cells
  BY <1>1, PageLinesOf, Rooms
<1>4. \A n \in 0..VGA_HEIGHT : RowShown(n) = Shown(screen, n)
  BY DEF RowShown, Shown
<1>5. ASSUME i = 0 \/ pc # "scroll"
      PROVE  gone \o ScrolledLines = P
  <2>1. Visible = [n \in 1..(row + 1) |-> RowShown(n - 1)]
    BY <1>5, <1>1 DEF Visible
  <2>2. Visible = [n \in 1..(row + 1) |-> Shown(screen, n - 1)]
    <3>1. \A n \in 1..(row + 1) : n - 1 \in 0..VGA_HEIGHT
      BY <1>1, <1>2
    <3> QED
      BY <1>4, <2>1, <3>1
  <2>3. ScrolledLines = Visible
    BY <1>1, <1>5 DEF ScrolledLines
  <2> QED
    BY <2>2, <2>3 DEF PageOf
<1>6. P \o <<>> = P /\ P \o <<Blank>> = Append(P, Blank)
  <2> HIDE DEF P
  <2> QED
    BY <1>3, ConcatEmptySeq, AppendIsConcat
<1>7. ASSUME i = 0 \/ pc # "scroll"
      PROVE  PageLines = IF OnNewLine THEN Append(P, Blank) ELSE P
  <2>1. PageLines = P \o (IF OnNewLine THEN <<Blank>> ELSE <<>>)
    BY <1>5, <1>7 DEF PageLines
  <2> HIDE DEF P
  <2> QED
    BY <1>6, <2>1
<1>8. ASSUME pc \in {"idle", "char", "put", "scroll"}
      PROVE  TypedCol = col /\ ~OnNewLine
  BY <1>2, <1>8 DEF TypedCol, OnNewLine
<1>9. ASSUME pc \in {"load_col", "store_col"}
      PROVE  TypedCol = col + 1 /\ ~OnNewLine
  BY <1>2, <1>9 DEF TypedCol, OnNewLine
<1>10. ASSUME pc \in {"newline", "load_row", "store_row"}
       PROVE  OnNewLine
  BY <1>10 DEF OnNewLine
<1>11. ASSUME pc = "scroll", i # 0
       PROVE  PageLines = PageOf(Completed(screen, i), gone, VGA_HEIGHT - 1)
  <2> DEFINE t == Completed(screen, i)
             v == [n \in 1..((VGA_HEIGHT - 1) + 1) |-> Shown(t, n - 1)]
  <2>1. row = VGA_HEIGHT /\ i \in 1..VGA_HEIGHT /\ (VGA_HEIGHT - 1) + 1 = VGA_HEIGHT
    BY <1>1, <1>2, <1>11
  <2>2. ASSUME NEW n \in 1..VGA_HEIGHT
        PROVE  Visible[n] = Shown(t, n - 1)
    <3> DEFINE m == n - 1
    <3>1. m \in 0..(VGA_HEIGHT - 1) /\ m \in 0..VGA_HEIGHT /\ m < VGA_HEIGHT /\ n \in 1..(row + 1) /\ n = m + 1
          /\ n \in 0..VGA_HEIGHT /\ n \in Nat /\ (i <= m <=> n > i)
      BY <1>2, <2>1
    <3>2. Visible[n] = IF i \in 1..(VGA_HEIGHT - 1) /\ n > i THEN RowShown(n) ELSE RowShown(m)
      BY <1>11, <3>1 DEF Visible
    <3> HIDE DEF m
    <3>3. m \in MemoryRows
      BY <3>1, Rooms
    <3>4. Shown(t, m) = IF i <= m THEN ScrolledRow(screen, m) ELSE screen[m]
      BY <3>1, <3>3 DEF Shown, Completed
    <3>5. CASE i <= m
      <4>1. i \in 1..(VGA_HEIGHT - 1) /\ n > i
        BY <1>2, <2>1, <3>1, <3>5
      <4>2. Visible[n] = Shown(screen, n)
        BY <1>4, <3>1, <3>2, <4>1
      <4>3. n < VGA_HEIGHT <=> m # VGA_HEIGHT - 1
        BY <1>2, <3>1
      <4> QED
        BY <3>1, <3>4, <3>5, <4>2, <4>3 DEF Shown, ScrolledRow
    <3>6. CASE ~(i <= m)
      <4>1. ~(n > i)
        BY <3>1, <3>6
      <4>2. Visible[n] = Shown(screen, m)
        BY <1>4, <3>1, <3>2, <4>1
      <4> QED
        BY <3>1, <3>4, <3>6, <4>2 DEF Shown
    <3> QED
      BY <3>5, <3>6 DEF m
  <2>3. SubSeq(Visible, 1, VGA_HEIGHT) = [n \in 1..VGA_HEIGHT |-> Visible[n]]
    BY <1>2
  <2>4. ScrolledLines = SubSeq(Visible, 1, VGA_HEIGHT)
    <3>1. i > 0
      BY <1>2, <2>1
    <3> QED
      BY <1>11, <3>1, Zenon DEF ScrolledLines
  <2>5. ScrolledLines = v
    <3> HIDE DEF t
    <3> QED
      BY <2>1, <2>2, <2>3, <2>4
  <2>6. gone \o ScrolledLines = PageOf(t, gone, VGA_HEIGHT - 1)
    BY <2>5 DEF PageOf
  <2>7. PageOf(t, gone, VGA_HEIGHT - 1) \in Seq(Cells)
    <3>1. t \in [MemoryRows -> Cells]
      <4>1. ASSUME NEW n \in MemoryRows, i <= n, n < VGA_HEIGHT
            PROVE  ScrolledRow(screen, n) \in Cells
        <5>1. n # VGA_HEIGHT - 1 => n + 1 \in 0..VGA_HEIGHT
          BY <1>2, <4>1 DEF MemoryRows
        <5>2. n # VGA_HEIGHT - 1 => n + 1 \in MemoryRows
          BY <5>1, Rooms
        <5> QED
          BY <1>1, <5>2, Rooms DEF ScrolledRow
      <4> QED
        BY <1>1, <4>1 DEF Completed
    <3> HIDE DEF t
    <3>2. Proper(t, gone, VGA_HEIGHT - 1)
      <4>1. VGA_HEIGHT - 1 \in 0..VGA_HEIGHT
        BY <1>2
      <4>2. \A n \in MemoryRows : ~(VGA_HEIGHT - 1 < n /\ n < VGA_HEIGHT)
        BY <1>2 DEF MemoryRows
      <4> QED
        BY <1>1, <3>1, <4>1, <4>2 DEF Proper
    <3> QED
      BY <3>2, PageLinesOf
  <2>8. ~OnNewLine
    BY <1>8, <1>11
  <2> HIDE DEF t, v
  <2>9. PageLines = PageOf(t, gone, VGA_HEIGHT - 1) \o <<>>
    BY <2>6, <2>8 DEF PageLines
  <2> QED
    BY <2>7, <2>9, ConcatEmptySeq DEF t
<1> HIDE DEF P
<1> QED
  <2>1. pc \in {"idle", "char", "put"} => Now = [lines |-> P, at |-> col]
    BY <1>7, <1>8 DEF Now
  <2>2. pc \in {"load_col", "store_col"} => Now = [lines |-> P, at |-> col + 1]
    BY <1>7, <1>9 DEF Now
  <2>3. pc \in {"newline", "load_row", "store_row"} => Now = [lines |-> Append(P, Blank), at |-> 0]
    BY <1>7, <1>10 DEF Now
  <2>4. pc = "scroll" /\ i = 0 => Now = [lines |-> P, at |-> col] /\ row = VGA_HEIGHT
    BY <1>1, <1>7, <1>8 DEF Now
  <2>5. pc = "scroll" /\ i # 0 => Now = [lines |-> PageOf(Completed(screen, i), gone, VGA_HEIGHT - 1), at |-> col]
    BY <1>8, <1>11 DEF Now
  <2> QED
    BY <2>1, <2>2, <2>3, <2>4, <2>5, Zenon DEF PageByPlace, P

\* A step that puts the next character of the text on the page.
Types ==
    /\ text # <<>> /\ Head(text) \in Chars
    /\ Head(text) \notin {"\n", "\r"} => Now.at + 1 < VGA_WIDTH
    /\ Now' = Page!Typed(Now, Head(text)) /\ text' = Tail(text)

\* One row is moved up.
LEMMA ScrollRowOnPage ==
    ASSUME TextsFit, ScreenInv, ScreenInv', Steady, ScrollRow, torn' = torn
    PROVE  Steady' /\ Now' = Now /\ text' = text
<1>1. /\ pc = "scroll" /\ pc' = "scroll" /\ i < VGA_HEIGHT /\ i' = i + 1
      /\ screen' = [screen EXCEPT ![i] = ScrolledRow(screen, i)]
      /\ gone' = (IF i = 0 THEN Append(gone, screen[0]) ELSE gone)
      /\ UNCHANGED <<row, col, text, x, y, reg>>
  BY DEF ScrollRow
<1>2. /\ Proper(screen, gone, VGA_HEIGHT) /\ row = VGA_HEIGHT /\ i \in 0..VGA_HEIGHT /\ ~torn
      /\ screen \in [MemoryRows -> Cells] /\ gone \in Seq(Cells)
  BY <1>1 DEF Steady, Proper
<1>3. VGA_HEIGHT \in Nat \ {0, 1} /\ 0 \in MemoryRows /\ i \in MemoryRows /\ i \in Nat
  BY <1>1, <1>2, Rooms
<1>4. \A n \in 0..(VGA_HEIGHT - 1) : ScrolledRow(screen, n) \in Cells /\ n \in MemoryRows
  <2> SUFFICES ASSUME NEW n \in 0..(VGA_HEIGHT - 1)
               PROVE  ScrolledRow(screen, n) \in Cells /\ n \in MemoryRows
    OBVIOUS
  <2>1. n \in 0..VGA_HEIGHT /\ (n # VGA_HEIGHT - 1 => n + 1 \in 0..VGA_HEIGHT)
    BY <1>3
  <2>2. n \in MemoryRows /\ (n # VGA_HEIGHT - 1 => n + 1 \in MemoryRows)
    BY <2>1, Rooms
  <2> QED
    BY <1>2, <2>2, Rooms DEF ScrolledRow
<1> DEFINE t == Completed(screen, i)
<1>5. Completed(screen', i + 1) = t
  <2>1. ASSUME NEW n \in MemoryRows
        PROVE  (IF i + 1 <= n /\ n < VGA_HEIGHT THEN ScrolledRow(screen', n) ELSE screen'[n])
               = (IF i <= n /\ n < VGA_HEIGHT THEN ScrolledRow(screen, n) ELSE screen[n])
    <3>1. screen'[n] = IF n = i THEN ScrolledRow(screen, i) ELSE screen[n]
      BY <1>1, <1>2
    <3>2. n \in Nat
      BY DEF MemoryRows
    <3>3. CASE n = i
      <4>1. ~(i + 1 <= n) /\ i <= n /\ n < VGA_HEIGHT
        BY <1>1, <1>3, <3>3
      <4> QED
        BY <3>1, <3>3, <4>1
    <3>4. CASE i + 1 <= n /\ n < VGA_HEIGHT
      <4>1. i <= n /\ n # i /\ n + 1 # i /\ (n # VGA_HEIGHT - 1 => n + 1 \in 0..VGA_HEIGHT)
        BY <1>3, <3>2, <3>4
      <4>2. n # VGA_HEIGHT - 1 => screen'[n + 1] = screen[n + 1]
        BY <1>1, <1>2, <4>1, Rooms
      <4>3. ScrolledRow(screen', n) = ScrolledRow(screen, n)
        BY <4>2 DEF ScrolledRow
      <4> QED
        BY <3>4, <4>1, <4>3
    <3>5. CASE n # i /\ ~(i + 1 <= n /\ n < VGA_HEIGHT)
      <4>1. ~(i <= n /\ n < VGA_HEIGHT)
        BY <1>3, <3>2, <3>5
      <4> QED
        BY <3>1, <3>5, <4>1
    <3> QED
      BY <3>3, <3>4, <3>5
  <2> QED
    BY <2>1, Zenon DEF Completed
<1>6. Steady'
  <2>1. screen' \in [MemoryRows -> Cells]
    <3>1. i \in 0..(VGA_HEIGHT - 1)
      BY <1>1, <1>3
    <3> QED
      BY <1>1, <1>2, <1>4, <3>1
  <2>2. gone' \in Seq(Cells)
    BY <1>1, <1>2, <1>3, AppendProperties
  <2>3. \A n \in MemoryRows : ~(VGA_HEIGHT < n /\ n < VGA_HEIGHT)
    BY <1>3 DEF MemoryRows
  <2>4. Proper(screen', gone', row')
    BY <1>1, <1>2, <1>3, <2>1, <2>2, <2>3 DEF Proper
  <2>5. i' \in 0..VGA_HEIGHT
    BY <1>1, <1>2, <1>3
  <2> QED
    BY <1>1, <1>2, <2>4, <2>5 DEF Steady
<1>7. PageByPlace /\ PageByPlace'
  <2>1. (TextsFit /\ ScreenInv /\ Steady => PageByPlace)'
    BY PageIs, PTL
  <2>2. TextsFit'
    BY DEF TextsFit
  <2> QED
    BY <1>6, <2>1, <2>2, PageIs
<1>8. Now' = [lines |-> PageOf(t, gone', VGA_HEIGHT - 1), at |-> col]
  <2>1. i + 1 # 0
    BY <1>3
  <2>2. Now' = [lines |-> PageOf(Completed(screen', i'), gone', VGA_HEIGHT - 1), at |-> col']
    BY <1>1, <1>7, <2>1, Zenon DEF PageByPlace
  <2> QED
    BY <1>1, <1>5, <2>2
<1>9. CASE i # 0
  <2>1. Now = [lines |-> PageOf(t, gone, VGA_HEIGHT - 1), at |-> col] /\ gone' = gone
    BY <1>1, <1>7, <1>9, Zenon DEF PageByPlace
  <2> QED
    BY <1>1, <1>6, <1>8, <2>1
<1>10. CASE i = 0
  <2>1. Now = [lines |-> PageOf(screen, gone, VGA_HEIGHT), at |-> col] /\ gone' = Append(gone, screen[0])
    BY <1>1, <1>7, <1>10, Zenon DEF PageByPlace
  <2>2. t \in [MemoryRows -> Cells] /\ \A n \in 0..(VGA_HEIGHT - 1) : t[n] = ScrolledRow(screen, n)
    <3>1. t = [n \in MemoryRows |-> IF 0 <= n /\ n < VGA_HEIGHT THEN ScrolledRow(screen, n) ELSE screen[n]]
      BY <1>10 DEF Completed
    <3>2. \A n \in MemoryRows : 0 <= n /\ n < VGA_HEIGHT => n \in 0..(VGA_HEIGHT - 1)
      BY <1>3 DEF MemoryRows
    <3>3. \A n \in 0..(VGA_HEIGHT - 1) : 0 <= n /\ n < VGA_HEIGHT
      BY <1>3
    <3> HIDE DEF t
    <3>4. t \in [MemoryRows -> Cells]
      BY <1>2, <1>4, <3>1, <3>2
    <3>5. \A n \in 0..(VGA_HEIGHT - 1) : t[n] = ScrolledRow(screen, n)
      BY <1>4, <3>1, <3>3
    <3> QED
      BY <3>4, <3>5
  <2> HIDE DEF t
  <2>3. PageOf(t, Append(gone, screen[0]), VGA_HEIGHT - 1) = PageOf(screen, gone, VGA_HEIGHT)
    BY <1>2, <2>2, PageScrolled
  <2> QED
    BY <1>1, <1>6, <1>8, <2>1, <2>3
<1> QED
  BY <1>9, <1>10

\* Every step of a call leaves the page as it is, or puts the next character on it.
LEMMA PrintStepOnPage ==
    ASSUME TextsFit, ScreenInv, ScreenInv', Steady, PrintStep
    PROVE  Steady' /\ ((Now' = Now /\ text' = text) \/ Types)
<1>1. torn' = torn /\ ~torn /\ ~torn'
  BY DEF PrintStep, Steady
<1>2. PageByPlace
  BY PageIs
<1>3. ASSUME Steady'
      PROVE  PageByPlace'
  <2>1. (TextsFit /\ ScreenInv /\ Steady => PageByPlace)'
    BY PageIs, PTL
  <2>2. TextsFit'
    BY DEF TextsFit
  <2> QED
    BY <1>3, <2>1, <2>2
<1>4. /\ Proper(screen, gone, row) /\ row \in 0..VGA_HEIGHT /\ VGA_HEIGHT \in Nat \ {0, 1}
      /\ screen \in [MemoryRows -> Cells] /\ gone \in Seq(Cells)
  BY Rooms DEF Steady, Proper
<1>5. /\ VGA_WIDTH \in Nat \ {0} /\ col \in 0..(VGA_WIDTH - 1) /\ col \in Nat
      /\ (pc = "put" => col + 1 < VGA_WIDTH) /\ (pc = "store_col" => reg + 1 < VGA_WIDTH)
  BY WithinRow, Rooms
<1>6. /\ pc \in {"put", "load_col", "store_col", "newline", "load_row", "store_row"} => row < VGA_HEIGHT
      /\ pc = "char" /\ text # <<>> => row < VGA_HEIGHT
  BY <1>1 DEF ScreenInv, Rows
<1>7. text # <<>> => Head(text) \in Chars /\ Head(text) = text[1]
  <2>1. text \in Seq(Chars)
    BY DEF ScreenInv, Texts
  <2> QED
    BY <2>1
<1> DEFINE P == PageOf(screen, gone, row)
<1>8. CASE ScrollRow
  BY <1>1, <1>8, ScrollRowOnPage
<1>9. CASE EndScroll
  <2>1. /\ pc = "scroll" /\ i = VGA_HEIGHT /\ row' = row - 1 /\ i' = 0 /\ pc' = "char"
        /\ UNCHANGED <<screen, col, gone, text, x, y, reg>>
    BY <1>9 DEF EndScroll, Goto
  <2>2. row = VGA_HEIGHT /\ row' = VGA_HEIGHT - 1 /\ 0 \in 0..VGA_HEIGHT /\ i # 0
    BY <1>4, <2>1 DEF Steady
  <2>3. Proper(screen, gone, VGA_HEIGHT - 1)
    <3>1. VGA_HEIGHT - 1 \in 0..VGA_HEIGHT
      BY <1>4
    <3>2. \A n \in MemoryRows : ~(VGA_HEIGHT - 1 < n /\ n < VGA_HEIGHT)
      BY <1>4 DEF MemoryRows
    <3> QED
      BY <1>4, <3>1, <3>2 DEF Proper
  <2>4. Steady'
    BY <1>1, <2>1, <2>2, <2>3 DEF Steady
  <2>5. Completed(screen, i) = screen
    <3>1. \A n \in MemoryRows : ~(i <= n /\ n < VGA_HEIGHT)
      BY <1>4, <2>1 DEF MemoryRows
    <3> QED
      BY <1>4, <3>1 DEF Completed
  <2>6. Now = [lines |-> PageOf(screen, gone, VGA_HEIGHT - 1), at |-> col]
    BY <1>2, <2>1, <2>2, <2>5 DEF PageByPlace
  <2>7. Now' = [lines |-> PageOf(screen', gone', row'), at |-> col']
    BY <1>3, <2>1, <2>4, Zenon DEF PageByPlace
  <2> QED
    BY <2>1, <2>2, <2>4, <2>6, <2>7
<1>10. CASE FetchControl
  <2>1. /\ pc = "char" /\ text # <<>> /\ text' = Tail(text) /\ UNCHANGED <<screen, row, gone, i, x, y, reg>>
        /\ \/ Head(text) = "\n" /\ pc' = "newline" /\ col' = col
           \/ Head(text) = "\r" /\ pc' = "char" /\ col' = 0
    BY <1>10 DEF FetchControl, Goto
  <2>2. Steady'
    BY <1>1, <2>1 DEF Steady
  <2>3. Now = [lines |-> P, at |-> col]
    BY <1>2, <2>1, Zenon DEF PageByPlace
  <2>4. CASE Head(text) = "\n"
    <3>1. pc' = "newline"
      BY <2>1, <2>4
    <3>2. Now' = [lines |-> Append(PageOf(screen', gone', row'), Blank), at |-> 0]
      BY <1>3, <2>2, <3>1, Zenon DEF PageByPlace
    <3>3. Now' = [lines |-> Append(P, Blank), at |-> 0]
      BY <2>1, <3>2
    <3> HIDE DEF P
    <3>4. Now' = Page!Typed(Now, Head(text))
      BY <2>3, <2>4, <3>3, TypedIs
    <3> QED
      BY <1>7, <2>1, <2>2, <2>4, <3>4 DEF Types
  <2>5. CASE Head(text) = "\r"
    <3>1. pc' = "char" /\ col' = 0
      BY <2>1, <2>5
    <3>2. Now' = [lines |-> PageOf(screen', gone', row'), at |-> col']
      BY <1>3, <2>2, <3>1, Zenon DEF PageByPlace
    <3>3. Now' = [lines |-> P, at |-> 0]
      BY <2>1, <3>1, <3>2
    <3> HIDE DEF P
    <3>4. Now' = Page!Typed(Now, Head(text))
      BY <2>3, <2>5, <3>3, TypedIs
    <3> QED
      BY <1>7, <2>1, <2>2, <2>5, <3>4 DEF Types
  <2> QED
    BY <2>1, <2>4, <2>5
<1>11. CASE Fetch
  <2>1. /\ pc = "char" /\ text # <<>> /\ pc' = "put" /\ x' = col /\ y' = row
        /\ UNCHANGED <<screen, row, col, gone, text, i, reg>>
    BY <1>11 DEF Fetch, Goto, display
  <2>2. Steady'
    BY <1>1, <2>1 DEF Steady
  <2>3. Now = [lines |-> PageOf(screen, gone, row), at |-> col]
    BY <1>2, <2>1, Zenon DEF PageByPlace
  <2>4. Now' = [lines |-> PageOf(screen', gone', row'), at |-> col']
    BY <1>3, <2>1, <2>2, Zenon DEF PageByPlace
  <2> QED
    BY <2>1, <2>2, <2>3, <2>4
<1>12. CASE Put
  <2>1. /\ pc = "put" /\ screen' = put_char(screen, x, y, Head(text)) /\ text' = Tail(text) /\ pc' = "load_col"
        /\ UNCHANGED <<row, col, gone, i, x, y, reg>> /\ x = col /\ y = row
    BY <1>12 DEF Put, Goto, Steady
  <2>2. text # <<>> /\ Head(text) \notin {"\n", "\r"}
    BY <1>7, <2>1 DEF ScreenInv, Texts
  <2> DEFINE t == put_char(screen, col, row, Head(text))
  <2>3. Proper(t, gone, row) /\ PageOf(t, gone, row) = [P EXCEPT ![Len(P)][col] = Head(text)]
    BY <1>4, <1>5, <1>6, <1>7, <2>1, <2>2, PagePut
  <2>4. screen' = t
    BY <2>1
  <2> HIDE DEF t
  <2>5. Steady'
    BY <1>1, <2>1, <2>3, <2>4 DEF Steady
  <2>6. Now = [lines |-> P, at |-> col]
    BY <1>2, <2>1, Zenon DEF PageByPlace
  <2>7. Now' = [lines |-> PageOf(screen', gone', row'), at |-> col' + 1]
    BY <1>3, <2>1, <2>5, Zenon DEF PageByPlace
  <2> HIDE DEF P
  <2>8. Now' = [lines |-> [P EXCEPT ![Len(P)][col] = Head(text)], at |-> col + 1]
    BY <2>1, <2>3, <2>4, <2>7
  <2>9. col # VGA_WIDTH - 1
    BY <1>5, <2>1
  <2>10. Now' = Page!Typed(Now, Head(text))
    <3>1. PICK c : c = col
      OBVIOUS
    <3>2. PICK chr : chr = Head(text)
      OBVIOUS
    <3>3. /\ Now = [lines |-> P, at |-> c] /\ chr \notin {"\n", "\r"} /\ c # VGA_WIDTH - 1
          /\ Now' = [lines |-> [P EXCEPT ![Len(P)][c] = chr], at |-> c + 1]
      BY <2>2, <2>6, <2>8, <2>9, <3>1, <3>2
    <3>4. Page!Typed([lines |-> P, at |-> c], chr) = [lines |-> [P EXCEPT ![Len(P)][c] = chr], at |-> c + 1]
      BY <3>3 DEF Page!Typed
    <3>5. Now' = Page!Typed(Now, chr)
      BY <3>3, <3>4, Zenon
    <3> QED
      BY <3>2, <3>5
  <2>11. Now.at + 1 < VGA_WIDTH
    BY <1>5, <2>1, <2>6
  <2> QED
    BY <1>7, <2>1, <2>2, <2>5, <2>10, <2>11 DEF Types
<1>13. CASE LoadCol
  <2>1. /\ pc = "load_col" /\ pc' = "store_col" /\ reg' = col
        /\ UNCHANGED <<screen, row, col, gone, text, i, x, y>>
    BY <1>13 DEF LoadCol, Goto, display
  <2>2. Steady'
    BY <1>1, <2>1 DEF Steady
  <2>3. Now = [lines |-> PageOf(screen, gone, row), at |-> col + 1]
    BY <1>2, <2>1, Zenon DEF PageByPlace
  <2>4. Now' = [lines |-> PageOf(screen', gone', row'), at |-> col' + 1]
    BY <1>3, <2>1, <2>2, Zenon DEF PageByPlace
  <2> QED
    BY <2>1, <2>2, <2>3, <2>4
<1>14. CASE StoreCol
  <2>1. /\ pc = "store_col" /\ col' = reg + 1 /\ pc' = (IF reg + 1 >= VGA_WIDTH THEN "newline" ELSE "char")
        /\ UNCHANGED <<screen, row, gone, text, i, x, y, reg>> /\ reg = col
    BY <1>14 DEF StoreCol, Goto, Steady
  <2>2. pc' = "char" /\ col' = col + 1
    BY <1>5, <2>1
  <2>3. Steady'
    BY <1>1, <2>1, <2>2 DEF Steady
  <2>4. Now = [lines |-> PageOf(screen, gone, row), at |-> col + 1]
    BY <1>2, <2>1, Zenon DEF PageByPlace
  <2>5. Now' = [lines |-> PageOf(screen', gone', row'), at |-> col']
    BY <1>3, <2>2, <2>3, Zenon DEF PageByPlace
  <2> QED
    BY <2>1, <2>2, <2>3, <2>4, <2>5
<1>15. CASE ResetCol \/ LoadRow
  <2>1. /\ pc \in {"newline", "load_row"} /\ pc' \in {"load_row", "store_row"}
        /\ UNCHANGED <<screen, row, gone, text, i>> /\ col' = 0 /\ (pc' = "store_row" => reg' = row)
    BY <1>15 DEF ResetCol, LoadRow, Goto, display, Steady
  <2>2. Steady'
    BY <1>1, <2>1 DEF Steady
  <2>3. Now = [lines |-> Append(PageOf(screen, gone, row), Blank), at |-> 0]
    BY <1>2, <2>1, Zenon DEF PageByPlace
  <2>4. Now' = [lines |-> Append(PageOf(screen', gone', row'), Blank), at |-> 0]
    BY <1>3, <2>1, <2>2, Zenon DEF PageByPlace
  <2> QED
    BY <2>1, <2>2, <2>3, <2>4
<1>16. CASE StoreRow
  <2>1. /\ pc = "store_row" /\ row' = row + 1 /\ pc' = "char" /\ col = 0
        /\ UNCHANGED <<screen, col, gone, text, i, x, y, reg>>
    BY <1>16 DEF StoreRow, Goto, Steady
  <2>2. Proper(screen, gone, row + 1) /\ PageOf(screen, gone, row + 1) = Append(P, Blank)
    BY <1>4, <1>6, <2>1, PageNewLine
  <2>3. Steady'
    BY <1>1, <2>1, <2>2 DEF Steady
  <2>4. Now = [lines |-> Append(P, Blank), at |-> 0]
    BY <1>2, <2>1, Zenon DEF PageByPlace
  <2>5. Now' = [lines |-> PageOf(screen', gone', row'), at |-> col']
    BY <1>3, <2>1, <2>3, Zenon DEF PageByPlace
  <2> HIDE DEF P
  <2> QED
    BY <2>1, <2>2, <2>3, <2>4, <2>5
<1>17. CASE Return
  <2>1. /\ pc = "char" /\ pc' = "idle" /\ UNCHANGED <<screen, row, col, gone, text, i>>
    BY <1>17 DEF Return, Goto, display
  <2>2. Steady'
    BY <1>1, <2>1 DEF Steady
  <2>3. Now = [lines |-> PageOf(screen, gone, row), at |-> col]
    BY <1>2, <2>1, Zenon DEF PageByPlace
  <2>4. Now' = [lines |-> PageOf(screen', gone', row'), at |-> col']
    BY <1>3, <2>1, <2>2, Zenon DEF PageByPlace
  <2> QED
    BY <2>1, <2>2, <2>3, <2>4
<1> QED
  BY <1>8, <1>9, <1>10, <1>11, <1>12, <1>13, <1>14, <1>15, <1>16, <1>17 DEF PrintStep

\* A call begins.
LEMMA CallOnPage ==
    ASSUME TextsFit, ScreenInv, ScreenInv', Steady, PrintText
    PROVE  Steady' /\ Now' = Now
<1>1. /\ pc = "idle" /\ pc' = (IF row = VGA_HEIGHT THEN "scroll" ELSE "char")
      /\ UNCHANGED <<screen, row, col, gone, i, x, y, reg, torn>>
  BY DEF PrintText, Call, Goto, check_screen_overflow, display
<1>2. Steady' /\ i = 0 /\ i' = 0
  BY <1>1 DEF Steady
<1>3. PageByPlace /\ PageByPlace'
  <2>1. (TextsFit /\ ScreenInv /\ Steady => PageByPlace)'
    BY PageIs, PTL
  <2>2. TextsFit'
    BY DEF TextsFit
  <2> QED
    BY <1>2, <2>1, <2>2, PageIs
<1>4. Now = [lines |-> PageOf(screen, gone, row), at |-> col]
  BY <1>1, <1>3, Zenon DEF PageByPlace
<1>5. CASE row = VGA_HEIGHT
  <2>1. Now' = [lines |-> PageOf(screen', gone', VGA_HEIGHT), at |-> col']
    BY <1>1, <1>2, <1>3, <1>5, Zenon DEF PageByPlace
  <2> QED
    BY <1>1, <1>2, <1>4, <1>5, <2>1
<1>6. CASE row # VGA_HEIGHT
  <2>1. Now' = [lines |-> PageOf(screen', gone', row'), at |-> col']
    BY <1>1, <1>3, <1>2, <1>6, Zenon DEF PageByPlace
  <2> QED
    BY <1>1, <1>2, <1>4, <2>1
<1> QED
  BY <1>5, <1>6

\* The handler prints its line between two calls.
LEMMA HandlerOnPage ==
    ASSUME TextsFit, ScreenInv, ScreenInv', Steady, interrupts, PrintInHandler(KeyText), ~mixed'
    PROVE  Steady' /\ Now' = Page!After(Now, KeyText)
<1> DEFINE d == Display(screen, row, col, gone)
           e == printc(d, KeyText)
<1>1. /\ screen' = e.screen /\ row' = e.row /\ col' = e.col /\ gone' = e.gone
      /\ UNCHANGED <<pc, text, i, x, y, reg>> /\ pc = "idle" /\ pc' = "idle" /\ ~torn'
  BY DEF PrintInHandler, call, Steady
<1>2. d.screen = screen /\ d.row = row /\ d.col = col /\ d.gone = gone
  BY DEF Display
<1>3. col \in Nat /\ col + Len(KeyText) <= VGA_WIDTH
  <2>1. text \in Seq(Chars) /\ Fits(text, col) /\ col \in Nat
    BY Zenon DEF ScreenInv, Texts, Columns
  <2>2. Limit = Shared
    BY DEF Limit
  <2> QED
    BY <2>1, <2>2, FitsBelow, Widths
<1> HIDE DEF d, e
<1>4. Proper(e.screen, e.gone, e.row) /\ Document(e) = Page!After(Document(d), KeyText)
  <2>1. Proper(d.screen, d.gone, d.row)
    BY <1>2 DEF Steady
  <2>2. LineWithin(KeyText, VGA_WIDTH)
    BY Zenon DEF TextsFit
  <2> QED
    BY <1>2, <1>3, <2>1, <2>2, KeyTextOnPage DEF e
<1>5. Steady'
  BY <1>1, <1>4 DEF Steady
<1>6. PageByPlace /\ PageByPlace'
  <2>1. (TextsFit /\ ScreenInv /\ Steady => PageByPlace)'
    BY PageIs, PTL
  <2>2. TextsFit'
    BY DEF TextsFit
  <2> QED
    BY <1>5, <2>1, <2>2, PageIs
<1>7. Now = Document(d)
  <2>1. Now = [lines |-> PageOf(screen, gone, row), at |-> col]
    BY <1>1, <1>6, Zenon DEF PageByPlace
  <2> QED
    BY <1>2, <2>1 DEF Document
<1>8. Now' = Document(e)
  <2>1. Now' = [lines |-> PageOf(screen', gone', row'), at |-> col']
    BY <1>1, <1>6, Zenon DEF PageByPlace
  <2> QED
    BY <1>1, <2>1 DEF Document
<1> QED
  BY <1>4, <1>5, <1>7, <1>8

\* The screen is cleared.
LEMMA ClearOnPage ==
    ASSUME TextsFit, ScreenInv', Unstarted, ClearScreen
    PROVE  Steady' /\ Now' = [lines |-> <<Blank>>, at |-> 0]
<1>1. /\ screen' = [n \in MemoryRows |-> IF n < VGA_HEIGHT THEN Blank ELSE screen[n]]
      /\ row' = 0 /\ col' = 0 /\ gone' = <<>> /\ pc' = "idle" /\ i' = 0 /\ ~torn'
      /\ screen \in [MemoryRows -> Cells]
  BY DEF ClearScreen, clear, call, Unstarted
<1>2. VGA_HEIGHT \in Nat \ {0, 1} /\ 0 \in MemoryRows /\ 0 \in 0..VGA_HEIGHT
  BY Rooms
<1>3. Proper(screen', <<>>, 0)
  <2>1. screen' \in [MemoryRows -> Cells]
    BY <1>1, Rooms
  <2>2. \A n \in MemoryRows : n < VGA_HEIGHT => screen'[n] = Blank
    BY <1>1
  <2> QED
    BY <1>2, <2>1, <2>2 DEF Proper
<1>4. Steady'
  BY <1>1, <1>2, <1>3 DEF Steady
<1>5. PageByPlace'
  <2>1. (TextsFit /\ ScreenInv /\ Steady => PageByPlace)'
    BY PageIs, PTL
  <2>2. TextsFit'
    BY DEF TextsFit
  <2> QED
    BY <1>4, <2>1, <2>2
<1>6. Now' = [lines |-> PageOf(screen', <<>>, 0), at |-> 0]
  <2>1. Now' = [lines |-> PageOf(screen', gone', row'), at |-> col']
    BY <1>1, <1>5, Zenon DEF PageByPlace
  <2> QED
    BY <1>1, <2>1
<1>7. PageOf(screen', <<>>, 0) = <<Blank>>
  <2>1. PICK s : s = screen'
    OBVIOUS
  <2>2. PICK g : g = <<>>
    OBVIOUS
  <2>3. PICK r : r = 0
    OBVIOUS
  <2> DEFINE P == PageOf(s, g, r)
  <2>4. Proper(s, g, r)
    BY <1>3, <2>1, <2>2, <2>3
  <2>5. /\ P \in Seq(Cells) /\ Len(P) = Len(g) + r + 1
        /\ \A n \in 1..(Len(g) + r + 1) : P[n] = IF n <= Len(g) THEN g[n] ELSE Shown(s, n - Len(g) - 1)
    BY <2>4, PageLinesOf
  <2>6. Shown(s, 0) = Blank
    BY <1>1, <1>2, <2>1 DEF Shown
  <2> HIDE DEF P
  <2>7. Len(P) = 1 /\ P[1] = Blank
    BY <2>2, <2>3, <2>5, <2>6
  <2>8. P = <<Blank>>
    <3>1. PICK q : q = <<Blank>>
      OBVIOUS
    <3>2. q \in Seq(Cells) /\ Len(q) = 1 /\ q[1] = Blank
      BY <3>1, Rooms
    <3>3. \A n \in 1..Len(P) : P[n] = q[n]
      <4>1. \A n \in 1..Len(P) : n = 1
        BY <2>7
      <4> QED
        BY <2>7, <3>2, <4>1
    <3>4. P = q
      BY <2>5, <2>7, <3>2, <3>3, SeqEqual
    <3> QED
      BY <3>1, <3>4
  <2> QED
    BY <2>1, <2>2, <2>3, <2>8 DEF P
<1> QED
  BY <1>4, <1>6, <1>7

\* A text that appears on the page is a step of the terminal.
LEMMA WrittenOnPage ==
    ASSUME NEW s \in {KeyText} \cup {<<c>> : c \in Chars}, Now' = Page!After(Now, s)
    PROVE  Page!TermNext
<1>1. PageLines' = Page!After(Now, s).lines /\ (IF OnNewLine THEN 0 ELSE TypedCol)' = Page!After(Now, s).at
  BY DEF Now
<1>2. Page!Write(s)
  BY <1>1 DEF Page!Write, Now
<1> QED
  BY <1>2 DEF Page!TermNext

\* One character is a text.
LEMMA OneChar ==
    ASSUME NEW p, NEW c \in Chars
    PROVE  Page!After(p, <<c>>) = Page!Typed(p, c)
<1> DEFINE w == [n \in 0..1 |-> IF n = 0 THEN p ELSE Page!Typed(p, c)]
           s == <<c>>
<1>1. s \in Seq(Chars) /\ Len(s) = 1 /\ s[1] = c
  OBVIOUS
<1>2. w[0] = p /\ w[1] = Page!Typed(p, c)
  OBVIOUS
<1> HIDE DEF w, s
<1>3. \A n \in 1..Len(s) : w[n] = Page!Typed(w[n - 1], s[n])
  <2>1. \A n \in 1..Len(s) : n = 1
    BY <1>1
  <2> QED
    BY <1>1, <1>2, <2>1
<1>4. Page!After(w[0], s) = w[Len(s)]
  BY <1>1, <1>3, AfterIs
<1> QED
  BY <1>1, <1>2, <1>4 DEF s

\* The first state.
LEMMA InitPage == Init => PageInv
<1> SUFFICES ASSUME Init
             PROVE  PageInv
  OBVIOUS
<1>1. /\ screen = [n \in MemoryRows |-> [c \in 0..(VGA_WIDTH - 1) |-> "?"]] /\ gone = <<>> /\ pc = "idle" /\ i = 0
      /\ mixed = FALSE /\ torn = FALSE /\ at = "_start" /\ todo = <<>> /\ up = {}
  BY Zenon DEF Init, ConsoleInit
<1>2. screen \in [MemoryRows -> Cells]
  <2>1. [c \in 0..(VGA_WIDTH - 1) |-> "?"] \in Cells
    BY DEF Cells
  <2> QED
    BY <1>1, <2>1
<1> QED
  BY <1>1, <1>2 DEF PageInv, Unstarted

\* A step that leaves the page and its place in the program as they are.
LEMMA PageStays ==
    ASSUME PageInv, UNCHANGED <<consoleVars, at, todo, up>>
    PROVE  PageInv' /\ Now' = Now
<1>1. /\ UNCHANGED <<screen, row, col, gone, pc, text, i, x, y, reg, mixed, torn, at, todo, up>>
  BY DEF consoleVars, display, call
<1>2. Steady' = Steady /\ Unstarted' = Unstarted
  BY <1>1 DEF Steady, Unstarted, Proper
<1>3. Now' = Now
  BY <1>1 DEF Now, PageLines, ScrolledLines, Visible, RowShown, OnNewLine, TypedCol
<1> QED
  BY <1>1, <1>2, <1>3 DEF PageInv

\* A step of the boot or a step behind it prints nothing itself.
LEMMA StepOnPage ==
    ASSUME PageInv, UNCHANGED consoleVars,
           \/ "console" \in up /\ up \subseteq up' /\ at' \notin {"_start", "clear"}
           \/ at' = "clear" /\ up' = up /\ todo' = <<>> /\ "console" \notin up
    PROVE  PageInv' /\ Now' = Now
<1>1. UNCHANGED <<screen, row, col, gone, pc, text, i, x, y, reg, mixed, torn>>
  BY DEF consoleVars, display, call
<1>2. Steady' = Steady
  BY <1>1 DEF Steady, Proper
<1>3. Now' = Now
  BY <1>1 DEF Now, PageLines, ScrolledLines, Visible, RowShown, OnNewLine, TypedCol
<1>4. CASE "console" \in up
  BY <1>1, <1>2, <1>3, <1>4 DEF PageInv
<1>5. CASE "console" \notin up
  BY <1>1, <1>3, <1>5 DEF PageInv, Unstarted
<1> QED
  BY <1>4, <1>5

\* What is up when interrupts are on.
LEMMA UpWithInterrupts == IInv /\ interrupts => "console" \in up /\ at \notin {"_start", "clear"}
<1> SUFFICES ASSUME IInv, interrupts
             PROVE  "console" \in up /\ at \notin {"_start", "clear"}
  OBVIOUS
<1>1. at \in {"loop", "halted"}
  BY Zenon DEF IInv, Ordered
<1>2. Brought(at) \subseteq up
  BY Zenon DEF IInv, Ordered
<1>3. Brought("loop") = {"console", "gdt", "heap", "idt", "paging"}
  BY DEF Brought
<1>4. Brought("halted") = {"console", "gdt", "heap", "idt", "paging"}
  BY DEF Brought
<1>5. "console" \in Brought(at)
  BY <1>1, <1>3, <1>4
<1> QED
  BY <1>1, <1>2, <1>5

\* What a step does to the page.
Pages ==
    /\ ClearScreen => Now' = [lines |-> <<Blank>>, at |-> 0]
    /\ "console" \in up /\ ~mixed' =>
          Now' = Now \/ \E s \in {KeyText} \cup {<<c>> : c \in Chars} : Now' = Page!After(Now, s)

\* Every step keeps what is known of the page, and writes on it what it should.
LEMMA NextPage ==
    TextsFit /\ IInv /\ ScreenInv /\ ScreenInv' /\ PageInv /\ [Next]_vars => PageInv' /\ Pages
<1> SUFFICES ASSUME TextsFit, IInv, ScreenInv, ScreenInv', PageInv, [Next]_vars
             PROVE  PageInv' /\ Pages
  OBVIOUS
<1>1. CASE PrintText \/ GoOnPrinting
  <2>1. /\ UNCHANGED <<at, up, mixed>> /\ ~ClearScreen
        /\ (pc # "idle" \/ todo # <<>>)
    <3>1. CASE PrintText
      BY <3>1 DEF PrintText, ClearScreen, Step
    <3>2. CASE GoOnPrinting
      <4>1. pc # "idle"
        BY <3>2 DEF GoOnPrinting, PrintStep, ScrollRow, EndScroll, FetchControl, Fetch, Put, LoadCol, StoreCol,
           ResetCol, LoadRow, StoreRow, Return
      <4> QED
        BY <3>2, <4>1 DEF GoOnPrinting, PrintStep, ClearScreen, Step
    <3> QED
      BY <1>1, <3>1, <3>2
  <2>2. "console" \in up /\ at \notin {"_start", "clear"}
    BY <2>1 DEF PageInv, Unstarted
  <2>3. CASE mixed
    BY <2>1, <2>2, <2>3 DEF PageInv, Pages
  <2>4. CASE ~mixed
    <3>1. Steady
      BY <2>2, <2>4 DEF PageInv
    <3>2. Steady' /\ (Now' = Now \/ Types)
      BY <1>1, <3>1, CallOnPage, PrintStepOnPage DEF GoOnPrinting
    <3>3. Types => \E s \in {KeyText} \cup {<<c>> : c \in Chars} : Now' = Page!After(Now, s)
      <4> SUFFICES ASSUME Types
                   PROVE  \E s \in {KeyText} \cup {<<c>> : c \in Chars} : Now' = Page!After(Now, s)
        OBVIOUS
      <4>1. PICK c \in Chars : Now' = Page!Typed(Now, c)
        BY Zenon DEF Types
      <4>2. Now' = Page!After(Now, <<c>>)
        BY <4>1, OneChar, Zenon
      <4> QED
        BY <4>2
    <3> QED
      BY <2>1, <2>2, <3>1, <3>2, <3>3, Zenon DEF PageInv, Pages
  <2> QED
    BY <2>3, <2>4
<1>2. CASE _start
  <2>1. at = "_start" /\ at' = "clear" /\ todo' = <<>> /\ UNCHANGED <<consoleVars, up>> /\ "console" \notin up
    BY <1>2 DEF _start, Step, PageInv
  <2> QED
    BY <2>1, StepOnPage DEF Pages, ClearScreen, Step
<1>3. CASE ClearScreen
  <2>1. Unstarted /\ ~mixed /\ "console" \notin up
    BY <1>3 DEF PageInv, ClearScreen, Step
  <2>2. Steady' /\ Now' = [lines |-> <<Blank>>, at |-> 0]
    BY <1>3, <2>1, ClearOnPage
  <2>3. "console" \in up' /\ at' = "gdt"
    BY <1>3 DEF ClearScreen, Step, Brings
  <2> QED
    BY <2>1, <2>2, <2>3 DEF PageInv, Pages
<1>4. CASE \/ gdt_load \/ kheap_init \/ fs_init \/ disks_init \/ check_fs \/ idt_init \/ tss_load
           \/ paging_new_4gb \/ page_switch \/ enable_paging \/ sti \/ NumberedLine \/ LastTexts \/ panic
  <2>1. /\ UNCHANGED consoleVars /\ up \subseteq up' /\ at \notin {"_start", "clear"} /\ at' \notin {"_start", "clear"}
    BY <1>4, Zenon DEF gdt_load, kheap_init, fs_init, disks_init, check_fs, idt_init, tss_load, paging_new_4gb,
       page_switch, enable_paging, sti, NumberedLine, LastTexts, panic, Step, Brings
  <2>2. "console" \in up /\ ~ClearScreen
    BY <2>1 DEF PageInv, Unstarted, ClearScreen, Step
  <2> QED
    BY <2>1, <2>2, StepOnPage DEF Pages
<1>5. CASE \E n \in Lines : Raise(n)
  <2>1. UNCHANGED <<consoleVars, at, todo, up>>
    BY <1>5, Zenon DEF Raise
  <2>2. ~ClearScreen
    BY <2>1 DEF ClearScreen, Step
  <2> QED
    BY <2>1, <2>2, PageStays DEF Pages
<1>6. CASE \E n \in irr : Accept(n)
  <2>1. interrupts /\ UNCHANGED <<at, todo, up>> /\ (PrintInHandler(KeyText) \/ UNCHANGED consoleVars)
    BY <1>6, Zenon DEF Accept
  <2>2. ~ClearScreen
    BY <2>1 DEF ClearScreen, Step
  <2>3. CASE UNCHANGED consoleVars
    BY <2>1, <2>2, <2>3, PageStays DEF Pages
  <2>4. CASE PrintInHandler(KeyText)
    <3>1. "console" \in up /\ at \notin {"_start", "clear"}
      BY <2>1, UpWithInterrupts
    <3>2. CASE mixed'
      BY <2>1, <2>2, <3>1, <3>2 DEF PageInv, Pages
    <3>3. CASE ~mixed'
      <4>1. ~mixed
        BY <2>4, <3>3 DEF PrintInHandler
      <4>2. Steady
        BY <3>1, <4>1 DEF PageInv
      <4>3. Steady' /\ Now' = Page!After(Now, KeyText)
        BY <2>1, <2>4, <3>3, <4>2, HandlerOnPage
      <4> QED
        BY <2>1, <2>2, <3>1, <4>3, Zenon DEF PageInv, Pages
    <3> QED
      BY <3>2, <3>3
  <2> QED
    BY <2>1, <2>3, <2>4
<1>7. CASE UNCHANGED vars
  <2>1. UNCHANGED <<consoleVars, at, todo, up>>
    BY <1>7, Zenon DEF vars
  <2>2. ~ClearScreen
    BY <2>1 DEF ClearScreen, Step
  <2> QED
    BY <2>1, <2>2, PageStays DEF Pages
<1> QED
  BY <1>1, <1>2, <1>3, <1>4, <1>5, <1>6, <1>7, Zenon DEF Next, MainLine

\* What ShowsPage says of a step.
PageStep ==
    /\ ClearScreen => Page!TermInit'
    /\ "console" \in up /\ ~mixed' => Page!TermNext \/ UNCHANGED Page!page

LEMMA PagesAreSteps == Pages => PageStep
<1> SUFFICES ASSUME Pages
             PROVE  PageStep
  OBVIOUS
<1>1. ASSUME NEW P, NEW c, Now' = [lines |-> P, at |-> c]
      PROVE  PageLines' = P /\ (IF OnNewLine THEN 0 ELSE TypedCol)' = c
  BY <1>1 DEF Now
<1>2. ClearScreen => Page!TermInit'
  <2>1. Page!Blank = Blank
    BY DEF Page!Blank, Blank
  <2>2. ClearScreen => PageLines' = <<Blank>> /\ (IF OnNewLine THEN 0 ELSE TypedCol)' = 0
    BY <1>1 DEF Pages
  <2> QED
    BY <2>1, <2>2 DEF Page!TermInit
<1>3. Now' = Now => UNCHANGED Page!page
  BY DEF Now, Page!page
<1>4. "console" \in up /\ ~mixed' => Page!TermNext \/ UNCHANGED Page!page
  BY <1>3, WrittenOnPage, Zenon DEF Pages
<1> QED
  BY <1>2, <1>4 DEF PageStep

\* From clear() on, and until an interrupt prints in a running call, every step of
\* print_char, of put_char, of the scroll and of the keyboard handler (vgaio.c,
\* idt.c) leaves the endless page as it is or writes one text on it as a terminal would.
THEOREM ScreenShowsPage == Spec => ShowsPage
<1>1. Init => ScreenInv /\ Counting /\ PageInv
  BY InitScreen, InitPage, ScreenAssumption
<1>2. IInv /\ ScreenInv /\ Counting /\ PageInv /\ [Next]_vars => ScreenInv' /\ Counting' /\ PageInv' /\ PageStep
  BY NextScreen, NextPage, PagesAreSteps, ScreenAssumption, Zenon
<1> QED
  BY <1>1, <1>2, BootInvariant, PTL DEF Spec, ShowsPage, PageStep

-----------------------------------------------------------------------------
(* The numbers of inttostr.                                                *)

\* There are at least two digits, and a digit is known by its character.
LEMMA DigitsAre ==
    /\ Digits \in Seq(ToSet(Digits)) /\ Len(Digits) \in Nat \ {0, 1}
    /\ \A k \in 1..Len(Digits) : Digits[k] \in ToSet(Digits) /\ DigitOf(Digits[k]) = k - 1
    /\ Head(Digits) = Digits[1]
<1>1. /\ Digits \in Seq(STRING) /\ Len(Digits) \in Nat \ {0, 1} /\ DOMAIN Digits = 1..Len(Digits)
      /\ \A j, k \in DOMAIN Digits : Digits[j] = Digits[k] => j = k
  BY DigitsAssumption DEF IsInjective
<1>2. ASSUME NEW k \in 1..Len(Digits)
      PROVE  Digits[k] \in ToSet(Digits) /\ DigitOf(Digits[k]) = k - 1
  <2>1. (CHOOSE j \in DOMAIN Digits : Digits[j] = Digits[k]) = k
    BY <1>1
  <2> QED
    BY <1>1, <2>1 DEF ToSet, DigitOf
<1>3. Digits \in [1..Len(Digits) -> ToSet(Digits)]
  BY <1>1, <1>2
<1>4. Digits \in Seq(ToSet(Digits))
  BY <1>1, <1>3
<1> QED
  BY <1>1, <1>2, <1>4

\* The digit that the loop finds for m, and what it goes on with.
Lowest(m) == Digits[(m % Len(Digits)) + 1]
Rest(m) == m \div Len(Digits)

LEMMA LowestIs ==
    ASSUME NEW m \in Nat
    PROVE  /\ Lowest(m) \in ToSet(Digits) /\ Rest(m) \in Nat /\ (m # 0 => Rest(m) < m)
           /\ m = Rest(m) * Len(Digits) + DigitOf(Lowest(m))
<1> DEFINE D == Len(Digits)
           q == m \div D
           r == m % D
<1>1. D \in Nat \ {0, 1} /\ \A k \in 1..D : Digits[k] \in ToSet(Digits) /\ DigitOf(Digits[k]) = k - 1
  BY DigitsAre
<1> HIDE DEF D
<1>2. q \in Nat /\ r \in 0..(D - 1) /\ m = D * q + r
  BY <1>1, QuotientRemainder
<1>3. r + 1 \in 1..D /\ (r + 1) - 1 = r
  BY <1>1, <1>2
<1>4. Lowest(m) \in ToSet(Digits) /\ DigitOf(Lowest(m)) = r
  <2>1. Lowest(m) = Digits[r + 1]
    BY DEF Lowest, D
  <2> QED
    BY <1>1, <1>3, <2>1
<1>5. Rest(m) = q
  BY DEF Rest, D
<1> HIDE DEF q, r
<1>6. q * D = D * q /\ D * q \in Nat
  BY <1>1, <1>2, SMTT(20)
<1>7. m # 0 => q < m
  <2> SUFFICES ASSUME m # 0
               PROVE  q < m
    OBVIOUS
  <2>1. CASE q = 0
    BY <2>1
  <2>2. CASE q # 0
    <3>1. D * q >= 2 * q
      BY <1>1, <1>2, SMTT(20)
    <3> DEFINE e == D * q
    <3>2. e \in Nat /\ e >= 2 * q /\ m = e + r
      BY <1>2, <1>6, <3>1
    <3> HIDE DEF e
    <3>3. q >= 1 /\ r >= 0
      BY <1>2, <2>2, <1>1
    <3> QED
      BY <1>2, <3>2, <3>3
  <2> QED
    BY <2>1, <2>2
<1>8. m = q * D + r
  BY <1>2, <1>6
<1> QED
  BY <1>2, <1>4, <1>5, <1>7, <1>8 DEF D

\* The loop of inttostr.
LEMMA LowestFirstIs ==
    /\ LowestFirst(0, Digits) = <<>>
    /\ \A m \in Nat \ {0} : LowestFirst(m, Digits) = <<Lowest(m)>> \o LowestFirst(Rest(m), Digits)
<1> DEFINE S == ToSet(Digits)
           V == [Nat -> Seq(S)]
           none == [m \in Nat |-> <<>>]
           Val(t, m) == IF m = 0 THEN <<>> ELSE <<Lowest(m)>> \o t[Rest(m)]
           step == [p \in Nat \X V |-> [m \in Nat |-> Val(p[2], m)]]
<1>1. none \in V
  OBVIOUS
<1>2. ASSUME NEW t \in V, NEW m \in Nat
      PROVE  Val(t, m) \in Seq(S)
  <2>1. Lowest(m) \in S /\ Rest(m) \in Nat
    BY LowestIs
  <2>2. t[Rest(m)] \in Seq(S)
    BY <2>1
  <2> QED
    BY <2>1, <2>2
<1>3. step \in [Nat \X V -> V] /\ \A k \in Nat, t \in V : step[<<k, t>>] = [m \in Nat |-> Val(t, m)]
  <2> HIDE DEF Val
  <2>1. \A t \in V : [m \in Nat |-> Val(t, m)] \in V
    BY <1>2
  <2> HIDE DEF V
  <2> QED
    BY <2>1
<1> HIDE DEF V, step, none
<1>4. PICK h : Recursion(h, V, none, step)
  BY ONLY <1>1, <1>3, RecursiveFunction
<1> HIDE DEF Val
<1>5. /\ \A k \in Nat : h[k] \in V /\ h[k] = [m \in Nat |-> h[k][m]]
      /\ \A m \in Nat : h[0][m] = <<>>
      /\ \A k \in Nat, m \in Nat : h[k + 1][m] = Val(h[k], m)
  <2>1. h \in [Nat -> V] /\ h[0] = none /\ \A k \in Nat \ {0} : h[k] = step[<<k, h[k - 1]>>]
    BY <1>4 DEF Recursion
  <2>2. \A k \in Nat : h[k] \in V /\ h[k] = [m \in Nat |-> h[k][m]]
    <3>1. \A t \in V : t = [m \in Nat |-> t[m]]
      BY DEF V
    <3> QED
      BY <2>1, <3>1
  <2>3. \A m \in Nat : h[0][m] = <<>>
    BY <2>1 DEF none
  <2>4. ASSUME NEW k \in Nat, NEW m \in Nat
        PROVE  h[k + 1][m] = Val(h[k], m)
    <3>1. k + 1 \in Nat \ {0} /\ (k + 1) - 1 = k
      OBVIOUS
    <3>2. h[k + 1] = step[<<k + 1, h[k]>>] /\ h[k] \in V
      BY <2>1, <3>1
    <3>3. h[k + 1] = [l \in Nat |-> Val(h[k], l)]
      BY <1>3, <3>1, <3>2
    <3> QED
      BY <3>3
  <2> QED
    BY <2>2, <2>3, <2>4
<1> DEFINE Settled == {k \in Nat : \A m \in 0..k : h[k + 1][m] = h[k][m]}
<1>6. Settled = Nat
  <2>1. 0 \in Settled
    <3>1. \A m \in 0..0 : m = 0 /\ m \in Nat
      OBVIOUS
    <3>2. Val(h[0], 0) = <<>>
      BY DEF Val
    <3>3. h[0 + 1][0] = <<>> /\ h[0][0] = <<>>
      BY <1>5, <3>2
    <3> QED
      BY <3>1, <3>3
  <2>2. ASSUME NEW k \in Settled
        PROVE  k + 1 \in Settled
    <3>1. k \in Nat /\ k + 1 \in Nat
      OBVIOUS
    <3>2. ASSUME NEW m \in 0..(k + 1)
          PROVE  h[(k + 1) + 1][m] = h[k + 1][m]
      <4>1. m \in Nat /\ Rest(m) \in Nat /\ (m # 0 => Rest(m) \in 0..k)
        BY <3>1, LowestIs
      <4>2. h[(k + 1) + 1][m] = Val(h[k + 1], m) /\ h[k + 1][m] = Val(h[k], m)
        BY <1>5, <3>1, <4>1
      <4>3. m # 0 => h[k + 1][Rest(m)] = h[k][Rest(m)]
        BY <4>1
      <4> QED
        BY <4>2, <4>3 DEF Val
    <3> QED
      BY <3>1, <3>2
  <2>3. Settled \in SUBSET Nat
    OBVIOUS
  <2> HIDE DEF Settled
  <2> QED
    BY <2>1, <2>2, <2>3, SetInduction
<1>7. ASSUME NEW m \in Nat, NEW k \in Nat
      PROVE  h[m + k][m] = h[m][m]
  <2> DEFINE T == {l \in Nat : h[m + l][m] = h[m][m]}
  <2>1. 0 \in T
    OBVIOUS
  <2>2. ASSUME NEW l \in T
        PROVE  l + 1 \in T
    <3>1. m + l \in Settled /\ m \in 0..(m + l) /\ (m + l) + 1 = m + (l + 1) /\ l + 1 \in Nat
      BY <1>6
    <3>2. h[(m + l) + 1][m] = h[m + l][m]
      BY <3>1
    <3> QED
      BY <3>1, <3>2
  <2>3. T \in SUBSET Nat
    OBVIOUS
  <2>4. T = Nat
    <3> HIDE DEF T
    <3> QED
      BY <2>1, <2>2, <2>3, SetInduction
  <2> QED
    BY <2>4
<1> HIDE DEF Settled
<1> DEFINE f == [m \in Nat |-> h[m][m]]
           Body(g) == [m \in Nat |-> IF m = 0 THEN <<>>
                                     ELSE <<Digits[(m % Len(Digits)) + 1]>> \o g[m \div Len(Digits)]]
<1>8. \A m \in Nat : f[m] = h[m][m]
  OBVIOUS
<1>9. ASSUME NEW m \in Nat
      PROVE  f[m] = IF m = 0 THEN <<>> ELSE <<Lowest(m)>> \o f[Rest(m)]
  <2>1. CASE m = 0
    BY <1>5, <1>8, <2>1
  <2>2. CASE m # 0
    <3>1. m - 1 \in Nat /\ (m - 1) + 1 = m /\ Rest(m) \in Nat /\ Rest(m) <= m - 1
      BY <2>2, LowestIs
    <3>2. h[m][m] = <<Lowest(m)>> \o h[m - 1][Rest(m)]
      <4>1. h[(m - 1) + 1][m] = Val(h[m - 1], m)
        BY <1>5, <3>1
      <4> QED
        BY <2>2, <3>1, <4>1 DEF Val
    <3>3. h[m - 1][Rest(m)] = h[Rest(m)][Rest(m)]
      <4>1. (m - 1) - Rest(m) \in Nat /\ Rest(m) + ((m - 1) - Rest(m)) = m - 1
        BY <3>1
      <4> QED
        BY <1>7, <3>1, <4>1
    <3> QED
      BY <1>8, <2>2, <3>1, <3>2, <3>3
  <2> QED
    BY <2>1, <2>2
<1>10. f = Body(f)
  <2>1. f = [m \in Nat |-> f[m]]
    OBVIOUS
  <2> HIDE DEF f
  <2>2. \A m \in Nat : f[m] = IF m = 0 THEN <<>>
                               ELSE <<Digits[(m % Len(Digits)) + 1]>> \o f[m \div Len(Digits)]
    BY <1>9 DEF Lowest, Rest
  <2> QED
    BY <2>1, <2>2
<1> DEFINE rest == CHOOSE g : g = Body(g)
<1>11. rest = Body(rest)
  <2> HIDE DEF Body, f
  <2> QED
    BY <1>10
<1>12. \A m \in Nat : LowestFirst(m, Digits) = rest[m]
  BY DEF LowestFirst
<1> HIDE DEF rest, f
<1>13. \A m \in Nat : rest[m] = IF m = 0 THEN <<>> ELSE <<Lowest(m)>> \o rest[Rest(m)]
  BY <1>11 DEF Lowest, Rest
<1> QED
  <2>1. LowestFirst(0, Digits) = <<>>
    BY <1>12, <1>13
  <2>2. ASSUME NEW m \in Nat \ {0}
        PROVE  LowestFirst(m, Digits) = <<Lowest(m)>> \o LowestFirst(Rest(m), Digits)
    <3>1. Rest(m) \in Nat
      BY LowestIs
    <3>2. rest[m] = <<Lowest(m)>> \o rest[Rest(m)]
      BY <1>13
    <3> QED
      BY <1>12, <3>1, <3>2
  <2> QED
    BY <2>1, <2>2

\* A string of digits is worth a number when its beginnings are worth what Denoted says of them.
Worth(s, m) ==
    \E w : /\ w[0] = 0 /\ w[Len(s)] = m
           /\ \A n \in 1..Len(s) : w[n] = w[n - 1] * Len(Digits) + DigitOf(s[n])

\* What Denoted makes of a string.
LEMMA DenotedIs ==
    ASSUME NEW s \in Seq(ToSet(Digits)), NEW m, Worth(s, m)
    PROVE  Denoted(s) = m
<1> DEFINE Places == 0..Len(s)
           Val(f, n) == IF n = 0 THEN 0 ELSE f[n - 1] * Len(Digits) + DigitOf(s[n])
           Body(f) == [n \in Places |-> Val(f, n)]
           value == CHOOSE f : f = Body(f)
<1>1. Len(s) \in Nat
  OBVIOUS
<1>2. PICK w : /\ w[0] = 0 /\ w[Len(s)] = m
               /\ \A n \in 1..Len(s) : w[n] = w[n - 1] * Len(Digits) + DigitOf(s[n])
  BY DEF Worth
<1> DEFINE v == [n \in Places |-> w[n]]
<1>3. v = Body(v)
  <2>1. ASSUME NEW n \in Places
        PROVE  w[n] = Val(v, n)
    <3>1. CASE n = 0
      BY <1>2, <3>1
    <3>2. CASE n # 0
      <4>1. n \in 1..Len(s) /\ n - 1 \in Places
        BY <1>1, <3>2
      <4>2. v[n - 1] = w[n - 1]
        BY <4>1
      <4>3. w[n] = w[n - 1] * Len(Digits) + DigitOf(s[n])
        BY <1>2, <4>1
      <4> QED
        BY <3>2, <4>2, <4>3, Zenon
    <3> QED
      BY <3>1, <3>2
  <2> HIDE DEF Val
  <2> QED
    BY <2>1
<1>4. value = Body(value)
  <2> HIDE DEF Body, v
  <2> QED
    BY <1>3
<1>5. Denoted(s) = value[Len(s)]
  BY DEF Denoted
<1> HIDE DEF value, v
<1>6. \A n \in Places : value[n] = Val(value, n)
  BY <1>4
<1> DEFINE T == {n \in Nat : n <= Len(s) => value[n] = w[n]}
<1>7. 0 \in T
  BY <1>1, <1>2, <1>6
<1>8. ASSUME NEW n \in T
      PROVE  n + 1 \in T
  <2> SUFFICES ASSUME n + 1 <= Len(s)
               PROVE  value[n + 1] = w[n + 1]
    OBVIOUS
  <2>1. n \in Nat /\ n + 1 \in 1..Len(s) /\ n + 1 \in Places /\ n + 1 # 0 /\ (n + 1) - 1 = n /\ n <= Len(s)
    BY <1>1
  <2>2. value[n] = w[n]
    BY <2>1
  <2>3. value[n + 1] = value[n] * Len(Digits) + DigitOf(s[n + 1])
    BY <1>6, <2>1, Zenon
  <2>4. w[n + 1] = w[n] * Len(Digits) + DigitOf(s[n + 1])
    BY <1>2, <2>1, Zenon
  <2> QED
    BY <2>2, <2>3, <2>4, Zenon
<1>9. T = Nat
  <2>1. T \in SUBSET Nat
    OBVIOUS
  <2> HIDE DEF T
  <2> QED
    BY <1>7, <1>8, <2>1, SetInduction
<1>10. value[Len(s)] = w[Len(s)]
  BY <1>1, <1>9
<1> QED
  BY <1>2, <1>5, <1>10

\* One more digit.
LEMMA WorthMore ==
    ASSUME NEW s \in Seq(ToSet(Digits)), NEW m, Worth(s, m), NEW c \in ToSet(Digits)
    PROVE  Worth(Append(s, c), m * Len(Digits) + DigitOf(c))
<1> DEFINE L == Len(s)
           t == Append(s, c)
           new == m * Len(Digits) + DigitOf(c)
<1>1. L \in Nat
  OBVIOUS
<1>2. PICK w : w[0] = 0 /\ w[L] = m /\ \A n \in 1..L : w[n] = w[n - 1] * Len(Digits) + DigitOf(s[n])
  BY DEF Worth
<1>3. Len(t) = L + 1 /\ (\A n \in 1..L : t[n] = s[n]) /\ t[L + 1] = c
  BY AppendProperties
<1> DEFINE v == [n \in 0..(L + 1) |-> IF n = L + 1 THEN new ELSE w[n]]
<1> HIDE DEF L, t, new
<1>4. v[L + 1] = new /\ \A n \in 0..L : v[n] = w[n]
  <2>1. L + 1 \in 0..(L + 1) /\ \A n \in 0..L : n \in 0..(L + 1) /\ n # L + 1
    BY <1>1
  <2> QED
    BY <2>1
<1> HIDE DEF v
<1>5. v[0] = 0 /\ v[L] = m
  BY <1>1, <1>2, <1>4
<1>6. ASSUME NEW n \in 1..(L + 1)
      PROVE  v[n] = v[n - 1] * Len(Digits) + DigitOf(t[n])
  <2>1. CASE n = L + 1
    <3>1. n - 1 = L
      BY <1>1, <2>1
    <3>2. v[n] = new /\ v[n - 1] = m /\ t[n] = c
      BY <1>3, <1>4, <1>5, <2>1, <3>1
    <3> QED
      BY <3>2 DEF new
  <2>2. CASE n # L + 1
    <3>1. n \in 1..L /\ n \in 0..L /\ n - 1 \in 0..L
      BY <1>1, <2>2
    <3>2. v[n] = w[n] /\ v[n - 1] = w[n - 1] /\ t[n] = s[n] /\ w[n] = w[n - 1] * Len(Digits) + DigitOf(s[n])
      BY <1>2, <1>3, <1>4, <3>1
    <3> QED
      BY <3>2, Zenon
  <2> QED
    BY <2>1, <2>2
<1>7. Worth(t, new)
  BY <1>3, <1>4, <1>5, <1>6 DEF Worth
<1> QED
  BY <1>7 DEF t, new

\* The digits of a number, turned round, are worth it.
LEMMA NumeralWorth ==
    ASSUME NEW m \in Nat
    PROVE  /\ LowestFirst(m, Digits) \in Seq(ToSet(Digits)) /\ (m # 0 => LowestFirst(m, Digits) # <<>>)
           /\ Reverse(LowestFirst(m, Digits)) \in Seq(ToSet(Digits))
           /\ Worth(Reverse(LowestFirst(m, Digits)), m)
<1> DEFINE S == ToSet(Digits)
           Good(n) == /\ LowestFirst(n, Digits) \in Seq(S) /\ (n # 0 => LowestFirst(n, Digits) # <<>>)
                      /\ Reverse(LowestFirst(n, Digits)) \in Seq(S)
                      /\ Worth(Reverse(LowestFirst(n, Digits)), n)
           T == {k \in Nat : \A n \in 0..k : Good(n)}
<1>1. Good(0)
  <2>1. LowestFirst(0, Digits) = <<>>
    BY LowestFirstIs
  <2>2. Reverse(<<>>) = <<>>
    BY DEF Reverse
  <2>3. Worth(<<>>, 0)
    <3> DEFINE w == [n \in 0..0 |-> 0]
    <3>1. w[0] = 0 /\ Len(<<>>) = 0 /\ \A n \in 1..0 : FALSE
      OBVIOUS
    <3> HIDE DEF w
    <3>2. w[0] = 0 /\ w[Len(<<>>)] = 0 /\ \A n \in 1..Len(<<>>) : w[n] = w[n - 1] * Len(Digits) + DigitOf(<<>>[n])
      BY <3>1
    <3> QED
      BY <3>2 DEF Worth
  <2>4. <<>> \in Seq(S)
    OBVIOUS
  <2> QED
    BY <2>1, <2>2, <2>3, <2>4, Zenon
<1>2. ASSUME NEW n \in Nat \ {0}, Good(Rest(n))
      PROVE  Good(n)
  <2> DEFINE r == LowestFirst(Rest(n), Digits)
             s == <<Lowest(n)>> \o r
             t == Reverse(r)
  <2>1. LowestFirst(n, Digits) = s
    BY LowestFirstIs
  <2>2. /\ Lowest(n) \in S /\ Rest(n) \in Nat /\ n = Rest(n) * Len(Digits) + DigitOf(Lowest(n))
        /\ r \in Seq(S) /\ t \in Seq(S) /\ Worth(t, Rest(n))
    BY <1>2, LowestIs
  <2> DEFINE c == Lowest(n)
  <2> HIDE DEF r, c
  <2>3. /\ s \in Seq(S) /\ Len(s) = Len(r) + 1 /\ Len(r) \in Nat /\ s[1] = c
        /\ \A k \in 1..Len(r) : s[k + 1] = r[k]
    <3>1. c \in S
      BY <2>2 DEF c
    <3> QED
      BY <2>2, <3>1 DEF c
  <2>4. Len(t) = Len(r) /\ \A k \in 1..Len(r) : t[k] = r[(Len(r) - k) + 1]
    BY <2>3 DEF Reverse
  <2>5. Reverse(s) = Append(t, c)
    <3> DEFINE v == Reverse(s)
               u == Append(t, c)
    <3>1. v = [k \in 1..Len(s) |-> s[(Len(s) - k) + 1]]
      BY DEF Reverse
    <3> HIDE DEF s, t, v
    <3>2. \A k \in 1..Len(s) : s[(Len(s) - k) + 1] \in S
      BY <2>3
    <3>3. v \in [1..Len(s) -> S]
      BY <3>1, <3>2
    <3>4. v \in Seq(S) /\ Len(v) = Len(s) /\ \A k \in 1..Len(s) : v[k] = s[(Len(s) - k) + 1]
      BY <2>3, <3>1, <3>3, Listed
    <3>5. u \in Seq(S) /\ Len(u) = Len(t) + 1 /\ (\A k \in 1..Len(t) : u[k] = t[k]) /\ u[Len(t) + 1] = c
      BY <2>2, AppendProperties DEF c
    <3> HIDE DEF u
    <3>6. ASSUME NEW k \in 1..Len(v)
          PROVE  v[k] = u[k]
      <4>1. CASE k = Len(r) + 1
        <5>1. (Len(s) - k) + 1 = 1 /\ k \in 1..Len(s)
          BY <2>3, <4>1
        <5> QED
          BY <2>3, <2>4, <3>4, <3>5, <4>1, <5>1
      <4>2. CASE k # Len(r) + 1
        <5>1. k \in 1..Len(r) /\ k \in 1..Len(s) /\ (Len(r) - k) + 1 \in 1..Len(r)
              /\ (Len(s) - k) + 1 = ((Len(r) - k) + 1) + 1
          BY <2>3, <3>4, <4>2
        <5>2. v[k] = s[((Len(r) - k) + 1) + 1]
          BY <3>4, <5>1
        <5>3. s[((Len(r) - k) + 1) + 1] = r[(Len(r) - k) + 1]
          BY <2>3, <5>1
        <5> QED
          BY <2>4, <3>5, <5>1, <5>2, <5>3
      <4> QED
        BY <4>1, <4>2
    <3>7. v = u
      BY <2>3, <2>4, <3>4, <3>5, <3>6, SeqEqual
    <3> QED
      BY <3>7 DEF v, u
  <2>6. Append(t, c) \in Seq(S) /\ Worth(Append(t, c), Rest(n) * Len(Digits) + DigitOf(c))
    <3>1. c \in S
      BY <2>2 DEF c
    <3> HIDE DEF t
    <3> QED
      BY <2>2, <3>1, WorthMore
  <2>7. s # <<>>
    BY <2>3
  <2> HIDE DEF s, t
  <2> QED
    BY <2>1, <2>2, <2>3, <2>5, <2>6, <2>7 DEF c
<1> HIDE DEF Good
<1>3. T = Nat
  <2>1. 0 \in T
    <3>1. \A n \in 0..0 : n = 0
      OBVIOUS
    <3> QED
      BY <1>1, <3>1
  <2>2. ASSUME NEW k \in T
        PROVE  k + 1 \in T
    <3>1. k \in Nat /\ k + 1 \in Nat /\ \A n \in 0..k : Good(n)
      OBVIOUS
    <3>2. ASSUME NEW n \in 0..(k + 1), n # 0
          PROVE  Good(n)
      <4>1. n \in Nat \ {0} /\ Rest(n) \in 0..k
        BY <3>1, <3>2, LowestIs
      <4> QED
        BY <1>2, <3>1, <4>1
    <3> QED
      BY <1>1, <3>1, <3>2
  <2>3. T \in SUBSET Nat
    OBVIOUS
  <2> HIDE DEF T
  <2> QED
    BY <2>1, <2>2, <2>3, SetInduction
<1>4. Good(m)
  BY <1>3
<1> QED
  BY <1>4 DEF Good

\* inttostr (vgaio.c) writes a number in digits that denote it.
LEMMA NumeralRight ==
    ASSUME NEW n \in Nat
    PROVE  inttostr(n) \in Seq(ToSet(Digits)) /\ inttostr(n) # <<>> /\ Denoted(inttostr(n)) = n
<1>1. CASE n = 0
  <2> DEFINE c == Head(Digits)
  <2>1. inttostr(n) = <<c>>
    BY <1>1 DEF inttostr
  <2>2. c \in ToSet(Digits) /\ DigitOf(c) = 0
    BY DigitsAre
  <2>3. Worth(<<c>>, 0)
    <3> DEFINE w == [k \in 0..1 |-> 0]
               s == <<c>>
    <3>1. w[0] = 0 /\ w[1] = 0 /\ Len(s) = 1 /\ s[1] = c
      OBVIOUS
    <3>2. 0 = 0 * Len(Digits) + DigitOf(c)
      BY <2>2, DigitsAre
    <3> HIDE DEF w, c, s
    <3>3. \A k \in 1..Len(s) : w[k] = w[k - 1] * Len(Digits) + DigitOf(s[k])
      <4>1. \A k \in 1..Len(s) : k = 1 /\ k - 1 = 0
        BY <3>1
      <4> QED
        BY <3>1, <3>2, <4>1
    <3> QED
      BY <3>1, <3>3 DEF Worth, s
  <2> HIDE DEF c
  <2>4. <<c>> \in Seq(ToSet(Digits)) /\ <<c>> # <<>>
    BY <2>2
  <2> QED
    BY <1>1, <2>1, <2>3, <2>4, DenotedIs
<1>2. CASE n # 0
  <2> DEFINE s == LowestFirst(n, Digits)
  <2>1. inttostr(n) = Reverse(s \o <<>>)
    <3>1. ~(n < 0)
      OBVIOUS
    <3> QED
      BY <1>2, <3>1, Zenon DEF inttostr
  <2>2. s \in Seq(ToSet(Digits)) /\ s # <<>> /\ Reverse(s) \in Seq(ToSet(Digits)) /\ Worth(Reverse(s), n)
    BY <1>2, NumeralWorth
  <2> HIDE DEF s
  <2>3. s \o <<>> = s
    BY <2>2, ConcatEmptySeq
  <2>4. Reverse(s) # <<>>
    <3>1. DOMAIN Reverse(s) = 1..Len(s) /\ Len(s) \in Nat \ {0}
      BY <2>2 DEF Reverse
    <3>2. 1 \in DOMAIN Reverse(s)
      BY <3>1
    <3> QED
      BY <3>2
  <2> QED
    BY <2>1, <2>2, <2>3, <2>4, DenotedIs
<1> QED
  BY <1>1, <1>2

-----------------------------------------------------------------------------
(* The numbers on the page.                                                *)

\* The character of an empty cell.
Space == " "

\* A line of the page that begins with p.
RowOf(p) == [c \in 0..(VGA_WIDTH - 1) |-> IF c < Len(p) THEN p[c + 1] ELSE " "]

\* The text on a line ends at its last character that is no blank.
LEMMA TextOnIs ==
    ASSUME NEW l
    PROVE  \E stop \in 0..VGA_WIDTH :
              /\ \A c \in stop..(VGA_WIDTH - 1) : l[c] = Space
              /\ stop # 0 => l[stop - 1] # Space
              /\ TextOn(l) = [n \in 1..stop |-> l[n - 1]]
<1> DEFINE Blanks(n) == \A c \in n..(VGA_WIDTH - 1) : l[c] = Space
           Ends(n) == Blanks(n) /\ (n # 0 => l[n - 1] # Space)
           S == {n \in 0..VGA_WIDTH : Blanks(n)}
<1>1. VGA_WIDTH \in Nat \ {0}
  BY Rooms
<1>2. S \in SUBSET Nat /\ VGA_WIDTH \in S
  <2>1. \A c \in VGA_WIDTH..(VGA_WIDTH - 1) : FALSE
    BY <1>1
  <2>2. VGA_WIDTH \in 0..VGA_WIDTH
    BY <1>1
  <2>3. Blanks(VGA_WIDTH)
    BY <2>1
  <2> HIDE DEF Blanks
  <2> QED
    BY <1>1, <2>2, <2>3
<1>3. PICK m \in S : \A k \in S : m <= k
  <2> HIDE DEF S
  <2> QED
    BY <1>2, LeastElement
<1>4. m \in 0..VGA_WIDTH /\ Blanks(m)
  BY <1>3
<1>5. m # 0 => l[m - 1] # Space
  <2> SUFFICES ASSUME m # 0, l[m - 1] = Space
               PROVE  FALSE
    OBVIOUS
  <2>1. \A c \in (m - 1)..(VGA_WIDTH - 1) : c = m - 1 \/ c \in m..(VGA_WIDTH - 1)
    BY <1>1, <1>4
  <2>2. Blanks(m - 1)
    BY <1>4, <2>1
  <2>3. m - 1 \in 0..VGA_WIDTH /\ ~(m <= m - 1)
    BY <1>1, <1>4
  <2> QED
    BY <1>3, <2>2, <2>3
<1>6. \E n \in 0..VGA_WIDTH : Ends(n)
  BY <1>4, <1>5
<1> DEFINE stop == CHOOSE n \in 0..VGA_WIDTH : Ends(n)
<1>7. stop \in 0..VGA_WIDTH /\ Ends(stop)
  <2> HIDE DEF Ends
  <2> QED
    BY <1>6, Zenon
<1>8. TextOn(l) = [n \in 1..stop |-> l[n - 1]]
  BY Zenon DEF TextOn, Space
<1> HIDE DEF stop
<1> QED
  BY <1>7, <1>8

\* A line that begins with a text that nobody takes for a number shows none.
LEMMA NoNumberOn ==
    ASSUME NEW p \in Seq(Chars), Len(p) < VGA_WIDTH, \A k \in 1..Len(p) : p[k] # "\n",
           NoNumber(p) \/ NoNumber(p \o <<"\n">>)
    PROVE  NumberOn(RowOf(p)) = <<>>
<1> DEFINE l == RowOf(p)
<1>1. Len(p) \in Nat /\ VGA_WIDTH \in Nat \ {0} /\ DOMAIN p = 1..Len(p)
  BY Rooms
<1>2. \A c \in 0..(VGA_WIDTH - 1) : l[c] = IF c < Len(p) THEN p[c + 1] ELSE Space
  BY Zenon DEF RowOf, Space
<1> HIDE DEF l
<1>3. PICK stop \in 0..VGA_WIDTH :
         /\ \A c \in stop..(VGA_WIDTH - 1) : l[c] = Space
         /\ stop # 0 => l[stop - 1] # Space
         /\ TextOn(l) = [n \in 1..stop |-> l[n - 1]]
  BY TextOnIs
<1>4. p = <<>> \/ \E k \in 1..Len(p) : p[k] \notin ToSet(Digits) \cup {Space, "\n"}
  <2>1. CASE NoNumber(p)
    <3>1. p = <<>> \/ p = <<"\n">> \/ \E k \in 1..Len(p) : p[k] \notin ToSet(Digits) \cup {Space, "\n"}
      BY <1>1, <2>1, Zenon DEF NoNumber, ToSet, Space
    <3>2. p # <<"\n">>
      OBVIOUS
    <3> QED
      BY <3>1, <3>2
  <2>2. CASE NoNumber(p \o <<"\n">>)
    <3> DEFINE q == p \o <<"\n">>
    <3>1. /\ DOMAIN q = 1..(Len(p) + 1) /\ Len(q) = Len(p) + 1 /\ q[Len(p) + 1] = "\n"
          /\ \A k \in 1..Len(p) : q[k] = p[k]
      BY <1>1
    <3> HIDE DEF q
    <3>2. CASE q \in {<<>>, <<"\n">>}
      <4>1. Len(p) = 0
        BY <1>1, <3>1, <3>2
      <4> QED
        BY <4>1
    <3>3. CASE ~(ToSet(q) \subseteq ToSet(Digits) \cup {Space, "\n"})
      <4>1. PICK k \in DOMAIN q : q[k] \notin ToSet(Digits) \cup {Space, "\n"}
        BY <3>3 DEF ToSet
      <4>2. k \in 1..Len(p)
        BY <1>1, <3>1, <4>1
      <4> QED
        BY <3>1, <4>1, <4>2
    <3> QED
      BY <2>2, <3>2, <3>3, Zenon DEF NoNumber, q, Space
  <2> QED
    BY <2>1, <2>2
<1>5. CASE p = <<>>
  <2>1. stop = 0
    <3> SUFFICES ASSUME stop # 0
                 PROVE  FALSE
      OBVIOUS
    <3>1. stop - 1 \in 0..(VGA_WIDTH - 1) /\ ~(stop - 1 < 0) /\ Len(p) = 0
      BY <1>1, <1>5
    <3>2. l[stop - 1] = Space
      BY <1>2, <3>1
    <3> QED
      BY <1>3, <3>2
  <2>2. TextOn(l) = <<>>
    BY <1>3, <2>1
  <2> QED
    BY <2>2 DEF NumberOn, l
<1>6. CASE \E k \in 1..Len(p) : p[k] \notin ToSet(Digits) \cup {Space, "\n"}
  <2>1. PICK k \in 1..Len(p) : p[k] \notin ToSet(Digits) \cup {Space, "\n"}
    BY <1>6
  <2>2. l[k - 1] = p[k]
    <3>1. k - 1 \in 0..(VGA_WIDTH - 1) /\ k - 1 < Len(p) /\ (k - 1) + 1 = k
      BY <1>1
    <3> QED
      BY <1>2, <3>1
  <2>3. k <= stop
    <3> SUFFICES ASSUME ~(k <= stop)
                 PROVE  FALSE
      OBVIOUS
    <3>1. k - 1 \in stop..(VGA_WIDTH - 1)
      BY <1>1
    <3> QED
      BY <1>3, <2>1, <2>2, <3>1
  <2>4. k \in DOMAIN TextOn(l) /\ TextOn(l)[k] = p[k]
    <3>1. k \in 1..stop
      BY <1>1, <2>3
    <3>2. PICK t : t = TextOn(l)
      OBVIOUS
    <3>3. t = [n \in 1..stop |-> l[n - 1]]
      BY <1>3, <3>2
    <3>4. k \in DOMAIN t /\ t[k] = l[k - 1]
      BY <3>1, <3>3
    <3> QED
      BY <2>2, <3>2, <3>4
  <2>5. ~(ToSet(TextOn(l)) \subseteq ToSet(Digits))
    <3>1. TextOn(l)[k] \in ToSet(TextOn(l)) /\ TextOn(l)[k] \notin ToSet(Digits)
      <4>1. PICK t : t = TextOn(l)
        OBVIOUS
      <4>2. t[k] \in ToSet(t) /\ t[k] \notin ToSet(Digits)
        BY <2>1, <2>4, <4>1, Zenon DEF ToSet
      <4> QED
        BY <4>1, <4>2
    <3> QED
      BY <3>1
  <2> QED
    BY <2>5 DEF NumberOn, l
<1> QED
  BY <1>4, <1>5, <1>6

\* A line that begins with a number and goes on with blanks shows that number.
LEMMA NumeralOn ==
    ASSUME NEW n \in Nat, Len(inttostr(n)) < VGA_WIDTH
    PROVE  NumberOn(RowOf(inttostr(n))) = <<n>>
<1>1. PICK p : p = inttostr(n)
  OBVIOUS
<1>2. p \in Seq(ToSet(Digits)) /\ p # <<>> /\ Denoted(p) = n /\ Len(p) < VGA_WIDTH
  BY <1>1, NumeralRight
<1> DEFINE l == RowOf(p)
<1>3. Len(p) \in Nat \ {0} /\ VGA_WIDTH \in Nat \ {0} /\ \A k \in 1..Len(p) : p[k] \in ToSet(Digits) /\ p[k] # Space
  <2>1. Space \notin ToSet(Digits)
    BY NumbersAssumption, Zenon DEF Space
  <2> QED
    BY <1>2, <2>1, Rooms
<1>4. \A c \in 0..(VGA_WIDTH - 1) : l[c] = IF c < Len(p) THEN p[c + 1] ELSE Space
  BY Zenon DEF RowOf, Space
<1> HIDE DEF l
<1>5. PICK stop \in 0..VGA_WIDTH :
         /\ \A c \in stop..(VGA_WIDTH - 1) : l[c] = Space
         /\ stop # 0 => l[stop - 1] # Space
         /\ TextOn(l) = [k \in 1..stop |-> l[k - 1]]
  BY TextOnIs
<1>6. stop = Len(p)
  <2>1. CASE stop < Len(p)
    <3>1. Len(p) - 1 \in stop..(VGA_WIDTH - 1) /\ Len(p) - 1 \in 0..(VGA_WIDTH - 1) /\ Len(p) - 1 < Len(p)
          /\ (Len(p) - 1) + 1 = Len(p) /\ Len(p) \in 1..Len(p)
      BY <1>2, <1>3, <2>1
    <3>2. l[Len(p) - 1] = p[Len(p)]
      BY <1>4, <3>1
    <3>3. l[Len(p) - 1] = Space
      BY <1>5, <3>1
    <3> QED
      BY <1>3, <3>1, <3>2, <3>3
  <2>2. CASE stop > Len(p)
    <3>1. stop # 0 /\ stop - 1 \in 0..(VGA_WIDTH - 1) /\ ~(stop - 1 < Len(p))
      BY <1>3, <2>2
    <3> QED
      BY <1>4, <1>5, <3>1
  <2> QED
    BY <1>3, <2>1, <2>2
<1>7. TextOn(l) = p
  <2>1. TextOn(l) = [k \in 1..Len(p) |-> l[k - 1]]
    BY <1>5, <1>6
  <2>2. \A k \in 1..Len(p) : l[k - 1] = p[k]
    <3> DEFINE L == Len(p)
               W == VGA_WIDTH
    <3>1. \A k \in 1..L : k - 1 \in 0..(W - 1) /\ k - 1 < L /\ (k - 1) + 1 = k
      <4>1. L \in Nat /\ W \in Nat /\ L < W
        BY <1>2, <1>3
      <4> HIDE DEF L, W
      <4> QED
        BY <4>1
    <3> QED
      BY <1>4, <3>1
  <2>3. p = [k \in 1..Len(p) |-> p[k]]
    BY <1>2
  <2> HIDE DEF l
  <2> QED
    BY <2>1, <2>2, <2>3
<1>8. p # <<>> /\ ToSet(p) \subseteq ToSet(Digits)
  BY <1>2 DEF ToSet
<1>9. NumberOn(l) = <<n>>
  BY <1>2, <1>7, <1>8 DEF NumberOn
<1> QED
  BY <1>1, <1>9 DEF l

-----------------------------------------------------------------------------
(* Writing and counting.                                                   *)

\* The page p ends in the text t, behind which its cursor stands.
Ends(p, t) ==
    /\ p.lines \in Seq(Cells) /\ p.lines # <<>>
    /\ t \in Seq(Chars) /\ (\A k \in 1..Len(t) : t[k] # "\n") /\ Len(t) < VGA_WIDTH
    /\ p.at = Len(t) /\ p.lines[Len(p.lines)] = RowOf(t)

\* Above its last line the page p shows the numbers below n, in their order.
Numbers(n) == [k \in 1..n |-> k - 1]

Counted(p, n) ==
    \E w : /\ w[0] = <<>> /\ w[Len(p.lines) - 1] = Numbers(n)
           /\ \A k \in 1..(Len(p.lines) - 1) : w[k] = w[k - 1] \o NumberOn(p.lines[k])

\* A line that begins with a text is made of characters.
LEMMA RowOfIs ==
    ASSUME NEW t \in Seq(Chars)
    PROVE  /\ RowOf(t) \in Cells /\ RowOf(<<>>) = Blank
           /\ \A c \in 0..(VGA_WIDTH - 1) : RowOf(t)[c] = IF c < Len(t) THEN t[c + 1] ELSE Space
<1>1. Len(t) \in Nat /\ VGA_WIDTH \in Nat
  BY Rooms
<1>2. ASSUME NEW c \in 0..(VGA_WIDTH - 1), c < Len(t)
      PROVE  t[c + 1] \in Chars
  <2>1. c + 1 \in 1..Len(t)
    BY <1>1, <1>2
  <2> QED
    BY <2>1
<1>3. RowOf(t) \in Cells
  BY <1>2, Zenon DEF RowOf, Cells
<1>4. RowOf(<<>>) = Blank
  <2>1. \A c \in 0..(VGA_WIDTH - 1) : ~(c < Len(<<>>))
    BY <1>1
  <2> QED
    BY <2>1, Zenon DEF RowOf, Blank
<1>5. \A c \in 0..(VGA_WIDTH - 1) : RowOf(t)[c] = IF c < Len(t) THEN t[c + 1] ELSE Space
  BY Zenon DEF RowOf, Space
<1> QED
  BY <1>3, <1>4, <1>5

\* A character that is no new line is added to the text that the page ends in.
LEMMA TypeChar ==
    ASSUME NEW p, NEW t, Ends(p, t), NEW c \in Chars, c \notin {"\n", "\r"}, Len(t) + 1 < VGA_WIDTH
    PROVE  /\ Ends(Page!Typed(p, c), Append(t, c))
           /\ \A n : Counted(p, n) => Counted(Page!Typed(p, c), n)
<1> DEFINE L == Len(p.lines)
           T == Len(t)
           v == Append(t, c)
           q == [p.lines EXCEPT ![L] = [p.lines[L] EXCEPT ![T] = c]]
<1>1. /\ p.lines \in Seq(Cells) /\ L \in Nat \ {0} /\ t \in Seq(Chars) /\ T \in Nat /\ VGA_WIDTH \in Nat
      /\ p.at = T /\ p.lines[L] = RowOf(t) /\ L \in 1..L /\ \A k \in 1..T : t[k] # "\n"
  BY Rooms DEF Ends
<1>2. Page!Typed(p, c) = [lines |-> q, at |-> T + 1]
  <2>1. ~(p.at = VGA_WIDTH - 1)
    BY <1>1
  <2> QED
    BY <1>1, <2>1 DEF Page!Typed
<1>3. v \in Seq(Chars) /\ Len(v) = T + 1 /\ (\A k \in 1..T : v[k] = t[k]) /\ v[T + 1] = c
  BY <1>1, AppendProperties
<1> HIDE DEF v
<1>4. [p.lines[L] EXCEPT ![T] = c] = RowOf(v)
  <2>1. ASSUME NEW n \in 0..(VGA_WIDTH - 1)
        PROVE  [p.lines[L] EXCEPT ![T] = c][n] = RowOf(v)[n]
    <3>1. RowOf(v)[n] = IF n < T + 1 THEN v[n + 1] ELSE Space
      BY <1>3, RowOfIs
    <3>2. RowOf(t)[n] = IF n < T THEN t[n + 1] ELSE Space
      BY <1>1, RowOfIs
    <3>3. [p.lines[L] EXCEPT ![T] = c][n] = IF n = T THEN c ELSE RowOf(t)[n]
      <4>1. RowOf(t) \in [0..(VGA_WIDTH - 1) -> Chars \cup {" ", "?"}]
        BY <1>1, RowOfIs, Zenon DEF Cells
      <4> QED
        BY <1>1, <4>1, Zenon
    <3>4. CASE n = T
      <4>1. n < T + 1 /\ n + 1 = T + 1
        BY <1>1, <3>4
      <4> QED
        BY <1>3, <3>1, <3>3, <3>4, <4>1
    <3>5. CASE n < T
      <4>1. n < T + 1 /\ n + 1 \in 1..T /\ n # T
        BY <1>1, <3>5
      <4> QED
        BY <1>3, <3>1, <3>2, <3>3, <3>5, <4>1
    <3>6. CASE n > T
      <4>1. ~(n < T + 1) /\ ~(n < T) /\ n # T
        BY <1>1, <3>6
      <4> QED
        BY <3>1, <3>2, <3>3, <4>1
    <3> QED
      BY <1>1, <3>4, <3>5, <3>6
  <2>2. RowOf(v) \in Cells /\ RowOf(t) \in Cells
    BY <1>1, <1>3, RowOfIs
  <2> DEFINE C == Chars \cup {" ", "?"}
             W == 0..(VGA_WIDTH - 1)
             r == [p.lines[L] EXCEPT ![T] = c]
  <2>3. RowOf(v) \in [W -> C] /\ RowOf(t) \in [W -> C] /\ c \in C
    BY <2>2, Zenon DEF Cells
  <2> HIDE DEF C
  <2>4. r \in [W -> C]
    BY <1>1, <2>3
  <2> HIDE DEF r, W
  <2> QED
    BY <2>1, <2>3, <2>4 DEF r, W
<1>5. /\ q \in Seq(Cells) /\ Len(q) = L /\ q[L] = RowOf(v)
      /\ \A k \in 1..(L - 1) : q[k] = p.lines[k]
  <2>1. RowOf(v) \in Cells
    BY <1>3, RowOfIs
  <2>2. PICK r : r = RowOf(v)
    OBVIOUS
  <2>3. q = [p.lines EXCEPT ![L] = r]
    BY <1>4, <2>2
  <2>4. /\ q \in Seq(Cells) /\ Len(q) = L
        /\ \A k \in 1..L : q[k] = IF k = L THEN r ELSE p.lines[k]
    <3> HIDE DEF q
    <3> QED
      BY <1>1, <2>1, <2>2, <2>3, ExceptSeq
  <2>5. \A k \in 1..(L - 1) : k \in 1..L /\ k # L
    BY <1>1
  <2> HIDE DEF q, L
  <2> QED
    BY <1>1, <2>2, <2>4, <2>5
<1> DEFINE e == Page!Typed(p, c)
<1>6. e.lines = q /\ e.at = T + 1
  BY <1>2
<1> HIDE DEF e, q
<1>7. \A k \in 1..Len(v) : v[k] # "\n"
  <2>1. \A k \in 1..(T + 1) : k \in 1..T \/ k = T + 1
    BY <1>1
  <2> QED
    BY <1>1, <1>3, <2>1
<1>8. Ends(e, v)
  <2>1. q # <<>>
    BY <1>1, <1>5
  <2> QED
    BY <1>3, <1>5, <1>6, <1>7, <2>1 DEF Ends
<1>9. ASSUME NEW n, Counted(p, n)
      PROVE  Counted(e, n)
  <2>1. PICK w : /\ w[0] = <<>> /\ w[L - 1] = Numbers(n)
                 /\ \A k \in 1..(L - 1) : w[k] = w[k - 1] \o NumberOn(p.lines[k])
    BY <1>9, Zenon DEF Counted
  <2>2. /\ w[0] = <<>> /\ w[Len(e.lines) - 1] = Numbers(n)
        /\ \A k \in 1..(Len(e.lines) - 1) : w[k] = w[k - 1] \o NumberOn(e.lines[k])
    BY <1>5, <1>6, <2>1, Zenon
  <2> QED
    BY <2>2, Zenon DEF Counted
<1> QED
  BY <1>8, <1>9 DEF e, v

\* A new line takes the number on the line that it ends into the count.
LEMMA TypeEnd ==
    ASSUME NEW p, NEW t, Ends(p, t), NEW n \in Nat, Counted(p, n)
    PROVE  /\ Ends(Page!Typed(p, "\n"), <<>>)
           /\ NumberOn(RowOf(t)) = <<>> => Counted(Page!Typed(p, "\n"), n)
           /\ NumberOn(RowOf(t)) = <<n>> => Counted(Page!Typed(p, "\n"), n + 1)
<1> DEFINE L == Len(p.lines)
           e == Page!Typed(p, "\n")
           q == Append(p.lines, Blank)
<1>1. /\ p.lines \in Seq(Cells) /\ L \in Nat \ {0} /\ t \in Seq(Chars) /\ VGA_WIDTH \in Nat \ {0}
      /\ p.lines[L] = RowOf(t) /\ Blank \in Cells
  BY Rooms DEF Ends
<1>2. e.lines = q /\ e.at = 0
  <2>1. Page!Blank = Blank
    BY DEF Page!Blank, Blank
  <2>2. e = [lines |-> Append(p.lines, Page!Blank), at |-> 0]
    BY DEF Page!Typed
  <2> QED
    BY <2>1, <2>2
<1>3. q \in Seq(Cells) /\ q # <<>> /\ Len(q) = L + 1 /\ (\A k \in 1..L : q[k] = p.lines[k]) /\ q[L + 1] = Blank
  BY <1>1, AppendProperties
<1> HIDE DEF e, q
<1>4. Ends(e, <<>>)
  <2>1. <<>> \in Seq(Chars) /\ Len(<<>>) = 0 /\ 0 < VGA_WIDTH /\ \A k \in 1..0 : FALSE
    BY <1>1
  <2>2. RowOf(<<>>) = Blank
    <3>1. PICK v : v \in Seq(Chars)
      BY <2>1
    <3> QED
      BY <3>1, RowOfIs
  <2>3. \A k \in 1..Len(<<>>) : <<>>[k] # "\n"
    BY <2>1
  <2> QED
    BY <1>2, <1>3, <2>1, <2>2, <2>3, Zenon DEF Ends
<1>5. PICK w : /\ w[0] = <<>> /\ w[L - 1] = Numbers(n)
               /\ \A k \in 1..(L - 1) : w[k] = w[k - 1] \o NumberOn(p.lines[k])
  BY Zenon DEF Counted
<1>6. ASSUME NEW m, Numbers(n) \o NumberOn(RowOf(t)) = Numbers(m)
      PROVE  Counted(e, m)
  <2> DEFINE v == [k \in 0..L |-> IF k = L THEN Numbers(m) ELSE w[k]]
  <2>1. v[L] = Numbers(m) /\ \A k \in 0..(L - 1) : v[k] = w[k]
    <3>1. L \in 0..L /\ \A k \in 0..(L - 1) : k \in 0..L /\ k # L
      BY <1>1
    <3> HIDE DEF L
    <3> QED
      BY <3>1
  <2> HIDE DEF v
  <2>2. Len(e.lines) - 1 = L
    BY <1>1, <1>2, <1>3
  <2>3. v[0] = <<>>
    BY <1>1, <1>5, <2>1
  <2>4. ASSUME NEW k \in 1..L
        PROVE  v[k] = v[k - 1] \o NumberOn(e.lines[k])
    <3>1. e.lines[k] = p.lines[k]
      BY <1>2, <1>3
    <3>2. CASE k = L
      <4>1. k - 1 \in 0..(L - 1) /\ k - 1 = L - 1
        BY <1>1, <3>2
      <4>2. v[k - 1] = Numbers(n)
        BY <1>5, <2>1, <4>1
      <4> QED
        BY <1>1, <1>6, <2>1, <3>1, <3>2, <4>2
    <3>3. CASE k # L
      <4>1. k \in 1..(L - 1) /\ k \in 0..(L - 1) /\ k - 1 \in 0..(L - 1)
        BY <1>1, <3>3
      <4> QED
        BY <1>5, <2>1, <3>1, <4>1, Zenon
    <3> QED
      BY <3>2, <3>3
  <2> HIDE DEF L
  <2>5. /\ v[0] = <<>> /\ v[Len(e.lines) - 1] = Numbers(m)
        /\ \A k \in 1..(Len(e.lines) - 1) : v[k] = v[k - 1] \o NumberOn(e.lines[k])
    BY <2>1, <2>2, <2>3, <2>4
  <2> QED
    BY <2>5, Zenon DEF Counted
<1>7. Numbers(n) \in Seq(Nat) /\ Len(Numbers(n)) = n /\ \A k \in 1..n : Numbers(n)[k] = k - 1
  <2>1. Numbers(n) \in [1..n -> Nat]
    BY DEF Numbers
  <2>2. \A k \in 1..n : Numbers(n)[k] = k - 1
    BY DEF Numbers
  <2> QED
    BY <2>1, <2>2, Listed
<1>8. Numbers(n) \o <<>> = Numbers(n)
  BY <1>7, ConcatEmptySeq
<1>9. Numbers(n) \o <<n>> = Numbers(n + 1)
  <2>1. Numbers(n + 1) \in Seq(Nat) /\ Len(Numbers(n + 1)) = n + 1 /\ \A k \in 1..(n + 1) : Numbers(n + 1)[k] = k - 1
    <3>1. Numbers(n + 1) \in [1..(n + 1) -> Nat] /\ n + 1 \in Nat
      BY DEF Numbers
    <3>2. \A k \in 1..(n + 1) : Numbers(n + 1)[k] = k - 1
      BY DEF Numbers
    <3> QED
      BY <3>1, <3>2, Listed
  <2> DEFINE a == Numbers(n)
             b == Numbers(n + 1)
             d == Append(a, n)
  <2>2. d = a \o <<n>>
    BY <1>7, AppendIsConcat
  <2>3. d \in Seq(Nat) /\ Len(d) = n + 1 /\ (\A k \in 1..n : d[k] = a[k]) /\ d[n + 1] = n
    BY <1>7, AppendProperties
  <2> HIDE DEF d
  <2>4. \A k \in 1..Len(d) : d[k] = b[k]
    <3>1. ASSUME NEW k \in 1..(n + 1)
          PROVE  d[k] = b[k]
      <4>1. b[k] = k - 1
        BY <2>1
      <4>2. CASE k = n + 1
        BY <2>3, <4>1, <4>2
      <4>3. CASE k # n + 1
        <5>1. k \in 1..n
          BY <4>3
        <5> QED
          BY <1>7, <2>3, <4>1, <5>1
      <4> QED
        BY <4>2, <4>3
    <3> QED
      BY <2>3, <3>1
  <2>5. d = b
    BY <2>1, <2>3, <2>4, SeqEqual
  <2> QED
    BY <2>2, <2>5
<1> QED
  BY <1>4, <1>6, <1>8, <1>9 DEF e

\* The recursion of After has a solution.
LEMMA AfterDefined ==
    ASSUME NEW p, NEW s \in Seq(Chars)
    PROVE  \E f : /\ Page!After(p, s) = f[Len(s)]
                  /\ f[0] = p
                  /\ \A n \in 1..Len(s) : f[n] = Page!Typed(f[n - 1], s[n])
<1> DEFINE Chs == 0..Len(s)
           Val(f, n) == IF n = 0 THEN p ELSE Page!Typed(f[n - 1], s[n])
           Body(f) == [n \in Chs |-> Val(f, n)]
           Good(f, m) == \A n \in Chs : n <= m => f[n] = Val(f, n)
           Possible(m) == \E f : f = [n \in Chs |-> f[n]] /\ Good(f, m)
           S == {m \in Nat : Possible(m)}
<1>1. Len(s) \in Nat
  OBVIOUS
<1>2. 0 \in S
  <2> DEFINE f == [n \in Chs |-> p]
  <2>1. f = [n \in Chs |-> f[n]]
    OBVIOUS
  <2>2. Good(f, 0)
    <3> SUFFICES ASSUME NEW n \in Chs, n <= 0
                 PROVE  f[n] = Val(f, n)
      OBVIOUS
    <3>1. n = 0 /\ f[n] = p
      BY <1>1
    <3> QED
      BY <3>1
  <2> QED
    BY <2>1, <2>2
<1>3. ASSUME NEW m \in S
      PROVE  m + 1 \in S
  <2>1. m \in Nat
    OBVIOUS
  <2>2. PICK f : f = [n \in Chs |-> f[n]] /\ Good(f, m)
    OBVIOUS
  <2> HIDE DEF S
  <2> DEFINE g == [n \in Chs |-> IF n = m + 1 THEN Page!Typed(f[m], s[n]) ELSE f[n]]
  <2>3. \A n \in Chs : g[n] = IF n = m + 1 THEN Page!Typed(f[m], s[n]) ELSE f[n]
    OBVIOUS
  <2>4. g = [n \in Chs |-> g[n]]
    OBVIOUS
  <2> HIDE DEF g
  <2>5. Good(g, m + 1)
    <3> SUFFICES ASSUME NEW n \in Chs, n <= m + 1
                 PROVE  g[n] = Val(g, n)
      OBVIOUS
    <3>1. n \in Nat /\ (n # 0 => n - 1 \in Chs /\ n - 1 <= m /\ n - 1 # m + 1)
      BY <1>1, <2>1
    <3>2. CASE n = m + 1
      <4>1. n # 0 /\ n - 1 = m /\ g[m] = f[m]
        BY <2>1, <2>3, <3>1, <3>2
      <4> QED
        BY <2>3, <3>2, <4>1
    <3>3. CASE n # m + 1
      <4>1. n <= m
        BY <2>1, <3>1, <3>3
      <4>2. g[n] = f[n] /\ (n # 0 => g[n - 1] = f[n - 1])
        BY <2>3, <3>1, <3>3
      <4>3. f[n] = Val(f, n)
        BY <2>2, <4>1
      <4> QED
        BY <4>2, <4>3
    <3> QED
      BY <3>2, <3>3
  <2>6. Possible(m + 1)
    <3> HIDE DEF Good
    <3> QED
      BY <2>4, <2>5
  <2> HIDE DEF Possible
  <2> QED
    BY <2>1, <2>6 DEF S
<1>4. Len(s) \in S
  <2>1. S \in SUBSET Nat
    OBVIOUS
  <2> HIDE DEF S
  <2> QED
    BY <1>1, <1>2, <1>3, <2>1, SetInduction
<1>5. PICK f : f = [n \in Chs |-> f[n]] /\ Good(f, Len(s))
  BY <1>4
<1> HIDE DEF S
<1>6. f = Body(f)
  <2>1. ASSUME NEW n \in Chs
        PROVE  f[n] = Val(f, n)
    <3>1. n <= Len(s)
      BY <1>1
    <3>2. Good(f, Len(s))
      BY <1>5
    <3> QED
      BY <3>1, <3>2
  <2> QED
    BY <1>5, <2>1
<1> DEFINE typed == CHOOSE h : h = Body(h)
<1>7. typed = Body(typed)
  <2> HIDE DEF Body
  <2> QED
    BY <1>6
<1>8. Page!After(p, s) = typed[Len(s)]
  BY DEF Page!After
<1> HIDE DEF typed
<1>9. \A n \in Chs : typed[n] = Val(typed, n)
  BY <1>7
<1>10. 0 \in Chs /\ \A n \in 1..Len(s) : n \in Chs /\ n # 0
  BY <1>1
<1> QED
  BY <1>8, <1>9, <1>10


\* A text without its first character stands behind one with it.
LEMMA AppendTail ==
    ASSUME NEW S, NEW t \in Seq(S), NEW s \in Seq(S), s # <<>>
    PROVE  Append(t, Head(s)) \o Tail(s) = t \o s
<1>1. Head(s) \in S /\ Tail(s) \in Seq(S) /\ s = <<Head(s)>> \o Tail(s)
  <2>1. /\ Head(s) \in S /\ Head(s) = s[1] /\ Tail(s) \in Seq(S) /\ Len(Tail(s)) = Len(s) - 1
        /\ Len(s) \in Nat \ {0} /\ \A n \in 1..Len(Tail(s)) : Tail(s)[n] = s[n + 1]
    BY HeadTailProperties
  <2> DEFINE h == <<Head(s)>>
             v == Tail(s)
             q == h \o v
  <2>2. h \in Seq(S) /\ Len(h) = 1 /\ h[1] = s[1]
    BY <2>1
  <2> HIDE DEF h, v
  <2>3. /\ q \in Seq(S) /\ Len(q) = 1 + Len(v)
        /\ \A n \in 1..(1 + Len(v)) : q[n] = IF n <= 1 THEN h[n] ELSE v[n - 1]
    <3>1. v \in Seq(S)
      BY <2>1 DEF v
    <3>2. /\ h \o v \in Seq(S) /\ Len(h \o v) = Len(h) + Len(v)
          /\ \A n \in 1..(Len(h) + Len(v)) : (h \o v)[n] = IF n <= Len(h) THEN h[n] ELSE v[n - Len(h)]
      BY <2>2, <3>1, ConcatProperties
    <3> QED
      BY <2>2, <3>2
  <2> HIDE DEF q
  <2>4. Len(v) = Len(s) - 1 /\ \A n \in 1..Len(v) : v[n] = s[n + 1]
    BY <2>1 DEF v
  <2>5. Len(q) = Len(s)
    BY <2>1, <2>3, <2>4
  <2>6. ASSUME NEW n \in 1..Len(q)
        PROVE  q[n] = s[n]
    <3>1. n \in 1..(1 + Len(v)) /\ (n = 1 \/ (~(n <= 1) /\ n - 1 \in 1..Len(v) /\ (n - 1) + 1 = n))
      BY <2>1, <2>3, <2>4
    <3> QED
      BY <2>2, <2>3, <2>4, <3>1
  <2>7. q = s
    BY <2>3, <2>5, <2>6, SeqEqual
  <2> QED
    BY <2>1, <2>7 DEF q, h, v
<1>2. PICK c : c = Head(s)
  OBVIOUS
<1>3. PICK v : v = Tail(s)
  OBVIOUS
<1>4. c \in S /\ v \in Seq(S) /\ s = <<c>> \o v /\ <<c>> \in Seq(S)
  BY <1>1, <1>2, <1>3
<1>5. Append(t, c) = t \o <<c>>
  BY <1>4, AppendIsConcat
<1>6. (t \o <<c>>) \o v = t \o (<<c>> \o v)
  BY <1>4, ConcatAssociative
<1> QED
  BY <1>2, <1>3, <1>4, <1>5, <1>6

\* A text that nobody takes for a number, behind another one.
LEMMA NoNumberConcat ==
    ASSUME NEW t \in Seq(Chars), NEW s \in Seq(Chars), \A k \in 1..Len(t) : t[k] # "\n", NoNumber(t), NoNumber(s)
    PROVE  NoNumber(t \o s)
<1> DEFINE q == t \o s
           D == ToSet(Digits) \cup {Space, "\n"}
<1>1. Len(t) \in Nat /\ Len(s) \in Nat /\ DOMAIN t = 1..Len(t) /\ DOMAIN s = 1..Len(s)
  OBVIOUS
<1>2. /\ q \in Seq(Chars) /\ Len(q) = Len(t) + Len(s) /\ DOMAIN q = 1..(Len(t) + Len(s))
      /\ \A k \in 1..(Len(t) + Len(s)) : q[k] = IF k <= Len(t) THEN t[k] ELSE s[k - Len(t)]
  BY ConcatProperties
<1>3. CASE t = <<>>
  BY <1>3, ConcatEmptySeq
<1>4. CASE t # <<>>
  <2>1. t # <<"\n">>
    OBVIOUS
  <2>2. ~(ToSet(t) \subseteq D)
    BY <1>4, <2>1, Zenon DEF NoNumber, Space
  <2> HIDE DEF q, D
  <2>3. PICK k \in 1..Len(t) : t[k] \notin D
    BY <1>1, <2>2, Zenon DEF ToSet
  <2>4. k \in DOMAIN q /\ q[k] = t[k]
    BY <1>1, <1>2
  <2>5. ~(ToSet(q) \subseteq D)
    BY <2>3, <2>4, Zenon DEF ToSet
  <2> QED
    BY <2>5, Zenon DEF NoNumber, Space, D, q
<1> QED
  BY <1>3, <1>4

\* The line of the handler ends the line of the page, and the count stays as it is.
LEMMA WriteOn ==
    ASSUME NEW p, NEW t, Ends(p, t), LineWithin(KeyText, VGA_WIDTH), \A k \in 1..Len(KeyText) : KeyText[k] # "\r",
           Len(t) + Len(KeyText) <= VGA_WIDTH, NoNumber(t \o KeyText),
           NEW m \in Nat, Counted(p, m)
    PROVE  Ends(Page!After(p, KeyText), <<>>) /\ Counted(Page!After(p, KeyText), m)
<1> DEFINE L == Len(KeyText)
           T == Len(t)
           u == t \o KeyText
<1>1. /\ KeyText \in Seq(Chars) /\ L \in Nat \ {0} /\ VGA_WIDTH \in Nat
      /\ \A n \in 1..L : KeyText[n] \in Chars /\ (KeyText[n] = "\n" <=> n = L)
      /\ t \in Seq(Chars) /\ T \in Nat
  <2>1. KeyText \in Seq(Chars) /\ KeyText # <<>> /\ \A n \in DOMAIN KeyText : KeyText[n] = "\n" <=> n = Len(KeyText)
    BY Zenon DEF LineWithin
  <2>2. t \in Seq(Chars)
    BY DEF Ends
  <2> QED
    BY <2>1, <2>2, Rooms
<1>2. /\ u \in Seq(Chars) /\ Len(u) = T + L
      /\ \A k \in 1..(T + L) : u[k] = IF k <= T THEN t[k] ELSE KeyText[k - T]
  BY <1>1, ConcatProperties
<1>3. PICK w : /\ Page!After(p, KeyText) = w[L] /\ w[0] = p
               /\ \A n \in 1..L : w[n] = Page!Typed(w[n - 1], KeyText[n])
  <2>1. PICK s : s = KeyText
    OBVIOUS
  <2>2. s \in Seq(Chars)
    BY <1>1, <2>1
  <2>3. \E f : /\ Page!After(p, s) = f[Len(s)] /\ f[0] = p
               /\ \A n \in 1..Len(s) : f[n] = Page!Typed(f[n - 1], s[n])
    BY <2>2, AfterDefined
  <2> QED
    BY <2>1, <2>3
<1> HIDE DEF u
<1> DEFINE Good(k, v) == /\ Ends(w[k], v) /\ Len(v) = T + k /\ \A j \in 1..(T + k) : v[j] = u[j]
                         /\ \A n : Counted(p, n) => Counted(w[k], n)
           S == {k \in Nat : k < L => \E v : Good(k, v)}
<1>4. 0 \in S
  <2>1. \A j \in 1..(T + 0) : t[j] = u[j]
    <3>1. \A j \in 1..(T + 0) : j \in 1..(T + L) /\ j <= T
      BY <1>1
    <3> QED
      BY <1>2, <3>1
  <2>2. Good(0, t)
    BY <1>1, <1>3, <2>1
  <2> HIDE DEF Good
  <2> QED
    BY <2>2
<1>5. ASSUME NEW k \in S
      PROVE  k + 1 \in S
  <2> SUFFICES ASSUME k + 1 < L
               PROVE  \E v : Good(k + 1, v)
    OBVIOUS
  <2>1. k \in Nat /\ k < L /\ k + 1 \in 1..L /\ (k + 1) - 1 = k /\ k + 1 # L
    BY <1>1
  <2>2. PICK v : Good(k, v)
    <3> HIDE DEF Good
    <3> QED
      BY <2>1
  <2> DEFINE c == KeyText[k + 1]
  <2>3. c \in Chars /\ c \notin {"\n", "\r"} /\ w[k + 1] = Page!Typed(w[k], c)
    BY <1>1, <1>3, <2>1
  <2> PICK d : d = c
    OBVIOUS
  <2>4. Ends(w[k], v) /\ Len(v) = T + k /\ Len(v) + 1 < VGA_WIDTH /\ d \in Chars /\ d \notin {"\n", "\r"}
    <3>1. Len(v) = T + k
      BY <2>2
    <3>2. T + k + 1 < VGA_WIDTH
      BY <1>1, <2>1
    <3> QED
      BY <2>2, <2>3, <3>1, <3>2
  <2> PICK q : q = w[k]
    OBVIOUS
  <2>5. /\ Ends(Page!Typed(q, d), Append(v, d)) /\ \A n : Counted(q, n) => Counted(Page!Typed(q, d), n)
    <3>1. Ends(q, v) /\ Len(v) + 1 < VGA_WIDTH
      BY <2>4
    <3> HIDE DEF c, Good
    <3> QED
      BY <2>4, <3>1, TypeChar
  <2>6. v \in Seq(Chars)
    BY <2>4 DEF Ends
  <2>7. /\ Len(Append(v, d)) = T + k + 1 /\ Append(v, d)[T + k + 1] = d
        /\ \A j \in 1..(T + k) : Append(v, d)[j] = v[j]
    BY <2>4, <2>6, AppendProperties
  <2> PICK a : a = Append(v, d)
    OBVIOUS
  <2>8. ASSUME NEW j \in 1..(T + (k + 1))
        PROVE  a[j] = u[j]
    <3>1. CASE j = T + k + 1
      <4>1. j \in 1..(T + L) /\ ~(j <= T) /\ j - T = k + 1
        BY <1>1, <2>1, <3>1
      <4> QED
        BY <1>2, <2>7, <3>1, <4>1
    <3>2. CASE j # T + k + 1
      <4>1. j \in 1..(T + k)
        <5> HIDE DEF T, S, L, Good
        <5> QED
          BY <1>1, <2>1, <3>2
      <4> QED
        BY <2>2, <2>7, <4>1
    <3> QED
      BY <3>1, <3>2
  <2>9. Len(a) = T + (k + 1)
    BY <1>1, <2>1, <2>7
  <2>10. w[k + 1] = Page!Typed(q, d)
    BY <2>3
  <2>11. \A n : Counted(p, n) => Counted(w[k + 1], n)
    BY <2>2, <2>5, <2>10, Zenon
  <2>12. Good(k + 1, a)
    BY <2>5, <2>8, <2>9, <2>10, <2>11, Zenon
  <2> HIDE DEF Good
  <2> QED
    BY <2>12
<1>6. PICK v : Good(L - 1, v)
  <2>1. S \in SUBSET Nat /\ L - 1 \in Nat /\ L - 1 < L
    BY <1>1
  <2>2. L - 1 \in S
    <3> HIDE DEF S
    <3> QED
      BY <1>4, <1>5, <2>1, SetInduction
  <2> HIDE DEF Good
  <2> QED
    BY <2>1, <2>2
<1>7. w[L] = Page!Typed(w[L - 1], "\n")
  <2>1. L \in 1..L
    BY <1>1
  <2> QED
    BY <1>1, <1>3, <2>1
<1>8. /\ v \in Seq(Chars) /\ Len(v) = T + L - 1 /\ Len(v) < VGA_WIDTH /\ (\A k \in 1..Len(v) : v[k] # "\n")
      /\ Ends(w[L - 1], v)
  <2>1. Len(v) = T + (L - 1) /\ Ends(w[L - 1], v)
    BY <1>6
  <2> QED
    BY <1>1, <2>1 DEF Ends
<1>9. v \o <<"\n">> = u
  <2>1. "\n" \in Chars
    <3>1. L \in 1..L
      BY <1>1
    <3>2. KeyText[L] = "\n" /\ KeyText[L] \in Chars
      BY <1>1, <3>1
    <3> HIDE DEF L, Good
    <3> QED
      BY <3>2
  <2>2. v \o <<"\n">> = Append(v, "\n")
    BY <1>8, <2>1, AppendIsConcat
  <2> DEFINE a == Append(v, "\n")
  <2>3. /\ a \in Seq(Chars) /\ Len(a) = Len(v) + 1 /\ (\A k \in 1..Len(v) : a[k] = v[k]) /\ a[Len(v) + 1] = "\n"
    BY <1>8, <2>1, AppendProperties
  <2> HIDE DEF a
  <2>4. Len(a) = Len(u)
    BY <1>1, <1>2, <1>8, <2>3
  <2>5. ASSUME NEW k \in 1..Len(a)
        PROVE  a[k] = u[k]
    <3>1. Len(v) + 1 = T + L
      BY <1>1, <1>8
    <3>2. CASE k = T + L
      <4>1. k \in 1..(T + L) /\ ~(k <= T) /\ k - T = L /\ L \in 1..L
        BY <1>1, <3>2
      <4> QED
        BY <1>1, <1>2, <2>3, <3>1, <3>2, <4>1
    <3>3. CASE k # T + L
      <4>1. k \in 1..Len(v) /\ k \in 1..(T + (L - 1))
        BY <1>1, <1>8, <2>3, <3>1, <3>3
      <4> QED
        BY <1>6, <2>3, <4>1
    <3> QED
      BY <3>2, <3>3
  <2>6. a = u
    BY <1>2, <2>3, <2>4, <2>5, SeqEqual
  <2> QED
    BY <2>2, <2>6 DEF a
<1>10. NumberOn(RowOf(v)) = <<>>
  <2>1. NoNumber(v \o <<"\n">>)
    BY <1>9 DEF u
  <2> HIDE DEF Good
  <2> QED
    BY <1>8, <2>1, NoNumberOn
<1>11. PICK q : q = w[L - 1]
  OBVIOUS
<1>12. Ends(Page!Typed(q, "\n"), <<>>) /\ Counted(Page!Typed(q, "\n"), m)
  <2>1. Ends(q, v) /\ Counted(q, m)
    BY <1>6, <1>8, <1>11
  <2> HIDE DEF Good
  <2> QED
    BY <1>10, <2>1, TypeEnd, Zenon
<1>13. Page!After(p, KeyText) = Page!Typed(q, "\n")
  BY <1>3, <1>7, <1>11
<1> QED
  BY <1>12, <1>13, Zenon

-----------------------------------------------------------------------------
(* The numbers count up.                                                   *)

\* A text that is no number and does not go back on its line.
Plain(s) == s \in Seq(Chars) /\ NoNumber(s) /\ \A k \in DOMAIN s : s[k] # "\r"

\* A number is being printed, and its text has been begun.
Pending == at = "loop" /\ line > 0 /\ todo = <<>> /\ text # <<>>

\* How many numbers have been printed.
Done == IF at = "loop" /\ line > 0 /\ (todo # <<>> \/ text # <<>>) THEN line - 1 ELSE line

\* What stands on the last line, together with what the running call has to print.
Unfinished(t) == IF Pending THEN t \o text = log(inttostr(line - 1)) ELSE NoNumber(t \o text)

\* What is still to be printed.
Awaited ==
    IF at = "loop" /\ line > 0 THEN todo \in {<<>>, <<log(inttostr(line - 1))>>}
                               ELSE \A k \in DOMAIN todo : Plain(todo[k])

\* The page shows the numbers that have been printed, and may be about to show one more.
ShowsNumbers == \E t : Ends(Now, t) /\ Counted(Now, Done) /\ Unfinished(t)

CountInv ==
    /\ Awaited
    /\ at \notin {"loop", "halted"} => line = 0
    /\ \A k \in DOMAIN text : text[k] # "\r"
    /\ "console" \in up /\ ~mixed => ShowsNumbers

\* All texts but the numbers are plain.
LEMMA PlainTexts ==
    ASSUME TextsFit
    PROVE  /\ Plain(KeyText) /\ Plain(log(Message)) /\ Plain(LastMessage) /\ Plain(log(LastMessage))
           /\ Plain(PanicMark) /\ Plain(PanicMessage)
           /\ \A g \in Behind : Plain(log(g)) /\ Plain(log(hex(33, g)))
<1>1. ASSUME NEW s, s \in {KeyText, log(Message), LastMessage, log(LastMessage), PanicMark, PanicMessage}
                          \cup {log(g) : g \in Behind} \cup {log(hex(33, g)) : g \in Behind},
             s \in Seq(Chars)
      PROVE  Plain(s)
  <2>1. NoNumber(s) /\ "\r" \notin ToSet(s)
    BY <1>1, NumbersAssumption, Zenon
  <2>2. \A k \in DOMAIN s : s[k] # "\r"
    BY <2>1, Zenon DEF ToSet
  <2> QED
    BY <1>1, <2>1, <2>2, Zenon DEF Plain
<1>2. /\ KeyText \in Seq(Chars) /\ log(Message) \in Seq(Chars) /\ log(LastMessage) \in Seq(Chars)
      /\ LastMessage \in Seq(Chars) /\ PanicMark \in Seq(Chars) /\ PanicMessage \in Seq(Chars)
      /\ \A g \in Behind : log(g) \in Seq(Chars) /\ log(hex(33, g)) \in Seq(Chars)
  BY Zenon DEF TextsFit, LineWithin, Unended
<1> QED
  BY <1>1, <1>2, Zenon

\* A number is printed with digits and ends its line.
LEMMA NumeralLine ==
    ASSUME NEW n \in Nat
    PROVE  /\ \A k \in DOMAIN log(inttostr(n)) : log(inttostr(n))[k] # "\r"
           /\ \A t \in Seq(Chars), c \in Chars : t \o <<c>> = log(inttostr(n)) => t = inttostr(n) /\ c = "\n"
<1>1. PICK p : p = inttostr(n)
  OBVIOUS
<1> DEFINE S == Chars \cup ToSet(Digits) \cup {"\n"}
<1>2. p \in Seq(ToSet(Digits)) /\ Len(p) \in Nat /\ "\n" \in S
  BY <1>1, NumeralRight
<1>3. p \in Seq(S)
  BY <1>2
<1>4. log(p) = p \o <<"\n">>
  BY DEF log
<1>5. log(p) = Append(p, "\n")
  BY <1>2, <1>3, <1>4, AppendIsConcat
<1>6. ASSUME NEW k \in DOMAIN log(p)
      PROVE  log(p)[k] # "\r"
  <2> DEFINE a == Append(p, "\n")
  <2>1. /\ DOMAIN a = 1..(Len(p) + 1) /\ a[Len(p) + 1] = "\n" /\ \A j \in 1..Len(p) : a[j] = p[j] /\ p[j] \in ToSet(Digits)
    BY <1>2
  <2>2. "\r" \notin ToSet(Digits)
    BY NumbersAssumption, Zenon
  <2> HIDE DEF a
  <2>3. k \in 1..(Len(p) + 1)
    BY <1>5, <2>1 DEF a
  <2>4. k = Len(p) + 1 \/ k \in 1..Len(p)
    BY <1>2, <2>3
  <2>5. a[k] # "\r"
    BY <2>1, <2>2, <2>4
  <2> QED
    BY <1>5, <2>5 DEF a
<1>7. ASSUME NEW t \in Seq(Chars), NEW c \in Chars, t \o <<c>> = log(p)
      PROVE  t = p /\ c = "\n"
  <2>1. t \in Seq(S) /\ c \in S
    OBVIOUS
  <2> HIDE DEF S
  <2>2. t \o <<c>> = Append(t, c)
    BY <2>1, AppendIsConcat
  <2>3. Append(t, c) = Append(p, "\n")
    BY <1>5, <1>7, <2>2
  <2> QED
    BY <1>2, <1>3, <2>1, <2>3, AppendInjective
<1> QED
  BY <1>1, <1>6, <1>7

\* A text of one character.
LEMMA OneLeft ==
    ASSUME NEW S, NEW s \in Seq(S), s # <<>>, Len(s) = 1 \/ Tail(s) = <<>>
    PROVE  s = <<s[1]>>
<1>1. Len(s) = 1 /\ s[1] \in S
  <2>1. Len(s) \in Nat \ {0} /\ \A n \in 1..Len(s) : s[n] \in S
    OBVIOUS
  <2>2. Tail(s) = <<>> => Len(s) - 1 = 0
    <3>1. Len(Tail(s)) = Len(s) - 1 /\ Len(<<>>) = 0
      BY HeadTailProperties
    <3> QED
      BY <3>1
  <2> QED
    BY <2>1, <2>2
<1>2. PICK q : q = <<s[1]>>
  OBVIOUS
<1>3. q \in Seq(S) /\ Len(q) = 1 /\ q[1] = s[1]
  BY <1>1, <1>2
<1>4. \A n \in 1..Len(s) : n = 1
  BY <1>1
<1> QED
  BY <1>1, <1>2, <1>3, <1>4, SeqEqual

\* The next character of the text is put on the page.
LEMMA TypesNumbers ==
    ASSUME TextsFit, ScreenInv, Counting, Types, UNCHANGED <<at, todo, line>>, ShowsNumbers,
           \A k \in DOMAIN text : text[k] # "\r"
    PROVE  ShowsNumbers'
<1>1. PICK t : Ends(Now, t) /\ Counted(Now, Done) /\ Unfinished(t)
  BY DEF ShowsNumbers
<1>2. PICK c : c = Head(text)
  OBVIOUS
<1>3. PICK s : s = text
  OBVIOUS
<1>4. /\ s \in Seq(Chars) /\ s # <<>> /\ c = s[1] /\ 1 \in DOMAIN s /\ c \in Chars /\ c # "\r"
      /\ text' = Tail(s) /\ Tail(s) \in Seq(Chars)
      /\ (c # "\n" => Now.at + 1 < VGA_WIDTH) /\ Now' = Page!Typed(Now, c)
      /\ (c = "\n" => Len(s) = 1)
  <2>1. s \in Seq(Chars) /\ s # <<>> /\ (\A k \in DOMAIN s : s[k] # "\r") /\ \A k \in DOMAIN s : s[k] = "\n" => k = Len(s)
    BY <1>3 DEF ScreenInv, Texts, Types
  <2>2. Head(s) = s[1] /\ 1 \in DOMAIN s /\ Tail(s) \in Seq(Chars)
    BY <2>1
  <2> QED
    BY <1>2, <1>3, <2>1, <2>2 DEF Types
<1>5. Done \in Nat /\ line \in Nat /\ (Pending => line - 1 \in Nat)
  BY DEF Counting, Done, Pending
<1>6. t \in Seq(Chars) /\ Len(t) \in Nat /\ Len(t) < VGA_WIDTH /\ (\A k \in 1..Len(t) : t[k] # "\n") /\ Now.at = Len(t)
  BY <1>1 DEF Ends
<1>7. PICK P : P = Now
  OBVIOUS
<1>8. CASE c = "\n"
  <2>1. s = <<"\n">> /\ text' = <<>>
    <3>1. s = <<s[1]>>
      BY <1>4, <1>8, OneLeft
    <3>2. Tail(s) = <<>>
      BY <1>4, <1>8
    <3> QED
      BY <1>4, <1>8, <3>1, <3>2
  <2>2. ~Pending' /\ Done' = IF Pending THEN line ELSE Done
    BY <1>3, <1>4, <2>1 DEF Pending, Done
  <2>3. Unfinished(<<>>)'
    <3>1. <<>> \o <<>> = <<>>
      OBVIOUS
    <3>2. NoNumber(<<>>)
      BY Zenon DEF NoNumber
    <3> QED
      BY <2>1, <2>2, <3>1, <3>2 DEF Unfinished
  <2>4. Ends(P, t) /\ Counted(P, Done) /\ Now' = Page!Typed(P, "\n")
    BY <1>1, <1>4, <1>7, <1>8
  <2>5. /\ Ends(Page!Typed(P, "\n"), <<>>)
        /\ NumberOn(RowOf(t)) = <<>> => Counted(Page!Typed(P, "\n"), Done)
        /\ NumberOn(RowOf(t)) = <<Done>> => Counted(Page!Typed(P, "\n"), Done + 1)
    BY <1>5, <2>4, TypeEnd, Zenon
  <2>6. Counted(Now', Done')
    <3>1. CASE Pending
      <4>1. t \o <<"\n">> = log(inttostr(line - 1)) /\ Done = line - 1
        BY <1>1, <1>3, <2>1, <3>1 DEF Unfinished, Pending, Done
      <4>2. t = inttostr(line - 1)
        BY <1>4, <1>5, <1>6, <1>8, <3>1, <4>1, NumeralLine
      <4>3. PICK n : n = line - 1
        OBVIOUS
      <4>4. n \in Nat /\ t = inttostr(n) /\ Len(inttostr(n)) < VGA_WIDTH /\ n + 1 = line /\ n = Done
        BY <1>5, <1>6, <3>1, <4>1, <4>2, <4>3
      <4>5. NumberOn(RowOf(t)) = <<n>>
        BY <4>4, NumeralOn
      <4>6. Counted(Page!Typed(P, "\n"), n + 1)
        BY <2>5, <4>4, <4>5, Zenon
      <4> QED
        BY <2>2, <2>4, <3>1, <4>4, <4>6
    <3>2. CASE ~Pending
      <4>1. NoNumber(t \o <<"\n">>)
        BY <1>1, <1>3, <2>1, <3>2, Zenon DEF Unfinished
      <4>2. NumberOn(RowOf(t)) = <<>>
        BY <1>6, <4>1, NoNumberOn
      <4> QED
        BY <2>2, <2>4, <2>5, <3>2, <4>2, Zenon
    <3> QED
      BY <3>1, <3>2
  <2>7. Ends(Now', <<>>)
    BY <2>4, <2>5, Zenon
  <2> QED
    BY <2>3, <2>6, <2>7, Zenon DEF ShowsNumbers
<1>9. CASE c # "\n"
  <2>1. Ends(P, t) /\ Len(t) + 1 < VGA_WIDTH /\ c \notin {"\n", "\r"} /\ Now' = Page!Typed(P, c) /\ Counted(P, Done)
    BY <1>1, <1>4, <1>6, <1>7, <1>9
  <2>2. Ends(Page!Typed(P, c), Append(t, c)) /\ \A n : Counted(P, n) => Counted(Page!Typed(P, c), n)
    BY <1>4, <2>1, TypeChar
  <2>3. Append(t, c) \o Tail(s) = t \o s
    BY <1>2, <1>3, <1>4, <1>6, AppendTail
  <2>4. Pending => Tail(s) # <<>>
    <3> SUFFICES ASSUME Pending, Tail(s) = <<>>
                 PROVE  FALSE
      OBVIOUS
    <3>1. s = <<c>>
      BY <1>4, OneLeft
    <3>2. t \o <<c>> = log(inttostr(line - 1))
      BY <1>1, <1>3, <3>1 DEF Unfinished
    <3> QED
      BY <1>4, <1>5, <1>6, <1>9, <3>2, NumeralLine
  <2>5. Pending' = Pending /\ Done' = Done
    BY <1>3, <1>4, <2>4 DEF Pending, Done
  <2>6. Unfinished(Append(t, c))'
    BY <1>1, <1>3, <1>4, <2>3, <2>5 DEF Unfinished
  <2>7. Ends(Now', Append(t, c)) /\ Counted(Now', Done')
    BY <2>1, <2>2, <2>5, Zenon
  <2> QED
    BY <2>6, <2>7, Zenon DEF ShowsNumbers
<1> QED
  BY <1>8, <1>9

\* A step of a running call.
LEMMA PrintStepNumbers ==
    ASSUME TextsFit, ScreenInv, ScreenInv', PageInv, Counting, CountInv, GoOnPrinting
    PROVE  CountInv'
<1>1. PrintStep /\ UNCHANGED <<at, todo, line, up, mixed>> /\ text' \in {text, Tail(text)}
      /\ (text' = Tail(text) => text # <<>> \/ text' = text)
  <2>1. PrintStep /\ UNCHANGED <<at, todo, line, up, mixed>>
    BY Zenon DEF GoOnPrinting, PrintStep
  <2>2. CASE FetchControl
    BY <2>1, <2>2, Zenon DEF FetchControl
  <2>3. CASE Put
    <3>1. text # <<>>
      BY <2>3, Zenon DEF ScreenInv, Texts, Put
    <3> QED
      BY <2>1, <2>3, <3>1, Zenon DEF Put
  <2>4. CASE ScrollRow \/ EndScroll \/ Fetch \/ LoadCol \/ StoreCol \/ ResetCol \/ LoadRow \/ StoreRow \/ Return
    BY <2>1, <2>4, Zenon DEF ScrollRow, EndScroll, Fetch, LoadCol, StoreCol, ResetCol, LoadRow, StoreRow, Return
  <2> QED
    BY <2>1, <2>2, <2>3, <2>4, Zenon DEF PrintStep
<1>2. \A k \in DOMAIN text' : text'[k] # "\r"
  <2>1. text \in Seq(Chars) /\ \A k \in DOMAIN text : text[k] # "\r"
    BY DEF CountInv, ScreenInv, Texts
  <2>2. PICK s : s = text
    OBVIOUS
  <2>3. s # <<>> => \A k \in DOMAIN Tail(s) : k + 1 \in DOMAIN s /\ Tail(s)[k] = s[k + 1]
    BY <2>1, <2>2, HeadOf
  <2>4. CASE text' = text
    BY <2>1, <2>4
  <2>5. CASE text' # text
    <3>1. text' = Tail(s) /\ s # <<>>
      BY <1>1, <2>2, <2>5
    <3> QED
      BY <2>1, <2>2, <2>3, <3>1
  <2> QED
    BY <2>4, <2>5
<1>3. Awaited' /\ (at' \notin {"loop", "halted"} => line' = 0)
  BY <1>1 DEF CountInv, Awaited
<1>4. ASSUME "console" \in up, ~mixed
      PROVE  ShowsNumbers'
  <2>1. Steady /\ ShowsNumbers
    BY <1>4 DEF PageInv, CountInv
  <2>2. (Now' = Now /\ text' = text) \/ Types
    BY <1>1, <2>1, PrintStepOnPage
  <2>3. CASE Types
    BY <1>1, <2>1, <2>3, TypesNumbers DEF CountInv
  <2>4. CASE Now' = Now /\ text' = text
    BY <1>1, <2>1, <2>4 DEF ShowsNumbers, Done, Unfinished, Pending
  <2> QED
    BY <2>2, <2>3, <2>4
<1> QED
  BY <1>1, <1>2, <1>3, <1>4 DEF CountInv

\* The next text is printed.
LEMMA PrintTextNumbers ==
    ASSUME TextsFit, ScreenInv, ScreenInv', PageInv, Counting, CountInv, PrintText
    PROVE  CountInv'
<1>1. /\ todo # <<>> /\ text' = Head(todo) /\ todo' = Tail(todo) /\ pc = "idle" /\ text = <<>>
      /\ UNCHANGED <<at, line, up, mixed>> /\ line \in Nat
  <2>1. /\ todo # <<>> /\ text' = Head(todo) /\ todo' = Tail(todo) /\ pc = "idle" /\ UNCHANGED <<at, line, up, mixed>>
    BY Zenon DEF PrintText, Call
  <2>2. text = <<>> /\ line \in Nat
    BY <2>1 DEF ScreenInv, Texts, Counting
  <2> QED
    BY <2>1, <2>2
<1>2. PICK w : w = todo
  OBVIOUS
<1>3. PICK n : n = line - 1
  OBVIOUS
<1> DEFINE Counts == at = "loop" /\ line > 0
<1>4. Counts => w = <<log(inttostr(n))>> /\ n \in Nat
  BY <1>1, <1>2, <1>3 DEF CountInv, Awaited
<1>5. Counts => text' = log(inttostr(n)) /\ text' # <<>> /\ todo' = <<>>
  <2> SUFFICES ASSUME Counts
               PROVE  text' = log(inttostr(n)) /\ text' # <<>> /\ todo' = <<>>
    OBVIOUS
  <2>1. PICK a : a = log(inttostr(n))
    OBVIOUS
  <2>2. w = <<a>>
    BY <1>4, <2>1
  <2>3. Head(w) = a /\ Tail(w) = <<>>
    BY <2>2
  <2>4. PICK p : p = inttostr(n)
    OBVIOUS
  <2>5. p \in Seq(ToSet(Digits))
    BY <1>4, <2>4, NumeralRight
  <2>6. Len(p \o <<"\n">>) = Len(p) + 1 /\ Len(p) \in Nat /\ Len(<<>>) = 0
    BY <2>5
  <2>7. a # <<>>
    BY <2>1, <2>4, <2>6 DEF log
  <2> QED
    BY <1>1, <1>2, <2>1, <2>3, <2>7
<1>6. ~Counts => Plain(text') /\ \A k \in DOMAIN todo' : Plain(todo'[k])
  <2> SUFFICES ASSUME ~Counts
               PROVE  Plain(text') /\ \A k \in DOMAIN todo' : Plain(todo'[k])
    OBVIOUS
  <2>1. \A k \in DOMAIN w : Plain(w[k])
    BY <1>2 DEF CountInv, Awaited
  <2>2. \E S : w \in Seq(S)
    <3>1. CASE at = "halted"
      <4>1. todo \in {<<>>, <<log(LastMessage), LastMessage>>, <<LastMessage>>}
        BY <3>1 DEF ScreenInv, Unprinted
      <4>2. PICK a : a = log(LastMessage)
        OBVIOUS
      <4> PICK b : b = LastMessage
        OBVIOUS
      <4> DEFINE S == {a, b}
      <4>3. w \in {<<>>, <<a, b>>, <<b>>} /\ a \in S /\ b \in S
        BY <1>2, <4>1, <4>2
      <4> HIDE DEF S
      <4>4. <<>> \in Seq(S) /\ <<b>> \in Seq(S)
        BY <4>3
      <4>5. <<a, b>> \in Seq(S)
        BY <4>3
      <4> QED
        BY <4>3, <4>4, <4>5, Zenon
    <3>2. CASE at # "halted"
      <4>1. todo \in Seq(Seq(Chars))
        BY <3>2, TodoIs
      <4> QED
        BY <1>2, <4>1
    <3> QED
      BY <3>1, <3>2
  <2>3. PICK S : w \in Seq(S)
    BY <2>2
  <2>4. 1 \in DOMAIN w /\ Head(w) = w[1] /\ \A k \in DOMAIN Tail(w) : k + 1 \in DOMAIN w /\ Tail(w)[k] = w[k + 1]
    BY <1>1, <1>2, <2>3, HeadOf
  <2> QED
    BY <1>1, <1>2, <2>1, <2>4
<1>7. \A k \in DOMAIN text' : text'[k] # "\r"
  <2>1. CASE Counts
    BY <1>4, <1>5, <2>1, NumeralLine
  <2>2. CASE ~Counts
    BY <1>6, <2>2 DEF Plain
  <2> QED
    BY <2>1, <2>2
<1>8. Awaited' /\ (at' \notin {"loop", "halted"} => line' = 0)
  <2>1. at' \notin {"loop", "halted"} => line' = 0
    BY <1>1 DEF CountInv
  <2>2. CASE Counts
    BY <1>1, <1>5, <2>2 DEF Awaited
  <2>3. CASE ~Counts
    <3>1. ~(at' = "loop" /\ line' > 0)
      BY <1>1, <2>3
    <3>2. Awaited'
      BY <1>6, <2>3, <3>1, Zenon DEF Awaited
    <3> QED
      BY <2>1, <3>2
  <2> QED
    BY <2>1, <2>2, <2>3
<1>9. ASSUME "console" \in up, ~mixed
      PROVE  ShowsNumbers'
  <2>1. Steady
    BY <1>9 DEF PageInv
  <2>2. Now' = Now
    BY <2>1, CallOnPage
  <2>3. PICK t : Ends(Now, t) /\ Counted(Now, Done) /\ Unfinished(t)
    BY <1>9 DEF CountInv, ShowsNumbers
  <2>4. t \in Seq(Chars) /\ (\A k \in 1..Len(t) : t[k] # "\n") /\ Now.at = Len(t)
    BY <2>3 DEF Ends
  <2>5. NoNumber(t)
    <3>1. NoNumber(t \o <<>>)
      BY <1>1, <2>3 DEF Unfinished, Pending
    <3> QED
      BY <2>4, <3>1, ConcatEmptySeq
  <2>6. Done' = Done
    BY <1>1, <1>5 DEF Done
  <2>7. Unfinished(t)'
    <3>1. CASE Counts
      <4>1. Now = [lines |-> PageOf(screen, gone, row), at |-> col]
        BY <1>1, <2>1, PageIs, Zenon DEF PageByPlace
      <4>2. col = 0
        BY <1>1, <3>1, TodoIs
      <4>3. t = <<>>
        BY <2>4, <4>1, <4>2
      <4>4. PICK s : s = text'
        OBVIOUS
      <4>5. s \in Seq(Chars) /\ s # <<>>
        <5>1. (text \in Seq(Chars))'
          BY Zenon DEF ScreenInv, Texts
        <5> QED
          BY <1>5, <3>1, <4>4, <5>1
      <4>6. <<>> \o s = s
        BY <4>5, ConcatEmptySeq
      <4>7. Pending'
        BY <1>1, <1>5, <3>1, <4>4, <4>5 DEF Pending
      <4>8. s = log(inttostr(line' - 1))
        BY <1>1, <1>3, <1>5, <3>1, <4>4
      <4> QED
        BY <4>3, <4>4, <4>6, <4>7, <4>8 DEF Unfinished
    <3>2. CASE ~Counts
      <4>1. ~Pending'
        BY <1>1, <3>2 DEF Pending
      <4>2. PICK s : s = text'
        OBVIOUS
      <4>3. s \in Seq(Chars) /\ NoNumber(s)
        BY <1>6, <3>2, <4>2 DEF Plain
      <4>4. NoNumber(t \o s)
        BY <2>4, <2>5, <4>3, NoNumberConcat
      <4> QED
        BY <4>1, <4>2, <4>4 DEF Unfinished
    <3> QED
      BY <3>1, <3>2
  <2> QED
    BY <2>2, <2>3, <2>6, <2>7 DEF ShowsNumbers
<1> QED
  BY <1>1, <1>7, <1>8, <1>9 DEF CountInv

\* What a step of the boot, or one behind it, has to print.
LEMMA BootTodo ==
    ASSUME TextsFit, ScreenInv,
           \/ _start \/ ClearScreen \/ gdt_load \/ kheap_init \/ fs_init \/ disks_init \/ check_fs
           \/ idt_init \/ tss_load \/ paging_new_4gb \/ page_switch \/ enable_paging \/ sti \/ LastTexts \/ panic
    PROVE  \A k \in DOMAIN todo' : Plain(todo'[k])
<1> DEFINE T == log(Message)
           N == log(LastMessage)
           L == {s \in Seq(Chars) : Plain(s)}
<1>1. /\ T \in L /\ N \in L /\ LastMessage \in L /\ PanicMark \in L /\ PanicMessage \in L
      /\ \A g \in Behind : log(g) \in L /\ log(hex(33, g)) \in L
  BY PlainTexts, Zenon DEF Plain
<1>2. \/ todo' \in {<<>>, <<T, T, T>>, <<T, T>>, <<T>>, <<T, T, T, T>>}
      \/ \E g \in Behind : todo' \in {<<log(g)>>, <<T, T, log(hex(33, g)), T, T, T>>}
      \/ todo' \in {<<N>>, <<N, LastMessage>>, <<PanicMark, PanicMessage>>}
  <2>1. CASE panic
    <3>1. at = "panic" /\ pc = "idle" /\ todo' = (IF col # 0 THEN <<<<"\n">>>> ELSE <<>>) \o <<PanicMark, PanicMessage>>
      BY <2>1, Zenon DEF panic, Step
    <3>2. col = 0
      BY <3>1, TodoIs
    <3>3. todo' = <<>> \o <<PanicMark, PanicMessage>>
      BY <3>1, <3>2, Zenon
    <3>4. todo' = <<PanicMark, PanicMessage>>
      BY <3>3
    <3> QED
      BY <3>4, Zenon
  <2>2. CASE ~panic
    BY <2>2, Zenon DEF _start, ClearScreen, gdt_load, kheap_init, fs_init, disks_init, check_fs, idt_init, tss_load,
       paging_new_4gb, page_switch, enable_paging, sti, LastTexts, Step, ok, notice
  <2> QED
    BY <2>1, <2>2
<1>3. todo' \in Seq(L)
  <2> HIDE DEF T, N, L
  <2>1. CASE todo' \in {<<>>, <<T, T, T>>, <<T, T>>, <<T>>, <<T, T, T, T>>}
    <3>1. <<>> \in Seq(L) /\ <<T>> \in Seq(L)
      BY <1>1
    <3>2. <<T, T>> \in Seq(L)
      BY <1>1
    <3>3. <<T, T, T>> \in Seq(L)
      BY <1>1
    <3>4. <<T, T, T, T>> \in Seq(L)
      BY <1>1
    <3> QED
      BY <2>1, <3>1, <3>2, <3>3, <3>4, Zenon
  <2>2. ASSUME NEW g \in Behind, todo' \in {<<log(g)>>, <<T, T, log(hex(33, g)), T, T, T>>}
        PROVE  todo' \in Seq(L)
    <3> DEFINE a == log(g)
               b == log(hex(33, g))
    <3>1. a \in L /\ b \in L /\ T \in L /\ todo' \in {<<a>>, <<T, T, b, T, T, T>>}
      BY <1>1, <2>2
    <3> HIDE DEF a, b
    <3>2. <<a>> \in Seq(L)
      BY <3>1
    <3>3. <<T, T, b, T, T, T>> \in Seq(L)
      BY <3>1
    <3> QED
      BY <3>1, <3>2, <3>3, Zenon
  <2>3. CASE todo' \in {<<N>>, <<N, LastMessage>>, <<PanicMark, PanicMessage>>}
    <3>1. <<N>> \in Seq(L)
      BY <1>1
    <3>2. <<N, LastMessage>> \in Seq(L)
      BY <1>1
    <3>3. <<PanicMark, PanicMessage>> \in Seq(L)
      BY <1>1
    <3> QED
      BY <2>3, <3>1, <3>2, <3>3, Zenon
  <2> QED
    BY <1>2, <2>1, <2>2, <2>3, Zenon
<1>4. \A s \in L : Plain(s)
  OBVIOUS
<1> HIDE DEF L
<1> QED
  BY <1>3, <1>4

\* A step that brings a part up, or goes on behind the boot.
LEMMA BootNumbers ==
    ASSUME TextsFit, ScreenInv, PageInv, Counting, CountInv,
           \/ _start \/ gdt_load \/ kheap_init \/ fs_init \/ disks_init \/ check_fs \/ idt_init \/ tss_load
           \/ paging_new_4gb \/ page_switch \/ enable_paging \/ sti \/ LastTexts \/ panic
    PROVE  CountInv'
<1>1. /\ UNCHANGED <<consoleVars, line>> /\ todo = <<>> /\ pc = "idle"
      /\ (at' \in {"loop", "halted"} => (at' = "loop" /\ at = "sti") \/ at' = "halted")
      /\ ("console" \in up' => "console" \in up)
  <2>1. /\ UNCHANGED <<consoleVars, line>> /\ todo = <<>> /\ pc = "idle"
        /\ (at' = "loop" => at = "sti")
        /\ (up' = up \/ \E part \in {"gdt", "heap", "file systems", "disk", "idt", "tss", "chunk", "directory", "paging"} :
                           up' = up \cup {part})
    BY Zenon DEF _start, gdt_load, kheap_init, fs_init, disks_init, check_fs, idt_init, tss_load,
       paging_new_4gb, page_switch, enable_paging, sti, LastTexts, panic, Step, Brings
  <2> QED
    BY <2>1
<1>2. (at' # "halted" => at # "loop" /\ at # "halted") /\ (at' = "halted" => at = "loop")
  BY Zenon DEF _start, gdt_load, kheap_init, fs_init, disks_init, check_fs, idt_init, tss_load,
     paging_new_4gb, page_switch, enable_paging, sti, LastTexts, panic, Step
<1>3. /\ UNCHANGED <<screen, row, col, gone, pc, text, i, x, y, reg, mixed, torn>> /\ text = <<>>
  <2>1. UNCHANGED <<screen, row, col, gone, pc, text, i, x, y, reg, mixed, torn>>
    BY <1>1 DEF consoleVars, display, call
  <2> QED
    BY <1>1, <2>1 DEF ScreenInv, Texts
<1>4. ~(at' = "loop" /\ line' > 0) /\ (at' \notin {"loop", "halted"} => line' = 0)
  <2>1. at' # "halted" => line = 0
    BY <1>2 DEF CountInv
  <2> QED
    BY <1>1, <2>1
<1>5. Awaited'
  <2>1. \A k \in DOMAIN todo' : Plain(todo'[k])
    BY BootTodo
  <2> QED
    BY <1>4, <2>1, Zenon DEF Awaited
<1>6. \A k \in DOMAIN text' : text'[k] # "\r"
  BY <1>3 DEF CountInv
<1>7. ASSUME "console" \in up', ~mixed'
      PROVE  ShowsNumbers'
  <2>1. PICK t : Ends(Now, t) /\ Counted(Now, Done) /\ Unfinished(t)
    BY <1>1, <1>3, <1>7 DEF CountInv, ShowsNumbers
  <2>2. Now' = Now
    BY <1>3 DEF Now, PageLines, ScrolledLines, Visible, RowShown, OnNewLine, TypedCol
  <2>3. Done' = Done
    BY <1>1, <1>3, <1>4 DEF Done
  <2>4. ~Pending /\ ~Pending'
    BY <1>3 DEF Pending
  <2>5. Unfinished(t)'
    BY <1>3, <2>1, <2>4 DEF Unfinished
  <2> QED
    BY <2>1, <2>2, <2>3, <2>5 DEF ShowsNumbers
<1> QED
  BY <1>4, <1>5, <1>6, <1>7 DEF CountInv

\* The next number is to be printed.
LEMMA NumberedLineNumbers ==
    ASSUME ScreenInv, PageInv, Counting, CountInv, NumberedLine
    PROVE  CountInv'
<1>1. /\ UNCHANGED consoleVars /\ todo = <<>> /\ pc = "idle" /\ todo' = <<log(inttostr(line))>> /\ line' = line + 1
      /\ at = "loop" /\ at' = "loop" /\ up' = up
  BY Zenon DEF NumberedLine, Step
<1>2. /\ UNCHANGED <<screen, row, col, gone, pc, text, i, x, y, reg, mixed, torn>> /\ text = <<>> /\ line \in Nat
  <2>1. UNCHANGED <<screen, row, col, gone, pc, text, i, x, y, reg, mixed, torn>>
    BY <1>1 DEF consoleVars, display, call
  <2> QED
    BY <1>1, <2>1 DEF ScreenInv, Texts, Counting
<1>3. line' > 0 /\ line' - 1 = line /\ todo' # <<>>
  <2>1. PICK a : a = log(inttostr(line))
    OBVIOUS
  <2> QED
    BY <1>1, <1>2, <2>1
<1>4. Awaited'
  BY <1>1, <1>3 DEF Awaited
<1>5. \A k \in DOMAIN text' : text'[k] # "\r"
  BY <1>2 DEF CountInv
<1>6. ASSUME "console" \in up', ~mixed'
      PROVE  ShowsNumbers'
  <2>1. PICK t : Ends(Now, t) /\ Counted(Now, Done) /\ Unfinished(t)
    BY <1>1, <1>2, <1>6 DEF CountInv, ShowsNumbers
  <2>2. Now' = Now
    BY <1>2 DEF Now, PageLines, ScrolledLines, Visible, RowShown, OnNewLine, TypedCol
  <2>3. Done = line /\ Done' = line
    BY <1>1, <1>2, <1>3 DEF Done
  <2>4. ~Pending /\ ~Pending'
    BY <1>2 DEF Pending
  <2>5. Unfinished(t)'
    BY <1>2, <2>1, <2>4 DEF Unfinished
  <2> QED
    BY <2>1, <2>2, <2>3, <2>5 DEF ShowsNumbers
<1> QED
  BY <1>1, <1>4, <1>5, <1>6 DEF CountInv

\* The empty page shows no number.
LEMMA ClearNumbers ==
    ASSUME TextsFit, ScreenInv, ScreenInv', PageInv, CountInv, ClearScreen
    PROVE  CountInv'
<1>1. /\ at = "clear" /\ at' = "gdt" /\ line' = line /\ pc = "idle" /\ text' = text
  BY Zenon DEF ClearScreen, Step, clear, call
<1>2. line = 0 /\ text = <<>>
  BY <1>1 DEF CountInv, ScreenInv, Texts
<1>3. Awaited'
  <2>1. \A k \in DOMAIN todo' : Plain(todo'[k])
    BY BootTodo
  <2>2. ~(at' = "loop" /\ line' > 0)
    BY <1>1
  <2> QED
    BY <2>1, <2>2, Zenon DEF Awaited
<1>4. \A k \in DOMAIN text' : text'[k] # "\r"
  BY <1>1 DEF CountInv
<1>5. Now' = [lines |-> <<Blank>>, at |-> 0]
  <2>1. Unstarted
    BY <1>1 DEF PageInv
  <2> QED
    BY <2>1, ClearOnPage
<1> PICK p : p = Now'
  OBVIOUS
<1> PICK q : q = <<Blank>>
  OBVIOUS
<1> PICK t : t = <<>>
  OBVIOUS
<1>6. p.lines = q /\ p.at = 0 /\ q \in Seq(Cells) /\ Len(q) = 1 /\ q[1] = Blank /\ q # <<>>
  <2>1. Blank \in Cells
    BY Rooms
  <2> QED
    BY <1>5, <2>1
<1>7. t \in Seq(Chars) /\ Len(t) = 0 /\ VGA_WIDTH \in Nat \ {0}
  BY Rooms
<1>8. RowOf(t) = Blank
  BY <1>7, RowOfIs
<1>9. Ends(p, t)
  BY <1>6, <1>7, <1>8 DEF Ends
<1>10. Counted(p, 0)
  <2> DEFINE w == [k \in 0..0 |-> t]
  <2>1. w[0] = t
    OBVIOUS
  <2>2. Numbers(0) = t
    <3>1. PICK v : v = Numbers(0)
      OBVIOUS
    <3>2. v = [k \in 1..0 |-> k - 1]
      BY <3>1 DEF Numbers
    <3> QED
      BY <3>1, <3>2
  <2> HIDE DEF w
  <2>3. w[0] = <<>> /\ w[Len(p.lines) - 1] = Numbers(0)
    BY <1>6, <2>1, <2>2
  <2>4. \A k \in 1..(Len(p.lines) - 1) : w[k] = w[k - 1] \o NumberOn(p.lines[k])
    BY <1>6
  <2> QED
    BY <2>3, <2>4, Zenon DEF Counted
<1>11. Done' = 0 /\ Unfinished(t)'
  <2>1. Done' = 0 /\ ~Pending'
    BY <1>1, <1>2 DEF Done, Pending
  <2>2. <<>> \o <<>> = <<>>
    OBVIOUS
  <2>3. NoNumber(<<>>)
    BY Zenon DEF NoNumber
  <2> QED
    BY <1>1, <1>2, <2>1, <2>2, <2>3 DEF Unfinished
<1>12. ShowsNumbers'
  BY <1>9, <1>10, <1>11, Zenon DEF ShowsNumbers
<1> QED
  BY <1>1, <1>2, <1>3, <1>4, <1>12 DEF CountInv

\* The handler prints a line.
LEMMA HandlerNumbers ==
    ASSUME TextsFit, ScreenInv, ScreenInv', PageInv, Counting, CountInv, interrupts,
           PrintInHandler(KeyText), UNCHANGED <<at, todo, line, up>>
    PROVE  CountInv'
<1>1. text' = text /\ (~mixed' => ~mixed /\ pc = "idle")
  BY Zenon DEF PrintInHandler, call
<1>2. Awaited' /\ (at' \notin {"loop", "halted"} => line' = 0) /\ \A k \in DOMAIN text' : text'[k] # "\r"
  BY <1>1 DEF CountInv, Awaited
<1>3. ASSUME "console" \in up', ~mixed'
      PROVE  ShowsNumbers'
  <2>1. Steady /\ ~mixed /\ pc = "idle" /\ text = <<>>
    BY <1>1, <1>3 DEF PageInv, ScreenInv, Texts
  <2>2. PICK t : Ends(Now, t) /\ Counted(Now, Done) /\ Unfinished(t)
    BY <1>3, <2>1 DEF CountInv, ShowsNumbers
  <2>3. Now' = Page!After(Now, KeyText)
    BY <1>3, <2>1, HandlerOnPage
  <2>4. /\ t \in Seq(Chars) /\ Len(t) \in Nat /\ (\A k \in 1..Len(t) : t[k] # "\n") /\ Now.at = Len(t)
    BY <2>2 DEF Ends
  <2>5. NoNumber(t)
    <3>1. NoNumber(t \o <<>>)
      BY <2>1, <2>2 DEF Unfinished, Pending
    <3> QED
      BY <2>4, <3>1, ConcatEmptySeq
  <2>6. Plain(KeyText) /\ LineWithin(KeyText, VGA_WIDTH)
    BY PlainTexts, Zenon DEF TextsFit
  <2>7. KeyText \in Seq(Chars) /\ NoNumber(KeyText) /\ \A k \in 1..Len(KeyText) : KeyText[k] # "\r"
    BY <2>6 DEF Plain
  <2>8. NoNumber(t \o KeyText)
    BY <2>4, <2>5, <2>7, NoNumberConcat
  <2>9. Len(t) + Len(KeyText) <= VGA_WIDTH
    <3>1. text \in Seq(Chars) /\ Fits(text, col) /\ col \in Nat
      BY Zenon DEF ScreenInv, Texts, Columns
    <3>2. Limit = Shared
      BY DEF Limit
    <3>3. col + Len(KeyText) <= VGA_WIDTH
      BY <3>1, <3>2, FitsBelow, Widths
    <3>4. Now = [lines |-> PageOf(screen, gone, row), at |-> col]
      BY <2>1, PageIs, Zenon DEF PageByPlace
    <3> QED
      BY <2>4, <3>3, <3>4
  <2>10. Done \in Nat /\ Done' = Done /\ ~Pending'
    BY <1>1, <2>1 DEF Done, Counting, Pending
  <2> PICK p : p = Now
    OBVIOUS
  <2> PICK m : m = Done
    OBVIOUS
  <2>11. Ends(Page!After(p, KeyText), <<>>) /\ Counted(Page!After(p, KeyText), m)
    <3>1. Ends(p, t) /\ Counted(p, m) /\ m \in Nat
      BY <2>2, <2>10
    <3> QED
      BY <2>6, <2>7, <2>8, <2>9, <3>1, WriteOn
  <2>12. Unfinished(<<>>)'
    <3>1. <<>> \o <<>> = <<>>
      OBVIOUS
    <3>2. NoNumber(<<>>)
      BY Zenon DEF NoNumber
    <3> QED
      BY <1>1, <2>1, <2>10, <3>1, <3>2 DEF Unfinished
  <2> QED
    BY <2>3, <2>10, <2>11, <2>12, Zenon DEF ShowsNumbers
<1> QED
  BY <1>2, <1>3 DEF CountInv

\* Nothing is printed.
LEMMA NumbersStay ==
    ASSUME CountInv, UNCHANGED <<consoleVars, at, todo, line, up>>
    PROVE  CountInv'
<1>1. UNCHANGED <<screen, row, col, gone, pc, text, i, x, y, reg, mixed, torn, at, todo, line, up>>
  BY DEF consoleVars, display, call
<1>2. Now' = Now
  BY <1>1 DEF Now, PageLines, ScrolledLines, Visible, RowShown, OnNewLine, TypedCol
<1>3. Done' = Done /\ Pending' = Pending
  BY <1>1 DEF Done, Pending
<1>4. ShowsNumbers' = ShowsNumbers
  BY <1>1, <1>2, <1>3 DEF ShowsNumbers, Unfinished
<1>5. Awaited' = Awaited
  BY <1>1 DEF Awaited
<1> QED
  BY <1>1, <1>4, <1>5 DEF CountInv

\* The first state.
LEMMA InitNumbers == Init => CountInv
<1> SUFFICES ASSUME Init
             PROVE  CountInv
  OBVIOUS
<1>1. at = "_start" /\ todo = <<>> /\ line = 0 /\ up = {} /\ text = <<>>
  BY Zenon DEF Init, ConsoleInit
<1> QED
  BY <1>1 DEF CountInv, Awaited

\* Every step keeps what is known of the numbers.
LEMMA NextNumbers ==
    TextsFit /\ IInv /\ ScreenInv /\ ScreenInv' /\ Counting /\ PageInv /\ CountInv /\ [Next]_vars => CountInv'
<1> SUFFICES ASSUME TextsFit, IInv, ScreenInv, ScreenInv', Counting, PageInv, CountInv, [Next]_vars
             PROVE  CountInv'
  OBVIOUS
<1>1. CASE PrintText
  BY <1>1, PrintTextNumbers
<1>2. CASE GoOnPrinting
  BY <1>2, PrintStepNumbers
<1>3. CASE ClearScreen
  BY <1>3, ClearNumbers
<1>4. CASE NumberedLine
  BY <1>4, NumberedLineNumbers
<1>5. CASE \/ _start \/ gdt_load \/ kheap_init \/ fs_init \/ disks_init \/ check_fs \/ idt_init \/ tss_load
           \/ paging_new_4gb \/ page_switch \/ enable_paging \/ sti \/ LastTexts \/ panic
  BY <1>5, BootNumbers
<1>6. CASE \E n \in Lines : Raise(n)
  <2>1. UNCHANGED <<consoleVars, at, todo, line, up>>
    BY <1>6, Zenon DEF Raise
  <2> QED
    BY <2>1, NumbersStay
<1>7. CASE \E n \in irr : Accept(n)
  <2>1. interrupts /\ UNCHANGED <<at, todo, line, up>> /\ (PrintInHandler(KeyText) \/ UNCHANGED consoleVars)
    BY <1>7, Zenon DEF Accept
  <2>2. CASE PrintInHandler(KeyText)
    BY <2>1, <2>2, HandlerNumbers
  <2>3. CASE UNCHANGED consoleVars
    BY <2>1, <2>3, NumbersStay
  <2> QED
    BY <2>1, <2>2, <2>3
<1>8. CASE UNCHANGED vars
  <2>1. UNCHANGED <<consoleVars, at, todo, line, up>>
    BY <1>8, Zenon DEF vars
  <2> QED
    BY <2>1, NumbersStay
<1> QED
  BY <1>1, <1>2, <1>3, <1>4, <1>5, <1>6, <1>7, <1>8, Zenon DEF Next, MainLine

\* The recursion of FlattenSeq has a solution, which these sequences are.
Joins(w, s) == w[1] = s[1] /\ \A n \in 2..Len(s) : w[n] = w[n - 1] \o s[n]

LEMMA FlattenIs ==
    ASSUME NEW s, NEW L \in Nat \ {0}, Len(s) = L, NEW w, Joins(w, s)
    PROVE  FlattenSeq(s) = w[L]
<1> DEFINE Places == 1..Len(s)
           Val(f, n) == IF n = 1 THEN s[n] ELSE f[n - 1] \o s[n]
           Body(f) == [n \in Places |-> Val(f, n)]
           v == [n \in Places |-> w[n]]
           flatten == CHOOSE f : f = Body(f)
<1>0. w[1] = s[1] /\ \A n \in 2..L : w[n] = w[n - 1] \o s[n]
  BY Zenon DEF Joins
<1>1. v = Body(v)
  <2>1. ASSUME NEW n \in Places
        PROVE  w[n] = Val(v, n)
    <3>1. CASE n = 1
      BY <1>0, <3>1
    <3>2. CASE n # 1
      <4>1. n \in 2..L /\ n - 1 \in Places
        BY <3>2
      <4>2. v[n - 1] = w[n - 1]
        BY <4>1
      <4>3. w[n] = w[n - 1] \o s[n]
        BY <1>0, <4>1
      <4> QED
        BY <3>2, <4>2, <4>3, Zenon
    <3> QED
      BY <3>1, <3>2
  <2> HIDE DEF Val
  <2> QED
    BY <2>1
<1>2. flatten = Body(flatten)
  <2> HIDE DEF Body, v
  <2> QED
    BY <1>1
<1>3. FlattenSeq(s) = flatten[Len(s)]
  BY DEF FlattenSeq
<1> HIDE DEF flatten
<1>4. \A n \in Places : flatten[n] = Val(flatten, n)
  BY <1>2
<1> DEFINE S == {n \in Nat : n + 1 <= L => flatten[n + 1] = w[n + 1]}
<1>5. 0 \in S
  <2>1. 1 \in Places
    OBVIOUS
  <2>2. flatten[1] = s[1]
    BY <1>4, <2>1
  <2> QED
    BY <1>0, <2>2
<1>6. ASSUME NEW n \in S
      PROVE  n + 1 \in S
  <2> SUFFICES ASSUME (n + 1) + 1 <= L
               PROVE  flatten[(n + 1) + 1] = w[(n + 1) + 1]
    OBVIOUS
  <2> DEFINE m == (n + 1) + 1
  <2>1. n \in Nat /\ m \in 2..L /\ m \in Places /\ m # 1 /\ m - 1 = n + 1 /\ n + 1 <= L
    OBVIOUS
  <2>2. flatten[n + 1] = w[n + 1]
    BY <2>1
  <2> HIDE DEF m
  <2>3. flatten[m] = flatten[m - 1] \o s[m]
    BY <1>4, <2>1, Zenon
  <2>4. w[m] = w[m - 1] \o s[m]
    BY <1>0, <2>1, Zenon
  <2>5. flatten[m] = w[m]
    BY <2>1, <2>2, <2>3, <2>4, Zenon
  <2> QED
    BY <2>5 DEF m
<1>7. L - 1 \in S
  <2>1. S \in SUBSET Nat /\ L - 1 \in Nat
    OBVIOUS
  <2> HIDE DEF S
  <2> QED
    BY <1>5, <1>6, <2>1, SetInduction
<1> QED
  BY <1>3, <1>7

\* The numbers on a page that ends in a text which is none.
LEMMA CountedAll ==
    ASSUME NEW p, NEW t, Ends(p, t), NEW n \in Nat, Counted(p, n), NumberOn(RowOf(t)) = <<>>
    PROVE  FlattenSeq([k \in DOMAIN p.lines |-> NumberOn(p.lines[k])]) = Numbers(n)
<1> DEFINE L == Len(p.lines)
           s == [k \in DOMAIN p.lines |-> NumberOn(p.lines[k])]
<1>1. L \in Nat \ {0} /\ DOMAIN p.lines = 1..L /\ p.lines[L] = RowOf(t)
  BY DEF Ends
<1>2. Len(s) = L /\ \A k \in 1..L : s[k] = NumberOn(p.lines[k])
  <2> HIDE DEF L
  <2>1. s = [k \in 1..L |-> NumberOn(p.lines[k])]
    BY <1>1
  <2> HIDE DEF s
  <2>2. \A k \in 1..L : s[k] = NumberOn(p.lines[k])
    BY <2>1
  <2>3. Len(s) = L
    BY <1>1, <2>1
  <2> QED
    BY <2>2, <2>3
<1>3. PICK w : /\ w[0] = <<>> /\ w[L - 1] = Numbers(n)
               /\ \A k \in 1..(L - 1) : w[k] = w[k - 1] \o NumberOn(p.lines[k])
  BY Zenon DEF Counted
<1> HIDE DEF s, L
<1> DEFINE v == [k \in 1..L |-> IF k = L THEN Numbers(n) ELSE w[k]]
<1>4. (\A k \in 1..L : k # L => v[k] = w[k]) /\ v[L] = Numbers(n)
  <2>1. L \in 1..L
    BY <1>1
  <2> HIDE DEF L
  <2> QED
    BY <2>1
<1> HIDE DEF s, L, v
<1>5. Numbers(n) \in Seq(Nat)
  <2>1. Numbers(n) \in [1..n -> Nat]
    BY DEF Numbers
  <2> QED
    BY <2>1
<1>6. Numbers(n) \o <<>> = Numbers(n)
  BY <1>5, ConcatEmptySeq
<1>7. s[L] = <<>>
  BY <1>1, <1>2
<1>8. v[1] = s[1]
  <2>1. CASE L = 1
    BY <1>3, <1>4, <1>7, <2>1
  <2>2. CASE L # 1
    <3>1. 1 \in 1..(L - 1) /\ 1 \in 1..L /\ 1 - 1 = 0
      BY <1>1, <2>2
    <3>2. v[1] = <<>> \o NumberOn(p.lines[1])
      BY <1>3, <1>4, <2>2, <3>1, Zenon
    <3>3. s[1] = NumberOn(p.lines[1])
      BY <1>2, <3>1, Zenon
    <3>4. <<>> \o NumberOn(p.lines[1]) = NumberOn(p.lines[1])
      <4>1. PICK a : a = Denoted(TextOn(p.lines[1]))
        OBVIOUS
      <4>2. NumberOn(p.lines[1]) \in Seq({a})
        <5>1. NumberOn(p.lines[1]) = <<a>> \/ NumberOn(p.lines[1]) = <<>>
          BY <4>1, Zenon DEF NumberOn
        <5>2. PICK b : b = NumberOn(p.lines[1])
          OBVIOUS
        <5>3. b = <<a>> \/ b = <<>>
          BY <5>1, <5>2, Zenon
        <5>4. b \in Seq({a})
          <6>1. CASE b = <<a>>
            BY <6>1
          <6>2. CASE b = <<>>
            BY <6>2
          <6> QED
            BY <5>3, <6>1, <6>2
        <5> QED
          BY <5>2, <5>4, Zenon
      <4> QED
        BY <4>2, ConcatEmptySeq
    <3> QED
      BY <3>2, <3>3, <3>4, Zenon
  <2> QED
    BY <2>1, <2>2
<1>9. ASSUME NEW k \in 2..L
      PROVE  v[k] = v[k - 1] \o s[k]
  <2>1. k \in 1..L /\ k - 1 \in 1..L /\ k - 1 # L
    BY <1>1
  <2>2. v[k - 1] = w[k - 1]
    BY <1>4, <2>1
  <2>3. CASE k = L
    <3>1. v[k - 1] = Numbers(n)
      BY <1>3, <2>2, <2>3
    <3> QED
      BY <1>4, <1>6, <1>7, <2>3, <3>1, Zenon
  <2>4. CASE k # L
    <3>1. k \in 1..(L - 1)
      BY <1>1, <2>4
    <3> QED
      BY <1>2, <1>3, <1>4, <2>1, <2>2, <2>4, <3>1, Zenon
  <2> QED
    BY <2>3, <2>4
<1>10. FlattenSeq(s) = v[L]
  <2>1. L \in Nat \ {0} /\ Len(s) = L
    BY <1>1, <1>2
  <2>2. \A k \in 2..L : v[k] = v[k - 1] \o s[k]
    BY <1>9
  <2>3. Joins(v, s)
    BY <1>8, <2>1, <2>2, Zenon DEF Joins
  <2> QED
    BY <2>1, <2>3, FlattenIs
<1> QED
  BY <1>4, <1>10 DEF s

\* Between two texts of the main line the page shows the numbers below line.
LEMMA CountsFromInvariant == TextsFit /\ ScreenInv /\ Counting /\ CountInv => CountsUp
<1> SUFFICES ASSUME TextsFit, ScreenInv, Counting, CountInv, "console" \in up, pc = "idle", ~mixed, todo = <<>>
             PROVE  FlattenSeq([k \in DOMAIN PageLines |-> NumberOn(PageLines[k])]) = [k \in 1..line |-> k - 1]
  BY Zenon DEF CountsUp
<1>1. text = <<>>
  BY Zenon DEF ScreenInv, Texts
<1>2. ~Pending /\ Done = line
  BY <1>1, Zenon DEF Pending, Done
<1>3. PICK t : Ends(Now, t) /\ Counted(Now, line) /\ Unfinished(t)
  BY <1>2, Zenon DEF CountInv, ShowsNumbers
<1>4. t \in Seq(Chars) /\ Len(t) < VGA_WIDTH /\ \A k \in 1..Len(t) : t[k] # "\n"
  BY <1>3, Zenon DEF Ends
<1>5. NoNumber(t)
  <2>1. NoNumber(t \o <<>>)
    BY <1>1, <1>2, <1>3, Zenon DEF Unfinished
  <2>2. t \o <<>> = t
    BY <1>4, ConcatEmptySeq
  <2> QED
    BY <2>1, <2>2, Zenon
<1>6. NumberOn(RowOf(t)) = <<>>
  BY <1>4, <1>5, NoNumberOn
<1>7. Now.lines = PageLines
  BY DEF Now
<1>8. PICK p : p = Now
  OBVIOUS
<1>9. line \in Nat
  BY DEF Counting
<1>10. FlattenSeq([k \in DOMAIN p.lines |-> NumberOn(p.lines[k])]) = Numbers(line)
  <2>1. PICK n : n = line
    OBVIOUS
  <2>2. n \in Nat /\ Ends(p, t) /\ Counted(p, n)
    BY <1>3, <1>8, <1>9, <2>1
  <2>3. FlattenSeq([k \in DOMAIN p.lines |-> NumberOn(p.lines[k])]) = Numbers(n)
    BY <1>6, <2>2, CountedAll
  <2> QED
    BY <2>1, <2>3, Zenon
<1> QED
  BY <1>7, <1>8, <1>10, Zenon DEF Numbers

\* The numbers that the main line prints (moskernel.c:83, inttostr) stand on the page
\* once each, in their order and in full, with whatever lines of the handler between.
THEOREM NumbersCountUp == Spec => []CountsUp
<1>1. Init => ScreenInv /\ Counting /\ PageInv /\ CountInv
  BY InitScreen, InitPage, InitNumbers, ScreenAssumption
<1>2. IInv /\ ScreenInv /\ Counting /\ PageInv /\ CountInv /\ [Next]_vars
        => ScreenInv' /\ Counting' /\ PageInv' /\ CountInv'
  BY NextScreen, NextPage, NextNumbers, ScreenAssumption, Zenon
<1>3. ScreenInv /\ Counting /\ CountInv => CountsUp
  BY CountsFromInvariant, ScreenAssumption
<1> QED
  BY <1>1, <1>2, <1>3, BootInvariant, PTL DEF Spec

=============================================================================
