-------------------------------- MODULE Gdt --------------------------------
(***************************************************************************)
(* The segment descriptors of src/gdt/gdt.c.  A descriptor is written in   *)
(* the layout of struct gdt and read by the processor.                     *)
(***************************************************************************)
EXTENDS Integers

CONSTANT R      \* 16: the values of half a byte

ASSUME RadixAssumption == R \in Nat /\ R > 1

Byte == R * R            \* 8 bits
PageSize == Byte * R     \* 12 bits
Word == PageSize * R     \* 16 bits

Segment == [base : 0..(Word * Word - 1), limit : 0..(Word * Word - 1), type : 0..(Byte - 1)]

\* More than 20 bits of limit can only be kept in pages.
Invalid(src) == src.limit > Word /\ src.limit % PageSize # PageSize - 1

\* Mutant: every limit counts pages.
encodeGdtEntry_AlwaysPages(src) ==
    LET limit == IF src.limit > Word THEN src.limit \div PageSize ELSE src.limit
    IN  [segment |-> limit % Word,
         base_first |-> src.base % Word,
         base |-> (src.base \div Word) % Byte,
         access |-> src.type,
         high_flags |-> [granular |-> TRUE, limit |-> (limit \div Word) % R],
         base_24_31_bits |-> (src.base \div (Word * Byte)) % Byte]

\* high_flags is 0xC0 or 0x40 with the upper four bits of the limit.
encodeGdtEntry(src) ==
    LET big == src.limit > Word
        limit == IF big THEN src.limit \div PageSize ELSE src.limit
    IN  [segment |-> limit % Word,
         base_first |-> src.base % Word,
         base |-> (src.base \div Word) % Byte,
         access |-> src.type,
         high_flags |-> [granular |-> big, limit |-> (limit \div Word) % R],
         base_24_31_bits |-> (src.base \div (Word * Byte)) % Byte]

\* The segment that the processor takes a descriptor for.
Decode(d) ==
    LET limit == d.segment + Word * d.high_flags.limit
    IN  [base |-> d.base_first + Word * (d.base + Byte * d.base_24_31_bits),
         limit |-> IF d.high_flags.granular THEN limit * PageSize + (PageSize - 1) ELSE limit,
         type |-> d.access]
=============================================================================
