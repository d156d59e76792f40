------------------------------ MODULE Console ------------------------------
(***************************************************************************)
(* The screen driver, src/io/vgaio/vgaio.c, for the two users it has: the  *)
(* main line of the kernel, which prints a text per call, and the keyboard *)
(* interrupt, whose handler prints a line of its own.  They share the      *)
(* cursor and the screen; nothing keeps the handler out while the main     *)
(* line is between two machine instructions.  Kernel says what they print  *)
(* and when.                                                               *)
(*                                                                         *)
(* The main line is cut where an interrupt makes a difference: row++ and   *)
(* col++ are compiled (-O0) to a load and a store, the arguments of        *)
(* put_char are loaded before the cell is written, a scroll moves one row  *)
(* at a time.  Three steps take two accesses together: Fetch loads both    *)
(* arguments, StoreCol compares what it has stored, EndScroll decrements   *)
(* row.  The handler is entered through an interrupt gate and runs to      *)
(* completion.                                                             *)
(***************************************************************************)
EXTENDS Integers, SequencesExt

CONSTANTS
    VGA_WIDTH, VGA_HEIGHT,
    LastRow,    \* bound on the row that the cursor reaches
    KeyText,    \* the text the keyboard handler prints
    Chars       \* the characters of all texts

ASSUME ConsoleAssumption ==
    /\ VGA_WIDTH \in Nat \ {0}
    /\ VGA_HEIGHT \in Nat \ {0, 1} /\ LastRow \in Nat /\ LastRow > VGA_HEIGHT
    /\ Len(KeyText) <= VGA_WIDTH /\ Last(KeyText) = "\n"

VARIABLES
    screen,     \* video_mem, row by row, also below the visible screen
    row, col,   \* the cursor
    gone,       \* history: the rows that were scrolled off the top
    pc,         \* where the main line's print is; "idle" between two calls
    text,       \* what the running call still has to print
    i,          \* the loop counter of scroll_down_on_screen_overflow
    x, y,       \* the arguments of put_char
    reg,        \* a value loaded to be incremented
    mixed,      \* history: an interrupt printed during a running call
    torn        \* history: it did while a line was being printed on the last
                \* row or the screen was being scrolled

display == <<screen, row, col, gone>>
call == <<pc, text, i, x, y, reg>>
consoleVars == <<display, call, mixed, torn>>

MemoryRows == 0..LastRow

Blank == [c \in 0..(VGA_WIDTH - 1) |-> " "]

-----------------------------------------------------------------------------
(* The driver as functions of the display, for the handler, which does all *)
(* of it in one step.                                                      *)

Display(s, r, c, g) == [screen |-> s, row |-> r, col |-> c, gone |-> g]

\* put_char computes an offset: column VGA_WIDTH is column 0 of the next row.
put_char(s, cx, cy, chr) ==
    [s EXCEPT ![cy + (cx \div VGA_WIDTH)][cx % VGA_WIDTH] = chr]

\* Mutant: the overflow is noticed one row too late.
check_screen_overflow_Late(r) == r > VGA_HEIGHT

check_screen_overflow(r) == r = VGA_HEIGHT

\* Mutant: the rows move down.
ScrolledRow_Down(s, n) == IF n = 0 THEN Blank ELSE s[n - 1]

\* clear_row(n), and copy_row(n, n + 1) unless n is the last row.
ScrolledRow(s, n) == IF n = VGA_HEIGHT - 1 THEN Blank ELSE s[n + 1]

scroll_down_on_screen_overflow(d) ==
    Display([n \in MemoryRows |-> IF n < VGA_HEIGHT THEN ScrolledRow(d.screen, n) ELSE d.screen[n]],
            d.row - 1, d.col, Append(d.gone, d.screen[0]))

NewLine(d) == Display(d.screen, d.row + 1, 0, d.gone)

print_char(d, chr) ==
    CASE chr = "\n" -> NewLine(d)
      [] chr = "\r" -> Display(d.screen, d.row, 0, d.gone)
      [] OTHER ->
            LET put == Display(put_char(d.screen, d.col, d.row, chr), d.row, d.col + 1, d.gone)
            IN  IF put.col >= VGA_WIDTH THEN NewLine(put) ELSE put

printc(d, s) ==
    LET printed[n \in 0..Len(s)] ==
            IF n # 0 THEN print_char(printed[n - 1], s[n])
            ELSE IF check_screen_overflow(d.row) THEN scroll_down_on_screen_overflow(d) ELSE d
    IN  printed[Len(s)]

-----------------------------------------------------------------------------
\* Before clear() the screen shows what the BIOS has left there.
ConsoleInit ==
    /\ screen = [n \in MemoryRows |-> [c \in 0..(VGA_WIDTH - 1) |-> "?"]]
    /\ row = 0 /\ col = 0
    /\ gone = <<>>
    /\ pc = "idle" /\ text = <<>>
    /\ i = 0 /\ x = 0 /\ y = 0 /\ reg = 0
    /\ mixed = FALSE /\ torn = FALSE

clear ==
    /\ screen' = [n \in MemoryRows |-> IF n < VGA_HEIGHT THEN Blank ELSE screen[n]]
    /\ row' = 0 /\ col' = 0
    /\ UNCHANGED <<gone, call, mixed, torn>>

Goto(label) == pc' = label

(* print, printc and log: one check, then all the characters.              *)

Call(s) ==
    /\ pc = "idle"
    /\ text' = s
    /\ Goto(IF check_screen_overflow(row) THEN "scroll" ELSE "char")
    /\ UNCHANGED <<display, i, x, y, reg>>

ScrollRow ==
    /\ pc = "scroll" /\ i < VGA_HEIGHT
    /\ screen' = [screen EXCEPT ![i] = ScrolledRow(screen, i)]
    /\ gone' = IF i = 0 THEN Append(gone, screen[0]) ELSE gone
    /\ i' = i + 1
    /\ UNCHANGED <<row, col, pc, text, x, y, reg>>

EndScroll ==
    /\ pc = "scroll" /\ i = VGA_HEIGHT
    /\ row' = row - 1
    /\ i' = 0
    /\ Goto("char")
    /\ UNCHANGED <<screen, col, gone, text, x, y, reg>>

FetchControl ==
    /\ pc = "char" /\ text # <<>>
    /\ Head(text) \in {"\n", "\r"}
    /\ Goto(IF Head(text) = "\n" THEN "newline" ELSE "char")
    /\ col' = IF Head(text) = "\r" THEN 0 ELSE col
    /\ text' = Tail(text)
    /\ UNCHANGED <<screen, row, gone, i, x, y, reg>>

Fetch ==
    /\ pc = "char" /\ text # <<>>
    /\ Head(text) \notin {"\n", "\r"}
    /\ x' = col /\ y' = row
    /\ Goto("put")
    /\ UNCHANGED <<display, text, i, reg>>

Put ==
    /\ pc = "put"
    /\ screen' = put_char(screen, x, y, Head(text))
    /\ text' = Tail(text)
    /\ Goto("load_col")
    /\ UNCHANGED <<row, col, gone, i, x, y, reg>>

LoadCol ==
    /\ pc = "load_col"
    /\ reg' = col
    /\ Goto("store_col")
    /\ UNCHANGED <<display, text, i, x, y>>

StoreCol ==
    /\ pc = "store_col"
    /\ col' = reg + 1
    /\ Goto(IF reg + 1 >= VGA_WIDTH THEN "newline" ELSE "char")
    /\ UNCHANGED <<screen, row, gone, text, i, x, y, reg>>

ResetCol ==
    /\ pc = "newline"
    /\ col' = 0
    /\ Goto("load_row")
    /\ UNCHANGED <<screen, row, gone, text, i, x, y, reg>>

LoadRow ==
    /\ pc = "load_row"
    /\ reg' = row
    /\ Goto("store_row")
    /\ UNCHANGED <<display, text, i, x, y>>

StoreRow ==
    /\ pc = "store_row"
    /\ row' = reg + 1
    /\ Goto("char")
    /\ UNCHANGED <<screen, col, gone, text, i, x, y, reg>>

Return ==
    /\ pc = "char" /\ text = <<>>
    /\ Goto("idle")
    /\ x' = 0 /\ y' = 0 /\ reg' = 0
    /\ UNCHANGED <<display, text, i>>

PrintStep ==
    /\ \/ ScrollRow \/ EndScroll
       \/ FetchControl \/ Fetch \/ Put \/ LoadCol \/ StoreCol
       \/ ResetCol \/ LoadRow \/ StoreRow \/ Return
    /\ UNCHANGED <<mixed, torn>>

\* The handler's print.
PrintInHandler(s) ==
    /\ LET d == printc(Display(screen, row, col, gone), s)
       IN  /\ screen' = d.screen
           /\ row' = d.row
           /\ col' = d.col
           /\ gone' = d.gone
    /\ mixed' = (mixed \/ pc # "idle")
    /\ torn' = (torn \/ (pc # "idle" /\ row >= VGA_HEIGHT - 1))
    /\ UNCHANGED call

-----------------------------------------------------------------------------
(* Properties.                                                             *)

\* check_screen_overflow tests for equality, and only at the beginning of a call.
\* Until an interrupt comes while a line is being printed on the last row or a
\* scroll is under way, the cursor never gets past the row at which it notices
\* that the screen is full, and every character lands on the visible screen; at
\* any other place of any call the handler may print without harm to that.
OffScreenOnlyWhenTorn ==
    ~torn =>
        /\ row <= VGA_HEIGHT
        /\ pc = "put" => y < VGA_HEIGHT

\* The page that the driver has produced so far.  A character is there when its
\* cell is written, a new line as soon as "\n" is fetched; while rows are being
\* moved, row i stands twice on the screen.
TypedCol == IF pc \in {"load_col", "store_col"} THEN col + 1 ELSE col

OnNewLine == pc \in {"newline", "load_row", "store_row"} \/ TypedCol = VGA_WIDTH

RowShown(n) == IF n < VGA_HEIGHT THEN screen[n] ELSE Blank

Visible ==
    [n \in 1..(row + 1) |->
        IF pc = "scroll" /\ i \in 1..(VGA_HEIGHT - 1) /\ n > i THEN RowShown(n)
                                                             ELSE RowShown(n - 1)]

ScrolledLines ==
    IF pc = "scroll" /\ i > 0 THEN SubSeq(Visible, 1, VGA_HEIGHT) ELSE Visible

PageLines == gone \o ScrolledLines \o (IF OnNewLine THEN <<Blank>> ELSE <<>>)

Page == INSTANCE Terminal WITH
    Width <- VGA_WIDTH,
    Pieces <- {KeyText} \cup {<<c>> : c \in Chars},
    lines <- PageLines,
    at <- IF OnNewLine THEN 0 ELSE TypedCol
=============================================================================
