------------------------------- MODULE Kernel -------------------------------
(***************************************************************************)
(* The kernel as a whole: _start and kernel_main bring up one part after   *)
(* the other, print what they are doing, allow interrupts at the end and   *)
(* then print a row of numbered lines, while the timer, the keyboard and   *)
(* the drive raise their lines at the interrupt controllers.  Composes the *)
(* screen driver (Console), the segment table (Gdt) and the conversions of *)
(* numbers (Strings).                                                      *)
(*                                                                         *)
(* A boot step is an action: what it changes, and in todo what it prints   *)
(* from there to the next step.  The fixed messages of the boot are the    *)
(* same text, the marks of log lines and the words behind a number are     *)
(* left out.                                                               *)
(***************************************************************************)
EXTENDS Console, Strings, Gdt

CONSTANTS
    Message,            \* a message of the boot without a number in it
    LastMessage,        \* one that is printed when interrupts are on
    PanicMark, PanicMessage,    \* the two parts of a panic
    Behind,             \* what may lie behind the buffer of hex
    gdt_structured,     \* the segments, numbered from 0
    Vectors,            \* the interrupt vectors that are looked at, of all 512
    Lines,              \* the lines that may be raised at any time
    MaxEdges,           \* bound on how often each is raised
    MaxLines            \* the numbered lines, 140 in the code

ASSUME KernelAssumption ==
    /\ gdt_structured \in [0..5 -> Segment]
    /\ gdt_structured[1].base = 0 /\ gdt_structured[1].limit = Word * Word - 1
    /\ {32 + n : n \in {m \in Lines : m < 8}} \subseteq Vectors
    /\ {112 + n - 8 : n \in {m \in Lines \cup {14} : m >= 8}} \subseteq Vectors
    /\ Lines \subseteq 0..15 /\ MaxEdges \in [Lines -> Nat] /\ MaxLines \in Nat
    /\ \A g \in Behind : ToSet(g) \cap {"\n", "\r"} = {}

VARIABLES
    at,         \* the next step of the main line
    todo,       \* what the steps so far have still to print
    line,       \* i of the loop in kernel_main
    up,         \* the parts that have been brought up
    gdt,        \* gdt_real
    idt,        \* the handler of each vector
    interrupts, \* the interrupt flag
    base,       \* the vector of line 0
    irr, isr,   \* the lines that are requested, and those in service
    edges       \* history: how often each line was raised

pic == <<base, irr, isr, edges>>
tables == <<gdt, idt>>
vars == <<consoleVars, at, todo, line, up, tables, interrupts, pic>>

\* A log line, its mark left out.
log(s) == s \o <<"\n">>
ok == log(Message)
notice == log(Message)

\* A text that ends in a new line, has no other, and fits into a room of columns.
LineWithin(s, room) ==
    /\ s \in Seq(Chars) /\ s # <<>> /\ Len(s) <= room
    /\ \A n \in DOMAIN s : s[n] = "\n" <=> n = Len(s)

\* The columns in which text can end while interrupts are on, so that the line of
\* the handler still fits behind it.
Shared == VGA_WIDTH - Len(KeyText) + 1

\* A message that leaves the cursor behind it, on the same row.
Unended(s) == s \in Seq(Chars) /\ \A n \in DOMAIN s : s[n] # "\n"

\* The texts of the kernel fit on a row, the lines that are printed with interrupts
\* on together with the handler's, and the two parts of a panic together.  What
\* lies behind a buffer fits too.
TextsFit ==
    /\ LineWithin(KeyText, VGA_WIDTH)
    /\ LineWithin(log(Message), VGA_WIDTH)
    /\ LineWithin(log(LastMessage), Shared) /\ Unended(LastMessage) /\ Len(LastMessage) < Shared
    /\ Unended(PanicMark) /\ Unended(PanicMessage) /\ Len(PanicMark) + Len(PanicMessage) < VGA_WIDTH
    /\ \A n \in 0..(MaxLines - 1) : LineWithin(log(inttostr(n)), Shared)
    /\ \A g \in Behind : LineWithin(log(g), VGA_WIDTH) /\ LineWithin(log(hex(33, g)), VGA_WIDTH)

\* And the screen takes the lines that are printed before there is a heap, and one more.
ASSUME ScreenAssumption == TextsFit /\ VGA_HEIGHT >= 5

\* Nobody takes a text for a number that is empty up to the end of its line, or has a
\* character that is neither a digit nor a blank.
NoNumber(s) == s \in {<<>>, <<"\n">>} \/ ~(ToSet(s) \subseteq ToSet(Digits) \cup {" ", "\n"})

\* Only the numbered lines are numbers, and no text goes back to the beginning of its
\* line: messages are words, hex prints its "x", and the name that fs_resolve takes from
\* a null pointer is printed between the words of a log line, which are left out here.
ASSUME NumbersAssumption ==
    /\ ToSet(Digits) \cap {" ", "\n", "\r"} = {}
    /\ \A s \in {KeyText, log(Message), LastMessage, log(LastMessage), PanicMark, PanicMessage}
                \cup {log(g) : g \in Behind} \cup {log(hex(33, g)) : g \in Behind} :
          NoNumber(s) /\ "\r" \notin ToSet(s)

Init ==
    /\ ConsoleInit
    /\ at = "_start" /\ todo = <<>> /\ line = 0 /\ up = {}
    /\ gdt = [s \in DOMAIN gdt_structured |-> encodeGdtEntry([base |-> 0, limit |-> 0, type |-> 0])]
    /\ idt = [v \in Vectors |-> "none"]
    /\ interrupts = FALSE
    /\ base = 8 /\ irr = {} /\ isr = {} /\ edges = [n \in Lines |-> 0]

-----------------------------------------------------------------------------
(* The interrupt controllers.                                              *)

\* The second controller sits behind line 2 of the first.
MasterOf(n) == IF n < 8 THEN n ELSE 2

\* A line waits for those in service that are before it, and for itself.
Deliverable(n) ==
    /\ n \in irr
    /\ ~\E m \in isr : m < 8 /\ m <= MasterOf(n)
    /\ ~\E m \in isr : m >= 8 /\ n >= 8 /\ m <= n

Before(m, n) == MasterOf(m) < MasterOf(n) \/ (MasterOf(m) = MasterOf(n) /\ m < n)

\* The processor looks at its interrupt line before each instruction.
Interrupted == interrupts /\ \E n \in irr : Deliverable(n)

-----------------------------------------------------------------------------
(* The main line.                                                          *)

PrintText ==
    /\ todo # <<>>
    /\ Call(Head(todo))
    /\ todo' = Tail(todo)
    /\ UNCHANGED <<mixed, torn, at, line, up, tables, interrupts, base>>

GoOnPrinting ==
    /\ PrintStep
    /\ UNCHANGED <<at, todo, line, up, tables, interrupts, base>>

\* From one step to the next, when all that was to be printed has been.
Step(from, to, texts) ==
    /\ at = from /\ pc = "idle" /\ todo = <<>>
    /\ at' = to /\ todo' = texts

Brings(part) == up' = up \cup {part}

\* The master's lines get the vectors from 0x20 on.
_start ==
    /\ Step("_start", "clear", <<>>)
    /\ base' = 32
    /\ UNCHANGED <<consoleVars, line, up, tables, interrupts>>

ClearScreen ==
    /\ Step("clear", "gdt", <<log(Message), notice, notice>>)
    /\ clear
    /\ Brings("console")
    /\ UNCHANGED <<line, tables, interrupts, base>>

gdt_load ==
    /\ IF \E s \in DOMAIN gdt_structured : Invalid(gdt_structured[s])
       THEN Step("gdt", "panic", <<>>) /\ UNCHANGED <<gdt, up>>
       ELSE /\ Step("gdt", "heap", <<ok, notice>>)
            /\ gdt' = [s \in DOMAIN gdt_structured |-> encodeGdtEntry(gdt_structured[s])]
            /\ Brings("gdt")
    /\ UNCHANGED <<consoleVars, line, idt, interrupts, base>>

kheap_init ==
    /\ Step("heap", "file systems", <<ok, notice>>)
    /\ Brings("heap")
    /\ UNCHANGED <<consoleVars, line, tables, interrupts, base>>

fs_init ==
    /\ Step("file systems", "disks", <<notice, ok, notice>>)
    /\ Brings("file systems")
    /\ UNCHANGED <<consoleVars, line, tables, interrupts, base>>

\* The name of the file system is printed before it is known whether there is one.
disks_init ==
    /\ \/ Step("disks", "check", <<ok, ok>>) /\ Brings("disk")
       \/ \E g \in Behind : Step("disks", "panic", <<log(g)>>) /\ UNCHANGED up
    /\ UNCHANGED <<consoleVars, line, tables, interrupts, base>>

\* Opening /file.txt may fail; the comparison runs on behind the buffer unless a
\* zero follows it.
check_fs ==
    /\ \/ Step("check", "panic", <<>>)
       \/ \E right, ended \in BOOLEAN :
             IF right /\ ended
             THEN Step("check", "idt", <<ok, notice, ok, notice>>)
             ELSE Step("check", "panic", <<ok, notice>>)
    /\ UNCHANGED <<consoleVars, line, up, tables, interrupts, base>>

\* Mutant: only the keyboard gets a handler.
idt_init_OnlyKeyboard ==
    /\ \E g \in Behind :
         Step("idt", "tss", <<notice, ok, log(hex(33, g)), ok, ok, notice>>)
    /\ idt' = [v \in Vectors |-> IF v = 33 THEN "INT21H" ELSE "none"]
    /\ Brings("idt")
    /\ UNCHANGED <<consoleVars, line, gdt, interrupts, base>>

\* All vectors, then the timer's frequency, then vector 0x21.
idt_init ==
    /\ \E g \in Behind :
         Step("idt", "tss", <<notice, ok, log(hex(33, g)), ok, ok, notice>>)
    /\ idt' = [v \in Vectors |-> IF v = 33 THEN "INT21H" ELSE "no_int"]
    /\ Brings("idt")
    /\ UNCHANGED <<consoleVars, line, gdt, interrupts, base>>

tss_load ==
    /\ Step("tss", "chunk", <<ok, notice>>)
    /\ Brings("tss")
    /\ UNCHANGED <<consoleVars, line, tables, interrupts, base>>

paging_new_4gb ==
    /\ Step("chunk", "switch", <<ok>>)
    /\ Brings("chunk")
    /\ UNCHANGED <<consoleVars, line, tables, interrupts, base>>

page_switch ==
    /\ Step("switch", "enable", <<notice>>)
    /\ Brings("directory")
    /\ UNCHANGED <<consoleVars, line, tables, interrupts, base>>

enable_paging ==
    /\ Step("enable", "sti", <<ok>>)
    /\ Brings("paging")
    /\ UNCHANGED <<consoleVars, line, tables, interrupts, base>>

sti ==
    /\ Step("sti", "loop", <<log(LastMessage)>>)
    /\ interrupts' = TRUE
    /\ UNCHANGED <<consoleVars, line, up, tables, base>>

NumberedLine ==
    /\ line < MaxLines
    /\ Step("loop", "loop", <<log(inttostr(line))>>)
    /\ line' = line + 1
    /\ UNCHANGED <<consoleVars, up, tables, interrupts, base>>

\* kernel_main returns and _start jumps to itself.
LastTexts ==
    /\ line = MaxLines
    /\ Step("loop", "halted", <<log(LastMessage), LastMessage>>)
    /\ UNCHANGED <<consoleVars, line, up, tables, interrupts, base>>

\* Three calls, each with its own look at the cursor.
panic ==
    /\ Step("panic", "panicked",
            (IF col # 0 THEN <<<<"\n">>>> ELSE <<>>) \o <<PanicMark, PanicMessage>>)
    /\ interrupts' = FALSE
    /\ UNCHANGED <<consoleVars, line, up, tables, base>>

\* The drive raises its line for every sector that disks_init and check_fs read.
DriveLine == IF at \in {"disks", "check"} /\ at' # at THEN {14} ELSE {}

MainLine ==
    /\ ~Interrupted
    /\ \/ PrintText \/ GoOnPrinting
       \/ _start \/ ClearScreen \/ gdt_load \/ kheap_init \/ fs_init \/ disks_init \/ check_fs
       \/ idt_init \/ tss_load \/ paging_new_4gb \/ page_switch \/ enable_paging \/ sti
       \/ NumberedLine \/ LastTexts \/ panic
    /\ irr' = irr \cup DriveLine
    /\ UNCHANGED <<isr, edges>>

-----------------------------------------------------------------------------
(* Interrupts.                                                             *)

Raise(n) ==
    /\ edges[n] < MaxEdges[n]
    /\ edges' = [edges EXCEPT ![n] = @ + 1]
    /\ irr' = irr \cup {n}
    /\ UNCHANGED <<consoleVars, at, todo, line, up, tables, interrupts, base, isr>>

\* The second controller has the vectors that the BIOS gave it.
Vector(n) == IF n < 8 THEN base + n ELSE 112 + n - 8

\* outb(0x20, 0x20): the first line in service at the first controller is done.
Acknowledged(s) == LET master == {n \in s : n < 8}
                   IN  s \ {n \in master : \A m \in master : n <= m}

\* Mutant: a vector without a handler of its own is not acknowledged.
no_int_Silent(s) == s

no_int(s) == Acknowledged(s)

\* The gate turns interrupts off until the handler's iretd, so the handler is one step.
Accept(n) ==
    /\ interrupts
    /\ Deliverable(n) /\ \A m \in irr : Deliverable(m) => ~Before(m, n)
    /\ irr' = irr \ {n}
    /\ LET served == isr \cup {n, MasterOf(n)}
       IN  IF idt[Vector(n)] = "INT21H"
           THEN PrintInHandler(KeyText) /\ isr' = Acknowledged(served)
           ELSE UNCHANGED consoleVars /\ isr' = no_int(served)
    /\ UNCHANGED <<at, todo, line, up, tables, interrupts, base, edges>>

Next ==
    \/ MainLine
    \/ \E n \in Lines : Raise(n)
    \/ \E n \in irr : Accept(n)

\* The processor goes on and looks at its interrupt line.
Spec ==
    /\ Init
    /\ [][Next]_vars
    /\ WF_vars(MainLine)
    /\ WF_vars(\E n \in irr : Accept(n))

-----------------------------------------------------------------------------
(* Properties.                                                             *)

\* What each step uses has been brought up before it.
Needs(step) ==
    CASE step \in {"gdt", "heap"} -> {"console"}
      [] step = "disks" -> {"heap", "file systems"}
      [] step = "check" -> {"heap", "file systems", "disk"}
      [] step = "idt" -> {"gdt", "heap"}
      [] step = "tss" -> {"gdt"}
      [] step = "chunk" -> {"heap"}
      [] step = "switch" -> {"chunk"}
      [] step = "enable" -> {"directory"}
      [] OTHER -> {}

NeedsMet == Needs(at) \subseteq up

\* When interrupts are on, each line that may be raised leads through a gate in a
\* code segment that covers all memory to a handler that may use screen and heap.
InterruptsReady ==
    interrupts =>
        /\ {"console", "heap", "paging"} \subseteq up
        /\ \A n \in Lines \cup {14} : Vector(n) \in Vectors /\ idt[Vector(n)] # "none"
        /\ base >= 32
        /\ Decode(gdt[1]).base = 0 /\ Decode(gdt[1]).limit = Word * Word - 1

\* Nothing comes too early: no step of the boot, no interrupt, and no scrolling,
\* which takes heap blocks, so the screen must not be full before there is a heap.
NothingTooEarly ==
    /\ NeedsMet
    /\ InterruptsReady
    /\ pc = "scroll" => "heap" \in up

\* The processor takes each descriptor for the segment that the table of the
\* source describes.
SegmentsLoaded ==
    "gdt" \in up => \A s \in DOMAIN gdt_structured : Decode(gdt[s]) = gdt_structured[s]

\* A request at the first controller is served some time, unless the kernel panics,
\* also if it came before interrupts were allowed.
Answered ==
    \A n \in {m \in Lines : m < 8} : n \in irr ~> n \notin irr \/ at = "panicked"

\* From clear() on, and as long as no interrupt has printed during a running call,
\* the screen shows the end of an endless page on which the characters of the main
\* line and the lines of the handler appear in the order in which they were
\* printed: nothing is lost, doubled or written over by wrapping and scrolling.
ShowsPage ==
    [][/\ ClearScreen => Page!TermInit'
       /\ "console" \in up /\ ~mixed' => Page!TermNext \/ UNCHANGED Page!page]_vars

\* The numbers on that page count up without a gap, whatever the handler prints
\* between them.
TextOn(l) ==
    LET end == CHOOSE n \in 0..VGA_WIDTH :
                   /\ \A c \in n..(VGA_WIDTH - 1) : l[c] = " "
                   /\ n # 0 => l[n - 1] # " "
    IN  [n \in 1..end |-> l[n - 1]]

NumberOn(l) ==
    IF TextOn(l) # <<>> /\ ToSet(TextOn(l)) \subseteq ToSet(Digits) THEN <<Denoted(TextOn(l))>> ELSE <<>>

CountsUp ==
    "console" \in up /\ pc = "idle" /\ ~mixed /\ todo = <<>> =>
        FlattenSeq([n \in DOMAIN PageLines |-> NumberOn(PageLines[n])])
            = [n \in 1..line |-> n - 1]
=============================================================================
