----------------------------- MODULE FileService -----------------------------
(***************************************************************************)
(* What the file calls of vfs.h offer to a caller who uses each descriptor *)
(* from the fopen that returned it to its fclose: every open file has a    *)
(* descriptor and a position of its own.  There is no memory, no table and *)
(* no path here.  Descriptors are spent: one that was closed is not given  *)
(* out again, and when all are spent no file can be opened any more.       *)
(***************************************************************************)
EXTENDS Integers

CONSTANTS
    Fds,        \* the descriptors
    Files,      \* the files of the disk
    FileSize,   \* their sizes
    Offsets     \* the offsets callers seek to

VARIABLES
    open,       \* the open files: a function from descriptors
    spent,      \* the descriptors given out so far
    answer      \* what the last call told its caller

service == <<open, spent, answer>>

ServiceInit ==
    /\ open = [fd \in {} |-> 0]
    /\ spent = {}
    /\ answer = <<"none">>

\* What is asked for is a file, or something else the disk does not have.
Targets == Files \cup {"no file"}

Open(f, fd) ==
    /\ fd \notin spent
    /\ spent' = spent \cup {fd}
    /\ open' = [d \in DOMAIN open \cup {fd} |->
                    IF d = fd THEN [file |-> f, pos |-> 0] ELSE open[d]]
    /\ answer' = <<"fd", fd, f>>

\* An open that must fail: there is no such file, or no descriptor left.
Refuse(f) ==
    /\ f \notin Files \/ spent = Fds
    /\ answer' = <<"refused", f>>
    /\ UNCHANGED <<open, spent>>

MoveTo(fd, pos) ==
    /\ open' = [open EXCEPT ![fd].pos = pos]
    /\ answer' = <<"ok">>
    /\ UNCHANGED spent

Fail(call) ==
    /\ answer' = <<"error", call>>
    /\ UNCHANGED <<open, spent>>

\* The offset itself has to lie in the file, where a relative seek takes it
\* does not matter.
Seek(fd, offset, whence) ==
    LET inside == offset < FileSize[open[fd].file]
    IN  CASE inside /\ whence = "SEEK_SET" -> MoveTo(fd, offset)
          [] inside /\ whence = "SEEK_CUR" -> MoveTo(fd, open[fd].pos + offset)
          [] OTHER -> Fail("fseek")

\* A read starts at the position and leaves it where it is.
Read(fd) ==
    /\ answer' = <<"data", open[fd].file, open[fd].pos>>
    /\ UNCHANGED <<open, spent>>

Stat(fd) ==
    /\ answer' = <<"size", FileSize[open[fd].file]>>
    /\ UNCHANGED <<open, spent>>

Close(fd) ==
    /\ open' = [d \in DOMAIN open \ {fd} |-> open[d]]
    /\ answer' = <<"ok">>
    /\ UNCHANGED spent

ServiceNext ==
    \/ \E f \in Files, fd \in Fds : Open(f, fd)
    \/ \E f \in Targets : Refuse(f)
    \/ \E fd \in DOMAIN open :
        \/ \E offset \in Offsets, whence \in {"SEEK_SET", "SEEK_CUR", "SEEK_END"} :
              Seek(fd, offset, whence)
        \/ Read(fd) \/ Fail("fread")
        \/ Stat(fd) \/ Close(fd)

ServiceSpec == ServiceInit /\ [][ServiceNext]_service
=============================================================================
