------------------------------ MODULE MCKernel ------------------------------
(* A screen on which the lines before the heap just fit, binary digits, a    *)
(* radix of 4 for the descriptors, the timer, the keyboard and the drive.    *)
EXTENDS Kernel

MCKeyText == <<"k", "\n">>
MCMessage == <<"m">>
MCLastMessage == <<"l">>
MCPanicMark == <<"!">>
MCPanicMessage == <<"p">>
MCBehind == {<<"?">>}
MCDigits == <<"0", "1">>
MCHexDigits == <<"0", "1", "2", "3", "4", "5", "6", "7", "8", "9", "A", "B", "C", "D", "E", "F">>
MCChars == {"k", "m", "l", "!", "p", "?", "x", "0", "1", "2", "\n"}
Flat(type) == [base |-> 0, limit |-> 65535, type |-> type]
MCgdt_structured ==
    [s \in 0..5 |->
        CASE s = 0 -> [base |-> 0, limit |-> 0, type |-> 0]
          [] s = 1 -> Flat(10)
          [] s = 2 -> Flat(2)
          [] s = 3 -> Flat(15)
          [] s = 4 -> Flat(12)
          [] s = 5 -> [base |-> 13579, limit |-> 20, type |-> 9]]
MCVectors == {32, 33, 118}
MCMaxEdges == [n \in {0, 1} |-> IF n = 1 THEN 2 ELSE 1]
=============================================================================
