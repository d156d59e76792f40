------------------------------ MODULE Terminal ------------------------------
(***************************************************************************)
(* What the screen driver promises: an endless page on which characters    *)
(* appear one after the other.  A line that is full or ended by "\n" is    *)
(* followed by a new one; "\r" goes back to the first column; no line is   *)
(* ever changed once the cursor has left it.                               *)
(***************************************************************************)
EXTENDS Integers, Sequences

CONSTANTS
    Width,      \* cells per line
    Pieces      \* the texts that are written without a pause

VARIABLES
    lines,      \* all lines so far, the last one holds the cursor
    at          \* the column of the cursor

page == <<lines, at>>

Blank == [x \in 0..(Width - 1) |-> " "]

Typed(p, c) ==
    CASE c = "\n" -> [lines |-> Append(p.lines, Blank), at |-> 0]
      [] c = "\r" -> [p EXCEPT !.at = 0]
      [] OTHER ->
            LET written == [p.lines EXCEPT ![Len(p.lines)][p.at] = c]
            IN  IF p.at = Width - 1
                THEN [lines |-> Append(written, Blank), at |-> 0]
                ELSE [lines |-> written, at |-> p.at + 1]

TermInit ==
    /\ lines = <<Blank>>
    /\ at = 0

\* The page p, given by its lines and the column, after the characters of s.
After(p, s) ==
    LET typed[n \in 0..Len(s)] == IF n = 0 THEN p ELSE Typed(typed[n - 1], s[n])
    IN  typed[Len(s)]

Write(s) ==
    LET p == After([lines |-> lines, at |-> at], s)
    IN  lines' = p.lines /\ at' = p.at

TermNext == \E s \in Pieces : Write(s)

TermSpec == TermInit /\ [][TermNext]_page
=============================================================================
