---------------------------- MODULE PathParser ----------------------------
(***************************************************************************)
(* parse_path of src/fs/pparser.c: the drive number and the list of the    *)
(* components of a path such as 0:/dir/file.  A component is copied        *)
(* character by character into a block of its own, and a path_part points  *)
(* to it and to the next one.  Memory is taken to suffice; Vfs models what *)
(* happens when it does not.                                               *)
(***************************************************************************)
EXTENDS Integers, SequencesExt

CONSTANTS
    Digit, Letter,      \* characters of the two kinds, besides ":" and "/"
    MAX_PATH_LEN,       \* MYSTOS_MAX_PATH_LEN
    Starts,             \* what the paths that callers give begin with
    MaxTail             \* bound on the number of characters after that

ASSUME PathAssumption ==
    /\ {":", "/"} \cap (Digit \cup Letter) = {} /\ Digit \cap Letter = {}
    /\ Starts \subseteq Seq(Digit \cup Letter \cup {":", "/"})
    /\ MAX_PATH_LEN \in Nat \ {0} /\ MaxTail \in Nat

VARIABLES
    path,       \* the argument
    pc,         \* "call", "part" while a component is copied, "done"
    rest,       \* what is left of the path
    part,       \* the component being copied
    root,       \* what is built: the drive and the parts, or NULL
    blocks      \* heap blocks taken and not given back

vars == <<path, pc, rest, part, root, blocks>>

NULL == [drive |-> "none"]

Paths == UNION {{s \o t : t \in BoundedSeq(Letter \cup {"/"}, MaxTail)} : s \in Starts}

Init ==
    /\ path \in Paths
    /\ pc = "call"
    /\ rest = path /\ part = <<>>
    /\ root = NULL
    /\ blocks = 0

\* Mutant: the drive does not count.
TooLong_WithoutDrive == Len(path) > MAX_PATH_LEN + 3

TooLong == Len(path) > MAX_PATH_LEN

validate_path_format ==
    Len(path) >= 3 /\ path[1] \in Digit /\ path[2] = ":" /\ path[3] = "/"

Refuse ==
    /\ pc = "call"
    /\ TooLong \/ ~validate_path_format
    /\ pc' = "done"
    /\ UNCHANGED <<path, rest, part, root, blocks>>

\* The root, and the block for the first component.
create_root ==
    /\ pc = "call"
    /\ ~TooLong /\ validate_path_format
    /\ pc' = "part"
    /\ root' = [drive |-> path[1], parts |-> <<>>]
    /\ rest' = SubSeq(path, 4, Len(path))
    /\ blocks' = 2
    /\ UNCHANGED <<path, part>>

AtEnd == IF rest = <<>> THEN TRUE ELSE Head(rest) = "/"

CopyChar ==
    /\ pc = "part" /\ ~AtEnd
    /\ part' = Append(part, Head(rest))
    /\ rest' = Tail(rest)
    /\ UNCHANGED <<path, pc, root, blocks>>

\* Mutant: the slash stays.
SkipSlash_Stays == rest' = rest

SkipSlash == rest' = IF rest = <<>> THEN rest ELSE Tail(rest)

\* A path_part for the component, and the block for the next one.
AddPart ==
    /\ pc = "part" /\ AtEnd /\ part # <<>>
    /\ SkipSlash
    /\ root' = [root EXCEPT !.parts = Append(root.parts, part)]
    /\ part' = <<>>
    /\ blocks' = blocks + 2
    /\ UNCHANGED <<path, pc>>

\* Mutants: the block of the empty component is kept; parsing goes on after it.
EmptyPart_GoesOn ==
    /\ pc = "part" /\ AtEnd /\ part = <<>>
    /\ SkipSlash
    /\ UNCHANGED <<path, pc, part, root, blocks>>

EmptyPart_Kept ==
    /\ pc = "part" /\ AtEnd /\ part = <<>>
    /\ SkipSlash
    /\ pc' = "done"
    /\ UNCHANGED <<path, part, root, blocks>>

\* An empty component ends the parsing, be it at the end of the path or not.
EmptyPart ==
    /\ pc = "part" /\ AtEnd /\ part = <<>>
    /\ SkipSlash
    /\ blocks' = blocks - 1
    /\ pc' = "done"
    /\ UNCHANGED <<path, part, root>>

Next == Refuse \/ create_root \/ CopyChar \/ AddPart \/ EmptyPart

Spec == Init /\ [][Next]_vars /\ WF_vars(Next)

-----------------------------------------------------------------------------
(* Properties.                                                             *)

\* The places where a component of a path ends: at a slash or behind it all.
Ends(p) == {e \in 4..(Len(p) + 1) : e > Len(p) \/ p[e] = "/"}

\* Where the n-th of them does, the drive being the first thing that ends.
EndOf(p, n) ==
    LET end[m \in Nat] ==
            IF m = 0 THEN 3
            ELSE LET before == end[m - 1]
                     later == {e \in Ends(p) : e > before}
                 IN  IF later = {} THEN before ELSE Min(later)
    IN  end[n]

\* Behind the last component there are empty ones.
Component(p, n) == SubSeq(p, EndOf(p, n - 1) + 1, EndOf(p, n) - 1)

\* The components before the first empty one.
Components(p) ==
    LET empty == {n \in 1..(Len(p) + 1) : Component(p, n) = <<>>}
    IN  [n \in 1..(Min(empty) - 1) |-> Component(p, n)]

Proper ==
    /\ Len(path) \in 3..MAX_PATH_LEN
    /\ path[1] \in Digit
    /\ SubSeq(path, 2, 3) = <<":", "/">>

\* A path that starts with a drive and is not too long gives its components in
\* their order, all of them unless one is empty, and any other path gives none.
ParsesComponents ==
    pc = "done" =>
        root = IF Proper
               THEN [drive |-> path[1], parts |-> Components(path)]
               ELSE NULL

\* A component and its terminating zero fit the MYSTOS_MAX_PATH_LEN bytes that
\* get_path_part takes for it, although it never counts against them.
PartFits == Len(part) < MAX_PATH_LEN

\* Exactly what parser_free would give back has been taken: the root and two
\* blocks for each part.
NothingLost ==
    pc = "done" => blocks = IF root = NULL THEN 0 ELSE 1 + 2 * Len(root.parts)

\* Parsing ends for every path.
ParsingEnds == <>(pc = "done")
=============================================================================
