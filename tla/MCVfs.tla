------------------------------- MODULE MCVfs -------------------------------
(* A root directory with two files, a directory whose items take two blocks  *)
(* and one that cannot be read, and paths of every kind that fopen tells     *)
(* apart.                                                                    *)
EXTENDS Vfs

File(size) == [dir |-> FALSE, size |-> size, blocks |-> 0, readable |-> TRUE]
Directory(blocks, readable) ==
    [dir |-> TRUE, size |-> 0, blocks |-> blocks, readable |-> readable]

MCRoot == [a |-> File(3), b |-> File(2),
           sub |-> Directory(2, TRUE), bad |-> Directory(1, FALSE)]

PathTo(parts) == [valid |-> TRUE, drive |-> 0, parts |-> parts]

MCPaths == {PathTo(<<"a">>), PathTo(<<"b">>), PathTo(<<"sub">>), PathTo(<<"bad">>),
            PathTo(<<"sub", "a">>), PathTo(<<"none">>), PathTo(<<>>),
            [valid |-> TRUE, drive |-> 1, parts |-> <<"a">>],
            [valid |-> FALSE, drive |-> 0, parts |-> <<>>]}
=============================================================================
