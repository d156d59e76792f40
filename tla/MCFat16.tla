------------------------------ MODULE MCFat16 ------------------------------
(* Clusters of two sectors of two bytes, three slots; the FAT entries are     *)
(* looked for behind the FATs, as on the real disk.  Fields of two characters *)
(* and one: a name that leaves room, one that fills its field, an extension   *)
(* with the attribute 0x21 behind it, and a directory.  The directory's heap  *)
(* block has room for four items, and a full one may count two more.          *)
EXTENDS Fat16

MCOffDisk == -1
MClower == "A" :> "a" @@ "B" :> "b" @@ "X" :> "x"
Entry(name, ext, attribute) == [name |-> name, ext |-> ext, attribute |-> attribute]
MCFiles == {Entry(<<"A">>, <<"X">>, " "), Entry(<<"B", "A">>, <<"X">>, " "),
            Entry(<<"B">>, <<"X">>, "!"), Entry(<<"B">>, <<>>, "directory")}
MCPaths == {<<PathOf(f)>> : f \in MCFiles}
           \cup {<<<<"a", ".", "x">>>>, <<<<"b", "a", "x", ".", "x">>>>, <<<<"b">>, <<"a", ".", "x">>>>}
MCDebris == {File(Entry(<<"A">>, <<"X">>, " "), <<4>>)}
MCTwoFiles == {f \in MCFiles : f.attribute = " "}
=============================================================================
