------------------------ MODULE MCDirectoryTransfer ------------------------
(***************************************************************************)
(* A source with a nested file, a file that opens a second pack and a      *)
(* link.  The destination is empty or holds something at a name in use.    *)
(***************************************************************************)
EXTENDS DirectoryTransfer

MCDirs  == {"sub"}
MCFiles == {"sub/a", "b"}
MCLinks == {"link"}
MCNames == MCDirs \cup MCFiles \cup MCLinks \cup {"sub/.a.part", ".b.part"}

MCParent == [p \in MCNames |-> IF p \in {"sub/a", "sub/.a.part"} THEN "sub" ELSE "root"]
MCPartial == [p \in MCFiles |-> IF p = "b" THEN ".b.part" ELSE "sub/.a.part"]
MCSize == [p \in MCFiles |-> IF p = "b" THEN 2 ELSE 1]

Empty == [p \in MCNames |-> Absent]
Old   == File(<<<<"old", 0>>>>)

\* A leftover of an earlier transfer, an older file, a link, a directory or a
\* file in the way.
MCDestinations ==
    {Empty} \cup
    {[Empty EXCEPT !["b"] = Old, ![".b.part"] = Old, !["link"] = Old],
     [Empty EXCEPT !["b"] = Link],
     [Empty EXCEPT !["b"] = Directory],
     [Empty EXCEPT !["sub"] = Old]}

\* A source that holds the leftover staging file of an earlier transfer.
ClashFiles == {"b", ".b.part"}
ClashNames == ClashFiles \cup {"..b.part.part"}
ClashParent == [p \in ClashNames |-> "root"]
ClashPartial == [p \in ClashFiles |-> IF p = "b" THEN ".b.part" ELSE "..b.part.part"]
ClashSize == [p \in ClashFiles |-> 1]
ClashDestinations == {[p \in ClashNames |-> Absent]}
=============================================================================
