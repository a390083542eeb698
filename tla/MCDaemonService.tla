--------------------------- MODULE MCDaemonService ---------------------------
(***************************************************************************)
(* DaemonService with two versions of a staged file that begin alike, and  *)
(* a small file.                                                           *)
(***************************************************************************)
EXTENDS DaemonService

CONSTANTS x, a, b, c, o

AllFiles == {<<x, a>>, <<x, b, b>>, <<c>>}

\* Nothing, another version, another file of the same size.
Destinations == {None, <<x, o>>, <<o, o>>}

\* The two options of the daemon are read nowhere but in Refused, where one that
\* overwrites does what one does that refuses and has --resume.
Refusing == refuse

\* Two sessions that send the same staged file to an empty directory.
OneFile == {<<x, a>>}
Nothing == {None}
=============================================================================
