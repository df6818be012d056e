----------------------------- MODULE MCFuseRefs -----------------------------
(***************************************************************************)
(* FuseRefs on a server with the root, one more directory and one file.     *)
(* Each of the two can get the fileid of the other once that is removed.    *)
(***************************************************************************)
EXTENDS FuseRefs

CONSTANTS root, dir, file

MCObjects == {root, dir, file}
MCDirs == {root, dir}
MCFileId == [o \in MCObjects |-> IF o = root THEN 1 ELSE 2]

\* For longer directory listings: the root and one file only.
MCFewObjects == {root, file}
MCFewDirs == {root}
=============================================================================
