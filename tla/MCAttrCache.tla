---------------------------- MODULE MCAttrCache -----------------------------
(***************************************************************************)
(* AttrCache with one directory and one regular file.  The kernel's         *)
(* requests are those of chmod, chown, truncate, open with O_TRUNC (size    *)
(* and times of now), utimes with a time and touch.                         *)
(***************************************************************************)
EXTENDS AttrCache

CONSTANTS dir, file

MCFiles == {dir, file}
MCReg == {file}
MCSizes == 0 .. 1

MCStart ==
    LET t == [s |-> 0, n |-> 0]
    IN {[size |-> 0, mode |-> 0, owner |-> 0, atime |-> t, mtime |-> t,
         used |-> 0]}

Ask(bits, size, mode, owner, t) ==
    [to_set |-> bits, size |-> size, mode |-> mode, owner |-> owner,
     atime |-> t, mtime |-> t]

MCRequests ==
    LET t == [s |-> 0, n |-> 1]
    IN {Ask({"MODE"}, 0, 1, 0, t), Ask({"UID"}, 0, 0, 1, t),
        Ask({"SIZE"}, 0, 0, 0, t), Ask({"SIZE", "MODE"}, 1, 0, 0, t),
        Ask({"SIZE", "MTIME", "MTIME_NOW"}, 0, 0, 0, t),
        Ask({"ATIME", "MTIME"}, 0, 0, 0, t),
        Ask({"ATIME", "ATIME_NOW", "MTIME", "MTIME_NOW"}, 0, 0, 0, t)}
=============================================================================
