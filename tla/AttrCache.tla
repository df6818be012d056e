----------------------------- MODULE AttrCache ------------------------------
(***************************************************************************)
(* Attributes: what the server has, what the inode caches (hsfs_inode's     *)
(* iattr) and what the kernel was told, for a fixed set of files the kernel *)
(* knows.  Another client changes files on the server at any time; this     *)
(* client changes them by SETATTR, by WRITE, whose answer refreshes         *)
(* nothing, and by CREATE, which changes the directory.                     *)
(*                                                                          *)
(* Server attributes reach the kernel along two ways: GETATTR converts them *)
(* by hsi_nfs3_fattr2stat(), everything else goes through the inode         *)
(* (hsi_nfs3_fattr2fattr(), nfs_update_inode(), hsfs_generic_fillattr()).   *)
(* The user and group of a file are one attribute here, `owner'; ctime is   *)
(* the count of changes.  A file handle determines fileid and type, so that *)
(* the ESTALE exits of nfs_update_inode() are not taken.                    *)
(***************************************************************************)
EXTENDS Integers

CONSTANTS
    Files,      \* the files whose inodes the kernel holds
    Reg,        \* the regular files among them; the others are directories
    Sizes,      \* file sizes
    Modes, Owners,
    Secs, Nsecs,
    Block,      \* bytes of a block, 512 in the code
    Start,      \* the attributes a file starts with
    Requests,   \* the SETATTR requests of the kernel
    NoRequest,  \* not a request
    MaxChanges  \* bound: changes of one file on the server

FuseBits == {"MODE", "UID", "SIZE", "ATIME", "MTIME", "ATIME_NOW", "MTIME_NOW"}

Time == [s : Secs, n : Nsecs]

Request == [to_set : SUBSET FuseBits, size : Sizes, mode : Modes,
            owner : Owners, atime : Time, mtime : Time]

(* fattr3, and struct hsfs_iattr with i_blocks, which struct stat matches.  *)
Fattr == [size : Sizes, mode : Modes, owner : Owners, atime : Time,
          mtime : Time, used : Sizes]
Stat  == [size : Sizes, mode : Modes, owner : Owners, atime : Time,
          mtime : Time, blocks : Nat]

Age == {"fresh", "stale"}

ASSUME AttrAssumption ==
    /\ Start \subseteq Fattr
    /\ Reg \subseteq Files
    /\ Sizes \subseteq Nat
    /\ Block \in Nat \ {0}
    /\ Requests \subseteq Request
    /\ NoRequest \notin Files \X Requests \X Age
    /\ MaxChanges \in Nat

VARIABLES
    srv,        \* the attributes on the server
    sver,       \*   and how often they changed
    iattr,      \* the attributes cached in the inode
    iver,       \* history: the change they were copied at
    kstat,      \* the attributes the kernel was told last
    kver,       \* history: the change they were copied at
    done        \* history: the SETATTR answered in the last step, and whether
                \*   the inode was out of date before it

vars == <<srv, sver, iattr, iver, kstat, kver, done>>

(* The type of the state: every copy of the attributes is complete.         *)
TypeOK ==
    /\ srv \in [Files -> Fattr]
    /\ sver \in [Files -> 0 .. MaxChanges]
    /\ iattr \in [Files -> Stat]
    /\ iver \in [Files -> Nat]
    /\ kstat \in [Files -> Stat]
    /\ kver \in [Files -> Nat]
    /\ done \in (Files \X Requests \X Age) \cup {NoRequest}

-----------------------------------------------------------------------------
(* Conversions.                                                             *)

(* The way through the inode; nfs_calc_block_size() rounds up.              *)
hsi_nfs3_fattr2fattr(a) ==
    [size |-> a.size, mode |-> a.mode, owner |-> a.owner, atime |-> a.atime,
     mtime |-> a.mtime, blocks |-> (a.used + (Block - 1)) \div Block]

(* The way of GETATTR: blocks are rounded down, and the nanoseconds of      *)
(* mtime are those of atime.                                                *)
hsi_nfs3_fattr2stat(a) ==
    [size |-> a.size, mode |-> a.mode, owner |-> a.owner, atime |-> a.atime,
     mtime |-> [s |-> a.mtime.s, n |-> a.atime.n],
     blocks |-> a.used \div Block]

(* The to_set mask of the kernel as hsfs_iattr.valid.                       *)
hsx_fuse_stat2iattr(to_set) ==
    (to_set \ {"ATIME_NOW", "MTIME_NOW"})
    \cup (IF "ATIME" \in to_set /\ "ATIME_NOW" \notin to_set
          THEN {"ATIME_SET"} ELSE {})
    \cup (IF "MTIME" \in to_set /\ "MTIME_NOW" \notin to_set
          THEN {"MTIME_SET"} ELSE {})

(* The time fields of the SETATTR arguments: the client's time is filled in *)
(* first and then replaced, as S_ISSETATIMENOW() tests HSFS_ATTR_ATIME.     *)
set_time(valid, now_bit, set_bit) ==
    IF now_bit \in valid THEN "SET_TO_SERVER_TIME"
    ELSE IF set_bit \in valid THEN "SET_TO_CLIENT_TIME"
    ELSE "DONT_CHANGE"

-----------------------------------------------------------------------------
(* The server.                                                              *)

TimeAfter(how, old, asked, now) ==
    CASE how = "SET_TO_SERVER_TIME" -> now
      [] how = "SET_TO_CLIENT_TIME" -> asked
      [] OTHER -> old

(* SETATTR with the attributes in `valid' of request r.                     *)
ServerSetattr(a, valid, r, now) ==
    LET size == IF "SIZE" \in valid THEN r.size ELSE a.size
        mtime_how == set_time(valid, "MTIME", "MTIME_SET")
    IN [size  |-> size,
        used  |-> size,
        mode  |-> IF "MODE" \in valid THEN r.mode ELSE a.mode,
        owner |-> IF "UID" \in valid THEN r.owner ELSE a.owner,
        atime |-> TimeAfter(set_time(valid, "ATIME", "ATIME_SET"),
                            a.atime, r.atime, now),
        mtime |-> IF "SIZE" \in valid /\ mtime_how = "DONT_CHANGE" THEN now
                  ELSE TimeAfter(mtime_how, a.mtime, r.mtime, now)]

Changes(f, a) ==
    /\ sver[f] < MaxChanges
    /\ srv' = [srv EXCEPT ![f] = a]
    /\ sver' = [sver EXCEPT ![f] = @ + 1]

(* Another client writes to f, or changes its mode or owner.                *)
server_change(f) ==
    /\ \E now \in Time :
          \/ \E n \in Sizes :
                /\ f \in Reg
                /\ Changes(f, [srv[f] EXCEPT !.size = n, !.used = n,
                                             !.mtime = now])
          \/ \E m \in Modes, u \in Owners :
                Changes(f, [srv[f] EXCEPT !.mode = m, !.owner = u])
    /\ done' = NoRequest
    /\ UNCHANGED <<iattr, iver, kstat, kver>>

-----------------------------------------------------------------------------
(* The inode and the replies.                                               *)

nfs_update_inode_NoOwner(f, a) ==
    iattr' = [iattr EXCEPT ![f] = [hsi_nfs3_fattr2fattr(a) EXCEPT
                                      !.owner = iattr[f].owner]]

nfs_update_inode(f, a) ==
    iattr' = [iattr EXCEPT ![f] = hsi_nfs3_fattr2fattr(a)]

(* The answer carried attributes of f as the server has them after it.      *)
nfs_refresh_inode(f) ==
    /\ nfs_update_inode(f, srv'[f])
    /\ iver' = [iver EXCEPT ![f] = sver'[f]]

(* The kernel is told the attributes of the inode (hsfs_generic_fillattr).  *)
ReplyInode(f) ==
    /\ kstat' = [kstat EXCEPT ![f] = iattr'[f]]
    /\ kver' = [kver EXCEPT ![f] = iver'[f]]

hsi_nfs3_getattr_NoRefresh(f) == UNCHANGED <<iattr, iver>>

hsi_nfs3_getattr(f) == nfs_refresh_inode(f)

hsx_fuse_getattr(f) ==
    /\ UNCHANGED <<srv, sver>>
    /\ hsi_nfs3_getattr(f)
    /\ kstat' = [kstat EXCEPT ![f] = hsi_nfs3_fattr2stat(srv[f])]
    /\ kver' = [kver EXCEPT ![f] = sver[f]]
    /\ done' = NoRequest

(* LOOKUP of a cached file: hsi_nfs_fhget() refreshes the inode it finds.   *)
hsx_fuse_lookup(f) ==
    /\ UNCHANGED <<srv, sver>>
    /\ nfs_refresh_inode(f)
    /\ ReplyInode(f)
    /\ done' = NoRequest

(* link() adds a name to f.  An answer without attributes is followed by a  *)
(* GETATTR; when that fails, the link is there and the kernel gets the      *)
(* error.                                                                   *)
hsx_fuse_link(f) ==
    /\ f \in Reg
    /\ Changes(f, srv[f])
    /\ \/ nfs_refresh_inode(f) /\ ReplyInode(f)
       \/ UNCHANGED <<iattr, iver, kstat, kver>>
    /\ done' = NoRequest

(* READDIR, and READDIRPLUS up to its entries, which are lookups, refresh   *)
(* the directory when the answer has its attributes.                        *)
hsx_fuse_readdir(d) ==
    /\ d \notin Reg
    /\ UNCHANGED <<srv, sver>>
    /\ nfs_refresh_inode(d)
    /\ done' = NoRequest
    /\ UNCHANGED <<kstat, kver>>

(* WRITE up to offset n.  Neither its answer nor an error refreshes i_size. *)
hsx_fuse_write(f, n) ==
    /\ f \in Reg
    /\ \E now \in Time :
          LET size == IF n > srv[f].size THEN n ELSE srv[f].size
          IN Changes(f, [srv[f] EXCEPT !.size = size, !.used = size,
                                       !.mtime = now])
    /\ done' = NoRequest
    /\ UNCHANGED <<iattr, iver, kstat, kver>>

(* CREATE of a new file in d by user u: the caller is stored into the inode *)
(* of the directory, from where hsi_nfs3_create() takes it.                 *)
hsx_fuse_create(d, u) ==
    /\ d \notin Reg
    /\ iattr' = [iattr EXCEPT ![d].owner = u]
    /\ \/ \E now \in Time : Changes(d, [srv[d] EXCEPT !.mtime = now])
       \/ UNCHANGED <<srv, sver>>
    /\ done' = NoRequest
    /\ UNCHANGED <<iver, kstat, kver>>

-----------------------------------------------------------------------------
(* SETATTR.                                                                 *)

hsi_nfs_setattr_valid_AtMost(f, r) ==
    LET valid == hsx_fuse_stat2iattr(r.to_set)
    IN IF "SIZE" \in valid /\ (f \notin Reg \/ r.size <= iattr[f].size)
       THEN valid \ {"SIZE"} ELSE valid

(* What hsi_nfs_setattr() leaves of the request: the size is dropped when   *)
(* it is the cached one.                                                    *)
hsi_nfs_setattr_valid(f, r) ==
    LET valid == hsx_fuse_stat2iattr(r.to_set)
    IN IF "SIZE" \in valid /\ (f \notin Reg \/ r.size = iattr[f].size)
       THEN valid \ {"SIZE"} ELSE valid

(* The kernel asks for something, and truncates regular files only.         *)
KernelAsks(f, r) ==
    /\ r.to_set \ {"ATIME_NOW", "MTIME_NOW"} # {}
    /\ "SIZE" \in r.to_set => f \in Reg

(* History: was the inode up to date.                                       *)
AgeOf(f) == IF iver[f] = sver[f] THEN "fresh" ELSE "stale"

(* Nothing is left to do: no call, and the reply is made from the inode.    *)
hsx_fuse_setattr_skipped(f, r) ==
    /\ KernelAsks(f, r)
    /\ hsi_nfs_setattr_valid(f, r) = {}
    /\ UNCHANGED <<srv, sver, iattr, iver>>
    /\ ReplyInode(f)
    /\ done' = <<f, r, AgeOf(f)>>

hsx_fuse_setattr(f, r) ==
    /\ KernelAsks(f, r)
    /\ hsi_nfs_setattr_valid(f, r) # {}
    /\ \E now \in Time :
          Changes(f, ServerSetattr(srv[f], hsi_nfs_setattr_valid(f, r), r, now))
    /\ nfs_refresh_inode(f)
    /\ ReplyInode(f)
    /\ done' = <<f, r, AgeOf(f)>>

(* The server does it, but the answer is lost or has no attributes: the     *)
(* kernel gets an error (EAGAIN in the second case).                        *)
hsx_fuse_setattr_unseen(f, r) ==
    /\ KernelAsks(f, r)
    /\ hsi_nfs_setattr_valid(f, r) # {}
    /\ \E now \in Time :
          Changes(f, ServerSetattr(srv[f], hsi_nfs_setattr_valid(f, r), r, now))
    /\ done' = NoRequest
    /\ UNCHANGED <<iattr, iver, kstat, kver>>

-----------------------------------------------------------------------------
(* The kernel knows a file by an entry, made from the inode.                *)
Init ==
    /\ srv \in [Files -> Start]
    /\ sver = [f \in Files |-> 0]
    /\ iattr = [f \in Files |-> hsi_nfs3_fattr2fattr(srv[f])]
    /\ iver = [f \in Files |-> 0]
    /\ kstat = iattr
    /\ kver = [f \in Files |-> 0]
    /\ done = NoRequest

HandlerStep(f) ==
    \/ hsx_fuse_getattr(f)
    \/ hsx_fuse_lookup(f)
    \/ hsx_fuse_link(f)
    \/ hsx_fuse_readdir(f)
    \/ \E n \in Sizes : hsx_fuse_write(f, n)
    \/ \E u \in Owners : hsx_fuse_create(f, u)
    \/ \E r \in Requests :
          \/ hsx_fuse_setattr_skipped(f, r)
          \/ hsx_fuse_setattr(f, r)
          \/ hsx_fuse_setattr_unseen(f, r)

Next == \E f \in Files : HandlerStep(f) \/ server_change(f)

Spec == Init /\ [][Next]_vars

(* The same when no other client uses the server.                           *)
AloneSpec == Init /\ [][\E f \in Files : HandlerStep(f)]_vars

-----------------------------------------------------------------------------
(* Properties.                                                              *)

(***************************************************************************)
(* What the kernel was told last about a file that has not changed since is *)
(* what the server has, by one of the two conversions; in particular the    *)
(* caller that hsx_fuse_create() leaves in the directory's inode never      *)
(* reaches the kernel as the directory's owner.                             *)
(***************************************************************************)
ToldIsTrue ==
    \A f \in Files :
       kver[f] = sver[f] =>
          kstat[f] \in {hsi_nfs3_fattr2fattr(srv[f]),
                        hsi_nfs3_fattr2stat(srv[f])}

(***************************************************************************)
(* Replies made from the cached inode (a SETATTR that needs no call) never  *)
(* take the kernel back to attributes older than those it was told before,  *)
(* by whichever handler.                                                    *)
(***************************************************************************)
KernelNeverGoesBack ==
    [][\A f \in Files : kver'[f] >= kver[f]]_vars

(***************************************************************************)
(* A SETATTR answered with success has set mode and owner, and has set the  *)
(* size unless the inode was out of date: a truncation can only be lost     *)
(* when the file has changed on the server since the inode was refreshed.   *)
(***************************************************************************)
SetattrDoneUnlessStale ==
    done # NoRequest =>
       LET f == done[1]
           r == done[2]
       IN /\ "MODE" \in r.to_set => srv[f].mode = r.mode
          /\ "UID" \in r.to_set => srv[f].owner = r.owner
          /\ "SIZE" \in r.to_set => srv[f].size = r.size \/ done[3] = "stale"

(***************************************************************************)
(* hsx_fuse.h says of to_set: "bit mask of attributes which should be set". *)
(* A truncation answered with success has set the size of the file, at      *)
(* least when this client alone uses it (AloneSpec).                        *)
(***************************************************************************)
TruncateTakesEffect ==
    done # NoRequest /\ "SIZE" \in done[2].to_set =>
       srv[done[1]].size = done[2].size
=============================================================================
