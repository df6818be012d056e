-------------------------- MODULE AttrCacheProofs ---------------------------
(***************************************************************************)
(* Proofs for AttrCache, for any set of files, sizes, owners and times and  *)
(* any set of SETATTR requests.                                             *)
(*                                                                          *)
(* The inductive invariant relates the three copies of the attributes by    *)
(* the change they were copied at: the kernel is never ahead of the inode,  *)
(* nor the inode of the server, and a copy made at the server's latest      *)
(* change is equal to the server's, except for the owner cached for a       *)
(* directory.                                                               *)
(***************************************************************************)
EXTENDS AttrCache, TLAPS

USE ZenonT(60)

(* The three copies are in order of age.                                    *)
Ordered ==
    \A f \in Files : kver[f] <= iver[f] /\ iver[f] <= sver[f]

(* A cached copy that is up to date is true.  hsx_fuse_create() spoils the  *)
(* owner of directories only.                                               *)
CachedIsTrue ==
    \A f \in Files :
       f \in Reg /\ iver[f] = sver[f] =>
          iattr[f] = hsi_nfs3_fattr2fattr(srv[f])

IInv ==
    /\ TypeOK
    /\ Ordered
    /\ CachedIsTrue
    /\ ToldIsTrue
    /\ SetattrDoneUnlessStale

-----------------------------------------------------------------------------
(* Conversions and the server keep to their types.                          *)

LEMMA DivIsNat ==
    ASSUME NEW x \in Nat, NEW b \in Nat \ {0} PROVE x \div b \in Nat
  BY SMT

LEMMA Fattr2fattrType ==
    ASSUME NEW a \in Fattr PROVE hsi_nfs3_fattr2fattr(a) \in Stat
<1>1. (a.used + (Block - 1)) \div Block \in Nat
  <2>1. a.used \in Nat
    BY AttrAssumption DEF Fattr
  <2>2. Block \in Nat \ {0}
    BY AttrAssumption
  <2>3. a.used + (Block - 1) \in Nat
    BY SMTT(60), <2>1, <2>2
  <2> QED
    BY <2>2, <2>3, DivIsNat
<1> QED
  BY <1>1 DEF Fattr, Stat, hsi_nfs3_fattr2fattr

LEMMA Fattr2statType ==
    ASSUME NEW a \in Fattr PROVE hsi_nfs3_fattr2stat(a) \in Stat
<1>1. a.used \div Block \in Nat
  <2>1. a.used \in Nat
    BY AttrAssumption DEF Fattr
  <2> QED
    BY <2>1, DivIsNat, AttrAssumption
<1>2. [s |-> a.mtime.s, n |-> a.atime.n] \in Time
  BY DEF Fattr, Time
<1> QED
  BY <1>1, <1>2 DEF Fattr, Stat, hsi_nfs3_fattr2stat

LEMMA ServerSetattrType ==
    ASSUME NEW a \in Fattr, NEW valid, NEW r \in Requests, NEW now \in Time
    PROVE  ServerSetattr(a, valid, r, now) \in Fattr
<1>1. r \in Request
  BY AttrAssumption
<1>2. \A how, old, asked : old \in Time /\ asked \in Time =>
         TimeAfter(how, old, asked, now) \in Time
  BY DEF TimeAfter
<1>3. /\ r.size \in Sizes /\ r.mode \in Modes /\ r.owner \in Owners
      /\ r.atime \in Time /\ r.mtime \in Time
  BY <1>1 DEF Request
<1>4. /\ a.size \in Sizes /\ a.mode \in Modes /\ a.owner \in Owners
      /\ a.atime \in Time /\ a.mtime \in Time
  BY DEF Fattr
<1>5. TimeAfter(set_time(valid, "ATIME", "ATIME_SET"), a.atime, r.atime, now)
         \in Time
  BY <1>2, <1>3, <1>4
<1>6. TimeAfter(set_time(valid, "MTIME", "MTIME_SET"), a.mtime, r.mtime, now)
         \in Time
  BY <1>2, <1>3, <1>4
<1> QED
  BY <1>3, <1>4, <1>5, <1>6 DEF ServerSetattr, Fattr

(* What hsi_nfs_setattr() keeps of a request.                               *)
LEMMA ValidBits ==
    ASSUME NEW f, NEW r \in Requests
    PROVE  /\ "MODE" \in hsi_nfs_setattr_valid(f, r) <=> "MODE" \in r.to_set
           /\ "UID" \in hsi_nfs_setattr_valid(f, r) <=> "UID" \in r.to_set
           /\ "SIZE" \in r.to_set /\ "SIZE" \notin hsi_nfs_setattr_valid(f, r)
                => f \notin Reg \/ r.size = iattr[f].size
           /\ "SIZE" \in hsi_nfs_setattr_valid(f, r) => "SIZE" \in r.to_set
  BY DEF hsi_nfs_setattr_valid, hsx_fuse_stat2iattr

(* Only a truncation can be skipped.                                        *)
LEMMA SkippedIsTruncate ==
    ASSUME NEW f, NEW r \in Requests, KernelAsks(f, r),
           hsi_nfs_setattr_valid(f, r) = {}
    PROVE  /\ f \in Reg /\ r.size = iattr[f].size
           /\ "MODE" \notin r.to_set /\ "UID" \notin r.to_set
<1>1. "SIZE" \in r.to_set
  <2>1. PICK b \in r.to_set : b \notin {"ATIME_NOW", "MTIME_NOW"}
    BY DEF KernelAsks
  <2>2. b \in hsx_fuse_stat2iattr(r.to_set)
    BY <2>1 DEF hsx_fuse_stat2iattr
  <2> QED
    BY SMTT(60), <2>1, <2>2 DEF hsi_nfs_setattr_valid
<1>2. f \in Reg
  BY <1>1 DEF KernelAsks
<1> QED
  BY <1>1, <1>2, ValidBits

-----------------------------------------------------------------------------
(* The initial states.                                                      *)

LEMMA InitInv == Init => IInv
<1> SUFFICES ASSUME Init PROVE IInv
  OBVIOUS
<1>1. srv \in [Files -> Fattr]
  BY AttrAssumption DEF Init
<1>2. \A f \in Files : hsi_nfs3_fattr2fattr(srv[f]) \in Stat
  BY <1>1, Fattr2fattrType
<1>3. TypeOK
  BY SMTT(60), <1>1, <1>2, AttrAssumption DEF Init, TypeOK
<1>4. Ordered
  <2>1. \A f \in Files : kver[f] = 0 /\ iver[f] = 0 /\ sver[f] = 0
    BY DEF Init
  <2>2. ASSUME NEW f \in Files PROVE kver[f] <= iver[f] /\ iver[f] <= sver[f]
    <3>1. kver[f] = 0 /\ iver[f] = 0 /\ sver[f] = 0
      BY <2>1
    <3> QED
      BY SMTT(60), <3>1
  <2> QED
    BY <2>2 DEF Ordered
<1>5. CachedIsTrue
  BY DEF Init, CachedIsTrue
<1>6. ToldIsTrue
  BY DEF Init, ToldIsTrue
<1>7. SetattrDoneUnlessStale
  BY DEF Init, SetattrDoneUnlessStale
<1> QED
  BY <1>3, <1>4, <1>5, <1>6, <1>7 DEF IInv

-----------------------------------------------------------------------------
(* Steps.  A step on file f is one of: the server changes f and nobody is   *)
(* told; f is refreshed, with or without a change; a reply is made from the *)
(* inode as it is; the owner of a directory is overwritten.                 *)

LEMMA ChangeTypes ==
    ASSUME TypeOK, NEW f \in Files, NEW a \in Fattr, Changes(f, a)
    PROVE  /\ srv' \in [Files -> Fattr] /\ sver' \in [Files -> 0 .. MaxChanges]
           /\ srv'[f] = a /\ sver'[f] = sver[f] + 1
           /\ \A g \in Files \ {f} : srv'[g] = srv[g] /\ sver'[g] = sver[g]
<1>1. srv \in [Files -> Fattr] /\ sver \in [Files -> 0 .. MaxChanges]
  BY DEF TypeOK
<1>2. sver[f] \in 0 .. MaxChanges /\ sver[f] < MaxChanges
  BY <1>1 DEF Changes
<1>3. sver[f] + 1 \in 0 .. MaxChanges
  BY SMTT(60), <1>2, AttrAssumption
<1> QED
  BY <1>1, <1>3 DEF Changes

LEMMA RefreshTypes ==
    ASSUME TypeOK, NEW f \in Files, srv' \in [Files -> Fattr],
           sver' \in [Files -> 0 .. MaxChanges], nfs_refresh_inode(f)
    PROVE  /\ iattr' \in [Files -> Stat] /\ iver' \in [Files -> Nat]
           /\ iattr'[f] = hsi_nfs3_fattr2fattr(srv'[f]) /\ iver'[f] = sver'[f]
           /\ \A g \in Files \ {f} : iattr'[g] = iattr[g] /\ iver'[g] = iver[g]
<1>1. iattr \in [Files -> Stat] /\ iver \in [Files -> Nat]
  BY DEF TypeOK
<1>2. hsi_nfs3_fattr2fattr(srv'[f]) \in Stat
  BY Fattr2fattrType
<1>3. sver'[f] \in Nat
  BY SMTT(60), AttrAssumption
<1> QED
  BY <1>1, <1>2, <1>3 DEF nfs_refresh_inode, nfs_update_inode

(* The server changes f and neither inode nor kernel learn of it.           *)
LEMMA UnseenChange ==
    ASSUME IInv, NEW f \in Files, NEW a \in Fattr, Changes(f, a),
           UNCHANGED <<iattr, iver, kstat, kver>>, done' = NoRequest
    PROVE  IInv'
<1>1. /\ srv' \in [Files -> Fattr] /\ sver' \in [Files -> 0 .. MaxChanges]
      /\ srv'[f] = a /\ sver'[f] = sver[f] + 1
      /\ \A g \in Files \ {f} : srv'[g] = srv[g] /\ sver'[g] = sver[g]
  BY ChangeTypes DEF IInv
<1>2. TypeOK'
  BY <1>1 DEF IInv, TypeOK
<1>3. \A g \in Files : sver[g] \in Nat /\ iver[g] \in Nat /\ kver[g] \in Nat
  BY SMTT(60), AttrAssumption DEF IInv, TypeOK
<1>4. Ordered'
  BY SMTT(60), <1>1, <1>3 DEF IInv, Ordered
<1>5. kver[f] < sver'[f] /\ iver[f] < sver'[f]
  BY SMTT(60), <1>1, <1>3 DEF IInv, Ordered
<1>6. CachedIsTrue'
  BY SMTT(60), <1>1, <1>3, <1>5 DEF IInv, CachedIsTrue
<1>7. ToldIsTrue'
  BY SMTT(60), <1>1, <1>3, <1>5 DEF IInv, ToldIsTrue
<1>8. SetattrDoneUnlessStale'
  BY DEF SetattrDoneUnlessStale
<1> QED
  BY <1>2, <1>4, <1>6, <1>7, <1>8 DEF IInv

(* f is refreshed, and the kernel is told its attributes by either way.     *)
LEMMA RefreshedReply ==
    ASSUME IInv, NEW f \in Files,
           srv' \in [Files -> Fattr], sver' \in [Files -> 0 .. MaxChanges],
           sver[f] <= sver'[f],
           \A g \in Files \ {f} : srv'[g] = srv[g] /\ sver'[g] = sver[g],
           nfs_refresh_inode(f),
           NEW st, st = hsi_nfs3_fattr2fattr(srv'[f])
                      \/ st = hsi_nfs3_fattr2stat(srv'[f]),
           kstat' = [kstat EXCEPT ![f] = st],
           kver' = [kver EXCEPT ![f] = sver'[f]],
           done' \in (Files \X Requests \X Age) \cup {NoRequest},
           SetattrDoneUnlessStale'
    PROVE  IInv'
<1>1. /\ iattr' \in [Files -> Stat] /\ iver' \in [Files -> Nat]
      /\ iattr'[f] = hsi_nfs3_fattr2fattr(srv'[f]) /\ iver'[f] = sver'[f]
      /\ \A g \in Files \ {f} : iattr'[g] = iattr[g] /\ iver'[g] = iver[g]
  BY RefreshTypes DEF IInv
<1>2. st \in Stat
  BY Fattr2fattrType, Fattr2statType
<1>3. kstat \in [Files -> Stat] /\ kver \in [Files -> Nat]
  BY DEF IInv, TypeOK
<1>4. sver'[f] \in Nat
  BY SMTT(60), AttrAssumption
<1>5. /\ kstat' \in [Files -> Stat] /\ kver' \in [Files -> Nat]
      /\ kstat'[f] = st /\ kver'[f] = sver'[f]
      /\ \A g \in Files \ {f} : kstat'[g] = kstat[g] /\ kver'[g] = kver[g]
  BY <1>2, <1>3, <1>4
<1>6. TypeOK'
  BY <1>1, <1>5 DEF TypeOK
<1>7. Ordered'
  BY SMTT(60), <1>1, <1>4, <1>5 DEF IInv, Ordered
<1>8. CachedIsTrue'
  BY <1>1 DEF IInv, CachedIsTrue
<1>9. ToldIsTrue'
  BY <1>5 DEF IInv, ToldIsTrue
<1> QED
  BY <1>6, <1>7, <1>8, <1>9 DEF IInv

LEMMA GetattrInv ==
    ASSUME IInv, NEW f \in Files, hsx_fuse_getattr(f) PROVE IInv'
<1>1. srv' = srv /\ sver' = sver /\ done' = NoRequest
  BY DEF hsx_fuse_getattr
<1>2. srv' \in [Files -> Fattr] /\ sver' \in [Files -> 0 .. MaxChanges]
  BY <1>1 DEF IInv, TypeOK
<1>3. sver[f] <= sver'[f]
  BY SMTT(60), <1>1, <1>2, AttrAssumption
<1>4. SetattrDoneUnlessStale'
  BY <1>1 DEF SetattrDoneUnlessStale
<1>5. /\ nfs_refresh_inode(f)
      /\ kstat' = [kstat EXCEPT ![f] = hsi_nfs3_fattr2stat(srv'[f])]
      /\ kver' = [kver EXCEPT ![f] = sver'[f]]
  BY <1>1 DEF hsx_fuse_getattr, hsi_nfs3_getattr
<1> QED
  BY <1>1, <1>2, <1>3, <1>4, <1>5, RefreshedReply

LEMMA ReplyIs ==
    ASSUME TypeOK, NEW f \in Files, srv' \in [Files -> Fattr],
           sver' \in [Files -> 0 .. MaxChanges], nfs_refresh_inode(f),
           ReplyInode(f)
    PROVE  /\ kstat' = [kstat EXCEPT ![f] = hsi_nfs3_fattr2fattr(srv'[f])]
           /\ kver' = [kver EXCEPT ![f] = sver'[f]]
<1>1. iattr'[f] = hsi_nfs3_fattr2fattr(srv'[f]) /\ iver'[f] = sver'[f]
  BY RefreshTypes
<1> QED
  BY <1>1 DEF ReplyInode

LEMMA LookupInv ==
    ASSUME IInv, NEW f \in Files, hsx_fuse_lookup(f) PROVE IInv'
<1>1. srv' = srv /\ sver' = sver /\ done' = NoRequest
  BY DEF hsx_fuse_lookup
<1>2. srv' \in [Files -> Fattr] /\ sver' \in [Files -> 0 .. MaxChanges]
  BY <1>1 DEF IInv, TypeOK
<1>3. sver[f] <= sver'[f]
  BY SMTT(60), <1>1, <1>2, AttrAssumption
<1>4. SetattrDoneUnlessStale'
  BY <1>1 DEF SetattrDoneUnlessStale
<1>5. nfs_refresh_inode(f) /\ ReplyInode(f)
  BY DEF hsx_fuse_lookup
<1>6. /\ kstat' = [kstat EXCEPT ![f] = hsi_nfs3_fattr2fattr(srv'[f])]
      /\ kver' = [kver EXCEPT ![f] = sver'[f]]
  BY <1>2, <1>5, ReplyIs DEF IInv
<1> QED
  BY <1>1, <1>2, <1>3, <1>4, <1>5, <1>6, RefreshedReply

LEMMA LinkInv ==
    ASSUME IInv, NEW f \in Files, hsx_fuse_link(f) PROVE IInv'
<1>1. srv[f] \in Fattr /\ Changes(f, srv[f]) /\ done' = NoRequest
  BY DEF hsx_fuse_link, IInv, TypeOK
<1>2. CASE UNCHANGED <<iattr, iver, kstat, kver>>
  BY <1>1, <1>2, UnseenChange
<1>3. CASE nfs_refresh_inode(f) /\ ReplyInode(f)
  <2>1. /\ srv' \in [Files -> Fattr] /\ sver' \in [Files -> 0 .. MaxChanges]
        /\ sver'[f] = sver[f] + 1
        /\ \A g \in Files \ {f} : srv'[g] = srv[g] /\ sver'[g] = sver[g]
    BY <1>1, ChangeTypes DEF IInv
  <2>2. sver[f] <= sver'[f]
    BY SMTT(60), <2>1, AttrAssumption DEF IInv, TypeOK
  <2>3. SetattrDoneUnlessStale'
    BY <1>1 DEF SetattrDoneUnlessStale
  <2>4. /\ kstat' = [kstat EXCEPT ![f] = hsi_nfs3_fattr2fattr(srv'[f])]
        /\ kver' = [kver EXCEPT ![f] = sver'[f]]
    BY <1>3, <2>1, ReplyIs DEF IInv
  <2> QED
    BY <1>1, <1>3, <2>1, <2>2, <2>3, <2>4, RefreshedReply
<1> QED
  BY <1>2, <1>3 DEF hsx_fuse_link

(* A directory is refreshed and the kernel told nothing.                    *)
LEMMA ReaddirInv ==
    ASSUME IInv, NEW d \in Files, hsx_fuse_readdir(d) PROVE IInv'
<1>1. /\ srv' = srv /\ sver' = sver /\ done' = NoRequest
      /\ kstat' = kstat /\ kver' = kver /\ nfs_refresh_inode(d)
  BY DEF hsx_fuse_readdir
<1>2. srv' \in [Files -> Fattr] /\ sver' \in [Files -> 0 .. MaxChanges]
  BY <1>1 DEF IInv, TypeOK
<1>3. /\ iattr' \in [Files -> Stat] /\ iver' \in [Files -> Nat]
      /\ iattr'[d] = hsi_nfs3_fattr2fattr(srv'[d]) /\ iver'[d] = sver'[d]
      /\ \A g \in Files \ {d} : iattr'[g] = iattr[g] /\ iver'[g] = iver[g]
  BY <1>1, <1>2, RefreshTypes DEF IInv
<1>4. TypeOK'
  BY <1>1, <1>3 DEF IInv, TypeOK
<1>5. Ordered'
  <2>1. \A g \in Files : kver[g] \in Nat /\ iver[g] \in Nat /\ sver[g] \in Nat
    BY SMTT(60), AttrAssumption DEF IInv, TypeOK
  <2> QED
    BY SMTT(60), <1>1, <1>3, <2>1 DEF IInv, Ordered
<1>6. CachedIsTrue'
  BY <1>1, <1>3 DEF IInv, CachedIsTrue
<1>7. ToldIsTrue' /\ SetattrDoneUnlessStale'
  BY <1>1 DEF IInv, ToldIsTrue, SetattrDoneUnlessStale
<1> QED
  BY <1>4, <1>5, <1>6, <1>7 DEF IInv

LEMMA WriteInv ==
    ASSUME IInv, NEW f \in Files, NEW n \in Sizes, hsx_fuse_write(f, n)
    PROVE  IInv'
<1>1. PICK now \in Time :
         LET size == IF n > srv[f].size THEN n ELSE srv[f].size
         IN Changes(f, [srv[f] EXCEPT !.size = size, !.used = size,
                                      !.mtime = now])
  BY DEF hsx_fuse_write
<1> DEFINE size == IF n > srv[f].size THEN n ELSE srv[f].size
           a == [srv[f] EXCEPT !.size = size, !.used = size, !.mtime = now]
<1>2. srv[f] \in Fattr
  BY DEF IInv, TypeOK
<1>3. size \in Sizes
  BY <1>2 DEF Fattr
<1>4. a \in Fattr
  BY <1>2, <1>3 DEF Fattr
<1>5. Changes(f, a)
  BY <1>1
<1> QED
  BY <1>4, <1>5, UnseenChange DEF hsx_fuse_write

LEMMA ServerInv ==
    ASSUME IInv, NEW f \in Files, server_change(f) PROVE IInv'
<1>1. srv[f] \in Fattr
  BY DEF IInv, TypeOK
<1>2. \E a \in Fattr : Changes(f, a)
  <2>1. PICK now \in Time :
           \/ \E n \in Sizes :
                 Changes(f, [srv[f] EXCEPT !.size = n, !.used = n,
                                           !.mtime = now])
           \/ \E m \in Modes, u \in Owners :
                 Changes(f, [srv[f] EXCEPT !.mode = m, !.owner = u])
    BY DEF server_change
  <2>2. \A n \in Sizes :
           [srv[f] EXCEPT !.size = n, !.used = n, !.mtime = now] \in Fattr
    BY <1>1 DEF Fattr
  <2>3. \A m \in Modes, u \in Owners :
           [srv[f] EXCEPT !.mode = m, !.owner = u] \in Fattr
    BY <1>1 DEF Fattr
  <2> QED
    BY <2>1, <2>2, <2>3
<1> QED
  BY <1>2, UnseenChange DEF server_change

LEMMA CreateInv ==
    ASSUME IInv, NEW d \in Files, NEW u \in Owners, hsx_fuse_create(d, u)
    PROVE  IInv'
<1>1. /\ d \notin Reg /\ iattr' = [iattr EXCEPT ![d].owner = u]
      /\ iver' = iver /\ kstat' = kstat /\ kver' = kver /\ done' = NoRequest
  BY DEF hsx_fuse_create
<1>2. /\ srv' \in [Files -> Fattr] /\ sver' \in [Files -> 0 .. MaxChanges]
      /\ \A g \in Files \ {d} : srv'[g] = srv[g] /\ sver'[g] = sver[g]
      /\ sver'[d] = sver[d] + 1 \/ (sver'[d] = sver[d] /\ srv'[d] = srv[d])
  <2>1. CASE UNCHANGED <<srv, sver>>
    BY <2>1 DEF IInv, TypeOK
  <2>2. CASE \E now \in Time : Changes(d, [srv[d] EXCEPT !.mtime = now])
    <3>1. PICK now \in Time : Changes(d, [srv[d] EXCEPT !.mtime = now])
      BY <2>2
    <3>2. [srv[d] EXCEPT !.mtime = now] \in Fattr
      BY SMTT(60) DEF IInv, TypeOK, Fattr
    <3> QED
      BY <3>1, <3>2, ChangeTypes DEF IInv
  <2> QED
    BY <2>1, <2>2 DEF hsx_fuse_create
<1>3. /\ iattr' \in [Files -> Stat]
      /\ \A g \in Files \ {d} : iattr'[g] = iattr[g]
  <2>1. iattr \in [Files -> Stat]
    BY DEF IInv, TypeOK
  <2>2. [iattr[d] EXCEPT !.owner = u] \in Stat
    BY SMTT(60), <2>1 DEF Stat
  <2> QED
    BY <1>1, <2>1, <2>2
<1>4. TypeOK'
  BY <1>1, <1>2, <1>3 DEF IInv, TypeOK
<1>5. \A g \in Files : kver[g] \in Nat /\ iver[g] \in Nat /\ sver[g] \in Nat
  BY SMTT(60), AttrAssumption DEF IInv, TypeOK
<1>6. Ordered'
  BY SMTT(60), <1>1, <1>2, <1>5 DEF IInv, Ordered
<1>7. CachedIsTrue'
  BY SMTT(60), <1>1, <1>2, <1>3 DEF IInv, CachedIsTrue
<1>8. ToldIsTrue'
  BY SMTT(60), <1>1, <1>2, <1>5 DEF IInv, Ordered, ToldIsTrue
<1>9. SetattrDoneUnlessStale'
  BY <1>1 DEF SetattrDoneUnlessStale
<1> QED
  BY <1>4, <1>6, <1>7, <1>8, <1>9 DEF IInv

-----------------------------------------------------------------------------
(* SETATTR.                                                                 *)

LEMMA SkippedInv ==
    ASSUME IInv, NEW f \in Files, NEW r \in Requests,
           hsx_fuse_setattr_skipped(f, r)
    PROVE  IInv'
<1>1. /\ srv' = srv /\ sver' = sver /\ iattr' = iattr /\ iver' = iver
      /\ kstat' = [kstat EXCEPT ![f] = iattr[f]]
      /\ kver' = [kver EXCEPT ![f] = iver[f]]
      /\ done' = <<f, r, AgeOf(f)>>
  BY DEF hsx_fuse_setattr_skipped, ReplyInode
<1>2. /\ f \in Reg /\ r.size = iattr[f].size
      /\ "MODE" \notin r.to_set /\ "UID" \notin r.to_set
  BY SkippedIsTruncate DEF hsx_fuse_setattr_skipped
<1>3. TypeOK'
  <2>1. done' \in Files \X Requests \X Age
    BY <1>1 DEF AgeOf, Age
  <2> QED
    BY <1>1, <2>1 DEF IInv, TypeOK
<1>4. \A g \in Files : kver[g] \in Nat /\ iver[g] \in Nat /\ sver[g] \in Nat
  BY SMTT(60), AttrAssumption DEF IInv, TypeOK
<1>5. Ordered'
  <2>1. ASSUME NEW g \in Files
        PROVE  kver'[g] <= iver'[g] /\ iver'[g] <= sver'[g]
    <3>1. kver'[g] = IF g = f THEN iver[f] ELSE kver[g]
      BY <1>1 DEF IInv, TypeOK
    <3> QED
      BY SMTT(60), <1>1, <1>4, <3>1 DEF IInv, Ordered
  <2> QED
    BY <2>1 DEF Ordered
<1>6. CachedIsTrue'
  BY <1>1 DEF IInv, CachedIsTrue
<1>7. ToldIsTrue'
  BY <1>1, <1>2 DEF IInv, TypeOK, CachedIsTrue, ToldIsTrue
<1>8. SetattrDoneUnlessStale'
  <2>1. done'[1] = f /\ done'[2] = r /\ done'[3] = AgeOf(f)
    BY <1>1
  <2>2. CASE iver[f] # sver[f]
    BY <1>1, <1>2, <2>1, <2>2 DEF SetattrDoneUnlessStale, AgeOf
  <2>3. CASE iver[f] = sver[f]
    <3>1. iattr[f] = hsi_nfs3_fattr2fattr(srv[f])
      BY <1>2, <2>3 DEF IInv, CachedIsTrue
    <3>2. srv[f].size = r.size
      BY SMTT(60), <1>2, <3>1 DEF hsi_nfs3_fattr2fattr
    <3> QED
      BY <1>1, <1>2, <2>1, <3>2 DEF SetattrDoneUnlessStale
  <2> QED
    BY <2>2, <2>3
<1> QED
  BY <1>3, <1>5, <1>6, <1>7, <1>8 DEF IInv

LEMMA SetattrInv ==
    ASSUME IInv, NEW f \in Files, NEW r \in Requests, hsx_fuse_setattr(f, r)
    PROVE  IInv'
<1> DEFINE valid == hsi_nfs_setattr_valid(f, r)
<1>1. PICK now \in Time :
         Changes(f, ServerSetattr(srv[f], valid, r, now))
  BY DEF hsx_fuse_setattr
<1> DEFINE a == ServerSetattr(srv[f], valid, r, now)
<1>2. /\ a \in Fattr
      /\ a.size = IF "SIZE" \in valid THEN r.size ELSE srv[f].size
      /\ "MODE" \in valid => a.mode = r.mode
      /\ "UID" \in valid => a.owner = r.owner
  <2>1. srv[f] \in Fattr
    BY DEF IInv, TypeOK
  <2> HIDE DEF valid
  <2>2. a \in Fattr
    BY <2>1, ServerSetattrType
  <2>3. /\ a.size = IF "SIZE" \in valid THEN r.size ELSE srv[f].size
        /\ a.mode = IF "MODE" \in valid THEN r.mode ELSE srv[f].mode
        /\ a.owner = IF "UID" \in valid THEN r.owner ELSE srv[f].owner
    BY DEF ServerSetattr
  <2> QED
    BY <2>2, <2>3
<1> HIDE DEF a
<1>3. Changes(f, a)
  BY <1>1 DEF a
<1>4. /\ srv' \in [Files -> Fattr] /\ sver' \in [Files -> 0 .. MaxChanges]
      /\ srv'[f] = a /\ sver'[f] = sver[f] + 1
      /\ \A g \in Files \ {f} : srv'[g] = srv[g] /\ sver'[g] = sver[g]
  BY <1>2, <1>3, ChangeTypes DEF IInv
<1>5. sver[f] <= sver'[f]
  BY SMTT(60), <1>4, AttrAssumption DEF IInv, TypeOK
<1>6. /\ nfs_refresh_inode(f) /\ ReplyInode(f)
      /\ done' = <<f, r, AgeOf(f)>> /\ KernelAsks(f, r)
  BY DEF hsx_fuse_setattr
<1>7. /\ kstat' = [kstat EXCEPT ![f] = hsi_nfs3_fattr2fattr(srv'[f])]
      /\ kver' = [kver EXCEPT ![f] = sver'[f]]
  BY <1>4, <1>6, ReplyIs DEF IInv
<1>8. SetattrDoneUnlessStale'
  <2>1. done'[1] = f /\ done'[2] = r /\ done'[3] = AgeOf(f)
    BY <1>6
  <2>2. /\ "MODE" \in r.to_set => a.mode = r.mode
        /\ "UID" \in r.to_set => a.owner = r.owner
    BY <1>2, ValidBits
  <2>3. "SIZE" \in r.to_set => a.size = r.size \/ AgeOf(f) = "stale"
    <3>1. CASE "SIZE" \in valid
      BY <1>2, <3>1
    <3>2. CASE "SIZE" \in r.to_set /\ "SIZE" \notin valid
      <4>1. f \in Reg
        BY <1>6, <3>2 DEF KernelAsks
      <4>2. r.size = iattr[f].size
        BY <3>2, <4>1, ValidBits
      <4>3. CASE iver[f] = sver[f]
        <5>1. iattr[f] = hsi_nfs3_fattr2fattr(srv[f])
          BY <4>1, <4>3 DEF IInv, CachedIsTrue
        <5> QED
          BY SMTT(60), <1>2, <3>2, <4>2, <5>1 DEF hsi_nfs3_fattr2fattr
      <4> QED
        BY <4>3 DEF AgeOf
    <3> QED
      BY <3>1, <3>2
  <2> QED
    BY <1>4, <2>1, <2>2, <2>3 DEF SetattrDoneUnlessStale
<1>9. done' \in (Files \X Requests \X Age) \cup {NoRequest}
  BY <1>6 DEF AgeOf, Age
<1> QED
  BY <1>4, <1>5, <1>6, <1>7, <1>8, <1>9, RefreshedReply

LEMMA UnseenSetattrInv ==
    ASSUME IInv, NEW f \in Files, NEW r \in Requests,
           hsx_fuse_setattr_unseen(f, r)
    PROVE  IInv'
<1> DEFINE valid == hsi_nfs_setattr_valid(f, r)
<1>1. PICK now \in Time :
         Changes(f, ServerSetattr(srv[f], valid, r, now))
  BY DEF hsx_fuse_setattr_unseen
<1>2. ServerSetattr(srv[f], valid, r, now) \in Fattr
  <2>1. srv[f] \in Fattr
    BY DEF IInv, TypeOK
  <2> HIDE DEF valid
  <2> QED
    BY <2>1, ServerSetattrType
<1> QED
  BY <1>1, <1>2, UnseenChange DEF hsx_fuse_setattr_unseen

-----------------------------------------------------------------------------
(* Every step preserves the invariant and the order of replies.             *)

LEMMA NextInv == IInv /\ [Next]_vars => IInv'
<1> SUFFICES ASSUME IInv, [Next]_vars PROVE IInv'
  OBVIOUS
<1>1. CASE UNCHANGED vars
  BY <1>1 DEF vars, IInv, TypeOK, Ordered, CachedIsTrue, ToldIsTrue,
              SetattrDoneUnlessStale
<1>2. ASSUME NEW f \in Files, HandlerStep(f) PROVE IInv'
  <2>1. CASE hsx_fuse_getattr(f)
    BY <2>1, GetattrInv
  <2>2. CASE hsx_fuse_lookup(f)
    BY <2>2, LookupInv
  <2>3. CASE hsx_fuse_link(f)
    BY <2>3, LinkInv
  <2>4. CASE hsx_fuse_readdir(f)
    BY <2>4, ReaddirInv
  <2>5. CASE \E n \in Sizes : hsx_fuse_write(f, n)
    BY <2>5, WriteInv
  <2>6. CASE \E u \in Owners : hsx_fuse_create(f, u)
    BY <2>6, CreateInv
  <2>7. CASE \E r \in Requests : hsx_fuse_setattr_skipped(f, r)
    BY <2>7, SkippedInv
  <2>8. CASE \E r \in Requests : hsx_fuse_setattr(f, r)
    BY <2>8, SetattrInv
  <2>9. CASE \E r \in Requests : hsx_fuse_setattr_unseen(f, r)
    BY <2>9, UnseenSetattrInv
  <2> QED
    BY <1>2, <2>1, <2>2, <2>3, <2>4, <2>5, <2>6, <2>7, <2>8, <2>9
       DEF HandlerStep
<1>3. CASE \E f \in Files : server_change(f)
  BY <1>3, ServerInv
<1> QED
  BY <1>1, <1>2, <1>3 DEF Next

(* A reply carries the version of the inode or of the server.               *)
LEMMA ReplyVersion ==
    ASSUME IInv, IInv', Next, NEW g \in Files
    PROVE  kver'[g] = kver[g] \/ kver'[g] = iver[g] \/ kver'[g] = sver'[g]
<1> DEFINE P == kver'[g] = kver[g] \/ kver'[g] = iver[g] \/ kver'[g] = sver'[g]
<1>1. kver \in [Files -> Nat]
  BY DEF IInv, TypeOK
<1>2. TypeOK /\ srv' \in [Files -> Fattr] /\ sver' \in [Files -> 0 .. MaxChanges]
  BY DEF IInv, TypeOK
<1>3. ASSUME NEW f \in Files, nfs_refresh_inode(f), ReplyInode(f) PROVE P
  <2>1. kver' = [kver EXCEPT ![f] = sver'[f]]
    BY <1>2, <1>3, ReplyIs
  <2> QED
    BY <1>1, <2>1
<1>4. ASSUME NEW f \in Files, HandlerStep(f) PROVE P
  <2>1. CASE hsx_fuse_getattr(f)
    BY <1>1, <2>1 DEF hsx_fuse_getattr
  <2>2. CASE hsx_fuse_lookup(f)
    BY <1>3, <2>2 DEF hsx_fuse_lookup
  <2>3. CASE hsx_fuse_link(f)
    BY <1>3, <2>3 DEF hsx_fuse_link
  <2>4. CASE hsx_fuse_readdir(f)
    BY <2>4 DEF hsx_fuse_readdir
  <2>5. CASE \E n \in Sizes : hsx_fuse_write(f, n)
    BY <2>5 DEF hsx_fuse_write
  <2>6. CASE \E u \in Owners : hsx_fuse_create(f, u)
    BY <2>6 DEF hsx_fuse_create
  <2>7. CASE \E r \in Requests : hsx_fuse_setattr_skipped(f, r)
    <3>1. kver' = [kver EXCEPT ![f] = iver[f]]
      BY <2>7 DEF hsx_fuse_setattr_skipped, ReplyInode
    <3> QED
      BY <1>1, <3>1
  <2>8. CASE \E r \in Requests : hsx_fuse_setattr(f, r)
    BY <1>3, <2>8 DEF hsx_fuse_setattr
  <2>9. CASE \E r \in Requests : hsx_fuse_setattr_unseen(f, r)
    BY <2>9 DEF hsx_fuse_setattr_unseen
  <2> QED
    BY <1>4, <2>1, <2>2, <2>3, <2>4, <2>5, <2>6, <2>7, <2>8, <2>9
       DEF HandlerStep
<1>5. CASE \E f \in Files : server_change(f)
  BY <1>5 DEF server_change
<1> QED
  BY <1>4, <1>5 DEF Next

(* No step takes the server back.                                           *)
LEMMA ServerGoesOn ==
    ASSUME IInv, Next, NEW g \in Files
    PROVE  sver'[g] >= sver[g]
<1>1. sver \in [Files -> 0 .. MaxChanges] /\ MaxChanges \in Nat
  BY AttrAssumption DEF IInv, TypeOK
<1>2. ASSUME NEW f \in Files, NEW a, Changes(f, a)
      PROVE  sver'[g] >= sver[g]
  <2>1. sver' = [sver EXCEPT ![f] = sver[f] + 1]
    BY <1>2 DEF Changes
  <2> QED
    BY SMTT(60), <1>1, <2>1
<1>3. CASE UNCHANGED sver
  BY SMTT(60), <1>1, <1>3
<1>4. ASSUME NEW f \in Files, HandlerStep(f)
      PROVE  sver'[g] >= sver[g]
  <2>1. CASE hsx_fuse_getattr(f)
    BY <1>3, <2>1 DEF hsx_fuse_getattr
  <2>2. CASE hsx_fuse_lookup(f)
    BY <1>3, <2>2 DEF hsx_fuse_lookup
  <2>3. CASE hsx_fuse_link(f)
    BY <1>2, <2>3 DEF hsx_fuse_link
  <2>4. CASE hsx_fuse_readdir(f)
    BY <1>3, <2>4 DEF hsx_fuse_readdir
  <2>5. CASE \E n \in Sizes : hsx_fuse_write(f, n)
    BY <1>2, <2>5 DEF hsx_fuse_write
  <2>6. CASE \E u \in Owners : hsx_fuse_create(f, u)
    BY <1>2, <1>3, <2>6 DEF hsx_fuse_create
  <2>7. CASE \E r \in Requests : hsx_fuse_setattr_skipped(f, r)
    BY <1>3, <2>7 DEF hsx_fuse_setattr_skipped
  <2>8. CASE \E r \in Requests : hsx_fuse_setattr(f, r)
    BY <1>2, <2>8 DEF hsx_fuse_setattr
  <2>9. CASE \E r \in Requests : hsx_fuse_setattr_unseen(f, r)
    BY <1>2, <2>9 DEF hsx_fuse_setattr_unseen
  <2> QED
    BY <1>4, <2>1, <2>2, <2>3, <2>4, <2>5, <2>6, <2>7, <2>8, <2>9
       DEF HandlerStep
<1>5. ASSUME NEW f \in Files, server_change(f)
      PROVE  sver'[g] >= sver[g]
  BY <1>2, <1>5 DEF server_change
<1> QED
  BY <1>4, <1>5 DEF Next

LEMMA NeverBackStep ==
    ASSUME IInv, IInv', [Next]_vars
    PROVE  [\A f \in Files : kver'[f] >= kver[f]]_vars
<1>1. CASE UNCHANGED vars
  BY <1>1
<1>2. CASE Next
  <2>1. ASSUME NEW g \in Files PROVE kver'[g] >= kver[g]
    <3>1. kver[g] \in Nat /\ iver[g] \in Nat
          /\ sver[g] \in Nat /\ sver'[g] \in Nat
      BY SMTT(60), AttrAssumption DEF IInv, TypeOK
    <3>2. kver[g] <= iver[g] /\ iver[g] <= sver[g]
      BY DEF IInv, Ordered
    <3>3. sver'[g] >= sver[g]
      BY <1>2, ServerGoesOn
    <3>4. kver'[g] = kver[g] \/ kver'[g] = iver[g] \/ kver'[g] = sver'[g]
      BY <1>2, ReplyVersion
    <3> QED
      BY SMTT(60), <3>1, <3>2, <3>3, <3>4
  <2> QED
    BY <2>1
<1> QED
  BY <1>1, <1>2

-----------------------------------------------------------------------------
(* Theorems.                                                                *)

(* The inductive invariant of the inode's attributes and the kernel's.      *)
THEOREM Invariance == Spec => []IInv
<1>1. Init => IInv
  BY InitInv
<1>2. IInv /\ [Next]_vars => IInv'
  BY NextInv
<1> QED
  BY <1>1, <1>2, PTL DEF Spec

(* Attributes stay attributes through both conversions.                     *)
THEOREM TypeCorrect == Spec => []TypeOK
<1>1. IInv => TypeOK
  BY DEF IInv
<1> QED
  BY <1>1, Invariance, PTL

(* What the kernel was told of an unchanged file is what the server has.    *)
THEOREM KernelIsToldTheTruth == Spec => []ToldIsTrue
<1>1. IInv => ToldIsTrue
  BY DEF IInv
<1> QED
  BY <1>1, Invariance, PTL

(* hsi_nfs_setattr() loses a size only over an inode that is out of date.   *)
THEOREM SetattrTakesEffect == Spec => []SetattrDoneUnlessStale
<1>1. IInv => SetattrDoneUnlessStale
  BY DEF IInv
<1> QED
  BY <1>1, Invariance, PTL

(* Replies made from the inode never show the kernel older attributes.      *)
THEOREM KernelStaysRecent == Spec => KernelNeverGoesBack
<1>1. IInv /\ IInv' /\ [Next]_vars => [\A f \in Files : kver'[f] >= kver[f]]_vars
  BY NeverBackStep
<1> QED
  BY <1>1, Invariance, PTL DEF Spec, KernelNeverGoesBack
=============================================================================
