------------------------- MODULE FuseHandlerProofs --------------------------
(***************************************************************************)
(* The inductive invariant of FuseRefs, and the proof that mounting, the    *)
(* handlers that answer with one entry and READDIRPLUS preserve it.         *)
(***************************************************************************)
EXTENDS FuseRefs, TLAPS

USE ZenonT(60)

-----------------------------------------------------------------------------
(* The inductive invariant.                                                 *)

(* The two tables hold the same, allocated, inodes, one per file; i_count   *)
(* never rises above the 0 that nfs_alloc_inode() leaves in it.             *)
CacheInv ==
    /\ fh_table = id_table
    /\ id_table \subseteq alloc
    /\ \A i \in id_table : fh[i] \in Objects
    /\ \A i, j \in id_table : fh[i] = fh[j] => i = j
    /\ \A i \in Ino : i_count[i] <= 0

(* The server has made every file the daemon has met.                       *)
BornInv ==
    /\ \A i \in id_table : srv[fh[i]] # "unborn"
    /\ \A k \in DOMAIN rd_todo : srv[rd_todo[k].obj] # "unborn"

(* What the kernel was told, and what READDIRPLUS has in hand, is cached.   *)
NamedInv == \A e \in named : e[2] \in id_table /\ fh[e[2]] = e[1]

CtxInv ==
    \A k \in DOMAIN rd_ctx :
       rd_ctx[k].ino # BadIno =>
          /\ rd_ctx[k].ino \in id_table
          /\ fh[rd_ctx[k].ino] = rd_ctx[k].obj

(* Nothing is counted for an inode that is not cached.                      *)
CountInv ==
    \A i \in Ino \ id_table :
       /\ private[i] = 0 /\ nlookup[i] = 0 /\ replies[i] = 0
       /\ forgets[i] = 0 /\ packed[i] = 0 /\ unpaid[i] = 0 /\ dots[i] = 0

(* link() is for files, and "." and ".." are directories.                   *)
KindInv ==
    \A i \in id_table : /\ unpaid[i] > 0 => fh[i] \notin Dirs
                        /\ dots[i] > 0 => fh[i] \in Dirs

LifeInv ==
    /\ daemon = "mounting" =>
          curr_id = 0 /\ id_table = {} /\ srv[RootObj] # "unborn"
    /\ daemon = "mounted" =>
          \A i \in Ino : /\ private[i] = 0 /\ Outstanding(i) = 0
                         /\ unpaid[i] = 0 /\ dots[i] = 0
    /\ daemon \in {"mounted", "running"} =>
          RootIno \in id_table /\ fh[RootIno] = RootObj
    /\ daemon = "running" => nlookup[RootIno] >= 1
    /\ daemon \notin {"aborted", "crashed"} => failed_at = "none"

IInv ==
    /\ TypeOK
    /\ CacheInv
    /\ BornInv
    /\ NamedInv
    /\ CtxInv
    /\ CountInv
    /\ KindInv
    /\ LifeInv
    /\ RefsConserved
    /\ AssertsThatHold

-----------------------------------------------------------------------------
(* The operations of the cache.                                             *)

(* Numbers: Ino is not empty and holds the root's number.                   *)
LEMMA RootInIno == RootIno \in Ino /\ BadIno \notin Ino
  BY SMTT(60), CacheAssumption DEF RootIno, Ino, BadIno

(* __fh_ifind() finds the inodes that carry the handle.                     *)
LEMMA FindByHandle ==
  ASSUME NEW o \in Objects
  PROVE  fh_ifind(o) = {i \in fh_table : fh[i] = o}
  BY DEF fh_ifind, nfs_find_actor

(* hsi_nfs_fhget() returns a cached inode of file o, adding it if needed,   *)
(* and keeps the tables consistent.                                         *)
LEMMA FhgetStep ==
  ASSUME TypeOK, CacheInv, CountInv,
         NEW o \in Objects, NEW i \in Ino, hsi_nfs_fhget(o, i)
  PROVE  /\ CacheTypeOK'
         /\ CacheInv'
         /\ id_table' = id_table \cup {i}
         /\ fh' = [fh EXCEPT ![i] = o]
         /\ RefOf(o, i) = private[i]
         /\ i \in id_table => fh[i] = o
<1>1. fh_ifind(o) = {j \in fh_table : fh[j] = o}
  BY FindByHandle
<1>2. CASE i \in fh_ifind(o) /\ UNCHANGED cacheVars
  <2>1. i \in id_table /\ fh[i] = o
    BY <1>1, <1>2 DEF CacheInv
  <2>2. fh' = [fh EXCEPT ![i] = o]
    BY <1>2, <2>1 DEF cacheVars, TypeOK, CacheTypeOK
  <2>3. id_table' = id_table \cup {i}
    BY <1>2, <2>1 DEF cacheVars
  <2>4. CacheTypeOK' /\ CacheInv'
    BY <1>2 DEF cacheVars, TypeOK, CacheTypeOK, CacheInv
  <2>5. RefOf(o, i) = private[i]
    BY <1>2 DEF RefOf
  <2> QED
    BY <2>1, <2>2, <2>3, <2>4, <2>5
<1>3. CASE fh_ifind(o) = {} /\ get_new_inode(o, i)
  <2>1. i \notin id_table
    BY <1>3 DEF get_new_inode, NextId
  <2>2. \A j \in id_table : fh[j] # o
    BY <1>1, <1>3 DEF CacheInv
  <2>3. CacheTypeOK'
    BY SMTT(60), <1>3 DEF get_new_inode, TypeOK, CacheTypeOK, Ino
  <2>4. CacheInv'
    <3>1. CacheTypeOK
      BY DEF TypeOK
    <3>2. \A j \in id_table : fh'[j] = fh[j] /\ j # i
      BY <1>3, <2>1, <3>1 DEF get_new_inode, CacheTypeOK
    <3>3. fh'[i] = o /\ id_table' = id_table \cup {i}
      BY <1>3, <3>1 DEF get_new_inode, CacheTypeOK
    <3>4. fh_table' = id_table' /\ id_table' \subseteq alloc'
      BY <1>3 DEF get_new_inode, CacheInv
    <3>5. \A j \in Ino : i_count'[j] <= 0
      BY SMTT(60), <1>3, <3>1 DEF get_new_inode, CacheInv, CacheTypeOK
    <3>6. \A j \in id_table' : fh'[j] \in Objects
      BY <3>2, <3>3 DEF CacheInv
    <3>7. \A j, k \in id_table' : fh'[j] = fh'[k] => j = k
      BY SMTT(60), <2>2, <3>2, <3>3 DEF CacheInv
    <3> QED
      BY <3>4, <3>5, <3>6, <3>7 DEF CacheInv
  <2>5. RefOf(o, i) = private[i]
    BY <1>3, <2>1 DEF RefOf, CountInv
  <2> QED
    BY <1>3, <2>1, <2>3, <2>4, <2>5 DEF get_new_inode
<1> QED
  BY <1>2, <1>3 DEF hsi_nfs_fhget

(* hsfs_iput() never frees: i_count goes from 0 or less to less.            *)
LEMMA IputStep ==
  ASSUME TypeOK, CacheInv, NEW i \in Ino, hsfs_iput(i)
  PROVE  /\ CacheTypeOK'
         /\ CacheInv'
         /\ UNCHANGED <<curr_id, id_table, fh, alloc>>
<1>1. i_count[i] \in Int /\ i_count[i] <= 0
  BY DEF TypeOK, CacheTypeOK, CacheInv
<1>2. UNCHANGED <<curr_id, id_table, fh_table, fh, alloc>>
  BY SMTT(60), <1>1 DEF hsfs_iput
<1>3. CacheTypeOK
  BY DEF TypeOK
<1>4. i_count' = [i_count EXCEPT ![i] = i_count[i] - 1]
  BY DEF hsfs_iput
<1>5. i_count' \in [Ino -> Int]
  BY SMTT(60), <1>1, <1>3, <1>4 DEF CacheTypeOK
<1>6. \A j \in Ino : i_count'[j] <= 0
  BY SMTT(60), <1>1, <1>3, <1>4 DEF CacheTypeOK, CacheInv
<1> QED
  BY <1>2, <1>3, <1>5, <1>6 DEF CacheTypeOK, CacheInv

(* What is known of the cached inodes is still true of them, and of the one *)
(* that hsi_nfs_fhget() returns.                                            *)
LEMMA FhgetKeeps ==
  ASSUME IInv, NEW o \in Objects, NEW i \in Ino, hsi_nfs_fhget(o, i),
         \A x \in Objects : srv[x] # "unborn" => srv'[x] # "unborn",
         srv'[o] # "unborn"
  PROVE  /\ \A j \in id_table' : srv'[fh'[j]] # "unborn"
         /\ \A e \in named : e[2] \in id_table' /\ fh'[e[2]] = e[1]
         /\ \A k \in DOMAIN rd_ctx :
               rd_ctx[k].ino # BadIno =>
                  /\ rd_ctx[k].ino \in id_table'
                  /\ fh'[rd_ctx[k].ino] = rd_ctx[k].obj
         /\ \A j \in id_table' : /\ unpaid[j] > 0 => fh'[j] \notin Dirs
                                 /\ dots[j] > 0 => fh'[j] \in Dirs
         /\ i \in id_table' /\ fh'[i] = o
         /\ id_table \subseteq id_table'
         /\ \A j \in id_table : fh'[j] = fh[j]
<1>1. /\ id_table' = id_table \cup {i}
      /\ fh' = [fh EXCEPT ![i] = o]
      /\ i \in id_table => fh[i] = o
  BY FhgetStep DEF IInv
<1>2. fh \in [Ino -> Objects \cup {NoObj}] /\ id_table \subseteq Ino
  BY DEF IInv, TypeOK, CacheTypeOK
<1>3. fh'[i] = o /\ \A j \in id_table : fh'[j] = fh[j]
  BY <1>1, <1>2
<1>4. \A j \in id_table' : srv'[fh'[j]] # "unborn"
  BY <1>1, <1>3 DEF IInv, BornInv, CacheInv
<1>5. \A e \in named : e[2] \in id_table' /\ fh'[e[2]] = e[1]
  BY <1>1, <1>3 DEF IInv, NamedInv
<1>6. \A k \in DOMAIN rd_ctx :
         rd_ctx[k].ino # BadIno =>
            /\ rd_ctx[k].ino \in id_table'
            /\ fh'[rd_ctx[k].ino] = rd_ctx[k].obj
  BY <1>1, <1>3 DEF IInv, CtxInv
<1>7. \A j \in id_table' : /\ unpaid[j] > 0 => fh'[j] \notin Dirs
                           /\ dots[j] > 0 => fh'[j] \in Dirs
  <2>1. i \notin id_table => unpaid[i] = 0 /\ dots[i] = 0
    BY DEF IInv, CountInv
  <2> QED
    BY SMTT(60), <1>1, <1>3, <2>1 DEF IInv, KindInv
<1> QED
  BY <1>1, <1>3, <1>4, <1>5, <1>6, <1>7

-----------------------------------------------------------------------------
(* The invariant is true initially and preserved by every action.           *)

LEMMA InitIInv == Init => IInv
<1> SUFFICES ASSUME Init PROVE IInv
  OBVIOUS
<1>1. RootIno \in Ino
  BY RootInIno
<1>2. Zero \in [Ino -> Nat] /\ \A i \in Ino : Zero[i] = 0
  BY DEF Zero
<1>3. CacheTypeOK
  BY SMTT(60), CacheAssumption DEF Init, hsfs_init_icache, CacheTypeOK
<1>4. rd_todo \in Seq(Entry) /\ rd_ctx \in Seq(Ctx)
  BY SMTT(60) DEF Init
<1>5. srv \in [Objects -> {"unborn", "live", "removed"}]
  BY DEF Init
<1>6. TypeOK
  BY <1>1, <1>2, <1>3, <1>4, <1>5
     DEF Init, TypeOK, CountTypeOK, RdTypeOK, AssertSite
<1>7. CacheInv
  BY SMTT(60) DEF Init, hsfs_init_icache, CacheInv
<1>8. BornInv /\ NamedInv /\ CtxInv
  BY SMTT(60) DEF Init, hsfs_init_icache, BornInv, NamedInv, CtxInv
<1>9. CountInv /\ KindInv
  BY <1>2 DEF Init, hsfs_init_icache, CountInv, KindInv
<1>10. LifeInv /\ RefsConserved /\ AssertsThatHold
  BY DEF Init, hsfs_init_icache, LifeInv, RefsConserved, AssertsThatHold
<1> QED
  BY <1>6, <1>7, <1>8, <1>9, <1>10 DEF IInv

(* What the server may do during a step: files are made and removed, none   *)
(* becomes unborn.                                                          *)
ServerStep ==
    /\ srv' \in [Objects -> {"unborn", "live", "removed"}]
    /\ \A x \in Objects : srv[x] # "unborn" => srv'[x] # "unborn"

LEMMA ServerMakesStep ==
  ASSUME IInv, NEW o \in Objects, ServerMakes(o)
  PROVE  ServerStep /\ srv'[o] = "live" /\ fh_ifind(o) = {}
<1>1. ServerStep /\ srv'[o] = "live"
  BY DEF IInv, TypeOK, ServerMakes, ServerStep
<1>2. \A i \in fh_table : fh[i] # o
  BY DEF IInv, CacheInv, BornInv, ServerMakes
<1> QED
  BY <1>1, <1>2, FindByHandle

LEMMA TodoBorn ==
  ASSUME IInv, ServerStep
  PROVE  \A k \in DOMAIN rd_todo : srv'[rd_todo[k].obj] # "unborn"
<1>1. rd_todo \in Seq(Entry)
  BY DEF IInv, TypeOK, RdTypeOK
<1>2. \A k \in DOMAIN rd_todo : rd_todo[k] \in Entry
  BY SMTT(60), <1>1
<1>3. \A e \in Entry : e.obj \in Objects
  BY DEF Entry
<1> QED
  BY <1>2, <1>3 DEF IInv, BornInv, ServerStep

(* No assertion has failed yet.                                             *)
LEMMA NothingFailed ==
  ASSUME daemon' # "aborted", failed_at' = "none"
  PROVE  AssertsThatHold'
  BY DEF AssertsThatHold

(* A handler that gets the inode of a file, counts one reference and        *)
(* replies its entry.                                                       *)
LEMMA GetAndReply ==
  ASSUME IInv, NEW o \in Objects, NEW i \in Ino, daemon = "running",
         hsi_nfs_fhget(o, i), ServerStep, srv'[o] # "unborn",
         private' = [private EXCEPT ![i] = RefOf(o, i) + 1],
         ReplyEntry(o, i),
         UNCHANGED <<lifeVars, rdVars, nlookup, forgets, unpaid, dots>>
  PROVE  IInv'
<1>1. /\ CacheTypeOK' /\ CacheInv'
      /\ id_table' = id_table \cup {i}
      /\ private' = [private EXCEPT ![i] = private[i] + 1]
  BY FhgetStep DEF IInv
<1>2. UNCHANGED <<daemon, failed_at, rd_phase, rd_dir, rd_todo, rd_ctx,
                  packed, nlookup, forgets, unpaid, dots>>
  BY DEF lifeVars, rdVars
<1>3. /\ replies' = [replies EXCEPT ![i] = replies[i] + 1]
      /\ named' = named \cup {<<o, i>>}
  BY DEF ReplyEntry
<1>4. /\ \A j \in id_table' : srv'[fh'[j]] # "unborn"
      /\ \A e \in named : e[2] \in id_table' /\ fh'[e[2]] = e[1]
      /\ CtxInv' /\ KindInv'
      /\ i \in id_table' /\ fh'[i] = o
      /\ id_table \subseteq id_table'
      /\ \A j \in id_table : fh'[j] = fh[j]
  BY <1>2, FhgetKeeps DEF CtxInv, KindInv, ServerStep
<1>5. TypeOK'
  <2>1. CountTypeOK'
    BY SMTT(60), <1>1, <1>2, <1>3 DEF IInv, TypeOK, CountTypeOK
  <2> QED
    BY SMTT(60), <1>1, <1>2, <1>3, <2>1 DEF IInv, TypeOK, RdTypeOK, ServerStep
<1>6. BornInv' /\ NamedInv'
  BY SMTT(60), <1>2, <1>3, <1>4, TodoBorn DEF BornInv, NamedInv
<1>7. CountInv'
  BY SMTT(60), <1>1, <1>2, <1>3 DEF IInv, CountInv
<1>8. LifeInv'
  BY <1>2, <1>4 DEF IInv, LifeInv
<1>9. RefsConserved'
  <2>1. CountTypeOK
    BY DEF IInv, TypeOK
  <2>2. ASSUME NEW j \in Ino
        PROVE  private'[j] + unpaid'[j] = Outstanding(j)' + dots'[j]
    <3>1. private[j] + unpaid[j] = Outstanding(j) + dots[j]
      BY DEF IInv, RefsConserved
    <3> QED
      BY SMTT(60), <1>1, <1>2, <1>3, <2>1, <3>1 DEF CountTypeOK, Outstanding
  <2> QED
    BY <2>2 DEF RefsConserved
<1>10. AssertsThatHold'
  BY <1>2, NothingFailed DEF IInv, LifeInv
<1> QED
  BY <1>1, <1>4, <1>5, <1>6, <1>7, <1>8, <1>9, <1>10 DEF IInv

(* One that gets the inode and then dies, or answers an error: no count of  *)
(* the kernel or of the history changes.                                    *)
LEMMA GetOnly ==
  ASSUME IInv, NEW o \in Objects, NEW i \in Ino, daemon = "running",
         hsi_nfs_fhget(o, i), ServerStep, srv'[o] # "unborn",
         \/ private' = private /\ UNCHANGED lifeVars
         \/ /\ private' = [private EXCEPT ![i] = 1] /\ Abort("create")
            /\ RefOf(o, i) # 0 /\ o \notin Dirs,
         UNCHANGED <<rdVars, kernelVars, ghostVars>>
  PROVE  IInv'
<1>1. /\ CacheTypeOK' /\ CacheInv'
      /\ id_table' = id_table \cup {i}
  BY FhgetStep DEF IInv
<1>2. UNCHANGED <<rd_phase, rd_dir, rd_todo, rd_ctx, packed, nlookup, replies,
                  forgets, named, unpaid, dots>>
  BY DEF rdVars, kernelVars, ghostVars
<1>3. /\ \A j \in id_table' : srv'[fh'[j]] # "unborn"
      /\ NamedInv' /\ CtxInv' /\ KindInv'
      /\ i \in id_table' /\ fh'[i] = o
      /\ id_table \subseteq id_table'
      /\ \A j \in id_table : fh'[j] = fh[j]
  BY <1>2, FhgetKeeps DEF NamedInv, CtxInv, KindInv, ServerStep
<1>4. TypeOK'
  <2>1. private' \in [Ino -> Nat]
    BY SMTT(60) DEF IInv, TypeOK, CountTypeOK
  <2>2. CountTypeOK'
    BY <1>2, <2>1 DEF IInv, TypeOK, CountTypeOK
  <2> QED
    BY <1>1, <1>2, <2>2
       DEF IInv, TypeOK, RdTypeOK, ServerStep, lifeVars, Abort, AssertSite
<1>5. BornInv'
  BY <1>2, <1>3, TodoBorn DEF BornInv
<1>6. CountInv'
  <2>1. \A j \in Ino \ id_table' : private'[j] = private[j]
    BY <1>1 DEF IInv, TypeOK, CountTypeOK
  <2> QED
    BY <1>1, <1>2, <2>1 DEF IInv, CountInv
<1>7. LifeInv'
  BY <1>2, <1>3 DEF IInv, LifeInv, lifeVars, Abort
<1>8. RefsConserved'
  BY <1>2 DEF IInv, RefsConserved, Outstanding, lifeVars, Abort
<1>9. AssertsThatHold'
  <2>1. CASE UNCHANGED lifeVars
    BY <2>1, NothingFailed DEF IInv, LifeInv, lifeVars
  <2>2. CASE Abort("create") /\ RefOf(o, i) # 0 /\ o \notin Dirs
    <3>1. private[i] # 0
      BY <2>2, FhgetStep DEF IInv
    <3>2. i \in id_table /\ fh[i] = o
      BY <3>1, FhgetStep DEF IInv, CountInv
    <3>3. ~ (dots[i] > 0)
      BY <2>2, <3>2 DEF IInv, KindInv
    <3>4. private[i] + unpaid[i] = Outstanding(i) + dots[i]
      BY DEF IInv, RefsConserved
    <3>5. Outstanding(i) > unpaid[i]
      BY SMTT(60), <3>1, <3>3, <3>4 DEF IInv, TypeOK, CountTypeOK, Outstanding
    <3>6. Outstanding(i)' = Outstanding(i) /\ unpaid'[i] = unpaid[i]
      BY <1>2 DEF Outstanding
    <3>7. daemon' = "aborted" /\ failed_at' = "create"
      BY <2>2 DEF Abort
    <3> QED
      BY <1>3, <2>2, <3>5, <3>6, <3>7 DEF AssertsThatHold
  <2> QED
    BY <2>1, <2>2
<1> QED
  BY <1>1, <1>3, <1>4, <1>5, <1>6, <1>7, <1>8, <1>9 DEF IInv

(* hsx_fuse_lookup().                                                       *)
LEMMA LookupKeeps ==
  ASSUME IInv, NEW p \in Ino, NEW o \in Objects, hsx_fuse_lookup(p, o)
  PROVE  IInv'
<1>1. PICK i \in Ino :
         /\ hsi_nfs_fhget(o, i)
         /\ private' = [private EXCEPT ![i] = RefOf(o, i) + 1]
         /\ ReplyEntry(o, i)
  BY DEF hsx_fuse_lookup
<1>2. daemon = "running" /\ srv[o] = "live" /\ UNCHANGED srv
  BY DEF hsx_fuse_lookup, Idle, serverVars
<1>3. ServerStep /\ srv'[o] # "unborn"
  BY <1>2 DEF IInv, TypeOK, ServerStep
<1>4. UNCHANGED <<lifeVars, rdVars, nlookup, forgets, unpaid, dots>>
  BY DEF hsx_fuse_lookup
<1> QED
  BY <1>1, <1>2, <1>3, <1>4, GetAndReply

(* The end of the handlers that make a file, when the inode is a new one.   *)
LEMMA ReplyNewKeeps ==
  ASSUME IInv, NEW o \in Objects, NEW i \in Ino, daemon = "running",
         hsi_nfs_fhget(o, i), ServerStep, srv'[o] # "unborn",
         NEW site, ReplyNew(site, o, i),
         RefOf(o, i) = 0 \/ (site = "create" /\ o \notin Dirs),
         UNCHANGED <<rdVars, nlookup, forgets, unpaid, dots>>
  PROVE  IInv'
<1>1. CASE RefOf(o, i) = 0
  <2>1. private' = [private EXCEPT ![i] = RefOf(o, i) + 1]
    BY SMTT(60), <1>1 DEF ReplyNew
  <2>2. ReplyEntry(o, i) /\ UNCHANGED lifeVars
    BY <1>1 DEF ReplyNew
  <2> QED
    BY <2>1, <2>2, GetAndReply
<1>2. CASE RefOf(o, i) # 0
  <2>1. /\ private' = [private EXCEPT ![i] = 1] /\ Abort("create")
        /\ RefOf(o, i) # 0 /\ o \notin Dirs
    BY <1>2 DEF ReplyNew
  <2>2. UNCHANGED <<rdVars, kernelVars, ghostVars>>
    BY <1>2 DEF ReplyNew, kernelVars, ghostVars
  <2> QED
    BY <2>1, <2>2, GetOnly
<1> QED
  BY <1>1, <1>2

(* hsx_fuse_mkdir(), hsx_fuse_mknod() and hsx_fuse_symlink(): the server    *)
(* has just made the file, so no inode has its handle.                      *)
LEMMA NewEntryKeeps ==
  ASSUME IInv, NEW p \in Ino, NEW o \in Objects, NEW site,
         NewEntry(site, p, o)
  PROVE  IInv'
<1>1. daemon = "running" /\ ServerMakes(o)
  BY DEF NewEntry, Idle
<1>2. ServerStep /\ srv'[o] # "unborn" /\ fh_ifind(o) = {}
  BY <1>1, ServerMakesStep
<1>3. PICK i \in Ino : hsi_nfs_fhget(o, i) /\ ReplyNew(site, o, i)
  BY DEF NewEntry
<1>4. RefOf(o, i) = 0
  BY <1>2 DEF RefOf
<1>5. UNCHANGED <<rdVars, nlookup, forgets, unpaid, dots>>
  BY DEF NewEntry
<1> QED
  BY <1>1, <1>2, <1>3, <1>4, <1>5, ReplyNewKeeps

LEMMA ServerCreatesStep ==
  ASSUME IInv, NEW o \in Objects, ServerCreates(o)
  PROVE  ServerStep /\ srv'[o] # "unborn"
<1>1. CASE ServerMakes(o)
  BY <1>1, ServerMakesStep
<1>2. CASE srv[o] = "live" /\ UNCHANGED srv
  BY <1>2 DEF IInv, TypeOK, ServerStep
<1> QED
  BY <1>1, <1>2 DEF ServerCreates

(* hsx_fuse_create(), whose assertion may fail.                             *)
LEMMA CreateKeeps ==
  ASSUME IInv, NEW p \in Ino, NEW o \in Objects, hsx_fuse_create(p, o)
  PROVE  IInv'
<1>1. /\ daemon = "running" /\ ServerStep /\ srv'[o] # "unborn"
      /\ o \notin Dirs
  BY ServerCreatesStep DEF hsx_fuse_create, Idle, ServerCreates
<1>2. PICK i \in Ino : hsi_nfs_fhget(o, i) /\ ReplyNew("create", o, i)
  BY DEF hsx_fuse_create
<1>3. UNCHANGED <<rdVars, nlookup, forgets, unpaid, dots>>
  BY DEF hsx_fuse_create
<1> QED
  BY <1>1, <1>2, <1>3, ReplyNewKeeps

(* The same, answered with the error of the SETATTR.                        *)
LEMMA CreateFailsKeeps ==
  ASSUME IInv, NEW p \in Ino, NEW o \in Objects,
         hsx_fuse_create_setattr_fails(p, o)
  PROVE  IInv'
<1> USE DEF hsx_fuse_create_setattr_fails
<1>1. daemon = "running" /\ ServerStep /\ srv'[o] # "unborn"
  BY ServerCreatesStep DEF Idle
<1>2. PICK i \in Ino :
         /\ hsi_nfs_fhget(o, i)
         /\ private' = [private EXCEPT ![i] = RefOf(o, i)]
  OBVIOUS
<1>3. private' = private
  <2>1. RefOf(o, i) = private[i]
    BY <1>2, FhgetStep DEF IInv
  <2> QED
    BY <1>2, <2>1 DEF IInv, TypeOK, CountTypeOK
<1>4. UNCHANGED <<lifeVars, rdVars, kernelVars, ghostVars>>
  OBVIOUS
<1> QED
  BY <1>1, <1>2, <1>3, <1>4, GetOnly

(* Steps that leave the tables alone.                                       *)
LEMMA CacheSame ==
  ASSUME IInv, UNCHANGED cacheVars
  PROVE  /\ CacheTypeOK' /\ CacheInv'
         /\ UNCHANGED <<curr_id, id_table, fh, alloc>>
  BY DEF IInv, TypeOK, CacheTypeOK, CacheInv, cacheVars

LEMMA TablesSame ==
  ASSUME IInv, UNCHANGED <<id_table, fh>>, ServerStep
  PROVE  /\ rd_todo' = rd_todo => BornInv'
         /\ rd_todo' = << >> => BornInv'
         /\ rd_todo' = Tail(rd_todo) /\ rd_todo # << >> => BornInv'
         /\ named' = named => NamedInv'
         /\ rd_ctx' = rd_ctx => CtxInv'
         /\ rd_ctx' = << >> => CtxInv'
         /\ rd_ctx' = Tail(rd_ctx) /\ rd_ctx # << >> => CtxInv'
         /\ unpaid' = unpaid /\ dots' = dots => KindInv'
<1>1. \A i \in id_table' : srv'[fh'[i]] # "unborn"
  BY DEF IInv, CacheInv, BornInv, ServerStep
<1>2. rd_todo' = rd_todo => BornInv'
  BY <1>1, TodoBorn DEF BornInv
<1>3. rd_todo' = << >> => BornInv'
  BY SMTT(60), <1>1 DEF BornInv
<1>4. ASSUME rd_todo' = Tail(rd_todo), rd_todo # << >>
      PROVE  BornInv'
  <2>1. rd_todo \in Seq(Entry)
    BY DEF IInv, TypeOK, RdTypeOK
  <2>2. \A k \in DOMAIN rd_todo' :
           k + 1 \in DOMAIN rd_todo /\ rd_todo'[k] = rd_todo[k + 1]
    BY SMTT(60), <1>4, <2>1
  <2> QED
    BY SMTT(60), <1>1, <2>2, TodoBorn DEF BornInv
<1>5. named' = named => NamedInv'
  BY DEF IInv, NamedInv
<1>6. rd_ctx' = rd_ctx => CtxInv'
  BY DEF IInv, CtxInv
<1>7. rd_ctx' = << >> => CtxInv'
  BY SMTT(60) DEF CtxInv
<1>8. ASSUME rd_ctx' = Tail(rd_ctx), rd_ctx # << >>
      PROVE  CtxInv'
  <2>1. rd_ctx \in Seq(Ctx)
    BY DEF IInv, TypeOK, RdTypeOK
  <2>2. \A k \in DOMAIN rd_ctx' :
           k + 1 \in DOMAIN rd_ctx /\ rd_ctx'[k] = rd_ctx[k + 1]
    BY SMTT(60), <1>8, <2>1
  <2> QED
    BY <2>2 DEF IInv, CtxInv
<1>9. unpaid' = unpaid /\ dots' = dots => KindInv'
  BY DEF IInv, KindInv
<1> QED
  BY <1>2, <1>3, <1>4, <1>5, <1>6, <1>7, <1>8, <1>9

LEMMA ServerSame ==
  ASSUME IInv, UNCHANGED srv
  PROVE  ServerStep
  BY DEF IInv, TypeOK, ServerStep

(* The steps on which the daemon uses an ERR_PTR() as an inode.             *)
LEMMA CrashKeeps ==
  ASSUME IInv, ServerStep, NEW sites \in SUBSET (AssertSite \ {"ref_dec"}), UseErrPtr(sites),
         UNCHANGED <<cacheVars, private, rdVars, kernelVars, ghostVars>>
  PROVE  IInv'
<1>1. UNCHANGED <<private, rd_phase, rd_dir, rd_todo, rd_ctx, packed, nlookup,
                  replies, forgets, named, unpaid, dots>>
  BY DEF rdVars, kernelVars, ghostVars
<1>2. /\ CacheTypeOK' /\ CacheInv'
      /\ UNCHANGED <<curr_id, id_table, fh, alloc>>
  BY CacheSame
<1>3. BornInv' /\ NamedInv' /\ CtxInv' /\ KindInv'
  BY <1>1, <1>2, TablesSame
<1>3a. daemon' = "crashed" /\ failed_at' \in AssertSite \ {"ref_dec"}
  BY DEF UseErrPtr
<1>4. TypeOK'
  BY <1>1, <1>2, <1>3a
     DEF IInv, TypeOK, CountTypeOK, RdTypeOK, ServerStep
<1>5. CountInv'
  BY <1>1, <1>2 DEF IInv, CountInv
<1>6. LifeInv' /\ RefsConserved' /\ AssertsThatHold'
  BY <1>3a DEF LifeInv, RefsConserved, AssertsThatHold
<1> QED
  BY <1>2, <1>3, <1>4, <1>5, <1>6 DEF IInv

(* hsi_fill_super(): the first number given out is the root's.              *)
LEMMA RootKeeps ==
  ASSUME IInv, hsi_fill_super, daemon' # "crashed"
  PROVE  IInv'
<1> USE DEF hsi_fill_super
<1>1. PICK i \in Ino :
         /\ hsi_nfs_fhget(RootObj, i)
         /\ IF i = RootIno
            THEN daemon' = "mounted" /\ UNCHANGED failed_at
            ELSE Abort("fill_super")
  BY DEF UseErrPtr
<1>2. UNCHANGED <<srv, private, rd_phase, rd_dir, rd_todo, rd_ctx, packed,
                  nlookup, replies, forgets, named, unpaid, dots>>
  BY DEF serverVars, rdVars, kernelVars, ghostVars
<1>3. daemon = "mounting" /\ curr_id = 0 /\ id_table = {}
  BY DEF IInv, LifeInv
<1>4. RootObj \in Objects
  BY RefsAssumption
<1>5. /\ CacheTypeOK' /\ CacheInv'
      /\ id_table' = {i}
      /\ fh' = [fh EXCEPT ![i] = RootObj]
  BY <1>1, <1>3, <1>4, FhgetStep DEF IInv
<1>6. i = RootIno
  <2>1. fh_ifind(RootObj) = {}
    BY <1>3, <1>4, FindByHandle DEF IInv, CacheInv
  <2>2. NextId(i)
    BY <1>1, <2>1 DEF hsi_nfs_fhget, get_new_inode
  <2>3. 0 < i /\ \A j \in 1 .. (i - 1) : j \in {}
    BY SMTT(60), <1>3, <2>2 DEF NextId, Ino
  <2> QED
    BY SMTT(60), <2>3 DEF Ino, RootIno
<1>7. ServerStep /\ srv'[RootObj] # "unborn"
  BY <1>2, <1>3, ServerSame DEF IInv, LifeInv
<1>8. /\ \A j \in id_table' : srv'[fh'[j]] # "unborn"
      /\ NamedInv' /\ CtxInv' /\ KindInv'
      /\ i \in id_table' /\ fh'[i] = RootObj
  BY <1>1, <1>2, <1>4, <1>7, FhgetKeeps
     DEF NamedInv, CtxInv, KindInv, ServerStep
<1>9. daemon' = "mounted" /\ UNCHANGED failed_at
  BY <1>1, <1>6
<1>10. TypeOK'
  BY <1>2, <1>5, <1>9 DEF IInv, TypeOK, CountTypeOK, RdTypeOK
<1>11. BornInv'
  BY <1>2, <1>7, <1>8, TodoBorn DEF BornInv
<1>12. \A j \in Ino : /\ private[j] = 0 /\ nlookup[j] = 0 /\ replies[j] = 0
                       /\ forgets[j] = 0 /\ packed[j] = 0 /\ unpaid[j] = 0
                       /\ dots[j] = 0
  BY <1>3 DEF IInv, CountInv
<1>13. CountInv' /\ RefsConserved'
  BY <1>2, <1>9, <1>12 DEF CountInv, RefsConserved
<1>14. LifeInv'
  <2>1. failed_at' = "none"
    BY <1>3, <1>9 DEF IInv, LifeInv
  <2> QED
    BY SMTT(60), <1>2, <1>6, <1>8, <1>9, <1>12, <2>1 DEF LifeInv, Outstanding
<1>15. AssertsThatHold'
  BY <1>3, <1>9, NothingFailed DEF IInv, LifeInv
<1> QED
  BY <1>5, <1>8, <1>10, <1>11, <1>13, <1>14, <1>15 DEF IInv

LEMMA FillSuperKeeps ==
  ASSUME IInv, hsi_fill_super
  PROVE  IInv'
<1>1. CASE daemon' = "crashed"
  <2>1. /\ ServerStep
        /\ UseErrPtr({"fill_super"}) /\ UNCHANGED cacheVars
        /\ UNCHANGED <<private, rdVars, kernelVars, ghostVars>>
    BY <1>1, ServerSame DEF hsi_fill_super, serverVars, Abort
  <2>2. {"fill_super"} \in SUBSET (AssertSite \ {"ref_dec"})
    BY DEF AssertSite
  <2> QED
    BY <1>1, <2>1, <2>2, CrashKeeps
<1>2. CASE daemon' # "crashed"
  BY <1>2, RootKeeps
<1> QED
  BY <1>1, <1>2

(* hsx_fuse_init(): nothing was counted for the root yet.                   *)
LEMMA InitHandlerKeeps ==
  ASSUME IInv, hsx_fuse_init
  PROVE  IInv'
<1> USE DEF hsx_fuse_init
<1>1. UNCHANGED <<srv, rd_phase, rd_dir, rd_todo, rd_ctx, packed, replies,
                  forgets, unpaid, dots>>
  BY DEF serverVars, rdVars
<1>2. /\ CacheTypeOK' /\ CacheInv'
      /\ UNCHANGED <<curr_id, id_table, fh, alloc>>
  BY CacheSame
<1>3. /\ RootIno \in id_table /\ fh[RootIno] = RootObj
      /\ \A i \in Ino : /\ private[i] = 0 /\ Outstanding(i) = 0
                         /\ unpaid[i] = 0 /\ dots[i] = 0
  BY DEF IInv, LifeInv
<1>4. RootIno \in Ino /\ RootObj \in Objects
  BY RootInIno, RefsAssumption
<1>5. daemon' = "running" /\ UNCHANGED failed_at
  BY <1>3, <1>4
<1>6. BornInv' /\ CtxInv' /\ KindInv'
  BY <1>1, <1>2, TablesSame, ServerSame
<1>7. NamedInv'
  BY SMTT(60), <1>2, <1>3 DEF IInv, NamedInv
<1>8. TypeOK'
  <2>1. CountTypeOK'
    BY <1>1, <1>4 DEF IInv, TypeOK, CountTypeOK
  <2>2. named' \subseteq Objects \X Ino
    BY SMTT(60), <1>4 DEF IInv, TypeOK
  <2> QED
    BY <1>1, <1>2, <1>5, <2>1, <2>2 DEF IInv, TypeOK, RdTypeOK
<1>9. CountInv'
  BY SMTT(60), <1>1, <1>2, <1>3, <1>4 DEF IInv, TypeOK, CountTypeOK, CountInv
<1>10. LifeInv'
  <2>1. failed_at' = "none"
    BY <1>5 DEF IInv, LifeInv
  <2> QED
    BY SMTT(60), <1>2, <1>3, <1>4, <1>5, <2>1
       DEF IInv, TypeOK, CountTypeOK, LifeInv
<1>11. RefsConserved'
  <2>1. CountTypeOK
    BY DEF IInv, TypeOK
  <2>2. ASSUME NEW j \in Ino
        PROVE  private'[j] + unpaid'[j] = Outstanding(j)' + dots'[j]
    <3>1. /\ private[j] = 0 /\ Outstanding(j) = 0
          /\ unpaid[j] = 0 /\ dots[j] = 0
      BY <1>3
    <3>2. nlookup[j] = 0 /\ replies[j] = 0 /\ forgets[j] = 0 /\ packed[j] = 0
      BY SMTT(60), <2>1, <3>1 DEF CountTypeOK, Outstanding
    <3>3. private'[j] = IF j = RootIno THEN 1 ELSE 0
      BY <1>4, <2>1, <3>1 DEF CountTypeOK
    <3>4. nlookup'[j] = IF j = RootIno THEN 1 ELSE 0
      BY <1>4, <2>1, <3>2 DEF CountTypeOK
    <3> QED
      BY SMTT(60), <1>1, <3>1, <3>2, <3>3, <3>4 DEF Outstanding
  <2> QED
    BY <2>2 DEF RefsConserved
<1>12. AssertsThatHold'
  BY <1>5, NothingFailed DEF IInv, LifeInv
<1> QED
  BY <1>2, <1>6, <1>7, <1>8, <1>9, <1>10, <1>11, <1>12 DEF IInv

(* hsx_fuse_unmount().                                                      *)
LEMMA UnmountKeeps ==
  ASSUME IInv, hsx_fuse_unmount
  PROVE  IInv'
<1> USE DEF hsx_fuse_unmount
<1>1. UNCHANGED <<srv, failed_at, private, rd_phase, rd_dir, rd_todo, rd_ctx,
                  packed, nlookup, replies, forgets, named, unpaid, dots>>
  BY DEF serverVars, rdVars, kernelVars, ghostVars
<1>2. daemon' = "unmounted"
  OBVIOUS
<1>3. /\ CacheTypeOK' /\ CacheInv'
      /\ UNCHANGED <<curr_id, id_table, fh, alloc>>
  BY RootInIno, IputStep DEF IInv
<1>4. BornInv' /\ NamedInv' /\ CtxInv' /\ KindInv'
  BY <1>1, <1>3, TablesSame, ServerSame
<1>5. TypeOK'
  BY <1>1, <1>2, <1>3 DEF IInv, TypeOK, CountTypeOK, RdTypeOK
<1>6. CountInv'
  BY <1>1, <1>3 DEF IInv, CountInv
<1>7. LifeInv' /\ RefsConserved'
  BY <1>1, <1>2 DEF IInv, LifeInv, RefsConserved
<1>8. AssertsThatHold'
  BY <1>1, <1>2, NothingFailed DEF IInv, LifeInv
<1> QED
  BY <1>3, <1>4, <1>5, <1>6, <1>7, <1>8 DEF IInv

(* hsx_fuse_link() adds to what the kernel will hold and to unpaid.         *)
LEMMA LinkKeeps ==
  ASSUME IInv, NEW t \in Ino, NEW p \in Ino, hsx_fuse_link(t, p)
  PROVE  IInv'
<1>1. UNCHANGED <<srv, daemon, failed_at, private, rd_phase, rd_dir, rd_todo,
                  rd_ctx, packed, nlookup, forgets, dots>>
  BY DEF hsx_fuse_link, serverVars, lifeVars, rdVars
<1>2. /\ CacheTypeOK' /\ CacheInv'
      /\ UNCHANGED <<curr_id, id_table, fh, alloc>>
  BY CacheSame DEF hsx_fuse_link
<1>3. /\ t \in id_table /\ fh[t] \notin Dirs
      /\ replies' = [replies EXCEPT ![t] = replies[t] + 1]
      /\ unpaid' = [unpaid EXCEPT ![t] = unpaid[t] + 1]
      /\ named' = named \cup {<<fh[t], t>>}
  BY DEF hsx_fuse_link, hsfs_ilookup, ReplyEntry
<1>4. fh[t] \in Objects
  BY <1>3 DEF IInv, CacheInv
<1>5. CountTypeOK
  BY DEF IInv, TypeOK
<1>6. BornInv' /\ CtxInv'
  BY <1>1, <1>2, TablesSame, ServerSame
<1>7. NamedInv'
  <2>1. NamedInv
    BY DEF IInv
  <2>2. ASSUME NEW e \in named'
        PROVE  e[2] \in id_table' /\ fh'[e[2]] = e[1]
    <3>1. CASE e \in named
      BY <1>2, <2>1, <3>1 DEF NamedInv
    <3>2. CASE e = <<fh[t], t>>
      BY <1>2, <1>3, <3>2
    <3> QED
      BY <1>3, <3>1, <3>2
  <2> QED
    BY <2>2 DEF NamedInv
<1>8. KindInv'
  BY SMTT(60), <1>1, <1>2, <1>3, <1>5 DEF IInv, KindInv, CountTypeOK
<1>9. TypeOK'
  <2>1. CountTypeOK'
    BY SMTT(60), <1>1, <1>3, <1>5 DEF CountTypeOK
  <2>2. named' \subseteq Objects \X Ino
    BY SMTT(60), <1>3, <1>4 DEF IInv, TypeOK
  <2> QED
    BY <1>1, <1>2, <2>1, <2>2 DEF IInv, TypeOK, RdTypeOK
<1>10. CountInv'
  BY <1>1, <1>2, <1>3, <1>5 DEF IInv, CountInv, CountTypeOK
<1>11. LifeInv'
  <2>1. daemon = "running"
    BY DEF hsx_fuse_link, Idle
  <2> QED
    BY <1>1, <1>2, <2>1 DEF IInv, LifeInv
<1>12. RefsConserved'
  <2>1. ASSUME NEW j \in Ino
        PROVE  private'[j] + unpaid'[j] = Outstanding(j)' + dots'[j]
    <3>1. private[j] + unpaid[j] = Outstanding(j) + dots[j]
      BY DEF hsx_fuse_link, IInv, RefsConserved, Idle
    <3> QED
      BY SMTT(60), <1>1, <1>3, <1>5, <3>1 DEF CountTypeOK, Outstanding
  <2> QED
    BY <2>1 DEF RefsConserved
<1>13. AssertsThatHold'
  <2>1. daemon = "running"
    BY DEF hsx_fuse_link, Idle
  <2> QED
    BY <1>1, <2>1, NothingFailed DEF IInv, LifeInv
<1> QED
  BY <1>2, <1>6, <1>7, <1>8, <1>9, <1>10, <1>11, <1>12, <1>13 DEF IInv

-----------------------------------------------------------------------------
(* READDIRPLUS.                                                             *)

LEMMA EntryListsAreSeqs == EntryLists \subseteq Seq(Entry)
<1> SUFFICES ASSUME NEW es \in EntryLists PROVE es \in Seq(Entry)
  OBVIOUS
<1>1. PICK n \in 0 .. MaxEntries : es \in [1 .. n -> Entry]
  BY DEF EntryLists
<1>2. n \in Nat
  BY SMTT(60), RefsAssumption
<1> QED
  BY SMTT(60), <1>1, <1>2

(* The steps that move along the lists and change no count.                 *)
LEMMA ListStepKeeps ==
  ASSUME IInv, CacheTypeOK', CacheInv', UNCHANGED <<curr_id, id_table, fh>>,
         UNCHANGED <<serverVars, lifeVars, private, packed, kernelVars,
                     ghostVars>>,
         RdTypeOK', BornInv', CtxInv'
  PROVE  IInv'
<1>1. UNCHANGED <<srv, daemon, failed_at, private, packed, nlookup, replies,
                  forgets, named, unpaid, dots>>
  BY DEF serverVars, lifeVars, kernelVars, ghostVars
<1>2. NamedInv' /\ KindInv'
  BY <1>1, TablesSame, ServerSame
<1>3. TypeOK'
  BY <1>1 DEF IInv, TypeOK, CountTypeOK
<1>4. CountInv' /\ RefsConserved' /\ AssertsThatHold'
  BY <1>1 DEF IInv, CountInv, RefsConserved, AssertsThatHold, Outstanding
<1>5. LifeInv'
  BY <1>1 DEF IInv, LifeInv, Outstanding
<1> QED
  BY <1>2, <1>3, <1>4, <1>5 DEF IInv

(* The request: the directory is found, for the kernel holds it.            *)
LEMMA ReaddirPlusKeeps ==
  ASSUME IInv, NEW p \in Ino, NEW es \in EntryLists,
         hsx_fuse_readdir_plus(p, es)
  PROVE  IInv'
<1>1. p \in id_table
  BY SMTT(60) DEF IInv, CountInv, hsx_fuse_readdir_plus
<1>2. /\ rd_phase' = "cache" /\ rd_dir' = p
      /\ rd_todo' = es /\ rd_ctx' = << >>
      /\ UNCHANGED <<lifeVars, packed>>
  BY <1>1 DEF hsx_fuse_readdir_plus, hsfs_ilookup
<1>3. UNCHANGED <<cacheVars, serverVars, private, kernelVars, ghostVars>>
  BY DEF hsx_fuse_readdir_plus
<1>4. /\ CacheTypeOK' /\ CacheInv'
      /\ UNCHANGED <<curr_id, id_table, fh>>
  BY <1>3, CacheSame
<1>5. RdTypeOK'
  BY SMTT(60), <1>2, EntryListsAreSeqs DEF RdTypeOK
<1>6. srv' = srv /\ ServerStep
  BY <1>3, ServerSame DEF serverVars
<1>7. CtxInv'
  BY <1>2, <1>4, <1>6, TablesSame
<1>8. BornInv'
  <2>1. \A k \in DOMAIN es : srv[es[k].obj] = "live"
    BY DEF hsx_fuse_readdir_plus
  <2> QED
    BY <1>2, <1>4, <1>6, <2>1 DEF IInv, BornInv
<1> QED
  BY <1>2, <1>3, <1>4, <1>5, <1>7, <1>8, ListStepKeeps

(* One entry of the answer is looked up in the cache and appended.          *)
LEMMA EntryKeeps ==
  ASSUME IInv, readdir_plus_entry
  PROVE  IInv'
<1> DEFINE e == Head(rd_todo)
<1>1. rd_todo \in Seq(Entry) /\ rd_todo # << >> /\ rd_ctx \in Seq(Ctx)
  BY DEF IInv, TypeOK, RdTypeOK, readdir_plus_entry
<1>2. e \in Entry /\ e = rd_todo[1] /\ 1 \in DOMAIN rd_todo
  BY SMTT(60), <1>1
<1>3. /\ e.obj \in Objects /\ e.dot \in BOOLEAN /\ srv[e.obj] # "unborn"
      /\ e.dot => e.obj \in Dirs
  BY <1>2 DEF Entry, IInv, BornInv
<1>4. PICK i \in Ino :
         /\ hsi_nfs_fhget(e.obj, i)
         /\ private' = [private EXCEPT ![i] = RefOf(e.obj, i)]
         /\ rd_ctx' = Append(rd_ctx,
                             [ino |-> i, obj |-> e.obj, dot |-> e.dot])
  BY DEF readdir_plus_entry
<1> HIDE DEF e
<1>5. UNCHANGED <<srv, daemon, failed_at, rd_phase, rd_dir, packed, nlookup,
                  replies, forgets, named, unpaid, dots>>
  BY DEF readdir_plus_entry, serverVars, lifeVars, kernelVars, ghostVars
<1>6. rd_todo' = Tail(rd_todo) /\ daemon = "running"
  BY DEF readdir_plus_entry
<1>7. /\ CacheTypeOK' /\ CacheInv'
      /\ id_table' = id_table \cup {i}
      /\ RefOf(e.obj, i) = private[i]
  BY <1>3, <1>4, FhgetStep DEF IInv
<1>8. private' = private
  BY <1>4, <1>7 DEF IInv, TypeOK, CountTypeOK
<1>9. ServerStep
  BY <1>5, ServerSame
<1>10. /\ \A j \in id_table' : srv'[fh'[j]] # "unborn"
       /\ NamedInv' /\ KindInv'
       /\ \A k \in DOMAIN rd_ctx :
             rd_ctx[k].ino # BadIno =>
                /\ rd_ctx[k].ino \in id_table'
                /\ fh'[rd_ctx[k].ino] = rd_ctx[k].obj
       /\ i \in id_table' /\ fh'[i] = e.obj
       /\ id_table \subseteq id_table'
       /\ \A j \in id_table : fh'[j] = fh[j]
  BY <1>3, <1>4, <1>5, <1>9, FhgetKeeps DEF NamedInv, KindInv, ServerStep
<1>11. RdTypeOK'
  <2>1. [ino |-> i, obj |-> e.obj, dot |-> e.dot] \in Ctx
    BY <1>3 DEF Ctx
  <2>2. rd_ctx' \in Seq(Ctx)
    BY SMTT(60), <1>1, <1>4, <2>1
  <2>3. rd_todo' \in Seq(Entry)
    BY SMTT(60), <1>1, <1>6
  <2> QED
    BY <1>5, <2>2, <2>3 DEF IInv, TypeOK, RdTypeOK
<1>12. TypeOK'
  BY <1>5, <1>7, <1>8, <1>11 DEF IInv, TypeOK, CountTypeOK
<1>13. CtxInv'
  <2>1. ASSUME NEW k \in DOMAIN rd_ctx'
        PROVE  \/ k \in DOMAIN rd_ctx /\ rd_ctx'[k] = rd_ctx[k]
               \/ rd_ctx'[k] = [ino |-> i, obj |-> e.obj, dot |-> e.dot]
    BY SMTT(60), <1>1, <1>4
  <2> QED
    BY SMTT(60), <1>10, <2>1 DEF CtxInv
<1>14. BornInv'
  <2>1. \A k \in DOMAIN rd_todo' :
           k + 1 \in DOMAIN rd_todo /\ rd_todo'[k] = rd_todo[k + 1]
    BY SMTT(60), <1>1, <1>6
  <2> QED
    BY SMTT(60), <1>9, <1>10, <2>1, TodoBorn DEF BornInv
<1>15. CountInv' /\ RefsConserved'
  BY <1>5, <1>7, <1>8 DEF IInv, CountInv, RefsConserved, Outstanding
<1>15a. AssertsThatHold'
  BY <1>5, <1>6, NothingFailed DEF IInv, LifeInv
<1>16. LifeInv'
  BY <1>5, <1>6, <1>10 DEF IInv, LifeInv
<1> QED
  BY <1>7, <1>10, <1>12, <1>13, <1>14, <1>15, <1>15a, <1>16 DEF IInv

(* The steps of the loops that change no count.                             *)
LEMMA LoopStepsKeep ==
  ASSUME IInv,
         \/ readdir_plus_bad_entry \/ readdir_plus_error
         \/ readdir_free_ctx \/ readdir_plus_listed
  PROVE  IInv'
<1>1. RdTypeOK /\ rd_todo \in Seq(Entry) /\ rd_ctx \in Seq(Ctx)
  BY DEF IInv, TypeOK, RdTypeOK
<1>2. CASE readdir_plus_bad_entry
  <2> USE <1>2 DEF readdir_plus_bad_entry
  <2>1. /\ CacheTypeOK' /\ CacheInv'
        /\ UNCHANGED <<curr_id, id_table, fh>>
    BY CacheSame
  <2>2. ServerStep
    BY ServerSame DEF serverVars
  <2>3. BornInv'
    BY <2>1, <2>2, TablesSame
  <2>4. PICK c \in Ctx : c.ino = BadIno /\ rd_ctx' = Append(rd_ctx, c)
    <3>1. Head(rd_todo) \in Entry
      BY SMTT(60), <1>1
    <3>2. /\ Head(rd_todo).obj \in Objects /\ Head(rd_todo).dot \in BOOLEAN
          /\ Head(rd_todo).dot => Head(rd_todo).obj \in Dirs
      BY <3>1 DEF Entry
    <3>3. [ino |-> BadIno, obj |-> Head(rd_todo).obj,
            dot |-> Head(rd_todo).dot] \in Ctx
      BY <3>2 DEF Ctx
    <3> QED
      BY <3>3
  <2>5. RdTypeOK'
    BY SMTT(60), <1>1, <2>4 DEF RdTypeOK
  <2>6. CtxInv'
    <3>1. ASSUME NEW k \in DOMAIN rd_ctx'
          PROVE  \/ k \in DOMAIN rd_ctx /\ rd_ctx'[k] = rd_ctx[k]
                 \/ rd_ctx'[k] = c
      BY SMTT(60), <1>1, <2>4
    <3> QED
      BY <2>1, <2>4, <3>1 DEF IInv, CtxInv
  <2> QED
    BY <2>1, <2>3, <2>5, <2>6, ListStepKeeps
<1>3. CASE readdir_plus_error
  <2> USE <1>3 DEF readdir_plus_error
  <2>1. /\ CacheTypeOK' /\ CacheInv'
        /\ UNCHANGED <<curr_id, id_table, fh>>
    BY CacheSame
  <2>2. BornInv' /\ CtxInv'
    BY <2>1, TablesSame, ServerSame DEF serverVars
  <2>3. RdTypeOK'
    BY SMTT(60), <1>1 DEF RdTypeOK
  <2> QED
    BY <2>1, <2>2, <2>3, ListStepKeeps
<1>4. CASE readdir_free_ctx
  <2> USE <1>4 DEF readdir_free_ctx
  <2>1. /\ CacheTypeOK' /\ CacheInv'
        /\ UNCHANGED <<curr_id, id_table, fh>>
    <3>1. CASE UNCHANGED cacheVars
      BY <3>1, CacheSame
    <3>2. CASE /\ rd_ctx # << >> /\ Head(rd_ctx).ino # BadIno
               /\ hsfs_iput(Head(rd_ctx).ino)
      <4>1. Head(rd_ctx) \in Ctx
        BY SMTT(60), <1>1, <3>2
      <4>2. Head(rd_ctx).ino \in Ino
        BY <3>2, <4>1 DEF Ctx
      <4> QED
        BY <3>2, <4>2, IputStep DEF IInv
    <3> QED
      BY <3>1, <3>2
  <2>2. BornInv' /\ CtxInv'
    BY <2>1, TablesSame, ServerSame DEF serverVars
  <2>3. /\ rd_ctx' = rd_ctx \/ (rd_ctx # << >> /\ rd_ctx' = Tail(rd_ctx))
        /\ rd_phase' = rd_phase \/ rd_phase' = "idle"
        /\ rd_dir' = rd_dir /\ rd_todo' = rd_todo
    OBVIOUS
  <2> HIDE <1>4 DEF readdir_free_ctx
  <2>4. RdTypeOK'
    BY SMTT(60), <1>1, <2>3 DEF RdTypeOK
  <2> QED
    BY <1>4, <2>1, <2>2, <2>4, ListStepKeeps DEF readdir_free_ctx
<1>5. CASE readdir_plus_listed
  <2> USE <1>5 DEF readdir_plus_listed
  <2>1. /\ CacheTypeOK' /\ CacheInv'
        /\ UNCHANGED <<curr_id, id_table, fh>>
    BY CacheSame
  <2>2. BornInv' /\ CtxInv'
    BY <2>1, TablesSame, ServerSame DEF serverVars
  <2>3. RdTypeOK'
    <3>1. rd_ctx' \in Seq(Ctx)
      <4>1. CASE rd_ctx' = rd_ctx
        BY <1>1, <4>1
      <4>2. CASE rd_ctx' = << >>
        BY SMTT(60), <4>2
      <4> QED
        BY <4>1, <4>2
    <3>2. rd_phase' \in {"idle", "pack"} /\ UNCHANGED <<rd_dir, rd_todo>>
      OBVIOUS
    <3> QED
      BY <1>1, <3>1, <3>2 DEF RdTypeOK
  <2> QED
    BY <2>1, <2>2, <2>3, ListStepKeeps
<1> QED
  BY <1>2, <1>3, <1>4, <1>5

(* An entry goes into the reply: counted once, in packed or in dots.        *)
LEMMA PackKeeps ==
  ASSUME IInv, readdir_plus_pack
  PROVE  IInv'
<1> DEFINE c == Head(rd_ctx)
<1>1. rd_ctx \in Seq(Ctx) /\ rd_ctx # << >> /\ daemon = "running"
  BY DEF IInv, TypeOK, RdTypeOK, readdir_plus_pack
<1>2. c \in Ctx /\ c = rd_ctx[1] /\ 1 \in DOMAIN rd_ctx
  BY SMTT(60), <1>1
<1>3. c.ino # BadIno
  BY DEF readdir_plus_pack
<1>4. /\ c.ino \in Ino /\ c.obj \in Objects /\ c.dot \in BOOLEAN
      /\ c.dot => c.obj \in Dirs
  BY <1>2, <1>3 DEF Ctx
<1>5. c.ino \in id_table /\ fh[c.ino] = c.obj
  BY <1>2, <1>3 DEF IInv, CtxInv
<1>6. PICK i \in id_table, o \in Objects :
         /\ fh[i] = o /\ i \in Ino
         /\ private' = [private EXCEPT ![i] = private[i] + 1]
         /\ \/ /\ dots' = [dots EXCEPT ![i] = dots[i] + 1]
               /\ o \in Dirs
               /\ UNCHANGED <<packed, named>>
            \/ /\ packed' = [packed EXCEPT ![i] = packed[i] + 1]
               /\ named' = named \cup {<<o, i>>}
               /\ UNCHANGED dots
         /\ rd_ctx' = Tail(rd_ctx)
  BY <1>4, <1>5 DEF readdir_plus_pack
<1>6a. i \in Ino /\ private' = [private EXCEPT ![i] = private[i] + 1]
  BY <1>6
<1>7. UNCHANGED <<srv, daemon, failed_at, rd_phase, rd_dir, rd_todo, nlookup,
                  replies, forgets, unpaid>>
  BY DEF readdir_plus_pack, serverVars, lifeVars, kernelVars
<1>8. /\ CacheTypeOK' /\ CacheInv'
      /\ UNCHANGED <<curr_id, id_table, fh>>
  BY CacheSame DEF readdir_plus_pack
<1>9. CountTypeOK
  BY DEF IInv, TypeOK
<1>10. BornInv' /\ CtxInv'
  BY <1>1, <1>6, <1>7, <1>8, TablesSame, ServerSame
<1>10a. KindInv'
  <2>1. \A j \in Ino : dots'[j] = dots[j] \/ (j = i /\ fh[j] \in Dirs)
    BY <1>6, <1>9 DEF CountTypeOK
  <2>2. id_table \subseteq Ino
    BY DEF IInv, TypeOK, CacheTypeOK
  <2> QED
    BY <1>7, <1>8, <2>1, <2>2 DEF IInv, KindInv
<1>11. NamedInv'
  BY SMTT(60), <1>6, <1>8 DEF IInv, NamedInv
<1>12. TypeOK'
  <2>1. CountTypeOK'
    <3>1. private' \in [Ino -> Nat]
      BY SMTT(60), <1>6a, <1>9 DEF CountTypeOK
    <3>2. dots' \in [Ino -> Nat] /\ packed' \in [Ino -> Nat]
      <4>1. CASE dots' = [dots EXCEPT ![i] = dots[i] + 1] /\ packed' = packed
        BY SMTT(60), <1>6a, <1>9, <4>1 DEF CountTypeOK
      <4>2. CASE packed' = [packed EXCEPT ![i] = packed[i] + 1] /\ dots' = dots
        BY SMTT(60), <1>6a, <1>9, <4>2 DEF CountTypeOK
      <4> QED
        BY <1>6, <4>1, <4>2
    <3> QED
      BY <1>7, <1>9, <3>1, <3>2 DEF CountTypeOK
  <2>2. named' \subseteq Objects \X Ino
    BY SMTT(60), <1>6 DEF IInv, TypeOK
  <2>3. RdTypeOK'
    BY SMTT(60), <1>1, <1>6, <1>7 DEF IInv, TypeOK, RdTypeOK
  <2> QED
    BY <1>7, <1>8, <2>1, <2>2, <2>3 DEF IInv, TypeOK
<1>13. CountInv'
  BY <1>6, <1>7, <1>8, <1>9 DEF IInv, CountInv, CountTypeOK
<1>14. LifeInv'
  BY <1>1, <1>7, <1>8 DEF IInv, LifeInv
<1>15. ASSUME NEW j \in Ino
       PROVE  private'[j] + unpaid'[j] = Outstanding(j)' + dots'[j]
  <2>1. private[j] + unpaid[j] = Outstanding(j) + dots[j]
    BY <1>1 DEF IInv, RefsConserved
  <2>2. private'[j] = private[j] + (IF j = i THEN 1 ELSE 0)
    BY SMTT(60), <1>6a, <1>9 DEF CountTypeOK
  <2>3. packed'[j] + dots'[j]
        = packed[j] + dots[j] + (IF j = i THEN 1 ELSE 0)
    <3>1. CASE dots' = [dots EXCEPT ![i] = dots[i] + 1] /\ packed' = packed
      <4>1. dots'[j] = dots[j] + (IF j = i THEN 1 ELSE 0)
        BY SMTT(60), <1>9, <3>1 DEF CountTypeOK
      <4> QED
        BY SMTT(60), <1>9, <3>1, <4>1 DEF CountTypeOK
    <3>2. CASE packed' = [packed EXCEPT ![i] = packed[i] + 1] /\ dots' = dots
      <4>1. packed'[j] = packed[j] + (IF j = i THEN 1 ELSE 0)
        BY SMTT(60), <1>9, <3>2 DEF CountTypeOK
      <4> QED
        BY SMTT(60), <1>9, <3>2, <4>1 DEF CountTypeOK
    <3> QED
      BY <1>6, <3>1, <3>2
  <2>4. packed'[j] \in Nat /\ dots'[j] \in Nat
    BY <1>12 DEF TypeOK, CountTypeOK
  <2> QED
    BY SMTT(60), <1>7, <1>9, <2>1, <2>2, <2>3, <2>4 DEF CountTypeOK, Outstanding
<1>16. RefsConserved'
  BY <1>7, <1>15 DEF RefsConserved
<1>17. AssertsThatHold'
  BY <1>1, <1>7, NothingFailed DEF IInv, LifeInv
<1> QED
  BY <1>8, <1>10, <1>10a, <1>11, <1>12, <1>13, <1>14, <1>16, <1>17 DEF IInv

(* The reply is sent.                                                       *)
LEMMA ReplyKeeps ==
  ASSUME IInv, readdir_plus_reply
  PROVE  IInv'
<1> USE DEF readdir_plus_reply
<1>1. UNCHANGED <<srv, daemon, failed_at, private, rd_dir, rd_todo, nlookup,
                  forgets, named, unpaid, dots>>
  BY DEF serverVars, lifeVars, ghostVars
<1>2. /\ CacheTypeOK' /\ CacheInv'
      /\ UNCHANGED <<curr_id, id_table, fh>>
  BY CacheSame
<1>3. CountTypeOK /\ daemon = "running"
  BY DEF IInv, TypeOK
<1>4. \A j \in Ino : replies'[j] = replies[j] + packed[j] /\ packed'[j] = 0
  BY DEF Zero
<1>5. BornInv' /\ NamedInv' /\ CtxInv' /\ KindInv'
  BY <1>1, <1>2, TablesSame, ServerSame
<1>6. TypeOK'
  <2>1. CountTypeOK'
    BY SMTT(60), <1>1, <1>3 DEF CountTypeOK, Zero
  <2>2. RdTypeOK'
    BY SMTT(60), <1>1 DEF IInv, TypeOK, RdTypeOK
  <2> QED
    BY <1>1, <1>2, <2>1, <2>2 DEF IInv, TypeOK
<1>7. CountInv'
  BY SMTT(60), <1>1, <1>2, <1>4 DEF IInv, CountInv
<1>8. LifeInv'
  BY <1>1, <1>2, <1>3 DEF IInv, LifeInv
<1>9. ASSUME NEW j \in Ino
      PROVE  private'[j] + unpaid'[j] = Outstanding(j)' + dots'[j]
  <2>1. private[j] + unpaid[j] = Outstanding(j) + dots[j]
    BY <1>3 DEF IInv, RefsConserved
  <2>2. replies'[j] = replies[j] + packed[j] /\ packed'[j] = 0
    BY <1>4
  <2> QED
    BY SMTT(60), <1>1, <1>3, <2>1, <2>2 DEF CountTypeOK, Outstanding
<1>10. RefsConserved'
  BY <1>1, <1>9 DEF RefsConserved
<1>11. AssertsThatHold'
  BY <1>1, <1>3, NothingFailed DEF IInv, LifeInv
<1> QED
  BY <1>2, <1>5, <1>6, <1>7, <1>8, <1>10, <1>11 DEF IInv

=============================================================================
