--------------------------- MODULE FuseRefsProofs ---------------------------
(***************************************************************************)
(* The remaining steps of FuseRefs preserve its inductive invariant, and    *)
(* the theorems about it: the invariants, and that it implements NodeMap.   *)
(***************************************************************************)
EXTENDS FuseHandlerProofs, WellFoundedInduction, NaturalsInduction

USE ZenonT(60)

-----------------------------------------------------------------------------
(* FORGET, the bad inodes, the kernel and the server preserve the           *)
(* inductive invariant.                                                     *)

LEMMA BadInodeKeeps ==
  ASSUME IInv, NEW p \in Ino, NEW o \in Objects, BadInodeReply(p, o)
  PROVE  IInv'
<1>1. ServerStep
  <2>1. CASE UNCHANGED srv
    BY <2>1, ServerSame
  <2>2. CASE ServerMakes(o)
    BY <2>2, ServerMakesStep
  <2> QED
    BY <2>1, <2>2 DEF BadInodeReply
<1>2. {"create", "mkdir", "mknod", "symlink", "fill_reply"}
         \in SUBSET (AssertSite \ {"ref_dec"})
  BY DEF AssertSite
<1> QED
  BY <1>1, <1>2, CrashKeeps DEF BadInodeReply

(***************************************************************************)
(* hsx_fuse_forget(): the inode is found because something is outstanding   *)
(* on it, and n > private only when unpaid > 0.                             *)
(***************************************************************************)
LEMMA ForgetKeeps ==
  ASSUME IInv, NEW i \in Ino, NEW n \in Nat, hsx_fuse_forget(i, n)
  PROVE  IInv'
<1>1. UNCHANGED <<srv, rd_phase, rd_dir, rd_todo, rd_ctx, packed, nlookup,
                  replies, named, unpaid, dots>>
  BY DEF hsx_fuse_forget, serverVars, rdVars, ghostVars
<1>2. CountTypeOK
  BY DEF IInv, TypeOK
<1>3. daemon = "running" /\ n >= 1 /\ n <= forgets[i]
  <2>1. Idle /\ n \in 1 .. forgets[i]
    BY DEF hsx_fuse_forget
  <2>2. forgets[i] \in Nat
    BY <1>2 DEF CountTypeOK
  <2> QED
    BY SMTT(60), <2>1, <2>2 DEF Idle
<1>4. i \in id_table
  BY SMTT(60), <1>3 DEF IInv, CountInv
<1>5. private[i] + unpaid[i] = Outstanding(i) + dots[i]
  BY <1>3 DEF IInv, RefsConserved
<1>6. CASE n > private[i]
  <2>1. Abort("ref_dec") /\ UNCHANGED <<cacheVars, private, forgets>>
    BY <1>4, <1>6 DEF hsx_fuse_forget, hsfs_ilookup
  <2>2. unpaid[i] > 0 /\ forgets[i] > private[i]
    BY SMTT(60), <1>3, <1>2, <1>5, <1>6 DEF CountTypeOK, Outstanding
  <2>3. /\ CacheTypeOK' /\ CacheInv'
        /\ UNCHANGED <<curr_id, id_table, fh, alloc>>
    BY <2>1, CacheSame
  <2>4. BornInv' /\ NamedInv' /\ CtxInv' /\ KindInv'
    BY <1>1, <2>3, TablesSame, ServerSame
  <2>5. TypeOK'
    BY <1>1, <2>1, <2>3
       DEF IInv, TypeOK, CountTypeOK, RdTypeOK, Abort, AssertSite
  <2>6. CountInv'
    BY <1>1, <2>1, <2>3 DEF IInv, CountInv
  <2>7. LifeInv' /\ RefsConserved' /\ AssertsThatHold'
    BY <1>1, <2>1, <2>2 DEF LifeInv, RefsConserved, AssertsThatHold, Abort
  <2> QED
    BY <2>3, <2>4, <2>5, <2>6, <2>7 DEF IInv
<1>7. CASE ~ (n > private[i])
  <2>1. /\ private' = [private EXCEPT ![i] = private[i] - n]
        /\ forgets' = [forgets EXCEPT ![i] = forgets[i] - n]
        /\ UNCHANGED <<daemon, failed_at>>
    BY <1>4, <1>7 DEF hsx_fuse_forget, hsfs_ilookup, lifeVars
  <2>2. hsfs_iput(i) \/ UNCHANGED cacheVars
    BY <1>4, <1>7 DEF hsx_fuse_forget, hsfs_ilookup
  <2>3. /\ CacheTypeOK' /\ CacheInv'
        /\ UNCHANGED <<curr_id, id_table, fh, alloc>>
    BY <2>2, CacheSame, IputStep DEF IInv
  <2>4. BornInv' /\ NamedInv' /\ CtxInv' /\ KindInv'
    BY <1>1, <2>3, TablesSame, ServerSame
  <2>5. CountTypeOK'
    BY SMTT(60), <1>1, <1>3, <1>2, <1>7, <2>1 DEF CountTypeOK
  <2>6. TypeOK'
    BY <1>1, <2>1, <2>3, <2>5 DEF IInv, TypeOK, RdTypeOK
  <2>7. CountInv'
    BY <1>1, <1>2, <1>4, <2>1, <2>3 DEF IInv, CountInv, CountTypeOK
  <2>8. LifeInv'
    BY <1>1, <1>3, <2>1, <2>3 DEF IInv, LifeInv
  <2>9. ASSUME NEW j \in Ino
        PROVE  private'[j] + unpaid'[j] = Outstanding(j)' + dots'[j]
    <3>1. private[j] + unpaid[j] = Outstanding(j) + dots[j]
      BY <1>3 DEF IInv, RefsConserved
    <3> QED
      BY SMTT(60), <1>1, <1>2, <2>1, <3>1 DEF CountTypeOK, Outstanding
  <2>10. RefsConserved'
    BY <1>1, <2>1, <2>9 DEF RefsConserved
  <2>11. AssertsThatHold'
    BY <1>3, <2>1, NothingFailed DEF IInv, LifeInv
  <2> QED
    BY <2>3, <2>4, <2>6, <2>7, <2>8, <2>10, <2>11 DEF IInv
<1> QED
  BY <1>6, <1>7

(* The kernel only moves references between what it holds, what it has been *)
(* sent and what it gives back.                                             *)
LEMMA KernelKeeps ==
  ASSUME IInv, daemon = "running",
         UNCHANGED <<cacheVars, serverVars, lifeVars, private, rdVars,
                     ghostVars>>,
         nlookup' \in [Ino -> Nat], replies' \in [Ino -> Nat],
         forgets' \in [Ino -> Nat],
         \A j \in Ino : nlookup'[j] + replies'[j] + forgets'[j]
                        = nlookup[j] + replies[j] + forgets[j],
         nlookup'[RootIno] >= nlookup[RootIno]
  PROVE  IInv'
<1>1. UNCHANGED <<srv, daemon, failed_at, private, rd_phase, rd_dir, rd_todo,
                  rd_ctx, packed, named, unpaid, dots>>
  BY DEF serverVars, lifeVars, rdVars, ghostVars
<1>2. /\ CacheTypeOK' /\ CacheInv'
      /\ UNCHANGED <<curr_id, id_table, fh, alloc>>
  BY CacheSame
<1>3. CountTypeOK
  BY DEF IInv, TypeOK
<1>4. BornInv' /\ NamedInv' /\ CtxInv' /\ KindInv'
  BY <1>1, <1>2, TablesSame, ServerSame
<1>5. CountTypeOK'
  BY <1>1, <1>3 DEF CountTypeOK
<1>6. TypeOK'
  BY <1>1, <1>2, <1>5 DEF IInv, TypeOK, RdTypeOK
<1>7. CountInv'
  <2>1. ASSUME NEW j \in Ino \ id_table
        PROVE  nlookup'[j] = 0 /\ replies'[j] = 0 /\ forgets'[j] = 0
    <3>1. nlookup[j] = 0 /\ replies[j] = 0 /\ forgets[j] = 0
      BY DEF IInv, CountInv
    <3>2. nlookup'[j] \in Nat /\ replies'[j] \in Nat /\ forgets'[j] \in Nat
      BY DEF Ino
    <3>3. nlookup'[j] + replies'[j] + forgets'[j] = 0
      BY SMTT(60), <3>1
    <3> QED
      BY SMTT(60), <3>2, <3>3
  <2> QED
    BY <1>1, <1>2, <2>1 DEF IInv, CountInv
<1>8. LifeInv'
  <2>1. nlookup'[RootIno] >= 1
    <3>1. nlookup[RootIno] >= 1
      BY DEF IInv, LifeInv
    <3>2. nlookup[RootIno] \in Nat /\ nlookup'[RootIno] \in Nat
      BY <1>3, RootInIno DEF CountTypeOK
    <3> QED
      BY SMTT(60), <3>1, <3>2
  <2> QED
    BY <1>1, <1>2, <2>1 DEF IInv, LifeInv
<1>9. ASSUME NEW j \in Ino
      PROVE  private'[j] + unpaid'[j] = Outstanding(j)' + dots'[j]
  <2>1. private[j] + unpaid[j] = Outstanding(j) + dots[j]
    BY DEF IInv, RefsConserved
  <2>2. Outstanding(j)' = Outstanding(j)
    <3>1. packed'[j] = packed[j]
      BY <1>1
    <3>2. nlookup'[j] + replies'[j] + forgets'[j]
          = nlookup[j] + replies[j] + forgets[j]
      OBVIOUS
    <3> QED
      BY <3>1, <3>2 DEF Outstanding
  <2> QED
    BY <1>1, <2>1, <2>2
<1>10. RefsConserved'
  BY <1>1, <1>9 DEF RefsConserved
<1>11. AssertsThatHold'
  BY <1>1, NothingFailed DEF IInv, LifeInv
<1> QED
  BY <1>2, <1>4, <1>6, <1>7, <1>8, <1>10, <1>11 DEF IInv

LEMMA KernelStepsKeep ==
  ASSUME IInv, NEW i \in Ino,
         kernel_iget(i) \/ kernel_force_forget(i) \/ kernel_evict(i)
  PROVE  IInv'
<1>1. CountTypeOK
  BY DEF IInv, TypeOK
<1>2. RootIno \in Ino
  BY RootInIno
<1>3. CASE kernel_iget(i)
  <2>1. /\ nlookup' \in [Ino -> Nat] /\ replies' \in [Ino -> Nat]
        /\ forgets' \in [Ino -> Nat]
        /\ nlookup'[RootIno] >= nlookup[RootIno]
    BY SMTT(60), <1>1, <1>2, <1>3 DEF CountTypeOK, kernel_iget
  <2>2. \A j \in Ino : nlookup'[j] + replies'[j] + forgets'[j]
                        = nlookup[j] + replies[j] + forgets[j]
    BY SMTT(60), <1>1, <1>3 DEF CountTypeOK, kernel_iget
  <2> QED
    BY <1>3, <2>1, <2>2, KernelKeeps DEF kernel_iget
<1>4. CASE kernel_force_forget(i)
  <2>1. /\ nlookup' \in [Ino -> Nat] /\ replies' \in [Ino -> Nat]
        /\ forgets' \in [Ino -> Nat]
        /\ nlookup'[RootIno] >= nlookup[RootIno]
    BY SMTT(60), <1>1, <1>2, <1>4 DEF CountTypeOK, kernel_force_forget
  <2>2. \A j \in Ino : nlookup'[j] + replies'[j] + forgets'[j]
                        = nlookup[j] + replies[j] + forgets[j]
    BY SMTT(60), <1>1, <1>4 DEF CountTypeOK, kernel_force_forget
  <2> QED
    BY <1>4, <2>1, <2>2, KernelKeeps DEF kernel_force_forget
<1>5. CASE kernel_evict(i)
  <2>1. /\ nlookup' \in [Ino -> Nat] /\ replies' \in [Ino -> Nat]
        /\ forgets' \in [Ino -> Nat]
        /\ nlookup'[RootIno] >= nlookup[RootIno]
    BY SMTT(60), <1>1, <1>2, <1>5 DEF CountTypeOK, kernel_evict
  <2>2. \A j \in Ino : nlookup'[j] + replies'[j] + forgets'[j]
                        = nlookup[j] + replies[j] + forgets[j]
    BY SMTT(60), <1>1, <1>5 DEF CountTypeOK, kernel_evict
  <2> QED
    BY <1>5, <2>1, <2>2, KernelKeeps DEF kernel_evict
<1> QED
  BY <1>3, <1>4, <1>5

(* Files made and removed by others.                                        *)
LEMMA ServerStepsKeep ==
  ASSUME IInv, NEW o \in Objects, server_make(o) \/ server_remove(o)
  PROVE  IInv'
<1> USE DEF server_make, server_remove
<1>1. UNCHANGED <<daemon, failed_at, private, rd_phase, rd_dir, rd_todo,
                  rd_ctx, packed, nlookup, replies, forgets, named, unpaid,
                  dots>>
  BY DEF lifeVars, rdVars, kernelVars, ghostVars
<1>2. /\ CacheTypeOK' /\ CacheInv'
      /\ UNCHANGED <<curr_id, id_table, fh, alloc>>
  BY CacheSame
<1>3. ServerStep
  <2>1. CASE server_make(o)
    BY <2>1, ServerMakesStep
  <2>2. CASE server_remove(o)
    BY <2>2 DEF IInv, TypeOK, ServerStep
  <2> QED
    BY <2>1, <2>2
<1>4. BornInv' /\ NamedInv' /\ CtxInv' /\ KindInv'
  BY <1>1, <1>2, <1>3, TablesSame
<1>5. TypeOK'
  BY <1>1, <1>2, <1>3 DEF IInv, TypeOK, CountTypeOK, RdTypeOK, ServerStep
<1>6. CountInv' /\ RefsConserved'
  BY <1>1, <1>2 DEF IInv, CountInv, RefsConserved, Outstanding
<1>6a. AssertsThatHold'
  BY <1>1, NothingFailed DEF IInv, LifeInv
<1>7. LifeInv'
  BY <1>1, <1>2 DEF IInv, LifeInv
<1> QED
  BY <1>2, <1>4, <1>5, <1>6, <1>6a, <1>7 DEF IInv

-----------------------------------------------------------------------------
(* The theorems.                                                            *)

LEMMA HandlerStepKeeps ==
  ASSUME IInv, HandlerStep
  PROVE  IInv'
<1>1. PICK p \in Ino :
         \/ \E o \in Objects :
               \/ hsx_fuse_lookup(p, o)
               \/ hsx_fuse_create(p, o)
               \/ hsx_fuse_create_setattr_fails(p, o)
               \/ hsx_fuse_mkdir(p, o)
               \/ hsx_fuse_mknod(p, o)
               \/ hsx_fuse_symlink(p, o)
               \/ BadInodeReply(p, o)
         \/ \E t \in Ino : hsx_fuse_link(t, p)
         \/ \E es \in EntryLists : hsx_fuse_readdir_plus(p, es)
         \/ \E n \in 1 .. MaxRefs : hsx_fuse_forget(p, n)
  BY DEF HandlerStep
<1>2. ASSUME NEW o \in Objects, hsx_fuse_lookup(p, o) PROVE IInv'
  BY <1>2, LookupKeeps
<1>3. ASSUME NEW o \in Objects, hsx_fuse_create(p, o) PROVE IInv'
  BY <1>3, CreateKeeps
<1>4. ASSUME NEW o \in Objects, hsx_fuse_create_setattr_fails(p, o)
      PROVE  IInv'
  BY <1>4, CreateFailsKeeps
<1>5. ASSUME NEW o \in Objects,
             \/ hsx_fuse_mkdir(p, o)
             \/ hsx_fuse_mknod(p, o)
             \/ hsx_fuse_symlink(p, o)
      PROVE  IInv'
  BY <1>5, NewEntryKeeps DEF hsx_fuse_mkdir, hsx_fuse_mknod, hsx_fuse_symlink
<1>6. ASSUME NEW o \in Objects, BadInodeReply(p, o) PROVE IInv'
  BY <1>6, BadInodeKeeps
<1>7. ASSUME NEW t \in Ino, hsx_fuse_link(t, p) PROVE IInv'
  BY <1>7, LinkKeeps
<1>8. ASSUME NEW es \in EntryLists, hsx_fuse_readdir_plus(p, es) PROVE IInv'
  BY <1>8, ReaddirPlusKeeps
<1>9. ASSUME NEW n \in 1 .. MaxRefs, hsx_fuse_forget(p, n) PROVE IInv'
  BY SMTT(60), <1>9, ForgetKeeps, RefsAssumption
<1> QED
  BY <1>1, <1>2, <1>3, <1>4, <1>5, <1>6, <1>7, <1>8, <1>9

LEMMA ReaddirStepKeeps ==
  ASSUME IInv, ReaddirStep
  PROVE  IInv'
<1>1. CASE readdir_plus_bad_pack
  <2>1. ServerStep /\ UseErrPtr({"fill_reply"})
    BY <1>1, ServerSame DEF readdir_plus_bad_pack, serverVars
  <2>2. {"fill_reply"} \in SUBSET (AssertSite \ {"ref_dec"})
    BY DEF AssertSite
  <2> QED
    BY <1>1, <2>1, <2>2, CrashKeeps DEF readdir_plus_bad_pack
<1> QED
  BY <1>1, EntryKeeps, LoopStepsKeep, PackKeeps, ReplyKeeps DEF ReaddirStep

LEMMA StutterKeeps ==
  ASSUME IInv, UNCHANGED vars
  PROVE  IInv'
<1>1. UNCHANGED <<cacheVars, srv, daemon, failed_at, private, rd_phase,
                  rd_dir, rd_todo, rd_ctx, packed, nlookup, replies, forgets,
                  named, unpaid, dots>>
  BY DEF vars, serverVars, lifeVars, rdVars, kernelVars, ghostVars
<1>2. /\ CacheTypeOK' /\ CacheInv'
      /\ UNCHANGED <<curr_id, id_table, fh>>
  BY <1>1, CacheSame
<1>3. RdTypeOK' /\ BornInv' /\ CtxInv'
  BY <1>1, <1>2, TablesSame, ServerSame DEF IInv, TypeOK, RdTypeOK
<1> QED
  BY <1>1, <1>2, <1>3, ListStepKeeps
     DEF serverVars, lifeVars, kernelVars, ghostVars

LEMMA NextKeeps ==
  ASSUME IInv, [Next]_vars
  PROVE  IInv'
<1>1. CASE OutsideStep
  BY <1>1, KernelStepsKeep, ServerStepsKeep DEF OutsideStep
<1> QED
  BY <1>1, FillSuperKeeps, InitHandlerKeeps, UnmountKeeps, HandlerStepKeeps,
     ReaddirStepKeeps, StutterKeeps DEF Next

(* IInv is an invariant of the daemon with its kernel and its server.       *)
THEOREM Invariance == Spec => []IInv
<1>1. Init => IInv
  BY InitIInv
<1>2. IInv /\ [Next]_vars => IInv'
  BY NextKeeps
<1> QED
  BY <1>1, <1>2, PTL DEF Spec

(* The state has its type, for every server and every bound.                *)
THEOREM TypeCorrect == Spec => []TypeOK
  BY Invariance, PTL DEF IInv

(* hsfs_inode->private agrees with the kernel, but for link() and dots.     *)
THEOREM ReferencesAreConserved == Spec => []RefsConserved
  BY Invariance, PTL DEF IInv

(* Every inode the kernel can name is in the tables and allocated.          *)
THEOREM NoInodeDangles == Spec => []NoDanglingInode
<1>1. IInv => NoDanglingInode
  <2> SUFFICES ASSUME IInv PROVE NoDanglingInode
    OBVIOUS
  <2>1. id_table \cup fh_table \subseteq alloc
    BY DEF IInv, CacheInv
  <2>2. ASSUME NEW i \in Ino, i \notin id_table
        PROVE  Outstanding(i) = 0
    BY SMTT(60), <2>2 DEF IInv, CountInv, Outstanding
  <2> QED
    BY SMTT(60), <2>1, <2>2 DEF NoDanglingInode, hsfs_ilookup
<1> QED
  BY <1>1, Invariance, PTL

(* Which assertions of the daemon can fail, and when.                       *)
THEOREM AssertionsHold == Spec => []AssertsThatHold
  BY Invariance, PTL DEF IInv

(* FORGET never drops the root.                                             *)
THEOREM RootStaysPinned == Spec => []RootPinned
<1>1. IInv => RootPinned
  <2> SUFFICES ASSUME IInv, daemon = "running"
               PROVE  /\ RootIno \in id_table /\ fh[RootIno] = RootObj
                      /\ private[RootIno] >= 1
    BY DEF RootPinned
  <2>1. /\ RootIno \in id_table /\ fh[RootIno] = RootObj
        /\ nlookup[RootIno] >= 1
    BY DEF IInv, LifeInv
  <2>2. CountTypeOK /\ RootIno \in Ino
    BY RootInIno DEF IInv, TypeOK
  <2>3. ~ (unpaid[RootIno] > 0)
    BY <2>1, RefsAssumption DEF IInv, KindInv
  <2>4. private[RootIno] + unpaid[RootIno]
        = Outstanding(RootIno) + dots[RootIno]
    BY <2>2 DEF IInv, RefsConserved
  <2> QED
    BY SMTT(60), <2>1, <2>2, <2>3, <2>4 DEF CountTypeOK, Outstanding
<1> QED
  BY <1>1, Invariance, PTL

(* An inode number stands for one file, and a file has one number.          *)
THEOREM NumbersIdentifyFiles == Spec => []SameNumberSameFile
<1>1. IInv => SameNumberSameFile
  <2> SUFFICES ASSUME IInv, NEW e1 \in named, NEW e2 \in named
               PROVE  e1[1] = e2[1] <=> e1[2] = e2[2]
    BY DEF SameNumberSameFile
  <2>1. /\ e1[2] \in id_table /\ fh[e1[2]] = e1[1]
        /\ e2[2] \in id_table /\ fh[e2[2]] = e2[1]
    BY DEF IInv, NamedInv
  <2> QED
    BY <2>1 DEF IInv, CacheInv
<1> QED
  BY <1>1, Invariance, PTL

-----------------------------------------------------------------------------
(* The daemon implements NodeMap.                                           *)

(* A step that gets an inode, and may show it to the kernel.                *)
GetStep ==
    \E o \in Objects, i \in Ino :
       hsi_nfs_fhget(o, i) /\ named' \in {named, named \cup {<<o, i>>}}

LEMMA GetStepAnswers ==
  ASSUME IInv, GetStep
  PROVE  NM!Next
<1>1. PICK o \in Objects, i \in Ino :
         hsi_nfs_fhget(o, i) /\ named' \in {named, named \cup {<<o, i>>}}
  BY DEF GetStep
<1>2. /\ CacheInv'
      /\ id_table' = id_table \cup {i}
      /\ fh' = [fh EXCEPT ![i] = o]
      /\ i \in id_table => fh[i] = o
  BY <1>1, FhgetStep DEF IInv
<1>3. fh \in [Ino -> Objects \cup {NoObj}] /\ id_table \subseteq Ino
  BY DEF IInv, TypeOK, CacheTypeOK
<1>4. fh'[i] = o /\ \A j \in id_table : fh'[j] = fh[j]
  BY <1>2, <1>3
<1>5. \A j \in id_table : fh[j] = o => j = i
  BY <1>2, <1>4 DEF CacheInv
<1>6. <<o, i>> \in Binding \/ \A b \in Binding : b[1] # o /\ b[2] # i
  BY SMTT(60), <1>2, <1>5 DEF Binding
<1>7. Binding' = Binding \cup {<<o, i>>}
  BY <1>2, <1>4 DEF Binding
<1> QED
  BY <1>1, <1>6, <1>7 DEF NM!Next, NM!Answer, NM!Fresh

(* A step that shows a cached inode to the kernel.                          *)
ShowStep ==
    /\ UNCHANGED <<id_table, fh>>
    /\ \E i \in id_table : named' = named \cup {<<fh[i], i>>}

LEMMA ShowStepAnswers ==
  ASSUME IInv, ShowStep
  PROVE  NM!Next
<1>1. PICK i \in id_table : named' = named \cup {<<fh[i], i>>}
  BY DEF ShowStep
<1>2. fh[i] \in Objects /\ i \in Ino
  BY DEF IInv, CacheInv, TypeOK, CacheTypeOK
<1>3. <<fh[i], i>> \in Binding /\ Binding' = Binding
  BY DEF Binding, ShowStep
<1> QED
  BY <1>1, <1>2, <1>3 DEF NM!Next, NM!Answer

QuietStep == UNCHANGED <<id_table, fh, named>>

LEMMA IputQuiet ==
  ASSUME NEW i, hsfs_iput(i)
  PROVE  UNCHANGED <<id_table, fh>>
  BY DEF hsfs_iput

LEMMA HandlerMaps ==
  ASSUME IInv, HandlerStep
  PROVE  GetStep \/ ShowStep \/ QuietStep
<1> USE DEF cacheVars, ghostVars
<1>1. ASSUME NEW p \in Ino, NEW o \in Objects, hsx_fuse_lookup(p, o)
      PROVE  GetStep
  BY <1>1 DEF hsx_fuse_lookup, ReplyEntry, GetStep
<1>2. ASSUME NEW p \in Ino, NEW o \in Objects, hsx_fuse_create(p, o)
      PROVE  GetStep
  BY <1>2 DEF hsx_fuse_create, ReplyNew, ReplyEntry, GetStep
<1>3. ASSUME NEW p \in Ino, NEW o \in Objects,
             hsx_fuse_create_setattr_fails(p, o)
      PROVE  GetStep
  BY <1>3 DEF hsx_fuse_create_setattr_fails, GetStep
<1>4. ASSUME NEW p \in Ino, NEW o \in Objects,
             \/ hsx_fuse_mkdir(p, o)
             \/ hsx_fuse_mknod(p, o)
             \/ hsx_fuse_symlink(p, o)
      PROVE  GetStep
  BY <1>4 DEF hsx_fuse_mkdir, hsx_fuse_mknod, hsx_fuse_symlink, NewEntry,
              ReplyNew, ReplyEntry, GetStep
<1>5. ASSUME NEW p \in Ino, NEW o \in Objects, BadInodeReply(p, o)
      PROVE  QuietStep
  BY <1>5 DEF BadInodeReply, QuietStep
<1>6. ASSUME NEW p \in Ino, NEW t \in Ino, hsx_fuse_link(t, p)
      PROVE  ShowStep
  BY <1>6 DEF hsx_fuse_link, ReplyEntry, hsfs_ilookup, ShowStep
<1>7. ASSUME NEW p \in Ino, NEW es \in EntryLists,
             hsx_fuse_readdir_plus(p, es)
      PROVE  QuietStep
  BY <1>7 DEF hsx_fuse_readdir_plus, QuietStep
<1>8. ASSUME NEW i \in Ino, NEW n \in 1 .. MaxRefs, hsx_fuse_forget(i, n)
      PROVE  QuietStep
  BY <1>8, IputQuiet DEF hsx_fuse_forget, QuietStep
<1> QED
  BY <1>1, <1>2, <1>3, <1>4, <1>5, <1>6, <1>7, <1>8 DEF HandlerStep

LEMMA ReaddirMaps ==
  ASSUME IInv, ReaddirStep
  PROVE  GetStep \/ ShowStep \/ QuietStep
<1> USE DEF cacheVars, ghostVars
<1>1. CASE readdir_plus_entry
  <2>1. Head(rd_todo) \in Entry
    BY SMTT(60), <1>1 DEF IInv, TypeOK, RdTypeOK, readdir_plus_entry
  <2>2. Head(rd_todo).obj \in Objects
    BY <2>1 DEF Entry
  <2> QED
    BY <1>1, <2>2 DEF readdir_plus_entry, GetStep
<1>2. CASE readdir_plus_pack
  <2>1. rd_ctx \in Seq(Ctx) /\ rd_ctx # << >>
    BY <1>2 DEF IInv, TypeOK, RdTypeOK, readdir_plus_pack
  <2>2. Head(rd_ctx) = rd_ctx[1] /\ 1 \in DOMAIN rd_ctx
    BY SMTT(60), <2>1
  <2>3. Head(rd_ctx).ino # BadIno
    BY <1>2 DEF readdir_plus_pack
  <2>4. /\ Head(rd_ctx).ino \in id_table
        /\ fh[Head(rd_ctx).ino] = Head(rd_ctx).obj
    BY <2>2, <2>3 DEF IInv, CtxInv
  <2> QED
    BY <1>2, <2>4 DEF readdir_plus_pack, ShowStep, QuietStep
<1>3. CASE readdir_free_ctx
  BY <1>3, IputQuiet DEF readdir_free_ctx, QuietStep
<1>4. CASE \/ readdir_plus_bad_entry \/ readdir_plus_error
           \/ readdir_plus_listed \/ readdir_plus_bad_pack
           \/ readdir_plus_reply
  BY <1>4 DEF readdir_plus_bad_entry, readdir_plus_error,
              readdir_plus_listed, readdir_plus_bad_pack, readdir_plus_reply,
              QuietStep
<1> QED
  BY <1>1, <1>2, <1>3, <1>4 DEF ReaddirStep

LEMMA NextMaps ==
  ASSUME IInv, [Next]_vars
  PROVE  [NM!Next]_<<Binding, named>>
<1> USE DEF cacheVars, ghostVars
<1>1. GetStep \/ ShowStep \/ QuietStep
  <2>1. CASE hsi_fill_super
    BY <2>1, RefsAssumption DEF hsi_fill_super, GetStep, QuietStep
  <2>2. CASE hsx_fuse_init
    BY <2>2 DEF hsx_fuse_init, IInv, LifeInv, ShowStep
  <2>3. CASE hsx_fuse_unmount
    BY <2>3, IputQuiet DEF hsx_fuse_unmount, QuietStep
  <2>4. CASE OutsideStep
    BY <2>4 DEF OutsideStep, kernel_iget, kernel_force_forget, kernel_evict,
                server_make, server_remove, QuietStep
  <2>5. CASE UNCHANGED vars
    BY <2>5 DEF vars, QuietStep
  <2> QED
    BY <2>1, <2>2, <2>3, <2>4, <2>5, HandlerMaps, ReaddirMaps DEF Next
<1>2. CASE QuietStep
  BY <1>2 DEF QuietStep, Binding
<1> QED
  BY <1>1, <1>2, GetStepAnswers, ShowStepAnswers

(* Every behaviour of the daemon is, seen through its tables, one of        *)
(* NodeMap: a number is bound once, to one file, before it is shown.        *)
THEOREM ImplementsNodeMap == Spec => NodeMapRefined
<1>1. Init => NM!Init
  BY DEF Init, hsfs_init_icache, NM!Init, Binding
<1>2. IInv /\ [Next]_vars => [NM!Next]_<<Binding, named>>
  BY NextMaps
<1> QED
  BY <1>1, <1>2, Invariance, PTL DEF Spec, NodeMapRefined, NM!Spec

-----------------------------------------------------------------------------
(* Inodes live as long as the daemon: what FORGET, the error path of        *)
(* READDIRPLUS and the unmounting give to hsfs_iput() is never freed, and   *)
(* an inode never changes its file.                                         *)
InodesStay ==
    [][ /\ alloc \subseteq alloc' /\ id_table \subseteq id_table'
        /\ \A i \in id_table : fh'[i] = fh[i] ]_vars

LEMMA FhgetStays ==
  ASSUME IInv, NEW o \in Objects, NEW i \in Ino, hsi_nfs_fhget(o, i)
  PROVE  /\ alloc \subseteq alloc' /\ id_table \subseteq id_table'
         /\ \A j \in id_table : fh'[j] = fh[j]
<1>1. alloc \subseteq alloc'
  BY DEF hsi_nfs_fhget, get_new_inode, cacheVars
<1>2. /\ id_table' = id_table \cup {i}
      /\ fh' = [fh EXCEPT ![i] = o]
      /\ i \in id_table => fh[i] = o
  BY FhgetStep DEF IInv
<1>3. fh \in [Ino -> Objects \cup {NoObj}] /\ id_table \subseteq Ino
  BY DEF IInv, TypeOK, CacheTypeOK
<1> QED
  BY <1>1, <1>2, <1>3

(* No handler frees an inode or takes it out of the tables: hsfs_iput()     *)
(* never meets a count of 1.                                                *)
THEOREM InodesAreKept == Spec => InodesStay
<1> DEFINE Stay == /\ alloc \subseteq alloc' /\ id_table \subseteq id_table'
                   /\ \A i \in id_table : fh'[i] = fh[i]
<1>1. IInv /\ [Next]_vars => [Stay]_vars
  <2> SUFFICES ASSUME IInv, Next PROVE Stay
    OBVIOUS
  <2>1. ASSUME NEW i \in Ino, hsfs_iput(i) PROVE Stay
    BY <2>1, IputStep DEF IInv
  <2>2. ASSUME UNCHANGED cacheVars PROVE Stay
    BY <2>2 DEF cacheVars
  <2>3. CASE hsi_fill_super
    BY <2>2, <2>3, FhgetStays, RefsAssumption DEF hsi_fill_super
  <2>4. CASE hsx_fuse_init \/ OutsideStep
    BY <2>2, <2>4 DEF hsx_fuse_init, OutsideStep, kernel_iget,
                      kernel_force_forget, kernel_evict, server_make,
                      server_remove
  <2>5. CASE hsx_fuse_unmount
    BY <2>1, <2>5, RootInIno DEF hsx_fuse_unmount
  <2>6. CASE HandlerStep
    <3>1. ASSUME NEW p \in Ino, NEW o \in Objects,
                 \/ hsx_fuse_lookup(p, o) \/ hsx_fuse_create(p, o)
                 \/ hsx_fuse_create_setattr_fails(p, o)
                 \/ hsx_fuse_mkdir(p, o) \/ hsx_fuse_mknod(p, o)
                 \/ hsx_fuse_symlink(p, o)
          PROVE  Stay
      <4>1. \E i \in Ino : hsi_nfs_fhget(o, i)
        BY <3>1 DEF hsx_fuse_lookup, hsx_fuse_create,
                    hsx_fuse_create_setattr_fails, hsx_fuse_mkdir,
                    hsx_fuse_mknod, hsx_fuse_symlink, NewEntry
      <4> QED
        BY <4>1, FhgetStays
    <3>2. ASSUME NEW p \in Ino, NEW o \in Objects, BadInodeReply(p, o)
          PROVE  Stay
      BY <2>2, <3>2 DEF BadInodeReply
    <3>3. ASSUME NEW p \in Ino, NEW t \in Ino, hsx_fuse_link(t, p)
          PROVE  Stay
      BY <2>2, <3>3 DEF hsx_fuse_link
    <3>4. ASSUME NEW p \in Ino, NEW es \in EntryLists,
                 hsx_fuse_readdir_plus(p, es)
          PROVE  Stay
      BY <2>2, <3>4 DEF hsx_fuse_readdir_plus
    <3>5. ASSUME NEW i \in Ino, NEW n \in 1 .. MaxRefs, hsx_fuse_forget(i, n)
          PROVE  Stay
      <4>1. hsfs_iput(i) \/ UNCHANGED cacheVars
        BY <3>5 DEF hsx_fuse_forget
      <4> QED
        BY <2>1, <2>2, <4>1
    <3> QED
      BY <2>6, <3>1, <3>2, <3>3, <3>4, <3>5 DEF HandlerStep
  <2>7. CASE ReaddirStep
    <3>1. CASE readdir_plus_entry
      <4>1. Head(rd_todo) \in Entry
        BY SMTT(60), <3>1 DEF IInv, TypeOK, RdTypeOK, readdir_plus_entry
      <4>2. Head(rd_todo).obj \in Objects
        BY <4>1 DEF Entry
      <4> QED
        BY <3>1, <4>2, FhgetStays DEF readdir_plus_entry
    <3>2. CASE readdir_free_ctx
      <4>1. CASE UNCHANGED cacheVars
        BY <2>2, <4>1
      <4>2. CASE /\ rd_ctx # << >> /\ Head(rd_ctx).ino # BadIno
                 /\ hsfs_iput(Head(rd_ctx).ino)
        <5>1. Head(rd_ctx) = rd_ctx[1] /\ 1 \in DOMAIN rd_ctx
          BY SMTT(60), <4>2 DEF IInv, TypeOK, RdTypeOK
        <5>2. Head(rd_ctx).ino \in Ino
          BY <4>2, <5>1 DEF IInv, CtxInv, TypeOK, CacheTypeOK
        <5> QED
          BY <2>1, <4>2, <5>2
      <4> QED
        BY <3>2, <4>1, <4>2 DEF readdir_free_ctx
    <3>3. CASE \/ readdir_plus_bad_entry \/ readdir_plus_error
               \/ readdir_plus_listed \/ readdir_plus_pack
               \/ readdir_plus_bad_pack \/ readdir_plus_reply
      BY <2>2, <3>3 DEF readdir_plus_bad_entry, readdir_plus_error,
           readdir_plus_listed, readdir_plus_pack, readdir_plus_bad_pack,
           readdir_plus_reply
    <3> QED
      BY <2>7, <3>1, <3>2, <3>3 DEF ReaddirStep
  <2> QED
    BY <2>3, <2>4, <2>5, <2>6, <2>7 DEF Next
<1> QED
  BY <1>1, Invariance, PTL DEF Spec, InodesStay

-----------------------------------------------------------------------------
(* The steps a READDIRPLUS may still take: two for an entry that is not     *)
(* cached yet (cache it, then pack or free it), one for a cached one.       *)
StepsLeft ==
    CASE rd_phase = "cache" -> 2 * Len(rd_todo) + Len(rd_ctx) + 2
      [] rd_phase \in {"pack", "free"} -> Len(rd_ctx) + 1
      [] rd_phase = "idle" -> 0

(* The bound behind ReaddirPlusEnds: every step of hsx_fuse_readdir_plus()  *)
(* brings it nearer to its end, on the error paths too, or ends the daemon; *)
(* nobody puts it back; and an answer of MaxEntries entries takes at most   *)
(* 2 * MaxEntries + 2 steps.                                                *)
ReaddirPlusIsBounded ==
    [][ /\ ReaddirStep => StepsLeft' < StepsLeft \/ daemon' = "crashed"
        /\ rd_phase # "idle" => StepsLeft' <= StepsLeft
        /\ StepsLeft' <= 2 * MaxEntries + 2 ]_vars

LEMMA TailIsShorter ==
  ASSUME NEW S, NEW s \in Seq(S), s # << >>
  PROVE  Len(Tail(s)) = Len(s) - 1 /\ Len(s) \in Nat /\ Len(s) >= 1
  BY SMTT(60)

LEMMA ReaddirAdvances ==
  ASSUME IInv, ReaddirStep
  PROVE  StepsLeft' < StepsLeft \/ (daemon' = "crashed" /\ UNCHANGED rdVars)
<1>1. /\ rd_todo \in Seq(Entry) /\ rd_ctx \in Seq(Ctx)
      /\ Len(rd_todo) \in Nat /\ Len(rd_ctx) \in Nat
  BY SMTT(60) DEF IInv, TypeOK, RdTypeOK
<1>2. CASE readdir_plus_entry \/ readdir_plus_bad_entry
  <2>1. /\ rd_phase = "cache" /\ rd_phase' = "cache"
        /\ rd_todo # << >> /\ rd_todo' = Tail(rd_todo)
        /\ \E c : rd_ctx' = Append(rd_ctx, c)
    BY <1>2 DEF readdir_plus_entry, readdir_plus_bad_entry
  <2>2. Len(rd_todo') = Len(rd_todo) - 1
    BY <1>1, <2>1, TailIsShorter
  <2>3. Len(rd_ctx') = Len(rd_ctx) + 1
    BY SMTT(60), <1>1, <2>1
  <2> QED
    BY SMTT(60), <1>1, <2>1, <2>2, <2>3 DEF StepsLeft
<1>3. CASE readdir_plus_error
  BY SMTT(60), <1>1, <1>3 DEF readdir_plus_error, StepsLeft
<1>4. CASE readdir_plus_listed
  BY SMTT(60), <1>1, <1>4 DEF readdir_plus_listed, StepsLeft
<1>5. CASE readdir_free_ctx
  <2>1. \/ /\ rd_phase = "free" /\ rd_phase' = "free"
           /\ rd_ctx # << >> /\ rd_ctx' = Tail(rd_ctx)
        \/ rd_phase = "free" /\ rd_phase' = "idle"
    BY <1>5 DEF readdir_free_ctx
  <2>2. rd_ctx # << >> => Len(Tail(rd_ctx)) = Len(rd_ctx) - 1
    BY <1>1, TailIsShorter
  <2> QED
    BY SMTT(60), <1>1, <2>1, <2>2 DEF StepsLeft
<1>6. CASE readdir_plus_pack
  <2>1. /\ rd_phase = "pack" /\ rd_phase' = "pack"
        /\ rd_ctx # << >> /\ rd_ctx' = Tail(rd_ctx)
    BY <1>6 DEF readdir_plus_pack
  <2>2. Len(Tail(rd_ctx)) = Len(rd_ctx) - 1
    BY <1>1, <2>1, TailIsShorter
  <2> QED
    BY SMTT(60), <1>1, <2>1, <2>2 DEF StepsLeft
<1>7. CASE readdir_plus_bad_pack
  BY <1>7 DEF readdir_plus_bad_pack, UseErrPtr
<1>8. CASE readdir_plus_reply
  BY SMTT(60), <1>1, <1>8 DEF readdir_plus_reply, StepsLeft
<1> QED
  BY <1>2, <1>3, <1>4, <1>5, <1>6, <1>7, <1>8 DEF ReaddirStep

(* A listing begins.                                                        *)
ListingBegins ==
    /\ rd_phase = "idle" /\ rd_phase' = "cache" /\ rd_ctx' = << >>
    /\ rd_todo' \in EntryLists

LEMMA OthersLeaveListing ==
  ASSUME [Next]_vars
  PROVE  ReaddirStep \/ ListingBegins \/ UNCHANGED rdVars
<1>1. ASSUME NEW p \in Ino, NEW es \in EntryLists,
             hsx_fuse_readdir_plus(p, es)
      PROVE  ListingBegins \/ UNCHANGED rdVars
  BY <1>1 DEF hsx_fuse_readdir_plus, Idle, ListingBegins
<1>2. CASE HandlerStep
  BY <1>1, <1>2 DEF HandlerStep, hsx_fuse_lookup, hsx_fuse_create,
       hsx_fuse_create_setattr_fails, hsx_fuse_mkdir, hsx_fuse_mknod,
       hsx_fuse_symlink, NewEntry, BadInodeReply, hsx_fuse_link,
       hsx_fuse_forget
<1>3. CASE OutsideStep
  BY <1>3 DEF OutsideStep, kernel_iget, kernel_force_forget, kernel_evict,
              server_make, server_remove
<1>4. CASE hsi_fill_super \/ hsx_fuse_init \/ hsx_fuse_unmount
  BY <1>4 DEF hsi_fill_super, hsx_fuse_init, hsx_fuse_unmount
<1> QED
  BY <1>2, <1>3, <1>4 DEF Next, vars, rdVars

(* A listing takes at most 2 * MaxEntries + 2 steps, for any answer.        *)
THEOREM BoundedReaddirPlus == Spec => ReaddirPlusIsBounded
<1> DEFINE Advance ==
             /\ ReaddirStep => StepsLeft' < StepsLeft \/ daemon' = "crashed"
             /\ rd_phase # "idle" => StepsLeft' <= StepsLeft
           Bound == StepsLeft <= 2 * MaxEntries + 2
           Bounded ==
             /\ ReaddirStep => StepsLeft' < StepsLeft \/ daemon' = "crashed"
             /\ rd_phase # "idle" => StepsLeft' <= StepsLeft
             /\ StepsLeft' <= 2 * MaxEntries + 2
<1>1. Init => Bound
  BY SMTT(60), RefsAssumption DEF Init, StepsLeft
<1>2. IInv /\ IInv' /\ [Next]_vars => Advance /\ (Bound => Bound')
  <2> SUFFICES ASSUME IInv, IInv', [Next]_vars
               PROVE  Advance /\ (Bound => Bound')
    OBVIOUS
  <2>1. StepsLeft \in Nat /\ StepsLeft' \in Nat /\ MaxEntries \in Nat
    BY SMTT(60), RefsAssumption DEF IInv, TypeOK, RdTypeOK, StepsLeft
  <2>2. ASSUME UNCHANGED rdVars PROVE StepsLeft' = StepsLeft
    BY SMTT(60), <2>2 DEF rdVars, StepsLeft
  <2>3. CASE ReaddirStep
    BY SMTT(60), <2>1, <2>2, <2>3, ReaddirAdvances
  <2>4. CASE ~ ReaddirStep /\ UNCHANGED rdVars
    BY SMTT(60), <2>1, <2>2, <2>4
  <2>5. CASE ~ ReaddirStep /\ ListingBegins
    <3>1. PICK n \in 0 .. MaxEntries : rd_todo' \in [1 .. n -> Entry]
      BY <2>5 DEF ListingBegins, EntryLists
    <3>2. n \in Nat /\ n <= MaxEntries
      BY SMTT(60), <2>1
    <3>3. Len(rd_todo') = n
      BY SMTT(60), <3>1, <3>2
    <3>4. StepsLeft' = 2 * n + 2
      BY SMTT(60), <2>5, <3>2, <3>3 DEF ListingBegins, StepsLeft
    <3>5. StepsLeft' <= 2 * MaxEntries + 2
      BY SMTT(60), <2>1, <3>2, <3>4
    <3> QED
      BY <2>5, <3>5 DEF ListingBegins
  <2> QED
    BY <2>3, <2>4, <2>5, OthersLeaveListing
<1>3. Advance /\ Bound' => [Bounded]_vars
  BY DEF Advance, Bound
<1> HIDE DEF Advance, Bound
<1> QED
  BY <1>1, <1>2, <1>3, Invariance, PTL DEF Spec, ReaddirPlusIsBounded

-----------------------------------------------------------------------------
(* The numbers of inodes.                                                   *)

LEMMA LeastNumber ==
  ASSUME NEW S, S \subseteq Nat, S # {}
  PROVE  \E m \in S : \A x \in S : m <= x
<1>1. PICK m \in S : \A x \in S : ~ (<<x, m>> \in OpToRel(<, Nat))
  BY NatLessThanWellFounded, WFMin
<1>2. \A x \in S : ~ (x < m)
  BY <1>1 DEF OpToRel
<1> QED
  BY SMTT(60), <1>2

(* The loop of __inode_add_to_lists() finds a number as long as one besides *)
(* the root's is free, and only one, also when the 64-bit counter has       *)
(* wrapped; it never gives the root's number again.                         *)
THEOREM NumberIsFound ==
  ASSUME CacheTypeOK, NEW free \in 2 .. IdMax, free \notin id_table
  PROVE  \E k \in Ino :
            /\ NextId(k)
            /\ k = RootIno => curr_id = 0
            /\ \A j \in Ino : NextId(j) => j = k
<1> DEFINE Above == {k \in Ino : curr_id < k /\ k \notin id_table}
           Free  == {k \in Ino : 2 <= k /\ k \notin id_table}
<1>1. IdMax \in Nat /\ curr_id \in 0 .. IdMax
  BY CacheAssumption DEF CacheTypeOK
<1>2. Above \subseteq Nat /\ Free \subseteq Nat /\ free \in Free
  BY SMTT(60), <1>1 DEF Ino
<1>3. \E k \in Ino : NextId(k) /\ (k = RootIno => curr_id = 0)
  <2>1. CASE Above # {}
    <3>1. PICK k \in Above : \A x \in Above : k <= x
      BY <1>2, <2>1, LeastNumber
    <3>2. k \in Ino /\ k \notin id_table /\ curr_id < k
      BY <3>1
    <3>3. ASSUME NEW j \in (curr_id + 1) .. (k - 1) PROVE j \in id_table
      BY SMTT(60), <1>1, <3>1, <3>2 DEF Ino
    <3>4. NextId(k)
      BY <3>2, <3>3 DEF NextId
    <3>5. k = RootIno => curr_id = 0
      BY SMTT(60), <1>1, <3>2 DEF RootIno
    <3> QED
      BY <3>2, <3>4, <3>5
  <2>2. CASE Above = {}
    <3>1. PICK k \in Free : \A x \in Free : k <= x
      BY <1>2, LeastNumber
    <3>2. k \in Ino /\ k \notin id_table /\ 2 <= k
      BY <3>1
    <3>3. ASSUME NEW j \in 2 .. (k - 1) PROVE j \in id_table
      BY SMTT(60), <1>1, <3>1, <3>2 DEF Ino
    <3>4. k <= curr_id
      BY SMTT(60), <1>1, <2>2, <3>2 DEF Ino
    <3>5. ASSUME NEW j \in (curr_id + 1) .. IdMax PROVE j \in id_table
      BY SMTT(60), <1>1, <2>2 DEF Ino
    <3>6. NextId(k)
      BY <3>2, <3>3, <3>4, <3>5 DEF NextId
    <3>7. k # RootIno
      BY SMTT(60), <3>2 DEF RootIno, Ino
    <3> QED
      BY <3>2, <3>6, <3>7
  <2> QED
    BY <2>1, <2>2
<1>4. ASSUME NEW j \in Ino, NEW k \in Ino, NextId(j), NextId(k) PROVE j = k
  BY SMTT(60), <1>1, <1>4 DEF Ino, NextId
<1> QED
  BY <1>3, <1>4
=============================================================================
