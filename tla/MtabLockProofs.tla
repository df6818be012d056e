--------------------------- MODULE MtabLockProofs ---------------------------
(***************************************************************************)
(* Proofs of the safety properties of MtabLock, for any number of mount     *)
(* processes, any directories and any limit on tries.                       *)
(***************************************************************************)
EXTENDS MtabLock, SequenceTheorems, WellFoundedInduction, NaturalsInduction, TLAPS

USE ZenonT(60)

(* we_created_lockfile tells where the process is.                          *)
FlagInv ==
    \A p \in Proc : we_created_lockfile[p] <=> pc[p] \in Working \cup {"clear"}

(* A process from its link() to its unlink() has the lock file, unless      *)
(* another was interrupted in unlock_mtab().                                *)
OwnInv ==
    "unlinking" \notin faults =>
        \A p \in Proc :
            pc[p] \in Working \cup {"linked"} => lockfile = <<p, job[p]>>

(* mtab.tmp is the change of its writer applied to mtab.                    *)
TempInv ==
    faults \cap {"unlinking", "misread"} = {} =>
        \A p \in Proc :
            pc[p] = "rename" =>
                /\ job[p] # "add"
                /\ temp = Updated(mtab, dir[p], job[p])

IInv == TypeOK /\ FlagInv /\ OwnInv /\ LockFileHasOwner /\ TempInv

-----------------------------------------------------------------------------
(* A set of positions in a sequence has a greatest one.                     *)
LEMMA LastPosition ==
    ASSUME NEW n \in Nat, NEW S, S \subseteq 1 .. n, S # {}
    PROVE  \E i \in S : \A j \in S : j <= i
<1> DEFINE T == {n - i : i \in S}
<1>1. T \subseteq Nat /\ T # {}
  <2>1. ASSUME NEW x \in T PROVE x \in Nat
    <3>1. PICK i \in S : x = n - i
        BY <2>1
    <3>2. i \in 1 .. n
        OBVIOUS
    <3>3. QED
        BY SMTT(60), <3>1, <3>2
  <2>2. PICK i \in S : TRUE
    OBVIOUS
  <2>3. n - i \in T
    OBVIOUS
  <2>4. QED
    BY <2>1, <2>3
<1>2. IsWellFoundedOn(OpToRel(<, Nat), Nat)
    BY NatLessThanWellFounded
<1>3. PICK x \in T : \A y \in T : ~(<<y, x>> \in OpToRel(<, Nat))
    BY <1>1, <1>2, WFMin
<1>4. PICK i \in S : x = n - i
    BY <1>3
<1>5. ASSUME NEW j \in S PROVE j <= i
  <2>1. n - j \in T /\ n - j \in Nat /\ x \in Nat
    BY <1>1, <1>4, <1>5
  <2>2. ~(n - j < x)
    BY <2>1, <1>3 DEF OpToRel
  <2>3. QED
    BY SMTT(60), <2>2, <1>4, <1>5
<1>6. QED
    BY <1>5

(* What update_mtab() writes is a sequence of entries.                      *)
LEMMA UpdatedType ==
    ASSUME NEW m \in Seq(Entry), NEW d \in Dir, NEW what
    PROVE  Updated(m, d, what) \in Seq(Entry)
<1> DEFINE found == {i \in DOMAIN m : m[i].dir = d}
           last  == CHOOSE i \in found : \A j \in found : j <= i
           new   == [dir |-> d, opts |-> "remount"]
<1>1. new \in Entry
    BY DEF Entry
<1>2. CASE found = {}
    BY SMTT(60), <1>1, <1>2 DEF Updated
<1>3. CASE found # {}
  <2>1. found \subseteq 1 .. Len(m) /\ Len(m) \in Nat
    BY SMTT(60)
  <2>2. \E i \in found : \A j \in found : j <= i
    BY <1>3, <2>1, LastPosition
  <2>3. last \in 1 .. Len(m)
    BY <2>1, <2>2
  <2> HIDE DEF last
  <2>4. SubSeq(m, 1, last - 1) \in Seq(Entry)
    BY SMTT(60), <2>3
  <2>5. SubSeq(m, last + 1, Len(m)) \in Seq(Entry)
    BY SMTT(60), <2>3
  <2>6. SubSeq(m, 1, last - 1) \o SubSeq(m, last + 1, Len(m)) \in Seq(Entry)
    BY SMTT(60), <2>4, <2>5
  <2>7. [m EXCEPT ![last] = new] \in Seq(Entry)
    BY SMTT(60), <2>3, <1>1
  <2> USE DEF last
  <2>8. QED
    BY <1>3, <2>6, <2>7 DEF Updated
<1>4. QED
    BY <1>2, <1>3

LEMMA InitEstablishes == Init => IInv
<1> SUFFICES ASSUME Init PROVE IInv
    OBVIOUS
<1> USE MtabAssumption DEF Init
<1>1. TypeOK
  <2>1. mtab \in Seq(Entry)
    <3>1. ASSUME NEW e \in Entry PROVE <<e>> \in Seq(Entry)
        BY SMTT(60)
    <3>2. << >> \in Seq(Entry)
        BY SMTT(60)
    <3>3. QED
        BY <3>1, <3>2
  <2>2. job \in [Proc -> Job]
    BY DEF Job
  <2>3. QED
    BY SMTT(60), <2>1, <2>2 DEF TypeOK, Place
<1>2. FlagInv /\ OwnInv /\ LockFileHasOwner /\ TempInv
    BY DEF FlagInv, OwnInv, LockFileHasOwner, TempInv, Working
<1>3. QED
    BY <1>1, <1>2 DEF IInv

-----------------------------------------------------------------------------
(* How a step of one process keeps the parts of the invariant that are      *)
(* about the others.                                                        *)
OnlyMoves(p) ==
    \A q \in Proc : q # p => pc'[q] = pc[q] /\ job'[q] = job[q]

LEMMA OwnKept ==
    ASSUME OwnInv, NEW p \in Proc, OnlyMoves(p), faults \subseteq faults',
           lockfile' = lockfile,
           pc'[p] \in Working \cup {"linked"} =>
               pc[p] \in Working \cup {"linked"} /\ job'[p] = job[p]
    PROVE  OwnInv'
BY DEF OwnInv, OnlyMoves

LEMMA OwnerKept ==
    ASSUME TypeOK, LockFileHasOwner, NEW p \in Proc, OnlyMoves(p),
           faults \subseteq faults', lockfile' = lockfile,
           pc[p] \in Working \cup {"linked"} =>
               pc'[p] \in Working \cup {"linked"} \/ "linking" \in faults'
    PROVE  LockFileHasOwner'
<1> SUFFICES ASSUME lockfile # None, "linking" \notin faults'
             PROVE  pc'[lockfile[1]] \in Working \cup {"linked"}
    BY DEF LockFileHasOwner
<1>1. lockfile[1] \in Proc
    BY DEF TypeOK, Inode
<1>2. pc[lockfile[1]] \in Working \cup {"linked"}
    BY DEF LockFileHasOwner
<1>3. CASE lockfile[1] = p
    BY <1>2, <1>3
<1>4. CASE lockfile[1] # p
    BY <1>1, <1>2, <1>4 DEF OnlyMoves
<1>5. QED
    BY <1>3, <1>4

LEMMA TempKept ==
    ASSUME TempInv, NEW p \in Proc, OnlyMoves(p), faults \subseteq faults',
           UNCHANGED fileVars, pc'[p] # "rename"
    PROVE  TempInv'
BY DEF TempInv, OnlyMoves, fileVars

(* Two processes at work on mtab are one.                                   *)
LEMMA OneWorks ==
    ASSUME OwnInv, "unlinking" \notin faults,
           NEW p \in Proc, NEW q \in Proc,
           pc[p] \in Working, pc[q] \in Working
    PROVE  p = q
<1>1. lockfile = <<p, job[p]>> /\ lockfile = <<q, job[q]>>
    BY DEF OwnInv
<1>2. QED
    BY SMTT(60), <1>1

(* A step of one process that leaves mtab and the lock file alone.          *)
LEMMA PlainStep ==
    ASSUME IInv, NEW p \in Proc, TypeOK', FlagInv', OnlyMoves(p),
           faults' = faults, lockfile' = lockfile, UNCHANGED fileVars,
           job'[p] = job[p] \/ pc'[p] = "link",
           pc'[p] # "rename",
           pc[p] \in Working \cup {"linked"} <=> pc'[p] \in Working \cup {"linked"}
    PROVE  IInv'
<1>1. OwnInv'
    BY OwnKept DEF IInv, Working
<1>2. LockFileHasOwner'
    BY OwnerKept DEF IInv
<1>3. TempInv'
    BY TempKept DEF IInv
<1>4. QED
    BY <1>1, <1>2, <1>3 DEF IInv

-----------------------------------------------------------------------------
(* The steps of lock_mtab() but for link(), and the last of unlock_mtab().  *)
LEMMA LockKeeps ==
    ASSUME IInv, NEW p \in Proc,
           \/ lock_mtab(p) \/ claim(p) \/ open(p) \/ wait(p)
           \/ setlkw_timeout(p) \/ unlock_clear(p)
    PROVE  IInv'
<1> USE MtabAssumption DEF lockVars, fileVars
<1>0. TypeOK /\ FlagInv
    BY DEF IInv
<1>1. pc \in [Proc -> Place] /\ job \in [Proc -> Job] /\ TypeOK /\ FlagInv
    BY <1>0 DEF TypeOK
<1>2. CASE lock_mtab(p)
  <2> USE <1>2 DEF lock_mtab
  <2>1. TypeOK'
    BY SMTT(60), <1>1 DEF TypeOK, Job, Working, Place
  <2>2. FlagInv' /\ OnlyMoves(p) /\ pc'[p] = "link"
    BY <1>1 DEF FlagInv, Working, OnlyMoves
  <2>3. QED
    BY <1>1, <2>1, <2>2, PlainStep DEF Working
<1>3. CASE claim(p)
  <2> USE <1>3 DEF claim
  <2>1. TypeOK'
    BY SMTT(60), <1>1 DEF TypeOK, Working, Place
  <2>2. FlagInv' /\ OnlyMoves(p) /\ pc'[p] = "work"
    BY <1>1 DEF FlagInv, Working, OnlyMoves, TypeOK
  <2>3. QED
    BY <1>1, <2>1, <2>2, PlainStep DEF Working
<1>4. CASE open(p)
  <2> USE <1>4 DEF open
  <2>1. TypeOK'
    <3>1. gone' \in [Proc -> 0 .. MaxTries]
      <4>1. gone[p] \in 0 .. MaxTries
        BY <1>1 DEF TypeOK
      <4>2. gone[p] < MaxTries => gone[p] + 1 \in 0 .. MaxTries
        BY SMTT(60), <4>1
      <4>3. QED
        BY <4>2, <1>1 DEF TypeOK
    <3>2. lockfile_fd' \in [Proc -> Inode \cup {None}]
        BY <1>1 DEF TypeOK
    <3>3. QED
        BY <1>1, <3>1, <3>2 DEF TypeOK, Place
  <2>2. FlagInv' /\ OnlyMoves(p) /\ pc'[p] \in {"wait", "link", "dead"}
    BY <1>1 DEF FlagInv, Working, OnlyMoves
  <2>3. QED
    BY <1>1, <2>1, <2>2, PlainStep DEF Working
<1>5. CASE wait(p)
  <2> USE <1>5 DEF wait
  <2>1. TypeOK'
    <3>1. waits' \in [Proc -> 0 .. MaxTries]
      <4>1. waits[p] \in 0 .. MaxTries
        BY <1>1 DEF TypeOK
      <4>2. waits[p] < MaxTries => waits[p] + 1 \in 0 .. MaxTries
        BY SMTT(60), <4>1
      <4>3. QED
        BY <4>2, <1>1 DEF TypeOK
    <3>2. QED
        BY <1>1, <3>1 DEF TypeOK, Place
  <2>2. FlagInv' /\ OnlyMoves(p) /\ pc'[p] \in {"link", "dead"}
    BY <1>1 DEF FlagInv, Working, OnlyMoves
  <2>3. QED
    BY <1>1, <2>1, <2>2, PlainStep DEF Working
<1>6. CASE setlkw_timeout(p)
  <2> USE <1>6 DEF setlkw_timeout
  <2>1. TypeOK'
    BY <1>1 DEF TypeOK, Working, Place
  <2>2. FlagInv' /\ OnlyMoves(p) /\ pc'[p] = "dead"
    BY <1>1 DEF FlagInv, Working, OnlyMoves
  <2>3. QED
    BY <1>1, <2>1, <2>2, PlainStep DEF Working
<1>7. CASE unlock_clear(p)
  <2> USE <1>7 DEF unlock_clear
  <2>1. TypeOK'
    BY <1>1 DEF TypeOK, Working, Place
  <2>2. FlagInv' /\ OnlyMoves(p) /\ pc'[p] \in {"done", "mounted"}
    BY <1>1 DEF FlagInv, Working, OnlyMoves, TypeOK
  <2>3. QED
    BY <1>1, <2>1, <2>2, PlainStep DEF Working
<1>8. QED
    BY <1>2, <1>3, <1>4, <1>5, <1>6, <1>7

(* link(): nobody else has the lock file, for it did not exist.             *)
LEMMA LinkKeeps ==
    ASSUME IInv, NEW p \in Proc, link(p)
    PROVE  IInv'
<1> USE MtabAssumption DEF link, fileVars
<1>0. TypeOK /\ FlagInv /\ OwnInv /\ LockFileHasOwner /\ TempInv
    BY DEF IInv
<1>1. pc \in [Proc -> Place] /\ job \in [Proc -> Job]
    BY <1>0 DEF TypeOK
<1>2. TypeOK'
  <2>1. <<p, job[p]>> \in Inode
    BY <1>1 DEF Inode
  <2>2. lockfile' \in Inode \cup {None}
    BY <1>0, <2>1 DEF TypeOK
  <2>3. QED
    BY <1>0, <2>2 DEF TypeOK, Place
<1>3. OnlyMoves(p) /\ pc'[p] \in {"linked", "open"} /\ job' = job
    BY <1>1 DEF OnlyMoves
<1>4. FlagInv'
    BY <1>0, <1>1 DEF FlagInv, Working
<1>5. CASE lockfile # None
    BY <1>1, <1>2, <1>3, <1>4, <1>5, PlainStep DEF Working
<1>6. CASE lockfile = None
  <2>1. lockfile' = <<p, job[p]>> /\ pc'[p] = "linked"
    BY <1>1, <1>6
  <2>2. None \notin Inode
    BY DEF Inode, Job
  <2>3. OwnInv'
    <3>1. ASSUME NEW q \in Proc, q # p, "unlinking" \notin faults,
                 pc'[q] \in Working \cup {"linked"}
          PROVE  FALSE
      <4>1. lockfile = <<q, job[q]>>
        BY <1>0, <1>3, <3>1 DEF OwnInv, OnlyMoves
      <4>2. <<q, job[q]>> \in Inode
        BY <1>1 DEF Inode
      <4>3. QED
        BY <4>1, <4>2, <1>6, <2>2
    <3>2. QED
        BY <1>3, <2>1, <3>1 DEF OwnInv
  <2>4. LockFileHasOwner'
    BY <2>1 DEF LockFileHasOwner
  <2>5. TempInv'
    BY <1>0, <1>3, <2>1, TempKept
  <2>6. QED
    BY <1>2, <1>4, <2>3, <2>4, <2>5 DEF IInv
<1>7. QED
    BY <1>5, <1>6

(* The process that works on mtab is alone, so that no other's mtab.tmp is  *)
(* out of date.                                                             *)
LEMMA WorkKeeps ==
    ASSUME IInv, NEW p \in Proc, addmntent(p) \/ write_temp(p) \/ rename(p)
    PROVE  IInv'
<1> USE MtabAssumption DEF lockVars
<1>0. TypeOK /\ FlagInv /\ OwnInv /\ LockFileHasOwner /\ TempInv
    BY DEF IInv
<1>1. pc \in [Proc -> Place] /\ job \in [Proc -> Job] /\ dir[p] \in Dir
    BY <1>0 DEF TypeOK
<1>2. /\ OnlyMoves(p) /\ job' = job /\ lockfile' = lockfile
      /\ we_created_lockfile' = we_created_lockfile
      /\ pc[p] \in {"work", "rename"} /\ pc'[p] \in {"rename", "unlink"}
      /\ faults \subseteq faults' /\ faults' \subseteq faults \cup {"misread"}
    BY <1>1 DEF addmntent, write_temp, rename, OnlyMoves
<1>3. mtab' \in Seq(Entry) /\ temp' \in Seq(Entry) \cup {None}
  <2>1. CASE addmntent(p)
    <3>1. [dir |-> dir[p], opts |-> "mount"] \in Entry
        BY <1>1 DEF Entry
    <3>2. Append(mtab, [dir |-> dir[p], opts |-> "mount"]) \in Seq(Entry)
        BY SMTT(60), <1>0, <3>1 DEF TypeOK
    <3>3. QED
        BY <1>0, <2>1, <3>2 DEF TypeOK, addmntent
  <2>2. CASE write_temp(p)
    <3>1. Updated(mtab, dir[p], job[p]) \in Seq(Entry)
        BY <1>0, <1>1, UpdatedType DEF TypeOK
    <3>2. << >> \in Seq(Entry)
        BY SMTT(60)
    <3>3. Updated(<< >>, dir[p], job[p]) \in Seq(Entry)
        BY <1>1, <3>2, UpdatedType
    <3>4. QED
        BY <1>0, <2>2, <3>1, <3>3 DEF TypeOK, write_temp, read_mntentchn
  <2>3. CASE rename(p)
    BY <1>0, <2>3 DEF TypeOK, rename, fileVars
  <2>4. QED
    BY <2>1, <2>2, <2>3
<1>4. TypeOK'
  <2>1. /\ pc' = [pc EXCEPT ![p] = "rename"] \/ pc' = [pc EXCEPT ![p] = "unlink"]
        /\ UNCHANGED <<job, lockVars, gone, waits>>
    BY DEF addmntent, write_temp, rename
  <2>2. pc' \in [Proc -> Place]
    BY <1>1, <2>1 DEF Place, Working
  <2>3. faults' \subseteq Fault
    BY <1>0, <1>2 DEF TypeOK, Fault
  <2>4. QED
    BY <1>0, <1>3, <2>1, <2>2, <2>3 DEF TypeOK
<1>5. FlagInv'
    BY <1>0, <1>2 DEF FlagInv, OnlyMoves, Working
<1>6. OwnInv'
    BY <1>0, <1>2, OwnKept DEF Working
<1>7. LockFileHasOwner'
    BY <1>0, <1>2, OwnerKept DEF Working
<1>8. TempInv'
  <2> SUFFICES ASSUME NEW q \in Proc, pc'[q] = "rename",
                      faults' \cap {"unlinking", "misread"} = {}
               PROVE  job'[q] # "add" /\ temp' = Updated(mtab', dir[q], job'[q])
    BY DEF TempInv
  <2>1. "unlinking" \notin faults /\ faults \cap {"unlinking", "misread"} = {}
    BY <1>2
  <2>2. q = p
    BY SMTT(60), <1>0, <1>2, <2>1, OneWorks DEF OnlyMoves, Working
  <2>3. write_temp(p)
    BY <1>1, <2>2 DEF addmntent, rename
  <2>4. temp' = Updated(mtab, dir[p], job[p]) /\ mtab' = mtab /\ job[p] # "add"
    BY <1>1, <2>2, <2>3 DEF write_temp, read_mntentchn
  <2>5. QED
    BY <1>2, <2>2, <2>4
<1>9. QED
    BY <1>4, <1>5, <1>6, <1>7, <1>8 DEF IInv

(* unlock_mtab() removes its own lock file, for nobody else has one.        *)
LEMMA UnlockKeeps ==
    ASSUME IInv, NEW p \in Proc, unlock_mtab(p)
    PROVE  IInv'
<1> USE MtabAssumption DEF unlock_mtab
<1>0. TypeOK /\ FlagInv /\ OwnInv /\ LockFileHasOwner /\ TempInv
    BY DEF IInv
<1>1. pc \in [Proc -> Place] /\ job \in [Proc -> Job]
    BY <1>0 DEF TypeOK
<1>2. OnlyMoves(p) /\ pc[p] = "unlink" /\ pc'[p] = "clear"
    BY <1>1 DEF OnlyMoves
<1>3. TypeOK'
    BY <1>0 DEF TypeOK, Place, fileVars
<1>4. FlagInv'
    BY <1>0, <1>2 DEF FlagInv, OnlyMoves, Working
<1>5. OwnInv'
  <2>1. ASSUME NEW q \in Proc, q # p, "unlinking" \notin faults,
               pc[q] \in Working \cup {"linked"}
        PROVE  FALSE
    <3>1. lockfile = <<q, job[q]>> /\ lockfile = <<p, job[p]>>
        BY <1>0, <1>2, <2>1 DEF OwnInv, Working
    <3>2. QED
        BY SMTT(60), <2>1, <3>1
  <2>2. QED
    BY <1>2, <2>1 DEF OwnInv, OnlyMoves, Working
<1>6. LockFileHasOwner'
    BY DEF LockFileHasOwner
<1>7. TempInv'
    BY <1>0, <1>2, TempKept
<1>8. QED
    BY <1>3, <1>4, <1>5, <1>6, <1>7 DEF IInv

(* die() removes the lock file of a process at work; where the flag does    *)
(* not tell whether there is one, the fault is noted.                       *)
LEMMA DieKeeps ==
    ASSUME IInv, NEW p \in Proc, die(p)
    PROVE  IInv'
<1> USE MtabAssumption DEF die
<1>0. TypeOK /\ FlagInv /\ OwnInv /\ LockFileHasOwner /\ TempInv
    BY DEF IInv
<1>1. pc \in [Proc -> Place] /\ job \in [Proc -> Job]
    BY <1>0 DEF TypeOK
<1>2. OnlyMoves(p) /\ pc'[p] = "dead" /\ faults \subseteq faults'
    BY <1>1 DEF OnlyMoves
<1>3. TypeOK'
  <2>1. faults' \subseteq Fault
    BY <1>0 DEF TypeOK, Fault
  <2>2. QED
    BY <1>0, <2>1 DEF TypeOK, Place, fileVars
<1>4. FlagInv'
    BY <1>0, <1>2 DEF FlagInv, OnlyMoves, Working, TypeOK
<1>5. TempInv'
    BY <1>0, <1>2, TempKept
<1>6. CASE we_created_lockfile[p]
  <2>1. lockfile' = None /\ pc[p] \in Working \cup {"clear"}
    BY <1>0, <1>6 DEF FlagInv
  <2>2. LockFileHasOwner'
    BY <2>1 DEF LockFileHasOwner
  <2>3. ASSUME NEW q \in Proc, q # p, "unlinking" \notin faults',
               pc[q] \in Working \cup {"linked"}
        PROVE  FALSE
    <3>1. pc[p] \in Working /\ "unlinking" \notin faults
        BY <2>1, <2>3
    <3>2. lockfile = <<q, job[q]>> /\ lockfile = <<p, job[p]>>
        BY <1>0, <2>3, <3>1 DEF OwnInv
    <3>3. QED
        BY SMTT(60), <2>3, <3>2
  <2>4. OwnInv'
    BY <1>2, <2>3 DEF OwnInv, OnlyMoves, Working
  <2>5. QED
    BY <1>3, <1>4, <1>5, <2>2, <2>4 DEF IInv
<1>7. CASE ~we_created_lockfile[p]
  <2>1. lockfile' = lockfile /\ pc[p] \notin Working
    BY <1>0, <1>7 DEF FlagInv
  <2>2. OwnInv'
    BY <1>0, <1>2, <2>1, OwnKept DEF Working
  <2>3. pc[p] = "linked" => "linking" \in faults'
    OBVIOUS
  <2>4. LockFileHasOwner'
    BY <1>0, <1>2, <2>1, <2>3, OwnerKept
  <2>5. QED
    BY <1>3, <1>4, <1>5, <2>2, <2>4 DEF IInv
<1>8. QED
    BY <1>6, <1>7

LEMMA NextKeeps ==
    ASSUME IInv, [Next]_vars
    PROVE  IInv'
<1>1. ASSUME NEW p \in Proc, lock_mtab(p) \/ Step(p) \/ die(p)
      PROVE  IInv'
    BY <1>1, LockKeeps, LinkKeeps, WorkKeeps, UnlockKeeps, DieKeeps DEF Step
<1>2. CASE UNCHANGED vars
  <2> USE <1>2 DEF vars, lockVars, fileVars
  <2>1. TypeOK'
    BY DEF IInv, TypeOK
  <2>2. FlagInv' /\ OwnInv' /\ LockFileHasOwner' /\ TempInv'
    BY DEF IInv, FlagInv, OwnInv, LockFileHasOwner, TempInv
  <2>3. QED
    BY <2>1, <2>2 DEF IInv
<1>3. QED
    BY <1>1, <1>2 DEF Next

-----------------------------------------------------------------------------
(* The inductive invariant holds in every reachable state.                  *)
THEOREM Invariance == Spec => []IInv
<1>1. Init => IInv
    BY InitEstablishes
<1>2. IInv /\ [Next]_vars => IInv'
    BY NextKeeps
<1>3. QED
    BY <1>1, <1>2, PTL DEF Spec

(* Every variable keeps its type.                                           *)
THEOREM TypeCorrect == Spec => []TypeOK
<1>1. IInv => TypeOK
    BY DEF IInv
<1>2. QED
    BY <1>1, Invariance, PTL

(* lock_mtab() excludes, for any number of processes, unless one of them    *)
(* dies between the unlink() and the clearing of the flag.                  *)
THEOREM MutualExclusion == Spec => []ExclusiveUnlessInterrupted
<1>1. IInv => ExclusiveUnlessInterrupted
    BY OneWorks DEF IInv, ExclusiveUnlessInterrupted
<1>2. QED
    BY <1>1, Invariance, PTL

(* A lock file whose maker is not at work was left by a signal between      *)
(* link() and the setting of the flag.                                      *)
THEOREM LockFilesHaveOwners == Spec => []LockFileHasOwner
<1>1. IInv => LockFileHasOwner
    BY DEF IInv
<1>2. QED
    BY <1>1, Invariance, PTL

(* Every change of mtab is one process's update of the mtab of that moment. *)
THEOREM NoUpdateIsLost == Spec => UpdatesAreAtomic
<1> DEFINE Atomic ==
      (mtab' # mtab /\ faults \cap {"unlinking", "misread"} = {}) =>
         \E p \in Proc :
            \/ job[p] = "add" /\ mtab' = Append(mtab, [dir |-> dir[p], opts |-> "mount"])
            \/ job[p] # "add" /\ mtab' = Updated(mtab, dir[p], job[p])
<1>1. IInv /\ [Next]_vars => [Atomic]_vars
  <2> SUFFICES ASSUME IInv, Next, mtab' # mtab,
                      faults \cap {"unlinking", "misread"} = {}
               PROVE  Atomic
    OBVIOUS
  <2>1. PICK p \in Proc : lock_mtab(p) \/ Step(p) \/ die(p)
    BY DEF Next
  <2>2. addmntent(p) \/ rename(p)
    BY <2>1 DEF Step, lock_mtab, link, claim, open, wait, setlkw_timeout,
                write_temp, unlock_mtab, unlock_clear, die, fileVars
  <2>3. CASE addmntent(p)
    BY <2>3 DEF addmntent
  <2>4. CASE rename(p)
    <3>1. pc[p] = "rename" /\ mtab' = temp
        BY <2>4 DEF rename, fileVars
    <3>2. job[p] # "add" /\ temp = Updated(mtab, dir[p], job[p])
        BY <3>1 DEF IInv, TempInv
    <3>3. QED
        BY <3>1, <3>2
  <2>5. QED
    BY <2>2, <2>3, <2>4
<1>2. QED
    BY <1>1, Invariance, PTL DEF Spec, UpdatesAreAtomic

-----------------------------------------------------------------------------
(* The steps a process may still take in lock_mtab(), the update and        *)
(* unlock_mtab(): three for every try it has left, and eight.               *)
TriesLeft(p) == (MaxTries - gone[p]) + (MaxTries - waits[p])

StepsLeft(p) ==
    CASE pc[p] = "link"   -> 3 * TriesLeft(p) + 8
      [] pc[p] = "open"   -> 3 * TriesLeft(p) + 7
      [] pc[p] = "wait"   -> 3 * TriesLeft(p) + 6
      [] pc[p] = "linked" -> 5
      [] pc[p] = "work"   -> 4
      [] pc[p] = "rename" -> 3
      [] pc[p] = "unlink" -> 2
      [] pc[p] = "clear"  -> 1
      [] OTHER -> 0

(* The bound behind LockEnds: every step of a process brings it nearer to   *)
(* its end; no other process, whatever lock files it makes and removes,     *)
(* puts it back; and at most 6 * MaxTries + 8 steps lie ahead when          *)
(* lock_mtab() begins.                                                      *)
LockingIsBounded ==
    [][\A p \in Proc :
         /\ Step(p) => StepsLeft(p)' < StepsLeft(p)
         /\ pc[p] \notin {"start", "mounted"} => StepsLeft(p)' <= StepsLeft(p)
         /\ StepsLeft(p)' <= 6 * MaxTries + 8]_vars

LEMMA StepAdvances ==
    ASSUME TypeOK, NEW p \in Proc, Step(p)
    PROVE  StepsLeft(p)' < StepsLeft(p)
<1>1. /\ MaxTries \in Nat /\ pc \in [Proc -> Place] /\ pc[p] \in Place
      /\ gone \in [Proc -> 0 .. MaxTries] /\ waits \in [Proc -> 0 .. MaxTries]
      /\ gone[p] \in 0 .. MaxTries /\ waits[p] \in 0 .. MaxTries
    BY MtabAssumption DEF TypeOK
<1>2. CASE link(p) \/ claim(p)
  <2>1. /\ gone'[p] = gone[p] /\ waits'[p] = waits[p]
        /\ \/ pc[p] = "link" /\ pc'[p] \in {"linked", "open"}
           \/ pc[p] = "linked" /\ pc'[p] = "work"
    BY <1>1, <1>2 DEF link, claim
  <2>2. QED
    BY SMTT(60), <1>1, <2>1 DEF StepsLeft, TriesLeft
<1>3. CASE open(p)
  <2>1. /\ pc[p] = "open" /\ waits'[p] = waits[p]
        /\ \/ pc'[p] = "link" /\ gone[p] < MaxTries /\ gone'[p] = gone[p] + 1
           \/ pc'[p] \in {"wait", "dead"} /\ gone'[p] = gone[p]
    BY <1>1, <1>3 DEF open
  <2>2. QED
    BY SMTT(60), <1>1, <2>1 DEF StepsLeft, TriesLeft
<1>4. CASE wait(p) \/ setlkw_timeout(p)
  <2>1. /\ pc[p] = "wait" /\ gone'[p] = gone[p]
        /\ \/ pc'[p] = "link" /\ waits[p] < MaxTries /\ waits'[p] = waits[p] + 1
           \/ pc'[p] = "dead"
    BY <1>1, <1>4 DEF wait, setlkw_timeout
  <2>2. QED
    BY SMTT(60), <1>1, <2>1 DEF StepsLeft, TriesLeft
<1>5. CASE addmntent(p) \/ write_temp(p) \/ rename(p)
  <2>1. \/ pc[p] = "work" /\ pc'[p] \in {"rename", "unlink"}
        \/ pc[p] = "rename" /\ pc'[p] = "unlink"
    BY <1>1, <1>5 DEF addmntent, write_temp, rename
  <2>2. QED
    BY SMTT(60), <2>1 DEF StepsLeft
<1>6. CASE unlock_mtab(p) \/ unlock_clear(p)
  <2>1. \/ pc[p] = "unlink" /\ pc'[p] = "clear"
        \/ pc[p] = "clear" /\ pc'[p] \in {"done", "mounted"}
    BY <1>1, <1>6 DEF unlock_mtab, unlock_clear
  <2>2. QED
    BY SMTT(60), <2>1 DEF StepsLeft
<1>7. QED
    BY <1>2, <1>3, <1>4, <1>5, <1>6 DEF Step

(* No step of another process changes where this one is or its tries.       *)
LEMMA OthersLeaveAlone ==
    ASSUME TypeOK, NEW p \in Proc, NEW q \in Proc, q # p,
           lock_mtab(q) \/ Step(q) \/ die(q)
    PROVE  pc'[p] = pc[p] /\ gone'[p] = gone[p] /\ waits'[p] = waits[p]
<1>1. /\ pc \in [Proc -> Place] /\ gone \in [Proc -> 0 .. MaxTries]
      /\ waits \in [Proc -> 0 .. MaxTries]
    BY DEF TypeOK
<1>2. CASE lock_mtab(q) \/ die(q)
    BY <1>1, <1>2 DEF lock_mtab, die
<1>3. CASE link(q) \/ claim(q) \/ open(q) \/ wait(q) \/ setlkw_timeout(q)
    BY <1>1, <1>3 DEF link, claim, open, wait, setlkw_timeout
<1>4. CASE addmntent(q) \/ write_temp(q) \/ rename(q)
    BY <1>1, <1>4 DEF addmntent, write_temp, rename
<1>5. CASE unlock_mtab(q) \/ unlock_clear(q)
    BY <1>1, <1>5 DEF unlock_mtab, unlock_clear
<1>6. QED
    BY <1>2, <1>3, <1>4, <1>5 DEF Step

(* A process is through with mtab after at most 6 * MaxTries + 8 steps,     *)
(* for any number of competitors.                                           *)
THEOREM BoundedLocking == Spec => LockingIsBounded
<1> DEFINE Bounded(p) ==
             /\ Step(p) => StepsLeft(p)' < StepsLeft(p)
             /\ pc[p] \notin {"start", "mounted"} =>
                  StepsLeft(p)' <= StepsLeft(p)
             /\ StepsLeft(p)' <= 6 * MaxTries + 8
<1>1. IInv /\ IInv' /\ [Next]_vars => [\A p \in Proc : Bounded(p)]_vars
  <2> SUFFICES ASSUME IInv, IInv', Next, NEW p \in Proc PROVE Bounded(p)
    OBVIOUS
  <2>1. /\ MaxTries \in Nat
        /\ gone[p] \in 0 .. MaxTries /\ waits[p] \in 0 .. MaxTries
        /\ gone'[p] \in 0 .. MaxTries /\ waits'[p] \in 0 .. MaxTries
    BY MtabAssumption DEF IInv, TypeOK
  <2>2. StepsLeft(p) \in Nat /\ StepsLeft(p)' \in 0 .. 6 * MaxTries + 8
    BY SMTT(60), <2>1 DEF StepsLeft, TriesLeft
  <2>3. Step(p) => StepsLeft(p)' < StepsLeft(p)
    BY StepAdvances DEF IInv
  <2>4. ASSUME pc[p] \notin {"start", "mounted"}
        PROVE  StepsLeft(p)' <= StepsLeft(p)
    <3>1. PICK q \in Proc : lock_mtab(q) \/ Step(q) \/ die(q)
        BY DEF Next
    <3>2. CASE q # p
      <4>1. pc'[p] = pc[p] /\ gone'[p] = gone[p] /\ waits'[p] = waits[p]
        BY <3>1, <3>2, OthersLeaveAlone DEF IInv
      <4>2. StepsLeft(p)' = StepsLeft(p)
        BY SMTT(60), <4>1 DEF StepsLeft, TriesLeft
      <4>3. QED
        BY SMTT(60), <2>2, <4>2
    <3>3. CASE q = p /\ die(p)
      <4>1. pc'[p] = "dead"
        BY <3>3 DEF die, IInv, TypeOK
      <4>2. StepsLeft(p)' = 0
        BY SMTT(60), <4>1 DEF StepsLeft
      <4>3. QED
        BY SMTT(60), <2>2, <4>2
    <3>4. CASE q = p /\ Step(p)
        BY SMTT(60), <2>2, <2>3, <3>4
    <3>5. QED
        BY <2>4, <3>1, <3>2, <3>3, <3>4 DEF lock_mtab
  <2>5. StepsLeft(p)' <= 6 * MaxTries + 8
    BY SMTT(60), <2>1, <2>2
  <2>6. QED
    BY <2>3, <2>4, <2>5
<1>2. QED
    BY <1>1, Invariance, PTL DEF Spec, LockingIsBounded
=============================================================================
