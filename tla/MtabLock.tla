------------------------------ MODULE MtabLock ------------------------------
(***************************************************************************)
(* /etc/mtab and its lock file /etc/mtab~, shared by every mount process of *)
(* a machine: lock_mtab(), unlock_mtab() and update_mtab(), called by       *)
(* hsi_add_mtab() when a file system has been mounted and by hsi_del_mtab() *)
(* when its daemon ends.                                                    *)
(*                                                                          *)
(* The lock is the name: link() makes it or fails.  The inode behind it,    *)
(* named here by its maker and the maker's job, carries an fcntl() lock     *)
(* that others wait on.  A signal runs die() in any process at any point,   *)
(* so does an error; die() calls unlock_mtab() and exits.  mtab is a        *)
(* regular, writable file, and the processes run as root without -n.        *)
(*                                                                          *)
(* The handlers are there for the signals below SIGCHLD; SIGKILL and the    *)
(* rest, which end a process and leave its lock file, are left out.  No     *)
(* option of today makes a remount, as hsi_parse_opt() refuses "remount";   *)
(* hsi_add_mtab() and update_mtab() handle it, and so does the model.       *)
(***************************************************************************)
EXTENDS Naturals, Sequences

CONSTANTS
    Proc,       \* mount processes
    Dir,        \* mount points
    dir,        \* dir[p], the mount point of p
    None,       \* no file
    MaxTries    \* limit on both counts of tries; 100000 in the code

ASSUME MtabAssumption ==
    /\ dir \in [Proc -> Dir]
    /\ MaxTries \in Nat
    /\ None \notin Proc \X {"add", "remount", "del"}

VARIABLES
    pc,         \* where a process is
    job,        \* what it does to mtab: "add", "remount" or "del"
    we_created_lockfile,
    lockfile_fd,\* the inode it has open
    held,       \* the inode it has the fcntl() lock on
    gone,       \* times it found the lock file deleted before open()
    waits,      \* times it waited (static tries)
    lockfile,   \* the inode with the name /etc/mtab~
    mtab,       \* the entries of /etc/mtab
    temp,       \* the entries of /etc/mtab.tmp
    faults      \* history: what went wrong, see die() and write_temp()

lockVars == <<lockfile, lockfile_fd, held, we_created_lockfile>>
fileVars == <<mtab, temp>>
vars == <<pc, job, lockVars, gone, waits, fileVars, faults>>

Job     == {"add", "remount", "del"}
Inode   == Proc \X Job
Entry   == [dir : Dir, opts : {"mount", "remount"}]
Working == {"work", "rename", "unlink"}
Place   == {"start", "link", "linked", "open", "wait", "clear", "mounted",
            "done", "dead"} \cup Working
Fault   == {"linking", "unlinking", "misread"}

(* The descriptor and lock of a process name inodes, tries are bounded, and *)
(* the files hold entries.                                                  *)
TypeOK ==
    /\ pc \in [Proc -> Place]
    /\ job \in [Proc -> Job]
    /\ we_created_lockfile \in [Proc -> BOOLEAN]
    /\ lockfile_fd \in [Proc -> Inode \cup {None}]
    /\ held \in [Proc -> Inode \cup {None}]
    /\ gone \in [Proc -> 0 .. MaxTries]
    /\ waits \in [Proc -> 0 .. MaxTries]
    /\ lockfile \in Inode \cup {None}
    /\ mtab \in Seq(Entry)
    /\ temp \in Seq(Entry) \cup {None}
    /\ faults \subseteq Fault

(* Before the processes start, mtab may have an entry of another mount.     *)
Init ==
    /\ pc = [p \in Proc |-> "start"]
    /\ job \in [Proc -> {"add", "remount"}]
    /\ we_created_lockfile = [p \in Proc |-> FALSE]
    /\ lockfile_fd = [p \in Proc |-> None]
    /\ held = [p \in Proc |-> None]
    /\ gone = [p \in Proc |-> 0]
    /\ waits = [p \in Proc |-> 0]
    /\ lockfile = None
    /\ mtab \in {<< >>} \cup {<<e>> : e \in Entry}
    /\ temp = None
    /\ faults = {}

-----------------------------------------------------------------------------
(* Mutants: both the lock and the name are taken to be the lock; the number *)
(* of waits is not counted.                                                 *)
link_ignores_exist(p) ==
    /\ pc[p] = "link"
    /\ lockfile' = IF lockfile = None THEN <<p, job[p]>> ELSE lockfile
    /\ pc' = [pc EXCEPT ![p] = "linked"]
    /\ UNCHANGED <<job, lockfile_fd, held, we_created_lockfile, gone, waits,
                   fileVars, faults>>

wait_not_counted(p) ==
    /\ pc[p] = "wait"
    /\ \A q \in Proc \ {p} : held[q] # lockfile_fd[p]
    /\ lockfile_fd' = [lockfile_fd EXCEPT ![p] = None]
    /\ pc' = [pc EXCEPT ![p] = "link"]
    /\ UNCHANGED <<job, lockfile, held, we_created_lockfile, gone, waits,
                   fileVars, faults>>

wait_counted_late(p) ==
    /\ pc[p] = "wait"
    /\ \A q \in Proc \ {p} : held[q] # lockfile_fd[p]
    /\ lockfile_fd' = [lockfile_fd EXCEPT ![p] = None]
    /\ waits' = [waits EXCEPT ![p] = @ + 1]
    /\ pc' = [pc EXCEPT ![p] = IF waits[p] > MaxTries THEN "dead" ELSE "link"]
    /\ UNCHANGED <<job, lockfile, held, we_created_lockfile, gone, fileVars, faults>>

(* hsx_fuse_mount() is done, or the session has ended: lock_mtab() begins.  *)
lock_mtab(p) ==
    /\ pc[p] \in {"start", "mounted"}
    /\ job' = IF pc[p] = "mounted" THEN [job EXCEPT ![p] = "del"] ELSE job
    /\ pc' = [pc EXCEPT ![p] = "link"]
    /\ gone' = [gone EXCEPT ![p] = 0]
    /\ UNCHANGED <<lockVars, waits, fileVars, faults>>

(* link() makes the name, or finds it there.                                *)
link(p) ==
    /\ pc[p] = "link"
    /\ \/ /\ lockfile = None
          /\ lockfile' = <<p, job[p]>>
          /\ pc' = [pc EXCEPT ![p] = "linked"]
       \/ /\ lockfile # None
          /\ pc' = [pc EXCEPT ![p] = "open"]
          /\ UNCHANGED lockfile
    /\ UNCHANGED <<job, lockfile_fd, held, we_created_lockfile, gone, waits,
                   fileVars, faults>>

(* After link(): we_created_lockfile is set, the file opened and locked.    *)
(* F_SETLK may fail, and the name may be gone already; both are ignored.    *)
claim(p) ==
    /\ pc[p] = "linked"
    /\ we_created_lockfile' = [we_created_lockfile EXCEPT ![p] = TRUE]
    /\ lockfile_fd' = [lockfile_fd EXCEPT ![p] = lockfile]
    /\ \/ UNCHANGED held
       \/ /\ \A q \in Proc : held[q] # lockfile
          /\ held' = [held EXCEPT ![p] = lockfile]
    /\ pc' = [pc EXCEPT ![p] = "work"]
    /\ UNCHANGED <<job, lockfile, gone, waits, fileVars, faults>>

(* Somebody else's lock file is opened, unless it was just deleted.         *)
open(p) ==
    /\ pc[p] = "open"
    /\ \/ /\ lockfile # None
          /\ lockfile_fd' = [lockfile_fd EXCEPT ![p] = lockfile]
          /\ pc' = [pc EXCEPT ![p] = "wait"]
          /\ UNCHANGED gone
       \/ /\ lockfile = None /\ gone[p] < MaxTries
          /\ gone' = [gone EXCEPT ![p] = @ + 1]
          /\ pc' = [pc EXCEPT ![p] = "link"]
          /\ UNCHANGED lockfile_fd
       \/ /\ lockfile = None /\ gone[p] = MaxTries
          /\ pc' = [pc EXCEPT ![p] = "dead"]
          /\ UNCHANGED <<gone, lockfile_fd>>
    /\ UNCHANGED <<job, lockfile, held, we_created_lockfile, waits, fileVars, faults>>

(* F_SETLKW is granted: the lock and the descriptor are given up again, and *)
(* link() is tried another time, if the limit allows.                       *)
wait(p) ==
    /\ pc[p] = "wait"
    /\ \A q \in Proc \ {p} : held[q] # lockfile_fd[p]
    /\ lockfile_fd' = [lockfile_fd EXCEPT ![p] = None]
    /\ \/ /\ waits[p] < MaxTries
          /\ waits' = [waits EXCEPT ![p] = @ + 1]
          /\ pc' = [pc EXCEPT ![p] = "link"]
       \/ /\ waits[p] = MaxTries
          /\ pc' = [pc EXCEPT ![p] = "dead"]
          /\ UNCHANGED waits
    /\ UNCHANGED <<job, lockfile, held, we_created_lockfile, gone, fileVars, faults>>

(* alarm(LOCK_TIMEOUT) interrupts F_SETLKW.                                 *)
setlkw_timeout(p) ==
    /\ pc[p] = "wait"
    /\ lockfile_fd' = [lockfile_fd EXCEPT ![p] = None]
    /\ pc' = [pc EXCEPT ![p] = "dead"]
    /\ UNCHANGED <<job, lockfile, held, we_created_lockfile, gone, waits,
                   fileVars, faults>>

-----------------------------------------------------------------------------
(* hsi_add_mtab(): an entry is appended to mtab, or mtab cannot be written. *)
addmntent(p) ==
    /\ pc[p] = "work" /\ job[p] = "add"
    /\ mtab' \in {mtab, Append(mtab, [dir |-> dir[p], opts |-> "mount"])}
    /\ pc' = [pc EXCEPT ![p] = "unlink"]
    /\ UNCHANGED <<job, lockVars, gone, waits, temp, faults>>

(* update_mtab() for directory d on the entries m: the last entry of d is   *)
(* removed (del) or gets new options (remount).  A new entry is linked into *)
(* the chain from one side only, and is written only if there is no other.  *)
Updated(m, d, what) ==
    LET found == {i \in DOMAIN m : m[i].dir = d}
        last  == CHOOSE i \in found : \A j \in found : j <= i
        new   == [dir |-> d, opts |-> "remount"]
    IN  IF found # {}
        THEN IF what = "del"
             THEN SubSeq(m, 1, last - 1) \o SubSeq(m, last + 1, Len(m))
             ELSE [m EXCEPT ![last] = new]
        ELSE IF what = "remount" /\ m = << >> THEN <<new>> ELSE m

(* The chain of entries read from mtab; a read error empties it.            *)
read_mntentchn(error) == IF error = "yes" THEN << >> ELSE mtab

(* mtab is read, changed in memory and written to mtab.tmp; if one of them  *)
(* cannot be opened nothing is done.                                        *)
write_temp(p) ==
    /\ pc[p] = "work" /\ job[p] # "add"
    /\ \/ \E error \in {"no", "yes"} :
            /\ temp' = Updated(read_mntentchn(error), dir[p], job[p])
            /\ pc' = [pc EXCEPT ![p] = "rename"]
            /\ faults' = faults \cup (IF error = "yes" THEN {"misread"} ELSE {})
       \/ /\ pc' = [pc EXCEPT ![p] = "unlink"]
          /\ UNCHANGED <<temp, faults>>
    /\ UNCHANGED <<job, lockVars, gone, waits, mtab>>

(* mtab.tmp replaces mtab, or rename() fails.                               *)
rename(p) ==
    /\ pc[p] = "rename"
    /\ \/ temp # None /\ mtab' = temp /\ temp' = None
       \/ UNCHANGED fileVars
    /\ pc' = [pc EXCEPT ![p] = "unlink"]
    /\ UNCHANGED <<job, lockVars, gone, waits, faults>>

(* Mutant: the file is kept when its descriptor is closed.                  *)
unlock_keeps_file(p) ==
    /\ pc[p] = "unlink"
    /\ lockfile_fd' = [lockfile_fd EXCEPT ![p] = None]
    /\ held' = [held EXCEPT ![p] = None]
    /\ pc' = [pc EXCEPT ![p] = "clear"]
    /\ UNCHANGED <<job, lockfile, we_created_lockfile, gone, waits, fileVars, faults>>

(* unlock_mtab(): the descriptor is closed and the name removed, and then   *)
(* the flag cleared.                                                        *)
unlock_mtab(p) ==
    /\ pc[p] = "unlink"
    /\ lockfile_fd' = [lockfile_fd EXCEPT ![p] = None]
    /\ held' = [held EXCEPT ![p] = None]
    /\ lockfile' = None
    /\ pc' = [pc EXCEPT ![p] = "clear"]
    /\ UNCHANGED <<job, we_created_lockfile, gone, waits, fileVars, faults>>

unlock_clear(p) ==
    /\ pc[p] = "clear"
    /\ we_created_lockfile' = [we_created_lockfile EXCEPT ![p] = FALSE]
    /\ pc' = [pc EXCEPT ![p] = IF job[p] = "del" THEN "done" ELSE "mounted"]
    /\ UNCHANGED <<job, lockfile, lockfile_fd, held, gone, waits, fileVars, faults>>

(* die(), in a signal handler or after an error: unlock_mtab() if the flag  *)
(* is set, and exit.  Two moments are noted: link() is done and the flag    *)
(* not yet set; unlink() is done and the flag not yet cleared.              *)
die(p) ==
    /\ pc[p] \notin {"done", "dead"}
    /\ lockfile' = IF we_created_lockfile[p] THEN None ELSE lockfile
    /\ lockfile_fd' = [lockfile_fd EXCEPT ![p] = None]
    /\ held' = [held EXCEPT ![p] = None]
    /\ we_created_lockfile' = [we_created_lockfile EXCEPT ![p] = FALSE]
    /\ faults' = faults \cup (IF pc[p] = "linked" THEN {"linking"} ELSE {})
                        \cup (IF pc[p] = "clear" THEN {"unlinking"} ELSE {})
    /\ pc' = [pc EXCEPT ![p] = "dead"]
    /\ UNCHANGED <<job, gone, waits, fileVars>>

(* A step of a process inside lock_mtab(), update_mtab() or unlock_mtab().  *)
Step(p) ==
    \/ link(p) \/ claim(p) \/ open(p) \/ wait(p) \/ setlkw_timeout(p)
    \/ addmntent(p) \/ write_temp(p) \/ rename(p)
    \/ unlock_mtab(p) \/ unlock_clear(p)

Next == \E p \in Proc : lock_mtab(p) \/ Step(p) \/ die(p)

(* The processes are scheduled, and the alarm ends every wait.              *)
Spec == Init /\ [][Next]_vars /\ \A p \in Proc : WF_vars(Step(p))

-----------------------------------------------------------------------------
(* "We proceed only if it was us that created the lock": at most one        *)
(* process works on mtab, whatever signals and errors come at other times   *)
(* than between the unlink() and the clearing of the flag in unlock_mtab(). *)
ExclusiveUnlessInterrupted ==
    "unlinking" \notin faults =>
        \A p, q \in Proc : (pc[p] \in Working /\ pc[q] \in Working) => p = q

(* No update is lost: what a process makes of mtab is its change applied to *)
(* the mtab of that moment, though update_mtab() reads it some steps before *)
(* and others append and rename, as long as the lock works and mtab can be  *)
(* read.                                                                    *)
UpdatesAreAtomic ==
    [][ (mtab' # mtab /\ faults \cap {"unlinking", "misread"} = {}) =>
          \E p \in Proc :
             \/ job[p] = "add" /\ mtab' = Append(mtab, [dir |-> dir[p], opts |-> "mount"])
             \/ job[p] # "add" /\ mtab' = Updated(mtab, dir[p], job[p]) ]_vars

(* "The lock file will be removed if we catch a signal or when we exit":    *)
(* the process whose lock file is there is at work, unless a signal came    *)
(* between its link() and the setting of the flag.                          *)
LockFileHasOwner ==
    (lockfile # None /\ "linking" \notin faults) =>
        pc[lockfile[1]] \in Working \cup {"linked"}

(* Nobody waits for ever, even on a lock file whose maker is dead: a        *)
(* process in lock_mtab() gets the lock or gives up.                        *)
LockEnds ==
    \A p \in Proc : (pc[p] = "link") ~> (pc[p] \in {"work", "dead"})

(* At most one process works on mtab, without exception.                    *)
Exclusive ==
    \A p, q \in Proc : (pc[p] \in Working /\ pc[q] \in Working) => p = q
=============================================================================
