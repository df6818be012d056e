---------------------------- MODULE MountProofs -----------------------------
(***************************************************************************)
(* Proofs of the safety properties of Mount, for any lists of options.      *)
(*                                                                          *)
(* None of the properties is inductive: what main() leaves behind depends   *)
(* on the label it came through.  The inductive invariant says, for every   *)
(* place of the process, what has been made by then and what must have      *)
(* gone wrong if something is missing.                                      *)
(***************************************************************************)
EXTENDS Mount, TLAPS

USE ZenonT(60)

Mounted == {"add_mtab", "session", "serve", "del_mtab", "unmount"}

(* main() returns at its end, and nowhere else.                             *)
EndInv == pc = "end" <=> status = "returned"

(* fuse_mount() comes before these places and fuse_unmount() after them; in *)
(* between only somebody else can unmount.                                  *)
KernelInv ==
    /\ kmount => pc \in Mounted
    /\ pc \in Mounted /\ status = "running" => kmount \/ "umount" \in faults

(* The entry is there between hsi_add_mtab() and hsi_del_mtab(), and only   *)
(* if the process uses mtab.                                                *)
MtabInv ==
    /\ mtab => uses_mtab /\ pc \in Mounted \cup {"umnt", "end"}
    /\ mtab => pc \in {"session", "serve", "del_mtab"} \/ "mtab" \in faults
    /\ MtabFollowsKernel

(* mountd lists the client only after an answer it gave or lost, and a      *)
(* place that returns without UMNT is reached only if it does not.          *)
RmtabInv ==
    /\ pc \in {"cmdline", "spec", "prepare"} => ~rmtab
    /\ rmtab /\ pc \in {"try", "failed"} => "no_answer" \in faults
    /\ rmtab /\ refused /\ pc \in {"nfs_client", "acl_client"} =>
           "no_answer" \in faults
    /\ rmtab /\ pc = "end" => faults \cap {"no_answer", "no_UMNT"} # {}

(* Handlers: libfuse's only in the session, those of lock_mtab() only if    *)
(* the process uses mtab, and some handler in the session.                  *)
HandlerInv ==
    /\ handlers = "libfuse" => pc = "serve"
    /\ handlers = "die" => uses_mtab /\ pc \in Mounted \cup {"umnt", "end"}
    /\ pc = "serve" => handlers # "default"
    /\ Ended /\ pc = "serve" =>
           status = "crashed" \/ (status = "died" /\ uses_mtab)

(* The root handle is freed in hsi_fill_super() or at umnt_fail.            *)
HandleInv ==
    /\ fhandle = "freed" => pc \in Mounted \cup {"fuse_mount", "fmnt_fail",
                                                 "umnt", "end"}
    /\ "free" \notin misuse

(* The NFS client, until a label or hsx_fuse_unmount() destroys it.         *)
ClientInv ==
    /\ status = "running" /\ clntp = "destroyed" =>
           pc \in {"umnt", "end"} \/ "reconnect" \in faults
    /\ clntp = "NULL" /\ pc \in {"umnt_fail", "fmnt_fail"} =>
           "no_client" \in faults
    /\ clntp = "NULL" => pc \notin Mounted \cup {"acl_client", "super", "fuse_mount"}
    /\ "destroyed_client" \in misuse => "reconnect" \in faults
    /\ "NULL_client" \in misuse => "no_client" \in faults

Tracks ==
    /\ EndInv /\ KernelInv /\ MtabInv /\ RmtabInv /\ HandlerInv
    /\ HandleInv /\ ClientInv

IInv == TypeOK /\ Tracks

(* TypeOK in three parts.                                                   *)
PlacesOK ==
    /\ pc \in Place
    /\ status \in {"running", "returned", "died", "killed", "crashed"}
    /\ cf_stat \in {"SUCCESS", "TIMEDOUT", "SYSTEMERROR", "OTHER"}
    /\ fhandle \in {"none", "allocated", "freed"}
    /\ clntp \in Pointer /\ acl_clntp \in Pointer
    /\ handlers \in {"default", "libfuse", "die"}

FlagsOK ==
    /\ fg \in BOOLEAN /\ uses_mtab \in BOOLEAN /\ late \in BOOLEAN
    /\ refused \in BOOLEAN
    /\ kmount \in BOOLEAN /\ rmtab \in BOOLEAN /\ mtab \in BOOLEAN

HistoryOK ==
    /\ faults \subseteq {"no_answer", "no_UMNT", "mtab", "no_client",
                         "reconnect", "umount"}
    /\ misuse \subseteq {"free", "NULL_client", "destroyed_client"}

LEMMA TypeParts == TypeOK <=> PlacesOK /\ FlagsOK /\ HistoryOK
BY DEF TypeOK, PlacesOK, FlagsOK, HistoryOK

-----------------------------------------------------------------------------
(* What the actions share, and the invariant down to the variables.         *)
USE DEF At, Goto, Return, End, config, answer, clients, mounts, history,
    EndInv, KernelInv, MtabInv, RmtabInv, HandlerInv, HandleInv,
    ClientInv, Tracks, MtabFollowsKernel, Mounted, Ended

(* A process that has just started has made nothing.                        *)
LEMMA InitInv == Init => IInv
<1> SUFFICES ASSUME Init PROVE IInv
    OBVIOUS
<1>1. PlacesOK
    BY DEF Init, PlacesOK, Place, Pointer
<1>2. FlagsOK
    BY DEF Init, FlagsOK
<1>3. HistoryOK
    BY DEF Init, HistoryOK
<1>4. Tracks
    BY SMTT(60) DEF Init
<1>5. QED
    BY <1>1, <1>2, <1>3, <1>4, TypeParts DEF IInv

(* Before the loop: hsi_parse_cmdline() to hsi_gethostbyname().             *)
LEMMA PreparingKeepsType ==
    ASSUME TypeOK,
           hsi_parse_cmdline \/ hsi_parse_spec \/ hsi_gethostbyname_fails
           \/ prepare
    PROVE  TypeOK'
<1>1. PlacesOK'
    BY TypeParts DEF PlacesOK, Place, Pointer, hsi_parse_cmdline,
       hsi_parse_spec, hsi_gethostbyname_fails, prepare
<1>2. FlagsOK'
    BY TypeParts DEF FlagsOK, hsi_parse_cmdline, hsi_parse_spec,
       hsi_gethostbyname_fails, prepare
<1>3. HistoryOK'
    BY TypeParts DEF HistoryOK, hsi_parse_cmdline, hsi_parse_spec,
       hsi_gethostbyname_fails, prepare
<1>4. QED
    BY <1>1, <1>2, <1>3 DEF TypeOK, PlacesOK, FlagsOK, HistoryOK

LEMMA PreparingKeepsTracks ==
    ASSUME Tracks,
           hsi_parse_cmdline \/ hsi_parse_spec \/ hsi_gethostbyname_fails
           \/ prepare
    PROVE  Tracks'
<1>1. CASE hsi_parse_cmdline
    BY SMTT(60), <1>1 DEF hsi_parse_cmdline
<1>2. CASE hsi_parse_spec
    BY SMTT(60), <1>2 DEF hsi_parse_spec
<1>3. CASE hsi_gethostbyname_fails
    BY SMTT(60), <1>3 DEF hsi_gethostbyname_fails
<1>4. CASE prepare
  <2>1. At("prepare") /\ (Goto("try") \/ Return)
    BY <1>4 DEF prepare
  <2>2. UNCHANGED <<config, answer, clients, mounts, handlers, history>>
    BY <1>4 DEF prepare
  <2>3. QED
    BY SMTT(60), <2>1, <2>2
<1>5. QED
    BY <1>1, <1>2, <1>3, <1>4

(* The loop: a call to mountd, and another one or none.                     *)
LEMMA AskingKeepsType ==
    ASSUME TypeOK,
           hsi_nfs3_mount \/ mount_again \/ mount_gives_up
    PROVE  TypeOK'
<1>1. PlacesOK'
    BY TypeParts DEF PlacesOK, Place, Pointer, hsi_nfs3_mount, mount_again,
       mount_gives_up
<1>2. FlagsOK'
    BY TypeParts DEF FlagsOK, hsi_nfs3_mount, mount_again, mount_gives_up
<1>3. HistoryOK'
    BY TypeParts DEF HistoryOK, hsi_nfs3_mount, mount_again, mount_gives_up
<1>4. QED
    BY <1>1, <1>2, <1>3 DEF TypeOK, PlacesOK, FlagsOK, HistoryOK

LEMMA AskingKeepsTracks ==
    ASSUME Tracks,
           hsi_nfs3_mount \/ mount_again \/ mount_gives_up
    PROVE  Tracks'
<1>1. CASE hsi_nfs3_mount
  <2>1. /\ At("try")
        /\ UNCHANGED <<config, late, clients, kmount, mtab, handlers, misuse>>
    BY <1>1 DEF hsi_nfs3_mount
  <2>2. CASE /\ Goto("failed") /\ UNCHANGED <<refused, fhandle, rmtab, faults>>
    BY SMTT(60), <2>1, <2>2
  <2>3. CASE /\ faults' = faults \cup {"no_answer"}
             /\ fhandle' \in {fhandle, "allocated"}
             /\ Goto("failed")
    BY SMTT(60), <2>1, <2>3
  <2>4. CASE /\ rmtab' = (rmtab \/ ~refused')
             /\ fhandle' = "allocated"
             /\ Goto("nfs_client")
             /\ UNCHANGED faults
    <3>1. rmtab' /\ refused' => rmtab
      BY <2>4
    <3>2. fhandle' = "allocated" /\ Goto("nfs_client") /\ UNCHANGED faults
      BY <2>4
    <3>3. QED
      BY SMTT(60), <2>1, <3>1, <3>2
  <2>5. QED
    BY <1>1, <2>2, <2>3, <2>4 DEF hsi_nfs3_mount
<1>2. CASE mount_again
    BY SMTT(60), <1>2 DEF mount_again
<1>3. CASE mount_gives_up
    BY SMTT(60), <1>3 DEF mount_gives_up
<1>4. QED
    BY <1>1, <1>2, <1>3

(* From the answer of mountd to the mount.                                  *)
LEMMA MountingKeepsType ==
    ASSUME TypeOK,
           nfs_client \/ acl_client \/ hsi_fill_super \/ fuse_mount
    PROVE  TypeOK'
<1>1. PlacesOK'
    BY TypeParts DEF PlacesOK, Place, Pointer, nfs_client, acl_client,
       hsi_fill_super, fuse_mount
<1>2. FlagsOK'
    BY TypeParts DEF FlagsOK, nfs_client, acl_client, hsi_fill_super,
       fuse_mount
<1>3. HistoryOK'
    BY TypeParts DEF HistoryOK, nfs_client, acl_client, hsi_fill_super,
       fuse_mount
<1>4. QED
    BY <1>1, <1>2, <1>3 DEF TypeOK, PlacesOK, FlagsOK, HistoryOK

LEMMA MountingKeepsTracks ==
    ASSUME Tracks,
           nfs_client \/ acl_client \/ hsi_fill_super \/ fuse_mount
    PROVE  Tracks'
<1>1. CASE nfs_client
    BY SMTT(60), <1>1 DEF nfs_client
<1>2. CASE acl_client
  <2>1. /\ At("acl_client")
        /\ UNCHANGED <<config, answer, clntp, mounts, handlers, history>>
    BY <1>2 DEF acl_client
  <2>2. CASE refused /\ Return
    BY SMTT(60), <2>1, <2>2
  <2>3. CASE Goto("super")
    BY SMTT(60), <2>1, <2>3
  <2>4. QED
    BY <1>2, <2>2, <2>3 DEF acl_client
<1>3. CASE hsi_fill_super
    BY SMTT(60), <1>3 DEF hsi_fill_super
<1>4. CASE fuse_mount
    BY SMTT(60), <1>4 DEF fuse_mount
<1>5. QED
    BY <1>1, <1>2, <1>3, <1>4

(* The failure labels, and what they share with hsx_fuse_unmount().         *)
LEMMA LabelsKeepType ==
    ASSUME TypeOK,
           umnt_fail \/ fmnt_fail \/ hsx_fuse_unmount \/ hsi_nfs3_unmount
    PROVE  TypeOK'
<1>1. PlacesOK'
    BY TypeParts DEF PlacesOK, Place, Pointer, umnt_fail, fmnt_fail,
       hsx_fuse_unmount, hsi_nfs3_unmount, DestroyClient
<1>2. FlagsOK'
    BY TypeParts DEF FlagsOK, umnt_fail, fmnt_fail, hsx_fuse_unmount,
       hsi_nfs3_unmount, DestroyClient
<1>3. HistoryOK'
    BY TypeParts DEF HistoryOK, umnt_fail, fmnt_fail, hsx_fuse_unmount,
       hsi_nfs3_unmount, DestroyClient
<1>4. QED
    BY <1>1, <1>2, <1>3 DEF TypeOK, PlacesOK, FlagsOK, HistoryOK

LEMMA LabelsKeepTracks ==
    ASSUME Tracks,
           umnt_fail \/ fmnt_fail \/ hsx_fuse_unmount \/ hsi_nfs3_unmount
    PROVE  Tracks'
<1>1. CASE umnt_fail
    BY SMTT(60), <1>1 DEF umnt_fail
<1>2. CASE fmnt_fail
    BY SMTT(60), <1>2 DEF fmnt_fail, DestroyClient
<1>3. CASE hsx_fuse_unmount
    BY SMTT(60), <1>3 DEF hsx_fuse_unmount, DestroyClient
<1>4. CASE hsi_nfs3_unmount
  <2>1. /\ At("umnt") /\ Return
        /\ UNCHANGED <<config, clients, kmount, mtab, fhandle, handlers,
                       misuse>>
    BY <1>4 DEF hsi_nfs3_unmount
  <2>2. faults \subseteq faults' /\ (rmtab' => "no_UMNT" \in faults')
    BY <1>4 DEF hsi_nfs3_unmount
  <2>3. QED
    BY SMTT(60), <2>1, <2>2
<1>5. QED
    BY <1>1, <1>2, <1>3, <1>4

(* mtab and the session, with the signals that may end it.                  *)
LEMMA SessionKeepsType ==
    ASSUME TypeOK,
           hsi_add_mtab \/ session \/ session_ends \/ serve_fails \/
           hsi_del_mtab \/ signal
    PROVE  TypeOK'
<1>1. PlacesOK'
    BY TypeParts DEF PlacesOK, Place, Pointer, hsi_add_mtab, session,
       session_ends, serve_fails, hsi_del_mtab, signal, WithMtab, EndSession
<1>2. FlagsOK'
    BY TypeParts DEF FlagsOK, hsi_add_mtab, session, session_ends,
       serve_fails, hsi_del_mtab, signal, WithMtab, EndSession
<1>3. HistoryOK'
    BY TypeParts DEF HistoryOK, hsi_add_mtab, session, session_ends,
       serve_fails, hsi_del_mtab, signal, WithMtab, EndSession
<1>4. QED
    BY <1>1, <1>2, <1>3 DEF TypeOK, PlacesOK, FlagsOK, HistoryOK

LEMMA SessionKeepsTracks ==
    ASSUME Tracks,
           hsi_add_mtab \/ session \/ session_ends \/ serve_fails \/
           hsi_del_mtab \/ signal
    PROVE  Tracks'
<1>1. CASE hsi_add_mtab
    BY SMTT(60), <1>1 DEF hsi_add_mtab, WithMtab
<1>2. CASE session
    BY SMTT(60), <1>2 DEF session
<1>3. CASE session_ends
    BY SMTT(60), <1>3 DEF session_ends, EndSession
<1>4. CASE serve_fails
    BY SMTT(60), <1>4 DEF serve_fails
<1>5. CASE hsi_del_mtab
  <2>1. /\ At("del_mtab")
        /\ UNCHANGED <<config, clients, kmount, rmtab, refused, fhandle, misuse>>
    BY <1>5 DEF hsi_del_mtab
  <2>2. faults \subseteq faults'
    <3>1. faults' = faults \/ faults' = faults \cup {"mtab"}
      BY ONLY ZenonT(60), <1>5 DEF hsi_del_mtab, WithMtab
    <3>2. QED
      BY ONLY ZenonT(60), <3>1
  <2>3. Goto("unmount") \/ (End("died") /\ uses_mtab)
    BY <1>5 DEF hsi_del_mtab, WithMtab
  <2>4. handlers' = handlers \/ (uses_mtab /\ handlers' = "die")
    BY <1>5 DEF hsi_del_mtab, WithMtab
  <2>5. mtab => uses_mtab
    OBVIOUS
  <2>6. mtab' => mtab /\ "mtab" \in faults'
    BY ONLY ZenonT(60), <1>5, <2>5 DEF hsi_del_mtab, WithMtab
  <2>7. QED
    BY SMTT(60), <2>1, <2>2, <2>3, <2>4, <2>6
<1>6. CASE signal
    BY SMTT(60), <1>6 DEF signal, EndSession
<1>7. QED
    BY <1>1, <1>2, <1>3, <1>4, <1>5, <1>6

(* Somebody else unmounts, the deadline passes, or nothing happens.         *)
LEMMA EnvironmentKeepsType ==
    ASSUME TypeOK,
           umount \/ time_passes \/ UNCHANGED vars
    PROVE  TypeOK'
<1>1. PlacesOK'
    BY TypeParts DEF PlacesOK, Place, Pointer, umount, time_passes, vars
<1>2. FlagsOK'
    BY TypeParts DEF FlagsOK, umount, time_passes, vars
<1>3. HistoryOK'
    BY TypeParts DEF HistoryOK, umount, time_passes, vars
<1>4. QED
    BY <1>1, <1>2, <1>3 DEF TypeOK, PlacesOK, FlagsOK, HistoryOK

LEMMA EnvironmentKeepsTracks ==
    ASSUME Tracks,
           umount \/ time_passes \/ UNCHANGED vars
    PROVE  Tracks'
<1>1. CASE umount
    BY SMTT(60), <1>1 DEF umount
<1>2. CASE time_passes
    BY SMTT(60), <1>2 DEF time_passes
<1>3. CASE UNCHANGED vars
    BY SMTT(60), <1>3 DEF vars
<1>4. QED
    BY <1>1, <1>2, <1>3

HIDE DEF At, Goto, Return, End, config, answer, clients, mounts, history,
    EndInv, KernelInv, MtabInv, RmtabInv, HandlerInv, HandleInv,
    ClientInv, Tracks, MtabFollowsKernel, Mounted, Ended

-----------------------------------------------------------------------------
(* Every step of the process, of the kernel and of the clock keeps the      *)
(* inductive invariant.                                                     *)
LEMMA StepKeepsInv == IInv /\ [Next]_vars => IInv'
<1>1. ASSUME TypeOK, [Next]_vars PROVE TypeOK'
    BY <1>1, PreparingKeepsType, AskingKeepsType, MountingKeepsType,
       LabelsKeepType, SessionKeepsType, EnvironmentKeepsType DEF Next, Step
<1>2. ASSUME Tracks, [Next]_vars PROVE Tracks'
    BY <1>2, PreparingKeepsTracks, AskingKeepsTracks, MountingKeepsTracks,
       LabelsKeepTracks, SessionKeepsTracks, EnvironmentKeepsTracks
       DEF Next, Step
<1>3. QED
    BY <1>1, <1>2 DEF IInv

(***************************************************************************)
(* What the process has made by each place of main(), and what went wrong   *)
(* if something is missing, holds in every reachable state.                 *)
(***************************************************************************)
THEOREM MountInvariance == Spec => []IInv
BY StepKeepsInv, InitInv, PTL DEF Spec

(* The state of Mount has its type for every list of options.               *)
THEOREM MountTypeCorrect == Spec => []TypeOK
<1>1. IInv => TypeOK
    BY DEF IInv
<1>2. QED
    BY <1>1, MountInvariance, PTL

(***************************************************************************)
(* main() returns with nothing mounted, no entry in mtab unless it could    *)
(* not be changed, and no entry at mountd unless an answer was lost.        *)
(***************************************************************************)
THEOREM ReturnLeavesNothing == Spec => []NothingLeftBehind
<1>1. IInv => NothingLeftBehind
    BY SMTT(60) DEF IInv, Tracks, EndInv, KernelInv, MtabInv, RmtabInv, Mounted,
       NothingLeftBehind
<1>2. QED
    BY <1>1, MountInvariance, PTL

(***************************************************************************)
(* mtab has the entry only while the kernel has the mount, but for an       *)
(* umount by somebody else and an mtab that cannot be changed.              *)
(***************************************************************************)
THEOREM MtabIsTrue == Spec => []MtabFollowsKernel
<1>1. IInv => MtabFollowsKernel
    BY DEF IInv, Tracks, MtabInv
<1>2. QED
    BY <1>1, MountInvariance, PTL

(***************************************************************************)
(* A signal in the session ends it in order, unless lock_mtab() had set its *)
(* own handlers before.                                                     *)
(***************************************************************************)
THEOREM SignalsAreHandled == Spec => []SignalsEndSession
<1>1. IInv => SignalsEndSession
    BY DEF IInv, Tracks, HandlerInv, SignalsEndSession
<1>2. QED
    BY <1>1, MountInvariance, PTL

(***************************************************************************)
(* The labels of hsx_fuse_mount() and hsx_fuse_unmount() free and destroy   *)
(* each thing once, with the two exceptions that the property names.        *)
(***************************************************************************)
THEOREM LabelsFreeOnce == Spec => []PointersUsedOnce
<1>1. IInv => PointersUsedOnce
    BY DEF IInv, Tracks, HandleInv, ClientInv, PointersUsedOnce
<1>2. QED
    BY <1>1, MountInvariance, PTL

-----------------------------------------------------------------------------
(***************************************************************************)
(* The bound behind ForegroundMountEnds.  Moves of the process from a place *)
(* to its end, if mountd is not asked again.                                *)
(***************************************************************************)
MovesLeft ==
    IF status # "running" THEN 0
    ELSE CASE pc = "cmdline"    -> 15
           [] pc = "spec"       -> 14
           [] pc = "prepare"    -> 13
           [] pc = "try"        -> 12
           [] pc \in {"failed", "nfs_client"} -> 11
           [] pc = "acl_client" -> 10
           [] pc = "super"      -> 9
           [] pc = "fuse_mount" -> 8
           [] pc = "add_mtab"   -> 7
           [] pc = "session"    -> 6
           [] pc = "serve"      -> 5
           [] pc \in {"umnt_fail", "del_mtab"}  -> 4
           [] pc \in {"fmnt_fail", "unmount"}   -> 3
           [] pc = "umnt"       -> 2
           [] pc = "end"        -> 1

(***************************************************************************)
(* Whatever mountd, the server, the kernel and signals do, only a retry of  *)
(* the loop of hsx_fuse_mount() takes the process back, in the foreground   *)
(* only before the deadline; every other move of its own takes it nearer to *)
(* its end, and the deadline, once passed, stays so.                        *)
(***************************************************************************)
OnlyRetriesGoBack ==
    [][/\ MovesLeft' > MovesLeft => mount_again /\ (fg => ~late)
       /\ Step => MovesLeft' < MovesLeft \/ mount_again
       /\ late => late']_vars

(* The deadline passes after the options have been read.                    *)
DeadlineInv == late => pc \notin {"cmdline", "spec", "prepare"}

LEMMA DeadlineStays ==
    ASSUME TypeOK, DeadlineInv, [Next]_vars
    PROVE  DeadlineInv' /\ (late => late')
<1> USE DEF At, Goto, Return, End, config, answer, clients, mounts, history,
        DeadlineInv
<1>1. CASE hsi_parse_cmdline \/ hsi_parse_spec \/ hsi_gethostbyname_fails
  <2>1. late' = late /\ pc \in {"cmdline", "spec", "prepare"}
    BY <1>1 DEF hsi_parse_cmdline, hsi_parse_spec, hsi_gethostbyname_fails
  <2>2. QED
    BY <2>1
<1>2. CASE prepare
  <2>1. At("prepare") /\ pc' \in {"try", "end"}
    BY <1>2 DEF prepare
  <2>2. QED
    BY SMTT(30), <2>1
<1>3. CASE hsi_nfs3_mount \/ mount_again \/ mount_gives_up
  <2>1. late' = late /\ pc' \in {"try", "failed", "nfs_client", "end"}
    BY <1>3 DEF hsi_nfs3_mount, mount_again, mount_gives_up
  <2>2. QED
    BY SMTT(30), <2>1
<1>4. CASE nfs_client \/ acl_client \/ hsi_fill_super \/ fuse_mount
    BY SMTT(30), <1>4 DEF nfs_client, acl_client, hsi_fill_super, fuse_mount
<1>5. CASE umnt_fail \/ fmnt_fail \/ hsi_nfs3_unmount \/ hsx_fuse_unmount
  <2>1. late' = late /\ pc' \in {pc, "fmnt_fail", "umnt", "end"}
    BY <1>5 DEF umnt_fail, fmnt_fail, hsi_nfs3_unmount, hsx_fuse_unmount,
       DestroyClient
  <2>2. QED
    BY SMTT(30), <2>1
<1>6. CASE hsi_add_mtab \/ session \/ hsi_del_mtab
    BY SMTT(30), <1>6 DEF hsi_add_mtab, session, hsi_del_mtab, WithMtab
<1>7. CASE session_ends \/ serve_fails \/ signal
    BY SMTT(30), <1>7 DEF session_ends, serve_fails, signal, EndSession
<1>8. CASE umount \/ time_passes \/ UNCHANGED vars
    BY SMTT(30), <1>8 DEF umount, time_passes, vars
<1>9. QED
    BY <1>1, <1>2, <1>3, <1>4, <1>5, <1>6, <1>7, <1>8 DEF Next, Step

(* A move of the process other than a retry takes it forward.               *)
LEMMA StepMovesOn ==
    ASSUME TypeOK, Step, ~mount_again
    PROVE  MovesLeft' < MovesLeft
<1> USE DEF At, Goto, Return, End, MovesLeft
<1>1. CASE hsi_parse_cmdline \/ hsi_parse_spec \/ hsi_gethostbyname_fails
  <2>1. \/ At("cmdline") /\ (Goto("spec") \/ Return)
        \/ At("spec") /\ (Goto("prepare") \/ Return)
        \/ At("prepare") /\ Return
    BY <1>1 DEF hsi_parse_cmdline, hsi_parse_spec, hsi_gethostbyname_fails
  <2>2. QED
    BY SMTT(30), <2>1
<1>2. CASE prepare
  <2>1. At("prepare") /\ (Goto("try") \/ Return)
    BY <1>2 DEF prepare
  <2>2. QED
    BY SMTT(30), <2>1
<1>3. CASE hsi_nfs3_mount \/ mount_gives_up
  <2>1. \/ At("try") /\ (Goto("failed") \/ Goto("nfs_client"))
        \/ At("failed") /\ Return
    BY <1>3 DEF hsi_nfs3_mount, mount_gives_up
  <2>2. QED
    BY SMTT(30), <2>1
<1>4. CASE nfs_client \/ acl_client \/ hsi_fill_super \/ fuse_mount
  <2>1. \/ At("nfs_client") /\ (Goto("acl_client") \/ Goto("umnt_fail"))
        \/ At("acl_client") /\ (Goto("super") \/ Return)
        \/ /\ At("super")
           /\ Goto("fuse_mount") \/ Goto("umnt_fail") \/ End("crashed")
        \/ At("fuse_mount") /\ (Goto("add_mtab") \/ Goto("fmnt_fail"))
    BY <1>4 DEF nfs_client, acl_client, hsi_fill_super, fuse_mount
  <2>2. QED
    BY SMTT(30), <2>1
<1>5. CASE umnt_fail \/ fmnt_fail \/ hsi_nfs3_unmount \/ hsx_fuse_unmount
  <2>1. \/ At("umnt_fail") /\ Goto("fmnt_fail")
        \/ At("fmnt_fail") /\ (Goto("umnt") \/ End("crashed"))
        \/ At("unmount") /\ (Goto("umnt") \/ End("crashed"))
        \/ At("umnt") /\ Return
    BY <1>5 DEF umnt_fail, fmnt_fail, hsi_nfs3_unmount, hsx_fuse_unmount,
       DestroyClient
  <2>2. QED
    BY SMTT(30), <2>1
<1>6. CASE hsi_add_mtab \/ session \/ hsi_del_mtab
  <2>1. \/ At("add_mtab") /\ (Goto("session") \/ End("died"))
        \/ At("session") /\ (Goto("serve") \/ Goto("del_mtab"))
        \/ At("del_mtab") /\ (Goto("unmount") \/ End("died"))
    BY <1>6 DEF hsi_add_mtab, session, hsi_del_mtab, WithMtab
  <2>2. QED
    BY SMTT(30), <2>1
<1>7. QED
    BY <1>1, <1>2, <1>3, <1>4, <1>5, <1>6 DEF Step

(* Requests, signals, the kernel and the clock take it forward or leave it. *)
LEMMA NobodyMovesBack ==
    ASSUME IInv,
           session_ends \/ serve_fails \/ signal \/ umount \/ time_passes
           \/ UNCHANGED vars
    PROVE  MovesLeft' <= MovesLeft
<1> USE DEF At, Goto, End, MovesLeft
<1>1. pc \in Place
    BY DEF IInv, TypeOK
<1>2. handlers = "libfuse" => pc = "serve"
    BY DEF IInv, Tracks, HandlerInv
<1>3. \/ At("serve") /\ (Goto("del_mtab") \/ End("crashed"))
      \/ status = "running" /\ (End("killed") \/ End("died"))
      \/ UNCHANGED <<pc, status>>
    BY <1>2 DEF session_ends, serve_fails, signal, EndSession, umount,
       time_passes, vars
<1>4. QED
    BY SMTT(30), <1>1, <1>3 DEF Place

(***************************************************************************)
(* main() makes no circle but the retries of hsx_fuse_mount(), and those    *)
(* end in the foreground at the deadline: for any lists of options, after   *)
(* it the process makes at most 12 more moves of its own.                   *)
(***************************************************************************)
THEOREM MountMovesOn == Spec => OnlyRetriesGoBack
<1> DEFINE Onward ==
        /\ MovesLeft' > MovesLeft => mount_again /\ (fg => ~late)
        /\ Step => MovesLeft' < MovesLeft \/ mount_again
        /\ late => late'
<1>1. IInv /\ DeadlineInv /\ [Next]_vars => DeadlineInv' /\ [Onward]_vars
  <2> SUFFICES ASSUME IInv, DeadlineInv, [Next]_vars
               PROVE  DeadlineInv' /\ Onward
    OBVIOUS
  <2>1. DeadlineInv' /\ (late => late')
    BY DeadlineStays DEF IInv
  <2>2. Step => MovesLeft' < MovesLeft \/ mount_again
    BY StepMovesOn DEF IInv
  <2>3. MovesLeft' > MovesLeft => mount_again /\ (fg => ~late)
    <3>1. pc \in Place /\ pc' \in Place
      <4>1. IInv'
        BY StepKeepsInv
      <4>2. QED
        BY <4>1 DEF IInv, TypeOK
    <3>2. MovesLeft \in Nat /\ MovesLeft' \in Nat
      BY SMTT(30), <3>1 DEF MovesLeft, Place
    <3>3. ASSUME ~mount_again PROVE MovesLeft' <= MovesLeft
      <4>1. CASE Step
        BY <3>2, <3>3, <4>1, StepMovesOn, SMTT(30) DEF IInv
      <4>2. CASE ~Step
        BY <4>2, NobodyMovesBack DEF Next
      <4>3. QED
        BY <4>1, <4>2
    <3>4. mount_again => (fg => ~late)
      BY DEF mount_again
    <3>5. QED
      BY SMTT(30), <3>2, <3>3, <3>4
  <2>4. QED
    BY <2>1, <2>2, <2>3
<1>2. Init => DeadlineInv
  BY DEF Init, DeadlineInv
<1> HIDE DEF Onward
<1>3. Spec => [][Onward]_vars
  BY <1>1, <1>2, MountInvariance, PTL DEF Spec
<1>4. QED
  BY <1>3 DEF OnlyRetriesGoBack, Onward
=============================================================================
