------------------------------- MODULE Mount --------------------------------
(***************************************************************************)
(* The life of a mount process, from main() to its end: hsx_fuse_mount()    *)
(* with its retries and failure labels, the entry in mtab, the session, and *)
(* hsx_fuse_unmount().                                                      *)
(*                                                                          *)
(* Three others remember the mount: the kernel (kmount), /etc/mtab and the  *)
(* list of mounts that the server's mountd keeps (rmtab).  A call to mountd *)
(* without an answer may have been executed.  What RpcCall and MtabLock     *)
(* model step by step is one step with their outcomes here.                 *)
(***************************************************************************)
EXTENDS Integers, Sequences, SequencesExt

CONSTANT
    OptionLists     \* the mount options tried, sequences of items

(* What options do to the mount: "bad" and "unsupported" stand for unknown  *)
(* options with and without a value, "other" for those that change nothing  *)
(* here.                                                                    *)
Item == {"retry=0", "retry=1", "mountvers=3", "nfsvers=2", "other", "bad",
         "unsupported"}

ASSUME MountAssumption == OptionLists \subseteq Seq(Item)

VARIABLES
    pc, status,     \* where the process is, and how it ended
    fg,             \* option -f
    uses_mtab,      \* it runs as root and without -n
    late,           \* has the time for retries passed
    cf_stat,        \* rpc_createerr.cf_stat
    refused,        \* mntres.fhs_status # 0
    fhandle,        \* the copy of the root handle in mntres
    clntp, acl_clntp,
    kmount,         \* kernel: the file system is mounted
    rmtab,          \* server: the client is in the list of mounts
    mtab,           \* /etc/mtab has the entry
    handlers,       \* what a signal does
    faults,         \* history: failures the process has met
    misuse          \* history: pointers used that must not be

config  == <<fg, uses_mtab>>
answer  == <<cf_stat, refused, fhandle>>
clients == <<clntp, acl_clntp>>
mounts  == <<kmount, rmtab, mtab>>
history == <<faults, misuse>>
vars == <<pc, status, config, late, answer, clients, mounts, handlers, history>>

Place == {"cmdline", "spec", "prepare", "try", "failed", "nfs_client",
          "acl_client", "super", "fuse_mount", "umnt_fail", "fmnt_fail", "umnt", "add_mtab",
          "session", "serve", "del_mtab", "unmount", "end"}
Pointer == {"NULL", "live", "destroyed"}

(* The type of the state.                                                   *)
TypeOK ==
    /\ pc \in Place
    /\ status \in {"running", "returned", "died", "killed", "crashed"}
    /\ fg \in BOOLEAN /\ uses_mtab \in BOOLEAN /\ late \in BOOLEAN
    /\ cf_stat \in {"SUCCESS", "TIMEDOUT", "SYSTEMERROR", "OTHER"}
    /\ refused \in BOOLEAN
    /\ fhandle \in {"none", "allocated", "freed"}
    /\ clntp \in Pointer /\ acl_clntp \in Pointer
    /\ kmount \in BOOLEAN /\ rmtab \in BOOLEAN /\ mtab \in BOOLEAN
    /\ handlers \in {"default", "libfuse", "die"}
    /\ faults \subseteq {"no_answer", "no_UMNT", "mtab", "no_client",
                         "reconnect", "umount"}
    /\ misuse \subseteq {"free", "NULL_client", "destroyed_client"}

Init ==
    /\ pc = "cmdline" /\ status = "running"
    /\ fg = FALSE /\ uses_mtab \in BOOLEAN
    /\ late = FALSE
    /\ cf_stat = "SUCCESS" /\ refused = FALSE /\ fhandle = "none"
    /\ clntp = "NULL" /\ acl_clntp = "NULL"
    /\ kmount = FALSE /\ rmtab = FALSE /\ mtab = FALSE
    /\ handlers = "default"
    /\ faults = {} /\ misuse = {}

At(p)   == status = "running" /\ pc = p
Goto(p) == pc' = p /\ UNCHANGED status
Return  == pc' = "end" /\ status' = "returned"
End(how) == status' = how /\ UNCHANGED pc

-----------------------------------------------------------------------------
(* The command line and the options.                                        *)

(* The flags -f and -n; fuse_daemonize() may fail.                          *)
hsi_parse_cmdline ==
    /\ At("cmdline")
    /\ fg' \in BOOLEAN
    /\ uses_mtab' \in {uses_mtab, FALSE}
    /\ Goto("spec") \/ Return
    /\ UNCHANGED <<late, answer, clients, mounts, handlers, history>>

(* host:dir has no colon, or is too long.                                   *)
hsi_parse_spec ==
    /\ At("spec")
    /\ Goto("prepare") \/ Return
    /\ UNCHANGED <<config, late, answer, clients, mounts, handlers, history>>

(* One item.  The label bad_parameter ends the parsing with success, so     *)
(* that later items are not seen.                                           *)
parse_option(p, item) ==
    IF p.ret # "parsing" THEN p
    ELSE CASE item = "retry=0"     -> [p EXCEPT !.retry = 0]
           [] item = "retry=1"     -> [p EXCEPT !.retry = 1]
           [] item = "mountvers=3" -> [p EXCEPT !.mountvers = 3]
           [] item = "nfsvers=2"   -> [p EXCEPT !.nfsvers = 2]
           [] item = "bad"         -> [p EXCEPT !.ret = "0"]
           [] item = "unsupported" -> [p EXCEPT !.ret = "1"]
           [] item = "other"       -> p

hsi_nfs3_parse_options(opts) ==
    FoldLeft(parse_option,
             [retry |-> -1, mountvers |-> 0, nfsvers |-> 0, ret |-> "parsing"],
             opts)

(* Any mountvers is refused, 3 too.                                         *)
hsi_nfsmnt_check_compat(p) == p.nfsvers \in {0, 3} /\ p.mountvers = 0

(* Minutes for which a foreground mount is tried.                           *)
hsi_validate_mount_data(p) == IF p.retry = -1 THEN 10000 ELSE p.retry

(* The host name does not resolve.                                          *)
hsi_gethostbyname_fails ==
    /\ At("prepare")
    /\ Return
    /\ UNCHANGED <<config, late, answer, clients, mounts, handlers, history>>

(* From the options to the loop of hsx_fuse_mount().                        *)
prepare ==
    /\ At("prepare")
    /\ \E opts \in OptionLists :
          LET p == hsi_nfs3_parse_options(opts)
          IN IF p.ret # "1" /\ hsi_nfsmnt_check_compat(p)
             THEN Goto("try") /\ late' = (hsi_validate_mount_data(p) = 0)
             ELSE Return /\ UNCHANGED late
    /\ UNCHANGED <<config, answer, clients, mounts, handlers, history>>

-----------------------------------------------------------------------------
(* hsx_fuse_mount(): asking mountd.                                         *)

(* The client for mountd cannot be made, which sets rpc_createerr; the      *)
(* call is not answered, or its result not copied, which does not; or       *)
(* mountd answers.                                                          *)
hsi_nfs3_mount ==
    /\ At("try")
    /\ \/ /\ cf_stat' \in {"TIMEDOUT", "SYSTEMERROR", "OTHER"}
          /\ Goto("failed")
          /\ UNCHANGED <<refused, fhandle, rmtab, faults>>
       \/ /\ rmtab' \in {rmtab, TRUE}
          /\ cf_stat' \in {cf_stat, "SUCCESS"}
          /\ faults' = faults \cup {"no_answer"}
          /\ fhandle' \in {fhandle, "allocated"}
          /\ Goto("failed")
          /\ UNCHANGED refused
       \/ /\ refused' \in BOOLEAN
          /\ rmtab' = (rmtab \/ ~refused')
          /\ fhandle' = "allocated"
          /\ Goto("nfs_client")
          /\ UNCHANGED <<cf_stat, faults>>
    /\ UNCHANGED <<config, late, clients, kmount, mtab, handlers, misuse>>

mount_again_NoDeadline ==
    /\ At("failed")
    /\ fg => cf_stat \in {"TIMEDOUT", "SYSTEMERROR"}
    /\ Goto("try")
    /\ UNCHANGED <<config, late, answer, clients, mounts, handlers, history>>

(* A foreground mount is tried again after a time-out and until the time    *)
(* has passed; one in the background sleeps a second, always.  Whether      *)
(* RPC_SYSTEMERROR is a time-out is up to errno.                            *)
mount_again ==
    /\ At("failed")
    /\ fg => cf_stat \in {"TIMEDOUT", "SYSTEMERROR"} /\ ~late
    /\ Goto("try")
    /\ UNCHANGED <<config, late, answer, clients, mounts, handlers, history>>

mount_gives_up ==
    /\ At("failed")
    /\ fg /\ (cf_stat # "TIMEDOUT" \/ late)
    /\ Return
    /\ UNCHANGED <<config, late, answer, clients, mounts, handlers, history>>

-----------------------------------------------------------------------------
(* hsx_fuse_mount(): clients, super block, FUSE, and the failure labels.    *)

nfs_client ==
    /\ At("nfs_client")
    /\ \/ clntp' = "live" /\ Goto("acl_client") /\ UNCHANGED faults
       \/ /\ Goto("umnt_fail") /\ UNCHANGED clntp
          /\ faults' = faults \cup {"no_client"}
    /\ UNCHANGED <<config, late, answer, acl_clntp, mounts, handlers, misuse>>

(* Only now is the status of mountd's answer looked at.                     *)
acl_client ==
    /\ At("acl_client")
    /\ acl_clntp' \in {"live", "NULL"}
    /\ IF refused THEN Return ELSE Goto("super")
    /\ UNCHANGED <<config, late, answer, clntp, mounts, handlers, history>>

(* FSINFO, GETATTR and PATHCONF, each of which may fail, lose the client in *)
(* a failed reconnection, or end the process (RpcCall).                     *)
hsi_fill_super ==
    /\ At("super")
    /\ \/ Goto("fuse_mount") /\ fhandle' = "freed" /\ UNCHANGED <<clntp, faults>>
       \/ Goto("umnt_fail") /\ UNCHANGED <<fhandle, clntp, faults>>
       \/ /\ Goto("umnt_fail")
          /\ clntp' = "destroyed" /\ faults' = faults \cup {"reconnect"}
          /\ UNCHANGED fhandle
       \/ End("crashed") /\ UNCHANGED <<fhandle, clntp, faults>>
    /\ UNCHANGED <<config, late, cf_stat, refused, acl_clntp, mounts, handlers,
                   misuse>>

fuse_mount_WrongLabel ==
    /\ At("fuse_mount")
    /\ \/ kmount' = TRUE /\ Goto("add_mtab")
       \/ Goto("umnt_fail") /\ UNCHANGED kmount
    /\ UNCHANGED <<config, late, answer, clients, rmtab, mtab, handlers, history>>

fuse_mount ==
    /\ At("fuse_mount")
    /\ \/ kmount' = TRUE /\ Goto("add_mtab")
       \/ Goto("fmnt_fail") /\ UNCHANGED kmount
    /\ UNCHANGED <<config, late, answer, clients, rmtab, mtab, handlers, history>>

umnt_fail ==
    /\ At("umnt_fail")
    /\ misuse' = misuse \cup (IF fhandle = "freed" THEN {"free"} ELSE {})
    /\ fhandle' = "freed"
    /\ Goto("fmnt_fail")
    /\ UNCHANGED <<config, late, cf_stat, refused, clients, mounts, handlers,
                   faults>>

(* clnt_destroy(super->clntp), then to p.  The macro reads the client, so   *)
(* that NULL ends the process and a client destroyed before may.            *)
DestroyClient(p) ==
    \/ /\ clntp = "live" /\ Goto(p) /\ UNCHANGED misuse
    \/ /\ clntp = "NULL" /\ End("crashed")
       /\ misuse' = misuse \cup {"NULL_client"}
    \/ /\ clntp = "destroyed" /\ (Goto(p) \/ End("crashed"))
       /\ misuse' = misuse \cup {"destroyed_client"}

fmnt_fail_NoUmnt ==
    /\ At("fmnt_fail")
    /\ clntp' = "destroyed" /\ acl_clntp' = "destroyed"
    /\ Return
    /\ UNCHANGED <<config, late, answer, mounts, handlers, history>>

fmnt_fail ==
    /\ At("fmnt_fail")
    /\ acl_clntp' = IF acl_clntp = "live" THEN "destroyed" ELSE acl_clntp
    /\ DestroyClient("umnt")
    /\ clntp' = IF clntp = "live" THEN "destroyed" ELSE clntp
    /\ UNCHANGED <<config, late, answer, mounts, handlers, faults>>

(* The last call of a failed mount and of hsx_fuse_unmount().               *)
hsi_nfs3_unmount ==
    /\ At("umnt")
    /\ \/ rmtab' = FALSE /\ UNCHANGED faults
       \/ rmtab' \in {rmtab, FALSE} /\ faults' = faults \cup {"no_UMNT"}
    /\ Return
    /\ UNCHANGED <<config, late, answer, clients, kmount, mtab, handlers, misuse>>

-----------------------------------------------------------------------------
(* main(): mtab and the session.                                            *)

(* lock_mtab() sets handlers for most signals and leaves them set; it, or a *)
(* later error, may end the process by die(), with mtab as it was.  A mtab  *)
(* that is missing or read-only is not locked.                              *)
WithMtab(entry, next) ==
    \/ ~uses_mtab /\ Goto(next) /\ UNCHANGED <<mtab, handlers, faults>>
    \/ /\ uses_mtab /\ handlers' = "die"
       /\ mtab' = entry /\ Goto(next) /\ UNCHANGED faults
    \/ /\ uses_mtab /\ handlers' \in {handlers, "die"}
       /\ Goto(next) \/ End("died")
       /\ faults' = faults \cup {"mtab"}
       /\ UNCHANGED mtab

hsi_add_mtab ==
    /\ At("add_mtab")
    /\ WithMtab(TRUE, "session")
    /\ UNCHANGED <<config, late, answer, clients, kmount, rmtab, misuse>>

session_NoHandlers ==
    /\ At("session")
    /\ Goto("serve") \/ Goto("del_mtab")
    /\ UNCHANGED <<config, late, answer, clients, mounts, handlers, history>>

(* fuse_lowlevel_new() and fuse_set_signal_handlers(), which only replaces  *)
(* default handlers; either may fail.                                       *)
session ==
    /\ At("session")
    /\ \/ /\ Goto("serve")
          /\ handlers' = IF handlers = "default" THEN "libfuse" ELSE handlers
       \/ Goto("del_mtab") /\ UNCHANGED handlers
    /\ UNCHANGED <<config, late, answer, clients, mounts, history>>

EndSession ==
    /\ Goto("del_mtab")
    /\ handlers' = IF handlers = "libfuse" THEN "default" ELSE handlers

(* fuse_session_loop() returns when the kernel has unmounted, or on an      *)
(* error of the device.                                                     *)
session_ends ==
    /\ At("serve")
    /\ EndSession
    /\ UNCHANGED <<config, late, answer, clients, mounts, history>>

(* A request meets a lost connection that cannot be made again, or ends the *)
(* process (RpcCall, FuseRefs).                                             *)
serve_fails ==
    /\ At("serve")
    /\ \/ /\ clntp' = "destroyed" /\ faults' = faults \cup {"reconnect"}
          /\ UNCHANGED <<pc, status>>
       \/ End("crashed") /\ UNCHANGED <<clntp, faults>>
    /\ UNCHANGED <<config, late, answer, acl_clntp, mounts, handlers, misuse>>

hsi_del_mtab_Unmounts ==
    /\ At("del_mtab")
    /\ Goto("unmount")
    /\ kmount' = FALSE
    /\ UNCHANGED <<config, late, answer, clients, rmtab, mtab, handlers, history>>

hsi_del_mtab ==
    /\ At("del_mtab")
    /\ WithMtab(FALSE, "unmount")
    /\ UNCHANGED <<config, late, answer, clients, kmount, rmtab, misuse>>

(* The ACL client is not given up.                                          *)
hsx_fuse_unmount ==
    /\ At("unmount")
    /\ kmount' = FALSE
    /\ DestroyClient("umnt")
    /\ clntp' = "destroyed"
    /\ UNCHANGED <<config, late, answer, acl_clntp, rmtab, mtab, handlers, faults>>

(* SIGHUP, SIGINT or SIGTERM.                                               *)
signal ==
    /\ status = "running"
    /\ \/ handlers = "default" /\ End("killed") /\ UNCHANGED handlers
       \/ handlers = "die" /\ End("died") /\ UNCHANGED handlers
       \/ handlers = "libfuse" /\ EndSession
    /\ UNCHANGED <<config, late, answer, clients, mounts, history>>

-----------------------------------------------------------------------------
(* The environment.                                                         *)

umount ==
    /\ kmount /\ kmount' = FALSE
    /\ faults' = faults \cup {"umount"}
    /\ UNCHANGED <<pc, status, config, late, answer, clients, rmtab, mtab,
                   handlers, misuse>>

time_passes ==
    /\ pc \in {"try", "failed"} /\ ~late
    /\ late' = TRUE
    /\ UNCHANGED <<pc, status, config, answer, clients, mounts, handlers, history>>

Step ==
    \/ hsi_parse_cmdline \/ hsi_parse_spec \/ hsi_gethostbyname_fails
    \/ prepare \/ hsi_nfs3_mount \/ mount_again \/ mount_gives_up
    \/ nfs_client \/ acl_client \/ hsi_fill_super \/ fuse_mount
    \/ umnt_fail \/ fmnt_fail \/ hsi_nfs3_unmount
    \/ hsi_add_mtab \/ session \/ hsi_del_mtab \/ hsx_fuse_unmount

Next == Step \/ session_ends \/ serve_fails \/ signal \/ umount \/ time_passes

(* The process is scheduled and clnt_call() times out; the clock goes on.   *)
(* Nobody need end a session.                                               *)
Spec == Init /\ [][Next]_vars /\ WF_vars(Step) /\ WF_vars(time_passes)

-----------------------------------------------------------------------------
(* Properties.                                                              *)

Ended == status # "running"

(***************************************************************************)
(* When main() returns, from whichever label of hsx_fuse_mount() or after a *)
(* session, the file system is not mounted, mtab has no entry unless it     *)
(* could not be changed, and mountd does not list the client unless one of  *)
(* its answers was lost.                                                    *)
(***************************************************************************)
NothingLeftBehind ==
    status = "returned" =>
        /\ ~kmount
        /\ mtab => "mtab" \in faults
        /\ rmtab => faults \cap {"no_answer", "no_UMNT"} # {}

(***************************************************************************)
(* mtab has the entry only while the file system is mounted: it is added    *)
(* after fuse_mount() and removed before fuse_unmount().  An umount by      *)
(* somebody else and an mtab that cannot be changed are the exceptions.     *)
(***************************************************************************)
MtabFollowsKernel ==
    mtab => kmount \/ faults \cap {"umount", "mtab"} # {}

(***************************************************************************)
(* A signal leaves a mounted file system without its daemon only outside    *)
(* the session, or when lock_mtab() had set its handlers, which             *)
(* fuse_set_signal_handlers() does not replace.                             *)
(***************************************************************************)
SignalsEndSession ==
    Ended /\ kmount /\ pc = "serve" =>
        status = "crashed" \/ (status = "died" /\ uses_mtab)

(***************************************************************************)
(* The labels of hsx_fuse_mount() free the root handle once, and destroy no *)
(* client twice unless a reconnection failed before.  A missing client is   *)
(* destroyed only after the NFS client could not be made.                   *)
(***************************************************************************)
PointersUsedOnce ==
    /\ "free" \notin misuse
    /\ "destroyed_client" \in misuse => "reconnect" \in faults
    /\ "NULL_client" \in misuse => "no_client" \in faults

(***************************************************************************)
(* A foreground mount succeeds or gives up, even if the server never        *)
(* answers: the loop of hsx_fuse_mount() ends at its deadline.              *)
(***************************************************************************)
ForegroundMountEnds ==
    (fg /\ pc = "try") ~> (pc \notin {"try", "failed"} \/ Ended)
=============================================================================
