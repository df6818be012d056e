------------------------------ MODULE RpcCall -------------------------------
(***************************************************************************)
(* How an NFS operation is sent: hsi_nfs3_clnt_call() with its retries and  *)
(* reconnections, and the operations that use it.                           *)
(*                                                                          *)
(* A CLIENT is an address, prog the program it was made for; live is the    *)
(* set of those that are allocated.                                         *)
(* sb->clntp and sb->acl_clntp name the clients of the NFS and of the ACL   *)
(* program.  An operation copies one of them into a local variable (saved), *)
(* hsi_nfs3_clnt_call() has its own copy (clnt), and a reconnection         *)
(* destroys the client, allocates another, at any free address, and changes *)
(* clnt and the pointer in sb, but not saved.  The use of a client that is  *)
(* not live is undefined: it ends the daemon or goes unnoticed.             *)
(*                                                                          *)
(* The server has one name that operations make or remove, and that other   *)
(* clients make and remove too.  It is "claimed" when an EXCLUSIVE create   *)
(* made it and the server still has the verifier, which is the same for     *)
(* every EXCLUSIVE create of this code in one directory: the inode number   *)
(* of the directory.  An attempt that fails may have been executed; every   *)
(* attempt has an xid of its own, so that the server does not recognise a   *)
(* repetition.                                                              *)
(***************************************************************************)
EXTENDS Naturals

CONSTANTS
    Addr,       \* addresses of CLIENT structures
    NULL,       \* no client
    MaxRetries  \* retries of hsi_nfs3_clnt_call(); 5 in the code

ASSUME RpcAssumption == NULL \notin Addr /\ MaxRetries \in Nat

VARIABLES
    prog,       \* the program of the client at an address, or "none"
    clntp,      \* sb->clntp
    acl_clntp,  \* sb->acl_clntp, NULL when the server has no ACL support
    daemon,     \* "running", "crashed" or "unmounted"
    op,         \* the operation in hand
    pc,         \*   where it is
    saved,      \*   its copy of the client pointer
    clnt,       \*   the copy of hsi_nfs3_clnt_call()
    rtry,       \*   retries made
    round,      \*   1, or 2 in its second call; 0 when it gave that one up
    res,        \*   errno, or the status the server answered
    name,       \* server: the name
    effects,    \* history: how often this operation took effect
    found,      \* history: did an attempt succeed because the name was there
    meddled,    \* history: did others change the name during this "claim"
    broken      \* history: has a reconnection failed

clientVars == <<prog, clntp, acl_clntp>>
callVars   == <<op, pc, saved, clnt, rtry, round, res>>
serverVars == <<name, effects, found>>
vars == <<clientVars, daemon, callVars, serverVars, meddled, broken>>

-----------------------------------------------------------------------------
(***************************************************************************)
(* The operations.                                                          *)
(*   client        the pointer it copies: "nfs" or "acl"                    *)
(*   effect        what it does to the name: "make" wants it new, "ensure"  *)
(*                 takes an old one too, "claim" one with its verifier;     *)
(*                 "set" changes something else                             *)
(*   again         the pointer of the second call it may make, or always    *)
(*                 makes ("always", with sb's pointer)                      *)
(*   frees         the pointer it gives to clnt_freeres(): its copy, or sb's *)
(*   frees_failed  whether it does so when the call has failed              *)
(***************************************************************************)
Operation == [client : {"nfs", "acl"},
              effect : {"none", "set", "make", "ensure", "claim", "remove"},
              again : {"none", "fresh", "always", "saved"},
              frees : {"fresh", "saved"}, frees_failed : {"no", "yes"}]

Op(client, effect, again, frees) ==
    [client |-> client, effect |-> effect, again |-> again, frees |-> frees,
     frees_failed |-> "no"]

hsi_nfs3_lookup   == Op("nfs", "none", "none", "fresh")
hsi_nfs3_getattr  == Op("nfs", "none", "none", "fresh")
hsi_nfs3_statfs   == Op("nfs", "none", "none", "fresh")
hsi_nfs3_mkdir    == Op("nfs", "make", "none", "fresh")
hsi_nfs3_symlink  == Op("nfs", "make", "none", "fresh")
hsi_nfs3_rmdir    == Op("nfs", "remove", "none", "fresh")

hsi_nfs3_setattr  == Op("nfs", "set", "none", "saved")
hsi_nfs3_read     == Op("nfs", "none", "none", "saved")
hsi_nfs3_write    == Op("nfs", "set", "none", "saved")
hsi_nfs3_readlink == Op("nfs", "none", "none", "saved")
hsi_nfs3_readdir  == Op("nfs", "none", "none", "saved")
hsi_nfs3_readdir_plus == Op("nfs", "none", "none", "saved")
hsi_nfs3_pathconf == Op("nfs", "none", "none", "saved")
hsi_nfs3_mknod    == Op("nfs", "make", "none", "saved")
hsi_nfs3_unlink   == Op("nfs", "remove", "none", "saved")
hsi_nfs3_rename   == Op("nfs", "remove", "none", "saved")

(* It frees an answer it may not have got.                                  *)
hsi_nfs3_access ==
    [Op("nfs", "none", "none", "saved") EXCEPT !.frees_failed = "yes"]

(* hsi_nfs3_create() in the mode that hsx_fuse_create() chose: EXCLUSIVE    *)
(* for O_EXCL, else GUARDED for O_TRUNC, else UNCHECKED.  EXCLUSIVE, which  *)
(* sends no attributes, is followed by SETATTR.                             *)
create_UNCHECKED == Op("nfs", "ensure", "none", "saved")
create_GUARDED   == Op("nfs", "make", "none", "saved")
create_EXCLUSIVE == Op("nfs", "claim", "always", "saved")

(* LINK and FSINFO are followed by GETATTR when the answer has no           *)
(* attributes.                                                              *)
hsi_nfs3_link     == Op("nfs", "make", "fresh", "saved")
hsi_nfs3_fsinfo   == Op("nfs", "none", "fresh", "saved")

hsi_nfs3_getxattr == Op("acl", "none", "none", "saved")
(* On a directory GETACL comes first, and SETACL uses the pointer copied    *)
(* before it.                                                               *)
hsi_nfs3_setxattr == Op("acl", "set", "saved", "saved")

Ops == {hsi_nfs3_lookup, hsi_nfs3_getattr, hsi_nfs3_statfs, hsi_nfs3_mkdir,
        hsi_nfs3_symlink, hsi_nfs3_rmdir, hsi_nfs3_setattr, hsi_nfs3_read,
        hsi_nfs3_write, hsi_nfs3_readlink, hsi_nfs3_readdir,
        hsi_nfs3_readdir_plus, hsi_nfs3_pathconf, hsi_nfs3_mknod,
        hsi_nfs3_unlink, hsi_nfs3_rename, hsi_nfs3_access,
        create_UNCHECKED, create_GUARDED, create_EXCLUSIVE,
        hsi_nfs3_link, hsi_nfs3_fsinfo, hsi_nfs3_getxattr, hsi_nfs3_setxattr}

-----------------------------------------------------------------------------
Errno  == {"EAGAIN", "ENOTCONN", "ECONNRESET", "EOTHER"}
Name   == {"absent", "plain", "claimed"}
Status == {"NFS3_OK", "NFS3ERR_EXIST", "NFS3ERR_NOENT", "NFS3ERR_OTHER"}

(* rtry counts up to the limit, and every pointer of a call came from sb.   *)
TypeOK ==
    /\ prog \in [Addr -> {"NFS", "ACL", "none"}]
    /\ clntp \in Addr
    /\ acl_clntp \in Addr \cup {NULL}
    /\ daemon \in {"running", "crashed", "unmounted"}
    /\ op \in Ops
    /\ pc \in {"idle", "call", "reconnect", "failed", "free", "reply"}
    /\ saved \in Addr \cup {NULL} /\ clnt \in Addr \cup {NULL}
    /\ pc # "idle" => saved # NULL /\ clnt # NULL
    /\ rtry \in 0 .. MaxRetries
    /\ round \in {0, 1, 2}
    /\ res \in Errno \cup Status
    /\ name \in Name
    /\ effects \in 0 .. MaxRetries + 1
    /\ found \in {"no", "yes"} /\ meddled \in {"no", "yes"}
    /\ broken \in {"no", "yes"}

(* Mounted: hsx_fuse_mount() has made the two clients, or only the first.   *)
Init ==
    /\ clntp \in Addr
    /\ acl_clntp \in (Addr \ {clntp}) \cup {NULL}
    /\ prog = [a \in Addr |-> CASE a = clntp     -> "NFS"
                              [] a = acl_clntp -> "ACL"
                              [] OTHER         -> "none"]
    /\ daemon = "running"
    /\ op = hsi_nfs3_getattr /\ pc = "idle"
    /\ saved = NULL /\ clnt = NULL
    /\ rtry = 0 /\ round = 1 /\ res = "NFS3_OK"
    /\ name \in Name
    /\ effects = 0 /\ found = "no" /\ meddled = "no"
    /\ broken = "no"

-----------------------------------------------------------------------------
(* The clients allocated and not destroyed.                                 *)
live == {a \in Addr : prog[a] # "none"}

Ptr(client) == IF client = "nfs" THEN clntp ELSE acl_clntp

(* An operation copies the pointer and calls.  setxattr calls twice on a    *)
(* directory, once (round 2, SETACL) on a file.                             *)
begin(o) ==
    /\ daemon = "running" /\ pc = "idle"
    /\ Ptr(o.client) # NULL                     \* else ENOTSUP
    /\ op' = o /\ pc' = "call"
    /\ saved' = Ptr(o.client) /\ clnt' = Ptr(o.client)
    /\ round' \in IF o.again = "saved" THEN {1, 2} ELSE {1}
    /\ rtry' = 0
    /\ UNCHANGED <<clientVars, daemon, res, serverVars, meddled, broken>>

(* The call that changes something is the first, but for setxattr the       *)
(* second.                                                                  *)
Changes == op.effect # "none" /\ round = IF op.again = "saved" THEN 2 ELSE 1

(* The server executes the call and answers st: the call takes effect; or   *)
(* it is content with what is there; or it only looks, or is refused.       *)
ServerExecutes(st) ==
    \/ /\ st = "NFS3_OK" /\ Changes
       /\ \/ op.effect = "set" /\ name' = name
          \/ op.effect \in {"make", "ensure"} /\ name = "absent" /\ name' = "plain"
          \/ op.effect = "claim" /\ name = "absent" /\ name' = "claimed"
          \/ op.effect = "remove" /\ name # "absent" /\ name' = "absent"
       /\ effects' = effects + 1
       /\ UNCHANGED found
    \/ /\ st = "NFS3_OK" /\ Changes
       /\ \/ op.effect = "ensure" /\ name # "absent"
          \/ op.effect = "claim" /\ name = "claimed"
       /\ found' = "yes"
       /\ UNCHANGED <<name, effects>>
    \/ /\ \/ st = "NFS3_OK" /\ ~Changes
          \/ st = "NFS3ERR_EXIST" /\ Changes /\ op.effect = "make" /\ name # "absent"
          \/ st = "NFS3ERR_EXIST" /\ Changes /\ op.effect = "claim" /\ name = "plain"
          \/ st = "NFS3ERR_NOENT" /\ Changes /\ op.effect = "remove" /\ name = "absent"
          \/ st = "NFS3ERR_OTHER"
       /\ UNCHANGED serverVars

(* clnt_call() succeeds, and the operation looks at the status.  It goes on *)
(* to its second call, or to clnt_freeres(); what it makes of an answer     *)
(* that is OK may fail as well.  setxattr returns 0 when GETACL was refused *)
(* or there was no memory for the list.                                     *)
call_succeeds ==
    /\ daemon = "running" /\ pc = "call"
    /\ \E st \in Status :
         /\ ServerExecutes(st)
         /\ \/ /\ st = "NFS3_OK" /\ round = 1 /\ op.again # "none"
               /\ clnt' = IF op.again = "saved" THEN saved ELSE Ptr(op.client)
               /\ round' = 2 /\ rtry' = 0 /\ pc' = "call"
               /\ UNCHANGED res
            \/ /\ ~(st = "NFS3_OK" /\ round = 1 /\ op.again = "always")
               /\ pc' = "free"
               /\ res' \in IF op.again = "saved" /\ round = 1 THEN {"NFS3_OK"}
                          ELSE IF st = "NFS3_OK" THEN {st, "EOTHER"} ELSE {st}
               /\ UNCHANGED <<clnt, round, rtry>>
    /\ UNCHANGED <<clientVars, daemon, op, saved, meddled, broken>>

(* setxattr returns 0 without SETACL, and before any other call on a file:  *)
(* a default list for what is not a directory, or no list to send.          *)
setxattr_gives_up ==
    /\ daemon = "running" /\ pc = "call"
    /\ op.again = "saved" /\ round = 2 /\ rtry = 0
    /\ pc' = "reply" /\ round' = 0 /\ res' = "NFS3_OK"
    /\ UNCHANGED <<clientVars, daemon, op, saved, clnt, rtry, serverVars,
                   meddled, broken>>

(* Mutants: one retry too many; the last error is forgotten.                *)
call_fails_late(e) ==
    /\ daemon = "running" /\ pc = "call"
    /\ UNCHANGED serverVars
    /\ IF rtry <= MaxRetries /\ e = "EAGAIN"
       THEN rtry' = rtry + 1 /\ pc' = "call"
       ELSE pc' = "failed" /\ UNCHANGED rtry
    /\ res' = e
    /\ UNCHANGED <<clientVars, daemon, op, saved, clnt, round, meddled, broken>>

call_fails_quietly(e) ==
    /\ daemon = "running" /\ pc = "call"
    /\ UNCHANGED serverVars
    /\ IF rtry < MaxRetries
       THEN rtry' = rtry + 1 /\ pc' = "call" /\ res' = e
       ELSE pc' = "failed" /\ UNCHANGED rtry /\ res' = "NFS3_OK"
    /\ UNCHANGED <<clientVars, daemon, op, saved, clnt, round, meddled, broken>>

(* clnt_call() fails with e, the request executed or not: it is sent again, *)
(* the connection is made again, or the error is returned.                  *)
call_fails(e) ==
    /\ daemon = "running" /\ pc = "call"
    /\ \/ UNCHANGED serverVars
       \/ \E st \in Status : ServerExecutes(st)
    /\ IF rtry < MaxRetries /\ e = "EAGAIN"
       THEN rtry' = rtry + 1 /\ pc' = "call"
       ELSE /\ pc' = IF rtry < MaxRetries /\ e \in {"ENOTCONN", "ECONNRESET"}
                     THEN "reconnect" ELSE "failed"
            /\ UNCHANGED rtry
    /\ res' = e
    /\ UNCHANGED <<clientVars, daemon, op, saved, clnt, round, meddled, broken>>

(* Mutants: the ACL client is not told apart; the new client is not stored; *)
(* a reconnection is not counted.                                           *)
reconnect_nfs_only(a) ==
    /\ daemon = "running" /\ pc = "reconnect"
    /\ a \notin live \ {clnt}
    /\ clntp' = a /\ prog' = [prog EXCEPT ![clnt] = "none", ![a] = "NFS"]
    /\ clnt' = a
    /\ rtry' = rtry + 1 /\ pc' = "call"
    /\ UNCHANGED <<acl_clntp, daemon, op, saved, round, res, serverVars, meddled,
                   broken>>

reconnect_not_stored(a) ==
    /\ daemon = "running" /\ pc = "reconnect"
    /\ a \notin live \ {clnt}
    /\ prog' = [prog EXCEPT ![clnt] = "none", ![a] = prog[clnt]]
    /\ clnt' = a
    /\ rtry' = rtry + 1 /\ pc' = "call"
    /\ UNCHANGED <<clntp, acl_clntp, daemon, op, saved, round, res,
                   serverVars, meddled, broken>>

reconnect_not_counted(a) ==
    /\ daemon = "running" /\ pc = "reconnect"
    /\ a \notin live \ {clnt}
    /\ clnt = clntp /\ clntp' = a
    /\ prog' = [prog EXCEPT ![clnt] = "none", ![a] = "NFS"]
    /\ clnt' = a /\ pc' = "call"
    /\ UNCHANGED <<acl_clntp, daemon, op, saved, rtry, round, res,
                   serverVars, meddled, broken>>

(* hsi_nfs3_clnt_reconnect(): clnt is destroyed before the new client is    *)
(* made.                                                                    *)
hsi_nfs3_clnt_reconnect(a) ==
    /\ daemon = "running" /\ pc = "reconnect"
    /\ a \notin live \ {clnt}
    /\ \/ /\ clnt = clntp
          /\ clntp' = a /\ prog' = [prog EXCEPT ![clnt] = "none", ![a] = "NFS"]
          /\ UNCHANGED acl_clntp
       \/ /\ clnt # clntp /\ clnt = acl_clntp
          /\ acl_clntp' = a /\ prog' = [prog EXCEPT ![clnt] = "none", ![a] = "ACL"]
          /\ UNCHANGED clntp
    /\ clnt' = a
    /\ rtry' = rtry + 1 /\ pc' = "call"
    /\ UNCHANGED <<daemon, op, saved, round, res, serverVars, meddled, broken>>

(* No connection, or no answer to the NULL call: the pointer in sb stays.   *)
reconnect_fails ==
    /\ daemon = "running" /\ pc = "reconnect"
    /\ clnt \in {clntp, acl_clntp}
    /\ prog' = [prog EXCEPT ![clnt] = "none"]
    /\ broken' = "yes"
    /\ pc' = "failed"
    /\ UNCHANGED <<clntp, acl_clntp, daemon, op, saved, clnt, rtry, round,
                   res, serverVars, meddled>>

(* The operation gets an error from hsi_nfs3_clnt_call().  It has an answer *)
(* to free if that was its second call, unless it is setxattr, which        *)
(* returns 0 when GETACL failed.                                            *)
call_returns_error ==
    /\ daemon = "running" /\ pc = "failed"
    /\ pc' = IF op.frees_failed = "yes" \/ (round = 2 /\ op.again # "saved")
             THEN "free" ELSE "reply"
    /\ res' = IF round = 1 /\ op.again = "saved" THEN "NFS3_OK" ELSE res
    /\ UNCHANGED <<clientVars, daemon, op, saved, clnt, rtry, round, serverVars,
                   meddled, broken>>

(* The pointers it may be freed with: after GETACL also sb->clntp, when     *)
(* there was no memory for the list.                                        *)
FreedWith ==
    IF op.frees = "fresh" THEN {Ptr(op.client)}
    ELSE {saved} \cup (IF op.client = "acl" /\ ~Changes THEN {clntp} ELSE {})

freeres ==
    /\ daemon = "running" /\ pc = "free"
    /\ pc' = "reply"
    /\ UNCHANGED <<clientVars, daemon, op, saved, clnt, rtry, round, res,
                   serverVars, meddled, broken>>

(* The operation returns, and its variables are gone.                       *)
reply ==
    /\ daemon = "running" /\ pc = "reply"
    /\ op' = hsi_nfs3_getattr /\ pc' = "idle"
    /\ saved' = NULL /\ clnt' = NULL
    /\ rtry' = 0 /\ round' = 1 /\ res' = "NFS3_OK"
    /\ effects' = 0 /\ found' = "no" /\ meddled' = "no"
    /\ UNCHANGED <<clientVars, daemon, name, broken>>

(* A client that is not live is used, or hsi_nfs3_clnt_reconnect() is given *)
(* one it does not know ("Bad client point.") and goes on with addr_bak     *)
(* NULL.                                                                    *)
stale_client ==
    /\ daemon = "running"
    /\ \/ pc \in {"call", "reconnect"} /\ clnt \notin live
       \/ pc = "reconnect" /\ clnt \notin {clntp, acl_clntp}
       \/ pc = "free" /\ ~(FreedWith \subseteq live)
    /\ daemon' = "crashed"
    /\ UNCHANGED <<clientVars, callVars, serverVars, meddled, broken>>

(* hsx_fuse_unmount() destroys sb->clntp and leaves sb->acl_clntp.          *)
hsx_fuse_unmount ==
    /\ daemon = "running" /\ pc = "idle"
    /\ prog' = [prog EXCEPT ![clntp] = "none"]
    /\ daemon' \in IF clntp \in live THEN {"unmounted"} ELSE {"unmounted", "crashed"}
    /\ UNCHANGED <<clntp, acl_clntp, callVars, serverVars, meddled, broken>>

(* Others make and remove the name, and the server may forget a verifier.   *)
other_client ==
    /\ name' \in Name \ {name}
    /\ meddled' = IF op.effect = "claim" THEN "yes" ELSE "no"
    /\ UNCHANGED <<clientVars, daemon, callVars, effects, found, broken>>

(* What happens to an operation once it has begun.                          *)
Proceed ==
    \/ call_succeeds
    \/ setxattr_gives_up
    \/ \E e \in Errno : call_fails(e)
    \/ \E a \in Addr : hsi_nfs3_clnt_reconnect(a)
    \/ reconnect_fails
    \/ call_returns_error
    \/ freeres
    \/ reply
    \/ stale_client

Next ==
    \/ \E o \in Ops : begin(o)
    \/ Proceed
    \/ hsx_fuse_unmount
    \/ other_client

(* clnt_call() returns within sb->timeo, whatever the network does, and     *)
(* nothing else waits.                                                      *)
Spec == Init /\ [][Next]_vars /\ WF_vars(Proceed)

-----------------------------------------------------------------------------
(* hsi_nfs3_clnt_reconnect() replaces the client in the place it came from: *)
(* as long as no reconnection has failed, sb->clntp and sb->acl_clntp are   *)
(* two clients that are allocated, each of its own program, and no other    *)
(* client is allocated, however often and for whichever program the         *)
(* connection was lost.                                                     *)
ClientsAreRight ==
    (broken = "no" /\ daemon = "running") =>
        /\ live = {clntp, acl_clntp} \ {NULL}
        /\ clntp # acl_clntp
        /\ prog[clntp] = "NFS"
        /\ acl_clntp # NULL => prog[acl_clntp] = "ACL"

(* An operation that makes one call and reads sb->clntp again for           *)
(* clnt_freeres() (lookup, getattr, statfs, mkdir, symlink, rmdir) survives *)
(* every reconnection: only a copy kept across hsi_nfs3_clnt_call(), or a   *)
(* reconnection that failed earlier, ends the daemon.                       *)
RereadIsSafe ==
    (daemon = "crashed" /\ broken = "no") => op.frees = "saved"

(* What the answer to a request says about the server, with requests lost,  *)
(* executed without an answer, repeated and undone by others.  Success      *)
(* means that it took effect, or that an UNCHECKED or EXCLUSIVE create      *)
(* found the name there, or that setxattr never came to SETACL (it returns  *)
(* 0 in that case too).  It took effect at most once per attempt, and not   *)
(* at all when it was sent once and refused.  A request that did take       *)
(* effect is refused as if it had not only where the protocol has nothing   *)
(* to recognise the repetition by, or another client came between: a        *)
(* create that is not GUARDED is otherwise safe to repeat.                  *)
AnswersAreTrue ==
    (pc = "reply" /\ op.effect # "none") =>
        /\ res = "NFS3_OK" =>
              \/ effects >= 1
              \/ found = "yes" /\ op \in {create_UNCHECKED, create_EXCLUSIVE}
              \/ op = hsi_nfs3_setxattr /\ round # 2
        /\ Changes => effects <= rtry + 1
        /\ (Changes /\ rtry = 0 /\ res \in Status \ {"NFS3_OK"}) => effects = 0
        /\ (effects >= 1 /\ res \in {"NFS3ERR_EXIST", "NFS3ERR_NOENT"}) =>
              \/ op.effect \in {"make", "remove"}
              \/ op = create_EXCLUSIVE /\ meddled = "yes"

(* The retries of hsi_nfs3_clnt_call() are bounded, so every request is     *)
(* answered, or the daemon ends, even if the server never answers.          *)
CallEnds == (pc # "idle") ~> (pc = "idle" \/ daemon # "running")

(* Every request is answered: no sequence of lost connections ends the      *)
(* daemon while one is in hand.                                             *)
ConnectionLossIsSurvived == broken = "no" => daemon # "crashed"
=============================================================================
