--------------------------- MODULE RpcCallProofs ----------------------------
(***************************************************************************)
(* Proofs of the safety properties of RpcCall, for any set of addresses and *)
(* any number of retries.                                                   *)
(***************************************************************************)
EXTENDS RpcCall, TLAPS

USE ZenonT(60)

(* The copy of hsi_nfs3_clnt_call() is the pointer in sb, except in the     *)
(* second call of setxattr, and the pointer an operation began with is      *)
(* still there, though perhaps another one.                                 *)
PointersInv ==
    /\ (/\ broken = "no" /\ daemon = "running" /\ pc \in {"call", "reconnect"}
        /\ ~(round = 2 /\ op.again = "saved"))
            => clnt = Ptr(op.client)
    /\ pc # "idle" => Ptr(op.client) # NULL

(* How often an operation can have taken effect where it is.                *)
EffectsInv ==
    /\ (Changes /\ pc = "call") => effects <= rtry
    /\ Changes => effects <= rtry + 1
    /\ (round = 2 /\ op.again # "saved" /\ op.effect # "none")
            => effects >= 1 \/ found = "yes"
    /\ (round # 2 /\ op.again = "saved") => effects = 0
    /\ op.effect = "none" => effects = 0
    /\ round = 0 => op.again = "saved" /\ pc = "reply"

(* What makes an EXCLUSIVE create safe to repeat: the name it made keeps    *)
(* its verifier, unless another client changes it; and only the creates     *)
(* that say so are content with a name that is there.                       *)
NameInv ==
    /\ pc = "idle" => effects = 0 /\ found = "no"
    /\ found = "yes" => op.effect \in {"ensure", "claim"}
    /\ (op.effect = "claim" /\ effects >= 1 /\ meddled = "no") => name = "claimed"

ResultInv ==
    /\ pc \in {"failed", "reconnect"} => res \in Errno
    /\ pc = "reconnect" => rtry < MaxRetries
    /\ (pc \in {"free", "reply"} /\ op.effect # "none") =>
          /\ res = "NFS3_OK" => \/ effects >= 1 \/ found = "yes"
                                \/ op.again = "saved" /\ round # 2
          /\ (Changes /\ rtry = 0 /\ res \in Status \ {"NFS3_OK"}) => effects = 0
          /\ (effects >= 1 /\ res \in {"NFS3ERR_EXIST", "NFS3ERR_NOENT"}) =>
                \/ op.effect \in {"make", "remove"}
                \/ op.effect = "claim" /\ meddled = "yes"

IInv == TypeOK /\ ClientsAreRight /\ RereadIsSafe /\ PointersInv
        /\ EffectsInv /\ NameInv /\ ResultInv

-----------------------------------------------------------------------------
(* Every operation that reads sb->clntp again makes one call, and the two   *)
(* creates and setxattr are alone in what they do.                          *)
LEMMA OpsFacts ==
    ASSUME NEW o \in Ops
    PROVE  /\ o \in Operation
           /\ o.frees = "fresh" => o.again = "none"
           /\ o.effect = "ensure" => o = create_UNCHECKED
           /\ o.effect = "claim" => o = create_EXCLUSIVE
           /\ o.again = "saved" => o = hsi_nfs3_setxattr
BY SMTT(60) DEF Ops, Op, Operation, hsi_nfs3_lookup, hsi_nfs3_getattr, hsi_nfs3_statfs,
       hsi_nfs3_mkdir, hsi_nfs3_symlink, hsi_nfs3_rmdir, hsi_nfs3_setattr,
       hsi_nfs3_read, hsi_nfs3_write, hsi_nfs3_readlink, hsi_nfs3_readdir,
       hsi_nfs3_readdir_plus, hsi_nfs3_pathconf, hsi_nfs3_mknod, hsi_nfs3_unlink,
       hsi_nfs3_rename, hsi_nfs3_access, create_UNCHECKED, create_GUARDED,
       create_EXCLUSIVE, hsi_nfs3_link,
       hsi_nfs3_fsinfo, hsi_nfs3_getxattr, hsi_nfs3_setxattr

LEMMA IdleOp ==
    /\ hsi_nfs3_getattr \in Ops
    /\ hsi_nfs3_getattr.effect = "none"
    /\ hsi_nfs3_getattr.again = "none"
BY DEF Ops, hsi_nfs3_getattr, Op

LEMMA InitEstablishes == Init => IInv
<1> SUFFICES ASSUME Init PROVE IInv
    OBVIOUS
<1> USE RpcAssumption, IdleOp DEF Init
<1>1. TypeOK
    BY SMTT(60) DEF TypeOK, Status
<1>2. ClientsAreRight
  <2>1. clntp # acl_clntp /\ clntp \in Addr /\ acl_clntp \in Addr \cup {NULL}
    OBVIOUS
  <2>2. /\ prog[clntp] = "NFS"
        /\ acl_clntp # NULL => prog[acl_clntp] = "ACL"
        /\ \A a \in Addr \ {clntp, acl_clntp} : prog[a] = "none"
    BY SMTT(60), <2>1
  <2>3. live = {clntp, acl_clntp} \ {NULL}
    BY SMTT(60), <2>1, <2>2 DEF live
  <2>4. QED
    BY <2>1, <2>2, <2>3 DEF ClientsAreRight
<1>3. RereadIsSafe /\ PointersInv
    BY DEF RereadIsSafe, PointersInv
<1>4. EffectsInv /\ NameInv /\ ResultInv
    BY SMTT(60) DEF EffectsInv, NameInv, ResultInv, Changes
<1>5. QED
    BY <1>1, <1>2, <1>3, <1>4 DEF IInv

-----------------------------------------------------------------------------
(* An operation begins.                                                     *)
LEMMA BeginKeeps ==
    ASSUME IInv, NEW o \in Ops, begin(o)
    PROVE  IInv'
<1> USE RpcAssumption DEF IInv, begin, clientVars, serverVars
<1>0. o \in Operation /\ (o.frees = "fresh" => o.again = "none")
    BY OpsFacts
<1>1. TypeOK'
    BY SMTT(60), <1>0 DEF TypeOK, Ptr
<1>2. ClientsAreRight' /\ RereadIsSafe'
    BY DEF ClientsAreRight, RereadIsSafe, live
<1>3. PointersInv'
    BY DEF PointersInv, Ptr
<1>4. EffectsInv'
    BY SMTT(60), <1>0 DEF EffectsInv, NameInv, Changes, Operation
<1>5. NameInv' /\ ResultInv'
    BY SMTT(60) DEF NameInv, ResultInv
<1>6. QED
    BY <1>1, <1>2, <1>3, <1>4, <1>5

(* What the server does in one attempt.                                     *)
LEMMA ExecutionCounts ==
    ASSUME TypeOK, EffectsInv, NEW st \in Status, ServerExecutes(st)
    PROVE  /\ name' \in Name
           /\ effects' \in Nat
           /\ ~Changes => effects' = effects
           /\ Changes => effects' = effects \/ effects' = effects + 1
           /\ found' \in {"no", "yes"} /\ (found = "yes" => found' = "yes")
           /\ (Changes /\ st = "NFS3_OK") => effects' = effects + 1 \/ found' = "yes"
           /\ st # "NFS3_OK" => effects' = effects
BY SMTT(60), RpcAssumption DEF TypeOK, ServerExecutes, Name, serverVars

(* And to the name.                                                         *)
LEMMA ExecutionNames ==
    ASSUME IInv, NEW st \in Status, ServerExecutes(st), pc = "call",
           UNCHANGED <<op, meddled>>
    PROVE  /\ found' = "yes" => op.effect \in {"ensure", "claim"}
           /\ (op.effect = "claim" /\ effects' >= 1 /\ meddled' = "no")
                 => name' = "claimed"
           /\ (effects' >= 1 /\ st \in {"NFS3ERR_EXIST", "NFS3ERR_NOENT"}) =>
                 \/ op.effect \in {"make", "remove"}
                 \/ op.effect = "claim" /\ meddled' = "yes"
BY SMTT(60), RpcAssumption DEF IInv, TypeOK, NameInv, ServerExecutes, serverVars

LEMMA CallSucceedsKeeps ==
    ASSUME IInv, call_succeeds
    PROVE  IInv'
<1> USE RpcAssumption DEF IInv, clientVars, serverVars
<1>1. PICK st \in Status :
        /\ ServerExecutes(st)
        /\ \/ /\ st = "NFS3_OK" /\ round = 1 /\ op.again # "none"
              /\ clnt' = IF op.again = "saved" THEN saved ELSE Ptr(op.client)
              /\ round' = 2 /\ rtry' = 0 /\ pc' = "call"
              /\ UNCHANGED res
           \/ /\ ~(st = "NFS3_OK" /\ round = 1 /\ op.again = "always")
              /\ pc' = "free"
              /\ res' \in IF op.again = "saved" /\ round = 1 THEN {"NFS3_OK"}
                         ELSE IF st = "NFS3_OK" THEN {st, "EOTHER"} ELSE {st}
              /\ UNCHANGED <<clnt, round, rtry>>
    BY DEF call_succeeds
<1>2. /\ daemon = "running" /\ pc = "call"
      /\ UNCHANGED <<clientVars, daemon, op, saved, meddled, broken>>
    BY DEF call_succeeds
<1>3. /\ name' \in Name
      /\ effects' \in Nat
      /\ ~Changes => effects' = effects
      /\ Changes => effects' = effects \/ effects' = effects + 1
      /\ found' \in {"no", "yes"} /\ (found = "yes" => found' = "yes")
      /\ (Changes /\ st = "NFS3_OK") => effects' = effects + 1 \/ found' = "yes"
      /\ st # "NFS3_OK" => effects' = effects
    BY <1>1, ExecutionCounts
<1>4. op \in Operation
    BY OpsFacts DEF TypeOK
<1>5. rtry \in Nat /\ rtry <= MaxRetries /\ effects \in Nat /\ round \in {0, 1, 2}
    BY SMTT(60) DEF TypeOK
<1>6. effects' <= MaxRetries + 1
    BY SMTT(60), <1>2, <1>3, <1>5 DEF EffectsInv, TypeOK
<1>7. TypeOK'
  <2>1. Ptr(op.client) \in Addr \cup {NULL}
    BY DEF Ptr, TypeOK
  <2>2. CASE pc' = "call"
    <3>1. clnt' \in Addr \cup {NULL} /\ clnt' # NULL
        BY <1>1, <1>2, <2>2, <2>1 DEF TypeOK, PointersInv
    <3>2. QED
        BY SMTT(60), <3>1, <1>1, <1>2, <1>3, <1>6, <2>2 DEF TypeOK
  <2>3. CASE pc' = "free"
    BY SMTT(60), <1>1, <1>2, <1>3, <1>6, <2>3 DEF TypeOK, Status, Errno
  <2>4. QED
    BY <1>1, <2>2, <2>3
<1>8. ClientsAreRight' /\ RereadIsSafe'
    BY <1>2 DEF ClientsAreRight, RereadIsSafe, live
<1>9. PointersInv'
    BY <1>1, <1>2, <1>4 DEF PointersInv, Ptr, Operation
<1>10. EffectsInv'
    BY SMTT(60), <1>1, <1>2, <1>3, <1>4, <1>5 DEF EffectsInv, Changes, Operation
<1>11. ResultInv'
  <2>1. (effects' >= 1 /\ st \in {"NFS3ERR_EXIST", "NFS3ERR_NOENT"}) =>
          \/ op.effect \in {"make", "remove"}
          \/ op.effect = "claim" /\ meddled' = "yes"
    BY <1>1, <1>2, ExecutionNames
  <2>2. QED
    BY SMTT(60), <2>1, <1>1, <1>2, <1>3, <1>4, <1>5
       DEF EffectsInv, ResultInv, Changes, Operation, Status
<1>12. NameInv'
    BY <1>1, <1>2, ExecutionNames DEF NameInv
<1>13. QED
    BY <1>7, <1>8, <1>9, <1>10, <1>11, <1>12

LEMMA CallFailsKeeps ==
    ASSUME IInv, NEW e \in Errno, call_fails(e)
    PROVE  IInv'
<1> USE RpcAssumption DEF IInv, clientVars, serverVars
<1>1. /\ daemon = "running" /\ pc = "call" /\ res' = e
      /\ UNCHANGED <<clientVars, daemon, op, saved, clnt, round, meddled, broken>>
    BY DEF call_fails
<1>2. \/ rtry < MaxRetries /\ rtry' = rtry + 1 /\ pc' = "call"
      \/ rtry < MaxRetries /\ rtry' = rtry /\ pc' = "reconnect"
      \/ rtry' = rtry /\ pc' = "failed"
    BY DEF call_fails
<1>3. /\ name' \in Name
      /\ effects' \in Nat
      /\ ~Changes => effects' = effects
      /\ Changes => effects' = effects \/ effects' = effects + 1
      /\ found' \in {"no", "yes"} /\ (found = "yes" => found' = "yes")
  <2>1. CASE UNCHANGED serverVars
    BY SMTT(60), <2>1 DEF TypeOK
  <2>2. CASE \E st \in Status : ServerExecutes(st)
    BY <2>2, ExecutionCounts
  <2>3. QED
    BY <2>1, <2>2 DEF call_fails
<1>4. rtry \in Nat /\ rtry <= MaxRetries /\ effects \in Nat /\ round \in {0, 1, 2}
    BY SMTT(60) DEF TypeOK
<1>5. effects' <= MaxRetries + 1
    BY SMTT(60), <1>1, <1>3, <1>4 DEF EffectsInv, TypeOK
<1>6. op \in Operation
    BY OpsFacts DEF TypeOK
<1>7. TypeOK'
    BY SMTT(60), <1>1, <1>2, <1>3, <1>4, <1>5 DEF TypeOK
<1>8. ClientsAreRight' /\ RereadIsSafe'
    BY <1>1 DEF ClientsAreRight, RereadIsSafe, live
<1>9. PointersInv'
    BY <1>1, <1>2 DEF PointersInv, Ptr
<1>10. EffectsInv'
    BY SMTT(60), <1>1, <1>2, <1>3, <1>4, <1>6 DEF EffectsInv, Changes, Operation
<1>11. ResultInv'
    BY <1>1, <1>2, <1>4 DEF ResultInv
<1>12. NameInv'
  <2>1. CASE UNCHANGED serverVars
    BY <2>1, <1>1, <1>2 DEF NameInv
  <2>2. CASE \E st \in Status : ServerExecutes(st)
    BY <2>2, <1>1, <1>2, ExecutionNames DEF NameInv
  <2>3. QED
    BY <2>1, <2>2 DEF call_fails
<1>13. QED
    BY <1>7, <1>8, <1>9, <1>10, <1>11, <1>12

(* setxattr gives up before it has changed anything.                        *)
LEMMA GivingUpKeeps ==
    ASSUME IInv, setxattr_gives_up
    PROVE  IInv'
<1> USE RpcAssumption DEF IInv, setxattr_gives_up, clientVars, serverVars
<1>1. TypeOK'
    BY SMTT(60) DEF TypeOK, Status
<1>2. ClientsAreRight' /\ RereadIsSafe' /\ PointersInv'
    BY DEF ClientsAreRight, RereadIsSafe, PointersInv, Ptr, live
<1>3. effects = 0
    BY SMTT(60) DEF EffectsInv, Changes, TypeOK
<1>4. EffectsInv' /\ NameInv' /\ ResultInv'
    BY SMTT(60), <1>3 DEF EffectsInv, NameInv, ResultInv, Changes, Status, TypeOK
<1>5. QED
    BY <1>1, <1>2, <1>4

(* The new client takes the place of the one that was destroyed.            *)
LEMMA ReconnectKeeps ==
    ASSUME IInv, NEW a \in Addr, hsi_nfs3_clnt_reconnect(a)
    PROVE  IInv'
<1> USE RpcAssumption DEF IInv, hsi_nfs3_clnt_reconnect, serverVars
<1>1. op \in Operation
    BY OpsFacts DEF TypeOK
<1>2. rtry \in Nat /\ rtry < MaxRetries /\ effects \in Nat
    BY SMTT(60) DEF TypeOK, ResultInv
<1>3. TypeOK'
    BY SMTT(60), <1>2 DEF TypeOK
<1>4. ClientsAreRight'
  <2> SUFFICES ASSUME broken = "no"
               PROVE  ClientsAreRight'
    BY DEF ClientsAreRight
  <2>1. /\ prog \in [Addr -> {"NFS", "ACL", "none"}]
        /\ clntp \in Addr /\ acl_clntp \in Addr \cup {NULL} /\ clntp # acl_clntp
        /\ prog[clntp] = "NFS" /\ (acl_clntp # NULL => prog[acl_clntp] = "ACL")
        /\ live = {clntp, acl_clntp} \ {NULL}
        /\ clnt \in Addr
    BY DEF TypeOK, ClientsAreRight
  <2>2. \A b \in Addr \ {clntp, acl_clntp} : prog[b] = "none"
    BY <2>1 DEF live
  <2>3. a # clnt => a \notin {clntp, acl_clntp}
    BY <2>1
  <2>4. CASE clnt = clntp /\ clntp' = a /\ UNCHANGED acl_clntp
             /\ prog' = [prog EXCEPT ![clnt] = "none", ![a] = "NFS"]
    <3>1. /\ clntp' # acl_clntp'
          /\ prog'[clntp'] = "NFS" /\ (acl_clntp' # NULL => prog'[acl_clntp'] = "ACL")
          /\ \A b \in Addr \ {clntp', acl_clntp'} : prog'[b] = "none"
        BY SMTT(60), <2>1, <2>2, <2>3, <2>4
    <3>2. live' = {clntp', acl_clntp'} \ {NULL}
        BY SMTT(60), <3>1, <2>1, <2>4 DEF live
    <3>3. QED
        BY <3>1, <3>2 DEF ClientsAreRight
  <2>5. CASE clnt # clntp /\ clnt = acl_clntp /\ acl_clntp' = a /\ UNCHANGED clntp
             /\ prog' = [prog EXCEPT ![clnt] = "none", ![a] = "ACL"]
    <3>1. /\ clntp' # acl_clntp'
          /\ prog'[clntp'] = "NFS" /\ prog'[acl_clntp'] = "ACL"
          /\ \A b \in Addr \ {clntp', acl_clntp'} : prog'[b] = "none"
        BY SMTT(60), <2>1, <2>2, <2>3, <2>5
    <3>2. live' = {clntp', acl_clntp'} \ {NULL}
        BY SMTT(60), <3>1, <2>1, <2>5 DEF live
    <3>3. QED
        BY <3>1, <3>2 DEF ClientsAreRight
  <2>6. QED
    BY <2>4, <2>5
<1>5. RereadIsSafe'
    BY DEF RereadIsSafe
<1>6. PointersInv'
    BY SMTT(60), <1>1 DEF PointersInv, ClientsAreRight, Ptr, TypeOK, Operation
<1>7. EffectsInv'
    BY SMTT(60), <1>2 DEF EffectsInv, Changes
<1>8. NameInv' /\ ResultInv'
    BY DEF NameInv, ResultInv
<1>9. QED
    BY <1>3, <1>4, <1>5, <1>6, <1>7, <1>8

LEMMA ReconnectFailsKeeps ==
    ASSUME IInv, reconnect_fails
    PROVE  IInv'
<1> USE DEF IInv, reconnect_fails, serverVars
<1>1. TypeOK'
    BY DEF TypeOK
<1>2. ClientsAreRight' /\ RereadIsSafe' /\ PointersInv'
    BY DEF ClientsAreRight, RereadIsSafe, PointersInv, Ptr, live
<1>3. EffectsInv' /\ NameInv' /\ ResultInv'
    BY DEF EffectsInv, NameInv, ResultInv, Changes
<1>4. QED
    BY <1>1, <1>2, <1>3

(* The operation returns from its call, frees the answer and replies.       *)
LEMMA ReturnKeeps ==
    ASSUME IInv, call_returns_error \/ freeres \/ reply
    PROVE  IInv'
<1> USE RpcAssumption DEF IInv, clientVars, serverVars
<1>1. CASE call_returns_error
  <2> USE <1>1 DEF call_returns_error
  <2>1. TypeOK'
    BY DEF TypeOK, Status, Errno
  <2>2. ClientsAreRight' /\ RereadIsSafe' /\ PointersInv'
    BY DEF ClientsAreRight, RereadIsSafe, PointersInv, Ptr, live
  <2>3. EffectsInv'
    BY DEF EffectsInv, Changes
  <2>4. NameInv'
    BY DEF NameInv
  <2>5. ResultInv'
    BY SMTT(60) DEF ResultInv, Changes, Errno, Status
  <2>6. QED
    BY <2>1, <2>2, <2>3, <2>4, <2>5
<1>2. CASE freeres
  <2> USE <1>2 DEF freeres
  <2>1. TypeOK'
    BY DEF TypeOK
  <2>2. ClientsAreRight' /\ RereadIsSafe' /\ PointersInv'
    BY DEF ClientsAreRight, RereadIsSafe, PointersInv, Ptr, live
  <2>3. EffectsInv' /\ NameInv' /\ ResultInv'
    BY DEF EffectsInv, NameInv, ResultInv, Changes
  <2>4. QED
    BY <2>1, <2>2, <2>3
<1>3. CASE reply
  <2> USE <1>3, IdleOp DEF reply
  <2>1. TypeOK'
    BY SMTT(60) DEF TypeOK, Status
  <2>2. ClientsAreRight' /\ RereadIsSafe' /\ PointersInv'
    BY DEF ClientsAreRight, RereadIsSafe, PointersInv, live
  <2>3. EffectsInv' /\ NameInv' /\ ResultInv'
    BY SMTT(60) DEF EffectsInv, NameInv, ResultInv, Changes
  <2>4. QED
    BY <2>1, <2>2, <2>3
<1>4. QED
    BY <1>1, <1>2, <1>3

(* Where no reconnection has failed, a client that is not live is one that  *)
(* the operation saved.                                                     *)
LEMMA StaleKeeps ==
    ASSUME IInv, stale_client
    PROVE  IInv'
<1> USE RpcAssumption DEF IInv, stale_client, clientVars, callVars, serverVars
<1>1. op \in Operation /\ (op.frees = "fresh" => op.again = "none")
    BY OpsFacts DEF TypeOK
<1>2. TypeOK'
    BY DEF TypeOK
<1>3. ClientsAreRight' /\ PointersInv'
    BY DEF ClientsAreRight, PointersInv, Ptr
<1>4. broken = "no" => op.frees = "saved"
  <2> SUFFICES ASSUME broken = "no", op.frees # "saved"
               PROVE  FALSE
    OBVIOUS
  <2>1. op.frees = "fresh" /\ op.again = "none"
    BY <1>1 DEF Operation
  <2>2. live = {clntp, acl_clntp} \ {NULL} /\ clntp \in Addr
    BY DEF ClientsAreRight, TypeOK
  <2>3. pc # "idle" /\ Ptr(op.client) \in live
    BY <2>2 DEF PointersInv, Ptr
  <2>4. pc \in {"call", "reconnect"} => clnt = Ptr(op.client)
    BY <2>1 DEF PointersInv
  <2>5. Ptr(op.client) \in {clntp, acl_clntp}
    BY DEF Ptr
  <2>6. FreedWith = {Ptr(op.client)}
    BY <2>1 DEF FreedWith
  <2>7. QED
    BY <2>3, <2>4, <2>5, <2>6
<1>5. RereadIsSafe'
    BY <1>4 DEF RereadIsSafe
<1>6. EffectsInv' /\ NameInv' /\ ResultInv'
    BY SMTT(60) DEF EffectsInv, NameInv, ResultInv, Changes
<1>7. QED
    BY <1>2, <1>3, <1>5, <1>6

LEMMA OthersKeep ==
    ASSUME IInv, hsx_fuse_unmount \/ other_client \/ UNCHANGED vars
    PROVE  IInv'
<1> USE RpcAssumption DEF IInv, clientVars, serverVars, callVars
<1>1. CASE hsx_fuse_unmount
  <2> USE <1>1 DEF hsx_fuse_unmount
  <2>1. TypeOK'
    BY SMTT(60) DEF TypeOK
  <2>2. ClientsAreRight' /\ PointersInv'
    BY DEF ClientsAreRight, PointersInv, Ptr
  <2>3. RereadIsSafe'
    BY DEF RereadIsSafe, ClientsAreRight, TypeOK
  <2>4. EffectsInv' /\ NameInv' /\ ResultInv'
    BY DEF EffectsInv, NameInv, ResultInv, Changes
  <2>5. QED
    BY <2>1, <2>2, <2>3, <2>4
<1>2. CASE other_client
  <2> USE <1>2 DEF other_client
  <2>1. TypeOK'
    BY SMTT(60) DEF TypeOK
  <2>2. ClientsAreRight' /\ PointersInv' /\ RereadIsSafe'
    BY DEF ClientsAreRight, PointersInv, Ptr, RereadIsSafe, live
  <2>3. EffectsInv' /\ NameInv' /\ ResultInv'
    BY SMTT(60) DEF EffectsInv, NameInv, ResultInv, Changes
  <2>4. QED
    BY <2>1, <2>2, <2>3
<1>3. CASE UNCHANGED vars
  <2> USE <1>3 DEF vars
  <2>1. TypeOK'
    BY SMTT(60) DEF TypeOK
  <2>2. ClientsAreRight' /\ PointersInv' /\ RereadIsSafe'
    BY DEF ClientsAreRight, PointersInv, Ptr, RereadIsSafe, live
  <2>3. EffectsInv' /\ NameInv' /\ ResultInv'
    BY SMTT(60) DEF EffectsInv, NameInv, ResultInv, Changes
  <2>4. QED
    BY <2>1, <2>2, <2>3
<1>4. QED
    BY <1>1, <1>2, <1>3

LEMMA NextKeeps ==
    ASSUME IInv, [Next]_vars
    PROVE  IInv'
<1>1. CASE \E o \in Ops : begin(o)
    BY <1>1, BeginKeeps
<1>2. CASE call_succeeds
    BY <1>2, CallSucceedsKeeps
<1>3. CASE (\E e \in Errno : call_fails(e)) \/ setxattr_gives_up
    BY <1>3, CallFailsKeeps, GivingUpKeeps
<1>4. CASE \E a \in Addr : hsi_nfs3_clnt_reconnect(a)
    BY <1>4, ReconnectKeeps
<1>5. CASE reconnect_fails
    BY <1>5, ReconnectFailsKeeps
<1>6. CASE call_returns_error \/ freeres \/ reply
    BY <1>6, ReturnKeeps
<1>7. CASE stale_client
    BY <1>7, StaleKeeps
<1>8. CASE hsx_fuse_unmount \/ other_client \/ UNCHANGED vars
    BY <1>8, OthersKeep
<1>9. QED
    BY <1>1, <1>2, <1>3, <1>4, <1>5, <1>6, <1>7, <1>8 DEF Next, Proceed

-----------------------------------------------------------------------------
(* The inductive invariant holds in every reachable state.                  *)
THEOREM Invariance == Spec => []IInv
<1>1. Init => IInv
    BY InitEstablishes
<1>2. IInv /\ [Next]_vars => IInv'
    BY NextKeeps
<1>3. QED
    BY <1>1, <1>2, PTL DEF Spec

(* Every variable keeps its type; rtry never passes the limit, for any      *)
(* limit.                                                                   *)
THEOREM TypeCorrect == Spec => []TypeOK
<1>1. IInv => TypeOK
    BY DEF IInv
<1>2. QED
    BY <1>1, Invariance, PTL

(* hsi_nfs3_clnt_reconnect() neither loses nor mixes up a client.           *)
THEOREM ReconnectionReplaces == Spec => []ClientsAreRight
<1>1. IInv => ClientsAreRight
    BY DEF IInv
<1>2. QED
    BY <1>1, Invariance, PTL

(* The operations that read sb->clntp again after the call survive every    *)
(* reconnection.                                                            *)
THEOREM RereadingIsEnough == Spec => []RereadIsSafe
<1>1. IInv => RereadIsSafe
    BY DEF IInv
<1>2. QED
    BY <1>1, Invariance, PTL

(* What an answer says about the server is true, with requests lost and     *)
(* repeated.                                                                *)
THEOREM TrueAnswers == Spec => []AnswersAreTrue
<1>1. IInv => AnswersAreTrue
    BY OpsFacts DEF IInv, AnswersAreTrue, ResultInv, EffectsInv, NameInv, TypeOK
<1>2. QED
    BY <1>1, Invariance, PTL

-----------------------------------------------------------------------------
(* The steps an operation may still take: hsi_nfs3_clnt_call() makes two of *)
(* a retry (a failed attempt and a reconnection), an operation at most two  *)
(* calls, and the end of it at most three steps.                            *)
StepsLeft ==
    IF pc = "idle" THEN 0
    ELSE (CASE pc = "reply" -> 1
            [] pc = "free" -> 2
            [] pc = "failed" -> 3
            [] pc = "reconnect" -> 2 * (MaxRetries - rtry) + 3
            [] pc = "call" -> 2 * (MaxRetries - rtry) + 4)
         + (IF round = 1 THEN 2 * MaxRetries + 4 ELSE 0)

(* The bound behind CallEnds: every step of the daemon brings the operation *)
(* nearer to its end, or ends the daemon; nothing puts it back; and when it *)
(* begins at most 4 * MaxRetries + 8 steps lie ahead, whatever answers,     *)
(* errors and reconnections hsi_nfs3_clnt_call() meets.                     *)
CallsAreBounded ==
    [][ /\ Proceed => StepsLeft' < StepsLeft \/ daemon' = "crashed"
        /\ pc # "idle" => StepsLeft' <= StepsLeft
        /\ StepsLeft' <= 4 * MaxRetries + 8 ]_vars

LEMMA ProceedAdvances ==
    ASSUME IInv, Proceed
    PROVE  StepsLeft' < StepsLeft \/ (daemon' = "crashed" /\ UNCHANGED callVars)
<1>1. /\ MaxRetries \in Nat /\ rtry \in 0 .. MaxRetries /\ round \in {0, 1, 2}
      /\ pc = "reconnect" => rtry < MaxRetries
    BY RpcAssumption DEF IInv, TypeOK, ResultInv
<1>2. CASE call_succeeds
    BY SMTT(60), <1>1, <1>2 DEF call_succeeds, StepsLeft
<1>3. ASSUME NEW e \in Errno, call_fails(e) PROVE StepsLeft' < StepsLeft
    BY SMTT(60), <1>1, <1>3 DEF call_fails, StepsLeft
<1>4. ASSUME NEW a \in Addr, hsi_nfs3_clnt_reconnect(a)
      PROVE  StepsLeft' < StepsLeft
    BY SMTT(60), <1>1, <1>4 DEF hsi_nfs3_clnt_reconnect, StepsLeft
<1>5. CASE reconnect_fails \/ call_returns_error \/ freeres \/ reply
    BY SMTT(60), <1>1, <1>5
       DEF reconnect_fails, call_returns_error, freeres, reply, StepsLeft
<1>6. CASE setxattr_gives_up
    BY SMTT(60), <1>1, <1>6 DEF setxattr_gives_up, StepsLeft
<1>7. CASE stale_client
    BY <1>7 DEF stale_client
<1>8. QED
    BY <1>2, <1>3, <1>4, <1>5, <1>6, <1>7 DEF Proceed

(* An operation takes at most 4 * MaxRetries + 8 steps of the daemon.       *)
THEOREM BoundedCalls == Spec => CallsAreBounded
<1> DEFINE Bounded ==
             /\ Proceed => StepsLeft' < StepsLeft \/ daemon' = "crashed"
             /\ pc # "idle" => StepsLeft' <= StepsLeft
             /\ StepsLeft' <= 4 * MaxRetries + 8
<1>1. IInv /\ IInv' /\ [Next]_vars => [Bounded]_vars
  <2> SUFFICES ASSUME IInv, IInv', Next PROVE Bounded
    OBVIOUS
  <2>1. /\ MaxRetries \in Nat
        /\ StepsLeft \in 0 .. 4 * MaxRetries + 8
        /\ StepsLeft' \in 0 .. 4 * MaxRetries + 8
    BY SMTT(60), RpcAssumption DEF IInv, TypeOK, StepsLeft
  <2>2. Proceed => StepsLeft' < StepsLeft \/ daemon' = "crashed"
    BY ProceedAdvances
  <2>3. ASSUME pc # "idle" PROVE StepsLeft' <= StepsLeft
    <3>1. Proceed \/ UNCHANGED callVars
        BY <2>3 DEF Next, begin, hsx_fuse_unmount, other_client
    <3>2. ASSUME UNCHANGED callVars PROVE StepsLeft' = StepsLeft
        BY SMTT(60), <3>2 DEF callVars, StepsLeft
    <3>3. StepsLeft' < StepsLeft \/ StepsLeft' = StepsLeft
        BY <3>1, <3>2, ProceedAdvances
    <3>4. QED
        BY SMTT(60), <2>1, <3>3
  <2>4. StepsLeft' <= 4 * MaxRetries + 8
    BY SMTT(60), <2>1
  <2>5. QED
    BY <2>2, <2>3, <2>4
<1>2. QED
    BY <1>1, Invariance, PTL DEF Spec, CallsAreBounded
=============================================================================
