------------------------------ MODULE FuseRefs ------------------------------
(***************************************************************************)
(* Lookup counts: the FUSE handlers that name inodes to the kernel, the     *)
(* inode cache below them, the kernel that counts what it was told and      *)
(* gives the counts back, and the NFS server whose files other clients      *)
(* create and remove.                                                       *)
(*                                                                          *)
(* Every entry in a reply to the kernel (lookup, create, mkdir, mknod,      *)
(* symlink, link, readdirplus) adds one to the number of references the     *)
(* kernel holds on the inode (nlookup); FORGET gives n of them back.  The   *)
(* daemon keeps its own count in hsfs_inode->private and asserts that the   *)
(* two agree.                                                               *)
(*                                                                          *)
(* The daemon is one thread (fuse_session_loop), so a handler is one step,  *)
(* except READDIRPLUS, whose loops are modelled entry by entry.  Between a  *)
(* reply and its processing, and between an eviction and the FORGET, the    *)
(* kernel and the daemon run freely.  A handler that only answers an error  *)
(* changes nothing here and is a stuttering step.                           *)
(***************************************************************************)
EXTENDS InodeCache, Sequences

CONSTANTS
    Dirs,       \* the objects that are directories
    RootObj,    \* the handle MOUNT returned
    MaxRefs,    \* bound: references outstanding on one inode
    MaxDots,    \* bound: "." and ".." entries returned for one inode
    MaxLinks,   \* bound: link() calls on one inode
    MaxIputs,   \* bound: hsfs_iput() calls on one inode
    MaxEntries  \* bound: entries in one READDIRPLUS answer

(* i_count is an int, and these are the numbers below which it does not     *)
(* wrap.                                                                    *)
ASSUME RefsAssumption ==
    /\ Dirs \subseteq Objects
    /\ RootObj \in Dirs
    /\ MaxRefs \in Nat /\ MaxDots \in Nat /\ MaxLinks \in Nat
    /\ MaxIputs \in Nat /\ MaxEntries \in Nat

VARIABLES
    srv,        \* the server: is the object unborn, live or removed
    daemon,     \* the life of the process
    failed_at,  \* the assertion that ended it
    private,    \* hsfs_inode->private, the daemon's lookup count
    rd_phase,   \* the READDIRPLUS being served: "idle", "cache", "pack", "free"
    rd_dir,     \*   its directory
    rd_todo,    \*   entries of the server's answer not yet cached
    rd_ctx,     \*   the hsfs_readdir_ctx list, from `ctx' on
    packed,     \*   how often each inode is in the reply buffer
    nlookup,    \* kernel: references held
    replies,    \* entries sent to the kernel and not yet counted there
    forgets,    \* references given back by FORGETs not yet handled
    named,      \* history: <<object, number>> of every entry replied
    unpaid,     \* history: entries replied by link()
    dots        \* history: "." and ".." entries returned by readdirplus

serverVars == <<srv>>
lifeVars   == <<daemon, failed_at>>
rdVars     == <<rd_phase, rd_dir, rd_todo, rd_ctx, packed>>
kernelVars == <<nlookup, replies, forgets>>
ghostVars  == <<named, unpaid, dots>>
vars == <<cacheVars, serverVars, lifeVars, private, rdVars, kernelVars,
          ghostVars>>

RootIno == 1

(* An entry of an answer; "." and ".." (dot) are directories.               *)
Entry == {e \in [obj : Objects, dot : BOOLEAN] : e.dot => e.obj \in Dirs}
Ctx   == {c \in [ino : Ino \cup {BadIno}, obj : Objects, dot : BOOLEAN] :
             c.dot => c.obj \in Dirs}

(* Where an assertion of the daemon can fail.                               *)
AssertSite == {"none", "fill_super", "init", "forget", "ref_dec", "readdir",
               "create", "mkdir", "mknod", "symlink", "fill_reply"}

CountTypeOK ==
    /\ private \in [Ino -> Nat]
    /\ packed \in [Ino -> Nat]
    /\ nlookup \in [Ino -> Nat]
    /\ replies \in [Ino -> Nat]
    /\ forgets \in [Ino -> Nat]
    /\ unpaid \in [Ino -> Nat]
    /\ dots \in [Ino -> Nat]

RdTypeOK ==
    /\ rd_phase \in {"idle", "cache", "pack", "free"}
    /\ rd_dir \in Ino
    /\ rd_todo \in Seq(Entry)
    /\ rd_ctx \in Seq(Ctx)

(* The type of the whole state: the cache of lib/hsfs_inode.c, the counts   *)
(* and the READDIRPLUS in hand are what the handlers assume.                *)
TypeOK ==
    /\ CacheTypeOK
    /\ CountTypeOK
    /\ RdTypeOK
    /\ srv \in [Objects -> {"unborn", "live", "removed"}]
    /\ daemon \in {"mounting", "mounted", "running", "aborted", "crashed",
                   "unmounted"}
    /\ failed_at \in AssertSite
    /\ named \subseteq Objects \X Ino

Zero == [i \in Ino |-> 0]

Init ==
    /\ hsfs_init_icache
    /\ srv \in [Objects -> {"unborn", "live"}]
    /\ srv[RootObj] = "live"
    /\ \A o1, o2 \in Objects :
          srv[o1] = "live" /\ srv[o2] = "live" /\ FileId[o1] = FileId[o2]
             => o1 = o2
    /\ daemon = "mounting"
    /\ failed_at = "none"
    /\ private = Zero
    /\ rd_phase = "idle" /\ rd_dir = RootIno
    /\ rd_todo = << >> /\ rd_ctx = << >> /\ packed = Zero
    /\ nlookup = Zero /\ replies = Zero /\ forgets = Zero
    /\ named = {} /\ unpaid = Zero /\ dots = Zero

-----------------------------------------------------------------------------
(* Mounting.                                                                *)

(* An assertion on an inode fails.                                          *)
Abort(site) == daemon' = "aborted" /\ failed_at' = site

(***************************************************************************)
(* An ERR_PTR() of hsi_nfs_fhget() is used as an inode: IS_ERR() does not   *)
(* recognise it.  It points into bad_hsfs_inode or behind it, and the       *)
(* daemon ends at an assertion about what it reads there, or when it        *)
(* follows the null superblock.                                             *)
(***************************************************************************)
UseErrPtr(sites) == daemon' = "crashed" /\ failed_at' \in sites

(***************************************************************************)
(* hsi_fill_super(): the root is the first inode of the empty cache.  With  *)
(* nlink = 0, or without memory, hsi_nfs_fhget() returns ERR_PTR() and the  *)
(* assertion on the number of the root is about that.                       *)
(***************************************************************************)
hsi_fill_super ==
    /\ daemon = "mounting"
    /\ \/ \E i \in Ino :
             /\ hsi_nfs_fhget(RootObj, i)
             /\ IF i = RootIno
                THEN daemon' = "mounted" /\ UNCHANGED failed_at
                ELSE Abort("fill_super")
       \/ UseErrPtr({"fill_super"}) /\ UNCHANGED cacheVars
    /\ UNCHANGED <<serverVars, private, rdVars, kernelVars, ghostVars>>

hsx_fuse_init_NoRef ==
    /\ daemon = "mounted"
    /\ nlookup' = [nlookup EXCEPT ![RootIno] = 1]
    /\ named' = named \cup {<<RootObj, RootIno>>}
    /\ daemon' = "running"
    /\ UNCHANGED <<cacheVars, serverVars, failed_at, private, rdVars, replies,
                   forgets, unpaid, dots>>

(* The kernel holds its reference on the root from the mount on.            *)
hsx_fuse_init ==
    /\ daemon = "mounted"
    /\ private' = [private EXCEPT ![RootIno] = 1]
    /\ nlookup' = [nlookup EXCEPT ![RootIno] = 1]
    /\ named' = named \cup {<<RootObj, RootIno>>}
    /\ IF private[RootIno] = 0
       THEN daemon' = "running" /\ UNCHANGED failed_at
       ELSE Abort("init")
    /\ UNCHANGED <<cacheVars, serverVars, rdVars, replies, forgets, unpaid,
                   dots>>

(* hsx_fuse_unmount(), once the session loop has ended.                     *)
hsx_fuse_unmount ==
    /\ daemon = "running" /\ rd_phase = "idle"
    /\ daemon' = "unmounted"
    /\ hsfs_iput(RootIno)
    /\ UNCHANGED <<serverVars, failed_at, private, rdVars, kernelVars,
                   ghostVars>>

-----------------------------------------------------------------------------
(* Handlers that answer with an entry.                                      *)

Idle == daemon = "running" /\ rd_phase = "idle"

(* The kernel sends requests only for inodes it holds; the parent of a name *)
(* is a directory.                                                          *)
ParentDir(p) ==
    /\ nlookup[p] > 0
    /\ fh[p] \in Dirs
    /\ hsfs_ilookup(p)

Outstanding(i) == nlookup[i] + replies[i] + forgets[i] + packed[i]

(* private of the inode that hsi_nfs_fhget(o, i) returns:                   *)
(* inode_init_always() clears it in a new one.                              *)
RefOf(o, i) == IF fh_ifind(o) = {} THEN 0 ELSE private[i]

ReplyEntry(o, i) ==
    /\ Outstanding(i) < MaxRefs
    /\ replies' = [replies EXCEPT ![i] = @ + 1]
    /\ named' = named \cup {<<o, i>>}

(* The server makes a new file; no two live files share a fileid.           *)
ServerMakes(o) ==
    /\ srv[o] = "unborn"
    /\ \A o2 \in Objects : srv[o2] = "live" => FileId[o2] # FileId[o]
    /\ srv' = [srv EXCEPT ![o] = "live"]

hsx_fuse_lookup_NoRefInc(p, o) ==
    /\ Idle
    /\ ParentDir(p)
    /\ srv[o] = "live"
    /\ \E i \in Ino :
          /\ hsi_nfs_fhget(o, i)
          /\ private' = [private EXCEPT ![i] = RefOf(o, i)]
          /\ ReplyEntry(o, i)
    /\ UNCHANGED <<serverVars, lifeVars, rdVars, nlookup, forgets, unpaid,
                   dots>>

hsx_fuse_lookup(p, o) ==
    /\ Idle
    /\ ParentDir(p)
    /\ srv[o] = "live"
    /\ \E i \in Ino :
          /\ hsi_nfs_fhget(o, i)
          /\ private' = [private EXCEPT ![i] = RefOf(o, i) + 1]
          /\ ReplyEntry(o, i)
    /\ UNCHANGED <<serverVars, lifeVars, rdVars, nlookup, forgets, unpaid,
                   dots>>

(* The end of create, mkdir, mknod and symlink:                             *)
(* ref = hsx_fuse_ref_xchg(new, 1); FUSE_ASSERT(ref == 0); reply.           *)
ReplyNew(site, o, i) ==
    /\ private' = [private EXCEPT ![i] = 1]
    /\ IF RefOf(o, i) = 0
       THEN ReplyEntry(o, i) /\ UNCHANGED lifeVars
       ELSE Abort(site) /\ UNCHANGED <<replies, named>>

(* MKDIR, MKNOD and SYMLINK fail when the name exists, so that what they    *)
(* return is a file the server has just made.                               *)
NewEntry(site, p, o) ==
    /\ Idle
    /\ ParentDir(p)
    /\ ServerMakes(o)
    /\ \E i \in Ino : hsi_nfs_fhget(o, i) /\ ReplyNew(site, o, i)
    /\ UNCHANGED <<rdVars, nlookup, forgets, unpaid, dots>>

hsx_fuse_mkdir(p, o)   == o \in Dirs /\ NewEntry("mkdir", p, o)
hsx_fuse_mknod(p, o)   == o \notin Dirs /\ NewEntry("mknod", p, o)
hsx_fuse_symlink(p, o) == o \notin Dirs /\ NewEntry("symlink", p, o)

(***************************************************************************)
(* CREATE: UNCHECKED succeeds on a file that exists, and so does EXCLUSIVE  *)
(* when the verifier, which is the number of the parent, is the one the     *)
(* file was made with.                                                      *)
(***************************************************************************)
ServerCreates(o) ==
    /\ o \notin Dirs
    /\ \/ ServerMakes(o)
       \/ srv[o] = "live" /\ UNCHANGED srv

hsx_fuse_create(p, o) ==
    /\ Idle
    /\ ParentDir(p)
    /\ ServerCreates(o)
    /\ \E i \in Ino : hsi_nfs_fhget(o, i) /\ ReplyNew("create", o, i)
    /\ UNCHANGED <<rdVars, nlookup, forgets, unpaid, dots>>

(* EXCLUSIVE create whose SETATTR of the mode fails: the inode stays in the *)
(* cache and the kernel gets an error.                                      *)
hsx_fuse_create_setattr_fails(p, o) ==
    /\ Idle
    /\ ParentDir(p)
    /\ ServerCreates(o)
    /\ \E i \in Ino :
          /\ hsi_nfs_fhget(o, i)
          /\ private' = [private EXCEPT ![i] = RefOf(o, i)]
    /\ UNCHANGED <<lifeVars, rdVars, kernelVars, ghostVars>>

(* link() replies the entry of the inode it was given and does not call     *)
(* hsx_fuse_ref_inc().  The kernel never links a directory.                 *)
hsx_fuse_link(t, p) ==
    /\ Idle
    /\ ParentDir(p)
    /\ nlookup[t] > 0 /\ fh[t] \notin Dirs /\ hsfs_ilookup(t)
    /\ srv[fh[t]] = "live"
    /\ unpaid[t] < MaxLinks
    /\ ReplyEntry(fh[t], t)
    /\ unpaid' = [unpaid EXCEPT ![t] = @ + 1]
    /\ UNCHANGED <<cacheVars, serverVars, lifeVars, private, rdVars, nlookup,
                   forgets, dots>>

(***************************************************************************)
(* An answer without attributes, without a handle, or with nlink = 0 makes  *)
(* hsi_nfs_fhget() return ERR_PTR(), and so does a lack of memory.  The     *)
(* handler counts on that pointer, which create, mkdir, mknod and symlink   *)
(* follow by an assertion, and hands it to hsx_fuse_fill_reply().           *)
(***************************************************************************)
BadInodeReply(p, o) ==
    /\ Idle
    /\ ParentDir(p)
    /\ \/ srv[o] = "live" /\ UNCHANGED srv
       \/ ServerMakes(o)
    /\ UseErrPtr({"create", "mkdir", "mknod", "symlink", "fill_reply"})
    /\ UNCHANGED <<cacheVars, private, rdVars, kernelVars, ghostVars>>

-----------------------------------------------------------------------------
(* READDIRPLUS.                                                             *)

EntryLists == UNION {[1 .. n -> Entry] : n \in 0 .. MaxEntries}

(* The server answers with files that exist.                                *)
hsx_fuse_readdir_plus(p, es) ==
    /\ Idle
    /\ nlookup[p] > 0 /\ fh[p] \in Dirs
    /\ \A k \in DOMAIN es : srv[es[k].obj] = "live"
    /\ IF hsfs_ilookup(p)
       THEN /\ rd_phase' = "cache" /\ rd_dir' = p
            /\ rd_todo' = es /\ rd_ctx' = << >>
            /\ UNCHANGED <<lifeVars, packed>>
       ELSE Abort("readdir") /\ UNCHANGED rdVars
    /\ UNCHANGED <<cacheVars, serverVars, private, kernelVars, ghostVars>>

(* The loop of hsi_nfs3_readdir_plus(), one entry.                          *)
readdir_plus_entry ==
    /\ daemon = "running" /\ rd_phase = "cache" /\ rd_todo # << >>
    /\ LET e == Head(rd_todo) IN
       \E i \in Ino :
          /\ hsi_nfs_fhget(e.obj, i)
          /\ private' = [private EXCEPT ![i] = RefOf(e.obj, i)]
          /\ rd_ctx' = Append(rd_ctx, [ino |-> i, obj |-> e.obj, dot |-> e.dot])
    /\ rd_todo' = Tail(rd_todo)
    /\ UNCHANGED <<serverVars, lifeVars, rd_phase, rd_dir, packed, kernelVars,
                   ghostVars>>

(* The same for an entry without attributes: ERR_PTR() enters the list.     *)
readdir_plus_bad_entry ==
    /\ daemon = "running" /\ rd_phase = "cache" /\ rd_todo # << >>
    /\ LET e == Head(rd_todo) IN
       rd_ctx' = Append(rd_ctx, [ino |-> BadIno, obj |-> e.obj, dot |-> e.dot])
    /\ rd_todo' = Tail(rd_todo)
    /\ UNCHANGED <<cacheVars, serverVars, lifeVars, private, rd_phase, rd_dir,
                   packed, kernelVars, ghostVars>>

(* No memory for the name, or an entry without a handle: `goto out3'.       *)
readdir_plus_error ==
    /\ daemon = "running" /\ rd_phase = "cache" /\ rd_todo # << >>
    /\ \A k \in DOMAIN rd_ctx :
          rd_ctx[k].ino # BadIno =>
             i_count[rd_ctx[k].ino] - Len(rd_ctx) >= -MaxIputs
    /\ rd_phase' = "free"
    /\ rd_todo' = << >>
    /\ UNCHANGED <<cacheVars, serverVars, lifeVars, private, rd_dir, rd_ctx,
                   packed, kernelVars, ghostVars>>

readdir_free_ctx_NoAdvance ==
    /\ daemon = "running" /\ rd_phase = "free"
    /\ \/ /\ rd_ctx # << >>
          /\ Head(rd_ctx).ino = BadIno
          /\ UNCHANGED <<cacheVars, rd_ctx, rd_phase>>
       \/ /\ rd_ctx = << >>
          /\ rd_phase' = "idle"
          /\ UNCHANGED <<cacheVars, rd_ctx>>
    /\ UNCHANGED <<serverVars, lifeVars, private, rd_dir, rd_todo, packed,
                   kernelVars, ghostVars>>

(* __free_ctx() of hsi_nfs3_readdir.c puts every inode of the list; then    *)
(* the error is replied.                                                    *)
readdir_free_ctx ==
    /\ daemon = "running" /\ rd_phase = "free"
    /\ \/ /\ rd_ctx # << >>
          /\ LET i == Head(rd_ctx).ino IN
             IF i = BadIno
             THEN UNCHANGED cacheVars
             ELSE hsfs_iput(i)
          /\ rd_ctx' = Tail(rd_ctx)
          /\ UNCHANGED rd_phase
       \/ /\ rd_ctx = << >>
          /\ rd_phase' = "idle"
          /\ UNCHANGED <<cacheVars, rd_ctx>>
    /\ UNCHANGED <<serverVars, lifeVars, private, rd_dir, rd_todo, packed,
                   kernelVars, ghostVars>>

(* The list is complete: hsi_nfs3_readdir_plus() returns 0, and the handler *)
(* has a buffer for the reply or answers ENOMEM.                            *)
readdir_plus_listed ==
    /\ daemon = "running" /\ rd_phase = "cache" /\ rd_todo = << >>
    /\ \/ rd_phase' = "pack" /\ UNCHANGED rd_ctx
       \/ rd_phase' = "idle" /\ rd_ctx' = << >>
    /\ UNCHANGED <<cacheVars, serverVars, lifeVars, private, rd_dir, rd_todo,
                   packed, kernelVars, ghostVars>>

readdir_plus_pack_CountFirst ==
    /\ daemon = "running" /\ rd_phase = "pack" /\ rd_ctx # << >>
    /\ LET c == Head(rd_ctx) IN
       /\ c.ino # BadIno
       /\ private' = [private EXCEPT ![c.ino] = @ + 1]
    /\ rd_ctx' = Tail(rd_ctx)
    /\ UNCHANGED <<cacheVars, serverVars, lifeVars, rd_phase, rd_dir, rd_todo,
                   packed, kernelVars, ghostVars>>

(* The loop of hsx_fuse_readdir_plus(), an entry that fits into the buffer. *)
(* It is counted for "." and ".." too, which the kernel does not count.     *)
readdir_plus_pack ==
    /\ daemon = "running" /\ rd_phase = "pack" /\ rd_ctx # << >>
    /\ LET c == Head(rd_ctx) IN
       /\ c.ino # BadIno
       /\ private' = [private EXCEPT ![c.ino] = @ + 1]
       /\ IF c.dot
          THEN /\ dots[c.ino] < MaxDots
               /\ dots' = [dots EXCEPT ![c.ino] = @ + 1]
               /\ UNCHANGED <<packed, named>>
          ELSE /\ Outstanding(c.ino) < MaxRefs
               /\ packed' = [packed EXCEPT ![c.ino] = @ + 1]
               /\ named' = named \cup {<<c.obj, c.ino>>}
               /\ UNCHANGED dots
    /\ rd_ctx' = Tail(rd_ctx)
    /\ UNCHANGED <<cacheVars, serverVars, lifeVars, rd_phase, rd_dir, rd_todo,
                   kernelVars, unpaid>>

(* hsx_fuse_fill_reply() of an ERR_PTR().                                   *)
readdir_plus_bad_pack ==
    /\ daemon = "running" /\ rd_phase = "pack" /\ rd_ctx # << >>
    /\ Head(rd_ctx).ino = BadIno
    /\ UseErrPtr({"fill_reply"})
    /\ UNCHANGED <<cacheVars, serverVars, private, rdVars, kernelVars,
                   ghostVars>>

(***************************************************************************)
(* The buffer is full, or the list has ended: what was packed is sent.  The *)
(* other __free_ctx(), of hsx_fuse_readdir.c, is called with a null second  *)
(* argument and drops nothing for the entries that did not fit.  The entry  *)
(* in hand has been filled in before its size is known, so that the loop    *)
(* stops at a good inode only.                                              *)
(***************************************************************************)
readdir_plus_reply ==
    /\ daemon = "running" /\ rd_phase = "pack"
    /\ rd_ctx # << >> => Head(rd_ctx).ino # BadIno
    /\ replies' = [i \in Ino |-> replies[i] + packed[i]]
    /\ packed' = Zero
    /\ rd_phase' = "idle"
    /\ rd_ctx' = << >>
    /\ UNCHANGED <<cacheVars, serverVars, lifeVars, private, rd_dir, rd_todo,
                   nlookup, forgets, ghostVars>>

-----------------------------------------------------------------------------
(* FORGET, the kernel and the server.                                       *)

hsx_fuse_forget_NoAssert(i, n) ==
    /\ Idle
    /\ n \in 1 .. forgets[i]
    /\ private' = [private EXCEPT ![i] = @ - n]
    /\ forgets' = [forgets EXCEPT ![i] = @ - n]
    /\ UNCHANGED <<cacheVars, serverVars, lifeVars, rdVars, nlookup, replies,
                   ghostVars>>

hsx_fuse_forget(i, n) ==
    /\ Idle
    /\ n \in 1 .. forgets[i]
    /\ IF ~ hsfs_ilookup(i)
       THEN Abort("forget") /\ UNCHANGED <<cacheVars, private, forgets>>
       ELSE IF n > private[i]
       THEN Abort("ref_dec") /\ UNCHANGED <<cacheVars, private, forgets>>
       ELSE /\ private' = [private EXCEPT ![i] = @ - n]
            /\ forgets' = [forgets EXCEPT ![i] = @ - n]
            /\ IF private[i] - n = 0
               THEN i_count[i] > -MaxIputs /\ hsfs_iput(i)
               ELSE UNCHANGED cacheVars
            /\ UNCHANGED lifeVars
    /\ UNCHANGED <<serverVars, rdVars, nlookup, replies, ghostVars>>

(* fuse_iget(): the kernel takes an entry into its inode.                   *)
kernel_iget(i) ==
    /\ daemon = "running" /\ replies[i] > 0
    /\ replies' = [replies EXCEPT ![i] = @ - 1]
    /\ nlookup' = [nlookup EXCEPT ![i] = @ + 1]
    /\ UNCHANGED <<cacheVars, serverVars, lifeVars, private, rdVars, forgets,
                   ghostVars>>

(* fuse_force_forget(): the kernel cannot use an entry and gives it back.   *)
kernel_force_forget(i) ==
    /\ daemon = "running" /\ replies[i] > 0
    /\ replies' = [replies EXCEPT ![i] = @ - 1]
    /\ forgets' = [forgets EXCEPT ![i] = @ + 1]
    /\ UNCHANGED <<cacheVars, serverVars, lifeVars, private, rdVars, nlookup,
                   ghostVars>>

(* fuse_evict_inode(): an inode no request is using leaves the kernel's     *)
(* cache; the root never does.                                              *)
kernel_evict(i) ==
    /\ daemon = "running" /\ nlookup[i] > 0
    /\ i # RootIno
    /\ rd_phase = "idle" \/ rd_dir # i
    /\ nlookup' = [nlookup EXCEPT ![i] = 0]
    /\ forgets' = [forgets EXCEPT ![i] = @ + nlookup[i]]
    /\ UNCHANGED <<cacheVars, serverVars, lifeVars, private, rdVars, replies,
                   ghostVars>>

(* Other clients, and requests of this one that answer no entry (unlink,    *)
(* rmdir, rename, a create whose answer was lost).                          *)
server_make(o) ==
    /\ daemon = "running"
    /\ ServerMakes(o)
    /\ UNCHANGED <<cacheVars, lifeVars, private, rdVars, kernelVars, ghostVars>>

server_remove(o) ==
    /\ daemon = "running"
    /\ o # RootObj /\ srv[o] = "live"
    /\ srv' = [srv EXCEPT ![o] = "removed"]
    /\ UNCHANGED <<cacheVars, lifeVars, private, rdVars, kernelVars, ghostVars>>

HandlerStep ==
    \E p \in Ino :
       \/ \E o \in Objects :
             \/ hsx_fuse_lookup(p, o)
             \/ hsx_fuse_create(p, o)
             \/ hsx_fuse_create_setattr_fails(p, o)
             \/ hsx_fuse_mkdir(p, o)
             \/ hsx_fuse_mknod(p, o)
             \/ hsx_fuse_symlink(p, o)
             \/ BadInodeReply(p, o)
       \/ \E t \in Ino : hsx_fuse_link(t, p)
       \/ \E es \in EntryLists : hsx_fuse_readdir_plus(p, es)
       \/ \E n \in 1 .. MaxRefs : hsx_fuse_forget(p, n)

ReaddirStep ==
    \/ readdir_plus_entry
    \/ readdir_plus_bad_entry
    \/ readdir_plus_error
    \/ readdir_free_ctx
    \/ readdir_plus_listed
    \/ readdir_plus_pack
    \/ readdir_plus_bad_pack
    \/ readdir_plus_reply

OutsideStep ==
    \/ \E i \in Ino :
          kernel_iget(i) \/ kernel_force_forget(i) \/ kernel_evict(i)
    \/ \E o \in Objects : server_make(o) \/ server_remove(o)

Next ==
    \/ hsi_fill_super
    \/ hsx_fuse_init
    \/ hsx_fuse_unmount
    \/ HandlerStep
    \/ ReaddirStep
    \/ OutsideStep

Spec == Init /\ [][Next]_vars

-----------------------------------------------------------------------------
(* Properties.                                                              *)

(***************************************************************************)
(* Conservation of references: while the daemon serves, private is exactly  *)
(* what the kernel holds, will hold once it has read its replies, or has    *)
(* given back in FORGETs not yet handled, but for two known errors of the   *)
(* handlers: an entry replied by link() is missing from it (unpaid) and a   *)
(* "." or ".." of readdirplus is one too many in it (dots).                 *)
(***************************************************************************)
RefsConserved ==
    daemon = "running" =>
       \A i \in Ino :
          private[i] + unpaid[i] = Outstanding(i) + dots[i]

(***************************************************************************)
(* The kernel never names an inode the daemon cannot find, and no inode is  *)
(* freed while a hash table still leads to it: destroy_inode() does not     *)
(* unhash, so this rests on i_count never reaching 0 in hsfs_iput().        *)
(***************************************************************************)
NoDanglingInode ==
    /\ id_table \cup fh_table \subseteq alloc
    /\ \A i \in Ino : Outstanding(i) > 0 => hsfs_ilookup(i)

(***************************************************************************)
(* Of the daemon's assertions about an inode (not an ERR_PTR()) two can     *)
(* fail, each for one reason.  ref_dec() fails when a FORGET brings back    *)
(* more than was counted, and then link() has replied that inode without    *)
(* counting.  The assertion of create(), "Should be a new one...", fails    *)
(* when the file existed and the kernel holds, or is about to get or to     *)
(* give back, a counted reference to it; a file the kernel has forgotten is *)
(* created again without harm although its inode is still cached.  mkdir,   *)
(* mknod and symlink always get an inode without references, forget and     *)
(* readdirplus always find theirs, and the first inode is number 1.         *)
(***************************************************************************)
AssertsThatHold ==
    /\ daemon = "aborted" => failed_at \in {"create", "ref_dec"}
    /\ failed_at = "ref_dec" =>
          \E i \in Ino : unpaid[i] > 0 /\ forgets[i] > private[i]
    /\ daemon = "aborted" /\ failed_at = "create" =>
          \E i \in Ino : fh[i] \notin Dirs /\ Outstanding(i) > unpaid[i]

(***************************************************************************)
(* The root keeps number 1 and a positive count as long as the daemon       *)
(* serves, whatever the kernel forgets and readdirplus counts for "." and   *)
(* "..", so that FORGET never puts sb->root.                                *)
(***************************************************************************)
RootPinned ==
    daemon = "running" =>
       /\ RootIno \in id_table /\ fh[RootIno] = RootObj
       /\ private[RootIno] >= 1

(***************************************************************************)
(* Two entries the kernel was ever given carry the same inode number        *)
(* exactly when they are the same file of the server, also when the server  *)
(* gave the fileid of a removed file to a new one.                          *)
(***************************************************************************)
SameNumberSameFile ==
    \A e1, e2 \in named : e1[1] = e2[1] <=> e1[2] = e2[2]

(***************************************************************************)
(* The daemon implements NodeMap: the bound pairs are the inodes in         *)
(* id_table with the handle they were set up with.                          *)
(***************************************************************************)
Binding == {<<fh[i], i>> : i \in id_table}

NM == INSTANCE NodeMap WITH
         Id <- Ino, Object <- Objects, binding <- Binding, shown <- named

NodeMapRefined == NM!Spec

(***************************************************************************)
(* The daemon goes on with a request it has begun, and answers it, unless   *)
(* it dies on the way: every READDIRPLUS ends, along each of its error      *)
(* paths too.                                                               *)
(***************************************************************************)
FairSpec == Spec /\ WF_vars(ReaddirStep)

ReaddirPlusEnds ==
    (rd_phase # "idle") ~> (rd_phase = "idle" \/ daemon = "crashed")

(* The assertion of hsx_fuse_ref_dec(): FORGET never takes back more than   *)
(* was counted.                                                             *)
ForgetNeverUnderflows == failed_at # "ref_dec"
=============================================================================
