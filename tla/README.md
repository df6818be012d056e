# A TLA+ verification of hsfs

hsfs is an NFSv3 client in user space. `mount.hsfs` mounts a remote directory
through FUSE and stays as a daemon, one per mount. The daemon is one thread
(`fuse_session_loop()` in `src/fuse/hsfs_main.c`): it takes a request of the kernel,
calls the NFS server over Sun RPC, and replies. So two handlers of one daemon never
overlap. What does overlap, and what this project is about:

- the kernel, which handles replies and gives references back in its own time;
- other NFS clients, which change the server between any two calls;
- the network, on which requests and answers are lost while the daemon retries;
- other mount processes, which share `/etc/mtab` and its lock file, and signals.

## 1. The parts of the system

| Part | Source | State | Modelled in |
|---|---|---|---|
| inode cache | `lib/hsfs_inode.c`, `nfs_common/hsi_nfs_inode.c` | two hash tables, the counter of numbers, `i_count` | InodeCache |
| lookup counts | `fuse/hsx_fuse_{lookup,create,mkdir,mknod,symlink,link,forget,init}.c` | `hsfs_inode->private` | FuseRefs |
| READDIRPLUS | `fuse/hsx_fuse_readdir.c`, `nfs3/hsi_nfs3_readdir.c` | the `hsfs_readdir_ctx` list, the reply buffer | FuseRefs |
| attributes | `nfs_common/hsi_nfs_inode.c`, `nfs3/hsi_nfs3_{setattr,getattr,fattr2stat}.c`, `fuse/hsx_fuse_{setattr,getattr,stat2iattr}.c` | `iattr`, size and times of the inode | AttrCache |
| RPC calls | `nfs3/hsi_nfs3_mount.c` (`hsi_nfs3_clnt_call`, `hsi_nfs3_clnt_reconnect`), all `nfs3/hsi_nfs3_*.c` | `sb->clntp`, `sb->acl_clntp` | RpcCall |
| mtab | `nfs3/fstab.c`, `fuse/hsfs_main.c` | `/etc/mtab`, `/etc/mtab.tmp`, the lock file `/etc/mtab~` | MtabLock |
| mounting | `nfs3/hsi_nfs3_mount.c`, `fuse/hsfs_main.c` | the process, its clients, what it enters in the kernel, mtab and mountd | Mount |
| read and write | `fuse/hsx_fuse_{read,write}.c`, `nfs3/hsi_nfs3_{read,write}.c` | counters and buffer of one request | Transfer |
| transfer sizes | `nfs3/hsi_nfs3_fsinfo.c`, `nfs3/hsi_nfs3_mount.c` | `sb->rsize`, `sb->wsize` | Transfer |
| READDIR | `fuse/hsx_fuse_{opendir,readdir}.c`, `nfs3/hsi_nfs3_readdir.c` | the cookie verifier in the directory's inode | Listing |
| ACLs | `fuse/hsx_fuse_{get,set}xattr.c`, `nfs3/hsi_acl3.c` | none | the calls in RpcCall; the lists not (section 8) |
| wire format | `nfs3/*.x` | none | no: input of rpcgen |

A request goes through them top down. A handler finds the inode by its number in the
cache, makes one or more RPC calls, enters the file of the answer in the cache or
refreshes its attributes, counts the reference the kernel gets, and replies.

## 2. Modules

```
NodeMap   <- refined by -  FuseRefs  - extends ->  InodeCache
                              |
        FuseRefsProofs - extends ->  FuseHandlerProofs

AttrCache - AttrCacheProofs      RpcCall - RpcCallProofs      MtabLock - MtabLockProofs
Mount - MountProofs              Transfer - TransferProofs    Listing - ListingProofs
MCFuseRefs, MCAttrCache, MCRpcCall, MCMtabLock, MCMount, MCTransfer, MCListing: instances for TLC
```

Actions have the names of the functions they model. A handler is one step unless
its own loop or the environment makes its inner steps visible. A handler that does
nothing but answer an error is a stuttering step.

**InodeCache** (`hsfs_inode.c`). `id_table` and `fh_table` are the hash tables,
`curr_id` numbers inodes, `alloc` is the allocated memory, `fh` the handle of an inode,
`i_count` its count. Operators model `hsfs_ilookup`, `nfs_find_actor`,
`get_new_inode`, `hsi_nfs_fhget` and `hsfs_iput`. An error pointer of `hsi_nfs_fhget()`
is `BadIno`: `IS_ERR()` is false for it, so callers go on with it, the mount itself
(`hsi_fill_super`) included; `UseErrPtr` is the end of the daemon that may follow. Files
have fileids that the server reuses for later files, as real servers do.

**FuseRefs** composes the cache with the handlers that reply entries, the kernel and
the server. `private` is the daemon's count of references, `nlookup` the kernel's;
`replies` and `forgets` are on the way between them. `Abort` models `FUSE_ASSERT`.
READDIRPLUS runs entry by entry in three loops (cache the answer, pack the
reply, free the list), with the kernel, and the server's other clients, free to act
between them. Kernel and server actions are external, modelled from how `src/` uses
them.

**NodeMap** is what the kernel relies on: a number, once given to a file, is this file's
for good. It has the pairs bound so far and the pairs shown to the kernel; both only grow.

**AttrCache**. For every file: `srv` (attributes on the server), `iattr` (in the
inode), `kstat` (told to the kernel), each with the count of changes at which it was
copied (`sver`, `iver`, `kver`). Both conversions are modelled, with the rounding of blocks.
`done` holds the SETATTR just answered with success.

**RpcCall**. A CLIENT is an address. Each of the 24 NFS operations is a record: which
client it copies, what it changes, whether it makes a second call, and with which
pointer and when it frees the answer. CREATE is three of them, after the mode that
`hsx_fuse_create()` derives from the flags: UNCHECKED takes an existing name too, GUARDED
does not, EXCLUSIVE takes one that the server has with its verifier, and is followed by
SETATTR. `call_fails` may or may not have been executed by
the server; `hsi_nfs3_clnt_reconnect` destroys the client and makes another at any
free address, the old one included. Use of a destroyed client is
undefined behaviour: it ends the daemon (`stale_client`) or goes unnoticed.

**MtabLock**. Processes with the steps of `lock_mtab()` (link, claim, open, wait), of
the update (append, or write `mtab.tmp` and rename), of `unlock_mtab()` and of `die()`,
which a signal or an error runs at any step. `close()` and `unlink()` of
`unlock_mtab()` are one step; the clearing of `we_created_lockfile` is another.

**Mount**. The steps of `main()`: options, the retry loop around `hsi_nfs3_mount()`, the NFS and
ACL clients, the super block, `fuse_mount()`, the failure labels `umnt_fail` and
`fmnt_fail`, mtab, the session, `hsx_fuse_unmount()`. Signals do what the handlers
installed at the time say. Calls that RpcCall or MtabLock model step by step are one step with
the outcomes those modules allow: a client lost in a failed reconnection, a
process ended by `die()`. Options are parsed item by item, an item standing for what it does
to the mount.

**Transfer**. Begins with `hsi_nfs3_fsinfo()`, which sets `rsize` and `wsize`; then one request
at a time, each step of its loop one READ or WRITE. The server has the file it shows (`srv`)
and the one on its disk (`disk`), which a restart goes back to. It answers with fewer bytes than
asked, even none; it may execute a WRITE whose answer is lost, after which `hsi_nfs3_clnt_call()`
sends it again. Other clients write and truncate between two calls. `seen`, `spoiled` and
`durable` are histories for the properties. Whether a write is `direct_io` is an input: nothing
in `src/` sets it.

**Listing**. Streams that page through one directory. The verifier is in the inode and shared by
the streams, as in the code; the offset is the stream's own. The server's cookies are stable (the
verifier then never changes) or positions (every change of the directory changes the verifier, and
a cookie with another verifier is refused). An answer holds any number of the next entries; the
handler packs those that fit the kernel's buffer. READDIRPLUS shares this code; FuseRefs models what
its entries do to the inode cache.

## 3. Runs

| Run | Distinct states | Shows |
|---|---|---|
| `lookup_counts` | 574143 | RefsConserved: the daemon's count is what the kernel holds, gets or has given back, up to link() and dot entries. AssertsThatHold: of all assertions only two can fail, `hsx_fuse_ref_dec()`'s for a file that link() replied without counting, create()'s for a file the kernel already has. NoDanglingInode, SameNumberSameFile, and the refinement of NodeMap. |
| `readdirplus_listing` | 248660 | The same with listings of two entries, dot entries and all error exits; RootPinned, and every listing ends. |
| `attributes` | 142206 | ToldIsTrue: what the kernel was told of a file that has not changed since is what the server has. SetattrDoneUnlessStale, KernelNeverGoesBack. |
| `rpc_calls` | 585891 | ClientsAreRight: clients are replaced one for one. RereadIsSafe: reading `sb->clntp` again avoids the stale client. AnswersAreTrue: success means an effect, or a name that UNCHECKED or EXCLUSIVE create found there, or a setxattr that did not come to SETACL; a request that took effect is refused as if it had not only where nothing identifies its repetition, or another client came between. CallEnds. |
| `mount_life` | 17598 | NothingLeftBehind: when main() returns, kernel, mtab and mountd have forgotten the mount, up to lost answers. MtabFollowsKernel, SignalsEndSession, PointersUsedOnce, ForegroundMountEnds. |
| `mtab_lock` | 489045 | ExclusiveUnlessInterrupted, LockFileHasOwner, UpdatesAreAtomic, LockEnds, with signals and errors at every step. |
| `transfers` | 400075 | ReadReplyTrue: every byte replied is one the file showed at that place during the request, and a short reply means the file ended there. WriteReplyTrue, WritesInPlace, DirectWritesSurvive (a `direct_io` write survives restarts), SizesUsable, TransferEnds. |
| `listing` | 88486 | ListingWhole: a name that is there throughout is listed once. RefusedOnlyIfChanged, EmptyOnlyAtEnd, ListingEnds. |

Four runs state what a comment or an assertion of the code says and find it violated;
PROJECT.json quotes the lines.

| Run | What happens |
|---|---|
| `link_underflow` | link() replies an entry without counting it; the FORGET of all references fails the assertion in `hsx_fuse_ref_dec()`. |
| `lost_truncate` | After a write the cached size is old; a truncation back to it is skipped and answered with success. |
| `stale_client` | After a reconnection 16 operations free their answer with the destroyed client. |
| `mtab_signal` | A signal between `unlink()` and the clearing of the flag unlinks another process's lock file. |

Behaviour that the models contain and that no run reports as a finding. The first five
disagree with a text of the repository and would each bear a run of their own:

- CREATE of a file that the kernel already knows, because another client linked or renamed it to the
  name after the kernel looked, fails `FUSE_ASSERT(ref == 0)`, "Should be a new one..."
  (`hsx_fuse_create` in FuseRefs, `src/fuse/hsx_fuse_create.c:64`; AssertsThatHold names the case, and
  without it TLC finds it violated after four steps: look the file up, then create it);
- an answer without attributes gives an error pointer that `IS_ERR()` does not recognise
  (`BadInodeReply` and `hsi_fill_super` in FuseRefs, `src/include/hsfs/err.h:55`), and the daemon uses
  it as an inode;
- an explicit atime or mtime is replaced by the server's clock (`set_time` in AttrCache,
  `src/nfs3/hsi_nfs3_setattr.c:89`), while `to_set` is the "bit mask of attributes which
  should be set" (`src/include/hsx_fuse.h:267`);
- the option `mountvers=3` is refused (`hsi_nfsmnt_check_compat` in Mount), while the message
  says "not supported, only 3" (`src/nfs3/hsi_nfs3_mount.c:75`);
- a mount in the background retries for ever, always a second apart, while the comment says
  "1, 2, 4, 8, 16, 30, ..." (`src/nfs3/hsi_nfs3_mount.c:693`);
- an unknown option with a value ends the parsing with success (`parse_option` in Mount);
- a foreground mount decides on a retry by an `rpc_createerr` that the failed call may not
  have set;
- when the NFS client cannot be made, `clnt_destroy(NULL)` follows (`fmnt_fail` in Mount);
- a SIGTERM to root's daemon runs `die()` and leaves the file system mounted
  (SignalsEndSession names the case);
- a listing whose cookie is out of date goes unnoticed when another listing of the same directory
  has renewed the verifier in the inode: names are then lost or doubled (`mixed` in Listing, the exception
  of ListingWhole, without which TLC finds it violated);
- setxattr answers success without having sent SETACL when GETACL failed, for a default list on a file, and when
  there is no list to send (AnswersAreTrue names the case, `src/nfs3/hsi_nfs3_setxattr.c:49-77`);
- the verifier of an EXCLUSIVE create is the number of the directory (`src/nfs3/hsi_nfs3_create.c:59`), the same
  for every such create in it: open() with O_EXCL also succeeds on a file that another EXCLUSIVE create has made
  as long as the server keeps that verifier (`found` in RpcCall);
- getxattr without memory for the list frees the answer with the client of the other program (`FreedWith` in
  RpcCall, `src/nfs3/hsi_nfs3_getxattr.c:63`);
- data written without `direct_io` is UNSTABLE, never committed, and the write verifier of the answer
  is not kept: a restart of the server loses it without notice (`spoiled` in Transfer);
- a server whose `rtmax` is between 512 and 1023 is believed, but `hsfs_block_size()` turns a size
  below 1024 into 4096, so that `rsize` exceeds `rtmax`.

## 4. Bounds

TLC's instances are small and every bound is a named constant.

- `lookup_counts`: the root, a directory and a file, of which the last two share a
  fileid; three numbers; two references, one link() and one iput per inode; listings
  of one entry that is not a dot entry (those are in the other run). Two files that reuse one fileid are what tells
  `nfs_find_actor()`'s two comparisons apart, and two references are what a FORGET of
  part of them needs.
- `readdirplus_listing`: the root and one file, listings of up to two entries. With two
  entries a list has a first and a later element, and one file can appear twice.
- `attributes`: two changes per file, two values of each attribute, seven requests, the ones
  chmod, chown, truncate, open with O_TRUNC, utimes and touch make. Two changes are
  enough for a cached copy to be old twice over.
- `rpc_calls`: three addresses, which allows a new client at the old address and at
  another; two retries instead of five, so that a first, a middle and a last attempt exist.
- `mtab_lock`: jobs add, remount and del, though no option of today reaches the branch for a remount
  (`hsi_parse_opt()` refuses it); two processes on one mount point, other entries on a second one, one try
  instead of 100000. `mtab_signal` has three processes, as the counterexample needs the
  interrupted one, its victim and the one let in.

- `mount_life`: all lists of up to two of the seven kinds of options. Nothing else is bounded:
  the retry loop returns to the same states.
- `transfers`: files of up to three bytes of two values, one change by others and one restart during
  one request. Calls are of at most two or four bytes; with two a request of three bytes takes at least two
  calls, and a change falls between them. The sizes 512, 1024, 4096, 64K and 1 MiB are scaled to 1, 2, 4, 4 and 8.
  The server announces a maximum below the floor (0, not believed), between floor and minimum (1, replaced by
  the default), between two powers (3, rounded down to 2) and above what was chosen (6), 3 for reads and one of the
  others for writes or the other way round. The branch for a size of 0 and the cap of 1 MiB are in the model and in the proof, but no mount
  reaches them: `hsi_validate_mount_data()` overwrites what the options said with a size between.
- `listing`: two streams, three names of which one is longer, a buffer for three units, two changes of
  the directory: one to put a cookie out of date, one more to do so again after a restart of the listing.

`CHECK_DEADLOCK FALSE` is given where the system may stop: the daemon has ended or reached
the bounds, or all mount processes have finished. `mtab_signal` uses symmetry of the processes;
runs with a liveness property use none.

## 5. Fairness

- FuseRefs, `WF(ReaddirStep)`: the loops of one READDIRPLUS run in one thread without
  waiting for anybody.
- RpcCall, `WF(Proceed)`: the daemon is scheduled, and a call to a silent server ends by
  the time-out given to `clnt_call()`, which is an action of `Proceed`. Nothing is assumed
  of the server.
- MtabLock, `WF(Step(p))` for every process: processes are scheduled and `alarm()`
  ends a wait for the fcntl lock. Signals (`die`) are never assumed to come.

- Mount, `WF(Step)` and `WF(time_passes)`: the process is scheduled, calls time out, the
  clock goes on. `Step` leaves out the end of a session, which nobody owes.
- Transfer, `WF(reply \/ Progress)`: the daemon is scheduled, and the server does not answer
  0 bytes without eof, or lose its answers, for ever (the retries of a lost answer are bounded in RpcCall). The loops have no guard of their own
  against the latter.
- Listing, `WF(ReaddirStep(l))` for every stream: a program that lists a directory reads on.

## 6. Proofs

Proofs are for every value of the constants, from the named assumptions of the modules
(`CacheAssumption`, `RefsAssumption`, `AttrAssumption`, `RpcAssumption`, `MtabAssumption`, `MountAssumption`, `TransferAssumption`, `IoAssumption`, `ListingAssumption`: types of the constants, and that constants that stand for "none" are outside the sets they stand beside). TLC evaluates the same assumptions in every run.

**FuseRefs.** RefsConserved is not inductive alone: a handler counts for the inode
that the cache returns, so the proof needs to know which inode that is. `IInv` adds:
both tables hold the same allocated inodes, one per file, and `i_count` never
rises above 0 (CacheInv); the server has made every file met (BornInv); pairs named to the
kernel and pairs in the READDIRPLUS list are cached (NamedInv, CtxInv); nothing is
counted for an inode outside the tables (CountInv); only files are linked, and only directories are
dot entries (KindInv), so that a shortfall in `hsx_fuse_ref_dec()` is link()'s;
what the phases of the daemon's life say of the root, and that nothing has failed while it lives (LifeInv). FuseHandlerProofs has one
lemma per handler, per step of a listing and per environment action; FuseRefsProofs combines them and
derives the theorems, and the refinement of NodeMap step by step. From the same invariant follows
InodesAreKept: no handler ever frees an inode or gives its number to another file, since `hsfs_iput()` frees at a
count of exactly 0 and never meets a count of 1. NumberIsFound is about the loop of `__inode_add_to_lists()`: while a
number is free it ends, with one number, also after the counter has wrapped, and the root's number is not given
again. It rests on the least element of a set of numbers (well-foundedness of `<`).

**AttrCache.** ToldIsTrue needs that the inode's own copy is true when it is recent
(CachedIsTrue, for regular files: create() writes the caller into the directory's
inode) and that no copy is newer than the server (Ordered).

**RpcCall.** ClientsAreRight and RereadIsSafe need where the three copies of
a pointer agree (PointersInv). AnswersAreTrue needs how often an operation can have taken effect
at each place of the retry loop (EffectsInv), that a name made by an EXCLUSIVE create keeps its verifier until
another client changes it (NameInv), and what the result then says (ResultInv).

**MtabLock.** Mutual exclusion follows from the ownership of the lock file: a process between its
link() and its unlink() has the name (OwnInv), and the flag tells where a process is
(FlagInv), so that `die()` removes only its own lock file, except in the one window
the `mtab_signal` run exhibits. NoUpdateIsLost adds that `mtab.tmp` is always the update of
the mtab of now (TempInv).

**Transfer.** ReadReplyTrue and WriteReplyTrue are about the end of a loop; ReadInv and WriteInv say the same
of the first `cnt` bytes at every turn. Shape bounds `cnt` by the size and ties the phase to the
request. SizesUsable rests on lemma BlockSize: rounding to a power of
two gives neither 0 nor more than the maximum. StoredFacts, PutFacts and CutFacts say what a WRITE, a write by
another client and a truncation leave of a file. QuietReads sharpens ReadReplyTrue for a request during which
nobody changed the file and the server did not restart: the reply is then the file itself, up to its end.

**Mount.** The invariant ties the place of the process to what it has made: which ends are reached with what
left (EndInv), where kernel, mtab and mountd know of the mount (KernelInv, MtabInv, RmtabInv), which signal
handlers are installed (HandlerInv), where the root handle is held (HandleInv) and in which state the client is
(ClientInv). One lemma per phase of `main()` shows that its steps keep the types, another that they keep the rest.

**Listing.** ListingWhole is about names, while a step only knows the cookie. `LastGot(l, n)` says that n is the last
name a listing has got: it has every lasting name up to n, no name twice and none above n, and its cookie is
the server's cookie of n as long as the directory has not changed since. The invariant says that every listing that is not
mixed has such a last name (PositionInv) and, if it has ended, all lasting names (EndedInv); that lasting names are in the
directory (LastingInv); that stable cookies come with one verifier and a listing past its first reply has one (VerfInv); and
that the inode holds the verifier of every listing that is up to date (SharedInv), which is why a cookie out of
date is refused unless another listing has renewed the verifier. Below it are lemmas on finite sets of numbers (GreatestExists by a
smallest counterexample in the ordering of subsets, LeastExists), on the order of cookies, which are cardinalities for
one kind of server (CookieFacts), and on the packing of an answer into the buffer (PackedFacts: a head of it, and not
empty unless the answer is). The exception
of ListingWhole needs both of its ingredients: with cookies that stay good every listing is whole however many share
the verifier (StableListingsWhole), and a listing alone in its directory is whole with any server (LoneListingWhole).

**Bounds behind the liveness properties.** Each liveness property of a run rests on a number that the steps under fairness
bring down and nothing brings up again. These numbers, unlike the liveness, are proved:

| Theorem | What goes down | Bound | Behind |
|---|---|---|---|
| BoundedReaddirPlus | steps left of the three loops, whatever the answer and the error path | `2 * MaxEntries + 2` | ReaddirPlusEnds |
| BoundedCalls | steps left of an operation with its retries and reconnections | `4 * MaxRetries + 8` | CallEnds |
| BoundedLocking | steps left of a process; no competitor and no signal to another puts it back | `6 * MaxTries + 8` | LockEnds |
| AdvancingTransfers, AskingForBytes | bytes left, with every answer that has bytes or eof; no call is for 0 bytes | the size asked for | TransferEnds |
| ListingsAdvance | names after the cookie | the greatest name | ListingEnds |
| MountMovesOn | places between here and the end of main(); only a retry goes back, in the foreground before the deadline | 12 from the first call to mountd | ForegroundMountEnds |

## 7. What is only model-checked

Liveness (ReaddirPlusEnds, CallEnds, LockEnds, ForegroundMountEnds, TransferEnds,
ListingEnds) is beyond the prover, as is ENABLED; the bounds it rests on are proved (section 6).
The four violated properties are counterexamples and have nothing to prove. Every safety property and every action
property of the passing runs has a theorem. TypeOK of AttrCache and of Mount is proved and is in no run.

## 8. Not modelled

- The wire format (rpcgen's input), logging, the split of options between FUSE and NFS, the text of
  mtab fields (mangle, unmangle), and `nfs_common/hsi_nfs_getroot.c`, which no Makefile compiles. open() and release()
  of hsfs only reply.
- The contents of ACLs. Both calls, GETACL and SETACL, are in RpcCall with their retries and results. That
  setting one half of a directory's ACL sends the old list of that half as the other one
  (`src/nfs3/hsi_nfs3_setxattr.c:49-63`) and that
  `hsx_fuse_setxattr()` answers twice (`src/fuse/hsx_fuse_setxattr.c:33,37`) are visible in one sequential
  reading, and nothing in the repository states what is meant.
- The answer of the second call of create, link and fsinfo is freed by the function that makes it; RpcCall has the
  outer `clnt_freeres()` only.
- Signals without a handler: `lock_mtab()` installs them below SIGCHLD only (`src/nfs3/fstab.c:324`). SIGKILL and the
  rest end a mount process and leave its lock file.
- A server that breaks the protocol of READ and WRITE: `resok->count` and the length of the data are used as they come
  (`src/nfs3/hsi_nfs3_read.c:41-44`, `src/nfs3/hsi_nfs3_write.c:42`), and Transfer has servers that answer
  at most what was asked, with a count that is that of the data.
- Overflow of `i_count`, an int, and of `private`, an unsigned long: the bounds of FuseRefs stand below it.
- Duplicates of a WRITE that arrive after its repetition was answered: the client uses one connection, and
  `src/` has nothing that would notice them.
- The table of error numbers and the bits of modes: tables without state. `dtsize` and the other numbers of
  FSINFO are stored and never read.
