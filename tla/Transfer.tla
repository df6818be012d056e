------------------------------ MODULE Transfer ------------------------------
(***************************************************************************)
(* Reading and writing a file: hsx_fuse_read() and hsx_fuse_write() split   *)
(* a request of the kernel into READ or WRITE calls of at most rsize or     *)
(* wsize bytes, sizes that hsi_fsinfo_to_super() took from the server when  *)
(* the file system was mounted.                                             *)
(*                                                                          *)
(* The server answers a call with fewer bytes than asked, even none, or     *)
(* with an error; it may have executed a WRITE whose answer is lost, and    *)
(* the call is then repeated by hsi_nfs3_clnt_call().  What it has not      *)
(* written to its disk is gone when it restarts.  Other clients write and   *)
(* truncate the file between two calls of one request.  (That the network   *)
(* delivers a WRITE after its repetition was answered is left out.)  The    *)
(* server keeps to the protocol: no answer has more bytes than were asked   *)
(* for, and its count is that of its data, which the code does not check.   *)
(***************************************************************************)
EXTENDS Integers

CONSTANTS
    Bytes,      \* the values of a byte
    Zero,       \* the byte that fills a hole
    MaxLen,     \* bound: length of the file
    MaxOthers,  \* bound: changes by other clients during one request
    MaxCrashes, \* bound: restarts of the server during one request
    Powers,     \* the powers of two up to MaxIo
    MinIo,      \* HSFS_MIN_FILE_IO_SIZE
    DefIo,      \* HSFS_DEF_FILE_IO_SIZE
    MaxIo,      \* HSFS_MAX_FILE_IO_SIZE
    FloorIo,    \* the 512 below which a server's maximum is not believed
    InitIo,     \* the sizes hsi_validate_mount_data() sets for a protocol
    Announced   \* the answers to FSINFO: preferred and maximum sizes

Positive == Nat \ {0}

ASSUME TransferAssumption ==
    /\ Zero \in Bytes
    /\ MaxLen \in Positive /\ MaxOthers \in Nat /\ MaxCrashes \in Nat

ASSUME IoAssumption ==
    /\ Powers \subseteq Positive
    /\ \A b \in 1 .. MaxIo : \E p \in Powers : p <= b /\ b < 2 * p
    /\ MinIo \in Positive /\ MaxIo \in Positive
    /\ DefIo \in 1 .. MaxIo
    /\ FloorIo \in Nat /\ InitIo \subseteq Positive
    /\ Announced \subseteq [rtpref : Nat, rtmax : Nat, wtpref : Nat, wtmax : Nat]

Offsets == 0 .. MaxLen - 1
Data == [Offsets -> Bytes]

(* A file: bytes at and after its length read as Zero should it grow.       *)
File == [len : 0 .. MaxLen, at : Data]

NoBytes == [o \in Offsets |-> Zero]
NoRequest == [op |-> "none", off |-> 0, size |-> 0, data |-> NoBytes,
              direct |-> FALSE]

Request == [op : {"none", "read", "write"}, off : Nat, size : Nat,
            data : Data, direct : BOOLEAN]

VARIABLES
    phase,    \* "mounting", "idle", or "run" while a request is served
    rsize,    \* sb->rsize
    wsize,    \* sb->wsize
    req,      \* the request: offset, size, and the bytes to write
    cnt,      \*   the bytes transferred so far
    buf,      \*   the buffer of a read
    eof,      \*   rinfo.eof
    srv,      \* the file as the server shows it
    disk,     \* the file as the server would show it after a restart
    seen,     \* history: what the server has shown during this read
    spoiled,  \* history: offsets that changed again after this write's call
    durable,  \* history: offsets whose byte a direct write has promised
    changes,  \* bound: changes others made during this request
    crashes   \* bound: restarts during this request

sizeVars == <<rsize, wsize>>
callVars == <<req, cnt, buf, eof>>
vars == <<phase, sizeVars, callVars, srv, disk, seen, spoiled, durable,
          changes, crashes>>

(* The request in hand is well formed and what was transferred lies within  *)
(* it, so that hsx_fuse_read() and hsx_fuse_write() stay in their buffers.  *)
TypeOK ==
    /\ phase \in {"mounting", "idle", "run"}
    /\ rsize \in Nat /\ wsize \in Nat
    /\ req \in Request /\ req.off + req.size <= MaxLen
    /\ cnt \in 0 .. req.size
    /\ buf \in Data /\ eof \in BOOLEAN
    /\ srv \in File /\ disk \in File
    /\ seen \in SUBSET File
    /\ spoiled \subseteq Offsets /\ durable \subseteq Offsets
    /\ changes \in 0 .. MaxOthers /\ crashes \in 0 .. MaxCrashes

-----------------------------------------------------------------------------
(* Mounting: the sizes of a transfer.                                       *)

smaller(a, b) == IF a < b THEN a ELSE b

(* The largest power of two that is not above b, for the sizes it gets.     *)
hsfs_block_bits(b) ==
    IF b \in Powers THEN b ELSE CHOOSE p \in Powers : p <= b /\ b < 2 * p

hsfs_block_size(b) ==
    hsfs_block_bits(IF b < MinIo THEN DefIo ELSE IF b >= MaxIo THEN MaxIo ELSE b)

(* Mutant: the maximum is taken as announced.                               *)
to_super_unrounded(size, pref, max) ==
    LET s1 == IF size = 0 THEN hsfs_block_size(pref) ELSE size
    IN smaller(smaller(s1, max), MaxIo)

(* Of hsi_fsinfo_to_super(), what it does to rsize and to wsize.            *)
hsi_fsinfo_to_super(size, pref, max) ==
    LET s1 == IF size = 0 THEN hsfs_block_size(pref) ELSE size
        s2 == IF max >= FloorIo /\ s1 > max THEN hsfs_block_size(max) ELSE s1
    IN IF s2 > MaxIo THEN MaxIo ELSE s2

(* hsi_validate_mount_data() has set both sizes, the same for both whatever *)
(* the options said; FSINFO corrects them.                                  *)
hsi_nfs3_fsinfo ==
    /\ phase = "mounting"
    /\ \E fsinfo \in Announced :
          /\ rsize' = hsi_fsinfo_to_super(rsize, fsinfo.rtpref, fsinfo.rtmax)
          /\ wsize' = hsi_fsinfo_to_super(wsize, fsinfo.wtpref, fsinfo.wtmax)
    /\ phase' = "idle"
    /\ UNCHANGED <<callVars, srv, disk, seen, spoiled, durable, changes,
                   crashes>>

-----------------------------------------------------------------------------
(* Requests.                                                                *)

(* Mutants: what was transferred is not taken off; the offset stays; the    *)
(* flag is inverted.                                                        *)
tmp_size_whole(iosize) == smaller(req.size, iosize)
rw_off_fixed == req.off
stable_inverted == IF req.direct THEN "HSFS_UNSTABLE" ELSE "HSFS_FILE_SYNC"

(* tmp_size of the loops, and the offset of the next call.                  *)
tmp_size(iosize) == smaller(req.size - cnt, iosize)

rw_off == req.off + cnt

(* How a WRITE is to be stored: fi->direct_io asks for it to be on disk.    *)
stable == IF req.direct THEN "HSFS_FILE_SYNC" ELSE "HSFS_UNSTABLE"

(* The offsets of a write that the server has acknowledged.                 *)
Written == req.off .. req.off + cnt - 1

(* A request with its buffer and its inode is at hand.  Without memory or   *)
(* the inode the kernel gets ENOMEM or ENOENT and nothing happens.          *)
Begin(r) ==
    /\ phase = "idle" /\ phase' = "run"
    /\ req' = r /\ cnt' = 0 /\ buf' = NoBytes /\ eof' = FALSE
    /\ seen' = IF r.op = "read" THEN {srv} ELSE {}
    /\ UNCHANGED <<sizeVars, srv, disk, spoiled, durable, changes, crashes>>

hsx_fuse_read(off, size) ==
    Begin([op |-> "read", off |-> off, size |-> size, data |-> NoBytes,
           direct |-> FALSE])

hsx_fuse_write(off, size, data, direct_io) ==
    Begin([op |-> "write", off |-> off, size |-> size, data |-> data,
           direct |-> direct_io])

Loops(op) == phase = "run" /\ req.op = op /\ cnt < req.size /\ ~eof

(* The loop is over.                                                        *)
Done == phase = "run" /\ (cnt >= req.size \/ eof)

End ==
    /\ phase' = "idle"
    /\ req' = NoRequest /\ cnt' = 0 /\ buf' = NoBytes /\ eof' = FALSE
    /\ seen' = {} /\ spoiled' = {} /\ changes' = 0 /\ crashes' = 0
    /\ UNCHANGED <<sizeVars, srv, disk>>

(* What a READ leaves in the buffer.                                        *)
Filled(n) ==
    [o \in Offsets |->
       IF cnt <= o /\ o < cnt + n THEN srv.at[rw_off + (o - cnt)] ELSE buf[o]]

Reads(n, total, end) ==
    /\ Loops("read")
    /\ n <= tmp_size(rsize)
    /\ n = 0 \/ rw_off + n <= srv.len
    /\ buf' = Filled(n) /\ cnt' = total /\ eof' = end
    /\ UNCHANGED <<phase, sizeVars, req, srv, disk, seen, spoiled, durable,
                   changes, crashes>>

(* Mutants: a short answer is taken for a whole one; the end is ignored.    *)
read_counts_asked(n) ==
    Reads(n, cnt + tmp_size(rsize), rw_off + n >= srv.len)
read_ignores_eof(n) == Reads(n, cnt + n, FALSE)

(* READ: the server gives n bytes at the offset, and says whether they end  *)
(* the file.                                                                *)
hsi_nfs3_read(n) == Reads(n, cnt + n, rw_off + n >= srv.len)

(* The file f with the next n bytes of the request in their place.          *)
Stored(f, n) ==
    IF n = 0 THEN f
    ELSE [len |-> IF rw_off + n > f.len THEN rw_off + n ELSE f.len,
          at |-> [o \in Offsets |->
                    IF rw_off <= o /\ o < rw_off + n
                    THEN req.data[cnt + (o - rw_off)]
                    ELSE f.at[o]]]

(* The server executes a WRITE of the next n bytes.                         *)
Executes(n) ==
    /\ Loops("write")
    /\ n <= tmp_size(wsize)
    /\ srv' = Stored(srv, n)
    /\ disk' = IF stable = "HSFS_FILE_SYNC" THEN Stored(disk, n) ELSE disk
    /\ durable' = durable \ (rw_off .. rw_off + n - 1)
    /\ UNCHANGED <<phase, sizeVars, req, buf, eof, seen, spoiled, changes,
                   crashes>>

(* Mutant: a short answer is taken for a whole one.                         *)
write_counts_asked(n) == Executes(n) /\ cnt' = cnt + tmp_size(wsize)

hsi_nfs3_write(n) == Executes(n) /\ cnt' = cnt + n

(* The answer does not arrive: hsi_nfs3_clnt_call() will send it again.     *)
hsi_nfs3_write_unanswered(n) == Executes(n) /\ UNCHANGED cnt

(* fuse_reply_buf() and fuse_reply_write() give the kernel cnt bytes.       *)
reply ==
    /\ Done
    /\ End
    /\ durable' = IF req.op = "write" /\ req.direct
                  THEN durable \cup (Written \ spoiled)
                  ELSE durable

(* The call fails for good: fuse_reply_err().                               *)
reply_error ==
    /\ Loops("read") \/ Loops("write")
    /\ End
    /\ UNCHANGED durable

-----------------------------------------------------------------------------
(* The server and its other clients.                                        *)

Differ(f, g) == {o \in Offsets : f.at[o] # g.at[o] \/ (o < f.len) # (o < g.len)}

(* The server shows f from now on.                                          *)
Shows(f) ==
    /\ srv' = f
    /\ seen' = IF req.op = "read" THEN seen \cup {f} ELSE seen
    /\ spoiled' = IF req.op = "write"
                  THEN spoiled \cup (Written \cap Differ(srv, f)) ELSE spoiled
    /\ UNCHANGED <<phase, sizeVars, callVars>>

Changed(f) ==
    /\ phase = "run" => changes < MaxOthers
    /\ changes' = IF phase = "run" THEN changes + 1 ELSE changes
    /\ durable' = durable \ Differ(srv, f)
    /\ Shows(f)
    /\ UNCHANGED crashes

Put(f, o, v) == [len |-> IF o < f.len THEN f.len ELSE o + 1,
                 at |-> [x \in Offsets |-> IF x = o THEN v ELSE f.at[x]]]

Cut(f, n) == [len |-> IF n < f.len THEN n ELSE f.len,
              at |-> [x \in Offsets |-> IF x < n THEN f.at[x] ELSE Zero]]

(* Another client writes the byte v at o, unstable or not.                  *)
server_write(o, v) ==
    /\ Changed(Put(srv, o, v))
    /\ disk' = Put(disk, o, v) \/ disk' = disk

(* Another client truncates the file, which is on the disk at once.         *)
server_truncate(n) == Changed(Cut(srv, n)) /\ disk' = Cut(disk, n)

server_flush ==
    /\ disk # srv
    /\ disk' = srv
    /\ UNCHANGED <<phase, sizeVars, callVars, srv, seen, spoiled, durable,
                   changes, crashes>>

server_restart ==
    /\ phase = "run" => crashes < MaxCrashes
    /\ crashes' = IF phase = "run" THEN crashes + 1 ELSE crashes
    /\ Shows(disk)
    /\ UNCHANGED <<disk, durable, changes>>

-----------------------------------------------------------------------------
Init ==
    /\ phase = "mounting"
    /\ rsize \in InitIo /\ wsize = rsize
    /\ req = NoRequest /\ cnt = 0 /\ buf = NoBytes /\ eof = FALSE
    /\ srv = [len |-> 0, at |-> NoBytes] /\ disk = srv
    /\ seen = {} /\ spoiled = {} /\ durable = {}
    /\ changes = 0 /\ crashes = 0

(* The bytes a program writes; the rest of the buffer is not looked at.     *)
Buffers(size) == {d \in Data : \A k \in Offsets : k >= size => d[k] = Zero}

KernelStep ==
    \E off \in Offsets : \E size \in 1 .. MaxLen - off :
       \/ hsx_fuse_read(off, size)
       \/ \E d \in Buffers(size), direct \in BOOLEAN :
             hsx_fuse_write(off, size, d, direct)

CallStep ==
    \E n \in 0 .. MaxLen :
       hsi_nfs3_read(n) \/ hsi_nfs3_write(n) \/ hsi_nfs3_write_unanswered(n)

ServerStep ==
    \/ \E o \in Offsets, v \in Bytes : server_write(o, v)
    \/ \E n \in 0 .. MaxLen : server_truncate(n)
    \/ server_flush
    \/ server_restart

Next ==
    \/ hsi_nfs3_fsinfo \/ KernelStep \/ CallStep \/ reply \/ reply_error
    \/ ServerStep

Spec == Init /\ [][Next]_vars

(* A call that brings bytes, or the end of the file.                        *)
Progress ==
    \/ \E n \in 1 .. MaxLen : hsi_nfs3_read(n) \/ hsi_nfs3_write(n)
    \/ hsi_nfs3_read(0) /\ eof'

(* The daemon replies when its loop is over; a server that is asked again   *)
(* and again does not answer with nothing for ever.                         *)
Fairness == WF_vars(reply \/ Progress)

FairSpec == Spec /\ Fairness

-----------------------------------------------------------------------------
(* hsi_fsinfo_to_super() never leaves a size of 0, with which the loops of  *)
(* hsx_fuse_read() and hsx_fuse_write() would ask for nothing for ever, nor *)
(* one above HSFS_MAX_FILE_IO_SIZE.                                         *)
SizesUsable == phase # "mounting" => rsize \in 1 .. MaxIo /\ wsize \in 1 .. MaxIo

(* What hsx_fuse_read() replies: every byte is one that the file showed at  *)
(* its offset while the request was served, whatever sizes the answers had, *)
(* and a short count means that the file ended there at some moment.        *)
ReadReplyTrue ==
    Done /\ req.op = "read" =>
      /\ \A k \in Offsets : k < cnt =>
            \E f \in seen : req.off + k < f.len /\ buf[k] = f.at[req.off + k]
      /\ cnt < req.size => \E f \in seen : f.len <= req.off + cnt

(* When hsx_fuse_write() replies a count, it is the whole size, and every   *)
(* byte is in the file, but where another client wrote, or a restart took   *)
(* an unstable byte back, after the server had acknowledged it.             *)
WriteReplyTrue ==
    Done /\ req.op = "write" =>
      /\ cnt = req.size
      /\ \A k \in Offsets :
            k < req.size /\ req.off + k \notin spoiled =>
              req.off + k < srv.len /\ srv.at[req.off + k] = req.data[k]

(* What a write with direct_io has acknowledged is on the disk of the       *)
(* server, through its restarts, until somebody writes there again.         *)
DirectWritesSurvive ==
    \A o \in durable :
       /\ o < disk.len /\ o < srv.len
       /\ disk.at[o] = srv.at[o]

(* The calls of a write change no byte outside the request, and put none in *)
(* another byte's place: what else changes is the work of other clients or  *)
(* of a restart.                                                            *)
WritesInPlace ==
    [][req.op = "write" /\ changes' = changes /\ crashes' = crashes =>
         \A o \in Offsets :
            \/ srv'.at[o] = srv.at[o]
            \/ /\ req.off <= o /\ o < req.off + req.size
               /\ srv'.at[o] = req.data[o - req.off]]_vars

(* Every read and write is answered.                                        *)
TransferEnds == phase = "run" ~> phase = "idle"
=============================================================================
