--------------------------- MODULE TransferProofs ---------------------------
(***************************************************************************)
(* Proofs about Transfer, for every length of the file, every set of bytes, *)
(* every size a server may announce and any number of restarts and of       *)
(* changes by other clients: the type invariant, the sizes, what a read and *)
(* a write reply, the fate of a direct write, and that a write stays within *)
(* its request.                                                             *)
(***************************************************************************)
EXTENDS Transfer, TLAPS

USE ZenonT(60)

(* A request is in hand exactly while the daemon serves one.                *)
Shape ==
    /\ phase = "run" <=> req.op # "none"
    /\ phase = "mounting" => rsize # 0 /\ wsize # 0
    /\ eof => req.op = "read"

Shown(f, k) == req.off + k < f.len /\ buf[k] = f.at[req.off + k]

ReadInv ==
    req.op = "read" =>
      /\ srv \in seen
      /\ \A k \in Offsets : k < cnt => \E f \in seen : Shown(f, k)
      /\ eof => \E f \in seen : f.len <= req.off + cnt

Holds(f, k) == req.off + k < f.len /\ f.at[req.off + k] = req.data[k]

WriteInv ==
    req.op = "write" =>
      \A k \in Offsets :
         k < cnt /\ req.off + k \notin spoiled =>
           Holds(srv, k) /\ (req.direct => Holds(disk, k))

IInv ==
    TypeOK /\ Shape /\ SizesUsable /\ ReadInv /\ WriteInv
      /\ DirectWritesSurvive

-----------------------------------------------------------------------------
(* hsfs_block_size() gives a size that the loops can work with.             *)
LEMMA BlockSize ==
    ASSUME NEW b \in Nat
    PROVE  hsfs_block_size(b) \in 1 .. MaxIo
<1> DEFINE c == IF b < MinIo THEN DefIo ELSE IF b >= MaxIo THEN MaxIo ELSE b
<1>1. c \in 1 .. MaxIo
  BY SMTT(60), IoAssumption DEF Positive
<1>2. CASE c \in Powers
  <2>1. hsfs_block_bits(c) = c
    BY <1>2 DEF hsfs_block_bits
  <2> QED
    BY <2>1, <1>1 DEF hsfs_block_size
<1>3. CASE c \notin Powers
  <2>1. PICK p \in Powers : p <= c /\ c < 2 * p
    BY <1>1, IoAssumption
  <2> DEFINE q == CHOOSE x \in Powers : x <= c /\ c < 2 * x
  <2>2. q \in Powers /\ q <= c
    BY <2>1
  <2>3. hsfs_block_bits(c) = q
    BY <1>3 DEF hsfs_block_bits
  <2> HIDE DEF q, c
  <2>4. q \in 1 .. MaxIo
    BY SMTT(60), <2>2, <1>1, IoAssumption DEF Positive
  <2> QED
    BY <2>3, <2>4 DEF hsfs_block_size, c
<1> QED
  BY <1>2, <1>3

(* hsi_fsinfo_to_super() leaves a size within the limits.                   *)
LEMMA SizeFromServer ==
    ASSUME NEW size \in Nat, NEW pref \in Nat, NEW max \in Nat
    PROVE  hsi_fsinfo_to_super(size, pref, max) \in 1 .. MaxIo
<1> DEFINE s1 == IF size = 0 THEN hsfs_block_size(pref) ELSE size
           s2 == IF max >= FloorIo /\ s1 > max THEN hsfs_block_size(max) ELSE s1
<1>1. hsfs_block_size(pref) \in 1 .. MaxIo /\ hsfs_block_size(max) \in 1 .. MaxIo
  BY BlockSize
<1>2. MaxIo \in Nat /\ MaxIo # 0
  BY IoAssumption DEF Positive
<1>3. s1 \in Nat /\ s1 # 0
  BY SMTT(60), <1>1, <1>2
<1>4. s2 \in Nat /\ s2 # 0
  <2> HIDE DEF s1
  <2> QED
    BY SMTT(60), <1>1, <1>2, <1>3
<1>5. (IF s2 > MaxIo THEN MaxIo ELSE s2) \in 1 .. MaxIo
  <2> HIDE DEF s2
  <2> QED
    BY SMTT(60), <1>2, <1>4
<1> QED
  BY <1>5 DEF hsi_fsinfo_to_super

-----------------------------------------------------------------------------
LEMMA InitInv == Init => IInv
<1> SUFFICES ASSUME Init PROVE IInv
  OBVIOUS
<1> USE TransferAssumption, IoAssumption
<1>1. NoBytes \in Data
  BY DEF NoBytes, Data
<1>2. MaxLen \in Nat /\ 0 \in 0 .. MaxLen /\ 0 \in 0 .. 0
  BY SMTT(60) DEF Positive
<1>3. /\ req \in Request /\ req.off = 0 /\ req.size = 0 /\ req.op = "none"
      /\ ~eof
  BY SMTT(60), <1>1 DEF Init, Request, NoRequest
<1>4. srv \in File /\ disk \in File
  BY SMTT(60), <1>1, <1>2 DEF Init, File
<1>5. rsize \in Nat /\ wsize \in Nat /\ rsize # 0 /\ wsize # 0
  BY DEF Init, Positive
<1>6. req.off + req.size <= MaxLen /\ cnt \in 0 .. req.size
  BY SMTT(60), <1>2, <1>3 DEF Init
<1>7. changes \in 0 .. MaxOthers /\ crashes \in 0 .. MaxCrashes
  BY SMTT(60) DEF Init
<1>8. TypeOK
  BY <1>1, <1>3, <1>4, <1>5, <1>6, <1>7 DEF Init, TypeOK
<1> QED
  BY <1>3, <1>5, <1>8 DEF Init, IInv, Shape, SizesUsable, ReadInv,
     WriteInv, DirectWritesSurvive

(* Between two requests nothing is said about a read or a write.            *)
LEMMA StartKeeps ==
    ASSUME IInv, NEW r \in Request, r.off + r.size <= MaxLen, r.op # "none",
           Begin(r)
    PROVE  IInv'
<1>1. /\ cnt' = 0 /\ eof' = FALSE /\ req' = r /\ buf' = NoBytes
      /\ phase = "idle" /\ phase' = "run"
      /\ UNCHANGED <<sizeVars, srv, disk, spoiled, durable, changes, crashes>>
      /\ seen' = IF r.op = "read" THEN {srv} ELSE {}
  BY DEF Begin
<1>2. r.size \in Nat /\ r.off \in Nat
  BY DEF Request
<1>3. 0 \in 0 .. r.size
  BY SMTT(60), <1>2
<1>4. NoBytes \in Data
  BY TransferAssumption DEF NoBytes, Data
<1>5. TypeOK'
  BY <1>1, <1>3, <1>4 DEF IInv, TypeOK, sizeVars
<1>6. Shape' /\ SizesUsable'
  BY <1>1 DEF IInv, Shape, SizesUsable, sizeVars
<1>7. \A k \in Offsets : ~ (k < 0)
  BY SMTT(60) DEF Offsets
<1>8. ReadInv'
  BY <1>1, <1>7 DEF ReadInv
<1>9. WriteInv' /\ DirectWritesSurvive'
  BY <1>1, <1>7 DEF IInv, WriteInv, DirectWritesSurvive
<1> QED
  BY <1>5, <1>6, <1>8, <1>9 DEF IInv

(* Nor after one, whether it succeeded or failed.                           *)
LEMMA EndKeeps ==
    ASSUME IInv, End, DirectWritesSurvive', durable' \subseteq Offsets,
           phase = "run"
    PROVE  IInv'
<1>1. /\ phase' = "idle" /\ req' = NoRequest /\ cnt' = 0 /\ buf' = NoBytes
      /\ eof' = FALSE /\ seen' = {} /\ spoiled' = {} /\ changes' = 0
      /\ crashes' = 0 /\ UNCHANGED <<sizeVars, srv, disk>>
  BY DEF End
<1>2. NoBytes \in Data
  BY TransferAssumption DEF NoBytes, Data
<1>3. /\ NoRequest \in Request /\ NoRequest.off = 0 /\ NoRequest.size = 0
      /\ NoRequest.op = "none"
  BY SMTT(60), <1>2 DEF NoRequest, Request
<1>4. /\ 0 \in 0 .. MaxOthers /\ 0 \in 0 .. MaxCrashes /\ 0 \in 0 .. 0
      /\ 0 + 0 <= MaxLen
  BY SMTT(60), TransferAssumption DEF Positive
<1>5. TypeOK'
  BY <1>1, <1>2, <1>3, <1>4 DEF IInv, TypeOK, sizeVars
<1>6. Shape' /\ SizesUsable' /\ ReadInv' /\ WriteInv'
  BY <1>1, <1>3 DEF IInv, Shape, SizesUsable, ReadInv, WriteInv, sizeVars
<1> QED
  BY <1>5, <1>6 DEF IInv

LEMMA FsinfoKeeps == ASSUME IInv, hsi_nfs3_fsinfo PROVE IInv'
<1>1. PICK fsinfo \in Announced :
         /\ rsize' = hsi_fsinfo_to_super(rsize, fsinfo.rtpref, fsinfo.rtmax)
         /\ wsize' = hsi_fsinfo_to_super(wsize, fsinfo.wtpref, fsinfo.wtmax)
  BY DEF hsi_nfs3_fsinfo
<1>2. /\ fsinfo.rtpref \in Nat /\ fsinfo.rtmax \in Nat
      /\ fsinfo.wtpref \in Nat /\ fsinfo.wtmax \in Nat
  BY IoAssumption
<1>3. rsize' \in 1 .. MaxIo /\ wsize' \in 1 .. MaxIo
  BY <1>1, <1>2, SizeFromServer, IoAssumption DEF IInv, TypeOK
<1>4. rsize' \in Nat /\ wsize' \in Nat
  BY SMTT(60), <1>3, IoAssumption DEF Positive
<1>5. /\ phase = "mounting" /\ phase' = "idle"
      /\ UNCHANGED <<req, cnt, buf, eof, srv, disk, seen, spoiled, durable,
                     changes, crashes>>
  BY DEF hsi_nfs3_fsinfo, callVars
<1>6. TypeOK'
  BY <1>4, <1>5 DEF IInv, TypeOK
<1>7. Shape' /\ SizesUsable'
  BY <1>3, <1>5 DEF IInv, Shape, SizesUsable
<1>8. ReadInv'
  BY <1>5 DEF IInv, ReadInv, Shown
<1>9. WriteInv' /\ DirectWritesSurvive'
  BY <1>5 DEF IInv, WriteInv, Holds, DirectWritesSurvive
<1> QED
  BY <1>6, <1>7, <1>8, <1>9 DEF IInv

(* The next n bytes lie within the request.                                 *)
LEMMA Within ==
    ASSUME TypeOK, NEW iosize \in Nat, NEW n \in 0 .. MaxLen,
           n <= tmp_size(iosize), cnt < req.size
    PROVE  /\ cnt \in Nat /\ req.off \in Nat /\ req.size \in Nat
           /\ MaxLen \in Nat /\ n \in Nat
           /\ cnt + n \in 0 .. req.size
           /\ req.off + req.size <= MaxLen
<1>1. /\ cnt \in 0 .. req.size /\ req.off \in Nat /\ req.size \in Nat
      /\ req.off + req.size <= MaxLen /\ MaxLen \in Nat
  BY TransferAssumption DEF TypeOK, Request, Positive
<1> QED
  BY SMTT(60), <1>1 DEF tmp_size, smaller

LEMMA ReadKeeps ==
    ASSUME IInv, NEW n \in 0 .. MaxLen, hsi_nfs3_read(n)
    PROVE  IInv'
<1>1. /\ phase = "run" /\ req.op = "read" /\ cnt < req.size /\ ~eof
      /\ n <= tmp_size(rsize) /\ (n = 0 \/ rw_off + n <= srv.len)
      /\ buf' = Filled(n) /\ cnt' = cnt + n
      /\ eof' = (rw_off + n >= srv.len)
      /\ UNCHANGED <<phase, rsize, wsize, req, srv, disk, seen, spoiled,
                     durable, changes, crashes>>
  BY DEF hsi_nfs3_read, Reads, Loops, sizeVars
<1>2. /\ cnt \in Nat /\ req.off \in Nat /\ req.size \in Nat
      /\ MaxLen \in Nat /\ n \in Nat
      /\ cnt + n \in 0 .. req.size /\ req.off + req.size <= MaxLen
  BY <1>1, Within DEF IInv, TypeOK
<1>3. srv.len \in Nat /\ srv.at \in Data
  BY SMTT(60) DEF IInv, TypeOK, File
<1>4. \A o \in Offsets : cnt <= o /\ o < cnt + n => rw_off + (o - cnt) \in Offsets
  BY SMTT(60), <1>2 DEF Offsets, rw_off
<1>5. buf' \in Data
  BY <1>1, <1>3, <1>4 DEF Filled, Data, IInv, TypeOK
<1>5a. eof' \in BOOLEAN
  BY SMTT(60) DEF hsi_nfs3_read, Reads
<1>6. TypeOK'
  BY <1>1, <1>2, <1>5, <1>5a DEF IInv, TypeOK
<1>7. Shape' /\ SizesUsable' /\ WriteInv' /\ DirectWritesSurvive'
  BY <1>1 DEF IInv, Shape, SizesUsable, WriteInv, DirectWritesSurvive
<1>8. srv \in seen /\ srv' \in seen'
  BY <1>1 DEF IInv, ReadInv
<1>9. ASSUME NEW k \in Offsets, k < cnt' PROVE \E f \in seen' : Shown(f, k)'
  <2>1. k \in Nat
    BY SMTT(60) DEF Offsets
  <2>2. CASE k < cnt
    <3>1. PICK f \in seen : Shown(f, k)
      BY <1>1, <2>2 DEF IInv, ReadInv
    <3>2. ~ (cnt <= k)
      BY SMTT(60), <2>1, <2>2, <1>2
    <3>3. buf'[k] = buf[k]
      BY <1>1, <3>2 DEF Filled
    <3> QED
      BY <1>1, <3>1, <3>3 DEF Shown
  <2>3. CASE ~ (k < cnt)
    <3>1. cnt <= k /\ k < cnt + n /\ n # 0
      BY SMTT(60), <2>1, <2>3, <1>1, <1>2, <1>9
    <3>2. rw_off + (k - cnt) = req.off + k
      BY SMTT(60), <1>2, <2>1 DEF rw_off
    <3>3. buf'[k] = srv.at[req.off + k]
      BY <1>1, <3>1, <3>2 DEF Filled
    <3>4. req.off + k < srv.len
      BY SMTT(60), <1>1, <1>2, <1>3, <2>1, <3>1 DEF rw_off
    <3>5. Shown(srv, k)'
      BY <1>1, <3>3, <3>4 DEF Shown
    <3> QED
      BY <1>8, <1>1, <3>5
  <2> QED
    BY <2>2, <2>3
<1>10. eof' => srv'.len <= req'.off + cnt'
  <2>1. eof' => rw_off + n >= srv.len
    BY <1>1
  <2>2. rw_off + n >= srv.len => srv.len <= req.off + (cnt + n)
    BY SMTT(60), <1>2, <1>3 DEF rw_off
  <2> QED
    BY <1>1, <2>1, <2>2
<1>11. ReadInv'
  BY <1>8, <1>9, <1>10 DEF ReadInv
<1> QED
  BY <1>6, <1>7, <1>11 DEF IInv

(* What a WRITE of the next n bytes does to a file: they are in their place *)
(* and nothing else has changed.                                            *)
LEMMA StoredFacts ==
    ASSUME TypeOK, NEW f \in File, NEW n \in 0 .. MaxLen,
           n <= tmp_size(wsize), cnt < req.size
    PROVE  /\ Stored(f, n) \in File
           /\ \A o \in Offsets :
                /\ o < f.len => o < Stored(f, n).len
                /\ rw_off <= o /\ o < rw_off + n =>
                     /\ o < Stored(f, n).len
                     /\ Stored(f, n).at[o] = req.data[o - req.off]
                /\ ~ (rw_off <= o /\ o < rw_off + n) =>
                     Stored(f, n).at[o] = f.at[o]
<1>1. /\ cnt \in Nat /\ req.off \in Nat /\ req.size \in Nat
      /\ MaxLen \in Nat /\ n \in Nat
      /\ cnt + n \in 0 .. req.size /\ req.off + req.size <= MaxLen
  BY Within DEF TypeOK
<1>2. /\ f.len \in 0 .. MaxLen /\ f.at \in [Offsets -> Bytes]
      /\ req.data \in [Offsets -> Bytes] /\ f = [len |-> f.len, at |-> f.at]
  BY SMTT(60) DEF TypeOK, File, Request, Data
<1>3. \A o \in Offsets : o \in Nat /\ o < MaxLen
  BY SMTT(60), <1>1 DEF Offsets
<1>4. CASE n = 0
  <2>1. Stored(f, n) = f
    BY <1>4 DEF Stored
  <2>2. \A o \in Offsets : ~ (rw_off <= o /\ o < rw_off + n)
    BY SMTT(60), <1>1, <1>3, <1>4 DEF rw_off
  <2> QED
    BY <2>1, <2>2
<1>5. CASE n # 0
  <2> DEFINE len == IF rw_off + n > f.len THEN rw_off + n ELSE f.len
             at == [o \in Offsets |->
                      IF rw_off <= o /\ o < rw_off + n
                      THEN req.data[cnt + (o - rw_off)] ELSE f.at[o]]
  <2>1. Stored(f, n) = [len |-> len, at |-> at]
    BY <1>5 DEF Stored
  <2>2. len \in 0 .. MaxLen
    BY SMTT(60), <1>1, <1>2 DEF rw_off
  <2>3. \A o \in Offsets : rw_off <= o /\ o < rw_off + n =>
           cnt + (o - rw_off) = o - req.off /\ o - req.off \in Offsets
    BY SMTT(60), <1>1, <1>3 DEF rw_off, Offsets
  <2>4. at \in Data
    BY <1>2, <2>3 DEF Data
  <2>5. \A o \in Offsets :
           /\ o < f.len => o < len
           /\ rw_off <= o /\ o < rw_off + n => o < len
    BY SMTT(60), <1>1, <1>2, <1>3 DEF rw_off
  <2>6. \A o \in Offsets :
           at[o] = IF rw_off <= o /\ o < rw_off + n
                   THEN req.data[o - req.off] ELSE f.at[o]
    BY <2>3
  <2> HIDE DEF len, at
  <2>7. /\ Stored(f, n) \in File
        /\ Stored(f, n).len = len /\ Stored(f, n).at = at
    BY SMTT(60), <2>1, <2>2, <2>4 DEF File
  <2> QED
    BY <2>5, <2>6, <2>7
<1> QED
  BY <1>4, <1>5

(* A WRITE, answered or not, keeps the acknowledged bytes and the promised  *)
(* ones; an answered one adds its own.                                      *)
LEMMA WriteKeeps ==
    ASSUME IInv, NEW n \in 0 .. MaxLen, Executes(n),
           cnt' = cnt + n \/ cnt' = cnt
    PROVE  IInv'
<1>1. /\ phase = "run" /\ req.op = "write" /\ cnt < req.size /\ ~eof
      /\ n <= tmp_size(wsize)
      /\ srv' = Stored(srv, n)
      /\ durable' = durable \ (rw_off .. rw_off + n - 1)
      /\ UNCHANGED <<phase, rsize, wsize, req, buf, eof, seen, spoiled,
                     changes, crashes>>
  BY DEF Executes, Loops, sizeVars
<1>2. disk' = IF req.direct THEN Stored(disk, n) ELSE disk
  BY DEF Executes, stable
<1>3. /\ cnt \in Nat /\ req.off \in Nat /\ req.size \in Nat
      /\ MaxLen \in Nat /\ n \in Nat
      /\ cnt + n \in 0 .. req.size /\ req.off + req.size <= MaxLen
  BY <1>1, Within DEF IInv, TypeOK
<1>4. TypeOK'
  <2>1. srv' \in File /\ disk' \in File
    BY <1>1, <1>2, StoredFacts DEF IInv, TypeOK
  <2>2. durable' \subseteq Offsets
    BY <1>1 DEF IInv, TypeOK
  <2>3. cnt' \in 0 .. req.size
    BY <1>3 DEF IInv, TypeOK
  <2> QED
    BY <1>1, <2>1, <2>2, <2>3 DEF IInv, TypeOK
<1>5. Shape' /\ SizesUsable' /\ ReadInv'
  BY <1>1 DEF IInv, Shape, SizesUsable, ReadInv
<1>6. ASSUME NEW k \in Offsets, k < cnt', req.off + k \notin spoiled,
             NEW f \in File, k < cnt => Holds(f, k)
      PROVE  req.off + k < Stored(f, n).len
             /\ Stored(f, n).at[req.off + k] = req.data[k]
  <2>1. /\ k \in Nat /\ req.off + k \in Offsets
        /\ (req.off + k) - req.off = k
    BY SMTT(60), <1>3, <1>6 DEF Offsets
  <2>2. CASE k < cnt
    <3>1. ~ (rw_off <= req.off + k /\ req.off + k < rw_off + n)
      BY SMTT(60), <1>3, <2>1, <2>2 DEF rw_off
    <3> QED
      BY <1>1, <1>6, <2>1, <2>2, <3>1, StoredFacts DEF IInv, Holds
  <2>3. CASE ~ (k < cnt)
    <3>1. rw_off <= req.off + k /\ req.off + k < rw_off + n
      BY SMTT(60), <1>3, <1>6, <2>1, <2>3 DEF rw_off
    <3>2. \A o \in Offsets : rw_off <= o /\ o < rw_off + n =>
             /\ o < Stored(f, n).len
             /\ Stored(f, n).at[o] = req.data[o - req.off]
      BY <1>1, StoredFacts DEF IInv
    <3>3. /\ req.off + k < Stored(f, n).len
          /\ Stored(f, n).at[req.off + k] = req.data[(req.off + k) - req.off]
      BY <2>1, <3>1, <3>2
    <3> QED
      BY <2>1, <3>3
  <2> QED
    BY <2>2, <2>3
<1>7. WriteInv'
  <2> SUFFICES ASSUME NEW k \in Offsets, k < cnt', req.off + k \notin spoiled
               PROVE  Holds(srv, k)' /\ (req.direct => Holds(disk, k)')
    BY <1>1 DEF WriteInv
  <2>1. k < cnt => Holds(srv, k) /\ (req.direct => Holds(disk, k))
    BY <1>1 DEF IInv, WriteInv
  <2>2. srv \in File /\ disk \in File
    BY DEF IInv, TypeOK
  <2>3. Holds(srv, k)'
    BY <1>1, <1>6, <2>1, <2>2 DEF Holds
  <2>4. req.direct => Holds(disk, k)'
    BY <1>1, <1>2, <1>6, <2>1, <2>2 DEF Holds
  <2> QED
    BY <2>3, <2>4
<1>8. DirectWritesSurvive'
  <2> SUFFICES ASSUME NEW o \in durable'
               PROVE  /\ o < disk'.len /\ o < srv'.len
                      /\ disk'.at[o] = srv'.at[o]
    BY DEF DirectWritesSurvive
  <2>1. /\ o \in durable /\ o \in Offsets /\ o < disk.len /\ o < srv.len
        /\ disk.at[o] = srv.at[o] /\ srv \in File /\ disk \in File
    BY <1>1 DEF IInv, TypeOK, DirectWritesSurvive
  <2>2. o \notin rw_off .. rw_off + n - 1
    BY <1>1
  <2>3. ~ (rw_off <= o /\ o < rw_off + n)
    BY SMTT(60), <1>3, <2>1, <2>2 DEF rw_off, Offsets
  <2> QED
    BY <1>1, <1>2, <2>1, <2>3, StoredFacts DEF IInv
<1> QED
  BY <1>4, <1>5, <1>7, <1>8 DEF IInv

(* The server shows another file: what differs at an acknowledged offset is *)
(* noted as spoiled, so nothing is claimed of it.                           *)
LEMMA ShownKeeps ==
    ASSUME IInv, NEW f \in File, Shows(f), disk' \in File,
           durable' \subseteq Offsets, DirectWritesSurvive',
           changes' \in 0 .. MaxOthers, crashes' \in 0 .. MaxCrashes,
           req.op = "write" /\ req.direct =>
             \A o \in Offsets \ Differ(srv, f) :
                o < disk.len /\ o < srv.len /\ disk.at[o] = srv.at[o] =>
                  o < disk'.len /\ disk'.at[o] = disk.at[o]
    PROVE  IInv'
<1>1. /\ srv' = f
      /\ seen' = IF req.op = "read" THEN seen \cup {f} ELSE seen
      /\ spoiled' = IF req.op = "write"
                    THEN spoiled \cup (Written \cap Differ(srv, f))
                    ELSE spoiled
      /\ UNCHANGED <<phase, rsize, wsize, req, cnt, buf, eof>>
  BY DEF Shows, sizeVars, callVars
<1>2. TypeOK'
  BY <1>1 DEF IInv, TypeOK, Differ
<1>3. Shape' /\ SizesUsable'
  BY <1>1 DEF IInv, Shape, SizesUsable
<1>4. ReadInv'
  BY <1>1 DEF IInv, ReadInv, Shown
<1>5. WriteInv'
  <2> SUFFICES ASSUME req.op = "write", NEW k \in Offsets, k < cnt,
                      req.off + k \notin spoiled'
               PROVE  Holds(srv, k)' /\ (req.direct => Holds(disk, k)')
    BY <1>1 DEF WriteInv
  <2> DEFINE o == req.off + k
  <2>1. /\ req.off \in Nat /\ req.size \in Nat /\ cnt \in 0 .. req.size
        /\ req.off + req.size <= MaxLen /\ MaxLen \in Nat
    BY TransferAssumption DEF IInv, TypeOK, Request, Positive
  <2>2. o \in Written /\ o \in Offsets
    BY SMTT(60), <2>1 DEF Written, Offsets
  <2>3. o \notin Differ(srv, f) /\ o \notin spoiled
    BY <1>1, <2>2
  <2>4. srv.at[o] = f.at[o] /\ ((o < srv.len) <=> (o < f.len))
    BY <2>2, <2>3 DEF Differ
  <2>5. Holds(srv, k) /\ (req.direct => Holds(disk, k))
    BY <2>3 DEF IInv, WriteInv
  <2>6. Holds(srv, k)'
    BY <1>1, <2>4, <2>5 DEF Holds
  <2>7. ASSUME req.direct PROVE Holds(disk, k)'
    <3>1. o < disk.len /\ o < srv.len /\ disk.at[o] = srv.at[o]
      BY <2>5, <2>7 DEF Holds
    <3>2. o < disk'.len /\ disk'.at[o] = disk.at[o]
      BY <2>2, <2>3, <2>7, <3>1
    <3> QED
      BY <1>1, <2>5, <2>7, <3>2 DEF Holds
  <2> QED
    BY <2>6, <2>7
<1> QED
  BY <1>2, <1>3, <1>4, <1>5 DEF IInv

(* The bounds on what others do are kept.                                   *)
LEMMA CountsKeep ==
    ASSUME IInv
    PROVE  /\ \A f : Changed(f) =>
                changes' \in 0 .. MaxOthers /\ crashes' \in 0 .. MaxCrashes
           /\ server_restart =>
                changes' \in 0 .. MaxOthers /\ crashes' \in 0 .. MaxCrashes
<1>1. /\ changes \in 0 .. MaxOthers /\ crashes \in 0 .. MaxCrashes
      /\ MaxOthers \in Nat /\ MaxCrashes \in Nat
  BY TransferAssumption DEF IInv, TypeOK
<1>2. /\ changes < MaxOthers => changes + 1 \in 0 .. MaxOthers
      /\ crashes < MaxCrashes => crashes + 1 \in 0 .. MaxCrashes
  BY SMTT(60), <1>1
<1> QED
  BY <1>1, <1>2 DEF Changed, server_restart

(* What the write of a byte, and a truncation, do to a file.                *)
LEMMA PutFacts ==
    ASSUME NEW f \in File, NEW o \in Offsets, NEW v \in Bytes
    PROVE  /\ Put(f, o, v) \in File
           /\ \A x \in Offsets :
                /\ x < f.len => x < Put(f, o, v).len
                /\ x = o => Put(f, o, v).at[x] = v
                /\ x # o => Put(f, o, v).at[x] = f.at[x]
<1> DEFINE len == IF o < f.len THEN f.len ELSE o + 1
           at == [x \in Offsets |-> IF x = o THEN v ELSE f.at[x]]
<1>1. f.len \in 0 .. MaxLen /\ f.at \in [Offsets -> Bytes]
  BY SMTT(60) DEF File, Data
<1>2. MaxLen \in Nat /\ o \in 0 .. MaxLen - 1
  BY TransferAssumption DEF Positive, Offsets
<1>3. len \in 0 .. MaxLen
  BY SMTT(60), <1>1, <1>2
<1>4. \A x \in Offsets : x < f.len => x < len
  BY SMTT(60), <1>1, <1>2 DEF Offsets
<1>5. /\ at \in Data
      /\ \A x \in Offsets : (x = o => at[x] = v) /\ (x # o => at[x] = f.at[x])
  BY <1>1 DEF Data
<1>6. Put(f, o, v) = [len |-> len, at |-> at]
  BY DEF Put
<1> HIDE DEF len, at
<1>7. /\ Put(f, o, v) \in File
      /\ Put(f, o, v).len = len /\ Put(f, o, v).at = at
  BY SMTT(60), <1>3, <1>5, <1>6 DEF File
<1> QED
  BY <1>4, <1>5, <1>7

LEMMA CutFacts ==
    ASSUME NEW f \in File, NEW n \in 0 .. MaxLen
    PROVE  /\ Cut(f, n) \in File
           /\ \A x \in Offsets :
                /\ x < f.len /\ x < n => x < Cut(f, n).len
                /\ x < Cut(f, n).len => x < n
                /\ x < n => Cut(f, n).at[x] = f.at[x]
<1> DEFINE len == IF n < f.len THEN n ELSE f.len
           at == [x \in Offsets |-> IF x < n THEN f.at[x] ELSE Zero]
<1>1. f.len \in 0 .. MaxLen /\ f.at \in [Offsets -> Bytes]
  BY SMTT(60) DEF File, Data
<1>2. MaxLen \in Nat
  BY TransferAssumption DEF Positive
<1>3. len \in 0 .. MaxLen
  BY <1>1
<1>4. \A x \in Offsets : (x < f.len /\ x < n => x < len) /\ (x < len => x < n)
  BY SMTT(60), <1>1, <1>2 DEF Offsets
<1>5. at \in Data /\ \A x \in Offsets : x < n => at[x] = f.at[x]
  BY <1>1, TransferAssumption DEF Data
<1>6. Cut(f, n) = [len |-> len, at |-> at]
  BY DEF Cut
<1> HIDE DEF len, at
<1>7. /\ Cut(f, n) \in File
      /\ Cut(f, n).len = len /\ Cut(f, n).at = at
  BY SMTT(60), <1>3, <1>5, <1>6 DEF File
<1> QED
  BY <1>4, <1>5, <1>7

LEMMA OtherWriteKeeps ==
    ASSUME IInv, NEW o \in Offsets, NEW v \in Bytes, server_write(o, v)
    PROVE  IInv'
<1>1. /\ Changed(Put(srv, o, v))
      /\ disk' = Put(disk, o, v) \/ disk' = disk
  BY DEF server_write
<1>2. srv \in File /\ disk \in File
  BY DEF IInv, TypeOK
<1>3. /\ Put(srv, o, v) \in File
      /\ \A x \in Offsets :
           /\ x < srv.len => x < Put(srv, o, v).len
           /\ x = o => Put(srv, o, v).at[x] = v
  BY SMTT(60), <1>2, PutFacts
<1>4. /\ Put(disk, o, v) \in File
      /\ \A x \in Offsets :
           /\ x < disk.len => x < Put(disk, o, v).len
           /\ x = o => Put(disk, o, v).at[x] = v
           /\ x # o => Put(disk, o, v).at[x] = disk.at[x]
  BY <1>2, PutFacts
<1>6. Put(srv, o, v) \in File /\ disk' \in File
  BY <1>1, <1>2, <1>3, <1>4
<1>7. srv' = Put(srv, o, v) /\ durable' = durable \ Differ(srv, Put(srv, o, v))
  BY <1>1 DEF Changed, Shows
<1>8. \A x \in Offsets \ Differ(srv, Put(srv, o, v)) :
         x < disk.len /\ disk.at[x] = srv.at[x] =>
           x < disk'.len /\ disk'.at[x] = disk.at[x]
  <2> SUFFICES ASSUME NEW x \in Offsets, x \notin Differ(srv, Put(srv, o, v)),
                      x < disk.len, disk.at[x] = srv.at[x],
                      disk' = Put(disk, o, v)
               PROVE  x < disk'.len /\ disk'.at[x] = disk.at[x]
    BY <1>1
  <2>1. srv.at[x] = Put(srv, o, v).at[x]
    BY DEF Differ
  <2>2. /\ x < Put(disk, o, v).len
        /\ x = o => Put(disk, o, v).at[x] = v
        /\ x # o => Put(disk, o, v).at[x] = disk.at[x]
    BY <1>4
  <2>3. x = o => Put(srv, o, v).at[x] = v
    BY <1>3
  <2> QED
    BY <2>1, <2>2, <2>3
<1>9. DirectWritesSurvive'
  <2> SUFFICES ASSUME NEW x \in durable'
               PROVE  /\ x < disk'.len /\ x < srv'.len
                      /\ disk'.at[x] = srv'.at[x]
    BY DEF DirectWritesSurvive
  <2>1. /\ x \in Offsets /\ x \notin Differ(srv, Put(srv, o, v))
        /\ x < disk.len /\ x < srv.len /\ disk.at[x] = srv.at[x]
    BY <1>7 DEF IInv, TypeOK, DirectWritesSurvive
  <2>2. Put(srv, o, v).at[x] = srv.at[x]
    BY <2>1 DEF Differ
  <2> QED
    BY <1>3, <1>7, <1>8, <2>1, <2>2
<1>10. durable' \subseteq Offsets
  BY <1>7 DEF IInv, TypeOK
<1>11. changes' \in 0 .. MaxOthers /\ crashes' \in 0 .. MaxCrashes
  BY <1>1, CountsKeep
<1>12. Shows(Put(srv, o, v))
  BY <1>1 DEF Changed
<1> QED
  BY <1>6, <1>8, <1>9, <1>10, <1>11, <1>12, ShownKeeps

LEMMA TruncateKeeps ==
    ASSUME IInv, NEW n \in 0 .. MaxLen, server_truncate(n)
    PROVE  IInv'
<1>1. Changed(Cut(srv, n)) /\ disk' = Cut(disk, n)
  BY DEF server_truncate
<1>5. srv \in File /\ disk \in File /\ Cut(srv, n) \in File /\ disk' \in File
  BY <1>1, CutFacts DEF IInv, TypeOK
<1>6. srv' = Cut(srv, n) /\ durable' = durable \ Differ(srv, Cut(srv, n))
  BY <1>1 DEF Changed, Shows
<1>7. ASSUME NEW x \in Offsets, x \notin Differ(srv, Cut(srv, n)),
             x < disk.len, x < srv.len
      PROVE  x < n /\ x < disk'.len /\ x < srv'.len
  <2>1. x < Cut(srv, n).len
    BY <1>7 DEF Differ
  <2> QED
    BY <1>1, <1>5, <1>6, <1>7, <2>1, CutFacts
<1>8. \A x \in Offsets \ Differ(srv, Cut(srv, n)) :
         x < disk.len /\ x < srv.len =>
           x < disk'.len /\ disk'.at[x] = disk.at[x]
  BY <1>1, <1>5, <1>7, CutFacts
<1>9. DirectWritesSurvive'
  <2> SUFFICES ASSUME NEW x \in durable'
               PROVE  /\ x < disk'.len /\ x < srv'.len
                      /\ disk'.at[x] = srv'.at[x]
    BY DEF DirectWritesSurvive
  <2>1. /\ x \in Offsets /\ x \notin Differ(srv, Cut(srv, n))
        /\ x < disk.len /\ x < srv.len /\ disk.at[x] = srv.at[x]
    BY <1>6 DEF IInv, TypeOK, DirectWritesSurvive
  <2> QED
    BY <1>1, <1>5, <1>6, <1>7, <2>1, CutFacts
<1>10. durable' \subseteq Offsets
  BY <1>6 DEF IInv, TypeOK
<1>11. changes' \in 0 .. MaxOthers /\ crashes' \in 0 .. MaxCrashes
  BY <1>1, CountsKeep
<1>12. Shows(Cut(srv, n))
  BY <1>1 DEF Changed
<1> QED
  BY <1>5, <1>8, <1>9, <1>10, <1>11, <1>12, ShownKeeps

LEMMA FlushKeeps == ASSUME IInv, server_flush PROVE IInv'
<1>1. /\ disk' = srv
      /\ UNCHANGED <<phase, rsize, wsize, req, cnt, buf, eof, srv, seen,
                     spoiled, durable, changes, crashes>>
  BY DEF server_flush, sizeVars, callVars
<1>2. TypeOK' /\ Shape' /\ SizesUsable'
  BY <1>1 DEF IInv, TypeOK, Shape, SizesUsable
<1>3. ReadInv'
  BY <1>1 DEF IInv, ReadInv, Shown
<1>4. WriteInv' /\ DirectWritesSurvive'
  BY <1>1 DEF IInv, WriteInv, Holds, DirectWritesSurvive
<1> QED
  BY <1>2, <1>3, <1>4 DEF IInv

LEMMA RestartKeeps == ASSUME IInv, server_restart PROVE IInv'
<1>1. Shows(disk) /\ disk' = disk /\ durable' = durable
  BY DEF server_restart
<1>2. srv' = disk
  BY <1>1 DEF Shows
<1>3. DirectWritesSurvive'
  BY <1>1, <1>2 DEF IInv, DirectWritesSurvive
<1>4. disk \in File /\ durable' \subseteq Offsets
  BY <1>1 DEF IInv, TypeOK
<1>5. changes' \in 0 .. MaxOthers /\ crashes' \in 0 .. MaxCrashes
  BY CountsKeep
<1> QED
  BY <1>1, <1>3, <1>4, <1>5, ShownKeeps

LEMMA KernelKeeps == ASSUME IInv, KernelStep PROVE IInv'
<1>0. PICK off \in Offsets : \E size \in 1 .. MaxLen - off :
         \/ hsx_fuse_read(off, size)
         \/ \E d \in Buffers(size), direct \in BOOLEAN :
               hsx_fuse_write(off, size, d, direct)
  BY DEF KernelStep
<1>1. PICK size \in 1 .. MaxLen - off :
         \/ hsx_fuse_read(off, size)
         \/ \E d \in Buffers(size), direct \in BOOLEAN :
               hsx_fuse_write(off, size, d, direct)
  BY <1>0
<1>2. off \in Nat /\ size \in Nat /\ off + size <= MaxLen
  BY SMTT(60), <1>1, TransferAssumption DEF Offsets, Positive
<1>3. NoBytes \in Data
  BY TransferAssumption DEF NoBytes, Data
<1>4. CASE hsx_fuse_read(off, size)
  <2> DEFINE r == [op |-> "read", off |-> off, size |-> size,
                   data |-> NoBytes, direct |-> FALSE]
  <2>1. /\ r \in Request /\ r.off = off /\ r.size = size /\ r.op = "read"
    BY SMTT(60), <1>2, <1>3 DEF Request
  <2>2. Begin(r)
    BY <1>4 DEF hsx_fuse_read
  <2> HIDE DEF r
  <2> QED
    BY <1>2, <2>1, <2>2, StartKeeps
<1>5. ASSUME NEW d \in Buffers(size), NEW direct \in BOOLEAN,
             hsx_fuse_write(off, size, d, direct)
      PROVE  IInv'
  <2> DEFINE r == [op |-> "write", off |-> off, size |-> size, data |-> d,
                   direct |-> direct]
  <2>1. d \in Data
    BY DEF Buffers
  <2>2. /\ r \in Request /\ r.off = off /\ r.size = size /\ r.op = "write"
    BY SMTT(60), <1>2, <2>1 DEF Request
  <2>3. Begin(r)
    BY <1>5 DEF hsx_fuse_write
  <2> HIDE DEF r
  <2> QED
    BY <1>2, <2>2, <2>3, StartKeeps
<1> QED
  BY <1>1, <1>4, <1>5

(* The reply to a write with direct_io promises what was acknowledged and   *)
(* not spoiled, which is on the disk.                                       *)
LEMMA ReplyKeeps == ASSUME IInv, reply PROVE IInv'
<1>1. /\ Done /\ phase = "run" /\ End
      /\ durable' = IF req.op = "write" /\ req.direct
                    THEN durable \cup (Written \ spoiled) ELSE durable
      /\ srv' = srv /\ disk' = disk
  BY DEF reply, Done, End
<1>2. /\ req.off \in Nat /\ req.size \in Nat /\ cnt \in 0 .. req.size
      /\ req.off + req.size <= MaxLen /\ MaxLen \in Nat
  BY TransferAssumption DEF IInv, TypeOK, Request, Positive
<1>3. ASSUME NEW o \in Written
      PROVE  /\ o \in Offsets /\ o - req.off \in Offsets /\ o - req.off < cnt
             /\ req.off + (o - req.off) = o
  BY SMTT(60), <1>2 DEF Written, Offsets
<1>4. durable' \subseteq Offsets
  BY <1>1, <1>3 DEF IInv, TypeOK
<1>5. ASSUME NEW o \in Written \ spoiled, req.op = "write", req.direct
      PROVE  o < disk.len /\ o < srv.len /\ disk.at[o] = srv.at[o]
  <2> DEFINE k == o - req.off
  <2>1. k \in Offsets /\ k < cnt /\ req.off + k = o
    BY <1>3
  <2> HIDE DEF k
  <2>2. Holds(srv, k) /\ Holds(disk, k)
    BY <1>5, <2>1 DEF IInv, WriteInv
  <2> QED
    BY <2>1, <2>2 DEF Holds
<1>6. DirectWritesSurvive'
  BY <1>1, <1>5 DEF IInv, DirectWritesSurvive
<1> QED
  BY <1>1, <1>4, <1>6, EndKeeps

LEMMA ErrorKeeps == ASSUME IInv, reply_error PROVE IInv'
<1>1. phase = "run" /\ End /\ durable' = durable /\ srv' = srv /\ disk' = disk
  BY DEF reply_error, End, Loops
<1>2. DirectWritesSurvive' /\ durable' \subseteq Offsets
  BY <1>1 DEF IInv, TypeOK, DirectWritesSurvive
<1> QED
  BY <1>1, <1>2, EndKeeps

LEMMA StutterKeeps == ASSUME IInv, UNCHANGED vars PROVE IInv'
<1>1. UNCHANGED <<phase, rsize, wsize, req, cnt, buf, eof, srv, disk, seen,
                  spoiled, durable, changes, crashes>>
  BY DEF vars, sizeVars, callVars
<1>2. TypeOK' /\ Shape' /\ SizesUsable'
  BY <1>1 DEF IInv, TypeOK, Shape, SizesUsable
<1>3. ReadInv'
  BY <1>1 DEF IInv, ReadInv, Shown
<1>4. WriteInv' /\ DirectWritesSurvive'
  BY <1>1 DEF IInv, WriteInv, Holds, DirectWritesSurvive
<1> QED
  BY <1>2, <1>3, <1>4 DEF IInv

LEMMA StepKeeps == IInv /\ [Next]_vars => IInv'
<1> SUFFICES ASSUME IInv, [Next]_vars PROVE IInv'
  OBVIOUS
<1>1. ASSUME CallStep PROVE IInv'
  <2>1. PICK n \in 0 .. MaxLen :
           hsi_nfs3_read(n) \/ hsi_nfs3_write(n) \/ hsi_nfs3_write_unanswered(n)
    BY <1>1 DEF CallStep
  <2>2. CASE hsi_nfs3_read(n)
    BY <2>2, ReadKeeps
  <2>3. CASE hsi_nfs3_write(n)
    BY <2>3, WriteKeeps DEF hsi_nfs3_write
  <2>4. CASE hsi_nfs3_write_unanswered(n)
    BY <2>4, WriteKeeps DEF hsi_nfs3_write_unanswered
  <2> QED
    BY <2>1, <2>2, <2>3, <2>4
<1>2. ASSUME ServerStep PROVE IInv'
  BY <1>2, OtherWriteKeeps, TruncateKeeps, FlushKeeps, RestartKeeps
     DEF ServerStep
<1> QED
  BY <1>1, <1>2, FsinfoKeeps, KernelKeeps, ReplyKeeps, ErrorKeeps,
     StutterKeeps DEF Next

-----------------------------------------------------------------------------
(* The inductive invariant holds in every reachable state.                  *)
THEOREM TransferInvariance == Spec => []IInv
<1>1. Init => IInv
  BY InitInv
<1>2. IInv /\ [Next]_vars => IInv'
  BY StepKeeps
<1> QED
  BY <1>1, <1>2, PTL DEF Spec

(* hsx_fuse_read() and hsx_fuse_write() never transfer more than was asked  *)
(* for, so they stay within the buffers they were given or allocated.       *)
THEOREM TransferTypeCorrect == Spec => []TypeOK
<1>1. IInv => TypeOK
  BY DEF IInv
<1> QED
  BY <1>1, TransferInvariance, PTL

(* After hsi_fsinfo_to_super() both sizes lie between 1 and the limit.      *)
THEOREM UsableSizes == Spec => []SizesUsable
<1>1. IInv => SizesUsable
  BY DEF IInv
<1> QED
  BY <1>1, TransferInvariance, PTL

(* hsx_fuse_read() replies bytes that were in the file, and a short count   *)
(* only where the file ended.                                               *)
THEOREM TrueReads == Spec => []ReadReplyTrue
<1>1. IInv => ReadReplyTrue
  <2> SUFFICES ASSUME IInv, Done, req.op = "read"
               PROVE  /\ \A k \in Offsets : k < cnt => \E f \in seen : Shown(f, k)
                      /\ cnt < req.size =>
                           \E f \in seen : f.len <= req.off + cnt
    BY DEF ReadReplyTrue, Shown
  <2>1. cnt < req.size => ~ (cnt >= req.size)
    BY SMTT(60) DEF IInv, TypeOK, Request
  <2> QED
    BY <2>1 DEF IInv, ReadInv, Done
<1> QED
  BY <1>1, TransferInvariance, PTL

(* hsx_fuse_write() replies the whole size, and what it replied is stored   *)
(* but where it was overwritten or lost to a restart afterwards.            *)
THEOREM TrueWrites == Spec => []WriteReplyTrue
<1>1. IInv => WriteReplyTrue
  <2> SUFFICES ASSUME IInv, Done, req.op = "write"
               PROVE  /\ cnt = req.size
                      /\ \A k \in Offsets :
                           k < req.size /\ req.off + k \notin spoiled =>
                             /\ req.off + k < srv.len
                             /\ srv.at[req.off + k] = req.data[k]
    BY DEF WriteReplyTrue
  <2>1. cnt >= req.size
    BY DEF IInv, Shape, Done
  <2>2. req.size \in Nat /\ cnt \in 0 .. req.size
    BY DEF IInv, TypeOK, Request
  <2>3. cnt = req.size
    BY SMTT(60), <2>1, <2>2
  <2> QED
    BY <2>3 DEF IInv, WriteInv, Holds
<1> QED
  BY <1>1, TransferInvariance, PTL

(* A write with direct_io that was replied to survives every restart.       *)
THEOREM DirectWritesAreDurable == Spec => []DirectWritesSurvive
<1>1. IInv => DirectWritesSurvive
  BY DEF IInv
<1> QED
  BY <1>1, TransferInvariance, PTL

(* The calls of a write put each byte in its place and touch no other.      *)
THEOREM WritesStayInPlace == Spec => WritesInPlace
<1> DEFINE InPlace ==
      req.op = "write" /\ changes' = changes /\ crashes' = crashes =>
         \A o \in Offsets :
            \/ srv'.at[o] = srv.at[o]
            \/ /\ req.off <= o /\ o < req.off + req.size
               /\ srv'.at[o] = req.data[o - req.off]
<1>1. IInv /\ [Next]_vars => [InPlace]_vars
  <2> SUFFICES ASSUME IInv, Next, req.op = "write", changes' = changes,
                      crashes' = crashes, NEW o \in Offsets,
                      srv'.at[o] # srv.at[o]
               PROVE  /\ req.off <= o /\ o < req.off + req.size
                      /\ srv'.at[o] = req.data[o - req.off]
    OBVIOUS
  <2>1. phase = "run"
    BY DEF IInv, Shape
  <2>2. changes + 1 # changes /\ crashes + 1 # crashes
    BY SMTT(60) DEF IInv, TypeOK
  <2>3. ~ ServerStep
    BY <2>1, <2>2 DEF ServerStep, server_write, server_truncate, server_flush,
       server_restart, Changed
  <2>4. ~ KernelStep
    BY <2>1 DEF KernelStep, hsx_fuse_read, hsx_fuse_write, Begin
  <2>5. ~ hsi_nfs3_fsinfo /\ ~ reply /\ ~ reply_error
    BY <2>1 DEF hsi_nfs3_fsinfo, reply, reply_error, End
  <2>6. PICK n \in 0 .. MaxLen :
           hsi_nfs3_read(n) \/ hsi_nfs3_write(n) \/ hsi_nfs3_write_unanswered(n)
    BY <2>3, <2>4, <2>5 DEF Next, CallStep
  <2>7. /\ srv' = Stored(srv, n) /\ n <= tmp_size(wsize) /\ cnt < req.size
    BY <2>6 DEF hsi_nfs3_read, Reads, hsi_nfs3_write,
       hsi_nfs3_write_unanswered, Executes, Loops
  <2>8. srv \in File /\ TypeOK /\ wsize \in Nat
    BY DEF IInv, TypeOK
  <2>9. /\ rw_off <= o /\ o < rw_off + n
        /\ srv'.at[o] = req.data[o - req.off]
    BY <2>7, <2>8, StoredFacts
  <2>10. /\ cnt \in Nat /\ req.off \in Nat /\ req.size \in Nat /\ n \in Nat
         /\ cnt + n \in 0 .. req.size
    BY <2>7, <2>8, Within
  <2>11. o \in Int
    BY SMTT(60) DEF Offsets
  <2>12. req.off <= o /\ o < req.off + req.size
    BY SMTT(60), <2>9, <2>10, <2>11 DEF rw_off
  <2> QED
    BY <2>9, <2>12
<1> QED
  BY <1>1, TransferInvariance, PTL DEF Spec, WritesInPlace

-----------------------------------------------------------------------------
(* A read that nobody disturbs is exact: hsx_fuse_read() replies the bytes  *)
(* of the file at its offset, up to the size or the end of the file, in     *)
(* however many pieces the server gives them.                               *)
Undisturbed == changes = 0 /\ crashes = 0

QuietReadExact ==
    Done /\ req.op = "read" /\ Undisturbed =>
      /\ \A k \in Offsets : k < cnt => Shown(srv, k)
      /\ cnt < req.size => srv.len <= req.off + cnt

(* An undisturbed read has seen one file.                                   *)
AloneInv == req.op = "read" /\ Undisturbed => seen = {srv}

LEMMA NoRequestIsNoRead == NoRequest.op # "read"
BY SMTT(60) DEF NoRequest

LEMMA AloneStep ==
    ASSUME IInv, AloneInv, [Next]_vars
    PROVE  AloneInv'
<1>1. phase = "run" <=> req.op # "none"
  BY DEF IInv, Shape
<1>2. changes \in Nat /\ crashes \in Nat
  BY SMTT(60) DEF IInv, TypeOK
<1>3. changes + 1 # 0 /\ crashes + 1 # 0
  BY SMTT(60), <1>2
<1>4. CASE hsi_nfs3_fsinfo
  BY <1>4 DEF hsi_nfs3_fsinfo, callVars, AloneInv, Undisturbed
<1>5. CASE KernelStep
  BY <1>5 DEF KernelStep, hsx_fuse_read, hsx_fuse_write, Begin, AloneInv
<1>6. CASE CallStep
  <2>1. ASSUME NEW n \in 0 .. MaxLen, hsi_nfs3_read(n) PROVE AloneInv'
    BY <2>1 DEF hsi_nfs3_read, Reads, AloneInv, Undisturbed
  <2>2. ASSUME NEW n \in 0 .. MaxLen,
               hsi_nfs3_write(n) \/ hsi_nfs3_write_unanswered(n)
        PROVE  req'.op = "write"
    BY <2>2 DEF hsi_nfs3_write, hsi_nfs3_write_unanswered, Executes, Loops
  <2> QED
    BY <1>6, <2>1, <2>2 DEF CallStep, AloneInv
<1>7. CASE reply \/ reply_error
  BY <1>7, NoRequestIsNoRead DEF reply, reply_error, End, AloneInv
<1>8. CASE ServerStep
  <2>1. CASE server_flush
    BY <2>1 DEF server_flush, callVars, AloneInv, Undisturbed
  <2>2. CASE ServerStep /\ ~ server_flush /\ phase = "run"
    BY <1>3, <2>2 DEF ServerStep, server_write, server_truncate,
       server_restart, Changed, AloneInv, Undisturbed
  <2>3. CASE ServerStep /\ ~ server_flush /\ phase # "run"
    BY <1>1, <2>3 DEF ServerStep, server_write, server_truncate,
       server_restart, Changed, Shows, callVars, AloneInv
  <2> QED
    BY <1>8, <2>1, <2>2, <2>3
<1>9. CASE UNCHANGED vars
  BY <1>9 DEF vars, callVars, AloneInv, Undisturbed
<1> QED
  BY <1>4, <1>5, <1>6, <1>7, <1>8, <1>9 DEF Next

(* Without changes and restarts during the request, a read is exact.        *)
THEOREM QuietReads == Spec => []QuietReadExact
<1>1. Init => AloneInv
  BY NoRequestIsNoRead DEF Init, AloneInv
<1>2. IInv /\ AloneInv /\ [Next]_vars => AloneInv'
  BY AloneStep
<1>3. IInv /\ AloneInv => QuietReadExact
  <2> SUFFICES ASSUME IInv, Done, req.op = "read", seen = {srv}
               PROVE  /\ \A k \in Offsets : k < cnt => Shown(srv, k)
                      /\ cnt < req.size => srv.len <= req.off + cnt
    BY DEF QuietReadExact, AloneInv
  <2>1. cnt < req.size => ~ (cnt >= req.size)
    BY SMTT(60) DEF IInv, TypeOK, Request
  <2> QED
    BY <2>1 DEF IInv, ReadInv, Done
<1> QED
  BY <1>1, <1>2, <1>3, TransferInvariance, PTL DEF Spec

-----------------------------------------------------------------------------
(* The loops always ask the server for something: tmp_size of the next call *)
(* is never 0, and never more than the size agreed with the server.         *)
CallsAskForBytes ==
    /\ Loops("read") => tmp_size(rsize) \in 1 .. rsize
    /\ Loops("write") => tmp_size(wsize) \in 1 .. wsize

(* No call of hsx_fuse_read() or hsx_fuse_write() is for 0 bytes.           *)
THEOREM AskingForBytes == Spec => []CallsAskForBytes
<1>1. IInv => CallsAskForBytes
  <2> SUFFICES ASSUME IInv, phase = "run", cnt < req.size
               PROVE  /\ tmp_size(rsize) \in 1 .. rsize
                      /\ tmp_size(wsize) \in 1 .. wsize
    BY DEF CallsAskForBytes, Loops
  <2>1. /\ rsize \in 1 .. MaxIo /\ wsize \in 1 .. MaxIo
        /\ MaxIo \in Nat /\ req.size \in Nat /\ cnt \in 0 .. req.size
    BY IoAssumption DEF IInv, SizesUsable, TypeOK, Request, Positive
  <2> QED
    BY SMTT(60), <2>1 DEF tmp_size, smaller
<1> QED
  BY <1>1, TransferInvariance, PTL

(* What a request still has to transfer.                                    *)
BytesLeft == IF eof THEN 0 ELSE req.size - cnt

(* The bound behind TransferEnds: every answer that brings bytes or the end *)
(* of the file brings the request nearer to its end, and nothing, neither a *)
(* lost answer nor a restart nor another client, puts it back.              *)
TransfersAdvance ==
    [][ /\ Progress => BytesLeft' < BytesLeft
        /\ phase = "run" => BytesLeft' <= BytesLeft ]_vars

LEMMA CallsAdvance ==
    ASSUME IInv, NEW n \in 0 .. MaxLen,
           hsi_nfs3_read(n) \/ hsi_nfs3_write(n) \/ hsi_nfs3_write_unanswered(n)
    PROVE  /\ BytesLeft' <= BytesLeft
           /\ (hsi_nfs3_read(n) \/ hsi_nfs3_write(n)) /\ (n # 0 \/ eof') =>
                BytesLeft' < BytesLeft
<1>1. /\ cnt \in Nat /\ req.size \in Nat /\ n \in Nat /\ cnt < req.size
      /\ ~ eof /\ req' = req
      /\ \/ cnt' = cnt + n
         \/ /\ cnt' = cnt /\ hsi_nfs3_write_unanswered(n)
  <2>1. req.size \in Nat /\ cnt \in 0 .. req.size
    BY DEF IInv, TypeOK, Request
  <2>2. cnt \in Nat /\ n \in Nat
    BY SMTT(60), <2>1, TransferAssumption DEF Positive
  <2> QED
    BY <2>1, <2>2 DEF hsi_nfs3_read, Reads, hsi_nfs3_write,
       hsi_nfs3_write_unanswered, Executes, Loops
<1>2. hsi_nfs3_read(n) \/ hsi_nfs3_write(n) => cnt' = cnt + n
  BY DEF hsi_nfs3_read, Reads, hsi_nfs3_write
<1> QED
  BY SMTT(60), <1>1, <1>2 DEF BytesLeft

(* A request only ever comes nearer to its end.                             *)
THEOREM AdvancingTransfers == Spec => TransfersAdvance
<1> DEFINE Advance == /\ Progress => BytesLeft' < BytesLeft
                      /\ phase = "run" => BytesLeft' <= BytesLeft
<1>1. IInv /\ [Next]_vars => [Advance]_vars
  <2> SUFFICES ASSUME IInv, Next PROVE Advance
    OBVIOUS
  <2>1. req.size \in Nat /\ cnt \in 0 .. req.size /\ BytesLeft \in Nat
    <3>1. req.size \in Nat /\ cnt \in 0 .. req.size
      BY DEF IInv, TypeOK, Request
    <3> QED
      BY SMTT(60), <3>1 DEF BytesLeft
  <2>2. ASSUME Progress PROVE BytesLeft' < BytesLeft
    <3>1. PICK n \in 0 .. MaxLen :
             (hsi_nfs3_read(n) \/ hsi_nfs3_write(n)) /\ (n # 0 \/ eof')
      <4>1. 0 \in 0 .. MaxLen /\ \A m \in 1 .. MaxLen : m \in 0 .. MaxLen /\ m # 0
        BY SMTT(60), TransferAssumption DEF Positive
      <4> QED
        BY <2>2, <4>1 DEF Progress
    <3> QED
      BY <3>1, CallsAdvance
  <2>3. ASSUME phase = "run" PROVE BytesLeft' <= BytesLeft
    <3>1. CASE CallStep
      BY <3>1, CallsAdvance DEF CallStep
    <3>2. CASE reply \/ reply_error
      <4>1. BytesLeft' = 0
        BY SMTT(60), <3>2 DEF reply, reply_error, End, NoRequest, BytesLeft
      <4> QED
        BY SMTT(60), <2>1, <4>1
    <3>3. CASE ServerStep
      <4>1. UNCHANGED callVars
        BY <3>3 DEF ServerStep, server_write, server_truncate, server_flush,
           server_restart, Changed, Shows
      <4>2. BytesLeft' = BytesLeft
        BY <4>1 DEF callVars, BytesLeft
      <4> QED
        BY SMTT(60), <2>1, <4>2
    <3>4. ~ hsi_nfs3_fsinfo /\ ~ KernelStep
      BY <2>3 DEF hsi_nfs3_fsinfo, KernelStep, hsx_fuse_read, hsx_fuse_write,
         Begin
    <3> QED
      BY <3>1, <3>2, <3>3, <3>4 DEF Next
  <2> QED
    BY <2>2, <2>3
<1> QED
  BY <1>1, TransferInvariance, PTL DEF Spec, TransfersAdvance
=============================================================================
