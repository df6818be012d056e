----------------------------- MODULE InodeCache -----------------------------
(***************************************************************************)
(* The inode cache of the hsfs daemon: lib/hsfs_inode.c with the NFS        *)
(* front end hsi_nfs_fhget() of nfs_common/hsi_nfs_inode.c.                 *)
(*                                                                          *)
(* A cached inode is found in two hash tables of the superblock: id_table,  *)
(* by the number the kernel knows it under (its nodeid), and fh_table, by   *)
(* the server's fileid.  A hash table is modelled by the set of the         *)
(* numbers of the inodes linked into it; the memory of the inodes is        *)
(* `alloc', so that an inode that was destroyed while still linked is a     *)
(* member of a table and not of `alloc'.                                    *)
(*                                                                          *)
(* An element of Objects is a file of the server as NFSv3 identifies it,    *)
(* that is a file handle.  A server may give the fileid of a removed file   *)
(* to a new one, which then has another handle: FileId need not be          *)
(* injective.  Attributes other than the identity of the file are not part  *)
(* of this module.                                                          *)
(***************************************************************************)
EXTENDS Integers

CONSTANTS
    Objects,    \* the files the server ever holds (file handles)
    NoObj,      \* the handle of an inode that was never set up
    FileId,     \* the fileid of each object
    IdMax       \* the largest inode number, 2^64 - 1 in the code

ASSUME CacheAssumption ==
    /\ NoObj \notin Objects
    /\ IdMax \in Nat \ {0}

VARIABLES
    curr_id,    \* super->curr_id, the number given out last
    id_table,   \* super->id_table
    fh_table,   \* super->fh_table
    alloc,      \* the inodes whose memory is allocated
    fh,         \* nfs_inode->fh
    i_count     \* hsfs_inode->i_count

cacheVars == <<curr_id, id_table, fh_table, alloc, fh, i_count>>

Ino == 1 .. IdMax

(***************************************************************************)
(* bad_hsfs_inode: the object whose address, shifted by an errno, ERR_PTR() *)
(* returns.  Its number is 0.                                               *)
(***************************************************************************)
BadIno == 0

CacheTypeOK ==
    /\ curr_id \in 0 .. IdMax
    /\ id_table \subseteq Ino
    /\ fh_table \subseteq Ino
    /\ alloc \subseteq Ino
    /\ fh \in [Ino -> Objects \cup {NoObj}]
    /\ i_count \in [Ino -> Int]

hsfs_init_icache ==
    /\ curr_id = 0
    /\ id_table = {}
    /\ fh_table = {}
    /\ alloc = {}
    /\ fh = [i \in Ino |-> NoObj]
    /\ i_count = [i \in Ino |-> 0]

-----------------------------------------------------------------------------
(* hsfs_ilookup(): __iget() is empty, so finding an inode counts nothing.   *)
hsfs_ilookup(i) == i \in id_table

nfs_find_actor_ByFileid(i, o) ==
    FileId[fh[i]] = FileId[o]

nfs_find_actor(i, o) ==
    /\ FileId[fh[i]] = FileId[o]
    /\ fh[i] = o

fh_ifind(o) == {i \in fh_table : nfs_find_actor(i, o)}

(***************************************************************************)
(* The do-while loop of __inode_add_to_lists(): k is the first number after *)
(* curr_id that is not in id_table; the 64-bit counter goes from IdMax to 0 *)
(* and from there to 2, as 1 is the root's.                                 *)
(***************************************************************************)
NextId(k) ==
    /\ k \notin id_table
    /\ \/ /\ curr_id < k
          /\ \A j \in (curr_id + 1) .. (k - 1) : j \in id_table
       \/ /\ 2 <= k /\ k <= curr_id
          /\ \A j \in (curr_id + 1) .. IdMax : j \in id_table
          /\ \A j \in 2 .. (k - 1) : j \in id_table

(* get_new_inode() with alloc_inode() and nfs_init_locked().                *)
get_new_inode_IdOnly(o, i) ==
    /\ NextId(i)
    /\ curr_id' = i
    /\ id_table' = id_table \cup {i}
    /\ alloc' = alloc \cup {i}
    /\ fh' = [fh EXCEPT ![i] = o]
    /\ i_count' = [i_count EXCEPT ![i] = 0]
    /\ UNCHANGED fh_table

get_new_inode(o, i) ==
    /\ NextId(i)
    /\ curr_id' = i
    /\ id_table' = id_table \cup {i}
    /\ fh_table' = fh_table \cup {i}
    /\ alloc' = alloc \cup {i}
    /\ fh' = [fh EXCEPT ![i] = o]
    /\ i_count' = [i_count EXCEPT ![i] = 0]

hsi_nfs_fhget_Counted(o, i) ==
    \/ /\ i \in fh_ifind(o)
       /\ i_count' = [i_count EXCEPT ![i] = @ + 1]
       /\ UNCHANGED <<curr_id, id_table, fh_table, alloc, fh>>
    \/ /\ fh_ifind(o) = {}
       /\ get_new_inode(o, i)

(***************************************************************************)
(* hsi_nfs_fhget() for a reply that carries attributes with nlink # 0: the  *)
(* inode found or made for object o has number i.  I_NEW is set and cleared *)
(* within the call.                                                         *)
(***************************************************************************)
hsi_nfs_fhget(o, i) ==
    \/ /\ i \in fh_ifind(o)
       /\ UNCHANGED cacheVars
    \/ /\ fh_ifind(o) = {}
       /\ get_new_inode(o, i)

hsfs_iput_AtOrBelowZero(i) ==
    /\ i_count' = [i_count EXCEPT ![i] = @ - 1]
    /\ IF i_count[i] - 1 <= 0
       THEN alloc' \in {alloc, alloc \ {i}}
       ELSE UNCHANGED alloc
    /\ UNCHANGED <<curr_id, id_table, fh_table, fh>>

(***************************************************************************)
(* hsfs_iput(): i_count-- and, only when that gives 0, iput_final().        *)
(* generic_drop_inode() then frees the memory, unless i_nlink is 0, and     *)
(* leaves both tables as they are.                                          *)
(***************************************************************************)
hsfs_iput(i) ==
    /\ i_count' = [i_count EXCEPT ![i] = @ - 1]
    /\ IF i_count[i] - 1 = 0
       THEN alloc' \in {alloc, alloc \ {i}}
       ELSE UNCHANGED alloc
    /\ UNCHANGED <<curr_id, id_table, fh_table, fh>>
=============================================================================
