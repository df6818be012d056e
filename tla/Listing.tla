------------------------------ MODULE Listing -------------------------------
(***************************************************************************)
(* Listing a directory with READDIR: hsx_fuse_readdir() asks the server     *)
(* for the entries after a cookie, packs those that fit into the kernel's   *)
(* buffer and drops the rest; the kernel comes back with the cookie of the  *)
(* last entry it got, until a reply is empty.                               *)
(*                                                                          *)
(* A server that reorders its directory gives a verifier with its cookies   *)
(* and refuses cookies whose verifier is out of date (NFS3ERR_BAD_COOKIE,   *)
(* EIO to the kernel).  hsi_nfs3_readdir() keeps one verifier per inode,    *)
(* which all the listings of a directory share and each reply replaces.     *)
(* Programs list the directory at the same time while others change it.     *)
(* hsx_fuse_readdir_plus() does the same with READDIRPLUS; what it does     *)
(* besides, with inodes and their counts, is in FuseRefs.                   *)
(***************************************************************************)
EXTENDS Integers, FiniteSets, FiniteSetsExt

CONSTANTS
    Listers,    \* the open directory streams
    Names,      \* the names, numbers in the order the server lists them
    EntSize,    \* the bytes fuse_add_direntry() needs for a name
    Sizes,      \* the sizes of the kernel's buffers
    MaxChanges  \* bound: changes of the directory

ASSUME ListingAssumption ==
    /\ Names \subseteq Nat \ {0} /\ IsFiniteSet(Names)
    /\ EntSize \in [Names -> Nat \ {0}] /\ Sizes \subseteq Nat
    \* the kernel passes a page or more, and no entry is as long
    /\ \A e \in Names, s \in Sizes : EntSize[e] < s
    /\ MaxChanges \in Nat

NoVerf == -1

VARIABLES
    cookies,     \* the server's cookies are "stable" or "positions"
    dir,         \* the names in the directory
    ver,         \* the server's verifier: the changes so far, 0 if stable
    changes,     \* bound: the changes so far
    cookieverf,  \* NFS_I(inode)->cookieverf
    listing,     \* of a stream: closed, open, ended, or failed
    off,         \*   the cookie the kernel comes back with
    got,         \*   was a name returned never, once, or (2) more often
    lasting,     \* history: the names there since the listing began
    given,       \* history: the verifier off was given with
    mixed        \* history: a cookie went out with another's verifier

streamVars == <<listing, off, got, given, mixed>>
vars == <<cookies, dir, ver, changes, cookieverf, streamVars, lasting>>

(* Cookies and verifiers are ones that the server has given.                *)
TypeOK ==
    /\ cookies \in {"stable", "positions"}
    /\ dir \subseteq Names
    /\ changes \in 0 .. MaxChanges /\ ver \in 0 .. changes
    /\ cookieverf \in {NoVerf} \cup (0 .. ver)
    /\ listing \in [Listers -> {"closed", "open", "ended", "error", "eio"}]
    /\ off \in [Listers -> 0 .. Max(Names \cup {0})]
    /\ got \in [Listers -> [Names -> 0 .. 2]]
    /\ lasting \in [Listers -> SUBSET Names]
    /\ given \in [Listers -> {NoVerf} \cup (0 .. ver)]
    /\ mixed \in [Listers -> BOOLEAN]

-----------------------------------------------------------------------------
(* The server.                                                              *)

Cookie(e) ==
    IF cookies = "stable" THEN e ELSE Cardinality({x \in dir : x <= e})

(* The entries after a cookie, and what one answer may hold of them: some,  *)
(* in order, and none only at the end.                                      *)
Rest(c) == {e \in dir : Cookie(e) > c}
Heads(S) == {{x \in S : x <= e} : e \in S \cup {0}}
Answers(c) == {A \in Heads(Rest(c)) : A = {} => Rest(c) = {}}

BadCookie(c, verf) == c # 0 /\ verf # ver

Changes ==
    /\ changes < MaxChanges /\ changes' = changes + 1
    /\ ver' = IF cookies = "stable" THEN ver ELSE ver + 1
    /\ UNCHANGED <<cookies, cookieverf, streamVars>>

server_add(e) ==
    /\ e \in Names \ dir
    /\ dir' = dir \cup {e}
    /\ UNCHANGED lasting
    /\ Changes

server_remove(e) ==
    /\ e \in dir
    /\ dir' = dir \ {e}
    /\ lasting' = [l \in Listers |-> lasting[l] \ {e}]
    /\ Changes

-----------------------------------------------------------------------------
(* The daemon and the kernel.                                               *)

hsx_fuse_opendir(l) ==
    /\ listing[l] # "open"
    /\ listing' = [listing EXCEPT ![l] = "open"]
    /\ off' = [off EXCEPT ![l] = 0]
    /\ got' = [got EXCEPT ![l] = [e \in Names |-> 0]]
    /\ given' = [given EXCEPT ![l] = NoVerf]
    /\ mixed' = [mixed EXCEPT ![l] = FALSE]
    /\ lasting' = [lasting EXCEPT ![l] = dir]
    /\ UNCHANGED <<cookies, dir, ver, changes, cookieverf>>

(* Mutant: the verifier of the answer is not kept.                          *)
set_cookie_verf_once == cookieverf' = IF cookieverf = NoVerf THEN ver ELSE cookieverf

__set_cookie_verf == cookieverf' = ver

Bytes == [P \in SUBSET Names |-> MapThenSumSet(LAMBDA e : EntSize[e], P)]

(* Mutant: room for one more byte is asked for.                             *)
fits_short(P, size) == Bytes[P] + 1 < size

(* An entry is packed if it leaves some of the buffer free.                 *)
Fits(P, size) == Bytes[P] < size

Packed ==
    [A \in SUBSET Names |-> [size \in Sizes |->
       UNION {P \in Heads(A) : Fits(P, size)}]]

Again(n) == IF n = 0 THEN 1 ELSE 2

(* The kernel notes the entries, and the cookie c of the last.              *)
Returned(l, P, c) ==
    /\ listing' = [listing EXCEPT ![l] = IF P = {} THEN "ended" ELSE "open"]
    /\ got' = [got EXCEPT ![l] =
                 [e \in Names |-> IF e \in P THEN Again(@[e]) ELSE @[e]]]
    /\ off' = [off EXCEPT ![l] = IF P = {} THEN @ ELSE c]
    /\ given' = [given EXCEPT ![l] = ver]
    /\ mixed' = [mixed EXCEPT ![l] = @ \/ (off[l] # 0 /\ given[l] # ver)]

(* Mutants: the kernel gets the cookie of the last entry the server gave;   *)
(* of the entry before; of the entry after.                                 *)
Reply_LastGiven(l, A, P) == Returned(l, P, Cookie(Max(A \cup P \cup {0})))
Reply_Before(l, A, P) == Returned(l, P, Cookie(Max(P \cup {0})) - 1)
Reply_After(l, A, P) == Returned(l, P, Cookie(Max(P \cup {0})) + 1)

(* A is what the server gave, P what fits.                                  *)
Reply(l, A, P) == Returned(l, P, Cookie(Max(P \cup {0})))

hsx_fuse_readdir(l, size) ==
    /\ listing[l] = "open"
    /\ ~ BadCookie(off[l], cookieverf)
    /\ __set_cookie_verf
    /\ UNCHANGED <<cookies, dir, ver, changes, lasting>>
    /\ \E A \in Answers(off[l]) : Reply(l, A, Packed[A][size])

(* The server refuses the cookie: nothing is kept of its answer.            *)
readdir_bad_cookie(l) ==
    /\ listing[l] = "open"
    /\ BadCookie(off[l], cookieverf)
    /\ listing' = [listing EXCEPT ![l] = "eio"]
    /\ UNCHANGED <<cookies, dir, ver, changes, cookieverf, off, got, given,
                   mixed, lasting>>

(* The call fails, or memory is short after the answer was taken in.        *)
readdir_error(l) ==
    /\ listing[l] = "open"
    /\ listing' = [listing EXCEPT ![l] = "error"]
    /\ \/ UNCHANGED cookieverf
       \/ ~ BadCookie(off[l], cookieverf) /\ __set_cookie_verf
    /\ UNCHANGED <<cookies, dir, ver, changes, off, got, given, mixed,
                   lasting>>

-----------------------------------------------------------------------------
Init ==
    /\ cookies \in {"stable", "positions"}
    /\ dir \in SUBSET Names
    /\ ver = 0 /\ changes = 0
    /\ cookieverf = NoVerf
    /\ listing = [l \in Listers |-> "closed"]
    /\ off = [l \in Listers |-> 0]
    /\ got = [l \in Listers |-> [e \in Names |-> 0]]
    /\ lasting = [l \in Listers |-> {}]
    /\ given = [l \in Listers |-> NoVerf]
    /\ mixed = [l \in Listers |-> FALSE]

ReaddirStep(l) ==
    (\E size \in Sizes : hsx_fuse_readdir(l, size)) \/ readdir_bad_cookie(l)

Next ==
    \/ \E l \in Listers :
          hsx_fuse_opendir(l) \/ ReaddirStep(l) \/ readdir_error(l)
    \/ \E e \in Names : server_add(e) \/ server_remove(e)

Spec == Init /\ [][Next]_vars

(* A program that lists a directory reads on until an empty reply.          *)
FairSpec == Spec /\ \A l \in Listers : WF_vars(ReaddirStep(l))

-----------------------------------------------------------------------------
Whole(l) ==
    \A e \in Names :
       /\ got[l][e] <= 1
       /\ listing[l] = "ended" /\ e \in lasting[l] => got[l][e] = 1

(* A listing that reads to its end returned every name that was there all   *)
(* the time, and none twice, although names come and go and the server and  *)
(* the buffers cut it at any place.  The exception is a listing whose       *)
(* cookie, from an older order of the directory, went out with the verifier *)
(* that another listing's answer had left in the inode: the server then     *)
(* cannot see that it is out of date.                                       *)
ListingWhole ==
    \A l \in Listers : ~ mixed[l] => Whole(l)

(* The server refuses a cookie only if the directory has changed since this *)
(* listing got it: sharing the verifier makes no listing fail.              *)
RefusedOnlyIfChanged ==
    [][\A l \in Listers :
         listing[l] = "open" /\ listing'[l] = "eio" => given[l] # ver]_vars

(* "If EOF, we will return an empty buffer here": and only then, so that    *)
(* the kernel takes no full buffer for the end of the directory.            *)
EmptyOnlyAtEnd ==
    [][\A l \in Listers :
         listing[l] = "open" /\ listing'[l] = "ended" => Rest(off[l]) = {}]_vars

(* Every listing ends, in an empty reply or an error, however often the     *)
(* directory changes.                                                       *)
ListingEnds == \A l \in Listers : listing[l] = "open" ~> listing[l] # "open"
=============================================================================
