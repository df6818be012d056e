---------------------------- MODULE ListingProofs ---------------------------
(***************************************************************************)
(* Proofs about Listing.  What a listing has returned is described by one   *)
(* name, the last it got: as long as the cookie can be trusted it stands    *)
(* for that name, everything lasting up to it was returned once, and        *)
(* nothing after it was.                                                    *)
(***************************************************************************)
EXTENDS Listing, FiniteSetTheorems, WellFoundedInduction, TLAPS

(* The cookie of l can be trusted: the server's order has not changed since *)
(* it was given.                                                            *)
Current(l) == cookies = "stable" \/ given[l] = ver

(* n is the last name that l has got, 0 before the first.                   *)
LastGot(l, n) ==
    /\ n = 0 <=> off[l] = 0
    /\ Current(l) => off[l] = Cookie(n)
    /\ \A e \in Names : got[l][e] <= 1
    /\ \A e \in Names : e > n => got[l][e] = 0
    /\ \A e \in lasting[l] : e <= n => got[l][e] = 1

(* Names last only while they are in the directory.                         *)
LastingInv == \A l \in Listers : lasting[l] \subseteq dir

(* The verifier of stable cookies does not change, and a listing past its   *)
(* first reply has one.                                                     *)
VerfInv ==
    /\ cookies = "stable" => ver = 0
    /\ \A l \in Listers : off[l] # 0 => given[l] # NoVerf

(* The inode has the verifier of every listing that is up to date.          *)
SharedInv == \A l \in Listers : given[l] = ver => cookieverf = ver

PositionInv ==
    \A l \in Listers : ~ mixed[l] => \E n \in Names \cup {0} : LastGot(l, n)

EndedInv ==
    \A l \in Listers : ~ mixed[l] /\ listing[l] = "ended" =>
       \A e \in lasting[l] : got[l][e] = 1

IInv ==
    /\ TypeOK
    /\ LastingInv
    /\ VerfInv
    /\ SharedInv
    /\ PositionInv
    /\ EndedInv

-----------------------------------------------------------------------------
(* Facts about sets of names.                                               *)

(* A finite set of numbers that is not empty has a greatest one: a smallest *)
(* set without one would have one as soon as an element is taken out.       *)
LEMMA GreatestExists ==
    ASSUME NEW S, S \subseteq Nat, IsFiniteSet(S), S # {}
    PROVE  \E m \in S : \A x \in S : x <= m
<1> DEFINE HasMax(T) == \E m \in T : \A x \in T : x <= m
           Bad == {T \in SUBSET S : T # {} /\ ~ HasMax(T)}
<1>1. SUFFICES ASSUME Bad # {} PROVE FALSE
    OBVIOUS
<1>2. IsWellFoundedOn(StrictSubsetOrdering(S), SUBSET S)
    BY FS_StrictSubsetOrderingWellFounded, FS_FiniteSubsetsOfFinite
<1>3. PICK T \in Bad :
        \A U \in Bad : ~ (<<U, T>> \in StrictSubsetOrdering(S))
  <2>1. Bad \subseteq SUBSET S
    OBVIOUS
  <2> HIDE DEF Bad
  <2>2. QED
    BY <1>1, <1>2, <2>1, WFMin
<1>4. PICK x \in T : TRUE
    BY <1>3
<1>5. T \ {x} \notin Bad
  <2>1. <<T \ {x}, T>> \in (SUBSET S) \X (SUBSET S)
    BY <1>3
  <2>2. T \ {x} \subseteq T /\ T \ {x} # T
    BY <1>4
  <2>3. <<T \ {x}, T>> \in StrictSubsetOrdering(S)
    BY <2>1, <2>2 DEF StrictSubsetOrdering
  <2> HIDE DEF Bad
  <2>4. QED
    BY <1>3, <2>3
<1>6. CASE T \ {x} = {}
  <2>1. T = {x}
    BY <1>4, <1>6
  <2>2. x \in Nat
    BY <1>3, <1>4
  <2>3. HasMax(T)
    BY <2>1, <2>2
  <2>4. QED
    BY <1>3, <2>3
<1>7. CASE T \ {x} # {}
  <2>1. PICK m \in T \ {x} : \A y \in T \ {x} : y <= m
    BY <1>3, <1>5, <1>7
  <2>2. T \subseteq Nat /\ m \in Nat /\ x \in Nat
    BY <1>3, <1>4
  <2>3. CASE x <= m
    <3>1. \A y \in T : y <= m
        BY <2>1, <2>3
    <3>2. QED
        BY <1>3, <3>1
  <2>4. CASE m <= x
    <3>1. \A y \in T : y <= x
        BY <2>1, <2>2, <2>4
    <3>2. QED
        BY <1>3, <1>4, <3>1
  <2>5. QED
    BY <2>2, <2>3, <2>4
<1>8. QED
    BY <1>6, <1>7

LEMMA MaxFacts ==
    ASSUME NEW S, S \subseteq Nat, IsFiniteSet(S), S # {}
    PROVE  Max(S) \in S /\ \A x \in S : x <= Max(S)
<1>1. PICK m \in S : \A x \in S : x <= m
    BY GreatestExists
<1>2. \A x \in S : m >= x
    BY <1>1
<1>3. Max(S) \in S /\ \A x \in S : Max(S) >= x
    BY <1>1, <1>2 DEF Max
<1>4. QED
    BY <1>3

LEMMA LeastExists ==
    ASSUME NEW S, S \subseteq Nat, S # {}
    PROVE  \E m \in S : \A x \in S : m <= x
<1>1. PICK m \in S : \A x \in S : ~ (<<x, m>> \in OpToRel(<, Nat))
    BY NatLessThanWellFounded, WFMin
<1>2. \A x \in S : ~ (x < m)
    BY <1>1 DEF OpToRel
<1>3. \A x \in S : m <= x
    BY <1>2
<1>4. QED
    BY <1>3

LEMMA NamesFinite ==
    ASSUME NEW S, S \subseteq Names \cup {0}
    PROVE  IsFiniteSet(S) /\ S \subseteq Nat /\ Cardinality(S) \in Nat
<1>1. IsFiniteSet(Names \cup {0})
    BY ListingAssumption, FS_AddElement
<1>2. IsFiniteSet(S)
    BY <1>1, FS_Subset
<1>3. QED
    BY <1>2, ListingAssumption, FS_CardinalityType

(* The bytes of a single entry: the recursive function of the fold exists   *)
(* on the subsets of one element, and gives what its equation says.         *)
LEMMA BytesOfOne ==
    ASSUME NEW e \in Names
    PROVE  Bytes[{e}] = EntSize[e]
<1> DEFINE Eq(it) == it = [s \in SUBSET {e} |->
                       IF s = {} THEN 0
                       ELSE EntSize[CHOOSE x \in s : TRUE]
                              + it[s \ {CHOOSE x \in s : TRUE}]]
           iter == CHOOSE it : Eq(it)
           one == [s \in SUBSET {e} |-> IF s = {} THEN 0 ELSE EntSize[e]]
<1>1. EntSize[e] \in Nat
    BY ListingAssumption
<1>2. \A s \in SUBSET {e} : s # {} => s = {e} /\ (CHOOSE x \in s : TRUE) = e
    OBVIOUS
<1>3. Eq(one)
  <2>1. ASSUME NEW s \in SUBSET {e}, s # {}
        PROVE  one[s] = EntSize[CHOOSE x \in s : TRUE]
                          + one[s \ {CHOOSE x \in s : TRUE}]
    <3>1. s = {e} /\ (CHOOSE x \in s : TRUE) = e
        BY <1>2, <2>1
    <3>2. s \ {CHOOSE x \in s : TRUE} = {}
        BY <3>1
    <3>3. one[{}] = 0 /\ one[s] = EntSize[e]
        BY <2>1
    <3> HIDE DEF one
    <3>4. QED
        BY <1>1, <3>1, <3>2, <3>3
  <2>2. one[{}] = 0
    OBVIOUS
  <2>3. QED
    BY <2>1, <2>2
<1>4. Eq(iter)
  <2> HIDE DEF Eq
  <2>1. QED
    BY <1>3
<1>5. MapThenSumSet(LAMBDA x : EntSize[x], {e}) = iter[{e}]
    BY DEF MapThenSumSet, MapThenFoldSet
<1>6. iter[{e}] = EntSize[e] + iter[{}] /\ iter[{}] = 0
  <2> HIDE DEF iter
  <2>1. {e} \in SUBSET {e} /\ {} \in SUBSET {e} /\ {e} # {} /\ {e} \ {e} = {}
    OBVIOUS
  <2>2. (CHOOSE x \in {e} : TRUE) = e
    BY <1>2
  <2>3. iter[{}] = 0
    BY <1>4, <2>1
  <2>4. iter[{e}] = EntSize[CHOOSE x \in {e} : TRUE]
                     + iter[{e} \ {CHOOSE x \in {e} : TRUE}]
    BY <1>4, <2>1
  <2>5. QED
    BY <2>1, <2>2, <2>3, <2>4
<1>7. Bytes[{e}] = MapThenSumSet(LAMBDA x : EntSize[x], {e})
    BY DEF Bytes
<1>8. QED
    BY <1>1, <1>5, <1>6, <1>7

-----------------------------------------------------------------------------
(* The server's cookies, of either kind, are ordered as the names are.      *)
LEMMA CookieFacts ==
    ASSUME TypeOK, NEW a \in Names \cup {0}
    PROVE  /\ Cookie(a) \in 0 .. a
           /\ \A e \in dir : Cookie(e) > Cookie(a) <=> e > a
<1> DEFINE Upto(n) == {x \in dir : x <= n}
<1>1. dir \subseteq Names /\ a \in Nat /\ Names \subseteq Nat \ {0}
    BY ListingAssumption DEF TypeOK
<1>2. ASSUME NEW n PROVE IsFiniteSet(Upto(n)) /\ Cardinality(Upto(n)) \in Nat
  <2>1. Upto(n) \subseteq Names \cup {0}
    BY <1>1
  <2> HIDE DEF Upto
  <2>2. QED
    BY <2>1, NamesFinite
<1>3. Cardinality(Upto(a)) <= a
  <2>1. ASSUME NEW x \in dir, x <= a PROVE x \in 1 .. a
    <3>1. x \in Nat \ {0}
        BY <1>1
    <3>2. QED
        BY <3>1, <2>1, <1>1
  <2>2. IsFiniteSet(1 .. a) /\ Cardinality(1 .. a) = a
    BY <1>1, FS_Interval
  <2>3. Upto(a) \subseteq 1 .. a
    BY <2>1
  <2> HIDE DEF Upto
  <2>4. QED
    BY <2>2, <2>3, FS_Subset
<1>4. ASSUME NEW e \in dir, e > a
      PROVE  Cardinality(Upto(e)) > Cardinality(Upto(a))
  <2>1. Upto(a) \subseteq Upto(e)
    <3>1. SUFFICES ASSUME NEW x \in dir, x <= a PROVE x <= e
        OBVIOUS
    <3>2. x \in Nat /\ e \in Nat /\ a \in Nat
        BY <1>1
    <3>3. QED
        BY <1>4, <3>1, <3>2
  <2>2. e \in Upto(e) /\ e \notin Upto(a)
    BY <1>1, <1>4
  <2> HIDE DEF Upto
  <2>3. /\ Cardinality(Upto(a)) <= Cardinality(Upto(e))
        /\ Cardinality(Upto(e)) = Cardinality(Upto(a)) => Upto(e) = Upto(a)
    BY <1>2, <2>1, FS_Subset
  <2>4. Upto(e) # Upto(a)
    BY <2>2
  <2>5. QED
    BY <1>2, <2>3, <2>4
<1>5. ASSUME NEW e \in dir, ~ (e > a)
      PROVE  ~ (Cardinality(Upto(e)) > Cardinality(Upto(a)))
  <2>1. Upto(e) \subseteq Upto(a)
    <3>1. SUFFICES ASSUME NEW x \in dir, x <= e PROVE x <= a
        OBVIOUS
    <3>2. x \in Nat /\ e \in Nat /\ a \in Nat
        BY <1>1
    <3>3. QED
        BY <1>5, <3>1, <3>2
  <2> HIDE DEF Upto
  <2>2. Cardinality(Upto(e)) <= Cardinality(Upto(a))
    BY <1>2, <2>1, FS_Subset
  <2>3. QED
    BY <1>2, <2>2
<1>6. CASE cookies = "stable"
  <2>1. \A n : Cookie(n) = n
    BY <1>6 DEF Cookie
  <2>2. QED
    BY <1>1, <2>1
<1>7. CASE cookies # "stable"
  <2>1. \A n : Cookie(n) = Cardinality(Upto(n))
    BY <1>7 DEF Cookie
  <2> HIDE DEF Upto
  <2>2. Cardinality(Upto(a)) \in 0 .. a
    BY <1>1, <1>2, <1>3
  <2>3. QED
    BY <2>1, <2>2, <1>4, <1>5
<1>8. QED
    BY <1>6, <1>7

(* The first entry fits any buffer, so that something is packed whenever    *)
(* the server gave something; what is packed is a head of it.               *)
LEMMA PackedFacts ==
    ASSUME NEW A, A \subseteq Names, NEW size \in Sizes
    PROVE  /\ \E k \in Names \cup {0} : Packed[A][size] = {x \in A : x <= k}
           /\ A # {} => Packed[A][size] # {}
<1> DEFINE Head(n) == {x \in A : x <= n}
           Good == {n \in A \cup {0} : Fits(Head(n), size)}
           P == Packed[A][size]
<1>1. P = UNION {Q \in Heads(A) : Fits(Q, size)}
    BY DEF Packed
<1>2. A \subseteq Nat \ {0} /\ Names \subseteq Nat
    BY ListingAssumption
<1>3. Good \subseteq Names \cup {0} /\ Good \subseteq Nat
  <2>1. Good \subseteq A \cup {0}
    OBVIOUS
  <2> HIDE DEF Good
  <2>2. QED
    BY <1>2, <2>1
<1>4. \A x : x \in P <=> \E n \in Good : x \in Head(n)
  <2>1. \A x : x \in P <=> \E Q \in Heads(A) : Fits(Q, size) /\ x \in Q
    BY <1>1
  <2>2. \A Q : Q \in Heads(A) <=> \E n \in A \cup {0} : Q = Head(n)
    BY DEF Heads
  <2> HIDE DEF P, Head
  <2>3. QED
    BY <2>1, <2>2
<1> HIDE DEF P
<1>5. ASSUME A # {} PROVE P # {}
  <2>1. PICK e \in A : \A x \in A : e <= x
    BY <1>2, <1>5, LeastExists
  <2>2. Head(e) = {e}
    <3>1. ASSUME NEW x \in A PROVE x <= e <=> x = e
        <4>1. x \in Nat /\ e \in Nat /\ e <= x
            BY <1>2, <2>1
        <4>2. QED
            BY <4>1
    <3>2. QED
        BY <3>1
  <2>3. Fits({e}, size)
    BY BytesOfOne, ListingAssumption DEF Fits
  <2>4. e \in Good /\ e \in Head(e)
    BY <1>2, <2>2, <2>3
  <2> HIDE DEF Good, Head
  <2>5. QED
    BY <1>4, <2>4
<1>6. CASE Good = {}
  <2>1. P = {}
    BY <1>4, <1>6
  <2>2. P = {x \in A : x <= 0}
    <3>1. ASSUME NEW x \in A PROVE ~ (x <= 0)
        BY <1>2
    <3>2. QED
        BY <2>1, <3>1
  <2>3. QED
    BY <2>2, <1>5 DEF P
<1>7. CASE Good # {}
  <2>1. PICK m \in Good : \A n \in Good : n <= m
    <3> HIDE DEF Good
    <3>1. IsFiniteSet(Good)
        BY <1>3, NamesFinite
    <3>2. QED
        BY <1>3, <1>7, <3>1, GreatestExists
  <2>2. \A n \in Good : Head(n) \subseteq Head(m)
    <3>1. SUFFICES ASSUME NEW n \in Good, NEW x \in A, x <= n
                   PROVE  x <= m
        OBVIOUS
    <3>2. n <= m /\ n \in Nat /\ m \in Nat /\ x \in Nat
        BY <1>2, <1>3, <2>1
    <3>3. QED
        BY <3>1, <3>2
  <2>3. P = Head(m)
    <3> HIDE DEF Good, Head
    <3>1. QED
        BY <1>4, <2>1, <2>2
  <2>4. m \in Names \cup {0}
    BY <1>3, <2>1
  <2>5. QED
    BY <2>3, <2>4, <1>5 DEF P
<1>8. QED
    BY <1>6, <1>7

(* What hsx_fuse_readdir() replies is a head of the entries after the       *)
(* cookie, and empty only if there are none.                                *)
LEMMA ReplyFacts ==
    ASSUME TypeOK, NEW c, NEW A \in Answers(c), NEW size \in Sizes
    PROVE  LET P == Packed[A][size]
               m == Max(P \cup {0})
           IN  /\ P \subseteq Rest(c)
               /\ P = {} => Rest(c) = {}
               /\ P # {} => m \in P /\ P = {x \in Rest(c) : x <= m}
<1> DEFINE P == Packed[A][size]
           m == Max(P \cup {0})
<1>1. Rest(c) \subseteq dir /\ dir \subseteq Names /\ Names \subseteq Nat \ {0}
    BY ListingAssumption DEF TypeOK, Rest
<1>2. PICK a \in Rest(c) \cup {0} : A = {x \in Rest(c) : x <= a}
    BY DEF Answers, Heads
<1>3. A = {} => Rest(c) = {}
    BY DEF Answers
<1>4. A \subseteq Names
    BY <1>1, <1>2
<1>5. PICK k \in Names \cup {0} : P = {x \in A : x <= k}
    BY <1>4, PackedFacts
<1>6. A # {} => P # {}
    BY <1>4, PackedFacts
<1> HIDE DEF P
<1>7. P \subseteq Rest(c)
    BY <1>2, <1>5
<1>8. ASSUME P # {} PROVE m \in P /\ P = {x \in Rest(c) : x <= m}
  <2>1. P \cup {0} \subseteq Names \cup {0}
    BY <1>1, <1>7
  <2>2. m \in P \cup {0} /\ \A x \in P \cup {0} : x <= m
    BY <2>1, NamesFinite, MaxFacts
  <2> HIDE DEF m
  <2>3. m \in P
    <3>1. PICK x \in P : x # 0 /\ x \in Nat
        BY <1>1, <1>7, <1>8
    <3>2. m # 0
        BY <2>2, <3>1
    <3>3. QED
        BY <2>2, <3>2
  <2>4. ASSUME NEW x \in Rest(c), x <= m PROVE x \in P
    <3>1. m \in Rest(c) /\ m <= a /\ m <= k
        BY <1>2, <1>5, <2>3
    <3>2. x \in Nat /\ m \in Nat /\ a \in Nat /\ k \in Nat
        <4>1. \A y \in Names \cup {0} : y \in Nat
            BY NamesFinite
        <4>2. Rest(c) \cup {0} \subseteq Names \cup {0}
            BY <1>1
        <4>3. QED
            BY <3>1, <4>1, <4>2
    <3>3. x <= a /\ x <= k
        BY <2>4, <3>1, <3>2
    <3>4. QED
        BY <1>2, <1>5, <3>3
  <2>5. QED
    BY <1>7, <2>2, <2>3, <2>4
<1>9. QED
    BY <1>3, <1>6, <1>7, <1>8 DEF P

-----------------------------------------------------------------------------
LEMMA InitInv == Init => IInv
<1> SUFFICES ASSUME Init PROVE IInv
    OBVIOUS
<1>1. Max(Names \cup {0}) \in Nat
    BY NamesFinite, MaxFacts
<1>2. TypeOK
    BY <1>1, ListingAssumption DEF Init, TypeOK, NoVerf
<1>3. LastingInv /\ VerfInv /\ SharedInv /\ EndedInv
    BY DEF Init, LastingInv, VerfInv, SharedInv, EndedInv, NoVerf
<1>4. ASSUME NEW l \in Listers PROVE LastGot(l, 0)
  <2>1. Cookie(0) \in 0 .. 0
    BY <1>2, CookieFacts
  <2>2. off[l] = 0 /\ lasting[l] = {} /\ \A e \in Names : got[l][e] = 0
    BY DEF Init
  <2>3. QED
    BY <2>1, <2>2 DEF LastGot
<1>5. PositionInv
    BY <1>4 DEF PositionInv
<1>6. QED
    BY <1>2, <1>3, <1>5 DEF IInv

(* Cookies mean the same as long as the directory does not change.          *)
LEMMA CookieStays ==
    ASSUME UNCHANGED <<cookies, dir>>, NEW n
    PROVE  Cookie(n)' = Cookie(n)
BY DEF Cookie

(* Steps that change neither the directory nor a stream keep what is known  *)
(* of that stream.                                                          *)
LEMMA OtherStream ==
    ASSUME NEW k \in Listers, UNCHANGED <<cookies, dir, ver>>,
           off'[k] = off[k], got'[k] = got[k], given'[k] = given[k],
           lasting'[k] = lasting[k], NEW n, LastGot(k, n)
    PROVE  LastGot(k, n)'
<1>1. Cookie(n)' = Cookie(n) /\ Current(k)' = Current(k)
    BY CookieStays DEF Current
<1>2. QED
    BY <1>1 DEF LastGot

(* A change of the directory: cookies of names stay, or are out of date.    *)
LEMMA ChangeKeeps ==
    ASSUME IInv, Changes, dir' \subseteq Names,
           \A l \in Listers : lasting'[l] \subseteq lasting[l] \cap dir',
           lasting' \in [Listers -> SUBSET Names]
    PROVE  IInv'
<1> USE DEF IInv
<1>1. TypeOK'
  <2>1. ver \in Int /\ ver' \in 0 .. changes' /\ 0 .. ver \subseteq 0 .. ver'
    BY DEF TypeOK, Changes
  <2>2. changes' \in 0 .. MaxChanges
    BY ListingAssumption DEF TypeOK, Changes
  <2>3. given' \in [Listers -> {NoVerf} \cup (0 .. ver')]
    BY <2>1 DEF TypeOK, Changes, streamVars
  <2>4. cookieverf' \in {NoVerf} \cup (0 .. ver')
    BY <2>1 DEF TypeOK, Changes, streamVars
  <2>5. QED
    BY <2>1, <2>2, <2>3, <2>4 DEF TypeOK, Changes, streamVars
<1>2. LastingInv'
    BY DEF LastingInv
<1>3. VerfInv'
    BY DEF VerfInv, Changes, streamVars
<1>4. ASSUME NEW l \in Listers, cookies # "stable" PROVE given'[l] # ver'
    BY <1>4 DEF TypeOK, Changes, streamVars, NoVerf
<1>5. SharedInv'
  <2>1. CASE cookies = "stable"
    BY <2>1 DEF SharedInv, Changes, streamVars
  <2>2. CASE cookies # "stable"
    BY <2>2, <1>4 DEF SharedInv
  <2>3. QED
    BY <2>1, <2>2
<1>6. PositionInv'
  <2> SUFFICES ASSUME NEW l \in Listers, ~ mixed'[l]
               PROVE  \E n \in Names \cup {0} : LastGot(l, n)'
    BY DEF PositionInv
  <2>1. ~ mixed[l] /\ off'[l] = off[l] /\ got'[l] = got[l]
    BY DEF Changes, streamVars
  <2>2. PICK n \in Names \cup {0} : LastGot(l, n)
    BY <2>1 DEF PositionInv
  <2>3. Current(l)' => cookies = "stable"
    BY <1>4 DEF Current, Changes
  <2>4. cookies = "stable" => Current(l) /\ Cookie(n)' = Cookie(n)
    BY DEF Current, Cookie, Changes
  <2>5. LastGot(l, n)'
    BY <2>1, <2>2, <2>3, <2>4 DEF LastGot
  <2>6. QED
    BY <2>5
<1>7. EndedInv'
    BY DEF EndedInv, Changes, streamVars
<1>8. QED
    BY <1>1, <1>2, <1>3, <1>5, <1>6, <1>7

LEMMA ServerKeeps ==
    ASSUME IInv, NEW e \in Names, server_add(e) \/ server_remove(e)
    PROVE  IInv'
<1> USE DEF IInv, TypeOK, LastingInv
<1>1. CASE server_add(e)
  <2>1. dir' \subseteq Names /\ dir \subseteq dir' /\ lasting' = lasting
    BY <1>1 DEF server_add
  <2>2. \A l \in Listers : lasting'[l] \subseteq lasting[l] \cap dir'
    BY <2>1
  <2>3. QED
    BY <1>1, <2>1, <2>2, ChangeKeeps DEF server_add
<1>2. CASE server_remove(e)
  <2>1. dir' = dir \ {e} /\ Changes
    BY <1>2 DEF server_remove
  <2>2. lasting' = [l \in Listers |-> lasting[l] \ {e}]
    BY <1>2 DEF server_remove
  <2>3. lasting' \in [Listers -> SUBSET Names]
    BY <2>2
  <2>4. \A l \in Listers : lasting'[l] \subseteq lasting[l] \cap dir'
    BY <2>1, <2>2
  <2>5. QED
    BY <2>1, <2>3, <2>4, ChangeKeeps
<1>3. QED
    BY <1>1, <1>2

LEMMA OpendirKeeps ==
    ASSUME IInv, NEW l \in Listers, hsx_fuse_opendir(l)
    PROVE  IInv'
<1> USE DEF IInv
<1>1. UNCHANGED <<cookies, dir, ver, changes, cookieverf>>
    BY DEF hsx_fuse_opendir
<1>2. \A k \in Listers : k # l =>
         /\ listing'[k] = listing[k] /\ off'[k] = off[k] /\ got'[k] = got[k]
         /\ given'[k] = given[k] /\ mixed'[k] = mixed[k]
         /\ lasting'[k] = lasting[k]
    BY DEF hsx_fuse_opendir, TypeOK
<1>3. /\ listing'[l] = "open" /\ off'[l] = 0 /\ given'[l] = NoVerf
      /\ lasting'[l] = dir /\ got'[l] = [e \in Names |-> 0]
    BY DEF hsx_fuse_opendir, TypeOK
<1>4. TypeOK'
  <2>1. 0 \in 0 .. Max(Names \cup {0})
    <3>1. Max(Names \cup {0}) \in Nat
        BY NamesFinite, MaxFacts
    <3>2. QED
        BY <3>1
  <2>2. /\ listing' \in [Listers -> {"closed", "open", "ended", "error", "eio"}]
        /\ off' \in [Listers -> 0 .. Max(Names \cup {0})]
    BY <2>1 DEF TypeOK, hsx_fuse_opendir
  <2>3. got' \in [Listers -> [Names -> 0 .. 2]]
    BY DEF TypeOK, hsx_fuse_opendir
  <2>4. /\ lasting' \in [Listers -> SUBSET Names]
        /\ given' \in [Listers -> {NoVerf} \cup (0 .. ver)]
    BY DEF TypeOK, hsx_fuse_opendir
  <2>5. mixed' \in [Listers -> BOOLEAN]
    BY DEF TypeOK, hsx_fuse_opendir
  <2>6. QED
    BY <1>1, <2>2, <2>3, <2>4, <2>5 DEF TypeOK
<1>5. LastingInv'
    BY <1>1, <1>2, <1>3 DEF LastingInv
<1>6. VerfInv'
    BY <1>1, <1>2, <1>3 DEF VerfInv
<1>7. SharedInv'
  <2>1. ver # NoVerf
    BY DEF TypeOK, NoVerf
  <2>2. QED
    BY <1>1, <1>2, <1>3, <2>1 DEF SharedInv
<1>8. PositionInv'
  <2>1. LastGot(l, 0)'
    <3>1. TypeOK' /\ Cookie(0)' \in 0 .. 0
        BY <1>4, <1>1, CookieFacts DEF Cookie
    <3>2. \A e \in Names : got'[l][e] = 0
        BY <1>3
    <3>3. \A e \in Names : ~ (e <= 0)
        BY ListingAssumption
    <3>4. lasting'[l] \subseteq Names
        BY <1>3 DEF TypeOK
    <3>5. QED
        BY <1>3, <3>1, <3>2, <3>3, <3>4 DEF LastGot
  <2>2. ASSUME NEW k \in Listers, k # l, ~ mixed'[k]
        PROVE  \E n \in Names \cup {0} : LastGot(k, n)'
    <3>1. PICK n \in Names \cup {0} : LastGot(k, n)
        BY <1>2, <2>2 DEF PositionInv
    <3>2. LastGot(k, n)'
        BY <1>1, <1>2, <2>2, <3>1, OtherStream
    <3>3. QED
        BY <3>2
  <2>3. QED
    BY <2>1, <2>2 DEF PositionInv
<1>9. EndedInv'
    BY <1>2, <1>3 DEF EndedInv
<1>10. QED
    BY <1>4, <1>5, <1>6, <1>7, <1>8, <1>9

(* A refused cookie and a failed call end a listing; it keeps what it got.  *)
LEMMA FailureKeeps ==
    ASSUME IInv, NEW l \in Listers, readdir_bad_cookie(l) \/ readdir_error(l)
    PROVE  IInv'
<1> USE DEF IInv
<1>1. UNCHANGED <<cookies, dir, ver, changes, off, got, given, mixed, lasting>>
    BY DEF readdir_bad_cookie, readdir_error
<1>2. cookieverf' \in {cookieverf, ver}
    BY DEF readdir_bad_cookie, readdir_error, __set_cookie_verf
<1>3. /\ listing' \in [Listers -> {"closed", "open", "ended", "error", "eio"}]
      /\ \A k \in Listers : listing'[k] = "ended" => listing[k] = "ended"
    BY DEF TypeOK, readdir_bad_cookie, readdir_error
<1>4. TypeOK'
  <2>1. cookieverf' \in {NoVerf} \cup (0 .. ver)
    BY <1>2 DEF TypeOK
  <2>2. QED
    BY <1>1, <1>3, <2>1 DEF TypeOK
<1>5. LastingInv' /\ VerfInv' /\ SharedInv' /\ EndedInv'
    BY <1>1, <1>2, <1>3 DEF LastingInv, VerfInv, SharedInv, EndedInv
<1>6. PositionInv'
  <2> SUFFICES ASSUME NEW k \in Listers, ~ mixed'[k]
               PROVE  \E n \in Names \cup {0} : LastGot(k, n)'
    BY DEF PositionInv
  <2>1. PICK n \in Names \cup {0} : LastGot(k, n)
    BY <1>1 DEF PositionInv
  <2>2. LastGot(k, n)'
    BY <1>1, <2>1, OtherStream
  <2>3. QED
    BY <2>2
<1>7. QED
    BY <1>4, <1>5, <1>6

(* The names after the cookie of a listing that can be trusted are those    *)
(* after the last name it got.                                              *)
LEMMA RestFacts ==
    ASSUME TypeOK, VerfInv, NEW l \in Listers, NEW n \in Names \cup {0},
           LastGot(l, n), off[l] = 0 \/ given[l] = ver
    PROVE  off[l] = Cookie(n) /\ \A e \in dir : e \in Rest(off[l]) <=> e > n
<1>1. off[l] = Cookie(n)
  <2>1. CASE off[l] = 0
    <3>1. n = 0
        BY <2>1 DEF LastGot
    <3>2. Cookie(0) \in 0 .. 0
        BY CookieFacts
    <3>3. QED
        BY <2>1, <3>1, <3>2
  <2>2. CASE given[l] = ver
    BY <2>2 DEF LastGot, Current
  <2>3. QED
    BY <2>1, <2>2
<1>2. \A e \in dir : Cookie(e) > Cookie(n) <=> e > n
    BY CookieFacts
<1>3. QED
    BY <1>1, <1>2 DEF Rest

(* What a reply changes of its stream.                                      *)
LEMMA ReturnedFacts ==
    ASSUME TypeOK, NEW l \in Listers, NEW P, P \subseteq Names, NEW c,
           Returned(l, P, c)
    PROVE  /\ \A k \in Listers : k # l =>
                /\ listing'[k] = listing[k] /\ off'[k] = off[k]
                /\ got'[k] = got[k] /\ given'[k] = given[k]
                /\ mixed'[k] = mixed[k]
           /\ listing'[l] = IF P = {} THEN "ended" ELSE "open"
           /\ off'[l] = IF P = {} THEN off[l] ELSE c
           /\ given'[l] = ver
           /\ mixed'[l] <=> mixed[l] \/ (off[l] # 0 /\ given[l] # ver)
<1>1. /\ \A k \in Listers : k # l =>
           /\ listing'[k] = listing[k] /\ off'[k] = off[k]
           /\ got'[k] = got[k] /\ given'[k] = given[k]
      /\ listing'[l] = IF P = {} THEN "ended" ELSE "open"
      /\ off'[l] = IF P = {} THEN off[l] ELSE c
      /\ given'[l] = ver
    BY DEF Returned, TypeOK
<1>2. /\ \A k \in Listers : k # l => mixed'[k] = mixed[k]
      /\ mixed'[l] = (mixed[l] \/ (off[l] # 0 /\ given[l] # ver))
    BY DEF Returned, TypeOK
<1>3. QED
    BY <1>1, <1>2

LEMMA ReturnedGot ==
    ASSUME TypeOK, NEW l \in Listers, NEW P, NEW c, Returned(l, P, c),
           NEW e \in Names
    PROVE  /\ e \in P => got'[l][e] = Again(got[l][e])
           /\ e \notin P => got'[l][e] = got[l][e]
<1>1. got'[l] = [x \in Names |->
                   IF x \in P THEN Again(got[l][x]) ELSE got[l][x]]
    BY DEF Returned, TypeOK
<1>2. QED
    BY <1>1

LEMMA ReturnedTypes ==
    ASSUME TypeOK, NEW l \in Listers, NEW P, P \subseteq Names,
           NEW c \in 0 .. Max(Names \cup {0}), Returned(l, P, c)
    PROVE  /\ listing' \in
                [Listers -> {"closed", "open", "ended", "error", "eio"}]
           /\ off' \in [Listers -> 0 .. Max(Names \cup {0})]
           /\ got' \in [Listers -> [Names -> 0 .. 2]]
           /\ given' \in [Listers -> {NoVerf} \cup (0 .. ver)]
           /\ mixed' \in [Listers -> BOOLEAN]
<1>1. /\ listing' \in [Listers -> {"closed", "open", "ended", "error", "eio"}]
      /\ off' \in [Listers -> 0 .. Max(Names \cup {0})]
    BY DEF TypeOK, Returned
<1>2. got' \in [Listers -> [Names -> 0 .. 2]]
  <2>1. [e \in Names |-> IF e \in P THEN Again(got[l][e]) ELSE got[l][e]]
          \in [Names -> 0 .. 2]
    BY DEF TypeOK, Again
  <2>2. QED
    BY <2>1 DEF TypeOK, Returned
<1>3. ver \in 0 .. ver
    BY DEF TypeOK
<1>4. given' \in [Listers -> {NoVerf} \cup (0 .. ver)]
    BY <1>3 DEF TypeOK, Returned
<1>5. mixed' \in [Listers -> BOOLEAN]
    BY Zenon DEF TypeOK, Returned
<1>6. QED
    BY <1>1, <1>2, <1>4, <1>5

(* The stream that is replied to, as long as its cookie can be trusted: it  *)
(* now has the names up to the last of the reply.                           *)
LEMMA ReplyAdvances ==
    ASSUME TypeOK, TypeOK', VerfInv, LastingInv, NEW l \in Listers,
           UNCHANGED <<cookies, dir, ver, lasting>>,
           NEW n \in Names \cup {0}, LastGot(l, n),
           off[l] = 0 \/ given[l] = ver,
           NEW P, P \subseteq Rest(off[l]), NEW m \in P,
           P = {x \in Rest(off[l]) : x <= m}, Returned(l, P, Cookie(m))
    PROVE  LastGot(l, m)'
<1>1. dir \subseteq Names /\ Names \subseteq Nat \ {0} /\ n \in Nat
    BY ListingAssumption DEF TypeOK
<1>2. \A e \in dir : e \in Rest(off[l]) <=> e > n
    BY RestFacts
<1>3. Rest(off[l]) \subseteq dir
    BY DEF Rest
<1>4. P \subseteq Names /\ m \in dir /\ m > n /\ m \in Nat \ {0}
    BY <1>1, <1>2, <1>3
<1>5. off'[l] = Cookie(m)
  <2>1. P \subseteq Names /\ P # {}
    BY <1>4
  <2>2. off'[l] = IF P = {} THEN off[l] ELSE Cookie(m)
    BY <2>1, ReturnedFacts
  <2>3. QED
    BY <2>1, <2>2
<1>6. Cookie(m)' = Cookie(m)
    BY DEF Cookie
<1>7. m # 0 /\ off'[l] # 0
  <2>1. Cookie(0) \in 0 .. 0 /\ (Cookie(m) > Cookie(0) <=> m > 0)
    BY <1>4, CookieFacts
  <2>2. QED
    BY <1>4, <1>5, <2>1
<1>8. ASSUME NEW e \in Names
      PROVE  /\ e \in P => got'[l][e] = 1
             /\ e \notin P => got'[l][e] = got[l][e]
             /\ e \in dir /\ n < e /\ e <= m => e \in P
             /\ e > m => e \notin P /\ e > n
  <2>1. e \in Nat
    BY <1>1
  <2>2. ASSUME e \in P PROVE got'[l][e] = 1
    <3>1. e \in dir /\ e > n
        BY <1>2, <1>3, <2>2
    <3>2. got[l][e] = 0
        BY <3>1 DEF LastGot
    <3>3. got'[l][e] = Again(got[l][e])
        BY <2>2, ReturnedGot
    <3>4. QED
        BY <3>2, <3>3 DEF Again
  <2>3. e \in dir /\ n < e /\ e <= m => e \in P
    BY <1>1, <1>2, <2>1
  <2>4. e > m => e \notin P /\ e > n
    BY <1>1, <1>4, <2>1
  <2>5. e \notin P => got'[l][e] = got[l][e]
    BY ReturnedGot
  <2>6. QED
    BY <2>2, <2>3, <2>4, <2>5
<1>9. \A e \in Names : got'[l][e] <= 1
  <2> SUFFICES ASSUME NEW e \in Names PROVE got'[l][e] <= 1
    OBVIOUS
  <2>1. got[l][e] <= 1
    BY SMTT(30) DEF LastGot
  <2>2. QED
    BY <1>8, <2>1
<1>10. \A e \in Names : e > m => got'[l][e] = 0
    BY <1>8 DEF LastGot
<1>11. ASSUME NEW e \in lasting[l], e <= m PROVE got'[l][e] = 1
  <2>1. e \in dir /\ e \in Names /\ e \in Nat
    BY <1>1 DEF LastingInv
  <2>2. CASE e <= n
    <3>1. got[l][e] = 1
        BY <2>2 DEF LastGot
    <3>2. QED
        BY <1>8, <2>1, <3>1
  <2>3. CASE n < e
    BY <1>8, <1>11, <2>1, <2>3
  <2>4. QED
    BY <1>1, <2>1, <2>2, <2>3
<1>12. QED
    BY <1>5, <1>6, <1>7, <1>9, <1>10, <1>11 DEF LastGot

LEMMA ReaddirKeeps ==
    ASSUME IInv, NEW l \in Listers, NEW size \in Sizes,
           hsx_fuse_readdir(l, size)
    PROVE  IInv'
<1> USE DEF IInv
<1>1. PICK A \in Answers(off[l]) : Reply(l, A, Packed[A][size])
    BY DEF hsx_fuse_readdir
<1> DEFINE P == Packed[A][size]
           m == Max(P \cup {0})
<1>2. UNCHANGED <<cookies, dir, ver, changes, lasting>> /\ cookieverf' = ver
    BY DEF hsx_fuse_readdir, __set_cookie_verf
<1>3. Returned(l, P, Cookie(m))
    BY <1>1 DEF Reply
<1>4. /\ P \subseteq Rest(off[l])
      /\ P = {} => Rest(off[l]) = {}
      /\ P # {} => m \in P /\ P = {x \in Rest(off[l]) : x <= m}
    BY ReplyFacts
<1> HIDE DEF P, m
<1>5. P \subseteq dir /\ dir \subseteq Names
    BY <1>4 DEF Rest, TypeOK
<1>6. m \in Names \cup {0}
  <2>1. P = {} => P \cup {0} = {0} /\ P \cup {0} \subseteq Names \cup {0}
    OBVIOUS
  <2>2. P = {} => m \in {0}
    BY <2>1, NamesFinite, MaxFacts DEF m
  <2>3. QED
    BY <1>4, <1>5, <2>2
<1>7. TypeOK'
  <2>1. Cookie(m) \in 0 .. Max(Names \cup {0})
    <3>1. m <= Max(Names \cup {0}) /\ Max(Names \cup {0}) \in Nat /\ m \in Nat
        BY <1>6, NamesFinite, MaxFacts
    <3>2. Cookie(m) \in 0 .. m
        BY <1>6, CookieFacts
    <3>3. QED
        BY <3>1, <3>2
  <2>2. cookieverf' \in {NoVerf} \cup (0 .. ver)
    BY <1>2 DEF TypeOK
  <2>3. /\ listing' \in
             [Listers -> {"closed", "open", "ended", "error", "eio"}]
        /\ off' \in [Listers -> 0 .. Max(Names \cup {0})]
        /\ got' \in [Listers -> [Names -> 0 .. 2]]
        /\ given' \in [Listers -> {NoVerf} \cup (0 .. ver)]
        /\ mixed' \in [Listers -> BOOLEAN]
    BY <1>3, <1>5, <2>1, ReturnedTypes
  <2>4. QED
    BY <1>2, <2>2, <2>3 DEF TypeOK
<1>8. \A k \in Listers : k # l =>
         /\ listing'[k] = listing[k] /\ off'[k] = off[k]
         /\ got'[k] = got[k] /\ given'[k] = given[k] /\ mixed'[k] = mixed[k]
    BY <1>3, <1>5, ReturnedFacts
<1>9. /\ listing'[l] = IF P = {} THEN "ended" ELSE "open"
      /\ given'[l] = ver
      /\ mixed'[l] <=> mixed[l] \/ (off[l] # 0 /\ given[l] # ver)
    BY <1>3, <1>5, ReturnedFacts
<1>10. ver # NoVerf
    BY DEF TypeOK, NoVerf
<1>11. LastingInv' /\ SharedInv'
    BY SMTT(30), <1>2 DEF LastingInv, SharedInv
<1>12. VerfInv'
    BY <1>2, <1>8, <1>9, <1>10 DEF VerfInv
<1>13. PositionInv'
  <2>1. ASSUME ~ mixed'[l], P # {}
        PROVE  \E n \in Names \cup {0} : LastGot(l, n)'
    <3>1. PICK n \in Names \cup {0} : LastGot(l, n)
        BY SMTT(30), <1>9, <2>1 DEF PositionInv
    <3>2. LastGot(l, m)'
        BY <1>2, <1>3, <1>4, <1>7, <1>9, <2>1, <3>1, ReplyAdvances
    <3>3. QED
        BY SMTT(30), <1>6, <3>2
  <2>2. ASSUME ~ mixed'[l], P = {}
        PROVE  \E n \in Names \cup {0} : LastGot(l, n)'
    <3>1. PICK n \in Names \cup {0} : LastGot(l, n)
        BY SMTT(30), <1>9, <2>2 DEF PositionInv
    <3>2. off[l] = Cookie(n) /\ Cookie(n)' = Cookie(n)
      <4>1. off[l] = 0 \/ given[l] = ver
        BY <1>9, <2>2
      <4>2. off[l] = Cookie(n)
        BY <3>1, <4>1, RestFacts
      <4>3. Cookie(n)' = Cookie(n)
        BY <1>2, CookieStays
      <4>4. QED
        BY <4>2, <4>3
    <3>3. off'[l] = off[l] /\ \A e \in Names : got'[l][e] = got[l][e]
      <4>1. off'[l] = off[l]
        BY SMTT(30), <1>3, <1>5, <2>2, ReturnedFacts
      <4>2. \A e \in Names : got'[l][e] = got[l][e]
        BY <1>3, <2>2, ReturnedGot
      <4>3. QED
        BY SMTT(30), <4>1, <4>2
    <3>4. lasting[l] \subseteq Names
        BY SMTT(30) DEF TypeOK
    <3>5. LastGot(l, n)'
        BY <1>2, <3>1, <3>2, <3>3, <3>4 DEF LastGot
    <3>6. QED
        BY SMTT(30), <3>5
  <2>3. ASSUME NEW k \in Listers, k # l, ~ mixed'[k]
        PROVE  \E n \in Names \cup {0} : LastGot(k, n)'
    <3>1. PICK n \in Names \cup {0} : LastGot(k, n)
        BY <1>8, <2>3 DEF PositionInv
    <3>2. LastGot(k, n)'
        BY SMTT(30), <1>2, <1>8, <2>3, <3>1, OtherStream
    <3>3. QED
        BY <3>2
  <2>4. QED
    BY <2>1, <2>2, <2>3 DEF PositionInv
<1>14. EndedInv'
  <2>1. ASSUME ~ mixed'[l], listing'[l] = "ended", NEW e \in lasting[l]
        PROVE  got'[l][e] = 1
    <3>1. P = {}
        BY <1>9, <2>1
    <3>2. PICK n \in Names \cup {0} : LastGot(l, n)
        BY <1>9, <2>1 DEF PositionInv
    <3>3. e \in dir /\ e \in Names
        BY SMTT(30), <1>5 DEF LastingInv
    <3>4. ~ (e > n)
        BY <1>4, <1>9, <2>1, <3>1, <3>2, <3>3, RestFacts
    <3>5. e \in Nat /\ n \in Nat
        BY <3>3, NamesFinite
    <3>6. got[l][e] = 1
        BY SMTT(30), <3>2, <3>4, <3>5 DEF LastGot
    <3>7. got'[l][e] = got[l][e]
        BY <1>3, <3>1, <3>3, ReturnedGot
    <3>8. QED
        BY SMTT(30), <3>6, <3>7
  <2>2. QED
    BY <1>2, <1>8, <2>1 DEF EndedInv
<1>15. QED
    BY <1>7, <1>11, <1>12, <1>13, <1>14

LEMMA StepKeeps == IInv /\ [Next]_vars => IInv'
<1> SUFFICES ASSUME IInv, [Next]_vars PROVE IInv'
    OBVIOUS
<1>1. ASSUME NEW l \in Listers, hsx_fuse_opendir(l) PROVE IInv'
    BY <1>1, OpendirKeeps
<1>2. ASSUME NEW l \in Listers, NEW size \in Sizes, hsx_fuse_readdir(l, size)
      PROVE  IInv'
    BY <1>2, ReaddirKeeps
<1>3. ASSUME NEW l \in Listers, readdir_bad_cookie(l) \/ readdir_error(l)
      PROVE  IInv'
    BY <1>3, FailureKeeps
<1>4. ASSUME NEW e \in Names, server_add(e) \/ server_remove(e) PROVE IInv'
    BY <1>4, ServerKeeps
<1>5. CASE UNCHANGED vars
  <2>1. /\ UNCHANGED <<cookies, dir, ver, changes, cookieverf, lasting>>
        /\ UNCHANGED <<listing, off, got, given, mixed>>
    BY <1>5 DEF vars, streamVars
  <2>2. TypeOK' /\ LastingInv' /\ VerfInv' /\ SharedInv' /\ EndedInv'
    BY <2>1 DEF IInv, TypeOK, LastingInv, VerfInv, SharedInv, EndedInv
  <2>3. PositionInv'
    <3> SUFFICES ASSUME NEW k \in Listers, ~ mixed'[k]
                 PROVE  \E n \in Names \cup {0} : LastGot(k, n)'
        BY DEF PositionInv
    <3>1. PICK n \in Names \cup {0} : LastGot(k, n)
        BY <2>1 DEF IInv, PositionInv
    <3>2. LastGot(k, n)'
        BY <2>1, <3>1, OtherStream
    <3>3. QED
        BY <3>2
  <2>4. QED
    BY <2>2, <2>3 DEF IInv
<1>6. QED
    BY <1>1, <1>2, <1>3, <1>4, <1>5 DEF Next, ReaddirStep

-----------------------------------------------------------------------------
(* The inductive invariant of the listings of a directory holds in every    *)
(* reachable state, for any streams, names, buffers and changes.            *)
THEOREM ListingInvariance == Spec => []IInv
<1>1. QED
    BY InitInv, StepKeeps, PTL DEF Spec

(* Cookies and verifiers that hsi_nfs3_readdir() keeps and the kernel sends *)
(* back are ones the server has given.                                      *)
THEOREM ListingTypeCorrect == Spec => []TypeOK
<1>1. IInv => TypeOK
    BY DEF IInv
<1>2. QED
    BY <1>1, ListingInvariance, PTL

(* A listing that hsx_fuse_readdir() served to its end has every name that  *)
(* was there throughout, once, unless a cookie of it went out with the      *)
(* verifier of another listing.                                             *)
THEOREM ListingsAreWhole == Spec => []ListingWhole
<1>1. ASSUME IInv, NEW l \in Listers, ~ mixed[l] PROVE Whole(l)
  <2>1. PICK n \in Names \cup {0} : LastGot(l, n)
    BY <1>1 DEF IInv, PositionInv
  <2>2. QED
    BY <1>1, <2>1 DEF IInv, EndedInv, LastGot, Whole
<1>2. IInv => ListingWhole
    BY <1>1 DEF ListingWhole
<1>3. QED
    BY <1>2, ListingInvariance, PTL

(* The server refuses a cookie that hsi_nfs3_readdir() sends only if the    *)
(* directory has changed since the listing got it.                          *)
THEOREM RefusalsMeanChange == Spec => RefusedOnlyIfChanged
<1> DEFINE Refused == \A l \in Listers :
             listing[l] = "open" /\ listing'[l] = "eio" => given[l] # ver
<1>1. IInv /\ [Next]_vars => [Refused]_vars
  <2> SUFFICES ASSUME IInv, Next, NEW l \in Listers,
                      listing[l] = "open", listing'[l] = "eio"
               PROVE  given[l] # ver
    OBVIOUS
  <2>1. readdir_bad_cookie(l)
    <3>1. ASSUME NEW k \in Listers, hsx_fuse_opendir(k) \/ readdir_error(k)
          PROVE  FALSE
        BY SMTT(30), <3>1 DEF hsx_fuse_opendir, readdir_error, IInv, TypeOK
    <3>2. ASSUME NEW k \in Listers, NEW size \in Sizes,
                 hsx_fuse_readdir(k, size)
          PROVE  FALSE
        BY <3>2 DEF hsx_fuse_readdir, Reply, Returned, IInv, TypeOK
    <3>3. ASSUME NEW k \in Listers, readdir_bad_cookie(k), k # l PROVE FALSE
        BY <3>3 DEF readdir_bad_cookie, IInv, TypeOK
    <3>4. ASSUME NEW e \in Names, server_add(e) \/ server_remove(e) PROVE FALSE
        BY <3>4 DEF server_add, server_remove, Changes, streamVars
    <3>5. QED
        BY <3>1, <3>2, <3>3, <3>4 DEF Next, ReaddirStep
  <2>2. cookieverf # ver
    BY <2>1 DEF readdir_bad_cookie, BadCookie
  <2>3. QED
    BY <2>2 DEF IInv, SharedInv
<1>2. QED
    BY <1>1, ListingInvariance, PTL DEF Spec, RefusedOnlyIfChanged

(* An empty reply of hsx_fuse_readdir() comes only when the directory has   *)
(* no entry after the cookie, whatever the buffer is.                       *)
THEOREM EmptyMeansEnd == Spec => EmptyOnlyAtEnd
<1> DEFINE AtEnd == \A l \in Listers :
             listing[l] = "open" /\ listing'[l] = "ended" => Rest(off[l]) = {}
<1>1. IInv /\ [Next]_vars => [AtEnd]_vars
  <2> SUFFICES ASSUME IInv, Next, NEW l \in Listers,
                      listing[l] = "open", listing'[l] = "ended"
               PROVE  Rest(off[l]) = {}
    OBVIOUS
  <2>1. ASSUME NEW k \in Listers, hsx_fuse_opendir(k) \/ readdir_error(k)
                                    \/ readdir_bad_cookie(k)
        PROVE  FALSE
    BY <2>1 DEF hsx_fuse_opendir, readdir_error, readdir_bad_cookie, IInv,
                TypeOK
  <2>2. ASSUME NEW e \in Names, server_add(e) \/ server_remove(e) PROVE FALSE
    BY <2>2 DEF server_add, server_remove, Changes, streamVars
  <2>3. ASSUME NEW k \in Listers, NEW size \in Sizes, hsx_fuse_readdir(k, size)
        PROVE  Rest(off[l]) = {}
    <3>1. PICK A \in Answers(off[k]) : Reply(k, A, Packed[A][size])
        BY <2>3 DEF hsx_fuse_readdir
    <3> DEFINE P == Packed[A][size]
               c == Cookie(Max(P \cup {0}))
    <3>2. P \subseteq Rest(off[k]) /\ (P = {} => Rest(off[k]) = {})
        BY ReplyFacts DEF IInv
    <3>3. TypeOK /\ P \subseteq Names /\ Returned(k, P, c)
        BY <3>1, <3>2 DEF IInv, TypeOK, Rest, Reply
    <3> HIDE DEF P, c
    <3>4. k = l /\ P = {}
        BY <3>3, ReturnedFacts
    <3>5. QED
        BY <3>2, <3>4
  <2>4. QED
    BY <2>1, <2>2, <2>3 DEF Next, ReaddirStep
<1>2. QED
    BY <1>1, ListingInvariance, PTL DEF Spec, EmptyOnlyAtEnd

-----------------------------------------------------------------------------
(* Every reply of hsx_fuse_readdir() ends the listing or moves its cookie   *)
(* forward, to at most the greatest name: also a listing that goes wrong    *)
(* goes round no circle.  This is the bound behind ListingEnds.             *)
RepliesAdvance ==
    [][\A l \in Listers, size \in Sizes :
         hsx_fuse_readdir(l, size) =>
           \/ listing'[l] = "ended"
           \/ off[l] < off'[l] /\ off'[l] <= Max(Names \cup {0})]_vars

(* hsx_fuse_readdir() never answers entries up to the cookie it was given.  *)
THEOREM ListingsAdvance == Spec => RepliesAdvance
<1> DEFINE Adv == \A l \in Listers, size \in Sizes :
             hsx_fuse_readdir(l, size) =>
               \/ listing'[l] = "ended"
               \/ off[l] < off'[l] /\ off'[l] <= Max(Names \cup {0})
<1>1. IInv /\ IInv' /\ [Next]_vars => [Adv]_vars
  <2> SUFFICES ASSUME IInv, IInv', NEW l \in Listers, NEW size \in Sizes,
                      hsx_fuse_readdir(l, size), listing'[l] # "ended"
               PROVE  off[l] < off'[l] /\ off'[l] <= Max(Names \cup {0})
    OBVIOUS
  <2>1. PICK A \in Answers(off[l]) : Reply(l, A, Packed[A][size])
    BY SMTT(30) DEF hsx_fuse_readdir
  <2> DEFINE P == Packed[A][size]
             m == Max(P \cup {0})
  <2>2. P \subseteq Rest(off[l]) /\ (P # {} => m \in P)
    BY SMTT(30), ReplyFacts DEF IInv
  <2>3. TypeOK /\ P \subseteq Names /\ Returned(l, P, Cookie(m))
    BY <2>1, <2>2 DEF IInv, TypeOK, Rest, Reply
  <2> HIDE DEF P, m
  <2>4. P # {} /\ off'[l] = Cookie(m)
    <3>1. /\ listing' =
               [listing EXCEPT ![l] = IF P = {} THEN "ended" ELSE "open"]
          /\ off' = [off EXCEPT ![l] = IF P = {} THEN @ ELSE Cookie(m)]
        BY <2>3 DEF Returned
    <3>2. listing'[l] = IF P = {} THEN "ended" ELSE "open"
        BY <2>3, <3>1 DEF TypeOK
    <3>3. P # {}
        BY SMTT(30), <3>2
    <3>4. QED
        BY <2>3, <3>1, <3>3 DEF TypeOK
  <2>5. Cookie(m) > off[l]
    BY <2>2, <2>4 DEF Rest
  <2>6. off'[l] \in 0 .. Max(Names \cup {0}) /\ off[l] \in Int
    <3> DEFINE M == Max(Names \cup {0})
    <3>1. off \in [Listers -> 0 .. M] /\ off' \in [Listers -> 0 .. M]
        BY DEF IInv, TypeOK
    <3> HIDE DEF M
    <3>2. off[l] \in 0 .. M /\ off'[l] \in 0 .. M
        BY <3>1
    <3>3. QED
        BY <3>2 DEF M
  <2>7. Max(Names \cup {0}) \in Nat
    BY NamesFinite, MaxFacts
  <2>8. QED
    BY <2>4, <2>5, <2>6, <2>7
<1>2. QED
    BY <1>1, ListingInvariance, PTL DEF Spec, RepliesAdvance

(* The exception of ListingWhole needs two things at once: cookies that go  *)
(* out of date, and a second listing.                                       *)
AllWhole == \A l \in Listers : Whole(l)

NeverMixed == \A l \in Listers : ~ mixed[l]

LEMMA MixedStep ==
    ASSUME IInv, [Next]_vars, NeverMixed, NEW l \in Listers, mixed'[l]
    PROVE  /\ off[l] # 0 /\ given[l] # ver
           /\ listing[l] = "open" /\ cookieverf = ver
<1>1. Next
    BY DEF vars, streamVars, NeverMixed
<1>2. ASSUME NEW k \in Listers, hsx_fuse_opendir(k) \/ readdir_error(k)
                                  \/ readdir_bad_cookie(k)
      PROVE  FALSE
    BY <1>2 DEF hsx_fuse_opendir, readdir_error, readdir_bad_cookie, IInv,
                TypeOK, NeverMixed
<1>3. ASSUME NEW e \in Names, server_add(e) \/ server_remove(e) PROVE FALSE
    BY <1>3 DEF server_add, server_remove, Changes, streamVars, NeverMixed
<1>4. ASSUME NEW k \in Listers, NEW size \in Sizes, hsx_fuse_readdir(k, size)
      PROVE  /\ off[l] # 0 /\ given[l] # ver
             /\ listing[l] = "open" /\ cookieverf = ver
  <2>1. mixed' = [mixed EXCEPT ![k] = @ \/ (off[k] # 0 /\ given[k] # ver)]
    BY <1>4 DEF hsx_fuse_readdir, Reply, Returned
  <2>2. k = l /\ off[l] # 0 /\ given[l] # ver
    BY <2>1 DEF NeverMixed, IInv, TypeOK
  <2>3. QED
    BY <1>4, <2>2 DEF hsx_fuse_readdir, BadCookie
<1>5. QED
    BY <1>1, <1>2, <1>3, <1>4 DEF Next, ReaddirStep

LEMMA WholeUnlessMixed == IInv /\ NeverMixed => AllWhole
<1> SUFFICES ASSUME IInv, NEW l \in Listers, ~ mixed[l] PROVE Whole(l)
    BY DEF NeverMixed, AllWhole
<1>1. PICK n \in Names \cup {0} : LastGot(l, n)
    BY DEF IInv, PositionInv
<1>2. QED
    BY <1>1 DEF IInv, EndedInv, LastGot, Whole

(* With a server whose cookies stay good, hsx_fuse_readdir() lists every    *)
(* lasting name once, however many listings share the verifier.             *)
THEOREM StableListingsWhole == Spec => [](cookies = "stable" => AllWhole)
<1> DEFINE Stable == cookies = "stable" => NeverMixed
<1>1. Init => Stable
    BY DEF Init, NeverMixed
<1>2. IInv /\ Stable /\ [Next]_vars => Stable'
  <2> SUFFICES ASSUME IInv, Stable, [Next]_vars, cookies' = "stable",
                      NEW l \in Listers, mixed'[l]
               PROVE  FALSE
    BY SMTT(30) DEF NeverMixed
  <2>1. cookies' = cookies
    BY DEF Next, ReaddirStep, hsx_fuse_opendir, hsx_fuse_readdir,
           readdir_bad_cookie, readdir_error, server_add, server_remove,
           Changes, vars
  <2>2. off[l] # 0 /\ given[l] # ver
    BY <2>1, MixedStep
  <2>3. given[l] # NoVerf /\ ver = 0
    BY <2>1, <2>2 DEF IInv, VerfInv
  <2>4. given[l] \in {NoVerf} \cup (0 .. 0)
    BY <2>3 DEF IInv, TypeOK
  <2>5. QED
    BY <2>2, <2>3, <2>4
<1>3. IInv /\ Stable => (cookies = "stable" => AllWhole)
    BY WholeUnlessMixed
<1>4. QED
    BY <1>1, <1>2, <1>3, ListingInvariance, PTL DEF Spec

(* A listing that is the only one of its directory gets every lasting name  *)
(* once from any server: the verifier that hsi_nfs3_readdir() keeps in the  *)
(* inode is then its own.                                                   *)
THEOREM LoneListingWhole ==
    ASSUME NEW l \in Listers, Listers = {l}
    PROVE  Spec => []AllWhole
<1> DEFINE Own == listing[l] = "open" /\ off[l] # 0 => cookieverf = given[l]
           Lone == NeverMixed /\ Own
<1>1. Init => Lone
    BY SMTT(30) DEF Init, NeverMixed
<1>2. IInv /\ Lone /\ [Next]_vars => Lone'
  <2> SUFFICES ASSUME IInv, Lone, [Next]_vars PROVE Lone'
    OBVIOUS
  <2>1. ASSUME NEW k \in Listers, mixed'[k] PROVE FALSE
    BY SMTT(30), <2>1, MixedStep
  <2>2. Own'
    <3>1. ASSUME hsx_fuse_opendir(l) \/ readdir_error(l)
                   \/ readdir_bad_cookie(l)
          PROVE  Own'
        BY SMTT(30), <3>1 DEF hsx_fuse_opendir, readdir_error,
                              readdir_bad_cookie, IInv, TypeOK
    <3>2. ASSUME NEW size \in Sizes, hsx_fuse_readdir(l, size) PROVE Own'
        BY SMTT(30), <3>2 DEF hsx_fuse_readdir, __set_cookie_verf, Reply,
                              Returned, IInv, TypeOK
    <3>3. ASSUME NEW e \in Names, server_add(e) \/ server_remove(e) PROVE Own'
        BY <3>3 DEF server_add, server_remove, Changes, streamVars
    <3>4. CASE UNCHANGED vars
        BY <3>4 DEF vars, streamVars
    <3>5. QED
        BY SMTT(30), <3>1, <3>2, <3>3, <3>4 DEF Next, ReaddirStep
  <2>3. QED
    BY <2>1, <2>2 DEF NeverMixed
<1>3. IInv /\ Lone => AllWhole
    BY WholeUnlessMixed
<1>4. QED
    BY <1>1, <1>2, <1>3, ListingInvariance, PTL DEF Spec

=============================================================================
