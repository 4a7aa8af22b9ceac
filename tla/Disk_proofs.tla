----------------------------- MODULE Disk_proofs -----------------------------
(***************************************************************************)
(* Theorems of the two components that rewrite what is on disk, which      *)
(* share nothing else: Subscription, then Updater, for any values of their *)
(* constants.                                                              *)
(*                                                                         *)
(* SubInv says at each step of a refresh which ids have rows, which are    *)
(* listed and which the refresh holds; RecInv, on top of it, how far the   *)
(* group has become what the subscription sent.  IInv says at each step of *)
(* the updater what the stage and the installation hold so far, that       *)
(* nobody saves a package while it runs, and which download the package on *)
(* disk belongs to.                                                        *)
(***************************************************************************)
EXTENDS Updater, Subscription, SequenceTheorems, FiniteSetTheorems,
        WellFoundedInduction, TLAPS

-----------------------------------------------------------------------------
(* Sequences: Upto, Nth, Only, At and PutBack. *)

\* A set of naturals has a least member, and one that holds 0 and with each number the next
\* holds them all: induction, with a set for the formula.
LEMMA LeastMember ==
    ASSUME NEW T, T \subseteq Nat, T # {}
    PROVE  \E m \in T : \A n \in T : ~ (n < m)
<1> DEFINE R == {ss \in Nat \X Nat : ss[1] < ss[2]}
<1>1. IsWellFoundedOn(R, Nat)
  BY NatLessThanWellFounded DEF OpToRel
<1> HIDE DEF R
<1>2. \E x \in T : \A y \in T : ~ (<<y, x>> \in R)
  BY <1>1, WFMin
<1> QED
  BY <1>2 DEF R

\* Induction over the naturals, with a set for the formula.
LEMMA SetInduction ==
    ASSUME NEW T, 0 \in T, \A n \in Nat : n \in T => n + 1 \in T
    PROVE  Nat \subseteq T
<1> DEFINE B == {n \in Nat : n \notin T}
<1> SUFFICES ASSUME B # {} PROVE FALSE
  OBVIOUS
<1> HIDE DEF B
<1>1. PICK m \in B : \A n \in B : ~ (n < m)
  BY LeastMember DEF B
<1>2. m \in Nat /\ m # 0
  BY DEF B
<1>3. m - 1 \in Nat /\ m - 1 < m /\ (m - 1) + 1 = m
  BY <1>2
<1>4. m - 1 \in T
  BY <1>1, <1>3 DEF B
<1> QED
  BY <1>3, <1>4, <1>1 DEF B

\* The first i places that hold a member of a set are at most i.
LEMMA UptoFinite ==
    ASSUME NEW s, NEW T, NEW i \in Nat
    PROVE  /\ IsFiniteSet({j \in 1 .. i : s[j] \in T})
           /\ Cardinality({j \in 1 .. i : s[j] \in T}) <= i
<1>1. IsFiniteSet(1 .. i) /\ Cardinality(1 .. i) = i
  BY FS_Interval
<1>2. {j \in 1 .. i : s[j] \in T} \in SUBSET (1 .. i)
  OBVIOUS
<1>3. /\ IsFiniteSet({j \in 1 .. i : s[j] \in T})
      /\ Cardinality({j \in 1 .. i : s[j] \in T}) <= i
  BY <1>1, <1>2, FS_Subset, Zenon
<1> QED
  BY <1>3

\* How many of the first i members are in a set is a number, at most i.
LEMMA UptoType ==
    ASSUME NEW s, NEW T, NEW i \in Nat
    PROVE  Upto(s, i, T) \in Nat /\ Upto(s, i, T) <= i
BY UptoFinite, FS_CardinalityType DEF Upto

\* None of the first no members is in it.
LEMMA UptoZero == ASSUME NEW s, NEW T PROVE Upto(s, 0, T) = 0
<1>1. 0 \in Nat
  OBVIOUS
<1>2. Upto(s, 0, T) \in Nat /\ Upto(s, 0, T) <= 0
  BY <1>1, UptoType
<1> QED
  BY <1>2

\* One member further there is one more, or as many.
LEMMA UptoStep ==
    ASSUME NEW s, NEW T, NEW i \in Nat
    PROVE  Upto(s, i + 1, T) = IF s[i + 1] \in T THEN Upto(s, i, T) + 1 ELSE Upto(s, i, T)
<1> DEFINE U == {j \in 1 .. i : s[j] \in T}
<1>0. IsFiniteSet(U)
  BY UptoFinite
<1>1. IsFiniteSet(U) /\ i + 1 \notin U
  BY <1>0
<1>2. Cardinality(U \cup {i + 1}) = Cardinality(U) + 1
  BY <1>1, FS_AddElement
<1>3. CASE s[i + 1] \in T
  <2>1. {j \in 1 .. (i + 1) : s[j] \in T} = U \cup {i + 1}
    BY <1>3
  <2> QED
    BY <1>3, <2>1, <1>2 DEF Upto
<1>4. CASE s[i + 1] \notin T
  <2>1. {j \in 1 .. (i + 1) : s[j] \in T} = U
    BY <1>4
  <2> QED
    BY <1>4, <2>1 DEF Upto
<1> QED
  BY <1>3, <1>4

\* Further on there are no fewer.
LEMMA UptoMono ==
    ASSUME NEW s, NEW T, NEW i \in Nat, NEW j \in Nat, i <= j
    PROVE  Upto(s, i, T) <= Upto(s, j, T)
<1>1. {k \in 1 .. i : s[k] \in T} \in SUBSET {k \in 1 .. j : s[k] \in T}
  OBVIOUS
<1>2. IsFiniteSet({k \in 1 .. j : s[k] \in T})
  BY UptoFinite
<1> QED
  BY <1>1, <1>2, FS_Subset DEF Upto

\* There are more where one was met on the way.
LEMMA UptoStrict ==
    ASSUME NEW s, NEW T, NEW i \in Nat, NEW j \in Nat, i < j, s[j] \in T
    PROVE  Upto(s, i, T) < Upto(s, j, T)
<1>1. j - 1 \in Nat /\ (j - 1) + 1 = j /\ i <= j - 1
  OBVIOUS
<1>2. Upto(s, j, T) = Upto(s, j - 1, T) + 1
  BY <1>1, UptoStep
<1>3. Upto(s, i, T) <= Upto(s, j - 1, T)
  BY <1>1, UptoMono
<1>4. Upto(s, i, T) \in Nat /\ Upto(s, j - 1, T) \in Nat
  BY <1>1, UptoType
<1> QED
  BY <1>2, <1>3, <1>4

\* Each number up to the count is reached at some place.
LEMMA NthExists ==
    ASSUME NEW s, NEW T, NEW m \in Nat, NEW n \in 1 .. Upto(s, m, T)
    PROVE  \E i \in 1 .. m : s[i] \in T /\ Upto(s, i, T) = n
<1> DEFINE B == {i \in 0 .. m : n <= Upto(s, i, T)}
<1>0. n \in Nat /\ n > 0
  BY UptoType
<1>1. B \subseteq Nat /\ m \in B
  BY UptoType
<1> HIDE DEF B
<1>2. PICK i \in B : \A k \in B : ~ (k < i)
  BY <1>1, LeastMember
<1>3. i \in 0 .. m /\ n <= Upto(s, i, T)
  BY DEF B
<1>4. i # 0
  BY <1>0, <1>3, UptoZero
<1>5. i - 1 \in Nat /\ (i - 1) + 1 = i /\ i - 1 < i /\ i - 1 \in 0 .. m
  BY <1>3, <1>4
<1>6. ~ (n <= Upto(s, i - 1, T))
  BY <1>2, <1>5 DEF B
<1>7. Upto(s, i, T) = IF s[i] \in T THEN Upto(s, i - 1, T) + 1 ELSE Upto(s, i - 1, T)
  BY <1>5, UptoStep
<1>8. Upto(s, i - 1, T) \in Nat
  BY <1>5, UptoType
<1>9. s[i] \in T /\ Upto(s, i, T) = n
  BY <1>0, <1>3, <1>6, <1>7, <1>8
<1> QED
  BY <1>3, <1>4, <1>9

\* Two places that hold members of the set have different counts.
LEMMA UptoUnique ==
    ASSUME NEW s, NEW T, NEW i \in Nat, NEW j \in Nat, s[i] \in T, s[j] \in T,
           Upto(s, i, T) = Upto(s, j, T)
    PROVE  i = j
<1>0. Upto(s, i, T) \in Nat
  BY UptoType
<1>1. ~ (i < j) /\ ~ (j < i)
  BY <1>0, UptoStrict
<1> QED
  BY <1>1

\* The position of the n-th member that is in T, and which member a position has.
LEMMA NthIs ==
    ASSUME NEW S, NEW s \in Seq(S), NEW T, NEW n \in 1 .. Upto(s, Len(s), T)
    PROVE  /\ Nth(s, T, n) \in 1 .. Len(s) /\ s[Nth(s, T, n)] \in T
           /\ Upto(s, Nth(s, T, n), T) = n
<1>1. Len(s) \in Nat /\ DOMAIN s = 1 .. Len(s)
  BY LenProperties
<1>2. \E i \in 1 .. Len(s) : s[i] \in T /\ Upto(s, i, T) = n
  BY <1>1, NthExists
<1> QED
  BY <1>1, <1>2, Zenon DEF Nth

\* A place that holds a member is the n-th, n being its count.
LEMMA NthOf ==
    ASSUME NEW S, NEW s \in Seq(S), NEW T, NEW i \in 1 .. Len(s), s[i] \in T
    PROVE  /\ Upto(s, i, T) \in 1 .. Upto(s, Len(s), T)
           /\ Nth(s, T, Upto(s, i, T)) = i
<1>1. Len(s) \in Nat /\ i \in Nat /\ i <= Len(s) /\ 0 < i
  BY LenProperties
<1>2. Upto(s, 0, T) < Upto(s, i, T)
  BY <1>1, UptoStrict
<1>3. Upto(s, i, T) <= Upto(s, Len(s), T)
  BY <1>1, UptoMono
<1>4. Upto(s, i, T) \in 1 .. Upto(s, Len(s), T)
  <2>1. Upto(s, i, T) \in Nat /\ Upto(s, Len(s), T) \in Nat /\ Upto(s, 0, T) = 0
    BY <1>1, UptoZero, UptoType
  <2> QED
    BY <1>2, <1>3, <2>1
<1> DEFINE k == Nth(s, T, Upto(s, i, T))
<1>5. k \in 1 .. Len(s) /\ s[k] \in T /\ Upto(s, k, T) = Upto(s, i, T)
  BY <1>4, NthIs
<1> HIDE DEF k
<1>6. k = i
  BY <1>1, <1>5, UptoUnique
<1> QED
  BY <1>4, <1>6 DEF k

\* What Only leaves is a sequence, as long as there are members asked for.
LEMMA OnlyIs ==
    ASSUME NEW S, NEW s \in Seq(S), NEW T
    PROVE  /\ Only(s, T) \in Seq(S) /\ Len(Only(s, T)) = Upto(s, Len(s), T)
           /\ \A n \in 1 .. Len(Only(s, T)) : Only(s, T)[n] = s[Nth(s, T, n)]
<1>1. Upto(s, Len(s), T) \in Nat /\ Len(s) \in Nat
  BY LenProperties, UptoType
<1>2. \A n \in 1 .. Upto(s, Len(s), T) : s[Nth(s, T, n)] \in S
  BY NthIs, ElementOfSeq
<1>3. Only(s, T) \in [1 .. Upto(s, Len(s), T) -> S]
  BY <1>2 DEF Only
<1> QED
  BY <1>1, <1>3 DEF Only

\* Only leaves the members asked for.
LEMMA OnlyRange ==
    ASSUME NEW S, NEW s \in Seq(S), NEW T
    PROVE  ToSet(Only(s, T)) = ToSet(s) \cap T
<1>1. DOMAIN s = 1 .. Len(s) /\ DOMAIN Only(s, T) = 1 .. Upto(s, Len(s), T)
  BY LenProperties DEF Only
<1>2. ASSUME NEW n \in 1 .. Upto(s, Len(s), T) PROVE Only(s, T)[n] \in ToSet(s) \cap T
  BY <1>1, NthIs DEF Only, ToSet
<1>3. ASSUME NEW i \in 1 .. Len(s), s[i] \in T PROVE s[i] \in ToSet(Only(s, T))
  <2>1. Only(s, T)[Upto(s, i, T)] = s[i]
    BY <1>3, NthOf DEF Only
  <2> QED
    BY <1>1, <1>3, <2>1, NthOf DEF ToSet
<1> QED
  BY <1>1, <1>2, <1>3 DEF ToSet

\* Nothing is named twice that was not before.
LEMMA OnlyInjective ==
    ASSUME NEW S, NEW s \in Seq(S), NEW T, IsInjective(s)
    PROVE  IsInjective(Only(s, T))
<1>1. DOMAIN s = 1 .. Len(s) /\ DOMAIN Only(s, T) = 1 .. Upto(s, Len(s), T)
  BY LenProperties DEF Only
<1>2. SUFFICES ASSUME NEW a \in 1 .. Upto(s, Len(s), T), NEW b \in 1 .. Upto(s, Len(s), T),
                      Only(s, T)[a] = Only(s, T)[b]
               PROVE  a = b
  BY <1>1 DEF IsInjective
<1>3. s[Nth(s, T, a)] = s[Nth(s, T, b)]
  BY <1>2 DEF Only
<1>4. Nth(s, T, a) = Nth(s, T, b)
  BY <1>1, <1>3, NthIs DEF IsInjective
<1> QED
  BY <1>4, NthIs

\* Without takes the ids out of a list.
LEMMA WithoutIs ==
    ASSUME NEW S, NEW s \in Seq(S), NEW ids
    PROVE  /\ Without(s, ids) \in Seq(S) /\ ToSet(Without(s, ids)) = ToSet(s) \ ids
           /\ IsInjective(s) => IsInjective(Without(s, ids))
BY OnlyIs, OnlyRange, OnlyInjective DEF Without

\* Where At puts an id, as a position of the sequence.
Spot(s, i) == IF i <= Len(s) THEN i ELSE Len(s) + 1

\* At puts one member in its place and moves the later ones on.
LEMMA AtIs ==
    ASSUME NEW S, NEW s \in Seq(S), NEW i \in Nat \ {0}, NEW e \in S
    PROVE  /\ Spot(s, i) \in 1 .. Len(s) + 1
           /\ At(s, i, e) \in Seq(S) /\ Len(At(s, i, e)) = Len(s) + 1
           /\ \A j \in 1 .. Len(s) + 1 :
                  At(s, i, e)[j] = IF j < Spot(s, i) THEN s[j]
                                   ELSE IF j = Spot(s, i) THEN e ELSE s[j - 1]
<1> DEFINE k == Spot(s, i)
<1>1. Len(s) \in Nat /\ k \in 1 .. Len(s) + 1
  BY LenProperties DEF Spot
<1>2. At(s, i, e) = SubSeq(s, 1, k - 1) \o <<e>> \o SubSeq(s, k, Len(s))
  BY DEF At, InsertAt, Spot
<1> HIDE DEF k
<1> DEFINE left == SubSeq(s, 1, k - 1)
           right == SubSeq(s, k, Len(s))
<1>3. /\ left \in Seq(S) /\ Len(left) = k - 1 /\ \A j \in 1 .. k - 1 : left[j] = s[j]
      /\ right \in Seq(S) /\ Len(right) = Len(s) - k + 1
      /\ \A j \in 1 .. Len(s) - k + 1 : right[j] = s[k + j - 1]
  <2>1. \A j \in 1 .. Len(s) : s[j] \in S
    BY ElementOfSeq
  <2>2. (k - 1) \in Int /\ k \in Int /\ 1 \in Int /\ Len(s) \in Int
    BY <1>1
  <2>3. (\A j \in 1 .. k - 1 : s[j] \in S) /\ (\A j \in k .. Len(s) : s[j] \in S)
    BY <1>1, <2>1
  <2>4. /\ left \in Seq(S) /\ Len(left) = IF 1 <= k - 1 THEN k - 1 - 1 + 1 ELSE 0
        /\ \A j \in 1 .. k - 1 - 1 + 1 : left[j] = s[1 + j - 1]
    BY <2>2, <2>3, SubSeqProperties
  <2>5. /\ right \in Seq(S) /\ Len(right) = IF k <= Len(s) THEN Len(s) - k + 1 ELSE 0
        /\ \A j \in 1 .. Len(s) - k + 1 : right[j] = s[k + j - 1]
    BY <2>2, <2>3, SubSeqProperties
  <2> QED
    BY <1>1, <2>4, <2>5
<1> HIDE DEF left, right
<1>4. <<e>> \in Seq(S) /\ Len(<<e>>) = 1 /\ <<e>>[1] = e
  OBVIOUS
<1>5. /\ left \o <<e>> \in Seq(S) /\ Len(left \o <<e>>) = k
      /\ \A j \in 1 .. k : (left \o <<e>>)[j] = IF j < k THEN s[j] ELSE e
  BY <1>1, <1>3, <1>4, ConcatProperties
<1> DEFINE front == left \o <<e>>
           all == front \o right
<1> HIDE DEF front
<1>6. /\ all \in Seq(S) /\ Len(all) = Len(s) + 1
      /\ \A j \in 1 .. Len(s) + 1 : all[j] = IF j <= k THEN front[j] ELSE right[j - k]
  <2>1. front \in Seq(S) /\ Len(front) = k
    BY <1>5 DEF front
  <2>2. k + (Len(s) - k + 1) = Len(s) + 1
    BY <1>1
  <2>3. /\ all \in Seq(S) /\ Len(all) = Len(front) + Len(right)
        /\ \A j \in 1 .. Len(front) + Len(right) :
               all[j] = IF j <= Len(front) THEN front[j] ELSE right[j - Len(front)]
    BY <1>3, <2>1, ConcatProperties
  <2>4. Len(front) + Len(right) = Len(s) + 1
    BY <1>3, <2>1, <2>2
  <2> HIDE DEF all
  <2> QED
    BY <2>1, <2>3, <2>4
<1>7. \A j \in 1 .. Len(s) + 1 : all[j] = IF j < k THEN s[j] ELSE IF j = k THEN e ELSE s[j - 1]
  <2>1. \A j \in 1 .. k : front[j] = IF j < k THEN s[j] ELSE e
    BY <1>5 DEF front
  <2>2. ASSUME NEW j \in 1 .. Len(s) + 1, ~ (j <= k) PROVE all[j] = s[j - 1]
    <3>1. j - k \in 1 .. Len(s) - k + 1 /\ k + (j - k) - 1 = j - 1
      BY <1>1, <2>2
    <3> QED
      BY <1>3, <1>6, <2>2, <3>1
  <2> HIDE DEF all
  <2>3. ASSUME NEW j \in 1 .. Len(s) + 1, j <= k PROVE all[j] = IF j < k THEN s[j] ELSE e
    BY <1>1, <1>6, <2>1, <2>3
  <2> QED
    BY <1>1, <2>2, <2>3
<1>8. At(s, i, e) = all
  BY <1>2 DEF left, right, front
<1> QED
  BY <1>1, <1>6, <1>7, <1>8 DEF k

\* At adds that member, and names none twice that is new.
LEMMA AtMembers ==
    ASSUME NEW S, NEW s \in Seq(S), NEW i \in Nat \ {0}, NEW e \in S
    PROVE  /\ ToSet(At(s, i, e)) = ToSet(s) \cup {e}
           /\ IsInjective(s) /\ e \notin ToSet(s) => IsInjective(At(s, i, e))
<1> DEFINE k == Spot(s, i)
           t == At(s, i, e)
<1>1. /\ Len(s) \in Nat /\ DOMAIN s = 1 .. Len(s) /\ k \in 1 .. Len(s) + 1
      /\ DOMAIN t = 1 .. Len(s) + 1
      /\ \A j \in 1 .. Len(s) + 1 : t[j] = IF j < k THEN s[j] ELSE IF j = k THEN e ELSE s[j - 1]
  <2>1. Len(s) \in Nat /\ DOMAIN s = 1 .. Len(s)
    BY LenProperties
  <2>2. k \in 1 .. Len(s) + 1 /\ t \in Seq(S) /\ Len(t) = Len(s) + 1
    <3>1. Spot(s, i) \in 1 .. Len(s) + 1
      BY AtIs
    <3>2. At(s, i, e) \in Seq(S)
      BY AtIs
    <3>3. Len(At(s, i, e)) = Len(s) + 1
      BY AtIs
    <3> QED
      BY <3>1, <3>2, <3>3
  <2>3. \A j \in 1 .. Len(s) + 1 : t[j] = IF j < k THEN s[j] ELSE IF j = k THEN e ELSE s[j - 1]
    BY AtIs
  <2> HIDE DEF k, t
  <2>4. DOMAIN t = 1 .. Len(t)
    BY <2>2, LenProperties
  <2> QED
    BY <2>1, <2>2, <2>3, <2>4
<1> HIDE DEF k, t
<1>2. ToSet(t) = ToSet(s) \cup {e}
  <2>1. ASSUME NEW j \in DOMAIN t PROVE t[j] \in ToSet(s) \cup {e}
    BY <1>1 DEF ToSet
  <2>2. ASSUME NEW j \in DOMAIN s PROVE s[j] \in ToSet(t)
    <3>1. CASE j < k
      BY <1>1, <3>1 DEF ToSet
    <3>2. CASE ~ (j < k)
      <4>1. j + 1 \in DOMAIN t /\ t[j + 1] = s[j]
        BY <1>1, <3>2
      <4> QED
        BY <4>1 DEF ToSet
    <3> QED
      BY <3>1, <3>2
  <2>3. e \in ToSet(t)
    BY <1>1 DEF ToSet
  <2> QED
    BY <2>1, <2>2, <2>3 DEF ToSet
<1>3. ASSUME IsInjective(s), e \notin ToSet(s), NEW a \in DOMAIN t, NEW b \in DOMAIN t, t[a] = t[b]
      PROVE  a = b
  <2>1. \A j \in DOMAIN s : s[j] # e
    BY <1>3 DEF ToSet
  <2>2. \A c, d \in DOMAIN s : s[c] = s[d] => c = d
    BY <1>3 DEF IsInjective
  <2>3. a \in 1 .. Len(s) + 1 /\ b \in 1 .. Len(s) + 1
    BY <1>1, <1>3
  <2>4. ASSUME NEW j \in 1 .. Len(s) + 1, j # k
        PROVE  /\ (IF j < k THEN j ELSE j - 1) \in DOMAIN s
               /\ t[j] = s[IF j < k THEN j ELSE j - 1]
    BY <1>1, <2>4
  <2>5. a = k <=> b = k
    <3>1. t[k] = e
      BY <1>1
    <3>2. \A j \in 1 .. Len(s) + 1 : j # k => t[j] # e
      BY <2>1, <2>4
    <3> QED
      BY <1>3, <2>3, <3>1, <3>2
  <2>6. CASE a # k
    <3>1. (IF a < k THEN a ELSE a - 1) = (IF b < k THEN b ELSE b - 1)
      BY <1>3, <2>2, <2>3, <2>4, <2>5, <2>6
    <3> QED
      BY <1>1, <2>3, <2>5, <2>6, <3>1
  <2> QED
    BY <2>5, <2>6
<1> QED
  BY <1>2, <1>3 DEF IsInjective, t

\* A function that is defined from its value before exists.
Moves(N, B) == [1 .. N -> [B -> B]]
Follows(f, N, B, b, G) ==
    f \in [0 .. N -> B] /\ f[0] = b /\ \A n \in 1 .. N : f[n] = G[n][f[n - 1]]

\* A recursive function over 0 .. N whose steps stay in a set exists.
LEMMA Recursion ==
    ASSUME NEW N \in Nat, NEW B, NEW b \in B, NEW G \in Moves(N, B)
    PROVE  \E f : Follows(f, N, B, b, G)
<1> USE DEF Moves
<1> DEFINE Upon(k, f) == f[0] = b /\ \A n \in 1 .. k : f[n] = G[n][f[n - 1]]
           T == {k \in Nat : k <= N => \E f \in [0 .. k -> B] : Upon(k, f)}
<1>1. 0 \in T
  <2>1. Upon(0, [n \in 0 .. 0 |-> b]) /\ [n \in 0 .. 0 |-> b] \in [0 .. 0 -> B]
    OBVIOUS
  <2> QED
    BY <2>1
<1>2. ASSUME NEW k \in Nat, k \in T, k + 1 <= N
      PROVE \E g \in [0 .. k + 1 -> B] : Upon(k + 1, g)
  <2>1. PICK f \in [0 .. k -> B] : Upon(k, f)
    BY <1>2
  <2> DEFINE g == [n \in 0 .. k + 1 |-> IF n = k + 1 THEN G[k + 1][f[k]] ELSE f[n]]
  <2>2. G[k + 1][f[k]] \in B
    <3>1. k + 1 \in 1 .. N /\ f[k] \in B
      BY <1>2
    <3> QED
      BY <3>1
  <2>3. g \in [0 .. k + 1 -> B]
    BY <2>2
  <2>4. g[0] = b
    BY <2>1
  <2>5. ASSUME NEW n \in 1 .. k + 1 PROVE g[n] = G[n][g[n - 1]]
    <3>1. n - 1 \in 0 .. k /\ g[n - 1] = f[n - 1]
      OBVIOUS
    <3>2. CASE n = k + 1
      <4>1. n - 1 = k /\ g[n] = G[k + 1][f[k]]
        BY <3>2
      <4> QED
        BY <3>1, <3>2, <4>1
    <3>3. CASE n # k + 1
      <4>1. n \in 1 .. k /\ g[n] = f[n]
        BY <3>3
      <4> QED
        BY <2>1, <3>1, <4>1
    <3> QED
      BY <3>2, <3>3
  <2> QED
    BY <2>3, <2>4, <2>5
<1> HIDE DEF Upon
<1>3. \A k \in Nat : k \in T => k + 1 \in T
  BY <1>2
<1> HIDE DEF T
<1>4. N \in T
  BY <1>1, <1>3, SetInduction
<1> QED
  BY <1>4 DEF T, Upon, Follows

Walk(f, S, s, at) ==
    /\ f \in [0 .. Len(at) -> Seq(S)] /\ f[0] = s /\ f[Len(at)] = PutBack(s, at)
    /\ \A n \in 1 .. Len(at) : f[n] = At(f[n - 1], at[n][1], at[n][2])

\* The steps of PutBack, one sequence for each.
LEMMA PutBackIs ==
    ASSUME NEW S, NEW s \in Seq(S), NEW at \in Seq((Nat \ {0}) \X S)
    PROVE  \E f : Walk(f, S, s, at)
<1> DEFINE N == Len(at)
           G == [n \in 1 .. N |-> [t \in Seq(S) |-> At(t, at[n][1], at[n][2])]]
           Is(f) == f = [n \in 0 .. N |-> IF n = 0 THEN s
                                          ELSE At(f[n - 1], at[n][1], at[n][2])]
<1>1. N \in Nat /\ \A n \in 1 .. N : at[n][1] \in Nat \ {0} /\ at[n][2] \in S
  BY LenProperties, ElementOfSeq
<1> HIDE DEF N
<1>2. G \in [1 .. N -> [Seq(S) -> Seq(S)]]
  BY <1>1, AtIs
<1>3. PICK f \in [0 .. N -> Seq(S)] : f[0] = s /\ \A n \in 1 .. N : f[n] = G[n][f[n - 1]]
  <2> DEFINE B == Seq(S)
  <2>1. s \in B /\ G \in Moves(N, B) /\ N \in Nat
    BY <1>1, <1>2 DEF Moves
  <2> HIDE DEF G, B
  <2>2. \E f : Follows(f, N, B, s, G)
    BY <2>1, Recursion
  <2> QED
    BY <2>2 DEF B, Follows
<1>4. \A n \in 1 .. N : n - 1 \in 0 .. N /\ f[n] = At(f[n - 1], at[n][1], at[n][2])
  <2> SUFFICES ASSUME NEW n \in 1 .. N
               PROVE  n - 1 \in 0 .. N /\ f[n] = At(f[n - 1], at[n][1], at[n][2])
    OBVIOUS
  <2>1. n - 1 \in 0 .. N
    BY <1>1
  <2>2. f[n - 1] \in Seq(S)
    BY <2>1
  <2>3. G[n][f[n - 1]] = At(f[n - 1], at[n][1], at[n][2])
    BY <2>2
  <2> QED
    BY <1>3, <2>1, <2>3
<1>5. Is(f)
  <2>1. \A n \in 0 .. N : f[n] = IF n = 0 THEN s ELSE At(f[n - 1], at[n][1], at[n][2])
    <3>1. \A n \in 0 .. N : n = 0 \/ n \in 1 .. N
      BY <1>1
    <3> QED
      BY <1>3, <1>4, <3>1
  <2> QED
    BY <2>1
<1> DEFINE h == CHOOSE g : Is(g)
<1>6. PutBack(s, at) = h[N]
  BY Zenon DEF PutBack, N
<1>7. Is(h)
  <2> HIDE DEF Is
  <2> QED
    BY <1>5
<1> HIDE DEF h
<1>8. h[0] = s /\ \A n \in 1 .. N : h[n] = At(h[n - 1], at[n][1], at[n][2])
  <2>1. 0 \in 0 .. N /\ \A n \in 1 .. N : n \in 0 .. N /\ n # 0
    BY <1>1
  <2>2. \A n \in 0 .. N : h[n] = IF n = 0 THEN s ELSE At(h[n - 1], at[n][1], at[n][2])
    BY <1>7, Zenon
  <2> QED
    BY <2>1, <2>2
<1>9. \A n \in 0 .. N : h[n] = f[n]
  <2> DEFINE T == {n \in Nat : n <= N => h[n] = f[n]}
  <2>1. 0 \in T
    BY <1>3, <1>8
  <2>2. ASSUME NEW n \in Nat, n \in T, n + 1 <= N PROVE h[n + 1] = f[n + 1]
    <3>1. n + 1 \in 1 .. N /\ (n + 1) - 1 = n /\ h[n] = f[n]
      BY <2>2, <1>1
    <3> QED
      BY <3>1, <1>4, <1>8
  <2>3. \A n \in Nat : n \in T => n + 1 \in T
    BY <2>2
  <2> HIDE DEF T
  <2>4. Nat \subseteq T
    BY <2>1, <2>3, SetInduction
  <2> QED
    BY <1>1, <2>4 DEF T
<1>10. f[N] = PutBack(s, at)
  BY <1>1, <1>6, <1>9
<1> QED
  BY <1>3, <1>4, <1>10 DEF N, Walk

Placed(at) == {at[n][2] : n \in DOMAIN at}

\* PutBack adds the ids it places, and names none twice that are new.
LEMMA PutBackMembers ==
    ASSUME NEW S, NEW s \in Seq(S), NEW at \in Seq((Nat \ {0}) \X S)
    PROVE  /\ PutBack(s, at) \in Seq(S)
           /\ ToSet(PutBack(s, at)) = ToSet(s) \cup Placed(at)
           /\ /\ IsInjective(s) /\ \A n \in DOMAIN at : at[n][2] \notin ToSet(s)
              /\ \A m, n \in DOMAIN at : at[m][2] = at[n][2] => m = n
              => IsInjective(PutBack(s, at))
<1>0. PICK f : Walk(f, S, s, at)
  BY PutBackIs
<1>1. /\ f \in [0 .. Len(at) -> Seq(S)] /\ f[0] = s /\ f[Len(at)] = PutBack(s, at)
      /\ \A n \in 1 .. Len(at) : f[n] = At(f[n - 1], at[n][1], at[n][2])
  BY <1>0 DEF Walk
<1>2. /\ Len(at) \in Nat /\ DOMAIN at = 1 .. Len(at)
      /\ \A n \in 1 .. Len(at) : at[n][1] \in Nat \ {0} /\ at[n][2] \in S
  BY LenProperties, ElementOfSeq
<1>3. ASSUME NEW n \in Nat, n + 1 <= Len(at)
      PROVE  /\ f[n] \in Seq(S) /\ at[n + 1][1] \in Nat \ {0} /\ at[n + 1][2] \in S
             /\ f[n + 1] = At(f[n], at[n + 1][1], at[n + 1][2])
  <2>1. n \in 0 .. Len(at) /\ n + 1 \in 1 .. Len(at) /\ (n + 1) - 1 = n
    BY <1>2, <1>3
  <2> QED
    BY <1>1, <1>2, <2>1
<1>4. ASSUME NEW n \in Nat, n + 1 <= Len(at)
      PROVE  /\ ToSet(f[n + 1]) = ToSet(f[n]) \cup {at[n + 1][2]}
             /\ IsInjective(f[n]) /\ at[n + 1][2] \notin ToSet(f[n]) => IsInjective(f[n + 1])
  <2> DEFINE g == f[n]
             i == at[n + 1][1]
             e == at[n + 1][2]
  <2>1. g \in Seq(S) /\ i \in Nat \ {0} /\ e \in S /\ f[n + 1] = At(g, i, e)
    BY <1>3, <1>4
  <2> HIDE DEF g, i, e
  <2>2. /\ ToSet(At(g, i, e)) = ToSet(g) \cup {e}
        /\ IsInjective(g) /\ e \notin ToSet(g) => IsInjective(At(g, i, e))
    BY <2>1, AtMembers
  <2> QED
    BY <2>1, <2>2 DEF g, i, e
<1> DEFINE Ids2(n) == {at[m][2] : m \in 1 .. n}
           Distinct == /\ IsInjective(s) /\ \A n \in DOMAIN at : at[n][2] \notin ToSet(s)
                       /\ \A m, n \in DOMAIN at : at[m][2] = at[n][2] => m = n
           T == {n \in Nat : n <= Len(at) => /\ ToSet(f[n]) = ToSet(s) \cup Ids2(n)
                                             /\ Distinct => IsInjective(f[n])}
<1>5. 0 \in T
  <2>1. Ids2(0) = {}
    OBVIOUS
  <2> QED
    BY <1>1, <2>1
<1>6. ASSUME NEW n \in Nat, n \in T, n + 1 <= Len(at)
      PROVE  ToSet(f[n + 1]) = ToSet(s) \cup Ids2(n + 1) /\ (Distinct => IsInjective(f[n + 1]))
  <2>0. n <= Len(at)
    BY <1>2, <1>6
  <2>1. ToSet(f[n]) = ToSet(s) \cup Ids2(n) /\ (Distinct => IsInjective(f[n]))
    <3> HIDE DEF Ids2, Distinct
    <3> QED
      BY <2>0, <1>6
  <2>2. Ids2(n + 1) = Ids2(n) \cup {at[n + 1][2]}
    OBVIOUS
  <2>3. ASSUME Distinct PROVE at[n + 1][2] \notin ToSet(s) \cup Ids2(n)
    <3>1. n + 1 \in DOMAIN at /\ \A m \in 1 .. n : m \in DOMAIN at /\ m # n + 1
      BY <1>2, <1>6
    <3> QED
      BY <2>3, <3>1
  <2> HIDE DEF Ids2, Distinct
  <2>4. ToSet(f[n + 1]) = ToSet(f[n]) \cup {at[n + 1][2]}
    BY <1>4, <1>6
  <2>5. IsInjective(f[n]) /\ at[n + 1][2] \notin ToSet(f[n]) => IsInjective(f[n + 1])
    BY <1>4, <1>6
  <2> QED
    BY <2>1, <2>2, <2>3, <2>4, <2>5
<1> HIDE DEF Ids2, Distinct
<1>7. \A n \in Nat : n \in T => n + 1 \in T
  <2> SUFFICES ASSUME NEW n \in Nat, n \in T PROVE n + 1 \in T
    OBVIOUS
  <2>1. n + 1 <= Len(at) => /\ ToSet(f[n + 1]) = ToSet(s) \cup Ids2(n + 1)
                            /\ Distinct => IsInjective(f[n + 1])
    <3> HIDE DEF T
    <3> QED
      BY <1>6
  <2> QED
    BY <2>1
<1> HIDE DEF T
<1>8. Len(at) \in T
  BY <1>2, <1>5, <1>7, SetInduction
<1>9. /\ ToSet(PutBack(s, at)) = ToSet(s) \cup Ids2(Len(at))
      /\ Distinct => IsInjective(PutBack(s, at))
  BY <1>1, <1>2, <1>8 DEF T
<1>10. PutBack(s, at) \in Seq(S)
  <2>1. Len(at) \in 0 .. Len(at)
    BY <1>2
  <2> QED
    BY <1>1, <2>1
<1> QED
  BY <1>2, <1>9, <1>10 DEF Ids2, Distinct, Placed

\* The values of the variables, and the refresh's locals.
RowValues == Servers \cup {Selector, NoRow}
Places == Nat \ {0}
Lists == Seq(Ids)
Docs == Seq(Servers)
Places2 == Seq(Places \X Ids)
Pasts == {<<>>} \cup [Ids -> RowValues]
Givens == Seq(Ids \cup {NoId})
Befores == {<<>>} \cup {<<l>> : l \in Lists}
Steps == {"idle", "clear", "unlist", "erase", "read", "insert", "update", "order", "keep", "done"}
Jobs == [doc : Docs, sticky : Places2, old : Lists, was : Pasts, cleared : BOOLEAN,
         entries : Givens, todo : SUBSET Ids, kept : SUBSET Ids, before : Befores]
SubTypes ==
    /\ rows \in [Ids -> RowValues] /\ list \in Lists /\ next \in 1 .. MaxId + 1
    /\ started \in Ids \cup {NoId} /\ setting \in [clear : BOOLEAN, stops : BOOLEAN]
    /\ step \in Steps /\ job \in Jobs
    /\ raced \in BOOLEAN /\ leaked \in BOOLEAN /\ edited \in BOOLEAN
    /\ budget \in [refresh : Nat, edit : Nat]

\* The ids with a row, those the group names, the selectors put aside, and those that
\* arrivals have so far.
Live == {id \in Ids : Alive(id)}
Listed == ToSet(list)
StickyIds == {s[2] : s \in ToSet(job.sticky)}
Given == ToSet(job.entries) \ {NoId}

\* A new id is new.
FreshInv ==
    \A id \in Live \cup Listed \cup StickyIds \cup Old \cup Given \cup job.todo \cup job.kept :
        id < next

\* Memory and disk agree on the list, which names nothing twice.
ListInv == saved = list /\ IsInjective(list)

\* The refresh gathers profiles; it empties the group in clear mode; it deletes what
\* is stale.
Building == {"insert", "update", "order"}
Clearing == step \in {"unlist", "erase"} /\ job.before = <<>>
Deleting == step \in {"unlist", "erase"} /\ job.before # <<>>

\* No step touches a selector, and a spared profile is not among the deleted.
StickyInv ==
    /\ \A m, n \in DOMAIN job.sticky : job.sticky[m][2] = job.sticky[n][2] => m = n
    /\ IsInjective(job.old) /\ Old \cap StickyIds = {}
    /\ Clearing => job.todo \cap StickyIds = {}
    /\ step = "erase" => job.todo \cap job.kept = {}
    /\ step \in {"clear", "read"} => job.before = <<>>
    /\ step = "keep" => job.before # <<>>

\* An arrival has the old profile it claimed, a new one of its own, or none so far.
EntryInv ==
    step \in Building =>
          /\ job.before = <<>>
          /\ DOMAIN job.entries = DOMAIN job.doc /\ job.was \in [Ids -> RowValues]
          /\ \A i \in DOMAIN job.entries :
                 \/ job.entries[i] = NoId
                 \/ job.entries[i] \in Old /\ job.was[job.entries[i]] = job.doc[i]
                 \/ job.entries[i] \notin Old \cup StickyIds
          /\ \A i, j \in DOMAIN job.entries :
                 job.entries[i] = job.entries[j] => job.entries[i] = NoId \/ i = j
          /\ step # "insert" => ~job.cleared /\ NoId \notin ToSet(job.entries)
          /\ job.cleared => job.old = <<>>

\* Rows come before places and go after them.
RowInv ==
    ~raced =>
        /\ Listed \subseteq Live
        /\ step \in {"clear", "read"} \/ Clearing => StickyIds \subseteq Live
        /\ step \in Building => StickyIds \cup Old \cup Given \subseteq Live
        /\ Clearing /\ step = "unlist" => job.todo \subseteq Listed
        /\ step = "erase" => job.todo \cap Listed = {}
        /\ Deleting /\ step = "unlist" => job.todo \subseteq Live /\ job.todo \cap Listed = {}
        /\ (Deleting /\ step = "erase") \/ step = "keep"
               => job.kept \subseteq Live /\ job.kept \cap Listed = {}

\* A row outside the list is one that the refresh is about to delete or to put back.
CoverInv ==
    ~raced /\ ~leaked =>
        /\ step \in Building /\ ~job.cleared => Listed \subseteq StickyIds \cup Old \cup Given
        /\ Live \subseteq Listed
               \cup (IF step \in {"unlist", "erase"} THEN job.todo ELSE {})
               \cup (IF step \in {"erase", "keep"} /\ job.before # <<>> THEN job.kept
                                                                        ELSE {})
SubInv == SubTypes /\ FreshInv /\ ListInv /\ StickyInv /\ EntryInv /\ RowInv /\ CoverInv

\* The members of a sequence over a set are of the set.
LEMMA SeqRange == ASSUME NEW S, NEW s \in Seq(S) PROVE ToSet(s) \subseteq S
BY ElementOfSeq, LenProperties DEF ToSet

\* The empty sequence has no member.
LEMMA EmptyList == ASSUME NEW S PROVE <<>> \in Seq(S) /\ ToSet(<<>>) = {} /\ IsInjective(<<>>)
BY DEF ToSet, IsInjective

\* The types of the locals of a refresh, one by one.
LEMMA JobTypes ==
    ASSUME SubTypes
    PROVE  /\ job.doc \in Docs /\ job.sticky \in Places2 /\ job.old \in Lists
           /\ job.was \in Pasts /\ job.cleared \in BOOLEAN /\ job.entries \in Givens
           /\ job.todo \subseteq Ids /\ job.kept \subseteq Ids /\ job.before \in Befores
BY DEF SubTypes, Jobs

\* All the ids a refresh holds are ids.
LEMMA JobSets ==
    ASSUME SubTypes
    PROVE  /\ Listed \subseteq Ids /\ Old \subseteq Ids
           /\ StickyIds \subseteq Ids /\ Given \subseteq Ids
<1>1. Listed \subseteq Ids /\ Old \subseteq Ids
  BY JobTypes, SeqRange DEF SubTypes, Lists, Listed, Old
<1>2. ToSet(job.sticky) \subseteq Places \X Ids
  BY JobTypes, SeqRange DEF Places2
<1>3. ToSet(job.entries) \subseteq Ids \cup {NoId}
  BY JobTypes, SeqRange DEF Givens
<1> QED
  BY <1>1, <1>2, <1>3 DEF StickyIds, Given

\* A refresh that is not there holds nothing.
LEMMA NoJobIs ==
    /\ NoJob \in Jobs /\ NoJob.doc = <<>> /\ NoJob.sticky = <<>> /\ NoJob.old = <<>>
    /\ NoJob.cleared = FALSE /\ NoJob.entries = <<>>
    /\ NoJob.todo = {} /\ NoJob.kept = {} /\ NoJob.before = <<>>
<1>1. /\ <<>> \in Docs
      /\ <<>> \in Places2
      /\ <<>> \in Lists
      /\ <<>> \in Pasts
      /\ <<>> \in Givens
      /\ <<>> \in Befores
  BY EmptyList DEF Docs, Places2, Lists, Pasts, Givens, Befores
<1> QED
  BY <1>1 DEF NoJob, Jobs

\* It holds no ids.
LEMMA NoJobSets ==
    ASSUME job = NoJob
    PROVE  Old = {} /\ StickyIds = {} /\ Given = {} /\ job.todo = {} /\ job.kept = {}
BY NoJobIs, EmptyList DEF Old, StickyIds, Given

\* Nothing of the invariant is left to show of the job once there is none.
Idle ==
    /\ SubTypes /\ job = NoJob /\ step = "idle" /\ ListInv
    /\ \A id \in Live \cup Listed : id < next
    /\ ~raced => Listed \subseteq Live
    /\ ~raced /\ ~leaked => Live \subseteq Listed

\* Between refreshes Idle is all of the invariant.
LEMMA IdleInv == Idle => SubInv
<1> SUFFICES ASSUME Idle PROVE SubInv
  OBVIOUS
<1> USE DEF Idle
<1>1. FreshInv
  BY NoJobSets DEF FreshInv
<1>2. StickyInv
  BY NoJobSets, NoJobIs, EmptyList DEF StickyInv, Clearing
<1>3. EntryInv
  BY DEF EntryInv, Building
<1>4. RowInv
  BY DEF RowInv, Building, Clearing, Deleting
<1>5. CoverInv
  BY DEF CoverInv, Building
<1> QED
  BY <1>1, <1>2, <1>3, <1>4, <1>5 DEF SubInv

\* SubInit establishes the invariant.
LEMMA InitSub == SubInit => SubInv
<1> SUFFICES ASSUME SubInit PROVE SubInv
  OBVIOUS
<1> USE SubscriptionAssumption
<1>1. PICK f \in [1 .. 3 -> Servers \cup {Selector}] :
           rows = [id \in Ids |-> IF id \in DOMAIN f THEN f[id] ELSE NoRow]
  BY DEF SubInit
<1>2. rows \in [Ids -> RowValues] /\ Live = 1 .. 3
  <2>1. 1 .. 3 \subseteq Ids
    BY DEF Ids
  <2>2. \A id \in Ids : rows[id] = IF id \in 1 .. 3 THEN f[id] ELSE NoRow
    BY <1>1
  <2>3. \A id \in 1 .. 3 : f[id] \in Servers \cup {Selector} /\ f[id] # NoRow
    OBVIOUS
  <2>4. \A id \in Ids : rows[id] \in RowValues
    BY <2>2, <2>3 DEF RowValues
  <2>5. rows \in [Ids -> RowValues]
    BY <1>1, <2>4
  <2> QED
    BY <2>1, <2>2, <2>3, <2>5 DEF Live, Alive
<1>3. list \in Lists /\ Listed = 1 .. 3 /\ IsInjective(list)
  <2>1. list = <<1, 2, 3>>
    BY DEF SubInit
  <2>2. 1 \in Ids /\ 2 \in Ids /\ 3 \in Ids
    BY DEF Ids
  <2> QED
    BY <2>1, <2>2 DEF Lists, Listed, ToSet, IsInjective
<1>4. SubTypes
  <2>1. next \in 1 .. MaxId + 1 /\ budget \in [refresh : Nat, edit : Nat]
    BY DEF SubInit
  <2>2. step \in Steps /\ job \in Jobs /\ started \in Ids \cup {NoId}
    BY NoJobIs DEF SubInit, Steps
  <2>3. raced \in BOOLEAN /\ leaked \in BOOLEAN /\ edited \in BOOLEAN
        /\ setting \in [clear : BOOLEAN, stops : BOOLEAN]
    BY Zenon DEF SubInit
  <2> QED
    BY <1>2, <1>3, <2>1, <2>2, <2>3 DEF SubTypes
<1>5. step = "idle" /\ job = NoJob /\ ListInv /\ next = 4
  BY <1>3 DEF SubInit, ListInv
<1> QED
  BY <1>2, <1>3, <1>4, <1>5, IdleInv DEF Idle

\* The ids of a set in ascending order are a list of the set.
LEMMA SetToListIs ==
    ASSUME NEW ids, ids \subseteq Ids
    PROVE  /\ SetToList(ids) \in Lists /\ ToSet(SetToList(ids)) = ids
           /\ IsInjective(SetToList(ids))
<1> DEFINE s == [id \in Ids |-> id]
<1>1. MaxId \in Nat
  BY SubscriptionAssumption
<1>2. s \in Seq(Ids) /\ IsInjective(s) /\ ToSet(s) = Ids
  <2>1. s \in [1 .. MaxId -> Ids]
    BY DEF Ids
  <2>2. DOMAIN s = Ids /\ \A id \in Ids : s[id] = id
    OBVIOUS
  <2> HIDE DEF s
  <2>3. s \in Seq(Ids)
    BY <1>1, <2>1
  <2> QED
    BY <2>2, <2>3 DEF IsInjective, ToSet
<1>3. SetToList(ids) = Only(s, ids)
  BY DEF SetToList
<1> HIDE DEF s
<1>4. /\ Only(s, ids) \in Seq(Ids) /\ ToSet(Only(s, ids)) = ToSet(s) \cap ids
      /\ IsInjective(Only(s, ids))
  BY <1>2, OnlyIs, OnlyRange, OnlyInjective
<1>5. ToSet(s) \cap ids = ids
  BY <1>2
<1> QED
  BY <1>3, <1>4, <1>5 DEF Lists

\* Sticky are the auto selectors of the list, each with its place.
LEMMA StickyIs ==
    ASSUME list \in Lists, IsInjective(list)
    PROVE  /\ Sticky \in Places2
           /\ {s[2] : s \in ToSet(Sticky)} = Listed \cap Having(Selector)
           /\ \A m, n \in DOMAIN Sticky : Sticky[m][2] = Sticky[n][2] => m = n
<1> DEFINE p == [i \in DOMAIN list |-> <<i, list[i]>>]
           T == (DOMAIN list) \X Having(Selector)
<1>1. Len(list) \in Nat /\ DOMAIN list = 1 .. Len(list) /\ \A i \in 1 .. Len(list) : list[i] \in Ids
  BY LenProperties, ElementOfSeq DEF Lists
<1>2. /\ DOMAIN p = 1 .. Len(list)
      /\ \A i \in 1 .. Len(list) : p[i] = <<i, list[i]>> /\ p[i] \in Places \X Ids
  BY <1>1 DEF Places
<1>3. p \in [1 .. Len(list) -> Places \X Ids]
  BY <1>1 DEF Places
<1> HIDE DEF p
<1>4. p \in Seq(Places \X Ids) /\ IsInjective(p)
  <2>1. p \in Seq(Places \X Ids)
    BY <1>1, <1>3
  <2>2. \A i, j \in DOMAIN p : p[i] = p[j] => i = j
    BY <1>2
  <2> QED
    BY <2>1, <2>2 DEF IsInjective
<1> HIDE DEF T
<1>5. /\ Only(p, T) \in Seq(Places \X Ids) /\ ToSet(Only(p, T)) = ToSet(p) \cap T
      /\ IsInjective(Only(p, T))
  BY <1>4, OnlyIs, OnlyRange, OnlyInjective
<1>6. Sticky = Only(p, T)
  BY DEF Sticky, p, T
<1>7. ToSet(Sticky) = ToSet(p) \cap T /\ Sticky \in Places2 /\ IsInjective(Sticky)
  BY <1>5, <1>6 DEF Places2
<1>8. \A s \in ToSet(p) : \E i \in 1 .. Len(list) : s = <<i, list[i]>>
  BY <1>2 DEF ToSet
<1>9. \A i \in 1 .. Len(list) : list[i] \in Having(Selector) => <<i, list[i]>> \in ToSet(p) \cap T
  BY <1>1, <1>2 DEF ToSet, T
<1>10. {s[2] : s \in ToSet(Sticky)} = Listed \cap Having(Selector)
  <2>1. \A s \in ToSet(p) \cap T : s[2] \in Listed \cap Having(Selector)
    BY <1>1, <1>8 DEF T, Listed, ToSet
  <2>2. \A id \in Listed \cap Having(Selector) : \E s \in ToSet(p) \cap T : s[2] = id
    <3> SUFFICES ASSUME NEW id \in Listed \cap Having(Selector)
                 PROVE  \E s \in ToSet(p) \cap T : s[2] = id
      OBVIOUS
    <3>1. PICK i \in 1 .. Len(list) : list[i] = id
      BY <1>1 DEF Listed, ToSet
    <3>2. <<i, list[i]>> \in ToSet(p) \cap T /\ <<i, list[i]>>[2] = id
      BY <1>9, <3>1
    <3> QED
      BY <3>2
  <2> QED
    BY <1>7, <2>1, <2>2
<1>11. ASSUME NEW m \in DOMAIN Sticky, NEW n \in DOMAIN Sticky, Sticky[m][2] = Sticky[n][2]
       PROVE  m = n
  <2>1. Sticky[m] \in ToSet(p) /\ Sticky[n] \in ToSet(p)
    <3>1. Sticky[m] \in ToSet(Sticky) /\ Sticky[n] \in ToSet(Sticky)
      BY <1>11 DEF ToSet
    <3> QED
      BY <3>1, <1>7
  <2>2. Sticky[m] = Sticky[n]
    <3>1. PICK i \in 1 .. Len(list) : Sticky[m] = <<i, list[i]>>
      BY <2>1, <1>8
    <3>2. PICK j \in 1 .. Len(list) : Sticky[n] = <<j, list[j]>>
      BY <2>1, <1>8
    <3>3. list[i] = list[j]
      BY <1>11, <3>1, <3>2
    <3>4. i = j
      BY <1>1, <3>3 DEF IsInjective
    <3> QED
      BY <3>1, <3>2, <3>4
  <2> QED
    BY <1>7, <2>2 DEF IsInjective
<1> QED
  BY <1>7, <1>10, <1>11

\* What the n-th of something claims is among the ids that have it, and no two claim the same.
LEMMA ClaimIs ==
    ASSUME rows \in [Ids -> RowValues], NEW doc \in Docs, NEW old \in Lists, IsInjective(old)
    PROVE  /\ \A i \in DOMAIN doc : Claim(doc, old, i) = NoId
                   \/ (Claim(doc, old, i) \in ToSet(old) /\ rows[Claim(doc, old, i)] = doc[i])
           /\ \A i, j \in DOMAIN doc : Claim(doc, old, i) = Claim(doc, old, j)
                   => Claim(doc, old, i) = NoId \/ i = j
<1> DEFINE Same(i) == Only(old, Having(doc[i]))
           N(i) == Upto(doc, i, {doc[i]})
<1>1. DOMAIN doc = 1 .. Len(doc) /\ Len(doc) \in Nat
  BY LenProperties DEF Docs
<1>2. ASSUME NEW i \in DOMAIN doc
      PROVE  /\ Same(i) \in Lists /\ ToSet(Same(i)) = ToSet(old) \cap Having(doc[i])
             /\ IsInjective(Same(i))
  BY OnlyIs, OnlyRange, OnlyInjective DEF Lists
<1>3. \A i \in DOMAIN doc : N(i) \in Nat \ {0}
  <2> SUFFICES ASSUME NEW i \in DOMAIN doc PROVE N(i) \in Nat \ {0}
    OBVIOUS
  <2>1. doc \in Seq(Servers) /\ i \in 1 .. Len(doc) /\ doc[i] \in {doc[i]}
    BY <1>1 DEF Docs
  <2> DEFINE T == {doc[i]}
  <2> HIDE DEF T
  <2>2. Upto(doc, i, T) \in 1 .. Upto(doc, Len(doc), T)
    BY <2>1, NthOf DEF T
  <2>3. Upto(doc, Len(doc), T) \in Nat
    BY <1>1, UptoType
  <2> QED
    BY <2>2, <2>3 DEF T
<1>4. ASSUME NEW i \in DOMAIN doc
      PROVE  Claim(doc, old, i) = IF N(i) <= Len(Same(i)) THEN Same(i)[N(i)] ELSE NoId
  BY DEF Claim
<1> HIDE DEF Same, N
<1>5. ASSUME NEW i \in DOMAIN doc, N(i) <= Len(Same(i))
      PROVE  /\ N(i) \in DOMAIN Same(i) /\ Claim(doc, old, i) = Same(i)[N(i)]
             /\ Claim(doc, old, i) \in ToSet(old) /\ rows[Claim(doc, old, i)] = doc[i]
  <2>1. N(i) \in DOMAIN Same(i)
    BY <1>2, <1>3, <1>5, LenProperties DEF Lists
  <2>2. Same(i)[N(i)] \in ToSet(Same(i))
    BY <2>1 DEF ToSet
  <2>3. Same(i)[N(i)] \in ToSet(old) /\ rows[Same(i)[N(i)]] = doc[i]
    BY <1>2, <2>2 DEF Having
  <2> QED
    BY <1>4, <1>5, <2>1, <2>3
<1>6. ASSUME NEW i \in DOMAIN doc, NEW j \in DOMAIN doc,
             Claim(doc, old, i) = Claim(doc, old, j), Claim(doc, old, i) # NoId
      PROVE  i = j
  <2>1. N(i) <= Len(Same(i)) /\ N(j) <= Len(Same(j))
    BY <1>4, <1>6
  <2>2. doc[i] = doc[j]
    BY <1>5, <1>6, <2>1
  <2>3. Same(i) = Same(j)
    BY <2>2 DEF Same
  <2>4. N(i) = N(j)
    BY <1>2, <1>5, <1>6, <2>1, <2>3 DEF IsInjective
  <2> DEFINE T == {doc[i]}
  <2>5. doc[i] \in T /\ doc[j] \in T /\ Upto(doc, i, T) = Upto(doc, j, T)
    BY <2>2, <2>4 DEF N
  <2> HIDE DEF T
  <2>6. i \in Nat /\ j \in Nat
    BY <1>1
  <2> QED
    BY <2>5, <2>6, UptoUnique
<1>7. ASSUME NEW i \in DOMAIN doc, Claim(doc, old, i) # NoId
      PROVE  Claim(doc, old, i) \in ToSet(old) /\ rows[Claim(doc, old, i)] = doc[i]
  <2>1. N(i) <= Len(Same(i))
    BY <1>4, <1>7
  <2> QED
    BY <1>5, <2>1
<1>8. \A i \in DOMAIN doc : Claim(doc, old, i) = NoId
          \/ (Claim(doc, old, i) \in ToSet(old) /\ rows[Claim(doc, old, i)] = doc[i])
  BY <1>7
<1>9. \A i, j \in DOMAIN doc : Claim(doc, old, i) = Claim(doc, old, j)
          => Claim(doc, old, i) = NoId \/ i = j
  BY <1>6, Zenon
<1> QED
  BY <1>8, <1>9

\* An arrival stands for an old profile whose content did not arrive, of the same identity,
\* and no two arrivals for the same.
LEMMA SupersededIs ==
    ASSUME job.doc \in Docs, job.old \in Lists, IsInjective(job.old)
    PROVE  /\ \A i \in DOMAIN job.doc : Superseded(i) = NoId
                   \/ (Superseded(i) \in Old /\ job.was[Superseded(i)] \notin ToSet(job.doc))
           /\ \A i, j \in DOMAIN job.doc : Superseded(i) = Superseded(j)
                   => Superseded(i) = NoId \/ i = j
<1> DEFINE h(i) == Host[job.doc[i]]
           T(x) == {c \in Servers \ Known : Host[c] = x}
           N(i) == Upto(job.doc, i, T(h(i)))
<1>1. /\ DOMAIN job.doc = 1 .. Len(job.doc) /\ Len(job.doc) \in Nat
      /\ \A i \in DOMAIN job.doc : job.doc[i] \in Servers
  BY LenProperties, ElementOfSeq DEF Docs
<1>2. ASSUME NEW x
      PROVE  /\ Leftover(x) \in Lists /\ IsInjective(Leftover(x))
             /\ \A id \in ToSet(Leftover(x)) :
                    /\ id \in Old /\ job.was[id] \in Servers \ ToSet(job.doc)
                    /\ Host[job.was[id]] = x
  <2> DEFINE U == {id \in Old : job.was[id] \in Servers \ ToSet(job.doc) /\ Host[job.was[id]] = x}
  <2>1. Leftover(x) = Only(job.old, U)
    BY DEF Leftover
  <2> HIDE DEF U
  <2>2. /\ Only(job.old, U) \in Lists /\ IsInjective(Only(job.old, U))
        /\ ToSet(Only(job.old, U)) = ToSet(job.old) \cap U
    BY OnlyIs, OnlyRange, OnlyInjective DEF Lists
  <2> QED
    BY <2>1, <2>2 DEF U
<1>3. ASSUME NEW i \in DOMAIN job.doc
      PROVE  Superseded(i) = IF job.doc[i] \notin Known /\ N(i) <= Len(Leftover(h(i)))
                             THEN Leftover(h(i))[N(i)] ELSE NoId
  BY DEF Superseded
<1>4. ASSUME NEW i \in DOMAIN job.doc, job.doc[i] \notin Known PROVE N(i) \in Nat \ {0}
  <2>1. job.doc \in Seq(Servers) /\ i \in 1 .. Len(job.doc) /\ job.doc[i] \in T(h(i))
    BY <1>1, <1>4 DEF Docs
  <2> HIDE DEF T, h
  <2>2. N(i) \in 1 .. Upto(job.doc, Len(job.doc), T(h(i)))
    BY <2>1, NthOf
  <2>3. Upto(job.doc, Len(job.doc), T(h(i))) \in Nat
    BY <1>1, UptoType
  <2> QED
    BY <2>2, <2>3
<1> HIDE DEF N, h, T
<1>5. ASSUME NEW i \in DOMAIN job.doc, job.doc[i] \notin Known, N(i) <= Len(Leftover(h(i)))
      PROVE  /\ N(i) \in DOMAIN Leftover(h(i)) /\ Superseded(i) = Leftover(h(i))[N(i)]
             /\ Superseded(i) \in Old /\ job.was[Superseded(i)] \notin ToSet(job.doc)
             /\ Host[job.was[Superseded(i)]] = h(i)
  <2>1. N(i) \in DOMAIN Leftover(h(i))
    BY <1>2, <1>4, <1>5, LenProperties DEF Lists
  <2>2. Leftover(h(i))[N(i)] \in ToSet(Leftover(h(i)))
    BY <2>1 DEF ToSet
  <2> QED
    BY <1>2, <1>3, <1>5, <2>1, <2>2
<1>6. ASSUME NEW i \in DOMAIN job.doc, NEW j \in DOMAIN job.doc,
             Superseded(i) = Superseded(j), Superseded(i) # NoId
      PROVE  i = j
  <2>1. /\ job.doc[i] \notin Known /\ N(i) <= Len(Leftover(h(i)))
        /\ job.doc[j] \notin Known /\ N(j) <= Len(Leftover(h(j)))
    BY <1>3, <1>6
  <2>2. h(i) = h(j)
    BY <1>5, <1>6, <2>1
  <2>3. N(i) = N(j)
    BY <1>2, <1>5, <1>6, <2>1, <2>2 DEF IsInjective
  <2>4. job.doc[i] \in T(h(i)) /\ job.doc[j] \in T(h(i))
    BY <1>1, <2>1, <2>2 DEF T, h
  <2>5. Upto(job.doc, i, T(h(i))) = Upto(job.doc, j, T(h(i))) /\ i \in Nat /\ j \in Nat
    BY <1>1, <2>2, <2>3 DEF N
  <2> QED
    BY <2>4, <2>5, UptoUnique
<1>7. ASSUME NEW i \in DOMAIN job.doc, Superseded(i) # NoId
      PROVE  Superseded(i) \in Old /\ job.was[Superseded(i)] \notin ToSet(job.doc)
  <2>1. job.doc[i] \notin Known /\ N(i) <= Len(Leftover(h(i)))
    BY <1>3, <1>7
  <2> QED
    BY <1>5, <2>1
<1>8. \A i \in DOMAIN job.doc : Superseded(i) = NoId
          \/ (Superseded(i) \in Old /\ job.was[Superseded(i)] \notin ToSet(job.doc))
  BY <1>7
<1>9. \A i, j \in DOMAIN job.doc : Superseded(i) = Superseded(j)
          => Superseded(i) = NoId \/ i = j
  BY <1>6, Zenon
<1> QED
  BY <1>8, <1>9

\* What a step leaves of the job, as a step that does not touch it keeps it.
LEMMA SameJob ==
    ASSUME UNCHANGED job
    PROVE  UNCHANGED <<StickyIds, Old, Given>>
BY DEF StickyIds, Old, Given

\* Fetch preserves the invariant.
LEMMA FetchStep == SubInv /\ Fetch => SubInv'
<1> SUFFICES ASSUME SubInv, Fetch PROVE SubInv'
  OBVIOUS
<1>0. SubTypes /\ FreshInv /\ ListInv /\ RowInv /\ CoverInv /\ step = "idle"
  BY DEF SubInv, Fetch
<1>1. PICK n \in 0 .. MaxDoc : \E doc \in [1 .. n -> Servers] :
           job' = [NoJob EXCEPT !.doc = doc, !.sticky = Sticky]
  BY DEF Fetch
<1> PICK doc \in [1 .. n -> Servers] : job' = [NoJob EXCEPT !.doc = doc, !.sticky = Sticky]
  BY <1>1
<1>2. list \in Lists /\ IsInjective(list) /\ Listed \subseteq Ids
  BY <1>0, JobSets DEF ListInv, SubTypes
<1>3. /\ Sticky \in Places2
      /\ {s[2] : s \in ToSet(Sticky)} = Listed \cap Having(Selector)
      /\ \A k, m \in DOMAIN Sticky : Sticky[k][2] = Sticky[m][2] => k = m
  BY <1>2, StickyIs
<1>4. doc \in Docs
  BY SubscriptionAssumption DEF Docs
<1>5. /\ job'.doc = doc /\ job'.sticky = Sticky /\ job'.old = <<>> /\ job'.entries = <<>>
      /\ job'.todo = {} /\ job'.kept = {} /\ job'.before = <<>>
  BY NoJobIs DEF NoJob
<1>6. job' \in Jobs
  BY <1>3, <1>4, NoJobIs DEF Jobs
<1>7. step' \in {"clear", "read"}
  BY DEF Fetch
<1>8. UNCHANGED <<rows, list, saved, next, started, setting, raced, leaked, Live, Listed>>
  BY DEF Fetch, Live, Alive, Listed
<1>9. /\ Old' = {} /\ StickyIds' = Listed \cap Having(Selector) /\ Given' = {}
      /\ StickyIds' \subseteq Live
  <2>1. Old' = {} /\ Given' = {} /\ StickyIds' = Listed \cap Having(Selector)
    BY <1>3, <1>5, EmptyList DEF Old, Given, StickyIds
  <2>2. Having(Selector) \subseteq Live
    BY SubscriptionAssumption DEF Having, Live, Alive
  <2> QED
    BY <2>1, <2>2
<1>10. SubTypes'
  <2>1. budget' \in [refresh : Nat, edit : Nat]
    BY <1>0 DEF Fetch, SubTypes
  <2>2. edited' \in BOOLEAN
    BY DEF Fetch
  <2> QED
    BY <1>0, <1>6, <1>7, <1>8, <2>1, <2>2 DEF SubTypes, Steps
<1>11. FreshInv'
  BY <1>0, <1>5, <1>8, <1>9 DEF FreshInv
<1>12. ListInv'
  BY <1>0, <1>8 DEF ListInv
<1>13. StickyInv'
  <2>1. IsInjective(job'.old)
    BY <1>5, EmptyList
  <2> QED
    BY <1>3, <1>5, <1>7, <1>9, <2>1 DEF StickyInv, Clearing
<1>14. EntryInv'
  BY <1>7 DEF EntryInv, Building
<1>15. RowInv'
  BY <1>0, <1>5, <1>7, <1>8, <1>9 DEF RowInv, Building, Clearing, Deleting
<1>16. CoverInv'
  BY <1>0, <1>5, <1>7, <1>8, <1>9 DEF CoverInv, Building
<1> QED
  BY <1>10, <1>11, <1>12, <1>13, <1>14, <1>15, <1>16 DEF SubInv

\* Members are the listed ids but for the selectors.
LEMMA MembersIs ==
    ASSUME SubTypes, IsInjective(list)
    PROVE  Members \in Lists /\ ToSet(Members) = Listed \ StickyIds /\ IsInjective(Members)
BY WithoutIs DEF SubTypes, Lists, Members, Listed, StickyIds

\* Clear preserves the invariant.
LEMMA ClearStep == SubInv /\ Clear => SubInv'
<1> SUFFICES ASSUME SubInv, Clear PROVE SubInv'
  OBVIOUS
<1>0. /\ /\ SubTypes
      /\ FreshInv
      /\ ListInv
      /\ StickyInv
      /\ RowInv
      /\ CoverInv
      /\ step = "clear"
      /\ step' = "unlist" /\ job.before = <<>>
  BY DEF SubInv, Clear, StickyInv
<1>1. /\ /\ job' \in Jobs
      /\ job'.doc = job.doc
      /\ job'.sticky = job.sticky
      /\ job'.old = job.old
      /\ job'.entries = job.entries /\ job'.kept = job.kept /\ job'.before = job.before
      /\ job'.todo = Listed \ StickyIds
  BY <1>0, MembersIs, JobSets DEF Clear, SubTypes, Jobs, ListInv
<1>2. UNCHANGED <<rows, list, saved, next, started, user, Live, Listed, StickyIds, Old, Given>>
  BY <1>1 DEF Clear, Live, Alive, Listed, StickyIds, Old, Given
<1>3. SubTypes'
  BY <1>0, <1>1, <1>2 DEF SubTypes, Steps, user
<1>4. FreshInv' /\ ListInv'
  BY <1>0, <1>1, <1>2 DEF FreshInv, ListInv
<1>5. StickyInv'
  BY <1>0, <1>1, <1>2 DEF StickyInv, Clearing
<1>6. EntryInv'
  BY <1>0 DEF EntryInv, Building
<1>7. RowInv'
  BY <1>0, <1>1, <1>2 DEF RowInv, Building, Clearing, Deleting, user
<1>8. CoverInv'
  BY <1>0, <1>1, <1>2 DEF CoverInv, Building, user
<1> QED
  BY <1>3, <1>4, <1>5, <1>6, <1>7, <1>8 DEF SubInv

\* Ids leave the list, unless none of them has a row.
LEMMA UnlistedIs ==
    ASSUME SubTypes, ListInv, NEW ids, Unlisted(ids)
    PROVE  /\ list' \in Lists /\ ListInv'
           /\ Listed' \subseteq Listed /\ Listed \ ids \subseteq Listed'
           /\ (~ \E id \in ids : Alive(id)) \/ Listed' = Listed \ ids
<1>1. CASE \E id \in ids : Alive(id)
  <2>1. list' = Without(list, ids) /\ saved' = list'
    BY <1>1 DEF Unlisted
  <2>2. list \in Seq(Ids) /\ IsInjective(list)
    BY DEF SubTypes, Lists, ListInv
  <2>3. /\ Without(list, ids) \in Seq(Ids) /\ ToSet(Without(list, ids)) = ToSet(list) \ ids
        /\ IsInjective(Without(list, ids))
    BY <2>2, WithoutIs
  <2> QED
    BY <2>1, <2>3 DEF Lists, ListInv, Listed
<1>2. CASE ~ \E id \in ids : Alive(id)
  BY <1>2 DEF Unlisted, SubTypes, ListInv, Listed
<1> QED
  BY <1>1, <1>2

\* Unlist preserves the invariant: what it unlists keeps its row until Erase.
LEMMA UnlistStep == SubInv /\ Unlist => SubInv'
<1> SUFFICES ASSUME SubInv, Unlist PROVE SubInv'
  OBVIOUS
<1>0. /\ /\ SubTypes
      /\ FreshInv
      /\ ListInv
      /\ StickyInv
      /\ RowInv
      /\ CoverInv
      /\ step = "unlist"
      /\ step' = "erase" /\ Unlisted(job.todo \ Spared)
  BY DEF SubInv, Unlist
<1>1. Spared \subseteq job.todo /\ job.todo \subseteq Ids
  BY <1>0, JobTypes DEF Spared
<1>2. /\ /\ job' \in Jobs
      /\ job'.doc = job.doc
      /\ job'.sticky = job.sticky
      /\ job'.old = job.old
      /\ job'.entries = job.entries /\ job'.before = job.before
      /\ job'.todo = job.todo \ Spared /\ job'.kept = Spared
  <2>1. job' = [job EXCEPT !.todo = @ \ Spared, !.kept = Spared]
    BY DEF Unlist
  <2> HIDE DEF Spared
  <2> QED
    BY <1>0, <1>1, <2>1 DEF SubTypes, Jobs
<1>3. UNCHANGED <<rows, next, started, user, Live, StickyIds, Old, Given>>
  BY <1>2 DEF Unlist, Live, Alive, StickyIds, Old, Given
<1>4. /\ list' \in Lists /\ ListInv' /\ Listed' \subseteq Listed
      /\ Listed \ (job.todo \ Spared) \subseteq Listed'
      /\ (~ \E id \in job.todo \ Spared : Alive(id)) \/ Listed' = Listed \ (job.todo \ Spared)
  BY <1>0, UnlistedIs
<1>5. ~raced => job'.todo \cap Listed' = {}
  <2> SUFFICES ASSUME ~raced PROVE job'.todo \cap Listed' = {}
    OBVIOUS
  <2>1. Listed \subseteq Live
    BY <1>0 DEF RowInv
  <2>2. CASE ~ \E id \in job.todo \ Spared : Alive(id)
    BY <1>2, <1>4, <2>1, <2>2 DEF Live
  <2> QED
    BY <1>2, <1>4, <2>2
<1>6. SubTypes'
  BY <1>0, <1>2, <1>3, <1>4 DEF SubTypes, Steps, user
<1>7. FreshInv'
  BY <1>0, <1>1, <1>2, <1>3, <1>4 DEF FreshInv
<1>8. StickyInv'
  BY <1>0, <1>1, <1>2, <1>3 DEF StickyInv, Clearing
<1>9. EntryInv'
  BY <1>0 DEF EntryInv, Building
<1>10. RowInv'
  BY <1>0, <1>1, <1>2, <1>3, <1>4, <1>5 DEF RowInv, Building, Clearing, Deleting, user
<1>11. CoverInv'
  <2>1. ASSUME ~raced, job.before = <<>> PROVE job.todo \subseteq Listed
    BY <1>0, <2>1 DEF RowInv, Clearing
  <2> QED
    BY <1>0, <1>1, <1>2, <1>3, <1>4, <2>1 DEF CoverInv, Building, user
<1> QED
  BY <1>4, <1>6, <1>7, <1>8, <1>9, <1>10, <1>11 DEF SubInv

\* Erase preserves the invariant: it deletes no row of a listed id.
LEMMA EraseStep == SubInv /\ Erase => SubInv'
<1> SUFFICES ASSUME SubInv, Erase PROVE SubInv'
  OBVIOUS
<1>0. /\ /\ SubTypes
      /\ FreshInv
      /\ ListInv
      /\ StickyInv
      /\ RowInv
      /\ CoverInv
      /\ step = "erase"
      /\ step' = IF job.before = <<>> THEN "read" ELSE "keep"
  BY DEF SubInv, Erase
<1>1. /\ /\ job' \in Jobs
      /\ job'.doc = job.doc
      /\ job'.sticky = job.sticky
      /\ job'.old = job.old
      /\ job'.entries = job.entries /\ job'.before = job.before
      /\ job'.todo = job.todo /\ job'.kept = job.kept
  BY <1>0 DEF Erase, SubTypes, Jobs
<1>2. rows' \in [Ids -> RowValues] /\ Live' = Live \ job.todo
  BY <1>0 DEF Erase, Live, Alive, SubTypes, RowValues
<1>3. UNCHANGED <<list, saved, next, started, user, Listed, StickyIds, Old, Given>>
  BY <1>1 DEF Erase, Listed, StickyIds, Old, Given
<1>4. SubTypes'
  BY <1>0, <1>1, <1>2, <1>3 DEF SubTypes, Steps, user
<1>5. FreshInv' /\ ListInv'
  BY <1>0, <1>1, <1>2, <1>3 DEF FreshInv, ListInv
<1>6. StickyInv'
  BY <1>0, <1>1, <1>3 DEF StickyInv, Clearing
<1>7. EntryInv'
  BY <1>0 DEF EntryInv, Building
<1>8. RowInv'
  <2>1. job.todo \cap job.kept = {} /\ (job.before = <<>> => job.todo \cap StickyIds = {})
    BY <1>0 DEF StickyInv, Clearing
  <2>2. ASSUME ~raced
        PROVE  /\ Listed \subseteq Live /\ job.todo \cap Listed = {}
               /\ job.before = <<>> => StickyIds \subseteq Live
               /\ job.before # <<>> => job.kept \subseteq Live /\ job.kept \cap Listed = {}
    BY <1>0, <2>2 DEF RowInv, Clearing, Deleting
  <2> QED
    BY <1>0, <1>1, <1>2, <1>3, <2>1, <2>2 DEF RowInv, Building, Clearing, Deleting, user
<1>9. CoverInv'
  BY <1>0, <1>1, <1>2, <1>3 DEF CoverInv, Building, user
<1> QED
  BY <1>4, <1>5, <1>6, <1>7, <1>8, <1>9 DEF SubInv

\* Finish preserves the invariant.
LEMMA FinishStep == SubInv /\ Finish => SubInv'
<1> SUFFICES ASSUME SubInv, Finish PROVE SubInv'
  OBVIOUS
<1>0. /\ SubTypes /\ FreshInv /\ ListInv /\ RowInv /\ CoverInv
      /\ step = "done" /\ step' = "idle" /\ job' = NoJob
  BY DEF SubInv, Finish
<1>1. UNCHANGED <<rows, list, saved, next, started, user, Live, Listed>>
  BY DEF Finish, store, Live, Alive, Listed
<1>2. SubTypes'
  BY <1>0, <1>1, NoJobIs DEF SubTypes, Steps, user
<1>3. ListInv' /\ \A id \in Live' \cup Listed' : id < next'
  BY <1>0, <1>1 DEF FreshInv, ListInv
<1>4. ~raced' => Listed' \subseteq Live'
  BY <1>0, <1>1 DEF RowInv, user
<1>5. ~raced' /\ ~leaked' => Live' \subseteq Listed'
  BY <1>0, <1>1 DEF CoverInv, user
<1>6. Idle'
  BY <1>0, <1>2, <1>3, <1>4, <1>5 DEF Idle
<1> QED
  BY <1>6, IdleInv, PTL

\* Read preserves the invariant: no two arrivals claim one profile.
LEMMA ReadStep == SubInv /\ Read => SubInv'
<1> SUFFICES ASSUME SubInv, Read PROVE SubInv'
  OBVIOUS
<1>0. /\ SubTypes /\ FreshInv /\ ListInv /\ StickyInv /\ RowInv /\ CoverInv /\ step = "read"
      /\ job.before = <<>>
  BY DEF SubInv, Read, StickyInv
<1> DEFINE old == IF job.cleared THEN <<>> ELSE Without(Members, Having(NoRow))
<1>1. UNCHANGED <<rows, list, saved, next, started, user, Live, Listed>>
  BY DEF Read, store, Live, Alive, Listed
<1>2. CASE job.doc = <<>> /\ old # <<>>
  <2>1. step' = "idle" /\ job' = NoJob
    BY <1>2 DEF Read
  <2> HIDE DEF old
  <2>2. SubTypes'
    BY <1>0, <1>1, <2>1, NoJobIs DEF SubTypes, Steps, user
  <2>3. ListInv' /\ \A id \in Live' \cup Listed' : id < next'
    BY <1>0, <1>1 DEF FreshInv, ListInv
  <2>4. ~raced' => Listed' \subseteq Live'
    BY <1>0, <1>1 DEF RowInv, user
  <2>5. ~raced' /\ ~leaked' => Live' \subseteq Listed'
    BY <1>0, <1>1 DEF CoverInv, user
  <2>6. Idle'
    BY <2>1, <2>2, <2>3, <2>4, <2>5 DEF Idle
  <2> QED
    BY <2>6, IdleInv, PTL
<1>3. CASE ~ (job.doc = <<>> /\ old # <<>>)
  <2> DEFINE claims == [i \in DOMAIN job.doc |-> Claim(job.doc, old, i)]
  <2>1. /\ step' = "insert"
        /\ job' = [job EXCEPT !.old = old, !.was = rows, !.entries = claims]
    BY <1>3 DEF Read
  <2>2. /\ /\ old \in Lists
        /\ IsInjective(old)
        /\ ToSet(old) \subseteq (Listed \ StickyIds) \cap Live
        /\ job.cleared => old = <<>>
        /\ ~job.cleared => (Listed \ StickyIds) \cap Live \subseteq ToSet(old)
    <3>1. IsInjective(list)
      BY <1>0 DEF ListInv
    <3>2. Members \in Lists /\ ToSet(Members) = Listed \ StickyIds /\ IsInjective(Members)
      BY <1>0, <3>1, MembersIs
    <3> DEFINE w == Without(Members, Having(NoRow))
    <3>3. w \in Lists /\ IsInjective(w) /\ ToSet(w) = (Listed \ StickyIds) \ Having(NoRow)
      BY <3>2, WithoutIs DEF Lists
    <3> HIDE DEF w
    <3>4. Listed \subseteq Ids /\ \A id \in Ids : id \notin Having(NoRow) <=> id \in Live
      BY <1>0, JobSets DEF Having, Live, Alive
    <3>5. <<>> \in Lists /\ ToSet(<<>>) = {} /\ IsInjective(<<>>)
      BY EmptyList DEF Lists
    <3>6. ToSet(w) = (Listed \ StickyIds) \cap Live
      BY <3>3, <3>4
    <3>7. CASE job.cleared
      <4>1. old = <<>>
        BY <3>7
      <4> QED
        BY <3>5, <3>7, <4>1
    <3>8. CASE ~job.cleared
      <4>1. old = w
        BY <3>8 DEF w
      <4> QED
        BY <3>3, <3>6, <3>8, <4>1
    <3> QED
      BY <3>7, <3>8
  <2> HIDE DEF old
  <2>3. /\ job.doc \in Docs /\ rows \in [Ids -> RowValues]
        /\ DOMAIN job.doc = 1 .. Len(job.doc) /\ Len(job.doc) \in Nat
    BY <1>0, JobTypes, LenProperties DEF SubTypes, Docs
  <2>4. /\ \A i \in DOMAIN job.doc : Claim(job.doc, old, i) = NoId
                \/ /\ Claim(job.doc, old, i) \in ToSet(old)
                   /\ rows[Claim(job.doc, old, i)] = job.doc[i]
        /\ \A i, j \in DOMAIN job.doc : Claim(job.doc, old, i) = Claim(job.doc, old, j)
               => Claim(job.doc, old, i) = NoId \/ i = j
    BY <2>2, <2>3, ClaimIs
  <2>5. /\ DOMAIN claims = DOMAIN job.doc
        /\ \A i \in DOMAIN claims : claims[i] = NoId
                \/ (claims[i] \in ToSet(old) /\ rows[claims[i]] = job.doc[i])
        /\ \A i, j \in DOMAIN claims : claims[i] = claims[j] => claims[i] = NoId \/ i = j
    BY <2>4
  <2>6. claims \in Givens
    <3>1. \A i \in 1 .. Len(job.doc) : claims[i] \in Ids \cup {NoId}
      BY <1>0, <2>2, <2>3, <2>5, JobSets
    <3>2. claims \in [1 .. Len(job.doc) -> Ids \cup {NoId}]
      BY <2>3, <3>1
    <3> HIDE DEF claims
    <3> QED
      BY <2>3, <3>2 DEF Givens
  <2> HIDE DEF claims
  <2>7. /\ job' \in Jobs /\ job'.doc = job.doc /\ job'.sticky = job.sticky /\ job'.old = old
        /\ job'.entries = claims /\ job'.before = job.before /\ job'.was = rows
        /\ job'.todo = job.todo /\ job'.kept = job.kept /\ job'.cleared = job.cleared
    <3>1. rows \in Pasts /\ job \in Jobs
      BY <1>0 DEF SubTypes, Pasts
    <3> QED
      BY <2>1, <2>2, <2>6, <3>1 DEF Jobs
  <2>8. Old' = ToSet(old) /\ StickyIds' = StickyIds
    BY <2>7 DEF Old, StickyIds
  <2>9. Given' \subseteq Old'
    BY <2>5, <2>7, <2>8 DEF Given, ToSet
  <2>10. SubTypes'
    BY <1>0, <1>1, <2>1, <2>7 DEF SubTypes, Steps, user
  <2>11. FreshInv' /\ ListInv'
    BY <1>0, <1>1, <2>2, <2>7, <2>8, <2>9 DEF FreshInv, ListInv
  <2>12. StickyInv'
    BY <1>0, <2>1, <2>2, <2>7, <2>8 DEF StickyInv, Clearing
  <2>13. EntryInv'
    <3>1. job'.was \in [Ids -> RowValues]
      BY <2>3, <2>7
    <3>2. \A i \in DOMAIN job'.entries :
              \/ job'.entries[i] = NoId
              \/ job'.entries[i] \in Old' /\ job'.was[job'.entries[i]] = job'.doc[i]
      BY <2>5, <2>7, <2>8
    <3>3. \A i, j \in DOMAIN job'.entries :
              job'.entries[i] = job'.entries[j] => job'.entries[i] = NoId \/ i = j
      BY <2>5, <2>7
    <3>4. step' = "insert" /\ job'.before = <<>> /\ DOMAIN job'.entries = DOMAIN job'.doc
      BY <1>0, <2>1, <2>5, <2>7
    <3>5. job'.cleared => job'.old = <<>>
      BY <2>2, <2>7
    <3> QED
      BY <3>1, <3>2, <3>3, <3>4, <3>5 DEF EntryInv
  <2>14. RowInv'
    BY <1>0, <1>1, <2>1, <2>2, <2>7, <2>8, <2>9 DEF RowInv, Building, Clearing, Deleting,
       user
  <2>15. CoverInv'
    <3>1. ~raced => Listed \subseteq Live
      BY <1>0 DEF RowInv
    <3> QED
      BY <1>0, <1>1, <2>1, <2>2, <2>7, <2>8, <3>1 DEF CoverInv, Building, user
  <2> QED
    BY <2>10, <2>11, <2>12, <2>13, <2>14, <2>15 DEF SubInv
<1> QED
  BY <1>2, <1>3

\* The members of a finite set of numbers have ranks of their own, from 0 on.
LEMMA RankIs ==
    ASSUME NEW U, IsFiniteSet(U), U \subseteq Nat
    PROVE  /\ Cardinality(U) \in Nat
           /\ \A i \in U : Cardinality({j \in U : j < i}) \in 0 .. Cardinality(U) - 1
           /\ \A i, k \in U : Cardinality({j \in U : j < i}) = Cardinality({j \in U : j < k})
                  => i = k
<1> DEFINE Below(i) == {j \in U : j < i}
<1>1. Cardinality(U) \in Nat
  BY FS_CardinalityType
<1>2. ASSUME NEW i \in U
      PROVE  IsFiniteSet(Below(i)) /\ Cardinality(Below(i)) \in Nat
             /\ IsFiniteSet(Below(i) \cup {i}) /\ i \notin Below(i)
             /\ Cardinality(Below(i) \cup {i}) = Cardinality(Below(i)) + 1
             /\ Cardinality(Below(i)) + 1 <= Cardinality(U)
  <2>1. Below(i) \subseteq U /\ Below(i) \cup {i} \subseteq U /\ i \notin Below(i)
    OBVIOUS
  <2> HIDE DEF Below
  <2>2. IsFiniteSet(Below(i))
    BY <2>1, FS_Subset
  <2>3. /\ IsFiniteSet(Below(i) \cup {i})
        /\ Cardinality(Below(i) \cup {i}) = Cardinality(Below(i)) + 1
    BY <2>1, <2>2, FS_AddElement
  <2>4. Cardinality(Below(i) \cup {i}) <= Cardinality(U)
    BY <2>1, FS_Subset
  <2>5. Cardinality(Below(i)) \in Nat
    BY <2>2, FS_CardinalityType
  <2> QED
    BY <2>1, <2>2, <2>3, <2>4, <2>5
<1>3. ASSUME NEW i \in U, NEW k \in U, i < k
      PROVE Cardinality(Below(i)) < Cardinality(Below(k))
  <2>1. Below(i) \cup {i} \subseteq Below(k)
    <3>1. i \in Nat /\ k \in Nat /\ \A j \in U : j \in Nat
      OBVIOUS
    <3>2. \A j \in U : j < i => j < k
      BY <1>3, <3>1
    <3> QED
      BY <1>3, <3>2
  <2> HIDE DEF Below
  <2>2. Cardinality(Below(i) \cup {i}) <= Cardinality(Below(k))
    BY <1>2, <2>1, FS_Subset
  <2>3. /\ Cardinality(Below(i)) \in Nat /\ Cardinality(Below(k)) \in Nat
        /\ Cardinality(Below(i) \cup {i}) = Cardinality(Below(i)) + 1
    BY <1>2
  <2> QED
    BY <2>2, <2>3
<1>4. ASSUME NEW i \in U PROVE Cardinality(Below(i)) \in 0 .. Cardinality(U) - 1
  <2> HIDE DEF Below
  <2>1. Cardinality(Below(i)) \in Nat /\ Cardinality(Below(i)) + 1 <= Cardinality(U)
    BY <1>2
  <2> QED
    BY <1>1, <2>1
<1>5. ASSUME NEW i \in U, NEW k \in U, Cardinality(Below(i)) = Cardinality(Below(k))
      PROVE i = k
  <2>1. i \in Nat /\ k \in Nat
    OBVIOUS
  <2> HIDE DEF Below
  <2>2. Cardinality(Below(i)) \in Nat /\ Cardinality(Below(k)) \in Nat
    BY <1>2
  <2>3. ~ (i < k)
    BY <1>3, <1>5, <2>2
  <2>4. ~ (k < i)
    BY <1>3, <1>5, <2>2
  <2> QED
    BY <2>1, <2>3, <2>4
<1> QED
  BY <1>1, <1>4, <1>5

\* The ids of the arrivals that get rows now: new ones, each for one arrival.
InsertNew == {i \in DOMAIN job.entries : job.entries[i] = NoId}
InsertNow == {i \in InsertNew : Cardinality({j \in InsertNew : j < i}) < Chunk}
InsertId(i) == next + Cardinality({j \in InsertNow : j < i})
InsertIds == {InsertId(i) : i \in InsertNow}

\* The ids one flush hands out are new and each is given once.
LEMMA InsertIdsAre ==
    ASSUME SubTypes, next + Cardinality(InsertNow) <= MaxId + 1
    PROVE  /\ InsertNow \subseteq DOMAIN job.entries /\ Cardinality(InsertNow) \in Nat
           /\ \A i \in InsertNow : /\ job.entries[i] = NoId /\ InsertId(i) \in Ids
                                   /\ next <= InsertId(i)
                                   /\ InsertId(i) < next + Cardinality(InsertNow)
           /\ \A i, j \in InsertNow : InsertId(i) = InsertId(j) => i = j
<1>1. MaxId \in Nat /\ next \in Nat /\ next > 0
  BY SubscriptionAssumption DEF SubTypes
<1>2. InsertNow \subseteq DOMAIN job.entries /\ \A i \in InsertNow : job.entries[i] = NoId
  BY DEF InsertNow, InsertNew
<1>3. /\ DOMAIN job.entries = 1 .. Len(job.entries) /\ Len(job.entries) \in Nat
      /\ IsFiniteSet(1 .. Len(job.entries))
  <2>1. DOMAIN job.entries = 1 .. Len(job.entries) /\ Len(job.entries) \in Nat
    BY JobTypes, LenProperties DEF Givens
  <2> DEFINE L == Len(job.entries)
  <2>2. 1 \in Int /\ L \in Int
    BY <2>1
  <2> HIDE DEF L
  <2>3. IsFiniteSet(1 .. L)
    BY <2>2, FS_Interval
  <2> QED
    BY <2>1, <2>3 DEF L
<1>4. IsFiniteSet(InsertNow) /\ InsertNow \subseteq Nat
  BY <1>2, <1>3, FS_Subset
<1> HIDE DEF InsertNow
<1> DEFINE R(i) == Cardinality({j \in InsertNow : j < i})
<1>5. /\ Cardinality(InsertNow) \in Nat
      /\ \A i \in InsertNow : R(i) \in 0 .. Cardinality(InsertNow) - 1
      /\ \A i, k \in InsertNow : R(i) = R(k) => i = k
  BY <1>4, RankIs
<1>6. \A i : InsertId(i) = next + R(i)
  BY DEF InsertId
<1> HIDE DEF R
<1>7. ASSUME NEW i \in InsertNow
      PROVE  /\ InsertId(i) \in Ids /\ next <= InsertId(i)
             /\ InsertId(i) < next + Cardinality(InsertNow)
  BY <1>1, <1>5, <1>6 DEF Ids
<1>8. ASSUME NEW i \in InsertNow, NEW j \in InsertNow, InsertId(i) = InsertId(j) PROVE i = j
  <2>1. R(i) \in Nat /\ R(j) \in Nat /\ next + R(i) = next + R(j)
    BY <1>5, <1>6, <1>8
  <2> QED
    BY <1>1, <1>5, <2>1
<1> QED
  BY <1>2, <1>5, <1>7, <1>8

\* Two lists without a common member join to one that names none twice.
LEMMA JoinedLists ==
    ASSUME NEW S, NEW s \in Seq(S), NEW t \in Seq(S), IsInjective(s), IsInjective(t),
           ToSet(s) \cap ToSet(t) = {}
    PROVE  s \o t \in Seq(S) /\ ToSet(s \o t) = ToSet(s) \cup ToSet(t) /\ IsInjective(s \o t)
<1> DEFINE u == s \o t
<1>1. /\ /\ Len(s) \in Nat
      /\ Len(t) \in Nat
      /\ DOMAIN s = 1 .. Len(s)
      /\ DOMAIN t = 1 .. Len(t)
  BY LenProperties
<1>2. /\ u \in Seq(S) /\ Len(u) = Len(s) + Len(t)
      /\ \A i \in 1 .. Len(s) + Len(t) : u[i] = IF i <= Len(s) THEN s[i] ELSE t[i - Len(s)]
  BY ConcatProperties
<1> HIDE DEF u
<1>3. DOMAIN u = 1 .. Len(s) + Len(t)
  BY <1>2, LenProperties
<1>4. ASSUME NEW i \in 1 .. Len(s) PROVE i \in DOMAIN u /\ u[i] = s[i]
  BY <1>1, <1>2, <1>3
<1>5. ASSUME NEW i \in 1 .. Len(t) PROVE Len(s) + i \in DOMAIN u /\ u[Len(s) + i] = t[i]
  <2>1. /\ Len(s) + i \in 1 .. Len(s) + Len(t)
        /\ ~ (Len(s) + i <= Len(s))
        /\ Len(s) + i - Len(s) = i
    BY <1>1
  <2> QED
    BY <1>2, <1>3, <2>1
<1>6. ASSUME NEW i \in DOMAIN u
      PROVE  \/ i \in DOMAIN s /\ u[i] = s[i]
             \/ ~ (i <= Len(s)) /\ i - Len(s) \in DOMAIN t /\ u[i] = t[i - Len(s)]
  BY <1>1, <1>2, <1>3
<1>7. ToSet(u) = ToSet(s) \cup ToSet(t)
  BY <1>1, <1>4, <1>5, <1>6 DEF ToSet
<1>8. ASSUME NEW i \in DOMAIN u, NEW j \in DOMAIN u, u[i] = u[j] PROVE i = j
  <2>1. \A a \in DOMAIN s, b \in DOMAIN t : s[a] # t[b]
    BY DEF ToSet
  <2>2. i \in Nat /\ j \in Nat
    BY <1>1, <1>3
  <2>3. CASE i \in DOMAIN s /\ u[i] = s[i]
    <3>1. j \in DOMAIN s /\ u[j] = s[j]
      BY <1>6, <1>8, <2>1, <2>3
    <3> QED
      BY <1>8, <2>3, <3>1 DEF IsInjective
  <2>4. CASE ~ (i <= Len(s)) /\ i - Len(s) \in DOMAIN t /\ u[i] = t[i - Len(s)]
    <3>1. ~ (j <= Len(s)) /\ j - Len(s) \in DOMAIN t /\ u[j] = t[j - Len(s)]
      BY <1>6, <1>8, <2>1, <2>4
    <3>2. i - Len(s) = j - Len(s)
      BY <1>8, <2>4, <3>1 DEF IsInjective
    <3> QED
      BY <1>1, <2>2, <3>2
  <2> QED
    BY <1>6, <2>3, <2>4
<1> QED
  BY <1>2, <1>7, <1>8 DEF IsInjective, u

\* What a flush that inserts anything does.
LEMMA InsertEffect ==
    ASSUME SubInv, Insert, InsertNew # {}
    PROVE  /\ next' = next + Cardinality(InsertNow) /\ Cardinality(InsertNow) \in Nat
           /\ next' \in 1 .. MaxId + 1 /\ next \in Nat
           /\ step' = step /\ UNCHANGED <<started, user>>
           /\ InsertNow \subseteq DOMAIN job.entries /\ InsertIds \subseteq Ids
           /\ \A i \in InsertNow : job.entries[i] = NoId /\ InsertId(i) \in Ids
           /\ \A i, j \in InsertNow : InsertId(i) = InsertId(j) => i = j
           /\ \A id \in InsertIds : next <= id /\ id < next'
           /\ (Live \cup Listed \cup Old \cup StickyIds \cup Given) \cap InsertIds = {}
           /\ list' = list \o SetToList(InsertIds)
           /\ list' \in Lists /\ Listed' = Listed \cup InsertIds /\ ListInv'
           /\ rows' \in [Ids -> RowValues] /\ Live' = Live \cup InsertIds
           /\ \A id \in Ids \ InsertIds : rows'[id] = rows[id]
           /\ \A i \in InsertNow : rows'[InsertId(i)] = job.doc[i]
           /\ DOMAIN job.entries = DOMAIN job.doc /\ job.was \in [Ids -> RowValues]
           /\ job.before = <<>> /\ (job.cleared => job.old = <<>>)
           /\ DOMAIN job'.entries = DOMAIN job.entries
           /\ \A i \in DOMAIN job.entries :
                  job'.entries[i] = IF i \in InsertNow THEN InsertId(i) ELSE job.entries[i]
           /\ job' \in Jobs /\ job'.doc = job.doc
           /\ job'.sticky = job.sticky /\ job'.old = job.old
           /\ job'.before = job.before /\ job'.was = job.was
           /\ job'.todo = job.todo /\ job'.kept = job.kept /\ job'.cleared = job.cleared
           /\ Old' = Old /\ StickyIds' = StickyIds /\ Given' = Given \cup InsertIds
<1>0. /\ SubTypes /\ FreshInv /\ ListInv /\ StickyInv /\ EntryInv /\ RowInv /\ CoverInv
      /\ step = "insert" /\ UNCHANGED <<started, user>>
  BY DEF SubInv, Insert
<1>1. /\ next + Cardinality(InsertNow) <= MaxId + 1
      /\ rows' = [id \in Ids |-> IF \E i \in InsertNow : InsertId(i) = id
                                 THEN job.doc[CHOOSE i \in InsertNow : InsertId(i) = id]
                                 ELSE rows[id]]
      /\ list' = list \o SetToList(InsertIds)
      /\ saved' = list'
      /\ next' = next + Cardinality(InsertNow)
      /\ job' = [job EXCEPT !.entries =
                    [i \in DOMAIN @ |-> IF i \in InsertNow THEN InsertId(i) ELSE @[i]]]
      /\ step' = step
  BY DEF Insert, InsertNew, InsertNow, InsertId, InsertIds
<1>2. /\ InsertNow \subseteq DOMAIN job.entries /\ Cardinality(InsertNow) \in Nat
      /\ \A i \in InsertNow : /\ job.entries[i] = NoId /\ InsertId(i) \in Ids
                              /\ next <= InsertId(i)
                              /\ InsertId(i) < next + Cardinality(InsertNow)
      /\ \A i, j \in InsertNow : InsertId(i) = InsertId(j) => i = j
  BY <1>0, <1>1, InsertIdsAre
<1> HIDE DEF InsertNow, InsertId
<1>3. /\ next \in Nat /\ Ids \subseteq Nat /\ InsertIds \subseteq Ids
      /\ \A id \in InsertIds : next <= id /\ id < next'
  <2>1. next \in Nat /\ Ids \subseteq Nat
    BY <1>0, SubscriptionAssumption DEF SubTypes, Ids
  <2> QED
    BY <1>1, <1>2, <2>1 DEF InsertIds
<1>4. /\ /\ Listed \subseteq Ids
      /\ Old \subseteq Ids
      /\ StickyIds \subseteq Ids
      /\ Given \subseteq Ids
      /\ job.todo \subseteq Ids /\ job.kept \subseteq Ids /\ Live \subseteq Ids
  BY <1>0, JobSets, JobTypes DEF Live
<1>5. (Live \cup Listed \cup Old \cup StickyIds \cup Given) \cap InsertIds = {}
  BY <1>0, <1>3, <1>4 DEF FreshInv
<1>6. list' \in Lists /\ Listed' = Listed \cup InsertIds /\ ListInv'
  <2>1. list \in Lists /\ IsInjective(list)
    BY <1>0 DEF SubTypes, ListInv
  <2> DEFINE t == SetToList(InsertIds)
  <2>2. t \in Lists /\ ToSet(t) = InsertIds /\ IsInjective(t)
    BY <1>3, SetToListIs
  <2> HIDE DEF t
  <2>3. ToSet(list) \cap ToSet(t) = {}
    BY <1>5, <2>2 DEF Listed
  <2>4. /\ list \o t \in Lists
        /\ ToSet(list \o t) = ToSet(list) \cup ToSet(t)
        /\ IsInjective(list \o t)
    BY <2>1, <2>2, <2>3, JoinedLists DEF Lists
  <2> QED
    BY <1>1, <2>2, <2>4 DEF t, Listed, ListInv
<1>7. /\ DOMAIN job.entries = DOMAIN job.doc /\ job.was \in [Ids -> RowValues]
      /\ job.before = <<>> /\ (job.cleared => job.old = <<>>)
  BY <1>0, Zenon DEF EntryInv, Building
<1>8. \A i \in DOMAIN job.doc : job.doc[i] \in Servers
  BY <1>0, JobTypes, ElementOfSeq, LenProperties DEF Docs
<1>9. rows' \in [Ids -> RowValues] /\ Live' = Live \cup InsertIds
  <2>1. ASSUME NEW id \in Ids
        PROVE  rows'[id] \in RowValues /\ (rows'[id] # NoRow <=> id \in Live \cup InsertIds)
    <3>1. CASE id \in InsertIds
      <4> DEFINE k == CHOOSE i \in InsertNow : InsertId(i) = id
      <4>1. \E i \in InsertNow : InsertId(i) = id
        BY <3>1 DEF InsertIds
      <4>2. k \in InsertNow /\ rows'[id] = job.doc[k]
        BY <1>1, <4>1
      <4> HIDE DEF k
      <4>3. job.doc[k] \in Servers
        BY <1>2, <1>7, <1>8, <4>2
      <4> QED
        BY <3>1, <4>2, <4>3, SubscriptionAssumption DEF RowValues
    <3>2. CASE id \notin InsertIds
      <4>1. rows'[id] = rows[id]
        BY <1>1, <3>2 DEF InsertIds
      <4> QED
        BY <1>0, <3>2, <4>1 DEF SubTypes, Live, Alive
    <3> QED
      BY <3>1, <3>2
  <2>2. DOMAIN rows' = Ids /\ rows' = [id \in Ids |-> rows'[id]]
    BY <1>1
  <2>3. rows' \in [Ids -> RowValues]
    BY <2>1, <2>2
  <2>4. Live' = Live \cup InsertIds
    BY <1>3, <1>4, <2>1 DEF Live, Alive
  <2> QED
    BY <2>3, <2>4
<1> DEFINE e == [i \in DOMAIN job.entries |-> IF i \in InsertNow THEN InsertId(i)
                                                                 ELSE job.entries[i]]
<1>10. e \in Givens /\ DOMAIN e = DOMAIN job.entries
  <2>1. DOMAIN job.entries = 1 .. Len(job.entries) /\ Len(job.entries) \in Nat
        /\ \A i \in DOMAIN job.entries : job.entries[i] \in Ids \cup {NoId}
    BY <1>0, JobTypes, LenProperties, ElementOfSeq DEF Givens
  <2>2. e \in [1 .. Len(job.entries) -> Ids \cup {NoId}]
    BY <1>2, <2>1
  <2>3. DOMAIN e = DOMAIN job.entries
    OBVIOUS
  <2> HIDE DEF e
  <2> QED
    BY <2>1, <2>2, <2>3 DEF Givens
<1>11. \A i \in DOMAIN job.entries : e[i] = IF i \in InsertNow THEN InsertId(i)
                                                               ELSE job.entries[i]
  OBVIOUS
<1>12. job' = [job EXCEPT !.entries = e]
  BY <1>1
<1> HIDE DEF e
<1>13. /\ /\ job' \in Jobs
       /\ job'.doc = job.doc
       /\ job'.sticky = job.sticky
       /\ job'.old = job.old
       /\ job'.entries = e /\ job'.before = job.before /\ job'.was = job.was
       /\ job'.todo = job.todo /\ job'.kept = job.kept /\ job'.cleared = job.cleared
  BY <1>0, <1>10, <1>12 DEF SubTypes, Jobs
<1>14. Old' = Old /\ StickyIds' = StickyIds
  BY <1>13 DEF Old, StickyIds
<1>15. Given' = Given \cup InsertIds
  <2>1. NoId \notin InsertIds
    BY <1>3 DEF Ids, NoId
  <2>2. Given' \subseteq Given \cup InsertIds
    BY <1>10, <1>11, <1>13 DEF Given, ToSet, InsertIds
  <2>3. InsertIds \subseteq Given'
    BY <1>2, <1>10, <1>11, <1>13, <2>1 DEF Given, ToSet, InsertIds
  <2>4. Given \subseteq Given'
    <3>1. \A i \in DOMAIN job.entries : job.entries[i] # NoId => e[i] = job.entries[i]
      BY <1>2, <1>11
    <3> QED
      BY <1>10, <1>13, <3>1 DEF Given, ToSet
  <2> QED
    BY <2>2, <2>3, <2>4
<1>16. \A id \in Ids \ InsertIds : rows'[id] = rows[id]
  BY <1>1 DEF InsertIds
<1>17. ASSUME NEW i \in InsertNow PROVE rows'[InsertId(i)] = job.doc[i]
  <2> DEFINE k == CHOOSE j \in InsertNow : InsertId(j) = InsertId(i)
  <2>1. k \in InsertNow /\ InsertId(k) = InsertId(i)
    BY <1>17
  <2>2. InsertId(i) \in Ids /\ rows'[InsertId(i)] = job.doc[k]
    BY <1>1, <1>2, <1>17
  <2> HIDE DEF k
  <2>3. k = i
    BY <1>2, <1>17, <2>1
  <2> QED
    BY <2>2, <2>3
<1>18. next' \in 1 .. MaxId + 1
  BY <1>0, <1>1, <1>2, <1>3 DEF SubTypes
<1> QED
  BY <1>0, <1>1, <1>2, <1>3, <1>5, <1>6, <1>7, <1>9, <1>10, <1>11, <1>13, <1>14, <1>15,
     <1>16, <1>17, <1>18

\* Insert preserves the invariant: the new ids get their rows and places at once.
LEMMA InsertStep == SubInv /\ Insert => SubInv'
<1> SUFFICES ASSUME SubInv, Insert PROVE SubInv'
  OBVIOUS
<1>0. /\ SubTypes /\ FreshInv /\ ListInv /\ StickyInv /\ EntryInv /\ RowInv /\ CoverInv
      /\ step = "insert" /\ UNCHANGED <<started, user>>
  BY DEF SubInv, Insert
<1>1. CASE InsertNew = {}
  <2>1. /\ step' = IF job.cleared THEN "done" ELSE "update"
        /\ UNCHANGED <<store, job>>
    BY <1>1 DEF Insert, InsertNew
  <2>2. UNCHANGED <<rows, list, saved, next, Live, Listed, StickyIds, Old, Given>>
    BY <2>1, SameJob DEF store, Live, Alive, Listed
  <2>3. SubTypes'
    BY <1>0, <2>1, <2>2 DEF SubTypes, Steps, user
  <2>4. FreshInv' /\ ListInv'
    BY <1>0, <2>1, <2>2 DEF FreshInv, ListInv
  <2>5. StickyInv'
    BY <1>0, <2>1, <2>2 DEF StickyInv, Clearing
  <2>6. EntryInv'
    <3>1. NoId \notin ToSet(job.entries)
      BY <1>1 DEF InsertNew, ToSet
    <3>2. /\ job.before = <<>>
          /\ DOMAIN job.entries = DOMAIN job.doc /\ job.was \in [Ids -> RowValues]
          /\ \A i \in DOMAIN job.entries :
                 \/ job.entries[i] = NoId
                 \/ job.entries[i] \in Old /\ job.was[job.entries[i]] = job.doc[i]
                 \/ job.entries[i] \notin Old \cup StickyIds
          /\ \A i, j \in DOMAIN job.entries :
                 job.entries[i] = job.entries[j] => job.entries[i] = NoId \/ i = j
          /\ job.cleared => job.old = <<>>
      BY <1>0, Zenon DEF EntryInv, Building
    <3>3. step' \in Building => ~job.cleared
      BY <2>1 DEF Building
    <3> QED
      BY <2>1, <2>2, <3>1, <3>2, <3>3 DEF EntryInv
  <2>7. RowInv'
    BY <1>0, <2>1, <2>2 DEF RowInv, Building, Clearing, Deleting, user
  <2>8. CoverInv'
    BY <1>0, <2>1, <2>2 DEF CoverInv, Building, user
  <2> QED
    BY <2>3, <2>4, <2>5, <2>6, <2>7, <2>8 DEF SubInv
<1>2. CASE InsertNew # {}
  <2>0. SubInv /\ Insert /\ InsertNew # {}
    BY <1>2
  <2> HIDE DEF InsertNow, InsertId, InsertNew
  <2> DEFINE e == job'.entries
  <2>1. /\ next' = next + Cardinality(InsertNow) /\ Cardinality(InsertNow) \in Nat
        /\ step' = step /\ next' \in 1 .. MaxId + 1 /\ next \in Nat
    BY <2>0, InsertEffect
  <2>2. /\ InsertNow \subseteq DOMAIN job.entries
        /\ \A i \in InsertNow : job.entries[i] = NoId /\ InsertId(i) \in Ids
        /\ \A i, j \in InsertNow : InsertId(i) = InsertId(j) => i = j
    BY <2>0, InsertEffect
  <2>3. /\ InsertIds \subseteq Ids /\ Ids \subseteq Nat
        /\ \A id \in InsertIds : next <= id /\ id < next'
    BY <2>0, InsertEffect, SubscriptionAssumption DEF Ids
  <2>4. /\ /\ Listed \subseteq Ids
        /\ Old \subseteq Ids
        /\ StickyIds \subseteq Ids
        /\ Given \subseteq Ids
        /\ job.todo \subseteq Ids /\ job.kept \subseteq Ids /\ Live \subseteq Ids
    BY <1>0, JobSets, JobTypes DEF Live
  <2>5. (Live \cup Listed \cup Old \cup StickyIds \cup Given) \cap InsertIds = {}
    BY <2>0, InsertEffect
  <2>6. list' \in Lists /\ Listed' = Listed \cup InsertIds /\ ListInv'
    BY <2>0, InsertEffect
  <2>7. /\ DOMAIN job.entries = DOMAIN job.doc /\ job.was \in [Ids -> RowValues]
        /\ job.before = <<>> /\ (job.cleared => job.old = <<>>)
    BY <2>0, InsertEffect
  <2>9. rows' \in [Ids -> RowValues] /\ Live' = Live \cup InsertIds
    BY <2>0, InsertEffect
  <2>10. /\ DOMAIN e = DOMAIN job.entries
         /\ \A i \in DOMAIN job.entries : e[i] = IF i \in InsertNow THEN InsertId(i)
                                                                    ELSE job.entries[i]
    BY <2>0, InsertEffect
  <2>13. /\ /\ job' \in Jobs
         /\ job'.doc = job.doc
         /\ job'.sticky = job.sticky
         /\ job'.old = job.old
         /\ job'.entries = e /\ job'.before = job.before /\ job'.was = job.was
         /\ job'.todo = job.todo /\ job'.kept = job.kept /\ job'.cleared = job.cleared
    BY <2>0, InsertEffect
  <2>14. Old' = Old /\ StickyIds' = StickyIds /\ Given' = Given \cup InsertIds
    BY <2>0, InsertEffect
  <2> HIDE DEF e
  <2>16. SubTypes'
    BY <1>0, <2>1, <2>6, <2>9, <2>13 DEF SubTypes, user
  <2>17. FreshInv'
    <3>1. \A id \in Ids : id < next => id < next'
      BY <2>1, <2>2, <2>3
    <3> QED
      BY <1>0, <2>3, <2>4, <2>6, <2>9, <2>13, <2>14, <3>1 DEF FreshInv
  <2>18. StickyInv'
    BY <1>0, <2>1, <2>13, <2>14 DEF StickyInv, Clearing
  <2>19. EntryInv'
    <3>1. ASSUME NEW i \in DOMAIN e
          PROVE  \/ e[i] = NoId
                 \/ e[i] \in Old /\ job.was[e[i]] = job.doc[i]
                 \/ e[i] \notin Old \cup StickyIds
      <4>1. CASE i \in InsertNow
        <5>1. e[i] \in InsertIds
          BY <2>10, <4>1 DEF InsertIds
        <5> QED
          BY <2>5, <5>1
      <4>2. CASE i \notin InsertNow
        BY <1>0, <2>10, <4>2 DEF EntryInv, Building
      <4> QED
        BY <4>1, <4>2
    <3>2. ASSUME NEW i \in DOMAIN e, NEW j \in DOMAIN e, e[i] = e[j], e[i] # NoId
          PROVE i = j
      <4>0. \A k \in DOMAIN e : k \in InsertNow => e[k] = InsertId(k) /\ e[k] \in InsertIds
        BY <2>10 DEF InsertIds
      <4>1. \A k \in DOMAIN e : k \notin InsertNow =>
                e[k] = job.entries[k] /\ (e[k] # NoId => e[k] \in Given)
        BY <2>10 DEF Given, ToSet
      <4>2. i \in InsertNow <=> j \in InsertNow
        BY <2>5, <3>2, <4>0, <4>1
      <4>3. CASE i \in InsertNow
        BY <2>2, <3>2, <4>0, <4>2, <4>3
      <4>4. CASE i \notin InsertNow
        <5>1. job.entries[i] = job.entries[j] /\ job.entries[i] # NoId
          BY <3>2, <4>1, <4>2, <4>4
        <5> QED
          BY <1>0, <2>10, <5>1 DEF EntryInv, Building
      <4> QED
        BY <4>3, <4>4
    <3>3. step' = "insert"
      BY <1>0, <2>1
    <3>4. \A i, j \in DOMAIN e : e[i] = e[j] => e[i] = NoId \/ i = j
      BY <3>2, Zenon
    <3>5. \A i \in DOMAIN e : \/ e[i] = NoId
                              \/ e[i] \in Old /\ job.was[e[i]] = job.doc[i]
                              \/ e[i] \notin Old \cup StickyIds
      BY <3>1, Zenon
    <3> QED
      BY <2>7, <2>10, <2>13, <2>14, <3>3, <3>4, <3>5 DEF EntryInv
  <2>20. RowInv'
    BY <1>0, <2>1, <2>6, <2>9, <2>14 DEF RowInv, Building, Clearing, Deleting, user
  <2>21. CoverInv'
    BY <1>0, <2>1, <2>6, <2>9, <2>13, <2>14 DEF CoverInv, Building, user
  <2> QED
    BY <2>6, <2>16, <2>17, <2>18, <2>19, <2>20, <2>21 DEF SubInv
<1> QED
  BY <1>1, <1>2

\* What holds of the entries while the refresh reconciles.
LEMMA Reconciling ==
    ASSUME SubTypes, StickyInv, EntryInv, step \in {"update", "order"}
    PROVE  /\ job.before = <<>> /\ ~job.cleared /\ NoId \notin ToSet(job.entries)
           /\ DOMAIN job.doc = 1 .. Len(job.doc) /\ Len(job.doc) \in Nat
           /\ DOMAIN job.entries = DOMAIN job.doc
           /\ \A i \in DOMAIN job.doc : /\ job.entries[i] \in Ids /\ job.entries[i] \in Given
                                        /\ job.entries[i] \notin StickyIds
                                        /\ job.entries[i] \in Old => job.was[job.entries[i]] = job.doc[i]
           /\ \A i, j \in DOMAIN job.doc : job.entries[i] = job.entries[j] => i = j
           /\ \A i \in Updated : i \in DOMAIN job.doc /\ Superseded(i) \in Old
           /\ \A i, j \in Updated : Superseded(i) = Superseded(j) => i = j
           /\ \A i \in Updated, j \in DOMAIN job.doc : Superseded(i) # job.entries[j]
<1>1. /\ job.before = <<>> /\ ~job.cleared /\ NoId \notin ToSet(job.entries)
      /\ DOMAIN job.entries = DOMAIN job.doc
  BY Zenon DEF EntryInv, Building
<1>2. \A i \in DOMAIN job.entries :
                 \/ job.entries[i] = NoId
                 \/ job.entries[i] \in Old /\ job.was[job.entries[i]] = job.doc[i]
                 \/ job.entries[i] \notin Old \cup StickyIds
  BY DEF EntryInv, Building
<1>3. \A i, j \in DOMAIN job.entries :
          job.entries[i] = job.entries[j] => job.entries[i] = NoId \/ i = j
  BY DEF EntryInv, Building
<1>4. /\ DOMAIN job.doc = 1 .. Len(job.doc) /\ Len(job.doc) \in Nat /\ job.doc \in Docs
      /\ job.old \in Lists /\ IsInjective(job.old) /\ Old \cap StickyIds = {}
  BY JobTypes, LenProperties DEF Docs, StickyInv
<1>5. ASSUME NEW i \in DOMAIN job.doc
      PROVE  /\ job.entries[i] # NoId /\ job.entries[i] \in Ids /\ job.entries[i] \in Given
             /\ job.entries[i] \notin StickyIds
             /\ job.entries[i] \in Old => job.was[job.entries[i]] = job.doc[i]
  <2>1. job.entries[i] \in ToSet(job.entries)
    BY <1>1 DEF ToSet
  <2>2. job.entries[i] # NoId /\ job.entries[i] \in Given
    BY <1>1, <2>1 DEF Given
  <2>3. job.entries[i] \in Ids
    BY <2>2, JobSets
  <2> QED
    BY <1>1, <1>2, <1>4, <2>2, <2>3
<1>6. /\ \A i \in DOMAIN job.doc : Superseded(i) = NoId
             \/ (Superseded(i) \in Old /\ job.was[Superseded(i)] \notin ToSet(job.doc))
      /\ \A i, j \in DOMAIN job.doc : Superseded(i) = Superseded(j)
             => Superseded(i) = NoId \/ i = j
  BY <1>4, SupersededIs
<1>7. ASSUME NEW i \in Updated
      PROVE  /\ i \in DOMAIN job.doc /\ Superseded(i) # NoId /\ Superseded(i) \in Old
             /\ job.was[Superseded(i)] \notin ToSet(job.doc)
  BY <1>6 DEF Updated
<1>8. ASSUME NEW i \in Updated, NEW j \in DOMAIN job.doc
      PROVE Superseded(i) # job.entries[j]
  <2>1. job.doc[j] \in ToSet(job.doc)
    BY DEF ToSet
  <2> QED
    BY <1>5, <1>7, <2>1
<1>9. \A i, j \in DOMAIN job.doc : job.entries[i] = job.entries[j] => i = j
  BY <1>1, <1>3, <1>5
<1>10. \A i, j \in Updated : Superseded(i) = Superseded(j) => i = j
  BY <1>6, <1>7
<1> QED
  BY <1>1, <1>4, <1>5, <1>7, <1>8, <1>9, <1>10

\* Update preserves the invariant: it changes no row into none, or none into one.
LEMMA UpdateStep == SubInv /\ Update => SubInv'
<1> SUFFICES ASSUME SubInv, Update PROVE SubInv'
  OBVIOUS
<1>0. /\ SubTypes /\ FreshInv /\ ListInv /\ StickyInv /\ EntryInv /\ RowInv /\ CoverInv
      /\ step = "update" /\ step' = "order"
      /\ UNCHANGED <<list, saved, next, started, job, user>>
  BY DEF SubInv, Update
<1>1. UNCHANGED <<Listed, StickyIds, Old, Given>>
  BY <1>0, SameJob DEF Listed
<1>2. rows' \in [Ids -> RowValues] /\ Live' = Live
  <2>1. /\ \A i \in DOMAIN job.doc : job.entries[i] \in Ids
        /\ \A i \in Updated : i \in DOMAIN job.doc
        /\ \A i, j \in Updated : Superseded(i) = Superseded(j) => i = j
    BY <1>0, Reconciling
  <2> DEFINE Takes(id) == \E i \in Updated : Superseded(i) = id /\ Alive(id) /\ Alive(job.entries[i])
             By(id) == CHOOSE j \in Updated : Superseded(j) = id
  <2>2. rows' = [id \in Ids |-> IF Takes(id) THEN rows[job.entries[By(id)]] ELSE rows[id]]
    BY DEF Update
  <2>3. ASSUME NEW id \in Ids, Takes(id)
        PROVE  rows[job.entries[By(id)]] \in RowValues \ {NoRow} /\ rows[id] # NoRow
    <3>1. PICK i \in Updated : Superseded(i) = id /\ Alive(id) /\ Alive(job.entries[i])
      BY <2>3
    <3>2. By(id) \in Updated /\ Superseded(By(id)) = id
      BY <3>1
    <3> HIDE DEF By
    <3>3. By(id) = i
      BY <2>1, <3>1, <3>2
    <3>4. job.entries[i] \in Ids
      BY <2>1
    <3> QED
      BY <1>0, <3>1, <3>3, <3>4 DEF SubTypes, Alive
  <2> HIDE DEF Takes, By
  <2>4. \A id \in Ids : rows'[id] \in RowValues /\ (rows'[id] # NoRow <=> rows[id] # NoRow)
    BY <1>0, <2>2, <2>3 DEF SubTypes
  <2>5. rows' = [id \in Ids |-> rows'[id]]
    BY <2>2
  <2> QED
    BY <2>4, <2>5 DEF Live, Alive
<1>3. SubTypes'
  BY <1>0, <1>2 DEF SubTypes, Steps, user
<1>4. FreshInv' /\ ListInv'
  BY <1>0, <1>1, <1>2 DEF FreshInv, ListInv
<1>5. StickyInv'
  BY <1>0, <1>1 DEF StickyInv, Clearing
<1>6. EntryInv'
  BY <1>0, <1>1 DEF EntryInv, Building
<1>7. RowInv'
  BY <1>0, <1>1, <1>2 DEF RowInv, Building, Clearing, Deleting, user
<1>8. CoverInv'
  BY <1>0, <1>1, <1>2 DEF CoverInv, Building, user
<1> QED
  BY <1>3, <1>4, <1>5, <1>6, <1>7, <1>8 DEF SubInv

\* The new list, before the selectors are put back, and what it leaves out.
Final == [i \in DOMAIN job.doc |-> IF i \in Updated THEN Superseded(i) ELSE job.entries[i]]

\* The new list names no profile twice and no selector, and together with the stale
\* ones it has every old and every arrived profile.
LEMMA FinalIs ==
    ASSUME SubTypes, StickyInv, EntryInv, step \in {"update", "order"}
    PROVE  /\ Final \in Lists /\ IsInjective(Final) /\ DOMAIN Final = DOMAIN job.doc
           /\ ToSet(Final) \subseteq Old \cup Given /\ ToSet(Final) \cap StickyIds = {}
           /\ Stale \subseteq Old \cup Given
           /\ Stale \cap ToSet(Final) = {} /\ Stale \cap StickyIds = {}
           /\ Old \cup Given \subseteq ToSet(Final) \cup Stale
<1>1. /\ DOMAIN job.doc = 1 .. Len(job.doc) /\ Len(job.doc) \in Nat
      /\ DOMAIN job.entries = DOMAIN job.doc
      /\ \A i \in DOMAIN job.doc : /\ job.entries[i] \in Ids /\ job.entries[i] \in Given
                                   /\ job.entries[i] \notin StickyIds
      /\ \A i, j \in DOMAIN job.doc : job.entries[i] = job.entries[j] => i = j
      /\ \A i \in Updated : i \in DOMAIN job.doc /\ Superseded(i) \in Old
      /\ \A i, j \in Updated : Superseded(i) = Superseded(j) => i = j
      /\ \A i \in Updated, j \in DOMAIN job.doc : Superseded(i) # job.entries[j]
  BY Reconciling
<1>2. /\ Old \subseteq Ids /\ Old \cap StickyIds = {}
      /\ \A id \in Given : \E i \in DOMAIN job.doc : id = job.entries[i]
  BY <1>1, JobSets DEF StickyInv, Given, ToSet
<1> HIDE DEF Updated
<1>3. /\ DOMAIN Final = DOMAIN job.doc
      /\ \A i \in DOMAIN job.doc : Final[i] = IF i \in Updated THEN Superseded(i)
                                                               ELSE job.entries[i]
  BY DEF Final
<1>4. Final \in Lists
  <2>1. \A i \in 1 .. Len(job.doc) : Final[i] \in Ids
    BY <1>1, <1>2, <1>3
  <2>2. Final \in [1 .. Len(job.doc) -> Ids]
    BY <1>1, <2>1 DEF Final
  <2> HIDE DEF Final
  <2> QED
    BY <1>1, <2>2 DEF Lists
<1>5. \A i, j \in DOMAIN job.doc : Final[i] = Final[j] => i = j
  BY <1>1, <1>3
<1>6. ToSet(Final) = {Final[i] : i \in DOMAIN job.doc}
  BY <1>3 DEF ToSet
<1>7. ToSet(Final) \subseteq Old \cup Given /\ ToSet(Final) \cap StickyIds = {}
  BY <1>1, <1>2, <1>3, <1>6
<1>8. Stale = (Old \ ({job.entries[i] : i \in DOMAIN job.doc} \cup {Superseded(i) : i \in Updated}))
              \cup {job.entries[i] : i \in Updated}
  BY DEF Stale
<1>9. Stale \subseteq Old \cup Given /\ Stale \cap StickyIds = {}
  BY <1>1, <1>2, <1>8
<1>10. ASSUME NEW i \in DOMAIN job.doc PROVE Final[i] \notin Stale
  <2>1. CASE i \in Updated
    BY <1>1, <1>3, <1>8, <2>1
  <2>2. CASE i \notin Updated
    BY <1>1, <1>3, <1>8, <2>2
  <2> QED
    BY <2>1, <2>2
<1>11. ASSUME NEW id \in Old \cup Given PROVE id \in ToSet(Final) \cup Stale
  <2>1. CASE \E i \in DOMAIN job.doc : id = job.entries[i]
    BY <1>3, <1>6, <1>8, <2>1
  <2>2. CASE \E i \in Updated : id = Superseded(i)
    BY <1>1, <1>3, <1>6, <2>2
  <2>3. CASE /\ ~ (\E i \in DOMAIN job.doc : id = job.entries[i])
             /\ ~ (\E i \in Updated : id = Superseded(i))
    BY <1>2, <1>8, <2>3
  <2> QED
    BY <2>1, <2>2, <2>3
<1> QED
  BY <1>3, <1>4, <1>5, <1>6, <1>7, <1>9, <1>10, <1>11 DEF IsInjective

\* Order preserves the invariant: what leaves the list is what will be deleted.
LEMMA OrderStep == SubInv /\ Order => SubInv'
<1> SUFFICES ASSUME SubInv, Order PROVE SubInv'
  OBVIOUS
<1>0. /\ SubTypes /\ FreshInv /\ ListInv /\ StickyInv /\ EntryInv /\ RowInv /\ CoverInv
      /\ step = "order" /\ step' = "unlist" /\ UNCHANGED <<rows, next, started, user>>
      /\ ~job.cleared
  BY Reconciling DEF SubInv, Order
<1>1. /\ Final \in Lists /\ IsInjective(Final)
      /\ ToSet(Final) \subseteq Old \cup Given /\ ToSet(Final) \cap StickyIds = {}
      /\ Stale \subseteq Old \cup Given
      /\ Stale \cap ToSet(Final) = {} /\ Stale \cap StickyIds = {}
      /\ Old \cup Given \subseteq ToSet(Final) \cup Stale
  BY <1>0, FinalIs
<1> HIDE DEF Stale
<1>2. list' = PutBack(Final, job.sticky) /\ saved' = list'
      /\ job' = [job EXCEPT !.todo = Stale, !.before = <<list>>]
  BY DEF Order, Final
<1>3. /\ Live \subseteq Ids /\ Listed \subseteq Ids
      /\ Old \subseteq Ids /\ StickyIds \subseteq Ids /\ Given \subseteq Ids
  BY <1>0, JobSets DEF Live
<1>4. list' \in Lists /\ ListInv' /\ Listed' = ToSet(Final) \cup StickyIds
  <2> DEFINE at == job.sticky
  <2>1. at \in Seq((Nat \ {0}) \X Ids) /\ Final \in Seq(Ids)
    BY <1>0, <1>1, JobTypes DEF Places2, Places, Lists
  <2>2. /\ Placed(at) = StickyIds
        /\ \A m, n \in DOMAIN at : at[m][2] = at[n][2] => m = n
    BY <1>0 DEF StickyIds, StickyInv, ToSet, Placed
  <2>3. \A n \in DOMAIN at : at[n][2] \notin ToSet(Final)
    BY <1>1, <2>2 DEF Placed
  <2> HIDE DEF at, Final
  <2>4. /\ PutBack(Final, at) \in Seq(Ids)
        /\ ToSet(PutBack(Final, at)) = ToSet(Final) \cup Placed(at)
        /\ IsInjective(PutBack(Final, at))
    <3>1. PutBack(Final, at) \in Seq(Ids)
      BY <2>1, PutBackMembers
    <3>2. ToSet(PutBack(Final, at)) = ToSet(Final) \cup Placed(at)
      BY <2>1, PutBackMembers
    <3>3. /\ IsInjective(Final) /\ \A n \in DOMAIN at : at[n][2] \notin ToSet(Final)
          /\ \A m, n \in DOMAIN at : at[m][2] = at[n][2] => m = n
          => IsInjective(PutBack(Final, at))
      BY <2>1, PutBackMembers, Zenon
    <3> QED
      BY <1>1, <2>2, <2>3, <3>1, <3>2, <3>3
  <2> QED
    BY <1>2, <2>2, <2>4 DEF at, Lists, ListInv, Listed
<1>5. /\ /\ job' \in Jobs
      /\ job'.doc = job.doc
      /\ job'.sticky = job.sticky
      /\ job'.old = job.old
      /\ job'.entries = job.entries /\ job'.before = <<list>>
      /\ job'.todo = Stale /\ job'.kept = job.kept
  <2>1. <<list>> \in Befores /\ Stale \subseteq Ids
    BY <1>0, <1>1, <1>3 DEF Befores, SubTypes
  <2> DEFINE b == <<list>>
  <2>2. job' = [job EXCEPT !.todo = Stale, !.before = b]
    BY <1>2
  <2> HIDE DEF b
  <2>3. /\ /\ job' \in Jobs
        /\ job'.doc = job.doc
        /\ job'.sticky = job.sticky
        /\ job'.old = job.old
        /\ job'.entries = job.entries /\ job'.before = b
        /\ job'.todo = Stale /\ job'.kept = job.kept
    <3>1. b \in Befores
      BY <2>1 DEF b
    <3> QED
      BY <1>0, <2>1, <2>2, <3>1 DEF SubTypes, Jobs
  <2> QED
    BY <2>3 DEF b
<1>6. job'.before # <<>>
  <2>1. <<list>> # <<>>
    BY <1>0 DEF SubTypes
  <2> QED
    BY <1>5, <2>1
<1>7. UNCHANGED <<Live, StickyIds, Old, Given>>
  BY <1>0, <1>5 DEF Live, Alive, StickyIds, Old, Given
<1> HIDE DEF Final
<1>8. SubTypes'
  BY <1>0, <1>4, <1>5 DEF SubTypes, Steps, user
<1>9. FreshInv'
  BY <1>0, <1>1, <1>4, <1>5, <1>7 DEF FreshInv
<1>10. StickyInv'
  BY <1>0, <1>5, <1>6, <1>7 DEF StickyInv, Clearing
<1>11. EntryInv'
  BY <1>0 DEF EntryInv, Building
<1>12. RowInv'
  BY <1>0, <1>1, <1>4, <1>5, <1>6, <1>7 DEF RowInv, Building, Clearing, Deleting, user
<1>13. CoverInv'
  BY <1>0, <1>1, <1>4, <1>5, <1>6, <1>7 DEF CoverInv, Building, user
<1> QED
  BY <1>4, <1>8, <1>9, <1>10, <1>11, <1>12, <1>13 DEF SubInv

\* Which ids the last step of a reconciliation puts back.
LEMMA KeepPuts ==
    ASSUME SubTypes, ListInv, StickyInv, Keep
    PROVE  \E at \in Seq((Nat \ {0}) \X Ids) :
               /\ list' = PutBack(list, at) /\ Placed(at) = job.kept \ Listed
               /\ saved' = IF job.kept # {} THEN list' ELSE saved
               /\ \A n \in DOMAIN at : at[n][2] \notin ToSet(list)
               /\ \A m, n \in DOMAIN at : at[m][2] = at[n][2] => m = n
               /\ job.kept = {} => at = <<>>
<1>0. job.before # <<>> /\ SubTypes
  BY DEF StickyInv, Keep
<1>1. /\ list \in Lists /\ IsInjective(list) /\ Listed \subseteq Ids /\ saved = list
      /\ job.kept \subseteq Ids
  BY JobTypes, JobSets DEF SubTypes, ListInv
<1> DEFINE was == job.before[1]
           Place(id) == IF id \in ToSet(was) THEN CHOOSE i \in DOMAIN was : was[i] = id
                        ELSE Len(list) + 1
           back == SetToList(job.kept \ ToSet(list))
           at == [n \in DOMAIN back |-> <<Place(back[n]), back[n]>>]
<1>2. list' = PutBack(list, at) /\ saved' = IF job.kept # {} THEN list' ELSE saved
  BY DEF Keep
<1>3. was \in Lists
  BY <1>0, JobTypes DEF Befores
<1>4. ASSUME NEW id \in Ids PROVE Place(id) \in Nat \ {0}
  <2>1. CASE id \in ToSet(was)
    <3>1. \E i \in DOMAIN was : was[i] = id
      BY <2>1 DEF ToSet
    <3>2. Place(id) = CHOOSE i \in DOMAIN was : was[i] = id
      BY <2>1
    <3>3. Place(id) \in DOMAIN was
      BY <3>1, <3>2
    <3>4. DOMAIN was = 1 .. Len(was) /\ Len(was) \in Nat
      BY <1>3, LenProperties DEF Lists
    <3> HIDE DEF Place
    <3> QED
      BY <3>3, <3>4
  <2>2. CASE id \notin ToSet(was)
    BY <1>1, <2>2, LenProperties DEF Lists
  <2> QED
    BY <2>1, <2>2
<1> HIDE DEF was, Place
<1>5. back \in Lists /\ ToSet(back) = job.kept \ Listed /\ IsInjective(back)
  BY <1>1, SetToListIs DEF Listed
<1> HIDE DEF back
<1>6. /\ at \in Seq((Nat \ {0}) \X Ids) /\ Placed(at) = job.kept \ Listed
      /\ \A n \in DOMAIN at : at[n][2] \notin ToSet(list)
      /\ \A m, n \in DOMAIN at : at[m][2] = at[n][2] => m = n
      /\ job.kept = {} => at = <<>>
  <2>1. /\ DOMAIN back = 1 .. Len(back) /\ Len(back) \in Nat
        /\ \A n \in 1 .. Len(back) : back[n] \in Ids
    BY <1>5, LenProperties, ElementOfSeq DEF Lists
  <2>2. at \in [1 .. Len(back) -> (Nat \ {0}) \X Ids]
    BY <1>4, <2>1
  <2>3. DOMAIN at = DOMAIN back /\ \A n \in DOMAIN at : at[n] = <<Place(back[n]), back[n]>>
    OBVIOUS
  <2> HIDE DEF at
  <2>4. at \in Seq((Nat \ {0}) \X Ids)
    BY <2>1, <2>2
  <2>5. \A n \in DOMAIN at : at[n][2] = back[n]
    BY <2>3
  <2>6. Placed(at) = ToSet(back)
    BY <2>3, <2>5 DEF Placed, ToSet
  <2>7. \A n \in DOMAIN at : at[n][2] \in job.kept \ Listed
    BY <1>5, <2>3, <2>5 DEF ToSet
  <2>8. \A m, n \in DOMAIN at : at[m][2] = at[n][2] => m = n
    BY <1>5, <2>3, <2>5 DEF IsInjective
  <2>9. ASSUME job.kept = {} PROVE at = <<>>
    <3>1. \A n \in DOMAIN at : FALSE
      BY <2>7, <2>9
    <3>2. Len(at) = 0
      <4>1. Len(at) \in Nat /\ DOMAIN at = 1 .. Len(at)
        BY <2>4, LenProperties
      <4>2. Len(at) > 0 => 1 \in DOMAIN at
        BY <4>1
      <4> QED
        BY <3>1, <4>1, <4>2
    <3> QED
      BY <2>4, <3>2, EmptySeq
  <2> QED
    BY <1>5, <2>4, <2>6, <2>7, <2>8, <2>9 DEF Listed
<1> HIDE DEF at
<1> QED
  BY <1>2, <1>6

\* Keep preserves the invariant: what was spared is listed again.
LEMMA KeepStep == SubInv /\ Keep => SubInv'
<1> SUFFICES ASSUME SubInv, Keep PROVE SubInv'
  OBVIOUS
<1>0. /\ SubTypes /\ FreshInv /\ ListInv /\ StickyInv /\ RowInv /\ CoverInv
      /\ step = "keep" /\ step' = "done" /\ UNCHANGED <<rows, next, started, job, user>>
      /\ job.before # <<>>
  BY DEF SubInv, Keep, StickyInv
<1>1. /\ list \in Lists /\ IsInjective(list) /\ Listed \subseteq Ids /\ saved = list
      /\ job.kept \subseteq Ids
  BY <1>0, JobTypes, JobSets DEF SubTypes, ListInv
<1>2. PICK at \in Seq((Nat \ {0}) \X Ids) :
               /\ list' = PutBack(list, at) /\ Placed(at) = job.kept \ Listed
               /\ saved' = IF job.kept # {} THEN list' ELSE saved
               /\ \A n \in DOMAIN at : at[n][2] \notin ToSet(list)
               /\ \A m, n \in DOMAIN at : at[m][2] = at[n][2] => m = n
               /\ job.kept = {} => at = <<>>
  BY <1>0, KeepPuts
<1>7. list' \in Lists /\ Listed' = Listed \cup job.kept /\ IsInjective(list')
  <2>0. list \in Seq(Ids) /\ at \in Seq((Nat \ {0}) \X Ids)
    BY <1>1 DEF Lists
  <2>1. PutBack(list, at) \in Seq(Ids)
    BY <2>0, PutBackMembers
  <2>2. ToSet(PutBack(list, at)) = ToSet(list) \cup Placed(at)
    BY <2>0, PutBackMembers
  <2>3. /\ IsInjective(list) /\ \A n \in DOMAIN at : at[n][2] \notin ToSet(list)
        /\ \A m, n \in DOMAIN at : at[m][2] = at[n][2] => m = n
        => IsInjective(PutBack(list, at))
    BY <2>0, PutBackMembers, Zenon
  <2> QED
    BY <1>1, <1>2, <2>1, <2>2, <2>3 DEF Lists, Listed
<1>8. ListInv'
  <2>1. CASE job.kept # {}
    BY <1>2, <1>7, <2>1 DEF ListInv
  <2>2. CASE job.kept = {}
    <3>1. list \in Seq(Ids) /\ at \in Seq((Nat \ {0}) \X Ids)
      BY <1>1 DEF Lists
    <3>2. PICK f : Walk(f, Ids, list, at)
      BY <3>1, PutBackIs
    <3>3. Len(at) = 0
      BY <1>2, <2>2
    <3>4. list' = list
      BY <1>2, <3>2, <3>3 DEF Walk
    <3> QED
      BY <1>1, <1>2, <2>2, <3>4 DEF ListInv
  <2> QED
    BY <2>1, <2>2
<1>9. UNCHANGED <<Live, StickyIds, Old, Given>>
  BY <1>0, SameJob DEF Live, Alive
<1>10. SubTypes'
  BY <1>0, <1>7 DEF SubTypes, Steps, user
<1>11. FreshInv'
  BY <1>0, <1>7, <1>9 DEF FreshInv
<1>12. StickyInv'
  BY <1>0, <1>9 DEF StickyInv, Clearing
<1>13. EntryInv'
  BY <1>0 DEF EntryInv, Building
<1>14. RowInv'
  BY <1>0, <1>7, <1>9 DEF RowInv, Building, Clearing, Deleting, user
<1>15. CoverInv'
  BY <1>0, <1>7, <1>9 DEF CoverInv, Building, user
<1> QED
  BY <1>8, <1>10, <1>11, <1>12, <1>13, <1>14, <1>15 DEF SubInv

\* A step that leaves the refresh alone, outside of the time in which an edit races it.
LEMMA OutsideWindow ==
    ASSUME SubTypes, step \notin Window
    PROVE  /\ step \notin {"clear", "read"} \cup Building /\ ~Clearing
           /\ step \in {"idle", "done", "keep", "unlist", "erase"}
           /\ step \in {"unlist", "erase"} => job.before # <<>>
BY DEF SubTypes, Steps, Window, Building, Clearing

\* An edit that races nothing falls outside the window.
LEMMA EditedIs ==
    ASSUME SubTypes, Edited
    PROVE  /\ budget' \in [refresh : Nat, edit : Nat] /\ edited' \in BOOLEAN
           /\ raced' \in BOOLEAN
           /\ ~raced' => ~raced /\ step \notin Window
<1>1. budget' \in [refresh : Nat, edit : Nat]
  BY DEF Edited, SubTypes
<1>2. edited' \in BOOLEAN
  BY DEF Edited
<1>3. raced' = (raced \/ step \in Window)
  BY DEF Edited
<1> HIDE DEF Window
<1> QED
  BY <1>1, <1>2, <1>3 DEF SubTypes

\* AddProfile preserves the invariant.
LEMMA AddStep == SubInv /\ AddProfile => SubInv'
<1> SUFFICES ASSUME SubInv, AddProfile PROVE SubInv'
  OBVIOUS
<1>0. /\ SubTypes /\ FreshInv /\ ListInv /\ StickyInv /\ EntryInv /\ RowInv /\ CoverInv
      /\ next <= MaxId /\ list' = Append(list, next) /\ saved' = list' /\ next' = next + 1
      /\ UNCHANGED <<started, setting, step, job, leaked>> /\ Edited
  BY DEF SubInv, AddProfile
<1>1. PICK c \in Servers \cup {Selector} : rows' = [rows EXCEPT ![next] = c]
  BY DEF AddProfile
<1>2. next \in Ids /\ next \in Nat /\ next' \in 1 .. MaxId + 1
  BY <1>0, SubscriptionAssumption DEF SubTypes, Ids
<1>3. rows' \in [Ids -> RowValues] /\ Live' = Live \cup {next}
  <2>1. c \in RowValues /\ c # NoRow
    BY SubscriptionAssumption DEF RowValues
  <2> QED
    BY <1>0, <1>1, <1>2, <2>1 DEF SubTypes, Live, Alive
<1>4. /\ /\ Listed \subseteq Ids
      /\ Live \subseteq Ids
      /\ StickyIds \subseteq Ids
      /\ Old \subseteq Ids
      /\ Given \subseteq Ids /\ job.todo \subseteq Ids /\ job.kept \subseteq Ids
      /\ \A id \in Ids : id \in Nat
  BY <1>0, JobSets, JobTypes DEF Live, Ids
<1>5. next \notin Listed /\ next \notin job.todo /\ next \notin job.kept
  BY <1>0, <1>2 DEF FreshInv
<1>6. list' \in Lists /\ Listed' = Listed \cup {next} /\ ListInv'
  <2>1. list \in Seq(Ids) /\ <<next>> \in Seq(Ids)
    BY <1>0, <1>2 DEF SubTypes, Lists
  <2>2. ToSet(<<next>>) = {next} /\ IsInjective(<<next>>)
    BY DEF ToSet, IsInjective
  <2>3. ToSet(list) \cap ToSet(<<next>>) = {} /\ IsInjective(list)
    BY <1>0, <1>5, <2>2 DEF Listed, ListInv
  <2> DEFINE t == <<next>>
  <2> HIDE DEF t
  <2>4. /\ list \o t \in Seq(Ids)
        /\ ToSet(list \o t) = ToSet(list) \cup ToSet(t)
        /\ IsInjective(list \o t)
    BY <2>1, <2>2, <2>3, JoinedLists DEF t
  <2>5. list' = list \o t
    BY <1>0, <2>1 DEF t
  <2> QED
    BY <1>0, <2>2, <2>4, <2>5 DEF t, Lists, Listed, ListInv
<1>7. /\ /\ budget' \in [refresh : Nat, edit : Nat]
      /\ edited' \in BOOLEAN
      /\ raced' \in BOOLEAN
      /\ ~raced' => ~raced /\ step \notin Window
  BY <1>0, EditedIs
<1>8. UNCHANGED <<StickyIds, Old, Given>>
  BY <1>0, SameJob
<1>9. SubTypes'
  BY <1>0, <1>2, <1>3, <1>6, <1>7 DEF SubTypes
<1>10. FreshInv'
  <2>1. \A id \in Ids : id < next => id < next'
    BY <1>0, <1>2, <1>4
  <2>2. next < next'
    BY <1>0, <1>2
  <2> QED
    BY <1>0, <1>3, <1>4, <1>6, <1>8, <2>1, <2>2 DEF FreshInv
<1>11. StickyInv'
  BY <1>0, <1>8 DEF StickyInv, Clearing
<1>12. EntryInv'
  BY <1>0, <1>8 DEF EntryInv, Building
<1>13. RowInv'
  <2> SUFFICES ASSUME ~raced' PROVE RowInv'
    BY DEF RowInv
  <2>1. /\ step \notin {"clear", "read"} \cup Building /\ ~Clearing /\ ~raced
        /\ step \in {"unlist", "erase"} => job.before # <<>>
    BY <1>0, <1>7, OutsideWindow
  <2> QED
    BY <1>0, <1>3, <1>5, <1>6, <1>8, <2>1 DEF RowInv, Building, Clearing, Deleting
<1>14. CoverInv'
  <2> SUFFICES ASSUME ~raced' PROVE CoverInv'
    BY DEF CoverInv
  <2>1. step \notin {"clear", "read"} \cup Building /\ ~Clearing /\ ~raced
    BY <1>0, <1>7, OutsideWindow
  <2> QED
    BY <1>0, <1>3, <1>6, <1>8, <2>1 DEF CoverInv, Building
<1> QED
  BY <1>6, <1>9, <1>10, <1>11, <1>12, <1>13, <1>14 DEF SubInv

\* DeleteProfile preserves the invariant.
LEMMA DeleteStep == SubInv /\ DeleteProfile => SubInv'
<1> SUFFICES ASSUME SubInv, DeleteProfile PROVE SubInv'
  OBVIOUS
<1>0. /\ SubTypes /\ FreshInv /\ ListInv /\ StickyInv /\ EntryInv /\ RowInv /\ CoverInv
      /\ UNCHANGED <<next, started, setting, step, job, leaked>> /\ Edited
  BY DEF SubInv, DeleteProfile
<1>1. PICK id \in Listed : Unlisted({id}) /\ rows' = [rows EXCEPT ![id] = NoRow]
  BY DEF DeleteProfile, Listed
<1>2. rows' \in [Ids -> RowValues] /\ Live' = Live \ {id}
  BY <1>0, <1>1, JobSets DEF SubTypes, Live, Alive, RowValues
<1>3. /\ /\ list' \in Lists
      /\ ListInv'
      /\ Listed' \subseteq Listed
      /\ Listed \ {id} \subseteq Listed'
      /\ (~ \E i \in {id} : Alive(i)) \/ Listed' = Listed \ {id}
  BY <1>0, <1>1, UnlistedIs
<1>4. /\ /\ budget' \in [refresh : Nat, edit : Nat]
      /\ edited' \in BOOLEAN
      /\ raced' \in BOOLEAN
      /\ ~raced' => ~raced /\ step \notin Window
  BY <1>0, EditedIs
<1>5. UNCHANGED <<StickyIds, Old, Given>>
  BY <1>0, SameJob
<1>6. SubTypes'
  BY <1>0, <1>2, <1>3, <1>4 DEF SubTypes
<1>7. FreshInv'
  BY <1>0, <1>2, <1>3, <1>5 DEF FreshInv
<1>8. StickyInv'
  BY <1>0, <1>5 DEF StickyInv, Clearing
<1>9. EntryInv'
  BY <1>0, <1>5 DEF EntryInv, Building
<1>10. RowInv'
  <2> SUFFICES ASSUME ~raced' PROVE RowInv'
    BY DEF RowInv
  <2>1. /\ step \notin {"clear", "read"} \cup Building /\ ~Clearing /\ ~raced
        /\ step \in {"unlist", "erase"} => job.before # <<>>
    BY <1>0, <1>4, OutsideWindow
  <2>2. Listed' = Listed \ {id}
    BY <1>0, <1>3, <2>1 DEF RowInv, Live
  <2> QED
    BY <1>0, <1>1, <1>2, <1>5, <2>1, <2>2 DEF RowInv, Building, Clearing, Deleting
<1>11. CoverInv'
  <2> SUFFICES ASSUME ~raced' PROVE CoverInv'
    BY DEF CoverInv
  <2>1. step \notin {"clear", "read"} \cup Building /\ ~Clearing /\ ~raced
    BY <1>0, <1>4, OutsideWindow
  <2> QED
    BY <1>0, <1>2, <1>3, <1>5, <2>1 DEF CoverInv, Building
<1> QED
  BY <1>3, <1>6, <1>7, <1>8, <1>9, <1>10, <1>11 DEF SubInv

\* Starting and stopping profiles preserves the invariant.
LEMMA StartStopStep == SubInv /\ (StartProfile \/ StopProfile) => SubInv'
<1> SUFFICES ASSUME SubInv, StartProfile \/ StopProfile PROVE SubInv'
  OBVIOUS
<1>0. /\ SubTypes /\ FreshInv /\ ListInv /\ StickyInv /\ EntryInv /\ RowInv /\ CoverInv
      /\ UNCHANGED <<rows, list, saved, next, step, job, setting, raced, leaked, edited, budget>>
  BY DEF SubInv, StartProfile, StopProfile, store, user
<1>1. started' \in Ids \cup {NoId}
  BY <1>0, JobSets DEF StartProfile, StopProfile, Listed
<1>2. UNCHANGED <<Live, Listed, StickyIds, Old, Given>>
  BY <1>0, SameJob DEF Live, Alive, Listed
<1>3. SubTypes'
  BY <1>0, <1>1 DEF SubTypes
<1>4. FreshInv' /\ ListInv' /\ StickyInv'
  BY <1>0, <1>2 DEF FreshInv, ListInv, StickyInv, Clearing
<1>5. EntryInv'
  BY <1>0, <1>2 DEF EntryInv, Building
<1>6. RowInv'
  BY <1>0, <1>2 DEF RowInv, Building, Clearing, Deleting
<1>7. CoverInv'
  BY <1>0, <1>2 DEF CoverInv, Building
<1> QED
  BY <1>3, <1>4, <1>5, <1>6, <1>7 DEF SubInv

\* LateSave preserves the invariant: it is said to leak.
LEMMA LateSaveStep == SubInv /\ LateSave => SubInv'
<1> SUFFICES ASSUME SubInv, LateSave PROVE SubInv'
  OBVIOUS
<1>0. /\ /\ SubTypes
      /\ FreshInv
      /\ ListInv
      /\ StickyInv
      /\ EntryInv
      /\ RowInv
      /\ leaked' = TRUE
      /\ UNCHANGED <<list, saved, next, started, setting, step, job, raced, edited>>
  BY DEF SubInv, LateSave
<1>1. PICK id \in 1 .. next - 1, c \in Servers : rows' = [rows EXCEPT ![id] = c]
  BY DEF LateSave
<1>2. id \in Ids /\ id < next
  BY <1>0, SubscriptionAssumption DEF SubTypes, Ids
<1>3. rows' \in [Ids -> RowValues] /\ Live' = Live \cup {id}
  <2>1. c \in RowValues /\ c # NoRow
    BY SubscriptionAssumption DEF RowValues
  <2> QED
    BY <1>0, <1>1, <1>2, <2>1 DEF SubTypes, Live, Alive
<1>4. UNCHANGED <<Listed, StickyIds, Old, Given>>
  BY <1>0, SameJob DEF Listed
<1>5. budget' \in [refresh : Nat, edit : Nat]
  BY <1>0 DEF LateSave, SubTypes
<1>6. SubTypes'
  BY <1>0, <1>3, <1>5 DEF SubTypes
<1>7. FreshInv' /\ ListInv' /\ StickyInv'
  BY <1>0, <1>2, <1>3, <1>4 DEF FreshInv, ListInv, StickyInv, Clearing
<1>8. EntryInv'
  BY <1>0, <1>4 DEF EntryInv, Building
<1>9. RowInv'
  BY <1>0, <1>3, <1>4 DEF RowInv, Building, Clearing, Deleting
<1>10. CoverInv'
  BY <1>0 DEF CoverInv
<1> QED
  BY <1>6, <1>7, <1>8, <1>9, <1>10 DEF SubInv

\* Crash preserves the invariant: the list on disk is the list in memory.
LEMMA CrashStep == SubInv /\ Crash => SubInv'
<1> SUFFICES ASSUME SubInv, Crash PROVE SubInv'
  OBVIOUS
<1>0. /\ SubTypes /\ FreshInv /\ ListInv /\ RowInv
      /\ step' = "idle" /\ job' = NoJob /\ list' = list /\ started' = NoId /\ leaked' = TRUE
      /\ UNCHANGED <<rows, saved, next, setting, raced, edited, budget>>
  BY DEF SubInv, Crash, ListInv
<1>1. UNCHANGED <<Live, Listed>>
  BY <1>0 DEF Live, Alive, Listed
<1>2. SubTypes'
  BY <1>0, NoJobIs DEF SubTypes, Steps
<1>3. ListInv' /\ \A id \in Live' \cup Listed' : id < next'
  BY <1>0, <1>1 DEF FreshInv, ListInv
<1>4. ~raced' => Listed' \subseteq Live'
  BY <1>0, <1>1 DEF RowInv
<1>5. Idle'
  BY <1>0, <1>2, <1>3, <1>4 DEF Idle
<1> QED
  BY <1>5, IdleInv, PTL

\* A step that changes nothing preserves the invariant.
LEMMA StutterStep == SubInv /\ UNCHANGED subVars => SubInv'
<1> SUFFICES ASSUME SubInv, UNCHANGED subVars PROVE SubInv'
  OBVIOUS
<1> USE DEF subVars
<1>1. UNCHANGED <<Live, Listed, StickyIds, Old, Given>>
  BY SameJob DEF Live, Alive, Listed
<1>2. SubTypes' /\ FreshInv' /\ ListInv' /\ StickyInv'
  BY <1>1 DEF SubInv, SubTypes, FreshInv, ListInv, StickyInv, Clearing
<1>3. EntryInv'
  BY <1>1 DEF SubInv, EntryInv, Building
<1>4. RowInv' /\ CoverInv'
  BY <1>1 DEF SubInv, RowInv, CoverInv, Building, Clearing, Deleting
<1> QED
  BY <1>2, <1>3, <1>4 DEF SubInv

\* Every step preserves the invariant.
LEMMA NextSub == SubInv /\ [SubNext]_subVars => SubInv'
<1> SUFFICES ASSUME SubInv, [SubNext]_subVars PROVE SubInv'
  OBVIOUS
<1>1. CASE Refresh
  BY <1>1, FetchStep, ClearStep, UnlistStep, EraseStep, ReadStep, InsertStep, UpdateStep,
     OrderStep, KeepStep, FinishStep DEF Refresh
<1>2. CASE User
  BY <1>2, AddStep, DeleteStep, StartStopStep DEF User
<1>3. CASE LateSave \/ Crash
  BY <1>3, LateSaveStep, CrashStep
<1>4. CASE UNCHANGED subVars
  BY <1>4, StutterStep
<1> QED
  BY <1>1, <1>2, <1>3, <1>4 DEF SubNext

\* The types, and what each step of a refresh may rely on, hold always.
THEOREM SubscriptionInvariant == SubSpec => []SubInv
BY InitSub, NextSub, PTL DEF SubSpec

\* The invariant has what ListedHasRow says.
LEMMA SubInvListed == SubInv => ListedHasRow
<1> SUFFICES ASSUME SubInv, ~raced PROVE \A l \in {list, saved} :
                 IsInjective(l) /\ \A id \in ToSet(l) : Alive(id)
  BY DEF ListedHasRow
<1> QED
  BY DEF SubInv, ListInv, RowInv, Listed, Live

\* The group never names a profile twice or one without a row, in memory or on disk,
\* unless an edit fell between the refresh reading the group and writing it.
THEOREM SubscriptionListedHasRow == SubSpec => []ListedHasRow
BY SubscriptionInvariant, SubInvListed, PTL

\* The invariant has what NothingOrphaned says.
LEMMA SubInvOrphaned == SubInv => NothingOrphaned
<1> SUFFICES ASSUME SubInv, step = "idle", ~raced, ~leaked PROVE Live = Listed
  BY DEF NothingOrphaned, Live, Listed
<1> QED
  BY DEF SubInv, RowInv, CoverInv

\* Between refreshes every profile row has its place in the list, unless the user raced
\* a refresh, one was interrupted or a deleted profile was saved.
THEOREM SubscriptionNothingOrphaned == SubSpec => []NothingOrphaned
BY SubscriptionInvariant, SubInvOrphaned, PTL

\* Where two sequences agree on what is asked for, so do the counts.
LEMMA UptoSame ==
    ASSUME NEW s, NEW t, NEW T, NEW U, NEW i \in Nat,
           \A j \in 1 .. i : s[j] \in T <=> t[j] \in U
    PROVE  Upto(s, i, T) = Upto(t, i, U)
<1>1. {j \in 1 .. i : s[j] \in T} = {j \in 1 .. i : t[j] \in U}
  OBVIOUS
<1> QED
  BY <1>1 DEF Upto

\* Only depends on the members of the sequence that are asked for.
LEMMA OnlySame ==
    ASSUME NEW S, NEW s \in Seq(S), NEW T, NEW U, ToSet(s) \cap T = ToSet(s) \cap U
    PROVE  Only(s, T) = Only(s, U)
<1>1. Len(s) \in Nat /\ \A i \in 1 .. Len(s) : s[i] \in T <=> s[i] \in U
  BY LenProperties DEF ToSet
<1>2. \A i \in 0 .. Len(s) : Upto(s, i, T) = Upto(s, i, U)
  BY <1>1, UptoSame
<1>3. Upto(s, Len(s), T) = Upto(s, Len(s), U)
  BY <1>1, <1>2
<1>4. ASSUME NEW n \in 1 .. Upto(s, Len(s), T) PROVE Nth(s, T, n) = Nth(s, U, n)
  <2> DEFINE k == Nth(s, T, n)
  <2>1. k \in 1 .. Len(s) /\ s[k] \in T /\ Upto(s, k, T) = n
    BY NthIs
  <2> HIDE DEF k
  <2>2. s[k] \in U /\ Upto(s, k, U) = n
    BY <1>1, <1>2, <2>1
  <2>3. Nth(s, U, n) = k
    BY <2>1, <2>2, NthOf
  <2> QED
    BY <2>3 DEF k
<1> QED
  BY <1>3, <1>4 DEF Only

\* Asked for all its members, a sequence stays as it is.
LEMMA OnlyAll ==
    ASSUME NEW S, NEW s \in Seq(S), NEW T, ToSet(s) \subseteq T
    PROVE  Only(s, T) = s
<1>1. Len(s) \in Nat /\ \A i \in 1 .. Len(s) : s[i] \in T
  BY LenProperties DEF ToSet
<1>2. ASSUME NEW i \in 0 .. Len(s) PROVE Upto(s, i, T) = i
  <2>1. {j \in 1 .. i : s[j] \in T} = 1 .. i
    BY <1>1
  <2>2. Cardinality(1 .. i) = i
    BY FS_Interval
  <2> QED
    BY <2>1, <2>2 DEF Upto
<1>3. Only(s, T) \in Seq(S) /\ Len(Only(s, T)) = Len(s)
      /\ \A n \in 1 .. Len(Only(s, T)) : Only(s, T)[n] = s[Nth(s, T, n)]
  BY <1>1, <1>2, OnlyIs
<1>4. ASSUME NEW n \in 1 .. Len(s) PROVE Only(s, T)[n] = s[n]
  <2>1. s[n] \in T /\ Upto(s, n, T) = n
    BY <1>1, <1>2
  <2>2. Nth(s, T, n) = n
    BY <2>1, NthOf
  <2> QED
    BY <1>3, <2>2
<1> QED
  BY <1>3, <1>4, SeqEqual

\* One more member that is not asked for changes nothing.
LEMMA OnlyAt ==
    ASSUME NEW S, NEW s \in Seq(S), NEW i \in Nat \ {0}, NEW e \in S, NEW T, e \notin T
    PROVE  Only(At(s, i, e), T) = Only(s, T)
<1> DEFINE k == Spot(s, i)
           t == At(s, i, e)
<1>1. Len(s) \in Nat /\ k \in 1 .. Len(s) + 1
  BY LenProperties, AtIs
<1>2. t \in Seq(S) /\ Len(t) = Len(s) + 1
  <2>1. t \in Seq(S)
    BY AtIs
  <2>2. Len(t) = Len(s) + 1
    BY AtIs
  <2> QED
    BY <2>1, <2>2
<1>3. \A j \in 1 .. Len(s) + 1 : t[j] = IF j < k THEN s[j] ELSE IF j = k THEN e ELSE s[j - 1]
  BY AtIs
<1> HIDE DEF k, t
<1>4. \A j \in 1 .. k - 1 : t[j] = s[j]
  BY <1>1, <1>3
<1>5. \A j \in k .. Len(s) : t[j + 1] = s[j]
  BY <1>1, <1>3
<1>6. t[k] \notin T
  BY <1>1, <1>3
<1>7. \A j \in 0 .. k - 1 : Upto(t, j, T) = Upto(s, j, T)
  <2> SUFFICES ASSUME NEW j \in 0 .. k - 1 PROVE Upto(t, j, T) = Upto(s, j, T)
    OBVIOUS
  <2>1. j \in Nat /\ \A m \in 1 .. j : t[m] \in T <=> s[m] \in T
    BY <1>1, <1>4
  <2> QED
    BY <2>1, UptoSame
<1>8. Upto(t, k, T) = Upto(s, k - 1, T)
  <2>1. k - 1 \in Nat /\ (k - 1) + 1 = k /\ k - 1 \in 0 .. k - 1
    BY <1>1
  <2>2. Upto(t, k, T) = Upto(t, k - 1, T)
    BY <1>6, <2>1, UptoStep
  <2> QED
    BY <1>7, <2>1, <2>2
<1>9. \A j \in k - 1 .. Len(s) : Upto(t, j + 1, T) = Upto(s, j, T)
  <2> DEFINE W == {m \in Nat : k - 1 + m <= Len(s) => Upto(t, k + m, T) = Upto(s, k - 1 + m, T)}
  <2>1. 0 \in W
    BY <1>1, <1>8
  <2>2. ASSUME NEW m \in Nat, m \in W, k - 1 + (m + 1) <= Len(s)
        PROVE  Upto(t, k + (m + 1), T) = Upto(s, k - 1 + (m + 1), T)
    <3>1. /\ k + m \in Nat /\ k - 1 + m \in Nat /\ k + (m + 1) = (k + m) + 1
          /\ k - 1 + (m + 1) = (k - 1 + m) + 1 /\ k - 1 + m <= Len(s)
          /\ k + m \in k .. Len(s) /\ (k - 1 + m) + 1 = k + m
      BY <1>1, <2>2
    <3>2. t[(k + m) + 1] = s[k + m]
      BY <1>5, <3>1
    <3>3. Upto(t, k + m, T) = Upto(s, k - 1 + m, T)
      BY <2>2, <3>1
    <3>4. Upto(t, (k + m) + 1, T) = IF t[(k + m) + 1] \in T THEN Upto(t, k + m, T) + 1
                                                            ELSE Upto(t, k + m, T)
      BY <3>1, UptoStep
    <3>5. Upto(s, (k - 1 + m) + 1, T) = IF s[(k - 1 + m) + 1] \in T THEN Upto(s, k - 1 + m, T) + 1
                                                        ELSE Upto(s, k - 1 + m, T)
      BY <3>1, UptoStep
    <3> QED
      BY <3>1, <3>2, <3>3, <3>4, <3>5
  <2>3. \A m \in Nat : m \in W => m + 1 \in W
    BY <2>2
  <2> HIDE DEF W
  <2>4. Nat \subseteq W
    BY <2>1, <2>3, SetInduction
  <2>5. ASSUME NEW j \in k - 1 .. Len(s) PROVE Upto(t, j + 1, T) = Upto(s, j, T)
    <3>1. /\ j - (k - 1) \in Nat
          /\ k - 1 + (j - (k - 1)) = j
          /\ k + (j - (k - 1)) = j + 1
          /\ j <= Len(s)
      BY <1>1
    <3>2. j - (k - 1) \in W
      BY <2>4, <3>1
    <3> QED
      BY <3>1, <3>2 DEF W
  <2> QED
    BY <2>5
<1>10. Upto(t, Len(t), T) = Upto(s, Len(s), T)
  <2>1. Len(s) \in k - 1 .. Len(s)
    BY <1>1
  <2> QED
    BY <1>2, <1>9, <2>1
<1>11. ASSUME NEW n \in 1 .. Upto(s, Len(s), T) PROVE t[Nth(t, T, n)] = s[Nth(s, T, n)]
  <2> DEFINE j == Nth(s, T, n)
  <2>1. j \in 1 .. Len(s) /\ s[j] \in T /\ Upto(s, j, T) = n
    BY NthIs
  <2> HIDE DEF j
  <2>2. CASE j < k
    <3>1. j \in 1 .. Len(t) /\ t[j] = s[j] /\ Upto(t, j, T) = n
      BY <1>1, <1>2, <1>4, <1>7, <2>1, <2>2
    <3>2. Nth(t, T, n) = j
      BY <1>2, <2>1, <3>1, NthOf
    <3> QED
      BY <3>1, <3>2 DEF j
  <2>3. CASE ~ (j < k)
    <3>1. j + 1 \in 1 .. Len(t) /\ t[j + 1] = s[j] /\ Upto(t, j + 1, T) = n
      BY <1>1, <1>2, <1>5, <1>9, <2>1, <2>3
    <3>2. Nth(t, T, n) = j + 1
      BY <1>2, <2>1, <3>1, NthOf
    <3> QED
      BY <3>1, <3>2 DEF j
  <2> QED
    BY <2>2, <2>3
<1>12. Only(t, T) = Only(s, T)
  BY <1>10, <1>11 DEF Only
<1> QED
  BY <1>12 DEF t

\* Putting ids back leaves the others in their order.
LEMMA OnlyPutBack ==
    ASSUME NEW S, NEW s \in Seq(S), NEW at \in Seq((Nat \ {0}) \X S), NEW T,
           Placed(at) \cap T = {}
    PROVE  Only(PutBack(s, at), T) = Only(s, T)
<1>0. PICK f : Walk(f, S, s, at)
  BY PutBackIs
<1>1. /\ f \in [0 .. Len(at) -> Seq(S)] /\ f[0] = s /\ f[Len(at)] = PutBack(s, at)
      /\ \A n \in 1 .. Len(at) : f[n] = At(f[n - 1], at[n][1], at[n][2])
  BY <1>0 DEF Walk
<1>2. /\ Len(at) \in Nat /\ DOMAIN at = 1 .. Len(at)
      /\ \A n \in 1 .. Len(at) : at[n][1] \in Nat \ {0} /\ at[n][2] \in S /\ at[n][2] \notin T
  BY LenProperties, ElementOfSeq DEF Placed
<1> DEFINE W == {n \in Nat : n <= Len(at) => Only(f[n], T) = Only(s, T)}
<1>3. 0 \in W
  BY <1>1
<1>4. ASSUME NEW n \in Nat, n \in W, n + 1 <= Len(at) PROVE Only(f[n + 1], T) = Only(s, T)
  <2> DEFINE g == f[n]
             i == at[n + 1][1]
             e == at[n + 1][2]
  <2>1. n \in 0 .. Len(at) /\ n + 1 \in 1 .. Len(at) /\ (n + 1) - 1 = n /\ n <= Len(at)
    BY <1>2, <1>4
  <2>2. g \in Seq(S) /\ i \in Nat \ {0} /\ e \in S /\ e \notin T /\ f[n + 1] = At(g, i, e)
    BY <1>1, <1>2, <2>1
  <2>3. Only(g, T) = Only(s, T)
    BY <1>4, <2>1
  <2> HIDE DEF g, i, e
  <2>4. Only(At(g, i, e), T) = Only(g, T)
    BY <2>2, OnlyAt
  <2> QED
    BY <2>2, <2>3, <2>4
<1>5. \A n \in Nat : n \in W => n + 1 \in W
  <2> SUFFICES ASSUME NEW n \in Nat, n \in W PROVE n + 1 \in W
    OBVIOUS
  <2>1. n + 1 <= Len(at) => Only(f[n + 1], T) = Only(s, T)
    <3> HIDE DEF W
    <3> QED
      BY <1>4
  <2> QED
    BY <2>1
<1> HIDE DEF W
<1>6. Len(at) \in W
  BY <1>2, <1>3, <1>5, SetInduction
<1> QED
  BY <1>1, <1>2, <1>6 DEF W

\* What is appended and asked for comes last.
LEMMA OnlyAppend ==
    ASSUME NEW S, NEW s \in Seq(S), NEW t \in Seq(S), NEW T, ToSet(t) \subseteq T
    PROVE  Only(s \o t, T) = Only(s, T) \o t
<1> DEFINE u == s \o t
           c == Upto(s, Len(s), T)
<1>1. /\ Len(s) \in Nat /\ Len(t) \in Nat /\ c \in Nat /\ \A j \in 1 .. Len(t) : t[j] \in T
  BY LenProperties, UptoType DEF ToSet
<1>2. /\ u \in Seq(S) /\ Len(u) = Len(s) + Len(t)
      /\ \A i \in 1 .. Len(s) + Len(t) : u[i] = IF i <= Len(s) THEN s[i] ELSE t[i - Len(s)]
  BY ConcatProperties
<1>0. /\ Only(s, T) \in Seq(S) /\ Len(Only(s, T)) = c
      /\ \A n \in 1 .. c : Only(s, T)[n] = s[Nth(s, T, n)]
  BY OnlyIs
<1> HIDE DEF u, c
<1>3. \A i \in 1 .. Len(s) : u[i] = s[i]
  BY <1>1, <1>2
<1>4. \A j \in 1 .. Len(t) : u[Len(s) + j] = t[j]
  <2> SUFFICES ASSUME NEW j \in 1 .. Len(t) PROVE u[Len(s) + j] = t[j]
    OBVIOUS
  <2>1. /\ Len(s) + j \in 1 .. Len(s) + Len(t)
        /\ ~ (Len(s) + j <= Len(s))
        /\ Len(s) + j - Len(s) = j
    BY <1>1
  <2> QED
    BY <1>2, <2>1
<1>5. \A i \in 0 .. Len(s) : Upto(u, i, T) = Upto(s, i, T)
  <2> SUFFICES ASSUME NEW i \in 0 .. Len(s) PROVE Upto(u, i, T) = Upto(s, i, T)
    OBVIOUS
  <2>1. i \in Nat /\ \A m \in 1 .. i : u[m] \in T <=> s[m] \in T
    BY <1>1, <1>3
  <2> QED
    BY <2>1, UptoSame
<1>6. \A j \in 0 .. Len(t) : Upto(u, Len(s) + j, T) = c + j
  <2> DEFINE W == {m \in Nat : m <= Len(t) => Upto(u, Len(s) + m, T) = c + m}
  <2>1. 0 \in W
    <3>1. Len(s) + 0 = Len(s) /\ Len(s) \in 0 .. Len(s) /\ c + 0 = c
      BY <1>1
    <3> QED
      BY <1>5, <3>1 DEF c
  <2>2. ASSUME NEW m \in Nat, m \in W, m + 1 <= Len(t)
        PROVE Upto(u, Len(s) + (m + 1), T) = c + (m + 1)
    <3>1. /\ Len(s) + m \in Nat /\ Len(s) + (m + 1) = (Len(s) + m) + 1 /\ m <= Len(t)
          /\ m + 1 \in 1 .. Len(t)
      BY <1>1, <2>2
    <3>2. Upto(u, Len(s) + m, T) = c + m
      BY <2>2, <3>1
    <3>3. u[(Len(s) + m) + 1] \in T
      BY <1>1, <1>4, <3>1
    <3>4. Upto(u, (Len(s) + m) + 1, T) = Upto(u, Len(s) + m, T) + 1
      BY <3>1, <3>3, UptoStep
    <3> QED
      BY <1>1, <3>1, <3>2, <3>4
  <2>3. \A m \in Nat : m \in W => m + 1 \in W
    BY <2>2
  <2> HIDE DEF W
  <2>4. Nat \subseteq W
    BY <2>1, <2>3, SetInduction
  <2>5. ASSUME NEW j \in 0 .. Len(t) PROVE Upto(u, Len(s) + j, T) = c + j
    BY <1>1, <2>4 DEF W
  <2> QED
    BY <2>5
<1>7. Upto(u, Len(u), T) = c + Len(t)
  <2>1. Len(t) \in 0 .. Len(t)
    BY <1>1
  <2> QED
    BY <1>2, <1>6, <2>1
<1>8. Only(u, T) \in Seq(S) /\ Len(Only(u, T)) = c + Len(t)
      /\ \A n \in 1 .. c + Len(t) : Only(u, T)[n] = u[Nth(u, T, n)]
  <2>1. u \in Seq(S)
    BY <1>2
  <2>2. /\ Only(u, T) \in Seq(S) /\ Len(Only(u, T)) = Upto(u, Len(u), T)
        /\ \A n \in 1 .. Len(Only(u, T)) : Only(u, T)[n] = u[Nth(u, T, n)]
    BY <2>1, OnlyIs
  <2> QED
    BY <1>7, <2>2
<1> DEFINE o == Only(s, T)
<1> HIDE DEF o
<1>9. /\ o \in Seq(S) /\ Len(o) = c /\ o \o t \in Seq(S) /\ Len(o \o t) = c + Len(t)
      /\ \A n \in 1 .. c + Len(t) : (o \o t)[n] = IF n <= c THEN o[n] ELSE t[n - c]
  <2>1. o \in Seq(S) /\ Len(o) = c
    BY <1>0 DEF o
  <2>2. /\ o \o t \in Seq(S) /\ Len(o \o t) = Len(o) + Len(t)
        /\ \A n \in 1 .. Len(o) + Len(t) : (o \o t)[n] = IF n <= Len(o) THEN o[n]
                                                                        ELSE t[n - Len(o)]
    BY <2>1, ConcatProperties
  <2> QED
    BY <2>1, <2>2
<1>10. ASSUME NEW n \in 1 .. c + Len(t) PROVE u[Nth(u, T, n)] = (o \o t)[n]
  <2>1. CASE n <= c
    <3> DEFINE i == Nth(s, T, n)
    <3>1. n \in 1 .. c
      BY <1>1, <2>1
    <3>2. i \in 1 .. Len(s) /\ s[i] \in T /\ Upto(s, i, T) = n /\ o[n] = s[i]
      BY <1>0, <3>1, NthIs DEF c, o
    <3> HIDE DEF i
    <3>3. i \in 1 .. Len(u) /\ u[i] = s[i] /\ Upto(u, i, T) = n
      BY <1>1, <1>2, <1>3, <1>5, <3>2
    <3>4. Nth(u, T, n) = i
      <4>1. u \in Seq(S) /\ i \in 1 .. Len(u) /\ u[i] \in T
        BY <1>2, <3>2, <3>3
      <4>2. Nth(u, T, Upto(u, i, T)) = i
        BY <4>1, NthOf
      <4> QED
        BY <3>3, <4>2
    <3> QED
      BY <1>9, <2>1, <3>2, <3>3, <3>4
  <2>2. CASE ~ (n <= c)
    <3>1. n - c \in 1 .. Len(t) /\ c + (n - c) = n /\ Len(s) + (n - c) \in 1 .. Len(u)
      BY <1>1, <1>2, <2>2
    <3>2. /\ u[Len(s) + (n - c)] = t[n - c]
          /\ t[n - c] \in T
          /\ Upto(u, Len(s) + (n - c), T) = n
      BY <1>1, <1>4, <1>6, <3>1
    <3> DEFINE i == Len(s) + (n - c)
    <3>3. i \in 1 .. Len(u) /\ u[i] \in T /\ Upto(u, i, T) = n /\ u[i] = t[n - c]
      BY <3>1, <3>2
    <3> HIDE DEF i
    <3>4. Nth(u, T, n) = i
      BY <1>2, <3>3, NthOf
    <3> QED
      BY <1>9, <2>2, <3>3, <3>4
  <2> QED
    BY <2>1, <2>2
<1>11. Only(u, T) = o \o t
  <2>1. \A n \in 1 .. c + Len(t) : Only(u, T)[n] = (o \o t)[n]
    BY <1>8, <1>10
  <2> DEFINE a == Only(u, T)
             b == o \o t
  <2>2. a \in Seq(S) /\ b \in Seq(S) /\ Len(a) = Len(b) /\ \A n \in 1 .. Len(a) : a[n] = b[n]
    BY <1>8, <1>9, <2>1
  <2> HIDE DEF a, b
  <2>3. a = b
    BY <2>2, SeqEqual
  <2> QED
    BY <2>3 DEF a, b
<1> QED
  BY <1>11 DEF u, o

\* An interval of ids in ascending order counts from its first to its last.
LEMMA SetToListInterval ==
    ASSUME NEW a \in Nat, NEW m \in Nat, a .. a + m - 1 \subseteq Ids
    PROVE  /\ Len(SetToList(a .. a + m - 1)) = m
           /\ \A n \in 1 .. m : SetToList(a .. a + m - 1)[n] = a + n - 1
<1> DEFINE T == a .. a + m - 1
           s == [id \in Ids |-> id]
<1>1. MaxId \in Nat /\ Ids = 1 .. MaxId
  BY SubscriptionAssumption DEF Ids
<1>2. s \in Seq(Ids) /\ Len(s) = MaxId /\ \A i \in 1 .. MaxId : s[i] = i
  BY <1>1
<1>3. SetToList(T) = Only(s, T)
  BY DEF SetToList
<1> HIDE DEF s
<1>4. ASSUME NEW n \in 0 .. m, a + n - 1 \in 0 .. MaxId, a > 0
      PROVE Upto(s, a + n - 1, T) = n
  <2>1. {j \in 1 .. a + n - 1 : s[j] \in T} = a .. a + n - 1
    <3>1. \A j \in 1 .. a + n - 1 : s[j] = j
      BY <1>2, <1>4
    <3> QED
      BY <1>4, <3>1
  <2>2. Cardinality(a .. a + n - 1) = n
    BY FS_Interval
  <2> QED
    BY <2>1, <2>2 DEF Upto
<1>5. CASE m = 0
  <2>1. T = {}
    BY <1>5
  <2>2. Len(Only(s, T)) = Upto(s, Len(s), T)
    BY <1>2, OnlyIs
  <2>3. Upto(s, Len(s), T) = 0
    <3>1. {j \in 1 .. Len(s) : s[j] \in T} = {}
      BY <2>1
    <3> QED
      BY <3>1, FS_EmptySet DEF Upto
  <2> QED
    BY <1>3, <1>5, <2>2, <2>3
<1>6. CASE m # 0
  <2>1. a \in Ids /\ a + m - 1 \in Ids
    BY <1>6
  <2>2. a > 0 /\ a + m - 1 <= MaxId
    BY <1>1, <2>1
  <2>3. Upto(s, MaxId, T) = m
    <3>1. {j \in 1 .. MaxId : s[j] \in T} = T
      BY <1>1, <1>2, <2>2
    <3>2. Cardinality(T) = m
      BY <1>6, FS_Interval
    <3> QED
      BY <3>1, <3>2 DEF Upto
  <2>4. Len(Only(s, T)) = m /\ \A n \in 1 .. m : Only(s, T)[n] = s[Nth(s, T, n)]
    BY <1>2, <2>3, OnlyIs
  <2>5. ASSUME NEW n \in 1 .. m PROVE Only(s, T)[n] = a + n - 1
    <3> DEFINE i == a + n - 1
    <3>1. n \in 0 .. m /\ i \in 1 .. MaxId /\ i \in T
      <4>1. n \in 1 .. m /\ n <= m /\ a <= a + n - 1 /\ a + n - 1 <= a + m - 1
        OBVIOUS
      <4> QED
        BY <1>1, <2>2, <4>1
    <3>2. s[i] = i /\ Upto(s, i, T) = n
      <4>1. i \in 0 .. MaxId
        BY <3>1
      <4> QED
        BY <1>2, <1>4, <2>2, <3>1, <4>1
    <3> HIDE DEF i, T
    <3>3. Nth(s, T, n) = i
      BY <1>2, <3>1, <3>2, NthOf
    <3> QED
      BY <2>4, <3>2, <3>3 DEF i
  <2> HIDE DEF T
  <2> QED
    BY <1>3, <2>4, <2>5 DEF T
<1> QED
  BY <1>5, <1>6

\* Every old profile that as many arrivals ask for has its arrival.
Claimed ==
    \A i \in DOMAIN job.old :
        LET c == job.was[job.old[i]]
        IN  Upto(job.old, i, {id \in Ids : job.was[id] = c}) <= Upto(job.doc, Len(job.doc), {c})
            => \E m \in DOMAIN job.doc : job.entries[m] = job.old[i] /\ job.doc[m] = c

\* The members of the list that have a row, without the selectors.
Own == Without(list, StickyIds \cup Having(NoRow))
Appended ==
    /\ Len(Own) <= Len(job.doc)
    /\ DOMAIN job.entries = DOMAIN job.doc
    /\ \A n \in DOMAIN job.doc : job.entries[n] = IF n <= Len(Own) THEN Own[n] ELSE NoId

\* In clear mode all members go.
ClearedRec ==
    /\ Clearing /\ (step = "unlist" \/ job.kept = {}) => Listed \ StickyIds \subseteq job.todo
    /\ step \in {"read", "insert", "done"} /\ job.cleared => job.kept = {}
    /\ step = "read" /\ job.cleared => Listed \ StickyIds \subseteq Having(NoRow)
    /\ step \in {"insert", "done"} /\ job.cleared => Appended
    /\ step = "done" /\ job.cleared => NoId \notin ToSet(job.entries) /\ job.old = <<>>
    /\ step = "keep" => ~job.cleared
\* The arrivals have their profiles, ...
EntryRec ==
    /\ step \in Building \cup {"done"} /\ (step = "done" => job.cleared) =>
           \A i \in DOMAIN job.doc : job.entries[i] # NoId => rows[job.entries[i]] = job.doc[i]
    /\ step \in {"insert", "update"} => Old \subseteq Live
\* ... and keep them to the end.
Ordered == Deleting \/ step = "keep"
Ending == step = "order" \/ Ordered \/ (step = "done" /\ ~job.cleared)
FinalRec ==
    /\ step \in Building \/ Ending => Claimed
    /\ Ending => \A i \in DOMAIN job.doc : rows[Final[i]] = job.doc[i]
    /\ Ordered => /\ list = PutBack(Final, job.sticky) /\ Final \in Lists
                  /\ ToSet(Final) \cap StickyIds = {}
    /\ Ordered /\ step # "unlist" => job.kept \cap ToSet(Final) = {}
    /\ Deleting => job.todo \cap (ToSet(Final) \cup StickyIds) = {}
    /\ step = "done" /\ ~job.cleared => Without(list, job.kept \cup StickyIds) = Final
RecInv == ~edited /\ ~leaked => ClearedRec /\ EntryRec /\ FinalRec

\* The new list is a matter of the locals alone.
LEMMA SameFinal ==
    ASSUME job'.doc = job.doc, job'.old = job.old, job'.was = job.was, job'.entries = job.entries
    PROVE  Final' = Final /\ Claimed' = Claimed
<1>1. Old' = Old
  BY DEF Old
<1>2. Known' = Known
  BY <1>1 DEF Known
<1>3. \A x : Leftover(x)' = Leftover(x)
  BY <1>1 DEF Leftover
<1>4. \A i : Superseded(i)' = Superseded(i)
  BY <1>2, <1>3 DEF Superseded
<1>5. Updated' = Updated
  BY <1>4 DEF Updated
<1>6. Final' = Final
  BY <1>4, <1>5 DEF Final
<1>7. Claimed' = Claimed
  BY DEF Claimed
<1> QED
  BY <1>6, <1>7

\* Once the list is ordered it names the arrivals' profiles and the selectors.
LEMMA ListedOrdered ==
    ASSUME SubTypes, StickyInv, Final \in Lists, list = PutBack(Final, job.sticky)
    PROVE  /\ Listed = ToSet(Final) \cup StickyIds
           /\ ToSet(Final) \cap StickyIds = {} => Only(list, ToSet(Final)) = Final
<1> DEFINE at == job.sticky
<1>1. at \in Seq((Nat \ {0}) \X Ids) /\ Final \in Seq(Ids)
  BY JobTypes DEF Places2, Places, Lists
<1>2. Placed(at) = StickyIds
  BY DEF StickyIds, ToSet, Placed
<1> HIDE DEF at, Final
<1>3. ToSet(PutBack(Final, at)) = ToSet(Final) \cup Placed(at)
  BY <1>1, PutBackMembers
<1>4. ASSUME ToSet(Final) \cap StickyIds = {} PROVE Only(list, ToSet(Final)) = Final
  <2> DEFINE T == ToSet(Final)
  <2>1. Placed(at) \cap T = {} /\ ToSet(Final) \subseteq T
    BY <1>2, <1>4
  <2> HIDE DEF T
  <2>2. Only(PutBack(Final, at), T) = Only(Final, T)
    BY <1>1, <2>1, OnlyPutBack
  <2>3. Only(Final, T) = Final
    BY <1>1, <2>1, OnlyAll
  <2> QED
    BY <2>2, <2>3 DEF T, at
<1> QED
  BY <1>2, <1>3, <1>4 DEF at, Listed

\* Before the members are read nothing is to be said but in clear mode.
LEMMA RecFetch == SubInv /\ Fetch => RecInv'
<1> SUFFICES ASSUME SubInv, Fetch PROVE RecInv'
  OBVIOUS
<1>1. PICK n \in 0 .. MaxDoc : \E doc \in [1 .. n -> Servers] :
           job' = [NoJob EXCEPT !.doc = doc, !.sticky = Sticky]
  BY DEF Fetch
<1>2. job'.cleared = FALSE
  BY <1>1, NoJobIs DEF NoJob
<1>3. step' \in {"clear", "read"}
  BY DEF Fetch
<1> QED
  BY <1>2, <1>3 DEF RecInv, ClearedRec, EntryRec, FinalRec, Ending, Ordered, Building,
     Clearing, Deleting

\* Clear preserves RecInv: in clear mode all members are to go.
LEMMA RecClear == SubInv /\ RecInv /\ Clear => RecInv'
<1> SUFFICES ASSUME SubInv, Clear PROVE RecInv'
  OBVIOUS
<1>0. /\ SubTypes /\ ListInv /\ StickyInv /\ step' = "unlist" /\ job.before = <<>>
  BY DEF SubInv, Clear, StickyInv
<1>1. /\ /\ job'.sticky = job.sticky
      /\ job'.before = job.before
      /\ job'.todo = Listed \ StickyIds
  BY <1>0, MembersIs, JobSets DEF Clear, SubTypes, Jobs, ListInv
<1>2. UNCHANGED <<Listed, StickyIds>>
  BY <1>1 DEF Clear, Listed, StickyIds
<1> QED
  BY <1>0, <1>1, <1>2 DEF RecInv, ClearedRec, EntryRec, FinalRec, Ending, Ordered,
     Building, Clearing, Deleting

\* Unlist preserves RecInv: no profile of an arrival is among those that go.
LEMMA RecUnlist == SubInv /\ RecInv /\ Unlist => RecInv'
<1> SUFFICES ASSUME SubInv, RecInv, Unlist, ~edited', ~leaked'
             PROVE ClearedRec' /\ EntryRec' /\ FinalRec'
  BY DEF RecInv
<1>0. /\ SubTypes /\ ListInv /\ StickyInv /\ step = "unlist"
      /\ step' = "erase" /\ Unlisted(job.todo \ Spared) /\ UNCHANGED <<rows, user>>
      /\ ClearedRec /\ EntryRec /\ FinalRec
  BY DEF SubInv, Unlist, RecInv, user
<1>1. Spared \subseteq job.todo /\ job.todo \subseteq Ids
  BY <1>0, JobTypes DEF Spared
<1>2. /\ /\ job'.doc = job.doc
      /\ job'.sticky = job.sticky
      /\ job'.old = job.old
      /\ job'.was = job.was
      /\ job'.entries = job.entries /\ job'.before = job.before
      /\ job'.todo = job.todo \ Spared /\ job'.kept = Spared
  <2>1. job' = [job EXCEPT !.todo = @ \ Spared, !.kept = Spared]
    BY DEF Unlist
  <2> HIDE DEF Spared
  <2> QED
    BY <1>0, <1>1, <2>1 DEF SubTypes, Jobs
<1> HIDE DEF Spared
<1>3. Final' = Final /\ Claimed' = Claimed /\ StickyIds' = StickyIds
  BY <1>2, SameFinal DEF StickyIds
<1>4. Listed' \subseteq Listed
  BY <1>0, UnlistedIs
<1>5. CASE job.before = <<>>
  <2>1. Listed \ StickyIds \subseteq job.todo
    BY <1>0, <1>5 DEF ClearedRec, Clearing
  <2> QED
    BY <1>0, <1>2, <1>3, <1>4, <1>5, <2>1
       DEF ClearedRec, EntryRec, FinalRec, Ending, Ordered, Building, Clearing, Deleting
<1>6. CASE job.before # <<>>
  <2>1. /\ list = PutBack(Final, job.sticky) /\ Final \in Lists
        /\ job.todo \cap (ToSet(Final) \cup StickyIds) = {}
        /\ ToSet(Final) \cap StickyIds = {}
        /\ Claimed /\ \A i \in DOMAIN job.doc : rows[Final[i]] = job.doc[i]
    BY <1>0, <1>6 DEF FinalRec, Ending, Ordered, Deleting
  <2>2. (job.todo \ Spared) \cap Listed = {}
    BY <1>0, <2>1, ListedOrdered
  <2>3. list' = list
    <3>1. Without(list, job.todo \ Spared) = list
      <4> DEFINE T == ToSet(list) \ (job.todo \ Spared)
      <4>1. list \in Seq(Ids) /\ ToSet(list) \subseteq T
        BY <1>0, <2>2 DEF SubTypes, Lists, Listed
      <4> HIDE DEF T
      <4>2. Only(list, T) = list
        BY <4>1, OnlyAll
      <4> QED
        BY <4>2 DEF T, Without
    <3> QED
      BY <1>0, <3>1 DEF Unlisted
  <2> HIDE DEF Final
  <2>4. ClearedRec' /\ EntryRec'
    BY <1>0, <1>2, <1>6 DEF ClearedRec, EntryRec, Building, Clearing
  <2>5. FinalRec'
    BY <1>0, <1>1, <1>2, <1>3, <1>6, <2>1, <2>3 DEF FinalRec, Ending, Ordered, Building,
       Deleting
  <2> QED
    BY <2>4, <2>5
<1> QED
  BY <1>5, <1>6

\* Erase preserves RecInv: if nothing was spared, clear mode left no member a row.
LEMMA RecErase == SubInv /\ RecInv /\ Erase => RecInv'
<1> SUFFICES ASSUME SubInv, RecInv, Erase, ~edited', ~leaked'
             PROVE ClearedRec' /\ EntryRec' /\ FinalRec'
  BY DEF RecInv
<1>0. /\ SubTypes /\ ListInv /\ StickyInv /\ step = "erase" /\ UNCHANGED <<list, user>>
      /\ step' = IF job.before = <<>> THEN "read" ELSE "keep"
      /\ ClearedRec /\ EntryRec /\ FinalRec
  BY DEF SubInv, Erase, RecInv, user
<1>1. /\ /\ job'.doc = job.doc
      /\ job'.sticky = job.sticky
      /\ job'.old = job.old
      /\ job'.was = job.was
      /\ job'.entries = job.entries /\ job'.before = job.before
      /\ job'.todo = job.todo /\ job'.kept = job.kept
      /\ job'.cleared <=> (job.before = <<>> /\ job.kept = {})
  BY <1>0 DEF Erase, SubTypes, Jobs
<1>2. /\ \A id \in Ids : id \in job.todo => rows'[id] = NoRow
      /\ \A id \in Ids : id \notin job.todo => rows'[id] = rows[id]
  BY DEF Erase
<1>3. Final' = Final /\ Claimed' = Claimed /\ StickyIds' = StickyIds /\ Listed' = Listed
  BY <1>0, <1>1, SameFinal DEF StickyIds, Listed
<1>4. CASE job.before = <<>>
  <2>1. job.kept = {} => Listed \ StickyIds \subseteq job.todo
    BY <1>0, <1>4 DEF ClearedRec, Clearing
  <2>2. job.kept = {} => Listed' \ StickyIds' \subseteq Having(NoRow)'
    BY <1>0, <1>2, <1>3, <2>1, JobSets DEF Having
  <2> QED
    BY <1>0, <1>1, <1>4, <2>2
       DEF ClearedRec, EntryRec, FinalRec, Ending, Ordered, Building, Clearing, Deleting
<1>5. CASE job.before # <<>>
  <2>1. /\ list = PutBack(Final, job.sticky) /\ Final \in Lists
        /\ job.todo \cap (ToSet(Final) \cup StickyIds) = {}
        /\ ToSet(Final) \cap StickyIds = {}
        /\ job.kept \cap ToSet(Final) = {}
        /\ Claimed /\ \A i \in DOMAIN job.doc : rows[Final[i]] = job.doc[i]
    BY <1>0, <1>5 DEF FinalRec, Ending, Ordered, Deleting
  <2>2. \A i \in DOMAIN job.doc : rows'[Final[i]] = job.doc[i]
    <3>1. \A i \in DOMAIN job.doc : Final[i] \in ToSet(Final)
      BY DEF Final, ToSet
    <3>2. ToSet(Final) \subseteq Ids
      BY <2>1, SeqRange DEF Lists
    <3> HIDE DEF Final
    <3> QED
      BY <1>2, <2>1, <3>1, <3>2
  <2> HIDE DEF Final
  <2>3. ClearedRec' /\ EntryRec'
    BY <1>0, <1>1, <1>5 DEF ClearedRec, EntryRec, Building, Clearing
  <2>4. FinalRec'
    BY <1>0, <1>1, <1>3, <1>5, <2>1, <2>2 DEF FinalRec, Ending, Ordered, Building, Deleting
  <2> QED
    BY <2>3, <2>4
<1> QED
  BY <1>4, <1>5

\* An old profile that is the n-th of its content is claimed by the n-th arrival of it.
LEMMA ClaimReaches ==
    ASSUME rows \in [Ids -> RowValues], NEW doc \in Docs, NEW old \in Lists,
           NEW i \in DOMAIN old,
           Upto(old, i, Having(rows[old[i]])) <= Upto(doc, Len(doc), {rows[old[i]]})
    PROVE  \E m \in DOMAIN doc : Claim(doc, old, m) = old[i] /\ doc[m] = rows[old[i]]
<1> DEFINE c == rows[old[i]]
           T == Having(c)
           D == {c}
           n == Upto(old, i, T)
<1>1. /\ old \in Seq(Ids) /\ i \in 1 .. Len(old) /\ old[i] \in T /\ Len(doc) \in Nat
      /\ DOMAIN doc = 1 .. Len(doc)
  BY LenProperties, ElementOfSeq DEF Lists, Docs, Having
<1>2. n <= Upto(doc, Len(doc), D)
  OBVIOUS
<1>3. \A x : x \in D <=> x = c
  OBVIOUS
<1>4. D = {c}
  OBVIOUS
<1>5. T = Having(c)
  OBVIOUS
<1> HIDE DEF T, D, c
<1>6. /\ n \in 1 .. Upto(old, Len(old), T) /\ Nth(old, T, n) = i
  BY <1>1, NthOf
<1>7. Len(Only(old, T)) = Upto(old, Len(old), T) /\ Only(old, T)[n] = old[i]
  <2>1. Len(Only(old, T)) = Upto(old, Len(old), T)
    BY <1>1, OnlyIs
  <2>2. \A k \in 1 .. Len(Only(old, T)) : Only(old, T)[k] = old[Nth(old, T, k)]
    BY <1>1, OnlyIs
  <2> QED
    BY <1>6, <2>1, <2>2
<1>8. Upto(old, Len(old), T) \in Nat /\ Upto(doc, Len(doc), D) \in Nat
  BY <1>1, UptoType, LenProperties
<1> HIDE DEF n
<1>9. n \in 1 .. Upto(doc, Len(doc), D)
  BY <1>2, <1>6, <1>8
<1>10. PICK m \in 1 .. Len(doc) : doc[m] \in D /\ Upto(doc, m, D) = n
  BY <1>1, <1>9, NthExists
<1>11. doc[m] = c
  BY <1>3, <1>10
<1>12. Claim(doc, old, m) = IF n <= Len(Only(old, T)) THEN Only(old, T)[n] ELSE NoId
  BY <1>4, <1>5, <1>10, <1>11 DEF Claim
<1>13. n <= Len(Only(old, T))
  BY <1>6, <1>7, <1>8
<1> QED
  BY <1>1, <1>7, <1>11, <1>12, <1>13 DEF c

\* Read preserves RecInv: what is claimed has the content that arrived.
LEMMA RecRead == SubInv /\ RecInv /\ Read => RecInv'
<1> SUFFICES ASSUME SubInv, RecInv, Read, ~edited', ~leaked'
             PROVE ClearedRec' /\ EntryRec' /\ FinalRec'
  BY DEF RecInv
<1>0. /\ SubTypes /\ ListInv /\ StickyInv /\ step = "read" /\ UNCHANGED <<rows, list, user>>
      /\ job.before = <<>> /\ ClearedRec /\ EntryRec /\ FinalRec
  BY DEF SubInv, Read, RecInv, StickyInv, user, store
<1> DEFINE old == IF job.cleared THEN <<>> ELSE Without(Members, Having(NoRow))
           claims == [i \in DOMAIN job.doc |-> Claim(job.doc, old, i)]
<1>1. CASE job.doc = <<>> /\ old # <<>>
  <2>1. step' = "idle"
    BY <1>1 DEF Read
  <2> QED
    BY <2>1 DEF ClearedRec, EntryRec, FinalRec, Ending, Ordered, Building, Clearing,
       Deleting
<1>2. CASE ~ (job.doc = <<>> /\ old # <<>>)
  <2>1. /\ step' = "insert"
        /\ job' = [job EXCEPT !.old = old, !.was = rows, !.entries = claims]
    BY <1>2 DEF Read
  <2>2. old \in Lists /\ IsInjective(old) /\ ToSet(old) \subseteq Live
    <3>1. Members \in Lists /\ ToSet(Members) = Listed \ StickyIds /\ IsInjective(Members)
      BY <1>0, MembersIs DEF ListInv
    <3> DEFINE w == Without(Members, Having(NoRow))
    <3>2. w \in Lists /\ IsInjective(w) /\ ToSet(w) = (Listed \ StickyIds) \ Having(NoRow)
      BY <3>1, WithoutIs DEF Lists
    <3> HIDE DEF w
    <3>3. ToSet(w) \subseteq Live
      BY <1>0, <3>2, JobSets DEF Having, Live, Alive
    <3>4. <<>> \in Lists /\ ToSet(<<>>) = {} /\ IsInjective(<<>>)
      BY EmptyList DEF Lists
    <3>5. old = IF job.cleared THEN <<>> ELSE w
      BY DEF w
    <3> HIDE DEF old
    <3> QED
      BY <3>2, <3>3, <3>4, <3>5
  <2>3. job.cleared => ToSet(old) = {}
    BY EmptyList
  <2> HIDE DEF old
  <2>4. /\ job.doc \in Docs
        /\ rows \in [Ids -> RowValues]
        /\ rows \in Pasts
        /\ Old' = ToSet(old)
        /\ DOMAIN job.doc = 1 .. Len(job.doc) /\ Len(job.doc) \in Nat
    <3>1. job'.old = old
      BY <1>0, <2>1 DEF SubTypes, Jobs
    <3> QED
      BY <1>0, <3>1, JobTypes, LenProperties DEF SubTypes, Docs, Pasts, Old
  <2>5. /\ \A i \in DOMAIN job.doc : Claim(job.doc, old, i) = NoId
                \/ /\ Claim(job.doc, old, i) \in ToSet(old)
                   /\ rows[Claim(job.doc, old, i)] = job.doc[i]
    BY <2>2, <2>4, ClaimIs
  <2>6. /\ job'.doc = job.doc /\ job'.sticky = job.sticky /\ job'.old = old
        /\ job'.entries = claims /\ job'.before = job.before /\ job'.was = rows
        /\ job'.todo = job.todo /\ job'.kept = job.kept /\ job'.cleared = job.cleared
    BY <1>0, <2>1 DEF SubTypes, Jobs
  <2>7. /\ DOMAIN claims = DOMAIN job.doc
        /\ \A i \in DOMAIN job.doc : claims[i] = Claim(job.doc, old, i)
    OBVIOUS
  <2> HIDE DEF claims
  <2>8. Claimed'
    <3>1. SUFFICES ASSUME NEW i \in DOMAIN old,
                          Upto(old, i, {id \in Ids : rows[id] = rows[old[i]]})
                              <= Upto(job.doc, Len(job.doc), {rows[old[i]]})
                   PROVE  \E m \in DOMAIN job.doc : claims[m] = old[i] /\ job.doc[m] = rows[old[i]]
      BY <2>6 DEF Claimed
    <3>2. Upto(old, i, Having(rows[old[i]])) <= Upto(job.doc, Len(job.doc), {rows[old[i]]})
      BY <3>1 DEF Having
    <3>3. \E m \in DOMAIN job.doc : Claim(job.doc, old, m) = old[i] /\ job.doc[m] = rows[old[i]]
      BY <2>2, <2>4, <3>2, ClaimReaches
    <3> QED
      BY <2>7, <3>3
  <2>9. \A i \in DOMAIN job'.doc : job'.entries[i] # NoId => rows'[job'.entries[i]] = job'.doc[i]
    BY <1>0, <2>5, <2>6, <2>7
  <2>10. Old' \subseteq Live'
    BY <1>0, <2>2, <2>4 DEF Live, Alive
  <2>11. ASSUME job.cleared PROVE Appended'
    <3>1. Listed \ StickyIds \subseteq Having(NoRow) /\ list \in Seq(Ids)
      BY <1>0, <2>11 DEF ClearedRec, SubTypes, Lists
    <3>2. Len(Own) = 0
      <4> DEFINE T == ToSet(list) \ (StickyIds \cup Having(NoRow))
      <4>1. T = {}
        BY <3>1 DEF Listed
      <4> HIDE DEF T
      <4>2. Len(Only(list, T)) = Upto(list, Len(list), T)
        BY <3>1, OnlyIs
      <4>3. Upto(list, Len(list), T) = 0
        <5>1. {j \in 1 .. Len(list) : list[j] \in T} = {}
          BY <4>1
        <5> QED
          BY <5>1, FS_EmptySet DEF Upto
      <4> QED
        BY <4>2, <4>3 DEF T, Own, Without
    <3>3. Own' = Own
      BY <1>0, <2>6 DEF Own, StickyIds, Having
    <3>4. \A i \in DOMAIN job.doc : claims[i] = NoId
      BY <2>3, <2>5, <2>7, <2>11
    <3>5. \A n \in DOMAIN job.doc : ~ (n <= Len(Own))
      BY <2>4, <3>2
    <3> HIDE DEF Own
    <3> QED
      BY <2>4, <2>6, <2>7, <3>2, <3>3, <3>4, <3>5 DEF Appended
  <2>12. ClearedRec'
    <3>1. job.cleared => job.kept = {}
      BY <1>0 DEF ClearedRec
    <3> QED
      BY <2>1, <2>6, <2>11, <3>1 DEF ClearedRec, Clearing
  <2>13. EntryRec'
    BY <2>1, <2>9, <2>10 DEF EntryRec
  <2>14. FinalRec'
    BY <2>1, <2>8 DEF FinalRec, Ending, Ordered, Deleting
  <2> QED
    BY <2>12, <2>13, <2>14
<1> QED
  BY <1>1, <1>2

\* Update preserves RecInv: each superseded profile takes over its own arrival.
LEMMA RecUpdate == SubInv /\ RecInv /\ Update => RecInv'
<1> SUFFICES ASSUME SubInv, RecInv, Update, ~edited', ~leaked'
             PROVE ClearedRec' /\ EntryRec' /\ FinalRec'
  BY DEF RecInv
<1>0. /\ SubTypes /\ ListInv /\ StickyInv /\ EntryInv /\ step = "update" /\ step' = "order"
      /\ UNCHANGED <<list, job, user>> /\ ClearedRec /\ EntryRec /\ FinalRec
  BY DEF SubInv, Update, RecInv, user
<1>1. /\ ~job.cleared /\ DOMAIN job.doc = 1 .. Len(job.doc) /\ Len(job.doc) \in Nat
      /\ \A i \in DOMAIN job.doc : job.entries[i] \in Ids
      /\ \A i \in Updated : i \in DOMAIN job.doc /\ Superseded(i) \in Old
      /\ \A i, j \in Updated : Superseded(i) = Superseded(j) => i = j
      /\ \A i \in Updated, j \in DOMAIN job.doc : Superseded(i) # job.entries[j]
  BY <1>0, Reconciling
<1>2. Final' = Final /\ Claimed' = Claimed
  BY <1>0, SameFinal
<1>3. /\ Claimed /\ Old \subseteq Live
      /\ \A i \in DOMAIN job.doc : job.entries[i] # NoId => rows[job.entries[i]] = job.doc[i]
  BY <1>0 DEF EntryRec, FinalRec, Building
<1>4. \A i \in DOMAIN job.doc : rows[job.entries[i]] = job.doc[i] /\ Alive(job.entries[i])
  <2> SUFFICES ASSUME NEW i \in DOMAIN job.doc
               PROVE  rows[job.entries[i]] = job.doc[i] /\ Alive(job.entries[i])
    OBVIOUS
  <2>1. job.entries[i] # NoId
    BY <1>1 DEF Ids, NoId
  <2>2. job.doc[i] \in Servers
    BY <1>0, <1>1, JobTypes, ElementOfSeq DEF Docs
  <2> QED
    BY <1>3, <2>1, <2>2, SubscriptionAssumption DEF Alive
<1> DEFINE Takes(id) == \E i \in Updated : Superseded(i) = id /\ Alive(id) /\ Alive(job.entries[i])
           By(id) == CHOOSE j \in Updated : Superseded(j) = id
<1>5. rows' = [id \in Ids |-> IF Takes(id) THEN rows[job.entries[By(id)]] ELSE rows[id]]
  BY DEF Update
<1>6. ASSUME NEW i \in Updated PROVE rows'[Superseded(i)] = job.doc[i]
  <2>1. Superseded(i) \in Ids /\ Takes(Superseded(i))
    BY <1>1, <1>3, <1>4 DEF Live
  <2>2. By(Superseded(i)) \in Updated /\ Superseded(By(Superseded(i))) = Superseded(i)
    OBVIOUS
  <2> HIDE DEF By, Takes
  <2>3. By(Superseded(i)) = i
    BY <1>1, <2>2
  <2> QED
    BY <1>1, <1>4, <1>5, <2>1, <2>3
<1>7. ASSUME NEW i \in DOMAIN job.doc PROVE rows'[job.entries[i]] = job.doc[i]
  <2>1. ~Takes(job.entries[i])
    BY <1>1
  <2> HIDE DEF By, Takes
  <2> QED
    BY <1>1, <1>4, <1>5, <2>1
<1>8. \A i \in DOMAIN job.doc : rows'[Final[i]] = job.doc[i]
  <2> HIDE DEF Updated
  <2>1. \A i \in DOMAIN job.doc : Final[i] = IF i \in Updated THEN Superseded(i)
                                                              ELSE job.entries[i]
    BY DEF Final
  <2> QED
    BY <1>6, <1>7, <2>1
<1> HIDE DEF Final
<1>9. ClearedRec'
  BY <1>0 DEF ClearedRec, Clearing
<1>10. EntryRec'
  BY <1>0, <1>7 DEF EntryRec
<1>11. FinalRec'
  BY <1>0, <1>2, <1>3, <1>8 DEF FinalRec, Ending, Ordered, Deleting
<1> QED
  BY <1>9, <1>10, <1>11

\* Order preserves RecInv: the list is the order of the answer.
LEMMA RecOrder == SubInv /\ RecInv /\ Order => RecInv'
<1> SUFFICES ASSUME SubInv, RecInv, Order, ~edited', ~leaked'
             PROVE ClearedRec' /\ EntryRec' /\ FinalRec'
  BY DEF RecInv
<1>0. /\ SubTypes /\ ListInv /\ StickyInv /\ EntryInv /\ step = "order" /\ step' = "unlist"
      /\ UNCHANGED <<rows, user>> /\ ClearedRec /\ EntryRec /\ FinalRec
  BY DEF SubInv, Order, RecInv, user
<1>1. /\ Final \in Lists /\ ToSet(Final) \cap StickyIds = {}
      /\ Stale \cap ToSet(Final) = {} /\ Stale \cap StickyIds = {}
  BY <1>0, FinalIs
<1> DEFINE b == <<list>>
<1>2. list' = PutBack(Final, job.sticky) /\ job' = [job EXCEPT !.todo = Stale, !.before = b]
  BY DEF Order, Final
<1>3. b # <<>>
  OBVIOUS
<1> HIDE DEF Stale, b
<1>4. /\ /\ job'.doc = job.doc
      /\ job'.sticky = job.sticky
      /\ job'.old = job.old
      /\ job'.was = job.was
      /\ job'.entries = job.entries /\ job'.before = b /\ job'.todo = Stale
  BY <1>0, <1>2 DEF SubTypes, Jobs
<1>5. Final' = Final /\ Claimed' = Claimed /\ StickyIds' = StickyIds
  BY <1>4, SameFinal DEF StickyIds
<1>6. Claimed /\ \A i \in DOMAIN job.doc : rows[Final[i]] = job.doc[i]
  BY <1>0 DEF FinalRec, Ending, Building
<1> HIDE DEF Final
<1>7. ClearedRec'
  BY <1>0, <1>3, <1>4 DEF ClearedRec, Clearing
<1>8. EntryRec'
  BY <1>0 DEF EntryRec, Building
<1>9. FinalRec'
  BY <1>0, <1>1, <1>2, <1>3, <1>4, <1>5, <1>6 DEF FinalRec, Ending, Ordered, Deleting,
     Building
<1> QED
  BY <1>7, <1>8, <1>9

\* Keep preserves RecInv: what returns stands beside the arrivals, in none of their places.
LEMMA RecKeep == SubInv /\ RecInv /\ Keep => RecInv'
<1> SUFFICES ASSUME SubInv, RecInv, Keep, ~edited', ~leaked'
             PROVE ClearedRec' /\ EntryRec' /\ FinalRec'
  BY DEF RecInv
<1>0. /\ SubTypes /\ ListInv /\ StickyInv /\ step = "keep" /\ step' = "done"
      /\ UNCHANGED <<rows, job, user>> /\ ClearedRec /\ EntryRec /\ FinalRec
  BY DEF SubInv, Keep, RecInv, user
<1>1. /\ ~job.cleared /\ Claimed /\ \A i \in DOMAIN job.doc : rows[Final[i]] = job.doc[i]
      /\ list = PutBack(Final, job.sticky) /\ Final \in Lists
      /\ ToSet(Final) \cap StickyIds = {}
      /\ job.kept \cap ToSet(Final) = {}
  BY <1>0 DEF ClearedRec, FinalRec, Ending, Ordered
<1>2. Final' = Final /\ Claimed' = Claimed /\ StickyIds' = StickyIds
  BY <1>0, SameFinal DEF StickyIds
<1>3. Listed = ToSet(Final) \cup StickyIds /\ Only(list, ToSet(Final)) = Final
  BY <1>0, <1>1, ListedOrdered
<1> HIDE DEF Final
<1>4. PICK at \in Seq((Nat \ {0}) \X Ids) :
          list' = PutBack(list, at) /\ Placed(at) = job.kept \ Listed
  BY <1>0, KeepPuts
<1>5. Without(list', job.kept \cup StickyIds) = Final
  <2> DEFINE T == ToSet(Final)
             U == ToSet(list') \ (job.kept \cup StickyIds)
  <2>1. list \in Seq(Ids) /\ Placed(at) \cap T = {}
    BY <1>0, <1>1, <1>4 DEF SubTypes, Lists
  <2>2. PutBack(list, at) \in Seq(Ids)
    BY <2>1, PutBackMembers
  <2>3. ToSet(PutBack(list, at)) = ToSet(list) \cup Placed(at)
    BY <2>1, PutBackMembers
  <2>4. U = T
    BY <1>1, <1>3, <1>4, <2>3 DEF Listed
  <2> HIDE DEF T, U
  <2>5. Only(PutBack(list, at), T) = Only(list, T)
    BY <2>1, OnlyPutBack
  <2>6. Only(list', U) = Final
    BY <1>3, <1>4, <2>4, <2>5 DEF T
  <2> QED
    BY <2>6 DEF U, Without
<1>6. ClearedRec'
  BY <1>0, <1>1 DEF ClearedRec, Clearing
<1>7. EntryRec'
  BY <1>0, <1>1 DEF EntryRec, Building
<1>8. FinalRec'
  BY <1>0, <1>1, <1>2, <1>5 DEF FinalRec, Ending, Ordered, Deleting, Building
<1> QED
  BY <1>6, <1>7, <1>8

\* The place of a number in an interval.
Before(S, i) == {j \in S : j < i}

\* How many numbers of an interval come before one of them.
LEMMA PlaceInInterval ==
    ASSUME NEW a \in Nat, NEW b \in Nat, NEW i \in a .. b
    PROVE  Cardinality(Before(a .. b, i)) = i - a
<1>1. Before(a .. b, i) = a .. i - 1
  BY DEF Before
<1>2. a \in Int /\ i - 1 \in Int /\ (a > i - 1 => i - a = 0) /\ (i - 1) - a + 1 = i - a
  OBVIOUS
<1>3. Cardinality(a .. i - 1) = IF a > i - 1 THEN 0 ELSE (i - 1) - a + 1
  BY <1>2, FS_Interval
<1> QED
  BY <1>1, <1>2, <1>3

\* In clear mode the arrivals without a row are the last ones, and those that get
\* their rows now come next.
LEMMA AppendedIds ==
    ASSUME SubTypes, Appended
    PROVE  \E m \in Nat :
               /\ Len(Own) \in Nat /\ Own \in Seq(Ids) /\ Len(Own) + m <= Len(job.doc)
               /\ InsertNow = Len(Own) + 1 .. Len(Own) + m
               /\ InsertIds = next .. next + m - 1
               /\ \A n \in 1 .. m : InsertId(Len(Own) + n) = next + n - 1
<1> DEFINE k == Len(Own)
           L == Len(job.doc)
           m == IF L - k <= Chunk THEN L - k ELSE Chunk
<1>1. Own \in Seq(Ids)
  BY WithoutIs DEF Own, SubTypes, Lists
<1>2. /\ k \in Nat /\ L \in Nat /\ DOMAIN job.doc = 1 .. L /\ k <= L
      /\ DOMAIN job.entries = 1 .. L /\ Chunk \in Nat /\ next \in Nat
      /\ \A n \in 1 .. L : job.entries[n] = IF n <= k THEN Own[n] ELSE NoId
  BY <1>1, JobTypes, LenProperties, SubscriptionAssumption DEF Docs, Appended, SubTypes
<1>3. \A n \in 1 .. k : Own[n] # NoId
  <2>1. \A n \in 1 .. k : Own[n] \in Ids
    BY <1>1, LenProperties, ElementOfSeq
  <2> QED
    BY <2>1 DEF Ids, NoId
<1> HIDE DEF k, L
<1>4. m \in Nat /\ m <= Chunk /\ k + m <= L
  BY <1>2
<1>5. InsertNew = k + 1 .. L
  BY <1>2, <1>3 DEF InsertNew
<1>7. InsertNow = k + 1 .. k + m
  <2>1. \A i \in k + 1 .. L : Cardinality(Before(k + 1 .. L, i)) = i - (k + 1)
    BY <1>2, PlaceInInterval
  <2>2. InsertNow = {i \in InsertNew : Cardinality(Before(InsertNew, i)) < Chunk}
    BY DEF InsertNow, Before
  <2>3. InsertNow = {i \in k + 1 .. L : i - (k + 1) < Chunk}
    BY <1>5, <2>1, <2>2
  <2> QED
    BY <1>2, <2>3
<1> HIDE DEF m
<1>8. ASSUME NEW n \in 1 .. m PROVE InsertId(k + n) = next + n - 1
  <2>1. /\ k + n \in k + 1 .. k + m
        /\ k + 1 \in Nat
        /\ k + m \in Nat
        /\ k + n - (k + 1) = n - 1
    BY <1>2, <1>4
  <2> DEFINE a == k + 1
             b == k + m
             i == k + n
  <2> HIDE DEF a, b, i
  <2>2. Cardinality(Before(a .. b, i)) = i - a
    <3>1. a \in Nat /\ b \in Nat /\ i \in a .. b
      BY <2>1 DEF a, b, i
    <3> QED
      BY <3>1, PlaceInInterval
  <2>3. InsertNow = a .. b
    BY <1>7 DEF a, b
  <2>4. i - a = n - 1
    BY <1>2, <2>1 DEF a, i
  <2>5. Cardinality(Before(InsertNow, i)) = n - 1
    BY <2>2, <2>3, <2>4
  <2> QED
    BY <1>2, <2>1, <2>5 DEF InsertId, Before, i
<1>9. InsertIds = next .. next + m - 1
  <2>1. ASSUME NEW i \in InsertNow PROVE InsertId(i) \in next .. next + m - 1
    <3>1. i - k \in 1 .. m /\ k + (i - k) = i
      BY <1>2, <1>4, <1>7
    <3>2. InsertId(i) = next + (i - k) - 1
      BY <1>8, <3>1
    <3> QED
      BY <1>2, <1>4, <3>1, <3>2
  <2>2. ASSUME NEW x \in next .. next + m - 1 PROVE \E i \in InsertNow : InsertId(i) = x
    <3>1. x - next + 1 \in 1 .. m /\ k + (x - next + 1) \in InsertNow
          /\ next + (x - next + 1) - 1 = x
      BY <1>2, <1>4, <1>7
    <3> QED
      BY <1>8, <3>1
  <2> QED
    BY <2>1, <2>2 DEF InsertIds
<1> QED
  BY <1>1, <1>2, <1>4, <1>7, <1>8, <1>9 DEF k, L

\* In clear mode a flush appends the next profiles in the order of the answer.
LEMMA AppendedInsert ==
    ASSUME SubInv, Insert, InsertNew # {}, Appended
    PROVE  Appended'
<1>0. SubTypes
  BY DEF SubInv
<1>1. PICK m \in Nat : /\ Len(Own) \in Nat /\ Own \in Seq(Ids) /\ Len(Own) + m <= Len(job.doc)
                       /\ InsertNow = Len(Own) + 1 .. Len(Own) + m
                       /\ InsertIds = next .. next + m - 1
                       /\ \A n \in 1 .. m : InsertId(Len(Own) + n) = next + n - 1
  BY <1>0, AppendedIds
<1>2. /\ list' = list \o SetToList(InsertIds) /\ Listed' = Listed \cup InsertIds
      /\ StickyIds' = StickyIds /\ InsertIds \subseteq Ids
  BY InsertEffect
<1>3. (Live \cup Listed \cup Old \cup StickyIds \cup Given) \cap InsertIds = {}
  BY InsertEffect
<1>4. Live' = Live \cup InsertIds /\ next \in Nat
  BY InsertEffect
<1>5. \A id \in Ids \ InsertIds : rows'[id] = rows[id]
  BY InsertEffect
<1>6. /\ DOMAIN job.entries = DOMAIN job.doc /\ DOMAIN job'.entries = DOMAIN job.entries
      /\ job'.doc = job.doc
      /\ \A i \in DOMAIN job.entries :
             job'.entries[i] = IF i \in InsertNow THEN InsertId(i) ELSE job.entries[i]
  BY InsertEffect
<1>7. DOMAIN job.doc = 1 .. Len(job.doc) /\ Len(job.doc) \in Nat
  BY <1>0, JobTypes, LenProperties DEF Docs
<1>8. \A n \in DOMAIN job.doc : job.entries[n] = IF n <= Len(Own) THEN Own[n] ELSE NoId
  BY DEF Appended
<1> DEFINE k == Len(Own)
           t == SetToList(InsertIds)
           X == StickyIds \cup Having(NoRow)
           Y == StickyIds' \cup Having(NoRow)'
<1>9. t \in Seq(Ids) /\ ToSet(t) = InsertIds
  BY <1>2, SetToListIs DEF Lists
<1>10. Len(t) = m /\ \A n \in 1 .. m : t[n] = next + n - 1
  <2>1. next .. next + m - 1 \subseteq Ids
    BY <1>1, <1>2
  <2>2. Len(SetToList(next .. next + m - 1)) = m
    BY <1>4, <2>1, SetToListInterval
  <2>3. \A n \in 1 .. m : SetToList(next .. next + m - 1)[n] = next + n - 1
    BY <1>4, <2>1, SetToListInterval
  <2> QED
    BY <1>1, <2>2, <2>3
<1>11. list \in Seq(Ids) /\ Listed \subseteq Ids
  BY <1>0, JobSets DEF SubTypes, Lists
<1>12. /\ Own = Only(list, Listed \ X) /\ Own' = Only(list', Listed' \ Y)
  BY DEF Own, Without, Listed
<1>13. InsertIds \subseteq Listed' \ Y
  <2>1. InsertIds \cap Having(NoRow)' = {}
    BY <1>4 DEF Live, Having, Alive
  <2> QED
    BY <1>2, <1>3, <2>1
<1>14. Listed \cap (Listed' \ Y) = Listed \cap (Listed \ X)
  <2>1. \A id \in Listed : id \in Having(NoRow)' <=> id \in Having(NoRow)
    BY <1>3, <1>5, <1>11 DEF Having
  <2> QED
    BY <1>2, <2>1
<1> HIDE DEF X, Y, t, k
<1> DEFINE T == Listed \ X
           U == Listed' \ Y
<1>15. Only(list, U) = Only(list, T)
  <2>1. ToSet(list) \cap U = ToSet(list) \cap T
    BY <1>14 DEF Listed
  <2> HIDE DEF T, U
  <2> QED
    BY <1>11, <2>1, OnlySame
<1>16. Only(list \o t, U) = Only(list, U) \o t
  <2>1. ToSet(t) \subseteq U
    BY <1>9, <1>13
  <2> HIDE DEF U
  <2> QED
    BY <1>9, <1>11, <2>1, OnlyAppend
<1>17. Own' = Own \o t
  BY <1>2, <1>12, <1>15, <1>16 DEF t
<1>18. /\ Len(Own') = k + m
       /\ \A n \in 1 .. k + m : Own'[n] = IF n <= k THEN Own[n] ELSE t[n - k]
  <2>1. Own \in Seq(Ids) /\ t \in Seq(Ids)
    BY <1>1, <1>9
  <2> HIDE DEF Own
  <2>2. /\ Len(Own \o t) = Len(Own) + Len(t)
        /\ \A i \in 1 .. Len(Own) + Len(t) :
               (Own \o t)[i] = IF i <= Len(Own) THEN Own[i] ELSE t[i - Len(Own)]
    BY <2>1, ConcatProperties
  <2> QED
    BY <1>10, <1>17, <2>2 DEF k
<1> HIDE DEF Own
<1>19. k \in Nat /\ k + m <= Len(job.doc) /\ InsertNow = k + 1 .. k + m
       /\ \A n \in 1 .. m : InsertId(k + n) = next + n - 1
  BY <1>1 DEF k
<1>20. ASSUME NEW n \in 1 .. Len(job.doc)
       PROVE  job'.entries[n] = IF n <= k + m THEN Own'[n] ELSE NoId
  <2>1. CASE n <= k
    <3>1. n \notin InsertNow /\ n \in 1 .. k + m
      BY <1>7, <1>19, <2>1
    <3> QED
      BY <1>6, <1>7, <1>8, <1>18, <2>1, <3>1 DEF k
  <2>2. CASE n \in k + 1 .. k + m
    <3>1. n - k \in 1 .. m /\ k + (n - k) = n /\ n \in 1 .. k + m /\ ~ (n <= k)
      BY <1>19, <2>2
    <3>2. job'.entries[n] = next + (n - k) - 1
      BY <1>6, <1>7, <1>19, <2>2, <3>1
    <3> QED
      BY <1>10, <1>18, <2>2, <3>1, <3>2
  <2>3. CASE ~ (n <= k + m)
    <3>1. n \notin InsertNow /\ ~ (n <= k)
      BY <1>7, <1>19, <2>3
    <3> QED
      BY <1>6, <1>7, <1>8, <2>3, <3>1 DEF k
  <2> QED
    BY <1>7, <1>19, <2>1, <2>2, <2>3
<1> QED
  BY <1>6, <1>7, <1>18, <1>19, <1>20 DEF Appended

\* Insert preserves RecInv: no claim is lost, and new rows hold their arrivals.
LEMMA RecInsert == SubInv /\ RecInv /\ Insert => RecInv'
<1> SUFFICES ASSUME SubInv, RecInv, Insert, ~edited', ~leaked'
             PROVE ClearedRec' /\ EntryRec' /\ FinalRec'
  BY DEF RecInv
<1>0. /\ /\ SubTypes
      /\ ListInv
      /\ StickyInv
      /\ EntryInv
      /\ step = "insert"
      /\ UNCHANGED <<started, user>>
      /\ ClearedRec /\ EntryRec /\ FinalRec
  BY DEF SubInv, Insert, RecInv, user
<1>1. /\ job.cleared => job.kept = {} /\ Appended
      /\ \A i \in DOMAIN job.doc : job.entries[i] # NoId => rows[job.entries[i]] = job.doc[i]
      /\ Old \subseteq Live /\ Claimed
  BY <1>0 DEF ClearedRec, EntryRec, FinalRec, Building
<1>2. CASE InsertNew = {}
  <2>1. /\ step' = IF job.cleared THEN "done" ELSE "update"
        /\ UNCHANGED <<store, job>>
    BY <1>2 DEF Insert, InsertNew
  <2>2. UNCHANGED <<rows, list, Live, Listed, StickyIds, Old, Given>>
    BY <2>1, SameJob DEF store, Live, Alive, Listed
  <2>3. Final' = Final /\ Claimed' = Claimed
    BY <2>1, SameFinal
  <2>4. NoId \notin ToSet(job.entries)
    BY <1>2 DEF InsertNew, ToSet
  <2>5. job.cleared => job.old = <<>>
    BY <1>0, Zenon DEF EntryInv, Building
  <2>6. Appended' = Appended
    BY <2>1, <2>2 DEF Appended, Own, Having
  <2> HIDE DEF Final, Appended, Claimed
  <2>7. ClearedRec'
    BY <1>1, <2>1, <2>4, <2>5, <2>6 DEF ClearedRec, Clearing
  <2>8. EntryRec'
    BY <1>1, <2>1, <2>2 DEF EntryRec, Building
  <2>9. FinalRec'
    BY <1>1, <2>1, <2>3 DEF FinalRec, Ending, Ordered, Deleting, Building
  <2> QED
    BY <2>7, <2>8, <2>9
<1>3. CASE InsertNew # {}
  <2>0. SubInv /\ Insert /\ InsertNew # {}
    BY <1>3
  <2> HIDE DEF InsertNow, InsertNew, InsertIds, InsertId
  <2>1. /\ step' = "insert" /\ InsertNow \subseteq DOMAIN job.entries
        /\ DOMAIN job.entries = DOMAIN job.doc
        /\ DOMAIN job'.entries = DOMAIN job.entries /\ Old' = Old
        /\ job'.doc = job.doc /\ job'.old = job.old /\ job'.was = job.was
        /\ job'.kept = job.kept /\ job'.cleared = job.cleared
    BY <1>0, <2>0, InsertEffect
  <2>2. \A i \in InsertNow : job.entries[i] = NoId /\ InsertId(i) \in Ids
    BY <2>0, InsertEffect
  <2>3. Given \cap InsertIds = {} /\ Live' = Live \cup InsertIds
    <3>1. (Live \cup Listed \cup Old \cup StickyIds \cup Given) \cap InsertIds = {}
      BY <2>0, InsertEffect
    <3>2. Live' = Live \cup InsertIds
      BY <2>0, InsertEffect
    <3> QED
      BY <3>1, <3>2
  <2>4. \A id \in Ids \ InsertIds : rows'[id] = rows[id]
    BY <2>0, InsertEffect
  <2>5. \A i \in InsertNow : rows'[InsertId(i)] = job.doc[i]
    BY <2>0, InsertEffect
  <2>6. \A i \in DOMAIN job.entries :
            job'.entries[i] = IF i \in InsertNow THEN InsertId(i) ELSE job.entries[i]
    BY <2>0, InsertEffect
  <2>7. job.cleared => Appended'
    BY <1>1, <2>0, AppendedInsert
  <2>8. ASSUME NEW i \in DOMAIN job.doc, job'.entries[i] # NoId
        PROVE  rows'[job'.entries[i]] = job.doc[i]
    <3>1. CASE i \in InsertNow
      BY <2>1, <2>5, <2>6, <3>1
    <3>2. CASE i \notin InsertNow
      <4>1. job'.entries[i] = job.entries[i] /\ job.entries[i] # NoId
        BY <2>1, <2>6, <2>8, <3>2
      <4>2. job.entries[i] \in Given /\ Given \subseteq Ids
        BY <1>0, <2>1, <4>1, JobSets DEF Given, ToSet
      <4> QED
        BY <1>1, <2>3, <2>4, <4>1, <4>2
    <3> QED
      BY <3>1, <3>2
  <2>9. Claimed'
    <3> SUFFICES ASSUME NEW i \in DOMAIN job.old,
                        Upto(job.old, i, {id \in Ids : job.was[id] = job.was[job.old[i]]})
                            <= Upto(job.doc, Len(job.doc), {job.was[job.old[i]]})
                 PROVE  \E m \in DOMAIN job.doc : /\ job'.entries[m] = job.old[i]
                                                 /\ job.doc[m] = job.was[job.old[i]]
      BY <2>1 DEF Claimed
    <3>1. PICK m \in DOMAIN job.doc : /\ job.entries[m] = job.old[i]
                                      /\ job.doc[m] = job.was[job.old[i]]
      BY <1>1 DEF Claimed
    <3>2. job.old[i] # NoId
      <4>1. job.old[i] \in Old /\ Old \subseteq Ids
        BY <1>0, JobSets DEF Old, ToSet
      <4> QED
        BY <4>1 DEF Ids, NoId
    <3>3. job'.entries[m] = job.old[i]
      BY <2>1, <2>2, <2>6, <3>1, <3>2
    <3> QED
      BY <3>1, <3>3
  <2>10. ClearedRec'
    BY <1>1, <2>1, <2>7 DEF ClearedRec, Clearing
  <2>11. EntryRec'
    BY <1>1, <2>1, <2>3, <2>8 DEF EntryRec
  <2>12. FinalRec'
    BY <2>1, <2>9 DEF FinalRec, Ending, Ordered, Deleting
  <2> QED
    BY <2>10, <2>11, <2>12
<1> QED
  BY <1>2, <1>3

\* Whoever edits the group during a refresh is told so.
LEMMA RecIdle == step' = "idle" => RecInv'
BY DEF RecInv, ClearedRec, EntryRec, FinalRec, Ending, Ordered, Building, Clearing, Deleting

\* An edit during a refresh is remembered, and between refreshes there is nothing to say.
LEMMA RecEdited == Edited /\ step' = step => RecInv'
<1> SUFFICES ASSUME Edited, step' = step PROVE RecInv'
  OBVIOUS
<1>1. edited' = (step # "idle")
  BY DEF Edited
<1>2. CASE step = "idle"
  BY <1>2, RecIdle
<1>3. CASE step # "idle"
  BY <1>1, <1>3 DEF RecInv
<1> QED
  BY <1>2, <1>3

\* What the refresh says is of the rows, the list, its place and its locals alone.
LEMMA RecSame == RecInv /\ UNCHANGED <<rows, list, step, job, leaked, edited>> => RecInv'
<1> SUFFICES ASSUME RecInv, UNCHANGED <<rows, list, step, job, leaked, edited>>
             PROVE RecInv'
  OBVIOUS
<1>1. Final' = Final /\ Claimed' = Claimed
  BY SameFinal
<1>2. Listed' = Listed /\ StickyIds' = StickyIds /\ Old' = Old /\ Live' = Live
      /\ Having(NoRow)' = Having(NoRow)
  BY DEF Listed, StickyIds, Old, Live, Alive, Having
<1>3. Appended' = Appended
  BY <1>2 DEF Appended, Own
<1> HIDE DEF Final, Claimed, Appended, Listed, StickyIds, Old, Live, Having
<1>4. ClearedRec' = ClearedRec
  BY <1>2, <1>3 DEF ClearedRec, Clearing
<1>5. EntryRec' = EntryRec
  BY <1>2 DEF EntryRec, Building
<1>6. FinalRec' = FinalRec
  BY <1>1, <1>2 DEF FinalRec, Ending, Ordered, Deleting, Building
<1> QED
  BY <1>4, <1>5, <1>6 DEF RecInv

\* Every step preserves RecInv.
LEMMA NextRec == SubInv /\ RecInv /\ [SubNext]_subVars => RecInv'
<1> SUFFICES ASSUME SubInv, RecInv, [SubNext]_subVars PROVE RecInv'
  OBVIOUS
<1>1. CASE Finish
  BY <1>1, RecIdle DEF Finish
<1>2. CASE Refresh
  BY <1>1, <1>2, RecFetch, RecClear, RecUnlist, RecErase, RecRead, RecInsert, RecUpdate,
     RecOrder, RecKeep DEF Refresh
<1>3. CASE AddProfile \/ DeleteProfile
  BY <1>3, RecEdited DEF AddProfile, DeleteProfile
<1>4. CASE StartProfile \/ StopProfile
  BY <1>4, RecSame DEF StartProfile, StopProfile, store, user
<1>5. CASE LateSave \/ Crash
  <2>1. leaked'
    BY <1>5 DEF LateSave, Crash
  <2> QED
    BY <2>1 DEF RecInv
<1>6. CASE UNCHANGED subVars
  BY <1>6, RecSame DEF subVars
<1> QED
  BY <1>2, <1>3, <1>4, <1>5, <1>6 DEF SubNext, User

\* SubInit establishes RecInv.
LEMMA InitRec == SubInit => RecInv
BY DEF SubInit, RecInv, ClearedRec, EntryRec, FinalRec, Ending, Ordered, Building,
   Clearing, Deleting

\* At each step of a refresh its list and rows are on the way to the answer.
THEOREM SubscriptionRecInv == SubSpec => []RecInv
<1>1. SubInv /\ RecInv /\ [SubNext]_subVars => (SubInv /\ RecInv)'
  BY NextSub, NextRec
<1> QED
  BY <1>1, InitSub, InitRec, PTL DEF SubSpec

\* RecInv has at the end what Reconciled says.
LEMMA RecReconciled == SubInv /\ RecInv => Reconciled
<1> DEFINE own == Without(list, job.kept \cup StickyIds)
<1> SUFFICES ASSUME SubInv, RecInv, step = "done", ~edited, ~leaked,
                    \A id \in ToSet(list) : Alive(id)
             PROVE  /\ [i \in DOMAIN own |-> rows[own[i]]] = job.doc
                    /\ \A i \in DOMAIN job.old :
                           Upto(job.old, i, {id \in Ids : job.was[id] = job.was[job.old[i]]})
                               <= Upto(job.doc, Len(job.doc), {job.was[job.old[i]]})
                           => job.old[i] \in ToSet(list) /\ rows[job.old[i]] = job.was[job.old[i]]
  BY DEF Reconciled, StickyIds
<1>1. /\ SubTypes /\ ClearedRec /\ EntryRec /\ FinalRec
      /\ list \in Seq(Ids)
  BY DEF SubInv, RecInv, SubTypes, Lists
<1>2. job.doc \in Seq(Servers) /\ DOMAIN job.doc = 1 .. Len(job.doc) /\ Len(job.doc) \in Nat
  BY <1>1, JobTypes, LenProperties DEF Docs
<1>3. own \in Seq(Ids) /\ ToSet(own) \subseteq ToSet(list)
  BY <1>1, WithoutIs
<1>4. CASE job.cleared
  <2>1. /\ job.kept = {} /\ Appended /\ job.old = <<>> /\ NoId \notin ToSet(job.entries)
        /\ \A i \in DOMAIN job.doc : job.entries[i] # NoId => rows[job.entries[i]] = job.doc[i]
    BY <1>1, <1>4 DEF ClearedRec, EntryRec
  <2>2. own = Own
    <3> DEFINE T == ToSet(list) \ (job.kept \cup StickyIds)
               U == ToSet(list) \ (StickyIds \cup Having(NoRow))
    <3>1. T = U
      BY <2>1 DEF Having, Alive
    <3> QED
      BY <3>1 DEF Own, Without
  <2>3. /\ DOMAIN job.entries = DOMAIN job.doc /\ Len(Own) <= Len(job.doc)
        /\ \A n \in DOMAIN job.doc : job.entries[n] = IF n <= Len(Own) THEN Own[n] ELSE NoId
    BY <2>1 DEF Appended
  <2>4. \A n \in DOMAIN job.doc : job.entries[n] # NoId
    BY <2>1, <2>3 DEF ToSet
  <2> HIDE DEF own, Own
  <2>5. DOMAIN Own = 1 .. Len(Own) /\ Len(Own) \in Nat
    BY <1>3, <2>2, LenProperties
  <2>6. \A n \in DOMAIN job.doc : n <= Len(Own)
    BY <2>3, <2>4
  <2>7. Len(Own) = Len(job.doc)
    <3>1. CASE Len(job.doc) = 0
      BY <2>3, <2>5, <3>1
    <3>2. CASE Len(job.doc) # 0
      <4>1. Len(job.doc) \in DOMAIN job.doc
        BY <1>2, <3>2
      <4> QED
        BY <1>2, <2>3, <2>5, <2>6, <4>1
    <3> QED
      BY <3>1, <3>2
  <2>8. \A n \in DOMAIN job.doc : rows[Own[n]] = job.doc[n]
    BY <2>1, <2>3, <2>4, <2>6
  <2>9. [i \in DOMAIN own |-> rows[own[i]]] = job.doc
    <3>1. DOMAIN own = DOMAIN job.doc
      BY <1>2, <2>2, <2>5, <2>7
    <3>2. job.doc = [i \in DOMAIN job.doc |-> job.doc[i]]
      BY <1>2
    <3> QED
      BY <2>2, <2>8, <3>1, <3>2
  <2>10. DOMAIN job.old = {}
    BY <2>1
  <2> QED
    BY <2>9, <2>10
<1>5. CASE ~job.cleared
  <2>1. /\ own = Final /\ Claimed /\ \A i \in DOMAIN job.doc : rows[Final[i]] = job.doc[i]
    BY <1>1, <1>5 DEF FinalRec, Ending
  <2>2. /\ DOMAIN Final = DOMAIN job.doc
        /\ \A m \in DOMAIN job.doc : m \notin Updated => Final[m] = job.entries[m]
    BY DEF Final
  <2> HIDE DEF own, Final
  <2>3. [i \in DOMAIN own |-> rows[own[i]]] = job.doc
    <3>1. job.doc = [i \in DOMAIN job.doc |-> job.doc[i]]
      BY <1>2
    <3> QED
      BY <2>1, <2>2, <3>1
  <2>4. ASSUME NEW i \in DOMAIN job.old,
               Upto(job.old, i, {id \in Ids : job.was[id] = job.was[job.old[i]]})
                   <= Upto(job.doc, Len(job.doc), {job.was[job.old[i]]})
        PROVE  job.old[i] \in ToSet(list) /\ rows[job.old[i]] = job.was[job.old[i]]
    <3>1. PICK m \in DOMAIN job.doc : /\ job.entries[m] = job.old[i]
                                      /\ job.doc[m] = job.was[job.old[i]]
      BY <2>1, <2>4 DEF Claimed
    <3>2. job.doc[m] \in Known
      BY <3>1 DEF Known, Old, ToSet
    <3>3. m \notin Updated
      BY <3>2 DEF Updated, Superseded
    <3>4. Final[m] = job.old[i] /\ Final[m] \in ToSet(Final)
      BY <2>2, <3>1, <3>3 DEF ToSet
    <3> QED
      BY <1>3, <2>1, <3>1, <3>4
  <2> QED
    BY <2>3, <2>4
<1> QED
  BY <1>4, <1>5

\* A refresh that nothing disturbed leaves the group as the subscription sent it, in its
\* order, but for selectors and spared profiles, and what came again unchanged keeps
\* its profile.
THEOREM SubscriptionReconciled == SubSpec => []Reconciled
BY SubscriptionInvariant, SubscriptionRecInv, RecReconciled, PTL

-----------------------------------------------------------------------------
(* Updater. *)

USE DEF dlVars, guiVars, updVars, vars

\* What the window's process leaves behind: the updater only works alone.
Alone ==
    /\ gui = "off" => widget = Hidden /\ thread = NoThreads /\ posted = <<>>
    /\ gui = "running" => pc = "off"
    /\ pc \notin {"off", "wait"} => gui = "off"
    /\ result = "installed" => pc \in {"off", "unstage", "restart"}
    /\ pc = "restart" => result = "installed"

\* At most one thread downloads, and a saved package is the one on disk.
OneDownload ==
    /\ \A v, w \in Versions : v \in Downloading /\ w \in Downloading => v = w
    /\ \A v \in Versions : thread[v] = "saved" => package = v
    /\ posted # <<>> /\ posted[Len(posted)].ok /\ (\A v \in Versions : thread[v] # "saved")
        => package = posted[Len(posted)].asset

Untouched == \A f \in Files \ Content[release] : installed[f] = before[f]

\* The stage holds what was extracted, the installation what was copied.
Progress ==
    /\ pc \in {"extract", "copy"} =>
          release \in Versions /\ package = release /\ todo \subseteq Content[release]
    /\ pc = "extract" =>
          \A f \in Files : stage[f] = IF f \in Content[release] \ todo THEN release
                                                                       ELSE None
    /\ pc = "copy" =>
          /\ \A f \in Files : stage[f] = IF f \in Content[release] THEN release ELSE None
          /\ \A f \in Content[release] \ todo : installed[f] = release
          /\ Untouched

IInv == TypeOK /\ Alone /\ OneDownload /\ Progress /\ Healable /\ InstalledAlone /\ ReadyIsOnDisk

\* Taking the head of a queue leaves its last element last.
LEMMA LastOfTail ==
    ASSUME NEW S, NEW s \in Seq(S), s # <<>>
    PROVE  /\ Tail(s) # <<>> => Tail(s)[Len(Tail(s))] = s[Len(s)]
           /\ Tail(s) = <<>> => Head(s) = s[Len(s)]
<1>1. Len(s) \in Nat /\ Len(s) > 0 /\ Tail(s) \in Seq(S) /\ Len(Tail(s)) = Len(s) - 1
    OBVIOUS
<1>2. Tail(s) = <<>> => Len(s) = 1
    BY <1>1, EmptySeq
<1>3. QED
    BY <1>1, <1>2

\* The release first installed is whole, and nothing else is there.
LEMMA InitIInv == Init => IInv
<1> SUFFICES ASSUME Init PROVE IInv
    OBVIOUS
<1> USE ReleasesAssumption DEF Init
<1>1. TypeOK
    BY DEF TypeOK, Contents, Empty, Hidden, NoThreads
<1>2. Alone /\ OneDownload /\ Progress
    BY DEF Alone, OneDownload, Downloading, NoThreads, Progress, Hidden
<1>3. Healable /\ InstalledAlone /\ ReadyIsOnDisk
    BY DEF Healable, Whole, InstalledAlone, ReadyIsOnDisk, Hidden
<1>4. QED
    BY <1>1, <1>2, <1>3 DEF IInv

\* Every step keeps the types.
LEMMA NextTypeOK == TypeOK /\ [Next]_vars => TypeOK'
<1> SUFFICES ASSUME TypeOK, [Next]_vars PROVE TypeOK'
    OBVIOUS
<1> USE ReleasesAssumption DEF TypeOK, Contents
<1>1. ASSUME NEW v \in Versions, StartDownload(v) \/ TryLock(v) \/ SavePackage(v) \/ PostResult(v)
      PROVE TypeOK'
    <2>1. CASE StartDownload(v)
        BY <2>1 DEF StartDownload
    <2>2. CASE TryLock(v)
        BY <2>2 DEF TryLock
    <2>3. CASE SavePackage(v)
        BY <2>3 DEF SavePackage
    <2>4. CASE PostResult(v)
        BY <2>4 DEF PostResult
    <2>5. QED
        BY <1>1, <2>1, <2>2, <2>3, <2>4
<1>2. CASE ShowResult
    <2> DEFINE R == [asset : Versions, ok : BOOLEAN]
    <2>1. posted \in Seq(R) /\ posted # <<>>
        BY <1>2 DEF ShowResult
    <2> HIDE DEF R
    <2>2. Head(posted) \in R /\ Tail(posted) \in Seq(R)
        BY <2>1, SMT
    <2> USE DEF R
    <2>3. QED
        BY <1>2, <2>2 DEF ShowResult
<1>3. CASE Dismiss
    BY <1>3 DEF Dismiss, Hidden
<1>11. CASE GuiEnds
    BY <1>11 DEF GuiEnds, Hidden, NoThreads
<1>12. CASE GuiStarts \/ RestartNow
    BY <1>12 DEF GuiStarts, RestartNow, Goto
<1>4. CASE WaitParent \/ RemovePackage \/ Restart \/ Extracted
    BY <1>4 DEF WaitParent, RemovePackage, Restart, Extracted, Fail, FailEarly, End, Goto,
       Empty, Staged
<1>5. CASE ClearStage
    BY <1>5 DEF ClearStage, RemoveStage, FailEarly, End, Goto, Empty
<1>6. CASE Unstage
    BY <1>6 DEF Unstage, RemoveStage, End, Goto, Empty
<1>7. ASSUME NEW f \in Files, Extract(f) \/ Install(f) PROVE TypeOK'
    BY <1>7 DEF Extract, Install, Fail, Goto
<1>8. CASE UpdaterDies
    BY <1>8 DEF UpdaterDies, End, Goto, Empty
<1>9. CASE UNCHANGED vars
    BY <1>9
<1>10. QED
    BY <1>1, <1>2, <1>3, <1>4, <1>5, <1>6, <1>7, <1>8, <1>9, <1>11, <1>12 DEF Next

\* What runs beside the updater, step by step.
LEMMA NextAlone == IInv /\ [Next]_vars => Alone'
<1> SUFFICES ASSUME IInv, [Next]_vars PROVE Alone'
    OBVIOUS
<1> USE DEF IInv, TypeOK, Alone, Goto
<1>1. ASSUME NEW v \in Versions, StartDownload(v) \/ TryLock(v) \/ SavePackage(v) \/ PostResult(v)
      PROVE Alone'
    <2>1. gui # "off"
        BY <1>1 DEF NoThreads, StartDownload, TryLock, SavePackage, PostResult
    <2>2. QED
        BY <1>1, <2>1 DEF StartDownload, TryLock, SavePackage, PostResult
<1>2. CASE ShowResult \/ Dismiss \/ GuiEnds \/ GuiStarts \/ RestartNow
    BY <1>2 DEF ShowResult, Dismiss, GuiEnds, GuiStarts, RestartNow
<1>3. CASE WaitParent \/ ClearStage \/ Extracted \/ RemovePackage
    BY <1>3 DEF WaitParent, ClearStage, Extracted, RemovePackage, Fail, FailEarly, End
<1>4. CASE Unstage \/ Restart \/ UpdaterDies
    BY <1>4 DEF Unstage, Restart, UpdaterDies, End
<1>5. ASSUME NEW f \in Files, Extract(f) \/ Install(f) PROVE Alone'
    BY <1>5 DEF Extract, Install, Fail
<1>6. CASE UNCHANGED vars
    BY <1>6
<1>7. QED
    BY <1>1, <1>2, <1>3, <1>4, <1>5, <1>6 DEF Next

\* The lock and the order of the posts keep the last result true of the disk.
LEMMA NextOneDownload == IInv /\ [Next]_vars => OneDownload' /\ ReadyIsOnDisk'
<1> DEFINE Goal == OneDownload' /\ ReadyIsOnDisk'
<1> SUFFICES ASSUME IInv, [Next]_vars PROVE Goal
    OBVIOUS
<1> USE DEF IInv, TypeOK, Alone, OneDownload, Downloading, ReadyIsOnDisk, Goto
<1>1. ASSUME NEW v \in Versions, StartDownload(v) PROVE Goal
    BY <1>1 DEF StartDownload
<1>2. ASSUME NEW v \in Versions, TryLock(v) PROVE Goal
    BY <1>2 DEF TryLock
<1>3. ASSUME NEW v \in Versions, SavePackage(v) PROVE Goal
    BY <1>3 DEF SavePackage
<1>4. ASSUME NEW v \in Versions, PostResult(v) PROVE Goal
    <2> DEFINE r == [asset |-> v, ok |-> thread[v] = "saved"]
    <2>1. /\ posted' # <<>> /\ Len(posted') = Len(posted) + 1 /\ posted'[Len(posted')] = r
        BY <1>4 DEF PostResult
    <2>2. r.ok => package' = r.asset
        BY <1>4 DEF PostResult
    <2>3. QED
        BY <1>4, <2>1, <2>2 DEF PostResult
<1>5. CASE ShowResult
    <2> DEFINE R == [asset : Versions, ok : BOOLEAN]
    <2>1. posted \in Seq(R) /\ posted # <<>> /\ posted' = Tail(posted)
        BY <1>5 DEF ShowResult
    <2> HIDE DEF R
    <2>2. posted' # <<>> => posted'[Len(posted')] = posted[Len(posted)]
        BY <2>1, LastOfTail
    <2>3. posted' = <<>> => Head(posted) = posted[Len(posted)]
        BY <2>1, LastOfTail
    <2>4. widget'.state = "ready" => Head(posted).ok /\ widget'.asset = Head(posted).asset
        BY <1>5 DEF ShowResult
    <2>5. UNCHANGED <<thread, package>>
        BY <1>5 DEF ShowResult
    <2>6. OneDownload'
        BY <2>1, <2>2, <2>5
    <2>7. ReadyIsOnDisk'
        BY <2>1, <2>3, <2>4, <2>5
    <2>8. QED
        BY <2>6, <2>7
<1>6. CASE Dismiss \/ GuiEnds \/ GuiStarts \/ RestartNow
    BY <1>6 DEF Dismiss, GuiEnds, GuiStarts, RestartNow, Hidden, NoThreads
<1>7. CASE WaitParent \/ ClearStage \/ Extracted
    BY <1>7 DEF WaitParent, ClearStage, Extracted, Fail, FailEarly, End
<1>8. CASE RemovePackage
    <2>1. gui = "off" /\ thread = NoThreads /\ posted = <<>>
        BY <1>8 DEF RemovePackage
    <2>2. QED
        BY <1>8, <2>1 DEF RemovePackage, NoThreads
<1>9. CASE Unstage \/ Restart \/ UpdaterDies
    BY <1>9 DEF Unstage, Restart, UpdaterDies, End, Hidden
<1>10. ASSUME NEW f \in Files, Extract(f) \/ Install(f) PROVE Goal
    BY <1>10 DEF Extract, Install, Fail
<1>11. CASE UNCHANGED vars
    BY <1>11
<1>12. QED
    BY <1>1, <1>2, <1>3, <1>4, <1>5, <1>6, <1>7, <1>8, <1>9, <1>10, <1>11 DEF Next

\* A step of the window leaves the updater's variables, the files and, while the
\* updater is past its wait, the package as they are.
LEMMA WindowSteps ==
    ASSUME IInv, NEW v \in Versions,
           \/ StartDownload(v) \/ TryLock(v) \/ SavePackage(v) \/ PostResult(v)
           \/ ShowResult \/ Dismiss \/ GuiEnds \/ GuiStarts
    PROVE  /\ UNCHANGED <<updVars, installed, stage>>
           /\ package' = package \/ (package' \in Versions /\ pc \in {"off", "wait"})
<1>1. UNCHANGED <<updVars, installed, stage>>
    BY DEF StartDownload, TryLock, SavePackage, PostResult, ShowResult, Dismiss, GuiEnds,
       GuiStarts
<1>2. CASE SavePackage(v)
    <2>1. gui # "off"
        BY <1>2 DEF IInv, Alone, SavePackage, NoThreads
    <2>2. QED
        BY <1>2, <2>1 DEF IInv, Alone, SavePackage
<1>3. CASE ~SavePackage(v)
    BY <1>3 DEF StartDownload, TryLock, PostResult, ShowResult, Dismiss, GuiEnds, GuiStarts
<1>4. QED
    BY <1>1, <1>2, <1>3

\* What is staged, copied and left of it.
LEMMA NextProgress == IInv /\ [Next]_vars => Progress' /\ Healable' /\ InstalledAlone'
<1> DEFINE Goal == Progress' /\ Healable' /\ InstalledAlone'
<1> SUFFICES ASSUME IInv, [Next]_vars PROVE Goal
    OBVIOUS
<1> USE ReleasesAssumption
<1>0. TypeOK /\ Alone /\ Progress /\ Healable /\ InstalledAlone
    BY DEF IInv
<1>t. installed \in Contents /\ stage \in Contents /\ todo \subseteq Files
      /\ package \in Versions \cup {None} /\ release \in Versions \cup {None}
    BY <1>0 DEF TypeOK
<1>1. ASSUME NEW v \in Versions,
             \/ StartDownload(v) \/ TryLock(v) \/ SavePackage(v) \/ PostResult(v)
             \/ ShowResult \/ Dismiss \/ GuiEnds \/ GuiStarts
      PROVE Goal
    <2>1. /\ UNCHANGED <<updVars, installed, stage>>
          /\ package' = package \/ (package' \in Versions /\ pc \in {"off", "wait"})
        BY <1>1, WindowSteps
    <2>2. Progress'
        BY <1>0, <2>1 DEF Progress, Untouched
    <2>3. Healable' /\ InstalledAlone'
        BY <1>0, <2>1 DEF Healable, InstalledAlone, Whole, Alone
    <2>4. QED
        BY <2>2, <2>3
<1>2. CASE RestartNow
    BY <1>2, <1>0 DEF RestartNow, Goto, Alone, Progress, Healable, InstalledAlone, Whole,
       Untouched
<1>3. CASE WaitParent
    BY <1>3, <1>0 DEF WaitParent, FailEarly, End, Goto, Alone, Progress, Healable,
       InstalledAlone, Whole
<1>4. CASE ClearStage
    <2>1. Progress'
        BY <1>4, <1>0, <1>t DEF ClearStage, FailEarly, End, Goto, Progress, Empty
    <2>2. Healable' /\ InstalledAlone'
        BY <1>4, <1>0 DEF ClearStage, FailEarly, End, Goto, Alone, Healable,
           InstalledAlone, Whole
    <2>3. QED
        BY <2>1, <2>2
<1>5. ASSUME NEW f \in Files, Extract(f) PROVE Goal
    <2>1. Progress'
        BY <1>5, <1>0, <1>t DEF Extract, Fail, Goto, Progress, Contents
    <2>2. Healable' /\ InstalledAlone'
        BY <1>5, <1>0 DEF Extract, Fail, Goto, Alone, Healable, InstalledAlone, Whole
    <2>3. QED
        BY <2>1, <2>2
<1>6. CASE Extracted
    <2>1. Progress'
        BY <1>6, <1>0, <1>t DEF Extracted, Staged, Fail, Goto, Progress, Contents, Untouched
    <2>2. Healable' /\ InstalledAlone'
        BY <1>6, <1>0 DEF Extracted, Fail, Goto, Alone, Healable, InstalledAlone, Whole
    <2>3. QED
        BY <2>1, <2>2
<1>7. ASSUME NEW f \in Files, Install(f) PROVE Goal
    <2>1. /\ /\ pc = "copy"
          /\ release \in Versions
          /\ package = release
          /\ f \in Content[release]
          /\ stage[f] = release
        BY <1>7, <1>0 DEF Install, Progress
    <2>2. Progress'
        BY <1>7, <1>0, <1>t, <2>1 DEF Install, Fail, Goto, Progress, Contents, Untouched
    <2>3. Healable'
        BY <1>7, <1>0, <1>t, <2>1 DEF Install, Healable, Contents
    <2>4. InstalledAlone'
        BY <1>7, <1>0, <2>1 DEF Install, Fail, Goto, Alone, InstalledAlone
    <2>5. QED
        BY <2>2, <2>3, <2>4
<1>8. CASE RemovePackage
    <2>1. /\ pc = "copy" /\ todo = {} /\ release \in Versions /\ Whole(release) /\ Untouched
        BY <1>8, <1>0 DEF RemovePackage, Progress, Whole
    <2>2. Progress'
        BY <1>8, <1>0 DEF RemovePackage, Fail, Goto, Progress
    <2>3. Healable' /\ InstalledAlone'
        BY <1>8, <1>0, <2>1 DEF RemovePackage, Fail, Goto, Healable, InstalledAlone, Whole,
           Untouched
    <2>4. QED
        BY <2>2, <2>3
<1>9. CASE Unstage \/ Restart \/ UpdaterDies
    <2>1. Progress'
        BY <1>9, <1>0 DEF Unstage, Restart, UpdaterDies, End, Goto, Progress
    <2>2. Healable' /\ InstalledAlone'
        BY <1>9, <1>0 DEF Unstage, Restart, UpdaterDies, End, Goto, Healable,
           InstalledAlone, Whole
    <2>3. QED
        BY <2>1, <2>2
<1>10. CASE UNCHANGED vars
    BY <1>10, <1>0 DEF Progress, Healable, InstalledAlone, Whole, Untouched
<1>11. QED
    BY <1>1, <1>2, <1>3, <1>4, <1>5, <1>6, <1>7, <1>8, <1>9, <1>10, ReleasesAssumption DEF
       Next

\* The invariant holds in every state of every behaviour.
LEMMA Invariance == Spec => []IInv
<1>1. IInv /\ [Next]_vars => IInv'
    BY NextTypeOK, NextAlone, NextOneDownload, NextProgress DEF IInv
<1>2. QED
    BY InitIInv, <1>1, PTL DEF Spec

\* The variables of the window and of the updater keep their types.
THEOREM UpdaterTyped == Spec => []TypeOK
<1>1. IInv => TypeOK
    BY DEF IInv
<1>2. QED
    BY Invariance, <1>1, PTL

\* For any releases and any failures: the installation can always be repaired
\* (updateWithProgress removes the package last, copyTree replaces by rename).
THEOREM AlwaysHealable == Spec => []Healable
<1>1. IInv => Healable
    BY DEF IInv
<1>2. QED
    BY Invariance, <1>1, PTL

\* A run that reports success installed its release and nothing else.
THEOREM SuccessIsWhole == Spec => []InstalledAlone
<1>1. IInv => InstalledAlone
    BY DEF IInv
<1>2. QED
    BY Invariance, <1>1, PTL

\* "Restart now" is offered for the package that is on disk.
THEOREM OfferedIsOnDisk == Spec => []ReadyIsOnDisk
<1>1. IInv => ReadyIsOnDisk
    BY DEF IInv
<1>2. QED
    BY Invariance, <1>1, PTL
=============================================================================
