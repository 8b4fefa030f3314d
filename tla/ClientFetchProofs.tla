------------------------- MODULE ClientFetchProofs -------------------------
(***************************************************************************)
(* What the clients fetch, for any number of users, any lists of follows,  *)
(* any stored events and any number of faults: the pages show what belongs *)
(* to the list, in its order, and all of it when nothing went wrong.       *)
(***************************************************************************)
EXTENDS ClientSession, FiniteSetTheorems, WellFoundedInduction, TLAPS

USE DEF Pages, Jobs

(* Every set of natural numbers that is not empty has a least element:     *)
(* the induction of the next lemmas.                                       *)
LEMMA Least ==
  ASSUME NEW T, T \subseteq Nat, T # {}
  PROVE  \E m \in T : \A n \in T : m <= n
<1>1. PICK m \in T : \A n \in T : ~(<<n, m>> \in OpToRel(<, Nat))
  BY WFMin, NatLessThanWellFounded, Zenon
<1>2. \A n \in T : ~(n < m)
  <2> SUFFICES ASSUME NEW n \in T, n < m PROVE FALSE
    OBVIOUS
  <2>1. n \in Nat /\ m \in Nat
    OBVIOUS
  <2>2. <<n, m>> \in OpToRel(<, Nat)
    BY <2>1 DEF OpToRel
  <2> QED BY <1>1, <2>2
<1> QED BY <1>2

-----------------------------------------------------------------------------
(* Places.  Every subset of 1..n has a k-th place, for k up to its size.   *)
HasPlaces(I) ==
  /\ IsFiniteSet(I) /\ Cardinality(I) \in Nat
  /\ \A k \in 1..Cardinality(I) : \E i \in I : Cardinality(Upto(I, i)) = k

LEMMA OnePlaceMore ==
  ASSUME NEW m \in Nat, NEW I \in SUBSET (1..(m + 1)), m + 1 \in I,
         HasPlaces(I \ {m + 1})
  PROVE  HasPlaces(I)
<1> DEFINE J == I \ {m + 1}
<1>1. I = J \cup {m + 1} /\ m + 1 \notin J
  OBVIOUS
<1>2. IsFiniteSet(I) /\ Cardinality(I) = Cardinality(J) + 1 /\ Cardinality(J) \in Nat
  BY <1>1, FS_AddElement DEF HasPlaces
<1>3. ASSUME NEW k \in 1..Cardinality(I) PROVE \E i \in I : Cardinality(Upto(I, i)) = k
  <2>1. CASE k = Cardinality(I)
    <3>1. \A j \in I : j <= m + 1
      OBVIOUS
    <3>2. Upto(I, m + 1) = I
      BY <3>1, Zenon DEF Upto
    <3> QED BY <2>1, <3>2
  <2>2. CASE k # Cardinality(I)
    <3>1. k \in 1..Cardinality(J)
      BY <1>2, <2>2
    <3>2. PICK i \in J : Cardinality(Upto(J, i)) = k
      BY <3>1 DEF HasPlaces
    <3>3. Upto(I, i) = Upto(J, i)
      BY <3>2 DEF Upto
    <3> QED BY <3>2, <3>3
  <2> QED BY <2>1, <2>2
<1> QED BY <1>2, <1>3 DEF HasPlaces

LEMMA PlacesExist ==
  ASSUME NEW n \in Nat
  PROVE  \A I \in SUBSET (1..n) : HasPlaces(I)
<1> DEFINE T == {m \in Nat : \E I \in SUBSET (1..m) : ~HasPlaces(I)}
<1>1. SUFFICES ASSUME T # {} PROVE FALSE
  OBVIOUS
<1>2. PICK m \in T : \A k \in T : m <= k
  BY <1>1, Least
<1>3. PICK I \in SUBSET (1..m) : ~HasPlaces(I)
  OBVIOUS
<1>4. CASE m = 0
  <2>1. I = {}
    BY <1>4
  <2> QED BY <1>3, <2>1, FS_EmptySet DEF HasPlaces
<1>5. CASE m # 0
  <2>1. PICK l \in Nat : m = l + 1
    BY <1>5
  <2>2. l \notin T
    BY <1>2, <2>1
  <2>3. \A J \in SUBSET (1..l) : HasPlaces(J)
    BY <2>2
  <2>4. CASE m \in I
    <3>1. I \ {m} \in SUBSET (1..l)
      BY <2>1
    <3>2. HasPlaces(I \ {l + 1})
      BY <2>1, <2>3, <3>1
    <3> QED BY <1>3, <2>1, <2>4, <3>2, OnePlaceMore
  <2>5. CASE m \notin I
    <3>1. I \in SUBSET (1..l)
      BY <2>1, <2>5
    <3> QED BY <1>3, <2>3, <3>1
  <2> QED BY <2>4, <2>5
<1> QED BY <1>4, <1>5

(* A later place has more places up to it.                                 *)
LEMMA RankGrows ==
  ASSUME NEW I, I \subseteq Nat, IsFiniteSet(I), NEW p \in I, NEW q \in I, p < q
  PROVE  /\ Cardinality(Upto(I, p)) < Cardinality(Upto(I, q))
         /\ Cardinality(Upto(I, p)) \in Nat /\ Cardinality(Upto(I, q)) \in Nat
<1>0. /\ \A j \in I : j <= p => j <= q /\ j # q
      /\ q <= q /\ ~(q <= p)
  OBVIOUS
<1>1. /\ Upto(I, q) \in SUBSET I /\ q \in Upto(I, q) /\ q \notin Upto(I, p)
      /\ Upto(I, p) \in SUBSET (Upto(I, q) \ {q})
  BY <1>0, Zenon DEF Upto
<1>2. IsFiniteSet(Upto(I, q))
  BY <1>1, FS_Subset
<1>3. IsFiniteSet(Upto(I, q) \ {q}) /\ Cardinality(Upto(I, q) \ {q}) = Cardinality(Upto(I, q)) - 1
  BY <1>1, <1>2, FS_RemoveElement
<1>4. Cardinality(Upto(I, p)) <= Cardinality(Upto(I, q) \ {q}) /\ IsFiniteSet(Upto(I, p))
  BY <1>1, <1>3, FS_Subset
<1>5. Cardinality(Upto(I, p)) \in Nat /\ Cardinality(Upto(I, q)) \in Nat
  BY <1>2, <1>4, FS_CardinalityType
<1> QED BY <1>3, <1>4, <1>5

(* The places of I, in order, each of them once.                           *)
LEMMA Places ==
  ASSUME NEW n \in Nat, NEW I \in SUBSET (1..n)
  PROVE  /\ Cardinality(I) \in Nat /\ (I = {} <=> Cardinality(I) = 0)
         /\ \A k \in 1..Cardinality(I) : Place(I, k) \in I
         /\ \A k, l \in 1..Cardinality(I) : k # l => Place(I, k) # Place(I, l)
         /\ \A i \in I : \E k \in 1..Cardinality(I) : Place(I, k) = i
<1>1. HasPlaces(I)
  BY PlacesExist
<1>2. IsFiniteSet(I) /\ Cardinality(I) \in Nat /\ I \subseteq Nat
  BY <1>1 DEF HasPlaces
<1>3. ASSUME NEW k \in 1..Cardinality(I)
      PROVE  Place(I, k) \in I /\ Cardinality(Upto(I, Place(I, k))) = k
  BY <1>1 DEF HasPlaces, Place
<1>4. ASSUME NEW k \in 1..Cardinality(I), NEW l \in 1..Cardinality(I), k # l
      PROVE  Place(I, k) # Place(I, l)
  BY <1>3, <1>4
<1>5. ASSUME NEW i \in I PROVE \E k \in 1..Cardinality(I) : Place(I, k) = i
  <2>1. Upto(I, i) \in SUBSET I /\ Upto(I, i) # {}
    <3>1. i <= i
      BY <1>2
    <3> QED BY <3>1, Zenon DEF Upto
  <2>2. /\ Cardinality(Upto(I, i)) \in Nat /\ Cardinality(Upto(I, i)) # 0
        /\ Cardinality(Upto(I, i)) <= Cardinality(I)
    <3>1. IsFiniteSet(Upto(I, i)) /\ Cardinality(Upto(I, i)) <= Cardinality(I)
      BY <1>2, <2>1, FS_Subset
    <3>2. Cardinality(Upto(I, i)) \in Nat
      BY <3>1, FS_CardinalityType
    <3>3. Cardinality(Upto(I, i)) # 0
      BY <2>1, <3>1, FS_EmptySet
    <3> QED BY <3>1, <3>2, <3>3
  <2>3. PICK k \in 1..Cardinality(I) : k = Cardinality(Upto(I, i))
    BY <1>2, <2>2
  <2>4. Place(I, k) \in I /\ Cardinality(Upto(I, Place(I, k))) = Cardinality(Upto(I, i))
    BY <1>3, <2>3
  <2>5. PICK p \in I : p = Place(I, k)
    BY <2>4
  <2>6. ASSUME NEW a \in I, NEW b \in I, a < b
        PROVE  Cardinality(Upto(I, a)) # Cardinality(Upto(I, b))
    <3>1. /\ Cardinality(Upto(I, a)) < Cardinality(Upto(I, b))
          /\ Cardinality(Upto(I, a)) \in Nat /\ Cardinality(Upto(I, b)) \in Nat
      BY <1>2, <2>6, RankGrows
    <3> HIDE DEF Upto
    <3> QED BY <3>1
  <2>7. Cardinality(Upto(I, p)) = Cardinality(Upto(I, i)) /\ p \in Nat /\ i \in Nat
    BY <1>2, <2>4, <2>5
  <2>8. ~(p < i) /\ ~(i < p)
    BY <2>6, <2>7
  <2> QED BY <2>5, <2>7, <2>8
<1>6. I = {} <=> Cardinality(I) = 0
  BY <1>2, FS_EmptySet
<1> QED BY <1>2, <1>3, <1>4, <1>5, <1>6

(* The first place is the least, the last one the greatest.                *)
LEMMA EndPlaces ==
  ASSUME NEW n \in Nat, NEW I \in SUBSET (1..n), I # {}
  PROVE  /\ Cardinality(I) \in Nat /\ Cardinality(I) >= 1
         /\ Place(I, 1) \in I /\ \A j \in I : Place(I, 1) <= j
         /\ Place(I, Cardinality(I)) \in I /\ \A j \in I : j <= Place(I, Cardinality(I))
<1>1. HasPlaces(I)
  BY PlacesExist
<1>2. IsFiniteSet(I) /\ I \subseteq Nat
  BY <1>1 DEF HasPlaces
<1>3. PICK c \in Nat : c = Cardinality(I)
  BY <1>1 DEF HasPlaces
<1>4. c >= 1
  <2>1. c # 0
    BY <1>2, <1>3, FS_EmptySet
  <2> QED BY <2>1
<1>5. ASSUME NEW k \in 1..c PROVE Place(I, k) \in I /\ Cardinality(Upto(I, Place(I, k))) = k
  BY <1>1, <1>3 DEF HasPlaces, Place
<1>6. PICK a \in I, b \in I : /\ a = Place(I, 1) /\ Cardinality(Upto(I, a)) = 1
                             /\ b = Place(I, c) /\ Cardinality(Upto(I, b)) = c
  <2>1. 1 \in 1..c /\ c \in 1..c
    BY <1>4
  <2> QED BY <1>5, <2>1
<1>7. ASSUME NEW j \in I
      PROVE  /\ Cardinality(Upto(I, j)) \in Nat /\ Cardinality(Upto(I, j)) # 0
             /\ Cardinality(Upto(I, j)) <= c
  <2>1. Upto(I, j) \in SUBSET I /\ Upto(I, j) # {}
    <3>1. j <= j
      BY <1>2
    <3> QED BY <3>1, Zenon DEF Upto
  <2>2. IsFiniteSet(Upto(I, j)) /\ Cardinality(Upto(I, j)) <= c
    BY <1>2, <1>3, <2>1, FS_Subset
  <2>3. Cardinality(Upto(I, j)) \in Nat
    BY <2>2, FS_CardinalityType
  <2>4. Cardinality(Upto(I, j)) # 0
    BY <2>1, <2>2, FS_EmptySet
  <2> QED BY <2>2, <2>3, <2>4
<1>8. ASSUME NEW i \in I, NEW j \in I, i < j
      PROVE  Cardinality(Upto(I, i)) < Cardinality(Upto(I, j))
  BY <1>2, <1>8, RankGrows
<1> HIDE DEF Upto, Place
<1>9. ASSUME NEW j \in I PROVE ~(j < a) /\ ~(b < j)
  <2>1. j < a => Cardinality(Upto(I, j)) < 1
    BY <1>6, <1>8
  <2>2. b < j => c < Cardinality(Upto(I, j))
    BY <1>6, <1>8
  <2> QED BY <1>7, <2>1, <2>2
<1>10. \A j \in I : a <= j /\ j <= b
  BY <1>2, <1>9
<1> QED BY <1>3, <1>4, <1>6, <1>10

(* Elements picked from a sequence: elements of it at places in I, those   *)
(* of different places, and all of them.                                   *)
LEMMA PickedIs ==
  ASSUME NEW S, NEW s \in Seq(S), NEW I \in SUBSET (1..Len(s))
  PROVE  /\ Picked(s, I) \in Seq(S) /\ Len(Picked(s, I)) = Cardinality(I)
         /\ Cardinality(I) \in Nat
         /\ \A k \in 1..Cardinality(I) : \E i \in I : Picked(s, I)[k] = s[i]
         /\ \A k, l \in 1..Cardinality(I) : k # l =>
              \E i, j \in I : i # j /\ Picked(s, I)[k] = s[i] /\ Picked(s, I)[l] = s[j]
         /\ \A i \in I : \E k \in 1..Cardinality(I) : Picked(s, I)[k] = s[i]
<1>1. Len(s) \in Nat /\ \A i \in 1..Len(s) : s[i] \in S
  OBVIOUS
<1>2. /\ Cardinality(I) \in Nat
      /\ \A k \in 1..Cardinality(I) : Place(I, k) \in I
      /\ \A k, l \in 1..Cardinality(I) : k # l => Place(I, k) # Place(I, l)
      /\ \A i \in I : \E k \in 1..Cardinality(I) : Place(I, k) = i
  BY <1>1, Places
<1>3. PICK n \in Nat : n = Cardinality(I)
  BY <1>2
<1>4. \A k \in 1..n : s[Place(I, k)] \in S
  BY <1>1, <1>2, <1>3
<1>5. Picked(s, I) = [k \in 1..n |-> s[Place(I, k)]]
  BY <1>3 DEF Picked
<1>6. Picked(s, I) \in Seq(S) /\ Len(Picked(s, I)) = n
  <2> HIDE DEF Place
  <2> QED BY <1>4, <1>5
<1>7. \A k \in 1..n : Picked(s, I)[k] = s[Place(I, k)]
  BY <1>5
<1> HIDE DEF Picked, Place
<1>8. ASSUME NEW k \in 1..n PROVE \E i \in I : Picked(s, I)[k] = s[i]
  BY <1>2, <1>3, <1>7
<1>9. ASSUME NEW k \in 1..n, NEW l \in 1..n, k # l
      PROVE  \E i, j \in I : i # j /\ Picked(s, I)[k] = s[i] /\ Picked(s, I)[l] = s[j]
  BY <1>2, <1>3, <1>7, <1>9
<1>10. ASSUME NEW i \in I PROVE \E k \in 1..n : Picked(s, I)[k] = s[i]
  BY <1>2, <1>3, <1>7
<1> QED BY <1>3, <1>6, <1>8, <1>9, <1>10

(* get_feed and get_follows keep the EVENT messages that can be read.      *)
Good == Events \ Unreadable
LEMMA ReadableIs ==
  ASSUME NEW m \in Seq(Messages)
  PROVE  /\ Readable(m) \in Seq(Events) /\ Len(Readable(m)) \in Nat
         /\ \A k \in 1..Len(Readable(m)) :
              Readable(m)[k] \in Good /\ \E i \in 1..Len(m) : Readable(m)[k] = m[i]
         /\ \A k, l \in 1..Len(Readable(m)) : k # l =>
              \E i, j \in 1..Len(m) :
                i # j /\ Readable(m)[k] = m[i] /\ Readable(m)[l] = m[j]
         /\ \A i \in 1..Len(m) : m[i] \in Good =>
              \E k \in 1..Len(Readable(m)) : Readable(m)[k] = m[i]
<1> DEFINE I == {i \in DOMAIN m : m[i] \in Events \ Unreadable}
<1>1. DOMAIN m = 1..Len(m) /\ I \in SUBSET (1..Len(m)) /\ \A i \in I : m[i] \in Good
  BY DEF Good
<1>2. PICK R : R = Picked(m, I) /\ R = Readable(m)
  BY DEF Readable
<1>3. /\ R \in Seq(Messages) /\ Len(R) = Cardinality(I) /\ Cardinality(I) \in Nat
      /\ \A k \in 1..Cardinality(I) : \E i \in I : R[k] = m[i]
      /\ \A k, l \in 1..Cardinality(I) : k # l =>
           \E i, j \in I : i # j /\ R[k] = m[i] /\ R[l] = m[j]
      /\ \A i \in I : \E k \in 1..Cardinality(I) : R[k] = m[i]
  <2> HIDE DEF I
  <2>1. PICK J \in SUBSET (1..Len(m)) : J = I
    BY <1>1
  <2>2. R = Picked(m, J)
    BY <1>2, <2>1
  <2>3. /\ R \in Seq(Messages) /\ Len(R) = Cardinality(J) /\ Cardinality(J) \in Nat
        /\ \A k \in 1..Cardinality(J) : \E i \in J : R[k] = m[i]
        /\ \A k, l \in 1..Cardinality(J) : k # l =>
             \E i, j \in J : i # j /\ R[k] = m[i] /\ R[l] = m[j]
        /\ \A i \in J : \E k \in 1..Cardinality(J) : R[k] = m[i]
    <3>1. /\ Picked(m, J) \in Seq(Messages) /\ Len(Picked(m, J)) = Cardinality(J)
          /\ Cardinality(J) \in Nat
          /\ \A k \in 1..Cardinality(J) : \E i \in J : Picked(m, J)[k] = m[i]
          /\ \A k, l \in 1..Cardinality(J) : k # l =>
               \E i, j \in J : i # j /\ Picked(m, J)[k] = m[i] /\ Picked(m, J)[l] = m[j]
          /\ \A i \in J : \E k \in 1..Cardinality(J) : Picked(m, J)[k] = m[i]
      BY ONLY PickedIs, m \in Seq(Messages), J \in SUBSET (1..Len(m))
    <3> QED BY ONLY <2>2, <3>1
  <2> QED BY <2>1, <2>3
<1>4. \A i \in 1..Len(m) : m[i] \in Good => i \in I
  BY <1>1 DEF Good
<1>5. \A k \in 1..Len(R) : R[k] \in Good
  <2> HIDE DEF I
  <2> QED BY <1>1, <1>3
<1> HIDE DEF I
<1>6. R \in Seq(Events)
  <2>1. \A k \in 1..Len(R) : R[k] \in Events
    BY <1>5 DEF Good
  <2> QED BY <1>3, <2>1
<1>7. I \subseteq 1..Len(m)
  BY <1>1
<1>8. \A k \in 1..Len(R) : R[k] \in Good /\ \E i \in 1..Len(m) : R[k] = m[i]
  BY <1>3, <1>5, <1>7, Zenon
<1>9. \A k, l \in 1..Len(R) : k # l =>
        \E i, j \in 1..Len(m) : i # j /\ R[k] = m[i] /\ R[l] = m[j]
  <2> SUFFICES ASSUME NEW k \in 1..Len(R), NEW l \in 1..Len(R), k # l
               PROVE  \E i, j \in 1..Len(m) : i # j /\ R[k] = m[i] /\ R[l] = m[j]
    OBVIOUS
  <2>1. PICK i \in I, j \in I : i # j /\ R[k] = m[i] /\ R[l] = m[j]
    BY <1>3
  <2> QED BY <1>7, <2>1, Zenon
<1>10. \A i \in 1..Len(m) : m[i] \in Good => \E k \in 1..Len(R) : R[k] = m[i]
  BY <1>3, <1>4, Zenon
<1>11. Len(R) \in Nat
  BY <1>3
<1> QED BY ONLY <1>2, <1>6, <1>8, <1>9, <1>10, <1>11

-----------------------------------------------------------------------------
(* What a relay answers.  No relay of NIP-01 holds an event twice; of      *)
(* wss_relay, which may hold one many times, a client gets one per REQ.    *)
NoRepeats ==
  "nip01" \in Relays => \A i, j \in DOMAIN Stored : Stored[i] = Stored[j] => i = j

(* The events in an answer to q: what was asked for, one if the limit is   *)
(* one, and none twice.                                                    *)
Answers(A, q) ==
  /\ A \in Seq(Messages) /\ Len(A) >= 1
  /\ \A i \in 1..Len(A) : A[i] \in Events =>
       /\ q.author # NoKey => Author[A[i]] = q.author
       /\ q.limit = 1 => i = 1
  /\ NoRepeats => \A i, j \in 1..Len(A) : (i # j /\ A[i] \in Events) => A[i] # A[j]
OfKind(A, q) ==
  \A i \in 1..Len(A) : A[i] \in Events => (q.kinds = {} \/ Kind[A[i]] \in q.kinds)

LEMMA OneMessage ==
  ASSUME NEW q, NEW m \in Messages,
         m \in Events => (q.author # NoKey => Author[m] = q.author)
  PROVE  Answers(<<m>>, q)
<1>1. <<m>> \in Seq(Messages) /\ Len(<<m>>) = 1 /\ <<m>>[1] = m
  OBVIOUS
<1>2. \A i \in 1..Len(<<m>>) : i = 1
  BY <1>1
<1> QED BY <1>1, <1>2 DEF Answers

LEMMA Nip01Is ==
  ASSUME NEW q, q.limit \in Nat, "nip01" \in Relays
  PROVE  Answers(Nip01Answer(q), q) /\ OfKind(Nip01Answer(q), q)
<1> DEFINE F == Found(q)
<1>1. /\ Stored \in Seq(Events) /\ DOMAIN Stored = 1..Len(Stored) /\ Len(Stored) \in Nat
      /\ Other \notin Events
  BY ClientAssumption
<1>2. F \in SUBSET (1..Len(Stored))
  BY <1>1 DEF Found
<1>3. \A i \in F : /\ q.kinds = {} \/ Kind[Stored[i]] \in q.kinds
                   /\ q.author \in {NoKey, Author[Stored[i]]}
  BY DEF Found
<1> HIDE DEF F
<1>a. PICK z \in Nat : z = Len(Stored)
  BY <1>1
<1>b. F \in SUBSET (1..z)
  BY <1>2, <1>a
<1>4. PICK all \in Nat : all = Cardinality(F)
  BY <1>b, Places
<1>5. /\ \A k \in 1..all : Place(F, k) \in F
      /\ \A k, l \in 1..all : k # l => Place(F, k) # Place(F, l)
  <2> HIDE DEF Place
  <2>1. /\ \A k \in 1..Cardinality(F) : Place(F, k) \in F
        /\ \A k, l \in 1..Cardinality(F) : k # l => Place(F, k) # Place(F, l)
    BY <1>b, Places
  <2> QED BY <1>4, <2>1
<1>6. PICK n \in Nat : n = (IF all < q.limit THEN all ELSE q.limit)
  OBVIOUS
<1>7. PICK B : B = [k \in 1..n |-> Stored[Place(F, all - k + 1)]]
  OBVIOUS
<1>8. n <= all /\ n <= q.limit /\ \A k \in 1..n : all - k + 1 \in 1..all
  BY <1>6
<1>9. \A k \in 1..n : /\ Place(F, all - k + 1) \in F
                      /\ B[k] = Stored[Place(F, all - k + 1)]
  BY <1>5, <1>7, <1>8
<1>10. \A k \in 1..n : /\ B[k] \in Events
                       /\ q.kinds = {} \/ Kind[B[k]] \in q.kinds
                       /\ q.author \in {NoKey, Author[B[k]]}
  <2> SUFFICES ASSUME NEW k \in 1..n
               PROVE  /\ B[k] \in Events /\ (q.kinds = {} \/ Kind[B[k]] \in q.kinds)
                      /\ q.author \in {NoKey, Author[B[k]]}
    OBVIOUS
  <2>1. PICK i \in F : B[k] = Stored[i]
    BY <1>9
  <2>2. Stored[i] \in Events
    BY <1>1, <1>2
  <2> QED BY <1>3, <2>1, <2>2
<1>11. ASSUME NoRepeats, NEW k \in 1..n, NEW l \in 1..n, k # l PROVE B[k] # B[l]
  <2>1. PICK i \in F, j \in F : i # j /\ B[k] = Stored[i] /\ B[l] = Stored[j]
    <3>1. all - k + 1 # all - l + 1 /\ all - k + 1 \in 1..all /\ all - l + 1 \in 1..all
      BY <1>8, <1>11
    <3>2. Place(F, all - k + 1) # Place(F, all - l + 1)
      BY <1>5, <3>1
    <3> QED BY <1>9, <3>2
  <2>2. i \in DOMAIN Stored /\ j \in DOMAIN Stored
    BY <1>1, <1>2
  <2> QED BY <1>11, <2>1, <2>2 DEF NoRepeats
<1>12. B \in Seq(Messages) /\ Len(B) = n
  <2>1. \A k \in 1..n : Stored[Place(F, all - k + 1)] \in Messages
    BY <1>9, <1>10 DEF Messages
  <2> HIDE DEF Place
  <2> QED BY <1>7, <2>1
<1>13. PICK A : A = Append(B, Other)
  OBVIOUS
<1>14. A = Nip01Answer(q)
  BY <1>4, <1>6, <1>7, <1>13 DEF Nip01Answer, F
<1>15. /\ A \in Seq(Messages) /\ Len(A) = n + 1 /\ A[n + 1] \notin Events
       /\ \A k \in 1..n : A[k] = B[k]
  BY <1>1, <1>12, <1>13 DEF Messages
<1>16. \A k \in 1..Len(A) : A[k] \in Events => k \in 1..n
  BY <1>15
<1>17. Answers(A, q)
  <2>1. \A i \in 1..Len(A) : A[i] \in Events =>
          (q.author # NoKey => Author[A[i]] = q.author) /\ (q.limit = 1 => i = 1)
    BY <1>8, <1>10, <1>15, <1>16
  <2>2. ASSUME NoRepeats, NEW i \in 1..Len(A), NEW j \in 1..Len(A), i # j, A[i] \in Events
        PROVE  A[i] # A[j]
    <3>1. CASE A[j] \in Events
      BY <1>11, <1>15, <1>16, <2>2, <3>1
    <3> QED BY <2>2, <3>1
  <2> QED BY <1>15, <2>1, <2>2 DEF Answers
<1>18. OfKind(A, q)
  BY <1>10, <1>15, <1>16 DEF OfKind
<1> QED BY <1>14, <1>17, <1>18

LEMMA WssIs ==
  ASSUME NEW q
  PROVE  Answers(WssAnswer(q), q)
<1> DEFINE F == {i \in DOMAIN Stored : Author[Stored[i]] = q.author}
<1>1. /\ Stored \in Seq(Events) /\ DOMAIN Stored = 1..Len(Stored) /\ Len(Stored) \in Nat
      /\ Other \in Messages \ Events
  BY ClientAssumption DEF Messages
<1>2. F \in SUBSET (1..Len(Stored)) /\ \A i \in F : Author[Stored[i]] = q.author
  BY <1>1
<1>3. WssAnswer(q) = IF F = {} THEN <<Other>> ELSE <<Stored[Place(F, 1)]>>
  BY DEF WssAnswer
<1> HIDE DEF F
<1>4. CASE F = {}
  BY <1>1, <1>3, <1>4, OneMessage
<1>5. CASE F # {}
  <2>1. 1 \in 1..Cardinality(F)
    <3>1. Cardinality(F) \in Nat /\ Cardinality(F) # 0
      BY <1>1, <1>2, <1>5, Places
    <3> QED BY <3>1
  <2>2. Place(F, 1) \in F
    BY <1>1, <1>2, <2>1, Places
  <2>3. PICK e \in Events : e = Stored[Place(F, 1)] /\ Author[e] = q.author
    <3>1. PICK p \in F : p = Place(F, 1)
      BY <2>2
    <3>2. Stored[p] \in Events /\ Author[Stored[p]] = q.author
      BY <1>1, <1>2
    <3> QED BY <3>1, <3>2
  <2>4. e \in Messages
    BY DEF Messages
  <2>5. Answers(<<e>>, q)
    BY <2>3, <2>4, OneMessage
  <2> QED BY <1>3, <1>5, <2>3, <2>5
<1> QED BY <1>4, <1>5

(* The answer of each kind of relay.                                       *)
Reply(r, q) ==
  CASE q.type = "REQ" /\ r = "nip01" -> Nip01Answer(q)
    [] q.type = "REQ" /\ r = "wss" -> WssAnswer(q)
    [] q.type = "EVENT" /\ r = "hyper" -> <<Garbled>>
    [] OTHER -> <<Other>>

LEMMA ReplyIs ==
  ASSUME NEW q, q.limit \in Nat, NEW r \in Relays
  PROVE  /\ Answers(Reply(r, q), q)
         /\ r = "nip01" => OfKind(Reply(r, q), q)
<1>1. /\ Answers(<<Other>>, q) /\ OfKind(<<Other>>, q)
      /\ Answers(<<Garbled>>, q) /\ OfKind(<<Garbled>>, q)
  BY ClientAssumption, OneMessage DEF Messages, OfKind
<1>2. CASE q.type = "REQ" /\ r = "nip01"
  BY <1>2, Nip01Is DEF Reply
<1>3. CASE q.type = "REQ" /\ r = "wss"
  BY <1>3, WssIs DEF Reply
<1>4. CASE q.type = "EVENT" /\ r = "hyper"
  BY <1>1, <1>4 DEF Reply
<1>5. CASE /\ ~(q.type = "REQ" /\ r = "nip01") /\ ~(q.type = "REQ" /\ r = "wss")
           /\ ~(q.type = "EVENT" /\ r = "hyper")
  BY <1>1, <1>5 DEF Reply
<1> QED BY <1>2, <1>3, <1>4, <1>5

LEMMA AnswerIs ==
  ASSUME NEW q
  PROVE  Answer(q) = Reply(relay, q)
  BY DEF Answer, Reply

-----------------------------------------------------------------------------
(* Sequences: the rest, one element more, one after the other.             *)
LEMMA RestIs ==
  ASSUME NEW S, NEW s \in Seq(S), s # << >>
  PROVE  /\ Head(s) = s[1] /\ s[1] \in S /\ Tail(s) \in Seq(S)
         /\ Len(s) \in Nat /\ Len(s) >= 1 /\ Len(Tail(s)) = Len(s) - 1
         /\ \A i \in 1..Len(Tail(s)) : Tail(s)[i] = s[i + 1]
  OBVIOUS

LEMMA OneMoreIs ==
  ASSUME NEW S, NEW s \in Seq(S), NEW e \in S
  PROVE  /\ Append(s, e) \in Seq(S) /\ Len(s) \in Nat
         /\ Len(Append(s, e)) = Len(s) + 1 /\ Append(s, e)[Len(s) + 1] = e
         /\ \A i \in 1..Len(s) : Append(s, e)[i] = s[i]
  OBVIOUS

LEMMA JoinedIs ==
  ASSUME NEW S, NEW s \in Seq(S), NEW t \in Seq(S)
  PROVE  /\ s \o t \in Seq(S) /\ Len(s) \in Nat /\ Len(t) \in Nat
         /\ Len(s \o t) = Len(s) + Len(t)
         /\ \A i \in 1..Len(s) : (s \o t)[i] = s[i]
         /\ \A i \in 1..Len(t) : (s \o t)[Len(s) + i] = t[i]
  OBVIOUS

-----------------------------------------------------------------------------
(* Types.  In the middle of a fetch there is a key left to ask about.      *)
Working == \A u \in Users : job[u] = "authors" => todo[u] # << >>
TypeInv == TypeOK /\ Working

LEMMA Reqs ==
  ASSUME NEW a \in Keys \cup {NoKey, Torn}, NEW p, NEW ks \in SUBSET Nat, NEW n \in Nat
  PROVE  /\ Publish \in Queried /\ Req(a, ks, n) \in Queried
         /\ FollowsReq(a) \in Queried /\ AuthorReq(p, a) \in Queried
  BY DEF Publish, Req, FollowsReq, AuthorReq, Queried

LEMMA AnswerType ==
  ASSUME NEW q \in Queried, relay \in Relays
  PROVE  Answer(q) \in Seq(Messages)
<1>1. q.limit \in Nat
  BY DEF Queried
<1>2. Answers(Reply(relay, q), q)
  BY <1>1, ReplyIs
<1> QED BY <1>2, AnswerIs DEF Answers

LEMMA FollowsType ==
  ASSUME NEW m \in Seq(Messages)
  PROVE  Follows(m) \in Seq(Keys)
<1>1. Readable(m) \in Seq(Events) /\ PTags \in [Events -> Seq(Keys)]
  BY ReadableIs, ClientAssumption
<1> HIDE DEF Readable
<1>2. Readable(m) # << >> => Readable(m)[1] \in Events
  BY <1>1
<1> QED BY <1>1, <1>2 DEF Follows

LEMMA BeginTypes ==
  ASSUME TypeOK, NEW u \in Users, NEW q \in Queried, Begin(u, q)
  PROVE  /\ net' \in [Users -> {"none", "opening", "open", "closing"}]
         /\ query' \in [Users -> Queried]
         /\ answer' \in [Users -> Seq(Messages)] /\ store' \in [Users -> Seq(Messages)]
<1>1. << >> \in Seq(Messages)
  OBVIOUS
<1> QED BY <1>1 DEF TypeOK, Begin

LEMMA ContinueTypes ==
  ASSUME TypeInv, NEW u \in Users, NEW ks \in Seq(Keys), Continue(u, ks)
  PROVE  /\ net' \in [Users -> {"none", "opening", "open", "closing"}]
         /\ query' \in [Users -> Queried]
         /\ answer' \in [Users -> Seq(Messages)] /\ store' \in [Users -> Seq(Messages)]
         /\ job' \in [Users -> Jobs]
         /\ todo' \in [Users -> Seq(Keys)] /\ Working'
<1>1. << >> \in Seq(Messages) /\ TypeOK
  BY DEF TypeInv
<1>2. todo' \in [Users -> Seq(Keys)] /\ todo'[u] = ks /\ \A v \in Users \ {u} : todo'[v] = todo[v]
  BY <1>1 DEF TypeOK, Continue
<1>3. /\ job' \in [Users -> Jobs]
      /\ job'[u] = "authors" => ks # << >>
      /\ \A v \in Users \ {u} : job'[v] = job[v]
  BY <1>1 DEF TypeOK, Continue
<1>4. Working'
  BY <1>2, <1>3 DEF TypeInv, Working
<1>5. CASE ks = << >> /\ NoConnection(u)
  BY <1>1, <1>2, <1>3, <1>4, <1>5 DEF TypeOK, NoConnection
<1>6. CASE ks # << >> /\ Begin(u, AuthorReq(page[u], ks[1]))
  <2>1. ks[1] \in Keys
    BY <1>6
  <2>2. PICK q \in Queried : q = AuthorReq(page[u], ks[1])
    <3>1. PICK k \in Keys \cup {NoKey, Torn} : k = ks[1]
      BY <2>1
    <3>2. PICK p : p = page[u]
      OBVIOUS
    <3> QED BY <3>1, <3>2, Reqs
  <2>3. Begin(u, q)
    BY <1>6, <2>2
  <2> QED BY <1>1, <1>2, <1>3, <1>4, <2>3, BeginTypes
<1> QED BY <1>5, <1>6 DEF Continue

LEMMA EndSessionTypes ==
  ASSUME TypeInv, NEW u \in Users, EndSession(u), Quiet(u),
         spoiled' \in [Users -> BOOLEAN], faults' \in Nat
  PROVE  TypeInv'
<1>1. TypeOK /\ << >> \in Seq(Messages) /\ store[u] \in Seq(Messages)
  BY DEF TypeInv, TypeOK
<1>2. PICK m \in Seq(Messages) : m = store[u]
  BY <1>1
<1>3. Readable(m) \in Seq(Messages) /\ Follows(m) \in Seq(Keys)
  <2>1. Readable(m) \in Seq(Events)
    BY ReadableIs
  <2> HIDE DEF Readable
  <2> QED BY <2>1, FollowsType DEF Messages
<1> HIDE DEF Readable, Follows
<1>4. CASE job[u] = "send"
  <2>1. Working'
    BY <1>1, <1>4 DEF TypeInv, Working, EndSession, TypeOK
  <2>2. rows' \in [Users -> Seq(Messages)]
    <3>1. rows' = [rows EXCEPT ![u] = IF u \in Web THEN @ ELSE store[u]]
      BY <1>4 DEF EndSession
    <3> QED BY <1>1, <3>1 DEF TypeOK
  <2>3. /\ net' \in [Users -> {"none", "opening", "open", "closing"}]
        /\ answer' \in [Users -> Seq(Messages)] /\ store' \in [Users -> Seq(Messages)]
        /\ job' \in [Users -> Jobs]
        /\ UNCHANGED <<query, asked, list, todo>>
    <3>1. /\ job' = [job EXCEPT ![u] = "none"] /\ NoConnection(u)
          /\ UNCHANGED <<asked, list, todo>>
      BY <1>4 DEF EndSession
    <3> QED BY <1>1, <3>1 DEF TypeOK, NoConnection
  <2> QED BY <1>1, <2>1, <2>2, <2>3 DEF TypeInv, TypeOK, Quiet
<1>5. CASE job[u] = "follows"
  <2>1. /\ list' = [list EXCEPT ![u] = Follows(m)] /\ Continue(u, Follows(m))
        /\ UNCHANGED <<asked, rows>>
    BY <1>2, <1>5 DEF EndSession
  <2>2. PICK ks \in Seq(Keys) : ks = Follows(m)
    BY <1>3
  <2>3. Continue(u, ks)
    BY <2>1, <2>2
  <2>4. list' \in [Users -> Seq(Keys)]
    BY <1>1, <2>1, <2>2 DEF TypeOK
  <2> HIDE DEF TypeInv
  <2>5. /\ net' \in [Users -> {"none", "opening", "open", "closing"}]
        /\ query' \in [Users -> Queried]
        /\ answer' \in [Users -> Seq(Messages)] /\ store' \in [Users -> Seq(Messages)]
        /\ job' \in [Users -> Jobs]
        /\ todo' \in [Users -> Seq(Keys)] /\ Working'
    BY <2>3, ContinueTypes
  <2> QED BY <1>1, <2>1, <2>4, <2>5 DEF TypeInv, TypeOK, Quiet
<1>6. CASE job[u] = "authors"
  <2>1. /\ rows' = [rows EXCEPT ![u] = rows[u] \o Readable(m)]
        /\ Continue(u, Tail(todo[u])) /\ UNCHANGED <<asked, list>>
    BY <1>1, <1>2, <1>6 DEF EndSession
  <2>2. PICK ks \in Seq(Keys) : ks = Tail(todo[u])
    <3>1. todo[u] \in Seq(Keys) /\ todo[u] # << >>
      BY <1>1, <1>6 DEF TypeInv, TypeOK, Working
    <3>2. Tail(todo[u]) \in Seq(Keys)
      BY ONLY <3>1, RestIs
    <3> QED BY <3>2
  <2>3. Continue(u, ks)
    BY <2>1, <2>2
  <2>4. rows' \in [Users -> Seq(Messages)]
    <3>1. rows[u] \in Seq(Messages)
      BY <1>1 DEF TypeOK
    <3>2. rows[u] \o Readable(m) \in Seq(Messages)
      BY ONLY <1>3, <3>1, JoinedIs
    <3>3. PICK r \in Seq(Messages) : r = rows[u] \o Readable(m)
      BY <3>2
    <3> QED BY <1>1, <2>1, <3>3 DEF TypeOK
  <2> HIDE DEF TypeInv
  <2>5. /\ net' \in [Users -> {"none", "opening", "open", "closing"}]
        /\ query' \in [Users -> Queried]
        /\ answer' \in [Users -> Seq(Messages)] /\ store' \in [Users -> Seq(Messages)]
        /\ job' \in [Users -> Jobs]
        /\ todo' \in [Users -> Seq(Keys)] /\ Working'
    BY <2>3, ContinueTypes
  <2> QED BY <1>1, <2>1, <2>4, <2>5 DEF TypeInv, TypeOK, Quiet
<1> QED BY <1>4, <1>5, <1>6 DEF EndSession

LEMMA FetchTypes ==
  ASSUME TypeInv, NEW u \in Users, NEW p \in {"feed", "follows"}, Fetch(u, p)
  PROVE  TypeInv'
<1>1. TypeOK /\ Working /\ << >> \in Seq(Messages) /\ << >> \in Seq(Keys)
  BY DEF TypeInv
<1>2. KeyRead(u) \subseteq Keys \cup {NoKey, Torn}
  BY <1>1 DEF TypeOK, KeyRead, Assigning
<1>3. PICK k \in Keys \cup {NoKey, Torn} :
        asked' = [asked EXCEPT ![u] = k] /\ Begin(u, FollowsReq(k))
  BY <1>2 DEF Fetch
<1>4. PICK q \in Queried : q = FollowsReq(k)
  BY Reqs
<1>5. /\ net' \in [Users -> {"none", "opening", "open", "closing"}]
      /\ query' \in [Users -> Queried]
      /\ answer' \in [Users -> Seq(Messages)] /\ store' \in [Users -> Seq(Messages)]
  BY <1>1, <1>3, <1>4, BeginTypes
<1>6. /\ asked' \in [Users -> Keys \cup {NoKey, Torn}]
      /\ page' \in [Users -> Pages]
      /\ job' \in [Users -> Jobs]
      /\ list' \in [Users -> Seq(Keys)] /\ rows' \in [Users -> Seq(Messages)]
      /\ spoiled' \in [Users -> BOOLEAN] /\ clicks' \in [Users -> Nat]
      /\ UNCHANGED <<relay, faults, key, text, todo, foreign>>
  BY <1>1, <1>3 DEF TypeOK, Fetch, Click
<1>7. Working'
  BY <1>1 DEF TypeOK, Working, Fetch
<1> QED BY <1>1, <1>5, <1>6, <1>7 DEF TypeInv, TypeOK

LEMMA SendTypes ==
  ASSUME TypeInv, NEW u \in Users, NEW q \in Queries(u), Send(u, q)
  PROVE  TypeInv'
<1>1. TypeOK /\ Working
  BY DEF TypeInv
<1>2. q \in Queried
  <2>1. text[u] \in Keys \cup {NoKey, Torn} /\ Wanted \subseteq Keys \cup {NoKey}
    BY <1>1, ClientAssumption DEF TypeOK
  <2> QED BY <2>1 DEF Queries, Publish, Req, Queried
<1>3. Begin(u, q)
  BY DEF Send
<1>4. /\ net' \in [Users -> {"none", "opening", "open", "closing"}]
      /\ query' \in [Users -> Queried]
      /\ answer' \in [Users -> Seq(Messages)] /\ store' \in [Users -> Seq(Messages)]
  <2>1. PICK r \in Queried : r = q
    BY <1>2
  <2> QED BY <1>1, <1>3, <2>1, BeginTypes
<1>5. /\ page' \in [Users -> Pages]
      /\ job' \in [Users -> Jobs]
      /\ spoiled' \in [Users -> BOOLEAN] /\ clicks' \in [Users -> Nat]
      /\ UNCHANGED <<relay, faults, key, text, table, foreign>>
  BY <1>1 DEF TypeOK, Send, Click
<1>6. Working'
  BY <1>1 DEF TypeOK, Working, Send, table
<1> QED BY <1>1, <1>4, <1>5, <1>6 DEF TypeInv, TypeOK, table

LEMMA PageTypes ==
  ASSUME TypeInv, NEW u \in Users, NEW k \in Keys,
         OpenHome(u) \/ OpenFeed(u) \/ EditKey(u, k) \/ EndAssign(u) \/ ShowKey(u)
  PROVE  TypeInv'
<1>1. TypeOK /\ Working /\ << >> \in Seq(Messages) /\ << >> \in Seq(Keys) /\ DefKey \in Keys
  BY ClientAssumption DEF TypeInv
<1>2. CASE OpenHome(u)
  <2>1. Working'
    BY <1>1, <1>2 DEF TypeOK, Working, OpenHome, Assign
  <2>2. /\ foreign' \in [Users -> BOOLEAN] /\ text' \in [Users -> Keys \cup {NoKey, Torn}]
        /\ job' \in [Users -> Jobs]
    BY <1>1, <1>2 DEF TypeOK, OpenHome, Assign
  <2>3. /\ clicks' \in [Users -> Nat] /\ rows' \in [Users -> Seq(Messages)]
        /\ page' \in [Users -> Pages]
        /\ UNCHANGED <<relay, faults, key, session, asked, list, todo, spoiled>>
    BY <1>1, <1>2 DEF TypeOK, OpenHome, Click
  <2> QED BY <1>1, <2>1, <2>2, <2>3 DEF TypeInv, TypeOK, session
<1>3. CASE OpenFeed(u)
  <2>1. Working'
    BY <1>1, <1>3 DEF TypeOK, Working, OpenFeed
  <2> QED BY <1>1, <1>3, <2>1 DEF TypeInv, TypeOK, OpenFeed, Click, session
<1>4. CASE EditKey(u, k)
  <2>1. Working'
    BY <1>1, <1>4 DEF TypeOK, Working, EditKey, Assign, table
  <2>2. /\ foreign' \in [Users -> BOOLEAN] /\ text' \in [Users -> Keys \cup {NoKey, Torn}]
        /\ job' \in [Users -> Jobs]
    <3>1. CASE Assign(u, k)
      BY <1>1, <3>1 DEF TypeOK, Assign
    <3>2. CASE text' = [text EXCEPT ![u] = k] /\ UNCHANGED <<job, foreign>>
      BY <1>1, <3>2 DEF TypeOK
    <3> QED BY <1>4, <3>1, <3>2 DEF EditKey
  <2>3. /\ clicks' \in [Users -> Nat]
        /\ UNCHANGED <<relay, faults, key, page, session, table, spoiled>>
    BY <1>1, <1>4 DEF TypeOK, EditKey, Click
  <2> QED BY <1>1, <2>1, <2>2, <2>3 DEF TypeInv, TypeOK, session, table
<1>5. CASE EndAssign(u)
  <2>1. Working'
    BY <1>1, <1>5 DEF TypeOK, Working, EndAssign, table
  <2>2. key' \in Keys \cup {NoKey, Torn}
    BY <1>1, <1>5 DEF TypeOK, EndAssign
  <2> QED BY <1>1, <1>5, <2>1, <2>2 DEF TypeInv, TypeOK, EndAssign, session, table
<1>6. CASE ShowKey(u)
  <2>1. Working'
    BY <1>1, <1>6 DEF TypeOK, Working, ShowKey, table
  <2>2. KeyRead(u) \subseteq Keys \cup {NoKey, Torn} /\ (Assigning(u) # {}) \in BOOLEAN
    BY <1>1 DEF TypeOK, KeyRead, Assigning
  <2>3. /\ foreign' \in [Users -> BOOLEAN] /\ text' \in [Users -> Keys \cup {NoKey, Torn}]
        /\ page' \in [Users -> Pages] /\ job' \in [Users -> Jobs]
    BY <1>1, <1>6, <2>2 DEF TypeOK, ShowKey
  <2>4. UNCHANGED <<relay, key, session, table, spoiled, clicks, faults>>
    BY <1>6 DEF ShowKey
  <2> QED BY <1>1, <2>1, <2>3, <2>4 DEF TypeInv, TypeOK, session, table
<1> QED BY <1>2, <1>3, <1>4, <1>5, <1>6

LEMMA MessageTypes ==
  ASSUME TypeInv, NEW u \in Users,
         Open(u) \/ Deliver(u) \/ (Notice(u) /\ faults' = faults + 1)
  PROVE  TypeInv'
<1>1. /\ TypeOK /\ Working /\ << >> \in Seq(Messages) /\ Other \in Messages
      /\ answer[u] \in Seq(Messages) /\ store[u] \in Seq(Messages)
      /\ rows[u] \in Seq(Messages) /\ relay \in Relays /\ query[u] \in Queried
  <2>1. TypeOK /\ Working
    BY DEF TypeInv
  <2>2. << >> \in Seq(Messages) /\ Other \in Messages
    BY DEF Messages
  <2>3. /\ answer[u] \in Seq(Messages) /\ store[u] \in Seq(Messages)
        /\ rows[u] \in Seq(Messages) /\ relay \in Relays /\ query[u] \in Queried
    BY <2>1 DEF TypeOK
  <2> QED BY <2>1, <2>2, <2>3
<1>2. CASE Open(u)
  <2>1. PICK a \in Seq(Messages) : a = Answer(query[u])
    <3>1. PICK q \in Queried : q = query[u]
      BY <1>1
    <3> QED BY <1>1, <3>1, AnswerType
  <2>2. Working'
    BY <1>1, <1>2 DEF TypeOK, Working, Open
  <2>3. answer' = [answer EXCEPT ![u] = a]
    BY <1>2, <2>1 DEF Open
  <2>4. rows' \in [Users -> Seq(Messages)] /\ net' \in [Users -> {"none", "opening", "open", "closing"}]
    BY <1>1, <1>2 DEF TypeOK, Open
  <2>5. Quiet(u) /\ UNCHANGED <<job, query, store, asked, list, todo, spoiled, faults>>
    BY <1>2 DEF Open
  <2> QED BY <1>1, <2>2, <2>3, <2>4, <2>5 DEF TypeInv, TypeOK, Quiet
<1>3. CASE Deliver(u)
  <2>1. Head(answer[u]) \in Messages /\ Tail(answer[u]) \in Seq(Messages)
    <3>1. answer[u] # << >>
      BY <1>3 DEF Deliver
    <3> QED BY ONLY <1>1, <3>1
  <2>2. PICK m \in Messages, a \in Seq(Messages) : m = Head(answer[u]) /\ a = Tail(answer[u])
    BY <2>1
  <2>3. PICK s \in Seq(Messages), r \in Seq(Messages) :
          s = Append(store[u], m) /\ r = Append(rows[u], m)
    <3>1. Append(store[u], m) \in Seq(Messages) /\ Append(rows[u], m) \in Seq(Messages)
      BY ONLY <1>1, m \in Messages, OneMoreIs
    <3> QED BY <3>1
  <2>4. /\ answer' = [answer EXCEPT ![u] = a] /\ store' = [store EXCEPT ![u] = s]
        /\ net' = [net EXCEPT ![u] = IF Closes(u, m) THEN "closing" ELSE @]
        /\ rows' = [rows EXCEPT ![u] = IF job[u] = "send" /\ u \in Web THEN r ELSE @]
        /\ Quiet(u) /\ UNCHANGED <<job, query, asked, list, todo, spoiled, faults>>
    BY <1>1, <1>3, <2>2, <2>3 DEF Deliver, TypeOK
  <2>5. Working'
    BY <1>1, <2>4 DEF Working
  <2> QED BY <1>1, <2>4, <2>5 DEF TypeInv, TypeOK, Quiet
<1>4. CASE Notice(u) /\ faults' = faults + 1
  <2>1. PICK a \in Seq(Messages) : a = <<Other>> \o answer[u]
    <3>1. <<Other>> \in Seq(Messages)
      BY <1>1
    <3>2. <<Other>> \o answer[u] \in Seq(Messages)
      BY ONLY <1>1, <3>1, JoinedIs
    <3> QED BY <3>2
  <2>2. answer' = [answer EXCEPT ![u] = a]
    BY <1>1, <1>4, <2>1 DEF Notice, TypeOK
  <2>3. /\ spoiled' = [spoiled EXCEPT ![u] = TRUE] /\ Quiet(u)
        /\ UNCHANGED <<job, net, query, store, table>> /\ faults' = faults + 1
    BY <1>4 DEF Notice
  <2>4. Working'
    BY <1>1, <2>3 DEF Working, table
  <2> QED BY <1>1, <2>2, <2>3, <2>4 DEF TypeInv, TypeOK, Quiet, table
<1> QED BY <1>2, <1>3, <1>4

LEMMA TypeStep ==
  ASSUME TypeInv, [Next]_vars
  PROVE  TypeInv'
<1>1. CASE UNCHANGED vars
  BY <1>1 DEF TypeInv, TypeOK, Working, vars
<1>2. ASSUME NEW u \in Users, Closed(u) \/ (Lost(u) /\ faults' = faults + 1)
      PROVE  TypeInv'
  <2>1. EndSession(u) /\ Quiet(u)
    BY <1>2 DEF Closed, Lost
  <2>2. spoiled' \in [Users -> BOOLEAN] /\ faults' \in Nat
    <3>1. spoiled \in [Users -> BOOLEAN] /\ faults \in Nat
      BY DEF TypeInv, TypeOK
    <3>2. CASE Closed(u)
      BY <3>1, <3>2 DEF Closed
    <3>3. CASE Lost(u) /\ faults' = faults + 1
      BY <3>1, <3>3 DEF Lost
    <3> QED BY <1>2, <3>2, <3>3
  <2> QED BY <2>1, <2>2, EndSessionTypes
<1>3. ASSUME Next PROVE TypeInv'
  <2>1. PICK u \in Users :
          \/ OpenHome(u) \/ OpenFeed(u)
          \/ \E k \in Keys : EditKey(u, k)
          \/ \E p \in Fetched : Fetch(u, p)
          \/ \E q \in Queries(u) : Send(u, q)
          \/ Progress(u)
          \/ (Lost(u) \/ Notice(u)) /\ faults < MaxFaults /\ faults' = faults + 1
    BY <1>3 DEF Next
  <2>2. DefKey \in Keys
    BY ClientAssumption
  <2> QED BY <1>2, <2>1, <2>2, PageTypes, FetchTypes, SendTypes, MessageTypes DEF Progress, Fetched
<1> QED BY <1>1, <1>3

LEMMA TypeInit ==
  ASSUME Init
  PROVE  TypeInv
<1>1. << >> \in Seq(Messages) /\ << >> \in Seq(Keys) /\ DefKey \in Keys
      /\ Budgets \subseteq [Users -> Nat]
  BY ClientAssumption
<1>2. Publish \in Queried
  BY DEF Publish, Queried
<1>3. Working
  BY DEF Init, Working
<1> QED BY <1>1, <1>2, <1>3 DEF Init, TypeInv, TypeOK

(* The variables of the clients keep their types: what a relay answers is  *)
(* a sequence of messages, what get_follows returns a sequence of keys,    *)
(* and Tail is only taken of a list that has a key left.                   *)
THEOREM ClientTypes == Spec => []TypeOK
<1>1. TypeInv => TypeOK
  BY DEF TypeInv
<1> QED BY <1>1, TypeInit, TypeStep, PTL DEF Spec

-----------------------------------------------------------------------------
(* A fetch under way: the query that is being made, and how many keys of   *)
(* the list have been dealt with.                                          *)
Going(u) == job[u] \in {"follows", "authors"}
OnTable(u) == page[u] \in {"feed", "follows"}
Current(u) ==
  IF job[u] = "follows" THEN FollowsReq(asked[u]) ELSE AuthorReq(page[u], todo[u][1])
Done(u) == Len(list[u]) - (IF job[u] = "authors" THEN Len(todo[u]) ELSE 0)

(* Where a click is.  What is left to do of a fetch is the end of the list. *)
ClickInv(u) ==
  /\ job[u] = "send" => page[u] = "home"
  /\ net[u] # "none" => job[u] \in {"follows", "authors", "send"}
  /\ job[u] = "follows" => list[u] = << >> /\ rows[u] = << >>
  /\ job[u] = "authors" =>
       /\ Len(todo[u]) >= 1 /\ Len(todo[u]) <= Len(list[u])
       /\ \A i \in 1..Len(todo[u]) :
            todo[u][i] = list[u][(Len(list[u]) - Len(todo[u])) + i]
  /\ Going(u) => OnTable(u) /\ query[u] = Current(u)

(* The events of a connection are from the answer A to its query, whatever *)
(* came in between, and when nothing did the first message is the first of *)
(* the answer.                                                             *)
Genuine(s, A) == \A i \in 1..Len(s) : s[i] \in Events => \E j \in 1..Len(A) : A[j] = s[i]
SessionInv(u) ==
  Going(u) =>
    /\ net[u] = "opening" => store[u] = << >> /\ answer[u] = << >>
    /\ net[u] = "open" => store[u] = << >>
    /\ Genuine(store[u], Reply(relay, query[u]))
    /\ Genuine(answer[u], Reply(relay, query[u]))
    /\ ~spoiled[u] =>
         /\ net[u] = "open" => answer[u] = Reply(relay, query[u])
         /\ net[u] = "closing" =>
              Len(store[u]) >= 1 /\ store[u][1] = Reply(relay, query[u])[1]

(* Once the follows are there, they are those of the first message of the  *)
(* answer, none if it is not an event that can be read, and the table has  *)
(* the first event of every key that has been dealt with.                  *)
ListOf(m) == IF m \in Good THEN PTags[m] ELSE << >>
First(r, p, k) == Reply(r, AuthorReq(p, k))[1]
Shown(e, s) == e \in Good => \E i \in 1..Len(s) : s[i] = e
CompleteInv(u) ==
  (OnTable(u) /\ ~spoiled[u] /\ job[u] # "follows") =>
    /\ list[u] = ListOf(Reply(relay, FollowsReq(asked[u]))[1])
    /\ \A i \in 1..Done(u) : Shown(First(relay, page[u], list[u][i]), rows[u])

UserInv(u) == ClickInv(u) /\ SessionInv(u) /\ CompleteInv(u)
FetchInv == \A u \in Users : UserInv(u)

-----------------------------------------------------------------------------
(* The facts about messages and rows that the steps rest on.               *)
LEMMA ReqFields ==
  ASSUME NEW k, NEW p
  PROVE  /\ FollowsReq(k).limit = 1 /\ FollowsReq(k).author = k
         /\ AuthorReq(p, k).limit \in Nat /\ AuthorReq(p, k).author = k
         /\ AuthorReq(p, k).kinds = IF p = "feed" THEN {1} ELSE {0}
  BY DEF FollowsReq, AuthorReq, Req

LEMMA GenuineMoves ==
  ASSUME NEW A, NEW s \in Seq(Messages), NEW t \in Seq(Messages), t # << >>,
         Genuine(s, A), Genuine(t, A)
  PROVE  Genuine(Append(s, Head(t)), A) /\ Genuine(Tail(t), A)
<1>1. /\ Head(t) = t[1] /\ t[1] \in Messages /\ Tail(t) \in Seq(Messages)
      /\ Len(t) \in Nat /\ Len(t) >= 1 /\ Len(Tail(t)) = Len(t) - 1
      /\ \A i \in 1..Len(Tail(t)) : Tail(t)[i] = t[i + 1]
  BY RestIs
<1>2. PICK m \in Messages, T \in Seq(Messages) : m = Head(t) /\ T = Tail(t)
  BY <1>1
<1>3. Genuine(T, A)
  BY <1>1, <1>2 DEF Genuine
<1>4. /\ Append(s, m) \in Seq(Messages) /\ Len(s) \in Nat
      /\ Len(Append(s, m)) = Len(s) + 1 /\ Append(s, m)[Len(s) + 1] = m
      /\ \A i \in 1..Len(s) : Append(s, m)[i] = s[i]
  BY OneMoreIs
<1>5. PICK S \in Seq(Messages) : S = Append(s, m)
  BY <1>4
<1>6. ASSUME NEW i \in 1..Len(S), S[i] \in Events PROVE \E j \in 1..Len(A) : A[j] = S[i]
  <2>1. CASE i \in 1..Len(s)
    BY <1>4, <1>5, <1>6, <2>1 DEF Genuine
  <2>2. CASE i = Len(s) + 1
    <3>1. S[i] = t[1] /\ 1 \in 1..Len(t)
      BY <1>1, <1>2, <1>4, <1>5, <2>2
    <3> QED BY <1>6, <3>1 DEF Genuine
  <2> QED BY <1>4, <1>5, <2>1, <2>2
<1>7. Genuine(S, A)
  BY <1>6 DEF Genuine
<1> QED BY <1>2, <1>3, <1>5, <1>7

LEMMA GenuineNotice ==
  ASSUME NEW A, NEW t \in Seq(Messages), Genuine(t, A)
  PROVE  Genuine(<<Other>> \o t, A)
<1>1. Other \notin Events /\ Other \in Messages
  BY ClientAssumption DEF Messages
<1>2. PICK o \in Seq(Messages) : o = <<Other>> /\ Len(o) = 1 /\ o[1] = Other
  <2>1. <<Other>> \in Seq(Messages) /\ Len(<<Other>>) = 1 /\ <<Other>>[1] = Other
    BY <1>1
  <2> QED BY <2>1
<1>3. /\ o \o t \in Seq(Messages) /\ Len(o) \in Nat /\ Len(t) \in Nat
      /\ Len(o \o t) = Len(o) + Len(t)
      /\ \A i \in 1..Len(o) : (o \o t)[i] = o[i]
      /\ \A i \in 1..Len(t) : (o \o t)[Len(o) + i] = t[i]
  BY JoinedIs
<1>4. PICK w \in Seq(Messages) : w = o \o t
  BY <1>3
<1>5. ASSUME NEW i \in 1..Len(w), w[i] \in Events PROVE \E j \in 1..Len(A) : A[j] = w[i]
  <2>1. i # 1
    BY <1>1, <1>2, <1>3, <1>4, <1>5
  <2>2. i - 1 \in 1..Len(t) /\ w[i] = t[i - 1]
    <3>1. i - 1 \in 1..Len(t) /\ Len(o) + (i - 1) = i
      BY <1>2, <1>3, <1>4, <2>1
    <3> QED BY <1>3, <1>4, <3>1
  <2> QED BY <1>5, <2>2 DEF Genuine
<1>6. Genuine(w, A)
  BY <1>5 DEF Genuine
<1> QED BY <1>2, <1>4, <1>6

(* A REQ with limit 1 brings one event at most, so that when nothing came  *)
(* in between the follows are those of the first message of the answer.    *)
LEMMA FollowsIs ==
  ASSUME NEW r \in Relays, NEW k, NEW s \in Seq(Messages),
         Genuine(s, Reply(r, FollowsReq(k))),
         Len(s) >= 1, s[1] = Reply(r, FollowsReq(k))[1]
  PROVE  Follows(s) = ListOf(s[1])
<1>1. PICK q : q = FollowsReq(k) /\ q.limit = 1
  BY ReqFields
<1>2. PICK A : A = Reply(r, FollowsReq(k)) /\ Answers(A, q)
  <2>1. Answers(Reply(r, q), q)
    BY <1>1, ReplyIs
  <2> QED BY <1>1, <2>1
<1>3. PICK R : R = Readable(s)
  OBVIOUS
<1>4. /\ R \in Seq(Events) /\ Len(R) \in Nat
      /\ \A l \in 1..Len(R) : R[l] \in Good /\ \E i \in 1..Len(s) : R[l] = s[i]
      /\ \A i \in 1..Len(s) : s[i] \in Good => \E l \in 1..Len(R) : R[l] = s[i]
  BY <1>3, ReadableIs
<1>5. Follows(s) = IF R = << >> THEN << >> ELSE PTags[R[1]]
  BY <1>3 DEF Follows
<1>6. ASSUME R # << >> PROVE R[1] = s[1] /\ s[1] \in Good
  <2>1. 1 \in 1..Len(R)
    BY <1>4, <1>6
  <2>2. PICK i \in 1..Len(s) : R[1] = s[i] /\ R[1] \in Good
    BY <1>4, <2>1
  <2>3. R[1] \in Events
    BY <2>2 DEF Good
  <2>4. PICK j \in 1..Len(A) : A[j] = R[1]
    BY <1>2, <2>2, <2>3 DEF Genuine
  <2>5. j = 1
    BY <1>1, <1>2, <2>3, <2>4 DEF Answers
  <2> QED BY <1>2, <2>2, <2>4, <2>5
<1>7. ASSUME R = << >> PROVE s[1] \notin Good
  <2>1. 1 \in 1..Len(s) /\ Len(R) = 0
    BY <1>7
  <2> QED BY <1>4, <2>1
<1> QED BY <1>5, <1>6, <1>7 DEF ListOf

LEMMA ShownMore ==
  ASSUME NEW r \in Seq(Messages), NEW s \in Seq(Messages)
  PROVE  /\ \A e : Shown(e, r) => Shown(e, r \o Readable(s))
         /\ Len(s) >= 1 => Shown(s[1], r \o Readable(s))
<1>1. PICK R : R = Readable(s)
  OBVIOUS
<1>2. /\ R \in Seq(Events)
      /\ \A i \in 1..Len(s) : s[i] \in Good => \E k \in 1..Len(R) : R[k] = s[i]
  BY <1>1, ReadableIs
<1>3. R \in Seq(Messages)
  BY <1>2 DEF Messages
<1>4. /\ r \o R \in Seq(Messages) /\ Len(r) \in Nat /\ Len(R) \in Nat
      /\ Len(r \o R) = Len(r) + Len(R)
      /\ \A i \in 1..Len(r) : (r \o R)[i] = r[i]
      /\ \A i \in 1..Len(R) : (r \o R)[Len(r) + i] = R[i]
  BY <1>3, JoinedIs
<1>5. PICK w : w = r \o R
  OBVIOUS
<1>6. \A i \in 1..Len(r) : i \in 1..Len(w) /\ w[i] = r[i]
  BY <1>4, <1>5
<1>7. \A i \in 1..Len(R) : Len(r) + i \in 1..Len(w) /\ w[Len(r) + i] = R[i]
  BY <1>4, <1>5
<1>8. ASSUME NEW e, Shown(e, r) PROVE Shown(e, w)
  BY <1>6, <1>8 DEF Shown
<1>9. ASSUME Len(s) >= 1 PROVE Shown(s[1], w)
  <2>1. 1 \in 1..Len(s)
    BY <1>9
  <2> QED BY <1>2, <1>7, <2>1 DEF Shown
<1> QED BY <1>1, <1>5, <1>8, <1>9

-----------------------------------------------------------------------------
(* A step of one user leaves what the others fetch alone.                  *)
Same(v) ==
  /\ relay' = relay /\ page'[v] = page[v] /\ job'[v] = job[v] /\ net'[v] = net[v]
  /\ query'[v] = query[v] /\ answer'[v] = answer[v] /\ store'[v] = store[v]
  /\ asked'[v] = asked[v] /\ list'[v] = list[v] /\ todo'[v] = todo[v]
  /\ rows'[v] = rows[v] /\ spoiled'[v] = spoiled[v]

LEMMA SameKeeps ==
  ASSUME NEW v \in Users, UserInv(v), Same(v)
  PROVE  UserInv(v)'
<1>1. ClickInv(v)'
  BY DEF UserInv, Same, ClickInv, Going, OnTable, Current
<1>2. SessionInv(v)'
  BY DEF UserInv, Same, SessionInv, Going
<1>3. CompleteInv(v)'
  BY DEF UserInv, Same, CompleteInv, OnTable, Done
<1> QED BY <1>1, <1>2, <1>3 DEF UserInv

(* Clicks that only change the page or the key.                            *)
LEMMA PageKeeps ==
  ASSUME TypeInv, NEW u \in Users, UserInv(u), NEW k \in Keys,
         OpenHome(u) \/ OpenFeed(u) \/ EditKey(u, k) \/ EndAssign(u) \/ ShowKey(u)
  PROVE  UserInv(u)' /\ \A v \in Users \ {u} : Same(v)
<1>1. TypeOK
  BY DEF TypeInv
<1>2. job[u] \in {"none", "assign", "show"}
  BY DEF OpenHome, OpenFeed, EditKey, EndAssign, ShowKey, Click
<1>3. net[u] = "none"
  BY <1>1, <1>2 DEF UserInv, ClickInv, TypeOK
<1>4. /\ job'[u] \in {"none", "assign", "show"} /\ relay' = relay
      /\ UNCHANGED <<net, query, answer, store, asked, todo, spoiled>>
      /\ \A v \in Users \ {u} : job'[v] = job[v]
  BY <1>1, <1>2 DEF TypeOK, OpenHome, OpenFeed, EditKey, EndAssign, ShowKey, Assign, Click,
                    session, table
<1>5. /\ \/ page'[u] \in {"opening", "home", "blank"}
         \/ page'[u] = page[u] /\ list'[u] = list[u] /\ rows'[u] = rows[u]
      /\ \A v \in Users \ {u} :
           page'[v] = page[v] /\ list'[v] = list[v] /\ rows'[v] = rows[v]
  BY <1>1 DEF TypeOK, OpenHome, OpenFeed, EditKey, EndAssign, ShowKey, table
<1>6. ClickInv(u)'
  BY <1>3, <1>4 DEF ClickInv, Going
<1>7. SessionInv(u)'
  BY <1>4 DEF SessionInv, Going
<1>8. CompleteInv(u)'
  <2>1. CASE page'[u] \in {"opening", "home", "blank"}
    BY <2>1 DEF CompleteInv, OnTable
  <2>2. CASE page'[u] = page[u] /\ list'[u] = list[u] /\ rows'[u] = rows[u]
    <3>1. Done(u)' = Done(u)
      BY <1>2, <1>4, <2>2 DEF Done
    <3>2. OnTable(u)' <=> OnTable(u)
      BY <2>2 DEF OnTable
    <3> QED BY <1>2, <1>4, <2>2, <3>1, <3>2 DEF UserInv, CompleteInv
  <2> QED BY <1>5, <2>1, <2>2
<1>9. \A v \in Users \ {u} : Same(v)
  BY <1>4, <1>5 DEF Same
<1> QED BY <1>6, <1>7, <1>8, <1>9 DEF UserInv

(* A new connection has brought nothing yet.                               *)
LEMMA BeginDoes ==
  ASSUME TypeInv, NEW u \in Users, NEW q, Begin(u, q)
  PROVE  /\ net'[u] = "opening" /\ query'[u] = q /\ answer'[u] = << >> /\ store'[u] = << >>
         /\ \A v \in Users \ {u} : /\ net'[v] = net[v] /\ query'[v] = query[v]
                                   /\ answer'[v] = answer[v] /\ store'[v] = store[v]
  BY DEF TypeInv, TypeOK, Begin

LEMMA NewSession ==
  ASSUME NEW u \in Users, net'[u] = "opening", answer'[u] = << >>, store'[u] = << >>
  PROVE  SessionInv(u)'
<1>1. \A A : Genuine(<< >>, A)
  BY DEF Genuine
<1> QED BY <1>1 DEF SessionInv

LEMMA FetchKeeps ==
  ASSUME TypeInv, NEW u \in Users, UserInv(u), NEW p \in {"feed", "follows"}, Fetch(u, p)
  PROVE  UserInv(u)' /\ \A v \in Users \ {u} : Same(v)
<1>1. TypeOK
  BY DEF TypeInv
<1>2. PICK k : asked' = [asked EXCEPT ![u] = k] /\ Begin(u, FollowsReq(k))
  BY DEF Fetch
<1>3. PICK q : q = FollowsReq(k)
  OBVIOUS
<1>4. Begin(u, q)
  BY <1>2, <1>3
<1>5. /\ net'[u] = "opening" /\ query'[u] = q /\ answer'[u] = << >> /\ store'[u] = << >>
      /\ \A v \in Users \ {u} : /\ net'[v] = net[v] /\ query'[v] = query[v]
                                /\ answer'[v] = answer[v] /\ store'[v] = store[v]
  BY <1>4, BeginDoes
<1>6. /\ asked'[u] = k /\ page'[u] = p /\ job'[u] = "follows" /\ list'[u] = << >>
      /\ rows'[u] = << >> /\ relay' = relay /\ todo' = todo
      /\ \A v \in Users \ {u} :
           /\ asked'[v] = asked[v] /\ page'[v] = page[v] /\ job'[v] = job[v]
           /\ list'[v] = list[v] /\ rows'[v] = rows[v] /\ spoiled'[v] = spoiled[v]
  BY <1>1, <1>2 DEF TypeOK, Fetch, Click
<1>7. ClickInv(u)'
  BY <1>3, <1>5, <1>6 DEF ClickInv, Going, OnTable, Current
<1>8. SessionInv(u)'
  BY <1>5, NewSession
<1>9. CompleteInv(u)'
  BY <1>6 DEF CompleteInv
<1>10. \A v \in Users \ {u} : Same(v)
  BY <1>5, <1>6 DEF Same
<1> QED BY <1>7, <1>8, <1>9, <1>10 DEF UserInv

LEMMA SendKeeps ==
  ASSUME TypeInv, NEW u \in Users, UserInv(u), NEW q, Send(u, q)
  PROVE  UserInv(u)' /\ \A v \in Users \ {u} : Same(v)
<1>1. TypeOK
  BY DEF TypeInv
<1>2. Begin(u, q)
  BY DEF Send
<1>3. \A v \in Users \ {u} : /\ net'[v] = net[v] /\ query'[v] = query[v]
                             /\ answer'[v] = answer[v] /\ store'[v] = store[v]
  BY <1>2, BeginDoes
<1>4. /\ page'[u] = "home" /\ job'[u] = "send" /\ relay' = relay
      /\ UNCHANGED <<asked, list, todo, rows>>
      /\ \A v \in Users \ {u} :
           page'[v] = page[v] /\ job'[v] = job[v] /\ spoiled'[v] = spoiled[v]
  BY <1>1 DEF TypeOK, Send, Click, table
<1>5. UserInv(u)'
  BY <1>4 DEF UserInv, ClickInv, SessionInv, CompleteInv, Going, OnTable
<1> QED BY <1>3, <1>4, <1>5 DEF Same

(* The messages of a connection, for a fetch: what each step does.         *)
LEMMA OpenDoes ==
  ASSUME TypeInv, NEW u \in Users, Open(u)
  PROVE  /\ net[u] = "opening" /\ net'[u] = "open"
         /\ answer'[u] = Reply(relay, query[u])
         /\ Going(u) => rows'[u] = rows[u]
         /\ \A v \in Users \ {u} :
              net'[v] = net[v] /\ answer'[v] = answer[v] /\ rows'[v] = rows[v]
         /\ UNCHANGED <<relay, page, job, query, store, asked, list, todo, spoiled>>
<1>1. TypeOK
  BY DEF TypeInv
<1>2. PICK q : q = query[u]
  OBVIOUS
<1>3. Answer(q) = Reply(relay, q)
  BY AnswerIs
<1>4. answer' = [answer EXCEPT ![u] = Answer(query[u])]
  BY DEF Open
<1>5. answer'[u] = Reply(relay, query[u]) /\ \A v \in Users \ {u} : answer'[v] = answer[v]
  BY <1>1, <1>2, <1>3, <1>4 DEF TypeOK
<1>6. /\ Going(u) => rows'[u] = rows[u]
      /\ \A v \in Users \ {u} : net'[v] = net[v] /\ rows'[v] = rows[v]
      /\ net'[u] = "open" /\ net[u] = "opening"
  BY <1>1 DEF TypeOK, Open, Going
<1> QED BY <1>5, <1>6 DEF Open, Quiet

LEMMA DeliverDoes ==
  ASSUME TypeInv, NEW u \in Users, Deliver(u)
  PROVE  /\ net[u] \in {"open", "closing"} /\ answer[u] # << >>
         /\ store'[u] = Append(store[u], Head(answer[u])) /\ answer'[u] = Tail(answer[u])
         /\ Going(u) => net'[u] = "closing" /\ rows'[u] = rows[u]
         /\ net'[u] # "none"
         /\ \A v \in Users \ {u} : /\ net'[v] = net[v] /\ answer'[v] = answer[v]
                                   /\ store'[v] = store[v] /\ rows'[v] = rows[v]
         /\ UNCHANGED <<relay, page, job, query, asked, list, todo, spoiled>>
<1>1. TypeOK
  BY DEF TypeInv
<1>2. /\ store' = [store EXCEPT ![u] = Append(store[u], Head(answer[u]))]
      /\ answer' = [answer EXCEPT ![u] = Tail(answer[u])]
      /\ net' = [net EXCEPT ![u] = IF Closes(u, Head(answer[u])) THEN "closing" ELSE net[u]]
      /\ rows' = [rows EXCEPT ![u] = IF job[u] = "send" /\ u \in Web
                                     THEN Append(rows[u], Head(answer[u])) ELSE rows[u]]
  BY <1>1 DEF TypeOK, Deliver
<1>3. Going(u) => Closes(u, Head(answer[u])) /\ job[u] # "send"
  BY DEF Going, Closes
<1>4. /\ net[u] \in {"open", "closing"} /\ answer[u] # << >>
      /\ UNCHANGED <<relay, page, job, query, asked, list, todo, spoiled>>
  BY DEF Deliver, Quiet
<1> HIDE DEF Closes, Going
<1> QED BY <1>1, <1>2, <1>3, <1>4 DEF TypeOK

LEMMA NoticeDoes ==
  ASSUME TypeInv, NEW u \in Users, Notice(u)
  PROVE  /\ net[u] = "open" /\ answer'[u] = <<Other>> \o answer[u] /\ spoiled'[u] = TRUE
         /\ \A v \in Users \ {u} : answer'[v] = answer[v] /\ spoiled'[v] = spoiled[v]
         /\ UNCHANGED <<relay, page, job, net, query, store, asked, list, todo, rows>>
<1>1. TypeOK
  BY DEF TypeInv
<1>2. answer' = [answer EXCEPT ![u] = <<Other>> \o answer[u]]
  BY <1>1 DEF TypeOK, Notice
<1>3. /\ net[u] = "open" /\ spoiled' = [spoiled EXCEPT ![u] = TRUE]
      /\ UNCHANGED <<relay, page, job, net, query, store, asked, list, todo, rows>>
  BY DEF Notice, Quiet, table
<1> QED BY <1>1, <1>2, <1>3 DEF TypeOK

LEMMA OpenKeeps ==
  ASSUME TypeInv, NEW u \in Users, UserInv(u), Open(u)
  PROVE  UserInv(u)' /\ \A v \in Users \ {u} : Same(v)
<1>1. /\ net[u] = "opening" /\ net'[u] = "open"
      /\ answer'[u] = Reply(relay, query[u])
      /\ Going(u) => rows'[u] = rows[u]
      /\ \A v \in Users \ {u} :
           net'[v] = net[v] /\ answer'[v] = answer[v] /\ rows'[v] = rows[v]
      /\ UNCHANGED <<relay, page, job, query, store, asked, list, todo, spoiled>>
  BY OpenDoes
<1>2. job[u] \in {"follows", "authors", "send"}
  BY <1>1 DEF UserInv, ClickInv
<1>3. ASSUME Going(u) PROVE UserInv(u)'
  <2>1. ClickInv(u)'
    BY <1>1, <1>2, <1>3 DEF UserInv, ClickInv, Going, OnTable, Current
  <2>2. \A A : Genuine(A, A)
    BY DEF Genuine
  <2>3. SessionInv(u)'
    BY <1>1, <1>3, <2>2 DEF UserInv, SessionInv, Going
  <2>4. CompleteInv(u)'
    BY <1>1, <1>3 DEF UserInv, CompleteInv, OnTable, Done
  <2> QED BY <2>1, <2>3, <2>4 DEF UserInv
<1>4. ASSUME job[u] = "send" PROVE UserInv(u)'
  BY <1>1, <1>4 DEF UserInv, ClickInv, SessionInv, CompleteInv, Going, OnTable
<1>5. \A v \in Users \ {u} : Same(v)
  BY <1>1 DEF Same
<1> QED BY <1>2, <1>3, <1>4, <1>5 DEF Going

LEMMA DeliverKeeps ==
  ASSUME TypeInv, NEW u \in Users, UserInv(u), Deliver(u)
  PROVE  UserInv(u)' /\ \A v \in Users \ {u} : Same(v)
<1>1. /\ net[u] \in {"open", "closing"} /\ answer[u] # << >>
      /\ store'[u] = Append(store[u], Head(answer[u])) /\ answer'[u] = Tail(answer[u])
      /\ Going(u) => net'[u] = "closing" /\ rows'[u] = rows[u]
      /\ net'[u] # "none"
      /\ \A v \in Users \ {u} : /\ net'[v] = net[v] /\ answer'[v] = answer[v]
                                /\ store'[v] = store[v] /\ rows'[v] = rows[v]
      /\ UNCHANGED <<relay, page, job, query, asked, list, todo, spoiled>>
  BY DeliverDoes
<1>2. job[u] \in {"follows", "authors", "send"}
  BY <1>1 DEF UserInv, ClickInv
<1>3. ASSUME Going(u) PROVE UserInv(u)'
  <2>1. ClickInv(u)'
    BY <1>1, <1>2, <1>3 DEF UserInv, ClickInv, Going, OnTable, Current
  <2>a. PICK A : A = Reply(relay, query[u])
    OBVIOUS
  <2>b. PICK s \in Seq(Messages), t \in Seq(Messages) : s = store[u] /\ t = answer[u]
    BY DEF TypeInv, TypeOK
  <2>2. s = store[u] /\ t = answer[u] /\ A = Reply(relay, query[u])
    BY <2>a, <2>b
  <2>3. Genuine(s, A) /\ Genuine(t, A) /\ t # << >>
    BY <1>1, <1>3, <2>2 DEF UserInv, SessionInv
  <2>4. Genuine(Append(s, Head(t)), A) /\ Genuine(Tail(t), A)
    BY <2>3, GenuineMoves
  <2>5. Genuine(store'[u], A) /\ Genuine(answer'[u], A)
    BY <1>1, <2>2, <2>4
  <2>6. Head(t) = t[1] /\ t[1] \in Messages
    BY <2>3, RestIs
  <2>7. PICK m \in Messages : m = Head(t) /\ m = t[1]
    BY <2>6
  <2>8. /\ Len(s) \in Nat /\ Len(Append(s, m)) = Len(s) + 1
        /\ Append(s, m)[Len(s) + 1] = m
        /\ \A i \in 1..Len(s) : Append(s, m)[i] = s[i]
    BY OneMoreIs
  <2>9. ASSUME ~spoiled[u] PROVE Len(store'[u]) >= 1 /\ store'[u][1] = A[1]
    <3>1. store'[u] = Append(s, m)
      BY <1>1, <2>2, <2>7
    <3>2. CASE net[u] = "open"
      <4>1. t = A /\ s = << >>
        BY <1>3, <2>2, <2>9, <3>2 DEF UserInv, SessionInv
      <4>2. Len(s) = 0
        BY <4>1
      <4> QED BY <2>7, <2>8, <3>1, <4>1, <4>2
    <3>3. CASE net[u] = "closing"
      <4>1. Len(s) >= 1 /\ s[1] = A[1]
        BY <1>3, <2>2, <2>9, <3>3 DEF UserInv, SessionInv
      <4>2. 1 \in 1..Len(s)
        BY <2>8, <4>1
      <4> QED BY <2>8, <3>1, <4>1, <4>2
    <3> QED BY <1>1, <3>2, <3>3
  <2>10. SessionInv(u)'
    BY <1>1, <1>3, <2>2, <2>5, <2>9 DEF SessionInv
  <2>11. CompleteInv(u)'
    BY <1>1, <1>3 DEF UserInv, CompleteInv, OnTable, Done
  <2> QED BY <2>1, <2>10, <2>11 DEF UserInv
<1>4. ASSUME job[u] = "send" PROVE UserInv(u)'
  BY <1>1, <1>4 DEF UserInv, ClickInv, SessionInv, CompleteInv, Going, OnTable
<1>5. \A v \in Users \ {u} : Same(v)
  BY <1>1 DEF Same
<1> QED BY <1>2, <1>3, <1>4, <1>5 DEF Going

LEMMA NoticeKeeps ==
  ASSUME TypeInv, NEW u \in Users, UserInv(u), Notice(u)
  PROVE  UserInv(u)' /\ \A v \in Users \ {u} : Same(v)
<1>1. /\ net[u] = "open" /\ answer'[u] = <<Other>> \o answer[u] /\ spoiled'[u] = TRUE
      /\ \A v \in Users \ {u} : answer'[v] = answer[v] /\ spoiled'[v] = spoiled[v]
      /\ UNCHANGED <<relay, page, job, net, query, store, asked, list, todo, rows>>
  BY NoticeDoes
<1>2. ClickInv(u)'
  BY <1>1 DEF UserInv, ClickInv, Going, OnTable, Current
<1>3. SessionInv(u)'
  <2>1. CASE Going(u)
    <3>a. PICK A : A = Reply(relay, query[u])
      OBVIOUS
    <3>b. PICK t \in Seq(Messages) : t = answer[u]
      BY DEF TypeInv, TypeOK
    <3>1. t = answer[u] /\ A = Reply(relay, query[u])
      BY <3>a, <3>b
    <3>2. Genuine(t, A)
      BY <2>1, <3>1 DEF UserInv, SessionInv
    <3>3. Genuine(<<Other>> \o t, A)
      BY <3>2, GenuineNotice
    <3>4. Genuine(answer'[u], A)
      BY <1>1, <3>1, <3>3
    <3> QED BY <1>1, <2>1, <3>1, <3>4 DEF UserInv, SessionInv, Going
  <2>2. CASE ~Going(u)
    BY <1>1, <2>2 DEF SessionInv, Going
  <2> QED BY <2>1, <2>2
<1>4. CompleteInv(u)'
  BY <1>1 DEF CompleteInv
<1>5. \A v \in Users \ {u} : Same(v)
  BY <1>1 DEF Same
<1> QED BY <1>2, <1>3, <1>4, <1>5 DEF UserInv

(* The end of a connection.                                                *)
LEMMA ContinueDoes ==
  ASSUME TypeInv, NEW u \in Users, NEW ks, Continue(u, ks)
  PROVE  /\ todo'[u] = ks /\ job'[u] = (IF ks = << >> THEN "none" ELSE "authors")
         /\ answer'[u] = << >> /\ store'[u] = << >>
         /\ ks = << >> => net'[u] = "none"
         /\ ks # << >> => net'[u] = "opening" /\ query'[u] = AuthorReq(page[u], ks[1])
         /\ \A v \in Users \ {u} :
              /\ todo'[v] = todo[v] /\ job'[v] = job[v] /\ net'[v] = net[v]
              /\ query'[v] = query[v] /\ answer'[v] = answer[v] /\ store'[v] = store[v]
<1>1. TypeOK
  BY DEF TypeInv
<1>2. todo'[u] = ks /\ \A v \in Users \ {u} : todo'[v] = todo[v]
  BY <1>1 DEF TypeOK, Continue
<1>3. CASE ks = << >> /\ job' = [job EXCEPT ![u] = "none"] /\ NoConnection(u)
  BY <1>1, <1>2, <1>3 DEF TypeOK, NoConnection
<1>4. CASE /\ ks # << >> /\ job' = [job EXCEPT ![u] = "authors"]
           /\ Begin(u, AuthorReq(page[u], ks[1]))
  <2>1. PICK q : q = AuthorReq(page[u], ks[1])
    OBVIOUS
  <2>2. Begin(u, q)
    BY <1>4, <2>1
  <2>3. /\ net'[u] = "opening" /\ query'[u] = q /\ answer'[u] = << >> /\ store'[u] = << >>
        /\ \A v \in Users \ {u} : /\ net'[v] = net[v] /\ query'[v] = query[v]
                                  /\ answer'[v] = answer[v] /\ store'[v] = store[v]
    BY <2>2, BeginDoes
  <2>4. job'[u] = "authors" /\ \A v \in Users \ {u} : job'[v] = job[v]
    BY <1>1, <1>4 DEF TypeOK
  <2> QED BY <1>2, <1>4, <2>1, <2>3, <2>4
<1> QED BY <1>3, <1>4 DEF Continue

LEMMA SendEndDoes ==
  ASSUME TypeInv, NEW u \in Users, EndSession(u), Quiet(u), job[u] = "send",
         \A v \in Users \ {u} : spoiled'[v] = spoiled[v]
  PROVE  /\ job'[u] = "none" /\ net'[u] = "none" /\ page'[u] = page[u]
         /\ \A v \in Users \ {u} : Same(v)
<1>1. TypeOK
  BY DEF TypeInv
<1>2. /\ job' = [job EXCEPT ![u] = "none"] /\ NoConnection(u)
      /\ rows' = [rows EXCEPT ![u] = IF u \in Web THEN rows[u] ELSE store[u]]
      /\ UNCHANGED <<asked, list, todo>>
  BY <1>1 DEF EndSession, TypeOK
<1>3. /\ job'[u] = "none" /\ net'[u] = "none"
      /\ \A v \in Users \ {u} : /\ job'[v] = job[v] /\ net'[v] = net[v] /\ rows'[v] = rows[v]
                                /\ query'[v] = query[v] /\ answer'[v] = answer[v]
                                /\ store'[v] = store[v]
  BY <1>1, <1>2 DEF TypeOK, NoConnection
<1> QED BY <1>2, <1>3 DEF Same, Quiet

LEMMA FollowsEndDoes ==
  ASSUME TypeInv, NEW u \in Users, EndSession(u), Quiet(u), job[u] = "follows",
         \A v \in Users \ {u} : spoiled'[v] = spoiled[v],
         NEW ks, ks = Follows(store[u])
  PROVE  /\ list'[u] = ks /\ Continue(u, ks)
         /\ asked' = asked /\ rows' = rows /\ relay' = relay /\ page' = page
         /\ \A v \in Users \ {u} : Same(v)
<1>1. TypeOK
  BY DEF TypeInv
<1>2. /\ list' = [list EXCEPT ![u] = ks] /\ Continue(u, ks)
      /\ UNCHANGED <<asked, rows>>
  BY DEF EndSession
<1>3. list'[u] = ks /\ \A v \in Users \ {u} : list'[v] = list[v]
  BY <1>1, <1>2 DEF TypeOK
<1>4. \A v \in Users \ {u} :
        /\ todo'[v] = todo[v] /\ job'[v] = job[v] /\ net'[v] = net[v]
        /\ query'[v] = query[v] /\ answer'[v] = answer[v] /\ store'[v] = store[v]
  BY <1>2, ContinueDoes
<1> QED BY <1>2, <1>3, <1>4 DEF Same, Quiet

LEMMA AuthorsEndDoes ==
  ASSUME TypeInv, NEW u \in Users, EndSession(u), Quiet(u), job[u] = "authors",
         \A v \in Users \ {u} : spoiled'[v] = spoiled[v],
         NEW ks, ks = Tail(todo[u])
  PROVE  /\ rows'[u] = rows[u] \o Readable(store[u]) /\ Continue(u, ks)
         /\ asked' = asked /\ list' = list /\ relay' = relay /\ page' = page
         /\ \A v \in Users \ {u} : Same(v)
<1>1. TypeOK
  BY DEF TypeInv
<1>a. PICK R : R = Readable(store[u])
  OBVIOUS
<1>2. /\ rows' = [rows EXCEPT ![u] = rows[u] \o R] /\ Continue(u, ks)
      /\ UNCHANGED <<asked, list>>
  BY <1>1, <1>a DEF EndSession, TypeOK
<1>3. rows'[u] = rows[u] \o R /\ \A v \in Users \ {u} : rows'[v] = rows[v]
  BY <1>1, <1>2 DEF TypeOK
<1>4. \A v \in Users \ {u} :
        /\ todo'[v] = todo[v] /\ job'[v] = job[v] /\ net'[v] = net[v]
        /\ query'[v] = query[v] /\ answer'[v] = answer[v] /\ store'[v] = store[v]
  BY <1>2, ContinueDoes
<1> QED BY <1>a, <1>2, <1>3, <1>4 DEF Same, Quiet

(* Where the click is afterwards.                                          *)
LEMMA ContinueClick ==
  ASSUME TypeInv, TypeInv', NEW u \in Users, NEW ks \in Seq(Keys), Continue(u, ks),
         OnTable(u), page' = page,
         ks # << >> => /\ Len(ks) <= Len(list'[u])
                       /\ \A i \in 1..Len(ks) : ks[i] = list'[u][(Len(list'[u]) - Len(ks)) + i]
  PROVE  ClickInv(u)' /\ SessionInv(u)'
<1>1. /\ todo'[u] = ks /\ job'[u] = (IF ks = << >> THEN "none" ELSE "authors")
      /\ answer'[u] = << >> /\ store'[u] = << >>
      /\ ks = << >> => net'[u] = "none"
      /\ ks # << >> => net'[u] = "opening" /\ query'[u] = AuthorReq(page[u], ks[1])
  BY ContinueDoes
<1>2. CASE ks = << >>
  BY <1>1, <1>2 DEF ClickInv, SessionInv, Going
<1>3. CASE ks # << >>
  <2>1. Len(ks) >= 1
    BY <1>3
  <2>2. OnTable(u)' /\ (job'[u] = "authors")
    BY <1>1, <1>3 DEF OnTable
  <2>3. query'[u] = Current(u)'
    BY <1>1, <1>3, <2>2 DEF Current
  <2>4. ClickInv(u)'
    BY <1>1, <1>3, <2>1, <2>2, <2>3 DEF ClickInv, Going
  <2> QED BY <1>1, <1>3, <2>4, NewSession
<1> QED BY <1>2, <1>3

LEMMA EndKeeps ==
  ASSUME TypeInv, TypeInv', NEW u \in Users, UserInv(u), EndSession(u), Quiet(u),
         \A v \in Users \ {u} : spoiled'[v] = spoiled[v],
         spoiled'[u] \/ (net[u] = "closing" /\ ~spoiled[u])
  PROVE  UserInv(u)' /\ \A v \in Users \ {u} : Same(v)
<1>1. TypeOK /\ relay \in Relays
  BY DEF TypeInv, TypeOK
<1>2. CASE job[u] = "send"
  <2>1. /\ job'[u] = "none" /\ net'[u] = "none" /\ page'[u] = page[u]
        /\ \A v \in Users \ {u} : Same(v)
    BY <1>2, SendEndDoes
  <2>2. page[u] = "home"
    BY <1>2 DEF UserInv, ClickInv
  <2> QED BY <2>1, <2>2 DEF UserInv, ClickInv, SessionInv, CompleteInv, Going, OnTable
<1>3. CASE job[u] = "follows"
  <2>1. PICK s \in Seq(Messages), r \in Relays, k \in Keys \cup {NoKey, Torn} :
          s = store[u] /\ k = asked[u] /\ r = relay
    BY <1>1 DEF TypeOK
  <2>2. PICK ks \in Seq(Keys) : ks = Follows(s)
    BY FollowsType
  <2>3. ks = Follows(store[u])
    BY <2>1, <2>2
  <2>4. /\ list'[u] = ks /\ Continue(u, ks)
        /\ asked' = asked /\ rows' = rows /\ relay' = relay /\ page' = page
        /\ \A v \in Users \ {u} : Same(v)
    BY <1>3, <2>3, FollowsEndDoes
  <2>5. OnTable(u) /\ query[u] = FollowsReq(k)
    BY <1>3, <2>1 DEF UserInv, ClickInv, Going, Current
  <2>6. Genuine(s, Reply(r, FollowsReq(k)))
    BY <1>3, <2>1, <2>5 DEF UserInv, SessionInv, Going
  <2>7. ASSUME ~spoiled'[u] PROVE ks = ListOf(Reply(r, FollowsReq(k))[1])
    <3>1. Len(s) >= 1 /\ s[1] = Reply(r, FollowsReq(k))[1]
      BY <1>3, <2>1, <2>5, <2>7 DEF UserInv, SessionInv, Going
    <3>2. Follows(s) = ListOf(s[1])
      BY <2>6, <3>1, FollowsIs
    <3> QED BY <2>2, <3>1, <3>2
  <2>8. ClickInv(u)' /\ SessionInv(u)'
    <3>1. /\ Len(ks) <= Len(list'[u])
          /\ \A i \in 1..Len(ks) : ks[i] = list'[u][(Len(list'[u]) - Len(ks)) + i]
      BY <2>4
    <3> QED BY <2>4, <2>5, <3>1, ContinueClick
  <2>9. CompleteInv(u)'
    <3>1. todo'[u] = ks /\ job'[u] = (IF ks = << >> THEN "none" ELSE "authors")
      BY <2>4, ContinueDoes
    <3>2. Done(u)' = 0
      BY <2>4, <3>1 DEF Done
    <3>3. ASSUME ~spoiled'[u]
          PROVE  list'[u] = ListOf(Reply(relay', FollowsReq(asked'[u]))[1])
      BY <2>1, <2>4, <2>7, <3>3
    <3> QED BY <3>2, <3>3 DEF CompleteInv
  <2> QED BY <2>4, <2>8, <2>9 DEF UserInv
<1>4. CASE job[u] = "authors"
  <2>a. PICK p : p = page[u]
    OBVIOUS
  <2>b. PICK s \in Seq(Messages), t \in Seq(Keys), l \in Seq(Keys), w \in Seq(Messages) :
          s = store[u] /\ t = todo[u] /\ l = list[u] /\ w = rows[u]
    BY <1>1 DEF TypeOK
  <2>1. s = store[u] /\ t = todo[u] /\ l = list[u] /\ w = rows[u] /\ p = page[u]
    BY <2>a, <2>b
  <2>2. t # << >>
    BY <1>4, <2>1 DEF TypeInv, Working
  <2>3. /\ t[1] \in Keys /\ Tail(t) \in Seq(Keys)
        /\ Len(t) \in Nat /\ Len(t) >= 1 /\ Len(Tail(t)) = Len(t) - 1
        /\ \A i \in 1..Len(Tail(t)) : Tail(t)[i] = t[i + 1]
    BY <2>2, RestIs
  <2>4. PICK ks \in Seq(Keys) : ks = Tail(t)
    BY <2>3
  <2>5. /\ rows'[u] = w \o Readable(s) /\ Continue(u, ks)
        /\ asked' = asked /\ list' = list /\ relay' = relay /\ page' = page
        /\ \A v \in Users \ {u} : Same(v)
    <3>1. ks = Tail(todo[u])
      BY <2>1, <2>4
    <3>2. /\ rows'[u] = rows[u] \o Readable(store[u]) /\ Continue(u, ks)
          /\ asked' = asked /\ list' = list /\ relay' = relay /\ page' = page
          /\ \A v \in Users \ {u} : Same(v)
      BY <1>4, <3>1, AuthorsEndDoes
    <3> HIDE DEF Readable
    <3> QED BY <2>1, <3>2
  <2>6. /\ OnTable(u) /\ query[u] = AuthorReq(p, t[1])
        /\ Len(t) <= Len(l) /\ Len(l) \in Nat
        /\ \A i \in 1..Len(t) : t[i] = l[(Len(l) - Len(t)) + i]
    <3>1. ClickInv(u) /\ Going(u)
      BY <1>4 DEF UserInv, Going
    <3>2. OnTable(u) /\ query[u] = Current(u)
      BY <3>1 DEF ClickInv
    <3>3. Current(u) = AuthorReq(p, t[1])
      BY <1>4, <2>1 DEF Current
    <3>4. Len(l) \in Nat
      OBVIOUS
    <3>5. Len(t) <= Len(l) /\ \A i \in 1..Len(t) : t[i] = l[(Len(l) - Len(t)) + i]
      BY <1>4, <2>1, <3>1 DEF ClickInv
    <3> QED BY <3>2, <3>3, <3>4, <3>5
  <2>7. ClickInv(u)' /\ SessionInv(u)'
    <3>1. Len(ks) = Len(t) - 1 /\ Len(ks) <= Len(l)
      BY <2>3, <2>4, <2>6
    <3>2. ASSUME NEW i \in 1..Len(ks) PROVE ks[i] = l[(Len(l) - Len(ks)) + i]
      <4>1. i + 1 \in 1..Len(t) /\ (Len(l) - Len(t)) + (i + 1) = (Len(l) - Len(ks)) + i
        BY <2>3, <2>6, <3>1
      <4>2. ks[i] = t[i + 1]
        BY <2>3, <2>4
      <4> QED BY <2>6, <4>1, <4>2
    <3>3. list'[u] = l
      BY <2>1, <2>5
    <3> QED BY <2>5, <2>6, <3>1, <3>2, <3>3, ContinueClick
  <2>8. CompleteInv(u)'
    <3> SUFFICES ASSUME OnTable(u)', ~spoiled'[u]
                 PROVE  /\ list'[u] = ListOf(Reply(relay', FollowsReq(asked'[u]))[1])
                        /\ \A i \in 1..Done(u)' :
                             Shown(First(relay', page'[u], list'[u][i]), rows'[u])
      BY DEF CompleteInv
    <3>1. net[u] = "closing" /\ ~spoiled[u]
      OBVIOUS
    <3>2. /\ l = ListOf(Reply(relay, FollowsReq(asked[u]))[1])
          /\ \A i \in 1..Done(u) : Shown(First(relay, p, l[i]), w)
      BY <1>4, <2>1, <2>5, <2>6, <3>1 DEF UserInv, CompleteInv
    <3>3. Len(s) >= 1 /\ s[1] = First(relay, p, t[1])
      BY <1>4, <2>1, <2>6, <3>1 DEF UserInv, SessionInv, Going, First
    <3>4. Done(u) = Len(l) - Len(t) /\ Done(u)' = Done(u) + 1 /\ Done(u) \in Nat
      <4>1. todo'[u] = ks /\ job'[u] = (IF ks = << >> THEN "none" ELSE "authors")
        BY <2>5, ContinueDoes
      <4>2. Done(u) = Len(l) - Len(t)
        BY <1>4, <2>1 DEF Done
      <4>3. ks = << >> <=> Len(ks) = 0
        OBVIOUS
      <4>4. Done(u)' = Len(l) - Len(ks)
        BY <2>1, <2>5, <4>1, <4>3 DEF Done
      <4> QED BY <2>3, <2>4, <2>6, <4>2, <4>4
    <3>5. PICK d \in Nat : d = Done(u)
      BY <3>4
    <3>6. l[d + 1] = t[1]
      <4>1. 1 \in 1..Len(t) /\ (Len(l) - Len(t)) + 1 = d + 1
        BY <2>3, <2>6, <3>4, <3>5
      <4> QED BY <2>6, <4>1
    <3>7. /\ \A e : Shown(e, w) => Shown(e, w \o Readable(s))
          /\ Shown(s[1], w \o Readable(s))
      BY <3>3, ShownMore
    <3>8. PICK W : W = w \o Readable(s)
      OBVIOUS
    <3>9. ASSUME NEW i \in 1..(d + 1) PROVE Shown(First(relay, p, l[i]), W)
      <4>1. CASE i \in 1..d
        BY <3>2, <3>5, <3>7, <3>8, <4>1
      <4>2. CASE i = d + 1
        <5>1. First(relay, p, l[i]) = s[1]
          BY <3>3, <3>6, <4>2
        <5> QED BY <3>7, <3>8, <5>1
      <4> QED BY <4>1, <4>2
    <3>10. \A i \in 1..Done(u)' : Shown(First(relay', page'[u], list'[u][i]), rows'[u])
      BY <2>1, <2>5, <3>4, <3>5, <3>8, <3>9
    <3> QED BY <2>1, <2>5, <3>2, <3>10
  <2> QED BY <2>5, <2>7, <2>8 DEF UserInv
<1> QED BY <1>2, <1>3, <1>4 DEF EndSession

-----------------------------------------------------------------------------
LEMMA FetchStep ==
  ASSUME TypeInv, TypeInv', FetchInv, [Next]_vars
  PROVE  FetchInv'
<1>1. CASE UNCHANGED vars
  <2>1. \A v \in Users : Same(v)
    BY <1>1 DEF Same, vars
  <2> QED BY <2>1, SameKeeps DEF FetchInv
<1>2. ASSUME NEW u \in Users, UserInv(u)', \A v \in Users \ {u} : Same(v)
      PROVE  FetchInv'
  BY <1>2, SameKeeps DEF FetchInv
<1>3. ASSUME NEW u \in Users, Closed(u) \/ Lost(u)
      PROVE  UserInv(u)' /\ \A v \in Users \ {u} : Same(v)
  <2>1. EndSession(u) /\ Quiet(u) /\ UserInv(u)
    BY <1>3 DEF Closed, Lost, FetchInv
  <2>2. spoiled \in [Users -> BOOLEAN]
    BY DEF TypeInv, TypeOK
  <2>3. /\ \A v \in Users \ {u} : spoiled'[v] = spoiled[v]
        /\ spoiled'[u] \/ (net[u] = "closing" /\ ~spoiled[u])
    <3>1. CASE Closed(u)
      BY <3>1 DEF Closed
    <3>2. CASE Lost(u)
      BY <2>2, <3>2 DEF Lost
    <3> QED BY <1>3, <3>1, <3>2
  <2> QED BY <2>1, <2>3, EndKeeps
<1>4. ASSUME Next PROVE FetchInv'
  <2>1. PICK u \in Users :
          \/ OpenHome(u) \/ OpenFeed(u)
          \/ \E k \in Keys : EditKey(u, k)
          \/ \E p \in Fetched : Fetch(u, p)
          \/ \E q \in Queries(u) : Send(u, q)
          \/ Progress(u)
          \/ (Lost(u) \/ Notice(u)) /\ faults < MaxFaults /\ faults' = faults + 1
    BY <1>4 DEF Next
  <2>2. DefKey \in Keys /\ UserInv(u)
    BY ClientAssumption DEF FetchInv
  <2>3. UserInv(u)' /\ \A v \in Users \ {u} : Same(v)
    BY <1>3, <2>1, <2>2, PageKeeps, FetchKeeps, SendKeeps, OpenKeeps, DeliverKeeps,
       NoticeKeeps DEF Progress, Fetched
  <2> QED BY <1>2, <2>3
<1> QED BY <1>1, <1>4

LEMMA FetchInit ==
  ASSUME Init
  PROVE  FetchInv
<1> SUFFICES ASSUME NEW u \in Users PROVE UserInv(u)
  BY DEF FetchInv
<1>1. job[u] = "none" /\ net[u] = "none" /\ page[u] \in {"none", "home"}
  BY DEF Init
<1> QED BY <1>1 DEF UserInv, ClickInv, SessionInv, CompleteInv, Going, OnTable

(* The first message of an answer is the event the property speaks of.     *)
LEMMA Nip01First ==
  ASSUME NEW q, q.limit \in Nat, q.limit >= 1, NEW e \in Events
  PROVE  Nip01Answer(q)[1] = e
           <=> \E i \in Found(q) : Stored[i] = e /\ \A j \in Found(q) : j <= i
<1>1. DOMAIN Stored = 1..Len(Stored) /\ Len(Stored) \in Nat /\ Other \notin Events
  BY ClientAssumption
<1>2. PICK z \in Nat : z = Len(Stored)
  BY <1>1
<1>3. PICK F \in SUBSET (1..z) : F = Found(q)
  BY <1>1, <1>2 DEF Found
<1>4. PICK all \in Nat : all = Cardinality(F)
  BY Places
<1>5. PICK n \in Nat : n = (IF all < q.limit THEN all ELSE q.limit)
  OBVIOUS
<1>6. PICK B : B = [k \in 1..n |-> Stored[Place(F, all - k + 1)]]
  OBVIOUS
<1>7. Nip01Answer(q) = Append(B, Other)
  BY <1>3, <1>4, <1>5, <1>6 DEF Nip01Answer
<1>8. PICK S : B \in Seq(S) /\ Len(B) = n
  <2>1. PICK f : f = [k \in 1..n |-> Place(F, all - k + 1)]
    OBVIOUS
  <2>2. PICK T : T = {Stored[f[k]] : k \in 1..n}
    OBVIOUS
  <2>3. B = [k \in 1..n |-> Stored[f[k]]]
    BY <1>6, <2>1
  <2>4. \A k \in 1..n : Stored[f[k]] \in T
    BY <2>2
  <2>5. B \in Seq(T) /\ Len(B) = n
    BY <2>3, <2>4
  <2> QED BY <2>5
<1>9. CASE F = {}
  <2>1. n = 0
    BY <1>4, <1>5, <1>9, FS_EmptySet
  <2>2. B = << >>
    BY <1>8, <2>1
  <2>3. Nip01Answer(q)[1] = Other
    BY <1>7, <2>2
  <2> QED BY <1>1, <1>3, <1>9, <2>3
<1>10. CASE F # {}
  <2>1. all >= 1 /\ Place(F, all) \in F /\ \A j \in F : j <= Place(F, all)
    BY <1>4, <1>10, EndPlaces
  <2>2. PICK m \in F : m = Place(F, all)
    BY <2>1
  <2>3. n >= 1 /\ 1 \in 1..n /\ all - 1 + 1 = all
    BY <1>5, <2>1
  <2>4. B[1] = Stored[m]
    BY <1>6, <2>2, <2>3
  <2>5. Nip01Answer(q)[1] = Stored[m]
    <3>1. Append(B, Other)[1] = B[1]
      <4> HIDE DEF Place
      <4> QED BY <1>8, <2>3
    <3> QED BY <1>7, <2>4, <3>1
  <2>6. \A i \in F : (\A j \in F : j <= i) <=> i = m
    BY <2>1, <2>2
  <2> QED BY <1>3, <2>5, <2>6
<1> QED BY <1>9, <1>10

LEMMA WssFirst ==
  ASSUME NEW q, NEW e \in Events
  PROVE  WssAnswer(q)[1] = e
           <=> \E i \in DOMAIN Stored :
                 /\ Stored[i] = e /\ Author[e] = q.author
                 /\ \A j \in 1..(i-1) : Author[Stored[j]] # q.author
<1> DEFINE found == {i \in DOMAIN Stored : Author[Stored[i]] = q.author}
<1>1. DOMAIN Stored = 1..Len(Stored) /\ Len(Stored) \in Nat /\ Other \notin Events
  BY ClientAssumption
<1>2. PICK z \in Nat : z = Len(Stored)
  BY <1>1
<1>3. PICK F \in SUBSET (1..z) : F = found
  BY <1>1, <1>2
<1>4. WssAnswer(q) = IF F = {} THEN <<Other>> ELSE <<Stored[Place(F, 1)]>>
  BY <1>3 DEF WssAnswer
<1>5. \A i \in 1..z : i \in F <=> Author[Stored[i]] = q.author
  BY <1>1, <1>2, <1>3
<1> HIDE DEF found
<1>6. CASE F = {}
  <2>1. WssAnswer(q)[1] = Other
    BY <1>4, <1>6
  <2> QED BY <1>1, <1>2, <1>5, <1>6, <2>1
<1>7. CASE F # {}
  <2>1. Place(F, 1) \in F /\ \A j \in F : Place(F, 1) <= j
    BY <1>7, EndPlaces
  <2>2. PICK m \in F : m = Place(F, 1)
    BY <2>1
  <2>3. WssAnswer(q)[1] = Stored[m]
    BY <1>4, <1>7, <2>2
  <2>4. ASSUME NEW i \in 1..z, i \in F, \A j \in 1..(i-1) : Author[Stored[j]] # q.author
        PROVE  i = m
    <3>1. \A j \in 1..(i-1) : j \notin F
      BY <1>5, <2>4
    <3>2. ~(m < i)
      BY <3>1
    <3> QED BY <2>1, <2>2, <2>4, <3>2
  <2>5. \A j \in 1..(m-1) : Author[Stored[j]] # q.author
    <3> SUFFICES ASSUME NEW j \in 1..(m-1) PROVE j \notin F
      BY <1>5
    <3> QED BY <2>1, <2>2
  <2>6. m \in 1..z /\ Author[Stored[m]] = q.author
    BY <1>5
  <2> QED BY <1>1, <1>2, <1>5, <2>3, <2>4, <2>5, <2>6
<1> QED BY <1>6, <1>7

LEMMA FirstLeads ==
  ASSUME relay \in Relays, NEW q, q.type = "REQ", q.limit \in Nat, q.limit >= 1,
         NEW e \in Events
  PROVE  Reply(relay, q)[1] = e <=> Leading(q, e)
<1>1. CASE relay = "nip01"
  BY <1>1, Nip01First DEF Reply, Leading
<1>2. CASE relay = "wss"
  BY <1>2, WssFirst DEF Reply, Leading
<1>3. CASE relay = "hyper"
  <2>1. Reply(relay, q) = <<Other>>
    BY <1>3 DEF Reply
  <2>2. Reply(relay, q)[1] # e
    BY <2>1, ClientAssumption
  <2> QED BY <1>3, <2>2 DEF Leading
<1> QED BY <1>1, <1>2, <1>3, ClientAssumption

(* What the invariant says of a fetch that has ended, in the words of the  *)
(* property.                                                               *)
LEMMA FetchInvEnds ==
  ASSUME TypeInv, FetchInv
  PROVE  FetchIsComplete
<1> SUFFICES ASSUME NEW u \in Users, OnTable(u), job[u] = "none", ~spoiled[u]
             PROVE  LET Leads(q) == {e \in Events \ Unreadable : Leading(q, e)}
                        contacts == Leads(FollowsReq(asked[u]))
                    IN  /\ \A e \in contacts : list[u] = PTags[e]
                        /\ contacts = {} => list[u] = << >>
                        /\ \A i \in DOMAIN list[u] :
                             Leads(AuthorReq(page[u], list[u][i])) \subseteq Range(rows[u])
  BY DEF FetchIsComplete, OnTable
<1>1. /\ list[u] = ListOf(Reply(relay, FollowsReq(asked[u]))[1])
      /\ \A i \in 1..Done(u) : Shown(First(relay, page[u], list[u][i]), rows[u])
  BY DEF FetchInv, UserInv, CompleteInv
<1>2. PICK l \in Seq(Keys), w \in Seq(Messages) : l = list[u] /\ w = rows[u]
  BY DEF TypeInv, TypeOK
<1>3. DOMAIN l = 1..Len(l) /\ Done(u) = Len(l) /\ DOMAIN w = 1..Len(w)
  BY <1>2 DEF Done
<1>4. relay \in Relays
  BY DEF TypeInv, TypeOK
<1>5. ASSUME NEW q, q.type = "REQ", q.limit \in Nat, q.limit >= 1, NEW e \in Good
      PROVE  Reply(relay, q)[1] = e <=> Leading(q, e)
  <2>1. e \in Events
    BY DEF Good
  <2> QED BY <1>4, <1>5, <2>1, FirstLeads
<1>6. PICK q : q = FollowsReq(asked[u])
  OBVIOUS
<1>7. PICK m : m = Reply(relay, q)[1]
  OBVIOUS
<1>8. \A e \in Good : m = e <=> Leading(q, e)
  <2>1. q.type = "REQ" /\ q.limit = 1
    BY <1>6 DEF FollowsReq, Req
  <2> HIDE DEF Leading
  <2> QED BY <1>5, <1>7, <2>1
<1>9. list[u] = ListOf(m)
  BY <1>1, <1>6, <1>7
<1>10. \A e \in Good : Leading(q, e) => list[u] = PTags[e]
  <2> HIDE DEF Leading
  <2> QED BY <1>8, <1>9 DEF ListOf
<1>11. (\A e \in Good : ~Leading(q, e)) => list[u] = << >>
  <2> HIDE DEF Leading
  <2> QED BY <1>8, <1>9 DEF ListOf
<1>12. ASSUME NEW i \in 1..Len(l), NEW e \in Good, Leading(AuthorReq(page[u], l[i]), e)
       PROVE  e \in Range(w)
  <2>1. PICK p : p = AuthorReq(page[u], l[i])
    OBVIOUS
  <2>2. p.type = "REQ" /\ p.limit \in Nat /\ p.limit >= 1
    BY <2>1 DEF AuthorReq, Req
  <2>3. Leading(p, e)
    BY <1>12, <2>1
  <2>4. Reply(relay, p)[1] = e
    BY <1>5, <2>2, <2>3
  <2>5. First(relay, page[u], l[i]) = e
    BY <2>1, <2>4 DEF First
  <2>6. Shown(e, w)
    BY <1>1, <1>2, <1>3, <2>5
  <2> QED BY <1>3, <2>6 DEF Shown, Range
<1> HIDE DEF Leading, Range
<1> QED BY <1>2, <1>3, <1>6, <1>10, <1>11, <1>12 DEF Good

(* A fetch that met no fault ends with the list of the event the relay     *)
(* leads with and the leading event of each key on it, and with no list    *)
(* only if there is none to be had: for any number of users, lists of any  *)
(* length, any stored events and every kind of relay.  relay_to's closing  *)
(* on the first message costs at most the second note of an author.        *)
THEOREM FetchComplete == Spec => []FetchIsComplete
<1>1. Init => TypeInv /\ FetchInv
  BY TypeInit, FetchInit
<1>2. TypeInv /\ FetchInv /\ [Next]_vars => (TypeInv /\ FetchInv)'
  BY TypeStep, FetchStep
<1>3. TypeInv /\ FetchInv => FetchIsComplete
  BY FetchInvEnds
<1> QED BY <1>1, <1>2, <1>3, PTL DEF Spec

-----------------------------------------------------------------------------
(* The order of the rows.  No event comes twice on a connection.           *)
Once(s) == \A i, j \in 1..Len(s) : (i # j /\ s[i] \in Events) => s[i] # s[j]
Apart(s, t) == \A i \in 1..Len(s), j \in 1..Len(t) : s[i] \in Events => s[i] # t[j]
OnceInv(u) ==
  Going(u) => Once(store[u]) /\ Once(answer[u]) /\ Apart(store[u], answer[u])

(* The rows belong to the keys of the list that have been dealt with.      *)
InOrder(place, w, l) ==
  \A i \in 1..Len(w) :
    /\ w[i] \in Events /\ Author[w[i]] = l[place[i]]
    /\ \A j \in 1..(i-1) : place[j] <= place[i] /\ (w[j] = w[i] => place[j] # place[i])
Ordered(w, l, d) == \E place \in [1..Len(w) -> 1..d] : InOrder(place, w, l)
OfPage(w, p) == \A i \in 1..Len(w) : Kind[w[i]] = IF p = "feed" THEN 1 ELSE 0
RowsInv(u) ==
  OnTable(u) => /\ Ordered(rows[u], list[u], Done(u))
                /\ relay = "nip01" => OfPage(rows[u], page[u])

OrderUser(u) == OnceInv(u) /\ RowsInv(u)
OrderInv == \A u \in Users : OrderUser(u)

LEMMA OnceMoves ==
  ASSUME NEW s \in Seq(Messages), NEW t \in Seq(Messages), t # << >>,
         Once(s), Once(t), Apart(s, t)
  PROVE  Once(Append(s, Head(t))) /\ Once(Tail(t)) /\ Apart(Append(s, Head(t)), Tail(t))
<1>1. /\ Head(t) = t[1] /\ t[1] \in Messages /\ Tail(t) \in Seq(Messages)
      /\ Len(t) \in Nat /\ Len(t) >= 1 /\ Len(Tail(t)) = Len(t) - 1
      /\ \A i \in 1..Len(Tail(t)) : Tail(t)[i] = t[i + 1]
  BY RestIs
<1>2. PICK m \in Messages, T \in Seq(Messages) : m = Head(t) /\ T = Tail(t)
  BY <1>1
<1>3. /\ Append(s, m) \in Seq(Messages) /\ Len(s) \in Nat
      /\ Len(Append(s, m)) = Len(s) + 1 /\ Append(s, m)[Len(s) + 1] = m
      /\ \A i \in 1..Len(s) : Append(s, m)[i] = s[i]
  BY OneMoreIs
<1>4. PICK S \in Seq(Messages) : S = Append(s, m)
  BY <1>3
<1>5. \A i \in 1..Len(T) : i + 1 \in 1..Len(t) /\ i + 1 # 1 /\ T[i] = t[i + 1]
  BY <1>1, <1>2
<1>6. m = t[1] /\ 1 \in 1..Len(t)
  BY <1>1, <1>2
<1>7. \A i \in 1..Len(S) : (i \in 1..Len(s) /\ S[i] = s[i]) \/ (i = Len(s) + 1 /\ S[i] = m)
  BY <1>3, <1>4
<1>8. Once(T)
  <2> SUFFICES ASSUME NEW i \in 1..Len(T), NEW j \in 1..Len(T), i # j, T[i] \in Events
               PROVE  T[i] # T[j]
    BY DEF Once
  <2>1. i + 1 # j + 1
    OBVIOUS
  <2> QED BY <1>5, <2>1 DEF Once
<1>9. Once(S)
  BY <1>6, <1>7 DEF Once, Apart
<1>10. Apart(S, T)
  <2> SUFFICES ASSUME NEW i \in 1..Len(S), NEW j \in 1..Len(T), S[i] \in Events
               PROVE  S[i] # T[j]
    BY DEF Apart
  <2>1. j + 1 \in 1..Len(t) /\ 1 # j + 1 /\ T[j] = t[j + 1]
    BY <1>5
  <2>2. CASE i \in 1..Len(s) /\ S[i] = s[i]
    BY <2>1, <2>2 DEF Apart
  <2>3. CASE S[i] = t[1]
    BY <1>6, <2>1, <2>3 DEF Once
  <2> QED BY <1>6, <1>7, <2>2, <2>3
<1> QED BY <1>2, <1>4, <1>8, <1>9, <1>10

LEMMA OnceNotice ==
  ASSUME NEW s, NEW t \in Seq(Messages), Once(t), Apart(s, t)
  PROVE  Once(<<Other>> \o t) /\ Apart(s, <<Other>> \o t)
<1>1. Other \notin Events /\ Other \in Messages
  BY ClientAssumption DEF Messages
<1>2. PICK o \in Seq(Messages) : o = <<Other>> /\ Len(o) = 1 /\ o[1] = Other
  <2>1. <<Other>> \in Seq(Messages) /\ Len(<<Other>>) = 1 /\ <<Other>>[1] = Other
    BY <1>1
  <2> QED BY <2>1
<1>3. /\ o \o t \in Seq(Messages) /\ Len(o) \in Nat /\ Len(t) \in Nat
      /\ Len(o \o t) = Len(o) + Len(t)
      /\ \A i \in 1..Len(o) : (o \o t)[i] = o[i]
      /\ \A i \in 1..Len(t) : (o \o t)[Len(o) + i] = t[i]
  BY JoinedIs
<1>4. PICK w \in Seq(Messages) : w = o \o t
  BY <1>3
<1>5. ASSUME NEW i \in 1..Len(w)
      PROVE  w[i] = Other \/ (i - 1 \in 1..Len(t) /\ w[i] = t[i - 1])
  <2>1. CASE i = 1
    BY <1>2, <1>3, <1>4, <2>1
  <2>2. CASE i # 1
    <3>1. i - 1 \in 1..Len(t) /\ Len(o) + (i - 1) = i
      BY <1>2, <1>3, <1>4, <2>2
    <3> QED BY <1>3, <1>4, <3>1
  <2> QED BY <2>1, <2>2
<1>6. Once(w)
  <2> SUFFICES ASSUME NEW i \in 1..Len(w), NEW j \in 1..Len(w), i # j, w[i] \in Events
               PROVE  w[i] # w[j]
    BY DEF Once
  <2>1. i - 1 # j - 1 /\ w[i] # Other
    BY <1>1
  <2> QED BY <1>5, <2>1 DEF Once
<1>7. Apart(s, w)
  BY <1>1, <1>5 DEF Apart
<1> QED BY <1>2, <1>4, <1>6, <1>7

(* Rows of one more key come after the others.                             *)
LEMMA OneKeyMore ==
  ASSUME NEW w \in Seq(Messages), NEW R \in Seq(Messages), NEW l, NEW d \in Nat,
         Ordered(w, l, d),
         \A i \in 1..Len(R) : R[i] \in Events /\ Author[R[i]] = l[d + 1],
         \A i, j \in 1..Len(R) : i # j => R[i] # R[j]
  PROVE  Ordered(w \o R, l, d + 1)
<1>1. /\ w \o R \in Seq(Messages) /\ Len(w) \in Nat /\ Len(R) \in Nat
      /\ Len(w \o R) = Len(w) + Len(R)
      /\ \A i \in 1..Len(w) : (w \o R)[i] = w[i]
      /\ \A i \in 1..Len(R) : (w \o R)[Len(w) + i] = R[i]
  BY JoinedIs
<1>2. PICK W : W = w \o R
  OBVIOUS
<1>a. PICK n \in Nat : n = Len(w)
  BY <1>1
<1>b. PICK m \in Nat : m = Len(R)
  BY <1>1
<1>3. n = Len(w) /\ m = Len(R) /\ Len(W) = n + m
  BY <1>1, <1>2, <1>a, <1>b
<1>4. PICK old \in [1..n -> 1..d] : InOrder(old, w, l)
  BY <1>3 DEF Ordered
<1>5. PICK place : place = [i \in 1..(n + m) |-> IF i <= n THEN old[i] ELSE d + 1]
  OBVIOUS
<1>6. place \in [1..(n + m) -> 1..(d + 1)]
  BY <1>4, <1>5
<1>7. ASSUME NEW i \in 1..n
      PROVE  i \in 1..(n + m) /\ place[i] = old[i] /\ place[i] \in 1..d /\ W[i] = w[i]
  <2>1. i \in 1..(n + m) /\ i <= n
    OBVIOUS
  <2>2. place[i] = old[i]
    BY <1>5, <2>1
  <2>3. old[i] \in 1..d
    BY <1>4
  <2> QED BY <1>1, <1>2, <1>3, <2>1, <2>2, <2>3
<1>8. ASSUME NEW i \in 1..(n + m), i \notin 1..n
      PROVE  i - n \in 1..m /\ place[i] = d + 1 /\ W[i] = R[i - n]
  <2>1. i - n \in 1..m /\ n + (i - n) = i /\ ~(i <= n)
    BY <1>8
  <2> QED BY <1>1, <1>2, <1>3, <1>5, <2>1
<1>9. ASSUME NEW i \in 1..(n + m)
      PROVE  /\ W[i] \in Events /\ Author[W[i]] = l[place[i]]
             /\ \A j \in 1..(i-1) :
                  place[j] <= place[i] /\ (W[j] = W[i] => place[j] # place[i])
  <2>1. CASE i \in 1..n
    <3>1. /\ w[i] \in Events /\ Author[w[i]] = l[old[i]]
          /\ \A j \in 1..(i-1) : old[j] <= old[i] /\ (w[j] = w[i] => old[j] # old[i])
      BY <1>3, <1>4, <2>1 DEF InOrder
    <3>2. \A j \in 1..(i-1) : j \in 1..n
      BY <2>1
    <3> QED BY <1>7, <2>1, <3>1, <3>2
  <2>2. CASE i \notin 1..n
    <3>1. i - n \in 1..m /\ place[i] = d + 1 /\ W[i] = R[i - n]
      BY <1>8, <2>2
    <3>2. W[i] \in Events /\ Author[W[i]] = l[place[i]]
      BY <1>3, <3>1
    <3>3. ASSUME NEW j \in 1..(i-1)
          PROVE  place[j] <= place[i] /\ (W[j] = W[i] => place[j] # place[i])
      <4>1. CASE j \in 1..n
        <5>1. place[j] \in 1..d
          BY <1>7, <4>1
        <5> QED BY <3>1, <5>1
      <4>2. CASE j \notin 1..n
        <5>1. j \in 1..(n + m) /\ j - n # i - n
          OBVIOUS
        <5>2. j - n \in 1..m /\ place[j] = d + 1 /\ W[j] = R[j - n]
          BY <1>8, <4>2, <5>1
        <5>3. W[j] # W[i]
          BY <1>3, <3>1, <5>1, <5>2
        <5> QED BY <3>1, <5>2, <5>3
      <4> QED BY <4>1, <4>2
    <3> QED BY <3>2, <3>3
  <2> QED BY <2>1, <2>2
<1>10. InOrder(place, W, l)
  BY <1>3, <1>9 DEF InOrder
<1>11. Ordered(W, l, d + 1)
  BY <1>3, <1>6, <1>10 DEF Ordered
<1> QED BY <1>2, <1>11

LEMMA OfPageMore ==
  ASSUME NEW w \in Seq(Messages), NEW R \in Seq(Messages), NEW p, OfPage(w, p), OfPage(R, p)
  PROVE  OfPage(w \o R, p)
<1>1. /\ Len(w) \in Nat /\ Len(R) \in Nat /\ Len(w \o R) = Len(w) + Len(R)
      /\ \A i \in 1..Len(w) : (w \o R)[i] = w[i]
      /\ \A i \in 1..Len(R) : (w \o R)[Len(w) + i] = R[i]
  BY JoinedIs
<1>2. PICK W : W = w \o R
  OBVIOUS
<1>3. ASSUME NEW i \in 1..Len(W) PROVE Kind[W[i]] = IF p = "feed" THEN 1 ELSE 0
  <2>1. CASE i \in 1..Len(w)
    BY <1>1, <1>2, <2>1 DEF OfPage
  <2>2. CASE i \notin 1..Len(w)
    <3>1. i - Len(w) \in 1..Len(R) /\ Len(w) + (i - Len(w)) = i
      BY <1>1, <1>2, <2>2
    <3>2. W[i] = R[i - Len(w)]
      BY <1>1, <1>2, <3>1
    <3> QED BY <3>1, <3>2 DEF OfPage
  <2> QED BY <2>1, <2>2
<1>4. OfPage(W, p)
  BY <1>3 DEF OfPage
<1> QED BY <1>2, <1>4

(* What an author's connection adds to the table.                          *)
LEMMA AddedRows ==
  ASSUME NEW r \in Relays, NEW p, NEW k \in Keys, NEW s \in Seq(Messages),
         Genuine(s, Reply(r, AuthorReq(p, k)))
  PROVE  /\ Readable(s) \in Seq(Messages)
         /\ \A i \in 1..Len(Readable(s)) :
              Readable(s)[i] \in Events /\ Author[Readable(s)[i]] = k
         /\ r = "nip01" => OfPage(Readable(s), p)
         /\ Once(s) => \A i, j \in 1..Len(Readable(s)) :
                         i # j => Readable(s)[i] # Readable(s)[j]
<1>1. PICK q : /\ q = AuthorReq(p, k) /\ q.limit \in Nat /\ q.author = k
               /\ q.kinds = IF p = "feed" THEN {1} ELSE {0}
  BY ReqFields
<1>2. PICK A : A = Reply(r, q)
  OBVIOUS
<1>3. Answers(A, q) /\ (r = "nip01" => OfKind(A, q))
  BY <1>1, <1>2, ReplyIs
<1>4. k # NoKey
  BY ClientAssumption
<1>5. PICK R : R = Readable(s)
  OBVIOUS
<1>6. /\ R \in Seq(Events) /\ Len(R) \in Nat
      /\ \A i \in 1..Len(R) : R[i] \in Good /\ \E j \in 1..Len(s) : R[i] = s[j]
      /\ \A i, j \in 1..Len(R) : i # j =>
           \E a, b \in 1..Len(s) : a # b /\ R[i] = s[a] /\ R[j] = s[b]
  <2>1. /\ Readable(s) \in Seq(Events) /\ Len(Readable(s)) \in Nat
        /\ \A i \in 1..Len(Readable(s)) :
             Readable(s)[i] \in Good /\ \E j \in 1..Len(s) : Readable(s)[i] = s[j]
        /\ \A i, j \in 1..Len(Readable(s)) : i # j =>
             \E a, b \in 1..Len(s) : a # b /\ Readable(s)[i] = s[a] /\ Readable(s)[j] = s[b]
    BY ONLY ReadableIs, s \in Seq(Messages)
  <2> QED BY ONLY <1>5, <2>1
<1>7. ASSUME NEW i \in 1..Len(R) PROVE R[i] \in Events /\ \E j \in 1..Len(A) : A[j] = R[i]
  <2>1. PICK j \in 1..Len(s) : R[i] = s[j]
    BY <1>6
  <2>2. R[i] \in Events
    BY <1>6
  <2> QED BY <1>1, <1>2, <2>1, <2>2 DEF Genuine
<1>8. ASSUME NEW i \in 1..Len(R) PROVE Author[R[i]] = k
  BY <1>1, <1>3, <1>4, <1>7 DEF Answers
<1>9. ASSUME r = "nip01" PROVE OfPage(R, p)
  <2> SUFFICES ASSUME NEW i \in 1..Len(R) PROVE Kind[R[i]] = IF p = "feed" THEN 1 ELSE 0
    BY DEF OfPage
  <2>1. PICK j \in 1..Len(A) : A[j] = R[i] /\ A[j] \in Events
    BY <1>7
  <2>2. Kind[A[j]] \in q.kinds \/ q.kinds = {}
    BY <1>3, <1>9, <2>1 DEF OfKind
  <2> QED BY <1>1, <2>1, <2>2
<1>10. ASSUME Once(s), NEW i \in 1..Len(R), NEW j \in 1..Len(R), i # j PROVE R[i] # R[j]
  <2>1. PICK a \in 1..Len(s), b \in 1..Len(s) : a # b /\ R[i] = s[a] /\ R[j] = s[b]
    BY <1>6, <1>10
  <2> QED BY <1>7, <1>10, <2>1 DEF Once
<1>11. R \in Seq(Messages)
  BY <1>6 DEF Messages
<1> QED BY <1>5, <1>7, <1>8, <1>9, <1>10, <1>11

-----------------------------------------------------------------------------
LEMMA NothingYet ==
  /\ \A l, d : Ordered(<< >>, l, d)
  /\ \A p : OfPage(<< >>, p)
  /\ Once(<< >>) /\ Apart(<< >>, << >>)
<1>1. ASSUME NEW l, NEW d PROVE Ordered(<< >>, l, d)
  <2>1. Len(<< >>) = 0 /\ 1..0 = {}
    OBVIOUS
  <2>2. PICK place : place = [i \in 1..0 |-> 1]
    OBVIOUS
  <2>3. place \in [1..Len(<< >>) -> 1..d]
    BY <2>1, <2>2
  <2>4. InOrder(place, << >>, l)
    BY <2>1 DEF InOrder
  <2> QED BY <2>3, <2>4 DEF Ordered
<1> QED BY <1>1 DEF OfPage, Once, Apart

LEMMA SameOrder ==
  ASSUME NEW v \in Users, OrderUser(v), Same(v)
  PROVE  OrderUser(v)'
  BY DEF OrderUser, OnceInv, RowsInv, Same, Going, OnTable, Done

LEMMA PageOrder ==
  ASSUME TypeInv, NEW u \in Users, OrderUser(u), NEW k \in Keys,
         OpenHome(u) \/ OpenFeed(u) \/ EditKey(u, k) \/ EndAssign(u) \/ ShowKey(u)
  PROVE  OrderUser(u)'
<1>1. TypeOK
  BY DEF TypeInv
<1>2. job[u] \in {"none", "assign", "show"}
  BY DEF OpenHome, OpenFeed, EditKey, EndAssign, ShowKey, Click
<1>3. job'[u] \in {"none", "assign", "show"} /\ relay' = relay
  BY <1>1, <1>2 DEF TypeOK, OpenHome, OpenFeed, EditKey, EndAssign, ShowKey, Assign, Click
<1>4. \/ page'[u] \in {"opening", "home", "blank"}
      \/ page'[u] = page[u] /\ list'[u] = list[u] /\ rows'[u] = rows[u]
  BY <1>1 DEF TypeOK, OpenHome, OpenFeed, EditKey, EndAssign, ShowKey, table
<1>5. RowsInv(u)'
  <2>1. CASE page'[u] \in {"opening", "home", "blank"}
    BY <2>1 DEF RowsInv, OnTable
  <2>2. CASE page'[u] = page[u] /\ list'[u] = list[u] /\ rows'[u] = rows[u]
    <3>1. Done(u)' = Done(u)
      BY <1>2, <1>3, <2>2 DEF Done
    <3>2. OnTable(u)' <=> OnTable(u)
      BY <2>2 DEF OnTable
    <3> QED BY <1>3, <2>2, <3>1, <3>2 DEF OrderUser, RowsInv
  <2> QED BY <1>4, <2>1, <2>2
<1> QED BY <1>3, <1>5 DEF OrderUser, OnceInv, Going

LEMMA FetchOrder ==
  ASSUME TypeInv, NEW u \in Users, NEW p \in {"feed", "follows"}, Fetch(u, p)
  PROVE  OrderUser(u)'
<1>1. TypeOK
  BY DEF TypeInv
<1>2. PICK k : Begin(u, FollowsReq(k))
  BY DEF Fetch
<1>3. PICK q : q = FollowsReq(k)
  OBVIOUS
<1>4. Begin(u, q)
  BY <1>2, <1>3
<1>5. answer'[u] = << >> /\ store'[u] = << >>
  BY <1>4, BeginDoes
<1>6. rows'[u] = << >>
  BY <1>1 DEF TypeOK, Fetch
<1> QED BY <1>5, <1>6, NothingYet DEF OrderUser, OnceInv, RowsInv

LEMMA SendOrder ==
  ASSUME TypeInv, NEW u \in Users, NEW q, Send(u, q)
  PROVE  OrderUser(u)'
<1>1. page'[u] = "home" /\ job'[u] = "send"
  BY DEF TypeInv, TypeOK, Send
<1> QED BY <1>1 DEF OrderUser, OnceInv, RowsInv, Going, OnTable

LEMMA OpenOrder ==
  ASSUME NoRepeats, TypeInv, NEW u \in Users, UserInv(u), OrderUser(u), Open(u)
  PROVE  OrderUser(u)'
<1>1. /\ net[u] = "opening" /\ net'[u] = "open"
      /\ answer'[u] = Reply(relay, query[u])
      /\ Going(u) => rows'[u] = rows[u]
      /\ UNCHANGED <<relay, page, job, query, store, asked, list, todo, spoiled>>
  BY OpenDoes
<1>2. job[u] \in {"follows", "authors", "send"}
  BY <1>1 DEF UserInv, ClickInv
<1>3. ASSUME Going(u) PROVE OrderUser(u)'
  <2>1. RowsInv(u)'
    BY <1>1, <1>3 DEF OrderUser, RowsInv, OnTable, Done
  <2>2. PICK q \in Queried, r \in Relays : q = query[u] /\ r = relay
    BY DEF TypeInv, TypeOK
  <2>3. Answers(Reply(r, q), q)
    BY ReplyIs DEF Queried
  <2>4. PICK A : A = Reply(r, q)
    OBVIOUS
  <2>5. Once(A)
    BY <2>3, <2>4 DEF Answers, Once
  <2>6. store'[u] = << >> /\ answer'[u] = A
    BY <1>1, <1>3, <2>2, <2>4 DEF UserInv, SessionInv
  <2>7. Apart(<< >>, A)
    BY DEF Apart
  <2>8. OnceInv(u)'
    BY <2>5, <2>6, <2>7, NothingYet DEF OnceInv
  <2> QED BY <2>1, <2>8 DEF OrderUser
<1>4. ASSUME job[u] = "send" PROVE OrderUser(u)'
  BY <1>1, <1>4 DEF UserInv, ClickInv, OrderUser, OnceInv, RowsInv, Going, OnTable
<1> QED BY <1>2, <1>3, <1>4 DEF Going

LEMMA DeliverOrder ==
  ASSUME TypeInv, NEW u \in Users, UserInv(u), OrderUser(u), Deliver(u)
  PROVE  OrderUser(u)'
<1>1. /\ net[u] \in {"open", "closing"} /\ answer[u] # << >>
      /\ store'[u] = Append(store[u], Head(answer[u])) /\ answer'[u] = Tail(answer[u])
      /\ Going(u) => net'[u] = "closing" /\ rows'[u] = rows[u]
      /\ UNCHANGED <<relay, page, job, query, asked, list, todo, spoiled>>
  BY DeliverDoes
<1>2. job[u] \in {"follows", "authors", "send"}
  BY <1>1 DEF UserInv, ClickInv
<1>3. ASSUME Going(u) PROVE OrderUser(u)'
  <2>1. RowsInv(u)'
    BY <1>1, <1>3 DEF OrderUser, RowsInv, OnTable, Done
  <2>2. PICK s \in Seq(Messages), t \in Seq(Messages) : s = store[u] /\ t = answer[u]
    BY DEF TypeInv, TypeOK
  <2>3. t # << >> /\ Once(s) /\ Once(t) /\ Apart(s, t)
    BY <1>1, <1>3, <2>2 DEF OrderUser, OnceInv
  <2>4. Once(Append(s, Head(t))) /\ Once(Tail(t)) /\ Apart(Append(s, Head(t)), Tail(t))
    BY <2>3, OnceMoves
  <2>5. OnceInv(u)'
    BY <1>1, <2>2, <2>4 DEF OnceInv
  <2> QED BY <2>1, <2>5 DEF OrderUser
<1>4. ASSUME job[u] = "send" PROVE OrderUser(u)'
  BY <1>1, <1>4 DEF UserInv, ClickInv, OrderUser, OnceInv, RowsInv, Going, OnTable
<1> QED BY <1>2, <1>3, <1>4 DEF Going

LEMMA NoticeOrder ==
  ASSUME TypeInv, NEW u \in Users, OrderUser(u), Notice(u)
  PROVE  OrderUser(u)'
<1>1. /\ answer'[u] = <<Other>> \o answer[u]
      /\ UNCHANGED <<relay, page, job, net, query, store, asked, list, todo, rows>>
  BY NoticeDoes
<1>2. RowsInv(u)'
  BY <1>1 DEF OrderUser, RowsInv, OnTable, Done
<1>3. OnceInv(u)'
  <2>1. CASE Going(u)
    <3>1. PICK s \in Seq(Messages), t \in Seq(Messages) : s = store[u] /\ t = answer[u]
      BY DEF TypeInv, TypeOK
    <3>2. Once(s) /\ Once(t) /\ Apart(s, t)
      BY <2>1, <3>1 DEF OrderUser, OnceInv
    <3>3. Once(<<Other>> \o t) /\ Apart(s, <<Other>> \o t)
      BY <3>2, OnceNotice
    <3> QED BY <1>1, <3>1, <3>2, <3>3 DEF OnceInv
  <2>2. CASE ~Going(u)
    BY <1>1, <2>2 DEF OnceInv, Going
  <2> QED BY <2>1, <2>2
<1> QED BY <1>2, <1>3 DEF OrderUser

LEMMA EndOrder ==
  ASSUME TypeInv, NEW u \in Users, UserInv(u), OrderUser(u), EndSession(u), Quiet(u),
         \A v \in Users \ {u} : spoiled'[v] = spoiled[v]
  PROVE  OrderUser(u)'
<1>1. TypeOK
  BY DEF TypeInv
<1>2. CASE job[u] = "send"
  <2>1. job'[u] = "none" /\ page'[u] = page[u]
    BY <1>2, SendEndDoes
  <2>2. page[u] = "home"
    BY <1>2 DEF UserInv, ClickInv
  <2> QED BY <2>1, <2>2 DEF OrderUser, OnceInv, RowsInv, Going, OnTable
<1>3. CASE job[u] = "follows"
  <2>1. PICK ks : ks = Follows(store[u])
    OBVIOUS
  <2>2. Continue(u, ks) /\ rows' = rows
    BY <1>3, <2>1, FollowsEndDoes
  <2>3. answer'[u] = << >> /\ store'[u] = << >>
    BY <2>2, ContinueDoes
  <2>4. rows'[u] = << >>
    BY <1>3, <2>2 DEF UserInv, ClickInv
  <2> QED BY <2>3, <2>4, NothingYet DEF OrderUser, OnceInv, RowsInv
<1>4. CASE job[u] = "authors"
  <2>a. PICK p : p = page[u]
    OBVIOUS
  <2>b. PICK s \in Seq(Messages), t \in Seq(Keys), l \in Seq(Keys), w \in Seq(Messages) :
          s = store[u] /\ t = todo[u] /\ l = list[u] /\ w = rows[u]
    BY <1>1 DEF TypeOK
  <2>c. PICK r \in Relays : r = relay
    BY <1>1 DEF TypeOK
  <2>1. t # << >>
    BY <1>4, <2>b DEF TypeInv, Working
  <2>2. /\ t[1] \in Keys /\ Tail(t) \in Seq(Keys)
        /\ Len(t) \in Nat /\ Len(t) >= 1 /\ Len(Tail(t)) = Len(t) - 1
    BY <2>1, RestIs
  <2>3. PICK k \in Keys, ks \in Seq(Keys) : k = t[1] /\ ks = Tail(t)
    BY <2>2
  <2>4. /\ rows'[u] = w \o Readable(s) /\ Continue(u, ks)
        /\ list' = list /\ relay' = relay /\ page' = page
    <3>1. ks = Tail(todo[u])
      BY <2>b, <2>3
    <3>2. /\ rows'[u] = rows[u] \o Readable(store[u]) /\ Continue(u, ks)
          /\ list' = list /\ relay' = relay /\ page' = page
      BY <1>4, <3>1, AuthorsEndDoes
    <3> HIDE DEF Readable
    <3> QED BY <2>b, <3>2
  <2>5. /\ answer'[u] = << >> /\ store'[u] = << >>
        /\ todo'[u] = ks /\ job'[u] = (IF ks = << >> THEN "none" ELSE "authors")
    BY <2>4, ContinueDoes
  <2>6. OnceInv(u)'
    BY <2>5, NothingYet DEF OnceInv
  <2>7. ClickInv(u) /\ Going(u)
    BY <1>4 DEF UserInv, Going
  <2>8. OnTable(u) /\ query[u] = AuthorReq(p, k)
    <3>1. OnTable(u) /\ query[u] = Current(u)
      BY <2>7 DEF ClickInv
    <3> QED BY <1>4, <2>a, <2>b, <2>3, <3>1 DEF Current
  <2>9. Len(l) \in Nat /\ Len(t) <= Len(l) /\ k = l[(Len(l) - Len(t)) + 1]
    <3>1. Len(l) \in Nat /\ 1 \in 1..Len(t)
      BY <2>2
    <3>2. Len(t) <= Len(l) /\ \A i \in 1..Len(t) : t[i] = l[(Len(l) - Len(t)) + i]
      BY <1>4, <2>b, <2>7 DEF ClickInv
    <3> QED BY <2>3, <3>1, <3>2
  <2>10. PICK d \in Nat : d = Len(l) - Len(t) /\ Done(u) = d /\ Done(u)' = d + 1
    <3>1. Done(u) = Len(l) - Len(t)
      BY <1>4, <2>b DEF Done
    <3>2. ks = << >> <=> Len(ks) = 0
      OBVIOUS
    <3>3. Done(u)' = Len(l) - Len(ks)
      BY <2>b, <2>4, <2>5, <3>2 DEF Done
    <3>4. Len(l) - Len(t) \in Nat /\ Len(l) - Len(ks) = (Len(l) - Len(t)) + 1
      BY <2>2, <2>3, <2>9
    <3> QED BY ONLY <3>1, <3>3, <3>4
  <2>11. Genuine(s, Reply(r, AuthorReq(p, k))) /\ Once(s)
    BY <2>b, <2>c, <2>7, <2>8 DEF UserInv, SessionInv, OrderUser, OnceInv
  <2>12. Ordered(w, l, d) /\ (r = "nip01" => OfPage(w, p))
    BY <2>a, <2>b, <2>c, <2>8, <2>10 DEF OrderUser, RowsInv
  <2>13. PICK R : R = Readable(s)
    OBVIOUS
  <2>14. /\ Readable(s) \in Seq(Messages)
         /\ \A i \in 1..Len(Readable(s)) :
              Readable(s)[i] \in Events /\ Author[Readable(s)[i]] = k
         /\ r = "nip01" => OfPage(Readable(s), p)
         /\ Once(s) => \A i, j \in 1..Len(Readable(s)) :
                         i # j => Readable(s)[i] # Readable(s)[j]
    BY ONLY <2>11, AddedRows, s \in Seq(Messages), r \in Relays, k \in Keys
  <2>15. /\ R \in Seq(Messages)
         /\ \A i \in 1..Len(R) : R[i] \in Events /\ Author[R[i]] = l[d + 1]
         /\ r = "nip01" => OfPage(R, p)
         /\ \A i, j \in 1..Len(R) : i # j => R[i] # R[j]
    BY ONLY <2>9, <2>10, <2>11, <2>13, <2>14
  <2>16. Ordered(w \o R, l, d + 1)
    BY <2>12, <2>15, OneKeyMore
  <2>17. r = "nip01" => OfPage(w \o R, p)
    BY <2>12, <2>15, OfPageMore
  <2>18. rows'[u] = w \o R
    BY <2>4, <2>13
  <2>19. RowsInv(u)'
    BY <2>a, <2>b, <2>c, <2>4, <2>10, <2>16, <2>17, <2>18 DEF RowsInv
  <2> QED BY <2>6, <2>19 DEF OrderUser
<1> QED BY <1>2, <1>3, <1>4 DEF EndSession

LEMMA OrderStep ==
  ASSUME NoRepeats, TypeInv, TypeInv', FetchInv, OrderInv, [Next]_vars
  PROVE  OrderInv'
<1>1. CASE UNCHANGED vars
  <2>1. \A v \in Users : Same(v)
    BY <1>1 DEF Same, vars
  <2> QED BY <2>1, SameOrder DEF OrderInv
<1>2. ASSUME NEW u \in Users, OrderUser(u)', \A v \in Users \ {u} : Same(v)
      PROVE  OrderInv'
  BY <1>2, SameOrder DEF OrderInv
<1>3. ASSUME NEW u \in Users, Closed(u) \/ Lost(u)
      PROVE  OrderUser(u)' /\ \A v \in Users \ {u} : Same(v)
  <2>1. EndSession(u) /\ Quiet(u) /\ UserInv(u) /\ OrderUser(u)
    BY <1>3 DEF Closed, Lost, FetchInv, OrderInv
  <2>2. spoiled \in [Users -> BOOLEAN]
    BY DEF TypeInv, TypeOK
  <2>3. /\ \A v \in Users \ {u} : spoiled'[v] = spoiled[v]
        /\ spoiled'[u] \/ (net[u] = "closing" /\ ~spoiled[u])
    <3>1. CASE Closed(u)
      BY <3>1 DEF Closed
    <3>2. CASE Lost(u)
      BY <2>2, <3>2 DEF Lost
    <3> QED BY <1>3, <3>1, <3>2
  <2> QED BY <2>1, <2>3, EndKeeps, EndOrder
<1>4. ASSUME Next PROVE OrderInv'
  <2>1. PICK u \in Users :
          \/ OpenHome(u) \/ OpenFeed(u)
          \/ \E k \in Keys : EditKey(u, k)
          \/ \E p \in Fetched : Fetch(u, p)
          \/ \E q \in Queries(u) : Send(u, q)
          \/ Progress(u)
          \/ (Lost(u) \/ Notice(u)) /\ faults < MaxFaults /\ faults' = faults + 1
    BY <1>4 DEF Next
  <2>2. DefKey \in Keys /\ UserInv(u) /\ OrderUser(u)
    BY ClientAssumption DEF FetchInv, OrderInv
  <2>3. \A v \in Users \ {u} : Same(v)
    BY <1>3, <2>1, <2>2, PageKeeps, FetchKeeps, SendKeeps, OpenKeeps, DeliverKeeps,
       NoticeKeeps DEF Progress, Fetched
  <2>4. OrderUser(u)'
    BY <1>3, <2>1, <2>2, PageOrder, FetchOrder, SendOrder, OpenOrder, DeliverOrder,
       NoticeOrder DEF Progress, Fetched
  <2> QED BY <1>2, <2>3, <2>4
<1> QED BY <1>1, <1>4

LEMMA OrderInit ==
  ASSUME Init
  PROVE  OrderInv
<1> SUFFICES ASSUME NEW u \in Users PROVE OrderUser(u)
  BY DEF OrderInv
<1>1. job[u] = "none" /\ rows[u] = << >>
  BY DEF Init
<1> QED BY <1>1, NothingYet DEF OrderUser, OnceInv, RowsInv, Going

LEMMA OrderIsOfList ==
  ASSUME TypeInv, FetchInv, OrderInv
  PROVE  RowsFollowList
<1> SUFFICES ASSUME NEW u \in Users, OnTable(u)
             PROVE  /\ \E place \in [DOMAIN rows[u] -> DOMAIN list[u]] :
                         \A i \in DOMAIN rows[u] :
                           /\ rows[u][i] \in Events
                           /\ Author[rows[u][i]] = list[u][place[i]]
                           /\ \A j \in 1..(i-1) :
                                /\ place[j] <= place[i]
                                /\ rows[u][j] = rows[u][i] => place[j] # place[i]
                    /\ relay = "nip01" =>
                         \A i \in DOMAIN rows[u] :
                           Kind[rows[u][i]] = IF page[u] = "feed" THEN 1 ELSE 0
  BY DEF RowsFollowList, OnTable
<1>1. PICK l \in Seq(Keys), t \in Seq(Keys), w \in Seq(Messages) :
        l = list[u] /\ t = todo[u] /\ w = rows[u]
  BY DEF TypeInv, TypeOK
<1>2. /\ DOMAIN l = 1..Len(l) /\ DOMAIN w = 1..Len(w)
      /\ Len(l) \in Nat /\ Len(t) \in Nat /\ Len(w) \in Nat
  OBVIOUS
<1>3. PICK d \in 0..Len(l) : d = Done(u)
  <2>1. CASE job[u] = "authors"
    <3>1. Len(t) <= Len(l)
      BY <1>1, <2>1 DEF FetchInv, UserInv, ClickInv
    <3>2. Done(u) = Len(l) - Len(t)
      BY <1>1, <2>1 DEF Done
    <3>3. Len(l) - Len(t) \in 0..Len(l)
      BY <1>2, <3>1
    <3> QED BY ONLY <3>2, <3>3
  <2>2. CASE job[u] # "authors"
    <3>1. Done(u) = Len(l) /\ Len(l) \in 0..Len(l)
      BY <1>1, <1>2, <2>2 DEF Done
    <3> QED BY ONLY <3>1
  <2> QED BY <2>1, <2>2
<1>4. Ordered(w, l, d) /\ (relay = "nip01" => OfPage(w, page[u]))
  BY <1>1, <1>3 DEF OrderInv, OrderUser, RowsInv
<1>5. PICK place \in [1..Len(w) -> 1..d] : InOrder(place, w, l)
  BY <1>4 DEF Ordered
<1>6. place \in [DOMAIN w -> DOMAIN l]
  BY <1>2, <1>3
<1>7. \A i \in DOMAIN w :
        /\ w[i] \in Events /\ Author[w[i]] = l[place[i]]
        /\ \A j \in 1..(i-1) : place[j] <= place[i] /\ (w[j] = w[i] => place[j] # place[i])
  BY <1>2, <1>5 DEF InOrder
<1>8. relay = "nip01" =>
        \A i \in DOMAIN w : Kind[w[i]] = IF page[u] = "feed" THEN 1 ELSE 0
  BY <1>2, <1>4 DEF OfPage
<1>9. place \in [DOMAIN rows[u] -> DOMAIN list[u]]
  BY ONLY <1>1, <1>6
<1>10. \A i \in DOMAIN rows[u] :
         /\ rows[u][i] \in Events
         /\ Author[rows[u][i]] = list[u][place[i]]
         /\ \A j \in 1..(i-1) : /\ place[j] <= place[i]
                                /\ rows[u][j] = rows[u][i] => place[j] # place[i]
  BY ONLY <1>1, <1>7
<1>11. relay = "nip01" =>
         \A i \in DOMAIN rows[u] : Kind[rows[u][i]] = IF page[u] = "feed" THEN 1 ELSE 0
  BY ONLY <1>1, <1>8
<1> QED BY ONLY <1>9, <1>10, <1>11, Zenon

(* The rows of a page follow the list, each event once per listing of its  *)
(* author, and are of the page's kind if the relay heeds kinds: for any    *)
(* number of users, lists, messages and faults, provided that a relay of   *)
(* NIP-01 does not hold an event twice; of wss_relay nothing is assumed.   *)
THEOREM RowsInOrder == ASSUME NoRepeats PROVE Spec => []RowsFollowList
<1>1. Init => TypeInv /\ FetchInv /\ OrderInv
  BY TypeInit, FetchInit, OrderInit
<1>2. TypeInv /\ FetchInv /\ OrderInv /\ [Next]_vars => (TypeInv /\ FetchInv /\ OrderInv)'
  BY NoRepeats, TypeStep, FetchStep, OrderStep
<1>3. TypeInv /\ FetchInv /\ OrderInv => RowsFollowList
  BY OrderIsOfList
<1> QED BY <1>1, <1>2, <1>3, PTL DEF Spec
=============================================================================
