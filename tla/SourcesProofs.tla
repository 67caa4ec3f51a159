--------------------------- MODULE SourcesProofs ----------------------------
(***************************************************************************)
(* Results on Sources, for any number of records, pages, changes and       *)
(* faults: TypeOK, Grounded and Covers are invariants.                     *)
(***************************************************************************)
EXTENDS Sources, FiniteSetTheorems, TLAPS

-----------------------------------------------------------------------------
(* Listings as sequences *)

\* A part of a sequence.
LEMMA SubSeqFacts ==
  ASSUME NEW S, NEW s \in Seq(S), NEW m \in Int, NEW n \in Int,
         1 <= m, n <= Len(s), m <= n + 1
  PROVE  /\ SubSeq(s, m, n) \in Seq(S) /\ Len(SubSeq(s, m, n)) = n - m + 1
         /\ \A j \in 1..(n - m + 1) : SubSeq(s, m, n)[j] = s[m + j - 1]
  OBVIOUS

\* One sequence after another.
LEMMA ConcatFacts ==
  ASSUME NEW S, NEW s \in Seq(S), NEW t \in Seq(S)
  PROVE  /\ s \o t \in Seq(S) /\ Len(s \o t) = Len(s) + Len(t)
         /\ \A j \in 1..(Len(s) + Len(t)) :
              (s \o t)[j] = IF j <= Len(s) THEN s[j] ELSE t[j - Len(s)]
  OBVIOUS

\* A sequence without its element at i.
LEMMA RemoveAtFacts ==
  ASSUME NEW S, NEW s \in Seq(S), NEW i \in 1..Len(s)
  PROVE  /\ RemoveAt(s, i) \in Seq(S)
         /\ Len(RemoveAt(s, i)) = Len(s) - 1
         /\ \A j \in 1..(Len(s) - 1) : RemoveAt(s, i)[j] = IF j < i THEN s[j] ELSE s[j + 1]
<1> DEFINE a == SubSeq(s, 1, i - 1)
           b == SubSeq(s, i + 1, Len(s))
<1>1. a \in Seq(S) /\ Len(a) = i - 1 /\ \A j \in 1..(i - 1) : a[j] = s[j]
  BY SubSeqFacts
<1>2. b \in Seq(S) /\ Len(b) = Len(s) - i /\ \A j \in 1..(Len(s) - i) : b[j] = s[i + j]
  BY SubSeqFacts
<1>3. RemoveAt(s, i) = a \o b
  BY DEF RemoveAt
<1> HIDE DEF a, b
<1>4. /\ a \o b \in Seq(S) /\ Len(a \o b) = Len(a) + Len(b)
      /\ \A j \in 1..(Len(a) + Len(b)) :
           (a \o b)[j] = IF j <= Len(a) THEN a[j] ELSE b[j - Len(a)]
  BY <1>1, <1>2, ConcatFacts
<1>5. \A j \in 1..(Len(s) - 1) : (a \o b)[j] = IF j < i THEN s[j] ELSE s[j + 1]
  <2> TAKE j \in 1..(Len(s) - 1)
  <2>1. CASE j < i
    BY <1>1, <1>2, <1>4, <2>1
  <2>2. CASE ~(j < i)
    <3>1. j - (i - 1) \in 1..(Len(s) - i) /\ i + (j - (i - 1)) = j + 1
      BY <2>2
    <3>2. (a \o b)[j] = b[j - (i - 1)]
      BY <1>1, <1>2, <1>4, <2>2
    <3> QED
      BY <1>2, <2>2, <3>1, <3>2
  <2> QED
    BY <2>1, <2>2
<1> QED
  BY <1>1, <1>2, <1>3, <1>4, <1>5

\* A sequence with e at i.
LEMMA InsertAtFacts ==
  ASSUME NEW S, NEW s \in Seq(S), NEW i \in 1..(Len(s) + 1), NEW e \in S
  PROVE  /\ InsertAt(s, i, e) \in Seq(S)
         /\ Len(InsertAt(s, i, e)) = Len(s) + 1
         /\ \A j \in 1..(Len(s) + 1) :
              InsertAt(s, i, e)[j] = IF j < i THEN s[j] ELSE IF j = i THEN e ELSE s[j - 1]
<1> DEFINE a == SubSeq(s, 1, i - 1)
           b == SubSeq(s, i, Len(s))
           m == <<e>>
           ab == a \o m
<1>1. a \in Seq(S) /\ Len(a) = i - 1 /\ \A j \in 1..(i - 1) : a[j] = s[j]
  BY SubSeqFacts
<1>2. /\ b \in Seq(S) /\ Len(b) = Len(s) - i + 1
      /\ \A j \in 1..(Len(s) - i + 1) : b[j] = s[i + j - 1]
  BY SubSeqFacts
<1>3. m \in Seq(S) /\ Len(m) = 1 /\ m[1] = e
  OBVIOUS
<1>4. InsertAt(s, i, e) = ab \o b
  BY DEF InsertAt
<1> HIDE DEF a, b, m
<1>5. /\ ab \in Seq(S) /\ Len(ab) = i
      /\ \A j \in 1..i : ab[j] = IF j < i THEN s[j] ELSE e
  <2>1. /\ ab \in Seq(S) /\ Len(ab) = Len(a) + Len(m)
        /\ \A j \in 1..(Len(a) + Len(m)) :
             ab[j] = IF j <= Len(a) THEN a[j] ELSE m[j - Len(a)]
    BY <1>1, <1>3, ConcatFacts
  <2> HIDE DEF ab
  <2> QED
    BY <1>1, <1>3, <2>1
<1> HIDE DEF ab
<1>6. /\ ab \o b \in Seq(S) /\ Len(ab \o b) = Len(ab) + Len(b)
      /\ \A j \in 1..(Len(ab) + Len(b)) :
           (ab \o b)[j] = IF j <= Len(ab) THEN ab[j] ELSE b[j - Len(ab)]
  BY <1>2, <1>5, ConcatFacts
<1>7. \A j \in 1..(Len(s) + 1) :
        (ab \o b)[j] = IF j < i THEN s[j] ELSE IF j = i THEN e ELSE s[j - 1]
  <2> TAKE j \in 1..(Len(s) + 1)
  <2>1. CASE j <= i
    BY <1>2, <1>5, <1>6, <2>1
  <2>2. CASE ~(j <= i)
    <3>1. j - i \in 1..(Len(s) - i + 1) /\ i + (j - i) - 1 = j - 1
      BY <2>2
    <3>2. (ab \o b)[j] = b[j - i]
      BY <1>2, <1>5, <1>6, <2>2
    <3> QED
      BY <1>2, <2>2, <3>1, <3>2
  <2> QED
    BY <2>1, <2>2
<1> QED
  BY <1>2, <1>4, <1>5, <1>6, <1>7

\* The records of a listing differ in their ids.
Distinct(s) == \A j, k \in 1..Len(s) : s[j].id = s[k].id => j = k

\* Then there are as many ids as records.
LEMMA DistinctCount ==
  ASSUME NEW S, NEW s \in Seq(S), Distinct(s)
  PROVE  Cardinality({r.id : r \in Range(s)}) = Len(s)
<1> DEFINE T == {r.id : r \in Range(s)}
           f == [j \in 1..Len(s) |-> s[j].id]
<1>1. Range(s) = {s[j] : j \in 1..Len(s)}
  BY DEF Range
<1>2. f \in Bijection(1..Len(s), T)
  <2>1. f \in [1..Len(s) -> T]
    BY <1>1
  <2>2. \A j, k \in 1..Len(s) : f[j] = f[k] => j = k
    BY DEF Distinct
  <2>3. \A t \in T : \E j \in 1..Len(s) : f[j] = t
    BY <1>1
  <2> HIDE DEF T, f
  <2> QED
    BY <2>1, <2>2, <2>3 DEF Bijection, Injection, Surjection, IsInjective
<1>3. ExistsBijection(1..Len(s), T)
  BY <1>2 DEF ExistsBijection
<1> QED
  BY <1>3, FS_CountingElements

-----------------------------------------------------------------------------
(* Listings as they change *)

AnySort == {"plugin", "malformed", "other", "fatal"}
Rec(n) == [id : Ids, sort : AnySort, ver : 0..n, stamp : 0..n]

\* The listings hold records of the past, one with an id.
ListsOK ==
  /\ changes \in 0..MaxChanges
  /\ DOMAIN listing = Endpoints
  /\ \A e \in Endpoints : listing[e] \in Seq(Rec(changes)) /\ Distinct(listing[e])

\* Elements of a sequence stay what they are in a larger set.
LEMMA SeqWider ==
  ASSUME NEW S, NEW T, S \subseteq T, NEW s \in Seq(S)
  PROVE  s \in Seq(T)
<1>1. s \in [1..Len(s) -> T] /\ Len(s) \in Nat
  OBVIOUS
<1> QED
  BY <1>1

\* What each change of a listing makes of it: no record is older than the one that
\* had its id before.
NoOlder(old, new) ==
  \A r \in Range(new) :
    \/ r.stamp = changes + 1
    \/ \E o \in Range(old) : o.id = r.id /\ o.stamp = r.stamp /\ (o = r \/ r.ver = changes + 1)

\* A new record comes in.
LEMMA InsertKeeps ==
  ASSUME changes \in Nat, NEW s \in Seq(Rec(changes)), Distinct(s),
         NEW id \in Ids, NEW sort \in AnySort, id \notin {r.id : r \in Range(s)},
         NEW i \in 1..(Len(s) + 1)
  PROVE  LET new == Record(id, sort, changes + 1, changes + 1) IN
         /\ InsertAt(s, i, new) \in Seq(Rec(changes + 1))
         /\ Distinct(InsertAt(s, i, new))
         /\ NoOlder(s, InsertAt(s, i, new))
<1> DEFINE new == Record(id, sort, changes + 1, changes + 1)
           t == InsertAt(s, i, new)
<1>1. Rec(changes) \subseteq Rec(changes + 1) /\ new \in Rec(changes + 1)
  BY DEF Rec, Record
<1>2. s \in Seq(Rec(changes + 1))
  BY <1>1, SeqWider
<1>3. new.id = id /\ new.stamp = changes + 1
  BY DEF Record
<1>4. \A j \in 1..Len(s) : s[j].id # id
  BY DEF Range
<1> HIDE DEF new
<1>5. /\ t \in Seq(Rec(changes + 1)) /\ Len(t) = Len(s) + 1
      /\ \A j \in 1..(Len(s) + 1) : t[j] = IF j < i THEN s[j] ELSE IF j = i THEN new ELSE s[j - 1]
  BY <1>1, <1>2, InsertAtFacts
<1> HIDE DEF t
<1>6. Distinct(t)
  <2> SUFFICES ASSUME NEW j \in 1..Len(t), NEW k \in 1..Len(t), t[j].id = t[k].id
               PROVE  j = k
    BY DEF Distinct
  <2> DEFINE old(m) == IF m < i THEN m ELSE m - 1
  <2>1. \A m \in 1..Len(t) : m # i => old(m) \in 1..Len(s) /\ t[m] = s[old(m)]
    BY <1>5
  <2>2. CASE j # i /\ k # i
    <3>1. old(j) = old(k)
      <4> HIDE DEF old
      <4>1. old(j) \in 1..Len(s) /\ old(k) \in 1..Len(s) /\ s[old(j)].id = s[old(k)].id
        BY <2>1, <2>2
      <4> QED
        BY <4>1 DEF Distinct
    <3>2. j \in Int /\ k \in Int /\ i \in Int
      BY <1>5
    <3>3. j < i <=> k < i
      BY <2>2, <3>1, <3>2
    <3> QED
      BY <3>1, <3>2, <3>3
  <2>3. \A m \in 1..Len(t) : m # i => t[m].id # id
    <3> HIDE DEF old
    <3> QED
      BY <1>4, <2>1
  <2>4. i \in 1..Len(t) /\ t[i].id = id
    BY <1>3, <1>5
  <2> QED
    BY <2>2, <2>3, <2>4
<1>7. NoOlder(s, t)
  <2> SUFFICES ASSUME NEW r \in Range(t)
               PROVE  r.stamp = changes + 1 \/ r \in Range(s)
    BY DEF NoOlder
  <2>1. PICK j \in 1..Len(t) : r = t[j]
    BY <1>5 DEF Range
  <2>2. CASE j = i
    BY <1>3, <1>5, <2>1, <2>2
  <2>3. CASE j # i
    <3>1. j \in 1..(Len(s) + 1) /\ Len(s) \in Nat /\ i \in 1..(Len(s) + 1)
      BY <1>5
    <3>2. \E m \in 1..Len(s) : r = s[m]
      <4>1. CASE j < i
        <5>1. r = s[j] /\ j \in 1..Len(s)
          BY <1>5, <2>1, <3>1, <4>1
        <5> QED
          BY <5>1
      <4>2. CASE j > i
        <5>1. r = s[j - 1] /\ j - 1 \in 1..Len(s)
          BY <1>5, <2>1, <3>1, <4>2
        <5> QED
          BY <5>1
      <4> QED
        BY <2>3, <3>1, <4>1, <4>2
    <3> QED
      BY <3>2 DEF Range
  <2> QED
    BY <2>2, <2>3
<1> QED
  BY <1>5, <1>6, <1>7 DEF new, t

\* One goes.
LEMMA RemoveKeeps ==
  ASSUME changes \in Nat, NEW s \in Seq(Rec(changes)), Distinct(s), NEW i \in 1..Len(s)
  PROVE  /\ RemoveAt(s, i) \in Seq(Rec(changes + 1))
         /\ Distinct(RemoveAt(s, i))
         /\ NoOlder(s, RemoveAt(s, i))
         /\ s[i].id \notin {r.id : r \in Range(RemoveAt(s, i))}
<1> DEFINE t == RemoveAt(s, i)
           old(m) == IF m < i THEN m ELSE m + 1
<1>1. Rec(changes) \subseteq Rec(changes + 1)
  BY DEF Rec
<1>2. s \in Seq(Rec(changes + 1))
  BY <1>1, SeqWider
<1>3. /\ t \in Seq(Rec(changes + 1)) /\ Len(t) = Len(s) - 1
      /\ \A j \in 1..(Len(s) - 1) : t[j] = IF j < i THEN s[j] ELSE s[j + 1]
  BY <1>2, RemoveAtFacts
<1> HIDE DEF t
<1>4. \A m \in 1..Len(t) : old(m) \in 1..Len(s) /\ old(m) # i /\ t[m] = s[old(m)]
  BY <1>3
<1>5. Distinct(t)
  <2> SUFFICES ASSUME NEW j \in 1..Len(t), NEW k \in 1..Len(t), t[j].id = t[k].id
               PROVE  j = k
    BY DEF Distinct
  <2>1. old(j) = old(k)
    BY <1>4 DEF Distinct
  <2> QED
    BY <2>1
<1> HIDE DEF old
<1>6. \A r \in Range(t) : \E m \in 1..Len(s) : m # i /\ r = s[m]
  BY <1>3, <1>4 DEF Range
<1>7. NoOlder(s, t)
  <2> SUFFICES ASSUME NEW r \in Range(t) PROVE r \in Range(s)
    BY DEF NoOlder
  <2>1. PICK m \in 1..Len(s) : r = s[m]
    BY <1>6
  <2> QED
    BY <2>1 DEF Range
<1>8. s[i].id \notin {r.id : r \in Range(t)}
  BY <1>6 DEF Distinct
<1> QED
  BY <1>3, <1>5, <1>7, <1>8 DEF t

\* One changes in its place.
LEMMA EditKeeps ==
  ASSUME changes \in Nat, NEW s \in Seq(Rec(changes)), Distinct(s), NEW i \in 1..Len(s),
         NEW sort \in AnySort, NEW stamp \in {s[i].stamp, changes + 1}
  PROVE  LET new == Record(s[i].id, sort, changes + 1, stamp)
             t == [s EXCEPT ![i] = new]
         IN t \in Seq(Rec(changes + 1)) /\ Distinct(t) /\ NoOlder(s, t)
<1> DEFINE new == Record(s[i].id, sort, changes + 1, stamp)
           t == [s EXCEPT ![i] = new]
<1>1. s[i] \in Rec(changes)
  OBVIOUS
<1>2. Rec(changes) \subseteq Rec(changes + 1) /\ new \in Rec(changes + 1)
  BY <1>1 DEF Rec, Record
<1>3. s \in Seq(Rec(changes + 1))
  BY <1>2, SeqWider
<1>4. new.id = s[i].id /\ new.stamp = stamp /\ new.ver = changes + 1
  BY DEF Record
<1> HIDE DEF new
<1>5. /\ t \in Seq(Rec(changes + 1)) /\ Len(t) = Len(s)
      /\ \A j \in 1..Len(s) : t[j] = IF j = i THEN new ELSE s[j]
  BY <1>2, <1>3
<1> HIDE DEF t
<1>6. Distinct(t)
  BY <1>4, <1>5 DEF Distinct
<1>7. NoOlder(s, t)
  <2> SUFFICES ASSUME NEW r \in Range(t) PROVE
         \/ r.stamp = changes + 1
         \/ \E o \in Range(s) : o.id = r.id /\ o.stamp = r.stamp /\ (o = r \/ r.ver = changes + 1)
    BY DEF NoOlder
  <2>1. PICK j \in 1..Len(s) : r = t[j]
    BY <1>5 DEF Range
  <2>2. s[j] \in Range(s)
    BY DEF Range
  <2> QED
    BY <1>4, <1>5, <2>1, <2>2
<1> QED
  BY <1>5, <1>6, <1>7 DEF new, t

\* In the search it moves to the first.
LEMMA MoveKeeps ==
  ASSUME changes \in Nat, NEW s \in Seq(Rec(changes)), Distinct(s), NEW i \in 1..Len(s),
         NEW sort \in AnySort
  PROVE  LET new == Record(s[i].id, sort, changes + 1, changes + 1)
             t == <<new>> \o RemoveAt(s, i)
         IN t \in Seq(Rec(changes + 1)) /\ Distinct(t) /\ NoOlder(s, t)
<1> DEFINE new == Record(s[i].id, sort, changes + 1, changes + 1)
           u == RemoveAt(s, i)
           v == <<new>>
           t == v \o u
<1>1. s[i] \in Rec(changes)
  OBVIOUS
<1>2. new \in Rec(changes + 1)
  BY <1>1 DEF Rec, Record
<1>3. new.id = s[i].id /\ new.stamp = changes + 1
  BY DEF Record
<1> HIDE DEF new
<1>4. /\ u \in Seq(Rec(changes + 1)) /\ Distinct(u) /\ NoOlder(s, u)
      /\ s[i].id \notin {r.id : r \in Range(u)}
  BY RemoveKeeps
<1>5. v \in Seq(Rec(changes + 1)) /\ Len(v) = 1 /\ v[1] = new
  BY <1>2
<1> HIDE DEF u, v
<1>6. /\ t \in Seq(Rec(changes + 1)) /\ Len(t) = Len(u) + 1
      /\ \A j \in 1..(Len(u) + 1) : t[j] = IF j <= 1 THEN new ELSE u[j - 1]
  <2>1. /\ t \in Seq(Rec(changes + 1)) /\ Len(t) = Len(v) + Len(u)
        /\ \A j \in 1..(Len(v) + Len(u)) : t[j] = IF j <= Len(v) THEN v[j] ELSE u[j - Len(v)]
    BY <1>4, <1>5, ConcatFacts
  <2> HIDE DEF t
  <2> QED
    BY <1>4, <1>5, <2>1
<1> HIDE DEF t
<1>7. \A j \in 1..Len(u) : u[j].id # new.id /\ u[j] \in Range(u)
  BY <1>3, <1>4 DEF Range
<1>8. Distinct(t)
  <2> SUFFICES ASSUME NEW j \in 1..Len(t), NEW k \in 1..Len(t), t[j].id = t[k].id
               PROVE  j = k
    BY DEF Distinct
  <2>1. CASE j > 1 /\ k > 1
    <3>1. j - 1 \in 1..Len(u) /\ k - 1 \in 1..Len(u) /\ t[j] = u[j - 1] /\ t[k] = u[k - 1]
      BY <1>4, <1>6, <2>1
    <3>2. j - 1 = k - 1
      BY <1>4, <3>1 DEF Distinct
    <3>3. j \in Int /\ k \in Int
      BY <1>6
    <3> QED
      BY <3>2, <3>3
  <2>2. CASE j <= 1
    <3>1. CASE k <= 1
      BY <1>6, <2>2, <3>1
    <3>2. CASE ~(k <= 1)
      <4>1. k - 1 \in 1..Len(u) /\ t[k] = u[k - 1] /\ t[j] = new
        BY <1>4, <1>6, <2>2, <3>2
      <4> QED
        BY <1>7, <4>1
    <3> QED
      BY <3>1, <3>2
  <2>3. CASE j > 1 /\ k <= 1
    <3>1. j - 1 \in 1..Len(u) /\ t[j] = u[j - 1] /\ t[k] = new
      BY <1>4, <1>6, <2>3
    <3> QED
      BY <1>7, <3>1
  <2>4. j \in Int /\ k \in Int
    BY <1>6
  <2> QED
    BY <2>1, <2>2, <2>3, <2>4
<1>9. NoOlder(s, t)
  <2>1. \A r \in Range(t) : r = new \/ r \in Range(u)
    BY <1>4, <1>6, <1>7 DEF Range
  <2> QED
    BY <1>3, <1>4, <2>1 DEF NoOlder
<1> QED
  BY <1>6, <1>8, <1>9 DEF t, u, v, new

\* The service changes one listing, which stays well formed.
LEMMA ServiceFacts ==
  ASSUME ListsOK, kind \in Kinds, ServiceStep
  PROVE  \E e \in Used, list \in Seq(Rec(changes + 1)) :
           /\ \E left, moved : Change(e, list, left, moved)
           /\ Distinct(list) /\ NoOlder(listing[e], list)
<1> DEFINE Good(e) == \E list \in Seq(Rec(changes + 1)) :
                        /\ \E left, moved : Change(e, list, left, moved)
                        /\ Distinct(list) /\ NoOlder(listing[e], list)
<1>0. changes \in Nat /\ Sorts \subseteq AnySort /\ Used \subseteq Endpoints
  BY SourcesAssumption DEF ListsOK, Sorts, AnySort, Used, Endpoints
<1>1. PICK e \in Used :
        \/ \E id \in Ids, sort \in Sorts, pos \in 1..(Len(listing[e]) + 1) :
             Appear(e, id, sort, pos)
        \/ \E pos \in 1..Len(listing[e]) :
             \/ Disappear(e, pos)
             \/ \E sort \in Sorts, stamp \in 0..MaxChanges : Edit(e, pos, sort, stamp)
  BY DEF ServiceStep
<1>2. listing[e] \in Seq(Rec(changes)) /\ Distinct(listing[e])
  BY <1>0 DEF ListsOK
<1>3. ASSUME NEW id \in Ids, NEW sort \in Sorts, NEW pos \in 1..(Len(listing[e]) + 1),
             Appear(e, id, sort, pos)
      PROVE  Good(e)
  <2> DEFINE list == InsertAt(listing[e], pos, Record(id, sort, changes + 1, changes + 1))
  <2>1. id \notin {r.id : r \in Range(listing[e])} /\ Change(e, list, {}, FALSE)
    BY <1>3 DEF Appear, IdsOf, Listed
  <2>2. list \in Seq(Rec(changes + 1)) /\ Distinct(list) /\ NoOlder(listing[e], list)
    BY <1>0, <1>2, <2>1, InsertKeeps
  <2> HIDE DEF list
  <2> QED
    BY <2>1, <2>2
<1>4. ASSUME NEW pos \in 1..Len(listing[e]), Disappear(e, pos)
      PROVE  Good(e)
  <2> DEFINE list == RemoveAt(listing[e], pos)
  <2>1. \E left : Change(e, list, left, TRUE)
    BY <1>4 DEF Disappear
  <2>2. list \in Seq(Rec(changes + 1)) /\ Distinct(list) /\ NoOlder(listing[e], list)
    BY <1>0, <1>2, RemoveKeeps
  <2> HIDE DEF list
  <2> QED
    BY <2>1, <2>2
<1>5. ASSUME NEW pos \in 1..Len(listing[e]), NEW sort \in Sorts, NEW stamp,
             Edit(e, pos, sort, stamp)
      PROVE  Good(e)
  <2> DEFINE new == Record(listing[e][pos].id, sort, changes + 1, stamp)
  <2>1. CASE kind = "search"
    <3> DEFINE list == <<new>> \o RemoveAt(listing[e], pos)
    <3>1. stamp = changes + 1 /\ \E left, moved : Change(e, list, left, moved)
      BY <1>5, <2>1 DEF Edit
    <3>2. list \in Seq(Rec(changes + 1)) /\ Distinct(list) /\ NoOlder(listing[e], list)
      BY <1>0, <1>2, <3>1, MoveKeeps
    <3> HIDE DEF list
    <3> QED
      BY <3>1, <3>2
  <2>2. CASE kind # "search"
    <3> DEFINE list == [listing[e] EXCEPT ![pos] = new]
    <3>1. /\ stamp \in {listing[e][pos].stamp, changes + 1}
          /\ \E left, moved : Change(e, list, left, moved)
      BY <1>5, <2>2 DEF Edit
    <3>2. list \in Seq(Rec(changes + 1)) /\ Distinct(list) /\ NoOlder(listing[e], list)
      BY <1>0, <1>2, <3>1, EditKeeps
    <3> HIDE DEF list
    <3> QED
      BY <3>1, <3>2
  <2> QED
    BY <2>1, <2>2
<1> HIDE DEF Good
<1>6. Good(e)
  BY <1>1, <1>3, <1>4, <1>5
<1> QED
  BY <1>6 DEF Good

\* So the listings stay well formed.
LEMMA ListsStep ==
  ASSUME ListsOK, kind \in Kinds, ServiceStep
  PROVE  ListsOK'
<1>1. PICK e \in Used, list \in Seq(Rec(changes + 1)) :
        (\E left, moved : Change(e, list, left, moved)) /\ Distinct(list)
  BY ServiceFacts
<1>2. /\ changes < MaxChanges /\ changes' = changes + 1
      /\ listing' = [listing EXCEPT ![e] = list]
  BY <1>1 DEF Change
<1>3. Rec(changes) \subseteq Rec(changes + 1) /\ e \in Endpoints
  BY SourcesAssumption DEF ListsOK, Rec, Used, Endpoints
<1>4. changes' \in 0..MaxChanges /\ DOMAIN listing' = Endpoints
  BY <1>2, SourcesAssumption DEF ListsOK
<1>5. ASSUME NEW f \in Endpoints
      PROVE  listing'[f] \in Seq(Rec(changes + 1)) /\ Distinct(listing'[f])
  <2>1. CASE f = e
    BY <1>1, <1>2, <1>3, <2>1 DEF ListsOK
  <2>2. CASE f # e
    <3>1. listing'[f] = listing[f] /\ listing[f] \in Seq(Rec(changes)) /\ Distinct(listing[f])
      BY <1>2, <2>2 DEF ListsOK
    <3> QED
      BY <1>3, <3>1, SeqWider
  <2> QED
    BY <2>1, <2>2
<1>6. (\A f \in Endpoints : listing[f] \in Seq(Rec(changes)) /\ Distinct(listing[f]))'
  BY <1>2, <1>5 DEF Distinct, Rec
<1> QED
  BY <1>4, <1>6 DEF ListsOK

-----------------------------------------------------------------------------
(* Observations *)

\* There are none in Nothing.
LEMMA NothingFacts == DOMAIN Nothing = {} /\ IsObservations(Nothing)
<1>1. DOMAIN Nothing = {}
  BY DEF Nothing
<1> QED
  BY <1>1 DEF IsObservations

\* The observations of a set of records are among them, one for each plugin.
LEMMA ObservationsFacts ==
  ASSUME NEW R
  PROVE  /\ DOMAIN Observations(R) = {r.id : r \in Plugins(R)}
         /\ \A i \in DOMAIN Observations(R) :
              /\ Observations(R)[i] \in Plugins(R) /\ Observations(R)[i] \in R
              /\ Observations(R)[i].id = i
         /\ Observations(R) = [i \in DOMAIN Observations(R) |-> Observations(R)[i]]
<1>1. DOMAIN Observations(R) = {r.id : r \in Plugins(R)}
  BY DEF Observations
<1>2. ASSUME NEW i \in {r.id : r \in Plugins(R)}
      PROVE  Observations(R)[i] \in Plugins(R) /\ Observations(R)[i].id = i
  <2>1. \E r \in Plugins(R) : r.id = i
    OBVIOUS
  <2>2. Observations(R)[i] = CHOOSE r \in Plugins(R) : r.id = i
    BY DEF Observations
  <2> QED
    BY <2>1, <2>2
<1>3. Plugins(R) \subseteq R
  BY DEF Plugins
<1>4. Observations(R) = [i \in DOMAIN Observations(R) |-> Observations(R)[i]]
  BY DEF Observations
<1> QED
  BY <1>1, <1>2, <1>3, <1>4

\* They are well typed.
LEMMA ObservationsTyped ==
  ASSUME NEW R, R \subseteq Records
  PROVE  IsObservations(Observations(R))
<1>1. Plugins(R) \subseteq Plugins(Records) /\ \A r \in Plugins(R) : r.id \in Ids
  BY DEF Plugins, Records
<1> QED
  BY <1>1, ObservationsFacts DEF IsObservations

\* So are those of two sources put over each other.
LEMMA OverFacts ==
  ASSUME NEW f, NEW g
  PROVE  /\ DOMAIN Over(f, g) = DOMAIN f \cup DOMAIN g
         /\ \A i \in DOMAIN f \cup DOMAIN g : Over(f, g)[i] = IF i \in DOMAIN f THEN f[i] ELSE g[i]
         /\ IsObservations(f) /\ IsObservations(g) => IsObservations(Over(f, g))
  BY DEF Over, IsObservations

\* Two functions of this kind that agree are equal.
LEMMA OverEqual ==
  ASSUME NEW f, NEW g, NEW h, NEW k, DOMAIN f \cup DOMAIN g = DOMAIN h \cup DOMAIN k,
         \A i \in DOMAIN f \cup DOMAIN g : Over(f, g)[i] = Over(h, k)[i]
  PROVE  Over(f, g) = Over(h, k)
  BY DEF Over

\* Nothing adds nothing.
LEMMA OverNothing ==
  ASSUME NEW R, NEW f, DOMAIN f = {}
  PROVE  Over(f, Observations(R)) = Observations(R) /\ Over(Observations(R), f) = Observations(R)
<1>1. Observations(R) = [i \in DOMAIN Observations(R) |-> Observations(R)[i]]
  BY ObservationsFacts
<1> HIDE DEF Observations
<1> QED
  BY <1>1 DEF Over

\* A page is a part of the listing.
LEMMA PageFacts ==
  ASSUME ListsOK, NEW e \in Endpoints, NEW n \in Nat \ {0}
  PROVE  Range(Page(e, n)) \subseteq Listed(e) /\ Listed(e) \subseteq Records
<1> DEFINE s == listing[e]
           a == (n - 1) * PerPage + 1
           b == IF n * PerPage <= Len(s) THEN n * PerPage ELSE Len(s)
<1>1. s \in Seq(Rec(changes)) /\ Len(s) \in Nat
  BY DEF ListsOK
<1>2. Listed(e) = {s[j] : j \in 1..Len(s)}
  BY <1>1 DEF Listed, Range
<1>3. Listed(e) \subseteq Records
  <2>1. Rec(changes) \subseteq Records
    BY SourcesAssumption DEF Rec, Records, AnySort, ListsOK
  <2> QED
    BY <1>1, <1>2, <2>1
<1>4. CASE kind = "market"
  BY <1>3, <1>4 DEF Page, Listed
<1>5. CASE kind # "market"
  <2>1. Page(e, n) = SubSeq(s, a, b)
    BY <1>5 DEF Page
  <2>2. a \in Nat /\ a >= 1 /\ b \in Nat /\ b <= Len(s)
    <3>1. (n - 1) * PerPage \in Nat /\ n * PerPage \in Nat
      BY SourcesAssumption
    <3> HIDE DEF s
    <3> QED
      BY <1>1, <3>1
  <2> HIDE DEF s, a, b
  <2>3. CASE a <= b + 1
    <3>1. /\ Len(SubSeq(s, a, b)) = b - a + 1 /\ SubSeq(s, a, b) \in Seq(Rec(changes))
          /\ \A j \in 1..(b - a + 1) : SubSeq(s, a, b)[j] = s[a + j - 1]
      BY <1>1, <2>2, <2>3, SubSeqFacts
    <3>2. \A j \in 1..(b - a + 1) : a + j - 1 \in 1..Len(s)
      BY <1>1, <2>2
    <3>3. ASSUME NEW r \in Range(SubSeq(s, a, b)) PROVE r \in Listed(e)
      <4>1. PICK j \in 1..(b - a + 1) : r = s[a + j - 1]
        BY <3>1 DEF Range
      <4> QED
        BY <1>2, <3>2, <4>1
    <3> QED
      BY <1>3, <2>1, <3>3
  <2>4. CASE ~(a <= b + 1)
    <3>1. SubSeq(s, a, b) = <<>>
      BY <1>1, <2>2, <2>4
    <3>2. Range(<<>>) = {}
      BY DEF Range
    <3> QED
      BY <1>3, <2>1, <3>1, <3>2
  <2> QED
    BY <2>3, <2>4
<1> QED
  BY <1>4, <1>5

-----------------------------------------------------------------------------
(* The inductive invariant *)

\* How far a fetch is; while nothing has spoilt it, what it holds is what the
\* answers said last.
Readings ==
  /\ page \in 0..MaxPages /\ at \in Used
  /\ kind = "market" => page <= 1
  /\ page # 0 => outcome = "none"
  /\ page <= 1 => got = Nothing /\ sound = TRUE
  /\ page = 1 => shown = Nothing
  /\ page # 0 /\ sound => got = shown

\* An issue that was read has not become older since: of two versions of it the one
\* that was read last is the later, or they are of one second.
Stamped ==
  kind = "issues" /\ page # 0 =>
    \A i \in DOMAIN got :
      /\ got[i].stamp \in 0..changes
      /\ \A r \in Listed(at) : r.id = i => got[i].stamp <= r.stamp

\* A snapshot of one page was made of the first page that its ETag stands for.
Snapshots ==
  /\ DOMAIN saved = Endpoints
  /\ \A e \in Endpoints :
       saved[e].pages = 1 => saved[e].obs = Observations(Range(saved[e].etag.body))

Known == TypeOK /\ ListsOK /\ Readings /\ Stamped /\ Snapshots /\ Grounded

\* A complete result that is what the answers of its fetch said keeps it.
LEMMA CompleteStep ==
  ASSUME Known, NEW obs, NEW pages \in 0..MaxPages, NEW tag,
         Complete(obs, pages, tag, obs), IsObservations(obs),
         PagesKept(pages) = 1 => obs = Observations(Range(tag.body)),
         UNCHANGED <<kind, service, faults>>
  PROVE  Known'
<1>0. /\ TypeOK /\ ListsOK /\ Readings /\ Snapshots /\ at \in Endpoints /\ MaxPages \in Nat \ {0}
      /\ UNCHANGED <<kind, listing, changes>>
  BY SourcesAssumption DEF Known, Readings, Used, Endpoints, service
<1>1. /\ page' = 0 /\ at' = Main /\ got' = Nothing /\ sound' = TRUE
      /\ heard' = obs /\ shown' = obs /\ outcome' = "whole" /\ UNCHANGED <<kept, shifted>>
  BY DEF Complete, ClearReading
<1>2. /\ DOMAIN saved' = Endpoints
      /\ saved'[at] = [pages |-> PagesKept(pages), etag |-> tag, obs |-> obs]
      /\ \A e \in Endpoints \ {at} : saved'[e] = saved[e]
  BY <1>0 DEF Complete, Snapshots
<1>3. PagesKept(pages) \in 1..MaxPages
  BY <1>0 DEF PagesKept
<1>4. Snapshots'
  BY <1>0, <1>2 DEF Snapshots
<1>5. TypeOK'
  <2>1. ASSUME NEW e \in Endpoints
        PROVE  /\ saved'[e].pages \in 0..MaxPages
               /\ IsObservations(saved'[e].obs)
               /\ saved'[e].pages = 0 <=> saved'[e] = NoSnapshot
    <3>1. CASE e = at
      BY <1>2, <1>3, <3>1 DEF NoSnapshot
    <3>2. CASE e # at
      BY <1>0, <1>2, <3>2 DEF TypeOK
    <3> QED
      BY <3>1, <3>2
  <2>2. \A e \in Endpoints : /\ Listed(e)' \subseteq Records
                             /\ Cardinality(IdsOf(e)') = Len(listing'[e])
    BY <1>0 DEF TypeOK, Listed, IdsOf
  <2>3. /\ kind' \in Kinds /\ at' \in Used' /\ shifted' \in BOOLEAN /\ kept' \subseteq Ids
        /\ page' \in 0..MaxPages
    BY <1>0, <1>1 DEF TypeOK, Used, Main, Endpoints
  <2>4. IsObservations(heard') /\ IsObservations(got') /\ IsObservations(shown')
    BY <1>1, NothingFacts
  <2> QED
    BY <1>1, <2>1, <2>2, <2>3, <2>4 DEF TypeOK, IsObservations
<1>6. ListsOK'
  BY <1>0 DEF ListsOK, Distinct, Rec
<1>7. Readings' /\ Stamped' /\ Grounded'
  BY <1>0, <1>1 DEF Readings, Stamped, Grounded, Used, Main, Endpoints
<1> QED
  BY <1>4, <1>5, <1>6, <1>7 DEF Known

\* A step that leaves the listings and the state alone keeps it if it keeps what is
\* said of the reading.
LEMMA ReadingStep ==
  ASSUME Known, UNCHANGED <<kind, listing, changes, saved, heard>>,
         Readings', Stamped', Grounded',
         IsObservations(got'), IsObservations(shown'),
         sound' \in BOOLEAN, shifted' \in BOOLEAN, kept' \subseteq Ids,
         outcome' \in {"none", "whole", "partial"}
  PROVE  Known'
<1>1. \A e \in Endpoints : Listed(e)' = Listed(e) /\ IdsOf(e)' = IdsOf(e)
  BY DEF Listed, IdsOf
<1>2. TypeOK'
  BY <1>1 DEF Known, TypeOK, Readings, IsObservations
<1>3. ListsOK' /\ Snapshots'
  BY DEF Known, ListsOK, Distinct, Rec, Snapshots
<1> QED
  BY <1>2, <1>3 DEF Known

\* The end of a fetch without a complete result is such a step.
LEMMA PartialStep ==
  ASSUME Known, Partial, UNCHANGED <<kind, service>>
  PROVE  Known'
<1>1. /\ page' = 0 /\ at' = Main /\ got' = Nothing /\ sound' = TRUE /\ outcome' = "partial"
      /\ shown' = Nothing /\ kept' = {} /\ shifted' = FALSE
      /\ UNCHANGED <<kind, listing, changes, saved, heard>>
  BY DEF Partial, KeepOld, ClearReading, service, store
<1>2. Readings' /\ Stamped' /\ Grounded'
  BY <1>1, SourcesAssumption DEF Readings, Stamped, Grounded, Used, Endpoints
<1> QED
  BY <1>1, <1>2, NothingFacts, ReadingStep DEF IsObservations

\* So is the request for a first page.
LEMMA AskStep ==
  ASSUME Known, NEW e \in Used, Ask(e), UNCHANGED <<kind, service, store>>
  PROVE  Known'
<1>1. /\ page' = 1 /\ at' = e /\ got' = Nothing /\ sound' = TRUE /\ outcome' = "none"
      /\ shown' = Nothing /\ shifted' = FALSE
      /\ kept' = DOMAIN Observations(Listed(e))
      /\ UNCHANGED <<kind, listing, changes, saved, heard>>
  BY DEF Ask, service, store
<1>2. Readings' /\ Stamped' /\ Grounded'
  BY <1>1, SourcesAssumption, NothingFacts DEF Readings, Stamped, Grounded, Used, Endpoints
<1>3. kept' \subseteq Ids
  <2>1. Listed(e) \subseteq Records
    BY DEF Known, TypeOK, Used, Endpoints
  <2> QED
    BY <1>1, <2>1, ObservationsTyped DEF IsObservations
<1> QED
  BY <1>1, <1>2, <1>3, NothingFacts, ReadingStep DEF IsObservations

\* So is a result that is not complete.
LEMMA IncompleteStep ==
  ASSUME Known, Incomplete, UNCHANGED <<kind, service>>
  PROVE  Known'
<1>1. CASE kind = "market" /\ at = Main
  BY <1>1, AskStep DEF Incomplete, Used, Endpoints
<1>2. CASE ~(kind = "market" /\ at = Main)
  BY <1>2, PartialStep DEF Incomplete
<1> QED
  BY <1>1, <1>2

\* So is a page that another one follows, if what is held is what was said.
LEMMA ReadOnStep ==
  ASSUME Known, page \in 1..(MaxPages - 1), kind # "market", UNCHANGED <<kind, service>>,
         NEW observed, NEW counted, NEW unspoilt \in BOOLEAN, NEW showing,
         ReadOn(observed, counted, unspoilt, showing),
         IsObservations(observed), IsObservations(showing), unspoilt => observed = showing,
         kind = "issues" =>
           \A i \in DOMAIN observed :
             /\ observed[i].stamp \in 0..changes
             /\ \A r \in Listed(at) : r.id = i => observed[i].stamp <= r.stamp
  PROVE  Known'
<1>1. /\ page' = page + 1 /\ got' = observed /\ sound' = unspoilt /\ shown' = showing
      /\ UNCHANGED <<kind, listing, changes, saved, heard, at, outcome, kept, shifted>>
  BY DEF ReadOn, service, store
<1>2. Readings'
  BY <1>1, SourcesAssumption DEF Known, Readings, Used
<1>3. Stamped'
  BY <1>1 DEF Stamped, Listed
<1>4. Grounded'
  BY <1>1 DEF Known, Readings, Grounded
<1> QED
  BY <1>1, <1>2, <1>3, <1>4, ReadingStep DEF Known, TypeOK

\* So is a change of a listing.
LEMMA ChangeStep ==
  ASSUME Known, ServiceStep
  PROVE  Known'
<1>0. /\ TypeOK /\ ListsOK /\ Readings /\ Stamped /\ Snapshots /\ Grounded /\ kind \in Kinds
      /\ changes \in Nat /\ at \in Endpoints
  BY SourcesAssumption DEF Known, TypeOK, ListsOK, Used, Endpoints
<1>1. PICK e \in Used, list \in Seq(Rec(changes + 1)) :
        /\ \E left, moved : Change(e, list, left, moved)
        /\ Distinct(list) /\ NoOlder(listing[e], list)
  BY <1>0, ServiceFacts
<1>2. PICK left, moved : Change(e, list, left, moved)
  BY <1>1
<1>3. /\ changes' = changes + 1 /\ listing' = [listing EXCEPT ![e] = list]
      /\ UNCHANGED <<kind, saved, heard, page, at, got, sound>>
      /\ page # 0 => UNCHANGED <<outcome, shown>>
      /\ page = 0 => outcome' = "none" /\ shown' = Nothing
      /\ kept' \subseteq kept
      /\ shifted' \in BOOLEAN
  BY <1>0, <1>2 DEF Change, reading, store, TypeOK, Nothing
<1>4. ListsOK'
  BY <1>0, ListsStep
<1>5. ASSUME NEW f \in Endpoints
      PROVE  /\ Listed(f)' \subseteq Records
             /\ Cardinality(IdsOf(f)') = Len(listing'[f])
  <2>1. listing'[f] \in Seq(Rec(changes + 1)) /\ Distinct(listing'[f])
    BY <1>3, <1>4 DEF ListsOK, Rec, Distinct
  <2>2. Rec(changes + 1) \subseteq Records
    BY <1>3, <1>4, SourcesAssumption DEF ListsOK, Rec, Records, AnySort
  <2>3. Listed(f)' = Range(listing'[f]) /\ IdsOf(f)' = {r.id : r \in Range(listing'[f])}
    BY DEF Listed, IdsOf
  <2>4. Range(listing'[f]) \subseteq Rec(changes + 1)
    BY <2>1 DEF Range
  <2> QED
    BY <2>1, <2>2, <2>3, <2>4, DistinctCount
<1>6. TypeOK'
  <2>1. IsObservations(shown') /\ outcome' \in {"none", "whole", "partial"}
    BY <1>0, <1>3, NothingFacts DEF TypeOK
  <2> QED
    BY <1>0, <1>3, <1>5, <2>1 DEF TypeOK, Used, IsObservations, NoSnapshot
<1>7. Readings'
  BY <1>0, <1>3 DEF Readings, Used
<1>8. Snapshots' /\ Grounded'
  BY <1>0, <1>3 DEF Snapshots, Grounded, Readings
<1>9. Stamped'
  <2> SUFFICES ASSUME kind = "issues", page # 0, NEW i \in DOMAIN got
               PROVE  /\ got[i].stamp \in 0..(changes + 1)
                      /\ \A r \in Listed(at)' : r.id = i => got[i].stamp <= r.stamp
    BY <1>3 DEF Stamped
  <2>1. got[i].stamp \in 0..changes /\ \A r \in Listed(at) : r.id = i => got[i].stamp <= r.stamp
    BY <1>0 DEF Stamped
  <2>2. CASE at = e
    <3>1. Listed(at)' = Range(list) /\ Listed(at) = Range(listing[e])
      BY <1>0, <1>3, <2>2 DEF ListsOK, Listed
    <3>2. ASSUME NEW r \in Range(list), r.id = i PROVE got[i].stamp <= r.stamp
      BY <1>0, <1>1, <2>1, <3>1, <3>2 DEF NoOlder
    <3> QED
      BY <1>0, <2>1, <3>1, <3>2
  <2>3. CASE at # e
    <3>1. Listed(at)' = Listed(at)
      BY <1>0, <1>3, <2>3 DEF ListsOK, Listed
    <3> QED
      BY <1>0, <2>1, <3>1
  <2> QED
    BY <2>2, <2>3
<1> QED
  BY <1>4, <1>6, <1>7, <1>8, <1>9 DEF Known

\* What a page of the listing says is well typed, and is of the listing as it is.
LEMMA PageTyped ==
  ASSUME Known, page # 0
  PROVE  LET body == Range(Page(at, page))
             new == Observations(body)
         IN /\ IsObservations(new) /\ IsObservations(Over(new, shown))
            /\ \A i \in DOMAIN new : new[i] \in Listed(at) /\ new[i].id = i
            /\ page = 1 => Over(new, shown) = new
<1> DEFINE body == Range(Page(at, page))
           new == Observations(body)
<1>0. ListsOK /\ at \in Endpoints /\ page \in Nat \ {0}
  BY SourcesAssumption DEF Known, TypeOK, Used, Endpoints
<1>1. body \subseteq Listed(at) /\ Listed(at) \subseteq Records
  BY <1>0, PageFacts
<1>2. IsObservations(new)
  BY <1>1, ObservationsTyped
<1>3. IsObservations(Over(new, shown))
  BY <1>2, OverFacts DEF Known, TypeOK
<1>4. \A i \in DOMAIN new : new[i] \in Listed(at) /\ new[i].id = i
  BY <1>1, ObservationsFacts
<1>5. page = 1 => Over(new, shown) = new
  <2>1. page = 1 => DOMAIN shown = {}
    BY NothingFacts DEF Known, Readings
  <2> QED
    BY <2>1, OverNothing
<1> QED
  BY <1>2, <1>3, <1>4, <1>5

\* Of an issue that comes again its later version is kept, which is the one that was
\* read last.
LEMMA IssuesRead ==
  ASSUME Known, kind = "issues", page # 0
  PROVE  LET body == Range(Page(at, page))
             new == Observations(body)
             again == DOMAIN new \cap DOMAIN got
             observed == Over([i \in again |-> SelectDuplicate(got[i], new[i])], Over(got, new))
         IN /\ IsObservations(observed)
            /\ \A i \in DOMAIN observed :
                 /\ observed[i].stamp \in 0..changes
                 /\ \A r \in Listed(at) : r.id = i => observed[i].stamp <= r.stamp
            /\ sound /\ ~(\E i \in again : Conflict(got[i], new[i])) => observed = Over(new, shown)
            /\ page = 1 => observed = new
<1> DEFINE body == Range(Page(at, page))
           new == Observations(body)
           again == DOMAIN new \cap DOMAIN got
           chosen == [i \in again |-> SelectDuplicate(got[i], new[i])]
           observed == Over(chosen, Over(got, new))
<1>0. /\ TypeOK /\ ListsOK /\ Readings /\ Stamped /\ at \in Endpoints /\ changes \in Nat
      /\ IsObservations(got) /\ IsObservations(shown)
  BY SourcesAssumption DEF Known, TypeOK, ListsOK, Used, Endpoints
<1>1. /\ IsObservations(new)
      /\ \A i \in DOMAIN new : new[i] \in Listed(at) /\ new[i].id = i
  BY PageTyped
<1>2. \A r \in Listed(at) : r.stamp \in 0..changes
  <2>1. listing[at] \in Seq(Rec(changes))
    BY <1>0 DEF ListsOK
  <2>2. Listed(at) \subseteq Rec(changes)
    BY <2>1 DEF Listed, Range
  <2> QED
    BY <2>2 DEF Rec
<1>3. \A r, o \in Listed(at) : r.id = o.id => r = o
  BY <1>0 DEF ListsOK, Listed, Range, Distinct
<1> HIDE DEF new
<1>4. \A i \in DOMAIN got : /\ got[i].stamp \in 0..changes
                           /\ \A r \in Listed(at) : r.id = i => got[i].stamp <= r.stamp
  BY <1>0 DEF Stamped
<1>5. IsObservations(chosen) /\ DOMAIN chosen = again
  BY <1>0, <1>1 DEF SelectDuplicate, IsObservations
<1>6. /\ DOMAIN observed = DOMAIN new \cup DOMAIN got
      /\ \A i \in again : observed[i] = SelectDuplicate(got[i], new[i])
      /\ \A i \in DOMAIN got \ DOMAIN new : observed[i] = got[i]
      /\ \A i \in DOMAIN new \ DOMAIN got : observed[i] = new[i]
      /\ IsObservations(observed)
  <2>1. /\ DOMAIN Over(got, new) = DOMAIN got \cup DOMAIN new
        /\ \A i \in DOMAIN got \cup DOMAIN new :
             Over(got, new)[i] = IF i \in DOMAIN got THEN got[i] ELSE new[i]
        /\ IsObservations(Over(got, new))
    BY <1>0, <1>1 DEF Over, IsObservations
  <2>2. /\ DOMAIN observed = again \cup (DOMAIN got \cup DOMAIN new)
        /\ \A i \in again \cup (DOMAIN got \cup DOMAIN new) :
             observed[i] = IF i \in again THEN chosen[i] ELSE Over(got, new)[i]
        /\ IsObservations(observed)
    BY <1>5, <2>1, OverFacts
  <2> HIDE DEF observed
  <2> QED
    BY <2>1, <2>2
<1>7. ASSUME NEW i \in DOMAIN observed
      PROVE  /\ observed[i].stamp \in 0..changes
             /\ \A r \in Listed(at) : r.id = i => observed[i].stamp <= r.stamp
  <2> HIDE DEF observed
  <2>1. observed[i] \in {got[i], new[i]} /\ (observed[i] = got[i] \/ i \in DOMAIN new)
    BY <1>6 DEF SelectDuplicate
  <2>2. CASE i \in DOMAIN got /\ observed[i] = got[i]
    BY <1>4, <2>2
  <2>3. CASE i \in DOMAIN new /\ observed[i] = new[i]
    BY <1>1, <1>2, <1>3, <2>3
  <2> QED
    BY <1>6, <2>1, <2>2, <2>3 DEF SelectDuplicate
<1>8. ASSUME sound, ~(\E i \in again : Conflict(got[i], new[i]))
      PROVE  observed = Over(new, shown)
  <2>1. got = shown
    BY <1>0, <1>8 DEF Readings
  <2>2. /\ DOMAIN Over(new, shown) = DOMAIN new \cup DOMAIN shown
        /\ \A i \in DOMAIN new \cup DOMAIN shown :
             Over(new, shown)[i] = IF i \in DOMAIN new THEN new[i] ELSE shown[i]
    BY DEF Over
  <2>3. ASSUME NEW i \in again PROVE observed[i] = new[i]
    <3>1. got[i].stamp <= new[i].stamp /\ got[i].stamp \in Nat /\ new[i].stamp \in Nat
      BY <1>1, <1>2, <1>4
    <3>2. ~(got[i] # new[i] /\ got[i].stamp = new[i].stamp)
      BY <1>8 DEF Conflict
    <3> QED
      BY <1>6, <3>1, <3>2 DEF SelectDuplicate
  <2>4. \A i \in DOMAIN new \cup DOMAIN shown : observed[i] = Over(new, shown)[i]
    <3> HIDE DEF observed
    <3> QED
      BY <1>6, <2>1, <2>2, <2>3
  <2>5. again \cup DOMAIN Over(got, new) = DOMAIN new \cup DOMAIN shown
    <3>1. DOMAIN Over(got, new) = DOMAIN got \cup DOMAIN new
      BY DEF Over
    <3> QED
      BY <2>1, <3>1
  <2> HIDE DEF again, chosen
  <2> QED
    BY <1>5, <2>4, <2>5, OverEqual
<1>9. page = 1 => observed = new
  <2> SUFFICES ASSUME page = 1 PROVE observed = new
    OBVIOUS
  <2>1. sound /\ DOMAIN got = {} /\ again = {}
    BY <1>0, NothingFacts DEF Readings
  <2>2. observed = Over(new, shown)
    BY <1>8, <2>1
  <2> QED
    BY <2>2, PageTyped DEF new
<1> QED
  BY <1>6, <1>7, <1>8, <1>9 DEF new

\* The ETag of a first page stands for it.
LEMMA TagOfPage == page = 1 => FirstTag.body = Page(at, page)
  BY DEF FirstTag, Tag

\* A page of issues keeps the invariant.
LEMMA IssuesStep == ASSUME Known, IssuesPage PROVE Known'
<1> DEFINE body == Range(Page(at, page))
           new == Observations(body)
           again == DOMAIN new \cap DOMAIN got
           observed == Over([i \in again |-> SelectDuplicate(got[i], new[i])], Over(got, new))
           unspoilt == sound /\ ~\E i \in again : Conflict(got[i], new[i])
           showing == Over(new, shown)
<1>1. kind = "issues" /\ page # 0 /\ page \in 0..MaxPages /\ MaxPages \in Nat
      /\ UNCHANGED <<kind, service, faults>>
  BY SourcesAssumption DEF IssuesPage, Answer, Known, Readings
<1>2. \/ Partial
      \/ unspoilt /\ Complete(observed, page, FirstTag, showing)
      \/ Incomplete
      \/ page < MaxPages /\ \E counted : ReadOn(observed, counted, unspoilt, showing)
  <2> HIDE DEF new, again, observed, unspoilt, showing
  <2> QED
    BY DEF IssuesPage, new, again, observed, unspoilt, showing
<1>3. IsObservations(showing) /\ (page = 1 => showing = new)
  BY <1>1, PageTyped
<1>4. /\ IsObservations(observed)
      /\ \A i \in DOMAIN observed :
           /\ observed[i].stamp \in 0..changes
           /\ \A r \in Listed(at) : r.id = i => observed[i].stamp <= r.stamp
      /\ unspoilt => observed = showing
      /\ page = 1 => observed = new
  BY <1>1, IssuesRead
<1>5. page = 1 => observed = Observations(Range(FirstTag.body))
  BY <1>4, TagOfPage
<1>6. unspoilt \in BOOLEAN
  OBVIOUS
<1> HIDE DEF observed, unspoilt, showing
<1>7. CASE Partial \/ Incomplete
  BY <1>1, <1>7, PartialStep, IncompleteStep
<1>8. CASE unspoilt /\ Complete(observed, page, FirstTag, showing)
  <2>1. Complete(observed, page, FirstTag, observed)
    BY <1>4, <1>8
  <2>2. PagesKept(page) = 1 => page = 1
    BY <1>1 DEF PagesKept
  <2> QED
    BY <1>1, <1>4, <1>5, <2>1, <2>2, CompleteStep
<1>9. CASE page < MaxPages /\ \E counted : ReadOn(observed, counted, unspoilt, showing)
  <2>1. page \in 1..(MaxPages - 1) /\ kind # "market"
    BY <1>1, <1>9
  <2> QED
    BY <1>1, <1>3, <1>4, <1>6, <1>9, <2>1, ReadOnStep
<1> QED
  BY <1>2, <1>7, <1>8, <1>9

\* So does a page of the search.
LEMMA SearchStep == ASSUME Known, SearchPage PROVE Known'
<1> DEFINE body == Range(Page(at, page))
           new == Observations(body)
           total == Len(listing[at])
           unspoilt == /\ sound
                       /\ SameTotal(total)
                       /\ \A r \in body : r.sort # "malformed"
                       /\ DOMAIN new \cap DOMAIN got = {}
           observed == Over(got, new)
           showing == Over(new, shown)
<1>1. kind = "search" /\ page # 0 /\ page \in 0..MaxPages /\ MaxPages \in Nat
      /\ UNCHANGED <<kind, service, faults>>
  BY SourcesAssumption DEF SearchPage, Answer, Known, Readings
<1>2. \/ unspoilt /\ Complete(observed, page, FirstTag, showing)
      \/ Incomplete
      \/ page # MaxPages /\ \E counted : ReadOn(observed, counted, unspoilt, showing)
  <2> HIDE DEF new, observed, unspoilt, showing
  <2> QED
    BY DEF SearchPage, new, observed, unspoilt, showing
<1>3. IsObservations(new) /\ IsObservations(showing) /\ (page = 1 => showing = new)
  BY <1>1, PageTyped
<1>4. IsObservations(observed)
  BY <1>3, OverFacts DEF Known, TypeOK
<1>5. unspoilt => observed = showing
  <2> SUFFICES ASSUME unspoilt PROVE observed = showing
    OBVIOUS
  <2>1. got = shown
    BY <1>1 DEF Known, Readings
  <2>2. DOMAIN new \cap DOMAIN got = {}
    OBVIOUS
  <2> HIDE DEF new
  <2> QED
    BY <2>1, <2>2 DEF Over
<1>6. page = 1 => observed = Observations(Range(FirstTag.body))
  <2>1. page = 1 => DOMAIN got = {}
    BY NothingFacts DEF Known, Readings
  <2> QED
    BY <2>1, OverNothing, TagOfPage
<1>7. unspoilt \in BOOLEAN
  OBVIOUS
<1> HIDE DEF observed, unspoilt, showing
<1>8. CASE Incomplete
  BY <1>1, <1>8, IncompleteStep
<1>9. CASE unspoilt /\ Complete(observed, page, FirstTag, showing)
  <2>1. Complete(observed, page, FirstTag, observed)
    BY <1>5, <1>9
  <2>2. PagesKept(page) = 1 => page = 1
    BY <1>1 DEF PagesKept
  <2> QED
    BY <1>1, <1>4, <1>6, <2>1, <2>2, CompleteStep
<1>10. CASE page # MaxPages /\ \E counted : ReadOn(observed, counted, unspoilt, showing)
  <2>1. page \in 1..(MaxPages - 1) /\ kind # "market" /\ kind # "issues"
    BY <1>1, <1>10
  <2> QED
    BY <1>1, <1>3, <1>4, <1>5, <1>7, <1>10, <2>1, ReadOnStep
<1> QED
  BY <1>2, <1>8, <1>9, <1>10

\* So does the answer of a market.
LEMMA MarketStep == ASSUME Known, MarketAnswer PROVE Known'
<1> DEFINE new == Observations(Range(Page(at, 1)))
<1>1. kind = "market" /\ page = 1 /\ UNCHANGED <<kind, service, faults>>
  BY SourcesAssumption DEF MarketAnswer, Answer, Known, Readings
<1>2. \/ Partial
      \/ Complete(new, 1, Tag(at), new)
      \/ Incomplete
  BY DEF MarketAnswer
<1>3. IsObservations(new)
  BY <1>1, PageTyped
<1>4. Tag(at).body = Page(at, 1)
  BY DEF Tag
<1>5. 1 \in 0..MaxPages
  BY SourcesAssumption
<1> QED
  BY <1>1, <1>2, <1>3, <1>4, <1>5, PartialStep, IncompleteStep, CompleteStep

\* So does an answer that nothing has changed.
LEMMA NotModifiedStep == ASSUME Known, NotModified PROVE Known'
<1> DEFINE new == Observations(Range(Page(at, 1)))
<1>1. /\ page = 1 /\ saved[at].pages = 1 /\ saved[at].etag = Tag(at) /\ at \in Endpoints
      /\ Complete(saved[at].obs, 0, saved[at].etag, new)
      /\ UNCHANGED <<kind, service, faults>>
  BY DEF NotModified, Conditional, Known, TypeOK, Used, Endpoints
<1>2. Tag(at).body = Page(at, 1)
  BY DEF Tag
<1>3. saved[at].obs = Observations(Range(saved[at].etag.body))
  BY <1>1 DEF Known, Snapshots
<1>4. saved[at].obs = new
  BY <1>1, <1>2, <1>3
<1>5. IsObservations(saved[at].obs)
  BY <1>1 DEF Known, TypeOK
<1>6. 0 \in 0..MaxPages
  BY SourcesAssumption
<1> HIDE DEF new
<1> QED
  BY <1>1, <1>3, <1>4, <1>5, <1>6, CompleteStep

\* The first listings are well formed.
LEMMA KnownInit == Init => Known
<1> SUFFICES ASSUME Init PROVE Known
  OBVIOUS
<1>1. PICK list \in Listings :
        listing \in [Endpoints -> {list, <<>>}] /\ listing[Main] = list
  BY DEF Init
<1>2. PICK n \in 0..Cardinality(Ids) : \E sorts \in [1..n -> Sorts] :
        list = [i \in 1..n |-> Record(i, sorts[i], 0, 0)]
  BY DEF Listings
<1>2a. PICK sorts \in [1..n -> Sorts] : list = [i \in 1..n |-> Record(i, sorts[i], 0, 0)]
  BY <1>2
<1>3. Cardinality(Ids) \in Nat /\ kind \in Kinds /\ changes = 0
  BY SourcesAssumption, FS_CardinalityType DEF Init
<1>4. Sorts \subseteq AnySort
  BY <1>3, SourcesAssumption DEF Sorts, AnySort
<1>5. \A i \in 1..n : list[i] \in Rec(changes) /\ list[i].id = i
  BY <1>2a, <1>3, <1>4, SourcesAssumption DEF Record, Rec
<1>6. list \in Seq(Rec(changes)) /\ Distinct(list)
  <2>1. list \in Seq(Rec(changes)) /\ Len(list) = n
    BY <1>2a, <1>3, <1>5
  <2> QED
    BY <1>5, <2>1 DEF Distinct
<1>7. <<>> \in Seq(Rec(changes)) /\ Distinct(<<>>)
  BY DEF Distinct
<1>8. ListsOK
  <2>1. DOMAIN listing = Endpoints /\ \A e \in Endpoints : listing[e] \in {list, <<>>}
    BY <1>1
  <2>2. \A e \in Endpoints : listing[e] \in Seq(Rec(changes)) /\ Distinct(listing[e])
    BY <1>6, <1>7, <2>1
  <2>3. changes \in 0..MaxChanges
    BY <1>3, SourcesAssumption
  <2> QED
    BY <2>1, <2>2, <2>3 DEF ListsOK
<1>9. \A e \in Endpoints : Listed(e) \subseteq Records /\ Cardinality(IdsOf(e)) = Len(listing[e])
  <2> TAKE e \in Endpoints
  <2>1. listing[e] \in Seq(Rec(changes)) /\ Distinct(listing[e])
    BY <1>8 DEF ListsOK
  <2>2. Rec(changes) \subseteq Records
    BY <1>3, SourcesAssumption DEF Rec, Records, AnySort
  <2> QED
    BY <2>1, <2>2, DistinctCount DEF Listed, IdsOf, Range
<1>10. TypeOK
  <2>1. \A e \in Endpoints : saved[e] = NoSnapshot
    BY DEF Init
  <2>2. NoSnapshot.pages = 0 /\ NoSnapshot.obs = Nothing
    BY DEF NoSnapshot
  <2>3. 0 \in 0..MaxPages
    BY SourcesAssumption
  <2>4. at \in Used
    BY DEF Init, Used, Endpoints
  <2>5. heard = Nothing /\ got = Nothing /\ shown = Nothing /\ page = 0
    BY DEF Init
  <2>6. sound \in BOOLEAN /\ shifted \in BOOLEAN
    BY DEF Init
  <2>7. outcome \in {"none", "whole", "partial"} /\ kept \subseteq Ids
    BY DEF Init
  <2>8. \A e \in Endpoints : /\ saved[e].pages \in 0..MaxPages
                             /\ IsObservations(saved[e].obs)
                             /\ saved[e].pages = 0 <=> saved[e] = NoSnapshot
    BY <2>1, <2>2, <2>3, NothingFacts
  <2> QED
    BY <1>3, <1>9, <2>3, <2>4, <2>5, <2>6, <2>7, <2>8, NothingFacts DEF TypeOK
<1>11. Readings /\ Stamped /\ Snapshots /\ Grounded
  BY SourcesAssumption
  DEF Init, Readings, Stamped, Snapshots, Grounded, NoSnapshot, Used, Endpoints
<1> QED
  BY <1>8, <1>10, <1>11 DEF Known

\* Every step keeps the invariant.
LEMMA KnownStep == Known /\ [Next]_vars => Known'
<1> SUFFICES ASSUME Known, [Next]_vars PROVE Known'
  OBVIOUS
<1>1. CASE Begin
  BY <1>1, AskStep DEF Begin, Used, Endpoints
<1>2. CASE FetchStep
  BY <1>2, NotModifiedStep, IssuesStep, SearchStep, MarketStep DEF FetchStep
<1>3. CASE Fault
  BY <1>3, IncompleteStep DEF Fault
<1>4. CASE ServiceStep
  BY <1>4, ChangeStep
<1>5. CASE UNCHANGED vars
  <2>1. /\ UNCHANGED <<kind, listing, changes, saved, heard>>
        /\ UNCHANGED <<page, at, got, sound, outcome, shown, kept, shifted>>
    BY <1>5 DEF vars, service, store, reading, history
  <2>2. Readings' /\ Stamped' /\ Grounded'
    BY <2>1 DEF Known, Readings, Stamped, Grounded, Used, Listed
  <2> QED
    BY <2>1, <2>2, ReadingStep DEF Known, TypeOK, IsObservations
<1> QED
  BY <1>1, <1>2, <1>3, <1>4, <1>5 DEF Next

-----------------------------------------------------------------------------
(* What the pages of a fetch reach *)

\* A record is on the page that its position says.
LEMMA PageHas ==
  ASSUME ListsOK, NEW e \in Endpoints, NEW n \in Nat \ {0}, NEW j \in 1..Len(listing[e]),
         kind = "market" \/ ((n - 1) * PerPage < j /\ j <= n * PerPage)
  PROVE  listing[e][j] \in Range(Page(e, n))
<1> DEFINE s == listing[e]
           a == (n - 1) * PerPage + 1
           b == IF n * PerPage <= Len(s) THEN n * PerPage ELSE Len(s)
<1>1. s \in Seq(Rec(changes)) /\ Len(s) \in Nat /\ j \in 1..Len(s)
  BY DEF ListsOK
<1>2. CASE kind = "market"
  BY <1>1, <1>2 DEF Page, Range
<1>3. CASE kind # "market"
  <2>1. Page(e, n) = SubSeq(s, a, b)
    BY <1>3 DEF Page
  <2>2. (n - 1) * PerPage \in Nat /\ n * PerPage \in Nat
    BY SourcesAssumption
  <2> DEFINE before == (n - 1) * PerPage
             upto == n * PerPage
  <2>2a. before < j /\ j <= upto /\ before \in Nat /\ upto \in Nat
    BY <1>3, <2>2
  <2>2b. a = before + 1 /\ b = IF upto <= Len(s) THEN upto ELSE Len(s)
    OBVIOUS
  <2> HIDE DEF s, a, b, before, upto
  <2>3. /\ a \in Int /\ b \in Int /\ 1 <= a /\ b <= Len(s) /\ a <= j /\ j <= b
        /\ j - a + 1 \in 1..(b - a + 1) /\ a + (j - a + 1) - 1 = j
    BY <1>1, <2>2a, <2>2b
  <2>4. /\ Len(SubSeq(s, a, b)) = b - a + 1
        /\ \A k \in 1..(b - a + 1) : SubSeq(s, a, b)[k] = s[a + k - 1]
        /\ SubSeq(s, a, b) \in Seq(Rec(changes))
    BY <1>1, <2>3, SubSeqFacts
  <2>5. SubSeq(s, a, b)[j - a + 1] = s[j]
    BY <2>3, <2>4
  <2>6. j - a + 1 \in DOMAIN SubSeq(s, a, b)
    BY <2>3, <2>4
  <2>7. s[j] \in Range(SubSeq(s, a, b))
    BY <2>5, <2>6 DEF Range
  <2> QED
    BY <2>1, <2>7 DEF s
<1> QED
  BY <1>2, <1>3

\* A sequence has no more elements than its length.
LEMMA RangeCount ==
  ASSUME NEW S, NEW s \in Seq(S)
  PROVE  IsFiniteSet(Range(s)) /\ Cardinality(Range(s)) \in Nat /\ Cardinality(Range(s)) <= Len(s)
<1>1. Len(s) \in Nat /\ DOMAIN s = 1..Len(s) /\ Range(s) = {s[j] : j \in 1..Len(s)}
  BY DEF Range
<1> DEFINE f == [j \in 1..Len(s) |-> s[j]]
<1>2. f \in Surjection(1..Len(s), Range(s))
  BY <1>1 DEF Surjection
<1>3. IsFiniteSet(1..Len(s)) /\ Cardinality(1..Len(s)) = Len(s)
  <2>1. Len(s) \in Int /\ 1 \in Int /\ (IF 1 > Len(s) THEN 0 ELSE Len(s) - 1 + 1) = Len(s)
    BY <1>1
  <2> QED
    BY <2>1, FS_Interval, Zenon
<1> QED
  BY <1>1, <1>2, <1>3, FS_Surjection, FS_CardinalityType

\* A page is no larger than PerPage says.
LEMMA PageFits ==
  ASSUME ListsOK, NEW e \in Endpoints, NEW n \in Nat \ {0}, kind # "market"
  PROVE  /\ IsFiniteSet(Range(Page(e, n))) /\ Cardinality(Range(Page(e, n))) \in Nat
         /\ Cardinality(Range(Page(e, n))) <= PerPage
<1> DEFINE s == listing[e]
           a == (n - 1) * PerPage + 1
           b == IF n * PerPage <= Len(s) THEN n * PerPage ELSE Len(s)
<1>1a. s \in Seq(Rec(changes)) /\ Len(s) \in Nat
  BY DEF ListsOK
<1>1b. Page(e, n) = SubSeq(s, a, b)
  BY DEF Page
<1>1. s \in Seq(Rec(changes)) /\ Len(s) \in Nat /\ Page(e, n) = SubSeq(s, a, b)
  BY <1>1a, <1>1b
<1>2. /\ (n - 1) * PerPage \in Nat /\ n * PerPage = (n - 1) * PerPage + PerPage
      /\ PerPage \in Nat \ {0}
  BY SourcesAssumption
<1> HIDE DEF s
<1>3. a \in Int /\ b \in Int /\ 1 <= a /\ b <= Len(s) /\ b - a + 1 <= PerPage
  BY <1>1, <1>2
<1> HIDE DEF a, b
<1>4. CASE a <= b + 1
  <2>1. SubSeq(s, a, b) \in Seq(Rec(changes)) /\ Len(SubSeq(s, a, b)) = b - a + 1
    BY <1>1, <1>3, <1>4, SubSeqFacts
  <2>2. /\ IsFiniteSet(Range(SubSeq(s, a, b))) /\ Cardinality(Range(SubSeq(s, a, b))) \in Nat
        /\ Cardinality(Range(SubSeq(s, a, b))) <= b - a + 1
    BY <2>1, RangeCount
  <2>3. \A c \in Nat : c <= b - a + 1 => c <= PerPage
    BY <1>3, SourcesAssumption
  <2> QED
    BY <1>1, <2>2, <2>3
<1>5. CASE ~(a <= b + 1)
  <2>1. SubSeq(s, a, b) = <<>>
    BY <1>1, <1>3, <1>5
  <2>2. Range(<<>>) = {}
    BY DEF Range
  <2>3. Range(Page(e, n)) = {}
    BY <1>1, <2>1, <2>2
  <2>4. 0 \in Nat /\ 0 <= PerPage
    BY SourcesAssumption
  <2> QED
    BY <2>3, <2>4, FS_EmptySet
<1> QED
  BY <1>3, <1>4, <1>5

\* Records of different ids are as many as their ids.
LEMMA IdsCount ==
  ASSUME NEW R, IsFiniteSet(R), \A r, o \in R : r.id = o.id => r = o
  PROVE  IsFiniteSet({r.id : r \in R}) /\ Cardinality({r.id : r \in R}) = Cardinality(R)
<1> DEFINE f == [r \in R |-> r.id]
           T == {r.id : r \in R}
<1>1. f \in Surjection(R, T)
  BY DEF Surjection
<1>2. f \in Injection(R, T)
  <2>1. f \in [R -> T]
    OBVIOUS
  <2>2. \A r, o \in R : f[r] = f[o] => r = o
    OBVIOUS
  <2> HIDE DEF f, T
  <2> QED
    BY <2>1, <2>2 DEF Injection, IsInjective
<1> QED
  BY <1>1, <1>2, FS_Surjection

-----------------------------------------------------------------------------
(* How a change moves what is listed *)

\* The plugins stay, except those that the change takes away.
Stays(s, t, left) ==
  \A j \in 1..Len(s) : s[j].sort = "plugin" /\ s[j].id \notin left =>
    \E k \in 1..Len(t) : t[k].id = s[j].id /\ t[k].sort = "plugin"

\* Nothing moves towards the pages that were read.
Onward(s, t) ==
  \A j \in 1..Len(s) : \E k \in 1..Len(t) : k >= j /\ t[k].id = s[j].id

\* In the search what moves can be counted: either there is a result more, or they
\* are the same repositories, and every one of them counts.
Counts(s, t) ==
  /\ Len(t) >= Len(s)
  /\ Len(t) = Len(s) => /\ \A r \in Range(s) \cup Range(t) : r.sort # "other"
                        /\ {r.id : r \in Range(s)} \subseteq {r.id : r \in Range(t)}

\* The sorts are those of the source.
SortsOf(s, t) == \A r \in Range(t) : r \in Range(s) \/ r.sort \in Sorts

Moves(s, t, left, moved) ==
  /\ Stays(s, t, left)
  /\ SortsOf(s, t)
  /\ ~moved /\ kind # "search" => Onward(s, t)
  /\ ~moved /\ kind = "search" => Counts(s, t)

\* A new record moves those behind it on.
LEMMA InsertMoves ==
  ASSUME NEW S, NEW s \in Seq(S), NEW i \in 1..(Len(s) + 1), NEW new \in S, new.sort \in Sorts
  PROVE  Moves(s, InsertAt(s, i, new), {}, FALSE)
<1> DEFINE t == InsertAt(s, i, new)
<1>1. /\ t \in Seq(S) /\ Len(t) = Len(s) + 1 /\ Len(s) \in Nat
      /\ \A j \in 1..(Len(s) + 1) : t[j] = IF j < i THEN s[j] ELSE IF j = i THEN new ELSE s[j - 1]
  BY InsertAtFacts
<1> HIDE DEF t
<1>2. ASSUME NEW j \in 1..Len(s) PROVE \E k \in 1..Len(t) : k >= j /\ t[k] = s[j]
  <2>1. CASE j < i
    <3>1. j \in 1..Len(t) /\ j >= j /\ t[j] = s[j]
      BY <1>1, <2>1
    <3> QED
      BY <3>1
  <2>2. CASE ~(j < i)
    <3>1. j + 1 \in 1..Len(t) /\ j + 1 >= j /\ t[j + 1] = s[j]
      BY <1>1, <2>2
    <3> QED
      BY <3>1
  <2> QED
    BY <2>1, <2>2
<1>3. Stays(s, t, {}) /\ Onward(s, t)
  BY <1>2 DEF Stays, Onward
<1>4. Counts(s, t)
  BY <1>1 DEF Counts
<1>5. SortsOf(s, t)
  <2> SUFFICES ASSUME NEW r \in Range(t) PROVE r \in Range(s) \/ r = new
    BY DEF SortsOf
  <2>1. PICK j \in 1..(Len(s) + 1) : r = t[j]
    BY <1>1 DEF Range
  <2>2. CASE j < i
    <3>1. j \in 1..Len(s) /\ r = s[j]
      BY <1>1, <2>1, <2>2
    <3> QED
      BY <3>1 DEF Range
  <2>3. CASE j = i
    BY <1>1, <2>1, <2>3
  <2>4. CASE j > i
    <3>1. j - 1 \in 1..Len(s) /\ r = s[j - 1]
      BY <1>1, <2>1, <2>4
    <3> QED
      BY <3>1 DEF Range
  <2>5. j \in Int /\ i \in Int
    BY <1>1
  <2> QED
    BY <2>2, <2>3, <2>4, <2>5
<1> QED
  BY <1>3, <1>4, <1>5 DEF Moves, t

\* What a removal leaves.
LEMMA RemoveLeaves ==
  ASSUME NEW S, NEW s \in Seq(S), NEW i \in 1..Len(s)
  PROVE  /\ \A j \in 1..Len(s) : j # i =>
              \E k \in 1..Len(RemoveAt(s, i)) : RemoveAt(s, i)[k] = s[j]
         /\ Range(RemoveAt(s, i)) \subseteq Range(s)
<1> DEFINE t == RemoveAt(s, i)
<1>1. /\ t \in Seq(S) /\ Len(t) = Len(s) - 1 /\ Len(s) \in Nat
      /\ \A j \in 1..(Len(s) - 1) : t[j] = IF j < i THEN s[j] ELSE s[j + 1]
  BY RemoveAtFacts
<1> HIDE DEF t
<1>2. ASSUME NEW j \in 1..Len(s), j # i PROVE \E k \in 1..Len(t) : t[k] = s[j]
  <2>1. CASE j < i
    <3>1. j \in 1..Len(t) /\ t[j] = s[j]
      BY <1>1, <2>1
    <3> QED
      BY <3>1
  <2>2. CASE ~(j < i)
    <3>1. j - 1 \in 1..Len(t) /\ t[j - 1] = s[j]
      BY <1>1, <1>2, <2>2
    <3> QED
      BY <3>1
  <2> QED
    BY <2>1, <2>2
<1>3. ASSUME NEW r \in Range(t) PROVE r \in Range(s)
  <2>1. PICK j \in 1..(Len(s) - 1) : r = t[j]
    BY <1>1 DEF Range
  <2>2. r = s[j] \/ r = s[j + 1]
    BY <1>1, <2>1
  <2>3. j \in 1..Len(s) /\ j + 1 \in 1..Len(s)
    BY <1>1
  <2> QED
    BY <2>2, <2>3 DEF Range
<1> QED
  BY <1>2, <1>3 DEF t

\* A removal takes away the one that goes.
LEMMA RemoveMoves ==
  ASSUME NEW S, NEW s \in Seq(S), NEW i \in 1..Len(s)
  PROVE  Moves(s, RemoveAt(s, i), {s[i].id}, TRUE)
<1> DEFINE t == RemoveAt(s, i)
<1>1. /\ \A j \in 1..Len(s) : j # i => \E k \in 1..Len(t) : t[k] = s[j]
      /\ Range(t) \subseteq Range(s)
  BY RemoveLeaves
<1> HIDE DEF t
<1>2. Stays(s, t, {s[i].id}) /\ SortsOf(s, t)
  BY <1>1 DEF Stays, SortsOf
<1> QED
  BY <1>2 DEF Moves, t

\* A record that changes in its place moves nothing.
LEMMA EditMoves ==
  ASSUME NEW S, NEW s \in Seq(S), NEW i \in 1..Len(s), NEW new \in S, new.id = s[i].id,
         new.sort \in Sorts, kind # "search"
  PROVE  Moves(s, [s EXCEPT ![i] = new],
               IF new.sort = "plugin" THEN {} ELSE {s[i].id}, FALSE)
<1> DEFINE t == [s EXCEPT ![i] = new]
           left == IF new.sort = "plugin" THEN {} ELSE {s[i].id}
<1>1. /\ t \in Seq(S) /\ Len(t) = Len(s) /\ Len(s) \in Nat
      /\ \A j \in 1..Len(s) : t[j] = IF j = i THEN new ELSE s[j]
  OBVIOUS
<1> HIDE DEF t
<1>2. Stays(s, t, left)
  BY <1>1 DEF Stays
<1>3. Onward(s, t)
  BY <1>1 DEF Onward
<1>4. SortsOf(s, t)
  <2> SUFFICES ASSUME NEW r \in Range(t) PROVE r \in Range(s) \/ r = new
    BY DEF SortsOf
  <2>1. PICK j \in 1..Len(s) : r = t[j]
    BY <1>1 DEF Range
  <2> QED
    BY <1>1, <2>1 DEF Range
<1> QED
  BY <1>2, <1>3, <1>4 DEF Moves, t

\* A repository that changes in the search moves to the first, past all others.
LEMMA MoveMoves ==
  ASSUME NEW S, NEW s \in Seq(S), NEW i \in 1..Len(s), NEW new \in S, new.id = s[i].id,
         new.sort \in Sorts, kind = "search"
  PROVE  Moves(s, <<new>> \o RemoveAt(s, i),
               IF new.sort = "plugin" THEN {} ELSE {s[i].id},
               \E r \in Range(s) \cup {new} : r.sort = "other")
<1> DEFINE u == RemoveAt(s, i)
           v == <<new>>
           t == v \o u
           left == IF new.sort = "plugin" THEN {} ELSE {s[i].id}
<1>1. /\ \A j \in 1..Len(s) : j # i => \E k \in 1..Len(u) : u[k] = s[j]
      /\ Range(u) \subseteq Range(s)
  BY RemoveLeaves
<1>2. u \in Seq(S) /\ Len(u) = Len(s) - 1 /\ Len(s) \in Nat
  BY RemoveAtFacts
<1>3. v \in Seq(S) /\ Len(v) = 1 /\ v[1] = new
  OBVIOUS
<1> HIDE DEF u, v
<1>4. /\ t \in Seq(S) /\ Len(t) = Len(s)
      /\ \A j \in 1..Len(s) : t[j] = IF j <= 1 THEN new ELSE u[j - 1]
  <2>1. /\ t \in Seq(S) /\ Len(t) = Len(v) + Len(u)
        /\ \A j \in 1..(Len(v) + Len(u)) : t[j] = IF j <= Len(v) THEN v[j] ELSE u[j - Len(v)]
    BY <1>2, <1>3, ConcatFacts
  <2> HIDE DEF t
  <2> QED
    BY <1>2, <1>3, <2>1
<1> HIDE DEF t
<1>5. 1 \in 1..Len(t) /\ t[1] = new
  BY <1>2, <1>4
<1>6. ASSUME NEW j \in 1..Len(s), j # i PROVE \E k \in 1..Len(t) : t[k] = s[j]
  <2>1. PICK k \in 1..Len(u) : u[k] = s[j]
    BY <1>1, <1>6
  <2>2. k + 1 \in 1..Len(t) /\ t[k + 1] = s[j]
    BY <1>2, <1>4, <2>1
  <2> QED
    BY <2>2
<1>7. Stays(s, t, left)
  <2> SUFFICES ASSUME NEW j \in 1..Len(s), s[j].sort = "plugin", s[j].id \notin left
               PROVE  \E k \in 1..Len(t) : t[k].id = s[j].id /\ t[k].sort = "plugin"
    BY DEF Stays
  <2>1. CASE j = i
    BY <1>5, <2>1
  <2>2. CASE j # i
    BY <1>6, <2>2
  <2> QED
    BY <2>1, <2>2
<1>8. \A r \in Range(t) : r = new \/ r \in Range(s)
  <2> TAKE r \in Range(t)
  <2>1. PICK j \in 1..Len(s) : r = t[j]
    BY <1>4 DEF Range
  <2>2. CASE j <= 1
    BY <1>4, <2>1, <2>2
  <2>3. CASE ~(j <= 1)
    <3>1. r = u[j - 1] /\ j - 1 \in 1..Len(u)
      BY <1>2, <1>4, <2>1, <2>3
    <3>2. r \in Range(u)
      BY <1>2, <3>1 DEF Range
    <3> QED
      BY <1>1, <3>2
  <2> QED
    BY <2>2, <2>3
<1>9. SortsOf(s, t)
  BY <1>8 DEF SortsOf
<1>10. {r.id : r \in Range(s)} \subseteq {r.id : r \in Range(t)}
  <2> SUFFICES ASSUME NEW r \in Range(s) PROVE \E o \in Range(t) : o.id = r.id
    OBVIOUS
  <2>1. PICK j \in 1..Len(s) : r = s[j]
    BY DEF Range
  <2>2. \E k \in 1..Len(t) : t[k].id = r.id
    BY <1>5, <1>6, <2>1
  <2>3. PICK k \in 1..Len(t) : t[k].id = r.id
    BY <2>2
  <2>4. t[k] \in Range(t)
    BY <1>4 DEF Range
  <2> QED
    BY <2>3, <2>4
<1>11. (~\E r \in Range(s) \cup {new} : r.sort = "other") => Counts(s, t)
  <2> SUFFICES ASSUME \A r \in Range(s) \cup {new} : r.sort # "other" PROVE Counts(s, t)
    OBVIOUS
  <2>1. \A r \in Range(s) \cup Range(t) : r.sort # "other"
    BY <1>8
  <2>2. Len(t) >= Len(s)
    BY <1>2, <1>4
  <2> QED
    BY <1>10, <2>1, <2>2 DEF Counts
<1> QED
  BY <1>7, <1>9, <1>11 DEF Moves, t, u, v

-----------------------------------------------------------------------------
(* What a fetch still has to read *)

\* What was listed ever since the fetch began is listed still.
KeptListed ==
  \A i \in kept : \E j \in 1..Len(listing[at]) :
    listing[at][j].id = i /\ listing[at][j].sort = "plugin"

\* What was not read is on a page to come.
Ahead ==
  \A i \in kept \ DOMAIN got : \E j \in 1..Len(listing[at]) :
    listing[at][j].id = i /\ j > (page - 1) * PerPage

\* In the search, where a result can go past the reading to the first page, it is
\* the number of results that tells: until it changes, either each one that was read
\* is another repository which is listed still, or nothing has moved.
SearchReach ==
  /\ page > 1 => count.total \in 0..Len(listing[at])
  /\ page = 1 \/ count.total = Len(listing[at]) =>
       IF \A r \in Listed(at) : r.sort # "other"
         THEN DOMAIN got \subseteq IdsOf(at) /\ Cardinality(DOMAIN got) = count.seen
         ELSE Ahead /\ count.seen <= (page - 1) * PerPage

Counters == [seen : Nat, rejected : Nat, total : Nat \cup {-1}]

\* A snapshot of the search that can be asked for conditionally is of one page.
OnePage == kind = "search" /\ saved[Main].pages = 1 => saved[Main].etag.total <= PerPage

SortsKept == \A e \in Endpoints : \A r \in Listed(e) : r.sort \in Sorts

Reach ==
  /\ SortsKept
  /\ count \in Counters
  /\ page <= 1 => count = Unread
  /\ page # 0 => /\ KeptListed
                 /\ kind = "issues" /\ ~shifted => Ahead
                 /\ kind = "search" /\ ~shifted /\ sound => SearchReach
  /\ OnePage

FirstAsked == page = 1 /\ got = Nothing /\ count = Unread /\ KeptListed

\* Before the first page is read everything is to come.
LEMMA FirstReach == FirstAsked => Ahead /\ SearchReach
<1> SUFFICES ASSUME FirstAsked PROVE Ahead /\ SearchReach
  OBVIOUS
<1>0. page = 1 /\ got = Nothing /\ count = Unread /\ KeptListed
  BY DEF FirstAsked
<1>1. DOMAIN got = {} /\ (page - 1) * PerPage = 0
  BY <1>0, NothingFacts, SourcesAssumption
<1>2. Ahead
  BY <1>0, <1>1 DEF KeptListed, Ahead
<1>3. Cardinality(DOMAIN got) = 0 /\ count.seen = 0
  BY <1>0, <1>1, FS_EmptySet DEF Unread
<1> QED
  BY <1>0, <1>1, <1>2, <1>3 DEF SearchReach

Idle == page = 0 /\ count = Unread /\ OnePage /\ SortsKept

\* Between the fetches nothing is to be read.
LEMMA IdleReach == Idle => Reach
<1>1. Unread \in Counters
  BY DEF Counters, Unread
<1> QED
  BY <1>1 DEF Reach, Idle

\* So it holds at first.
LEMMA ReachInit == Init => Reach /\ Covers
<1> SUFFICES ASSUME Init PROVE Reach /\ Covers
  OBVIOUS
<1>1. PICK list \in Listings :
        listing \in [Endpoints -> {list, <<>>}] /\ listing[Main] = list
  BY DEF Init
<1>2. PICK n \in 0..Cardinality(Ids) : \E sorts \in [1..n -> Sorts] :
        list = [i \in 1..n |-> Record(i, sorts[i], 0, 0)]
  BY DEF Listings
<1>3. PICK sorts \in [1..n -> Sorts] : list = [i \in 1..n |-> Record(i, sorts[i], 0, 0)]
  BY <1>2
<1>4. \A r \in Range(list) \cup Range(<<>>) : r.sort \in Sorts
  BY <1>3 DEF Range, Record
<1>5. SortsKept
  BY <1>1, <1>4 DEF Listed, SortsKept
<1>6. OnePage
  BY DEF Init, OnePage, NoSnapshot, Endpoints
<1>7. page = 0 /\ count = Unread /\ Covers
  BY DEF Init, Covers
<1> QED
  BY <1>5, <1>6, <1>7, IdleReach DEF Idle

\* The request for a first page keeps it.
LEMMA AskReach ==
  ASSUME Known, Reach, NEW e \in Used, Ask(e), UNCHANGED <<kind, service, store>>
  PROVE  Reach' /\ Covers'
<1>1. /\ page' = 1 /\ at' = e /\ got' = Nothing /\ count' = Unread /\ outcome' = "none"
      /\ kept' = DOMAIN Observations(Listed(e))
      /\ UNCHANGED <<kind, listing, saved>>
  BY DEF Ask, service, store
<1>2. ListsOK /\ e \in Endpoints
  BY DEF Known, Used, Endpoints
<1>3. KeptListed'
  <2> SUFFICES ASSUME NEW i \in kept' PROVE \E j \in 1..Len(listing[e]) :
                      listing[e][j].id = i /\ listing[e][j].sort = "plugin"
    BY <1>1 DEF KeptListed
  <2>1. PICK r \in Plugins(Listed(e)) : r.id = i
    BY <1>1, ObservationsFacts
  <2>2. r \in Range(listing[e]) /\ r.sort = "plugin" /\ listing[e] \in Seq(Rec(changes))
    BY <1>2 DEF Plugins, Listed, ListsOK
  <2> QED
    BY <2>1, <2>2 DEF Range
<1>4. (FirstAsked => Ahead /\ SearchReach)'
  BY FirstReach, PTL
<1>5. SortsKept' /\ OnePage'
  BY <1>1 DEF Reach, SortsKept, Listed, Sorts, OnePage
<1>6. count' \in Counters
  BY <1>1 DEF Counters, Unread
<1> QED
  BY <1>1, <1>3, <1>4, <1>5, <1>6 DEF Reach, Covers, FirstAsked

\* So does the end of a fetch without a complete result.
LEMMA PartialReach ==
  ASSUME Reach, Partial, UNCHANGED <<kind, service>>
  PROVE  Reach' /\ Covers'
<1>1. /\ page' = 0 /\ count' = Unread /\ outcome' = "partial"
      /\ UNCHANGED <<kind, listing, saved>>
  BY DEF Partial, KeepOld, ClearReading, service, store
<1>2. SortsKept' /\ OnePage'
  BY <1>1 DEF Reach, SortsKept, Listed, Sorts, OnePage
<1>3. (Idle => Reach)'
  BY IdleReach, PTL
<1> QED
  BY <1>1, <1>2, <1>3 DEF Idle, Covers

\* So does a result that is not complete.
LEMMA IncompleteReach ==
  ASSUME Known, Reach, Incomplete, UNCHANGED <<kind, service>>
  PROVE  Reach' /\ Covers'
<1>1. CASE kind = "market" /\ at = Main
  BY <1>1, AskReach DEF Incomplete, Used, Endpoints
<1>2. CASE ~(kind = "market" /\ at = Main)
  BY <1>2, PartialReach DEF Incomplete
<1> QED
  BY <1>1, <1>2

\* So does a complete result, if it has what it should.
LEMMA CompleteReach ==
  ASSUME Known, Reach, NEW obs, NEW pages, NEW tag, NEW showing,
         Complete(obs, pages, tag, showing), UNCHANGED <<kind, service>>,
         kind = "search" /\ PagesKept(pages) = 1 => tag.total <= PerPage,
         ~shifted /\ ~HiddenTail' => kept \subseteq DOMAIN obs
  PROVE  Reach' /\ Covers'
<1>1. /\ page' = 0 /\ count' = Unread /\ heard' = obs
      /\ UNCHANGED <<kind, listing, kept, shifted>>
      /\ saved' = [saved EXCEPT ![at] = [pages |-> PagesKept(pages), etag |-> tag, obs |-> obs]]
  BY DEF Complete, ClearReading, service
<1>2. SortsKept'
  BY <1>1 DEF Reach, SortsKept, Listed, Sorts
<1>3. OnePage'
  <2>1. DOMAIN saved = Endpoints
    BY DEF Known, Snapshots
  <2>2. CASE at = Main
    <3>1. saved'[Main].pages = PagesKept(pages) /\ saved'[Main].etag = tag
      BY <1>1, <2>1, <2>2 DEF Endpoints
    <3> QED
      BY <1>1, <3>1 DEF OnePage
  <2>3. CASE at # Main
    <3>1. saved'[Main] = saved[Main]
      BY <1>1, <2>1, <2>3 DEF Endpoints
    <3> QED
      BY <1>1, <3>1 DEF OnePage, Reach
  <2> QED
    BY <2>2, <2>3
<1>4. Covers'
  BY <1>1 DEF Covers
<1>5. (Idle => Reach)'
  BY IdleReach, PTL
<1> QED
  BY <1>1, <1>2, <1>3, <1>4, <1>5 DEF Idle

\* A page reaches what is on it, and nothing else is behind the reading then.
LEMMA AheadRead ==
  ASSUME Known, KeptListed, Ahead, page # 0, kind # "market", NEW i \in kept
  PROVE  \/ i \in DOMAIN got
         \/ i \in DOMAIN Observations(Range(Page(at, page)))
         \/ \E j \in 1..Len(listing[at]) : listing[at][j].id = i /\ j > page * PerPage
<1>0. /\ ListsOK /\ at \in Endpoints /\ page \in Nat \ {0}
      /\ listing[at] \in Seq(Rec(changes)) /\ Distinct(listing[at])
  BY SourcesAssumption DEF Known, TypeOK, ListsOK, Used, Endpoints
<1>1. CASE i \notin DOMAIN got
  <2>1. PICK j \in 1..Len(listing[at]) : listing[at][j].id = i /\ j > (page - 1) * PerPage
    BY <1>1 DEF Ahead
  <2>2. PICK k \in 1..Len(listing[at]) : listing[at][k].id = i /\ listing[at][k].sort = "plugin"
    BY DEF KeptListed
  <2>3. j = k
    BY <1>0, <2>1, <2>2 DEF Distinct
  <2>4. page * PerPage \in Nat /\ (page - 1) * PerPage \in Nat
    BY <1>0, SourcesAssumption
  <2>5. CASE j <= page * PerPage
    <3>1. listing[at][j] \in Range(Page(at, page))
      BY <1>0, <2>1, <2>5, PageHas
    <3>2. listing[at][j] \in Plugins(Range(Page(at, page)))
      BY <2>2, <2>3, <3>1 DEF Plugins
    <3>3. i \in {r.id : r \in Plugins(Range(Page(at, page)))}
      BY <2>1, <3>2
    <3> QED
      BY <3>3, ObservationsFacts
  <2>6. CASE ~(j <= page * PerPage)
    BY <1>0, <2>1, <2>4, <2>6
  <2> QED
    BY <2>5, <2>6
<1> QED
  BY <1>1

\* What was listed ever since, and the first page of a listing without a second.
LEMMA AllOnFirst ==
  ASSUME Known, KeptListed, kind = "market" \/ Len(listing[at]) <= PerPage
  PROVE  kept \subseteq DOMAIN Observations(Range(Page(at, 1)))
<1>0. ListsOK /\ at \in Endpoints
  BY DEF Known, TypeOK, Used, Endpoints
<1> SUFFICES ASSUME NEW i \in kept
             PROVE  i \in {r.id : r \in Plugins(Range(Page(at, 1)))}
  BY ObservationsFacts
<1>1. PICK j \in 1..Len(listing[at]) : listing[at][j].id = i /\ listing[at][j].sort = "plugin"
  BY DEF KeptListed
<1>2. kind = "market" \/ ((1 - 1) * PerPage < j /\ j <= 1 * PerPage)
  <2>1. (1 - 1) * PerPage = 0 /\ 1 * PerPage = PerPage
    BY SourcesAssumption
  <2>2. Len(listing[at]) \in Nat
    BY <1>0 DEF ListsOK
  <2> QED
    BY <2>1, <2>2, SourcesAssumption
<1>3. listing[at][j] \in Range(Page(at, 1))
  BY <1>0, <1>2, PageHas
<1>4. listing[at][j] \in Plugins(Range(Page(at, 1)))
  BY <1>1, <1>3 DEF Plugins
<1> QED
  BY <1>1, <1>4

\* A page that another one follows keeps it, if the reading keeps up.
LEMMA ReadOnReach ==
  ASSUME Known, Reach, page # 0, UNCHANGED <<kind, service>>,
         NEW observed, NEW counted \in Counters, NEW unspoilt, NEW showing,
         ReadOn(observed, counted, unspoilt, showing),
         kind = "issues" /\ ~shifted => Ahead',
         kind = "search" /\ ~shifted /\ unspoilt => SearchReach'
  PROVE  Reach' /\ Covers'
<1>1. /\ page' = page + 1 /\ got' = observed /\ count' = counted /\ sound' = unspoilt
      /\ UNCHANGED <<kind, listing, saved, at, outcome, kept, shifted>>
  BY DEF ReadOn, service, store
<1>2. page \in Nat /\ outcome = "none"
  BY SourcesAssumption DEF Known, Readings
<1>3. SortsKept' /\ KeptListed' /\ OnePage'
  BY <1>1 DEF Reach, SortsKept, Listed, Sorts, KeptListed, OnePage
<1>4. ~(page' <= 1)
  BY <1>1, <1>2
<1>5. Covers'
  BY <1>1, <1>2 DEF Covers
<1> QED
  BY <1>1, <1>3, <1>4, <1>5 DEF Reach

\* What the issues count.
LEMMA IssuesCounters ==
  ASSUME NEW c \in Counters, NEW a \in Nat, NEW b \in Nat
  PROVE  [c EXCEPT !.seen = @ + a, !.rejected = @ + b] \in Counters
<1> DEFINE T == Nat \cup {-1}
<1>1. Counters = [seen : Nat, rejected : Nat, total : T]
  BY DEF Counters
<1> HIDE DEF T
<1>2. c.seen + a \in Nat /\ c.rejected + b \in Nat
  BY <1>1
<1> QED
  BY <1>1, <1>2

\* What the search counts.
LEMMA SearchCounters ==
  ASSUME NEW c \in Counters, NEW a \in Nat, NEW n \in Nat \cup {-1}
  PROVE  /\ [c EXCEPT !.seen = @ + a, !.total = n] \in Counters
         /\ [c EXCEPT !.seen = @ + a, !.total = n].seen = c.seen + a
         /\ [c EXCEPT !.seen = @ + a, !.total = n].total = n
<1> DEFINE T == Nat \cup {-1}
<1>1. Counters = [seen : Nat, rejected : Nat, total : T] /\ n \in T
  BY DEF Counters
<1> HIDE DEF T
<1>2. c.seen + a \in Nat
  BY <1>1
<1> QED
  BY <1>1, <1>2

\* A page of issues keeps it.
LEMMA IssuesReach ==
  ASSUME Known, Reach, IssuesPage
  PROVE  Reach' /\ Covers'
<1> DEFINE body == Range(Page(at, page))
           new == Observations(body)
           again == DOMAIN new \cap DOMAIN got
           observed == Over([i \in again |-> SelectDuplicate(got[i], new[i])], Over(got, new))
           unspoilt == sound /\ ~\E i \in again : Conflict(got[i], new[i])
           showing == Over(new, shown)
           counted == [count EXCEPT
             !.seen = @ + Cardinality({r \in body : r.sort # "other"}),
             !.rejected = @ + Cardinality({r \in body : r.sort = "malformed"})]
           more == Len(listing[at]) > page * PerPage
<1>1. /\ kind = "issues" /\ page # 0 /\ UNCHANGED <<kind, service>>
      /\ page \in Nat \ {0} /\ ListsOK /\ at \in Endpoints
      /\ KeptListed /\ (~shifted => Ahead) /\ count \in Counters
  BY SourcesAssumption DEF IssuesPage, Answer, Known, Readings, Reach, Used, Endpoints
<1>2. \/ Partial
      \/ ~more /\ Complete(observed, page, FirstTag, showing)
      \/ Incomplete
      \/ ReadOn(observed, counted, unspoilt, showing)
  <2> HIDE DEF new, again, observed, unspoilt, showing, counted, more
  <2> QED
    BY DEF IssuesPage, LastPage, new, again, observed, unspoilt, showing, counted, more
<1>3. DOMAIN observed = DOMAIN got \cup DOMAIN new
  <2>1. DOMAIN observed = again \cup DOMAIN Over(got, new)
    BY OverFacts
  <2>2. DOMAIN Over(got, new) = DOMAIN got \cup DOMAIN new
    BY OverFacts
  <2> HIDE DEF observed
  <2> QED
    BY <2>1, <2>2
<1>4. ~shifted => \A i \in kept : \/ i \in DOMAIN observed
                                  \/ \E j \in 1..Len(listing[at]) :
                                       listing[at][j].id = i /\ j > page * PerPage
  <2> HIDE DEF observed
  <2> QED
    BY <1>1, <1>3, AheadRead
<1>5. counted \in Counters
  <2>1. /\ IsFiniteSet(body)
        /\ {r \in body : r.sort # "other"} \in SUBSET body
        /\ {r \in body : r.sort = "malformed"} \in SUBSET body
    BY <1>1, PageFits
  <2>2. /\ Cardinality({r \in body : r.sort # "other"}) \in Nat
        /\ Cardinality({r \in body : r.sort = "malformed"}) \in Nat
    BY <2>1, FS_Subset, FS_CardinalityType
  <2> DEFINE a == Cardinality({r \in body : r.sort # "other"})
             b == Cardinality({r \in body : r.sort = "malformed"})
  <2>3. counted = [count EXCEPT !.seen = @ + a, !.rejected = @ + b] /\ a \in Nat /\ b \in Nat
    BY <2>2
  <2> HIDE DEF a, b, counted
  <2> QED
    BY <1>1, <2>3, IssuesCounters
<1> HIDE DEF observed, counted, unspoilt, showing
<1>6. CASE Partial \/ Incomplete
  BY <1>1, <1>6, PartialReach, IncompleteReach
<1>7. CASE ~more /\ Complete(observed, page, FirstTag, showing)
  <2>1. Len(listing[at]) \in Nat /\ page * PerPage \in Nat
    BY <1>1, SourcesAssumption DEF ListsOK
  <2>2. \A j \in 1..Len(listing[at]) : ~(j > page * PerPage)
    BY <1>7, <2>1
  <2>3. ~shifted => kept \subseteq DOMAIN observed
    BY <1>4, <2>2
  <2> QED
    BY <1>1, <1>7, <2>3, CompleteReach
<1>8. CASE ReadOn(observed, counted, unspoilt, showing)
  <2>1. page' = page + 1 /\ got' = observed /\ UNCHANGED <<listing, at, kept>>
    BY <1>1, <1>8 DEF ReadOn, service
  <2>2. page' - 1 = page
    BY <1>1, <2>1
  <2>3. ~shifted => Ahead'
    BY <1>4, <2>1, <2>2 DEF Ahead
  <2> QED
    BY <1>1, <1>5, <1>8, <2>3, ReadOnReach
<1> QED
  BY <1>2, <1>6, <1>7, <1>8

\* What a page of the search adds to the reading, as long as it may be complete.
SearchRead(observed, seen) ==
  /\ page > 1 => count.total = Len(listing[at])
  /\ IF \A r \in Listed(at) : r.sort # "other"
       THEN DOMAIN observed \subseteq IdsOf(at) /\ Cardinality(DOMAIN observed) = seen
       ELSE /\ seen <= page * PerPage
            /\ \A i \in kept : \/ i \in DOMAIN observed
                               \/ \E j \in 1..Len(listing[at]) :
                                    listing[at][j].id = i /\ j > page * PerPage

\* Each record of a page that counts is another repository, or nothing has moved.
LEMMA SearchAdds ==
  ASSUME Known, Reach, kind = "search", page # 0, ~shifted, sound,
         SameTotal(Len(listing[at])),
         \A r \in Range(Page(at, page)) : r.sort # "malformed",
         DOMAIN Observations(Range(Page(at, page))) \cap DOMAIN got = {}
  PROVE  SearchRead(Over(got, Observations(Range(Page(at, page)))),
                    count.seen + Cardinality(Range(Page(at, page))))
<1> DEFINE body == Range(Page(at, page))
           new == Observations(body)
           observed == Over(got, new)
           seen == count.seen + Cardinality(body)
<1>1. /\ page \in Nat \ {0} /\ ListsOK /\ at \in Endpoints /\ KeptListed /\ SearchReach
      /\ count \in Counters /\ SortsKept /\ IsObservations(got)
      /\ listing[at] \in Seq(Rec(changes)) /\ Distinct(listing[at])
  BY SourcesAssumption DEF Known, TypeOK, ListsOK, Readings, Reach, Used, Endpoints
<1>2. page > 1 => count.total = Len(listing[at])
  <2> SUFFICES ASSUME page > 1 PROVE count.total = Len(listing[at])
    OBVIOUS
  <2>1. count.total \in 0..Len(listing[at]) /\ count.total \in {-1, Len(listing[at])}
    BY <1>1 DEF SearchReach, SameTotal
  <2> QED
    BY <2>1
<1>3. page = 1 \/ count.total = Len(listing[at])
  BY <1>1, <1>2
<1>4. /\ body \subseteq Listed(at) /\ IsFiniteSet(body) /\ Cardinality(body) \in Nat
      /\ Cardinality(body) <= PerPage
  BY <1>1, PageFacts, PageFits
<1>5. DOMAIN observed = DOMAIN got \cup DOMAIN new
  BY OverFacts
<1>6. DOMAIN new = {r.id : r \in Plugins(body)}
  BY ObservationsFacts
<1>7. CASE \A r \in Listed(at) : r.sort # "other"
  <2>1. DOMAIN got \subseteq IdsOf(at) /\ Cardinality(DOMAIN got) = count.seen
    BY <1>1, <1>3, <1>7 DEF SearchReach
  <2>2. Plugins(body) = body
    <3>1. \A r \in body : r.sort \in {"plugin", "malformed", "other"}
      BY <1>1, <1>4 DEF SortsKept, Sorts
    <3> QED
      BY <1>4, <1>7, <3>1 DEF Plugins
  <2>3. \A r, o \in Listed(at) : r.id = o.id => r = o
    BY <1>1 DEF Listed, Range, Distinct
  <2> HIDE DEF body, new
  <2>4. IsFiniteSet(DOMAIN new) /\ Cardinality(DOMAIN new) = Cardinality(body)
    BY <1>4, <1>6, <2>2, <2>3, IdsCount
  <2>5. IsFiniteSet(DOMAIN got)
    BY <1>1, SourcesAssumption, FS_Subset DEF IsObservations
  <2>6. DOMAIN got \cap DOMAIN new = {}
    BY DEF new, body
  <2>7. Cardinality(DOMAIN got \cup DOMAIN new) = count.seen + Cardinality(body)
    <3>1. Cardinality({}) = 0
      BY FS_EmptySet
    <3>2. Cardinality(DOMAIN got \cup DOMAIN new)
            = Cardinality(DOMAIN got) + Cardinality(DOMAIN new) - 0
      BY <2>4, <2>5, <2>6, <3>1, FS_Union
    <3>3. count.seen \in Nat
      BY <1>1 DEF Counters
    <3> QED
      BY <1>4, <2>1, <2>4, <3>2, <3>3
  <2>8. DOMAIN new \subseteq IdsOf(at)
    BY <1>4, <1>6, <2>2 DEF IdsOf
  <2> HIDE DEF observed
  <2> QED
    BY <1>2, <1>5, <1>7, <2>1, <2>7, <2>8 DEF SearchRead, observed, new, body
<1>8. CASE ~ \A r \in Listed(at) : r.sort # "other"
  <2>1. Ahead /\ count.seen <= (page - 1) * PerPage
    BY <1>1, <1>3, <1>8 DEF SearchReach
  <2>2. \A i \in kept : \/ i \in DOMAIN observed
                        \/ \E j \in 1..Len(listing[at]) :
                             listing[at][j].id = i /\ j > page * PerPage
    <3> HIDE DEF observed
    <3> QED
      BY <1>1, <1>5, <2>1, AheadRead
  <2>3. seen <= page * PerPage
    <3>1. /\ (page - 1) * PerPage \in Nat /\ page * PerPage = (page - 1) * PerPage + PerPage
          /\ PerPage \in Nat /\ count.seen \in Nat
      BY <1>1, SourcesAssumption DEF Counters
    <3> DEFINE before == (page - 1) * PerPage
               upto == page * PerPage
               size == Cardinality(body)
    <3>2. /\ before \in Nat /\ upto = before + PerPage /\ PerPage \in Nat /\ count.seen \in Nat
          /\ size \in Nat /\ size <= PerPage /\ count.seen <= before
      BY <1>4, <2>1, <3>1
    <3> HIDE DEF before, upto, size
    <3>3. count.seen + size <= upto
      BY <3>2
    <3> QED
      BY <3>3 DEF upto, size
  <2> HIDE DEF observed, seen
  <2> QED
    BY <1>2, <1>8, <2>2, <2>3 DEF SearchRead, observed, seen
<1> QED
  BY <1>7, <1>8

\* When as many results as the search declares were seen, nothing is missing.
LEMMA SearchAll ==
  ASSUME Known, Reach, page # 0, NEW observed, NEW seen \in Nat, SearchRead(observed, seen),
         seen >= Len(listing[at])
  PROVE  kept \subseteq DOMAIN observed
<1>1. /\ page \in Nat \ {0} /\ ListsOK /\ at \in Endpoints /\ KeptListed
      /\ Cardinality(IdsOf(at)) = Len(listing[at]) /\ Len(listing[at]) \in Nat
      /\ listing[at] \in Seq(Rec(changes))
  BY SourcesAssumption DEF Known, TypeOK, ListsOK, Readings, Reach, Used, Endpoints
<1>2. CASE \A r \in Listed(at) : r.sort # "other"
  <2>1. DOMAIN observed \subseteq IdsOf(at) /\ Cardinality(DOMAIN observed) = seen
    BY <1>2 DEF SearchRead
  <2>2. IsFiniteSet(IdsOf(at))
    <3>1. Listed(at) \subseteq Records
      BY <1>1 DEF Known, TypeOK
    <3>2. IdsOf(at) \subseteq Ids
      BY <3>1 DEF IdsOf, Records
    <3> QED
      BY <3>2, SourcesAssumption, FS_Subset
  <2>3. DOMAIN observed \in SUBSET IdsOf(at)
    BY <2>1
  <2>4. Cardinality(DOMAIN observed) <= Cardinality(IdsOf(at))
    BY <2>2, <2>3, FS_Subset
  <2>5. Cardinality(IdsOf(at)) = Cardinality(DOMAIN observed)
    BY <1>1, <2>1, <2>4
  <2>6. IdsOf(at) = DOMAIN observed
    BY <2>2, <2>3, <2>5, FS_Subset
  <2>7. \A i \in kept : i \in IdsOf(at)
    BY <1>1 DEF KeptListed, IdsOf, Listed, Range
  <2> QED
    BY <2>6, <2>7
<1>3. CASE ~ \A r \in Listed(at) : r.sort # "other"
  <2>1. /\ seen <= page * PerPage
        /\ \A i \in kept : \/ i \in DOMAIN observed
                           \/ \E j \in 1..Len(listing[at]) : j > page * PerPage
    BY <1>3 DEF SearchRead
  <2>2. page * PerPage \in Nat
    BY <1>1, SourcesAssumption
  <2>3. \A j \in 1..Len(listing[at]) : ~(j > page * PerPage)
    BY <1>1, <2>1, <2>2
  <2> QED
    BY <2>1, <2>3
<1> QED
  BY <1>2, <1>3

\* A page of the search keeps it.
LEMMA SearchKeepsReach ==
  ASSUME Known, Reach, SearchPage
  PROVE  Reach' /\ Covers'
<1> DEFINE body == Range(Page(at, page))
           new == Observations(body)
           total == Len(listing[at])
           declared == IF count.total = -1 THEN total ELSE count.total
           counted == [count EXCEPT !.seen = @ + Cardinality(body), !.total = declared]
           unspoilt == /\ sound
                       /\ SameTotal(total)
                       /\ \A r \in body : r.sort # "malformed"
                       /\ DOMAIN new \cap DOMAIN got = {}
           observed == Over(got, new)
           showing == Over(new, shown)
<1>1. /\ kind = "search" /\ page # 0 /\ UNCHANGED <<kind, service>>
      /\ page \in Nat \ {0} /\ ListsOK /\ at = Main /\ at \in Endpoints
      /\ count \in Counters /\ (page = 1 => count = Unread)
      /\ total \in Nat
  BY SourcesAssumption DEF SearchPage, Answer, Known, ListsOK, Readings, Reach, Used, Endpoints
<1>2. IsFiniteSet(body) /\ Cardinality(body) \in Nat /\ Cardinality(body) <= PerPage
  BY <1>1, PageFits
<1>3. /\ counted \in Counters /\ counted.seen = count.seen + Cardinality(body)
      /\ counted.total = declared /\ count.seen \in Nat
  <2> DEFINE size == Cardinality(body)
  <2>1. /\ size \in Nat /\ declared \in Nat \cup {-1}
        /\ counted = [count EXCEPT !.seen = @ + size, !.total = declared]
    BY <1>1, <1>2 DEF Counters
  <2> HIDE DEF body, size, declared, counted
  <2>2. counted \in Counters /\ counted.seen = count.seen + size /\ counted.total = declared
    BY <1>1, <2>1, SearchCounters
  <2>3. count.seen \in Nat
    BY <1>1 DEF Counters
  <2> QED
    BY <2>2, <2>3 DEF size
<1>4. \/ /\ unspoilt /\ counted.seen >= declared
         /\ Complete(observed, page, FirstTag, showing)
      \/ Incomplete
      \/ ReadOn(observed, counted, unspoilt, showing)
  <2> HIDE DEF new, observed, unspoilt, showing, declared, counted
  <2> QED
    BY DEF SearchPage, new, observed, unspoilt, showing, declared, counted
<1>5. ~shifted /\ unspoilt => SearchRead(observed, counted.seen)
  <2> HIDE DEF counted
  <2> QED
    BY <1>1, <1>3, SearchAdds
<1>6. unspoilt => declared = total
  BY <1>1 DEF SameTotal
<1> HIDE DEF observed, unspoilt, showing, counted, declared, new
<1>7. CASE Incomplete
  BY <1>1, <1>7, IncompleteReach
<1>8. CASE /\ unspoilt /\ counted.seen >= declared
           /\ Complete(observed, page, FirstTag, showing)
  <2>1. counted.seen >= total /\ counted.seen \in Nat
    BY <1>3, <1>6, <1>8 DEF Counters
  <2>2. ~shifted => kept \subseteq DOMAIN observed
    BY <1>1, <1>5, <1>8, <2>1, SearchAll
  <2>3. PagesKept(page) = 1 => FirstTag.total <= PerPage
    <3> SUFFICES ASSUME page = 1 PROVE FirstTag.total <= PerPage
      BY <1>1 DEF PagesKept
    <3>1. FirstTag.total = total /\ count.seen = 0
      BY <1>1 DEF FirstTag, Tag, Unread
    <3>2. counted.seen <= PerPage
      BY <1>2, <1>3, <3>1
    <3> QED
      BY <1>1, <2>1, <3>1, <3>2, SourcesAssumption
  <2> QED
    BY <1>1, <1>8, <2>2, <2>3, CompleteReach
<1>9. CASE ReadOn(observed, counted, unspoilt, showing)
  <2>1. page' = page + 1 /\ got' = observed /\ count' = counted /\ UNCHANGED <<listing, at, kept>>
    BY <1>1, <1>9 DEF ReadOn, service
  <2>2. page' - 1 = page /\ ~(page' = 1) /\ IdsOf(at)' = IdsOf(at) /\ Listed(at)' = Listed(at)
    BY <1>1, <2>1 DEF IdsOf, Listed
  <2>3. ASSUME ~shifted, unspoilt PROVE SearchReach'
    <3>1. SearchRead(observed, counted.seen) /\ counted.total = total
      BY <1>3, <1>5, <1>6, <2>3
    <3>2. (page > 1)' => count'.total \in 0..total
      BY <1>1, <2>1, <3>1
    <3>3. CASE \A r \in Listed(at) : r.sort # "other"
      <4>1. DOMAIN observed \subseteq IdsOf(at) /\ Cardinality(DOMAIN observed) = counted.seen
        BY <3>1, <3>3 DEF SearchRead
      <4> QED
        BY <2>1, <2>2, <3>2, <3>3, <4>1 DEF SearchReach
    <3>4. CASE ~ \A r \in Listed(at) : r.sort # "other"
      <4>1. /\ counted.seen <= page * PerPage
            /\ \A i \in kept : \/ i \in DOMAIN observed
                               \/ \E j \in 1..Len(listing[at]) :
                                    listing[at][j].id = i /\ j > page * PerPage
        BY <3>1, <3>4 DEF SearchRead
      <4>2. Ahead'
        BY <2>1, <2>2, <4>1 DEF Ahead
      <4>3. count'.seen <= (page' - 1) * PerPage
        BY <2>1, <2>2, <4>1
      <4> QED
        BY <2>1, <2>2, <3>2, <3>4, <4>2, <4>3 DEF SearchReach
    <3> QED
      BY <3>3, <3>4
  <2> QED
    BY <1>1, <1>3, <1>9, <2>3, ReadOnReach
<1> QED
  BY <1>4, <1>7, <1>8, <1>9

\* So do the answer of a market and one that nothing has changed.
LEMMA OnePageReach ==
  ASSUME Known, Reach, MarketAnswer \/ NotModified
  PROVE  Reach' /\ Covers'
<1> DEFINE new == Observations(Range(Page(at, 1)))
<1>1. CASE MarketAnswer
  <2>1. /\ kind = "market" /\ page # 0 /\ UNCHANGED <<kind, service>> /\ KeptListed
        /\ Partial \/ Complete(new, 1, Tag(at), new) \/ Incomplete
    BY <1>1 DEF MarketAnswer, Answer, Reach
  <2>2. kept \subseteq DOMAIN new
    BY <2>1, AllOnFirst
  <2> HIDE DEF new
  <2>3. CASE Complete(new, 1, Tag(at), new)
    BY <2>1, <2>2, <2>3, CompleteReach
  <2> QED
    BY <2>1, <2>3, PartialReach, IncompleteReach
<1>2. CASE NotModified
  <2>1. /\ page = 1 /\ saved[at].pages = 1 /\ saved[at].etag = Tag(at) /\ at \in Endpoints
        /\ Complete(saved[at].obs, 0, saved[at].etag, new)
        /\ UNCHANGED <<kind, service, faults>> /\ KeptListed
        /\ kind # "market" => at = Main
    BY <1>2 DEF NotModified, Conditional, Known, TypeOK, Used, Endpoints, Reach
  <2>2. saved[at].obs = new
    BY <2>1 DEF Known, Snapshots, Tag
  <2>3. kind = "search" => saved[at].etag.total <= PerPage
    BY <2>1 DEF Reach, OnePage
  <2>4. ASSUME ~HiddenTail' PROVE kind = "market" \/ Len(listing[at]) <= PerPage
    <3>1. CASE kind = "search"
      BY <2>1, <2>3, <3>1 DEF Tag
    <3>2. CASE kind = "issues"
      <4>1. /\ saved' = [saved EXCEPT ![at] = [pages |-> 1, etag |-> saved[at].etag,
                                               obs |-> saved[at].obs]]
            /\ UNCHANGED <<kind, listing>>
        BY <2>1 DEF Complete, PagesKept, service
      <4>2. saved'[Main].pages = 1 /\ saved'[Main].etag = Tag(Main) /\ at = Main
        BY <2>1, <3>2, <4>1 DEF Known, Snapshots
      <4>3. Tag(Main)' = Tag(Main)
        BY <4>1 DEF Tag, Page
      <4>4. ~(Len(listing[Main]) > PerPage)
        BY <2>4, <3>2, <4>1, <4>2, <4>3 DEF HiddenTail, Conditional
      <4>5. Len(listing[Main]) \in Nat /\ PerPage \in Nat
        BY SourcesAssumption DEF Known, ListsOK, Endpoints
      <4> QED
        BY <4>2, <4>4, <4>5
    <3>3. kind \in {"issues", "search", "market"}
      BY SourcesAssumption DEF Known, TypeOK
    <3> QED
      BY <3>1, <3>2, <3>3
  <2>5. ~HiddenTail' => kept \subseteq DOMAIN new
    BY <2>1, <2>4, AllOnFirst
  <2> HIDE DEF new
  <2> QED
    BY <2>1, <2>2, <2>3, <2>5, CompleteReach
<1> QED
  BY <1>1, <1>2

\* What a change of a listing moves.
LEMMA ServiceMoves ==
  ASSUME ListsOK, kind \in Kinds, ServiceStep
  PROVE  \E e \in Used : \E list, left, moved :
           /\ Change(e, list, left, moved)
           /\ list \in Seq(Rec(changes + 1))
           /\ Moves(listing[e], list, left, moved)
<1>0. changes \in Nat /\ Used \subseteq Endpoints /\ Sorts \subseteq AnySort
  BY SourcesAssumption DEF ListsOK, Used, Endpoints, Sorts, AnySort
<1>1. PICK e \in Used :
        \/ \E id \in Ids, sort \in Sorts, pos \in 1..(Len(listing[e]) + 1) :
             Appear(e, id, sort, pos)
        \/ \E pos \in 1..Len(listing[e]) :
             \/ Disappear(e, pos)
             \/ \E sort \in Sorts, stamp \in 0..MaxChanges : Edit(e, pos, sort, stamp)
  BY DEF ServiceStep
<1> DEFINE s == listing[e]
           Good(list, left, moved) ==
             /\ Change(e, list, left, moved)
             /\ list \in Seq(Rec(changes + 1))
             /\ Moves(s, list, left, moved)
<1>2. s \in Seq(Rec(changes)) /\ Distinct(s)
  BY <1>0 DEF ListsOK
<1>3. Rec(changes) \subseteq Rec(changes + 1)
  BY <1>0 DEF Rec
<1>4. s \in Seq(Rec(changes + 1))
  BY <1>2, <1>3, SeqWider
<1>5. ASSUME NEW id \in Ids, NEW sort \in Sorts, NEW pos \in 1..(Len(s) + 1),
             Appear(e, id, sort, pos)
      PROVE  \E list, left, moved : Good(list, left, moved)
  <2> DEFINE new == Record(id, sort, changes + 1, changes + 1)
             list == InsertAt(s, pos, new)
  <2>1. id \notin {r.id : r \in Range(s)} /\ Change(e, list, {}, FALSE)
    BY <1>5 DEF Appear, IdsOf, Listed
  <2>2. new \in Rec(changes + 1) /\ new.sort \in Sorts
    BY <1>0 DEF Rec, Record
  <2>3. list \in Seq(Rec(changes + 1))
    BY <1>0, <1>2, <2>1, InsertKeeps
  <2> HIDE DEF s, new
  <2>4. Moves(s, list, {}, FALSE)
    BY <1>4, <2>2, InsertMoves
  <2> HIDE DEF list
  <2>5. Good(list, {}, FALSE)
    BY <2>1, <2>3, <2>4
  <2> QED
    BY <2>5
<1>6. ASSUME NEW pos \in 1..Len(s), Disappear(e, pos)
      PROVE  \E list, left, moved : Good(list, left, moved)
  <2> DEFINE list == RemoveAt(s, pos)
  <2>1. Change(e, list, {s[pos].id}, TRUE)
    BY <1>6 DEF Disappear
  <2>2. list \in Seq(Rec(changes + 1))
    BY <1>0, <1>2, RemoveKeeps
  <2> HIDE DEF s
  <2>3. Moves(s, list, {s[pos].id}, TRUE)
    BY <1>4, RemoveMoves
  <2> HIDE DEF list
  <2>4. Good(list, {s[pos].id}, TRUE)
    BY <2>1, <2>2, <2>3
  <2> QED
    BY <2>4
<1>7. ASSUME NEW pos \in 1..Len(s), NEW sort \in Sorts, NEW stamp \in 0..MaxChanges,
             Edit(e, pos, sort, stamp)
      PROVE  \E list, left, moved : Good(list, left, moved)
  <2> DEFINE new == Record(s[pos].id, sort, changes + 1, stamp)
             left == IF new.sort = "plugin" THEN {} ELSE {s[pos].id}
  <2>1. new.id = s[pos].id /\ new.sort = sort /\ s[pos] \in Rec(changes)
    BY <1>2 DEF Record
  <2>2. CASE kind = "search"
    <3> DEFINE list == <<new>> \o RemoveAt(s, pos)
               moved == \E r \in Range(s) \cup {new} : r.sort = "other"
    <3>1. stamp = changes + 1 /\ Change(e, list, left, moved)
      BY <1>7, <2>1, <2>2 DEF Edit, Listed
    <3>2. new \in Rec(changes + 1)
      BY <1>0, <2>1, <3>1 DEF Rec, Record
    <3>3. list \in Seq(Rec(changes + 1))
      BY <1>0, <1>2, <3>1, MoveKeeps
    <3> HIDE DEF s, new
    <3>4. Moves(s, list, left, moved)
      BY <1>4, <2>1, <2>2, <3>2, MoveMoves
    <3> HIDE DEF list, left, moved
    <3>5. Good(list, left, moved)
      BY <3>1, <3>3, <3>4
    <3> QED
      BY <3>5
  <2>3. CASE kind # "search"
    <3> DEFINE list == [s EXCEPT ![pos] = new]
    <3>1. stamp \in {s[pos].stamp, changes + 1} /\ Change(e, list, left, FALSE)
      BY <1>7, <2>1, <2>3 DEF Edit
    <3>2. new \in Rec(changes + 1)
      BY <1>0, <2>1, <3>1 DEF Rec, Record
    <3>3. list \in Seq(Rec(changes + 1))
      BY <1>0, <1>2, <3>1, EditKeeps
    <3> HIDE DEF s, new
    <3>4. Moves(s, list, left, FALSE)
      BY <1>4, <2>1, <2>3, <3>2, EditMoves
    <3> HIDE DEF list, left
    <3>5. Good(list, left, FALSE)
      BY <3>1, <3>3, <3>4
    <3> QED
      BY <3>5
  <2> QED
    BY <2>2, <2>3
<1> HIDE DEF Good
<1>8. \E list, left, moved : Good(list, left, moved)
  BY <1>1, <1>5, <1>6, <1>7
<1> QED
  BY <1>8 DEF Good

\* So does a change of a listing.
LEMMA ChangeReach ==
  ASSUME Known, Known', Reach, ServiceStep
  PROVE  Reach' /\ Covers'
<1>0. /\ ListsOK /\ ListsOK' /\ Readings /\ kind \in Kinds /\ at \in Endpoints
      /\ SortsKept /\ count \in Counters /\ OnePage
      /\ page \in Nat /\ page' \in Nat
  BY SourcesAssumption DEF Known, TypeOK, Readings, Reach, Used, Endpoints
<1>1. PICK e \in Used : \E list, left, moved :
           /\ Change(e, list, left, moved)
           /\ list \in Seq(Rec(changes + 1))
           /\ Moves(listing[e], list, left, moved)
  BY <1>0, ServiceMoves
<1>2. PICK list, left, moved :
           /\ Change(e, list, left, moved)
           /\ list \in Seq(Rec(changes + 1))
           /\ Moves(listing[e], list, left, moved)
  BY <1>1
<1>3. /\ listing' = [listing EXCEPT ![e] = list]
      /\ UNCHANGED <<kind, saved, heard, page, at, got, count, sound>>
      /\ page # 0 => /\ kept' = IF e = at THEN kept \ left ELSE kept
                     /\ ~shifted' => ~shifted /\ ~(e = at /\ moved)
                     /\ UNCHANGED outcome
      /\ page = 0 => outcome' = "none"
  BY <1>2 DEF Change, reading, store
<1>4. /\ e \in Endpoints /\ DOMAIN listing = Endpoints /\ listing'[e] = list
      /\ \A f \in Endpoints \ {e} : listing'[f] = listing[f]
  BY <1>0, <1>3 DEF ListsOK, Used, Endpoints
<1>5. SortsKept'
  <2>1. Sorts' = Sorts
    BY <1>3 DEF Sorts
  <2>2. ASSUME NEW f \in Endpoints, NEW r \in Range(listing'[f]) PROVE r.sort \in Sorts
    <3>1. CASE f = e
      BY <1>0, <1>2, <1>4, <2>2, <3>1 DEF Moves, SortsOf, SortsKept, Listed
    <3>2. CASE f # e
      BY <1>0, <1>4, <2>2, <3>2 DEF SortsKept, Listed
    <3> QED
      BY <3>1, <3>2
  <2> QED
    BY <2>1, <2>2 DEF SortsKept, Listed
<1>6. OnePage' /\ count' \in Counters /\ (page' <= 1 => count' = Unread)
  BY <1>0, <1>3 DEF OnePage, Reach
<1>7. Covers'
  <2>1. outcome' # "whole"
    BY <1>0, <1>3 DEF Readings
  <2> QED
    BY <2>1 DEF Covers
<1>8. ASSUME page # 0
      PROVE  (/\ KeptListed
              /\ kind = "issues" /\ ~shifted => Ahead
              /\ kind = "search" /\ ~shifted /\ sound => SearchReach)'
  <2>0. KeptListed /\ (kind = "issues" /\ ~shifted => Ahead)
        /\ (kind = "search" /\ ~shifted /\ sound => SearchReach)
    BY <1>8 DEF Reach
  <2>1. CASE e # at
    <3>1. /\ UNCHANGED <<kind, page, at, got, count, sound, kept>> /\ listing'[at] = listing[at]
          /\ ~shifted' => ~shifted
      BY <1>0, <1>3, <1>4, <1>8, <2>1
    <3>2. /\ KeptListed' = KeptListed /\ Ahead' = Ahead
          /\ Listed(at)' = Listed(at) /\ IdsOf(at)' = IdsOf(at)
      BY <3>1 DEF KeptListed, Ahead, Listed, IdsOf
    <3>3. SearchReach => SearchReach'
      BY <3>1, <3>2 DEF SearchReach
    <3> QED
      BY <2>0, <3>1, <3>2, <3>3
  <2>2. CASE e = at
    <3> DEFINE s == listing[at]
    <3>0. kept' = kept \ left /\ (~shifted' => ~shifted /\ ~moved)
      BY <1>3, <1>8, <2>2
    <3>1. /\ listing'[at] = list /\ kept' = kept \ left /\ (~shifted' => ~shifted /\ ~moved)
          /\ Moves(s, list, left, moved)
          /\ s \in Seq(Rec(changes)) /\ Len(s) \in Nat /\ Len(list) \in Nat
      <4>1. listing'[at] = list /\ Moves(s, list, left, moved) /\ Len(list) \in Nat
        BY <1>2, <1>4, <2>2
      <4>2. s \in Seq(Rec(changes)) /\ Len(s) \in Nat
        BY <1>0 DEF ListsOK
      <4> HIDE DEF s
      <4> QED
        BY <3>0, <4>1, <4>2
    <3>2. KeptListed'
      <4> SUFFICES ASSUME NEW i \in kept, i \notin left
                   PROVE  \E k \in 1..Len(list) : list[k].id = i /\ list[k].sort = "plugin"
        BY <1>3, <3>1 DEF KeptListed
      <4>1. PICK j \in 1..Len(s) : s[j].id = i /\ s[j].sort = "plugin"
        BY <2>0 DEF KeptListed
      <4> HIDE DEF s
      <4> QED
        BY <3>1, <4>1 DEF Moves, Stays
    <3>3. ASSUME kind = "issues", ~shifted' PROVE Ahead'
      <4>1. Ahead /\ Onward(s, list)
        BY <2>0, <3>1, <3>3 DEF Moves
      <4> SUFFICES ASSUME NEW i \in kept \ DOMAIN got
                   PROVE  \E k \in 1..Len(list) : list[k].id = i /\ k > (page - 1) * PerPage
        BY <1>3, <3>1 DEF Ahead
      <4>2. PICK j \in 1..Len(s) : s[j].id = i /\ j > (page - 1) * PerPage
        BY <4>1 DEF Ahead
      <4>3. PICK k \in 1..Len(list) : k >= j /\ list[k].id = s[j].id
        BY <4>1 DEF Onward
      <4>4. (page - 1) * PerPage \in Int
        BY <1>0, SourcesAssumption
      <4> DEFINE before == (page - 1) * PerPage
      <4>5. j > before /\ before \in Int
        BY <4>2, <4>4
      <4> HIDE DEF s, before
      <4>6. k > before
        BY <3>1, <4>3, <4>5
      <4> QED
        BY <4>2, <4>3, <4>6 DEF before
    <3>4. ASSUME kind = "search", ~shifted', sound PROVE SearchReach'
      <4>1. SearchReach /\ Counts(s, list)
        BY <2>0, <3>1, <3>4 DEF Moves
      <4>2. CASE page = 1
        <5>1. (FirstAsked => Ahead /\ SearchReach)'
          BY FirstReach, PTL
        <5>2. got = Nothing /\ count = Unread
          BY <1>0, <4>2 DEF Readings, Reach
        <5> QED
          BY <1>3, <3>2, <4>2, <5>1, <5>2 DEF FirstAsked
      <4>3. CASE page > 1
        <5>1. count.total \in 0..Len(s) /\ Len(list) >= Len(s)
          BY <4>1, <4>3 DEF SearchReach, Counts
        <5>2. count.total \in 0..Len(list)
          BY <3>1, <5>1
        <5>3. ASSUME count.total = Len(list)
              PROVE  /\ \A r \in Range(list) : r.sort # "other"
                     /\ DOMAIN got \subseteq {r.id : r \in Range(list)}
                     /\ Cardinality(DOMAIN got) = count.seen
          <6>1. Len(list) = Len(s)
            BY <3>1, <5>1, <5>3
          <6>2. /\ \A r \in Range(s) \cup Range(list) : r.sort # "other"
                /\ {r.id : r \in Range(s)} \subseteq {r.id : r \in Range(list)}
            BY <4>1, <6>1 DEF Counts
          <6>3. DOMAIN got \subseteq {r.id : r \in Range(s)} /\ Cardinality(DOMAIN got) = count.seen
            BY <4>1, <5>3, <6>1, <6>2 DEF SearchReach, Listed, IdsOf
          <6> QED
            BY <6>2, <6>3
        <5>4. Listed(at)' = Range(list) /\ IdsOf(at)' = {r.id : r \in Range(list)}
          BY <1>3, <3>1 DEF Listed, IdsOf
        <5> QED
          BY <1>3, <3>1, <4>3, <5>2, <5>3, <5>4 DEF SearchReach
      <4> QED
        BY <1>0, <1>8, <4>2, <4>3
    <3> QED
      BY <1>3, <3>2, <3>3, <3>4
  <2> QED
    BY <2>1, <2>2
<1> QED
  BY <1>3, <1>5, <1>6, <1>7, <1>8 DEF Reach

\* Every step keeps it.
LEMMA ReachStep == Known /\ Known' /\ Reach /\ Covers /\ [Next]_vars => Reach' /\ Covers'
<1> SUFFICES ASSUME Known, Known', Reach, Covers, [Next]_vars PROVE Reach' /\ Covers'
  OBVIOUS
<1>1. CASE Begin
  BY <1>1, AskReach DEF Begin, Used, Endpoints
<1>2. CASE FetchStep
  BY <1>2, OnePageReach, IssuesReach, SearchKeepsReach DEF FetchStep
<1>3. CASE Fault
  <2>1. Incomplete /\ UNCHANGED <<kind, service>>
    BY <1>3 DEF Fault
  <2> QED
    BY <2>1, IncompleteReach
<1>4. CASE ServiceStep
  BY <1>4, ChangeReach
<1>5. CASE UNCHANGED vars
  <2>1. /\ UNCHANGED <<kind, listing, saved, heard, page, at, got, count, sound, etag>>
        /\ UNCHANGED <<outcome, kept, shifted>>
    BY <1>5 DEF vars, service, store, reading, history
  <2>2. /\ KeptListed' = KeptListed /\ Ahead' = Ahead /\ SortsKept' = SortsKept
        /\ OnePage' = OnePage /\ SearchReach' = SearchReach
    BY <2>1 DEF KeptListed, Ahead, SortsKept, OnePage, SearchReach, Listed, IdsOf, Sorts
  <2>3. HiddenTail' = HiddenTail
    BY <2>1 DEF HiddenTail, Conditional, Tag, Page
  <2> QED
    BY <2>1, <2>2, <2>3 DEF Reach, Covers
<1> QED
  BY <1>1, <1>2, <1>3, <1>4, <1>5 DEF Next

-----------------------------------------------------------------------------
(* The theorems *)

\* The variables keep their types, and an endpoint has a snapshot exactly if it was
\* ever read completely, for any listing.
THEOREM SourcesTypes == Spec => []TypeOK
<1>1. Known => TypeOK
  BY DEF Known
<1> QED
  BY <1>1, KnownInit, KnownStep, PTL DEF Spec

\* A result that calls itself complete says of each plugin what the answers of its
\* fetch said last: the choice between two versions of an issue, the conditional
\* requests and the fallback never pass an old record off as the present one.
THEOREM CompleteIsGrounded == Spec => []Grounded
<1>1. Known => Grounded
  BY DEF Known
<1> QED
  BY <1>1, KnownInit, KnownStep, PTL DEF Spec

\* A result that calls itself complete has every plugin that was listed from the
\* beginning of its fetch to its end, for listings of any length that change in any
\* way between the pages: the count of the results makes up for what can move past
\* the reading of the search, unless something left or there is what does not count.
THEOREM CompleteCovers == Spec => []Covers
<1>1. Known /\ [Next]_vars => Known'
  BY KnownStep
<1>2. Init => Known /\ Reach /\ Covers
  BY KnownInit, ReachInit
<1>3. (Known /\ Reach /\ Covers) /\ [Next]_vars => (Known /\ Reach /\ Covers)'
  BY <1>1, ReachStep
<1> QED
  BY <1>2, <1>3, PTL DEF Spec

=============================================================================
