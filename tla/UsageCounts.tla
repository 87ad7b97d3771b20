----------------------------- MODULE UsageCounts -----------------------------
(***************************************************************************)
(* What the usage page counts: a record twice only for another one that    *)
(* came in meanwhile, for exactly one owner; and what it masks as active.  *)
(***************************************************************************)
EXTENDS UsageTheorems

------------------------------------------------------------------------------
(* Counting records.                                                        *)

\* No two records have one id.
DistinctIds(records) ==
    \A i, j \in DOMAIN records : records[i].id = records[j].id => i = j

\* LiteLLM's ids are its records' numbers.
IdsNumber == DistinctIds(activity) /\ Ids(activity) \subseteq 1 .. Len(activity)

\* The ids of the records that the page asked for next begins with, and later.
IdsFrom(n) == {activity[i].id : i \in {j \in DOMAIN activity : FirstOf(n) <= j}}

\* How many records have come since the page was opened.
Since == Len(activity) - Cardinality(opened)

\* How many of the records fetched are second counts.
Twice == Len(load.fetched) - Cardinality(Ids(load.fetched))

\* While the page is fetched, what has been fetched and will be again is paid
\* for by new records too.
Again == Ids(load.fetched) \cap IdsFrom(load.page)

OvercountPaid ==
    /\ IdsNumber
    /\ Ids(load.fetched) \subseteq Ids(activity)
    /\ IsFiniteSet(opened)
    /\ OvercountBounded
    /\ load.pc = "fetch" => Twice + Cardinality(Again) <= Since

\* t is s with e before what was at position at.
Inserted(s, at, e, t) ==
    /\ Len(t) = Len(s) + 1
    /\ \A j \in 1 .. Len(s) + 1 : j < at => t[j] = s[j]
    /\ t[at] = e
    /\ \A j \in 1 .. Len(s) + 1 : j > at => t[j] = s[j - 1]

LEMMA InsertedAt ==
    ASSUME NEW S, NEW s \in Seq(S), NEW e \in S, NEW at \in 1 .. Len(s) + 1
    PROVE  InsertAt(s, at, e) \in Seq(S) /\ Inserted(s, at, e, InsertAt(s, at, e))
  <1> DEFINE l == SubSeq(s, 1, at - 1)
             m == l \o <<e>>
             r == SubSeq(s, at, Len(s))
             t == InsertAt(s, at, e)
  <1>1. t = m \o r
    BY DEF InsertAt
  <1>2. l \in Seq(S) /\ Len(l) = at - 1 /\ \A i \in 1 .. at - 1 : l[i] = s[i]
    BY SubSeqProperties
  <1>3. r \in Seq(S) /\ Len(r) = Len(s) - at + 1
          /\ \A i \in 1 .. Len(s) - at + 1 : r[i] = s[at + i - 1]
    BY SubSeqProperties
  <1>4. m \in Seq(S) /\ Len(m) = at /\ m[at] = e /\ \A i \in 1 .. at - 1 : m[i] = l[i]
    BY <1>2, ConcatProperties
  <1> HIDE DEF l, m, r, t
  <1>5. /\ t \in Seq(S)
        /\ Len(t) = Len(s) + 1
        /\ \A i \in 1 .. at : t[i] = m[i]
        /\ \A i \in at + 1 .. Len(s) + 1 : t[i] = r[i - at]
    BY <1>1, <1>3, <1>4, ConcatProperties
  <1>6. ASSUME NEW j \in 1 .. Len(s) + 1, j > at
        PROVE  t[j] = s[j - 1]
    <2>1. j - at \in 1 .. Len(s) - at + 1 /\ at + (j - at) - 1 = j - 1
      BY <1>6
    <2>2. r[j - at] = s[at + (j - at) - 1]
      BY <1>3, <2>1
    <2>3. j \in at + 1 .. Len(s) + 1
      BY <1>6
    <2>4. t[j] = r[j - at]
      BY <1>5, <2>3
    <2> QED
      BY <2>1, <2>2, <2>4
  <1> QED
    BY <1>2, <1>4, <1>5, <1>6 DEF t, Inserted

\* The ids of a list are finitely many, and as many as its records if no two
\* have the same.
LEMMA IdsCounted ==
    ASSUME NEW s \in Seq(Record)
    PROVE  /\ IsFiniteSet(Ids(s))
           /\ DistinctIds(s) => Cardinality(Ids(s)) = Len(s)
  <1> DEFINE f == [i \in 1 .. Len(s) |-> s[i].id]
  <1>1. IsFiniteSet(1 .. Len(s)) /\ Cardinality(1 .. Len(s)) = Len(s)
    <2>1. Len(s) \in Nat /\ 1 \in Int /\ Len(s) \in Int
      OBVIOUS
    <2> QED
      BY <2>1, FS_Interval
  <1>2. f \in Surjection(1 .. Len(s), Ids(s))
    BY DEF Surjection, Ids
  <1>3. DistinctIds(s) => f \in Injection(1 .. Len(s), Ids(s))
    BY DEF Injection, IsInjective, Ids, DistinctIds
  <1> HIDE DEF f
  <1> QED
    BY <1>1, <1>2, <1>3, FS_Surjection

\* A new record pushes at most one of those fetched back to a page to come.
LEMMA UsePays ==
    ASSUME IInv, OvercountPaid, Use
    PROVE  OvercountPaid'
  <1>1. /\ activity \in Seq(Record) /\ Len(activity) \in Nat
        /\ load.fetched \in Seq(Record) /\ load.page \in Nat \ {0}
    BY DEF IInv, TypeOK, Load
  <1>2. PICK rec \in Record, at \in 1 .. Len(activity) + 1 :
            rec.id = Len(activity) + 1 /\ activity' = InsertAt(activity, at, rec)
    <2>1. PICK k \in Keys, named \in Namings, m \in Models, at \in 1 .. Len(activity) + 1 :
              activity' = InsertAt(activity, at, [id |-> Len(activity) + 1, key |-> k,
                                                  named |-> named, model |-> m])
      BY DEF Use
    <2> DEFINE rec == [id |-> Len(activity) + 1, key |-> k, named |-> named, model |-> m]
    <2>2. rec \in Record /\ rec.id = Len(activity) + 1
      BY <1>1, PageAssumption DEF Record
    <2> QED
      BY <2>1, <2>2
  <1>3. UNCHANGED <<rows, load, opened>>
    BY DEF Use
  <1>4. activity' \in Seq(Record) /\ Inserted(activity, at, rec, activity')
    <2>1. InsertAt(activity, at, rec) \in Seq(Record)
          /\ Inserted(activity, at, rec, InsertAt(activity, at, rec))
      BY ONLY <1>1, rec \in Record, at \in 1 .. Len(activity) + 1, InsertedAt
    <2> QED
      BY <1>2, <2>1
  <1>5. /\ DOMAIN activity = 1 .. Len(activity)
        /\ DOMAIN activity' = 1 .. Len(activity) + 1
        /\ Len(activity') = Len(activity) + 1
    BY <1>1, <1>4 DEF Inserted
  <1>6. \A i \in DOMAIN activity : activity[i].id \in 1 .. Len(activity)
    BY DEF OvercountPaid, IdsNumber, Ids
  <1>12. \A j \in DOMAIN activity' :
            \/ j = at /\ activity'[j].id = Len(activity) + 1
            \/ j < at /\ j \in DOMAIN activity /\ activity'[j] = activity[j]
            \/ j > at /\ j - 1 \in DOMAIN activity /\ activity'[j] = activity[j - 1]
    BY <1>1, <1>2, <1>4, <1>5 DEF Inserted
  <1>7. IdsNumber'
    <2>1. \A j \in DOMAIN activity' : activity'[j].id \in 1 .. Len(activity) + 1
      BY <1>1, <1>6, <1>12
    <2>2. ASSUME NEW i \in DOMAIN activity', NEW j \in DOMAIN activity',
                 activity'[i].id = activity'[j].id
          PROVE  i = j
      <3>1. \A x, y \in DOMAIN activity : activity[x].id = activity[y].id => x = y
        BY DEF OvercountPaid, IdsNumber, DistinctIds
      <3>2. \A x \in DOMAIN activity : activity[x].id # Len(activity) + 1
        BY <1>1, <1>6
      <3>3. i \in Int /\ j \in Int /\ at \in Int
        BY <1>5
      <3> QED
        BY <1>12, <2>2, <3>1, <3>2, <3>3
    <2> QED
      BY <1>5, <2>1, <2>2 DEF IdsNumber, DistinctIds, Ids
  <1>8. Ids(load.fetched) \subseteq Ids(activity')
    <2>1. ASSUME NEW i \in DOMAIN activity
          PROVE  \E j \in DOMAIN activity' : activity'[j] = activity[i]
      <3>1. CASE i < at
        BY <1>1, <1>4, <1>5, <3>1 DEF Inserted
      <3>2. CASE i >= at
        <4>1. i + 1 \in DOMAIN activity' /\ activity'[i + 1] = activity[i]
          BY <1>1, <1>4, <1>5, <3>2 DEF Inserted
        <4> QED
          BY <4>1
      <3> QED
        BY <1>1, <3>1, <3>2
    <2>2. Ids(activity) \subseteq Ids(activity')
      BY <2>1 DEF Ids
    <2> QED
      BY <2>2 DEF OvercountPaid
  <1>9. Len(load.fetched) \in Nat /\ Cardinality(Ids(load.fetched)) \in Nat
        /\ Cardinality(opened) \in Nat /\ IsFiniteSet(Ids(load.fetched))
    BY <1>1, IdsCounted, FS_CardinalityType DEF OvercountPaid
  <1>10. OvercountBounded'
    BY <1>1, <1>3, <1>5, <1>9 DEF OvercountPaid, OvercountBounded, Ids
  <1>11. ASSUME load.pc = "fetch" PROVE (Twice + Cardinality(Again) <= Since)'
    <2> DEFINE first == FirstOf(load.page)
               x == IF first - 1 \in DOMAIN activity THEN activity[first - 1].id ELSE 0
    <2>1. first \in Nat \ {0}
      BY <1>1, PagesMeet
    <2>2. Again' \subseteq Again \cup {x}
      <3> SUFFICES ASSUME NEW j \in DOMAIN activity', first <= j,
                          activity'[j].id \in Ids(load.fetched), activity'[j].id # x
                   PROVE  \E i \in DOMAIN activity : first <= i /\ activity[i].id = activity'[j].id
        BY <1>3 DEF Again, IdsFrom, Ids, FirstOf
      <3>1. j # at
        <4>1. activity'[j].id \in 1 .. Len(activity)
          BY DEF OvercountPaid, IdsNumber
        <4> QED
          BY <1>1, <1>12, <4>1
      <3>2. CASE j < at
        BY <1>1, <1>5, <1>12, <3>2
      <3>3. CASE j > at
        <4>1. activity'[j] = activity[j - 1] /\ j - 1 \in DOMAIN activity
          BY <1>5, <1>12, <3>3
        <4>2. first <= j - 1
          BY <1>1, <1>5, <2>1, <4>1
        <4> QED
          BY <4>1, <4>2
      <3> QED
        BY <1>1, <1>5, <3>1, <3>2, <3>3
    <2> HIDE DEF x
    <2>3. IsFiniteSet(Again) /\ IsFiniteSet(Again \cup {x})
          /\ Cardinality(Again \cup {x}) <= Cardinality(Again) + 1
          /\ Cardinality(Again) \in Nat /\ Cardinality(Again \cup {x}) \in Nat
      <3>1. IsFiniteSet(Again)
        BY <1>9, FS_Intersection DEF Again
      <3>2. IsFiniteSet(Again \cup {x})
            /\ Cardinality(Again \cup {x}) =
                 IF x \in Again THEN Cardinality(Again) ELSE Cardinality(Again) + 1
        BY <3>1, FS_AddElement
      <3>3. Cardinality(Again) \in Nat /\ Cardinality(Again \cup {x}) \in Nat
        BY <3>1, <3>2, FS_CardinalityType
      <3> QED
        BY <3>1, <3>2, <3>3
    <2>4. Cardinality(Again') <= Cardinality(Again) + 1 /\ Cardinality(Again') \in Nat
      BY <2>2, <2>3, FS_Subset, FS_CardinalityType
    <2>5. Twice' = Twice /\ Since' = Since + 1 /\ Twice \in Int /\ Since \in Int
      <3>1. load' = load /\ opened' = opened
        BY <1>3
      <3>2. Twice' = Twice
        BY <3>1 DEF Twice, Ids
      <3>3. Since' = Since + 1
        <4>1. /\ Since' = Len(activity') - Cardinality(opened')
              /\ Since = Len(activity) - Cardinality(opened)
          BY DEF Since
        <4>2. Cardinality(opened') = Cardinality(opened)
          BY ONLY <3>1
        <4> DEFINE n == Len(activity)
                   c == Cardinality(opened)
        <4>3. n \in Nat /\ c \in Nat /\ Since = n - c
          BY <1>1, <1>9, <4>1
        <4>4. Since' = (n + 1) - c
          BY <1>5, <4>1, <4>2
        <4> HIDE DEF n, c
        <4> QED
          BY ONLY <4>3, <4>4
      <3>4. Twice \in Int /\ Since \in Int
        BY <1>1, <1>9 DEF Twice, Since
      <3> QED
        BY <3>2, <3>3, <3>4
    <2>6. Twice + Cardinality(Again) <= Since
      BY <1>11 DEF OvercountPaid
    <2> QED
      BY <2>3, <2>4, <2>5, <2>6
  <1> QED
    BY <1>3, <1>7, <1>8, <1>10, <1>11 DEF OvercountPaid, Ids

\* A page is a stretch of the activity.
LEMMA PageIsStretch ==
    ASSUME activity \in Seq(Record), NEW n \in Nat \ {0}
    PROVE  /\ PageOf(n) \in Seq(Record)
           /\ \A j \in DOMAIN PageOf(n) :
                /\ FirstOf(n) + j - 1 \in DOMAIN activity
                /\ FirstOf(n) + j - 1 <= LastOf(n)
                /\ PageOf(n)[j] = activity[FirstOf(n) + j - 1]
  <1> DEFINE first == FirstOf(n)
             last == IF LastOf(n) < Len(activity) THEN LastOf(n) ELSE Len(activity)
             page == SubSeq(activity, first, last)
  <1>1. /\ first \in Nat \ {0} /\ LastOf(n) \in Nat
        /\ last \in Nat /\ last <= Len(activity) /\ last <= LastOf(n)
    <2>1. FirstOf(n) \in Nat \ {0} /\ LastOf(n) \in Nat
      BY PagesMeet
    <2>2. Len(activity) \in Nat
      OBVIOUS
    <2> QED
      BY <2>1, <2>2
  <1>2. PageOf(n) = page
    BY DEF PageOf
  <1>3. first = FirstOf(n)
    OBVIOUS
  <1> HIDE DEF first, last
  <1>4. \A i \in first .. last : activity[i] \in Record
    BY <1>1
  <1>5. /\ page \in Seq(Record)
        /\ Len(page) = IF first <= last THEN last - first + 1 ELSE 0
        /\ \A i \in 1 .. last - first + 1 : page[i] = activity[first + i - 1]
    BY <1>1, <1>4, SubSeqProperties
  <1> HIDE DEF page
  <1>6. ASSUME NEW j \in DOMAIN page
        PROVE  /\ first + j - 1 \in DOMAIN activity
               /\ first + j - 1 <= LastOf(n)
               /\ page[j] = activity[first + j - 1]
    <2>1. j \in 1 .. last - first + 1 /\ first <= last
      BY <1>1, <1>5
    <2>2. first + j - 1 \in 1 .. last
      BY <1>1, <2>1
    <2>3. DOMAIN activity = 1 .. Len(activity) /\ Len(activity) \in Nat
      OBVIOUS
    <2>4. first + j - 1 \in 1 .. Len(activity) /\ first + j - 1 <= LastOf(n)
      BY <1>1, <2>2, <2>3
    <2>5. page[j] = activity[first + j - 1]
      BY <1>5, <2>1
    <2> QED
      BY <2>3, <2>4, <2>5
  <1> QED
    BY <1>2, <1>3, <1>5, <1>6

\* What a page counts twice was fetched and still to come.
LEMMA FetchPays ==
    ASSUME IInv, OvercountPaid, Fetch
    PROVE  OvercountPaid'
  <1> DEFINE n == load.page
             page == PageOf(n)
             all == load.fetched \o page
             old == Ids(load.fetched)
             new == Ids(page)
             ahead == IdsFrom(n + 1)
  <1>1. UNCHANGED <<rows, activity, opened>> /\ load.pc = "fetch"
    BY DEF Fetch
  <1>2. n \in Nat \ {0} /\ activity \in Seq(Record) /\ load.fetched \in Seq(Record)
    BY DEF IInv, TypeOK, Load
  <1>3. /\ load'.fetched = all
        /\ load'.pc = IF IsLast(n) THEN "done" ELSE "fetch"
        /\ load'.page = IF IsLast(n) THEN n ELSE n + 1
    BY <1>1 DEF Fetch, IInv, TypeOK, Load
  <1>4. /\ page \in Seq(Record)
        /\ \A j \in DOMAIN page :
             /\ FirstOf(n) + j - 1 \in DOMAIN activity
             /\ FirstOf(n) + j - 1 <= LastOf(n)
             /\ page[j] = activity[FirstOf(n) + j - 1]
    BY <1>2, PageIsStretch
  <1>5. /\ FirstOf(n) \in Nat \ {0} /\ LastOf(n) \in Nat
        /\ FirstOf(n + 1) = LastOf(n) + 1
    BY <1>2, PagesMeet
  <1>6. \A i, j \in DOMAIN activity : activity[i].id = activity[j].id => i = j
    BY DEF OvercountPaid, IdsNumber, DistinctIds
  <1>7. Len(load.fetched) \in Nat /\ DOMAIN page \subseteq Nat /\ DOMAIN activity \subseteq Nat
    BY <1>2, <1>4
  <1> HIDE DEF page
  <1>8. DistinctIds(page)
    <2> SUFFICES ASSUME NEW i \in DOMAIN page, NEW j \in DOMAIN page,
                        page[i].id = page[j].id
                 PROVE  i = j
      BY DEF DistinctIds
    <2>1. FirstOf(n) + i - 1 = FirstOf(n) + j - 1
      BY <1>4, <1>6
    <2> QED
      BY <1>5, <1>7, <2>1
  <1>9. new \subseteq IdsFrom(n) /\ new \subseteq Ids(activity)
    <2> SUFFICES ASSUME NEW j \in DOMAIN page
                 PROVE  page[j].id \in IdsFrom(n) /\ page[j].id \in Ids(activity)
      BY DEF Ids
    <2>1. FirstOf(n) <= FirstOf(n) + j - 1
      BY <1>4, <1>5
    <2> QED
      BY <1>4, <2>1 DEF Ids, IdsFrom
  <1>10. ahead \subseteq IdsFrom(n) /\ ahead \cap new = {}
    <2>1. ASSUME NEW i \in DOMAIN activity, FirstOf(n + 1) <= i
          PROVE  FirstOf(n) <= i /\ activity[i].id \notin new
      <3>1. FirstOf(n) <= LastOf(n) + 1
        <4>1. FirstOf(n) = (n - 1) * PageSize + 1 /\ LastOf(n) = n * PageSize
          BY DEF FirstOf, LastOf
        <4>2. n \in Int /\ PageSize \in Int /\ PageSize > 0
          BY <1>2, PageAssumption
        <4> HIDE DEF n
        <4>3. n * PageSize = (n - 1) * PageSize + PageSize
          BY <4>2
        <4>4. (n - 1) * PageSize \in Int
          BY <4>2
        <4> QED
          BY <4>1, <4>2, <4>3, <4>4
      <3>2. ASSUME NEW j \in DOMAIN page
            PROVE  activity[i].id # page[j].id
        <4>1. i # FirstOf(n) + j - 1
          BY <1>4, <1>5, <1>7, <2>1
        <4> QED
          BY <1>4, <1>6, <4>1
      <3> QED
        BY <1>5, <1>7, <2>1, <3>1, <3>2 DEF Ids
    <2> QED
      BY <2>1 DEF IdsFrom, Ids
  <1>11. Ids(all) = old \cup new /\ Len(all) = Len(load.fetched) + Len(page)
    <2>1. /\ Len(all) = Len(load.fetched) + Len(page)
          /\ DOMAIN all = 1 .. Len(load.fetched) + Len(page)
          /\ \A i \in 1 .. Len(load.fetched) + Len(page) :
                all[i] = IF i <= Len(load.fetched) THEN load.fetched[i]
                         ELSE page[i - Len(load.fetched)]
      BY <1>2, <1>4, ConcatProperties
    <2>2. old \subseteq Ids(all) /\ new \subseteq Ids(all)
      BY <1>2, <1>4, IdsOfConcat DEF Ids
    <2>3. ASSUME NEW i \in DOMAIN all
          PROVE  all[i].id \in old \cup new
      <3>1. CASE i <= Len(load.fetched)
        <4>1. i \in DOMAIN load.fetched /\ all[i] = load.fetched[i]
          BY <1>2, <2>1, <3>1
        <4> QED
          BY <4>1 DEF Ids
      <3>2. CASE i > Len(load.fetched)
        <4>1. /\ i - Len(load.fetched) \in DOMAIN page
              /\ all[i] = page[i - Len(load.fetched)]
          BY <1>2, <1>4, <2>1, <3>2
        <4> QED
          BY <4>1 DEF Ids
      <3> QED
        BY <1>7, <2>1, <3>1, <3>2
    <2> QED
      BY <2>1, <2>2, <2>3 DEF Ids
  <1> HIDE DEF all
  <1>12. /\ IsFiniteSet(old) /\ IsFiniteSet(new) /\ IsFiniteSet(Again)
         /\ Cardinality(new) = Len(page) /\ Len(page) \in Nat
    <2>1. IsFiniteSet(old)
      BY <1>2, IdsCounted
    <2>2. IsFiniteSet(new) /\ Cardinality(new) = Len(page) /\ Len(page) \in Nat
      BY <1>4, <1>8, IdsCounted
    <2>3. IsFiniteSet(Again)
      BY <2>1, FS_Intersection DEF Again
    <2> QED
      BY <2>1, <2>2, <2>3
  <1> DEFINE both == old \cap new
             rest == old \cap ahead
  <1>13. /\ both \subseteq Again /\ rest \subseteq Again
         /\ both \cap rest = {} /\ both \cup rest \subseteq Again
         /\ (old \cup new) \cap ahead = rest
    BY <1>9, <1>10 DEF Again
  <1> HIDE DEF old, new, ahead, n
  <1>14. /\ IsFiniteSet(both) /\ IsFiniteSet(rest)
         /\ Cardinality(both) \in Nat /\ Cardinality(rest) \in Nat
         /\ Cardinality(old) \in Nat /\ Cardinality(Again) \in Nat
    BY <1>12, <1>13, FS_Subset, FS_CardinalityType
  <1>15. Cardinality(both) + Cardinality(rest) <= Cardinality(Again)
    <2>1. Cardinality(both \cup rest)
            = Cardinality(both) + Cardinality(rest) - Cardinality(both \cap rest)
      BY <1>14, FS_Union
    <2>2. Cardinality(both \cap rest) = 0
      BY <1>13, FS_EmptySet
    <2>3. Cardinality(both \cup rest) <= Cardinality(Again)
      BY <1>12, <1>13, FS_Subset
    <2> HIDE DEF both, rest
    <2> QED
      BY <1>14, <2>1, <2>2, <2>3
  <1>16. Cardinality(old \cup new) = Cardinality(old) + Len(page) - Cardinality(both)
    BY <1>12, FS_Union
  <1> HIDE DEF both, rest
  <1>17. Twice' = Twice + Cardinality(both) /\ Twice \in Int
    <2> DEFINE ids == {load'.fetched[i].id : i \in DOMAIN load'.fetched}
    <2>1. ids = old \cup new
      BY <1>3, <1>11 DEF Ids
    <2>2. Twice' = Len(load'.fetched) - Cardinality(ids)
      BY DEF Twice, Ids
    <2> HIDE DEF ids
    <2>3. Len(load'.fetched) = Len(load.fetched) + Len(page)
      BY <1>3, <1>11
    <2>4. Cardinality(ids) = Cardinality(old) + Len(page) - Cardinality(both)
      BY <1>16, <2>1
    <2>5. Twice = Len(load.fetched) - Cardinality(old)
      BY DEF Twice, old
    <2>6. Len(load.fetched) \in Int /\ Len(page) \in Int
          /\ Cardinality(old) \in Int /\ Cardinality(both) \in Int
      BY <1>7, <1>12, <1>14
    <2> QED
      BY <2>2, <2>3, <2>4, <2>5, <2>6
  <1>18. Since' = Since /\ Since \in Int /\ Twice + Cardinality(Again) <= Since
    <2>1. Cardinality(opened) \in Nat /\ Len(activity) \in Nat
      BY <1>2, FS_CardinalityType DEF OvercountPaid
    <2> QED
      BY <1>1, <2>1 DEF OvercountPaid, Since
  <1>19. OvercountBounded'
    <2>1. Twice' <= Since'
      BY <1>14, <1>15, <1>17, <1>18
    <2> QED
      BY <2>1 DEF OvercountBounded, Twice, Since
  <1>20. ASSUME load'.pc = "fetch" PROVE (Twice + Cardinality(Again) <= Since)'
    <2>1. load'.page = n + 1
      BY <1>3, <1>20
    <2>2. Again' = rest
      BY <1>1, <1>3, <1>11, <1>13, <2>1 DEF Again, IdsFrom, FirstOf, ahead
    <2> QED
      BY <1>14, <1>15, <1>17, <1>18, <2>2
  <1>21. Ids(all) \subseteq Ids(activity)
    BY <1>9, <1>11 DEF OvercountPaid, old
  <1>22. IdsNumber' /\ (IsFiniteSet(opened))' /\ (Ids(load.fetched) \subseteq Ids(activity))'
    BY <1>1, <1>3, <1>21 DEF OvercountPaid, IdsNumber, DistinctIds, Ids
  <1> QED
    BY <1>19, <1>20, <1>22 DEF OvercountPaid

LEMMA OpenPays ==
    ASSUME IInv, OvercountPaid, Open
    PROVE  OvercountPaid'
  <1>1. /\ load'.fetched = <<>> /\ opened' = Ids(activity) /\ UNCHANGED activity
    BY DEF Open
  <1>2. /\ activity \in Seq(Record) /\ Len(activity) \in Nat /\ DistinctIds(activity)
    BY DEF IInv, TypeOK, OvercountPaid, IdsNumber
  <1>3. IsFiniteSet(opened') /\ Cardinality(opened') = Len(activity)
    BY <1>1, <1>2, IdsCounted
  <1>4. (Ids(load.fetched))' = {} /\ Len(load'.fetched) = 0
    BY <1>1 DEF Ids
  <1>5. Twice' = 0 /\ Since' = 0 /\ Cardinality(Again') = 0
    <2>1. Again' = {}
      BY <1>4 DEF Again
    <2>2. Cardinality({}) = 0
      BY FS_EmptySet
    <2>3. Twice' = Len(load'.fetched) - Cardinality((Ids(load.fetched))')
      BY DEF Twice
    <2>4. Since' = Len(activity') - Cardinality(opened')
      BY DEF Since
    <2>5. Twice' = 0
      BY <1>4, <2>2, <2>3
    <2> QED
      BY <1>1, <1>2, <1>3, <2>1, <2>2, <2>4, <2>5
  <1>6. OvercountBounded'
    BY <1>5 DEF OvercountBounded, Twice, Since
  <1>7. IdsNumber'
    BY <1>1 DEF OvercountPaid, IdsNumber, DistinctIds, Ids
  <1> QED
    BY <1>3, <1>4, <1>5, <1>6, <1>7 DEF OvercountPaid

LEMMA NextPays == IInv /\ OvercountPaid /\ [Next]_vars => OvercountPaid'
  <1> SUFFICES ASSUME IInv, OvercountPaid, [Next]_vars PROVE OvercountPaid'
    OBVIOUS
  <1>1. CASE Use
    BY <1>1, UsePays
  <1>2. CASE Open
    BY <1>2, OpenPays
  <1>3. CASE Fetch
    BY <1>3, FetchPays
  <1>4. CASE Create \/ Rotate \/ Revoke \/ UNCHANGED vars
    <2>1. UNCHANGED <<activity, load, opened>>
      BY <1>4 DEF Create, Rotate, Revoke, vars
    <2> QED
      BY <2>1 DEF OvercountPaid, IdsNumber, DistinctIds, Ids, OvercountBounded, Twice, Since,
                  Again, IdsFrom, FirstOf
  <1>5. CASE FetchFails
    <2>1. /\ UNCHANGED <<activity, opened>> /\ load'.fetched = load.fetched
          /\ load'.pc # "fetch"
      BY <1>5 DEF FetchFails, IInv, TypeOK, Load
    <2>2. (Ids(load.fetched))' = Ids(load.fetched) /\ (Ids(activity))' = Ids(activity)
      BY <2>1 DEF Ids
    <2>3. IdsNumber'
      BY <2>1, <2>2 DEF OvercountPaid, IdsNumber, DistinctIds
    <2>4. OvercountBounded'
      BY <2>1, <2>2 DEF OvercountPaid, OvercountBounded
    <2> QED
      BY <2>1, <2>2, <2>3, <2>4 DEF OvercountPaid
  <1> QED
    BY <1>1, <1>2, <1>3, <1>4, <1>5 DEF Next

LEMMA InitPays == Init => OvercountPaid
  <1> SUFFICES ASSUME Init PROVE OvercountPaid
    OBVIOUS
  <1>1. activity = <<>> /\ load.fetched = <<>> /\ load.pc = "closed" /\ opened = {}
    BY DEF Init
  <1>2. IsFiniteSet(opened) /\ Cardinality(opened) = 0
    BY <1>1, FS_EmptySet
  <1>3. Ids(<<>>) = {} /\ Len(<<>>) = 0 /\ DOMAIN <<>> = {}
    BY DEF Ids
  <1>4. Cardinality(Ids(<<>>)) = 0
    BY <1>3, FS_EmptySet
  <1> QED
    BY <1>1, <1>2, <1>3, <1>4 DEF OvercountPaid, OvercountBounded, IdsNumber, DistinctIds

\* For every page size and however the activity grows between two pages: a
\* record counted twice is paid for by one made meanwhile (daily_activity).
THEOREM SecondCountsPaid == Spec => []OvercountBounded
  <1>1. Spec => []OvercountPaid
    BY InitPays, NextPays, PageInvariance, PTL DEF Spec
  <1>2. OvercountPaid => OvercountBounded
    BY DEF OvercountPaid
  <1> QED
    BY <1>1, <1>2, PTL

------------------------------------------------------------------------------
(* Counting owners.                                                         *)

\* A record is a user's under a logical key, or its service's, or a stranger's.
LEMMA ClassifyAs ==
    ASSUME IInv, NEW i \in Positions, NEW t, t = Classify(load.rows, load.fetched[i])
    PROVE  \/ \E u \in Users, b \in Idents : t = UserTarget([user |-> u, bucket |-> b])
           \/ t = ServiceTarget(load.fetched[i])
           \/ t = UnknownTarget(load.fetched[i])
  <1> DEFINE rec == load.fetched[i]
  <1>1. CASE t.kind = "user"
    <2>1. PICK row \in load.rows : row.key = rec.key /\ (row.known \/ rec.named)
      BY <1>1, ClassifyStranger
    <2>2. t = UserTarget(OwnedKey(row))
      BY <2>1, ClassifyOwned DEF IInv, KeysApart
    <2>3. row.owner \in Users /\ row.ident \in Idents
      BY DEF IInv, TypeOK, Load, KeyRow
    <2> QED
      BY <2>2, <2>3 DEF OwnedKey
  <1>2. CASE t.kind # "user"
    BY <1>2 DEF Classify, UserTarget
  <1> QED
    BY <1>1, <1>2

\* A section shows a record of its kind under one name, any other under none.
LEMMA HeldUnder ==
    ASSUME NEW some, NEW fetched, NEW i \in DOMAIN fetched, NEW kind, NEW k, NEW x,
           Classify(some, fetched[i]) = [kind |-> k, id |-> x]
    PROVE  LET section == Section(some, fetched, kind)
           IN {id \in DOMAIN section : i \in section[id]} = IF k = kind THEN {x} ELSE {}
  <1> DEFINE section == Section(some, fetched, kind)
             targets == {Classify(some, fetched[j]) : j \in DOMAIN fetched}
  <1>1. DOMAIN section = {t.id : t \in {s \in targets : s.kind = kind}}
    BY DEF Section
  <1>2. \A id \in DOMAIN section :
            i \in section[id] <=> Classify(some, fetched[i]) = [kind |-> kind, id |-> id]
    BY DEF Section, Counted
  <1>3. ASSUME k = kind PROVE x \in DOMAIN section
    BY <1>1, <1>3
  <1> HIDE DEF section
  <1>4. \A id \in DOMAIN section : i \in section[id] <=> k = kind /\ x = id
    <2> TAKE id \in DOMAIN section
    <2> DEFINE found == [kind |-> k, id |-> x]
               sought == [kind |-> kind, id |-> id]
    <2>1. i \in section[id] <=> found = sought
      BY <1>2
    <2>2. found.kind = k /\ found.id = x /\ sought.kind = kind /\ sought.id = id
      OBVIOUS
    <2>3. k = kind /\ x = id => found = sought
      OBVIOUS
    <2> HIDE DEF found, sought
    <2> QED
      BY <2>1, <2>2, <2>3
  <1> QED
    BY <1>3, <1>4 DEF section

LEMMA AdminsCountOnce == IInv => CountedOnce
  <1> SUFFICES ASSUME IInv, load.pc = "done", load.user \in Admins, NEW i \in Positions
               PROVE  /\ Counts(i) = 1
                      /\ \A u \in Users : i \in Shows.users[u].total
                                             <=> \E b \in Idents : i \in ShownUnder(u, b)
    BY DEF CountedOnce
  <1> DEFINE t == Classify(load.rows, load.fetched[i])
             pairs == {x \in Users \X Idents : i \in ShownUnder(x[1], x[2])}
             served == {id \in DOMAIN Shows.services : i \in Shows.services[id]}
             strange == {id \in DOMAIN Shows.unknown : i \in Shows.unknown[id]}
  <1>1. Viewed(load.user) = Users
    BY DEF Viewed
  <1>2. \A u \in Users, b \in Idents :
            i \in ShownUnder(u, b) <=> t = UserTarget([user |-> u, bucket |-> b])
    <2> TAKE u \in Users, b \in Idents
    <2>1. UsageSpansRotations
      BY KeysShowTheirUsage
    <2>2. ShownUnder(u, b) = Counted(load.rows, load.fetched, UserTarget([user |-> u, bucket |-> b]))
      BY <1>1, <2>1, CountedIsOwned DEF UsageSpansRotations
    <2> QED
      BY <2>2 DEF Counted, Positions
  <1>3. \A u \in Users : i \in Shows.users[u].total <=> t.kind = "user" /\ t.id.user = u
    BY <1>1 DEF Shows, Report, Summary, Positions
  <1>4. /\ Shows.services = Section(load.rows, load.fetched, "service")
        /\ Shows.unknown = Section(load.rows, load.fetched, "unknown")
    BY DEF Shows, Report
  <1>5. Counts(i) = Cardinality(pairs) + Cardinality(served) + Cardinality(strange)
    BY DEF Counts
  <1>6. /\ Cardinality({}) = 0
        /\ \A x : Cardinality({x}) = 1
    BY FS_EmptySet, FS_Singleton
  <1>7. \/ \E u \in Users, b \in Idents : t = UserTarget([user |-> u, bucket |-> b])
        \/ t = ServiceTarget(load.fetched[i])
        \/ t = UnknownTarget(load.fetched[i])
    BY ClassifyAs
  <1>8. ASSUME NEW k, NEW x, t = [kind |-> k, id |-> x]
        PROVE  /\ served = IF k = "service" THEN {x} ELSE {}
               /\ strange = IF k = "unknown" THEN {x} ELSE {}
    BY <1>4, <1>8, HeldUnder DEF Positions
  <1> HIDE DEF t, served, strange
  <1>9. ASSUME NEW u \in Users, NEW b \in Idents, t = UserTarget([user |-> u, bucket |-> b])
        PROVE  /\ Counts(i) = 1
               /\ \A v \in Users : i \in Shows.users[v].total
                                      <=> \E c \in Idents : i \in ShownUnder(v, c)
    <2>1. \A v \in Users, c \in Idents : i \in ShownUnder(v, c) <=> u = v /\ b = c
      BY <1>2, <1>9 DEF UserTarget
    <2>2. pairs = {<<u, b>>}
      BY <2>1
    <2>3. served = {} /\ strange = {}
      BY <1>8, <1>9 DEF UserTarget
    <2>4. \A v \in Users : i \in Shows.users[v].total <=> u = v
      BY <1>3, <1>9 DEF UserTarget
    <2>5. Cardinality(pairs) = 1 /\ Cardinality(served) = 0 /\ Cardinality(strange) = 0
      BY <1>6, <2>2, <2>3
    <2> QED
      BY <1>5, <2>1, <2>4, <2>5
  <1>10. ASSUME NEW k \in {"service", "unknown"}, NEW x, t = [kind |-> k, id |-> x]
         PROVE  /\ Counts(i) = 1
                /\ \A v \in Users : i \in Shows.users[v].total
                                       <=> \E c \in Idents : i \in ShownUnder(v, c)
    <2>1. \A v \in Users, c \in Idents : i \notin ShownUnder(v, c)
      BY <1>2, <1>10 DEF UserTarget
    <2>2. pairs = {}
      BY <2>1
    <2>3. \A v \in Users : i \notin Shows.users[v].total
      BY <1>3, <1>10
    <2>4. \/ served = {x} /\ strange = {}
          \/ served = {} /\ strange = {x}
      BY <1>8, <1>10
    <2>5. /\ Cardinality(pairs) = 0
          /\ \/ Cardinality(served) = 1 /\ Cardinality(strange) = 0
             \/ Cardinality(served) = 0 /\ Cardinality(strange) = 1
      BY <1>6, <2>2, <2>4
    <2> QED
      BY <1>5, <2>1, <2>3, <2>5
  <1> QED
    BY <1>7, <1>9, <1>10 DEF ServiceTarget, UnknownTarget

\* On a finished page of an admin every record counts for exactly one user
\* and one of that user's shown keys, or one service, or one stranger, for
\* any rows that were read and any activity (attribute, _summary).
THEOREM EachCountedOnce == Spec => []CountedOnce
  BY PageInvariance, AdminsCountOnce, PTL

------------------------------------------------------------------------------
(* What is masked as active.                                                *)

LEMMA HasGreatest ==
    ASSUME NEW S, S \subseteq Nat, S # {}, NEW n \in Nat, \A x \in S : x <= n
    PROVE  \E m \in S : \A x \in S : m >= x
  <1> DEFINE R == {ss \in Nat \X Nat : ss[1] < ss[2]}
             T == {n - x : x \in S}
  <1>1. IsWellFoundedOn(R, Nat)
    BY NatLessThanWellFounded DEF OpToRel
  <1>2. \A x, y \in Nat : x < y => <<x, y>> \in R
    OBVIOUS
  <1> HIDE DEF R
  <1>3. \A x \in S : n - x \in Nat /\ n - x \in T
    OBVIOUS
  <1>4. T \subseteq Nat /\ T # {}
    BY <1>3
  <1>5. \A d \in T : \E x \in S : d = n - x
    OBVIOUS
  <1> HIDE DEF T
  <1>6. PICK d \in T : \A y \in T : ~(<<y, d>> \in R)
    BY <1>1, <1>4, WFMin
  <1>7. ASSUME NEW y \in T
        PROVE  d <= y
    <2>1. y \in Nat /\ d \in Nat /\ ~(y < d)
      BY <1>2, <1>4, <1>6
    <2> QED
      BY <2>1
  <1>8. PICK m \in S : d = n - m
    BY <1>5
  <1>9. ASSUME NEW x \in S
        PROVE  m >= x
    <2>1. n - m <= n - x
      BY <1>3, <1>7, <1>8
    <2> QED
      BY <2>1
  <1> QED
    BY <1>9

\* Rows are numbered as they are inserted, and none is deleted.
RowIdsBounded == \A r \in rows \cup load.rows : r.id <= Cardinality(rows)

LEMMA NextNumbers == IInv /\ RowIdsBounded /\ [Next]_vars => RowIdsBounded'
  <1> SUFFICES ASSUME IInv, RowIdsBounded, [Next]_vars PROVE RowIdsBounded'
    OBVIOUS
  <1> DEFINE n == Cardinality(rows)
  <1>1. n \in Nat /\ IsFiniteSet(rows) /\ Apart(rows)
        /\ \A r \in rows \cup load.rows : r.id \in Nat /\ r.id <= n
    BY FS_CardinalityType DEF IInv, TypeOK, Load, KeyRow, KeysApart, RowIdsBounded
  <1>2. ASSUME NEW old \in rows, NEW changed, changed.key = old.key
        PROVE  LET same == (rows \ {old}) \cup {changed}
               IN IsFiniteSet(same) /\ Cardinality(same) = n
    <2>1. IsFiniteSet(rows \ {old}) /\ Cardinality(rows \ {old}) = n - 1
      BY <1>1, FS_RemoveElement
    <2>2. changed \notin rows \ {old}
      BY <1>1, <1>2 DEF Apart
    <2>3. /\ IsFiniteSet((rows \ {old}) \cup {changed})
          /\ Cardinality((rows \ {old}) \cup {changed}) = Cardinality(rows \ {old}) + 1
      BY <2>1, <2>2, FS_AddElement
    <2> QED
      BY <1>1, <2>1, <2>3
  <1>3. CASE Create
    <2>1. PICK k \in Keys, u \in Users, b \in Idents :
              ~HasRow(k) /\ rows' = rows \cup {NewRow(k, u, b, TRUE)}
      BY <1>3 DEF Create
    <2> DEFINE new == NewRow(k, u, b, TRUE)
    <2>2. new.id = n + 1 /\ new.key = k
      BY DEF NewRow
    <2> HIDE DEF new
    <2>3. rows' = rows \cup {new}
      BY <2>1 DEF new
    <2>4. new \notin rows
      BY <2>1, <2>2 DEF HasRow
    <2>5. Cardinality(rows') = n + 1
      BY <1>1, <2>3, <2>4, FS_AddElement
    <2>6. load' = load
      BY <1>3 DEF Create
    <2> HIDE DEF n
    <2> QED
      BY <1>1, <2>2, <2>3, <2>5, <2>6 DEF RowIdsBounded
  <1>4. CASE Rotate
    <2>1. PICK old \in rows, k \in Keys, left \in {"revoked", "audit", "misread"} :
              /\ ~HasRow(k)
              /\ rows' = (rows \ {old})
                    \cup {[old EXCEPT !.active = @ /\ left # "revoked"],
                          NewRow(k, old.owner, old.ident, left # "audit")}
      BY <1>4 DEF Rotate
    <2> DEFINE changed == [old EXCEPT !.active = @ /\ left # "revoked"]
               new == NewRow(k, old.owner, old.ident, left # "audit")
               same == (rows \ {old}) \cup {changed}
    <2>2. new.id = n + 1 /\ new.key = k
      BY DEF NewRow
    <2>3. changed.id = old.id /\ changed.key = old.key
      BY DEF IInv, TypeOK, KeyRow
    <2> HIDE DEF new, changed
    <2>4. rows' = same \cup {new}
      BY <2>1 DEF new, changed
    <2>5. IsFiniteSet(same) /\ Cardinality(same) = n
      BY <1>2, <2>3
    <2>6. new \notin same
      BY <2>1, <2>2, <2>3 DEF HasRow
    <2>7. Cardinality(rows') = n + 1
      BY <2>4, <2>5, <2>6, FS_AddElement
    <2>8. load' = load
      BY <1>4 DEF Rotate
    <2>9. old.id \in Nat /\ old.id <= n
      BY <1>1
    <2> HIDE DEF n
    <2> QED
      BY <1>1, <2>2, <2>3, <2>4, <2>7, <2>8, <2>9 DEF RowIdsBounded
  <1>5. CASE Revoke
    <2>1. PICK old \in rows : rows' = (rows \ {old}) \cup {[old EXCEPT !.active = FALSE]}
      BY <1>5 DEF Revoke
    <2> DEFINE changed == [old EXCEPT !.active = FALSE]
    <2>2. changed.id = old.id /\ changed.key = old.key
      BY DEF IInv, TypeOK, KeyRow
    <2> HIDE DEF changed
    <2>3. rows' = (rows \ {old}) \cup {changed}
      BY <2>1 DEF changed
    <2>4. Cardinality(rows') = n
      BY <1>2, <2>2, <2>3
    <2>5. load' = load
      BY <1>5 DEF Revoke
    <2>6. old.id \in Nat /\ old.id <= n
      BY <1>1
    <2> HIDE DEF n
    <2> QED
      BY <1>1, <2>2, <2>3, <2>4, <2>5, <2>6 DEF RowIdsBounded
  <1>6. CASE Use \/ Open \/ Fetch \/ FetchFails \/ UNCHANGED vars
    <2>1. rows' = rows
      BY <1>6 DEF Use, Open, Fetch, FetchFails, vars
    <2>2. load'.rows = load.rows \/ load'.rows \subseteq rows
      <3>1. CASE Use \/ UNCHANGED vars
        BY <3>1 DEF Use, vars
      <3>2. CASE Open
        BY <3>2 DEF Open
      <3>3. CASE Fetch \/ FetchFails
        BY <3>3 DEF Fetch, FetchFails, IInv, TypeOK, Load
      <3> QED
        BY <1>6, <3>1, <3>2, <3>3
    <2> QED
      BY <2>1, <2>2 DEF RowIdsBounded
  <1> QED
    BY <1>3, <1>4, <1>5, <1>6 DEF Next

LEMMA LatestActive == IInv /\ RowIdsBounded => MaskWasActive
  <1> SUFFICES ASSUME IInv, RowIdsBounded, load.pc = "done", NEW u \in Viewed(load.user),
                      NEW b \in DOMAIN Shows.users[u].keys, Shows.users[u].keys[b].active
               PROVE  LET some == {row \in load.rows :
                                       row.owner = u /\ row.ident = b /\ row.active}
                      IN \E row \in some : /\ row.key = Shows.users[u].keys[b].mask
                                           /\ \A other \in some : other.id <= row.id
    BY DEF MaskWasActive
  <1> DEFINE active == {row \in RowsOf(load.rows, u, b) : row.active}
             ids == {row.id : row \in active}
  <1>1. /\ Shows.users[u].keys[b].active = Descriptor(load.rows, u, b).active
        /\ Shows.users[u].keys[b].mask = Descriptor(load.rows, u, b).mask
    BY DEF Shows, Report, Summary, KeyUsage
  <1>2. active # {}
    BY <1>1 DEF Descriptor
  <1>3. Shows.users[u].keys[b].mask = LastRow(active).key
    BY <1>1, <1>2 DEF Descriptor
  <1>4. active = {row \in load.rows : row.owner = u /\ row.ident = b /\ row.active}
    BY DEF RowsOf
  <1> HIDE DEF active
  <1>5. /\ Cardinality(rows) \in Nat
        /\ \A row \in active : row.id \in Nat /\ row.id <= Cardinality(rows)
    BY <1>4, FS_CardinalityType DEF IInv, TypeOK, Load, KeyRow, RowIdsBounded
  <1>6. \E m \in ids : \A x \in ids : m >= x
    <2>1. ids \subseteq Nat /\ ids # {} /\ \A x \in ids : x <= Cardinality(rows)
      BY <1>2, <1>5
    <2> HIDE DEF ids
    <2> QED
      BY <1>5, <2>1, HasGreatest
  <1>7. \E row \in active : \A r \in active : row.id >= r.id
    BY <1>6
  <1>8. LastRow(active) \in active /\ \A row \in active : LastRow(active).id >= row.id
    BY <1>7 DEF LastRow
  <1>9. \A row \in active : row.id <= LastRow(active).id
    BY <1>5, <1>8
  <1> QED
    BY <1>3, <1>4, <1>8, <1>9

\* For any number of users and keys: a logical key shown as active is masked by
\* the newest of its tokens with rows that were active when they were read,
\* however often it has been rotated, or badly (_key_index).
THEOREM MasksWereActive == Spec => []MaskWasActive
  <1>1. Init => RowIdsBounded
    BY DEF Init, RowIdsBounded
  <1>2. Spec => []RowIdsBounded
    BY <1>1, NextNumbers, PageInvariance, PTL DEF Spec
  <1> QED
    BY <1>2, PageInvariance, LatestActive, PTL
=============================================================================
