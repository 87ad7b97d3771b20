---------------------------- MODULE UsageTheorems ----------------------------
(* The usage page misses nothing, and stale key rows mislead nobody.        *)
EXTENDS UsagePage, FiniteSetTheorems, SequenceTheorems, TLAPS

------------------------------------------------------------------------------
(* What inserting a record and fetching a page do.                          *)

\* t is s with one element more; what was in s is there, no earlier than before.
OneMore(s, t) ==
    /\ Len(t) = Len(s) + 1
    /\ \A i \in 1 .. Len(s) : \E j \in 1 .. Len(s) + 1 : j >= i /\ t[j] = s[i]

LEMMA InsertAtIndex ==
    ASSUME NEW S, NEW s \in Seq(S), NEW e \in S, NEW at \in 1 .. Len(s) + 1
    PROVE  InsertAt(s, at, e) \in Seq(S) /\ OneMore(s, InsertAt(s, at, e))
  <1> DEFINE l == SubSeq(s, 1, at - 1)
             m == l \o <<e>>
             r == SubSeq(s, at, Len(s))
             t == InsertAt(s, at, e)
  <1>1. t = m \o r
    BY DEF InsertAt
  <1>2. l \in Seq(S) /\ Len(l) = at - 1 /\ \A i \in 1 .. at - 1 : l[i] = s[i]
    BY SubSeqProperties
  <1>3. r \in Seq(S) /\ Len(r) = Len(s) - at + 1
          /\ \A i \in 1 .. Len(s) - at + 1 : r[i] = s[at + i - 1]
    BY SubSeqProperties
  <1>4. m \in Seq(S) /\ Len(m) = at /\ \A i \in 1 .. at - 1 : m[i] = l[i]
    BY <1>2, ConcatProperties
  <1> HIDE DEF l, m, r, t
  <1>5. /\ t \in Seq(S)
        /\ Len(t) = Len(s) + 1
        /\ \A i \in 1 .. at : t[i] = m[i]
        /\ \A i \in at + 1 .. Len(s) + 1 : t[i] = r[i - at]
    BY <1>1, <1>3, <1>4, ConcatProperties
  <1>6. ASSUME NEW i \in 1 .. Len(s)
        PROVE  \E j \in 1 .. Len(s) + 1 : j >= i /\ t[j] = s[i]
    <2>1. CASE i < at
      <3>1. t[i] = s[i]
        BY <2>1, <1>2, <1>4, <1>5
      <3> QED
        BY <3>1
    <2>2. CASE i >= at
      <3>1. i - at + 1 \in 1 .. Len(s) - at + 1 /\ i + 1 \in at + 1 .. Len(s) + 1
        BY <2>2
      <3>2. t[i + 1] = r[i - at + 1]
        BY <3>1, <1>5
      <3>3. r[i - at + 1] = s[i]
        BY <3>1, <1>3
      <3> QED
        BY <3>1, <3>2, <3>3
    <2> QED
      BY <2>1, <2>2
  <1> QED
    BY <1>5, <1>6 DEF t, OneMore

LEMMA PagesMeet ==
    ASSUME NEW n \in Nat \ {0}
    PROVE  /\ FirstOf(n) \in Nat \ {0} /\ LastOf(n) \in Nat
           /\ FirstOf(n + 1) = LastOf(n) + 1
           /\ FirstOf(1) = 1
  <1>1. (n - 1) * PageSize \in Nat /\ n * PageSize \in Nat
    BY PageAssumption
  <1>2. (n + 1) - 1 = n /\ (1 - 1) * PageSize = 0
    BY PageAssumption
  <1> QED
    BY <1>1, <1>2 DEF FirstOf, LastOf

LEMMA PageHolds ==
    ASSUME activity \in Seq(Record), NEW n \in Nat \ {0}
    PROVE  /\ PageOf(n) \in Seq(Record)
           /\ \A i \in DOMAIN activity :
                FirstOf(n) <= i /\ i <= LastOf(n) =>
                    \E j \in DOMAIN PageOf(n) : PageOf(n)[j] = activity[i]
  <1> DEFINE first == FirstOf(n)
             last == IF LastOf(n) < Len(activity) THEN LastOf(n) ELSE Len(activity)
             page == SubSeq(activity, first, last)
  <1>1. first \in Nat \ {0} /\ last \in Nat /\ last <= Len(activity)
    <2>1. FirstOf(n) \in Nat \ {0} /\ LastOf(n) \in Nat
      BY PagesMeet
    <2>2. Len(activity) \in Nat
      OBVIOUS
    <2> QED
      BY <2>1, <2>2
  <1>2. PageOf(n) = page
    BY DEF PageOf
  <1> HIDE DEF first, last
  <1>3. \A i \in first .. last : activity[i] \in Record
    BY <1>1
  <1>4. /\ page \in Seq(Record)
        /\ Len(page) = IF first <= last THEN last - first + 1 ELSE 0
        /\ \A i \in 1 .. last - first + 1 : page[i] = activity[first + i - 1]
    BY <1>1, <1>3, SubSeqProperties
  <1> HIDE DEF page
  <1>5. ASSUME NEW i \in DOMAIN activity, FirstOf(n) <= i, i <= LastOf(n)
        PROVE  \E j \in DOMAIN page : page[j] = activity[i]
    <2>1. first <= i /\ i <= last
      BY <1>5, PagesMeet DEF first, last
    <2>2. i - first + 1 \in 1 .. last - first + 1 /\ first + (i - first + 1) - 1 = i
      BY <2>1, <1>1
    <2>3. i - first + 1 \in DOMAIN page /\ page[i - first + 1] = activity[i]
      BY <2>1, <2>2, <1>1, <1>4
    <2> QED
      BY <2>3
  <1> QED
    BY <1>2, <1>4, <1>5

LEMMA IdsOfConcat ==
    ASSUME NEW s \in Seq(Record), NEW t \in Seq(Record)
    PROVE  /\ s \o t \in Seq(Record)
           /\ Ids(s) \subseteq Ids(s \o t)
           /\ \A j \in DOMAIN t : t[j].id \in Ids(s \o t)
  <1>1. /\ s \o t \in Seq(Record) /\ Len(s \o t) = Len(s) + Len(t)
        /\ \A i \in 1 .. Len(s) + Len(t) :
              (s \o t)[i] = IF i <= Len(s) THEN s[i] ELSE t[i - Len(s)]
    BY ConcatProperties
  <1>2. \A i \in DOMAIN s : i \in DOMAIN (s \o t) /\ (s \o t)[i] = s[i]
    BY <1>1
  <1>3. ASSUME NEW j \in DOMAIN t
        PROVE  t[j].id \in Ids(s \o t)
    <2>1. Len(s) + j \in DOMAIN (s \o t) /\ (s \o t)[Len(s) + j] = t[j]
      BY <1>1
    <2> QED
      BY <2>1 DEF Ids
  <1> QED
    BY <1>1, <1>2, <1>3 DEF Ids

------------------------------------------------------------------------------
(* The inductive invariant.                                                 *)

\* A table in which no two rows have the same key.
Apart(some) == \A r, s \in some : r.key = s.key => r = s

KeysApart == Apart(rows) /\ Apart(load.rows)

SameKey(r, s) == r.key = s.key /\ OwnedKey(r) = OwnedKey(s) /\ r.known = s.known

\* No row that was read has gone or changed hands.
RowsKept == \A r \in load.rows : \E s \in rows : SameKey(r, s)

\* What was there at the opening is fetched, or still ahead.
RestAhead ==
    load.pc = "fetch" =>
        \A x \in opened :
            \/ x \in Ids(load.fetched)
            \/ \E i \in DOMAIN activity : FirstOf(load.page) <= i /\ activity[i].id = x

IInv ==
    /\ TypeOK
    /\ IsFiniteSet(rows)
    /\ KeysApart
    /\ RowsKept
    /\ RestAhead
    /\ NothingMissed

LEMMA InitIInv == Init => IInv
  <1> SUFFICES ASSUME Init PROVE IInv
    OBVIOUS
  <1>1. rows = {} /\ IsFiniteSet(rows) /\ load.pc = "closed" /\ load.rows = {}
    BY FS_EmptySet DEF Init
  <1>2. activity \in Seq(Record) /\ opened = {}
    BY DEF Init
  <1>3. load \in Load
    <2>1. <<>> \in Seq(Record)
      OBVIOUS
    <2>2. /\ load = [pc |-> load.pc, user |-> load.user, rows |-> load.rows,
                     page |-> load.page, fetched |-> load.fetched]
          /\ load.pc = "closed" /\ load.user \in Users /\ load.rows = {}
          /\ load.page = 1 /\ load.fetched = <<>>
      BY DEF Init
    <2>3. load.pc \in Pcs /\ load.rows \in SUBSET KeyRow /\ load.page \in Nat \ {0}
      BY <2>2 DEF Pcs
    <2> QED
      BY <2>1, <2>2, <2>3 DEF Load
  <1>4. TypeOK
    BY <1>1, <1>2, <1>3 DEF TypeOK
  <1> QED
    BY <1>1, <1>4 DEF IInv, KeysApart, Apart, RowsKept, RestAhead, NothingMissed

\* A key request changes the rows and nothing else.
LEMMA RowsStep ==
    ASSUME IInv, Create \/ Rotate \/ Revoke
    PROVE  IInv'
  <1> USE DEF IInv
  <1>1. Cardinality(rows) + 1 \in Nat
    BY FS_CardinalityType
  <1>2. \A k \in Keys, u \in Users, b \in Idents, a \in BOOLEAN :
            /\ NewRow(k, u, b, a) \in KeyRow
            /\ NewRow(k, u, b, a).key = k
    BY <1>1 DEF NewRow, KeyRow
  <1>3. UNCHANGED <<activity, load, opened>>
    BY DEF Create, Rotate, Revoke
  <1>4. /\ rows' \subseteq KeyRow /\ IsFiniteSet(rows') /\ Apart(rows')
        /\ \A r \in rows : \E s \in rows' : SameKey(r, s)
    <2>1. CASE Create
      <3>1. PICK k \in Keys, u \in Users, b \in Idents :
                ~HasRow(k) /\ rows' = rows \cup {NewRow(k, u, b, TRUE)}
        BY <2>1 DEF Create
      <3>2. NewRow(k, u, b, TRUE) \in KeyRow /\ NewRow(k, u, b, TRUE).key = k
        BY <1>2
      <3>3. rows' \subseteq KeyRow /\ IsFiniteSet(rows')
        BY <3>1, <3>2, FS_AddElement DEF TypeOK
      <3>4. Apart(rows')
        BY <3>1, <3>2 DEF KeysApart, Apart, HasRow
      <3> QED
        BY <3>1, <3>3, <3>4 DEF SameKey
    <2>2. CASE Revoke
      <3>1. PICK old \in rows :
                rows' = (rows \ {old}) \cup {[old EXCEPT !.active = FALSE]}
        BY <2>2 DEF Revoke
      <3> DEFINE new == [old EXCEPT !.active = FALSE]
      <3>2. new \in KeyRow /\ SameKey(old, new)
        BY DEF TypeOK, KeyRow, SameKey, OwnedKey
      <3> HIDE DEF new
      <3>3. rows' = (rows \ {old}) \cup {new}
        BY <3>1 DEF new
      <3>4. rows' \subseteq KeyRow /\ IsFiniteSet(rows')
        BY <3>2, <3>3, FS_AddElement, FS_RemoveElement DEF TypeOK
      <3>5. Apart(rows')
        BY <3>2, <3>3 DEF KeysApart, Apart, SameKey
      <3> QED
        BY <3>2, <3>3, <3>4, <3>5 DEF SameKey
    <2>3. CASE Rotate
      <3>1. PICK old \in rows, k \in Keys, left \in {"revoked", "audit", "misread"} :
                /\ ~HasRow(k)
                /\ rows' = (rows \ {old})
                      \cup {[old EXCEPT !.active = @ /\ left # "revoked"],
                            NewRow(k, old.owner, old.ident, left # "audit")}
        BY <2>3 DEF Rotate
      <3> DEFINE changed == [old EXCEPT !.active = @ /\ left # "revoked"]
                 new == NewRow(k, old.owner, old.ident, left # "audit")
      <3>2. changed \in KeyRow /\ SameKey(old, changed)
        BY DEF TypeOK, KeyRow, SameKey, OwnedKey
      <3>3. new \in KeyRow /\ new.key = k
        BY <1>2 DEF TypeOK, KeyRow
      <3> HIDE DEF changed, new
      <3>4. rows' = ((rows \ {old}) \cup {changed}) \cup {new}
        BY <3>1 DEF changed, new
      <3>5. rows' \subseteq KeyRow /\ IsFiniteSet(rows')
        BY <3>2, <3>3, <3>4, FS_AddElement, FS_RemoveElement DEF TypeOK
      <3>6. Apart(rows')
        BY <3>1, <3>2, <3>3, <3>4 DEF KeysApart, Apart, SameKey, HasRow
      <3> QED
        BY <3>2, <3>4, <3>5, <3>6 DEF SameKey
    <2> QED
      BY <2>1, <2>2, <2>3
  <1>5. RowsKept'
    BY <1>3, <1>4 DEF RowsKept, SameKey
  <1>6. KeysApart'
    BY <1>3, <1>4 DEF KeysApart
  <1> QED
    BY <1>3, <1>4, <1>5, <1>6 DEF TypeOK, RestAhead, NothingMissed, Ids, FirstOf

\* A new record pushes others back, never forward.
LEMMA UseStep ==
    ASSUME IInv, Use
    PROVE  IInv'
  <1> USE DEF IInv
  <1>1. PICK k \in Keys, named \in Namings, m \in Models, at \in 1 .. Len(activity) + 1 :
            activity' = InsertAt(activity, at, [id |-> Len(activity) + 1, key |-> k,
                                                named |-> named, model |-> m])
    BY DEF Use
  <1> DEFINE rec == [id |-> Len(activity) + 1, key |-> k, named |-> named, model |-> m]
  <1>2. activity \in Seq(Record) /\ Len(activity) \in Nat
    BY DEF TypeOK
  <1>3. rec \in Record
    BY <1>2, PageAssumption DEF Record
  <1> HIDE DEF rec
  <1>4. activity' \in Seq(Record) /\ OneMore(activity, activity')
    <2>1. activity' = InsertAt(activity, at, rec)
      BY <1>1 DEF rec
    <2>2. InsertAt(activity, at, rec) \in Seq(Record)
          /\ OneMore(activity, InsertAt(activity, at, rec))
      BY ONLY <1>2, <1>3, at \in 1 .. Len(activity) + 1, InsertAtIndex
    <2> QED
      BY <2>1, <2>2
  <1>5. UNCHANGED <<rows, load, opened>>
    BY DEF Use
  <1>6. RestAhead'
    <2> SUFFICES ASSUME load.pc = "fetch", NEW x \in opened, x \notin Ids(load.fetched)
                 PROVE  \E j \in DOMAIN activity' :
                            FirstOf(load.page) <= j /\ activity'[j].id = x
      BY <1>5 DEF RestAhead, Ids, FirstOf
    <2>1. PICK i \in DOMAIN activity : FirstOf(load.page) <= i /\ activity[i].id = x
      BY DEF RestAhead
    <2>2. PICK j \in 1 .. Len(activity) + 1 : j >= i /\ activity'[j] = activity[i]
      BY <1>2, <1>4, <2>1 DEF OneMore
    <2>3. FirstOf(load.page) \in Nat
      BY PagesMeet DEF TypeOK, Load
    <2>4. i \in Nat /\ j \in DOMAIN activity'
      BY <1>2, <1>4, <2>1, <2>2 DEF OneMore
    <2> QED
      BY <2>1, <2>2, <2>3, <2>4
  <1> QED
    BY <1>4, <1>5, <1>6 DEF OneMore, TypeOK, KeysApart, Apart, RowsKept, NothingMissed, Ids

LEMMA OpenStep ==
    ASSUME IInv, Open
    PROVE  IInv'
  <1> USE DEF IInv
  <1>1. PICK u \in Users :
            load' = [pc |-> "fetch", user |-> u, page |-> 1, fetched |-> <<>>,
                     rows |-> {row \in rows : row.owner \in Viewed(u)}]
    BY DEF Open
  <1>2. opened' = Ids(activity) /\ UNCHANGED <<rows, activity>>
    BY DEF Open
  <1>3. TypeOK'
    <2>1. load' \in Load
      BY <1>1 DEF Load, Pcs, TypeOK
    <2>2. Ids(activity) \subseteq Nat
      <3>1. \A i \in DOMAIN activity : activity[i] \in Record
        BY DEF TypeOK
      <3> QED
        BY <3>1 DEF Ids, Record
    <2> QED
      BY <1>2, <2>1, <2>2 DEF TypeOK
  <1>4. RowsKept'
    BY <1>1, <1>2 DEF RowsKept, SameKey
  <1>5. RestAhead'
    <2> SUFFICES ASSUME NEW x \in Ids(activity)
                 PROVE  \E i \in DOMAIN activity : FirstOf(1) <= i /\ activity[i].id = x
      BY <1>1, <1>2 DEF RestAhead, FirstOf
    <2>1. PICK i \in DOMAIN activity : activity[i].id = x
      BY DEF Ids
    <2>2. FirstOf(1) = 1 /\ 1 <= i
      BY PagesMeet DEF TypeOK
    <2> QED
      BY <2>1, <2>2
  <1> QED
    BY <1>1, <1>2, <1>3, <1>4, <1>5 DEF KeysApart, Apart, NothingMissed

LEMMA FetchStep ==
    ASSUME IInv, Fetch
    PROVE  IInv'
  <1> USE DEF IInv
  <1> DEFINE n == load.page
             page == PageOf(n)
             all == load.fetched \o page
  <1>1. UNCHANGED <<rows, activity, opened>> /\ load.pc = "fetch"
    BY DEF Fetch
  <1>2. /\ n \in Nat \ {0} /\ activity \in Seq(Record) /\ load.fetched \in Seq(Record)
        /\ load.user \in Users /\ load.rows \subseteq KeyRow
    BY DEF TypeOK, Load
  <1>3. /\ load'.fetched = all /\ load'.rows = load.rows /\ load'.user = load.user
        /\ load'.page = IF IsLast(n) THEN n ELSE n + 1
        /\ load'.pc = IF IsLast(n) THEN "done" ELSE "fetch"
        /\ load' = [pc |-> load'.pc, user |-> load'.user, rows |-> load'.rows,
                    page |-> load'.page, fetched |-> load'.fetched]
    BY <1>1 DEF Fetch, TypeOK, Load
  <1>4. /\ page \in Seq(Record)
        /\ \A i \in DOMAIN activity :
             FirstOf(n) <= i /\ i <= LastOf(n) => \E j \in DOMAIN page : page[j] = activity[i]
    BY <1>2, PageHolds
  <1> HIDE DEF page
  <1>5. /\ all \in Seq(Record) /\ Ids(load.fetched) \subseteq Ids(all)
        /\ \A j \in DOMAIN page : page[j].id \in Ids(all)
    BY <1>2, <1>4, IdsOfConcat
  <1> HIDE DEF all
  <1>6. TypeOK'
    <2>1. load'.pc \in Pcs /\ load'.page \in Nat \ {0}
      BY <1>2, <1>3 DEF Pcs
    <2>2. load' \in Load
      BY <1>2, <1>3, <1>5, <2>1 DEF Load
    <2> QED
      BY <1>1, <2>2 DEF TypeOK
  <1>7. /\ FirstOf(n) \in Nat /\ LastOf(n) \in Nat
        /\ FirstOf(n + 1) = LastOf(n) + 1
    BY <1>2, PagesMeet
  <1>8. ASSUME NEW x \in opened, x \notin Ids(all)
        PROVE  \E i \in DOMAIN activity : LastOf(n) < i /\ activity[i].id = x
    <2>1. PICK i \in DOMAIN activity : FirstOf(n) <= i /\ activity[i].id = x
      BY <1>1, <1>5, <1>8 DEF RestAhead
    <2>2. ~(i <= LastOf(n))
      BY <1>4, <1>5, <1>8, <2>1
    <2> QED
      BY <1>2, <1>7, <2>1, <2>2
  <1>9. CASE IsLast(n)
    <2>1. \A x \in opened : x \in Ids(all)
      BY <1>2, <1>7, <1>8, <1>9 DEF IsLast
    <2> QED
      BY <1>1, <1>3, <1>6, <1>9, <2>1
         DEF KeysApart, Apart, RowsKept, RestAhead, NothingMissed, Ids
  <1>10. CASE ~IsLast(n)
    <2>1. RestAhead'
      <3> SUFFICES ASSUME NEW x \in opened, x \notin Ids(all)
                   PROVE  \E i \in DOMAIN activity : FirstOf(n + 1) <= i /\ activity[i].id = x
        BY <1>1, <1>3, <1>10 DEF RestAhead, Ids, FirstOf
      <3> QED
        BY <1>2, <1>7, <1>8
    <2> QED
      BY <1>1, <1>3, <1>6, <1>10, <2>1 DEF KeysApart, Apart, RowsKept, NothingMissed
  <1> QED
    BY <1>9, <1>10

LEMMA NextIInv == IInv /\ [Next]_vars => IInv'
  <1> SUFFICES ASSUME IInv, [Next]_vars PROVE IInv'
    OBVIOUS
  <1>1. CASE Create \/ Rotate \/ Revoke
    BY <1>1, RowsStep
  <1>2. CASE Use
    BY <1>2, UseStep
  <1>3. CASE Open
    BY <1>3, OpenStep
  <1>4. CASE Fetch
    BY <1>4, FetchStep
  <1>5. CASE FetchFails
    <2>1. /\ UNCHANGED <<rows, activity, opened>> /\ load' \in Load
          /\ load'.rows = load.rows /\ load'.pc \in {"unavailable", "error"}
      BY <1>5 DEF FetchFails, IInv, TypeOK, Load, Pcs
    <2> QED
      BY <2>1 DEF IInv, TypeOK, KeysApart, Apart, RowsKept, RestAhead, NothingMissed
  <1>6. CASE UNCHANGED vars
    BY <1>6 DEF vars, IInv, TypeOK, KeysApart, Apart, RowsKept, RestAhead, NothingMissed, Ids, FirstOf
  <1> QED
    BY <1>1, <1>2, <1>3, <1>4, <1>5, <1>6 DEF Next

\* The inductive invariant holds throughout.
THEOREM PageInvariance == Spec => []IInv
  BY InitIInv, NextIInv, PTL DEF Spec

\* The page's state keeps its types.
THEOREM TypeCorrect == Spec => []TypeOK
  <1>1. IInv => TypeOK
    BY DEF IInv
  <1> QED
    BY <1>1, PageInvariance, PTL

\* For every page size, however the activity grows between two pages, no
\* record that was there at the opening is missed (daily_activity).
THEOREM NoRecordMissed == Spec => []NothingMissed
  <1>1. IInv => NothingMissed
    BY DEF IInv
  <1> QED
    BY <1>1, PageInvariance, PTL

------------------------------------------------------------------------------
(* Attribution.                                                             *)

LEMMA KeyFound ==
    ASSUME NEW some, Apart(some), NEW row \in some
    PROVE  RowWithKey(some, row.key) = row
  BY DEF Apart, RowWithKey

\* A record counts for the owner of the row that has its key, if the row
\* knows its token or the record its alias; otherwise for no user.
LEMMA ClassifyOwned ==
    ASSUME NEW some, Apart(some), NEW rec, NEW row \in some,
           row.key = rec.key, row.known \/ rec.named
    PROVE  Classify(some, rec) = UserTarget(OwnedKey(row))
  <1>1. RowWithKey(some, rec.key) = row
    BY KeyFound
  <1>2. CASE rec.key \in DOMAIN ByToken(some)
    BY <1>1, <1>2 DEF Classify, ByToken
  <1>3. CASE rec.key \notin DOMAIN ByToken(some)
    <2>1. ~row.known
      BY <1>3 DEF ByToken
    <2>2. rec.named /\ rec.key \in DOMAIN ByAlias(some)
      BY <2>1 DEF ByAlias
    <2> QED
      BY <1>1, <1>3, <2>2 DEF Classify, ByAlias
  <1> QED
    BY <1>2, <1>3

LEMMA ClassifyStranger ==
    ASSUME NEW some, NEW rec, Classify(some, rec).kind = "user"
    PROVE  \E row \in some : row.key = rec.key /\ (row.known \/ rec.named)
  <1>1. CASE rec.key \in DOMAIN ByToken(some)
    BY <1>1 DEF ByToken
  <1>2. CASE rec.named /\ rec.key \in DOMAIN ByAlias(some)
    BY <1>2 DEF ByAlias
  <1>3. CASE ~(rec.key \in DOMAIN ByToken(some)) /\ ~(rec.named /\ rec.key \in DOMAIN ByAlias(some))
    BY <1>3 DEF Classify, ServiceTarget, UnknownTarget
  <1> QED
    BY <1>1, <1>2, <1>3

LEMMA StaleRowsHarmless == IInv => StaleRowsDoNotMislead
  <1> SUFFICES ASSUME IInv, NEW i \in Positions,
                      Classify(load.rows, load.fetched[i]).kind = "user"
               PROVE  Classify(rows, load.fetched[i]) = Classify(load.rows, load.fetched[i])
    BY DEF StaleRowsDoNotMislead
  <1> DEFINE rec == load.fetched[i]
  <1>1. PICK row \in load.rows : row.key = rec.key /\ (row.known \/ rec.named)
    BY ClassifyStranger
  <1>2. PICK now \in rows : SameKey(row, now)
    BY DEF IInv, RowsKept
  <1>3. Classify(load.rows, rec) = UserTarget(OwnedKey(row))
    BY <1>1, ClassifyOwned DEF IInv, KeysApart
  <1>4. Classify(rows, rec) = UserTarget(OwnedKey(now))
    <2>1. now.key = rec.key /\ (now.known \/ rec.named)
      BY <1>1, <1>2 DEF SameKey
    <2> QED
      BY <2>1, ClassifyOwned DEF IInv, KeysApart
  <1> QED
    BY <1>2, <1>3, <1>4 DEF SameKey

\* A record attributed by rows read before the activity was awaited is
\* attributed alike by the rows of any later moment of the page's life.
THEOREM StaleRowsMisleadNobody == Spec => []StaleRowsDoNotMislead
  BY PageInvariance, StaleRowsHarmless, PTL

\* The positions counted under a logical key are those of its rows' records.
LEMMA CountedIsOwned ==
    ASSUME IInv, NEW u \in Users, NEW b \in Idents
    PROVE  Counted(load.rows, load.fetched, UserTarget([user |-> u, bucket |-> b])) =
               {i \in Positions :
                   \E row \in load.rows :
                       /\ OwnedKey(row) = [user |-> u, bucket |-> b]
                       /\ row.key = load.fetched[i].key
                       /\ row.known \/ load.fetched[i].named}
  <1> DEFINE owner == [user |-> u, bucket |-> b]
             Owns(row, i) == /\ OwnedKey(row) = owner
                             /\ row.key = load.fetched[i].key
                             /\ row.known \/ load.fetched[i].named
  <1>1. ASSUME NEW i \in Positions, Classify(load.rows, load.fetched[i]) = UserTarget(owner)
        PROVE  \E row \in load.rows : Owns(row, i)
    <2>1. Classify(load.rows, load.fetched[i]).kind = "user"
      BY <1>1 DEF UserTarget
    <2>2. PICK row \in load.rows :
              row.key = load.fetched[i].key /\ (row.known \/ load.fetched[i].named)
      BY <2>1, ClassifyStranger
    <2>3. UserTarget(OwnedKey(row)) = UserTarget(owner)
      BY <1>1, <2>2, ClassifyOwned DEF IInv, KeysApart
    <2>4. OwnedKey(row) = owner
      BY <2>3 DEF UserTarget
    <2> QED
      BY <2>2, <2>4
  <1>2. ASSUME NEW i \in Positions, NEW row \in load.rows, Owns(row, i)
        PROVE  Classify(load.rows, load.fetched[i]) = UserTarget(owner)
    BY <1>2, ClassifyOwned DEF IInv, KeysApart
  <1> HIDE DEF owner
  <1> QED
    BY <1>1, <1>2 DEF Counted, Positions, owner

LEMMA KeysShowTheirUsage == IInv => UsageSpansRotations
  <1> SUFFICES ASSUME IInv PROVE UsageSpansRotations
    OBVIOUS
  <1> SUFFICES ASSUME load.pc = "done", NEW u \in Viewed(load.user), NEW b \in Idents
               PROVE  ShownUnder(u, b) =
                          Counted(load.rows, load.fetched, UserTarget([user |-> u, bucket |-> b]))
    <2>1. load.user \in Users
      BY DEF IInv, TypeOK, Load
    <2>2. Viewed(load.user) \subseteq Users
      BY <2>1 DEF Viewed
    <2> QED
      BY <2>2, CountedIsOwned DEF UsageSpansRotations
  <1> DEFINE counted == Counted(load.rows, load.fetched, UserTarget([user |-> u, bucket |-> b]))
             shown == {c \in Buckets(load.rows, u) : Shown(load.rows, load.fetched, u, c)}
  <1>1. u \in Users
    BY DEF IInv, TypeOK, Load, Viewed
  <1>2. /\ DOMAIN Shows.users[u].keys = shown
        /\ b \in shown => Shows.users[u].keys[b].total = counted
    BY DEF Shows, Report, Summary, KeyUsage
  <1>3. CASE b \in shown
    BY <1>2, <1>3 DEF ShownUnder
  <1>4. CASE b \notin shown
    <2>1. counted = {}
      <3>1. CASE b \in Buckets(load.rows, u)
        BY <1>4, <3>1 DEF Shown
      <3>2. CASE b \notin Buckets(load.rows, u)
        <4>1. \A row \in load.rows : OwnedKey(row) # [user |-> u, bucket |-> b]
          BY <3>2 DEF Buckets, OwnedKey
        <4> QED
          BY <1>1, <4>1, CountedIsOwned
      <3> QED
        BY <3>1, <3>2
    <2> QED
      BY <1>2, <1>4, <2>1 DEF ShownUnder
  <1> QED
    BY <1>3, <1>4

\* Every logical key on a finished page shows what all its tokens have used,
\* and nothing else, for any number of users, keys, rotations and records.
THEOREM UsageFollowsRotations == Spec => []UsageSpansRotations
  BY PageInvariance, KeysShowTheirUsage, PTL
=============================================================================
