---------------------------- MODULE StatusProofs ----------------------------
(***************************************************************************)
(* Proofs about StatusSessions, for every set of schedulers, commands and  *)
(* routes and every setting.                                               *)
(***************************************************************************)
EXTENDS StatusSessions, TLAPS

USE NoneAssumption, ThresholdAssumption, HalfIntervalAssumption,
    MaxHoursAssumption, MaxLagAssumption, SessionsAssumption

------------------------------------------------------------------------------
(* Operations keep a row a row.                                             *)

\* The row a missing one is replaced with is a row.
LEMMA GetOrCreateType ==
    ASSUME NEW r \in Row \cup {None}
    PROVE  GetOrCreate(r) \in Row
  BY DEF GetOrCreate, NewRow, Row, Status

\* Time leaves a row a row.
LEMMA OlderType ==
    ASSUME NEW r \in Row
    PROVE  Older(r) \in Row
  <1>1. Aged(r.checked, CheckedCap) \in (0 .. CheckedCap) \cup {None}
    BY DEF Row, Aged, CheckedCap
  <1>2. Aged(r.started, StartedCap) \in (0 .. StartedCap) \cup {None}
    BY DEF Row, Aged, StartedCap
  <1> QED
    BY <1>1, <1>2 DEF Older, Row

\* Ending a window leaves a row.
LEMMA EndType ==
    ASSUME NEW r \in Row
    PROVE  EndMaintenance(r) \in Row
  <1>1. 0 \in 0 .. Threshold
    OBVIOUS
  <1>2. \A s \in Row : [s EXCEPT !.active = FALSE, !.failures = 0] \in Row
    BY <1>1 DEF Row
  <1>3. \A s \in Row : [s EXCEPT !.started = None, !.owners = {}] \in Row
    BY DEF Row
  <1>4. [r EXCEPT !.active = FALSE, !.started = None, !.owners = {}, !.failures = 0]
          = [[r EXCEPT !.active = FALSE, !.failures = 0] EXCEPT !.started = None, !.owners = {}]
    BY DEF Row
  <1> QED
    BY <1>2, <1>3, <1>4 DEF EndMaintenance

\* Opening a window, or taking one over, leaves a row.
LEMMA StartType ==
    ASSUME NEW r \in Row, NEW lag \in Lags
    PROVE  StartMaintenance(r, lag) \in Row
  <1>1. lag \in 0 .. StartedCap
    BY DEF Lags, StartedCap
  <1>2. [r EXCEPT !.owners = {}] \in Row
    BY DEF Row
  <1>3. [r EXCEPT !.active = TRUE, !.started = lag] \in Row
    BY <1>1 DEF Row
  <1> QED
    BY <1>2, <1>3 DEF StartMaintenance

\* A lease leaves a row.
LEMMA AcquireType ==
    ASSUME NEW r \in Row, NEW o \in Owners, NEW lag \in Lags
    PROVE  AcquireMaintenance(r, o, lag) \in Row
  <1>1. StartMaintenance(r, lag) \in Row
    BY StartType
  <1>2. \A s \in Row : [s EXCEPT !.owners = {o}] \in Row
    BY DEF Row
  <1>3. [r EXCEPT !.owners = @ \cup {o}] \in Row
    BY DEF Row
  <1>4. r.active \in BOOLEAN
    BY DEF Row
  <1> QED
    BY <1>1, <1>2, <1>3, <1>4 DEF AcquireMaintenance

\* Releasing a lease leaves a row.
LEMMA ReleaseType ==
    ASSUME NEW r \in Row, NEW o \in Owners
    PROVE  ReleaseMaintenance(r, o) \in Row
  <1>1. EndMaintenance(r) \in Row
    BY EndType
  <1>2. [r EXCEPT !.owners = @ \ {o}] \in Row
    BY DEF Row
  <1> QED
    BY <1>1, <1>2 DEF ReleaseMaintenance, Row

\* Recording a probe leaves a row.
LEMMA RecordProbeType ==
    ASSUME NEW r \in Row, NEW ok \in BOOLEAN, NEW lag \in Lags
    PROVE  RecordProbe(r, ok, lag) \in Row
  <1> DEFINE e == ExpireMaintenance(r, lag)
  <1>1. e \in Row
    BY EndType DEF ExpireMaintenance
  <1>2. Failed(e) \in 0 .. Threshold
    BY <1>1 DEF Failed, Row
  <1>3. lag \in 0 .. CheckedCap
    BY DEF Lags, CheckedCap
  <1> HIDE DEF e
  <1>4. \A n \in 0 .. Threshold, st \in Status :
          [e EXCEPT !.checked = lag, !.failures = n, !.status = st] \in Row
    BY <1>1, <1>3 DEF Row
  <1>5. 0 \in 0 .. Threshold /\ e.status \in Status
    BY <1>1 DEF Row
  <1>6. Fold(e, ok, lag) \in Row
    BY <1>2, <1>4, <1>5 DEF Fold, Status
  <1> QED
    BY <1>6 DEF RecordProbe, e

\* Every request leaves a row.
LEMMA PerformType ==
    ASSUME NEW q \in Requests, NEW ok \in BOOLEAN, NEW r \in Row, NEW lag \in Lags
    PROVE  Perform(q, ok, r, lag) \in Row
  <1>1. \/ q.kind \in {"probe", "check", "start", "end", "view"}
        \/ q.kind \in {"acquire", "release"} /\ q.owner \in Owners
    BY DEF Requests
  <1>2. RecordProbe(r, ok, lag) \in Row
    BY RecordProbeType
  <1>3. StartMaintenance(r, lag) \in Row /\ EndMaintenance(r) \in Row
    BY StartType, EndType
  <1>4. q.owner \in Owners => /\ AcquireMaintenance(r, q.owner, lag) \in Row
                              /\ ReleaseMaintenance(r, q.owner) \in Row
    BY AcquireType, ReleaseType
  <1> QED
    BY <1>1, <1>2, <1>3, <1>4 DEF Perform

\* A flush leaves a row, and stores the session's row when it started from the
\* stored one.
LEMMA StoredType ==
    ASSUME NEW r \in Row, NEW base \in Row, NEW new \in Row
    PROVE  Stored(r, base, new) \in Row
  <1>1. r # None
    OBVIOUS
  <1>2. DOMAIN r = {"status", "failures", "checked", "active", "started", "owners"}
    BY DEF Row
  <1>3. \A f \in DOMAIN r : Stored(r, base, new)[f] \in {r[f], new[f]}
    BY <1>1 DEF Stored
  <1> QED
    BY <1>1, <1>2, <1>3 DEF Stored, Row

LEMMA StoredFresh ==
    ASSUME NEW r \in Row, NEW new \in Row
    PROVE  Stored(r, r, new) = new
  <1>1. r # None
    OBVIOUS
  <1>2. DOMAIN r = DOMAIN new
    BY DEF Row
  <1>3. Stored(r, r, new) = [f \in DOMAIN new |-> new[f]]
    BY <1>1, <1>2 DEF Stored
  <1> QED
    BY <1>3 DEF Row

\* A flush with nothing changed changes nothing.
LEMMA StoredUnchanged ==
    ASSUME NEW r \in Row, NEW base \in Row
    PROVE  Stored(r, base, base) = r
  <1>1. r # None
    OBVIOUS
  <1>2. Stored(r, base, base) = [f \in DOMAIN r |-> r[f]]
    BY <1>1 DEF Stored
  <1> QED
    BY <1>2 DEF Row
------------------------------------------------------------------------------
(* Time commutes with every operation: an operation on the row performed    *)
(* lag ago leaves, one tick later, what it leaves when performed on the     *)
(* older row lag + 1 ago.                                                   *)

\* Rows with equal fields are equal.
LEMMA RowEqual ==
    ASSUME NEW r \in Row, NEW s \in Row,
           r.status = s.status, r.failures = s.failures, r.checked = s.checked,
           r.active = s.active, r.started = s.started, r.owners = s.owners
    PROVE  r = s
  BY DEF Row

\* The fields of an older row.
LEMMA OlderFields ==
    ASSUME NEW r \in Row
    PROVE  /\ Older(r) \in Row
           /\ Older(r).status = r.status
           /\ Older(r).failures = r.failures
           /\ Older(r).checked = Aged(r.checked, CheckedCap)
           /\ Older(r).active = r.active
           /\ Older(r).started = Aged(r.started, StartedCap)
           /\ Older(r).owners = r.owners
  BY OlderType DEF Older, Row

\* The fields a closed window, an opened one and a folded probe leave.
LEMMA EndFields ==
    ASSUME NEW r \in Row, r.active
    PROVE  LET e == EndMaintenance(r) IN
           /\ e \in Row
           /\ e.status = r.status /\ e.failures = 0 /\ e.checked = r.checked
           /\ ~e.active /\ e.started = None /\ e.owners = {}
  BY EndType DEF EndMaintenance, Row

LEMMA StartFields ==
    ASSUME NEW r \in Row, NEW lag \in Lags
    PROVE  LET s == StartMaintenance(r, lag) IN
           /\ s \in Row
           /\ s.status = r.status /\ s.failures = r.failures /\ s.checked = r.checked
           /\ s.active
           /\ s.started = IF r.active THEN r.started ELSE lag
           /\ s.owners = IF r.active THEN {} ELSE r.owners
  BY StartType DEF StartMaintenance, Row

LEMMA FoldFields ==
    ASSUME NEW r \in Row, NEW ok \in BOOLEAN, NEW lag \in Lags
    PROVE  LET f == Fold(r, ok, lag) IN
           /\ f \in Row
           /\ f.status = IF ok THEN "up" ELSE IF Failed(r) >= Threshold THEN "down" ELSE r.status
           /\ f.failures = IF ok THEN 0 ELSE Failed(r)
           /\ f.checked = lag
           /\ f.active = r.active /\ f.started = r.started /\ f.owners = r.owners
  <1>1. Failed(r) \in 0 .. Threshold
    BY DEF Failed, Row
  <1>2. lag \in 0 .. CheckedCap
    BY DEF Lags, CheckedCap
  <1>3. \A n \in 0 .. Threshold, st \in Status :
          [r EXCEPT !.checked = lag, !.failures = n, !.status = st] \in Row
    BY <1>2 DEF Row
  <1>4. 0 \in 0 .. Threshold /\ r.status \in Status
    BY DEF Row
  <1>5. Fold(r, ok, lag) \in Row
    BY <1>1, <1>3, <1>4 DEF Fold, Status
  <1> QED
    BY <1>5 DEF Fold, Row

LEMMA EndOlder ==
    ASSUME NEW r \in Row
    PROVE  Older(EndMaintenance(r)) = EndMaintenance(Older(r))
  <1>1. CASE r.active
    <2>1. Older(r) \in Row /\ Older(r).active
      BY <1>1, OlderFields
    <2> DEFINE lhs == Older(EndMaintenance(r))
               rhs == EndMaintenance(Older(r))
    <2>2. /\ lhs \in Row
          /\ lhs.status = r.status /\ lhs.failures = 0
          /\ lhs.checked = Aged(r.checked, CheckedCap)
          /\ ~lhs.active /\ lhs.started = None /\ lhs.owners = {}
      BY <1>1, EndFields, OlderFields DEF Aged
    <2>3. /\ rhs \in Row
          /\ rhs.status = r.status /\ rhs.failures = 0
          /\ rhs.checked = Aged(r.checked, CheckedCap)
          /\ ~rhs.active /\ rhs.started = None /\ rhs.owners = {}
      BY <2>1, EndFields, OlderFields
    <2>4. lhs.active = rhs.active
      BY <2>2, <2>3 DEF Row
    <2> QED
      BY <2>2, <2>3, <2>4, RowEqual
  <1>2. CASE ~r.active
    BY <1>2, OlderFields DEF EndMaintenance
  <1> QED
    BY <1>1, <1>2

LEMMA StartOlder ==
    ASSUME NEW r \in Row, NEW lag \in Lags, lag < MaxLag
    PROVE  Older(StartMaintenance(r, lag)) = StartMaintenance(Older(r), lag + 1)
  <1>1. lag + 1 \in Lags
    BY DEF Lags
  <1>2. Aged(lag, StartedCap) = lag + 1
    BY DEF Aged, StartedCap, Lags
  <1> DEFINE lhs == Older(StartMaintenance(r, lag))
             rhs == StartMaintenance(Older(r), lag + 1)
  <1>3. /\ lhs \in Row
        /\ lhs.status = r.status /\ lhs.failures = r.failures
        /\ lhs.checked = Aged(r.checked, CheckedCap)
        /\ lhs.active
        /\ lhs.started = IF r.active THEN Aged(r.started, StartedCap) ELSE lag + 1
        /\ lhs.owners = IF r.active THEN {} ELSE r.owners
    BY <1>2, StartFields, OlderFields
  <1>4. /\ rhs \in Row
        /\ rhs.status = r.status /\ rhs.failures = r.failures
        /\ rhs.checked = Aged(r.checked, CheckedCap)
        /\ rhs.active
        /\ rhs.started = IF r.active THEN Aged(r.started, StartedCap) ELSE lag + 1
        /\ rhs.owners = IF r.active THEN {} ELSE r.owners
    BY <1>1, StartFields, OlderFields
  <1>5. lhs.active = rhs.active
    BY <1>3, <1>4 DEF Row
  <1> QED
    BY <1>3, <1>4, <1>5, RowEqual

\* Changing the owners commutes with time.
LEMMA OwnersOlder ==
    ASSUME NEW r \in Row, NEW O \in SUBSET Owners
    PROVE  /\ [r EXCEPT !.owners = O] \in Row
           /\ Older([r EXCEPT !.owners = O]) = [Older(r) EXCEPT !.owners = O]
  <1>1. [r EXCEPT !.owners = O] \in Row /\ [Older(r) EXCEPT !.owners = O] \in Row
    BY OlderType DEF Row
  <1> QED
    BY <1>1, OlderFields, RowEqual DEF Row

LEMMA AcquireOlder ==
    ASSUME NEW r \in Row, NEW o \in Owners, NEW lag \in Lags, lag < MaxLag
    PROVE  Older(AcquireMaintenance(r, o, lag)) = AcquireMaintenance(Older(r), o, lag + 1)
  <1>1. StartMaintenance(r, lag) \in Row
    BY StartType
  <1>2. {o} \in SUBSET Owners /\ r.owners \cup {o} \in SUBSET Owners
    BY DEF Row
  <1>3. Older([StartMaintenance(r, lag) EXCEPT !.owners = {o}])
          = [StartMaintenance(Older(r), lag + 1) EXCEPT !.owners = {o}]
    BY <1>1, <1>2, OwnersOlder, StartOlder
  <1>4. Older([r EXCEPT !.owners = r.owners \cup {o}])
          = [Older(r) EXCEPT !.owners = r.owners \cup {o}]
    BY <1>2, OwnersOlder
  <1>5. Older(r).active = r.active /\ Older(r).owners = r.owners
    BY OlderFields
  <1> QED
    BY <1>3, <1>4, <1>5 DEF AcquireMaintenance, Row

LEMMA ReleaseOlder ==
    ASSUME NEW r \in Row, NEW o \in Owners
    PROVE  Older(ReleaseMaintenance(r, o)) = ReleaseMaintenance(Older(r), o)
  <1>1. r.owners \ {o} \in SUBSET Owners
    BY DEF Row
  <1>2. Older([r EXCEPT !.owners = r.owners \ {o}])
          = [Older(r) EXCEPT !.owners = r.owners \ {o}]
    BY <1>1, OwnersOlder
  <1>3. Older(EndMaintenance(r)) = EndMaintenance(Older(r))
    BY EndOlder
  <1>4. Older(r).active = r.active /\ Older(r).owners = r.owners
    BY OlderFields
  <1> QED
    BY <1>2, <1>3, <1>4 DEF ReleaseMaintenance, Row

LEMMA RecordProbeOlder ==
    ASSUME NEW r \in Row, NEW ok \in BOOLEAN, NEW lag \in Lags, lag < MaxLag
    PROVE  Older(RecordProbe(r, ok, lag)) = RecordProbe(Older(r), ok, lag + 1)
  <1> DEFINE e == ExpireMaintenance(r, lag)
  <1>1. e \in Row
    BY EndType DEF ExpireMaintenance
  <1>2. lag + 1 \in Lags
    BY DEF Lags
  <1>3. ExpireMaintenance(Older(r), lag + 1) = Older(e)
    <2>1. r.started \in (0 .. (MaxHours + MaxLag)) \cup {None}
      BY DEF Row, StartedCap
    <2>2. Older(r).started = Aged(r.started, MaxHours + MaxLag)
      BY OlderFields DEF StartedCap
    <2>3. AtLeast(Older(r).started, MaxHours, lag + 1) <=> AtLeast(r.started, MaxHours, lag)
      BY <2>1, <2>2 DEF AtLeast, Aged, Lags
    <2> QED
      BY <2>3, OlderFields, EndOlder DEF ExpireMaintenance
  <1>4. Aged(lag, CheckedCap) = lag + 1
    BY DEF Aged, CheckedCap, Lags
  <1> HIDE DEF e
  <1>6. Failed(Older(e)) = Failed(e)
    BY <1>1, OlderFields DEF Failed
  <1> DEFINE lhs == Older(Fold(e, ok, lag))
             rhs == Fold(Older(e), ok, lag + 1)
  <1>7. /\ lhs \in Row
        /\ lhs.status = IF ok THEN "up" ELSE IF Failed(e) >= Threshold THEN "down" ELSE e.status
        /\ lhs.failures = IF ok THEN 0 ELSE Failed(e)
        /\ lhs.checked = lag + 1
        /\ lhs.active = e.active /\ lhs.started = Aged(e.started, StartedCap)
        /\ lhs.owners = e.owners
    BY <1>1, <1>4, FoldFields, OlderFields
  <1>8. /\ rhs \in Row
        /\ rhs.status = IF ok THEN "up" ELSE IF Failed(e) >= Threshold THEN "down" ELSE e.status
        /\ rhs.failures = IF ok THEN 0 ELSE Failed(e)
        /\ rhs.checked = lag + 1
        /\ rhs.active = e.active /\ rhs.started = Aged(e.started, StartedCap)
        /\ rhs.owners = e.owners
    BY <1>1, <1>2, <1>6, FoldFields, OlderFields
  <1>9. lhs = rhs
    BY <1>7, <1>8, RowEqual
  <1> QED
    BY <1>3, <1>9 DEF RecordProbe, e

\* Time commutes with every request.
LEMMA PerformOlder ==
    ASSUME NEW q \in Requests, NEW ok \in BOOLEAN, NEW r \in Row,
           NEW lag \in Lags, lag < MaxLag
    PROVE  Older(Perform(q, ok, r, lag)) = Perform(q, ok, Older(r), lag + 1)
  <1>1. \/ q.kind \in {"probe", "check", "start", "end", "view"}
        \/ q.kind \in {"acquire", "release"} /\ q.owner \in Owners
    BY DEF Requests
  <1>2. TooRecent(Older(r), lag + 1) <=> TooRecent(r, lag)
    BY OlderFields DEF TooRecent, Aged, CheckedCap, Lags, Row
  <1>3. Older(RecordProbe(r, ok, lag)) = RecordProbe(Older(r), ok, lag + 1)
    BY RecordProbeOlder
  <1>4. /\ Older(StartMaintenance(r, lag)) = StartMaintenance(Older(r), lag + 1)
        /\ Older(EndMaintenance(r)) = EndMaintenance(Older(r))
    BY StartOlder, EndOlder
  <1>5. q.owner \in Owners =>
          /\ Older(AcquireMaintenance(r, q.owner, lag))
                = AcquireMaintenance(Older(r), q.owner, lag + 1)
          /\ Older(ReleaseMaintenance(r, q.owner)) = ReleaseMaintenance(Older(r), q.owner)
    BY AcquireOlder, ReleaseOlder
  <1> QED
    BY <1>1, <1>2, <1>3, <1>4, <1>5 DEF Perform

------------------------------------------------------------------------------
(* The inductive invariant.                                                 *)

\* What a session's copies have to do with the lock and the committed row.
\* LockedFresh alone is not inductive: a commit by p must leave every other
\* holder's copy valid, so p either has the lock or has nothing to write.
Consistent(p) ==
    LET s == sess[p] IN
    /\ lock = p => s.pc \notin {"idle", "begin"}
    /\ p \in Lockers /\ s.pc \notin {"idle", "begin"} => lock = p
    /\ s.pc \in Loaded => /\ s.base \in Row
                          /\ row = None => lock = p
                          /\ lock = p => s.base = GetOrCreate(row)
    /\ s.pc = "commit" => s.pend = Perform(s.q, s.ok, s.base, s.lag)
    /\ p \in Schedulers /\ s.pc # "idle" => s.q = Ask("probe")
    /\ p \in Routes => s.q.kind \in {"start", "end", "view"}

IInv == TypeOK /\ \A p \in Procs : Consistent(p)

\* What a committing session has changed is a row.
LEMMA PendType ==
    ASSUME IInv, NEW p \in Procs, sess[p].pc = "commit"
    PROVE  /\ sess[p].base \in Row
           /\ sess[p].pend \in Row
           /\ sess[p].pend = Perform(sess[p].q, sess[p].ok, sess[p].base, sess[p].lag)
  <1>1. sess[p] \in Session /\ Consistent(p)
    BY DEF IInv, TypeOK
  <1>2. sess[p].base \in Row /\ sess[p].pend = Perform(sess[p].q, sess[p].ok, sess[p].base, sess[p].lag)
    BY <1>1 DEF Consistent, Loaded
  <1>3. sess[p].q \in Requests /\ sess[p].ok \in BOOLEAN /\ sess[p].lag \in Lags
    BY <1>1 DEF Session
  <1> QED
    BY <1>2, <1>3, PerformType

\* A session that is not under way is a session.
LEMMA NoSessionType ==
    /\ NoSession \in Session
    /\ NoSession.pc = "idle"
    /\ NoSession.q.kind = "view"
  BY DEF NoSession, Session, Pcs, Ask, Requests, Lags

\* The initial state.
LEMMA InitIInv == Init => IInv
  <1> SUFFICES ASSUME Init PROVE IInv
    OBVIOUS
  <1>1. TypeOK
    <2>1. 0 \in 0 .. Interval
      BY DEF Interval
    <2> QED
      BY <2>1, NoSessionType DEF Init, TypeOK
  <1>2. \A p \in Procs : Consistent(p)
    BY NoSessionType DEF Init, Consistent, Procs, Loaded
  <1> QED
    BY <1>1, <1>2 DEF IInv

\* Opening a session.
LEMMA OpenIInv ==
    ASSUME IInv, NEW p \in Procs, NEW pc \in {"begin", "load"},
           NEW q \in Requests, NEW ok \in BOOLEAN,
           Open(p, pc, q, ok), UNCHANGED <<row, lock, healthy, told, manual>>,
           p \in Lockers => pc = "begin",
           p \in Schedulers => q = Ask("probe"),
           p \in Routes => q.kind \in {"start", "end", "view"},
           sleep' \in [Schedulers -> 0 .. Interval]
    PROVE  IInv'
  <1> DEFINE new == [NoSession EXCEPT !.pc = pc, !.q = q, !.ok = ok]
  <1>1. new \in Session /\ new.pc = pc /\ new.q = q
    BY NoSessionType DEF Session, Pcs, NoSession
  <1> HIDE DEF new
  <1>2. sess \in [Procs -> Session] /\ sess' = [sess EXCEPT ![p] = new]
    BY DEF IInv, TypeOK, Open, new
  <1>3. TypeOK'
    BY <1>1, <1>2 DEF IInv, TypeOK
  <1>4. \A x \in Procs : Consistent(x)'
    <2>1. lock # p
      BY DEF IInv, Consistent, Open
    <2>2. Consistent(p)'
      BY <1>1, <1>2, <2>1 DEF Consistent, Loaded
    <2>3. ASSUME NEW x \in Procs \ {p} PROVE Consistent(x)'
      BY <1>2 DEF IInv, Consistent
    <2> QED
      BY <2>2, <2>3
  <1> QED
    BY <1>3, <1>4 DEF IInv
\* A session that ends without committing.
LEMMA AbandonIInv ==
    ASSUME IInv, NEW p \in Procs, Abandon(p),
           sleep' \in [Schedulers -> 0 .. Interval]
    PROVE  IInv'
  <1>1. sess \in [Procs -> Session] /\ sess' = [sess EXCEPT ![p] = NoSession]
    BY DEF IInv, TypeOK, Abandon
  <1>2. lock' \in {lock, None} /\ lock' # p
    BY DEF Abandon, Procs
  <1>3. TypeOK'
    BY <1>1, <1>2, NoSessionType DEF IInv, TypeOK, Abandon
  <1>4. Consistent(p)'
    BY <1>1, <1>2, NoSessionType DEF Consistent, Loaded
  <1>5. ASSUME NEW x \in Procs \ {p} PROVE Consistent(x)'
    <2>1. lock' = x <=> lock = x
      BY DEF Abandon, Procs
    <2> QED
      BY <1>1, <2>1 DEF IInv, Consistent, Abandon
  <1> QED
    BY <1>3, <1>4, <1>5 DEF IInv

\* Taking the write lock.
LEMMA LockStateIInv ==
    ASSUME IInv, NEW p \in Procs, LockState(p)
    PROVE  IInv'
  <1>1. /\ sess \in [Procs -> Session]
        /\ sess' = [sess EXCEPT ![p] = [sess[p] EXCEPT !.pc = "load"]]
    BY DEF IInv, TypeOK, LockState
  <1>2. [sess[p] EXCEPT !.pc = "load"] \in Session
    BY <1>1 DEF Session, Pcs
  <1>3. TypeOK'
    BY <1>1, <1>2 DEF IInv, TypeOK, LockState
  <1>4. Consistent(p)'
    BY <1>1, <1>2 DEF IInv, Consistent, Loaded, LockState, Session
  <1>5. ASSUME NEW x \in Procs \ {p} PROVE Consistent(x)'
    BY <1>1 DEF IInv, Consistent, LockState, Procs
  <1> QED
    BY <1>3, <1>4, <1>5 DEF IInv

\* Reading the row.
LEMMA LoadIInv ==
    ASSUME IInv, NEW p \in Procs, Load(p)
    PROVE  IInv'
  <1> DEFINE pc == IF row = None THEN "insert" ELSE "apply"
             new == [sess[p] EXCEPT !.pc = pc, !.base = row]
  <1>1. /\ sess \in [Procs -> Session]
        /\ sess' = [sess EXCEPT ![p] = new]
        /\ sess[p].pc = "load" /\ UNCHANGED <<row, lock>>
    BY DEF IInv, TypeOK, Load
  <1>2. row \in Row \cup {None}
    BY DEF IInv, TypeOK
  <1>3. new \in Session /\ new.pc = pc /\ new.base = row /\ new.q = sess[p].q
    BY <1>1, <1>2 DEF Session, Pcs
  <1> HIDE DEF new
  <1>4. TypeOK'
    BY <1>1, <1>3 DEF IInv, TypeOK, Load
  <1>5. Consistent(p)'
    BY <1>1, <1>2, <1>3 DEF IInv, Consistent, Loaded, GetOrCreate
  <1>6. ASSUME NEW x \in Procs \ {p} PROVE Consistent(x)'
    BY <1>1 DEF IInv, Consistent
  <1> QED
    BY <1>4, <1>5, <1>6 DEF IInv

\* Inserting the first row.
LEMMA InsertIInv ==
    ASSUME IInv, NEW p \in Procs, Insert(p)
    PROVE  IInv'
  <1> DEFINE new == [sess[p] EXCEPT !.pc = "apply", !.base = NewRow]
  <1>1. /\ sess \in [Procs -> Session]
        /\ sess' = [sess EXCEPT ![p] = new]
        /\ row = None /\ row' = None /\ lock' = p /\ lock \in {None, p}
        /\ sess[p].pc = "insert"
    BY DEF IInv, TypeOK, Insert
  <1>2. NewRow \in Row
    BY GetOrCreateType DEF GetOrCreate
  <1>3. new \in Session /\ new.pc = "apply" /\ new.base = NewRow /\ new.q = sess[p].q
    BY <1>1, <1>2 DEF Session, Pcs
  <1> HIDE DEF new
  <1>4. TypeOK'
    BY <1>1, <1>3 DEF IInv, TypeOK, Insert
  <1>5. Consistent(p)'
    BY <1>1, <1>2, <1>3 DEF IInv, Consistent, Loaded, GetOrCreate
  <1>6. ASSUME NEW x \in Procs \ {p} PROVE Consistent(x)'
    BY <1>1 DEF IInv, Consistent, Loaded, Procs
  <1> QED
    BY <1>4, <1>5, <1>6 DEF IInv

\* Changing the copy.
LEMMA ApplyIInv ==
    ASSUME IInv, NEW p \in Procs, Apply(p)
    PROVE  IInv'
  <1> DEFINE result == Perform(sess[p].q, sess[p].ok, sess[p].base, 0)
             new == [sess[p] EXCEPT !.pc = "commit", !.lag = 0, !.pend = result]
  <1>1. /\ sess \in [Procs -> Session]
        /\ sess' = [sess EXCEPT ![p] = new]
        /\ sess[p].pc = "apply" /\ UNCHANGED <<row, lock, sleep, healthy, manual>>
    BY DEF IInv, TypeOK, Apply
  <1>2. sess[p].base \in Row /\ sess[p].q \in Requests /\ sess[p].ok \in BOOLEAN /\ 0 \in Lags
    BY <1>1 DEF IInv, Consistent, Loaded, Session, Lags
  <1>3. result \in Row
    BY <1>2, PerformType
  <1> HIDE DEF result
  <1>4. /\ new \in Session /\ new.pc = "commit" /\ new.lag = 0 /\ new.pend = result
        /\ new.q = sess[p].q /\ new.ok = sess[p].ok /\ new.base = sess[p].base
    BY <1>1, <1>2, <1>3 DEF Session, Pcs
  <1> HIDE DEF new
  <1>5. told' \in {"none", "down", "restored"}
    BY DEF IInv, TypeOK, Apply, Mailed, OutageMail
  <1>6. TypeOK'
    BY <1>1, <1>4, <1>5 DEF IInv, TypeOK
  <1>7. Consistent(p)'
    BY <1>1, <1>2, <1>4 DEF IInv, Consistent, Loaded, result
  <1>8. ASSUME NEW x \in Procs \ {p} PROVE Consistent(x)'
    BY <1>1 DEF IInv, Consistent
  <1> QED
    BY <1>6, <1>7, <1>8 DEF IInv
\* Committing.  Whoever holds the lock, the committed row is unchanged unless
\* the holder is p itself.
LEMMA CommitEffect ==
    ASSUME IInv, NEW p \in Procs, Commit(p)
    PROVE  /\ row' \in Row
           /\ row = None => lock = p
           /\ lock = p => row' = sess[p].pend /\ sess[p].base = GetOrCreate(row)
           /\ lock # p /\ lock # None => row' = row
  <1>1. /\ sess[p].base \in Row /\ sess[p].pend \in Row
        /\ sess[p].pc = "commit" /\ row \in Row \cup {None}
    BY PendType DEF Commit, IInv, TypeOK
  <1>2. /\ row = None => lock = p
        /\ lock = p => sess[p].base = GetOrCreate(row)
    BY <1>1 DEF IInv, Consistent, Loaded
  <1>3. row' = Stored(row, sess[p].base, sess[p].pend)
    BY DEF Commit
  <1>4. row' \in Row
    BY <1>1, <1>3, StoredType DEF Stored
  <1>5. ASSUME lock = p PROVE row' = sess[p].pend
    <2>1. CASE row = None
      BY <1>3, <2>1 DEF Stored
    <2>2. CASE row \in Row
      BY <1>1, <1>2, <1>3, <1>5, <2>2, StoredFresh DEF GetOrCreate
    <2> QED
      BY <1>1, <2>1, <2>2
  <1>6. ASSUME lock # p, lock # None PROVE row' = row
    <2>1. sess[p].pend = sess[p].base
      BY <1>6 DEF Commit, Writes
    <2>2. row \in Row
      BY <1>1, <1>2, <1>6
    <2> QED
      BY <1>1, <1>3, <2>1, <2>2, StoredUnchanged
  <1> QED
    BY <1>2, <1>4, <1>5, <1>6

LEMMA CommitIInv ==
    ASSUME IInv, NEW p \in Procs, Commit(p)
    PROVE  IInv'
  <1>1. /\ sess \in [Procs -> Session]
        /\ sess' = [sess EXCEPT ![p] = NoSession]
        /\ lock' = IF lock = p THEN None ELSE lock
    BY DEF IInv, TypeOK, Commit
  <1>2. row' \in Row /\ row' # None /\ row'.active \in BOOLEAN
    BY CommitEffect DEF Row
  <1>3. manual' \in BOOLEAN
    BY <1>2 DEF IInv, TypeOK, Commit, HeldByOperator
  <1>4. TypeOK'
    BY <1>1, <1>2, <1>3, NoSessionType DEF IInv, TypeOK, Commit
  <1>5. Consistent(p)'
    BY <1>1, NoSessionType DEF Consistent, Loaded, Procs
  <1>6. ASSUME NEW x \in Procs \ {p} PROVE Consistent(x)'
    <2>1. lock' = x <=> lock = x
      BY <1>1 DEF Procs
    <2>2. lock = x => row' = row
      BY <1>6, CommitEffect DEF Procs
    <2> QED
      BY <1>1, <1>2, <2>1, <2>2 DEF IInv, Consistent
  <1> QED
    BY <1>4, <1>5, <1>6 DEF IInv

\* Time passing.
LEMMA TickIInv ==
    ASSUME IInv, Tick
    PROVE  IInv'
  <1>1. /\ sess \in [Procs -> Session]
        /\ sess' = [p \in Procs |-> OlderSession(sess[p])]
        /\ row \in Row \cup {None} /\ row' = OlderCopy(row)
        /\ UNCHANGED <<lock, healthy, told, manual>>
    BY DEF IInv, TypeOK, Tick
  <1>2. \A r \in Row \cup {None} : OlderCopy(r) \in Row \cup {None} /\ (OlderCopy(r) = None <=> r = None)
    BY OlderType DEF OlderCopy
  <1>3. ASSUME NEW p \in Procs
        PROVE  LET s == sess[p]
                   t == sess'[p]
               IN  /\ t \in Session
                   /\ t.pc = s.pc /\ t.q = s.q /\ t.ok = s.ok
                   /\ s.pc = "commit" => s.lag < MaxLag /\ t.lag = s.lag + 1
                   /\ t.base = OlderCopy(s.base) /\ t.pend = OlderCopy(s.pend)
    <2>1. sess'[p] = OlderSession(sess[p]) /\ sess[p] \in Session
      BY <1>1
    <2>2. sess[p].pc = "commit" => sess[p].lag < MaxLag
      BY DEF Tick
    <2>3. (IF sess[p].pc = "commit" THEN sess[p].lag + 1 ELSE sess[p].lag) \in Lags
      BY <2>1, <2>2 DEF Session, Lags
    <2>4. OlderCopy(sess[p].base) \in Row \cup {None} /\ OlderCopy(sess[p].pend) \in Row \cup {None}
      BY <1>2, <2>1 DEF Session
    <2> QED
      BY <2>1, <2>2, <2>3, <2>4 DEF OlderSession, Session
  <1>4. TypeOK'
    <2>1. sess' \in [Procs -> Session]
      BY <1>1, <1>3
    <2>2. sleep' \in [Schedulers -> 0 .. Interval]
      BY DEF IInv, TypeOK, Tick, Interval
    <2> QED
      BY <1>1, <1>2, <2>1, <2>2 DEF IInv, TypeOK
  <1>5. ASSUME NEW p \in Procs PROVE Consistent(p)'
    <2> DEFINE s == sess[p]
               t == sess'[p]
    <2>1. Consistent(p) /\ s \in Session
      BY <1>1 DEF IInv
    <2>2. ASSUME s.pc \in Loaded
          PROVE  t.base \in Row /\ (row' = None => lock' = p) /\ (lock' = p => t.base = GetOrCreate(row'))
      <3>1. s.base \in Row /\ (row = None => lock = p) /\ (lock = p => s.base = GetOrCreate(row))
        BY <2>1, <2>2 DEF Consistent
      <3>2. t.base = Older(s.base)
        BY <1>3, <3>1 DEF OlderCopy
      <3>3. GetOrCreate(row') = Older(GetOrCreate(row))
        <4>1. CASE row = None
          BY <1>1, <4>1 DEF OlderCopy, GetOrCreate, NewRow, Older, Aged
        <4>2. CASE row \in Row
          BY <1>1, <1>2, <4>2 DEF OlderCopy, GetOrCreate
        <4> QED
          BY <1>1, <4>1, <4>2
      <3> QED
        BY <1>1, <1>2, <3>1, <3>2, <3>3, OlderType
    <2>3. ASSUME s.pc = "commit"
          PROVE  t.pend = Perform(t.q, t.ok, t.base, t.lag)
      <3>1. /\ s.base \in Row /\ s.pend \in Row
            /\ s.pend = Perform(s.q, s.ok, s.base, s.lag)
        BY <2>3, PendType
      <3>2. t.base = Older(s.base) /\ t.pend = Older(s.pend) /\ t.lag = s.lag + 1 /\ s.lag < MaxLag
        BY <1>3, <2>3, <3>1 DEF OlderCopy
      <3>3. s.q \in Requests /\ s.ok \in BOOLEAN /\ s.lag \in Lags
        BY <2>1 DEF Session
      <3> QED
        BY <1>3, <3>1, <3>2, <3>3, PerformOlder
    <2>4. t.pc = s.pc /\ t.q = s.q /\ lock' = lock
      BY <1>1, <1>3
    <2> QED
      BY <2>1, <2>2, <2>3, <2>4 DEF Consistent
  <1> QED
    BY <1>4, <1>5 DEF IInv

\* Nothing happening.
LEMMA StutterIInv ==
    ASSUME IInv, UNCHANGED vars
    PROVE  IInv'
  BY DEF IInv, TypeOK, Consistent, vars

\* Every step keeps the invariant.
LEMMA NextIInv == IInv /\ [Next]_vars => IInv'
  <1> SUFFICES ASSUME IInv, [Next]_vars PROVE IInv'
    OBVIOUS
  <1>1. ASSUME NEW s \in Schedulers, Wake(s) PROVE IInv'
    <2>1. sleep' \in [Schedulers -> 0 .. Interval]
      BY <1>1 DEF IInv, TypeOK, Wake, Interval
    <2>2. Ask("probe") \in Requests /\ healthy \in BOOLEAN /\ s \in Procs /\ s \notin Routes
      BY DEF Ask, Requests, IInv, TypeOK, Procs
    <2> QED
      BY <1>1, <2>1, <2>2, OpenIInv DEF Wake
  <1>2. ASSUME NEW c \in Commands, Command(c) PROVE IInv'
    <2>1. PICK q \in Requests : Open(c, "begin", q, q.kind = "check" /\ healthy)
      BY <1>2 DEF Command
    <2>2. (q.kind = "check" /\ healthy) \in BOOLEAN /\ c \in Procs \ (Schedulers \cup Routes)
      BY DEF IInv, TypeOK, Procs
    <2> QED
      BY <1>2, <2>1, <2>2, OpenIInv DEF Command, IInv, TypeOK
  <1>3. ASSUME NEW r \in Routes, Request(r) PROVE IInv'
    <2>1. PICK kind \in {"start", "end", "view"} : Open(r, "load", Ask(kind), FALSE)
      BY <1>3 DEF Request
    <2>2. Ask(kind) \in Requests /\ r \in Procs /\ r \notin Lockers /\ r \notin Schedulers
          /\ Ask(kind).kind = kind
      BY DEF Ask, Requests, Procs, Lockers
    <2> QED
      BY <1>3, <2>1, <2>2, OpenIInv DEF Request, IInv, TypeOK
  <1>4. ASSUME NEW p \in Procs, Step(p) PROVE IInv'
    <2>1. CASE Busy(p) \/ Duplicate(p)
      BY <2>1, AbandonIInv DEF Busy, Duplicate, IInv, TypeOK
    <2> QED
      BY <1>4, <2>1, LockStateIInv, LoadIInv, InsertIInv, ApplyIInv, CommitIInv DEF Step
  <1>5. ASSUME NEW p \in Procs, Crash(p) PROVE IInv'
    <2>1. sleep' \in [Schedulers -> 0 .. Interval]
      BY <1>5 DEF IInv, TypeOK, Crash, Interval
    <2> QED
      BY <1>5, <2>1, AbandonIInv DEF Crash
  <1>6. CASE Flip
    BY <1>6 DEF Flip, IInv, TypeOK, Consistent
  <1>7. CASE Tick
    BY <1>7, TickIInv
  <1>8. CASE UNCHANGED vars
    BY <1>8, StutterIInv
  <1> QED
    BY <1>1, <1>2, <1>3, <1>4, <1>5, <1>6, <1>7, <1>8 DEF Next

\* IInv is an invariant of the specification.
THEOREM Invariance == Spec => []IInv
  BY InitIInv, NextIInv, PTL DEF Spec

\* Every variable has its type, for any number of sessions.
THEOREM TypeCorrect == Spec => []TypeOK
  <1>1. IInv => TypeOK
    BY DEF IInv
  <1> QED
    BY <1>1, Invariance, PTL

\* A session that took the lock works on the committed row, whatever routes,
\* which never take it before they read, do beside it.
THEOREM LockedSessionsFresh == Spec => []LockedFresh
  <1>1. IInv => LockedFresh
    BY DEF IInv, Consistent, LockedFresh, Lockers, Procs, Loaded
  <1> QED
    BY <1>1, Invariance, PTL
=============================================================================
