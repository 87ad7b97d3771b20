--------------------------- MODULE StatusTheorems ---------------------------
(***************************************************************************)
(* What the inductive invariant of StatusProofs is for: the component's    *)
(* action properties and, without routes, that it implements StatusLedger. *)
(***************************************************************************)
EXTENDS StatusProofs

USE NoneAssumption, ThresholdAssumption, HalfIntervalAssumption,
    MaxHoursAssumption, MaxLagAssumption, SessionsAssumption

------------------------------------------------------------------------------
(* How the row can change.                                                  *)

\* Only time and a commit change the row.
LEMMA RowChanges ==
    ASSUME IInv, [Next]_vars, row' # row
    PROVE  Tick \/ \E p \in Procs : Commit(p)
  BY DEF Next, vars, Wake, Command, Request, Step, LockState, Load, Insert, Apply,
         Busy, Duplicate, Crash, Abandon, Flip

\* A commit that changes the row is the commit of the session that ends.
LEMMA CommitsIsCommit ==
    ASSUME IInv, [Next]_vars, NEW p \in Procs, Commits(p)
    PROVE  Commit(p)
  <1>1. sess \in [Procs -> Session] /\ sess[p].pc = "commit" /\ sess'[p].pc = "idle" /\ row' # row
    BY DEF IInv, TypeOK, Commits
  <1>2. ~Tick
    <2>1. \A s \in Session : OlderSession(s).pc = s.pc
      BY DEF OlderSession, Session
    <2>2. Tick => sess'[p] = OlderSession(sess[p])
      BY <1>1 DEF Tick
    <2>3. sess[p] \in Session
      BY <1>1
    <2> QED
      BY <1>1, <2>1, <2>2, <2>3
  <1>3. PICK x \in Procs : Commit(x)
    BY <1>1, <1>2, RowChanges
  <1>4. sess' = [sess EXCEPT ![x] = NoSession]
    BY <1>3 DEF Commit
  <1>5. x = p
    BY <1>1, <1>4
  <1> QED
    BY <1>3, <1>5

\* What a commit of a scheduler or a command stores is its whole operation,
\* performed on the row as committed.
LEMMA LockedCommit ==
    ASSUME IInv, NEW p \in Lockers, Commit(p)
    PROVE  /\ lock = p
           /\ row' = Perform(sess[p].q, sess[p].ok, GetOrCreate(row), sess[p].lag)
           /\ sess[p].q \in Requests /\ sess[p].ok \in BOOLEAN /\ sess[p].lag \in Lags
           /\ manual' = HeldByOperator(manual, sess[p].q, row')
  <1>1. p \in Procs /\ sess[p].pc = "commit" /\ sess[p] \in Session
    BY DEF Lockers, Procs, Commit, IInv, TypeOK
  <1>2. lock = p
    BY <1>1 DEF IInv, Consistent
  <1>3. row' = sess[p].pend /\ sess[p].base = GetOrCreate(row)
    BY <1>1, <1>2, CommitEffect
  <1>4. sess[p].pend = Perform(sess[p].q, sess[p].ok, sess[p].base, sess[p].lag)
    BY <1>1, PendType
  <1>5. manual' = HeldByOperator(manual, sess[p].q, row')
    BY DEF Commit
  <1> QED
    BY <1>1, <1>2, <1>3, <1>4, <1>5 DEF Session

------------------------------------------------------------------------------
(* Probes keep apart.                                                       *)

\* What a scheduler records is at least half an interval younger than what was
\* recorded before it (check_status's min_interval), routes or no routes.
THEOREM RecordsApart == Spec => RecordsKeepApart
  <1> DEFINE A == \A s \in Schedulers :
                    Commits(s) /\ row # None /\ row.checked # None
                        => row.checked - sess[s].lag >= HalfInterval
  <1>1. IInv /\ [Next]_vars => [A]_vars
    <2> SUFFICES ASSUME IInv, [Next]_vars, NEW s \in Schedulers,
                        Commits(s), row # None, row.checked # None
                 PROVE  row.checked - sess[s].lag >= HalfInterval
      OBVIOUS
    <2>1. s \in Procs /\ s \in Lockers /\ row \in Row
      BY DEF Procs, Lockers, IInv, TypeOK
    <2>2. Commit(s)
      BY <2>1, CommitsIsCommit
    <2>3. sess[s].q = Ask("probe")
      BY <2>1, <2>2 DEF IInv, Consistent, Commit
    <2>4. row' = Perform(sess[s].q, sess[s].ok, row, sess[s].lag) /\ sess[s].lag \in Lags
      BY <2>1, <2>2, LockedCommit DEF GetOrCreate
    <2>5. ~TooRecent(row, sess[s].lag)
      BY <2>3, <2>4 DEF Perform, Ask, Commits
    <2> QED
      BY <2>1, <2>4, <2>5 DEF TooRecent, Row, CheckedCap, Lags
  <1> QED
    BY <1>1, Invariance, PTL DEF Spec, RecordsKeepApart

------------------------------------------------------------------------------
(* Leases are kept.                                                         *)

\* Which requests, performed on a row, can remove a lease from it.
LEMMA PerformKeepsLeases ==
    ASSUME NEW q \in Requests, NEW ok \in BOOLEAN, NEW r \in Row, NEW lag \in Lags,
           NEW o \in Owners, Leased(r, o), ~Leased(Perform(q, ok, r, lag), o)
    PROVE  \/ q = [kind |-> "release", owner |-> o]
           \/ q \in {Ask("start"), Ask("end")}
           \/ /\ q \in {Ask("probe"), Ask("check")}
              /\ MaxHours > 0
              /\ AtLeast(r.started, MaxHours, lag)
  <1> DEFINE t == Perform(q, ok, r, lag)
  <1>1. /\ r.active /\ o \in r.owners
        /\ t \in Row /\ t # None
        /\ ~t.active \/ o \notin t.owners
    BY PerformType DEF Leased
  <1>2. CASE q.kind \in {"acquire", "release"} /\ q.owner \in Owners
    <2>1. q = [kind |-> q.kind, owner |-> q.owner]
      BY <1>2 DEF Requests
    <2>2. CASE q.kind = "acquire"
      <3>1. t = [r EXCEPT !.owners = @ \cup {q.owner}]
        BY <1>1, <2>2 DEF Perform, AcquireMaintenance
      <3>2. t.active = r.active /\ t.owners = r.owners \cup {q.owner}
        BY <3>1 DEF Row
      <3> QED
        BY <1>1, <3>2
    <2>3. CASE q.kind = "release" /\ q.owner # o
      <3>1. t = IF q.owner \in r.owners THEN [r EXCEPT !.owners = @ \ {q.owner}] ELSE r
        BY <1>1, <2>3 DEF Perform, ReleaseMaintenance
      <3>2. t.active = r.active /\ o \in t.owners
        BY <1>1, <2>3, <3>1 DEF Row
      <3> QED
        BY <1>1, <3>2
    <2>4. CASE q.kind = "release" /\ q.owner = o
      BY <2>1, <2>4
    <2> QED
      BY <1>2, <2>2, <2>3, <2>4
  <1>3. CASE q \in {Ask("probe"), Ask("check")}
    <2>1. CASE ExpireMaintenance(r, lag) = r
      <3>1. t = r \/ t = Fold(r, ok, lag)
        BY <1>3, <2>1 DEF Perform, Ask, RecordProbe
      <3>2. t.active = r.active /\ t.owners = r.owners
        BY <3>1, FoldFields
      <3> QED
        BY <1>1, <3>2
    <2>2. CASE ExpireMaintenance(r, lag) # r
      BY <1>3, <2>2 DEF ExpireMaintenance
    <2> QED
      BY <2>1, <2>2
  <1>4. CASE q \in {Ask("start"), Ask("end")}
    BY <1>4
  <1>5. CASE q = Ask("view")
    BY <1>1, <1>5 DEF Perform, Ask
  <1> QED
    BY <1>2, <1>3, <1>4, <1>5 DEF Requests, Ask

\* A lease lasts until its owner releases it, an operator takes the window over
\* or ends it, or the window is past its hours: no commit loses it, not even a
\* route's.
THEOREM LeasesKept == Spec => LeaseKept
  <1> DEFINE A == \A o \in Owners :
                    Leased(row, o) /\ ~Leased(row', o)
                        => \E p \in Procs : Commits(p) /\ MayDropLease(p, o)
  <1>1. IInv /\ [Next]_vars => [A]_vars
    <2> SUFFICES ASSUME IInv, [Next]_vars, NEW o \in Owners,
                        Leased(row, o), ~Leased(row', o)
                 PROVE  \E p \in Procs : Commits(p) /\ MayDropLease(p, o)
      OBVIOUS
    <2>1. row \in Row /\ row' # row
      BY DEF IInv, TypeOK, Leased
    <2>2. ~Tick
      <3>1. Older(row).active = row.active /\ Older(row).owners = row.owners /\ Older(row) # None
        BY <2>1, OlderFields
      <3> QED
        BY <2>1, <3>1 DEF Tick, OlderCopy, Leased
    <2>3. PICK p \in Procs : Commit(p)
      BY <2>1, <2>2, RowChanges
    <2>4. Commits(p) /\ sess[p] \in Session
      BY <2>1, <2>3, NoSessionType DEF Commits, Commit, IInv, TypeOK
    <2>5. CASE p \in Lockers
      BY <2>1, <2>3, <2>4, <2>5, LockedCommit, PerformKeepsLeases
         DEF GetOrCreate, MayDropLease
    <2>6. CASE p \in Routes
      <3>1. sess[p].q.kind \in {"start", "end", "view"} /\ sess[p].q \in Requests
        BY <2>4, <2>6 DEF IInv, Consistent, Session
      <3>2. CASE sess[p].q \in {Ask("start"), Ask("end")}
        BY <2>4, <3>2 DEF MayDropLease
      <3>3. CASE sess[p].q = Ask("view")
        <4>1. sess[p].base \in Row /\ sess[p].pend = sess[p].base
          BY <2>3, <3>3, PendType DEF Commit, Perform, Ask
        <4> QED
          BY <2>1, <2>3, <4>1, StoredUnchanged DEF Commit
      <3> QED
        BY <3>1, <3>2, <3>3 DEF Requests, Ask
    <2> QED
      BY <2>4, <2>5, <2>6 DEF Procs, Lockers
  <1> QED
    BY <1>1, Invariance, PTL DEF Spec, LeaseKept

------------------------------------------------------------------------------
(* Whose window it is.                                                      *)

\* The owners column of row r agrees with who holds the window.
Tells(r, held) ==
    /\ r.active => (held <=> r.owners = {})
    /\ ~r.active => ~held /\ r.owners = {} /\ r.started = None

\* Every request keeps the agreement.
LEMMA PerformTells ==
    ASSUME NEW q \in Requests, NEW ok \in BOOLEAN, NEW r \in Row, NEW lag \in Lags,
           NEW held \in BOOLEAN, Tells(r, held)
    PROVE  LET t == Perform(q, ok, r, lag) IN Tells(t, HeldByOperator(held, q, t))
  <1> DEFINE t == Perform(q, ok, r, lag)
  <1>1. t \in Row /\ r \in Row /\ r.active \in BOOLEAN
    BY PerformType DEF Row
  <1>2. t = r /\ q.kind # "start" => Tells(t, HeldByOperator(held, q, t))
    BY <1>1 DEF Tells, HeldByOperator
  <1>3. t = EndMaintenance(r) /\ q.kind # "start" => Tells(t, HeldByOperator(held, q, t))
    BY <1>1, <1>2, EndFields DEF Tells, HeldByOperator, EndMaintenance
  <1>4. CASE q.kind = "start"
    BY <1>1, <1>4, StartFields DEF Tells, HeldByOperator, Perform
  <1>5. CASE q.kind = "end"
    BY <1>3, <1>5 DEF Perform
  <1>6. CASE q.kind = "view"
    BY <1>2, <1>6 DEF Perform
  <1>7. CASE q.kind \in {"probe", "check"}
    <2> DEFINE e == ExpireMaintenance(r, lag)
    <2>1. CASE t = r
      BY <1>2, <1>7, <2>1
    <2>2. CASE t = Fold(e, ok, lag)
      <3>1. e \in Row /\ (e = r \/ e = EndMaintenance(r))
        BY EndType DEF ExpireMaintenance
      <3>2. Tells(e, held /\ e.active)
        BY <1>1, <3>1, EndFields DEF Tells, EndMaintenance
      <3>3. t.active = e.active /\ t.owners = e.owners /\ t.started = e.started
        BY <2>2, <3>1, FoldFields
      <3> QED
        BY <1>7, <3>2, <3>3 DEF Tells, HeldByOperator
    <2> QED
      BY <1>7, <2>1, <2>2 DEF Perform, RecordProbe
  <1>8. CASE q.kind = "acquire" /\ q.owner \in Owners
    <2>1. CASE r.active /\ r.owners = {}
      BY <1>2, <1>8, <2>1 DEF Perform, AcquireMaintenance
    <2>2. CASE r.active /\ r.owners # {}
      <3>1. t = [r EXCEPT !.owners = r.owners \cup {q.owner}]
        BY <1>8, <2>2 DEF Perform, AcquireMaintenance
      <3>2. t.active = r.active /\ t.owners = r.owners \cup {q.owner}
        BY <3>1 DEF Row
      <3> QED
        BY <1>8, <2>2, <3>2 DEF Tells, HeldByOperator
    <2>3. CASE ~r.active
      <3> DEFINE s == StartMaintenance(r, lag)
      <3>1. s \in Row /\ s.active
        BY StartFields
      <3>2. t = [s EXCEPT !.owners = {q.owner}]
        BY <1>8, <2>3 DEF Perform, AcquireMaintenance
      <3>3. t.active = s.active /\ t.owners = {q.owner}
        BY <3>1, <3>2 DEF Row
      <3> QED
        BY <1>8, <2>3, <3>1, <3>3 DEF Tells, HeldByOperator
    <2> QED
      BY <1>1, <2>1, <2>2, <2>3
  <1>9. CASE q.kind = "release" /\ q.owner \in Owners
    <2>1. CASE ~r.active \/ q.owner \notin r.owners
      BY <1>2, <1>9, <2>1 DEF Perform, ReleaseMaintenance
    <2>2. CASE r.active /\ q.owner \in r.owners /\ r.owners # {q.owner}
      <3>1. t = [r EXCEPT !.owners = r.owners \ {q.owner}]
        BY <1>9, <2>2 DEF Perform, ReleaseMaintenance
      <3>2. t.active = r.active /\ t.owners = r.owners \ {q.owner} /\ t.owners # {}
        BY <2>2, <3>1 DEF Row
      <3> QED
        BY <1>9, <2>2, <3>2 DEF Tells, HeldByOperator
    <2>3. CASE r.active /\ r.owners = {q.owner}
      BY <1>3, <1>9, <2>3 DEF Perform, ReleaseMaintenance
    <2> QED
      BY <2>1, <2>2, <2>3
  <1> QED
    BY <1>4, <1>5, <1>6, <1>7, <1>8, <1>9 DEF Requests
\* Time keeps it too.
LEMMA OlderTells ==
    ASSUME NEW r \in Row, NEW held \in BOOLEAN, Tells(r, held)
    PROVE  Tells(Older(r), held)
  BY OlderFields DEF Tells, Aged

\* Without routes a step either leaves the ledger alone or is one of its steps.
LEMMA LedgerStep ==
    ASSUME Routes = {}, IInv, [Next]_vars
    PROVE  \/ UNCHANGED <<row, manual>>
           \/ /\ row # None
              /\ row' = Older(row)
              /\ UNCHANGED manual
           \/ \E q \in Requests, ok \in BOOLEAN, lag \in Lags :
                /\ row' = Perform(q, ok, GetOrCreate(row), lag)
                /\ manual' = HeldByOperator(manual, q, row')
  <1>1. CASE \E p \in Procs : Commit(p)
    <2>1. PICK p \in Lockers : Commit(p)
      BY <1>1 DEF Procs, Lockers
    <2> QED
      BY <2>1, LockedCommit
  <1>2. CASE Tick
    BY <1>2 DEF Tick, OlderCopy
  <1>3. CASE ~Tick /\ ~\E p \in Procs : Commit(p)
    BY <1>3 DEF Next, vars, Wake, Command, Request, Step, LockState, Load, Insert, Apply,
         Busy, Duplicate, Crash, Abandon, Flip
  <1> QED
    BY <1>1, <1>2, <1>3

\* Without routes the owners column tells whose window is open.
THEOREM OwnersTell ==
    ASSUME Routes = {}
    PROVE  Spec => []OwnersTellWhose
  <1> DEFINE I == Tells(GetOrCreate(row), manual)
  <1>1. Init => I
    BY DEF Init, Tells, GetOrCreate, NewRow
  <1>2. IInv /\ I /\ [Next]_vars => I'
    <2> SUFFICES ASSUME IInv, I, [Next]_vars PROVE I'
      OBVIOUS
    <2>1. GetOrCreate(row) \in Row /\ row \in Row \cup {None} /\ manual \in BOOLEAN
      BY GetOrCreateType DEF IInv, TypeOK
    <2>2. CASE UNCHANGED <<row, manual>>
      BY <2>2
    <2>3. CASE row # None /\ row' = Older(row) /\ UNCHANGED manual
      <3>1. row \in Row /\ Older(row) \in Row /\ GetOrCreate(row) = row /\ GetOrCreate(row') = row'
        BY <2>1, <2>3, OlderType DEF GetOrCreate
      <3> QED
        BY <2>1, <2>3, <3>1, OlderTells
    <2>4. ASSUME NEW q \in Requests, NEW ok \in BOOLEAN, NEW lag \in Lags,
                 row' = Perform(q, ok, GetOrCreate(row), lag),
                 manual' = HeldByOperator(manual, q, row')
          PROVE  I'
      <3>1. row' \in Row /\ GetOrCreate(row') = row'
        BY <2>1, <2>4, PerformType DEF GetOrCreate
      <3>2. Tells(row', manual')
        BY <2>1, <2>4, PerformTells
      <3> QED
        BY <3>1, <3>2
    <2> QED
      BY <2>2, <2>3, <2>4, LedgerStep
  <1>3. IInv /\ I => OwnersTellWhose
    BY DEF IInv, TypeOK, Tells, OwnersTellWhose, GetOrCreate, Row
  <1> QED
    BY <1>1, <1>2, <1>3, Invariance, PTL DEF Spec

\* The ledger's operations are the sessions'.
LEMMA SameOperations ==
    ASSUME NEW q, NEW ok, NEW r, NEW lag, NEW held
    PROVE  /\ Ledger!Perform(q, ok, r, lag) = Perform(q, ok, r, lag)
           /\ Ledger!GetOrCreate(r) = GetOrCreate(r)
           /\ Ledger!Older(r) = Older(r)
           /\ Ledger!HeldByOperator(held, q, r) = HeldByOperator(held, q, r)
           /\ Ledger!Requests = Requests /\ Ledger!Lags = Lags
  <1>1. \A s : Ledger!EndMaintenance(s) = EndMaintenance(s)
    BY DEF Ledger!EndMaintenance, EndMaintenance
  <1>2. \A s : Ledger!StartMaintenance(s, lag) = StartMaintenance(s, lag)
    BY DEF Ledger!StartMaintenance, StartMaintenance
  <1>3. Ledger!AcquireMaintenance(r, q.owner, lag) = AcquireMaintenance(r, q.owner, lag)
    BY <1>2 DEF Ledger!AcquireMaintenance, AcquireMaintenance
  <1>4. Ledger!ReleaseMaintenance(r, q.owner) = ReleaseMaintenance(r, q.owner)
    BY <1>1 DEF Ledger!ReleaseMaintenance, ReleaseMaintenance
  <1>5. Ledger!ExpireMaintenance(r, lag) = ExpireMaintenance(r, lag)
    BY <1>1 DEF Ledger!ExpireMaintenance, ExpireMaintenance, Ledger!AtLeast, AtLeast
  <1>6. \A s : Ledger!Fold(s, ok, lag) = Fold(s, ok, lag)
    BY DEF Ledger!Fold, Fold, Ledger!Failed, Failed
  <1>7. Ledger!RecordProbe(r, ok, lag) = RecordProbe(r, ok, lag)
    BY <1>5, <1>6 DEF Ledger!RecordProbe, RecordProbe
  <1>8. Ledger!TooRecent(r, lag) = TooRecent(r, lag)
    BY DEF Ledger!TooRecent, TooRecent
  <1>9. Ledger!Perform(q, ok, r, lag) = Perform(q, ok, r, lag)
    BY <1>1, <1>2, <1>3, <1>4, <1>7, <1>8 DEF Ledger!Perform, Perform
  <1>10. Ledger!GetOrCreate(r) = GetOrCreate(r)
    BY DEF Ledger!GetOrCreate, GetOrCreate, Ledger!NewRow, NewRow
  <1>11. Ledger!Older(r) = Older(r)
    BY DEF Ledger!Older, Older, Ledger!Aged, Aged, Ledger!CheckedCap, CheckedCap,
           Ledger!StartedCap, StartedCap
  <1>12. Ledger!HeldByOperator(held, q, r) = HeldByOperator(held, q, r)
    BY DEF Ledger!HeldByOperator, HeldByOperator
  <1>13. Ledger!Requests = Requests /\ Ledger!Lags = Lags
    BY DEF Ledger!Requests, Requests, Ledger!Lags, Lags
  <1> QED
    BY <1>9, <1>10, <1>11, <1>12, <1>13

\* Schedulers and commands, under every interleaving, wait, rollback and crash,
\* implement the atomic ledger.
THEOREM SessionsImplementLedger ==
    ASSUME Routes = {}
    PROVE  Spec => LedgerSpec
  <1>1. Init => Ledger!Init
    BY DEF Init, Ledger!Init
  <1>2. IInv /\ [Next]_vars => [Ledger!Next]_(Ledger!ledgerVars)
    <2> SUFFICES ASSUME IInv, [Next]_vars
                 PROVE  [Ledger!Next]_(Ledger!ledgerVars)
      OBVIOUS
    <2>1. CASE UNCHANGED <<row, manual>>
      BY <2>1 DEF Ledger!ledgerVars
    <2>2. CASE row # None /\ row' = Older(row) /\ UNCHANGED manual
      BY <2>2, SameOperations DEF Ledger!Next, Ledger!Tick
    <2>3. ASSUME NEW q \in Requests, NEW ok \in BOOLEAN, NEW lag \in Lags,
                 row' = Perform(q, ok, GetOrCreate(row), lag),
                 manual' = HeldByOperator(manual, q, row')
          PROVE  Ledger!Next
      <3>1. Ledger!Operate(q, ok, lag)
        BY <2>3, SameOperations DEF Ledger!Operate
      <3> QED
        BY <2>3, <3>1, SameOperations DEF Ledger!Next
    <2> QED
      BY <2>1, <2>2, <2>3, LedgerStep
  <1> QED
    BY <1>1, <1>2, Invariance, PTL DEF Spec, LedgerSpec, Ledger!Spec
------------------------------------------------------------------------------
(* Outages are mailed.                                                      *)

\* The mail of a change that waits to be committed is the last one sent: only
\* the holder of the lock can send outage mail.
MailSent ==
    \A p \in Lockers : sess[p].pc = "commit" =>
        OutageMail(sess[p].base, sess[p].pend) \in {"none", told}

\* What a route does is not an outage.
LEMMA RoutesKeepStatus ==
    ASSUME IInv, NEW p \in Routes, NEW r \in Row, NEW ok, NEW lag \in Lags
    PROVE  Perform(sess[p].q, ok, r, lag).status = r.status
  <1>1. sess[p].q.kind \in {"start", "end", "view"}
    BY DEF IInv, Consistent, Procs
  <1>2. EndMaintenance(r).status = r.status
    BY EndFields DEF EndMaintenance
  <1> QED
    BY <1>1, <1>2, StartFields DEF Perform

\* A step that is neither time nor an operation leaves every session that is
\* about to commit, and the mail, alone.
LEMMA Untouched ==
    ASSUME IInv, [Next]_vars, NEW p \in Procs, sess'[p].pc = "commit",
           ~Tick, ~\E x \in Procs : Apply(x)
    PROVE  sess'[p] = sess[p] /\ told' = told
  <1>1. sess \in [Procs -> Session]
    BY DEF IInv, TypeOK
  <1>2. ASSUME NEW x \in Procs, NEW t, sess' = [sess EXCEPT ![x] = t], t.pc # "commit"
        PROVE  sess'[p] = sess[p]
    BY <1>1, <1>2
  <1>3. ASSUME NEW x \in Procs, NEW pc \in {"begin", "load"}, NEW q, NEW ok, Open(x, pc, q, ok)
        PROVE  sess'[p] = sess[p]
    <2>1. [NoSession EXCEPT !.pc = pc, !.q = q, !.ok = ok].pc = pc
      BY DEF NoSession
    <2> QED
      BY <1>2, <1>3, <2>1 DEF Open
  <1>4. CASE \/ \E s \in Schedulers : Wake(s)
             \/ \E c \in Commands : Command(c)
             \/ \E r \in Routes : Request(r)
    BY <1>3, <1>4 DEF Wake, Command, Request, Procs
  <1>5. ASSUME NEW x \in Procs, LockState(x) \/ Load(x) \/ Insert(x)
        PROVE  sess'[p] = sess[p] /\ told' = told
    <2>1. ASSUME NEW s \in Session, NEW base
          PROVE  /\ [s EXCEPT !.pc = "load"].pc = "load"
                 /\ [s EXCEPT !.pc = "insert", !.base = base].pc = "insert"
                 /\ [s EXCEPT !.pc = "apply", !.base = base].pc = "apply"
      BY DEF Session
    <2>2. sess[x] \in Session
      BY <1>1
    <2>3. CASE LockState(x)
      BY <1>2, <2>1, <2>2, <2>3 DEF LockState
    <2>4. CASE Load(x)
      <3>1. CASE row = None
        BY <1>2, <2>1, <2>2, <2>4, <3>1 DEF Load
      <3>2. CASE row # None
        BY <1>2, <2>1, <2>2, <2>4, <3>2 DEF Load
      <3> QED
        BY <3>1, <3>2
    <2>5. CASE Insert(x)
      BY <1>2, <2>1, <2>2, <2>5 DEF Insert
    <2> QED
      BY <1>5, <2>3, <2>4, <2>5
  <1>6. ASSUME NEW x \in Procs, Commit(x) \/ Busy(x) \/ Duplicate(x) \/ Crash(x)
        PROVE  sess'[p] = sess[p] /\ told' = told
    BY <1>2, <1>6, NoSessionType DEF Commit, Busy, Duplicate, Crash, Abandon
  <1>7. CASE Flip \/ UNCHANGED vars
    BY <1>7 DEF Flip, vars
  <1> QED
    BY <1>4, <1>5, <1>6, <1>7 DEF Next, Step

\* Every step keeps the last mail right.
LEMMA MailSentStep == IInv /\ MailSent /\ [Next]_vars => MailSent'
  <1> SUFFICES ASSUME IInv, MailSent, [Next]_vars, NEW p \in Lockers, sess'[p].pc = "commit"
               PROVE  OutageMail(sess'[p].base, sess'[p].pend) \in {"none", told'}
    BY DEF MailSent
  <1>1. p \in Procs /\ p \notin Routes /\ sess \in [Procs -> Session]
    BY DEF Procs, Lockers, IInv, TypeOK
  <1>2. CASE \E x \in Procs : Apply(x)
    <2>1. PICK x \in Procs : Apply(x)
      BY <1>2
    <2> DEFINE new == Perform(sess[x].q, sess[x].ok, sess[x].base, 0)
               after == [sess[x] EXCEPT !.pc = "commit", !.lag = 0, !.pend = new]
    <2>2. /\ sess' = [sess EXCEPT ![x] = after]
          /\ told' = IF OutageMail(sess[x].base, new) = "none"
                     THEN told ELSE OutageMail(sess[x].base, new)
      BY <2>1 DEF Apply, Mailed
    <2>3. after.base = sess[x].base /\ after.pend = new
      BY <1>1 DEF Session
    <2> HIDE DEF new, after
    <2>4. CASE x = p
      BY <1>1, <2>2, <2>3, <2>4
    <2>5. CASE x # p
      <3>1. sess'[p] = sess[p]
        BY <1>1, <2>2, <2>5
      <3>2. lock = p /\ sess[x].pc = "apply"
        BY <1>1, <2>1, <3>1 DEF IInv, Consistent, Apply
      <3>3. x \in Routes
        BY <2>5, <3>2 DEF IInv, Consistent, Procs, Lockers
      <3>4. sess[x].base \in Row /\ 0 \in Lags
        BY <3>2 DEF IInv, Consistent, Loaded, Lags
      <3>5. new.status = sess[x].base.status
        BY <3>3, <3>4, RoutesKeepStatus DEF new
      <3>6. told' = told
        BY <2>2, <3>5 DEF OutageMail
      <3> QED
        BY <3>1, <3>6 DEF MailSent
    <2> QED
      BY <2>4, <2>5
  <1>3. CASE Tick
    <2>1. sess[p].pc = "commit" /\ sess'[p] = OlderSession(sess[p]) /\ told' = told
      BY <1>1, <1>3 DEF Tick, OlderSession, Session
    <2>2. sess[p].base \in Row /\ sess[p].pend \in Row
      BY <1>1, <2>1, PendType
    <2>3. sess'[p].base = Older(sess[p].base) /\ sess'[p].pend = Older(sess[p].pend)
      BY <1>1, <2>1, <2>2 DEF OlderSession, OlderCopy, Session
    <2>4. OutageMail(sess'[p].base, sess'[p].pend) = OutageMail(sess[p].base, sess[p].pend)
      BY <2>2, <2>3, OlderFields DEF OutageMail
    <2> QED
      BY <2>1, <2>4 DEF MailSent
  <1>4. CASE ~Tick /\ ~\E x \in Procs : Apply(x)
    BY <1>1, <1>4, Untouched DEF MailSent
  <1> QED
    BY <1>2, <1>3, <1>4

\* A committed outage or recovery outside a window has been mailed, and nothing
\* has been mailed since, routes or no routes.
THEOREM OutagesMailed == Spec => OutagesAreMailed
  <1> DEFINE A == \A p \in Procs :
                    Commits(p) /\ ~row'.active /\ row'.status # GetOrCreate(row).status
                      => /\ row'.status = "down" => told = "down"
                         /\ row'.status = "up" /\ GetOrCreate(row).status = "down"
                              => told = "restored"
  <1>1. IInv /\ MailSent /\ [Next]_vars => [A]_vars
    <2> SUFFICES ASSUME IInv, MailSent, [Next]_vars, NEW p \in Procs, Commits(p),
                        ~row'.active, row'.status # GetOrCreate(row).status
                 PROVE  /\ row'.status = "down" => told = "down"
                        /\ row'.status = "up" /\ GetOrCreate(row).status = "down"
                             => told = "restored"
      OBVIOUS
    <2>1. Commit(p) /\ sess[p].pc = "commit"
      BY CommitsIsCommit DEF Commits
    <2>2. CASE p \in Lockers
      <3>1. lock = p
        BY <2>1, <2>2, LockedCommit
      <3>2. row' = sess[p].pend /\ sess[p].base = GetOrCreate(row)
        BY <2>1, <3>1, CommitEffect
      <3>3. OutageMail(GetOrCreate(row), row') \in {"none", told}
        BY <2>1, <2>2, <3>2 DEF MailSent
      <3> QED
        BY <3>3 DEF OutageMail
    <2>3. CASE p \in Routes
      <3>1. /\ sess[p].base \in Row /\ sess[p].lag \in Lags
            /\ sess[p].pend = Perform(sess[p].q, sess[p].ok, sess[p].base, sess[p].lag)
        BY <2>1, PendType DEF IInv, TypeOK, Session
      <3>2. sess[p].pend.status = sess[p].base.status
        <4>1. \A r \in Row, lag \in Lags :
                Perform(sess[p].q, sess[p].ok, r, lag).status = r.status
          BY <2>3, RoutesKeepStatus
        <4> QED
          BY <3>1, <4>1
      <3>3. CASE lock = p
        BY <2>1, <3>2, <3>3, CommitEffect
      <3>4. CASE lock # p
        <4>1. row \in Row
          BY <2>1, <3>4, CommitEffect DEF IInv, TypeOK
        <4>2. row' = [f \in DOMAIN row |->
                        IF sess[p].pend[f] = sess[p].base[f] THEN row[f] ELSE sess[p].pend[f]]
          BY <2>1, <4>1 DEF Commit, Stored
        <4>3. row'.status = row.status
          BY <3>2, <4>1, <4>2 DEF Row
        <4> QED
          BY <4>1, <4>3 DEF GetOrCreate
      <3> QED
        BY <3>3, <3>4
    <2> QED
      BY <2>2, <2>3 DEF Procs, Lockers
  <1>2. Init => MailSent
    BY NoSessionType DEF Init, MailSent, Lockers, Procs
  <1> QED
    BY <1>1, <1>2, MailSentStep, Invariance, PTL DEF Spec, OutagesAreMailed
=============================================================================
