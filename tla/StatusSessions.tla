--------------------------- MODULE StatusSessions ---------------------------
(***************************************************************************)
(* The sessions that read and write the service_state row: the status      *)
(* scheduler of every application process, the operator commands           *)
(* (check-status, maintenance), and the web routes (status page, banner,   *)
(* admin maintenance toggle).  Each works on a copy of the row taken in    *)
(* its own database session and commits the columns it changed.            *)
(*                                                                         *)
(* Schedulers and commands call lock_state first, which takes SQLite's     *)
(* write lock; routes read without it and meet the lock only when they     *)
(* write.  Mail goes out before the commit.  A session may end without     *)
(* committing: the lock timed out, or its process died.                    *)
(***************************************************************************)
EXTENDS ServiceState

CONSTANTS
    Schedulers,     \* status_loop tasks, one per application process
    Commands,       \* operator command processes
    Routes,         \* web requests in flight
    MayCrash        \* whether sessions can die before their commit

ASSUME SessionsAssumption ==
    /\ Schedulers \cap Commands = {}
    /\ Schedulers \cap Routes = {}
    /\ Commands \cap Routes = {}
    /\ None \notin Schedulers \cup Commands \cup Routes
    /\ MayCrash \in BOOLEAN

VARIABLES
    row,        \* the committed service_state row, None before first use
    lock,       \* who holds SQLite's write lock, or None
    sess,       \* what each session is doing
    sleep,      \* how long each scheduler still sleeps
    healthy,    \* whether a probe would find the API-key path up
    told,       \* the last outage mail sent: "none", "down" or "restored"
    manual      \* history: whether the open window is an operator's

vars == <<row, lock, sess, sleep, healthy, told, manual>>

Procs == Schedulers \cup Commands \cup Routes
Lockers == Schedulers \cup Commands
Interval == 2 * HalfInterval

\* begin: about to call lock_state; load: about to read the row; insert: read
\* no row; apply: holds the row; commit: has changed its copy and sent mail.
Pcs == {"idle", "begin", "load", "insert", "apply", "commit"}
Loaded == {"apply", "commit"}

Session == [pc   : Pcs,
            q    : Requests,
            ok   : BOOLEAN,             \* the probe's outcome
            lag  : Lags,                \* how long ago it read the clock
            base : Row \cup {None},     \* the row as loaded
            pend : Row \cup {None}]     \* the row as changed

Ask(kind) == [kind |-> kind, owner |-> None]

NoSession == [pc |-> "idle", q |-> Ask("view"), ok |-> FALSE, lag |-> 0,
              base |-> None, pend |-> None]

TypeOK ==
    /\ row \in Row \cup {None}
    /\ lock \in Procs \cup {None}
    /\ sess \in [Procs -> Session]
    /\ sleep \in [Schedulers -> 0 .. Interval]
    /\ healthy \in BOOLEAN
    /\ told \in {"none", "down", "restored"}
    /\ manual \in BOOLEAN

Init ==
    /\ row = None
    /\ lock = None
    /\ sess = [p \in Procs |-> NoSession]
    /\ sleep = [s \in Schedulers |-> 0]
    /\ healthy \in BOOLEAN
    /\ told = "none"
    /\ manual = FALSE

------------------------------------------------------------------------------
(* Opening a session.                                                       *)

Open(p, pc, q, ok) ==
    /\ sess[p].pc = "idle"
    /\ sess' = [sess EXCEPT ![p] = [NoSession EXCEPT !.pc = pc, !.q = q, !.ok = ok]]

\* Slip: check_status forgets lock_state.
WakeUnlocked(s) ==
    /\ sleep[s] = 0
    /\ Open(s, "load", Ask("probe"), healthy)
    /\ sleep' = [sleep EXCEPT ![s] = Interval]
    /\ UNCHANGED <<row, lock, healthy, told, manual>>

\* check_status probes before it locks: the outcome is as old as the wait.
Wake(s) ==
    /\ sleep[s] = 0
    /\ Open(s, "begin", Ask("probe"), healthy)
    /\ sleep' = [sleep EXCEPT ![s] = Interval]
    /\ UNCHANGED <<row, lock, healthy, told, manual>>

Command(c) ==
    /\ \E q \in Requests \ {Ask("probe")} : Open(c, "begin", q, q.kind = "check" /\ healthy)
    /\ UNCHANGED <<row, lock, sleep, healthy, told, manual>>

Request(r) ==
    /\ \E kind \in {"start", "end", "view"} : Open(r, "load", Ask(kind), FALSE)
    /\ UNCHANGED <<row, lock, sleep, healthy, told, manual>>

------------------------------------------------------------------------------
(* The steps of a session.                                                  *)

\* Slip: lock_state only opens a deferred transaction, as `BEGIN` would.
BeginDeferred(p) ==
    /\ sess[p].pc = "begin"
    /\ lock = None
    /\ sess' = [sess EXCEPT ![p] = [@ EXCEPT !.pc = "load"]]
    /\ UNCHANGED <<row, lock, sleep, healthy, told, manual>>

\* lock_state: BEGIN IMMEDIATE.
LockState(p) ==
    /\ sess[p].pc = "begin"
    /\ lock = None
    /\ lock' = p
    /\ sess' = [sess EXCEPT ![p] = [@ EXCEPT !.pc = "load"]]
    /\ UNCHANGED <<row, sleep, healthy, told, manual>>

\* get_or_create_state reads the row.
Load(p) ==
    /\ sess[p].pc = "load"
    /\ sess' = [sess EXCEPT ![p] = [@ EXCEPT !.pc = IF row = None THEN "insert" ELSE "apply",
                                             !.base = row]]
    /\ UNCHANGED <<row, lock, sleep, healthy, told, manual>>

\* It read none: the INSERT takes the lock and keeps it until the commit.
Insert(p) ==
    /\ sess[p].pc = "insert"
    /\ lock \in {None, p}
    /\ row = None
    /\ lock' = p
    /\ sess' = [sess EXCEPT ![p] = [@ EXCEPT !.pc = "apply", !.base = NewRow]]
    /\ UNCHANGED <<row, sleep, healthy, told, manual>>

\* notify_down, notify_restored: handed to Resend, whatever it makes of it.
Mailed(mail) == IF mail = "none" THEN told ELSE mail

\* The operation itself, on the session's copy, and the mail it sends.
Apply(p) ==
    LET s == sess[p]
        new == Perform(s.q, s.ok, s.base, 0)
        mail == OutageMail(s.base, new)
    IN  /\ s.pc = "apply"
        /\ sess' = [sess EXCEPT ![p] = [@ EXCEPT !.pc = "commit", !.lag = 0, !.pend = new]]
        /\ told' = Mailed(mail)
        /\ UNCHANGED <<row, lock, sleep, healthy, manual>>

\* What the table holds after an UPDATE of the columns in which new differs
\* from base, the row as the session loaded it.
Stored(r, base, new) ==
    IF r = None
    THEN new
    ELSE [f \in DOMAIN r |-> IF new[f] = base[f] THEN r[f] ELSE new[f]]

Writes(p) == lock = p \/ sess[p].pend # sess[p].base

\* Slip: the flush does not wait for another session's lock.
CommitRegardless(p) ==
    LET s == sess[p] IN
    /\ s.pc = "commit"
    /\ row' = Stored(row, s.base, s.pend)
    /\ lock' = IF lock = p THEN None ELSE lock
    /\ manual' = HeldByOperator(manual, s.q, row')
    /\ sess' = [sess EXCEPT ![p] = NoSession]
    /\ UNCHANGED <<sleep, healthy, told>>

\* commit: the flush waits for the write lock unless the session has it.
Commit(p) ==
    LET s == sess[p] IN
    /\ s.pc = "commit"
    /\ Writes(p) => lock \in {None, p}
    /\ row' = Stored(row, s.base, s.pend)
    /\ lock' = IF lock = p THEN None ELSE lock
    /\ manual' = HeldByOperator(manual, s.q, row')
    /\ sess' = [sess EXCEPT ![p] = NoSession]
    /\ UNCHANGED <<sleep, healthy, told>>

------------------------------------------------------------------------------
(* Sessions that end without committing: the exception rolls back.          *)

Abandon(p) ==
    /\ sess' = [sess EXCEPT ![p] = NoSession]
    /\ lock' = IF lock = p THEN None ELSE lock
    /\ UNCHANGED <<row, healthy, told, manual>>

Waiting(p) ==
    \/ sess[p].pc \in {"begin", "insert"}
    \/ sess[p].pc = "commit" /\ Writes(p)

\* Slip: the lock is waited for without a timeout.
BusyForEver(p) == FALSE

\* "database is locked": the write lock was another's for the busy timeout.
Busy(p) ==
    /\ Waiting(p)
    /\ lock \notin {None, p}
    /\ Abandon(p)
    /\ UNCHANGED sleep

\* Another session created the row between this one's read and its INSERT.
Duplicate(p) ==
    /\ sess[p].pc = "insert"
    /\ lock \in {None, p}
    /\ row # None
    /\ Abandon(p)
    /\ UNCHANGED sleep

\* The process dies; a scheduler starts over with its application.
Crash(p) ==
    /\ MayCrash
    /\ sess[p].pc # "idle"
    /\ Abandon(p)
    /\ sleep' = [s \in Schedulers |-> IF s = p THEN 0 ELSE sleep[s]]

------------------------------------------------------------------------------
(* The environment.                                                         *)

Flip ==
    /\ healthy' = ~healthy
    /\ UNCHANGED <<row, lock, sess, sleep, told, manual>>

OlderCopy(r) == IF r = None THEN None ELSE Older(r)

OlderSession(s) ==
    [s EXCEPT !.lag = IF s.pc = "commit" THEN @ + 1 ELSE @,
              !.base = OlderCopy(@), !.pend = OlderCopy(@)]

Tick ==
    /\ \A p \in Procs : sess[p].pc = "commit" => sess[p].lag < MaxLag
    /\ row' = OlderCopy(row)
    /\ sess' = [p \in Procs |-> OlderSession(sess[p])]
    /\ sleep' = [s \in Schedulers |->
                   IF sess[s].pc = "idle" /\ sleep[s] > 0 THEN sleep[s] - 1 ELSE sleep[s]]
    /\ UNCHANGED <<lock, healthy, told, manual>>

------------------------------------------------------------------------------

Step(p) ==
    \/ LockState(p)
    \/ Load(p)
    \/ Insert(p)
    \/ Apply(p)
    \/ Commit(p)
    \/ Busy(p)
    \/ Duplicate(p)

Next ==
    \/ \E s \in Schedulers : Wake(s)
    \/ \E c \in Commands : Command(c)
    \/ \E r \in Routes : Request(r)
    \/ \E p \in Procs : Step(p) \/ Crash(p)
    \/ Flip
    \/ Tick

Spec == Init /\ [][Next]_vars

\* A session that was opened runs to its end, a scheduler wakes when its sleep
\* is over, and time passes.  Nobody has to issue a command or a request.
Fairness ==
    /\ \A p \in Procs : WF_vars(Step(p))
    /\ \A s \in Schedulers : WF_vars(Wake(s))
    /\ WF_vars(Tick)

FairSpec == Spec /\ Fairness
------------------------------------------------------------------------------
(* Safety.                                                                  *)

\* p's session commits: the only step that takes p from commit to idle and
\* can change the row.
Commits(p) == sess[p].pc = "commit" /\ sess'[p].pc = "idle" /\ row' # row

\* A scheduler or command works on the row as it is committed, from reading it
\* to its own commit (lock_state's promise: "cannot interleave").
LockedFresh ==
    \A p \in Lockers : sess[p].pc \in Loaded =>
        /\ lock = p
        /\ sess[p].base = GetOrCreate(row)

\* Concurrent schedulers never double count: what a scheduler records is at
\* least half an interval younger than the probe recorded before it, whoever
\* recorded that one (check_status's min_interval).
RecordsKeepApart ==
    [][\A s \in Schedulers :
        Commits(s) /\ row # None /\ row.checked # None
            => row.checked - sess[s].lag >= HalfInterval]_vars

\* Owner o holds a lease on an open window.
Leased(r, o) == r # None /\ r.active /\ o \in r.owners

\* Why p's commit may take o's lease away: o released it, an operator took
\* over or ended the window, or a probe found the window past its hours.
MayDropLease(p, o) ==
    \/ sess[p].q = [kind |-> "release", owner |-> o]
    \/ sess[p].q \in {Ask("start"), Ask("end")}
    \/ /\ sess[p].q \in {Ask("probe"), Ask("check")}
       /\ MaxHours > 0
       /\ AtLeast(row.started, MaxHours, sess[p].lag)

\* A lease that was granted stays granted until one of these happens: no other
\* session's commit loses it (acquire_maintenance, release_maintenance).
LeaseKept ==
    [][\A o \in Owners :
        Leased(row, o) /\ ~Leased(row', o)
            => \E p \in Procs : Commits(p) /\ MayDropLease(p, o)]_vars

\* The owners column says whose window it is: none for an operator's, and
\* never none for one that automation leased (models.py: "Empty/NULL = a manual
\* window").
OwnersTellWhose ==
    row # None => /\ row.active => (manual <=> row.owners = {})
                  /\ ~row.active => row.owners = {} /\ row.started = None

\* A committed outage, or recovery from one, outside a window has been mailed
\* by the time it is committed, and nothing else was mailed since.
OutagesAreMailed ==
    [][\A p \in Procs :
        Commits(p) /\ ~row'.active /\ row'.status # GetOrCreate(row).status
            => /\ row'.status = "down" => told = "down"
               /\ row'.status = "up" /\ GetOrCreate(row).status = "down"
                    => told = "restored"]_vars

\* Schedulers and commands, whatever their interleavings, waits, rollbacks and
\* crashes, amount to whole operations applied one after the other.
Ledger == INSTANCE StatusLedger

LedgerSpec == Ledger!Spec

------------------------------------------------------------------------------
(* Liveness, under Fairness and without crashes.                            *)

\* No operator command and no web request is under way.
Unattended == \A p \in Procs \ Schedulers : sess[p].pc = "idle"

\* Left alone, the schedulers notice a lasting outage, however the runs of
\* different processes skip, block and time out on each other.
OutageNoticed ==
    <>[](~healthy /\ Unattended) => <>[](row # None /\ row.status = "down")

\* ... and a lasting recovery.
RecoveryNoticed ==
    <>[](healthy /\ Unattended) => <>[](row # None /\ row.status = "up")

\* A window nobody ends is cleared in the end (maintenance_max_hours).
WindowCleared ==
    <>[]Unattended => <>[](row # None /\ ~row.active)

\* No session waits for ever.
SessionsEnd == \A p \in Procs : sess[p].pc # "idle" ~> sess[p].pc = "idle"

------------------------------------------------------------------------------
(* What the documentation says and the code does not do.                    *)

\* docs/configuration.md: "Automation should use leases so it can never end a
\* window an operator opened."
LeaseNeverEndsOperatorsWindow ==
    [][\A p \in Procs :
        Commits(p) /\ sess[p].q.kind = "release" /\ manual => row'.active]_vars

\* notify_down: "You'll get another email when service is restored."
RestorationIsMailed ==
    told = "down" /\ (\A p \in Procs : sess[p].pc = "idle")
        => row # None /\ row.status # "up"
=============================================================================
