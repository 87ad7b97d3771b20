---------------------------- MODULE ServiceState ----------------------------
(***************************************************************************)
(* The service_state row of seko-ai and what each operation of             *)
(* services/status.py does to it.  A row is a value; an operation is a     *)
(* function from the row it read to the row it leaves.  Who runs an        *)
(* operation, on which copy of the row and when the result is committed is *)
(* the subject of StatusSessions.                                          *)
(*                                                                         *)
(* Timestamps are kept as ages: the code only ever compares `now - x` with *)
(* a duration.  An operation reads the clock once, at a moment its caller  *)
(* later looks back on, so it is told how long ago that was (`lag`).  Ages *)
(* beyond the duration they are compared with are not told apart.          *)
(*                                                                         *)
(* Left out: last_detail, since, maintenance_message and updated_at, which *)
(* no condition of the code reads.                                         *)
(***************************************************************************)
EXTENDS Integers, FiniteSets

CONSTANTS
    None,           \* Python's None: an unset timestamp, a missing row
    Owners,         \* the lease owner tokens in use
    Threshold,      \* settings.status_fail_threshold
    HalfInterval,   \* settings.status_probe_interval / 2
    MaxHours,       \* settings.maintenance_max_hours; 0 means never
    MaxLag          \* bound: longest time from an operation's clock reading
                    \* to its commit (it may be sending mail in between)

ASSUME ThresholdAssumption == Threshold \in Nat
ASSUME HalfIntervalAssumption == HalfInterval \in Nat
ASSUME MaxHoursAssumption == MaxHours \in Nat
ASSUME MaxLagAssumption == MaxLag \in Nat

CheckedCap == HalfInterval + MaxLag
StartedCap == MaxHours + MaxLag

Status == {"unknown", "up", "down"}

Row == [status   : Status,
        failures : 0 .. Threshold,              \* saturates at the threshold
        checked  : (0 .. CheckedCap) \cup {None},
        active   : BOOLEAN,
        started  : (0 .. StartedCap) \cup {None},
        owners   : SUBSET Owners]

Lags == 0 .. MaxLag

ASSUME NoneAssumption == None \notin Int /\ None \notin Row

\* The row get_or_create_state inserts on first use.
NewRow == [status   |-> "unknown",
           failures |-> 0,
           checked  |-> None,
           active   |-> FALSE,
           started  |-> None,
           owners   |-> {}]

\* What get_or_create_state hands out for what the table holds.
GetOrCreate(r) == IF r = None THEN NewRow ELSE r

------------------------------------------------------------------------------
(* The passage of time, as every age sees it.                               *)

Aged(age, cap) == IF age = None \/ age = cap THEN age ELSE age + 1

Older(r) == [r EXCEPT !.checked = Aged(@, CheckedCap),
                      !.started = Aged(@, StartedCap)]

\* A timestamp that was at least d old, lag ago.
AtLeast(age, d, lag) == age # None /\ age - lag >= d

------------------------------------------------------------------------------
(* Maintenance windows.                                                     *)

\* The status route's end, the CLI's unowned end, the last release, expiry.
EndMaintenance(r) ==
    IF r.active
    THEN [r EXCEPT !.active = FALSE, !.started = None,
                   !.owners = {}, !.failures = 0]
    ELSE r

\* Slip: a start while the window is open changes nothing.
StartOnlyOpens(r, lag) ==
    IF r.active THEN r ELSE [r EXCEPT !.active = TRUE, !.started = lag]

\* Slip: a start records its missing owner as the lease holder.
StartForNobody(r, lag) ==
    IF r.active
    THEN [r EXCEPT !.owners = {None}]
    ELSE [r EXCEPT !.active = TRUE, !.started = lag]

\* An unowned start opens a window, or takes the open one over.
StartMaintenance(r, lag) ==
    IF r.active
    THEN [r EXCEPT !.owners = {}]
    ELSE [r EXCEPT !.active = TRUE, !.started = lag]

\* Slip: joining a leased window replaces its owners.
AcquireReplacesOwners(r, o, lag) ==
    CASE ~r.active                   -> [StartMaintenance(r, lag) EXCEPT !.owners = {o}]
      [] r.active /\ r.owners = {}   -> r
      [] r.active /\ r.owners # {}   -> [r EXCEPT !.owners = {o}]

\* A lease opens a window or joins a leased one; a manual one is left alone.
AcquireMaintenance(r, o, lag) ==
    CASE ~r.active                   -> [StartMaintenance(r, lag) EXCEPT !.owners = {o}]
      [] r.active /\ r.owners = {}   -> r
      [] r.active /\ r.owners # {}   -> [r EXCEPT !.owners = @ \cup {o}]

\* The last owner to release ends the window.
ReleaseMaintenance(r, o) ==
    CASE ~r.active \/ o \notin r.owners              -> r
      [] r.active /\ o \in r.owners /\ r.owners # {o} -> [r EXCEPT !.owners = @ \ {o}]
      [] r.active /\ r.owners = {o}                   -> EndMaintenance(r)

\* A forgotten window is ended by the next recorded probe.
ExpireMaintenance(r, lag) ==
    IF r.active /\ MaxHours > 0 /\ AtLeast(r.started, MaxHours, lag)
    THEN EndMaintenance(r)
    ELSE r

------------------------------------------------------------------------------
(* Probes.                                                                  *)

Failed(r) == IF r.failures = Threshold THEN Threshold ELSE r.failures + 1

\* Slip: failures count only while the service is known to be up.
FoldOnlyWhileUp(r, ok, lag) ==
    IF ok
    THEN [r EXCEPT !.checked = lag, !.failures = 0, !.status = "up"]
    ELSE [r EXCEPT !.checked = lag, !.failures = IF r.status = "up" THEN Failed(r) ELSE @,
                   !.status = IF r.status = "up" /\ Failed(r) >= Threshold THEN "down" ELSE @]

\* Slip: a success clears the failures and leaves an outage standing.
FoldStaysDown(r, ok, lag) ==
    IF ok
    THEN [r EXCEPT !.checked = lag, !.failures = 0,
                   !.status = IF @ = "down" THEN "down" ELSE "up"]
    ELSE [r EXCEPT !.checked = lag, !.failures = Failed(r),
                   !.status = IF Failed(r) >= Threshold THEN "down" ELSE @]

\* One success means up; Threshold consecutive failures mean down.
Fold(r, ok, lag) ==
    IF ok
    THEN [r EXCEPT !.checked = lag, !.failures = 0, !.status = "up"]
    ELSE [r EXCEPT !.checked = lag, !.failures = Failed(r),
                   !.status = IF Failed(r) >= Threshold THEN "down" ELSE @]

\* Slip: recording a probe forgets about forgotten windows.
RecordProbeOnly(r, ok, lag) == Fold(r, ok, lag)

RecordProbe(r, ok, lag) == Fold(ExpireMaintenance(r, lag), ok, lag)

\* Slip: the guard is gone.
NeverTooRecent(r, lag) == FALSE

\* The scheduler's guard: another runner recorded a probe too recently.
TooRecent(r, lag) == r.checked # None /\ r.checked - lag < HalfInterval

\* Slip: looks for a window in the row as it was before expiry.
OutageMailBeforeExpiry(r, s) ==
    CASE ~r.active /\ s.status = "down" /\ r.status # "down" -> "down"
      [] ~r.active /\ s.status = "up" /\ r.status = "down"   -> "restored"
      [] OTHER                                               -> "none"

\* Slip: mails only an outage that follows a known success.
OutageMailAfterUp(r, s) ==
    CASE ~s.active /\ s.status = "down" /\ r.status = "up" -> "down"
      [] ~s.active /\ s.status = "up" /\ r.status = "down" -> "restored"
      [] OTHER                                             -> "none"

\* The mail _transition sends for the change from r to s ("none" for none).
OutageMail(r, s) ==
    CASE ~s.active /\ s.status = "down" /\ r.status # "down" -> "down"
      [] ~s.active /\ s.status = "up" /\ r.status = "down"   -> "restored"
      [] OTHER                                               -> "none"

------------------------------------------------------------------------------
(* Requests: one operation on the row, by whoever asks for it.              *)

Requests == [kind : {"probe", "check", "start", "end", "view"}, owner : {None}]
                \cup [kind : {"acquire", "release"}, owner : Owners]

\* "probe" is the scheduler's guarded check, "check" the operator command.
Perform(q, ok, r, lag) ==
    CASE q.kind = "probe"   -> IF TooRecent(r, lag) THEN r ELSE RecordProbe(r, ok, lag)
      [] q.kind = "check"   -> RecordProbe(r, ok, lag)
      [] q.kind = "start"   -> StartMaintenance(r, lag)
      [] q.kind = "end"     -> EndMaintenance(r)
      [] q.kind = "acquire" -> AcquireMaintenance(r, q.owner, lag)
      [] q.kind = "release" -> ReleaseMaintenance(r, q.owner)
      [] q.kind = "view"    -> r

\* Whether an operator still holds the window after q left row r behind:
\* an unowned start makes it the operator's, until the window closes.
HeldByOperator(held, q, r) == r.active /\ (held \/ q.kind = "start")
=============================================================================
