------------------------------ MODULE UsagePage ------------------------------
(***************************************************************************)
(* The usage page: routers/usage.py reads the key rows, then awaits        *)
(* LiteLLM's activity page by page (LiteLLMClient.daily_activity), then    *)
(* attributes it by the rows it read.  Meanwhile keys are made, rotated    *)
(* and revoked, and LiteLLM goes on recording.                             *)
(*                                                                         *)
(* LiteLLM lists its records in one order, newest day first, and never     *)
(* takes one back: a new record appears anywhere among the others.  Pages  *)
(* share no state, so one is enough.                                       *)
(***************************************************************************)
EXTENDS UsageAttribution, FiniteSets, SequencesExt

CONSTANTS
    Admins,         \* users whose row says is_admin
    Told,           \* keys whose token LiteLLM told when it made them
    Namings,        \* whether records carry the alias of their key
    PageSize,
    MaxRecords      \* bounds the activity

ASSUME PageAssumption ==
    /\ Admins \subseteq Users
    /\ Told \subseteq Keys
    /\ Namings \subseteq BOOLEAN
    /\ PageSize \in Nat \ {0}
    /\ MaxRecords \in Nat

VARIABLES
    rows,       \* api_keys
    activity,   \* LiteLLM's records in the page's window of days
    load,       \* what the page is doing
    opened      \* ids of the records there were when it was opened

vars == <<rows, activity, load, opened>>

Pcs == {"closed", "fetch", "done", "unavailable", "error"}

Load == [pc      : Pcs,
         user    : Users,
         rows    : SUBSET KeyRow,   \* as read before the first await
         page    : Nat \ {0},       \* the page asked for
         fetched : Seq(Record)]

TypeOK ==
    /\ rows \subseteq KeyRow
    /\ activity \in Seq(Record)
    /\ load \in Load
    /\ opened \subseteq Nat

Init ==
    /\ rows = {}
    /\ activity = <<>>
    /\ load \in [pc : {"closed"}, user : Users, rows : {{}}, page : {1},
                 fetched : {<<>>}]
    /\ opened = {}

Ids(records) == {records[i].id : i \in DOMAIN records}

------------------------------------------------------------------------------
(* What key requests commit (see KeyRequests) and LiteLLM records.          *)

HasRow(k) == \E row \in rows : row.key = k

NewRow(k, u, b, active) ==
    [id |-> Cardinality(rows) + 1, key |-> k, owner |-> u, ident |-> b, known |-> k \in Told,
     active |-> active]

Create ==
    /\ \E k \in Keys, u \in Users, b \in Idents :
        /\ ~HasRow(k)
        /\ \A row \in rows : row.ident # b
        /\ rows' = rows \cup {NewRow(k, u, b, TRUE)}
    /\ UNCHANGED <<activity, load, opened>>

\* The old row is revoked.  If LiteLLM refused that and the cleanup, the new
\* row is kept inactive; if its answer could not be read, both stay active.
Rotate ==
    /\ \E old \in rows, k \in Keys, left \in {"revoked", "audit", "misread"} :
        /\ ~HasRow(k)
        /\ rows' = (rows \ {old})
                      \cup {[old EXCEPT !.active = @ /\ left # "revoked"],
                            NewRow(k, old.owner, old.ident, left # "audit")}
    /\ UNCHANGED <<activity, load, opened>>

Revoke ==
    /\ \E old \in rows : rows' = (rows \ {old}) \cup {[old EXCEPT !.active = FALSE]}
    /\ UNCHANGED <<activity, load, opened>>

\* Any key LiteLLM knows, with or without a row, active or not.
Use ==
    /\ Len(activity) < MaxRecords
    /\ \E k \in Keys, named \in Namings, m \in Models, at \in 1 .. Len(activity) + 1 :
        activity' = InsertAt(activity, at, [id |-> Len(activity) + 1, key |-> k,
                                            named |-> named, model |-> m])
    /\ UNCHANGED <<rows, load, opened>>

------------------------------------------------------------------------------
(* The page.                                                                *)

\* Whose usage it is about: everybody's for an admin.
Viewed(u) == IF u \in Admins THEN Users ELSE {u}

\* Slip: pages are counted from zero.
OpenAtZero ==
    /\ load.pc # "fetch"
    /\ \E u \in Users :
        load' = [pc |-> "fetch", user |-> u, page |-> 0, fetched |-> <<>>,
                 rows |-> {row \in rows : row.owner \in Viewed(u)}]
    /\ opened' = Ids(activity)
    /\ UNCHANGED <<rows, activity>>

Open ==
    /\ load.pc # "fetch"
    /\ \E u \in Users :
        load' = [pc |-> "fetch", user |-> u, page |-> 1, fetched |-> <<>>,
                 rows |-> {row \in rows : row.owner \in Viewed(u)}]
    /\ opened' = Ids(activity)
    /\ UNCHANGED <<rows, activity>>

FirstOf(n) == (n - 1) * PageSize + 1
LastOf(n) == n * PageSize
\* Slip: pages counted from where the last one began.
PageOverlapping(n) ==
    SubSeq(activity, IF n = 1 THEN 1 ELSE FirstOf(n) - 1,
                     IF LastOf(n) < Len(activity) THEN LastOf(n) ELSE Len(activity))

\* Records first to last of the activity make up page n.
PageOf(n) ==
    SubSeq(activity, FirstOf(n), IF LastOf(n) < Len(activity) THEN LastOf(n) ELSE Len(activity))

\* Slip: total_pages is believed as it was in the beginning.
IsLastAtFirst(n) == LastOf(n) >= Cardinality(opened)

\* total_pages comes with every answer.
IsLast(n) == LastOf(n) >= Len(activity)

Fetch ==
    /\ load.pc = "fetch"
    /\ load' = [load EXCEPT !.fetched = @ \o PageOf(load.page),
                            !.page = IF IsLast(load.page) THEN @ ELSE @ + 1,
                            !.pc = IF IsLast(load.page) THEN "done" ELSE @]
    /\ UNCHANGED <<rows, activity, opened>>

\* A LiteLLMError is caught by collect; an answer that is not JSON raises
\* something else, which nobody catches.
FetchFails ==
    /\ load.pc = "fetch"
    /\ load' \in {[load EXCEPT !.pc = failed] : failed \in {"unavailable", "error"}}
    /\ UNCHANGED <<rows, activity, opened>>

Next == Create \/ Rotate \/ Revoke \/ Use \/ Open \/ Fetch \/ FetchFails

Spec == Init /\ [][Next]_vars

\* What the page shows.
Shows == IF load.pc = "done"
         THEN Report(load.rows, load.fetched, Viewed(load.user))
         ELSE NoReport(Viewed(load.user))

------------------------------------------------------------------------------
(* Properties.                                                              *)

Positions == DOMAIN load.fetched

\* Every record LiteLLM had when the page was opened is counted, although
\* new ones push it to later pages while they are fetched (daily_activity).
NothingMissed == load.pc = "done" => opened \subseteq Ids(load.fetched)

\* A record is counted a second time only if another was made meanwhile and
\* pushed it on: no more second counts than new records (daily_activity).
\* Second counts there are, although routers/usage.py:37 speaks of real totals.
OvercountBounded ==
    Len(load.fetched) - Cardinality(Ids(load.fetched))
        <= Len(activity) - Cardinality(opened)

\* The positions shown under a user's logical key.
ShownUnder(u, b) ==
    LET keys == Shows.users[u].keys IN IF b \in DOMAIN keys THEN keys[b].total ELSE {}

\* A logical key shows what all its tokens have used, revoked ones and ones
\* LiteLLM only names by alias included, and nothing else (_key_index,
\* attribute, _summary).
UsageSpansRotations ==
    load.pc = "done" =>
        \A u \in Viewed(load.user), b \in Idents :
            ShownUnder(u, b) =
                {i \in Positions :
                    \E row \in load.rows :
                        /\ OwnedKey(row) = [user |-> u, bucket |-> b]
                        /\ row.key = load.fetched[i].key
                        /\ row.known \/ load.fetched[i].named}

\* Keys may change while the activity is awaited, but what the page then
\* counts for a user is what it would count by the rows of today.
StaleRowsDoNotMislead ==
    \A i \in Positions :
        LET target == Classify(load.rows, load.fetched[i]) IN
        target.kind = "user" => Classify(rows, load.fetched[i]) = target

\* On an admin's page every record counts exactly once: for one user and
\* one of the keys shown for that user, for one service, or for one stranger.
Counts(i) ==
    LET Holding(section) == {id \in DOMAIN section : i \in section[id]}
    IN Cardinality({x \in Users \X Idents : i \in ShownUnder(x[1], x[2])})
           + Cardinality(Holding(Shows.services)) + Cardinality(Holding(Shows.unknown))

CountedOnce ==
    load.pc = "done" /\ load.user \in Admins =>
        \A i \in Positions :
            /\ Counts(i) = 1
            /\ \A u \in Users :
                i \in Shows.users[u].total <=> \E b \in Idents : i \in ShownUnder(u, b)

\* A logical key shown as active is masked by the newest of its tokens whose
\* rows were active when the page was opened, whatever rotations had left of it;
\* one that has ended since, or died without its row, is masked too (_key_index).
MaskWasActive ==
    load.pc = "done" =>
        \A u \in Viewed(load.user) :
            LET keys == Shows.users[u].keys
                Active(b) == {row \in load.rows : row.owner = u /\ row.ident = b /\ row.active}
            IN \A b \in DOMAIN keys :
                keys[b].active =>
                    \E row \in Active(b) : /\ row.key = keys[b].mask
                                           /\ \A other \in Active(b) : other.id <= row.id
=============================================================================
