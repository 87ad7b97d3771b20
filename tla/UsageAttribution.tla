--------------------------- MODULE UsageAttribution ---------------------------
(***************************************************************************)
(* What services/usage.py makes of LiteLLM's activity: which user and      *)
(* which logical key a record counts for, and the report built from that.  *)
(*                                                                         *)
(* Amounts are abstracted: a total is the set of positions, in the list    *)
(* that was fetched, of the records it adds up.  LiteLLM lists a record    *)
(* under its key and again under its model and key; both lists are built   *)
(* from the one record here.  A key stands for its token and for its       *)
(* alias.  The migrations left no key row without an identity, so the      *)
(* bucket of a row is its identity.  Orders of display are left out.       *)
(***************************************************************************)
EXTENDS Naturals, Sequences

CONSTANTS
    Users,
    Idents,         \* logical keys
    Keys,           \* tokens, and with them aliases, LiteLLM knows
    ServiceAliases, \* the keys whose alias has a configured prefix
    Models

ASSUME AttributionAssumption == ServiceAliases \subseteq Keys

\* A row of api_keys.  known: LiteLLM told the token when the key was made,
\* otherwise litellm_key_id holds something else.
KeyRow == [id : Nat, key : Keys, owner : Users, ident : Idents,
           known : BOOLEAN, active : BOOLEAN]

\* One record of the activity.  named: the record carries the key's alias.
Record == [id : Nat, key : Keys, named : BOOLEAN, model : Models]

OwnedKey(row) == [user |-> row.owner, bucket |-> row.ident]

\* _key_index: tokens and aliases are unique, so no entry replaces another.
RowWithKey(rows, k) == CHOOSE row \in rows : row.key = k
ByToken(rows) == [t \in {row.key : row \in {r \in rows : r.known}} |->
                      OwnedKey(RowWithKey(rows, t))]
ByAlias(rows) == [a \in {row.key : row \in rows} |-> OwnedKey(RowWithKey(rows, a))]

RowsOf(rows, u, b) == {row \in rows : row.owner = u /\ row.ident = b}
Buckets(rows, u) == {row.ident : row \in {r \in rows : r.owner = u}}

\* Rows come in the order of their ids.
FirstRow(some) == CHOOSE row \in some : \A r \in some : row.id <= r.id
LastRow(some) == CHOOSE row \in some : \A r \in some : row.id >= r.id

\* Slip: a later row is not looked at again.
DescriptorOfFirst(rows, u, b) ==
    [active |-> \E row \in RowsOf(rows, u, b) : row.active,
     mask   |-> FirstRow(RowsOf(rows, u, b)).key]

\* The descriptor of a bucket: the first row makes it, a later active row
\* replaces the masked key, which is represented by its key.
Descriptor(rows, u, b) ==
    LET active == {row \in RowsOf(rows, u, b) : row.active}
    IN [active |-> active # {},
        mask   |-> (IF active # {} THEN LastRow(active) ELSE FirstRow(RowsOf(rows, u, b))).key]

------------------------------------------------------------------------------
(* attribute.                                                               *)

UserTarget(owner) == [kind |-> "user", id |-> owner]
ServiceTarget(rec) == [kind |-> "service", id |-> rec.key]
\* An alias and a token are different names for the same stranger.
UnknownTarget(rec) == [kind |-> "unknown", id |-> [key |-> rec.key, named |-> rec.named]]

\* Slip: revoked keys are nobody's.
ClassifyActive(rows, rec) ==
    IF \E row \in rows : row.key = rec.key /\ row.active
    THEN UserTarget(OwnedKey(RowWithKey(rows, rec.key)))
    ELSE IF rec.named /\ rec.key \in ServiceAliases
    THEN ServiceTarget(rec)
    ELSE UnknownTarget(rec)

\* Slip: a service's alias is looked at before the owner.
ClassifyServicesFirst(rows, rec) ==
    CASE rec.named /\ rec.key \in ServiceAliases -> ServiceTarget(rec)
      [] rec.key \in DOMAIN ByToken(rows) -> UserTarget(ByToken(rows)[rec.key])
      [] OTHER -> UnknownTarget(rec)

Classify(rows, rec) ==
    IF rec.key \in DOMAIN ByToken(rows)
    THEN UserTarget(ByToken(rows)[rec.key])
    ELSE IF rec.named /\ rec.key \in DOMAIN ByAlias(rows)
    THEN UserTarget(ByAlias(rows)[rec.key])
    ELSE IF rec.named /\ rec.key \in ServiceAliases
    THEN ServiceTarget(rec)
    ELSE UnknownTarget(rec)

\* The positions counted for a target.
Counted(rows, fetched, target) ==
    {i \in DOMAIN fetched : Classify(rows, fetched[i]) = target}

\* One section of UsageAttribution: the totals of every target of a kind.
Section(rows, fetched, kind) ==
    LET targets == {Classify(rows, fetched[i]) : i \in DOMAIN fetched}
    IN [id \in {t.id : t \in {s \in targets : s.kind = kind}} |->
            Counted(rows, fetched, [kind |-> kind, id |-> id])]

OfModel(fetched, total, m) == {i \in total : fetched[i].model = m}

------------------------------------------------------------------------------
(* _summary and collect.                                                    *)

\* _key_usage, with the models below the key.
KeyUsage(rows, fetched, u, b) ==
    LET total == Counted(rows, fetched, UserTarget([user |-> u, bucket |-> b]))
    IN [active |-> Descriptor(rows, u, b).active,
        mask   |-> Descriptor(rows, u, b).mask,
        total  |-> total,
        models |-> [m \in Models |-> OfModel(fetched, total, m)]]

\* Slip: inactive keys are not shown.
ShownIfActive(rows, fetched, u, b) == Descriptor(rows, u, b).active

\* An inactive key is shown only for what it has used.
Shown(rows, fetched, u, b) ==
    \/ Descriptor(rows, u, b).active
    \/ Counted(rows, fetched, UserTarget([user |-> u, bucket |-> b])) # {}

Summary(rows, fetched, u) ==
    LET shown == {b \in Buckets(rows, u) : Shown(rows, fetched, u, b)}
    IN [available |-> TRUE,
        total |-> {i \in DOMAIN fetched :
                       LET t == Classify(rows, fetched[i])
                       IN t.kind = "user" /\ t.id.user = u},
        keys  |-> [b \in shown |-> KeyUsage(rows, fetched, u, b)]]

Unavailable == [available |-> FALSE, total |-> {}, keys |-> <<>>]

Report(rows, fetched, users) ==
    [users    |-> [u \in users |-> Summary(rows, fetched, u)],
     services |-> Section(rows, fetched, "service"),
     unknown  |-> Section(rows, fetched, "unknown")]

NoReport(users) ==
    [users |-> [u \in users |-> Unavailable], services |-> <<>>, unknown |-> <<>>]
=============================================================================
