---------------------------- MODULE KeyRegister ----------------------------
(***************************************************************************)
(* What the key pages promise (models.py, services/keys.py): a token is    *)
(* made, shown, stored as one of its logical key's and retired, in that    *)
(* order and only once.  No retired key comes back, no row goes or changes *)
(* hands, no name is taken twice.  No request, lock, call or crash is      *)
(* visible here.                                                           *)
(***************************************************************************)
CONSTANTS None, Names, Idents, Aliases

VARIABLES
    names,  \* of the logical keys, None if unused
    rows,   \* the keys as stored, None if not
    live,   \* tokens that work
    shown   \* tokens that a user was given

registerVars == <<names, rows, live, shown>>

Init ==
    /\ names = [i \in Idents |-> None]
    /\ rows = [a \in Aliases |-> None]
    /\ live = {} /\ shown = {}

\* A logical key gets a name that is free.
Name ==
    /\ \E i \in Idents, n \in Names :
        /\ \A j \in Idents : names[j] # n
        /\ names' = [names EXCEPT ![i] = n]
    /\ UNCHANGED <<rows, live, shown>>

\* A token begins to work before anyone has it,
Mint ==
    /\ \E a \in Aliases \ shown : rows[a] = None /\ live' = live \cup {a}
    /\ UNCHANGED <<names, rows, shown>>

\* is given to a user,
Show ==
    /\ \E a \in Aliases : rows[a] = None /\ shown' = shown \cup {a}
    /\ UNCHANGED <<names, rows, live>>

\* is stored, by itself or (unless a user has it) for the record only,
Store ==
    /\ \E a \in Aliases, i \in Idents, active \in BOOLEAN :
        /\ rows[a] = None /\ names[i] # None
        /\ a \in shown => active
        /\ rows' = [rows EXCEPT ![a] = [ident |-> i, active |-> active]]
    /\ UNCHANGED <<names, live, shown>>

\* or in place of another one, which no longer works,
Replace ==
    /\ \E a, b \in Aliases :
        /\ rows[a] = None /\ a \in shown
        /\ rows[b] # None /\ b \notin live
        /\ rows' = [rows EXCEPT ![a] = [ident |-> rows[b].ident, active |-> TRUE],
                                ![b].active = FALSE]
    /\ UNCHANGED <<names, live, shown>>

\* works until some day it does not,
Die ==
    /\ \E a \in live : live' = live \ {a}
    /\ UNCHANGED <<names, rows, shown>>

\* and is retired after that.
Retire ==
    /\ \E a \in Aliases :
        /\ rows[a] # None /\ a \notin live
        /\ rows' = [rows EXCEPT ![a].active = FALSE]
    /\ UNCHANGED <<names, live, shown>>

Next == Name \/ Mint \/ Show \/ Store \/ Replace \/ Die \/ Retire

Spec == Init /\ [][Next]_registerVars
=============================================================================
