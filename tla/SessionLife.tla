----------------------------- MODULE SessionLife -----------------------------
(***************************************************************************)
(* What the network library promises about one slot of m_SessionTable: a   *)
(* connection opens in a free slot, is used by any number of references    *)
(* while it is open, is closed only when nobody uses it, and gives the     *)
(* slot back before the next connection takes it.  SessionRef is shown to  *)
(* implement this.                                                         *)
(***************************************************************************)
EXTENDS Naturals

CONSTANTS
    Refs,    \* what may hold a reference to the session
    Acc      \* the reference of AcceptThread

Users == Refs \cup {Acc}

VARIABLES
    stage,   \* "free", "opening" (AcceptThread fills it in), "open", "closing"
    current, \* number of the last connection given the slot, 0 before the first
    users    \* the references that passed the validity check

vars == <<stage, current, users>>

Init ==
    /\ stage = "free"
    /\ current = 0
    /\ users = {}

\* AcceptThread takes the slot for the next connection.
Open ==
    /\ stage = "free"
    /\ stage' = "opening"
    /\ current' = current + 1
    /\ UNCHANGED users

\* The connection becomes usable, AcceptThread being its first user.
Publish ==
    /\ stage = "opening"
    /\ stage' = "open"
    /\ users' = {Acc}
    /\ UNCHANGED current

Enter(r) ==
    /\ stage = "open"
    /\ users' = users \cup {r}
    /\ UNCHANGED <<stage, current>>

Leave(r) ==
    /\ r \in users
    /\ users' = users \ {r}
    /\ UNCHANGED <<stage, current>>

\* The session is given up: never under a user.
Close ==
    /\ stage = "open"
    /\ users = {}
    /\ stage' = "closing"
    /\ UNCHANGED <<current, users>>

\* The slot can take another connection.
Recycle ==
    /\ stage = "closing"
    /\ stage' = "free"
    /\ UNCHANGED <<current, users>>

Next ==
    \/ Open \/ Publish \/ Close \/ Recycle
    \/ \E r \in Users : Enter(r) \/ Leave(r)

Spec == Init /\ [][Next]_vars
=============================================================================
