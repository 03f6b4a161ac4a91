--------------------------- MODULE RunReservation ---------------------------
(***************************************************************************)
(* What the local runtime promises about one run (docs/contracts/workflow- *)
(* runtime.md, "Active occurrence reservation"): one request at a time     *)
(* holds the current core state; a request is settled at most once; the    *)
(* core state advances only when the holder's transition is recorded.      *)
(***************************************************************************)
EXTENDS Naturals

CONSTANT Final        \* the statuses at which a run ends

VARIABLES state,      \* the current core state, once there is one
          holder,     \* the request that holds it, if one does
          settled     \* the requests that were retained or refused

vars == <<state, holder, settled>>

Init == state = {} /\ holder = {} /\ settled = {}

Begin ==
    /\ state = {}
    /\ \E s \in state' : state' = {s} /\ s.revision = 0
    /\ UNCHANGED <<holder, settled>>

\* A request made at the current state acquires it.
Reserve ==
    /\ holder = {}
    /\ \E s \in state, request \in holder' :
          /\ s.status \notin Final
          /\ request.state = s
          /\ request \notin settled
          /\ holder' = {request}
          /\ settled' = settled \cup {request}
    /\ UNCHANGED state

\* A collision, a competing request or a failed preflight.
Refuse ==
    /\ state # {}
    /\ \E request \in settled' \ settled : settled' = settled \cup {request}
    /\ UNCHANGED <<state, holder>>

\* A recorded transition leaves the core state or its immediate successor.
Follows(s, t) ==
    \/ t = s
    \/ t.predecessor = {s} /\ t.revision = s.revision + 1

\* The holder's transition is recorded, whatever came of it.
Release ==
    /\ holder # {} /\ holder' = {}
    /\ \E s \in state, t \in state' : Follows(s, t) /\ state' = {t}
    /\ UNCHANGED settled

Next == Begin \/ Reserve \/ Refuse \/ Release

Spec == Init /\ [][Next]_vars
=============================================================================
