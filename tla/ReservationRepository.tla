----------------------- MODULE ReservationRepository -----------------------
(***************************************************************************)
(* What the nominal port of runtime/_pure_action_reservation_port.py       *)
(* promises, as the in-memory reference of                                 *)
(* runtime/_pure_action_reservation_repository.py keeps it: each operation *)
(* takes effect at one instant, under one lock, and its answer is the      *)
(* verdict at that instant.  A durable repository may also answer error    *)
(* (nothing happened) or indeterminate (it may have happened), and callers *)
(* may die.  advance_current_predecessor, which only tests call, is left   *)
(* out: a net moves by commits alone.                                      *)
(***************************************************************************)
EXTENDS ReservationRecords

CONSTANTS Clients,      \* callers, each with at most one call open
          Inputs,       \* the calls they may make
          Files         \* the contents a repository may be opened on

VARIABLES current,      \* the current coordinate of each net, or None
          active,       \* the reservation each net is held by, or None
          commits,      \* the commits retained
          calls         \* the open call of each client

vars == <<current, active, commits, calls>>

Idle == [phase |-> "idle", input |-> None, result |-> None]

Requested(x) == [phase |-> "requested", input |-> x, result |-> None]

Answer(c, status) ==
    calls' = [calls EXCEPT ![c] = [phase  |-> "done",
                                   input  |-> calls[c].input,
                                   result |-> status]]

Init ==
    /\ \E f \in Files : current = f.current /\ active = f.active /\ commits = f.commits
    /\ calls = [c \in Clients |-> Idle]

Request(c, x) ==
    /\ calls[c].phase = "idle"
    /\ calls' = [calls EXCEPT ![c] = Requested(x)]
    /\ UNCHANGED <<current, active, commits>>

\* Predecessors a repository is opened with, where the net has none yet.
Introduce ==
    /\ \A n \in Nets : current[n] # None => current'[n] = current[n]
    /\ \E n \in Nets : current[n] = None /\ current'[n] # None
    /\ UNCHANGED <<active, commits, calls>>

Reserve(r) ==
    /\ ReserveVerdict(current, active, commits, r) = "reserved"
    /\ active' = [active EXCEPT ![r.net] = r]
    /\ UNCHANGED <<current, commits>>

\* One swap retains the commit, consumes the reservation and moves the net.
CommitTo(x) ==
    /\ CommitVerdict(current, active, commits, x) = "committed"
    /\ commits' = commits \cup {x}
    /\ active' = [active EXCEPT ![x.reservation.net] = None]
    /\ current' = [current EXCEPT ![x.reservation.net] = Successor(x)]

AnswerReserve(c, r) ==
    \/ Reserve(r) /\ \E status \in {"reserved", "indeterminate"} : Answer(c, status)
    \/ /\ \E status \in {ReserveVerdict(current, active, commits, r), "indeterminate", "error"} :
             status # "reserved" /\ Answer(c, status)
       /\ UNCHANGED <<current, active, commits>>

AnswerCommit(c, x) ==
    \/ CommitTo(x) /\ \E status \in {"committed", "indeterminate"} : Answer(c, status)
    \/ /\ \E status \in {CommitVerdict(current, active, commits, x), "indeterminate", "error"} :
             status # "committed" /\ Answer(c, status)
       /\ UNCHANGED <<current, active, commits>>

AnswerRevalidate(c, r) ==
    /\ \E status \in {RevalidateVerdict(current, active, commits, r), "error"} :
          Answer(c, status)
    /\ UNCHANGED <<current, active, commits>>

\* load_commit and its kin; what lifecycle and safety reads say is not part of
\* the port.
AnswerLoad(c, x) ==
    /\ \E status \in {"found", "absent", "legacy_partial", "incompatible", "corrupt", "error"} :
          /\ x.operation = "load" =>
                /\ status = "found" => RetainedFor(commits, x.reservation) # {}
                /\ status = "absent" => RetainedFor(commits, x.reservation) = {}
          /\ Answer(c, status)
    /\ UNCHANGED <<current, active, commits>>

Effect(c, x) ==
    /\ calls[c] = Requested(x)
    /\ \/ x.operation = "reserve" /\ AnswerReserve(c, x.reservation)
       \/ x.operation = "revalidate" /\ AnswerRevalidate(c, x.reservation)
       \/ x.operation = "commit" /\ AnswerCommit(c, x.commit)
       \/ x.operation \in {"load", "evidence", "lifecycle", "safety"} /\ AnswerLoad(c, x)

Receive(c) ==
    /\ calls[c].phase = "done"
    /\ calls' = [calls EXCEPT ![c] = Idle]
    /\ UNCHANGED <<current, active, commits>>

\* The caller dies, its effect made or not.
Crash(c) ==
    /\ calls[c].phase # "idle"
    /\ calls' = [calls EXCEPT ![c] = Idle]
    /\ \/ \E x \in Inputs :
             /\ calls[c] = Requested(x)
             /\ \/ x.operation = "reserve" /\ Reserve(x.reservation)
                \/ x.operation = "commit" /\ CommitTo(x.commit)
       \/ UNCHANGED <<current, active, commits>>

Next ==
    \/ \E c \in Clients :
          \/ \E x \in Inputs : Request(c, x) \/ Effect(c, x)
          \/ Receive(c)
          \/ Crash(c)
    \/ Introduce

Spec == Init /\ [][Next]_vars
=============================================================================
