------------------------- MODULE ReservationRecords -------------------------
(***************************************************************************)
(* The records of runtime/_pure_action_reservation_records.py and the      *)
(* judgements every pure-action reservation repository passes on them.     *)
(*                                                                         *)
(* Identities are digests of content, so a reservation stands for its      *)
(* identity; attempt stands for everything else a reservation binds (plan, *)
(* bindings, request, occurrence, attempt).  The identity of a commit is   *)
(* supplied with it, and the repositories compare it on its own.           *)
(***************************************************************************)
EXTENDS Naturals

CONSTANTS Nets,         \* net instances
          Markings,     \* marking identities
          Attempts,     \* what a reservation is for
          CommitIds,    \* commit identities
          Evidences,    \* replay evidence retained with a commit
          None          \* no reservation, no evidence, no coordinate

Coordinate == [marking : Markings, revision : Nat]

Reservation == [net : Nets, at : Coordinate, attempt : Attempts]

\* A commit consumes its reservation and moves the net to another marking.
\* Without evidence it is one of the older, compact commits.
Commit ==
    {x \in [reservation : Reservation,
            identity    : CommitIds,
            successor   : Markings,
            evidence    : Evidences \cup {None}] :
        x.successor # x.reservation.at.marking}

Successor(x) == [marking |-> x.successor, revision |-> x.reservation.at.revision + 1]

\* Mutant: the marking alone is compared.
MatchesMarking(current, r) ==
    current[r.net] # None /\ current[r.net].marking = r.at.marking

MatchesCurrent(current, r) == current[r.net] = r.at

RetainedFor(commits, r) == {y \in commits : y.reservation = r}

Consumed(commits) == {y.reservation : y \in commits}

\* y is the commit that a retry of x asks for; a compact retry does not ask
\* for evidence.
SameCommit(x, y) ==
    /\ x.reservation = y.reservation
    /\ x.identity = y.identity
    /\ x.successor = y.successor
    /\ x.evidence \in {None, y.evidence}

IdentityTaken(commits, x) == \E y \in commits : y.identity = x.identity

-----------------------------------------------------------------------------
(* The judgements, in the order in which they are passed.                  *)

ReserveVerdict(current, active, commits, r) ==
    CASE ~ MatchesCurrent(current, r) -> "stale"
      [] MatchesCurrent(current, r) /\ active[r.net] # None ->
             IF active[r.net] = r THEN "idempotent" ELSE "conflict"
      [] MatchesCurrent(current, r) /\ active[r.net] = None ->
             IF r \in Consumed(commits) THEN "conflict" ELSE "reserved"

RevalidateVerdict(current, active, commits, r) ==
    CASE r \in Consumed(commits)      -> "consumed"
      [] r \notin Consumed(commits) /\ active[r.net] # r -> "absent"
      [] r \notin Consumed(commits) /\ active[r.net] = r ->
             IF MatchesCurrent(current, r) THEN "current" ELSE "stale"

CommitVerdict(current, active, commits, x) ==
    LET retained == RetainedFor(commits, x.reservation)
        taken    == IdentityTaken(commits, x)
    IN  CASE retained # {} ->
                 IF \A y \in retained : SameCommit(x, y) THEN "idempotent" ELSE "conflict"
          [] retained = {} /\ taken -> "conflict"
          [] retained = {} /\ ~ taken /\ ~ MatchesCurrent(current, x.reservation) -> "stale"
          [] retained = {} /\ ~ taken /\ MatchesCurrent(current, x.reservation) ->
                 IF active[x.reservation.net] = x.reservation THEN "committed" ELSE "conflict"
=============================================================================
