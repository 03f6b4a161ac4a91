--------------------------- MODULE ActionPipeline ---------------------------
(***************************************************************************)
(* The records that the pure-action services make and are handed back:     *)
(* authorized inputs, reservations, invocation outcomes, firing outcomes   *)
(* and commits.  The application keeps all of them, for several attempts   *)
(* on several nets at once, and may call a service with any combination;   *)
(* each service decides for itself what belongs together.                  *)
(*                                                                         *)
(* A call is one step here.  What may happen between the checks of a call, *)
(* between callers, and when calls fail, is in PureActionExecution, whose  *)
(* callers only combine what belongs together.                             *)
(***************************************************************************)
EXTENDS ReservationRecords, ActionExchange

CONSTANTS Manifest, Mapping, Plan,  \* what the attempts are bound to
          Selections,               \* selected-binding evidence
          Offered,                  \* coordinates callers may supply
          Integrations, Transitions,    \* what workers load, callers hand in
          Owner(_),                 \* the results the owner may give a request
          InputsAt(_),              \* the payloads of each source revision
          Occur(_, _, _),           \* the net: marking, binding, external value
          Start, MaxRevision,       \* first coordinates; bound on the source
          MaxHeld                   \* bound on the records of each kind

ASSUME PipelineAssumption ==
    /\ BindingsAreValid(Manifest, Mapping)
    /\ Start \in [Nets -> Coordinate]
    /\ \A c \in Offered : c.net \in Nets
    /\ MaxRevision \in Nat /\ MaxHeld \in Nat

VARIABLES current, active, commits,   \* the reservation repository
          source,                     \* the revision of the source
          authorized, reserved, invocations, firings,  \* records callers hold
          answers                     \* history: what owners answered, to whom

repository == <<current, active, commits>>
held == <<authorized, reserved, invocations, firings, answers>>
vars == <<repository, source, held>>

Init ==
    /\ current = Start
    /\ active = [n \in Nets |-> None]
    /\ commits = {}
    /\ source = 0
    /\ authorized = {} /\ reserved = {} /\ invocations = {} /\ firings = {}
    /\ answers = {}

HasRoom(records) == Cardinality(records) < MaxHeld

-----------------------------------------------------------------------------
(* What belongs together.                                                  *)

ReservationFor(a, plan) ==
    [net     |-> a.request.context.net,
     at      |-> [marking |-> a.request.context.marking, revision |-> a.request.context.revision],
     attempt |-> [authorized |-> a, plan |-> plan]]

\* reconstruct_successful_reservation
Correlates(r, a) == r.attempt.authorized = a

\* No source has changed, and the reservation still holds its predecessor.
IsCurrent(a, r) ==
    source = a.seen /\ RevalidateVerdict(current, active, commits, r) = "current"

\* Mutant: the plan of the reservation is not looked at.
FiresWithoutPlan(a, r, invocation, marking) ==
    /\ invocation.status = "mapped"
    /\ invocation.reservation = r
    /\ invocation.authorized = a
    /\ invocation.mapped.request = a.request
    /\ invocation.mapped.mapping = Mapping
    /\ marking = a.selected.marking /\ marking = a.request.context.marking

FiringCorrelates(a, r, invocation, marking) ==
    /\ invocation.status = "mapped"
    /\ r.attempt.plan = Plan
    /\ invocation.reservation = r
    /\ invocation.authorized = a
    /\ invocation.mapped.request = a.request
    /\ invocation.mapped.mapping = Mapping
    /\ marking = a.selected.marking /\ marking = a.request.context.marking
    /\ a.selected.binding.transition = a.request.context.transition

\* Mutant: the firing outcome is not compared with the invocation.
CommitsAnyFiring(a, r, invocation, firing) ==
    /\ r.attempt.plan = Plan
    /\ invocation.status = "mapped"
    /\ invocation.reservation = r
    /\ invocation.authorized = a
    /\ firing.status = "fired"
    /\ firing.predecessor = a.request.context.marking

CommitCorrelates(a, r, invocation, firing) ==
    /\ r.attempt.plan = Plan
    /\ invocation.status = "mapped"
    /\ invocation.reservation = r
    /\ invocation.authorized = a
    /\ firing.status = "fired"
    /\ firing.invocation = invocation
    /\ firing.predecessor = a.request.context.marking
    /\ r.at = [marking |-> a.request.context.marking, revision |-> a.request.context.revision]

-----------------------------------------------------------------------------
(* The services.  What raises, or answers that it did nothing, leaves      *)
(* nothing that another service accepts, and is no step.                   *)

Authorize(selected, coordinates) ==
    /\ RequestIsAdmissible(Mapping, selected, coordinates, InputsAt(source))
    /\ HasRoom(authorized)
    /\ authorized' = authorized \cup
           {[seen     |-> source,
             selected |-> selected,
             request  |-> FiringRequest(Mapping, selected, coordinates, InputsAt(source))]}
    /\ UNCHANGED <<repository, source, reserved, invocations, firings, answers>>

\* The plan may be left out.
Reserve(a, plan) ==
    LET r == ReservationFor(a, plan)
    IN  /\ source = a.seen
        /\ ReserveVerdict(current, active, commits, r) \in {"reserved", "idempotent"}
        /\ active' = [active EXCEPT ![r.net] = r]
        /\ reserved' = reserved \cup {r}
        /\ UNCHANGED <<current, commits, source, authorized, invocations, firings, answers>>

\* Among the outcomes with a result only a success is mapped.
InvocationStatus(transition, request, result) ==
    CASE result.kind = "rejected"  -> "owner_rejected"
      [] result.kind = "failed"    -> "owner_failed"
      [] result.kind = "succeeded" ->
             IF Maps(Mapping, transition, request, result) THEN "mapped" ELSE "result_rejected"

Invoke(a, r, integration, transition) ==
    /\ Correlates(r, a)
    /\ IsCurrent(a, r)
    /\ Resolves(Manifest, integration, a.request)
    /\ \E result \in Owner(a.request) :
          LET status == InvocationStatus(transition, a.request, result)
          IN  /\ FireReturns(ResolvedFirer(integration, a.request), a.request, result)
              /\ HasRoom(invocations)
              /\ invocations' = invocations \cup
                     {[status |-> status, reservation |-> r, authorized |-> a, result |-> result,
                       transition |-> transition,
                       mapped |-> IF status = "mapped"
                                  THEN MappedResult(Mapping, a.request, result) ELSE None]}
              /\ answers' = answers \cup {[authorized |-> a, reservation |-> r, result |-> result]}
    /\ UNCHANGED <<repository, source, authorized, reserved, firings>>

\* The firer is pure; a failure of the net is an outcome, too.
Fire(a, r, invocation, marking) ==
    /\ Correlates(r, a)
    /\ FiringCorrelates(a, r, invocation, marking)
    /\ IsCurrent(a, r)
    /\ HasRoom(firings)
    /\ LET successor == Occur(marking, a.selected.binding, invocation.mapped.value)
       IN  firings' = firings \cup
               {[status |-> IF successor = None THEN "cpn_rejected" ELSE "fired",
                 invocation |-> invocation, predecessor |-> marking, successor |-> successor]}
    /\ UNCHANGED <<repository, source, authorized, reserved, invocations, answers>>

\* The identity of a commit digests the identities of all it closes over.
PreparedCommit(r, invocation, firing) ==
    [reservation |-> r,
     identity    |-> [reservation |-> r, invocation |-> invocation, firing |-> firing,
                      predecessor |-> r.at,
                      successor |-> [marking  |-> firing.successor, revision |-> r.at.revision + 1]],
     successor   |-> firing.successor,
     evidence    |-> None]

CommitCandidate(a, r, invocation, firing) ==
    LET x == PreparedCommit(r, invocation, firing)
    IN  /\ Correlates(r, a)
        /\ CommitCorrelates(a, r, invocation, firing)
        /\ firing.successor # a.request.context.marking
        /\ source = a.seen
        /\ CommitVerdict(current, active, commits, x) = "committed"
        /\ commits' = commits \cup {x}
        /\ active' = [active EXCEPT ![r.net] = None]
        /\ current' = [current EXCEPT ![r.net] = Successor(x)]
        /\ UNCHANGED <<source, held>>

\* The owner of the source publishes another revision.
Publish ==
    /\ source < MaxRevision
    /\ source' = source + 1
    /\ UNCHANGED <<repository, held>>

Next ==
    \/ Publish
    \/ \E s \in Selections, c \in Offered : Authorize(s, c)
    \/ \E a \in authorized, p \in {Plan, None} : Reserve(a, p)
    \/ \E a \in authorized, r \in reserved, i \in Integrations, t \in Transitions :
           Invoke(a, r, i, t)
    \/ \E a \in authorized, r \in reserved, i \in invocations, m \in Markings :
           Fire(a, r, i, m)
    \/ \E a \in authorized, r \in reserved, i \in invocations, f \in firings :
           CommitCandidate(a, r, i, f)

Spec == Init /\ [][Next]_vars

-----------------------------------------------------------------------------
(* Replay of a retained commit, from its row of coordinates, its record    *)
(* and its event, the canonical bytes of the record.                       *)

CommitCoordinates(x) ==
    [commit |-> x.identity, reservation |-> x.reservation, net |-> x.reservation.net,
     predecessor |-> x.reservation.at, successor |-> Successor(x)]

CommitRecord(x) ==
    [commit |-> x.identity, reservation |-> x.reservation, net |-> x.reservation.net,
     invocation |-> x.identity.invocation, firing |-> x.identity.firing,
     predecessor |-> x.reservation.at, successor |-> Successor(x)]

\* The identity that a record's own content has.
ReconstructedIdentity(record) ==
    [reservation |-> record.reservation, invocation |-> record.invocation,
     firing |-> record.firing, predecessor |-> record.predecessor,
     successor |-> record.successor]

\* Mutant: the record is believed to have the identity it names.
ReplaysNamed(coordinates, record, event) ==
    /\ event = record
    /\ coordinates = [k \in DOMAIN coordinates |-> record[k]]

Replays(coordinates, record, event) ==
    /\ event = record
    /\ record.successor.revision = record.predecessor.revision + 1
    /\ record.successor.marking # record.predecessor.marking
    /\ record.commit = ReconstructedIdentity(record)
    /\ coordinates = [k \in DOMAIN coordinates |-> record[k]]

-----------------------------------------------------------------------------
(* Properties.                                                             *)

\* What is committed is what the net makes of the answer that the owner gave
\* to this very reservation, with all the evidence asked for, under the
\* binding selected at the marking the reservation holds; whatever records of
\* other attempts and nets were handed in with it.
CommittedIsOwnersAnswer ==
    \A x \in commits : \E answer \in answers :
        LET a == answer.authorized
        IN  /\ answer.reservation = x.reservation
            /\ x.reservation = ReservationFor(a, Plan)
            /\ x.identity.invocation.result = answer.result
            /\ answer.result.kind = "succeeded"
            /\ Len(answer.result.evidence) = Len(Mapping.descriptor.evidence)
            /\ a.selected.marking = x.reservation.at.marking
            /\ x.successor = Occur(x.reservation.at.marking, a.selected.binding,
                                   answer.result.outputs[1].content)

\* An answer moves one net once: no two commits close over one owner result,
\* though attempts on several nets may otherwise be alike.
AnswerMovesOneNet ==
    \A x, y \in commits :
        x.identity.invocation.result = y.identity.invocation.result => x = y

\* A success that Firer.fire let pass is refused by the mapper for one of
\* three reasons only: evidence was left out, the output is no path-free
\* identity, or the caller supplied another transition.  Order, roles and
\* bounds agree between the two sides.
AcceptedSuccessIsMapped ==
    \A i \in invocations : i.status = "result_rejected" =>
        \/ Len(i.result.evidence) < Len(Mapping.descriptor.evidence)
        \/ i.result.outputs[1].content \notin PathFreeTexts
        \/ i.transition # [identity  |-> Mapping.binding.transition,
                           externals |-> <<Mapping.variable>>]

\* What the firing service makes a candidate, the commit service accepts, as
\* long as nothing has changed: no reservation is fired that cannot be
\* committed.
CandidateCanBeCommitted ==
    \A f \in firings :
        LET a == f.invocation.authorized
            r == f.invocation.reservation
        IN  f.status = "fired" /\ f.successor # f.predecessor /\ IsCurrent(a, r) =>
                /\ CommitCorrelates(a, r, f.invocation, f)
                /\ CommitVerdict(current, active, commits,
                                 PreparedCommit(r, f.invocation, f)) = "committed"

\* A retained commit is replayed from its own rows, and rows or records in
\* which parts of two commits are mixed are not.
CommitReplayIsExact ==
    \A x, y \in commits :
        LET Mixed == {[k \in DOMAIN CommitRecord(x) |->
                          IF k \in S THEN CommitRecord(x)[k] ELSE CommitRecord(y)[k]] :
                      S \in SUBSET DOMAIN CommitRecord(x)}
        IN  \A record \in Mixed : \A event \in {CommitRecord(x), record} :
                Replays(CommitCoordinates(x), record, event)
                    <=> record = CommitRecord(x) /\ event = record
=============================================================================
