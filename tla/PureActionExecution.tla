------------------------ MODULE PureActionExecution ------------------------
(***************************************************************************)
(* The services that take one pure action from its inputs to a committed   *)
(* marking, run by several callers against one reservation repository and  *)
(* the repository of a source owner:                                       *)
(*   authorize  runtime/pure_action_input_authority.py                     *)
(*   reserve    runtime/_pure_action_reservation_service.py                *)
(*   invoke     execution/pure_action_invocation.py                        *)
(*   fire       execution/pure_action_firing.py                            *)
(*   commit     execution/pure_action_durable_cpn_commit.py, and the       *)
(*              compact writer of execution/pure_action_commit.py          *)
(* Each service is a sequence of loads and calls, and everything may       *)
(* change between two of them.  The reservation repository is the port of  *)
(* ReservationRepository: one atomic operation per call.  Sources, owner   *)
(* and worker integration are external.                                    *)
(***************************************************************************)
EXTENDS ReservationRecords, Sequences

CONSTANTS Callers,      \* callers of the services
          Requests,     \* [net, at, name] : the attempts callers may make
          N,            \* how many sources an action reads, in a fixed order
          MaxRevision,  \* bound: the last revision of a source
          Transcript,   \* the replay evidence of a durable commit
          Start,        \* the current coordinates at first
          LoadsMayFail  \* whether the source owner may fail to answer

ASSUME ExecutionAssumption ==
    /\ N \in Nat \ {0}
    /\ MaxRevision \in Nat
    /\ LoadsMayFail \in BOOLEAN
    /\ Transcript \in Evidences
    /\ \A request \in Requests : request.net \in Nets
    /\ None \notin {"committed", "idempotent"}

VARIABLES current, active, commits,     \* the reservation repository
          sources,                      \* the revision of each source
          callers                       \* what each caller does and holds

repository == <<current, active, commits>>
vars == <<repository, sources, callers>>

Sources == 1 .. N

\* The attempt a reservation binds, with the source revisions that were
\* authorized for it.
ReservationFor(request, seen) ==
    [net |-> request.net, at |-> request.at,
     attempt |-> [name |-> request.name, seen |-> seen]]

\* What a caller does: its phase, the next source to look at, whether a look
\* has failed since the check began, what the owner returned and whether it
\* was asked after the reservation had been consumed, the commit writer, and
\* whether all sources were unchanged when the commit call began.  What it
\* holds: request, revisions seen, reservation, mapped result, candidate.
Fresh ==
    [phase |-> "ready", next |-> 1, failed |-> FALSE, late |-> FALSE, fresh |-> FALSE,
     writer |-> None, request |-> None, seen |-> <<>>, reservation |-> None,
     returned |-> None, mapped |-> None, candidate |-> None, answer |-> None]

Init ==
    /\ current = Start
    /\ active = [n \in Nets |-> None]
    /\ commits = {}
    /\ sources = [s \in Sources |-> 0]
    /\ callers = [w \in Callers |-> Fresh]

-----------------------------------------------------------------------------
(* How a caller goes on.                                                   *)

In(w, phases) == callers[w].phase \in phases

Hold(w, f) == callers' = [callers EXCEPT ![w] = f]

\* Enter a phase, at the first source.
Entered(f, phase) == [f EXCEPT !.phase = phase, !.next = 1, !.failed = FALSE]

Enter(w, phase) == Hold(w, Entered(callers[w], phase))

\* A call ends; what the owner returned was a local of it.
Finished(f, answer) == [Entered(f, "ready") EXCEPT !.answer = answer, !.returned = None]

Finish(w, answer) == Hold(w, Finished(callers[w], answer))

Sought(w) == callers[w].reservation

\* The commit that the commit services prepare: its identity is a digest of
\* all that led to it.
Prepared(w) ==
    [reservation |-> Sought(w),
     identity    |-> [of |-> Sought(w), result |-> callers[w].candidate],
     successor   |-> callers[w].candidate,
     evidence    |-> IF callers[w].writer = "durable" THEN Transcript ELSE None]

-----------------------------------------------------------------------------
(* A caller begins a call.  A service is handed what the ones before it    *)
(* returned; it refuses records that do not belong together before it      *)
(* looks at anything, so callers are let pass only what belongs together.  *)

BeginAuthorize(w) ==
    /\ In(w, {"ready"})
    /\ \E request \in Requests :
          Hold(w, [Entered(Fresh, "authorize") EXCEPT !.request = request])
    /\ UNCHANGED <<repository, sources>>

BeginReserve(w) ==
    /\ In(w, {"ready"})
    /\ Len(callers[w].seen) = N /\ callers[w].reservation = None
    /\ Hold(w, [Entered(callers[w], "reserve") EXCEPT !.answer = None])
    /\ UNCHANGED <<repository, sources>>

BeginInvoke(w) ==
    /\ In(w, {"ready"})
    /\ callers[w].reservation # None
    /\ Hold(w, [Entered(callers[w], "pre_worker")
                  EXCEPT !.mapped = None, !.candidate = None, !.answer = None,
                         !.late = FALSE, !.writer = None, !.fresh = FALSE])
    /\ UNCHANGED <<repository, sources>>

BeginFire(w) ==
    /\ In(w, {"ready"})
    /\ callers[w].mapped # None
    /\ Hold(w, [Entered(callers[w], "pre_cpn")
                  EXCEPT !.candidate = None, !.answer = None, !.writer = None, !.fresh = FALSE])
    /\ UNCHANGED <<repository, sources>>

BeginCommit(w) ==
    /\ In(w, {"ready"})
    /\ callers[w].candidate # None
    /\ \E writer \in {"durable", "compact"} :
          Hold(w, [Entered(callers[w], "load")
                     EXCEPT !.writer = writer, !.answer = None,
                            !.fresh = (sources = callers[w].seen)])
    /\ UNCHANGED <<repository, sources>>

-----------------------------------------------------------------------------
(* Sources.                                                                *)

\* Sources are loaded one after the other; the first that is not loaded ends
\* the call.
AuthorizeSource(w) ==
    /\ In(w, {"authorize"})
    /\ LET seen == Append(callers[w].seen, sources[callers[w].next])
       IN  \/ Hold(w, [callers[w] EXCEPT
                         !.seen = seen,
                         !.next = IF Len(seen) = N THEN 1 ELSE callers[w].next + 1,
                         !.phase = IF Len(seen) = N THEN "ready" ELSE "authorize"])
           \/ LoadsMayFail /\ Hold(w, [Fresh EXCEPT !.answer = "source"])
    /\ UNCHANGED <<repository, sources>>

\* The phases that begin with revalidate_sources.
Checkpoints == {"reserve", "pre_worker", "pre_owner", "post_owner", "post_error",
                "pre_cpn", "post_cpn", "commit"}

Looking(w) == In(w, Checkpoints) /\ callers[w].next <= N /\ ~ callers[w].failed

\* A source is found as it was authorized.
SourceUnchanged(w) ==
    /\ Looking(w)
    /\ sources[callers[w].next] = callers[w].seen[callers[w].next]
    /\ Hold(w, [callers[w] EXCEPT !.next = callers[w].next + 1])
    /\ UNCHANGED <<repository, sources>>

\* A source has changed, or cannot be loaded: no further one is looked at.
\* reserve and commit end here; the other checks still ask the repository.
SourceChanged(w) ==
    /\ Looking(w)
    /\ LoadsMayFail \/ sources[callers[w].next] # callers[w].seen[callers[w].next]
    /\ IF In(w, {"reserve", "commit"})
       THEN Finish(w, IF In(w, {"reserve"}) THEN "source" ELSE "stale")
       ELSE Hold(w, [callers[w] EXCEPT !.next = 1, !.failed = TRUE])
    /\ UNCHANGED <<repository, sources>>

\* Mutant: the first source stands for all.
FirstSourceChecked(w) == In(w, Checkpoints) /\ (callers[w].next > 1 \/ callers[w].failed)

\* All sources have been looked at.
SourcesChecked(w) == In(w, Checkpoints) /\ (callers[w].next > N \/ callers[w].failed)

-----------------------------------------------------------------------------
(* reserve.                                                                *)

\* Mutant: a reservation that may have been made is taken for made.
ReserveUncertainly(w) ==
    /\ In(w, {"reserve"}) /\ SourcesChecked(w)
    /\ Hold(w, [Entered(callers[w], "ready") EXCEPT
                  !.reservation = ReservationFor(callers[w].request, callers[w].seen),
                  !.answer = "indeterminate"])
    /\ UNCHANGED <<repository, sources>>

RepositoryReserve(w) ==
    /\ In(w, {"reserve"}) /\ SourcesChecked(w)
    /\ LET r        == ReservationFor(callers[w].request, callers[w].seen)
           verdict  == ReserveVerdict(current, active, commits, r)
           Admitted == Hold(w, [Entered(callers[w], "ready") EXCEPT
                                  !.reservation = r, !.answer = verdict])
       IN  \/ /\ verdict = "reserved"
              /\ active' = [active EXCEPT ![r.net] = r]
              /\ Admitted \/ Finish(w, "indeterminate")
           \/ /\ verdict = "idempotent"
              /\ Admitted
              /\ UNCHANGED active
           \/ /\ verdict \notin {"reserved", "idempotent"}
              /\ Finish(w, verdict)
              /\ UNCHANGED active
           \/ /\ \E status \in {"error", "indeterminate"} : Finish(w, status)
              /\ UNCHANGED active
    /\ UNCHANGED <<current, commits, sources>>

-----------------------------------------------------------------------------
(* invoke and fire: what follows a check of sources and predecessor.       *)

\* Where a check that finds everything current leads.
Onward == [pre_worker |-> "resolve", pre_owner |-> "owner", post_owner |-> "map",
           pre_cpn |-> "compute", post_cpn |-> "conclude"]

\* Mutant: nothing is asked after the owner has returned.
CheckBeforeOwnerOnly(w) ==
    /\ In(w, DOMAIN Onward) /\ SourcesChecked(w)
    /\ LET verdict == RevalidateVerdict(current, active, commits, Sought(w))
       IN  \/ /\ (verdict = "current" /\ ~ callers[w].failed) \/ In(w, {"post_owner"})
              /\ Enter(w, Onward[callers[w].phase])
           \/ verdict # "current" /\ ~ In(w, {"post_owner"}) /\ Finish(w, "stale")
    /\ UNCHANGED <<repository, sources>>

\* Mutant: the caller waits until everything is current.
WaitForPredecessor(w) ==
    /\ In(w, DOMAIN Onward) /\ SourcesChecked(w)
    /\ RevalidateVerdict(current, active, commits, Sought(w)) = "current"
    /\ ~ callers[w].failed
    /\ Enter(w, Onward[callers[w].phase])
    /\ UNCHANGED <<repository, sources>>

CheckPredecessor(w) ==
    /\ In(w, DOMAIN Onward) /\ SourcesChecked(w)
    /\ LET verdict == RevalidateVerdict(current, active, commits, Sought(w))
       IN  \/ /\ verdict = "current" /\ ~ callers[w].failed
              /\ Enter(w, Onward[callers[w].phase])
           \/ Finish(w, "stale")   \* not current, or the repository fails
    /\ UNCHANGED <<repository, sources>>

\* The live worker is validated against the manifest.
ResolveWorker(w) ==
    /\ In(w, {"resolve"})
    /\ Enter(w, "pre_owner") \/ Finish(w, "worker_rejected")
    /\ UNCHANGED <<repository, sources>>

\* firer.fire(): the owner returns a success, whose mapped output leads to
\* some marking, or rejects or fails, or raises.
InvokeOwner(w) ==
    /\ In(w, {"owner"})
    /\ LET late == Sought(w) \in Consumed(commits)
       IN  \/ \E returned \in (Markings \ {Sought(w).at.marking}) \cup {"owner_rejected"} :
                Hold(w, [Entered(callers[w], "post_owner")
                           EXCEPT !.returned = returned, !.late = late])
           \/ Hold(w, [Entered(callers[w], "post_error")
                         EXCEPT !.returned = None, !.late = late])
    /\ UNCHANGED <<repository, sources>>

\* After an owner that raised, both are looked at and only reported.
ReportOwnerError(w) ==
    /\ In(w, {"post_error"}) /\ SourcesChecked(w)
    /\ Finish(w, "owner_error")
    /\ UNCHANGED <<repository, sources>>

\* Only a success is mapped, and the mapper may refuse it.
MapResult(w) ==
    /\ In(w, {"map"})
    /\ \/ /\ callers[w].returned \in Markings
          /\ Hold(w, [callers[w] EXCEPT !.phase = "ready", !.answer = "mapped",
                                        !.mapped = callers[w].returned, !.returned = None])
       \/ Finish(w, "rejected")
    /\ UNCHANGED <<repository, sources>>

\* The transition firer is pure; it may raise or refuse the output.
ComputeSuccessor(w) ==
    /\ In(w, {"compute"})
    /\ Enter(w, "post_cpn") \/ Finish(w, "firing_error")
    /\ UNCHANGED <<repository, sources>>

ConcludeFiring(w) ==
    /\ In(w, {"conclude"})
    /\ \/ Hold(w, [callers[w] EXCEPT !.phase = "ready", !.answer = "fired",
                                     !.candidate = callers[w].mapped])
       \/ Finish(w, "rejected")
    /\ UNCHANGED <<repository, sources>>

-----------------------------------------------------------------------------
(* commit.                                                                 *)

Retained(w) == RetainedFor(commits, Sought(w))

\* The retained coordinates are those of the prepared commit.
SameCoordinates(w) ==
    \A y \in Retained(w) : y.identity = Prepared(w).identity /\ y.successor = Prepared(w).successor

\* Mutant: the evidence of a retained commit is not looked for.
LoadCoordinatesOnly(w) ==
    /\ In(w, {"load"})
    /\ \/ Retained(w) = {} /\ Enter(w, "commit")
       \/ Retained(w) # {} /\ SameCoordinates(w) /\ Finish(w, "idempotent")
       \/ Retained(w) # {} /\ ~ SameCoordinates(w) /\ Finish(w, "conflict")
    /\ UNCHANGED <<repository, sources>>

\* load_commit: a retained commit is compared; an unreadable one raises.
LoadCommit(w) ==
    /\ In(w, {"load"})
    /\ \/ Retained(w) = {} /\ Enter(w, "commit")
       \/ /\ Retained(w) # {} /\ SameCoordinates(w)
          /\ IF callers[w].writer = "durable" THEN Enter(w, "evidence")
                                              ELSE Finish(w, "idempotent")
       \/ Retained(w) # {} /\ ~ SameCoordinates(w) /\ Finish(w, "conflict")
       \/ Finish(w, "error")
    /\ UNCHANGED <<repository, sources>>

\* The durable writer asks for the evidence in a second call.
LoadEvidence(w) ==
    /\ In(w, {"evidence"})
    /\ \/ (\A y \in Retained(w) : y.evidence = Prepared(w).evidence) /\ Finish(w, "idempotent")
       \/ (\E y \in Retained(w) : y.evidence # Prepared(w).evidence) /\ Finish(w, "conflict")
       \/ Finish(w, "error")
    /\ UNCHANGED <<repository, sources>>

RepositoryCommit(w) ==
    /\ In(w, {"commit"}) /\ SourcesChecked(w)
    /\ LET x       == Prepared(w)
           verdict == CommitVerdict(current, active, commits, x)
       IN  \/ /\ verdict = "committed"
              /\ commits' = commits \cup {x}
              /\ active' = [active EXCEPT ![x.reservation.net] = None]
              /\ current' = [current EXCEPT ![x.reservation.net] = Successor(x)]
              /\ \E status \in {"committed", "indeterminate"} : Finish(w, status)
           \/ /\ \E status \in {verdict, "error", "indeterminate"} :
                    status # "committed" /\ Finish(w, status)
              /\ UNCHANGED repository
    /\ UNCHANGED sources

-----------------------------------------------------------------------------
(* The world.                                                              *)

\* The owner publishes another revision of a source.
Publish ==
    /\ \E s \in Sources :
          /\ sources[s] < MaxRevision
          /\ sources' = [sources EXCEPT ![s] = @ + 1]
    /\ UNCHANGED <<repository, callers>>

\* A caller dies; what it held is lost.
Crash(w) ==
    /\ callers[w] # Fresh
    /\ Hold(w, Fresh)
    /\ UNCHANGED <<repository, sources>>

Begin(w) ==
    BeginAuthorize(w) \/ BeginReserve(w) \/ BeginInvoke(w) \/ BeginFire(w) \/ BeginCommit(w)

Step(w) ==
    \/ AuthorizeSource(w)
    \/ SourceUnchanged(w)
    \/ SourceChanged(w)
    \/ RepositoryReserve(w)
    \/ CheckPredecessor(w)
    \/ ResolveWorker(w)
    \/ InvokeOwner(w)
    \/ ReportOwnerError(w)
    \/ MapResult(w)
    \/ ComputeSuccessor(w)
    \/ ConcludeFiring(w)
    \/ LoadCommit(w)
    \/ LoadEvidence(w)
    \/ RepositoryCommit(w)

Next == Publish \/ \E w \in Callers : Begin(w) \/ Step(w) \/ Crash(w)

Spec == Init /\ [][Next]_vars

\* A thread that runs goes on running; whether callers begin another call, and
\* what the world does, is theirs.
FairSpec == Spec /\ \A w \in Callers : WF_vars(Step(w))
-----------------------------------------------------------------------------
(* Properties.                                                             *)

Phases == Checkpoints \cup {"ready", "authorize", "resolve", "owner", "map", "compute",
                            "conclude", "load", "evidence"}

Answer == {None, "source", "reserved", "idempotent", "conflict", "stale", "error",
           "indeterminate", "worker_rejected", "owner_error", "rejected", "mapped",
           "firing_error", "fired", "committed"}

\* The types of the variables; and what a caller holds belongs together: a
\* reservation is for the request and the sources that were authorized, a
\* mapped result is for a reservation, a candidate for a mapped result.
TypeOK ==
    /\ current \in [Nets -> Coordinate \cup {None}]
    /\ active \in [Nets -> Reservation \cup {None}]
    /\ commits \subseteq Commit
    /\ sources \in [Sources -> 0 .. MaxRevision]
    /\ DOMAIN callers = Callers
    /\ \A w \in Callers :
          LET f == callers[w]
          IN  /\ DOMAIN f = DOMAIN Fresh
              /\ f.phase \in Phases /\ f.next \in 1 .. N + 1 /\ f.answer \in Answer
              /\ Len(f.seen) <= N
              /\ f.reservation # None => f.reservation = ReservationFor(f.request, f.seen)
              /\ f.mapped # None => f.reservation # None
              /\ f.candidate # None => f.candidate = f.mapped

\* Whoever holds a reservation result has reserved: from then on the net is
\* held by that reservation until it is committed.  No owner is invoked for
\* anything else.
HolderHasReserved ==
    \A w \in Callers : callers[w].reservation # None =>
        LET r == callers[w].reservation
        IN  active[r.net] = r \/ r \in Consumed(commits)

\* An owner that was asked after its reservation had been consumed by another
\* caller has its result kept from the mapper, so from the net.
LateResultIsNotMapped ==
    \A w \in Callers : callers[w].late => callers[w].mapped = None

\* A caller that is told committed or idempotent holds the one commit that is
\* retained for its reservation; from the durable writer, with its evidence.
\* Two callers with different outcomes are never both told so.
ToldCommittedIsRetained ==
    \A w \in Callers :
        callers[w].writer # None /\ callers[w].answer \in {"committed", "idempotent"}
            => /\ \E y \in Retained(w) : SameCommit(Prepared(w), y)
               /\ \A y, z \in Retained(w) : y = z

\* A source that had changed before the commit call began keeps the call from
\* committing.  (Revisions only grow.)
ChangedSourceIsNotCommitted ==
    \A w \in Callers : callers[w].answer = "committed" => callers[w].fresh

\* Every call of a service returns, whatever sources, owner and other callers
\* do.
EveryCallReturns == \A w \in Callers : callers[w].phase # "ready" ~> callers[w].phase = "ready"

\* A caller whose exact commit is retained is not told stale, though a source
\* has changed.
FollowerIsIdempotent ==
    [][\A w \in Callers :
          In(w, {"commit"}) /\ callers'[w].phase = "ready" /\ callers'[w].answer = "stale"
            => ~ \E y \in commits : SameCommit(Prepared(w), y)]_vars
=============================================================================
