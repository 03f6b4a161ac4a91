# Verification of the Koios workflow package

TLA+ models of `projectkoios.workflow`, the TLC runs that check them and the
proofs of what holds for every size of the system. Paths below are relative to
`src/python/projectkoios/workflow/`; `docs/` and `tests/` are relative to the
root of the repository. `PROJECT.json` lists the runs, the mutants of every
property, the theorems and, for each definition, the lines it was translated
from.

## 1. Inventory

The package is a library. It has no server, no scheduler and no thread of its
own: what is concurrent are the *callers*, several processes or threads that
use one SQLite file or one in-memory repository. All values are immutable
records named by a digest of their content. Four stacks are built from them.

| Component | State | Operations | What is hard about it |
|---|---|---|---|
| **Revision store**: `persistence/store.py`, `persistence/sqlite.py` | one SQLite file: revision rows, a head per stream; the write lock | `commit`, `read` | other processes between a connection and its `BEGIN IMMEDIATE`; a COMMIT that fails after it took effect; death anywhere; rows damaged on disk; two payload limits on one file |
| **Workflow core**: `core/models.py`, `core/processing.py` | none: a run and its state snapshot are values | `WorkflowRunStarter.execute`, `WorkflowTransitionProcessor.execute` | eight preflight findings and three of evidence, and which of them is a conflict; the bounds of a merged successor |
| **Local runtime**: `runtime/service.py`, `runtime/repository.py` | the event history of a run, one stream of the revision store | `start`, `retain_request`, `record_transition` | load, decide, append without a lock; retries of calls whose fate is unknown; collisions of idempotency identities; a limit on the history |
| **Reservation repository**: `runtime/pure_action_reservation.py`, `persistence/pure_action_sqlite.py`, `persistence/_pure_action_sqlite_schema.py` | per net the initial and current marking, the reservation that holds it, the commits of it; in SQLite also a lifecycle row per reservation and the format of the file | `reserve`, `revalidate`, `commit`, `load_committed_snapshot`, reads of lifecycle, safety and evidence | a file migrated by whoever opens it; replies computed after ROLLBACK; markings that recur; commits with and without evidence |
| **Pure-action services**: `execution/*.py` | per call: what was reserved, invoked, mapped and fired so far | authorize, reserve, invoke, fire, commit (compact and durable) | several reads of a repository and of changing sources within one call; an external owner that takes time; late results |
| **Colored Petri net kernel**: `petrinet/colored/*.py` | none: markings are values | enablement, selection, firing of a binding | matching of tokens to arcs, stale or forged inputs, identity of produced tokens |
| **Compilation**: `compilation/*.py` | none | bind an action plan to a net definition, a profile and canonical bytes | definitions that share a nominal identity |
| **Replay**: `execution/*replay*.py` | none; a bundle beside each durable commit | recompute a firing from the bundle | enablement and selection are not retained; firings that lead to one marking |
| **Action bindings**: `actions/*.py` | none | make the request of an attempt, map the owner's result to the external value of a transition | two sides that check the same contracts in different ways |
| **Review workflows**: `course_review/`, `reference_review/` | none; the application holds the aggregates | start a review, turn references into inputs of the core | runs that are forked, and whose parts are mixed |
| **Worker integration**, **SDK** (`worker/`, `src/sdk`) | none | match live firers with the manifest; `Firer.fire` around the owner | owners that answer badly or out of turn |

How they interact: the local runtime appends to the revision store; its
decisions are made by the workflow core. The pure-action services call the
reservation repository through a port that has an in-memory reference and a
SQLite implementation; they fire nets with the colored Petri net kernel, on
definitions that compilation bound to a plan; an owner reached through a worker answers an
invocation, through the request factory and the result mapper of the action
bindings. Review workflows make inputs for the workflow core. There are no
callbacks and no messages: every interaction is a call that returns.

What makes each correct:

- *Revision store.* Each stream is one chain from its first revision to its
  head, whoever writes; an idempotency identity owns one envelope; what a
  caller was told is retained stays; a retry is a replay; damage is never
  served; the write lock is always given back.
- *Workflow core.* Nothing is applied on records that are stale or belong to
  something else; a conflict means that nothing but the revision is wrong; a
  successor keeps what the run had and can be constructed.
- *Local runtime.* At most one occurrence is reserved at a revision; a request
  is decided once; a transition belongs to the run its reservation was made
  on; what a caller is told is in the history.
- *Reservation repository.* The holder of a net reserved it at its current
  marking; commits make one chain of markings; lifecycle rows, commits and
  markings tell one story; an exact retry of a commit is idempotent.
- *Colored net.* What is enabled is what the formal net enables; a firing is an
  occurrence of it; evidence counts for one marking; an identity names one
  token.
- *Replay.* What is retained of a firing replays to it, and to nothing else.
- *Services.* An owner is invoked only for a caller that holds the net; its
  late result is not mapped; a changed source is not committed over.
- *Actions, worker, SDK.* What is committed is what the net makes of the answer
  to this very reservation, whatever records of other attempts are handed in;
  an answer is committed once; what the SDK lets pass, the mapper maps.
- *Review workflows.* No claim is reviewed but by one human decision on the
  candidate whose review was required; a fork of a run cannot borrow the
  transition of its twin.

## 2. Modules

Records stand for the digests that name them: a digest of a record is the
record itself, and two identities are equal when the records are. (Digest
collisions are therefore outside the models.) Messages, diagnostics, layout
and serialisation are abstracted.

| Module | Models | Composes |
|---|---|---|
| `RevisionRecords` | one-row commits on rows and heads: which is an append, a replay, a conflict; what an undamaged stream is | - |
| `AtomicRevisionStore` | the promise of `WorkflowRevisionStore`: a call takes effect at once, at some instant between call and answer | `RevisionRecords` |
| `SQLiteRevisionStore` | `read` and `commit` of the SQLite store, phase by phase | `RevisionRecords`; implements `AtomicRevisionStore` |
| `TransitionCore` | the processor and the starter as operators | - |
| `WorkflowCore` | a run that goes through the processor on inputs any of whose records may deviate | `TransitionCore` |
| `LocalRuntime` | the three operations of the runtime, from load to append | `TransitionCore`, `RevisionRecords`; implements `RunReservation` |
| `RunReservation` | what the runtime promises of a run: reserve, complete, one at a time | - |
| `ReservationRecords` | reservations, commits and the verdicts on them | - |
| `ReservationRepository` | the in-memory reference repository, each operation atomic under its lock | `ReservationRecords` |
| `SQLiteReservation` | the SQLite repository: bootstrap, migration, decision, write, COMMIT, replay after ROLLBACK | `ReservationRecords`; implements `ReservationRepository` |
| `PureActionExecution` | the services, step by step, over the repository | `ReservationRepository` |
| `ColoredNetDefinition` | values, tokens, guards, net definitions, and when a definition and a marking are valid | - |
| `ColoredPetriNet` | enablement, selection and firing as operators, with their failure codes in the order of the code's checks | `ColoredNetDefinition` |
| `FormalColoredNet` | the text-book occurrence rule of colored nets over bags of tokens | `ColoredNetDefinition` |
| `ColoredNetReplay` | plans, the bundle a commit retains of its firing, and the replay of both | `ColoredPetriNet` |
| `ColoredNetFiring` | callers that select from the current marking, fire later and retain what they fired | `ColoredNetReplay`; implements `FormalColoredNet` |
| `ActionExchange` | what Workflow and an owner say to each other and what each side checks: SDK, worker, request factory, mapper | - |
| `ActionPipeline` | the records of several attempts on several nets, handed by the application to any service in any combination; replay of a commit | `ActionExchange`, `ReservationRecords` |
| `ReviewWorkflows` | the course and the reference review, run by an application that keeps and mixes every aggregate | `TransitionCore` |
| `SQLiteRevisionStoreProofs`, `WorkflowCoreProofs`, `LocalRuntimeProofs`, `SQLiteReservationProofs`, `PureActionExecutionProofs`, `ColoredNetFiringProofs`, `ActionPipelineProofs`, `ReviewWorkflowsProofs` | lemmas and proofs | the module each is named after |
| `MC*` | small instances for TLC | |

### State and actions

**SQLiteRevisionStore.** `rows` and `heads` are the two tables (`file` is the
pair), `damaged` the rows whose bytes no longer match their digest, `lock` the
owner of SQLite's write lock, `calls` the phase of each caller with all a call
has read, `acked` a history variable of the commits that were acknowledged. A
call goes through the phases of `commit` (`sqlite.py` 212-373): open, BEGIN
IMMEDIATE, look the idempotency key up, look the head up, insert, COMMIT, and
a replay that reads the row back; `read` has its two. Every phase may fault.
COMMIT has three outcomes: it happened, it did not, or it is not known, with
the rows there or not. Any caller may die between any two steps; SQLite then
rolls its transaction back and frees the lock.

**TransitionCore.** `PreflightFindings`, `EvidenceFindings` and `OutcomeKind`
are the rules of `core/processing.py`; the code's bounded list of findings is a
set of codes. A snapshot's `predecessor`, the code's optional reference, is the
set of the one snapshot before it, or empty. `WorkflowCore` applies the processor repeatedly to inputs put
together from the current run and up to two *deviations* (another definition,
a stale revision, foreign authority, evidence for another request ...).

**LocalRuntime.** `log` is the history of one run, `ops` what each caller is
about to append. An operation's first action loads the history and decides
(`Start`, `RetainRequest`, `RecordTransition` with one definition per early
return of the code); its second is the append, decided by the store's
`RevisionRecords` on what is there *then*. The identity of an event covers its
predecessor, so event *e* on history *h* is `Append(h, e)`. Two runs share
only the key space, and every key is an event identity, so one run is enough.

**ReservationRepository / SQLiteReservation.** A reservation names its net,
the marking *and revision* it was made at and the attempt. The reference takes
one step per call. The SQLite one has the phases of
`pure_action_sqlite.py`: connect and bootstrap (schema check, migration from
versions 2 and 3, seeding of the initial markings, COMMIT), then a second
transaction that decides, writes and commits, with the comparison of a replay
after its ROLLBACK. A faulty or dying call may leave any of these phases.

**PureActionExecution.** Each caller runs one service call at a time; a call's
steps are its calls of the repository, of each source in turn, of the worker
and the owner. The world's sources have revisions that only grow. What one
call returned, the next takes as its input.

**ColoredPetriNet, ColoredNetFiring.** The kernel keeps no state, so its
operations are operators: `Enablement`, `Selection` and `Firing` are the three
`execute` methods of `petrinet/colored`, `Assignments` the loop over the
product of candidate tokens, `Reconstruct` the search that finds tokens for a
binding again. A place holds its tokens in canonical order, and an ordinal in
it is what the code calls an occurrence. Strings, colors and identities are
numbers, their place in the order. `Canonical` sorts by rank: a token goes to
the place given by the number of tokens up to it. A guard, a tree in the code,
is the sequence of its parts, each after its operands and the whole one last,
so that its value is a function on positions. `ColoredNetFiring` adds what callers keep:
`marking`, the current one, and `held`, the selection of each client; `firings`
numbers the markings. `Choose` enables and selects (also on another definition
of the same name, or with a directive from before), `Fire` offers a firing what
is held, or that with one part exchanged, and commits it under one of `Plans`:
`FiresUnder` is what the firing service demands of a plan, `MakesBundle` what
the bundle factory does. `retained` is the last commit: the columns that its
evidence repeats, and the bundle. `Replay` and `DurableReplay` recompute it,
status by status. `TokenBags` forgets the order of
tokens and is the refinement mapping to `FormalColoredNet`, which knows bags
and nothing of ordinals, evidence or failure codes.

**ActionPipeline.** The repository is that of `ReservationRecords`; beside it
stand the sets of records that the application holds: `authorized` inputs,
`reserved` reservations, `invocations`, `firings`, and `answers`, a history of
what owners were asked and said. Each service is one action that takes any of
these records and checks what the code checks (`FiringCorrelates`,
`CommitCorrelates`, `Correlates`). What happens *within* a call, and between
callers, is the business of `PureActionExecution`; the two split the services
between them. `ActionExchange` holds what the two sides of an invocation check:
`FireReturns` is the template method of the SDK, with every comparison of the
owner's result, `Maps` the mapper, which compares again but role by role.

**ReviewWorkflows.** The workflows keep nothing, so the state is `runs`, every
aggregate the application was ever given. The adapters' guards are
`CourseAdapterAccepts`, `ManualAdapterAccepts` and `DecisionAdapterAccepts`;
what they return goes through `TransitionCore!Execute`.

## 3. Runs

| Run | Instance | What it shows |
|---|---|---|
| `sqlite_revision_store` | two callers with different payload limits, two streams, five commits (a first revision, two successors that compete under one identity, one that would close a cycle, one that reuses a key in another stream), two reads, one damaged row; 66 808 states | chains, keys, acknowledgements and the lock, with faults and deaths at every step; the store implements its promise; the lock is always returned |
| `transition_core` | three transitions, limits of 2 artifacts and 1 decision, inputs with up to two deviations; 401 states, each with all its inputs examined | what is applied, what a successor keeps |
| `local_runtime` | two callers, two colliding starts, three request templates, two reports, histories of up to 4 events and the one more that `append` accepts; 69 068 states | reservation, idempotency and history under racing calls, failures and deaths; refinement of `RunReservation` |
| `sqlite_reservation` | two callers, one net, three markings, two attempts, six commits including a compact one, a return to the first marking and a reuse of an identity, six kinds of file, three ways to open; 333 410 states | the durable repository implements the port; lifecycle rows, commits and markings agree; answers stay true |
| `pure_action_execution` | two callers, one request on one net with three markings, two sources read one after the other, of which any may change or fail to load, and fairness; 553 833 states | who may invoke, what may be mapped, who may be told committed; every call ends |
| `colored_net` | two callers; two nets, one of each selection policy, of two places and four transitions whose arcs consume, read and inhibit, one place asked by two arcs; equal and identified tokens; five values from outside, among them one of no admitted kind, an empty identity and one in use; two firings; 1 498 states | every firing is an occurrence of the formal net, enablement is exact, current selections fire and old ones never do, a bundle replays and no bundle that differs from it in one part does |
| `action_pipeline` | two nets at one marking, two bindings, coordinates of a later marking, two source revisions that read alike, two manifests, two transitions, an owner with ten answers (well-formed, too large, a path, evidence missing, in the wrong order, rejected, of no admitted kind, meant for another request), at most two records of each kind; 38 127 states | commits rest on the owner's answer, answers move one net, the SDK and the mapper agree, what can be fired can be committed, replay is exact |
| `review_workflows` | two proposals of one course, two evidences of one record, two candidates under one name and one of another record, six decisions, three authorities; 6 084 states | reviews rest on human decisions, adapters and core agree, forks stay apart |
| `retry_after_terminal`, `history_limit`, `competing_reservation`, `follower_after_source_change` | smaller instances of the above | the disagreements of section 6 |

**Why the bounds are enough.** Two callers make every race this code can have:
each decision is made against *one* state that another caller has changed in
the meantime, and what a third caller could do in between a second can do in
two calls, since callers make any number of calls. The commits and requests
are chosen so that each way a commit can relate to a retained one occurs: the
same, same identity with another content, same predecessor, the predecessor of
its own predecessor. Four events hold two complete reservations at different
revisions plus a conflict, or a rejected request and its retry; at five the
history is over its limit. Three markings let a net return to where it was,
which is what separates a check of marking and revision from one of the
marking alone. Two sources are what makes one change between the reads of
both. Two records of each kind are what it takes to hand one attempt's record
in with another's. Two firings suffice to put back the tokens a selection was
made from, and to let a value from outside meet, in a guard, one it cannot be
compared with; a third would repeat them on more markings. Three tokens in one
place, two of them equal, with two demands of one mode and one of each mode are
the smallest place where matching can go wrong in each way. A review has two
transitions, and its runs fork at each of them. The limits of a run (256
references and more) are scaled to 2 and 1 so that the merge reaches them.
Symmetry is used for the callers only, and in no run with a liveness property.

**Fairness.** `FairSpec` of the two models with liveness asks weak fairness of
the steps *of a call that has begun*, per caller, never of starting one. The
code runs straight through: no step of a call waits for another caller except
BEGIN IMMEDIATE, and that one gives up after SQLite's busy timeout, which is
the fault it may always take. Weak fairness is thus what any operating
system that keeps the process running provides. Deaths are not fair actions
and are not excluded: a call that dies has ended.

Deadlock is checked in every run but four: in `transition_core` a run that is
terminal or at `MaxRevision` has no successor; in `colored_net` a net whose
guard fails, or whose bound on firings is reached, stops; in `action_pipeline`
the application ends when it holds all the records it may and its nets have
moved; in `review_workflows` every review ends.

## 4. What is proved

Each theorem is about the specification of its module for *any* values of its
constants: any sets of callers, nets, requests, contents and keys, any sizes
and limits, any owners and files. The named assumptions of the modules say only
what is a set, a number or a record of the right fields, and what a constant
stands for.

| Module | Theorems |
|---|---|
| `SQLiteRevisionStoreProofs` | `TypeCorrect`; `LockDisciplineHolds`: exactly the call inside its transaction owns the write lock; `DecisionHolds`: what a commit decided under the lock still holds when it is committed; `HistoryStaysOneChain`; `KeysStayUnique`; `AcknowledgedIsDurable`; `ExactRetryIsReplayed`; `DamageStaysUnserved`; `StoreImplementsPromise`: every step is one of `AtomicRevisionStore` or none |
| `WorkflowCoreProofs` | `Invariance`; `TypeCorrectness`: no successor is one its constructor would refuse; `AppliedIsAlwaysExact`: no mixture of deviating records is applied; `SuccessorsExtendTheRun` |
| `LocalRuntimeProofs` | `Invariance`; `ReservationsExclude`; `RequestsAreDecidedOnce`; `OccurrencesBindTransitions`; `AnswersTellTruth`; `RuntimeKeepsPromise`: every step is one of `RunReservation` or none |
| `SQLiteReservationProofs` | `Invariance`; `MarkingsAreOneChain`; `HoldersAreCurrent`; `LifecycleIsHistory`; `SuccessesStayTrue`; `ExactRetriesAreIdempotent`; `ImplementsPort`: every step of the durable repository is a step of the reference repository or none |
| `PureActionExecutionProofs` | `Invariance`; `HoldersHaveReserved`; `LateResultsAreNotMapped`; `ToldIsRetained`; `ChangedSourcesAreNotCommitted` |
| `ColoredNetFiringProofs` | `Invariance`; `OldSelectionsNeverFire`; `ReplaysAreExact`; `TypedInvariance`, `TypeCorrectness`: markings stay valid and in canonical order; `CurrentSelectionsFire`; `NetImplementsFormal`: every firing is an occurrence of `FormalColoredNet`; `EnablementFindsAll`: what is enabled is what the formal net enables |
| `ActionPipelineProofs` | `Invariance`; `CommitsAreOwnersAnswers`; `AnswersMoveOneNet`; `CandidatesCanBeCommitted`; `CommitReplaysAreExact`; `AcceptedSuccessesAreMapped` |
| `ReviewWorkflowsProofs` | `Invariance`; `ReviewsRestOnDecisions`; `AcceptedInputsAreExact`; `ForksCannotBorrow` |

The arguments, module by module; each `Invariance` is that an invariant `IInv`,
checked by TLC first, is inductive, and the properties follow from it.

*Revision store.* That an append extends the head rather than forks it is
known only because the head the call read is *still* the head, which holds
because nobody else can write while it holds the lock. So: `TypeOK`, then
`LockDiscipline`, then `DecisionStillHolds`, then `OneChain` and `KeyUnique`,
preserved by the single step that writes because of the lemma
`AppendKeepsChain`. That every row *reaches* the first one is stated by closure
under predecessors, not by recursion. The refinement follows: the step that
makes a transaction durable is the instant at which the promised call takes
effect, `DecisionStillHolds` is what makes its verdict the one the abstract
store gives then, and no other step of a call, a fault or a death included,
shows outside. A damaged row is not served because every step that answers with
a row has compared it with its digest, also the replay that follows a lost race.

*Workflow core.* The processor compares the supplied records with each other.
That they are then the *exact* ones needs that the run and its snapshot agree
on definition, identity, revision and status, which is the invariant. The type
invariant adds what the constructors of `core/models.py` demand. Its one deep
part is the limits: the processor measures the *merged* successor, duplicates
counted once, against limits that the prior run need not have come near, and
what it applies is what was measured.

*Local runtime.* Nothing protects the history between load and append but the
comparison that the append makes. The invariant says of each pending append
that its event was decided on the history it carries; compare-and-append makes
that history the one it is appended to, and one lemma per decision shows that
the event extends it well. The refinement of `RunReservation` maps the append,
not the decision, to the promised step: an operation whose append is refused,
lost or of unknown fate has either done all of it or nothing.

*Durable reservations.* As in the revision store, the verdict of a call that
owns the write lock is still true when it writes; and a file that this program
left (`LeftByProgram`) tells one history, also before it is migrated. The
refinement theorem maps each COMMIT to the atomic operation of the port.

*Services.* Each call keeps a frame of what it has read so far. The invariant
says of each phase what the frame must hold, and of what was validated before a
callback that it is read again before it is used.

*Pipeline.* Each record closes over the ones it was made of, and each service
checks no more than the link to the record before it. The invariant follows
the links back to the owner's answer, and numbers the commits of a net by the
revisions they leave, so that one answer, which names its request and with it
net and revision, can be committed once. That an accepted success is mapped is
about two rules for one thing: the SDK assigns payloads to contracts in a way
that only keeps the order, the mapper compares them position by position. Since
roles are distinct and there are as many payloads as contracts, the assignment
increases strictly and is therefore the identity. That would be an induction;
the proof takes the *least* position at which it fails, which exists because a
set of naturals has a least element.

*Colored net.* Four arguments. (1) A marking's name closes over the input of the
firing that made it and so holds the name before it: no name recurs, which is
all that keeps an old selection from firing when the same tokens are back. (2)
Enablement, selection and firing are functions of what a bundle retains, so it
replays; one with a part exchanged is refused at the comparison of that part.
(3) For the rest the tokens must be known to be typed, of admitted colors and
kinds, unique in their identities and sorted, also after values from outside
are produced: that is `TypedInvariance`. Ranks by counting make `Canonical` a
bijection between coordinates and ordinals, so what sorting gives has the bag of
what was sorted; the bag of what is left of a place is then what was held less
what was consumed, by counting preimages. (4) A choice of ordinals for the
demands on a place is an embedding of the demands in its tokens, and one exists
exactly when every token is held as often as it is demanded; so enumerating
ordinals finds the bindings that the formal net finds by counting, and
reconstruction finds tokens for each of them again. Numberings and bindings that
come first exist because naturals have least elements.

*Reviews.* No aggregate says at which stage it is but by its references, and
the invariant says which references belong to which stage. From it follows that
what an adapter accepts the core refuses for its authority at most: within the
bounds of a request, on evidence that binds it, at the run's own revision. Forks
stay apart because the evidence names the very state it was made on, which the
core compares, and that mismatch is never the one finding that makes a conflict.

**Only model-checked.** Liveness under fairness, and ENABLED, which are beyond
the prover: `LockIsReturned` and `EveryCallReturns`. Every invariant and every
action property or refinement that a passing run checks is a theorem. (The
refinements are of the safety part, as the abstract specifications state no
fairness.) `ColoredNetFiring!TypeOK` is a theorem and is not listed in a run; the
proofs of `CurrentSelectionFires` and `ImplementsFormalNet` rest on it.

**What the proofs assume.** Only the named assumptions of the modules, which
TLC evaluates for each instance:

- constants have their shape: `StoreAssumption`, `ReservationAssumption`,
  `ExecutionAssumption`, `PipelineAssumption`, `RuntimeAssumption`,
  `ReviewAssumption`, `CoreAssumption`, and the sets and bounds of
  `ColoredNetFiring`;
- markers are none of the things they are told from: `NoRevisionAssumption`,
  `NoneAssumption` and the like;
- what constructors establish before any modelled operation runs: a net is
  valid and its initial marking fits it, with identities that are unique
  (`NetsAssumption`), external values are values (`ExternalValuesAssumption`), a
  text has a size (`TextAssumption`), what a run starts with is finite and
  within its limits (`CarriedAssumption`), a file was left by this program
  (`LeftByProgram`).

## 5. Assumptions and what is left out

- Two records with one digest are one record.
- SQLite does what it documents: BEGIN IMMEDIATE excludes other writers,
  COMMIT is atomic, a killed process's transaction is rolled back. Its modes
  and private-path checks (`_sqlite_private.py`) are a call that fails to open.
- A file "foreign" or "newer" stands for every schema that the checks refuse.
  Row damage is modelled for the revision store and not for the reservation
  repository, whose reads check the same kind of digest.
- Revisions of sources only grow.
- `advance_current_predecessor` and `current_predecessor`, by which a test or
  an embedding moves a net outside of a commit, are left out: with them a net
  may be put anywhere, and no property of the chain of markings is promised.
- In the colored net the audit of a firing and the wording of failures are left
  out, and so is what constructors refuse: variables repeated in a transition,
  inscriptions without patterns. Each client of `ColoredNetFiring` selects
  in one step, since both operations are functions of one marking. That clients
  share one current marking, and plans of one definition, is an assumption about callers: the
  kernel itself would fire any marking it is given, and a net instance is not
  tied to the bytes of a definition, only its plans are. The identity of the
  initial marking is nominal and never equal to the digest of a firing.
- In `ActionPipeline` the net is an operator from a marking, a binding and an
  external value to a marking: what the net is, is in `ColoredPetriNet`.
  Attempts are bound to one manifest, mapping and plan.
- JSON, Base64 and the canonical bytes of definitions and markings are left out:
  a bundle that does not decode is refused before it could be replayed.

Not modelled:

- *Runtime event serialization* (`runtime/serialization.py`), and likewise the
  codecs of the SDK and of compiled definitions and markings: each is an
  inverse of constructors, and a record stands for its bytes.
- *Workflow core*, in part: the comparison of a replayed outcome and the audit
  events, both functions of what is modelled.
- *Reservation repository*, in part: the two operations above; reads of
  evidence and safety state in the in-memory reference, which return what the
  modelled rows hold.
- *CPN plans* and *compilation*, in part: that a plan, a manifest and a mapping
  close over one another is the assumption `BindingsAreValid`.
- *Input plans and source kinds*, in part: the admission compares kinds and
  profiles with the plan one by one; the model has the comparison with the
  contract.
- *Pure-action replay*, in part: the replay of a safety state, which passes a
  repository read on.

## 6. Where the code and its documents disagree

Each is a run that finds the property violated.

1. `retry_after_terminal`: `docs/contracts/workflow-runtime.md:442` promises an
   identical retry the terminal outcome; `retain_request` compares the head
   with the supplied run before it looks the request up, and answers CONFLICT.
2. `history_limit`: `append` does not know the limit of 10 000 events that
   `load` enforces; one event more makes the run unreadable for good.
3. `competing_reservation`: the SQLite repository answers ERROR, not CONFLICT, to an
   attempt that competes for a held net, because it loads the lifecycle row
   of the attempt that asks before it looks at who holds the net. The
   refinement holds because the port of the model allows an error at any time.
4. `follower_after_source_change`: a follower that looked for the retained
   commit too early and at the sources too late is told STALE, although the
   winner's identical commit is retained.

More observations, without a run:

- the contract of the runtime (386-388, 416-417) has a losing append reload and
  record the competing request; `_append_result` answers CONFLICT and records
  nothing;
- a caller whose conflict event was already recorded by an identical call is
  told IDEMPOTENT (`runtime/service.py:294`), not CONFLICT;
- a run whose start was refused as a collision can still be given to
  `retain_request`, since only revision and state are compared with the head
  (`runtime/service.py:193`);
- `WorkflowRunStartResult` (`core/models.py:686-702`) does not itself demand a
  run at revision zero;
- a reservation accepted without a plan can be invoked but never fired or
  committed, and nothing releases a reservation: it holds its net for good;
- a manual decision is scoped to the *name* of a candidate, which two candidate
  references may share, and the identity of the reviewed state does not bind
  the decision it rests on;
- the key of a course review is its course alone
  (`course_review/workflow.py:96`), so two proposals for a course share a run
  identity, and the second start is a collision for the runtime.

## 7. Plan

All of the plan is done:

1. Revision store: records, promise, SQLite implementation, proofs.
2. Workflow core and local runtime over it, with proofs.
3. Reservation repository, reference and SQLite, with the proof of refinement.
4. Pure-action services over the repository, with proofs.
5. Colored Petri net kernel against the formal occurrence rule; plans and replay.
6. Action bindings, SDK and worker, and the pipeline of records; proofs.
7. Review workflows; proofs.

What would come next: damage of the rows of the reservation repository;
`ActionPipeline` over `ColoredPetriNet` in place of its abstract net.
