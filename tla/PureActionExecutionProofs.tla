---------------------- MODULE PureActionExecutionProofs ----------------------
(***************************************************************************)
(* What holds of the pure-action services for any callers, requests, nets, *)
(* markings and number of sources.                                         *)
(*                                                                         *)
(* A caller knows what it holds, its frame; the invariant is one of frames *)
(* and of the repository.  All but three actions change one frame alone,   *)
(* so it suffices that the new frame keeps the invariant (OneFrameChanges);*)
(* the three are a reservation, a commit and a publication, after which    *)
(* the frames of all the other callers must still hold theirs.             *)
(***************************************************************************)
EXTENDS PureActionExecution, TLAPS

-----------------------------------------------------------------------------
(* The invariant.                                                          *)

\* The fields of a frame, and what a source was when it was read.
Shaped(f) ==
    /\ DOMAIN f = DOMAIN Fresh
    /\ f.phase \in Phases
    /\ f.next \in 1 .. N + 1
    /\ f.seen \in Seq(Nat) /\ Len(f.seen) <= N
    /\ \A i \in 1 .. Len(f.seen) : f.seen[i] <= sources[i]

\* What a caller holds belongs together.
Belongs(f) ==
    /\ f.phase # "ready" => f.request \in Requests
    /\ Len(f.seen) > 0 => f.request \in Requests
    /\ f.phase = "authorize" => Len(f.seen) + 1 = f.next /\ f.next <= N
    /\ f.phase \in {"authorize", "reserve"} => f.reservation = None
    /\ f.phase = "reserve" => Len(f.seen) = N
    /\ f.phase \notin {"ready", "authorize", "reserve"} => f.reservation # None
    /\ f.mapped # None => f.reservation # None
    /\ f.candidate # None => f.reservation # None
    /\ f.writer # None => f.reservation # None
    /\ f.reservation # None =>
          /\ Len(f.seen) = N
          /\ f.reservation = ReservationFor(f.request, f.seen)

\* The net is held, or the reservation has been consumed.
Holds(f) ==
    f.reservation # None =>
        \/ active[f.reservation.net] = f.reservation
        \/ f.reservation \in Consumed(commits)

Invoking == {"pre_worker", "resolve", "pre_owner", "owner", "post_owner", "post_error", "map"}

\* An invocation begins without a mapped result, and one that came late is on
\* no way to the mapper.
KeptFromMapper(f) ==
    /\ f.phase \in Invoking => f.mapped = None
    /\ f.late = TRUE =>
          /\ f.reservation # None
          /\ f.reservation \in Consumed(commits)
          /\ f.phase # "map"
          /\ f.mapped = None

PreparedFor(f) ==
    [reservation |-> f.reservation,
     identity    |-> [of |-> f.reservation, result |-> f.candidate],
     successor   |-> f.candidate,
     evidence    |-> IF f.writer = "durable" THEN Transcript ELSE None]

\* The retained commit is the prepared one; between its two looks the durable
\* writer knows so of all but the evidence.
Told(f) ==
    /\ f.writer # None /\ f.answer \in {"committed", "idempotent"} =>
          \E y \in commits : y.reservation = f.reservation /\ SameCommit(PreparedFor(f), y)
    /\ f.phase = "evidence" =>
          \E y \in commits :
              /\ y.reservation = f.reservation
              /\ y.identity = PreparedFor(f).identity
              /\ y.successor = PreparedFor(f).successor

\* A source that had changed when the commit call began is still to be looked
\* at.
ChangeAhead(f) ==
    /\ f.answer = "committed" => f.fresh = TRUE
    /\ f.phase = "commit" => f.failed = FALSE
    /\ f.phase \in {"load", "evidence", "commit"} /\ f.fresh # TRUE =>
          \E s \in Sources : f.next <= s /\ f.seen[s] < sources[s]

FrameInv(f) ==
    Shaped(f) /\ Belongs(f) /\ Holds(f) /\ KeptFromMapper(f) /\ Told(f) /\ ChangeAhead(f)

\* A reservation is consumed once.
OneCommitEach == \A y, z \in commits : y.reservation = z.reservation => y = z

RepositoryInv ==
    /\ DOMAIN active = Nets
    /\ sources \in [Sources -> Nat]
    /\ OneCommitEach

IInv ==
    /\ RepositoryInv
    /\ DOMAIN callers = Callers
    /\ \A w \in Callers : FrameInv(callers[w])

-----------------------------------------------------------------------------
(* How frames change.                                                      *)

FrameFields == {"phase", "next", "failed", "late", "fresh", "writer", "request", "seen",
                "reservation", "returned", "mapped", "candidate", "answer"}

LEMMA FreshFields == DOMAIN Fresh = FrameFields
  BY DEF Fresh, FrameFields

\* A step of one caller that touches nothing else keeps the invariant when the
\* caller's new frame does.
LEMMA OneFrameChanges ==
    ASSUME IInv, NEW w \in Callers, NEW f, Hold(w, f), FrameInv(f),
           UNCHANGED <<repository, sources>>
    PROVE  IInv'
<1>1. DOMAIN callers' = Callers /\ callers'[w] = f
      /\ \A v \in Callers : v # w => callers'[v] = callers[v]
  BY DEF Hold, IInv
<1>2. ASSUME NEW v \in Callers
      PROVE  FrameInv(callers'[v])
  BY <1>1, <1>2 DEF IInv
<1>3. ASSUME NEW v \in Callers
      PROVE  FrameInv(callers[v])'
  BY <1>2, <1>3 DEF repository, FrameInv, Shaped, Belongs, Holds, KeptFromMapper,
     Invoking, Told, ChangeAhead
<1> QED
  BY <1>1, <1>3 DEF IInv, RepositoryInv, OneCommitEach, repository

\* A call may end at any time with an answer that claims no commit.
LEMMA FinishKeeps ==
    ASSUME NEW f, FrameInv(f), NEW answer, answer \notin {"committed", "idempotent"}
    PROVE  FrameInv(Finished(f, answer))
<1> DEFINE g == Finished(f, answer)
<1> HIDE DEF g
<1>1. /\ DOMAIN g = DOMAIN Fresh
      /\ g.phase = "ready" /\ g.next = 1 /\ g.answer = answer
      /\ g.request = f.request /\ g.seen = f.seen /\ g.reservation = f.reservation
      /\ g.mapped = f.mapped /\ g.candidate = f.candidate /\ g.writer = f.writer
      /\ g.late = f.late
  <2>1. DOMAIN f = DOMAIN Fresh
    BY DEF FrameInv, Shaped
  <2> QED
    BY <2>1, FreshFields DEF g, FrameFields, Finished, Entered
<1>2. Shaped(g)
  BY <1>1, ExecutionAssumption DEF FrameInv, Shaped, Phases
<1>3. Belongs(g)
  BY <1>1 DEF FrameInv, Belongs
<1>4. Holds(g) /\ KeptFromMapper(g) /\ Told(g) /\ ChangeAhead(g)
  BY <1>1 DEF FrameInv, Holds, KeptFromMapper, Invoking, Told, ChangeAhead
<1> QED
  BY <1>2, <1>3, <1>4 DEF FrameInv, g

Midway == {"pre_owner", "post_cpn", "resolve", "owner", "map", "compute", "conclude"}

\* Between two phases of invoke or fire nothing is gained or lost; to the
\* mapper goes only a result that is not late.
LEMMA EnterKeeps ==
    ASSUME NEW f, FrameInv(f), f.phase \notin {"ready", "authorize", "reserve"},
           NEW phase \in Midway, phase \in Invoking => f.mapped = None,
           phase = "map" => f.late # TRUE
    PROVE  FrameInv(Entered(f, phase))
<1> DEFINE g == Entered(f, phase)
<1> HIDE DEF g
<1>1. /\ DOMAIN g = DOMAIN Fresh
      /\ g.phase = phase /\ g.next = 1 /\ g.answer = f.answer
      /\ g.request = f.request /\ g.seen = f.seen /\ g.reservation = f.reservation
      /\ g.mapped = f.mapped /\ g.candidate = f.candidate /\ g.writer = f.writer
      /\ g.late = f.late /\ g.fresh = f.fresh
  <2>1. DOMAIN f = DOMAIN Fresh
    BY DEF FrameInv, Shaped
  <2> QED
    BY <2>1, FreshFields DEF g, FrameFields, Entered
<1>2. Shaped(g)
  BY <1>1, ExecutionAssumption DEF FrameInv, Shaped, Phases, Checkpoints, Midway
<1>3. Belongs(g)
  BY <1>1 DEF FrameInv, Belongs, Midway
<1>4. Holds(g) /\ KeptFromMapper(g) /\ Told(g) /\ ChangeAhead(g)
  BY <1>1 DEF FrameInv, Holds, KeptFromMapper, Invoking, Told, ChangeAhead,
     PreparedFor, Midway
<1> QED
  BY <1>2, <1>3, <1>4 DEF FrameInv, g

\* A dead caller holds nothing.
LEMMA FreshKeeps ==
    ASSUME RepositoryInv, NEW answer, answer \notin {"committed", "idempotent"}
    PROVE  FrameInv([Fresh EXCEPT !.answer = answer])
  BY ExecutionAssumption
  DEF RepositoryInv, FrameInv, Shaped, Belongs, Holds, KeptFromMapper, Invoking, Told,
      ChangeAhead, Fresh, Phases

-----------------------------------------------------------------------------
(* The actions that change one frame.                                      *)

LEMMA BeginKeeps ==
    ASSUME IInv, NEW w \in Callers, Begin(w)
    PROVE  IInv'
<1> DEFINE f == callers[w]
<1>1. FrameInv(f) /\ RepositoryInv
  BY DEF IInv, In
<1>2. DOMAIN f = DOMAIN Fresh /\ UNCHANGED <<repository, sources>>
  BY <1>1 DEF FrameInv, Shaped, Begin, BeginAuthorize, BeginReserve, BeginInvoke,
     BeginFire, BeginCommit
<1>3. CASE BeginAuthorize(w)
  <2>1. PICK request \in Requests :
           Hold(w, [Entered(Fresh, "authorize") EXCEPT !.request = request])
    BY <1>3 DEF BeginAuthorize
  <2> DEFINE g == [Entered(Fresh, "authorize") EXCEPT !.request = request]
  <2>2. /\ DOMAIN g = DOMAIN Fresh /\ g.phase = "authorize" /\ g.next = 1 /\ g.answer = None
        /\ g.request = request /\ g.seen = <<>> /\ g.reservation = None
        /\ g.mapped = None /\ g.candidate = None /\ g.writer = None /\ g.late = FALSE
    BY FreshFields DEF FrameFields, Entered, Fresh
  <2> HIDE DEF g
  <2>3. Shaped(g)
    BY <2>2, ExecutionAssumption DEF Shaped, Phases
  <2>4. Belongs(g)
    BY <2>2, ExecutionAssumption DEF Belongs
  <2>5. Holds(g) /\ KeptFromMapper(g) /\ Told(g) /\ ChangeAhead(g)
    BY <2>2, ExecutionAssumption DEF Holds, KeptFromMapper, Invoking, Told, ChangeAhead
  <2> QED
    BY <1>2, <2>1, <2>3, <2>4, <2>5, OneFrameChanges DEF FrameInv, g
<1>4. CASE BeginReserve(w)
  <2> DEFINE g == [Entered(f, "reserve") EXCEPT !.answer = None]
  <2>1. Hold(w, g) /\ f.reservation = None /\ Len(f.seen) = N /\ f.phase = "ready"
    BY <1>4 DEF BeginReserve, In
  <2> HIDE DEF f
  <2>2. /\ DOMAIN g = DOMAIN Fresh /\ g.phase = "reserve" /\ g.next = 1 /\ g.answer = None
        /\ g.request = f.request /\ g.seen = f.seen /\ g.reservation = f.reservation
        /\ g.mapped = f.mapped /\ g.candidate = f.candidate /\ g.writer = f.writer
        /\ g.late = f.late
    BY <1>2, FreshFields DEF FrameFields, Entered
  <2> HIDE DEF g
  <2>3. FrameInv(g)
    <3>1. Shaped(g)
      BY <1>1, <2>2, ExecutionAssumption DEF FrameInv, Shaped, Phases, Checkpoints
    <3>2. Belongs(g)
      BY <1>1, <2>1, <2>2, ExecutionAssumption DEF FrameInv, Belongs
    <3>3. Holds(g) /\ KeptFromMapper(g) /\ Told(g) /\ ChangeAhead(g)
      BY <1>1, <2>2, ExecutionAssumption DEF FrameInv, Holds, KeptFromMapper, Invoking,
         Told, ChangeAhead
    <3> QED
      BY <3>1, <3>2, <3>3 DEF FrameInv
  <2> QED
    BY <1>2, <2>1, <2>3, OneFrameChanges
<1>5. CASE BeginInvoke(w)
  <2> DEFINE g == [Entered(f, "pre_worker")
                     EXCEPT !.mapped = None, !.candidate = None, !.answer = None,
                            !.late = FALSE, !.writer = None, !.fresh = FALSE]
  <2>1. Hold(w, g) /\ f.reservation # None /\ f.phase = "ready"
    BY <1>5 DEF BeginInvoke, In
  <2> HIDE DEF f
  <2>2. /\ DOMAIN g = DOMAIN Fresh /\ g.phase = "pre_worker" /\ g.next = 1 /\ g.answer = None
        /\ g.request = f.request /\ g.seen = f.seen /\ g.reservation = f.reservation
        /\ g.mapped = None /\ g.candidate = None /\ g.writer = None
        /\ g.late = FALSE
    BY <1>2, FreshFields DEF FrameFields, Entered
  <2> HIDE DEF g
  <2>3. FrameInv(g)
    <3>1. Shaped(g)
      BY <1>1, <2>2, ExecutionAssumption DEF FrameInv, Shaped, Phases, Checkpoints
    <3>2. Belongs(g)
      BY <1>1, <2>1, <2>2, ExecutionAssumption DEF FrameInv, Belongs
    <3>3. Holds(g) /\ KeptFromMapper(g) /\ Told(g) /\ ChangeAhead(g)
      BY <1>1, <2>2, ExecutionAssumption DEF FrameInv, Holds, KeptFromMapper, Invoking,
         Told, ChangeAhead
    <3> QED
      BY <3>1, <3>2, <3>3 DEF FrameInv
  <2> QED
    BY <1>2, <2>1, <2>3, OneFrameChanges
<1>6. CASE BeginFire(w)
  <2> DEFINE g == [Entered(f, "pre_cpn")
                     EXCEPT !.candidate = None, !.answer = None, !.writer = None, !.fresh = FALSE]
  <2>1. Hold(w, g) /\ f.mapped # None /\ f.phase = "ready"
    BY <1>6 DEF BeginFire, In
  <2> HIDE DEF f
  <2>2. /\ DOMAIN g = DOMAIN Fresh /\ g.phase = "pre_cpn" /\ g.next = 1 /\ g.answer = None
        /\ g.request = f.request /\ g.seen = f.seen /\ g.reservation = f.reservation
        /\ g.mapped = f.mapped /\ g.candidate = None /\ g.writer = None
        /\ g.late = f.late
    BY <1>2, FreshFields DEF FrameFields, Entered
  <2> HIDE DEF g
  <2>3. FrameInv(g)
    <3>1. Shaped(g)
      BY <1>1, <2>2, ExecutionAssumption DEF FrameInv, Shaped, Phases, Checkpoints
    <3>2. Belongs(g)
      BY <1>1, <2>1, <2>2, ExecutionAssumption DEF FrameInv, Belongs
    <3>3. Holds(g) /\ KeptFromMapper(g) /\ Told(g) /\ ChangeAhead(g)
      BY <1>1, <2>2, ExecutionAssumption DEF FrameInv, Holds, KeptFromMapper, Invoking,
         Told, ChangeAhead
    <3> QED
      BY <3>1, <3>2, <3>3 DEF FrameInv
  <2> QED
    BY <1>2, <2>1, <2>3, OneFrameChanges
<1>7. CASE BeginCommit(w)
  <2>1. PICK writer \in {"durable", "compact"} :
           Hold(w, [Entered(f, "load")
                      EXCEPT !.writer = writer, !.answer = None, !.fresh = (sources = f.seen)])
    BY <1>7 DEF BeginCommit
  <2> DEFINE g == [Entered(f, "load")
                     EXCEPT !.writer = writer, !.answer = None, !.fresh = (sources = f.seen)]
  <2>2. f.candidate # None /\ f.phase = "ready"
    BY <1>7 DEF BeginCommit, In
  <2> HIDE DEF f
  <2>3. /\ DOMAIN g = DOMAIN Fresh /\ g.phase = "load" /\ g.next = 1 /\ g.answer = None
        /\ g.request = f.request /\ g.seen = f.seen /\ g.reservation = f.reservation
        /\ g.mapped = f.mapped /\ g.candidate = f.candidate /\ g.writer = writer
        /\ g.late = f.late /\ g.fresh = (sources = f.seen)
    BY <1>2, FreshFields DEF FrameFields, Entered
  <2> HIDE DEF g
  <2>4. Shaped(g) /\ Belongs(g) /\ Holds(g) /\ KeptFromMapper(g) /\ Told(g)
    <3>1. Shaped(g)
      BY <1>1, <2>3, ExecutionAssumption DEF FrameInv, Shaped, Phases
    <3>2. Belongs(g)
      BY <1>1, <2>2, <2>3, ExecutionAssumption DEF FrameInv, Belongs
    <3>3. Holds(g) /\ KeptFromMapper(g) /\ Told(g)
      BY <1>1, <2>3, ExecutionAssumption DEF FrameInv, Holds, KeptFromMapper, Invoking,
         Told
    <3> QED
      BY <3>1, <3>2, <3>3
  <2>5. ASSUME sources # f.seen
        PROVE  \E s \in Sources : f.seen[s] < sources[s]
    <3>1. Len(f.seen) = N /\ f.seen \in Seq(Nat) /\ \A s \in Sources : f.seen[s] <= sources[s]
      BY <1>1, <2>2 DEF FrameInv, Belongs, Shaped, Sources
    <3>2. f.seen \in [Sources -> Nat] /\ sources \in [Sources -> Nat]
      BY <1>1, <3>1, ExecutionAssumption DEF Sources, RepositoryInv
    <3>3. PICK s \in Sources : f.seen[s] # sources[s]
      BY <2>5, <3>2
    <3> QED
      BY <3>1, <3>2, <3>3 DEF Sources
  <2>6. ChangeAhead(g)
    <3>1. g.fresh # TRUE => \E s \in Sources : f.seen[s] < sources[s]
      <4>1. g.fresh # TRUE => sources # f.seen
        BY <2>3
      <4> QED
        BY <2>5, <4>1
    <3>2. \A s \in Sources : g.next <= s
      BY <2>3, ExecutionAssumption DEF Sources
    <3>3. g.fresh # TRUE => \E s \in Sources : g.next <= s /\ g.seen[s] < sources[s]
      BY <2>3, <3>1, <3>2
    <3> QED
      BY <2>3, <3>3, ExecutionAssumption DEF ChangeAhead
  <2> QED
    BY <1>2, <2>1, <2>4, <2>6, OneFrameChanges DEF FrameInv, g
<1> QED
  BY <1>3, <1>4, <1>5, <1>6, <1>7 DEF Begin

\* A call that ends, or a phase that leads to the next, keeps the invariant.
LEMMA FinishStepKeeps ==
    ASSUME IInv, NEW w \in Callers, NEW answer, Finish(w, answer),
           answer \notin {"committed", "idempotent"}, UNCHANGED <<repository, sources>>
    PROVE  IInv'
<1>1. FrameInv(callers[w])
  BY DEF IInv
<1>2. FrameInv(Finished(callers[w], answer))
  BY <1>1, FinishKeeps
<1> QED
  BY <1>2, OneFrameChanges DEF Finish

LEMMA EnterStepKeeps ==
    ASSUME IInv, NEW w \in Callers, NEW phase \in Midway, Enter(w, phase),
           callers[w].phase \notin {"ready", "authorize", "reserve"},
           phase \in Invoking => callers[w].mapped = None,
           phase = "map" => callers[w].late # TRUE, UNCHANGED <<repository, sources>>
    PROVE  IInv'
<1>1. FrameInv(callers[w])
  BY DEF IInv
<1>2. FrameInv(Entered(callers[w], phase))
  BY <1>1, EnterKeeps
<1> QED
  BY <1>2, OneFrameChanges DEF Enter

LEMMA CrashKeeps ==
    ASSUME IInv, NEW w \in Callers, Crash(w)
    PROVE  IInv'
<1>1. FrameInv(Fresh)
  BY ExecutionAssumption
  DEF IInv, RepositoryInv, FrameInv, Shaped, Belongs, Holds, KeptFromMapper, Invoking,
      Told, ChangeAhead,
      Fresh, Phases
<1> QED
  BY <1>1, OneFrameChanges DEF Crash

\* Sources are authorized one after the other, each at its revision then.
LEMMA AuthorizeSourceKeeps ==
    ASSUME IInv, NEW w \in Callers, AuthorizeSource(w)
    PROVE  IInv'
<1> DEFINE f == callers[w]
           seen == Append(f.seen, sources[f.next])
           g == [f EXCEPT !.seen = seen,
                          !.next = IF Len(seen) = N THEN 1 ELSE f.next + 1,
                          !.phase = IF Len(seen) = N THEN "ready" ELSE "authorize"]
<1>1. FrameInv(f) /\ RepositoryInv
  BY DEF IInv
<1>2. f.phase = "authorize" /\ UNCHANGED <<repository, sources>>
  BY DEF AuthorizeSource, In
<1>3. CASE Hold(w, [Fresh EXCEPT !.answer = "source"])
  <2>1. FrameInv([Fresh EXCEPT !.answer = "source"])
    BY <1>1, FreshKeeps
  <2> QED
    BY <1>2, <1>3, <2>1, OneFrameChanges
<1>4. CASE Hold(w, g)
  <2> HIDE DEF f
  <2>1. /\ DOMAIN f = DOMAIN Fresh
        /\ f.seen \in Seq(Nat) /\ f.next \in 1 .. N /\ Len(f.seen) + 1 = f.next
        /\ sources[f.next] \in Nat
        /\ \A i \in 1 .. Len(f.seen) : f.seen[i] <= sources[i]
    BY <1>1, <1>2, ExecutionAssumption DEF FrameInv, Shaped, Belongs, RepositoryInv,
       Sources
  <2>2. /\ seen \in Seq(Nat) /\ Len(seen) = f.next
        /\ \A i \in 1 .. Len(seen) : seen[i] <= sources[i]
    BY <2>1
  <2> HIDE DEF seen
  <2>3. /\ DOMAIN g = DOMAIN Fresh /\ g.answer = f.answer
        /\ g.phase = IF f.next = N THEN "ready" ELSE "authorize"
        /\ g.next = IF f.next = N THEN 1 ELSE f.next + 1
        /\ g.request = f.request /\ g.seen = seen /\ g.reservation = f.reservation
        /\ g.mapped = f.mapped /\ g.candidate = f.candidate /\ g.writer = f.writer
        /\ g.late = f.late /\ g.fresh = f.fresh
    BY <2>1, <2>2, FreshFields DEF FrameFields
  <2> HIDE DEF g
  <2>4. Shaped(g)
    BY <2>1, <2>2, <2>3, ExecutionAssumption DEF Shaped, Phases
  <2>5. Belongs(g)
    BY <1>1, <1>2, <2>1, <2>2, <2>3, ExecutionAssumption DEF FrameInv, Belongs
  <2>6. Holds(g) /\ KeptFromMapper(g) /\ Told(g) /\ ChangeAhead(g)
    BY <1>1, <1>2, <2>3 DEF FrameInv, Belongs, Holds, KeptFromMapper, Invoking, Told,
       ChangeAhead
  <2> QED
    BY <1>2, <1>4, <2>4, <2>5, <2>6, OneFrameChanges DEF FrameInv, g
<1> QED
  BY <1>3, <1>4 DEF AuthorizeSource

\* A look at a source.  One that is found as it was authorized is not the one
\* that had changed.
LEMMA LookKeeps ==
    ASSUME IInv, NEW w \in Callers, SourceUnchanged(w) \/ SourceChanged(w)
    PROVE  IInv'
<1> DEFINE f == callers[w]
<1>1. FrameInv(f) /\ RepositoryInv
  BY DEF IInv
<1>2. /\ f.phase \in Checkpoints /\ f.next \in 1 .. N /\ DOMAIN f = DOMAIN Fresh
      /\ UNCHANGED <<repository, sources>>
  BY <1>1, ExecutionAssumption
  DEF SourceUnchanged, SourceChanged, Looking, In, FrameInv, Shaped
<1>3. CASE SourceUnchanged(w)
  <2> DEFINE g == [f EXCEPT !.next = f.next + 1]
  <2>1. Hold(w, g) /\ sources[f.next] = f.seen[f.next]
    BY <1>3 DEF SourceUnchanged
  <2> HIDE DEF f
  <2>2. /\ DOMAIN g = DOMAIN Fresh /\ g.answer = f.answer
        /\ g.phase = f.phase /\ g.next = f.next + 1 /\ g.failed = f.failed
        /\ g.request = f.request /\ g.seen = f.seen /\ g.reservation = f.reservation
        /\ g.mapped = f.mapped /\ g.candidate = f.candidate /\ g.writer = f.writer
        /\ g.late = f.late /\ g.fresh = f.fresh
    BY <1>2, FreshFields DEF FrameFields
  <2> HIDE DEF g
  <2>3. Shaped(g)
    BY <1>1, <1>2, <2>2, ExecutionAssumption DEF FrameInv, Shaped
  <2>4. Belongs(g)
    BY <1>1, <1>2, <2>2 DEF FrameInv, Belongs, Checkpoints
  <2>5. Holds(g) /\ KeptFromMapper(g) /\ Told(g)
    BY <1>1, <2>2 DEF FrameInv, Holds, KeptFromMapper, Invoking, Told, PreparedFor
  <2>6. ASSUME NEW s \in Sources, f.next <= s, f.seen[s] < sources[s]
        PROVE  g.next <= s
    <3>1. s # f.next
      BY <1>1, <1>2, <2>1, <2>6 DEF RepositoryInv, Sources
    <3> QED
      BY <1>2, <2>2, <2>6, <3>1, ExecutionAssumption DEF Sources
  <2>7. ChangeAhead(g)
    BY <1>1, <2>2, <2>6 DEF FrameInv, ChangeAhead
  <2> QED
    BY <1>2, <2>1, <2>3, <2>4, <2>5, <2>7, OneFrameChanges DEF FrameInv
<1>4. CASE SourceChanged(w)
  <2>1. CASE In(w, {"reserve", "commit"})
    BY <1>2, <1>4, <2>1, FinishStepKeeps DEF SourceChanged
  <2>2. CASE ~ In(w, {"reserve", "commit"})
    <3> DEFINE g == [f EXCEPT !.next = 1, !.failed = TRUE]
    <3>1. Hold(w, g) /\ f.phase \notin {"reserve", "commit"}
      BY <1>4, <2>2 DEF SourceChanged, In
    <3> HIDE DEF f
    <3>2. /\ DOMAIN g = DOMAIN Fresh /\ g.answer = f.answer
          /\ g.phase = f.phase /\ g.next = 1
          /\ g.request = f.request /\ g.seen = f.seen /\ g.reservation = f.reservation
          /\ g.mapped = f.mapped /\ g.candidate = f.candidate /\ g.writer = f.writer
          /\ g.late = f.late /\ g.fresh = f.fresh
      BY <1>2, FreshFields DEF FrameFields
    <3> HIDE DEF g
    <3>3. Shaped(g)
      BY <1>1, <1>2, <3>2, ExecutionAssumption DEF FrameInv, Shaped
    <3>4. Belongs(g)
      BY <1>1, <1>2, <3>2 DEF FrameInv, Belongs, Checkpoints
    <3>5. Holds(g) /\ KeptFromMapper(g) /\ Told(g)
      BY <1>1, <3>2 DEF FrameInv, Holds, KeptFromMapper, Invoking, Told, PreparedFor
    <3>6. ChangeAhead(g)
      BY <1>1, <1>2, <3>1, <3>2 DEF FrameInv, ChangeAhead, Checkpoints
    <3> QED
      BY <1>2, <3>1, <3>3, <3>4, <3>5, <3>6, OneFrameChanges DEF FrameInv
  <2> QED
    BY <2>1, <2>2
<1> QED
  BY <1>3, <1>4

\* The phases of invoke and fire.  An owner whose reservation was consumed
\* before it was asked has a late result, and the check that follows it finds
\* the reservation consumed still.
LEMMA InvokeAndFireKeep ==
    ASSUME IInv, NEW w \in Callers,
           \/ CheckPredecessor(w) \/ ResolveWorker(w) \/ InvokeOwner(w) \/ ReportOwnerError(w)
           \/ MapResult(w) \/ ComputeSuccessor(w) \/ ConcludeFiring(w)
    PROVE  IInv'
<1> DEFINE f == callers[w]
<1>1. FrameInv(f) /\ RepositoryInv
  BY DEF IInv
<1>2. DOMAIN f = DOMAIN Fresh /\ UNCHANGED <<repository, sources>>
  BY <1>1 DEF FrameInv, Shaped, CheckPredecessor, ResolveWorker, InvokeOwner,
     ReportOwnerError,
              MapResult, ComputeSuccessor, ConcludeFiring
<1>3. CASE CheckPredecessor(w)
  <2>1. f.phase \in DOMAIN Onward /\ Onward[f.phase] \in Midway
        /\ (Onward[f.phase] = "map" => f.phase = "post_owner")
    BY <1>3 DEF CheckPredecessor, In, Onward, Midway
  <2>2. CASE /\ RevalidateVerdict(current, active, commits, Sought(w)) = "current"
             /\ Enter(w, Onward[f.phase])
    <3>1. f.reservation \notin Consumed(commits)
      BY <2>2 DEF RevalidateVerdict, Sought
    <3>2. f.late # TRUE
      BY <1>1, <3>1 DEF FrameInv, KeptFromMapper, Invoking
    <3>3. f.phase \notin {"ready", "authorize", "reserve"}
      BY <2>1 DEF Onward
    <3>4. Onward[f.phase] \in Invoking => f.mapped = None
      BY <1>1, <2>1 DEF FrameInv, KeptFromMapper, Invoking, Onward
    <3> QED
      BY <1>2, <2>1, <2>2, <3>2, <3>3, <3>4, EnterStepKeeps
  <2>3. CASE Finish(w, "stale")
    BY <1>2, <2>3, FinishStepKeeps
  <2> QED
    BY <1>3, <2>2, <2>3 DEF CheckPredecessor
<1>4. CASE ResolveWorker(w)
  <2>1. CASE Enter(w, "pre_owner")
    BY <1>1, <1>2, <1>4, <2>1, EnterStepKeeps
    DEF ResolveWorker, In, Midway, FrameInv, KeptFromMapper, Invoking
  <2> QED
    BY <1>2, <1>4, <2>1, FinishStepKeeps DEF ResolveWorker
<1>5. CASE InvokeOwner(w)
  <2> DEFINE late == f.reservation \in Consumed(commits)
  <2>8. PICK phase \in {"post_owner", "post_error"} :
           \E returned :
              Hold(w, [Entered(f, phase) EXCEPT !.returned = returned, !.late = late])
    BY <1>5 DEF InvokeOwner, Sought
  <2>1. PICK returned :
           Hold(w, [Entered(f, phase) EXCEPT !.returned = returned, !.late = late])
    BY <2>8
  <2> DEFINE g == [Entered(f, phase) EXCEPT !.returned = returned, !.late = late]
  <2>2. f.phase = "owner"
    BY <1>5 DEF InvokeOwner, In
  <2> HIDE DEF f
  <2>3. /\ DOMAIN g = DOMAIN Fresh /\ g.phase = phase /\ g.next = 1 /\ g.answer = f.answer
        /\ g.request = f.request /\ g.seen = f.seen /\ g.reservation = f.reservation
        /\ g.mapped = f.mapped /\ g.candidate = f.candidate /\ g.writer = f.writer
        /\ g.late = late /\ g.fresh = f.fresh
    BY <1>2, FreshFields DEF FrameFields, Entered
  <2> HIDE DEF g
  <2>4. Shaped(g)
    BY <1>1, <2>3, ExecutionAssumption DEF FrameInv, Shaped, Phases, Checkpoints
  <2>5. Belongs(g) /\ Holds(g)
    BY <1>1, <2>2, <2>3 DEF FrameInv, Belongs, Holds
  <2>6. KeptFromMapper(g)
    BY <1>1, <2>2, <2>3 DEF FrameInv, Belongs, KeptFromMapper, Invoking
  <2>7. Told(g) /\ ChangeAhead(g)
    BY <1>1, <2>2, <2>3 DEF FrameInv, Told, ChangeAhead, PreparedFor
  <2> QED
    BY <1>2, <2>1, <2>4, <2>5, <2>6, <2>7, OneFrameChanges DEF FrameInv, g
<1>6. CASE ReportOwnerError(w)
  BY <1>2, <1>6, FinishStepKeeps DEF ReportOwnerError
<1>7. CASE MapResult(w)
  <2> DEFINE g == [f EXCEPT !.phase = "ready", !.answer = "mapped",
                            !.mapped = f.returned, !.returned = None]
  <2>1. f.phase = "map"
    BY <1>7 DEF MapResult, In
  <2>2. CASE Hold(w, g)
    <3> HIDE DEF f
    <3>1. /\ DOMAIN g = DOMAIN Fresh /\ g.phase = "ready" /\ g.next = f.next
          /\ g.answer = "mapped"
          /\ g.request = f.request /\ g.seen = f.seen /\ g.reservation = f.reservation
          /\ g.candidate = f.candidate /\ g.writer = f.writer
          /\ g.late = f.late /\ g.fresh = f.fresh
      BY <1>2, FreshFields DEF FrameFields
    <3> HIDE DEF g
    <3>2. Shaped(g) /\ Belongs(g) /\ Holds(g)
      BY <1>1, <2>1, <3>1 DEF FrameInv, Shaped, Belongs, Holds, Phases
    <3>3. KeptFromMapper(g) /\ Told(g) /\ ChangeAhead(g)
      BY <1>1, <2>1, <3>1 DEF FrameInv, KeptFromMapper, Invoking, Told, ChangeAhead
    <3> QED
      BY <1>2, <2>2, <3>2, <3>3, OneFrameChanges DEF FrameInv
  <2> QED
    BY <1>2, <1>7, <2>2, FinishStepKeeps DEF MapResult
<1>8. CASE ComputeSuccessor(w)
  <2>1. CASE Enter(w, "post_cpn")
    BY <1>2, <1>8, <2>1, EnterStepKeeps DEF ComputeSuccessor, In, Midway, Invoking
  <2> QED
    BY <1>2, <1>8, <2>1, FinishStepKeeps DEF ComputeSuccessor
<1>9. CASE ConcludeFiring(w)
  <2> DEFINE g == [f EXCEPT !.phase = "ready", !.answer = "fired", !.candidate = f.mapped]
  <2>1. f.phase = "conclude"
    BY <1>9 DEF ConcludeFiring, In
  <2>2. CASE Hold(w, g)
    <3> HIDE DEF f
    <3>1. /\ DOMAIN g = DOMAIN Fresh /\ g.phase = "ready" /\ g.next = f.next
          /\ g.answer = "fired"
          /\ g.request = f.request /\ g.seen = f.seen /\ g.reservation = f.reservation
          /\ g.mapped = f.mapped /\ g.writer = f.writer
          /\ g.late = f.late /\ g.fresh = f.fresh
      BY <1>2, FreshFields DEF FrameFields
    <3> HIDE DEF g
    <3>2. Shaped(g) /\ Belongs(g) /\ Holds(g)
      BY <1>1, <2>1, <3>1 DEF FrameInv, Shaped, Belongs, Holds, Phases
    <3>3. KeptFromMapper(g) /\ Told(g) /\ ChangeAhead(g)
      BY <1>1, <2>1, <3>1 DEF FrameInv, KeptFromMapper, Invoking, Told, ChangeAhead
    <3> QED
      BY <1>2, <2>2, <3>2, <3>3, OneFrameChanges DEF FrameInv
  <2> QED
    BY <1>2, <1>9, <2>2, FinishStepKeeps DEF ConcludeFiring
<1> QED
  BY <1>3, <1>4, <1>5, <1>6, <1>7, <1>8, <1>9

LEMMA PreparedIsFor ==
    ASSUME NEW w \in Callers
    PROVE  Prepared(w) = PreparedFor(callers[w]) /\ Sought(w) = callers[w].reservation
  BY DEF Prepared, PreparedFor, Sought

\* An answer that claims a commit is true of one that is retained.
LEMMA ToldKeeps ==
    ASSUME IInv, NEW w \in Callers,
           callers[w].phase \in {"load", "evidence", "commit"},
           NEW y \in commits, y.reservation = callers[w].reservation,
           SameCommit(PreparedFor(callers[w]), y),
           Finish(w, "idempotent"), UNCHANGED <<repository, sources>>
    PROVE  IInv'
<1> DEFINE f == callers[w]
           g == Finished(f, "idempotent")
<1>1. FrameInv(f) /\ f.phase \in {"load", "evidence", "commit"}
      /\ y.reservation = f.reservation /\ SameCommit(PreparedFor(f), y)
  BY DEF IInv
<1>2. Hold(w, g)
  BY DEF Finish
<1> HIDE DEF f
<1>3. /\ DOMAIN g = DOMAIN Fresh
      /\ g.phase = "ready" /\ g.next = 1 /\ g.answer = "idempotent"
      /\ g.request = f.request /\ g.seen = f.seen /\ g.reservation = f.reservation
      /\ g.mapped = f.mapped /\ g.candidate = f.candidate /\ g.writer = f.writer
      /\ g.late = f.late
  BY <1>1, FreshFields DEF FrameFields, Finished, Entered, FrameInv, Shaped
<1> HIDE DEF g
<1>4. Shaped(g)
  BY <1>1, <1>3, ExecutionAssumption DEF FrameInv, Shaped, Phases
<1>5. Belongs(g) /\ Holds(g)
  BY <1>1, <1>3 DEF FrameInv, Belongs, Holds
<1>6. KeptFromMapper(g) /\ ChangeAhead(g)
  BY <1>1, <1>3 DEF FrameInv, KeptFromMapper, Invoking, ChangeAhead
<1>7. Told(g)
  <2>1. PreparedFor(g) = PreparedFor(f)
    BY <1>3 DEF PreparedFor
  <2> QED
    BY <1>1, <1>3, <2>1 DEF Told
<1> QED
  BY <1>2, <1>4, <1>5, <1>6, <1>7, OneFrameChanges DEF FrameInv

\* The two looks at what is retained, before the sources are looked at.
LEMMA LoadsKeep ==
    ASSUME IInv, NEW w \in Callers, LoadCommit(w) \/ LoadEvidence(w)
    PROVE  IInv'
<1> DEFINE f == callers[w]
<1>1. FrameInv(f) /\ UNCHANGED <<repository, sources>> /\ f.phase \in {"load", "evidence"}
  BY DEF IInv, LoadCommit, LoadEvidence, In
<1>2. CASE LoadCommit(w)
  <2>1. CASE Retained(w) = {} /\ Enter(w, "commit")
    <3> DEFINE g == Entered(f, "commit")
    <3>1. Hold(w, g) /\ f.phase = "load"
      BY <1>2, <2>1 DEF Enter, LoadCommit, In
    <3> HIDE DEF f
    <3>2. /\ DOMAIN g = DOMAIN Fresh
          /\ g.phase = "commit" /\ g.next = 1 /\ g.failed = FALSE /\ g.answer = f.answer
          /\ g.request = f.request /\ g.seen = f.seen /\ g.reservation = f.reservation
          /\ g.mapped = f.mapped /\ g.candidate = f.candidate /\ g.writer = f.writer
          /\ g.late = f.late /\ g.fresh = f.fresh
      BY <1>1, FreshFields DEF FrameFields, Entered, FrameInv, Shaped
    <3> HIDE DEF g
    <3>3. Shaped(g)
      BY <1>1, <3>2, ExecutionAssumption DEF FrameInv, Shaped, Phases, Checkpoints
    <3>4. Belongs(g) /\ Holds(g)
      BY <1>1, <3>1, <3>2 DEF FrameInv, Belongs, Holds
    <3>5. KeptFromMapper(g) /\ Told(g)
      BY <1>1, <3>2 DEF FrameInv, KeptFromMapper, Invoking, Told, PreparedFor
    <3>6. ChangeAhead(g)
      <4>1. \A s \in Sources : g.next <= s
        BY <3>2, ExecutionAssumption DEF Sources
      <4> QED
        BY <1>1, <3>1, <3>2, <4>1 DEF FrameInv, ChangeAhead
    <3> QED
      BY <1>1, <3>1, <3>3, <3>4, <3>5, <3>6, OneFrameChanges DEF FrameInv
  <2>2. CASE Retained(w) # {} /\ SameCoordinates(w)
             /\ IF f.writer = "durable" THEN Enter(w, "evidence") ELSE Finish(w, "idempotent")
    <3>1. PICK y \in commits : /\ y.reservation = f.reservation
                               /\ y.identity = PreparedFor(f).identity
                               /\ y.successor = PreparedFor(f).successor
      BY <2>2, PreparedIsFor DEF Retained, RetainedFor, SameCoordinates
    <3>2. CASE f.writer = "durable"
      <4> DEFINE g == Entered(f, "evidence")
      <4>1. Hold(w, g) /\ f.phase = "load"
        BY <1>2, <2>2, <3>2 DEF Enter, LoadCommit, In
      <4> HIDE DEF f
      <4>2. /\ DOMAIN g = DOMAIN Fresh
            /\ g.phase = "evidence" /\ g.next = 1 /\ g.answer = f.answer
            /\ g.request = f.request /\ g.seen = f.seen /\ g.reservation = f.reservation
            /\ g.mapped = f.mapped /\ g.candidate = f.candidate /\ g.writer = f.writer
            /\ g.late = f.late /\ g.fresh = f.fresh
        BY <1>1, FreshFields DEF FrameFields, Entered, FrameInv, Shaped
      <4> HIDE DEF g
      <4>3. Shaped(g)
        BY <1>1, <4>2, ExecutionAssumption DEF FrameInv, Shaped, Phases
      <4>4. Belongs(g) /\ Holds(g)
        BY <1>1, <4>1, <4>2 DEF FrameInv, Belongs, Holds
      <4>5. KeptFromMapper(g)
        BY <1>1, <4>2 DEF FrameInv, KeptFromMapper, Invoking
      <4>6. Told(g)
        <5>1. PreparedFor(g) = PreparedFor(f)
          BY <4>2 DEF PreparedFor
        <5> QED
          BY <1>1, <3>1, <4>2, <5>1 DEF FrameInv, Told
      <4>7. ChangeAhead(g)
        <5>1. \A s \in Sources : g.next <= s
          BY <4>2, ExecutionAssumption DEF Sources
        <5> QED
          BY <1>1, <4>1, <4>2, <5>1 DEF FrameInv, ChangeAhead
      <4> QED
        BY <1>1, <4>1, <4>3, <4>4, <4>5, <4>6, <4>7, OneFrameChanges DEF FrameInv
    <3>3. CASE f.writer # "durable"
      <4>1. SameCommit(PreparedFor(f), y)
        BY <3>1, <3>3 DEF SameCommit, PreparedFor
      <4> QED
        BY <1>1, <2>2, <3>1, <3>3, <4>1, ToldKeeps
    <3> QED
      BY <3>2, <3>3
  <2>3. CASE Finish(w, "conflict") \/ Finish(w, "error")
    BY <1>1, <2>3, FinishStepKeeps
  <2> QED
    BY <1>2, <2>1, <2>2, <2>3 DEF LoadCommit
<1>3. CASE LoadEvidence(w)
  <2>1. CASE (\A y \in Retained(w) : y.evidence = Prepared(w).evidence) /\ Finish(w, "idempotent")
    <3>1. f.phase = "evidence"
      BY <1>3 DEF LoadEvidence, In
    <3>2. PICK y \in commits : /\ y.reservation = f.reservation
                               /\ y.identity = PreparedFor(f).identity
                               /\ y.successor = PreparedFor(f).successor
      BY <1>1, <3>1 DEF FrameInv, Told
    <3>3. y.evidence = PreparedFor(f).evidence
      BY <2>1, <3>2, PreparedIsFor DEF Retained, RetainedFor
    <3>4. SameCommit(PreparedFor(f), y)
      <4>1. PreparedFor(f).reservation = f.reservation
        BY DEF PreparedFor
      <4> QED
        BY <3>2, <3>3, <4>1 DEF SameCommit
    <3> QED
      BY <1>1, <2>1, <3>2, <3>4, ToldKeeps
  <2>2. CASE Finish(w, "conflict") \/ Finish(w, "error")
    BY <1>1, <2>2, FinishStepKeeps
  <2> QED
    BY <1>3, <2>1, <2>2 DEF LoadEvidence
<1> QED
  BY <1>2, <1>3

-----------------------------------------------------------------------------
(* The actions that change what others rely on.                            *)

\* Commits are only added, revisions only grow: what a frame knows of them
\* remains true.  Of the reservations nothing but Holds speaks.
LEMMA FrameStays ==
    ASSUME NEW f, Shaped(f), Belongs(f), KeptFromMapper(f), Told(f) \/ Told(f)', ChangeAhead(f),
           commits \subseteq commits',
           \A s \in Sources : sources[s] \in Nat /\ sources'[s] \in Nat /\ sources[s] <= sources'[s],
           f.reservation # None =>
               \/ active'[f.reservation.net] = f.reservation
               \/ f.reservation \in Consumed(commits')
    PROVE  FrameInv(f)'
<1>1. Shaped(f)'
  <2>1. ASSUME NEW i \in 1 .. Len(f.seen)
        PROVE  f.seen[i] <= sources'[i]
    <3>1. i \in Sources /\ f.seen[i] \in Nat /\ f.seen[i] <= sources[i]
      BY <2>1, ExecutionAssumption DEF Shaped, Sources
    <3> QED
      BY <3>1
  <2> QED
    BY <2>1 DEF Shaped
<1>2. Belongs(f)' /\ Holds(f)'
  BY DEF Belongs, Holds
<1>3. Consumed(commits) \subseteq Consumed(commits')
  BY DEF Consumed
<1>4. KeptFromMapper(f)' /\ Told(f)'
  BY <1>3 DEF KeptFromMapper, Told
<1>5. ChangeAhead(f)'
  <2>1. ASSUME NEW s \in Sources, f.seen[s] < sources[s], f.reservation # None
        PROVE  f.seen[s] < sources'[s]
    <3>1. f.seen[s] \in Nat
      BY <2>1 DEF Shaped, Belongs, Sources
    <3> QED
      BY <2>1, <3>1
  <2>2. f.phase \in {"load", "evidence", "commit"} => f.reservation # None
    BY DEF Belongs
  <2> QED
    BY <2>1, <2>2 DEF ChangeAhead
<1> QED
  BY <1>1, <1>2, <1>4, <1>5 DEF FrameInv

\* What holds of the frame a caller has after a step holds of the caller.
LEMMA FrameOfCaller ==
    ASSUME NEW w \in Callers, NEW f, callers'[w] = f, FrameInv(f)'
    PROVE  FrameInv(callers[w])'
  BY DEF FrameInv, Shaped, Belongs, Holds, KeptFromMapper, Told, PreparedFor, ChangeAhead

\* The net of a reservation that a caller holds is one of the nets.
LEMMA NetOfReservation ==
    ASSUME IInv, NEW w \in Callers, callers[w].reservation # None
    PROVE  callers[w].reservation.net \in Nets
<1>1. Belongs(callers[w])
  BY DEF IInv, FrameInv
<1> QED
  BY <1>1, ExecutionAssumption DEF Belongs, ReservationFor

LEMMA PublishKeeps ==
    ASSUME IInv, Publish
    PROVE  IInv'
<1>1. PICK s \in Sources : sources' = [sources EXCEPT ![s] = @ + 1]
  BY DEF Publish
<1>2. \A t \in Sources : sources[t] \in Nat /\ sources'[t] \in Nat /\ sources[t] <= sources'[t]
  BY <1>1 DEF IInv, RepositoryInv
<1>3. sources' \in [Sources -> Nat]
  BY <1>1, <1>2 DEF IInv, RepositoryInv
<1>4. ASSUME NEW w \in Callers
      PROVE  FrameInv(callers[w])'
  <2>1. PICK f : f = callers[w]
    OBVIOUS
  <2>2. FrameInv(f) /\ callers'[w] = f /\ active' = active /\ commits' = commits
    BY <2>1 DEF IInv, Publish, repository
  <2>3. commits \subseteq commits'
        /\ (f.reservation # None => \/ active'[f.reservation.net] = f.reservation
                                    \/ f.reservation \in Consumed(commits'))
    BY <2>2 DEF FrameInv, Holds
  <2>4. FrameInv(f)'
    BY <1>2, <2>2, <2>3, FrameStays DEF FrameInv
  <2> QED
    BY <2>2, <2>4, FrameOfCaller
<1> QED
  BY <1>3, <1>4 DEF IInv, RepositoryInv, OneCommitEach, Publish, repository

\* The frames of the callers that do nothing.
LEMMA OthersKeep ==
    ASSUME IInv, NEW w \in Callers, NEW g, Hold(w, g), FrameInv(g)',
           DOMAIN active' = Nets, OneCommitEach', UNCHANGED sources, commits \subseteq commits',
           \A v \in Callers : v # w /\ callers[v].reservation # None =>
               \/ active'[callers[v].reservation.net] = callers[v].reservation
               \/ callers[v].reservation \in Consumed(commits')
    PROVE  IInv'
<1>1. DOMAIN callers' = Callers /\ callers'[w] = g
      /\ \A v \in Callers : v # w => callers'[v] = callers[v]
  BY DEF Hold, IInv
<1>2. \A s \in Sources : sources[s] \in Nat /\ sources'[s] \in Nat /\ sources[s] <= sources'[s]
  BY DEF IInv, RepositoryInv
<1>3. ASSUME NEW v \in Callers
      PROVE  FrameInv(callers[v])'
  <2>1. CASE v = w
    BY <1>1, <2>1, FrameOfCaller
  <2>2. CASE v # w
    <3>1. PICK f : f = callers[v]
      OBVIOUS
    <3>2. FrameInv(f) /\ callers'[v] = f
      BY <1>1, <2>2, <3>1 DEF IInv
    <3>3. FrameInv(f)'
      BY <1>2, <2>2, <3>1, <3>2, FrameStays DEF FrameInv
    <3> QED
      BY <3>2, <3>3, FrameOfCaller
  <2> QED
    BY <2>1, <2>2
<1> QED
  BY <1>1, <1>3 DEF IInv, RepositoryInv

AdmittedAs(f, r, verdict) ==
    [Entered(f, "ready") EXCEPT !.reservation = r, !.answer = verdict]

AdmittedInv(g, r) ==
    /\ g.reservation = r
    /\ Shaped(g) /\ Belongs(g) /\ KeptFromMapper(g) /\ Told(g) /\ ChangeAhead(g)

\* What a caller holds when its reservation is admitted; that the net is held
\* by it is another matter.
LEMMA AdmittedFrame ==
    ASSUME NEW f, FrameInv(f), f.phase = "reserve", NEW verdict, verdict # "committed",
           NEW r, r = ReservationFor(f.request, f.seen)
    PROVE  AdmittedInv(AdmittedAs(f, r, verdict), r)
<1> DEFINE g == AdmittedAs(f, r, verdict)
<1> HIDE DEF g
<1>1. /\ DOMAIN g = DOMAIN Fresh
      /\ g.phase = "ready" /\ g.next = 1 /\ g.answer = verdict
      /\ g.request = f.request /\ g.seen = f.seen /\ g.reservation = r
      /\ g.mapped = f.mapped /\ g.candidate = f.candidate /\ g.writer = f.writer
      /\ g.late = f.late
  BY FreshFields DEF g, FrameFields, AdmittedAs, Entered, FrameInv, Shaped
<1>2. f.reservation = None /\ f.mapped = None /\ f.candidate = None /\ f.writer = None
      /\ Len(f.seen) = N /\ f.request \in Requests
  BY DEF FrameInv, Belongs
<1>3. Shaped(g)
  BY <1>1, ExecutionAssumption DEF FrameInv, Shaped, Phases
<1>4. Belongs(g)
  BY <1>1, <1>2 DEF Belongs
<1>5. f.late # TRUE
  BY <1>2 DEF FrameInv, KeptFromMapper
<1>6. KeptFromMapper(g) /\ Told(g) /\ ChangeAhead(g)
  BY <1>1, <1>2, <1>5 DEF KeptFromMapper, Invoking, Told, ChangeAhead
<1> QED
  BY <1>1, <1>3, <1>4, <1>6 DEF g, AdmittedInv

LEMMA ReserveKeeps ==
    ASSUME IInv, NEW w \in Callers, RepositoryReserve(w)
    PROVE  IInv'
<1>1. FrameInv(callers[w]) /\ callers[w].phase = "reserve" /\ RepositoryInv
      /\ UNCHANGED <<current, commits, sources>>
  BY DEF IInv, RepositoryReserve, In
<1>2. PICK r : r = ReservationFor(callers[w].request, callers[w].seen)
  OBVIOUS
<1>3. PICK verdict : verdict = ReserveVerdict(current, active, commits, r)
  OBVIOUS
<1>4. PICK g : g = AdmittedAs(callers[w], r, verdict)
  OBVIOUS
<1>5. r.net \in Nets
  BY <1>1, <1>2, ExecutionAssumption DEF FrameInv, Belongs, ReservationFor
<1>6. verdict # "committed"
  BY <1>3 DEF ReserveVerdict
<1>7. g.reservation = r /\ Shaped(g) /\ Belongs(g) /\ KeptFromMapper(g) /\ Told(g) /\ ChangeAhead(g)
  <2>1. AdmittedInv(AdmittedAs(callers[w], r, verdict), r)
    BY <1>1, <1>2, <1>6, AdmittedFrame
  <2> QED
    BY <1>4, <2>1 DEF AdmittedInv
<1>8. /\ \A s \in Sources : sources[s] \in Nat /\ sources'[s] \in Nat /\ sources[s] <= sources'[s]
      /\ commits \subseteq commits' /\ OneCommitEach'
  BY <1>1 DEF RepositoryInv, OneCommitEach
<1>9. CASE /\ verdict = "reserved" /\ active' = [active EXCEPT ![r.net] = r]
           /\ Hold(w, g) \/ Finish(w, "indeterminate")
  <2>1. active'[r.net] = r /\ DOMAIN active' = Nets
    BY <1>1, <1>5, <1>9 DEF RepositoryInv
  <2>2. active[r.net] = None
    BY <1>3, <1>9 DEF ReserveVerdict
  <2>3. ASSUME NEW v \in Callers, callers[v].reservation # None
        PROVE  \/ active'[callers[v].reservation.net] = callers[v].reservation
               \/ callers[v].reservation \in Consumed(commits')
    <3>1. Holds(callers[v]) /\ callers[v].reservation.net \in Nets
      BY <2>3, NetOfReservation DEF IInv, FrameInv
    <3> QED
      BY <1>1, <1>9, <2>2, <2>3, <3>1 DEF Holds, RepositoryInv
  <2>4. CASE Hold(w, g)
    <3>1. FrameInv(g)'
      BY <1>7, <1>8, <2>1, FrameStays
    <3> QED
      BY <1>1, <1>8, <2>1, <2>3, <2>4, <3>1, OthersKeep
  <2>5. CASE Finish(w, "indeterminate")
    <3>1. PICK h : h = Finished(callers[w], "indeterminate")
      OBVIOUS
    <3>2. FrameInv(h) /\ h.reservation = None
      <4>1. FrameInv(h)
        BY <1>1, <3>1, FinishKeeps
      <4>2. h.reservation = callers[w].reservation
        BY <1>1, <3>1, FreshFields DEF FrameFields, Finished, Entered, FrameInv, Shaped
      <4> QED
        BY <1>1, <4>1, <4>2 DEF FrameInv, Belongs
    <3>3. FrameInv(h)'
      BY <1>8, <3>2, FrameStays DEF FrameInv
    <3> QED
      BY <1>1, <1>8, <2>1, <2>3, <2>5, <3>1, <3>3, OthersKeep DEF Finish
  <2> QED
    BY <1>9, <2>4, <2>5
<1>10. CASE verdict = "idempotent" /\ Hold(w, g) /\ UNCHANGED active
  <2>1. active[r.net] = r
    BY <1>3, <1>10 DEF ReserveVerdict
  <2>2. FrameInv(g)
    BY <1>7, <2>1 DEF FrameInv, Holds
  <2> QED
    BY <1>1, <1>10, <2>2, OneFrameChanges DEF repository
<1>11. ASSUME NEW answer, answer \notin {"committed", "idempotent"}, Finish(w, answer),
              UNCHANGED active
       PROVE  IInv'
  BY <1>1, <1>11, FinishStepKeeps DEF repository
<1> QED
  BY <1>2, <1>3, <1>4, <1>6, <1>9, <1>10, <1>11 DEF RepositoryReserve, AdmittedAs

\* What a caller holds when its commit has been made: all sources were looked
\* at, so none had changed when the call began.
CommittedInv(g, f) ==
    /\ g.reservation = f.reservation
    /\ Shaped(g) /\ Belongs(g) /\ KeptFromMapper(g) /\ ChangeAhead(g)
    /\ g.phase = "ready" /\ PreparedFor(g) = PreparedFor(f)

LEMMA CommittedFrame ==
    ASSUME NEW f, FrameInv(f), f.phase = "commit", f.next > N \/ f.failed
    PROVE  CommittedInv(Finished(f, "committed"), f)
<1> DEFINE g == Finished(f, "committed")
<1> HIDE DEF g
<1>1. /\ DOMAIN g = DOMAIN Fresh
      /\ g.phase = "ready" /\ g.next = 1 /\ g.answer = "committed"
      /\ g.request = f.request /\ g.seen = f.seen /\ g.reservation = f.reservation
      /\ g.mapped = f.mapped /\ g.candidate = f.candidate /\ g.writer = f.writer
      /\ g.late = f.late /\ g.fresh = f.fresh
  BY FreshFields DEF g, FrameFields, Finished, Entered, FrameInv, Shaped
<1>2. Shaped(g)
  BY <1>1, ExecutionAssumption DEF FrameInv, Shaped, Phases
<1>3. Belongs(g) /\ KeptFromMapper(g)
  BY <1>1 DEF FrameInv, Belongs, KeptFromMapper, Invoking
<1>4. f.fresh = TRUE
  <2>1. f.next > N /\ f.next \in Nat
    BY DEF FrameInv, Shaped, ChangeAhead
  <2>2. \A s \in Sources : ~ (f.next <= s)
    BY <2>1, ExecutionAssumption DEF Sources
  <2> QED
    BY <2>2 DEF FrameInv, ChangeAhead
<1>5. ChangeAhead(g)
  BY <1>1, <1>4 DEF ChangeAhead
<1>6. PreparedFor(g) = PreparedFor(f)
  BY <1>1 DEF PreparedFor
<1> QED
  BY <1>1, <1>2, <1>3, <1>5, <1>6 DEF CommittedInv, g

LEMMA CommitKeeps ==
    ASSUME IInv, NEW w \in Callers, RepositoryCommit(w)
    PROVE  IInv'
<1>1. /\ FrameInv(callers[w]) /\ callers[w].phase = "commit" /\ RepositoryInv
      /\ callers[w].next > N \/ callers[w].failed
      /\ sources' = sources
  BY DEF IInv, RepositoryCommit, In, SourcesChecked
<1>2. PICK x : x = Prepared(w)
  OBVIOUS
<1>3. PICK verdict : verdict = CommitVerdict(current, active, commits, x)
  OBVIOUS
<1>4. x = PreparedFor(callers[w]) /\ x.reservation = callers[w].reservation
      /\ x.reservation # None /\ x.reservation.net \in Nets
  <2>1. x = PreparedFor(callers[w])
    BY <1>2, PreparedIsFor
  <2>2. x.reservation = callers[w].reservation
    BY <2>1 DEF PreparedFor
  <2>3. callers[w].reservation # None
    BY <1>1 DEF FrameInv, Belongs
  <2> QED
    BY <2>1, <2>2, <2>3, NetOfReservation
<1>5. ASSUME /\ verdict = "committed"
             /\ commits' = commits \cup {x}
             /\ active' = [active EXCEPT ![x.reservation.net] = None],
             NEW status \in {"committed", "indeterminate"}, Finish(w, status)
      PROVE  IInv'
  <2>1. RetainedFor(commits, x.reservation) = {} /\ active[x.reservation.net] = x.reservation
    BY <1>3, <1>5 DEF CommitVerdict
  <2>2. OneCommitEach'
    BY <1>1, <1>5, <2>1 DEF RepositoryInv, OneCommitEach, RetainedFor
  <2>3. DOMAIN active' = Nets /\ commits \subseteq commits' /\ x \in commits'
    BY <1>1, <1>5 DEF RepositoryInv
  <2>4. \A s \in Sources : sources[s] \in Nat /\ sources'[s] \in Nat /\ sources[s] <= sources'[s]
    BY <1>1 DEF RepositoryInv
  <2>5. ASSUME NEW v \in Callers, callers[v].reservation # None
        PROVE  \/ active'[callers[v].reservation.net] = callers[v].reservation
               \/ callers[v].reservation \in Consumed(commits')
    <3>1. Holds(callers[v]) /\ callers[v].reservation.net \in Nets
      BY <2>5, NetOfReservation DEF IInv, FrameInv
    <3>2. CASE callers[v].reservation \in Consumed(commits)
      BY <2>3, <3>2 DEF Consumed
    <3>3. CASE callers[v].reservation.net = x.reservation.net
               /\ active[callers[v].reservation.net] = callers[v].reservation
      <4>1. callers[v].reservation = x.reservation
        BY <2>1, <3>3
      <4> QED
        BY <2>3, <4>1 DEF Consumed
    <3>4. CASE callers[v].reservation.net # x.reservation.net
               /\ active[callers[v].reservation.net] = callers[v].reservation
      BY <1>1, <1>5, <3>1, <3>4 DEF RepositoryInv
    <3> QED
      BY <2>5, <3>1, <3>2, <3>3, <3>4 DEF Holds
  <2>6. PICK g : g = Finished(callers[w], status)
    OBVIOUS
  <2>7. FrameInv(g)'
    <3>1. CASE status = "committed"
      <4>1. CommittedInv(g, callers[w])
        BY <1>1, <2>6, <3>1, CommittedFrame
      <4>2. SameCommit(x, x)
        BY DEF SameCommit
      <4>3. Told(g)'
        BY <1>4, <2>3, <4>1, <4>2 DEF CommittedInv, Told
      <4>4. g.reservation \in Consumed(commits')
        BY <1>4, <2>3, <4>1 DEF CommittedInv, Consumed
      <4> QED
        BY <2>3, <2>4, <4>1, <4>3, <4>4, FrameStays DEF CommittedInv, FrameInv
    <3>2. CASE status = "indeterminate"
      <4>1. FrameInv(g) /\ g.reservation = callers[w].reservation
        <5>1. FrameInv(g)
          BY <1>1, <2>6, <3>2, FinishKeeps
        <5> QED
          BY <1>1, <2>6, <5>1, FreshFields DEF FrameFields, Finished, Entered,
             FrameInv, Shaped
      <4> QED
        BY <2>3, <2>4, <2>5, <4>1, FrameStays DEF FrameInv
    <3> QED
      BY <3>1, <3>2
  <2> QED
    BY <1>1, <1>5, <2>2, <2>3, <2>5, <2>6, <2>7, OthersKeep DEF Finish
<1>6. ASSUME NEW status \in {verdict, "error", "indeterminate"}, status # "committed",
             Finish(w, status), UNCHANGED repository
      PROVE  IInv'
  <2>1. CASE status = "idempotent"
    <3>1. verdict = "idempotent"
      BY <1>6, <2>1
    <3>2. PICK y \in commits : y.reservation = callers[w].reservation /\ SameCommit(x, y)
      BY <1>3, <1>4, <3>1 DEF CommitVerdict, RetainedFor
    <3> QED
      BY <1>1, <1>4, <1>6, <2>1, <3>2, ToldKeeps
  <2>2. CASE status # "idempotent"
    BY <1>1, <1>6, <2>2, FinishStepKeeps
  <2> QED
    BY <2>1, <2>2
<1> QED
  BY <1>2, <1>3, <1>5, <1>6 DEF RepositoryCommit

-----------------------------------------------------------------------------
(* The invariant is inductive.                                             *)

LEMMA InitInvariant == Init => IInv
<1> SUFFICES ASSUME Init
             PROVE  IInv
  OBVIOUS
<1>1. RepositoryInv
  BY DEF Init, RepositoryInv, OneCommitEach
<1>2. FrameInv(Fresh)
  BY <1>1, ExecutionAssumption
  DEF RepositoryInv, FrameInv, Shaped, Belongs, Holds, KeptFromMapper, Invoking, Told,
      ChangeAhead, Fresh, Phases
<1> QED
  BY <1>1, <1>2 DEF Init, IInv

LEMMA NextKeeps == IInv /\ [Next]_vars => IInv'
<1> SUFFICES ASSUME IInv, [Next]_vars
             PROVE  IInv'
  OBVIOUS
<1>1. CASE UNCHANGED vars
  <2>1. ASSUME NEW w \in Callers
        PROVE  FrameInv(callers[w])'
    <3>1. FrameInv(callers[w])
      BY DEF IInv
    <3> QED
      BY <1>1, <3>1 DEF vars, repository, FrameInv, Shaped, Belongs, Holds,
         KeptFromMapper,
                        Told, PreparedFor, ChangeAhead
  <2> QED
    BY <1>1, <2>1 DEF vars, repository, IInv, RepositoryInv, OneCommitEach
<1>2. CASE Publish
  BY <1>2, PublishKeeps
<1>3. ASSUME NEW w \in Callers, Begin(w)
      PROVE  IInv'
  BY <1>3, BeginKeeps
<1>4. ASSUME NEW w \in Callers, Step(w)
      PROVE  IInv'
  BY <1>4, AuthorizeSourceKeeps, LookKeeps, ReserveKeeps, InvokeAndFireKeep, LoadsKeep, CommitKeeps
  DEF Step
<1>5. ASSUME NEW w \in Callers, Crash(w)
      PROVE  IInv'
  BY <1>5, CrashKeeps
<1> QED
  BY <1>1, <1>2, <1>3, <1>4, <1>5 DEF Next

THEOREM Invariance == Spec => []IInv
  BY InitInvariant, NextKeeps, PTL DEF Spec

-----------------------------------------------------------------------------
(* What follows from it.                                                   *)

\* Whoever holds a reservation result has reserved: no owner is invoked for an
\* attempt that the repository did not admit.
THEOREM HoldersHaveReserved == Spec => []HolderHasReserved
<1>1. IInv => HolderHasReserved
  BY DEF IInv, FrameInv, Holds, HolderHasReserved
<1> QED
  BY <1>1, Invariance, PTL

\* A result whose owner was asked after the reservation had been consumed is
\* not mapped.
THEOREM LateResultsAreNotMapped == Spec => []LateResultIsNotMapped
<1>1. IInv => LateResultIsNotMapped
  BY DEF IInv, FrameInv, KeptFromMapper, LateResultIsNotMapped
<1> QED
  BY <1>1, Invariance, PTL

\* Whoever is told committed or idempotent holds the one commit retained.
THEOREM ToldIsRetained == Spec => []ToldCommittedIsRetained
<1>1. IInv => ToldCommittedIsRetained
  <2> SUFFICES ASSUME IInv, NEW w \in Callers, callers[w].writer # None,
                      callers[w].answer \in {"committed", "idempotent"}
               PROVE  /\ \E y \in Retained(w) : SameCommit(Prepared(w), y)
                      /\ \A y, z \in Retained(w) : y = z
    BY DEF ToldCommittedIsRetained
  <2>1. Told(callers[w]) /\ OneCommitEach
    BY DEF IInv, FrameInv, RepositoryInv
  <2>2. PICK y \in commits :
           y.reservation = callers[w].reservation /\ SameCommit(PreparedFor(callers[w]), y)
    BY <2>1 DEF Told
  <2>3. y \in Retained(w) /\ SameCommit(Prepared(w), y)
    BY <2>2, PreparedIsFor DEF Retained, RetainedFor
  <2> QED
    BY <2>1, <2>3 DEF OneCommitEach, Retained, RetainedFor
<1> QED
  BY <1>1, Invariance, PTL

\* A source that had changed before the commit call began keeps the call from
\* committing.
THEOREM ChangedSourcesAreNotCommitted == Spec => []ChangedSourceIsNotCommitted
<1>1. IInv => ChangedSourceIsNotCommitted
  BY DEF IInv, FrameInv, ChangeAhead, ChangedSourceIsNotCommitted
<1> QED
  BY <1>1, Invariance, PTL
=============================================================================
