------------------------- MODULE LocalRuntimeProofs -------------------------
(***************************************************************************)
(* What holds of the local runtime for any callers, runs, requests and     *)
(* reports.                                                                *)
(*                                                                         *)
(* An operation decides on the history it loaded and appends to the        *)
(* history it finds.  That these are the same is what compare-and-append   *)
(* guarantees; so what was decided (Proposed) need only be known of the    *)
(* history it was decided on, and no step of another caller disturbs it.   *)
(***************************************************************************)
EXTENDS LocalRuntime, TLAPS

-----------------------------------------------------------------------------
(* The invariant.                                                          *)

IsHistory(h) == h \in Seq({h[i] : i \in DOMAIN h})

\* An aggregate that the processor can take a successor of.
WellMade(run) ==
    {"state", "revision"} \subseteq DOMAIN run /\ run.state.revision = run.revision

EventInv(e) ==
    /\ e.kind \in EventKinds
    /\ e.state.revision = e.revision
    /\ e.kind # "run_started" => e.occurrence.request = e.request
    /\ e.kind \in RequestKinds => e.occurrence.state = e.state
    /\ e.kind = "transition_recorded" /\ e.evidence.outcome.kind = "applied"
          => WellMade(e.evidence.outcome.run)

HistoryInv(h) ==
    /\ IsHistory(h)
    /\ Len(h) <= MaxEvents + 1
    /\ \A i \in DOMAIN h : EventInv(h[i]) /\ (i = 1 <=> h[i].kind = "run_started")
    /\ \A i \in DOMAIN h : Open(h, i) => h[i].state = Newest(h).state
    /\ OneOpen(h) /\ DecidedOnce(h) /\ BoundToOccurrence(h)

\* What an operation that is about to append has decided on the history it
\* loaded.
ProposedStart(h, subject, e) ==
    h = <<>> /\ subject \in Starts /\ e = GenesisEvent(subject)

ProposedRequest(h, subject, e) ==
    /\ e.kind \in RequestKinds
    /\ EventInv(e) /\ e.request = subject /\ e.state = Newest(h).state
    /\ EventsOf(h, subject, RequestKinds) = {}
    /\ e.kind = "request_retained" =>
          subject.state = e.state /\ e.state.status \notin Terminal
    /\ e.kind # "request_conflict_recorded" =>
          Owners(h, subject.idempotency) = {} /\ Active(h, e.revision) = {}

ProposedTransition(h, subject, e) ==
    /\ e.kind = "transition_recorded"
    /\ EventInv(e) /\ e.request = subject
    /\ EventsOf(h, subject, {"transition_recorded"}) = {}
    /\ \E i \in EventsOf(h, subject, {"request_retained"}) : e.occurrence = h[i].occurrence
    /\ e.state # Newest(h).state =>
          /\ e.evidence.outcome.kind = "applied"
          /\ e.state.predecessor = {Newest(h).state}
          /\ e.state.revision = Newest(h).state.revision + 1

Proposed(h, operation, subject, e) ==
    \/ operation = "start" /\ ProposedStart(h, subject, e)
    \/ /\ operation # "start" /\ Len(h) \in 1..MaxEvents
       /\ ProposedRequest(h, subject, e) \/ ProposedTransition(h, subject, e)

CallerInv(q) ==
    q # Idle => /\ q.phase = "append"
                /\ Proposed(q.history, q.operation, q.subject, q.event)

IInv ==
    /\ HistoryInv(log)
    /\ DOMAIN ops = Clients
    /\ \A c \in Clients : CallerInv(ops[c])

-----------------------------------------------------------------------------
(* How a history grows.                                                    *)

Extended(h, e, g) ==
    /\ Len(h) \in Nat /\ DOMAIN h = 1..Len(h)
    /\ Len(g) = Len(h) + 1 /\ DOMAIN g = 1..Len(h) + 1
    /\ \A i \in DOMAIN h : g[i] = h[i]
    /\ g[Len(h) + 1] = e /\ Newest(g) = e
    /\ IsHistory(g)

LEMMA AppendFacts ==
    ASSUME NEW h, IsHistory(h), NEW e, NEW g, g = Append(h, e)
    PROVE  Extended(h, e, g)
<1> DEFINE S == {h[i] : i \in DOMAIN h} \cup {e}
<1>1. h \in Seq(S) /\ e \in S
  <2>1. h \in Seq({h[i] : i \in DOMAIN h})
    BY DEF IsHistory
  <2> QED
    BY <2>1
<1> HIDE DEF S
<1>2. /\ Len(h) \in Nat /\ DOMAIN h = 1..Len(h)
      /\ g \in Seq(S)
      /\ Len(g) = Len(h) + 1 /\ DOMAIN g = 1..Len(h) + 1
      /\ \A i \in DOMAIN h : g[i] = h[i]
      /\ g[Len(h) + 1] = e
  BY <1>1
<1>3. g \in Seq({g[i] : i \in DOMAIN g})
  BY <1>2
<1> QED
  BY <1>2, <1>3 DEF Extended, IsHistory, Newest

\* An occurrence is closed by what is appended or stays as it was.
LEMMA OpenAfter ==
    ASSUME NEW h, IsHistory(h), NEW e, NEW g, g = Append(h, e), NEW i \in DOMAIN h
    PROVE  Open(g, i) <=> /\ Open(h, i)
                          /\ ~ (e.kind = "transition_recorded" /\ e.occurrence = h[i].occurrence)
<1>1. /\ Len(h) \in Nat /\ DOMAIN h = 1..Len(h)
      /\ Len(g) = Len(h) + 1
      /\ \A j \in DOMAIN h : g[j] = h[j]
      /\ g[Len(h) + 1] = e
  BY AppendFacts DEF Extended
<1>2. i + 1..Len(g) = (i + 1..Len(h)) \cup {Len(h) + 1}
  BY <1>1
<1>3. \A j \in i + 1..Len(h) : g[j] = h[j]
  BY <1>1
<1> QED
  BY <1>1, <1>2, <1>3 DEF Open

LEMMA NewestOpen ==
    ASSUME NEW h, IsHistory(h), NEW e, NEW g, g = Append(h, e)
    PROVE  Open(g, Len(h) + 1) <=> e.kind = "request_retained"
<1>1. Len(h) \in Nat /\ Len(g) = Len(h) + 1 /\ g[Len(h) + 1] = e
  BY AppendFacts DEF Extended
<1>2. Len(h) + 1 + 1..Len(g) = {}
  BY <1>1
<1> QED
  BY <1>1, <1>2 DEF Open

\* One event, the genesis of the run.
LEMMA HistoryBegins ==
    ASSUME NEW subject, NEW e, ProposedStart(<<>>, subject, e)
    PROVE  HistoryInv(Append(<<>>, e))
<1>1. PICK g : g = Append(<<>>, e)
  OBVIOUS
<1>2. PICK h : h = <<>>
  OBVIOUS
<1>3. IsHistory(h) /\ Len(h) = 0 /\ DOMAIN h = {}
  BY <1>2 DEF IsHistory
<1>4. IsHistory(g) /\ Len(g) = 1 /\ DOMAIN g = {1} /\ g[1] = e
  <2>1. g = Append(h, e)
    BY <1>1, <1>2
  <2>2. Extended(h, e, g)
    BY <1>3, <2>1, AppendFacts
  <2> QED
    BY <1>3, <2>2 DEF Extended
<1>5. e = GenesisEvent(subject) /\ subject.revision = 0 /\ subject.state.revision = 0
  <2>1. subject = StartedRun(subject.key, subject.definition, subject.subject,
                             subject.state.references, subject.artifacts, subject.decisions)
    BY RuntimeAssumption DEF ProposedStart
  <2>2. PICK state : state = InitialState(subject.key, subject.definition, subject.subject,
                                          subject.state.references)
    OBVIOUS
  <2>3. subject.revision = 0 /\ subject.state = state
    BY <2>1, <2>2 DEF StartedRun
  <2>4. state.revision = 0
    BY <2>2 DEF InitialState
  <2> QED
    BY <2>3, <2>4 DEF ProposedStart
<1>6. e.kind = "run_started" /\ EventInv(e)
  BY <1>5 DEF GenesisEvent, Event, EventInv, EventKinds, RequestKinds
<1>7. \A i \in DOMAIN g : ~ Open(g, i)
  BY <1>4, <1>6 DEF Open
<1>8. OneOpen(g) /\ DecidedOnce(g) /\ BoundToOccurrence(g)
  BY <1>4, <1>6, <1>7 DEF OneOpen, DecidedOnce, BoundToOccurrence
<1> QED
  BY <1>1, <1>4, <1>6, <1>7, <1>8, RuntimeAssumption DEF HistoryInv

\* In a history that was decided on, the events of a request are few.
LEMMA RetainedIsOnce ==
    ASSUME NEW h, HistoryInv(h), NEW i \in DOMAIN h, NEW j \in DOMAIN h, h[i].request = h[j].request,
           h[i].kind \in RequestKinds, h[j].kind \in RequestKinds
    PROVE  i = j
<1>1. i > 1 /\ j > 1 /\ i \in Nat /\ j \in Nat
  BY AppendFacts DEF HistoryInv, RequestKinds
<1> QED
  BY <1>1 DEF HistoryInv, DecidedOnce, RequestKinds

\* A recorded request.
LEMMA RequestExtends ==
    ASSUME NEW h, HistoryInv(h), Len(h) \in 1..MaxEvents, NEW subject, NEW e,
           ProposedRequest(h, subject, e)
    PROVE  HistoryInv(Append(h, e))
<1>1. PICK g : g = Append(h, e)
  OBVIOUS
<1>2. PICK n \in Nat : n = Len(h)
  BY AppendFacts DEF HistoryInv
<1>3. /\ n >= 1 /\ n <= MaxEvents /\ DOMAIN h = 1..n
      /\ Len(g) = n + 1 /\ DOMAIN g = 1..n + 1
      /\ \A i \in 1..n : g[i] = h[i]
      /\ g[n + 1] = e /\ Newest(g) = e
      /\ IsHistory(g) /\ IsHistory(h)
  <2>1. IsHistory(h)
    BY DEF HistoryInv
  <2>2. n >= 1 /\ n <= MaxEvents
    BY <1>2, RuntimeAssumption
  <2>3. Extended(h, e, g)
    BY <1>1, <2>1, AppendFacts
  <2> QED
    BY <1>2, <2>1, <2>2, <2>3 DEF Extended
<1>4. e.kind \in RequestKinds /\ e.kind # "transition_recorded" /\ e.kind # "run_started"
      /\ EventInv(e) /\ e.state = Newest(h).state /\ e.request = subject
  BY DEF ProposedRequest, RequestKinds
<1>5. \A i \in 1..n : Open(g, i) <=> Open(h, i)
  BY <1>1, <1>3, <1>4, OpenAfter
<1>6. Open(g, n + 1) <=> e.kind = "request_retained"
  BY <1>1, <1>2, <1>3, NewestOpen
<1>7. \A i \in DOMAIN g : EventInv(g[i]) /\ (i = 1 <=> g[i].kind = "run_started")
  BY <1>3, <1>4 DEF HistoryInv
<1>8. \A i \in DOMAIN g : Open(g, i) => g[i].state = Newest(g).state
  BY <1>3, <1>4, <1>5 DEF HistoryInv
<1>9. OneOpen(g)
  <2>1. ASSUME e.kind = "request_retained", NEW i \in 1..n, Open(h, i)
        PROVE  FALSE
    <3>1. h[i].state = Newest(h).state /\ EventInv(h[i])
      BY <1>3, <2>1 DEF HistoryInv
    <3>2. h[i].revision = e.revision
      BY <1>4, <3>1 DEF EventInv
    <3> QED
      BY <1>3, <2>1, <3>2 DEF ProposedRequest, Active
  <2>2. OneOpen(h)
    BY DEF HistoryInv
  <2> QED
    BY <1>3, <1>5, <1>6, <2>1, <2>2 DEF OneOpen
<1>10. DecidedOnce(g)
  <2>1. ASSUME NEW i \in 1..n, 1 < i
        PROVE  /\ g[i].request = e.request =>
                      g[i].kind = "request_retained" /\ e.kind = "transition_recorded"
               /\ {g[i].kind, e.kind} \subseteq {"request_retained", "preflight_rejected"} =>
                      g[i].request.idempotency # e.request.idempotency
    <3>1. h[i].request # subject
      <4>1. \A j \in 1..n : h[j].kind \in RequestKinds => h[j].request # subject
        BY <1>3 DEF ProposedRequest, EventsOf
      <4>2. CASE h[i].kind = "transition_recorded"
        <5>1. PICK j \in 1..i - 1 : h[j].kind = "request_retained" /\ h[j].request = h[i].request
          BY <1>3, <4>2 DEF HistoryInv, BoundToOccurrence
        <5> QED
          BY <4>1, <5>1 DEF RequestKinds
      <4>3. h[i].kind \in RequestKinds \cup {"transition_recorded"}
        BY <1>3, <2>1 DEF HistoryInv, EventInv, EventKinds
      <4> QED
        BY <4>1, <4>2, <4>3
    <3>2. CASE {g[i].kind, e.kind} \subseteq {"request_retained", "preflight_rejected"}
      <4>1. i \notin Owners(h, subject.idempotency)
        BY <3>2 DEF ProposedRequest
      <4> QED
        BY <1>3, <1>4, <3>2, <4>1 DEF Owners
    <3> QED
      BY <1>3, <1>4, <3>1, <3>2
  <2>2. DecidedOnce(h)
    BY DEF HistoryInv
  <2>3. \A i, j \in 1..n : 1 < i /\ i < j =>
          /\ g[i].request = g[j].request =>
                g[i].kind = "request_retained" /\ g[j].kind = "transition_recorded"
          /\ {g[i].kind, g[j].kind} \subseteq {"request_retained", "preflight_rejected"} =>
                g[i].request.idempotency # g[j].request.idempotency
    BY <1>3, <2>2 DEF DecidedOnce
  <2> QED
    BY <1>3, <2>1, <2>3 DEF DecidedOnce
<1>11. BoundToOccurrence(g)
  <2>1. BoundToOccurrence(h)
    BY DEF HistoryInv
  <2>2. ASSUME NEW j \in 1..n, h[j].kind = "transition_recorded"
        PROVE  j > 1 /\ g[j] = h[j] /\ g[j - 1] = h[j - 1] /\ \A i \in 1..j - 1 : g[i] = h[i]
    <3>1. j # 1
      BY <1>3, <2>2 DEF HistoryInv
    <3> QED
      BY <1>3, <3>1
  <2> QED
    BY <1>3, <1>4, <2>1, <2>2 DEF BoundToOccurrence
<1>12. Len(g) <= MaxEvents + 1
  BY <1>3, RuntimeAssumption
<1> QED
  BY <1>1, <1>3, <1>7, <1>8, <1>9, <1>10, <1>11, <1>12 DEF HistoryInv

\* A recorded transition closes the one occurrence that is open.
LEMMA TransitionExtends ==
    ASSUME NEW h, HistoryInv(h), Len(h) \in 1..MaxEvents, NEW subject, NEW e,
           ProposedTransition(h, subject, e)
    PROVE  HistoryInv(Append(h, e))
<1>1. PICK g : g = Append(h, e)
  OBVIOUS
<1>2. PICK n \in Nat : n = Len(h)
  BY AppendFacts DEF HistoryInv
<1>3. /\ n >= 1 /\ n <= MaxEvents /\ DOMAIN h = 1..n
      /\ Len(g) = n + 1 /\ DOMAIN g = 1..n + 1
      /\ \A i \in 1..n : g[i] = h[i]
      /\ g[n + 1] = e /\ Newest(g) = e
      /\ IsHistory(g) /\ IsHistory(h)
  <2>1. IsHistory(h)
    BY DEF HistoryInv
  <2>2. n >= 1 /\ n <= MaxEvents
    BY <1>2, RuntimeAssumption
  <2>3. Extended(h, e, g)
    BY <1>1, <2>1, AppendFacts
  <2> QED
    BY <1>2, <2>1, <2>2, <2>3 DEF Extended
<1>4. e.kind = "transition_recorded" /\ EventInv(e) /\ e.request = subject
      /\ \A i \in 1..n : h[i].kind = "transition_recorded" => h[i].request # subject
  BY <1>3 DEF ProposedTransition, EventsOf
<1>5. PICK r \in 1..n : /\ h[r].kind = "request_retained" /\ h[r].request = subject
                        /\ e.occurrence = h[r].occurrence
  BY <1>3 DEF ProposedTransition, EventsOf
<1>6. Open(h, r)
  <2>1. ASSUME NEW j \in r + 1..n, h[j].kind = "transition_recorded",
               h[j].occurrence = h[r].occurrence
        PROVE  FALSE
    <3>1. EventInv(h[j]) /\ EventInv(h[r])
      BY <1>3, <2>1 DEF HistoryInv
    <3>2. h[j].request = subject
      BY <1>5, <2>1, <3>1 DEF EventInv
    <3> QED
      BY <1>4, <2>1, <3>2
  <2> QED
    BY <1>2, <1>5, <2>1 DEF Open
<1>7. \A i \in DOMAIN g : ~ Open(g, i)
  <2>1. \A i \in 1..n : Open(h, i) => i = r
    BY <1>3, <1>6 DEF HistoryInv, OneOpen
  <2>2. ASSUME NEW i \in 1..n
        PROVE  ~ Open(g, i)
    <3>1. i \in DOMAIN h
      BY <1>3
    <3>2. Open(g, i) <=> /\ Open(h, i)
                         /\ ~ (e.kind = "transition_recorded" /\ e.occurrence = h[i].occurrence)
      BY <1>1, <1>3, <3>1, OpenAfter
    <3> QED
      BY <1>4, <1>5, <2>1, <3>2
  <2>3. ~ Open(g, n + 1)
    BY <1>1, <1>2, <1>3, <1>4, NewestOpen
  <2> QED
    BY <1>3, <2>2, <2>3
<1>8. \A i \in DOMAIN g : EventInv(g[i]) /\ (i = 1 <=> g[i].kind = "run_started")
  BY <1>3, <1>4 DEF HistoryInv
<1>9. r > 1 /\ \A i \in 1..n : h[i].request = subject => i = r \/ i = 1
  <2>1. r > 1
    BY <1>3, <1>5 DEF HistoryInv
  <2>2. ASSUME NEW i \in 1..n, i > 1, i # r, h[i].request = subject
        PROVE  FALSE
    <3>1. h[i].kind \in RequestKinds
      BY <1>3, <1>4, <2>2 DEF HistoryInv, EventInv, EventKinds
    <3> QED
      BY <1>3, <1>5, <2>2, <3>1, RetainedIsOnce DEF RequestKinds
  <2> QED
    BY <2>1, <2>2
<1>10. DecidedOnce(g)
  <2>1. ASSUME NEW i \in 1..n, 1 < i
        PROVE  /\ g[i].request = e.request =>
                      g[i].kind = "request_retained" /\ e.kind = "transition_recorded"
               /\ {g[i].kind, e.kind} \subseteq {"request_retained", "preflight_rejected"} =>
                      g[i].request.idempotency # e.request.idempotency
    BY <1>3, <1>4, <1>5, <1>9, <2>1
  <2>2. DecidedOnce(h)
    BY DEF HistoryInv
  <2>3. \A i, j \in 1..n : 1 < i /\ i < j =>
          /\ g[i].request = g[j].request =>
                g[i].kind = "request_retained" /\ g[j].kind = "transition_recorded"
          /\ {g[i].kind, g[j].kind} \subseteq {"request_retained", "preflight_rejected"} =>
                g[i].request.idempotency # g[j].request.idempotency
    BY <1>3, <2>2 DEF DecidedOnce
  <2> QED
    BY <1>3, <2>1, <2>3 DEF DecidedOnce
<1>11. BoundToOccurrence(g)
  <2>1. BoundToOccurrence(h)
    BY DEF HistoryInv
  <2>2. ASSUME NEW j \in 1..n, h[j].kind = "transition_recorded"
        PROVE  j > 1 /\ g[j] = h[j] /\ g[j - 1] = h[j - 1] /\ \A i \in 1..j - 1 : g[i] = h[i]
    <3>1. j # 1
      BY <1>3, <2>2 DEF HistoryInv
    <3> QED
      BY <1>3, <3>1
  <2>3. g[n] = Newest(h) /\ (n + 1) - 1 = n
    BY <1>2, <1>3 DEF Newest
  <2>4. e.occurrence.state = Newest(h).state
    <3>1. h[r].occurrence.state = h[r].state /\ h[r].state = Newest(h).state
      BY <1>3, <1>5, <1>6 DEF HistoryInv, EventInv, RequestKinds
    <3> QED
      BY <1>5, <3>1
  <2>5. /\ \E i \in 1..n : /\ g[i].kind = "request_retained"
                           /\ g[i].request = e.request
                           /\ g[i].occurrence = e.occurrence
        /\ e.occurrence.state = g[n].state
        /\ e.state # g[n].state =>
              /\ e.evidence.outcome.kind = "applied"
              /\ e.state.predecessor = {g[n].state}
    BY <1>3, <1>4, <1>5, <2>3, <2>4 DEF ProposedTransition
  <2>6. \A j \in 1..n : g[j].kind = "transition_recorded" =>
          /\ \E i \in 1..j - 1 :
                /\ g[i].kind = "request_retained"
                /\ g[i].request = g[j].request
                /\ g[i].occurrence = g[j].occurrence
          /\ g[j].occurrence.state = g[j - 1].state
          /\ g[j].state # g[j - 1].state =>
                /\ g[j].evidence.outcome.kind = "applied"
                /\ g[j].state.predecessor = {g[j - 1].state}
    BY <1>3, <2>1, <2>2 DEF BoundToOccurrence
  <2> QED
    BY <1>3, <2>3, <2>5, <2>6 DEF BoundToOccurrence
<1>12. OneOpen(g)
  BY <1>7 DEF OneOpen
<1>13. Len(g) <= MaxEvents + 1
  BY <1>3, RuntimeAssumption
<1> QED
  BY <1>1, <1>3, <1>7, <1>8, <1>10, <1>11, <1>12, <1>13 DEF HistoryInv

\* What was decided on a history may be appended to it.
LEMMA HistoryExtends ==
    ASSUME NEW h, HistoryInv(h), NEW operation, NEW subject, NEW e,
           Proposed(h, operation, subject, e)
    PROVE  HistoryInv(Append(h, e))
  BY HistoryBegins, RequestExtends, TransitionExtends DEF Proposed, ProposedStart

-----------------------------------------------------------------------------
(* What the operations decide.                                             *)

\* The aggregates that callers hold can be taken a successor of.
LEMMA AggregatesAreWellMade ==
    ASSUME HistoryInv(log), NEW run \in Aggregates
    PROVE  WellMade(run)
<1>1. CASE run \in Starts
  <2>1. run = StartedRun(run.key, run.definition, run.subject, run.state.references,
                         run.artifacts, run.decisions)
    BY <1>1, RuntimeAssumption
  <2>2. PICK state : state = InitialState(run.key, run.definition, run.subject,
                                          run.state.references)
    OBVIOUS
  <2>3. run = [key |-> run.key, definition |-> run.definition, subject |-> run.subject,
               state |-> state, revision |-> 0, status |-> "active",
               artifacts |-> run.artifacts, decisions |-> run.decisions]
    BY <2>1, <2>2 DEF StartedRun
  <2>4. run.state = state /\ run.revision = 0 /\ {"state", "revision"} \subseteq DOMAIN run
    BY <2>3
  <2>5. state.revision = 0
    BY <2>2 DEF InitialState
  <2> QED
    BY <2>4, <2>5 DEF WellMade
<1>2. CASE \E i \in DOMAIN log : /\ log[i].kind = "transition_recorded"
                                 /\ log[i].evidence.outcome.kind = "applied"
                                 /\ run = log[i].evidence.outcome.run
  BY <1>2 DEF HistoryInv, EventInv
<1> QED
  BY <1>1, <1>2 DEF Aggregates

\* Preflight finds nothing only in a request for the current state of a run
\* that has not ended.
LEMMA PreflightPasses ==
    ASSUME NEW run, NEW request, PreflightFindings(Definition, run, run.state, request) = {}
    PROVE  request.state = run.state /\ run.state.status \notin Terminal
<1>1. \A code \in PreflightCodes : code \notin PreflightFindings(Definition, run, run.state, request)
  OBVIOUS
<1>2. {"state_mismatch", "revision_conflict", "terminal_run"} \subseteq PreflightCodes
  BY DEF PreflightCodes
<1>3. request.state = run.state
  BY <1>1, <1>2 DEF PreflightFindings
<1>4. run.status = run.state.status
  BY <1>1, <1>2 DEF PreflightFindings
<1>5. run.status \notin Terminal
  BY <1>1, <1>2 DEF PreflightFindings
<1> QED
  BY <1>3, <1>4, <1>5

\* A request event that was decided on.
LEMMA RequestIsProposed ==
    ASSUME HistoryInv(log), NEW c \in Clients, NEW run \in Aggregates, NEW request,
           NEW kind \in RequestKinds, NEW evidence, Unknown(c, run, request),
           kind # "request_conflict_recorded" =>
              Owners(log, request.idempotency) = {} /\ Active(log, run.revision) = {},
           kind = "request_retained" =>
              request.state = run.state /\ run.state.status \notin Terminal
    PROVE  Proposed(log, "retain", request, RequestEvent(kind, run, request, evidence))
<1>1. PICK e : e = RequestEvent(kind, run, request, evidence)
  OBVIOUS
<1>2. /\ e.kind = kind /\ e.revision = run.revision /\ e.state = run.state
      /\ e.occurrence.state = run.state /\ e.occurrence.request = request
      /\ e.request = request
  <2>1. PICK o : o = [state |-> run.state, revision |-> run.revision, request |-> request]
    OBVIOUS
  <2>2. o.state = run.state /\ o.request = request
    BY <2>1
  <2>3. e = [kind |-> kind, revision |-> run.revision, state |-> run.state,
             occurrence |-> o, request |-> request, evidence |-> evidence]
    BY <1>1, <2>1 DEF RequestEvent, Event, Occurrence
  <2> QED
    BY <2>2, <2>3
<1>3. WellMade(run)
  BY AggregatesAreWellMade
<1>4. EventInv(e)
  BY <1>2, <1>3 DEF EventInv, EventKinds, RequestKinds, WellMade
<1>5. ProposedRequest(log, request, e)
  BY <1>2, <1>4 DEF ProposedRequest, Unknown, AtHead
<1>6. Len(log) \in 1..MaxEvents
  BY DEF Unknown, Loaded
<1> QED
  BY <1>1, <1>5, <1>6 DEF Proposed

\* The processor's outcome, recorded.
LEMMA TransitionIsProposed ==
    ASSUME HistoryInv(log), NEW c \in Clients, NEW run \in Aggregates, NEW request, NEW report,
           Outstanding(c, request), AtHead(run), NEW outcome, NEW after, NEW e,
           outcome = Execute(TransitionInput(run, request, report)),
           after = IF outcome.kind = "applied" THEN outcome.run ELSE run,
           e = Event("transition_recorded", after.revision, after.state,
                     First(log, EventsOf(log, request, {"request_retained"})).occurrence,
                     request, [outcome |-> outcome])
    PROVE  Proposed(log, "transition", request, e)
<1>1. WellMade(run) /\ run.state = Newest(log).state
  BY AggregatesAreWellMade DEF AtHead
<1>2. outcome.kind = "applied" =>
        /\ WellMade(outcome.run)
        /\ outcome.run.state.predecessor = {run.state}
        /\ outcome.run.state.revision = run.state.revision + 1
  <2> SUFFICES ASSUME outcome.kind = "applied"
               PROVE  /\ WellMade(outcome.run)
                      /\ outcome.run.state.predecessor = {run.state}
                      /\ outcome.run.state.revision = run.state.revision + 1
    OBVIOUS
  <2>1. PICK i : i = TransitionInput(run, request, report)
    OBVIOUS
  <2>2. i.run = run /\ i.prior = run.state
    BY <2>1 DEF TransitionInput
  <2>3. outcome.run = SuccessorRun(i)
    BY <2>1 DEF Execute
  <2>4. PICK state : state = SuccessorState(i)
    OBVIOUS
  <2>5. outcome.run = [run EXCEPT !.state     = state,
                                  !.revision  = run.revision + 1,
                                  !.status    = i.evidence.status,
                                  !.artifacts = MergedArtifacts(i),
                                  !.decisions = MergedDecisions(i)]
    BY <2>2, <2>3, <2>4 DEF SuccessorRun
  <2>6. PICK artifacts, decisions, status :
           outcome.run = [run EXCEPT !.state     = state,
                                     !.revision  = run.revision + 1,
                                     !.status    = status,
                                     !.artifacts = artifacts,
                                     !.decisions = decisions]
    BY <2>5
  <2>7. /\ {"state", "revision"} \subseteq DOMAIN outcome.run
        /\ outcome.run.state = state /\ outcome.run.revision = run.revision + 1
    BY <1>1, <2>6 DEF WellMade
  <2>8. state.revision = run.revision + 1 /\ state.predecessor = {run.state}
    BY <2>2, <2>4 DEF SuccessorState
  <2> QED
    BY <1>1, <2>7, <2>8 DEF WellMade
<1>3. after.state.revision = after.revision
  BY <1>1, <1>2 DEF WellMade
<1>4. PICK r \in EventsOf(log, request, {"request_retained"}) :
         First(log, EventsOf(log, request, {"request_retained"})) = log[r]
  <2>1. PICK r : r \in EventsOf(log, request, {"request_retained"})
    BY DEF Outstanding
  <2>2. EventsOf(log, request, {"request_retained"}) = {r}
    BY <2>1, RetainedIsOnce DEF EventsOf, RequestKinds
  <2>3. r \in Nat
    BY <2>1, AppendFacts DEF EventsOf, HistoryInv
  <2> QED
    BY <2>2, <2>3 DEF First
<1>5. PICK occurrence : occurrence = log[r].occurrence
  OBVIOUS
<1>6. /\ e.kind = "transition_recorded" /\ e.revision = after.revision /\ e.state = after.state
      /\ e.occurrence = occurrence /\ e.request = request
      /\ e.evidence.outcome = outcome
  <2>1. PICK evidence : evidence = [outcome |-> outcome] /\ evidence.outcome = outcome
    OBVIOUS
  <2>2. e = [kind |-> "transition_recorded", revision |-> after.revision, state |-> after.state,
             occurrence |-> occurrence, request |-> request, evidence |-> evidence]
    BY <1>4, <1>5, <2>1 DEF Event
  <2> QED
    BY <2>1, <2>2
<1>7. occurrence.request = request
  BY <1>4, <1>5 DEF EventsOf, HistoryInv, EventInv
<1>8. EventInv(e)
  BY <1>2, <1>3, <1>6, <1>7 DEF EventInv, EventKinds, RequestKinds
<1>9. e.state # Newest(log).state =>
         /\ outcome.kind = "applied"
         /\ e.state.predecessor = {Newest(log).state}
         /\ e.state.revision = Newest(log).state.revision + 1
  BY <1>1, <1>2, <1>6
<1>10. ProposedTransition(log, request, e)
  BY <1>4, <1>5, <1>6, <1>8, <1>9 DEF ProposedTransition, Outstanding
<1>11. Len(log) \in 1..MaxEvents
  BY DEF Outstanding, Loaded
<1> QED
  BY <1>10, <1>11 DEF Proposed

-----------------------------------------------------------------------------
(* The invariant is inductive.                                             *)

\* A caller that decides, returns or dies changes its own frame alone.
LEMMA OneCallerMoves ==
    ASSUME IInv, NEW c \in Clients, NEW q, CallerInv(q), ops' = [ops EXCEPT ![c] = q],
           HistoryInv(log')
    PROVE  IInv'
<1>1. DOMAIN ops' = Clients
  BY DEF IInv
<1>2. ASSUME NEW d \in Clients
      PROVE  CallerInv(ops'[d])
  BY <1>2 DEF IInv
<1> QED
  BY <1>1, <1>2 DEF IInv

LEMMA ProposeKeeps ==
    ASSUME IInv, NEW c \in Clients, NEW operation, NEW subject, NEW e,
           Propose(c, operation, subject, e), Proposed(log, operation, subject, e)
    PROVE  IInv'
<1>1. PICK q : q = [phase     |-> "append",
                    operation |-> operation,
                    subject   |-> subject,
                    history   |-> log,
                    event     |-> e]
  OBVIOUS
<1>2. /\ q.phase = "append" /\ q.operation = operation /\ q.subject = subject
      /\ q.history = log /\ q.event = e
  BY <1>1
<1>3. CallerInv(q)
  BY <1>2 DEF CallerInv
<1>4. ops' = [ops EXCEPT ![c] = q] /\ HistoryInv(log')
  BY <1>1 DEF Propose, IInv
<1> QED
  BY <1>3, <1>4, OneCallerMoves

\* Who returns or dies holds nothing.
LEMMA ReturnKeeps ==
    ASSUME IInv, NEW c \in Clients, Return(c), HistoryInv(log')
    PROVE  IInv'
<1>1. CallerInv(Idle)
  BY DEF CallerInv
<1> QED
  BY <1>1, OneCallerMoves DEF Return

\* Compare-and-append appends to the history that was decided on.
LEMMA ExtendsWhatWasLoaded ==
    ASSUME IInv, NEW c \in Clients, ops[c] # Idle, Extend(c)
    PROVE  /\ log' = Append(log, ops[c].event)
           /\ Proposed(log, ops[c].operation, ops[c].subject, ops[c].event)
           /\ HistoryInv(log')
<1>1. PICK q : q = ops[c]
  OBVIOUS
<1>2. PICK x : x = Pending(c)
  OBVIOUS
<1>3. x.stream = "run" /\ x.predecessor = q.history
  BY <1>1, <1>2 DEF Pending, Envelope
<1>4. Heads[x.stream] = x.predecessor
  BY <1>2 DEF Extend, Store!Appends, Store!HeadMoved
<1>5. q.history = log
  BY <1>3, <1>4 DEF Heads
<1>6. Proposed(q.history, q.operation, q.subject, q.event)
  BY <1>1 DEF IInv, CallerInv
<1>7. log' = Append(log, q.event)
  BY <1>1, <1>5 DEF Extend
<1>8. HistoryInv(Append(log, q.event))
  BY <1>5, <1>6, HistoryExtends DEF IInv
<1> QED
  BY <1>1, <1>5, <1>6, <1>7, <1>8

LEMMA CallKeeps ==
    ASSUME IInv, NEW c \in Clients, Call(c)
    PROVE  IInv'
<1>1. CASE UNCHANGED <<log, ops>>
  BY <1>1 DEF IInv
<1>2. ASSUME NEW started \in Starts, Start(c, started), ~ UNCHANGED <<log, ops>>
      PROVE  IInv'
  <2>1. log = <<>> /\ Propose(c, "start", started, GenesisEvent(started))
    BY <1>2 DEF Start, Absent, ReplyFromHistory
  <2>2. PICK e : e = GenesisEvent(started)
    OBVIOUS
  <2>3. Proposed(log, "start", started, e)
    BY <2>1, <2>2 DEF Proposed, ProposedStart
  <2> QED
    BY <2>1, <2>2, <2>3, ProposeKeeps
<1>3. ASSUME NEW request, RetainRequest(c, request), ~ UNCHANGED <<log, ops>>
      PROVE  IInv'
  <2>1. PICK run \in Aggregates : \/ RetainCollision(c, run, request)
                                  \/ RetainReserved(c, run, request)
                                  \/ RetainValidated(c, run, request)
    BY <1>3 DEF RetainRequest, RetainElsewhere, RetainKept, ReplyFromHistory
  <2>2. PICK kind, evidence :
           /\ kind \in RequestKinds
           /\ Unknown(c, run, request)
           /\ kind # "request_conflict_recorded" =>
                 Owners(log, request.idempotency) = {} /\ Active(log, run.revision) = {}
           /\ kind = "request_retained" =>
                 request.state = run.state /\ run.state.status \notin Terminal
           /\ Propose(c, "retain", request, RequestEvent(kind, run, request, evidence))
    <3>1. CASE RetainCollision(c, run, request) \/ RetainReserved(c, run, request)
      BY <3>1 DEF RetainCollision, RetainReserved, RequestKinds
    <3>2. CASE RetainValidated(c, run, request)
      <4>1. PreflightFindings(Definition, run, run.state, request) = {} =>
               request.state = run.state /\ run.state.status \notin Terminal
        BY PreflightPasses
      <4> QED
        BY <3>2, <4>1 DEF RetainValidated, RequestKinds
    <3> QED
      BY <2>1, <3>1, <3>2
  <2>3. PICK e : e = RequestEvent(kind, run, request, evidence)
    OBVIOUS
  <2>4. Proposed(log, "retain", request, e)
    BY <2>2, <2>3, RequestIsProposed DEF IInv
  <2> QED
    BY <2>2, <2>3, <2>4, ProposeKeeps
<1>4. ASSUME NEW request, RecordTransition(c, request), ~ UNCHANGED <<log, ops>>
      PROVE  IInv'
  <2>1. PICK run \in Aggregates, report \in Reports : TransitionProcessed(c, run, request, report)
    BY <1>4 DEF RecordTransition, TransitionUnreserved, TransitionKept, TransitionElsewhere,
                ReplyFromHistory
  <2>2. PICK outcome : outcome = Execute(TransitionInput(run, request, report))
    OBVIOUS
  <2>3. PICK after : after = IF outcome.kind = "applied" THEN outcome.run ELSE run
    OBVIOUS
  <2>4. PICK e : e = Event("transition_recorded", after.revision, after.state,
                           First(log, EventsOf(log, request, {"request_retained"})).occurrence,
                           request, [outcome |-> outcome])
    OBVIOUS
  <2>5. /\ Outstanding(c, request) /\ AtHead(run)
        /\ Propose(c, "transition", request, e)
    BY <2>1, <2>2, <2>3, <2>4 DEF TransitionProcessed
  <2>6. Proposed(log, "transition", request, e)
    BY <2>2, <2>3, <2>4, <2>5, TransitionIsProposed DEF IInv
  <2> QED
    BY <2>5, <2>6, ProposeKeeps
<1>5. ASSUME NEW operation, LoadFails(c, operation)
      PROVE  UNCHANGED <<log, ops>>
  BY <1>5 DEF LoadFails
<1> QED
  BY <1>1, <1>2, <1>3, <1>4, <1>5 DEF Call

LEMMA AppendKeeps ==
    ASSUME IInv, NEW c \in Clients,
           AppendCommits(c) \/ AppendReplays(c) \/ AppendLoses(c) \/ AppendFails(c) \/ Crash(c)
    PROVE  IInv'
<1>1. ops[c] # Idle /\ Return(c) /\ (Extend(c) \/ UNCHANGED log)
  BY DEF AppendCommits, AppendReplays, AppendLoses, AppendFails, Crash, Answered
<1>2. HistoryInv(log')
  BY <1>1, ExtendsWhatWasLoaded DEF IInv
<1> QED
  BY <1>1, <1>2, ReturnKeeps

LEMMA InitInvariant == Init => IInv
<1> SUFFICES ASSUME Init
             PROVE  IInv
  OBVIOUS
<1>1. PICK h : h = <<>> /\ h = log
  BY DEF Init
<1>2. Len(h) = 0 /\ DOMAIN h = {} /\ IsHistory(h)
  BY <1>1 DEF IsHistory
<1>3. HistoryInv(h)
  BY <1>2, RuntimeAssumption DEF HistoryInv, OneOpen, DecidedOnce, BoundToOccurrence
<1>4. \A c \in Clients : CallerInv(ops[c])
  BY DEF Init, CallerInv
<1> QED
  BY <1>1, <1>3, <1>4 DEF Init, IInv

LEMMA NextKeeps == IInv /\ [Next]_vars => IInv'
<1> SUFFICES ASSUME IInv, [Next]_vars
             PROVE  IInv'
  OBVIOUS
<1>1. CASE UNCHANGED vars
  BY <1>1 DEF IInv, vars
<1> QED
  BY <1>1, CallKeeps, AppendKeeps DEF Next

THEOREM Invariance == Spec => []IInv
  BY InitInvariant, NextKeeps, PTL DEF Spec

-----------------------------------------------------------------------------
(* What follows from it.                                                   *)

\* At most one retained request is outstanding.
THEOREM ReservationsExclude == Spec => []ReservationExclusive
<1>1. IInv => ReservationExclusive
  BY DEF IInv, HistoryInv, ReservationExclusive
<1> QED
  BY <1>1, Invariance, PTL

\* No request is decided twice, and no two own one idempotency identity.
THEOREM RequestsAreDecidedOnce == Spec => []RequestDecidedOnce
<1>1. IInv => RequestDecidedOnce
  BY DEF IInv, HistoryInv, RequestDecidedOnce
<1> QED
  BY <1>1, Invariance, PTL

\* A transition starts from the state that its occurrence reserved.
THEOREM OccurrencesBindTransitions == Spec => []OccurrenceBindsTransition
<1>1. IInv => OccurrenceBindsTransition
  BY DEF IInv, HistoryInv, OccurrenceBindsTransition
<1> QED
  BY <1>1, Invariance, PTL

-----------------------------------------------------------------------------
(* Answers.                                                                *)

\* An answer from a history: its event is in it and is the caller's own.
TrueOf(h, a) ==
    /\ a.status \in {"recorded", "idempotent", "rejected"} => \E i \in DOMAIN h : h[i] = a.event
    /\ a.event # None =>
          /\ \E i \in DOMAIN h : h[i] = a.event
          /\ IF a.operation = "start"
             THEN a.event = GenesisEvent(a.subject)
             ELSE a.event.request = a.subject

LEMMA ReplyIsTrue ==
    ASSUME NEW operation, NEW subject, NEW status, NEW event,
           Reply(operation, subject, status, event),
           \/ event = None /\ status \notin {"recorded", "idempotent", "rejected"}
           \/ /\ \E i \in DOMAIN log' : log'[i] = event
              /\ IF operation = "start" THEN event = GenesisEvent(subject)
                                        ELSE event.request = subject
    PROVE  AnswerTellsTruth'
<1>1. PICK a : a = [operation |-> operation, subject |-> subject, status |-> status, event |-> event]
  OBVIOUS
<1>2. a.operation = operation /\ a.subject = subject /\ a.status = status /\ a.event = event
  BY <1>1
<1>3. PICK h : h = log'
  OBVIOUS
<1>4. TrueOf(h, a)
  BY <1>2, <1>3 DEF TrueOf
<1>5. answer' = a
  BY <1>1 DEF Reply
<1> QED
  BY <1>3, <1>4, <1>5 DEF AnswerTellsTruth, TrueOf

\* The event of a request that was looked up is in the history.
LEMMA FirstIsOne ==
    ASSUME HistoryInv(log), NEW request, NEW kinds,
           kinds \subseteq RequestKinds \/ kinds = {"transition_recorded"},
           EventsOf(log, request, kinds) # {}
    PROVE  \E i \in DOMAIN log : /\ First(log, EventsOf(log, request, kinds)) = log[i]
                                 /\ log[i].request = request
                                 /\ log[i].kind \in kinds
<1>1. PICK r : r \in EventsOf(log, request, kinds)
  OBVIOUS
<1>2. DOMAIN log \subseteq Nat /\ r \in DOMAIN log
      /\ \A i \in DOMAIN log : i >= 1 /\ (i # 1 <=> log[i].kind # "run_started")
  <2>1. Extended(log, None, Append(log, None))
    BY AppendFacts DEF HistoryInv
  <2> QED
    BY <1>1, <2>1 DEF EventsOf, HistoryInv, Extended
<1>3. \A i \in EventsOf(log, request, kinds) : i = r
  <2>1. ASSUME NEW i \in EventsOf(log, request, kinds)
        PROVE  i = r
    <3>1. CASE kinds \subseteq RequestKinds
      BY <1>1, <2>1, <3>1, RetainedIsOnce DEF EventsOf
    <3>2. CASE kinds = {"transition_recorded"}
      <4>1. /\ i > 1 /\ r > 1 /\ i \in Nat /\ r \in Nat
            /\ i \in DOMAIN log /\ r \in DOMAIN log
            /\ log[i].kind = "transition_recorded" /\ log[r].kind = "transition_recorded"
            /\ log[i].request = log[r].request
        BY <1>1, <1>2, <2>1, <3>2 DEF EventsOf
      <4>2. DecidedOnce(log)
        BY DEF HistoryInv
      <4>3. ~ (i < r) /\ ~ (r < i)
        BY <4>1, <4>2 DEF DecidedOnce
      <4> QED
        BY <4>1, <4>3
    <3> QED
      BY <3>1, <3>2
  <2> QED
    BY <2>1
<1>4. EventsOf(log, request, kinds) = {r}
  BY <1>1, <1>3
<1> QED
  BY <1>1, <1>2, <1>4 DEF First, EventsOf

\* Every step answers truly or not at all.
LEMMA AnswersAreTrue ==
    ASSUME IInv, AnswerTellsTruth, [Next]_vars
    PROVE  AnswerTellsTruth'
<1>1. CASE UNCHANGED vars
  BY <1>1 DEF vars, AnswerTellsTruth
<1>2. CASE answer' = None
  BY <1>2 DEF AnswerTellsTruth
<1>3. ASSUME NEW operation, NEW subject, NEW status \in {"conflict", "error", "indeterminate"},
             Reply(operation, subject, status, None)
      PROVE  AnswerTellsTruth'
  BY <1>3, ReplyIsTrue
<1>4. ASSUME NEW c \in Clients, NEW operation, LoadFails(c, operation)
      PROVE  AnswerTellsTruth'
  BY <1>3, <1>4 DEF LoadFails, Fails
<1>5. ASSUME NEW c \in Clients, NEW started \in Starts, Start(c, started)
      PROVE  AnswerTellsTruth'
  <2>1. CASE Propose(c, "start", started, GenesisEvent(started))
    BY <1>2, <2>1 DEF Propose
  <2>2. CASE ReplyFromHistory("start", started, "conflict", None)
    BY <1>3, <2>2 DEF ReplyFromHistory
  <2>3. CASE /\ Loaded(c) /\ log[1] = GenesisEvent(started)
             /\ ReplyFromHistory("start", started, "idempotent", log[1])
    <3>1. Extended(log, None, Append(log, None))
      BY AppendFacts DEF IInv, HistoryInv
    <3>2. 1 \in DOMAIN log
      BY <2>3, <3>1, RuntimeAssumption DEF Loaded, Extended
    <3>3. log' = log
      BY <2>3 DEF ReplyFromHistory
    <3>4. PICK event : event = log[1]
      OBVIOUS
    <3> QED
      BY <2>3, <3>2, <3>3, <3>4, ReplyIsTrue DEF ReplyFromHistory
  <2> QED
    BY <1>5, <2>1, <2>2, <2>3 DEF Start
<1>6. ASSUME NEW request, NEW kinds, EventsOf(log, request, kinds) # {}, NEW status,
             kinds \subseteq RequestKinds \/ kinds = {"transition_recorded"},
             NEW operation, operation # "start",
             ReplyFromHistory(operation, request, status, First(log, EventsOf(log, request, kinds)))
      PROVE  AnswerTellsTruth'
  <2>1. PICK i \in DOMAIN log : /\ First(log, EventsOf(log, request, kinds)) = log[i]
                                /\ log[i].request = request
    BY <1>6, FirstIsOne DEF IInv
  <2>2. log' = log
    BY <1>6 DEF ReplyFromHistory
  <2>3. PICK event : event = log[i]
    OBVIOUS
  <2> QED
    BY <1>6, <2>1, <2>2, <2>3, ReplyIsTrue DEF ReplyFromHistory
<1>7. ASSUME NEW c \in Clients, NEW request, RetainRequest(c, request)
      PROVE  AnswerTellsTruth'
  <2>1. PICK run \in Aggregates :
           \/ RetainElsewhere(c, run, request)
           \/ RetainKept(c, run, request)
           \/ RetainCollision(c, run, request)
           \/ RetainReserved(c, run, request)
           \/ RetainValidated(c, run, request)
    BY <1>7 DEF RetainRequest
  <2>2. CASE RetainElsewhere(c, run, request)
    BY <1>3, <2>2 DEF RetainElsewhere, ReplyFromHistory
  <2>3. CASE RetainKept(c, run, request)
    BY <1>6, <2>3 DEF RetainKept
  <2>4. CASE \/ RetainCollision(c, run, request) \/ RetainReserved(c, run, request)
             \/ RetainValidated(c, run, request)
    BY <1>2, <2>4 DEF RetainCollision, RetainReserved, RetainValidated, Propose
  <2> QED
    BY <2>1, <2>2, <2>3, <2>4
<1>8. ASSUME NEW c \in Clients, NEW request, RecordTransition(c, request)
      PROVE  AnswerTellsTruth'
  <2>1. CASE TransitionUnreserved(c, request)
    BY <1>3, <2>1 DEF TransitionUnreserved, ReplyFromHistory
  <2>2. CASE TransitionKept(c, request)
    BY <1>6, <2>2 DEF TransitionKept
  <2>3. ASSUME NEW run \in Aggregates, TransitionElsewhere(c, run, request)
        PROVE  AnswerTellsTruth'
    BY <1>3, <2>3 DEF TransitionElsewhere, ReplyFromHistory
  <2>4. ASSUME NEW run, NEW report, TransitionProcessed(c, run, request, report)
        PROVE  AnswerTellsTruth'
    BY <1>2, <2>4 DEF TransitionProcessed, Propose
  <2> QED
    BY <1>8, <2>1, <2>2, <2>3, <2>4 DEF RecordTransition
<1>9. ASSUME NEW c \in Clients, ops[c] # Idle
      PROVE  /\ IF ops[c].operation = "start"
                THEN ops[c].event = GenesisEvent(ops[c].subject)
                ELSE ops[c].event.request = ops[c].subject
             /\ Extend(c) => \E i \in DOMAIN log' : log'[i] = ops[c].event
  <2>1. PICK q : q = ops[c]
    OBVIOUS
  <2>2. Proposed(q.history, q.operation, q.subject, q.event)
    BY <1>9, <2>1 DEF IInv, CallerInv
  <2>3. IF q.operation = "start" THEN q.event = GenesisEvent(q.subject)
                                 ELSE q.event.request = q.subject
    BY <2>2 DEF Proposed, ProposedStart, ProposedRequest, ProposedTransition
  <2>4. ASSUME Extend(c)
        PROVE  \E i \in DOMAIN log' : log'[i] = q.event
    <3>1. log' = Append(log, q.event)
      BY <1>9, <2>1, <2>4, ExtendsWhatWasLoaded
    <3>2. Extended(log, q.event, log')
      BY <3>1, AppendFacts DEF IInv, HistoryInv
    <3> QED
      BY <3>2 DEF Extended
  <2> QED
    BY <2>1, <2>3, <2>4
<1>10. ASSUME NEW c \in Clients, AppendCommits(c)
       PROVE  AnswerTellsTruth'
  <2>1. CASE Fails("indeterminate")
    BY <1>3, <2>1 DEF Fails
  <2>2. CASE Answered(c, StatusOfRecorded(ops[c].event.kind), ops[c].event)
    BY <1>9, <1>10, <2>2, ReplyIsTrue DEF AppendCommits, Answered
  <2> QED
    BY <1>10, <2>1, <2>2 DEF AppendCommits
<1>11. ASSUME NEW c \in Clients, AppendReplays(c)
       PROVE  AnswerTellsTruth'
  <2>1. PICK x : x = Pending(c) /\ x \in Rows /\ x.content = ops[c].event
    BY <1>11 DEF AppendReplays, Store!Replays, Pending, Envelope
  <2>2. PICK i \in DOMAIN log : x = Envelope(SubSeq(log, 1, i - 1), log[i])
    BY <2>1 DEF Rows
  <2>3. log[i] = ops[c].event
    BY <2>1, <2>2 DEF Envelope
  <2> QED
    BY <1>9, <1>11, <2>3, ReplyIsTrue DEF AppendReplays, Answered
<1>12. ASSUME NEW c \in Clients, AppendLoses(c) \/ AppendFails(c) \/ Crash(c)
       PROVE  AnswerTellsTruth'
  BY <1>2, <1>3, <1>12 DEF AppendLoses, AppendFails, Crash, Answered, Fails
<1> QED
  BY <1>1, <1>4, <1>5, <1>7, <1>8, <1>10, <1>11, <1>12 DEF Next, Call

\* What callers are told is in the history, and is theirs.
THEOREM AnswersTellTruth == Spec => []AnswerTellsTruth
<1>1. Init => AnswerTellsTruth
  BY DEF Init, AnswerTellsTruth
<1>2. IInv /\ AnswerTellsTruth /\ [Next]_vars => AnswerTellsTruth'
  BY AnswersAreTrue
<1> QED
  BY <1>1, <1>2, Invariance, PTL DEF Spec

-----------------------------------------------------------------------------
(* The runtime implements the reservation of a run.  What the promise sees *)
(* of a history changes only when an event is appended, and how it changes *)
(* follows from what was decided on the history the event extends.         *)

StateSeen(h)   == {h[i].state : i \in {j \in DOMAIN h : j = Len(h)}}
HolderSeen(h)  == {h[i].request : i \in {j \in DOMAIN h : Open(h, j)}}
SettledSeen(h) == {h[i].request : i \in {j \in DOMAIN h : h[j].kind \in RequestKinds}}

\* The core state seen is that of the newest event.
LEMMA NewestIsSeen ==
    ASSUME NEW h, IsHistory(h), Len(h) >= 1
    PROVE  StateSeen(h) = {Newest(h).state}
<1>1. Len(h) \in Nat /\ DOMAIN h = 1..Len(h)
  BY AppendFacts DEF Extended
<1>2. {j \in DOMAIN h : j = Len(h)} = {Len(h)}
  BY <1>1
<1> QED
  BY <1>2 DEF StateSeen, Newest

\* Of no history nothing is seen.
LEMMA NothingIsSeen ==
    ASSUME NEW h, DOMAIN h = {}
    PROVE  StateSeen(h) = {} /\ HolderSeen(h) = {} /\ SettledSeen(h) = {}
  BY DEF StateSeen, HolderSeen, SettledSeen

\* An event settles the request it is about, unless it completes one.
LEMMA SettledGrows ==
    ASSUME NEW h, IsHistory(h), NEW e, NEW g, g = Append(h, e)
    PROVE  SettledSeen(g) = SettledSeen(h) \cup (IF e.kind \in RequestKinds THEN {e.request} ELSE {})
<1>1. Extended(h, e, g)
  BY AppendFacts
<1>2. /\ DOMAIN g = DOMAIN h \cup {Len(h) + 1} /\ Len(h) + 1 \notin DOMAIN h
      /\ \A i \in DOMAIN h : g[i] = h[i]
      /\ g[Len(h) + 1] = e
  BY <1>1 DEF Extended
<1>3. ASSUME NEW r
      PROVE  r \in SettledSeen(g) <=> \/ r \in SettledSeen(h)
                                      \/ e.kind \in RequestKinds /\ r = e.request
  BY <1>2 DEF SettledSeen
<1> QED
  BY <1>3

\* What holds the run after an event that completes nothing.
LEMMA HolderStays ==
    ASSUME NEW h, IsHistory(h), NEW e, NEW g, g = Append(h, e), e.kind # "transition_recorded"
    PROVE  HolderSeen(g) = HolderSeen(h) \cup (IF e.kind = "request_retained" THEN {e.request} ELSE {})
<1>1. Extended(h, e, g)
  BY AppendFacts
<1>2. /\ DOMAIN g = DOMAIN h \cup {Len(h) + 1} /\ Len(h) + 1 \notin DOMAIN h
      /\ \A i \in DOMAIN h : g[i] = h[i]
      /\ g[Len(h) + 1] = e
  BY <1>1 DEF Extended
<1>3. \A i \in DOMAIN h : Open(g, i) <=> Open(h, i)
  BY OpenAfter
<1>4. Open(g, Len(h) + 1) <=> e.kind = "request_retained"
  BY NewestOpen
<1>5. ASSUME NEW r
      PROVE  r \in HolderSeen(g) <=> \/ r \in HolderSeen(h)
                                     \/ e.kind = "request_retained" /\ r = e.request
  BY <1>2, <1>3, <1>4 DEF HolderSeen
<1> QED
  BY <1>5

\* A request is decided on at a state that nobody holds, if it is retained.
LEMMA RetainedWhenFree ==
    ASSUME NEW h, HistoryInv(h), NEW subject, NEW e, ProposedRequest(h, subject, e)
    PROVE  /\ subject \notin SettledSeen(h)
           /\ e.kind = "request_retained" => HolderSeen(h) = {}
<1>1. subject \notin SettledSeen(h)
  BY DEF ProposedRequest, SettledSeen, EventsOf
<1>2. ASSUME e.kind = "request_retained", NEW i \in DOMAIN h, Open(h, i)
      PROVE  FALSE
  <2>1. h[i].state = Newest(h).state /\ EventInv(h[i])
    BY <1>2 DEF HistoryInv
  <2>2. h[i].revision = e.revision
    BY <2>1 DEF EventInv, ProposedRequest
  <2> QED
    BY <1>2, <2>2 DEF ProposedRequest, Active
<1> QED
  BY <1>1, <1>2 DEF HolderSeen

\* A transition completes the one request that holds the run.
LEMMA CompletesTheHolder ==
    ASSUME NEW h, HistoryInv(h), NEW subject, NEW e, ProposedTransition(h, subject, e),
           NEW g, g = Append(h, e)
    PROVE  HolderSeen(h) # {} /\ HolderSeen(g) = {}
<1>1. IsHistory(h)
  BY DEF HistoryInv
<1>2. PICK r \in DOMAIN h : /\ h[r].kind = "request_retained" /\ h[r].request = subject
                            /\ e.occurrence = h[r].occurrence
  BY DEF ProposedTransition, EventsOf
<1>3. Open(h, r)
  <2>1. Len(h) \in Nat /\ DOMAIN h = 1..Len(h) /\ r \in Nat
    BY <1>1, <1>2, AppendFacts DEF Extended
  <2>2. ASSUME NEW j \in r + 1..Len(h), h[j].kind = "transition_recorded",
               h[j].occurrence = h[r].occurrence
        PROVE  FALSE
    <3>1. j \in DOMAIN h
      BY <2>1, <2>2
    <3>2. EventInv(h[j]) /\ EventInv(h[r])
      BY <1>2, <3>1 DEF HistoryInv
    <3>3. h[j].request = subject
      BY <1>2, <2>2, <3>2 DEF EventInv
    <3> QED
      BY <2>2, <3>1, <3>3 DEF ProposedTransition, EventsOf
  <2> QED
    BY <1>2, <2>2 DEF Open
<1>4. \A i \in DOMAIN h : ~ Open(g, i)
  <2>1. \A i \in DOMAIN h : Open(h, i) => i = r
    BY <1>2, <1>3 DEF HistoryInv, OneOpen
  <2>2. e.kind = "transition_recorded"
    BY DEF ProposedTransition
  <2>3. ASSUME NEW i \in DOMAIN h
        PROVE  ~ Open(g, i)
    <3>1. Open(g, i) <=> /\ Open(h, i)
                         /\ ~ (e.kind = "transition_recorded" /\ e.occurrence = h[i].occurrence)
      BY <1>1, OpenAfter
    <3> QED
      BY <1>2, <2>1, <2>2, <3>1
  <2> QED
    BY <2>3
<1>5. ~ Open(g, Len(h) + 1)
  BY <1>1, NewestOpen DEF ProposedTransition
<1>6. DOMAIN g = DOMAIN h \cup {Len(h) + 1}
  BY <1>1, AppendFacts DEF Extended
<1> QED
  BY <1>2, <1>3, <1>4, <1>5, <1>6 DEF HolderSeen

\* What is seen of the log is what Ledger is instantiated with.
LEMMA LedgerSees ==
    /\ Ledger!Begin <=>
          /\ StateSeen(log) = {}
          /\ \E s \in StateSeen(log') : StateSeen(log') = {s} /\ s.revision = 0
          /\ HolderSeen(log') = HolderSeen(log) /\ SettledSeen(log') = SettledSeen(log)
    /\ Ledger!Reserve <=>
          /\ HolderSeen(log) = {}
          /\ \E s \in StateSeen(log), request \in HolderSeen(log') :
                /\ s.status \notin Terminal
                /\ request.state = s
                /\ request \notin SettledSeen(log)
                /\ HolderSeen(log') = {request}
                /\ SettledSeen(log') = SettledSeen(log) \cup {request}
          /\ StateSeen(log') = StateSeen(log)
    /\ Ledger!Refuse <=>
          /\ StateSeen(log) # {}
          /\ \E request \in SettledSeen(log') \ SettledSeen(log) :
                SettledSeen(log') = SettledSeen(log) \cup {request}
          /\ StateSeen(log') = StateSeen(log) /\ HolderSeen(log') = HolderSeen(log)
    /\ Ledger!Release <=>
          /\ HolderSeen(log) # {} /\ HolderSeen(log') = {}
          /\ \E s \in StateSeen(log), t \in StateSeen(log') :
                Ledger!Follows(s, t) /\ StateSeen(log') = {t}
          /\ SettledSeen(log') = SettledSeen(log)
  BY DEF Ledger!Begin, Ledger!Reserve, Ledger!Refuse, Ledger!Release,
         StateSeen, HolderSeen, SettledSeen, OpenOnes

\* An event that was decided on is a step of the promise.
LEMMA DecidedIsPromised ==
    ASSUME HistoryInv(log), NEW operation, NEW subject, NEW e, Proposed(log, operation, subject, e),
           log' = Append(log, e)
    PROVE  Ledger!Next
<1>1. PICK h : h = log
  OBVIOUS
<1>2. PICK g : g = log' /\ g = Append(h, e)
  BY <1>1
<1>3. IsHistory(h) /\ HistoryInv(h) /\ Proposed(h, operation, subject, e)
  BY <1>1 DEF HistoryInv
<1>4. Extended(h, e, g)
  BY <1>2, <1>3, AppendFacts
<1>5. IsHistory(g) /\ Len(g) >= 1 /\ Newest(g) = e
  BY <1>4 DEF Extended
<1>6. StateSeen(g) = {e.state}
  BY <1>5, NewestIsSeen
<1>7. CASE ProposedStart(h, subject, e)
  <2>1. h = <<>> /\ e = GenesisEvent(subject) /\ subject \in Starts
    BY <1>7 DEF ProposedStart
  <2>2. e.kind = "run_started" /\ e.state = subject.state
    BY <2>1 DEF GenesisEvent, Event
  <2>3. e.state.revision = 0
    <3>1. subject = StartedRun(subject.key, subject.definition, subject.subject,
                               subject.state.references, subject.artifacts, subject.decisions)
      BY <2>1, RuntimeAssumption
    <3>2. PICK state : state = InitialState(subject.key, subject.definition, subject.subject,
                                            subject.state.references)
      OBVIOUS
    <3>3. subject.state = state
      BY <3>1, <3>2 DEF StartedRun
    <3>4. state.revision = 0
      BY <3>2 DEF InitialState
    <3> QED
      BY <2>2, <3>3, <3>4
  <2>4. StateSeen(h) = {} /\ StateSeen(g) = {e.state}
    BY <1>6, <2>1, NothingIsSeen
  <2>5. HolderSeen(g) = HolderSeen(h) /\ SettledSeen(g) = SettledSeen(h)
    BY <1>2, <1>3, <2>2, HolderStays, SettledGrows DEF RequestKinds
  <2>6. Ledger!Begin
    BY <1>1, <1>2, <2>3, <2>4, <2>5, LedgerSees
  <2> QED
    BY <2>6 DEF Ledger!Next
<1>8. CASE Len(h) \in 1..MaxEvents /\ ProposedRequest(h, subject, e)
  <2>1. e.kind \in RequestKinds /\ e.request = subject /\ e.state = Newest(h).state
    BY <1>8 DEF ProposedRequest
  <2>2. Len(h) >= 1
    BY <1>8, RuntimeAssumption
  <2>3. StateSeen(h) = {Newest(h).state} /\ StateSeen(g) = StateSeen(h)
    BY <1>3, <1>6, <2>1, <2>2, NewestIsSeen
  <2>4. SettledSeen(g) = SettledSeen(h) \cup {subject} /\ subject \notin SettledSeen(h)
    BY <1>2, <1>3, <1>8, <2>1, SettledGrows, RetainedWhenFree
  <2>5. HolderSeen(g) = HolderSeen(h) \cup (IF e.kind = "request_retained" THEN {subject} ELSE {})
    BY <1>2, <1>3, <2>1, HolderStays DEF RequestKinds
  <2>6. CASE e.kind = "request_retained"
    <3>1. HolderSeen(h) = {} /\ HolderSeen(g) = {subject}
      BY <1>3, <1>8, <2>5, <2>6, RetainedWhenFree
    <3>2. subject.state = Newest(h).state /\ Newest(h).state.status \notin Terminal
      BY <1>8, <2>1, <2>6 DEF ProposedRequest
    <3>3. Ledger!Reserve
      BY <1>1, <1>2, <2>3, <2>4, <3>1, <3>2, LedgerSees
    <3> QED
      BY <3>3 DEF Ledger!Next
  <2>7. CASE e.kind # "request_retained"
    <3>1. HolderSeen(g) = HolderSeen(h)
      BY <2>5, <2>7
    <3>2. Ledger!Refuse
      BY <1>1, <1>2, <2>3, <2>4, <3>1, LedgerSees
    <3> QED
      BY <3>2 DEF Ledger!Next
  <2> QED
    BY <2>6, <2>7
<1>9. CASE Len(h) \in 1..MaxEvents /\ ProposedTransition(h, subject, e)
  <2>1. HolderSeen(h) # {} /\ HolderSeen(g) = {}
    BY <1>2, <1>3, <1>9, CompletesTheHolder
  <2>2. Len(h) >= 1
    BY <1>9, RuntimeAssumption
  <2>3. StateSeen(h) = {Newest(h).state} /\ StateSeen(g) = {e.state}
    BY <1>3, <1>6, <2>2, NewestIsSeen
  <2>4. SettledSeen(g) = SettledSeen(h)
    <3>1. e.kind \notin RequestKinds
      BY <1>9 DEF ProposedTransition, RequestKinds
    <3> QED
      BY <1>2, <1>3, <3>1, SettledGrows
  <2>5. Ledger!Follows(Newest(h).state, e.state)
    BY <1>9 DEF ProposedTransition, Ledger!Follows
  <2>6. Ledger!Release
    BY <1>1, <1>2, <2>1, <2>3, <2>4, <2>5, LedgerSees
  <2> QED
    BY <2>6 DEF Ledger!Next
<1> QED
  BY <1>3, <1>7, <1>8, <1>9 DEF Proposed

\* The runtime keeps the promise of one reservation at a time, however callers
\* race, fail and die: only what was decided on the history it extends is
\* appended, and that is one step of the promise; every other step is none.
THEOREM RuntimeKeepsPromise == Spec => ImplementsRunReservation
<1>1. Init => Ledger!Init
  <2> SUFFICES ASSUME Init
               PROVE  Ledger!Init
    OBVIOUS
  <2>1. DOMAIN log = {}
    BY DEF Init
  <2> QED
    BY <2>1 DEF Ledger!Init, OpenOnes
<1>2. IInv /\ [Next]_vars => [Ledger!Next]_Ledger!vars
  <2> SUFFICES ASSUME IInv, [Next]_vars
               PROVE  [Ledger!Next]_Ledger!vars
    OBVIOUS
  <2>1. CASE UNCHANGED log
    BY <2>1 DEF Ledger!vars, OpenOnes
  <2>2. ASSUME NEW c \in Clients, ops[c] # Idle, Extend(c)
        PROVE  Ledger!Next
    BY <2>2, ExtendsWhatWasLoaded, DecidedIsPromised DEF IInv
  <2>3. ASSUME NEW c \in Clients, Call(c)
        PROVE  UNCHANGED log
    <3>1. CASE \E operation \in {"start", "retain", "transition"} : LoadFails(c, operation)
      BY <3>1 DEF LoadFails
    <3>2. CASE \E started \in Starts : Start(c, started)
      BY <3>2 DEF Start, Propose, ReplyFromHistory
    <3>3. ASSUME NEW request \in Requests, RetainRequest(c, request)
          PROVE  UNCHANGED log
      BY <3>3 DEF RetainRequest, RetainElsewhere, RetainKept, RetainCollision, RetainReserved,
                  RetainValidated, Propose, ReplyFromHistory
    <3>4. ASSUME NEW request \in Requests, RecordTransition(c, request)
          PROVE  UNCHANGED log
      BY <3>4 DEF RecordTransition, TransitionUnreserved, TransitionKept, TransitionElsewhere,
                  TransitionProcessed, Propose, ReplyFromHistory
    <3> QED
      BY <2>3, <3>1, <3>2, <3>3, <3>4 DEF Call
  <2> QED
    BY <2>1, <2>2, <2>3
       DEF Next, vars, AppendCommits, AppendReplays, AppendLoses, AppendFails, Crash
<1>3. Ledger!Init /\ [][Ledger!Next]_Ledger!vars => Ledger!Spec
  BY DEF Ledger!Spec
<1> QED
  BY <1>1, <1>2, <1>3, Invariance, PTL DEF Spec, ImplementsRunReservation
=============================================================================
