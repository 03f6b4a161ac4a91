---------------------- MODULE SQLiteRevisionStoreProofs ----------------------
(***************************************************************************)
(* What holds of the revision store for any callers, commits and limits.   *)
(***************************************************************************)
EXTENDS SQLiteRevisionStore, TLAPS

-----------------------------------------------------------------------------
(* What an append that passes the checks does to the two tables.           *)

\* The head table after x is appended.
HeadsAfter(tips, x) == [tips EXCEPT ![x.stream] = x.revision]

\* An append whose idempotency identity is free keeps every identity unique.
LEMMA AppendKeepsKeyUnique ==
    ASSUME NEW table, NEW tips, NEW x,
           KeyUnique(table), Appends(table, tips, x)
    PROVE  KeyUnique(table \cup {x})
  BY DEF KeyUnique, Appends, KeyHolders

\* An append is a row the table does not hold yet.
LEMMA AppendIsNew ==
    ASSUME NEW table, NEW tips, NEW x, Appends(table, tips, x)
    PROVE  x \notin table
  BY DEF Appends, KeyHolders

\* The three ways out of the checks exclude each other, and one is always
\* open: an exact replay, a conflict or an append.
LEMMA ChecksDecide ==
    ASSUME NEW table, NEW tips, NEW x
    PROVE  /\ Replays(table, tips, x) \/ Conflicts(table, tips, x) \/ Appends(table, tips, x)
           /\ ~ (Replays(table, tips, x) /\ Conflicts(table, tips, x))
           /\ ~ (Appends(table, tips, x) /\ Replays(table, tips, x))
           /\ ~ (Appends(table, tips, x) /\ Conflicts(table, tips, x))
  BY DEF Replays, Conflicts, Appends, KeyCollides, KeyHolders

\* An append to a chain makes a chain one revision longer.
LEMMA AppendKeepsChain ==
    ASSUME NEW table \in SUBSET RevisionCommit,
           NEW tips \in [Streams -> Revisions \cup {NoRevision}],
           NEW x \in RevisionCommit,
           OneChain(table, tips), Appends(table, tips, x)
    PROVE  OneChain(table \cup {x}, HeadsAfter(tips, x))
<1> DEFINE more == table \cup {x}
<1>1. /\ x.stream \in Streams
      /\ x.revision \in Revisions
      /\ x.revision # NoRevision
      /\ x.predecessor # x.revision
  BY NoRevisionAssumption DEF RevisionCommit
<1>2. /\ x.predecessor = tips[x.stream]
      /\ \A y \in table : y.stream = x.stream => y.revision # x.revision
  BY DEF Appends, HeadMoved, RevisionTaken, RowsOf
<1>3. \A y \in table : y.stream = x.stream => y.predecessor # x.predecessor
  BY <1>1, <1>2 DEF OneChain, HeadIsTip, RowsOf
<1>4. \A y \in table : y.stream = x.stream => y.predecessor # x.revision
  BY <1>1, <1>2 DEF OneChain, PredecessorsRetained, RowsOf
<1>5. NoFork(more)
  BY <1>2, <1>3 DEF OneChain, NoFork
<1>6. PredecessorsRetained(more)
  <2>1. ASSUME x.predecessor # NoRevision
        PROVE  \E y \in RowsOf(table, x.stream) : y.revision = x.predecessor
    BY <1>1, <1>2, <2>1 DEF OneChain, HeadIsTip
  <2> QED
    BY <2>1 DEF OneChain, PredecessorsRetained, RowsOf
<1>7. HeadIsTip(more, HeadsAfter(tips, x))
  <2> SUFFICES ASSUME NEW s \in Streams
               PROVE  IF HeadsAfter(tips, x)[s] = NoRevision
                      THEN RowsOf(more, s) = {}
                      ELSE /\ \E y \in RowsOf(more, s) : y.revision = HeadsAfter(tips, x)[s]
                           /\ \A y \in RowsOf(more, s) :
                                 y.predecessor # HeadsAfter(tips, x)[s]
    BY DEF HeadIsTip
  <2>1. CASE s = x.stream
    <3>1. HeadsAfter(tips, x)[s] = x.revision
      BY <2>1 DEF HeadsAfter
    <3>2. x \in RowsOf(more, s)
      BY <2>1 DEF RowsOf
    <3>3. \A y \in RowsOf(more, s) : y.predecessor # x.revision
      BY <1>1, <1>4, <2>1 DEF RowsOf
    <3> QED
      BY <1>1, <3>1, <3>2, <3>3
  <2>2. CASE s # x.stream
    <3>1. HeadsAfter(tips, x)[s] = tips[s] /\ RowsOf(more, s) = RowsOf(table, s)
      BY <2>2 DEF HeadsAfter, RowsOf
    <3> QED
      BY <3>1 DEF OneChain, HeadIsTip
  <2> QED
    BY <2>1, <2>2
<1>8. ReachesGenesis(more)
  <2> SUFFICES ASSUME NEW S \in SUBSET more, S # {}, ClosedUnderPredecessor(S, more)
               PROVE  \E y \in S : y.predecessor = NoRevision
    BY DEF ReachesGenesis
  <2>1. ReachesGenesis(table)
    BY DEF OneChain
  <2>2. x \notin table
    BY AppendIsNew
  <2> DEFINE T == S \ {x}
  <2>3. T \in SUBSET table /\ ClosedUnderPredecessor(T, table)
    BY <2>2 DEF ClosedUnderPredecessor, RowsOf
  <2>4. CASE T # {}
    BY <2>1, <2>3, <2>4 DEF ReachesGenesis
  <2>5. CASE T = {}
    <3>1. S = {x}
      BY <2>5
    <3>2. ASSUME x.predecessor # NoRevision
          PROVE  FALSE
      <4>1. PICK y \in RowsOf(table, x.stream) : y.revision = x.predecessor
        BY <1>1, <1>2, <3>2 DEF OneChain, HeadIsTip
      <4>2. y \in S
        BY <3>1, <4>1 DEF ClosedUnderPredecessor, RowsOf
      <4> QED
        BY <2>2, <3>1, <4>1, <4>2 DEF RowsOf
    <3> QED
      BY <3>1, <3>2
  <2> QED
    BY <2>4, <2>5
<1> QED
  BY <1>5, <1>6, <1>7, <1>8 DEF OneChain


-----------------------------------------------------------------------------
(* Types.                                                                  *)

\* A step that changes only the call of c keeps the types of all calls when it
\* keeps that of c.
LEMMA OneCallChanges ==
    ASSUME TypeOK, NEW c \in Clients, NEW call,
           calls' = [calls EXCEPT ![c] = call],
           CallInv(c)'
    PROVE  DOMAIN calls' = Clients /\ \A d \in Clients : CallInv(d)'
<1>1. DOMAIN calls' = Clients
  BY DEF TypeOK
<1>2. ASSUME NEW d \in Clients, d # c
      PROVE  CallInv(d)'
  <2>1. calls'[d] = calls[d]
    BY <1>2 DEF TypeOK
  <2> QED
    BY <2>1 DEF TypeOK, CallInv
<1> QED
  BY <1>1, <1>2

\* An answer with a status of its operation is well typed.
LEMMA ReturnTyped ==
    ASSUME TypeOK, NEW c \in Clients, NEW status, NEW row \in Commits \cup {None},
           \/ calls[c].input \in Commits /\ status \in CommitStatus
           \/ calls[c].input \in Reads /\ status \in ReadStatus,
           Return(c, status, row)
    PROVE  DOMAIN calls' = Clients /\ \A d \in Clients : CallInv(d)'
<1> DEFINE call == [phase  |-> "done", input |-> calls[c].input,
                    result |-> [status |-> status, revision |-> row]]
<1>1. calls' = [calls EXCEPT ![c] = call] /\ calls'[c] = call
  BY DEF Return, TypeOK
<1>2. CallInv(c)'
  BY <1>1 DEF CallInv, CommitResult, ReadResult
<1> QED
  BY <1>1, <1>2, OneCallChanges

\* So is a call that moves to another phase of its operation.
LEMMA MoveTyped ==
    ASSUME TypeOK, NEW c \in Clients, NEW phase, NEW from,
           from \in CommitPhases \cup ReadPhases,
           calls[c].phase = from,
           \/ calls[c].input \in Commits /\ phase \in CommitPhases
           \/ calls[c].input \in Reads /\ phase \in ReadPhases,
           MoveTo(c, phase)
    PROVE  DOMAIN calls' = Clients /\ \A d \in Clients : CallInv(d)'
<1>1. CallInv(c)
  BY DEF TypeOK
<1>2. calls[c] = [phase |-> from, input |-> calls[c].input, result |-> None]
  BY <1>1 DEF CallInv, Idle, CommitPhases, ReadPhases
<1> DEFINE call == [phase |-> phase, input |-> calls[c].input, result |-> None]
<1>3. calls' = [calls EXCEPT ![c] = call] /\ calls'[c] = call
  <2>1. [calls[c] EXCEPT !.phase = phase] = call
    BY <1>2
  <2> QED
    BY <2>1 DEF MoveTo, TypeOK
<1>4. CallInv(c)'
  BY <1>3 DEF CallInv
<1> QED
  BY <1>3, <1>4, OneCallChanges

\* A call outside idle and done has an input of one of the two operations.
LEMMA RunningInput ==
    ASSUME TypeOK, NEW c \in Clients, calls[c].phase \in CommitPhases \cup ReadPhases
    PROVE  \/ calls[c].input \in Commits /\ calls[c].phase \in CommitPhases
           \/ calls[c].input \in Reads /\ calls[c].phase \in ReadPhases
  BY DEF TypeOK, CallInv, Idle, CommitPhases, ReadPhases

\* What COMMIT makes durable is well typed.
LEMMA ApplyTyped ==
    ASSUME TypeOK, NEW x \in Commits, Apply(x)
    PROVE  /\ rows' \subseteq Commits
           /\ heads' \in [Streams -> Revisions \cup {NoRevision}]
           /\ damaged' \subseteq rows'
           /\ format' = format
  BY StoreAssumption DEF TypeOK, Apply, RevisionCommit

LEMMA ReleaseTyped ==
    ASSUME TypeOK, NEW c \in Clients, Release(c)
    PROVE  lock' \in Clients \cup {None}
  BY DEF TypeOK, Release
\* Every step keeps the types: each action moves one call along its own
\* operation, or answers it with a status of that operation.
LEMMA TypeStep == TypeOK /\ [Next]_vars => TypeOK'
<1> SUFFICES ASSUME TypeOK, [Next]_vars
             PROVE  TypeOK'
  OBVIOUS
<1> USE DEF file
<1>1. CASE UNCHANGED vars
  BY <1>1 DEF vars, TypeOK, CallInv
<1>2. ASSUME NEW c \in Clients, NEW x \in Commits \cup Reads, Request(c, x)
      PROVE  TypeOK'
  <2> DEFINE call == [phase |-> "open", input |-> x, result |-> None]
  <2>1. calls' = [calls EXCEPT ![c] = call] /\ calls'[c] = call
    BY <1>2 DEF Request, TypeOK
  <2>2. CallInv(c)'
    BY <2>1 DEF CallInv, CommitPhases, ReadPhases
  <2>3. DOMAIN calls' = Clients /\ \A d \in Clients : CallInv(d)'
    BY <2>1, <2>2, OneCallChanges
  <2> QED
    BY <1>2, <2>3 DEF Request, TypeOK
<1>3. ASSUME NEW c \in Clients, RefusePayload(c)
      PROVE  TypeOK'
  BY <1>3, ReturnTyped DEF RefusePayload, Running, CommitStatus, TypeOK
<1>4. ASSUME NEW c \in Clients, Connect(c)
      PROVE  TypeOK'
  BY <1>4, MoveTyped, RunningInput DEF Connect, CommitPhases, ReadPhases, TypeOK
<1>5. ASSUME NEW c \in Clients, Prepare(c)
      PROVE  TypeOK'
  BY <1>5, MoveTyped, RunningInput, StoreAssumption
     DEF Prepare, CommitPhases, ReadPhases, TypeOK
<1>6. ASSUME NEW c \in Clients, RefuseFormat(c)
      PROVE  TypeOK'
  BY <1>6, ReturnTyped, RunningInput
     DEF RefuseFormat, CommitPhases, ReadPhases, CommitStatus, ReadStatus, TypeOK
<1>7. ASSUME NEW c \in Clients, BeginImmediate(c)
      PROVE  TypeOK'
  BY <1>7, MoveTyped DEF BeginImmediate, Running, CommitPhases, TypeOK
<1>8. ASSUME NEW c \in Clients, DecideReplay(c)
      PROVE  TypeOK'
  BY <1>8, ReturnTyped, ReleaseTyped DEF DecideReplay, Running, CommitStatus, TypeOK
<1>9. ASSUME NEW c \in Clients, DecideConflict(c)
      PROVE  TypeOK'
  BY <1>9, ReturnTyped, ReleaseTyped DEF DecideConflict, Running, CommitStatus, TypeOK
<1>10. ASSUME NEW c \in Clients, DecideAppend(c)
       PROVE  TypeOK'
  BY <1>10, MoveTyped DEF DecideAppend, Running, CommitPhases, TypeOK
<1>11. ASSUME NEW c \in Clients, Acknowledge(c)
       PROVE  TypeOK'
  BY <1>11, ReturnTyped, ReleaseTyped, ApplyTyped
     DEF Acknowledge, Running, CommitStatus, TypeOK
<1>12. ASSUME NEW c \in Clients, Observe(c)
       PROVE  TypeOK'
  <2>1. calls[c].input \in Reads /\ UNCHANGED <<file, lock, acked>>
    BY <1>12 DEF Observe, Running
  <2>2. \E status \in ReadStatus, row \in Commits \cup {None} : Return(c, status, row)
    <3> DEFINE found == {y \in RowsOf(rows, calls[c].input.stream) :
                           y.revision = IF calls[c].input.selector = "latest"
                                        THEN heads[calls[c].input.stream]
                                        ELSE calls[c].input.selector}
    <3>1. found \subseteq Commits
      BY DEF RowsOf, TypeOK
    <3>2. \/ Return(c, "absent", None)
          \/ \E y \in found : Return(c, "found", y) \/ Return(c, "corrupt", None)
      BY <1>12 DEF Observe
    <3> QED
      BY <3>1, <3>2 DEF ReadStatus
  <2> QED
    BY <2>1, <2>2, ReturnTyped DEF TypeOK
<1>13. ASSUME NEW c \in Clients, Receive(c)
       PROVE  TypeOK'
  <2>1. calls' = [calls EXCEPT ![c] = Idle] /\ calls'[c] = Idle
    BY <1>13 DEF Receive, TypeOK
  <2>2. CallInv(c)'
    BY <2>1 DEF CallInv
  <2>3. DOMAIN calls' = Clients /\ \A d \in Clients : CallInv(d)'
    BY <2>1, <2>2, OneCallChanges
  <2>4. acked' \subseteq Commits
    BY <1>13, StoreAssumption
       DEF Receive, TypeOK, CallInv, Idle, CommitPhases, ReadPhases, ReadResult, ReadStatus
  <2> QED
    BY <1>13, <2>3, <2>4 DEF Receive, TypeOK
<1>14. ASSUME NEW c \in Clients, Fault(c)
       PROVE  TypeOK'
  BY <1>14, ReturnTyped, ReleaseTyped
     DEF Fault, Running, CommitStatus, ReadStatus, TypeOK
<1>15. ASSUME NEW c \in Clients, AcknowledgeFault(c)
       PROVE  TypeOK'
  BY <1>15, ReturnTyped, ReleaseTyped, ApplyTyped
     DEF AcknowledgeFault, Running, CommitStatus, TypeOK
<1>16. ASSUME NEW c \in Clients, Crash(c)
       PROVE  TypeOK'
  <2>1. calls' = [calls EXCEPT ![c] = Idle] /\ calls'[c] = Idle
    BY <1>16 DEF Crash, TypeOK
  <2>2. CallInv(c)'
    BY <2>1 DEF CallInv
  <2>3. DOMAIN calls' = Clients /\ \A d \in Clients : CallInv(d)'
    BY <2>1, <2>2, OneCallChanges
  <2> QED
    BY <1>16, <2>3, ReleaseTyped, ApplyTyped DEF Crash, Running, TypeOK
<1>17. CASE Damage
  BY <1>17 DEF Damage, TypeOK, CallInv
<1> QED
  BY <1>1, <1>2, <1>3, <1>4, <1>5, <1>6, <1>7, <1>8, <1>9, <1>10, <1>11, <1>12,
     <1>13, <1>14, <1>15, <1>16, <1>17 DEF Next, Step

\* Every call is in a phase of its own operation and is answered in the terms
\* of its own operation; the tables hold only what callers committed.
THEOREM TypeCorrect == Spec => []TypeOK
<1>1. Init => TypeOK
  BY DEF Init, TypeOK, CallInv
<1>2. TypeOK /\ [Next]_vars => TypeOK'
  BY TypeStep
<1> QED
  BY <1>1, <1>2, PTL DEF Spec
-----------------------------------------------------------------------------
(* What a step does to the calls and to the tables.                        *)

LEMMA ReturnEffect ==
    ASSUME TypeOK, NEW c \in Clients, NEW status, NEW row, Return(c, status, row)
    PROVE  /\ calls'[c].phase = "done"
           /\ calls'[c].input = calls[c].input
           /\ calls'[c].result.status = status
           /\ \A d \in Clients : d # c => calls'[d] = calls[d]
  BY DEF Return, TypeOK

LEMMA MoveEffect ==
    ASSUME TypeOK, NEW c \in Clients, NEW phase,
           calls[c].phase \in CommitPhases \cup ReadPhases, MoveTo(c, phase)
    PROVE  /\ calls'[c].phase = phase
           /\ calls'[c].input = calls[c].input
           /\ \A d \in Clients : d # c => calls'[d] = calls[d]
<1>1. CallInv(c)
  BY DEF TypeOK
<1>2. calls[c] = [phase |-> calls[c].phase, input |-> calls[c].input, result |-> None]
  BY <1>1 DEF CallInv, Idle, CommitPhases, ReadPhases
<1>3. [calls[c] EXCEPT !.phase = phase] =
         [phase |-> phase, input |-> calls[c].input, result |-> None]
  BY <1>2
<1> QED
  BY <1>3 DEF MoveTo, TypeOK

LEMMA IdleEffect ==
    ASSUME TypeOK, NEW c \in Clients, calls' = [calls EXCEPT ![c] = Idle]
    PROVE  /\ calls'[c].phase = "idle"
           /\ \A d \in Clients : d # c => calls'[d] = calls[d]
  BY DEF TypeOK, Idle

\* The tables change only when the commit of a call takes effect, and with it
\* the call leaves its transaction.
CommitTakesEffect(c) ==
    /\ calls[c].phase = "acknowledge"
    /\ calls[c].input \in Commits
    /\ Apply(calls[c].input)
    /\ calls'[c].phase # "acknowledge"
    /\ \A d \in Clients : d # c => calls'[d] = calls[d]

LEMMA TablesStep ==
    ASSUME TypeOK, [Next]_vars
    PROVE  UNCHANGED <<rows, heads>> \/ \E c \in Clients : CommitTakesEffect(c)
<1>1. ASSUME NEW c \in Clients, Acknowledge(c)
      PROVE  CommitTakesEffect(c)
  BY <1>1, ReturnEffect DEF Acknowledge, Running, CommitTakesEffect
<1>2. ASSUME NEW c \in Clients, AcknowledgeFault(c)
      PROVE  UNCHANGED <<rows, heads>> \/ CommitTakesEffect(c)
  BY <1>2, ReturnEffect DEF AcknowledgeFault, Running, CommitTakesEffect, file
<1>3. ASSUME NEW c \in Clients, Crash(c)
      PROVE  UNCHANGED <<rows, heads>> \/ CommitTakesEffect(c)
  BY <1>3, IdleEffect DEF Crash, Running, CommitTakesEffect, file
<1>4. ASSUME NEW c \in Clients,
             \/ \E x \in Commits \cup Reads : Request(c, x)
             \/ Fault(c)
             \/ Step(c) /\ ~ Acknowledge(c)
      PROVE  UNCHANGED <<rows, heads>>
  BY <1>4 DEF Step, Request, Fault, RefusePayload, Connect, Prepare, RefuseFormat,
              BeginImmediate, DecideReplay, DecideConflict, DecideAppend, Observe,
              Receive, file
<1>5. CASE Damage \/ UNCHANGED vars
  BY <1>5 DEF Damage, vars
<1> QED
  BY <1>1, <1>2, <1>3, <1>4, <1>5 DEF Next

-----------------------------------------------------------------------------
(* The write lock.                                                         *)

\* A step of c that keeps the lock keeps the discipline when the call of c
\* stays on its side of the transaction.
LEMMA LockKept ==
    ASSUME LockDiscipline, NEW c \in Clients,
           lock' = lock,
           calls'[c].phase \in Transaction <=> calls[c].phase \in Transaction,
           \A d \in Clients : d # c => calls'[d] = calls[d]
    PROVE  LockDiscipline'
  BY DEF LockDiscipline

\* A call that ends releases the lock, if the lock is its own.
LEMMA LockReleased ==
    ASSUME LockDiscipline, NEW c \in Clients,
           Release(c),
           calls'[c].phase \notin Transaction,
           \A d \in Clients : d # c => calls'[d] = calls[d]
    PROVE  LockDiscipline'
  BY StoreAssumption DEF LockDiscipline, Release

LEMMA LockStep ==
    ASSUME TypeOK, LockDiscipline, [Next]_vars
    PROVE  LockDiscipline'
<1> USE DEF Transaction
<1>1. CASE UNCHANGED vars
  BY <1>1 DEF vars, LockDiscipline
<1>2. ASSUME NEW c \in Clients, NEW x \in Commits \cup Reads, Request(c, x)
      PROVE  LockDiscipline'
  <2>1. /\ calls[c].phase = "idle" /\ calls'[c].phase = "open"
        /\ \A d \in Clients : d # c => calls'[d] = calls[d]
    BY <1>2 DEF Request, TypeOK
  <2> QED
    BY <1>2, <2>1, LockKept DEF Request
<1>3. ASSUME NEW c \in Clients, RefusePayload(c)
      PROVE  LockDiscipline'
  BY <1>3, ReturnEffect, LockKept DEF RefusePayload, Running
<1>4. ASSUME NEW c \in Clients, Connect(c)
      PROVE  LockDiscipline'
  BY <1>4, MoveEffect, LockKept DEF Connect, CommitPhases
<1>5. ASSUME NEW c \in Clients, Prepare(c)
      PROVE  LockDiscipline'
  BY <1>5, MoveEffect, LockKept DEF Prepare, CommitPhases
<1>6. ASSUME NEW c \in Clients, RefuseFormat(c)
      PROVE  LockDiscipline'
  BY <1>6, ReturnEffect, LockKept DEF RefuseFormat
<1>7. ASSUME NEW c \in Clients, BeginImmediate(c)
      PROVE  LockDiscipline'
  BY <1>7, MoveEffect, StoreAssumption DEF BeginImmediate, Running, LockDiscipline, CommitPhases
<1>8. ASSUME NEW c \in Clients, DecideReplay(c)
      PROVE  LockDiscipline'
  BY <1>8, ReturnEffect, LockReleased DEF DecideReplay
<1>9. ASSUME NEW c \in Clients, DecideConflict(c)
      PROVE  LockDiscipline'
  BY <1>9, ReturnEffect, LockReleased DEF DecideConflict
<1>10. ASSUME NEW c \in Clients, DecideAppend(c)
       PROVE  LockDiscipline'
  BY <1>10, MoveEffect, LockKept DEF DecideAppend, Running, CommitPhases
<1>11. ASSUME NEW c \in Clients, Acknowledge(c)
       PROVE  LockDiscipline'
  BY <1>11, ReturnEffect, LockReleased DEF Acknowledge
<1>12. ASSUME NEW c \in Clients, Observe(c)
       PROVE  LockDiscipline'
  BY <1>12, ReturnEffect, LockKept DEF Observe, Running
<1>13. ASSUME NEW c \in Clients, Receive(c)
       PROVE  LockDiscipline'
  BY <1>13, IdleEffect, LockKept DEF Receive
<1>14. ASSUME NEW c \in Clients, Fault(c)
       PROVE  LockDiscipline'
  BY <1>14, ReturnEffect, LockReleased DEF Fault
<1>15. ASSUME NEW c \in Clients, AcknowledgeFault(c)
       PROVE  LockDiscipline'
  BY <1>15, ReturnEffect, LockReleased DEF AcknowledgeFault
<1>16. ASSUME NEW c \in Clients, Crash(c)
       PROVE  LockDiscipline'
  BY <1>16, IdleEffect, LockReleased DEF Crash
<1>17. CASE Damage
  BY <1>17 DEF Damage, LockDiscipline
<1> QED
  BY <1>1, <1>2, <1>3, <1>4, <1>5, <1>6, <1>7, <1>8, <1>9, <1>10, <1>11, <1>12,
     <1>13, <1>14, <1>15, <1>16, <1>17 DEF Next, Step

\* The write lock belongs to the one call inside its transaction and to nobody
\* else, on every way out of commit(): answer, failure or crash.
THEOREM LockDisciplineHolds == Spec => []LockDiscipline
<1>1. Init => LockDiscipline
  BY StoreAssumption DEF Init, LockDiscipline, Idle, Transaction
<1>2. TypeOK /\ LockDiscipline /\ [Next]_vars => LockDiscipline'
  BY LockStep
<1> QED
  BY <1>1, <1>2, TypeCorrect, PTL DEF Spec
-----------------------------------------------------------------------------
(* The decision made under the lock, and the chain.                        *)

\* Two calls are not inside their transactions together.
LEMMA OneWriter ==
    ASSUME LockDiscipline, NEW c \in Clients, NEW d \in Clients,
           calls[c].phase \in Transaction, calls[d].phase \in Transaction
    PROVE  c = d
  BY DEF LockDiscipline

\* A call stays as it is while another caller moves.
LEMMA OthersKeep ==
    ASSUME TypeOK, NEW c \in Clients, NEW d \in Clients, d # c,
           \/ \E x \in Commits \cup Reads : Request(d, x)
           \/ Step(d) \/ Fault(d) \/ AcknowledgeFault(d) \/ Crash(d)
    PROVE  calls'[c] = calls[c]
  BY DEF Step, Request, Fault, AcknowledgeFault, Crash, RefusePayload, Connect,
         Prepare, RefuseFormat, BeginImmediate, DecideReplay, DecideConflict,
         DecideAppend, Acknowledge, Observe, Receive, Return, MoveTo, TypeOK

\* Only a call that found nothing in its way comes to stand before COMMIT.
LEMMA AcknowledgeStep ==
    ASSUME TypeOK, [Next]_vars, NEW c \in Clients,
           calls'[c].phase = "acknowledge", calls[c].phase # "acknowledge"
    PROVE  DecideAppend(c)
<1>1. ASSUME NEW d \in Clients, d # c,
             \/ \E x \in Commits \cup Reads : Request(d, x)
             \/ Step(d) \/ Fault(d) \/ AcknowledgeFault(d) \/ Crash(d)
      PROVE  calls'[c] = calls[c]
  BY <1>1, OthersKeep
<1>2. ASSUME NEW x \in Commits \cup Reads, Request(c, x)
      PROVE  FALSE
  BY <1>2 DEF Request, TypeOK
<1>3. ASSUME \/ RefusePayload(c) \/ RefuseFormat(c) \/ DecideReplay(c)
             \/ DecideConflict(c) \/ Acknowledge(c) \/ Observe(c)
             \/ Fault(c) \/ AcknowledgeFault(c)
      PROVE  FALSE
  BY <1>3, ReturnEffect
     DEF RefusePayload, RefuseFormat, DecideReplay, DecideConflict, Acknowledge,
         Observe, Fault, AcknowledgeFault
<1>4. ASSUME Connect(c) \/ Prepare(c) \/ BeginImmediate(c)
      PROVE  FALSE
  BY <1>4, MoveEffect DEF Connect, Prepare, BeginImmediate, Running, CommitPhases
<1>5. ASSUME Receive(c) \/ Crash(c)
      PROVE  FALSE
  BY <1>5, IdleEffect DEF Receive, Crash
<1>6. CASE Damage \/ UNCHANGED vars
  BY <1>6 DEF Damage, vars
<1> QED
  BY <1>1, <1>2, <1>3, <1>4, <1>5, <1>6 DEF Next, Step

\* A call that stays before COMMIT keeps its input.
LEMMA AcknowledgeKeeps ==
    ASSUME TypeOK, [Next]_vars, NEW c \in Clients,
           calls'[c].phase = "acknowledge", calls[c].phase = "acknowledge"
    PROVE  calls'[c] = calls[c]
<1>1. ASSUME NEW d \in Clients, d # c,
             \/ \E x \in Commits \cup Reads : Request(d, x)
             \/ Step(d) \/ Fault(d) \/ AcknowledgeFault(d) \/ Crash(d)
      PROVE  calls'[c] = calls[c]
  BY <1>1, OthersKeep
<1>2. ASSUME Acknowledge(c) \/ AcknowledgeFault(c) \/ Crash(c)
      PROVE  FALSE
  BY <1>2, ReturnEffect, IdleEffect DEF Acknowledge, AcknowledgeFault, Crash
<1>3. ASSUME \/ \E x \in Commits \cup Reads : Request(c, x)
             \/ Step(c) /\ ~ Acknowledge(c)
             \/ Fault(c)
      PROVE  FALSE
  BY <1>3 DEF Step, Request, Fault, RefusePayload, Connect, Prepare, RefuseFormat,
              BeginImmediate, DecideReplay, DecideConflict, DecideAppend, Observe,
              Receive, Running, CommitPhases, ReadPhases
<1>4. CASE Damage \/ UNCHANGED vars
  BY <1>4 DEF Damage, vars
<1> QED
  BY <1>1, <1>2, <1>3, <1>4 DEF Next

\* What a call found stays so until its COMMIT: nobody else writes.
LEMMA DecisionStep ==
    ASSUME TypeOK, LockDiscipline, DecisionStillHolds, [Next]_vars
    PROVE  DecisionStillHolds'
<1> SUFFICES ASSUME NEW c \in Clients, calls'[c].phase = "acknowledge"
             PROVE  Appends(rows', heads', calls'[c].input)
  BY DEF DecisionStillHolds
<1>1. CASE calls[c].phase # "acknowledge"
  <2>1. DecideAppend(c)
    BY <1>1, AcknowledgeStep
  <2>2. /\ calls'[c].input = calls[c].input
        /\ Appends(rows, heads, calls[c].input)
        /\ UNCHANGED <<rows, heads>>
    BY <2>1, MoveEffect DEF DecideAppend, Running, CommitPhases, file
  <2> QED
    BY <2>2
<1>2. CASE calls[c].phase = "acknowledge"
  <2>1. ~ \E d \in Clients : CommitTakesEffect(d)
    BY <1>2, OneWriter DEF CommitTakesEffect, Transaction
  <2>2. UNCHANGED <<rows, heads>>
    BY <2>1, TablesStep
  <2>3. calls'[c].input = calls[c].input
    BY <1>2, AcknowledgeKeeps
  <2> QED
    BY <1>2, <2>2, <2>3 DEF DecisionStillHolds
<1> QED
  BY <1>1, <1>2
\* What commit() found before it wrote is still so when COMMIT runs.
THEOREM DecisionHolds == Spec => []DecisionStillHolds
<1>1. Init => DecisionStillHolds
  BY DEF Init, DecisionStillHolds, Idle
<1>2. TypeOK /\ LockDiscipline /\ DecisionStillHolds /\ [Next]_vars => DecisionStillHolds'
  BY DecisionStep
<1> QED
  BY <1>1, <1>2, TypeCorrect, LockDisciplineHolds, PTL DEF Spec

LEMMA ChainStep ==
    ASSUME TypeOK, DecisionStillHolds, HistoryIsOneChain, [Next]_vars
    PROVE  HistoryIsOneChain'
<1>1. CASE UNCHANGED <<rows, heads>>
  BY <1>1 DEF HistoryIsOneChain
<1>2. ASSUME NEW c \in Clients, CommitTakesEffect(c)
      PROVE  HistoryIsOneChain'
  <2> DEFINE x == calls[c].input
  <2>1. x \in RevisionCommit /\ Appends(rows, heads, x)
    BY <1>2, StoreAssumption DEF CommitTakesEffect, DecisionStillHolds
  <2>2. rows' = rows \cup {x} /\ heads' = HeadsAfter(heads, x)
    BY <1>2 DEF CommitTakesEffect, Apply, HeadsAfter
  <2>3. /\ rows \in SUBSET RevisionCommit
        /\ heads \in [Streams -> Revisions \cup {NoRevision}]
    BY StoreAssumption DEF TypeOK
  <2>4. OneChain(rows \cup {x}, HeadsAfter(heads, x))
    BY <2>1, <2>3, AppendKeepsChain DEF HistoryIsOneChain
  <2> QED
    BY <2>2, <2>4 DEF HistoryIsOneChain
<1> QED
  BY <1>1, <1>2, TablesStep

\* Whatever calls race, fail or die, every stream is one chain of revisions
\* from its first to its head, without forks, gaps or cycles.
THEOREM HistoryStaysOneChain == Spec => []HistoryIsOneChain
<1>1. Init => HistoryIsOneChain
  BY DEF Init, HistoryIsOneChain, OneChain, NoFork, PredecessorsRetained, HeadIsTip,
         ReachesGenesis, RowsOf
<1>2. TypeOK /\ DecisionStillHolds /\ HistoryIsOneChain /\ [Next]_vars => HistoryIsOneChain'
  BY ChainStep
<1> QED
  BY <1>1, <1>2, TypeCorrect, DecisionHolds, PTL DEF Spec

LEMMA KeyStep ==
    ASSUME TypeOK, DecisionStillHolds, KeyOwnsOneEnvelope, [Next]_vars
    PROVE  KeyOwnsOneEnvelope'
<1>1. CASE UNCHANGED <<rows, heads>>
  BY <1>1 DEF KeyOwnsOneEnvelope, KeyUnique
<1>2. ASSUME NEW c \in Clients, CommitTakesEffect(c)
      PROVE  KeyOwnsOneEnvelope'
  <2>1. rows' = rows \cup {calls[c].input} /\ Appends(rows, heads, calls[c].input)
    BY <1>2 DEF CommitTakesEffect, Apply, DecisionStillHolds
  <2>2. KeyUnique(rows \cup {calls[c].input})
    BY <2>1, AppendKeepsKeyUnique DEF KeyOwnsOneEnvelope
  <2> QED
    BY <2>1, <2>2 DEF KeyOwnsOneEnvelope
<1> QED
  BY <1>1, <1>2, TablesStep

\* An idempotency identity never comes to own two envelopes.
THEOREM KeysStayUnique == Spec => []KeyOwnsOneEnvelope
<1>1. Init => KeyOwnsOneEnvelope
  BY DEF Init, KeyOwnsOneEnvelope, KeyUnique
<1>2. TypeOK /\ DecisionStillHolds /\ KeyOwnsOneEnvelope /\ [Next]_vars => KeyOwnsOneEnvelope'
  BY KeyStep
<1> QED
  BY <1>1, <1>2, TypeCorrect, DecisionHolds, PTL DEF Spec

-----------------------------------------------------------------------------
(* Acknowledgements.                                                       *)

Retaining == {"committed", "idempotent"}

\* An answer that a revision is retained is true before it is received, too.
AnswersAreTrue ==
    \A c \in Clients :
        calls[c].phase = "done" /\ calls[c].result.status \in Retaining
            => calls[c].input \in rows

LEMMA RowsStay ==
    ASSUME TypeOK, [Next]_vars
    PROVE  rows \subseteq rows'
  BY TablesStep DEF CommitTakesEffect, Apply

LEMMA AnswerStep ==
    ASSUME TypeOK, AnswersAreTrue, [Next]_vars
    PROVE  AnswersAreTrue'
<1> USE DEF Retaining
<1> SUFFICES ASSUME NEW c \in Clients,
                    calls'[c].phase = "done", calls'[c].result.status \in Retaining
             PROVE  calls'[c].input \in rows'
  BY DEF AnswersAreTrue
<1>1. ASSUME calls'[c] = calls[c]
      PROVE  calls'[c].input \in rows'
  BY <1>1, RowsStay DEF AnswersAreTrue
<1>2. ASSUME NEW d \in Clients, d # c,
             \/ \E x \in Commits \cup Reads : Request(d, x)
             \/ Step(d) \/ Fault(d) \/ AcknowledgeFault(d) \/ Crash(d)
      PROVE  calls'[c] = calls[c]
  BY <1>2, OthersKeep
<1>3. ASSUME NEW x \in Commits \cup Reads, Request(c, x)
      PROVE  FALSE
  BY <1>3 DEF Request, TypeOK
<1>4. ASSUME \/ Connect(c) \/ Prepare(c) \/ BeginImmediate(c) \/ DecideAppend(c)
      PROVE  FALSE
  BY <1>4, MoveEffect
     DEF Connect, Prepare, BeginImmediate, DecideAppend, Running, CommitPhases
<1>5. ASSUME Receive(c) \/ Crash(c)
      PROVE  FALSE
  BY <1>5, IdleEffect DEF Receive, Crash
<1>6. ASSUME \/ RefusePayload(c) \/ RefuseFormat(c) \/ DecideConflict(c) \/ Observe(c)
             \/ Fault(c) \/ AcknowledgeFault(c)
      PROVE  FALSE
  BY <1>6, ReturnEffect
     DEF RefusePayload, RefuseFormat, DecideConflict, Observe, Fault, AcknowledgeFault
<1>7. ASSUME DecideReplay(c)
      PROVE  calls'[c].input \in rows'
  BY <1>7, ReturnEffect DEF DecideReplay, Replays, file
<1>8. ASSUME Acknowledge(c)
      PROVE  calls'[c].input \in rows'
  BY <1>8, ReturnEffect DEF Acknowledge, Apply
<1>9. CASE Damage \/ UNCHANGED vars
  BY <1>1, <1>9 DEF Damage, vars
<1> QED
  BY <1>1, <1>2, <1>3, <1>4, <1>5, <1>6, <1>7, <1>8, <1>9 DEF Next, Step

LEMMA AckedStep ==
    ASSUME TypeOK, AnswersAreTrue, AcknowledgedStays, [Next]_vars
    PROVE  AcknowledgedStays'
<1>1. ASSUME NEW c \in Clients, Receive(c)
      PROVE  AcknowledgedStays'
  BY <1>1, RowsStay DEF Receive, AnswersAreTrue, Retaining, AcknowledgedStays
<1>2. CASE UNCHANGED acked
  BY <1>2, RowsStay DEF AcknowledgedStays
<1>3. ASSUME NEW c \in Clients,
             \/ \E x \in Commits \cup Reads : Request(c, x)
             \/ Step(c) /\ ~ Receive(c)
             \/ Fault(c) \/ AcknowledgeFault(c) \/ Crash(c)
      PROVE  UNCHANGED acked
  BY <1>3 DEF Step, Request, Fault, AcknowledgeFault, Crash, RefusePayload, Connect,
              Prepare, RefuseFormat, BeginImmediate, DecideReplay, DecideConflict,
              DecideAppend, Acknowledge, Observe
<1>4. CASE Damage \/ UNCHANGED vars
  BY <1>2, <1>4 DEF Damage, vars
<1> QED
  BY <1>1, <1>2, <1>3, <1>4 DEF Next

\* A commit that some caller was told is retained stays retained, through
\* every later race, failure and crash.
THEOREM AcknowledgedIsDurable == Spec => []AcknowledgedStays
<1>1. Init => AnswersAreTrue /\ AcknowledgedStays
  BY DEF Init, AnswersAreTrue, AcknowledgedStays, Idle
<1>2. TypeOK /\ AnswersAreTrue /\ AcknowledgedStays /\ [Next]_vars
        => (AnswersAreTrue /\ AcknowledgedStays)'
  BY AnswerStep, AckedStep
<1> QED
  BY <1>1, <1>2, TypeCorrect, PTL DEF Spec

\* Retrying a commit that is retained is never told that it conflicts.
THEOREM ExactRetryIsReplayed == Spec => ExactRetryNeverConflicts
<1>1. ASSUME TypeOK, [Next]_vars, NEW c \in Clients, Answers(c, "conflict")
      PROVE  calls[c].input \notin rows
  <2> USE <1>1 DEF Answers
  <2>1. ASSUME NEW d \in Clients, d # c,
               \/ \E x \in Commits \cup Reads : Request(d, x)
               \/ Step(d) \/ Fault(d) \/ AcknowledgeFault(d) \/ Crash(d)
        PROVE  FALSE
    BY <2>1, OthersKeep
  <2>2. ASSUME NEW x \in Commits \cup Reads, Request(c, x)
        PROVE  FALSE
    BY <2>2 DEF Request, TypeOK
  <2>3. ASSUME \/ Connect(c) \/ Prepare(c) \/ BeginImmediate(c) \/ DecideAppend(c)
        PROVE  FALSE
    BY <2>3, MoveEffect
       DEF Connect, Prepare, BeginImmediate, DecideAppend, Running, CommitPhases
  <2>4. ASSUME Receive(c) \/ Crash(c)
        PROVE  FALSE
    BY <2>4, IdleEffect DEF Receive, Crash
  <2>5. ASSUME \/ RefusePayload(c) \/ RefuseFormat(c) \/ DecideReplay(c) \/ Acknowledge(c)
               \/ Observe(c) \/ Fault(c) \/ AcknowledgeFault(c)
        PROVE  FALSE
    BY <2>5, ReturnEffect
       DEF RefusePayload, RefuseFormat, DecideReplay, Acknowledge, Observe, Fault,
           AcknowledgeFault
  <2>6. ASSUME DecideConflict(c)
        PROVE  calls[c].input \notin rows
    BY <2>6 DEF DecideConflict, Conflicts, Replays
  <2>7. CASE Damage \/ UNCHANGED vars
    BY <2>7 DEF Damage, vars
  <2> QED
    BY <2>1, <2>2, <2>3, <2>4, <2>5, <2>6, <2>7 DEF Next, Step
<1>2. TypeOK /\ [Next]_vars
        => [\A c \in Clients : Answers(c, "conflict") => calls[c].input \notin rows]_vars
  BY <1>1
<1> QED
  BY <1>2, TypeCorrect, PTL DEF Spec, ExactRetryNeverConflicts

\* A row whose digest fails is neither read nor taken for a replay.
THEOREM DamageStaysUnserved == Spec => DamageIsNeverServed
<1>1. ASSUME TypeOK, [Next]_vars, NEW c \in Clients,
             Answers(c, "found") \/ Answers(c, "idempotent")
      PROVE  calls'[c].result.revision \notin damaged
  <2> USE <1>1 DEF Answers
  <2>1. ASSUME NEW d \in Clients, d # c,
               \/ \E x \in Commits \cup Reads : Request(d, x)
               \/ Step(d) \/ Fault(d) \/ AcknowledgeFault(d) \/ Crash(d)
        PROVE  FALSE
    BY <2>1, OthersKeep
  <2>2. ASSUME NEW x \in Commits \cup Reads, Request(c, x)
        PROVE  FALSE
    BY <2>2 DEF Request, TypeOK
  <2>3. ASSUME \/ Connect(c) \/ Prepare(c) \/ BeginImmediate(c) \/ DecideAppend(c)
        PROVE  FALSE
    BY <2>3, MoveEffect
       DEF Connect, Prepare, BeginImmediate, DecideAppend, Running, CommitPhases
  <2>4. ASSUME Receive(c) \/ Crash(c)
        PROVE  FALSE
    BY <2>4, IdleEffect DEF Receive, Crash
  <2>5. ASSUME \/ RefusePayload(c) \/ RefuseFormat(c) \/ DecideConflict(c) \/ Acknowledge(c)
               \/ Fault(c) \/ AcknowledgeFault(c)
        PROVE  FALSE
    BY <2>5, ReturnEffect
       DEF RefusePayload, RefuseFormat, DecideConflict, Acknowledge, Fault,
           AcknowledgeFault
  <2>6. ASSUME NEW status, NEW row, Return(c, status, row)
        PROVE  calls'[c].result.status = status /\ calls'[c].result.revision = row
    BY <2>6 DEF Return, TypeOK
  <2>7. ASSUME DecideReplay(c)
        PROVE  calls'[c].result.revision \notin damaged
    BY <2>6, <2>7 DEF DecideReplay, Decodes
  <2>8. ASSUME Observe(c)
        PROVE  calls'[c].result.revision \notin damaged
    BY <2>6, <2>8 DEF Observe, Decodes
  <2>9. CASE Damage \/ UNCHANGED vars
    BY <2>9 DEF Damage, vars
  <2> QED
    BY <2>1, <2>2, <2>3, <2>4, <2>5, <2>7, <2>8, <2>9 DEF Next, Step
<1>2. TypeOK /\ [Next]_vars
        => [\A c \in Clients : Answers(c, "found") \/ Answers(c, "idempotent")
               => calls'[c].result.revision \notin damaged]_vars
  BY <1>1
<1> QED
  BY <1>2, TypeCorrect, PTL DEF Spec, DamageIsNeverServed

-----------------------------------------------------------------------------
(* The promise of the protocol AtomicRevisionStore.                        *)

\* What the promise sees of the calls, and of a whole state.
Seen == [c \in Clients |-> AbstractCall(calls[c])]
SeenState == <<rows, heads, Seen>>

\* A call that is under way is one whose answer the promise still owes.
LEMMA SeenRunning ==
    ASSUME TypeOK, NEW c \in Clients, calls[c].phase \in CommitPhases \cup ReadPhases
    PROVE  Seen[c] = Promise!Requested(calls[c].input)
<1>1. CallInv(c)
  BY DEF TypeOK
<1>2. calls[c] = [phase |-> calls[c].phase, input |-> calls[c].input, result |-> None]
  BY <1>1 DEF CallInv, Idle, CommitPhases, ReadPhases
<1>3. calls[c].phase \notin {"idle", "done"}
  BY DEF CommitPhases, ReadPhases
<1> QED
  BY <1>2, <1>3 DEF Seen, AbstractCall, Promise!Requested

\* A call at rest looks the same to both.
LEMMA SeenAtRest ==
    ASSUME TypeOK, NEW c \in Clients, calls[c].phase \in {"idle", "done"}
    PROVE  Seen[c] = calls[c]
<1>1. CallInv(c)
  BY DEF TypeOK
<1>2. calls[c] = [phase |-> calls[c].phase, input |-> calls[c].input,
                  result |-> calls[c].result]
  BY <1>1 DEF CallInv, Idle, CommitPhases, ReadPhases
<1> QED
  BY <1>2 DEF Seen, AbstractCall

\* Giving one call another record changes what is seen of it alone.
LEMMA SeenChanges ==
    ASSUME TypeOK, NEW c \in Clients, NEW call, calls' = [calls EXCEPT ![c] = call]
    PROVE  Seen' = [Seen EXCEPT ![c] = AbstractCall(call)]
  BY DEF TypeOK, Seen

LEMMA SeenReturn ==
    ASSUME TypeOK, NEW c \in Clients, calls[c].phase \in CommitPhases \cup ReadPhases,
           NEW status, NEW row, Return(c, status, row)
    PROVE  Promise!Answer(c, status, row)
<1> DEFINE call == [phase  |-> "done", input |-> calls[c].input,
                    result |-> [status |-> status, revision |-> row]]
<1>1. AbstractCall(call) = call
  BY DEF AbstractCall
<1>2. Seen' = [Seen EXCEPT ![c] = call]
  BY <1>1, SeenChanges DEF Return
<1>3. Seen[c].input = calls[c].input
  <2>1. Seen[c] = Promise!Requested(calls[c].input)
    BY SeenRunning
  <2> QED
    BY <2>1 DEF Promise!Requested
<1>4. Seen' = [Seen EXCEPT ![c] = Promise!Done(Seen[c].input, status, row)]
  BY <1>2, <1>3 DEF Promise!Done
<1> QED
  BY <1>4 DEF Promise!Answer, Seen

LEMMA SeenMove ==
    ASSUME TypeOK, NEW c \in Clients, NEW phase \in CommitPhases \cup ReadPhases,
           calls[c].phase \in CommitPhases \cup ReadPhases, MoveTo(c, phase)
    PROVE  UNCHANGED Seen
<1>1. CallInv(c)
  BY DEF TypeOK
<1>2. calls[c] = [phase |-> calls[c].phase, input |-> calls[c].input, result |-> None]
  BY <1>1 DEF CallInv, Idle, CommitPhases, ReadPhases
<1> DEFINE call == [phase |-> phase, input |-> calls[c].input, result |-> None]
<1>3. calls' = [calls EXCEPT ![c] = call]
  <2>1. [calls[c] EXCEPT !.phase = phase] = call
    BY <1>2
  <2> QED
    BY <2>1 DEF MoveTo, TypeOK
<1>4. phase \notin {"idle", "done"}
  BY DEF CommitPhases, ReadPhases
<1>5. AbstractCall(call) = Promise!Requested(calls[c].input)
  BY <1>4 DEF AbstractCall, Promise!Requested
<1>6. Seen' = [Seen EXCEPT ![c] = Seen[c]]
  BY <1>3, <1>5, SeenChanges, SeenRunning
<1> QED
  BY <1>6 DEF Seen

LEMMA SeenIdle ==
    ASSUME TypeOK, NEW c \in Clients, calls' = [calls EXCEPT ![c] = Idle]
    PROVE  Seen' = [Seen EXCEPT ![c] = Promise!Idle]
<1>1. AbstractCall(Idle) = Promise!Idle
  BY DEF AbstractCall, Idle, Promise!Idle
<1> QED
  BY <1>1, SeenChanges

\* The questions asked of the tables are the same questions.
LEMMA SameQuestions ==
    ASSUME NEW x
    PROVE  /\ Promise!Replays(rows, heads, x) <=> Replays(rows, heads, x)
           /\ Promise!Conflicts(rows, heads, x) <=> Conflicts(rows, heads, x)
           /\ Promise!Appends(rows, heads, x) <=> Appends(rows, heads, x)
           /\ \A s : Promise!RowsOf(rows, s) = RowsOf(rows, s)
           /\ Promise!ReadStatus = ReadStatus
  BY DEF Promise!Replays, Replays, Promise!Conflicts, Conflicts, Promise!Appends, Appends,
         Promise!KeyCollides, KeyCollides, Promise!HeadMoved, HeadMoved,
         Promise!RevisionTaken, RevisionTaken, Promise!KeyHolders, KeyHolders,
         Promise!RowsOf, RowsOf, Promise!ReadStatus, ReadStatus

\* An answer given without touching the tables is one the promise allows, when
\* what it claims is so.
LEMMA SeenAnswer ==
    ASSUME TypeOK, NEW c \in Clients, calls[c].phase \in CommitPhases \cup ReadPhases,
           NEW status, NEW row, Return(c, status, row), UNCHANGED <<rows, heads>>,
           \/ /\ calls[c].input \in Commits
              /\ \/ status \in {"error", "indeterminate"} /\ row = None
                 \/ /\ status = "idempotent" /\ row = calls[c].input
                    /\ Replays(rows, heads, calls[c].input)
                 \/ /\ status = "conflict" /\ row = None
                    /\ Conflicts(rows, heads, calls[c].input)
           \/ /\ calls[c].input \in Reads
              /\ status \in ReadStatus \ {"found", "absent"} /\ row = None
    PROVE  Promise!Next
<1> DEFINE x == calls[c].input
<1>1. Seen[c] = Promise!Requested(x) /\ Promise!Answer(c, status, row)
  BY SeenRunning, SeenReturn
<1>2. CASE x \in Commits
  <2>1. \/ Promise!Replays(rows, heads, x) /\ Promise!Answer(c, "idempotent", x)
        \/ Promise!Conflicts(rows, heads, x) /\ Promise!Answer(c, "conflict", None)
        \/ Promise!Answer(c, "indeterminate", None)
        \/ Promise!Answer(c, "error", None)
    BY <1>1, <1>2, SameQuestions, StoreAssumption
  <2>2. Promise!AnswerCommit(c, x)
    BY <1>1, <2>1 DEF Promise!AnswerCommit, Seen
  <2> QED
    BY <1>2, <2>2 DEF Promise!Next
<1>3. CASE x \in Reads
  <2>1. \E s \in Promise!ReadStatus \ {"found", "absent"} : Promise!Answer(c, s, None)
    BY <1>1, <1>3, SameQuestions, StoreAssumption
  <2>2. Promise!AnswerRead(c, x)
    BY <1>1, <2>1 DEF Promise!AnswerRead, Seen
  <2> QED
    BY <1>3, <2>2 DEF Promise!Next
<1> QED
  BY <1>2, <1>3

\* A read answers with what its snapshot holds.
LEMMA SeenObserve ==
    ASSUME TypeOK, NEW c \in Clients, Observe(c)
    PROVE  Promise!Next
<1> DEFINE x      == calls[c].input
           sought == IF x.selector = "latest" THEN heads[x.stream] ELSE x.selector
           found  == {y \in RowsOf(rows, x.stream) : y.revision = sought}
<1>1. x \in Reads /\ calls[c].phase \in ReadPhases /\ UNCHANGED <<rows, heads>>
  BY DEF Observe, Running, ReadPhases, file
<1>2. Seen[c] = Promise!Requested(x)
  BY <1>1, SeenRunning
<1>3. \/ found = {} /\ Return(c, "absent", None)
      \/ \E y \in found : Return(c, "found", y)
      \/ Return(c, "corrupt", None)
  BY DEF Observe
<1>4. \/ \E y \in Promise!RowsOf(rows, x.stream) :
            y.revision = sought /\ Promise!Answer(c, "found", y)
      \/ /\ \A y \in Promise!RowsOf(rows, x.stream) : y.revision # sought
         /\ Promise!Answer(c, "absent", None)
      \/ \E s \in Promise!ReadStatus \ {"found", "absent"} : Promise!Answer(c, s, None)
  <2>1. Promise!RowsOf(rows, x.stream) = RowsOf(rows, x.stream)
    BY SameQuestions
  <2>2. "corrupt" \in Promise!ReadStatus \ {"found", "absent"}
    BY DEF Promise!ReadStatus
  <2>3. \A status, row : Return(c, status, row) => Promise!Answer(c, status, row)
    BY <1>1, SeenReturn
  <2> QED
    BY <1>3, <2>1, <2>2, <2>3
<1>5. Promise!AnswerRead(c, x)
  BY <1>1, <1>2, <1>4 DEF Promise!AnswerRead, Seen
<1> QED
  BY <1>1, <1>5 DEF Promise!Next

\* A COMMIT that takes effect appends, for it was decided under the lock.
LEMMA SeenApply ==
    ASSUME TypeOK, DecisionStillHolds, NEW c \in Clients,
           Running(c, {"acknowledge"}, Commits), Apply(calls[c].input)
    PROVE  Promise!Append(calls[c].input)
<1>1. Appends(rows, heads, calls[c].input)
  BY DEF DecisionStillHolds, Running
<1> QED
  BY <1>1, SameQuestions DEF Apply, Promise!Append

LEMMA SeenAcknowledge ==
    ASSUME TypeOK, DecisionStillHolds, NEW c \in Clients,
           Acknowledge(c) \/ AcknowledgeFault(c)
    PROVE  Promise!Next
<1> DEFINE x == calls[c].input
<1>1. /\ Running(c, {"acknowledge"}, Commits)
      /\ x \in Commits /\ calls[c].phase \in CommitPhases
  BY DEF Acknowledge, AcknowledgeFault, Running, CommitPhases
<1>2. Seen[c] = Promise!Requested(x)
  BY <1>1, SeenRunning
<1>3. \A status, row : Return(c, status, row) => Promise!Answer(c, status, row)
  BY <1>1, SeenReturn
<1>4. CASE Acknowledge(c)
  <2>1. Promise!Append(x) /\ Promise!Answer(c, "committed", x)
    BY <1>1, <1>3, <1>4, SeenApply DEF Acknowledge
  <2>2. Promise!AnswerCommit(c, x)
    BY <1>2, <2>1 DEF Promise!AnswerCommit, Seen
  <2> QED
    BY <1>1, <2>2 DEF Promise!Next
<1>5. CASE AcknowledgeFault(c)
  <2>1. Promise!Answer(c, "indeterminate", None)
    BY <1>3, <1>5 DEF AcknowledgeFault
  <2>2. Promise!Append(x) \/ UNCHANGED <<rows, heads>>
    BY <1>1, <1>5, SeenApply DEF AcknowledgeFault, file
  <2>3. Promise!AnswerCommit(c, x)
    BY <1>2, <2>1, <2>2 DEF Promise!AnswerCommit, Seen
  <2> QED
    BY <1>1, <2>3 DEF Promise!Next
<1> QED
  BY <1>4, <1>5

LEMMA SeenReceive ==
    ASSUME TypeOK, NEW c \in Clients, Receive(c)
    PROVE  Promise!Next
<1>1. Seen[c].phase = "done"
  BY SeenAtRest DEF Receive
<1>2. Seen' = [Seen EXCEPT ![c] = Promise!Idle]
  BY SeenIdle DEF Receive
<1>3. Promise!Receive(c)
  BY <1>1, <1>2 DEF Receive, Promise!Receive, Seen, file
<1> QED
  BY <1>3 DEF Promise!Next

LEMMA SeenCrash ==
    ASSUME TypeOK, DecisionStillHolds, NEW c \in Clients, Crash(c)
    PROVE  Promise!Next
<1>1. Seen' = [Seen EXCEPT ![c] = Promise!Idle]
  BY SeenIdle DEF Crash
<1>2. Seen[c].phase # "idle"
  <2>1. CASE calls[c].phase = "done"
    BY <2>1, SeenAtRest
  <2>2. CASE calls[c].phase # "done"
    <3>1. calls[c].phase \in CommitPhases \cup ReadPhases
      BY <2>2 DEF Crash, TypeOK, CallInv, Idle
    <3>2. Seen[c] = Promise!Requested(calls[c].input)
      BY <3>1, SeenRunning
    <3> QED
      BY <3>2 DEF Promise!Requested
  <2> QED
    BY <2>1, <2>2
<1>3. CASE UNCHANGED file
  <2>1. Promise!Crash(c)
    BY <1>1, <1>2, <1>3 DEF Promise!Crash, Seen, file
  <2> QED
    BY <2>1 DEF Promise!Next
<1>4. CASE Running(c, {"acknowledge"}, Commits) /\ Apply(calls[c].input)
  <2>1. calls[c].phase \in CommitPhases /\ calls[c].input \in Commits
    BY <1>4 DEF Running, CommitPhases
  <2>2. Seen[c] = Promise!Requested(calls[c].input) /\ Promise!Append(calls[c].input)
    BY <1>4, <2>1, SeenRunning, SeenApply
  <2>3. Promise!Crash(c)
    BY <1>1, <1>2, <2>1, <2>2 DEF Promise!Crash, Seen
  <2> QED
    BY <2>3 DEF Promise!Next
<1> QED
  BY <1>3, <1>4 DEF Crash

LEMMA SeenRequest ==
    ASSUME TypeOK, NEW c \in Clients, NEW x \in Commits \cup Reads, Request(c, x)
    PROVE  Promise!Next
<1> DEFINE call == [phase |-> "open", input |-> x, result |-> None]
<1>1. AbstractCall(call) = Promise!Requested(x)
  BY DEF AbstractCall, Promise!Requested
<1>2. Seen' = [Seen EXCEPT ![c] = Promise!Requested(x)]
  BY <1>1, SeenChanges DEF Request
<1>3. Seen[c].phase = "idle"
  BY SeenAtRest DEF Request
<1>4. Promise!Request(c, x)
  BY <1>2, <1>3 DEF Request, Promise!Request, Seen, file
<1> QED
  BY <1>4 DEF Promise!Next

\* Every step of the store is a step of the promise or one it does not see.
LEMMA PromiseStep == TypeOK /\ DecisionStillHolds /\ [Next]_vars => [Promise!Next]_SeenState
<1> SUFFICES ASSUME TypeOK, DecisionStillHolds, [Next]_vars
             PROVE  [Promise!Next]_SeenState
  OBVIOUS
<1> USE DEF SeenState
<1>1. CASE UNCHANGED vars
  BY <1>1 DEF vars, Seen
<1>2. ASSUME NEW c \in Clients, NEW x \in Commits \cup Reads, Request(c, x)
      PROVE  Promise!Next
  BY <1>2, SeenRequest
<1>3. ASSUME NEW c \in Clients, RefusePayload(c)
      PROVE  Promise!Next
  BY <1>3, SeenAnswer DEF RefusePayload, Running, CommitPhases, file
<1>4. ASSUME NEW c \in Clients, Connect(c)
      PROVE  UNCHANGED SeenState
  BY <1>4, SeenMove DEF Connect, CommitPhases, file
<1>5. ASSUME NEW c \in Clients, Prepare(c)
      PROVE  UNCHANGED SeenState
  BY <1>5, SeenMove DEF Prepare, CommitPhases, ReadPhases
<1>6. ASSUME NEW c \in Clients, RefuseFormat(c)
      PROVE  Promise!Next
  <2>1. calls[c].phase \in CommitPhases \cup ReadPhases /\ UNCHANGED <<rows, heads>>
    BY <1>6 DEF RefuseFormat, CommitPhases, file
  <2> QED
    BY <1>6, <2>1, SeenAnswer, RunningInput DEF RefuseFormat, ReadStatus
<1>7. ASSUME NEW c \in Clients, BeginImmediate(c)
      PROVE  UNCHANGED SeenState
  BY <1>7, SeenMove DEF BeginImmediate, Running, CommitPhases, file
<1>8. ASSUME NEW c \in Clients, DecideReplay(c)
      PROVE  Promise!Next
  BY <1>8, SeenAnswer DEF DecideReplay, Running, CommitPhases, file
<1>9. ASSUME NEW c \in Clients, DecideConflict(c)
      PROVE  Promise!Next
  BY <1>9, SeenAnswer DEF DecideConflict, Running, CommitPhases, file
<1>10. ASSUME NEW c \in Clients, DecideAppend(c)
       PROVE  UNCHANGED SeenState
  BY <1>10, SeenMove DEF DecideAppend, Running, CommitPhases, file
<1>11. ASSUME NEW c \in Clients, Acknowledge(c) \/ AcknowledgeFault(c)
       PROVE  Promise!Next
  BY <1>11, SeenAcknowledge
<1>12. ASSUME NEW c \in Clients, Observe(c)
       PROVE  Promise!Next
  BY <1>12, SeenObserve
<1>13. ASSUME NEW c \in Clients, Receive(c)
       PROVE  Promise!Next
  BY <1>13, SeenReceive
<1>14. ASSUME NEW c \in Clients, Fault(c)
       PROVE  Promise!Next
  BY <1>14, SeenAnswer DEF Fault, Running, ReadStatus, file
<1>15. ASSUME NEW c \in Clients, Crash(c)
       PROVE  Promise!Next
  BY <1>15, SeenCrash
<1>16. CASE Damage
  BY <1>16 DEF Damage, Seen
<1> QED
  BY <1>1, <1>2, <1>3, <1>4, <1>5, <1>6, <1>7, <1>8, <1>9, <1>10, <1>11, <1>12,
     <1>13, <1>14, <1>15, <1>16 DEF Next, Step

\* The store keeps the promise of the protocol AtomicRevisionStore, for any
\* callers, commits, reads and limits: each call takes effect at one instant
\* between its request and its answer, or not at all, and what it answers was
\* true at that instant, whoever else runs, fails, dies or damages a row.
THEOREM StoreImplementsPromise == Spec => ImplementsAtomicRevisionStore
<1>1. Init => Promise!Init
  <2>1. Init => Seen = [c \in Clients |-> Promise!Idle]
    BY DEF Init, Seen, AbstractCall, Idle, Promise!Idle
  <2> QED
    BY <2>1 DEF Init, Promise!Init, Seen
<1>2. TypeOK /\ DecisionStillHolds /\ [Next]_vars => [Promise!Next]_(Promise!vars)
  BY PromiseStep DEF SeenState, Promise!vars, Seen
<1> QED
  BY <1>1, <1>2, TypeCorrect, DecisionHolds, PTL
     DEF Spec, ImplementsAtomicRevisionStore, Promise!Spec
=============================================================================
