---------------------- MODULE SQLiteReservationProofs ----------------------
(***************************************************************************)
(* What holds of the durable reservation repository for any callers, nets, *)
(* calls and files, and that it implements the port.                       *)
(*                                                                         *)
(* A verdict is passed and acted on in two steps.  What makes that safe is *)
(* the write lock: whoever is about to acknowledge holds it, and every     *)
(* step that changes rows needs it free or its own, so the verdict is      *)
(* still true of the rows when they change.                                *)
(***************************************************************************)
EXTENDS SQLiteReservation, TLAPS

-----------------------------------------------------------------------------
(* The invariant.                                                          *)

OneCommitEach == \A y, z \in commits : y.reservation = z.reservation => y = z

RowsInv ==
    /\ initial \in [Nets -> Coordinate \cup {None}]
    /\ current \in [Nets -> Coordinate \cup {None}]
    /\ active \in [Nets -> Reservation \cup {None}]
    /\ commits \subseteq Commit
    /\ configured \in [Clients -> Openings]
    /\ \A e \in lifecycle : e.reservation \in Reservation
    /\ \A p \in partial : p.reservation \in Consumed(commits)
    /\ format # "v4" => lifecycle = {} /\ partial = {}
    /\ format = "empty" => commits = {} /\ \A n \in Nets : active[n] = None
    /\ HolderIsCurrent
    /\ MarkingsFormOneChain
    /\ OneCommitEach
    /\ LifecycleTellsHistory

Underway == {"prepare", "compare", "decide", "replay", "acknowledge", "observe"}

\* A call has the input it was made with, and a result when it is done.
CallShape(q) ==
    \/ q = Idle
    \/ /\ q.input \in Inputs
       /\ \/ /\ q.phase = "done"
             /\ q = [phase |-> "done", input |-> q.input, result |-> q.result]
          \/ /\ q.phase \in Underway
             /\ q = [phase |-> q.phase, input |-> q.input, result |-> None]
       /\ q.phase \in {"compare", "decide", "acknowledge"} => q.input.operation \in Writes
       /\ q.phase = "replay" => q.input.operation = "commit"
       /\ q.phase = "observe" => q.input.operation \in Reads

\* What a call has seen is still so.
Seen(c, q) ==
    /\ q.phase \in Underway \ {"prepare"} => format = "v4"
    /\ q.phase \in {"decide", "acknowledge"} => lock = c
    /\ q.phase = "acknowledge" /\ q.input.operation = "reserve" =>
          ReserveVerdict(current, active, commits, q.input.reservation) = "reserved"
    /\ q.phase = "acknowledge" /\ q.input.operation = "commit" =>
          /\ CommitVerdict(current, active, commits, q.input.commit) = "committed"
          /\ LifecycleOf(q.input.commit.reservation) = {Event(q.input.commit.reservation, None)}
    /\ q.phase = "replay" => RetainedFor(commits, q.input.commit.reservation) # {}

\* A success that was told is still true.
ToldTruth(q) ==
    q.phase = "done" =>
        /\ q.input.operation = "commit" /\ q.result \in {"committed", "idempotent"}
              => \E y \in commits : SameCommit(q.input.commit, y)
        /\ q.input.operation = "reserve" /\ q.result \in {"reserved", "idempotent"}
              => \/ active[q.input.reservation.net] = q.input.reservation
                 \/ q.input.reservation \in Consumed(commits)

CallInv(c, q) == CallShape(q) /\ Seen(c, q) /\ ToldTruth(q)

IInv ==
    /\ RowsInv
    /\ DOMAIN calls = Clients
    /\ \A c \in Clients : CallInv(c, calls[c])

-----------------------------------------------------------------------------
(* Types.                                                                  *)

LEMMA ReservationTypes ==
    ASSUME NEW r \in Reservation
    PROVE  /\ r # None /\ r.net \in Nets
           /\ r.at \in Coordinate /\ r.at # None /\ r.at.revision \in Nat
  BY ReservationAssumption DEF Reservation, Coordinate

LEMMA CommitTypes ==
    ASSUME NEW x \in Commit
    PROVE  /\ x.reservation \in Reservation
           /\ Successor(x) \in Coordinate /\ Successor(x) # None
           /\ Successor(x).revision = x.reservation.at.revision + 1
<1>1. x.reservation \in Reservation /\ x.successor \in Markings
  BY DEF Commit
<1>2. x.reservation.at.revision \in Nat
  BY <1>1, ReservationTypes
<1>3. Successor(x) \in Coordinate
  BY <1>1, <1>2 DEF Successor, Coordinate
<1> QED
  BY <1>1, <1>3, ReservationAssumption DEF Successor

LEMMA InputTypes ==
    ASSUME NEW x \in Inputs
    PROVE  /\ x.operation \in Writes \cup Reads
           /\ x.operation \in {"commit", "evidence"} =>
                 x.commit \in Commit /\ DOMAIN x = {"operation", "commit"}
           /\ x.operation \notin {"commit", "evidence"} =>
                 x.reservation \in Reservation /\ DOMAIN x = {"operation", "reservation"}
  BY ReservationAssumption DEF Writes, Reads

-----------------------------------------------------------------------------
(* How the rows change.                                                    *)

\* A commit from where a net has come to leads the chain on.
LEMMA ChainExtends ==
    ASSUME NEW from \in Coordinate \cup {None}, NEW to \in Coordinate, NEW retained \in SUBSET Commit,
           ChainLeads(from, to, retained), NEW x \in Commit, x.reservation.at = to
    PROVE  ChainLeads(from, Successor(x), retained \cup {x})
<1> DEFINE all == retained \cup {x}
           Rev(y) == y.reservation.at.revision
           Reached(revision) ==
              IF revision = from.revision THEN {from}
              ELSE {Successor(y) : y \in {z \in retained : Rev(z) = revision - 1}}
           ReachedNow(revision) ==
              IF revision = from.revision THEN {from}
              ELSE {Successor(y) : y \in {z \in all : Rev(z) = revision - 1}}
<1>1. to # None /\ from \in Coordinate
  BY ReservationAssumption DEF ChainLeads
<1>2. from.revision \in Nat /\ to.revision \in Nat
  BY <1>1 DEF Coordinate
<1>3. /\ {Rev(y) : y \in retained} = from.revision .. (to.revision - 1)
      /\ \A y \in retained : Reached(Rev(y)) = {y.reservation.at}
      /\ Reached(to.revision) = {to}
  BY <1>1, ReservationAssumption DEF ChainLeads
<1>4. \A y \in retained : Rev(y) \in from.revision .. (to.revision - 1)
  BY <1>3
<1>5. Rev(x) = to.revision /\ Successor(x).revision = to.revision + 1 /\ Successor(x) # None
  BY CommitTypes
<1>6. from.revision <= to.revision
  <2>1. CASE to.revision # from.revision
    <3>1. PICK y \in retained : Rev(y) = to.revision - 1
      BY <1>3, <2>1
    <3> QED
      BY <1>2, <1>4, <3>1
  <2> QED
    BY <1>2, <2>1
<1>7. \A revision \in from.revision .. to.revision : ReachedNow(revision) = Reached(revision)
  <2>1. ASSUME NEW revision \in from.revision .. to.revision
        PROVE  {z \in all : Rev(z) = revision - 1} = {z \in retained : Rev(z) = revision - 1}
    BY <1>2, <1>5
  <2> QED
    BY <2>1
<1>8. {Rev(y) : y \in all} = from.revision .. (Successor(x).revision - 1)
  <2>1. {Rev(y) : y \in all} = {Rev(y) : y \in retained} \cup {to.revision}
    BY <1>5
  <2>2. from.revision .. to.revision = (from.revision .. (to.revision - 1)) \cup {to.revision}
    BY <1>2, <1>6
  <2>3. Successor(x).revision - 1 = to.revision
    BY <1>2, <1>5
  <2> QED
    BY <1>3, <2>1, <2>2, <2>3
<1>9. \A y \in all : ReachedNow(Rev(y)) = {y.reservation.at}
  <2> HIDE DEF Reached, ReachedNow
  <2>1. ASSUME NEW y \in retained
        PROVE  ReachedNow(Rev(y)) = {y.reservation.at}
    <3>1. Rev(y) \in from.revision .. to.revision
      BY <1>2, <1>4
    <3> HIDE DEF Rev
    <3> QED
      BY <1>3, <1>7, <3>1
  <2>2. ReachedNow(Rev(x)) = {x.reservation.at}
    <3>1. to.revision \in from.revision .. to.revision
      BY <1>2, <1>6
    <3>2. ReachedNow(to.revision) = {to}
      BY <1>3, <1>7, <3>1
    <3> QED
      BY <1>5, <3>2
  <2> QED
    BY <2>1, <2>2
<1>10. ReachedNow(Successor(x).revision) = {Successor(x)}
  <2>1. {z \in all : Rev(z) = Successor(x).revision - 1} = {x}
    BY <1>2, <1>4, <1>5
  <2>2. Successor(x).revision # from.revision
    BY <1>2, <1>5, <1>6
  <2> QED
    BY <2>1, <2>2
<1> QED
  BY <1>1, <1>5, <1>8, <1>9, <1>10, ReservationAssumption DEF ChainLeads

\* What every change of the rows leaves to those who look at them: nothing
\* retained is lost, and a reservation that held a net holds it or has been
\* consumed.
RowsGrow ==
    /\ commits \subseteq commits'
    /\ format = "v4" => format' = "v4"
    /\ \A r \in Reservation : active[r.net] = r =>
          active'[r.net] = r \/ r \in Consumed(commits')

\* Migration writes the lifecycle rows that the other tables call for; a net
\* that is introduced has neither a holder nor commits.
LEMMA PrepareKeepsRows ==
    ASSUME RowsInv, NEW c \in Clients, Prepare(c)
    PROVE  RowsInv' /\ RowsGrow
<1>1. /\ Supported /\ ~ BootstrapConflicts(c) /\ Migrate /\ Bootstrap(c)
      /\ UNCHANGED <<active, commits, lock, configured>>
  BY DEF Prepare
<1>2. configured[c] \in [Nets -> Coordinate \cup {None}]
  BY ReservationAssumption DEF RowsInv
<1>3. /\ initial' \in [Nets -> Coordinate \cup {None}]
      /\ current' \in [Nets -> Coordinate \cup {None}]
  BY <1>1, <1>2 DEF Bootstrap, RowsInv
<1>4. ASSUME NEW n \in Nets
      PROVE  \/ initial'[n] = initial[n] /\ current'[n] = current[n]
             \/ /\ initial[n] = None
                /\ initial'[n] \in Coordinate /\ current'[n] = initial'[n]
  BY <1>1, <1>2 DEF Bootstrap, RowsInv
<1>5. ASSUME NEW n \in Nets, initial[n] = None
      PROVE  current[n] = None /\ CommitsOn(n, commits) = {} /\ active[n] = None
  <2>1. current[n] = None /\ CommitsOn(n, commits) = {}
    BY <1>5 DEF RowsInv, MarkingsFormOneChain, ChainLeads
  <2>2. CASE active[n] # None
    <3>1. active[n] \in Reservation /\ active[n].net = n /\ current[n] = active[n].at
      BY <2>2 DEF RowsInv, HolderIsCurrent, HoldsCurrent, MatchesCurrent
    <3> QED
      BY <2>1, <3>1, ReservationTypes
  <2> QED
    BY <2>1, <2>2
<1>6. MarkingsFormOneChain'
  <2>1. ASSUME NEW n \in Nets
        PROVE  ChainLeads(initial'[n], current'[n], CommitsOn(n, commits))
    <3>1. CASE initial'[n] = initial[n] /\ current'[n] = current[n]
      BY <3>1 DEF RowsInv, MarkingsFormOneChain
    <3>2. CASE initial[n] = None /\ initial'[n] \in Coordinate /\ current'[n] = initial'[n]
      <4>1. CommitsOn(n, commits) = {}
        BY <1>5, <3>2
      <4>2. initial'[n].revision \in Nat /\ initial'[n] # None
        BY <3>2, ReservationAssumption DEF Coordinate
      <4>3. initial'[n].revision .. (initial'[n].revision - 1) = {}
        BY <4>2
      <4> QED
        BY <3>2, <4>1, <4>2, <4>3 DEF ChainLeads
    <3> QED
      BY <1>4, <3>1, <3>2
  <2> QED
    BY <1>1, <2>1 DEF MarkingsFormOneChain
<1>7. HolderIsCurrent'
  <2>1. ASSUME NEW n \in Nets, active[n] # None
        PROVE  active[n].net = n /\ current'[n] = active[n].at /\ active[n] \notin Consumed(commits)
    <3>1. active[n].net = n /\ current[n] = active[n].at /\ active[n] \notin Consumed(commits)
      BY <2>1 DEF RowsInv, HolderIsCurrent, HoldsCurrent, MatchesCurrent
    <3> QED
      BY <1>4, <1>5, <2>1, <3>1
  <2> QED
    BY <1>1, <2>1 DEF HolderIsCurrent, HoldsCurrent, MatchesCurrent
<1>8. /\ LifecycleTellsHistory'
      /\ \A e \in lifecycle' : e.reservation \in Reservation
      /\ \A p \in partial' : p.reservation \in Consumed(commits)
  <2>1. CASE format = "v4"
    <3>1. lifecycle' = lifecycle /\ partial' = partial
      BY <1>1, <2>1 DEF Migrate
    <3> QED
      BY <1>1, <2>1, <3>1 DEF RowsInv, LifecycleTellsHistory, LifecycleOf, PartialOf
  <2>2. CASE format = "empty"
    <3>1. lifecycle' = {} /\ partial' = {} /\ commits = {} /\ \A n \in Nets : active[n] = None
      BY <1>1, <2>2 DEF Migrate, RowsInv
    <3> QED
      BY <1>1, <3>1 DEF LifecycleTellsHistory
  <2>3. CASE format \in {"v2", "v3"}
    <3>1. /\ lifecycle' = {Event(active[n], None) : n \in {m \in Nets : active[m] # None}}
          /\ partial' = {Event(y.reservation, y.identity) : y \in commits}
      BY <1>1, <2>3 DEF Migrate
    <3>2. ASSUME NEW e \in lifecycle'
          PROVE  /\ e.reservation \in Reservation
                 /\ active[e.reservation.net] = e.reservation
                 /\ e = Event(e.reservation, None)
                 /\ e.reservation \notin Consumed(commits)
      <4>1. PICK n \in Nets : active[n] # None /\ e = Event(active[n], None)
        BY <3>1
      <4>2. active[n].net = n /\ active[n] \in Reservation /\ active[n] \notin Consumed(commits)
        BY <4>1 DEF RowsInv, HolderIsCurrent, HoldsCurrent
      <4> QED
        BY <4>1, <4>2 DEF Event
    <3>3. ASSUME NEW n \in Nets, active[n] # None
          PROVE  LifecycleOf(active[n])' = {Event(active[n], None)}
      <4>1. Event(active[n], None) \in lifecycle' /\ Event(active[n], None).reservation = active[n]
        BY <3>1, <3>3 DEF Event
      <4> QED
        BY <1>1, <3>2, <4>1 DEF LifecycleOf
    <3>4. ASSUME NEW y \in commits
          PROVE  /\ LifecycleOf(y.reservation)' = {}
                 /\ PartialOf(y.reservation)' = {Event(y.reservation, y.identity)}
      <4>1. y.reservation \in Consumed(commits)
        BY DEF Consumed
      <4>2. \A e \in lifecycle' : e.reservation # y.reservation
        BY <3>2, <4>1
      <4>3. Event(y.reservation, y.identity) \in partial'
        BY <3>1
      <4>4. \A p \in partial' : p.reservation = y.reservation => p = Event(y.reservation, y.identity)
        BY <3>1 DEF Event, RowsInv, OneCommitEach
      <4> QED
        BY <1>1, <4>2, <4>3, <4>4 DEF LifecycleOf, PartialOf, Event
    <3>5. \A p \in partial' : p.reservation \in Consumed(commits)
      BY <3>1 DEF Event, Consumed
    <3> QED
      BY <1>1, <3>2, <3>3, <3>4, <3>5 DEF LifecycleTellsHistory
  <2> QED
    BY <1>1, <2>1, <2>2, <2>3 DEF Supported
<1>9. format' = "v4"
  BY <1>1 DEF Migrate
<1>10. RowsInv'
  BY <1>1, <1>3, <1>6, <1>7, <1>8, <1>9 DEF RowsInv, OneCommitEach
<1> QED
  BY <1>1, <1>9, <1>10 DEF RowsGrow

\* A reservation that has just been judged reserved has no rows yet.
LEMMA ReserveKeepsRows ==
    ASSUME RowsInv, NEW r \in Reservation, format = "v4", UNCHANGED configured,
           ReserveVerdict(current, active, commits, r) = "reserved", ApplyReserve(r)
    PROVE  RowsInv' /\ RowsGrow /\ active'[r.net] = r
<1>1. /\ active' = [active EXCEPT ![r.net] = r]
      /\ lifecycle' = lifecycle \cup {Event(r, None)}
      /\ UNCHANGED <<format, initial, current, commits, partial>>
  BY DEF ApplyReserve
<1>2. current[r.net] = r.at /\ active[r.net] = None /\ r \notin Consumed(commits)
  BY DEF ReserveVerdict, MatchesCurrent
<1>3. /\ r.net \in Nets /\ r # None
      /\ active' \in [Nets -> Reservation \cup {None}] /\ active'[r.net] = r
      /\ \A n \in Nets \ {r.net} : active'[n] = active[n]
  BY <1>1, ReservationTypes DEF RowsInv
<1>4. HolderIsCurrent'
  BY <1>1, <1>2, <1>3 DEF RowsInv, HolderIsCurrent, HoldsCurrent, MatchesCurrent
<1>5. \A e \in lifecycle : e.reservation # r
  BY <1>2, <1>3 DEF RowsInv, LifecycleTellsHistory
<1>6. ASSUME NEW q, q # r
      PROVE  LifecycleOf(q)' = LifecycleOf(q)
  BY <1>1, <1>6 DEF LifecycleOf, Event
<1>7. LifecycleOf(r)' = {Event(r, None)}
  BY <1>1, <1>5 DEF LifecycleOf, Event
<1>8. LifecycleTellsHistory'
  <2>1. ASSUME NEW e \in lifecycle'
        PROVE  e.reservation \in Consumed(commits) \/ active'[e.reservation.net] = e.reservation
    <3>1. CASE e = Event(r, None)
      BY <1>3, <3>1 DEF Event
    <3>2. CASE e \in lifecycle
      <4>1. e.reservation \in Reservation
            /\ (e.reservation \in Consumed(commits) \/ active[e.reservation.net] = e.reservation)
        BY <3>2 DEF RowsInv, LifecycleTellsHistory
      <4> QED
        BY <1>2, <1>3, <4>1, ReservationTypes
    <3> QED
      BY <1>1, <3>1, <3>2
  <2>2. ASSUME NEW n \in Nets, active'[n] # None
        PROVE  {e \in lifecycle' : e.reservation = active'[n]} = {Event(active'[n], None)}
    <3>1. PICK q : q = active'[n]
      OBVIOUS
    <3>2. CASE n = r.net
      BY <1>3, <1>7, <3>2 DEF LifecycleOf
    <3>3. CASE n # r.net
      <4>1. q = active[n] /\ q # None /\ q.net = n
        BY <1>3, <2>2, <3>1, <3>3 DEF RowsInv, HolderIsCurrent, HoldsCurrent
      <4>2. LifecycleOf(q) = {Event(q, None)}
        BY <4>1 DEF RowsInv, LifecycleTellsHistory
      <4>3. LifecycleOf(q)' = {Event(q, None)}
        BY <1>6, <3>3, <4>1, <4>2
      <4> QED
        BY <3>1, <4>3 DEF LifecycleOf
    <3> QED
      BY <3>2, <3>3
  <2>3. ASSUME NEW y \in commits
        PROVE  LifecycleOf(y.reservation)' = LifecycleOf(y.reservation)
               /\ PartialOf(y.reservation)' = PartialOf(y.reservation)
    <3>1. y.reservation # r
      BY <1>2 DEF Consumed
    <3> QED
      BY <1>1, <1>6, <3>1 DEF PartialOf
  <2> QED
    <3>1. ASSUME NEW y \in commits
          PROVE  IF PartialOf(y.reservation)' = {}
                 THEN LifecycleOf(y.reservation)' = ExpectedLifecycle(y.reservation, y.identity)
                 ELSE /\ LifecycleOf(y.reservation)' = {}
                      /\ PartialOf(y.reservation)' = {Event(y.reservation, y.identity)}
      BY <2>3 DEF RowsInv, LifecycleTellsHistory
    <3> QED
      BY <1>1, <2>1, <2>2, <3>1 DEF LifecycleTellsHistory, LifecycleOf, ExpectedLifecycle
<1>9. MarkingsFormOneChain' /\ OneCommitEach'
  BY <1>1 DEF RowsInv, MarkingsFormOneChain, OneCommitEach
<1>10. /\ \A e \in lifecycle' : e.reservation \in Reservation
       /\ \A p \in partial' : p.reservation \in Consumed(commits')
  BY <1>1 DEF RowsInv, Event
<1>11. RowsInv'
  BY <1>1, <1>3, <1>4, <1>8, <1>9, <1>10 DEF RowsInv
<1>12. \A q \in Reservation : active[q.net] = q => active'[q.net] = q
  BY <1>2, <1>3, ReservationTypes
<1> QED
  BY <1>1, <1>3, <1>11, <1>12 DEF RowsGrow

\* A commit that has just been judged to be made consumes the holder of its
\* net, and no other rows speak of that.
LEMMA CommitKeepsRows ==
    ASSUME RowsInv, NEW x \in Commit, format = "v4", UNCHANGED configured,
           CommitVerdict(current, active, commits, x) = "committed",
           LifecycleOf(x.reservation) = {Event(x.reservation, None)}, ApplyCommit(x)
    PROVE  RowsInv' /\ RowsGrow /\ x \in commits'
<1> DEFINE r == x.reservation
<1>1. /\ commits' = commits \cup {x}
      /\ lifecycle' = lifecycle \cup {Event(r, x.identity)}
      /\ active' = [active EXCEPT ![r.net] = None]
      /\ current' = [current EXCEPT ![r.net] = Successor(x)]
      /\ UNCHANGED <<format, initial, partial>>
  BY DEF ApplyCommit
<1>2. RetainedFor(commits, r) = {} /\ current[r.net] = r.at /\ active[r.net] = r
  BY DEF CommitVerdict, MatchesCurrent
<1>3. r \notin Consumed(commits) /\ Consumed(commits') = Consumed(commits) \cup {r}
  BY <1>1, <1>2 DEF RetainedFor, Consumed
<1>4. r \in Reservation /\ r.net \in Nets /\ r # None /\ r.at \in Coordinate
      /\ Successor(x) \in Coordinate
  BY CommitTypes, ReservationTypes
<1>5. /\ active' \in [Nets -> Reservation \cup {None}]
      /\ current' \in [Nets -> Coordinate \cup {None}]
      /\ active'[r.net] = None /\ current'[r.net] = Successor(x)
      /\ \A n \in Nets \ {r.net} : active'[n] = active[n] /\ current'[n] = current[n]
  BY <1>1, <1>4 DEF RowsInv
<1>6. ASSUME NEW n \in Nets, active'[n] # None
      PROVE  /\ active'[n] = active[n] /\ active[n].net = n /\ active[n] # r
             /\ current'[n] = current[n]
    BY <1>5, <1>6 DEF RowsInv, HolderIsCurrent, HoldsCurrent
<1>7. HolderIsCurrent'
  <2>1. ASSUME NEW n \in Nets, active'[n] # None
        PROVE  /\ active'[n].net = n /\ current'[n] = active'[n].at
               /\ active'[n] \notin Consumed(commits')
    <3>1. active[n].net = n /\ current[n] = active[n].at /\ active[n] \notin Consumed(commits)
      BY <1>6, <2>1 DEF RowsInv, HolderIsCurrent, HoldsCurrent, MatchesCurrent
    <3> QED
      BY <1>3, <1>6, <2>1, <3>1
  <2> QED
    BY <2>1 DEF HolderIsCurrent, HoldsCurrent, MatchesCurrent
<1>8. MarkingsFormOneChain'
  <2>1. ASSUME NEW n \in Nets
        PROVE  ChainLeads(initial[n], current'[n], CommitsOn(n, commits'))
    <3>1. ChainLeads(initial[n], current[n], CommitsOn(n, commits))
      BY DEF RowsInv, MarkingsFormOneChain
    <3>2. CASE n = r.net
      <4>1. CommitsOn(n, commits') = CommitsOn(n, commits) \cup {x}
        BY <1>1, <3>2 DEF CommitsOn
      <4>2. initial[n] \in Coordinate \cup {None} /\ CommitsOn(n, commits) \in SUBSET Commit
        BY DEF RowsInv, CommitsOn
      <4>3. ChainLeads(initial[n], Successor(x), CommitsOn(n, commits) \cup {x})
        BY <1>2, <1>4, <3>1, <3>2, <4>2, ChainExtends
      <4> QED
        BY <1>5, <3>2, <4>1, <4>3
    <3>3. CASE n # r.net
      <4>1. CommitsOn(n, commits') = CommitsOn(n, commits)
        BY <1>1, <3>3 DEF CommitsOn
      <4> QED
        BY <1>5, <3>1, <3>3, <4>1
    <3> QED
      BY <3>2, <3>3
  <2> QED
    BY <1>1, <2>1 DEF MarkingsFormOneChain
<1>9. OneCommitEach'
  BY <1>1, <1>2 DEF RowsInv, OneCommitEach, RetainedFor
<1>10. ASSUME NEW q, q # r
       PROVE  LifecycleOf(q)' = LifecycleOf(q)
  BY <1>1, <1>10 DEF LifecycleOf, Event
<1>11. LifecycleOf(r)' = ExpectedLifecycle(r, x.identity) /\ PartialOf(r)' = {}
  BY <1>1, <1>3 DEF RowsInv, LifecycleOf, PartialOf, Event, ExpectedLifecycle
<1>12. LifecycleTellsHistory'
  <2>1. ASSUME NEW e \in lifecycle'
        PROVE  e.reservation \in Consumed(commits') \/ active'[e.reservation.net] = e.reservation
    <3>1. CASE e = Event(r, x.identity)
      BY <1>3, <3>1 DEF Event
    <3>2. CASE e \in lifecycle
      <4>1. e.reservation \in Reservation
            /\ (e.reservation \in Consumed(commits) \/ active[e.reservation.net] = e.reservation)
        BY <3>2 DEF RowsInv, LifecycleTellsHistory
      <4> QED
        BY <1>2, <1>3, <1>5, <4>1, ReservationTypes
    <3> QED
      BY <1>1, <3>1, <3>2
  <2>2. ASSUME NEW n \in Nets, active'[n] # None
        PROVE  {e \in lifecycle' : e.reservation = active'[n]} = {Event(active'[n], None)}
    <3>1. PICK q : q = active'[n]
      OBVIOUS
    <3>2. q = active[n] /\ q # None /\ q # r
      BY <1>6, <2>2, <3>1
    <3>3. LifecycleOf(q) = {Event(q, None)}
      BY <3>2 DEF RowsInv, LifecycleTellsHistory
    <3>4. LifecycleOf(q)' = {Event(q, None)}
      BY <1>10, <3>2, <3>3
    <3> QED
      BY <3>1, <3>4 DEF LifecycleOf
  <2>3. ASSUME NEW y \in commits
        PROVE  LifecycleOf(y.reservation)' = LifecycleOf(y.reservation)
               /\ PartialOf(y.reservation)' = PartialOf(y.reservation)
    <3>1. y.reservation # r
      BY <1>3 DEF Consumed
    <3> QED
      BY <1>1, <1>10, <3>1 DEF PartialOf
  <2>4. ASSUME NEW y \in commits'
        PROVE  IF PartialOf(y.reservation)' = {}
               THEN LifecycleOf(y.reservation)' = ExpectedLifecycle(y.reservation, y.identity)
               ELSE /\ LifecycleOf(y.reservation)' = {}
                    /\ PartialOf(y.reservation)' = {Event(y.reservation, y.identity)}
    <3>1. CASE y = x
      BY <1>11, <3>1
    <3>2. CASE y \in commits
      BY <2>3, <3>2 DEF RowsInv, LifecycleTellsHistory
    <3> QED
      BY <1>1, <3>1, <3>2
  <2> QED
    BY <2>1, <2>2, <2>4 DEF LifecycleTellsHistory, LifecycleOf, ExpectedLifecycle
<1>13. /\ \A e \in lifecycle' : e.reservation \in Reservation
       /\ \A p \in partial' : p.reservation \in Consumed(commits')
  <2>1. Event(r, x.identity).reservation = r
    BY DEF Event
  <2> HIDE DEF r
  <2> QED
    BY <1>1, <1>3, <1>4, <2>1 DEF RowsInv
<1>14. RowsInv'
  BY <1>1, <1>5, <1>7, <1>8, <1>9, <1>12, <1>13 DEF RowsInv
<1>15. \A q \in Reservation : active[q.net] = q => active'[q.net] = q \/ q \in Consumed(commits')
  BY <1>2, <1>3, <1>5, ReservationTypes
<1> QED
  BY <1>1, <1>14, <1>15 DEF RowsGrow

-----------------------------------------------------------------------------
(* How the calls move.                                                     *)

\* What a call that does nothing knows, while rows only grow, or another call
\* has the lock.
LEMMA CallStays ==
    ASSUME NEW c, NEW q, CallInv(c, q), RowsGrow,
           \/ UNCHANGED <<current, active, commits, lifecycle, lock>>
           \/ lock # c
    PROVE  CallInv(c, q)'
<1>1. q.phase = "done" \/ q.phase \in Underway => q.input \in Inputs
  BY DEF CallInv, CallShape, Idle, Underway
<1>2. Seen(c, q)'
  <2>1. q.phase \in Underway \ {"prepare"} => format' = "v4"
    BY DEF CallInv, Seen, RowsGrow
  <2>2. q.phase \in {"decide", "acknowledge"} =>
           lock = c /\ UNCHANGED <<current, active, commits, lifecycle, lock>>
    BY DEF CallInv, Seen
  <2>3. q.phase = "replay" => RetainedFor(commits', q.input.commit.reservation) # {}
    BY DEF CallInv, Seen, RowsGrow, RetainedFor
  <2> QED
    BY <2>1, <2>2, <2>3 DEF CallInv, Seen, LifecycleOf
<1>3. ToldTruth(q)'
  <2>1. ASSUME q.phase = "done", q.input.operation = "commit",
               q.result \in {"committed", "idempotent"}
        PROVE  \E y \in commits' : SameCommit(q.input.commit, y)
    BY <2>1 DEF CallInv, ToldTruth, RowsGrow
  <2>2. ASSUME q.phase = "done", q.input.operation = "reserve",
               q.result \in {"reserved", "idempotent"}
        PROVE  \/ active'[q.input.reservation.net] = q.input.reservation
               \/ q.input.reservation \in Consumed(commits')
    <3>1. q.input.reservation \in Reservation
      BY <1>1, <2>2, InputTypes
    <3>2. Consumed(commits) \subseteq Consumed(commits')
      BY DEF RowsGrow, Consumed
    <3> QED
      BY <2>2, <3>1, <3>2 DEF CallInv, ToldTruth, RowsGrow
  <2> QED
    BY <2>1, <2>2 DEF ToldTruth
<1> QED
  BY <1>2, <1>3 DEF CallInv, CallShape

LEMMA UnchangedRows ==
    ASSUME RowsInv, UNCHANGED <<rows, configured>>
    PROVE  RowsInv' /\ RowsGrow
<1>1. LifecycleTellsHistory'
  BY DEF RowsInv, rows, LifecycleTellsHistory, LifecycleOf, PartialOf
<1> QED
  BY <1>1 DEF RowsInv, rows, RowsGrow, OneCommitEach, MarkingsFormOneChain, HolderIsCurrent

\* One call moves; the others do not have the lock, or it keeps it.
LEMMA OneCallMoves ==
    ASSUME IInv, NEW c \in Clients, NEW g, calls' = [calls EXCEPT ![c] = g],
           RowsInv', RowsGrow, CallInv(c, g)',
           \/ UNCHANGED <<current, active, commits, lifecycle, lock>>
           \/ lock = None
           \/ lock = c
    PROVE  IInv'
<1>1. DOMAIN calls' = Clients /\ calls'[c] = g
      /\ \A d \in Clients : d # c => calls'[d] = calls[d]
  BY DEF IInv
<1>2. ASSUME NEW d \in Clients
      PROVE  CallInv(d, calls[d])'
  <2>1. PICK q : q = calls'[d]
    OBVIOUS
  <2>2. CallInv(d, q)'
    <3>1. CASE d = c
      BY <1>1, <2>1, <3>1
    <3>2. CASE d # c
      <4>1. CallInv(d, q)
        BY <1>1, <2>1, <3>2 DEF IInv
      <4>2. lock = None \/ lock = c => lock # d
        BY <3>2, ReservationAssumption
      <4> QED
        BY <4>1, <4>2, CallStays
    <3> QED
      BY <3>1, <3>2
  <2> QED
    BY <2>1, <2>2 DEF CallInv, CallShape, Seen, ToldTruth, LifecycleOf
<1> QED
  BY <1>1, <1>2 DEF IInv

\* A call that is under way: where it is, and that it is whole.
LEMMA CallUnderway ==
    ASSUME IInv, NEW c \in Clients, calls[c].phase \in Underway
    PROVE  /\ calls[c].input \in Inputs
           /\ calls[c] = [phase |-> calls[c].phase, input |-> calls[c].input, result |-> None]
           /\ Seen(c, calls[c]) /\ RowsInv
  BY DEF IInv, CallInv, CallShape, Idle, Underway

Done(x, status) == [phase |-> "done", input |-> x, result |-> status]

\* An answer that claims no success ends a call, and so does one that is true.
LEMMA ReturnKeeps ==
    ASSUME IInv, NEW c \in Clients, NEW status, Return(c, status),
           calls[c].phase \in Underway, RowsInv', RowsGrow,
           NEW x, x = calls[c].input, ToldTruth(Done(x, status))',
           \/ UNCHANGED <<current, active, commits, lifecycle, lock>>
           \/ lock = None
           \/ lock = c
    PROVE  IInv'
<1>1. PICK g : g = Done(x, status)
  OBVIOUS
<1>2. g.phase = "done" /\ g.input = x /\ g.result = status
  BY <1>1 DEF Done
<1>3. CallShape(g)
  BY <1>1, <1>2, CallUnderway DEF CallShape, Done
<1>4. CallInv(c, g)'
  <2>1. ToldTruth(g)'
    BY <1>1, <1>2 DEF ToldTruth, Done
  <2>2. Seen(c, g)'
    BY <1>2 DEF Seen, Underway
  <2> QED
    BY <1>3, <2>1, <2>2 DEF CallInv, CallShape
<1>5. calls' = [calls EXCEPT ![c] = g]
  BY <1>1 DEF Return, Done
<1> QED
  BY <1>4, <1>5, OneCallMoves

\* A call that goes on to another phase.
LEMMA MoveKeeps ==
    ASSUME IInv, NEW c \in Clients, NEW phase \in Underway, MoveTo(c, phase),
           calls[c].phase \in Underway, RowsInv', RowsGrow, format' = "v4",
           phase \in {"compare", "decide", "acknowledge"} => calls[c].input.operation \in Writes,
           phase = "replay" => /\ calls[c].input.operation = "commit"
                               /\ RetainedFor(commits', calls[c].input.commit.reservation) # {},
           phase = "observe" => calls[c].input.operation \in Reads,
           phase \in {"decide", "acknowledge"} => lock' = c,
           phase = "acknowledge" /\ calls[c].input.operation = "reserve" =>
              ReserveVerdict(current', active', commits', calls[c].input.reservation) = "reserved",
           phase = "acknowledge" /\ calls[c].input.operation = "commit" =>
              /\ CommitVerdict(current', active', commits', calls[c].input.commit) = "committed"
              /\ {e \in lifecycle' : e.reservation = calls[c].input.commit.reservation}
                    = {Event(calls[c].input.commit.reservation, None)},
           \/ UNCHANGED <<current, active, commits, lifecycle, lock>>
           \/ lock = None
           \/ lock = c
    PROVE  IInv'
<1>1. PICK x : x = calls[c].input
  OBVIOUS
<1>2. PICK g : g = [phase |-> phase, input |-> x, result |-> None]
  OBVIOUS
<1>3. x \in Inputs /\ g.phase = phase /\ g.input = x
  BY <1>1, <1>2, CallUnderway
<1>4. CallShape(g)
  BY <1>1, <1>2, <1>3 DEF CallShape, Underway
<1>5. Seen(c, g)'
  BY <1>1, <1>3 DEF Seen, LifecycleOf
<1>6. ToldTruth(g)'
  BY <1>3 DEF ToldTruth, Underway
<1>7. calls' = [calls EXCEPT ![c] = g]
  <2>1. calls[c] = [phase |-> calls[c].phase, input |-> x, result |-> None]
    BY <1>1, CallUnderway
  <2>2. [calls[c] EXCEPT !.phase = phase] = g
    BY <1>2, <2>1
  <2> QED
    BY <2>2 DEF MoveTo
<1> QED
  BY <1>4, <1>5, <1>6, <1>7, OneCallMoves DEF CallInv, CallShape

-----------------------------------------------------------------------------
(* The steps.                                                              *)

\* A call ends without a success, or one that is true, and no rows change.
LEMMA AnswerKeeps ==
    ASSUME IInv, NEW c \in Clients, NEW status, Return(c, status), calls[c].phase \in Underway,
           UNCHANGED <<rows, configured>>, lock' = lock \/ Release(c),
           NEW x, x = calls[c].input, ToldTruth(Done(x, status))
    PROVE  IInv'
<1>1. RowsInv' /\ RowsGrow
  BY UnchangedRows DEF IInv
<1>2. ToldTruth(Done(x, status))'
  BY DEF ToldTruth, Done, rows
<1>3. \/ UNCHANGED <<current, active, commits, lifecycle, lock>>
      \/ lock = c
  BY DEF rows, Release
<1> QED
  BY <1>1, <1>2, <1>3, ReturnKeeps

LEMMA FailureIsTrue ==
    ASSUME NEW x, NEW status, status \notin {"reserved", "committed", "idempotent"}
    PROVE  ToldTruth(Done(x, status))
  BY DEF ToldTruth, Done

LEMMA RequestKeeps ==
    ASSUME IInv, NEW c \in Clients, NEW x \in Inputs, Request(c, x)
    PROVE  IInv'
<1> DEFINE g == [phase |-> "prepare", input |-> x, result |-> None]
<1>1. CallInv(c, g)'
  BY DEF CallInv, CallShape, Seen, ToldTruth, Underway
<1>2. RowsInv' /\ RowsGrow
  BY UnchangedRows DEF IInv, Request
<1>3. calls' = [calls EXCEPT ![c] = g] /\ UNCHANGED <<current, active, commits, lifecycle, lock>>
  BY DEF Request, rows
<1> HIDE DEF g
<1> QED
  BY <1>1, <1>2, <1>3, OneCallMoves

LEMMA IdleIsTrue ==
    ASSUME NEW c
    PROVE  CallInv(c, Idle)'
  BY DEF CallInv, CallShape, Seen, ToldTruth, Idle, Underway

\* The rows of a call whose verdict has been passed are written.
LEMMA ApplyKeepsRows ==
    ASSUME IInv, NEW c \in Clients, Running(c, {"acknowledge"}, Writes),
           Apply(calls[c].input), UNCHANGED configured
    PROVE  /\ RowsInv' /\ RowsGrow /\ lock = c
           /\ calls[c].input.operation = "reserve" =>
                 active'[calls[c].input.reservation.net] = calls[c].input.reservation
           /\ calls[c].input.operation = "commit" => calls[c].input.commit \in commits'
<1>1. calls[c].phase = "acknowledge" /\ calls[c].input.operation \in {"reserve", "commit"}
  BY DEF Running, Writes
<1>2. calls[c].input \in Inputs /\ Seen(c, calls[c]) /\ RowsInv
  BY <1>1, CallUnderway DEF Underway
<1>3. lock = c /\ format = "v4"
  BY <1>1, <1>2 DEF Seen, Underway
<1>4. CASE calls[c].input.operation = "reserve"
  <2>1. PICK r : r = calls[c].input.reservation
    OBVIOUS
  <2>2. r \in Reservation /\ ApplyReserve(r)
        /\ ReserveVerdict(current, active, commits, r) = "reserved"
    BY <1>1, <1>2, <1>4, <2>1, InputTypes DEF Seen, Apply
  <2> QED
    BY <1>2, <1>3, <1>4, <2>1, <2>2, ReserveKeepsRows
<1>5. CASE calls[c].input.operation = "commit"
  <2>1. PICK x : x = calls[c].input.commit
    OBVIOUS
  <2>2. /\ x \in Commit /\ ApplyCommit(x)
        /\ CommitVerdict(current, active, commits, x) = "committed"
        /\ LifecycleOf(x.reservation) = {Event(x.reservation, None)}
    BY <1>1, <1>2, <1>5, <2>1, InputTypes DEF Seen, Apply
  <2> QED
    BY <1>2, <1>3, <1>5, <2>1, <2>2, CommitKeepsRows
<1> QED
  BY <1>1, <1>4, <1>5

LEMMA CrashKeeps ==
    ASSUME IInv, NEW c \in Clients, Crash(c)
    PROVE  IInv'
<1>1. CASE Running(c, {"acknowledge"}, Writes) /\ Apply(calls[c].input)
  <2>1. RowsInv' /\ RowsGrow /\ lock = c
    BY <1>1, ApplyKeepsRows DEF Crash
  <2> QED
    BY <2>1, IdleIsTrue, OneCallMoves DEF Crash
<1>2. CASE UNCHANGED rows
  <2>1. RowsInv' /\ RowsGrow
    BY <1>2, UnchangedRows DEF Crash, IInv
  <2>2. \/ UNCHANGED <<current, active, commits, lifecycle, lock>>
        \/ lock = c
    BY <1>2 DEF Crash, Release, rows
  <2> QED
    BY <2>1, <2>2, IdleIsTrue, OneCallMoves DEF Crash
<1> QED
  BY <1>1, <1>2 DEF Crash

LEMMA ReceiveKeeps ==
    ASSUME IInv, NEW c \in Clients, Receive(c)
    PROVE  IInv'
<1>1. RowsInv' /\ RowsGrow
  BY UnchangedRows DEF IInv, Receive
<1>2. calls' = [calls EXCEPT ![c] = Idle] /\ UNCHANGED <<current, active, commits, lifecycle, lock>>
  BY DEF Receive, rows
<1> QED
  BY <1>1, <1>2, IdleIsTrue, OneCallMoves

\* A success is written and told, or written and told to be uncertain.
LEMMA AcknowledgeKeeps ==
    ASSUME IInv, NEW c \in Clients, Acknowledge(c) \/ AcknowledgeFault(c)
    PROVE  IInv'
<1>1. /\ Running(c, {"acknowledge"}, Writes) /\ UNCHANGED configured /\ Release(c)
      /\ calls[c].phase \in Underway
  BY DEF Acknowledge, AcknowledgeFault, Running, Underway
<1>2. PICK x : x = calls[c].input
  OBVIOUS
<1>3. ASSUME NEW status, Return(c, status), Apply(x),
             status = "indeterminate"
                \/ status = IF x.operation = "reserve" THEN "reserved" ELSE "committed"
      PROVE  IInv'
  <2>1. /\ RowsInv' /\ RowsGrow /\ lock = c
        /\ x.operation = "reserve" => active'[x.reservation.net] = x.reservation
        /\ x.operation = "commit" => x.commit \in commits'
    BY <1>1, <1>2, <1>3, ApplyKeepsRows
  <2>2. ToldTruth(Done(x, status))'
    <3>1. x.operation = "commit" => SameCommit(x.commit, x.commit)
      BY DEF SameCommit
    <3> QED
      BY <1>3, <2>1, <3>1 DEF ToldTruth, Done
  <2> QED
    BY <1>1, <1>2, <1>3, <2>1, <2>2, ReturnKeeps
<1>4. CASE Return(c, "indeterminate") /\ UNCHANGED rows
  BY <1>1, <1>2, <1>4, FailureIsTrue, AnswerKeeps
<1> QED
  BY <1>2, <1>3, <1>4 DEF Acknowledge, AcknowledgeFault

LEMMA PrepareKeeps ==
    ASSUME IInv, NEW c \in Clients, Prepare(c)
    PROVE  IInv'
<1>1. calls[c].phase \in Underway /\ lock = None
  BY DEF Prepare, Underway
<1>2. calls[c].input \in Inputs
  BY <1>1, CallUnderway
<1>3. RowsInv' /\ RowsGrow /\ format' = "v4"
  BY PrepareKeepsRows DEF IInv, Prepare, Migrate
<1>4. PICK phase \in {"compare", "observe"} :
        /\ MoveTo(c, phase)
        /\ phase = "compare" => calls[c].input.operation \in Writes
        /\ phase = "observe" => calls[c].input.operation \notin Writes
  BY DEF Prepare
<1>5. phase = "observe" => calls[c].input.operation \in Reads
  BY <1>2, <1>4, InputTypes
<1> QED
  BY <1>1, <1>3, <1>4, <1>5, MoveKeeps DEF Underway

\* Steps that end a call without touching a row.
LEMMA EndsKeep ==
    ASSUME IInv, NEW c \in Clients, RefuseToPrepare(c) \/ Observe(c) \/ Fault(c)
    PROVE  IInv'
<1>1. PICK x : x = calls[c].input
  OBVIOUS
<1>2. calls[c].phase \in Underway /\ UNCHANGED <<rows, configured>>
      /\ (lock' = lock \/ Release(c))
  BY DEF RefuseToPrepare, Observe, Fault, Running, Underway
<1>3. PICK status : Return(c, status) /\ status \notin {"reserved", "committed", "idempotent"}
  <2>1. CASE Observe(c)
    <3>1. x \in Inputs /\ x.operation \in Reads
      BY <1>1, <1>2, <2>1, CallUnderway DEF Observe, Running
    <3>2. ReadStatus(x) \notin {"reserved", "committed", "idempotent"}
      BY <3>1 DEF ReadStatus, Reads, RevalidateVerdict, LifecycleStatus, SafetyStatus
    <3> QED
      BY <1>1, <2>1, <3>2 DEF Observe
  <2> QED
    BY <2>1 DEF RefuseToPrepare, Fault
<1> QED
  BY <1>1, <1>2, <1>3, FailureIsTrue, AnswerKeeps

LEMMA BeginKeeps ==
    ASSUME IInv, NEW c \in Clients, BeginImmediate(c)
    PROVE  IInv'
<1>1. /\ calls[c].phase = "compare" /\ calls[c].input.operation \in Writes
      /\ lock = None /\ lock' = c /\ MoveTo(c, "decide") /\ UNCHANGED <<rows, configured>>
  BY DEF BeginImmediate, Running
<1>2. RowsInv' /\ RowsGrow
  BY <1>1, UnchangedRows DEF IInv
<1>3. format' = "v4"
  BY <1>1, CallUnderway DEF Seen, Underway, rows
<1> QED
  BY <1>1, <1>2, <1>3, MoveKeeps DEF Underway

\* The caller is refused, told what is so, or allowed to write.
LEMMA DecideReserveKeeps ==
    ASSUME IInv, NEW c \in Clients, DecideReserve(c)
    PROVE  IInv'
<1>1. calls[c].phase = "decide" /\ calls[c].phase \in Underway
      /\ calls[c].input.operation = "reserve"
  BY DEF DecideReserve, Running, Underway
<1>2. PICK x : x = calls[c].input
  OBVIOUS
<1>3. PICK verdict : verdict = ReserveVerdict(current, active, commits, x.reservation)
  OBVIOUS
<1>4. lock = c /\ format = "v4"
  BY <1>1, CallUnderway DEF Seen, Underway
<1>5. CASE verdict = "reserved" /\ Proceed(c)
  <2>1. RowsInv' /\ RowsGrow
    BY <1>5, UnchangedRows DEF IInv, Proceed
  <2>2. UNCHANGED <<rows, lock>> /\ MoveTo(c, "acknowledge")
    BY <1>5 DEF Proceed
  <2>3. ReserveVerdict(current', active', commits', calls[c].input.reservation) = "reserved"
    BY <1>2, <1>3, <1>5, <2>2 DEF rows
  <2> QED
    BY <1>1, <1>4, <2>1, <2>2, <2>3, MoveKeeps DEF Underway, Writes, rows
<1>6. ASSUME verdict # "reserved", NEW status \in {"error", verdict}, Refuse(c, status)
      PROVE  IInv'
  <2>1. ToldTruth(Done(x, status))
    <3>1. verdict = "idempotent" => active[x.reservation.net] = x.reservation
      BY <1>3 DEF ReserveVerdict
    <3>2. verdict \notin {"reserved", "committed"}
      BY <1>3, <1>6 DEF ReserveVerdict
    <3> QED
      BY <1>1, <1>2, <1>6, <3>1, <3>2 DEF ToldTruth, Done
  <2> QED
    BY <1>1, <1>2, <1>6, <2>1, AnswerKeeps DEF Refuse
<1> QED
  BY <1>2, <1>3, <1>5, <1>6 DEF DecideReserve

LEMMA DecideCommitKeeps ==
    ASSUME IInv, NEW c \in Clients, DecideCommit(c)
    PROVE  IInv'
<1>1. calls[c].phase = "decide" /\ calls[c].phase \in Underway
      /\ calls[c].input.operation = "commit"
  BY DEF DecideCommit, Running, Underway
<1>2. PICK x : x = calls[c].input
  OBVIOUS
<1>3. PICK verdict : verdict = CommitVerdict(current, active, commits, x.commit)
  OBVIOUS
<1>4. lock = c /\ format = "v4"
  BY <1>1, CallUnderway DEF Seen, Underway
<1>5. CASE /\ RetainedFor(commits, x.commit.reservation) # {}
           /\ MoveTo(c, "replay") /\ Release(c) /\ UNCHANGED <<rows, configured>>
  <2>1. RowsInv' /\ RowsGrow
    BY <1>5, UnchangedRows DEF IInv
  <2>2. RetainedFor(commits', calls[c].input.commit.reservation) # {} /\ format' = "v4"
    BY <1>2, <1>4, <1>5 DEF rows
  <2> QED
    BY <1>1, <1>4, <1>5, <2>1, <2>2, MoveKeeps DEF Underway, rows
<1>6. CASE /\ verdict = "committed" /\ Proceed(c)
           /\ LifecycleOf(x.commit.reservation) = {Event(x.commit.reservation, None)}
  <2>1. RowsInv' /\ RowsGrow
    BY <1>6, UnchangedRows DEF IInv, Proceed
  <2>2. UNCHANGED <<rows, lock>> /\ MoveTo(c, "acknowledge")
    BY <1>6 DEF Proceed
  <2>3. /\ CommitVerdict(current', active', commits', calls[c].input.commit) = "committed"
        /\ {e \in lifecycle' : e.reservation = calls[c].input.commit.reservation}
              = {Event(calls[c].input.commit.reservation, None)}
    BY <1>2, <1>3, <1>6, <2>2 DEF rows, LifecycleOf
  <2> QED
    BY <1>1, <1>4, <2>1, <2>2, <2>3, MoveKeeps DEF Underway, Writes, rows
<1>7. ASSUME RetainedFor(commits, x.commit.reservation) = {},
             NEW status \in {"error", verdict}, status # "committed", Refuse(c, status)
      PROVE  IInv'
  <2>1. status \notin {"reserved", "committed", "idempotent"}
    BY <1>3, <1>7 DEF CommitVerdict
  <2> QED
    BY <1>1, <1>2, <1>7, <2>1, FailureIsTrue, AnswerKeeps DEF Refuse
<1> QED
  BY <1>2, <1>3, <1>5, <1>6, <1>7 DEF DecideCommit

LEMMA CompareReplayKeeps ==
    ASSUME IInv, NEW c \in Clients, CompareReplay(c)
    PROVE  IInv'
<1>1. calls[c].phase = "replay" /\ calls[c].phase \in Underway
      /\ calls[c].input.operation = "commit" /\ UNCHANGED <<rows, lock, configured>>
  BY DEF CompareReplay, Running, Underway
<1>2. PICK x : x = calls[c].input
  OBVIOUS
<1>3. PICK y \in commits : y.reservation = x.commit.reservation
  BY <1>1, <1>2, CallUnderway DEF Seen, RetainedFor
<1>4. CASE /\ \A z \in RetainedFor(commits, x.commit.reservation) : SameCommit(x.commit, z)
           /\ Return(c, "idempotent")
  <2>1. SameCommit(x.commit, y)
    BY <1>3, <1>4 DEF RetainedFor
  <2>2. ToldTruth(Done(x, "idempotent"))
    BY <1>1, <1>2, <2>1 DEF ToldTruth, Done
  <2> QED
    BY <1>1, <1>2, <1>4, <2>2, AnswerKeeps
<1>5. CASE Return(c, "conflict")
  BY <1>1, <1>2, <1>5, FailureIsTrue, AnswerKeeps
<1> QED
  BY <1>2, <1>4, <1>5 DEF CompareReplay

-----------------------------------------------------------------------------
(* The invariant is inductive.                                             *)

LEMMA InitInvariant == Init => IInv
<1> SUFFICES ASSUME Init
             PROVE  IInv
  OBVIOUS
<1>1. PICK f \in Files : /\ format = f.format /\ initial = f.initial /\ current = f.current
                         /\ active = f.active /\ commits = f.commits
  BY DEF Init
<1>2. LeftByProgram(f)
  BY ReservationAssumption
<1>3. RowsInv
  BY <1>1, <1>2 DEF Init, RowsInv, LeftByProgram, HolderIsCurrent, MarkingsFormOneChain,
                    OneCommitEach, LifecycleTellsHistory
<1>4. ASSUME NEW c \in Clients
      PROVE  CallInv(c, calls[c])
  BY <1>4 DEF Init, CallInv, CallShape, Seen, ToldTruth, Idle, Underway
<1> QED
  BY <1>3, <1>4 DEF Init, IInv

LEMMA NextKeeps == IInv /\ [Next]_vars => IInv'
<1> SUFFICES ASSUME IInv, [Next]_vars
             PROVE  IInv'
  OBVIOUS
<1>1. CASE UNCHANGED vars
  <2>1. RowsInv' /\ RowsGrow
    BY <1>1, UnchangedRows DEF IInv, vars
  <2>2. ASSUME NEW c \in Clients
        PROVE  CallInv(c, calls[c])'
    <3>1. PICK q : q = calls[c]
      OBVIOUS
    <3>2. CallInv(c, q)'
      BY <1>1, <2>1, <3>1, CallStays DEF IInv, vars, rows
    <3> QED
      BY <1>1, <3>1, <3>2 DEF vars, CallInv, CallShape, Seen, ToldTruth, LifecycleOf
  <2> QED
    BY <1>1, <2>1, <2>2 DEF IInv, vars
<1>2. ASSUME NEW c \in Clients, NEW x \in Inputs, Request(c, x)
      PROVE  IInv'
  BY <1>2, RequestKeeps
<1>3. ASSUME NEW c \in Clients, Step(c)
      PROVE  IInv'
  BY <1>3, PrepareKeeps, EndsKeep, BeginKeeps, DecideReserveKeeps, DecideCommitKeeps,
     CompareReplayKeeps, AcknowledgeKeeps, ReceiveKeeps DEF Step
<1>4. ASSUME NEW c \in Clients, Fault(c) \/ AcknowledgeFault(c) \/ Crash(c)
      PROVE  IInv'
  BY <1>4, EndsKeep, AcknowledgeKeeps, CrashKeeps
<1> QED
  BY <1>1, <1>2, <1>3, <1>4 DEF Next

THEOREM Invariance == Spec => []IInv
  BY InitInvariant, NextKeeps, PTL DEF Spec

-----------------------------------------------------------------------------
(* What follows from it.                                                   *)

\* The commits of every net form one chain from its first predecessor.
THEOREM MarkingsAreOneChain == Spec => []MarkingsFormOneChain
<1>1. IInv => MarkingsFormOneChain
  BY DEF IInv, RowsInv
<1> QED
  BY <1>1, Invariance, PTL

\* The reservation that holds a net is current and not consumed.
THEOREM HoldersAreCurrent == Spec => []HolderIsCurrent
<1>1. IInv => HolderIsCurrent
  BY DEF IInv, RowsInv
<1> QED
  BY <1>1, Invariance, PTL

\* The lifecycle rows tell what the other tables tell.
THEOREM LifecycleIsHistory == Spec => []LifecycleTellsHistory
<1>1. IInv => LifecycleTellsHistory
  BY DEF IInv, RowsInv
<1> QED
  BY <1>1, Invariance, PTL

\* A success that was told stays true.
THEOREM SuccessesStayTrue == Spec => []AnswersStayTrue
<1>1. IInv => AnswersStayTrue
  BY DEF IInv, CallInv, ToldTruth, AnswersStayTrue
<1> QED
  BY <1>1, Invariance, PTL

\* In a step of one caller only that caller is answered.
LEMMA OnlyOneIsAnswered ==
    ASSUME IInv, NEW c \in Clients, NEW d \in Clients, c # d, NEW statuses, Answers(c, statuses),
           Step(d) \/ Fault(d) \/ AcknowledgeFault(d) \/ Crash(d) \/ \E x \in Inputs : Request(d, x)
    PROVE  FALSE
<1>1. \E g : calls' = [calls EXCEPT ![d] = g]
  BY DEF Step, Prepare, RefuseToPrepare, BeginImmediate, DecideReserve, DecideCommit, Refuse, Proceed,
         CompareReplay, Acknowledge, Observe, Receive, Fault, AcknowledgeFault, Crash, Request,
         MoveTo, Return
<1> QED
  BY <1>1 DEF Answers, IInv

\* A retained commit has the lifecycle, or the partial row, it should have.
LEMMA RetainedHasLifecycle ==
    ASSUME RowsInv, format = "v4", NEW x, NEW y \in commits, SameCommit(x, y)
    PROVE  /\ LifecycleMatchesCommit(x)
           /\ \A z \in RetainedFor(commits, x.reservation) : SameCommit(x, z)
<1>1. y.reservation = x.reservation /\ y.identity = x.identity
  BY DEF SameCommit
<1>2. IF PartialOf(y.reservation) = {}
      THEN LifecycleOf(y.reservation) = ExpectedLifecycle(y.reservation, y.identity)
      ELSE /\ LifecycleOf(y.reservation) = {}
           /\ PartialOf(y.reservation) = {Event(y.reservation, y.identity)}
  BY DEF RowsInv, LifecycleTellsHistory
<1>3. LifecycleMatchesCommit(x)
  BY <1>1, <1>2 DEF LifecycleMatchesCommit, ExpectedLifecycle
<1>4. \A z \in RetainedFor(commits, x.reservation) : SameCommit(x, z)
  BY <1>1 DEF RowsInv, OneCommitEach, RetainedFor
<1> QED
  BY <1>3, <1>4

\* An exact retry of a retained commit is told neither stale nor conflict.
THEOREM ExactRetriesAreIdempotent == Spec => ExactRetryIsIdempotent
<1> DEFINE Exact == \A c \in Clients :
              Answers(c, {"stale", "conflict"}) /\ calls[c].input.operation = "commit"
                  => ~ \E y \in commits : SameCommit(calls[c].input.commit, y)
<1>1. ASSUME IInv, Next
      PROVE  Exact
  <2> SUFFICES ASSUME NEW c \in Clients, Answers(c, {"stale", "conflict"}),
                      calls[c].input.operation = "commit",
                      NEW y \in commits, SameCommit(calls[c].input.commit, y)
               PROVE  FALSE
    OBVIOUS
  <2>1. PICK d \in Clients :
           Step(d) \/ Fault(d) \/ AcknowledgeFault(d) \/ Crash(d) \/ \E x \in Inputs : Request(d, x)
    BY <1>1 DEF Next
  <2>2. d = c
    BY <1>1, <2>1, OnlyOneIsAnswered
  <2>3. calls'[c].phase = "done" /\ calls'[c].result \in {"stale", "conflict"} /\ DOMAIN calls = Clients
        /\ calls[c].phase # "done"
    BY <1>1 DEF Answers, IInv
  <2>4. y.reservation = calls[c].input.commit.reservation
        /\ y.identity = calls[c].input.commit.identity
    BY DEF SameCommit
  <2>5. y \in RetainedFor(commits, calls[c].input.commit.reservation)
    BY <2>4 DEF RetainedFor
  <2>6. CASE CompareReplay(c)
    <3>1. /\ RowsInv /\ format = "v4"
      BY <1>1, <2>6, CallUnderway DEF CompareReplay, Running, Seen, Underway
    <3>2. PICK x : x = calls[c].input.commit
      OBVIOUS
    <3>3. /\ \A z \in RetainedFor(commits, x.reservation) : SameCommit(x, z)
          /\ LifecycleMatchesCommit(x)
      BY <3>1, <3>2, RetainedHasLifecycle
    <3>4. Return(c, "idempotent")
      BY <2>6, <3>2, <3>3 DEF CompareReplay
    <3> QED
      BY <2>3, <3>4 DEF Return
  <2>7. CASE DecideCommit(c)
    <3>1. MoveTo(c, "replay")
      BY <2>5, <2>7 DEF DecideCommit
    <3> QED
      BY <2>3, <3>1 DEF MoveTo
  <2>8. CASE Observe(c) \/ DecideReserve(c)
    BY <2>8 DEF Observe, DecideReserve, Running, Reads
  <2>9. CASE Prepare(c) \/ BeginImmediate(c)
    <3>1. PICK phase \in {"compare", "observe", "decide"} : MoveTo(c, phase)
      BY <2>9 DEF Prepare, BeginImmediate
    <3> QED
      BY <2>3, <3>1 DEF MoveTo
  <2>10. CASE RefuseToPrepare(c) \/ Acknowledge(c) \/ Fault(c) \/ AcknowledgeFault(c)
    BY <2>3, <2>10 DEF RefuseToPrepare, Acknowledge, Fault, AcknowledgeFault, Return
  <2>11. CASE Receive(c) \/ Crash(c)
    BY <2>3, <2>11 DEF Receive, Crash, Idle
  <2>12. CASE \E x \in Inputs : Request(c, x)
    BY <2>3, <2>12 DEF Request
  <2> QED
    BY <2>1, <2>2, <2>6, <2>7, <2>8, <2>9, <2>10, <2>11, <2>12 DEF Step
<1>2. IInv /\ [Next]_vars => [Exact]_vars
  BY <1>1
<1> QED
  BY <1>2, Invariance, PTL DEF Spec, ExactRetryIsIdempotent

-----------------------------------------------------------------------------
(* The repository implements the port: every step of a call is a step of   *)
(* the port, or none: the row changes with the answer, and what leads to   *)
(* it, or follows, the port does not see.                                  *)

PortCall(q) ==
    [q EXCEPT !.phase = IF q.phase \in {"idle", "done"} THEN q.phase ELSE "requested"]

PortCalls == [c \in Clients |-> PortCall(calls[c])]

LEMMA PortOfCall ==
    ASSUME IInv, NEW c \in Clients
    PROVE  /\ calls[c].phase \in Underway =>
                 PortCalls[c] = [phase |-> "requested", input |-> calls[c].input, result |-> None]
           /\ calls[c].phase \notin Underway => PortCalls[c] = calls[c]
  BY DEF PortCalls, PortCall, IInv, CallInv, CallShape, Idle, Underway

LEMMA PortMoves ==
    ASSUME IInv, NEW c \in Clients, NEW g, calls' = [calls EXCEPT ![c] = g]
    PROVE  PortCalls' = [PortCalls EXCEPT ![c] = PortCall(g)]
  BY DEF PortCalls, PortCall, IInv

\* Going on is not seen.
LEMMA PortStays ==
    ASSUME IInv, NEW c \in Clients, NEW phase \in Underway, MoveTo(c, phase),
           calls[c].phase \in Underway
    PROVE  PortCalls' = PortCalls
<1>1. PICK g : g = [calls[c] EXCEPT !.phase = phase]
  OBVIOUS
<1>2. PortCalls' = [PortCalls EXCEPT ![c] = PortCall(g)]
  BY <1>1, PortMoves DEF MoveTo
<1>3. PortCall(g) = PortCalls[c]
  <2>1. PICK x : x = calls[c].input
    OBVIOUS
  <2>2. calls[c] = [phase |-> calls[c].phase, input |-> x, result |-> None]
    BY <2>1, CallUnderway
  <2>3. g = [phase |-> phase, input |-> x, result |-> None]
    BY <1>1, <2>2
  <2>4. PortCall(g) = [phase |-> "requested", input |-> x, result |-> None]
    BY <2>3 DEF PortCall, Underway
  <2> QED
    BY <2>1, <2>4, PortOfCall
<1> QED
  BY <1>2, <1>3 DEF PortCalls

\* An answer is.
LEMMA PortIsAnswered ==
    ASSUME IInv, NEW c \in Clients, NEW status, Return(c, status), calls[c].phase \in Underway
    PROVE  /\ Port!Answer(c, status)
           /\ PortCalls[c] = Port!Requested(calls[c].input)
<1>1. PICK g : g = Done(calls[c].input, status)
  OBVIOUS
<1>2. PortCalls' = [PortCalls EXCEPT ![c] = PortCall(g)]
  BY <1>1, PortMoves DEF Return, Done
<1>3. PortCall(g) = g
  BY <1>1 DEF PortCall, Done
<1>4. PortCalls[c] = [phase |-> "requested", input |-> calls[c].input, result |-> None]
  BY PortOfCall
<1>5. PortCalls' = [PortCalls EXCEPT ![c] =
                      [phase |-> "done", input |-> PortCalls[c].input, result |-> status]]
  <2>1. PortCalls[c].input = calls[c].input
    BY <1>4
  <2>2. g = [phase |-> "done", input |-> PortCalls[c].input, result |-> status]
    BY <1>1, <2>1 DEF Done
  <2> QED
    BY <1>2, <1>3, <2>2
<1> QED
  BY <1>4, <1>5 DEF Port!Answer, Port!Requested, PortCalls, PortCall

PortMap == <<current, active, commits, PortCalls>>

\* The judgements of the port are those of the records.
LEMMA PortJudges ==
    ASSUME NEW at, NEW holders, NEW retained, NEW r, NEW x
    PROVE  /\ Port!ReserveVerdict(at, holders, retained, r) = ReserveVerdict(at, holders, retained, r)
           /\ Port!RevalidateVerdict(at, holders, retained, r)
                 = RevalidateVerdict(at, holders, retained, r)
           /\ Port!CommitVerdict(at, holders, retained, x) = CommitVerdict(at, holders, retained, x)
           /\ Port!RetainedFor(retained, r) = RetainedFor(retained, r)
           /\ Port!Successor(x) = Successor(x)
  BY DEF Port!ReserveVerdict, ReserveVerdict, Port!RevalidateVerdict, RevalidateVerdict,
         Port!CommitVerdict, CommitVerdict, Port!RetainedFor, RetainedFor, Port!Successor, Successor,
         Port!MatchesCurrent, MatchesCurrent, Port!Consumed, Consumed, Port!SameCommit, SameCommit,
         Port!IdentityTaken, IdentityTaken

\* A call that ends and changes no rows is answered by the port so, too.
LEMMA PortAnswers ==
    ASSUME IInv, NEW c \in Clients, NEW status, Return(c, status), calls[c].phase \in Underway,
           UNCHANGED <<current, active, commits>>, NEW x \in Inputs, x = calls[c].input,
           x.operation = "reserve" =>
              /\ status # "reserved"
              /\ status \in {ReserveVerdict(current, active, commits, x.reservation),
                             "indeterminate", "error"},
           x.operation = "commit" =>
              /\ status # "committed"
              /\ status \in {CommitVerdict(current, active, commits, x.commit),
                             "indeterminate", "error"},
           x.operation = "revalidate" =>
              status \in {RevalidateVerdict(current, active, commits, x.reservation), "error"},
           x.operation \in {"load", "evidence", "lifecycle", "safety"} =>
              status \in {"found", "absent", "legacy_partial", "incompatible", "corrupt", "error"},
           x.operation = "load" =>
              /\ status = "found" => RetainedFor(commits, x.reservation) # {}
              /\ status = "absent" => RetainedFor(commits, x.reservation) = {}
    PROVE  Port!Next
<1>1. Port!Answer(c, status) /\ PortCalls[c] = Port!Requested(x)
  BY PortIsAnswered
<1>2. CASE x.operation = "reserve"
  BY <1>2, <1>1, PortJudges DEF Port!AnswerReserve, Port!Next, Port!Effect, PortCalls, PortCall
<1>3. CASE x.operation = "commit"
  BY <1>3, <1>1, PortJudges DEF Port!AnswerCommit, Port!Next, Port!Effect, PortCalls, PortCall
<1>4. CASE x.operation = "revalidate"
  BY <1>4, <1>1, PortJudges DEF Port!AnswerRevalidate, Port!Next, Port!Effect, PortCalls, PortCall
<1>5. CASE x.operation \in {"load", "evidence", "lifecycle", "safety"}
  BY <1>5, <1>1, PortJudges DEF Port!AnswerLoad, Port!Next, Port!Effect, PortCalls, PortCall
<1> QED
  BY <1>2, <1>3, <1>4, <1>5, InputTypes DEF Writes, Reads

\* What the rows of a call do, the port does.
LEMMA PortApplies ==
    ASSUME IInv, NEW c \in Clients, Running(c, {"acknowledge"}, Writes), NEW x \in Inputs,
           x = calls[c].input, Apply(x)
    PROVE  \/ x.operation = "reserve" /\ Port!Reserve(x.reservation)
           \/ x.operation = "commit" /\ Port!CommitTo(x.commit)
<1>1. calls[c].phase = "acknowledge" /\ x.operation \in {"reserve", "commit"}
      /\ Seen(c, calls[c])
  BY CallUnderway DEF Running, Writes, Underway
<1>2. CASE x.operation = "reserve"
  BY <1>1, <1>2, PortJudges DEF Apply, ApplyReserve, Seen, Port!Reserve
<1>3. CASE x.operation = "commit"
  BY <1>1, <1>3, PortJudges DEF Apply, ApplyCommit, Seen, Port!CommitTo
<1> QED
  BY <1>1, <1>2, <1>3

LEMMA PortAcknowledges ==
    ASSUME IInv, NEW c \in Clients, Running(c, {"acknowledge"}, Writes), NEW x \in Inputs,
           x = calls[c].input, Apply(x), NEW status, Return(c, status),
           status = "indeterminate"
              \/ status = IF x.operation = "reserve" THEN "reserved" ELSE "committed"
    PROVE  Port!Next
<1>1. Port!Answer(c, status) /\ PortCalls[c] = Port!Requested(x)
  BY PortIsAnswered DEF Running, Underway
<1>2. CASE x.operation = "reserve" /\ Port!Reserve(x.reservation)
  BY <1>1, <1>2 DEF Port!AnswerReserve, Port!Next, Port!Effect, PortCalls, PortCall
<1>3. CASE x.operation = "commit" /\ Port!CommitTo(x.commit)
  BY <1>1, <1>3 DEF Port!AnswerCommit, Port!Next, Port!Effect, PortCalls, PortCall
<1> QED
  BY <1>2, <1>3, PortApplies

LEMMA PortForgets ==
    ASSUME IInv, NEW c \in Clients, Receive(c) \/ Crash(c)
    PROVE  Port!Next
<1>1. calls[c].phase # "idle" /\ calls' = [calls EXCEPT ![c] = Idle]
  BY DEF Receive, Crash
<1>2. PortCalls' = [PortCalls EXCEPT ![c] = Idle]
  <2>1. PortCall(Idle) = Idle
    BY DEF PortCall, Idle
  <2> QED
    BY <1>1, <2>1, PortMoves
<1>3. CASE Receive(c)
  <2>1. PortCalls[c].phase = "done"
    BY <1>3, PortOfCall DEF Receive, Underway
  <2>2. Port!Receive(c)
    BY <1>2, <1>3, <2>1 DEF Receive, rows, Port!Receive, Port!Idle, Idle, PortCalls, PortCall
  <2> QED
    BY <2>2 DEF Port!Next
<1>4. CASE Crash(c)
  <2>1. PortCalls[c].phase # "idle"
    <3>1. CASE calls[c].phase \in Underway
      <4>1. PICK x : x = calls[c].input
        OBVIOUS
      <4>2. PortCalls[c] = [phase |-> "requested", input |-> x, result |-> None]
        BY <3>1, <4>1, PortOfCall
      <4> QED
        BY <4>2
    <3>2. CASE calls[c].phase \notin Underway
      BY <1>1, <3>2, PortOfCall
    <3> QED
      BY <3>1, <3>2
  <2>2. CASE UNCHANGED rows
    <3>1. Port!Crash(c)
      BY <1>2, <2>1, <2>2 DEF rows, Port!Crash, Port!Idle, Idle, PortCalls, PortCall
    <3> QED
      BY <3>1 DEF Port!Next
  <2>3. CASE Running(c, {"acknowledge"}, Writes) /\ Apply(calls[c].input)
    <3>1. PICK x \in Inputs : x = calls[c].input
      BY <2>3, CallUnderway DEF Running, Underway
    <3>2. PortCalls[c] = Port!Requested(x)
      BY <2>3, <3>1, PortOfCall DEF Running, Underway, Port!Requested
    <3>3. \/ x.operation = "reserve" /\ Port!Reserve(x.reservation)
          \/ x.operation = "commit" /\ Port!CommitTo(x.commit)
      BY <2>3, <3>1, PortApplies
    <3>4. Port!Crash(c)
      BY <1>2, <2>1, <3>2, <3>3 DEF Port!Crash, Port!Idle, Idle, PortCalls, PortCall
    <3> QED
      BY <3>4 DEF Port!Next
  <2> QED
    BY <1>4, <2>2, <2>3 DEF Crash
<1> QED
  BY <1>3, <1>4

LEMMA PortPrepares ==
    ASSUME IInv, NEW c \in Clients, Prepare(c)
    PROVE  [Port!Next]_PortMap
<1>1. PortCalls' = PortCalls
  <2>1. PICK phase \in {"compare", "observe"} : MoveTo(c, phase)
    BY DEF Prepare
  <2> QED
    BY <2>1, PortStays DEF Prepare, Underway
<1>2. /\ current \in [Nets -> Coordinate \cup {None}]
      /\ current' \in [Nets -> Coordinate \cup {None}]
      /\ \A n \in Nets : current[n] # None => current'[n] = current[n]
  <2>1. \A n \in Nets : initial[n] = None => current[n] = None
    BY DEF IInv, RowsInv, MarkingsFormOneChain, ChainLeads
  <2> QED
    BY <2>1, PrepareKeepsRows DEF IInv, RowsInv, Prepare, Bootstrap
<1>3. CASE \E n \in Nets : current[n] # current'[n]
  <2>1. Port!Introduce
    BY <1>1, <1>2, <1>3 DEF Prepare, Port!Introduce, PortCalls, PortCall
  <2> QED
    BY <2>1 DEF Port!Next
<1>4. CASE \A n \in Nets : current[n] = current'[n]
  <2>1. current' = current
    BY <1>2, <1>4
  <2> QED
    BY <1>1, <2>1 DEF Prepare, PortMap
<1> QED
  BY <1>3, <1>4

\* Owning the lock, or letting it go, is not seen.
LEMMA PortDoesNotSee ==
    ASSUME IInv, NEW c \in Clients,
           \/ BeginImmediate(c)
           \/ Proceed(c) /\ Running(c, {"decide"}, Writes)
           \/ MoveTo(c, "replay") /\ UNCHANGED rows /\ Running(c, {"decide"}, Writes)
    PROVE  UNCHANGED PortMap
<1>1. PICK phase \in Underway : MoveTo(c, phase) /\ UNCHANGED rows /\ calls[c].phase \in Underway
  BY DEF BeginImmediate, Proceed, Running, Underway
<1>2. PortCalls' = PortCalls
  BY <1>1, PortStays
<1> QED
  BY <1>1, <1>2 DEF PortMap, rows

\* What a caller is asking for.
LEMMA InputUnderway ==
    ASSUME IInv, NEW c \in Clients, calls[c].phase \in Underway
    PROVE  \E x \in Inputs : x = calls[c].input
  BY CallUnderway

LEMMA PortRequests ==
    ASSUME IInv, NEW c \in Clients, NEW x \in Inputs, Request(c, x)
    PROVE  Port!Next
<1>1. PICK g : g = [phase |-> "prepare", input |-> x, result |-> None]
  OBVIOUS
<1>2. calls[c].phase = "idle" /\ calls' = [calls EXCEPT ![c] = g] /\ UNCHANGED rows
  BY <1>1 DEF Request
<1>3. PortCall(g) = [phase |-> "requested", input |-> x, result |-> None]
  BY <1>1 DEF PortCall
<1>4. PortCalls' = [PortCalls EXCEPT ![c] = [phase |-> "requested", input |-> x, result |-> None]]
  BY <1>2, <1>3, PortMoves
<1>5. PortCalls[c].phase = "idle"
  BY <1>2, PortOfCall DEF Underway
<1>6. Port!Request(c, x)
  BY <1>2, <1>4, <1>5 DEF rows, Port!Request, Port!Requested, PortCalls, PortCall
<1> QED
  BY <1>6 DEF Port!Next

\* A failure, before the rows are written or in a read, and an open that is
\* refused.
LEMMA PortFails ==
    ASSUME IInv, NEW c \in Clients, Fault(c) \/ RefuseToPrepare(c)
    PROVE  Port!Next
<1>1. calls[c].phase \in Underway /\ UNCHANGED <<current, active, commits>>
  BY DEF Fault, RefuseToPrepare, Underway, rows
<1>2. PICK x \in Inputs : x = calls[c].input
  BY <1>1, InputUnderway
<1>3. PICK status \in {"error", "incompatible"} :
         /\ Return(c, status)
         /\ status = "incompatible" => x.operation \in Reads \ {"revalidate"}
  BY <1>2 DEF Fault, RefuseToPrepare, Reads
<1> QED
  BY <1>1, <1>2, <1>3, PortAnswers DEF Reads

LEMMA PortObserves ==
    ASSUME IInv, NEW c \in Clients, Observe(c)
    PROVE  Port!Next
<1>1. calls[c].phase \in Underway /\ UNCHANGED <<current, active, commits>>
  BY DEF Observe, Running, Underway, rows
<1>2. PICK x \in Inputs : x = calls[c].input
  BY <1>1, InputUnderway
<1>3. x.operation \in Reads /\ Return(c, ReadStatus(x))
  BY <1>2 DEF Observe, Running
<1>4. x.operation \in {"revalidate", "load"} => ReservationOf(x) = x.reservation
  BY InputTypes DEF ReservationOf
<1>5. PICK status : status = ReadStatus(x)
  OBVIOUS
<1>6. x.operation = "revalidate" =>
         status = RevalidateVerdict(current, active, commits, x.reservation)
  BY <1>4, <1>5 DEF ReadStatus
<1>7. x.operation = "load" =>
         status = IF RetainedFor(commits, x.reservation) = {} THEN "absent" ELSE "found"
  BY <1>4, <1>5 DEF ReadStatus
<1>8. x.operation \in {"evidence", "lifecycle", "safety"} =>
         status \in {"found", "absent", "legacy_partial", "corrupt"}
  BY <1>5 DEF ReadStatus, SafetyStatus, LifecycleStatus
<1> QED
  BY <1>1, <1>2, <1>3, <1>5, <1>6, <1>7, <1>8, PortAnswers DEF Reads

LEMMA PortDecides ==
    ASSUME IInv, NEW c \in Clients, DecideReserve(c) \/ DecideCommit(c)
    PROVE  Port!Next \/ UNCHANGED PortMap
<1>1. calls[c].phase \in Underway /\ Running(c, {"decide"}, Writes)
  BY DEF DecideReserve, DecideCommit, Running, Underway, Writes
<1>2. PICK x \in Inputs : x = calls[c].input
  BY <1>1, InputUnderway
<1>3. CASE Proceed(c) \/ (MoveTo(c, "replay") /\ UNCHANGED rows)
  BY <1>1, <1>3, PortDoesNotSee
<1>4. ASSUME NEW status, Refuse(c, status), DecideReserve(c),
             status \in {"error", ReserveVerdict(current, active, commits, x.reservation)},
             status # "reserved"
      PROVE  Port!Next
  <2>1. x.operation = "reserve" /\ Return(c, status) /\ UNCHANGED <<current, active, commits>>
    BY <1>2, <1>4 DEF DecideReserve, Running, Refuse, rows
  <2> QED
    BY <1>1, <1>2, <1>4, <2>1, PortAnswers
<1>5. ASSUME NEW status, Refuse(c, status), DecideCommit(c),
             status \in {"error", CommitVerdict(current, active, commits, x.commit)},
             status # "committed"
      PROVE  Port!Next
  <2>1. x.operation = "commit" /\ Return(c, status) /\ UNCHANGED <<current, active, commits>>
    BY <1>2, <1>5 DEF DecideCommit, Running, Refuse, rows
  <2> QED
    BY <1>1, <1>2, <1>5, <2>1, PortAnswers
<1>6. CASE DecideReserve(c)
  <2>1. PICK verdict : verdict = ReserveVerdict(current, active, commits, x.reservation)
    OBVIOUS
  <2>2. \/ Proceed(c)
        \/ verdict # "reserved" /\ \E status \in {"error", verdict} : Refuse(c, status)
    BY <1>2, <1>6, <2>1 DEF DecideReserve
  <2>3. ASSUME verdict # "reserved", NEW status \in {"error", verdict}, Refuse(c, status)
        PROVE  Port!Next
    BY <1>4, <1>6, <2>1, <2>3
  <2> QED
    BY <1>3, <2>2, <2>3
<1>7. CASE DecideCommit(c)
  <2>1. PICK verdict : verdict = CommitVerdict(current, active, commits, x.commit)
    OBVIOUS
  <2>2. \/ Proceed(c)
        \/ MoveTo(c, "replay") /\ UNCHANGED rows
        \/ \E status \in {"error", verdict} : status # "committed" /\ Refuse(c, status)
    BY <1>2, <1>7, <2>1 DEF DecideCommit
  <2>3. ASSUME NEW status \in {"error", verdict}, status # "committed", Refuse(c, status)
        PROVE  Port!Next
    BY <1>5, <1>7, <2>1, <2>3
  <2> QED
    BY <1>3, <2>2, <2>3
<1> QED
  BY <1>6, <1>7

\* The comparison with the retained commit ends as the port's verdict does.
LEMMA PortCompares ==
    ASSUME IInv, NEW c \in Clients, CompareReplay(c)
    PROVE  Port!Next
<1>1. /\ calls[c].phase \in Underway /\ calls[c].phase = "replay"
      /\ calls[c].input.operation = "commit" /\ UNCHANGED <<current, active, commits>>
  BY DEF CompareReplay, Running, Underway, rows
<1>2. PICK x \in Inputs : x = calls[c].input
  BY <1>1, InputUnderway
<1>3. RowsInv /\ format = "v4" /\ RetainedFor(commits, x.commit.reservation) # {}
  BY <1>1, <1>2, CallUnderway DEF Seen, Underway
<1>4. PICK same \in BOOLEAN :
         same <=> \A y \in RetainedFor(commits, x.commit.reservation) : SameCommit(x.commit, y)
  OBVIOUS
<1>5. CommitVerdict(current, active, commits, x.commit) = IF same THEN "idempotent" ELSE "conflict"
  BY <1>3, <1>4 DEF CommitVerdict
<1>6. same => LifecycleMatchesCommit(x.commit)
  BY <1>3, <1>4, RetainedHasLifecycle DEF RetainedFor
<1>7. Return(c, IF same THEN "idempotent" ELSE "conflict")
  BY <1>2, <1>4, <1>6 DEF CompareReplay
<1> QED
  BY <1>1, <1>2, <1>5, <1>7, PortAnswers

LEMMA PortEnds ==
    ASSUME IInv, NEW c \in Clients, Acknowledge(c) \/ AcknowledgeFault(c)
    PROVE  Port!Next
<1>1. calls[c].phase \in Underway /\ Running(c, {"acknowledge"}, Writes)
  BY DEF Acknowledge, AcknowledgeFault, Running, Underway
<1>2. PICK x \in Inputs : x = calls[c].input
  BY <1>1, InputUnderway
<1>3. x.operation \in Writes
  BY <1>1, <1>2 DEF Running
<1>4. CASE Acknowledge(c)
  <2>1. PICK status : /\ Return(c, status)
                      /\ status = IF x.operation = "reserve" THEN "reserved" ELSE "committed"
    BY <1>2, <1>4 DEF Acknowledge
  <2> QED
    BY <1>1, <1>2, <1>4, <2>1, PortAcknowledges DEF Acknowledge
<1>5. CASE AcknowledgeFault(c) /\ Apply(x)
  BY <1>1, <1>2, <1>5, PortAcknowledges DEF AcknowledgeFault
<1>6. CASE AcknowledgeFault(c) /\ UNCHANGED rows
  <2>1. Return(c, "indeterminate") /\ UNCHANGED <<current, active, commits>>
    BY <1>6 DEF AcknowledgeFault, rows
  <2> QED
    BY <1>1, <1>2, <1>3, <2>1, PortAnswers DEF Writes
<1> QED
  BY <1>2, <1>4, <1>5, <1>6 DEF AcknowledgeFault

LEMMA PortSteps == IInv /\ [Next]_vars => [Port!Next]_PortMap
<1> SUFFICES ASSUME IInv, [Next]_vars
             PROVE  Port!Next \/ UNCHANGED PortMap
  OBVIOUS
<1>1. CASE UNCHANGED vars
  BY <1>1 DEF vars, rows, PortMap, PortCalls
<1>2. ASSUME NEW c \in Clients, NEW x \in Inputs, Request(c, x)
      PROVE  Port!Next
  BY <1>2, PortRequests
<1>3. ASSUME NEW c \in Clients, Step(c)
      PROVE  Port!Next \/ UNCHANGED PortMap
  <2>1. CASE Prepare(c)
    BY <2>1, PortPrepares
  <2>2. CASE BeginImmediate(c)
    BY <2>2, PortDoesNotSee
  <2>3. CASE DecideReserve(c) \/ DecideCommit(c)
    BY <2>3, PortDecides
  <2>4. CASE RefuseToPrepare(c) \/ CompareReplay(c) \/ Acknowledge(c) \/ Observe(c) \/ Receive(c)
    BY <2>4, PortFails, PortCompares, PortEnds, PortObserves, PortForgets
  <2> QED
    BY <1>3, <2>1, <2>2, <2>3, <2>4 DEF Step
<1>4. ASSUME NEW c \in Clients, Fault(c) \/ AcknowledgeFault(c) \/ Crash(c)
      PROVE  Port!Next
  BY <1>4, PortFails, PortEnds, PortForgets
<1> QED
  BY <1>1, <1>2, <1>3, <1>4 DEF Next

LEMMA PortBegins == Init => Port!Init
<1> SUFFICES ASSUME Init
             PROVE  Port!Init
  OBVIOUS
<1>1. PortCalls = [c \in Clients |-> Idle]
  BY DEF Init, PortCalls, PortCall, Idle
<1> QED
  BY <1>1 DEF Init, Port!Init, Port!Idle, Idle, PortCalls, PortCall

\* The durable repository, with its transactions, retries, failures and
\* deaths, implements the port: each operation takes effect at one instant.
THEOREM ImplementsPort == Spec => ImplementsReservationRepository
<1>1. IInv /\ [Next]_vars => [Port!Next]_(Port!vars)
  <2> SUFFICES ASSUME IInv, [Next]_vars
               PROVE  Port!Next \/ UNCHANGED Port!vars
    OBVIOUS
  <2>1. Port!Next \/ UNCHANGED PortMap
    BY PortSteps
  <2> QED
    BY <2>1 DEF PortMap, Port!vars, PortCalls, PortCall
<1> QED
  BY <1>1, PortBegins, Invariance, PTL DEF Spec, ImplementsReservationRepository, Port!Spec
=============================================================================
