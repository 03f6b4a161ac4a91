------------------------ MODULE AtomicRevisionStore ------------------------
(***************************************************************************)
(* What the protocol AtomicRevisionStore of persistence/store.py promises  *)
(* its callers: each call takes effect at one instant between its request  *)
(* and its answer, and the answer tells the truth about that instant.      *)
(*   committed      the revision was appended by this call                 *)
(*   idempotent     the exact envelope was retained already                *)
(*   conflict       the call appended nothing and the store disagrees      *)
(*   error          the call appended nothing                              *)
(*   indeterminate  the call may have appended the revision                *)
(***************************************************************************)
EXTENDS RevisionRecords

CONSTANTS Clients,    \* callers, each with at most one call open
          Commits,    \* the commits they may request
          Reads,      \* the reads they may request
          None        \* no input, no result, no row

VARIABLES rows,       \* the retained revisions
          heads,      \* the latest revision of each stream
          calls       \* the open call of each client

vars == <<rows, heads, calls>>

Idle == [phase |-> "idle", input |-> None, result |-> None]

Requested(x) == [phase |-> "requested", input |-> x, result |-> None]

Done(x, status, row) ==
    [phase |-> "done", input |-> x, result |-> [status |-> status, revision |-> row]]

Answer(c, status, row) ==
    calls' = [calls EXCEPT ![c] = Done(calls[c].input, status, row)]

Append(x) ==
    /\ Appends(rows, heads, x)
    /\ rows' = rows \cup {x}
    /\ heads' = [heads EXCEPT ![x.stream] = x.revision]

Init ==
    /\ rows = {}
    /\ heads = [s \in Streams |-> NoRevision]
    /\ calls = [c \in Clients |-> Idle]

Request(c, x) ==
    /\ calls[c].phase = "idle"
    /\ calls' = [calls EXCEPT ![c] = Requested(x)]
    /\ UNCHANGED <<rows, heads>>

AnswerCommit(c, x) ==
    /\ calls[c] = Requested(x)
    /\ \/ /\ Append(x)
          /\ Answer(c, "committed", x) \/ Answer(c, "indeterminate", None)
       \/ /\ UNCHANGED <<rows, heads>>
          /\ \/ Replays(rows, heads, x) /\ Answer(c, "idempotent", x)
             \/ Conflicts(rows, heads, x) /\ Answer(c, "conflict", None)
             \/ Answer(c, "indeterminate", None)
             \/ Answer(c, "error", None)

\* A revision that is found is retained in the stream that was asked, and is
\* the head when the latest one was asked.
AnswerRead(c, x) ==
    /\ calls[c] = Requested(x)
    /\ UNCHANGED <<rows, heads>>
    /\ LET sought == IF x.selector = "latest" THEN heads[x.stream] ELSE x.selector
       IN  \/ \E y \in RowsOf(rows, x.stream) :
                  y.revision = sought /\ Answer(c, "found", y)
           \/ /\ \A y \in RowsOf(rows, x.stream) : y.revision # sought
              /\ Answer(c, "absent", None)
           \/ \E status \in ReadStatus \ {"found", "absent"} : Answer(c, status, None)

Receive(c) ==
    /\ calls[c].phase = "done"
    /\ calls' = [calls EXCEPT ![c] = Idle]
    /\ UNCHANGED <<rows, heads>>

\* The caller dies: its append happened or it did not.
Crash(c) ==
    /\ calls[c].phase # "idle"
    /\ calls' = [calls EXCEPT ![c] = Idle]
    /\ \/ \E x \in Commits : calls[c] = Requested(x) /\ Append(x)
       \/ UNCHANGED <<rows, heads>>

Next ==
    \E c \in Clients :
        \/ \E x \in Commits \cup Reads : Request(c, x)
        \/ \E x \in Commits : AnswerCommit(c, x)
        \/ \E x \in Reads : AnswerRead(c, x)
        \/ Receive(c)
        \/ Crash(c)

Spec == Init /\ [][Next]_vars
=============================================================================
