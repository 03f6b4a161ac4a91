--------------------------- MODULE MCLocalRuntime ---------------------------
(***************************************************************************)
(* Two callers of the runtime on one run.                                  *)
(***************************************************************************)
EXTENDS LocalRuntime, TLC

CONSTANTS op, wide, unknown, subject, a1, a2, i1, i2, c1, c2

MCDefinition == [name |-> "definition", operations |-> {op, wide}]

\* The run, and one that collides with its identity.
MCStarts == {StartedRun("run", MCDefinition, subject, {}, a, {}) : a \in {{}, {a1}}}
MCOneStart == {StartedRun("run", MCDefinition, subject, {}, {}, {})}

Template(operation, idempotency) ==
    [operation |-> operation,
     authority |-> [subject |-> subject, operations |-> {op, wide}],
     idempotency |-> idempotency]

\* Two requests that collide in idempotency, one that competes with them, and
\* one the preflight rejects.
MCTemplates ==
    {Template(op, i1), Template(wide, i1), Template(wide, i2), Template(unknown, i2)}

\* Fewer: a collision, a competition and a rejection, and two requests that can
\* follow each other.
MCThreeTemplates == {Template(op, i1), Template(wide, i2), Template(unknown, i2)}

MCBounds == [references |-> 1, artifacts |-> 1, decisions |-> 1]

Report(kind, disposition, status, artifacts) ==
    [kind |-> kind, disposition |-> disposition, status |-> status, artifacts |-> artifacts]

MCReports ==
    {Report("failure", None, None, {}),
     Report("adapter", "enabled", "active", {a2}),
     Report("adapter", "enabled", "completed", {})}

MCTwoReports == {Report("failure", None, None, {}),
                 Report("adapter", "enabled", "active", {a2})}

ClientSymmetry == Permutations(Clients)
=============================================================================
