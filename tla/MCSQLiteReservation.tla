------------------------ MODULE MCSQLiteReservation ------------------------
(***************************************************************************)
(* A small reservation repository: two callers, one net that two attempts  *)
(* compete for and that can come back to its first marking.                *)
(***************************************************************************)
EXTENDS SQLiteReservation, TLC

CONSTANTS c1, c2, n1, m0, m1, m2, a1, a2, k1, k2, k3, e1

At(marking, revision) == [marking |-> marking, revision |-> revision]

For(attempt, at) == [net |-> n1, at |-> at, attempt |-> attempt]

First  == For(a1, At(m0, 0))
Rival  == For(a2, At(m0, 0))
Second == For(a1, At(m1, 1))

To(reservation, id, successor, evidence) ==
    [reservation |-> reservation, identity |-> id, successor |-> successor, evidence |-> evidence]

\* The first commit, its compact form, another outcome of the same
\* reservation, the rival's, and two that go back to the first marking: one
\* under an identity already used.
Whole    == To(First, k1, m1, e1)
Compact  == To(First, k1, m1, None)
Other    == To(First, k2, m2, e1)
Rivals   == To(Rival, k2, m1, None)
Back     == To(Second, k3, m0, e1)
BackUsed == To(Second, k1, m0, e1)

Ask(operation, reservation) == [operation |-> operation, reservation |-> reservation]
AskCommit(operation, commit) == [operation |-> operation, commit |-> commit]

MCInputs ==
    {Ask("reserve", r) : r \in {First, Rival, Second}}
    \cup {AskCommit("commit", x) : x \in {Whole, Compact, Other, Rivals, Back, BackUsed}}
    \cup {Ask(o, First) : o \in {"revalidate", "load", "lifecycle", "safety"}}
    \cup {AskCommit("evidence", Whole)}

\* Fewer calls, for the run that looks at every reading of the port.
MCFewInputs ==
    {Ask("reserve", r) : r \in {First, Rival}}
    \cup {AskCommit("commit", x) : x \in {Whole, Compact, Other}}
    \cup {Ask(o, First) : o \in {"revalidate", "load", "lifecycle"}}

Nowhere == [n \in Nets |-> None]
OnlyAt(at) == [n \in Nets |-> at]

\* A repository object is opened with the first marking, with none, or with a
\* marking the file contradicts.
MCOpenings == {OnlyAt(At(m0, 0)), Nowhere, OnlyAt(At(m2, 0))}

File(version, from, at, holder, retained) ==
    [format |-> version, initial |-> OnlyAt(from), current |-> OnlyAt(at),
     active |-> OnlyAt(holder), commits |-> retained]

\* A new file; files of older versions with a reservation held or a commit
\* retained; files of another program and of a later version.
MCFiles ==
    {File("empty", None, None, None, {}),
     File("v2", At(m0, 0), At(m0, 0), First, {}),
     File("v2", At(m0, 0), At(m1, 1), None, {Compact}),
     File("v3", At(m0, 0), At(m1, 1), Second, {Whole}),
     File("foreign", None, None, None, {}),
     File("newer", None, None, None, {})}

MCNewFile == {File("empty", None, None, None, {})}

ClientSymmetry == Permutations(Clients)
=============================================================================
