----------------------- MODULE MCSQLiteRevisionStore -----------------------
(***************************************************************************)
(* A small revision store: two callers, two streams.                       *)
(***************************************************************************)
EXTENDS SQLiteRevisionStore, TLC

CONSTANTS c1, c2, s1, s2, r1, r2, small, large, k1, k2, k3, k4

Row(s, r, p, c, k) ==
    [stream |-> s, revision |-> r, predecessor |-> p, content |-> c, key |-> k]

\* A first revision; two successors that compete for its place under one
\* identity; a commit that would close a cycle; and a first revision of the
\* other stream, with a key used in the first one and a payload too large
\* for the second caller.
MCCommits ==
    {Row(s1, r1, NoRevision, small, k1),
     Row(s1, r2, r1, small, k2),
     Row(s1, r2, r1, large, k3),
     Row(s1, r1, r2, small, k4),
     Row(s2, r1, NoRevision, large, k1)}

\* A first revision, its replay under another key, and a competitor.
MCFewCommits ==
    {Row(s1, r1, NoRevision, small, k1),
     Row(s1, r1, NoRevision, small, k2),
     Row(s1, r2, NoRevision, small, k1)}

MCReads == {[stream |-> s1, selector |-> "latest"], [stream |-> s1, selector |-> r1]}

MCSize == small :> 1 @@ large :> 2
MCLimit == c1 :> 2 @@ c2 :> 1
=============================================================================
