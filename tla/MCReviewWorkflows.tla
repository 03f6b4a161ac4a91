-------------------------- MODULE MCReviewWorkflows -------------------------
(***************************************************************************)
(* Two proposals of one course; two evidences of one record and source,    *)
(* two candidates of that record under one name and one of another record; *)
(* decisions that retain and exclude the name, and others of another name, *)
(* outcome, source or contract; authorities that fit, are limited or       *)
(* belong to the other subject.                                            *)
(***************************************************************************)
EXTENDS ReviewWorkflows

CONSTANTS p1, p2, course, e1, e2, c1, c2, c3, record, otherRecord, source, otherSource,
          n1, n2

MCCourseOf(p) == course
MCRecordOf(x) == IF x = c3 THEN otherRecord ELSE record
MCSourceOf(x) == source
MCNameOf(c)   == IF c = c3 THEN n2 ELSE n1

Own == <<"research-source", source>>

Decision(name, contract, subject, scope, outcome) ==
    [name |-> name, contract |-> contract, subject |-> subject, scope |-> scope,
     outcome |-> outcome]

MCDecisions ==
    {Decision("d1", "manual-reference-claim-review", Own, n1, "reviewed_retained"),
     Decision("d2", "manual-reference-claim-review", Own, n1, "reviewed_excluded"),
     Decision("d3", "manual-reference-claim-review", Own, n1, "undecided"),
     Decision("d4", "manual-reference-claim-review", <<"research-source", otherSource>>, n1,
              "reviewed_retained"),
     Decision("d5", "other", Own, n1, "reviewed_retained"),
     Decision("d6", "manual-reference-claim-review", Own, n2, "reviewed_retained")}

AllOperations == CourseReviewDefinition.operations \cup ReferenceReviewDefinition.operations

MCAuthorities ==
    {[subject |-> <<"course", course>>, operations |-> AllOperations],
     [subject |-> Own, operations |-> AllOperations],
     [subject |-> Own, operations |-> {"require-manual-claim-review"}]}

MCRequestBounds == [references |-> 1024, artifacts |-> 256, decisions |-> 64]
=============================================================================
