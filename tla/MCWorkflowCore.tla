--------------------------- MODULE MCWorkflowCore ---------------------------
(***************************************************************************)
(* A run of at most three transitions, with the reference bounds of the code *)
(* (256 and more) scaled down to one and two.                              *)
(***************************************************************************)
EXTENDS WorkflowCore

CONSTANTS a1, a2, a3, ref1, ref2, op, unknown, subject, other

MCDefinition      == [name |-> "definition", operations |-> {op}]
MCOtherDefinition == [name |-> "other", operations |-> {op, unknown}]

OwnDecision     == [name |-> "own", subject |-> subject]
ForeignDecision == [name |-> "foreign", subject |-> other]

MCStartArtifacts   == {{}, {a1}}
MCRequestArtifacts == {{}, {a2}}
MCRequestDecisions == {{}, {ForeignDecision}}

\* Outputs within the bounds, at the bounds of the run when they are merged,
\* and over each bound of the request.
MCOutputs ==
    {[references |-> {}, artifacts |-> {}, decisions |-> {}],
     [references |-> {ref1}, artifacts |-> {a3}, decisions |-> {OwnDecision}],
     [references |-> {ref1, ref2}, artifacts |-> {}, decisions |-> {}],
     [references |-> {}, artifacts |-> {a2, a3}, decisions |-> {}],
     [references |-> {}, artifacts |-> {}, decisions |-> {ForeignDecision}]}

MCBounds == [references |-> 1, artifacts |-> 1, decisions |-> 1]
=============================================================================
