-------------------------- MODULE ColoredNetReplay --------------------------
(***************************************************************************)
(* What is retained of a firing, and its replay.                           *)
(*                                                                         *)
(* A commit retains a bundle: the net, the markings before and after, the  *)
(* two bindings, and the identities of the directive and of the result.    *)
(* Enablement and selection are not retained, but computed again.  Bytes   *)
(* decode to what they encode; a representation profile other than the one *)
(* in use is a bundle that does not decode, and is corrupt.                *)
(***************************************************************************)
EXTENDS ColoredPetriNet

\* ExperimentalWorkflowPureActionCpnPlan.  An action names the transition it is
\* compiled to, and its net nominally; the plan adds the bytes of a definition
\* and the profile of the semantics it is executed under.
Plan(action, definition, profile) ==
    [action |-> action, definition |-> definition, profile |-> profile]

\* ExperimentalWorkflowPureActionCpnPlanFactory.
MakesPlan(action, definition) ==
    /\ ValidDefinition(definition)
    /\ definition.name = action.definition
    /\ action.transition \in DOMAIN definition.transitions

\* The digest a success is named by.
ResultIdentity(i, successor) ==
    [enablement |-> i.enablement, selection |-> i.selection,
     transition |-> i.transition, binding |-> i.binding, external |-> i.external,
     directive  |-> i.directive, successor |-> successor.name]

\* The correlations that firing demands of a plan.
FiresUnder(plan, i) ==
    /\ plan.definition = i.definition
    /\ plan.profile = Supported
    /\ i.definition.name = i.enablement.definition.name
    /\ i.marking.name = i.enablement.marking.name
    /\ i.binding.transition = plan.action.transition

\* ExperimentalWorkflowPureActionCpnReplayBundleFactory refuses what does not
\* fire, and what was fired on another definition than that of the plan.
MakesBundle(plan, i) == Firing(i).outcome = "success" /\ plan.definition = i.definition

Bundle(plan, i) ==
    LET successor == Firing(i).marking
    IN  [plan |-> plan, action |-> plan.action, profile |-> plan.profile,
         definition  |-> plan.definition, predecessor |-> i.marking, successor |-> successor,
         transition  |-> i.transition, binding |-> i.binding, external |-> i.external,
         directive   |-> i.directive, result |-> ResultIdentity(i, successor)]

\* What a bundle's constructor demands, whoever made it.
WellFormed(b) ==
    /\ {b.predecessor.definition, b.successor.definition} = {b.definition.name}
    /\ b.plan = Plan(b.action, b.definition, b.profile)
    /\ {b.binding.transition, b.external.transition} = {b.transition}

-----------------------------------------------------------------------------
(* Replay.                                                                 *)

\* Mutant: only the marking that follows is compared.
SameSuccessor(b, i) ==
    LET result == Firing(i) IN result.outcome = "success" /\ result.marking = b.successor

SameResult(b, i) ==
    LET result == Firing(i)
    IN  /\ result.outcome = "success"
        /\ result.marking = b.successor
        /\ ResultIdentity(i, result.marking) = b.result

\* ExperimentalWorkflowPureActionCpnReplayService, in the order of its checks.
\* The directive is made again for the enablement just computed.
Replay(b) ==
    LET enablement == Enablement(b.definition, b.predecessor, Supported, Supported)
        directive  == IF b.directive = None THEN None
                      ELSE [enablement |-> enablement, binding |-> b.binding]
        selection  == Selection(b.definition, enablement, directive)
        input      == [definition |-> b.definition, marking |-> b.predecessor,
                       enablement |-> enablement, selection |-> selection,
                       binding    |-> b.binding, transition |-> b.transition,
                       directive  |-> b.directive, external |-> b.external]
    IN  IF ~ WellFormed(b) THEN "corrupt"
        ELSE IF b.profile # Supported THEN "incompatible"
        ELSE IF /\ directive = b.directive
                /\ selection.outcome = "selected" /\ selection.binding = b.binding
                /\ SameResult(b, input)
             THEN "replayed"
        ELSE "corrupt"

\* The columns of a commit that its evidence repeats.
Columns(plan, i) ==
    LET successor == Firing(i).marking
    IN  [plan |-> plan, result |-> ResultIdentity(i, successor),
         predecessor |-> i.marking.name, successor |-> successor.name]

\* experimental_cpn_replay_evidence, and the evidence's constructor.
Correlated(columns, b) ==
    columns = [plan |-> b.plan, result |-> b.result,
               predecessor |-> b.predecessor.name, successor |-> b.successor.name]

\* ExperimentalWorkflowPureActionDurableCpnReplayService on a retained commit.
DurableReplay(commit) ==
    IF commit = None THEN "absent"
    ELSE IF ~ WellFormed(commit.bundle) \/ ~ Correlated(commit.columns, commit.bundle)
    THEN "corrupt"
    ELSE Replay(commit.bundle)
=============================================================================
