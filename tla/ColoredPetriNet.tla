--------------------------- MODULE ColoredPetriNet ---------------------------
(***************************************************************************)
(* The pure operations of petrinet/colored: enablement of a marking,       *)
(* selection of a binding, firing of a selected binding.                   *)
(*                                                                         *)
(* A result is named by a digest of everything it was computed from, so a  *)
(* result holds its inputs: an enablement its definition and marking, a    *)
(* selection its enablement and directive.  A definition and a marking are *)
(* named nominally, the successor of a firing by a digest of the name of   *)
(* its predecessor and of its own tokens.  The code's failure codes are    *)
(* outcomes here.  The enabled bindings are a set: their order, which      *)
(* follows from them, is that of BindingPrecedes.                          *)
(***************************************************************************)
EXTENDS ColoredNetDefinition

Supported == "v1"     \* the one version of evaluator and ordering

TokensAt(marking) == [p \in DOMAIN marking.places |-> ToSet(marking.places[p])]

-----------------------------------------------------------------------------
(* Enablement.                                                             *)

\* A demand is met by a token of an admitted color.
Meets(net, marking, demand, i) ==
    LET tokens == marking.places[Arc(net, demand).place]
    IN  i \in DOMAIN tokens /\ tokens[i].color \in Pattern(net, demand).colors

\* Mutant: only the demands of one arc compete.
FeasibleWithinArcs(net, f) ==
    \A d, e \in DOMAIN f : d # e /\ d[1] = e[1] => f[d] # f[e]

\* The demands of one mode on one place take different occurrences; the same
\* occurrence may be consumed and read.
Feasible(net, f) ==
    \A d, e \in DOMAIN f :
        /\ d # e
        /\ Arc(net, d).place = Arc(net, e).place
        /\ Arc(net, d).mode = Arc(net, e).mode
        => f[d] # f[e]

\* The assignments of token occurrences to demands, each a function from
\* demands to ordinals at the place of the demand.
Assignments(net, marking, t) ==
    LET ordinals == UNION {DOMAIN marking.places[p] : p \in DOMAIN marking.places}
    IN  {f \in [Demands(net, t) -> ordinals] :
            /\ \A d \in Demands(net, t) : Meets(net, marking, d, f[d])
            /\ Feasible(net, f)}

TokenOf(net, marking, f, d) == marking.places[Arc(net, d).place][f[d]]

\* A binding keeps values, and forgets which tokens had them.
BindingOf(net, marking, t, f) ==
    [transition |-> t,
     values |-> [v \in Inputs(net, t) |->
                   TokenOf(net, marking, f,
                           CHOOSE d \in Demands(net, t) : Pattern(net, d).variable = v).value]]

FeasibleBindings(net, marking) ==
    UNION {{BindingOf(net, marking, t, f) : f \in Assignments(net, marking, t)}
              : t \in {t \in DOMAIN net.transitions : ~ Inhibited(net, t, TokensAt(marking))}}

GuardOf(net, binding) ==
    EvaluateGuard(net.transitions[binding.transition].guard, binding.values)

\* ColoredPetriNetTransitionEnabler, in the order of its checks: one guard
\* that fails anywhere fails the whole operation.
EnablementOutcome(net, marking, evaluator, ordering) ==
    IF ~ ValidDefinition(net) THEN "invalid_definition"
    ELSE IF ~ ValidMarking(net, marking) THEN "invalid_marking"
    ELSE IF evaluator # Supported THEN "unsupported_expression_evaluator"
    ELSE IF ordering # Supported THEN "unsupported_ordering_policy"
    ELSE IF \E b \in FeasibleBindings(net, marking) : GuardOf(net, b) = "fails"
         THEN "guard_evaluation_failed"
    ELSE "enabled"

Enablement(net, marking, evaluator, ordering) ==
    LET outcome == EnablementOutcome(net, marking, evaluator, ordering)
    IN  [definition |-> net, marking |-> marking,
         evaluator  |-> evaluator, ordering |-> ordering,
         outcome    |-> outcome,
         bindings   |-> IF outcome # "enabled" THEN {}
                        ELSE {b \in FeasibleBindings(net, marking) : GuardOf(net, b) = "true"}]

-----------------------------------------------------------------------------
(* Selection.                                                              *)

\* By transition priority, then by the values in declared order.
Priority(net, b) == CHOOSE i \in DOMAIN net.priority : net.priority[i] = b.transition

ValueKeys(net, b) ==
    LET inputs == net.transitions[b.transition].inputs
    IN  [i \in DOMAIN inputs |-> ValueKey(b.values[inputs[i]])]

ValuesPrecede(a, b) ==
    \E i \in DOMAIN a : (\A j \in 1..i - 1 : a[j] = b[j]) /\ KeyPrecedes(a[i], b[i])

BindingPrecedes(net, b, c) ==
    \/ Priority(net, b) < Priority(net, c)
    \/ /\ Priority(net, b) = Priority(net, c)
       /\ ValuesPrecede(ValueKeys(net, b), ValueKeys(net, c))

FirstBinding(net, bindings) ==
    CHOOSE b \in bindings : \A c \in bindings \ {b} : BindingPrecedes(net, b, c)

\* ColoredPetriNetBindingSelector, in the order of its checks.
SelectionOutcome(net, enablement, directive) ==
    IF \/ net.name # enablement.definition.name
       \/ net.policy # enablement.definition.policy THEN "definition_mismatch"
    ELSE IF enablement.outcome # "enabled" THEN "enablement_failed"
    ELSE IF directive = None
         THEN IF enablement.bindings = {} THEN "empty" ELSE "selected"
    ELSE IF net.policy # "directed_allowed" THEN "directed_selection_prohibited"
    ELSE IF directive.enablement # enablement THEN "directive_enablement_mismatch"
    ELSE IF directive.binding \notin enablement.bindings THEN "no_match"
    ELSE "selected"

Selection(net, enablement, directive) ==
    LET outcome == SelectionOutcome(net, enablement, directive)
    IN  [enablement |-> enablement, directive |-> directive, outcome |-> outcome,
         binding    |-> IF outcome # "selected" THEN None
                        ELSE IF directive # None THEN directive.binding
                        ELSE FirstBinding(enablement.definition, enablement.bindings)]

-----------------------------------------------------------------------------
(* Firing.                                                                 *)

\* Mutant: each demand takes the first token that meets it.
Greedy(candidates) ==
    {f \in candidates : \A g \in candidates : \A d \in DOMAIN f : f[d] <= g[d]}

\* The first assignment in the order of the product.
Least(candidates) ==
    {f \in candidates : \A g \in candidates \ {f} :
        \E d \in DOMAIN f : f[d] < g[d] /\ \A e \in DOMAIN f : KeyPrecedes(e, d) => f[e] = g[e]}

\* _reconstruct: at most one assignment, none when it fails.
Reconstruct(net, marking, binding) ==
    IF Inhibited(net, binding.transition, TokensAt(marking)) THEN {}
    ELSE Least({f \in Assignments(net, marking, binding.transition) :
                   BindingOf(net, marking, binding.transition, f) = binding})

\* The coordinates that are consumed; those only read stay.
Consumed(net, f) ==
    {<<Arc(net, d).place, f[d]>> : d \in {d \in DOMAIN f : Arc(net, d).mode = "consume"}}

\* Mutant: every token equal to a consumed one goes.
RetainedUnlike(marking, consumed, p) ==
    {i \in DOMAIN marking.places[p] :
        \A c \in consumed : c[1] = p => marking.places[p][c[2]] # marking.places[p][i]}

Retained(marking, consumed, p) == {i \in DOMAIN marking.places[p] : <<p, i>> \notin consumed}

\* The external-output binding supplies the declared variables, in order.
ExternalsExact(net, t, external) ==
    /\ external.transition = t
    /\ [i \in DOMAIN external.assignments |-> external.assignments[i].variable]
          = net.transitions[t].externals

Combined(binding, external) ==
    [v \in DOMAIN binding.values \cup {external.assignments[i].variable :
                                          i \in DOMAIN external.assignments} |->
        IF v \in DOMAIN binding.values THEN binding.values[v]
        ELSE external.assignments[CHOOSE i \in DOMAIN external.assignments :
                                     external.assignments[i].variable = v].value]

Collides(marking, retained, produced) ==
    \/ \E s, u \in DOMAIN produced :
          s # u /\ produced[s].id # None /\ produced[s].id = produced[u].id
    \/ \E s \in DOMAIN produced, p \in DOMAIN retained : \E i \in retained[p] :
          produced[s].id # None /\ produced[s].id = marking.places[p][i].id

\* Mutant: a marking is named by its tokens alone.
ContentName(marking, places) == [places |-> places]

SuccessorName(marking, places) == [predecessor |-> marking.name, places |-> places]

\* The marking that follows, with what is kept and what is produced.
Successor(net, marking, retained, produced) ==
    LET At(p) == {0} \X retained[p] \cup {s \in DOMAIN produced : Arc(net, s).place = p}
        places == [p \in DOMAIN marking.places |->
                     Canonical([x \in At(p) |->
                        IF x \in DOMAIN produced THEN produced[x] ELSE marking.places[p][x[2]]])]
    IN  [name |-> SuccessorName(marking, places), definition |-> net.name, places |-> places]

AdmitsSuccessor(net, marking) == ValidMarking(net, marking)

Failed(code) == [outcome |-> code, marking |-> None]

\* From the reconstruction of the occurrences to the successor.
Fired(net, marking, binding, external, f) ==
    LET values   == Combined(binding, external)
        slots    == Slots(net, binding.transition)
        retained == [p \in DOMAIN marking.places |-> Retained(marking, Consumed(net, f), p)]
        produced == [s \in slots |-> Produce(Template(net, s), values)]
    IN  IF \E s \in slots : ~ Evaluates(Template(net, s), values)
        THEN Failed("output_evaluation_failed")
        ELSE IF Collides(marking, retained, produced) THEN Failed("token_identity_collision")
        ELSE IF ~ AdmitsSuccessor(net, Successor(net, marking, retained, produced))
        THEN Failed("produced_token_invalid")
        ELSE [outcome |-> "success", marking |-> Successor(net, marking, retained, produced)]

\* ColoredPetriNetTransitionFirer, in the order of its checks.
Firing(i) ==
    LET enablement  == Enablement(i.definition, i.marking, Supported, Supported)
        assignments == Reconstruct(i.definition, i.marking, i.binding)
    IN  IF ~ ValidDefinition(i.definition) THEN Failed("invalid_definition")
        ELSE IF ~ ValidMarking(i.definition, i.marking)
             THEN Failed("invalid_predecessor_marking")
        ELSE IF enablement # i.enablement THEN Failed("enablement_mismatch")
        ELSE IF Selection(i.definition, enablement, i.selection.directive) # i.selection
             THEN Failed("selection_mismatch")
        ELSE IF i.selection.outcome # "selected" \/ i.selection.binding # i.binding
             THEN Failed("transition_or_binding_mismatch")
        ELSE IF i.directive # i.selection.directive THEN Failed("directive_mismatch")
        ELSE IF i.transition # i.binding.transition
             THEN Failed("transition_or_binding_mismatch")
        ELSE IF ~ ExternalsExact(i.definition, i.transition, i.external)
             THEN Failed("external_output_binding_mismatch")
        ELSE IF assignments = {} THEN Failed("input_occurrence_reconstruction_failed")
        ELSE Fired(i.definition, i.marking, i.binding, i.external,
                   CHOOSE f \in assignments : TRUE)
=============================================================================
