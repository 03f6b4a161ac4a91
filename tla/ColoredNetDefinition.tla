------------------------ MODULE ColoredNetDefinition ------------------------
(***************************************************************************)
(* The static part of petrinet/colored: values and expressions, guards,    *)
(* net definitions and markings, and when they are valid.                  *)
(*                                                                         *)
(* Strings, colors and token identities are compared and ordered, never    *)
(* taken apart, so a natural number stands for each: its place in the      *)
(* order.  The string 0 is the empty one.  A value is its kind and such a  *)
(* number.  A net is a record                                              *)
(*   name         its nominal identity                                     *)
(*   colors       for each color the kinds of value it admits              *)
(*   places       for each place the colors it admits                      *)
(*   transitions  for each transition its inputs and externals (sequences  *)
(*                of variables) and its guard: the sequence of its parts,  *)
(*                each after its operands, the whole one last              *)
(*   arcs         a sequence, in the order of their identities             *)
(*   priority     a sequence of all transitions                            *)
(*   policy       whether a binding may be selected by directive           *)
(***************************************************************************)
EXTENDS Integers, Sequences, FiniteSets, SequencesExt

CONSTANT None         \* no identity, no directive

ASSUME NoneAssumption == None \notin Nat

Kinds == <<"boolean", "integer", "none", "real", "string", "string_sequence">>

KindRank(kind) == CHOOSE i \in DOMAIN Kinds : Kinds[i] = kind

\* _value_order_key, _value_key.
ValueKey(value) == <<KindRank(value.kind), value.at>>

\* ColoredPetriNetValue, ColoredPetriNetToken.
Values == [kind : ToSet(Kinds), at : Nat]
AllTokens == [color : Nat, value : Values, id : (Nat \ {0}) \cup {None}]

\* _token_order_key: an anonymous token comes before the identified ones.
TokenKey(token) ==
    <<token.color, ValueKey(token.value)[1], ValueKey(token.value)[2],
      IF token.id = None THEN 0 ELSE token.id>>

\* The order of tuples.
KeyPrecedes(a, b) ==
    \E i \in DOMAIN a : (\A j \in 1..i - 1 : a[j] = b[j]) /\ a[i] < b[i]

\* The tokens of one place are given by coordinates in the order in which they
\* come.  Those up to x, in canonical order; sorting is stable.
UpTo(tokens, x) ==
    {y \in DOMAIN tokens :
        \/ KeyPrecedes(TokenKey(tokens[y]), TokenKey(tokens[x]))
        \/ TokenKey(tokens[y]) = TokenKey(tokens[x]) /\ ~ KeyPrecedes(x, y)}

\* ColoredPetriNetPlaceMarking: as a sequence in canonical order.
Canonical(tokens) ==
    LET rank == [x \in DOMAIN tokens |-> Cardinality(UpTo(tokens, x))]
    IN  [k \in 1..Cardinality(DOMAIN tokens) |-> tokens[CHOOSE x \in DOMAIN tokens : rank[x] = k]]

\* The bag of the values of a function.
BagOf(f) == [x \in ToSet(f) |-> Cardinality({i \in DOMAIN f : f[i] = x})]

\* A sequence of tokens, by coordinates.
Listed(tokens) == [x \in {0} \X DOMAIN tokens |-> tokens[x[2]]]

-----------------------------------------------------------------------------
(* Expressions.                                                            *)

IsLiteral(expression) == "literal" \in DOMAIN expression

EvaluateValue(expression, values) ==
    IF IsLiteral(expression) THEN expression.literal ELSE values[expression.variable]

Variables(expression) == IF IsLiteral(expression) THEN {} ELSE {expression.variable}

Orderable == {"integer", "real", "string"}

\* A comparison holds, does not, or raises TypeError.
Compare(operator, left, right) ==
    IF \/ left.kind # right.kind
       \/ operator \notin {"equal", "not_equal"} /\ left.kind \notin Orderable
    THEN "fails"
    ELSE IF \/ operator = "equal" /\ left.at = right.at
            \/ operator = "not_equal" /\ left.at # right.at
            \/ operator = "less_than" /\ left.at < right.at
            \/ operator = "less_than_or_equal" /\ left.at <= right.at
            \/ operator = "greater_than" /\ left.at > right.at
            \/ operator = "greater_than_or_equal" /\ left.at >= right.at
         THEN "true" ELSE "false"

\* all() and any() look no further than the first operand that decides.
FirstUnlike(verdict, verdicts) ==
    LET others == {i \in DOMAIN verdicts : verdicts[i] # verdict}
    IN  IF others = {} THEN verdict
        ELSE verdicts[CHOOSE i \in others : \A j \in others : i <= j]

Connectives == {"all", "any", "not"}

\* Each part of a guard is judged after its operands.
EvaluateGuard(guard, values) ==
    LET verdict[k \in DOMAIN guard] ==
            LET part     == guard[k]
                operands == IF part.operator \in Connectives
                            THEN [i \in DOMAIN part.operands |-> verdict[part.operands[i]]]
                            ELSE <<>>
            IN  CASE part.operator \in {"true", "false"} -> part.operator
                  [] part.operator = "all" -> FirstUnlike("true", operands)
                  [] part.operator = "any" -> FirstUnlike("false", operands)
                  [] part.operator = "not" ->
                         IF operands[1] = "fails" THEN "fails"
                         ELSE IF operands[1] = "true" THEN "false" ELSE "true"
                  [] OTHER -> Compare(part.operator, EvaluateValue(part.left, values),
                                                     EvaluateValue(part.right, values))
    IN  verdict[Len(guard)]

GuardVariables(guard) ==
    LET comparisons == {k \in DOMAIN guard :
                           guard[k].operator \notin Connectives \cup {"true", "false"}}
    IN  UNION {Variables(guard[k].left) \cup Variables(guard[k].right) : k \in comparisons}

-----------------------------------------------------------------------------
(* Arcs and what they ask for.                                             *)

\* The arcs of a transition, by mode: consume, read, inhibit or produce.
ArcsOf(net, t, modes) ==
    {a \in DOMAIN net.arcs : net.arcs[a].transition = t /\ net.arcs[a].mode \in modes}

\* One token is demanded by each pattern of each consuming or reading arc.
Demands(net, t) ==
    UNION {{<<a, i>> : i \in DOMAIN net.arcs[a].patterns}
              : a \in ArcsOf(net, t, {"consume", "read"})}

\* One token is made by each template of each producing arc.
Slots(net, t) ==
    UNION {{<<a, i>> : i \in DOMAIN net.arcs[a].templates} : a \in ArcsOf(net, t, {"produce"})}

Arc(net, coordinate) == net.arcs[coordinate[1]]
Pattern(net, demand) == net.arcs[demand[1]].patterns[demand[2]]
Template(net, slot) == net.arcs[slot[1]].templates[slot[2]]

\* An identity is a string, and not the empty one.
Evaluates(template, values) ==
    template.identity # None =>
        LET v == EvaluateValue(template.identity, values) IN v.kind = "string" /\ v.at # 0

Produce(template, values) ==
    [color |-> template.color,
     value |-> EvaluateValue(template.value, values),
     id    |-> IF template.identity = None THEN None
               ELSE EvaluateValue(template.identity, values).at]

Inputs(net, t) == ToSet(net.transitions[t].inputs)
Externals(net, t) == ToSet(net.transitions[t].externals)

Inhibited(net, t, tokensAt) ==
    \E a \in ArcsOf(net, t, {"inhibit"}) :
        \E x \in tokensAt[net.arcs[a].place], i \in DOMAIN net.arcs[a].patterns :
            x.color \in net.arcs[a].patterns[i].colors

-----------------------------------------------------------------------------
(* Validation.                                                             *)

IsTuple(s) == s \in Seq(ToSet(s))

HasValues(template) ==
    /\ IsLiteral(template.value) => template.value.literal \in Values
    /\ template.identity # None /\ IsLiteral(template.identity) =>
          template.identity.literal \in Values

\* Of what the constructors of a definition and of its parts demand, what the
\* operations rely on.
IsNet(net) ==
    /\ DOMAIN net.colors \subseteq Nat
    /\ IsTuple(net.arcs) /\ IsTuple(net.priority)
    /\ \A a \in DOMAIN net.arcs :
          LET arc == net.arcs[a]
          IN  \/ /\ arc.mode = "produce" /\ IsTuple(arc.templates)
                 /\ \A i \in DOMAIN arc.templates : HasValues(arc.templates[i])
              \/ arc.mode \in {"consume", "read", "inhibit"} /\ IsTuple(arc.patterns)
    /\ DOMAIN net.transitions = ToSet(net.priority)
    /\ \A t \in DOMAIN net.transitions :
          /\ IsTuple(net.transitions[t].inputs) /\ IsTuple(net.transitions[t].externals)
          /\ Inputs(net, t) \cap Externals(net, t) = {}

AdmitsColor(net, place, color) ==
    color \in DOMAIN net.colors /\ color \in net.places[place]

ValidInputArc(net, arc) ==
    \A i \in DOMAIN arc.patterns :
        /\ \A color \in arc.patterns[i].colors : AdmitsColor(net, arc.place, color)
        /\ arc.mode # "inhibit" => arc.patterns[i].variable \in Inputs(net, arc.transition)

ValidOutputArc(net, arc) ==
    \A i \in DOMAIN arc.templates :
        LET template == arc.templates[i]
            declared == Inputs(net, arc.transition) \cup Externals(net, arc.transition)
        IN  /\ AdmitsColor(net, arc.place, template.color)
            /\ Variables(template.value) \subseteq declared
            /\ template.identity # None => Variables(template.identity) \subseteq declared

ValidTransition(net, t) ==
    /\ GuardVariables(net.transitions[t].guard) \subseteq Inputs(net, t)
    /\ \A variable \in Inputs(net, t) :
          Cardinality({d \in Demands(net, t) : Pattern(net, d).variable = variable}) = 1

\* ColoredPetriNetDefinitionValidator.
ValidDefinition(net) ==
    /\ \A p \in DOMAIN net.places : net.places[p] \subseteq DOMAIN net.colors
    /\ \A a \in DOMAIN net.arcs :
          LET arc == net.arcs[a]
          IN  /\ arc.place \in DOMAIN net.places
              /\ arc.transition \in DOMAIN net.transitions
              /\ IF arc.mode = "produce" THEN ValidOutputArc(net, arc) ELSE ValidInputArc(net, arc)
    /\ \A t \in DOMAIN net.transitions : ValidTransition(net, t)

AdmitsToken(net, place, token) ==
    AdmitsColor(net, place, token.color) /\ token.value.kind \in net.colors[token.color]

\* ColoredPetriNetMarkingValidator.
ValidMarking(net, marking) ==
    /\ marking.definition = net.name
    /\ DOMAIN marking.places = DOMAIN net.places
    /\ \A p \in DOMAIN marking.places :
          \A i \in DOMAIN marking.places[p] : AdmitsToken(net, p, marking.places[p][i])

\* The individual identities in a marking, with the coordinate of each.
Identified(places) ==
    UNION {{<<p, i>> : i \in {j \in DOMAIN places[p] : places[p][j].id # None}}
              : p \in DOMAIN places}

\* What ColoredPetriNetMarking demands of its tokens, and raises without.
IdentitiesAreUnique(places) ==
    \A x, y \in Identified(places) :
        places[x[1]][x[2]].id = places[y[1]][y[2]].id => x = y
=============================================================================
