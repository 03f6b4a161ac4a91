-------------------------- MODULE FormalColoredNet --------------------------
(***************************************************************************)
(* The occurrence rule of colored Petri nets as a text book states it.     *)
(*                                                                         *)
(* A marking is a bag of tokens at each place.  A step takes one           *)
(* transition that no token inhibits; gives each of its demands a token of *)
(* an admitted color, the demands that consume from one place and the      *)
(* demands that read one place each within what the place holds; has a     *)
(* guard that is true of the tokens' values; removes the consumed tokens   *)
(* and adds what the templates make of those values and of any values from *)
(* outside.  An identified token is one and the same: there is never a     *)
(* second token of its identity.                                           *)
(***************************************************************************)
EXTENDS ColoredNetDefinition, Bags

CONSTANT ExternalValues

VARIABLES net, tokens

\* What an assignment of tokens to demands takes at a place, in one mode.
Taken(t, f, mode, p) ==
    BagOf([d \in {d \in Demands(net, t) : Arc(net, d).place = p /\ Arc(net, d).mode = mode}
             |-> f[d]])

MayTake(t, f) ==
    /\ \A d \in Demands(net, t) : f[d].color \in Pattern(net, d).colors
    /\ \A p \in DOMAIN net.places, mode \in {"consume", "read"} :
          Taken(t, f, mode, p) \sqsubseteq tokens[p]

Tokens == UNION {BagToSet(tokens[p]) : p \in DOMAIN tokens}

ValuesOf(t, f) ==
    [v \in Inputs(net, t) |->
        f[CHOOSE d \in Demands(net, t) : Pattern(net, d).variable = v].value]

Guard(t, f) == EvaluateGuard(net.transitions[t].guard, ValuesOf(t, f))

\* The ways a transition can take its tokens, whatever its guard.
Ways(t) ==
    IF Inhibited(net, t, [p \in DOMAIN tokens |-> BagToSet(tokens[p])]) THEN {}
    ELSE {f \in [Demands(net, t) -> Tokens] : MayTake(t, f)}

EnabledBindings ==
    UNION {{[transition |-> t, values |-> ValuesOf(t, f)]
              : f \in {f \in Ways(t) : Guard(t, f) = "true"}}
           : t \in DOMAIN net.transitions}

SomeGuardFails ==
    \E t \in DOMAIN net.transitions : \E f \in Ways(t) : Guard(t, f) = "fails"

Made(t, values, p) ==
    BagOf([s \in {s \in Slots(net, t) : Arc(net, s).place = p}
             |-> Produce(Template(net, s), values)])

WellFormed(marking) ==
    /\ \A p \in DOMAIN marking : \A x \in BagToSet(marking[p]) : AdmitsToken(net, p, x)
    /\ \A p, q \in DOMAIN marking :
          \A x \in BagToSet(marking[p]), y \in BagToSet(marking[q]) :
              x.id # None /\ x.id = y.id => p = q /\ x = y /\ marking[p][x] = 1

Occur(t, f, external) ==
    LET inputs == ValuesOf(t, f)
        values == [v \in Inputs(net, t) \cup Externals(net, t) |->
                      IF v \in Inputs(net, t) THEN inputs[v] ELSE external[v]]
    IN  /\ Guard(t, f) = "true"
        /\ \A s \in Slots(net, t) : Evaluates(Template(net, s), values)
        /\ tokens' = [p \in DOMAIN tokens |->
                        (tokens[p] (-) Taken(t, f, "consume", p)) (+) Made(t, values, p)]
        /\ WellFormed(tokens')
        /\ UNCHANGED net

Init == WellFormed(tokens)

Next ==
    \E t \in DOMAIN net.transitions :
        \E f \in Ways(t), external \in [Externals(net, t) -> ExternalValues] :
            Occur(t, f, external)

Spec == Init /\ [][Next]_<<net, tokens>>
=============================================================================
