---------------------------- MODULE MCColoredNet ----------------------------
(***************************************************************************)
(* Two places and four transitions.  move takes a token from the inbox     *)
(* past one that it only reads, unless the outbox holds one; join takes    *)
(* two by two arcs; renew puts back what it takes; back returns a token to *)
(* the inbox with a value and an identity from outside.                    *)
(***************************************************************************)
EXTENDS ColoredNetFiring, TLC

CONSTANTS inbox, outbox, move, join, renew, back, varX, varY, varZ, varV, varW

Whole(n) == [kind |-> "integer", at |-> n]
Text(n) == [kind |-> "string", at |-> n]

Var(name) == [variable |-> name]
Pat(colors, name) == [colors |-> colors, variable |-> name]

In(t, place, mode, patterns) ==
    [transition |-> t, place |-> place, mode |-> mode, patterns |-> patterns]
Out(t, place, color, value, identity) ==
    [transition |-> t, place |-> place, mode |-> "produce",
     templates |-> <<[color |-> color, value |-> value, identity |-> identity]>>]

Comparison(operator, a, b) == [operator |-> operator, left |-> Var(a), right |-> Var(b)]
AtMost(a, b) == <<Comparison("less_than_or_equal", a, b)>>
Always == <<[operator |-> "true"]>>

\* a = b and not a < b.
Same(a, b) ==
    <<Comparison("equal", a, b), Comparison("less_than", a, b),
      [operator |-> "not", operands |-> <<2>>], [operator |-> "all", operands |-> <<1, 3>>]>>

Arcs ==
    <<In(move, inbox, "consume", <<Pat({1, 2}, varX)>>),
      In(move, inbox, "read", <<Pat({1}, varY)>>),
      In(move, outbox, "inhibit", <<[colors |-> {1}]>>),
      Out(move, outbox, 1, Var(varX), None),
      In(join, inbox, "consume", <<Pat({1, 2}, varX)>>),
      In(join, inbox, "consume", <<Pat({1}, varY)>>),
      Out(join, outbox, 1, [literal |-> Whole(2)], None),
      In(renew, outbox, "consume", <<Pat({1}, varZ)>>),
      Out(renew, outbox, 1, Var(varZ), None),
      In(back, outbox, "consume", <<Pat({1}, varZ)>>),
      Out(back, inbox, 1, Var(varV), Var(varW))>>

Net(policy, priority) ==
    [name |-> policy, policy |-> policy, priority |-> priority,
     colors |-> <<{"integer", "string"}, {"string"}>>,
     places |-> (inbox :> {1, 2}) @@ (outbox :> {1}),
     transitions |->
        (move :> [inputs |-> <<varX, varY>>, externals |-> <<>>, guard |-> AtMost(varX, varY)]) @@
        (join :> [inputs |-> <<varY, varX>>, externals |-> <<>>,
                  guard |-> Same(varX, varY)]) @@
        (renew :> [inputs |-> <<varZ>>, externals |-> <<>>, guard |-> Always]) @@
        (back :> [inputs |-> <<varZ>>, externals |-> <<varV, varW>>, guard |-> Always]),
     arcs |-> Arcs]

MCNets == {Net("directed_allowed", <<move, join, renew, back>>),
           Net("deterministic_only", <<back, join, renew, move>>)}

MCRevised(n) == [n EXCEPT !.transitions[move].guard = Always]

One(id) == [color |-> 1, value |-> Whole(1), id |-> id]

\* Two equal tokens and an identified one; or two that differ.
MCInitialPlaces(n) ==
    IF n.policy = "directed_allowed"
    THEN (inbox :> <<One(1), One(None), One(None)>>) @@ (outbox :> <<>>)
    ELSE (inbox :> <<One(1), [One(None) EXCEPT !.value = Whole(2)]>>) @@ (outbox :> <<One(None)>>)

MCExternalValues == {Whole(1), Text(0), Text(1), Text(2), [kind |-> "none", at |-> 0]}

Symmetry == Permutations(Clients)
=============================================================================
