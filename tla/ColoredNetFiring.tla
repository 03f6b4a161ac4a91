-------------------------- MODULE ColoredNetFiring --------------------------
(***************************************************************************)
(* Callers of petrinet/colored that advance one marking.                   *)
(*                                                                         *)
(* The operations keep no state.  Their caller does: the marking that is   *)
(* current, and the enablement and selection computed from some marking,   *)
(* which may be current no more when the binding is fired.  Each client    *)
(* enables and selects in one step (both are functions of the current      *)
(* marking) and fires in another, and between the two every client may     *)
(* fire.  A firing is offered what the client holds, or that with one part *)
(* exchanged; it is committed for the plan that closes over the net, with  *)
(* the bundle by which it can be replayed.                                 *)
(***************************************************************************)
EXTENDS ColoredNetReplay, Bags

CONSTANTS
    Clients,
    Nets,              \* the definitions, one of which is in use
    InitialName,       \* the identity its caller gives the first marking
    InitialPlaces(_),  \* its tokens, for each definition
    Revised(_),        \* another definition of the same nominal identity
    ExternalValues,    \* the values actions may return
    MaxFirings         \* a bound

ASSUME ClientsAssumption == IsFiniteSet(Clients)
ASSUME NetsAssumption ==
    \A n \in Nets :
        /\ IsNet(n) /\ ValidDefinition(n)
        /\ ValidDefinition(Revised(n)) /\ Revised(n).name = n.name
        /\ \A p \in DOMAIN InitialPlaces(n) : InitialPlaces(n)[p] \in Seq(AllTokens)
        /\ ValidMarking(n, [definition |-> n.name, places |-> InitialPlaces(n)])
        /\ IdentitiesAreUnique(InitialPlaces(n))
ASSUME ExternalValuesAssumption == ExternalValues \subseteq Values
ASSUME MaxFiringsAssumption == MaxFirings \in Nat

VARIABLES
    net,
    marking,
    held,              \* what each client has selected, and when
    firings,           \* how many firings were committed
    retained           \* the last of their commits

vars == <<net, marking, held, firings, retained>>

Marking(n) ==
    [name |-> [nominal |-> InitialName], definition |-> n.name,
     places |-> [p \in DOMAIN n.places |-> Canonical(Listed(InitialPlaces(n)[p]))]]

Init ==
    /\ net \in Nets
    /\ marking = Marking(net)
    /\ held = [c \in Clients |-> None]
    /\ firings = 0
    /\ retained = None

Holders == {c \in Clients : held[c] # None}

Definitions == {net, Revised(net)}

-----------------------------------------------------------------------------

\* A directive names an enablement, the present one or one from before.
Directives(enablement) ==
    {None} \cup
    UNION {{[enablement |-> e, binding |-> b] : b \in e.bindings}
              : e \in {enablement} \cup {held[c].selection.enablement : c \in Holders}}

Choose(c) ==
    \E d \in Definitions :
        LET enablement == Enablement(d, marking, Supported, Supported)
        IN  \E directive \in Directives(enablement) :
                LET selection == Selection(net, enablement, directive)
                IN  /\ selection.outcome = "selected"
                    /\ held' = [held EXCEPT ![c] = [selection |-> selection, since |-> firings]]
                    /\ UNCHANGED <<net, marking, firings, retained>>

-----------------------------------------------------------------------------

ExternalBindings(t) ==
    LET variables == net.transitions[t].externals
    IN  {[transition |-> t,
          assignments |-> [i \in DOMAIN variables |->
                             [variable |-> variables[i], value |-> f[i]]]]
            : f \in [DOMAIN variables -> ExternalValues]}

Held(c, external) ==
    LET selection == held[c].selection
    IN  [definition |-> net, marking |-> marking,
         enablement |-> selection.enablement, selection |-> selection,
         binding    |-> selection.binding,
         transition |-> selection.binding.transition,
         directive  |-> selection.directive, external |-> external]

\* The same, or with one part exchanged.
Exchanged(i) ==
    {i}
    \cup {[i EXCEPT !.definition = Revised(net)]}
    \cup {[i EXCEPT !.enablement = Enablement(net, marking, Supported, Supported)]}
    \cup {[i EXCEPT !.binding = held[k].selection.binding] : k \in Holders}
    \cup {[i EXCEPT !.transition = t] : t \in DOMAIN net.transitions}
    \cup {[i EXCEPT !.directive = held[k].selection.directive] : k \in Holders}
    \cup {[i EXCEPT !.external.assignments = Reverse(@)]}

Offers(c) ==
    UNION {Exchanged(Held(c, external))
              : external \in ExternalBindings(held[c].selection.binding.transition)}

\* The plans of the actions that are compiled to the net in use.
Plans ==
    {Plan(action, net, Supported) :
        action \in {a \in [definition : {net.name}, transition : DOMAIN net.transitions] :
                       MakesPlan(a, net)}}

Fire(c) ==
    /\ c \in Holders
    /\ firings < MaxFirings
    /\ \E i \in Offers(c), plan \in Plans :
          /\ FiresUnder(plan, i)
          /\ MakesBundle(plan, i)
          /\ marking' = Firing(i).marking
          /\ firings' = firings + 1
          /\ retained' = [columns |-> Columns(plan, i), bundle |-> Bundle(plan, i)]
          /\ UNCHANGED <<net, held>>

Next == \E c \in Clients : Choose(c) \/ Fire(c)

Spec == Init /\ [][Next]_vars

-----------------------------------------------------------------------------
(* Properties.                                                             *)

\* The marking is always a valid marking of the net in use, with its tokens in
\* canonical order, though each firing decides that for tokens whose values
\* come from outside; and what is held is a selection.
TypeOK ==
    /\ net \in Nets
    /\ ValidMarking(net, marking)
    /\ \A p \in DOMAIN marking.places : marking.places[p] = Canonical(Listed(marking.places[p]))
    /\ \A c \in Holders : /\ held[c].selection.outcome = "selected"
                          /\ held[c].since \in 0..firings
    /\ firings \in 0..MaxFirings

-----------------------------------------------------------------------------
\* The bag of tokens at each place: what a marking is to the formal net.
TokenBags == [p \in DOMAIN marking.places |-> BagOf(marking.places[p])]

Formal == INSTANCE FormalColoredNet WITH tokens <- TokenBags

\* Every change of the marking is an occurrence of the formal net: the tokens
\* that go are those the binding consumes, one for each demand; those only read
\* stay, and of equal tokens no more go than are consumed.
ImplementsFormalNet == Formal!Spec

\* Enablement, which enumerates occurrences of tokens, finds exactly the
\* bindings that the formal net enables, and fails exactly when the guard of
\* some feasible binding has no value.
EnablementIsComplete ==
    LET e == Enablement(net, marking, Supported, Supported)
    IN  IF Formal!SomeGuardFails THEN e.outcome = "guard_evaluation_failed"
        ELSE e.outcome = "enabled" /\ e.bindings = Formal!EnabledBindings

\* What was selected from the current marking can be fired: only the values
\* that come from outside can make it fail.  A binding forgets which tokens it
\* was made of, and firing finds such tokens again.
CurrentSelectionFires ==
    \A c \in Holders :
        held[c].since = firings /\ held[c].selection.enablement.definition = net =>
            \A external \in ExternalBindings(held[c].selection.binding.transition) :
                Firing(Held(c, external)).outcome \in
                    {"success", "output_evaluation_failed",
                     "token_identity_collision", "produced_token_invalid"}

\* What was selected before the last firing never fires, whichever part of it
\* is exchanged, also when the tokens are the same as they were then.
OldSelectionNeverFires ==
    \A c \in Holders :
        held[c].since < firings => \A i \in Offers(c) : Firing(i).outcome # "success"

\* A bundle with one part exchanged: the net with its plan, the profile, a
\* marking, a binding, the transition, the directive.
Altered(b) ==
    LET enablement == Enablement(b.definition, b.predecessor, Supported, Supported)
        Under(definition, profile) ==
            [b EXCEPT !.definition = definition, !.profile = profile,
                      !.plan = Plan(b.action, definition, profile)]
    IN  ({Under(Revised(net), b.profile), Under(net, "v0"),
          [b EXCEPT !.definition = Revised(net)],
          [b EXCEPT !.predecessor = b.successor], [b EXCEPT !.successor = b.predecessor]}
         \cup {[b EXCEPT !.binding = x] : x \in enablement.bindings}
         \cup {[b EXCEPT !.external = x] : x \in ExternalBindings(b.transition)}
         \cup {[b EXCEPT !.transition = t] : t \in DOMAIN net.transitions}
         \cup {[b EXCEPT !.directive = d] : d \in Directives(enablement)}) \ {b}

\* The commit that is retained replays, although enablement and selection were
\* not retained; no bundle that differs from its own in one part does, also
\* when it leads to the same marking.  That the action is another one only
\* the commit can tell.
ReplayIsExact ==
    /\ DurableReplay(retained) = IF retained = None THEN "absent" ELSE "replayed"
    /\ retained # None =>
          LET bundle == retained.bundle
          IN  /\ \A b \in Altered(bundle) : Replay(b) # "replayed"
              /\ \A plan \in Plans \ {bundle.plan} :
                    DurableReplay([retained EXCEPT !.bundle.action = plan.action,
                                                   !.bundle.plan = plan]) # "replayed"
=============================================================================
