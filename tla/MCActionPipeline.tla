-------------------------- MODULE MCActionPipeline --------------------------
(***************************************************************************)
(* Two nets at one marking with two bindings to choose from, a source      *)
(* whose two revisions read alike, and an owner whose answers range over   *)
(* what Firer.fire lets pass and what it does not.  The contracts leave    *)
(* the bounds of the descriptor no slack.                                  *)
(***************************************************************************)
EXTENDS ActionPipeline

CONSTANTS n1, n2, m0, m1, m2, plan, a1, good, other, path, large, data

MCLengthOf(content) == IF content = large THEN 4 ELSE IF content = data THEN 1 ELSE 3

Contract(role, maximum) == [role |-> role, metadata |-> role, maximum |-> maximum]
Payload(role, content)  == [role |-> role, metadata |-> role, content |-> content]

Descriptor(firer) ==
    [firer    |-> firer,
     inputs   |-> <<Contract("seed", 1)>>,
     outputs  |-> <<Contract("answer", 3)>>,
     evidence |-> <<Contract("log", 1), Contract("proof", 1)>>,
     bounds   |-> [inputs |-> 1, outputs |-> 1, evidence |-> 2, codes |-> 1,
                   inputBytes |-> 1, outputBytes |-> 3, totalBytes |-> 5]]

MCManifest == [name |-> "manifest", firers |-> <<Descriptor("a"), Descriptor("b")>>]

MCMapping ==
    [binding    |-> [definition |-> "net", transition |-> "act", firer |-> "b",
                     inputRoles |-> <<"seed">>, outputRoles |-> <<"answer">>],
     descriptor |-> Descriptor("b"),
     variable   |-> "x"]

Choice(transition, mode) == [transition |-> transition, mode |-> mode]

MCSelections ==
    {[definition |-> "net", marking |-> m, binding |-> b] :
        m \in {m0}, b \in {Choice("act", 1), Choice("act", 2)}}
    \cup {[definition |-> "net", marking |-> m1, binding |-> Choice("act", 1)],
          [definition |-> "net", marking |-> m0, binding |-> Choice("rest", 1)],
          [definition |-> "twin", marking |-> m0, binding |-> Choice("act", 1)]}

At(net, marking, revision) ==
    [net |-> net, marking |-> marking, revision |-> revision, attempt |-> a1]

MCOffered == {At(n1, m0, 0), At(n2, m0, 0), At(n1, m1, 1)}

MCIntegrations ==
    {[manifest |-> MCManifest, firers |-> MCManifest.firers],
     [manifest |-> MCManifest, firers |-> <<Descriptor("b")>>]}

MCTransitions ==
    {[identity |-> "act", externals |-> <<"x">>], [identity |-> "act", externals |-> <<"y">>]}

Result(request, kind, outputs, evidence) ==
    [request |-> RequestIdentity(request), attempt |-> request.context.attempt, firer |-> request.firer,
     kind |-> kind, outputs |-> outputs, evidence |-> evidence,
     codes |-> IF kind = "succeeded" THEN 0 ELSE 1]

All == <<Payload("log", data), Payload("proof", data)>>

MCOwner(request) ==
    {Result(request, "succeeded", <<Payload("answer", c)>>, All) : c \in {good, other, path, large}}
    \cup {Result(request, "succeeded", <<Payload("answer", good)>>, e) :
             e \in {<<All[2]>>, <<All[2], All[1]>>, <<All[1], All[1]>>}}
    \cup {Result(request, "rejected", <<>>, <<>>), Result(request, "deferred", <<>>, <<>>),
          Result([request EXCEPT !.context.net = None], "succeeded",
                 <<Payload("answer", good)>>, All)}

MCInputsAt(revision) == <<Payload("seed", data)>>

\* Mode 1 goes where the owner says, mode 2 the other way or, for a path,
\* nowhere.
MCOccur(marking, binding, content) ==
    CASE binding.mode = 1 /\ content = good  -> m1
      [] binding.mode = 1 /\ content = other -> m2
      [] binding.mode = 2 /\ content = good  -> m2
      [] OTHER -> None

MCStart == [n \in Nets |-> [marking |-> m0, revision |-> 0]]
=============================================================================
