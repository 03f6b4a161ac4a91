--------------------------- MODULE ActionExchange ---------------------------
(***************************************************************************)
(* What Workflow and the owner of an action say to each other, and what    *)
(* each side checks of it: the firing requests and results of the workflow *)
(* SDK with the template method Firer.fire, the worker integration, the    *)
(* factory of requests and the mapper of results (actions/).               *)
(*                                                                         *)
(* A payload is its role, its metadata (owner, type, schema, codec,        *)
(* representation and media type as one value) and its content, which      *)
(* determines its length.  Records are identified by digests of their      *)
(* content, so a record stands for its identity.                           *)
(***************************************************************************)
EXTENDS Naturals, Sequences, SequencesExt

CONSTANTS LengthOf(_),     \* the length of a content, in bytes
          PathFreeTexts    \* contents that are ASCII identities and no path

\* A payload has at least one byte.
ASSUME TextAssumption == \A content \in PathFreeTexts : LengthOf(content) \in Nat \ {0}

MaxIdentityBytes == 512

Bytes(payloads) == FoldSeq(LAMBDA p, n : n + LengthOf(p.content), 0, payloads)

ContractBytes(contracts) == FoldSeq(LAMBDA c, n : n + c.maximum, 0, contracts)

RolesOf(s) == [i \in DOMAIN s |-> s[i].role]

\* _require_exact_tuple
IsTuple(s) == s \in Seq(Range(s))

-----------------------------------------------------------------------------
(* The descriptor of a firer: a contract for every payload, and bounds.    *)

BoundsAreValid(bounds) == {bounds.inputBytes, bounds.outputBytes} \subseteq 0 .. bounds.totalBytes

DescriptorIsValid(d) ==
    /\ BoundsAreValid(d.bounds)
    /\ \A contracts \in {d.inputs, d.outputs, d.evidence} :
          /\ IsTuple(contracts)
          /\ \A contract \in Range(contracts) : contract.maximum \in Nat \ {0}
          /\ IsInjective(RolesOf(contracts))
    /\ Len(d.inputs) <= d.bounds.inputs
    /\ Len(d.outputs) <= d.bounds.outputs
    /\ Len(d.evidence) <= d.bounds.evidence
    /\ ContractBytes(d.inputs) <= d.bounds.inputBytes
    /\ ContractBytes(d.outputs) <= d.bounds.outputBytes
    /\ ContractBytes(d.inputs) <= d.bounds.totalBytes
    /\ ContractBytes(d.outputs) + ContractBytes(d.evidence) <= d.bounds.totalBytes

\* The content of the only output becomes the external value of a transition.
MappingIsValid(mapping) ==
    /\ mapping.binding.firer = mapping.descriptor.firer
    /\ mapping.binding.inputRoles = RolesOf(mapping.descriptor.inputs)
    /\ mapping.binding.outputRoles = RolesOf(mapping.descriptor.outputs)
    /\ Len(mapping.descriptor.outputs) = 1
    /\ mapping.descriptor.outputs[1].maximum <= MaxIdentityBytes

\* ExecutionBindings: the plan's firer is the one of that name in the manifest.
BindingsAreValid(manifest, mapping) ==
    /\ MappingIsValid(mapping)
    /\ IsInjective([i \in DOMAIN manifest.firers |-> manifest.firers[i].firer])
    /\ \A i \in DOMAIN manifest.firers : DescriptorIsValid(manifest.firers[i])
    /\ {d \in Range(manifest.firers) : d.firer = mapping.descriptor.firer} = {mapping.descriptor}

Meets(payload, contract) ==
    /\ payload.role = contract.role
    /\ payload.metadata = contract.metadata
    /\ LengthOf(payload.content) <= contract.maximum

-----------------------------------------------------------------------------
(* The SDK.                                                                *)

\* _validate_payload_sequence: a role is looked up, so some may be left out.
MeetInOrder(payloads, contracts) ==
    \E at \in [DOMAIN payloads -> DOMAIN contracts] :
        /\ \A i \in DOMAIN payloads : Meets(payloads[i], contracts[at[i]])
        /\ \A i, j \in DOMAIN payloads : i < j => at[i] <= at[j]

MeetEvery(payloads, contracts) ==
    MeetInOrder(payloads, contracts) /\ Len(payloads) = Len(contracts)

\* What Firer.fire checks before it calls the owner.
FirerAccepts(d, request) ==
    /\ request.firer = d.firer
    /\ MeetEvery(request.inputs, d.inputs)
    /\ Len(request.inputs) <= d.bounds.inputs
    /\ Bytes(request.inputs) <= d.bounds.inputBytes
    /\ Bytes(request.inputs) <= d.bounds.totalBytes

\* Mutant: the digest leaves the net instance out.
RequestIdentityOnAnyNet(request) == <<"request", [request EXCEPT !.context.net = "any"]>>

\* A digest of all that the request says.
RequestIdentity(request) == <<"request", request>>

\* No result has two payloads of one role.
ResultIsWellFormed(result) ==
    \A payloads \in {result.outputs, result.evidence} :
        IsTuple(payloads) /\ IsInjective(RolesOf(payloads))

\* _validate_result_correlation: what it checks of what the owner returned.
ResultIsCorrelated(d, request, result) ==
    /\ result.request = RequestIdentity(request)
    /\ result.attempt = request.context.attempt
    /\ result.firer = d.firer
    /\ MeetInOrder(result.evidence, d.evidence)
    /\ Len(result.evidence) <= d.bounds.evidence
    /\ IF result.kind = "succeeded"
       THEN /\ MeetEvery(result.outputs, d.outputs)
            /\ Len(result.outputs) <= d.bounds.outputs
            /\ Bytes(result.outputs) <= d.bounds.outputBytes
       ELSE result.outputs = <<>> /\ result.codes <= d.bounds.codes
    /\ Bytes(result.outputs) + Bytes(result.evidence) <= d.bounds.totalBytes

\* _ALLOWED_RESULT_TYPES
ResultKinds == {"succeeded", "rejected", "failed"}

\* The owner's result comes out of fire; anything else raises.
FireReturns(d, request, result) ==
    /\ FirerAccepts(d, request)
    /\ result.kind \in ResultKinds
    /\ ResultIsWellFormed(result)
    /\ ResultIsCorrelated(d, request, result)

-----------------------------------------------------------------------------
(* The worker.                                                             *)

\* The live firers are those of the retained manifest, one by one.
IntegrationMatches(manifest, integration) ==
    /\ integration.manifest = manifest
    /\ IsInjective([i \in DOMAIN integration.firers |-> integration.firers[i].firer])
    /\ integration.firers = manifest.firers

\* _select_firer
FirersFor(integration, request) ==
    {i \in DOMAIN integration.firers : integration.firers[i].firer = request.firer}

Resolves(manifest, integration, request) ==
    /\ IntegrationMatches(manifest, integration)
    /\ \E i \in DOMAIN integration.firers : FirersFor(integration, request) = {i}

ResolvedFirer(integration, request) ==
    integration.firers[CHOOSE i \in FirersFor(integration, request) : TRUE]

-----------------------------------------------------------------------------
(* The request of an attempt.                                              *)

\* _validate_payloads: role by role, none left out.
SatisfyContracts(payloads, contracts) ==
    /\ Len(payloads) = Len(contracts)
    /\ \A i \in DOMAIN payloads : Meets(payloads[i], contracts[i])

RequestIsAdmissible(mapping, selected, coordinates, inputs) ==
    /\ selected.definition = mapping.binding.definition
    /\ selected.binding.transition = mapping.binding.transition
    /\ selected.marking = coordinates.marking
    /\ SatisfyContracts(inputs, mapping.descriptor.inputs)
    /\ Len(inputs) <= mapping.descriptor.bounds.inputs
    /\ Bytes(inputs) <= mapping.descriptor.bounds.inputBytes
    /\ Bytes(inputs) <= mapping.descriptor.bounds.totalBytes

OccurrenceContext(mapping, selected, coordinates) ==
    [definition |-> mapping.binding.definition,
     transition |-> mapping.binding.transition,
     net        |-> coordinates.net,
     marking    |-> coordinates.marking,
     revision   |-> coordinates.revision,
     selected   |-> selected.binding,
     attempt    |-> coordinates.attempt]

FiringRequest(mapping, selected, coordinates, inputs) ==
    [context |-> OccurrenceContext(mapping, selected, coordinates),
     binding |-> mapping.binding,
     firer   |-> mapping.binding.firer,
     inputs  |-> inputs]

-----------------------------------------------------------------------------
(* The mapper of a success.                                                *)

\* _validate_bounds
WithinBounds(d, request, result) ==
    /\ Len(request.inputs) <= d.bounds.inputs
    /\ Len(result.outputs) <= d.bounds.outputs
    /\ Len(result.evidence) <= d.bounds.evidence
    /\ Bytes(request.inputs) <= d.bounds.inputBytes
    /\ Bytes(result.outputs) <= d.bounds.outputBytes
    /\ Bytes(request.inputs) <= d.bounds.totalBytes
    /\ Bytes(result.outputs) + Bytes(result.evidence) <= d.bounds.totalBytes

\* (A mapping lets no content be longer than MaxIdentityBytes.)
IsPathFreeIdentity(content, maximum) ==
    content \in PathFreeTexts /\ LengthOf(content) \in 1 .. maximum

\* Mutant: a bound that is reached is taken for exceeded.
MapsBelowBound(mapping, transition, request, result) ==
    /\ request.binding = mapping.binding
    /\ request.firer = mapping.descriptor.firer
    /\ transition = [identity  |-> mapping.binding.transition,
                     externals |-> <<mapping.variable>>]
    /\ result.request = RequestIdentity(request)
    /\ SatisfyContracts(result.outputs, mapping.descriptor.outputs)
    /\ SatisfyContracts(result.evidence, mapping.descriptor.evidence)
    /\ Bytes(result.outputs) + Bytes(result.evidence) < mapping.descriptor.bounds.totalBytes
    /\ IsPathFreeIdentity(result.outputs[1].content, mapping.descriptor.outputs[1].maximum)

\* ExperimentalWorkflowAsciiOutputMapper.execute does not raise.
Maps(mapping, transition, request, result) ==
    /\ request.binding = mapping.binding
    /\ request.firer = mapping.descriptor.firer
    /\ request.context.definition = mapping.binding.definition
    /\ request.context.transition = mapping.binding.transition
    /\ transition = [identity  |-> mapping.binding.transition,
                     externals |-> <<mapping.variable>>]
    /\ result.request = RequestIdentity(request)
    /\ result.attempt = request.context.attempt
    /\ result.firer = request.firer
    /\ SatisfyContracts(request.inputs, mapping.descriptor.inputs)
    /\ SatisfyContracts(result.outputs, mapping.descriptor.outputs)
    /\ SatisfyContracts(result.evidence, mapping.descriptor.evidence)
    /\ WithinBounds(mapping.descriptor, request, result)
    /\ IsPathFreeIdentity(result.outputs[1].content, mapping.descriptor.outputs[1].maximum)

MappedResult(mapping, request, result) ==
    [mapping |-> mapping, request |-> request, result |-> result,
     value   |-> result.outputs[1].content]
=============================================================================
