------------------------- MODULE ActionPipelineProofs -----------------------
(***************************************************************************)
(* What holds of the records that the pure-action services pass on, for    *)
(* any nets, owners, sources, selections and bounds, and however callers   *)
(* combine what they hold.                                                 *)
(*                                                                         *)
(* Each record closes over the ones it was made of, and each service       *)
(* checks no more than the link to the record before it.  The invariant    *)
(* follows the links: a commit back to the firing, the invocation, the     *)
(* answer and the authorized input; and by revisions from one commit of a  *)
(* net to the next.                                                        *)
(***************************************************************************)
EXTENDS ActionPipeline, WellFoundedInduction, TLAPS

-----------------------------------------------------------------------------
(* Payloads in the order of their contracts.                               *)

\* Every set of numbers has a least one.
LEMMA LeastNatural ==
    ASSUME NEW T \in SUBSET Nat, T # {}
    PROVE  \E x \in T : \A y \in T : x <= y
<1> DEFINE R == OpToRel(<, Nat)
<1>1. IsWellFoundedOn(R, Nat)
  BY NatLessThanWellFounded
<1>2. \A x, y \in Nat : x < y => <<x, y>> \in R
  BY DEF OpToRel
<1> HIDE DEF R
<1>3. PICK x \in T : \A y \in T : ~ (<<y, x>> \in R)
  BY <1>1, WFMin
<1>4. ASSUME NEW y \in T
      PROVE  x <= y
  <2>1. x \in Nat /\ y \in Nat /\ ~ (y < x)
    BY <1>2, <1>3
  <2> QED
    BY <2>1
<1> QED
  BY <1>4

\* A strictly increasing function on 1..m outruns its argument.
LEMMA StrictlyIncreasing ==
    ASSUME NEW m \in Nat, NEW n \in Nat, NEW f \in [1..m -> 1..n],
           \A i, j \in 1..m : i < j => f[i] < f[j]
    PROVE  \A i \in 1..m : i <= f[i]
<1> SUFFICES ASSUME \E i \in 1..m : ~ (i <= f[i])
             PROVE  FALSE
  OBVIOUS
<1> DEFINE T == {i \in 1..m : f[i] < i}
<1>1. T \in SUBSET Nat /\ T # {}
  OBVIOUS
<1>2. PICK x \in T : \A y \in T : x <= y
  BY <1>1, LeastNatural
<1>3. x \in 1..m /\ f[x] < x /\ f[x] \in 1..n
  OBVIOUS
<1>4. x - 1 \in 1..m /\ f[x-1] < f[x] /\ f[x-1] \in 1..n
  BY <1>3
<1>5. x - 1 \in T
  BY <1>3, <1>4
<1> QED
  BY <1>2, <1>3, <1>5

\* One that has no room to skip is the identity.
LEMMA IncreasingIsIdentity ==
    ASSUME NEW m \in Nat, NEW n \in Nat, n <= m, NEW f \in [1..m -> 1..n],
           \A i, j \in 1..m : i < j => f[i] < f[j]
    PROVE  m = n /\ \A i \in 1..m : f[i] = i
<1>1. \A i \in 1..m : i <= f[i]
  BY StrictlyIncreasing
<1>2. m = n
  <2>1. CASE m = 0
    BY <2>1
  <2>2. CASE m # 0
    <3>1. m \in 1..m /\ f[m] \in 1..n
      BY <2>2
    <3> QED
      BY <1>1, <3>1
  <2> QED
    BY <2>1, <2>2
<1> DEFINE g == [i \in 1..m |-> m + 1 - f[m + 1 - i]]
<1>3. g \in [1..m -> 1..n]
  BY <1>2
<1>4. \A i, j \in 1..m : i < j => g[i] < g[j]
  <2> SUFFICES ASSUME NEW i \in 1..m, NEW j \in 1..m, i < j
               PROVE  g[i] < g[j]
    OBVIOUS
  <2>1. m + 1 - j \in 1..m /\ m + 1 - i \in 1..m /\ m + 1 - j < m + 1 - i
    OBVIOUS
  <2>2. f[m + 1 - j] < f[m + 1 - i] /\ f[m + 1 - j] \in Int /\ f[m + 1 - i] \in Int
    BY <2>1
  <2> QED
    BY <2>2
<1>5. \A i \in 1..m : i <= g[i]
  <2> HIDE DEF g
  <2> QED
    BY <1>3, <1>4, StrictlyIncreasing
<1>6. ASSUME NEW i \in 1..m
      PROVE  f[i] = i
  <2>1. m + 1 - i \in 1..m /\ m + 1 - (m + 1 - i) = i
    OBVIOUS
  <2>2. m + 1 - i <= m + 1 - f[i]
    BY <1>5, <2>1
  <2> QED
    BY <1>1, <2>2
<1> QED
  BY <1>2, <1>6

\* Payloads of different roles that come in the order of the contracts meet
\* them one by one, when there are as many: none can stand in for another.
LEMMA MeetsInPlace ==
    ASSUME NEW payloads, NEW contracts, IsTuple(payloads), IsTuple(contracts),
           IsInjective(RolesOf(payloads)), Len(contracts) <= Len(payloads),
           MeetInOrder(payloads, contracts)
    PROVE  SatisfyContracts(payloads, contracts)
<1> DEFINE m == Len(payloads)
           n == Len(contracts)
<1>1. /\ m \in Nat /\ DOMAIN payloads = 1..m
      /\ n \in Nat /\ DOMAIN contracts = 1..n
  BY DEF IsTuple
<1>2. PICK at \in [1..m -> 1..n] :
         /\ \A i \in 1..m : Meets(payloads[i], contracts[at[i]])
         /\ \A i, j \in 1..m : i < j => at[i] <= at[j]
  BY <1>1 DEF MeetInOrder
<1>3. ASSUME NEW i \in 1..m, NEW j \in 1..m, i < j
      PROVE  at[i] < at[j]
  <2>1. at[i] # at[j]
    <3>1. SUFFICES ASSUME at[i] = at[j]
                   PROVE  FALSE
      OBVIOUS
    <3>2. payloads[i].role = payloads[j].role
      BY <1>2, <3>1 DEF Meets
    <3>3. RolesOf(payloads)[i] = RolesOf(payloads)[j] /\ DOMAIN RolesOf(payloads) = 1..m
      BY <1>1, <3>2 DEF RolesOf
    <3> QED
      BY <1>3, <3>3 DEF IsInjective
  <2>2. at[i] <= at[j] /\ at[i] \in 1..n /\ at[j] \in 1..n
    BY <1>2, <1>3
  <2> QED
    BY <1>1, <2>1, <2>2
<1>4. m = n /\ \A i \in 1..m : at[i] = i
  <2> HIDE DEF m, n
  <2>1. n <= m
    BY DEF m, n
  <2> QED
    BY <1>1, <1>2, <1>3, <2>1, IncreasingIsIdentity
<1> QED
  BY <1>1, <1>2, <1>4 DEF SatisfyContracts

-----------------------------------------------------------------------------
(* The records.                                                            *)

\* The request is one that the mapping's own firer accepts.
RequestWhole(request) ==
    /\ request.binding = Mapping.binding
    /\ request.firer = Mapping.binding.firer
    /\ request.context.definition = Mapping.binding.definition
    /\ request.context.transition = Mapping.binding.transition
    /\ SatisfyContracts(request.inputs, Mapping.descriptor.inputs)
    /\ Len(request.inputs) <= Mapping.descriptor.bounds.inputs
    /\ Bytes(request.inputs) <= Mapping.descriptor.bounds.inputBytes
    /\ Bytes(request.inputs) <= Mapping.descriptor.bounds.totalBytes

\* The request was made for the marking that the binding was selected at.
AuthorizedWhole(a) ==
    /\ a.request.context.net \in Nets
    /\ a.selected.marking = a.request.context.marking
    /\ RequestWhole(a.request)

\* What the mapper may hold against a success that Firer.fire let pass.
RefusedForReason(i) ==
    \/ Len(i.result.evidence) < Len(Mapping.descriptor.evidence)
    \/ i.result.outputs[1].content \notin PathFreeTexts
    \/ i.transition # [identity  |-> Mapping.binding.transition,
                       externals |-> <<Mapping.variable>>]

ReservedWhole(r) ==
    /\ r.attempt.authorized \in authorized
    /\ r = ReservationFor(r.attempt.authorized, r.attempt.plan)

\* What was mapped is an answer of the owner to the reservation's request.
InvocationWhole(i) ==
    /\ i.reservation \in reserved
    /\ i.reservation.attempt.authorized = i.authorized
    /\ [authorized |-> i.authorized, reservation |-> i.reservation,
        result |-> i.result] \in answers
    /\ i.status = "mapped" =>
          /\ i.mapped = MappedResult(Mapping, i.authorized.request, i.result)
          /\ i.result.kind = "succeeded"
          /\ i.result.request = RequestIdentity(i.authorized.request)
          /\ Len(i.result.evidence) = Len(Mapping.descriptor.evidence)
    /\ i.status = "result_rejected" => RefusedForReason(i)

FiringWhole(f) ==
    LET a == f.invocation.authorized
    IN  /\ f.invocation \in invocations
        /\ f.invocation.status = "mapped"
        /\ f.invocation.mapped.mapping = Mapping
        /\ f.invocation.mapped.request = a.request
        /\ f.invocation.reservation.attempt.plan = Plan
        /\ f.predecessor = a.request.context.marking
        /\ f.successor = Occur(f.predecessor, a.selected.binding, f.invocation.mapped.value)

CommitWhole(x) ==
    \E f \in firings :
        /\ x = PreparedCommit(f.invocation.reservation, f.invocation, f)
        /\ f.successor # f.predecessor

\* The commits of a net are numbered by the revisions they leave.
Numbered ==
    /\ DOMAIN current = Nets
    /\ \A n \in Nets : current[n].revision \in Nat
    /\ \A x \in commits :
          /\ x.reservation.at.revision \in Nat
          /\ x.reservation.at.revision < current[x.reservation.net].revision
    /\ \A x, y \in commits :
          /\ x.reservation.net = y.reservation.net
          /\ x.reservation.at.revision = y.reservation.at.revision
          => x = y

IInv ==
    /\ \A a \in authorized : AuthorizedWhole(a)
    /\ \A r \in reserved : ReservedWhole(r)
    /\ \A i \in invocations : InvocationWhole(i)
    /\ \A f \in firings : FiringWhole(f)
    /\ \A x \in commits : CommitWhole(x)
    /\ Numbered

\* Records are only ever added, and what a record rests on stays.
LEMMA WholeStaysWhole ==
    ASSUME authorized \subseteq authorized', reserved \subseteq reserved',
           invocations \subseteq invocations', firings \subseteq firings',
           answers \subseteq answers'
    PROVE  /\ \A r : ReservedWhole(r) => ReservedWhole(r)'
           /\ \A i : InvocationWhole(i) => InvocationWhole(i)'
           /\ \A f : FiringWhole(f) => FiringWhole(f)'
           /\ \A x : CommitWhole(x) => CommitWhole(x)'
<1>1. ASSUME NEW r, ReservedWhole(r) PROVE ReservedWhole(r)'
  BY <1>1 DEF ReservedWhole
<1>2. ASSUME NEW i, InvocationWhole(i) PROVE InvocationWhole(i)'
  BY <1>2 DEF InvocationWhole, RefusedForReason
<1>3. ASSUME NEW f, FiringWhole(f) PROVE FiringWhole(f)'
  BY <1>3 DEF FiringWhole
<1>4. ASSUME NEW x, CommitWhole(x) PROVE CommitWhole(x)'
  BY <1>4 DEF CommitWhole
<1> QED
  BY <1>1, <1>2, <1>3, <1>4

LEMMA InitInvariant == Init => IInv
<1> SUFFICES ASSUME Init PROVE IInv
  OBVIOUS
<1>1. DOMAIN Start = Nets /\ \A n \in Nets : Start[n].revision \in Nat
  BY PipelineAssumption DEF Coordinate
<1> QED
  BY <1>1 DEF Init, IInv, Numbered

-----------------------------------------------------------------------------
(* The services.                                                           *)

LEMMA AuthorizeKeeps ==
    ASSUME IInv, NEW s \in Selections, NEW c \in Offered, Authorize(s, c)
    PROVE  IInv'
<1> DEFINE a == [seen |-> source, selected |-> s,
                 request |-> FiringRequest(Mapping, s, c, InputsAt(source))]
<1>1. authorized' = authorized \cup {a} /\ s.marking = c.marking
      /\ UNCHANGED <<current, active, commits, reserved, invocations, firings, answers>>
  BY DEF Authorize, RequestIsAdmissible, repository
<1>2. AuthorizedWhole(a)
  <2>1. RequestIsAdmissible(Mapping, s, c, InputsAt(source))
    BY DEF Authorize
  <2>2. RequestWhole(FiringRequest(Mapping, s, c, InputsAt(source)))
    BY <2>1 DEF RequestWhole, RequestIsAdmissible, FiringRequest, OccurrenceContext
  <2> QED
    BY <1>1, <2>2, PipelineAssumption DEF AuthorizedWhole, FiringRequest, OccurrenceContext
<1>3. \A b \in authorized' : AuthorizedWhole(b)
  BY <1>1, <1>2 DEF IInv
<1>4. Numbered'
  BY <1>1 DEF IInv, Numbered
<1> QED
  BY <1>1, <1>3, <1>4, WholeStaysWhole DEF IInv

LEMMA ReserveKeeps ==
    ASSUME IInv, NEW a \in authorized, NEW plan \in {Plan, None}, Reserve(a, plan)
    PROVE  IInv'
<1> DEFINE r == ReservationFor(a, plan)
<1>1. reserved' = reserved \cup {r}
      /\ UNCHANGED <<current, commits, authorized, invocations, firings, answers>>
  BY DEF Reserve
<1>2. ReservedWhole(r)'
  BY <1>1 DEF ReservedWhole, ReservationFor
<1>3. Numbered'
  BY <1>1 DEF IInv, Numbered
<1>4. \A b \in authorized' : AuthorizedWhole(b)
  BY <1>1 DEF IInv
<1>5. \A q \in reserved' : ReservedWhole(q)'
  BY <1>1, <1>2, WholeStaysWhole DEF IInv
<1> QED
  BY <1>1, <1>3, <1>4, <1>5, WholeStaysWhole DEF IInv

\* The firer that a matching integration resolves is the mapping's own, and
\* its contracts are well formed.
LEMMA ResolvesOwnFirer ==
    ASSUME NEW integration, NEW request, Resolves(Manifest, integration, request),
           request.firer = Mapping.binding.firer
    PROVE  /\ ResolvedFirer(integration, request) = Mapping.descriptor
           /\ DescriptorIsValid(Mapping.descriptor)
           /\ MappingIsValid(Mapping)
<1>1. /\ MappingIsValid(Mapping)
      /\ \A i \in DOMAIN Manifest.firers : DescriptorIsValid(Manifest.firers[i])
      /\ {d \in Range(Manifest.firers) : d.firer = Mapping.descriptor.firer}
            = {Mapping.descriptor}
  BY PipelineAssumption DEF BindingsAreValid
<1>2. integration.firers = Manifest.firers
  BY DEF Resolves, IntegrationMatches
<1>3. PICK i \in DOMAIN Manifest.firers : FirersFor(integration, request) = {i}
  BY <1>2 DEF Resolves
<1>4. Manifest.firers[i].firer = Mapping.descriptor.firer
  <2>1. i \in FirersFor(integration, request)
    BY <1>3
  <2>2. Manifest.firers[i].firer = request.firer
    BY <1>2, <2>1 DEF FirersFor
  <2> QED
    BY <1>1, <2>2 DEF MappingIsValid
<1>5. Manifest.firers[i] = Mapping.descriptor
  <2>1. Manifest.firers[i] \in Range(Manifest.firers)
    BY DEF Range
  <2> QED
    BY <1>1, <1>4, <2>1
<1>6. ResolvedFirer(integration, request) = Manifest.firers[i]
  BY <1>2, <1>3 DEF ResolvedFirer
<1> QED
  BY <1>1, <1>5, <1>6

\* A success that the mapping's firer let pass, with all the evidence, a
\* path-free output and the transition of the mapping, is mapped.
LEMMA CompleteSuccessMaps ==
    ASSUME NEW request, RequestWhole(request), NEW transition, NEW result,
           DescriptorIsValid(Mapping.descriptor), MappingIsValid(Mapping),
           FireReturns(Mapping.descriptor, request, result), result.kind = "succeeded",
           ~ (Len(result.evidence) < Len(Mapping.descriptor.evidence)),
           result.outputs[1].content \in PathFreeTexts,
           transition = [identity  |-> Mapping.binding.transition,
                         externals |-> <<Mapping.variable>>]
    PROVE  Maps(Mapping, transition, request, result)
<1> DEFINE d == Mapping.descriptor
<1>1. /\ IsTuple(d.outputs) /\ IsTuple(d.evidence)
      /\ \A contract \in Range(d.outputs) : contract.maximum \in Nat \ {0}
  BY DEF DescriptorIsValid
<1>2. /\ IsTuple(result.outputs) /\ IsTuple(result.evidence)
      /\ IsInjective(RolesOf(result.outputs)) /\ IsInjective(RolesOf(result.evidence))
  BY DEF FireReturns, ResultIsWellFormed
<1>3. ResultIsCorrelated(d, request, result)
  BY DEF FireReturns
<1>4. SatisfyContracts(result.evidence, d.evidence)
  <2>1. Len(d.evidence) \in Nat /\ Len(result.evidence) \in Nat
    BY <1>1, <1>2 DEF IsTuple
  <2>2. Len(d.evidence) <= Len(result.evidence)
    BY <2>1
  <2>3. MeetInOrder(result.evidence, d.evidence)
    BY <1>3 DEF ResultIsCorrelated
  <2> HIDE DEF d
  <2> QED
    BY <1>1, <1>2, <2>2, <2>3, MeetsInPlace
<1>5. SatisfyContracts(result.outputs, d.outputs) /\ Len(d.outputs) = 1
  <2>1. MeetInOrder(result.outputs, d.outputs) /\ Len(result.outputs) = Len(d.outputs)
    BY <1>3 DEF ResultIsCorrelated, MeetEvery
  <2>2. Len(d.outputs) = 1
    BY DEF MappingIsValid
  <2>3. Len(d.outputs) <= Len(result.outputs)
    BY <2>1, <2>2
  <2> HIDE DEF d
  <2> QED
    BY <1>1, <1>2, <2>1, <2>2, <2>3, MeetsInPlace
<1>6. IsPathFreeIdentity(result.outputs[1].content, d.outputs[1].maximum)
  <2>1. 1 \in DOMAIN d.outputs /\ 1 \in DOMAIN result.outputs
    BY <1>1, <1>2, <1>5 DEF IsTuple, SatisfyContracts
  <2>2. d.outputs[1].maximum \in Nat
    BY <1>1, <2>1 DEF Range
  <2>3. LengthOf(result.outputs[1].content) <= d.outputs[1].maximum
    BY <1>5, <2>1 DEF SatisfyContracts, Meets
  <2>4. LengthOf(result.outputs[1].content) \in Nat \ {0}
    BY TextAssumption
  <2> QED
    BY <2>2, <2>3, <2>4 DEF IsPathFreeIdentity
<1>7. WithinBounds(d, request, result)
  BY <1>3 DEF WithinBounds, RequestWhole, ResultIsCorrelated
<1>8. /\ request.firer = d.firer
      /\ result.request = RequestIdentity(request)
      /\ result.attempt = request.context.attempt
      /\ result.firer = request.firer
  BY <1>3 DEF RequestWhole, MappingIsValid, ResultIsCorrelated
<1> QED
  BY <1>4, <1>5, <1>6, <1>7, <1>8 DEF Maps, RequestWhole

LEMMA InvokeKeeps ==
    ASSUME IInv, NEW a \in authorized, NEW r \in reserved,
           NEW integration \in Integrations, NEW transition \in Transitions,
           Invoke(a, r, integration, transition)
    PROVE  IInv'
<1>1. PICK result \in Owner(a.request) :
         LET status == InvocationStatus(transition, a.request, result)
         IN  /\ FireReturns(ResolvedFirer(integration, a.request), a.request, result)
             /\ invocations' = invocations \cup
                    {[status |-> status, reservation |-> r, authorized |-> a,
                      result |-> result, transition |-> transition,
                      mapped |-> IF status = "mapped"
                                 THEN MappedResult(Mapping, a.request, result) ELSE None]}
             /\ answers' = answers \cup
                    {[authorized |-> a, reservation |-> r, result |-> result]}
  BY DEF Invoke
<1>2. PICK status : status = InvocationStatus(transition, a.request, result)
  OBVIOUS
<1>3. PICK mapped : mapped = IF status = "mapped"
                             THEN MappedResult(Mapping, a.request, result) ELSE None
  OBVIOUS
<1> DEFINE i == [status |-> status, reservation |-> r, authorized |-> a,
                 result |-> result, transition |-> transition, mapped |-> mapped]
<1>4. /\ invocations' = invocations \cup {i}
      /\ answers' = answers \cup {[authorized |-> a, reservation |-> r, result |-> result]}
  BY <1>1, <1>2, <1>3
<1>5. UNCHANGED <<current, commits, authorized, reserved, firings>> /\ Correlates(r, a)
  BY DEF Invoke, repository
<1>6. status = "mapped" =>
         result.kind = "succeeded" /\ Maps(Mapping, transition, a.request, result)
  <2>1. result.kind \in ResultKinds
    BY <1>1 DEF FireReturns
  <2> QED
    BY <1>2, <2>1 DEF InvocationStatus, ResultKinds
<1>7. status = "result_rejected" =>
           result.kind = "succeeded" /\ ~ Maps(Mapping, transition, a.request, result)
  <2>1. result.kind \in ResultKinds
    BY <1>1 DEF FireReturns
  <2> QED
    BY <1>2, <2>1 DEF InvocationStatus, ResultKinds
<1>8. status = "result_rejected" => RefusedForReason(i)
  <2>1. RequestWhole(a.request)
    BY DEF IInv, AuthorizedWhole
  <2>2. Resolves(Manifest, integration, a.request)
    BY DEF Invoke
  <2>3. /\ ResolvedFirer(integration, a.request) = Mapping.descriptor
        /\ DescriptorIsValid(Mapping.descriptor) /\ MappingIsValid(Mapping)
    BY <2>1, <2>2, ResolvesOwnFirer DEF RequestWhole
  <2>4. FireReturns(Mapping.descriptor, a.request, result)
    BY <1>1, <2>3
  <2>5. i.result = result /\ i.transition = transition
    OBVIOUS
  <2> HIDE DEF i
  <2> QED
    BY <1>7, <2>1, <2>3, <2>4, <2>5, CompleteSuccessMaps DEF RefusedForReason
<1>9. InvocationWhole(i)'
  <2>1. i.reservation = r /\ i.authorized = a /\ i.result = result /\ i.status = status
        /\ i.mapped = mapped
    OBVIOUS
  <2>2. status = "mapped" =>
           /\ result.request = RequestIdentity(a.request)
           /\ Len(result.evidence) = Len(Mapping.descriptor.evidence)
    BY <1>6 DEF Maps, SatisfyContracts
  <2> HIDE DEF i
  <2> QED
    BY <1>3, <1>4, <1>5, <1>6, <1>8, <2>1, <2>2
       DEF InvocationWhole, Correlates, RefusedForReason
<1> HIDE DEF i
<1>10. \A j \in invocations' : InvocationWhole(j)'
  BY <1>4, <1>5, <1>9, WholeStaysWhole DEF IInv
<1>11. Numbered' /\ \A b \in authorized' : AuthorizedWhole(b)
  BY <1>5 DEF IInv, Numbered
<1> QED
  BY <1>4, <1>5, <1>10, <1>11, WholeStaysWhole DEF IInv

LEMMA FireKeeps ==
    ASSUME IInv, NEW a \in authorized, NEW r \in reserved, NEW i \in invocations,
           NEW marking \in Markings, Fire(a, r, i, marking)
    PROVE  IInv'
<1>1. PICK successor : successor = Occur(marking, a.selected.binding, i.mapped.value)
  OBVIOUS
<1>2. PICK status : status = IF successor = None THEN "cpn_rejected" ELSE "fired"
  OBVIOUS
<1> DEFINE f == [status |-> status, invocation |-> i, predecessor |-> marking,
                 successor |-> successor]
<1>3. firings' = firings \cup {f}
  BY <1>1, <1>2 DEF Fire
<1>4. UNCHANGED <<current, commits, authorized, reserved, invocations, answers>>
      /\ FiringCorrelates(a, r, i, marking)
  BY DEF Fire, repository
<1>5. FiringWhole(f)'
  BY <1>1, <1>4 DEF FiringWhole, FiringCorrelates
<1> HIDE DEF f
<1>6. \A g \in firings' : FiringWhole(g)'
  BY <1>3, <1>4, <1>5, WholeStaysWhole DEF IInv
<1>7. Numbered' /\ \A b \in authorized' : AuthorizedWhole(b)
  BY <1>4 DEF IInv, Numbered
<1> QED
  BY <1>3, <1>4, <1>6, <1>7, WholeStaysWhole DEF IInv

\* The commit leaves the revision at which its net is, and no other did.
LEMMA CommitCandidateKeeps ==
    ASSUME IInv, NEW a \in authorized, NEW r \in reserved, NEW i \in invocations,
           NEW f \in firings, CommitCandidate(a, r, i, f)
    PROVE  IInv'
<1>1. PICK x : x = PreparedCommit(r, i, f)
  OBVIOUS
<1>2. /\ CommitCorrelates(a, r, i, f) /\ f.successor # a.request.context.marking
      /\ CommitVerdict(current, active, commits, x) = "committed"
      /\ commits' = commits \cup {x}
      /\ current' = [current EXCEPT ![r.net] = Successor(x)]
      /\ UNCHANGED <<authorized, reserved, invocations, firings, answers>>
  BY <1>1 DEF CommitCandidate, held
<1>3. x.reservation = r /\ x.successor = f.successor
  BY <1>1 DEF PreparedCommit
<1>4. current[r.net] = r.at
  BY <1>2, <1>3 DEF CommitVerdict, MatchesCurrent
<1>5. CommitWhole(x)'
  BY <1>1, <1>2 DEF CommitWhole, CommitCorrelates
<1>6. \A y \in commits' : CommitWhole(y)'
  BY <1>2, <1>5, WholeStaysWhole DEF IInv
<1>7. r.net \in Nets
  BY DEF IInv, ReservedWhole, AuthorizedWhole, ReservationFor
<1>8. r.at.revision \in Nat
  BY <1>4, <1>7 DEF IInv, Numbered
<1>9. Successor(x).revision = r.at.revision + 1
  BY <1>3 DEF Successor
<1>10. \A y \in commits : y.reservation.net \in Nets
  <2>1. \A q \in reserved : q.net \in Nets
    BY DEF IInv, ReservedWhole, AuthorizedWhole, ReservationFor
  <2>2. \A g \in firings : g.invocation.reservation \in reserved
    BY DEF IInv, FiringWhole, InvocationWhole
  <2>3. ASSUME NEW y \in commits PROVE y.reservation.net \in Nets
    <3>1. PICK g \in firings : y = PreparedCommit(g.invocation.reservation, g.invocation, g)
      BY DEF IInv, CommitWhole
    <3>2. y.reservation = g.invocation.reservation
      BY <3>1 DEF PreparedCommit
    <3> QED
      BY <2>1, <2>2, <3>2
  <2> QED
    BY <2>3
<1>11. /\ DOMAIN current' = Nets
       /\ current'[r.net].revision = r.at.revision + 1
       /\ \A n \in Nets : n # r.net => current'[n] = current[n]
  BY <1>2, <1>7, <1>9 DEF IInv, Numbered
<1>12. \A y \in commits : y.reservation.net = r.net =>
          y.reservation.at.revision < r.at.revision
  BY <1>4 DEF IInv, Numbered
<1>13. Numbered'
  <2>1. \A n \in Nets : current'[n].revision \in Nat
    BY <1>8, <1>11 DEF IInv, Numbered
  <2>2. ASSUME NEW y \in commits'
        PROVE  /\ y.reservation.at.revision \in Nat
               /\ y.reservation.at.revision < current'[y.reservation.net].revision
    <3>1. CASE y = x
      BY <1>3, <1>8, <1>11, <3>1
    <3>2. CASE y \in commits
      BY <1>8, <1>10, <1>11, <1>12, <3>2 DEF IInv, Numbered
    <3> QED
      BY <1>2, <3>1, <3>2
  <2>3. ASSUME NEW y \in commits', NEW z \in commits',
               y.reservation.net = z.reservation.net,
               y.reservation.at.revision = z.reservation.at.revision
        PROVE  y = z
    BY <1>2, <1>3, <1>8, <1>12, <2>3 DEF IInv, Numbered
  <2> QED
    BY <1>11, <2>1, <2>2, <2>3 DEF Numbered
<1>14. \A b \in authorized' : AuthorizedWhole(b)
  BY <1>2 DEF IInv
<1> QED
  BY <1>2, <1>6, <1>13, <1>14, WholeStaysWhole DEF IInv

LEMMA NextKeeps == IInv /\ [Next]_vars => IInv'
<1> SUFFICES ASSUME IInv, [Next]_vars
             PROVE  IInv'
  OBVIOUS
<1>1. CASE UNCHANGED vars \/ Publish
  <2>1. UNCHANGED <<current, commits, authorized, reserved, invocations, firings, answers>>
    BY <1>1 DEF vars, Publish, repository, held
  <2>2. Numbered' /\ \A b \in authorized' : AuthorizedWhole(b)
    BY <2>1 DEF IInv, Numbered
  <2> QED
    BY <2>1, <2>2, WholeStaysWhole DEF IInv
<1> QED
  BY <1>1, AuthorizeKeeps, ReserveKeeps, InvokeKeeps, FireKeeps, CommitCandidateKeeps DEF Next

\* Every record rests on what it closes over, and commits are numbered.
THEOREM Invariance == Spec => []IInv
  BY InitInvariant, NextKeeps, PTL DEF Spec

-----------------------------------------------------------------------------
(* What follows from it.                                                   *)

\* The parts of a commit, and what they are worth.
LEMMA PartsOfCommit ==
    ASSUME IInv, NEW x \in commits
    PROVE  \E f \in firings :
              /\ x = PreparedCommit(f.invocation.reservation, f.invocation, f)
              /\ x.reservation = f.invocation.reservation
              /\ x.identity.invocation = f.invocation /\ x.identity.firing = f
              /\ x.successor = f.successor
              /\ f.successor # f.predecessor
              /\ FiringWhole(f) /\ InvocationWhole(f.invocation)
              /\ f.invocation.authorized \in authorized
              /\ x.reservation = ReservationFor(f.invocation.authorized, Plan)
              /\ AuthorizedWhole(f.invocation.authorized)
<1>1. PICK f \in firings :
         x = PreparedCommit(f.invocation.reservation, f.invocation, f)
         /\ f.successor # f.predecessor
  BY DEF IInv, CommitWhole
<1>2. /\ x.reservation = f.invocation.reservation
      /\ x.identity.invocation = f.invocation /\ x.identity.firing = f
      /\ x.successor = f.successor
  BY <1>1 DEF PreparedCommit
<1>3. FiringWhole(f) /\ f.invocation \in invocations
  BY DEF IInv, FiringWhole
<1>4. InvocationWhole(f.invocation) /\ f.invocation.reservation \in reserved
  BY <1>3 DEF IInv, InvocationWhole
<1>5. /\ f.invocation.authorized \in authorized
      /\ f.invocation.reservation = ReservationFor(f.invocation.authorized, Plan)
  BY <1>3, <1>4 DEF IInv, ReservedWhole, InvocationWhole, FiringWhole
<1>6. AuthorizedWhole(f.invocation.authorized)
  BY <1>5 DEF IInv
<1> QED
  BY <1>1, <1>2, <1>3, <1>4, <1>5, <1>6

\* What is committed is what the net makes of the owner's own answer.
THEOREM CommitsAreOwnersAnswers == Spec => []CommittedIsOwnersAnswer
<1>1. ASSUME IInv, NEW x \in commits
      PROVE  \E answer \in answers :
                LET a == answer.authorized
                IN  /\ answer.reservation = x.reservation
                    /\ x.reservation = ReservationFor(a, Plan)
                    /\ x.identity.invocation.result = answer.result
                    /\ answer.result.kind = "succeeded"
                    /\ Len(answer.result.evidence) = Len(Mapping.descriptor.evidence)
                    /\ a.selected.marking = x.reservation.at.marking
                    /\ x.successor = Occur(x.reservation.at.marking, a.selected.binding,
                                           answer.result.outputs[1].content)
  <2>1. PICK f \in firings :
              /\ x.reservation = f.invocation.reservation
              /\ x.identity.invocation = f.invocation
              /\ x.successor = f.successor
              /\ FiringWhole(f) /\ InvocationWhole(f.invocation)
              /\ x.reservation = ReservationFor(f.invocation.authorized, Plan)
              /\ AuthorizedWhole(f.invocation.authorized)
    BY <1>1, PartsOfCommit
  <2>2. PICK i : i = f.invocation
    OBVIOUS
  <2>3. PICK answer : answer = [authorized |-> i.authorized, reservation |-> i.reservation,
                                result |-> i.result]
    OBVIOUS
  <2>4. /\ answer \in answers /\ answer.authorized = i.authorized
        /\ answer.reservation = i.reservation /\ answer.result = i.result
        /\ i.result.kind = "succeeded"
        /\ Len(i.result.evidence) = Len(Mapping.descriptor.evidence)
        /\ i.mapped = MappedResult(Mapping, i.authorized.request, i.result)
    BY <2>1, <2>2, <2>3 DEF InvocationWhole, FiringWhole
  <2>5. i.mapped.value = i.result.outputs[1].content
    BY <2>4 DEF MappedResult
  <2>6. x.reservation.at.marking = i.authorized.request.context.marking
    BY <2>1, <2>2 DEF ReservationFor
  <2>7. i.authorized.selected.marking = x.reservation.at.marking
    BY <2>1, <2>2, <2>6 DEF AuthorizedWhole
  <2>8. x.successor = Occur(x.reservation.at.marking, i.authorized.selected.binding,
                            i.result.outputs[1].content)
    BY <2>1, <2>2, <2>5, <2>6 DEF FiringWhole
  <2> QED
    BY <2>1, <2>2, <2>4, <2>7, <2>8
<1>2. IInv => CommittedIsOwnersAnswer
  BY <1>1 DEF CommittedIsOwnersAnswer
<1> QED
  BY <1>2, Invariance, PTL

\* One answer is committed once: it names its request, the request its net and
\* revision, and a net leaves a revision once.
THEOREM AnswersMoveOneNet == Spec => []AnswerMovesOneNet
<1>1. ASSUME IInv, NEW x \in commits, NEW y \in commits,
             x.identity.invocation.result = y.identity.invocation.result
      PROVE  x = y
  <2> DEFINE Made(z, a) ==
                /\ z.identity.invocation.result.request = RequestIdentity(a.request)
                /\ z.reservation = ReservationFor(a, Plan)
  <2>1. ASSUME NEW z \in commits PROVE \E a : Made(z, a)
    <3>1. PICK f \in firings :
                /\ z.identity.invocation = f.invocation
                /\ FiringWhole(f) /\ InvocationWhole(f.invocation)
                /\ z.reservation = ReservationFor(f.invocation.authorized, Plan)
      BY <1>1, PartsOfCommit
    <3> QED
      BY <3>1 DEF FiringWhole, InvocationWhole
  <2>2. PICK a : Made(x, a)
    BY <2>1
  <2>3. PICK b : Made(y, b)
    BY <2>1
  <2>4. a.request = b.request
    BY <1>1, <2>2, <2>3 DEF RequestIdentity
  <2>5. x.reservation.net = y.reservation.net /\ x.reservation.at = y.reservation.at
    BY <2>2, <2>3, <2>4 DEF ReservationFor
  <2> QED
    BY <1>1, <2>5 DEF IInv, Numbered
<1>2. IInv => AnswerMovesOneNet
  BY <1>1 DEF AnswerMovesOneNet
<1> QED
  BY <1>2, Invariance, PTL

\* A reservation that could be fired can be committed, unless the world moves.
THEOREM CandidatesCanBeCommitted == Spec => []CandidateCanBeCommitted
<1>1. ASSUME IInv, NEW f \in firings, f.status = "fired",
             IsCurrent(f.invocation.authorized, f.invocation.reservation)
      PROVE  LET a == f.invocation.authorized
                 r == f.invocation.reservation
             IN  /\ CommitCorrelates(a, r, f.invocation, f)
                 /\ CommitVerdict(current, active, commits,
                                  PreparedCommit(r, f.invocation, f)) = "committed"
  <2>1. PICK r : r = f.invocation.reservation
    OBVIOUS
  <2>2. PICK a : a = f.invocation.authorized
    OBVIOUS
  <2>3. PICK x : x = PreparedCommit(r, f.invocation, f)
    OBVIOUS
  <2>4. FiringWhole(f) /\ InvocationWhole(f.invocation)
    BY <1>1 DEF IInv, FiringWhole
  <2>5. r = ReservationFor(a, Plan) /\ r.attempt.plan = Plan
    BY <1>1, <2>1, <2>2, <2>4 DEF IInv, ReservedWhole, InvocationWhole, FiringWhole
  <2>6. CommitCorrelates(a, r, f.invocation, f)
    BY <1>1, <2>1, <2>2, <2>4, <2>5 DEF FiringWhole, CommitCorrelates, ReservationFor
  <2>7. r \notin Consumed(commits) /\ active[r.net] = r /\ MatchesCurrent(current, r)
    BY <1>1, <2>1, <2>2 DEF IsCurrent, RevalidateVerdict
  <2>8. x.reservation = r /\ x.identity.reservation = r
    BY <2>3 DEF PreparedCommit
  <2>9. RetainedFor(commits, x.reservation) = {}
    BY <2>7, <2>8 DEF RetainedFor, Consumed
  <2>10. ~ IdentityTaken(commits, x)
    <3>1. ASSUME NEW y \in commits PROVE y.identity.reservation = y.reservation
      <4>1. PICK g : y = PreparedCommit(g.invocation.reservation, g.invocation, g)
        BY <1>1, PartsOfCommit
      <4> QED
        BY <4>1 DEF PreparedCommit
    <3> QED
      BY <2>7, <2>8, <3>1 DEF IdentityTaken, Consumed
  <2>11. CommitVerdict(current, active, commits, x) = "committed"
    BY <2>7, <2>8, <2>9, <2>10 DEF CommitVerdict
  <2> QED
    BY <2>1, <2>2, <2>3, <2>6, <2>11
<1>2. IInv => CandidateCanBeCommitted
  BY <1>1 DEF CandidateCanBeCommitted
<1> QED
  BY <1>2, Invariance, PTL

\* A commit replays from its own rows, and from no mixture of two commits.
THEOREM CommitReplaysAreExact == Spec => []CommitReplayIsExact
<1> DEFINE Fields == {"commit", "reservation", "net", "invocation", "firing",
                      "predecessor", "successor"}
<1>1. ASSUME NEW z
      PROVE  \E c : /\ c = CommitRecord(z) /\ DOMAIN c = Fields
                    /\ c = [k \in Fields |-> c[k]]
                    /\ c["commit"] = z.identity /\ c["reservation"] = z.reservation
                    /\ c["net"] = z.reservation.net
                    /\ c["invocation"] = z.identity.invocation
                    /\ c["firing"] = z.identity.firing
                    /\ c["predecessor"] = z.reservation.at
                    /\ c["successor"] = Successor(z)
  <2>1. PICK next : next = Successor(z)
    OBVIOUS
  <2>2. PICK c : c = [commit |-> z.identity, reservation |-> z.reservation,
                      net |-> z.reservation.net, invocation |-> z.identity.invocation,
                      firing |-> z.identity.firing, predecessor |-> z.reservation.at,
                      successor |-> next]
    OBVIOUS
  <2>3. c = CommitRecord(z)
    BY <2>1, <2>2 DEF CommitRecord
  <2>4. DOMAIN c = Fields
    BY <2>2
  <2>5. c = [k \in Fields |-> c[k]]
    BY <2>2
  <2>6. /\ c["commit"] = z.identity /\ c["reservation"] = z.reservation
        /\ c["net"] = z.reservation.net
        /\ c["invocation"] = z.identity.invocation
        /\ c["firing"] = z.identity.firing
        /\ c["predecessor"] = z.reservation.at
        /\ c["successor"] = Successor(z)
    BY <2>1, <2>2
  <2> QED
    BY <2>3, <2>4, <2>5, <2>6
<1>2. ASSUME IInv, NEW x \in commits
      PROVE  /\ x.identity = [reservation |-> x.reservation,
                              invocation  |-> x.identity.invocation,
                              firing      |-> x.identity.firing,
                              predecessor |-> x.reservation.at,
                              successor   |-> Successor(x)]
             /\ x.successor # x.reservation.at.marking
  <2>1. PICK f \in firings :
              /\ x = PreparedCommit(f.invocation.reservation, f.invocation, f)
              /\ x.reservation = f.invocation.reservation
              /\ x.identity.invocation = f.invocation /\ x.identity.firing = f
              /\ x.successor = f.successor
              /\ f.successor # f.predecessor
              /\ FiringWhole(f)
              /\ x.reservation = ReservationFor(f.invocation.authorized, Plan)
    BY <1>2, PartsOfCommit
  <2>2. x.reservation.at.marking = f.predecessor
    <3>1. PICK a : a = f.invocation.authorized
      OBVIOUS
    <3>2. f.predecessor = a.request.context.marking
      BY <2>1, <3>1 DEF FiringWhole
    <3>3. x.reservation = ReservationFor(a, Plan)
      BY <2>1, <3>1
    <3>4. x.reservation.at.marking = a.request.context.marking
      BY <3>3 DEF ReservationFor
    <3> QED
      BY <3>2, <3>4
  <2>3. PICK i : i = f.invocation
    OBVIOUS
  <2>4. PICK r : r = i.reservation
    OBVIOUS
  <2>5. x.identity = [reservation |-> r, invocation |-> i, firing |-> f,
                      predecessor |-> r.at,
                      successor |-> [marking |-> f.successor, revision |-> r.at.revision + 1]]
    BY <2>1, <2>3, <2>4 DEF PreparedCommit
  <2>6. Successor(x) = [marking |-> f.successor, revision |-> r.at.revision + 1]
    BY <2>1, <2>3, <2>4 DEF Successor
  <2> QED
    BY <2>1, <2>2, <2>3, <2>4, <2>5, <2>6
<1>3. ASSUME IInv, NEW x \in commits, NEW record, NEW event,
             DOMAIN record = Fields, record = [k \in Fields |-> record[k]]
      PROVE  Replays(CommitCoordinates(x), record, event)
                <=> record = CommitRecord(x) /\ event = record
  <2>1. PICK c : /\ c = CommitRecord(x) /\ DOMAIN c = Fields
                 /\ c = [k \in Fields |-> c[k]]
                 /\ c["commit"] = x.identity /\ c["reservation"] = x.reservation
                 /\ c["net"] = x.reservation.net
                 /\ c["invocation"] = x.identity.invocation
                 /\ c["firing"] = x.identity.firing
                 /\ c["predecessor"] = x.reservation.at
                 /\ c["successor"] = Successor(x)
    BY <1>1
  <2> DEFINE Columns == {"commit", "reservation", "net", "predecessor", "successor"}
  <2>2. PICK q : /\ q = CommitCoordinates(x) /\ DOMAIN q = Columns
                 /\ q = [k \in Columns |-> q[k]]
                 /\ \A k \in Columns : q[k] = c[k]
    <3>1. PICK next : next = Successor(x)
      OBVIOUS
    <3>2. PICK q : q = [commit |-> x.identity, reservation |-> x.reservation,
                        net |-> x.reservation.net, predecessor |-> x.reservation.at,
                        successor |-> next]
      OBVIOUS
    <3>3. q = CommitCoordinates(x)
      BY <3>1, <3>2 DEF CommitCoordinates
    <3>4. DOMAIN q = Columns /\ q = [k \in Columns |-> q[k]]
      BY <3>2
    <3>5. \A k \in Columns : q[k] = c[k]
      BY <2>1, <3>1, <3>2
    <3> QED
      BY <3>3, <3>4, <3>5
  <2>3. ASSUME Replays(q, record, event)
        PROVE  record = c /\ event = record
    <3>1. \A k \in Columns : record[k] = q[k]
      <4>1. q = [k \in DOMAIN q |-> record[k]]
        BY <2>3 DEF Replays
      <4>2. \A k \in DOMAIN q : [j \in DOMAIN q |-> record[j]][k] = record[k]
        OBVIOUS
      <4> QED
        BY <2>2, <4>1, <4>2
    <3>2. record["commit"] = x.identity
      BY <2>1, <2>2, <3>1
    <3>3. x.identity = [reservation |-> record.reservation, invocation |-> record.invocation,
                        firing |-> record.firing, predecessor |-> record.predecessor,
                        successor |-> record.successor]
      BY <2>3, <3>2 DEF Replays, ReconstructedIdentity
    <3>4. x.identity.invocation = record["invocation"] /\ x.identity.firing = record["firing"]
      BY <3>3
    <3>5. \A k \in Fields : record[k] = c[k]
      BY <2>1, <2>2, <3>1, <3>4
    <3>6. record = c
      BY <1>3, <2>1, <3>5
    <3> QED
      BY <2>3, <3>6 DEF Replays
  <2>4. ASSUME record = c, event = record
        PROVE  Replays(q, record, event)
    <3>1. record.successor = Successor(x) /\ record.predecessor = x.reservation.at
      BY <2>1, <2>4
    <3>2. /\ Successor(x).revision = x.reservation.at.revision + 1
          /\ Successor(x).marking = x.successor
      BY DEF Successor
    <3>3. x.successor # x.reservation.at.marking
      BY <1>2, <1>3
    <3>4. record.successor.revision = record.predecessor.revision + 1
          /\ record.successor.marking # record.predecessor.marking
      BY <3>1, <3>2, <3>3
    <3>5. record.commit = ReconstructedIdentity(record)
      BY <1>2, <1>3, <2>1, <2>4 DEF ReconstructedIdentity
    <3>6. q = [k \in DOMAIN q |-> record[k]]
      BY <2>2, <2>4
    <3> QED
      BY <2>4, <3>4, <3>5, <3>6 DEF Replays
  <2> QED
    BY <2>1, <2>2, <2>3, <2>4
<1>4. ASSUME IInv PROVE CommitReplayIsExact
  <2> SUFFICES ASSUME NEW x \in commits, NEW y \in commits,
                      NEW S \in SUBSET DOMAIN CommitRecord(x)
               PROVE  LET record == [k \in DOMAIN CommitRecord(x) |->
                                       IF k \in S THEN CommitRecord(x)[k]
                                                  ELSE CommitRecord(y)[k]]
                      IN  \A event \in {CommitRecord(x), record} :
                             Replays(CommitCoordinates(x), record, event)
                                 <=> record = CommitRecord(x) /\ event = record
    BY DEF CommitReplayIsExact
  <2>1. PICK record : record = [k \in DOMAIN CommitRecord(x) |->
                                  IF k \in S THEN CommitRecord(x)[k] ELSE CommitRecord(y)[k]]
    OBVIOUS
  <2>2. DOMAIN CommitRecord(x) = Fields
    BY <1>1
  <2>3. DOMAIN record = Fields /\ record = [k \in Fields |-> record[k]]
    BY <2>1, <2>2
  <2> QED
    BY <1>3, <1>4, <2>1, <2>3
<1> QED
  BY <1>4, Invariance, PTL

\* A success that Firer.fire let pass is refused by the mapper for missing
\* evidence, an output that is no path-free identity, or another transition,
\* and for nothing else: the two sides agree on order, roles and bounds.
THEOREM AcceptedSuccessesAreMapped == Spec => []AcceptedSuccessIsMapped
<1>1. IInv => AcceptedSuccessIsMapped
  BY DEF IInv, InvocationWhole, RefusedForReason, AcceptedSuccessIsMapped
<1> QED
  BY <1>1, Invariance, PTL
=============================================================================
