----------------------- MODULE MCPureActionExecution -----------------------
(***************************************************************************)
(* A small pure action: one net that two callers take from its first       *)
(* marking to one of two others.                                           *)
(***************************************************************************)
EXTENDS PureActionExecution, TLC

CONSTANTS w1, w2, n1, m0, m1, m2, a1, a2, transcript

At(marking, revision) == [marking |-> marking, revision |-> revision]

MCAttempts  == [name : {a1, a2}, seen : Seq(Nat)]
MCCommitIds == [of : Reservation, result : Markings]
MCStart     == [n \in Nets |-> At(m0, 0)]

MCOneRequest == {[net |-> n1, at |-> At(m0, 0), name |-> a1]}

=============================================================================
