------------------------- MODULE VerifyingPaymaster -------------------------
(***************************************************************************)
(* EnclaveVerifyingPaymaster: approved operations are free for their       *)
(* senders.  It returns an empty context, so the EntryPoint calls no       *)
(* postOp.                                                                 *)
(*                                                                         *)
(* Names are prefixed where the other paymasters, which extend the proofs  *)
(* about this one, have a definition of the same name.                     *)
(***************************************************************************)
EXTENDS Sponsorship

verifyingVars == <<book, frame, saved, pmState, offChain>>

VerifyingSnapshot ==
    [nonce |-> nonce, deposit |-> deposit, executed |-> executed,
     senderNonce |-> senderNonce, granted |-> granted, funded |-> funded]

approvalRefused ==
    /\ phase = "validate"
    /\ ~Valid(Op)
    /\ failedOp

\* The context is empty, so the gas is paid and that is all.
executeUserOp == \E cost \in GasCosts : payGas(cost)

VerifyingNext ==
    \/ \E op \in Ops : signApproval(op)
    \/ \E e \in EntryPoints, ops \in Bundles : submitBundle(e, ops, VerifyingSnapshot)
    \/ grant
    \/ approvalRefused
    \/ executeUserOp
    \/ \E e \in EntryPoints, amount \in {-1, 1} : fundDeposit(e, amount)
    \/ tick

VerifyingSpec == SponsorInit /\ [][VerifyingNext]_verifyingVars

=============================================================================
