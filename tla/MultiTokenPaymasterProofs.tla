--------------------- MODULE MultiTokenPaymasterProofs ---------------------
(***************************************************************************)
(* What MultiTokenPaymaster guarantees, for any tokens, operations and     *)
(* bundles.                                                                *)
(*                                                                         *)
(* The argument: the steps that change what Sponsorship is about are its   *)
(* steps, whatever the tokens are and whether postOp can decode its        *)
(* context or not.                                                         *)
(***************************************************************************)
EXTENDS MultiTokenPaymaster, SponsorshipProofs

TokenTypes ==
    /\ feeLogic \in FeeLogics
    /\ allowedPaymentTokens \subseteq Tokens
    /\ withdrawable \subseteq Tokens

SavedTokens ==
    phase # "idle" =>
        /\ saved.feeLogic \in FeeLogics
        /\ saved.allowed \subseteq Tokens
        /\ saved.withdrawable \subseteq Tokens

-----------------------------------------------------------------------------
(* The sponsorship.                                                        *)

\* EnclaveMultiTokenPaymaster sponsors as EnclaveVerifyingPaymaster does, also
\* with a context that postOp could decode.
THEOREM MultiTokenSponsors == Spec => SponsorSpec
<1>1. ASSUME Next
      PROVE  [SponsorNext]_sponsorVars
  <2>1. Saves(Snapshot)
    BY DEF Saves, Snapshot
  <2>2. \A op : approvalSigned(op) => signApproval(op)
    BY DEF approvalSigned
  <2>3. \A e, ops : bundleSubmitted(e, ops) => submitBundle(e, ops, Snapshot)
    BY DEF bundleSubmitted
  <2>4. validatePaymasterUserOp => grant
    BY DEF validatePaymasterUserOp
  <2>5. validationFails => phase # "idle" /\ failedOp
    BY DEF validationFails, revertTransaction
  <2>6. postOp => \/ phase # "idle" /\ failedOp
                  \/ \E cost \in GasCosts : payGas(cost)
    BY DEF postOp, revertTransaction
  <2>7. \/ \E t \in Tokens : \/ addPaymentToken(t) \/ removePaymentToken(t)
                             \/ receiveTokens(t) \/ withdrawTokens(t)
        \/ \E l \in FeeLogics : updateFeeLogic(l)
        => UNCHANGED sponsorVars
    BY DEF updateFeeLogic, addPaymentToken, removePaymentToken, receiveTokens,
           withdrawTokens, sponsorVars
  <2>8. (\E e \in EntryPoints, amount \in {-1, 1} : depositFunded(e, amount))
        => \E e \in EntryPoints, amount \in Int : fundDeposit(e, amount)
    BY DEF depositFunded
  <2> QED BY <1>1, <2>1, <2>2, <2>3, <2>4, <2>5, <2>6, <2>7, <2>8 DEF Next, SponsorNext
<1>2. UNCHANGED vars => UNCHANGED sponsorVars
  BY DEF vars, sponsorVars
<1>3. Init => SponsorInit
  BY DEF Init
<1>4. [Next]_vars => [SponsorNext]_sponsorVars
  BY <1>1, <1>2
<1> QED BY <1>3, <1>4, PTL DEF Spec, SponsorSpec

\* What the service approved, once per reading, sender and bundle, is all the
\* gas the multi-token paymaster can be made to pay, although the service does not
\* sign the token.
THEOREM MultiTokenSponsorshipSound ==
    Spec => [](/\ GrantsApproved /\ OneGrantPerReading
               /\ OneOpPerSenderPerBundle /\ ExposureBounded)
BY SponsorshipSound, MultiTokenSponsors, PTL

-----------------------------------------------------------------------------
(* Types.                                                                  *)

\* The owner's lists keep their types, whatever bundles revert to.
LEMMA NextTokens ==
    ASSUME TokenTypes, SavedTokens, [Next]_vars
    PROVE  TokenTypes' /\ SavedTokens'
<1> USE DEF TokenTypes, SavedTokens
<1>1. ASSUME NEW op \in Ops, approvalSigned(op)
      PROVE  TokenTypes' /\ SavedTokens'
  BY <1>1 DEF approvalSigned, signApproval, frame, tokens
<1>2. ASSUME NEW e \in EntryPoints, NEW ops \in Bundles, bundleSubmitted(e, ops)
      PROVE  TokenTypes' /\ SavedTokens'
  <2>1. /\ saved' = Snapshot
        /\ UNCHANGED <<feeLogic, allowedPaymentTokens, withdrawable>>
    BY <1>2 DEF bundleSubmitted, submitBundle, handleOps, tokens
  <2> QED BY <2>1 DEF Snapshot
<1>3. ASSUME validatePaymasterUserOp
      PROVE  TokenTypes' /\ SavedTokens'
  <2>1. phase # "idle" /\ UNCHANGED <<saved, feeLogic, allowedPaymentTokens, withdrawable>>
    BY <1>3 DEF validatePaymasterUserOp, grant, validatePrepayment, tokens
  <2> QED BY <2>1
<1>4. ASSUME phase # "idle", revertTransaction
      PROVE  TokenTypes' /\ SavedTokens'
  BY <1>4 DEF revertTransaction, failedOp, RevertBundle, Close
<1>5. ASSUME postOp
      PROVE  TokenTypes' /\ SavedTokens'
  <2>1. ~Decodes(context(Op))
    BY DEF Decodes, context
  <2> QED BY <1>4, <1>5, <2>1 DEF postOp
<1>6. ASSUME \/ \E t \in Tokens :
                   addPaymentToken(t) \/ removePaymentToken(t) \/ receiveTokens(t)
                     \/ withdrawTokens(t)
             \/ \E l \in FeeLogics : updateFeeLogic(l)
      PROVE  TokenTypes' /\ SavedTokens'
  BY <1>6 DEF addPaymentToken, removePaymentToken, receiveTokens, withdrawTokens,
              updateFeeLogic, frame
<1>7. ASSUME NEW e \in EntryPoints, NEW amount, depositFunded(e, amount)
      PROVE  TokenTypes' /\ SavedTokens'
  BY <1>7 DEF depositFunded, fundDeposit, frame, tokens
<1>8. ASSUME UNCHANGED vars
      PROVE  TokenTypes' /\ SavedTokens'
  BY <1>8 DEF vars, frame, tokens
<1>9. validationFails => phase # "idle" /\ revertTransaction
  BY DEF validationFails
<1> QED BY <1>1, <1>2, <1>3, <1>4, <1>5, <1>6, <1>7, <1>8, <1>9 DEF Next

\* Every variable has its type, and the deposit is never overdrawn.
THEOREM TypeCorrect == Spec => []TypeOK
<1>1. Init => TokenTypes /\ SavedTokens
  BY DEF Init, SponsorInit, EPInit, TokenTypes, SavedTokens
<1>2. TokenTypes /\ SavedTokens /\ [Next]_vars => (TokenTypes /\ SavedTokens)'
  BY NextTokens
<1>3. SponsorInv /\ TokenTypes => TypeOK
  BY DEF SponsorInv, TokenTypes, TypeOK
<1> QED BY <1>1, <1>2, <1>3, SponsorInvariant, MultiTokenSponsors, PTL DEF Spec

=============================================================================
