------------------------- MODULE MultiTokenPaymaster -------------------------
(***************************************************************************)
(* EnclaveMultiTokenPaymaster: the sender names, in paymasterAndData and   *)
(* outside what the service signs, one of several allowed tokens for the   *)
(* fee.  Operations have one more field, token.                            *)
(*                                                                         *)
(* postOp decodes a sender and a token from the context.  The fee itself   *)
(* is as in TokenPaymaster and is abstracted to whether it is collected.   *)
(***************************************************************************)
EXTENDS Sponsorship

CONSTANTS
    Tokens,      \* ERC20 contracts
    FeeLogics    \* fee logic contracts

VARIABLES
    feeLogic,
    allowedPaymentTokens,   \* the tokens the mapping holds true for
    withdrawable            \* tokens that fees, or gifts, left here: yes or no

tokens == <<feeLogic, allowedPaymentTokens, withdrawable>>
vars == <<book, frame, saved, pmState, offChain, tokens>>

Snapshot ==
    [nonce |-> nonce, deposit |-> deposit, executed |-> executed,
     senderNonce |-> senderNonce, granted |-> granted, funded |-> funded,
     feeLogic |-> feeLogic, allowed |-> allowedPaymentTokens, withdrawable |-> withdrawable]

Init ==
    /\ SponsorInit
    /\ feeLogic \in FeeLogics
    /\ allowedPaymentTokens = {}
    /\ withdrawable = {}

TokenAllowed(op) == op.token \in allowedPaymentTokens

context(op) == <<op.sender>>

\* abi.decode(context, (address, address)) needs two words.
Decodes(ctx) == Len(ctx) >= 2

validatePaymasterUserOp ==
    /\ grant
    /\ TokenAllowed(Op)
    /\ UNCHANGED tokens

revertTransaction ==
    /\ failedOp
    /\ feeLogic' = saved.feeLogic
    /\ allowedPaymentTokens' = saved.allowed
    /\ withdrawable' = saved.withdrawable

validationFails ==
    /\ phase = "validate"
    /\ ~(Valid(Op) /\ TokenAllowed(Op))
    /\ revertTransaction

\* A context that cannot be decoded makes both calls of postOp revert.
postOp ==
    /\ phase = "execute"
    /\ IF Decodes(context(Op))
       THEN /\ \E gas \in GasCosts : payGas(gas)
            /\ withdrawable' = withdrawable \union {Op.token}
            /\ UNCHANGED <<feeLogic, allowedPaymentTokens>>
       ELSE revertTransaction

\* The owner's functions, between transactions or called from an operation.
updateFeeLogic(l) ==
    /\ phase # "validate"
    /\ feeLogic' = l
    /\ UNCHANGED <<book, frame, saved, pmState, offChain, allowedPaymentTokens, withdrawable>>

addPaymentToken(t) ==
    /\ phase # "validate"
    /\ allowedPaymentTokens' = allowedPaymentTokens \union {t}
    /\ UNCHANGED <<book, frame, saved, pmState, offChain, feeLogic, withdrawable>>

removePaymentToken(t) ==
    /\ phase # "validate"
    /\ allowedPaymentTokens' = allowedPaymentTokens \ {t}
    /\ UNCHANGED <<book, frame, saved, pmState, offChain, feeLogic, withdrawable>>

\* Anybody may send tokens to the paymaster, and the signer takes any out.
receiveTokens(t) ==
    /\ phase # "validate"
    /\ withdrawable' = withdrawable \union {t}
    /\ UNCHANGED <<book, frame, saved, pmState, offChain, feeLogic,
                   allowedPaymentTokens>>

withdrawTokens(t) ==
    /\ phase # "validate"
    /\ t \in withdrawable
    /\ withdrawable' = withdrawable \ {t}
    /\ UNCHANGED <<book, frame, saved, pmState, offChain, feeLogic,
                   allowedPaymentTokens>>

approvalSigned(op) == signApproval(op) /\ UNCHANGED tokens

bundleSubmitted(e, ops) == submitBundle(e, ops, Snapshot) /\ UNCHANGED tokens

depositFunded(e, amount) == fundDeposit(e, amount) /\ UNCHANGED tokens

Next ==
    \/ \E op \in Ops : approvalSigned(op)
    \/ \E e \in EntryPoints, ops \in Bundles : bundleSubmitted(e, ops)
    \/ validatePaymasterUserOp
    \/ validationFails
    \/ postOp
    \/ \E t \in Tokens :
          addPaymentToken(t) \/ removePaymentToken(t) \/ receiveTokens(t) \/ withdrawTokens(t)
    \/ \E l \in FeeLogics : updateFeeLogic(l)
    \/ \E e \in EntryPoints, amount \in {-1, 1} : depositFunded(e, amount)

Spec == Init /\ [][Next]_vars

-----------------------------------------------------------------------------
(* Properties.                                                             *)

\* Every variable has its type, whatever bundles revert to.
TypeOK ==
    /\ SponsorTypeOK
    /\ feeLogic \in FeeLogics
    /\ allowedPaymentTokens \subseteq Tokens
    /\ withdrawable \subseteq Tokens

\* "the transfer should succeed" in postOp, at the latest when it is called for
\* the second time: no bundle that was validated is reverted.
TransferSucceeds == [][phase = "execute" => granted \subseteq granted']_vars

=============================================================================
