--------------------------- MODULE SolverPaymaster ---------------------------
(***************************************************************************)
(* EnclaveSolverPaymaster (version 0) and EnclaveSolverPaymasterV1.  While *)
(* validating an approved operation the paymaster, which also pays its     *)
(* gas, sends the tokens of the user's intent to the sender.  Operations   *)
(* have two more fields, token and amount.  The versions differ in what    *)
(* the service signs.                                                      *)
(***************************************************************************)
EXTENDS Sponsorship

CONSTANTS
    Version,        \* 0 or 1
    Tokens,         \* ERC20 contracts
    SelfSpendable,  \* those whose transferFrom asks a holder for no allowance
    MaxTokens       \* bound on what the paymaster holds of a token

VARIABLES
    held      \* held[token]: the paymaster's balance

vars == <<book, frame, saved, pmState, offChain, held>>

Snapshot ==
    [nonce |-> nonce, deposit |-> deposit, executed |-> executed,
     senderNonce |-> senderNonce, granted |-> granted, funded |-> funded, held |-> held]

Init ==
    /\ SponsorInit
    /\ held = [t \in Tokens |-> 0]

SIGNATURE_OFFSET == 84

TOKEN_ADDRESS_OFFSET == 148

\* parsePaymasterAndData cuts the signature out between two fixed offsets.
SignatureLength == TOKEN_ADDRESS_OFFSET - SIGNATURE_OFFSET

\* Version 1 encodes the sender in the place of the packed operation.
signedFields(op) == IF Version = 0 THEN pack(op) ELSE [sender |-> op.sender]

intentHash(op) ==
    [packed |-> signedFields(op), senderNonce |-> senderNonce[op.sender],
     validUntil |-> op.validUntil, validAfter |-> op.validAfter,
     token |-> op.token, amount |-> op.amount]

\* ECDSA.recover reverts unless the signature has r, s and v.
Recovers(length) == length = 65

\* transferFrom(address(this), sender, amount), called by the paymaster, which
\* has no function that would give itself an allowance.
TransferFromSelf(op) ==
    /\ held[op.token] >= op.amount
    /\ op.token \in SelfSpendable \/ op.amount = 0

\* All that an operation needs, other than a signature that can be recovered.
Approved(op) ==
    /\ op.ownerSigned
    /\ NonceFits
    /\ DepositFits(Paymaster)
    /\ intentHash(op) \in approvals
    /\ InTimeRange(validationData(op))
    /\ TransferFromSelf(op)

Accepted(op) ==
    /\ SignatureLength \in {64, 65}
    /\ Recovers(SignatureLength)
    /\ Approved(op)

validatePaymasterUserOp ==
    /\ phase = "validate"
    /\ Accepted(Op)
    /\ validatePrepayment(deposit, Paymaster)
    /\ senderNonce' = increment(Op.sender)
    /\ held' = [held EXCEPT ![Op.token] = @ - Op.amount]
    /\ granted' = granted \union {Grant(Op)}
    /\ UNCHANGED <<funded, offChain>>

validationFails ==
    /\ phase = "validate"
    /\ ~Accepted(Op)
    /\ failedOp
    /\ held' = saved.held

\* The context is empty: there is no postOp.
executeUserOp ==
    /\ \E cost \in GasCosts : payGas(cost)
    /\ UNCHANGED held

\* The service signs what getHash returns in the current committed state.
intentSigned(op) ==
    /\ phase = "idle"
    /\ Cardinality(approvals) < MaxApprovals
    /\ approvals' = approvals \union {intentHash(op)}
    /\ UNCHANGED <<book, frame, saved, pmState, now, held>>

\* The solver sends tokens to the paymaster.
receiveTokens(t) ==
    /\ phase # "validate"
    /\ held[t] < MaxTokens
    /\ held' = [held EXCEPT ![t] = @ + 1]
    /\ UNCHANGED <<book, frame, saved, pmState, offChain>>

Next ==
    \/ \E op \in Ops : intentSigned(op)
    \/ \E e \in EntryPoints, ops \in Bundles :
          submitBundle(e, ops, Snapshot) /\ UNCHANGED held
    \/ validatePaymasterUserOp
    \/ validationFails
    \/ executeUserOp
    \/ \E t \in Tokens : receiveTokens(t)
    \/ \E e \in EntryPoints, amount \in {-1, 1} :
          fundDeposit(e, amount) /\ UNCHANGED held
    \/ tick /\ UNCHANGED held

Spec == Init /\ [][Next]_vars

-----------------------------------------------------------------------------
(* Properties.                                                             *)

\* "ECDSA library supports both 64 and 65-byte long signatures": an operation
\* that lacks nothing is sponsored with the signature the offsets leave room for.
SignatureLengthSupported ==
    [][phase = "validate" /\ Approved(Op) => Grant(Op) \in granted']_vars

=============================================================================
