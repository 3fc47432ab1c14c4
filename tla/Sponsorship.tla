---------------------------- MODULE Sponsorship ----------------------------
(***************************************************************************)
(* What the Enclave paymasters have in common.  Each is a copy of          *)
(* EnclaveVerifyingPaymaster with something added: it pays the gas of      *)
(* operations that an off-chain service approved by signing getHash.  The  *)
(* service computes the hash with a call of the contract, so an approval   *)
(* names the senderNonce of the chain state in which it was made; by the   *)
(* time the operation is validated that state may be history.              *)
(*                                                                         *)
(* An operation is a record with the fields sender, nonce, callData,       *)
(* validUntil, validAfter (the part of paymasterAndData that the service   *)
(* chose) and ownerSigned (the account accepts its signature).             *)
(***************************************************************************)
EXTENDS EntryPoint

CONSTANTS
    MaxTime,         \* block timestamps are 1..MaxTime
    MaxApprovals,    \* bound on the number of approvals the service signs
    MaxFunding       \* bound on what is put into the deposit

Paymaster == "paymaster"

ASSUME PayersAssumption == Paymaster \in Payers

\* BasePaymaster.entryPoint is immutable: the paymaster has to do with one only.
ASSUME EntryPointAssumption == \E e \in EntryPoints : EntryPoints = {e}

VARIABLES
    senderNonce,   \* senderNonce[sender]
    approvals,     \* hashes signed by verifyingSigner
    granted,       \* history: what the paymaster agreed to pay, and when
    funded,        \* history: deposits minus withdrawals of the owner
    now            \* block.timestamp

pmState == <<senderNonce, granted, funded>>
offChain == <<approvals, now>>

SponsorInit ==
    /\ EPInit
    /\ senderNonce = [s \in Senders |-> 0]
    /\ approvals = {}
    /\ granted = {}
    /\ funded = Stake
    /\ now = 1

-----------------------------------------------------------------------------
(* The contract.                                                           *)

\* The signed fields of the operation: all but paymasterAndData.
pack(op) == [sender |-> op.sender, nonce |-> op.nonce, callData |-> op.callData]

HashAt(packed, n, until, after) ==
    [packed |-> packed, senderNonce |-> n, validUntil |-> until, validAfter |-> after]

\* A hash that identifies the sender only.
getHashSenderOnly(op) == HashAt([sender |-> op.sender], 0, op.validUntil, op.validAfter)

getHash(op) ==
    HashAt(pack(op), senderNonce[op.sender], op.validUntil, op.validAfter)

\* The two timestamps in the order parsePaymasterAndData decodes them, packed
\* in the wrong order.
validationDataSwapped(op) == [validUntil |-> op.validAfter, validAfter |-> op.validUntil]

\* The validity window that the paymaster returns to the EntryPoint.
validationData(op) == [validUntil |-> op.validUntil, validAfter |-> op.validAfter]

\* The EntryPoint's reading of it: a validUntil of zero never expires.
InTimeRange(d) ==
    /\ now >= d.validAfter
    /\ d.validUntil = 0 \/ now <= d.validUntil

Grant(op) == [op |-> op, senderNonce |-> senderNonce[op.sender], time |-> now]

SignatureValid(op) == getHash(op) \in approvals

\* An increment that is forgotten.
incrementForgotten(s) == senderNonce

increment(s) == [senderNonce EXCEPT ![s] = @ + 1]

Valid(op) ==
    /\ op.ownerSigned
    /\ NonceFits
    /\ DepositFits(Paymaster)
    /\ SignatureValid(op)
    /\ InTimeRange(validationData(op))

\* The paymaster agrees to pay for the operation at hand.
grant ==
    /\ phase = "validate"
    /\ Valid(Op)
    /\ validatePrepayment(deposit, Paymaster)
    /\ senderNonce' = increment(Op.sender)
    /\ granted' = granted \union {Grant(Op)}
    /\ UNCHANGED <<funded, offChain>>

\* The transaction reverts, with all the paymaster did in it.
failedOp ==
    /\ RevertBundle
    /\ senderNonce' = saved.senderNonce
    /\ granted' = saved.granted
    /\ funded' = saved.funded
    /\ UNCHANGED offChain

\* The operation was executed, whether its call succeeded or not.
payGas(cost) ==
    /\ phase = "execute"
    /\ settle(deposit, Paymaster, cost)
    /\ UNCHANGED <<pmState, offChain>>

-----------------------------------------------------------------------------
(* The environment.                                                        *)

\* The service signs what getHash returns in the current committed state.
signApproval(op) ==
    /\ phase = "idle"
    /\ Cardinality(approvals) < MaxApprovals
    /\ approvals' = approvals \union {getHash(op)}
    /\ UNCHANGED <<book, frame, saved, pmState, now>>

submitBundle(e, ops, snapshot) ==
    /\ handleOps(e, ops, snapshot)
    /\ UNCHANGED <<pmState, offChain>>

\* BasePaymaster.deposit, by anybody, and withdrawTo, by the owner: in a
\* transaction of its own or from an operation that is being executed.
fundDeposit(e, amount) ==
    /\ phase # "validate"
    /\ funded + amount <= MaxFunding
    /\ deposit[e][Paymaster] + amount >= 0
    /\ deposit' = [deposit EXCEPT ![e][Paymaster] = @ + amount]
    /\ funded' = funded + amount
    /\ UNCHANGED <<nonce, executed, frame, saved, senderNonce, granted, offChain>>

tick ==
    /\ phase = "idle"
    /\ now < MaxTime
    /\ now' = now + 1
    /\ UNCHANGED <<book, frame, saved, pmState, approvals>>

-----------------------------------------------------------------------------
(* Properties.                                                             *)

Hashes == [packed : {pack(op) : op \in Ops}, senderNonce : Nat,
           validUntil : {op.validUntil : op \in Ops},
           validAfter : {op.validAfter : op \in Ops}]

Grants == [op : Ops, senderNonce : Nat, time : Nat]

BookType(n, d, x) ==
    /\ n \in [EntryPoints -> [Senders -> Nat]]
    /\ d \in [EntryPoints -> [Payers -> Nat]]
    /\ x \in [Ops -> Nat]

\* Every variable has its type; the deposit is never overdrawn, and inside
\* handleOps there is a current operation and a state to roll back to.
SponsorTypeOK ==
    /\ BookType(nonce, deposit, executed)
    /\ senderNonce \in [Senders -> Nat]
    /\ approvals \subseteq Hashes
    /\ granted \subseteq Grants
    /\ funded \in Int
    /\ now \in Nat
    /\ ep \in EntryPoints
    /\ phase \in {"idle", "validate", "execute"}
    /\ phase # "idle" =>
          /\ bundle \in Seq(Ops)
          /\ at \in 1..Len(bundle)
          /\ BookType(saved.nonce, saved.deposit, saved.executed)
          /\ saved.senderNonce \in [Senders -> Nat]
          /\ saved.granted \subseteq Grants
          /\ saved.funded \in Int

\* Everything the paymaster agreed to pay was signed by the service for that
\* very operation at that senderNonce, and was inside the window the service
\* signed when it was validated.
GrantsApproved ==
    \A g \in granted :
        /\ HashAt(pack(g.op), g.senderNonce, g.op.validUntil, g.op.validAfter) \in approvals
        /\ g.time >= g.op.validAfter
        /\ g.op.validUntil = 0 \/ g.time <= g.op.validUntil

\* Of the approvals the service signed on one reading of senderNonce at most
\* one is ever used: the first operation validated voids the others, in
\* whatever order and bundles they are submitted.
OneGrantPerReading ==
    \A g, h \in granted :
        g.op.sender = h.op.sender /\ g.senderNonce = h.senderNonce => g = h

\* A bundle never has two operations of one sender paid by the paymaster: the
\* service reads senderNonce from the chain, and within the bundle the first
\* operation has already incremented it.
OneOpPerSenderPerBundle ==
    phase = "execute" =>
        \A i, j \in DOMAIN bundle : bundle[i].sender = bundle[j].sender => i = j

\* Signing n approvals exposes the deposit to at most n times the largest gas
\* cost, whatever bundlers submit.
ExposureBounded ==
    \A e \in EntryPoints :
        funded - deposit[e][Paymaster] <= RequiredPreFund * Cardinality(approvals)

=============================================================================
