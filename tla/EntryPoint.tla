----------------------------- MODULE EntryPoint -----------------------------
(***************************************************************************)
(* The ERC-4337 v0.6 EntryPoint, as far as the contracts of the repository *)
(* depend on it.  It is a library contract (EntryPoint.sol only imports    *)
(* it), so everything here is external.                                    *)
(*                                                                         *)
(* handleOps is one transaction with two loops: every operation of the     *)
(* bundle is validated before the first one is executed.  The loops are    *)
(* unrolled into steps so that what one operation does between another     *)
(* one's validation and execution is visible.  A failed validation, and a  *)
(* postOp that fails twice, revert the whole transaction.                  *)
(*                                                                         *)
(* The operators are fragments of actions: the modules of the accounts and *)
(* of the paymasters conjoin them with what those contracts do in the      *)
(* same step.                                                              *)
(***************************************************************************)
EXTENDS Integers, Sequences, FiniteSets

CONSTANTS
    EntryPoints,       \* deployed EntryPoint contracts
    Ops,               \* user operations that may be submitted
    Payers,            \* addresses that hold a deposit: accounts, paymasters
    MaxBundle,         \* the largest number of operations in a bundle
    RequiredPreFund,   \* the most gas an operation may cost
    Stake              \* initial deposit of every payer

ASSUME PreFundAssumption == RequiredPreFund \in Nat \ {0}
ASSUME StakeAssumption == Stake \in Nat
ASSUME MaxBundleAssumption == MaxBundle \in Nat \ {0}

\* Fields have fixed widths and calldata is bounded.
ASSUME OpsAssumption == IsFiniteSet(Ops)

VARIABLES
    nonce,      \* NonceManager: next nonce of every sender at every EntryPoint
    deposit,    \* StakeManager: deposit of every payer at every EntryPoint
    executed,   \* how often an operation was executed and paid for
    phase,      \* "idle", or the loop of handleOps that is running
    ep,         \* the EntryPoint whose handleOps runs
    bundle,     \* its operations
    at,         \* the operation the loop has reached
    saved       \* the state before the transaction, which a revert restores

Senders == {op.sender : op \in Ops}

Bundles == UNION {[1..n -> Ops] : n \in 1..MaxBundle}

book == <<nonce, deposit, executed>>
frame == <<phase, ep, bundle, at>>

NoSnapshot == <<>>

EPInit ==
    /\ nonce = [e \in EntryPoints |-> [s \in Senders |-> 0]]
    /\ deposit = [e \in EntryPoints |-> [p \in Payers |-> Stake]]
    /\ executed = [op \in Ops |-> 0]
    /\ phase = "idle"
    /\ ep \in EntryPoints
    /\ bundle = <<>>
    /\ at = 0
    /\ saved = NoSnapshot

\* The operation the running loop has reached.
Op == bundle[at]

\* A bundler submits a bundle; any operation, any order, any repetition.
handleOps(e, ops, snapshot) ==
    /\ phase = "idle"
    /\ phase' = "validate"
    /\ ep' = e
    /\ bundle' = ops
    /\ at' = 1
    /\ saved' = snapshot
    /\ UNCHANGED book

NonceFits == nonce[ep][Op.sender] = Op.nonce

DepositFits(payer) == deposit[ep][payer] >= RequiredPreFund

\* _validatePrepayment succeeds: the nonce is used up, and the prefund is taken
\* from the deposits as they are after the account's own payment.
validatePrepayment(deposits, payer) ==
    /\ nonce' = [nonce EXCEPT ![ep][Op.sender] = @ + 1]
    /\ deposit' = [deposits EXCEPT ![ep][payer] = @ - RequiredPreFund]
    /\ IF at = Len(bundle)
       THEN phase' = "execute" /\ at' = 1
       ELSE at' = at + 1 /\ UNCHANGED phase
    /\ UNCHANGED <<executed, ep, bundle, saved>>

\* The end of the transaction.
Close ==
    /\ phase' = "idle"
    /\ bundle' = <<>>
    /\ at' = 0
    /\ saved' = NoSnapshot
    /\ UNCHANGED ep

\* FailedOp: the transaction reverts.
RevertBundle ==
    /\ nonce' = saved.nonce
    /\ deposit' = saved.deposit
    /\ executed' = saved.executed
    /\ Close

\* The operation is over: what was not used of the prefund is refunded.  If its
\* call reverted, the deposits are those from before the call.
settle(deposits, payer, actualGasCost) ==
    /\ deposit' = [deposits EXCEPT ![ep][payer] = @ + (RequiredPreFund - actualGasCost)]
    /\ executed' = [executed EXCEPT ![Op] = @ + 1]
    /\ UNCHANGED nonce
    /\ IF at = Len(bundle)
       THEN Close
       ELSE at' = at + 1 /\ UNCHANGED <<phase, ep, bundle, saved>>

GasCosts == 1..RequiredPreFund

=============================================================================
