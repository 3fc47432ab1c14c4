---------------------------- MODULE PasskeyClient ----------------------------
(***************************************************************************)
(* The client scripts runTransferPassKey.js (a local chain) and            *)
(* runTransferPassKeyarb.js (Arbitrum Sepolia, gas limits from a bundler), *)
(* composed with the account, the EntryPoint and EnclaveVerifyingPaymaster *)
(* they talk to.  Both build one operation that mints test tokens to the   *)
(* account, have it approved with the paymaster's key, sign it with the    *)
(* passkey and submit it themselves in a bundle of its own.                *)
(*                                                                         *)
(* A step runs from the answer to one await up to the next one: what it    *)
(* reads from the chain may be history when a later step uses it.  Several *)
(* runs of a script may overlap; a second attempt after a failed run is    *)
(* one more run.                                                           *)
(***************************************************************************)
EXTENDS Integers, Sequences, FiniteSets

CONSTANTS
    Clients,         \* runs of the script
    Null,            \* JavaScript's null
    Empty,           \* the byte string "0x"
    Window,          \* how long an approval is valid: 3600 s
    MaxClock,        \* wall clock times are 1..MaxClock
    BaseFees,        \* base fees of a block, in gwei
    BundlerLimits,   \* gas limits a bundler may propose, in millions
    Stake,           \* initial deposit of the paymaster
    MaxNonce         \* bound on the account's nonce

ASSUME ClientsAssumption == Clients # {}
ASSUME WindowAssumption == Window \in Nat \ {0}
ASSUME BaseFeesAssumption == BaseFees # {} /\ BaseFees \subseteq Nat
ASSUME StakeAssumption == Stake \in Nat
ASSUME NullAssumption == Null \notin Nat
ASSUME ClockAssumption == MaxClock \in Nat \ {0}
\* Verifying a signature takes gas, so a bundler never proposes none for it.
ASSUME LimitsAssumption ==
    BundlerLimits \subseteq
        [callGasLimit : Nat, verificationGasLimit : Nat \ {0}, preVerificationGas : Nat]

VARIABLES
    script,        \* which of the scripts is run; never changes
    account,       \* what is deployed at the script's address; never changes
    clock,         \* Date.now()
    blockTime,     \* timestamp of the latest block
    baseFee,       \* base fee of the latest block
    nonce,         \* the account's nonce at the EntryPoint
    senderNonce,   \* the account's nonce at the paymaster
    deposit,       \* the paymaster's deposit
    accepted,      \* history: operations executed and paid for
    pc,            \* pc[c]: the step the run is at
    userOp,        \* userOp[c]: the operation being built
    window,        \* window[c]: VALID_UNTIL and VALID_AFTER
    outcome,       \* outcome[c]: how the run ended
    tx             \* tx[c]: the handleOps transaction of the run

env == <<script, account>>
time == <<clock, blockTime, baseFee>>
contracts == <<nonce, senderNonce, deposit, accepted>>
process == <<pc, userOp, window, outcome>>
vars == <<env, time, contracts, process, tx>>

-----------------------------------------------------------------------------
(* The scripts as sequences of awaits.                                     *)

runTransferPassKey ==
    <<"getGasFee", "getNonce", "getHash", "handleOps", "wait">>

\* The limits of the bundler are filled in and nothing is signed again.
runTransferPassKeyarbSignedOnce ==
    <<"getGasFee", "getNonce", "getHash", "bundlerEstimate",
      "handleOps", "wait">>

runTransferPassKeyarb ==
    <<"getGasFee", "getNonce", "getHash", "bundlerEstimate",
      "getHash", "handleOps", "wait">>

Steps(s) == IF s = "local" THEN runTransferPassKey ELSE runTransferPassKeyarb

\* The chain id is written into each script.
ChainId(s) == IF s = "local" THEN 31337 ELSE 421614

At(c, step) == outcome[c] = "running" /\ Steps(script)[pc[c]] = step

-----------------------------------------------------------------------------
(* The helpers of the scripts.                                             *)

DefaultsForUserOp ==
    [sender |-> "zero", nonce |-> 0, initCode |-> Empty, callData |-> Empty,
     callGasLimit |-> 0, verificationGasLimit |-> 3, preVerificationGas |-> 10,
     maxFeePerGas |-> 0, maxPriorityFeePerGas |-> 1,
     paymasterAndData |-> Empty, signature |-> Empty]

\* A merge that takes a zero for missing.
fillUserOpDefaultsTruthy(op) ==
    [f \in DOMAIN DefaultsForUserOp |->
        IF op[f] = Null \/ (f = "maxPriorityFeePerGas" /\ op[f] = 0)
        THEN DefaultsForUserOp[f] ELSE op[f]]

fillUserOpDefaults(op) ==
    [f \in DOMAIN DefaultsForUserOp |->
        IF op[f] = Null THEN DefaultsForUserOp[f] ELSE op[f]]

\* A cap without room for the base fee to rise.
getGasFeeTight == [maxFeePerGas |-> baseFee, maxPriorityFeePerGas |-> 0,
                   verificationGasLimit |-> 3]

getGasFee == [maxFeePerGas |-> 2 * baseFee, maxPriorityFeePerGas |-> 0,
              verificationGasLimit |-> 3]

\* The fields below are hashed into the message; signature is not.
packUserOp(op) == [f \in DOMAIN op \ {"signature"} |-> op[f]]

\* The message that the passkey signs, and what the account verifies:
\* EntryPoint.getUserOpHash on the chain the scripts' addresses belong to.
message(op, chainid) == [packed |-> packUserOp(op), chainid |-> chainid]

\* Address, window and signature, concatenated.
hexConcat(w, signature) ==
    [validUntil |-> w.validUntil, validAfter |-> w.validAfter, signature |-> signature]

-----------------------------------------------------------------------------
(* The contracts.                                                          *)

\* EnclaveVerifyingPaymaster.getHash: all fields but the last two.
pack(op) == [f \in DOMAIN op \ {"paymasterAndData", "signature"} |-> op[f]]

getHash(op, w) == [packed |-> pack(op), senderNonce |-> senderNonce,
                   validUntil |-> w.validUntil, validAfter |-> w.validAfter]

\* EntryPoint: the verification gas counts three times with a paymaster.
requiredPreFund(op) ==
    (op.callGasLimit + 3 * op.verificationGasLimit + op.preVerificationGas) * op.maxFeePerGas

gasPrice(op) ==
    IF op.maxFeePerGas <= op.maxPriorityFeePerGas + baseFee
    THEN op.maxFeePerGas ELSE op.maxPriorityFeePerGas + baseFee

gasLimit(op) == op.callGasLimit + op.verificationGasLimit + op.preVerificationGas

\* The account of this repository takes a WebAuthn assertion of six values:
\* abi.decode reverts on the two words r and s.
accountAccepts(op) ==
    /\ op.signature.layout = "webauthn"
    /\ op.signature.message = message(op, ChainId(script))

\* External: an account of the kind that the scripts sign for, a P-256 signature
\* of the hash itself as the two words r and s.
twoWordAccountAccepts(op) ==
    /\ op.signature.layout = "rs"
    /\ op.signature.message = message(op, ChainId(script))

validates(op) ==
    IF account = "P256SmartAccount" THEN accountAccepts(op) ELSE twoWordAccountAccepts(op)

paymasterAccepts(op) ==
    op.paymasterAndData.signature = getHash(op, op.paymasterAndData)

InWindow(op, t) ==
    t >= op.paymasterAndData.validAfter /\ t <= op.paymasterAndData.validUntil

\* handleOps on a bundle of this operation does not revert in a block at time t.
Accepts(op, t) ==
    /\ op.nonce = nonce
    /\ validates(op)
    /\ requiredPreFund(op) <= deposit
    /\ paymasterAccepts(op)
    /\ InWindow(op, t)

-----------------------------------------------------------------------------

NoTx == [state |-> "none", op |-> Null]

Init ==
    /\ script \in {"local", "arbitrumSepolia"}
    /\ account \in {"P256SmartAccount", "twoWordAccount"}
    /\ clock = 1 /\ blockTime = 1
    /\ baseFee \in BaseFees
    /\ nonce = 0 /\ senderNonce = 0
    /\ deposit = Stake
    /\ accepted = {}
    /\ pc = [c \in Clients |-> 1]
    /\ userOp = [c \in Clients |-> Null]
    /\ window = [c \in Clients |-> Null]
    /\ outcome = [c \in Clients |-> "running"]
    /\ tx = [c \in Clients |-> NoTx]

advance(c) == pc' = [pc EXCEPT ![c] = @ + 1]

\* The process is gone, with its variables; what it sent stays sent.
exit(c, how) ==
    /\ outcome' = [outcome EXCEPT ![c] = how]
    /\ pc' = [pc EXCEPT ![c] = 1]
    /\ userOp' = [userOp EXCEPT ![c] = Null]
    /\ window' = [window EXCEPT ![c] = Null]
    /\ UNCHANGED <<env, time, contracts, tx>>

\* The window of an approval, by the client's clock.
validity == [validUntil |-> clock + Window, validAfter |-> clock]

\* The fee is read and the operation written down, with nulls where later
\* steps fill in.  The gas of the mint alone, called as the EntryPoint would, is
\* estimated right after: it is the same in every state.
buildOp(c) ==
    /\ At(c, "getGasFee")
    /\ userOp' = [userOp EXCEPT ![c] =
          [sender |-> "account", nonce |-> Null, initCode |-> Null,
           callData |-> "execute mint", callGasLimit |-> 1,
           verificationGasLimit |-> getGasFee.verificationGasLimit,
           preVerificationGas |-> 1,
           maxFeePerGas |-> getGasFee.maxFeePerGas,
           maxPriorityFeePerGas |-> getGasFee.maxPriorityFeePerGas,
           paymasterAndData |-> Empty, signature |-> Empty]]
    /\ advance(c)
    /\ UNCHANGED <<env, time, contracts, window, outcome, tx>>

readNonce(c) ==
    /\ At(c, "getNonce")
    /\ userOp' = [userOp EXCEPT ![c] = fillUserOpDefaults([@ EXCEPT !.nonce = nonce])]
    /\ window' = [window EXCEPT ![c] = validity]
    /\ advance(c)
    /\ UNCHANGED <<env, time, contracts, outcome, tx>>

\* The paymaster's hash is signed, put into the operation, and the operation
\* signed with the passkey as the two words r and s.
approveAndSign(c) ==
    /\ At(c, "getHash")
    /\ LET op == [userOp[c] EXCEPT
              !.paymasterAndData = hexConcat(window[c], getHash(userOp[c], window[c]))]
       IN userOp' = [userOp EXCEPT ![c] = [op EXCEPT
              !.signature = [layout |-> "rs", message |-> message(op, ChainId(script))]]]
    /\ advance(c)
    /\ UNCHANGED <<env, time, contracts, window, outcome, tx>>

\* eth_estimateUserOperationGas: an error answer has no result and throws.
bundlerEstimate(c) ==
    /\ At(c, "bundlerEstimate")
    /\ \E limits \in BundlerLimits :
          userOp' = [userOp EXCEPT ![c].callGasLimit = limits.callGasLimit,
                                   ![c].verificationGasLimit = limits.verificationGasLimit,
                                   ![c].preVerificationGas = limits.preVerificationGas]
    /\ window' = [window EXCEPT ![c] = validity]
    /\ advance(c)
    /\ UNCHANGED <<env, time, contracts, outcome, tx>>

\* The transaction's gas is estimated, by some nodes at the time of the latest
\* block and by others at that of the next one, which throws if the call would
\* revert; then it is sent.
submit(c) ==
    /\ At(c, "handleOps")
    /\ \E t \in {blockTime, clock} : Accepts(userOp[c], t)
    /\ tx' = [tx EXCEPT ![c] = [state |-> "sent", op |-> userOp[c]]]
    /\ advance(c)
    /\ UNCHANGED <<env, time, contracts, userOp, window, outcome>>

submitFails(c) ==
    /\ At(c, "handleOps")
    /\ \E t \in {blockTime, clock} : ~Accepts(userOp[c], t)
    /\ exit(c, "failed")

\* The script ends when the transaction is sent, or stays for a success only.
waitNot(c) ==
    /\ At(c, "wait")
    /\ exit(c, "completed")

waitForSuccess(c) ==
    /\ At(c, "wait")
    /\ tx[c].state = "mined"
    /\ exit(c, "completed")

\* tx1.wait() returns when the transaction is in a block, throws if it reverted.
wait(c) ==
    /\ At(c, "wait")
    /\ tx[c].state \in {"mined", "reverted"}
    /\ exit(c, IF tx[c].state = "mined" THEN "completed" ELSE "failed")

\* Any request may fail: the connection, the node, the bundler.
rpcFails(c) ==
    /\ outcome[c] = "running"
    /\ exit(c, "failed")

-----------------------------------------------------------------------------
(* The chain.                                                              *)

\* The transaction is included in a block.
include(c, state) ==
    /\ tx[c].state = "sent"
    /\ tx' = [tx EXCEPT ![c] = [NoTx EXCEPT !.state = state]]
    /\ blockTime' = clock
    /\ UNCHANGED <<env, clock, baseFee, process>>

mine(c) ==
    LET op == tx[c].op IN
    /\ include(c, "mined")
    /\ Accepts(op, clock)
    /\ nonce' = nonce + 1
    /\ senderNonce' = senderNonce + 1
    /\ \E used \in {1, gasLimit(op)} : deposit' = deposit - used * gasPrice(op)
    /\ accepted' = accepted \union
          {[client |-> c, price |-> gasPrice(op), baseFee |-> baseFee]}

mineReverted(c) ==
    /\ include(c, "reverted")
    /\ ~Accepts(tx[c].op, clock)
    /\ UNCHANGED contracts

\* An operation of the account that this paymaster has nothing to do with.
otherOp ==
    /\ nonce < MaxNonce
    /\ nonce' = nonce + 1
    /\ UNCHANGED <<env, time, senderNonce, deposit, accepted, process, tx>>

\* A block without a transaction of these runs, later than the one before.
newBlock ==
    /\ blockTime < clock
    /\ blockTime' = clock
    /\ baseFee' \in BaseFees
    /\ UNCHANGED <<env, clock, contracts, process, tx>>

tick ==
    /\ clock < MaxClock
    /\ clock' = clock + 1
    /\ UNCHANGED <<env, blockTime, baseFee, contracts, process, tx>>

step(c) ==
    \/ buildOp(c) \/ readNonce(c) \/ approveAndSign(c)
    \/ bundlerEstimate(c) \/ submit(c) \/ submitFails(c) \/ wait(c)

Next ==
    \/ \E c \in Clients : step(c) \/ rpcFails(c) \/ mine(c) \/ mineReverted(c)
    \/ otherOp
    \/ newBlock
    \/ tick

Fairness == \A c \in Clients : WF_vars(step(c)) /\ WF_vars(mine(c) \/ mineReverted(c))

Spec == Init /\ [][Next]_vars /\ Fairness

-----------------------------------------------------------------------------
(* Properties.                                                             *)

GasLimits == {1, 3, 10} \union UNION {{l.callGasLimit, l.verificationGasLimit,
                                      l.preVerificationGas} : l \in BundlerLimits}

\* Every variable has its type; an operation that is submitted has no null left
\* and the deposit is never overdrawn.
TypeOK ==
    /\ blockTime <= clock /\ clock \in 1..MaxClock
    /\ baseFee \in BaseFees
    /\ {nonce, senderNonce, deposit} \subseteq Nat
    /\ senderNonce = Cardinality(accepted)
    /\ outcome \in [Clients -> {"running", "completed", "failed"}]
    /\ \A c \in Clients :
          /\ pc[c] \in DOMAIN Steps(script)
          /\ tx[c].state \in {"none", "sent", "mined", "reverted"}
          /\ tx[c].state = "sent" =>
                /\ tx[c].op.nonce \in 0..nonce
                /\ tx[c].op.initCode = Empty
                /\ tx[c].op.maxFeePerGas \in {2 * b : b \in BaseFees}
                /\ {tx[c].op.callGasLimit, tx[c].op.verificationGasLimit,
                    tx[c].op.preVerificationGas} \subseteq GasLimits

\* Signed as it stands, and approved as it stands unless it is out of date.
AsSigned(op) ==
    /\ op.signature.message = message(op, ChainId(script))
    /\ paymasterAccepts(op) \/ op.nonce < nonce

\* What a run submits is signed by the passkey with exactly the fields it is
\* submitted with, the bundler's limits and the approval included, for the chain
\* it goes to; and the paymaster's approval is for these fields and valid, unless
\* the account's nonce has moved on since it was read, so that the operation is
\* out of date anyway.  However runs overlap, no operation reaches the EntryPoint
\* with a current nonce and a void approval.
SubmittedAsSigned ==
    \A c \in Clients :
        /\ At(c, "handleOps") => AsSigned(userOp[c])
        /\ tx[c].state = "sent" => AsSigned(tx[c].op)

\* A run that ends without an error has had its operation executed.  (One that
\* ends with an error may have, too, if it lost the connection while waiting.)
CompletedMeansAccepted ==
    \A c \in Clients : outcome[c] = "completed" => \E a \in accepted : a.client = c

\* The priority fee of zero reaches the EntryPoint as zero, so that the paymaster
\* pays the base fee of the block and no tip, however the base fee has moved
\* since it was read.
PaysBaseFeeOnly == \A a \in accepted : a.price <= a.baseFee

\* Every run ends, if requests are answered and transactions that were sent are
\* included in a block.
EveryRunEnds == \A c \in Clients : <>(outcome[c] # "running")

=============================================================================
