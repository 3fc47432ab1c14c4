----------------------------- MODULE Deployment -----------------------------
(***************************************************************************)
(* An operator runs deployment scripts, one after another, against a chain *)
(* on which a transaction is mined some time after it was sent.  A script  *)
(* may die at every await, because a request failed or because it threw;   *)
(* what it sent stays sent, and the operator runs it again from the start  *)
(* or goes on with the next one.                                           *)
(*                                                                         *)
(* A contract's address is made from its deployer's key and the number of  *)
(* the transaction, so that every transaction, also one of a run that      *)
(* failed, moves the address of everything that key deploys later.         *)
(***************************************************************************)
EXTENDS DeploymentScripts, FiniteSets, SequencesExt

CONSTANTS
    Plans,         \* sequences of scripts that an operator may run
    Networks,      \* contracts that a network may have to begin with
    MaxAttempts,   \* how often the operator runs one script
    MaxFaults      \* how many requests fail

ASSUME MaxAttemptsAssumption == MaxAttempts \in Nat \ {0}
ASSUME MaxFaultsAssumption == MaxFaults \in Nat

VARIABLES
    plan,        \* the scripts to run; never changes
    at,          \* index into plan
    attempt,     \* how often plan[at] was started
    status,      \* of the script: ready, running or failed
    pc,          \* index of the next instruction
    locals,      \* variables of the script; tx is the last transaction it sent
    contracts,   \* address -> what is deployed there
    nonce,       \* nonce[k]: mined transactions of key k
    pending,     \* pending[k]: transactions sent and not yet mined
    reverted,    \* mined transactions that reverted
    lost,        \* history: transactions mined without the effect they were sent for
    done,        \* history: completed runs
    faults       \* requests that failed

operator == <<plan, at, attempt>>
process == <<status, pc, locals>>
chain == <<contracts, nonce, pending, reverted>>
history == <<lost, done, faults>>
vars == <<operator, process, chain, history>>

Keys == {DeploymentKey, MasterKey, BalanceKey, NodeKey}

scripts ==
    [deployAll |-> deployAll, deployAllOpMain |-> deployAllOpMain,
     deployAllOpSepolia |-> deployAllOpSepolia, deployAllArbMain |-> deployAllArbMain,
     deployProd |-> deployProd, deployRegistryTest |-> deployRegistryTest,
     registry_1 |-> registry_1, accountFactory_2 |-> accountFactory_2,
     paymasters_3 |-> paymasters_3, setRegistry_4 |-> setRegistry_4,
     deployaccount_5 |-> deployaccount_5,
     deployTokenPaymasterArbSepoliaTestnet_1 |-> deployTokenPaymasterArbSepoliaTestnet_1,
     deployEnclaveRegistry_2 |-> deployEnclaveRegistry_2,
     deployAccountFactory_3 |-> deployAccountFactory_3,
     setPaymasterAndPaymentToken |-> setPaymasterAndPaymentToken,
     getAllRegistryValues |-> getAllRegistryValues,
     deployGasNftOPMainnet |-> deployGasNftOPMainnet,
     mintNFT |-> mintNFT, mintUSDC |-> mintUSDC,
     transferEthOpSepolia |-> transferEthOpSepolia, transferEth |-> transferEth,
     P256VerifyTest |-> P256VerifyTest,
     P256SmartAccount_deploy |-> P256SmartAccount_deploy,
     UniFeeLogicNew |-> UniFeeLogicNew,
     deployEnclaveVerifyingPaymaster |-> deployEnclaveVerifyingPaymaster,
     entryPoint_deploy |-> entryPoint_deploy, p256Verifier_deploy |-> p256Verifier_deploy,
     deployEntrypoint |-> deployEntrypoint,
     eoa_account |-> eoa_account, paymasterFunctionsV1 |-> paymasterFunctionsV1,
     fakeUSDC |-> fakeUSDC, deployTestNFT |-> deployTestNFT]

ScriptsForTestBalance ==
    {"eoa_account", "paymasterFunctionsV1", "fakeUSDC", "deployTestNFT",
     "deployAllOpSepolia", "transferEthOpSepolia", "deployTokenPaymasterArbSepoliaTestnet_1"}

ScriptsForLocalNode ==
    {"deployAll", "mintUSDC", "entryPoint_deploy", "p256Verifier_deploy",
     "deployEnclaveVerifyingPaymaster", "P256VerifyTest", "P256SmartAccount_deploy"}

\* The registry is deployed with the master key, and only the factory is not.
getNetworkFactoryOnly(script) ==
    CASE script = "accountFactory_2" -> DeploymentKey
      [] script \in ScriptsForTestBalance -> BalanceKey
      [] script \in ScriptsForLocalNode -> NodeKey
      [] OTHER -> MasterKey

\* The first account of the network a script is for.
getNetwork(script) ==
    CASE script \in {"registry_1", "accountFactory_2"} -> DeploymentKey
      [] script \in ScriptsForTestBalance -> BalanceKey
      [] script \in ScriptsForLocalNode -> NodeKey
      [] OTHER -> MasterKey

-----------------------------------------------------------------------------
(* Contracts.                                                              *)

Paymasters == {"EnclaveVerifyingPaymaster", "EnclaveVerifyingTokenPaymaster",
               "EnclaveSolverPaymaster", "EnclaveSolverPaymasterV1"}

\* The artifacts of the repository that the scripts name, and how many arguments
\* their constructors take.
constructorArgs ==
    [EntryPoint |-> 0, P256Verifier |-> 0, P256SmartAccountFactory |-> 0,
     SmartAccountFactory |-> 0, EnclaveFeeLogicTestnet |-> 0, GasNFT |-> 0,
     EnclaveRegistry |-> 1, EnclaveVerifyingPaymaster |-> 2, EnclaveSolverPaymaster |-> 2,
     EnclaveSolverPaymasterV1 |-> 2, EnclaveFeeLogicMainnet |-> 2, MockUSDC |-> 2,
     TestNFT |-> 2, EnclaveVerifyingTokenPaymaster |-> 4, EnclaveFeeLogicUniswap |-> 4]

implementers(method) ==
    CASE method \in {"updateRegistryAddress", "getRegistryAddress"} -> {"EnclaveRegistry"}
      [] method \in {"deposit", "getHash"} -> Paymasters
      [] method \in {"createAccount", "getAccountAddress"} -> {"P256SmartAccountFactory"}
      [] method = "mintNFT" -> {"GasNFT"}
      [] method \in {"mint", "balanceOf"} -> {"MockUSDC"}
      [] method = "ecdsa_verify" -> {"P256Verifier"}
      [] method \in {"updateMarkup", "updateMarkupDenominator", "markup",
                     "markupDenominator", "findOptimalPool", "calculateFee"}
            -> {"EnclaveFeeLogicUniswap"}
      [] OTHER -> {}

onlyOwner == {"updateRegistryAddress", "updateMarkup", "updateMarkupDenominator"}

\* A contract as its constructor leaves it.
created(contract, args, deployer) ==
    [contract |-> contract, args |-> args, entry |-> << >>, amount |-> 0,
     owner |-> IF contract = "EnclaveRegistry" THEN args[1] ELSE deployer]

\* A call to an address without code succeeds, and does nothing.
succeeds(cs, tx) ==
    tx.to \in DOMAIN cs =>
       LET c == cs[tx.to] IN
       /\ c.contract \in implementers(tx.method)
       /\ tx.method \in onlyOwner => c.owner = Account(tx.by)
       /\ tx.method = "mintNFT" => tx.name \notin DOMAIN c.entry
       /\ tx.method = "deposit" =>
             /\ c.args[1] \in DOMAIN cs
             /\ cs[c.args[1]].contract = "EntryPoint"

\* What a call that succeeds does to the contract it is made to.
called(c, tx) ==
    IF tx.method \in {"deposit", "mint"} THEN [c EXCEPT !.amount = @ + tx.value[2]]
    ELSE [c EXCEPT !.entry = [n \in DOMAIN @ \union {tx.name} |->
                                IF n = tx.name THEN tx.value ELSE @[n]]]

\* The gas of a call was estimated when there was no code at the address.
outOfGas(cs, tx) == tx.to \in DOMAIN cs /\ ~tx.sawCode

apply(cs, tx) ==
    IF tx.method = "constructor"
    THEN [a \in DOMAIN cs \union {tx.to} |->
             IF a = tx.to THEN created(tx.contract, tx.args, Account(tx.by)) ELSE cs[a]]
    ELSE IF tx.to \in DOMAIN cs /\ succeeds(cs, tx) /\ ~outOfGas(cs, tx)
    THEN [cs EXCEPT ![tx.to] = called(@, tx)]
    ELSE cs

-----------------------------------------------------------------------------
(* The script.                                                             *)

script == plan[at]
code == scripts[script]
key == getNetwork(script)
At(do) == status = "running" /\ pc <= Len(code) /\ code[pc].do = do

\* The value of an operand.
value(a) == IF a[2] = -2 THEN locals[a[1]] ELSE a

\* The nonce counts mined transactions only.
nextTxLatest == <<key, nonce[key]>>

\* The address that the next transaction of the signer is known by.
nextTx == <<key, nonce[key] + Len(pending[key])>>

assign(xs) == [x \in DOMAIN locals \union xs |->
                 IF x \in xs THEN nextTx ELSE locals[x]]

next ==
    /\ pc' = pc + 1
    /\ UNCHANGED <<operator, status, history>>

\* main().catch: the error is logged, and the process gone.
throw ==
    /\ status' = "failed"
    /\ pc' = 1
    /\ locals' = << >>
    /\ UNCHANGED <<operator, chain, lost, done>>

Init ==
    /\ plan \in Plans
    /\ at = 1 /\ attempt = 0
    /\ status = "ready" /\ pc = 1 /\ locals = << >>
    /\ contracts \in Networks
    /\ nonce = [k \in Keys |-> 0]
    /\ pending = [k \in Keys |-> << >>]
    /\ reverted = {} /\ lost = {} /\ done = {}
    /\ faults = 0

\* npx hardhat run
start ==
    /\ at <= Len(plan)
    /\ status \in {"ready", "failed"}
    /\ attempt < MaxAttempts
    /\ status' = "running" /\ pc' = 1
    /\ locals' = [signer |-> Account(key)]
    /\ attempt' = attempt + 1
    /\ UNCHANGED <<plan, at, chain, history>>

\* The factory's deploy encodes the arguments, before it sends anything.
encodes(i) ==
    /\ i.contract \in DOMAIN constructorArgs
    /\ Len(i.args) = constructorArgs[i.contract]
    /\ \A n \in DOMAIN i.args : value(i.args[n]) # NoAddress

deploys ==
    /\ At("deploy")
    /\ encodes(code[pc])
    /\ pending' = [pending EXCEPT ![key] = Append(@,
          [method |-> "constructor", by |-> key, to |-> nextTx, script |-> script,
           contract |-> code[pc].contract,
           args |-> [n \in DOMAIN code[pc].args |-> value(code[pc].args[n])]])]
    /\ locals' = assign({code[pc].to[1], "tx"})
    /\ next
    /\ UNCHANGED <<contracts, nonce, reverted>>

deployThrows ==
    /\ At("deploy")
    /\ ~encodes(code[pc])
    /\ throw
    /\ UNCHANGED faults

call == [method |-> code[pc].method, by |-> key, to |-> value(code[pc].to), script |-> script,
         id |-> nextTx, name |-> code[pc].name, value |-> value(code[pc].value)]

\* The state a node may estimate gas on: the latest block, with or without
\* the transactions of the signer that wait to be mined.
estimatedOn == {contracts, FoldLeft(apply, contracts, pending[key])}

sends ==
    /\ At("send")
    /\ \E cs \in estimatedOn :
          /\ succeeds(cs, call)
          /\ pending' = [pending EXCEPT ![key] = Append(@,
                [sawCode |-> call.to \in DOMAIN cs] @@ call)]
    /\ locals' = assign({"tx"})
    /\ next
    /\ UNCHANGED <<contracts, nonce, reverted>>

sendThrows ==
    /\ At("send")
    /\ \E cs \in estimatedOn : ~succeeds(cs, call)
    /\ throw
    /\ UNCHANGED faults

\* The awaited transaction is in a block.
mined(a) == a[2] < nonce[a[1]]

waits ==
    /\ At("wait")
    /\ mined(value(code[pc].to))
    /\ value(code[pc].to) \notin reverted
    /\ next
    /\ UNCHANGED <<locals, chain>>

waitThrows ==
    /\ At("wait")
    /\ mined(value(code[pc].to))
    /\ value(code[pc].to) \in reverted
    /\ throw
    /\ UNCHANGED faults

\* A view call has a result to decode.
answers(i) ==
    /\ value(i.to) \in DOMAIN contracts
    /\ contracts[value(i.to)].contract \in implementers(i.method)
    /\ i.method = "getRegistryAddress" => i.name \in DOMAIN contracts[value(i.to)].entry

\* The call is in a try block, whose catch logs what is thrown: the script goes
\* on whether the call answers, has no result or the request fails.
inTry == At("read") /\ code[pc].caught

reads ==
    /\ At("read")
    /\ answers(code[pc]) \/ inTry
    /\ next
    /\ UNCHANGED <<locals, chain>>

readThrows ==
    /\ At("read")
    /\ ~answers(code[pc]) /\ ~inTry
    /\ throw
    /\ UNCHANGED faults

\* Any request may fail: the connection, the node, the balance of the key.
\* Outside a try block that ends the script.
requestFails ==
    /\ status = "running" /\ pc <= Len(code) /\ ~inTry
    /\ faults < MaxFaults
    /\ faults' = faults + 1
    /\ throw

proceed ==
    /\ at' = at + 1 /\ attempt' = 0
    /\ status' = "ready" /\ pc' = 1 /\ locals' = << >>
    /\ UNCHANGED <<plan, chain, lost, faults>>

completes ==
    /\ status = "running" /\ pc > Len(code)
    /\ done' = done \union {[script |-> script, locals |-> locals]}
    /\ proceed

\* The operator gives a script up and goes on with the next one.
givesUp ==
    /\ status = "failed"
    /\ proceed
    /\ UNCHANGED done

-----------------------------------------------------------------------------
(* The chain mines the transactions of a key in the order of their nonces. *)

mine(k) ==
    /\ pending[k] # << >>
    /\ LET tx == Head(pending[k])
           fails == tx.method # "constructor"
                    /\ (~succeeds(contracts, tx) \/ outOfGas(contracts, tx))
           void == tx.method \notin {"constructor", "transfer"} /\ tx.to \notin DOMAIN contracts
       IN /\ contracts' = apply(contracts, tx)
          /\ reverted' = IF fails THEN reverted \union {<<k, nonce[k]>>} ELSE reverted
          /\ lost' = IF fails \/ void THEN lost \union {tx} ELSE lost
    /\ nonce' = [nonce EXCEPT ![k] = @ + 1]
    /\ pending' = [pending EXCEPT ![k] = Tail(@)]
    /\ UNCHANGED <<operator, process, done, faults>>

step ==
    \/ deploys \/ deployThrows \/ sends \/ sendThrows \/ waits \/ waitThrows
    \/ reads \/ readThrows \/ completes

Next ==
    \/ start
    \/ step
    \/ requestFails
    \/ givesUp
    \/ \E k \in Keys : mine(k)

Fairness == WF_vars(step) /\ \A k \in Keys : WF_vars(mine(k))

Spec == Init /\ [][Next]_vars /\ Fairness

-----------------------------------------------------------------------------
(* Properties.                                                             *)

production == plan[1] = "registry_1"

funded(run) ==
    /\ run.locals.paymaster \in DOMAIN contracts
    /\ contracts[run.locals.paymaster].amount > 0

\* Every variable has its type, and no address is deployed to twice.
TypeOK ==
    /\ status \in {"ready", "running", "failed"}
    /\ at \in 1 .. Len(plan) + 1 /\ attempt \in 0 .. MaxAttempts
    /\ status = "running" => pc \in 1 .. Len(code) + 1 /\ "signer" \in DOMAIN locals
    /\ faults \in 0 .. MaxFaults
    /\ \A k \in Keys : \A i \in DOMAIN pending[k] :
          pending[k][i].method = "constructor" =>
              /\ pending[k][i].to = <<k, nonce[k] + i - 1>>
              /\ pending[k][i].to \notin DOMAIN contracts
    /\ \A a \in reverted : mined(a)

\* When 3-paymasters.ts or deployEnclaveVerifyingPaymaster.ts has completed, the
\* deposit has arrived.  3-paymasters.ts never awaits it: it has arrived because
\* deployments that are awaited follow it, and a key's transactions are mined in
\* the order they were sent.
PaymasterFunded ==
    \A run \in done : run.script \in {"paymasters_3", "deployEnclaveVerifyingPaymaster"}
                       => funded(run)

\* A transaction that is mined without an effect was sent to an address at which
\* the node saw no contract, by paymasterFunctionsV1.ts, which does not await its
\* deployment, or by a script that trusts an address written into it (a failed
\* run may have moved the addresses); or it mints an NFT that a run which lost its
\* connection has minted.  The scripts that await their deployments, or read
\* from a contract before they call it, lose nothing.
LossExplained ==
    \A tx \in lost :
        \/ ~tx.sawCode /\ tx.script \in {"paymasterFunctionsV1", "setPaymasterAndPaymentToken",
                                       "mintNFT", "mintUSDC", "fakeUSDC", "UniFeeLogicNew"}
        \/ tx.script = "mintNFT" /\ faults > 0

\* Once 1-registry.ts has completed, an account that 5-deployaccount.ts creates
\* is given a registry that exists, also when scripts were repeated or given up
\* and the addresses have moved: the factory is only ever at its address if the
\* registry is at the one before.  An operator who gives 1-registry.ts up and
\* runs 2-accountFactory.ts twice gets accounts without a registry.
AccountsHaveRegistry ==
    \A a \in DOMAIN contracts :
        /\ \E run \in done : run.script = "registry_1"
        /\ a = AccountFactoryAddress /\ "account" \in DOMAIN contracts[a].entry
        =>
            /\ EnclaveRegistryAddress \in DOMAIN contracts
            /\ contracts[EnclaveRegistryAddress].contract = "EnclaveRegistry"

\* If no request fails, contracts are where the scripts that use them expect
\* them: the registry and the factory at the addresses that the README lists for
\* every chain, and on a fresh local node the token of mintUSDC.ts at the address
\* of the fifth transaction of deployAll.ts.
DocumentedAddresses ==
    faults = 0 =>
        \A run \in done :
            /\ production /\ run.script = "registry_1"
                  => run.locals.registry = EnclaveRegistryAddress
            /\ production /\ run.script = "accountFactory_2"
                  => run.locals.factory = AccountFactoryAddress
            /\ plan[1] = "deployAll" /\ run.script = "mintUSDC"
                  => /\ LocalUSDC \in DOMAIN contracts
                     /\ contracts[LocalUSDC].contract = "MockUSDC"

\* A completed run of eoa-account.ts, which ends without awaiting its deposit,
\* has a funded paymaster in the end.
DepositArrives ==
    (\E run \in done : run.script = "eoa_account")
        ~> (\A run \in done : run.script = "eoa_account" => funded(run))

=============================================================================
