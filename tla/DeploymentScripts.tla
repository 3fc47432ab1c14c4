------------------------- MODULE DeploymentScripts -------------------------
(***************************************************************************)
(* The hardhat scripts that change a chain, each as the sequence of its    *)
(* awaits, in the order of the script.  Deployment.tla runs them.          *)
(*                                                                         *)
(* An address is a pair.  <<k, n>> is the contract created by transaction  *)
(* n of key k, <<k, -1>> the address of key k itself, <<"0x...", 0>> an    *)
(* address written into a script that no key of the project deploys to,    *)
(* and <<x, -2>> the value of the script's variable x.                     *)
(***************************************************************************)
EXTENDS Integers, Sequences

Account(k) == <<k, -1>>
Known(prefix) == <<prefix, 0>>
Local(x) == <<x, -2>>
Literal(n) == <<"literal", n>>
NoAddress == <<"", 0>>

signer == Local("signer")

\* Signers, by the environment variable or the node that holds the key.
DeploymentKey == "REGISTRY_DEPLOYMENT_KEY"
MasterKey == "PRIVATE_KEY2"
SecondKey == "PRIVATE_KEY"
BalanceKey == "PRIVATE_KEY_TEST_BALANCE"
NodeKey == "node account 0"

\* The addresses that the README lists for every chain, and the addresses of
\* the first and the fifth transaction on a fresh local node.
EnclaveRegistryAddress == <<DeploymentKey, 0>>
AccountFactoryAddress == <<DeploymentKey, 1>>
LocalEntryPoint == <<NodeKey, 0>>
LocalUSDC == <<NodeKey, 4>>

EntryPointV06 == Known("0x5FF1")
RegistryB728 == Known("0xB728")
GasNFT859F == Known("0x859F")
FeeLogic9C77 == Known("0x9C77")
BalanceEntryPoint == Known("0xF522")
BalanceUSDM == Known("0xf091")

-----------------------------------------------------------------------------
(* Instructions.                                                           *)

deploy(x, contract, args) ==
    [do |-> "deploy", to |-> Local(x), contract |-> contract, args |-> args]

waitForDeployment(x) == [do |-> "wait", to |-> Local(x)]

\* Most deployments are awaited at once.
deployed(x, contract, args) == <<deploy(x, contract, args), waitForDeployment(x)>>

send(to, method, name, value) ==
    [do |-> "send", to |-> to, method |-> method, name |-> name, value |-> value]

\* tx.wait(), of the transaction sent last.
wait == [do |-> "wait", to |-> Local("tx")]

read(to, method, name) ==
    [do |-> "read", to |-> to, method |-> method, name |-> name, caught |-> FALSE]

deposit(x, milliether) == send(Local(x), "deposit", "deposit", Literal(milliether))
updateRegistryAddress(to, name, value) == send(to, "updateRegistryAddress", name, value)
getRegistryAddress(to, name) == read(to, "getRegistryAddress", name)
transfer(to) == send(to, "transfer", "", Literal(0))

-----------------------------------------------------------------------------
(* The whole system, on a local node and on three networks.                *)

verifyingPaymaster(milliether) ==
    deployed("paymaster", "EnclaveVerifyingPaymaster", <<Local("entryPoint"), signer>>)
    \o <<deposit("paymaster", milliether), wait>>

verifierAndFactory ==
    deployed("p256Verifier", "P256Verifier", <<>>)
    \o deployed("factory", "P256SmartAccountFactory", <<>>)

\* None of these scripts passes an owner to the registry, or awaits an update.
enclaveRegistry(updates) ==
    deployed("registry", "EnclaveRegistry", <<>>)
    \o [i \in DOMAIN updates |->
            updateRegistryAddress(Local("registry"), updates[i][1], updates[i][2])]

\* The paymaster is not funded.
deployAllNoDeposit ==
    deployed("entryPoint", "EntryPoint", <<>>)
    \o deployed("paymaster", "EnclaveVerifyingPaymaster", <<Local("entryPoint"), signer>>)
    \o deployed("feelogic", "EnclaveFeeLogicTestnet", <<>>)
    \o deployed("mockUSDC", "MockUSDC", <<Literal(0), Literal(0)>>)
    \o enclaveRegistry(<<>>)

deployAll ==
    deployed("entryPoint", "EntryPoint", <<>>)
    \o verifyingPaymaster(500)
    \o deployed("feelogic", "EnclaveFeeLogicTestnet", <<>>)
    \o deployed("mockUSDC", "MockUSDC", <<Literal(0), Literal(0)>>)
    \o deployed("tokenPaymaster", "EnclaveVerifyingTokenPaymaster",
                <<Local("entryPoint"), signer, Local("mockUSDC"), Local("feelogic")>>)
    \o verifierAndFactory
    \o enclaveRegistry(<<
            <<"entryPoint", Local("entryPoint")>>,
            <<"enclaveVerifyingPaymaster", Local("paymaster")>>,
            <<"enclaveTokenPaymaster", Local("tokenPaymaster")>>,
            <<"paymentToken", Local("mockUSDC")>>,
            <<"p256Verifier", Local("p256Verifier")>>,
            <<"p256SmartAccountFactory", Local("factory")>> >>)

\* The scripts for the three networks differ in the deposit and the token.
deployAllOn(milliether, usdc) ==
    deployed("entryPoint", "EntryPoint", <<>>)
    \o verifyingPaymaster(milliether)
    \o verifierAndFactory
    \o enclaveRegistry(<<
            <<"entryPoint", Local("entryPoint")>>,
            <<"enclaveVerifyingPaymaster", Local("paymaster")>>,
            <<"paymaster", Local("paymaster")>>,
            <<"paymentToken", usdc>>,
            <<"p256Verifier", Local("p256Verifier")>>,
            <<"p256SmartAccountFactory", Local("factory")>> >>)

deployAllOpMain == deployAllOn(10, Known("0x0b2C"))
deployAllOpSepolia == deployAllOn(20, Known("0x5fd8"))
deployAllArbMain == deployAllOn(12, Known("0xaf88"))

\* The addresses of the EntryPoint and of the token are to be filled in.
deployProd ==
    deployed("paymaster", "EnclaveVerifyingPaymaster", <<NoAddress, signer>>)
    \o <<deposit("paymaster", 500), wait>>
    \o deployed("feelogic", "EnclaveFeeLogicUniswap",
                <<Known("0xa0b8"), Known("0x1f98"), Literal(1010), Literal(1000)>>)
    \o deployed("tokenPaymaster", "EnclaveVerifyingTokenPaymaster",
                <<NoAddress, signer, NoAddress, Local("feelogic")>>)
    \o verifierAndFactory
    \o enclaveRegistry(<<
            <<"entryPoint", NoAddress>>,
            <<"enclaveVerifyingPaymaster", Local("paymaster")>>,
            <<"enclaveTokenPaymaster", Local("tokenPaymaster")>>,
            <<"paymentToken", NoAddress>>,
            <<"p256Verifier", Local("p256Verifier")>>,
            <<"p256SmartAccountFactory", Local("factory")>> >>)

\* Its factories of registries are not in the repository.
deployRegistryTest ==
    deployed("implementationFactory", "EnclaveRegistryImplementationFactory", <<>>)

-----------------------------------------------------------------------------
(* Production: prod-deployment/, to be run in the order of their numbers.  *)

registry_1 == deployed("registry", "EnclaveRegistry", <<Account(MasterKey)>>)

accountFactory_2 ==
    deployed("factory", "P256SmartAccountFactory", <<>>)
    \o <<read(Local("factory"), "getAccountAddress", "account")>>

\* The deposit is sent last and not awaited.
paymasters_3DepositLast ==
    deployed("paymaster", "EnclaveVerifyingPaymaster", <<EntryPointV06, signer>>)
    \o deployed("feeLogic", "EnclaveFeeLogicMainnet", <<Known("0x976B"), Literal(20)>>)
    \o deployed("tokenPaymaster", "EnclaveVerifyingTokenPaymaster",
                <<EntryPointV06, signer, Known("0x9702"), Local("feeLogic")>>)
    \o <<deposit("paymaster", 100)>>

\* The deposit is sent before the paymaster is known to be there.
paymasters_3NotAwaited ==
    <<deploy("paymaster", "EnclaveVerifyingPaymaster", <<EntryPointV06, signer>>),
      deposit("paymaster", 100)>>
    \o deployed("feeLogic", "EnclaveFeeLogicMainnet", <<Known("0x976B"), Literal(20)>>)

paymasters_3 ==
    deployed("paymaster", "EnclaveVerifyingPaymaster", <<EntryPointV06, signer>>)
    \o <<deposit("paymaster", 100)>>
    \o deployed("feeLogic", "EnclaveFeeLogicMainnet", <<Known("0x976B"), Literal(20)>>)
    \o deployed("tokenPaymaster", "EnclaveVerifyingTokenPaymaster",
                <<EntryPointV06, signer, Known("0x9702"), Local("feeLogic")>>)

\* Its updates are commented out.
setRegistry_4 ==
    <<getRegistryAddress(EnclaveRegistryAddress, "entryPoint"),
      getRegistryAddress(EnclaveRegistryAddress, "p256Verifier")>>

deployaccount_5 ==
    <<read(AccountFactoryAddress, "getAccountAddress", "account"),
      send(AccountFactoryAddress, "createAccount", "account", EnclaveRegistryAddress)>>

-----------------------------------------------------------------------------
(* Parts of the system, one at a time.                                     *)

deployTokenPaymasterArbSepoliaTestnet_1 ==
    deployed("feeLogic", "EnclaveFeeLogicTestnet", <<>>)
    \o deployed("tokenPaymaster", "EnclaveVerifyingTokenPaymaster",
                <<EntryPointV06, signer, Known("0x75fa"), Local("feeLogic")>>)

deployEnclaveRegistry_2 ==
    enclaveRegistry(<< <<"entryPoint", EntryPointV06>>,
                       <<"paymaster", Known("0x166c")>>,
                       <<"paymentToken", Known("0x75fa")>> >>)

deployAccountFactory_3 == deployed("factory", "P256SmartAccountFactory", <<>>)

setPaymasterAndPaymentToken ==
    <<updateRegistryAddress(RegistryB728, "entryPoint", EntryPointV06)>>

getAllRegistryValues ==
    <<getRegistryAddress(RegistryB728, "entryPoint"),
      getRegistryAddress(RegistryB728, "enclaveVerifyingPaymaster"),
      getRegistryAddress(RegistryB728, "paymaster"),
      getRegistryAddress(RegistryB728, "paymentToken"),
      getRegistryAddress(RegistryB728, "p256Verifier"),
      getRegistryAddress(RegistryB728, "p256SmartAccountFactory")>>

deployGasNftOPMainnet == deployed("gasNFT", "GasNFT", <<>>)

mintNFT == <<send(GasNFT859F, "mintNFT", "owned", Account(SecondKey)), wait>>

mintUSDC == <<transfer(Known("0x649b")), send(LocalUSDC, "mint", "minted", Literal(1))>>

transferEthOpSepolia == <<transfer(Account(MasterKey)), wait>>

transferEth == <<transfer(Known("0xd11b"))>>

P256VerifyTest ==
    <<deploy("p256verifier", "P256Verifier", <<>>),
      read(Local("p256verifier"), "ecdsa_verify", "")>>

P256SmartAccount_deploy ==
    deployed("factory", "P256SmartAccountFactory", <<>>)
    \o <<read(Local("factory"), "getAccountAddress", "account"),
         send(Local("factory"), "createAccount", "account", Known("0x959D")),
         wait>>

UniFeeLogicNew ==
    <<send(FeeLogic9C77, "updateMarkup", "markup", Literal(105)),
      send(FeeLogic9C77, "updateMarkupDenominator", "markupDenominator", Literal(100)),
      read(FeeLogic9C77, "markup", "markup"),
      read(FeeLogic9C77, "markupDenominator", "markupDenominator"),
      read(FeeLogic9C77, "findOptimalPool", ""),
      read(FeeLogic9C77, "calculateFee", "")>>

deployEnclaveVerifyingPaymaster ==
    deployed("paymaster", "EnclaveVerifyingPaymaster", <<LocalEntryPoint, signer>>)
    \o <<deposit("paymaster", 3000), wait>>

entryPoint_deploy == deployed("entryPoint", "EntryPoint", <<>>)
p256Verifier_deploy == deployed("p256Verifier", "P256Verifier", <<>>)
deployEntrypoint == deployed("entryPoint", "EntryPoint", <<>>)

-----------------------------------------------------------------------------
(* enclave-smart-balance/                                                  *)

\* The deposit is made while the deployment is still under way.
eoa_accountNotAwaited ==
    deployed("entryPoint", "EntryPoint", <<>>)
    \o <<deploy("paymaster", "EnclaveSolverPaymaster", <<Local("entryPoint"), Known("0x399e")>>),
         deposit("paymaster", 10)>>

eoa_account ==
    deployed("entryPoint", "EntryPoint", <<>>)
    \o deployed("factory", "SmartAccountFactory", <<>>)
    \o deployed("paymaster", "EnclaveSolverPaymaster", <<Local("entryPoint"), Known("0x399e")>>)
    \o <<deposit("paymaster", 10)>>

\* The paymaster is used while its deployment is still under way; an error of
\* getHash is caught and logged.
paymasterFunctionsV1 ==
    <<deploy("paymaster", "EnclaveSolverPaymasterV1", <<BalanceEntryPoint, Known("0x399e")>>),
      deposit("paymaster", 10),
      [read(Local("paymaster"), "getHash", "") EXCEPT !.caught = TRUE]>>

fakeUSDC ==
    <<send(BalanceUSDM, "mint", "minted", Literal(1)),
      read(BalanceUSDM, "balanceOf", "")>>

deployTestNFT == deployed("testNFT", "TestNFT", <<Literal(1000000), Known("0x5fd8")>>)

=============================================================================
