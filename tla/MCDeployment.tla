---------------------------- MODULE MCDeployment ----------------------------
EXTENDS Deployment

\* Production; a local node; a registry, a token and a fee logic in use; and the
\* scripts that deploy a part of the system.
MCPlans ==
    {<<"registry_1", "accountFactory_2", "paymasters_3", "deployaccount_5">>,
     <<"registry_1", "accountFactory_2", "setRegistry_4", "deployaccount_5">>,
     <<"deployAll", "mintUSDC">>,
     <<"entryPoint_deploy", "deployEnclaveVerifyingPaymaster", "p256Verifier_deploy",
       "P256SmartAccount_deploy">>,
     <<"setPaymasterAndPaymentToken", "getAllRegistryValues">>,
     <<"deployGasNftOPMainnet", "mintNFT">>,
     <<"UniFeeLogicNew">>, <<"P256VerifyTest">>,
     <<"eoa_account", "paymasterFunctionsV1", "fakeUSDC">>,
     <<"deployEntrypoint", "deployTestNFT", "transferEthOpSepolia", "transferEth">>,
     <<"deployTokenPaymasterArbSepoliaTestnet_1", "deployEnclaveRegistry_2",
       "deployAccountFactory_3">>,
     <<"deployAllOpMain">>, <<"deployAllOpSepolia">>, <<"deployAllArbMain">>,
     <<"deployProd">>, <<"deployRegistryTest">>}

\* A contract that an address in the scripts holds on some network.
there(contract) ==
    created(contract, <<Account(MasterKey), NoAddress>>, Account(MasterKey))

\* A fresh network; one with all the contracts; one on which one address holds
\* another contract, as on Arbitrum.
MCNetworks ==
    LET all == (EntryPointV06 :> there("EntryPoint")) @@
               (BalanceEntryPoint :> there("EntryPoint")) @@
               (RegistryB728 :> there("EnclaveRegistry")) @@
               (GasNFT859F :> there("GasNFT")) @@
               (FeeLogic9C77 :> there("EnclaveFeeLogicUniswap")) @@
               (BalanceUSDM :> there("MockUSDC"))
    IN {<< >>, all, (GasNFT859F :> there("EnclaveFeeLogicMainnet")) @@ all}

=============================================================================
