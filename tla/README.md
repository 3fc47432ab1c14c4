# Enclave smart account: a TLA+ verification project

This directory models the contracts of `src/contracts` and the scripts of
`src/scripts` that use and deploy them in TLA+, model-checks the models with TLC
and proves theorems about them with TLAPS.

## 1. The system

The repository has two products on top of ERC-4337 (EntryPoint v0.6).

*Enclave smart account.* A user's account is a UUPS proxy of `P256SmartAccount`,
created by `P256SmartAccountFactory` at a CREATE2 address. Its owner is a P-256
(passkey) public key. The account looks its EntryPoint and its signature
verifier up in `EnclaveRegistry` on every call. Bundlers submit signed user
operations to the EntryPoint, which validates all of a bundle, then executes it.
Gas is paid by the account or by a paymaster: `EnclaveVerifyingPaymaster` (free),
`EnclaveVerifyingTokenPaymaster` and `EnclaveMultiTokenPaymaster` (charge an
ERC20), `EnclaveVerifyingNFTPaymaster` (quota per NFT holder, kept by
`NFTGasLogic`). Every paymaster requires the signature of an off-chain service.

*Enclave smart balance.* Users put tokens in `EnclaveTokenVaultV0` on a source
chain. A solver sponsors their operations on a destination chain through
`EnclaveSolverPaymasterV0/V1` and claims the tokens from the vault.

The parts, their state and their operations:

| Part | State | Operations |
|---|---|---|
| `EnclaveTokenVaultV0` | credits per token and user, manager set, reentrancy flag | deposit, withdraw, claim, add/removeVaultManager |
| EntryPoint v0.6 (library) | nonces, deposits | handleOps: validate all, then execute all |
| `P256SmartAccount` | key, guardians (mapping and array), registry, ether, code | validateUserOp, execute, executeBatch, add/removeGuardian, transferOwnership, addDeposit, withdrawDepositTo, upgradeTo |
| `P256SmartAccountFactory` | which accounts have code | createAccount |
| `EnclaveRegistry` | name to address | updateRegistryAddress |
| `EnclaveVerifyingPaymaster` | senderNonce, deposit | validatePaymasterUserOp |
| `EnclaveVerifyingTokenPaymaster` | the same, payment token, fee logic, tokens | the same, postOp, updateFeeLogic, updatePaymentToken, withdrawTokens |
| `EnclaveVerifyingNFTPaymaster`, `NFTGasLogic`, `GasNFT` | the same, NFT, limits, use, holders | the same, postOp, updateNFT, addOrUpdateNFTLimits, applyLogic, mintNFT |
| `EnclaveMultiTokenPaymaster` | senderNonce, fee logic, allowed tokens | validate, postOp, updateFeeLogic, add/removePaymentToken, withdrawTokens |
| `EnclaveSolverPaymasterV0/V1` | senderNonce, tokens of the paymaster | validate (pays the intent's tokens) |
| EOA `SmartAccount` and factory | owner, EntryPoint | as the passkey account, without guardians |
| `MultichainPasskeyValidator` | none | validateUserOp against a Merkle root |
| `P256Verifier` | none | ecdsa_verify, a loop over the bits of two scalars |
| other verifiers, fee logic, `CustomFullMath`, `Base64URL` | none | pure functions |
| client scripts `runTransferPassKey(arb).js` | the operation being built, what was read from the chain | a step per await |
| deployment scripts | variables of the script; the chain with its keys, nonces, pending transactions | a step per await |

What makes it hard: a bundle is validated completely before it is executed, so
whatever validation found may be stale when it is used; postOp may be called
twice, the second time with the operation undone; calls out of the vault and of
the account hand control to code that calls back; approvals are signed on a
state that is history when they arrive; the registry changes the EntryPoint of
all accounts at once. The scripts read the chain at one await and rely on what
they read several awaits later; a script that dies leaves behind what it sent;
and the addresses written into the scripts depend on how many transactions a
key has made.

## 2. Modules

| Module | Models |
|---|---|
| `VaultLedger` | what the vault promises: credits backed by a reserve, one movement per transaction |
| `TokenVault` | `EnclaveTokenVaultV0` and the ERC20 it calls |
| `EntryPoint` | fragments of handleOps that the modules below conjoin with their own part of the step (external) |
| `P256SmartAccount` | accounts, factory and registry |
| `P256Verifier` | the signature verification, on a curve that is a parameter |
| `Sponsorship` | what all paymasters share: approvals, senderNonce, windows, deposit |
| `VerifyingPaymaster` | `EnclaveVerifyingPaymaster` |
| `TokenPaymaster` | `EnclaveVerifyingTokenPaymaster` with `EnclaveFeeLogicMainnet` |
| `NFTPaymaster` | `EnclaveVerifyingNFTPaymaster` with `NFTGasLogic` and `GasNFT` |
| `MultiTokenPaymaster` | `EnclaveMultiTokenPaymaster` |
| `SolverPaymaster` | `EnclaveSolverPaymasterV0` and `V1` |
| `PasskeyClient` | the two client scripts, composed with account, EntryPoint, verifying paymaster and bundler |
| `DeploymentScripts` | each script that sends a transaction, as the sequence of its awaits |
| `Deployment` | operator, running script and chain: what executes those sequences |
| `*Proofs` | theorems about the module of that name; `SponsorshipProofs` holds the lemmas that all paymasters share and the theorems about `VerifyingPaymaster` |
| `Sums` | lemmas about sums over finite sets, for the theorems that compare sums |
| `MC*` | TLC instances |

**TokenVault.** A guarded function is three steps: the call opens a frame in
`calls` (checks, and the debit of withdraw and claim), the token moves the
balance (`TokenPulls`, `TokenPays`), the call returns (the credit of deposit) or
reverts to the state saved in the frame. Between the steps every unguarded
operation can run, as it can from a token hook. `nonReentrant` is the guard that
no frame is open. The vault admits every token and relies on `transferFrom` and
`transfer` doing what they return. `Exact` is the set of tokens that do: they move
the amount asked for or fail. Any other token (fees on transfer, rebasing, none at
all) only returns true (`OtherTokenReturns`); its books are not in the model, and
nothing is claimed of credits in it. Solvency, the users' wealth and the ledger
are about the exact tokens, in a vault that is used with both.

**EntryPoint.** `phase`, `bundle` and `at` are the program counter of handleOps,
`saved` the state to which FailedOp reverts. Validation takes the prefund from
the payer's deposit, settlement refunds what was not used; the gas used is any
value up to `RequiredPreFund`. Nonces are those of key 0.

**P256SmartAccount.** An account's address is `<<pubkey, salt>>`, since CREATE2
is injective in the arguments of createAccount. A signature is the key that made
it and the EntryPoint in the hash; verification compares them. A batch runs call
by call (`pc`), `inner` being the state to which a failing call reverts. During
a call that sends ether (`pay`, and `withdrawDepositTo`, whose receiver the
EntryPoint calls) the receiver runs (`ReceiverRuns`): it may revert, and others
may act: guardians, the factory, the registry's owner, anybody who sends ether.
The zero address is no guardian, so a call that adds it fails. The EntryPoint is
the registry's entry and changes with it, although the comment at
`P256SmartAccount.sol:115` calls it immutable.

**Sponsorship.** The off-chain service calls getHash on the committed state and
signs the result, at any time, for any operation; bundlers submit any sequence
of operations. `granted` records what was validated, `funded` what the owner
put into the deposit. The paymasters of the repository are copies of one
another up to postOp, and so are the modules. `VerifyingPaymaster` is the least
of them: `grant` is its whole validation, and as its context is empty the EntryPoint
calls no postOp: gas is paid, and that is all. The proofs about
the others build on the proofs about it, so its definitions have names of their
own (`VerifyingNext`, `approvalRefused`).

**TokenPaymaster, NFTPaymaster.** `postOp` is the case in which the first call of
postOp succeeds, `postOpReverted` the one in which it fails and the second, after
undoing the operation, succeeds, `postOpRevertsAgain` the one in which both fail
and the bundle reverts. The second call sees at least as much gas as the first.
The owner and third parties act between transactions and between the operations
of a bundle, as an operation may call contracts of theirs. postOp is told the gas
used before it runs; the EntryPoint then bills the gas of postOp itself to the
deposit, at most `PostOpGas` (`Billed`), for which no fee was asked. A fee logic is
a price, a scale and a markup, applied and rounded down as `EnclaveFeeLogicMainnet`
does; fee tokens move the amount asked for or fail. NFTs are counted as `balanceOf`
does: holders transfer theirs, in a sponsored operation or in between, and so do
operators whom they approved.

**MultiTokenPaymaster.** The token is a field of the operation that the signed
hash does not cover. The context is a sequence of addresses, and postOp works if
there are the two it decodes; there is one, so both calls fail. The branch in
which the fee is collected stays in the model as what the code would do with a
longer context.

**SolverPaymaster.** `Version` selects what the service signs. The length of the
signature follows from the offsets at which paymasterAndData is cut, and
`Recovers` says which lengths the library accepts. With the offsets of the code
no operation is accepted, so there is nothing to check beyond that statement of
the comments, and `validatePaymasterUserOp` is never enabled.

**P256Verifier.** One call of the fallback: the checks, then one step per bit of
the Strauss-Shamir loop, then the comparison. All formulas in XYZZ coordinates
are the contract's, with `mulmod` and `addmod` of the parameter's field; what they
are compared with is the group law by chords and tangents, written separately.

**PasskeyClient.** A step of a run goes from one await to the next. The operation
is a record that is filled in field by field, approved and signed; a hash is the
record of the fields that it covers. Between two steps others act: a second run
of the script, the clock, the base fee, the chain that includes a transaction
late or reverts it; every request may fail. The scripts sign with the two words
r and s, while the account of this repository decodes a WebAuthn assertion of six
values and reverts on anything else. So `account` says what is at the address in
the script: this repository's account, with which no run is accepted, or an
external one that takes two words (`twoWordAccountAccepts`), with which a run can
complete.

**Deployment.** A script is a sequence of instructions: deploy, call, wait,
read. `step` executes the next one, `mine(k)` the next transaction of key k; a
request may fail at every await, which ends the script unless the call is in a
try block (`inTry`: `getHash` in `paymasterFunctionsV1.ts`), and the operator
runs it again or gives it up and goes on. Nothing in the scripts stops them from
going on without the registry, so `AccountsHaveRegistry` says in its statement
that `1-registry.ts` has completed: after a registry that was given up, a
factory deployed at the second attempt is at its documented address and the
registry is not. A contract's address is its deployer and the number of the
transaction. Transactions to an address without code succeed without an effect
(`lost`), as they do on the chain.

## 3. Runs

Sizes are distinct states. `passkey_client`, `deployment` and `p256_verifier` do
not check for deadlock, because scripts and calls end; all others do.

| Run | Shows | Instance |
|---|---|---|
| `vault` | solvency inside hooks, a manager always exists, users keep what they own, refinement of `VaultLedger` | 2 users, an exact token and another one, amounts 0 and 1, 1 token each; 812 thousand |
| `account` | no operation executed twice, only the key of the transaction's start counts, control changes by the account only, losses bounded by the operations' outlays | 2 accounts, 2 EntryPoints, 6 operations, bundles of 2; 2.1 million |
| `p256_verifier` | the scales of a point stay consistent, every round of the loop holds the multiple of G and Q that it should, the answer is that of ECDSA | the curve y² = x³ - 3x + 15 over 23 elements, 17 points; words of 5 bits; all keys, all r and s; 713 thousand |
| `verifying_paymaster` | grants were approved and in time, one per reading of senderNonce, one per sender and bundle, exposure bounded | 2 senders, 5 operations, 3 approvals, 2 instants; 88 thousand |
| `token_paymaster` | the fees received are worth the gas, up to rounding and the gas of postOp; nobody pays another one's fee | 2 senders, 2 tokens, 2 fee logics, 4 operations; 4.1 million |
| `nft_paymaster` | nobody exceeds the limits, every operation is counted, a validated quota is still there at postOp | 2 senders, 2 NFTs, 3 operations; 570 thousand |
| `multi_token_paymaster` | an approval serves one operation, although it does not cover the token and operations differ in nothing else | 2 senders, 2 tokens, 4 operations; 146 thousand |
| `passkey_client` | what is submitted is signed as it stands and approved, or its nonce is used up; a run that completes was executed; no tip is paid; every run ends | 2 overlapping runs of either script; 390 thousand |
| `deployment` | deposits that are not awaited arrive, transactions are lost only where an address is trusted unseen, accounts get a registry that exists if its script has completed, contracts come out at the documented addresses | 16 plans of up to 4 scripts on 3 networks, 2 attempts, 2 failed requests; 49 thousand |
| `guardian_count` | violation: getGuardianCount stays 0 after addGuardian | as `account` |
| `multi_token_charge` | violation: postOp reverts on a context that is too short, where a comment says the transfer should succeed | as `multi_token_paymaster` |
| `solver_signature` | violation: a signature of 64 bytes, all the layout has room for, is refused; a comment says it is supported | 2 senders, 3 operations, version 0 |

Why the bounds are enough: the hazards involve a bundle of two operations (an
earlier one that disturbs a later one), two users, senders or script runs (one
who acts, one who is affected), one nested call (the guard admits no second) and
a limit that can be reached. Amounts are small, but larger than the gas of one
operation and smaller than that of all, so that deposits, allowances and quotas
run out. The windows of `passkey_client` are shorter than its clock runs, so
that approvals expire on the way. Two failed requests and two attempts are
enough to move an address, repeat the script and fail again. The curve has
points for every branch of the addition (equal, opposite, infinity), an order
below the modulus, so that r may be the remainder of a larger abscissa, and a
word that holds hashes and scalars beyond the order.

The bounds in the guards are `MaxApprovals`, `MaxFunding`, `MaxTime`,
`MaxTokens`, `MaxEth`, `MaxCalls`, `MaxSupply`, `MaxClock`, `MaxNonce`,
`MaxAttempts` and `MaxFaults`; for the vault they are the supply of exact tokens
and `MaxCredit`, as credits in another token need no tokens.

Fairness:

* `passkey_client`: a request is answered or fails (`WF` of each run's step), since
  the clients of the library time out, and a transaction that was sent is
  included in a block, executed or reverted.
* `deployment`: the script goes on when its await is over, and each key's next
  transaction is mined. No fairness is assumed of the operator.

No fairness is assumed anywhere else: users, managers, owners and bundlers may stop
at any time. The vault's properties are about tokens that move what they are asked
to, and so are those of the token paymaster.

## 4. Proofs

Proved by TLAPS for all values of the constants, from the named assumptions of
the modules:

* bounds, amounts and gas are natural numbers, and null is not one;
* operations, tokens, NFTs and EntryPoints are finite sets, as fields have fixed
  widths and calldata is bounded; sums over them need it;
* the paymaster holds a deposit at the one EntryPoint it was built for;
* the calls of an operation are a sequence, and calldata is decoded to the types
  of the parameters (`CallsAssumption`);
* a fee logic has a price, a scale that is not zero and a markup (zero is no
  markup), and paymaster and outside are no senders (`TokensAssumption`);
* the exact tokens of the vault are some of its tokens (`ExactAssumption`);
* a bundler proposes some gas for the verification of a signature
  (`LimitsAssumption` of `PasskeyClient`).

**Sums.** `SumFunctionOnSet` of the library removes one chosen element after the
other. `Sums` proves for it what one expects: the sum does not depend on the
choice, it is an integer, changing one value changes it by as much, and it is
monotone. The induction on the size of the set is a smallest counterexample: the
set of sizes at which the claim fails has a least element, since the natural
numbers are well-founded, and that is a first-order fact. The recursion is shown
to have a solution first, without which nothing is known of the `CHOOSE` that
stands for it.

**TokenVaultProofs.**
`TypeCorrect`, `AlwaysSolvent`, `AlwaysManaged`: the inductive invariant adds to
the types and the manager that at most one frame is open and that the credits
plus what the open call still owes are covered, now and in the frame's saved
state. "Covered" is stated as a running total of the credits that ends below the
balance. Solvency alone is not inductive: between the debit and the transfer, or
the transfer and the credit, the amount in flight has to be accounted for.
`ImplementsLedger`: every step of the vault is a step of `VaultLedger` or leaves
its variables alone. While a call is open the abstract state is the one saved in
the frame, so a call that opens or moves tokens is a stutter and the step that
closes it is the movement. A call in another token leaves the ledger of the exact
ones alone. `OwnersProtected` goes through the actions: a debit is
in flight until the token pays, and a deposit is until it is credited.

**SponsorshipProofs.** `SponsorInv` is what the steps shared by all paymasters
preserve. No approval is ahead of the committed senderNonce, senderNonce never
falls behind the committed value inside a transaction, used readings are behind
senderNonce, a sender validated in the running transaction is ahead of the
committed value, and all of this holds of the saved state too. So an approval
for a sender already validated in the bundle cannot match, and a used one cannot
match again. `SponsorSpec` is the sponsorship as a specification of its own: the
shared steps, with any snapshot that saves the shared state. `SponsorshipSound`
proves of it `GrantsApproved`, `OneGrantPerReading`, `OneOpPerSenderPerBundle` and
`ExposureBounded`. For the last one, a grant costs at most the prefund, so what has
left the deposit is at most the prefund times the number of grants; and the map
from a grant to its approval is injective, because two grants on one reading are
one. `VerifyingSponsors`: the verifying paymaster implements `SponsorSpec`, hence
`VerifyingTypeCorrect`, `AlwaysApproved`, `ReadingsUsedOnce`, `SendersOnceInBundle`
and `ExposureLimited`. The token, NFT and multi-token
paymasters implement `SponsorSpec` too (`TokenSponsors`, `NFTSponsors`,
`MultiTokenSponsors`): what they add to a step leaves the shared variables alone,
and a postOp that fails twice is one more way to `failedOp`. So the four invariants,
which the run `verifying_paymaster` checks, hold of them as well
(`TokenSponsorshipSound`, `NFTSponsorshipSound`, `MultiTokenSponsorshipSound`). The
solver paymasters sign an intent and not getHash, and are no instance of it.

**TokenPaymasterProofs.** `TypeCorrect`, `ChargesOwnSender`: while operations are
validated no balance moves (`Frozen`), and a sender whose turn has not come has
what it had at the start (`KeptUntilTurn`), in the running state and in the one a
failing call goes back to. `FeesWorthGas`: the step that settles an operation takes
the gas from the deposit and collects a fee, which is worth that gas but for the
gas of postOp and less than one token of rounding, at the price of the cheapest
fee logic; no other step but withdrawTokens takes from the paymaster. Inside a
bundle the prefunds of the operations that are not settled are out of the deposit
too, so the inductive form (`FeesInv`) subtracts them, and states it of the saved
state as well.

**NFTPaymasterProofs.** `TypeCorrect`, `NeverBeyondLimits`, `ReservationHolds`: the
invariant adds that use is below the highest limits (`Quotas`), that what the
transaction started from does not change while operations are validated
(`Frozen`), that every validated operation had a quota then (`EligibleAtStart`),
and that a sender whose turn has not come has the quota of the start unless
somebody called applyLogic in this transaction (`Untouched`, `Counter`), for which
a sender must have one operation in the bundle only: `SponsorInv` again.
`ReservationHolds` is about a step: with the same NFT, the same limits, no such
call and an NFT still held, the operation whose turn it is does not revert the
bundle. `EveryOpCounted`: settling an operation and counting it are one step, and
both sums go back together.

**MultiTokenPaymasterProofs.** `MultiTokenSponsors`, `MultiTokenSponsorshipSound`
(see above; `OneGrantPerReading` is the property that its run checks) and
`TypeCorrect`.

**P256SmartAccountProofs.** `NeverTwice`, `KeyOfTheStart`, `OnlyOwnOperations`: the
invariant says that an operation that was executed, or waits for its turn, is
behind the nonce at the EntryPoint it was signed for, and waits once (`Once`);
that keys do not change while a bundle is validated (`Signed`, `Still`); and that
whatever a failing call would give back to other accounts they still have
(`Untouched`), without which a revert could change somebody else's guardians.
`TypeCorrect`: the types hold in the running state and in the two it may go back
to, and while an account executes a call its EntryPoint is one of the
EntryPoints (`Typed`), so that addDeposit and withdrawDepositTo have a deposit to
act on. `LossLimited`: each operation of the bundle is charged with what it may
have cost so far, namely the prefund once it is validated, each payment once its
call was made and the whole outlay when it is over. `Covered` says that no account
has lost more than its charges, and that in the state a failing call goes back to
it has not lost more than the charges without the calls made since. `LossBounded`
alone is not inductive: it would let the first operation of an account use up
the outlay of the second.

**PasskeyClientProofs.** `NothingUnsigned`, `CompletedRunsAccepted`,
`NoTipPaid`: the invariant says what is known of an operation at each await
(`Building`) and once it is sent. The two nonces are read at different awaits,
so the step that matters is that the paymaster's nonce never moves without the
account's: an operation whose approval is void has a nonce that is behind as
well. `TypeCorrect` adds the types of what was read and filled in at each await.

Only model-checked:

* `EveryRunEnds`, `DepositArrives`: liveness;
* `Deployment`: its scripts are fixed sequences of instructions, which TLC goes
  through completely; only the numbers of attempts and faults are bounds;
* `P256Verifier`: the steps of its argument are identities of modular arithmetic
  and the associativity of the group law, which no prover here finds. The run
  shows it for one small curve; the formulas do not mention the field's size, but
  nothing extends the result to the 256-bit field.

## 5. Not modelled

* Cryptography: outside `P256Verifier`, signatures, hashes and CREATE2 addresses
  are taken to be what they are meant to be. The hash of an operation covers the
  fields that `pack` encodes, represented by those the properties tell apart.
* Gas, other than as an amount that is paid; a call may always fail where
  foreign code runs.
* Upgrades change the implementation slot; the model keeps the behaviour of the
  code in the repository.
* A bundle at one EntryPoint inside a bundle at another, which accounts allow
  after the registry has named both; two deployments of one account that race
  in initCode.
* Stakes, aggregators and nonce keys of the EntryPoint; events.
* Widths: amounts are unbounded naturals. Solidity 0.8 reverts on overflow, and
  no sum in the modelled contracts can reach 2^256 with real supplies.
* Vault and solver composed over two chains: the solver paymasters accept no
  operation (`solver_signature`), so there is no payment to match with a claim.
* `SmartAccount` (EOA owner) and its factory: owner and EntryPoint are written
  once, so nothing can be stale between validation and execution, which is what
  the passkey account is modelled for.
* `MultichainPasskeyValidator`: stateless; what it promises is that hashes and
  Merkle proofs are injective, which a model can only assume.
* `P256V` and `P256VerifierYul` as wrappers, the arithmetic in Yul (Montgomery form
  with constants for one field, which a small instance cannot share), and
  `SECP256R1.verify`, which no contract calls.
* The fee logics on Uniswap and for test networks: the quote of the pool is
  external. `TokenPaymaster` allows any price, scale and markup in the formula
  of `EnclaveFeeLogicMainnet`, and changes of them, but no other formula.
  `mulDiv` of `CustomFullMath` is arithmetic on 512 bits with an iteration count
  for that width.
* `Base64URL`, test tokens, and the scripts that send no transaction.
* Behaviour that is in the models, or follows from reading the code, and about
  which nothing is stated: tokens sent to the vault without deposit stay there;
  withdrawTokens of the token paymaster pays out the current token only; a
  single fee may be rounded down to zero (`FeesCoverGas` bounds what that
  costs); the hash of the solver paymaster V1 covers the sender only; a rerun of
  `fakeUSDC.ts` mints again.
* `deploymentOrder.txt` (lines 13 and 14) lists a deposit for the token paymaster
  that `3-paymasters.ts` does not make. It is a note on what to run, and no
  property is stated of it.
