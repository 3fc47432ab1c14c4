--------------------------- MODULE P256SmartAccount ---------------------------
(***************************************************************************)
(* P256SmartAccount, the passkey account, with its factory and the         *)
(* EnclaveRegistry that tells it which EntryPoint and which signature      *)
(* verifier to trust.  The accounts pay for their own gas.                 *)
(*                                                                         *)
(* The address of an account is what CREATE2 makes of the arguments of     *)
(* createAccount: here it is the pair <<pubkey, salt>> itself.             *)
(*                                                                         *)
(* An operation is a record with the fields sender, nonce, initCode (is    *)
(* there one), calls (what execute or executeBatch will call) and, for the *)
(* signature, signedBy (the key) and signedFor (the EntryPoint in the      *)
(* userOpHash that was signed).                                            *)
(*                                                                         *)
(* The calls of a batch are steps.  Between a step that sends ether and    *)
(* the next one the receiver runs: it may do what anybody may do outside a *)
(* transaction, and it may revert.                                         *)
(***************************************************************************)
EXTENDS EntryPoint, FiniteSetsExt, Functions

CONSTANTS
    Keys,        \* P-256 public keys
    Salts,
    Guardians,   \* addresses that may become guardians
    MaxEth       \* bound on the wealth up to which an account is given ether

Accounts == Keys \X Salts
Null == "null"

ASSUME AccountsAssumption ==
    /\ Senders \subseteq Accounts
    /\ Payers = Accounts
    /\ Null \notin Keys \union EntryPoints \union Guardians
    /\ IsFiniteSet(EntryPoints)

\* The calls of an operation are a sequence, and calldata is decoded to the types
\* of the parameters.
ASSUME CallsAssumption ==
    \A op \in Ops :
        /\ Len(op.calls) \in Nat /\ DOMAIN op.calls = 1..Len(op.calls)
        /\ \A i \in DOMAIN op.calls :
              LET fn == op.calls[i].fn
                  arg == op.calls[i].arg
              IN  /\ fn \in {"addGuardian", "removeGuardian"} => arg \in Guardians \union {Null}
                  /\ fn = "transferOwnership" => arg \in Keys
                  /\ fn \in {"withdrawDepositTo", "addDeposit", "pay"} => arg \in Nat

VARIABLES
    deployed,         \* accounts whose proxy has code
    pubKey,           \* pubKey[account]
    isGuardian,       \* isGuardian[account]: the addresses mapped to true
    guardians,        \* guardians[account], the array
    implementation,   \* the ERC-1967 implementation slot
    eth,              \* ether balance
    registry,         \* EnclaveRegistry: name -> address
    pc,               \* the call of the batch that runs next, 0 outside execute
    inner             \* the state before the operation's call

acct == <<deployed, pubKey, isGuardian, guardians, implementation, eth, registry>>
run == <<pc, inner>>
vars == <<book, frame, saved, acct, run>>

Snapshot ==
    [nonce |-> nonce, deposit |-> deposit, executed |-> executed,
     deployed |-> deployed, pubKey |-> pubKey, isGuardian |-> isGuardian,
     guardians |-> guardians, implementation |-> implementation, eth |-> eth,
     registry |-> registry]

RestoreAccounts(s) ==
    /\ deployed' = s.deployed
    /\ pubKey' = s.pubKey
    /\ isGuardian' = s.isGuardian
    /\ guardians' = s.guardians
    /\ implementation' = s.implementation
    /\ eth' = s.eth
    /\ registry' = s.registry

Init ==
    /\ EPInit
    /\ deployed = {}
    /\ pubKey = [a \in Accounts |-> Null]
    /\ isGuardian = [a \in Accounts |-> {}]
    /\ guardians = [a \in Accounts |-> <<>>]
    /\ implementation = [a \in Accounts |-> Null]
    /\ eth = [a \in Accounts |-> 0]
    /\ registry = [name \in {"entryPoint", "p256Verifier"} |-> Null]
    /\ pc = 0
    /\ inner = NoSnapshot

\* The last call of the batch sent ether, itself or through the EntryPoint's
\* withdrawTo, and the receiver has not returned yet.
ReceiverRuns ==
    /\ phase = "execute"
    /\ pc - 1 \in DOMAIN Op.calls
    /\ Op.calls[pc - 1].fn \in {"pay", "withdrawDepositTo"}

\* Code of other contracts may run: between transactions, or because the
\* account of the running operation has called out.
Outside == phase = "idle" \/ ReceiverRuns

-----------------------------------------------------------------------------
(* EnclaveRegistry.                                                        *)

\* Only the registry's owner; the zero address is refused.
updateRegistryAddress(name, address) ==
    /\ Outside
    /\ address # Null
    /\ registry' = [registry EXCEPT ![name] = address]
    /\ UNCHANGED <<book, frame, saved, run, deployed, pubKey, isGuardian, guardians,
                   implementation, eth>>

\* getRegistryAddress reverts for a missing entry: no address is equal to it.
entryPoint == registry["entryPoint"]

requireFromEntryPoint == entryPoint = ep

-----------------------------------------------------------------------------
(* P256SmartAccountFactory and initialize.                                 *)

\* A factory that initializes the account again.
InitializedAnew(a) == [pubKey EXCEPT ![a] = a[1]]

\* The keys after createAccount: an account that has code is only returned.
Initialized(a) == IF a \in deployed THEN pubKey ELSE [pubKey EXCEPT ![a] = a[1]]

Deploy(a) ==
    /\ deployed' = deployed \union {a}
    /\ pubKey' = Initialized(a)
    /\ implementation' =
          IF a \in deployed THEN implementation
          ELSE [implementation EXCEPT ![a] = "accountImplementation"]

createAccount(a) ==
    /\ Outside
    /\ Deploy(a)
    /\ UNCHANGED <<book, frame, saved, run, isGuardian, guardians, eth, registry>>

-----------------------------------------------------------------------------
(* Validation.                                                             *)

\* Verification with the account's key by whatever contract the registry
\* names; the hash that is signed names the operation and the EntryPoint.
verifySignature(key, signer) == registry["p256Verifier"] # Null /\ signer = key

\* A signature over a hash that leaves the EntryPoint out.
validateSignatureAnywhere(op) == verifySignature(Initialized(op.sender)[op.sender], op.signedBy)

\* A signature that is checked against the key the account was created with.
validateSignatureByCreator(op) ==
    /\ verifySignature(op.sender[1], op.signedBy)
    /\ op.signedFor = ep

validateSignature(op) ==
    /\ verifySignature(Initialized(op.sender)[op.sender], op.signedBy)
    /\ op.signedFor = ep

\* _payPrefund sends what the deposit lacks; the transfer's failure is ignored.
Prefund(a) ==
    LET missing == Max({0, RequiredPreFund - deposit[ep][a]})
    IN  IF eth[a] >= missing THEN missing ELSE 0

PaidIn(a) == [deposit EXCEPT ![ep][a] = @ + Prefund(a)]

Valid(op) ==
    /\ op.initCode <=> op.sender \notin deployed
    /\ requireFromEntryPoint
    /\ validateSignature(op)
    /\ NonceFits
    /\ PaidIn(op.sender)[ep][op.sender] >= RequiredPreFund

validateUserOp ==
    /\ phase = "validate"
    /\ Valid(Op)
    /\ Deploy(Op.sender)
    /\ eth' = [eth EXCEPT ![Op.sender] = @ - Prefund(Op.sender)]
    /\ validatePrepayment(PaidIn(Op.sender), Op.sender)
    /\ UNCHANGED <<isGuardian, guardians, registry, run>>

validationFails ==
    /\ phase = "validate"
    /\ ~Valid(Op)
    /\ RevertBundle
    /\ RestoreAccounts(saved)
    /\ UNCHANGED run

submitBundle(e, ops) ==
    /\ handleOps(e, ops, Snapshot)
    /\ UNCHANGED <<acct, run>>

-----------------------------------------------------------------------------
(* Execution: execute and executeBatch, one call at a time.                *)

\* The EntryPoint calls the account, which checks whom it is called by.
executeBegins ==
    /\ phase = "execute"
    /\ pc = 0
    /\ requireFromEntryPoint
    /\ pc' = 1
    /\ inner' = Snapshot
    /\ UNCHANGED <<book, frame, saved, acct>>

\* It refuses a call of an EntryPoint the registry no longer names.
executeRefused ==
    /\ phase = "execute"
    /\ pc = 0
    /\ ~requireFromEntryPoint
    /\ \E cost \in GasCosts : settle(deposit, Op.sender, cost)
    /\ UNCHANGED <<acct, run>>

Calling(fn) ==
    /\ phase = "execute"
    /\ pc \in DOMAIN Op.calls
    /\ Op.calls[pc].fn = fn

Arg == Op.calls[pc].arg

\* The call succeeded, and the batch goes on.
Returned ==
    /\ pc' = pc + 1
    /\ UNCHANGED <<nonce, executed, frame, saved, inner, deployed, registry>>

addGuardian ==
    /\ Calling("addGuardian")
    /\ Arg # Null
    /\ Arg \notin isGuardian[Op.sender]
    /\ isGuardian' = [isGuardian EXCEPT ![Op.sender] = @ \union {Arg}]
    /\ Returned
    /\ UNCHANGED <<deposit, pubKey, guardians, implementation, eth>>

\* The array without g: the last element takes the place of the first match.
Dropped(s, g) ==
    IF g \notin {s[i] : i \in DOMAIN s} THEN s
    ELSE LET first == Min({i \in DOMAIN s : s[i] = g})
         IN  SubSeq([s EXCEPT ![first] = s[Len(s)]], 1, Len(s) - 1)

removeGuardian ==
    /\ Calling("removeGuardian")
    /\ Arg \in isGuardian[Op.sender]
    /\ isGuardian' = [isGuardian EXCEPT ![Op.sender] = @ \ {Arg}]
    /\ guardians' = [guardians EXCEPT ![Op.sender] = Dropped(@, Arg)]
    /\ Returned
    /\ UNCHANGED <<deposit, pubKey, implementation, eth>>

transferOwnership ==
    /\ Calling("transferOwnership")
    /\ pubKey' = [pubKey EXCEPT ![Op.sender] = Arg]
    /\ Returned
    /\ UNCHANGED <<deposit, isGuardian, guardians, implementation, eth>>

upgradeTo ==
    /\ Calling("upgradeTo")
    /\ implementation' = [implementation EXCEPT ![Op.sender] = Arg]
    /\ Returned
    /\ UNCHANGED <<deposit, pubKey, isGuardian, guardians, eth>>

\* withdrawDepositTo that does not check the balance.
withdrawDepositToUnchecked ==
    /\ Calling("withdrawDepositTo")
    /\ deposit' = [deposit EXCEPT ![entryPoint][Op.sender] = @ - Arg]
    /\ Returned
    /\ UNCHANGED <<pubKey, isGuardian, guardians, implementation, eth>>

\* The EntryPoint, the one the registry names now, lowers the deposit and then
\* sends the ether.
withdrawDepositTo ==
    /\ Calling("withdrawDepositTo")
    /\ deposit[entryPoint][Op.sender] >= Arg
    /\ deposit' = [deposit EXCEPT ![entryPoint][Op.sender] = @ - Arg]
    /\ Returned
    /\ UNCHANGED <<pubKey, isGuardian, guardians, implementation, eth>>

\* addDeposit that credits somebody else.
addOwnDepositLost ==
    /\ Calling("addDeposit")
    /\ eth[Op.sender] >= Arg
    /\ eth' = [eth EXCEPT ![Op.sender] = @ - Arg]
    /\ Returned
    /\ UNCHANGED <<deposit, pubKey, isGuardian, guardians, implementation>>

\* addDeposit with value, called on itself by the account.
addOwnDeposit ==
    /\ Calling("addDeposit")
    /\ eth[Op.sender] >= Arg
    /\ eth' = [eth EXCEPT ![Op.sender] = @ - Arg]
    /\ deposit' = [deposit EXCEPT ![entryPoint][Op.sender] = @ + Arg]
    /\ Returned
    /\ UNCHANGED <<pubKey, isGuardian, guardians, implementation>>

\* A call of another contract that takes ether along.
pay ==
    /\ Calling("pay")
    /\ eth[Op.sender] >= Arg
    /\ eth' = [eth EXCEPT ![Op.sender] = @ - Arg]
    /\ Returned
    /\ UNCHANGED <<deposit, pubKey, isGuardian, guardians, implementation>>

\* A call fails: its own requirement is not met, or the receiver of the ether it
\* sent reverts.
CallFails ==
    \/ Calling("addGuardian") /\ Arg \in isGuardian[Op.sender] \union {Null}
    \/ Calling("removeGuardian") /\ Arg \notin isGuardian[Op.sender]
    \/ Calling("withdrawDepositTo") /\ deposit[entryPoint][Op.sender] < Arg
    \/ Calling("addDeposit") /\ eth[Op.sender] < Arg
    \/ Calling("pay") /\ eth[Op.sender] < Arg
    \/ ReceiverRuns

\* _call passes the failure on, so the calls before it are undone as well.
executeReverts ==
    /\ CallFails
    /\ RestoreAccounts(inner)
    /\ \E cost \in GasCosts : settle(inner.deposit, Op.sender, cost)
    /\ pc' = 0
    /\ inner' = NoSnapshot

executeReturns ==
    /\ phase = "execute"
    /\ pc = Len(Op.calls) + 1
    /\ \E cost \in GasCosts : settle(deposit, Op.sender, cost)
    /\ pc' = 0
    /\ inner' = NoSnapshot
    /\ UNCHANGED acct

-----------------------------------------------------------------------------
(* Calls by others.                                                        *)

\* What the account owns: its ether and its deposits.
Wealth(s, a) == s.eth[a] + SumFunction([e \in EntryPoints |-> s.deposit[e][a]])

guardianTransfersOwnership(g, a, key) ==
    /\ Outside
    /\ g \in isGuardian[a]
    /\ pubKey' = [pubKey EXCEPT ![a] = key]
    /\ UNCHANGED <<book, frame, saved, run, deployed, isGuardian, guardians,
                   implementation, eth, registry>>

receiveEther(a) ==
    /\ Outside
    /\ Wealth(Snapshot, a) < MaxEth
    /\ eth' = [eth EXCEPT ![a] = @ + 1]
    /\ UNCHANGED <<book, frame, saved, run, deployed, pubKey, isGuardian, guardians,
                   implementation, registry>>

addDeposit(a) ==
    /\ Outside
    /\ a \in deployed
    /\ entryPoint # Null
    /\ Wealth(Snapshot, a) < MaxEth
    /\ deposit' = [deposit EXCEPT ![entryPoint][a] = @ + 1]
    /\ UNCHANGED <<nonce, executed, frame, saved, run, acct>>

Next ==
    \/ \E e \in EntryPoints : updateRegistryAddress("entryPoint", e)
    \/ updateRegistryAddress("p256Verifier", "P256V")
    \/ \E a \in Accounts :
          \/ createAccount(a)
          \/ receiveEther(a)
          \/ addDeposit(a)
          \/ \E g \in Guardians, key \in Keys : guardianTransfersOwnership(g, a, key)
    \/ \E e \in EntryPoints, ops \in Bundles : submitBundle(e, ops)
    \/ validateUserOp \/ validationFails
    \/ executeBegins \/ executeRefused \/ executeReverts \/ executeReturns
    \/ addGuardian \/ removeGuardian \/ transferOwnership \/ upgradeTo
    \/ withdrawDepositTo \/ addOwnDeposit \/ pay

Spec == Init /\ [][Next]_vars

-----------------------------------------------------------------------------
(* Properties.                                                             *)

StateType(s) ==
    /\ s.nonce \in [EntryPoints -> [Senders -> Nat]]
    /\ s.deposit \in [EntryPoints -> [Accounts -> Nat]]
    /\ s.executed \in [Ops -> Nat]
    /\ s.deployed \subseteq Accounts
    /\ s.pubKey \in [Accounts -> Keys \union {Null}]
    /\ s.isGuardian \in [Accounts -> SUBSET Guardians]
    /\ s.guardians \in [Accounts -> Seq(Guardians)]
    /\ s.eth \in [Accounts -> Nat]
    /\ s.registry["entryPoint"] \in EntryPoints \union {Null}

\* Every variable has its type, no balance is overdrawn, and a snapshot is held
\* exactly while a transaction, or a call in it, may still revert to it.
TypeOK ==
    /\ StateType(Snapshot)
    /\ phase \in {"idle", "validate", "execute"}
    /\ ep \in EntryPoints
    /\ phase # "idle" => at \in DOMAIN bundle /\ StateType(saved)
    /\ IF pc = 0 THEN inner = NoSnapshot
       ELSE /\ phase = "execute"
            /\ pc \in 1..(Len(Op.calls) + 1)
            /\ StateType(inner)

\* No signed operation is executed twice: not by another bundle, not after the
\* account was moved to another EntryPoint and back, not after a reverted
\* transaction.
AtMostOnce == \A op \in Ops : executed[op] <= 1

\* What is executed in a transaction was signed with the key its account had
\* when the transaction started, or was created with in it.  A key that an
\* operation of the bundle sets has no say before the next transaction, and the
\* key it replaces is good for the rest of the bundle.
SignedByKeyAtStart ==
    phase = "execute" =>
        \A i \in DOMAIN bundle :
            LET a == bundle[i].sender
            IN  bundle[i].signedBy = IF a \in saved.deployed THEN saved.pubKey[a] ELSE a[1]

\* The guardians, the code and, without a guardian, the key of an account with
\* code change in its own operations only; creating it again, other accounts'
\* operations and reverts leave them alone.
ControlChangesAuthorised ==
    [][\A a \in deployed \intersect deployed' :
          \/ phase = "execute" /\ Op.sender = a
          \/ /\ isGuardian'[a] = isGuardian[a]
             /\ implementation'[a] = implementation[a]
             /\ isGuardian[a] = {} => pubKey'[a] = pubKey[a]]_vars

\* The most an operation may cost its account: the gas, and what it pays out.
PaidOut(call) == IF call.fn \in {"pay", "withdrawDepositTo"} THEN call.arg ELSE 0

Outlay(op) ==
    RequiredPreFund + SumFunction([i \in DOMAIN op.calls |-> PaidOut(op.calls[i])])

\* A transaction takes from an account (its ether and its deposits at all
\* EntryPoints) no more than the outlays of that account's operations in the
\* bundle; an account without one loses nothing.
LossBounded ==
    phase # "idle" =>
        \A a \in Accounts :
            Wealth(Snapshot, a) >= Wealth(saved, a)
              - SumFunction([i \in DOMAIN bundle |->
                               IF bundle[i].sender = a THEN Outlay(bundle[i]) ELSE 0])

-----------------------------------------------------------------------------
(* What comments and tests say.                                            *)

getGuardianCount(a) == Len(guardians[a])

\* "Returns the number of guardians for this account."
GuardiansCounted ==
    \A a \in Accounts : getGuardianCount(a) = Cardinality(isGuardian[a])

=============================================================================
