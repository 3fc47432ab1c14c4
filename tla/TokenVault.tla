----------------------------- MODULE TokenVault -----------------------------
(***************************************************************************)
(* EnclaveTokenVaultV0: users deposit ERC20 tokens and withdraw them;      *)
(* vault managers (the solver) claim a user's credit to settle intents     *)
(* they paid for on another chain.                                         *)
(*                                                                         *)
(* The token is another contract: while its transfer or transferFrom runs  *)
(* control is outside the vault, and a token with transfer hooks hands it  *)
(* to arbitrary code that may call the vault again.  A guarded call        *)
(* (deposit, withdraw, claim) is therefore not one step: it opens a frame, *)
(* the token moves the balance, the call returns.  Between these steps any *)
(* unguarded operation may run.  A frame that fails is rolled back to the  *)
(* state in which it was opened.                                           *)
(*                                                                         *)
(* The vault takes any address for a token and believes what it returns.   *)
(* The tokens of Exact move the amount they are asked for or fail.  Of the *)
(* others nothing is known, so their books are not part of the state: such *)
(* a token may keep a fee or move nothing and still return true.           *)
(***************************************************************************)
EXTENDS Integers, Sequences

CONSTANTS
    Tokens,       \* the ERC20 contracts
    Exact,        \* those that move the amount they are asked for or fail
    N,            \* callers are the addresses 1..N; 0 is address(0)
    Supply,       \* every address starts with Supply of every exact token
    Amounts,      \* the amounts calls are made with
    MaxCredit     \* bound: the most credit an address deposits for

Users == 1..N
Addresses == 0..N

ASSUME ExactAssumption == Exact \subseteq Tokens
ASSUME NAssumption == N \in Nat \ {0}
ASSUME SupplyAssumption == Supply \in Nat
ASSUME AmountsAssumption == Amounts \subseteq Nat
ASSUME MaxCreditAssumption == MaxCredit \in Nat

VARIABLES
    deposits,         \* deposits[t][u]
    isVaultManager,   \* the addresses the mapping holds true for
    balance,          \* balanceOf of the exact tokens, for the addresses 1..N
    vaultBalance,     \* their balanceOf(address(this))
    allowance,        \* their allowance(u, address(this))
    calls             \* guarded calls in progress, outermost first

store == <<deposits, isVaultManager>>
token == <<balance, vaultBalance, allowance>>
vars == <<store, token, calls>>

\* The state a failing call is rolled back to.
State == [deposits       |-> deposits,
          isVaultManager |-> isVaultManager,
          balance        |-> balance,
          vaultBalance   |-> vaultBalance,
          allowance      |-> allowance]

\* The account that deploys the vault is its first manager.
Deployer == 1

Init ==
    /\ deposits = [t \in Tokens |-> [u \in Users |-> 0]]
    /\ isVaultManager = {Deployer}
    /\ balance = [t \in Exact |-> [u \in Users |-> Supply]]
    /\ vaultBalance = [t \in Exact |-> 0]
    /\ allowance = [t \in Exact |-> [u \in Users |-> 0]]
    /\ calls = <<>>

-----------------------------------------------------------------------------
(* Manager administration: neither function is guarded against reentry.    *)

onlyVaultManagerDropped(m) == TRUE

onlyVaultManager(m) == m \in isVaultManager

addVaultManager(m, new) ==
    /\ onlyVaultManager(m)
    /\ new # 0
    /\ new \notin isVaultManager
    /\ isVaultManager' = isVaultManager \union {new}
    /\ UNCHANGED <<deposits, token, calls>>

NotSelfDropped(m, old) == TRUE

NotSelf(m, old) == m # old

removeVaultManager(m, old) ==
    /\ onlyVaultManager(m)
    /\ old \in isVaultManager
    /\ NotSelf(m, old)
    /\ isVaultManager' = isVaultManager \ {old}
    /\ UNCHANGED <<deposits, token, calls>>

-----------------------------------------------------------------------------
(* The guarded functions, up to the call of the token contract.            *)

\* A guard that is forgotten: calls may nest.
nonReentrantDropped == Len(calls) < 2

\* OpenZeppelin's ReentrancyGuard: no guarded call is in progress.
nonReentrant == calls = <<>>

Frame(fn, caller, t, a) ==
    [fn |-> fn, caller |-> caller, tok |-> t, amount |-> a,
     at |-> "token", saved |-> State]

Open(f) == calls' = Append(calls, f)

Top == calls[Len(calls)]

Pop == SubSeq(calls, 1, Len(calls) - 1)

deposit(u, t, a) ==
    /\ nonReentrant
    /\ a > 0
    /\ deposits[t][u] + a <= MaxCredit
    /\ Open(Frame("deposit", u, t, a))
    /\ UNCHANGED <<store, token>>

SufficientCreditDropped(t, u, a) == t \in Exact /\ vaultBalance[t] >= a

SufficientCredit(t, u, a) == deposits[t][u] >= a

DebitedNothing(t, u, a) == deposits

\* The credit withdraw gives up before it calls the token.
Debited(t, u, a) == [deposits EXCEPT ![t][u] = @ - a]

withdraw(u, t, a) ==
    /\ nonReentrant
    /\ a > 0
    /\ SufficientCredit(t, u, a)
    /\ deposits' = Debited(t, u, a)
    /\ Open(Frame("withdraw", u, t, a))
    /\ UNCHANGED <<isVaultManager, token>>

\* owner is decoded from _proof, and nothing else is read from it.
claim(m, t, a, owner) ==
    /\ nonReentrant
    /\ onlyVaultManager(m)
    /\ a > 0
    /\ SufficientCredit(t, owner, a)
    /\ deposits' = Debited(t, owner, a)
    /\ Open(Frame("claim", m, t, a))
    /\ UNCHANGED <<isVaultManager, token>>

-----------------------------------------------------------------------------
(* What the token does, and how the guarded functions return.              *)

Moved == [calls EXCEPT ![Len(calls)].at = "return"]

\* transferFrom(caller, vault, amount) of an exact token, made by deposit.
TokenPulls ==
    /\ calls # <<>>
    /\ Top.fn = "deposit"
    /\ Top.at = "token"
    /\ Top.tok \in Exact
    /\ balance[Top.tok][Top.caller] >= Top.amount
    /\ allowance[Top.tok][Top.caller] >= Top.amount
    /\ balance' = [balance EXCEPT ![Top.tok][Top.caller] = @ - Top.amount]
    /\ allowance' = [allowance EXCEPT ![Top.tok][Top.caller] = @ - Top.amount]
    /\ vaultBalance' = [vaultBalance EXCEPT ![Top.tok] = @ + Top.amount]
    /\ calls' = Moved
    /\ UNCHANGED store

\* transfer(caller, amount) of an exact token, made by withdraw and by claim.
TokenPays ==
    /\ calls # <<>>
    /\ Top.fn \in {"withdraw", "claim"}
    /\ Top.at = "token"
    /\ Top.tok \in Exact
    /\ vaultBalance[Top.tok] >= Top.amount
    /\ balance' = [balance EXCEPT ![Top.tok][Top.caller] = @ + Top.amount]
    /\ vaultBalance' = [vaultBalance EXCEPT ![Top.tok] = @ - Top.amount]
    /\ calls' = Moved
    /\ UNCHANGED <<store, allowance>>

\* Another token returns true, whatever it did with its own books.
OtherTokenReturns ==
    /\ calls # <<>>
    /\ Top.at = "token"
    /\ Top.tok \notin Exact
    /\ calls' = Moved
    /\ UNCHANGED <<store, token>>

\* deposit credits the amount it asked for once transferFrom returned true.
depositReturns ==
    /\ calls # <<>>
    /\ Top.fn = "deposit"
    /\ Top.at = "return"
    /\ deposits' = [deposits EXCEPT ![Top.tok][Top.caller] = @ + Top.amount]
    /\ calls' = Pop
    /\ UNCHANGED <<isVaultManager, token>>

payoutReturns ==
    /\ calls # <<>>
    /\ Top.fn \in {"withdraw", "claim"}
    /\ Top.at = "return"
    /\ calls' = Pop
    /\ UNCHANGED <<store, token>>

\* The token reverted or returned false, a hook reverted, or gas ran out.
callReverts ==
    /\ calls # <<>>
    /\ deposits' = Top.saved.deposits
    /\ isVaultManager' = Top.saved.isVaultManager
    /\ balance' = Top.saved.balance
    /\ vaultBalance' = Top.saved.vaultBalance
    /\ allowance' = Top.saved.allowance
    /\ calls' = Pop

-----------------------------------------------------------------------------
(* Calls of the token contract that do not come from the vault.            *)

approve(u, t, a) ==
    /\ allowance' = [allowance EXCEPT ![t][u] = a]
    /\ UNCHANGED <<store, balance, vaultBalance, calls>>

transferToUser(u, v, t, a) ==
    /\ u # v
    /\ balance[t][u] >= a
    /\ balance' = [balance EXCEPT ![t][u] = @ - a, ![t][v] = @ + a]
    /\ UNCHANGED <<store, vaultBalance, allowance, calls>>

\* Tokens sent to the vault without deposit: no credit, and no way back.
transferToVault(u, t, a) ==
    /\ balance[t][u] >= a
    /\ balance' = [balance EXCEPT ![t][u] = @ - a]
    /\ vaultBalance' = [vaultBalance EXCEPT ![t] = @ + a]
    /\ UNCHANGED <<store, allowance, calls>>

Next ==
    \/ \E m \in Users, n \in Addresses : addVaultManager(m, n)
    \/ \E m \in Users, n \in Addresses : removeVaultManager(m, n)
    \/ \E u \in Users, t \in Tokens, a \in Amounts : deposit(u, t, a)
    \/ \E u \in Users, t \in Tokens, a \in Amounts : withdraw(u, t, a)
    \/ \E m, u \in Users, t \in Tokens, a \in Amounts : claim(m, t, a, u)
    \/ TokenPulls
    \/ TokenPays
    \/ OtherTokenReturns
    \/ depositReturns
    \/ payoutReturns
    \/ callReverts
    \/ \E u \in Users, t \in Exact, a \in Amounts : approve(u, t, a)
    \/ \E u, v \in Users, t \in Exact, a \in Amounts : transferToUser(u, v, t, a)
    \/ \E u \in Users, t \in Exact, a \in Amounts : transferToVault(u, t, a)

Spec == Init /\ [][Next]_vars

-----------------------------------------------------------------------------
(* Properties.                                                             *)

\* Every variable has its type, the rollback states of open calls included:
\* no credit, balance or allowance of the vault's ledger is ever negative.
StateType ==
    [deposits       : [Tokens -> [Users -> Nat]],
     isVaultManager : SUBSET Users,
     balance        : [Exact -> [Users -> Nat]],
     vaultBalance   : [Exact -> Nat],
     allowance      : [Exact -> [Users -> Nat]]]

FrameType ==
    [fn : {"deposit", "withdraw", "claim"}, caller : Users, tok : Tokens,
     amount : Nat \ {0}, at : {"token", "return"}, saved : StateType]

TypeOK ==
    /\ State \in StateType
    /\ calls \in Seq(FrameType)

\* s lays the credits c end to end: s[i] is what users 1..i are owed.
RunningTotal(s, c) ==
    /\ s[0] = 0
    /\ \A i \in Users : s[i] = s[i-1] + c[i]

Covered(c, b) == \E s \in [Addresses -> 0..b] : RunningTotal(s, c)

\* The vault can always pay everybody at once: in every token that moves exact
\* amounts the credits of all users together fit in the balance the vault holds,
\* whatever the other tokens do.  This includes the states inside deposit,
\* withdraw and claim in which a token hook runs.
Solvency == \A t \in Exact : Covered(deposits[t], vaultBalance[t])

\* The manager set never becomes empty, in whatever order managers remove one
\* another and from within whatever callback: removeVaultManager refuses the
\* caller itself, so credit can always be claimed by someone.
ManagerExists == isVaultManager # {}

\* Tokens of u that a call in progress has taken off one side of the ledger
\* and not yet put on the other.
InFlight(t, u) ==
    IF /\ calls # <<>>
       /\ Top.tok = t
       /\ Top.caller = u
       /\ \/ Top.fn = "deposit" /\ Top.at = "return"
          \/ Top.fn = "withdraw" /\ Top.at = "token"
    THEN Top.amount
    ELSE 0

Wealth(t, u) == balance[t][u] + deposits[t][u] + InFlight(t, u)

\* No step of anybody lowers what a user owns of an exact token in hand, in the
\* vault and in flight, except the user's own transfer, a claim by an address
\* that is a manager when it calls, and the rollback of a failed call.
WealthProtected ==
    [][\A t \in Exact, u \in Users :
          Wealth(t, u)' < Wealth(t, u) =>
             \/ \E v \in Users, a \in Amounts : transferToUser(u, v, t, a)
             \/ \E a \in Amounts : transferToVault(u, t, a)
             \/ \E m \in Users, a \in Amounts :
                   m \in isVaultManager /\ claim(m, t, a, u)
             \/ callReverts]_vars

\* The committed ledger: the state before the transaction while one runs.
Committed == IF calls = <<>> THEN State ELSE calls[1].saved

\* What it owes in exact tokens.
CommittedCredit == [t \in Exact |-> Committed.deposits[t]]

Ledger == INSTANCE VaultLedger
             WITH Tokens <- Exact,
                  credit <- CommittedCredit, reserve <- Committed.vaultBalance

\* Transactions commit one ledger movement each: with the guard a token hook
\* cannot nest a second deposit, withdraw or claim in a call in progress, a
\* reverted call leaves no trace, and a call that moves another token leaves the
\* ledger of the exact ones alone.
RefinesLedger == Ledger!LedgerSpec

=============================================================================
