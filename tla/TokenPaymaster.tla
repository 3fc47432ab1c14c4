--------------------------- MODULE TokenPaymaster ---------------------------
(***************************************************************************)
(* EnclaveVerifyingTokenPaymaster: the paymaster pays the gas and takes a  *)
(* fee in tokens from the sender when the operation is over.               *)
(*                                                                         *)
(* The EntryPoint calls postOp in the frame of the operation's call.  If   *)
(* postOp reverts, the call is undone and postOp called once more; if that *)
(* reverts too, the whole bundle does.                                     *)
(*                                                                         *)
(* The callData of an operation is a pair <<what, token>>: "spend" the     *)
(* balance, "approve" the paymaster, "revoke" that, "fail", or anything    *)
(* else.  A fee logic is EnclaveFeeLogicMainnet with the answer of its     *)
(* price feed, the scale of that answer and the markup denominator: the    *)
(* scale is far above the price, so a fee is a small number of tokens and  *)
(* may be none.                                                            *)
(*                                                                         *)
(* The clock stands still: the validity window is checked as it is in      *)
(* VerifyingPaymaster, and has no bearing on the fees.                     *)
(***************************************************************************)
EXTENDS Sponsorship, Functions

CONSTANTS
    Tokens,      \* ERC20 contracts
    FeeLogics,   \* fee contracts the owner may choose
    MaxTokens,   \* bound on the tokens a sender holds, and on an allowance
    PostOpGas    \* the most a call of postOp costs itself

Elsewhere == "elsewhere"
Holders == Senders \union {Paymaster, Elsewhere}

ASSUME TokensAssumption ==
    /\ IsFiniteSet(Tokens)   \* addresses
    /\ FeeLogics \subseteq [price : Nat, scale : Nat \ {0}, markupDenominator : Nat]
    /\ MaxTokens \in Nat
    /\ PostOpGas \in Nat
    /\ {Paymaster, Elsewhere} \intersect Senders = {}

VARIABLES
    paymentToken,
    feeLogic,
    wallet,      \* wallet.balance[token][holder], wallet.allowance[token][sender]
    withdrawn    \* history: tokens taken out by withdrawTokens

tokenState == <<paymentToken, feeLogic, wallet, withdrawn>>
vars == <<book, frame, saved, pmState, offChain, tokenState>>

Snapshot ==
    [nonce |-> nonce, deposit |-> deposit, executed |-> executed,
     senderNonce |-> senderNonce, granted |-> granted, funded |-> funded,
     paymentToken |-> paymentToken, feeLogic |-> feeLogic, wallet |-> wallet,
     withdrawn |-> withdrawn]

Init ==
    /\ SponsorInit
    /\ paymentToken \in Tokens
    /\ feeLogic \in FeeLogics
    /\ \E a \in {0, MaxTokens} :
          wallet = [balance |-> [t \in Tokens |-> [h \in Holders |-> 0]],
                    allowance |-> [t \in Tokens |-> [s \in Senders |-> a]]]
    /\ withdrawn = 0

-----------------------------------------------------------------------------
(* Tokens.                                                                 *)

Transferred(w, t, from, to, amount) ==
    [w EXCEPT !.balance[t][from] = @ - amount, !.balance[t][to] = @ + amount]

\* The tokens after the operation's own call; a call that fails changes nothing.
AfterCall(op, w) ==
    LET what == op.callData[1]
        t == op.callData[2]
    IN  CASE what = "spend" ->
               Transferred(w, t, op.sender, Elsewhere, w.balance[t][op.sender])
          [] what = "approve" -> [w EXCEPT !.allowance[t][op.sender] = MaxTokens]
          [] what = "revoke" -> [w EXCEPT !.allowance[t][op.sender] = 0]
          [] OTHER -> w

-----------------------------------------------------------------------------
(* The contract.                                                           *)

\* Division rounds down, and by zero it reverts.
calculateFee(gas) ==
    LET cost == (gas * feeLogic.price) \div feeLogic.scale
    IN  cost + cost \div feeLogic.markupDenominator

\* A transfer that needs no allowance.
CollectsUnallowed(w, s, gas) ==
    /\ feeLogic.markupDenominator # 0
    /\ w.balance[paymentToken][s] >= calculateFee(gas)

\* postOp does not revert: there is a fee, and the transfer succeeds.
Collects(w, s, gas) ==
    /\ feeLogic.markupDenominator # 0
    /\ w.balance[paymentToken][s] >= calculateFee(gas)
    /\ w.allowance[paymentToken][s] >= calculateFee(gas)

\* The transfer's result is ignored and nothing moves.
ChargedNothing(w, s, gas) == w

\* The sender is remembered in one place for all operations of the bundle.
ChargedLastValidated(w, s, gas) ==
    Transferred(w, paymentToken, bundle[Len(bundle)].sender, Paymaster, calculateFee(gas))

Charged(w, s, gas) ==
    LET fee == calculateFee(gas)
    IN  [Transferred(w, paymentToken, s, Paymaster, fee) EXCEPT
            !.allowance[paymentToken][s] = @ - fee]

validatePaymasterUserOp ==
    /\ grant
    /\ UNCHANGED tokenState

revertTransaction ==
    /\ failedOp
    /\ paymentToken' = saved.paymentToken
    /\ feeLogic' = saved.feeLogic
    /\ wallet' = saved.wallet
    /\ withdrawn' = saved.withdrawn

validationFails ==
    /\ phase = "validate"
    /\ ~Valid(Op)
    /\ revertTransaction

\* What the EntryPoint may take from the deposit when it told postOp a gas cost:
\* the cost of that call of postOp comes on top.
Billed(gas) == {cost \in GasCosts : gas <= cost /\ cost <= gas + PostOpGas}

\* The call is executed and postOp collects the fee.
postOp(gas) ==
    /\ phase = "execute"
    /\ Collects(AfterCall(Op, wallet), Op.sender, gas)
    /\ wallet' = Charged(AfterCall(Op, wallet), Op.sender, gas)
    /\ \E cost \in Billed(gas) : payGas(cost)
    /\ UNCHANGED <<paymentToken, feeLogic, withdrawn>>

\* It does not, the call is undone, and postOp collects a fee for more gas.
postOpReverted(gas, more) ==
    /\ phase = "execute"
    /\ ~Collects(AfterCall(Op, wallet), Op.sender, gas)
    /\ more >= gas
    /\ Collects(wallet, Op.sender, more)
    /\ wallet' = Charged(wallet, Op.sender, more)
    /\ \E cost \in Billed(more) : payGas(cost)
    /\ UNCHANGED <<paymentToken, feeLogic, withdrawn>>

postOpRevertsAgain(gas, more) ==
    /\ phase = "execute"
    /\ ~Collects(AfterCall(Op, wallet), Op.sender, gas)
    /\ more >= gas
    /\ ~Collects(wallet, Op.sender, more)
    /\ revertTransaction

\* The owner, and for withdrawTokens the signer, act in transactions of their
\* own or from an operation that is being executed.
updateFeeLogic(f) ==
    /\ phase # "validate"
    /\ feeLogic' = f
    /\ UNCHANGED <<book, frame, saved, pmState, offChain, paymentToken, wallet, withdrawn>>

updatePaymentToken(t) ==
    /\ phase # "validate"
    /\ paymentToken' = t
    /\ UNCHANGED <<book, frame, saved, pmState, offChain, feeLogic, wallet, withdrawn>>

withdrawTokens(amount) ==
    /\ phase # "validate"
    /\ wallet.balance[paymentToken][Paymaster] >= amount
    /\ wallet' = Transferred(wallet, paymentToken, Paymaster, Elsewhere, amount)
    /\ withdrawn' = withdrawn + amount
    /\ UNCHANGED <<book, frame, saved, pmState, offChain, paymentToken, feeLogic>>

-----------------------------------------------------------------------------
(* The environment.                                                        *)

approvalSigned(op) == signApproval(op) /\ UNCHANGED tokenState

bundleSubmitted(e, ops) == submitBundle(e, ops, Snapshot) /\ UNCHANGED tokenState

depositFunded(e, amount) == fundDeposit(e, amount) /\ UNCHANGED tokenState

\* A sender without tokens is given some.
receiveTokens(t, s) ==
    /\ phase = "idle"
    /\ wallet.balance[t][s] = 0
    /\ wallet' = [wallet EXCEPT !.balance[t][s] = MaxTokens]
    /\ UNCHANGED <<book, frame, saved, pmState, offChain, paymentToken, feeLogic, withdrawn>>

Next ==
    \/ \E op \in Ops : approvalSigned(op)
    \/ \E e \in EntryPoints, ops \in Bundles : bundleSubmitted(e, ops)
    \/ validatePaymasterUserOp
    \/ validationFails
    \/ \E gas \in GasCosts : postOp(gas)
    \/ \E gas, more \in GasCosts : postOpReverted(gas, more)
    \/ \E gas, more \in GasCosts : postOpRevertsAgain(gas, more)
    \/ \E f \in FeeLogics : updateFeeLogic(f)
    \/ \E t \in Tokens : updatePaymentToken(t)
    \/ \E amount \in 1..MaxTokens : withdrawTokens(amount)
    \/ \E e \in EntryPoints : depositFunded(e, 1)
    \/ \E t \in Tokens, s \in Senders : receiveTokens(t, s)

Spec == Init /\ [][Next]_vars

-----------------------------------------------------------------------------
(* Properties.                                                             *)

WalletType(w) ==
    /\ w.balance \in [Tokens -> [Holders -> Nat]]
    /\ w.allowance \in [Tokens -> [Senders -> Nat]]

\* Every variable has its type; no balance and no allowance is overdrawn.
TypeOK ==
    /\ SponsorTypeOK
    /\ paymentToken \in Tokens
    /\ feeLogic \in FeeLogics
    /\ WalletType(wallet)
    /\ withdrawn \in Nat
    /\ phase # "idle" =>
          /\ saved.paymentToken \in Tokens
          /\ saved.feeLogic \in FeeLogics
          /\ WalletType(saved.wallet)
          /\ saved.withdrawn \in Nat

\* What the paymaster received: the tokens it has and those withdrawn from it.
Received == withdrawn + SumFunction([t \in Tokens |-> wallet.balance[t][Paymaster]])

\* No fee contract the owner may choose asks less for the gas.
Cheapest(f) == \A g \in FeeLogics : f.price * g.scale <= g.price * f.scale

\* The fees are worth the gas.  Between transactions, what went from the deposit
\* for gas is paid for at the lowest price of the fee logics, but for the cost of
\* postOp itself and less than one token of rounding per executed operation:
\* whichever of the two calls of postOp took the fee, whatever the operation did
\* with its tokens, and also when token or fee logic changed after the validation.
FeesCoverGas ==
    phase = "idle" =>
        \A e \in EntryPoints, f \in FeeLogics :
            Cheapest(f) =>
                LET done == SumFunction(executed)
                    gas == (funded - deposit[e][Paymaster]) - PostOpGas * done
                IN  f.price * gas <= f.scale * (Received + done)

HadItsTurn(s) ==
    /\ phase = "execute"
    /\ \E i \in DOMAIN bundle : i < at /\ bundle[i].sender = s

\* A transaction takes tokens only from senders whose operation in the bundle
\* has had its turn: the fees of one operation never come from the sender of
\* another, although all are validated before the first is charged.
OthersKeepTokens ==
    phase # "idle" =>
        \A s \in Senders, t \in Tokens :
            wallet.balance[t][s] < saved.wallet.balance[t][s] => HadItsTurn(s)

=============================================================================
