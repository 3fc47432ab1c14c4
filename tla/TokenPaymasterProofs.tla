------------------------ MODULE TokenPaymasterProofs ------------------------
(***************************************************************************)
(* What TokenPaymaster guarantees, for any tokens, fee logics, operations  *)
(* and bundles.                                                            *)
(***************************************************************************)
EXTENDS TokenPaymaster, SponsorshipProofs

Balances == [Tokens -> [Holders -> Nat]]
Allowances == [Tokens -> [Senders -> Nat]]
Wallets == [balance : Balances, allowance : Allowances]

\* From w to v no sender but s loses tokens.
SparesOthers(w, v, s) ==
    \A t \in Tokens, u \in Senders : u # s => w.balance[t][u] <= v.balance[t][u]

-----------------------------------------------------------------------------
(* The operators.                                                          *)

\* Some entries of a table of balances move.
Moved(b, t, from, to, a) == [b EXCEPT ![t][from] = @ - a, ![t][to] = @ + a]

\* A transfer changes the two balances that it names and no other.
LEMMA MovedEffect ==
    ASSUME NEW b \in Balances, NEW t \in Tokens, NEW from \in Holders, NEW to \in Holders,
           from # to, NEW a \in Nat, a <= b[t][from]
    PROVE  /\ Moved(b, t, from, to, a) \in Balances
           /\ \A u \in Tokens, h \in Holders :
                 h # from => Moved(b, t, from, to, a)[u][h]
                               = b[u][h] + IF u = t /\ h = to THEN a ELSE 0
<1> DEFINE c == Moved(b, t, from, to, a)
           row == [h \in Holders |-> IF h = from THEN b[t][h] - a
                                     ELSE IF h = to THEN b[t][h] + a ELSE b[t][h]]
<1>1. b \in [Tokens -> [Holders -> Nat]] /\ b[t] \in [Holders -> Nat] /\ b[t][from] \in Nat
  BY DEF Balances
<1>2. row \in [Holders -> Nat]
  BY <1>1
<1>3. c = [b EXCEPT ![t] = row]
  <2>1. c = [b EXCEPT ![t] = [b[t] EXCEPT ![from] = b[t][from] - a, ![to] = b[t][to] + a]]
    BY <1>1, Zenon DEF Moved
  <2>2. [b[t] EXCEPT ![from] = b[t][from] - a, ![to] = b[t][to] + a] = row
    BY <1>1, Zenon
  <2> QED BY <2>1, <2>2, Zenon
<1> HIDE DEF c
<1>4. \A h \in Holders : h # from => row[h] = b[t][h] + IF h = to THEN a ELSE 0
  BY <1>1
<1> HIDE DEF row
<1>5. c \in Balances
  BY <1>1, <1>2, <1>3 DEF Balances
<1>6. \A u \in Tokens, h \in Holders :
         h # from => c[u][h] = b[u][h] + IF u = t /\ h = to THEN a ELSE 0
  <2> SUFFICES ASSUME NEW u \in Tokens, NEW h \in Holders, h # from
               PROVE  c[u][h] = b[u][h] + IF u = t /\ h = to THEN a ELSE 0
    OBVIOUS
  <2>1. CASE u = t
    BY <1>1, <1>3, <1>4, <2>1
  <2>2. CASE u # t
    <3>1. c[u] = b[u] /\ b[u][h] \in Nat
      BY <1>1, <1>3, <2>2
    <3> QED BY <2>2, <3>1
  <2> QED BY <2>1, <2>2
<1> QED BY <1>5, <1>6 DEF c

\* A transfer of a sender's tokens leaves the other senders theirs, and the
\* receiver has as much more.
LEMMA TransferredEffect ==
    ASSUME NEW w \in Wallets, NEW t \in Tokens, NEW from \in Holders, NEW to \in Holders,
           from # to, NEW a \in Nat, a <= w.balance[t][from]
    PROVE  LET v == Transferred(w, t, from, to, a)
           IN  /\ v \in Wallets
               /\ SparesOthers(w, v, from)
               /\ v.allowance = w.allowance
               /\ \A u \in Tokens, h \in Holders :
                     h # from => v.balance[u][h]
                                   = w.balance[u][h] + IF u = t /\ h = to THEN a ELSE 0
<1> DEFINE v == Transferred(w, t, from, to, a)
           c == Moved(w.balance, t, from, to, a)
<1>1. w.balance \in Balances
  BY DEF Wallets
<1>2. /\ c \in Balances
      /\ \A u \in Tokens, h \in Holders :
            h # from => c[u][h] = w.balance[u][h] + IF u = t /\ h = to THEN a ELSE 0
  BY <1>1, MovedEffect
<1>3. v = [w EXCEPT !.balance = c]
  BY Zenon DEF Transferred, Wallets, Moved
<1> HIDE DEF c, v
<1>4. v \in Wallets /\ v.balance = c /\ v.allowance = w.allowance
  BY <1>2, <1>3 DEF Wallets
<1>5. SparesOthers(w, v, from)
  <2> SUFFICES ASSUME NEW u \in Tokens, NEW h \in Senders, h # from
               PROVE  w.balance[u][h] <= v.balance[u][h]
    BY DEF SparesOthers
  <2>1. v.balance[u][h] = w.balance[u][h] + IF u = t /\ h = to THEN a ELSE 0
    BY <1>2, <1>4 DEF Holders
  <2>2. w.balance[u][h] \in Nat
    BY <1>1 DEF Balances, Holders
  <2> QED BY <2>1, <2>2
<1> QED BY <1>2, <1>4, <1>5 DEF v

\* A fee that can be computed is a number of tokens.
LEMMA FeeType ==
    ASSUME feeLogic \in FeeLogics, NEW gas \in Nat, feeLogic.markupDenominator # 0
    PROVE  calculateFee(gas) \in Nat
<1>1. /\ feeLogic.price \in Nat /\ feeLogic.scale \in Nat \ {0}
      /\ feeLogic.markupDenominator \in Nat \ {0}
  BY TokensAssumption
<1>2. \A x \in Nat, y \in Nat \ {0} : x \div y \in Nat
  OBVIOUS
<1> DEFINE product == gas * feeLogic.price
           cost == product \div feeLogic.scale
<1>3. product \in Nat
  BY <1>1
<1> HIDE DEF product
<1>4. cost \in Nat
  BY <1>1, <1>2, <1>3
<1> HIDE DEF cost
<1>5. cost + cost \div feeLogic.markupDenominator \in Nat
  BY <1>1, <1>2, <1>4
<1> QED BY <1>5 DEF calculateFee, cost, product

\* A quotient loses less than one divisor to rounding.
LEMMA QuotientClose ==
    ASSUME NEW x \in Nat, NEW y \in Nat \ {0}
    PROVE  x \div y \in Nat /\ x <= y * ((x \div y) + 1)
OBVIOUS

\* What is less when multiplied is less.
LEMMA TimesCancel ==
    ASSUME NEW y \in Nat \ {0}, NEW a \in Nat, NEW b \in Nat, y * a <= y * b
    PROVE  a <= b
<1> SUFFICES ASSUME b + 1 <= a PROVE FALSE
  OBVIOUS
<1>1. y * (b + 1) <= y * a
  BY TimesMonotone
<1>2. y * (b + 1) = y * b + y /\ y * b \in Nat
  OBVIOUS
<1> DEFINE p == y * a
           q == y * b
<1>3. p \in Nat /\ q \in Nat /\ q + y <= p /\ p <= q
  BY <1>1, <1>2
<1> HIDE DEF p, q
<1> QED BY <1>3

\* A fee, and the token that rounding may lose, are worth the gas at the price
\* of the cheapest fee logic.
LEMMA FeeWorth ==
    ASSUME feeLogic \in FeeLogics, NEW gas \in Nat, feeLogic.markupDenominator # 0,
           NEW f \in FeeLogics, Cheapest(f)
    PROVE  f.price * gas <= f.scale * (calculateFee(gas) + 1)
<1> DEFINE p == feeLogic.price
           s == feeLogic.scale
           product == gas * p
           cost == product \div s
<1>1. /\ p \in Nat /\ s \in Nat \ {0} /\ feeLogic.markupDenominator \in Nat \ {0}
      /\ f.price \in Nat /\ f.scale \in Nat \ {0}
  BY TokensAssumption
<1>2. f.price * s <= p * f.scale
  BY DEF Cheapest
<1>3. calculateFee(gas) = cost + cost \div feeLogic.markupDenominator
  BY DEF calculateFee
<1> HIDE DEF p, s
<1>4. product \in Nat
  BY <1>1
<1>5. cost \in Nat /\ product <= s * (cost + 1)
  <2> HIDE DEF product
  <2> QED BY <1>1, <1>4, QuotientClose
<1> HIDE DEF cost
<1>6. f.price * gas <= f.scale * (cost + 1)
  <2> DEFINE a == f.price * gas
             b == f.scale * (cost + 1)
  <2>1. a \in Nat /\ b \in Nat /\ f.price * s \in Nat /\ p * f.scale \in Nat
        /\ s * (cost + 1) \in Nat
    BY <1>1, <1>5
  <2>2. gas * (f.price * s) <= gas * (p * f.scale)
    BY <1>2, <2>1, TimesMonotone
  <2>3. f.scale * product <= f.scale * (s * (cost + 1))
    <3> HIDE DEF product
    <3> QED BY <1>1, <1>4, <1>5, <2>1, TimesMonotone
  <2>4. gas * (f.price * s) = s * a
    BY <1>1
  <2>5. gas * (p * f.scale) = f.scale * product
    BY <1>1
  <2>6. f.scale * (s * (cost + 1)) = s * b
    BY <1>1, <1>5
  <2>7. f.scale * product \in Nat /\ s * a \in Nat /\ s * b \in Nat
    <3> HIDE DEF a, b, product
    <3> QED BY <1>1, <1>4, <2>1
  <2> HIDE DEF a, b, product
  <2>8. s * a <= s * b
    BY <2>2, <2>3, <2>4, <2>5, <2>6, <2>7
  <2>9. a <= b
    BY <1>1, <2>1, <2>8, TimesCancel
  <2> QED BY <2>9 DEF a, b
<1>7. cost \div feeLogic.markupDenominator \in Nat
  BY <1>1, <1>5, QuotientClose
<1>8. f.scale * (cost + 1) <= f.scale * (calculateFee(gas) + 1)
  <2> DEFINE fee == calculateFee(gas)
  <2>1. fee \in Nat /\ cost + 1 \in Nat /\ cost + 1 <= fee + 1
    BY <1>3, <1>5, <1>7
  <2> HIDE DEF fee
  <2> QED BY <1>1, <2>1, TimesMonotone DEF fee
<1>9. calculateFee(gas) \in Nat
  BY <1>3, <1>5, <1>7
<1>10. /\ f.price * gas \in Nat /\ f.scale * (cost + 1) \in Nat
       /\ f.scale * (calculateFee(gas) + 1) \in Nat
  BY <1>1, <1>5, <1>9
<1> QED BY <1>6, <1>8, <1>10

\* A fee that is collected is taken from one sender.
LEMMA ChargedEffect ==
    ASSUME NEW w \in Wallets, NEW s \in Senders, NEW gas \in Nat,
           paymentToken \in Tokens, feeLogic \in FeeLogics, Collects(w, s, gas)
    PROVE  /\ Charged(w, s, gas) \in Wallets
           /\ SparesOthers(w, Charged(w, s, gas), s)
           /\ \A t \in Tokens :
                 Charged(w, s, gas).balance[t][Paymaster]
                   = w.balance[t][Paymaster] + IF t = paymentToken THEN calculateFee(gas) ELSE 0
<1> DEFINE fee == calculateFee(gas)
           v == Transferred(w, paymentToken, s, Paymaster, fee)
           left == v.allowance[paymentToken][s] - fee
           al == [v.allowance EXCEPT ![paymentToken][s] = left]
<1>1. fee \in Nat /\ fee <= w.balance[paymentToken][s] /\ fee <= w.allowance[paymentToken][s]
  <2>1. fee \in Nat
    BY FeeType DEF Collects
  <2>2. w.balance[paymentToken][s] \in Nat /\ w.allowance[paymentToken][s] \in Nat
    BY DEF Wallets, Balances, Allowances, Holders
  <2> HIDE DEF fee
  <2>3. w.balance[paymentToken][s] >= fee /\ w.allowance[paymentToken][s] >= fee
    BY DEF Collects, fee
  <2> QED BY <2>1, <2>2, <2>3
<1>2. s \in Holders /\ Paymaster \in Holders /\ s # Paymaster
  BY TokensAssumption DEF Holders
<1> HIDE DEF fee
<1>3. /\ v \in Wallets /\ SparesOthers(w, v, s) /\ v.allowance = w.allowance
      /\ \A t \in Tokens :
            v.balance[t][Paymaster]
              = w.balance[t][Paymaster] + IF t = paymentToken THEN fee ELSE 0
  BY <1>1, <1>2, TransferredEffect
<1>4. Charged(w, s, gas) = [v EXCEPT !.allowance = al]
  BY <1>3 DEF Charged, fee, Wallets
<1> HIDE DEF v
<1>5. v.allowance \in Allowances /\ left \in Nat
  BY <1>1, <1>3 DEF Wallets, Allowances
<1> HIDE DEF left
<1>6. al \in Allowances
  BY <1>5 DEF Allowances
<1> HIDE DEF al
<1>7. [v EXCEPT !.allowance = al] \in Wallets /\ [v EXCEPT !.allowance = al].balance = v.balance
  BY <1>3, <1>6 DEF Wallets
<1> QED BY <1>3, <1>4, <1>7 DEF SparesOthers, fee

\* An operation's own call takes no tokens from other senders.
LEMMA AfterCallEffect ==
    ASSUME NEW w \in Wallets, NEW op \in Ops
    PROVE  /\ AfterCall(op, w) \in Wallets
           /\ SparesOthers(w, AfterCall(op, w), op.sender)
           /\ \A u \in Tokens : AfterCall(op, w).balance[u][Paymaster] = w.balance[u][Paymaster]
<1> DEFINE t == op.callData[2]
           v == AfterCall(op, w)
<1>1. /\ op.sender \in Senders /\ op.sender \in Holders /\ op.sender \notin {Elsewhere, Paymaster}
      /\ Elsewhere \in Holders /\ Paymaster \in Holders /\ Paymaster # Elsewhere
  BY OpFields, TokensAssumption DEF Holders, Paymaster, Elsewhere
<1>2. w.balance \in Balances /\ w.allowance \in Allowances
  BY DEF Wallets
<1>3. SparesOthers(w, w, op.sender)
  BY <1>2 DEF SparesOthers, Balances, Holders
<1>4. \A n \in Nat :
         /\ [w EXCEPT !.allowance[t][op.sender] = n] \in Wallets
         /\ [w EXCEPT !.allowance[t][op.sender] = n].balance = w.balance
  <2> SUFFICES ASSUME NEW n \in Nat
               PROVE  /\ [w EXCEPT !.allowance[t][op.sender] = n] \in Wallets
                      /\ [w EXCEPT !.allowance[t][op.sender] = n].balance = w.balance
    OBVIOUS
  <2> DEFINE al == [w.allowance EXCEPT ![t][op.sender] = n]
  <2>1. al \in Allowances
    BY <1>1, <1>2, Zenon DEF Allowances
  <2>2. [w EXCEPT !.allowance[t][op.sender] = n] = [w EXCEPT !.allowance = al]
    BY DEF Wallets
  <2> HIDE DEF al
  <2>3. [w EXCEPT !.allowance = al] \in Wallets /\ [w EXCEPT !.allowance = al].balance = w.balance
    BY <2>1 DEF Wallets
  <2> QED BY <2>2, <2>3
<1>5. CASE op.callData[1] = "spend"
  <2>1. v = Transferred(w, t, op.sender, Elsewhere, w.balance[t][op.sender])
    BY <1>5 DEF AfterCall
  <2>2. CASE t \in Tokens
    <3>1. w.balance[t][op.sender] \in Nat /\ \A u \in Tokens : w.balance[u][Paymaster] \in Nat
      BY <1>1, <1>2, <2>2 DEF Balances
    <3> HIDE DEF v, t
    <3> DEFINE n == w.balance[t][op.sender]
    <3>2. n \in Nat /\ n <= w.balance[t][op.sender]
      BY <3>1
    <3> HIDE DEF n
    <3>3. v = Transferred(w, t, op.sender, Elsewhere, n)
      BY <2>1 DEF n
    <3>4. /\ v \in Wallets /\ SparesOthers(w, v, op.sender)
          /\ \A u \in Tokens, h \in Holders :
                h # op.sender => v.balance[u][h]
                  = w.balance[u][h] + IF u = t /\ h = Elsewhere THEN n ELSE 0
      BY <1>1, <2>2, <3>2, <3>3, TransferredEffect
    <3>5. \A u \in Tokens : v.balance[u][Paymaster] = w.balance[u][Paymaster] + 0
      BY <1>1, <3>4
    <3> QED BY <3>1, <3>4, <3>5 DEF v
  <2>3. CASE t \notin Tokens
    <3> DEFINE b == w.balance
               n == b[t][op.sender]
               c == [b EXCEPT ![t][op.sender] = @ - n, ![t][Elsewhere] = @ + n]
    <3>1. v = [w EXCEPT !.balance = c]
      BY <2>1, Zenon DEF Transferred, Wallets
    <3>2. c = b
      BY <1>2, <2>3 DEF Balances
    <3>3. v = w
      BY <3>1, <3>2 DEF Wallets
    <3> QED BY <1>3, <3>3
  <2> QED BY <2>2, <2>3
<1>6. CASE op.callData[1] = "approve"
  <2>1. v = [w EXCEPT !.allowance[t][op.sender] = MaxTokens]
    BY <1>6 DEF AfterCall
  <2> HIDE DEF v
  <2>2. v \in Wallets /\ v.balance = w.balance
    BY <1>4, <2>1, TokensAssumption
  <2> QED BY <1>3, <2>2 DEF SparesOthers, v
<1>7. CASE op.callData[1] = "revoke"
  <2>1. v = [w EXCEPT !.allowance[t][op.sender] = 0]
    BY <1>7 DEF AfterCall
  <2> HIDE DEF v
  <2>2. v \in Wallets /\ v.balance = w.balance
    BY <1>4, <2>1
  <2> QED BY <1>3, <2>2 DEF SparesOthers, v
<1>8. CASE op.callData[1] \notin {"spend", "approve", "revoke"}
  <2>1. v = w
    BY <1>8 DEF AfterCall
  <2> QED BY <1>3, <2>1
<1> QED BY <1>5, <1>6, <1>7, <1>8

-----------------------------------------------------------------------------
(* The inductive invariant.                                                *)

TokenTypes ==
    /\ paymentToken \in Tokens
    /\ feeLogic \in FeeLogics
    /\ wallet \in Wallets
    /\ withdrawn \in Nat

SavedTypes ==
    phase # "idle" =>
        /\ saved.paymentToken \in Tokens
        /\ saved.feeLogic \in FeeLogics
        /\ saved.wallet \in Wallets
        /\ saved.withdrawn \in Nat

\* No tokens move while operations are validated.
Frozen == phase = "validate" => wallet = saved.wallet

\* Who has not had its turn in the bundle has what it had at its start.
KeptUntilTurn ==
    phase = "execute" =>
        \A s \in Senders, t \in Tokens :
            ~HadItsTurn(s) => saved.wallet.balance[t][s] <= wallet.balance[t][s]

IInv == SponsorTypeOK /\ TokenTypes /\ SavedTypes /\ Frozen /\ KeptUntilTurn

\* The initial state.
LEMMA InitIInv == Init => IInv
<1> SUFFICES ASSUME Init PROVE IInv
  OBVIOUS
<1>1. SponsorTypeOK /\ phase = "idle"
  BY SponsorInitTypes DEF Init, SponsorInit, EPInit
<1>2. TokenTypes
  BY TokensAssumption DEF Init, TokenTypes, Wallets, Balances, Allowances
<1> QED BY <1>1, <1>2 DEF IInv, SavedTypes, Frozen, KeptUntilTurn

\* Steps that move no tokens and are not part of handleOps.
LEMMA QuietIInv ==
    ASSUME IInv, SponsorTypeOK', TokenTypes', UNCHANGED <<phase, bundle, at, saved, wallet>>
    PROVE  IInv'
BY DEF IInv, SavedTypes, Frozen, KeptUntilTurn, HadItsTurn

\* A bundle is submitted: the wallets are saved.
LEMMA SubmitIInv ==
    ASSUME IInv, NEW e \in EntryPoints, NEW ops \in Bundles, bundleSubmitted(e, ops)
    PROVE  IInv'
<1>1. /\ Snapshot.nonce = nonce /\ Snapshot.deposit = deposit /\ Snapshot.executed = executed
      /\ Snapshot.senderNonce = senderNonce /\ Snapshot.granted = granted
      /\ Snapshot.funded = funded /\ Snapshot.paymentToken = paymentToken
      /\ Snapshot.feeLogic = feeLogic /\ Snapshot.wallet = wallet
      /\ Snapshot.withdrawn = withdrawn
  BY DEF Snapshot
<1>2. /\ phase' = "validate" /\ saved' = Snapshot
      /\ UNCHANGED <<paymentToken, feeLogic, wallet, withdrawn>>
  BY DEF bundleSubmitted, submitBundle, handleOps, tokenState
<1>3. SponsorTypeOK'
  BY <1>1, SubmitTypes DEF IInv, bundleSubmitted
<1> QED BY <1>1, <1>2, <1>3 DEF IInv, TokenTypes, SavedTypes, Frozen, KeptUntilTurn

\* An operation is validated.
LEMMA ValidateIInv ==
    ASSUME IInv, validatePaymasterUserOp
    PROVE  IInv'
<1>1. /\ phase = "validate" /\ phase' \in {"validate", "execute"}
      /\ UNCHANGED <<saved, paymentToken, feeLogic, wallet, withdrawn>>
  BY DEF validatePaymasterUserOp, grant, validatePrepayment, tokenState
<1>2. SponsorTypeOK'
  BY GrantTypes DEF IInv, validatePaymasterUserOp
<1>3. \A s \in Senders, t \in Tokens : wallet.balance[t][s] \in Nat
  BY DEF IInv, TokenTypes, Wallets, Balances, Holders
<1> QED BY <1>1, <1>2, <1>3 DEF IInv, TokenTypes, SavedTypes, Frozen, KeptUntilTurn

\* The transaction reverts.
LEMMA RevertIInv ==
    ASSUME IInv, phase # "idle", revertTransaction
    PROVE  IInv'
<1>1. /\ phase' = "idle" /\ paymentToken' = saved.paymentToken /\ feeLogic' = saved.feeLogic
      /\ wallet' = saved.wallet /\ withdrawn' = saved.withdrawn
  BY DEF revertTransaction, failedOp, RevertBundle, Close
<1>2. SponsorTypeOK'
  BY FailTypes DEF IInv, revertTransaction
<1> QED BY <1>1, <1>2 DEF IInv, TokenTypes, SavedTypes, Frozen, KeptUntilTurn

\* An operation is paid for, with tokens of its sender.
LEMMA PayIInv ==
    ASSUME IInv, NEW gas \in GasCosts, payGas(gas), wallet' \in Wallets,
           SparesOthers(wallet, wallet', Op.sender),
           UNCHANGED <<paymentToken, feeLogic, withdrawn>>
    PROVE  IInv'
<1>1. /\ phase = "execute" /\ Op.sender \in Senders
      /\ at \in 1..Len(bundle) /\ bundle \in Seq(Ops) /\ Op = bundle[at]
  BY CurrentOp DEF payGas, IInv, Op
<1>2. \/ phase' = "idle"
      \/ at' = at + 1 /\ UNCHANGED <<phase, bundle, saved>>
  BY DEF payGas, settle, Close
<1>3. SponsorTypeOK'
  BY PayTypes DEF IInv
<1>4. TokenTypes' /\ SavedTypes' /\ Frozen'
  BY <1>1, <1>2 DEF IInv, TokenTypes, SavedTypes, Frozen
<1>5. KeptUntilTurn'
  <2> SUFFICES ASSUME at' = at + 1, UNCHANGED <<phase, bundle, saved>>,
                      NEW s \in Senders, NEW t \in Tokens, ~HadItsTurn(s)'
               PROVE  saved.wallet.balance[t][s] <= wallet'.balance[t][s]
    BY <1>2 DEF KeptUntilTurn
  <2>1. s # Op.sender /\ ~HadItsTurn(s)
    BY <1>1 DEF HadItsTurn
  <2>2. /\ saved.wallet.balance[t][s] <= wallet.balance[t][s]
        /\ wallet.balance[t][s] <= wallet'.balance[t][s]
    BY <1>1, <2>1 DEF IInv, KeptUntilTurn, SparesOthers
  <2>3. /\ saved.wallet.balance[t][s] \in Nat /\ wallet.balance[t][s] \in Nat
        /\ wallet'.balance[t][s] \in Nat
    <3>1. \A w \in Wallets : w.balance[t][s] \in Nat
      BY DEF Wallets, Balances, Holders
    <3> QED BY <1>1, <3>1 DEF IInv, TokenTypes, SavedTypes
  <2> QED BY <2>2, <2>3
<1> QED BY <1>3, <1>4, <1>5 DEF IInv

\* The signer takes fees out of the paymaster.
LEMMA WithdrawIInv ==
    ASSUME IInv, NEW amount \in 1..MaxTokens, withdrawTokens(amount)
    PROVE  IInv'
<1>1. SponsorTypeOK'
  BY OtherTypes DEF IInv, withdrawTokens
<1>2. /\ phase # "validate" /\ UNCHANGED <<phase, bundle, at, saved, paymentToken, feeLogic>>
      /\ wallet' = Transferred(wallet, paymentToken, Paymaster, Elsewhere, amount)
      /\ withdrawn' = withdrawn + amount
      /\ wallet.balance[paymentToken][Paymaster] >= amount
  BY DEF withdrawTokens, frame
<1>3. amount \in Nat /\ Paymaster \in Holders /\ Elsewhere \in Holders /\ Paymaster # Elsewhere
  BY DEF Holders, Paymaster, Elsewhere
<1>4. wallet \in Wallets /\ paymentToken \in Tokens
  BY DEF IInv, TokenTypes
<1>5. wallet.balance[paymentToken][Paymaster] \in Nat
  BY <1>3, <1>4 DEF Wallets, Balances
<1>6. wallet' \in Wallets /\ SparesOthers(wallet, wallet', Paymaster)
  BY <1>2, <1>3, <1>4, <1>5, TransferredEffect
<1>7. TokenTypes' /\ SavedTypes' /\ Frozen'
  BY <1>2, <1>3, <1>6 DEF IInv, TokenTypes, SavedTypes, Frozen
<1>8. KeptUntilTurn'
  <2> SUFFICES ASSUME phase = "execute", NEW s \in Senders, NEW t \in Tokens, ~HadItsTurn(s)
               PROVE  saved.wallet.balance[t][s] <= wallet'.balance[t][s]
    BY <1>2 DEF KeptUntilTurn, HadItsTurn
  <2>1. /\ saved.wallet.balance[t][s] <= wallet.balance[t][s]
        /\ wallet.balance[t][s] <= wallet'.balance[t][s]
    BY <1>6, TokensAssumption DEF IInv, KeptUntilTurn, SparesOthers
  <2>2. \A w \in Wallets : w.balance[t][s] \in Nat
    BY DEF Wallets, Balances, Holders
  <2>3. saved.wallet \in Wallets
    BY DEF IInv, SavedTypes
  <2>4. /\ saved.wallet.balance[t][s] \in Nat /\ wallet.balance[t][s] \in Nat
        /\ wallet'.balance[t][s] \in Nat
    BY <1>4, <1>6, <2>2, <2>3
  <2> QED BY <2>1, <2>4
<1> QED BY <1>1, <1>7, <1>8 DEF IInv

\* A sender is given tokens, between transactions.
LEMMA ReceiveIInv ==
    ASSUME IInv, NEW t \in Tokens, NEW s \in Senders, receiveTokens(t, s)
    PROVE  IInv'
<1>1. SponsorTypeOK'
  BY OtherTypes DEF IInv, receiveTokens
<1> DEFINE b == [wallet.balance EXCEPT ![t][s] = MaxTokens]
<1>2. wallet \in Wallets /\ wallet.balance \in Balances
  BY DEF IInv, TokenTypes, Wallets
<1>3. b \in Balances
  BY <1>2, TokensAssumption, Zenon DEF Balances, Holders
<1>4. [wallet EXCEPT !.balance[t][s] = MaxTokens] = [wallet EXCEPT !.balance = b]
  BY <1>2 DEF Wallets
<1> HIDE DEF b
<1>5. [wallet EXCEPT !.balance = b] \in Wallets
  BY <1>2, <1>3 DEF Wallets
<1>6. /\ wallet' \in Wallets /\ phase' = "idle"
      /\ UNCHANGED <<paymentToken, feeLogic, withdrawn>>
  BY <1>4, <1>5 DEF receiveTokens, frame
<1> QED BY <1>1, <1>6 DEF IInv, TokenTypes, SavedTypes, Frozen, KeptUntilTurn

\* Every step preserves the inductive invariant.
LEMMA NextIInv == IInv /\ [Next]_vars => IInv'
<1> SUFFICES ASSUME IInv, [Next]_vars PROVE IInv'
  OBVIOUS
<1>0. /\ wallet \in Wallets /\ paymentToken \in Tokens
      /\ feeLogic \in FeeLogics /\ GasCosts \subseteq Nat
  BY PreFundAssumption DEF IInv, TokenTypes, GasCosts
<1>1. ASSUME NEW op \in Ops, approvalSigned(op)
      PROVE  IInv'
  <2>1. SponsorTypeOK'
    BY <1>1, SignTypes DEF IInv, approvalSigned
  <2> QED BY <1>1, <2>1, QuietIInv
          DEF IInv, TokenTypes, approvalSigned, signApproval, frame, tokenState
<1>2. ASSUME NEW e \in EntryPoints, NEW ops \in Bundles, bundleSubmitted(e, ops)
      PROVE  IInv'
  BY <1>2, SubmitIInv
<1>3. ASSUME validatePaymasterUserOp PROVE IInv'
  BY <1>3, ValidateIInv
<1>4. ASSUME validationFails PROVE IInv'
  BY <1>4, RevertIInv DEF validationFails
<1>5. ASSUME NEW gas \in GasCosts, postOp(gas)
      PROVE  IInv'
  <2> DEFINE v == AfterCall(Op, wallet)
  <2>1. phase = "execute" /\ Op \in Ops /\ Op.sender \in Senders
    BY <1>5, CurrentOp DEF postOp, IInv
  <2>2. v \in Wallets /\ SparesOthers(wallet, v, Op.sender)
    BY <1>0, <2>1, AfterCallEffect
  <2>3. Collects(v, Op.sender, gas) /\ wallet' = Charged(v, Op.sender, gas)
    BY <1>5 DEF postOp
  <2> HIDE DEF v
  <2>4. wallet' \in Wallets /\ SparesOthers(v, wallet', Op.sender)
    BY <1>0, <2>1, <2>2, <2>3, ChargedEffect, Zenon
  <2>5. SparesOthers(wallet, wallet', Op.sender)
    <3>1. \A w \in Wallets, t \in Tokens, s \in Senders : w.balance[t][s] \in Nat
      BY DEF Wallets, Balances, Holders
    <3> SUFFICES ASSUME NEW t \in Tokens, NEW s \in Senders, s # Op.sender
                 PROVE  wallet.balance[t][s] <= wallet'.balance[t][s]
      BY DEF SparesOthers
    <3>2. wallet.balance[t][s] <= v.balance[t][s] /\ v.balance[t][s] <= wallet'.balance[t][s]
      BY <2>2, <2>4 DEF SparesOthers
    <3>3. /\ wallet.balance[t][s] \in Nat /\ v.balance[t][s] \in Nat
          /\ wallet'.balance[t][s] \in Nat
      BY <1>0, <2>2, <2>4, <3>1
    <3> QED BY <3>2, <3>3
  <2>6. PICK cost \in GasCosts : payGas(cost)
    BY <1>5 DEF postOp, Billed
  <2> QED BY <1>5, <2>4, <2>5, <2>6, PayIInv DEF postOp
<1>6. ASSUME NEW gas \in GasCosts, NEW more \in GasCosts, postOpReverted(gas, more)
      PROVE  IInv'
  <2>1. phase = "execute" /\ Op.sender \in Senders
    BY <1>6, CurrentOp DEF postOpReverted, IInv
  <2>2. wallet' \in Wallets /\ SparesOthers(wallet, wallet', Op.sender)
    BY <1>0, <1>6, <2>1, ChargedEffect DEF postOpReverted
  <2>3. PICK cost \in GasCosts : payGas(cost)
    BY <1>6 DEF postOpReverted, Billed
  <2> QED BY <1>6, <2>2, <2>3, PayIInv DEF postOpReverted
<1>7. ASSUME NEW gas \in GasCosts, NEW more \in GasCosts, postOpRevertsAgain(gas, more)
      PROVE  IInv'
  BY <1>7, RevertIInv DEF postOpRevertsAgain
<1>8. ASSUME \/ \E f \in FeeLogics : updateFeeLogic(f)
             \/ \E t \in Tokens : updatePaymentToken(t)
      PROVE  IInv'
  <2>1. UNCHANGED <<book, frame, saved, pmState, offChain, wallet>> /\ TokenTypes'
    BY <1>8 DEF updateFeeLogic, updatePaymentToken, IInv, TokenTypes
  <2>2. SponsorTypeOK'
    BY <2>1, OtherTypes DEF IInv
  <2> QED BY <2>1, <2>2, QuietIInv DEF frame
<1>9. ASSUME NEW e \in EntryPoints, depositFunded(e, 1)
      PROVE  IInv'
  <2>1. SponsorTypeOK'
    BY <1>9, FundTypes DEF IInv, depositFunded
  <2> QED BY <1>9, <2>1, QuietIInv
          DEF IInv, TokenTypes, depositFunded, fundDeposit, frame, tokenState
<1>10. ASSUME UNCHANGED vars PROVE IInv'
  <2>1. SponsorTypeOK'
    BY <1>10, OtherTypes DEF IInv, vars
  <2> QED BY <1>10, <2>1, QuietIInv DEF IInv, TokenTypes, vars, frame, tokenState
<1> QED BY <1>1, <1>2, <1>3, <1>4, <1>5, <1>6, <1>7, <1>8, <1>9, <1>10, WithdrawIInv, ReceiveIInv
        DEF Next

\* The inductive invariant holds in every reachable state.
THEOREM Invariant == Spec => []IInv
BY InitIInv, NextIInv, PTL DEF Spec

-----------------------------------------------------------------------------
(* The results.                                                            *)

\* No balance and no allowance is overdrawn, whatever postOp and the calls do.
THEOREM TypeCorrect == Spec => []TypeOK
<1>1. \A w \in Wallets : WalletType(w)
  BY DEF Wallets, WalletType, Balances, Allowances
<1>2. IInv => TypeOK
  BY <1>1 DEF IInv, TokenTypes, SavedTypes, TypeOK
<1> QED BY <1>2, Invariant, PTL

\* postOp charges the sender of its own operation only.
THEOREM ChargesOwnSender == Spec => []OthersKeepTokens
<1>1. IInv => OthersKeepTokens
  <2> SUFFICES ASSUME IInv, phase # "idle", NEW s \in Senders, NEW t \in Tokens,
                      wallet.balance[t][s] < saved.wallet.balance[t][s]
               PROVE  HadItsTurn(s)
    BY DEF OthersKeepTokens
  <2>1. \A w \in Wallets : w.balance[t][s] \in Nat
    BY DEF Wallets, Balances, Holders
  <2>2. wallet.balance[t][s] \in Nat /\ saved.wallet.balance[t][s] \in Nat
    BY <2>1 DEF IInv, TokenTypes, SavedTypes
  <2>3. phase \in {"validate", "execute"}
    BY DEF IInv, SponsorTypeOK
  <2>4. phase # "validate"
    BY <2>2 DEF IInv, Frozen
  <2> QED BY <2>2, <2>3, <2>4 DEF IInv, KeptUntilTurn
<1> QED BY <1>1, Invariant, PTL

-----------------------------------------------------------------------------
(* The fees.  While a bundle runs, prefunds of operations that are not     *)
(* settled are out of the deposit too; what is taken besides them went for *)
(* gas.  A fee is worth the gas that postOp was told, up to rounding, and  *)
(* the deposit pays at most PostOpGas more; withdrawals are counted, and a *)
(* revert takes the payments back with the fees.                           *)

Fees(w) == [t \in Tokens |-> w.balance[t][Paymaster]]

FeesCover(x, w, out, gas) ==
    \A f \in FeeLogics :
        Cheapest(f) =>
            f.price * (gas - PostOpGas * SumFunctionOnSet(x, Ops))
              <= f.scale * ((out + SumFunctionOnSet(Fees(w), Tokens))
                              + SumFunctionOnSet(x, Ops))

\* Operations whose prefund is taken and not yet settled.
Unsettled ==
    IF phase = "validate" THEN at - 1
    ELSE IF phase = "execute" THEN (Len(bundle) - at) + 1 ELSE 0

GasTaken(e) == (funded - deposit[e][Paymaster]) - RequiredPreFund * Unsettled

FeesInv ==
    \A e \in EntryPoints :
        /\ FeesCover(executed, wallet, withdrawn, GasTaken(e))
        /\ phase # "idle" =>
              FeesCover(saved.executed, saved.wallet, saved.withdrawn,
                        saved.funded - saved.deposit[e][Paymaster])

\* The sums are numbers.
LEMMA SumTypes ==
    ASSUME NEW w \in Wallets, NEW x \in [Ops -> Nat]
    PROVE  /\ SumFunctionOnSet(x, Ops) \in Int
           /\ SumFunctionOnSet(Fees(w), Tokens) \in Int
           /\ \A t \in Tokens : Fees(w)[t] = w.balance[t][Paymaster] /\ Fees(w)[t] \in Nat
<1>1. \A t \in Tokens : Fees(w)[t] = w.balance[t][Paymaster] /\ Fees(w)[t] \in Nat
  BY DEF Fees, Wallets, Balances, Holders
<1>2. SumFunctionOnSet(Fees(w), Tokens) \in Int
  BY <1>1, TokensAssumption, SumInt
<1>3. SumFunctionOnSet(x, Ops) \in Int
  BY OpsAssumption, SumInt
<1> QED BY <1>1, <1>2, <1>3

\* What the paymaster has of one token changes, and nothing else it has.
LEMMA FeesMove ==
    ASSUME NEW w \in Wallets, NEW v \in Wallets, NEW t \in Tokens, NEW d \in Int,
           v.balance[t][Paymaster] = w.balance[t][Paymaster] + d,
           \A u \in Tokens \ {t} : v.balance[u][Paymaster] = w.balance[u][Paymaster]
    PROVE  SumFunctionOnSet(Fees(v), Tokens) = SumFunctionOnSet(Fees(w), Tokens) + d
<1> DEFINE f == Fees(w)
           g == Fees(v)
<1>1. f \in [Tokens -> Int] /\ g \in [Tokens -> Int]
  BY DEF Fees, Wallets, Balances, Holders
<1>2. g[t] = f[t] + d /\ \A u \in Tokens : u # t => g[u] = f[u]
  BY DEF Fees
<1>3. IsFiniteSet(Tokens)
  BY TokensAssumption
<1> HIDE DEF f, g
<1>4. SumFunctionOnSet(g, Tokens) = SumFunctionOnSet(f, Tokens) + d
  BY <1>1, <1>2, <1>3, SumUpdate
<1> QED BY <1>4 DEF f, g

\* Prefunds are a multiple of the largest gas cost.
LEMMA OneMorePrefund ==
    ASSUME NEW k \in Int
    PROVE  /\ RequiredPreFund * (k + 1) = RequiredPreFund * k + RequiredPreFund
           /\ RequiredPreFund * k \in Int
BY PreFundAssumption

\* The gas that is taken is a number.
LEMMA GasType ==
    ASSUME SponsorTypeOK, NEW e \in EntryPoints
    PROVE  /\ Unsettled \in Int /\ GasTaken(e) \in Int
           /\ deposit \in [EntryPoints -> [Payers -> Nat]]
           /\ deposit[e][Paymaster] \in Nat /\ funded \in Int
<1>1. /\ deposit \in [EntryPoints -> [Payers -> Nat]] /\ deposit[e][Paymaster] \in Nat
      /\ funded \in Int
  BY PayersAssumption DEF SponsorTypeOK, BookType
<1>2. Unsettled \in Int
  BY DEF Unsettled, SponsorTypeOK
<1>3. RequiredPreFund * Unsettled \in Int
  BY <1>2, OneMorePrefund
<1> QED BY <1>1, <1>2, <1>3 DEF GasTaken

\* Arithmetic: an operation whose fee is worth its gas joins those before it.
LEMMA OneMoreFee ==
    ASSUME NEW price \in Nat, NEW scale \in Nat, NEW g \in Int, NEW n \in Int,
           NEW m \in Int, NEW gas \in Nat, NEW cost \in Nat, NEW fee \in Nat,
           price * (g - PostOpGas * n) <= scale * (m + n),
           price * gas <= scale * (fee + 1), cost <= gas + PostOpGas
    PROVE  price * ((g + cost) - PostOpGas * (n + 1)) <= scale * ((m + fee) + (n + 1))
<1> DEFINE h == g - PostOpGas * n
           d == gas - (cost - PostOpGas)
<1>1. PostOpGas \in Nat /\ PostOpGas * n \in Int /\ PostOpGas * (n + 1) = PostOpGas * n + PostOpGas
  BY TokensAssumption
<1>2. h \in Int /\ d \in Nat
  BY <1>1
<1>3. (g + cost) - PostOpGas * (n + 1) = (h + gas) - d
  BY <1>1
<1> HIDE DEF h, d
<1>4. price * ((h + gas) - d) = (price * h + price * gas) - price * d
  BY <1>2
<1>5. scale * ((m + fee) + (n + 1)) = scale * (m + n) + scale * (fee + 1)
  OBVIOUS
<1>6. price * h \in Int /\ price * gas \in Int /\ price * d \in Nat
      /\ scale * (m + n) \in Int /\ scale * (fee + 1) \in Int
  BY <1>2
<1>7. price * h <= scale * (m + n)
  BY DEF h
<1> DEFINE a == price * h
           b == price * gas
           c == price * d
           y == scale * (m + n)
           z == scale * (fee + 1)
<1>8. a \in Int /\ b \in Int /\ c \in Nat /\ y \in Int /\ z \in Int /\ a <= y /\ b <= z
  BY <1>6, <1>7
<1> HIDE DEF a, b, c, y, z
<1>9. (a + b) - c <= y + z
  BY <1>8
<1> QED BY <1>3, <1>4, <1>5, <1>9 DEF a, b, c, y, z

\* An operation is settled: what it cost has been taken.
LEMMA PaidGas ==
    ASSUME SponsorTypeOK, NEW cost \in GasCosts, payGas(cost), NEW e \in EntryPoints
    PROVE  GasTaken(e)' = GasTaken(e) + cost
<1>1. /\ phase = "execute" /\ at \in 1..Len(bundle) /\ Len(bundle) \in Nat /\ e = ep
      /\ ep \in EntryPoints
  BY EntryPointAssumption DEF payGas, SponsorTypeOK
<1>2. /\ deposit' = [deposit EXCEPT ![ep][Paymaster] = @ + (RequiredPreFund - cost)]
      /\ funded' = funded
      /\ IF at = Len(bundle) THEN phase' = "idle"
         ELSE at' = at + 1 /\ UNCHANGED <<phase, bundle>>
  BY DEF payGas, settle, Close, pmState
<1>3. /\ deposit \in [EntryPoints -> [Payers -> Nat]] /\ deposit[e][Paymaster] \in Nat
      /\ funded \in Int /\ Unsettled \in Int
  BY GasType
<1>4. deposit'[e][Paymaster] = deposit[e][Paymaster] + (RequiredPreFund - cost)
  BY <1>1, <1>2, <1>3, PayersAssumption
<1>5. Unsettled = Unsettled' + 1 /\ Unsettled' \in Int
  <2>1. Unsettled = (Len(bundle) - at) + 1
    BY <1>1 DEF Unsettled
  <2>2. CASE at = Len(bundle)
    BY <1>1, <1>2, <2>1, <2>2 DEF Unsettled
  <2>3. CASE at # Len(bundle)
    <3>1. Unsettled' = (Len(bundle) - (at + 1)) + 1
      BY <1>1, <1>2, <2>3 DEF Unsettled
    <3> QED BY <1>1, <2>1, <3>1
  <2> QED BY <2>2, <2>3
<1> DEFINE k == Unsettled'
<1>6. /\ RequiredPreFund * (k + 1) = RequiredPreFund * k + RequiredPreFund
      /\ RequiredPreFund * k \in Int
  BY <1>5, OneMorePrefund
<1>7. /\ GasTaken(e)' = (funded - (deposit[e][Paymaster] + (RequiredPreFund - cost)))
                          - RequiredPreFund * k
      /\ GasTaken(e) = (funded - deposit[e][Paymaster]) - RequiredPreFund * (k + 1)
  BY <1>2, <1>4, <1>5 DEF GasTaken
<1>8. cost \in Int /\ RequiredPreFund \in Int
  BY PreFundAssumption DEF GasCosts
<1> DEFINE q == RequiredPreFund * k
           d == deposit[e][Paymaster]
<1>9. /\ q \in Int /\ d \in Int
      /\ GasTaken(e)' = (funded - (d + (RequiredPreFund - cost))) - q
      /\ GasTaken(e) = (funded - d) - (q + RequiredPreFund)
  BY <1>3, <1>6, <1>7
<1> HIDE DEF q, d
<1> QED BY <1>3, <1>8, <1>9

\* One more operation is executed and its fee is paid.
LEMMA PaidFees ==
    ASSUME IInv, FeesInv, NEW gas \in GasCosts, NEW cost \in Billed(gas), payGas(cost),
           feeLogic.markupDenominator # 0, wallet' \in Wallets, UNCHANGED withdrawn,
           \A t \in Tokens :
              wallet'.balance[t][Paymaster]
                = wallet.balance[t][Paymaster] + IF t = paymentToken THEN calculateFee(gas) ELSE 0
    PROVE  FeesInv'
<1> DEFINE fee == calculateFee(gas)
<1>1. wallet \in Wallets /\ paymentToken \in Tokens /\ feeLogic \in FeeLogics /\ withdrawn \in Nat
  BY DEF IInv, TokenTypes
<1>2. fee \in Nat /\ gas \in Nat /\ cost \in GasCosts /\ cost \in Nat /\ cost <= gas + PostOpGas
  <2>1. gas \in Nat /\ cost \in Nat /\ cost \in GasCosts /\ cost <= gas + PostOpGas
    BY PreFundAssumption DEF GasCosts, Billed
  <2> QED BY <1>1, <2>1, FeeType
<1>3. /\ phase = "execute" /\ Op \in Ops
      /\ executed' = [executed EXCEPT ![Op] = @ + 1]
      /\ phase' = "idle" \/ UNCHANGED <<phase, saved>>
  BY CurrentOp DEF payGas, settle, Close, IInv
<1>4. executed \in [Ops -> Nat] /\ executed' \in [Ops -> Nat]
  <2>1. executed \in [Ops -> Nat]
    BY DEF IInv, SponsorTypeOK, BookType
  <2> QED BY <1>3, <2>1
<1>5. SumFunctionOnSet(executed', Ops) = SumFunctionOnSet(executed, Ops) + 1
  <2> DEFINE x == executed
             y == executed'
  <2>1. /\ x \in [Ops -> Int] /\ y \in [Ops -> Int]
        /\ \A op \in Ops : op # Op => y[op] = x[op]
        /\ y[Op] = x[Op] + 1
    BY <1>3, <1>4
  <2> HIDE DEF x, y
  <2>2. SumFunctionOnSet(y, Ops) = SumFunctionOnSet(x, Ops) + 1
    BY <1>3, <2>1, OpsAssumption, SumUpdate
  <2> QED BY <2>1, <2>2 DEF x, y
<1>6. SumFunctionOnSet(Fees(wallet'), Tokens) = SumFunctionOnSet(Fees(wallet), Tokens) + fee
  <2> HIDE DEF fee
  <2>1. /\ wallet'.balance[paymentToken][Paymaster] = wallet.balance[paymentToken][Paymaster] + fee
        /\ \A u \in Tokens : wallet.balance[u][Paymaster] \in Int
        /\ \A u \in Tokens \ {paymentToken} :
              wallet'.balance[u][Paymaster] = wallet.balance[u][Paymaster]
    BY <1>1 DEF fee, Wallets, Balances, Holders
  <2> QED BY <1>1, <1>2, <2>1, FeesMove
<1> DEFINE n == SumFunctionOnSet(executed, Ops)
           r == SumFunctionOnSet(Fees(wallet), Tokens)
<1>7. n \in Int /\ r \in Int
  BY <1>1, <1>4, SumTypes
<1>8. ASSUME NEW e \in EntryPoints
      PROVE  FeesCover(executed', wallet', withdrawn', GasTaken(e)')
  <2> SUFFICES ASSUME NEW f \in FeeLogics, Cheapest(f)
               PROVE  f.price * (GasTaken(e)' - PostOpGas * (n + 1))
                        <= f.scale * ((withdrawn + (r + fee)) + (n + 1))
    BY <1>5, <1>6 DEF FeesCover
  <2> DEFINE m == withdrawn + r
  <2>1. f.price \in Nat /\ f.scale \in Nat
    BY TokensAssumption
  <2>2. f.price * (GasTaken(e) - PostOpGas * n) <= f.scale * (m + n)
    BY <1>8 DEF FeesInv, FeesCover
  <2>3. f.price * gas <= f.scale * (fee + 1)
    BY <1>1, <1>2, FeeWorth
  <2>4. GasTaken(e)' = GasTaken(e) + cost /\ GasTaken(e) \in Int
    BY <1>2, <1>8, PaidGas, GasType DEF IInv
  <2>5. m \in Int /\ withdrawn + (r + fee) = m + fee
    BY <1>1, <1>2, <1>7
  <2> DEFINE g == GasTaken(e)
  <2> HIDE DEF fee, n, r, m, g
  <2>6. f.price * ((g + cost) - PostOpGas * (n + 1)) <= f.scale * ((m + fee) + (n + 1))
    BY <1>2, <1>7, <2>1, <2>2, <2>3, <2>4, <2>5, OneMoreFee DEF g
  <2> QED BY <2>4, <2>5, <2>6 DEF g
<1> QED BY <1>3, <1>8 DEF FeesInv

\* Steps that change nothing about fees, gas and executed operations.
LEMMA QuietFees ==
    ASSUME FeesInv,
           UNCHANGED <<executed, deposit, funded, phase, bundle, at, saved, wallet, withdrawn>>
    PROVE  FeesInv'
<1>1. \A e : GasTaken(e)' = GasTaken(e)
  BY DEF GasTaken, Unsettled
<1> QED BY <1>1 DEF FeesInv, FeesCover, Fees

\* The transaction reverts.
LEMMA RevertFees ==
    ASSUME IInv, FeesInv, phase # "idle", revertTransaction
    PROVE  FeesInv'
<1>1. /\ phase' = "idle" /\ executed' = saved.executed /\ deposit' = saved.deposit
      /\ funded' = saved.funded /\ wallet' = saved.wallet /\ withdrawn' = saved.withdrawn
  BY DEF revertTransaction, failedOp, RevertBundle, Close
<1>2. \A e \in EntryPoints : GasTaken(e)' = saved.funded - saved.deposit[e][Paymaster]
  <2>1. \A e \in EntryPoints : saved.funded - saved.deposit[e][Paymaster] \in Int
    BY PayersAssumption DEF IInv, SponsorTypeOK, BookType
  <2>2. Unsettled' = 0 /\ RequiredPreFund * 0 = 0
    BY <1>1, PreFundAssumption DEF Unsettled
  <2> QED BY <1>1, <2>1, <2>2 DEF GasTaken
<1> QED BY <1>1, <1>2 DEF FeesInv, FeesCover, Fees

\* A bundle is submitted: nothing is taken yet.
LEMMA SubmitFees ==
    ASSUME IInv, FeesInv, NEW b \in EntryPoints, NEW ops \in Bundles, bundleSubmitted(b, ops)
    PROVE  FeesInv'
<1>1. /\ saved'.executed = executed /\ saved'.wallet = wallet /\ saved'.withdrawn = withdrawn
      /\ saved'.deposit = deposit /\ saved'.funded = funded
      /\ UNCHANGED <<executed, deposit, funded, wallet, withdrawn>>
      /\ phase = "idle" /\ phase' = "validate" /\ at' = 1
  BY DEF bundleSubmitted, submitBundle, handleOps, Snapshot, book, pmState, tokenState
<1>2. Unsettled = 0 /\ Unsettled' = 0 /\ RequiredPreFund * 0 = 0
  BY <1>1, PreFundAssumption DEF Unsettled
<1>3. \A e \in EntryPoints : /\ GasTaken(e)' = GasTaken(e)
                             /\ GasTaken(e) = funded - deposit[e][Paymaster]
  <2>1. \A e \in EntryPoints : funded - deposit[e][Paymaster] \in Int
    BY PayersAssumption DEF IInv, SponsorTypeOK, BookType
  <2> QED BY <1>1, <1>2, <2>1 DEF GasTaken
<1> QED BY <1>1, <1>3 DEF FeesInv, FeesCover, Fees

\* An operation is validated: a prefund is taken and is unsettled.
LEMMA ValidateFees ==
    ASSUME IInv, FeesInv, validatePaymasterUserOp
    PROVE  FeesInv'
<1>1. /\ phase = "validate" /\ at \in 1..Len(bundle) /\ Len(bundle) \in Nat
      /\ ep \in EntryPoints
  BY DEF validatePaymasterUserOp, grant, IInv, SponsorTypeOK
<1>2. /\ deposit' = [deposit EXCEPT ![ep][Paymaster] = @ - RequiredPreFund]
      /\ UNCHANGED <<executed, funded, bundle, saved, wallet, withdrawn>>
      /\ IF at = Len(bundle) THEN phase' = "execute" /\ at' = 1
         ELSE at' = at + 1 /\ UNCHANGED phase
  BY DEF validatePaymasterUserOp, grant, validatePrepayment, tokenState
<1>3. Unsettled' = Unsettled + 1 /\ Unsettled \in Int
  <2>1. Unsettled = at - 1
    BY <1>1 DEF Unsettled
  <2>2. CASE at = Len(bundle)
    <3>1. Unsettled' = (Len(bundle) - 1) + 1
      BY <1>1, <1>2, <2>2 DEF Unsettled
    <3> QED BY <1>1, <2>1, <2>2, <3>1
  <2>3. CASE at # Len(bundle)
    <3>1. Unsettled' = (at + 1) - 1
      BY <1>1, <1>2, <2>3 DEF Unsettled
    <3> QED BY <1>1, <2>1, <3>1
  <2> QED BY <2>2, <2>3
<1>4. ASSUME NEW e \in EntryPoints
      PROVE  GasTaken(e)' = GasTaken(e)
  <2> DEFINE k == Unsettled
             q == RequiredPreFund * k
             d == deposit[e][Paymaster]
  <2>1. /\ deposit \in [EntryPoints -> [Payers -> Nat]] /\ d \in Nat /\ funded \in Int
    BY <1>4, GasType DEF IInv
  <2>2. e = ep
    BY <1>1, EntryPointAssumption
  <2>3. deposit'[e][Paymaster] = d - RequiredPreFund
    BY <1>1, <1>2, <2>1, <2>2, PayersAssumption
  <2>4. RequiredPreFund * (k + 1) = q + RequiredPreFund /\ q \in Int
    BY <1>3, OneMorePrefund
  <2>5. /\ GasTaken(e)' = (funded - (d - RequiredPreFund)) - (q + RequiredPreFund)
        /\ GasTaken(e) = (funded - d) - q
    BY <1>2, <1>3, <2>3, <2>4 DEF GasTaken
  <2> HIDE DEF q, d
  <2> QED BY <2>1, <2>4, <2>5, PreFundAssumption
<1> QED BY <1>1, <1>2, <1>4 DEF FeesInv, FeesCover, Fees

\* The deposit is topped up by what is counted as funded.
LEMMA FundFees ==
    ASSUME IInv, FeesInv, NEW b \in EntryPoints, depositFunded(b, 1)
    PROVE  FeesInv'
<1>1. /\ deposit' = [deposit EXCEPT ![b][Paymaster] = @ + 1]
      /\ funded' = funded + 1
      /\ UNCHANGED <<executed, phase, bundle, at, saved, wallet, withdrawn>>
  BY DEF depositFunded, fundDeposit, frame, tokenState
<1>2. ASSUME NEW e \in EntryPoints
      PROVE  GasTaken(e)' = GasTaken(e)
  <2> DEFINE q == RequiredPreFund * Unsettled
             d == deposit[e][Paymaster]
  <2>1. /\ deposit \in [EntryPoints -> [Payers -> Nat]] /\ d \in Nat /\ funded \in Int
        /\ Unsettled \in Int
    BY <1>2, GasType DEF IInv
  <2>2. e = b
    BY EntryPointAssumption
  <2>3. deposit'[e][Paymaster] = d + 1
    BY <1>1, <2>1, <2>2, PayersAssumption
  <2>4. q \in Int /\ Unsettled' = Unsettled
    BY <1>1, <2>1, OneMorePrefund DEF Unsettled
  <2>5. /\ GasTaken(e)' = ((funded + 1) - (d + 1)) - q
        /\ GasTaken(e) = (funded - d) - q
    BY <1>1, <2>3, <2>4 DEF GasTaken
  <2> HIDE DEF q, d
  <2> QED BY <2>1, <2>4, <2>5
<1> QED BY <1>1, <1>2 DEF FeesInv, FeesCover, Fees

\* Fees are withdrawn and counted.
LEMMA WithdrawFees ==
    ASSUME IInv, IInv', FeesInv, NEW amount \in 1..MaxTokens, withdrawTokens(amount)
    PROVE  FeesInv'
<1>1. /\ UNCHANGED <<executed, deposit, funded, phase, bundle, at, saved>>
      /\ wallet' = Transferred(wallet, paymentToken, Paymaster, Elsewhere, amount)
      /\ withdrawn' = withdrawn + amount
  BY DEF withdrawTokens, book, frame, pmState
<1>2. /\ amount \in Nat /\ Paymaster # Elsewhere /\ wallet \in Wallets /\ paymentToken \in Tokens
      /\ wallet' \in Wallets /\ withdrawn \in Nat
  <2>1. amount \in Nat /\ Paymaster # Elsewhere
    BY TokensAssumption DEF Paymaster, Elsewhere
  <2> QED BY <2>1 DEF IInv, TokenTypes
<1>3. /\ wallet'.balance[paymentToken][Paymaster]
            = wallet.balance[paymentToken][Paymaster] + (0 - amount)
      /\ \A u \in Tokens \ {paymentToken} :
            wallet'.balance[u][Paymaster] = wallet.balance[u][Paymaster]
  <2>1. wallet'.balance = Moved(wallet.balance, paymentToken, Paymaster, Elsewhere, amount)
    BY <1>1, <1>2 DEF Transferred, Moved, Wallets
  <2> DEFINE b == wallet.balance
  <2>2. b \in [Tokens -> [Holders -> Nat]] /\ Paymaster \in Holders /\ Elsewhere \in Holders
    BY <1>2, Zenon DEF Wallets, Balances, Holders
  <2> HIDE DEF b
  <2>3. /\ Moved(b, paymentToken, Paymaster, Elsewhere, amount)[paymentToken][Paymaster]
              = b[paymentToken][Paymaster] - amount
        /\ \A u \in Tokens \ {paymentToken} :
              Moved(b, paymentToken, Paymaster, Elsewhere, amount)[u] = b[u]
    BY <1>2, <2>2 DEF Moved
  <2>4. b[paymentToken][Paymaster] \in Nat
    BY <1>2, <2>2
  <2>5. wallet'.balance = Moved(b, paymentToken, Paymaster, Elsewhere, amount)
    BY <2>1, Zenon DEF b
  <2>6. /\ wallet'.balance[paymentToken][Paymaster] = b[paymentToken][Paymaster] - amount
        /\ \A u \in Tokens \ {paymentToken} :
              wallet'.balance[u][Paymaster] = b[u][Paymaster]
    BY <2>3, <2>5, Zenon
  <2>7. b[paymentToken][Paymaster] - amount = b[paymentToken][Paymaster] + (0 - amount)
    <3>1. \A x \in Nat : x - amount = x + (0 - amount)
      BY <1>2
    <3> QED BY <2>4, <3>1, Zenon
  <2> QED BY <2>6, <2>7, Zenon DEF b
<1>4. SumFunctionOnSet(Fees(wallet'), Tokens)
        = SumFunctionOnSet(Fees(wallet), Tokens) + (0 - amount)
  BY <1>2, <1>3, FeesMove
<1>5. SumFunctionOnSet(Fees(wallet), Tokens) \in Int
  <2>1. executed \in [Ops -> Nat]
    BY DEF IInv, SponsorTypeOK, BookType
  <2> QED BY <1>2, <2>1, SumTypes
<1>6. withdrawn' + SumFunctionOnSet(Fees(wallet'), Tokens)
        = withdrawn + SumFunctionOnSet(Fees(wallet), Tokens)
  BY <1>1, <1>2, <1>4, <1>5
<1>7. \A e : GasTaken(e)' = GasTaken(e)
  BY <1>1 DEF GasTaken, Unsettled
<1> QED BY <1>1, <1>6, <1>7 DEF FeesInv, FeesCover, Fees

\* Tokens given to a sender are no fees.
LEMMA ReceiveFees ==
    ASSUME IInv, IInv', FeesInv, NEW t \in Tokens, NEW s \in Senders, receiveTokens(t, s)
    PROVE  FeesInv'
<1>1. /\ UNCHANGED <<executed, deposit, funded, phase, bundle, at, saved, withdrawn>>
      /\ wallet' = [wallet EXCEPT !.balance[t][s] = MaxTokens]
  BY DEF receiveTokens, book, frame, pmState
<1>2. s # Paymaster /\ wallet \in Wallets
  BY TokensAssumption DEF IInv, TokenTypes
<1>3. \A u \in Tokens : wallet'.balance[u][Paymaster] = wallet.balance[u][Paymaster]
  <2> DEFINE b == wallet.balance
  <2>1. wallet'.balance = [b EXCEPT ![t][s] = MaxTokens]
    BY <1>1, <1>2 DEF Wallets
  <2>2. b \in [Tokens -> [Holders -> Nat]]
    BY <1>2 DEF Wallets, Balances
  <2> HIDE DEF b
  <2>3. \A u \in Tokens : [b EXCEPT ![t][s] = MaxTokens][u][Paymaster] = b[u][Paymaster]
    BY <1>2, <2>2
  <2> QED BY <2>1, <2>3 DEF b
<1>4. Fees(wallet') = Fees(wallet)
  BY <1>3 DEF Fees
<1>5. \A e : GasTaken(e)' = GasTaken(e)
  BY <1>1 DEF GasTaken, Unsettled
<1> QED BY <1>1, <1>4, <1>5 DEF FeesInv, FeesCover, Fees

\* Every step keeps the fees in line with what was executed.
LEMMA NextFees == IInv /\ IInv' /\ FeesInv /\ [Next]_vars => FeesInv'
<1> SUFFICES ASSUME IInv, IInv', FeesInv, [Next]_vars PROVE FeesInv'
  OBVIOUS
<1>0. /\ wallet \in Wallets /\ wallet' \in Wallets /\ paymentToken \in Tokens
      /\ feeLogic \in FeeLogics /\ GasCosts \subseteq Nat
  BY PreFundAssumption DEF IInv, TokenTypes, GasCosts
<1>1. ASSUME NEW op \in Ops, approvalSigned(op)
      PROVE  FeesInv'
  BY <1>1, QuietFees DEF approvalSigned, signApproval, book, frame, pmState, tokenState
<1>2. ASSUME NEW e \in EntryPoints, NEW ops \in Bundles, bundleSubmitted(e, ops)
      PROVE  FeesInv'
  BY <1>2, SubmitFees
<1>3. ASSUME validatePaymasterUserOp
      PROVE  FeesInv'
  BY <1>3, ValidateFees
<1>4. ASSUME validationFails
      PROVE  FeesInv'
  BY <1>4, RevertFees DEF validationFails
<1>5. ASSUME NEW gas \in GasCosts, postOp(gas)
      PROVE  FeesInv'
  <2> DEFINE v == AfterCall(Op, wallet)
  <2>1. phase = "execute" /\ Op \in Ops /\ Op.sender \in Senders
    BY <1>5, CurrentOp DEF postOp, IInv
  <2>2. /\ v \in Wallets
        /\ \A u \in Tokens : v.balance[u][Paymaster] = wallet.balance[u][Paymaster]
    BY <1>0, <2>1, AfterCallEffect
  <2>3. Collects(v, Op.sender, gas) /\ wallet' = Charged(v, Op.sender, gas)
    BY <1>5 DEF postOp
  <2> HIDE DEF v
  <2>4. \A t \in Tokens :
           wallet'.balance[t][Paymaster]
             = v.balance[t][Paymaster] + IF t = paymentToken THEN calculateFee(gas) ELSE 0
    BY <1>0, <2>1, <2>2, <2>3, ChargedEffect, Zenon
  <2>5. \A t \in Tokens :
           wallet'.balance[t][Paymaster]
             = wallet.balance[t][Paymaster] + IF t = paymentToken THEN calculateFee(gas) ELSE 0
    BY <2>2, <2>4
  <2>6. feeLogic.markupDenominator # 0 /\ UNCHANGED withdrawn
    BY <1>5, <2>3 DEF postOp, Collects
  <2>7. PICK cost \in Billed(gas) : payGas(cost)
    BY <1>5 DEF postOp
  <2> QED BY <1>0, <2>5, <2>6, <2>7, PaidFees
<1>6. ASSUME NEW gas \in GasCosts, NEW more \in GasCosts, postOpReverted(gas, more)
      PROVE  FeesInv'
  <2>1. phase = "execute" /\ Op \in Ops /\ Op.sender \in Senders
    BY <1>6, CurrentOp DEF postOpReverted, IInv
  <2>2. /\ Collects(wallet, Op.sender, more) /\ wallet' = Charged(wallet, Op.sender, more)
        /\ feeLogic.markupDenominator # 0 /\ UNCHANGED withdrawn
    BY <1>6 DEF postOpReverted, Collects
  <2>3. \A t \in Tokens :
           wallet'.balance[t][Paymaster]
             = wallet.balance[t][Paymaster] + IF t = paymentToken THEN calculateFee(more) ELSE 0
    BY <1>0, <2>1, <2>2, ChargedEffect
  <2>4. PICK cost \in Billed(more) : payGas(cost)
    BY <1>6 DEF postOpReverted
  <2> QED BY <1>0, <2>2, <2>3, <2>4, PaidFees
<1>7. ASSUME NEW gas \in GasCosts, NEW more \in GasCosts, postOpRevertsAgain(gas, more)
      PROVE  FeesInv'
  BY <1>7, RevertFees DEF postOpRevertsAgain
<1>8. ASSUME \/ \E f \in FeeLogics : updateFeeLogic(f)
             \/ \E t \in Tokens : updatePaymentToken(t)
      PROVE  FeesInv'
  BY <1>8, QuietFees DEF updateFeeLogic, updatePaymentToken, book, frame, pmState
<1>9. ASSUME NEW e \in EntryPoints, depositFunded(e, 1)
      PROVE  FeesInv'
  BY <1>9, FundFees
<1>10. ASSUME UNCHANGED vars
       PROVE  FeesInv'
  BY <1>10, QuietFees DEF vars, book, frame, pmState, tokenState
<1> QED BY <1>1, <1>2, <1>3, <1>4, <1>5, <1>6, <1>7, <1>8, <1>9, <1>10, WithdrawFees, ReceiveFees
        DEF Next

\* Initially nothing is executed and the paymaster has no tokens.
LEMMA InitFees == Init => FeesInv
<1> SUFFICES ASSUME Init PROVE FeesInv
  OBVIOUS
<1>1. /\ phase = "idle" /\ withdrawn = 0 /\ funded = Stake
      /\ \A op \in Ops : executed[op] = 0
      /\ \A t \in Tokens : Fees(wallet)[t] = 0
      /\ \A e \in EntryPoints : deposit[e][Paymaster] = Stake
  BY PayersAssumption DEF Init, SponsorInit, EPInit, Fees, Holders
<1>2. SumFunctionOnSet(executed, Ops) = 0
  BY <1>1, OpsAssumption, SumZero
<1>3. SumFunctionOnSet(Fees(wallet), Tokens) = 0
  BY <1>1, TokensAssumption, SumZero
<1>4. \A e \in EntryPoints : GasTaken(e) = 0
  <2>1. Unsettled = 0 /\ RequiredPreFund * 0 = 0 /\ Stake \in Nat
    BY <1>1, PreFundAssumption, StakeAssumption DEF Unsettled
  <2> QED BY <1>1, <2>1 DEF GasTaken
<1>5. \A f \in FeeLogics : f.price * (0 - PostOpGas * 0) = 0 /\ f.scale * ((0 + 0) + 0) = 0
  BY TokensAssumption
<1>6. \A f \in FeeLogics : f.price * (0 - PostOpGas * 0) <= f.scale * ((0 + 0) + 0)
  <2>1. 0 <= 0
    OBVIOUS
  <2> QED BY <1>5, <2>1, Zenon
<1>7. \A e \in EntryPoints : FeesCover(executed, wallet, withdrawn, GasTaken(e))
  <2> SUFFICES ASSUME NEW e \in EntryPoints, NEW f \in FeeLogics
               PROVE  f.price * (GasTaken(e) - PostOpGas * SumFunctionOnSet(executed, Ops))
                        <= f.scale * ((withdrawn + SumFunctionOnSet(Fees(wallet), Tokens))
                                        + SumFunctionOnSet(executed, Ops))
    BY Zenon DEF FeesCover
  <2>1. GasTaken(e) = 0 /\ withdrawn = 0
    BY <1>1, <1>4
  <2> QED BY <1>2, <1>3, <1>6, <2>1, Zenon
<1> QED BY <1>1, <1>7, Zenon DEF FeesInv

\* The fees the paymaster received are worth the gas its deposit paid, at the
\* price of the cheapest fee logic, up to the cost of postOp itself and less than
\* one token per operation.
THEOREM FeesWorthGas == Spec => []FeesCoverGas
<1>1. IInv /\ FeesInv => FeesCoverGas
  <2> SUFFICES ASSUME IInv, FeesInv, phase = "idle", NEW e \in EntryPoints,
                      NEW f \in FeeLogics, Cheapest(f)
               PROVE  f.price * ((funded - deposit[e][Paymaster]) - PostOpGas * SumFunction(executed))
                        <= f.scale * (Received + SumFunction(executed))
    BY DEF FeesCoverGas
  <2>1. DOMAIN executed = Ops /\ DOMAIN Fees(wallet) = Tokens
    BY DEF IInv, SponsorTypeOK, BookType, Fees
  <2>2. /\ SumFunction(executed) = SumFunctionOnSet(executed, Ops)
        /\ SumFunction(Fees(wallet)) = SumFunctionOnSet(Fees(wallet), Tokens)
    BY <2>1 DEF SumFunction
  <2>3. Received = withdrawn + SumFunctionOnSet(Fees(wallet), Tokens)
    BY <2>2 DEF Received, Fees
  <2>4. GasTaken(e) = funded - deposit[e][Paymaster]
    <3>1. Unsettled = 0 /\ RequiredPreFund * 0 = 0
      BY PreFundAssumption DEF Unsettled
    <3>2. funded - deposit[e][Paymaster] \in Int
      BY GasType DEF IInv
    <3> QED BY <3>1, <3>2 DEF GasTaken
  <2>5. f.price * (GasTaken(e) - PostOpGas * SumFunctionOnSet(executed, Ops))
          <= f.scale * ((withdrawn + SumFunctionOnSet(Fees(wallet), Tokens))
                          + SumFunctionOnSet(executed, Ops))
    BY DEF FeesInv, FeesCover
  <2> QED BY <2>2, <2>3, <2>4, <2>5
<1>2. Init => IInv /\ FeesInv
  BY InitIInv, InitFees
<1>3. IInv /\ FeesInv /\ [Next]_vars => (IInv /\ FeesInv)'
  BY NextIInv, NextFees
<1> QED BY <1>1, <1>2, <1>3, PTL DEF Spec

-----------------------------------------------------------------------------
(* The sponsorship.                                                        *)

\* EnclaveVerifyingTokenPaymaster sponsors as EnclaveVerifyingPaymaster does: the
\* fees, and a postOp that fails, add nothing to what it agrees to pay.
THEOREM TokenSponsors == Spec => SponsorSpec
<1>1. ASSUME Next
      PROVE  [SponsorNext]_sponsorVars
  <2>1. Saves(Snapshot)
    BY DEF Saves, Snapshot
  <2>2. \A op : approvalSigned(op) => signApproval(op)
    BY DEF approvalSigned
  <2>3. \A e, ops : bundleSubmitted(e, ops) => submitBundle(e, ops, Snapshot)
    BY DEF bundleSubmitted
  <2>4. validatePaymasterUserOp => grant
    BY DEF validatePaymasterUserOp
  <2>5. \/ validationFails \/ \E gas, more \in GasCosts : postOpRevertsAgain(gas, more)
        => phase # "idle" /\ failedOp
    BY DEF validationFails, postOpRevertsAgain, revertTransaction
  <2>6. \/ \E gas \in GasCosts : postOp(gas)
        \/ \E gas, more \in GasCosts : postOpReverted(gas, more)
        => \E cost \in GasCosts : payGas(cost)
    BY DEF postOp, postOpReverted, Billed
  <2>7. \/ \E f \in FeeLogics : updateFeeLogic(f)
        \/ \E t \in Tokens : updatePaymentToken(t)
        \/ \E amount \in 1..MaxTokens : withdrawTokens(amount)
        \/ \E t \in Tokens, s \in Senders : receiveTokens(t, s)
        => UNCHANGED sponsorVars
    BY DEF updateFeeLogic, updatePaymentToken, withdrawTokens, receiveTokens, sponsorVars
  <2>8. (\E e \in EntryPoints : depositFunded(e, 1))
        => \E e \in EntryPoints, amount \in Int : fundDeposit(e, amount)
    BY DEF depositFunded
  <2> QED BY <1>1, <2>1, <2>2, <2>3, <2>4, <2>5, <2>6, <2>7, <2>8 DEF Next, SponsorNext
<1>2. UNCHANGED vars => UNCHANGED sponsorVars
  BY DEF vars, sponsorVars
<1>3. Init => SponsorInit
  BY DEF Init
<1>4. [Next]_vars => [SponsorNext]_sponsorVars
  BY <1>1, <1>2
<1> QED BY <1>3, <1>4, PTL DEF Spec, SponsorSpec

\* What the service approved, once per reading, sender and bundle, is all the
\* gas the token paymaster can be made to pay, also for fees it fails to collect.
THEOREM TokenSponsorshipSound ==
    Spec => [](/\ GrantsApproved /\ OneGrantPerReading
               /\ OneOpPerSenderPerBundle /\ ExposureBounded)
BY SponsorshipSound, TokenSponsors, PTL

=============================================================================
