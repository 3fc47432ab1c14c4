-------------------------- MODULE TokenVaultProofs --------------------------
(***************************************************************************)
(* Proofs about TokenVault, for every set of tokens, every number of users *)
(* and every supply.                                                       *)
(***************************************************************************)
EXTENDS TokenVault, TLAPS

Rising(s) == \A i, j \in Addresses : i <= j => s[i] <= s[j]

\* Covered, with the running total also known to rise: the fact an induction
\* over users would give.
Backed(c, b) ==
    \E s \in [Addresses -> 0..b] : RunningTotal(s, c) /\ Rising(s)

\* Nobody is owed anything.
LEMMA BackedNothing ==
    Backed([u \in Users |-> 0], 0)
<1> DEFINE s == [i \in Addresses |-> 0]
<1>1. s \in [Addresses -> 0..0] /\ RunningTotal(s, [u \in Users |-> 0]) /\ Rising(s)
    BY NAssumption DEF RunningTotal, Rising, Users, Addresses
<1> QED BY <1>1 DEF Backed

\* More balance backs the same credit.
LEMMA BackedMore ==
    ASSUME NEW c, NEW b \in Nat, NEW d \in Nat, b <= d, Backed(c, b)
    PROVE  Backed(c, d)
<1>1. PICK s \in [Addresses -> 0..b] : RunningTotal(s, c) /\ Rising(s)
    BY DEF Backed
<1>2. s \in [Addresses -> 0..d]
    BY <1>1
<1> QED BY <1>1, <1>2 DEF Backed

\* A credit and the balance may grow by the same amount.
LEMMA BackedCredit ==
    ASSUME NEW c \in [Users -> Nat], NEW b \in Nat, NEW u \in Users,
           NEW a \in Nat, Backed(c, b)
    PROVE  Backed([c EXCEPT ![u] = @ + a], b + a)
<1>1. PICK s \in [Addresses -> 0..b] : RunningTotal(s, c) /\ Rising(s)
    BY DEF Backed
<1> DEFINE r == [i \in Addresses |-> IF i >= u THEN s[i] + a ELSE s[i]]
           e == [c EXCEPT ![u] = @ + a]
<1>2. r \in [Addresses -> 0..(b + a)]
    BY NAssumption, <1>1 DEF Users, Addresses
<1>3. Rising(r)
    BY NAssumption, <1>1 DEF Rising, Users, Addresses
<1>4. r[0] = 0
    BY NAssumption, <1>1 DEF RunningTotal, Users, Addresses
<1>5. ASSUME NEW i \in Users PROVE r[i] = r[i-1] + e[i]
    <2>1. /\ i \in Addresses /\ i - 1 \in Addresses
          /\ s[i] = s[i-1] + c[i]
          /\ s[i-1] \in Nat /\ c[i] \in Nat /\ u \in Int /\ i \in Int
        BY NAssumption, <1>1 DEF RunningTotal, Users, Addresses
    <2>2. CASE i = u
        BY <2>1, <2>2
    <2>3. CASE i # u
        BY <2>1, <2>3
    <2> QED BY <2>2, <2>3
<1>6. RunningTotal(r, e)
    BY <1>4, <1>5 DEF RunningTotal
<1> QED BY <1>2, <1>3, <1>6 DEF Backed

\* A credit that is large enough and the balance may fall by the same amount.
LEMMA BackedDebit ==
    ASSUME NEW c \in [Users -> Nat], NEW b \in Nat, NEW u \in Users,
           NEW a \in Nat, Backed(c, b), c[u] >= a
    PROVE  b >= a /\ Backed([c EXCEPT ![u] = @ - a], b - a)
<1>1. PICK s \in [Addresses -> 0..b] : RunningTotal(s, c) /\ Rising(s)
    BY DEF Backed
<1> DEFINE r == [i \in Addresses |-> IF i >= u THEN s[i] - a ELSE s[i]]
           e == [c EXCEPT ![u] = @ - a]
<1>2. /\ u \in Addresses /\ u - 1 \in Addresses
      /\ s[u] = s[u-1] + c[u] /\ s[u-1] \in Nat /\ c[u] \in Nat
    BY NAssumption, <1>1 DEF RunningTotal, Users, Addresses
<1>3. \A i \in Addresses : /\ i >= u => s[i] >= s[u]
                           /\ i < u => s[i] <= s[u-1]
    BY NAssumption, <1>1, <1>2 DEF Rising, Users, Addresses
<1>4. /\ N \in Addresses /\ N >= u /\ s[N] <= b /\ s[N] >= s[u]
    BY <1>1, <1>2, <1>3, NAssumption DEF Users, Addresses
<1>5. b >= a
    BY <1>2, <1>4
<1>6. \A i \in Addresses : s[i] \in Nat /\ s[i] <= b
    BY <1>1
<1>7. ASSUME NEW i \in Addresses PROVE r[i] \in 0..(b - a)
    <2>1. CASE i >= u
        <3>1. s[i] >= s[u] /\ s[i] \in Nat /\ s[i] <= b
            BY <1>3, <1>6, <2>1
        <3>2. r[i] = s[i] - a /\ s[u] \in Nat /\ s[u] >= a
            BY <1>2, <1>6, <2>1
        <3> QED BY <3>1, <3>2
    <2>2. CASE i < u
        <3>1. s[i] <= s[u-1] /\ s[i] \in Nat
            BY <1>3, <1>6, <2>2
        <3>2. i \in Int /\ u \in Int
            BY NAssumption, <1>2 DEF Addresses
        <3>3. r[i] = s[i]
            BY <2>2, <3>2
        <3>4. s[N] \in Nat /\ s[u] \in Nat
            BY <1>2, <1>4, <1>6
        <3> QED BY <1>2, <1>4, <3>1, <3>3, <3>4
    <2> QED BY NAssumption, <2>1, <2>2 DEF Addresses, Users
<1>8. Rising(r)
    <2> SUFFICES ASSUME NEW i \in Addresses, NEW j \in Addresses, i <= j
                 PROVE  r[i] <= r[j]
        BY DEF Rising
    <2>1. s[i] <= s[j]
        BY <1>1 DEF Rising
    <2>2. /\ i \in Int /\ j \in Int /\ u \in Int
          /\ s[i] \in Nat /\ s[j] \in Nat /\ s[u] \in Nat
        BY NAssumption, <1>2, <1>6 DEF Addresses, Users
    <2>3. CASE i < u /\ j >= u
        <3>1. s[i] <= s[u-1] /\ s[u] <= s[j]
            BY <1>3, <2>3
        <3> QED BY <3>1, <2>2, <2>3, <1>2
    <2>4. CASE ~(i < u /\ j >= u)
        BY <2>1, <2>2, <2>4
    <2> QED BY <2>3, <2>4
<1>9. r[0] = 0
    BY NAssumption, <1>1 DEF RunningTotal, Users, Addresses
<1>10. ASSUME NEW i \in Users PROVE r[i] = r[i-1] + e[i]
    <2>1. /\ i \in Addresses /\ i - 1 \in Addresses
          /\ s[i] = s[i-1] + c[i]
          /\ s[i-1] \in Nat /\ c[i] \in Nat /\ u \in Int /\ i \in Int
        BY NAssumption, <1>1 DEF RunningTotal, Users, Addresses
    <2>2. CASE i = u
        BY <2>1, <2>2
    <2>3. CASE i # u
        BY <2>1, <2>3
    <2> QED BY <2>2, <2>3
<1>11. RunningTotal(r, e)
    BY <1>9, <1>10, Zenon DEF RunningTotal
<1>12. r \in [Addresses -> 0..(b - a)]
    BY <1>7
<1> QED BY <1>5, <1>8, <1>11, <1>12 DEF Backed

-----------------------------------------------------------------------------
(* The inductive invariant.                                                *)

\* What a committed state, hence a state to roll back to, satisfies.
Sound(st) ==
    /\ \A t \in Exact : Backed(st.deposits[t], st.vaultBalance[t])
    /\ st.isVaultManager # {}

\* Tokens t in the vault that belong to no credit because of the open call: a
\* deposit that arrived and is not credited yet, a payout debited and not sent.
Due(t) ==
    IF /\ calls # <<>>
       /\ calls[1].tok = t
       /\ calls[1].at = IF calls[1].fn = "deposit" THEN "return" ELSE "token"
    THEN calls[1].amount
    ELSE 0

CreditsBacked ==
    \A t \in Exact : /\ vaultBalance[t] >= Due(t)
                      /\ Backed(deposits[t], vaultBalance[t] - Due(t))

OneCall == calls = <<>> \/ \E f \in FrameType : calls = <<f>> /\ Sound(f.saved)

IInv == TypeOK /\ ManagerExists /\ CreditsBacked /\ OneCall

\* An empty vault satisfies the invariant.
LEMMA InitIInv == Init => IInv
<1> SUFFICES ASSUME Init PROVE IInv
    OBVIOUS
<1> USE DEF Init
<1>1. TypeOK
    BY SupplyAssumption, NAssumption DEF TypeOK, State, StateType, Deployer, Users
<1>2. ManagerExists
    BY NAssumption DEF ManagerExists, Deployer, Users, Addresses
<1>3. CreditsBacked
    <2> SUFFICES ASSUME NEW t \in Exact
                 PROVE  vaultBalance[t] >= Due(t) /\ Backed(deposits[t], vaultBalance[t] - Due(t))
        BY Zenon DEF CreditsBacked
    <2>1. vaultBalance[t] = 0 /\ Due(t) = 0 /\ deposits[t] = [u \in Users |-> 0]
        BY ExactAssumption DEF Due
    <2> QED BY <2>1, BackedNothing
<1>4. OneCall
    BY DEF OneCall
<1> QED BY <1>1, <1>2, <1>3, <1>4 DEF IInv

\* The types of the single variables, and of the state saved by a new frame.
LEMMA Types ==
    ASSUME TypeOK
    PROVE  /\ deposits \in [Tokens -> [Users -> Nat]]
           /\ isVaultManager \in SUBSET Users
           /\ balance \in [Exact -> [Users -> Nat]]
           /\ vaultBalance \in [Exact -> Nat]
           /\ allowance \in [Exact -> [Users -> Nat]]
BY DEF TypeOK, State, StateType

\* Changing one entry of a table of amounts to an amount.
LEMMA Entry ==
    ASSUME NEW S, NEW h \in [S -> [Users -> Nat]], NEW t \in S, NEW u \in Users,
           NEW v \in Nat
    PROVE  /\ [h EXCEPT ![t][u] = v] \in [S -> [Users -> Nat]]
           /\ h[t][u] \in Nat
OBVIOUS

\* With one call in progress the frame operators act on that call.
LEMMA TopOfOne ==
    ASSUME NEW f, calls = <<f>>
    PROVE  /\ calls # <<>> /\ calls[1] = f
           /\ Top = f
           /\ Pop = <<>>
           /\ Moved = <<[f EXCEPT !.at = "return"]>>
BY DEF Top, Pop, Moved

\* TypeOK and OneCall follow from the types of the next values and of the frame.
LEMMA TypesBack ==
    ASSUME deposits' \in [Tokens -> [Users -> Nat]],
           isVaultManager' \in SUBSET Users,
           balance' \in [Exact -> [Users -> Nat]],
           vaultBalance' \in [Exact -> Nat],
           allowance' \in [Exact -> [Users -> Nat]],
           calls' \in Seq(FrameType)
    PROVE  TypeOK'
BY DEF TypeOK, State, StateType

\* Opening a guarded call: the guard leaves no other frame, and the state that
\* is saved is a sound one.
LEMMA OpenFrame ==
    ASSUME IInv, nonReentrant, NEW u \in Users, NEW t \in Tokens,
           NEW a \in Nat, a > 0, NEW fn \in {"deposit", "withdraw", "claim"},
           Open(Frame(fn, u, t, a))
    PROVE  /\ Frame(fn, u, t, a) \in FrameType
           /\ calls' = <<Frame(fn, u, t, a)>>
           /\ calls' \in Seq(FrameType)
           /\ OneCall'
<1> DEFINE f == Frame(fn, u, t, a)
<1>1. f \in FrameType
    BY DEF IInv, TypeOK, Frame, FrameType
<1>2. calls' = <<f>>
    BY DEF Open, nonReentrant
<1>3. Sound(f.saved)
    <2>1. ASSUME NEW x \in Exact PROVE Backed(deposits[x], vaultBalance[x])
        <3>1. Due(x) = 0 /\ vaultBalance[x] \in Nat
            BY Types DEF Due, nonReentrant, IInv
        <3> QED BY <3>1 DEF IInv, CreditsBacked
    <2>2. f.saved.deposits = deposits /\ f.saved.vaultBalance = vaultBalance
          /\ f.saved.isVaultManager = isVaultManager
        BY DEF Frame, State
    <2> QED BY <2>1, <2>2 DEF Sound, IInv, ManagerExists
<1>4. calls' \in Seq(FrameType)
    BY <1>1, <1>2
<1>5. OneCall'
    BY <1>1, <1>2, <1>3, Zenon DEF OneCall, Sound, Backed, RunningTotal, Rising, FrameType,
                                   StateType
<1> QED BY <1>1, <1>2, <1>4, <1>5

\* A step that leaves credits, frames and the vault's tokens alone, or lets the
\* vault's tokens grow, keeps the credits backed.
LEMMA BackedStays ==
    ASSUME IInv, UNCHANGED <<deposits, calls>>,
           vaultBalance' \in [Exact -> Nat],
           \A t \in Exact : vaultBalance'[t] >= vaultBalance[t]
    PROVE  CreditsBacked' /\ OneCall'
<1>1. ASSUME NEW t \in Exact
      PROVE  vaultBalance'[t] >= Due(t)' /\ Backed(deposits'[t], vaultBalance'[t] - Due(t)')
    <2>1. Due(t)' = Due(t) /\ deposits'[t] = deposits[t]
        BY DEF Due
    <2>2. /\ vaultBalance[t] \in Nat /\ vaultBalance'[t] \in Nat
          /\ vaultBalance'[t] >= vaultBalance[t]
        BY Types DEF IInv
    <2>3. Due(t) \in Nat
        BY DEF IInv, OneCall, Due, FrameType
    <2>4. vaultBalance[t] >= Due(t) /\ Backed(deposits[t], vaultBalance[t] - Due(t))
        BY DEF IInv, CreditsBacked
    <2> QED BY <2>1, <2>2, <2>3, <2>4, BackedMore
<1>2. CreditsBacked'
    BY <1>1 DEF CreditsBacked
<1>3. OneCall'
    BY DEF IInv, OneCall
<1> QED BY <1>2, <1>3

\* Every step preserves it.
LEMMA NextIInv == IInv /\ [Next]_vars => IInv'
<1> SUFFICES ASSUME IInv, [Next]_vars PROVE IInv'
    OBVIOUS
<1> USE Types, ExactAssumption DEF IInv
<1>1. ASSUME NEW m \in Users, NEW n \in Addresses, addVaultManager(m, n) PROVE IInv'
    <2>1. isVaultManager' \in SUBSET Users /\ ManagerExists'
        BY <1>1 DEF addVaultManager, ManagerExists, Users, Addresses
    <2>2. UNCHANGED <<deposits, balance, vaultBalance, allowance, calls>>
        BY <1>1 DEF addVaultManager, token
    <2>3. TypeOK'
        BY <2>1, <2>2, TypesBack DEF TypeOK
    <2>4. CreditsBacked' /\ OneCall'
        BY <2>2, BackedStays
    <2> QED BY <2>1, <2>3, <2>4
<1>2. ASSUME NEW m \in Users, NEW n \in Addresses, removeVaultManager(m, n) PROVE IInv'
    <2>1. isVaultManager' \in SUBSET Users /\ ManagerExists'
        BY <1>2 DEF removeVaultManager, ManagerExists, onlyVaultManager, NotSelf
    <2>2. UNCHANGED <<deposits, balance, vaultBalance, allowance, calls>>
        BY <1>2 DEF removeVaultManager, token
    <2>3. TypeOK'
        BY <2>1, <2>2, TypesBack DEF TypeOK
    <2>4. CreditsBacked' /\ OneCall'
        BY <2>2, BackedStays
    <2> QED BY <2>1, <2>3, <2>4
<1>3. ASSUME NEW u \in Users, NEW t \in Tokens, NEW a \in Amounts, deposit(u, t, a) PROVE IInv'
    <2>1. a \in Nat /\ a > 0 /\ nonReentrant /\ Open(Frame("deposit", u, t, a))
          /\ UNCHANGED <<deposits, isVaultManager, balance, vaultBalance, allowance>>
        BY <1>3, AmountsAssumption DEF deposit, store, token
    <2>2. calls' = <<Frame("deposit", u, t, a)>> /\ calls' \in Seq(FrameType) /\ OneCall'
        BY <2>1, OpenFrame
    <2>3. TypeOK' /\ ManagerExists'
        BY <2>1, <2>2, TypesBack DEF ManagerExists
    <2>4. CreditsBacked'
        BY <2>1, <2>2 DEF CreditsBacked, Due, Frame, nonReentrant
    <2> QED BY <2>2, <2>3, <2>4
<1>4. ASSUME NEW u \in Users, NEW o \in Users, NEW t \in Tokens, NEW a \in Amounts,
             NEW fn \in {"withdraw", "claim"},
             nonReentrant, a > 0, SufficientCredit(t, o, a),
             deposits' = Debited(t, o, a), Open(Frame(fn, u, t, a)),
             UNCHANGED <<isVaultManager, balance, vaultBalance, allowance>>
      PROVE  IInv'
    <2>1. a \in Nat
        BY AmountsAssumption
    <2>2. calls' = <<Frame(fn, u, t, a)>> /\ calls' \in Seq(FrameType) /\ OneCall'
        BY <1>4, <2>1, OpenFrame
    <2>3. deposits' \in [Tokens -> [Users -> Nat]]
        BY <1>4, <2>1 DEF Debited, SufficientCredit
    <2>4. TypeOK' /\ ManagerExists'
        BY <1>4, <2>2, <2>3, TypesBack DEF ManagerExists
    <2>5. ASSUME NEW x \in Exact
          PROVE  vaultBalance'[x] >= Due(x)' /\ Backed(deposits'[x], vaultBalance'[x] - Due(x)')
        <3>1. Due(x) = 0 /\ vaultBalance[x] \in Nat /\ vaultBalance'[x] = vaultBalance[x]
            BY <1>4 DEF Due, nonReentrant
        <3>2. Backed(deposits[x], vaultBalance[x])
            BY <3>1 DEF CreditsBacked
        <3>3. CASE x = t
            <4>1. Due(x)' = a
                BY <2>2, <3>3 DEF Due, Frame
            <4>2. deposits'[x] = [deposits[x] EXCEPT ![o] = @ - a]
                BY <1>4, <3>3 DEF Debited
            <4>3. deposits[x] \in [Users -> Nat] /\ deposits[x][o] >= a
                BY <1>4, <3>3 DEF SufficientCredit
            <4>4. /\ vaultBalance[x] >= a
                  /\ Backed([deposits[x] EXCEPT ![o] = @ - a], vaultBalance[x] - a)
                BY <3>1, <3>2, <4>3, <2>1, BackedDebit, Zenon
            <4> QED BY <3>1, <4>1, <4>2, <4>4
        <3>4. CASE x # t
            <4>1. Due(x)' = 0
                BY <2>2, <3>4 DEF Due, Frame
            <4>2. deposits'[x] = deposits[x]
                BY <1>4, <3>4 DEF Debited
            <4> QED BY <3>1, <3>2, <4>1, <4>2
        <3> QED BY <3>3, <3>4
    <2>6. CreditsBacked'
        BY <2>5 DEF CreditsBacked
    <2> QED BY <2>2, <2>4, <2>6
<1>5. ASSUME NEW u \in Users, NEW t \in Tokens, NEW a \in Amounts, withdraw(u, t, a) PROVE IInv'
    BY <1>4, <1>5 DEF withdraw, token
<1>6. ASSUME NEW m \in Users, NEW u \in Users, NEW t \in Tokens, NEW a \in Amounts,
             claim(m, t, a, u)
      PROVE  IInv'
    BY <1>4, <1>6 DEF claim, token
<1>7. ASSUME NEW f \in FrameType, calls = <<f>>, Sound(f.saved),
             TokenPulls \/ TokenPays \/ OtherTokenReturns
      PROVE  IInv'
    <2> DEFINE g == [f EXCEPT !.at = "return"]
    <2>1. /\ Top = f /\ calls' = <<g>> /\ f.at = "token"
          /\ UNCHANGED <<deposits, isVaultManager>>
        BY <1>7, TopOfOne DEF TokenPulls, TokenPays, OtherTokenReturns, store
    <2>2. g \in FrameType /\ g.saved = f.saved /\ g.tok = f.tok /\ g.fn = f.fn
          /\ g.amount = f.amount /\ g.at = "return"
          /\ f.amount \in Nat /\ f.tok \in Tokens /\ f.caller \in Users
        BY <1>7, Zenon DEF FrameType
    <2>3. OneCall' /\ calls' \in Seq(FrameType)
        <3> HIDE DEF g
        <3>1. Sound(g.saved)
            BY <1>7, <2>2
        <3> QED BY <2>1, <2>2, <3>1 DEF OneCall
    <2>4. /\ balance' \in [Exact -> [Users -> Nat]]
          /\ allowance' \in [Exact -> [Users -> Nat]]
          /\ vaultBalance' \in [Exact -> Nat]
        <3>1. CASE TokenPulls
            <4>1. /\ balance[f.tok][f.caller] - f.amount \in Nat
                  /\ allowance[f.tok][f.caller] - f.amount \in Nat
                  /\ vaultBalance[f.tok] + f.amount \in Nat /\ f.tok \in Exact
                BY <3>1, <2>1, <2>2, Entry DEF TokenPulls
            <4>2. /\ balance' = [balance EXCEPT ![f.tok][f.caller] = @ - f.amount]
                  /\ allowance' = [allowance EXCEPT ![f.tok][f.caller] = @ - f.amount]
                  /\ vaultBalance' = [vaultBalance EXCEPT ![f.tok] = @ + f.amount]
                BY <3>1, <2>1 DEF TokenPulls
            <4> QED BY <4>1, <4>2, <2>2, Entry
        <3>2. CASE TokenPays
            <4>1. /\ balance[f.tok][f.caller] + f.amount \in Nat
                  /\ vaultBalance[f.tok] - f.amount \in Nat /\ f.tok \in Exact
                BY <3>2, <2>1, <2>2, Entry DEF TokenPays
            <4> QED BY <3>2, <4>1, <2>1, <2>2, Entry DEF TokenPays
        <3>3. CASE OtherTokenReturns
            BY <3>3 DEF OtherTokenReturns, token
        <3> QED BY <1>7, <3>1, <3>2, <3>3
    <2>5. TypeOK' /\ ManagerExists'
        BY <2>1, <2>3, <2>4, TypesBack DEF ManagerExists
    <2>6. ASSUME NEW x \in Exact
          PROVE  vaultBalance'[x] - Due(x)' = vaultBalance[x] - Due(x) /\ Due(x)' \in Nat
        <3>1. Due(x) = IF f.tok = x /\ f.fn # "deposit" THEN f.amount ELSE 0
            BY <1>7, <2>1, TopOfOne DEF Due
        <3>2. Due(x)' = IF f.tok = x /\ f.fn = "deposit" THEN f.amount ELSE 0
            BY <2>1, <2>2, Zenon DEF Due
        <3>3. vaultBalance'[x] = IF f.tok = x
                                 THEN IF f.fn = "deposit" THEN vaultBalance[x] + f.amount
                                                          ELSE vaultBalance[x] - f.amount
                                 ELSE vaultBalance[x]
            BY <1>7, <2>1, <2>2 DEF TokenPulls, TokenPays, OtherTokenReturns, token
        <3> QED BY <2>2, <3>1, <3>2, <3>3
    <2>7. CreditsBacked'
        <3> SUFFICES ASSUME NEW x \in Exact
                     PROVE  /\ vaultBalance'[x] >= Due(x)'
                            /\ Backed(deposits'[x], vaultBalance'[x] - Due(x)')
            BY DEF CreditsBacked
        <3>1. vaultBalance[x] >= Due(x) /\ Backed(deposits[x], vaultBalance[x] - Due(x))
            BY DEF CreditsBacked
        <3>2. vaultBalance'[x] \in Nat /\ vaultBalance[x] \in Nat /\ Due(x) \in Nat
            BY <1>7, <2>2, <2>4 DEF Due
        <3> QED BY <2>1, <2>6, <3>1, <3>2
    <2> QED BY <2>3, <2>5, <2>7
<1>8. ASSUME NEW f \in FrameType, calls = <<f>>, depositReturns
      PROVE  IInv'
    <2>1. /\ calls' = <<>> /\ f.fn = "deposit" /\ f.at = "return"
          /\ deposits' = [deposits EXCEPT ![f.tok][f.caller] = @ + f.amount]
          /\ UNCHANGED <<isVaultManager, balance, vaultBalance, allowance>>
        BY <1>8, TopOfOne, Zenon DEF depositReturns, token
    <2>2. f.amount \in Nat /\ f.tok \in Tokens /\ f.caller \in Users
        BY <1>8 DEF FrameType
    <2>3. TypeOK' /\ ManagerExists' /\ OneCall'
        <3>1. deposits[f.tok][f.caller] + f.amount \in Nat
            BY <2>2, Entry
        <3>2. deposits' \in [Tokens -> [Users -> Nat]] /\ calls' \in Seq(FrameType)
            BY <2>1, <2>2, <3>1, Entry
        <3> QED BY <2>1, <3>2, TypesBack DEF ManagerExists, OneCall
    <2>4. ASSUME NEW x \in Exact PROVE Backed(deposits'[x], vaultBalance'[x])
        <3>1. vaultBalance[x] >= Due(x) /\ Backed(deposits[x], vaultBalance[x] - Due(x))
            BY DEF CreditsBacked
        <3>2. Due(x) = IF f.tok = x THEN f.amount ELSE 0
            BY <1>8, <2>1, TopOfOne DEF Due
        <3>3. CASE f.tok = x
            <4>1. deposits'[x] = [deposits[x] EXCEPT ![f.caller] = @ + f.amount]
                BY <2>1, <3>3
            <4>2. vaultBalance[x] - f.amount \in Nat
                BY <2>2, <3>1, <3>2, <3>3
            <4>3. Backed([deposits[x] EXCEPT ![f.caller] = @ + f.amount],
                         (vaultBalance[x] - f.amount) + f.amount)
                BY <2>2, <3>1, <3>2, <3>3, <4>2, BackedCredit, Zenon
            <4>4. (vaultBalance[x] - f.amount) + f.amount = vaultBalance'[x]
                BY <2>1, <2>2
            <4> QED BY <4>1, <4>3, <4>4
        <3>4. CASE f.tok # x
            BY <2>1, <3>1, <3>2, <3>4
        <3> QED BY <3>3, <3>4
    <2>5. CreditsBacked'
        <3>1. \A x \in Exact : Due(x)' = 0 /\ vaultBalance'[x] \in Nat
            BY <2>1 DEF Due
        <3>2. \A x \in Exact : vaultBalance'[x] - Due(x)' = vaultBalance'[x]
            BY <3>1
        <3> QED BY <2>4, <3>1, <3>2 DEF CreditsBacked
    <2> QED BY <2>3, <2>5
<1>9. ASSUME NEW f \in FrameType, calls = <<f>>, payoutReturns
      PROVE  IInv'
    <2>1. /\ calls' = <<>> /\ f.fn # "deposit" /\ f.at = "return"
          /\ UNCHANGED <<deposits, isVaultManager, balance, vaultBalance, allowance>>
        BY <1>9, TopOfOne DEF payoutReturns, token, store
    <2>2. TypeOK' /\ ManagerExists' /\ OneCall'
        BY <2>1, TypesBack DEF ManagerExists, OneCall
    <2>3. \A x \in Exact : Due(x) = 0 /\ Due(x)' = 0
        BY <1>9, <2>1, TopOfOne DEF Due
    <2>4. CreditsBacked'
        BY <2>1, <2>3 DEF CreditsBacked
    <2> QED BY <2>2, <2>4
<1>10. ASSUME NEW f \in FrameType, calls = <<f>>, Sound(f.saved), callReverts
       PROVE  IInv'
    <2>1. /\ calls' = <<>> /\ f.saved \in StateType
          /\ deposits' = f.saved.deposits /\ isVaultManager' = f.saved.isVaultManager
          /\ balance' = f.saved.balance /\ vaultBalance' = f.saved.vaultBalance
          /\ allowance' = f.saved.allowance
        BY <1>10, TopOfOne DEF callReverts, FrameType
    <2>2. TypeOK' /\ OneCall'
        <3>1. /\ deposits' \in [Tokens -> [Users -> Nat]] /\ isVaultManager' \in SUBSET Users
              /\ balance' \in [Exact -> [Users -> Nat]] /\ vaultBalance' \in [Exact -> Nat]
              /\ allowance' \in [Exact -> [Users -> Nat]] /\ calls' \in Seq(FrameType)
            BY <2>1 DEF StateType
        <3> QED BY <2>1, <3>1, TypesBack, Zenon DEF OneCall
    <2>3. ManagerExists'
        BY <1>10, <2>1 DEF ManagerExists, Sound
    <2>4. ASSUME NEW x \in Exact
          PROVE  vaultBalance'[x] >= Due(x)' /\ Backed(deposits'[x], vaultBalance'[x] - Due(x)')
        <3>1. Due(x)' = 0 /\ vaultBalance'[x] \in Nat
            BY <2>1 DEF Due, StateType
        <3>2. Backed(deposits'[x], vaultBalance'[x])
            BY <1>10, <2>1 DEF Sound
        <3> QED BY <3>1, <3>2
    <2>5. CreditsBacked'
        BY <2>4 DEF CreditsBacked
    <2> QED BY <2>2, <2>3, <2>5
<1>11. ASSUME NEW u \in Users, NEW t \in Exact, NEW a \in Amounts,
              \/ approve(u, t, a)
              \/ \E v \in Users : transferToUser(u, v, t, a)
              \/ transferToVault(u, t, a)
       PROVE  IInv'
    <2>1. /\ a \in Nat /\ UNCHANGED <<deposits, isVaultManager, calls>>
          /\ balance' \in [Exact -> [Users -> Nat]]
          /\ allowance' \in [Exact -> [Users -> Nat]]
          /\ vaultBalance' \in [Exact -> Nat]
          /\ \A x \in Exact : vaultBalance'[x] >= vaultBalance[x]
        <3>1. a \in Nat
            BY AmountsAssumption
        <3>2. CASE approve(u, t, a)
            BY <3>1, <3>2, Entry DEF approve, store
        <3>3. ASSUME NEW v \in Users, transferToUser(u, v, t, a)
              PROVE  /\ UNCHANGED <<deposits, isVaultManager, calls, allowance, vaultBalance>>
                     /\ balance' \in [Exact -> [Users -> Nat]]
            <4>1. balance[t][u] - a \in Nat /\ balance[t][v] + a \in Nat
                BY <3>1, <3>3, Entry DEF transferToUser
            <4> DEFINE h == [balance EXCEPT ![t][u] = balance[t][u] - a]
            <4>2. h \in [Exact -> [Users -> Nat]]
                BY <4>1, Entry
            <4>3. h[t][v] = balance[t][v]
                BY <3>3 DEF transferToUser
            <4>4. [h EXCEPT ![t][v] = balance[t][v] + a] \in [Exact -> [Users -> Nat]]
                BY <4>1, <4>2, Entry, Zenon
            <4> QED BY <3>3, <4>3, <4>4 DEF transferToUser, store
        <3>4. CASE transferToVault(u, t, a)
            <4>1. balance[t][u] - a \in Nat /\ vaultBalance[t] + a \in Nat
                BY <3>1, <3>4, Entry DEF transferToVault
            <4> QED BY <3>1, <3>4, <4>1, Entry DEF transferToVault, store
        <3> QED BY <1>11, <3>1, <3>2, <3>3, <3>4
    <2>2. TypeOK' /\ ManagerExists'
        BY <2>1, TypesBack, Zenon DEF ManagerExists, TypeOK
    <2>3. CreditsBacked' /\ OneCall'
        BY <2>1, BackedStays
    <2> QED BY <2>2, <2>3
<1>12. ASSUME UNCHANGED vars PROVE IInv'
    <2>1. UNCHANGED <<deposits, isVaultManager, balance, vaultBalance, allowance, calls>>
        BY <1>12 DEF vars, store, token
    <2>2. TypeOK' /\ ManagerExists'
        BY <2>1, TypesBack DEF ManagerExists, TypeOK
    <2>3. CreditsBacked' /\ OneCall'
        BY <2>1, BackedStays
    <2> QED BY <2>2, <2>3
<1>13. ASSUME \/ TokenPulls \/ TokenPays \/ OtherTokenReturns
              \/ depositReturns \/ payoutReturns \/ callReverts
       PROVE  IInv'
    <2>1. calls # <<>>
        BY <1>13 DEF TokenPulls, TokenPays, OtherTokenReturns, depositReturns, payoutReturns,
                     callReverts
    <2>2. PICK f \in FrameType : calls = <<f>> /\ Sound(f.saved)
        BY <2>1 DEF OneCall
    <2> QED BY <1>7, <1>8, <1>9, <1>10, <1>13, <2>2
<1> QED BY <1>1, <1>2, <1>3, <1>5, <1>6, <1>11, <1>12, <1>13 DEF Next

\* What the open call has taken aside only adds to what covers the credits.
LEMMA BackedCovers == IInv => Solvency
<1> SUFFICES ASSUME IInv, NEW t \in Exact PROVE Covered(deposits[t], vaultBalance[t])
    BY Zenon DEF Solvency
<1>1. vaultBalance[t] \in Nat /\ Due(t) \in Nat
    BY Types DEF IInv, OneCall, Due, FrameType
<1>2. Backed(deposits[t], vaultBalance[t])
    BY <1>1, BackedMore DEF IInv, CreditsBacked
<1> QED BY <1>2 DEF Backed, Covered

\* For every set of tokens, number of users and supply: the balances and the
\* rollback states keep their types through nested token callbacks.
THEOREM TypeCorrect == Spec => []TypeOK
<1>1. IInv => TypeOK
    BY DEF IInv
<1> QED BY <1>1, InitIInv, NextIInv, PTL DEF Spec

\* For every set of tokens, number of users and supply: the vault can pay all
\* credits in the exact tokens at once, also while a token hook runs inside
\* deposit, withdraw or claim, and whatever other tokens do.
THEOREM AlwaysSolvent == Spec => []Solvency
BY InitIInv, NextIInv, BackedCovers, PTL DEF Spec

\* For every number of users: mutual removal never empties the manager set.
THEOREM AlwaysManaged == Spec => []ManagerExists
<1>1. IInv => ManagerExists
    BY DEF IInv
<1> QED BY <1>1, InitIInv, NextIInv, PTL DEF Spec

-----------------------------------------------------------------------------
(* The refinement.  While a call is open the committed ledger is the one   *)
(* its frame saved, and what the call and the token hooks did since is all *)
(* accounted for by the call's own amount; it shows when the call returns. *)

\* What the token has moved for the call f of the tokens x.
MovedBy(f, x) == IF x = f.tok /\ f.at = "return" THEN f.amount ELSE 0

\* The credits and the vault's tokens inside the call f, compared with those
\* it would roll back to.
Accounted(f) ==
    /\ f.fn = "deposit" =>
          /\ deposits = f.saved.deposits
          /\ \A x \in Exact : vaultBalance[x] >= f.saved.vaultBalance[x] + MovedBy(f, x)
    /\ f.fn # "deposit" =>
          /\ \E o \in Users :
                /\ f.saved.deposits[f.tok][o] >= f.amount
                /\ deposits = [f.saved.deposits EXCEPT ![f.tok][o] = @ - f.amount]
          /\ \A x \in Exact : vaultBalance[x] >= f.saved.vaultBalance[x] - MovedBy(f, x)

CallAccounted == calls # <<>> => Accounted(calls[1])

\* What a call saved, and its fields.
LEMMA FrameFields ==
    ASSUME NEW f \in FrameType
    PROVE  /\ f.fn \in {"deposit", "withdraw", "claim"} /\ f.at \in {"token", "return"}
           /\ f.tok \in Tokens /\ f.caller \in Users /\ f.amount \in Nat /\ f.amount > 0
           /\ f.saved.deposits \in [Tokens -> [Users -> Nat]]
           /\ f.saved.vaultBalance \in [Exact -> Nat]
BY DEF FrameType, StateType

\* Steps that leave credits and frames alone and take nothing from the vault.
LEMMA QuietAccounted ==
    ASSUME IInv, CallAccounted, UNCHANGED <<deposits, calls>>,
           vaultBalance' \in [Exact -> Nat],
           \A x \in Exact : vaultBalance'[x] >= vaultBalance[x]
    PROVE  CallAccounted'
<1> SUFFICES ASSUME calls # <<>>
             PROVE  Accounted(calls[1])'
  BY DEF CallAccounted
<1>1. PICK f \in FrameType : calls = <<f>>
  BY DEF IInv, OneCall
<1>2. calls[1] = f /\ calls'[1] = f /\ Accounted(f)
  BY <1>1 DEF CallAccounted
<1>3. vaultBalance \in [Exact -> Nat] /\ \A x \in Exact : MovedBy(f, x) \in Nat
  BY Types, FrameFields DEF IInv, MovedBy
<1>4. \A x \in Exact, n \in Int : vaultBalance[x] >= n => vaultBalance'[x] >= n
  BY <1>3
<1>5. \A x \in Exact : /\ f.saved.vaultBalance[x] + MovedBy(f, x) \in Int
                        /\ f.saved.vaultBalance[x] - MovedBy(f, x) \in Int
  BY <1>3, FrameFields
<1>6. Accounted(f)'
  BY <1>2, <1>4, <1>5 DEF Accounted, MovedBy
<1> QED BY <1>2, <1>6 DEF Accounted, MovedBy

\* A call is opened.
LEMMA OpenAccounted ==
    ASSUME IInv, nonReentrant, NEW u \in Users, NEW t \in Tokens, NEW a \in Nat, a > 0,
           NEW fn \in {"deposit", "withdraw", "claim"}, Open(Frame(fn, u, t, a)),
           UNCHANGED vaultBalance,
           fn = "deposit" => UNCHANGED deposits,
           fn # "deposit" =>
              \E o \in Users : SufficientCredit(t, o, a) /\ deposits' = Debited(t, o, a)
    PROVE  CallAccounted'
<1>0. PICK f \in FrameType : f = Frame(fn, u, t, a)
  BY OpenFrame
<1>1. calls' = <<f>> /\ calls'[1] = f
  BY <1>0, OpenFrame
<1>2. /\ f.fn = fn /\ f.tok = t /\ f.amount = a /\ f.at = "token"
      /\ f.saved.deposits = deposits /\ f.saved.vaultBalance = vaultBalance
  BY <1>0 DEF Frame, State
<1>3. \A x \in Exact : vaultBalance[x] \in Nat
  BY Types DEF IInv
<1>4. Accounted(f)'
  BY <1>2, <1>3 DEF Accounted, MovedBy, SufficientCredit, Debited
<1> QED BY <1>1, <1>4 DEF CallAccounted, Accounted, MovedBy

\* The token moves what the call is about.
LEMMA TokenAccounted ==
    ASSUME IInv, CallAccounted, TokenPulls \/ TokenPays \/ OtherTokenReturns
    PROVE  CallAccounted'
<1>1. PICK f \in FrameType : calls = <<f>>
  BY DEF IInv, OneCall, TokenPulls, TokenPays, OtherTokenReturns
<1> DEFINE g == [f EXCEPT !.at = "return"]
<1>2. /\ calls' = <<g>> /\ calls'[1] = g /\ f.at = "token" /\ UNCHANGED deposits
      /\ \/ /\ f.tok \in Exact /\ f.fn = "deposit"
            /\ vaultBalance' = [vaultBalance EXCEPT ![f.tok] = @ + f.amount]
         \/ /\ f.tok \in Exact /\ f.fn # "deposit"
            /\ vaultBalance' = [vaultBalance EXCEPT ![f.tok] = @ - f.amount]
         \/ f.tok \notin Exact /\ UNCHANGED vaultBalance
  BY <1>1, TopOfOne DEF TokenPulls, TokenPays, OtherTokenReturns, store, token
<1>3. /\ g.fn = f.fn /\ g.tok = f.tok /\ g.amount = f.amount /\ g.at = "return"
      /\ g.saved = f.saved
  BY DEF FrameType
<1>4. Accounted(f)
  BY <1>1, TopOfOne DEF CallAccounted
<1>5. vaultBalance \in [Exact -> Nat]
  BY Types DEF IInv
<1> HIDE DEF g
<1>6. CASE f.fn = "deposit"
  <2>1. ASSUME NEW x \in Exact
        PROVE  vaultBalance'[x] >= g.saved.vaultBalance[x] + MovedBy(g, x)
    <3>1. vaultBalance[x] >= f.saved.vaultBalance[x] + 0
      BY <1>2, <1>4, <1>6 DEF Accounted, MovedBy
    <3>2. f.saved.vaultBalance[x] \in Nat /\ vaultBalance[x] \in Nat /\ f.amount \in Nat
      BY <1>5, FrameFields
    <3> QED BY <1>2, <1>3, <1>5, <1>6, <3>1, <3>2 DEF MovedBy
  <2> QED BY <1>2, <1>3, <1>4, <1>6, <2>1 DEF Accounted, CallAccounted, MovedBy
<1>7. CASE f.fn # "deposit"
  <2>1. ASSUME NEW x \in Exact
        PROVE  vaultBalance'[x] >= g.saved.vaultBalance[x] - MovedBy(g, x)
    <3>1. vaultBalance[x] >= f.saved.vaultBalance[x] - 0
      BY <1>2, <1>4, <1>7 DEF Accounted, MovedBy
    <3>2. f.saved.vaultBalance[x] \in Nat /\ vaultBalance[x] \in Nat /\ f.amount \in Nat
      BY <1>5, FrameFields
    <3> QED BY <1>2, <1>3, <1>5, <1>7, <3>1, <3>2 DEF MovedBy
  <2> QED BY <1>2, <1>3, <1>4, <1>7, <2>1, Zenon DEF Accounted, CallAccounted, MovedBy
<1> QED BY <1>6, <1>7

\* Token calls that do not come from the vault, and the administration of the
\* managers, leave credits and frames alone and take nothing from the vault.
LEMMA OutsideSteps ==
    ASSUME IInv,
           \/ \E m \in Users, n \in Addresses : addVaultManager(m, n)
           \/ \E m \in Users, n \in Addresses : removeVaultManager(m, n)
           \/ \E u \in Users, t \in Exact, a \in Amounts : approve(u, t, a)
           \/ \E u, v \in Users, t \in Exact, a \in Amounts : transferToUser(u, v, t, a)
           \/ \E u \in Users, t \in Exact, a \in Amounts : transferToVault(u, t, a)
           \/ UNCHANGED vars
    PROVE  /\ UNCHANGED <<deposits, calls>>
           /\ vaultBalance' \in [Exact -> Nat]
           /\ \A x \in Exact : vaultBalance'[x] >= vaultBalance[x]
<1>1. vaultBalance \in [Exact -> Nat]
  BY Types DEF IInv
<1>2. ASSUME NEW u \in Users, NEW t \in Exact, NEW a \in Amounts, transferToVault(u, t, a)
      PROVE  /\ UNCHANGED <<deposits, calls>>
             /\ vaultBalance' \in [Exact -> Nat]
             /\ \A x \in Exact : vaultBalance'[x] >= vaultBalance[x]
  BY <1>1, <1>2, AmountsAssumption DEF transferToVault, store
<1>3. ASSUME UNCHANGED <<deposits, vaultBalance, calls>>
      PROVE  /\ vaultBalance' \in [Exact -> Nat]
             /\ \A x \in Exact : vaultBalance'[x] >= vaultBalance[x]
  BY <1>1, <1>3
<1>4. CASE \E u \in Users, t \in Exact, a \in Amounts : transferToVault(u, t, a)
  BY <1>2, <1>4
<1>5. CASE ~\E u \in Users, t \in Exact, a \in Amounts : transferToVault(u, t, a)
  <2>1. UNCHANGED <<deposits, vaultBalance, calls>>
    BY <1>5, Zenon DEF addVaultManager, removeVaultManager, approve, transferToUser, vars, store,
                       token
  <2> QED BY <1>3, <2>1
<1> QED BY <1>4, <1>5

\* Every step keeps account of what the open call did.
LEMMA NextAccounted == IInv /\ CallAccounted /\ [Next]_vars => CallAccounted'
<1> SUFFICES ASSUME IInv, CallAccounted, [Next]_vars PROVE CallAccounted'
  OBVIOUS
<1>1. ASSUME NEW u \in Users, NEW t \in Tokens, NEW a \in Amounts, deposit(u, t, a)
      PROVE  CallAccounted'
  BY <1>1, AmountsAssumption, OpenAccounted DEF deposit, store, token
<1>2. ASSUME NEW u \in Users, NEW t \in Tokens, NEW a \in Amounts, withdraw(u, t, a)
      PROVE  CallAccounted'
  BY <1>2, AmountsAssumption, OpenAccounted DEF withdraw, token
<1>3. ASSUME NEW m \in Users, NEW u \in Users, NEW t \in Tokens, NEW a \in Amounts,
             claim(m, t, a, u)
      PROVE  CallAccounted'
  BY <1>3, AmountsAssumption, OpenAccounted DEF claim, token
<1>4. ASSUME depositReturns \/ payoutReturns \/ callReverts
      PROVE  CallAccounted'
  <2>1. PICK f \in FrameType : calls = <<f>>
    BY <1>4 DEF IInv, OneCall, depositReturns, payoutReturns, callReverts
  <2>2. calls' = <<>>
    BY <1>4, <2>1, TopOfOne DEF depositReturns, payoutReturns, callReverts
  <2> QED BY <2>2 DEF CallAccounted
<1> QED BY <1>1, <1>2, <1>3, <1>4, TokenAccounted, OutsideSteps, QuietAccounted DEF Next

\* With one call open the committed ledger is what it saved.
LEMMA CommittedLedger ==
    /\ calls = <<>> => /\ Committed.deposits = deposits
                       /\ Committed.vaultBalance = vaultBalance
    /\ \A f : calls = <<f>> => Committed = f.saved
    /\ calls' = <<>> => /\ Committed'.deposits = deposits'
                        /\ Committed'.vaultBalance = vaultBalance'
    /\ \A f : calls' = <<f>> => Committed' = f.saved
BY DEF Committed, State

\* A returning deposit commits the credit it gives, a returning payout the
\* credit it took: the step of the ledger is the whole call.
LEMMA ReturnMovesCredit ==
    ASSUME IInv, CallAccounted, depositReturns \/ payoutReturns
    PROVE  Ledger!LedgerNext
<1>1. PICK f \in FrameType : calls = <<f>>
  BY DEF IInv, OneCall, depositReturns, payoutReturns
<1>2. calls' = <<>> /\ f.at = "return" /\ UNCHANGED vaultBalance
  BY <1>1, TopOfOne DEF depositReturns, payoutReturns, token
<1>3. /\ Committed.deposits = f.saved.deposits
      /\ Committed.vaultBalance = f.saved.vaultBalance
      /\ Committed'.deposits = deposits' /\ Committed'.vaultBalance = vaultBalance'
      /\ CommittedCredit = [x \in Exact |-> f.saved.deposits[x]]
      /\ CommittedCredit' = [x \in Exact |-> deposits'[x]]
  BY <1>1, <1>2, CommittedLedger DEF CommittedCredit
<1>4. Accounted(f)
  BY <1>1, TopOfOne DEF CallAccounted
<1> DEFINE old == f.saved.deposits
           t == f.tok
<1>5. /\ old \in [Tokens -> [Users -> Nat]] /\ t \in Tokens /\ f.caller \in Users
      /\ f.amount \in Nat /\ f.amount > 0
      /\ f.saved.vaultBalance \in [Exact -> Nat] /\ vaultBalance \in [Exact -> Nat]
  BY FrameFields, Types DEF IInv
<1>6. ASSUME t \in Exact, NEW o \in Users, NEW d \in Int, d # 0, old[t][o] + d >= 0,
             deposits'[t][o] = old[t][o] + d,
             deposits' = [old EXCEPT ![t][o] = deposits'[t][o]],
             vaultBalance[t] >= f.saved.vaultBalance[t] + d,
             \A x \in Exact \ {t} : vaultBalance[x] >= f.saved.vaultBalance[x]
      PROVE  Ledger!LedgerNext
  <2> HIDE DEF old, t
  <2>1. old[t][o] \in Nat
    BY <1>5
  <2>2. /\ deposits'[t][o] # old[t][o] /\ deposits'[t][o] >= 0
        /\ deposits'[t][o] - old[t][o] = d
    BY <1>6, <2>1
  <2>3. vaultBalance'[t] - f.saved.vaultBalance[t] >= deposits'[t][o] - old[t][o]
    BY <1>2, <1>5, <1>6, <2>1, <2>2
  <2>4. /\ CommittedCredit[t][o] = old[t][o] /\ CommittedCredit'[t][o] = deposits'[t][o]
        /\ CommittedCredit' = [CommittedCredit EXCEPT ![t][o] = CommittedCredit'[t][o]]
    <3>1. CommittedCredit[t] = old[t] /\ CommittedCredit'[t] = deposits'[t]
      BY <1>3, <1>6 DEF old
    <3>2. deposits'[t] = [old[t] EXCEPT ![o] = deposits'[t][o]]
      BY <1>5, <1>6
    <3>3. \A x \in Exact \ {t} : deposits'[x] = old[x]
      BY <1>5, <1>6, ExactAssumption
    <3>4. CommittedCredit' = [CommittedCredit EXCEPT ![t] = deposits'[t]]
      BY <1>3, <1>6, <3>3 DEF old
    <3> QED BY <3>1, <3>2, <3>4
  <2>5. Ledger!MoveCredit(t, o)
    BY <1>2, <1>3, <1>6, <2>2, <2>3, <2>4 DEF Ledger!MoveCredit
  <2> QED BY <1>6, <2>5 DEF Ledger!LedgerNext, Users
<1>7. CASE t \notin Exact
  <2>1. \A x \in Exact : deposits'[x] = old[x]
    <3>1. CASE depositReturns
      <4>1. /\ f.fn = "deposit" /\ deposits = old
            /\ deposits' = [deposits EXCEPT ![t][f.caller] = @ + f.amount]
        BY <1>1, <1>4, <3>1, TopOfOne, Zenon DEF depositReturns, Accounted
      <4> QED BY <1>5, <1>7, <4>1, ExactAssumption
    <3>2. CASE payoutReturns
      <4>1. f.fn # "deposit" /\ deposits' = deposits
        BY <1>1, <3>2, TopOfOne DEF payoutReturns, store
      <4>2. PICK o \in Users : deposits = [old EXCEPT ![t][o] = @ - f.amount]
        BY <1>4, <4>1 DEF Accounted
      <4> QED BY <1>5, <1>7, <4>1, <4>2, ExactAssumption
    <3> QED BY <3>1, <3>2
  <2>2. UNCHANGED CommittedCredit
    BY <1>3, <2>1
  <2>3. \A x \in Exact : MovedBy(f, x) = 0
    BY <1>7 DEF MovedBy
  <2>4. \A x \in Exact : vaultBalance[x] >= f.saved.vaultBalance[x]
    BY <1>4, <1>5, <2>3 DEF Accounted
  <2>5. Ledger!Gift
    BY <1>2, <1>3, <2>2, <2>4 DEF Ledger!Gift
  <2> QED BY <2>5 DEF Ledger!LedgerNext
<1>8. CASE depositReturns /\ t \in Exact
  <2>1. /\ f.fn = "deposit" /\ deposits = old
        /\ deposits' = [deposits EXCEPT ![t][f.caller] = @ + f.amount]
    BY <1>1, <1>4, <1>8, TopOfOne, Zenon DEF depositReturns, Accounted
  <2>2. \A x \in Exact : vaultBalance[x] >= f.saved.vaultBalance[x] + MovedBy(f, x)
    BY <1>4, <2>1 DEF Accounted
  <2>3. /\ vaultBalance[t] >= f.saved.vaultBalance[t] + f.amount
        /\ \A x \in Exact \ {t} : vaultBalance[x] >= f.saved.vaultBalance[x]
    BY <1>2, <1>5, <1>8, <2>2 DEF MovedBy
  <2> DEFINE a == f.amount
             u == f.caller
  <2> HIDE DEF old, t, a, u
  <2>4. /\ deposits'[t][u] = old[t][u] + a
        /\ deposits' = [old EXCEPT ![t][u] = deposits'[t][u]]
    <3>1. deposits' = [old EXCEPT ![t][u] = old[t][u] + a]
      BY <2>1 DEF a, u
    <3>2. deposits'[t][u] = old[t][u] + a
      BY <1>5, <3>1 DEF u
    <3> QED BY <3>1, <3>2, Zenon
  <2>5. old[t][u] + a >= 0 /\ a \in Int /\ a # 0 /\ u \in Users
    BY <1>5 DEF a, u
  <2> QED BY <1>6, <1>8, <2>3, <2>4, <2>5 DEF a
<1>9. CASE payoutReturns /\ t \in Exact
  <2>1. f.fn # "deposit" /\ deposits' = deposits
    BY <1>1, <1>9, TopOfOne DEF payoutReturns, store
  <2>2. PICK o \in Users : /\ old[t][o] >= f.amount
                           /\ deposits = [old EXCEPT ![t][o] = @ - f.amount]
    BY <1>4, <2>1 DEF Accounted
  <2>3. \A x \in Exact : vaultBalance[x] >= f.saved.vaultBalance[x] - MovedBy(f, x)
    BY <1>4, <2>1 DEF Accounted
  <2>4. /\ vaultBalance[t] >= f.saved.vaultBalance[t] + (0 - f.amount)
        /\ \A x \in Exact \ {t} : vaultBalance[x] >= f.saved.vaultBalance[x]
    BY <1>2, <1>5, <1>9, <2>3 DEF MovedBy
  <2>5. /\ old[t][o] + (0 - f.amount) = old[t][o] - f.amount
        /\ old[t][o] + (0 - f.amount) >= 0
    BY <1>5, <2>2
  <2>6. /\ deposits'[t][o] = old[t][o] + (0 - f.amount)
        /\ deposits' = [old EXCEPT ![t][o] = deposits'[t][o]]
    BY <1>5, <2>1, <2>2, <2>5
  <2> HIDE DEF old, t
  <2> QED BY <1>5, <1>6, <1>9, <2>4, <2>5, <2>6
<1> QED BY <1>7, <1>8, <1>9

\* Every step of the vault is a step of the ledger or changes nothing of it.
LEMMA NextLedger ==
    IInv /\ CallAccounted /\ [Next]_vars => [Ledger!LedgerNext]_(Ledger!lvars)
<1> SUFFICES ASSUME IInv, CallAccounted, [Next]_vars
             PROVE  Ledger!LedgerNext \/ UNCHANGED Ledger!lvars
  OBVIOUS
<1>1. ASSUME UNCHANGED <<deposits, calls>>, vaultBalance' \in [Exact -> Nat],
             \A x \in Exact : vaultBalance'[x] >= vaultBalance[x]
      PROVE  Ledger!LedgerNext \/ UNCHANGED Ledger!lvars
  <2>1. CASE calls = <<>>
    <3>1. Ledger!Gift
      BY <1>1, <2>1, CommittedLedger DEF Ledger!Gift, CommittedCredit
    <3> QED BY <3>1 DEF Ledger!LedgerNext
  <2>2. CASE calls # <<>>
    BY <1>1, <2>2 DEF Committed, CommittedCredit, Ledger!lvars
  <2> QED BY <2>1, <2>2
<1>2. ASSUME calls = <<>>, NEW fn, NEW u, NEW t, NEW a, Open(Frame(fn, u, t, a))
      PROVE  UNCHANGED Ledger!lvars
  <2>1. calls' = <<Frame(fn, u, t, a)>> /\ Frame(fn, u, t, a).saved = State
    BY <1>2 DEF Open, Frame
  <2>2. Committed = State /\ Committed' = State
    BY <1>2, <2>1, CommittedLedger DEF Committed
  <2> QED BY <2>2 DEF Ledger!lvars, CommittedCredit
<1>3. ASSUME TokenPulls \/ TokenPays \/ OtherTokenReturns
      PROVE  UNCHANGED Ledger!lvars
  <2>1. PICK f \in FrameType : calls = <<f>>
    BY <1>3 DEF IInv, OneCall, TokenPulls, TokenPays, OtherTokenReturns
  <2>2. calls' = <<[f EXCEPT !.at = "return"]>> /\ [f EXCEPT !.at = "return"].saved = f.saved
    BY <1>3, <2>1, TopOfOne DEF TokenPulls, TokenPays, OtherTokenReturns, FrameType
  <2>3. Committed = f.saved /\ Committed' = [f EXCEPT !.at = "return"].saved
    BY <2>1, <2>2, CommittedLedger, Zenon
  <2> QED BY <2>2, <2>3 DEF Ledger!lvars, CommittedCredit
<1>4. ASSUME callReverts
      PROVE  UNCHANGED Ledger!lvars
  <2>1. PICK f \in FrameType : calls = <<f>>
    BY <1>4 DEF IInv, OneCall, callReverts
  <2>2. /\ calls' = <<>> /\ deposits' = f.saved.deposits
        /\ vaultBalance' = f.saved.vaultBalance
    BY <1>4, <2>1, TopOfOne DEF callReverts
  <2>3. /\ Committed'.deposits = Committed.deposits
        /\ Committed'.vaultBalance = Committed.vaultBalance
    BY <2>1, <2>2, CommittedLedger
  <2> QED BY <2>3 DEF Ledger!lvars, CommittedCredit
<1> QED BY <1>1, <1>2, <1>3, <1>4, OutsideSteps, ReturnMovesCredit
        DEF Next, deposit, withdraw, claim, nonReentrant

\* For every set of tokens and number of users: the vault with its callbacks,
\* hooks and reverts implements the ledger of VaultLedger, in which a step
\* moves the credit of one user, in an exact token, together with the vault's
\* tokens.
THEOREM ImplementsLedger == Spec => RefinesLedger
<1>1. Init => Ledger!LedgerInit
  BY ExactAssumption DEF Init, Ledger!LedgerInit, CommittedCredit, Committed, State, Users
<1>2. Init => IInv /\ CallAccounted
  BY InitIInv DEF Init, CallAccounted
<1>3. IInv /\ CallAccounted /\ [Next]_vars => (IInv /\ CallAccounted)'
  BY NextIInv, NextAccounted
<1> QED BY <1>1, <1>2, <1>3, NextLedger, PTL DEF Spec, RefinesLedger, Ledger!LedgerSpec

-----------------------------------------------------------------------------
(* What users own.  Each step of a guarded call moves the amount between   *)
(* the user's hand, the user's credit and the call in flight.              *)

\* What the call f holds of the tokens t of user u.
Holds(f, t, u) ==
    IF /\ f.tok = t
       /\ f.caller = u
       /\ \/ f.fn = "deposit" /\ f.at = "return"
          \/ f.fn = "withdraw" /\ f.at = "token"
    THEN f.amount
    ELSE 0

\* Only the open call has tokens in flight, before a step and after it.
LEMMA FlightOfCall ==
    /\ calls = <<>> => \A t, u : InFlight(t, u) = 0
    /\ \A f : calls = <<f>> => \A t, u : InFlight(t, u) = Holds(f, t, u)
    /\ calls' = <<>> => \A t, u : InFlight(t, u)' = 0
    /\ \A f : calls' = <<f>> => \A t, u : InFlight(t, u)' = Holds(f, t, u)
BY DEF InFlight, Top, Holds

\* What is read from a table in which one entry changed.
LEMMA EntryRead ==
    ASSUME NEW S, NEW h \in [S -> [Users -> Nat]], NEW x \in S, NEW c \in Users, NEW v,
           NEW t \in S, NEW u \in Users
    PROVE  [h EXCEPT ![x][c] = v][t][u] = IF t = x /\ u = c THEN v ELSE h[t][u]
OBVIOUS

WealthType(t, u) ==
    balance[t][u] \in Nat /\ deposits[t][u] \in Nat /\ InFlight(t, u) \in Nat

\* The parts of a user's wealth are amounts.
LEMMA WealthParts == IInv => \A t \in Exact, u \in Users : WealthType(t, u)
<1> SUFFICES ASSUME IInv, NEW t \in Exact, NEW u \in Users
             PROVE  balance[t][u] \in Nat /\ deposits[t][u] \in Nat /\ InFlight(t, u) \in Nat
  BY DEF WealthType
<1>1. balance[t][u] \in Nat /\ deposits[t][u] \in Nat
  BY Types, ExactAssumption DEF IInv
<1>2. CASE calls = <<>>
  BY <1>1, <1>2, FlightOfCall
<1>3. CASE calls # <<>>
  <2>1. PICK f \in FrameType : calls = <<f>>
    BY <1>3 DEF IInv, OneCall
  <2> QED BY <1>1, <2>1, FlightOfCall, FrameFields DEF Holds
<1> QED BY <1>2, <1>3

\* They are after a step, too.
LEMMA WealthPartsNext == IInv' => (\A t \in Exact, u \in Users : WealthType(t, u))'
BY WealthParts, PTL

\* A guarded call is opened: what a withdrawal gives up is in flight, and a
\* claim takes the credit of the owner it names only.
LEMMA OpenWealth ==
    ASSUME IInv, NEW t \in Exact, NEW u \in Users, nonReentrant,
           NEW fn \in {"deposit", "withdraw", "claim"}, NEW c \in Users, NEW x \in Tokens,
           NEW a \in Nat, Open(Frame(fn, c, x, a)), UNCHANGED balance,
           \/ fn = "deposit" /\ UNCHANGED deposits
           \/ fn = "withdraw" /\ deposits' = Debited(x, c, a)
           \/ fn = "claim" /\ \E o \in Users : deposits' = Debited(x, o, a) /\ (x # t \/ o # u)
    PROVE  Wealth(t, u)' = Wealth(t, u)
<1>1. PICK f : f = Frame(fn, c, x, a)
  OBVIOUS
<1>2. /\ f.fn = fn /\ f.tok = x /\ f.caller = c /\ f.amount = a /\ f.at = "token"
      /\ calls' = <<f>> /\ calls = <<>>
  BY <1>1 DEF Frame, Open, nonReentrant
<1>3. InFlight(t, u) = 0 /\ InFlight(t, u)' = Holds(f, t, u)
  BY <1>2, FlightOfCall
<1>4. balance[t][u] \in Nat /\ deposits[t][u] \in Nat /\ deposits \in [Tokens -> [Users -> Nat]]
      /\ t \in Tokens
  BY Types, ExactAssumption DEF IInv
<1>5. deposits'[t][u] + Holds(f, t, u) = deposits[t][u]
  <2>1. CASE fn = "deposit"
    BY <1>2, <1>4, <2>1 DEF Holds
  <2>2. CASE fn = "withdraw"
    <3>1. deposits' = [deposits EXCEPT ![x][c] = deposits[x][c] - a]
      BY <2>2 DEF Debited
    <3>2. deposits'[t][u] = IF t = x /\ u = c THEN deposits[x][c] - a ELSE deposits[t][u]
      BY <1>4, <3>1, EntryRead
    <3> QED BY <1>2, <1>4, <2>2, <3>2 DEF Holds
  <2>3. CASE fn = "claim"
    <3>1. PICK o \in Users : /\ deposits' = [deposits EXCEPT ![x][o] = deposits[x][o] - a]
                             /\ x # t \/ o # u
      BY <2>3 DEF Debited
    <3>2. deposits'[t][u] = deposits[t][u]
      BY <1>4, <3>1, EntryRead
    <3> QED BY <1>2, <1>4, <2>3, <3>2 DEF Holds
  <2> QED BY <2>1, <2>2, <2>3
<1>6. Holds(f, t, u) \in Nat /\ deposits'[t][u] \in Int
  <2>1. CASE fn = "deposit"
    BY <1>2, <1>4, <2>1 DEF Holds
  <2>2. CASE fn = "withdraw"
    <3>1. Holds(f, t, u) \in Nat
      BY <1>2 DEF Holds
    <3> QED BY <1>4, <2>2, <3>1 DEF Debited
  <2>3. CASE fn = "claim"
    BY <1>2, <1>4, <2>3 DEF Holds, Debited
  <2> QED BY <2>1, <2>2, <2>3
<1> QED BY <1>3, <1>4, <1>5, <1>6 DEF Wealth

\* The token moves the amount between the user's hand and the call, or pays a
\* claim.
LEMMA TokenWealth ==
    ASSUME IInv, NEW t \in Exact, NEW u \in Users,
           TokenPulls \/ TokenPays \/ OtherTokenReturns
    PROVE  Wealth(t, u)' >= Wealth(t, u)
<1>1. PICK f \in FrameType : calls = <<f>>
  BY DEF IInv, OneCall, TokenPulls, TokenPays, OtherTokenReturns
<1>2. PICK g : g = [f EXCEPT !.at = "return"]
  BY Zenon
<1>3. /\ g.fn = f.fn /\ g.tok = f.tok /\ g.caller = f.caller /\ g.amount = f.amount
      /\ g.at = "return" /\ f.at = "token"
      /\ calls' = <<g>> /\ UNCHANGED deposits
      /\ \/ /\ f.tok \in Exact /\ f.fn = "deposit"
            /\ balance' = [balance EXCEPT ![f.tok][f.caller] = @ - f.amount]
         \/ /\ f.tok \in Exact /\ f.fn # "deposit"
            /\ balance' = [balance EXCEPT ![f.tok][f.caller] = @ + f.amount]
         \/ f.tok \notin Exact /\ UNCHANGED balance
  BY <1>1, <1>2, TopOfOne DEF TokenPulls, TokenPays, OtherTokenReturns, store, token, FrameType
<1>4. /\ balance \in [Exact -> [Users -> Nat]] /\ deposits[t][u] \in Nat
      /\ f.caller \in Users /\ f.amount \in Nat
  BY Types, FrameFields, ExactAssumption DEF IInv
<1>5. InFlight(t, u) = Holds(f, t, u) /\ InFlight(t, u)' = Holds(g, t, u)
  BY <1>1, <1>3, FlightOfCall
<1>6. /\ balance'[t][u] + Holds(g, t, u) >= balance[t][u] + Holds(f, t, u)
      /\ balance'[t][u] \in Int /\ balance[t][u] \in Int
      /\ Holds(g, t, u) \in Int /\ Holds(f, t, u) \in Int
  <2>1. CASE f.fn = "deposit"
    BY <1>3, <1>4, <2>1 DEF Holds
  <2>2. CASE f.fn # "deposit"
    BY <1>3, <1>4, <2>2 DEF Holds
  <2> QED BY <2>1, <2>2
<1> QED BY <1>3, <1>4, <1>5, <1>6 DEF Wealth

\* A call returns: a deposit is credited with what was in flight.
LEMMA ReturnWealth ==
    ASSUME IInv, NEW t \in Exact, NEW u \in Users, depositReturns \/ payoutReturns
    PROVE  Wealth(t, u)' = Wealth(t, u)
<1>1. PICK f \in FrameType : calls = <<f>>
  BY DEF IInv, OneCall, depositReturns, payoutReturns
<1>2. /\ f.at = "return" /\ calls' = <<>> /\ UNCHANGED balance
      /\ \/ /\ f.fn = "deposit"
            /\ deposits' = [deposits EXCEPT ![f.tok][f.caller] = @ + f.amount]
         \/ f.fn # "deposit" /\ UNCHANGED deposits
  BY <1>1, TopOfOne DEF depositReturns, payoutReturns, token, store
<1>3. /\ deposits \in [Tokens -> [Users -> Nat]] /\ balance[t][u] \in Nat
      /\ f.tok \in Tokens /\ f.caller \in Users /\ f.amount \in Nat /\ t \in Tokens
  BY Types, FrameFields, ExactAssumption DEF IInv
<1>4. InFlight(t, u) = Holds(f, t, u) /\ InFlight(t, u)' = 0
  BY <1>1, <1>2, FlightOfCall
<1>5. /\ deposits'[t][u] = deposits[t][u] + Holds(f, t, u)
      /\ deposits[t][u] \in Int /\ Holds(f, t, u) \in Int
  <2>1. CASE f.fn = "deposit"
    <3>1. deposits' = [deposits EXCEPT ![f.tok][f.caller] = deposits[f.tok][f.caller] + f.amount]
      BY <1>2, <2>1
    <3>2. deposits'[t][u] = IF t = f.tok /\ u = f.caller
                            THEN deposits[f.tok][f.caller] + f.amount ELSE deposits[t][u]
      BY <1>3, <3>1, EntryRead
    <3> QED BY <1>2, <1>3, <2>1, <3>2 DEF Holds
  <2>2. CASE f.fn # "deposit"
    BY <1>2, <1>3, <2>2 DEF Holds
  <2> QED BY <2>1, <2>2
<1> QED BY <1>2, <1>3, <1>4, <1>5 DEF Wealth

\* A plain transfer takes tokens from nobody but the one who makes it.
LEMMA TransferWealth ==
    ASSUME IInv, NEW t \in Exact, NEW u \in Users, NEW c \in Users, NEW x \in Exact,
           NEW a \in Amounts, c # u \/ x # t,
           (\E v \in Users : transferToUser(c, v, x, a)) \/ transferToVault(c, x, a)
    PROVE  Wealth(t, u)' >= Wealth(t, u)
<1>1. UNCHANGED <<deposits, calls>>
  BY DEF transferToUser, transferToVault, store
<1>2. balance \in [Exact -> [Users -> Nat]] /\ a \in Nat
  BY Types, AmountsAssumption DEF IInv
<1>3. balance'[t][u] >= balance[t][u] /\ balance'[t][u] \in Int
  <2>1. ASSUME NEW v \in Users, transferToUser(c, v, x, a)
        PROVE  balance'[t][u] >= balance[t][u] /\ balance'[t][u] \in Int
    <3> DEFINE h == [balance EXCEPT ![x][c] = balance[x][c] - a]
    <3>1. h[t][u] = balance[t][u] /\ h[x][v] = balance[x][v] /\ DOMAIN h = Exact
          /\ \A y \in Exact : DOMAIN h[y] = Users
      BY <1>2, <2>1 DEF transferToUser
    <3>2. balance' = [h EXCEPT ![x][v] = balance[x][v] + a]
      BY <2>1, <3>1 DEF transferToUser
    <3> HIDE DEF h
    <3>3. balance'[t][u] = IF t = x /\ u = v THEN balance[x][v] + a ELSE balance[t][u]
      BY <3>1, <3>2
    <3> QED BY <1>2, <3>3
  <2>2. CASE transferToVault(c, x, a)
    BY <1>2, <2>2 DEF transferToVault
  <2> QED BY <2>1, <2>2
<1>4. InFlight(t, u)' = InFlight(t, u)
  BY <1>1 DEF InFlight, Top
<1>5. WealthType(t, u)
  BY WealthParts
<1> QED BY <1>1, <1>3, <1>4, <1>5 DEF Wealth, WealthType

\* For every set of tokens and number of users: nobody loses exact tokens, in
\* hand, in the vault or in flight, but by a transfer of their own, a claim of a
\* manager, or the rollback of a call.
THEOREM OwnersProtected == Spec => WealthProtected
<1>1. ASSUME IInv, Next, NEW t \in Exact, NEW u \in Users
      PROVE  Wealth(t, u)' < Wealth(t, u) =>
                \/ \E v \in Users, a \in Amounts : transferToUser(u, v, t, a)
                \/ \E a \in Amounts : transferToVault(u, t, a)
                \/ \E m \in Users, a \in Amounts :
                      m \in isVaultManager /\ claim(m, t, a, u)
                \/ callReverts
  <2> DEFINE Fine == Wealth(t, u)' >= Wealth(t, u)
             Own == \/ \E v \in Users, a \in Amounts : transferToUser(u, v, t, a)
                    \/ \E a \in Amounts : transferToVault(u, t, a)
                    \/ \E m \in Users, a \in Amounts :
                          m \in isVaultManager /\ claim(m, t, a, u)
                    \/ callReverts
  <2>0. Wealth(t, u) \in Int /\ Wealth(t, u)' \in Int
    <3>1. IInv'
      BY <1>1, NextIInv
    <3>2. WealthType(t, u) /\ WealthType(t, u)'
      BY <1>1, <3>1, WealthParts, WealthPartsNext
    <3> QED BY <3>2 DEF Wealth, WealthType
  <2>1. ASSUME UNCHANGED <<balance, deposits, calls>>
        PROVE  Fine
    BY <1>1, <2>0, <2>1 DEF Wealth, InFlight, Top
  <2>2. ASSUME NEW c \in Users, NEW x \in Tokens, NEW a \in Amounts,
               deposit(c, x, a) \/ withdraw(c, x, a)
        PROVE  Fine
    <3>1. Wealth(t, u)' = Wealth(t, u)
      BY <1>1, <2>2, AmountsAssumption, OpenWealth DEF deposit, withdraw, store, token
    <3> QED BY <2>0, <3>1
  <2>3. ASSUME NEW m \in Users, NEW o \in Users, NEW x \in Tokens, NEW a \in Amounts,
               claim(m, x, a, o)
        PROVE  Fine \/ Own
    <3>1. CASE x = t /\ o = u
      BY <2>3, <3>1 DEF claim, onlyVaultManager
    <3>2. CASE x # t \/ o # u
      <4>1. Wealth(t, u)' = Wealth(t, u)
        BY <1>1, <2>3, <3>2, AmountsAssumption, OpenWealth DEF claim, token
      <4> QED BY <2>0, <4>1
    <3> QED BY <3>1, <3>2
  <2>4. ASSUME TokenPulls \/ TokenPays \/ OtherTokenReturns
        PROVE  Fine
    BY <1>1, <2>4, TokenWealth
  <2>5. ASSUME depositReturns \/ payoutReturns
        PROVE  Fine
    <3>1. Wealth(t, u)' = Wealth(t, u)
      BY <1>1, <2>5, ReturnWealth
    <3> QED BY <2>0, <3>1
  <2>6. ASSUME NEW c \in Users, NEW x \in Exact, NEW a \in Amounts,
               (\E v \in Users : transferToUser(c, v, x, a)) \/ transferToVault(c, x, a)
        PROVE  Fine \/ Own
    <3>1. CASE c = u /\ x = t
      BY <2>6, <3>1
    <3>2. CASE c # u \/ x # t
      BY <1>1, <2>6, <3>2, TransferWealth
    <3> QED BY <3>1, <3>2
  <2>7. ASSUME \/ \E m \in Users, n \in Addresses : addVaultManager(m, n)
               \/ \E m \in Users, n \in Addresses : removeVaultManager(m, n)
               \/ \E c \in Users, x \in Exact, a \in Amounts : approve(c, x, a)
        PROVE  Fine
    BY <2>1, <2>7 DEF addVaultManager, removeVaultManager, approve, store, token
  <2>8. Fine \/ Own
    <3> HIDE DEF Fine
    <3> QED BY <1>1, <2>2, <2>3, <2>4, <2>5, <2>6, <2>7 DEF Next
  <2> HIDE DEF Own
  <2>9. Wealth(t, u)' < Wealth(t, u) => Own
    BY <2>0, <2>8
  <2> QED BY <2>9 DEF Own
<1>2. IInv /\ [Next]_vars =>
        [\A t \in Exact, u \in Users :
            Wealth(t, u)' < Wealth(t, u) =>
               \/ \E v \in Users, a \in Amounts : transferToUser(u, v, t, a)
               \/ \E a \in Amounts : transferToVault(u, t, a)
               \/ \E m \in Users, a \in Amounts :
                     m \in isVaultManager /\ claim(m, t, a, u)
               \/ callReverts]_vars
  BY <1>1
<1> QED BY <1>2, InitIInv, NextIInv, PTL DEF Spec, WealthProtected

=============================================================================
