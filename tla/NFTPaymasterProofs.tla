------------------------- MODULE NFTPaymasterProofs -------------------------
(***************************************************************************)
(* What NFTPaymaster guarantees, for any NFTs, limits, operations and      *)
(* bundles.                                                                *)
(*                                                                         *)
(* The argument for QuotaReserved: a sender has one operation in a bundle, *)
(* so what the validation saw of its quota is what postOp finds, unless    *)
(* somebody else called applyLogic.  A second call of postOp is made in    *)
(* the state before the operation's own call, so that what the sender does *)
(* with its NFT in the operation does not matter.                          *)
(***************************************************************************)
EXTENDS NFTPaymaster, SponsorshipProofs

LimitPairs == [tx : Nat, gas : Nat]
Entries == [count : Nat, totalAmount : Nat]

QuotaOK(n, l, sp, h) ==
    /\ n \in NFTs
    /\ l \in [NFTs -> Limits \union {NoLimits}]
    /\ sp \in [NFTs -> [Senders -> Entries]]
    /\ h \in [NFTs -> [Senders -> Nat]]

\* Limits and quotas are below the highest limits so far.
Below(l, sp, hi) ==
    /\ hi \in [NFTs -> LimitPairs]
    /\ \A n \in NFTs : l[n].tx <= hi[n].tx /\ l[n].gas <= hi[n].gas
    /\ \A n \in NFTs, s \in Senders :
          sp[n][s].count <= hi[n].tx /\ sp[n][s].totalAmount <= hi[n].gas

Quotas ==
    /\ QuotaOK(nft, limits, sponsored, balanceOf)
    /\ Below(limits, sponsored, highest)
    /\ phase # "idle" =>
          /\ QuotaOK(saved.nft, saved.limits, saved.sponsored, saved.balanceOf)
          /\ Below(saved.limits, saved.sponsored, saved.highest)

\* Nobody changes a quota while operations are validated.
Frozen ==
    phase = "validate" =>
        /\ nft = saved.nft /\ limits = saved.limits
        /\ sponsored = saved.sponsored /\ balanceOf = saved.balanceOf

\* Operations that were validated were eligible when the transaction started.
EligibleAtStart ==
    phase # "idle" =>
        \A i \in Validated :
            /\ saved.sponsored[saved.nft][bundle[i].sender].count < saved.limits[saved.nft].tx
            /\ RequiredPreFund + saved.sponsored[saved.nft][bundle[i].sender].totalAmount
                 <= saved.limits[saved.nft].gas

\* Calls of others are counted.
Counter ==
    /\ others \in Nat
    /\ phase # "idle" => saved.others \in Nat /\ saved.others <= others

\* Without such calls, the quota of a sender is what it was at the start until
\* the turn of its operation.
Untouched ==
    phase = "execute" /\ others = saved.others =>
        \A i \in at..Len(bundle), n \in NFTs :
            sponsored[n][bundle[i].sender] = saved.sponsored[n][bundle[i].sender]

\* The inductive invariant.
IInv == SponsorInv /\ Quotas /\ Frozen /\ EligibleAtStart /\ Counter /\ Untouched

-----------------------------------------------------------------------------
(* The operators.                                                          *)

\* All limits are pairs of numbers.
LEMMA LimitsArePairs == Limits \union {NoLimits} \subseteq LimitPairs
BY LimitsAssumption DEF NoLimits, LimitPairs

\* Both fields of an entry change.
LEMMA BothFields ==
    ASSUME NEW r \in Entries, NEW a, NEW b
    PROVE  [r EXCEPT !.count = a, !.totalAmount = b] = [count |-> a, totalAmount |-> b]
<1> DEFINE q == [r EXCEPT !.count = a, !.totalAmount = b]
<1>1. DOMAIN r = {"count", "totalAmount"}
  BY DEF Entries
<1>2. q = [f \in {"count", "totalAmount"} |->
              IF f = "totalAmount" THEN b ELSE IF f = "count" THEN a ELSE r[f]]
  BY <1>1, Zenon
<1>3. [count |-> a, totalAmount |-> b] = [f \in {"count", "totalAmount"} |->
              IF f = "totalAmount" THEN b ELSE IF f = "count" THEN a ELSE r[f]]
  OBVIOUS
<1> QED BY <1>2, <1>3

\* applyLogic adds to one entry.
LEMMA AppliedEffect ==
    ASSUME sponsored \in [NFTs -> [Senders -> Entries]],
           NEW u \in Senders, NEW n \in NFTs, NEW g \in Nat
    PROVE  /\ Applied(u, n, g) \in [NFTs -> [Senders -> Entries]]
           /\ Applied(u, n, g)[n][u].count = sponsored[n][u].count + 1
           /\ Applied(u, n, g)[n][u].totalAmount = sponsored[n][u].totalAmount + g
           /\ \A m \in NFTs, v \in Senders :
                 m # n \/ v # u => Applied(u, n, g)[m][v] = sponsored[m][v]
<1> DEFINE old == sponsored[n][u]
           new == [count |-> old.count + 1, totalAmount |-> old.totalAmount + g]
           row == [sponsored[n] EXCEPT ![u] = new]
<1>1. /\ old \in Entries /\ old.count \in Nat /\ old.totalAmount \in Nat
      /\ old = [count |-> old.count, totalAmount |-> old.totalAmount]
  BY DEF Entries
<1>2. /\ new \in Entries /\ new.count = old.count + 1 /\ new.totalAmount = old.totalAmount + g
  BY <1>1 DEF Entries
<1>3. Applied(u, n, g) = [sponsored EXCEPT ![n] = row]
  <2>1. [old EXCEPT !.count = old.count + 1, !.totalAmount = old.totalAmount + g] = new
    <3> DEFINE a == old.count + 1
               b == old.totalAmount + g
    <3> HIDE DEF a, b, old
    <3>1. [old EXCEPT !.count = a, !.totalAmount = b] = [count |-> a, totalAmount |-> b]
      BY <1>1, BothFields, Zenon
    <3> QED BY <3>1 DEF a, b
  <2>2. Applied(u, n, g) =
           [sponsored EXCEPT ![n] = [sponsored[n] EXCEPT ![u] =
               [old EXCEPT !.count = old.count + 1, !.totalAmount = old.totalAmount + g]]]
    BY Zenon DEF Applied
  <2> QED BY <2>1, <2>2, Zenon
<1> HIDE DEF new
<1>4. /\ row \in [Senders -> Entries] /\ row[u] = new
      /\ \A v \in Senders : v # u => row[v] = sponsored[n][v]
  BY <1>2
<1> HIDE DEF row
<1>5. /\ Applied(u, n, g) \in [NFTs -> [Senders -> Entries]] /\ Applied(u, n, g)[n] = row
      /\ \A m \in NFTs : m # n => Applied(u, n, g)[m] = sponsored[m]
  BY <1>3, <1>4
<1> QED BY <1>2, <1>4, <1>5

\* A minted NFT.
LEMMA MintedType ==
    ASSUME balanceOf \in [NFTs -> [Senders -> Nat]], NEW n \in NFTs, NEW u \in Senders
    PROVE  Minted(n, u) \in [NFTs -> [Senders -> Nat]]
BY DEF Minted

\* A transfer of one leaves no balance below zero.
LEMMA MovedType ==
    ASSUME balanceOf \in [NFTs -> [Senders -> Nat]], NEW n \in NFTs, NEW u \in Senders, NEW to,
           balanceOf[n][u] > 0
    PROVE  Moved(n, u, to) \in [NFTs -> [Senders -> Nat]]
<1>1. [v \in Senders |-> balanceOf[n][v] - (IF v = u THEN 1 ELSE 0) + (IF v = to THEN 1 ELSE 0)]
        \in [Senders -> Nat]
  OBVIOUS
<1> QED BY <1>1, Zenon DEF Moved

\* An operation's own call leaves no balance below zero.
LEMMA AfterCallType ==
    ASSUME balanceOf \in [NFTs -> [Senders -> Nat]], NEW op \in Ops
    PROVE  AfterCall(op) \in [NFTs -> [Senders -> Nat]]
<1> DEFINE n == op.callData[2]
           give == op.callData[1] = "give" /\ balanceOf[n][op.sender] > 0
           mint == op.callData[1] = "mint" /\ balanceOf[n][op.sender] = 0
<1>1. op.sender \in Senders
  BY OpFields
<1>2. CASE n \notin NFTs
  <2>1. \A v : [balanceOf EXCEPT ![n] = v] = balanceOf
    BY <1>2
  <2> QED BY <2>1, Zenon DEF AfterCall, Moved, Minted
<1>3. CASE n \in NFTs /\ give
  <2>1. AfterCall(op) = Moved(n, op.sender, op.callData[3])
    BY <1>3, Zenon DEF AfterCall
  <2> QED BY <1>1, <1>3, <2>1, MovedType
<1>4. CASE n \in NFTs /\ mint
  <2>1. AfterCall(op) = Minted(n, op.sender)
    BY <1>4, Zenon DEF AfterCall
  <2> QED BY <1>1, <1>4, <2>1, MintedType
<1>5. CASE ~give /\ ~mint
  <2>1. AfterCall(op) = balanceOf
    BY <1>5, Zenon DEF AfterCall
  <2> QED BY <2>1
<1> QED BY <1>2, <1>3, <1>4, <1>5

\* Using up what is left of a quota keeps it below the limits.
LEMMA AppliedBelow ==
    ASSUME Quotas, NEW u \in Senders, NEW n \in NFTs, NEW g \in Nat, NEW held,
           isEligible(u, n, held, g)
    PROVE  /\ Applied(u, n, g) \in [NFTs -> [Senders -> Entries]]
           /\ Below(limits, Applied(u, n, g), highest)
<1> DEFINE sp == Applied(u, n, g)
<1>1. /\ sponsored \in [NFTs -> [Senders -> Entries]]
      /\ limits \in [NFTs -> LimitPairs] /\ highest \in [NFTs -> LimitPairs]
      /\ limits[n].tx <= highest[n].tx /\ limits[n].gas <= highest[n].gas
  BY LimitsArePairs DEF Quotas, QuotaOK, Below
<1>2. /\ sp \in [NFTs -> [Senders -> Entries]]
      /\ sp[n][u].count = sponsored[n][u].count + 1
      /\ sp[n][u].totalAmount = sponsored[n][u].totalAmount + g
      /\ \A m \in NFTs, v \in Senders : m # n \/ v # u => sp[m][v] = sponsored[m][v]
  BY <1>1, AppliedEffect
<1>3. /\ sponsored[n][u].count < limits[n].tx
      /\ g + sponsored[n][u].totalAmount <= limits[n].gas
  BY DEF isEligible
<1>4. /\ sponsored[n][u].count \in Nat /\ sponsored[n][u].totalAmount \in Nat
      /\ limits[n].tx \in Nat /\ limits[n].gas \in Nat
      /\ highest[n].tx \in Nat /\ highest[n].gas \in Nat
  BY <1>1 DEF Entries, LimitPairs
<1>5. sp[n][u].count <= highest[n].tx /\ sp[n][u].totalAmount <= highest[n].gas
  BY <1>1, <1>2, <1>3, <1>4
<1> HIDE DEF sp
<1>6. \A m \in NFTs, v \in Senders :
         sp[m][v].count <= highest[m].tx /\ sp[m][v].totalAmount <= highest[m].gas
  <2> SUFFICES ASSUME NEW m \in NFTs, NEW v \in Senders
               PROVE  sp[m][v].count <= highest[m].tx /\ sp[m][v].totalAmount <= highest[m].gas
    OBVIOUS
  <2>1. CASE m = n /\ v = u
    BY <1>5, <2>1
  <2>2. CASE m # n \/ v # u
    BY <1>2, <2>2 DEF Quotas, Below
  <2> QED BY <2>1, <2>2
<1> QED BY <1>2, <1>6 DEF Quotas, Below, sp

-----------------------------------------------------------------------------
(* The steps.                                                              *)

\* The initial state.
LEMMA InitIInv == Init => IInv
<1> SUFFICES ASSUME Init PROVE IInv
  OBVIOUS
<1>1. SponsorInv
  BY InitInv DEF Init
<1>2. phase = "idle"
  BY DEF Init, SponsorInit, EPInit
<1>3. QuotaOK(nft, limits, sponsored, balanceOf) /\ Below(limits, sponsored, highest)
  BY DEF Init, QuotaOK, Below, NoLimits, LimitPairs, Entries
<1>4. others \in Nat
  BY DEF Init
<1> QED BY <1>1, <1>2, <1>3, <1>4 DEF IInv, Quotas, Frozen, EligibleAtStart, Counter, Untouched

\* Steps that change no quota and are not part of handleOps.
LEMMA QuietIInv ==
    ASSUME IInv, SponsorInv', UNCHANGED <<phase, bundle, at, saved, quota>>
    PROVE  IInv'
<1>1. UNCHANGED <<nft, limits, sponsored, balanceOf, highest, others>>
  BY DEF quota
<1>2. Quotas' /\ Frozen'
  BY <1>1 DEF IInv, Quotas, Frozen
<1>3. EligibleAtStart' /\ Counter' /\ Untouched'
  BY <1>1 DEF IInv, EligibleAtStart, Counter, Untouched, Validated
<1> QED BY <1>2, <1>3 DEF IInv

\* A bundle is submitted: the quotas are saved.
LEMMA SubmitIInv ==
    ASSUME IInv, NEW e \in EntryPoints, NEW ops \in Bundles, bundleSubmitted(e, ops)
    PROVE  IInv'
<1>1. /\ Snapshot.nonce = nonce /\ Snapshot.deposit = deposit /\ Snapshot.executed = executed
      /\ Snapshot.senderNonce = senderNonce /\ Snapshot.granted = granted
      /\ Snapshot.funded = funded /\ Snapshot.nft = nft /\ Snapshot.limits = limits
      /\ Snapshot.sponsored = sponsored /\ Snapshot.balanceOf = balanceOf
      /\ Snapshot.highest = highest /\ Snapshot.others = others
  BY DEF Snapshot
<1>2. /\ phase' = "validate" /\ at' = 1 /\ saved' = Snapshot
      /\ UNCHANGED <<nft, limits, sponsored, balanceOf, highest, others>>
  BY DEF bundleSubmitted, submitBundle, handleOps, quota
<1>3. SponsorInv'
  BY <1>1, SubmitInv DEF IInv, bundleSubmitted
<1>4. Quotas' /\ Frozen'
  BY <1>1, <1>2 DEF IInv, Quotas, Frozen
<1>5. EligibleAtStart' /\ Counter' /\ Untouched'
  BY <1>1, <1>2 DEF IInv, EligibleAtStart, Counter, Untouched, Validated
<1> QED BY <1>3, <1>4, <1>5 DEF IInv

\* One more operation is eligible, by what is saved.
LEMMA ValidateIInv ==
    ASSUME IInv, validatePaymasterUserOp
    PROVE  IInv'
<1>1. /\ phase = "validate" /\ at \in 1..Len(bundle) /\ bundle \in Seq(Ops) /\ Op = bundle[at]
  BY CurrentOp DEF validatePaymasterUserOp, grant, IInv, SponsorInv, Op
<1>2. /\ UNCHANGED <<bundle, saved, nft, limits, sponsored, balanceOf, highest, others>>
      /\ IF at = Len(bundle) THEN phase' = "execute" /\ at' = 1
         ELSE at' = at + 1 /\ phase' = "validate"
  BY <1>1 DEF validatePaymasterUserOp, grant, validatePrepayment, quota
<1>3. SponsorInv'
  BY GrantInv DEF IInv, validatePaymasterUserOp
<1>4. /\ nft = saved.nft /\ limits = saved.limits
      /\ sponsored = saved.sponsored /\ balanceOf = saved.balanceOf
  BY <1>1 DEF IInv, Frozen
<1>5. Quotas' /\ Frozen'
  BY <1>1, <1>2, <1>4 DEF IInv, Quotas, Frozen
<1>6. EligibleAtStart'
  <2> DEFINE E(i) ==
        /\ saved.sponsored[saved.nft][bundle[i].sender].count < saved.limits[saved.nft].tx
        /\ RequiredPreFund + saved.sponsored[saved.nft][bundle[i].sender].totalAmount
             <= saved.limits[saved.nft].gas
  <2>1. E(at)
    BY <1>1, <1>4, Zenon DEF validatePaymasterUserOp, Eligible, isEligible
  <2>2. \A i \in 1..(at - 1) : E(i)
    BY <1>1 DEF IInv, EligibleAtStart, Validated
  <2> HIDE DEF E
  <2>3. \A i \in 1..at : E(i)
    BY <1>1, <2>1, <2>2
  <2>4. Validated' = 1..at
    BY <1>1, <1>2 DEF Validated
  <2> QED BY <1>2, <2>3, <2>4, Zenon DEF EligibleAtStart, E
<1>7. Counter' /\ Untouched'
  BY <1>1, <1>2, <1>4 DEF IInv, Counter, Untouched
<1> QED BY <1>3, <1>5, <1>6, <1>7 DEF IInv

\* The transaction reverts.
LEMMA RevertIInv ==
    ASSUME IInv, phase # "idle", revertTransaction
    PROVE  IInv'
<1>1. /\ phase' = "idle" /\ nft' = saved.nft /\ limits' = saved.limits
      /\ sponsored' = saved.sponsored /\ balanceOf' = saved.balanceOf /\ highest' = saved.highest
      /\ others' = saved.others
  BY DEF revertTransaction, failedOp, RevertBundle, Close
<1>2. SponsorInv'
  BY FailInv DEF IInv, revertTransaction
<1>3. Quotas' /\ Frozen' /\ EligibleAtStart' /\ Counter' /\ Untouched'
  BY <1>1 DEF IInv, Quotas, Frozen, EligibleAtStart, Counter, Untouched
<1> QED BY <1>2, <1>3 DEF IInv

\* An operation is paid for and uses up some of its sender's quota; the senders
\* of the operations after it are others.
LEMMA PayIInv ==
    ASSUME IInv, NEW gas \in GasCosts, payGas(gas), NEW held,
           isEligible(Op.sender, nft, held, gas),
           sponsored' = Applied(Op.sender, nft, gas),
           balanceOf' = balanceOf \/ balanceOf' = AfterCall(Op),
           UNCHANGED <<nft, limits, highest, others>>
    PROVE  IInv'
<1>1. /\ phase = "execute" /\ Op \in Ops /\ Op.sender \in Senders
      /\ at \in 1..Len(bundle) /\ bundle \in Seq(Ops) /\ Op = bundle[at]
  BY CurrentOp DEF payGas, IInv, SponsorInv, Op
<1>2. \/ phase' = "idle"
      \/ at' = at + 1 /\ UNCHANGED <<phase, bundle, saved>>
  BY DEF payGas, settle, Close
<1>3. SponsorInv'
  BY PayInv DEF IInv
<1>4. gas \in Nat /\ nft \in NFTs /\ balanceOf \in [NFTs -> [Senders -> Nat]]
  BY PreFundAssumption DEF GasCosts, IInv, Quotas, QuotaOK
<1>5. /\ sponsored' \in [NFTs -> [Senders -> Entries]]
      /\ Below(limits', sponsored', highest')
  BY <1>1, <1>4, AppliedBelow DEF IInv
<1>6. balanceOf' \in [NFTs -> [Senders -> Nat]]
  BY <1>1, <1>4, AfterCallType
<1>7. Quotas'
  BY <1>2, <1>5, <1>6 DEF IInv, Quotas, QuotaOK
<1>8. Frozen' /\ EligibleAtStart'
  BY <1>1, <1>2, Zenon DEF IInv, Frozen, EligibleAtStart, Validated
<1>9. Counter'
  BY <1>1, <1>2 DEF IInv, Counter
<1>10. Untouched'
  <2> SUFFICES ASSUME at' = at + 1, UNCHANGED <<phase, bundle, saved>>, others = saved.others,
                      NEW i \in (at + 1)..Len(bundle), NEW n \in NFTs
               PROVE  sponsored'[n][bundle[i].sender] = saved.sponsored[n][bundle[i].sender]
    BY <1>2 DEF Untouched
  <2>1. i \in at..Len(bundle) /\ i \in 1..Len(bundle) /\ i # at /\ bundle[i] \in Ops
    BY <1>1
  <2>2. sponsored[n][bundle[i].sender] = saved.sponsored[n][bundle[i].sender]
    BY <1>1, <2>1 DEF IInv, Untouched
  <2>3. bundle[i].sender # Op.sender /\ bundle[i].sender \in Senders
    BY <1>1, <2>1, OpFields DEF IInv, SponsorInv, Distinct, Validated
  <2>4. sponsored \in [NFTs -> [Senders -> Entries]]
    BY DEF IInv, Quotas, QuotaOK
  <2>5. sponsored'[n][bundle[i].sender] = sponsored[n][bundle[i].sender]
    BY <1>1, <1>4, <2>3, <2>4, AppliedEffect
  <2> QED BY <2>2, <2>5
<1> QED BY <1>3, <1>7, <1>8, <1>9, <1>10 DEF IInv

\* Others change limits, quotas and balanceOf, but not during validations.
LEMMA OthersIInv ==
    ASSUME IInv,
           \/ \E n \in NFTs : updateNFT(n)
           \/ \E n \in NFTs, l \in Limits : addOrUpdateNFTLimits(n, l)
           \/ \E n \in NFTs, s \in Senders, gas \in GasCosts : applyLogic(s, n, gas)
           \/ \E n \in NFTs, s \in Senders : mintNFT(n, s)
           \/ \E n \in NFTs, s \in Senders, to \in Senders \union {Outside} : transferFrom(n, s, to)
    PROVE  IInv'
<1>0. /\ QuotaOK(nft, limits, sponsored, balanceOf) /\ Below(limits, sponsored, highest)
  BY DEF IInv, Quotas
<1>1. phase # "validate" /\ UNCHANGED <<book, frame, saved, pmState, offChain>>
  BY Zenon DEF updateNFT, addOrUpdateNFTLimits, applyLogic, mintNFT, transferFrom
<1>2. UNCHANGED <<phase, bundle, at, saved>>
  BY <1>1 DEF frame
<1>3. SponsorInv'
  BY <1>1, OtherInv DEF IInv
<1> DEFINE Fine == /\ QuotaOK(nft', limits', sponsored', balanceOf')
                   /\ Below(limits', sponsored', highest')
                   /\ UNCHANGED <<sponsored, others>> \/ others' = others + 1
<1>4. Fine
  <2>1. ASSUME NEW n \in NFTs, updateNFT(n)
        PROVE  Fine
    BY <1>0, <2>1 DEF updateNFT, QuotaOK, Below
  <2>2. ASSUME NEW n \in NFTs, NEW l \in Limits, addOrUpdateNFTLimits(n, l)
        PROVE  Fine
    <3> DEFINE top == [tx |-> Max({highest[n].tx, l.tx}), gas |-> Max({highest[n].gas, l.gas})]
    <3>1. /\ limits' = [limits EXCEPT ![n] = l] /\ highest' = [highest EXCEPT ![n] = top]
          /\ UNCHANGED <<nft, sponsored, balanceOf, others>>
      BY <2>2 DEF addOrUpdateNFTLimits
    <3>2. highest[n] \in LimitPairs /\ l \in LimitPairs
      BY <1>0, LimitsArePairs DEF Below
    <3>3. \A a, b \in Nat : Max({a, b}) \in Nat /\ a <= Max({a, b}) /\ b <= Max({a, b})
      BY DEF Max
    <3>4. /\ top \in LimitPairs /\ l.tx <= top.tx /\ l.gas <= top.gas
          /\ highest[n].tx <= top.tx /\ highest[n].gas <= top.gas
      BY <3>2, <3>3 DEF LimitPairs
    <3> HIDE DEF top
    <3>5. QuotaOK(nft', limits', sponsored', balanceOf')
      BY <1>0, <3>1 DEF QuotaOK
    <3>6. highest' \in [NFTs -> LimitPairs]
      BY <1>0, <3>1, <3>4 DEF Below
    <3>7. \A m \in NFTs :
             /\ m = n => highest'[m] = top /\ limits'[m] = l
             /\ m # n => highest'[m] = highest[m] /\ limits'[m] = limits[m]
      BY <1>0, <3>1 DEF Below, QuotaOK
    <3>8. \A s \in Senders : /\ sponsored[n][s].count <= top.tx
                             /\ sponsored[n][s].totalAmount <= top.gas
      <4> SUFFICES ASSUME NEW s \in Senders
                   PROVE  sponsored[n][s].count <= top.tx /\ sponsored[n][s].totalAmount <= top.gas
        OBVIOUS
      <4>1. /\ sponsored[n][s].count \in Nat /\ sponsored[n][s].totalAmount \in Nat
            /\ highest[n].tx \in Nat /\ highest[n].gas \in Nat /\ top.tx \in Nat /\ top.gas \in Nat
        BY <1>0, <3>2, <3>4 DEF QuotaOK, Entries, LimitPairs
      <4>2. /\ sponsored[n][s].count <= highest[n].tx
            /\ sponsored[n][s].totalAmount <= highest[n].gas
        BY <1>0 DEF Below
      <4> QED BY <3>4, <4>1, <4>2, SMTT(30)
    <3>9. Below(limits', sponsored', highest')
      BY <1>0, <3>1, <3>4, <3>6, <3>7, <3>8, SMTT(30) DEF Below
    <3> QED BY <3>1, <3>5, <3>9
  <2>3. ASSUME NEW n \in NFTs, NEW s \in Senders, NEW gas \in GasCosts, applyLogic(s, n, gas)
        PROVE  Fine
    <3>1. gas \in Nat /\ isEligible(s, n, balanceOf, gas) /\ sponsored' = Applied(s, n, gas)
      BY <2>3, PreFundAssumption DEF applyLogic, GasCosts
    <3>2. /\ sponsored' \in [NFTs -> [Senders -> Entries]]
          /\ Below(limits, sponsored', highest)
      BY <3>1, AppliedBelow DEF IInv
    <3> QED BY <1>0, <2>3, <3>2 DEF applyLogic, QuotaOK
  <2>4. ASSUME NEW n \in NFTs, NEW s \in Senders, mintNFT(n, s)
        PROVE  Fine
    <3>1. balanceOf' \in [NFTs -> [Senders -> Nat]]
      BY <1>0, <2>4, MintedType DEF mintNFT, QuotaOK
    <3> QED BY <1>0, <2>4, <3>1 DEF mintNFT, QuotaOK, Below
  <2>5. ASSUME NEW n \in NFTs, NEW s \in Senders, NEW to, transferFrom(n, s, to)
        PROVE  Fine
    <3>1. balanceOf' \in [NFTs -> [Senders -> Nat]]
      BY <1>0, <2>5, MovedType DEF transferFrom, QuotaOK
    <3> QED BY <1>0, <2>5, <3>1 DEF transferFrom, QuotaOK, Below
  <2> QED BY <2>1, <2>2, <2>3, <2>4, <2>5
<1>5. Quotas' /\ Frozen'
  BY <1>1, <1>2, <1>4 DEF IInv, Quotas, Frozen
<1>6. EligibleAtStart'
  BY <1>2, Zenon DEF IInv, EligibleAtStart, Validated
<1>7. Counter' /\ Untouched'
  <2>1. CASE UNCHANGED <<sponsored, others>>
    BY <1>2, <2>1 DEF IInv, Counter, Untouched
  <2>2. CASE others' = others + 1
    BY <1>2, <2>2 DEF IInv, Counter, Untouched
  <2> QED BY <1>4, <2>1, <2>2
<1> QED BY <1>3, <1>5, <1>6, <1>7 DEF IInv

\* Every step preserves the inductive invariant.
LEMMA NextIInv == IInv /\ [Next]_vars => IInv'
<1> SUFFICES ASSUME IInv, [Next]_vars PROVE IInv'
  OBVIOUS
<1>1. ASSUME NEW op \in Ops, approvalSigned(op)
      PROVE  IInv'
  <2>1. SponsorInv'
    BY <1>1, SignInv DEF IInv, approvalSigned
  <2> QED BY <1>1, <2>1, QuietIInv DEF approvalSigned, signApproval, frame
<1>2. ASSUME NEW e \in EntryPoints, NEW ops \in Bundles, bundleSubmitted(e, ops)
      PROVE  IInv'
  BY <1>2, SubmitIInv
<1>3. ASSUME validatePaymasterUserOp PROVE IInv'
  BY <1>3, ValidateIInv
<1>4. ASSUME validationFails PROVE IInv'
  BY <1>4, RevertIInv DEF validationFails
<1>5. ASSUME NEW gas \in GasCosts, postOp(gas)
      PROVE  IInv'
  BY <1>5, PayIInv DEF postOp
<1>6. ASSUME NEW gas \in GasCosts, NEW more \in GasCosts, postOpReverted(gas, more)
      PROVE  IInv'
  BY <1>6, PayIInv DEF postOpReverted
<1>7. ASSUME NEW gas \in GasCosts, NEW more \in GasCosts, postOpRevertsAgain(gas, more)
      PROVE  IInv'
  BY <1>7, RevertIInv DEF postOpRevertsAgain
<1>8. ASSUME UNCHANGED vars PROVE IInv'
  <2>1. SponsorInv'
    BY <1>8, OtherInv DEF IInv, vars
  <2> QED BY <1>8, <2>1, QuietIInv DEF vars, frame
<1> QED BY <1>1, <1>2, <1>3, <1>4, <1>5, <1>6, <1>7, <1>8, OthersIInv DEF Next

\* The inductive invariant holds in every reachable state.
THEOREM Invariant == Spec => []IInv
BY InitIInv, NextIInv, PTL DEF Spec

-----------------------------------------------------------------------------
(* The results.                                                            *)

\* Every variable has its type: applyLogic never makes a counter negative.
THEOREM TypeCorrect == Spec => []TypeOK
<1>1. IInv => TypeOK
  BY Zenon DEF IInv, SponsorInv, Quotas, QuotaOK, Entries, TypeOK, QuotaType, Snapshot
<1> QED BY <1>1, Invariant, PTL

\* Nobody is sponsored beyond the highest limits of NFTGasLogic so far.
THEOREM NeverBeyondLimits == Spec => []WithinLimits
<1>1. IInv => WithinLimits
  BY DEF IInv, Quotas, Below, WithinLimits
<1> QED BY <1>1, Invariant, PTL

\* When nobody interfered, the second call of postOp finds its sender eligible
\* for all the gas that was reserved.
LEMMA EligibleAgain ==
    ASSUME IInv, phase = "execute", nft = saved.nft, limits = saved.limits,
           others = saved.others, balanceOf[nft][Op.sender] > 0,
           NEW more \in GasCosts
    PROVE  isEligible(Op.sender, nft, balanceOf, more)
<1>1. /\ at \in 1..Len(bundle) /\ bundle \in Seq(Ops) /\ Op = bundle[at]
      /\ Op.sender \in Senders
  BY CurrentOp DEF IInv, SponsorInv, Op
<1>2. at \in Validated /\ at \in at..Len(bundle)
  BY <1>1 DEF Validated
<1>3. sponsored[nft][Op.sender] = saved.sponsored[nft][Op.sender]
  BY <1>1, <1>2 DEF IInv, Untouched, Quotas, QuotaOK
<1>4. /\ sponsored[nft][Op.sender].count < limits[nft].tx
      /\ RequiredPreFund + sponsored[nft][Op.sender].totalAmount <= limits[nft].gas
  BY <1>1, <1>2, <1>3, Zenon DEF IInv, EligibleAtStart
<1>5. nft \in NFTs /\ sponsored[nft][Op.sender] \in Entries /\ limits[nft] \in LimitPairs
  BY <1>1, LimitsArePairs DEF IInv, Quotas, QuotaOK
<1>6. /\ sponsored[nft][Op.sender].totalAmount \in Nat /\ limits[nft].gas \in Int
      /\ more \in Nat /\ RequiredPreFund \in Nat /\ more <= RequiredPreFund
  <2>1. more \in Nat /\ RequiredPreFund \in Nat /\ more <= RequiredPreFund
    BY PreFundAssumption DEF GasCosts
  <2> QED BY <1>5, <2>1 DEF Entries, LimitPairs
<1>7. more + sponsored[nft][Op.sender].totalAmount <= limits[nft].gas
  BY <1>4, <1>6
<1> QED BY <1>4, <1>7 DEF isEligible

\* One of the two calls of postOp succeeds, unless somebody changed the NFT or
\* its limits or called applyLogic since the transaction started, or the sender
\* has no NFT left when its operation's turn comes.
THEOREM ReservationHolds == Spec => QuotaReserved
<1>1. IInv /\ [Next]_vars =>
        [/\ phase = "execute"
         /\ nft = saved.nft /\ limits = saved.limits /\ others = saved.others
         /\ balanceOf[nft][Op.sender] > 0
         => granted \subseteq granted']_vars
  <2> SUFFICES ASSUME IInv, Next, phase = "execute", nft = saved.nft, limits = saved.limits,
                      others = saved.others, balanceOf[nft][Op.sender] > 0
               PROVE  granted \subseteq granted'
    OBVIOUS
  <2>1. ASSUME NEW op \in Ops, approvalSigned(op) PROVE FALSE
    BY <2>1 DEF approvalSigned, signApproval
  <2>2. ASSUME NEW e \in EntryPoints, NEW ops \in Bundles, bundleSubmitted(e, ops) PROVE FALSE
    BY <2>2 DEF bundleSubmitted, submitBundle, handleOps
  <2>3. ASSUME validatePaymasterUserOp \/ validationFails PROVE FALSE
    BY <2>3 DEF validatePaymasterUserOp, grant, validationFails
  <2>4. ASSUME NEW gas \in GasCosts, payGas(gas) PROVE granted' = granted
    BY <2>4 DEF payGas, pmState
  <2>5. ASSUME NEW gas \in GasCosts, NEW more \in GasCosts, postOpRevertsAgain(gas, more)
        PROVE  FALSE
    BY <2>5, EligibleAgain DEF postOpRevertsAgain
  <2>6. ASSUME UNCHANGED pmState PROVE granted' = granted
    BY <2>6 DEF pmState
  <2> QED BY <2>1, <2>2, <2>3, <2>4, <2>5, <2>6, Zenon
          DEF Next, postOp, postOpReverted, updateNFT, addOrUpdateNFTLimits, applyLogic, mintNFT,
              transferFrom
<1> QED BY <1>1, Invariant, PTL DEF Spec, QuotaReserved

-----------------------------------------------------------------------------
(* The counts.  An operation that is executed is counted in executed and   *)
(* in the quota of its sender; calls of applyLogic by others only raise    *)
(* the latter, and a revert takes both back.                               *)

OpsOf(s) == {op \in Ops : op.sender = s}
Counts(sp, s) == [n \in NFTs |-> sp[n][s].count]

Counted(x, sp) ==
    \A s \in Senders :
        SumFunctionOnSet(x, OpsOf(s)) <= SumFunctionOnSet(Counts(sp, s), NFTs)

CountInv ==
    /\ Counted(executed, sponsored)
    /\ phase # "idle" => Counted(saved.executed, saved.sponsored)

\* The sums are numbers, over finite sets.
LEMMA CountTypes ==
    ASSUME NEW sp \in [NFTs -> [Senders -> Entries]], NEW x \in [Ops -> Nat], NEW s \in Senders
    PROVE  /\ IsFiniteSet(OpsOf(s)) /\ IsFiniteSet(NFTs)
           /\ Counts(sp, s) \in [NFTs -> Int]
           /\ SumFunctionOnSet(x, OpsOf(s)) \in Int
           /\ SumFunctionOnSet(Counts(sp, s), NFTs) \in Int
<1>1. IsFiniteSet(OpsOf(s)) /\ IsFiniteSet(NFTs)
  BY OpsAssumption, LimitsAssumption, FS_Subset DEF OpsOf
<1>2. Counts(sp, s) \in [NFTs -> Int]
  BY DEF Counts, Entries
<1>3. \A op \in OpsOf(s) : x[op] \in Int
  BY DEF OpsOf
<1> QED BY <1>1, <1>2, <1>3, SumInt

\* applyLogic raises the sum of one user's counts by one, and no other.
LEMMA AppliedCounts ==
    ASSUME sponsored \in [NFTs -> [Senders -> Entries]],
           NEW u \in Senders, NEW n \in NFTs, NEW g \in Nat, NEW s \in Senders
    PROVE  SumFunctionOnSet(Counts(Applied(u, n, g), s), NFTs)
             = SumFunctionOnSet(Counts(sponsored, s), NFTs) + IF s = u THEN 1 ELSE 0
<1> DEFINE a == Counts(sponsored, s)
           b == Counts(Applied(u, n, g), s)
           d == IF s = u THEN 1 ELSE 0
<1>1. Applied(u, n, g) \in [NFTs -> [Senders -> Entries]]
  BY AppliedEffect
<1>2. a \in [NFTs -> Int] /\ b \in [NFTs -> Int] /\ IsFiniteSet(NFTs)
  <2>1. [op \in Ops |-> 0] \in [Ops -> Nat]
    OBVIOUS
  <2> QED BY <1>1, <2>1, CountTypes, Zenon
<1>3. \A m \in NFTs : m # n => b[m] = a[m]
  BY AppliedEffect DEF Counts
<1>4. b[n] = a[n] + d
  <2>1. sponsored[n][s] \in Entries /\ sponsored[n][s].count \in Nat
    BY DEF Entries
  <2>2. CASE s = u
    BY <2>2, AppliedEffect DEF Counts
  <2>3. CASE s # u
    BY <2>1, <2>3, AppliedEffect DEF Counts
  <2> QED BY <2>2, <2>3
<1>5. d \in Int
  OBVIOUS
<1> HIDE DEF a, b, d
<1>6. SumFunctionOnSet(b, NFTs) = SumFunctionOnSet(a, NFTs) + d
  BY <1>2, <1>3, <1>4, <1>5, SumUpdate
<1> QED BY <1>6 DEF a, b, d

\* One more execution raises the sum of its sender's operations, and no other.
LEMMA ExecutedCounts ==
    ASSUME NEW x \in [Ops -> Nat], NEW op \in Ops, NEW s \in Senders
    PROVE  SumFunctionOnSet([x EXCEPT ![op] = @ + 1], OpsOf(s))
             = SumFunctionOnSet(x, OpsOf(s)) + IF s = op.sender THEN 1 ELSE 0
<1> DEFINE y == [x EXCEPT ![op] = @ + 1]
           S == OpsOf(s)
           f == [o \in S |-> x[o]]
           g == [o \in S |-> y[o]]
<1>1. IsFiniteSet(S)
  BY OpsAssumption, FS_Subset DEF OpsOf
<1>2. S \subseteq Ops /\ (op \in S <=> s = op.sender)
  BY DEF OpsOf
<1>3. y \in [Ops -> Nat] /\ y[op] = x[op] + 1 /\ \A o \in Ops : o # op => y[o] = x[o]
  OBVIOUS
<1> HIDE DEF S, y
<1>4. f \in [S -> Int] /\ g \in [S -> Int] /\ \A o \in S : f[o] = x[o] /\ g[o] = y[o]
  BY <1>2, <1>3
<1> HIDE DEF f, g
<1>5. /\ SumFunctionOnSet(f, S) = SumFunctionOnSet(x, S)
      /\ SumFunctionOnSet(g, S) = SumFunctionOnSet(y, S)
  BY <1>1, <1>4, SumSame
<1>6. SumFunctionOnSet(f, S) \in Int
  BY <1>1, <1>4, SumInt
<1>7. CASE s = op.sender
  <2>1. SumFunctionOnSet(g, S) = SumFunctionOnSet(f, S) + 1
    BY <1>1, <1>2, <1>3, <1>4, <1>7, SumUpdate
  <2> QED BY <1>5, <1>7, <2>1 DEF S, y
<1>8. CASE s # op.sender
  <2>1. SumFunctionOnSet(g, S) = SumFunctionOnSet(f, S)
    BY <1>1, <1>2, <1>3, <1>4, <1>8, SumSame
  <2> QED BY <1>5, <1>6, <1>8, <2>1 DEF S, y
<1> QED BY <1>7, <1>8

\* The types of what is counted.
LEMMA QuantityTypes ==
    ASSUME IInv, NEW gas \in GasCosts
    PROVE  /\ gas \in Nat /\ nft \in NFTs /\ executed \in [Ops -> Nat]
           /\ sponsored \in [NFTs -> [Senders -> Entries]]
<1>1. gas \in Nat
  BY PreFundAssumption DEF GasCosts
<1>2. QuotaOK(nft, limits, sponsored, balanceOf) /\ SponsorTypeOK
  BY DEF IInv, Quotas, SponsorInv
<1>3. executed \in [Ops -> Nat]
  BY <1>2, Zenon DEF SponsorTypeOK, BookType
<1> QED BY <1>1, <1>2, <1>3 DEF QuotaOK

\* An operation is executed and counted.
LEMMA PayCounts ==
    ASSUME IInv, CountInv, NEW gas \in GasCosts, payGas(gas),
           sponsored' = Applied(Op.sender, nft, gas)
    PROVE  CountInv'
<1>1. /\ phase = "execute" /\ Op \in Ops /\ Op.sender \in Senders
      /\ executed' = [executed EXCEPT ![Op] = @ + 1]
      /\ phase' = "idle" \/ UNCHANGED <<phase, saved>>
  BY CurrentOp DEF payGas, settle, Close, IInv, SponsorInv
<1>2. /\ gas \in Nat /\ nft \in NFTs /\ executed \in [Ops -> Nat]
      /\ sponsored \in [NFTs -> [Senders -> Entries]]
  BY QuantityTypes
<1>3. ASSUME NEW s \in Senders
      PROVE  SumFunctionOnSet(executed', OpsOf(s)) <= SumFunctionOnSet(Counts(sponsored', s), NFTs)
  <2>1. /\ SumFunctionOnSet(executed, OpsOf(s)) \in Int
        /\ SumFunctionOnSet(Counts(sponsored, s), NFTs) \in Int
        /\ SumFunctionOnSet(executed, OpsOf(s)) <= SumFunctionOnSet(Counts(sponsored, s), NFTs)
    BY <1>2, <1>3, CountTypes DEF CountInv, Counted
  <2>2. SumFunctionOnSet(executed', OpsOf(s))
          = SumFunctionOnSet(executed, OpsOf(s)) + IF s = Op.sender THEN 1 ELSE 0
    BY <1>1, <1>2, <1>3, ExecutedCounts, Zenon
  <2>3. SumFunctionOnSet(Counts(sponsored', s), NFTs)
          = SumFunctionOnSet(Counts(sponsored, s), NFTs) + IF s = Op.sender THEN 1 ELSE 0
    BY <1>1, <1>2, <1>3, AppliedCounts
  <2> QED BY <2>1, <2>2, <2>3
<1> QED BY <1>1, <1>3, Zenon DEF CountInv, Counted, Counts, OpsOf

\* Steps that change neither count.
LEMMA QuietCounts ==
    ASSUME CountInv, UNCHANGED <<executed, phase, saved, sponsored>>
    PROVE  CountInv'
BY DEF CountInv, Counted, Counts, OpsOf

\* The transaction reverts.
LEMMA RevertCounts ==
    ASSUME CountInv, phase # "idle", revertTransaction
    PROVE  CountInv'
<1>1. phase' = "idle" /\ executed' = saved.executed /\ sponsored' = saved.sponsored
  BY DEF revertTransaction, failedOp, RevertBundle, Close
<1> QED BY <1>1 DEF CountInv, Counted, Counts, OpsOf

\* Others use up a quota.
LEMMA OthersCount ==
    ASSUME IInv, CountInv, NEW n \in NFTs, NEW u \in Senders, NEW gas \in GasCosts,
           applyLogic(u, n, gas)
    PROVE  CountInv'
<1>1. UNCHANGED <<executed, phase, saved>> /\ sponsored' = Applied(u, n, gas)
  BY DEF applyLogic, book, frame
<1>2. /\ gas \in Nat /\ executed \in [Ops -> Nat]
      /\ sponsored \in [NFTs -> [Senders -> Entries]]
  BY QuantityTypes
<1>3. ASSUME NEW s \in Senders
      PROVE  SumFunctionOnSet(executed', OpsOf(s)) <= SumFunctionOnSet(Counts(sponsored', s), NFTs)
  <2>1. /\ SumFunctionOnSet(executed, OpsOf(s)) \in Int
        /\ SumFunctionOnSet(Counts(sponsored, s), NFTs) \in Int
        /\ SumFunctionOnSet(executed, OpsOf(s)) <= SumFunctionOnSet(Counts(sponsored, s), NFTs)
    BY <1>2, <1>3, CountTypes DEF CountInv, Counted
  <2>2. SumFunctionOnSet(Counts(sponsored', s), NFTs)
          = SumFunctionOnSet(Counts(sponsored, s), NFTs) + IF s = u THEN 1 ELSE 0
    BY <1>1, <1>2, <1>3, AppliedCounts
  <2> QED BY <1>1, <2>1, <2>2
<1> QED BY <1>1, <1>3 DEF CountInv, Counted, Counts, OpsOf

\* Every step keeps the counts in line with what was executed.
LEMMA NextCounts == IInv /\ CountInv /\ [Next]_vars => CountInv'
<1> SUFFICES ASSUME IInv, CountInv, [Next]_vars PROVE CountInv'
  OBVIOUS
<1>1. ASSUME NEW op \in Ops, approvalSigned(op)
      PROVE  CountInv'
  BY <1>1, QuietCounts DEF approvalSigned, signApproval, book, frame, quota
<1>2. ASSUME NEW e \in EntryPoints, NEW ops \in Bundles, bundleSubmitted(e, ops)
      PROVE  CountInv'
  <2>1. /\ saved'.executed = executed /\ saved'.sponsored = sponsored
        /\ UNCHANGED <<executed, sponsored>>
    BY <1>2 DEF bundleSubmitted, submitBundle, handleOps, Snapshot, book, quota
  <2> QED BY <2>1 DEF CountInv, Counted, Counts, OpsOf
<1>3. ASSUME validatePaymasterUserOp
      PROVE  CountInv'
  <2>1. phase # "idle" /\ UNCHANGED <<executed, saved, sponsored>>
    BY <1>3 DEF validatePaymasterUserOp, grant, validatePrepayment, quota
  <2> QED BY <2>1 DEF CountInv, Counted, Counts, OpsOf
<1>4. ASSUME validationFails
      PROVE  CountInv'
  BY <1>4, RevertCounts DEF validationFails
<1>5. ASSUME NEW gas \in GasCosts, postOp(gas)
      PROVE  CountInv'
  BY <1>5, PayCounts DEF postOp
<1>6. ASSUME NEW gas \in GasCosts, NEW more \in GasCosts, postOpReverted(gas, more)
      PROVE  CountInv'
  BY <1>6, PayCounts DEF postOpReverted
<1>7. ASSUME NEW gas \in GasCosts, NEW more \in GasCosts, postOpRevertsAgain(gas, more)
      PROVE  CountInv'
  BY <1>7, RevertCounts DEF postOpRevertsAgain
<1>8. ASSUME \/ \E n \in NFTs : updateNFT(n)
             \/ \E n \in NFTs, l \in Limits : addOrUpdateNFTLimits(n, l)
             \/ \E n \in NFTs, s \in Senders : mintNFT(n, s)
             \/ \E n \in NFTs, s \in Senders, to \in Senders \union {Outside} :
                   transferFrom(n, s, to)
      PROVE  CountInv'
  BY <1>8, QuietCounts, Zenon
     DEF updateNFT, addOrUpdateNFTLimits, mintNFT, transferFrom, book, frame
<1>9. ASSUME UNCHANGED vars
      PROVE  CountInv'
  BY <1>9, QuietCounts DEF vars, book, frame, quota
<1> QED BY <1>1, <1>2, <1>3, <1>4, <1>5, <1>6, <1>7, <1>8, <1>9, OthersCount DEF Next

\* Initially nothing is executed and nothing counted.
LEMMA InitCounts == Init => CountInv
<1> SUFFICES ASSUME Init, NEW s \in Senders
             PROVE  SumFunctionOnSet(executed, OpsOf(s))
                      <= SumFunctionOnSet(Counts(sponsored, s), NFTs)
  BY Zenon DEF Init, SponsorInit, EPInit, CountInv, Counted
<1>1. /\ \A op \in OpsOf(s) : executed[op] = 0
      /\ \A n \in NFTs : Counts(sponsored, s)[n] = 0
  BY DEF Init, SponsorInit, EPInit, OpsOf, Counts
<1>2. IsFiniteSet(OpsOf(s)) /\ IsFiniteSet(NFTs)
  BY OpsAssumption, LimitsAssumption, FS_Subset DEF OpsOf
<1>3. SumFunctionOnSet(executed, OpsOf(s)) = 0
  BY <1>1, <1>2, SumZero
<1>4. SumFunctionOnSet(Counts(sponsored, s), NFTs) = 0
  BY <1>1, <1>2, SumZero
<1> QED BY <1>3, <1>4

\* Every sponsored operation is counted against the quota of its sender.
THEOREM EveryOpCounted == Spec => []ExecutedAreCounted
<1>1. CountInv => ExecutedAreCounted
  <2>1. \A s \in Senders : /\ DOMAIN Counts(sponsored, s) = NFTs
                           /\ SumFunction(Counts(sponsored, s))
                                = SumFunctionOnSet(Counts(sponsored, s), NFTs)
    BY DEF SumFunction, Counts
  <2> QED BY <2>1, Zenon DEF CountInv, Counted, ExecutedAreCounted, Counts, OpsOf
<1>2. Init => IInv /\ CountInv
  BY InitIInv, InitCounts
<1>3. IInv /\ CountInv /\ [Next]_vars => (IInv /\ CountInv)'
  BY NextIInv, NextCounts
<1> QED BY <1>1, <1>2, <1>3, PTL DEF Spec

-----------------------------------------------------------------------------
(* The sponsorship.                                                        *)

\* EnclaveVerifyingNFTPaymaster sponsors as EnclaveVerifyingPaymaster does: quotas
\* only add to what it refuses.
THEOREM NFTSponsors == Spec => SponsorSpec
<1>1. ASSUME Next
      PROVE  [SponsorNext]_sponsorVars
  <2>1. Saves(Snapshot)
    BY DEF Saves, Snapshot
  <2>2. \A op : approvalSigned(op) => signApproval(op)
    BY DEF approvalSigned
  <2>3. \A e, ops : bundleSubmitted(e, ops) => submitBundle(e, ops, Snapshot)
    BY DEF bundleSubmitted
  <2>4. validatePaymasterUserOp => grant
    BY DEF validatePaymasterUserOp
  <2>5. \/ validationFails \/ \E gas, more \in GasCosts : postOpRevertsAgain(gas, more)
        => phase # "idle" /\ failedOp
    BY DEF validationFails, postOpRevertsAgain, revertTransaction
  <2>6. \/ \E gas \in GasCosts : postOp(gas)
        \/ \E gas, more \in GasCosts : postOpReverted(gas, more)
        => \E cost \in GasCosts : payGas(cost)
    BY DEF postOp, postOpReverted
  <2>7. \/ \E n \in NFTs : updateNFT(n)
        \/ \E n \in NFTs, l \in Limits : addOrUpdateNFTLimits(n, l)
        \/ \E n \in NFTs, s \in Senders, gas \in GasCosts : applyLogic(s, n, gas)
        \/ \E n \in NFTs, s \in Senders : mintNFT(n, s)
        \/ \E n \in NFTs, s \in Senders, to \in Senders \union {Outside} : transferFrom(n, s, to)
        => UNCHANGED sponsorVars
    BY Zenon DEF updateNFT, addOrUpdateNFTLimits, applyLogic, mintNFT, transferFrom, sponsorVars
  <2> QED BY <1>1, <2>1, <2>2, <2>3, <2>4, <2>5, <2>6, <2>7 DEF Next, SponsorNext
<1>2. UNCHANGED vars => UNCHANGED sponsorVars
  BY DEF vars, sponsorVars
<1>3. Init => SponsorInit
  BY DEF Init
<1>4. [Next]_vars => [SponsorNext]_sponsorVars
  BY <1>1, <1>2
<1> QED BY <1>3, <1>4, PTL DEF Spec, SponsorSpec

\* What the service approved, once per reading, sender and bundle, is all the
\* gas the NFT paymaster can be made to pay, whatever quotas and limits say.
THEOREM NFTSponsorshipSound ==
    Spec => [](/\ GrantsApproved /\ OneGrantPerReading
               /\ OneOpPerSenderPerBundle /\ ExposureBounded)
BY SponsorshipSound, NFTSponsors, PTL

=============================================================================
