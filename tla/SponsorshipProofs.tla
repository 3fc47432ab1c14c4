------------------------- MODULE SponsorshipProofs -------------------------
(***************************************************************************)
(* What the steps of Sponsorship, which the paymasters conjoin with steps  *)
(* of their own, preserve: lemmas for the proofs about each paymaster, and *)
(* the theorems about VerifyingPaymaster, which adds least to them.        *)
(*                                                                         *)
(* The argument: an approval names a senderNonce that was committed when   *)
(* it was signed, so no approval is ahead of the committed value.  Every   *)
(* validation increments senderNonce, so a reading that was used is behind *)
(* for good, and within a transaction a sender that has been validated is  *)
(* ahead of all approvals.                                                 *)
(***************************************************************************)
EXTENDS VerifyingPaymaster, Sums

\* Bundles are non-empty sequences of operations.
LEMMA BundleType ==
    ASSUME NEW ops \in Bundles
    PROVE  ops \in Seq(Ops) /\ 1 \in 1..Len(ops)
<1>1. PICK n \in 1..MaxBundle : ops \in [1..n -> Ops]
  BY DEF Bundles
<1>2. n \in Nat /\ 1 <= n
  BY MaxBundleAssumption
<1>3. ops \in Seq(Ops) /\ Len(ops) = n
  BY <1>1, <1>2
<1> QED BY <1>2, <1>3

\* The senders and the signed fields of operations are what the types say.
LEMMA OpFields ==
    ASSUME NEW op \in Ops
    PROVE  /\ op.sender \in Senders
           /\ pack(op) \in {pack(o) : o \in Ops}
           /\ pack(op).sender = op.sender
           /\ op.validUntil \in {o.validUntil : o \in Ops}
           /\ op.validAfter \in {o.validAfter : o \in Ops}
<1>1. pack(op).sender = op.sender
  BY DEF pack
<1> QED BY <1>1 DEF Senders

\* One entry of a table of tables changes.
LEMMA TableEntry ==
    ASSUME NEW X, NEW Y, NEW f \in [X -> [Y -> Nat]], NEW x \in X, NEW y \in Y,
           NEW v \in Nat
    PROVE  [f EXCEPT ![x][y] = v] \in [X -> [Y -> Nat]]
<1>1. [f[x] EXCEPT ![y] = v] \in [Y -> Nat]
  OBVIOUS
<1>2. [f EXCEPT ![x][y] = v] = [f EXCEPT ![x] = [f[x] EXCEPT ![y] = v]]
  OBVIOUS
<1> QED BY <1>1, <1>2

\* Inside handleOps there is a current operation.
LEMMA CurrentOp ==
    ASSUME SponsorTypeOK, phase # "idle"
    PROVE  Op \in Ops /\ Op.sender \in Senders /\ at \in 1..Len(bundle) /\ bundle \in Seq(Ops)
<1>1. Op \in Ops /\ at \in 1..Len(bundle) /\ bundle \in Seq(Ops)
  BY DEF SponsorTypeOK, Op
<1> QED BY <1>1, OpFields

-----------------------------------------------------------------------------
(* The type invariant, step by step.                                       *)

\* The initial state.
LEMMA SponsorInitTypes == SponsorInit => SponsorTypeOK
BY StakeAssumption DEF SponsorInit, EPInit, SponsorTypeOK, BookType

\* Steps that have nothing to do with the sponsorship.
LEMMA OtherTypes ==
    ASSUME SponsorTypeOK, UNCHANGED <<book, frame, saved, pmState, offChain>>
    PROVE  SponsorTypeOK'
BY DEF book, frame, pmState, offChain, SponsorTypeOK, BookType

\* The service signs.
LEMMA SignTypes ==
    ASSUME SponsorTypeOK, NEW op \in Ops, signApproval(op)
    PROVE  SponsorTypeOK'
<1>1. getHash(op) \in Hashes
  <2>1. senderNonce[op.sender] \in Nat
    BY OpFields DEF SponsorTypeOK
  <2> QED BY <2>1, OpFields DEF getHash, HashAt, Hashes
<1> QED BY <1>1 DEF signApproval, SponsorTypeOK, BookType, book, frame, pmState

\* A bundle is submitted, and the state saved.
LEMMA SubmitTypes ==
    ASSUME SponsorTypeOK, NEW e \in EntryPoints, NEW ops \in Bundles, NEW snapshot,
           submitBundle(e, ops, snapshot),
           snapshot.nonce = nonce, snapshot.deposit = deposit, snapshot.executed = executed,
           snapshot.senderNonce = senderNonce, snapshot.granted = granted,
           snapshot.funded = funded
    PROVE  SponsorTypeOK'
<1>1. ops \in Seq(Ops) /\ 1 \in 1..Len(ops)
  BY BundleType
<1>2. /\ phase' = "validate" /\ ep' = e /\ bundle' = ops /\ at' = 1
      /\ saved' = snapshot
      /\ UNCHANGED <<nonce, deposit, executed, senderNonce, granted, funded, approvals, now>>
  BY DEF submitBundle, handleOps, book, pmState, offChain
<1> QED BY <1>1, <1>2 DEF SponsorTypeOK, BookType

\* The paymaster agrees to pay: the deposit covers the prefund.
LEMMA GrantTypes ==
    ASSUME SponsorTypeOK, grant
    PROVE  SponsorTypeOK'
<1> USE DEF BookType
<1>1. /\ phase = "validate" /\ Op \in Ops /\ Op.sender \in Senders
      /\ at \in 1..Len(bundle) /\ bundle \in Seq(Ops)
  BY CurrentOp DEF grant
<1>2. nonce' \in [EntryPoints -> [Senders -> Nat]]
  <2>1. nonce' = [nonce EXCEPT ![ep][Op.sender] = nonce[ep][Op.sender] + 1]
    BY DEF grant, validatePrepayment
  <2>2. ep \in EntryPoints /\ nonce[ep][Op.sender] + 1 \in Nat
    BY <1>1 DEF SponsorTypeOK
  <2> QED BY <1>1, <2>1, <2>2, TableEntry DEF SponsorTypeOK
<1>3. deposit' \in [EntryPoints -> [Payers -> Nat]]
  <2>1. deposit' = [deposit EXCEPT ![ep][Paymaster] = deposit[ep][Paymaster] - RequiredPreFund]
    BY DEF grant, validatePrepayment
  <2>2. deposit[ep][Paymaster] - RequiredPreFund \in Nat
    BY PayersAssumption, PreFundAssumption DEF grant, Valid, DepositFits, SponsorTypeOK
  <2> QED BY <2>1, <2>2, PayersAssumption, TableEntry DEF SponsorTypeOK
<1>4. senderNonce' \in [Senders -> Nat]
  BY <1>1 DEF grant, increment, SponsorTypeOK
<1>5. granted' \subseteq Grants
  BY <1>1 DEF grant, Grant, Grants, SponsorTypeOK
<1>6. /\ UNCHANGED <<executed, ep, bundle, saved, funded, approvals, now>>
      /\ phase' \in {"validate", "execute"}
      /\ at' \in 1..Len(bundle)
  BY <1>1 DEF grant, validatePrepayment, offChain
<1> QED BY <1>1, <1>2, <1>3, <1>4, <1>5, <1>6 DEF SponsorTypeOK

\* A transaction that reverts gives the saved state back.
LEMMA FailTypes ==
    ASSUME SponsorTypeOK, phase # "idle", failedOp
    PROVE  SponsorTypeOK'
BY DEF failedOp, RevertBundle, Close, offChain, SponsorTypeOK, BookType

\* An operation is paid for.
LEMMA PayTypes ==
    ASSUME SponsorTypeOK, NEW cost \in GasCosts, payGas(cost)
    PROVE  SponsorTypeOK'
<1> USE DEF BookType
<1>1. /\ phase = "execute" /\ Op \in Ops /\ at \in 1..Len(bundle) /\ bundle \in Seq(Ops)
  BY CurrentOp DEF payGas
<1>2. deposit' \in [EntryPoints -> [Payers -> Nat]]
  <2>1. deposit' = [deposit EXCEPT ![ep][Paymaster] =
                       deposit[ep][Paymaster] + (RequiredPreFund - cost)]
    BY DEF payGas, settle
  <2>2. deposit[ep][Paymaster] + (RequiredPreFund - cost) \in Nat
    BY PayersAssumption, PreFundAssumption DEF SponsorTypeOK, GasCosts
  <2> QED BY <2>1, <2>2, PayersAssumption, TableEntry DEF SponsorTypeOK
<1>3. executed' \in [Ops -> Nat]
  BY <1>1 DEF payGas, settle, SponsorTypeOK
<1>4. /\ UNCHANGED <<nonce, ep, senderNonce, granted, funded, approvals, now>>
      /\ \/ phase' = "idle"
         \/ at' \in 1..Len(bundle) /\ UNCHANGED <<phase, bundle, saved>>
  BY <1>1 DEF payGas, settle, Close, pmState, offChain
<1> QED BY <1>1, <1>2, <1>3, <1>4 DEF SponsorTypeOK

\* The deposit is funded or withdrawn from.
LEMMA FundTypes ==
    ASSUME SponsorTypeOK, NEW e \in EntryPoints, NEW amount \in Int, fundDeposit(e, amount)
    PROVE  SponsorTypeOK'
<1> USE DEF BookType
<1>1. deposit' \in [EntryPoints -> [Payers -> Nat]]
  <2>1. deposit' = [deposit EXCEPT ![e][Paymaster] = deposit[e][Paymaster] + amount]
    BY DEF fundDeposit
  <2>2. deposit[e][Paymaster] + amount \in Nat
    BY PayersAssumption DEF fundDeposit, SponsorTypeOK
  <2> QED BY <2>1, <2>2, PayersAssumption, TableEntry DEF SponsorTypeOK
<1>2. funded' \in Int
  BY DEF fundDeposit, SponsorTypeOK
<1>3. UNCHANGED <<nonce, executed, phase, ep, bundle, at, saved, senderNonce, granted,
                  approvals, now>>
  BY DEF fundDeposit, frame, offChain
<1> QED BY <1>1, <1>2, <1>3 DEF SponsorTypeOK

\* Time passes.
LEMMA TickTypes ==
    ASSUME SponsorTypeOK, tick
    PROVE  SponsorTypeOK'
BY DEF tick, book, frame, pmState, SponsorTypeOK, BookType

-----------------------------------------------------------------------------
(* The invariant of the sponsorship, step by step.                         *)

\* senderNonce as the service sees it: without the running transaction.
Committed == IF phase = "idle" THEN senderNonce ELSE saved.senderNonce

ReadingsCommitted == \A h \in approvals : h.senderNonce <= Committed[h.packed.sender]

NeverBack == phase # "idle" => \A s \in Senders : saved.senderNonce[s] <= senderNonce[s]

Approved(gs) ==
    \A g \in gs :
        /\ HashAt(pack(g.op), g.senderNonce, g.op.validUntil, g.op.validAfter) \in approvals
        /\ g.time >= g.op.validAfter
        /\ g.op.validUntil = 0 \/ g.time <= g.op.validUntil

Past(gs, ns) == \A g \in gs : g.senderNonce < ns[g.op.sender]

OnePerReading(gs) ==
    \A g, h \in gs : g.op.sender = h.op.sender /\ g.senderNonce = h.senderNonce => g = h

GrantsGood ==
    /\ Approved(granted) /\ Past(granted, senderNonce) /\ OnePerReading(granted)
    /\ phase # "idle" =>
          /\ Approved(saved.granted)
          /\ Past(saved.granted, saved.senderNonce)
          /\ OnePerReading(saved.granted)

Bumped ==
    phase = "validate" =>
        \A i \in 1..(at - 1) :
            saved.senderNonce[bundle[i].sender] < senderNonce[bundle[i].sender]

Validated == IF phase = "validate" THEN 1..(at - 1) ELSE 1..Len(bundle)

Distinct ==
    phase # "idle" =>
        \A i, j \in Validated : bundle[i].sender = bundle[j].sender => i = j

\* What every paymaster's inductive invariant has in common.
SponsorInv ==
    /\ SponsorTypeOK
    /\ ReadingsCommitted
    /\ NeverBack
    /\ GrantsGood
    /\ Bumped
    /\ Distinct

\* A hash that is approved is not ahead of the sender's committed nonce.
LEMMA HashNotAhead ==
    ASSUME SponsorInv, NEW op \in Ops, getHash(op) \in approvals
    PROVE  senderNonce[op.sender] <= Committed[op.sender]
<1>1. getHash(op).senderNonce = senderNonce[op.sender]
  BY DEF getHash, HashAt
<1>2. getHash(op).packed.sender = op.sender
  BY OpFields DEF getHash, HashAt
<1> QED BY <1>1, <1>2 DEF SponsorInv, ReadingsCommitted

\* The paymaster agrees to pay for one more operation.
LEMMA GrantInv ==
    ASSUME SponsorInv, grant
    PROVE  SponsorInv'
<1>0. SponsorTypeOK'
  BY GrantTypes DEF SponsorInv
<1> DEFINE s == Op.sender
<1>1. /\ phase = "validate" /\ Op \in Ops /\ s \in Senders
      /\ at \in 1..Len(bundle) /\ bundle \in Seq(Ops) /\ Op = bundle[at]
  BY CurrentOp DEF grant, SponsorInv, Op
<1>2. /\ getHash(Op) \in approvals
      /\ now >= Op.validAfter
      /\ Op.validUntil = 0 \/ now <= Op.validUntil
  BY DEF grant, Valid, SignatureValid, InTimeRange, validationData
<1>3. /\ senderNonce \in [Senders -> Nat] /\ saved.senderNonce \in [Senders -> Nat]
      /\ granted \subseteq Grants
  BY <1>1 DEF SponsorInv, SponsorTypeOK
<1>4. /\ senderNonce' = [senderNonce EXCEPT ![s] = @ + 1]
      /\ granted' = granted \union {Grant(Op)}
      /\ UNCHANGED <<saved, bundle, approvals>>
      /\ IF at = Len(bundle) THEN phase' = "execute" ELSE at' = at + 1 /\ phase' = "validate"
  BY <1>1 DEF grant, increment, validatePrepayment, offChain
<1>5. senderNonce[s] <= saved.senderNonce[s]
  BY <1>1, <1>2, HashNotAhead DEF Committed
<1>6. \A t \in Senders : senderNonce'[t] = IF t = s THEN senderNonce[t] + 1 ELSE senderNonce[t]
  BY <1>1, <1>3, <1>4
<1>7. ReadingsCommitted'
  BY <1>1, <1>4 DEF SponsorInv, ReadingsCommitted, Committed
<1>8. NeverBack'
  BY <1>1, <1>3, <1>4, <1>6 DEF SponsorInv, NeverBack
<1>9. GrantsGood'
  <2>1. /\ Grant(Op).op = Op /\ Grant(Op).senderNonce = senderNonce[s] /\ Grant(Op).time = now
    BY DEF Grant
  <2>2. Approved(granted)'
    <3>1. HashAt(pack(Op), senderNonce[s], Op.validUntil, Op.validAfter) \in approvals
      BY <1>2 DEF getHash
    <3> QED BY <1>2, <1>4, <2>1, <3>1 DEF SponsorInv, GrantsGood, Approved
  <2>3. Past(granted, senderNonce)'
    <3> SUFFICES ASSUME NEW g \in granted' PROVE g.senderNonce < senderNonce'[g.op.sender]
      BY DEF Past
    <3>1. CASE g = Grant(Op)
      BY <1>1, <1>3, <1>6, <2>1, <3>1
    <3>2. CASE g \in granted
      <4>1. g.senderNonce \in Nat /\ g.op.sender \in Senders
        BY <1>3, <3>2, OpFields DEF Grants
      <4>2. g.senderNonce < senderNonce[g.op.sender]
        BY <3>2 DEF SponsorInv, GrantsGood, Past
      <4> QED BY <1>3, <1>6, <4>1, <4>2
    <3> QED BY <1>4, <3>1, <3>2
  <2>4. OnePerReading(granted)'
    <3>1. \A g \in granted : g.op.sender = s => g.senderNonce # senderNonce[s]
      BY <1>1, <1>3 DEF SponsorInv, GrantsGood, Past, Grants
    <3> QED BY <1>4, <2>1, <3>1 DEF SponsorInv, GrantsGood, OnePerReading
  <2>5. /\ Approved(saved.granted)' /\ Past(saved.granted, saved.senderNonce)'
        /\ OnePerReading(saved.granted)'
    BY <1>1, <1>4 DEF SponsorInv, GrantsGood, Approved, Past, OnePerReading
  <2> QED BY <2>2, <2>3, <2>4, <2>5 DEF GrantsGood
<1>10. Bumped'
  <2> SUFFICES ASSUME phase' = "validate", NEW i \in 1..at
               PROVE  saved.senderNonce[bundle[i].sender] < senderNonce'[bundle[i].sender]
    BY <1>1, <1>4 DEF Bumped
  <2>1. bundle[i] \in Ops /\ bundle[i].sender \in Senders
    BY <1>1, OpFields
  <2>2. CASE i = at
    <3>1. saved.senderNonce[s] <= senderNonce[s]
      BY <1>1 DEF SponsorInv, NeverBack
    <3> QED BY <1>1, <1>3, <1>6, <2>2, <3>1
  <2>3. CASE i # at
    <3>1. saved.senderNonce[bundle[i].sender] < senderNonce[bundle[i].sender]
      BY <1>1, <2>3 DEF SponsorInv, Bumped
    <3> QED BY <1>3, <1>6, <2>1, <3>1
  <2> QED BY <2>2, <2>3
<1>11. Distinct'
  <2>1. \A i \in 1..(at - 1) : bundle[i].sender # s
    <3> SUFFICES ASSUME NEW i \in 1..(at - 1), bundle[i].sender = s PROVE FALSE
      OBVIOUS
    <3>1. saved.senderNonce[s] < senderNonce[s]
      BY <1>1 DEF SponsorInv, Bumped
    <3> QED BY <1>1, <1>3, <1>5, <3>1
  <2>2. \A i, j \in 1..(at - 1) : bundle[i].sender = bundle[j].sender => i = j
    BY <1>1 DEF SponsorInv, Distinct, Validated
  <2>3. \A i, j \in 1..at : bundle[i].sender = bundle[j].sender => i = j
    BY <1>1, <2>1, <2>2
  <2>4. Validated' = 1..at
    BY <1>1, <1>4 DEF Validated
  <2> QED BY <1>4, <2>3, <2>4 DEF Distinct
<1> QED BY <1>0, <1>7, <1>8, <1>9, <1>10, <1>11 DEF SponsorInv

\* The initial state.
LEMMA InitInv == SponsorInit => SponsorInv
<1> SUFFICES ASSUME SponsorInit PROVE SponsorInv
  OBVIOUS
<1>1. SponsorTypeOK
  BY SponsorInitTypes
<1> USE DEF SponsorInit, EPInit
<1>2. ReadingsCommitted /\ NeverBack /\ GrantsGood /\ Bumped /\ Distinct
  BY DEF ReadingsCommitted, NeverBack, GrantsGood, Bumped, Distinct, Approved, Past,
         OnePerReading
<1> QED BY <1>1, <1>2 DEF SponsorInv

\* Steps that change none of what the rest of the invariant is about.
LEMMA QuietInv ==
    ASSUME SponsorInv, SponsorTypeOK',
           UNCHANGED <<phase, bundle, at, saved, senderNonce, granted, approvals>>
    PROVE  SponsorInv'
BY DEF SponsorInv, ReadingsCommitted, Committed, NeverBack, GrantsGood, Approved, Past,
       OnePerReading, Bumped, Distinct, Validated

\* Steps that have nothing to do with the sponsorship.
LEMMA OtherInv ==
    ASSUME SponsorInv, UNCHANGED <<book, frame, saved, pmState, offChain>>
    PROVE  SponsorInv'
<1>1. SponsorTypeOK'
  BY OtherTypes DEF SponsorInv
<1>2. UNCHANGED <<phase, bundle, at, saved, senderNonce, granted, approvals>>
  BY DEF frame, pmState, offChain
<1> QED BY <1>1, <1>2, QuietInv

\* The deposit is funded, or time passes.
LEMMA FundInv ==
    ASSUME SponsorInv, NEW e \in EntryPoints, NEW amount \in Int, fundDeposit(e, amount)
    PROVE  SponsorInv'
<1>1. SponsorTypeOK'
  BY FundTypes DEF SponsorInv
<1>2. UNCHANGED <<phase, bundle, at, saved, senderNonce, granted, approvals>>
  BY DEF fundDeposit, frame, offChain
<1> QED BY <1>1, <1>2, QuietInv

\* Time passes.
LEMMA TickInv ==
    ASSUME SponsorInv, tick
    PROVE  SponsorInv'
<1>1. SponsorTypeOK'
  BY TickTypes DEF SponsorInv
<1>2. UNCHANGED <<phase, bundle, at, saved, senderNonce, granted, approvals>>
  BY DEF tick, frame, pmState
<1> QED BY <1>1, <1>2, QuietInv

\* The service signs the committed senderNonce.
LEMMA SignInv ==
    ASSUME SponsorInv, NEW op \in Ops, signApproval(op)
    PROVE  SponsorInv'
<1> USE DEF SponsorInv
<1>1. /\ phase = "idle" /\ phase' = "idle" /\ approvals' = approvals \union {getHash(op)}
      /\ UNCHANGED <<senderNonce, granted, saved>>
  BY DEF signApproval, frame, pmState
<1>2. /\ getHash(op).senderNonce = senderNonce[op.sender]
      /\ getHash(op).packed.sender = op.sender /\ op.sender \in Senders
  BY OpFields DEF getHash, HashAt
<1>3. senderNonce[op.sender] \in Nat
  BY <1>2 DEF SponsorTypeOK
<1>4. ReadingsCommitted'
  BY <1>1, <1>2, <1>3 DEF ReadingsCommitted, Committed
<1>5. NeverBack' /\ GrantsGood' /\ Bumped' /\ Distinct'
  BY <1>1 DEF NeverBack, GrantsGood, Approved, Past, OnePerReading, Bumped, Distinct
<1> QED BY <1>4, <1>5, SignTypes

\* A bundle is submitted.
LEMMA SubmitInv ==
    ASSUME SponsorInv, NEW e \in EntryPoints, NEW ops \in Bundles, NEW snapshot,
           submitBundle(e, ops, snapshot),
           snapshot.nonce = nonce, snapshot.deposit = deposit, snapshot.executed = executed,
           snapshot.senderNonce = senderNonce, snapshot.granted = granted,
           snapshot.funded = funded
    PROVE  SponsorInv'
<1> USE DEF SponsorInv
<1>1. /\ phase = "idle" /\ phase' = "validate" /\ at' = 1
      /\ saved'.senderNonce = senderNonce /\ saved'.granted = granted
      /\ UNCHANGED <<senderNonce, granted, approvals>>
  BY DEF submitBundle, handleOps, pmState, offChain
<1>2. senderNonce \in [Senders -> Nat]
  BY DEF SponsorTypeOK
<1>3. ReadingsCommitted' /\ NeverBack'
  BY <1>1, <1>2 DEF ReadingsCommitted, Committed, NeverBack
<1>4. GrantsGood'
  BY <1>1 DEF GrantsGood, Approved, Past, OnePerReading
<1>5. Bumped' /\ Distinct'
  BY <1>1 DEF Bumped, Distinct, Validated
<1> QED BY <1>3, <1>4, <1>5, SubmitTypes

\* The transaction reverts.
LEMMA FailInv ==
    ASSUME SponsorInv, phase # "idle", failedOp
    PROVE  SponsorInv'
<1> USE DEF SponsorInv
<1>1. /\ phase' = "idle" /\ senderNonce' = saved.senderNonce /\ granted' = saved.granted
      /\ UNCHANGED approvals
  BY DEF failedOp, RevertBundle, Close, offChain
<1>2. ReadingsCommitted' /\ NeverBack' /\ GrantsGood' /\ Bumped' /\ Distinct'
  BY <1>1 DEF ReadingsCommitted, Committed, NeverBack, GrantsGood, Approved, Past,
              OnePerReading, Bumped, Distinct
<1> QED BY <1>2, FailTypes

\* An operation is paid for; after the last one of a bundle its increments of
\* senderNonce are committed.
LEMMA PayInv ==
    ASSUME SponsorInv, NEW cost \in GasCosts, payGas(cost)
    PROVE  SponsorInv'
<1> USE DEF SponsorInv
<1>1. SponsorTypeOK'
  BY PayTypes
<1>2. /\ phase = "execute" /\ UNCHANGED <<senderNonce, granted, approvals>>
      /\ phase' = "idle" \/ UNCHANGED <<phase, bundle, saved>>
  BY DEF payGas, settle, Close, pmState, offChain
<1>3. CASE UNCHANGED <<phase, bundle, saved>>
  BY <1>1, <1>2, <1>3 DEF ReadingsCommitted, Committed, NeverBack, GrantsGood, Approved, Past,
                          OnePerReading, Bumped, Distinct, Validated
<1>4. CASE phase' = "idle"
  <2>1. ReadingsCommitted'
    <3> SUFFICES ASSUME NEW h \in approvals
                 PROVE  h.senderNonce <= senderNonce[h.packed.sender]
      BY <1>2, <1>4 DEF ReadingsCommitted, Committed
    <3>1. h.senderNonce <= saved.senderNonce[h.packed.sender]
      BY <1>2 DEF ReadingsCommitted, Committed
    <3>2. h.senderNonce \in Nat /\ h.packed.sender \in Senders
      <4>1. PICK op \in Ops : h.packed = pack(op)
        BY DEF SponsorTypeOK, Hashes
      <4> QED BY <4>1, OpFields DEF SponsorTypeOK, Hashes
    <3>3. saved.senderNonce[h.packed.sender] <= senderNonce[h.packed.sender]
      BY <1>2, <3>2 DEF NeverBack
    <3>4. saved.senderNonce[h.packed.sender] \in Nat /\ senderNonce[h.packed.sender] \in Nat
      BY <1>2, <3>2 DEF SponsorTypeOK
    <3> QED BY <3>1, <3>2, <3>3, <3>4
  <2>2. NeverBack' /\ GrantsGood' /\ Bumped' /\ Distinct'
    BY <1>2, <1>4 DEF NeverBack, GrantsGood, Approved, Past, OnePerReading, Bumped, Distinct
  <2> QED BY <1>1, <2>1, <2>2
<1> QED BY <1>2, <1>3, <1>4

-----------------------------------------------------------------------------
(* What follows from the invariant.                                        *)

\* Approved, at most once per reading, and one operation of a sender in a bundle.
LEMMA SponsorInvImplies ==
    ASSUME SponsorInv
    PROVE  GrantsApproved /\ OneGrantPerReading /\ OneOpPerSenderPerBundle
<1>1. GrantsApproved
  BY DEF SponsorInv, GrantsGood, Approved, GrantsApproved
<1>2. OneGrantPerReading
  BY DEF SponsorInv, GrantsGood, OnePerReading, OneGrantPerReading
<1>3. OneOpPerSenderPerBundle
  <2> SUFFICES ASSUME phase = "execute" PROVE
          \A i, j \in DOMAIN bundle : bundle[i].sender = bundle[j].sender => i = j
    BY DEF OneOpPerSenderPerBundle
  <2>1. bundle \in Seq(Ops)
    BY DEF SponsorInv, SponsorTypeOK
  <2>2. DOMAIN bundle = Validated
    BY <2>1 DEF Validated
  <2> QED BY <2>2 DEF SponsorInv, Distinct
<1> QED BY <1>1, <1>2, <1>3

-----------------------------------------------------------------------------
(* Sponsorship as a specification of its own: what every paymaster does,   *)
(* whatever it adds to a step and to what it saves.                        *)

sponsorVars == <<book, frame, saved, pmState, offChain>>

Saves(snapshot) ==
    /\ snapshot.nonce = nonce /\ snapshot.deposit = deposit /\ snapshot.executed = executed
    /\ snapshot.senderNonce = senderNonce /\ snapshot.granted = granted
    /\ snapshot.funded = funded

SponsorNext ==
    \/ \E op \in Ops : signApproval(op)
    \/ \E e \in EntryPoints, ops \in Bundles :
          \E snapshot : Saves(snapshot) /\ submitBundle(e, ops, snapshot)
    \/ grant
    \/ phase # "idle" /\ failedOp
    \/ \E cost \in GasCosts : payGas(cost)
    \/ \E e \in EntryPoints, amount \in Int : fundDeposit(e, amount)
    \/ tick

SponsorSpec == SponsorInit /\ [][SponsorNext]_sponsorVars

\* Every step preserves the invariant.
LEMMA SponsorNextInv ==
    ASSUME SponsorInv, [SponsorNext]_sponsorVars
    PROVE  SponsorInv'
<1>1. ASSUME NEW op \in Ops, signApproval(op)
      PROVE  SponsorInv'
  BY <1>1, SignInv
<1>2. ASSUME NEW e \in EntryPoints, NEW ops \in Bundles, NEW snapshot, Saves(snapshot),
             submitBundle(e, ops, snapshot)
      PROVE  SponsorInv'
  BY <1>2, SubmitInv DEF Saves
<1>3. ASSUME NEW cost \in GasCosts, payGas(cost)
      PROVE  SponsorInv'
  BY <1>3, PayInv
<1>4. ASSUME NEW e \in EntryPoints, NEW amount \in Int, fundDeposit(e, amount)
      PROVE  SponsorInv'
  BY <1>4, FundInv
<1>5. ASSUME UNCHANGED sponsorVars
      PROVE  SponsorInv'
  BY <1>5, OtherInv DEF sponsorVars
<1> QED
  BY <1>1, <1>2, <1>3, <1>4, <1>5, GrantInv, FailInv, TickInv DEF SponsorNext

\* The invariant holds in every reachable state.
THEOREM SponsorInvariant == SponsorSpec => []SponsorInv
BY InitInv, SponsorNextInv, PTL DEF SponsorSpec

-----------------------------------------------------------------------------
(* The exposure of the deposit.  What is missing of it is at most a        *)
(* prefund for every grant, also in the state a revert restores, and there *)
(* are no more grants than approvals, since each uses up another one.      *)

PrefundsCover(given, dep, gs) ==
    /\ IsFiniteSet(gs)
    /\ \A e \in EntryPoints : given - dep[e][Paymaster] <= RequiredPreFund * Cardinality(gs)

ExposureInv ==
    /\ IsFiniteSet(approvals)
    /\ PrefundsCover(funded, deposit, granted)
    /\ phase # "idle" => PrefundsCover(saved.funded, saved.deposit, saved.granted)

\* Different grants used different approvals.
LEMMA GrantsCounted ==
    ASSUME SponsorInv, IsFiniteSet(approvals)
    PROVE  Cardinality(granted) <= Cardinality(approvals)
<1> DEFINE h(g) == HashAt(pack(g.op), g.senderNonce, g.op.validUntil, g.op.validAfter)
           f == [g \in granted |-> h(g)]
<1>1. \A g \in granted : h(g) \in approvals
  BY DEF SponsorInv, GrantsGood, Approved
<1>2. \A g \in granted : h(g).senderNonce = g.senderNonce /\ h(g).packed.sender = g.op.sender
  BY DEF HashAt, pack
<1>3. \A g, k \in granted : h(g) = h(k) => g = k
  <2> SUFFICES ASSUME NEW g \in granted, NEW k \in granted, h(g) = h(k) PROVE g = k
    OBVIOUS
  <2>1. g.senderNonce = k.senderNonce /\ g.op.sender = k.op.sender
    <3> HIDE DEF h
    <3> QED BY <1>2
  <2> QED BY <2>1 DEF SponsorInv, GrantsGood, OnePerReading
<1>4. f \in Injection(granted, approvals)
  <2> HIDE DEF h
  <2> QED BY <1>1, <1>3 DEF Injection, IsInjective
<1> HIDE DEF f
<1> QED BY <1>4, FS_Injection

\* So the deposit lacks at most a prefund per approval.
LEMMA ExposureFollows ==
    ASSUME SponsorInv, ExposureInv
    PROVE  ExposureBounded
<1> SUFFICES ASSUME NEW e \in EntryPoints
             PROVE  funded - deposit[e][Paymaster] <= RequiredPreFund * Cardinality(approvals)
  BY DEF ExposureBounded
<1>1. Cardinality(granted) <= Cardinality(approvals)
  BY GrantsCounted DEF ExposureInv
<1>2. Cardinality(granted) \in Nat /\ Cardinality(approvals) \in Nat
  BY FS_CardinalityType DEF ExposureInv, PrefundsCover
<1>3. /\ RequiredPreFund * Cardinality(granted) <= RequiredPreFund * Cardinality(approvals)
      /\ RequiredPreFund * Cardinality(granted) \in Nat
      /\ RequiredPreFund * Cardinality(approvals) \in Nat
  BY <1>1, <1>2, PreFundAssumption, TimesMonotone
<1>4. funded - deposit[e][Paymaster] <= RequiredPreFund * Cardinality(granted)
  BY DEF ExposureInv, PrefundsCover
<1>5. funded - deposit[e][Paymaster] \in Int
  BY PayersAssumption DEF SponsorInv, SponsorTypeOK, BookType
<1> QED BY <1>3, <1>4, <1>5

\* A grant takes a prefund and is a new one.
LEMMA GrantExposure ==
    ASSUME SponsorInv, ExposureInv, grant
    PROVE  ExposureInv'
<1>1. /\ phase = "validate" /\ Op \in Ops /\ Op.sender \in Senders
  BY CurrentOp DEF grant, SponsorInv
<1>2. /\ granted' = granted \union {Grant(Op)}
      /\ deposit' = [deposit EXCEPT ![ep][Paymaster] = @ - RequiredPreFund]
      /\ UNCHANGED <<funded, saved, approvals>>
  BY DEF grant, validatePrepayment, offChain
<1>3. Grant(Op) \notin granted
  <2>1. /\ Grant(Op).op.sender = Op.sender /\ Grant(Op).senderNonce = senderNonce[Op.sender]
        /\ senderNonce[Op.sender] \in Nat
    BY <1>1 DEF Grant, SponsorInv, SponsorTypeOK
  <2> QED BY <2>1 DEF SponsorInv, GrantsGood, Past
<1>4. /\ IsFiniteSet(granted') /\ Cardinality(granted') = Cardinality(granted) + 1
      /\ Cardinality(granted) \in Nat
  BY <1>2, <1>3, FS_AddElement, FS_CardinalityType DEF ExposureInv, PrefundsCover
<1>5. /\ RequiredPreFund * Cardinality(granted')
           = RequiredPreFund * Cardinality(granted) + RequiredPreFund
      /\ RequiredPreFund * Cardinality(granted) \in Nat
  BY <1>4, PreFundAssumption
<1>6. ASSUME NEW e \in EntryPoints
      PROVE  funded' - deposit'[e][Paymaster] <= RequiredPreFund * Cardinality(granted')
  <2>1. deposit \in [EntryPoints -> [Payers -> Nat]] /\ ep \in EntryPoints /\ funded \in Int
    BY DEF SponsorInv, SponsorTypeOK, BookType
  <2>2. deposit'[e][Paymaster] >= deposit[e][Paymaster] - RequiredPreFund
    BY <1>2, <2>1, PayersAssumption, PreFundAssumption
  <2>3. deposit'[e][Paymaster] \in Int /\ deposit[e][Paymaster] \in Int
    BY <1>2, <2>1, PayersAssumption, PreFundAssumption
  <2>4. funded - deposit[e][Paymaster] <= RequiredPreFund * Cardinality(granted)
    BY DEF ExposureInv, PrefundsCover
  <2> QED BY <1>2, <1>5, <2>1, <2>2, <2>3, <2>4, PreFundAssumption
<1>7. phase' # "idle" => PrefundsCover(saved.funded, saved.deposit, saved.granted)
  BY <1>1 DEF ExposureInv
<1> QED BY <1>2, <1>4, <1>6, <1>7 DEF ExposureInv, PrefundsCover

\* Every step keeps the exposure covered.
LEMMA NextExposure ==
    ASSUME SponsorInv, ExposureInv, [SponsorNext]_sponsorVars
    PROVE  ExposureInv'
<1> USE DEF ExposureInv, PrefundsCover
<1>0. deposit \in [EntryPoints -> [Payers -> Nat]] /\ ep \in EntryPoints /\ funded \in Int
  BY DEF SponsorInv, SponsorTypeOK, BookType
<1>1. ASSUME NEW op \in Ops, signApproval(op)
      PROVE  ExposureInv'
  <2>1. IsFiniteSet(approvals')
    BY <1>1, FS_AddElement DEF signApproval
  <2> QED BY <1>1, <2>1 DEF signApproval, book, frame, pmState
<1>2. ASSUME NEW e \in EntryPoints, NEW ops \in Bundles, NEW snapshot, Saves(snapshot),
             submitBundle(e, ops, snapshot)
      PROVE  ExposureInv'
  <2>1. /\ saved'.funded = funded /\ saved'.deposit = deposit /\ saved'.granted = granted
        /\ UNCHANGED <<deposit, funded, granted, approvals>>
    BY <1>2 DEF submitBundle, handleOps, Saves, book, pmState, offChain
  <2> QED BY <2>1
<1>3. ASSUME phase # "idle", failedOp
      PROVE  ExposureInv'
  BY <1>3 DEF failedOp, RevertBundle, Close, offChain
<1>4. ASSUME NEW cost \in GasCosts, payGas(cost)
      PROVE  ExposureInv'
  <2>1. /\ deposit' = [deposit EXCEPT ![ep][Paymaster] = @ + (RequiredPreFund - cost)]
        /\ UNCHANGED <<funded, granted, approvals>>
        /\ phase = "execute" /\ (phase' = "idle" \/ UNCHANGED <<phase, saved>>)
    BY <1>4 DEF payGas, settle, Close, pmState, offChain
  <2>2. Cardinality(granted) \in Nat /\ RequiredPreFund * Cardinality(granted) \in Nat
    BY FS_CardinalityType, PreFundAssumption
  <2>3. \A e \in EntryPoints : /\ deposit'[e][Paymaster] >= deposit[e][Paymaster]
                               /\ deposit'[e][Paymaster] \in Int
                               /\ deposit[e][Paymaster] \in Int
    BY <1>0, <2>1, PayersAssumption, PreFundAssumption DEF GasCosts
  <2>4. \A e \in EntryPoints :
           funded' - deposit'[e][Paymaster] <= RequiredPreFund * Cardinality(granted')
    BY <1>0, <2>1, <2>2, <2>3
  <2> QED BY <2>1, <2>4
<1>5. ASSUME NEW e \in EntryPoints, NEW amount \in Int, fundDeposit(e, amount)
      PROVE  ExposureInv'
  <2>1. /\ deposit' = [deposit EXCEPT ![e][Paymaster] = @ + amount]
        /\ funded' = funded + amount
        /\ UNCHANGED <<phase, saved, granted, approvals>>
    BY <1>5 DEF fundDeposit, frame, offChain
  <2>2. \A d \in EntryPoints : d = e
    BY EntryPointAssumption
  <2>3. \A d \in EntryPoints :
           funded' - deposit'[d][Paymaster] = funded - deposit[d][Paymaster]
    BY <1>0, <2>1, <2>2, PayersAssumption
  <2> QED BY <2>1, <2>3
<1>6. ASSUME tick
      PROVE  ExposureInv'
  BY <1>6 DEF tick, book, frame, pmState
<1>7. ASSUME UNCHANGED sponsorVars
      PROVE  ExposureInv'
  BY <1>7 DEF sponsorVars, book, frame, pmState, offChain
<1> QED
  BY <1>1, <1>2, <1>3, <1>4, <1>5, <1>6, <1>7, GrantExposure DEF SponsorNext

\* Whatever implements the sponsorship pays only for what the service approved,
\* once per reading of senderNonce and once per sender and bundle, and at most
\* the largest gas cost per approval.
THEOREM SponsorshipSound ==
    SponsorSpec => [](/\ GrantsApproved /\ OneGrantPerReading
                      /\ OneOpPerSenderPerBundle /\ ExposureBounded)
<1>1. SponsorInit => ExposureInv
  <2> SUFFICES ASSUME SponsorInit PROVE ExposureInv
    OBVIOUS
  <2>1. /\ approvals = {} /\ granted = {} /\ funded = Stake /\ phase = "idle"
        /\ \A e \in EntryPoints : deposit[e][Paymaster] = Stake
    BY PayersAssumption DEF SponsorInit, EPInit
  <2>2. RequiredPreFund * Cardinality({}) = 0
    BY FS_EmptySet, PreFundAssumption
  <2> QED BY <2>1, <2>2, FS_EmptySet, StakeAssumption DEF ExposureInv, PrefundsCover
<1>2. SponsorInv /\ ExposureInv => ExposureBounded
  BY ExposureFollows
<1>3. SponsorInv => GrantsApproved /\ OneGrantPerReading /\ OneOpPerSenderPerBundle
  BY SponsorInvImplies
<1>4. SponsorInv /\ ExposureInv /\ [SponsorNext]_sponsorVars => ExposureInv'
  BY NextExposure
<1> QED BY <1>1, <1>2, <1>3, <1>4, SponsorInvariant, PTL DEF SponsorSpec

-----------------------------------------------------------------------------
(* What VerifyingPaymaster guarantees for any number of senders,           *)
(* operations and approvals, and any size of bundles.                      *)

\* EnclaveVerifyingPaymaster does what every paymaster does, and no more.
THEOREM VerifyingSponsors == VerifyingSpec => SponsorSpec
<1>1. ASSUME VerifyingNext
      PROVE  [SponsorNext]_sponsorVars
  <2>1. Saves(VerifyingSnapshot)
    BY DEF Saves, VerifyingSnapshot
  <2>2. ASSUME NEW e \in EntryPoints, NEW amount \in {-1, 1}, fundDeposit(e, amount)
        PROVE  SponsorNext
    <3>1. amount \in Int
      BY <2>2
    <3> QED BY <2>2, <3>1 DEF SponsorNext
  <2>3. approvalRefused => phase # "idle" /\ failedOp
    BY DEF approvalRefused
  <2>4. executeUserOp => \E cost \in GasCosts : payGas(cost)
    BY DEF executeUserOp
  <2> QED BY <1>1, <2>1, <2>2, <2>3, <2>4 DEF VerifyingNext, SponsorNext
<1>2. UNCHANGED verifyingVars => UNCHANGED sponsorVars
  BY DEF verifyingVars, sponsorVars
<1>3. [VerifyingNext]_verifyingVars => [SponsorNext]_sponsorVars
  BY <1>1, <1>2
<1> QED BY <1>3, PTL DEF VerifyingSpec, SponsorSpec

\* The deposit is never overdrawn and every variable has its type.
THEOREM VerifyingTypeCorrect == VerifyingSpec => []SponsorTypeOK
<1>1. SponsorInv => SponsorTypeOK
  BY DEF SponsorInv
<1> QED BY <1>1, SponsorInvariant, VerifyingSponsors, PTL

\* validatePaymasterUserOp grants only what the service signed for that
\* operation, senderNonce and window.
THEOREM AlwaysApproved == VerifyingSpec => []GrantsApproved
BY SponsorshipSound, VerifyingSponsors, PTL

\* Of all approvals signed on one reading of senderNonce at most one is used.
THEOREM ReadingsUsedOnce == VerifyingSpec => []OneGrantPerReading
BY SponsorshipSound, VerifyingSponsors, PTL

\* A sender has at most one sponsored operation in a bundle.
THEOREM SendersOnceInBundle == VerifyingSpec => []OneOpPerSenderPerBundle
BY SponsorshipSound, VerifyingSponsors, PTL

\* Signing n approvals exposes the deposit to n times the largest gas cost.
THEOREM ExposureLimited == VerifyingSpec => []ExposureBounded
BY SponsorshipSound, VerifyingSponsors, PTL

=============================================================================
