----------------------- MODULE P256SmartAccountProofs -----------------------
(***************************************************************************)
(* What P256SmartAccount guarantees for any number of accounts, keys,      *)
(* guardians and EntryPoints, any operations and any size of bundles.      *)
(*                                                                         *)
(* The argument for AtMostOnce: an operation is validated at the one       *)
(* EntryPoint it was signed for, when its nonce is the next one there, and *)
(* the nonce moves on at once.  So an operation that was executed, or that *)
(* waits in the bundle for its turn, is behind the nonce and is not        *)
(* validated again.                                                        *)
(*                                                                         *)
(* The argument for SignedByKeyAtStart: while the operations of a bundle   *)
(* are validated nobody else acts, so keys are those of the start of the   *)
(* transaction, or those that new accounts are created with.               *)
(*                                                                         *)
(* The argument for ControlChangesAuthorised: a revert could give somebody *)
(* else's account an older state back.  It does not, because since the     *)
(* state was saved nobody but the sender of the running operation can have *)
(* changed what matters.                                                   *)
(*                                                                         *)
(* The argument for LossBounded: each operation of the bundle is charged   *)
(* with what it may have cost its account so far, namely the prefund once  *)
(* it is validated, a payment once its call was made, the whole outlay     *)
(* when it is over.  No step takes more from an account than it adds to    *)
(* the charge, and what a failing call goes back to is covered by the      *)
(* prefunds alone.                                                         *)
(***************************************************************************)
EXTENDS P256SmartAccount, SequenceTheorems, Sums

\* A function on the accounts, with whatever values.
OnAccounts(f) == f = [a \in Accounts |-> f[a]]

Control(s) == OnAccounts(s.pubKey) /\ OnAccounts(s.isGuardian) /\ OnAccounts(s.implementation)

FrameOK ==
    /\ phase \in {"idle", "validate", "execute"}
    /\ ep \in EntryPoints
    /\ phase # "idle" => bundle \in Seq(Ops) /\ at \in 1..Len(bundle)
    /\ pc \in Nat /\ (pc # 0 => phase = "execute")

\* The nonce of the operation is behind, at the EntryPoint it was signed for.
Spent(n, op) ==
    /\ op.signedFor \in EntryPoints
    /\ op.nonce \in Nat
    /\ op.nonce < n[op.signedFor][op.sender]

Ledger(n, x) ==
    /\ n \in [EntryPoints -> [Senders -> Nat]]
    /\ x \in [Ops -> {0, 1}]
    /\ \A op \in Ops : x[op] = 1 => Spent(n, op)

\* The operations of the bundle that are validated and not yet executed.
Waiting == IF phase = "validate" THEN 1..(at - 1) ELSE at..Len(bundle)

Once ==
    /\ Ledger(nonce, executed)
    /\ phase # "idle" =>
          /\ Ledger(saved.nonce, saved.executed)
          /\ \A i \in Waiting : Spent(nonce, bundle[i]) /\ executed[bundle[i]] = 0
          /\ \A i, j \in Waiting : bundle[i] = bundle[j] => i = j

KeyAtStart(a) == IF a \in saved.deployed THEN saved.pubKey[a] ELSE a[1]

Validated == IF phase = "validate" THEN 1..(at - 1) ELSE 1..Len(bundle)

Signed ==
    phase # "idle" =>
        \A i \in Validated : bundle[i].signedBy = KeyAtStart(bundle[i].sender)

\* Nothing but the account of the operation that is validated changes.
Still ==
    phase = "validate" =>
        /\ saved.deployed \subseteq deployed
        /\ isGuardian = saved.isGuardian
        /\ \A a \in saved.deployed : implementation[a] = saved.implementation[a]
        /\ \A a \in deployed : pubKey[a] = KeyAtStart(a)

\* What a call that fails would give back to other accounts, they still have.
Untouched ==
    pc # 0 =>
        /\ inner.deployed \subseteq deployed
        /\ \A a \in inner.deployed \ {Op.sender} :
              /\ isGuardian[a] = inner.isGuardian[a]
              /\ implementation[a] = inner.implementation[a]
              /\ isGuardian[a] = {} => pubKey[a] = inner.pubKey[a]

Shapes ==
    /\ deployed \subseteq Accounts
    /\ OnAccounts(pubKey) /\ OnAccounts(isGuardian) /\ OnAccounts(implementation)
    /\ phase # "idle" => saved.deployed \subseteq Accounts /\ Control(saved)
    /\ pc # 0 => inner.deployed \subseteq Accounts /\ Control(inner)

\* The inductive invariant.
IInv == FrameOK /\ Shapes /\ Once /\ Signed /\ Still /\ Untouched

-----------------------------------------------------------------------------
(* Two kinds of steps.                                                     *)

\* Somebody acts who is not the account of the running operation.
ForeignStep ==
    /\ phase # "validate"
    /\ UNCHANGED <<nonce, executed, phase, ep, bundle, at, saved, pc, inner, isGuardian>>
    /\ deployed \subseteq deployed' /\ deployed' \subseteq Accounts
    /\ \A a \in deployed :
          /\ implementation'[a] = implementation[a]
          /\ isGuardian[a] = {} => pubKey'[a] = pubKey[a]
    /\ OnAccounts(pubKey') /\ OnAccounts(implementation')

\* The account of the running operation calls itself, or out.
OwnStep ==
    /\ phase = "execute" /\ pc # 0 /\ pc' = pc + 1
    /\ UNCHANGED <<nonce, executed, phase, ep, bundle, at, saved, inner, deployed>>
    /\ \A a \in Accounts \ {Op.sender} :
          /\ isGuardian'[a] = isGuardian[a]
          /\ implementation'[a] = implementation[a]
          /\ pubKey'[a] = pubKey[a]
    /\ OnAccounts(pubKey') /\ OnAccounts(isGuardian') /\ OnAccounts(implementation')

\* One entry of a function on the accounts changes.
LEMMA ChangedEntry ==
    ASSUME NEW f, OnAccounts(f), NEW b \in Accounts, NEW v
    PROVE  /\ OnAccounts([f EXCEPT ![b] = v])
           /\ [f EXCEPT ![b] = v][b] = v
           /\ \A a \in Accounts \ {b} : [f EXCEPT ![b] = v][a] = f[a]
<1>1. DOMAIN f = Accounts
  BY DEF OnAccounts
<1>2. [f EXCEPT ![b] = v] = [a \in Accounts |-> IF a = b THEN v ELSE f[a]]
  BY <1>1, Zenon
<1> QED BY <1>2 DEF OnAccounts

\* Inside handleOps there is a current operation, of an account.
LEMMA CurrentOp ==
    ASSUME FrameOK, phase # "idle"
    PROVE  /\ bundle \in Seq(Ops) /\ at \in 1..Len(bundle)
           /\ Op = bundle[at] /\ Op \in Ops /\ Op.sender \in Senders /\ Op.sender \in Accounts
<1>1. bundle \in Seq(Ops) /\ at \in 1..Len(bundle) /\ Op = bundle[at] /\ Op \in Ops
  BY DEF FrameOK, Op
<1>2. Op.sender \in Senders
  BY <1>1 DEF Senders
<1> QED BY <1>1, <1>2, AccountsAssumption

\* The other operations of the bundle are of accounts as well.
LEMMA OpSender ==
    ASSUME NEW op \in Ops
    PROVE  op.sender \in Senders /\ op.sender \in Accounts
BY AccountsAssumption DEF Senders

\* Bundles are non-empty sequences of operations.
LEMMA BundleType ==
    ASSUME NEW ops \in Bundles
    PROVE  ops \in Seq(Ops) /\ 1 \in 1..Len(ops)
<1>1. PICK n \in 1..MaxBundle : ops \in [1..n -> Ops]
  BY DEF Bundles
<1>2. n \in Nat /\ 1 <= n
  BY MaxBundleAssumption
<1>3. ops \in Seq(Ops) /\ Len(ops) = n
  BY <1>1, <1>2
<1> QED BY <1>2, <1>3

\* createAccount, called or in an initCode, leaves accounts with code alone.
LEMMA DeployKeeps ==
    ASSUME Shapes, NEW b \in Accounts, Deploy(b)
    PROVE  /\ deployed \subseteq deployed' /\ deployed' \subseteq Accounts
           /\ deployed' = deployed \union {b}
           /\ OnAccounts(pubKey') /\ OnAccounts(implementation')
           /\ \A a \in deployed : pubKey'[a] = pubKey[a] /\ implementation'[a] = implementation[a]
           /\ b \notin deployed => pubKey'[b] = b[1]
           /\ pubKey' = Initialized(b)
<1>1. CASE b \in deployed
  BY <1>1 DEF Deploy, Initialized, Shapes
<1>2. CASE b \notin deployed
  <2>1. /\ pubKey' = [pubKey EXCEPT ![b] = b[1]]
        /\ implementation' = [implementation EXCEPT ![b] = "accountImplementation"]
        /\ deployed' = deployed \union {b}
    BY <1>2 DEF Deploy, Initialized
  <2>2. OnAccounts(pubKey) /\ OnAccounts(implementation) /\ deployed \subseteq Accounts
    BY DEF Shapes
  <2>3. \A a \in deployed : a \in Accounts \ {b}
    BY <1>2, <2>2
  <2>4. /\ OnAccounts(pubKey') /\ pubKey'[b] = b[1]
        /\ \A a \in Accounts \ {b} : pubKey'[a] = pubKey[a]
    BY <2>1, <2>2, ChangedEntry DEF OnAccounts
  <2>5. /\ OnAccounts(implementation')
        /\ \A a \in Accounts \ {b} : implementation'[a] = implementation[a]
    BY <2>1, <2>2, ChangedEntry DEF OnAccounts
  <2> QED BY <1>2, <2>1, <2>2, <2>3, <2>4, <2>5 DEF Initialized
<1> QED BY <1>1, <1>2

-----------------------------------------------------------------------------
(* Every action other than those of the EntryPoint is one of the two kinds. *)

\* Outside, nobody is being validated.
LEMMA OutsideNotValidating == Outside => phase # "validate"
BY DEF Outside, ReceiverRuns

\* Registry, factory, guardians and donors act on accounts from outside.
LEMMA Foreign ==
    ASSUME IInv,
           \/ \E e \in EntryPoints : updateRegistryAddress("entryPoint", e)
           \/ updateRegistryAddress("p256Verifier", "P256V")
           \/ \E a \in Accounts :
                 \/ createAccount(a) \/ receiveEther(a) \/ addDeposit(a)
                 \/ \E g \in Guardians, key \in Keys : guardianTransfersOwnership(g, a, key)
    PROVE  ForeignStep
<1>0. /\ deployed \subseteq Accounts
      /\ OnAccounts(pubKey) /\ OnAccounts(isGuardian) /\ OnAccounts(implementation)
  BY DEF IInv, Shapes
<1>1. ASSUME NEW n, NEW e, updateRegistryAddress(n, e) PROVE ForeignStep
  BY <1>0, <1>1, OutsideNotValidating DEF updateRegistryAddress, ForeignStep, book, frame, run
<1>2. ASSUME NEW a \in Accounts, createAccount(a) PROVE ForeignStep
  <2>1. Deploy(a) /\ phase # "validate"
    BY <1>2, OutsideNotValidating DEF createAccount
  <2>2. UNCHANGED <<nonce, executed, phase, ep, bundle, at, saved, pc, inner, isGuardian>>
    BY <1>2 DEF createAccount, book, frame, run
  <2>3. Shapes
    BY DEF IInv
  <2> QED BY <2>1, <2>2, <2>3, DeployKeeps DEF ForeignStep
<1>3. ASSUME NEW a \in Accounts, receiveEther(a) PROVE ForeignStep
  BY <1>0, <1>3, OutsideNotValidating DEF receiveEther, ForeignStep, book, frame, run
<1>4. ASSUME NEW a \in Accounts, addDeposit(a) PROVE ForeignStep
  BY <1>0, <1>4, OutsideNotValidating DEF addDeposit, ForeignStep, frame, run, acct
<1>5. ASSUME NEW a \in Accounts, NEW g, NEW key, guardianTransfersOwnership(g, a, key)
      PROVE  ForeignStep
  <2>1. /\ phase # "validate" /\ g \in isGuardian[a]
        /\ pubKey' = [pubKey EXCEPT ![a] = key]
        /\ UNCHANGED <<nonce, executed, phase, ep, bundle, at, saved, pc, inner, isGuardian,
                       deployed, implementation>>
    BY <1>5, OutsideNotValidating DEF guardianTransfersOwnership, book, frame, run
  <2>2. OnAccounts(pubKey') /\ \A b \in Accounts \ {a} : pubKey'[b] = pubKey[b]
    BY <1>0, <2>1, ChangedEntry DEF OnAccounts
  <2>3. \A b \in deployed : isGuardian[b] = {} => b \in Accounts \ {a}
    BY <1>0, <2>1
  <2> QED BY <1>0, <2>1, <2>2, <2>3 DEF ForeignStep
<1> QED BY <1>1, <1>2, <1>3, <1>4, <1>5

\* Calls are numbered from 1.
LEMMA CallingWithin ==
    ASSUME IInv, NEW fn, Calling(fn)
    PROVE  phase = "execute" /\ pc # 0 /\ Op.sender \in Accounts
<1>1. phase = "execute" /\ pc \in DOMAIN Op.calls
  BY DEF Calling
<1>2. Op \in Ops /\ Op.sender \in Accounts
  BY <1>1, CurrentOp DEF IInv
<1> QED BY <1>1, <1>2, CallsAssumption

\* What execute calls changes the control of the sender's account only.
LEMMA Own ==
    ASSUME IInv,
           \/ addGuardian \/ removeGuardian \/ transferOwnership \/ upgradeTo
           \/ withdrawDepositTo \/ addOwnDeposit \/ pay
    PROVE  OwnStep
<1> DEFINE a == Op.sender
<1>0. OnAccounts(pubKey) /\ OnAccounts(isGuardian) /\ OnAccounts(implementation)
  BY DEF IInv, Shapes
<1>1. \E fn : Calling(fn)
  BY DEF addGuardian, removeGuardian, transferOwnership, upgradeTo, withdrawDepositTo,
         addOwnDeposit, pay
<1>2. phase = "execute" /\ pc # 0 /\ a \in Accounts
  BY <1>1, CallingWithin
<1>3. Returned
  BY DEF addGuardian, removeGuardian, transferOwnership, upgradeTo, withdrawDepositTo,
         addOwnDeposit, pay
<1>4. /\ pc' = pc + 1
      /\ UNCHANGED <<nonce, executed, phase, ep, bundle, at, saved, inner, deployed>>
  BY <1>3 DEF Returned, frame
<1>5. /\ pubKey' = pubKey \/ \E v : pubKey' = [pubKey EXCEPT ![a] = v]
      /\ isGuardian' = isGuardian \/ \E v : isGuardian' = [isGuardian EXCEPT ![a] = v]
      /\ implementation' = implementation
           \/ \E v : implementation' = [implementation EXCEPT ![a] = v]
  BY DEF addGuardian, removeGuardian, transferOwnership, upgradeTo, withdrawDepositTo,
         addOwnDeposit, pay
<1>6. OnAccounts(pubKey') /\ \A b \in Accounts \ {a} : pubKey'[b] = pubKey[b]
  BY <1>0, <1>2, <1>5, ChangedEntry DEF OnAccounts
<1>7. OnAccounts(isGuardian') /\ \A b \in Accounts \ {a} : isGuardian'[b] = isGuardian[b]
  BY <1>0, <1>2, <1>5, ChangedEntry DEF OnAccounts
<1>8. /\ OnAccounts(implementation')
      /\ \A b \in Accounts \ {a} : implementation'[b] = implementation[b]
  BY <1>0, <1>2, <1>5, ChangedEntry DEF OnAccounts
<1> QED BY <1>2, <1>4, <1>6, <1>7, <1>8 DEF OwnStep

\* Steps of the two kinds keep the inductive invariant.
LEMMA ForeignIInv ==
    ASSUME IInv, ForeignStep
    PROVE  IInv'
<1> USE DEF IInv, ForeignStep
<1>1. FrameOK'
  BY DEF FrameOK
<1>2. Shapes'
  BY DEF Shapes, Control
<1>3. Once'
  BY DEF Once, Waiting
<1>4. Signed' /\ Still'
  BY DEF Signed, Still, Validated, KeyAtStart
<1>5. Untouched'
  BY DEF Untouched, Op
<1> QED BY <1>1, <1>2, <1>3, <1>4, <1>5

\* The calls that an account makes to itself keep the invariant.
LEMMA OwnIInv ==
    ASSUME IInv, OwnStep
    PROVE  IInv'
<1> USE DEF IInv, OwnStep
<1>1. FrameOK'
  BY DEF FrameOK
<1>2. Shapes'
  BY DEF Shapes, Control
<1>3. Once'
  BY DEF Once, Waiting
<1>4. Signed' /\ Still'
  BY DEF Signed, Still, Validated, KeyAtStart
<1>5. Untouched'
  <2>1. inner.deployed \subseteq Accounts
    BY DEF Shapes
  <2>2. Op' = Op
    BY DEF Op
  <2> QED BY <2>1, <2>2 DEF Untouched
<1> QED BY <1>1, <1>2, <1>3, <1>4, <1>5

-----------------------------------------------------------------------------
(* The steps of handleOps.                                                 *)

\* A bundle is submitted.
LEMMA SubmitIInv ==
    ASSUME IInv, NEW e \in EntryPoints, NEW ops \in Bundles, submitBundle(e, ops)
    PROVE  IInv'
<1>1. /\ phase = "idle" /\ phase' = "validate" /\ ep' = e /\ bundle' = ops /\ at' = 1
      /\ saved' = Snapshot
      /\ UNCHANGED <<nonce, executed, deployed, pubKey, isGuardian, implementation, pc, inner>>
  BY DEF submitBundle, handleOps, book, acct, run
<1>2. /\ saved'.nonce = nonce /\ saved'.executed = executed /\ saved'.deployed = deployed
      /\ saved'.pubKey = pubKey /\ saved'.isGuardian = isGuardian
      /\ saved'.implementation = implementation
  BY <1>1 DEF Snapshot
<1>3. pc = 0
  BY <1>1 DEF IInv, FrameOK
<1>4. FrameOK'
  BY <1>1, <1>3, BundleType DEF FrameOK
<1>5. Shapes'
  BY <1>1, <1>2, <1>3 DEF IInv, Shapes, Control
<1>6. Once'
  BY <1>1, <1>2 DEF IInv, Once, Waiting
<1>7. Signed' /\ Still' /\ Untouched'
  BY <1>1, <1>2, <1>3 DEF Signed, Still, Untouched, Validated, KeyAtStart
<1> QED BY <1>4, <1>5, <1>6, <1>7 DEF IInv

\* An operation is validated: its nonce was the next one, so it was neither
\* executed nor validated before, and its signature is by the account's key.
LEMMA ValidateIInv ==
    ASSUME IInv, validateUserOp
    PROVE  IInv'
<1> DEFINE s == Op.sender
<1>1. /\ phase = "validate" /\ Op \in Ops /\ s \in Senders /\ s \in Accounts
      /\ at \in 1..Len(bundle) /\ bundle \in Seq(Ops) /\ Op = bundle[at] /\ pc = 0
      /\ ep \in EntryPoints
  BY CurrentOp DEF validateUserOp, IInv, FrameOK
<1>2. /\ nonce' = [nonce EXCEPT ![ep][s] = @ + 1]
      /\ UNCHANGED <<executed, ep, bundle, saved, isGuardian, pc, inner>>
      /\ IF at = Len(bundle) THEN phase' = "execute" /\ at' = 1
         ELSE at' = at + 1 /\ phase' = "validate"
  BY <1>1 DEF validateUserOp, validatePrepayment, run
<1>3. nonce[ep][s] = Op.nonce /\ Op.signedFor = ep /\ Op.signedBy = Initialized(s)[s]
  BY DEF validateUserOp, Valid, NonceFits, validateSignature, verifySignature
<1>4. /\ deployed \subseteq deployed' /\ deployed' \subseteq Accounts
      /\ deployed' = deployed \union {s}
      /\ OnAccounts(pubKey') /\ OnAccounts(implementation')
      /\ \A a \in deployed : pubKey'[a] = pubKey[a] /\ implementation'[a] = implementation[a]
      /\ s \notin deployed => pubKey'[s] = s[1]
      /\ pubKey' = Initialized(s)
  BY <1>1, DeployKeeps DEF validateUserOp, IInv
<1>5. FrameOK'
  BY <1>1, <1>2 DEF IInv, FrameOK
<1>6. Shapes'
  BY <1>1, <1>2, <1>4 DEF IInv, Shapes, Control
<1>7. Waiting' = 1..at /\ Validated' = 1..at /\ Waiting = 1..(at - 1) /\ Validated = 1..(at - 1)
  BY <1>1, <1>2 DEF Waiting, Validated
<1>8. Once'
  <2>1. /\ nonce \in [EntryPoints -> [Senders -> Nat]] /\ executed \in [Ops -> {0, 1}]
        /\ \A op \in Ops : executed[op] = 1 => Spent(nonce, op)
        /\ Ledger(saved.nonce, saved.executed)
        /\ \A i \in 1..(at - 1) : Spent(nonce, bundle[i]) /\ executed[bundle[i]] = 0
        /\ \A i, j \in 1..(at - 1) : bundle[i] = bundle[j] => i = j
    BY <1>1, <1>7, Zenon DEF IInv, Once, Ledger
  <2>2. /\ nonce' \in [EntryPoints -> [Senders -> Nat]]
        /\ \A e \in EntryPoints, t \in Senders :
              nonce'[e][t] = IF e = ep /\ t = s THEN nonce[e][t] + 1 ELSE nonce[e][t]
    <3>1. [nonce[ep] EXCEPT ![s] = nonce[ep][s] + 1] \in [Senders -> Nat]
      BY <1>1, <2>1
    <3>2. nonce' = [nonce EXCEPT ![ep] = [nonce[ep] EXCEPT ![s] = nonce[ep][s] + 1]]
      BY <1>1, <1>2, <2>1
    <3> QED BY <1>1, <2>1, <3>1, <3>2
  <2>3. \A op \in Ops : Spent(nonce, op) => Spent(nonce', op)
    <3> SUFFICES ASSUME NEW op \in Ops, Spent(nonce, op) PROVE Spent(nonce', op)
      OBVIOUS
    <3>1. /\ op.signedFor \in EntryPoints /\ op.sender \in Senders /\ op.nonce \in Nat
          /\ op.nonce < nonce[op.signedFor][op.sender]
      BY OpSender DEF Spent
    <3>2. nonce[op.signedFor][op.sender] \in Nat
      BY <2>1, <3>1
    <3>3. nonce'[op.signedFor][op.sender] >= nonce[op.signedFor][op.sender]
      BY <2>2, <3>1, <3>2
    <3>4. nonce'[op.signedFor][op.sender] \in Nat
      BY <2>2, <3>1
    <3> QED BY <3>1, <3>2, <3>3, <3>4 DEF Spent
  <2>4. nonce[ep][s] \in Nat
    BY <1>1, <2>1
  <2>5. ~Spent(nonce, Op) /\ Spent(nonce', Op)
    BY <1>1, <1>3, <2>2, <2>4 DEF Spent
  <2>6. executed[Op] = 0 /\ \A i \in 1..(at - 1) : bundle[i] # bundle[at]
    BY <1>1, <2>1, <2>5
  <2>7. \A i \in 1..at : Spent(nonce', bundle[i]) /\ executed[bundle[i]] = 0
    <3> SUFFICES ASSUME NEW i \in 1..at
                 PROVE  Spent(nonce', bundle[i]) /\ executed[bundle[i]] = 0
      OBVIOUS
    <3>1. CASE i = at
      BY <1>1, <2>5, <2>6, <3>1
    <3>2. CASE i # at
      <4>1. i \in 1..(at - 1) /\ bundle[i] \in Ops
        BY <1>1, <3>2
      <4> QED BY <2>1, <2>3, <4>1
    <3> QED BY <3>1, <3>2
  <2>8. \A i, j \in 1..at : bundle[i] = bundle[j] => i = j
    BY <1>1, <2>1, <2>6
  <2>9. Ledger(nonce', executed') /\ Ledger(saved'.nonce, saved'.executed)
    BY <1>2, <2>1, <2>2, <2>3, Zenon DEF Ledger
  <2> QED BY <1>2, <1>7, <2>7, <2>8, <2>9, Zenon DEF Once
<1>9. /\ saved.deployed \subseteq deployed
      /\ isGuardian = saved.isGuardian
      /\ \A a \in saved.deployed : implementation[a] = saved.implementation[a]
      /\ \A a \in deployed : pubKey[a] = KeyAtStart(a)
  BY <1>1 DEF IInv, Still
<1>10. \A a : KeyAtStart(a)' = KeyAtStart(a)
  BY <1>2 DEF KeyAtStart
<1>11. \A a \in deployed' : pubKey'[a] = KeyAtStart(a)
  BY <1>4, <1>9 DEF KeyAtStart
<1>12. Still'
  BY <1>2, <1>4, <1>9, <1>10, <1>11 DEF Still
<1>13. Signed'
  <2>1. Op.signedBy = KeyAtStart(s)
    BY <1>3, <1>4, <1>11
  <2>2. \A i \in 1..(at - 1) : bundle[i].signedBy = KeyAtStart(bundle[i].sender)
    BY <1>1, <1>7 DEF IInv, Signed
  <2>3. \A i \in 1..at : bundle[i].signedBy = KeyAtStart(bundle[i].sender)
    BY <1>1, <2>1, <2>2
  <2> QED BY <1>2, <1>7, <1>10, <2>3 DEF Signed
<1>14. Untouched'
  BY <1>1, <1>2 DEF Untouched
<1> QED BY <1>5, <1>6, <1>8, <1>12, <1>13, <1>14 DEF IInv

\* A failed validation takes everything back.
LEMMA FailIInv ==
    ASSUME IInv, validationFails
    PROVE  IInv'
<1>1. /\ phase = "validate" /\ phase' = "idle" /\ nonce' = saved.nonce
      /\ executed' = saved.executed /\ deployed' = saved.deployed /\ pubKey' = saved.pubKey
      /\ isGuardian' = saved.isGuardian /\ implementation' = saved.implementation
      /\ UNCHANGED <<ep, pc, inner>>
  BY DEF validationFails, RevertBundle, Close, RestoreAccounts, run
<1>2. pc = 0
  BY <1>1 DEF IInv, FrameOK
<1>3. FrameOK' /\ Shapes'
  BY <1>1, <1>2 DEF IInv, FrameOK, Shapes, Control
<1>4. Once' /\ Signed' /\ Still' /\ Untouched'
  BY <1>1, <1>2 DEF IInv, Once, Signed, Still, Untouched
<1> QED BY <1>3, <1>4 DEF IInv

\* The EntryPoint calls the account.
LEMMA BeginIInv ==
    ASSUME IInv, executeBegins
    PROVE  IInv'
<1>1. /\ phase = "execute" /\ pc' = 1 /\ inner' = Snapshot
      /\ UNCHANGED <<nonce, executed, phase, ep, bundle, at, saved, deployed, pubKey,
                     isGuardian, implementation>>
  BY DEF executeBegins, book, frame, acct
<1>2. /\ inner'.deployed = deployed /\ inner'.pubKey = pubKey
      /\ inner'.isGuardian = isGuardian /\ inner'.implementation = implementation
  BY <1>1 DEF Snapshot
<1>3. FrameOK' /\ Shapes'
  BY <1>1, <1>2 DEF IInv, FrameOK, Shapes, Control
<1>4. Once'
  BY <1>1 DEF IInv, Once, Waiting
<1>5. Signed' /\ Still'
  BY <1>1 DEF IInv, Signed, Still, Validated, KeyAtStart
<1>6. Untouched'
  BY <1>1, <1>2 DEF Untouched
<1> QED BY <1>3, <1>4, <1>5, <1>6 DEF IInv

\* An operation is over and counted; the others that wait are other ones.
LEMMA SettleIInv ==
    ASSUME IInv, phase = "execute", NEW d, NEW cost, settle(d, Op.sender, cost),
           pc' = 0, deployed' \subseteq Accounts,
           OnAccounts(pubKey'), OnAccounts(isGuardian'), OnAccounts(implementation')
    PROVE  IInv'
<1>1. /\ Op \in Ops /\ at \in 1..Len(bundle) /\ bundle \in Seq(Ops) /\ Op = bundle[at]
  BY CurrentOp DEF IInv
<1>2. /\ executed' = [executed EXCEPT ![Op] = @ + 1] /\ UNCHANGED <<nonce, ep>>
      /\ \/ phase' = "idle"
         \/ at # Len(bundle) /\ at' = at + 1 /\ UNCHANGED <<phase, bundle, saved>>
  BY DEF settle, Close
<1>3. FrameOK'
  BY <1>1, <1>2 DEF IInv, FrameOK
<1>4. Shapes'
  BY <1>2 DEF IInv, Shapes, Control
<1>5. Once'
  <2>1. /\ executed \in [Ops -> {0, 1}] /\ nonce \in [EntryPoints -> [Senders -> Nat]]
        /\ \A op \in Ops : executed[op] = 1 => Spent(nonce, op)
        /\ Ledger(saved.nonce, saved.executed)
        /\ \A i \in at..Len(bundle) : Spent(nonce, bundle[i]) /\ executed[bundle[i]] = 0
        /\ \A i, j \in at..Len(bundle) : bundle[i] = bundle[j] => i = j
    BY DEF IInv, Once, Ledger, Waiting
  <2>2. at \in at..Len(bundle)
    BY <1>1
  <2>3. executed[Op] = 0 /\ Spent(nonce, Op)
    BY <1>1, <2>1, <2>2
  <2>4. /\ executed' \in [Ops -> {0, 1}] /\ executed'[Op] = 1
        /\ \A op \in Ops : op # Op => executed'[op] = executed[op]
    BY <1>1, <1>2, <2>1, <2>3
  <2>5. Ledger(nonce', executed')
    BY <1>2, <2>1, <2>3, <2>4 DEF Ledger
  <2>6. CASE phase' = "idle"
    BY <2>5, <2>6 DEF Once
  <2>7. CASE at # Len(bundle) /\ at' = at + 1 /\ UNCHANGED <<phase, bundle, saved>>
    <3>1. Waiting' = (at + 1)..Len(bundle)
      BY <2>7 DEF Waiting
    <3>2. \A i \in (at + 1)..Len(bundle) :
             i \in at..Len(bundle) /\ bundle[i] \in Ops /\ bundle[i] # Op
      BY <1>1, <2>1, <2>2
    <3>3. \A i \in (at + 1)..Len(bundle) :
             Spent(nonce, bundle[i]) /\ executed'[bundle[i]] = 0
      BY <2>1, <2>4, <3>2
    <3> QED BY <1>2, <2>1, <2>5, <2>7, <3>1, <3>2, <3>3 DEF Once
  <2> QED BY <1>2, <2>6, <2>7
<1>6. Signed' /\ Still'
  BY <1>2 DEF IInv, Signed, Still, Validated, KeyAtStart
<1>7. Untouched'
  BY DEF Untouched
<1> QED BY <1>3, <1>4, <1>5, <1>6, <1>7 DEF IInv

\* A call that fails is a call of an operation, to whose start it reverts.
LEMMA RevertsWithin ==
    ASSUME IInv, CallFails
    PROVE  phase = "execute" /\ pc # 0
<1>1. CASE \E fn : Calling(fn)
  BY <1>1, CallingWithin
<1>2. CASE ReceiverRuns
  <2>1. phase = "execute" /\ pc - 1 \in DOMAIN Op.calls
    BY <1>2 DEF ReceiverRuns
  <2>2. Op \in Ops
    BY <2>1, CurrentOp DEF IInv
  <2>3. pc - 1 \in 1..Len(Op.calls)
    BY <2>1, <2>2, CallsAssumption
  <2> QED BY <2>1, <2>3
<1> QED BY <1>1, <1>2 DEF CallFails

\* The initial state.
LEMMA InitIInv == Init => IInv
<1> SUFFICES ASSUME Init PROVE IInv
  OBVIOUS
<1> USE DEF Init, EPInit
<1>1. FrameOK
  BY DEF FrameOK
<1>2. Shapes
  BY DEF Shapes, OnAccounts
<1>3. Once
  BY DEF Once, Ledger
<1>4. Signed /\ Still /\ Untouched
  BY DEF Signed, Still, Untouched
<1> QED BY <1>1, <1>2, <1>3, <1>4 DEF IInv

\* Every step preserves the inductive invariant.
LEMMA NextIInv ==
    ASSUME IInv, [Next]_vars
    PROVE  IInv'
<1>1. ASSUME \/ \E e \in EntryPoints : updateRegistryAddress("entryPoint", e)
             \/ updateRegistryAddress("p256Verifier", "P256V")
             \/ \E a \in Accounts :
                   \/ createAccount(a) \/ receiveEther(a) \/ addDeposit(a)
                   \/ \E g \in Guardians, key \in Keys : guardianTransfersOwnership(g, a, key)
      PROVE  IInv'
  BY <1>1, Foreign, ForeignIInv
<1>2. ASSUME \/ addGuardian \/ removeGuardian \/ transferOwnership \/ upgradeTo
             \/ withdrawDepositTo \/ addOwnDeposit \/ pay
      PROVE  IInv'
  BY <1>2, Own, OwnIInv
<1>3. ASSUME NEW e \in EntryPoints, NEW ops \in Bundles, submitBundle(e, ops)
      PROVE  IInv'
  BY <1>3, SubmitIInv
<1>4. ASSUME validateUserOp \/ validationFails \/ executeBegins
      PROVE  IInv'
  BY <1>4, ValidateIInv, FailIInv, BeginIInv
<1>5. ASSUME executeRefused \/ executeReturns
      PROVE  IInv'
  <2>1. PICK cost \in GasCosts : settle(deposit, Op.sender, cost)
    BY <1>5 DEF executeRefused, executeReturns
  <2>2. /\ phase = "execute" /\ pc' = 0
        /\ UNCHANGED <<deployed, pubKey, isGuardian, implementation>>
    BY <1>5 DEF executeRefused, executeReturns, acct, run
  <2> QED BY <2>1, <2>2, SettleIInv DEF IInv, Shapes
<1>6. ASSUME executeReverts
      PROVE  IInv'
  <2>1. PICK cost \in GasCosts : settle(inner.deposit, Op.sender, cost)
    BY <1>6 DEF executeReverts
  <2>2. phase = "execute" /\ pc # 0
    BY <1>6, RevertsWithin DEF executeReverts
  <2>3. /\ pc' = 0 /\ deployed' = inner.deployed /\ pubKey' = inner.pubKey
        /\ isGuardian' = inner.isGuardian /\ implementation' = inner.implementation
    BY <1>6 DEF executeReverts, RestoreAccounts
  <2>4. inner.deployed \subseteq Accounts /\ Control(inner)
    BY <2>2 DEF IInv, Shapes
  <2> QED BY <2>1, <2>2, <2>3, <2>4, SettleIInv DEF Control
<1>7. ASSUME UNCHANGED vars
      PROVE  IInv'
  <2>1. UNCHANGED <<nonce, executed, phase, ep, bundle, at, saved, deployed, pubKey,
                    isGuardian, implementation, pc, inner>>
    BY <1>7 DEF vars, book, frame, acct, run
  <2>2. FrameOK' /\ Shapes'
    BY <2>1 DEF IInv, FrameOK, Shapes, Control
  <2>3. Once'
    BY <2>1 DEF IInv, Once, Waiting
  <2>4. Signed' /\ Still' /\ Untouched'
    BY <2>1 DEF IInv, Signed, Still, Untouched, Validated, KeyAtStart, Op
  <2> QED BY <2>2, <2>3, <2>4 DEF IInv
<1> QED BY <1>1, <1>2, <1>3, <1>4, <1>5, <1>6, <1>7 DEF Next

\* The inductive invariant holds in every reachable state.
THEOREM Invariant == Spec => []IInv
BY InitIInv, NextIInv, PTL DEF Spec

-----------------------------------------------------------------------------
(* The results.                                                            *)

\* No signed operation is executed twice, at whatever EntryPoints the registry
\* names in turn, in whatever bundles, with whatever reverts.
THEOREM NeverTwice == Spec => []AtMostOnce
<1>1. IInv => AtMostOnce
  BY DEF IInv, Once, Ledger, AtMostOnce
<1> QED BY <1>1, Invariant, PTL

\* What handleOps executes was signed with the key its account had at the start
\* of the transaction, or was created with in it.
THEOREM KeyOfTheStart == Spec => []SignedByKeyAtStart
<1>1. ASSUME IInv PROVE SignedByKeyAtStart
  <2> SUFFICES ASSUME phase = "execute", NEW i \in DOMAIN bundle
               PROVE  bundle[i].signedBy = KeyAtStart(bundle[i].sender)
    BY DEF SignedByKeyAtStart, KeyAtStart
  <2>1. bundle \in Seq(Ops)
    BY <1>1 DEF IInv, FrameOK
  <2>2. i \in Validated
    BY <2>1 DEF Validated
  <2> QED BY <1>1, <2>2 DEF IInv, Signed
<1> QED BY <1>1, Invariant, PTL

\* The guardians, the code and, without a guardian, the key of an account change
\* in its own operations only; no revert undoes what others did to it meanwhile.
THEOREM OnlyOwnOperations == Spec => ControlChangesAuthorised
<1> DEFINE Kept(a) == /\ isGuardian'[a] = isGuardian[a]
                      /\ implementation'[a] = implementation[a]
                      /\ isGuardian[a] = {} => pubKey'[a] = pubKey[a]
           Allowed == \A a \in deployed \intersect deployed' :
                         (phase = "execute" /\ Op.sender = a) \/ Kept(a)
<1>1. ASSUME IInv, Next PROVE Allowed
  <2>1. ASSUME ForeignStep PROVE Allowed
    BY <2>1 DEF ForeignStep
  <2>2. ASSUME OwnStep PROVE Allowed
    <3>1. deployed \subseteq Accounts
      BY <1>1 DEF IInv, Shapes
    <3> QED BY <2>2, <3>1 DEF OwnStep
  <2>3. ASSUME \/ \E e \in EntryPoints, ops \in Bundles : submitBundle(e, ops)
               \/ executeBegins \/ executeRefused \/ executeReturns
        PROVE  Allowed
    BY <2>3 DEF submitBundle, executeBegins, executeRefused, executeReturns, acct
  <2>4. ASSUME validateUserOp PROVE Allowed
    <3>1. Shapes /\ Op.sender \in Accounts
      BY <1>1, <2>4, CurrentOp DEF IInv, validateUserOp
    <3>2. Deploy(Op.sender) /\ UNCHANGED isGuardian
      BY <2>4 DEF validateUserOp
    <3> QED BY <3>1, <3>2, DeployKeeps
  <2>5. ASSUME validationFails PROVE Allowed
    <3>1. /\ phase = "validate" /\ deployed' = saved.deployed /\ pubKey' = saved.pubKey
          /\ isGuardian' = saved.isGuardian /\ implementation' = saved.implementation
      BY <2>5 DEF validationFails, RestoreAccounts
    <3> QED BY <1>1, <3>1 DEF IInv, Still, KeyAtStart
  <2>6. ASSUME executeReverts PROVE Allowed
    <3>1. phase = "execute" /\ pc # 0
      BY <1>1, <2>6, RevertsWithin DEF executeReverts
    <3>2. /\ deployed' = inner.deployed /\ pubKey' = inner.pubKey
          /\ isGuardian' = inner.isGuardian /\ implementation' = inner.implementation
      BY <2>6 DEF executeReverts, RestoreAccounts
    <3> QED BY <1>1, <3>1, <3>2 DEF IInv, Untouched
  <2> QED BY <1>1, <2>1, <2>2, <2>3, <2>4, <2>5, <2>6, Foreign, Own DEF Next
<1>2. IInv /\ [Next]_vars =>
         [\A a \in deployed \intersect deployed' :
             \/ phase = "execute" /\ Op.sender = a
             \/ /\ isGuardian'[a] = isGuardian[a]
                /\ implementation'[a] = implementation[a]
                /\ isGuardian[a] = {} => pubKey'[a] = pubKey[a]]_vars
  BY <1>1
<1> QED BY <1>2, Invariant, PTL DEF Spec, ControlChangesAuthorised

-----------------------------------------------------------------------------
(* Types.                                                                  *)

Registries ==
    {r \in [{"entryPoint", "p256Verifier"} -> EntryPoints \union {Null, "P256V"}] :
       r["entryPoint"] \in EntryPoints \union {Null}}

Whole(s) == StateType(s) /\ s.registry \in Registries

\* While an account runs, the registry names an EntryPoint for its deposits.
Typed ==
    /\ Whole(Snapshot)
    /\ phase # "idle" => Whole(saved)
    /\ pc = 0 => inner = NoSnapshot
    /\ pc # 0 => /\ Whole(inner)
                 /\ pc <= Len(Op.calls) + 1
                 /\ registry["entryPoint"] \in EntryPoints

VarsTyped ==
    /\ nonce \in [EntryPoints -> [Senders -> Nat]]
    /\ deposit \in [EntryPoints -> [Accounts -> Nat]]
    /\ executed \in [Ops -> Nat]
    /\ deployed \subseteq Accounts
    /\ pubKey \in [Accounts -> Keys \union {Null}]
    /\ isGuardian \in [Accounts -> SUBSET Guardians]
    /\ guardians \in [Accounts -> Seq(Guardians)]
    /\ eth \in [Accounts -> Nat]
    /\ registry \in Registries

\* A snapshot is typed when the variables are.
LEMMA WholeVars == Whole(Snapshot) <=> VarsTyped
BY Zenon DEF Whole, StateType, Snapshot, VarsTyped, Registries

\* The same of the next state.
LEMMA WholeVarsNext == Whole(Snapshot)' <=> VarsTyped'
BY WholeVars, PTL

\* Steps outside the EntryPoint leave it a typed state to go on with.
LEMMA StateTyped ==
    ASSUME Typed, VarsTyped', UNCHANGED <<phase, bundle, at, saved, pc, inner>>,
           registry'["entryPoint"] \in EntryPoints \union {registry["entryPoint"]}
    PROVE  Typed'
<1>1. Whole(Snapshot)'
  BY WholeVarsNext
<1>2. Op' = Op
  BY DEF Op
<1>3. phase' # "idle" => Whole(saved)'
  BY Zenon DEF Typed, Whole, StateType, Registries
<1>4. pc' # 0 => Whole(inner)'
  BY Zenon DEF Typed, Whole, StateType, Registries
<1>5. pc' # 0 => pc' <= Len(Op'.calls) + 1 /\ registry'["entryPoint"] \in EntryPoints
  BY <1>2 DEF Typed
<1>6. pc' = 0 => inner' = NoSnapshot
  BY DEF Typed
<1> QED BY <1>1, <1>3, <1>4, <1>5, <1>6 DEF Typed

\* The factory gives an account the key in its address.
LEMMA DeployTyped ==
    ASSUME VarsTyped, NEW a \in Accounts, Deploy(a)
    PROVE  deployed' \subseteq Accounts /\ pubKey' \in [Accounts -> Keys \union {Null}]
<1>1. a[1] \in Keys
  BY DEF Accounts
<1> QED BY <1>1 DEF VarsTyped, Deploy, Initialized

\* Registry, factory, guardians and donors.
LEMMA ForeignTyped ==
    ASSUME Typed,
           \/ \E e \in EntryPoints : updateRegistryAddress("entryPoint", e)
           \/ updateRegistryAddress("p256Verifier", "P256V")
           \/ \E a \in Accounts :
                 \/ createAccount(a) \/ receiveEther(a) \/ addDeposit(a)
                 \/ \E g \in Guardians, key \in Keys : guardianTransfersOwnership(g, a, key)
    PROVE  Typed'
<1>0. VarsTyped
  BY WholeVars DEF Typed
<1>1. ASSUME NEW e \in EntryPoints, updateRegistryAddress("entryPoint", e) PROVE Typed'
  <2>1. /\ registry' = [registry EXCEPT !["entryPoint"] = e]
        /\ UNCHANGED <<nonce, deposit, executed, phase, bundle, at, saved, pc, inner, deployed,
                       pubKey, isGuardian, guardians, eth>>
    BY <1>1 DEF updateRegistryAddress, book, frame, run
  <2>2. registry' \in Registries /\ registry'["entryPoint"] = e
    BY <1>0, <2>1 DEF VarsTyped, Registries
  <2>3. VarsTyped'
    BY <1>0, <2>1, <2>2 DEF VarsTyped
  <2> QED BY <2>1, <2>2, <2>3, StateTyped
<1>2. ASSUME updateRegistryAddress("p256Verifier", "P256V") PROVE Typed'
  <2>1. /\ registry' = [registry EXCEPT !["p256Verifier"] = "P256V"]
        /\ UNCHANGED <<nonce, deposit, executed, phase, bundle, at, saved, pc, inner, deployed,
                       pubKey, isGuardian, guardians, eth>>
    BY <1>2 DEF updateRegistryAddress, book, frame, run
  <2>2. registry' \in Registries /\ registry'["entryPoint"] = registry["entryPoint"]
    BY <1>0, <2>1, Zenon DEF VarsTyped, Registries
  <2>3. VarsTyped'
    BY <1>0, <2>1, <2>2 DEF VarsTyped
  <2> QED BY <2>1, <2>2, <2>3, StateTyped
<1>3. ASSUME NEW a \in Accounts, createAccount(a) PROVE Typed'
  <2>1. /\ Deploy(a)
        /\ UNCHANGED <<nonce, deposit, executed, phase, bundle, at, saved, pc, inner,
                       isGuardian, guardians, eth, registry>>
    BY <1>3 DEF createAccount, book, frame, run
  <2>2. VarsTyped'
    BY <1>0, <2>1, DeployTyped DEF VarsTyped
  <2> QED BY <2>1, <2>2, StateTyped
<1>4. ASSUME NEW a \in Accounts, receiveEther(a) PROVE Typed'
  <2>1. /\ eth' = [eth EXCEPT ![a] = @ + 1]
        /\ UNCHANGED <<nonce, deposit, executed, phase, bundle, at, saved, pc, inner, deployed,
                       pubKey, isGuardian, guardians, registry>>
    BY <1>4 DEF receiveEther, book, frame, run
  <2>2. VarsTyped'
    BY <1>0, <2>1 DEF VarsTyped
  <2> QED BY <2>1, <2>2, StateTyped
<1>5. ASSUME NEW a \in Accounts, addDeposit(a) PROVE Typed'
  <2>1. /\ deposit' = [deposit EXCEPT ![entryPoint][a] = @ + 1]
        /\ entryPoint # Null
        /\ UNCHANGED <<nonce, executed, phase, bundle, at, saved, pc, inner, deployed,
                       pubKey, isGuardian, guardians, eth, registry>>
    BY <1>5 DEF addDeposit, frame, run, acct
  <2>2. entryPoint \in EntryPoints
    BY <1>0, <2>1 DEF VarsTyped, Registries, entryPoint
  <2>3. VarsTyped'
    BY <1>0, <2>1, <2>2 DEF VarsTyped
  <2> QED BY <2>1, <2>3, StateTyped
<1>6. ASSUME NEW a \in Accounts, NEW g, NEW key \in Keys, guardianTransfersOwnership(g, a, key)
      PROVE  Typed'
  <2>1. /\ pubKey' = [pubKey EXCEPT ![a] = key]
        /\ UNCHANGED <<nonce, deposit, executed, phase, bundle, at, saved, pc, inner, deployed,
                       isGuardian, guardians, eth, registry>>
    BY <1>6 DEF guardianTransfersOwnership, book, frame, run
  <2>2. VarsTyped'
    BY <1>0, <2>1 DEF VarsTyped
  <2> QED BY <2>1, <2>2, StateTyped
<1> QED BY <1>1, <1>2, <1>3, <1>4, <1>5, <1>6

\* The argument of a call has the type its function asks for.
LEMMA ArgTyped ==
    ASSUME IInv, NEW fn, Calling(fn)
    PROVE  /\ Op \in Ops /\ Op.sender \in Accounts
           /\ pc \in 1..Len(Op.calls) /\ Len(Op.calls) \in Nat /\ pc \in DOMAIN Op.calls
           /\ fn \in {"addGuardian", "removeGuardian"} => Arg \in Guardians \union {Null}
           /\ fn = "transferOwnership" => Arg \in Keys
           /\ fn \in {"withdrawDepositTo", "addDeposit", "pay"} => Arg \in Nat
<1>1. phase = "execute" /\ pc \in DOMAIN Op.calls /\ Op.calls[pc].fn = fn
  BY DEF Calling
<1>2. Op \in Ops /\ Op.sender \in Accounts
  BY <1>1, CurrentOp DEF IInv
<1> QED BY <1>1, <1>2, CallsAssumption DEF Arg

\* Removing a guardian leaves an array of guardians.
LEMMA DroppedTyped ==
    ASSUME NEW q \in Seq(Guardians), NEW g
    PROVE  Dropped(q, g) \in Seq(Guardians)
<1>1. CASE g \notin {q[i] : i \in DOMAIN q}
  BY <1>1 DEF Dropped
<1>2. CASE g \in {q[i] : i \in DOMAIN q}
  <2> DEFINE first == Min({i \in DOMAIN q : q[i] = g})
             moved == [q EXCEPT ![first] = q[Len(q)]]
  <2>1. Len(q) \in Nat /\ Len(q) # 0 /\ q[Len(q)] \in Guardians
    BY <1>2
  <2> HIDE DEF first
  <2>2. \A i \in 1..Len(q) : i \in DOMAIN q /\ q[i] \in Guardians
    OBVIOUS
  <2>3. \A i \in 1..(Len(q) - 1) : moved[i] \in Guardians
    BY <2>1, <2>2
  <2> HIDE DEF moved
  <2>4. SubSeq(moved, 1, Len(q) - 1) \in Seq(Guardians)
    BY <2>1, <2>3, SubSeqProperties
  <2> QED BY <1>2, <2>4 DEF Dropped, first, moved
<1> QED BY <1>1, <1>2

\* A call has returned to the account and its effects are typed.
LEMMA ReturnTyped ==
    ASSUME IInv, Typed, NEW fn, Calling(fn), Returned,
           deposit' \in [EntryPoints -> [Accounts -> Nat]],
           pubKey' \in [Accounts -> Keys \union {Null}],
           isGuardian' \in [Accounts -> SUBSET Guardians],
           guardians' \in [Accounts -> Seq(Guardians)],
           eth' \in [Accounts -> Nat]
    PROVE  Typed'
<1>1. pc \in 1..Len(Op.calls) /\ Len(Op.calls) \in Nat /\ phase = "execute" /\ pc # 0
  BY ArgTyped DEF Calling
<1>2. /\ pc' = pc + 1
      /\ UNCHANGED <<nonce, executed, phase, bundle, at, saved, inner, deployed, registry>>
  BY DEF Returned, frame
<1>3. VarsTyped'
  BY <1>2, WholeVars, Zenon DEF Typed, VarsTyped
<1>4. Op' = Op
  BY <1>2 DEF Op
<1>5. Whole(saved)' /\ Whole(inner)'
  BY <1>1, <1>2, Zenon DEF Typed, Whole, StateType, Registries
<1> QED BY <1>1, <1>2, <1>3, <1>4, <1>5, WholeVarsNext DEF Typed

\* The calls an account makes.
LEMMA OwnTyped ==
    ASSUME IInv, Typed,
           \/ addGuardian \/ removeGuardian \/ transferOwnership \/ upgradeTo
           \/ withdrawDepositTo \/ addOwnDeposit \/ pay
    PROVE  Typed'
<1>0. VarsTyped
  BY WholeVars DEF Typed
<1>1. ASSUME addGuardian PROVE Typed'
  <2>1. Calling("addGuardian") /\ Arg \in Guardians /\ Op.sender \in Accounts /\ Returned
    BY <1>1, ArgTyped DEF addGuardian
  <2>2. isGuardian' \in [Accounts -> SUBSET Guardians]
    BY <1>0, <1>1, <2>1 DEF addGuardian, VarsTyped
  <2>3. UNCHANGED <<deposit, pubKey, guardians, eth>>
    BY <1>1 DEF addGuardian
  <2> QED BY <1>0, <2>1, <2>2, <2>3, ReturnTyped, Zenon DEF VarsTyped
<1>2. ASSUME removeGuardian PROVE Typed'
  <2>1. Calling("removeGuardian") /\ Op.sender \in Accounts /\ Returned
    BY <1>2, ArgTyped, Zenon DEF removeGuardian
  <2>2. isGuardian' \in [Accounts -> SUBSET Guardians]
    BY <1>0, <1>2, <2>1 DEF removeGuardian, VarsTyped
  <2>3. guardians' \in [Accounts -> Seq(Guardians)]
    <3>1. Dropped(guardians[Op.sender], Arg) \in Seq(Guardians)
      BY <1>0, <2>1, DroppedTyped DEF VarsTyped
    <3>2. guardians' = [guardians EXCEPT ![Op.sender] = Dropped(guardians[Op.sender], Arg)]
      BY <1>2 DEF removeGuardian
    <3> QED BY <1>0, <2>1, <3>1, <3>2 DEF VarsTyped
  <2>4. UNCHANGED <<deposit, pubKey, eth>>
    BY <1>2 DEF removeGuardian
  <2> QED BY <1>0, <2>1, <2>2, <2>3, <2>4, ReturnTyped, Zenon DEF VarsTyped
<1>3. ASSUME transferOwnership PROVE Typed'
  <2>1. Calling("transferOwnership") /\ Arg \in Keys /\ Op.sender \in Accounts /\ Returned
    BY <1>3, ArgTyped DEF transferOwnership
  <2>2. pubKey' \in [Accounts -> Keys \union {Null}]
    BY <1>0, <1>3, <2>1 DEF transferOwnership, VarsTyped
  <2>3. UNCHANGED <<deposit, isGuardian, guardians, eth>>
    BY <1>3 DEF transferOwnership
  <2> QED BY <1>0, <2>1, <2>2, <2>3, ReturnTyped, Zenon DEF VarsTyped
<1>4. ASSUME upgradeTo PROVE Typed'
  <2>1. /\ Calling("upgradeTo") /\ Returned
        /\ UNCHANGED <<deposit, pubKey, isGuardian, guardians, eth>>
    BY <1>4 DEF upgradeTo
  <2> QED BY <1>0, <2>1, ReturnTyped, Zenon DEF VarsTyped
<1>5. ASSUME withdrawDepositTo PROVE Typed'
  <2>1. /\ Calling("withdrawDepositTo") /\ Arg \in Nat /\ Op.sender \in Accounts /\ Returned
        /\ pc # 0
    BY <1>5, ArgTyped DEF withdrawDepositTo
  <2>2. entryPoint \in EntryPoints
    BY <2>1 DEF Typed, entryPoint
  <2>3. deposit' \in [EntryPoints -> [Accounts -> Nat]]
    BY <1>0, <1>5, <2>1, <2>2 DEF withdrawDepositTo, VarsTyped
  <2>4. UNCHANGED <<pubKey, isGuardian, guardians, eth>>
    BY <1>5 DEF withdrawDepositTo
  <2> QED BY <1>0, <2>1, <2>3, <2>4, ReturnTyped, Zenon DEF VarsTyped
<1>6. ASSUME addOwnDeposit PROVE Typed'
  <2>1. /\ Calling("addDeposit") /\ Arg \in Nat /\ Op.sender \in Accounts /\ Returned
        /\ pc # 0
    BY <1>6, ArgTyped DEF addOwnDeposit
  <2>2. entryPoint \in EntryPoints
    BY <2>1 DEF Typed, entryPoint
  <2>3. deposit' \in [EntryPoints -> [Accounts -> Nat]] /\ eth' \in [Accounts -> Nat]
    BY <1>0, <1>6, <2>1, <2>2 DEF addOwnDeposit, VarsTyped
  <2>4. UNCHANGED <<pubKey, isGuardian, guardians>>
    BY <1>6 DEF addOwnDeposit
  <2> QED BY <1>0, <2>1, <2>3, <2>4, ReturnTyped, Zenon DEF VarsTyped
<1>7. ASSUME pay PROVE Typed'
  <2>1. Calling("pay") /\ Arg \in Nat /\ Op.sender \in Accounts /\ Returned
    BY <1>7, ArgTyped DEF pay
  <2>2. eth' \in [Accounts -> Nat]
    BY <1>0, <1>7, <2>1 DEF pay, VarsTyped
  <2>3. UNCHANGED <<deposit, pubKey, isGuardian, guardians>>
    BY <1>7 DEF pay
  <2> QED BY <1>0, <2>1, <2>2, <2>3, ReturnTyped, Zenon DEF VarsTyped
<1> QED BY <1>1, <1>2, <1>3, <1>4, <1>5, <1>6, <1>7

\* A bundle is submitted.
LEMMA SubmitTyped ==
    ASSUME IInv, Typed, NEW e, NEW ops, submitBundle(e, ops)
    PROVE  Typed'
<1>1. /\ phase = "idle" /\ phase' = "validate" /\ saved' = Snapshot
      /\ UNCHANGED <<nonce, deposit, executed, deployed, pubKey, isGuardian, guardians, eth,
                     registry, pc, inner>>
  BY DEF submitBundle, handleOps, book, acct, run
<1>2. VarsTyped'
  BY <1>1, WholeVars, Zenon DEF Typed, VarsTyped
<1>3. pc = 0
  BY <1>1 DEF IInv, FrameOK
<1>4. Whole(saved')
  BY <1>1 DEF Typed
<1> QED BY <1>1, <1>2, <1>3, <1>4, WholeVarsNext, Zenon DEF Typed, Whole, StateType

\* The account sends the EntryPoint no more than it has, and then the deposit
\* covers what is taken for the gas.
LEMMA PrefundFits ==
    ASSUME IInv, Typed, validateUserOp
    PROVE  /\ Op.sender \in Accounts /\ ep \in EntryPoints
           /\ Prefund(Op.sender) \in Nat
           /\ Prefund(Op.sender) <= eth[Op.sender] /\ eth[Op.sender] \in Nat
           /\ deposit[ep][Op.sender] \in Nat
           /\ deposit[ep][Op.sender] + Prefund(Op.sender) >= RequiredPreFund
           /\ deposit' = [deposit EXCEPT ![ep][Op.sender] =
                            deposit[ep][Op.sender] + Prefund(Op.sender) - RequiredPreFund]
           /\ eth' = [eth EXCEPT ![Op.sender] = eth[Op.sender] - Prefund(Op.sender)]
<1> DEFINE s == Op.sender
           lacks == RequiredPreFund - deposit[ep][s]
<1>1. s \in Accounts /\ ep \in EntryPoints
  BY CurrentOp DEF validateUserOp, IInv, FrameOK
<1>2. eth[s] \in Nat /\ deposit[ep][s] \in Nat /\ deposit \in [EntryPoints -> [Accounts -> Nat]]
  BY <1>1, WholeVars, Zenon DEF Typed, VarsTyped
<1>3. lacks \in Int
  BY <1>2, PreFundAssumption
<1> HIDE DEF lacks
<1>4. Max({0, lacks}) \in Nat
  <2>1. \E x \in {0, lacks} : \A y \in {0, lacks} : x >= y
    BY <1>3
  <2>2. Max({0, lacks}) \in {0, lacks} /\ Max({0, lacks}) >= 0
    BY <2>1 DEF Max
  <2> QED BY <1>3, <2>2
<1>5. Prefund(s) = IF eth[s] >= Max({0, lacks}) THEN Max({0, lacks}) ELSE 0
  BY DEF Prefund, lacks
<1>6. Prefund(s) \in Nat /\ Prefund(s) <= eth[s]
  BY <1>2, <1>4, <1>5
<1>7. PaidIn(s) = [deposit EXCEPT ![ep][s] = deposit[ep][s] + Prefund(s)]
  BY DEF PaidIn
<1>8. PaidIn(s)[ep][s] = deposit[ep][s] + Prefund(s)
  BY <1>1, <1>2, <1>7
<1>9. deposit[ep][s] + Prefund(s) >= RequiredPreFund
  BY <1>8 DEF validateUserOp, Valid
<1>10. deposit' = [deposit EXCEPT ![ep][s] = deposit[ep][s] + Prefund(s) - RequiredPreFund]
  <2> DEFINE v == deposit[ep][s] + Prefund(s)
             w == deposit[ep][s] + Prefund(s) - RequiredPreFund
  <2>1. PICK p : p = PaidIn(s) /\ validatePrepayment(p, s)
    BY DEF validateUserOp
  <2>2. p = [deposit EXCEPT ![ep][s] = v]
    BY <2>1 DEF PaidIn
  <2>3. p[ep][s] - RequiredPreFund = w
    <3>1. p[ep][s] = v
      BY <1>1, <1>2, <2>2
    <3> QED BY <1>2, <1>6, <3>1, PreFundAssumption
  <2>4. deposit' = [p EXCEPT ![ep][s] = p[ep][s] - RequiredPreFund]
    BY <2>1 DEF validatePrepayment
  <2> HIDE DEF v, w
  <2>5. deposit' = [p EXCEPT ![ep][s] = w]
    BY <2>3, <2>4, Zenon
  <2>6. deposit' = [deposit EXCEPT ![ep][s] = w]
    BY <1>1, <1>2, <2>2, <2>5, Zenon
  <2> QED BY <2>6 DEF w
<1>11. eth' = [eth EXCEPT ![s] = eth[s] - Prefund(s)]
  BY DEF validateUserOp
<1> QED BY <1>1, <1>2, <1>6, <1>9, <1>10, <1>11

\* An operation is validated.
LEMMA ValidateTyped ==
    ASSUME IInv, Typed, validateUserOp
    PROVE  Typed'
<1> DEFINE s == Op.sender
<1>0. VarsTyped
  BY WholeVars DEF Typed
<1>1. /\ phase = "validate" /\ Op \in Ops /\ s \in Senders /\ s \in Accounts /\ pc = 0
  BY CurrentOp DEF validateUserOp, IInv, FrameOK
<1>2. /\ nonce' = [nonce EXCEPT ![ep][s] = @ + 1] /\ phase' # "idle"
      /\ Deploy(s)
      /\ UNCHANGED <<executed, saved, isGuardian, guardians, registry, pc, inner>>
  BY <1>1 DEF validateUserOp, validatePrepayment, run
<1>3. /\ Prefund(s) \in Nat /\ Prefund(s) <= eth[s] /\ eth[s] \in Nat
      /\ deposit[ep][s] \in Nat /\ deposit[ep][s] + Prefund(s) >= RequiredPreFund
      /\ deposit' = [deposit EXCEPT ![ep][s] =
                       deposit[ep][s] + Prefund(s) - RequiredPreFund]
      /\ eth' = [eth EXCEPT ![s] = eth[s] - Prefund(s)]
      /\ ep \in EntryPoints
  BY PrefundFits
<1>4. nonce' \in [EntryPoints -> [Senders -> Nat]]
  BY <1>0, <1>1, <1>2, <1>3 DEF VarsTyped
<1>5. deposit' \in [EntryPoints -> [Accounts -> Nat]]
  <2>1. deposit[ep][s] + Prefund(s) - RequiredPreFund \in Nat
    BY <1>3, PreFundAssumption
  <2> QED BY <1>0, <1>1, <1>3, <2>1 DEF VarsTyped
<1>6. eth' \in [Accounts -> Nat]
  <2>1. eth[s] - Prefund(s) \in Nat
    BY <1>3
  <2> QED BY <1>0, <1>1, <1>3, <2>1 DEF VarsTyped
<1>7. deployed' \subseteq Accounts /\ pubKey' \in [Accounts -> Keys \union {Null}]
  BY <1>0, <1>1, <1>2, DeployTyped
<1>8. VarsTyped'
  BY <1>0, <1>2, <1>4, <1>5, <1>6, <1>7 DEF VarsTyped
<1>9. Whole(saved)'
  BY <1>1, <1>2, Zenon DEF Typed, Whole, StateType, Registries
<1> QED BY <1>1, <1>2, <1>8, <1>9, WholeVarsNext DEF Typed

\* A failed validation gives everybody the state of the start back.
LEMMA FailTyped ==
    ASSUME IInv, Typed, validationFails
    PROVE  Typed'
<1>1. /\ phase = "validate" /\ phase' = "idle" /\ nonce' = saved.nonce
      /\ deposit' = saved.deposit /\ executed' = saved.executed /\ deployed' = saved.deployed
      /\ pubKey' = saved.pubKey /\ isGuardian' = saved.isGuardian
      /\ guardians' = saved.guardians /\ eth' = saved.eth /\ registry' = saved.registry
      /\ UNCHANGED <<pc, inner>>
  BY DEF validationFails, RevertBundle, Close, RestoreAccounts, run
<1>2. pc = 0 /\ Whole(saved)
  BY <1>1 DEF IInv, FrameOK, Typed
<1>3. VarsTyped'
  BY <1>1, <1>2, Zenon DEF Whole, StateType, VarsTyped
<1> QED BY <1>1, <1>2, <1>3, WholeVarsNext DEF Typed

\* The EntryPoint calls the account, which finds it in the registry.
LEMMA BeginTyped ==
    ASSUME IInv, Typed, executeBegins
    PROVE  Typed'
<1>1. /\ phase = "execute" /\ pc' = 1 /\ inner' = Snapshot /\ registry["entryPoint"] = ep
      /\ UNCHANGED <<nonce, deposit, executed, phase, ep, bundle, at, saved, deployed, pubKey,
                     isGuardian, guardians, eth, registry>>
  BY DEF executeBegins, requireFromEntryPoint, entryPoint, book, frame, acct
<1>2. Op' = Op /\ Op \in Ops /\ ep \in EntryPoints
  BY <1>1, CurrentOp DEF Op, IInv, FrameOK
<1>3. VarsTyped'
  BY <1>1, WholeVars, Zenon DEF Typed, VarsTyped
<1>4. Whole(saved)' /\ Whole(inner')
  BY <1>1, Zenon DEF Typed, Whole, StateType, Registries
<1>5. Whole(inner)'
  BY <1>4, Zenon DEF Whole, StateType, Registries
<1>6. 1 <= Len(Op.calls) + 1
  BY <1>2, CallsAssumption
<1> QED BY <1>1, <1>2, <1>3, <1>4, <1>5, <1>6, WholeVarsNext DEF Typed

\* An operation is over; its account is refunded what was not used.
LEMMA SettleTyped ==
    ASSUME IInv, Typed, phase = "execute", NEW d \in [EntryPoints -> [Accounts -> Nat]],
           NEW cost \in GasCosts, settle(d, Op.sender, cost), pc' = 0, inner' = NoSnapshot,
           deployed' \subseteq Accounts, pubKey' \in [Accounts -> Keys \union {Null}],
           isGuardian' \in [Accounts -> SUBSET Guardians],
           guardians' \in [Accounts -> Seq(Guardians)],
           eth' \in [Accounts -> Nat], registry' \in Registries
    PROVE  Typed'
<1>1. Op \in Ops /\ Op.sender \in Accounts /\ ep \in EntryPoints
  BY CurrentOp DEF IInv, FrameOK
<1>2. RequiredPreFund - cost \in Nat
  BY PreFundAssumption DEF GasCosts
<1>3. UNCHANGED nonce /\ (phase' = "idle" \/ UNCHANGED saved)
  BY DEF settle, Close
<1>4. deposit' \in [EntryPoints -> [Accounts -> Nat]]
  <2>1. deposit' = [d EXCEPT ![ep][Op.sender] = @ + (RequiredPreFund - cost)]
    BY DEF settle
  <2> QED BY <1>1, <1>2, <2>1
<1>5. executed' \in [Ops -> Nat] /\ nonce' \in [EntryPoints -> [Senders -> Nat]]
  <2>1. executed \in [Ops -> Nat] /\ nonce \in [EntryPoints -> [Senders -> Nat]]
    BY WholeVars, Zenon DEF Typed, VarsTyped
  <2>2. executed' = [executed EXCEPT ![Op] = @ + 1]
    BY DEF settle
  <2> QED BY <1>1, <1>3, <2>1, <2>2
<1>6. VarsTyped'
  BY <1>4, <1>5 DEF VarsTyped
<1>7. phase' # "idle" => Whole(saved)'
  BY <1>3, Zenon DEF Typed, Whole, StateType, Registries
<1> QED BY <1>6, <1>7, WholeVarsNext, Zenon DEF Typed

\* The initial state.
LEMMA InitTyped == Init => Typed
<1> SUFFICES ASSUME Init PROVE Typed
  OBVIOUS
<1>1. /\ nonce \in [EntryPoints -> [Senders -> Nat]] /\ executed \in [Ops -> Nat]
      /\ deposit \in [EntryPoints -> [Accounts -> Nat]]
  BY AccountsAssumption, StakeAssumption DEF Init, EPInit
<1>2. registry \in Registries
  BY DEF Init, Registries
<1>3. /\ deployed \subseteq Accounts /\ pubKey \in [Accounts -> Keys \union {Null}]
      /\ isGuardian \in [Accounts -> SUBSET Guardians]
      /\ guardians \in [Accounts -> Seq(Guardians)] /\ eth \in [Accounts -> Nat]
  BY DEF Init
<1>4. VarsTyped
  BY <1>1, <1>2, <1>3 DEF VarsTyped
<1> QED BY <1>4, WholeVars DEF Init, EPInit, Typed

\* Every step keeps the types.
LEMMA NextTyped ==
    ASSUME IInv, Typed, [Next]_vars
    PROVE  Typed'
<1>0. VarsTyped
  BY WholeVars DEF Typed
<1>1. ASSUME NEW e \in EntryPoints, NEW ops \in Bundles, submitBundle(e, ops)
      PROVE  Typed'
  BY <1>1, SubmitTyped
<1>2. ASSUME validateUserOp \/ validationFails \/ executeBegins
      PROVE  Typed'
  BY <1>2, ValidateTyped, FailTyped, BeginTyped
<1>3. ASSUME executeRefused \/ executeReturns
      PROVE  Typed'
  <2>1. PICK cost \in GasCosts : settle(deposit, Op.sender, cost)
    BY <1>3 DEF executeRefused, executeReturns
  <2>2. /\ phase = "execute" /\ pc' = 0 /\ inner' = NoSnapshot
        /\ UNCHANGED <<deployed, pubKey, isGuardian, guardians, eth, registry>>
    BY <1>3 DEF executeRefused, executeReturns, acct, run, Typed
  <2> QED BY <1>0, <2>1, <2>2, SettleTyped, Zenon DEF VarsTyped
<1>4. ASSUME executeReverts
      PROVE  Typed'
  <2>1. PICK cost \in GasCosts : settle(inner.deposit, Op.sender, cost)
    BY <1>4 DEF executeReverts
  <2>2. phase = "execute" /\ pc # 0
    BY <1>4, RevertsWithin DEF executeReverts
  <2>3. /\ pc' = 0 /\ inner' = NoSnapshot /\ deployed' = inner.deployed
        /\ pubKey' = inner.pubKey /\ isGuardian' = inner.isGuardian
        /\ guardians' = inner.guardians /\ eth' = inner.eth /\ registry' = inner.registry
    BY <1>4 DEF executeReverts, RestoreAccounts
  <2>4. Whole(inner)
    BY <2>2 DEF Typed
  <2> QED BY <2>1, <2>2, <2>3, <2>4, SettleTyped, Zenon DEF Whole, StateType
<1>5. ASSUME UNCHANGED vars
      PROVE  Typed'
  <2>1. UNCHANGED <<nonce, deposit, executed, phase, bundle, at, saved, deployed, pubKey,
                    isGuardian, guardians, eth, registry, pc, inner>>
    BY <1>5 DEF vars, book, frame, acct, run
  <2>2. VarsTyped'
    BY <1>0, <2>1 DEF VarsTyped
  <2> QED BY <2>1, <2>2, StateTyped
<1> QED BY <1>1, <1>2, <1>3, <1>4, <1>5, ForeignTyped, OwnTyped DEF Next

\* No balance of an account or a deposit is overdrawn, every variable keeps its
\* type through reverts of calls and of bundles, and the state that a revert
\* restores is there whenever one is possible.
THEOREM TypeCorrect == Spec => []TypeOK
<1>1. IInv /\ Typed => TypeOK
  BY DEF IInv, FrameOK, Typed, Whole, TypeOK
<1> QED BY <1>1, Invariant, InitTyped, NextTyped, PTL DEF Spec

-----------------------------------------------------------------------------
(* Money.                                                                  *)

Deposits == [EntryPoints -> [Accounts -> Nat]]
Balances == [Accounts -> Nat]
Batches == Seq(Ops)

\* What an account owns when the balances are x and the deposits d.
Worth(x, d, a) == x[a] + SumFunction([e \in EntryPoints |-> d[e][a]])

\* What the calls before the k-th of an operation pay out.
PaidBefore(op, k) ==
    SumFunction([i \in DOMAIN op.calls |-> IF i < k THEN PaidOut(op.calls[i]) ELSE 0])

\* What the i-th operation of a bundle may have cost its account when the loop has
\* reached the n-th and, in the execution, that one its k-th call.
Cost(loop, b, n, k, i) ==
    IF loop = "validate" THEN (IF i < n THEN RequiredPreFund ELSE 0)
    ELSE IF i < n THEN Outlay(b[i])
    ELSE IF i = n THEN RequiredPreFund + PaidBefore(b[i], k)
    ELSE RequiredPreFund

\* The costs of the operations of one account.
CostsOf(loop, b, n, k, a) ==
    [i \in DOMAIN b |-> IF b[i].sender = a THEN Cost(loop, b, n, k, i) ELSE 0]

Charge(loop, b, n, k, a) == SumFunction(CostsOf(loop, b, n, k, a))

\* The accounts own what they owned at the start but for those costs, and would do
\* so as well if the running operation's call were undone.
Covered ==
    phase # "idle" =>
        \A a \in Accounts :
            /\ Worth(eth, deposit, a)
                 >= Worth(saved.eth, saved.deposit, a) - Charge(phase, bundle, at, pc, a)
            /\ pc # 0 =>
                  Worth(inner.eth, inner.deposit, a)
                    >= Worth(saved.eth, saved.deposit, a) - Charge(phase, bundle, at, 0, a)

\* What an account owns is a number.
LEMMA WorthNat ==
    ASSUME NEW x \in Balances, NEW d \in Deposits, NEW a \in Accounts
    PROVE  Worth(x, d, a) \in Nat
<1> DEFINE f == [e \in EntryPoints |-> d[e][a]]
<1>1. f \in [EntryPoints -> Nat] /\ x[a] \in Nat
  BY DEF Balances, Deposits
<1> HIDE DEF f
<1>2. SumFunction(f) \in Nat
  BY <1>1, AccountsAssumption, TotalNat
<1> QED BY <1>1, <1>2 DEF Worth, f

\* Ether moves to or from the balance and one of the deposits of an account.
LEMMA WorthMoves ==
    ASSUME NEW x \in Balances, NEW y \in Balances, NEW d \in Deposits, NEW f \in Deposits,
           NEW a \in Accounts, NEW e \in EntryPoints,
           \A o \in EntryPoints : o # e => f[o][a] = d[o][a]
    PROVE  Worth(y, f, a) = Worth(x, d, a) + (y[a] - x[a]) + (f[e][a] - d[e][a])
<1> DEFINE old == [o \in EntryPoints |-> d[o][a]]
           new == [o \in EntryPoints |-> f[o][a]]
<1>1. old \in [EntryPoints -> Nat] /\ new \in [EntryPoints -> Nat]
  BY DEF Deposits
<1>2. PICK n \in Int : n = f[e][a] - d[e][a]
  BY DEF Deposits
<1>3. /\ new[e] = old[e] + n /\ \A o \in EntryPoints : o # e => new[o] = old[o]
      /\ x[a] \in Nat /\ y[a] \in Nat
  BY <1>2 DEF Balances, Deposits
<1>4. Worth(y, f, a) = y[a] + SumFunction(new) /\ Worth(x, d, a) = x[a] + SumFunction(old)
  BY DEF Worth
<1> HIDE DEF old, new
<1>5. SumFunction(old) \in Nat
  BY <1>1, AccountsAssumption, TotalNat
<1>6. SumFunction(new) = SumFunction(old) + n
  BY <1>1, <1>3, AccountsAssumption, TotalUpdate
<1> QED BY <1>2, <1>3, <1>4, <1>5, <1>6

\* The indices of a sequence.
LEMMA Indices ==
    ASSUME NEW b, Len(b) \in Nat, DOMAIN b = 1..Len(b)
    PROVE  IsFiniteSet(DOMAIN b)
BY FS_Interval

\* Amounts are not negative.
LEMMA PaidOutNat ==
    ASSUME NEW op \in Ops, NEW i \in DOMAIN op.calls
    PROVE  PaidOut(op.calls[i]) \in Nat
BY CallsAssumption DEF PaidOut

\* An operation pays out more with every call, and in the end its outlay.
LEMMA PaidBeforeGrows ==
    ASSUME NEW op \in Ops, NEW j \in Nat, NEW k \in Nat, j <= k
    PROVE  /\ PaidBefore(op, j) \in Nat /\ PaidBefore(op, k) \in Nat /\ Outlay(op) \in Nat
           /\ PaidBefore(op, j) <= PaidBefore(op, k)
           /\ RequiredPreFund + PaidBefore(op, k) <= Outlay(op)
<1> DEFINE S == DOMAIN op.calls
           Upto(n) == [i \in S |-> IF i < n THEN PaidOut(op.calls[i]) ELSE 0]
           all == [i \in S |-> PaidOut(op.calls[i])]
<1>1. IsFiniteSet(S) /\ S \subseteq Nat
  BY CallsAssumption, Indices
<1>2. \A i \in S : PaidOut(op.calls[i]) \in Nat
  BY PaidOutNat
<1> HIDE DEF S
<1>3. /\ Upto(j) \in [S -> Nat] /\ Upto(k) \in [S -> Nat] /\ all \in [S -> Nat]
      /\ \A i \in S : Upto(j)[i] <= Upto(k)[i] /\ Upto(k)[i] <= all[i]
  BY <1>1, <1>2
<1>4. /\ PaidBefore(op, j) = SumFunction(Upto(j)) /\ PaidBefore(op, k) = SumFunction(Upto(k))
      /\ Outlay(op) = RequiredPreFund + SumFunction(all)
  BY DEF PaidBefore, Outlay, S
<1>5. PICK u, v, w : u = Upto(j) /\ v = Upto(k) /\ w = all
  BY Zenon
<1>6. /\ u \in [S -> Nat] /\ v \in [S -> Nat] /\ w \in [S -> Nat]
      /\ \A i \in S : u[i] <= v[i]
      /\ \A i \in S : v[i] <= w[i]
  BY <1>3, <1>5
<1>7. SumFunction(u) \in Nat /\ SumFunction(v) \in Nat /\ SumFunction(w) \in Nat
  BY <1>1, <1>6, TotalNat, Zenon
<1>8. SumFunction(u) <= SumFunction(v) /\ SumFunction(v) <= SumFunction(w)
  BY <1>1, <1>6, TotalMonotone, Zenon
<1> HIDE DEF Upto, all
<1> QED BY <1>4, <1>5, <1>7, <1>8, PreFundAssumption

\* A call adds what it pays out.
LEMMA PaidByCall ==
    ASSUME NEW op \in Ops, NEW k \in DOMAIN op.calls
    PROVE  PaidBefore(op, k + 1) = PaidBefore(op, k) + PaidOut(op.calls[k])
<1> DEFINE S == DOMAIN op.calls
           Upto(n) == [i \in S |-> IF i < n THEN PaidOut(op.calls[i]) ELSE 0]
<1>1. IsFiniteSet(S) /\ S \subseteq Nat /\ k \in S
  BY CallsAssumption, Indices
<1>2. \A i \in S : PaidOut(op.calls[i]) \in Nat
  BY PaidOutNat
<1>3. PaidBefore(op, k) = SumFunction(Upto(k)) /\ PaidBefore(op, k + 1) = SumFunction(Upto(k + 1))
  BY DEF PaidBefore
<1> HIDE DEF S
<1>4. PICK u, v : u = Upto(k) /\ v = Upto(k + 1)
  BY Zenon
<1>5. PICK d \in Int : d = PaidOut(op.calls[k])
  <2>1. PaidOut(op.calls[k]) \in Nat
    BY PaidOutNat
  <2> QED BY <2>1
<1>6. /\ \A i \in S : u[i] = IF i < k THEN PaidOut(op.calls[i]) ELSE 0
      /\ \A i \in S : v[i] = IF i < k + 1 THEN PaidOut(op.calls[i]) ELSE 0
  BY <1>4
<1>7. \A i \in S : i # k => (i < k + 1 <=> i < k)
  BY <1>1
<1>8. \A i \in S : i # k => v[i] = u[i]
  BY <1>6, <1>7
<1>9. v[k] = u[k] + d
  <2>0. k \in Nat
    BY <1>1
  <2>1. ~(k < k) /\ k < k + 1
    BY <2>0
  <2>2. u[k] = 0 /\ v[k] = d
    BY <1>1, <1>5, <1>6, <2>1, Zenon
  <2> QED BY <2>2
<1>10. u \in [S -> Nat] /\ v \in [S -> Nat]
  <2>1. \A n : Upto(n) \in [S -> Nat]
    BY <1>2
  <2> QED BY <1>4, <2>1
<1>11. IsFiniteSet(S) /\ k \in S
  BY <1>1
<1> HIDE DEF Upto
<1>12. SumFunction(v) = SumFunction(u) + d
  BY <1>8, <1>9, <1>10, <1>11, TotalUpdate
<1> QED BY <1>3, <1>4, <1>5, <1>12

\* What an operation may have cost is never more than its outlay, never more than
\* the prefund before the execution, and never less in it.
LEMMA CostRange ==
    ASSUME NEW loop, NEW b \in Seq(Ops), NEW n \in Nat, NEW k \in Nat, NEW i \in DOMAIN b
    PROVE  /\ Cost(loop, b, n, k, i) \in Nat /\ Outlay(b[i]) \in Nat
           /\ Cost(loop, b, n, k, i) <= Outlay(b[i])
           /\ loop = "validate" => Cost(loop, b, n, k, i) <= RequiredPreFund
           /\ loop # "validate" => RequiredPreFund <= Cost(loop, b, n, k, i)
<1>1. b[i] \in Ops /\ i \in Nat /\ k <= k /\ RequiredPreFund \in Nat
  BY PreFundAssumption
<1>2. PICK p \in Nat, o \in Nat : /\ p = PaidBefore(b[i], k) /\ o = Outlay(b[i])
                                  /\ RequiredPreFund + p <= o
  BY <1>1, PaidBeforeGrows, Zenon
<1>3. Cost(loop, b, n, k, i) =
         IF loop = "validate" THEN (IF i < n THEN RequiredPreFund ELSE 0)
         ELSE IF i < n THEN o
         ELSE IF i = n THEN RequiredPreFund + p
         ELSE RequiredPreFund
  BY <1>2 DEF Cost
<1> QED BY <1>1, <1>2, <1>3

\* The costs are natural numbers.
LEMMA CostsOfType ==
    ASSUME NEW loop, NEW b \in Seq(Ops), NEW n \in Nat, NEW k \in Nat, NEW a
    PROVE  /\ CostsOf(loop, b, n, k, a) \in [DOMAIN b -> Nat]
           /\ IsFiniteSet(DOMAIN b)
           /\ Charge(loop, b, n, k, a) \in Nat
<1>1. \A i \in DOMAIN b : Cost(loop, b, n, k, i) \in Nat
  BY CostRange
<1>2. CostsOf(loop, b, n, k, a) \in [DOMAIN b -> Nat]
  BY <1>1 DEF CostsOf
<1>3. IsFiniteSet(DOMAIN b)
  BY Indices
<1> QED BY <1>2, <1>3, TotalNat DEF Charge

\* If no operation has cost less, no account is charged less.
LEMMA ChargeGrows ==
    ASSUME NEW l, NEW m, NEW b \in Seq(Ops), NEW n \in Nat, NEW o \in Nat, NEW j \in Nat,
           NEW k \in Nat, NEW a,
           \A i \in DOMAIN b : Cost(l, b, n, j, i) <= Cost(m, b, o, k, i)
    PROVE  Charge(l, b, n, j, a) <= Charge(m, b, o, k, a)
<1>1. PICK f, g : f = CostsOf(l, b, n, j, a) /\ g = CostsOf(m, b, o, k, a)
  OBVIOUS
<1>2. f \in [DOMAIN b -> Nat] /\ g \in [DOMAIN b -> Nat] /\ IsFiniteSet(DOMAIN b)
  BY <1>1, CostsOfType, Zenon
<1>3. \A i \in DOMAIN b : f[i] <= g[i]
  BY <1>1 DEF CostsOf
<1>4. SumFunction(f) <= SumFunction(g)
  BY <1>2, <1>3, TotalMonotone
<1> QED BY <1>1, <1>4 DEF Charge

\* Only the x-th operation has cost more, by d.
CostsMore(l, n, j, m, o, k, b, x, d) ==
    /\ \A i \in DOMAIN b : i # x => Cost(m, b, o, k, i) = Cost(l, b, n, j, i)
    /\ Cost(m, b, o, k, x) = Cost(l, b, n, j, x) + d

\* Then its account is charged that.
LEMMA ChargeStep ==
    ASSUME NEW l, NEW m, NEW b \in Batches, NEW n \in Nat, NEW o \in Nat, NEW j \in Nat,
           NEW k \in Nat, NEW x \in DOMAIN b, NEW d \in Int,
           CostsMore(l, n, j, m, o, k, b, x, d)
    PROVE  Charge(m, b, o, k, b[x].sender) = Charge(l, b, n, j, b[x].sender) + d
<1>1. PICK a, f, g : /\ a = b[x].sender
                     /\ f = CostsOf(l, b, n, j, a) /\ g = CostsOf(m, b, o, k, a)
  OBVIOUS
<1>2. f \in [DOMAIN b -> Nat] /\ g \in [DOMAIN b -> Nat] /\ IsFiniteSet(DOMAIN b)
  BY <1>1, CostsOfType, Zenon DEF Batches
<1>3. \A i \in DOMAIN b : i # x => g[i] = f[i]
  BY <1>1 DEF CostsOf, CostsMore
<1>4. g[x] = f[x] + d
  BY <1>1 DEF CostsOf, CostsMore
<1>5. PICK S, z : S = DOMAIN b /\ z = x
  OBVIOUS
<1>6. f \in [S -> Nat] /\ g \in [S -> Nat]
  BY <1>2, <1>5
<1>7. IsFiniteSet(S) /\ z \in S
  BY <1>2, <1>5
<1>8. (\A y \in S : y # z => g[y] = f[y]) /\ g[z] = f[z] + d
  BY <1>3, <1>4, <1>5
<1>9. SumFunction(g) = SumFunction(f) + d
  BY <1>6, <1>7, <1>8, TotalUpdate
<1> QED BY <1>1, <1>9 DEF Charge

\* Nothing an account owns has moved.
LEMMA WorthStays ==
    ASSUME NEW x \in Balances, NEW y \in Balances, NEW d \in Deposits, NEW f \in Deposits,
           NEW a \in Accounts, y[a] = x[a], \A e \in EntryPoints : f[e][a] = d[e][a]
    PROVE  Worth(y, f, a) = Worth(x, d, a)
<1>1. [e \in EntryPoints |-> f[e][a]] = [e \in EntryPoints |-> d[e][a]]
  OBVIOUS
<1> QED BY <1>1 DEF Worth

\* The state that Covered speaks of.
MoneyOK ==
    /\ eth \in Balances /\ deposit \in Deposits
    /\ phase # "idle" =>
          /\ bundle \in Batches /\ at \in Nat /\ at \in DOMAIN bundle /\ pc \in Nat
          /\ saved.eth \in Balances /\ saved.deposit \in Deposits
    /\ pc # 0 => inner.eth \in Balances /\ inner.deposit \in Deposits

\* What the lemmas on money need to know of the types.
LEMMA MoneyTyped == IInv /\ Typed => MoneyOK
<1> SUFFICES ASSUME IInv, Typed PROVE MoneyOK
  OBVIOUS
<1>1. eth \in Balances /\ deposit \in Deposits
  BY WholeVars DEF Typed, VarsTyped, Balances, Deposits
<1>2. phase # "idle" => bundle \in Batches /\ at \in Nat /\ at \in DOMAIN bundle /\ pc \in Nat
  BY DEF IInv, FrameOK, Batches
<1>3. phase # "idle" => saved.eth \in Balances /\ saved.deposit \in Deposits
  BY Zenon DEF Typed, Whole, StateType, Balances, Deposits
<1>4. pc # 0 => inner.eth \in Balances /\ inner.deposit \in Deposits
  BY Zenon DEF Typed, Whole, StateType, Balances, Deposits
<1> QED BY <1>1, <1>2, <1>3, <1>4 DEF MoneyOK

\* What an account owns, owned and may have spent are numbers.
LEMMA MoneyNat ==
    ASSUME MoneyOK, phase # "idle", NEW a \in Accounts
    PROVE  /\ Worth(eth, deposit, a) \in Nat /\ Worth(saved.eth, saved.deposit, a) \in Nat
           /\ pc # 0 => Worth(inner.eth, inner.deposit, a) \in Nat
           /\ Charge(phase, bundle, at, pc, a) \in Nat /\ Charge(phase, bundle, at, 0, a) \in Nat
<1>1. Worth(eth, deposit, a) \in Nat /\ Worth(saved.eth, saved.deposit, a) \in Nat
  BY WorthNat DEF MoneyOK
<1>2. pc # 0 => Worth(inner.eth, inner.deposit, a) \in Nat
  BY WorthNat DEF MoneyOK
<1>3. bundle \in Seq(Ops) /\ at \in Nat /\ pc \in Nat /\ 0 \in Nat
  BY DEF MoneyOK, Batches
<1>4. Charge(phase, bundle, at, pc, a) \in Nat /\ Charge(phase, bundle, at, 0, a) \in Nat
  BY <1>3, CostsOfType, Zenon
<1> QED BY <1>1, <1>2, <1>4

\* Who owned w, at least b less the charge c, and now owns no less is still covered
\* when the charge has not become smaller.
LEMMA StillCovers ==
    ASSUME NEW w \in Nat, NEW v \in Nat, NEW b \in Nat, NEW c \in Nat, NEW g \in Nat,
           w >= b - c, v >= w, c <= g
    PROVE  v >= b - g
OBVIOUS

\* Nobody has less, and the EntryPoint has not moved on.
LEMMA RicherCovered ==
    ASSUME MoneyOK, MoneyOK', Covered, UNCHANGED <<phase, bundle, at, saved, pc, inner>>,
           \A a \in Accounts : Worth(eth', deposit', a) >= Worth(eth, deposit, a)
    PROVE  Covered'
<1> SUFFICES ASSUME phase # "idle", NEW a \in Accounts
             PROVE  /\ Worth(eth', deposit', a)
                         >= Worth(saved.eth, saved.deposit, a) - Charge(phase, bundle, at, pc, a)
                    /\ pc # 0 =>
                          Worth(inner.eth, inner.deposit, a)
                            >= Worth(saved.eth, saved.deposit, a)
                                 - Charge(phase, bundle, at, 0, a)
  BY Zenon DEF Covered
<1>1. /\ Worth(eth, deposit, a)
           >= Worth(saved.eth, saved.deposit, a) - Charge(phase, bundle, at, pc, a)
      /\ pc # 0 =>
            Worth(inner.eth, inner.deposit, a)
              >= Worth(saved.eth, saved.deposit, a) - Charge(phase, bundle, at, 0, a)
  BY Zenon DEF Covered
<1>2. /\ Worth(eth, deposit, a) \in Nat /\ Worth(saved.eth, saved.deposit, a) \in Nat
      /\ Charge(phase, bundle, at, pc, a) \in Nat
  BY MoneyNat, Zenon
<1>3. Worth(eth', deposit', a) \in Nat /\ Worth(eth', deposit', a) >= Worth(eth, deposit, a)
  BY WorthNat DEF MoneyOK
<1>4. Charge(phase, bundle, at, pc, a) <= Charge(phase, bundle, at, pc, a)
  BY <1>2
<1>5. Worth(eth', deposit', a)
        >= Worth(saved.eth, saved.deposit, a) - Charge(phase, bundle, at, pc, a)
  BY <1>1, <1>2, <1>3, <1>4, StillCovers, Zenon
<1> QED BY <1>1, <1>5, Zenon

\* What is added to one deposit makes nobody poorer.
LEMMA AddedWorth ==
    ASSUME NEW x \in Balances, NEW d \in Deposits, NEW f \in Deposits,
           NEW e \in EntryPoints, NEW s \in Accounts, NEW r \in Nat, NEW v,
           v = d[e][s] + r, f = [d EXCEPT ![e][s] = v], NEW a \in Accounts
    PROVE  Worth(x, f, a) >= Worth(x, d, a)
<1>1. PICK p, q : /\ p = [o \in EntryPoints |-> d[o][a]]
                  /\ q = [o \in EntryPoints |-> f[o][a]]
  BY Zenon
<1>2. p \in [EntryPoints -> Nat] /\ q \in [EntryPoints -> Nat] /\ x[a] \in Nat
  BY <1>1 DEF Deposits, Balances
<1>3. \A o \in EntryPoints : p[o] <= q[o]
  BY <1>1 DEF Deposits
<1>4. SumFunction(p) <= SumFunction(q) /\ SumFunction(p) \in Nat /\ SumFunction(q) \in Nat
  BY <1>2, <1>3, AccountsAssumption, TotalMonotone, TotalNat
<1>5. Worth(x, d, a) = x[a] + SumFunction(p) /\ Worth(x, f, a) = x[a] + SumFunction(q)
  BY <1>1 DEF Worth
<1> QED BY <1>2, <1>4, <1>5

\* Registry, factory, guardians and donors take nothing from anybody.
LEMMA ForeignCovered ==
    ASSUME MoneyOK, MoneyOK', Typed, Covered,
           \/ \E e \in EntryPoints : updateRegistryAddress("entryPoint", e)
           \/ updateRegistryAddress("p256Verifier", "P256V")
           \/ \E a \in Accounts :
                 \/ createAccount(a) \/ receiveEther(a) \/ addDeposit(a)
                 \/ \E g \in Guardians, key \in Keys : guardianTransfersOwnership(g, a, key)
    PROVE  Covered'
<1>0. /\ eth \in Balances /\ deposit \in Deposits /\ eth' \in Balances /\ deposit' \in Deposits
      /\ \A a \in Accounts : Worth(eth, deposit, a) \in Nat
  BY WorthNat, Zenon DEF MoneyOK
<1>1. ASSUME UNCHANGED <<eth, deposit, phase, bundle, at, saved, pc, inner>> PROVE Covered'
  <2>1. \A a \in Accounts : Worth(eth', deposit', a) >= Worth(eth, deposit, a)
    BY <1>0, <1>1
  <2> QED BY <1>1, <2>1, RicherCovered
<1>2. ASSUME NEW a \in Accounts, receiveEther(a) PROVE Covered'
  <2>1. /\ eth' = [eth EXCEPT ![a] = @ + 1]
        /\ UNCHANGED <<deposit, phase, bundle, at, saved, pc, inner>>
    BY <1>2 DEF receiveEther, book, frame, run
  <2>2. ASSUME NEW b \in Accounts PROVE Worth(eth', deposit', b) >= Worth(eth, deposit, b)
    <3>1. Worth(eth, deposit, b) \in Nat /\ eth[b] \in Nat /\ eth'[b] \in Nat
      BY <1>0 DEF Balances
    <3>2. eth'[b] >= eth[b]
      BY <1>0, <2>1 DEF Balances
    <3>3. Worth(eth', deposit', b) = Worth(eth, deposit, b) - eth[b] + eth'[b]
      <4>1. PICK n \in Nat : n = SumFunction([e \in EntryPoints |-> deposit[e][b]])
        <5> DEFINE f == [e \in EntryPoints |-> deposit[e][b]]
        <5>1. f \in [EntryPoints -> Nat]
          BY <1>0 DEF Deposits
        <5>2. SumFunction(f) \in Nat
          BY <5>1, AccountsAssumption, TotalNat, Zenon
        <5> QED BY <5>2
      <4>2. Worth(eth', deposit', b) = eth'[b] + n /\ Worth(eth, deposit, b) = eth[b] + n
        BY <2>1, <4>1 DEF Worth
      <4> QED BY <3>1, <4>2
    <3> QED BY <3>1, <3>2, <3>3
  <2> QED BY <2>1, <2>2, RicherCovered, Zenon
<1>3. ASSUME NEW a \in Accounts, addDeposit(a) PROVE Covered'
  <2>1. /\ deposit' = [deposit EXCEPT ![entryPoint][a] = @ + 1] /\ entryPoint # Null
        /\ UNCHANGED <<eth, phase, bundle, at, saved, pc, inner>>
    BY <1>3 DEF addDeposit, frame, run, acct
  <2>2. entryPoint \in EntryPoints
    BY <2>1, WholeVars DEF Typed, VarsTyped, Registries, entryPoint
  <2>3. PICK e \in EntryPoints : e = entryPoint
    BY <2>2
  <2>4. PICK v : v = deposit[e][a] + 1 /\ deposit' = [deposit EXCEPT ![e][a] = v]
    BY <2>1, <2>3, Zenon
  <2>5. \A b \in Accounts : Worth(eth, deposit', b) >= Worth(eth, deposit, b)
    BY <1>0, <2>4, AddedWorth, Zenon
  <2> QED BY <2>1, <2>5, RicherCovered, Zenon
<1>4. ASSUME \/ \E e \in EntryPoints : updateRegistryAddress("entryPoint", e)
             \/ updateRegistryAddress("p256Verifier", "P256V")
             \/ \E a \in Accounts : createAccount(a)
             \/ \E a \in Accounts, g \in Guardians, key \in Keys :
                   guardianTransfersOwnership(g, a, key)
      PROVE  UNCHANGED <<eth, deposit, phase, bundle, at, saved, pc, inner>>
  BY <1>4, Zenon DEF updateRegistryAddress, createAccount, guardianTransfersOwnership, book,
                     frame, run
<1> QED BY <1>1, <1>2, <1>3, <1>4

\* A call takes from its account what it pays out, and from the others nothing.
LEMMA OwnWorth ==
    ASSUME IInv, Typed, MoneyOK, MoneyOK',
           \/ addGuardian \/ removeGuardian \/ transferOwnership \/ upgradeTo
           \/ withdrawDepositTo \/ addOwnDeposit \/ pay
    PROVE  /\ Worth(eth', deposit', Op.sender)
                = Worth(eth, deposit, Op.sender) - PaidOut(Op.calls[pc])
           /\ \A a \in Accounts \ {Op.sender} :
                 Worth(eth', deposit', a) = Worth(eth, deposit, a)
<1> DEFINE s == Op.sender
           Moved(out) ==
             /\ Worth(eth', deposit', s) = Worth(eth, deposit, s) - out
             /\ \A a \in Accounts \ {s} : Worth(eth', deposit', a) = Worth(eth, deposit, a)
<1>0. eth \in Balances /\ deposit \in Deposits /\ eth' \in Balances /\ deposit' \in Deposits
  BY Zenon DEF MoneyOK
<1>1. \E fn : Calling(fn)
  BY DEF addGuardian, removeGuardian, transferOwnership, upgradeTo, withdrawDepositTo,
         addOwnDeposit, pay
<1>2. s \in Accounts /\ pc # 0 /\ ep \in EntryPoints
  BY <1>1, CallingWithin DEF IInv, FrameOK
<1>3. PICK e \in EntryPoints : e = entryPoint
  BY <1>2 DEF Typed, entryPoint
<1>4. Worth(eth, deposit, s) \in Nat
  BY <1>0, <1>2, WorthNat
\* From the entries of the two tables to what the accounts own.
<1>5. ASSUME NEW m \in Int, NEW n \in Int, eth'[s] = eth[s] + m,
             deposit'[e][s] = deposit[e][s] + n,
             \A o \in EntryPoints : o # e => deposit'[o][s] = deposit[o][s],
             \A a \in Accounts \ {s} : eth'[a] = eth[a],
             \A a \in Accounts \ {s} : \A o \in EntryPoints : deposit'[o][a] = deposit[o][a]
      PROVE  Moved(0 - (m + n))
  <2>1. s \in Accounts
    BY <1>2
  <2>2. eth'[s] = eth[s] + m /\ deposit'[e][s] = deposit[e][s] + n
    BY <1>5
  <2>3. \A o \in EntryPoints : o # e => deposit'[o][s] = deposit[o][s]
    BY <1>5
  <2>4. eth[s] \in Nat /\ deposit[e][s] \in Nat
    BY <1>0, <2>1 DEF Balances, Deposits
  <2>5. Worth(eth', deposit', s)
          = Worth(eth, deposit, s) + (eth'[s] - eth[s]) + (deposit'[e][s] - deposit[e][s])
    BY <1>0, <2>1, <2>3, WorthMoves, SMTT(60)
  <2>6. Worth(eth', deposit', s) = Worth(eth, deposit, s) - (0 - (m + n))
    BY <1>4, <2>2, <2>4, <2>5
  <2>7. \A a \in Accounts \ {s} : Worth(eth', deposit', a) = Worth(eth, deposit, a)
    BY <1>0, <1>5, WorthStays, Zenon
  <2> QED BY <2>6, <2>7, Zenon
<1>6. ASSUME addGuardian \/ removeGuardian \/ transferOwnership \/ upgradeTo
      PROVE  PaidOut(Op.calls[pc]) = 0 /\ Moved(0)
  <2>1. UNCHANGED <<eth, deposit>>
    BY <1>6 DEF addGuardian, removeGuardian, transferOwnership, upgradeTo
  <2>2. Op.calls[pc].fn \in {"addGuardian", "removeGuardian", "transferOwnership", "upgradeTo"}
    BY <1>6, Zenon DEF addGuardian, removeGuardian, transferOwnership, upgradeTo, Calling
  <2>3. PaidOut(Op.calls[pc]) = 0
    BY <2>2 DEF PaidOut
  <2>4. Worth(eth', deposit', s) = Worth(eth, deposit, s) - 0
    BY <1>4, <2>1
  <2> QED BY <2>1, <2>3, <2>4
<1>7. ASSUME withdrawDepositTo
      PROVE  PaidOut(Op.calls[pc]) = Arg /\ Moved(Arg)
  <2>1. Calling("withdrawDepositTo") /\ Arg \in Nat
    BY <1>7, ArgTyped DEF withdrawDepositTo
  <2>2. deposit' = [deposit EXCEPT ![e][s] = @ - Arg] /\ UNCHANGED eth
    BY <1>3, <1>7 DEF withdrawDepositTo
  <2>3. PICK m \in Int, n \in Int : m = 0 /\ n = 0 - Arg
    BY <2>1
  <2>4. /\ eth'[s] = eth[s] + m /\ deposit'[e][s] = deposit[e][s] + n
        /\ \A o \in EntryPoints : o # e => deposit'[o][s] = deposit[o][s]
        /\ \A a \in Accounts \ {s} : eth'[a] = eth[a]
        /\ \A a \in Accounts \ {s} : \A o \in EntryPoints : deposit'[o][a] = deposit[o][a]
    BY <1>0, <1>2, <2>1, <2>2, <2>3 DEF Balances, Deposits
  <2>5. Moved(0 - (m + n))
    BY <1>5, <2>4, Zenon
  <2>6. 0 - (m + n) = Arg
    BY <2>1, <2>3
  <2>7. PaidOut(Op.calls[pc]) = Arg
    BY <2>1 DEF Calling, PaidOut, Arg
  <2> QED BY <2>5, <2>6, <2>7
<1>8. ASSUME addOwnDeposit
      PROVE  PaidOut(Op.calls[pc]) = 0 /\ Moved(0)
  <2>1. Calling("addDeposit") /\ Arg \in Nat
    BY <1>8, ArgTyped DEF addOwnDeposit
  <2>2. eth' = [eth EXCEPT ![s] = @ - Arg] /\ deposit' = [deposit EXCEPT ![e][s] = @ + Arg]
    BY <1>3, <1>8 DEF addOwnDeposit
  <2>3. PICK m \in Int, n \in Int : m = 0 - Arg /\ n = Arg
    BY <2>1
  <2>4. /\ eth'[s] = eth[s] + m /\ deposit'[e][s] = deposit[e][s] + n
        /\ \A o \in EntryPoints : o # e => deposit'[o][s] = deposit[o][s]
        /\ \A a \in Accounts \ {s} : eth'[a] = eth[a]
        /\ \A a \in Accounts \ {s} : \A o \in EntryPoints : deposit'[o][a] = deposit[o][a]
    BY <1>0, <1>2, <2>1, <2>2, <2>3 DEF Balances, Deposits
  <2>5. Moved(0 - (m + n))
    BY <1>5, <2>4, Zenon
  <2>6. 0 - (m + n) = 0
    BY <2>1, <2>3
  <2>7. PaidOut(Op.calls[pc]) = 0
    BY <2>1 DEF Calling, PaidOut
  <2> QED BY <2>5, <2>6, <2>7
<1>9. ASSUME pay
      PROVE  PaidOut(Op.calls[pc]) = Arg /\ Moved(Arg)
  <2>1. Calling("pay") /\ Arg \in Nat
    BY <1>9, ArgTyped, Zenon DEF pay
  <2>2. eth' = [eth EXCEPT ![s] = @ - Arg] /\ UNCHANGED deposit
    BY <1>9 DEF pay
  <2>3. PICK m \in Int, n \in Int : m = 0 - Arg /\ n = 0
    BY <2>1
  <2>4. /\ eth'[s] = eth[s] + m /\ deposit'[e][s] = deposit[e][s] + n
        /\ \A o \in EntryPoints : o # e => deposit'[o][s] = deposit[o][s]
        /\ \A a \in Accounts \ {s} : eth'[a] = eth[a]
        /\ \A a \in Accounts \ {s} : \A o \in EntryPoints : deposit'[o][a] = deposit[o][a]
    BY <1>0, <1>2, <2>1, <2>2, <2>3 DEF Balances, Deposits
  <2>5. Moved(0 - (m + n))
    BY <1>5, <2>4, Zenon
  <2>6. 0 - (m + n) = Arg
    BY <2>1, <2>3
  <2>7. PaidOut(Op.calls[pc]) = Arg
    BY <2>1 DEF Calling, PaidOut, Arg
  <2> QED BY <2>5, <2>6, <2>7
<1> QED BY <1>6, <1>7, <1>8, <1>9, Zenon

\* The running operation is charged with what its call has paid out.
LEMMA OwnCovered ==
    ASSUME IInv, Typed, MoneyOK, MoneyOK', Covered,
           \/ addGuardian \/ removeGuardian \/ transferOwnership \/ upgradeTo
           \/ withdrawDepositTo \/ addOwnDeposit \/ pay
    PROVE  Covered'
<1> DEFINE Base(a) == Worth(saved.eth, saved.deposit, a)
<1>1. PICK fn : Calling(fn) /\ Returned
  BY Zenon DEF addGuardian, removeGuardian, transferOwnership, upgradeTo, withdrawDepositTo,
         addOwnDeposit, pay
<1>2. /\ phase = "execute" /\ Op \in Ops /\ Op.sender \in Accounts /\ pc \in DOMAIN Op.calls
      /\ pc # 0 /\ pc \in Nat /\ Op = bundle[at]
  BY <1>1, ArgTyped, CallingWithin, CurrentOp, Zenon DEF Calling, IInv, FrameOK
<1>3. pc' = pc + 1 /\ UNCHANGED <<phase, bundle, at, saved, inner>>
  BY <1>1 DEF Returned, frame
<1>4. bundle \in Batches /\ bundle \in Seq(Ops) /\ at \in Nat /\ at \in DOMAIN bundle
  BY <1>2 DEF MoneyOK, Batches
<1>5. PICK k \in Nat : k = pc + 1
  BY <1>2
<1>6. PICK d \in Nat : d = PaidOut(Op.calls[pc])
  BY <1>2, PaidOutNat
<1>7. CostsMore("execute", at, pc, "execute", at, k, bundle, at, d)
  <2>1. \A i \in DOMAIN bundle : i # at =>
           Cost("execute", bundle, at, k, i) = Cost("execute", bundle, at, pc, i)
    BY DEF Cost
  <2>2. PICK p \in Nat : p = PaidBefore(Op, pc)
    BY <1>2, PaidBeforeGrows
  <2>3. PaidBefore(Op, k) = p + d
    BY <1>2, <1>5, <1>6, <2>2, PaidByCall
  <2>4. Cost("execute", bundle, at, pc, at) = RequiredPreFund + p
    BY <1>2, <1>4, <2>2 DEF Cost
  <2>5. Cost("execute", bundle, at, k, at) = RequiredPreFund + (p + d)
    BY <1>2, <1>4, <2>3 DEF Cost
  <2>6. Cost("execute", bundle, at, k, at) = Cost("execute", bundle, at, pc, at) + d
    BY <2>4, <2>5, PreFundAssumption
  <2> QED BY <2>1, <2>6 DEF CostsMore
<1>8. Charge("execute", bundle, at, k, Op.sender)
        = Charge("execute", bundle, at, pc, Op.sender) + d
  <2>1. d \in Int /\ bundle[at].sender = Op.sender
    BY <1>2
  <2>2. bundle \in Batches /\ at \in Nat /\ at \in DOMAIN bundle /\ pc \in Nat
    BY <1>2, <1>4
  <2> QED BY <1>7, <2>1, <2>2, ChargeStep
<1>9. \A a : Charge("execute", bundle, at, pc, a) <= Charge("execute", bundle, at, k, a)
  <2>1. \A i \in DOMAIN bundle :
           Cost("execute", bundle, at, pc, i) <= Cost("execute", bundle, at, k, i)
    <3> SUFFICES ASSUME NEW i \in DOMAIN bundle
                 PROVE  Cost("execute", bundle, at, pc, i) <= Cost("execute", bundle, at, k, i)
      OBVIOUS
    <3>1. Cost("execute", bundle, at, pc, i) \in Nat
      BY <1>2, <1>4, CostRange
    <3> QED BY <1>7, <3>1 DEF CostsMore
  <2> QED BY <1>2, <1>4, <2>1, ChargeGrows, Zenon
<1>10. ASSUME NEW a \in Accounts
       PROVE  Worth(eth', deposit', a) >= Base(a) - Charge("execute", bundle, at, k, a)
  <2>1. Worth(eth, deposit, a) >= Base(a) - Charge("execute", bundle, at, pc, a)
    BY <1>2 DEF Covered
  <2>2. /\ Worth(eth, deposit, a) \in Nat /\ Base(a) \in Nat
        /\ Charge("execute", bundle, at, pc, a) \in Nat
    BY <1>2, MoneyNat, Zenon
  <2>3. Charge("execute", bundle, at, k, a) \in Nat
    BY <1>4, CostsOfType, Zenon
  <2>4. /\ a = Op.sender => Worth(eth', deposit', a) = Worth(eth, deposit, a) - d
        /\ a # Op.sender => Worth(eth', deposit', a) = Worth(eth, deposit, a)
    BY <1>6, OwnWorth, SMTT(30)
  <2> HIDE DEF Base
  <2>5. CASE a = Op.sender
    BY <1>8, <2>1, <2>2, <2>3, <2>4, <2>5, SMTT(30)
  <2>6. CASE a # Op.sender
    BY <1>9, <2>1, <2>2, <2>3, <2>4, <2>6, SMTT(30)
  <2> QED BY <2>5, <2>6
<1>11. \A a \in Accounts :
          Worth(inner.eth, inner.deposit, a) >= Base(a) - Charge("execute", bundle, at, 0, a)
  BY <1>2, Zenon DEF Covered
<1> QED BY <1>2, <1>3, <1>5, <1>10, <1>11, Zenon DEF Covered

\* At the start of a transaction nobody has lost anything.
LEMMA SubmitCovered ==
    ASSUME IInv, MoneyOK, MoneyOK', NEW e \in EntryPoints, NEW ops \in Bundles,
           submitBundle(e, ops)
    PROVE  Covered'
<1>1. /\ phase = "idle" /\ phase' = "validate" /\ bundle' = ops /\ at' = 1 /\ saved' = Snapshot
      /\ UNCHANGED <<eth, deposit, pc, inner>>
  BY DEF submitBundle, handleOps, book, acct, run
<1>2. saved'.eth = eth /\ saved'.deposit = deposit /\ pc = 0
  BY <1>1, Zenon DEF Snapshot, IInv, FrameOK
<1>3. ASSUME NEW a \in Accounts
      PROVE  Worth(eth, deposit, a) >= Worth(eth, deposit, a) - Charge("validate", ops, 1, 0, a)
  <2>1. Worth(eth, deposit, a) \in Nat
    BY WorthNat, Zenon DEF MoneyOK
  <2>2. Charge("validate", ops, 1, 0, a) \in Nat
    BY BundleType, CostsOfType, Zenon
  <2> QED BY <2>1, <2>2
<1> QED BY <1>1, <1>2, <1>3, Zenon DEF Covered

\* The EntryPoint calls the account.
LEMMA BeginCovered ==
    ASSUME MoneyOK, MoneyOK', Covered, executeBegins
    PROVE  Covered'
<1>1. /\ phase = "execute" /\ pc = 0 /\ pc' = 1 /\ inner' = Snapshot
      /\ UNCHANGED <<eth, deposit, phase, bundle, at, saved>>
  BY DEF executeBegins, book, frame, acct
<1>2. inner'.eth = eth /\ inner'.deposit = deposit
  BY <1>1, Zenon DEF Snapshot
<1>3. bundle \in Seq(Ops) /\ at \in Nat
  BY <1>1 DEF MoneyOK, Batches
<1>4. \A i \in DOMAIN bundle :
         Cost("execute", bundle, at, 0, i) <= Cost("execute", bundle, at, 1, i)
  <2> SUFFICES ASSUME NEW i \in DOMAIN bundle
               PROVE  Cost("execute", bundle, at, 0, i) <= Cost("execute", bundle, at, 1, i)
    OBVIOUS
  <2>1. bundle[i] \in Ops
    BY <1>3
  <2>2. /\ PaidBefore(bundle[i], 0) \in Nat /\ PaidBefore(bundle[i], 1) \in Nat
        /\ PaidBefore(bundle[i], 0) <= PaidBefore(bundle[i], 1) /\ Outlay(bundle[i]) \in Nat
    BY <2>1, PaidBeforeGrows
  <2> QED BY <2>2, PreFundAssumption DEF Cost
<1>5. ASSUME NEW a \in Accounts
      PROVE  /\ Worth(eth, deposit, a)
                  >= Worth(saved.eth, saved.deposit, a) - Charge("execute", bundle, at, 0, a)
             /\ Worth(eth, deposit, a)
                  >= Worth(saved.eth, saved.deposit, a) - Charge("execute", bundle, at, 1, a)
  <2>1. Worth(eth, deposit, a)
          >= Worth(saved.eth, saved.deposit, a) - Charge("execute", bundle, at, 0, a)
    BY <1>1, Zenon DEF Covered
  <2>2. /\ Worth(eth, deposit, a) \in Nat /\ Worth(saved.eth, saved.deposit, a) \in Nat
        /\ Charge("execute", bundle, at, 0, a) \in Nat
    BY <1>1, MoneyNat, Zenon
  <2>3. Charge("execute", bundle, at, 1, a) \in Nat
    BY <1>3, CostsOfType, Zenon
  <2>4. Charge("execute", bundle, at, 0, a) <= Charge("execute", bundle, at, 1, a)
    BY <1>3, <1>4, ChargeGrows
  <2> QED BY <2>1, <2>2, <2>3, <2>4
<1> QED BY <1>1, <1>2, <1>5, Zenon DEF Covered

\* An operation that is validated costs its account the prefund, whether the
\* account had it deposited or paid it now.
LEMMA ValidateCovered ==
    ASSUME IInv, Typed, MoneyOK, MoneyOK', Covered, validateUserOp
    PROVE  Covered'
<1> DEFINE s == Op.sender
           Base(a) == Worth(saved.eth, saved.deposit, a)
<1>0. /\ eth \in Balances /\ deposit \in Deposits /\ eth' \in Balances /\ deposit' \in Deposits
      /\ s \in Accounts /\ ep \in EntryPoints
  BY CurrentOp, Zenon DEF MoneyOK, IInv, FrameOK, validateUserOp
<1>1. phase = "validate" /\ pc = 0
  BY DEF validateUserOp, IInv, FrameOK
<1>2. /\ UNCHANGED <<bundle, saved, pc, inner>>
      /\ \/ phase' = "execute" /\ at' = 1
         \/ phase' = "validate" /\ at' = at + 1
  BY <1>1 DEF validateUserOp, validatePrepayment, run
<1>3. /\ bundle \in Batches /\ bundle \in Seq(Ops) /\ at \in Nat /\ at \in DOMAIN bundle
      /\ s = bundle[at].sender
  BY <1>1, Zenon DEF MoneyOK, Batches, Op
<1>4. PICK n \in Nat, r \in Int : n = at + 1 /\ r = RequiredPreFund
  <2>1. at \in Nat
    BY <1>3
  <2>2. at + 1 \in Nat /\ RequiredPreFund \in Int
    BY <2>1, PreFundAssumption
  <2> QED BY <2>2, Zenon
\* What the accounts own.
<1>5. Worth(eth', deposit', s) = Worth(eth, deposit, s) - r
  <2>1. PICK p \in Int : p = Prefund(s) /\ p <= eth[s]
    BY PrefundFits
  <2>2. /\ eth' = [eth EXCEPT ![s] = eth[s] - p]
        /\ deposit' = [deposit EXCEPT ![ep][s] = deposit[ep][s] + p - r]
    BY <1>4, <2>1, PrefundFits
  <2>3. eth[s] \in Nat /\ deposit[ep][s] \in Nat /\ deposit[ep][s] + p - r \in Int
    BY <1>0 DEF Balances, Deposits
  <2>4. PICK m \in Int, o \in Int : m = 0 - p /\ o = p - r
    OBVIOUS
  <2>5. eth'[s] = eth[s] + m
    BY <1>0, <2>2, <2>3, <2>4 DEF Balances
  <2>6. deposit'[ep][s] = deposit[ep][s] + o
    BY <1>0, <2>2, <2>3, <2>4 DEF Deposits
  <2>7. \A e \in EntryPoints : e # ep => deposit'[e][s] = deposit[e][s]
    BY <1>0, <2>2 DEF Deposits
  <2>8. Worth(eth', deposit', s)
          = Worth(eth, deposit, s) + (eth'[s] - eth[s]) + (deposit'[ep][s] - deposit[ep][s])
    BY <1>0, <2>7, WorthMoves, SMTT(60)
  <2>9. Worth(eth, deposit, s) \in Nat
    BY <1>0, WorthNat
  <2>10. eth'[s] - eth[s] = m /\ deposit'[ep][s] - deposit[ep][s] = o
    BY <2>3, <2>5, <2>6
  <2> QED BY <2>4, <2>8, <2>9, <2>10
<1>6. \A a \in Accounts \ {s} : Worth(eth', deposit', a) = Worth(eth, deposit, a)
  <2>1. \A a \in Accounts \ {s} : eth'[a] = eth[a]
    BY <1>0, PrefundFits DEF Balances
  <2>2. \A a \in Accounts \ {s} : \A e \in EntryPoints : deposit'[e][a] = deposit[e][a]
    <3>1. PICK v : deposit' = [deposit EXCEPT ![ep][s] = v]
      BY PrefundFits
    <3> QED BY <1>0, <3>1 DEF Deposits
  <2> QED BY <1>0, <2>1, <2>2, WorthStays, Zenon
\* What they are charged.
<1>7. CostsMore("validate", at, 0, "validate", n, 0, bundle, at, r)
  <2>1. \A i \in DOMAIN bundle : i \in Nat
    BY <1>3
  <2>2. \A i \in DOMAIN bundle : i # at => (i < n <=> i < at)
    BY <1>3, <1>4, <2>1
  <2>3. at < n /\ ~(at < at)
    BY <1>3, <1>4
  <2>4. \A i \in DOMAIN bundle : i # at =>
           Cost("validate", bundle, n, 0, i) = Cost("validate", bundle, at, 0, i)
    BY <2>2 DEF Cost
  <2>5. Cost("validate", bundle, n, 0, at) = Cost("validate", bundle, at, 0, at) + r
    BY <1>4, <2>3 DEF Cost
  <2> QED BY <2>4, <2>5 DEF CostsMore
<1>8. Charge("validate", bundle, n, 0, s) = Charge("validate", bundle, at, 0, s) + r
  <2>1. bundle \in Batches /\ at \in Nat /\ at \in DOMAIN bundle /\ s = bundle[at].sender
    BY <1>3
  <2> QED BY <1>7, <2>1, ChargeStep
<1>9. \A a : Charge("validate", bundle, at, 0, a) <= Charge("validate", bundle, n, 0, a)
  <2>1. \A i \in DOMAIN bundle :
           Cost("validate", bundle, at, 0, i) <= Cost("validate", bundle, n, 0, i)
    BY <1>3, <1>4, PreFundAssumption DEF Cost
  <2> QED BY <1>3, <2>1, ChargeGrows, Zenon
<1>10. \A a : Charge("validate", bundle, n, 0, a) <= Charge(phase', bundle, at', 0, a)
  <2>1. CASE phase' = "validate" /\ at' = at + 1
    <3>1. \A a : Charge("validate", bundle, n, 0, a) \in Nat
      BY <1>3, CostsOfType, Zenon
    <3> QED BY <1>4, <2>1, <3>1
  <2>2. CASE phase' = "execute" /\ at' = 1
    <3>1. \A i \in DOMAIN bundle :
             Cost("validate", bundle, n, 0, i) <= Cost("execute", bundle, 1, 0, i)
      <4> SUFFICES ASSUME NEW i \in DOMAIN bundle
                   PROVE  Cost("validate", bundle, n, 0, i) <= Cost("execute", bundle, 1, 0, i)
        OBVIOUS
      <4>1. /\ Cost("validate", bundle, n, 0, i) \in Nat
            /\ Cost("validate", bundle, n, 0, i) <= RequiredPreFund
        BY <1>3, CostRange
      <4>2. /\ Cost("execute", bundle, 1, 0, i) \in Nat
            /\ RequiredPreFund <= Cost("execute", bundle, 1, 0, i)
        BY <1>3, CostRange
      <4> QED BY <4>1, <4>2, PreFundAssumption
    <3> QED BY <1>3, <2>2, <3>1, ChargeGrows, Zenon
  <2> QED BY <1>2, <2>1, <2>2
<1>11. ASSUME NEW a \in Accounts
       PROVE  Worth(eth', deposit', a) >= Base(a) - Charge(phase', bundle, at', 0, a)
  <2>1. Worth(eth, deposit, a) >= Base(a) - Charge("validate", bundle, at, 0, a)
    BY <1>1, Zenon DEF Covered
  <2>2. /\ Worth(eth, deposit, a) \in Nat /\ Base(a) \in Nat
        /\ Charge("validate", bundle, at, 0, a) \in Nat
    BY <1>1, MoneyNat, Zenon
  <2>3. /\ Charge("validate", bundle, n, 0, a) \in Nat
        /\ Charge(phase', bundle, at', 0, a) \in Nat
    <3>1. at' \in Nat
      BY <1>2, <1>3
    <3> QED BY <1>3, <3>1, CostsOfType, Zenon
  <2>4. Charge("validate", bundle, n, 0, a) <= Charge(phase', bundle, at', 0, a)
    BY <1>10
  <2> HIDE DEF Base
  <2>5. CASE a = s
    BY <1>5, <1>8, <2>1, <2>2, <2>3, <2>4, <2>5
  <2>6. CASE a # s
    <3>1. Worth(eth', deposit', a) = Worth(eth, deposit, a)
      BY <1>6, <2>6
    <3>2. Charge("validate", bundle, at, 0, a) <= Charge("validate", bundle, n, 0, a)
      BY <1>9
    <3> QED BY <2>1, <2>2, <2>3, <2>4, <3>1, <3>2
  <2> QED BY <2>5, <2>6
<1> QED BY <1>1, <1>2, <1>11, Zenon DEF Covered

\* An operation is over: the refund is a gain, and from now on it is charged with
\* its whole outlay.  x and d are the balances and deposits after its call, or
\* before it if it was undone; k is the call it had reached then.
LEMMA SettleCovered ==
    ASSUME IInv, MoneyOK, MoneyOK', phase = "execute", pc' = 0,
           NEW x \in Balances, NEW d \in Deposits, NEW k \in Nat, NEW cost \in GasCosts,
           settle(d, Op.sender, cost), eth' = x,
           \A a \in Accounts :
              Worth(x, d, a)
                >= Worth(saved.eth, saved.deposit, a) - Charge("execute", bundle, at, k, a)
    PROVE  Covered'
<1> DEFINE s == Op.sender
           Base(a) == Worth(saved.eth, saved.deposit, a)
<1> SUFFICES ASSUME phase' # "idle" PROVE Covered'
  BY Zenon DEF Covered
<1>0. eth' \in Balances /\ deposit' \in Deposits /\ s \in Accounts /\ ep \in EntryPoints
  BY CurrentOp, Zenon DEF MoneyOK, IInv, FrameOK
<1>1. UNCHANGED <<phase, bundle, saved>> /\ at' = at + 1
  BY DEF settle, Close
<1>2. bundle \in Seq(Ops) /\ at \in Nat
  BY Zenon DEF MoneyOK, Batches
<1>3. PICK n \in Nat : n = at + 1
  BY <1>2
<1>4. \A a : Charge("execute", bundle, at, k, a) <= Charge("execute", bundle, n, 0, a)
  <2>1. \A i \in DOMAIN bundle :
           Cost("execute", bundle, at, k, i) <= Cost("execute", bundle, n, 0, i)
    <3> SUFFICES ASSUME NEW i \in DOMAIN bundle
                 PROVE  Cost("execute", bundle, at, k, i) <= Cost("execute", bundle, n, 0, i)
      OBVIOUS
    <3>1. i \in Nat
      BY <1>2
    <3>2. /\ Cost("execute", bundle, at, k, i) \in Nat
          /\ Cost("execute", bundle, at, k, i) <= Outlay(bundle[i])
      BY <1>2, CostRange
    <3>3. /\ Cost("execute", bundle, n, 0, i) \in Nat
          /\ RequiredPreFund <= Cost("execute", bundle, n, 0, i)
      BY <1>2, CostRange
    <3>4. CASE i < n
      BY <3>2, <3>4 DEF Cost
    <3>5. CASE ~(i < n)
      <4>1. ~(i < at) /\ i # at
        BY <1>2, <1>3, <3>1, <3>5
      <4>2. Cost("execute", bundle, at, k, i) = RequiredPreFund
        BY <4>1 DEF Cost
      <4> QED BY <3>2, <3>3, <4>2
    <3> QED BY <3>4, <3>5
  <2> QED BY <1>2, <2>1, ChargeGrows
<1>5. ASSUME NEW a \in Accounts
      PROVE  Worth(eth', deposit', a) >= Worth(x, d, a) /\ Worth(eth', deposit', a) \in Nat
  <2>1. PICK r \in Nat : r = RequiredPreFund - cost
    BY PreFundAssumption DEF GasCosts
  <2>2. PICK v : v = d[ep][s] + r /\ deposit' = [d EXCEPT ![ep][s] = v]
    BY <2>1, Zenon DEF settle
  <2>3. Worth(x, deposit', a) >= Worth(x, d, a)
    BY <1>0, <2>2, AddedWorth, Zenon
  <2> QED BY <1>0, <2>3, WorthNat
<1>6. ASSUME NEW a \in Accounts
      PROVE  Worth(eth', deposit', a) >= Base(a) - Charge("execute", bundle, n, 0, a)
  <2>1. /\ Charge("execute", bundle, at, k, a) \in Nat
        /\ Charge("execute", bundle, n, 0, a) \in Nat
    BY <1>2, CostsOfType, Zenon
  <2>2. Worth(x, d, a) \in Nat /\ Base(a) \in Nat
    BY WorthNat, Zenon DEF MoneyOK
  <2>3. Worth(x, d, a) >= Base(a) - Charge("execute", bundle, at, k, a)
    OBVIOUS
  <2>4. Charge("execute", bundle, at, k, a) <= Charge("execute", bundle, n, 0, a)
    BY <1>4
  <2>5. Worth(eth', deposit', a) >= Worth(x, d, a) /\ Worth(eth', deposit', a) \in Nat
    BY <1>5
  <2> HIDE DEF Base
  <2> QED BY <2>1, <2>2, <2>3, <2>4, <2>5, StillCovers, Zenon
<1> QED BY <1>1, <1>3, <1>6, Zenon DEF Covered

\* Every step keeps the accounts covered.
LEMMA NextCovered ==
    ASSUME IInv, Typed, MoneyOK, MoneyOK', Covered, [Next]_vars
    PROVE  Covered'
<1>1. ASSUME NEW e \in EntryPoints, NEW ops \in Bundles, submitBundle(e, ops)
      PROVE  Covered'
  BY <1>1, SubmitCovered
<1>2. ASSUME validateUserOp \/ executeBegins
      PROVE  Covered'
  BY <1>2, ValidateCovered, BeginCovered
<1>3. ASSUME validationFails
      PROVE  Covered'
  BY <1>3, Zenon DEF validationFails, RevertBundle, Close, Covered
<1>4. ASSUME executeRefused \/ executeReturns
      PROVE  Covered'
  <2>1. PICK cost \in GasCosts : settle(deposit, Op.sender, cost)
    BY <1>4 DEF executeRefused, executeReturns
  <2>2. phase = "execute" /\ pc' = 0 /\ eth' = eth
    BY <1>4 DEF executeRefused, executeReturns, acct, run
  <2>3. eth \in Balances /\ deposit \in Deposits /\ pc \in Nat
    BY <2>2 DEF MoneyOK
  <2>4. \A a \in Accounts :
           Worth(eth, deposit, a)
             >= Worth(saved.eth, saved.deposit, a) - Charge("execute", bundle, at, pc, a)
    BY <2>2, Zenon DEF Covered
  <2> QED BY <2>1, <2>2, <2>3, <2>4, SettleCovered
<1>5. ASSUME executeReverts
      PROVE  Covered'
  <2>1. PICK cost \in GasCosts : settle(inner.deposit, Op.sender, cost)
    BY <1>5 DEF executeReverts
  <2>2. phase = "execute" /\ pc # 0
    BY <1>5, RevertsWithin DEF executeReverts
  <2>3. pc' = 0 /\ eth' = inner.eth
    BY <1>5 DEF executeReverts, RestoreAccounts
  <2>4. inner.eth \in Balances /\ inner.deposit \in Deposits /\ 0 \in Nat
    BY <2>2, Zenon DEF MoneyOK
  <2>5. \A a \in Accounts :
           Worth(inner.eth, inner.deposit, a)
             >= Worth(saved.eth, saved.deposit, a) - Charge("execute", bundle, at, 0, a)
    BY <2>2, Zenon DEF Covered
  <2> QED BY <2>1, <2>2, <2>3, <2>4, <2>5, SettleCovered, Zenon
<1>6. ASSUME UNCHANGED vars
      PROVE  Covered'
  BY <1>6, Zenon DEF vars, book, frame, acct, run, Covered
<1> QED BY <1>1, <1>2, <1>3, <1>4, <1>5, <1>6, ForeignCovered, OwnCovered DEF Next

\* In a transaction an account loses, in ether and in deposits, no more than the
\* outlays of its own operations in the bundle: not by the operations of others,
\* by calls that are undone, by gifts that are undone with them, or by moving from
\* one EntryPoint to another between two calls.
THEOREM LossLimited == Spec => []LossBounded
<1>1. Init => Covered
  BY Zenon DEF Init, EPInit, Covered
<1>2. IInv /\ Typed => MoneyOK
  BY MoneyTyped
<1>3. (IInv /\ Typed => MoneyOK)'
  BY <1>2, PTL
<1>4. IInv /\ Typed /\ IInv' /\ Typed' /\ Covered /\ [Next]_vars => Covered'
  BY <1>2, <1>3, NextCovered
<1>5. ASSUME IInv, Typed, Covered PROVE LossBounded
  <2> SUFFICES ASSUME phase # "idle", NEW a \in Accounts
               PROVE  Wealth(Snapshot, a) >= Wealth(saved, a)
                        - SumFunction([i \in DOMAIN bundle |->
                              IF bundle[i].sender = a THEN Outlay(bundle[i]) ELSE 0])
    BY DEF LossBounded
  <2> DEFINE whole == [i \in DOMAIN bundle |->
                          IF bundle[i].sender = a THEN Outlay(bundle[i]) ELSE 0]
  <2>1. MoneyOK
    BY <1>2, <1>5
  <2>2. bundle \in Seq(Ops) /\ at \in Nat /\ pc \in Nat
    BY <2>1 DEF MoneyOK, Batches
  <2>3. /\ Wealth(Snapshot, a) = Worth(eth, deposit, a)
        /\ Wealth(saved, a) = Worth(saved.eth, saved.deposit, a)
    BY Zenon DEF Wealth, Worth, Snapshot
  <2>4. PICK f, g : f = CostsOf(phase, bundle, at, pc, a) /\ g = whole
    BY Zenon
  <2>5. /\ f \in [DOMAIN bundle -> Nat] /\ IsFiniteSet(DOMAIN bundle)
    BY <2>2, <2>4, CostsOfType, Zenon
  <2>6. \A i \in DOMAIN bundle :
           /\ Cost(phase, bundle, at, pc, i) <= Outlay(bundle[i])
           /\ Outlay(bundle[i]) \in Nat
    BY <2>2, CostRange
  <2>7. g \in [DOMAIN bundle -> Nat] /\ \A i \in DOMAIN bundle : f[i] <= g[i]
    BY <2>4, <2>6 DEF CostsOf
  <2>8. SumFunction(f) <= SumFunction(g) /\ SumFunction(f) \in Nat /\ SumFunction(g) \in Nat
    BY <2>5, <2>7, TotalMonotone, TotalNat
  <2>9. /\ Worth(eth, deposit, a)
             >= Worth(saved.eth, saved.deposit, a) - Charge(phase, bundle, at, pc, a)
        /\ Charge(phase, bundle, at, pc, a) = SumFunction(f)
    BY <1>5, <2>4, Zenon DEF Covered, Charge
  <2>10. Worth(eth, deposit, a) \in Nat /\ Worth(saved.eth, saved.deposit, a) \in Nat
    BY <2>1, MoneyNat
  <2>11. Worth(eth, deposit, a) >= Worth(saved.eth, saved.deposit, a) - SumFunction(g)
    BY <2>8, <2>9, <2>10
  <2> QED BY <2>3, <2>4, <2>11
<1> QED BY <1>1, <1>4, <1>5, Invariant, InitTyped, NextTyped, PTL DEF Spec

====
