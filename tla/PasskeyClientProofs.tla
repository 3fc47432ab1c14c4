------------------------ MODULE PasskeyClientProofs ------------------------
(***************************************************************************)
(* What runs of the client scripts may rely on, for any number of runs     *)
(* that overlap, any fees, any answers of the bundler, and any delays.     *)
(*                                                                         *)
(* The argument: whatever the order of steps, what a run submits was       *)
(* approved and signed with exactly the fields it is submitted with.  Two  *)
(* of these fields are read from the chain, and both nonces only grow; the *)
(* paymaster's nonce never grows without the account's.  So an operation   *)
(* whose approval has become void has a nonce that is behind as well.      *)
(***************************************************************************)
EXTENDS PasskeyClient, Sums

\* A function on the runs, with whatever values.
OnClients(f) == f = [c \in Clients |-> f[c]]

Fields == {"sender", "nonce", "initCode", "callData", "callGasLimit",
           "verificationGasLimit", "preVerificationGas", "maxFeePerGas",
           "maxPriorityFeePerGas", "paymasterAndData", "signature"}

\* The operation is written down, and has no tip in it.
Written(op) == op = [f \in Fields |-> op[f]] /\ op.maxPriorityFeePerGas = 0

\* Its nonce was read from the chain, when it was n or before.
Numbered(op, n) == Written(op) /\ op.nonce \in Nat /\ op.nonce <= n

\* The paymaster's key signed it at senderNonce m.
Approved(op, m) ==
    op.paymasterAndData.signature =
        [packed |-> pack(op), senderNonce |-> m,
         validUntil |-> op.paymasterAndData.validUntil,
         validAfter |-> op.paymasterAndData.validAfter]

\* It is approved and signed as it is, unless the chain has moved on.
Complete(op, n, m, s) ==
    /\ Numbered(op, n)
    /\ op.signature.message = message(op, ChainId(s))
    /\ op.nonce = n => Approved(op, m)

Ready(op) == Complete(op, nonce, senderNonce, script)

Executed(c) == \E a \in accepted : a.client = c

Shapes ==
    /\ script \in {"local", "arbitrumSepolia"}
    /\ nonce \in Nat /\ baseFee \in BaseFees
    /\ pc \in [Clients -> 1..7]
    /\ OnClients(userOp) /\ OnClients(outcome) /\ OnClients(tx)

\* What is known of the operation at every step of a run.
Building ==
    \A c \in Clients : outcome[c] = "running" =>
        /\ pc[c] \in 1..Len(Steps(script))
        /\ pc[c] = 2 => Written(userOp[c])
        /\ pc[c] > 2 => Numbered(userOp[c], nonce)
        /\ Steps(script)[pc[c]] = "handleOps" => Ready(userOp[c])

Sent ==
    \A c \in Clients :
        /\ tx[c].state = "sent" => Ready(tx[c].op)
        /\ tx[c].state = "mined" => Executed(c)

\* The inductive invariant.
IInv ==
    /\ Shapes /\ Building /\ Sent
    /\ CompletedMeansAccepted /\ PaysBaseFeeOnly

-----------------------------------------------------------------------------
(* The sequences of steps.                                                 *)

\* Which await follows which.
LEMMA StepNames ==
    ASSUME script \in {"local", "arbitrumSepolia"}
    PROVE  LET s == Steps(script) IN
           /\ Len(s) \in 5..7
           /\ \A i \in 1..Len(s) :
                 /\ s[i] = "getGasFee" <=> i = 1
                 /\ s[i] = "getNonce" <=> i = 2
                 /\ s[i] = "handleOps" => i > 3 /\ s[i - 1] = "getHash"
                 /\ s[i] = "wait" <=> i = Len(s)
<1>1. CASE script = "local"
  <2>1. Steps(script) = <<"getGasFee", "getNonce", "getHash", "handleOps", "wait">>
    BY <1>1 DEF Steps, runTransferPassKey
  <2> QED BY <2>1
<1>2. CASE script = "arbitrumSepolia"
  <2>1. Steps(script) = <<"getGasFee", "getNonce", "getHash", "bundlerEstimate",
                          "getHash", "handleOps", "wait">>
    BY <1>2 DEF Steps, runTransferPassKeyarb
  <2> QED BY <2>1
<1> QED BY <1>1, <1>2

\* One entry of a function on the runs changes.
LEMMA ChangedEntry ==
    ASSUME NEW f, OnClients(f), NEW c \in Clients, NEW v
    PROVE  /\ OnClients([f EXCEPT ![c] = v])
           /\ [f EXCEPT ![c] = v][c] = v
           /\ \A d \in Clients \ {c} : [f EXCEPT ![c] = v][d] = f[d]
<1>1. DOMAIN f = Clients
  BY DEF OnClients
<1>2. [f EXCEPT ![c] = v] = [d \in Clients |-> IF d = c THEN v ELSE f[d]]
  BY <1>1, Zenon
<1> QED BY <1>2 DEF OnClients

-----------------------------------------------------------------------------
(* The helpers of the scripts.                                             *)

\* fillUserOpDefaults fills in nulls and nothing else.
LEMMA DefaultsKeepZero ==
    ASSUME NEW op, Written(op), nonce \in Nat, NEW o, NEW r,
           o = [op EXCEPT !.nonce = nonce], r = fillUserOpDefaults(o)
    PROVE  Numbered(r, nonce)
<1>1. DOMAIN DefaultsForUserOp = Fields
  BY DEF DefaultsForUserOp, Fields
<1>2. r = [f \in Fields |-> IF o[f] = Null THEN DefaultsForUserOp[f] ELSE o[f]]
  BY <1>1 DEF fillUserOpDefaults
<1>3. "nonce" \in Fields /\ "maxPriorityFeePerGas" \in Fields
  BY DEF Fields
<1>4. DOMAIN op = Fields /\ op["maxPriorityFeePerGas"] = 0
  BY DEF Written
<1>5. o["nonce"] = nonce /\ o["maxPriorityFeePerGas"] = 0
  BY <1>3, <1>4
<1>6. nonce # Null /\ 0 # Null
  BY NullAssumption
<1>7. r["nonce"] = nonce /\ r["maxPriorityFeePerGas"] = 0
  BY <1>2, <1>3, <1>5, <1>6, Zenon
<1>8. r = [f \in Fields |-> r[f]]
  BY <1>2
<1> QED BY <1>7, <1>8 DEF Numbered, Written

\* Approval and signature are over the operation as it is then.
LEMMA SignedAsIs ==
    ASSUME NEW o, Numbered(o, nonce), NEW w, NEW op, NEW r,
           op = [o EXCEPT !.paymasterAndData = hexConcat(w, getHash(o, w))],
           r = [op EXCEPT !.signature =
                   [layout |-> "rs", message |-> message(op, ChainId(script))]]
    PROVE  Ready(r)
<1>1. {"nonce", "maxPriorityFeePerGas", "paymasterAndData", "signature"} \subseteq Fields
  BY DEF Fields
<1>2. o = [f \in Fields |-> o[f]] /\ DOMAIN o = Fields
  BY DEF Numbered, Written
<1>3. /\ op = [f \in Fields |-> IF f = "paymasterAndData" THEN hexConcat(w, getHash(o, w))
                                ELSE o[f]]
      /\ DOMAIN op = Fields
  BY <1>1, <1>2
<1>4. /\ r = [f \in Fields |-> IF f = "signature"
                 THEN [layout |-> "rs", message |-> message(op, ChainId(script))] ELSE op[f]]
      /\ DOMAIN r = Fields
  BY <1>1, <1>3, Zenon
<1>5. /\ r["nonce"] = o["nonce"] /\ r["maxPriorityFeePerGas"] = o["maxPriorityFeePerGas"]
      /\ r["paymasterAndData"] = hexConcat(w, getHash(o, w))
      /\ r["signature"] = [layout |-> "rs", message |-> message(op, ChainId(script))]
  BY <1>1, <1>3, <1>4
<1>6. packUserOp(r) = packUserOp(op)
  BY <1>3, <1>4 DEF packUserOp
<1>7. pack(r) = pack(o)
  BY <1>2, <1>3, <1>4, Zenon DEF pack
<1>8. Numbered(r, nonce)
  <2>1. r = [f \in Fields |-> r[f]]
    BY <1>4, Zenon
  <2> QED BY <1>5, <2>1, Zenon DEF Numbered, Written
<1>9. r.signature.message = message(r, ChainId(script))
  BY <1>5, <1>6 DEF message
<1>10. Approved(r, senderNonce)
  <2>1. /\ r.paymasterAndData.validUntil = w.validUntil
        /\ r.paymasterAndData.validAfter = w.validAfter
        /\ r.paymasterAndData.signature = getHash(o, w)
    BY <1>5 DEF hexConcat
  <2> QED BY <1>7, <2>1 DEF Approved, getHash
<1> QED BY <1>8, <1>9, <1>10 DEF Complete, Ready

\* New limits of the bundler leave tip and nonce alone.
LEMMA LimitsKept ==
    ASSUME NEW o, Numbered(o, nonce), NEW a, NEW b, NEW d, NEW r,
           r = [o EXCEPT !.callGasLimit = a, !.verificationGasLimit = b,
                         !.preVerificationGas = d]
    PROVE  Numbered(r, nonce)
<1>1. o = [f \in Fields |-> o[f]] /\ DOMAIN o = Fields
  BY DEF Numbered, Written
<1>2. r = [f \in Fields |-> IF f = "preVerificationGas" THEN d
                            ELSE IF f = "verificationGasLimit" THEN b
                            ELSE IF f = "callGasLimit" THEN a ELSE o[f]]
  BY <1>1, Zenon
<1>3. r["nonce"] = o["nonce"] /\ r["maxPriorityFeePerGas"] = o["maxPriorityFeePerGas"]
  BY <1>2 DEF Fields
<1>4. r = [f \in Fields |-> r[f]]
  BY <1>2, Zenon
<1> QED BY <1>3, <1>4, Zenon DEF Numbered, Written

-----------------------------------------------------------------------------
(* Kinds of steps.                                                         *)

\* A run gets an answer and goes on; what is known of its operation at the
\* next step holds.
Advances(c) ==
    /\ outcome[c] = "running" /\ pc[c] < Len(Steps(script)) /\ advance(c)
    /\ UNCHANGED <<script, baseFee, nonce, senderNonce, accepted, outcome>>
    /\ OnClients(userOp') /\ \A d \in Clients \ {c} : userOp'[d] = userOp[d]
    /\ pc[c] = 1 => Written(userOp'[c])
    /\ pc[c] # 1 => Numbered(userOp'[c], nonce)
    /\ Steps(script)[pc[c] + 1] = "handleOps" => Ready(userOp'[c])
    /\ OnClients(tx') /\ \A d \in Clients \ {c} : tx'[d] = tx[d]
    /\ tx'[c] = tx[c] \/ (tx'[c].state = "sent" /\ Ready(tx'[c].op))

\* A step that takes the run to its next await.
LEMMA GoesOn ==
    ASSUME IInv, NEW c \in Clients, Advances(c)
    PROVE  IInv'
<1> USE DEF Advances
<1>0. pc \in [Clients -> 1..7] /\ Len(Steps(script)) \in 5..7 /\ pc[c] \in 1..Len(Steps(script))
  BY StepNames DEF IInv, Shapes, Building
<1>1. /\ pc' \in [Clients -> 1..7] /\ pc'[c] = pc[c] + 1
      /\ \A d \in Clients \ {c} : pc'[d] = pc[d]
  BY <1>0 DEF advance
<1>2. Shapes'
  BY <1>1 DEF IInv, Shapes, OnClients
<1>3. Building'
  <2> SUFFICES ASSUME NEW d \in Clients, outcome'[d] = "running"
               PROVE  /\ pc'[d] \in 1..Len(Steps(script))
                      /\ pc'[d] = 2 => Written(userOp'[d])
                      /\ pc'[d] > 2 => Numbered(userOp'[d], nonce)
                      /\ Steps(script)[pc'[d]] = "handleOps" => Ready(userOp'[d])
    BY DEF Building, Ready, Steps
  <2>1. CASE d = c
    BY <1>0, <1>1, <2>1
  <2>2. CASE d # c
    BY <1>1, <2>2 DEF IInv, Building
  <2> QED BY <2>1, <2>2
<1>4. Sent'
  <2> SUFFICES ASSUME NEW d \in Clients
               PROVE  /\ tx'[d].state = "sent" => Ready(tx'[d].op)
                      /\ tx'[d].state = "mined" => Executed(d)
    BY DEF Sent, Ready, Executed
  <2> QED BY DEF IInv, Sent
<1>5. CompletedMeansAccepted' /\ PaysBaseFeeOnly'
  BY DEF IInv, CompletedMeansAccepted, PaysBaseFeeOnly
<1> QED BY <1>2, <1>3, <1>4, <1>5 DEF IInv

\* A run ends.
LEMMA Ends ==
    ASSUME IInv, NEW c \in Clients, NEW how, how # "running", exit(c, how),
           how = "completed" => Executed(c)
    PROVE  IInv'
<1>1. /\ outcome' = [outcome EXCEPT ![c] = how] /\ pc' = [pc EXCEPT ![c] = 1]
      /\ userOp' = [userOp EXCEPT ![c] = Null]
      /\ UNCHANGED <<script, baseFee, nonce, senderNonce, accepted, tx>>
  BY DEF exit, env, time, contracts
<1>2. pc' \in [Clients -> 1..7] /\ \A d \in Clients \ {c} : pc'[d] = pc[d]
  BY <1>1 DEF IInv, Shapes
<1>3. OnClients(userOp') /\ \A d \in Clients \ {c} : userOp'[d] = userOp[d]
  BY <1>1, ChangedEntry, Zenon DEF IInv, Shapes, OnClients
<1>4. /\ OnClients(outcome') /\ outcome'[c] = how
      /\ \A d \in Clients \ {c} : outcome'[d] = outcome[d]
  BY <1>1, ChangedEntry, Zenon DEF IInv, Shapes, OnClients
<1>5. Shapes'
  BY <1>1, <1>2, <1>3, <1>4 DEF IInv, Shapes, OnClients
<1>6. Building'
  <2> SUFFICES ASSUME NEW d \in Clients, outcome'[d] = "running"
               PROVE  /\ pc'[d] \in 1..Len(Steps(script))
                      /\ pc'[d] = 2 => Written(userOp'[d])
                      /\ pc'[d] > 2 => Numbered(userOp'[d], nonce)
                      /\ Steps(script)[pc'[d]] = "handleOps" => Ready(userOp'[d])
    BY <1>1 DEF Building, Ready, Steps
  <2>1. d # c
    BY <1>4
  <2> QED BY <1>2, <1>3, <1>4, <2>1 DEF IInv, Building
<1>7. Sent' /\ PaysBaseFeeOnly'
  BY <1>1 DEF IInv, Sent, Ready, Executed, PaysBaseFeeOnly
<1>8. CompletedMeansAccepted'
  BY <1>1, <1>4 DEF IInv, CompletedMeansAccepted, Executed
<1> QED BY <1>5, <1>6, <1>7, <1>8 DEF IInv

\* The account's nonce moves on, and perhaps the paymaster's with it: what was
\* read before is out of date, and nothing else changes for the runs.
LEMMA MovesOn ==
    ASSUME IInv, nonce' = nonce + 1,
           UNCHANGED <<script, baseFee, pc, userOp, outcome>>,
           OnClients(tx'), accepted \subseteq accepted',
           \A d \in Clients : tx'[d] = tx[d] \/ (tx'[d].state = "mined" /\ Executed(d)'),
           \A a \in accepted' \ accepted : a.price <= a.baseFee
    PROVE  IInv'
<1>1. nonce \in Nat
  BY DEF IInv, Shapes
<1>2. \A op : Numbered(op, nonce) => Numbered(op, nonce')
  BY <1>1 DEF Numbered
<1>3. ASSUME NEW op, Ready(op) PROVE Complete(op, nonce', senderNonce', script)
  BY <1>1, <1>2, <1>3 DEF Ready, Complete, Numbered
<1>4. Shapes'
  BY <1>1 DEF IInv, Shapes, OnClients
<1>5. Building'
  <2> SUFFICES ASSUME NEW d \in Clients, outcome[d] = "running"
               PROVE  /\ pc[d] \in 1..Len(Steps(script))
                      /\ pc[d] = 2 => Written(userOp[d])
                      /\ pc[d] > 2 => Numbered(userOp[d], nonce')
                      /\ Steps(script)[pc[d]] = "handleOps" =>
                            Complete(userOp[d], nonce', senderNonce', script)
    BY DEF Building, Ready, Steps
  <2> QED BY <1>2, <1>3 DEF IInv, Building
<1>6. Sent'
  <2> SUFFICES ASSUME NEW d \in Clients
               PROVE  /\ tx'[d].state = "sent" =>
                            Complete(tx'[d].op, nonce', senderNonce', script)
                      /\ tx'[d].state = "mined" => Executed(d)'
    BY DEF Sent, Ready
  <2>1. CASE tx'[d] = tx[d]
    BY <1>3, <2>1 DEF IInv, Sent, Executed
  <2>2. CASE tx'[d].state = "mined" /\ Executed(d)'
    BY <2>2
  <2> QED BY <2>1, <2>2
<1>7. CompletedMeansAccepted' /\ PaysBaseFeeOnly'
  BY DEF IInv, CompletedMeansAccepted, PaysBaseFeeOnly
<1> QED BY <1>4, <1>5, <1>6, <1>7 DEF IInv

\* Nothing that the invariant is about changes, but that transactions may be
\* in a block without having had an effect.
LEMMA Stays ==
    ASSUME IInv,
           UNCHANGED <<script, nonce, senderNonce, accepted, pc, userOp, outcome>>,
           baseFee' \in BaseFees,
           OnClients(tx'), \A d \in Clients : tx'[d] = tx[d] \/ tx'[d].state = "reverted"
    PROVE  IInv'
<1>1. Shapes'
  BY DEF IInv, Shapes, OnClients
<1>2. Building'
  BY DEF IInv, Building, Ready, Steps
<1>3. Sent'
  <2> SUFFICES ASSUME NEW d \in Clients
               PROVE  /\ tx'[d].state = "sent" => Ready(tx'[d].op)
                      /\ tx'[d].state = "mined" => Executed(d)
    BY DEF Sent, Ready, Executed
  <2> QED BY DEF IInv, Sent
<1>4. CompletedMeansAccepted' /\ PaysBaseFeeOnly'
  BY DEF IInv, CompletedMeansAccepted, PaysBaseFeeOnly
<1> QED BY <1>1, <1>2, <1>3, <1>4 DEF IInv

-----------------------------------------------------------------------------
(* The actions.                                                            *)

\* At a step other than the last one there is one more.
LEMMA NotLast ==
    ASSUME IInv, NEW c \in Clients, NEW s, At(c, s), s # "wait"
    PROVE  /\ outcome[c] = "running" /\ pc[c] \in 1..7 /\ pc[c] < Len(Steps(script))
           /\ pc[c] + 1 \in 1..Len(Steps(script))
           /\ s = "getGasFee" <=> pc[c] = 1
           /\ s = "getNonce" <=> pc[c] = 2
           /\ Steps(script)[pc[c] + 1] = "handleOps" => s = "getHash"
<1>1. /\ outcome[c] = "running" /\ Steps(script)[pc[c]] = s
      /\ pc[c] \in 1..Len(Steps(script)) /\ script \in {"local", "arbitrumSepolia"}
  BY DEF At, IInv, Building, Shapes
<1>2. Len(Steps(script)) \in 5..7
  BY <1>1, StepNames
<1>3. pc[c] # Len(Steps(script))
  BY <1>1, StepNames
<1>4. pc[c] \in 1..7 /\ pc[c] + 1 \in 1..Len(Steps(script)) /\ (pc[c] + 1) - 1 = pc[c]
  BY <1>1, <1>2, <1>3
<1>5. Steps(script)[pc[c] + 1] = "handleOps" => Steps(script)[(pc[c] + 1) - 1] = "getHash"
  BY <1>1, <1>4, StepNames
<1> QED BY <1>1, <1>2, <1>3, <1>4, <1>5, StepNames

\* The steps in which an operation is built keep the inductive invariant.
LEMMA BuildIInv ==
    ASSUME IInv, NEW c \in Clients,
           buildOp(c) \/ readNonce(c) \/ approveAndSign(c) \/ bundlerEstimate(c)
    PROVE  IInv'
<1>1. /\ advance(c)
      /\ UNCHANGED <<script, baseFee, nonce, senderNonce, accepted, outcome,
                     tx>>
      /\ OnClients(userOp) /\ OnClients(tx) /\ nonce \in Nat
  BY Zenon DEF buildOp, readNonce, approveAndSign, bundlerEstimate, env, time, contracts,
         IInv, Shapes
<1>2. ASSUME NEW op, userOp' = [userOp EXCEPT ![c] = op]
      PROVE  /\ OnClients(userOp') /\ userOp'[c] = op
             /\ \A d \in Clients \ {c} : userOp'[d] = userOp[d]
  BY <1>1, <1>2, ChangedEntry DEF OnClients
<1>3. ASSUME  buildOp(c) PROVE Advances(c)
  <2>1. /\ outcome[c] = "running" /\ pc[c] = 1 /\ pc[c] < Len(Steps(script))
        /\ Steps(script)[pc[c] + 1] # "handleOps"
    BY <1>3, NotLast, Zenon DEF buildOp
  <2>2. PICK op : userOp' = [userOp EXCEPT ![c] = op] /\ Written(op)
    <3> DEFINE op == [sender |-> "account", nonce |-> Null, initCode |-> Null,
                      callData |-> "execute mint", callGasLimit |-> 1,
                      verificationGasLimit |-> getGasFee.verificationGasLimit,
                      preVerificationGas |-> 1,
                      maxFeePerGas |-> getGasFee.maxFeePerGas,
                      maxPriorityFeePerGas |-> getGasFee.maxPriorityFeePerGas,
                      paymasterAndData |-> Empty, signature |-> Empty]
    <3>1. userOp' = [userOp EXCEPT ![c] = op]
      BY <1>3, Zenon DEF buildOp
    <3>2. op.maxPriorityFeePerGas = 0
      BY DEF getGasFee
    <3>3. op = [f \in Fields |-> op[f]]
      BY Zenon DEF Fields
    <3>4. Written(op)
      BY <3>2, <3>3, Zenon DEF Written
    <3> QED BY <3>1, <3>4, Zenon
  <2> QED BY <1>1, <1>2, <2>1, <2>2, Zenon DEF Advances
<1>4. ASSUME  readNonce(c) PROVE Advances(c)
  <2>1. /\ outcome[c] = "running" /\ pc[c] = 2 /\ pc[c] < Len(Steps(script))
        /\ Steps(script)[pc[c] + 1] # "handleOps"
    BY <1>4, NotLast DEF readNonce
  <2>2. Written(userOp[c])
    BY <2>1 DEF IInv, Building
  <2>3. PICK op : userOp' = [userOp EXCEPT ![c] = op] /\ Numbered(op, nonce)
    <3>1. userOp' = [userOp EXCEPT ![c] = fillUserOpDefaults([userOp[c] EXCEPT !.nonce = nonce])]
      BY <1>4 DEF readNonce
    <3> QED BY <1>1, <2>2, <3>1, DefaultsKeepZero, Zenon
  <2>4. OnClients(userOp') /\ userOp'[c] = op /\ \A d \in Clients \ {c} : userOp'[d] = userOp[d]
    BY <1>2, <2>3, Zenon
  <2> QED BY <1>1, <2>1, <2>3, <2>4 DEF Advances
<1>5. ASSUME  approveAndSign(c) PROVE Advances(c)
  <2>1. outcome[c] = "running" /\ pc[c] \in 3..7 /\ pc[c] < Len(Steps(script))
    BY <1>5, NotLast DEF approveAndSign
  <2>2. Numbered(userOp[c], nonce)
    BY <2>1 DEF IInv, Building
  <2>3. PICK op : userOp' = [userOp EXCEPT ![c] = op] /\ Ready(op)
    <3> DEFINE o == [userOp[c] EXCEPT
                       !.paymasterAndData = hexConcat(window[c], getHash(userOp[c], window[c]))]
               r == [o EXCEPT !.signature =
                       [layout |-> "rs", message |-> message(o, ChainId(script))]]
    <3>1. userOp' = [userOp EXCEPT ![c] = r]
      BY <1>5 DEF approveAndSign
    <3>2. Ready(r)
      BY <2>2, SignedAsIs, Zenon
    <3> QED BY <3>1, <3>2, Zenon
  <2>4. Numbered(op, nonce)
    BY <2>3 DEF Ready, Complete
  <2>5. OnClients(userOp') /\ userOp'[c] = op /\ \A d \in Clients \ {c} : userOp'[d] = userOp[d]
    BY <1>2, <2>3, Zenon
  <2> QED BY <1>1, <2>1, <2>3, <2>4, <2>5 DEF Advances
<1>6. ASSUME  bundlerEstimate(c) PROVE Advances(c)
  <2>0. At(c, "bundlerEstimate")
    BY <1>6, Zenon DEF bundlerEstimate
  <2>1. /\ outcome[c] = "running" /\ pc[c] \in 3..7 /\ pc[c] < Len(Steps(script))
        /\ Steps(script)[pc[c] + 1] # "handleOps"
    BY <2>0, NotLast
  <2>2. Numbered(userOp[c], nonce)
    BY <2>1 DEF IInv, Building
  <2>3. PICK op : userOp' = [userOp EXCEPT ![c] = op] /\ Numbered(op, nonce)
    <3>1. PICK limits \in BundlerLimits :
             userOp' = [userOp EXCEPT ![c].callGasLimit = limits.callGasLimit,
                                      ![c].verificationGasLimit = limits.verificationGasLimit,
                                      ![c].preVerificationGas = limits.preVerificationGas]
      BY <1>6, Zenon DEF bundlerEstimate
    <3> DEFINE r == [userOp[c] EXCEPT !.callGasLimit = limits.callGasLimit,
                                      !.verificationGasLimit = limits.verificationGasLimit,
                                      !.preVerificationGas = limits.preVerificationGas]
    <3>2. userOp' = [userOp EXCEPT ![c] = r]
      BY <1>1, <3>1, Zenon DEF OnClients
    <3>3. Numbered(r, nonce)
      BY <2>2, LimitsKept, Zenon
    <3> QED BY <3>2, <3>3, Zenon
  <2>4. OnClients(userOp') /\ userOp'[c] = op /\ \A d \in Clients \ {c} : userOp'[d] = userOp[d]
    BY <1>2, <2>3, Zenon
  <2> QED BY <1>1, <2>1, <2>3, <2>4 DEF Advances
<1> QED BY <1>3, <1>4, <1>5, <1>6, GoesOn

\* Submission: an operation that would revert is not sent.
LEMMA SubmitIInv ==
    ASSUME IInv, NEW c \in Clients, submit(c) \/ submitFails(c)
    PROVE  IInv'
<1>1. /\ outcome[c] = "running" /\ pc[c] \in 3..7 /\ pc[c] < Len(Steps(script))
      /\ Steps(script)[pc[c] + 1] # "handleOps"
  <2>1. At(c, "handleOps")
    BY DEF submit, submitFails
  <2> QED BY <2>1, NotLast
<1>2. Ready(userOp[c]) /\ Numbered(userOp[c], nonce)
  BY DEF submit, submitFails, At, IInv, Building, Ready, Complete
<1>3. CASE submit(c)
  <2>1. /\ advance(c) /\ tx' = [tx EXCEPT ![c] = [state |-> "sent", op |-> userOp[c]]]
        /\ UNCHANGED <<script, baseFee, nonce, senderNonce, accepted, outcome,
                       userOp>>
    BY <1>3 DEF submit, env, time, contracts
  <2>2. OnClients(userOp) /\ OnClients(tx)
    BY DEF IInv, Shapes
  <2>3. /\ OnClients(tx') /\ tx'[c] = [state |-> "sent", op |-> userOp[c]]
        /\ \A d \in Clients \ {c} : tx'[d] = tx[d]
    BY <2>1, <2>2, ChangedEntry DEF OnClients
  <2>4. tx'[c].state = "sent" /\ tx'[c].op = userOp[c]
    <3>1. tx'[c] = [state |-> "sent", op |-> userOp[c]]
      BY <2>3
    <3> QED BY <3>1
  <2>5. Advances(c)
    BY <1>1, <1>2, <2>1, <2>2, <2>3, <2>4 DEF Advances
  <2> QED BY <2>5, GoesOn
<1>4. CASE submitFails(c)
  <2>1. exit(c, "failed")
    BY <1>4 DEF submitFails
  <2> QED BY <2>1, Ends
<1> QED BY <1>3, <1>4

\* A run ends after its transaction, or because a request failed.
LEMMA EndIInv ==
    ASSUME IInv, NEW c \in Clients, wait(c) \/ rpcFails(c)
    PROVE  IInv'
<1>1. PICK how : /\ exit(c, how) /\ how # "running"
                 /\ how = "completed" => tx[c].state = "mined"
  BY DEF wait, rpcFails
<1>2. how = "completed" => Executed(c)
  BY <1>1 DEF IInv, Sent
<1> QED BY <1>1, <1>2, Ends

\* A bundle of one is included: it is executed, or reverts.
LEMMA MineIInv ==
    ASSUME IInv, NEW c \in Clients, mine(c) \/ mineReverted(c)
    PROVE  IInv'
<1>1. OnClients(tx) /\ tx[c].state = "sent" /\ Ready(tx[c].op) /\ baseFee \in Nat
  BY BaseFeesAssumption DEF mine, mineReverted, include, IInv, Sent, Shapes
<1>2. CASE mine(c)
  <2> DEFINE entry == [client |-> c, price |-> gasPrice(tx[c].op), baseFee |-> baseFee]
  <2>1. /\ nonce' = nonce + 1
        /\ UNCHANGED <<script, baseFee, pc, userOp, outcome>>
        /\ accepted' = accepted \union {entry}
        /\ tx' = [tx EXCEPT ![c] = [NoTx EXCEPT !.state = "mined"]]
    BY <1>2 DEF mine, include, env, process
  <2>2. gasPrice(tx[c].op) <= baseFee
    <3>1. tx[c].op.maxPriorityFeePerGas = 0
      BY <1>1 DEF Ready, Complete, Numbered, Written
    <3> QED BY <1>1, <3>1 DEF gasPrice
  <2>3. entry.price <= entry.baseFee /\ entry.client = c
    BY <2>2
  <2>4. /\ OnClients(tx') /\ tx'[c] = [NoTx EXCEPT !.state = "mined"]
        /\ \A d \in Clients \ {c} : tx'[d] = tx[d]
    BY <1>1, <2>1, ChangedEntry DEF OnClients
  <2>5. tx'[c].state = "mined"
    BY <2>4 DEF NoTx
  <2> HIDE DEF entry
  <2>6. Executed(c)'
    BY <2>1, <2>3 DEF Executed
  <2>7. \A d \in Clients : tx'[d] = tx[d] \/ (tx'[d].state = "mined" /\ Executed(d)')
    BY <2>4, <2>5, <2>6, Zenon
  <2>8. accepted \subseteq accepted' /\ \A a \in accepted' \ accepted : a.price <= a.baseFee
    BY <2>1, <2>3
  <2> QED BY <2>1, <2>4, <2>7, <2>8, MovesOn
<1>3. CASE mineReverted(c)
  <2>1. /\ UNCHANGED <<script, baseFee, nonce, senderNonce, accepted, pc, userOp, outcome>>
        /\ tx' = [tx EXCEPT ![c] = [NoTx EXCEPT !.state = "reverted"]]
    BY <1>3 DEF mineReverted, include, env, contracts, process
  <2>3. /\ OnClients(tx') /\ tx'[c] = [NoTx EXCEPT !.state = "reverted"]
        /\ \A d \in Clients \ {c} : tx'[d] = tx[d]
    BY <1>1, <2>1, ChangedEntry DEF OnClients
  <2>4. tx'[c].state = "reverted"
    BY <2>3 DEF NoTx
  <2>5. \A d \in Clients : tx'[d] = tx[d] \/ tx'[d].state = "reverted"
    BY <2>3, <2>4, Zenon
  <2>6. baseFee' \in BaseFees
    BY <2>1 DEF IInv, Shapes
  <2> QED BY <2>1, <2>3, <2>5, <2>6, Stays
<1> QED BY <1>2, <1>3

\* The rest of the chain and the time go on.
LEMMA ChainIInv ==
    ASSUME IInv, otherOp \/ newBlock \/ tick \/ UNCHANGED vars
    PROVE  IInv'
<1>1. OnClients(tx)
  BY DEF IInv, Shapes
<1>2. CASE otherOp
  <2>1. /\ nonce' = nonce + 1
        /\ UNCHANGED <<script, baseFee, pc, userOp, outcome, tx, accepted>>
    BY <1>2 DEF otherOp, env, time, process
  <2> QED BY <1>1, <2>1, MovesOn
<1>3. CASE newBlock \/ tick \/ UNCHANGED vars
  <2>1. /\ UNCHANGED <<script, nonce, senderNonce, accepted, pc, userOp, outcome, tx>>
        /\ baseFee' \in BaseFees
    BY <1>3 DEF newBlock, tick, vars, env, time, contracts, process, IInv, Shapes
  <2> QED BY <1>1, <2>1, Stays
<1> QED BY <1>2, <1>3

\* The initial state.
LEMMA InitIInv == Init => IInv
<1> SUFFICES ASSUME Init PROVE IInv
  OBVIOUS
<1> USE DEF Init
<1>1. Shapes
  BY DEF Shapes, OnClients
<1>2. Building
  <2>1. 1 \in 1..Len(Steps(script)) /\ Steps(script)[1] = "getGasFee"
    BY StepNames
  <2> QED BY <2>1 DEF Building
<1>3. Sent
  BY DEF Sent, NoTx
<1>4. CompletedMeansAccepted /\ PaysBaseFeeOnly
  BY DEF CompletedMeansAccepted, PaysBaseFeeOnly
<1> QED BY <1>1, <1>2, <1>3, <1>4 DEF IInv

\* Every step preserves the inductive invariant.
LEMMA NextIInv == IInv /\ [Next]_vars => IInv'
BY BuildIInv, SubmitIInv, EndIInv, MineIInv, ChainIInv DEF Next, step

\* The inductive invariant holds in every reachable state.
THEOREM Invariant == Spec => []IInv
BY InitIInv, NextIInv, PTL DEF Spec

-----------------------------------------------------------------------------
(* The results.                                                            *)

\* What a run submits is signed with the fields it is submitted with, and its
\* approval is valid unless its nonce is behind: getHash and the passkey see the
\* operation after the bundler's limits, and senderNonce moves only in steps
\* that move the account's nonce.
THEOREM NothingUnsigned == Spec => []SubmittedAsSigned
<1>1. ASSUME IInv, NEW op, Ready(op) PROVE AsSigned(op)
  <2>1. /\ op.nonce \in Nat /\ op.nonce <= nonce /\ nonce \in Nat
        /\ op.signature.message = message(op, ChainId(script))
        /\ op.nonce = nonce => Approved(op, senderNonce)
    BY <1>1 DEF Ready, Complete, Numbered, IInv, Shapes
  <2>2. op.nonce = nonce => paymasterAccepts(op)
    BY <2>1 DEF Approved, paymasterAccepts, getHash
  <2> QED BY <2>1, <2>2 DEF AsSigned
<1>2. IInv => SubmittedAsSigned
  BY <1>1, Zenon DEF IInv, Building, Sent, SubmittedAsSigned, At
<1> QED BY <1>2, Invariant, PTL

\* A run that ends without an error has had its operation executed.
THEOREM CompletedRunsAccepted == Spec => []CompletedMeansAccepted
<1>1. IInv => CompletedMeansAccepted
  BY DEF IInv
<1> QED BY <1>1, Invariant, PTL

\* The paymaster pays the base fee of the block and no tip, for whatever base
\* fees: the zero of getGasFee survives fillUserOpDefaults.
THEOREM NoTipPaid == Spec => []PaysBaseFeeOnly
<1>1. IInv => PaysBaseFeeOnly
  BY DEF IInv
<1> QED BY <1>1, Invariant, PTL

-----------------------------------------------------------------------------
(* Types.  The history of accepted operations is as long as the            *)
(* paymaster's nonce because a run has one transaction, which is mined     *)
(* once; and the deposit covers the gas because the prefund that           *)
(* validation asked for is the largest bill there can be.                  *)

MaxFees == {2 * b : b \in BaseFees}

\* Gas limits and cap as getGasFee, the defaults or a bundler have set them.
Priced(op) ==
    /\ op.callGasLimit \in GasLimits
    /\ op.verificationGasLimit \in GasLimits \ {0}
    /\ op.preVerificationGas \in GasLimits
    /\ op.maxFeePerGas \in MaxFees

\* The defaults are filled in.
Filled(op) == Priced(op) /\ op.initCode = Empty

Chain ==
    /\ blockTime \in Nat /\ clock \in 1..MaxClock /\ blockTime <= clock
    /\ senderNonce \in Nat /\ deposit \in Nat
    /\ IsFiniteSet(accepted) /\ Cardinality(accepted) = senderNonce

Run(c) ==
    /\ outcome[c] \in {"running", "completed", "failed"}
    /\ pc[c] \in 1..Len(Steps(script))
    /\ tx[c].state \in {"none", "sent", "mined", "reverted"}
    /\ tx[c].state = "sent" => Filled(tx[c].op)
    /\ tx[c].state \in {"none", "sent"} => ~Executed(c)
    /\ outcome[c] = "running" =>
          /\ pc[c] < Len(Steps(script)) => tx[c].state = "none"
          /\ pc[c] = 2 => Priced(userOp[c]) /\ userOp[c].initCode = Null
          /\ pc[c] > 2 => Filled(userOp[c])

Typed == Chain /\ \A c \in Clients : Run(c)

\* Gas limits and fees are natural numbers, which null is not.
LEMMA Amounts ==
    /\ GasLimits \subseteq Nat /\ MaxFees \subseteq Nat
    /\ {1, 3, 10} \subseteq GasLimits /\ Null \notin GasLimits \union MaxFees
<1>1. GasLimits \subseteq Nat
  <2> SUFFICES ASSUME NEW g \in GasLimits PROVE g \in Nat
    OBVIOUS
  <2>1. CASE g \in {1, 3, 10}
    BY <2>1
  <2>2. ASSUME NEW l \in BundlerLimits,
               g \in {l.callGasLimit, l.verificationGasLimit, l.preVerificationGas}
        PROVE  g \in Nat
    <3>1. l \in [callGasLimit : Nat, verificationGasLimit : Nat \ {0}, preVerificationGas : Nat]
      BY LimitsAssumption
    <3> QED BY <2>2, <3>1
  <2> QED BY <2>1, <2>2 DEF GasLimits
<1>2. MaxFees \subseteq Nat
  BY BaseFeesAssumption DEF MaxFees
<1>3. {1, 3, 10} \subseteq GasLimits
  BY DEF GasLimits
<1> QED BY <1>1, <1>2, <1>3, NullAssumption, Zenon

\* What a bundler proposes are gas limits.
LEMMA Proposed ==
    ASSUME NEW l \in BundlerLimits
    PROVE  /\ l.callGasLimit \in GasLimits /\ l.preVerificationGas \in GasLimits
           /\ l.verificationGasLimit \in GasLimits \ {0}
<1>1. l.verificationGasLimit # 0
  BY LimitsAssumption
<1> QED BY <1>1 DEF GasLimits

\* The steps of a run change nothing of the chain and of other runs.
LEMMA OneRun ==
    ASSUME Typed, NEW c \in Clients, Run(c)',
           UNCHANGED <<script, clock, blockTime, senderNonce, deposit, accepted>>,
           \A d \in Clients \ {c} :
              /\ outcome'[d] = outcome[d] /\ pc'[d] = pc[d]
              /\ tx'[d] = tx[d] /\ userOp'[d] = userOp[d]
    PROVE  Typed'
<1>1. Chain'
  BY DEF Typed, Chain
<1>2. ASSUME NEW d \in Clients PROVE Run(d)'
  <2>1. CASE d = c
    BY <2>1
  <2>2. CASE d # c
    BY <2>2 DEF Typed, Run, Executed, Steps
  <2> QED BY <2>1, <2>2
<1> QED BY <1>1, <1>2 DEF Typed

\* A run goes on from a step before the last one.
LEMMA RunGoesOn ==
    ASSUME IInv, Typed, NEW c \in Clients, outcome[c] = "running",
           pc[c] < Len(Steps(script)), advance(c),
           pc[c] = 1 => Priced(userOp'[c]) /\ userOp'[c].initCode = Null,
           pc[c] # 1 => Filled(userOp'[c]),
           UNCHANGED <<script, clock, blockTime, senderNonce, deposit, accepted, outcome>>,
           \A d \in Clients \ {c} : userOp'[d] = userOp[d] /\ tx'[d] = tx[d],
           \/ tx'[c] = tx[c] /\ pc[c] + 1 < Len(Steps(script))
           \/ /\ tx'[c].state = "sent" /\ Filled(tx'[c].op)
              /\ pc[c] + 1 = Len(Steps(script))
    PROVE  Typed'
<1>1. pc \in [Clients -> 1..7] /\ Len(Steps(script)) \in 5..7
  BY StepNames, Zenon DEF IInv, Shapes
<1>2. pc'[c] = pc[c] + 1 /\ \A d \in Clients \ {c} : pc'[d] = pc[d]
  BY <1>1 DEF advance
<1>3. tx[c].state = "none" /\ ~Executed(c)
  BY DEF Typed, Run
<1>4. Run(c)'
  <2>1. /\ outcome'[c] = "running" /\ pc'[c] \in 1..Len(Steps(script)')
        /\ ~Executed(c)' /\ Len(Steps(script)') = Len(Steps(script))
    BY <1>1, <1>2, <1>3, SMTT(30) DEF Executed, Steps
  <2>2. /\ pc'[c] = 2 => Priced(userOp'[c]) /\ userOp'[c].initCode = Null
        /\ pc'[c] > 2 => Filled(userOp'[c])
    <3>1. pc[c] \in 1..7 /\ pc'[c] = pc[c] + 1
      BY <1>1, <1>2, Zenon
    <3>2. (pc'[c] = 2 => pc[c] = 1) /\ (pc'[c] > 2 => pc[c] # 1)
      BY <3>1
    <3> QED BY <3>2, Zenon
  <2>3. /\ tx'[c].state \in {"none", "sent"}
        /\ tx'[c].state = "sent" => Filled(tx'[c].op)
        /\ pc'[c] < Len(Steps(script)) => tx'[c].state = "none"
    BY <1>1, <1>2, <1>3
  <2> QED BY <2>1, <2>2, <2>3, Zenon DEF Run, Filled, Priced
<1> QED BY <1>2, <1>4, OneRun, Zenon

\* The steps in which an operation is built give it limits, a cap and, with
\* the nonce, the defaults.
LEMMA BuildTyped ==
    ASSUME IInv, Typed, NEW c \in Clients,
           buildOp(c) \/ readNonce(c) \/ approveAndSign(c) \/ bundlerEstimate(c)
    PROVE  Typed'
<1>0. ASSUME NEW op, userOp' = [userOp EXCEPT ![c] = op]
      PROVE  userOp'[c] = op /\ \A d \in Clients \ {c} : userOp'[d] = userOp[d]
  BY <1>0, ChangedEntry DEF OnClients, IInv, Shapes
<1>1. /\ advance(c) /\ OnClients(userOp)
      /\ UNCHANGED <<script, clock, blockTime, senderNonce, deposit, accepted, outcome, tx>>
  BY Zenon DEF buildOp, readNonce, approveAndSign, bundlerEstimate, env, time, contracts,
         IInv, Shapes
<1>2. ASSUME NEW s, At(c, s), s \notin {"handleOps", "wait"}
      PROVE  /\ outcome[c] = "running" /\ pc[c] + 1 < Len(Steps(script))
             /\ pc[c] < Len(Steps(script)) /\ pc[c] \in 1..7
             /\ s = "getGasFee" <=> pc[c] = 1
             /\ s = "getNonce" <=> pc[c] = 2
  <2>1. /\ outcome[c] = "running" /\ pc[c] \in 1..7 /\ pc[c] < Len(Steps(script))
        /\ Steps(script)[pc[c]] = s /\ script \in {"local", "arbitrumSepolia"}
        /\ (s = "getGasFee" <=> pc[c] = 1) /\ (s = "getNonce" <=> pc[c] = 2)
    BY <1>2, NotLast DEF At, IInv, Shapes
  <2>2. pc[c] + 1 # Len(Steps(script))
    <3>1. CASE script = "local"
      <4>1. Steps(script) = <<"getGasFee", "getNonce", "getHash", "handleOps", "wait">>
        BY <3>1 DEF Steps, runTransferPassKey
      <4> QED BY <1>2, <2>1, <4>1
    <3>2. CASE script = "arbitrumSepolia"
      <4>1. Steps(script) = <<"getGasFee", "getNonce", "getHash", "bundlerEstimate",
                              "getHash", "handleOps", "wait">>
        BY <3>2 DEF Steps, runTransferPassKeyarb
      <4> QED BY <1>2, <2>1, <4>1
    <3> QED BY <2>1, <3>1, <3>2
  <2>3. Len(Steps(script)) \in 5..7
    BY <2>1, StepNames
  <2> QED BY <2>1, <2>2, <2>3
<1>3. CASE buildOp(c)
  <2>1. outcome[c] = "running" /\ pc[c] = 1 /\ pc[c] + 1 < Len(Steps(script))
    BY <1>2, <1>3, Zenon DEF buildOp
  <2>2. PICK op : userOp' = [userOp EXCEPT ![c] = op] /\ Priced(op) /\ op.initCode = Null
    <3> DEFINE op == [sender |-> "account", nonce |-> Null, initCode |-> Null,
                      callData |-> "execute mint", callGasLimit |-> 1,
                      verificationGasLimit |-> getGasFee.verificationGasLimit,
                      preVerificationGas |-> 1,
                      maxFeePerGas |-> getGasFee.maxFeePerGas,
                      maxPriorityFeePerGas |-> getGasFee.maxPriorityFeePerGas,
                      paymasterAndData |-> Empty, signature |-> Empty]
    <3>1. userOp' = [userOp EXCEPT ![c] = op]
      BY <1>3, Zenon DEF buildOp
    <3>2. /\ op.callGasLimit = 1 /\ op.verificationGasLimit = 3 /\ op.preVerificationGas = 1
          /\ op.maxFeePerGas = 2 * baseFee /\ op.initCode = Null
      BY DEF getGasFee
    <3>3. 2 * baseFee \in MaxFees
      BY DEF IInv, Shapes, MaxFees
    <3> HIDE DEF op
    <3>4. Priced(op)
      BY <3>2, <3>3, Amounts DEF Priced
    <3> QED BY <3>1, <3>2, <3>4, Zenon
  <2>3. userOp'[c] = op /\ \A d \in Clients \ {c} : userOp'[d] = userOp[d]
    BY <1>0, <2>2, Zenon
  <2> QED BY <1>1, <2>1, <2>2, <2>3, RunGoesOn
<1>4. CASE readNonce(c)
  <2>1. /\ outcome[c] = "running" /\ pc[c] = 2 /\ pc[c] + 1 < Len(Steps(script))
        /\ pc[c] < Len(Steps(script))
    BY <1>2, <1>4 DEF readNonce
  <2>2. Written(userOp[c]) /\ Priced(userOp[c]) /\ userOp[c].initCode = Null
    BY <2>1, Zenon DEF IInv, Building, Typed, Run
  <2> DEFINE o == [userOp[c] EXCEPT !.nonce = nonce]
             r == fillUserOpDefaults(o)
  <2>3. userOp' = [userOp EXCEPT ![c] = r]
    BY <1>4 DEF readNonce
  <2>4. DOMAIN userOp[c] = Fields /\ DOMAIN DefaultsForUserOp = Fields
    BY <2>2, Zenon DEF Written, DefaultsForUserOp, Fields
  <2>5. r = [f \in Fields |-> IF o[f] = Null THEN DefaultsForUserOp[f] ELSE o[f]]
    BY <2>4 DEF fillUserOpDefaults
  <2>6. /\ o["callGasLimit"] = userOp[c].callGasLimit
        /\ o["verificationGasLimit"] = userOp[c].verificationGasLimit
        /\ o["preVerificationGas"] = userOp[c].preVerificationGas
        /\ o["maxFeePerGas"] = userOp[c].maxFeePerGas
        /\ o["initCode"] = userOp[c].initCode
    BY <2>4 DEF Fields
  <2>7. {"callGasLimit", "verificationGasLimit", "preVerificationGas", "maxFeePerGas",
         "initCode"} \subseteq Fields /\ DefaultsForUserOp["initCode"] = Empty
    BY DEF Fields, DefaultsForUserOp
  <2> HIDE DEF o, r
  <2>8. /\ r["callGasLimit"] = userOp[c].callGasLimit
        /\ r["verificationGasLimit"] = userOp[c].verificationGasLimit
        /\ r["preVerificationGas"] = userOp[c].preVerificationGas
        /\ r["maxFeePerGas"] = userOp[c].maxFeePerGas
        /\ r["initCode"] = Empty
    BY <2>2, <2>5, <2>6, <2>7, Amounts DEF Priced
  <2>9. Filled(r)
    BY <2>2, <2>8 DEF Filled, Priced
  <2>10. userOp'[c] = r /\ \A d \in Clients \ {c} : userOp'[d] = userOp[d]
    BY <1>0, <2>3, Zenon
  <2> QED BY <1>1, <2>1, <2>9, <2>10, RunGoesOn
<1>5. CASE approveAndSign(c)
  <2>1. /\ outcome[c] = "running" /\ pc[c] \in 3..7 /\ pc[c] + 1 < Len(Steps(script))
        /\ pc[c] < Len(Steps(script))
    BY <1>2, <1>5 DEF approveAndSign
  <2>2. Numbered(userOp[c], nonce) /\ Filled(userOp[c])
    <3>1. pc[c] > 2
      BY <2>1
    <3>2. Numbered(userOp[c], nonce)
      BY <2>1, <3>1 DEF IInv, Building
    <3> QED BY <2>1, <3>1, <3>2, Zenon DEF Typed, Run
  <2> DEFINE p == hexConcat(window[c], getHash(userOp[c], window[c]))
             o == [userOp[c] EXCEPT !.paymasterAndData = p]
             q == [layout |-> "rs", message |-> message(o, ChainId(script))]
             r == [o EXCEPT !.signature = q]
  <2>3. userOp' = [userOp EXCEPT ![c] = r]
    BY <1>5 DEF approveAndSign
  <2> HIDE DEF p, q
  <2>4. DOMAIN userOp[c] = Fields
    BY <2>2 DEF Numbered, Written
  <2>5. /\ r["callGasLimit"] = userOp[c].callGasLimit
        /\ r["verificationGasLimit"] = userOp[c].verificationGasLimit
        /\ r["preVerificationGas"] = userOp[c].preVerificationGas
        /\ r["maxFeePerGas"] = userOp[c].maxFeePerGas
        /\ r["initCode"] = userOp[c].initCode
    BY <2>4 DEF Fields
  <2> HIDE DEF r
  <2>6. Filled(r)
    BY <2>2, <2>5 DEF Filled, Priced
  <2>7. userOp'[c] = r /\ \A d \in Clients \ {c} : userOp'[d] = userOp[d]
    BY <1>0, <2>3, Zenon
  <2> QED BY <1>1, <2>1, <2>6, <2>7, RunGoesOn
<1>6. CASE bundlerEstimate(c)
  <2>1. /\ outcome[c] = "running" /\ pc[c] \in 3..7 /\ pc[c] + 1 < Len(Steps(script))
        /\ pc[c] < Len(Steps(script))
    <3>1. At(c, "bundlerEstimate")
      BY <1>6, Zenon DEF bundlerEstimate
    <3> QED BY <1>2, <3>1, SMTT(20)
  <2>2. Numbered(userOp[c], nonce) /\ Filled(userOp[c])
    <3>1. pc[c] > 2
      BY <2>1
    <3>2. Numbered(userOp[c], nonce)
      BY <2>1, <3>1 DEF IInv, Building
    <3> QED BY <2>1, <3>1, <3>2 DEF Typed, Run
  <2>3. PICK limits \in BundlerLimits :
           userOp' = [userOp EXCEPT ![c].callGasLimit = limits.callGasLimit,
                                    ![c].verificationGasLimit = limits.verificationGasLimit,
                                    ![c].preVerificationGas = limits.preVerificationGas]
    BY <1>6, Zenon DEF bundlerEstimate
  <2> DEFINE r == [userOp[c] EXCEPT !.callGasLimit = limits.callGasLimit,
                                    !.verificationGasLimit = limits.verificationGasLimit,
                                    !.preVerificationGas = limits.preVerificationGas]
  <2>4. userOp' = [userOp EXCEPT ![c] = r]
    BY <1>1, <2>3, Zenon DEF OnClients
  <2>5. DOMAIN userOp[c] = Fields
    BY <2>2, Zenon DEF Numbered, Written
  <2>6. /\ r["callGasLimit"] = limits.callGasLimit
        /\ r["verificationGasLimit"] = limits.verificationGasLimit
        /\ r["preVerificationGas"] = limits.preVerificationGas
        /\ r["maxFeePerGas"] = userOp[c].maxFeePerGas
        /\ r["initCode"] = userOp[c].initCode
    BY <2>5 DEF Fields
  <2> HIDE DEF r
  <2>7. Filled(r)
    BY <2>2, <2>6, Proposed DEF Filled, Priced
  <2>8. userOp'[c] = r /\ \A d \in Clients \ {c} : userOp'[d] = userOp[d]
    BY <1>0, <2>4, Zenon
  <2> QED BY <1>1, <2>1, <2>7, <2>8, RunGoesOn, SMTT(20)
<1> QED BY <1>3, <1>4, <1>5, <1>6

\* The operation is sent as it was built.
LEMMA SubmitTyped ==
    ASSUME IInv, Typed, NEW c \in Clients, submit(c)
    PROVE  Typed'
<1>1. /\ At(c, "handleOps") /\ advance(c)
      /\ tx' = [tx EXCEPT ![c] = [state |-> "sent", op |-> userOp[c]]]
      /\ UNCHANGED <<script, clock, blockTime, senderNonce, deposit, accepted, outcome, userOp>>
  BY DEF submit, env, time, contracts
<1>2. /\ outcome[c] = "running" /\ pc[c] \in 3..7 /\ pc[c] < Len(Steps(script))
      /\ Steps(script)[pc[c]] = "handleOps" /\ script \in {"local", "arbitrumSepolia"}
  BY <1>1, NotLast DEF At, IInv, Shapes
<1>3. pc[c] + 1 = Len(Steps(script))
  <2>1. CASE script = "local"
    <3>1. Steps(script) = <<"getGasFee", "getNonce", "getHash", "handleOps", "wait">>
      BY <2>1 DEF Steps, runTransferPassKey
    <3> QED BY <1>2, <3>1
  <2>2. CASE script = "arbitrumSepolia"
    <3>1. Steps(script) = <<"getGasFee", "getNonce", "getHash", "bundlerEstimate",
                            "getHash", "handleOps", "wait">>
      BY <2>2 DEF Steps, runTransferPassKeyarb
    <3> QED BY <1>2, <3>1
  <2> QED BY <1>2, <2>1, <2>2
<1>4. Filled(userOp[c])
  BY <1>2 DEF Typed, Run
<1>5. /\ tx'[c] = [state |-> "sent", op |-> userOp[c]]
      /\ \A d \in Clients \ {c} : tx'[d] = tx[d]
  BY <1>1, ChangedEntry DEF IInv, Shapes, OnClients
<1>6. tx'[c].state = "sent" /\ tx'[c].op = userOp[c]
  BY <1>5
<1> QED BY <1>1, <1>2, <1>3, <1>4, <1>5, <1>6, RunGoesOn, SMTT(20)

\* A run that ends is back at no step; its transaction stays.
LEMMA ExitTyped ==
    ASSUME IInv, Typed, NEW c \in Clients, NEW how \in {"completed", "failed"}, exit(c, how)
    PROVE  Typed'
<1>1. /\ outcome' = [outcome EXCEPT ![c] = how] /\ pc' = [pc EXCEPT ![c] = 1]
      /\ userOp' = [userOp EXCEPT ![c] = Null]
      /\ UNCHANGED <<script, clock, blockTime, senderNonce, deposit, accepted, tx>>
  BY DEF exit, env, time, contracts
<1>2. /\ OnClients(outcome) /\ OnClients(userOp) /\ pc \in [Clients -> 1..7]
      /\ Len(Steps(script)) \in 5..7
  BY StepNames DEF IInv, Shapes
<1>3. /\ outcome'[c] = how /\ pc'[c] = 1
      /\ \A d \in Clients \ {c} : /\ outcome'[d] = outcome[d] /\ pc'[d] = pc[d]
                                  /\ userOp'[d] = userOp[d]
  <2>1. outcome'[c] = how /\ \A d \in Clients \ {c} : outcome'[d] = outcome[d]
    BY <1>1, <1>2, ChangedEntry
  <2>2. \A d \in Clients \ {c} : userOp'[d] = userOp[d]
    BY <1>1, <1>2, ChangedEntry
  <2> QED BY <1>1, <1>2, <2>1, <2>2
<1>4. Run(c)'
  <2>1. Run(c)
    BY DEF Typed
  <2>2. Len(Steps(script)') \in 5..7
    BY <1>1, <1>2 DEF Steps
  <2> QED BY <1>1, <1>3, <2>1, <2>2 DEF Run, Executed
<1> QED BY <1>1, <1>3, <1>4, OneRun

\* The prefund that was checked pays for the gas, whatever was used of it.
LEMMA PrefundPays ==
    ASSUME IInv, NEW op, Priced(op), op.maxPriorityFeePerGas = 0,
           requiredPreFund(op) <= deposit, deposit \in Nat,
           NEW used \in {1, gasLimit(op)}
    PROVE  deposit - used * gasPrice(op) \in Nat
<1> DEFINE a == op.callGasLimit
           b == op.verificationGasLimit
           d == op.preVerificationGas
           m == op.maxFeePerGas
           p == gasPrice(op)
           all == a + 3 * b + d
<1>1. a \in Nat /\ b \in Nat \ {0} /\ d \in Nat /\ m \in Nat
  BY Amounts, Zenon DEF Priced
<1>2. p \in Nat /\ p <= m
  <2>1. baseFee \in Nat
    BY BaseFeesAssumption DEF IInv, Shapes
  <2> QED BY <1>1, <2>1 DEF gasPrice
<1>3. used \in Nat /\ used <= all /\ all \in Nat
  BY <1>1 DEF gasLimit
<1>4. all * m <= deposit
  BY DEF requiredPreFund
<1> HIDE DEF a, b, d, m, p, all
<1>5. used * p <= used * m /\ used * p \in Nat /\ used * m \in Nat
  BY <1>1, <1>2, <1>3, TimesMonotone
<1>6. m * used <= m * all /\ m * used \in Nat /\ m * all \in Nat
  BY <1>1, <1>3, TimesMonotone
<1>7. m * used = used * m /\ m * all = all * m
  BY <1>1, <1>3
<1>8. used * p <= deposit
  BY <1>4, <1>5, <1>6, <1>7
<1> QED BY <1>5, <1>8 DEF p

\* A transaction is mined, once for each run that sent one.
LEMMA MineTyped ==
    ASSUME IInv, Typed, NEW c \in Clients, mine(c)
    PROVE  Typed'
<1> DEFINE op == tx[c].op
           entry == [client |-> c, price |-> gasPrice(op), baseFee |-> baseFee]
<1>1. /\ tx[c].state = "sent" /\ Accepts(op, clock)
      /\ tx' = [tx EXCEPT ![c] = [NoTx EXCEPT !.state = "mined"]]
      /\ blockTime' = clock /\ senderNonce' = senderNonce + 1
      /\ accepted' = accepted \union {entry}
      /\ UNCHANGED <<script, clock, pc, userOp, outcome>>
  BY DEF mine, include, env, process
<1>2. PICK used \in {1, gasLimit(op)} : deposit' = deposit - used * gasPrice(op)
  BY DEF mine
<1>3. /\ Filled(op) /\ ~Executed(c) /\ op.maxPriorityFeePerGas = 0
      /\ requiredPreFund(op) <= deposit
  BY <1>1, Zenon DEF Typed, Run, IInv, Sent, Ready, Complete, Numbered, Written, Accepts
<1>4. deposit' \in Nat
  BY <1>2, <1>3, PrefundPays DEF Typed, Chain, Filled
<1>5. /\ IsFiniteSet(accepted') /\ Cardinality(accepted') = senderNonce + 1
  <2>1. entry.client = c
    OBVIOUS
  <2> HIDE DEF entry
  <2>2. entry \notin accepted
    BY <1>3, <2>1 DEF Executed
  <2>3. IsFiniteSet(accepted) /\ Cardinality(accepted) = senderNonce
    BY DEF Typed, Chain
  <2> QED BY <1>1, <2>2, <2>3, FS_AddElement
<1>6. Chain'
  BY <1>1, <1>4, <1>5 DEF Typed, Chain
<1>7. /\ tx'[c].state = "mined" /\ \A d \in Clients \ {c} : tx'[d] = tx[d]
  <2>1. OnClients(tx)
    BY DEF IInv, Shapes
  <2>2. /\ tx'[c] = [NoTx EXCEPT !.state = "mined"]
        /\ \A d \in Clients \ {c} : tx'[d] = tx[d]
    BY <1>1, <2>1, ChangedEntry
  <2> QED BY <2>2 DEF NoTx
<1>8. ASSUME NEW d \in Clients PROVE Run(d)'
  <2>1. Run(d)
    BY DEF Typed
  <2>2. CASE d = c
    <3>1. outcome[c] = "running" => ~(pc[c] < Len(Steps(script)))
      BY <1>1 DEF Typed, Run
    <3> QED BY <1>1, <1>7, <2>1, <2>2, <3>1 DEF Run, Steps
  <2>3. CASE d # c
    <3>1. entry.client = c
      OBVIOUS
    <3> HIDE DEF entry
    <3>2. Executed(d)' <=> Executed(d)
      BY <1>1, <2>3, <3>1 DEF Executed
    <3> QED BY <1>1, <1>7, <2>1, <2>3, <3>2 DEF Run, Steps
  <2> QED BY <2>2, <2>3
<1> QED BY <1>6, <1>8 DEF Typed

\* A transaction that reverts changes nothing else.
LEMMA RevertTyped ==
    ASSUME IInv, Typed, NEW c \in Clients, mineReverted(c)
    PROVE  Typed'
<1>1. /\ tx[c].state = "sent" /\ tx' = [tx EXCEPT ![c] = [NoTx EXCEPT !.state = "reverted"]]
      /\ blockTime' = clock
      /\ UNCHANGED <<script, clock, pc, userOp, outcome, senderNonce, deposit, accepted>>
  BY DEF mineReverted, include, env, process, contracts
<1>2. Chain'
  BY <1>1 DEF Typed, Chain
<1>3. /\ tx'[c].state = "reverted" /\ \A d \in Clients \ {c} : tx'[d] = tx[d]
  <2>1. OnClients(tx)
    BY DEF IInv, Shapes
  <2>2. /\ tx'[c] = [NoTx EXCEPT !.state = "reverted"]
        /\ \A d \in Clients \ {c} : tx'[d] = tx[d]
    BY <1>1, <2>1, ChangedEntry
  <2> QED BY <2>2 DEF NoTx
<1>4. ASSUME NEW d \in Clients PROVE Run(d)'
  <2>1. Run(d)
    BY DEF Typed
  <2>2. CASE d = c
    <3>1. outcome[c] = "running" => ~(pc[c] < Len(Steps(script)))
      BY <1>1 DEF Typed, Run
    <3> QED BY <1>1, <1>3, <2>1, <2>2, <3>1 DEF Run, Steps
  <2>3. CASE d # c
    BY <1>1, <1>3, <2>1, <2>3 DEF Run, Steps, Executed
  <2> QED BY <2>2, <2>3
<1> QED BY <1>2, <1>4 DEF Typed

\* Every step keeps the types.
LEMMA NextTyped == IInv /\ Typed /\ [Next]_vars => Typed'
<1> SUFFICES ASSUME IInv, Typed, [Next]_vars PROVE Typed'
  OBVIOUS
<1>1. ASSUME NEW c \in Clients, submitFails(c) \/ wait(c) \/ rpcFails(c)
      PROVE  Typed'
  BY <1>1, ExitTyped DEF submitFails, wait, rpcFails
<1>2. ASSUME otherOp \/ newBlock \/ tick \/ UNCHANGED vars
      PROVE  Typed'
  <2>1. /\ UNCHANGED <<script, pc, userOp, outcome, tx, senderNonce, deposit, accepted>>
        /\ \/ UNCHANGED <<clock, blockTime>>
           \/ blockTime' = clock /\ UNCHANGED clock
           \/ clock < MaxClock /\ clock' = clock + 1 /\ UNCHANGED blockTime
    BY <1>2 DEF otherOp, newBlock, tick, vars, env, time, contracts, process
  <2>2. Chain'
    BY <2>1, ClockAssumption DEF Typed, Chain
  <2>3. \A c \in Clients : Run(c)'
    BY <2>1 DEF Typed, Run, Steps, Executed
  <2> QED BY <2>2, <2>3 DEF Typed
<1> QED BY <1>1, <1>2, BuildTyped, SubmitTyped, MineTyped, RevertTyped DEF Next, step

\* The initial state.
LEMMA InitTyped == Init => Typed
<1> SUFFICES ASSUME Init PROVE Typed
  OBVIOUS
<1> USE DEF Init
<1>1. Chain
  BY ClockAssumption, StakeAssumption, FS_EmptySet DEF Chain
<1>2. Len(Steps(script)) \in 5..7
  BY StepNames
<1>3. ASSUME NEW c \in Clients PROVE Run(c)
  <2>1. outcome[c] = "running" /\ pc[c] = 1 /\ tx[c] = NoTx /\ accepted = {}
    OBVIOUS
  <2>2. tx[c].state = "none" /\ ~Executed(c)
    BY <2>1 DEF NoTx, Executed
  <2>3. pc[c] \in 1..Len(Steps(script))
    <3> HIDE DEF Init
    <3>1. 1 \in 1..Len(Steps(script))
      BY <1>2
    <3> QED BY <2>1, <3>1, Zenon
  <2> QED BY <1>2, <2>1, <2>2, <2>3 DEF Run
<1> QED BY <1>1, <1>3 DEF Typed

\* Every variable has its type: no null is submitted, the deposit is never
\* overdrawn, and the paymaster's nonce counts the operations it paid for.
THEOREM TypeCorrect == Spec => []TypeOK
<1>1. IInv /\ Typed => TypeOK
  <2> SUFFICES ASSUME IInv, Typed PROVE TypeOK
    OBVIOUS
  <2>1. /\ blockTime <= clock /\ clock \in 1..MaxClock /\ baseFee \in BaseFees
        /\ {nonce, senderNonce, deposit} \subseteq Nat /\ senderNonce = Cardinality(accepted)
    BY DEF IInv, Shapes, Typed, Chain
  <2>2. outcome \in [Clients -> {"running", "completed", "failed"}]
    BY DEF IInv, Shapes, OnClients, Typed, Run
  <2>3. ASSUME NEW c \in Clients
        PROVE  /\ pc[c] \in DOMAIN Steps(script)
               /\ tx[c].state \in {"none", "sent", "mined", "reverted"}
               /\ tx[c].state = "sent" =>
                     /\ tx[c].op.nonce \in 0..nonce
                     /\ tx[c].op.initCode = Empty
                     /\ tx[c].op.maxFeePerGas \in {2 * b : b \in BaseFees}
                     /\ {tx[c].op.callGasLimit, tx[c].op.verificationGasLimit,
                         tx[c].op.preVerificationGas} \subseteq GasLimits
    <3>1. Run(c)
      BY DEF Typed
    <3>2. pc[c] \in DOMAIN Steps(script)
      BY <3>1 DEF Run, Steps, runTransferPassKey, runTransferPassKeyarb
    <3>3. tx[c].state = "sent" => tx[c].op.nonce \in 0..nonce
      BY SMTT(20) DEF IInv, Shapes, Sent, Ready, Complete, Numbered
    <3> QED BY <3>1, <3>2, <3>3 DEF Run, Filled, Priced, MaxFees
  <2> QED BY <2>1, <2>2, <2>3 DEF TypeOK
<1>2. Init => IInv /\ Typed
  BY InitIInv, InitTyped
<1>3. IInv /\ Typed /\ [Next]_vars => (IInv /\ Typed)'
  BY NextIInv, NextTyped
<1> QED BY <1>1, <1>2, <1>3, PTL DEF Spec

=============================================================================
