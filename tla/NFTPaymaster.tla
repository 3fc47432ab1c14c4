---------------------------- MODULE NFTPaymaster ----------------------------
(***************************************************************************)
(* EnclaveVerifyingNFTPaymaster with NFTGasLogic and GasNFT: the holders   *)
(* of an NFT have a quota of sponsored operations and of sponsored gas.    *)
(* The quota is checked in the validation and used up in postOp, which the *)
(* EntryPoint calls in the frame of the operation's call and, if that      *)
(* reverts, once more with the call undone.                                *)
(*                                                                         *)
(* NFTGasLogic restricts nobody: anyone may set limits and use up a quota. *)
(*                                                                         *)
(* The callData of an operation says what it does at an NFT contract:      *)
(* <<"give", nft, to>> transfers one of the sender's NFTs, <<"mint", nft>> *)
(* mints one for the sender, anything else does neither.  An NFT moves     *)
(* also without its holder: in transactions, and calls from other          *)
(* operations, of an operator that the holder approved.                    *)
(*                                                                         *)
(* The clock stands still and the deposit is funded at the start; both are *)
(* as in VerifyingPaymaster and have no bearing on the quota.              *)
(***************************************************************************)
EXTENDS Sponsorship, FiniteSetsExt, Functions

CONSTANTS
    NFTs,      \* NFT contracts
    Limits,    \* pairs of limits that may be set: [tx, gas]
    MaxCalls,  \* bound on the calls of applyLogic by others
    MaxSupply  \* bound on the NFTs that the senders hold

ASSUME LimitsAssumption ==
    /\ Limits \subseteq [tx : Nat, gas : Nat]
    /\ IsFiniteSet(NFTs)

VARIABLES
    nft,         \* the NFT contract the paymaster asks for
    limits,      \* limits[nft]: transactionLimitByNFT, gasValueLimitByNFT
    sponsored,   \* sponsoredTransactionsByNFT[nft][user]
    balanceOf,   \* balanceOf[nft][user]
    highest,     \* history: the highest limits[nft] so far
    others       \* history: calls of applyLogic that were not the paymaster's

quota == <<nft, limits, sponsored, balanceOf, highest, others>>
vars == <<book, frame, saved, pmState, offChain, quota>>

NoLimits == [tx |-> 0, gas |-> 0]

\* An address that is no sender's.
Outside == "outside"

Snapshot ==
    [nonce |-> nonce, deposit |-> deposit, executed |-> executed,
     senderNonce |-> senderNonce, granted |-> granted, funded |-> funded,
     nft |-> nft, limits |-> limits, sponsored |-> sponsored, balanceOf |-> balanceOf,
     highest |-> highest, others |-> others]

Init ==
    /\ SponsorInit
    /\ nft \in NFTs
    /\ limits = [n \in NFTs |-> NoLimits]
    /\ sponsored = [n \in NFTs |-> [s \in Senders |-> [count |-> 0, totalAmount |-> 0]]]
    /\ balanceOf = [n \in NFTs |-> [s \in Senders |-> 0]]
    /\ highest = [n \in NFTs |-> NoLimits]
    /\ others = 0

-----------------------------------------------------------------------------
(* NFTGasLogic.                                                            *)

\* The number of operations is checked, their gas is not.
isEligibleByCount(user, n, held, gasAmount) ==
    /\ held[n][user] > 0
    /\ sponsored[n][user].count < limits[n].tx

\* Eligibility when the balances of NFTs are as held says.
isEligible(user, n, held, gasAmount) ==
    /\ held[n][user] > 0
    /\ sponsored[n][user].count < limits[n].tx
    /\ gasAmount + sponsored[n][user].totalAmount <= limits[n].gas

\* The gas is added and the operation not counted.
AppliedGasOnly(user, n, gasAmount) ==
    [sponsored EXCEPT ![n][user].totalAmount = @ + gasAmount]

\* An unsigned difference instead of the sum.
AppliedBackwards(user, n, gasAmount) ==
    [sponsored EXCEPT ![n][user].count = @ + 1, ![n][user].totalAmount = @ - gasAmount]

Applied(user, n, gasAmount) ==
    [sponsored EXCEPT ![n][user].count = @ + 1, ![n][user].totalAmount = @ + gasAmount]

\* Transactions of others, or calls from an operation that is executed.
applyLogic(user, n, gasAmount) ==
    /\ phase # "validate"
    /\ others < MaxCalls
    /\ isEligible(user, n, balanceOf, gasAmount)
    /\ sponsored' = Applied(user, n, gasAmount)
    /\ others' = others + 1
    /\ UNCHANGED <<book, frame, saved, pmState, offChain, nft, limits, balanceOf, highest>>

addOrUpdateNFTLimits(n, l) ==
    /\ phase # "validate"
    /\ limits' = [limits EXCEPT ![n] = l]
    /\ highest' = [highest EXCEPT ![n] = [tx |-> Max({@.tx, l.tx}), gas |-> Max({@.gas, l.gas})]]
    /\ UNCHANGED <<book, frame, saved, pmState, offChain, nft, sponsored, balanceOf, others>>

-----------------------------------------------------------------------------
(* GasNFT.                                                                 *)

\* mintNFT: one NFT for whoever has none.
Minted(n, user) == [balanceOf EXCEPT ![n][user] = @ + 1]

\* ERC721.transferFrom.  The recipient is a sender or somebody else.
Moved(n, from, to) ==
    [balanceOf EXCEPT ![n] = [u \in Senders |->
        balanceOf[n][u] - (IF u = from THEN 1 ELSE 0) + (IF u = to THEN 1 ELSE 0)]]

mintNFT(n, recipient) ==
    /\ phase # "validate"
    /\ SumFunction([m \in NFTs |-> SumFunction(balanceOf[m])]) < MaxSupply
    /\ balanceOf[n][recipient] = 0
    /\ balanceOf' = Minted(n, recipient)
    /\ UNCHANGED <<book, frame, saved, pmState, offChain, nft, limits, sponsored, highest,
                   others>>

\* By the holder, or an operator it approved.
transferFrom(n, from, to) ==
    /\ phase # "validate"
    /\ balanceOf[n][from] > 0
    /\ balanceOf' = Moved(n, from, to)
    /\ UNCHANGED <<book, frame, saved, pmState, offChain, nft, limits, sponsored, highest,
                   others>>

\* The balances after the operation's own call, which changes nothing if it fails.
AfterCall(op) ==
    LET what == op.callData[1]
        n == op.callData[2]
    IN  CASE what = "give" /\ balanceOf[n][op.sender] > 0 ->
                 Moved(n, op.sender, op.callData[3])
          [] what = "mint" /\ balanceOf[n][op.sender] = 0 -> Minted(n, op.sender)
          [] OTHER -> balanceOf

-----------------------------------------------------------------------------
(* EnclaveVerifyingNFTPaymaster.                                           *)

Eligible(op) ==
    /\ balanceOf[nft][op.sender] > 0
    /\ isEligible(op.sender, nft, balanceOf, RequiredPreFund)

validatePaymasterUserOp ==
    /\ grant
    /\ Eligible(Op)
    /\ UNCHANGED quota

revertTransaction ==
    /\ failedOp
    /\ nft' = saved.nft
    /\ limits' = saved.limits
    /\ sponsored' = saved.sponsored
    /\ balanceOf' = saved.balanceOf
    /\ highest' = saved.highest
    /\ others' = saved.others

validationFails ==
    /\ phase = "validate"
    /\ ~(Valid(Op) /\ Eligible(Op))
    /\ revertTransaction

postOp(gas) ==
    /\ phase = "execute"
    /\ isEligible(Op.sender, nft, AfterCall(Op), gas)
    /\ sponsored' = Applied(Op.sender, nft, gas)
    /\ balanceOf' = AfterCall(Op)
    /\ payGas(gas)
    /\ UNCHANGED <<nft, limits, highest, others>>

\* The call is undone.
postOpReverted(gas, more) ==
    /\ phase = "execute"
    /\ ~isEligible(Op.sender, nft, AfterCall(Op), gas)
    /\ more >= gas
    /\ isEligible(Op.sender, nft, balanceOf, more)
    /\ sponsored' = Applied(Op.sender, nft, more)
    /\ payGas(more)
    /\ UNCHANGED <<nft, limits, balanceOf, highest, others>>

postOpRevertsAgain(gas, more) ==
    /\ phase = "execute"
    /\ ~isEligible(Op.sender, nft, AfterCall(Op), gas)
    /\ more >= gas
    /\ ~isEligible(Op.sender, nft, balanceOf, more)
    /\ revertTransaction

updateNFT(n) ==
    /\ phase # "validate"
    /\ nft' = n
    /\ UNCHANGED <<book, frame, saved, pmState, offChain, limits, sponsored, balanceOf, highest,
                   others>>

-----------------------------------------------------------------------------

approvalSigned(op) == signApproval(op) /\ UNCHANGED quota

bundleSubmitted(e, ops) == submitBundle(e, ops, Snapshot) /\ UNCHANGED quota

Next ==
    \/ \E op \in Ops : approvalSigned(op)
    \/ \E e \in EntryPoints, ops \in Bundles : bundleSubmitted(e, ops)
    \/ validatePaymasterUserOp
    \/ validationFails
    \/ \E gas \in GasCosts : postOp(gas)
    \/ \E gas, more \in GasCosts : postOpReverted(gas, more)
    \/ \E gas, more \in GasCosts : postOpRevertsAgain(gas, more)
    \/ \E n \in NFTs : updateNFT(n)
    \/ \E n \in NFTs, l \in Limits : addOrUpdateNFTLimits(n, l)
    \/ \E n \in NFTs, s \in Senders, gas \in GasCosts : applyLogic(s, n, gas)
    \/ \E n \in NFTs, s \in Senders : mintNFT(n, s)
    \/ \E n \in NFTs, s \in Senders, to \in Senders \union {Outside} : transferFrom(n, s, to)

Spec == Init /\ [][Next]_vars

-----------------------------------------------------------------------------
(* Properties.                                                             *)

QuotaType(s) ==
    /\ s.nft \in NFTs
    /\ s.limits \in [NFTs -> Limits \union {NoLimits}]
    /\ s.sponsored \in [NFTs -> [Senders -> [count : Nat, totalAmount : Nat]]]
    /\ s.balanceOf \in [NFTs -> [Senders -> Nat]]

\* Every variable has its type, and no counter underflows.
TypeOK ==
    /\ SponsorTypeOK
    /\ QuotaType(Snapshot)
    /\ phase # "idle" => QuotaType(saved)

\* Nobody is ever sponsored beyond the highest limits that were in force, in
\* number or in gas, although the validations of a bundle all look at the
\* quota before its first postOp uses any.
WithinLimits ==
    \A n \in NFTs, s \in Senders :
        /\ sponsored[n][s].count <= highest[n].tx
        /\ sponsored[n][s].totalAmount <= highest[n].gas

\* Every sponsored operation is counted against its sender, whichever call of
\* postOp did it, and also if the operation gave the NFT away.
ExecutedAreCounted ==
    \A s \in Senders :
        SumFunctionOnSet(executed, {op \in Ops : op.sender = s})
          <= SumFunction([n \in NFTs |-> sponsored[n][s].count])

\* The gas that the validation found in the quota is still there for postOp,
\* although all validations of a bundle come before its first postOp: unless in
\* the same transaction others changed the NFT contract or its limits or called
\* applyLogic, or the sender's NFTs are gone before its turn, one of the two
\* calls of postOp succeeds and the bundle commits.  The other operations of
\* the bundle never use up the quota.
QuotaReserved ==
    [][/\ phase = "execute"
       /\ nft = saved.nft /\ limits = saved.limits /\ others = saved.others
       /\ balanceOf[nft][Op.sender] > 0
       => granted \subseteq granted']_vars

=============================================================================
