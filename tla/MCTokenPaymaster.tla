-------------------------- MODULE MCTokenPaymaster --------------------------
(***************************************************************************)
(* TLC instance of TokenPaymaster: two senders whose operations give the   *)
(* fee away, revoke the allowance or grant it; a fee logic with a markup,  *)
(* whose fee for one unit of gas is rounded to nothing, and one that       *)
(* reverts.                                                                *)
(***************************************************************************)
EXTENDS TokenPaymaster

CONSTANTS usdc, usdt

MCOp(s, n, what, t) ==
    [sender |-> s, nonce |-> n, callData |-> <<what, t>>, validUntil |-> 0,
     validAfter |-> 0, ownerSigned |-> TRUE]

MCOps ==
    {MCOp("alice", 0, "spend", usdc), MCOp("alice", 0, "revoke", usdc),
     MCOp("bob", 0, "approve", usdc), MCOp("bob", 0, "fail", usdc)}

MCFeeLogics ==
    {[price |-> 2, scale |-> 3, markupDenominator |-> 2],
     [price |-> 1, scale |-> 1, markupDenominator |-> 0]}

MCPayers == {Paymaster}
=============================================================================
