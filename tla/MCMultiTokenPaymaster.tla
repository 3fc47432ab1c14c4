------------------------ MODULE MCMultiTokenPaymaster ------------------------
(***************************************************************************)
(* TLC instance of MultiTokenPaymaster: two senders, one of whom may name  *)
(* either of two tokens in the same approved operation and has a second    *)
(* operation ready.                                                        *)
(***************************************************************************)
EXTENDS MultiTokenPaymaster

CONSTANTS usdc, usdt

MCOp(s, n, t) ==
    [sender |-> s, nonce |-> n, callData |-> "call", token |-> t, validUntil |-> 0,
     validAfter |-> 0, ownerSigned |-> TRUE]

MCOps ==
    {MCOp("alice", 0, usdc), MCOp("alice", 0, usdt), MCOp("alice", 1, usdt), MCOp("bob", 0, usdc)}

MCPayers == {Paymaster}
=============================================================================
