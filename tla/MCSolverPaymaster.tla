------------------------- MODULE MCSolverPaymaster -------------------------
(***************************************************************************)
(* TLC instance of SolverPaymaster: two operations of one sender with the  *)
(* same intent, one of another; a token of each kind.                      *)
(***************************************************************************)
EXTENDS SolverPaymaster

MCOp(s, call, t) ==
    [sender |-> s, nonce |-> 0, callData |-> call, token |-> t, amount |-> 1,
     validUntil |-> 0, validAfter |-> 0, ownerSigned |-> TRUE]

MCOps == {MCOp("alice", "swap", "weth"), MCOp("alice", "send", "weth"),
          MCOp("bob", "swap", "usdc")}

MCPayers == {Paymaster}
=============================================================================
