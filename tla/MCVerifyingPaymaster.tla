------------------------ MODULE MCVerifyingPaymaster ------------------------
(***************************************************************************)
(* TLC instance of VerifyingPaymaster: two senders with two nonces each,   *)
(* an approval that never expires and one that is valid at time 1 only,    *)
(* and one operation that its owner did not sign.                          *)
(***************************************************************************)
EXTENDS VerifyingPaymaster

MCOp(s, n, until, after, signed) ==
    [sender |-> s, nonce |-> n, callData |-> "call", validUntil |-> until,
     validAfter |-> after, ownerSigned |-> signed]

MCOps ==
    {MCOp("alice", n, 0, 0, TRUE) : n \in 0..1}
      \union {MCOp("alice", 0, 1, 0, TRUE), MCOp("bob", 0, 0, 2, TRUE),
              MCOp("bob", 0, 0, 0, FALSE)}

MCPayers == {Paymaster}
=============================================================================
