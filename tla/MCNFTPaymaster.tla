--------------------------- MODULE MCNFTPaymaster ---------------------------
(***************************************************************************)
(* TLC instance of NFTPaymaster: two senders, one of whom gives the NFT    *)
(* away in its operation, and limits that are set and lifted.              *)
(***************************************************************************)
EXTENDS NFTPaymaster

CONSTANTS gasNFT, otherNFT

MCOp(s, n, what, to) ==
    [sender |-> s, nonce |-> n, callData |-> <<what, gasNFT, to>>, validUntil |-> 0,
     validAfter |-> 0, ownerSigned |-> TRUE]

MCOps ==
    {MCOp("alice", 0, "give", "bob"), MCOp("alice", 1, "mint", "alice"),
     MCOp("bob", 0, "other", "bob")}

MCLimits == {[tx |-> 2, gas |-> 3], NoLimits}

MCPayers == {Paymaster}
=============================================================================
