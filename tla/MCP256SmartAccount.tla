------------------------- MODULE MCP256SmartAccount -------------------------
(***************************************************************************)
(* TLC instance of P256SmartAccount: two accounts, two EntryPoints, and    *)
(* the operations that make a life of the first account: it is created     *)
(* with a guardian, changes its key and pays, is rescued, and moves to     *)
(* another EntryPoint.                                                     *)
(***************************************************************************)
EXTENDS P256SmartAccount

CONSTANTS ep1, ep2, k1, k2, g1

alice == <<k1, 0>>
bob == <<k2, 0>>

Call(fn, arg) == [fn |-> fn, arg |-> arg]

MCOp(s, n, init, key, e, calls) ==
    [sender |-> s, nonce |-> n, initCode |-> init, signedBy |-> key, signedFor |-> e,
     calls |-> calls]

MCOps ==
    {MCOp(alice, 0, TRUE, k1, ep1, <<Call("addGuardian", g1), Call("addDeposit", 1)>>),
     MCOp(alice, 1, FALSE, k1, ep1, <<Call("transferOwnership", k2), Call("pay", 1)>>),
     MCOp(alice, 1, FALSE, k2, ep1,
          <<Call("removeGuardian", g1), Call("withdrawDepositTo", 1)>>),
     MCOp(alice, 0, FALSE, k1, ep2, <<Call("upgradeTo", "v2"), Call("pay", 1)>>),
     MCOp(bob, 0, TRUE, k2, ep1, <<Call("pay", 0)>>),
     MCOp(bob, 1, FALSE, k2, ep1, <<Call("addGuardian", Null)>>)}

MCSalts == {0}
MCPayers == Keys \X Salts
=============================================================================
