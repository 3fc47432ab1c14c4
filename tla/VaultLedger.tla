---------------------------- MODULE VaultLedger ----------------------------
(***************************************************************************)
(* What EnclaveTokenVaultV0 promises its depositors, without calls,        *)
(* callbacks or reverts: a ledger of credits backed by a reserve.  One     *)
(* step is one committed transaction.  It changes the credit of at most    *)
(* one user in one token, and the reserve of that token moves by at least  *)
(* the same amount, so credit is never created without tokens arriving     *)
(* and tokens never leave without credit being given up.                   *)
(***************************************************************************)
EXTENDS Integers

CONSTANTS
    Tokens,     \* the ERC20 contracts the vault holds
    N           \* users are the addresses 1..N

VARIABLES
    credit,     \* credit[t][u]: what the vault owes user u in token t
    reserve     \* reserve[t]: the tokens t the vault holds

lvars == <<credit, reserve>>

LedgerInit ==
    /\ credit = [t \in Tokens |-> [u \in 1..N |-> 0]]
    /\ reserve = [t \in Tokens |-> 0]

\* A deposit, a withdrawal or a claim of user u's credit in token t.
MoveCredit(t, u) ==
    /\ credit'[t][u] # credit[t][u]
    /\ credit'[t][u] >= 0
    /\ credit' = [credit EXCEPT ![t][u] = credit'[t][u]]
    /\ reserve'[t] - reserve[t] >= credit'[t][u] - credit[t][u]
    /\ \A x \in Tokens \ {t} : reserve'[x] >= reserve[x]

\* Tokens sent to the vault by a plain ERC20 transfer raise no credit.
Gift ==
    /\ UNCHANGED credit
    /\ \A x \in Tokens : reserve'[x] >= reserve[x]

LedgerNext ==
    \/ \E t \in Tokens, u \in 1..N : MoveCredit(t, u)
    \/ Gift

LedgerSpec == LedgerInit /\ [][LedgerNext]_lvars

=============================================================================
