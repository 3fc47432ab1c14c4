--------------------------- MODULE MCPasskeyClient ---------------------------
EXTENDS PasskeyClient, TLC

CONSTANTS c1, c2

MCClients == {c1, c2}

\* A bundler that agrees with the script's guess, and one that asks for less.
MCBundlerLimits ==
    {[callGasLimit |-> 1, verificationGasLimit |-> 3, preVerificationGas |-> 1],
     [callGasLimit |-> 1, verificationGasLimit |-> 1, preVerificationGas |-> 1]}

=============================================================================
