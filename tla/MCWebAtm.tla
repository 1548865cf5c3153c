------------------------------ MODULE MCWebAtm ------------------------------
EXTENDS WebAtm, TLC

CONSTANTS ann, bob

Wants == ann :> "deposit" @@ bob :> "withdraw"
Sums == ann :> 1 @@ bob :> 2
=============================================================================
