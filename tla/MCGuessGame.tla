----------------------------- MODULE MCGuessGame -----------------------------
EXTENDS GuessGame

AllSecrets == 1..HIGH
=============================================================================
