---------------------------- MODULE MCTurnstile ------------------------------
EXTENDS Turnstile
=============================================================================
