----------------------------- MODULE MCHelpdesk -----------------------------
EXTENDS Helpdesk, TLC

Symmetry == Permutations(Client)
=============================================================================
