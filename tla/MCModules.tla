------------------------------- MODULE MCModules -------------------------------
(***************************************************************************)
(* The business modules for TLC.                                            *)
(***************************************************************************)
EXTENDS Modules, TLC

\* Two days of each week on one project.
MCSlot == Week \X {1, 2}

\* The configuration is strict about hours, or takes all of them.
MCConfig == {[hours |-> h, weeks |-> Week] : h \in {Hours, {1}}}

\* Requests are interchangeable.
Symmetry == Permutations(Client)

===============================================================================
