-------------------------- MODULE MCGuardedIntake --------------------------
(***************************************************************************)
(* GuardedIntake for TLC.  One tick stands for the shortest of the windows'*)
(* differences that matters; Hour, Cooldown and GiveUpWithin are a few      *)
(* ticks, so that a record can be inside one window and outside another.    *)
(***************************************************************************)
EXTENDS GuardedIntake, TLC

CONSTANTS api, h1, h2

\* Deliveries differ only by name.
Symmetry == Permutations(Handlers)
=============================================================================
