----------------------------- MODULE MCBotWizard -----------------------------
(***************************************************************************)
(* Values for the constants of BotWizard, chosen by the .cfg files.        *)
(***************************************************************************)
EXTENDS BotWizard, TLC

CONSTANTS ann, bob, u1, u2, u3

(* What a user may is a matter of the tables, so users are alike too.      *)
WizardSymmetry == Permutations(Update) \cup Permutations(User)
=============================================================================
