------------------------------ MODULE MCFrontend -------------------------------
(***************************************************************************)
(* The editor with its chat, and the skill wizard: two pages, with nothing *)
(* in common, explored one at a time.                                      *)
(***************************************************************************)
EXTENDS EditorSession, SkillWizard

VARIABLE focus            \* editor or wizard

mcVars == <<chatVars, editorVars, wizardVars, focus>>

MCInit == EditorInit /\ WizardInit /\ focus \in {"editor", "wizard"}

MCNext ==
  \/ focus = "editor" /\ UNCHANGED <<wizardVars, focus>> /\ EditorNext
  \/ focus = "wizard" /\ UNCHANGED <<chatVars, editorVars, focus>> /\ WizardNext

MCSpec == MCInit /\ [][MCNext]_mcVars /\ EditorFairness
=============================================================================
