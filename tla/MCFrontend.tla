----------------------------- MODULE MCFrontend -----------------------------
(***************************************************************************)
(* The pages for TLC: a reader's comment form, the administrator's         *)
(* composer, or the audio player.  These share no state, so that a         *)
(* behaviour is one of the three; in their initial states the others have  *)
(* nothing that they must do.                                              *)
(***************************************************************************)
EXTENDS CommentForm, Composer, AudioPlayer

VARIABLE part

FrontendInit ==
    /\ part \in {"form", "composer", "player"}
    /\ FormInit /\ ComposerInit /\ PlayerInit

FrontendNext ==
    /\ UNCHANGED part
    /\ \/ part = "form" /\ FormNext /\ UNCHANGED <<composerVars, playerVars>>
       \/ part = "composer" /\ ComposerNext /\ UNCHANGED <<formVars, playerVars>>
       \/ part = "player" /\ PlayerNext /\ UNCHANGED <<formVars, composerVars>>

FrontendSpec ==
    /\ FrontendInit /\ [][FrontendNext]_<<part, formVars, composerVars, playerVars>>
    /\ FormFairness /\ PlayerFairness
=============================================================================
