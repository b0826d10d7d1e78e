--------------------------- MODULE MCTranslationTexts ---------------------------
(***************************************************************************)
(* The two hubs of MCTranslations, with the history of what they made.     *)
(***************************************************************************)
EXTENDS MCTranslations, HubTranslationTexts
=============================================================================
