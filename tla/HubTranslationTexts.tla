-------------------------- MODULE HubTranslationTexts --------------------------
(***************************************************************************)
(* The translations of HubTranslations as the texts of HubTexts.  The      *)
(* tables do not tell what a hub once made and shows no more, so the       *)
(* translations a hub ever made are kept beside them, in a history         *)
(* variable no action reads.                                               *)
(***************************************************************************)
EXTENDS HubTranslations

VARIABLE made       \* made[h][q]: the translations of q that h ever made

\* What a reader of h is shown of a row: who made it, and when.
Seen(h, row) ==
    IF row.kept
    THEN {[by |-> IF row.origin = Local THEN h ELSE row.origin, ts |-> row.ts, cites |-> {}]}
    ELSE {}

shown == [h \in Hubs |-> [q \in Posts |-> Seen(h, rows[h][q])]]

\* Those of some texts that h made.
By(h, some) == {x \in some : x.by = h}

MadeInit == Init /\ made = [h \in Hubs |-> [q \in Posts |-> {}]]

\* A step of the hubs; what is shown of a hub's own making was made.
MadeNext ==
    /\ Next
    /\ made' = [h \in Hubs |-> [q \in Posts |-> made[h][q] \cup By(h, shown'[h][q])]]

MadeSpec == MadeInit /\ [][MadeNext]_<<vars, made>>
MadeFair == MadeSpec /\ Fairness

-----------------------------------------------------------------------------
Texts == INSTANCE HubTexts WITH
    Keys <- Posts, About <- [q \in Posts |-> q], Citable <- {},
    Makers <- Translators, Editors <- Redoes

\* Whatever pages, waiting entries, revs, retries and restarts do, a reader sees
\* what HubTexts promises: a translation goes one hop, from the hub that made it
\* for that very post, and only a newer one takes the place of one taken.
TextsSpec == Texts!Spec

\* "One hop": a translation a hub made again, or its editor dropped, is not
\* handed back to it by those who took it.
NotHandedBack == Texts!NotHandedBack
=============================================================================
