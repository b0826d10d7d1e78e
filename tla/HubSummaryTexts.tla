---------------------------- MODULE HubSummaryTexts ----------------------------
(***************************************************************************)
(* The summaries of HubSummaries as the texts of HubTexts: at each step of *)
(* the thread the summary written from it and the translation of that.     *)
(* The history is kept as in HubTranslationTexts.                          *)
(***************************************************************************)
EXTENDS HubSummaries

VARIABLE made       \* made[h][k]: the texts of k that h ever made

\* A step, and which of its two rows.
Keys == Steps \X {"orig", "tr"}

RowOf(h, k) == IF k[2] = "orig" THEN orig[h][k[1]] ELSE tr[h][k[1]]

\* What is read of a row: who made it, when, and what it cites.
Seen(h, row) ==
    IF row.status = "ok"
    THEN {[by |-> IF row.origin = Local THEN h ELSE row.origin, ts |-> row.ts, cites |-> row.cites]}
    ELSE {}

shown == [h \in Hubs |-> [k \in Keys |-> Seen(h, RowOf(h, k))]]

\* The posts of the thread that are deleted.
away == [h \in Hubs |-> Entries(gone[h]) \cup {q \in {Root} : root[h] = "gone"}]

\* Those of some texts that h made.
By(h, some) == {x \in some : x.by = h}

MadeInit == Init /\ made = [h \in Hubs |-> [k \in Keys |-> {}]]

\* A step of the hubs; what is shown of a hub's own making was made.
MadeNext ==
    /\ Next
    /\ made' = [h \in Hubs |-> [k \in Keys |-> made[h][k] \cup By(h, shown'[h][k])]]

MadeSpec == MadeInit /\ [][MadeNext]_<<vars, made>>
MadeFair == MadeSpec /\ Fairness

-----------------------------------------------------------------------------
Texts == INSTANCE HubTexts WITH
    About <- [k \in Keys |-> Root], Citable <- Replies,
    Makers <- Writers, Editors <- Redoes, gone <- away

\* Whatever pages, waiting entries, revs, retries, restarts and deletes do, a
\* reader sees what HubTexts promises: a summary goes one hop, at the step it was
\* written for and with the replies it cites, and only a newer one takes the place
\* of one taken.
TextsSpec == Texts!Spec

\* A summary its maker wrote again or lost is not handed back to it.
NotHandedBack == Texts!NotHandedBack
=============================================================================
