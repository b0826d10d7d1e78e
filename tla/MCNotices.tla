------------------------------- MODULE MCNotices -------------------------------
(***************************************************************************)
(* A thread of three: ann's post, bob's reply that names her, and cat's    *)
(* reply to bob, whose text holds ids that are no mentions.                *)
(***************************************************************************)
EXTENDS HubNotices, TLC

CONSTANTS ann, bob, cat     \* people

MCParent == [p \in Posts |-> p - 1]
MCAuthor == [p \in Posts |-> IF p = 1 THEN ann ELSE IF p = 2 THEN bob ELSE cat]
MCNames == [p \in Posts |-> IF p = 2 THEN {ann} ELSE {}]
MCHolds == [p \in Posts |-> IF p = 1 THEN {} ELSE {ann, bob}]

\* The page and the notifier share nothing but the bus, which never waits for
\* either: they are watched one at a time, and a notifier that nobody is
\* subscribed to reads what it gets at once.  Neither looks at a time: the clock
\* is at its first tick while either is watched.
Apart ==
    /\ line' = "none" \/ subs' \cup joining' = {}
    /\ (line' = "none" /\ subs' \cup joining' = {}) \/ clock' <= 1
    /\ (line # "none" /\ inbox # <<>>) => inbox' = Tail(inbox)
=============================================================================
