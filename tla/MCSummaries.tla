----------------------------- MODULE MCSummaries -----------------------------
(***************************************************************************)
(* A hub that writes the summaries of a thread, and one that takes them.   *)
(* The replies are a chain, so that the delete of the upper one takes the  *)
(* lower out of the thread; they come to the two hubs in any order.        *)
(***************************************************************************)
EXTENDS HubSummaryTexts, TLC

CONSTANTS a, b,             \* hubs
          upper, lower      \* replies

MCParent == [r \in Replies |-> IF r = lower THEN upper ELSE Root]

\* b pulls from a.
MCPulls == [h \in Hubs |-> IF h = b THEN {a} ELSE {}]

\* The thread stands on a, and comes to b.
MCStanding == [h \in Hubs |-> IF h = a THEN <<upper, lower>> ELSE <<>>]

\* Both replies may go on the hub that writes, the root on the one that takes.
MCDeletable == [h \in Hubs |-> IF h = a THEN {upper, lower} ELSE {Root}]

MCTimes == [h \in Hubs |-> IF h = a THEN {1, 3} ELSE {2}]
=============================================================================
