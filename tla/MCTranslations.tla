----------------------------- MODULE MCTranslations -----------------------------
(***************************************************************************)
(* Two hubs that pull each other's translations.  a makes them, thrice at  *)
(* most, and an editor there has them made again; b takes them, and in one *)
(* of the instances makes its own too.                                     *)
(***************************************************************************)
EXTENDS HubTranslations, TLC

CONSTANTS a, b,             \* hubs
          post, other       \* posts

MCPulls == [h \in Hubs |-> Hubs \ {h}]

\* Made on a at 1, 3 and 5, on b at 2 and 4: the clocks of the two may stand
\* to each other in any way.
MCTimes == [h \in Hubs |-> IF h = a THEN {1, 3, 5} ELSE {2, 4}]
MCTimesTwo == [h \in Hubs |-> IF h = a THEN {1, 3} ELSE {2}]

\* The first words made for the other post do not pass.
MCSound == (Posts \X (1 .. 5)) \ {<<other, 1>>}

\* b's model may take the language of the first post for the target's own.
MCTongues == [h \in Hubs |-> [q \in Posts |->
    IF h = b /\ q = post THEN {"own", "other"} ELSE {"other"}]]
=============================================================================
