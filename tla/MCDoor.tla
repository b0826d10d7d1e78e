--------------------------------- MODULE MCDoor ---------------------------------
(***************************************************************************)
(* HubClients on a small instance: each half is checked with the other at  *)
(* rest.                                                                   *)
(***************************************************************************)
EXTENDS HubClients, TLC

CONSTANTS r1, r2, pic, ann, bob

\* A holder, a stranger, and an invited key under a ban.
MCKeys == {[standing |-> [banned |-> FALSE, invited |-> FALSE], holds |-> TRUE],
           [standing |-> [banned |-> FALSE, invited |-> FALSE], holds |-> FALSE],
           [standing |-> [banned |-> TRUE, invited |-> TRUE], holds |-> FALSE]}

MCPictures == [w \in Words |-> IF w = 1 THEN {pic} ELSE {}]

VARIABLE half       \* the half that is awake

MCInit ==
    /\ half \in {"window", "media"}
    /\ Init /\ MediaInit
    /\ half = "media" => standing = [banned |-> FALSE, invited |-> FALSE] /\ holds

all == <<vars, media, half>>

Awake(which, A, others) == half = which /\ A /\ UNCHANGED <<others, half>>

MCNext == Awake("window", Next, media) \/ Awake("media", MediaNext, vars)

\* The fairness of each half, when it is awake.
MCFairness ==
    /\ \A r \in Reqs : WF_all(Awake("window", Handles(r), media))
    /\ WF_all(Awake("window", Waits, media)) /\ WF_all(Awake("window", Persists, media))
    /\ \A j \in Jobs : WF_all(Awake("media", Comes(j), vars))
    /\ WF_all(Awake("media", Convert, vars))

MCSpec == MCInit /\ [][MCNext]_all /\ MCFairness
=============================================================================
