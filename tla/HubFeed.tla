------------------------------- MODULE HubFeed -------------------------------
(***************************************************************************)
(* What a hub promises its readers, with no log, cursor or page in sight:  *)
(* each hub keeps a growing set of messages, and what it shows is a        *)
(* function of that set alone, whatever order the messages came in.  A     *)
(* post that was deleted never comes back.                                 *)
(***************************************************************************)
EXTENDS Envelopes

VARIABLES
    taken,      \* taken[h]: the messages h has accepted
    live,       \* live[h]: the posts it shows
    held        \* held[h]: the marks that hold its boxes

feedVars == <<taken, live, held>>

Init ==
    /\ taken = [h \in Hubs |-> {}]
    /\ live = [h \in Hubs |-> {}]
    /\ held = [h \in Hubs |-> {}]

\* h accepts one more message, from a client or from a peer.
Take(h, m) ==
    /\ m \notin taken[h]
    /\ taken' = [taken EXCEPT ![h] = @ \cup {m}]
    /\ live' = [live EXCEPT ![h] = LiveOf(taken[h] \cup {m})]
    /\ held' = [held EXCEPT ![h] = HeldOf(taken[h] \cup {m})]

Next == \E h \in Hubs, m \in Msgs : Take(h, m)

Spec == Init /\ [][Next]_feedVars

\* A deleted post never comes back, on any hub.
StaysDeleted == \A h \in Hubs : \A p \in taken[h] \ live[h] : p \notin live'[h]

NeverReturns == [][StaysDeleted]_feedVars
=============================================================================
