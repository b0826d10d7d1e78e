-------------------------------- MODULE HubTexts --------------------------------
(***************************************************************************)
(* What hubs that take each other's texts (translations, summaries)        *)
(* promise their readers, with no rev, page, cursor or waiting entry in    *)
(* sight.  A text goes one hop, from the hub that made it to those that    *)
(* pull from it; a hub shows one text of a key, and takes a newer one      *)
(* only; what is deleted takes its texts with it for good.                 *)
(***************************************************************************)
EXTENDS Integers

CONSTANTS
    Hubs,
    Keys,       \* what a text is of: a post, or a step of a thread
    About,      \* About[k]: the post without which there is no text of k
    Citable,    \* the posts a text may cite
    Pulls,      \* Pulls[h]: the hubs h pulls from
    Makers,     \* the hubs that make texts
    Editors,    \* the hubs where an editor takes them away
    Times       \* Times[h]: when texts are made on h

VARIABLES
    made,       \* made[h][k]: the texts of k that h ever made
    shown,      \* shown[h][k]: the text of k that h shows, if any
    gone        \* gone[h]: the posts deleted on h

textVars == <<made, shown, gone>>

\* The texts a hub makes.
TextsOf(h) == [by : {h}, ts : Times[h], cites : SUBSET Citable]

Init ==
    /\ made = [h \in Hubs |-> [k \in Keys |-> {}]]
    /\ shown = [h \in Hubs |-> [k \in Keys |-> {}]]
    /\ gone = [h \in Hubs |-> {}]

\* A table with another entry at a key of h.
At(table, h, k, entry) == [table EXCEPT ![h] = [@ EXCEPT ![k] = entry]]

\* A hub makes a text, later than all it made, and shows it for whatever it
\* had: a maker's own text may take the place of a peer's newer one.
Make(h, k, x) ==
    /\ h \in Makers
    /\ About[k] \notin gone[h]
    /\ \A j \in Keys : \A y \in made[h][j] : y.ts < x.ts
    /\ made' = At(made, h, k, made[h][k] \cup {x})
    /\ shown' = At(shown, h, k, {x})
    /\ UNCHANGED gone

\* A hub takes what a peer made, whether the peer still shows it or not, if
\* it has none as new.
Take(h, p, k, x) ==
    /\ x \in made[p][k]
    /\ About[k] \notin gone[h]
    /\ \A y \in shown[h][k] : y.ts < x.ts
    /\ shown' = At(shown, h, k, {x})
    /\ UNCHANGED <<made, gone>>

\* The texts of some keys of h are shown no more.
Without(h, K) ==
    shown' = [shown EXCEPT ![h] = [k \in Keys |-> IF k \in K THEN {} ELSE @[k]]]

\* A post is deleted: all that is about it goes, and what cites it may go.
Delete(h, r) ==
    /\ gone' = [gone EXCEPT ![h] = @ \cup {r}]
    /\ \E K \in SUBSET Keys :
          /\ \A k \in Keys : About[k] = r => k \in K
          /\ \A k \in K : About[k] = r \/ \E x \in shown[h][k] : r \in x.cites
          /\ Without(h, K)
    /\ UNCHANGED made

\* An editor takes texts away, or a maker's failed answer does.
Withdraw(h, K) ==
    /\ h \in Makers \cup Editors
    /\ UNCHANGED <<made, gone>>
    /\ Without(h, K)

Next ==
    \E h \in Hubs :
        \/ \E K \in SUBSET Keys : Withdraw(h, K)
        \/ \E r \in Citable \cup {About[k] : k \in Keys} : Delete(h, r)
        \/ \E k \in Keys : \/ \E x \in TextsOf(h) : Make(h, k, x)
                           \/ \E p \in Pulls[h] : \E x \in made[p][k] : Take(h, p, k, x)

Spec == Init /\ [][Next]_textVars

-----------------------------------------------------------------------------
\* A text its maker shows no more, because it was made again, withdrawn or lost
\* to a newer one, never comes back to its maker from those who took it.
NotHandedBack ==
    [][\A h \in Hubs, k \in Keys : \A x \in made[h][k] \ shown[h][k] : x \notin shown'[h][k]]_textVars
=============================================================================
