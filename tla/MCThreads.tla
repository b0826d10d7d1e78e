------------------------------- MODULE MCThreads -------------------------------
(***************************************************************************)
(* Two threads, and a reply in one of them.                                *)
(***************************************************************************)
EXTENDS HubThreads, TLC

MCParent == [p \in Posts |-> IF p = 3 THEN 1 ELSE 0]
MCAuthor == [p \in Posts |-> p]
MCNames == [p \in Posts |-> {}]
=============================================================================
