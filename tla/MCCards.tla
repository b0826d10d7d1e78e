-------------------------------- MODULE MCCards --------------------------------
(***************************************************************************)
(* A post that links the page of the next one, which names a picture; or   *)
(* links a page outside, so that two cards are archived.                   *)
(***************************************************************************)
EXTENDS HubCards, TLC

CONSTANTS one       \* an IPFS link

MCLink == [p \in Posts |-> IF p = 1 THEN 2 ELSE None]
MCLinkPages == [p \in Posts |-> IF p = 1 THEN 2 ELSE Page]
MCLinked == [p \in Posts |-> IF p = 2 THEN <<one>> ELSE <<>>]
MCLinkedNone == [p \in Posts |-> <<>>]
=============================================================================
