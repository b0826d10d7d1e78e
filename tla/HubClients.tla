------------------------------ MODULE HubClients ------------------------------
(***************************************************************************)
(* What a client sends a hub: the post window at the door, and files to    *)
(* convert.  The two halves share nothing but the pins table, where a      *)
(* converted file is a staged row like any other, so a step of one leaves  *)
(* the other alone.                                                        *)
(***************************************************************************)
EXTENDS HubWindow, HubMedia

AtDoor == Next /\ UNCHANGED media
AtMedia == MediaNext /\ UNCHANGED vars

ClientsSpec == Init /\ MediaInit /\ [][AtDoor \/ AtMedia]_<<vars, media>>

\* The types of both halves: the queue of conversions (mediaQueue,
\* src/internal/api/media.go:38) is never over its bound.
TypesOK == TypeOK /\ MediaTypeOK
=============================================================================
