------------------------------- MODULE MCPins -------------------------------
(***************************************************************************)
(* Small instances of HubPins: a post that a client hands to this hub or a *)
(* peer serves, or both, with its delete and the author's profile, all     *)
(* naming one file; and the pictures its link may bring.                   *)
(***************************************************************************)
EXTENDS HubPins, TLC

CONSTANTS x, y,             \* files
          alice,            \* an author
          post, gone,       \* alice's post and its delete
          again,            \* a second post
          face              \* her profile

Blank == [type |-> "post.create", author |-> alice, avatar |-> None, post |-> post,
          files |-> [c \in Cids |-> 0]]
Named == [Blank EXCEPT !.files = [c \in Cids |-> IF c = x THEN 1 ELSE 0]]

MCEnv == [m \in Msgs |->
    CASE m \in {post, again} -> Named
      [] m = gone -> [Blank EXCEPT !.type = "post.delete"]
      [] m = face -> [Blank EXCEPT !.type = "profile.set", !.avatar = x]]

Plain == {[cid |-> x, avatar |-> FALSE]}
Minted == {[cid |-> x, avatar |-> TRUE]}
NoPictures == [p \in Msgs |-> {}]
MCPictures == [p \in Msgs |-> IF p = post THEN {x, None} ELSE {}]
=============================================================================
