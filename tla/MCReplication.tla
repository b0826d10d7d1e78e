---------------------------- MODULE MCReplication ----------------------------
(***************************************************************************)
(* Small instances of HubReplication: sets of envelopes that clients and   *)
(* admins may hand to the hubs, in any order and to any of them.           *)
(***************************************************************************)
EXTENDS HubReplication, TLC

CONSTANTS a, b, c,          \* hubs
          alice,            \* an author
          ra, rb, rc        \* the admins of a, b and c

\* An envelope with the fields its type has, the others at a fixed value.
Blank == [type |-> "post.create", author |-> alice, seq |-> 1, ts |-> 1, post |-> 1,
          who |-> alice, hub |-> a, box |-> 0, boxes |-> 1, on |-> TRUE]

Create(who, seq) == [Blank EXCEPT !.author = who, !.seq = seq]
Delete(who, seq, post) ==
    [Blank EXCEPT !.type = "post.delete", !.author = who, !.seq = seq, !.post = post]
Mark(who, seq, post, ts) ==
    [Blank EXCEPT !.type = "post.mark", !.author = who, !.seq = seq, !.post = post, !.ts = ts]
Bookmark(who, seq, post, on) ==
    [Blank EXCEPT !.type = "post.bookmark", !.author = who, !.seq = seq, !.post = post, !.on = on]
Profile(who, seq) == [Blank EXCEPT !.type = "profile.set", !.author = who, !.seq = seq]
Ban(by, seq, who) ==
    [Blank EXCEPT !.type = "ban.set", !.author = by, !.seq = seq, !.who = who]
Lift(by, seq, who) ==
    [Blank EXCEPT !.type = "ban.lift", !.author = by, !.seq = seq, !.who = who]
AddPeer(by, seq, hub) ==
    [Blank EXCEPT !.type = "peer.add", !.author = by, !.seq = seq, !.hub = hub]
RemovePeer(by, seq, hub) ==
    [Blank EXCEPT !.type = "peer.remove", !.author = by, !.seq = seq, !.hub = hub]

MCAdmins == [h \in Hubs |-> CASE h = a -> {ra} [] h = b -> {rb} [] OTHER -> {rc}]

\* Two hubs that pull from each other, one author on both: a post, a mark of
\* one box signed on each hub with the same seq, and the delete.
EnvMarks == <<Create(alice, 1), Mark(alice, 2, 1, 5), Mark(alice, 2, 1, 4),
              Delete(alice, 3, 1), AddPeer(ra, 1, b), AddPeer(rb, 1, a)>>

OffersMarks == [h \in Hubs |-> IF h = a THEN {1, 2, 4, 5} ELSE {3, 4, 6}]

\* b pulls from a, removes it, and bans and forgives; the author bookmarks and
\* unbookmarks on b with seqs past those of the post and its delete on a.
EnvModeration == <<Create(alice, 1), Bookmark(alice, 4, 1, TRUE), Delete(alice, 2, 1),
                   AddPeer(rb, 1, a), RemovePeer(rb, 2, a), Ban(rb, 3, alice),
                   Lift(rb, 4, alice), Bookmark(alice, 3, 1, FALSE)>>

OffersModeration == [h \in Hubs |-> IF h = a THEN {1, 3} ELSE {2, 4, 5, 6, 7, 8}]

\* Three hubs: c pulls from a and b, b pulls from a.  The author posts on a and
\* deletes on b.
EnvThree == <<Create(alice, 1), Delete(alice, 2, 1),
              AddPeer(rb, 1, a), AddPeer(rc, 1, a), AddPeer(rc, 2, b)>>

\* The same with two profiles in place of the post and its delete.
EnvProfiles == [EnvThree EXCEPT ![1] = Profile(alice, 1), ![2] = Profile(alice, 2)]

OffersThree == [h \in Hubs |-> CASE h = a -> {1} [] h = b -> {2, 3} [] OTHER -> {4, 5}]
=============================================================================
