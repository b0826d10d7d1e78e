------------------------------ MODULE Envelopes ------------------------------
(***************************************************************************)
(* The signed messages of internal/envelope, and what a set of them means. *)
(*                                                                         *)
(* An envelope is a number, its content hash: the bytes never change, and  *)
(* Env says what they decode to.  Hashes are compared by the store only to *)
(* break a tie, so their order is the order of the numbers.                *)
(***************************************************************************)
EXTENDS Integers

CONSTANTS
    Hubs,       \* hub identities
    Authors,    \* author keys; a profile id stands for its key
    Msgs,       \* message ids
    Env         \* Env[id]: the envelope whose hash is id

ContentTypes == {"profile.set", "post.create", "post.delete", "post.mark"}
\* What an invite changes is the door's (HubDoor).
AdminTypes == {"ban.set", "ban.lift", "peer.add", "peer.remove", "invite.set", "invite.lift"}
Types == ContentTypes \cup AdminTypes \cup {"post.bookmark"}

\* What an envelope says.  post is the post a delete, mark or bookmark names,
\* who the key a ban names, hub the hub a peer operation names, box the box a
\* mark sets, boxes how many boxes the text of a post has, on the state a
\* bookmark asks for.  Fields a type does not have hold any value.
Envelope == [type : Types, author : Authors, seq : Nat \ {0}, ts : Nat,
             post : Msgs, who : Authors, hub : Hubs, box : Nat, boxes : Nat,
             on : BOOLEAN]

ASSUME MsgsAssumption == Msgs \subseteq Nat
ASSUME EnvAssumption == Env \in [Msgs -> Envelope]

IsCreate(id) == Env[id].type = "post.create"
IsMark(id) == Env[id].type = "post.mark"
IsContent(id) == Env[id].type \in ContentTypes
Deletes(id, post) == Env[id].type = "post.delete" /\ Env[id].post = post

\* Two marks write the same row of the marks table.
SameBox(m, n) == Env[m].post = Env[n].post /\ Env[m].box = Env[n].box

\* The upsert's WHERE: by the mark's own ts, then its id, never by arrival.
Newer(m, n) == \/ Env[m].ts > Env[n].ts
               \/ Env[m].ts = Env[n].ts /\ m > n

\* What a set of accepted messages means, whatever order they came in: the
\* posts that stand, and the mark that holds each box of a standing post.
LiveOf(S) == {m \in S : IsCreate(m) /\ \A d \in S : ~Deletes(d, m)}

HeldOf(S) == {m \in S : /\ IsMark(m)
                        /\ Env[m].post \in LiveOf(S)
                        /\ \A n \in S : IsMark(n) /\ SameBox(n, m) => ~Newer(n, m)}

\* A set of messages holds the post of each of its deletes and marks.
Closed(S) ==
    \A m \in S : Env[m].type \in {"post.delete", "post.mark"} => Env[m].post \in S

\* Every mark of a standing post is held or outdone by one that is.
Outdone(S) ==
    \A n \in S : IsMark(n) /\ Env[n].post \in LiveOf(S) =>
        \E m \in HeldOf(S) : SameBox(m, n) /\ (m = n \/ Newer(m, n))
=============================================================================
