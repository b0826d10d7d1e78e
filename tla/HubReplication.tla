---------------------------- MODULE HubReplication ----------------------------
(***************************************************************************)
(* The message log of every hub and its one-hop pull replication:          *)
(* internal/store (Ingest, IngestReplicated, apply, ReplicationPage,       *)
(* SetPeerCursor), internal/replicate (round, pull, handle) and the write  *)
(* half of internal/api (handleMsg, policy).                               *)
(*                                                                         *)
(* A client may hand an envelope to a hub at any time, and the same one to *)
(* several hubs.  Pictures, threads and translations are other modules'    *)
(* business; so is the token gate, which refuses here by the envelope      *)
(* never being admitted.                                                   *)
(*                                                                         *)
(* A definition named Slip... is the one after it with a plausible mistake *)
(* in it.  Nothing uses it: it serves to show that the property the        *)
(* comment names would notice.                                             *)
(***************************************************************************)
EXTENDS Envelopes, Sequences, FiniteSets

CONSTANTS
    Admins,     \* Admins[h]: the keys the config of h names as admins
    Local,      \* the origin '' of a message ingested on the hub itself
    PageLimit,  \* rows a /v1/replicate page scans at most
    Offers,     \* bound: Offers[h], the envelopes clients ever hand to h
    MaxRequests \* bound: requests a hub has in hand at once

ASSUME AdminsAssumption == Admins \in [Hubs -> SUBSET Authors]
ASSUME LocalAssumption == Local \notin Hubs
ASSUME PageLimitAssumption == PageLimit \in Nat \ {0}

VARIABLES
    log,        \* log[h]: the messages table by rowid, the source of truth
    seqs,       \* seqs[h][a]: the seqs table, the author's high-water mark
    posts,      \* posts[h]: the ids in the posts table
    marks,      \* marks[h]: per (post, box) row, the mark message that holds it
    profiles,   \* profiles[h]: per profile row, the profile.set that wrote it
    bookmarks,  \* bookmarks[h]: the (author, post) rows
    bans,       \* bans[h]: the banned keys
    peers,      \* peers[h]: the hubs h pulls from
    cursor,     \* cursor[h][p]: peer_state.cursor, 0 where there is no row
    admitted,   \* admitted[h]: envelopes past handleMsg's checks, not ingested yet
    puller      \* puller[h]: the goroutine of replicate.Run

derived == <<posts, marks, profiles, bookmarks, bans>>
vars == <<log, seqs, derived, peers, cursor, admitted, puller>>

Entry == [id : Msgs, origin : Hubs \cup {Local}]

\* pull's local variables.  page holds the row numbers of the peer's log that
\* are still to be handled: rows never change, so a row number is its message.
Puller == [pc : {"sleep", "pick", "fetch", "handle", "ingest"},
           todo : SUBSET [hub : Hubs, cursor : Nat],
           peer : Hubs \cup {Local}, cursor : Nat, page : SUBSET Nat, next : Nat]

Asleep == [pc |-> "sleep", todo |-> {}, peer |-> Local, cursor |-> 0,
           page |-> {}, next |-> 0]

-----------------------------------------------------------------------------
Rows(h) == 1 .. Len(log[h])
Ids(h) == {log[h][i].id : i \in Rows(h)}
LocalRow(h, i) == log[h][i].origin = Local

\* For PostsMatchLog: a delete of a post that is not here is let through.
SlipApplies(h, id) ==
    LET e == Env[id] IN
    /\ e.type \in {"post.delete", "post.mark"} => Env[e.post].author = e.author
    /\ e.type = "post.bookmark" /\ e.on => e.post \in posts[h]

\* The store lets apply's checks pass: a delete or a mark is by the owner of a
\* post that is here, a bookmark of a post that is here.
Applies(h, id) ==
    LET e == Env[id] IN
    /\ e.type \in {"post.delete", "post.mark"} =>
          e.post \in posts[h] /\ Env[e.post].author = e.author
    /\ e.type = "post.bookmark" /\ e.on => e.post \in posts[h]

ApplyPosts(h, id) ==
    posts' = [posts EXCEPT ![h] =
        CASE Env[id].type = "post.create" -> @ \cup {id}
          [] Env[id].type = "post.delete" -> @ \ {Env[id].post}
          [] OTHER -> @]

\* For MarksMatchLog: the upsert without its WHERE.
SlipMarksArrival(h, id) ==
    marks' = [marks EXCEPT ![h] =
        CASE Env[id].type = "post.mark" -> {m \in @ : ~SameBox(m, id)} \cup {id}
          [] Env[id].type = "post.delete" -> {m \in @ : Env[m].post # Env[id].post}
          [] OTHER -> @]

\* For FeedSpec: a delete leaves the marks of its post behind.
SlipMarksStay(h, id) ==
    marks' = [marks EXCEPT ![h] =
        IF IsMark(id) /\ \A m \in @ : SameBox(m, id) => Newer(id, m)
        THEN {m \in @ : ~SameBox(m, id)} \cup {id}
        ELSE @]

ApplyMarks(h, id) ==
    marks' = [marks EXCEPT ![h] =
        CASE Env[id].type = "post.mark" ->
                IF \E m \in @ : SameBox(m, id) /\ ~Newer(id, m)
                THEN @
                ELSE {m \in @ : ~SameBox(m, id)} \cup {id}
          [] Env[id].type = "post.delete" -> {m \in @ : Env[m].post # Env[id].post}
          [] OTHER -> @]

ApplyProfiles(h, id) ==
    profiles' = [profiles EXCEPT ![h] =
        IF Env[id].type = "profile.set"
        THEN {m \in @ : Env[m].author # Env[id].author} \cup {id}
        ELSE @]

\* For BookmarksOfPosts: a delete leaves the bookmarks of its post behind.
SlipBookmarksStay(h, id) ==
    LET e == Env[id] IN
    bookmarks' = [bookmarks EXCEPT ![h] =
        CASE e.type = "post.bookmark" /\ e.on -> @ \cup {<<e.author, e.post>>}
          [] e.type = "post.bookmark" /\ ~e.on -> @ \ {<<e.author, e.post>>}
          [] OTHER -> @]

ApplyBookmarks(h, id) ==
    LET e == Env[id] IN
    bookmarks' = [bookmarks EXCEPT ![h] =
        CASE e.type = "post.bookmark" /\ e.on -> @ \cup {<<e.author, e.post>>}
          [] e.type = "post.bookmark" /\ ~e.on -> @ \ {<<e.author, e.post>>}
          [] e.type = "post.delete" -> {b \in @ : b[2] # e.post}
          [] OTHER -> @]

ApplyBans(h, id) ==
    bans' = [bans EXCEPT ![h] =
        CASE Env[id].type = "ban.set" -> @ \cup {Env[id].who}
          [] Env[id].type = "ban.lift" -> @ \ {Env[id].who}
          [] OTHER -> @]

\* A removed peer loses its peer_state row with its peers row.
ApplyPeers(h, id) ==
    LET e == Env[id] IN
    /\ peers' = [peers EXCEPT ![h] =
          CASE e.type = "peer.add" -> @ \cup {e.hub}
            [] e.type = "peer.remove" -> @ \ {e.hub}
            [] OTHER -> @]
    /\ cursor' = [cursor EXCEPT ![h] =
          IF e.type = "peer.remove" THEN [@ EXCEPT ![e.hub] = 0] ELSE @]

apply(h, id) ==
    /\ ApplyPosts(h, id)
    /\ ApplyMarks(h, id)
    /\ ApplyProfiles(h, id)
    /\ ApplyBookmarks(h, id)
    /\ ApplyBans(h, id)
    /\ ApplyPeers(h, id)

\* For LocalSeqIncreasing: the high-water mark is the last seq, not the highest.
SlipCommit(h, id, origin) ==
    /\ log' = [log EXCEPT ![h] = Append(@, [id |-> id, origin |-> origin])]
    /\ seqs' = [seqs EXCEPT ![h] = [@ EXCEPT ![Env[id].author] = Env[id].seq]]

\* The append to the log and the high-water mark, which never goes back.
Commit(h, id, origin) ==
    /\ log' = [log EXCEPT ![h] = Append(@, [id |-> id, origin |-> origin])]
    /\ LET who == Env[id].author
           top == IF Env[id].seq > seqs[h][who] THEN Env[id].seq ELSE seqs[h][who]
       IN  seqs' = [seqs EXCEPT ![h] = [@ EXCEPT ![who] = top]]

\* For IndexNeverInTheWay: the index on (author, seq), before origins.
SlipIndex(h, id, origin) ==
    \A i \in Rows(h) :
        ~ /\ Env[log[h][i].id].author = Env[id].author
          /\ Env[log[h][i].id].seq = Env[id].seq

\* The unique index on (author, seq, origin) has room for the row.
IndexFree(h, id, origin) ==
    \A i \in Rows(h) :
        ~ /\ log[h][i].origin = origin
          /\ Env[log[h][i].id].author = Env[id].author
          /\ Env[log[h][i].id].seq = Env[id].seq

\* For NeverReturns: what came before is taken again.
SlipIngestsAgain(h, id, origin) ==
    /\ origin = Local => Env[id].seq > seqs[h][Env[id].author]
    /\ Applies(h, id)

\* For Delivered: replicated messages too must come in the order of their seqs.
SlipIngestsInOrder(h, id, origin) ==
    /\ id \notin Ids(h)
    /\ Env[id].seq > seqs[h][Env[id].author]
    /\ Applies(h, id)
    /\ IndexFree(h, id, origin)

\* One ingest transaction would commit.  Only a direct message has its seq
\* checked against the high-water mark.
Ingests(h, id, origin) ==
    /\ id \notin Ids(h)
    /\ origin = Local => Env[id].seq > seqs[h][Env[id].author]
    /\ Applies(h, id)
    /\ IndexFree(h, id, origin)

-----------------------------------------------------------------------------
Init ==
    /\ log = [h \in Hubs |-> <<>>]
    /\ seqs = [h \in Hubs |-> [a \in Authors |-> 0]]
    /\ posts = [h \in Hubs |-> {}]
    /\ marks = [h \in Hubs |-> {}]
    /\ profiles = [h \in Hubs |-> {}]
    /\ bookmarks = [h \in Hubs |-> {}]
    /\ bans = [h \in Hubs |-> {}]
    /\ peers = [h \in Hubs |-> {}]
    /\ cursor = [h \in Hubs |-> [p \in Hubs |-> 0]]
    /\ admitted = [h \in Hubs |-> {}]
    /\ puller = [h \in Hubs |-> Asleep]

\* policy: who may write.  A delete passes untouched.
Permitted(h, id) ==
    LET e == Env[id] IN
    /\ e.type \in AdminTypes => e.author \in Admins[h]
    /\ e.type \in {"post.create", "profile.set", "post.bookmark", "post.mark"} =>
          e.author \notin bans[h]

\* handleMsg up to Ingest: an envelope the hub knows is answered at once; a
\* mark is held to the boxes of its post when the post is here.
Admit(h, id) ==
    /\ id \in Offers[h] \ admitted[h]
    /\ Cardinality(admitted[h]) < MaxRequests
    /\ id \notin Ids(h)
    /\ ~(Env[id].type = "peer.add" /\ Env[id].hub = h)
    /\ Permitted(h, id)
    /\ Env[id].type = "post.mark" /\ Env[id].post \in posts[h] =>
          Env[id].box < Env[Env[id].post].boxes
    /\ admitted' = [admitted EXCEPT ![h] = @ \cup {id}]
    /\ UNCHANGED <<log, seqs, derived, peers, cursor, puller>>

\* handleMsg from Ingest on: accepted, or refused by the transaction.
Ingest(h, id) ==
    /\ id \in admitted[h]
    /\ admitted' = [admitted EXCEPT ![h] = @ \ {id}]
    /\ IF Ingests(h, id, Local)
       THEN apply(h, id) /\ Commit(h, id, Local)
       ELSE UNCHANGED <<log, seqs, derived, peers, cursor>>
    /\ UNCHANGED puller

-----------------------------------------------------------------------------
At(h, pc) == puller[h].pc = pc

StartRound(h) ==
    /\ At(h, "sleep")
    /\ puller' = [puller EXCEPT ![h] = [@ EXCEPT
          !.pc = "pick",
          !.todo = {[hub |-> p, cursor |-> cursor[h][p]] : p \in peers[h] \ {h}}]]
    /\ UNCHANGED <<log, seqs, derived, peers, cursor, admitted>>

EndRound(h) ==
    /\ At(h, "pick")
    /\ puller[h].todo = {}
    /\ puller' = [puller EXCEPT ![h] = Asleep]
    /\ UNCHANGED <<log, seqs, derived, peers, cursor, admitted>>

\* For IInv: the cursor is taken for the first row to ask for.
SlipPull(h) ==
    /\ At(h, "pick")
    /\ \E t \in puller[h].todo :
          puller' = [puller EXCEPT ![h] = [@ EXCEPT
              !.pc = "fetch", !.todo = puller[h].todo \ {t},
              !.peer = t.hub, !.cursor = t.cursor + 1]]
    /\ UNCHANGED <<log, seqs, derived, peers, cursor, admitted>>

\* pull works from the cursor the round's snapshot holds.
Pull(h) ==
    /\ At(h, "pick")
    /\ \E t \in puller[h].todo :
          puller' = [puller EXCEPT ![h] = [@ EXCEPT
              !.pc = "fetch", !.todo = puller[h].todo \ {t},
              !.peer = t.hub, !.cursor = t.cursor]]
    /\ UNCHANGED <<log, seqs, derived, peers, cursor, admitted>>

\* The peer is down, refuses replication, or its page does not verify.
FetchFails(h) ==
    /\ At(h, "fetch")
    /\ puller' = [puller EXCEPT ![h] = [@ EXCEPT !.pc = "pick"]]
    /\ UNCHANGED <<log, seqs, derived, peers, cursor, admitted>>

\* For OneHop: the page's query without its WHERE on origin.
SlipScanned(p, after, n) == {i \in (after + 1) .. n : i \in Rows(p)}

\* Local rows of p after a cursor, up to row n.
Scanned(p, after, n) == {i \in (after + 1) .. n : LocalRow(p, i)}

\* Row n ends p's page after a cursor: the last row scanned, the cursor
\* itself when there is none.
PageEnd(p, after, n) ==
    IF Scanned(p, after, Len(log[p])) = {}
    THEN n = after
    ELSE /\ n \in Scanned(p, after, Len(log[p]))
         /\ \/ Cardinality(Scanned(p, after, n)) = PageLimit
            \/ /\ Cardinality(Scanned(p, after, n)) < PageLimit
               /\ Scanned(p, n, Len(log[p])) = {}

\* A verified page: ReplicationPage on the peer, in one read.
Fetch(h) ==
    LET p == puller[h].peer
        after == puller[h].cursor
    IN  /\ At(h, "fetch")
        /\ \E n \in {after} \cup Rows(p) :
              /\ PageEnd(p, after, n)
              /\ puller' = [puller EXCEPT ![h] = [@ EXCEPT
                    !.pc = "handle",
                    !.page = {i \in Scanned(p, after, n) : IsContent(log[p][i].id)},
                    !.next = n]]
        /\ UNCHANGED <<log, seqs, derived, peers, cursor, admitted>>

FirstRow(page, i) == i \in page /\ \A j \in page : i <= j

\* handle's ban check; past it the message's pictures are mirrored, which
\* takes as long as the network does, before it is ingested.
HandleCheck(h) ==
    /\ At(h, "handle")
    /\ \E i \in puller[h].page :
          /\ FirstRow(puller[h].page, i)
          /\ IF Env[log[puller[h].peer][i].id].author \in bans[h]
             THEN puller' = [puller EXCEPT ![h] = [@ EXCEPT !.page = puller[h].page \ {i}]]
             ELSE puller' = [puller EXCEPT ![h] = [@ EXCEPT !.pc = "ingest"]]
    /\ UNCHANGED <<log, seqs, derived, peers, cursor, admitted>>

\* IngestReplicated: a message the transaction refuses is skipped.
HandleIngest(h) ==
    LET p == puller[h].peer IN
    /\ At(h, "ingest")
    /\ \E i \in puller[h].page :
          /\ FirstRow(puller[h].page, i)
          /\ IF Ingests(h, log[p][i].id, p)
             THEN apply(h, log[p][i].id) /\ Commit(h, log[p][i].id, p)
             ELSE UNCHANGED <<log, seqs, derived, peers, cursor>>
          /\ puller' = [puller EXCEPT ![h] = [@ EXCEPT !.pc = "handle", !.page = puller[h].page \ {i}]]
    /\ UNCHANGED admitted

\* For PulledKept: the cursor is saved before the page is through.
SlipPageDone(h) ==
    /\ At(h, "handle")
    /\ IF puller[h].next <= puller[h].cursor
       THEN /\ puller' = [puller EXCEPT ![h] = [@ EXCEPT !.pc = "pick"]]
            /\ UNCHANGED cursor
       ELSE /\ cursor' = [cursor EXCEPT ![h] = [@ EXCEPT ![puller[h].peer] = puller[h].next]]
            /\ puller' = [puller EXCEPT ![h] = [@ EXCEPT !.pc = "fetch", !.cursor = puller[h].next]]
    /\ UNCHANGED <<log, seqs, derived, peers, admitted>>

\* The page is through: the peer is drained, or the cursor moves and the next
\* page is asked for.  SetPeerCursor is an upsert, whatever peers holds by now.
PageDone(h) ==
    /\ At(h, "handle")
    /\ puller[h].page = {}
    /\ IF puller[h].next <= puller[h].cursor
       THEN /\ puller' = [puller EXCEPT ![h] = [@ EXCEPT !.pc = "pick"]]
            /\ UNCHANGED cursor
       ELSE /\ cursor' = [cursor EXCEPT ![h] = [@ EXCEPT ![puller[h].peer] = puller[h].next]]
            /\ puller' = [puller EXCEPT ![h] = [@ EXCEPT !.pc = "fetch", !.cursor = puller[h].next]]
    /\ UNCHANGED <<log, seqs, derived, peers, admitted>>

\* The process stops and starts again: the tables stay, requests and the
\* puller's place in its round are lost.
Restart(h) ==
    /\ \/ puller[h].pc \in {"fetch", "handle", "ingest"}
       \/ puller[h].todo # {}
       \/ admitted[h] # {}
    /\ puller' = [puller EXCEPT ![h] = Asleep]
    /\ admitted' = [admitted EXCEPT ![h] = {}]
    /\ UNCHANGED <<log, seqs, derived, peers, cursor>>

PullerStep(h) ==
    \/ StartRound(h)
    \/ EndRound(h)
    \/ Pull(h)
    \/ FetchFails(h)
    \/ Fetch(h)
    \/ HandleCheck(h)
    \/ HandleIngest(h)
    \/ PageDone(h)

Next ==
    \E h \in Hubs :
        \/ \E id \in Msgs : Admit(h, id) \/ Ingest(h, id)
        \/ PullerStep(h)
        \/ Restart(h)

Spec == Init /\ [][Next]_vars

-----------------------------------------------------------------------------
\* The types of the tables and of pull's variables.
TypeOK ==
    /\ log \in [Hubs -> Seq(Entry)]
    /\ seqs \in [Hubs -> [Authors -> Nat]]
    /\ posts \in [Hubs -> SUBSET Msgs]
    /\ marks \in [Hubs -> SUBSET Msgs]
    /\ profiles \in [Hubs -> SUBSET Msgs]
    /\ bookmarks \in [Hubs -> SUBSET (Authors \X Msgs)]
    /\ bans \in [Hubs -> SUBSET Authors]
    /\ peers \in [Hubs -> SUBSET Hubs]
    /\ cursor \in [Hubs -> [Hubs -> Nat]]
    /\ admitted \in [Hubs -> SUBSET Msgs]
    /\ puller \in [Hubs -> Puller]

\* What a client wrote on one hub stands in its log in the order of its seqs,
\* whatever was replicated in between: the replay protection of Ingest, which
\* rests on seqs never falling behind the log.
LocalSeqIncreasing ==
    \A h \in Hubs : \A i, j \in Rows(h) :
        /\ i < j
        /\ LocalRow(h, i) /\ LocalRow(h, j)
        /\ Env[log[h][i].id].author = Env[log[h][j].id].author
        => Env[log[h][i].id].seq < Env[log[h][j].id].seq

\* Strictly one hop, content only: a message recorded as pulled from p was
\* written on p itself, so mutual peering cannot echo and a peer's peers
\* never flow through.
OneHop ==
    \A h, p \in Hubs : \A i \in Rows(h) : log[h][i].origin = p =>
        /\ IsContent(log[h][i].id)
        /\ \E j \in Rows(p) : log[p][j] = [id |-> log[h][i].id, origin |-> Local]

\* The unique index on (author, seq, origin) never costs a hub a message its
\* peer serves: although replicated messages skip the seq check, no two
\* messages of one origin share an author and a seq.
IndexNeverInTheWay ==
    \A h, p \in Hubs : \A i \in Rows(p) :
        LocalRow(p, i) /\ log[p][i].id \notin Ids(h) => IndexFree(h, log[p][i].id, p)

\* The posts table is what the accepted messages mean in any order: a delete
\* is never outrun by a second arrival of its post, and takes no other post.
PostsMatchLog == \A h \in Hubs : posts[h] = LiveOf(Ids(h))

\* So is the marks table: two hubs that took the same marks of a post in
\* different orders show the same boxes ticked.
MarksMatchLog == \A h \in Hubs : marks[h] = HeldOf(Ids(h))

\* No bookmark outlives its post.
BookmarksOfPosts == \A h \in Hubs : \A b \in bookmarks[h] : b[2] \in posts[h]

\* The messages no hub has a reason to refuse but a ban of their author.
Kept == {"post.create", "profile.set"}

EverBanned(h, a) ==
    \E i \in Rows(h) : Env[log[h][i].id].type = "ban.set" /\ Env[log[h][i].id].who = a

\* Row i of p is of no further interest to h: it is no message that h would
\* keep, or h kept it, or h banned its author.
Settled(h, p, i) ==
    /\ i \in Rows(p)
    /\ LocalRow(p, i) /\ Env[log[p][i].id].type \in Kept
          => log[p][i].id \in Ids(h) \/ EverBanned(h, Env[log[p][i].id].author)

SettledTo(h, p, n) == \A i \in 1 .. n : Settled(h, p, i)

\* A cursor never passes a post or a profile that was not taken: whatever
\* restarts, failed pages, or removals of the peer came between, each one on
\* a row the cursor covers is in the log, unless its author was banned here.
PulledKept == \A h, p \in Hubs : SettledTo(h, p, cursor[h][p])

\* A hub's feed is the abstract feed of HubFeed.
Feed == INSTANCE HubFeed WITH taken <- [h \in Hubs |-> Ids(h)], live <- posts, held <- marks

FeedSpec == Feed!Spec

\* A deleted post never comes back, though it goes on being served by the hubs
\* where the delete never was, and may be offered again anywhere.
NeverReturns == Feed!NeverReturns

-----------------------------------------------------------------------------
\* handle in replicate.go skips what it cannot take because "a message
\* rejected today would be rejected on every future pass too": no message the
\* cursor has passed could be taken now.
RejectedForGood ==
    \A h, p \in Hubs : \A i \in Rows(p) :
        /\ i <= cursor[h][p]
        /\ LocalRow(p, i) /\ IsContent(log[p][i].id)
        /\ Env[log[p][i].id].author \notin bans[h]
        => ~Ingests(h, log[p][i].id, p)

\* n was written on a hub that already had m.
Follows(n, m) ==
    \E p \in Hubs : \E i, j \in Rows(p) :
        i < j /\ log[p][i].id = m /\ log[p][j] = [id |-> n, origin |-> Local]

\* PLAN.md on profile.set: "Last-write-wins by `seq`".  No profile in force is
\* older than one this hub also took, not even when the two were never
\* concurrent: the newer one was written where the older one was known.
ProfileLastWriteWins ==
    \A h \in Hubs : \A m \in profiles[h] : \A n \in Ids(h) :
        /\ Env[n].type = "profile.set" /\ Env[n].author = Env[m].author
        /\ Follows(n, m)
        => Env[n].seq <= Env[m].seq

-----------------------------------------------------------------------------
\* The puller's loop runs for the life of the process, the restarts that
\* interrupt it come to an end (one between two rounds may look to the rest
\* of the state like a refused request and need not), and a peer that is asked
\* again and again answers some time.
Fairness ==
    /\ \A h \in Hubs : WF_vars(PullerStep(h)) /\ SF_vars(Fetch(h))
    /\ <>[][\A h \in Hubs : Restart(h) => puller[h] = Asleep]_vars

FairSpec == Spec /\ Fairness

\* What is written on a hub reaches every hub that keeps it as a peer.
Delivered ==
    \A h \in Hubs : \A p \in Hubs \ {h}, id \in {m \in Msgs : Env[m].type \in Kept} :
        ( /\ p \in peers[h]
          /\ \E i \in Rows(p) : log[p][i] = [id |-> id, origin |-> Local] )
        ~> \/ id \in Ids(h)
           \/ p \notin peers[h]
           \/ EverBanned(h, Env[id].author)

-----------------------------------------------------------------------------
\* The inductive invariant of the proofs, part by part.

LogUnique ==
    \A h \in Hubs : \A i, j \in Rows(h) : log[h][i].id = log[h][j].id => i = j

SeqsCoverLog ==
    \A h \in Hubs : \A i \in Rows(h) :
        Env[log[h][i].id].seq <= seqs[h][Env[log[h][i].id].author]

\* Two messages of one author in one hub's log with the same origin differ in
\* their seqs: the unique index holds of its own.
IndexUnique ==
    \A h \in Hubs : \A i, j \in Rows(h) :
        /\ log[h][i].origin = log[h][j].origin
        /\ Env[log[h][i].id].author = Env[log[h][j].id].author
        /\ Env[log[h][i].id].seq = Env[log[h][j].id].seq
        => i = j

TargetsInLog == \A h \in Hubs : Closed(Ids(h))

MarksOutdone == \A h \in Hubs : Outdone(Ids(h))

BansInLog == \A h \in Hubs : \A a \in bans[h] : EverBanned(h, a)

\* What the puller of h relies on, wherever it stands.
PullOK(h) ==
    LET q == puller[h] IN
    /\ \A t \in q.todo : SettledTo(h, t.hub, t.cursor)
    /\ q.pc \in {"fetch", "handle", "ingest"} =>
          q.peer \in Hubs /\ SettledTo(h, q.peer, q.cursor)
    /\ q.pc \in {"handle", "ingest"} =>
          /\ \A i \in q.page : /\ i \in Rows(q.peer)
                               /\ LocalRow(q.peer, i)
                               /\ IsContent(log[q.peer][i].id)
          /\ \A i \in 1 .. q.next : i \in q.page \/ Settled(h, q.peer, i)

IInv ==
    /\ TypeOK
    /\ LogUnique
    /\ SeqsCoverLog
    /\ LocalSeqIncreasing
    /\ OneHop
    /\ IndexUnique
    /\ TargetsInLog
    /\ PostsMatchLog
    /\ MarksMatchLog
    /\ MarksOutdone
    /\ BansInLog
    /\ PulledKept
    /\ \A h \in Hubs : PullOK(h)
=============================================================================
