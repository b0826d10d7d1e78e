------------------------------- MODULE HubNotices -------------------------------
(***************************************************************************)
(* What follows a post or its delete once it is committed: the event bus   *)
(* (internal/events), a thread page open in a browser and kept live by the *)
(* stream of /v1/events (handleEvents, and the page's script in            *)
(* internal/api/web.html), and the push notifier (internal/push), whose    *)
(* subscribers are the push_subs table.                                    *)
(*                                                                         *)
(* The posts are HubThreads'.  OnMessage runs after the commit, on the     *)
(* goroutine of its request: events go out in another order than their     *)
(* commits.  The thread is that of the post Page; the page and the         *)
(* notifier each have a buffer on the bus.  A subscriber is known by the   *)
(* profile it is signed in as.                                             *)
(***************************************************************************)
EXTENDS HubThreads, Sequences

CONSTANTS
    People,     \* who may subscribe
    Page,       \* the root whose thread page is open
    Buffer,     \* events a subscriber of the bus has waiting at most
    PushMax,    \* subscribers the hub takes
    Holds,      \* Holds[p]: whose "@" and id its text holds, shown as a mention or not
    Readers,    \* who reads their notifications
    PageLimit,  \* posts a page of the notifications holds
    Joins,      \* bound: the times a browser tells the hub of its subscription
    Breaks      \* bound: the times the page's line goes down

ASSUME PageAssumption == Page \in Posts /\ Parent[Page] = None
\* A mention shown is an "@" and an id in the text.
ASSUME HoldsAssumption == \A p \in Posts : Names[p] \subseteq Holds[p]
ASSUME BufferAssumption == {Buffer, PushMax, PageLimit} \subseteq Nat \ {0}

VARIABLES
    emits,      \* the events committed and not yet emitted
    line,       \* the page's stream: "none", "served" before it is opened, "up", "down"
    stream,     \* what the stream has waiting for the page
    page,       \* the page and its script
    inbox,      \* what the bus has waiting for the notifier
    notifier,   \* the post it has in hand, and the subscribers it read
    subs,       \* push_subs
    joining,    \* subscribers that were counted in and are not yet in subs
    told,       \* pushes sent: [post, who, why]
    due,        \* replies to a subscriber's post, as they were committed
    missed,     \* who missed an event, and has not read the hub since: "page", "notifier"
    joins, breaks

live == <<line, stream, page, missed, breaks>>
pushing == <<inbox, notifier, subs, joining, told, due, joins>>
vars == <<threads, emits, live, pushing>>

\* An event of the bus; root as the transaction read it before it applied.
Event == [type : {"create", "delete"}, id : Posts, root : Posts \cup {None}]

\* owed is the timer of poke; busy is a fetch, asked for or drawn by the hub.
PageState == [shown : SUBSET Posts, owed : BOOLEAN, wanted : BOOLEAN,
              busy : {"no", "asked", "drawn"}, drawn : SUBSET Posts]

Closed == [shown |-> {}, owed |-> FALSE, wanted |-> FALSE, busy |-> "no", drawn |-> {}]
Nothing == [id |-> None, subs |-> {}]

Init ==
    /\ ThreadsInit
    /\ emits = {}
    /\ line = "none" /\ stream = <<>> /\ page = Closed /\ missed = {} /\ breaks = 0
    /\ inbox = <<>> /\ notifier = Nothing
    /\ subs = {} /\ joining = {} /\ joins = 0
    /\ told = {} /\ due = {}

-----------------------------------------------------------------------------
(* Commits and the bus.                                                    *)

CommitStamp(p) == Stamp(p) /\ UNCHANGED <<emits, live, pushing>>

\* A reply is due to the author of the post it answers, if they subscribe.
CommitCreate(p) ==
    /\ Create(p)
    /\ emits' = emits \cup {[type |-> "create", id |-> p,
                             root |-> IF Parent[p] = None THEN None ELSE RootOf(Parent[p])]}
    /\ due' = due \cup {[post |-> p, who |-> Author[q]] :
                 q \in {q \in {Parent[p]} \cap held : Author[q] \in subs \ {Author[p]}}}
    /\ UNCHANGED <<live, inbox, notifier, subs, joining, told, joins>>

DeleteEvent(p) == [type |-> "delete", id |-> p, root |-> RootOf(p)]

CommitDelete(p) ==
    /\ Delete(p)
    /\ emits' = emits \cup {DeleteEvent(p)}
    /\ UNCHANGED <<live, pushing>>

\* The select of Emit: a full buffer drops the event.
Put(buffer, e) == IF Len(buffer) < Buffer THEN Append(buffer, e) ELSE buffer

\* Emit never blocks.
Emit(e) ==
    /\ e \in emits
    /\ emits' = emits \ {e}
    /\ stream' = IF line = "up" THEN Put(stream, e) ELSE stream
    /\ inbox' = Put(inbox, e)
    /\ missed' = missed \cup (IF line = "served" \/ (line = "up" /\ Len(stream) = Buffer)
                              THEN {"page"} ELSE {})
                        \cup (IF Len(inbox) = Buffer THEN {"notifier"} ELSE {})
    /\ UNCHANGED <<threads, line, page, breaks, notifier, subs, joining, told, due, joins>>

-----------------------------------------------------------------------------
(* The page.                                                               *)

\* The hub serves the page; its script has not opened the stream yet.
Serve ==
    /\ line = "none" /\ Page \in held
    /\ line' = "served"
    /\ page' = [Closed EXCEPT !.shown = Thread(Page)]
    /\ UNCHANGED <<threads, emits, stream, missed, breaks, pushing>>

\* The stream's first open fetches nothing.
Open ==
    /\ line = "served"
    /\ line' = "up"
    /\ UNCHANGED <<threads, emits, stream, page, missed, breaks, pushing>>

\* The line goes down, with what it had waiting; onerror, or 60 s of silence.
Break ==
    /\ line = "up" /\ breaks < Breaks
    /\ line' = "down" /\ stream' = <<>> /\ breaks' = breaks + 1
    /\ UNCHANGED <<threads, emits, page, missed, pushing>>

\* For LivePageTrue: a reconnect fetches nothing either.
SlipReopened(s) == s

\* onopen after the line was down: a fetch is owed.
Reopened(s) == [s EXCEPT !.owed = TRUE]

Reopen ==
    /\ line = "down"
    /\ line' = "up"
    /\ page' = Reopened(page)
    /\ UNCHANGED <<threads, emits, stream, missed, breaks, pushing>>

\* mine: while a fetch is in the air every event counts.
IsMine(e) == \/ page.busy # "no"
             \/ e.root = Page \/ e.id = Page
             \/ {e.id, IF e.type = "create" THEN Parent[e.id] ELSE None} \cap page.shown # {}

Hear ==
    /\ line = "up" /\ stream # <<>>
    /\ stream' = Tail(stream)
    /\ page' = IF IsMine(Head(stream)) THEN [page EXCEPT !.owed = TRUE] ELSE page
    /\ UNCHANGED <<threads, emits, line, missed, breaks, pushing>>

\* The timer: a fetch begins, or one more is wanted after the one in the air.
Refresh ==
    /\ page.owed
    /\ page' = IF page.busy = "no" THEN [page EXCEPT !.owed = FALSE, !.wanted = FALSE, !.busy = "asked"]
               ELSE [page EXCEPT !.owed = FALSE, !.wanted = TRUE]
    /\ UNCHANGED <<threads, emits, line, stream, missed, breaks, pushing>>

\* The hub draws the page, a read of Thread; a root that is gone is a reload.
Draw ==
    /\ page.busy = "asked"
    /\ page' = IF Page \in held THEN [page EXCEPT !.busy = "drawn", !.drawn = Thread(Page)] ELSE Closed
    /\ line' = IF Page \in held THEN line ELSE "none"
    /\ stream' = IF Page \in held THEN stream ELSE <<>>
    /\ missed' = missed \ {"page"}
    /\ UNCHANGED <<threads, emits, breaks, pushing>>

\* The answer is swapped in.
Swap ==
    /\ page.busy = "drawn"
    /\ page' = [page EXCEPT !.shown = page.drawn, !.busy = "no", !.drawn = {}, !.owed = @ \/ page.wanted]
    /\ UNCHANGED <<threads, emits, line, stream, missed, breaks, pushing>>

\* It does not come: a fetch is owed.
Failed(s) == [s EXCEPT !.busy = "no", !.drawn = {}, !.owed = TRUE]

FetchFails ==
    /\ page.busy # "no"
    /\ page' = Failed(page)
    /\ UNCHANGED <<threads, emits, line, stream, missed, breaks, pushing>>

-----------------------------------------------------------------------------
(* The notifier and its subscribers.                                       *)

\* handlePushSubscribe counts, and then adds.
Subscribe(who) ==
    /\ joins < Joins
    /\ who \notin joining
    /\ who \in subs \/ Cardinality(subs) < PushMax
    /\ joins' = joins + 1
    /\ joining' = joining \cup {who}
    /\ UNCHANGED <<threads, emits, live, inbox, notifier, subs, told, due>>

PushAdd(who) ==
    /\ who \in joining
    /\ joining' = joining \ {who}
    /\ subs' = subs \cup {who}
    /\ UNCHANGED <<threads, emits, live, inbox, notifier, told, due, joins>>

\* PushRemove, on the browser's word; nothing is due to it any more.
Unsubscribe(who) ==
    /\ who \in subs
    /\ subs' = subs \ {who}
    /\ due' = {d \in due : d.who # who}
    /\ UNCHANGED <<threads, emits, live, inbox, notifier, joining, told, joins>>

\* Run and the first read of notify: an event of a post, and who subscribes.
Notice ==
    LET e == Head(inbox) IN
    /\ notifier = Nothing /\ inbox # <<>>
    /\ inbox' = Tail(inbox)
    /\ notifier' = IF e.type = "create" /\ subs # {} THEN [id |-> e.id, subs |-> subs] ELSE Nothing
    /\ UNCHANGED <<threads, emits, live, subs, joining, told, due, joins>>

\* audience, as it is when the notifier reads it.
Answered(p) == {Author[q] : q \in {Parent[p]} \cap held}
Followed(p) == IF Parent[p] = None \/ RootOf(p) = None THEN {} ELSE ThreadAuthors(RootOf(p))

\* For AnsweredTold: the mention is looked at before the answer.
SlipWhy(p, who) ==
    IF who = Author[p] THEN "skip"
    ELSE IF who \in Names[p] THEN "mention"
    ELSE IF who \in Answered(p) THEN "reply"
    ELSE IF who \in Followed(p) THEN "thread" ELSE "skip"

\* why: an answer before a mention, a mention before a thread.
Why(p, who) ==
    IF who = Author[p] THEN "skip"
    ELSE IF who \in Answered(p) THEN "reply"
    ELSE IF who \in Names[p] THEN "mention"
    ELSE IF who \in Followed(p) THEN "thread" ELSE "skip"

\* Send: at a service that answers 404 or 410 a subscription is gone; here one of
\* those sent to, at most.
Gone(to) == {{}} \cup {{w} : w \in to}

\* The rest of notify: a post that is gone concerns nobody; what is gone is
\* forgotten once all are sent to.
Push ==
    LET p == notifier.id
        to == IF p \in held THEN {w \in notifier.subs : Why(p, w) # "skip"} ELSE {}
    IN  /\ notifier # Nothing
        /\ notifier' = Nothing
        /\ \E lost \in Gone(to) :
              /\ subs' = subs \ lost
              /\ told' = told \cup {[post |-> p, who |-> w, why |-> Why(p, w)] : w \in to \ lost}
              /\ due' = {d \in due : d.who \notin lost}
        /\ UNCHANGED <<threads, emits, live, inbox, joining, joins>>

Next ==
    \/ \E p \in Posts : CommitStamp(p) \/ CommitCreate(p) \/ CommitDelete(p)
    \/ \E e \in emits : Emit(e)
    \/ Serve \/ Open \/ Break \/ Reopen
    \/ Hear \/ Refresh \/ Draw \/ Swap \/ FetchFails
    \/ \E who \in People : Subscribe(who) \/ PushAdd(who) \/ Unsubscribe(who)
    \/ Notice \/ Push

Spec == Init /\ [][Next]_vars

-----------------------------------------------------------------------------
(* The notifications list of a signed-in reader.                           *)

\* concernCTE: the roots of the threads me wrote in, found from each of its
\* posts, and the time of its first post there.
Whole(r) == Tree(held, r) \cup {r}
Mine(me, r) == {p \in Whole(r) : Author[p] = me}
Joined(me) == {r \in held : Parent[r] = None /\ Mine(me, r) # {}}
Since(me, r) == CHOOSE t \in {received[p] : p \in Mine(me, r)} : \A p \in Mine(me, r) : t <= received[p]

\* For PagesFilled: the walk down starts under the root.
SlipInThreads(me) == UNION {{p \in Tree(held, r) : received[p] > Since(me, r)} : r \in Joined(me)}

\* The walk down starts at the root: a root that comes after me's first post under
\* it is a row too.
InThreads(me) == UNION {{p \in Whole(r) : received[p] > Since(me, r)} : r \in Joined(me)}

\* The rows: what may concern me, a text that holds its id at all among them.
Candidates(me) ==
    LET inThreads == InThreads(me) IN
    {p \in held : Author[p] # me /\ (me \in Answered(p) \cup Holds[p] \/ p \in inThreads)}

\* Those of a set of rows that are listed, their texts looked at: an answer, a
\* mention that is one, a thread.
Listed(me, rows) ==
    LET inThreads == InThreads(me) IN
    {p \in rows : me \in Answered(p) \cup Names[p] \/ p \in inThreads}

\* The first n of a set of posts, the last to come first.
Firsts(ps, n) == {p \in ps : Cardinality({q \in ps : Later(q, p)}) < n}

\* The one that came first, the last row of a batch.
Oldest(ps) == CHOOSE p \in ps : \A q \in ps \ {p} : Later(q, p)

Behind(ps, cursor) == {p \in ps : cursor = None \/ Later(cursor, p)}

\* For PagesFilled: a batch with nothing to list ends the page.
SlipMore(rows, full, limit) == Cardinality(full) > 0 /\ Cardinality(rows) = limit

\* Whether there may be more behind a batch.
More(rows, full, limit) == Cardinality(rows) = limit

\* A batch: the rows behind the cursor, those of them that are listed; the next
\* one is read if the page is not full.
Batch(list, candidates, listed, limit) ==
    LET rows == Firsts(Behind(candidates, list.cursor), limit)
        full == Firsts(list.ids \cup (rows \cap listed), limit)
        more == Cardinality(full) < limit /\ More(rows, full, limit)
    IN  [cursor |-> IF more THEN Oldest(rows) ELSE list.cursor,
         ids |-> full, more |-> more]

\* notifications: batch after batch, from before, while there are more; every
\* batch that has more behind it holds a post at least.
Notifications(candidates, listed, before, limit) ==
    LET filled[n \in 0 .. Cardinality(Posts)] ==
            IF n = 0 THEN [cursor |-> before, ids |-> {}, more |-> TRUE]
            ELSE IF filled[n - 1].more THEN Batch(filled[n - 1], candidates, listed, limit)
            ELSE filled[n - 1]
    IN  filled[Cardinality(Posts)].ids

-----------------------------------------------------------------------------
\* The types of the tables, the bus and the page.
TypeOK ==
    /\ clock \in 0 .. MaxTime /\ stamped \in [Posts -> 0 .. MaxTime]
    /\ held \subseteq Posts /\ gone \subseteq Posts
    /\ received \in [Posts -> 0 .. MaxTime] /\ activity \in [Posts -> 0 .. MaxTime]
    /\ last \in [Posts -> Posts \cup {None}]
    /\ emits \subseteq Event
    /\ line \in {"none", "served", "up", "down"}
    /\ \A b \in {stream, inbox} : b \in Seq(Event) /\ Len(b) <= Buffer
    /\ page \in PageState
    /\ notifier \in [id : Posts \cup {None}, subs : SUBSET People]
    /\ subs \subseteq People /\ joining \subseteq People
    /\ told \subseteq [post : Posts, who : People, why : {"reply", "mention", "thread"}]
    /\ due \subseteq [post : Posts, who : People]
    /\ missed \subseteq {"page", "notifier"}

\* LastReplyStands (the walk up of src/internal/store/store.go:531), with the types.
ThreadsTrue == TypeOK /\ LastReplyStands

\* A thread page that has heard all there is to hear, and fetches nothing, shows
\* the thread as it is: in whatever order the events went out, whichever fetch
\* they met in the air, and though a reply came before the one it answers;
\* unless an event fell between the page and its stream, or was dropped.
LivePageTrue ==
    (/\ line = "up" /\ stream = <<>> /\ emits = {}
     /\ ~page.owed /\ page.busy = "no"
     /\ "page" \notin missed)
    => page.shown = Thread(Page)

\* Once the notifier has read all there is to read, the author of a post has
\* been told of every reply to it that was committed while they subscribed, as
\* an answer; unless the reply or their post went first, or an event was dropped.
AnsweredTold ==
    (inbox = <<>> /\ emits = {} /\ notifier = Nothing /\ "notifier" \notin missed)
    => \A d \in due : {d.post, Parent[d.post]} \subseteq held =>
          [post |-> d.post, who |-> d.who, why |-> "reply"] \in told

\* What concerns a reader: a post by another that answers them or names them, or
\* that came later than one of theirs in the same thread.
Together(p, q) == \E r \in held : Parent[r] = None /\ {p, q} \subseteq Whole(r)

Concerns(me) ==
    {p \in held : Author[p] # me
        /\ \/ me \in Answered(p) \cup Names[p]
           \/ \E q \in held : Author[q] = me /\ received[q] < received[p] /\ Together(p, q)}

\* A page of the list is the newest that concern the reader behind the cursor,
\* as many as a page holds: whatever candidates its batches leave out on the way,
\* and in whatever order a thread came, its root after the reader's reply to it.
PagesFilled ==
    \A me \in Readers :
        LET rows == Candidates(me)
            listed == Listed(me, rows)
            concern == Concerns(me)
        IN  \A before \in held \cup {None} :
               Notifications(rows, listed, before, PageLimit)
                   = Firsts(Behind(concern, before), PageLimit)

\* WhyThread: "a reply in a thread they wrote in, after their first post there";
\* and concernCTE's comment: "what a subscription would have been pushed then", the
\* notifier telling of a root whom it names only.  It does not hold: a root may come after a
\* reply to it, and is listed.
ThreadsListReplies ==
    \A me \in Readers : \A p \in InThreads(me) : Author[p] # me => Parent[p] # None
=============================================================================
