-------------------------------- MODULE HubCards --------------------------------
(***************************************************************************)
(* What a post's links yield: its card, a quote of a post here or a page   *)
(* fetched from the web, the pictures its IPFS links name, and the copy    *)
(* the Internet Archive keeps of the page.  internal/card (worker.go,      *)
(* archive.go) and the cards and pictures tables of internal/store.        *)
(*                                                                         *)
(* A request only enqueues.  One goroutine derives, one archives, each     *)
(* with a bounded queue that drops; sweeps put back what is to be tried    *)
(* again an hour later, and a pass at start what has never been tried.     *)
(* What the files cost is HubPins' business.  A post is a number, in the   *)
(* order of arrival; a fetch is its outcome.  Slip... is as in             *)
(* HubReplication.                                                         *)
(***************************************************************************)
EXTENDS Queues

CONSTANTS
    Posts,
    None,
    Page,           \* a link to the web
    Pictures,       \* IPFS links
    Link,           \* Link[p]: its first link, a Page, a post's page, or None
    Bare,           \* the posts without embeds
    Linked,         \* Linked[p]: its IPFS links, in order
    QueueMax,       \* jobs a queue holds
    List,           \* posts a worklist of the start or of a sweep holds
    PictureTries, ArchiveTries,
    Retries,        \* lookups that failed and are made again, in one round
    Polls,          \* times a save is asked about
    Starts          \* bound: restarts

ASSUME PostsAssumption == Posts \subseteq Nat \ {0} /\ None = 0 /\ Page \notin Posts \cup {None}
ASSUME LinksAssumption == /\ Link \in [Posts -> Posts \cup {Page, None}]
                          /\ Linked \in [Posts -> Seq(Pictures)] /\ Bare \subseteq Posts
ASSUME LimitsAssumption == {QueueMax, List, PictureTries, ArchiveTries, Polls} \subseteq Nat \ {0}
                           /\ {Retries, Starts} \subseteq Nat

VARIABLES
    held, gone,     \* the posts here, and the ones deleted
    cards,          \* cards[p]: its row
    pictures,       \* pictures[p][l]: the row of one of its links
    queue,          \* the worker's jobs
    worker,         \* the job it has in hand
    rounds,         \* the archiver's queue
    timers,         \* rounds that wait for their next step
    archiver,       \* the round it has in hand
    busy,           \* its own note of the posts with a round in flight
    backfilled,     \* the pass at start is over
    starts

derived == <<cards, pictures>>
deriving == <<queue, worker, backfilled>>
archiving == <<rounds, timers, archiver, busy>>
vars == <<held, gone, derived, deriving, archiving, starts>>

\* copy: the page's archived copy is known; tries and rested: the rounds made
\* for one, and whether the last was begun an hour ago or more.
Card == [status : {"none", "ok", "failed"}, quote : Posts \cup {None},
         copy : BOOLEAN, tries : 0 .. ArchiveTries, rested : BOOLEAN]
NoCard == [status |-> "none", quote |-> None, copy |-> FALSE, tries |-> 0, rested |-> TRUE]

Picture == [status : {"none", "ok", "failed"}, tries : 0 .. PictureTries, rested : BOOLEAN]
Untried == [status |-> "none", tries |-> 0, rested |-> TRUE]

Job == [post : Posts, card : BOOLEAN, redo : BOOLEAN]

\* todo: the links of the post still to try, as PictureTries read them.
Worker == [post : Posts \cup {None}, pc : {"idle", "card", "store", "tries", "pictures"},
           found : {"none", "ok", "failed"}, quote : Posts \cup {None},
           todo : Seq([link : Pictures, tries : 0 .. PictureTries])]
Idle == [post |-> None, pc |-> "idle", found |-> "none", quote |-> None, todo |-> <<>>]

\* A round's next step.
Round == [post : Posts, at : {"begin", "lookup", "poll"}, step : 0 .. Retries + Polls]
Quiet == [post |-> None, at |-> "begin", step |-> 0]

Init ==
    /\ held = {} /\ gone = {}
    /\ cards = [p \in Posts |-> NoCard]
    /\ pictures = [p \in Posts |-> [l \in Pictures |-> Untried]]
    /\ queue = <<>> /\ worker = Idle /\ backfilled = FALSE
    /\ rounds = <<>> /\ timers = {} /\ archiver = Quiet /\ busy = {}
    /\ starts = 0

-----------------------------------------------------------------------------
(* The worker's queue.                                                     *)

\* A full queue drops what comes.
Offered(q, more) ==
    LET room == QueueMax - Len(q)
    IN  q \o SubSeq(more, 1, IF Len(more) < room THEN Len(more) ELSE room)

\* A set of posts, the last to come first.
NewestFirst(ps) == LET all == Ranked(ps) IN [i \in DOMAIN all |-> all[Len(all) + 1 - i]]

\* enqueue, of each of a list of posts: a job for nothing is none.
Jobs(ps, card, redo) ==
    LET worth == NewestFirst({p \in ps : (card /\ Link[p] # None) \/ Linked[p] # <<>>})
    IN  [i \in DOMAIN worth |-> [post |-> worth[i], card |-> card, redo |-> redo]]

\* The last to come of a set of posts, as many as a worklist holds.
Newest(ps) == {p \in ps : Cardinality({r \in ps : r > p}) < List}

Create(p) ==
    /\ p \notin held \cup gone
    /\ held' = held \cup {p}
    /\ queue' = Offered(queue, Jobs({p}, p \in Bare, FALSE))
    /\ UNCHANGED <<gone, derived, worker, backfilled, archiving, starts>>

\* Its card and its pictures go with a post.
Delete(p) ==
    /\ p \in held
    /\ held' = held \ {p} /\ gone' = gone \cup {p}
    /\ cards' = [cards EXCEPT ![p] = NoCard]
    /\ pictures' = [pictures EXCEPT ![p] = [l \in Pictures |-> Untried]]
    /\ UNCHANGED <<deriving, archiving, starts>>

\* PostsWithoutCards, narrowed to links by nobody but enqueue.
WithoutCards == {p \in held : cards[p].status = "none" /\ p \in Bare}

\* CardsLinkingPosts, narrowed to the ones that can be resolved now.
Quotable == {p \in held : cards[p].status # "none" /\ cards[p].quote = None /\ Link[p] \in held}

\* PostsWithoutPictures: the posts that say ipfs and have no row.
WithoutPictures == {p \in held : Linked[p] # <<>> /\ \A l \in Pictures : pictures[p][l].status = "none"}

Backfill ==
    /\ ~backfilled
    /\ backfilled' = TRUE
    /\ queue' = Offered(queue, Jobs(Newest(WithoutCards), TRUE, FALSE)
                            \o Jobs(Quotable, TRUE, TRUE)
                            \o Jobs(Newest(WithoutPictures), FALSE, FALSE))
    /\ UNCHANGED <<held, gone, derived, worker, archiving, starts>>

\* PicturesToRetry, of one link.
ToRetry(picture) == picture.status = "failed" /\ picture.tries < PictureTries /\ picture.rested

ToSweep == {p \in held : \E l \in Pictures : ToRetry(pictures[p][l])}

Sweep ==
    /\ ToSweep # {}
    /\ queue' = Offered(queue, Jobs(Newest(ToSweep), FALSE, FALSE))
    /\ UNCHANGED <<held, gone, derived, worker, backfilled, archiving, starts>>

-----------------------------------------------------------------------------
(* The worker.                                                             *)

\* derive and HasCard: a card is tried once, or once more for a job that says so.
Take ==
    LET job == Head(queue) IN
    /\ worker = Idle /\ queue # <<>>
    /\ queue' = Tail(queue)
    /\ worker' = [Idle EXCEPT !.post = job.post,
                     !.pc = IF /\ job.card /\ Link[job.post] # None
                               /\ cards[job.post].status = "none" \/ job.redo
                            THEN "card" ELSE "tries"]
    /\ UNCHANGED <<held, gone, derived, backfilled, archiving, starts>>

\* Fetch: a page with its metadata, or none.
Fetch == {"ok", "failed"}

\* deriveCard: a post that is here is quoted, another link is fetched.
DeriveCard ==
    LET link == Link[worker.post] IN
    /\ worker.pc = "card"
    /\ \/ /\ link \in held
          /\ worker' = [worker EXCEPT !.pc = "store", !.found = "ok", !.quote = link]
       \/ /\ link \notin held
          /\ \E found \in Fetch : worker' = [worker EXCEPT !.pc = "store", !.found = found]
    /\ UNCHANGED <<held, gone, derived, queue, backfilled, archiving, starts>>

\* Archiver.Enqueue, of each of a list of posts.
Ask(q, ps) ==
    LET all == NewestFirst(ps)
    IN  Offered(q, [i \in DOMAIN all |-> [post |-> all[i], at |-> "begin", step |-> 0]])

\* setCard: whatever was known of the page's copy goes; nothing asks whether the
\* post is here.  An ok link is to be archived.
StoreCard ==
    /\ worker.pc = "store"
    /\ cards' = [cards EXCEPT ![worker.post] =
                   [NoCard EXCEPT !.status = worker.found, !.quote = worker.quote]]
    /\ rounds' = IF worker.found = "ok" /\ worker.quote = None THEN Ask(rounds, {worker.post}) ELSE rounds
    /\ worker' = [worker EXCEPT !.pc = "tries", !.found = "none", !.quote = None]
    /\ UNCHANGED <<held, gone, pictures, queue, backfilled, timers, archiver, busy, starts>>

\* derivePictures and PictureTries: the links that have not landed and have
\* rounds left.
ReadTries ==
    LET row(l) == pictures[worker.post][l]
        all == Linked[worker.post]
        left == Picked(all, {i \in DOMAIN all :
                    row(all[i]).status # "ok" /\ row(all[i]).tries < PictureTries})
    IN  /\ worker.pc = "tries"
        /\ worker' = IF left = <<>> THEN Idle
                     ELSE [worker EXCEPT !.pc = "pictures",
                             !.todo = [i \in DOMAIN left |-> [link |-> left[i], tries |-> row(left[i]).tries]]]
        /\ UNCHANGED <<held, gone, derived, queue, backfilled, archiving, starts>>

\* For PicturesEnd: a link that did not answer is not counted.
SlipTried(tries, found) ==
    CASE found = "ok" -> [status |-> "ok", tries |-> tries + 1, rested |-> FALSE]
      [] found = "silent" -> [status |-> "failed", tries |-> tries, rested |-> FALSE]
      [] found = "other" -> [status |-> "failed", tries |-> PictureTries, rested |-> FALSE]

\* SetPicture: a gateway that is silent counts a round; what is no picture
\* will never be one.
Tried(tries, found) ==
    CASE found = "ok" -> [status |-> "ok", tries |-> tries + 1, rested |-> FALSE]
      [] found = "silent" -> [status |-> "failed", tries |-> tries + 1, rested |-> FALSE]
      [] found = "other" -> [status |-> "failed", tries |-> PictureTries, rested |-> FALSE]

TryPicture ==
    LET try == Head(worker.todo) IN
    /\ worker.pc = "pictures"
    /\ \E found \in {"ok", "silent", "other"} :
          pictures' = [pictures EXCEPT ![worker.post][try.link] = Tried(try.tries, found)]
    /\ worker' = IF Len(worker.todo) = 1 THEN Idle ELSE [worker EXCEPT !.todo = Tail(@)]
    /\ UNCHANGED <<held, gone, cards, queue, backfilled, archiving, starts>>

-----------------------------------------------------------------------------
(* The archiver.                                                           *)

\* CardsToArchive and BeginArchive, of one card.
ToArchive(card) == /\ card.status = "ok" /\ card.quote = None /\ ~card.copy
                   /\ card.tries < ArchiveTries /\ card.rested

\* CardsToArchive's order is that of the rounds begun before, whose times are not
\* kept: a full list may be of any of the posts that are due.
ArchiveSweep ==
    LET due == {p \in held : ToArchive(cards[p])} IN
    /\ due # {}
    /\ \E list \in SUBSET due :
          /\ Cardinality(list) <= List
          /\ list = due \/ Cardinality(list) = List
          /\ rounds' = Ask(rounds, list)
    /\ UNCHANGED <<held, gone, derived, deriving, timers, archiver, busy, starts>>

\* For OneRound: a post with a round in flight may begin another.
SlipBegins(p) == ToArchive(cards[p])

Begins(p) == p \notin busy /\ ToArchive(cards[p])

\* Run: a round goes on, or begins and is counted.
TakeRound ==
    LET r == Head(rounds) IN
    /\ archiver = Quiet /\ rounds # <<>>
    /\ rounds' = Tail(rounds)
    /\ \/ /\ r.at # "begin"
          /\ archiver' = r
          /\ UNCHANGED <<cards, busy>>
       \/ /\ r.at = "begin" /\ Begins(r.post)
          /\ archiver' = [r EXCEPT !.at = "lookup"]
          /\ busy' = busy \cup {r.post}
          /\ cards' = [cards EXCEPT ![r.post].tries = @ + 1, ![r.post].rested = FALSE]
       \/ /\ r.at = "begin" /\ ~Begins(r.post)
          /\ UNCHANGED <<archiver, busy, cards>>
    /\ UNCHANGED <<held, gone, pictures, deriving, timers, starts>>

\* later: the next step, in a while.
Later(r) ==
    /\ archiver' = Quiet /\ timers' = timers \cup {r}
    /\ UNCHANGED <<busy, cards>>

\* land and SetArchive: whatever the card has become.
Land(post) ==
    /\ archiver' = Quiet /\ busy' = busy \ {post}
    /\ cards' = [cards EXCEPT ![post].copy = (cards[post].status # "none")]
    /\ UNCHANGED timers

\* For ArchiveEnds: a save that failed keeps the post busy.
SlipGiveUp(post) == archiver' = Quiet /\ UNCHANGED <<timers, busy, cards>>

GiveUp(post) ==
    /\ archiver' = Quiet /\ busy' = busy \ {post}
    /\ UNCHANGED <<timers, cards>>

\* What the Archive answers: Latest, a capture of the link, none, or no answer;
\* Save, a job, or none; Saved, how the job stands, or no answer.
Latest == {"copy", "none", "error"}
Save == {"job", "error"}
Saved == {"success", "pending", "failed", "error"}

\* lookup: an index that does not answer is asked again, and does without when its
\* retries are spent.
Lookup ==
    /\ archiver.at = "lookup"
    /\ \E found \in Latest :
          \/ found = "copy" /\ Land(archiver.post)
          \/ /\ found = "error" /\ archiver.step < Retries
             /\ Later([archiver EXCEPT !.step = @ + 1])
          \/ /\ found = "none" \/ (found = "error" /\ archiver.step = Retries)
             /\ \E job \in Save : IF job = "job" THEN Later([archiver EXCEPT !.at = "poll", !.step = 0])
                                  ELSE GiveUp(archiver.post)
    /\ UNCHANGED <<held, gone, pictures, deriving, rounds, starts>>

\* poll: no answer is as good as pending; the polls may be spent.
Poll ==
    /\ archiver.at = "poll"
    /\ \E got \in Saved :
          \/ got = "success" /\ Land(archiver.post)
          \/ got = "failed" /\ GiveUp(archiver.post)
          \/ /\ got \in {"pending", "error"}
             /\ IF archiver.step + 1 < Polls THEN Later([archiver EXCEPT !.step = @ + 1])
                ELSE GiveUp(archiver.post)
    /\ UNCHANGED <<held, gone, pictures, deriving, rounds, starts>>

\* The timer's goroutine waits for room.
Due(r) ==
    /\ r \in timers /\ Len(rounds) < QueueMax
    /\ timers' = timers \ {r}
    /\ rounds' = Append(rounds, r)
    /\ UNCHANGED <<held, gone, derived, deriving, archiver, busy, starts>>

-----------------------------------------------------------------------------
\* An hour without a round.
HourOfCard(p) ==
    /\ ~cards[p].rested
    /\ cards' = [cards EXCEPT ![p].rested = TRUE]
    /\ UNCHANGED <<held, gone, pictures, deriving, archiving, starts>>

HourOfPicture(p, l) ==
    /\ ~pictures[p][l].rested
    /\ pictures' = [pictures EXCEPT ![p][l].rested = TRUE]
    /\ UNCHANGED <<held, gone, cards, deriving, archiving, starts>>

\* The process stops and starts: the tables stay.
Restart ==
    /\ starts < Starts
    /\ starts' = starts + 1
    /\ queue' = <<>> /\ worker' = Idle /\ backfilled' = FALSE
    /\ rounds' = <<>> /\ timers' = {} /\ archiver' = Quiet /\ busy' = {}
    /\ UNCHANGED <<held, gone, derived>>

Work == Take \/ DeriveCard \/ StoreCard \/ ReadTries \/ TryPicture

Archive == TakeRound \/ Lookup \/ Poll

Hour == \E p \in Posts : HourOfCard(p) \/ \E l \in Pictures : HourOfPicture(p, l)

TimerDue == \E r \in timers : Due(r)

Next ==
    \/ \E p \in Posts : Create(p) \/ Delete(p)
    \/ Hour
    \/ Backfill \/ Sweep \/ ArchiveSweep
    \/ Work
    \/ Archive
    \/ TimerDue
    \/ Restart

Spec == Init /\ [][Next]_vars

\* The goroutines run, time passes, and a timer that waits for room is served
\* before a round that comes after it.
Fairness ==
    /\ WF_vars(Backfill) /\ WF_vars(Sweep) /\ WF_vars(ArchiveSweep)
    /\ WF_vars(Work) /\ WF_vars(Archive)
    /\ WF_vars(Hour) /\ SF_vars(TimerDue)

FairSpec == Spec /\ Fairness

-----------------------------------------------------------------------------
\* The types of the tables, the queues and what the goroutines have in hand.
TypeOK ==
    /\ held \subseteq Posts /\ gone \subseteq Posts \ held
    /\ cards \in [Posts -> Card] /\ pictures \in [Posts -> [Pictures -> Picture]]
    /\ queue \in Seq(Job) /\ rounds \in Seq(Round) /\ {Len(queue), Len(rounds)} \subseteq 0 .. QueueMax
    /\ worker \in Worker
    /\ timers \subseteq Round /\ archiver \in Round \cup {Quiet}
    /\ busy \subseteq Posts /\ backfilled \in BOOLEAN /\ starts \in 0 .. Starts

\* A card has one round in flight at most, wherever it waits, and the archiver's
\* own note says which have: though a round may outlive the hour after which the
\* sweep asks for the next, and the card be replaced meanwhile.
OneRound ==
    \A p \in Posts :
        Cardinality({i \in DOMAIN rounds : rounds[i].post = p /\ rounds[i].at # "begin"})
        + Cardinality({r \in timers : r.post = p})
        + (IF archiver.post = p THEN 1 ELSE 0)
        = (IF p \in busy THEN 1 ELSE 0)

\* ... with the types.
Rounds == TypeOK /\ OneRound

\* A card of a page ends with a copy, or with its rounds spent, whatever the
\* queues drop and a restart forgets; or is no card of a page by then: a quote, gone,
\* or made again from a page that did not answer.
ArchiveEnds ==
    \A p \in Posts :
        LET card == cards[p] IN
        (card.status = "ok" /\ card.quote = None /\ ~card.copy /\ p \in held)
        ~> (card.copy \/ card.tries = ArchiveTries \/ card.quote # None \/ card.status # "ok")

\* A picture whose gateway did not answer ends landed or given up.
PicturesEnd ==
    \A p \in Posts, l \in Pictures :
        (pictures[p][l].status = "failed" /\ p \in held)
        ~> (pictures[p][l].status = "ok" \/ pictures[p][l].tries = PictureTries \/ p \notin held)

-----------------------------------------------------------------------------
\* Backfill, worker.go: it "queues a card for every existing bare-link post that
\* has none".  A post it leaves out was left out by a full queue.
BackfillReachesAll ==
    [][Backfill => \A p \in WithoutCards : Link[p] # None =>
          Len(queue') = QueueMax \/ \E i \in DOMAIN queue' : queue'[i].post = p /\ queue'[i].card]_vars

\* Backfill, worker.go: a card is derived again "only when the post resolves now,
\* so nothing is fetched twice for nothing".  Whoever has a card quotes when its
\* turn comes; but the quoted post may go while the job waits for it.
NothingFetchedTwice ==
    [][DeriveCard /\ cards[worker.post].status # "none" => worker'.quote # None]_vars
=============================================================================
