# exe-hub, specified

exe-hub is a Go daemon for a feed of short posts. Authors sign messages with
ed25519; a hub verifies them, appends them to a log in SQLite and materializes
the log into tables that its pages read. Pictures and other files live in a
kubo (IPFS) node behind the hub. Hubs that peer pull each other's content. The
design document is `PLAN.md` at the root of the repository; these modules are
written from the Go code, and say so where code and document part.

## The system

One process per hub: HTTP handlers, one goroutine each for the replication
puller, the card worker, the archiver, the translator, the summarizer, the
hourly sweep and the kubo reconcile pass. They share one SQLite database with a
single writer connection (every store method is one transaction, or one
statement), kubo over HTTP, and an event bus in memory. Nothing else is
shared, so every step between two store calls, two kubo calls or a store call
and a kubo call is a point where any other goroutine may run, and where the
process may stop.

| component | source | state | operations | what is hard |
|---|---|---|---|---|
| message log, derived tables | `internal/store/store.go` | `messages`, `seqs`, `posts`, `marks`, `bookmarks`, `profiles`, `bans`, `peers`, `embeds`, `pins`, ... | `Ingest`, `IngestReplicated`, `apply`, `Rebuild`, `ReplicationPage` | messages of one author come from several hubs in any order; replay must equal live |
| message endpoint | `internal/api/api.go` | none of its own | `handleMsg`, `policy`, `handleReplicate`, `pinBytes` | checks read before the transaction that uses them |
| replication | `internal/replicate/replicate.go` | `peer_state` (cursor, key), back-off of `heal` in memory | `round`, `pull`, `handle`, `mirror`, `heal`, `pullTranslations`, `take`, `settle`, `pullSummaries`, `takeSummary` | stops between page and cursor, peers that fail, removal of a peer mid-page |
| files | `store.go`, `internal/ipfs`, `cmd/exe-hub/main.go` | `pins`, kubo's pin set | `AddPin`, `AdoptPin`, `dropRef`, `SweepStaged`, `MissingMirrors`, `reconcilePins` | counts kept by seven code paths; unpins outside the transaction; kubo fails |
| cards, pictures of links | `internal/card` | `cards`, `pictures`, a bounded queue | `Enqueue`, `derive`, `storeQuote`, `SetCard`, `SetPicture`, archiving | the post goes while its picture is fetched |
| translations | `internal/lang`, `replicate.go`, `store.go` | `translations`, pending offers, a revision counter | the worker, `SetTranslation`, `AcceptTranslation`, `TranslationsPage`, `take`, `settle` | a late local answer against a peer's newer one; offers before their post |
| summaries | `store/summary.go`, `lang/summary.go`, `replicate.go` | `summaries`, `pending_summaries`, revs | the worker, `SetSummary`, `SetSummaryTranslation`, `SummariesPage`, `takeSummary`, `settleSummaries` | replies deleted while the model reads them; summaries that come before their thread is whole |
| threads | `store.go` | `last_reply` and `activity` in `posts` | `apply` on posts, `rootOf`, `Thread`, `notifications` | messages applied in another order than they were stamped; parents after children |
| gate, invites, cooldown | `internal/gate`, `api.go` | cached verdicts, invite rows | `Check`, `policy` | each read is of its own moment; the RPC fails |
| drafts, media | `api/draft.go`, `api/media.go`, `internal/media` | files in memory with a deadline, conversion jobs and their queue | `put`, `promoteDrafts`, `reserve`, `RunMedia`, `convert`, `pinMedia` | limits, deadlines, a draft promoted while it lapses, a queue that drops |
| event bus | `internal/events` | subscribers' buffers | `Subscribe`, `Emit` | a slow reader loses events; events leave in another order than their commits |
| push | `internal/push`, `api/push.go` | subscriptions | `notify`, `audience`, subscribe, unsubscribe | what it reads after the commit may be gone |
| scripts of the public pages | `api/web.html` | the open thread page; the post window and the post it has parked | `refresh`, `swap`, `connect`; `send`, `post`, `sendOp`, `stage` | fetches that meet events in the air; answers that are lost while their request goes on |
| pages, previews, icons, text rules | `api/web.go`, `internal/preview`, `internal/identicon`, `internal/mention`, ... | none | rendering | pure functions |

How they meet: `handleMsg` and the puller both end in `Ingest`; `Ingest`
returns the CIDs whose rows it deleted, which the caller unpins afterwards;
both hand the new post to the card worker and the translator; the workers write
rows beside the log (cards, pictures, translations, summaries) which `apply`
deletes with their post and `Rebuild` keeps; the sweep and reconcile loops
compare `pins` with what names a file and with kubo.

What makes each correct:

* **log and tables** - a table is a function of the set of messages in the log,
  whatever their order; a deleted post stays deleted; seqs protect direct
  messages from replay and never refuse what a peer serves.
* **replication** - one hop only, nothing skipped, everything delivered in the
  end; a peer removed is forgotten.
* **files** - no count over or under what names the file; what nothing names
  goes, what something names stays and is in kubo.
* **cards, translations, summaries** - the newest wins on every hub that only
  takes; nothing deleted stays cited; nothing starves, whatever queues drop.
* **threads, pages, notices** - the counters of a thread stand at a reply that is
  here; a page that has heard everything shows the thread; an author who is
  answered is told.
* **the door: policy, gate, drafts, the post window** - a post is in once and its
  writer hears of it; nothing of a stranger's lands.
* **media, event bus** - every job ends, limits hold, and a slow party harms no
  other.

## Modules

| module | models |
|---|---|
| `Envelopes` | the message types, what a message says, which marks share a box and which is newer, and the reading of a set of messages: `LiveOf`, `HeldOf` |
| `HubFeed` | the abstract specification: each hub takes messages one by one, and its posts and marks are a function of the set taken |
| `HubReplication` | every hub's log, tables and seqs, `handleMsg`, and the puller with its rounds, pages, cursors and restarts |
| `HubPins` | the files of one hub: `pins`, kubo, uploads, mirrors, heal, cards, sweep, reconcile, rebuild, restarts |
| `HubTranslations` | the posts put into one language on every hub: worklist and late answers, revs and pages, what is taken from a peer, what waits for its post, `-retranslate`, restarts |
| `HubSummaries` | one thread's summaries on every hub: the summariser and the translator with their late answers, deletes of what is cited, revs and pages, what waits until its thread is whole |
| `HubTexts` | the abstract specification of what hubs that take each other's texts promise their readers: texts made, shown and taken, with no rev, page, cursor or waiting entry |
| `HubTranslationTexts`, `HubSummaryTexts` | the rows of `HubTranslations` and of `HubSummaries` as such texts, with the history that takes, and the refinement `TextsSpec` |
| `HubThreads` | the posts table as threads: stamps, activity and `last_reply`, the walks up and down, the orders of the pages |
| `HubNotices` | extends `HubThreads`: the event bus, an open thread page with its script, the push notifier, the pages of notifications |
| `HubCards` | cards, pictures and archive rounds of one hub: bounded queues, worklists, sweeps, tries, timers, restarts |
| `HubDoor` | the requests of one key at one hub: `handleMsg` and `policy` read by read, the gate's cache, drafts and staged pins |
| `HubWindow` | extends `HubDoor`: the post window that sends those requests, loses their answers and parks its post |
| `HubMedia` | uploads, their jobs and queue, the ladder of ffmpeg runs, pins of the outputs |
| `HubClients` | `HubWindow` and `HubMedia` side by side, each step of one leaving the other alone |
| `MCReplication`, `MCPins`, `MCTranslations`, `MCTranslationTexts`, `MCSummaries`, `MCNotices`, `MCThreads`, `MCCards`, `MCDoor` | the instances for TLC |
| `Queues` | three operators on rows in order: `Ranked`, what a query lists of a set; `Picked`, what a queue keeps of its places; `Entries`, what is in it |
| `HubInduction` | induction on the numbers, by a least one, and lemmas about functions defined by it and about `Queues` |
| `HubReplicationProofs`, `HubTranslationsProofs`, `HubPinsProofs`, `HubCardsProofs`, `HubNoticesProofs`, `HubSummariesProofs` | the theorems about the module each is named for, with their proofs |
| `HubDoorProofs` | the theorems about `HubDoor` and `HubWindow`, about `HubMedia`, and about the two as `HubClients`, with their proofs |

`HubNotices` and `HubWindow` are compositions: the first puts a browser and the
notifier behind the threads and the bus, the second a client in front of the
door. `HubPins` and `HubCards` share the card worker, one counting what it
costs in files and the other when it runs.

### HubReplication

State is that of the tables, one function of the hub each: `log` (rows of
`messages` with their `origin`), `seqs`, `posts`, `marks`, `profiles`,
`bookmarks`, `bans`, `peers`, and `cursor` for `peer_state`. A message is a
member of `Msgs` and `Env` gives what it says; its id, like a sha256, is all a
row needs. Two variables are program counters: `admitted` holds the requests
that passed `handleMsg`'s checks and have not reached the store, so that any
other step may come between check and use; `puller[h]` is the goroutine with
its snapshot of peers and cursors, its page and the message it is at.

| action | code |
|---|---|
| `Admit` | `handleMsg` to the call of `Ingest`: known ids, `policy`, the mark's box |
| `Ingest` | the transaction: id, seq, unique index, `apply` of every type |
| `StartRound`, `EndRound` | `round`, which reads `peers` and their cursors at once |
| `Pull`, `Fetch`, `FetchFails` | `pull` and `fetchPage`; `Fetch` is `ReplicationPage` on the peer: direct rows scanned up to the limit, content kept, cursor on the last row scanned |
| `HandleCheck`, `HandleIngest` | `handle`: the ban check, then the ingest, with the mirroring of files between them |
| `PageDone` | the end of the page: `SetPeerCursor`, the upsert |
| `Restart` | the process stops: requests and the goroutine are gone, the tables stay |

`apply` is split by table, and a step is always the whole of it.

### HubPins

State is `db` (which CIDs have a row, their counts, `is_avatar`, whether a day
has gone by, the posts, profiles and copies that name files), `kubo`, and what
each goroutine holds between two calls: `adding` for an upload that kubo has
and the table has not, `unpins` for released CIDs whose `Unpin` is still to
come and on whose behalf, `puller`, `worker`, `recon`. A file is its CID, since
kubo mints one CID for the same bytes. Clients, peers and links bring only
what the constants say. `Bump`, `Drop`, `AddPin`, `AdoptPin` and `SetCopy` are
the store's transactions on counts; `MirrorCheck` to `MirrorDone` are the steps
of `mirror` with the calls that can fail between them; `Rebuild` replays the log
by a recursive function. Seqs, bans and page order are `HubReplication`'s, so
here messages come in any order: more behaviours than the code has in that
respect, never fewer.

### HubTranslations

A third view of the same hubs, for one target language, so that a post is the
key of a row. State is that of the tables: `rows` (kept or a failed try, who
made it and when, its rev), `revs` for `sqlite_sequence`'s memory of the revs
given, `waiting` for `pending_translations` in the order of `seen`, `cursor`
for `tr_cursor`, `tongue` for `langs`; `here` and `gone` stand for the posts
table and the log behind it. `work[h]` is the page of the worklist the
translator has in hand, `puller[h]` the goroutine with its page and the offer it
has looked at. A translation is its maker and its time, and `Sound` says which
ones `lang.Check` would pass.

| action | code |
|---|---|
| `Create`, `Delete`, `SetLang` | what `apply` and the language worker do to a post, its language and its translations |
| `List` | `PostsToTranslate`, read by `drainN` before the model is asked |
| `Translate`, `Fail`, `StepOver` | the model's answer, an answer that is none, no answer: `SetTranslation` upserts over whatever is there by then |
| `Retranslate` | `exe-hub -retranslate`, a second process on the same database |
| `StartPull`, `Fetch`, `FetchFails`, `PageDone` | `pullTranslations` with `TranslationsPage` on the peer, and the cursor after the page |
| `Settle`, `SettleFor`, `SettleDone` | `settle("")` at the end of a round, with the aging; `settle(id)` when a pulled post has come |
| `Look`, `Accept`, `Aside`, `Drop` | `take` up to its write, then `AcceptTranslation`, `SetPendingTranslation` or `DropPendingTranslation`: the post may go between the look and the write |
| `Restart` | the goroutines are gone, the tables stay |

Posts come in any order here and the parts of a round may come in any order
too, a stepped-over post may be listed again at once: more behaviours than the
code has, never fewer.

### HubSummaries

One thread and one target language, so a row is keyed by its step, once for the
summary written from the thread (`orig`) and once for its translation (`tr`).
`replies[h]` is the thread as it came to h, `Level` and `Thread` are the walks of
the code: `Climb` counts the steps up from a reply through the posts there are, and
a chain that is broken, or longer than `Levels` (for `rootOf`) or `Depth` (for
`Thread`), is out of the thread.
`writing` and `wording` are what the two workers' models have in hand, read
before the answer and written after it; `puller` is the replication goroutine as
in `HubTranslations`.

| action | code |
|---|---|
| `CreateRoot`, `CreateReply`, `DeleteRoot`, `DeleteReply` | `apply`: a delete takes the rows that cite the reply, if it still stands in the thread |
| `Read`, `Summarize`, `FailSummary`, `NoSummary` | `Summarizer.pass` with `PostsToSummarize` and `SetSummary`, which looks at every cite again and discards the answer for nothing |
| `ReadWords`, `TranslateSummary`, `FailWords`, `NoWords` | `Translator.passSummaries` with `SummariesToTranslate` and `SetSummaryTranslation` |
| `Resummarize` | `exe-hub -resummarize`, a second process on the same database |
| `StartPull`, `Fetch`, `FetchFails`, `PageDone` | `pullSummaries`, `SummariesPage` on the peer, the cursor after the page |
| `Settle`, `Look`, `Accept`, `Aside`, `Drop` | `settleSummaries`, `takeSummary` up to its write, then `AcceptSummary`, `summaryWaits` or `DropPendingSummary` |
| `Restart` | the goroutines are gone, the tables stay |

### HubTexts

Translations and summaries go from hub to hub by the same protocol, written twice
in the code. `HubTexts` is what it is for. A text is who made it, when, and what it
cites; its key is what it is of: a post, or a step of a thread and which of the
two rows there. A hub makes a text later than all it made (`Make`) and shows it
whatever it had; takes from a peer it pulls from what that peer made itself, if it
shows none as new (`Take`); loses with a deleted post all that is about it, and
maybe what cites it (`Delete`); and its editor, or a model's failed answer, takes
texts away (`Withdraw`). What a peer made may be taken when the peer shows it no
more: a page is read once and handled later, and a waiting entry may lie for days.

The tables do not keep what was made and is gone, so `HubTranslationTexts` and
`HubSummaryTexts` add the history `made` beside the variables of the hubs, which
no action reads; `shown` is what the reads of the store (`Translations`,
`Summaries`) give, the row's origin read as its maker. `MadeSpec` is the
specification with the history. For summaries `gone` is `away`: replies, which
only what cites them may go with, and the root, which takes everything.

`NotHandedBack` is the part of it that is easy to get wrong: what its maker shows
no more, because it made it again, dropped it with `-retranslate`, or lost it to a
newer one of a peer, must not come back from the hubs that took it.

### HubThreads and HubNotices

`ingest` reads the clock before it has the database's one connection, so a post
is stamped (`Stamp`) and applied later (`Create`): arrival times and the order of
commits differ. `Delete` hands the pointer of one thread back to its newest
reply, or to none.

`HubNotices` adds what runs after the commit. `emits` holds the events whose
`OnMessage` has not run yet, in no order; `stream` and `inbox` are the buffers of
the two subscribers, and `Emit` drops what does not fit. `page` is the script of
an open thread page: a timer that is set (`owed`), one fetch in the air (`busy`)
and one wanted after it. `notifier` is the post in hand with the subscribers
read for it. `due` and `missed` are history: the answers that a subscriber was
owed when they were committed, and who has missed an event.

| action | code |
|---|---|
| `CommitStamp`, `CommitCreate`, `CommitDelete`, `Emit` | the ingest, and `OnMessage`, which emits afterwards on its request's goroutine |
| `Serve`, `Open`, `Break`, `Reopen` | the page is drawn, its stream opens, goes down, comes back with a fetch owed |
| `Hear`, `Refresh`, `Draw`, `Swap`, `FetchFails` | `mine` and `poke`, `refresh`, the hub's read of the thread, the swap |
| `Subscribe`, `PushAdd`, `Unsubscribe` | `handlePushSubscribe`, which counts and then adds; `handlePushUnsubscribe` |
| `Notice`, `Push` | `notify` up to its first read, and from there: `audience`, `why`, `Send`, what its service reports gone |

`Notifications` is the loop over batches of candidates: a page after each turn,
as a function of the turns, of which as many are taken as there are posts, since a
batch with more behind it holds a post at least. The walks of `concernCTE` are
`Joined`, `Since` and `InThreads`, and the walk down starts at the root itself, so
a root that came after the reader's reply to it is a row like any other.
`PagesFilled` compares what the loop ends with with a page of `Concerns`, which
says of two posts, with no walk, cursor or batch, what concerns a reader: an answer,
a mention, or a post by another that came after one of theirs in the same thread.

### HubCards

Tables `cards` and `pictures` with their tries, `queue` and `worker` of the one
deriving goroutine, `rounds`, `timers`, `archiver` and `busy` of the one that
archives. An hour is a row's `rested`. What is fetched is its outcome. The worklists are cut to
`List`: the newest posts for the backfill and the picture sweep, any of the due cards
for the archive sweep, whose order (by the times of the rounds before) is not kept.

| action | code |
|---|---|
| `Create`, `Delete` | `OnMessage`'s `Enqueue`, and what `apply` deletes |
| `Backfill`, `Sweep`, `ArchiveSweep` | the pass at start, the hourly sweeps, each over a bounded worklist into a queue that drops |
| `Take`, `DeriveCard`, `StoreCard`, `ReadTries`, `TryPicture` | `derive`, with the tables read and written between fetches |
| `TakeRound`, `Lookup`, `Poll`, `Due` | `Archiver.Run`, `begin`, `lookup`, `poll`, and the timers of `later`, which block until there is room |
| `HourOfCard`, `HourOfPicture`, `Restart` | time, and a stop with its empty queues |

### HubDoor, HubWindow, HubMedia

`HubDoor` is one key's requests, each a goroutine with a program counter that
names the next call of `handleMsg`: `Known`, `Banned`, `LastPost`, `Invited`,
`Check` (with `Balance`, `RpcFails`, `Verdict` for a gate that must ask), `LastSeq`,
`Promote`, `Add` or `AddFails`, `Promoted`, `Ingest`. Between any two, the other
request, an admin (`Judge`), the chain, the clock (`Cool`, `Age`, `Lapse`,
`Linger`, `SweepStaged`), `handleGate` (`Look`) and the same key elsewhere
(`Elsewhere`) may act. `ever` remembers what right the key ever had.

`HubWindow` is the script that sends them: `Stage`, `Edit`, `Press`, `Earlier`,
`Number`, `Sign`, `Declines`, `Hear`, `Again`, `Lost`. A lost answer leaves its
request running in the hub (or it never came), the same message goes again in
another, and what the wallet signed stays parked until an answer settles it. `tries`
counts the turns of `sendOp`'s loop, one of which is for the pictures that `Again`
sends once more when their draft has lapsed.

`HubMedia`: `Reserve`, `UploadFails`, `Uploaded`, `Enqueue` of an upload's
goroutine; `Begin`, `Probe`, `RunFails`, `Misses`, `Fits`, `Runs`, `Pin` of the
converting one: which encoder, which try, and whether the output fits; `Restart`.

### Slips

An operator named `Slip...` is the definition after it with a plausible mistake
in it: a dropped WHERE, a count set to one, a cursor saved too early. Nothing
uses them. Each one replaces its original in turn and the property its
comment names must then fail, which shows that the property can.

## Runs

| run | instance | shows |
|---|---|---|
| `rep_marks` | 2 hubs pulling from each other, 1 post, 2 marks of one box with one seq, its delete | `MarksMatchLog`, `IndexNeverInTheWay`, the refinement `FeedSpec` |
| `rep_moderation` | 2 hubs, 1 puller; peer added and removed, ban set and lifted, bookmark on and off, restarts | `LocalSeqIncreasing`, `PulledKept`, `BookmarksOfPosts`, and `Delivered` under fairness |
| `rep_three` | 3 hubs, c pulls from a and b, b from a; a post on a, its delete on b; 2 requests at once | `OneHop`, `PostsMatchLog`, `NeverReturns`, the inductive invariant `IInv`, types among it |
| `pins` | 2 files, a post, its delete, a profile naming the same file; pictures of links; every step interleaved | `TypeOK` (no negative count), `RefsNeverOver` |
| `pins_live` | 1 file, a post and its delete, fair loops | `StagedSwept`, `KuboFollows`, `Healed` |
| `translations` | 2 hubs that pull from each other, a translates, each of 2 posts at times 1 and 3, pages of one row, one entry waiting at most; one post's first words fail the check, b may name the other one's language as the target's | `TypeOK`, `FreshForPeers`, `NewestStays` |
| `translations_live` | the same with 1 post and the history of what was made, under fair rounds | `Delivered`, `WaitsEnd`, the refinement `TextsSpec` |
| `summaries` | 2 hubs, a writes and b takes; 2 replies, the lower under the upper, in any order on b, deleted on a; the root deleted on b; `-resummarize` on b, entries that lapse | `CitesStand` (with the types), `Summarised`, `Delivered`, `WaitsEnd` under fairness, and the refinement `TextsSpec` |
| `notices` | 3 posts in a chain by three people, in any order, the middle one deleted, 2 ticks; buffers of 2, one subscriber, one break of the line; two readers of their notifications, the root's author and the one who answers | `ThreadsTrue` (with the types), `LivePageTrue`, `AnsweredTold`, `PagesFilled` |
| `cards` | 2 posts, one linking the other's page, one naming a picture; queues and worklists of one place, 2 tries each, one restart | `Rounds` (with the types), `ArchiveEnds`, `PicturesEnd` under fairness |
| `door` | 2 requests at once, 2 versions of a post, one with a picture, 2 signatures, one lost answer, one mishap; a holder, a stranger or a banned invited key; apart from it 2 uploads, a queue of one, NVENC and Vulkan | `TypesOK`, `OnePost`, `NothingOfStrangers`, `X264Tried`, and `Settled`, `JobsEnd` under fairness |
| `door_again` | the same | `HearsOfItsPost` is violated |

**Bounds.** `Msgs` and `Offers` bound what is ever written, `MaxRequests` the
requests a hub has in hand, `Uploads` and `Pictures` the files that come,
`Times`, `Redoes` and `Lapsing` what translators, editors and time do. A log
takes a message once, so these make the state finite with no constraint. They
are chosen so that the conflicts exist: two marks of one box with one seq
signed on two hubs; a delete on another hub than its post, with a third hub
that meets them in both orders; a page limit of one, so that every cursor lies
between two rows; a ban, a removal or a restart that can come between any two
steps of the puller; a file named by a post and a profile, uploaded, mirrored
and fetched from a link at once. Nothing in the code tells a third message of
a kind from a second, and the proofs hold for any number of everything.

The limits of the code are small in the runs where the case is to be over them,
or far over what there is: buffers of 2 on the bus (32 in the code), queues of
one job (256 for cards, 16 for conversions), worklists of one (256 and 64), two
tries of a picture or an archive round (3), two polls (7), 2 waiting summaries
(2000, of which a round tries 500), one try after the first for a lost answer
(2), one mishap of each behaviour (`Hazards`: a lapse, a sweep, a ban, a failed
add). `Levels` and `Depth` are the code's 40 and 32, so no chain of the instances
is over them: what the code does with longer ones is said with the properties
(`LastReplyStands`, `Summarised`).

The run `cards` archives one card, so the archive worklist is never cut there.
`MCCardsPages.cfg` (module `MCCards`), kept beside the runs, archives both, without
pictures, with one poll and no retry: the list of one is cut, a quoted post may be
deleted before the card is made again, and `Rounds` and `ArchiveEnds` pass. Pictures and
two archived cards together are too many states.

Two instances are narrowed to what interacts. In `MCNotices` the action
constraint `Apart` watches the page and the notifier one at a time: they share
the bus only, which never waits for either, so neither can disturb the other; a
notifier nobody is subscribed to drops what it reads at once, and while either
is watched the clock is at its first tick, no event holding a time. In `MCDoor`
the variable `half` wakes either the window or the converter: they share the
table of pins only, where a converted file is one more staged row.

The two runs of `TextsSpec` differ in what they reach. In `translations_live` a
makes a text again after `-retranslate` there, and b, which has the older one,
takes the newer or keeps a waiting entry of the older. In `summaries` the
editor is on b, so no hub has an older text when a newer one comes, but deletes
meet answers and takings in every order. The theorems cover both for all values.

**Deadlock** is checked in the runs of `HubReplication`, `HubPins`,
`HubTranslations` and `HubSummaries`, where a puller always wakes for another
round or a reconcile pass can start, and in `HubCards`, where a sweep or a
delete can. `MCNotices` and `MCDoor` turn it off: with all posts gone, or the
writer's words said and the signatures spent, nothing has to happen.

**Fairness.** In `HubReplication` the puller's goroutine keeps running (weak
fairness of its next step: `Run` is a loop without exit), a peer that is asked
again and again answers some time (strong fairness of `Fetch`, since `round`
asks at every tick and an attempt may fail), and the restarts that interrupt the
puller come to an end. The three modules say this of restarts with some care: a
restart that leaves the state as some ordinary step would is that step to a
temporal formula, and asking that it stop would ask that the step stop too.
Requests carry no fairness: no client has to write. In `HubPins` the loops of
puller, sweep and reconcile run on, each is served by kubo or a peer when it
asks again and again (strong fairness of `MirrorAdd` for heals, of
`ReconcileAsk` and `Repin`), `Unpin` calls return though they may fail, days go
by. The worker, uploads and clients carry none. In `HubTranslations` a pull and a
settling that have begun go on, every peer has its turn and so has what waits
(`round` ends with `settle("")`), and a peer asked again and again answers some
time. The translator, the language worker, clients and editors carry none.
In `HubSummaries` the same holds of the puller, and the summariser comes to each
step again and again and is answered some time, well or not (its pass runs for
the life of the process). In `HubCards` the two goroutines run, the sweeps recur,
hours pass, and a timer that waits for room gets it (strong fairness: the archiver
serves its queue in order, so one place after another comes free). In `HubDoor`
each request goes on, since a handler returns and the calls it makes have
timeouts, and a cooldown ends; in `HubWindow` the page goes on and the writer
whose post is parked presses Send again, which is what the window asks for; no
fairness makes anyone sign, edit or lose an answer. In `HubMedia` an upload ends,
well or not, and a run of ffmpeg ends, because `limit` stops it. `HubNotices` is
checked for safety only: its properties say what holds once there is nothing
left to read.

## What the runs refute

`door_again` refutes a sentence of the code. `handleMsg` says that a message the
hub already holds is answered before any policy, so that a page whose answer was
lost hears of its post "rather than of the cooldown that post started"
(`api.go:470`). The look for the message and `policy` are reads at two moments.
In the trace the window gives up the answer of its first request while the
handler still has it, the second request looks, finds nothing, the first is
ingested, and the second is told 429 with the wait of its own post's cooldown.
Nothing is lost by it: the window keeps the post parked, and `Settled` in the run
`door` shows that a later press settles it.

Further configurations stand beside the runs. Each has one property, a sentence
of the code's comments or of `PLAN.md`, and TLC refutes it in seconds
(`tlc -config <cfg> <module>`):

| configuration | module | property | what the code does |
|---|---|---|---|
| `MCRepRejected.cfg` | `MCReplication` | `RejectedForGood` | `handle` says a message rejected today would be rejected on every future pass (`replicate.go:434`). A delete that comes before its post is rejected and passed by the cursor, and would be accepted once the post is here: the post stays on this hub, and hubs with the same sources differ. |
| `MCRepProfile.cfg` | `MCReplication` | `ProfileLastWriteWins` | `PLAN.md:206` says by `seq`; it is by arrival. |
| `MCPinsRebuild.cfg` | `MCPins` | `RebuildKeepsCounts` | The replay of an old delete drops a row that a later post relies on, against `store.go:553` and `PLAN.md:570`. |
| `MCPinsSweep.cfg` | `MCPins` | `SweepSparesNamed` | `PLAN.md:556`: a row at nought may be for a file that a pulled post names, when its mirror failed and somebody uploaded the file later. |
| `MCTranslationsLate.cfg` | `MCTranslations` | `NotLostToFailure` | `PLAN.md:2879` says the newest translation wins. The model may have a post in hand when a peer's translation of it is taken; an answer that is none then writes a failed row over it, the cursor being past the peer's. |
| `MCSummariesBeside.cfg` | `MCSummaries` | `StandsBeside` | `summary.go:161` says a translation only ever stands beside an original. `takeSummary` looks at the original and `AcceptSummary` writes the translation in a statement of its own that asks for the root only: `-resummarize`, which opens the database beside the daemon, or the delete of a cited reply may take the original in between. The translation then stands alone, and `LatestSummary` does not find its step. |
| `MCNoticesRoot.cfg` | `MCNotices` | `ThreadsListReplies` | `store.go:2389` and `store.go:2397` say that a row listed for its thread is a reply, and what a subscriber would have been told of. The walk down starts at the root: one pulled after the reader's reply to it is listed as `thread`, though `audience` (`push.go:443`) has the notifier tell of a root only whom it names. |
| `MCThreads.cfg` | `MCThreads` | `NeverLost` | `store.go:2278` says a cursor into the past never loses a post. When the last reply of the cursor's thread is deleted its activity falls, and threads that were to come after it are then before it. |
| `MCCardsBackfill.cfg` | `MCCards` | `BackfillReachesAll` | `worker.go:81` says every bare-link post without a card is queued. The worklist's limit counts posts without links too, which never get a card, and only the newest are read. |
| `MCCardsRedo.cfg` | `MCCards` | `NothingFetchedTwice` | `worker.go:115` says a card is derived again only when its post resolves now, so nothing is fetched twice for nothing. The post is looked for when the job is queued; deleted before the job's turn, its page is fetched again, and a fetch that fails then replaces the card that was there. |
| `MCDoorRefused.cfg` | `MCDoor` | `RefusedForGood` | `web.html:2653` says a parked post is settled when it is refused for good. A refusal of the second request, by a ban that came in between, says nothing of the first, which is past policy and lands. |

Two more disagreements were met and have no configuration: the cursor of a
removed peer can be written back by the pull that was under way, so a peer added
again goes on from it (`store.go:860` says it must not survive), and a card
stored after its post's delete stays (`PLAN.md:2453`). Both steps are in the
modules.

## Proofs

`HubReplicationProofs` proves, for any sets of hubs, authors and messages, any
`Env` with the types of `EnvAssumption`, any admins and any page limit:

* `Invariant`: `Spec => []IInv`;
* `TypesHold`, `Posts`, `Marks`, `Bookmarks`, `ReplayProtection`, `NoEcho`,
  `IndexHasRoom`, `CursorsSkipNothing`: the properties of the runs that follow;
* `Implements`: `Spec => FeedSpec`, the refinement, and with it `DeletedForGood`.

The properties are not inductive one by one, and the parts of `IInv` say why.
`IndexNeverInTheWay` looks at a row of the peer that this hub has not taken:
that its author and seq are free here needs that what was pulled is on the peer
too as a direct row (`OneHop`) and that direct rows differ in their seqs
(`LocalSeqIncreasing`), which in turn needs the high-water marks to cover the
log (`SeqsCoverLog`), pulled rows included. `PostsMatchLog` and `MarksMatchLog`
compare a table with a reading of the log; that one more message changes both
alike needs that a delete never precedes its post within one log
(`TargetsInLog`) and that every mark that does not hold its box is outdone by
one that does (`MarksOutdone`), the argument about `Newer` being a total order.
`PulledKept` is about the stored cursor only: `PullOK` carries it through the
goroutine's snapshot, its page and its place in the page, and `BansInLog`
explains a skipped author by a ban that the log still holds. A step that
accepts a message is handled once, in lemmas about `Accept`, for requests and
the puller alike; all other steps leave the tables alone, and `PullOK` is proved
action by action. `Settled` is stable because logs only grow, which is the
lemma used throughout.

`HubTranslationsProofs` proves, for any hubs, posts, models, limits and times:

* `RevsStayAhead`: `Spec => []RevsAhead`, and `RedoneIsFresh`: `Spec => FreshForPeers`;
* `TranslationsTyped`, `NewestStaysHolds`: the other two properties of the run
  `translations`; and `MadeByPeerHolds`, that every row taken and every offer on
  its way was made by the peer it is from, in one hop;
* `TranslationsImplement`: `MadeSpec => TextsSpec`, the refinement, and from it
  `NotHandedBackHolds`.

The number a translation is served under has to be past the cursor of every peer,
and past the page that a peer has in hand and the cursor it will store after it,
which a restart of either hub, a post deleted or `-retranslate` must not undo:
that is why the counter, and not the highest rev among the rows, gives the next
one. `RevsAhead` says so, and with the types of what it compares (`FInv`) it is
inductive. That no other step than `Translate` writes a row with a rev is
`OthersUnserved`.

`MadeByPeer` speaks of rows and of what waits, but an offer is first in a page,
then in hand, then perhaps in a queue: `TInv` asks that each of these was made by
the peer it is from (`GoodPuller`, `GoodQueue`, `Good`), and that the peer's own
rows are its own, since that is what a page is cut from. A try is within its
limit because a post in hand of the translator has a try left (`WorkInv`): the
worklist was read before, and only the translator itself writes tries in
between. `NewestStays` is proved from `TInv` step by step: the one step that
writes to a row of a hub that only takes is `Accept`, and it compares.

The refinement needs to know that what is taken was made, and made for that post.
`MadeInv` says of everything on its way (a page, the offer in hand, what waits)
that it is among the texts its peer ever made of that post, which nothing takes
back, since `made` only grows; that what a hub made is no later than its clock,
so that what it makes next is newer than all of it; and that what a hub shows of its
own is among what it made. Then each step is a step of `HubTexts` (`Accept` is `Take`,
`Translate` is `Make`, a delete is `Delete`, `-retranslate` and a failed answer
over a kept row are `Withdraw`) or moves nothing a reader sees, `ReadersStep`. That
no text is handed back follows with two facts: a text is taken from its maker
only, and no hub pulls from itself (`PullsAssumption`).

`HubPinsProofs` proves `PinsTyped` and `RefsNeverOverHolds` for any files, posts,
profiles, links and log. `PInv` strengthens `RefsNeverOver` twice. `LogOK`: an id
is in the log once and a post that is here is in it, so that a create, applied or
replayed, never counts what the posts table has already. `HandsOK`: the
mirroring puller and the card worker still have the file and the post they
count for, several steps after they looked. The references of a file are those of posts (a post may name one file
several times), of avatars and of copies; a lemma per kind says how many
there are after one is added or taken away, and a lemma per transaction (`AddPin`,
`AdoptPin`, `Bump`, `Drop`, `SetCopy`, `apply`) that counts stay below them.
`Rebuild` replays the log by a recursive function: that each of its values is
within bounds is `Iteration` of `HubInduction`, from the lemma about one `apply`.

`HubDoorProofs` proves, for any words, pictures, requests, signatures, tries and
queues:

* `WindowTyped` and `OnePostHolds`. That one text is in once concerns messages that
  are not yet in: `OnceInv` says of all that were ever signed and may still land
  (`Out`: in the log, in a request, parked) that two of the same words
  are one, or that one of them is over: given up by the window, or overtaken by a
  higher seq (`Dead`), after which `Ingest` refuses it. Of the words in the window only the parked message may still come in.
  The types need that a picture is sent again once only: `TriesOK` bounds the tries of a
  window by whether it may still be.
* `StrangersLeaveNothing`, where the gate denies when the RPC is silent
  (`RpcUnavailable = "deny"`, the hypothesis; with `"allow"` the code lets a key
  in that nobody has judged, by intent). `StrangersInv` carries the argument
  through the reads: a request past `Banned`, past the gate or with a verdict in the cache
  has seen the right that it acts on, and what it has seen was true once, which is
  what `ever` remembers.
* `MediaTyped` and `X264Had`. `ConvInv` counts the misses of the job in hand
  by its try: after two tries the hardware encoder is off, and at the last
  one x264 has a miss already, so that one more makes the two that `X264Tried`
  asks for.
  `QueueInv` (a job is in the channel once) is what lets a job be taken from it
  without another one of its name staying behind.

`HubCardsProofs` proves `RoundsHold`, the types and `OneRound`, for any posts, links,
queues and limits. `FlightInv` says what `OneRound` counts: of the rounds that go on,
in the queue, at a timer and in hand, no two are of one post, and the note `busy`
has just their posts; a round yet to begin may be there any number of times, and
`Begins` drops it when the note has its post. The bounds of the two queues hold
because what comes is cut to the room there is (`OfferedIs`), and tries stay
within theirs because a link is in hand with a try left (`WorkerInv`).

`HubNoticesProofs` proves, for any posts, parents, people, buffers and times:

* `NoticesTyped`, `AnsweredHold` and `LivePageHolds`, from one invariant, `NInv`.
  `AnsweredTold` and `LivePageTrue` speak of the moment when all is read, and
  say nothing of the steps before it. `ToldInv` does: an answer that is owed is in
  an event not yet emitted, in the inbox, in the notifier's hand with its subscriber
  in the list that was read, or told. `LiveInv` says of the page that it will fetch
  again (`Catching`: a timer is set, or a fetch in the air, or one wanted after it),
  that an event of its thread is on its way (`Heralded`), or that it shows the thread
  (`Current`). The hard step is a commit, whose event names the root that the
  hub finds by its own walk up: if the event names another thread, or none, then the
  list the page is drawn from has not changed (`CreateThread`, `DeleteThread`).
  That needs the walk up to reach at least as far as the list goes down
  (`DepthAssumption`: 40 and 32 in the code), for otherwise a reply that the page
  shows could come without the page being told.
* `ThreadsStand`, with the hypothesis `NoLongChain` that every post stands within
  `Levels` of a root, which is what `LastReplyStands` says of itself: a longer
  chain bumps a post in the middle of it. `CountersInv` adds that only a
  root has a pointer, that it is at a post of its own tree (so no post is the last
  reply of two roots, and the one pointer that a delete hands back is all there
  are, by `OneRoot`), and that a post not yet here has none.

* `PagesHold`: of any tables of posts, for any readers, page limit and cursor. The
  rows that the walks and the filter list are `Concerns` (`ListedIs`): a thread's first time
  of the reader is that of one of their posts in it, and no later than any other (`SinceIs`), so
  to come after it is to come after some post of theirs; and that a shown mention is in the text
  (`HoldsAssumption`) makes the candidates enough. `Filled` says
  what holds between two turns of the loop: while there are more, the page has
  all that is listed before the cursor and is not full, and there are at least as
  many turns left as rows behind it; once there are none, it is what it should be
  (`BatchFills`). That a page which is full does not change with what came
  before all of it (`FirstsSame`) is why the loop may stop there.

`HubSummariesProofs` proves, for any hubs, replies, ladders, models and limits:

* `SummariesTyped`. As with the translations, a step of the thread that a model
  reads has a try left (`DeskOK`), because an offer that is taken over meanwhile keeps the
  tries of the row it replaces, and a row that is taken away has had none (`GoodRow`).
* `CitesHold`. `OwnCitesStand` speaks of replies that are gone, and is not
  inductive: nothing in it keeps a reply that is held from being taken out of the
  thread by a delete above it, and deleted later. `CitesInv` says of every reply
  cited by a row of the hub's own that it stands in the thread (`Stands`), or that a
  reply it hangs from went, and went first (`Fell`); and that the root is here. The hard
  step is a delete, whose code takes the rows that cite the reply only while it
  stands: of the other rows, a cited reply that hangs from the deleted one
  has fallen with it, and `ClimbKept` says that every other one stands as it stood. A
  new reply lengthens nobody's way up (`ClimbGrows`), an answer is looked at again
  before it is kept (`MayWrite`), and what is taken over is a peer's (`AcceptC`).
  Nothing is assumed of the tree but that the replies are finitely many: not that it
  is one (parents in a ring are no thread), nor that the walks are long enough.
* `SummariesImplement`: `MadeSpec => TextsSpec`, and `NotHandedBackHolds`, along the
  argument of the translations with two rows for a step. `RInv` adds to the types
  what that needs: a row served is the hub's own, and its `of` says which of the
  two it is (`TextsInv`); only a hub that writes has a model at work, and a
  translation in hand is of an original that was made (`WorkersInv`); a puller in
  the middle of a page has it from a hub this one pulls from (`PeersInv`). A page,
  an offer and a waiting entry lead to texts that their peers made
  (`MadeInv`), and no step of a puller brings one that was not there before or served
  by the peer (`InHandFrom`). A delete is one step of `HubTexts` with all the rows
  it takes, `GoneStep`.

The walks are functions by recursion on the number of levels: what stands
under a post at each level is `StandsUnder`, and `RootWalks` and `BumpWalks` say where
`RootOf` and `Bumped` end, by `Induction`; `Climbing` unfolds the walk of the
summaries by one step, and `ClimbBoth` compares two of them. That a thread with replies has a newest
one, which the code's `ORDER BY ... LIMIT 1` takes for granted, is `NewestIs`, from
`Greatest`.

`HubInduction` holds what these proofs share. The library's induction theorems take
an operator and cannot be used; `Induction` and `Iteration` are stated for sets
and functions instead and follow from the well-foundedness of `<` on the naturals.
`RankedOf` and `PickedOf` say that what two operators of `Queues` return is of
what they were given, `RankedAll` and `PickedAll` that it is all of it. The
models are written with these rather than with `SelectSeq`, whose recursive
definition no prover here can open.

What is assumed of constants is named beside them: that the files, posts,
replies, authors and jobs are finitely many (`FiniteAssumption`, `JobsAssumption`: each is a
row), that the value which stands for no message or key is none
(`NoneAssumption`, `KeysAssumption`, `LocalAssumption`), that whom a post shows as named is
in its text (`HoldsAssumption`), that the first words a writer types
are among the words (`FirstAssumption`), limits that are numbers, that the ladder of summaries has
steps (`LimitsAssumption`: it is a constant of the code, and a thread with no step has no
key to speak of), and the types of what messages say. TLC evaluates all of them on every run.

Only model-checked: every liveness property (`Delivered`, `StagedSwept`,
`KuboFollows`, `Healed`, `WaitsEnd`, `Summarised`, `ArchiveEnds`, `PicturesEnd`,
`Settled`, `JobsEnd`: liveness under fairness is out of the prover's reach). Every
invariant, every action property and every refinement that a run checks is a theorem,
for any values of the constants that meet their assumptions; two state a hypothesis besides,
`ThreadsStand` and `StrangersLeaveNothing`. `TypesOK` of the run `door` is
`ClientsTyped`, proved of `ClientsSpec`, where the steps of the two halves interleave as
they do in the code; the run wakes one half at a time. TLC checks the same formulas
on the small instances.

## Not modelled

* Signatures, parsing and length limits: each a pure function of one message.
  `fetchPage` and its two likes verify a peer's signature and key; a page that does
  not verify is the alternative of `FetchFails`.
* The Go handlers of the web pages, translations of the interface, previews,
  avatars, identicons and text rules: they render what the tables hold or
  compute a function of a text, and have unit tests.
* The read queries of feeds, searches, profiles and statistics: one statement
  each. The pages of notifications are modelled because they are a loop.
* Configuration is read once; the reload of the gate's rules replaces one pointer.
  `statsseed` is a development tool.
* The waiting times of `heal`'s back-off: a heal may take its turn at any time.
* Of translations: the tidying of kept words (`RewriteTranslation`), the numbering
  of rows older than revs, the editors' notes, and failures of the store (`take`'s
  outcome `failed`). Of summaries: more threads than one, more languages than
  one, failures of the store, peers that are removed.
* Of cards: the plays asked of YouTube (`AskPlays`), the repair of cards whose page
  was misread, the gaps between calls to the Archive. Of media: the arithmetic of
  bit rates, the progress that is shown, who may upload (the door's business).
* Some steps are coarser than the code. In `HubReplication`, `Admit` is the look for
  the message, `policy` and the mark's box at one moment; `HubDoor` takes them apart. In `HubCards`, a
  post is in and its job queued in one step. In `HubNotices`, `Push` reads `audience`'s
  posts and authors at once, and a push that fails otherwise than by a subscription
  gone counts as told, since the hub logs it and sends no other. In `HubPins`, a post
  has one copy, where it may have a card's image and several pictures: what a copy
  counts is the same whichever row it is in.
* What an invite changes is modelled in `HubDoor`; in the log of `HubReplication` it is a
  message of an admin that changes no table there. The pages of notifications newer
  than a cursor are the same loop in the other direction. An upload that
  never ends is outside `JobsEnd`: the server sets no read timeout (`main.go:369`).
* Of the pages: an account changed while a post is sent, a reload, which forgets
  what is parked, and hidden tabs, which close their stream.

## What is left

The properties that the sources promise and the code does not keep are listed
above; when one is mended, its configuration becomes a run that passes, and its property is
next to be proved. Beyond that the wider gaps are those under "Not modelled":
failures of the store in the middle of `take`, more threads and languages than
one, and the read queries of the feeds.
