------------------------------ MODULE HubSummaries ------------------------------
(***************************************************************************)
(* A thread's summaries: the summaries and pending_summaries tables of     *)
(* internal/store (summary.go, and the deletes of apply), the summariser   *)
(* and the translator's passSummaries of internal/lang, and the summaries' *)
(* half of internal/replicate (pullSummaries, takeSummary,                 *)
(* settleSummaries).                                                       *)
(*                                                                         *)
(* One thread, whose root every hub names the same language, and one       *)
(* target language: a row is keyed by its step, once for the summary       *)
(* written from the thread (orig) and once for the translation of it (tr). *)
(* A text is known by the hub and the time it was made.  Replies come in   *)
(* any order, from clients and peers, and are deleted in any order; peers  *)
(* stand, and the store does not fail.  Slip... is as in HubReplication.   *)
(***************************************************************************)
EXTENDS Queues

CONSTANTS
    Hubs, Replies,
    Root,        \* the thread's root
    Parent,      \* Parent[r]: the post r replies to
    Local,       \* the origin '' of a summary made on the hub itself
    Pulls,       \* Pulls[h]: the hubs h pulls from
    Writers,     \* the hubs that summarise and translate
    Steps,       \* the ladder: the counts of replies a summary is written at
    Levels,      \* posts rootOf passes on its way up
    Depth,       \* the levels Thread walks down
    PageLimit,   \* rows a /v1/summaries page holds at most
    PendingMax,  \* entries a peer may have waiting
    SettleLimit, \* entries settleSummaries tries in a round
    MaxTries,    \* answers that are none a step gets
    Sound,       \* the times whose words pass the checks of other hubs
    Times,       \* bound: Times[h], when summaries are made on h
    Standing,    \* bound: Standing[h], the thread h starts from, as it came
    Deletable,   \* bound: Deletable[h], the posts that are deleted on h
    Redoes,      \* bound: the hubs where an editor runs -resummarize
    Lapsing      \* bound: the hubs whose entries may wait out pendingAge

ASSUME LocalAssumption == Local \notin Hubs /\ Root \notin Replies
ASSUME ParentAssumption == Parent \in [Replies -> Replies \cup {Root}]
ASSUME FiniteAssumption == IsFiniteSet(Replies)
ASSUME StandingAssumption == Standing \in [Hubs -> Seq(Replies)]
ASSUME PullsAssumption == Pulls \in [Hubs -> SUBSET Hubs] /\ \A h \in Hubs : h \notin Pulls[h]
ASSUME TimesAssumption == Times \in [Hubs -> SUBSET Nat]
ASSUME LimitsAssumption ==
    /\ Steps # {}
    /\ Steps \cup {Levels, Depth, PageLimit, PendingMax, SettleLimit, MaxTries} \subseteq Nat \ {0}

VARIABLES
    root,       \* root[h]: "away", "here" or "gone"
    replies,    \* replies[h]: the replies h holds, as they came
    gone,       \* gone[h]: the replies deleted on h, as they went
    orig, tr,   \* orig[h][s], tr[h][s]: the summaries row of step s, and its translation's
    revs,       \* revs[h]: the last rev h gave
    waiting,    \* waiting[h]: pending_summaries, the longest-waiting first
    cursor,     \* cursor[h][p]: peer_state.sum_cursor
    puller,     \* puller[h]: the replication goroutine
    writing,    \* writing[h]: what the summariser's model reads
    wording,    \* wording[h]: what the translator's model reads
    clock       \* clock[h]: when h last made a summary

posts == <<root, replies, gone>>
tables == <<orig, tr, revs>>
taking == <<waiting, cursor, puller>>
vars == <<posts, tables, taking, writing, wording, clock>>

\* status "" is a row that is not there; of is the text a translation is of.
NoRow == [status |-> "", tries |-> 0, ts |-> 0, of |-> 0, cites |-> {}, origin |-> Local, rev |-> 0]

Row == [status : {"", "ok", "failed"}, tries : 0 .. MaxTries, ts : Nat, of : Nat,
        cites : SUBSET Replies, origin : Hubs \cup {Local}, rev : Nat]

\* A summary as a peer serves it, or as it waits; of = 0 is one written from
\* the thread.
Offer == [peer : Hubs, step : Steps, ts : Nat, of : Nat, cites : SUBSET Replies, rev : Nat]

\* A model at work; step 0 is none.
Work == [step : Steps \cup {0}, of : Nat, read : SUBSET Replies]
NoWork == [step |-> 0, of |-> 0, read |-> {}]

\* page is what is left of the page in hand, or of the waiting entries; next is
\* the cursor after it.
Puller == [mode : {"idle", "fetch", "pull", "settle"}, pc : {"next", "keep", "aside", "drop"},
           peer : Hubs \cup {Local}, cursor : Nat, next : Nat,
           page : SUBSET Offer, offer : Offer \cup {Local}]

Idle == [mode |-> "idle", pc |-> "next", peer |-> Local, cursor |-> 0, next |-> 0,
         page |-> {}, offer |-> Local]

-----------------------------------------------------------------------------
(* The thread.                                                             *)

Held(h) == Entries(replies[h])
Posted(h) == Held(h) \cup {q \in {Root} : root[h] = "here"}

\* The steps from r up to the root through the posts ps; 0 when the chain is
\* broken.  No chain is longer than there are replies.
Climb(ps, r) ==
    LET up[n \in 0 .. Cardinality(Replies)] == [q \in Replies |->
            IF n = 0 \/ ~({q, Parent[q]} \subseteq ps) THEN 0
            ELSE IF Parent[q] = Root THEN 1
            ELSE IF up[n - 1][Parent[q]] = 0 THEN 0 ELSE up[n - 1][Parent[q]] + 1]
    IN  up[Cardinality(Replies)][r]

Level(h, r) == Climb(Posted(h), r)

\* As rootOf finds it.
InThread(h, r) == r \in Replies /\ Level(h, r) \in 1 .. Levels

\* How many replies the tree holds, however deep.
Count(h) == Cardinality({r \in Held(h) : Level(h, r) > 0})

\* Thread(root, n): the first n to come of those the walk down reaches.
Thread(h, n) ==
    LET reached == {i \in DOMAIN replies[h] : Level(h, replies[h][i]) \in 1 .. Depth}
    IN  {replies[h][i] : i \in {i \in reached : Cardinality({j \in reached : j <= i}) <= n}}

Init ==
    /\ root = [h \in Hubs |-> IF Standing[h] = <<>> THEN "away" ELSE "here"]
    /\ replies = Standing
    /\ gone = [h \in Hubs |-> <<>>]
    /\ orig = [h \in Hubs |-> [s \in Steps |-> NoRow]]
    /\ tr = [h \in Hubs |-> [s \in Steps |-> NoRow]]
    /\ revs = [h \in Hubs |-> 0]
    /\ waiting = [h \in Hubs |-> <<>>]
    /\ cursor = [h \in Hubs |-> [p \in Hubs |-> 0]]
    /\ puller = [h \in Hubs |-> Idle]
    /\ writing = [h \in Hubs |-> NoWork]
    /\ wording = [h \in Hubs |-> NoWork]
    /\ clock = [h \in Hubs |-> 0]

\* apply on post.create: the root or a reply comes, its parent held or not.
CreateRoot(h) ==
    /\ root[h] = "away"
    /\ root' = [root EXCEPT ![h] = "here"]
    /\ UNCHANGED <<replies, gone, tables, taking, writing, wording, clock>>

CreateReply(h, r) ==
    /\ r \notin Held(h) \cup Entries(gone[h])
    /\ replies' = [replies EXCEPT ![h] = Append(@, r)]
    /\ UNCHANGED <<root, gone, tables, taking, writing, wording, clock>>

\* apply on the root's delete takes every summary with it.
DeleteRoot(h) ==
    /\ root[h] = "here" /\ Root \in Deletable[h]
    /\ root' = [root EXCEPT ![h] = "gone"]
    /\ orig' = [orig EXCEPT ![h] = [s \in Steps |-> NoRow]]
    /\ tr' = [tr EXCEPT ![h] = [s \in Steps |-> NoRow]]
    /\ UNCHANGED <<replies, gone, revs, taking, writing, wording, clock>>

\* A reply in its thread takes the rows that cite it; its own replies stay in
\* posts, and fall out of the thread.
Taken(h, r, row) == InThread(h, r) /\ r \in row.cites

DeleteReply(h, r) ==
    /\ r \in Held(h) \cap Deletable[h]
    /\ orig' = [orig EXCEPT ![h] = [s \in Steps |-> IF Taken(h, r, @[s]) THEN NoRow ELSE @[s]]]
    /\ tr' = [tr EXCEPT ![h] = [s \in Steps |-> IF Taken(h, r, @[s]) THEN NoRow ELSE @[s]]]
    /\ replies' = [replies EXCEPT ![h] = Picked(@, {i \in DOMAIN @ : @[i] # r})]
    /\ gone' = [gone EXCEPT ![h] = Append(@, r)]
    /\ UNCHANGED <<root, revs, taking, writing, wording, clock>>

-----------------------------------------------------------------------------
(* The summariser.                                                         *)

\* A table with another row at a step of h.
Put(table, h, s, row) == [table EXCEPT ![h] = [@ EXCEPT ![s] = row]]

Tryable(row) == row.status = "" \/ (row.status = "failed" /\ row.tries < MaxTries)

\* For Summarised: a step is owed at its count only.
SlipOwed(h) == {s \in Steps : root[h] = "here" /\ s = Count(h) /\ Tryable(orig[h][s])}

\* PostsToSummarize: the steps the thread has reached.
Owed(h) == {s \in Steps : root[h] = "here" /\ s <= Count(h) /\ Tryable(orig[h][s])}

\* A step of the list is read from the thread; with fewer replies than the
\* step (they went, or stand deeper than Thread walks) it is stepped over.
Read(h, s) ==
    /\ h \in Writers /\ writing[h] = NoWork
    /\ s \in Owed(h)
    /\ Cardinality(Thread(h, s)) = s
    /\ writing' = [writing EXCEPT ![h] = [step |-> s, of |-> 0, read |-> Thread(h, s)]]
    /\ UNCHANGED <<posts, tables, taking, wording, clock>>

\* For OwnCitesStand: what the model read is not looked at again.
SlipMayWrite(h, cites) == root[h] = "here"

\* SetSummary: the root is a root still, and every reply cited in its thread.
MayWrite(h, cites) == root[h] = "here" /\ \A r \in cites : InThread(h, r)

\* The model's answer cites some of what it read; one that may not be kept is
\* discarded, and costs no try.
Summarize(h, cites, t) ==
    LET s == writing[h].step IN
    /\ s # 0 /\ cites \subseteq writing[h].read
    /\ t \in Times[h] /\ t > clock[h]
    /\ clock' = [clock EXCEPT ![h] = t]
    /\ IF MayWrite(h, cites)
       THEN /\ orig' = Put(orig, h, s,
                  [status |-> "ok", tries |-> orig[h][s].tries + 1, ts |-> t, of |-> 0,
                   cites |-> cites, origin |-> Local, rev |-> revs[h] + 1])
            /\ revs' = [revs EXCEPT ![h] = @ + 1]
       ELSE UNCHANGED <<orig, revs>>
    /\ writing' = [writing EXCEPT ![h] = NoWork]
    /\ UNCHANGED <<posts, tr, taking, wording>>

\* The row after an answer that is none.
Failed(row) == [NoRow EXCEPT !.status = "failed", !.tries = row.tries + 1]

\* An answer that is none costs a try, whatever row there is by now.
FailSummary(h) ==
    LET s == writing[h].step IN
    /\ s # 0
    /\ orig' = IF root[h] = "here"
               THEN Put(orig, h, s, Failed(orig[h][s]))
               ELSE orig
    /\ writing' = [writing EXCEPT ![h] = NoWork]
    /\ UNCHANGED <<posts, tr, revs, taking, wording, clock>>

\* No answer: stepped over, or the pass ends.
NoSummary(h) ==
    /\ writing[h] # NoWork
    /\ writing' = [writing EXCEPT ![h] = NoWork]
    /\ UNCHANGED <<posts, tables, taking, wording, clock>>

-----------------------------------------------------------------------------
(* The translator's passSummaries.                                         *)

\* SummariesToTranslate: the newest step written from the thread.
OwedWords(h) ==
    {s \in Steps : /\ root[h] = "here" /\ orig[h][s].status = "ok"
                   /\ \A x \in Steps : orig[h][x].status = "ok" => x <= s
                   /\ Tryable(tr[h][s])}

ReadWords(h, s) ==
    /\ h \in Writers /\ wording[h] = NoWork
    /\ s \in OwedWords(h)
    /\ wording' = [wording EXCEPT ![h] = [step |-> s, of |-> orig[h][s].ts, read |-> orig[h][s].cites]]
    /\ UNCHANGED <<posts, tables, taking, writing, clock>>

\* SetSummaryTranslation: some summary stands at the step.
MayTranslate(h, s) == root[h] = "here" /\ orig[h][s].status = "ok"

\* Cites and all, of the text that was listed.
TranslateSummary(h, t) ==
    LET s == wording[h].step IN
    /\ s # 0
    /\ t \in Times[h] /\ t > clock[h]
    /\ clock' = [clock EXCEPT ![h] = t]
    /\ IF MayTranslate(h, s)
       THEN /\ tr' = Put(tr, h, s,
                  [status |-> "ok", tries |-> tr[h][s].tries + 1, ts |-> t, of |-> wording[h].of,
                   cites |-> wording[h].read, origin |-> Local, rev |-> revs[h] + 1])
            /\ revs' = [revs EXCEPT ![h] = @ + 1]
       ELSE UNCHANGED <<tr, revs>>
    /\ wording' = [wording EXCEPT ![h] = NoWork]
    /\ UNCHANGED <<posts, orig, taking, writing>>

FailWords(h) ==
    LET s == wording[h].step IN
    /\ s # 0
    /\ tr' = IF MayTranslate(h, s)
             THEN Put(tr, h, s, Failed(tr[h][s]))
             ELSE tr
    /\ wording' = [wording EXCEPT ![h] = NoWork]
    /\ UNCHANGED <<posts, orig, revs, taking, writing, clock>>

NoWords(h) ==
    /\ wording[h] # NoWork
    /\ wording' = [wording EXCEPT ![h] = NoWork]
    /\ UNCHANGED <<posts, tables, taking, writing, clock>>

\* exe-hub -resummarize, beside the running daemon: DropSummaries of the
\* newest step there is a row at.
Resummarize(h) ==
    LET at == {s \in Steps : orig[h][s] # NoRow \/ tr[h][s] # NoRow} IN
    /\ h \in Redoes /\ at # {}
    /\ \E s \in at :
          /\ \A x \in at : x <= s
          /\ orig' = Put(orig, h, s, NoRow)
          /\ tr' = Put(tr, h, s, NoRow)
    /\ UNCHANGED <<posts, revs, taking, writing, wording, clock>>

-----------------------------------------------------------------------------
(* The puller.                                                             *)

StartPull(h, p) ==
    /\ puller[h] = Idle
    /\ p \in Pulls[h]
    /\ puller' = [puller EXCEPT ![h] = [Idle EXCEPT !.mode = "fetch", !.peer = p, !.cursor = cursor[h][p]]]
    /\ UNCHANGED <<posts, tables, waiting, cursor, writing, wording, clock>>

FetchFails(h) ==
    /\ puller[h].mode = "fetch"
    /\ puller' = [puller EXCEPT ![h] = Idle]
    /\ UNCHANGED <<posts, tables, waiting, cursor, writing, wording, clock>>

OfferOf(p, s, row) ==
    [peer |-> p, step |-> s, ts |-> row.ts, of |-> row.of, cites |-> row.cites, rev |-> row.rev]

\* For Delivered: a page starts one too far.
SlipAfter(p, n) ==
    {OfferOf(p, s, orig[p][s]) : s \in {s \in Steps : orig[p][s].rev > n + 1}}
        \cup {OfferOf(p, s, tr[p][s]) : s \in {s \in Steps : tr[p][s].rev > n + 1}}

\* What p made itself, past a rev.
After(p, n) ==
    {OfferOf(p, s, orig[p][s]) : s \in {s \in Steps : orig[p][s].rev > n}}
        \cup {OfferOf(p, s, tr[p][s]) : s \in {s \in Steps : tr[p][s].rev > n}}

PageOf(p, n) ==
    LET after == After(p, n) IN {o \in after : Cardinality({x \in after : x.rev < o.rev}) < PageLimit}

\* A verified page of SummariesPage.
Fetch(h) ==
    LET page == PageOf(puller[h].peer, puller[h].cursor) IN
    /\ puller[h].mode = "fetch"
    /\ \E n \in {puller[h].cursor} \cup {o.rev : o \in page} :
          /\ \A o \in page : o.rev <= n
          /\ page # {} => \E o \in page : o.rev = n
          /\ puller' = [puller EXCEPT ![h] = [@ EXCEPT !.mode = "pull", !.page = page, !.next = n]]
    /\ UNCHANGED <<posts, tables, waiting, cursor, writing, wording, clock>>

\* PendingSummaries: the newest of them, as many as a round tries.
Pending(queue, some) ==
    /\ some \subseteq Entries(queue)
    /\ Cardinality(some) = IF SettleLimit < Len(queue) THEN SettleLimit ELSE Len(queue)
    /\ \A o \in some, x \in Entries(queue) \ some : o.ts >= x.ts

\* settleSummaries at the end of a round: what waited too long goes unasked.
Settle(h) ==
    /\ puller[h] = Idle
    /\ waiting[h] # <<>>
    /\ \E old \in {{}} \cup (IF h \in Lapsing THEN {{o} : o \in Entries(waiting[h])} ELSE {}) :
          LET left == Picked(waiting[h], {i \in DOMAIN waiting[h] : waiting[h][i] \notin old}) IN
          /\ waiting' = [waiting EXCEPT ![h] = left]
          /\ \E some \in SUBSET Entries(left) :
                /\ Pending(left, some)
                /\ puller' = [puller EXCEPT ![h] =
                      IF some = {} THEN Idle ELSE [Idle EXCEPT !.mode = "settle", !.page = some]]
    /\ UNCHANGED <<posts, tables, cursor, writing, wording, clock>>

\* Rows come in the order of their revs; of the waiting entries the ones written
\* from the thread come first, the newest first of these and of the others.
First(s, o) ==
    /\ o \in s.page
    /\ \A x \in s.page :
          IF s.mode = "pull" THEN o.rev <= x.rev
          ELSE (o.of # 0 => x.of # 0) /\ ((o.of = 0) = (x.of = 0) => o.ts >= x.ts)

\* Done with the offer in hand.
Done(s) == [s EXCEPT !.pc = "next", !.page = s.page \ {s.offer}, !.offer = Local]

\* For WaitsEnd: only what is passed is decided.
SlipDecided(s) == IF s.mode = "settle" /\ s.pc # "keep" THEN [s EXCEPT !.pc = "drop"] ELSE Done(s)

\* What is decided is final: a waiting entry goes.
Decided(s) == IF s.mode = "settle" THEN [s EXCEPT !.pc = "drop"] ELSE Done(s)

\* The thread is here as far as a summary of it needs: as many replies as it
\* read, every reply it cites among the first of them.
Whole(h, o) ==
    LET read == Thread(h, o.step) IN Cardinality(read) = o.step /\ o.cites \subseteq read

\* takeSummary, up to its write.  A translation is checked against the summary
\* at its step here; when that is not the one it was made from, the checks may
\* not tell, unless the count of cites does.
Look(h) ==
    /\ puller[h].mode \in {"pull", "settle"} /\ puller[h].pc = "next"
    /\ \E o \in puller[h].page :
          LET s == [puller[h] EXCEPT !.offer = o]
              here == orig[h][o.step]
          IN  /\ First(puller[h], o)
              /\ \E same \in {TRUE} \cup (IF o.of \in {0, here.ts} THEN {} ELSE {FALSE}) :
                    puller' = [puller EXCEPT ![h] =
                       IF \/ root[h] # "here"
                          \/ (o.of = 0 /\ Cardinality(Thread(h, o.step)) < o.step)
                          \/ (o.of # 0 /\ here.status # "ok")
                       THEN [s EXCEPT !.pc = "aside"]
                       ELSE IF o.ts \notin Sound \/ ~same
                               \/ (o.of # 0 /\ Cardinality(here.cites) # Cardinality(o.cites))
                       THEN Decided(s)
                       ELSE IF o.of = 0 /\ ~Whole(h, o) THEN [s EXCEPT !.pc = "aside"]
                       ELSE [s EXCEPT !.pc = "keep"]]
    /\ UNCHANGED <<posts, tables, waiting, cursor, writing, wording, clock>>

\* For TextsSpec: the root is not looked at again.
SlipAccepted(h, o, row) == row.status # "ok" \/ row.ts < o.ts

\* AcceptSummary: the root is still here, and the row not as new.
Accepted(h, o, row) == root[h] = "here" /\ (row.status # "ok" \/ row.ts < o.ts)

Taking(h, o, row) ==
    IF Accepted(h, o, row)
    THEN [status |-> "ok", tries |-> row.tries, ts |-> o.ts, of |-> o.of,
          cites |-> o.cites, origin |-> o.peer, rev |-> 0]
    ELSE row

Accept(h) ==
    LET o == puller[h].offer IN
    /\ puller[h].pc = "keep"
    /\ orig' = IF o.of = 0 THEN Put(orig, h, o.step, Taking(h, o, orig[h][o.step])) ELSE orig
    /\ tr' = IF o.of # 0 THEN Put(tr, h, o.step, Taking(h, o, tr[h][o.step])) ELSE tr
    /\ puller' = [puller EXCEPT ![h] = Decided(@)]
    /\ UNCHANGED <<posts, revs, waiting, cursor, writing, wording, clock>>

SameKey(w, o) == w.peer = o.peer /\ w.step = o.step /\ (w.of = 0) = (o.of = 0)

\* A peer's entries but for the longest-waiting ones beyond the limit.
Capped(queue, p) ==
    Picked(queue, {i \in DOMAIN queue :
        queue[i].peer = p =>
            Cardinality({j \in DOMAIN queue : j > i /\ queue[j].peer = p}) < PendingMax})

\* SetPendingSummary: the newest of a key stands, in the key's place.
SetAside(queue, o) ==
    Capped(IF \E i \in DOMAIN queue : SameKey(queue[i], o)
           THEN [i \in DOMAIN queue |->
                    IF SameKey(queue[i], o) /\ o.ts > queue[i].ts THEN o ELSE queue[i]]
           ELSE Append(queue, o), o.peer)

\* summaryWaits.
Aside(h) ==
    /\ puller[h].pc = "aside"
    /\ waiting' = [waiting EXCEPT ![h] = SetAside(@, [puller[h].offer EXCEPT !.rev = 0])]
    /\ puller' = [puller EXCEPT ![h] = Done(@)]
    /\ UNCHANGED <<posts, tables, cursor, writing, wording, clock>>

\* DropPendingSummary.
Drop(h) ==
    /\ puller[h].pc = "drop"
    /\ waiting' = [waiting EXCEPT ![h] =
          Picked(@, {i \in DOMAIN @ : ~SameKey(@[i], puller[h].offer)})]
    /\ puller' = [puller EXCEPT ![h] = Done(@)]
    /\ UNCHANGED <<posts, tables, cursor, writing, wording, clock>>

\* The page is through: drained, or the cursor moves and the next is asked for;
\* or all that waited has been tried.
PageDone(h) ==
    LET s == puller[h] IN
    /\ s.mode \in {"pull", "settle"} /\ s.pc = "next" /\ s.page = {}
    /\ IF s.mode = "settle" \/ s.next <= s.cursor
       THEN puller' = [puller EXCEPT ![h] = Idle] /\ UNCHANGED cursor
       ELSE /\ cursor' = [cursor EXCEPT ![h] = [@ EXCEPT ![s.peer] = s.next]]
            /\ puller' = [puller EXCEPT ![h] =
                  [Idle EXCEPT !.mode = "fetch", !.peer = s.peer, !.cursor = s.next]]
    /\ UNCHANGED <<posts, tables, waiting, writing, wording, clock>>

\* The process stops and starts: the tables stay.
Restart(h) ==
    /\ writing[h] # NoWork \/ wording[h] # NoWork \/ puller[h] # Idle
    /\ writing' = [writing EXCEPT ![h] = NoWork]
    /\ wording' = [wording EXCEPT ![h] = NoWork]
    /\ puller' = [puller EXCEPT ![h] = Idle]
    /\ UNCHANGED <<posts, tables, waiting, cursor, clock>>

Busy(h) == \/ FetchFails(h)
           \/ Fetch(h)
           \/ Look(h)
           \/ Accept(h)
           \/ Aside(h)
           \/ Drop(h)
           \/ PageDone(h)

Answers(h) == \E t \in Times[h] : \/ \E cites \in SUBSET writing[h].read : Summarize(h, cites, t)
                                  \/ TranslateSummary(h, t)

Next ==
    \E h \in Hubs :
        \/ CreateRoot(h)
        \/ DeleteRoot(h)
        \/ \E r \in Replies : CreateReply(h, r) \/ DeleteReply(h, r)
        \/ \E s \in Steps : Read(h, s) \/ ReadWords(h, s)
        \/ Answers(h)
        \/ FailSummary(h) \/ NoSummary(h)
        \/ FailWords(h) \/ NoWords(h)
        \/ Resummarize(h)
        \/ \E p \in Pulls[h] : StartPull(h, p)
        \/ Settle(h)
        \/ Busy(h)
        \/ Restart(h)

Spec == Init /\ [][Next]_vars

-----------------------------------------------------------------------------
\* The workers' passes and the rounds of replicate go on for the life of the
\* process: each step, each peer and the waiting entries have their turn, a
\* model or a peer asked again and again answers some time, and the restarts
\* that cut a round short stop some time.
Fairness ==
    /\ \A h \in Writers : \A s \in Steps :
          /\ SF_vars(Read(h, s))
          /\ SF_vars(/\ writing[h].step = s
                     /\ \/ FailSummary(h)
                        \/ \E cites \in SUBSET writing[h].read, t \in Times[h] : Summarize(h, cites, t))
    /\ \A h \in {h \in Hubs : Pulls[h] # {}} :
          /\ WF_vars(Busy(h)) /\ SF_vars(Settle(h))
          /\ \A p \in Pulls[h] : SF_vars(StartPull(h, p)) /\ SF_vars(Fetch(h) /\ puller[h].peer = p)
    /\ <>[][\A h \in Hubs : Restart(h) => Busy(h) \/ puller[h] = Idle]_vars

FairSpec == Spec /\ Fairness

\* The types of the tables; no step has more tries than there are.
TypeOK ==
    /\ root \in [Hubs -> {"away", "here", "gone"}]
    /\ replies \in [Hubs -> Seq(Replies)] /\ gone \in [Hubs -> Seq(Replies)]
    /\ orig \in [Hubs -> [Steps -> Row]] /\ tr \in [Hubs -> [Steps -> Row]]
    /\ revs \in [Hubs -> Nat]
    /\ waiting \in [Hubs -> Seq(Offer)]
    /\ cursor \in [Hubs -> [Hubs -> Nat]]
    /\ puller \in [Hubs -> Puller]
    /\ writing \in [Hubs -> Work] /\ wording \in [Hubs -> Work]
    /\ clock \in [Hubs -> Nat]

\* Where a reply stood among the deletes of h; past them all when it did not go.
WentAt(h, r) == IF r \in Entries(gone[h]) THEN CHOOSE i \in DOMAIN gone[h] : gone[h][i] = r
                ELSE Len(gone[h]) + 1

\* What a reply hangs from: the replies without which it stands in no thread.
Above(r) == {q \in Replies \ {r} : Climb((Replies \cup {Root}) \ {q}, r) = 0}

\* A summary this hub wrote from the thread cites no reply that is deleted,
\* whenever the delete came, before the model's answer or after; but for one
\* that had fallen out of the thread with a reply above it first.
OwnCitesStand ==
    \A h \in Hubs, s \in Steps : orig[h][s].status = "ok" /\ orig[h][s].origin = Local =>
        \A r \in orig[h][s].cites : r \in Entries(gone[h]) =>
            \E q \in Above(r) : WentAt(h, q) < WentAt(h, r)

\* OwnCitesStand (LatestSummary, src/internal/store/summary.go:166), with the types.
CitesStand == TypeOK /\ OwnCitesStand

\* Every step a thread has reached is written, or its tries are spent, though
\* answers are discarded as replies go under the model; unless the replies
\* stand too deep for Thread to walk to, or the bound on time is met.
Summarised ==
    \A h \in Writers, s \in Steps :
        (root[h] = "here" /\ Cardinality(Thread(h, s)) = s)
        ~> \/ orig[h][s].status = "ok" \/ orig[h][s].tries = MaxTries
           \/ root[h] # "here" \/ Cardinality(Thread(h, s)) < s
           \/ \A t \in Times[h] : t <= clock[h]

\* What p wrote from the thread at s, as it serves it.
Served(p, s, t) == orig[p][s].status = "ok" /\ orig[p][s].origin = Local /\ orig[p][s].ts = t

\* A hub that only takes comes to have what a peer serves past its cursor, or
\* a newer one, if it holds the thread as far as the summary needs.
Delivered ==
    \A h \in Hubs \ Writers, s \in Steps : \A p \in Pulls[h] : \A t \in Times[p] \cap Sound :
        (Served(p, s, t) /\ orig[p][s].rev > cursor[h][p] /\ root[h] = "here" /\ puller[h] = Idle)
        ~> \/ orig[h][s].status = "ok" /\ orig[h][s].ts >= t
           \/ ~Served(p, s, t)
           \/ root[h] # "here"
           \/ ~Whole(h, OfferOf(p, s, orig[p][s]))

\* The waiting summary of a step, written from the thread.
Waits(h, s, w) == w \in Entries(waiting[h]) /\ w.step = s /\ w.of = 0

\* A summary that waited for its thread is tried once the thread is whole, and
\* waits no more; unless more wait than a round tries.
WaitsEnd ==
    \A h \in Hubs, s \in Steps :
        (root[h] = "here" /\ \E w \in Entries(waiting[h]) : Waits(h, s, w) /\ Whole(h, w))
        ~> \/ root[h] # "here"
           \/ \A w \in Entries(waiting[h]) : Waits(h, s, w) => ~Whole(h, w)
           \/ Len(waiting[h]) > SettleLimit

-----------------------------------------------------------------------------
\* LatestSummary (src/internal/store/summary.go:161): "A translation only ever
\* stands beside an original, so the highest step always has one."
StandsBeside ==
    \A h \in Hubs, s \in Steps : tr[h][s].status = "ok" => orig[h][s].status = "ok"
=============================================================================
