---------------------------- MODULE HubTranslations ----------------------------
(***************************************************************************)
(* Posts put into the readers' language, and the hubs that take each       *)
(* other's: the translations and pending_translations tables of            *)
(* internal/store (SetTranslation, nextRev, TranslationsPage,              *)
(* AcceptTranslation, SetPendingTranslation, DropTranslations), the        *)
(* translator of internal/lang (pass, drainN) and the translations' half   *)
(* of internal/replicate (pullTranslations, take, settle).                 *)
(*                                                                         *)
(* One target language, so that a post is the key of a row.  A translation *)
(* is known by the hub that made it and the time it was made: its words    *)
(* are told apart by nothing else but whether lang.Check lets them pass.   *)
(* How posts come and go is HubReplication's business, and so are peers    *)
(* added and removed; here the peers stand, and a post may come to a hub   *)
(* at any time and go for good at any time.  The store does not fail.      *)
(* Slip... is as in that module.                                           *)
(***************************************************************************)
EXTENDS Queues

CONSTANTS
    Hubs, Posts,
    Local,       \* the origin '' of a translation made on the hub itself
    Pulls,       \* Pulls[h]: the hubs h pulls from
    Translators, \* the hubs that translate; the others only take
    Tongues,     \* Tongues[h][q]: what h's model may name the language of q
    Sound,       \* the posts and times whose words lang.Check lets pass
    PageLimit,   \* rows a /v1/translations page holds at most
    PendingMax,  \* entries a peer may have waiting
    MaxTries,    \* answers that are none a post gets
    Times,       \* bound: Times[h], when translations are made on h
    Redoes,      \* bound: the hubs where an editor runs -retranslate
    Lapsing      \* bound: the posts whose entries may wait out pendingAge

ASSUME LocalAssumption == Local \notin Hubs
ASSUME PullsAssumption == Pulls \in [Hubs -> SUBSET Hubs] /\ \A h \in Hubs : h \notin Pulls[h]
ASSUME TimesAssumption == Times \in [Hubs -> SUBSET (Nat \ {0})]
ASSUME LimitsAssumption == {PageLimit, PendingMax, MaxTries} \subseteq Nat \ {0}
ASSUME TonguesAssumption == Tongues \in [Hubs -> [Posts -> SUBSET {"own", "other"}]]

VARIABLES
    here,       \* here[h]: the posts h holds
    gone,       \* gone[h]: the posts deleted on h
    tongue,     \* tongue[h][q]: "own" is the target language, "" not yet named
    rows,       \* rows[h][q]: the translations row of q
    revs,       \* revs[h]: the last rev h gave
    waiting,    \* waiting[h]: pending_translations, the longest-waiting first
    cursor,     \* cursor[h][p]: peer_state.tr_cursor
    puller,     \* puller[h]: the replication goroutine
    work,       \* work[h]: what the translator has listed and not answered
    clock       \* clock[h]: when h last made a translation

vars == <<here, gone, tongue, rows, revs, waiting, cursor, puller, work, clock>>

\* A row that is not there; a failed one is not kept and has tries.
NoRow == [kept |-> FALSE, tries |-> 0, ts |-> 0, origin |-> Local, rev |-> 0]

Row == [kept : BOOLEAN, tries : 0 .. MaxTries, ts : Nat, origin : Hubs \cup {Local}, rev : Nat]

\* A translation as a peer serves it, or as it waits.
Offer == [peer : Hubs, post : Posts, ts : Nat, rev : Nat]

\* In mode pull, page is what is left of the page in hand and next the cursor
\* after it; in mode settle, what is left of the waiting entries.
Puller == [mode : {"idle", "fetch", "pull", "settle"}, pc : {"next", "keep", "aside", "drop"},
           peer : Hubs \cup {Local}, cursor : Nat, next : Nat,
           page : SUBSET Offer, offer : Offer \cup {Local}]

Idle == [mode |-> "idle", pc |-> "next", peer |-> Local, cursor |-> 0, next |-> 0,
         page |-> {}, offer |-> Local]

-----------------------------------------------------------------------------
Init ==
    /\ here = [h \in Hubs |-> {}]
    /\ gone = [h \in Hubs |-> {}]
    /\ tongue = [h \in Hubs |-> [q \in Posts |-> ""]]
    /\ rows = [h \in Hubs |-> [q \in Posts |-> NoRow]]
    /\ revs = [h \in Hubs |-> 0]
    /\ waiting = [h \in Hubs |-> <<>>]
    /\ cursor = [h \in Hubs |-> [p \in Hubs |-> 0]]
    /\ puller = [h \in Hubs |-> Idle]
    /\ work = [h \in Hubs |-> {}]
    /\ clock = [h \in Hubs |-> 0]

\* A post comes, from a client or a peer; a deleted one does not come back.
Create(h, q) ==
    /\ q \notin here[h] \cup gone[h]
    /\ here' = [here EXCEPT ![h] = @ \cup {q}]
    /\ UNCHANGED <<gone, tongue, rows, revs, waiting, cursor, puller, work, clock>>

\* apply on post.delete: its language and its translations go with it.
Delete(h, q) ==
    /\ q \in here[h]
    /\ here' = [here EXCEPT ![h] = @ \ {q}]
    /\ gone' = [gone EXCEPT ![h] = @ \cup {q}]
    /\ tongue' = [tongue EXCEPT ![h] = [@ EXCEPT ![q] = ""]]
    /\ rows' = [rows EXCEPT ![h] = [@ EXCEPT ![q] = NoRow]]
    /\ UNCHANGED <<revs, waiting, cursor, puller, work, clock>>

\* The language worker names a post.
SetLang(h, q, l) ==
    /\ q \in here[h] /\ tongue[h][q] = ""
    /\ l \in Tongues[h][q]
    /\ tongue' = [tongue EXCEPT ![h] = [@ EXCEPT ![q] = l]]
    /\ UNCHANGED <<here, gone, rows, revs, waiting, cursor, puller, work, clock>>

-----------------------------------------------------------------------------
(* The translator.                                                         *)

\* For TypeOK: one more try than there are.
SlipOwed(h) ==
    {q \in here[h] : tongue[h][q] = "other" /\ ~rows[h][q].kept /\ rows[h][q].tries <= MaxTries}

\* PostsToTranslate: no translation yet, whoever made it.
Owed(h) ==
    {q \in here[h] : tongue[h][q] = "other" /\ ~rows[h][q].kept /\ rows[h][q].tries < MaxTries}

\* A page of the worklist; the next is read when it is through.  What is owed
\* may change while the model thinks, a minute or more to each.
List(h) ==
    /\ h \in Translators
    /\ work[h] = {} /\ Owed(h) # {}
    /\ work' = [work EXCEPT ![h] = Owed(h)]
    /\ UNCHANGED <<here, gone, tongue, rows, revs, waiting, cursor, puller, clock>>

\* For FreshForPeers: one more than the highest rev there is.
SlipNextRev(h) == 1 + Cardinality({q \in Posts : rows[h][q].rev > 0})

\* A number never given before, deleted rows' included.
NextRev(h) == revs[h] + 1

\* SetTranslation writes over whatever row there is by now; a post that is
\* gone gets none, and the rev is spent all the same.
SetTranslation(h, q, row, rev) ==
    /\ rows' = IF q \in here[h]
               THEN [rows EXCEPT ![h] = [@ EXCEPT ![q] =
                        [row EXCEPT !.tries = rows[h][q].tries + 1, !.rev = rev]]]
               ELSE rows
    /\ revs' = [revs EXCEPT ![h] = IF rev = 0 THEN @ ELSE rev]
    /\ work' = [work EXCEPT ![h] = @ \ {q}]

Translate(h, q, t) ==
    /\ q \in work[h]
    /\ t \in Times[h] /\ t > clock[h]
    /\ clock' = [clock EXCEPT ![h] = t]
    /\ SetTranslation(h, q, [NoRow EXCEPT !.kept = TRUE, !.ts = t], NextRev(h))
    /\ UNCHANGED <<here, gone, tongue, waiting, cursor, puller>>

\* An answer that is none costs a try.
Fail(h, q) ==
    /\ q \in work[h]
    /\ SetTranslation(h, q, NoRow, 0)
    /\ UNCHANGED <<here, gone, tongue, waiting, cursor, puller, clock>>

\* No answer costs nothing: stepped over, or the pass ends.
StepOver(h, q) ==
    /\ q \in work[h]
    /\ work' = [work EXCEPT ![h] = @ \ {q}]
    /\ UNCHANGED <<here, gone, tongue, rows, revs, waiting, cursor, puller, clock>>

\* exe-hub -retranslate, beside the running daemon.
Retranslate(h, q) ==
    /\ h \in Redoes
    /\ rows[h][q] # NoRow
    /\ rows' = [rows EXCEPT ![h] = [@ EXCEPT ![q] = NoRow]]
    /\ UNCHANGED <<here, gone, tongue, revs, waiting, cursor, puller, work, clock>>

-----------------------------------------------------------------------------
(* The puller.                                                             *)

Mine(p) == {q \in Posts : rows[p][q].kept /\ rows[p][q].origin = Local}

StartPull(h, p) ==
    /\ puller[h] = Idle
    /\ p \in Pulls[h]
    /\ puller' = [puller EXCEPT ![h] =
          [Idle EXCEPT !.mode = "fetch", !.peer = p, !.cursor = cursor[h][p]]]
    /\ UNCHANGED <<here, gone, tongue, rows, revs, waiting, cursor, work, clock>>

FetchFails(h) ==
    /\ puller[h].mode = "fetch"
    /\ puller' = [puller EXCEPT ![h] = Idle]
    /\ UNCHANGED <<here, gone, tongue, rows, revs, waiting, cursor, work, clock>>

\* For TextsSpec: what was taken is served on.
SlipAfter(p, n) == {q \in Posts : rows[p][q].kept /\ (rows[p][q].rev > n \/ rows[p][q].rev = 0)}

\* The rows a page is read from: this hub's own, past a rev.
After(p, n) == {q \in Mine(p) : rows[p][q].rev > n}

PageOf(p, n) ==
    {[peer |-> p, post |-> q, ts |-> rows[p][q].ts, rev |-> rows[p][q].rev] :
        q \in {q \in After(p, n) :
            Cardinality({r \in After(p, n) : rows[p][r].rev < rows[p][q].rev}) < PageLimit}}

\* A verified page of TranslationsPage.
Fetch(h) ==
    LET p == puller[h].peer
        page == PageOf(p, puller[h].cursor)
    IN  /\ puller[h].mode = "fetch"
        /\ \E n \in {puller[h].cursor} \cup {o.rev : o \in page} :
              /\ \A o \in page : o.rev <= n
              /\ page # {} => \E o \in page : o.rev = n
              /\ puller' = [puller EXCEPT ![h] = [@ EXCEPT !.mode = "pull", !.page = page, !.next = n]]
        /\ UNCHANGED <<here, gone, tongue, rows, revs, waiting, cursor, work, clock>>

\* settle("") at the end of a round: what waited too long goes unasked, what
\* waits for a post that is here is tried.
Settle(h) ==
    /\ puller[h] = Idle
    /\ \E old \in SUBSET Lapsing :
          LET left == Picked(waiting[h], {i \in DOMAIN waiting[h] : waiting[h][i].post \notin old})
              due == {left[i] : i \in {i \in DOMAIN left : left[i].post \in here[h]}}
          IN  /\ left # waiting[h] \/ due # {}
              /\ waiting' = [waiting EXCEPT ![h] = left]
              /\ puller' = [puller EXCEPT ![h] =
                    IF due = {} THEN Idle ELSE [Idle EXCEPT !.mode = "settle", !.page = due]]
    /\ UNCHANGED <<here, gone, tongue, rows, revs, cursor, work, clock>>

\* settle(q) when a pulled create of q has been ingested.
SettleFor(h, q) ==
    LET due == {waiting[h][i] : i \in {i \in DOMAIN waiting[h] : waiting[h][i].post = q}}
    IN  /\ puller[h] = Idle
        /\ q \in here[h] /\ due # {}
        /\ puller' = [puller EXCEPT ![h] = [Idle EXCEPT !.mode = "settle", !.page = due]]
        /\ UNCHANGED <<here, gone, tongue, rows, revs, waiting, cursor, work, clock>>

\* Rows come in the order of their revs, waiting entries the newest first.
First(s, o) ==
    /\ o \in s.page
    /\ \A x \in s.page : IF s.mode = "pull" THEN o.rev <= x.rev ELSE o.ts >= x.ts

\* take is done with the offer in hand.
Done(s) == [s EXCEPT !.pc = "next", !.page = s.page \ {s.offer}, !.offer = Local]

\* For WaitsEnd: only what is passed is decided.
SlipDecided(s) == IF s.mode = "settle" /\ s.pc # "keep" THEN [s EXCEPT !.pc = "drop"] ELSE Done(s)

\* What take decides is final: a waiting entry goes.
Decided(s) == IF s.mode = "settle" THEN [s EXCEPT !.pc = "drop"] ELSE Done(s)

\* take, up to its write: the post is looked up, the words are checked.
Look(h) ==
    /\ puller[h].mode \in {"pull", "settle"} /\ puller[h].pc = "next"
    /\ \E o \in puller[h].page :
          /\ First(puller[h], o)
          /\ LET s == [puller[h] EXCEPT !.offer = o] IN
             puller' = [puller EXCEPT ![h] =
                 IF o.post \notin here[h] THEN [s EXCEPT !.pc = "aside"]
                 ELSE IF tongue[h][o.post] = "own" \/ <<o.post, o.ts>> \notin Sound THEN Decided(s)
                 ELSE [s EXCEPT !.pc = "keep"]]
    /\ UNCHANGED <<here, gone, tongue, rows, revs, waiting, cursor, work, clock>>

\* For NewestStays: an older one is taken too.
SlipAccepts(h, o) == o.post \in here[h]

\* For Delivered: the first to come stays.
SlipAcceptsFirst(h, o) == o.post \in here[h] /\ rows[h][o.post] = NoRow

\* AcceptTranslation: the post is still here, and the row not as new.
Accepts(h, o) ==
    /\ o.post \in here[h]
    /\ ~rows[h][o.post].kept \/ rows[h][o.post].ts < o.ts

Accept(h) ==
    LET o == puller[h].offer IN
    /\ puller[h].pc = "keep"
    /\ rows' = IF Accepts(h, o)
               THEN [rows EXCEPT ![h] = [@ EXCEPT ![o.post] =
                        [kept |-> TRUE, tries |-> rows[h][o.post].tries, ts |-> o.ts,
                         origin |-> o.peer, rev |-> 0]]]
               ELSE rows
    /\ puller' = [puller EXCEPT ![h] = Decided(@)]
    /\ UNCHANGED <<here, gone, tongue, revs, waiting, cursor, work, clock>>

SameKey(w, o) == w.peer = o.peer /\ w.post = o.post

\* A peer's entries but for the longest-waiting ones beyond the limit.
Capped(queue, p) ==
    Picked(queue, {i \in DOMAIN queue :
        queue[i].peer = p =>
            Cardinality({j \in DOMAIN queue : j > i /\ queue[j].peer = p}) < PendingMax})

\* SetPendingTranslation: the newest of a key stands, in the key's place.
SetAside(queue, o) ==
    Capped(IF \E i \in DOMAIN queue : SameKey(queue[i], o)
           THEN [i \in DOMAIN queue |->
                    IF SameKey(queue[i], o) /\ o.ts > queue[i].ts THEN o ELSE queue[i]]
           ELSE Append(queue, o), o.peer)

\* The post is not here: the offer waits for it, or goes on waiting.
Aside(h) ==
    /\ puller[h].pc = "aside"
    /\ waiting' = [waiting EXCEPT ![h] = SetAside(@, [puller[h].offer EXCEPT !.rev = 0])]
    /\ puller' = [puller EXCEPT ![h] = Done(@)]
    /\ UNCHANGED <<here, gone, tongue, rows, revs, cursor, work, clock>>

\* DropPendingTranslation.
Drop(h) ==
    /\ puller[h].pc = "drop"
    /\ waiting' = [waiting EXCEPT ![h] =
          Picked(@, {i \in DOMAIN @ : ~SameKey(@[i], puller[h].offer)})]
    /\ puller' = [puller EXCEPT ![h] = Done(@)]
    /\ UNCHANGED <<here, gone, tongue, rows, revs, cursor, work, clock>>

\* The page is through: drained, or the cursor moves and the next is asked for.
PageDone(h) ==
    LET s == puller[h] IN
    /\ s.mode = "pull" /\ s.pc = "next" /\ s.page = {}
    /\ IF s.next <= s.cursor
       THEN puller' = [puller EXCEPT ![h] = Idle] /\ UNCHANGED cursor
       ELSE /\ cursor' = [cursor EXCEPT ![h] = [@ EXCEPT ![s.peer] = s.next]]
            /\ puller' = [puller EXCEPT ![h] =
                  [Idle EXCEPT !.mode = "fetch", !.peer = s.peer, !.cursor = s.next]]
    /\ UNCHANGED <<here, gone, tongue, rows, revs, waiting, work, clock>>

\* All that was due has been tried.
SettleDone(h) ==
    /\ puller[h].mode = "settle" /\ puller[h].pc = "next" /\ puller[h].page = {}
    /\ puller' = [puller EXCEPT ![h] = Idle]
    /\ UNCHANGED <<here, gone, tongue, rows, revs, waiting, cursor, work, clock>>

\* The process stops and starts: the tables stay.
Restart(h) ==
    /\ work[h] # {} \/ puller[h] # Idle
    /\ work' = [work EXCEPT ![h] = {}]
    /\ puller' = [puller EXCEPT ![h] = Idle]
    /\ UNCHANGED <<here, gone, tongue, rows, revs, waiting, cursor, clock>>

Busy(h) == \/ FetchFails(h)
           \/ Fetch(h)
           \/ Look(h)
           \/ Accept(h)
           \/ Aside(h)
           \/ Drop(h)
           \/ PageDone(h)
           \/ SettleDone(h)

Next ==
    \E h \in Hubs :
        \/ \E q \in Posts : \/ Create(h, q)
                            \/ Delete(h, q)
                            \/ \E l \in Tongues[h][q] : SetLang(h, q, l)
                            \/ \E t \in Times[h] : Translate(h, q, t)
                            \/ Fail(h, q)
                            \/ StepOver(h, q)
                            \/ Retranslate(h, q)
                            \/ SettleFor(h, q)
        \/ List(h)
        \/ \E p \in Pulls[h] : StartPull(h, p)
        \/ Settle(h)
        \/ Busy(h)
        \/ Restart(h)

Spec == Init /\ [][Next]_vars

-----------------------------------------------------------------------------
\* The rounds of replicate go on for the life of the process: each peer and
\* the waiting entries have their turn, a peer asked again and again answers
\* some time, and the restarts that interrupt a round (and do not leave what
\* its own end would) stop some time.
Fairness ==
    /\ \A h \in Hubs :
          /\ WF_vars(Busy(h)) /\ SF_vars(Settle(h))
          /\ \A p \in Pulls[h] : SF_vars(StartPull(h, p)) /\ SF_vars(Fetch(h) /\ puller[h].peer = p)
    /\ <>[][\A h \in Hubs : Restart(h) => Busy(h) \/ puller[h] = Idle]_vars

FairSpec == Spec /\ Fairness

\* The types of the tables; no post has more tries than there are.
TypeOK ==
    /\ here \in [Hubs -> SUBSET Posts]
    /\ gone \in [Hubs -> SUBSET Posts]
    /\ tongue \in [Hubs -> [Posts -> {"", "own", "other"}]]
    /\ rows \in [Hubs -> [Posts -> Row]]
    /\ revs \in [Hubs -> Nat]
    /\ waiting \in [Hubs -> Seq(Offer)]
    /\ cursor \in [Hubs -> [Hubs -> Nat]]
    /\ puller \in [Hubs -> Puller]
    /\ work \in [Hubs -> SUBSET Posts]
    /\ clock \in [Hubs -> Nat]

\* A translation a hub makes, or makes again, is past the cursor of every peer
\* and past every page a peer has in hand, whatever rows -retranslate and
\* deletes took away before: no peer steps over it.
FreshForPeers ==
    [][\A p \in Hubs, q \in Posts :
          rows'[p][q].rev # 0 /\ rows'[p][q] # rows[p][q] =>
              \A h \in Hubs : /\ cursor[h][p] < rows'[p][q].rev
                              /\ puller[h].peer = p =>
                                    puller[h].cursor < rows'[p][q].rev /\ puller[h].next < rows'[p][q].rev]_vars

\* The last rev a hub gave is behind none of its rows, no peer's cursor and no
\* page a peer has in hand: what FreshForPeers rests on.
RevsAhead ==
    \A p \in Hubs :
        /\ \A q \in Posts : rows[p][q].rev <= revs[p]
        /\ \A h \in Hubs : /\ cursor[h][p] <= revs[p]
                           /\ puller[h].peer = p =>
                                 puller[h].cursor <= revs[p] /\ puller[h].next <= revs[p]

\* One hop: what is kept, or waits, under a peer's name was made by that peer,
\* so a translation an editor dropped is not handed back by those who took it.
MadeByPeer ==
    \A h \in Hubs :
        /\ \A q \in Posts : rows[h][q].origin # Local =>
              rows[h][q].origin \in Pulls[h] /\ rows[h][q].ts \in Times[rows[h][q].origin]
        /\ \A i \in DOMAIN waiting[h] : waiting[h][i].ts \in Times[waiting[h][i].peer]

\* On a hub that only takes, the newest stays: pages, what waited and what was
\* served again come in any order, and a reader never goes back to an older
\* one, or to none while the post is here.
NewestStays ==
    [][\A h \in Hubs \ (Translators \cup Redoes), q \in Posts :
          rows[h][q].kept /\ q \in here'[h] =>
              rows'[h][q].kept /\ rows'[h][q].ts >= rows[h][q].ts]_vars

\* A hub that only takes comes to have what a peer serves past its cursor, or
\* something newer, if it holds the post.
Delivered ==
    \A h \in Hubs \ (Translators \cup Redoes), q \in Posts : \A p \in Pulls[h] : \A t \in {t \in Times[p] : <<q, t>> \in Sound} :
        ( /\ q \in Mine(p) /\ rows[p][q].ts = t /\ rows[p][q].rev > cursor[h][p]
          /\ q \in here[h] /\ puller[h] = Idle )
        ~> \/ rows[h][q].kept /\ rows[h][q].ts >= t
           \/ ~(q \in Mine(p) /\ rows[p][q].ts = t)
           \/ q \notin here[h]
           \/ tongue[h][q] = "own"

\* What waited for a post is tried when the post is here, and waits no more.
WaitsEnd ==
    \A h \in Hubs, q \in Posts :
        (\E i \in DOMAIN waiting[h] : waiting[h][i].post = q) /\ q \in here[h]
        ~> (\A i \in DOMAIN waiting[h] : waiting[h][i].post # q) \/ q \notin here[h]

-----------------------------------------------------------------------------
\* PLAN.md on translations: "The newest translation wins, whoever made it", and
\* "what a hub has, from anyone, it does not owe".  While its post is here, a
\* translation a hub has is not lost to an answer of its own model that is none;
\* only an editor takes it away.
NotLostToFailure ==
    [][\A h \in Hubs, q \in Posts :
          rows[h][q].kept /\ q \in here'[h] /\ rows'[h][q] # NoRow => rows'[h][q].kept]_vars
=============================================================================
