------------------------------- MODULE HubPins -------------------------------
(***************************************************************************)
(* The files of one hub: the pins table and its refcounts, the rows that   *)
(* hold a reference, and the kubo node behind it.  internal/store (apply,  *)
(* dropRef, AddPin, AdoptPin, MissingMirrors, SweepStaged, setCard,        *)
(* SetPicture, Rebuild), internal/api (pinBytes, promoteDrafts),           *)
(* internal/replicate (handle, mirror, heal), internal/card (deriveCard,   *)
(* derivePictures) and the sweep and reconcile loops of cmd/exe-hub.       *)
(*                                                                         *)
(* The store runs one transaction at a time; a call to kubo is always      *)
(* outside it.  A file is its CID: kubo mints one CID for the same bytes.  *)
(* Seqs, bans and the order of a peer's log are HubReplication's business: *)
(* here messages come in any order.  A definition named Slip... is as in   *)
(* that module: the one after it with a plausible mistake in it.           *)
(***************************************************************************)
EXTENDS Integers, Sequences, FiniteSets

CONSTANTS
    Cids,
    Authors,
    Msgs,       \* ids of the messages about files
    Env,        \* Env[id]: what the message says
    Direct,     \* the messages clients send to this hub
    Served,     \* the messages its peers serve
    Uploads,    \* bound: the files clients upload, with their avatar flag
    Pictures,   \* Pictures[p]: the pictures the links of post p may bring
    None        \* no file, no message

\* files counts the embeds and posters of a post that name a CID; avatar is a
\* profile's, post the post a delete takes.
Envelope == [type : {"profile.set", "post.create", "post.delete"}, author : Authors,
             files : [Cids -> Nat], avatar : Cids \cup {None}, post : Msgs]

File == [cid : Cids, avatar : BOOLEAN]

ASSUME EnvAssumption == Env \in [Msgs -> Envelope]
ASSUME SourcesAssumption == Direct \subseteq Msgs /\ Served \subseteq Msgs
ASSUME UploadsAssumption == Uploads \subseteq File
ASSUME PicturesAssumption == Pictures \in [Msgs -> SUBSET (Cids \cup {None})]
ASSUME NoneAssumption == None \notin Cids \cup Msgs
\* A key is 32 bytes, and so is an id.
ASSUME FiniteAssumption == IsFiniteSet(Authors) /\ IsFiniteSet(Msgs)

VARIABLES
    log,        \* the messages table by rowid
    db,         \* pins, and the derived tables that name files
    kubo,       \* the CIDs kubo holds a pin for
    adding,     \* uploads kubo has taken and the pins table has not
    unpins,     \* released CIDs whose Unpin is still to be called, and by whom
    puller,     \* replicate's goroutine
    worker,     \* the card worker's goroutine
    recon       \* the reconcile goroutine

vars == <<log, db, kubo, adding, unpins, puller, worker, recon>>

Entry == [id : Msgs, local : BOOLEAN]

\* rows: the CIDs with a pins row; refs, flagged and aged: the row's refcount
\* (0 without a row), its is_avatar, and whether the sweep's cutoff is past
\* its created.  copy: the picture a post's row in cards or pictures holds.
Db == [rows : SUBSET Cids, refs : [Cids -> Nat],
       flagged : SUBSET Cids, aged : SUBSET Cids,
       posts : SUBSET Msgs, avatar : [Authors -> Cids \cup {None}],
       copy : [Msgs -> Cids \cup {None}]]

\* Who calls Unpin: the request of a message, or a goroutine of its own.
Unpin == [by : Msgs \cup {"puller", "worker", "sweep"}, cid : Cids]

\* todo: the files mirror is still to be called for, before msg is ingested
\* or, with no msg, for heal; file: the one it is at.
Puller == [pc : {"idle", "next", "fetch", "record"}, msg : Msgs \cup {None},
           todo : SUBSET File, file : File \cup {None}]
Idle == [pc |-> "idle", msg |-> None, todo |-> {}, file |-> None]

\* The post a picture was fetched for, and the picture kubo took.
Worker == [post : Msgs \cup {None}, cid : Cids \cup {None}]
NoJob == [post |-> None, cid |-> None]

Recon == [pc : {"sleep", "read", "pin"}, want : SUBSET Cids]
Asleep == [pc |-> "sleep", want |-> {}]

-----------------------------------------------------------------------------
(* The pins table.  A tally gives every CID a number of references.        *)

Ids == {log[i].id : i \in DOMAIN log}

One(f) == [c \in Cids |-> IF c = f THEN 1 ELSE 0]

\* Every kind of reference a pin can have, as AdoptPin counts them.
Count(d, c) ==
    Cardinality(UNION {{<<p, k>> : k \in 1 .. Env[p].files[c]} : p \in d.posts})
    + Cardinality({a \in Authors : d.avatar[a] = c})
    + Cardinality({p \in Msgs : d.copy[p] = c})

\* UPDATE pins SET refs=refs+1: nothing where there is no row.
Bump(d, tally) ==
    [d EXCEPT !.refs = [c \in Cids |-> IF c \in d.rows THEN d.refs[c] + tally[c] ELSE 0]]

\* For TypeOK: only a count of exactly nought deletes the row.
SlipGone(d, tally) == {c \in d.rows : tally[c] > 0 /\ d.refs[c] = tally[c]}

\* The rows dropRef deletes, with their last counted reference.
Gone(d, tally) == {c \in d.rows : tally[c] > 0 /\ d.refs[c] <= tally[c]}

DropRows(d, gone) ==
    [d EXCEPT !.rows = d.rows \ gone,
              !.flagged = d.flagged \ gone,
              !.aged = d.aged \ gone,
              !.refs = [c \in Cids |-> IF c \in gone THEN 0 ELSE d.refs[c]]]

Drop(d, tally) ==
    LET kept == DropRows(d, Gone(d, tally)) IN
    [kept EXCEPT !.refs = [c \in Cids |->
        IF c \in kept.rows THEN kept.refs[c] - tally[c] ELSE 0]]

\* A staged upload, or the flag for a row that is there: its created, and with
\* it its age, stays.
AddPin(d, f) ==
    [d EXCEPT !.rows = @ \cup {f.cid},
              !.flagged = IF f.avatar THEN @ \cup {f.cid} ELSE @]

\* For StagedSwept: heal's pin starts at the one reference it was sent for.
SlipAdoptOne(d, f) == LET e == AddPin(d, f) IN [e EXCEPT !.refs = [@ EXCEPT ![f.cid] = 1]]

\* For Healed: the count is set, and no row made for it.
SlipAdoptUpdates(d, f) ==
    [d EXCEPT !.refs = [@ EXCEPT ![f.cid] = IF f.cid \in d.rows THEN Count(d, f.cid) ELSE 0]]

AdoptPin(d, f) ==
    LET e == AddPin(d, f) IN [e EXCEPT !.refs = [@ EXCEPT ![f.cid] = Count(e, f.cid)]]

\* For RefsNeverOver: the picture that is replaced keeps its reference.
SlipSetCopy(d, post, c) ==
    IF c \in {None, d.copy[post]}
    THEN [d EXCEPT !.copy = [@ EXCEPT ![post] = c]]
    ELSE Bump([d EXCEPT !.copy = [@ EXCEPT ![post] = c], !.rows = @ \cup {c}], One(c))

\* setCard and SetPicture: the old picture's reference goes, the new one's row
\* is made with a reference or gains one.  Nothing asks whether the post is here.
SetCopy(d, post, c) ==
    LET old == d.copy[post]
        e == IF old = c THEN d ELSE Drop(d, One(old))
    IN  IF c = None \/ c = old
        THEN [e EXCEPT !.copy = [@ EXCEPT ![post] = c]]
        ELSE Bump([e EXCEPT !.copy = [@ EXCEPT ![post] = c], !.rows = @ \cup {c}], One(c))

-----------------------------------------------------------------------------
(* apply, for what names files.                                            *)

Create(d, id) == Bump([d EXCEPT !.posts = @ \cup {id}], Env[id].files)

\* Embeds first, then the card and the pictures.
Delete(d, post) ==
    LET e == Drop(Drop(d, Env[post].files), One(d.copy[post])) IN
    [e EXCEPT !.posts = @ \ {post}, !.copy = [@ EXCEPT ![post] = None]]

SetProfile(d, a, new) ==
    LET old == d.avatar[a] IN
    IF new = old THEN d
    ELSE Drop([Bump(d, One(new)) EXCEPT !.avatar = [@ EXCEPT ![a] = new]], One(old))

apply(d, id) ==
    LET e == Env[id] IN
    CASE e.type = "post.create" -> Create(d, id)
      [] e.type = "post.delete" -> Delete(d, e.post)
      [] e.type = "profile.set" -> SetProfile(d, e.author, e.avatar)

\* What apply returns an error for: a direct message's files must be here, its
\* avatar minted by this hub.  A delete is by the owner of a post that is here.
Applies(d, id, local) ==
    LET e == Env[id] IN
    /\ local /\ e.type = "post.create" => \A c \in Cids : e.files[c] > 0 => c \in d.rows
    /\ local /\ e.type = "profile.set" => e.avatar \in {None, d.avatar[e.author]} \cup d.flagged
    /\ e.type = "post.delete" => e.post \in d.posts /\ Env[e.post].author = e.author

\* The rows apply deleted; the transaction's caller unpins them.
Released(d, e) == d.rows \ e.rows

-----------------------------------------------------------------------------
Init ==
    /\ log = <<>>
    /\ db = [rows |-> {}, refs |-> [c \in Cids |-> 0], flagged |-> {}, aged |-> {},
             posts |-> {}, avatar |-> [a \in Authors |-> None],
             copy |-> [p \in Msgs |-> None]]
    /\ kubo = {}
    /\ adding = {}
    /\ unpins = {}
    /\ puller = Idle
    /\ worker = NoJob
    /\ recon = Asleep

\* A goroutine goes on when it has called Unpin for what it released.
Free(who) == \A u \in unpins : u.by # who

\* Unpins of what a transaction of who released.
Release(who, cids) == unpins' = unpins \cup {[by |-> who, cid |-> c] : c \in cids}

\* pinBytes, promoteDrafts and pinMedia: kubo adds and pins the bytes ...
Upload(f) ==
    /\ f \in Uploads \ adding
    /\ kubo' = kubo \cup {f.cid}
    /\ adding' = adding \cup {f}
    /\ UNCHANGED <<log, db, unpins, puller, worker, recon>>

\* ... and the upload is recorded.
Record(f) ==
    /\ f \in adding
    /\ adding' = adding \ {f}
    /\ db' = AddPin(db, f)
    /\ UNCHANGED <<log, kubo, unpins, puller, worker, recon>>

\* One committed ingest transaction.
Commit(id, local, who) ==
    /\ id \notin Ids
    /\ Applies(db, id, local)
    /\ log' = Append(log, [id |-> id, local |-> local])
    /\ db' = apply(db, id)
    /\ Release(who, Released(db, apply(db, id)))

Ingest(id) ==
    /\ id \in Direct
    /\ Commit(id, TRUE, id)
    /\ UNCHANGED <<kubo, adding, puller, worker, recon>>

-----------------------------------------------------------------------------
(* The puller.                                                             *)

FilesOf(id) ==
    CASE Env[id].type = "post.create" ->
             {[cid |-> c, avatar |-> FALSE] : c \in {x \in Cids : Env[id].files[x] > 0}}
      [] Env[id].type = "profile.set" -> {[cid |-> c, avatar |-> TRUE] : c \in {Env[id].avatar} \ {None}}
      [] OTHER -> {}

\* handle: before a message is ingested its files are mirrored, though the
\* message may be one the hub has.
Handle(id) ==
    /\ puller = Idle
    /\ Free("puller")
    /\ id \in Served
    /\ puller' = [Idle EXCEPT !.pc = "next", !.msg = id, !.todo = FilesOf(id)]
    /\ UNCHANGED <<log, db, kubo, adding, unpins, worker, recon>>

\* The last profile.set of an author in the log was pulled from a peer.
PulledProfile(a) ==
    \E i \in DOMAIN log :
        /\ Env[log[i].id].type = "profile.set" /\ Env[log[i].id].author = a
        /\ ~log[i].local
        /\ \A j \in DOMAIN log :
              j > i => ~(Env[log[j].id].type = "profile.set" /\ Env[log[j].id].author = a)

\* Files that pulled messages name and the hub has no row for.
MissingEmbeds == {c \in Cids \ db.rows : \E i \in DOMAIN log :
    ~log[i].local /\ log[i].id \in db.posts /\ Env[log[i].id].files[c] > 0}
MissingAvatars == {c \in Cids \ db.rows : \E a \in Authors :
    db.avatar[a] = c /\ PulledProfile(a)}

MissingMirrors == {[cid |-> c, avatar |-> c \in MissingAvatars] :
    c \in MissingEmbeds \cup MissingAvatars}

\* heal, for the files whose turn it is.
Heal ==
    /\ puller = Idle
    /\ Free("puller")
    /\ MissingMirrors # {}
    /\ puller' = [Idle EXCEPT !.pc = "next", !.todo = MissingMirrors]
    /\ UNCHANGED <<log, db, kubo, adding, unpins, worker, recon>>

\* mirror: nothing to do for a file that has a row.
MirrorCheck(f) ==
    /\ puller.pc = "next"
    /\ Free("puller")
    /\ f \in puller.todo
    /\ puller' = IF f.cid \in db.rows
                 THEN [puller EXCEPT !.todo = puller.todo \ {f}]
                 ELSE [puller EXCEPT !.pc = "fetch", !.file = f]
    /\ UNCHANGED <<log, db, kubo, adding, unpins, worker, recon>>

\* Back to the files still to do.
NextFile == [puller EXCEPT !.pc = "next", !.todo = puller.todo \ {puller.file}, !.file = None]

\* No peer has the file, or kubo cannot add it.
MirrorFails ==
    /\ puller.pc = "fetch"
    /\ puller' = NextFile
    /\ UNCHANGED <<log, db, kubo, adding, unpins, worker, recon>>

\* The peer served other bytes: kubo's pin for them is taken back.
MirrorOther(c) ==
    /\ puller.pc = "fetch"
    /\ c # puller.file.cid
    /\ kubo' = kubo \cup {c}
    /\ Release("puller", {c})
    /\ puller' = NextFile
    /\ UNCHANGED <<log, db, adding, worker, recon>>

MirrorAdd ==
    /\ puller.pc = "fetch"
    /\ kubo' = kubo \cup {puller.file.cid}
    /\ puller' = [puller EXCEPT !.pc = "record"]
    /\ UNCHANGED <<log, db, adding, unpins, worker, recon>>

\* Only heal, after the message, counts what names the file by now.
MirrorRecord ==
    /\ puller.pc = "record"
    /\ db' = IF puller.msg = None THEN AdoptPin(db, puller.file) ELSE AddPin(db, puller.file)
    /\ puller' = NextFile
    /\ UNCHANGED <<log, kubo, adding, unpins, worker, recon>>

\* All files tried: the message is ingested with or without them, and skipped
\* when the transaction refuses it; a heal is over.
MirrorDone ==
    /\ puller.pc = "next"
    /\ Free("puller")
    /\ puller.todo = {}
    /\ IF puller.msg # None /\ puller.msg \notin Ids /\ Applies(db, puller.msg, FALSE)
       THEN Commit(puller.msg, FALSE, "puller")
       ELSE UNCHANGED <<log, db, unpins>>
    /\ puller' = Idle
    /\ UNCHANGED <<kubo, adding, worker, recon>>

-----------------------------------------------------------------------------
(* The card worker, the hourly sweep, the reconcile pass.                  *)

\* A job for a post that came in, first or redone: its link brought a picture
\* and kubo took it, or brought none.
Derive(post, c) ==
    /\ worker = NoJob
    /\ Free("worker")
    /\ post \in Ids /\ c \in Pictures[post]
    /\ worker' = [post |-> post, cid |-> c]
    /\ kubo' = kubo \cup ({c} \ {None})
    /\ UNCHANGED <<log, db, adding, unpins, puller, recon>>

Store ==
    /\ worker # NoJob
    /\ db' = SetCopy(db, worker.post, worker.cid)
    /\ Release("worker", Released(db, SetCopy(db, worker.post, worker.cid)))
    /\ worker' = NoJob
    /\ UNCHANGED <<log, kubo, adding, puller, recon>>

\* A day goes by for the row of c.
Age(c) ==
    /\ c \in db.rows \ db.aged
    /\ db' = [db EXCEPT !.aged = @ \cup {c}]
    /\ UNCHANGED <<log, kubo, adding, unpins, puller, worker, recon>>

Stale == {c \in db.aged : db.refs[c] = 0}

SweepStaged ==
    /\ Stale # {}
    /\ Free("sweep")
    /\ db' = DropRows(db, Stale)
    /\ Release("sweep", Stale)
    /\ UNCHANGED <<log, kubo, adding, puller, worker, recon>>

\* Unpin is best-effort: kubo may not answer, and is not asked again.
CallUnpin(u) ==
    /\ u \in unpins
    /\ unpins' = unpins \ {u}
    /\ kubo' \in {kubo, kubo \ {u.cid}}
    /\ UNCHANGED <<log, db, adding, puller, worker, recon>>

ReconcileStart ==
    /\ recon = Asleep
    /\ recon' = [pc |-> "read", want |-> db.rows]
    /\ UNCHANGED <<log, db, kubo, adding, unpins, puller, worker>>

\* For KuboFollows: the files kubo lists are the ones pinned again.
SlipReconcileAsk ==
    /\ recon.pc = "read"
    /\ recon' = [pc |-> "pin", want |-> recon.want \cap kubo]
    /\ UNCHANGED <<log, db, kubo, adding, unpins, puller, worker>>

\* kubo lists what it pins.
ReconcileAsk ==
    /\ recon.pc = "read"
    /\ recon' = [pc |-> "pin", want |-> recon.want \ kubo]
    /\ UNCHANGED <<log, db, kubo, adding, unpins, puller, worker>>

Repin(c) ==
    /\ recon.pc = "pin" /\ c \in recon.want
    /\ recon' = [recon EXCEPT !.want = @ \ {c}]
    /\ kubo' = kubo \cup {c}
    /\ UNCHANGED <<log, db, adding, unpins, puller, worker>>

\* kubo did not answer: for the list, and the pass is held again later; for
\* one file, and the others are still tried.
ReconcileFails ==
    /\ \/ recon.pc = "read" /\ recon' = Asleep
       \/ /\ recon.pc = "pin"
          /\ \E c \in recon.want : recon' = [recon EXCEPT !.want = recon.want \ {c}]
    /\ UNCHANGED <<log, db, kubo, adding, unpins, puller, worker>>

ReconcileEnd ==
    /\ recon.pc = "pin" /\ recon.want = {}
    /\ recon' = Asleep
    /\ UNCHANGED <<log, db, kubo, adding, unpins, puller, worker>>

-----------------------------------------------------------------------------
(* Rebuild and restart.                                                    *)

\* The log applied again, from its start.
Replay(d) ==
    LET replay[n \in 0 .. Len(log)] == IF n = 0 THEN d ELSE apply(replay[n - 1], log[n].id)
    IN  replay[Len(log)]

\* The derived tables are emptied, cards and pictures excepted, the counts
\* zeroed, the log replayed; then orphan copies go, uncounted, and the others
\* count again.  Nobody unpins what the replay released.
Rebuild ==
    LET empty == [db EXCEPT !.refs = [c \in Cids |-> 0], !.posts = {},
                            !.avatar = [a \in Authors |-> None]]
        done == Replay(empty)
        copies == [p \in Msgs |-> IF p \in done.posts THEN done.copy[p] ELSE None]
    IN  /\ db' = Bump([done EXCEPT !.copy = copies],
                      [c \in Cids |-> Cardinality({p \in Msgs : copies[p] = c})])
        /\ UNCHANGED <<log, kubo, adding, unpins, puller, worker, recon>>

\* The process stops and starts again: the tables and kubo stay.
Restart ==
    /\ <<adding, unpins, puller, worker, recon>> # <<{}, {}, Idle, NoJob, Asleep>>
    /\ adding' = {} /\ unpins' = {} /\ puller' = Idle /\ worker' = NoJob /\ recon' = Asleep
    /\ UNCHANGED <<log, db, kubo>>

Request == \/ \E f \in Uploads : Upload(f) \/ Record(f)
           \/ \E id \in Msgs : Ingest(id)

Mirror == \/ \E f \in puller.todo : MirrorCheck(f)
          \/ MirrorFails
          \/ \E c \in Cids : MirrorOther(c)
          \/ MirrorAdd
          \/ MirrorRecord
          \/ MirrorDone

Sweep == (\E c \in Cids : Age(c)) \/ SweepStaged

Reconcile == \/ ReconcileStart
             \/ ReconcileAsk
             \/ \E c \in Cids : Repin(c)
             \/ ReconcileFails
             \/ ReconcileEnd

Step == \/ Request
        \/ \E id \in Msgs : Handle(id)
        \/ Heal
        \/ Mirror
        \/ \E p \in Msgs, c \in Cids \cup {None} : Derive(p, c)
        \/ Store
        \/ Sweep
        \/ Reconcile
        \/ \E u \in unpins : CallUnpin(u)
        \/ Rebuild

Next == Step \/ Restart

Spec == Init /\ [][Next]_vars

\* The loops of the process run for as long as it does, each heal has its
\* turn, and kubo or a peer asked again and again answers some time.  Restarts
\* come to an end, but for those that leave what a step of the process leaves.
Fairness ==
    /\ WF_vars(Mirror) /\ SF_vars(Heal) /\ SF_vars(MirrorAdd /\ puller.msg = None)
    /\ \A c \in Cids : WF_vars(Age(c)) /\ SF_vars(Repin(c))
    /\ WF_vars(SweepStaged) /\ WF_vars(Reconcile) /\ SF_vars(ReconcileAsk)
    /\ \A who \in {"puller", "sweep"} :
          WF_vars(\E u \in unpins : u.by = who /\ CallUnpin(u))
    /\ <>[][Restart => Step]_vars

FairSpec == Spec /\ Fairness

-----------------------------------------------------------------------------
\* The types of the tables and of the goroutines' variables.
TypeOK ==
    /\ log \in Seq(Entry)
    /\ db \in Db
    /\ kubo \subseteq Cids
    /\ adding \subseteq Uploads
    /\ unpins \subseteq Unpin
    /\ puller \in Puller
    /\ worker \in Worker
    /\ recon \in Recon

\* A refcount never exceeds the references there are, whatever mixture of
\* uploads, mirrors, heals, cards and rebuilds made it: so the last delete
\* lets the file go, and nothing is kept for ever by a count that is too high.
RefsNeverOver == \A c \in Cids : db.refs[c] <= Count(db, c)

\* An upload that nothing names does not stay: its row goes, or something
\* comes to name it.
StagedSwept == \A c \in Cids :
    (c \in db.rows /\ Count(db, c) = 0) ~> (c \notin db.rows \/ Count(db, c) > 0)

\* What the pins table promises kubo ends up pinning, although an Unpin of a
\* row that was released may run after the file was uploaded again.
KuboFollows == \A c \in Cids : c \in db.rows ~> (c \in kubo \/ c \notin db.rows)

\* A picture that was not there when its message came is here in the end,
\* unless the message has gone.
Healed == \A c \in Cids : (\E f \in MissingMirrors : f.cid = c) ~> (\A f \in MissingMirrors : f.cid # c)

-----------------------------------------------------------------------------
\* PLAN.md: "Staged uploads (refcount 0) that no post references within 24h
\* are swept".  The sweep takes no file that something names.
SweepSparesNamed == [][SweepStaged => \A c \in Stale : Count(db, c) = 0]_vars

\* PLAN.md: after a rebuild "refcounts still land on live totals".  A file
\* whose count was right, and which something names, keeps its row and count.
RebuildKeepsCounts ==
    [][Rebuild => \A c \in db.rows :
          db.refs[c] = Count(db, c) /\ db.refs[c] > 0
          => c \in db'.rows /\ db'.refs[c] = db.refs[c]]_vars
=============================================================================
