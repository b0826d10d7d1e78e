------------------------ MODULE HubReplicationProofs ------------------------
(***************************************************************************)
(* The invariants of HubReplication hold for any number of hubs, authors   *)
(* and messages, any page limit and any offers; and every hub implements   *)
(* the abstract feed of HubFeed.                                           *)
(***************************************************************************)
EXTENDS HubReplication, SequenceTheorems, TLAPS

-----------------------------------------------------------------------------
(* The log under one step.                                                 *)

\* One message enters the log of h: what Ingest and HandleIngest have in
\* common, a committed transaction.
Accept(h, id, o) == Ingests(h, id, o) /\ apply(h, id) /\ Commit(h, id, o)

\* The append of a committed transaction, row by row.
LEMMA CommitAppends ==
  ASSUME TypeOK, NEW h \in Hubs, NEW id \in Msgs, NEW o \in Hubs \cup {Local},
         Commit(h, id, o)
  PROVE  /\ log' \in [Hubs -> Seq(Entry)]
         /\ \A g \in Hubs \ {h} : log'[g] = log[g]
         /\ Len(log'[h]) = Len(log[h]) + 1
         /\ \A i \in 1 .. Len(log[h]) : log'[h][i] = log[h][i]
         /\ log'[h][Len(log[h]) + 1] = [id |-> id, origin |-> o]
<1> DEFINE e == [id |-> id, origin |-> o]
<1>1. e \in Entry
  BY DEF Entry
<1>2. log[h] \in Seq(Entry)
  BY DEF TypeOK
<1>3. log' = [log EXCEPT ![h] = Append(@, e)]
  BY DEF Commit
<1>4. log'[h] = Append(log[h], e)
  BY <1>3 DEF TypeOK
<1>5. /\ Append(log[h], e) \in Seq(Entry)
      /\ Len(Append(log[h], e)) = Len(log[h]) + 1
      /\ \A i \in 1 .. Len(log[h]) : Append(log[h], e)[i] = log[h][i]
      /\ Append(log[h], e)[Len(log[h]) + 1] = e
  BY <1>1, <1>2, AppendProperties
<1>6. \A g \in Hubs \ {h} : log'[g] = log[g]
  BY <1>3 DEF TypeOK
<1>7. log' \in [Hubs -> Seq(Entry)]
  BY <1>3, <1>4, <1>5 DEF TypeOK
<1> QED
  BY <1>4, <1>5, <1>6, <1>7

\* The rows and the ids of every hub after a committed transaction.
LEMMA CommitRows ==
  ASSUME TypeOK, NEW h \in Hubs, NEW id \in Msgs, NEW o \in Hubs \cup {Local},
         Commit(h, id, o)
  PROVE  /\ Len(log[h]) \in Nat
         /\ Rows(h)' = Rows(h) \cup {Len(log[h]) + 1}
         /\ Ids(h)' = Ids(h) \cup {id}
         /\ \A g \in Hubs \ {h} : Rows(g)' = Rows(g) /\ Ids(g)' = Ids(g)
<1>1. /\ \A g \in Hubs \ {h} : log'[g] = log[g]
      /\ Len(log'[h]) = Len(log[h]) + 1
      /\ \A i \in 1 .. Len(log[h]) : log'[h][i] = log[h][i]
      /\ log'[h][Len(log[h]) + 1] = [id |-> id, origin |-> o]
  BY CommitAppends
<1>2. Len(log[h]) \in Nat
  BY LenProperties DEF TypeOK
<1>3. Rows(h)' = Rows(h) \cup {Len(log[h]) + 1}
  BY <1>1, <1>2 DEF Rows
<1>4. Ids(h)' = {log'[h][i].id : i \in Rows(h) \cup {Len(log[h]) + 1}}
  BY <1>3 DEF Ids
<1>5. Ids(h)' = {log'[h][i].id : i \in Rows(h)} \cup {id}
  BY <1>1, <1>4
<1>6. {log'[h][i].id : i \in Rows(h)} = Ids(h)
  BY <1>1 DEF Ids, Rows
<1>7. \A g \in Hubs \ {h} : Rows(g)' = Rows(g) /\ Ids(g)' = Ids(g)
  BY <1>1 DEF Rows, Ids
<1> QED
  BY <1>2, <1>3, <1>5, <1>6, <1>7

\* Rows stay, and with them what a hub has and whom it has ever banned.
LogGrows ==
    \A g \in Hubs :
        /\ Rows(g) \subseteq Rows(g)'
        /\ \A i \in Rows(g) : log'[g][i] = log[g][i]
        /\ Ids(g) \subseteq Ids(g)'

\* A commit keeps every row that was there.
LEMMA CommitGrows ==
  ASSUME TypeOK, NEW h \in Hubs, NEW id \in Msgs, NEW o \in Hubs \cup {Local},
         Commit(h, id, o)
  PROVE  LogGrows
<1>1. \A g \in Hubs \ {h} : log'[g] = log[g]
  BY CommitAppends
<1>2. \A i \in Rows(h) : log'[h][i] = log[h][i]
  BY CommitAppends DEF Rows
<1> QED
  BY <1>1, <1>2, CommitRows DEF LogGrows

\* So does a step that leaves the logs alone.
LEMMA SameLogGrows == UNCHANGED log => LogGrows
BY DEF LogGrows, Rows, Ids

\* Who was banned once stays so: the log keeps the ban.
LEMMA EverBannedStays ==
  ASSUME LogGrows, NEW h \in Hubs, NEW a \in Authors, EverBanned(h, a)
  PROVE  EverBanned(h, a)'
BY DEF LogGrows, EverBanned

\* A row that h has settled stays settled.
LEMMA SettledStays ==
  ASSUME TypeOK, LogGrows, NEW h \in Hubs, NEW p \in Hubs, NEW i \in Nat, Settled(h, p, i)
  PROVE  Settled(h, p, i)'
<1>1. i \in Rows(p) /\ i \in Rows(p)' /\ log'[p][i] = log[p][i]
  BY DEF LogGrows, Settled
<1>2. Ids(h) \subseteq Ids(h)'
  BY DEF LogGrows
<1>3. log[p][i] \in Entry
  BY <1>1, ElementOfSeq DEF TypeOK, Rows
<1>4. Env[log[p][i].id].author \in Authors
  BY <1>3, EnvAssumption DEF Entry, Envelope
<1>5. EverBanned(h, Env[log[p][i].id].author) => EverBanned(h, Env[log[p][i].id].author)'
  BY <1>4, <1>1, EverBannedStays
<1> QED
  BY <1>1, <1>2, <1>5 DEF Settled, LocalRow

-----------------------------------------------------------------------------
(* The invariants of the log under Accept.                                 *)

\* Where an accepted message comes from: a client, or a row of the hub it is
\* recorded as pulled from, written there and replicable.
FromOrigin(id, o) ==
    o # Local => /\ IsContent(id)
                 /\ \E j \in Rows(o) : log[o][j] = [id |-> id, origin |-> Local]

\* The types of a row of a log and of the envelope it names.
LEMMA EntryTypes ==
  ASSUME TypeOK, NEW h \in Hubs, NEW i \in Rows(h)
  PROVE  /\ i \in Nat
         /\ log[h][i] \in Entry
         /\ log[h][i].id \in Msgs
         /\ log[h][i].origin \in Hubs \cup {Local}
         /\ Env[log[h][i].id] \in Envelope
         /\ Env[log[h][i].id].author \in Authors
         /\ Env[log[h][i].id].seq \in Nat
         /\ log[h][i].id \in Ids(h)
<1>1. log[h][i] \in Entry
  BY ElementOfSeq DEF TypeOK, Rows
<1>2. log[h][i].id \in Msgs /\ log[h][i].origin \in Hubs \cup {Local}
  BY <1>1 DEF Entry
<1>3. Env[log[h][i].id] \in Envelope
  BY <1>2, EnvAssumption
<1>4. i \in Nat /\ log[h][i].id \in Ids(h)
  BY DEF Rows, Ids
<1> QED
  BY <1>1, <1>2, <1>3, <1>4 DEF Envelope

\* The types of an envelope's fields.
LEMMA MsgTypes ==
  ASSUME NEW id \in Msgs
  PROVE  /\ Env[id] \in Envelope
         /\ Env[id].author \in Authors
         /\ Env[id].seq \in Nat
         /\ Env[id].ts \in Nat
         /\ Env[id].post \in Msgs
         /\ Env[id].who \in Authors
         /\ Env[id].hub \in Hubs
         /\ Env[id].on \in BOOLEAN
         /\ id \in Nat
BY EnvAssumption, MsgsAssumption DEF Envelope

\* What is in Ids is in a row, and the other way round.
LEMMA IdsRows ==
  ASSUME TypeOK, NEW h \in Hubs
  PROVE  /\ Ids(h) \subseteq Msgs
         /\ \A m : m \in Ids(h) <=> \E i \in Rows(h) : log[h][i].id = m
BY EntryTypes DEF Ids

\* Every row after a committed transaction is an old one or the new last one.
LEMMA NewRow ==
  ASSUME TypeOK, NEW h \in Hubs, NEW id \in Msgs, NEW o \in Hubs \cup {Local},
         Commit(h, id, o), NEW g \in Hubs, NEW i \in Rows(g)'
  PROVE  /\ i \in Nat
         /\ \/ i \in Rows(g) /\ log'[g][i] = log[g][i]
            \/ /\ g = h
               /\ i \notin Rows(g)
               /\ i = Len(log[h]) + 1
               /\ \A k \in Rows(g) : k < i
               /\ log'[g][i].id = id
               /\ log'[g][i].origin = o
<1>1. i \in Nat
  BY DEF Rows
<1>2. CASE g # h
  BY <1>1, <1>2, CommitAppends, CommitRows
<1>3. CASE g = h
  <2>1. /\ Len(log[h]) \in Nat
        /\ Rows(h)' = Rows(h) \cup {Len(log[h]) + 1}
        /\ Rows(h) = 1 .. Len(log[h])
    BY CommitRows DEF Rows
  <2>2. /\ \A k \in 1 .. Len(log[h]) : log'[h][k] = log[h][k]
        /\ log'[h][Len(log[h]) + 1] = [id |-> id, origin |-> o]
    BY CommitAppends
  <2>3. i \in Rows(h)'
    BY <1>3
  <2>4. CASE i \in 1 .. Len(log[h])
    BY <1>1, <1>3, <2>1, <2>2, <2>4
  <2>5. CASE i = Len(log[h]) + 1
    <3>1. log'[g][i].id = id /\ log'[g][i].origin = o
      BY <1>3, <2>2, <2>5
    <3>2. i \notin Rows(g) /\ \A k \in Rows(g) : k < i
      BY <1>3, <2>1, <2>5
    <3> QED
      BY <1>1, <1>3, <2>5, <3>1, <3>2
  <2> QED
    BY <2>1, <2>3, <2>4, <2>5
<1> QED
  BY <1>2, <1>3

\* Ingest refuses an id it has: the duplicate check of store.ingest.
LEMMA AcceptLogUnique ==
  ASSUME TypeOK, LogUnique, NEW h \in Hubs, NEW id \in Msgs,
         NEW o \in Hubs \cup {Local}, Accept(h, id, o)
  PROVE  LogUnique'
<1>1. Commit(h, id, o) /\ id \notin Ids(h)
  BY DEF Accept, Ingests
<1> SUFFICES ASSUME NEW g \in Hubs, NEW i \in Rows(g)', NEW j \in Rows(g)',
                    log'[g][i].id = log'[g][j].id
             PROVE  i = j
  BY DEF LogUnique
<1>2. \A k \in Rows(h) : log[h][k].id # id
  BY <1>1, EntryTypes
<1>3. /\ \/ i \in Rows(g) /\ log'[g][i] = log[g][i]
         \/ g = h /\ i = Len(log[h]) + 1 /\ log'[g][i].id = id
      /\ \/ j \in Rows(g) /\ log'[g][j] = log[g][j]
         \/ g = h /\ j = Len(log[h]) + 1 /\ log'[g][j].id = id
  BY <1>1, NewRow
<1> QED
  BY <1>2, <1>3 DEF LogUnique

\* The high-water mark stays above every seq in the log: the MAX of ingest.
LEMMA AcceptSeqs ==
  ASSUME TypeOK, SeqsCoverLog, NEW h \in Hubs, NEW id \in Msgs,
         NEW o \in Hubs \cup {Local}, Accept(h, id, o)
  PROVE  SeqsCoverLog'
<1> DEFINE a == Env[id].author
           top == IF Env[id].seq > seqs[h][a] THEN Env[id].seq ELSE seqs[h][a]
<1>0. Commit(h, id, o)
  BY DEF Accept
<1>1. a \in Authors /\ Env[id].seq \in Nat /\ seqs[h][a] \in Nat
  BY MsgTypes DEF TypeOK
<1>2. seqs' = [seqs EXCEPT ![h] = [seqs[h] EXCEPT ![a] = top]]
  BY <1>0 DEF Commit
<1>3. top \in Nat /\ top >= seqs[h][a] /\ top >= Env[id].seq
  BY <1>1
<1> HIDE DEF top
<1>4. seqs'[h] = [seqs[h] EXCEPT ![a] = top]
  BY <1>2 DEF TypeOK
<1>5. \A g \in Hubs : seqs[g] \in [Authors -> Nat]
  BY DEF TypeOK
<1>6. seqs'[h][a] = top /\ \A c \in Authors : seqs'[h][c] >= seqs[h][c]
  BY <1>1, <1>3, <1>4, <1>5
<1>7. \A g \in Hubs \ {h} : seqs'[g] = seqs[g]
  BY <1>2 DEF TypeOK
<1> SUFFICES ASSUME NEW g \in Hubs, NEW i \in Rows(g)'
             PROVE  Env[log'[g][i].id].seq <= seqs'[g][Env[log'[g][i].id].author]
  BY DEF SeqsCoverLog
<1>8. CASE i \in Rows(g) /\ log'[g][i] = log[g][i]
  <2> DEFINE c == Env[log[g][i].id].author
  <2>1. c \in Authors /\ Env[log[g][i].id].seq \in Nat
    BY <1>8, EntryTypes
  <2>2. Env[log[g][i].id].seq <= seqs[g][c]
    BY <1>8 DEF SeqsCoverLog
  <2>3. seqs[g][c] \in Nat /\ seqs'[g][c] >= seqs[g][c] /\ seqs'[g][c] \in Nat
    <3>1. CASE g = h
      BY <3>1, <2>1, <1>1, <1>3, <1>4, <1>5, <1>6
    <3>2. CASE g # h
      <4>1. seqs'[g] = seqs[g]
        BY <3>2, <1>7
      <4>2. seqs[g][c] \in Nat
        BY <2>1, <1>5
      <4> HIDE DEF c
      <4> QED
        BY <4>1, <4>2
    <3> QED
      BY <3>1, <3>2
  <2> QED
    BY <1>8, <2>1, <2>2, <2>3
<1>9. CASE g = h /\ log'[g][i].id = id
  BY <1>9, <1>3, <1>6
<1> QED
  BY <1>0, <1>8, <1>9, NewRow

\* A direct message has a seq above all others of its author.
LEMMA AcceptLocalSeq ==
  ASSUME TypeOK, SeqsCoverLog, LocalSeqIncreasing, NEW h \in Hubs, NEW id \in Msgs,
         NEW o \in Hubs \cup {Local}, Accept(h, id, o)
  PROVE  LocalSeqIncreasing'
<1>0. Commit(h, id, o)
  BY DEF Accept
<1>1. o = Local => Env[id].seq > seqs[h][Env[id].author]
  BY DEF Accept, Ingests
<1>2. Env[id].seq \in Nat /\ seqs[h][Env[id].author] \in Nat
  BY MsgTypes DEF TypeOK
<1> SUFFICES ASSUME NEW g \in Hubs, NEW i \in Rows(g)', NEW j \in Rows(g)', i < j,
                    log'[g][i].origin = Local, log'[g][j].origin = Local,
                    Env[log'[g][i].id].author = Env[log'[g][j].id].author
             PROVE  Env[log'[g][i].id].seq < Env[log'[g][j].id].seq
  BY DEF LocalSeqIncreasing, LocalRow
<1>3. /\ i \in Nat /\ j \in Nat
      /\ \/ i \in Rows(g) /\ log'[g][i] = log[g][i]
         \/ g = h /\ i = Len(log[h]) + 1 /\ \A k \in Rows(g) : k < i
      /\ \/ j \in Rows(g) /\ log'[g][j] = log[g][j]
         \/ /\ g = h /\ j = Len(log[h]) + 1
            /\ log'[g][j].id = id /\ log'[g][j].origin = o
  BY <1>0, NewRow
<1>4. i \in Rows(g) /\ log'[g][i] = log[g][i]
  BY <1>3
<1>5. CASE j \in Rows(g) /\ log'[g][j] = log[g][j]
  BY <1>4, <1>5 DEF LocalSeqIncreasing, LocalRow
<1>6. CASE g = h /\ log'[g][j].id = id /\ log'[g][j].origin = o
  <2>1. Env[log[h][i].id].seq <= seqs[h][Env[log[h][i].id].author]
    BY <1>4, <1>6 DEF SeqsCoverLog
  <2>2. Env[log[h][i].id].author = Env[id].author /\ o = Local
    BY <1>4, <1>6
  <2>3. Env[log[h][i].id].seq \in Nat
    BY <1>4, <1>6, EntryTypes
  <2> QED
    BY <1>1, <1>2, <1>4, <1>6, <2>1, <2>2, <2>3
<1> QED
  BY <1>3, <1>5, <1>6

\* What is accepted is local, or content that its origin has as local.
LEMMA AcceptOneHop ==
  ASSUME TypeOK, OneHop, NEW h \in Hubs, NEW id \in Msgs,
         NEW o \in Hubs \cup {Local}, Accept(h, id, o), FromOrigin(id, o)
  PROVE  OneHop'
<1>0. Commit(h, id, o) /\ LogGrows
  BY CommitGrows DEF Accept
<1> SUFFICES ASSUME NEW g \in Hubs, NEW p \in Hubs, NEW i \in Rows(g)',
                    log'[g][i].origin = p
             PROVE  /\ IsContent(log'[g][i].id)
                    /\ \E j \in Rows(p)' :
                          log'[p][j] = [id |-> log'[g][i].id, origin |-> Local]
  BY DEF OneHop
<1>1. \A j \in Rows(p) : j \in Rows(p)' /\ log'[p][j] = log[p][j]
  BY <1>0 DEF LogGrows
<1>2. CASE i \in Rows(g) /\ log'[g][i] = log[g][i]
  BY <1>1, <1>2 DEF OneHop
<1>3. CASE log'[g][i].id = id /\ log'[g][i].origin = o
  <2>1. o = p /\ o # Local
    BY <1>3, LocalAssumption
  <2> QED
    BY <1>1, <1>3, <2>1 DEF FromOrigin
<1> QED
  BY <1>0, <1>2, <1>3, NewRow

\* The unique index on (author, seq, origin) refuses what would break it.
LEMMA AcceptIndexUnique ==
  ASSUME TypeOK, IndexUnique, NEW h \in Hubs, NEW id \in Msgs,
         NEW o \in Hubs \cup {Local}, Accept(h, id, o)
  PROVE  IndexUnique'
<1>0. Commit(h, id, o) /\ IndexFree(h, id, o)
  BY DEF Accept, Ingests
<1> SUFFICES ASSUME NEW g \in Hubs, NEW i \in Rows(g)', NEW j \in Rows(g)',
                    log'[g][i].origin = log'[g][j].origin,
                    Env[log'[g][i].id].author = Env[log'[g][j].id].author,
                    Env[log'[g][i].id].seq = Env[log'[g][j].id].seq
             PROVE  i = j
  BY DEF IndexUnique
<1>1. /\ \/ i \in Rows(g) /\ log'[g][i] = log[g][i]
         \/ /\ g = h /\ i = Len(log[h]) + 1
            /\ log'[g][i].id = id /\ log'[g][i].origin = o
      /\ \/ j \in Rows(g) /\ log'[g][j] = log[g][j]
         \/ /\ g = h /\ j = Len(log[h]) + 1
            /\ log'[g][j].id = id /\ log'[g][j].origin = o
  BY <1>0, NewRow
<1> QED
  BY <1>0, <1>1 DEF IndexUnique, IndexFree

\* A key enters bans with the ban.set that stands in the log.
LEMMA AcceptBans ==
  ASSUME TypeOK, BansInLog, NEW h \in Hubs, NEW id \in Msgs,
         NEW o \in Hubs \cup {Local}, Accept(h, id, o)
  PROVE  BansInLog'
<1>0. Commit(h, id, o) /\ ApplyBans(h, id) /\ LogGrows
  BY CommitGrows DEF Accept, apply
<1> SUFFICES ASSUME NEW g \in Hubs, NEW a \in bans'[g]
             PROVE  EverBanned(g, a)'
  BY DEF BansInLog
<1>1. CASE a \in bans[g]
  <2>1. a \in Authors /\ EverBanned(g, a)
    BY <1>1 DEF BansInLog, TypeOK
  <2> QED
    BY <1>0, <2>1, EverBannedStays
<1>2. CASE a \notin bans[g]
  <2>1. g = h /\ Env[id].type = "ban.set" /\ Env[id].who = a
    BY <1>0, <1>2 DEF ApplyBans, TypeOK
  <2>2. Rows(h)' = Rows(h) \cup {Len(log[h]) + 1}
    BY <1>0, CommitRows
  <2>3. log'[h][Len(log[h]) + 1] = [id |-> id, origin |-> o]
    BY <1>0, CommitAppends
  <2>4. log'[h][Len(log[h]) + 1].id = id
    BY <2>3
  <2> QED
    BY <2>1, <2>2, <2>4 DEF EverBanned
<1> QED
  BY <1>1, <1>2
-----------------------------------------------------------------------------
(* What one more message does to the meaning of a set of them.             *)

\* A post that is new, and that nothing deletes, joins the posts that stand.
LEMMA LiveOfCreate ==
  ASSUME NEW S, NEW id \in Msgs, id \notin S, Closed(S), IsCreate(id)
  PROVE  LiveOf(S \cup {id}) = LiveOf(S) \cup {id}
<1>1. \A d \in S \cup {id} : ~Deletes(d, id)
  BY DEF Closed, Deletes, IsCreate
<1>2. \A m : ~Deletes(id, m)
  BY DEF Deletes, IsCreate
<1> QED
  BY <1>1, <1>2 DEF LiveOf

\* A delete takes its post away and no other.
LEMMA LiveOfDelete ==
  ASSUME NEW S, NEW id \in Msgs, Env[id].type = "post.delete"
  PROVE  LiveOf(S \cup {id}) = LiveOf(S) \ {Env[id].post}
<1>1. ~IsCreate(id)
  BY DEF IsCreate
<1>2. \A m : Deletes(id, m) <=> m = Env[id].post
  BY DEF Deletes
<1> QED
  BY <1>1, <1>2 DEF LiveOf

\* Other messages leave the posts that stand alone.
LEMMA LiveOfOther ==
  ASSUME NEW S, NEW id \in Msgs, Env[id].type \notin {"post.create", "post.delete"}
  PROVE  LiveOf(S \cup {id}) = LiveOf(S)
<1>1. ~IsCreate(id) /\ \A m : ~Deletes(id, m)
  BY DEF IsCreate, Deletes
<1> QED
  BY <1>1 DEF LiveOf

\* Two marks of one box are ordered, whatever order they arrive in.
LEMMA NewerOrder ==
  /\ \A m, n \in Msgs : m = n \/ Newer(m, n) \/ Newer(n, m)
  /\ \A m, n \in Msgs : ~(Newer(m, n) /\ Newer(n, m))
  /\ \A m, n, k \in Msgs : Newer(m, n) /\ Newer(n, k) => Newer(m, k)
<1>1. \A m \in Msgs : m \in Nat /\ Env[m].ts \in Nat
  BY MsgTypes
<1> QED
  BY <1>1 DEF Newer

\* A message that is no mark and no delete moves no box: the marks here are
\* all of posts that are here.
LEMMA HeldOfOther ==
  ASSUME NEW S, NEW id \in Msgs, id \notin S, Closed(S),
         Env[id].type \notin {"post.delete", "post.mark"}
  PROVE  HeldOf(S \cup {id}) = HeldOf(S)
<1>1. ~IsMark(id)
  BY DEF IsMark
<1>2. \A m \in S : IsMark(m) => Env[m].post # id
  BY DEF Closed, IsMark
<1>3. LiveOf(S \cup {id}) \in {LiveOf(S), LiveOf(S) \cup {id}}
  BY LiveOfCreate, LiveOfOther DEF IsCreate
<1> QED
  BY <1>1, <1>2, <1>3 DEF HeldOf

\* A delete takes the marks of its post, and no others.
LEMMA HeldOfDelete ==
  ASSUME NEW S, NEW id \in Msgs, Env[id].type = "post.delete"
  PROVE  HeldOf(S \cup {id}) = {m \in HeldOf(S) : Env[m].post # Env[id].post}
<1>1. ~IsMark(id)
  BY DEF IsMark
<1>2. LiveOf(S \cup {id}) = LiveOf(S) \ {Env[id].post}
  BY LiveOfDelete
<1> QED
  BY <1>1, <1>2 DEF HeldOf

\* A mark that loses to the one that holds its box changes nothing.
LEMMA HeldOfLosingMark ==
  ASSUME NEW S, S \subseteq Msgs, NEW id \in Msgs, id \notin S, IsMark(id),
         NEW m \in HeldOf(S), SameBox(m, id), ~Newer(id, m)
  PROVE  HeldOf(S \cup {id}) = HeldOf(S)
<1>1. LiveOf(S \cup {id}) = LiveOf(S)
  BY LiveOfOther DEF IsMark
<1>2. m \in S /\ IsMark(m) /\ m # id
  BY DEF HeldOf
<1>3. Newer(m, id)
  BY <1>2, NewerOrder
<1>4. id \notin HeldOf(S \cup {id})
  BY <1>2, <1>3 DEF HeldOf
<1>5. \A k \in HeldOf(S) : SameBox(id, k) => k = m
  <2> SUFFICES ASSUME NEW k \in HeldOf(S), SameBox(id, k) PROVE k = m
    OBVIOUS
  <2>1. SameBox(k, m) /\ SameBox(m, k) /\ k \in S /\ IsMark(k)
    BY DEF SameBox, HeldOf
  <2>2. ~Newer(k, m) /\ ~Newer(m, k)
    BY <1>2, <2>1 DEF HeldOf
  <2> QED
    BY <1>2, <2>1, <2>2, NewerOrder
<1>6. \A k \in HeldOf(S) : SameBox(id, k) => ~Newer(id, k)
  BY <1>5
<1>7. HeldOf(S) \subseteq HeldOf(S \cup {id})
  BY <1>1, <1>6 DEF HeldOf
<1>8. HeldOf(S \cup {id}) \subseteq HeldOf(S)
  BY <1>1, <1>4 DEF HeldOf
<1> QED
  BY <1>7, <1>8

\* A mark that beats the one that holds its box takes the box.
LEMMA HeldOfWinningMark ==
  ASSUME NEW S, S \subseteq Msgs, NEW id \in Msgs, id \notin S, IsMark(id), Outdone(S),
         Env[id].post \in LiveOf(S),
         \A m \in HeldOf(S) : SameBox(m, id) => Newer(id, m)
  PROVE  HeldOf(S \cup {id}) = {m \in HeldOf(S) : ~SameBox(m, id)} \cup {id}
<1>1. LiveOf(S \cup {id}) = LiveOf(S)
  BY LiveOfOther DEF IsMark
<1>2. ~Newer(id, id)
  BY NewerOrder
<1>3. \A n \in S : IsMark(n) /\ SameBox(n, id) => ~Newer(n, id)
  <2> SUFFICES ASSUME NEW n \in S, IsMark(n), SameBox(n, id) PROVE ~Newer(n, id)
    OBVIOUS
  <2>1. Env[n].post \in LiveOf(S)
    BY DEF SameBox
  <2>2. PICK m \in HeldOf(S) : SameBox(m, n) /\ (m = n \/ Newer(m, n))
    BY <2>1 DEF Outdone
  <2>3. m \in Msgs /\ n \in Msgs /\ Newer(id, m)
    BY <2>2 DEF SameBox, HeldOf
  <2>4. Newer(id, n)
    BY <2>2, <2>3, NewerOrder
  <2> QED
    BY <2>3, <2>4, NewerOrder
<1>4. id \in HeldOf(S \cup {id})
  BY <1>1, <1>2, <1>3 DEF HeldOf
<1>5. \A k \in S : k \in HeldOf(S \cup {id}) => k \in HeldOf(S) /\ ~SameBox(k, id)
  <2> SUFFICES ASSUME NEW k \in S, k \in HeldOf(S \cup {id})
               PROVE  k \in HeldOf(S) /\ ~SameBox(k, id)
    OBVIOUS
  <2>1. k \in HeldOf(S)
    BY <1>1 DEF HeldOf
  <2>2. SameBox(k, id) => ~Newer(id, k)
    BY DEF HeldOf, SameBox
  <2> QED
    BY <2>1, <2>2
<1>6. \A k \in HeldOf(S) : ~SameBox(k, id) => k \in HeldOf(S \cup {id})
  <2>1. \A k \in S : ~SameBox(k, id) => ~SameBox(id, k)
    BY DEF SameBox
  <2> QED
    BY <1>1, <2>1 DEF HeldOf
<1>7. HeldOf(S \cup {id}) \subseteq S \cup {id}
  BY DEF HeldOf
<1> QED
  BY <1>4, <1>5, <1>6, <1>7

\* A message that is neither mark nor delete keeps marks outdone.
LEMMA OutdoneOther ==
  ASSUME NEW S, NEW id \in Msgs, id \notin S, Closed(S), Outdone(S),
         Env[id].type \notin {"post.delete", "post.mark"}
  PROVE  Outdone(S \cup {id})
<1>1. HeldOf(S \cup {id}) = HeldOf(S)
  BY HeldOfOther
<1>2. LiveOf(S \cup {id}) \subseteq LiveOf(S) \cup {id}
  BY LiveOfCreate, LiveOfOther DEF IsCreate
<1>3. \A n \in S : IsMark(n) => Env[n].post # id
  BY DEF Closed, IsMark
<1>4. ~IsMark(id)
  BY DEF IsMark
<1> QED
  BY <1>1, <1>2, <1>3, <1>4 DEF Outdone

\* So does a delete.
LEMMA OutdoneDelete ==
  ASSUME NEW S, NEW id \in Msgs, Outdone(S), Env[id].type = "post.delete"
  PROVE  Outdone(S \cup {id})
<1>1. HeldOf(S \cup {id}) = {m \in HeldOf(S) : Env[m].post # Env[id].post}
  BY HeldOfDelete
<1>2. LiveOf(S \cup {id}) = LiveOf(S) \ {Env[id].post}
  BY LiveOfDelete
<1> SUFFICES ASSUME NEW n \in S \cup {id}, IsMark(n), Env[n].post \in LiveOf(S \cup {id})
             PROVE  \E m \in HeldOf(S \cup {id}) : SameBox(m, n) /\ (m = n \/ Newer(m, n))
  BY DEF Outdone
<1>3. n \in S
  BY DEF IsMark
<1>4. PICK m \in HeldOf(S) : SameBox(m, n) /\ (m = n \/ Newer(m, n))
  BY <1>2, <1>3 DEF Outdone
<1>5. Env[m].post # Env[id].post
  BY <1>2, <1>4 DEF SameBox
<1> QED
  BY <1>1, <1>4, <1>5

\* So does a mark, which holds its box or is outdone by the one that does.
LEMMA OutdoneMark ==
  ASSUME NEW S, S \subseteq Msgs, NEW id \in Msgs, id \notin S, Outdone(S), IsMark(id),
         Env[id].post \in LiveOf(S)
  PROVE  Outdone(S \cup {id})
<1>1. LiveOf(S \cup {id}) = LiveOf(S)
  BY LiveOfOther DEF IsMark
<1>2. \A m \in HeldOf(S) : m \in S /\ m # id
  BY DEF HeldOf
<1>3. CASE \E m \in HeldOf(S) : SameBox(m, id) /\ ~Newer(id, m)
  <2>1. PICK m \in HeldOf(S) : SameBox(m, id) /\ ~Newer(id, m)
    BY <1>3
  <2>2. HeldOf(S \cup {id}) = HeldOf(S)
    BY <2>1, HeldOfLosingMark
  <2>3. Newer(m, id)
    BY <1>2, <2>1, NewerOrder
  <2> QED
    BY <1>1, <2>1, <2>2, <2>3 DEF Outdone
<1>4. CASE \A m \in HeldOf(S) : SameBox(m, id) => Newer(id, m)
  <2>1. HeldOf(S \cup {id}) = {m \in HeldOf(S) : ~SameBox(m, id)} \cup {id}
    BY <1>4, HeldOfWinningMark
  <2> SUFFICES ASSUME NEW n \in S \cup {id}, IsMark(n), Env[n].post \in LiveOf(S)
               PROVE  \E m \in HeldOf(S \cup {id}) : SameBox(m, n) /\ (m = n \/ Newer(m, n))
    BY <1>1 DEF Outdone
  <2>2. CASE n = id
    BY <2>1, <2>2 DEF SameBox
  <2>3. CASE n \in S
    <3>1. PICK m \in HeldOf(S) : SameBox(m, n) /\ (m = n \/ Newer(m, n))
      BY <2>3 DEF Outdone
    <3>2. CASE SameBox(m, id)
      <4>1. Newer(id, m) /\ SameBox(id, n)
        BY <1>4, <3>1, <3>2 DEF SameBox
      <4>2. m \in Msgs /\ n \in Msgs
        BY <1>2, <2>3
      <4>3. Newer(id, n)
        BY <3>1, <4>1, <4>2, NewerOrder
      <4> QED
        BY <2>1, <4>1, <4>3
    <3>3. CASE ~SameBox(m, id)
      BY <2>1, <3>1, <3>3
    <3> QED
      BY <3>2, <3>3
  <2> QED
    BY <2>2, <2>3
<1> QED
  BY <1>3, <1>4

-----------------------------------------------------------------------------
(* The derived tables under Accept: they stay the meaning of the log.      *)

\* What apply's checks and the log say of an accepted message.
LEMMA AcceptTarget ==
  ASSUME TypeOK, PostsMatchLog, NEW h \in Hubs, NEW id \in Msgs,
         NEW o \in Hubs \cup {Local}, Accept(h, id, o)
  PROVE  /\ id \notin Ids(h)
         /\ Ids(h) \subseteq Msgs
         /\ Ids(h)' = Ids(h) \cup {id}
         /\ \A g \in Hubs \ {h} : Ids(g)' = Ids(g)
         /\ Env[id].type \in {"post.delete", "post.mark"} =>
               Env[id].post \in LiveOf(Ids(h)) /\ Env[id].post \in Ids(h)
<1>1. Commit(h, id, o) /\ id \notin Ids(h) /\ Applies(h, id)
  BY DEF Accept, Ingests
<1>2. Env[id].type \in {"post.delete", "post.mark"} => Env[id].post \in LiveOf(Ids(h))
  BY <1>1 DEF Applies, PostsMatchLog
<1>3. LiveOf(Ids(h)) \subseteq Ids(h)
  BY DEF LiveOf
<1> QED
  BY <1>1, <1>2, <1>3, CommitRows, IdsRows

\* An accepted message keeps each log closed under targets.
LEMMA AcceptTargets ==
  ASSUME TypeOK, PostsMatchLog, TargetsInLog, NEW h \in Hubs, NEW id \in Msgs,
         NEW o \in Hubs \cup {Local}, Accept(h, id, o)
  PROVE  TargetsInLog'
<1>1. Closed(Ids(h) \cup {id})
  BY AcceptTarget DEF TargetsInLog, Closed
<1> SUFFICES ASSUME NEW g \in Hubs PROVE Closed(Ids(g)')
  BY DEF TargetsInLog
<1> QED
  BY <1>1, AcceptTarget DEF TargetsInLog

\* apply on the posts table follows the meaning of the log.
LEMMA AcceptPosts ==
  ASSUME TypeOK, PostsMatchLog, TargetsInLog, NEW h \in Hubs, NEW id \in Msgs,
         NEW o \in Hubs \cup {Local}, Accept(h, id, o)
  PROVE  PostsMatchLog'
<1> DEFINE S == Ids(h)
<1>1. posts[h] = LiveOf(S) /\ Closed(S)
  BY DEF PostsMatchLog, TargetsInLog
<1>2. ApplyPosts(h, id)
  BY DEF Accept, apply
<1>3. posts'[h] = LiveOf(S \cup {id})
  <2>1. CASE Env[id].type = "post.create"
    BY <1>1, <1>2, <2>1, AcceptTarget, LiveOfCreate DEF ApplyPosts, TypeOK, IsCreate
  <2>2. CASE Env[id].type = "post.delete"
    BY <1>1, <1>2, <2>2, LiveOfDelete DEF ApplyPosts, TypeOK
  <2>3. CASE Env[id].type \notin {"post.create", "post.delete"}
    BY <1>1, <1>2, <2>3, LiveOfOther DEF ApplyPosts, TypeOK
  <2> QED
    BY <2>1, <2>2, <2>3
<1>4. \A g \in Hubs \ {h} : posts'[g] = posts[g]
  BY <1>2 DEF ApplyPosts, TypeOK
<1> SUFFICES ASSUME NEW g \in Hubs PROVE posts'[g] = LiveOf(Ids(g)')
  BY DEF PostsMatchLog
<1> QED
  BY <1>3, <1>4, AcceptTarget DEF PostsMatchLog

\* apply on the marks table follows the meaning of the log.
LEMMA AcceptMarks ==
  ASSUME TypeOK, PostsMatchLog, TargetsInLog, MarksMatchLog, MarksOutdone,
         NEW h \in Hubs, NEW id \in Msgs, NEW o \in Hubs \cup {Local}, Accept(h, id, o)
  PROVE  MarksMatchLog' /\ MarksOutdone'
<1> DEFINE S == Ids(h)
<1>1. marks[h] = HeldOf(S) /\ Closed(S) /\ Outdone(S)
  BY DEF MarksMatchLog, TargetsInLog, MarksOutdone
<1>2. ApplyMarks(h, id)
  BY DEF Accept, apply
<1>3. id \notin S /\ S \subseteq Msgs
  BY AcceptTarget
<1>4. marks'[h] = HeldOf(S \cup {id}) /\ Outdone(S \cup {id})
  <2>1. CASE Env[id].type = "post.mark"
    <3>1. IsMark(id) /\ Env[id].post \in LiveOf(S)
      BY <2>1, AcceptTarget DEF IsMark
    <3>2. Outdone(S \cup {id})
      BY <1>1, <1>3, <3>1, OutdoneMark
    <3>3. marks'[h] = IF \E m \in marks[h] : SameBox(m, id) /\ ~Newer(id, m)
                      THEN marks[h]
                      ELSE {m \in marks[h] : ~SameBox(m, id)} \cup {id}
      BY <1>2, <2>1 DEF ApplyMarks, TypeOK
    <3>4. CASE \E m \in marks[h] : SameBox(m, id) /\ ~Newer(id, m)
      BY <1>1, <1>3, <3>1, <3>2, <3>3, <3>4, HeldOfLosingMark
    <3>5. CASE \A m \in marks[h] : SameBox(m, id) => Newer(id, m)
      BY <1>1, <1>3, <3>1, <3>2, <3>3, <3>5, HeldOfWinningMark
    <3> QED
      BY <3>4, <3>5
  <2>2. CASE Env[id].type = "post.delete"
    BY <1>1, <1>2, <2>2, HeldOfDelete, OutdoneDelete DEF ApplyMarks, TypeOK
  <2>3. CASE Env[id].type \notin {"post.delete", "post.mark"}
    BY <1>1, <1>2, <1>3, <2>3, HeldOfOther, OutdoneOther DEF ApplyMarks, TypeOK
  <2> QED
    BY <2>1, <2>2, <2>3
<1>5. \A g \in Hubs \ {h} : marks'[g] = marks[g]
  BY <1>2 DEF ApplyMarks, TypeOK
<1>6. ASSUME NEW g \in Hubs PROVE marks'[g] = HeldOf(Ids(g)') /\ Outdone(Ids(g)')
  <2>1. CASE g = h
    <3>1. Ids(g)' = S \cup {id}
      BY <2>1, AcceptTarget
    <3> QED
      BY <1>4, <2>1, <3>1
  <2>2. CASE g # h
    <3>1. Ids(g)' = Ids(g)
      BY <2>2, AcceptTarget
    <3> QED
      BY <1>5, <2>2, <3>1 DEF MarksMatchLog, MarksOutdone
  <2> QED
    BY <2>1, <2>2
<1> QED
  BY <1>6 DEF MarksMatchLog, MarksOutdone

-----------------------------------------------------------------------------
(* The log part of the invariant, and the two kinds of steps.              *)

\* What IInv says of the tables alone.
TablesInv ==
    /\ TypeOK
    /\ LogUnique
    /\ SeqsCoverLog
    /\ LocalSeqIncreasing
    /\ OneHop
    /\ IndexUnique
    /\ TargetsInLog
    /\ PostsMatchLog
    /\ MarksMatchLog
    /\ MarksOutdone
    /\ BansInLog

\* A message that was written on p and is new to h always finds room.
LEMMA RoomForPeers ==
  ASSUME TypeOK, LogUnique, LocalSeqIncreasing, OneHop
  PROVE  IndexNeverInTheWay
<1> SUFFICES ASSUME NEW h \in Hubs, NEW p \in Hubs, NEW i \in Rows(p), LocalRow(p, i),
                    log[p][i].id \notin Ids(h), NEW k \in Rows(h),
                    log[h][k].origin = p,
                    Env[log[h][k].id].author = Env[log[p][i].id].author,
                    Env[log[h][k].id].seq = Env[log[p][i].id].seq
             PROVE  FALSE
  BY DEF IndexNeverInTheWay, IndexFree
<1>1. PICK j \in Rows(p) : log[p][j] = [id |-> log[h][k].id, origin |-> Local]
  BY DEF OneHop
<1>2. log[p][j].id = log[h][k].id /\ LocalRow(p, j)
  BY <1>1 DEF LocalRow
<1>3. log[h][k].id \in Ids(h)
  BY EntryTypes
<1>4. j # i
  BY <1>2, <1>3
<1>5. i \in Nat /\ j \in Nat /\ Env[log[p][i].id].seq \in Nat
  BY EntryTypes
<1>6. i < j \/ j < i
  BY <1>4, <1>5
<1>7. /\ i < j => Env[log[p][i].id].seq < Env[log[p][j].id].seq
      /\ j < i => Env[log[p][j].id].seq < Env[log[p][i].id].seq
  BY <1>2 DEF LocalSeqIncreasing
<1> QED
  BY <1>2, <1>5, <1>6, <1>7

\* The tables of a step that accepts nothing.
SameTables == UNCHANGED <<log, seqs, derived>>

Accepts ==
    \E h \in Hubs, id \in Msgs, o \in Hubs \cup {Local} :
        Accept(h, id, o) /\ FromOrigin(id, o)

\* What the puller takes off its page and ingests was written on the peer.
LEMMA HandledFromOrigin ==
  ASSUME TypeOK, NEW h \in Hubs, PullOK(h), At(h, "ingest"), NEW i \in puller[h].page
  PROVE  /\ puller[h].peer \in Hubs
         /\ i \in Rows(puller[h].peer)
         /\ LocalRow(puller[h].peer, i)
         /\ log[puller[h].peer][i].id \in Msgs
         /\ FromOrigin(log[puller[h].peer][i].id, puller[h].peer)
<1> DEFINE p == puller[h].peer
<1>1. p \in Hubs /\ i \in Rows(p) /\ LocalRow(p, i) /\ IsContent(log[p][i].id)
  BY DEF PullOK, At
<1>2. log[p][i] \in Entry /\ log[p][i].id \in Msgs
  BY <1>1, EntryTypes
<1>3. log[p][i] = [id |-> log[p][i].id, origin |-> Local]
  BY <1>1, <1>2 DEF Entry, LocalRow
<1> QED
  BY <1>1, <1>2, <1>3 DEF FromOrigin

\* Every step changes the tables by one accepted message, or not at all.
LEMMA StepKinds ==
  ASSUME TypeOK, \A h \in Hubs : PullOK(h), [Next]_vars
  PROVE  SameTables \/ Accepts
<1>1. CASE UNCHANGED vars
  BY <1>1 DEF vars, SameTables
<1>2. ASSUME NEW h \in Hubs, NEW id \in Msgs, Ingest(h, id) PROVE SameTables \/ Accepts
  <2>1. CASE Ingests(h, id, Local)
    <3>1. Accept(h, id, Local)
      BY <1>2, <2>1 DEF Ingest, Accept
    <3>2. FromOrigin(id, Local)
      BY DEF FromOrigin
    <3> QED
      BY <3>1, <3>2 DEF Accepts
  <2>2. CASE ~Ingests(h, id, Local)
    BY <1>2, <2>2 DEF Ingest, SameTables
  <2> QED
    BY <2>1, <2>2
<1>3. ASSUME NEW h \in Hubs, HandleIngest(h) PROVE SameTables \/ Accepts
  <2> DEFINE p == puller[h].peer
  <2>1. PICK i \in puller[h].page :
          IF Ingests(h, log[p][i].id, p)
          THEN apply(h, log[p][i].id) /\ Commit(h, log[p][i].id, p)
          ELSE UNCHANGED <<log, seqs, derived, peers, cursor>>
    BY <1>3 DEF HandleIngest
  <2>2. At(h, "ingest") /\ PullOK(h)
    BY <1>3 DEF HandleIngest
  <2>3. p \in Hubs /\ log[p][i].id \in Msgs /\ FromOrigin(log[p][i].id, p)
    BY <2>2, HandledFromOrigin
  <2>4. CASE Ingests(h, log[p][i].id, p)
    BY <2>1, <2>3, <2>4 DEF Accept, Accepts
  <2>5. CASE ~Ingests(h, log[p][i].id, p)
    BY <2>1, <2>5 DEF SameTables
  <2> QED
    BY <2>4, <2>5
<1>4. ASSUME NEW h \in Hubs,
             \/ \E id \in Msgs : Admit(h, id)
             \/ StartRound(h) \/ EndRound(h) \/ Pull(h) \/ FetchFails(h) \/ Fetch(h)
             \/ HandleCheck(h) \/ PageDone(h) \/ Restart(h)
      PROVE  SameTables
  BY <1>4 DEF Admit, StartRound, EndRound, Pull, FetchFails, Fetch, HandleCheck,
              PageDone, Restart, SameTables
<1> QED
  BY <1>1, <1>2, <1>3, <1>4 DEF Next, PullerStep

\* No step loses a row of a log.
LEMMA StepGrows ==
  ASSUME TypeOK, SameTables \/ Accepts
  PROVE  LogGrows
BY SameLogGrows, CommitGrows DEF SameTables, Accepts, Accept

\* A step of either kind keeps the tables' invariant, their types apart.
LEMMA TablesStep ==
  ASSUME TablesInv, TypeOK', SameTables \/ Accepts
  PROVE  TablesInv'
<1>1. CASE SameTables
  BY <1>1 DEF TablesInv, SameTables, derived, LogUnique, SeqsCoverLog, LocalSeqIncreasing,
              LocalRow, OneHop, IndexUnique, TargetsInLog, PostsMatchLog, MarksMatchLog,
              MarksOutdone, BansInLog, EverBanned, Ids, Rows
<1>2. CASE Accepts
  <2>1. PICK h \in Hubs, id \in Msgs, o \in Hubs \cup {Local} :
          Accept(h, id, o) /\ FromOrigin(id, o)
    BY <1>2 DEF Accepts
  <2> QED
    BY <2>1, AcceptLogUnique, AcceptSeqs, AcceptLocalSeq, AcceptOneHop, AcceptIndexUnique,
       AcceptTargets, AcceptPosts, AcceptMarks, AcceptBans DEF TablesInv
<1> QED
  BY <1>1, <1>2

-----------------------------------------------------------------------------
(* Types.                                                                  *)

\* The empty tables have their types.
LEMMA InitTypes == Init => TypeOK
<1> SUFFICES ASSUME Init PROVE TypeOK
  OBVIOUS
<1>1. Asleep \in Puller
  BY DEF Asleep, Puller
<1>2. log \in [Hubs -> Seq(Entry)]
  BY EmptySeq DEF Init
<1> QED
  BY <1>1, <1>2 DEF Init, TypeOK

\* An accepted message keeps the types of the tables.
LEMMA AcceptTypes ==
  ASSUME TypeOK, NEW h \in Hubs, NEW id \in Msgs, NEW o \in Hubs \cup {Local},
         apply(h, id), Commit(h, id, o)
  PROVE  /\ log' \in [Hubs -> Seq(Entry)]
         /\ seqs' \in [Hubs -> [Authors -> Nat]]
         /\ posts' \in [Hubs -> SUBSET Msgs]
         /\ marks' \in [Hubs -> SUBSET Msgs]
         /\ profiles' \in [Hubs -> SUBSET Msgs]
         /\ bookmarks' \in [Hubs -> SUBSET (Authors \X Msgs)]
         /\ bans' \in [Hubs -> SUBSET Authors]
         /\ peers' \in [Hubs -> SUBSET Hubs]
         /\ cursor' \in [Hubs -> [Hubs -> Nat]]
<1>1. /\ Env[id].author \in Authors /\ Env[id].seq \in Nat /\ Env[id].post \in Msgs
      /\ Env[id].who \in Authors /\ Env[id].hub \in Hubs
  BY MsgTypes
<1>2. log' \in [Hubs -> Seq(Entry)]
  BY CommitAppends
<1>3. seqs' \in [Hubs -> [Authors -> Nat]]
  <2> DEFINE a == Env[id].author
             top == IF Env[id].seq > seqs[h][a] THEN Env[id].seq ELSE seqs[h][a]
             row == [seqs[h] EXCEPT ![a] = top]
  <2>1. seqs[h] \in [Authors -> Nat]
    BY DEF TypeOK
  <2>2. top \in Nat /\ row \in [Authors -> Nat]
    BY <1>1, <2>1
  <2>3. seqs' = [seqs EXCEPT ![h] = row]
    BY DEF Commit
  <2> QED
    BY <2>2, <2>3 DEF TypeOK
<1>4. posts' \in [Hubs -> SUBSET Msgs]
  BY <1>1 DEF apply, ApplyPosts, TypeOK
<1>5. marks' \in [Hubs -> SUBSET Msgs]
  BY <1>1 DEF apply, ApplyMarks, TypeOK
<1>6. profiles' \in [Hubs -> SUBSET Msgs]
  BY <1>1 DEF apply, ApplyProfiles, TypeOK
<1>7. bookmarks' \in [Hubs -> SUBSET (Authors \X Msgs)]
  <2>1. <<Env[id].author, Env[id].post>> \in Authors \X Msgs
    BY <1>1
  <2>2. bookmarks[h] \in SUBSET (Authors \X Msgs)
    BY DEF TypeOK
  <2>3. bookmarks'[h] \in SUBSET (Authors \X Msgs)
    BY <2>1, <2>2 DEF apply, ApplyBookmarks, TypeOK
  <2> QED
    BY <2>3 DEF apply, ApplyBookmarks, TypeOK
<1>8. bans' \in [Hubs -> SUBSET Authors]
  BY <1>1 DEF apply, ApplyBans, TypeOK
<1>9. peers' \in [Hubs -> SUBSET Hubs]
  BY <1>1 DEF apply, ApplyPeers, TypeOK
<1>10. cursor' \in [Hubs -> [Hubs -> Nat]]
  BY <1>1 DEF apply, ApplyPeers, TypeOK
<1> QED
  BY <1>2, <1>3, <1>4, <1>5, <1>6, <1>7, <1>8, <1>9, <1>10

\* A step of the puller that gives it a place of the right type.
LEMMA PullerMoves ==
  ASSUME TypeOK, NEW h \in Hubs, NEW q \in Puller, puller' = [puller EXCEPT ![h] = q]
  PROVE  puller' \in [Hubs -> Puller]
BY DEF TypeOK

\* Every step keeps the types.
LEMMA TypesStep ==
  ASSUME TypeOK, \A h \in Hubs : PullOK(h), [Next]_vars
  PROVE  TypeOK'
<1> USE DEF At
<1>0. \A h \in Hubs : puller[h] \in Puller
  BY DEF TypeOK
<1>1. CASE UNCHANGED vars
  BY <1>1 DEF vars, derived, TypeOK
<1>2. ASSUME NEW h \in Hubs, NEW id \in Msgs, Admit(h, id) PROVE TypeOK'
  BY <1>2 DEF Admit, derived, TypeOK
<1>3. ASSUME NEW h \in Hubs, NEW id \in Msgs, Ingest(h, id) PROVE TypeOK'
  <2>1. admitted' \in [Hubs -> SUBSET Msgs] /\ puller' = puller
    BY <1>3 DEF Ingest, TypeOK
  <2>2. CASE Ingests(h, id, Local)
    BY <1>3, <2>1, <2>2, AcceptTypes DEF Ingest, TypeOK
  <2>3. CASE ~Ingests(h, id, Local)
    BY <1>3, <2>1, <2>3 DEF Ingest, derived, TypeOK
  <2> QED
    BY <2>2, <2>3
<1>4. ASSUME NEW h \in Hubs, HandleIngest(h) PROVE TypeOK'
  <2> DEFINE p == puller[h].peer
  <2>1. PICK i \in puller[h].page :
          /\ IF Ingests(h, log[p][i].id, p)
             THEN apply(h, log[p][i].id) /\ Commit(h, log[p][i].id, p)
             ELSE UNCHANGED <<log, seqs, derived, peers, cursor>>
          /\ puller' = [puller EXCEPT ![h] = [@ EXCEPT !.pc = "handle", !.page = puller[h].page \ {i}]]
    BY <1>4 DEF HandleIngest
  <2> DEFINE q == [puller[h] EXCEPT !.pc = "handle", !.page = puller[h].page \ {i}]
  <2>2. p \in Hubs /\ log[p][i].id \in Msgs
    BY <1>4, HandledFromOrigin DEF HandleIngest
  <2>3. q \in Puller
    BY <1>0 DEF Puller
  <2>4. admitted' = admitted /\ puller' \in [Hubs -> Puller]
    BY <1>4, <2>1, <2>3, PullerMoves DEF HandleIngest
  <2>5. CASE Ingests(h, log[p][i].id, p)
    BY <2>1, <2>2, <2>4, <2>5, AcceptTypes DEF TypeOK
  <2>6. CASE ~Ingests(h, log[p][i].id, p)
    BY <2>1, <2>4, <2>6 DEF derived, TypeOK
  <2> QED
    BY <2>5, <2>6
<1>5. ASSUME NEW h \in Hubs, StartRound(h) PROVE TypeOK'
  <2> DEFINE todo == {[hub |-> p, cursor |-> cursor[h][p]] : p \in peers[h] \ {h}}
             q == [puller[h] EXCEPT !.pc = "pick", !.todo = todo]
  <2>1. todo \subseteq [hub : Hubs, cursor : Nat]
    BY DEF TypeOK
  <2>2. q \in Puller
    BY <1>0, <2>1 DEF Puller
  <2>3. puller' \in [Hubs -> Puller]
    BY <1>5, <2>2, PullerMoves DEF StartRound
  <2> QED
    BY <1>5, <2>3 DEF StartRound, derived, TypeOK
<1>6. ASSUME NEW h \in Hubs, EndRound(h) PROVE TypeOK'
  BY <1>6 DEF EndRound, derived, TypeOK, Puller, Asleep
<1>7. ASSUME NEW h \in Hubs, Pull(h) PROVE TypeOK'
  <2>1. PICK t \in puller[h].todo :
          puller' = [puller EXCEPT ![h] = [@ EXCEPT
              !.pc = "fetch", !.todo = puller[h].todo \ {t}, !.peer = t.hub, !.cursor = t.cursor]]
    BY <1>7 DEF Pull
  <2> DEFINE q == [puller[h] EXCEPT
              !.pc = "fetch", !.todo = puller[h].todo \ {t}, !.peer = t.hub, !.cursor = t.cursor]
  <2>2. t \in [hub : Hubs, cursor : Nat]
    BY <1>0 DEF Puller
  <2>3. q \in Puller
    BY <1>0, <2>2 DEF Puller
  <2>4. puller' \in [Hubs -> Puller]
    BY <2>1, <2>3, PullerMoves
  <2> QED
    BY <1>7, <2>4 DEF Pull, derived, TypeOK
<1>8. ASSUME NEW h \in Hubs, FetchFails(h) PROVE TypeOK'
  BY <1>8 DEF FetchFails, derived, TypeOK, Puller
<1>9. ASSUME NEW h \in Hubs, Fetch(h) PROVE TypeOK'
  <2> DEFINE p == puller[h].peer
             after == puller[h].cursor
             page(n) == {i \in Scanned(p, after, n) : IsContent(log[p][i].id)}
             q(n) == [puller[h] EXCEPT !.pc = "handle", !.page = page(n), !.next = n]
  <2>1. PICK n \in {after} \cup Rows(p) : puller' = [puller EXCEPT ![h] = q(n)]
    BY <1>9 DEF Fetch
  <2>2. after \in Nat /\ n \in Nat
    BY <1>0 DEF Puller, Rows
  <2>3. page(n) \subseteq Nat
    BY <2>2 DEF Scanned
  <2> HIDE DEF page
  <2>4. q(n) \in Puller
    BY <1>0, <2>2, <2>3 DEF Puller
  <2>5. puller' \in [Hubs -> Puller]
    BY <2>1, <2>4, PullerMoves
  <2> QED
    BY <1>9, <2>5 DEF Fetch, derived, TypeOK
<1>10. ASSUME NEW h \in Hubs, HandleCheck(h) PROVE TypeOK'
  <2>1. PICK i \in puller[h].page :
          \/ puller' = [puller EXCEPT ![h] = [@ EXCEPT !.page = puller[h].page \ {i}]]
          \/ puller' = [puller EXCEPT ![h] = [@ EXCEPT !.pc = "ingest"]]
    BY <1>10 DEF HandleCheck
  <2>2. /\ [puller[h] EXCEPT !.page = puller[h].page \ {i}] \in Puller
        /\ [puller[h] EXCEPT !.pc = "ingest"] \in Puller
    BY <1>0 DEF Puller
  <2>3. puller' \in [Hubs -> Puller]
    BY <2>1, <2>2, PullerMoves
  <2> QED
    BY <1>10, <2>3 DEF HandleCheck, derived, TypeOK
<1>11. ASSUME NEW h \in Hubs, PageDone(h) PROVE TypeOK'
  <2> DEFINE n == puller[h].next
             row == [cursor[h] EXCEPT ![puller[h].peer] = n]
  <2>1. n \in Nat /\ cursor[h] \in [Hubs -> Nat]
    BY <1>0 DEF TypeOK, Puller
  <2>2. /\ [puller[h] EXCEPT !.pc = "pick"] \in Puller
        /\ [puller[h] EXCEPT !.pc = "fetch", !.cursor = n] \in Puller
    BY <1>0, <2>1 DEF Puller
  <2>3. puller' \in [Hubs -> Puller]
    BY <1>11, <2>2, PullerMoves DEF PageDone
  <2>4. row \in [Hubs -> Nat]
    BY <2>1
  <2>5. cursor' \in [Hubs -> [Hubs -> Nat]]
    BY <1>11, <2>4 DEF PageDone, TypeOK
  <2> QED
    BY <1>11, <2>3, <2>5 DEF PageDone, derived, TypeOK
<1>12. ASSUME NEW h \in Hubs, Restart(h) PROVE TypeOK'
  BY <1>12 DEF Restart, derived, TypeOK, Puller, Asleep
<1> QED
  BY <1>1, <1>2, <1>3, <1>4, <1>5, <1>6, <1>7, <1>8, <1>9, <1>10, <1>11, <1>12
     DEF Next, PullerStep

-----------------------------------------------------------------------------
(* Cursors and the puller's place.                                         *)

\* What is settled up to a row stays settled: logs only grow.
LEMMA SettledToStays ==
  ASSUME TypeOK, LogGrows, NEW h \in Hubs, NEW p \in Hubs, NEW n \in Nat, SettledTo(h, p, n)
  PROVE  SettledTo(h, p, n)'
BY SettledStays DEF SettledTo

\* What a puller that does not move relies on stays true.
LEMMA PullStays ==
  ASSUME TypeOK, LogGrows, NEW h \in Hubs, PullOK(h), puller'[h] = puller[h]
  PROVE  PullOK(h)'
<1> DEFINE q == puller[h]
<1>1. /\ q.todo \subseteq [hub : Hubs, cursor : Nat] /\ q.cursor \in Nat
      /\ q.page \subseteq Nat /\ q.next \in Nat
  BY DEF TypeOK, Puller
<1>2. \A t \in q.todo : SettledTo(h, t.hub, t.cursor)'
  BY <1>1, SettledToStays DEF PullOK
<1>3. q.pc \in {"fetch", "handle", "ingest"} =>
        q.peer \in Hubs /\ SettledTo(h, q.peer, q.cursor)'
  BY <1>1, SettledToStays DEF PullOK
<1>4. q.pc \in {"handle", "ingest"} =>
        /\ \A i \in q.page : /\ i \in Rows(q.peer)'
                             /\ LocalRow(q.peer, i)'
                             /\ IsContent(log'[q.peer][i].id)
        /\ \A i \in 1 .. q.next : i \in q.page \/ Settled(h, q.peer, i)'
  BY <1>1, <1>3, SettledStays DEF PullOK, LogGrows, LocalRow
<1> QED
  BY <1>2, <1>3, <1>4 DEF PullOK

\* A row the puller handled is settled: a post or a profile is refused only
\* when the hub has it.
LEMMA HandledSettled ==
  ASSUME TablesInv, LogGrows, NEW h \in Hubs, PullOK(h), At(h, "ingest"),
         NEW p, p = puller[h].peer, NEW i \in puller[h].page, NEW id, id = log[p][i].id,
         ~Ingests(h, id, p) \/ id \in Ids(h)'
  PROVE  Settled(h, p, i)'
<1>1. p \in Hubs /\ i \in Rows(p) /\ LocalRow(p, i) /\ p # Local
  BY HandledFromOrigin, LocalAssumption DEF TablesInv
<1>2. i \in Rows(p)' /\ log'[p][i] = log[p][i] /\ Ids(h) \subseteq Ids(h)'
  BY <1>1 DEF LogGrows
<1>3. Env[id].type \in Kept => id \in Ids(h)'
  <2> SUFFICES ASSUME Env[id].type \in Kept, ~Ingests(h, id, p), id \notin Ids(h)
               PROVE  FALSE
    BY <1>2
  <2>1. IndexFree(h, id, p)
    BY <1>1, RoomForPeers DEF TablesInv, IndexNeverInTheWay
  <2>2. Applies(h, id)
    BY DEF Applies, Kept
  <2> QED
    BY <1>1, <2>1, <2>2 DEF Ingests
<1> QED
  BY <1>1, <1>2, <1>3 DEF Settled

\* Rows of a page are local rows of the peer, and every other row it covers
\* is settled.
LEMMA FetchedPage ==
  ASSUME TypeOK, NEW h \in Hubs, NEW p \in Hubs, NEW after \in Nat,
         SettledTo(h, p, after), NEW n \in {after} \cup Rows(p)
  PROVE  /\ \A i \in Scanned(p, after, n) : i \in Rows(p) /\ LocalRow(p, i)
         /\ \A i \in 1 .. n : \/ i \in Scanned(p, after, n) /\ IsContent(log[p][i].id)
                              \/ Settled(h, p, i)
<1>1. Len(log[p]) \in Nat
  BY LenProperties DEF TypeOK
<1>2. \A i \in Scanned(p, after, n) : i \in Rows(p) /\ LocalRow(p, i)
  BY <1>1 DEF Scanned, Rows
<1>3. ASSUME NEW i \in 1 .. n,
             ~(i \in Scanned(p, after, n) /\ IsContent(log[p][i].id))
      PROVE  Settled(h, p, i)
  <2>1. CASE i \in 1 .. after
    BY <2>1 DEF SettledTo
  <2>2. CASE i \notin 1 .. after
    <3>1. i \in Rows(p) /\ i \in (after + 1) .. n
      BY <1>1, <2>2 DEF Rows
    <3>2. ~LocalRow(p, i) \/ ~IsContent(log[p][i].id)
      BY <1>3, <3>1 DEF Scanned
    <3> QED
      BY <3>1, <3>2 DEF Settled, IsContent, ContentTypes, Kept
  <2> QED
    BY <2>1, <2>2
<1> QED
  BY <1>2, <1>3

\* A step leaves every puller but the one that moves alone; that one keeps
\* what it relies on.
LEMMA PullStep ==
  ASSUME IInv, [Next]_vars
  PROVE  \A h \in Hubs : PullOK(h)'
<1> USE DEF At
<1>1. TypeOK /\ TablesInv /\ (\A h \in Hubs : PullOK(h)) /\ PulledKept
  BY DEF IInv, TablesInv
<1>2. LogGrows
  BY <1>1, StepKinds, StepGrows
<1>3. \A h \in Hubs : puller[h] \in Puller
  BY <1>1 DEF TypeOK
<1> SUFFICES ASSUME NEW h \in Hubs PROVE PullOK(h)'
  OBVIOUS
<1>4. CASE puller'[h] = puller[h]
  BY <1>1, <1>2, <1>4, PullStays
<1>5. CASE StartRound(h)
  <2>1. /\ puller'[h].pc = "pick"
        /\ puller'[h].todo = {[hub |-> p, cursor |-> cursor[h][p]] : p \in peers[h] \ {h}}
    BY <1>3, <1>5, <1>1 DEF StartRound, Puller, TypeOK
  <2>2. ASSUME NEW t \in puller'[h].todo PROVE SettledTo(h, t.hub, t.cursor)'
    <3>1. t.hub \in Hubs /\ t.cursor = cursor[h][t.hub]
      BY <1>1, <2>1 DEF TypeOK
    <3>2. t.cursor \in Nat /\ SettledTo(h, t.hub, t.cursor)
      BY <1>1, <3>1 DEF TypeOK, PulledKept
    <3> QED
      BY <1>1, <1>2, <3>1, <3>2, SettledToStays
  <2> QED
    BY <2>1, <2>2 DEF PullOK
<1>6. CASE EndRound(h) \/ Restart(h)
  <2>1. puller'[h] = Asleep
    BY <1>1, <1>6 DEF EndRound, Restart, TypeOK
  <2> QED
    BY <2>1 DEF PullOK, Asleep
<1>7. CASE Pull(h)
  <2>1. PICK t \in puller[h].todo :
          puller' = [puller EXCEPT ![h] = [@ EXCEPT
              !.pc = "fetch", !.todo = puller[h].todo \ {t},
              !.peer = t.hub, !.cursor = t.cursor]]
    BY <1>7 DEF Pull
  <2>2. t.hub \in Hubs /\ t.cursor \in Nat /\ SettledTo(h, t.hub, t.cursor)
    BY <1>1, <1>3 DEF Puller, PullOK
  <2>3. SettledTo(h, t.hub, t.cursor)'
    BY <1>1, <1>2, <2>2, SettledToStays
  <2>4. \A u \in puller[h].todo : SettledTo(h, u.hub, u.cursor)'
    BY <1>1, <1>2, <1>3, SettledToStays DEF Puller, PullOK
  <2>5. /\ puller'[h].pc = "fetch"
        /\ puller'[h].todo \subseteq puller[h].todo
        /\ puller'[h].peer = t.hub
        /\ puller'[h].cursor = t.cursor
    BY <1>1, <1>3, <2>1 DEF TypeOK, Puller
  <2> QED
    BY <2>2, <2>3, <2>4, <2>5 DEF PullOK
<1>8. CASE FetchFails(h)
  <2>1. puller'[h].pc = "pick" /\ puller'[h].todo = puller[h].todo
    BY <1>1, <1>3, <1>8 DEF FetchFails, TypeOK, Puller
  <2>2. \A u \in puller[h].todo : SettledTo(h, u.hub, u.cursor)'
    BY <1>1, <1>2, <1>3, SettledToStays DEF Puller, PullOK
  <2> QED
    BY <2>1, <2>2 DEF PullOK
<1>9. CASE Fetch(h)
  <2>0. PICK p, after : p = puller[h].peer /\ after = puller[h].cursor
    OBVIOUS
  <2> DEFINE page(n) == {i \in Scanned(p, after, n) : IsContent(log[p][i].id)}
  <2>1. PICK n \in {after} \cup Rows(p) :
          puller' = [puller EXCEPT ![h] = [@ EXCEPT
              !.pc = "handle", !.page = page(n), !.next = n]]
    BY <1>9, <2>0 DEF Fetch
  <2>2. p \in Hubs /\ after \in Nat /\ SettledTo(h, p, after)
    BY <1>1, <1>3, <1>9, <2>0 DEF Fetch, PullOK, Puller
  <2>3. /\ puller'[h].pc = "handle" /\ puller'[h].todo = puller[h].todo
        /\ puller'[h].peer = p /\ puller'[h].cursor = after
        /\ puller'[h].page = page(n) /\ puller'[h].next = n
    BY <1>1, <1>3, <2>0, <2>1 DEF TypeOK, Puller
  <2>4. /\ \A i \in page(n) : i \in Rows(p) /\ LocalRow(p, i) /\ IsContent(log[p][i].id)
        /\ \A i \in 1 .. n : i \in page(n) \/ Settled(h, p, i)
    BY <1>1, <2>2, FetchedPage
  <2>5. /\ \A i \in page(n) :
             i \in Rows(p)' /\ LocalRow(p, i)' /\ IsContent(log'[p][i].id)
        /\ \A i \in 1 .. n : i \in page(n) \/ Settled(h, p, i)'
    <3>1. \A i \in 1 .. n : i \in Nat
      OBVIOUS
    <3> QED
      BY <1>1, <1>2, <2>2, <2>4, <3>1, SettledStays DEF LogGrows, LocalRow
  <2>6. \A u \in puller[h].todo : SettledTo(h, u.hub, u.cursor)'
    BY <1>1, <1>2, <1>3, SettledToStays DEF Puller, PullOK
  <2>7. SettledTo(h, p, after)'
    BY <1>1, <1>2, <2>2, SettledToStays
  <2> QED
    BY <2>2, <2>3, <2>5, <2>6, <2>7 DEF PullOK
<1>10. CASE HandleCheck(h) \/ HandleIngest(h)
  <2>0. PICK p, q : q = puller[h] /\ p = q.peer
    OBVIOUS
  <2>1. /\ q.pc \in {"handle", "ingest"} /\ p \in Hubs
        /\ q.cursor \in Nat /\ q.page \subseteq Nat /\ q.next \in Nat
        /\ q.todo \subseteq [hub : Hubs, cursor : Nat]
    BY <1>1, <1>3, <1>10, <2>0 DEF HandleCheck, HandleIngest, PullOK, Puller
  <2>2. PICK i \in q.page :
          /\ puller'[h].pc \in {"handle", "ingest"}
          /\ puller'[h].todo = q.todo /\ puller'[h].peer = p
          /\ puller'[h].cursor = q.cursor /\ puller'[h].next = q.next
          /\ \/ puller'[h].page = q.page
             \/ puller'[h].page = q.page \ {i} /\ Settled(h, p, i)'
    <3>1. CASE HandleCheck(h)
      <4>1. PICK i \in q.page :
              IF Env[log[p][i].id].author \in bans[h]
              THEN puller' = [puller EXCEPT ![h] = [@ EXCEPT !.page = puller[h].page \ {i}]]
              ELSE puller' = [puller EXCEPT ![h] = [@ EXCEPT !.pc = "ingest"]]
        BY <3>1, <2>0 DEF HandleCheck
      <4>2. CASE Env[log[p][i].id].author \in bans[h]
        <5>1. EverBanned(h, Env[log[p][i].id].author)
          BY <1>1, <4>2 DEF TablesInv, BansInLog
        <5>2. i \in Rows(p) /\ i \in Nat
          BY <1>1, <2>0, <2>1 DEF PullOK
        <5>3. Settled(h, p, i)
          BY <5>1, <5>2 DEF Settled
        <5>4. Settled(h, p, i)'
          BY <1>1, <1>2, <2>1, <5>2, <5>3, SettledStays
        <5>5. puller'[h] = [q EXCEPT !.page = q.page \ {i}]
          BY <1>1, <2>0, <4>1, <4>2 DEF TypeOK
        <5> QED
          BY <1>3, <2>0, <2>1, <4>1, <5>4, <5>5 DEF Puller
      <4>3. CASE Env[log[p][i].id].author \notin bans[h]
        <5>1. puller'[h] = [q EXCEPT !.pc = "ingest"]
          BY <1>1, <2>0, <4>1, <4>3 DEF TypeOK
        <5> QED
          BY <1>3, <2>0, <4>1, <5>1 DEF Puller
      <4> QED
        BY <4>2, <4>3
    <3>2. CASE HandleIngest(h)
      <4>1. PICK i \in q.page :
              /\ IF Ingests(h, log[p][i].id, p)
                 THEN apply(h, log[p][i].id) /\ Commit(h, log[p][i].id, p)
                 ELSE UNCHANGED <<log, seqs, derived, peers, cursor>>
              /\ puller' = [puller EXCEPT ![h] =
                    [@ EXCEPT !.pc = "handle", !.page = puller[h].page \ {i}]]
        BY <3>2, <2>0 DEF HandleIngest
      <4>2. At(h, "ingest") /\ log[p][i].id \in Msgs
        BY <1>1, <2>0, <3>2, HandledFromOrigin DEF HandleIngest
      <4>3. Ingests(h, log[p][i].id, p) => log[p][i].id \in Ids(h)'
        BY <1>1, <2>1, <4>1, <4>2, CommitRows
      <4>4. Settled(h, p, i)'
        BY <1>1, <1>2, <2>0, <4>2, <4>3, HandledSettled
      <4>5. puller'[h] = [q EXCEPT !.pc = "handle", !.page = q.page \ {i}]
        BY <1>1, <2>0, <4>1 DEF TypeOK
      <4>6. /\ puller'[h].pc = "handle" /\ puller'[h].page = q.page \ {i}
            /\ puller'[h].todo = q.todo /\ puller'[h].peer = q.peer
            /\ puller'[h].cursor = q.cursor /\ puller'[h].next = q.next
        BY <1>3, <2>0, <4>5 DEF Puller
      <4> QED
        BY <2>0, <4>4, <4>6
    <3> QED
      BY <1>10, <3>1, <3>2
  <2>3. /\ \A j \in q.page : /\ j \in Rows(p)'
                             /\ LocalRow(p, j)'
                             /\ IsContent(log'[p][j].id)
        /\ \A j \in 1 .. q.next : j \in q.page \/ Settled(h, p, j)'
    BY <1>1, <1>2, <2>0, <2>1, SettledStays DEF PullOK, LogGrows, LocalRow
  <2>4. \A u \in q.todo : SettledTo(h, u.hub, u.cursor)'
    BY <1>1, <1>2, <2>0, <2>1, SettledToStays DEF PullOK
  <2>5. SettledTo(h, p, q.cursor)'
    BY <1>1, <1>2, <2>0, <2>1, SettledToStays DEF PullOK
  <2> QED
    BY <2>1, <2>2, <2>3, <2>4, <2>5 DEF PullOK
<1>11. CASE PageDone(h)
  <2>0. PICK p, q : q = puller[h] /\ p = q.peer
    OBVIOUS
  <2>1. /\ p \in Hubs /\ q.next \in Nat /\ q.page = {}
        /\ q.todo \subseteq [hub : Hubs, cursor : Nat]
        /\ \A i \in 1 .. q.next : Settled(h, p, i)
    BY <1>1, <1>3, <1>11, <2>0 DEF PageDone, PullOK, Puller
  <2>2. SettledTo(h, p, q.next)'
    BY <1>1, <1>2, <2>1, SettledToStays DEF SettledTo
  <2>3. \A u \in q.todo : SettledTo(h, u.hub, u.cursor)'
    BY <1>1, <1>2, <2>0, <2>1, SettledToStays DEF PullOK
  <2>4. /\ puller'[h].todo = q.todo
        /\ \/ puller'[h].pc = "pick"
           \/ /\ puller'[h].pc = "fetch"
              /\ puller'[h].peer = p
              /\ puller'[h].cursor = q.next
    <3>1. \/ puller'[h] = [q EXCEPT !.pc = "pick"]
          \/ puller'[h] = [q EXCEPT !.pc = "fetch", !.cursor = q.next]
      BY <1>1, <1>11, <2>0 DEF PageDone, TypeOK
    <3> QED
      BY <1>3, <2>0, <3>1 DEF Puller
  <2> QED
    BY <2>1, <2>2, <2>3, <2>4 DEF PullOK
<1>12. \/ puller'[h] = puller[h]
       \/ StartRound(h) \/ EndRound(h) \/ Restart(h) \/ Pull(h) \/ FetchFails(h)
       \/ Fetch(h) \/ HandleCheck(h) \/ HandleIngest(h) \/ PageDone(h)
  <2>1. CASE UNCHANGED vars
    BY <2>1 DEF vars
  <2>2. ASSUME NEW g \in Hubs, NEW id \in Msgs, Admit(g, id) \/ Ingest(g, id)
        PROVE  puller'[h] = puller[h]
    BY <2>2 DEF Admit, Ingest
  <2>3. ASSUME NEW g \in Hubs, g # h, PullerStep(g) \/ Restart(g)
        PROVE  puller'[h] = puller[h]
    BY <1>1, <2>3 DEF PullerStep, Restart, StartRound, EndRound, Pull, FetchFails, Fetch,
                      HandleCheck, HandleIngest, PageDone, TypeOK
  <2> QED
    BY <2>1, <2>2, <2>3 DEF Next, PullerStep
<1> QED
  BY <1>4, <1>5, <1>6, <1>7, <1>8, <1>9, <1>10, <1>11, <1>12

\* A cursor moves to the end of a page that is through, or back to 0.
LEMMA CursorStep ==
  ASSUME IInv, [Next]_vars
  PROVE  PulledKept'
<1>1. TypeOK /\ TablesInv /\ (\A h \in Hubs : PullOK(h)) /\ PulledKept
  BY DEF IInv, TablesInv
<1>2. LogGrows /\ TypeOK'
  BY <1>1, StepKinds, StepGrows, TypesStep
<1> SUFFICES ASSUME NEW h \in Hubs, NEW p \in Hubs, NEW n, n = cursor'[h][p]
             PROVE  SettledTo(h, p, n)'
  BY DEF PulledKept
<1>3. n \in Nat
  BY <1>2 DEF TypeOK
<1>4. CASE n = cursor[h][p]
  BY <1>1, <1>2, <1>3, <1>4, SettledToStays DEF PulledKept
<1>5. CASE n = 0
  BY <1>5 DEF SettledTo
<1>6. CASE PageDone(h) /\ p = puller[h].peer /\ n = puller[h].next
  <2>1. \A i \in 1 .. n : Settled(h, p, i)
    BY <1>1, <1>6 DEF PageDone, At, PullOK
  <2> QED
    BY <1>1, <1>2, <1>3, <2>1, SettledToStays DEF SettledTo
<1>7. n = cursor[h][p] \/ n = 0 \/ (PageDone(h) /\ p = puller[h].peer /\ n = puller[h].next)
  <2>1. CASE UNCHANGED cursor
    BY <2>1
  <2>2. ASSUME NEW g \in Hubs, NEW id \in Msgs, ApplyPeers(g, id)
        PROVE  cursor'[h][p] \in {cursor[h][p], 0}
    BY <1>1, <2>2, MsgTypes DEF ApplyPeers, TypeOK
  <2>3. ASSUME NEW g \in Hubs, NEW id \in Msgs, Ingest(g, id)
        PROVE  UNCHANGED cursor \/ ApplyPeers(g, id)
    BY <2>3 DEF Ingest, apply
  <2>4. ASSUME NEW g \in Hubs, HandleIngest(g)
        PROVE  UNCHANGED cursor \/ \E id \in Msgs : ApplyPeers(g, id)
    <3>1. PICK i \in puller[g].page :
            IF Ingests(g, log[puller[g].peer][i].id, puller[g].peer)
            THEN apply(g, log[puller[g].peer][i].id)
            ELSE UNCHANGED cursor
      BY <2>4 DEF HandleIngest
    <3>2. log[puller[g].peer][i].id \in Msgs
      BY <1>1, <2>4, HandledFromOrigin DEF HandleIngest
    <3> QED
      BY <3>1, <3>2 DEF apply
  <2>5. ASSUME NEW g \in Hubs, PageDone(g)
        PROVE  \/ cursor'[h][p] = cursor[h][p]
               \/ g = h /\ p = puller[h].peer /\ cursor'[h][p] = puller[h].next
    <3>1. puller[g].peer \in Hubs
      BY <1>1, <2>5 DEF PageDone, At, PullOK
    <3>2. \/ cursor' = cursor
          \/ cursor' = [cursor EXCEPT ![g] = [cursor[g] EXCEPT ![puller[g].peer] = puller[g].next]]
      BY <2>5 DEF PageDone
    <3>3. cursor[g] \in [Hubs -> Nat]
      BY <1>1 DEF TypeOK
    <3>4. CASE cursor' = cursor
      BY <3>4
    <3>5. CASE cursor' = [cursor EXCEPT ![g] =
                             [cursor[g] EXCEPT ![puller[g].peer] = puller[g].next]]
      <4>1. CASE g # h
        BY <1>1, <3>5, <4>1 DEF TypeOK
      <4>2. CASE g = h
        <5>1. cursor'[h] = [cursor[h] EXCEPT ![puller[h].peer] = puller[h].next]
          BY <1>1, <3>5, <4>2 DEF TypeOK
        <5> QED
          BY <3>3, <4>2, <5>1
      <4> QED
        BY <4>1, <4>2
    <3> QED
      BY <3>2, <3>4, <3>5
  <2>6. ASSUME NEW g \in Hubs,
               \/ \E id \in Msgs : Admit(g, id)
               \/ StartRound(g) \/ EndRound(g) \/ Pull(g) \/ FetchFails(g) \/ Fetch(g)
               \/ HandleCheck(g) \/ Restart(g)
        PROVE  UNCHANGED cursor
    BY <2>6 DEF Admit, StartRound, EndRound, Pull, FetchFails, Fetch, HandleCheck, Restart
  <2> QED
    BY <2>1, <2>2, <2>3, <2>4, <2>5, <2>6 DEF Next, PullerStep, vars
<1> QED
  BY <1>4, <1>5, <1>6, <1>7

-----------------------------------------------------------------------------
(* The theorems.                                                           *)

\* Initially no log has a row.
LEMMA InitEmpty ==
  ASSUME Init, NEW h \in Hubs
  PROVE  Rows(h) = {} /\ Ids(h) = {}
<1>1. log[h] = << >> /\ Len(log[h]) = 0
  BY EmptySeq DEF Init
<1>2. Rows(h) = {}
  BY <1>1 DEF Rows
<1> QED
  BY <1>2 DEF Ids

\* The inductive invariant holds initially.
LEMMA InitIInv == Init => IInv
<1> SUFFICES ASSUME Init PROVE IInv
  OBVIOUS
<1>1. TypeOK
  BY InitTypes
<1>2. \A h \in Hubs : Rows(h) = {} /\ Ids(h) = {}
  BY InitEmpty
<1>3. LiveOf({}) = {} /\ HeldOf({}) = {} /\ Closed({}) /\ Outdone({})
  BY DEF LiveOf, HeldOf, Closed, Outdone
<1>4. /\ LogUnique /\ SeqsCoverLog /\ LocalSeqIncreasing /\ OneHop /\ IndexUnique
  BY <1>2 DEF LogUnique, SeqsCoverLog, LocalSeqIncreasing, OneHop, IndexUnique
<1>5. TargetsInLog /\ PostsMatchLog /\ MarksMatchLog /\ MarksOutdone /\ BansInLog
  BY <1>2, <1>3 DEF Init, TargetsInLog, PostsMatchLog, MarksMatchLog, MarksOutdone, BansInLog
<1>6. PulledKept /\ \A h \in Hubs : PullOK(h)
  BY DEF Init, PulledKept, SettledTo, PullOK, Asleep
<1> QED
  BY <1>1, <1>4, <1>5, <1>6 DEF IInv

\* Every step keeps it.
LEMMA StepIInv == IInv /\ [Next]_vars => IInv'
<1> SUFFICES ASSUME IInv, [Next]_vars PROVE IInv'
  OBVIOUS
<1>1. TypeOK /\ TablesInv /\ (\A h \in Hubs : PullOK(h))
  BY DEF IInv, TablesInv
<1>2. TypeOK' /\ (SameTables \/ Accepts)
  BY <1>1, TypesStep, StepKinds
<1>3. TablesInv'
  BY <1>1, <1>2, TablesStep
<1> QED
  BY <1>3, PullStep, CursorStep DEF IInv, TablesInv

\* The inductive invariant: every table keeps to the log, and every puller to
\* what it has read, through any interleaving of requests, pulls and restarts.
THEOREM Invariant == Spec => []IInv
BY InitIInv, StepIInv, PTL DEF Spec

\* The tables and pull's variables keep their types.
THEOREM TypesHold == Spec => []TypeOK
<1>1. IInv => TypeOK
  BY DEF IInv
<1> QED
  BY <1>1, Invariant, PTL

\* Whatever order messages reach a hub in, its posts table is what the log
\* means: a deleted post does not come back, and nothing else is deleted.
THEOREM Posts == Spec => []PostsMatchLog
<1>1. IInv => PostsMatchLog
  BY DEF IInv
<1> QED
  BY <1>1, Invariant, PTL

\* So is its marks table.
THEOREM Marks == Spec => []MarksMatchLog
<1>1. IInv => MarksMatchLog
  BY DEF IInv
<1> QED
  BY <1>1, Invariant, PTL

\* The replay protection: an author's local rows stand in the order of seq.
THEOREM ReplayProtection == Spec => []LocalSeqIncreasing
<1>1. IInv => LocalSeqIncreasing
  BY DEF IInv
<1> QED
  BY <1>1, Invariant, PTL

\* Replication is one hop and content only.
THEOREM NoEcho == Spec => []OneHop
<1>1. IInv => OneHop
  BY DEF IInv
<1> QED
  BY <1>1, Invariant, PTL

\* The unique index on (author, seq, origin) refuses no message of a peer.
THEOREM IndexHasRoom == Spec => []IndexNeverInTheWay
<1>1. IInv => IndexNeverInTheWay
  BY RoomForPeers DEF IInv
<1> QED
  BY <1>1, Invariant, PTL

\* No cursor passes a post or a profile that was not taken.
THEOREM CursorsSkipNothing == Spec => []PulledKept
<1>1. IInv => PulledKept
  BY DEF IInv
<1> QED
  BY <1>1, Invariant, PTL

-----------------------------------------------------------------------------
(* Refinement.                                                             *)

\* An initial state of the hubs is one of the feed.
LEMMA InitFeed == Init => Feed!Init
<1> SUFFICES ASSUME Init PROVE Feed!Init
  OBVIOUS
<1>1. \A h \in Hubs : Ids(h) = {}
  BY InitEmpty
<1> QED
  BY <1>1 DEF Init, Feed!Init

\* The feed and the hub read a set of messages alike.
LEMMA FeedReads ==
  ASSUME NEW S
  PROVE  Feed!LiveOf(S) = LiveOf(S) /\ Feed!HeldOf(S) = HeldOf(S)
<1>1. Feed!LiveOf(S) = LiveOf(S)
  BY DEF Feed!LiveOf, LiveOf, Feed!IsCreate, IsCreate, Feed!Deletes, Deletes
<1> QED
  BY <1>1 DEF Feed!HeldOf, HeldOf, Feed!IsMark, IsMark, Feed!SameBox, SameBox,
              Feed!Newer, Newer

\* An accepted message is a Take; any other step is a stutter.
LEMMA StepFeed == IInv /\ IInv' /\ [Next]_vars => [Feed!Next]_(Feed!feedVars)
<1> SUFFICES ASSUME IInv, IInv', [Next]_vars PROVE [Feed!Next]_(Feed!feedVars)
  OBVIOUS
<1>1. TypeOK /\ PostsMatchLog /\ PostsMatchLog' /\ MarksMatchLog' /\ TypeOK'
  BY DEF IInv
<1>2. CASE SameTables
  <2>1. [h \in Hubs |-> Ids(h)]' = [h \in Hubs |-> Ids(h)]
    BY <1>2 DEF SameTables, Ids, Rows
  <2> QED
    BY <1>2, <2>1 DEF SameTables, derived, Feed!feedVars
<1>3. CASE Accepts
  <2>1. PICK h \in Hubs, id \in Msgs, o \in Hubs \cup {Local} : Accept(h, id, o)
    BY <1>3 DEF Accepts
  <2> DEFINE ids == [g \in Hubs |-> Ids(g)]
  <2>2. /\ id \notin Ids(h)
        /\ Ids(h)' = Ids(h) \cup {id}
        /\ \A g \in Hubs \ {h} : Ids(g)' = Ids(g)
    BY <1>1, <2>1, AcceptTarget
  <2>3. ids' = [ids EXCEPT ![h] = ids[h] \cup {id}]
    BY <2>2
  <2>4. posts'[h] = LiveOf(Ids(h) \cup {id}) /\ marks'[h] = HeldOf(Ids(h) \cup {id})
    BY <1>1, <2>2 DEF PostsMatchLog, MarksMatchLog
  <2>5. posts' = [posts EXCEPT ![h] = LiveOf(ids[h] \cup {id})]
    BY <1>1, <2>1, <2>4 DEF Accept, apply, ApplyPosts, TypeOK
  <2>6. marks' = [marks EXCEPT ![h] = HeldOf(ids[h] \cup {id})]
    BY <1>1, <2>1, <2>4 DEF Accept, apply, ApplyMarks, TypeOK
  <2>7. ids[h] = Ids(h) /\ id \notin ids[h]
    BY <2>2
  <2> HIDE DEF ids
  <2>8. /\ id \notin ids[h]
        /\ ids' = [ids EXCEPT ![h] = @ \cup {id}]
        /\ posts' = [posts EXCEPT ![h] = LiveOf(ids[h] \cup {id})]
        /\ marks' = [marks EXCEPT ![h] = HeldOf(ids[h] \cup {id})]
    BY <2>3, <2>5, <2>6, <2>7
  <2>9. Feed!Take(h, id)
    BY <2>8, FeedReads DEF Feed!Take, ids
  <2> QED
    BY <2>9 DEF Feed!Next
<1> QED
  BY <1>1, <1>2, <1>3, StepKinds DEF IInv

\* Every hub, with its log, cursors, pages and restarts, implements the
\* abstract feed: what it shows is a function of the set of messages it took.
THEOREM Implements == Spec => FeedSpec
BY InitFeed, StepFeed, Invariant, PTL DEF Spec, FeedSpec, Feed!Spec

\* A deleted post never comes back: what is not among the live posts of a set
\* is not among those of a larger one, unless it is new to it.
THEOREM DeletedForGood == Spec => NeverReturns
<1>1. IInv /\ IInv' /\ [Next]_vars => Feed!StaysDeleted
  <2> SUFFICES ASSUME IInv, IInv', [Next]_vars, NEW h \in Hubs,
                      NEW p \in Ids(h) \ posts[h]
               PROVE  p \notin posts'[h]
    BY DEF Feed!StaysDeleted
  <2>1. TypeOK /\ PostsMatchLog /\ PostsMatchLog'
    BY DEF IInv
  <2>2. LogGrows
    BY <2>1, StepKinds, StepGrows DEF IInv
  <2>3. p \in Ids(h) /\ p \notin LiveOf(Ids(h)) /\ Ids(h) \subseteq Ids(h)'
    BY <2>1, <2>2 DEF PostsMatchLog, LogGrows
  <2>4. p \notin LiveOf(Ids(h)')
    BY <2>3 DEF LiveOf
  <2> QED
    BY <2>1, <2>4 DEF PostsMatchLog
<1> QED
  BY <1>1, Invariant, PTL DEF Spec, NeverReturns, Feed!NeverReturns

-----------------------------------------------------------------------------
(* Bookmarks.                                                              *)

\* No bookmark outlives its post: a private row is only made for a post that
\* is here, and a delete takes the rows of every author with the post.
THEOREM Bookmarks == Spec => []BookmarksOfPosts
<1>1. Init => BookmarksOfPosts
  BY DEF Init, BookmarksOfPosts
<1>2. IInv /\ BookmarksOfPosts /\ [Next]_vars => BookmarksOfPosts'
  <2> SUFFICES ASSUME IInv, BookmarksOfPosts, [Next]_vars PROVE BookmarksOfPosts'
    OBVIOUS
  <2>1. TypeOK /\ (SameTables \/ Accepts)
    BY StepKinds DEF IInv
  <2>2. CASE SameTables
    BY <2>2 DEF SameTables, derived, BookmarksOfPosts
  <2>3. CASE Accepts
    <3>1. PICK h \in Hubs, id \in Msgs, o \in Hubs \cup {Local} : Accept(h, id, o)
      BY <2>3 DEF Accepts
    <3>2. ApplyPosts(h, id) /\ ApplyBookmarks(h, id) /\ Applies(h, id)
      BY <3>1 DEF Accept, apply, Ingests
    <3> SUFFICES ASSUME NEW g \in Hubs, NEW b \in bookmarks'[g] PROVE b[2] \in posts'[g]
      BY DEF BookmarksOfPosts
    <3>3. CASE g # h
      BY <2>1, <3>2, <3>3 DEF ApplyPosts, ApplyBookmarks, BookmarksOfPosts, TypeOK
    <3>4. CASE g = h
      <4>1. CASE b \in bookmarks[h]
        <5>1. b[2] \in posts[h]
          BY <4>1 DEF BookmarksOfPosts
        <5>2. Env[id].type = "post.delete" => b[2] # Env[id].post
          BY <2>1, <3>2, <3>4 DEF ApplyBookmarks, TypeOK
        <5> QED
          BY <2>1, <3>2, <3>4, <5>1, <5>2 DEF ApplyPosts, TypeOK
      <4>2. CASE b \notin bookmarks[h]
        <5>1. /\ Env[id].type = "post.bookmark" /\ Env[id].on
              /\ b = <<Env[id].author, Env[id].post>>
          BY <2>1, <3>2, <3>4, <4>2 DEF ApplyBookmarks, TypeOK
        <5>2. b[2] \in posts[h]
          BY <3>2, <5>1 DEF Applies
        <5> QED
          BY <2>1, <3>2, <3>4, <5>1, <5>2 DEF ApplyPosts, TypeOK
      <4> QED
        BY <4>1, <4>2
    <3> QED
      BY <3>3, <3>4
  <2> QED
    BY <2>1, <2>2, <2>3
<1> QED
  BY <1>1, <1>2, Invariant, PTL DEF Spec
=============================================================================
