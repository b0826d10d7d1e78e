------------------------- MODULE HubTranslationsProofs -------------------------
(***************************************************************************)
(* A translation made again is past every cursor, for any hubs, posts,     *)
(* limits, models and times.  Times and makers are not compared by it, so  *)
(* that rows and offers need no types but for their revs: the invariant    *)
(* says that there are some sets their other fields are taken from.  The   *)
(* second half is about them: who made what is kept or waits, and that the *)
(* newest stays with a hub that only takes.                                *)
(***************************************************************************)
EXTENDS HubTranslationTexts, HubInduction

\* The puller over some set of offers; it asks a hub.
PullerRecord(U) ==
    [mode : {"idle", "fetch", "pull", "settle"}, pc : {"next", "keep", "aside", "drop"},
     peer : Hubs \cup {Local}, cursor : Nat, next : Nat, page : SUBSET U, offer : U]
PullerOver(U) == {s \in PullerRecord(U) : s.mode \in {"fetch", "pull"} => s.peer \in Hubs}

\* A row over some set of tries, times and makers.
RowOver(V) == [kept : BOOLEAN, tries : V, ts : V, origin : V, rev : Nat]

PullerTyped == \E U : puller \in [Hubs -> PullerOver(U)]
RowsTyped == \E V : rows \in [Hubs -> [Posts -> RowOver(V)]]
NumbersTyped == revs \in [Hubs -> Nat] /\ cursor \in [Hubs -> [Hubs -> Nat]]

\* RevsAhead, inductive with the types of what it compares.
FInv == PullerTyped /\ RowsTyped /\ NumbersTyped /\ RevsAhead

-----------------------------------------------------------------------------
\* A larger set of offers will do as well.
LEMMA PullerWider ==
    ASSUME NEW U, NEW W, U \subseteq W, NEW f \in [Hubs -> PullerOver(U)]
    PROVE  f \in [Hubs -> PullerOver(W)]
  <1>1. ASSUME NEW h \in Hubs PROVE f[h] \in PullerOver(W)
    BY DEF PullerOver, PullerRecord
  <1> QED
    BY <1>1

LEMMA RowsWider ==
    ASSUME NEW V, NEW W, V \subseteq W, NEW f \in [Hubs -> [Posts -> RowOver(V)]]
    PROVE  f \in [Hubs -> [Posts -> RowOver(W)]]
  <1>1. ASSUME NEW h \in Hubs, NEW q \in Posts PROVE f[h][q] \in RowOver(W)
    BY DEF RowOver
  <1> QED
    BY <1>1

LEMMA IdleTyped == Idle \in PullerOver({Local})
  BY DEF Idle, PullerOver, PullerRecord

-----------------------------------------------------------------------------
LEMMA InitF == Init => FInv
  <1> SUFFICES ASSUME Init PROVE FInv
    OBVIOUS
  <1>1. PullerTyped
    BY IdleTyped DEF Init, PullerTyped
  <1>2. RowsTyped
    <2>1. NoRow \in RowOver({0, Local})
      BY DEF NoRow, RowOver
    <2> QED
      BY <2>1 DEF Init, RowsTyped
  <1>3. NumbersTyped
    BY DEF Init, NumbersTyped
  <1>4. RevsAhead
    <2>1. \A p \in Hubs : revs[p] = 0 /\ \A q \in Posts : rows[p][q].rev = 0
      BY DEF Init, NoRow
    <2>2. \A h, p \in Hubs : cursor[h][p] = 0
      BY DEF Init
    <2>3. \A h \in Hubs : puller[h].cursor = 0 /\ puller[h].next = 0
      BY DEF Init, Idle
    <2> QED
      BY <2>1, <2>2, <2>3 DEF RevsAhead
  <1> QED
    BY <1>1, <1>2, <1>3, <1>4 DEF FInv

\* Nothing that FInv speaks of moves.
LEMMA StillF ==
    ASSUME FInv, UNCHANGED <<rows, revs, cursor, puller>>
    PROVE  FInv'
  BY DEF FInv, PullerTyped, RowsTyped, NumbersTyped, RevsAhead

\* A row is taken away, or written with no rev, by hub h.
LEMMA UnservedRows ==
    ASSUME FInv, NEW h \in Hubs, NEW q \in Posts, NEW row,
           rows' = [rows EXCEPT ![h] = [@ EXCEPT ![q] = row]],
           NEW V, row \in RowOver(V), row.rev = 0
    PROVE  /\ RowsTyped'
           /\ \A p \in Hubs, r \in Posts : rows'[p][r].rev <= revs[p]
  <1>1. PICK W : rows \in [Hubs -> [Posts -> RowOver(W)]]
    BY DEF FInv, RowsTyped
  <1>2. rows' \in [Hubs -> [Posts -> RowOver(V \cup W)]]
    <2>1. rows \in [Hubs -> [Posts -> RowOver(V \cup W)]]
      BY <1>1, RowsWider
    <2>2. row \in RowOver(V \cup W)
      BY DEF RowOver
    <2> QED
      BY <2>1, <2>2
  <1>3. ASSUME NEW p \in Hubs, NEW r \in Posts PROVE rows'[p][r].rev <= revs[p]
    BY <1>1, <1>3 DEF FInv, RevsAhead, NumbersTyped
  <1> QED
    BY <1>2, <1>3 DEF RowsTyped

LEMMA UnservedF ==
    ASSUME FInv, NEW h \in Hubs, NEW q \in Posts, NEW row,
           rows' = [rows EXCEPT ![h] = [@ EXCEPT ![q] = row]],
           NEW V, row \in RowOver(V), row.rev = 0,
           UNCHANGED <<revs, cursor, puller>>
    PROVE  FInv'
  <1>1. /\ RowsTyped'
        /\ \A p \in Hubs, r \in Posts : rows'[p][r].rev <= revs[p]
    BY UnservedRows
  <1> QED
    BY <1>1 DEF FInv, RevsAhead, PullerTyped, NumbersTyped

-----------------------------------------------------------------------------
\* What Translate writes: a row with a rev above all that were given.
LEMMA TranslateWrites ==
    ASSUME FInv, NEW h \in Hubs, NEW q \in Posts, NEW t, Translate(h, q, t)
    PROVE  /\ revs' = [revs EXCEPT ![h] = revs[h] + 1]
           /\ UNCHANGED <<cursor, puller>>
           /\ \E V, written :
                 /\ written \in RowOver(V) /\ written.rev = revs[h] + 1
                 /\ rows' = IF q \in here[h]
                            THEN [rows EXCEPT ![h] = [@ EXCEPT ![q] = written]] ELSE rows
  <1>1. PICK row : /\ row = [NoRow EXCEPT !.kept = TRUE, !.ts = t]
                   /\ SetTranslation(h, q, row, revs[h] + 1)
                   /\ UNCHANGED <<cursor, puller>>
    BY DEF Translate, NextRev
  <1>2. PICK n, m : n = rows[h][q].tries + 1 /\ m = revs[h] + 1
    OBVIOUS
  <1>3. m \in Nat /\ m # 0
    BY <1>2 DEF FInv, NumbersTyped
  <1>4. revs' = [revs EXCEPT ![h] = revs[h] + 1]
    <2>1. revs' = [revs EXCEPT ![h] = IF m = 0 THEN @ ELSE m]
      BY <1>1, <1>2 DEF SetTranslation
    <2> QED
      BY <1>2, <1>3, <2>1
  <1>5. PICK V : n \in V /\ row \in RowOver(V)
    <2>1. n \in {n, t, 0, Local} /\ row \in RowOver({n, t, 0, Local})
      BY <1>1 DEF NoRow, RowOver
    <2> QED
      BY <2>1
  <1>6. PICK written : written = [row EXCEPT !.tries = n, !.rev = m]
    OBVIOUS
  <1>7. written \in RowOver(V) /\ written.rev = m
    BY <1>3, <1>5, <1>6 DEF RowOver
  <1>8. rows' = IF q \in here[h] THEN [rows EXCEPT ![h] = [@ EXCEPT ![q] = written]] ELSE rows
    BY <1>1, <1>2, <1>6 DEF SetTranslation
  <1> QED
    BY <1>1, <1>2, <1>4, <1>7, <1>8

LEMMA TranslateF ==
    ASSUME FInv, NEW h \in Hubs, NEW q \in Posts, NEW t, Translate(h, q, t)
    PROVE  FInv'
  <1>1. PICK W : rows \in [Hubs -> [Posts -> RowOver(W)]]
    BY DEF FInv, RowsTyped
  <1>2. PICK X, written :
           /\ written \in RowOver(X) /\ written.rev = revs[h] + 1
           /\ rows' = IF q \in here[h] THEN [rows EXCEPT ![h] = [@ EXCEPT ![q] = written]] ELSE rows
    BY TranslateWrites
  <1>3. revs \in [Hubs -> Nat]
    BY DEF FInv, NumbersTyped
  <1>4. revs' = [revs EXCEPT ![h] = revs[h] + 1] /\ UNCHANGED <<cursor, puller>>
    BY TranslateWrites
  <1>5. RowsTyped'
    <2>1. rows \in [Hubs -> [Posts -> RowOver(W \cup X)]]
      BY <1>1, RowsWider
    <2>2. written \in RowOver(W \cup X)
      BY <1>2 DEF RowOver
    <2>3. rows' \in [Hubs -> [Posts -> RowOver(W \cup X)]]
      BY <1>2, <2>1, <2>2
    <2> QED
      BY <2>3 DEF RowsTyped
  <1>6. NumbersTyped'
    BY <1>3, <1>4 DEF FInv, NumbersTyped
  <1>7. RevsAhead'
    <2>1. \A p \in Hubs : revs[p] <= revs'[p] /\ revs'[p] \in Nat
      BY <1>3, <1>4
    <2>2. ASSUME NEW p \in Hubs, NEW r \in Posts PROVE rows'[p][r].rev <= revs'[p]
      <3>1. CASE p = h /\ r = q /\ q \in here[h]
        BY <1>1, <1>2, <1>3, <1>4, <3>1
      <3>2. CASE ~(p = h /\ r = q /\ q \in here[h])
        <4>1. rows'[p][r] = rows[p][r]
          BY <1>1, <1>2, <3>2
        <4>2. rows[p][r].rev <= revs[p] /\ rows[p][r].rev \in Nat
          BY <1>1 DEF FInv, RevsAhead, RowOver
        <4> QED
          BY <4>1, <4>2, <2>1, <1>3
      <3> QED
        BY <3>1, <3>2
    <2>3. ASSUME NEW g \in Hubs, NEW p \in Hubs PROVE cursor'[g][p] <= revs'[p]
      BY <1>3, <1>4, <2>1 DEF FInv, RevsAhead, NumbersTyped
    <2>4. ASSUME NEW g \in Hubs, NEW p \in Hubs, puller'[g].peer = p
          PROVE  puller'[g].cursor <= revs'[p] /\ puller'[g].next <= revs'[p]
      <3>1. puller[g].cursor \in Nat /\ puller[g].next \in Nat
        BY DEF FInv, PullerTyped, PullerOver, PullerRecord
      <3> QED
        BY <1>3, <1>4, <2>1, <2>4, <3>1 DEF FInv, RevsAhead
    <2> QED
      BY <2>2, <2>3, <2>4 DEF RevsAhead
  <1> QED
    BY <1>4, <1>5, <1>6, <1>7 DEF FInv, PullerTyped
-----------------------------------------------------------------------------
\* A failed answer takes the row's words and gives it no rev.
LEMMA FailF ==
    ASSUME FInv, NEW h \in Hubs, NEW q \in Posts, Fail(h, q)
    PROVE  FInv'
  <1> DEFINE tried == [NoRow EXCEPT !.tries = rows[h][q].tries + 1, !.rev = 0]
             V == {0, rows[h][q].tries + 1, Local}
  <1>1. UNCHANGED <<revs, cursor, puller>>
    <2>1. revs' = [revs EXCEPT ![h] = @] /\ UNCHANGED <<cursor, puller>>
      BY DEF Fail, SetTranslation
    <2> QED
      BY <2>1 DEF FInv, NumbersTyped
  <1>2. rows' = IF q \in here[h] THEN [rows EXCEPT ![h] = [@ EXCEPT ![q] = tried]] ELSE rows
    BY DEF Fail, SetTranslation
  <1>3. tried \in RowOver(V) /\ tried.rev = 0
    BY DEF NoRow, RowOver
  <1> HIDE DEF tried, V
  <1>4. CASE q \in here[h]
    BY <1>1, <1>2, <1>3, <1>4, UnservedF
  <1>5. CASE q \notin here[h]
    BY <1>1, <1>2, <1>5, StillF
  <1> QED
    BY <1>4, <1>5

\* A delete, or an editor, takes the row away.
LEMMA TakenAwayF ==
    ASSUME FInv, NEW h \in Hubs, NEW q \in Posts, Delete(h, q) \/ Retranslate(h, q)
    PROVE  FInv'
  <1>1. /\ rows' = [rows EXCEPT ![h] = [@ EXCEPT ![q] = NoRow]]
        /\ UNCHANGED <<revs, cursor, puller>>
    BY DEF Delete, Retranslate
  <1>2. NoRow \in RowOver({0, Local}) /\ NoRow.rev = 0
    BY DEF NoRow, RowOver
  <1> QED
    BY <1>1, <1>2, UnservedF

-----------------------------------------------------------------------------
\* Hub h's puller goes on, and s is behind nobody.
LEMMA PullerMoves ==
    ASSUME FInv, NEW h \in Hubs, NEW s, NEW W, s \in PullerOver(W),
           puller' = [puller EXCEPT ![h] = s],
           \A p \in Hubs : s.peer = p => s.cursor <= revs[p] /\ s.next <= revs[p]
    PROVE  /\ PullerTyped'
           /\ \A g, p \in Hubs : puller'[g].peer = p =>
                 puller'[g].cursor <= revs[p] /\ puller'[g].next <= revs[p]
  <1>1. PICK U : puller \in [Hubs -> PullerOver(U)]
    BY DEF FInv, PullerTyped
  <1>2. PullerTyped'
    <2>1. puller \in [Hubs -> PullerOver(U \cup W)]
      BY <1>1, PullerWider
    <2>2. s \in PullerOver(U \cup W)
      BY DEF PullerOver, PullerRecord
    <2>3. puller' \in [Hubs -> PullerOver(U \cup W)]
      BY <2>1, <2>2
    <2> QED
      BY <2>3 DEF PullerTyped
  <1>3. ASSUME NEW g \in Hubs, NEW p \in Hubs, puller'[g].peer = p
        PROVE  puller'[g].cursor <= revs[p] /\ puller'[g].next <= revs[p]
    <2>1. CASE g = h
      BY <1>1, <1>3, <2>1
    <2>2. CASE g # h
      BY <1>1, <1>3, <2>2 DEF FInv, RevsAhead
    <2> QED
      BY <2>1, <2>2
  <1> QED
    BY <1>2, <1>3

LEMMA PullerF ==
    ASSUME FInv, NEW h \in Hubs, NEW s, NEW W, s \in PullerOver(W),
           puller' = [puller EXCEPT ![h] = s],
           \A p \in Hubs : s.peer = p => s.cursor <= revs[p] /\ s.next <= revs[p],
           UNCHANGED <<rows, revs, cursor>>
    PROVE  FInv'
  <1>1. /\ PullerTyped'
        /\ \A g, p \in Hubs : puller'[g].peer = p =>
              puller'[g].cursor <= revs[p] /\ puller'[g].next <= revs[p]
    BY PullerMoves
  <1> QED
    BY <1>1 DEF FInv, RevsAhead, RowsTyped, NumbersTyped

\* Where the puller is idle, it is behind nobody.
LEMMA IdleF ==
    ASSUME FInv, NEW h \in Hubs, puller' = [puller EXCEPT ![h] = Idle],
           UNCHANGED <<rows, revs, cursor>>
    PROVE  FInv'
  <1>1. \A p \in Hubs : Idle.peer # p
    BY LocalAssumption DEF Idle
  <1> QED
    BY <1>1, IdleTyped, PullerF

\* What hub h's puller is, and that it is behind nobody.
LEMMA PullerNow ==
    ASSUME FInv, NEW h \in Hubs
    PROVE  /\ \E U : puller[h] \in PullerOver(U)
           /\ \A p \in Hubs : puller[h].peer = p =>
                 puller[h].cursor <= revs[p] /\ puller[h].next <= revs[p]
  BY DEF FInv, PullerTyped, RevsAhead

\* take is done with an offer: the numbers stay.
LEMMA DoneKeeps ==
    ASSUME NEW U, NEW s \in PullerOver(U)
    PROVE  /\ Done(s) \in PullerOver(U \cup {Local})
           /\ Done(s).peer = s.peer /\ Done(s).cursor = s.cursor /\ Done(s).next = s.next
  BY DEF Done, PullerOver, PullerRecord

LEMMA DecidedKeeps ==
    ASSUME NEW U, NEW s \in PullerOver(U)
    PROVE  /\ Decided(s) \in PullerOver(U \cup {Local})
           /\ Decided(s).peer = s.peer /\ Decided(s).cursor = s.cursor
           /\ Decided(s).next = s.next
  <1>1. CASE s.mode = "settle"
    <2>1. Decided(s) = [s EXCEPT !.pc = "drop"]
      BY <1>1 DEF Decided
    <2> QED
      BY <2>1 DEF PullerOver, PullerRecord
  <1>2. CASE s.mode # "settle"
    <2>1. Decided(s) = Done(s)
      BY <1>2 DEF Decided
    <2> QED
      BY <2>1, DoneKeeps
  <1> QED
    BY <1>1, <1>2

-----------------------------------------------------------------------------
LEMMA StartPullF ==
    ASSUME FInv, NEW h \in Hubs, NEW p \in Pulls[h], StartPull(h, p)
    PROVE  FInv'
  <1> DEFINE s == [Idle EXCEPT !.mode = "fetch", !.peer = p, !.cursor = cursor[h][p]]
  <1>1. p \in Hubs /\ cursor[h][p] \in Nat /\ cursor[h][p] <= revs[p] /\ revs[p] \in Nat
    BY PullsAssumption DEF FInv, NumbersTyped, RevsAhead
  <1>2. s \in PullerOver({Local})
    BY <1>1, IdleTyped DEF PullerOver, PullerRecord
  <1>3. s.peer = p /\ s.cursor = cursor[h][p] /\ s.next = 0
    BY IdleTyped DEF Idle, PullerOver, PullerRecord
  <1>4. puller' = [puller EXCEPT ![h] = s] /\ UNCHANGED <<rows, revs, cursor>>
    BY DEF StartPull
  <1> HIDE DEF s
  <1>5. \A g \in Hubs : s.peer = g => s.cursor <= revs[g] /\ s.next <= revs[g]
    BY <1>1, <1>3
  <1> QED
    BY <1>2, <1>4, <1>5, PullerF

\* What a page holds is behind the last rev its hub gave.
LEMMA FetchF ==
    ASSUME FInv, NEW h \in Hubs, Fetch(h)
    PROVE  FInv'
  <1> DEFINE p == puller[h].peer
             page == PageOf(p, puller[h].cursor)
  <1>1. PICK U : puller[h] \in PullerOver(U)
    BY PullerNow
  <1>2. p \in Hubs
    BY <1>1 DEF Fetch, PullerOver, PullerRecord
  <1>3. puller[h].cursor \in Nat /\ puller[h].cursor <= revs[p] /\ revs[p] \in Nat
    BY <1>1, <1>2 DEF FInv, RevsAhead, NumbersTyped, PullerOver, PullerRecord
  <1>4. ASSUME NEW o \in page PROVE o.rev \in Nat /\ o.rev <= revs[p]
    <2>1. PICK q \in Posts : o.rev = rows[p][q].rev
      <3>1. PICK q \in After(p, puller[h].cursor) :
               o = [peer |-> p, post |-> q, ts |-> rows[p][q].ts, rev |-> rows[p][q].rev]
        BY <1>4, Zenon DEF PageOf
      <3>2. q \in Posts
        BY DEF After, Mine
      <3> QED
        BY <3>1, <3>2
    <2>2. rows[p][q].rev \in Nat /\ rows[p][q].rev <= revs[p]
      BY <1>2 DEF FInv, RowsTyped, RowOver, RevsAhead
    <2> QED
      BY <2>1, <2>2
  <1>5. PICK n \in {puller[h].cursor} \cup {o.rev : o \in page} :
           puller' = [puller EXCEPT ![h] = [@ EXCEPT !.mode = "pull", !.page = page, !.next = n]]
    BY DEF Fetch
  <1>6. n \in Nat /\ n <= revs[p]
    BY <1>3, <1>4, <1>5
  <1> HIDE DEF page
  <1> DEFINE s == [puller[h] EXCEPT !.mode = "pull", !.page = page, !.next = n]
  <1>7. /\ s \in PullerOver(U \cup page)
        /\ s.peer = p /\ s.cursor = puller[h].cursor /\ s.next = n
    BY <1>1, <1>2, <1>6 DEF PullerOver, PullerRecord
  <1>8. puller' = [puller EXCEPT ![h] = s] /\ UNCHANGED <<rows, revs, cursor>>
    <2>1. puller' = [puller EXCEPT ![h] = s]
      BY <1>5 DEF FInv, PullerTyped
    <2> QED
      BY <2>1 DEF Fetch
  <1> HIDE DEF s
  <1>9. \A g \in Hubs : s.peer = g => s.cursor <= revs[g] /\ s.next <= revs[g]
    BY <1>3, <1>6, <1>7
  <1> QED
    BY <1>7, <1>8, <1>9, PullerF

\* What is settled is nobody's page.
LEMMA SettleF ==
    ASSUME FInv, NEW h \in Hubs, NEW due,
           puller' = [puller EXCEPT ![h] = [Idle EXCEPT !.mode = "settle", !.page = due]],
           UNCHANGED <<rows, revs, cursor>>
    PROVE  FInv'
  <1> DEFINE s == [Idle EXCEPT !.mode = "settle", !.page = due]
  <1>1. s \in PullerOver(due \cup {Local}) /\ s.peer = Local
    <2>1. Idle \in PullerOver(due \cup {Local}) /\ Idle.peer = Local
      BY DEF Idle, PullerOver, PullerRecord
    <2> QED
      BY <2>1 DEF PullerOver, PullerRecord
  <1>2. puller' = [puller EXCEPT ![h] = s]
    OBVIOUS
  <1> HIDE DEF s
  <1>3. \A g \in Hubs : s.peer # g
    BY <1>1, LocalAssumption
  <1> QED
    BY <1>1, <1>2, <1>3, PullerF

LEMMA LookF ==
    ASSUME FInv, NEW h \in Hubs, Look(h)
    PROVE  FInv'
  <1>1. PICK U : puller[h] \in PullerOver(U)
    BY PullerNow
  <1>2. PICK o \in puller[h].page :
           LET s == [puller[h] EXCEPT !.offer = o] IN
           puller' = [puller EXCEPT ![h] =
               IF o.post \notin here[h] THEN [s EXCEPT !.pc = "aside"]
               ELSE IF tongue[h][o.post] = "own" \/ <<o.post, o.ts>> \notin Sound THEN Decided(s)
               ELSE [s EXCEPT !.pc = "keep"]]
    BY DEF Look
  <1> DEFINE s == [puller[h] EXCEPT !.offer = o]
             W == U \cup {Local}
             Same(t) == /\ t \in PullerOver(W)
                        /\ t.peer = puller[h].peer
                        /\ t.cursor = puller[h].cursor
                        /\ t.next = puller[h].next
  <1>3. s \in PullerOver(U) /\ Same(s)
    BY <1>1, <1>2 DEF PullerOver, PullerRecord
  <1>4. Same(Decided(s))
    BY <1>3, DecidedKeeps
  <1>5. Same([s EXCEPT !.pc = "aside"]) /\ Same([s EXCEPT !.pc = "keep"])
    <2> HIDE DEF s
    <2> QED
      BY <1>3 DEF PullerOver, PullerRecord
  <1>6. PICK t : Same(t) /\ puller' = [puller EXCEPT ![h] = t]
    <2> HIDE DEF Same
    <2> QED
      BY <1>2, <1>4, <1>5
  <1>7. \A g \in Hubs : t.peer = g => t.cursor <= revs[g] /\ t.next <= revs[g]
    BY <1>6, PullerNow
  <1> QED
    BY <1>6, <1>7, PullerF DEF Look

\* The row is the peer's and has no rev.
LEMMA AcceptF ==
    ASSUME FInv, NEW h \in Hubs, Accept(h)
    PROVE  FInv'
  <1> DEFINE o == puller[h].offer
             q == o.post
             row == [kept |-> TRUE, tries |-> rows[h][q].tries, ts |-> o.ts,
                     origin |-> o.peer, rev |-> 0]
  <1>1. /\ rows' = IF Accepts(h, o) THEN [rows EXCEPT ![h] = [@ EXCEPT ![q] = row]] ELSE rows
        /\ puller' = [puller EXCEPT ![h] = Decided(@)]
        /\ UNCHANGED <<revs, cursor>>
    BY DEF Accept
  <1>2. RowsTyped' /\ \A p \in Hubs, r \in Posts : rows'[p][r].rev <= revs[p]
    <2>1. row \in RowOver({rows[h][q].tries, o.ts, o.peer}) /\ row.rev = 0
      BY DEF RowOver
    <2> HIDE DEF row, q, o
    <2>2. CASE Accepts(h, o) /\ q \in Posts
      BY <1>1, <2>1, <2>2, UnservedRows
    <2>3. CASE ~Accepts(h, o)
      BY <1>1, <2>3 DEF FInv, RowsTyped, RevsAhead
    <2>4. CASE q \notin Posts
      <3>1. rows' = rows
        BY <1>1, <2>4 DEF FInv, RowsTyped
      <3> QED
        BY <3>1 DEF FInv, RowsTyped, RevsAhead
    <2> QED
      BY <2>2, <2>3, <2>4
  <1>3. /\ PullerTyped'
        /\ \A g, p \in Hubs : puller'[g].peer = p =>
              puller'[g].cursor <= revs[p] /\ puller'[g].next <= revs[p]
    <2>1. PICK U : puller[h] \in PullerOver(U)
      BY PullerNow
    <2>2. \A p \in Hubs : puller[h].peer = p =>
             puller[h].cursor <= revs[p] /\ puller[h].next <= revs[p]
      BY PullerNow
    <2>3. puller' = [puller EXCEPT ![h] = Decided(puller[h])]
      BY <1>1 DEF FInv, PullerTyped
    <2>4. \A p \in Hubs : Decided(puller[h]).peer = p =>
             Decided(puller[h]).cursor <= revs[p] /\ Decided(puller[h]).next <= revs[p]
      BY <2>1, <2>2, DecidedKeeps
    <2>5. Decided(puller[h]) \in PullerOver(U \cup {Local})
      BY <2>1, DecidedKeeps
    <2> QED
      BY <2>3, <2>4, <2>5, PullerMoves
  <1> QED
    BY <1>1, <1>2, <1>3 DEF FInv, NumbersTyped, RevsAhead

LEMMA AsideDropF ==
    ASSUME FInv, NEW h \in Hubs, Aside(h) \/ Drop(h)
    PROVE  FInv'
  <1>1. PICK U : puller[h] \in PullerOver(U)
    BY PullerNow
  <1>2. /\ puller' = [puller EXCEPT ![h] = Done(puller[h])]
        /\ UNCHANGED <<rows, revs, cursor>>
    <2>1. puller' = [puller EXCEPT ![h] = Done(@)] /\ UNCHANGED <<rows, revs, cursor>>
      BY DEF Aside, Drop
    <2> QED
      BY <2>1 DEF FInv, PullerTyped
  <1>3. \A p \in Hubs : Done(puller[h]).peer = p =>
           Done(puller[h]).cursor <= revs[p] /\ Done(puller[h]).next <= revs[p]
    BY <1>1, DoneKeeps, PullerNow
  <1> QED
    BY <1>1, <1>2, <1>3, DoneKeeps, PullerF

\* The cursor moves to the end of a page that was behind the last rev.
LEMMA PageDoneF ==
    ASSUME FInv, NEW h \in Hubs, PageDone(h)
    PROVE  FInv'
  <1> DEFINE s == puller[h]
             p == s.peer
             t == [Idle EXCEPT !.mode = "fetch", !.peer = p, !.cursor = s.next]
  <1>1. CASE s.next <= s.cursor
    BY <1>1, IdleF DEF PageDone
  <1>2. CASE ~(s.next <= s.cursor)
    <2>1. PICK U : s \in PullerOver(U)
      BY PullerNow
    <2>2. /\ p \in Hubs /\ s.next \in Nat
          /\ s.next <= revs[p] /\ revs[p] \in Nat
      BY <2>1, PullerNow DEF PageDone, PullerOver, PullerRecord, FInv, NumbersTyped
    <2>3. /\ cursor' = [cursor EXCEPT ![h] = [@ EXCEPT ![p] = s.next]]
          /\ puller' = [puller EXCEPT ![h] = t]
          /\ UNCHANGED <<rows, revs>>
      BY <1>2 DEF PageDone
    <2>4. t \in PullerOver({Local})
      BY <2>2, IdleTyped DEF PullerOver, PullerRecord
    <2>5. t.peer = p /\ t.cursor = s.next /\ t.next = 0
      BY IdleTyped DEF Idle, PullerOver, PullerRecord
    <2> HIDE DEF t, p
    <2>6. /\ PullerTyped'
          /\ \A g, r \in Hubs : puller'[g].peer = r =>
                puller'[g].cursor <= revs[r] /\ puller'[g].next <= revs[r]
      <3>1. \A r \in Hubs : t.peer = r => t.cursor <= revs[r] /\ t.next <= revs[r]
        BY <2>2, <2>5
      <3> QED
        BY <2>3, <2>4, <3>1, PullerMoves
    <2>7. NumbersTyped' /\ \A g, r \in Hubs : cursor'[g][r] <= revs[r]
      BY <2>2, <2>3 DEF FInv, NumbersTyped, RevsAhead
    <2> QED
      BY <2>3, <2>6, <2>7 DEF FInv, RowsTyped, RevsAhead
  <1> QED
    BY <1>1, <1>2

-----------------------------------------------------------------------------
LEMMA NextF ==
    ASSUME FInv, [Next]_vars
    PROVE  FInv'
  <1>1. CASE UNCHANGED vars
    BY <1>1, StillF DEF vars
  <1>2. ASSUME NEW h \in Hubs, NEW q \in Posts,
               \/ Create(h, q)
               \/ Delete(h, q)
               \/ \E l \in Tongues[h][q] : SetLang(h, q, l)
               \/ \E t \in Times[h] : Translate(h, q, t)
               \/ Fail(h, q)
               \/ StepOver(h, q)
               \/ Retranslate(h, q)
               \/ SettleFor(h, q)
        PROVE  FInv'
    <2>1. CASE Create(h, q) \/ StepOver(h, q) \/ \E l \in Tongues[h][q] : SetLang(h, q, l)
      BY <2>1, StillF DEF Create, StepOver, SetLang
    <2>2. CASE Delete(h, q) \/ Retranslate(h, q)
      BY <2>2, TakenAwayF
    <2>3. CASE \E t \in Times[h] : Translate(h, q, t)
      BY <2>3, TranslateF
    <2>4. CASE Fail(h, q)
      BY <2>4, FailF
    <2>5. CASE SettleFor(h, q)
      BY <2>5, SettleF DEF SettleFor
    <2> QED
      BY <1>2, <2>1, <2>2, <2>3, <2>4, <2>5
  <1>3. ASSUME NEW h \in Hubs, NEW p \in Pulls[h], StartPull(h, p) PROVE FInv'
    BY <1>3, StartPullF
  <1>4. ASSUME NEW h \in Hubs, List(h) \/ Settle(h) \/ Busy(h) \/ Restart(h) PROVE FInv'
    <2>1. CASE List(h)
      BY <2>1, StillF DEF List
    <2>2. CASE Settle(h)
      <3>1. PICK due :
               /\ puller' = [puller EXCEPT ![h] =
                     IF due = {} THEN Idle ELSE [Idle EXCEPT !.mode = "settle", !.page = due]]
               /\ UNCHANGED <<rows, revs, cursor>>
        BY <2>2 DEF Settle
      <3>2. CASE due = {}
        BY <3>1, <3>2, IdleF
      <3>3. CASE due # {}
        BY <3>1, <3>3, SettleF
      <3> QED
        BY <3>2, <3>3
    <2>3. CASE FetchFails(h) \/ SettleDone(h) \/ Restart(h)
      BY <2>3, IdleF DEF FetchFails, SettleDone, Restart
    <2>4. CASE Fetch(h)
      BY <2>4, FetchF
    <2>5. CASE Look(h)
      BY <2>5, LookF
    <2>6. CASE Accept(h)
      BY <2>6, AcceptF
    <2>7. CASE Aside(h) \/ Drop(h)
      BY <2>7, AsideDropF
    <2>8. CASE PageDone(h)
      BY <2>8, PageDoneF
    <2> QED
      BY <1>4, <2>1, <2>2, <2>3, <2>4, <2>5, <2>6, <2>7, <2>8 DEF Busy
  <1> QED
    BY <1>1, <1>2, <1>3, <1>4 DEF Next

\* Every reachable state of any number of hubs and posts keeps revs ahead of
\* rows, cursors and pages in hand.
THEOREM RevsStayAhead == Spec => []RevsAhead
  <1>1. FInv => RevsAhead
    BY DEF FInv
  <1>2. FInv /\ [Next]_vars => FInv'
    BY NextF
  <1> QED
    BY <1>1, <1>2, InitF, PTL DEF Spec

-----------------------------------------------------------------------------
\* No step but a Translate writes a row with a rev.

Unserved == \A p \in Hubs, r \in Posts : rows'[p][r].rev # 0 => rows'[p][r] = rows[p][r]

LEMMA WrittenUnserved ==
    ASSUME FInv, NEW h \in Hubs, NEW q, NEW row, row.rev = 0,
           rows' = [rows EXCEPT ![h] = [@ EXCEPT ![q] = row]]
    PROVE  Unserved
  <1>1. PICK W : rows \in [Hubs -> [Posts -> RowOver(W)]]
    BY DEF FInv, RowsTyped
  <1>2. ASSUME NEW p \in Hubs, NEW r \in Posts, rows'[p][r] # rows[p][r]
        PROVE  rows'[p][r] = row
    BY <1>1, <1>2
  <1> QED
    BY <1>2 DEF Unserved

LEMMA OthersUnserved ==
    ASSUME FInv, [Next]_vars
    PROVE  \/ Unserved
           \/ \E h \in Hubs, q \in Posts : \E t \in Times[h] : Translate(h, q, t)
  <1>1. CASE UNCHANGED rows
    BY <1>1 DEF Unserved
  <1>2. ASSUME NEW h \in Hubs, NEW q \in Posts, Delete(h, q) \/ Retranslate(h, q)
        PROVE  Unserved
    <2>1. rows' = [rows EXCEPT ![h] = [@ EXCEPT ![q] = NoRow]]
      BY <1>2 DEF Delete, Retranslate
    <2>2. NoRow.rev = 0
      BY DEF NoRow
    <2> QED
      BY <2>1, <2>2, WrittenUnserved
  <1>3. ASSUME NEW h \in Hubs, NEW q \in Posts, Fail(h, q), rows' # rows
        PROVE  Unserved
    <2> DEFINE tried == [NoRow EXCEPT !.tries = rows[h][q].tries + 1, !.rev = 0]
    <2>1. rows' = [rows EXCEPT ![h] = [@ EXCEPT ![q] = tried]]
      BY <1>3 DEF Fail, SetTranslation
    <2>2. tried.rev = 0
      BY DEF NoRow
    <2> HIDE DEF tried
    <2> QED
      BY <2>1, <2>2, WrittenUnserved
  <1>4. ASSUME NEW h \in Hubs, Accept(h), rows' # rows
        PROVE  Unserved
    <2> DEFINE o == puller[h].offer
               row == [kept |-> TRUE, tries |-> rows[h][o.post].tries, ts |-> o.ts,
                       origin |-> o.peer, rev |-> 0]
    <2>1. rows' = [rows EXCEPT ![h] = [@ EXCEPT ![o.post] = row]]
      BY <1>4 DEF Accept
    <2>2. row.rev = 0
      OBVIOUS
    <2> HIDE DEF row, o
    <2> QED
      BY <2>1, <2>2, WrittenUnserved
  <1>5. CASE rows' # rows
    <2>1. Next
      BY <1>5 DEF vars
    <2>2. ASSUME NEW h \in Hubs, NEW q \in Posts
          PROVE  /\ ~Create(h, q) /\ ~StepOver(h, q) /\ ~SettleFor(h, q)
                 /\ \A l : ~SetLang(h, q, l)
      BY <1>5 DEF Create, StepOver, SettleFor, SetLang
    <2>3. ASSUME NEW h \in Hubs
          PROVE  /\ ~List(h) /\ ~Settle(h) /\ ~Restart(h)
                 /\ \A p : ~StartPull(h, p)
      BY <1>5 DEF List, Settle, Restart, StartPull
    <2>4. ASSUME NEW h \in Hubs, Busy(h) PROVE Accept(h)
      BY <1>5, <2>4 DEF Busy, FetchFails, Fetch, Look, Aside, Drop, PageDone, SettleDone
    <2> QED
      BY <1>2, <1>3, <1>4, <1>5, <2>1, <2>2, <2>3, <2>4 DEF Next
  <1> QED
    BY <1>1, <1>5

\* A translation made, or made again, is past every cursor and every page in
\* hand: no peer steps over it.
THEOREM RedoneIsFresh == Spec => FreshForPeers
  <1> DEFINE Fresh ==
        \A p \in Hubs, q \in Posts :
            rows'[p][q].rev # 0 /\ rows'[p][q] # rows[p][q] =>
                \A h \in Hubs : /\ cursor[h][p] < rows'[p][q].rev
                                /\ puller[h].peer = p =>
                                      puller[h].cursor < rows'[p][q].rev
                                      /\ puller[h].next < rows'[p][q].rev
  <1>1. ASSUME FInv, [Next]_vars PROVE Fresh
    <2>1. CASE Unserved
      BY <2>1 DEF Unserved
    <2>2. ASSUME NEW g \in Hubs, NEW r \in Posts, NEW t \in Times[g], Translate(g, r, t)
          PROVE  Fresh
      <3>1. PICK V, written :
               /\ written \in RowOver(V) /\ written.rev = revs[g] + 1
               /\ rows' = IF r \in here[g]
                          THEN [rows EXCEPT ![g] = [@ EXCEPT ![r] = written]] ELSE rows
        BY <1>1, <2>2, TranslateWrites
      <3>2. ASSUME NEW p \in Hubs, NEW q \in Posts, rows'[p][q] # rows[p][q]
            PROVE  p = g /\ rows'[p][q].rev = revs[p] + 1
        BY <1>1, <3>1, <3>2 DEF FInv, RowsTyped
      <3>3. \A h, p \in Hubs : cursor[h][p] < revs[p] + 1
        BY <1>1 DEF FInv, RevsAhead, NumbersTyped
      <3>4. ASSUME NEW h \in Hubs, NEW p \in Hubs, puller[h].peer = p
            PROVE  puller[h].cursor < revs[p] + 1 /\ puller[h].next < revs[p] + 1
        <4>1. puller[h].cursor \in Nat /\ puller[h].next \in Nat /\ revs[p] \in Nat
          BY <1>1 DEF FInv, PullerTyped, NumbersTyped, PullerOver, PullerRecord
        <4>2. puller[h].cursor <= revs[p] /\ puller[h].next <= revs[p]
          BY <1>1, <3>4 DEF FInv, RevsAhead
        <4> QED
          BY <4>1, <4>2
      <3> QED
        BY <3>2, <3>3, <3>4
    <2> QED
      BY <1>1, <2>1, <2>2, OthersUnserved
  <1>2. FInv /\ [Next]_vars => FInv'
    BY NextF
  <1>3. FInv /\ [Next]_vars => [Fresh]_vars
    BY <1>1
  <1> QED
    BY <1>2, <1>3, InitF, PTL DEF Spec, FreshForPeers

-----------------------------------------------------------------------------
(* Who made what, and the types.                                           *)

\* An offer h may have from one of its peers.
Good(h, o) == o \in Offer /\ o.peer \in Pulls[h] /\ o.ts \in Times[o.peer]

\* A row of h is of its own making, or of one of its peers'.
GoodRow(h, row) ==
    /\ row \in Row
    /\ row.kept = TRUE /\ row.origin = Local => row.ts \in Times[h]
    /\ row.origin # Local => row.origin \in Pulls[h] /\ row.ts \in Times[row.origin]

GoodPuller(h, s) ==
    /\ s \in Puller
    /\ \A o \in s.page : Good(h, o)
    /\ s.mode \in {"fetch", "pull"} => s.peer \in Pulls[h]
    /\ s.pc # "next" => Good(h, s.offer)

GoodQueue(h, queue) == queue \in Seq(Offer) /\ \A i \in DOMAIN queue : Good(h, queue[i])

RowsInv == rows \in [Hubs -> [Posts -> Row]] /\ \A h \in Hubs, q \in Posts : GoodRow(h, rows[h][q])
PullersInv == puller \in [Hubs -> Puller] /\ \A h \in Hubs : GoodPuller(h, puller[h])
WaitInv == waiting \in [Hubs -> Seq(Offer)] /\ \A h \in Hubs : GoodQueue(h, waiting[h])

\* What is listed has a try left, and only a translator lists.
WorkInv ==
    /\ work \in [Hubs -> SUBSET Posts]
    /\ \A h \in Hubs, q \in Posts : q \in work[h] => h \in Translators /\ rows[h][q].tries < MaxTries

RestInv ==
    /\ here \in [Hubs -> SUBSET Posts] /\ gone \in [Hubs -> SUBSET Posts]
    /\ tongue \in [Hubs -> [Posts -> {"", "own", "other"}]]
    /\ revs \in [Hubs -> Nat] /\ cursor \in [Hubs -> [Hubs -> Nat]]
    /\ clock \in [Hubs -> Nat]

TInv == RowsInv /\ PullersInv /\ WaitInv /\ WorkInv /\ RestInv

LEMMA TimesNat == \A h \in Hubs : Times[h] \subseteq Nat
  BY TimesAssumption

LEMMA PullsHubs == \A h \in Hubs : Pulls[h] \subseteq Hubs
  BY PullsAssumption

LEMMA NoRowGood == ASSUME NEW h \in Hubs PROVE GoodRow(h, NoRow) /\ NoRow.tries = 0
  <1>1. MaxTries \in Nat
    BY LimitsAssumption
  <1>2. NoRow.kept = FALSE /\ NoRow.origin = Local /\ NoRow.tries = 0
    BY DEF NoRow
  <1>3. NoRow \in Row
    BY <1>1 DEF NoRow, Row
  <1> QED
    BY <1>2, <1>3 DEF GoodRow

LEMMA IdleGood == \A h \in Hubs : GoodPuller(h, Idle)
  <1>1. Idle \in Puller
    BY DEF Idle, Puller
  <1>2. Idle.mode = "idle" /\ Idle.pc = "next" /\ Idle.page = {}
    BY DEF Idle
  <1> QED
    BY <1>1, <1>2 DEF GoodPuller

LEMMA InitT == Init => TInv
  <1> SUFFICES ASSUME Init PROVE TInv
    OBVIOUS
  <1>1. RowsInv
    <2>1. \A h \in Hubs : GoodRow(h, NoRow)
      BY NoRowGood
    <2>2. \A h \in Hubs, q \in Posts : rows[h][q] = NoRow
      BY DEF Init
    <2>3. rows \in [Hubs -> [Posts -> Row]]
      <3>1. CASE Hubs = {}
        BY <3>1 DEF Init
      <3>2. CASE Hubs # {}
        <4>1. NoRow \in Row
          BY <2>1, <3>2 DEF GoodRow
        <4> QED
          BY <4>1 DEF Init
      <3> QED
        BY <3>1, <3>2
    <2> QED
      BY <2>1, <2>2, <2>3 DEF RowsInv
  <1>2. PullersInv
    <2>1. Idle \in Puller
      BY DEF Idle, Puller
    <2> QED
      BY <2>1, IdleGood DEF Init, PullersInv
  <1>3. WaitInv
    <2>1. \A h \in Hubs : waiting[h] = <<>>
      BY DEF Init
    <2>2. <<>> \in Seq(Offer) /\ ~ \E i : i \in DOMAIN <<>>
      OBVIOUS
    <2>3. \A h \in Hubs : GoodQueue(h, <<>>)
      BY <2>2 DEF GoodQueue
    <2>4. waiting \in [Hubs -> Seq(Offer)]
      BY <2>2 DEF Init
    <2> QED
      BY <2>1, <2>3, <2>4 DEF WaitInv
  <1>4. WorkInv /\ RestInv
    BY DEF Init, WorkInv, RestInv
  <1> QED
    BY <1>1, <1>2, <1>3, <1>4 DEF TInv

-----------------------------------------------------------------------------
(* ... what each part of the state needs of a step.                        *)

\* A row is written, with a good one, and no listed post of the hub gets a try more.
LEMMA WrittenT ==
    ASSUME TInv, NEW h \in Hubs, NEW q \in Posts, NEW row, GoodRow(h, row),
           rows' = [rows EXCEPT ![h] = [@ EXCEPT ![q] = row]],
           work' \in [Hubs -> SUBSET Posts], \A g \in Hubs : work'[g] \subseteq work[g],
           q \in work'[h] => row.tries < MaxTries
    PROVE  RowsInv' /\ WorkInv'
  <1>1. rows \in [Hubs -> [Posts -> Row]] /\ row \in Row
    BY DEF TInv, RowsInv, GoodRow
  <1>2. rows' \in [Hubs -> [Posts -> Row]]
    BY <1>1
  <1>3. rows'[h][q] = row
    BY <1>1
  <1>4. ASSUME NEW g \in Hubs, NEW r \in Posts, ~ (g = h /\ r = q) PROVE rows'[g][r] = rows[g][r]
    BY <1>1, <1>4
  <1>5. RowsInv'
    BY <1>2, <1>3, <1>4 DEF TInv, RowsInv, GoodRow
  <1>6. ASSUME NEW g \in Hubs, NEW r \in Posts, r \in work'[g]
        PROVE  g \in Translators /\ rows'[g][r].tries < MaxTries
    <2>1. g \in Translators /\ rows[g][r].tries < MaxTries
      BY <1>6 DEF TInv, WorkInv
    <2> QED
      BY <1>3, <1>4, <1>6, <2>1
  <1> QED
    BY <1>5, <1>6 DEF WorkInv

LEMMA SameRowsT ==
    ASSUME TInv, rows' = rows, work' \in [Hubs -> SUBSET Posts], \A g \in Hubs : work'[g] \subseteq work[g]
    PROVE  RowsInv' /\ WorkInv'
  BY DEF TInv, RowsInv, WorkInv, GoodRow

LEMMA PullerT ==
    ASSUME TInv, NEW h \in Hubs, NEW s, GoodPuller(h, s), puller' = [puller EXCEPT ![h] = s]
    PROVE  PullersInv'
  <1>1. puller \in [Hubs -> Puller] /\ s \in Puller
    BY DEF TInv, PullersInv, GoodPuller
  <1>2. puller' \in [Hubs -> Puller]
    BY <1>1
  <1>3. \A g \in Hubs : puller'[g] = IF g = h THEN s ELSE puller[g]
    BY <1>1
  <1> QED
    BY <1>2, <1>3 DEF TInv, PullersInv

LEMMA QueueT ==
    ASSUME TInv, NEW h \in Hubs, NEW queue, GoodQueue(h, queue), waiting' = [waiting EXCEPT ![h] = queue]
    PROVE  WaitInv'
  <1>1. waiting \in [Hubs -> Seq(Offer)] /\ queue \in Seq(Offer)
    BY DEF TInv, WaitInv, GoodQueue
  <1>2. waiting' \in [Hubs -> Seq(Offer)]
    BY <1>1
  <1>3. \A g \in Hubs : waiting'[g] = IF g = h THEN queue ELSE waiting[g]
    BY <1>1
  <1> QED
    BY <1>2, <1>3 DEF TInv, WaitInv

\* Parts that do not change.
LEMMA KeptT ==
    ASSUME TInv
    PROVE  /\ UNCHANGED puller => PullersInv'
           /\ UNCHANGED waiting => WaitInv'
           /\ UNCHANGED <<rows, work>> => RowsInv' /\ WorkInv'
           /\ UNCHANGED <<here, gone, tongue, revs, cursor, clock>> => RestInv'
  BY DEF TInv, PullersInv, WaitInv, RowsInv, WorkInv, RestInv, GoodPuller, GoodQueue, GoodRow

LEMMA PickedGood ==
    ASSUME NEW h \in Hubs, NEW queue, GoodQueue(h, queue), NEW K, K \subseteq DOMAIN queue
    PROVE  GoodQueue(h, Picked(queue, K))
  <1>1. /\ Picked(queue, K) \in Seq(Offer)
        /\ \A n \in DOMAIN Picked(queue, K) : \E i \in K : Picked(queue, K)[n] = queue[i]
    BY PickedOf DEF GoodQueue
  <1> QED
    BY <1>1 DEF GoodQueue

LEMMA AsideGood ==
    ASSUME NEW h \in Hubs, NEW queue, GoodQueue(h, queue), NEW o, Good(h, o)
    PROVE  GoodQueue(h, SetAside(queue, o))
  <1> DEFINE laid == IF \E i \in DOMAIN queue : SameKey(queue[i], o)
                     THEN [i \in DOMAIN queue |->
                              IF SameKey(queue[i], o) /\ o.ts > queue[i].ts THEN o ELSE queue[i]]
                     ELSE Append(queue, o)
  <1>1. queue \in Seq(Offer) /\ o \in Offer /\ Len(queue) \in Nat /\ DOMAIN queue = 1 .. Len(queue)
    BY DEF GoodQueue, Good
  <1>2. GoodQueue(h, laid)
    <2>1. CASE \E i \in DOMAIN queue : SameKey(queue[i], o)
      <3> DEFINE new == [i \in DOMAIN queue |->
                            IF SameKey(queue[i], o) /\ o.ts > queue[i].ts THEN o ELSE queue[i]]
      <3>1. DOMAIN new = DOMAIN queue /\ \A i \in DOMAIN queue : new[i] \in {o, queue[i]}
        OBVIOUS
      <3>2. new = [i \in 1 .. Len(queue) |-> new[i]]
        BY <1>1, <3>1
      <3> HIDE DEF new
      <3>3. \A i \in 1 .. Len(queue) : new[i] \in Offer
        BY <1>1, <3>1
      <3>4. new \in Seq(Offer)
        BY <1>1, <3>1, <3>2, <3>3
      <3>5. laid = new
        BY <2>1 DEF new
      <3> QED
        BY <3>1, <3>4, <3>5 DEF GoodQueue
    <2>2. CASE ~ \E i \in DOMAIN queue : SameKey(queue[i], o)
      <3>1. laid = Append(queue, o)
        BY <2>2
      <3>2. laid \in Seq(Offer) /\ \A i \in DOMAIN laid : laid[i] = o \/ (i \in DOMAIN queue /\ laid[i] = queue[i])
        <4> HIDE DEF laid
        <4> QED
          BY <1>1, <3>1
      <3> HIDE DEF laid
      <3> QED
        BY <3>2 DEF GoodQueue
    <2> QED
      BY <2>1, <2>2
  <1>3. SetAside(queue, o) = Capped(laid, o.peer)
    BY DEF SetAside
  <1> HIDE DEF laid
  <1> DEFINE K == {i \in DOMAIN laid :
                      laid[i].peer = o.peer =>
                          Cardinality({j \in DOMAIN laid : j > i /\ laid[j].peer = o.peer}) < PendingMax}
  <1>4. Capped(laid, o.peer) = Picked(laid, K) /\ K \subseteq DOMAIN laid
    BY DEF Capped
  <1> HIDE DEF K
  <1> QED
    BY <1>2, <1>3, <1>4, PickedGood

-----------------------------------------------------------------------------
(* ... each action.                                                        *)

LEMMA DeskT ==
    ASSUME TInv, NEW h \in Hubs, NEW q \in Posts
    PROVE  /\ Create(h, q) => TInv'
           /\ \A l \in Tongues[h][q] : SetLang(h, q, l) => TInv'
           /\ StepOver(h, q) => TInv'
           /\ List(h) => TInv'
  <1>0. RestInv /\ work \in [Hubs -> SUBSET Posts]
    BY DEF TInv, WorkInv
  <1>1. ASSUME Create(h, q) PROVE TInv'
    <2>1. RestInv'
      BY <1>0, <1>1 DEF Create, RestInv
    <2> QED
      BY <1>1, <2>1, KeptT DEF Create, TInv
  <1>2. ASSUME NEW l \in Tongues[h][q], SetLang(h, q, l) PROVE TInv'
    <2>1. l \in {"own", "other"}
      BY <1>2, TonguesAssumption
    <2>2. RestInv'
      BY <1>0, <1>2, <2>1 DEF SetLang, RestInv
    <2> QED
      BY <1>2, <2>2, KeptT DEF SetLang, TInv
  <1>3. ASSUME StepOver(h, q) PROVE TInv'
    <2>1. work' \in [Hubs -> SUBSET Posts] /\ \A g \in Hubs : work'[g] \subseteq work[g]
      BY <1>0, <1>3 DEF StepOver
    <2>2. RowsInv' /\ WorkInv'
      BY <1>3, <2>1, SameRowsT DEF StepOver
    <2> QED
      BY <1>3, <2>2, KeptT DEF StepOver, TInv
  <1>4. ASSUME List(h) PROVE TInv'
    <2>1. h \in Translators /\ work' = [work EXCEPT ![h] = Owed(h)] /\ rows' = rows
      BY <1>4 DEF List
    <2>2. Owed(h) \subseteq Posts /\ \A r \in Owed(h) : rows[h][r].tries < MaxTries
      BY <1>0 DEF Owed, RestInv
    <2> HIDE <1>4
    <2>3. work' \in [Hubs -> SUBSET Posts] /\ work'[h] = Owed(h)
          /\ \A g \in Hubs : g # h => work'[g] = work[g]
      BY <1>0, <2>1, <2>2
    <2>4. WorkInv'
      BY <2>1, <2>2, <2>3 DEF TInv, WorkInv
    <2>5. RowsInv'
      BY <2>1 DEF TInv, RowsInv, GoodRow
    <2>6. PullersInv' /\ WaitInv' /\ RestInv'
      BY <1>4, KeptT DEF List
    <2> QED
      BY <2>4, <2>5, <2>6 DEF TInv
  <1> QED
    BY <1>1, <1>2, <1>3, <1>4

LEMMA TakenAwayT ==
    ASSUME TInv, NEW h \in Hubs, NEW q \in Posts,
           Delete(h, q) \/ Retranslate(h, q)
    PROVE  TInv'
  <1>1. rows' = [rows EXCEPT ![h] = [@ EXCEPT ![q] = NoRow]] /\ UNCHANGED <<waiting, puller, work>>
    BY DEF Delete, Retranslate
  <1>2. MaxTries \in Nat /\ MaxTries > 0
    BY LimitsAssumption
  <1>3. RowsInv' /\ WorkInv'
    <2>1. GoodRow(h, NoRow) /\ NoRow.tries < MaxTries
      BY <1>2, NoRowGood
    <2>2. work' \in [Hubs -> SUBSET Posts] /\ \A g \in Hubs : work'[g] \subseteq work[g]
      BY <1>1 DEF TInv, WorkInv
    <2> QED
      BY <1>1, <2>1, <2>2, WrittenT
  <1>4. RestInv'
    <2>1. CASE Delete(h, q)
      <3>1. here' \in [Hubs -> SUBSET Posts] /\ gone' \in [Hubs -> SUBSET Posts]
        BY <2>1 DEF Delete, TInv, RestInv
      <3>2. tongue' \in [Hubs -> [Posts -> {"", "own", "other"}]]
        BY <2>1 DEF Delete, TInv, RestInv
      <3> QED
        BY <2>1, <3>1, <3>2 DEF Delete, TInv, RestInv
    <2>2. CASE Retranslate(h, q)
      BY <2>2, KeptT DEF Retranslate
    <2> QED
      BY <2>1, <2>2
  <1> QED
    BY <1>1, <1>3, <1>4, KeptT DEF TInv

\* An answer of the model, of use or none.
LEMMA AnsweredT ==
    ASSUME TInv, NEW h \in Hubs, NEW q \in Posts, q \in work[h], NEW row, NEW rev \in Nat,
           row \in Row, row.origin = Local, row.kept = TRUE => row.ts \in Times[h],
           SetTranslation(h, q, row, rev)
    PROVE  RowsInv' /\ WorkInv' /\ revs' \in [Hubs -> Nat]
  <1>1. rows[h][q] \in Row /\ rows[h][q].tries < MaxTries /\ revs \in [Hubs -> Nat]
    BY DEF TInv, RowsInv, WorkInv, RestInv
  <1>2. PICK written : written = [row EXCEPT !.tries = rows[h][q].tries + 1, !.rev = rev]
    OBVIOUS
  <1>3. PICK n : n = rows[h][q].tries + 1
    OBVIOUS
  <1>4. n \in 0 .. MaxTries
    <2>1. rows[h][q].tries \in 0 .. MaxTries /\ MaxTries \in Nat
      BY <1>1, LimitsAssumption DEF Row
    <2> QED
      BY <1>1, <1>3, <2>1
  <1>5. written \in Row /\ written.origin = Local /\ written.kept = row.kept /\ written.ts = row.ts
    <2>1. written = [row EXCEPT !.tries = n, !.rev = rev]
      BY <1>2, <1>3
    <2> QED
      BY <2>1, <1>4 DEF Row
  <1>6. GoodRow(h, written)
    BY <1>5 DEF GoodRow
  <1>7. work' = [work EXCEPT ![h] = @ \ {q}]
    BY DEF SetTranslation
  <1>8. /\ work' \in [Hubs -> SUBSET Posts] /\ \A g \in Hubs : work'[g] \subseteq work[g]
        /\ q \notin work'[h]
    BY <1>7 DEF TInv, WorkInv
  <1>9. rows' = IF q \in here[h] THEN [rows EXCEPT ![h] = [@ EXCEPT ![q] = written]] ELSE rows
    BY <1>2 DEF SetTranslation
  <1>10. RowsInv' /\ WorkInv'
    <2>1. CASE q \in here[h]
      BY <2>1, <1>6, <1>8, <1>9, WrittenT
    <2>2. CASE q \notin here[h]
      BY <2>2, <1>8, <1>9, SameRowsT
    <2> QED
      BY <2>1, <2>2
  <1>11. revs' \in [Hubs -> Nat]
    BY <1>1 DEF SetTranslation
  <1> QED
    BY <1>10, <1>11

LEMMA TranslatorT ==
    ASSUME TInv, NEW h \in Hubs, NEW q \in Posts
    PROVE  /\ \A t \in Times[h] : Translate(h, q, t) => TInv'
           /\ Fail(h, q) => TInv'
  <1>1. ASSUME NEW t \in Times[h], Translate(h, q, t) PROVE TInv'
    <2>1. PICK row : row = [NoRow EXCEPT !.kept = TRUE, !.ts = t]
      OBVIOUS
    <2>2. t \in Nat
      BY TimesNat
    <2>3. row \in Row /\ row.origin = Local /\ row.ts = t
      <3>1. NoRow \in Row /\ NoRow.origin = Local
        BY NoRowGood DEF GoodRow, NoRow
      <3> QED
        BY <2>1, <2>2, <3>1 DEF Row
    <2>4. NextRev(h) \in Nat
      <3>1. revs \in [Hubs -> Nat]
        BY DEF TInv, RestInv
      <3> QED
        BY <3>1 DEF NextRev
    <2>5. q \in work[h] /\ SetTranslation(h, q, row, NextRev(h))
      BY <1>1, <2>1 DEF Translate
    <2>6. RowsInv' /\ WorkInv' /\ revs' \in [Hubs -> Nat]
      BY <2>3, <2>4, <2>5, AnsweredT
    <2>7. RestInv'
      BY <1>1, <2>2, <2>6 DEF Translate, TInv, RestInv
    <2> QED
      BY <1>1, <2>6, <2>7, KeptT DEF Translate, TInv
  <1>2. ASSUME Fail(h, q) PROVE TInv'
    <2>1. NoRow \in Row /\ NoRow.origin = Local /\ NoRow.kept = FALSE
      BY NoRowGood DEF GoodRow, NoRow
    <2>2. q \in work[h] /\ SetTranslation(h, q, NoRow, 0)
      BY <1>2 DEF Fail
    <2>3. RowsInv' /\ WorkInv' /\ revs' \in [Hubs -> Nat]
      BY <2>1, <2>2, AnsweredT
    <2>4. RestInv'
      BY <1>2, <2>3 DEF Fail, TInv, RestInv
    <2> QED
      BY <1>2, <2>3, <2>4, KeptT DEF Fail, TInv
  <1> QED
    BY <1>1, <1>2

\* The puller goes on and nothing else moves.
LEMMA StepsT ==
    ASSUME TInv, NEW h \in Hubs, NEW s, GoodPuller(h, s), puller' = [puller EXCEPT ![h] = s],
           UNCHANGED <<here, gone, tongue, rows, revs, waiting, cursor, work, clock>>
    PROVE  TInv'
  <1>1. PullersInv'
    BY PullerT
  <1> QED
    BY <1>1, KeptT DEF TInv

LEMMA RoundT ==
    ASSUME TInv, NEW h \in Hubs
    PROVE  /\ \A p \in Pulls[h] : StartPull(h, p) => TInv'
           /\ FetchFails(h) => TInv'
           /\ SettleDone(h) => TInv'
           /\ PageDone(h) => TInv'
           /\ Restart(h) => TInv'
  <1>1. Idle \in Puller /\ Idle.pc = "next" /\ Idle.page = {} /\ GoodPuller(h, Idle)
    BY IdleGood DEF Idle, GoodPuller
  <1>2. cursor \in [Hubs -> [Hubs -> Nat]] /\ puller[h] \in Puller /\ GoodPuller(h, puller[h])
    BY DEF TInv, RestInv, PullersInv
  <1>3. ASSUME NEW p \in Pulls[h], NEW n \in Nat
        PROVE  GoodPuller(h, [Idle EXCEPT !.mode = "fetch", !.peer = p, !.cursor = n])
    <2>1. PICK s : s = [Idle EXCEPT !.mode = "fetch", !.peer = p, !.cursor = n]
      OBVIOUS
    <2>2. p \in Hubs
      BY PullsHubs
    <2>3. s \in Puller /\ s.pc = "next" /\ s.page = {} /\ s.peer = p
      BY <1>1, <2>1, <2>2 DEF Puller
    <2>4. GoodPuller(h, s)
      BY <2>3 DEF GoodPuller
    <2> QED
      BY <2>1, <2>4
  <1>4. ASSUME NEW p \in Pulls[h], StartPull(h, p) PROVE TInv'
    <2>1. cursor[h][p] \in Nat
      BY <1>2, PullsHubs
    <2> QED
      BY <1>3, <1>4, <2>1, StepsT DEF StartPull
  <1>5. ASSUME FetchFails(h) \/ SettleDone(h) PROVE TInv'
    BY <1>1, <1>5, StepsT DEF FetchFails, SettleDone
  <1>6. ASSUME PageDone(h) PROVE TInv'
    <2>1. puller[h].mode = "pull" /\ puller[h].peer \in Pulls[h] /\ puller[h].next \in Nat
      BY <1>2, <1>6 DEF PageDone, GoodPuller, Puller
    <2>2. CASE puller[h].next <= puller[h].cursor
      BY <1>1, <1>6, <2>2, StepsT DEF PageDone
    <2>3. CASE ~ (puller[h].next <= puller[h].cursor)
      <3>1. PICK s : s = [Idle EXCEPT !.mode = "fetch", !.peer = puller[h].peer, !.cursor = puller[h].next]
        OBVIOUS
      <3>2. puller' = [puller EXCEPT ![h] = s] /\ GoodPuller(h, s)
        BY <1>3, <1>6, <2>1, <2>3, <3>1 DEF PageDone
      <3>3. PullersInv'
        BY <3>2, PullerT
      <3>4. cursor' = [cursor EXCEPT ![h] = [@ EXCEPT ![puller[h].peer] = puller[h].next]]
        BY <1>6, <2>3 DEF PageDone
      <3>5. cursor' \in [Hubs -> [Hubs -> Nat]]
        BY <1>2, <2>1, <3>4
      <3>6. RestInv'
        BY <1>6, <3>5 DEF PageDone, TInv, RestInv
      <3> QED
        BY <1>6, <3>3, <3>6, KeptT DEF PageDone, TInv
    <2> QED
      BY <2>2, <2>3
  <1>7. ASSUME Restart(h) PROVE TInv'
    <2>1. work' = [work EXCEPT ![h] = {}] /\ rows' = rows /\ puller' = [puller EXCEPT ![h] = Idle]
      BY <1>7 DEF Restart
    <2>2. work' \in [Hubs -> SUBSET Posts] /\ \A g \in Hubs : work'[g] \subseteq work[g]
      BY <2>1 DEF TInv, WorkInv
    <2>3. RowsInv' /\ WorkInv'
      BY <2>1, <2>2, SameRowsT
    <2>4. PullersInv'
      BY <1>1, <2>1, PullerT
    <2> QED
      BY <1>7, <2>3, <2>4, KeptT DEF Restart, TInv
  <1> QED
    BY <1>4, <1>5, <1>6, <1>7

\* What a peer serves it made itself.
LEMMA ServedGood ==
    ASSUME TInv, NEW h \in Hubs, NEW p \in Pulls[h], NEW n, NEW o \in PageOf(p, n)
    PROVE  Good(h, o)
  <1>1. p \in Hubs
    BY PullsHubs
  <1>2. PICK q \in Posts : /\ rows[p][q].kept /\ rows[p][q].origin = Local
                           /\ o = [peer |-> p, post |-> q, ts |-> rows[p][q].ts, rev |-> rows[p][q].rev]
    BY DEF PageOf, After, Mine
  <1>3. rows[p][q] \in Row /\ GoodRow(p, rows[p][q])
    BY <1>1 DEF TInv, RowsInv
  <1>4. rows[p][q].kept \in BOOLEAN
    BY <1>3 DEF Row
  <1>5. rows[p][q].ts \in Times[p]
    BY <1>2, <1>3, <1>4 DEF GoodRow
  <1>6. rows[p][q].ts \in Nat /\ rows[p][q].rev \in Nat
    BY <1>3 DEF Row
  <1> QED
    BY <1>1, <1>2, <1>5, <1>6 DEF Good, Offer

LEMMA FetchT ==
    ASSUME TInv, NEW h \in Hubs, Fetch(h)
    PROVE  TInv'
  <1>1. puller[h] \in Puller /\ puller[h].mode = "fetch" /\ GoodPuller(h, puller[h])
    BY DEF TInv, PullersInv, Fetch
  <1>2. PICK page : page = PageOf(puller[h].peer, puller[h].cursor)
    OBVIOUS
  <1>3. puller[h].peer \in Pulls[h]
    BY <1>1 DEF GoodPuller
  <1>4. \A o \in page : Good(h, o)
    BY <1>2, <1>3, ServedGood
  <1>5. PICK n \in {puller[h].cursor} \cup {o.rev : o \in page} :
           puller' = [puller EXCEPT ![h] = [@ EXCEPT !.mode = "pull", !.page = page, !.next = n]]
    BY <1>2 DEF Fetch
  <1>6. n \in Nat
    BY <1>1, <1>4, <1>5 DEF Good, Offer, Puller
  <1>7. PICK s : s = [puller[h] EXCEPT !.mode = "pull", !.page = page, !.next = n]
    OBVIOUS
  <1>8. page \in SUBSET Offer
    BY <1>4 DEF Good
  <1> HIDE <1>2
  <1>9. /\ s \in Puller /\ s.page = page /\ s.peer = puller[h].peer /\ s.pc = puller[h].pc
        /\ s.offer = puller[h].offer
    BY <1>1, <1>6, <1>7, <1>8 DEF Puller
  <1>10. GoodPuller(h, s)
    BY <1>1, <1>3, <1>4, <1>9 DEF GoodPuller
  <1>11. puller' = [puller EXCEPT ![h] = s]
    BY <1>5, <1>7
  <1> QED
    BY <1>10, <1>11, StepsT DEF Fetch

\* The waiting entries that are due come from the hub's peers.
LEMMA DueGood ==
    ASSUME NEW h \in Hubs, NEW due, \A o \in due : Good(h, o)
    PROVE  GoodPuller(h, [Idle EXCEPT !.mode = "settle", !.page = due])
  <1>1. PICK s : s = [Idle EXCEPT !.mode = "settle", !.page = due]
    OBVIOUS
  <1>2. Idle \in Puller /\ Idle.pc = "next"
    BY IdleGood DEF Idle, GoodPuller
  <1>3. due \in SUBSET Offer
    BY DEF Good
  <1>4. s \in Puller /\ s.mode = "settle" /\ s.pc = "next" /\ s.page = due
    BY <1>1, <1>2, <1>3 DEF Puller
  <1>5. GoodPuller(h, s)
    BY <1>4 DEF GoodPuller
  <1> QED
    BY <1>1, <1>5

LEMMA SettleT ==
    ASSUME TInv, NEW h \in Hubs
    PROVE  /\ Settle(h) => TInv'
           /\ \A q \in Posts : SettleFor(h, q) => TInv'
  <1>1. GoodQueue(h, waiting[h])
    BY DEF TInv, WaitInv
  <1>2. ASSUME NEW q \in Posts, SettleFor(h, q) PROVE TInv'
    <2>1. PICK due : /\ \A o \in due : \E i \in DOMAIN waiting[h] : o = waiting[h][i]
                     /\ puller' = [puller EXCEPT ![h] = [Idle EXCEPT !.mode = "settle", !.page = due]]
      BY <1>2 DEF SettleFor
    <2>2. \A o \in due : Good(h, o)
      BY <1>1, <2>1 DEF GoodQueue
    <2>3. GoodPuller(h, [Idle EXCEPT !.mode = "settle", !.page = due])
      BY <2>2, DueGood
    <2> QED
      BY <1>2, <2>1, <2>3, StepsT DEF SettleFor
  <1>3. ASSUME Settle(h) PROVE TInv'
    <2>1. PICK left, due, s, K :
             /\ K \subseteq DOMAIN waiting[h] /\ left = Picked(waiting[h], K)
             /\ \A o \in due : \E i \in DOMAIN left : o = left[i]
             /\ waiting' = [waiting EXCEPT ![h] = left]
             /\ puller' = [puller EXCEPT ![h] = s]
             /\ s = IF due = {} THEN Idle ELSE [Idle EXCEPT !.mode = "settle", !.page = due]
      <3>1. PICK old \in SUBSET Lapsing :
               LET left == Picked(waiting[h], {i \in DOMAIN waiting[h] : waiting[h][i].post \notin old})
                   due == {left[i] : i \in {i \in DOMAIN left : left[i].post \in here[h]}}
               IN  /\ waiting' = [waiting EXCEPT ![h] = left]
                   /\ puller' = [puller EXCEPT ![h] =
                         IF due = {} THEN Idle ELSE [Idle EXCEPT !.mode = "settle", !.page = due]]
        BY <1>3 DEF Settle
      <3>2. PICK K : K = {i \in DOMAIN waiting[h] : waiting[h][i].post \notin old}
        OBVIOUS
      <3>3. PICK left : left = Picked(waiting[h], K)
        OBVIOUS
      <3>4. PICK due : due = {left[i] : i \in {i \in DOMAIN left : left[i].post \in here[h]}}
        OBVIOUS
      <3>5. PICK s : s = IF due = {} THEN Idle ELSE [Idle EXCEPT !.mode = "settle", !.page = due]
        OBVIOUS
      <3>6. waiting' = [waiting EXCEPT ![h] = left] /\ puller' = [puller EXCEPT ![h] = s]
        BY <3>1, <3>2, <3>3, <3>4, <3>5
      <3>7. K \subseteq DOMAIN waiting[h] /\ \A o \in due : \E i \in DOMAIN left : o = left[i]
        BY <3>2, <3>4
      <3> QED
        BY <3>3, <3>5, <3>6, <3>7
    <2>2. GoodQueue(h, left)
      BY <1>1, <2>1, PickedGood
    <2>3. \A o \in due : Good(h, o)
      BY <2>1, <2>2 DEF GoodQueue
    <2>4. GoodPuller(h, s)
      BY <2>1, <2>3, DueGood, IdleGood
    <2>5. WaitInv' /\ PullersInv'
      BY <2>1, <2>2, <2>4, QueueT, PullerT
    <2> QED
      BY <1>3, <2>5, KeptT DEF Settle, TInv
  <1> QED
    BY <1>2, <1>3

\* The offer in hand is done with, or is to be dropped: either way the rest is good.
LEMMA DecidedGood ==
    ASSUME NEW h \in Hubs, NEW s, GoodPuller(h, s)
    PROVE  /\ GoodPuller(h, Done(s))
           /\ Good(h, s.offer) => GoodPuller(h, Decided(s))
  <1>1. s \in Puller
    BY DEF GoodPuller
  <1>2. GoodPuller(h, Done(s))
    <2>1. PICK u : u = [s EXCEPT !.pc = "next", !.page = s.page \ {s.offer}, !.offer = Local]
      OBVIOUS
    <2>2. /\ u \in Puller /\ u.pc = "next" /\ u.page \subseteq s.page /\ u.mode = s.mode
          /\ u.peer = s.peer
      BY <1>1, <2>1 DEF Puller
    <2>3. GoodPuller(h, u)
      BY <2>2 DEF GoodPuller
    <2> QED
      BY <2>1, <2>3 DEF Done
  <1>3. ASSUME Good(h, s.offer) PROVE GoodPuller(h, Decided(s))
    <2>1. CASE s.mode = "settle"
      <3>1. PICK u : u = [s EXCEPT !.pc = "drop"]
        OBVIOUS
      <3>2. /\ u \in Puller /\ u.pc = "drop" /\ u.page = s.page /\ u.mode = s.mode
            /\ u.peer = s.peer /\ u.offer = s.offer
        BY <1>1, <3>1 DEF Puller
      <3>3. GoodPuller(h, u)
        BY <1>3, <3>2 DEF GoodPuller
      <3> QED
        BY <2>1, <3>1, <3>3 DEF Decided
    <2>2. CASE s.mode # "settle"
      BY <1>2, <2>2 DEF Decided
    <2> QED
      BY <2>1, <2>2
  <1> QED
    BY <1>2, <1>3

LEMMA LookT ==
    ASSUME TInv, NEW h \in Hubs, Look(h)
    PROVE  TInv'
  <1>1. puller[h] \in Puller /\ GoodPuller(h, puller[h])
    BY DEF TInv, PullersInv
  <1>2. PICK o, s, u :
           /\ o \in puller[h].page /\ s = [puller[h] EXCEPT !.offer = o]
           /\ u \in {[s EXCEPT !.pc = "aside"], Decided(s), [s EXCEPT !.pc = "keep"]}
           /\ puller' = [puller EXCEPT ![h] = u]
    BY DEF Look
  <1>3. Good(h, o) /\ o \in Offer
    BY <1>1, <1>2 DEF GoodPuller, Good
  <1>4. /\ s \in Puller /\ s.page = puller[h].page /\ s.mode = puller[h].mode
        /\ s.peer = puller[h].peer /\ s.offer = o
    BY <1>1, <1>2, <1>3 DEF Puller
  <1>5. GoodPuller(h, s)
    BY <1>1, <1>3, <1>4 DEF GoodPuller
  <1>6. ASSUME NEW c \in {"aside", "keep"} PROVE GoodPuller(h, [s EXCEPT !.pc = c])
    <2>1. PICK v : v = [s EXCEPT !.pc = c]
      OBVIOUS
    <2>2. v \in Puller /\ v.page = s.page /\ v.mode = s.mode /\ v.peer = s.peer /\ v.offer = s.offer
      BY <1>4, <2>1 DEF Puller
    <2>3. GoodPuller(h, v)
      BY <1>3, <1>4, <1>5, <2>2 DEF GoodPuller
    <2> QED
      BY <2>1, <2>3
  <1>7. GoodPuller(h, u)
    <2>1. GoodPuller(h, [s EXCEPT !.pc = "aside"]) /\ GoodPuller(h, [s EXCEPT !.pc = "keep"])
      BY <1>6
    <2>2. Good(h, s.offer)
      BY <1>3, <1>4
    <2>3. GoodPuller(h, Decided(s))
      BY <1>5, <2>2, DecidedGood
    <2> QED
      BY <1>2, <2>1, <2>3
  <1> QED
    BY <1>2, <1>7, StepsT DEF Look

LEMMA AcceptT ==
    ASSUME TInv, NEW h \in Hubs, Accept(h)
    PROVE  TInv'
  <1>1. puller[h] \in Puller /\ GoodPuller(h, puller[h]) /\ rows \in [Hubs -> [Posts -> Row]]
    BY DEF TInv, PullersInv, RowsInv
  <1>2. PICK o : o = puller[h].offer
    OBVIOUS
  <1>3. Good(h, o) /\ o \in Offer
    BY <1>1, <1>2 DEF GoodPuller, Accept, Good
  <1>4. /\ puller' = [puller EXCEPT ![h] = Decided(puller[h])]
        /\ UNCHANGED <<here, gone, tongue, revs, waiting, cursor, work, clock>>
    BY DEF Accept
  <1>5. PullersInv'
    <2>1. GoodPuller(h, Decided(puller[h]))
      BY <1>1, <1>2, <1>3, DecidedGood
    <2> QED
      BY <1>4, <2>1, PullerT
  <1>6. PICK row : row = [kept |-> TRUE, tries |-> rows[h][o.post].tries, ts |-> o.ts,
                          origin |-> o.peer, rev |-> 0]
    OBVIOUS
  <1>7. rows' = IF Accepts(h, o) THEN [rows EXCEPT ![h] = [@ EXCEPT ![o.post] = row]] ELSE rows
    BY <1>2, <1>6 DEF Accept
  <1>8. GoodRow(h, row)
    <2>1. /\ o.post \in Posts /\ o.peer \in Hubs /\ o.peer # Local /\ o.ts \in Nat
          /\ o.peer \in Pulls[h] /\ o.ts \in Times[o.peer]
      BY <1>3, LocalAssumption DEF Good, Offer
    <2>2. rows[h][o.post].tries \in 0 .. MaxTries
      BY <1>1, <2>1 DEF Row
    <2>3. row \in Row /\ row.origin = o.peer /\ row.ts = o.ts
      BY <1>6, <2>1, <2>2 DEF Row
    <2> QED
      BY <2>1, <2>3 DEF GoodRow
  <1>9. RowsInv' /\ WorkInv'
    <2>1. work' \in [Hubs -> SUBSET Posts] /\ \A g \in Hubs : work'[g] \subseteq work[g]
      BY <1>4 DEF TInv, WorkInv
    <2>2. o.post \in Posts
      BY <1>3 DEF Offer
    <2>3. o.post \in work'[h] => row.tries < MaxTries
      BY <1>4, <1>6, <2>2 DEF TInv, WorkInv
    <2>4. CASE Accepts(h, o)
      BY <1>7, <1>8, <2>1, <2>2, <2>3, <2>4, WrittenT
    <2>5. CASE ~ Accepts(h, o)
      BY <1>7, <2>1, <2>5, SameRowsT
    <2> QED
      BY <2>4, <2>5
  <1> QED
    BY <1>4, <1>5, <1>9, KeptT DEF TInv

LEMMA WaitingT ==
    ASSUME TInv, NEW h \in Hubs, Aside(h) \/ Drop(h)
    PROVE  TInv'
  <1>1. puller[h] \in Puller /\ GoodPuller(h, puller[h]) /\ GoodQueue(h, waiting[h])
    BY DEF TInv, PullersInv, WaitInv
  <1>2. Good(h, puller[h].offer) /\ puller[h].offer \in Offer
    BY <1>1 DEF GoodPuller, Aside, Drop, Good
  <1>3. PullersInv'
    <2>1. GoodPuller(h, Done(puller[h])) /\ puller' = [puller EXCEPT ![h] = Done(puller[h])]
      BY <1>1, DecidedGood DEF Aside, Drop
    <2> QED
      BY <2>1, PullerT
  <1>4. \E queue : GoodQueue(h, queue) /\ waiting' = [waiting EXCEPT ![h] = queue]
    <2>1. CASE Aside(h)
      <3>1. PICK o : o = [puller[h].offer EXCEPT !.rev = 0]
        OBVIOUS
      <3>2. o \in Offer /\ o.peer = puller[h].offer.peer /\ o.ts = puller[h].offer.ts
        BY <1>2, <3>1 DEF Offer
      <3>3. Good(h, o)
        BY <1>2, <3>2 DEF Good
      <3> QED
        BY <1>1, <2>1, <3>1, <3>3, AsideGood DEF Aside
    <2>2. CASE Drop(h)
      <3>1. PICK K : K = {i \in DOMAIN waiting[h] : ~SameKey(waiting[h][i], puller[h].offer)}
        OBVIOUS
      <3>2. GoodQueue(h, Picked(waiting[h], K))
        BY <1>1, <3>1, PickedGood
      <3>3. waiting' = [waiting EXCEPT ![h] = Picked(waiting[h], K)]
        BY <2>2, <3>1 DEF Drop
      <3> QED
        BY <3>2, <3>3
    <2> QED
      BY <2>1, <2>2
  <1>5. WaitInv'
    BY <1>4, QueueT
  <1>6. UNCHANGED <<here, gone, tongue, rows, revs, cursor, work, clock>>
    BY DEF Aside, Drop
  <1> QED
    BY <1>3, <1>5, <1>6, KeptT DEF TInv

LEMMA NextT == TInv /\ [Next]_vars => TInv'
  <1> SUFFICES ASSUME TInv, [Next]_vars PROVE TInv'
    OBVIOUS
  <1>1. ASSUME NEW h \in Hubs, NEW q \in Posts,
               \/ Create(h, q) \/ Delete(h, q)
               \/ \E l \in Tongues[h][q] : SetLang(h, q, l)
               \/ \E t \in Times[h] : Translate(h, q, t)
               \/ Fail(h, q) \/ StepOver(h, q) \/ Retranslate(h, q) \/ SettleFor(h, q)
        PROVE  TInv'
    BY <1>1, DeskT, TakenAwayT, TranslatorT, SettleT
  <1>2. ASSUME NEW h \in Hubs, List(h) PROVE TInv'
    <2>1. PICK q : q \in Posts
      BY <1>2 DEF List, Owed, TInv, RestInv
    <2> QED
      BY <1>2, <2>1, DeskT
  <1>3. ASSUME NEW h \in Hubs, (\E p \in Pulls[h] : StartPull(h, p)) \/ Settle(h) \/ Restart(h)
        PROVE  TInv'
    BY <1>3, RoundT, SettleT
  <1>4. ASSUME NEW h \in Hubs, Busy(h) PROVE TInv'
    BY <1>4, RoundT, FetchT, LookT, AcceptT, WaitingT DEF Busy
  <1>5. CASE UNCHANGED vars
    BY <1>5, KeptT DEF vars, TInv
  <1> QED
    BY <1>1, <1>2, <1>3, <1>4, <1>5 DEF Next

-----------------------------------------------------------------------------
\* The tables and the two workers hold what they should: no post more tries
\* than there are, whatever answer of the model comes when, and no key a
\* queue of entries that is not one.
THEOREM TranslationsTyped == Spec => []TypeOK
  <1>1. TInv => TypeOK
    BY DEF TInv, RowsInv, PullersInv, WaitInv, WorkInv, RestInv, TypeOK
  <1> QED
    BY <1>1, InitT, NextT, PTL DEF Spec

\* One hop: what is kept or waits under a peer's name was made by that peer,
\* through pages, waiting entries, restarts and what editors take away.
THEOREM MadeByPeerHolds == Spec => []MadeByPeer
  <1>1. TInv => MadeByPeer
    BY DEF TInv, RowsInv, WaitInv, GoodRow, GoodQueue, Good, MadeByPeer
  <1> QED
    BY <1>1, InitT, NextT, PTL DEF Spec

\* On a hub that only takes, a post that stays keeps its translation, or gets
\* a newer one.
THEOREM NewestStaysHolds == Spec => NewestStays
  <1> DEFINE Stays ==
        \A h \in Hubs \ (Translators \cup Redoes), q \in Posts :
            rows[h][q].kept /\ q \in here'[h] =>
                rows'[h][q].kept /\ rows'[h][q].ts >= rows[h][q].ts
  <1>1. ASSUME TInv, [Next]_vars PROVE Stays
    <2> SUFFICES ASSUME NEW h \in Hubs \ (Translators \cup Redoes), NEW q \in Posts,
                        rows[h][q].kept, q \in here'[h]
                 PROVE  rows'[h][q].kept /\ rows'[h][q].ts >= rows[h][q].ts
      OBVIOUS
    <2>1. /\ rows \in [Hubs -> [Posts -> Row]] /\ rows[h][q] \in Row
          /\ here \in [Hubs -> SUBSET Posts] /\ work[h] = {}
      <3>1. rows \in [Hubs -> [Posts -> Row]] /\ here \in [Hubs -> SUBSET Posts]
        BY <1>1 DEF TInv, RowsInv, RestInv
      <3>2. work \in [Hubs -> SUBSET Posts] /\ \A r \in Posts : r \in work[h] => h \in Translators
        BY <1>1 DEF TInv, WorkInv
      <3>3. work[h] = {}
        BY <3>2
      <3> QED
        BY <3>1, <3>3
    <2>2. rows[h][q].ts \in Nat
      BY <2>1 DEF Row
    <2>3. SUFFICES rows'[h][q] # rows[h][q] => rows'[h][q].kept /\ rows'[h][q].ts >= rows[h][q].ts
      BY <2>2
    <2>4. CASE rows' = rows
      BY <2>4
    <2>5. ASSUME NEW g \in Hubs, NEW r \in Posts, Delete(g, r) \/ Retranslate(g, r)
          PROVE  rows'[h][q] = rows[h][q]
      <3>1. ~ (g = h /\ r = q)
        <4>1. CASE Retranslate(g, r)
          BY <4>1 DEF Retranslate
        <4>2. CASE Delete(g, r)
          <5>1. here' = [here EXCEPT ![g] = @ \ {r}]
            BY <4>2 DEF Delete
          <5> QED
            BY <2>1, <5>1
        <4> QED
          BY <2>5, <4>1, <4>2
      <3>2. rows' = [rows EXCEPT ![g] = [@ EXCEPT ![r] = NoRow]]
        BY <2>5 DEF Delete, Retranslate
      <3> QED
        BY <2>1, <3>1, <3>2
    <2>6. ASSUME NEW g \in Hubs, NEW r \in Posts, NEW row, NEW rev, r \in work[g], SetTranslation(g, r, row, rev)
          PROVE  rows'[h][q] = rows[h][q]
      BY <2>1, <2>6 DEF SetTranslation
    <2>7. ASSUME NEW g \in Hubs, Accept(g), rows'[h][q] # rows[h][q]
          PROVE  rows'[h][q].kept /\ rows'[h][q].ts >= rows[h][q].ts
      <3>1. PICK o, row :
               /\ o = puller[g].offer /\ row.kept = TRUE /\ row.ts = o.ts
               /\ rows' = IF Accepts(g, o) THEN [rows EXCEPT ![g] = [@ EXCEPT ![o.post] = row]] ELSE rows
        <4>1. PICK o : o = puller[g].offer
          OBVIOUS
        <4>2. PICK row : row = [kept |-> TRUE, tries |-> rows[g][o.post].tries, ts |-> o.ts,
                                origin |-> o.peer, rev |-> 0]
          OBVIOUS
        <4>3. rows' = IF Accepts(g, o) THEN [rows EXCEPT ![g] = [@ EXCEPT ![o.post] = row]] ELSE rows
          BY <2>7, <4>1, <4>2 DEF Accept
        <4>4. row.kept = TRUE /\ row.ts = o.ts
          BY <4>2
        <4> QED
          BY <4>1, <4>3, <4>4
      <3>2. Accepts(g, o) /\ g = h /\ o.post = q /\ rows'[h][q] = row
        BY <2>1, <2>7, <3>1
      <3>3. rows[h][q].ts < o.ts
        BY <3>2 DEF Accepts
      <3>4. o.ts \in Nat
        <4>1. GoodPuller(g, puller[g]) /\ puller[g].pc = "keep"
          BY <1>1, <2>7 DEF TInv, PullersInv, Accept
        <4> QED
          BY <3>1, <4>1 DEF GoodPuller, Good, Offer
      <3> QED
        BY <2>2, <3>1, <3>2, <3>3, <3>4
    <2>8. \/ rows' = rows
          \/ \E g \in Hubs, r \in Posts : Delete(g, r) \/ Retranslate(g, r)
          \/ \E g \in Hubs, r \in Posts : \E row, rev : r \in work[g] /\ SetTranslation(g, r, row, rev)
          \/ \E g \in Hubs : Accept(g)
      <3>1. CASE UNCHANGED vars
        BY <3>1 DEF vars
      <3>2. ASSUME NEW g \in Hubs, NEW r \in Posts, Create(g, r) \/ StepOver(g, r) \/ SettleFor(g, r)
            PROVE  rows' = rows
        BY <3>2 DEF Create, StepOver, SettleFor
      <3>3. ASSUME NEW g \in Hubs, NEW r \in Posts, NEW l, SetLang(g, r, l) PROVE rows' = rows
        BY <3>3 DEF SetLang
      <3>4. ASSUME NEW g \in Hubs, NEW r \in Posts, Fail(g, r) \/ \E t \in Times[g] : Translate(g, r, t)
            PROVE  \E row, rev : r \in work[g] /\ SetTranslation(g, r, row, rev)
        BY <3>4 DEF Fail, Translate
      <3>5. ASSUME NEW g \in Hubs, List(g) \/ Settle(g) \/ Restart(g) \/ \E p \in Pulls[g] : StartPull(g, p)
            PROVE  rows' = rows
        BY <3>5 DEF List, Settle, Restart, StartPull
      <3>6. ASSUME NEW g \in Hubs, Busy(g) PROVE rows' = rows \/ Accept(g)
        BY <3>6 DEF Busy, FetchFails, Fetch, Look, Aside, Drop, PageDone, SettleDone
      <3> QED
        BY <1>1, <3>1, <3>2, <3>3, <3>4, <3>5, <3>6 DEF Next
    <2> QED
      BY <2>4, <2>5, <2>6, <2>7, <2>8
  <1>2. TInv /\ [Next]_vars => [Stays]_vars
    BY <1>1
  <1> QED
    BY <1>2, InitT, NextT, PTL DEF Spec, NewestStays

-----------------------------------------------------------------------------
(* Readers: HubTranslations does what HubTexts promises.                   *)

\* What a hub has in hand of its peers', and the text an offer is.
InHand(h, o) ==
    \/ o \in puller[h].page
    \/ puller[h].pc # "next" /\ o = puller[h].offer
    \/ \E i \in DOMAIN waiting[h] : o = waiting[h][i]

TextOf(o) == [by |-> o.peer, ts |-> o.ts, cites |-> {}]

Same(w, o) == w.peer = o.peer /\ w.post = o.post /\ w.ts = o.ts

\* A text known to be made.
Known(o) == TextOf(o) \in made[o.peer][o.post]

\* What a hub has in hand was in its hand before, or is a row of a peer's own.
From(h, o) ==
    \/ \E w : InHand(h, w) /\ Same(w, o)
    \/ /\ o.peer \in Hubs /\ o.post \in Posts /\ rows[o.peer][o.post].kept
       /\ rows[o.peer][o.post].origin = Local /\ rows[o.peer][o.post].ts = o.ts

\* A queue made of entries of another and of one offer.
LEMMA AsideFrom ==
    ASSUME NEW queue, queue \in Seq(Offer), NEW o \in Offer, NEW i \in DOMAIN SetAside(queue, o)
    PROVE  SetAside(queue, o)[i] = o \/ \E n \in DOMAIN queue : SetAside(queue, o)[i] = queue[n]
  <1> DEFINE laid == IF \E n \in DOMAIN queue : SameKey(queue[n], o)
                     THEN [n \in DOMAIN queue |->
                              IF SameKey(queue[n], o) /\ o.ts > queue[n].ts THEN o ELSE queue[n]]
                     ELSE Append(queue, o)
             K == {n \in DOMAIN laid :
                      laid[n].peer = o.peer =>
                          Cardinality({j \in DOMAIN laid : j > n /\ laid[j].peer = o.peer}) < PendingMax}
  <1>1. SetAside(queue, o) = Picked(laid, K) /\ K \subseteq DOMAIN laid
    BY DEF SetAside, Capped
  <1>2. Len(queue) \in Nat /\ DOMAIN queue = 1 .. Len(queue)
    OBVIOUS
  <1>3. laid \in Seq(Offer) /\ \A n \in DOMAIN laid : laid[n] = o \/ \E m \in DOMAIN queue : laid[n] = queue[m]
    <2>1. CASE \E n \in DOMAIN queue : SameKey(queue[n], o)
      <3> DEFINE new == [n \in DOMAIN queue |->
                            IF SameKey(queue[n], o) /\ o.ts > queue[n].ts THEN o ELSE queue[n]]
      <3>1. DOMAIN new = DOMAIN queue /\ \A n \in DOMAIN queue : new[n] \in {o, queue[n]}
        OBVIOUS
      <3>2. new = [n \in 1 .. Len(queue) |-> new[n]]
        BY <1>2, <3>1
      <3>3. laid = new
        BY <2>1
      <3> HIDE DEF new, K, laid
      <3>4. \A n \in 1 .. Len(queue) : new[n] \in Offer
        BY <1>2, <3>1
      <3>5. new \in Seq(Offer)
        BY <1>2, <3>1, <3>2, <3>4
      <3> QED
        BY <3>1, <3>3, <3>5
    <2>2. CASE ~ \E n \in DOMAIN queue : SameKey(queue[n], o)
      <3>1. laid = Append(queue, o)
        BY <2>2
      <3> HIDE DEF K, laid
      <3> QED
        BY <1>2, <3>1
    <2> QED
      BY <2>1, <2>2
  <1> HIDE DEF K, laid
  <1>4. \A n \in DOMAIN Picked(laid, K) : \E m \in K : Picked(laid, K)[n] = laid[m]
    BY <1>1, <1>3, PickedOf
  <1>5. PICK m \in K : SetAside(queue, o)[i] = laid[m]
    BY <1>1, <1>4
  <1> QED
    BY <1>1, <1>3, <1>5

\* The puller of h becomes s, the waiting entries stay.
LEMMA PullerFrom ==
    ASSUME TInv, NEW h \in Hubs, NEW s, puller' = [puller EXCEPT ![h] = s], waiting' = waiting,
           \A x \in s.page : From(h, x), s.pc # "next" => From(h, s.offer)
    PROVE  \A g \in Hubs : \A o : InHand(g, o)' => From(g, o)
  <1> SUFFICES ASSUME NEW g \in Hubs, NEW o, InHand(g, o)' PROVE From(g, o)
    OBVIOUS
  <1>1. Same(o, o)
    BY DEF Same
  <1>2. puller'[h] = s /\ (g # h => puller'[g] = puller[g])
    BY DEF TInv, PullersInv
  <1>3. CASE g # h
    BY <1>1, <1>2, <1>3 DEF InHand, From
  <1>4. CASE g = h
    <2>1. CASE \E i \in DOMAIN waiting[h] : o = waiting[h][i]
      BY <1>1, <1>4, <2>1 DEF InHand, From
    <2>2. CASE o \in s.page \/ (s.pc # "next" /\ o = s.offer)
      BY <1>4, <2>2
    <2> QED
      BY <1>2, <1>4, <2>1, <2>2 DEF InHand
  <1> QED
    BY <1>3, <1>4

\* ... and the waiting entries too.
LEMMA BothFrom ==
    ASSUME TInv, NEW h \in Hubs, NEW s, NEW queue,
           puller' = [puller EXCEPT ![h] = s], waiting' = [waiting EXCEPT ![h] = queue],
           \A x \in s.page : From(h, x), s.pc # "next" => From(h, s.offer),
           \A i \in DOMAIN queue : From(h, queue[i])
    PROVE  \A g \in Hubs : \A o : InHand(g, o)' => From(g, o)
  <1> SUFFICES ASSUME NEW g \in Hubs, NEW o, InHand(g, o)' PROVE From(g, o)
    OBVIOUS
  <1>1. Same(o, o)
    BY DEF Same
  <1>2. /\ puller'[h] = s /\ (g # h => puller'[g] = puller[g])
        /\ waiting'[h] = queue /\ (g # h => waiting'[g] = waiting[g])
    BY DEF TInv, PullersInv, WaitInv
  <1>3. CASE g # h
    BY <1>1, <1>2, <1>3 DEF InHand, From
  <1>4. CASE g = h
    <2>1. CASE \E i \in DOMAIN queue : o = queue[i]
      BY <1>4, <2>1
    <2>2. CASE o \in s.page \/ (s.pc # "next" /\ o = s.offer)
      BY <1>4, <2>2
    <2> QED
      BY <1>2, <1>4, <2>1, <2>2 DEF InHand
  <1> QED
    BY <1>3, <1>4

\* Done or decided, the puller has nothing in hand it had not.
LEMMA DecidedFrom ==
    ASSUME NEW s, s \in Puller
    PROVE  /\ Done(s).page \subseteq s.page /\ Done(s).pc = "next"
           /\ Decided(s).page \subseteq s.page /\ (Decided(s).pc # "next" => Decided(s).offer = s.offer)
  <1>1. PICK u : u = [s EXCEPT !.pc = "next", !.page = s.page \ {s.offer}, !.offer = Local]
    OBVIOUS
  <1>2. u.page \subseteq s.page /\ u.pc = "next"
    BY <1>1 DEF Puller
  <1>3. Done(s) = u
    BY <1>1 DEF Done
  <1>4. CASE s.mode = "settle"
    <2>1. PICK v : v = [s EXCEPT !.pc = "drop"]
      OBVIOUS
    <2>2. v.page = s.page /\ v.offer = s.offer
      BY <2>1 DEF Puller
    <2>3. Decided(s) = v
      BY <1>4, <2>1 DEF Decided
    <2> QED
      BY <1>2, <1>3, <2>2, <2>3
  <1>5. CASE s.mode # "settle"
    BY <1>2, <1>3, <1>5 DEF Decided
  <1> QED
    BY <1>4, <1>5

\* Idle, about to fetch or with nothing at hand but what waits.
LEMMA FreshFrom ==
    ASSUME TInv, NEW h \in Hubs, NEW s, puller' = [puller EXCEPT ![h] = s], waiting' = waiting,
           s.page = {}, s.pc = "next"
    PROVE  \A g \in Hubs : \A o : InHand(g, o)' => From(g, o)
  BY PullerFrom

LEMMA SameFrom ==
    ASSUME UNCHANGED <<puller, waiting>>
    PROVE  \A g \in Hubs : \A o : InHand(g, o)' => From(g, o)
  <1>1. \A o : Same(o, o)
    BY DEF Same
  <1> QED
    BY <1>1 DEF InHand, From

LEMMA FetchFrom ==
    ASSUME TInv, NEW h \in Hubs, Fetch(h)
    PROVE  \A g \in Hubs : \A o : InHand(g, o)' => From(g, o)
  <1>1. puller[h] \in Puller /\ GoodPuller(h, puller[h])
    BY DEF TInv, PullersInv
  <1>2. PICK page : page = PageOf(puller[h].peer, puller[h].cursor)
    OBVIOUS
  <1>3. PICK n : puller' = [puller EXCEPT ![h] = [@ EXCEPT !.mode = "pull", !.page = page, !.next = n]]
    BY <1>2 DEF Fetch
  <1>4. PICK s : s = [puller[h] EXCEPT !.mode = "pull", !.page = page, !.next = n]
    OBVIOUS
  <1>5. s.page = page /\ s.pc = puller[h].pc /\ s.offer = puller[h].offer
    BY <1>1, <1>4 DEF Puller
  <1>6. ASSUME NEW o \in page PROVE From(h, o)
    <2>1. puller[h].peer \in Hubs
      BY <1>1, PullsHubs DEF Fetch, GoodPuller
    <2>2. PICK p : p = puller[h].peer
      OBVIOUS
    <2>3. PICK q \in Posts : /\ rows[p][q].kept /\ rows[p][q].origin = Local
                             /\ o = [peer |-> p, post |-> q, ts |-> rows[p][q].ts, rev |-> rows[p][q].rev]
      BY <1>2, <1>6, <2>2 DEF PageOf, After, Mine
    <2> QED
      BY <2>1, <2>2, <2>3 DEF From
  <1>7. s.pc # "next" => From(h, s.offer)
    BY <1>5 DEF InHand, From, Same
  <1>8. puller' = [puller EXCEPT ![h] = s] /\ waiting' = waiting
    BY <1>3, <1>4 DEF Fetch
  <1> QED
    BY <1>5, <1>6, <1>7, <1>8, PullerFrom

\* The waiting entries are in hand.
LEMMA WaitingFrom == ASSUME NEW h, NEW i \in DOMAIN waiting[h] PROVE From(h, waiting[h][i])
  BY DEF InHand, From, Same

LEMMA SettleFrom ==
    ASSUME TInv, NEW h \in Hubs, Settle(h) \/ \E q \in Posts : SettleFor(h, q)
    PROVE  \A g \in Hubs : \A o : InHand(g, o)' => From(g, o)
  <1>1. waiting[h] \in Seq(Offer)
    BY DEF TInv, WaitInv
  <1>2. ASSUME NEW due PROVE LET s == [Idle EXCEPT !.mode = "settle", !.page = due] IN s.page = due /\ s.pc = "next"
    BY DEF Idle
  <1>3. Idle.page = {} /\ Idle.pc = "next"
    BY DEF Idle
  <1>4. ASSUME NEW q \in Posts, SettleFor(h, q)
        PROVE  \A g \in Hubs : \A o : InHand(g, o)' => From(g, o)
    <2>1. PICK due : due = {waiting[h][i] : i \in {i \in DOMAIN waiting[h] : waiting[h][i].post = q}}
      OBVIOUS
    <2>2. PICK s : s = [Idle EXCEPT !.mode = "settle", !.page = due]
      OBVIOUS
    <2>3. s.page = due /\ s.pc = "next"
      BY <1>2, <2>2
    <2>4. \A x \in due : From(h, x)
      BY <2>1, WaitingFrom
    <2>5. puller' = [puller EXCEPT ![h] = s] /\ waiting' = waiting
      BY <1>4, <2>1, <2>2 DEF SettleFor
    <2> QED
      BY <2>3, <2>4, <2>5, PullerFrom
  <1>5. ASSUME Settle(h) PROVE \A g \in Hubs : \A o : InHand(g, o)' => From(g, o)
    <2>1. PICK old \in SUBSET Lapsing :
             LET left == Picked(waiting[h], {i \in DOMAIN waiting[h] : waiting[h][i].post \notin old})
                 due == {left[i] : i \in {i \in DOMAIN left : left[i].post \in here[h]}}
             IN  /\ waiting' = [waiting EXCEPT ![h] = left]
                 /\ puller' = [puller EXCEPT ![h] =
                       IF due = {} THEN Idle ELSE [Idle EXCEPT !.mode = "settle", !.page = due]]
      BY <1>5 DEF Settle
    <2>2. PICK K : K = {i \in DOMAIN waiting[h] : waiting[h][i].post \notin old}
      OBVIOUS
    <2>3. PICK left : left = Picked(waiting[h], K)
      OBVIOUS
    <2>4. PICK due : due = {left[i] : i \in {i \in DOMAIN left : left[i].post \in here[h]}}
      OBVIOUS
    <2>5. PICK s : s = IF due = {} THEN Idle ELSE [Idle EXCEPT !.mode = "settle", !.page = due]
      OBVIOUS
    <2>6. waiting' = [waiting EXCEPT ![h] = left] /\ puller' = [puller EXCEPT ![h] = s]
      BY <2>1, <2>2, <2>3, <2>4, <2>5
    <2>7. K \subseteq DOMAIN waiting[h]
      BY <2>2
    <2> HIDE <2>1, <2>2
    <2>8. \A n \in DOMAIN left : \E i \in K : left[n] = waiting[h][i]
      BY <1>1, <2>3, <2>7, PickedOf
    <2>9. \A n \in DOMAIN left : From(h, left[n])
      BY <2>7, <2>8, WaitingFrom
    <2>10. s.page = due /\ s.pc = "next"
      BY <1>2, <1>3, <2>5
    <2>11. \A x \in s.page : From(h, x)
      BY <2>4, <2>9, <2>10
    <2> HIDE <2>3, <2>4, <2>5
    <2> QED
      BY <2>6, <2>9, <2>10, <2>11, BothFrom
  <1> QED
    BY <1>4, <1>5

LEMMA TakeFrom ==
    ASSUME TInv, NEW h \in Hubs, Look(h) \/ Accept(h)
    PROVE  \A g \in Hubs : \A o : InHand(g, o)' => From(g, o)
  <1>1. puller[h] \in Puller
    BY DEF TInv, PullersInv
  <1>2. \A x \in puller[h].page : From(h, x)
    BY DEF InHand, From, Same
  <1>3. CASE Accept(h)
    <2>1. puller' = [puller EXCEPT ![h] = Decided(puller[h])] /\ waiting' = waiting /\ puller[h].pc # "next"
      BY <1>3 DEF Accept
    <2>2. From(h, puller[h].offer)
      BY <2>1 DEF InHand, From, Same
    <2> QED
      BY <1>1, <1>2, <2>1, <2>2, DecidedFrom, PullerFrom
  <1>4. CASE Look(h)
    <2>1. PICK o, s, u :
             /\ o \in puller[h].page /\ s = [puller[h] EXCEPT !.offer = o]
             /\ u \in {[s EXCEPT !.pc = "aside"], Decided(s), [s EXCEPT !.pc = "keep"]}
             /\ puller' = [puller EXCEPT ![h] = u]
      BY <1>4 DEF Look
    <2>2. o \in Offer
      BY <1>1, <2>1 DEF Puller
    <2>3. s \in Puller /\ s.page = puller[h].page /\ s.offer = o
      BY <1>1, <2>1, <2>2 DEF Puller
    <2>4. \A c : LET v == [s EXCEPT !.pc = c] IN v.page = s.page /\ v.offer = s.offer
      BY <2>3 DEF Puller
    <2>5. u.page \subseteq puller[h].page /\ (u.pc # "next" => u.offer = o)
      <3>1. ASSUME NEW c, u = [s EXCEPT !.pc = c] PROVE u.page = s.page /\ u.offer = s.offer
        BY <2>4, <3>1
      <3>2. Decided(s).page \subseteq s.page /\ (Decided(s).pc # "next" => Decided(s).offer = s.offer)
        BY <2>3, DecidedFrom
      <3> QED
        BY <2>1, <2>3, <3>1, <3>2
    <2> QED
      BY <1>2, <1>4, <2>1, <2>5, PullerFrom DEF Look
  <1> QED
    BY <1>3, <1>4

LEMMA QueuedFrom ==
    ASSUME TInv, NEW h \in Hubs, Aside(h) \/ Drop(h)
    PROVE  \A g \in Hubs : \A o : InHand(g, o)' => From(g, o)
  <1>1. puller[h] \in Puller /\ waiting[h] \in Seq(Offer) /\ GoodPuller(h, puller[h])
    BY DEF TInv, PullersInv, WaitInv
  <1>2. /\ puller' = [puller EXCEPT ![h] = Done(puller[h])] /\ puller[h].pc # "next"
        /\ Done(puller[h]).page \subseteq puller[h].page /\ Done(puller[h]).pc = "next"
    BY <1>1, DecidedFrom DEF Aside, Drop
  <1>3. \A x \in puller[h].page : From(h, x)
    BY DEF InHand, From, Same
  <1>4. \E queue : waiting' = [waiting EXCEPT ![h] = queue] /\ \A i \in DOMAIN queue : From(h, queue[i])
    <2>1. CASE Aside(h)
      <3>1. PICK o : o = [puller[h].offer EXCEPT !.rev = 0]
        OBVIOUS
      <3>2. puller[h].offer \in Offer
        BY <1>1, <1>2 DEF GoodPuller, Good
      <3>3. o \in Offer /\ Same(puller[h].offer, o)
        BY <3>1, <3>2 DEF Offer, Same
      <3>4. From(h, o)
        BY <1>2, <3>3 DEF From, InHand
      <3>5. PICK queue : queue = SetAside(waiting[h], o)
        OBVIOUS
      <3>6. \A i \in DOMAIN queue : queue[i] = o \/ \E n \in DOMAIN waiting[h] : queue[i] = waiting[h][n]
        BY <1>1, <3>3, <3>5, AsideFrom
      <3>7. waiting' = [waiting EXCEPT ![h] = queue]
        BY <2>1, <3>1, <3>5 DEF Aside
      <3> QED
        BY <3>4, <3>6, <3>7, WaitingFrom
    <2>2. CASE Drop(h)
      <3>1. PICK K : K = {i \in DOMAIN waiting[h] : ~SameKey(waiting[h][i], puller[h].offer)}
        OBVIOUS
      <3>2. PICK queue : queue = Picked(waiting[h], K)
        OBVIOUS
      <3>3. K \subseteq DOMAIN waiting[h]
        BY <3>1
      <3>4. waiting' = [waiting EXCEPT ![h] = queue]
        BY <2>2, <3>1, <3>2 DEF Drop
      <3> HIDE <3>1
      <3>5. \A n \in DOMAIN queue : \E i \in K : queue[n] = waiting[h][i]
        BY <1>1, <3>3, <3>2, PickedOf
      <3> QED
        BY <3>3, <3>5, <3>4, WaitingFrom
    <2> QED
      BY <2>1, <2>2
  <1> QED
    BY <1>2, <1>3, <1>4, BothFrom

LEMMA NextFrom ==
    ASSUME TInv, [Next]_vars
    PROVE  \A g \in Hubs : \A o : InHand(g, o)' => From(g, o)
  <1>0. Idle.page = {} /\ Idle.pc = "next" /\ \A p, n : LET s == [Idle EXCEPT !.mode = "fetch", !.peer = p, !.cursor = n] IN
                                                   s.page = {} /\ s.pc = "next"
    BY DEF Idle
  <1>1. ASSUME NEW h \in Hubs, NEW q \in Posts,
               \/ Create(h, q) \/ Delete(h, q)
               \/ \E l \in Tongues[h][q] : SetLang(h, q, l)
               \/ \E t \in Times[h] : Translate(h, q, t)
               \/ Fail(h, q) \/ StepOver(h, q) \/ Retranslate(h, q)
        PROVE  UNCHANGED <<puller, waiting>>
    BY <1>1 DEF Create, Delete, SetLang, Translate, Fail, StepOver, Retranslate
  <1>2. ASSUME NEW h \in Hubs, List(h) PROVE UNCHANGED <<puller, waiting>>
    BY <1>2 DEF List
  <1>3. ASSUME NEW h \in Hubs, FetchFails(h) \/ SettleDone(h) \/ Restart(h) \/ PageDone(h) \/ \E p \in Pulls[h] : StartPull(h, p)
        PROVE  \A g \in Hubs : \A o : InHand(g, o)' => From(g, o)
    <2>1. PICK s : puller' = [puller EXCEPT ![h] = s] /\ s.page = {} /\ s.pc = "next"
      <3>0. ASSUME puller' = [puller EXCEPT ![h] = Idle]
            PROVE  \E s : puller' = [puller EXCEPT ![h] = s] /\ s.page = {} /\ s.pc = "next"
        BY <1>0, <3>0
      <3>1. CASE FetchFails(h) \/ SettleDone(h) \/ Restart(h)
        BY <3>0, <3>1 DEF FetchFails, SettleDone, Restart
      <3>2. CASE PageDone(h)
        <4>1. CASE puller[h].next <= puller[h].cursor
          BY <3>0, <3>2, <4>1 DEF PageDone
        <4>2. CASE ~ (puller[h].next <= puller[h].cursor)
          <5>1. PICK p, n : p = puller[h].peer /\ n = puller[h].next
            OBVIOUS
          <5>2. PICK s : s = [Idle EXCEPT !.mode = "fetch", !.peer = p, !.cursor = n]
            OBVIOUS
          <5>3. s.page = {} /\ s.pc = "next"
            BY <1>0, <5>2
          <5>4. puller' = [puller EXCEPT ![h] = s]
            BY <3>2, <4>2, <5>1, <5>2 DEF PageDone
          <5> QED
            BY <5>3, <5>4
        <4> QED
          BY <4>1, <4>2
      <3>3. CASE \E p \in Pulls[h] : StartPull(h, p)
        <4>1. PICK p, n : puller' = [puller EXCEPT ![h] = [Idle EXCEPT !.mode = "fetch", !.peer = p, !.cursor = n]]
          BY <3>3 DEF StartPull
        <4>2. PICK s : s = [Idle EXCEPT !.mode = "fetch", !.peer = p, !.cursor = n]
          OBVIOUS
        <4> QED
          BY <1>0, <4>1, <4>2
      <3> QED
        BY <1>3, <3>1, <3>2, <3>3
    <2>2. waiting' = waiting
      BY <1>3 DEF FetchFails, SettleDone, Restart, PageDone, StartPull
    <2> QED
      BY <2>1, <2>2, FreshFrom
  <1>4. CASE UNCHANGED vars
    BY <1>4, SameFrom DEF vars
  <1> QED
    BY <1>1, <1>2, <1>3, <1>4, SameFrom, FetchFrom, SettleFrom, TakeFrom, QueuedFrom DEF Next, Busy

-----------------------------------------------------------------------------
\* What was made was made by its hub, not after its clock; what is shown of a hub's
\* own, and what its peers have in hand, was made; no post is both here and gone.
MadeInv ==
    /\ made \in [Hubs -> [Posts -> SUBSET [by : Hubs, ts : Nat, cites : {{}}]]]
    /\ \A h \in Hubs, q \in Posts : \A x \in made[h][q] : x.by = h /\ x.ts <= clock[h]
    /\ \A h \in Hubs, q \in Posts : By(h, shown[h][q]) \subseteq made[h][q]
    /\ \A h \in Hubs : \A o : InHand(h, o) => Known(o)
    /\ \A h \in Hubs : here[h] \cap gone[h] = {}

LEMMA InitMade == MadeInit => MadeInv
  <1> SUFFICES ASSUME MadeInit PROVE MadeInv
    OBVIOUS
  <1>1. made = [h \in Hubs |-> [q \in Posts |-> {}]] /\ Init
    BY DEF MadeInit
  <1>2. \A h \in Hubs, q \in Posts : shown[h][q] = {}
    BY <1>1 DEF Init, shown, Seen, NoRow
  <1>3. \A h \in Hubs : puller[h].page = {} /\ puller[h].pc = "next" /\ waiting[h] = <<>>
    BY <1>1 DEF Init, Idle
  <1>4. \A h \in Hubs : \A o : ~InHand(h, o)
    BY <1>3 DEF InHand
  <1>5. \A h \in Hubs : here[h] \cap gone[h] = {}
    BY <1>1 DEF Init
  <1> QED
    BY <1>1, <1>2, <1>4, <1>5 DEF MadeInv, By

\* A row of h's own, kept, is shown as such.
LEMMA OwnShown ==
    ASSUME NEW h \in Hubs, NEW q \in Posts, rows[h][q].kept, rows[h][q].origin = Local
    PROVE  [by |-> h, ts |-> rows[h][q].ts, cites |-> {}] \in By(h, shown[h][q])
  BY DEF shown, Seen, By

LEMMA KnownFrom ==
    ASSUME MadeInv, NEW h \in Hubs, NEW o, From(h, o)
    PROVE  Known(o)
  <1>1. CASE \E w : InHand(h, w) /\ Same(w, o)
    <2>1. PICK w : InHand(h, w) /\ Same(w, o)
      BY <1>1
    <2>2. Known(w)
      BY <2>1 DEF MadeInv
    <2>3. TextOf(w) = TextOf(o) /\ w.peer = o.peer /\ w.post = o.post
      BY <2>1 DEF TextOf, Same
    <2> QED
      BY <2>2, <2>3 DEF Known
  <1>2. CASE /\ o.peer \in Hubs /\ o.post \in Posts /\ rows[o.peer][o.post].kept
             /\ rows[o.peer][o.post].origin = Local /\ rows[o.peer][o.post].ts = o.ts
    <2>1. [by |-> o.peer, ts |-> o.ts, cites |-> {}] \in By(o.peer, shown[o.peer][o.post])
      BY <1>2, OwnShown
    <2> QED
      BY <1>2, <2>1 DEF MadeInv, Known, TextOf
  <1> QED
    BY <1>1, <1>2 DEF From

\* The posts that are here or gone, and the clocks.
LEMMA HereGone ==
    ASSUME TInv, [Next]_vars, \A h \in Hubs : here[h] \cap gone[h] = {}
    PROVE  \A h \in Hubs : /\ here'[h] \cap gone'[h] = {}
                           /\ clock[h] <= clock'[h]
  <1>0. /\ here \in [Hubs -> SUBSET Posts] /\ gone \in [Hubs -> SUBSET Posts] /\ clock \in [Hubs -> Nat]
    BY DEF TInv, RestInv
  <1>1. ASSUME UNCHANGED <<here, gone, clock>>
        PROVE  \A h \in Hubs : here'[h] \cap gone'[h] = {} /\ clock[h] <= clock'[h]
    BY <1>0, <1>1
  <1>2. ASSUME NEW g \in Hubs, NEW q \in Posts, Create(g, q) \/ Delete(g, q)
        PROVE  \A h \in Hubs : here'[h] \cap gone'[h] = {} /\ clock[h] <= clock'[h]
    <2>1. CASE Create(g, q)
      <3>1. /\ here' = [here EXCEPT ![g] = @ \cup {q}] /\ q \notin gone[g]
            /\ UNCHANGED <<gone, clock>>
        BY <2>1 DEF Create
      <3>2. \A h \in Hubs : here'[h] = IF h = g THEN here[h] \cup {q} ELSE here[h]
        BY <1>0, <3>1
      <3> QED
        BY <1>0, <3>1, <3>2
    <2>2. CASE Delete(g, q)
      <3>1. /\ here' = [here EXCEPT ![g] = @ \ {q}] /\ gone' = [gone EXCEPT ![g] = @ \cup {q}]
            /\ UNCHANGED clock
        BY <2>2 DEF Delete
      <3>2. \A h \in Hubs : /\ here'[h] = IF h = g THEN here[h] \ {q} ELSE here[h]
                            /\ gone'[h] = IF h = g THEN gone[h] \cup {q} ELSE gone[h]
        BY <1>0, <3>1
      <3> QED
        BY <1>0, <3>1, <3>2
    <2> QED
      BY <1>2, <2>1, <2>2
  <1>3. ASSUME NEW g \in Hubs, NEW q \in Posts, NEW t \in Times[g], Translate(g, q, t)
        PROVE  \A h \in Hubs : here'[h] \cap gone'[h] = {} /\ clock[h] <= clock'[h]
    BY <1>0, <1>3, TimesNat DEF Translate
  <1>4. ASSUME NEW g \in Hubs, NEW q \in Posts,
               \/ \E l \in Tongues[g][q] : SetLang(g, q, l)
               \/ Fail(g, q) \/ StepOver(g, q) \/ Retranslate(g, q) \/ SettleFor(g, q)
        PROVE  UNCHANGED <<here, gone, clock>>
    BY <1>4 DEF SetLang, Fail, StepOver, Retranslate, SettleFor
  <1>5. ASSUME NEW g \in Hubs, List(g) \/ Settle(g) \/ Restart(g) \/ \E p \in Pulls[g] : StartPull(g, p)
        PROVE  UNCHANGED <<here, gone, clock>>
    BY <1>5 DEF List, Settle, Restart, StartPull
  <1>6. ASSUME NEW g \in Hubs, Busy(g) PROVE UNCHANGED <<here, gone, clock>>
    BY <1>6 DEF Busy, FetchFails, Fetch, Look, Accept, Aside, Drop, PageDone, SettleDone
  <1>7. CASE UNCHANGED vars
    BY <1>1, <1>7 DEF vars
  <1> QED
    BY <1>1, <1>2, <1>3, <1>4, <1>5, <1>6, <1>7 DEF Next

\* A table of texts, one of its entries changed, is that of a row written.
LEMMA RowShown ==
    ASSUME TInv, NEW h \in Hubs, NEW q \in Posts, NEW row,
           rows' = [rows EXCEPT ![h] = [@ EXCEPT ![q] = row]]
    PROVE  /\ shown' = Texts!At(shown, h, q, Seen(h, row))
           /\ shown'[h][q] = Seen(h, row)
           /\ \A g \in Hubs, r \in Posts : ~ (g = h /\ r = q) => shown'[g][r] = shown[g][r]
  <1>1. rows \in [Hubs -> [Posts -> Row]]
    BY DEF TInv, RowsInv
  <1>2. \A g \in Hubs, r \in Posts : rows'[g][r] = IF g = h /\ r = q THEN row ELSE rows[g][r]
    BY <1>1
  <1>3. shown' = [g \in Hubs |-> [r \in Posts |-> IF g = h /\ r = q THEN Seen(h, row) ELSE Seen(g, rows[g][r])]]
    <2>1. shown' = [g \in Hubs |-> [r \in Posts |-> Seen(g, rows'[g][r])]]
      BY DEF shown
    <2>2. \A g \in Hubs, r \in Posts :
             Seen(g, rows'[g][r]) = IF g = h /\ r = q THEN Seen(h, row) ELSE Seen(g, rows[g][r])
      BY <1>2
    <2> QED
      BY <2>1, <2>2
  <1>4. shown = [g \in Hubs |-> [r \in Posts |-> Seen(g, rows[g][r])]]
    BY DEF shown
  <1>5. \A g \in Hubs, r \in Posts : /\ shown'[g][r] = IF g = h /\ r = q THEN Seen(h, row) ELSE shown[g][r]
                                    /\ shown[g][r] = Seen(g, rows[g][r])
    BY <1>3, <1>4
  <1>6. shown' = [shown EXCEPT ![h] = [@ EXCEPT ![q] = Seen(h, row)]]
    <2>1. PICK Y : Y = Seen(h, row)
      OBVIOUS
    <2>2. PICK old : old = shown
      OBVIOUS
    <2>3. old = [g \in Hubs |-> old[g]] /\ \A g \in Hubs : old[g] = [r \in Posts |-> old[g][r]]
      BY <1>4, <2>2
    <2>4. [old[h] EXCEPT ![q] = Y] = [r \in Posts |-> IF r = q THEN Y ELSE old[h][r]]
      BY <2>3
    <2>5. [old EXCEPT ![h] = [@ EXCEPT ![q] = Y]] =
             [g \in Hubs |-> [r \in Posts |-> IF g = h /\ r = q THEN Y ELSE old[g][r]]]
      <3>1. [old EXCEPT ![h] = [@ EXCEPT ![q] = Y]] =
               [g \in Hubs |-> IF g = h THEN [r \in Posts |-> IF r = q THEN Y ELSE old[h][r]] ELSE old[g]]
        BY <2>3, <2>4
      <3>2. ASSUME NEW g \in Hubs
            PROVE  (IF g = h THEN [r \in Posts |-> IF r = q THEN Y ELSE old[h][r]] ELSE old[g]) =
                       [r \in Posts |-> IF g = h /\ r = q THEN Y ELSE old[g][r]]
        BY <2>3
      <3> QED
        BY <3>1, <3>2
    <2>6. shown' = [g \in Hubs |-> [r \in Posts |-> IF g = h /\ r = q THEN Y ELSE old[g][r]]]
      BY <1>3, <1>5, <2>1, <2>2
    <2> QED
      BY <2>1, <2>2, <2>5, <2>6
  <1> QED
    BY <1>5, <1>6 DEF Texts!At

\* The history, when what is shown of the hubs' own was made already.
LEMMA SameMade ==
    ASSUME MadeInv, MadeNext, \A h \in Hubs, q \in Posts : By(h, shown'[h][q]) \subseteq made[h][q]
    PROVE  made' = made
  <1>1. made' = [h \in Hubs |-> [q \in Posts |-> made[h][q] \cup By(h, shown'[h][q])]]
    BY DEF MadeNext
  <1>2. \A h \in Hubs, q \in Posts : made[h][q] \cup By(h, shown'[h][q]) = made[h][q]
    OBVIOUS
  <1>3. made' = [h \in Hubs |-> [q \in Posts |-> made[h][q]]]
    BY <1>1, <1>2
  <1>4. made = [h \in Hubs |-> [q \in Posts |-> made[h][q]]]
    BY DEF MadeInv
  <1> QED
    BY <1>3, <1>4

\* The rows stay.
LEMMA StillStep ==
    ASSUME MadeInv, MadeNext, rows' = rows
    PROVE  made' = made /\ shown' = shown
  <1>1. shown' = shown
    BY DEF shown
  <1>2. made' = made
    BY <1>1, SameMade DEF MadeInv
  <1> QED
    BY <1>1, <1>2

\* A row is written that is no text of its hub's own, or one that was made.
LEMMA WrittenStep ==
    ASSUME TInv, MadeInv, MadeNext, NEW h \in Hubs, NEW q \in Posts, NEW row,
           rows' = [rows EXCEPT ![h] = [@ EXCEPT ![q] = row]], By(h, Seen(h, row)) = {}
    PROVE  made' = made
  <1>1. \A g \in Hubs, r \in Posts : By(g, shown'[g][r]) \subseteq made[g][r]
    <2>1. ASSUME NEW g \in Hubs, NEW r \in Posts PROVE By(g, shown'[g][r]) \subseteq made[g][r]
      <3>1. CASE g = h /\ r = q
        BY <3>1, RowShown
      <3>2. CASE ~ (g = h /\ r = q)
        <4>1. shown'[g][r] = shown[g][r]
          <5>1. \A f \in Hubs, p \in Posts : ~ (f = h /\ p = q) => shown'[f][p] = shown[f][p]
            BY RowShown
          <5> QED
            BY <3>2, <5>1
        <4> QED
          BY <4>1 DEF MadeInv
      <3> QED
        BY <3>1, <3>2
    <2> QED
      BY <2>1
  <1> QED
    BY <1>1, SameMade

\* Nothing is seen of a row that is not kept.
LEMMA NothingSeen ==
    ASSUME NEW h, NEW row, ~row.kept
    PROVE  Seen(h, row) = {} /\ By(h, Seen(h, row)) = {}
  BY DEF Seen, By

\* A row is taken away.
LEMMA ShownLess ==
    ASSUME TInv, NEW h \in Hubs, NEW q \in Posts, NEW row, ~row.kept,
           rows' = [rows EXCEPT ![h] = [@ EXCEPT ![q] = row]]
    PROVE  Texts!Without(h, {q})
  <1>1. shown' = Texts!At(shown, h, q, {})
    <2>1. shown' = Texts!At(shown, h, q, Seen(h, row))
      BY RowShown
    <2> QED
      BY <2>1, NothingSeen
  <1>2. shown' = [shown EXCEPT ![h] = [r \in Posts |-> IF r \in {q} THEN {} ELSE @[r]]]
    <2>1. shown[h] = [r \in Posts |-> shown[h][r]]
      BY DEF shown
    <2>2. [shown[h] EXCEPT ![q] = {}] = [r \in Posts |-> IF r \in {q} THEN {} ELSE shown[h][r]]
      BY <2>1
    <2> QED
      BY <1>1, <2>2 DEF Texts!At
  <1> QED
    BY <1>2 DEF Texts!Without

-----------------------------------------------------------------------------
(* ... each step that a reader may see.                                    *)

\* The history stays, or grows by one text made by now.
Grown ==
    \/ made' = made
    \/ \E h \in Hubs, q \in Posts : \E x \in [by : {h}, ts : Nat, cites : {{}}] :
          /\ x.ts <= clock'[h]
          /\ made' = Texts!At(made, h, q, made[h][q] \cup {x})

\* What a step is to the readers.
ReadersStep == Grown /\ (Texts!Next \/ UNCHANGED <<made, shown, gone>>)

LEMMA TakenAwayStep ==
    ASSUME TInv, MadeInv, MadeNext, NEW h \in Hubs, NEW q \in Posts, Delete(h, q) \/ Retranslate(h, q)
    PROVE  ReadersStep
  <1>1. rows' = [rows EXCEPT ![h] = [@ EXCEPT ![q] = NoRow]]
    BY DEF Delete, Retranslate
  <1>2. ~NoRow.kept
    BY DEF NoRow
  <1>3. made' = made /\ Texts!Without(h, {q})
    <2>1. By(h, Seen(h, NoRow)) = {}
      BY <1>2, NothingSeen
    <2> QED
      BY <1>1, <1>2, <2>1, WrittenStep, ShownLess
  <1>4. CASE Delete(h, q)
    <2>1. gone' = [gone EXCEPT ![h] = @ \cup {q}]
      BY <1>4 DEF Delete
    <2>2. Texts!Delete(h, q)
      BY <1>3, <2>1 DEF Texts!Delete
    <2>3. q \in {} \cup {[r \in Posts |-> r][k] : k \in Posts}
      OBVIOUS
    <2> QED
      BY <1>3, <2>2, <2>3 DEF ReadersStep, Grown, Texts!Next
  <1>5. CASE Retranslate(h, q)
    <2>1. h \in Redoes /\ gone' = gone
      BY <1>5 DEF Retranslate
    <2>2. Texts!Withdraw(h, {q})
      BY <1>3, <2>1 DEF Texts!Withdraw
    <2> QED
      BY <1>3, <2>2 DEF ReadersStep, Grown, Texts!Next
  <1> QED
    BY <1>4, <1>5

LEMMA FailStep ==
    ASSUME TInv, MadeInv, MadeNext, NEW h \in Hubs, NEW q \in Posts, Fail(h, q)
    PROVE  ReadersStep
  <1>1. h \in Translators /\ gone' = gone /\ SetTranslation(h, q, NoRow, 0)
    BY DEF Fail, TInv, WorkInv
  <1>2. PICK row : row = [NoRow EXCEPT !.tries = rows[h][q].tries + 1, !.rev = 0]
    OBVIOUS
  <1>3. ~row.kept
    BY <1>2 DEF NoRow
  <1>4. rows' = IF q \in here[h] THEN [rows EXCEPT ![h] = [@ EXCEPT ![q] = row]] ELSE rows
    BY <1>1, <1>2 DEF SetTranslation
  <1>5. CASE q \in here[h]
    <2>1. By(h, Seen(h, row)) = {}
      BY <1>3, NothingSeen
    <2>2. made' = made /\ Texts!Without(h, {q})
      BY <1>3, <1>4, <1>5, <2>1, WrittenStep, ShownLess
    <2>3. Texts!Withdraw(h, {q})
      BY <1>1, <2>2 DEF Texts!Withdraw
    <2> QED
      BY <2>2, <2>3 DEF ReadersStep, Grown, Texts!Next
  <1>6. CASE q \notin here[h]
    BY <1>1, <1>4, <1>6, StillStep DEF ReadersStep, Grown
  <1> QED
    BY <1>5, <1>6

LEMMA TranslateStep ==
    ASSUME TInv, MadeInv, MadeNext, NEW h \in Hubs, NEW q \in Posts, NEW t \in Times[h], Translate(h, q, t)
    PROVE  ReadersStep
  <1>1. /\ h \in Translators /\ gone' = gone /\ t > clock[h]
        /\ SetTranslation(h, q, [NoRow EXCEPT !.kept = TRUE, !.ts = t], NextRev(h))
    BY DEF Translate, TInv, WorkInv
  <1>2. PICK row : row = [[NoRow EXCEPT !.kept = TRUE, !.ts = t] EXCEPT !.tries = rows[h][q].tries + 1, !.rev = NextRev(h)]
    OBVIOUS
  <1>3. row.kept = TRUE /\ row.origin = Local /\ row.ts = t
    BY <1>2 DEF NoRow
  <1>4. rows' = IF q \in here[h] THEN [rows EXCEPT ![h] = [@ EXCEPT ![q] = row]] ELSE rows
    BY <1>1, <1>2 DEF SetTranslation
  <1>5. CASE q \in here[h]
    <2>1. PICK x : x = [by |-> h, ts |-> t, cites |-> {}]
      OBVIOUS
    <2>2. Seen(h, row) = {x} /\ x \in Texts!TextsOf(h)
      BY <1>3, <2>1 DEF Seen, Texts!TextsOf
    <2>3. /\ shown' = Texts!At(shown, h, q, {x}) /\ shown'[h][q] = {x}
          /\ \A g \in Hubs, r \in Posts : ~ (g = h /\ r = q) => shown'[g][r] = shown[g][r]
      <3>1. rows' = [rows EXCEPT ![h] = [@ EXCEPT ![q] = row]]
        BY <1>4, <1>5
      <3>2. /\ shown' = Texts!At(shown, h, q, Seen(h, row)) /\ shown'[h][q] = Seen(h, row)
            /\ \A g \in Hubs, r \in Posts : ~ (g = h /\ r = q) => shown'[g][r] = shown[g][r]
        BY <3>1, RowShown
      <3> QED
        BY <2>2, <3>2
    <2>4. made' = Texts!At(made, h, q, made[h][q] \cup {x})
      <3>1. made' = [g \in Hubs |-> [r \in Posts |-> made[g][r] \cup By(g, shown'[g][r])]]
        BY DEF MadeNext
      <3>2. \A g \in Hubs, r \in Posts :
               made[g][r] \cup By(g, shown'[g][r]) = IF g = h /\ r = q THEN made[h][q] \cup {x} ELSE made[g][r]
        <4>1. ASSUME NEW g \in Hubs, NEW r \in Posts
              PROVE  made[g][r] \cup By(g, shown'[g][r]) =
                         IF g = h /\ r = q THEN made[h][q] \cup {x} ELSE made[g][r]
          <5>1. CASE g = h /\ r = q
            <6>1. By(h, {x}) = {x}
              BY <2>1 DEF By
            <6> QED
              BY <2>3, <5>1, <6>1
          <5>2. CASE ~ (g = h /\ r = q)
            <6>1. shown'[g][r] = shown[g][r]
              BY <2>3, <5>2
            <6>2. By(g, shown[g][r]) \subseteq made[g][r]
              BY DEF MadeInv
            <6> QED
              BY <5>2, <6>1, <6>2
          <5> QED
            BY <5>1, <5>2
        <4> QED
          BY <4>1
      <3> DEFINE S == SUBSET [by : Hubs, ts : Nat, cites : {{}}]
      <3>3. made \in [Hubs -> [Posts -> S]]
        BY DEF MadeInv
      <3> HIDE DEF S
      <3>4. made' = [g \in Hubs |-> [r \in Posts |-> IF g = h /\ r = q THEN made[h][q] \cup {x} ELSE made[g][r]]]
        BY <3>1, <3>2
      <3>5. [made[h] EXCEPT ![q] = made[h][q] \cup {x}] =
               [r \in Posts |-> IF r = q THEN made[h][q] \cup {x} ELSE made[h][r]]
        BY <3>3
      <3>6. [made EXCEPT ![h] = [@ EXCEPT ![q] = made[h][q] \cup {x}]] =
               [g \in Hubs |-> IF g = h THEN [r \in Posts |-> IF r = q THEN made[h][q] \cup {x} ELSE made[h][r]]
                               ELSE made[g]]
        BY <3>3, <3>5
      <3>7. ASSUME NEW g \in Hubs
            PROVE  (IF g = h THEN [r \in Posts |-> IF r = q THEN made[h][q] \cup {x} ELSE made[h][r]] ELSE made[g]) =
                       [r \in Posts |-> IF g = h /\ r = q THEN made[h][q] \cup {x} ELSE made[g][r]]
        BY <3>3
      <3> QED
        BY <3>4, <3>6, <3>7 DEF Texts!At
    <2>5. [r \in Posts |-> r][q] \notin gone[h]
      BY <1>5 DEF MadeInv
    <2>6. \A j \in Posts : \A y \in made[h][j] : y.ts < x.ts
      <3>1. ASSUME NEW j \in Posts, NEW y \in made[h][j] PROVE y.ts < x.ts
        <4>1. y.ts <= clock[h] /\ y.ts \in Nat
          BY DEF MadeInv
        <4>2. clock[h] \in Nat /\ t \in Nat
          BY TimesNat DEF TInv, RestInv
        <4>3. x.ts = t
          BY <2>1
        <4> QED
          BY <1>1, <4>1, <4>2, <4>3
      <3> QED
        BY <3>1
    <2>7. Texts!Make(h, q, x)
      BY <1>1, <2>3, <2>4, <2>5, <2>6 DEF Texts!Make
    <2>8. Grown
      <3>1. clock' = [clock EXCEPT ![h] = t] /\ clock \in [Hubs -> Nat] /\ t \in Nat
        BY TimesNat DEF Translate, TInv, RestInv
      <3>2. x \in [by : {h}, ts : Nat, cites : {{}}] /\ x.ts <= clock'[h]
        BY <2>1, <3>1
      <3> QED
        BY <2>4, <3>2 DEF Grown
    <2> QED
      BY <2>2, <2>7, <2>8 DEF ReadersStep, Texts!Next
  <1>6. CASE q \notin here[h]
    BY <1>1, <1>4, <1>6, StillStep DEF ReadersStep, Grown
  <1> QED
    BY <1>5, <1>6

LEMMA AcceptStep ==
    ASSUME TInv, MadeInv, MadeNext, NEW h \in Hubs, Accept(h)
    PROVE  ReadersStep
  <1>1. PICK o : o = puller[h].offer
    OBVIOUS
  <1>2. puller[h].pc = "keep" /\ gone' = gone
    BY DEF Accept
  <1>3. Good(h, o) /\ o \in Offer /\ InHand(h, o) /\ Known(o)
    BY <1>1, <1>2 DEF TInv, PullersInv, GoodPuller, Good, InHand, MadeInv
  <1>4. /\ o.peer \in Hubs /\ o.peer \in Pulls[h] /\ o.peer # h /\ o.peer # Local /\ o.post \in Posts
        /\ o.ts \in Nat
    BY <1>3, LocalAssumption, PullsAssumption DEF Good, Offer
  <1>5. PICK row : row = [kept |-> TRUE, tries |-> rows[h][o.post].tries, ts |-> o.ts,
                          origin |-> o.peer, rev |-> 0]
    OBVIOUS
  <1>6. rows' = IF Accepts(h, o) THEN [rows EXCEPT ![h] = [@ EXCEPT ![o.post] = row]] ELSE rows
    BY <1>1, <1>5 DEF Accept
  <1>7. CASE ~Accepts(h, o)
    BY <1>2, <1>6, <1>7, StillStep DEF ReadersStep, Grown
  <1>8. CASE Accepts(h, o)
    <2>1. PICK x, p, q : x = TextOf(o) /\ p = o.peer /\ q = o.post
      OBVIOUS
    <2>2. Seen(h, row) = {x} /\ By(h, Seen(h, row)) = {}
      <3>1. row.kept = TRUE /\ row.origin = o.peer /\ row.ts = o.ts
        BY <1>5
      <3>2. Seen(h, row) = {x} /\ x.by = o.peer
        BY <1>4, <2>1, <3>1 DEF Seen, TextOf
      <3> QED
        BY <1>4, <3>2 DEF By
    <2>3. rows' = [rows EXCEPT ![h] = [@ EXCEPT ![q] = row]] /\ q \in Posts
      BY <1>4, <1>6, <1>8, <2>1
    <2>4. made' = made
      BY <2>2, <2>3, WrittenStep
    <2>5. shown' = Texts!At(shown, h, q, {x})
      <3>1. shown' = Texts!At(shown, h, q, Seen(h, row))
        BY <2>3, RowShown
      <3> QED
        BY <2>2, <3>1
    <2>6. x \in made[p][q]
      BY <1>3, <2>1 DEF Known
    <2>7. [r \in Posts |-> r][q] \notin gone[h]
      BY <1>8, <2>1, <2>3 DEF Accepts, MadeInv
    <2>8. \A y \in shown[h][q] : y.ts < x.ts
      <3>1. shown[h][q] = Seen(h, rows[h][q])
        BY <2>3 DEF shown
      <3>2. ASSUME NEW y \in shown[h][q] PROVE rows[h][q].kept /\ y.ts = rows[h][q].ts
        BY <3>1 DEF Seen
      <3>3. rows[h][q].kept => rows[h][q].ts < x.ts
        BY <1>8, <2>1 DEF Accepts, TextOf
      <3> QED
        BY <3>2, <3>3
    <2>9. Texts!Take(h, p, q, x)
      BY <1>2, <2>4, <2>5, <2>6, <2>7, <2>8 DEF Texts!Take
    <2>10. p \in Pulls[h]
      BY <1>4, <2>1
    <2> QED
      BY <2>3, <2>4, <2>6, <2>9, <2>10 DEF ReadersStep, Grown, Texts!Next
  <1> QED
    BY <1>7, <1>8

LEMMA ReadersSee ==
    ASSUME TInv, MadeInv, MadeNext
    PROVE  ReadersStep
  <1>0. Next
    BY DEF MadeNext
  <1>1. ASSUME UNCHANGED <<rows, gone>> PROVE ReadersStep
    BY <1>1, StillStep DEF ReadersStep, Grown
  <1>2. ASSUME NEW h \in Hubs, NEW q \in Posts,
               \/ Create(h, q) \/ StepOver(h, q) \/ SettleFor(h, q)
               \/ \E l \in Tongues[h][q] : SetLang(h, q, l)
        PROVE  UNCHANGED <<rows, gone>>
    BY <1>2 DEF Create, StepOver, SettleFor, SetLang
  <1>3. ASSUME NEW h \in Hubs, List(h) \/ Settle(h) \/ Restart(h) \/ \E p \in Pulls[h] : StartPull(h, p)
        PROVE  UNCHANGED <<rows, gone>>
    BY <1>3 DEF List, Settle, Restart, StartPull
  <1>4. ASSUME NEW h \in Hubs, Busy(h) PROVE UNCHANGED <<rows, gone>> \/ Accept(h)
    BY <1>4 DEF Busy, FetchFails, Fetch, Look, Aside, Drop, PageDone, SettleDone
  <1> QED
    BY <1>0, <1>1, <1>2, <1>3, <1>4, TakenAwayStep, FailStep, TranslateStep, AcceptStep DEF Next

LEMMA NextMade == TInv /\ MadeInv /\ MadeNext => MadeInv'
  <1> SUFFICES ASSUME TInv, MadeInv, MadeNext PROVE MadeInv'
    OBVIOUS
  <1>0. [Next]_vars /\ TInv'
    BY NextT DEF MadeNext
  <1>1. \A h \in Hubs, q \in Posts : made'[h][q] = made[h][q] \cup By(h, shown'[h][q])
    BY DEF MadeNext
  <1>2. \A h \in Hubs : here'[h] \cap gone'[h] = {} /\ clock[h] <= clock'[h]
    BY <1>0, HereGone DEF MadeInv
  <1>3. \A h \in Hubs : clock[h] \in Nat /\ clock'[h] \in Nat
    BY <1>0 DEF TInv, RestInv
  <1> DEFINE S == [by : Hubs, ts : Nat, cites : {{}}]
  <1>4. made \in [Hubs -> [Posts -> SUBSET S]]
    BY DEF MadeInv
  <1>5. /\ made' \in [Hubs -> [Posts -> SUBSET S]]
        /\ \A h \in Hubs, q \in Posts : \A x \in made'[h][q] : x.by = h /\ x.ts <= clock'[h]
    <2>1. CASE made' = made
      <3>1. ASSUME NEW h \in Hubs, NEW q \in Posts, NEW x \in made[h][q]
            PROVE  x.by = h /\ x.ts <= clock'[h]
        <4>1. x.by = h /\ x.ts <= clock[h] /\ x.ts \in Nat
          BY <1>4 DEF MadeInv
        <4> QED
          BY <1>2, <1>3, <4>1
      <3> HIDE DEF S
      <3> QED
        BY <1>4, <2>1, <3>1
    <2>2. ASSUME NEW h \in Hubs, NEW q \in Posts, NEW y \in [by : {h}, ts : Nat, cites : {{}}],
                 y.ts <= clock'[h], made' = Texts!At(made, h, q, made[h][q] \cup {y})
          PROVE  /\ made' \in [Hubs -> [Posts -> SUBSET S]]
                 /\ \A g \in Hubs, r \in Posts : \A x \in made'[g][r] : x.by = g /\ x.ts <= clock'[g]
      <3>1. y \in S /\ y.by = h
        OBVIOUS
      <3>2. made' = [made EXCEPT ![h] = [@ EXCEPT ![q] = made[h][q] \cup {y}]]
        BY <2>2 DEF Texts!At
      <3>3. ASSUME NEW g \in Hubs, NEW r \in Posts, NEW x \in made[g][r]
            PROVE  x.by = g /\ x.ts <= clock'[g]
        <4>1. x.by = g /\ x.ts <= clock[g] /\ x.ts \in Nat
          BY <1>4 DEF MadeInv
        <4> QED
          BY <1>2, <1>3, <4>1
      <3> HIDE DEF S
      <3>4. made[h][q] \cup {y} \in SUBSET S
        BY <1>4, <3>1
      <3>5. /\ made' \in [Hubs -> [Posts -> SUBSET S]]
            /\ \A g \in Hubs, r \in Posts :
                  made'[g][r] = IF g = h /\ r = q THEN made[h][q] \cup {y} ELSE made[g][r]
        BY <1>4, <3>2, <3>4
      <3>6. ASSUME NEW g \in Hubs, NEW r \in Posts, NEW x \in made'[g][r]
            PROVE  x.by = g /\ x.ts <= clock'[g]
        <4>1. CASE x \in made[g][r]
          BY <3>3, <4>1
        <4>2. CASE g = h /\ r = q /\ x = y
          BY <2>2, <3>1, <4>2
        <4> QED
          BY <3>5, <3>6, <4>1, <4>2
      <3> QED
        BY <3>5, <3>6
    <2> QED
      BY <2>1, <2>2, ReadersSee DEF ReadersStep, Grown
  <1>6. \A h \in Hubs, q \in Posts : By(h, shown'[h][q]) \subseteq made'[h][q]
    BY <1>1
  <1>7. ASSUME NEW h \in Hubs, NEW o, InHand(h, o)' PROVE Known(o)'
    <2>1. Known(o)
      BY <1>0, <1>7, NextFrom, KnownFrom
    <2>2. o.peer \in Hubs /\ o.post \in Posts
      <3>1. Good(h, o)
        BY <1>0, <1>7 DEF TInv, PullersInv, WaitInv, GoodPuller, GoodQueue, InHand, Good
      <3> QED
        BY <3>1 DEF Good, Offer
    <2>3. TextOf(o) \in made'[o.peer][o.post]
      BY <1>1, <2>1, <2>2 DEF Known
    <2> QED
      BY <2>3 DEF Known
  <1> QED
    BY <1>2, <1>5, <1>6, <1>7 DEF MadeInv

\* Nothing moves.
LEMMA SameStep ==
    ASSUME TInv, MadeInv, UNCHANGED <<vars, made>>
    PROVE  MadeInv' /\ UNCHANGED <<made, shown, gone>>
  BY DEF vars, MadeInv, shown, InHand, Known

LEMMA MadeHolds == MadeSpec => [](TInv /\ MadeInv)
  <1>1. TInv /\ MadeInv /\ [MadeNext]_<<vars, made>> => (TInv /\ MadeInv)'
    <2>1. [MadeNext]_<<vars, made>> => [Next]_vars
      BY DEF MadeNext, vars
    <2> QED
      BY <2>1, NextT, NextMade, SameStep
  <1>2. MadeInit => TInv /\ MadeInv
    BY InitT, InitMade DEF MadeInit
  <1> QED
    BY <1>1, <1>2, PTL DEF MadeSpec

\* The hubs do what HubTexts promises their readers, for any number of them and any
\* pulls between them.
THEOREM TranslationsImplement == MadeSpec => TextsSpec
  <1>1. MadeInit => Texts!Init
    <2> SUFFICES ASSUME MadeInit PROVE Texts!Init
      OBVIOUS
    <2>1. made = [h \in Hubs |-> [q \in Posts |-> {}]] /\ gone = [h \in Hubs |-> {}]
      BY DEF MadeInit, Init
    <2>2. \A h \in Hubs, q \in Posts : Seen(h, rows[h][q]) = {}
      BY DEF MadeInit, Init, Seen, NoRow
    <2>3. shown = [h \in Hubs |-> [q \in Posts |-> {}]]
      BY <2>2 DEF shown
    <2> QED
      BY <2>1, <2>3 DEF Texts!Init
  <1>2. TInv /\ MadeInv /\ [MadeNext]_<<vars, made>> => [Texts!Next]_(Texts!textVars)
    BY ReadersSee, SameStep DEF ReadersStep, Texts!textVars
  <1> QED
    BY <1>1, <1>2, MadeHolds, PTL DEF MadeSpec, TextsSpec, Texts!Spec

\* No translation a hub made again or lost is handed back to it by those who took it:
\* a text is taken from its maker only, and no hub pulls from itself.
THEOREM NotHandedBackHolds == MadeSpec => NotHandedBack
  <1> DEFINE Back == \A h \in Hubs, k \in Posts : \A x \in made[h][k] \ shown[h][k] : x \notin shown'[h][k]
  <1>1. ASSUME TInv, MadeInv, ReadersStep PROVE Back
    <2> SUFFICES ASSUME NEW g \in Hubs, NEW j \in Posts, NEW x \in made[g][j] \ shown[g][j], x \in shown'[g][j]
                 PROVE  FALSE
      OBVIOUS
    <2>0. /\ x.by = g /\ x.ts \in Nat
          /\ \A h \in Hubs : shown[h] = [k \in Posts |-> shown[h][k]]
          /\ shown = [h \in Hubs |-> shown[h]]
      BY <1>1 DEF MadeInv, shown
    <2>1. ASSUME NEW h \in Hubs, NEW k \in Posts, NEW y, shown' = Texts!At(shown, h, k, {y})
          PROVE  x = y /\ g = h /\ j = k
      <3>1. shown' = [shown EXCEPT ![h] = [@ EXCEPT ![k] = {y}]]
        BY <2>1 DEF Texts!At
      <3>2. shown'[g][j] = IF g = h /\ j = k THEN {y} ELSE shown[g][j]
        BY <2>0, <3>1
      <3> QED
        BY <3>2
    <2>2. ASSUME NEW h \in Hubs, NEW k \in Posts, NEW y \in Texts!TextsOf(h), Texts!Make(h, k, y) PROVE FALSE
      <3>1. x = y /\ g = h /\ j = k
        BY <2>1, <2>2 DEF Texts!Make
      <3> QED
        BY <2>0, <2>2, <3>1 DEF Texts!Make
    <2>3. ASSUME NEW h \in Hubs, NEW k \in Posts, NEW p \in Pulls[h], NEW y \in made[p][k], Texts!Take(h, p, k, y)
          PROVE  FALSE
      <3>1. x = y /\ g = h
        BY <2>1, <2>3 DEF Texts!Take
      <3>2. p \in Hubs /\ p # h
        BY PullsAssumption
      <3>3. y.by = p
        BY <1>1, <3>2 DEF MadeInv
      <3> QED
        BY <2>0, <3>1, <3>2, <3>3
    <2>4. ASSUME NEW h \in Hubs, NEW K, Texts!Without(h, K) PROVE FALSE
      <3>1. shown' = [shown EXCEPT ![h] = [k \in Posts |-> IF k \in K THEN {} ELSE @[k]]]
        BY <2>4 DEF Texts!Without
      <3>2. shown'[g][j] \subseteq shown[g][j]
        BY <2>0, <3>1
      <3> QED
        BY <3>2
    <2> QED
      BY <1>1, <2>2, <2>3, <2>4 DEF ReadersStep, Texts!Next, Texts!Delete, Texts!Withdraw
  <1>2. TInv /\ MadeInv /\ [MadeNext]_<<vars, made>> => [Back]_(Texts!textVars)
    BY <1>1, ReadersSee, SameStep DEF Texts!textVars
  <1> QED
    BY <1>2, MadeHolds, PTL DEF MadeSpec, NotHandedBack, Texts!NotHandedBack
=============================================================================
