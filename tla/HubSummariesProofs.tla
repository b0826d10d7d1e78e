--------------------------- MODULE HubSummariesProofs ---------------------------
(***************************************************************************)
(* A summary that a hub wrote from its thread cites no reply that was      *)
(* deleted while it stood in the thread, and what readers see of the       *)
(* summaries is what HubTexts promises, for any hubs, replies, deletes,    *)
(* models, ladders and limits.                                             *)
(***************************************************************************)
EXTENDS HubSummaryTexts, HubInduction, SequenceTheorems

Chain == Cardinality(Replies)

LEMMA Sizes == /\ Chain \in Nat /\ \A r \in Replies : Chain # 0 /\ Parent[r] \in Replies \cup {Root}
               /\ Root \notin Replies /\ Local \notin Hubs
               /\ Steps \subseteq Nat \ {0} /\ MaxTries \in Nat \ {0} /\ Levels \in Nat \ {0}
  <1>1. Chain \in Nat
    BY FiniteAssumption, FS_CardinalityType DEF Chain
  <1>2. \A r \in Replies : Chain # 0
    BY FiniteAssumption, FS_EmptySet DEF Chain
  <1> QED
    BY <1>1, <1>2, ParentAssumption, LocalAssumption, LimitsAssumption

-----------------------------------------------------------------------------
(* The way up.                                                             *)

\* What up[n][q] is, by one step of the walk.
Climbs(up, ps) ==
    \A n \in 0 .. Chain, q \in Replies :
        /\ up[n][q] \in Nat
        /\ up[n][q] = IF n = 0 \/ ~({q, Parent[q]} \subseteq ps) THEN 0
                      ELSE IF Parent[q] = Root THEN 1
                      ELSE IF up[n - 1][Parent[q]] = 0 THEN 0 ELSE up[n - 1][Parent[q]] + 1

LEMMA Climbing == ASSUME NEW ps PROVE \E up : Climbs(up, ps) /\ \A r : Climb(ps, r) = up[Chain][r]
  <1> DEFINE D == [Replies -> Nat]
             Start == [q \in Replies |-> 0]
             Step(x) == [q \in Replies |-> IF ~({q, Parent[q]} \subseteq ps) THEN 0
                                           ELSE IF Parent[q] = Root THEN 1
                                           ELSE IF x[Parent[q]] = 0 THEN 0 ELSE x[Parent[q]] + 1]
             g == [x \in (1 .. Chain) \X D |-> Step(x[2])]
             R(f) == [n \in 0 .. Chain |-> [q \in Replies |->
                        IF n = 0 \/ ~({q, Parent[q]} \subseteq ps) THEN 0
                        ELSE IF Parent[q] = Root THEN 1
                        ELSE IF f[n - 1][Parent[q]] = 0 THEN 0 ELSE f[n - 1][Parent[q]] + 1]]
  <1>0. Chain \in Nat /\ \A q \in Replies : Parent[q] # Root => Parent[q] \in Replies
    BY Sizes
  <1>1. Start \in D
    OBVIOUS
  <1>2. ASSUME NEW x \in D PROVE Step(x) \in D
    BY <1>0
  <1>3. \A n \in 1 .. Chain, x \in D : g[<<n, x>>] = Step(x) /\ g[<<n, x>>] \in D
    <2> HIDE DEF D, Step
    <2> QED
      BY <1>2
  <1> HIDE DEF g
  <1>4. PICK f : Iterates(f, D, Start, Chain, g)
    <2> HIDE DEF D, Start, Step
    <2> QED
      BY <1>0, <1>1, <1>3, Iteration
  <1>5. \A n \in 1 .. Chain : f[n - 1] \in D /\ f[n] = Step(f[n - 1])
    <2> TAKE n \in 1 .. Chain
    <2>1. n - 1 \in 0 .. Chain
      BY <1>0
    <2> HIDE DEF D, Step, Start
    <2>2. f[n - 1] \in D
      BY <1>4, <2>1 DEF Iterates
    <2>3. f[n] = g[<<n, f[n - 1]>>]
      BY <1>4 DEF Iterates
    <2> QED
      BY <1>3, <2>2, <2>3
  <1>6. f = R(f)
    <2>1. DOMAIN f = 0 .. Chain /\ f = [n \in 0 .. Chain |-> f[n]] /\ f[0] = Start
      <3> HIDE DEF D, Start
      <3> QED
        BY <1>4 DEF Iterates
    <2>2. \A n \in 0 .. Chain : f[n] = [q \in Replies |->
                        IF n = 0 \/ ~({q, Parent[q]} \subseteq ps) THEN 0
                        ELSE IF Parent[q] = Root THEN 1
                        ELSE IF f[n - 1][Parent[q]] = 0 THEN 0 ELSE f[n - 1][Parent[q]] + 1]
      <3> TAKE n \in 0 .. Chain
      <3>1. CASE n = 0
        BY <2>1, <3>1
      <3>2. CASE n # 0
        <4>1. n \in 1 .. Chain
          BY <1>0, <3>2
        <4>2. f[n] = Step(f[n - 1])
          BY <1>5, <4>1
        <4> QED
          BY <3>2, <4>2
      <3> QED
        BY <3>1, <3>2
    <2> QED
      BY <2>1, <2>2
  <1> DEFINE a == CHOOSE h : h = R(h)
  <1>7. a = R(a)
    <2> HIDE DEF R
    <2> QED
      BY <1>6
  <1>8. \A r : Climb(ps, r) = a[Chain][r]
    BY DEF Climb, Chain
  <1> HIDE DEF a
  <1>9. \A n \in 0 .. Chain, q \in Replies :
           a[n][q] = IF n = 0 \/ ~({q, Parent[q]} \subseteq ps) THEN 0
                     ELSE IF Parent[q] = Root THEN 1
                     ELSE IF a[n - 1][Parent[q]] = 0 THEN 0 ELSE a[n - 1][Parent[q]] + 1
    <2> SUFFICES ASSUME NEW n \in 0 .. Chain, NEW q \in Replies
                 PROVE  R(a)[n][q] = IF n = 0 \/ ~({q, Parent[q]} \subseteq ps) THEN 0
                                     ELSE IF Parent[q] = Root THEN 1
                                     ELSE IF a[n - 1][Parent[q]] = 0 THEN 0 ELSE a[n - 1][Parent[q]] + 1
      <3> HIDE DEF R
      <3> QED
        BY <1>7
    <2> QED
      OBVIOUS
  <1> DEFINE S == {n \in Nat : n <= Chain => \A q \in Replies : a[n][q] \in Nat}
  <1>10. 0 \in S
    BY <1>0, <1>9
  <1>11. ASSUME NEW n \in Nat, n \in S PROVE n + 1 \in S
    <2> SUFFICES ASSUME n + 1 <= Chain, NEW q \in Replies PROVE a[n + 1][q] \in Nat
      OBVIOUS
    <2>1. n + 1 \in 0 .. Chain /\ n + 1 # 0 /\ (n + 1) - 1 = n /\ \A u \in Replies : a[n][u] \in Nat
      BY <1>0, <1>11
    <2>2. Parent[q] # Root => a[n][Parent[q]] \in Nat
      BY <1>0, <2>1
    <2>3. a[n + 1][q] \in {0, 1} \/ (Parent[q] # Root /\ a[n + 1][q] = a[n][Parent[q]] + 1)
      BY <1>9, <2>1
    <2> QED
      BY <2>2, <2>3
  <1>12. \A n \in Nat : n \in S
    <2> HIDE DEF S
    <2> QED
      BY <1>10, <1>11, Induction
  <1>13. Climbs(a, ps)
    BY <1>0, <1>9, <1>12 DEF Climbs
  <1> QED
    BY <1>8, <1>13

\* With more posts a chain that was there is there.
LEMMA ClimbGrows ==
    ASSUME NEW ps, NEW qs, ps \subseteq qs, NEW r \in Replies, Climb(ps, r) # 0
    PROVE  Climb(qs, r) = Climb(ps, r)
  <1>1. PICK a : Climbs(a, ps) /\ \A x : Climb(ps, x) = a[Chain][x]
    BY Climbing
  <1>2. PICK b : Climbs(b, qs) /\ \A x : Climb(qs, x) = b[Chain][x]
    BY Climbing
  <1> DEFINE S == {n \in Nat : n <= Chain => \A q \in Replies : a[n][q] # 0 => b[n][q] = a[n][q]}
  <1>3. 0 \in S
    BY <1>1, Sizes DEF Climbs
  <1>4. ASSUME NEW n \in Nat, n \in S PROVE n + 1 \in S
    <2> SUFFICES ASSUME n + 1 <= Chain, NEW q \in Replies, a[n + 1][q] # 0 PROVE b[n + 1][q] = a[n + 1][q]
      OBVIOUS
    <2>1. n + 1 \in 0 .. Chain /\ n + 1 # 0 /\ (n + 1) - 1 = n
          /\ \A u \in Replies : a[n][u] # 0 => b[n][u] = a[n][u]
      BY <1>4, Sizes
    <2>2. /\ a[n + 1][q] = IF ~({q, Parent[q]} \subseteq ps) THEN 0
                           ELSE IF Parent[q] = Root THEN 1
                           ELSE IF a[n][Parent[q]] = 0 THEN 0 ELSE a[n][Parent[q]] + 1
          /\ b[n + 1][q] = IF ~({q, Parent[q]} \subseteq qs) THEN 0
                           ELSE IF Parent[q] = Root THEN 1
                           ELSE IF b[n][Parent[q]] = 0 THEN 0 ELSE b[n][Parent[q]] + 1
      BY <1>1, <1>2, <2>1 DEF Climbs
    <2>3. {q, Parent[q]} \subseteq ps /\ {q, Parent[q]} \subseteq qs
      BY <2>2
    <2>4. CASE Parent[q] = Root
      BY <2>2, <2>3, <2>4
    <2>5. CASE Parent[q] # Root
      <3>1. Parent[q] \in Replies /\ a[n][Parent[q]] # 0
        BY <2>2, <2>3, <2>5, Sizes
      <3> QED
        BY <2>1, <2>2, <2>3, <2>5, <3>1
    <2> QED
      BY <2>4, <2>5
  <1>5. \A n \in Nat : n \in S
    <2> HIDE DEF S
    <2> QED
      BY <1>3, <1>4, Induction
  <1>6. Chain \in S /\ Chain <= Chain
    BY <1>5, Sizes
  <1> QED
    BY <1>1, <1>2, <1>6

\* A post with a chain is held.
LEMMA ClimbHeld ==
    ASSUME NEW ps, NEW r \in Replies, Climb(ps, r) # 0
    PROVE  r \in ps /\ Climb(ps, r) \in Nat
  <1>1. PICK a : Climbs(a, ps) /\ \A x : Climb(ps, x) = a[Chain][x]
    BY Climbing
  <1>2. Chain \in 0 .. Chain
    BY Sizes
  <1> QED
    BY <1>1, <1>2 DEF Climbs

\* A chain through ps that is also one through qs is one through what both hold.
LEMMA ClimbBoth ==
    ASSUME NEW ps, NEW qs, NEW r \in Replies, Climb(ps, r) # 0, Climb(qs, r) # 0
    PROVE  Climb(ps \cap qs, r) = Climb(ps, r)
  <1>1. PICK a : Climbs(a, ps) /\ \A x : Climb(ps, x) = a[Chain][x]
    BY Climbing
  <1>2. PICK b : Climbs(b, qs) /\ \A x : Climb(qs, x) = b[Chain][x]
    BY Climbing
  <1>3. PICK c : Climbs(c, ps \cap qs) /\ \A x : Climb(ps \cap qs, x) = c[Chain][x]
    BY Climbing
  <1> DEFINE S == {n \in Nat : n <= Chain =>
                     \A q \in Replies : a[n][q] # 0 /\ b[n][q] # 0 => c[n][q] = a[n][q]}
  <1>4. 0 \in S
    BY <1>1, Sizes DEF Climbs
  <1>5. ASSUME NEW n \in Nat, n \in S PROVE n + 1 \in S
    <2> SUFFICES ASSUME n + 1 <= Chain, NEW q \in Replies, a[n + 1][q] # 0, b[n + 1][q] # 0
                 PROVE  c[n + 1][q] = a[n + 1][q]
      OBVIOUS
    <2>1. n + 1 \in 0 .. Chain /\ n + 1 # 0 /\ (n + 1) - 1 = n
          /\ \A u \in Replies : a[n][u] # 0 /\ b[n][u] # 0 => c[n][u] = a[n][u]
      BY <1>5, Sizes
    <2>2. /\ a[n + 1][q] = IF ~({q, Parent[q]} \subseteq ps) THEN 0
                           ELSE IF Parent[q] = Root THEN 1
                           ELSE IF a[n][Parent[q]] = 0 THEN 0 ELSE a[n][Parent[q]] + 1
          /\ b[n + 1][q] = IF ~({q, Parent[q]} \subseteq qs) THEN 0
                           ELSE IF Parent[q] = Root THEN 1
                           ELSE IF b[n][Parent[q]] = 0 THEN 0 ELSE b[n][Parent[q]] + 1
          /\ c[n + 1][q] = IF ~({q, Parent[q]} \subseteq ps \cap qs) THEN 0
                           ELSE IF Parent[q] = Root THEN 1
                           ELSE IF c[n][Parent[q]] = 0 THEN 0 ELSE c[n][Parent[q]] + 1
      BY <1>1, <1>2, <1>3, <2>1 DEF Climbs
    <2>3. {q, Parent[q]} \subseteq ps /\ {q, Parent[q]} \subseteq qs
      BY <2>2
    <2>4. {q, Parent[q]} \subseteq ps \cap qs
      BY <2>3
    <2>5. CASE Parent[q] = Root
      BY <2>2, <2>3, <2>4, <2>5
    <2>6. CASE Parent[q] # Root
      <3>1. Parent[q] \in Replies /\ a[n][Parent[q]] # 0 /\ b[n][Parent[q]] # 0
        BY <2>2, <2>3, <2>6, Sizes
      <3> QED
        BY <2>1, <2>2, <2>3, <2>4, <2>6, <3>1
    <2> QED
      BY <2>5, <2>6
  <1>6. \A n \in Nat : n \in S
    <2> HIDE DEF S
    <2> QED
      BY <1>4, <1>5, Induction
  <1>7. Chain \in S /\ Chain <= Chain
    BY <1>6, Sizes
  <1> QED
    BY <1>1, <1>2, <1>3, <1>7

\* A delete breaks the chains of what hangs from the post, and no others.
LEMMA ClimbKept ==
    ASSUME NEW ps, ps \subseteq Replies \cup {Root}, NEW r \in Replies, NEW q \in Replies,
           Climb(ps, r) # 0, q # r, q \notin Above(r)
    PROVE  Climb(ps \ {q}, r) = Climb(ps, r)
  <1>1. Climb((Replies \cup {Root}) \ {q}, r) # 0
    BY DEF Above
  <1>2. ps \cap ((Replies \cup {Root}) \ {q}) = ps \ {q}
    OBVIOUS
  <1>3. Climb(ps \cap ((Replies \cup {Root}) \ {q}), r) = Climb(ps, r)
    BY <1>1, ClimbBoth
  <1> QED
    BY <1>2, <1>3

-----------------------------------------------------------------------------
(* The types.                                                              *)

Distinct(queue) == \A i, j \in DOMAIN queue : queue[i] = queue[j] => i = j

\* A reply is held or gone, and goes once.
PostsInv ==
    /\ root \in [Hubs -> {"away", "here", "gone"}]
    /\ replies \in [Hubs -> Seq(Replies)] /\ gone \in [Hubs -> Seq(Replies)]
    /\ \A h \in Hubs : Held(h) \cap Entries(gone[h]) = {} /\ Distinct(gone[h])

\* A row that is not there has had no tries.
GoodRow(row) == row \in Row /\ (row.status = "" => row.tries = 0)

TableOK(table) ==
    /\ table \in [Hubs -> [Steps -> Row]]
    /\ \A h \in Hubs, s \in Steps : GoodRow(table[h][s])

\* A step that a model reads has a try left.
DeskOK(table, desk) ==
    /\ desk \in [Hubs -> Work]
    /\ \A h \in Hubs : desk[h].step # 0 => table[h][desk[h].step].tries < MaxTries

GoodPuller(s) ==
    /\ s \in Puller
    /\ s.mode \in {"fetch", "pull"} => s.peer \in Hubs
    /\ s.pc # "next" => s.offer \in Offer

NumbersInv == revs \in [Hubs -> Nat] /\ cursor \in [Hubs -> [Hubs -> Nat]] /\ clock \in [Hubs -> Nat]
PullersInv == puller \in [Hubs -> Puller] /\ \A h \in Hubs : GoodPuller(puller[h])
WaitInv == waiting \in [Hubs -> Seq(Offer)]
OrigInv == TableOK(orig) /\ DeskOK(orig, writing)
TrInv == TableOK(tr) /\ DeskOK(tr, wording)

SInv == PostsInv /\ OrigInv /\ TrInv /\ NumbersInv /\ PullersInv /\ WaitInv

LEMMA NoRowTyped == NoRow \in Row /\ NoRow.tries = 0 /\ NoRow.status = "" /\ GoodRow(NoRow)
  BY Sizes DEF NoRow, Row, GoodRow

LEMMA NoWorkTyped == NoWork \in Work /\ NoWork.step = 0
  BY DEF NoWork, Work

LEMMA IdleTyped == Idle \in Puller /\ Idle.page = {} /\ Idle.pc = "next" /\ Idle.mode = "idle" /\ GoodPuller(Idle)
  BY DEF Idle, Puller, GoodPuller

LEMMA EntriesOf ==
    ASSUME NEW D, NEW queue \in Seq(D)
    PROVE  /\ Entries(queue) \subseteq D
           /\ \A d \in D : Append(queue, d) \in Seq(D) /\ Entries(Append(queue, d)) = Entries(queue) \cup {d}
  <1>1. Len(queue) \in Nat /\ DOMAIN queue = 1 .. Len(queue) /\ \A i \in 1 .. Len(queue) : queue[i] \in D
    OBVIOUS
  <1>2. Entries(queue) \subseteq D
    BY <1>1 DEF Entries
  <1>3. ASSUME NEW d \in D
        PROVE  Append(queue, d) \in Seq(D) /\ Entries(Append(queue, d)) = Entries(queue) \cup {d}
    <2>1. PICK longer : longer = Append(queue, d)
      OBVIOUS
    <2>2. /\ longer \in Seq(D) /\ DOMAIN longer = 1 .. Len(queue) + 1
          /\ \A i \in 1 .. Len(queue) : longer[i] = queue[i]
          /\ longer[Len(queue) + 1] = d
      BY <1>1, <2>1, AppendProperties
    <2>3. Entries(longer) = {longer[i] : i \in 1 .. Len(queue) + 1}
      BY <2>2 DEF Entries
    <2>4. 1 .. Len(queue) + 1 = (1 .. Len(queue)) \cup {Len(queue) + 1}
      BY <1>1
    <2>5. Entries(longer) = Entries(queue) \cup {d}
      BY <1>1, <2>2, <2>3, <2>4 DEF Entries
    <2> QED
      BY <2>1, <2>2, <2>5
  <1> QED
    BY <1>2, <1>3

LEMMA NothingHeld == \A D : <<>> \in Seq(D) /\ Entries(<<>>) = {} /\ Distinct(<<>>)
  BY DEF Entries, Distinct

LEMMA InitS == Init => SInv
  <1> SUFFICES ASSUME Init PROVE SInv
    OBVIOUS
  <1>1. PostsInv
    <2>1. \A h \in Hubs : gone[h] = <<>>
      BY DEF Init
    <2>2. gone \in [Hubs -> Seq(Replies)]
      BY NothingHeld DEF Init
    <2>3. \A h \in Hubs : Held(h) \cap Entries(gone[h]) = {} /\ Distinct(gone[h])
      BY <2>1, NothingHeld
    <2>4. root \in [Hubs -> {"away", "here", "gone"}] /\ replies \in [Hubs -> Seq(Replies)]
      BY StandingAssumption DEF Init
    <2> QED
      BY <2>2, <2>3, <2>4 DEF PostsInv
  <1>2. OrigInv
    BY NoRowTyped, NoWorkTyped DEF Init, OrigInv, TableOK, DeskOK
  <1>3. TrInv
    BY NoRowTyped, NoWorkTyped DEF Init, TrInv, TableOK, DeskOK
  <1>4. NumbersInv
    BY DEF Init, NumbersInv
  <1>5. PullersInv
    BY IdleTyped DEF Init, PullersInv
  <1>6. WaitInv
    BY NothingHeld DEF Init, WaitInv
  <1> QED
    BY <1>1, <1>2, <1>3, <1>4, <1>5, <1>6 DEF SInv

-----------------------------------------------------------------------------
(* What each part of the state needs of a step.                            *)

LEMMA PutOK ==
    ASSUME NEW table, TableOK(table), NEW h \in Hubs, NEW s \in Steps,
           NEW row, GoodRow(row), NEW new, new = Put(table, h, s, row)
    PROVE  /\ TableOK(new) /\ new[h][s] = row
           /\ \A g \in Hubs, x \in Steps : ~ (g = h /\ x = s) => new[g][x] = table[g][x]
  <1>1. /\ new = [table EXCEPT ![h] = [@ EXCEPT ![s] = row]] /\ table \in [Hubs -> [Steps -> Row]]
        /\ row \in Row
    BY DEF Put, TableOK, GoodRow
  <1>2. new \in [Hubs -> [Steps -> Row]] /\ new[h][s] = row
    BY <1>1
  <1>3. ASSUME NEW g \in Hubs, NEW x \in Steps, ~ (g = h /\ x = s) PROVE new[g][x] = table[g][x]
    BY <1>1, <1>3
  <1>4. ASSUME NEW g \in Hubs, NEW x \in Steps PROVE GoodRow(new[g][x])
    BY <1>2, <1>3 DEF TableOK
  <1>5. TableOK(new)
    BY <1>2, <1>4 DEF TableOK
  <1> QED
    BY <1>2, <1>3, <1>5

\* Rows of a hub go.
LEMMA TakenOK ==
    ASSUME NEW table, TableOK(table), NEW h \in Hubs, NEW rows,
           rows = [s \in Steps |-> rows[s]], \A s \in Steps : rows[s] \in {NoRow, table[h][s]}
    PROVE  /\ TableOK([table EXCEPT ![h] = rows])
           /\ [table EXCEPT ![h] = rows][h] = rows
           /\ \A g \in Hubs \ {h} : [table EXCEPT ![h] = rows][g] = table[g]
           /\ \A desk : DeskOK(table, desk) => DeskOK([table EXCEPT ![h] = rows], desk)
  <1>1. PICK new : new = [table EXCEPT ![h] = rows]
    OBVIOUS
  <1>2. table \in [Hubs -> [Steps -> Row]] /\ rows \in [Steps -> Row]
    BY NoRowTyped DEF TableOK
  <1>3. new \in [Hubs -> [Steps -> Row]] /\ new[h] = rows /\ \A g \in Hubs \ {h} : new[g] = table[g]
    BY <1>1, <1>2
  <1>4. TableOK(new)
    <2> SUFFICES ASSUME NEW g \in Hubs, NEW s \in Steps PROVE GoodRow(new[g][s])
      BY <1>3 DEF TableOK
    <2>1. new[g][s] = NoRow \/ new[g][s] = table[g][s]
      BY <1>3
    <2> QED
      BY <2>1, NoRowTyped DEF TableOK
  <1>5. ASSUME NEW desk, DeskOK(table, desk) PROVE DeskOK(new, desk)
    <2> SUFFICES ASSUME NEW g \in Hubs, desk[g].step # 0 PROVE new[g][desk[g].step].tries < MaxTries
      BY <1>5 DEF DeskOK
    <2>1. desk[g].step \in Steps /\ table[g][desk[g].step].tries < MaxTries
      BY <1>5 DEF DeskOK, Work
    <2>2. new[g][desk[g].step] \in {NoRow, table[g][desk[g].step]}
      BY <1>3, <2>1
    <2>3. 0 < MaxTries
      BY Sizes
    <2>4. CASE new[g][desk[g].step] = NoRow
      BY <2>3, <2>4, NoRowTyped
    <2>5. CASE new[g][desk[g].step] = table[g][desk[g].step]
      BY <2>1, <2>5
    <2> QED
      BY <2>2, <2>4, <2>5
  <1> QED
    BY <1>1, <1>3, <1>4, <1>5

\* A model is done, or a row is written with a try left for whoever reads on.
LEMMA DeskKept ==
    ASSUME NEW table, NEW desk, TableOK(table), DeskOK(table, desk), NEW h \in Hubs, NEW s \in Steps,
           NEW new, TableOK(new), NEW next \in [Hubs -> Work],
           \A g \in Hubs : next[g] \in {desk[g], NoWork},
           \A g \in Hubs, x \in Steps : ~ (g = h /\ x = s) => new[g][x] = table[g][x],
           next[h].step = s => new[h][s].tries < MaxTries
    PROVE  DeskOK(new, next)
  <1> SUFFICES ASSUME NEW g \in Hubs, next[g].step # 0 PROVE new[g][next[g].step].tries < MaxTries
    BY DEF DeskOK
  <1>1. next[g] = desk[g] /\ desk[g].step \in Steps /\ table[g][desk[g].step].tries < MaxTries
    BY NoWorkTyped DEF DeskOK, Work
  <1> QED
    BY <1>1

\* Parts that do not change.
LEMMA KeptS ==
    ASSUME SInv
    PROVE  /\ UNCHANGED posts => PostsInv'
           /\ UNCHANGED <<orig, writing>> => OrigInv'
           /\ UNCHANGED <<tr, wording>> => TrInv'
           /\ UNCHANGED <<revs, cursor, clock>> => NumbersInv'
           /\ UNCHANGED puller => PullersInv'
           /\ UNCHANGED waiting => WaitInv'
  <1>1. UNCHANGED posts => PostsInv'
    BY DEF SInv, PostsInv, posts, Held
  <1>2. UNCHANGED <<orig, writing>> => OrigInv'
    BY DEF SInv, OrigInv
  <1>3. UNCHANGED <<tr, wording>> => TrInv'
    BY DEF SInv, TrInv
  <1>4. UNCHANGED <<revs, cursor, clock>> => NumbersInv'
    BY DEF SInv, NumbersInv
  <1>5. UNCHANGED puller => PullersInv'
    BY DEF SInv, PullersInv
  <1> QED
    BY <1>1, <1>2, <1>3, <1>4, <1>5 DEF SInv, WaitInv

LEMMA PullerS ==
    ASSUME SInv, NEW h \in Hubs, NEW s, GoodPuller(s), puller' = [puller EXCEPT ![h] = s]
    PROVE  PullersInv'
  <1>1. puller \in [Hubs -> Puller] /\ s \in Puller
    BY DEF SInv, PullersInv, GoodPuller
  <1>2. puller' \in [Hubs -> Puller] /\ \A g \in Hubs : puller'[g] = IF g = h THEN s ELSE puller[g]
    BY <1>1
  <1> QED
    BY <1>2 DEF SInv, PullersInv

LEMMA DistinctMore ==
    ASSUME NEW D, NEW queue \in Seq(D), NEW d \in D, Distinct(queue), d \notin Entries(queue)
    PROVE  Distinct(Append(queue, d))
  <1>1. PICK longer : longer = Append(queue, d)
    OBVIOUS
  <1>2. /\ Len(queue) \in Nat /\ DOMAIN queue = 1 .. Len(queue) /\ DOMAIN longer = 1 .. Len(queue) + 1
        /\ \A i \in 1 .. Len(queue) : longer[i] = queue[i] /\ queue[i] # d
        /\ longer[Len(queue) + 1] = d
    BY <1>1, AppendProperties DEF Entries
  <1>3. \A i \in 1 .. Len(queue) + 1 : i # Len(queue) + 1 => i \in 1 .. Len(queue)
    BY <1>2
  <1>4. \A i, j \in 1 .. Len(queue) : queue[i] = queue[j] => i = j
    BY <1>2 DEF Distinct
  <1>5. \A i, j \in 1 .. Len(queue) + 1 : longer[i] = longer[j] => i = j
    BY <1>2, <1>3, <1>4
  <1>6. Distinct(longer)
    BY <1>2, <1>5 DEF Distinct
  <1> QED
    BY <1>1, <1>6

-----------------------------------------------------------------------------
(* ... each action.                                                        *)

\* What a delete leaves of the replies of a hub, and of what has gone.
LEMMA Deleted ==
    ASSUME PostsInv, NEW h \in Hubs, NEW r \in Replies, DeleteReply(h, r)
    PROVE  /\ r \in Held(h) /\ r \notin Entries(gone[h])
           /\ replies'[h] \in Seq(Replies) /\ Entries(replies'[h]) = Held(h) \ {r}
           /\ gone'[h] = Append(gone[h], r) /\ \A g \in Hubs \ {h} : gone'[g] = gone[g] /\ replies'[g] = replies[g]
           /\ replies' \in [Hubs -> Seq(Replies)] /\ gone' \in [Hubs -> Seq(Replies)]
  <1>1. /\ r \in Held(h) /\ replies \in [Hubs -> Seq(Replies)] /\ gone \in [Hubs -> Seq(Replies)]
        /\ gone' = [gone EXCEPT ![h] = Append(@, r)]
    BY DEF PostsInv, DeleteReply
  <1>2. PICK K : K = {i \in DOMAIN replies[h] : replies[h][i] # r}
    OBVIOUS
  <1>3. replies' = [replies EXCEPT ![h] = Picked(replies[h], K)]
    BY <1>2 DEF DeleteReply
  <1>4. PICK queue, left : queue = replies[h] /\ left = Picked(queue, K)
    OBVIOUS
  <1>5. queue \in Seq(Replies) /\ K \subseteq DOMAIN queue
    BY <1>1, <1>2, <1>4
  <1>6. left \in Seq(Replies) /\ \A n \in DOMAIN left : \E i \in K : left[n] = queue[i]
    BY <1>4, <1>5, PickedOf
  <1>7. \A i \in K : \E n \in DOMAIN left : left[n] = queue[i]
    BY <1>4, <1>5, PickedAll
  <1>8. Entries(left) = Entries(queue) \ {r}
    <2>1. ASSUME NEW x \in Entries(left) PROVE x \in Entries(queue) \ {r}
      <3>1. PICK n \in DOMAIN left : x = left[n]
        BY <2>1 DEF Entries
      <3>2. PICK i \in K : x = queue[i]
        BY <1>6, <3>1
      <3> QED
        BY <1>2, <1>4, <1>5, <3>2 DEF Entries
    <2>2. ASSUME NEW x \in Entries(queue) \ {r} PROVE x \in Entries(left)
      <3>1. PICK i \in DOMAIN queue : x = queue[i]
        BY <2>2 DEF Entries
      <3>2. i \in K
        BY <1>2, <1>4, <2>2, <3>1
      <3>3. PICK n \in DOMAIN left : left[n] = queue[i]
        BY <1>7, <3>2
      <3> QED
        BY <3>1, <3>3 DEF Entries
    <2> QED
      BY <2>1, <2>2
  <1>9. replies' \in [Hubs -> Seq(Replies)] /\ replies'[h] = left /\ \A g \in Hubs \ {h} : replies'[g] = replies[g]
    BY <1>1, <1>3, <1>4, <1>6
  <1>10. gone'[h] = Append(gone[h], r) /\ gone' \in [Hubs -> Seq(Replies)]
         /\ \A g \in Hubs \ {h} : gone'[g] = gone[g]
    <2>1. Append(gone[h], r) \in Seq(Replies)
      BY <1>1, EntriesOf
    <2> QED
      BY <1>1, <2>1
  <1>11. r \notin Entries(gone[h])
    BY <1>1 DEF PostsInv
  <1> QED
    BY <1>1, <1>4, <1>6, <1>8, <1>9, <1>10, <1>11 DEF Held

LEMMA PostsS ==
    ASSUME SInv, NEW h \in Hubs
    PROVE  /\ CreateRoot(h) => SInv'
           /\ \A r \in Replies : CreateReply(h, r) => SInv'
           /\ DeleteRoot(h) => SInv'
           /\ \A r \in Replies : DeleteReply(h, r) => SInv'
  <1>0. PostsInv /\ TableOK(orig) /\ TableOK(tr) /\ DeskOK(orig, writing) /\ DeskOK(tr, wording)
    BY DEF SInv, OrigInv, TrInv
  <1>1. ASSUME CreateRoot(h) PROVE SInv'
    <2>1. root' \in [Hubs -> {"away", "here", "gone"}] /\ replies' = replies /\ gone' = gone
      BY <1>0, <1>1 DEF CreateRoot, PostsInv
    <2>2. PostsInv'
      BY <1>0, <2>1 DEF PostsInv, Held
    <2> QED
      BY <1>1, <2>2, KeptS DEF CreateRoot, tables, taking, SInv
  <1>2. ASSUME NEW r \in Replies, CreateReply(h, r) PROVE SInv'
    <2>1. /\ r \notin Entries(gone[h]) /\ root' = root /\ gone' = gone
          /\ replies' = [replies EXCEPT ![h] = Append(replies[h], r)]
          /\ replies \in [Hubs -> Seq(Replies)]
      BY <1>0, <1>2 DEF CreateReply, PostsInv
    <2>2. Append(replies[h], r) \in Seq(Replies) /\ Entries(Append(replies[h], r)) = Held(h) \cup {r}
      BY <2>1, EntriesOf DEF Held
    <2>3. replies' \in [Hubs -> Seq(Replies)] /\ replies'[h] = Append(replies[h], r)
          /\ \A g \in Hubs \ {h} : replies'[g] = replies[g]
      BY <2>1, <2>2
    <2>4. ASSUME NEW g \in Hubs PROVE Entries(replies'[g]) \cap Entries(gone[g]) = {}
      <3>1. Held(g) \cap Entries(gone[g]) = {}
        BY <1>0 DEF PostsInv
      <3>2. CASE g = h
        BY <2>1, <2>2, <2>3, <3>1, <3>2
      <3>3. CASE g # h
        BY <2>3, <3>1, <3>3 DEF Held
      <3> QED
        BY <3>2, <3>3
    <2>5. PostsInv'
      BY <1>0, <2>1, <2>3, <2>4 DEF PostsInv, Held
    <2> QED
      BY <1>2, <2>5, KeptS DEF CreateReply, tables, taking, SInv
  <1>3. ASSUME DeleteRoot(h) PROVE SInv'
    <2>1. root' \in [Hubs -> {"away", "here", "gone"}] /\ replies' = replies /\ gone' = gone
      BY <1>0, <1>3 DEF DeleteRoot, PostsInv
    <2>2. PostsInv'
      BY <1>0, <2>1 DEF PostsInv, Held
    <2>3. PICK rows : rows = [s \in Steps |-> NoRow]
      OBVIOUS
    <2>4. rows = [s \in Steps |-> rows[s]] /\ \A s \in Steps : rows[s] \in {NoRow, orig[h][s]} \cap {NoRow, tr[h][s]}
      BY <2>3
    <2>5. orig' = [orig EXCEPT ![h] = rows] /\ tr' = [tr EXCEPT ![h] = rows]
      BY <1>3, <2>3 DEF DeleteRoot
    <2>6. TableOK([orig EXCEPT ![h] = rows]) /\ DeskOK([orig EXCEPT ![h] = rows], writing)
      BY <1>0, <2>4, TakenOK
    <2>7. TableOK([tr EXCEPT ![h] = rows]) /\ DeskOK([tr EXCEPT ![h] = rows], wording)
      BY <1>0, <2>4, TakenOK
    <2>8. TableOK(orig') /\ DeskOK(orig', writing') /\ TableOK(tr') /\ DeskOK(tr', wording')
      BY <1>3, <2>5, <2>6, <2>7 DEF DeleteRoot
    <2>9. OrigInv' /\ TrInv'
      BY <2>8 DEF OrigInv, TrInv, TableOK, DeskOK
    <2> QED
      BY <1>3, <2>2, <2>9, KeptS DEF DeleteRoot, taking, SInv
  <1>4. ASSUME NEW r \in Replies, DeleteReply(h, r) PROVE SInv'
    <2>1. PostsInv'
      <3>1. /\ r \in Held(h) /\ r \notin Entries(gone[h])
            /\ Entries(replies'[h]) = Held(h) \ {r} /\ gone'[h] = Append(gone[h], r)
            /\ \A g \in Hubs \ {h} : gone'[g] = gone[g] /\ replies'[g] = replies[g]
            /\ replies' \in [Hubs -> Seq(Replies)] /\ gone' \in [Hubs -> Seq(Replies)]
        BY <1>0, <1>4, Deleted
      <3>2. gone[h] \in Seq(Replies) /\ Distinct(gone[h]) /\ Held(h) \cap Entries(gone[h]) = {}
        BY <1>0 DEF PostsInv
      <3>3. Entries(gone'[h]) = Entries(gone[h]) \cup {r} /\ Distinct(gone'[h])
        BY <3>1, <3>2, EntriesOf, DistinctMore
      <3>4. ASSUME NEW g \in Hubs
            PROVE  Entries(replies'[g]) \cap Entries(gone'[g]) = {} /\ Distinct(gone'[g])
        <4>1. CASE g = h
          BY <3>1, <3>2, <3>3, <4>1
        <4>2. CASE g # h
          BY <1>0, <3>1, <4>2 DEF PostsInv, Held
        <4> QED
          BY <4>1, <4>2
      <3>5. root' = root /\ root \in [Hubs -> {"away", "here", "gone"}]
        BY <1>0, <1>4 DEF DeleteReply, PostsInv
      <3> QED
        BY <3>1, <3>4, <3>5 DEF PostsInv, Held, Distinct
    <2>2. OrigInv'
      <3>1. PICK rows : rows = [s \in Steps |-> IF Taken(h, r, orig[h][s]) THEN NoRow ELSE orig[h][s]]
        OBVIOUS
      <3>2. rows = [s \in Steps |-> rows[s]] /\ \A s \in Steps : rows[s] \in {NoRow, orig[h][s]}
        BY <3>1
      <3>3. orig' = [orig EXCEPT ![h] = rows] /\ writing' = writing
        BY <1>4, <3>1 DEF DeleteReply
      <3>4. TableOK([orig EXCEPT ![h] = rows]) /\ DeskOK([orig EXCEPT ![h] = rows], writing)
        BY <1>0, <3>2, TakenOK
      <3>5. TableOK(orig') /\ DeskOK(orig', writing')
        BY <3>3, <3>4
      <3> QED
        BY <3>5 DEF OrigInv, TableOK, DeskOK
    <2>3. TrInv'
      <3>1. PICK rows : rows = [s \in Steps |-> IF Taken(h, r, tr[h][s]) THEN NoRow ELSE tr[h][s]]
        OBVIOUS
      <3>2. rows = [s \in Steps |-> rows[s]] /\ \A s \in Steps : rows[s] \in {NoRow, tr[h][s]}
        BY <3>1
      <3>3. tr' = [tr EXCEPT ![h] = rows] /\ wording' = wording
        BY <1>4, <3>1 DEF DeleteReply
      <3>4. TableOK([tr EXCEPT ![h] = rows]) /\ DeskOK([tr EXCEPT ![h] = rows], wording)
        BY <1>0, <3>2, TakenOK
      <3>5. TableOK(tr') /\ DeskOK(tr', wording')
        BY <3>3, <3>4
      <3> QED
        BY <3>5 DEF TrInv, TableOK, DeskOK
    <2> QED
      BY <1>4, <2>1, <2>2, <2>3, KeptS DEF DeleteReply, taking, SInv
  <1> QED
    BY <1>1, <1>2, <1>3, <1>4

LEMMA Stops ==
    ASSUME NEW desk \in [Hubs -> Work], NEW h \in Hubs
    PROVE  /\ [desk EXCEPT ![h] = NoWork] \in [Hubs -> Work]
           /\ \A g \in Hubs : [desk EXCEPT ![h] = NoWork][g] \in {desk[g], NoWork}
           /\ [desk EXCEPT ![h] = NoWork][h].step = 0
  BY NoWorkTyped

\* A model is done with its step, and no row is written.
LEMMA Unwritten ==
    ASSUME NEW table, NEW desk, TableOK(table), DeskOK(table, desk), NEW h \in Hubs
    PROVE  DeskOK(table, [desk EXCEPT ![h] = NoWork])
  <1>1. PICK next : next = [desk EXCEPT ![h] = NoWork]
    OBVIOUS
  <1>2. next \in [Hubs -> Work] /\ \A g \in Hubs : next[g] \in {desk[g], NoWork}
    BY <1>1, Stops DEF DeskOK
  <1>3. ASSUME NEW g \in Hubs, next[g].step # 0 PROVE table[g][next[g].step].tries < MaxTries
    BY <1>2, <1>3, NoWorkTyped DEF DeskOK
  <1>4. DeskOK(table, next)
    BY <1>2, <1>3 DEF DeskOK
  <1> QED
    BY <1>1, <1>4

\* An answer of the model, of use or none, has had a try to take.
LEMMA Answered ==
    ASSUME NEW table, NEW desk, TableOK(table), DeskOK(table, desk), NEW h \in Hubs, NEW s,
           s = desk[h].step, s # 0
    PROVE  /\ s \in Steps /\ table[h][s] \in Row /\ table[h][s].tries + 1 \in 0 .. MaxTries
           /\ \A row \in Row : row.status # "" =>
                 /\ TableOK(Put(table, h, s, row))
                 /\ DeskOK(Put(table, h, s, row), [desk EXCEPT ![h] = NoWork])
  <1>1. s \in Steps /\ table[h][s] \in Row /\ table[h][s].tries < MaxTries
    BY DEF DeskOK, Work, TableOK
  <1>2. table[h][s].tries + 1 \in 0 .. MaxTries
    <2>1. PICK n : n = table[h][s].tries
      OBVIOUS
    <2>2. n \in 0 .. MaxTries /\ n < MaxTries /\ MaxTries \in Nat
      BY <1>1, <2>1, Sizes DEF Row
    <2>3. n + 1 \in 0 .. MaxTries
      BY <2>2
    <2> QED
      BY <2>1, <2>3
  <1>3. ASSUME NEW row \in Row, row.status # ""
        PROVE  /\ TableOK(Put(table, h, s, row))
               /\ DeskOK(Put(table, h, s, row), [desk EXCEPT ![h] = NoWork])
    <2>1. PICK new, next : new = Put(table, h, s, row) /\ next = [desk EXCEPT ![h] = NoWork]
      OBVIOUS
    <2>2. /\ TableOK(new)
          /\ \A g \in Hubs, x \in Steps : ~ (g = h /\ x = s) => new[g][x] = table[g][x]
      <3>1. GoodRow(row)
        BY <1>3 DEF GoodRow
      <3> QED
        BY <1>1, <2>1, <3>1, PutOK
    <2>3. next \in [Hubs -> Work] /\ (\A g \in Hubs : next[g] \in {desk[g], NoWork}) /\ next[h].step # s
      BY <2>1, Stops DEF DeskOK
    <2>4. DeskOK(new, next)
      BY <1>1, <2>2, <2>3, DeskKept
    <2> QED
      BY <2>1, <2>2, <2>4
  <1> QED
    BY <1>1, <1>2, <1>3

\* A step that a model starts to read has a try left.
LEMMA Tries ==
    ASSUME NEW table, NEW desk, TableOK(table), DeskOK(table, desk), NEW h \in Hubs, NEW s \in Steps,
           Tryable(table[h][s]), NEW w \in Work, w.step = s
    PROVE  DeskOK(table, [desk EXCEPT ![h] = w])
  <1>1. PICK next : next = [desk EXCEPT ![h] = w]
    OBVIOUS
  <1>2. next \in [Hubs -> Work] /\ next[h] = w /\ \A g \in Hubs : g # h => next[g] = desk[g]
    BY <1>1 DEF DeskOK
  <1>3. 0 < MaxTries
    BY Sizes
  <1>4. table[h][s].tries < MaxTries
    <2>1. CASE table[h][s].status = ""
      <3>1. table[h][s].tries = 0
        BY <2>1 DEF TableOK, GoodRow
      <3> QED
        BY <1>3, <3>1
    <2>2. CASE table[h][s].status # ""
      BY <2>2 DEF Tryable
    <2> QED
      BY <2>1, <2>2
  <1>5. ASSUME NEW g \in Hubs, next[g].step # 0 PROVE table[g][next[g].step].tries < MaxTries
    BY <1>2, <1>4, <1>5 DEF DeskOK
  <1>6. DeskOK(table, next)
    BY <1>2, <1>5 DEF DeskOK
  <1> QED
    BY <1>1, <1>6

\* What Thread lists are replies that stand in the thread.
LEMMA Threaded ==
    ASSUME PostsInv, NEW h \in Hubs, NEW n
    PROVE  Thread(h, n) \subseteq Held(h) /\ Held(h) \subseteq Replies
  <1>1. replies[h] \in Seq(Replies)
    BY DEF PostsInv
  <1>2. Held(h) \subseteq Replies
    BY <1>1, EntriesOf DEF Held
  <1>3. ASSUME NEW r \in Thread(h, n) PROVE r \in Held(h)
    <2>1. PICK i \in DOMAIN replies[h] : r = replies[h][i]
      BY <1>3 DEF Thread
    <2> QED
      BY <2>1 DEF Held, Entries
  <1> QED
    BY <1>2, <1>3

LEMMA FailedTyped ==
    ASSUME NEW row, row.tries + 1 \in 0 .. MaxTries
    PROVE  Failed(row) \in Row /\ Failed(row).status = "failed" /\ Failed(row).origin = Local
  <1>1. PICK n : n = row.tries + 1
    OBVIOUS
  <1>2. Failed(row) = [NoRow EXCEPT !.status = "failed", !.tries = n] /\ n \in 0 .. MaxTries
    BY <1>1 DEF Failed
  <1> QED
    BY <1>2, NoRowTyped DEF NoRow, Row

\* What a model reads, or the answer it gives, on the summariser's side.
LEMMA WritingS ==
    ASSUME SInv, NEW h \in Hubs
    PROVE  /\ \A s \in Steps : Read(h, s) => SInv'
           /\ \A cites : \A t \in Nat : Summarize(h, cites, t) => SInv'
           /\ FailSummary(h) => SInv'
           /\ NoSummary(h) => SInv'
  <1>0. PostsInv /\ TableOK(orig) /\ DeskOK(orig, writing) /\ NumbersInv
    BY DEF SInv, OrigInv
  <1>1. ASSUME NEW s \in Steps, Read(h, s) PROVE SInv'
    <2>1. PICK w : w = [step |-> s, of |-> 0, read |-> Thread(h, s)]
      OBVIOUS
    <2>2. w \in Work /\ w.step = s
      BY <1>0, <2>1, Threaded DEF Work
    <2>3. Tryable(orig[h][s]) /\ orig' = orig /\ writing' = [writing EXCEPT ![h] = w]
      BY <1>1, <2>1 DEF Read, Owed, tables
    <2>4. DeskOK(orig', writing')
      BY <1>0, <2>2, <2>3, Tries
    <2>5. OrigInv'
      BY <1>0, <2>3, <2>4 DEF OrigInv, TableOK, DeskOK
    <2> QED
      BY <1>1, <2>5, KeptS DEF Read, tables, taking, SInv
  <1>2. ASSUME NEW cites, NEW t \in Nat, Summarize(h, cites, t) PROVE SInv'
    <2>1. PICK s : s = writing[h].step
      OBVIOUS
    <2>2. s # 0 /\ cites \subseteq Replies
      BY <1>0, <1>2, <2>1 DEF Summarize, DeskOK, Work
    <2>3. /\ s \in Steps /\ orig[h][s] \in Row /\ orig[h][s].tries + 1 \in 0 .. MaxTries
          /\ \A row \in Row : row.status # "" =>
                 /\ TableOK(Put(orig, h, s, row))
                 /\ DeskOK(Put(orig, h, s, row), [writing EXCEPT ![h] = NoWork])
      BY <1>0, <2>1, <2>2, Answered
    <2>4. PICK row : row = [status |-> "ok", tries |-> orig[h][s].tries + 1, ts |-> t, of |-> 0,
                            cites |-> cites, origin |-> Local, rev |-> revs[h] + 1]
      OBVIOUS
    <2>5. row \in Row /\ row.status # ""
      <3>1. revs[h] + 1 \in Nat
        BY <1>0 DEF NumbersInv
      <3> QED
        BY <2>2, <2>3, <2>4, <3>1 DEF Row
    <2>6. /\ orig' \in {Put(orig, h, s, row), orig} /\ writing' = [writing EXCEPT ![h] = NoWork]
          /\ revs' \in {[revs EXCEPT ![h] = @ + 1], revs} /\ clock' = [clock EXCEPT ![h] = t]
      BY <1>2, <2>1, <2>4 DEF Summarize
    <2>7. TableOK(orig') /\ DeskOK(orig', writing')
      BY <1>0, <2>3, <2>5, <2>6, Unwritten
    <2>8. OrigInv'
      BY <2>7 DEF OrigInv, TableOK, DeskOK
    <2>9. NumbersInv'
      <3>1. revs' \in [Hubs -> Nat] /\ clock' \in [Hubs -> Nat]
        BY <1>0, <2>6 DEF NumbersInv
      <3>2. cursor' = cursor
        BY <1>2 DEF Summarize, taking
      <3> QED
        BY <1>0, <3>1, <3>2 DEF NumbersInv
    <2> QED
      BY <1>2, <2>8, <2>9, KeptS DEF Summarize, taking, SInv
  <1>3. ASSUME FailSummary(h) PROVE SInv'
    <2>1. PICK s : s = writing[h].step
      OBVIOUS
    <2>2. s # 0
      BY <1>3, <2>1 DEF FailSummary
    <2>3. /\ orig[h][s].tries + 1 \in 0 .. MaxTries
          /\ \A row \in Row : row.status # "" =>
                 /\ TableOK(Put(orig, h, s, row))
                 /\ DeskOK(Put(orig, h, s, row), [writing EXCEPT ![h] = NoWork])
      BY <1>0, <2>1, <2>2, Answered
    <2>4. Failed(orig[h][s]) \in Row /\ Failed(orig[h][s]).status # ""
      BY <2>3, FailedTyped
    <2>5. orig' \in {Put(orig, h, s, Failed(orig[h][s])), orig} /\ writing' = [writing EXCEPT ![h] = NoWork]
      BY <1>3, <2>1 DEF FailSummary
    <2>6. TableOK(orig') /\ DeskOK(orig', writing')
      BY <1>0, <2>3, <2>4, <2>5, Unwritten
    <2>7. OrigInv'
      BY <2>6 DEF OrigInv, TableOK, DeskOK
    <2> QED
      BY <1>3, <2>7, KeptS DEF FailSummary, taking, SInv
  <1>4. ASSUME NoSummary(h) PROVE SInv'
    <2>1. orig' = orig /\ writing' = [writing EXCEPT ![h] = NoWork]
      BY <1>4 DEF NoSummary, tables
    <2>2. DeskOK(orig', writing')
      BY <1>0, <2>1, Unwritten
    <2>3. OrigInv'
      BY <1>0, <2>1, <2>2 DEF OrigInv, TableOK, DeskOK
    <2> QED
      BY <1>4, <2>3, KeptS DEF NoSummary, tables, taking, SInv
  <1> QED
    BY <1>1, <1>2, <1>3, <1>4

\* ... and on the translator's.
LEMMA WordingS ==
    ASSUME SInv, NEW h \in Hubs
    PROVE  /\ \A s \in Steps : ReadWords(h, s) => SInv'
           /\ \A t \in Nat : TranslateSummary(h, t) => SInv'
           /\ FailWords(h) => SInv'
           /\ NoWords(h) => SInv'
  <1>0. PostsInv /\ TableOK(orig) /\ TableOK(tr) /\ DeskOK(tr, wording) /\ NumbersInv
    BY DEF SInv, OrigInv, TrInv
  <1>1. ASSUME NEW s \in Steps, ReadWords(h, s) PROVE SInv'
    <2>1. PICK w : w = [step |-> s, of |-> orig[h][s].ts, read |-> orig[h][s].cites]
      OBVIOUS
    <2>2. w \in Work /\ w.step = s
      <3>1. orig[h][s] \in Row
        BY <1>0 DEF TableOK
      <3> QED
        BY <2>1, <3>1 DEF Work, Row
    <2>3. Tryable(tr[h][s]) /\ tr' = tr /\ wording' = [wording EXCEPT ![h] = w]
      BY <1>1, <2>1 DEF ReadWords, OwedWords, tables
    <2>4. DeskOK(tr', wording')
      BY <1>0, <2>2, <2>3, Tries
    <2>5. TrInv'
      BY <1>0, <2>3, <2>4 DEF TrInv, TableOK, DeskOK
    <2> QED
      BY <1>1, <2>5, KeptS DEF ReadWords, tables, taking, SInv
  <1>2. ASSUME NEW t \in Nat, TranslateSummary(h, t) PROVE SInv'
    <2>1. PICK s : s = wording[h].step
      OBVIOUS
    <2>2. s # 0 /\ wording[h] \in Work
      BY <1>0, <1>2, <2>1 DEF TranslateSummary, DeskOK
    <2>3. /\ s \in Steps /\ tr[h][s] \in Row /\ tr[h][s].tries + 1 \in 0 .. MaxTries
          /\ \A row \in Row : row.status # "" =>
                 /\ TableOK(Put(tr, h, s, row))
                 /\ DeskOK(Put(tr, h, s, row), [wording EXCEPT ![h] = NoWork])
      BY <1>0, <2>1, <2>2, Answered
    <2>4. PICK row : row = [status |-> "ok", tries |-> tr[h][s].tries + 1, ts |-> t, of |-> wording[h].of,
                            cites |-> wording[h].read, origin |-> Local, rev |-> revs[h] + 1]
      OBVIOUS
    <2>5. row \in Row /\ row.status # ""
      <3>1. revs[h] + 1 \in Nat
        BY <1>0 DEF NumbersInv
      <3>2. wording[h].of \in Nat /\ wording[h].read \in SUBSET Replies
        BY <2>2 DEF Work
      <3> QED
        BY <2>3, <2>4, <3>1, <3>2 DEF Row
    <2>6. /\ tr' \in {Put(tr, h, s, row), tr} /\ wording' = [wording EXCEPT ![h] = NoWork]
          /\ revs' \in {[revs EXCEPT ![h] = @ + 1], revs} /\ clock' = [clock EXCEPT ![h] = t]
      BY <1>2, <2>1, <2>4 DEF TranslateSummary
    <2>7. TableOK(tr') /\ DeskOK(tr', wording')
      BY <1>0, <2>3, <2>5, <2>6, Unwritten
    <2>8. TrInv'
      BY <2>7 DEF TrInv, TableOK, DeskOK
    <2>9. NumbersInv'
      <3>1. revs' \in [Hubs -> Nat] /\ clock' \in [Hubs -> Nat]
        BY <1>0, <2>6 DEF NumbersInv
      <3>2. cursor' = cursor
        BY <1>2 DEF TranslateSummary, taking
      <3> QED
        BY <1>0, <3>1, <3>2 DEF NumbersInv
    <2> QED
      BY <1>2, <2>8, <2>9, KeptS DEF TranslateSummary, taking, SInv
  <1>3. ASSUME FailWords(h) PROVE SInv'
    <2>1. PICK s : s = wording[h].step
      OBVIOUS
    <2>2. s # 0
      BY <1>3, <2>1 DEF FailWords
    <2>3. /\ tr[h][s].tries + 1 \in 0 .. MaxTries
          /\ \A row \in Row : row.status # "" =>
                 /\ TableOK(Put(tr, h, s, row))
                 /\ DeskOK(Put(tr, h, s, row), [wording EXCEPT ![h] = NoWork])
      BY <1>0, <2>1, <2>2, Answered
    <2>4. Failed(tr[h][s]) \in Row /\ Failed(tr[h][s]).status # ""
      BY <2>3, FailedTyped
    <2>5. tr' \in {Put(tr, h, s, Failed(tr[h][s])), tr} /\ wording' = [wording EXCEPT ![h] = NoWork]
      BY <1>3, <2>1 DEF FailWords
    <2>6. TableOK(tr') /\ DeskOK(tr', wording')
      BY <1>0, <2>3, <2>4, <2>5, Unwritten
    <2>7. TrInv'
      BY <2>6 DEF TrInv, TableOK, DeskOK
    <2> QED
      BY <1>3, <2>7, KeptS DEF FailWords, taking, SInv
  <1>4. ASSUME NoWords(h) PROVE SInv'
    <2>1. tr' = tr /\ wording' = [wording EXCEPT ![h] = NoWork]
      BY <1>4 DEF NoWords, tables
    <2>2. DeskOK(tr', wording')
      BY <1>0, <2>1, Unwritten
    <2>3. TrInv'
      BY <1>0, <2>1, <2>2 DEF TrInv, TableOK, DeskOK
    <2> QED
      BY <1>4, <2>3, KeptS DEF NoWords, tables, taking, SInv
  <1> QED
    BY <1>1, <1>2, <1>3, <1>4

LEMMA ResummarizeS ==
    ASSUME SInv, NEW h \in Hubs, Resummarize(h)
    PROVE  SInv'
  <1>1. PICK s \in Steps : orig' = Put(orig, h, s, NoRow) /\ tr' = Put(tr, h, s, NoRow)
    BY DEF Resummarize
  <1>2. /\ TableOK(orig) /\ DeskOK(orig, writing) /\ TableOK(tr) /\ DeskOK(tr, wording)
        /\ writing' = writing /\ wording' = wording
    BY DEF SInv, OrigInv, TrInv, Resummarize
  <1>3. ASSUME NEW table, NEW desk, TableOK(table), DeskOK(table, desk), NEW new, new = Put(table, h, s, NoRow)
        PROVE  TableOK(new) /\ DeskOK(new, desk)
    <2>1. /\ TableOK(new) /\ new[h][s] = NoRow
          /\ \A g \in Hubs, x \in Steps : ~ (g = h /\ x = s) => new[g][x] = table[g][x]
      <3>1. PICK row : row = NoRow
        OBVIOUS
      <3>2. GoodRow(row) /\ new = Put(table, h, s, row)
        BY <1>3, <3>1, NoRowTyped
      <3>3. /\ TableOK(new) /\ new[h][s] = row
            /\ \A g \in Hubs, x \in Steps : ~ (g = h /\ x = s) => new[g][x] = table[g][x]
        BY <1>3, <3>2, PutOK
      <3> QED
        BY <3>1, <3>3
    <2>2. NoRow.tries < MaxTries
      <3>1. 0 < MaxTries
        BY Sizes
      <3> QED
        BY <3>1, NoRowTyped
    <2>3. desk \in [Hubs -> Work] /\ \A g \in Hubs : desk[g] \in {desk[g], NoWork}
      BY <1>3 DEF DeskOK
    <2> QED
      BY <1>3, <2>1, <2>2, <2>3, DeskKept
  <1>4. TableOK(orig') /\ DeskOK(orig', writing')
    BY <1>1, <1>2, <1>3
  <1>5. TableOK(tr') /\ DeskOK(tr', wording')
    BY <1>1, <1>2, <1>3
  <1>6. OrigInv' /\ TrInv'
    BY <1>4, <1>5 DEF OrigInv, TrInv, TableOK, DeskOK
  <1> QED
    BY <1>6, KeptS DEF Resummarize, taking, SInv

\* The puller goes on and nothing else moves.
LEMMA StepsS ==
    ASSUME SInv, NEW h \in Hubs, NEW s, GoodPuller(s), puller' = [puller EXCEPT ![h] = s],
           UNCHANGED <<posts, tables, waiting, cursor, writing, wording, clock>>
    PROVE  SInv'
  <1>1. PullersInv'
    BY PullerS
  <1> QED
    BY <1>1, KeptS DEF tables, SInv

LEMMA PullsHubs == \A h \in Hubs : \A p \in Pulls[h] : p \in Hubs
  BY PullsAssumption

\* A round starts, ends, or stops.
LEMMA RoundS ==
    ASSUME SInv, NEW h \in Hubs
    PROVE  /\ \A p \in Pulls[h] : StartPull(h, p) => SInv'
           /\ FetchFails(h) => SInv'
           /\ PageDone(h) => SInv'
           /\ Restart(h) => SInv'
  <1>1. cursor \in [Hubs -> [Hubs -> Nat]] /\ puller[h] \in Puller /\ GoodPuller(puller[h])
    BY DEF SInv, NumbersInv, PullersInv
  <1>2. ASSUME NEW p \in Hubs, NEW n \in Nat
        PROVE  GoodPuller([Idle EXCEPT !.mode = "fetch", !.peer = p, !.cursor = n])
    <2>1. PICK s : s = [Idle EXCEPT !.mode = "fetch", !.peer = p, !.cursor = n]
      OBVIOUS
    <2>2. s \in Puller /\ s.pc = "next" /\ s.peer = p
      BY <2>1, IdleTyped DEF Puller
    <2>3. GoodPuller(s)
      BY <2>2 DEF GoodPuller
    <2> QED
      BY <2>1, <2>3
  <1>3. ASSUME NEW p \in Pulls[h], StartPull(h, p) PROVE SInv'
    <2>1. p \in Hubs /\ cursor[h][p] \in Nat
      BY <1>1, PullsHubs
    <2> QED
      BY <1>2, <1>3, <2>1, StepsS DEF StartPull
  <1>4. ASSUME FetchFails(h) PROVE SInv'
    BY <1>4, IdleTyped, StepsS DEF FetchFails
  <1>5. ASSUME PageDone(h) PROVE SInv'
    <2>1. CASE puller' = [puller EXCEPT ![h] = Idle] /\ UNCHANGED cursor
      BY <1>5, <2>1, IdleTyped, StepsS DEF PageDone
    <2>2. CASE ~ (puller' = [puller EXCEPT ![h] = Idle] /\ UNCHANGED cursor)
      <3>1. puller[h].mode = "pull" /\ puller[h].peer \in Hubs /\ puller[h].next \in Nat
        BY <1>1, <1>5, <2>2 DEF PageDone, GoodPuller, Puller
      <3>2. PICK s : s = [Idle EXCEPT !.mode = "fetch", !.peer = puller[h].peer, !.cursor = puller[h].next]
        OBVIOUS
      <3>3. /\ puller' = [puller EXCEPT ![h] = s]
            /\ cursor' = [cursor EXCEPT ![h] = [@ EXCEPT ![puller[h].peer] = puller[h].next]]
        BY <1>5, <2>2, <3>2 DEF PageDone
      <3>4. GoodPuller(s)
        BY <1>2, <3>1, <3>2
      <3>5. PullersInv'
        BY <3>3, <3>4, PullerS
      <3>6. cursor' \in [Hubs -> [Hubs -> Nat]]
        BY <1>1, <3>1, <3>3
      <3>7. NumbersInv'
        BY <1>5, <3>6 DEF PageDone, tables, SInv, NumbersInv
      <3> QED
        BY <1>5, <3>5, <3>7, KeptS DEF PageDone, tables, SInv
    <2> QED
      BY <2>1, <2>2
  <1>6. ASSUME Restart(h) PROVE SInv'
    <2>1. /\ orig' = orig /\ tr' = tr /\ writing' = [writing EXCEPT ![h] = NoWork]
          /\ wording' = [wording EXCEPT ![h] = NoWork] /\ puller' = [puller EXCEPT ![h] = Idle]
      BY <1>6 DEF Restart, tables
    <2>2. TableOK(orig) /\ DeskOK(orig, writing) /\ TableOK(tr) /\ DeskOK(tr, wording)
      BY DEF SInv, OrigInv, TrInv
    <2>3. DeskOK(orig, writing') /\ DeskOK(tr, wording')
      BY <2>1, <2>2, Unwritten
    <2>4. OrigInv' /\ TrInv'
      BY <2>1, <2>2, <2>3 DEF OrigInv, TrInv, TableOK, DeskOK
    <2>5. PullersInv'
      BY <2>1, IdleTyped, PullerS
    <2> QED
      BY <1>6, <2>4, <2>5, KeptS DEF Restart, tables, SInv
  <1> QED
    BY <1>3, <1>4, <1>5, <1>6

\* What a peer serves is a row of its own.
LEMMA ServedTyped ==
    ASSUME SInv, NEW p \in Hubs, NEW n
    PROVE  PageOf(p, n) \subseteq Offer
  <1>1. ASSUME NEW s \in Steps, NEW row \in Row PROVE OfferOf(p, s, row) \in Offer
    BY <1>1 DEF OfferOf, Offer, Row
  <1>2. \A s \in Steps : orig[p][s] \in Row /\ tr[p][s] \in Row
    BY DEF SInv, OrigInv, TrInv, TableOK
  <1>3. After(p, n) \subseteq Offer
    BY <1>1, <1>2 DEF After
  <1> QED
    BY <1>3 DEF PageOf

LEMMA FetchS ==
    ASSUME SInv, NEW h \in Hubs, Fetch(h)
    PROVE  SInv'
  <1>1. /\ puller[h] \in Puller /\ GoodPuller(puller[h]) /\ puller[h].mode = "fetch"
        /\ puller[h].peer \in Hubs
    BY DEF SInv, PullersInv, GoodPuller, Fetch
  <1>2. PICK page : page = PageOf(puller[h].peer, puller[h].cursor)
    OBVIOUS
  <1>3. page \subseteq Offer
    BY <1>1, <1>2, ServedTyped
  <1>4. PICK n \in {puller[h].cursor} \cup {o.rev : o \in page} :
           puller' = [puller EXCEPT ![h] = [@ EXCEPT !.mode = "pull", !.page = page, !.next = n]]
    BY <1>2 DEF Fetch
  <1>5. n \in Nat
    BY <1>1, <1>3, <1>4 DEF Offer, Puller
  <1>6. PICK s : s = [puller[h] EXCEPT !.mode = "pull", !.page = page, !.next = n]
    OBVIOUS
  <1> HIDE <1>2
  <1>7. page \in SUBSET Offer
    BY <1>3
  <1>8. /\ s \in Puller /\ s.peer = puller[h].peer /\ s.pc = puller[h].pc
        /\ s.offer = puller[h].offer
    BY <1>1, <1>5, <1>6, <1>7 DEF Puller
  <1>9. GoodPuller(s)
    BY <1>1, <1>8 DEF GoodPuller
  <1>10. puller' = [puller EXCEPT ![h] = s]
    BY <1>4, <1>6
  <1> QED
    BY <1>9, <1>10, StepsS DEF Fetch

LEMMA QueueS ==
    ASSUME SInv, NEW h \in Hubs, NEW queue \in Seq(Offer), waiting' = [waiting EXCEPT ![h] = queue]
    PROVE  WaitInv'
  BY DEF SInv, WaitInv

LEMMA SettleS ==
    ASSUME SInv, NEW h \in Hubs, Settle(h)
    PROVE  SInv'
  <1>1. waiting[h] \in Seq(Offer)
    BY DEF SInv, WaitInv
  <1>2. PICK old \in {{}} \cup (IF h \in Lapsing THEN {{o} : o \in Entries(waiting[h])} ELSE {}) :
           LET left == Picked(waiting[h], {i \in DOMAIN waiting[h] : waiting[h][i] \notin old})
           IN  /\ waiting' = [waiting EXCEPT ![h] = left]
               /\ \E some \in SUBSET Entries(left) :
                     /\ Pending(left, some)
                     /\ puller' = [puller EXCEPT ![h] =
                         IF some = {} THEN Idle ELSE [Idle EXCEPT !.mode = "settle", !.page = some]]
    BY DEF Settle
  <1>3. PICK K, left : /\ K = {i \in DOMAIN waiting[h] : waiting[h][i] \notin old}
                       /\ left = Picked(waiting[h], K)
    OBVIOUS
  <1>4. PICK some \in SUBSET Entries(left) :
           puller' = [puller EXCEPT ![h] = IF some = {} THEN Idle ELSE [Idle EXCEPT !.mode = "settle", !.page = some]]
    BY <1>2, <1>3
  <1>5. waiting' = [waiting EXCEPT ![h] = left]
    BY <1>2, <1>3
  <1>6. left \in Seq(Offer)
    BY <1>1, <1>3, PickedOf
  <1>7. some \in SUBSET Offer
    BY <1>6, EntriesOf
  <1>8. PICK s : s = [Idle EXCEPT !.mode = "settle", !.page = some]
    OBVIOUS
  <1>9. s \in Puller /\ s.mode = "settle" /\ s.pc = "next"
    BY <1>7, <1>8, IdleTyped DEF Puller
  <1>10. GoodPuller(s)
    BY <1>9 DEF GoodPuller
  <1>11. PullersInv'
    BY <1>4, <1>8, <1>10, IdleTyped, PullerS
  <1>12. WaitInv'
    BY <1>5, <1>6, QueueS
  <1> QED
    BY <1>11, <1>12, KeptS DEF Settle, tables, SInv

\* The offer in hand is done with, or is to be dropped.
LEMMA DecidedTyped ==
    ASSUME NEW s, GoodPuller(s)
    PROVE  /\ GoodPuller(Done(s))
           /\ s.offer \in Offer => GoodPuller(Decided(s))
  <1>1. GoodPuller(Done(s))
    <2>1. PICK u : u = [s EXCEPT !.pc = "next", !.page = s.page \ {s.offer}, !.offer = Local]
      OBVIOUS
    <2>2. u \in Puller /\ u.pc = "next" /\ u.mode = s.mode /\ u.peer = s.peer
      BY <2>1 DEF Puller, GoodPuller
    <2>3. GoodPuller(u)
      BY <2>2 DEF GoodPuller
    <2> QED
      BY <2>1, <2>3 DEF Done
  <1>2. ASSUME s.offer \in Offer PROVE GoodPuller(Decided(s))
    <2>1. CASE s.mode = "settle"
      <3>1. PICK u : u = [s EXCEPT !.pc = "drop"]
        OBVIOUS
      <3>2. u \in Puller /\ u.mode = s.mode /\ u.peer = s.peer /\ u.offer = s.offer
        BY <3>1 DEF Puller, GoodPuller
      <3>3. GoodPuller(u)
        BY <1>2, <3>2 DEF GoodPuller
      <3> QED
        BY <2>1, <3>1, <3>3 DEF Decided
    <2>2. CASE s.mode # "settle"
      BY <1>1, <2>2 DEF Decided
    <2> QED
      BY <2>1, <2>2
  <1> QED
    BY <1>1, <1>2

LEMMA LookS ==
    ASSUME SInv, NEW h \in Hubs, Look(h)
    PROVE  SInv'
  <1>1. puller[h] \in Puller /\ GoodPuller(puller[h])
    BY DEF SInv, PullersInv
  <1>2. PICK o, s, u :
           /\ o \in puller[h].page /\ s = [puller[h] EXCEPT !.offer = o]
           /\ u \in {[s EXCEPT !.pc = "aside"], Decided(s), [s EXCEPT !.pc = "keep"]}
           /\ puller' = [puller EXCEPT ![h] = u]
    BY DEF Look
  <1>3. o \in Offer
    BY <1>1, <1>2 DEF Puller
  <1>4. s \in Puller /\ s.mode = puller[h].mode /\ s.peer = puller[h].peer /\ s.offer = o
    BY <1>1, <1>2, <1>3 DEF Puller
  <1>5. GoodPuller(s)
    BY <1>1, <1>3, <1>4 DEF GoodPuller
  <1>6. ASSUME NEW c \in {"aside", "keep"} PROVE GoodPuller([s EXCEPT !.pc = c])
    <2>1. PICK v : v = [s EXCEPT !.pc = c]
      OBVIOUS
    <2>2. v \in Puller /\ v.mode = s.mode /\ v.peer = s.peer /\ v.offer = s.offer
      BY <1>4, <2>1 DEF Puller
    <2>3. GoodPuller(v)
      BY <1>3, <1>4, <1>5, <2>2 DEF GoodPuller
    <2> QED
      BY <2>1, <2>3
  <1>7. GoodPuller(u)
    <2>1. GoodPuller([s EXCEPT !.pc = "aside"]) /\ GoodPuller([s EXCEPT !.pc = "keep"])
      BY <1>6
    <2>2. s.offer \in Offer
      BY <1>3, <1>4
    <2>3. GoodPuller(Decided(s))
      BY <1>5, <2>2, DecidedTyped
    <2> QED
      BY <1>2, <2>1, <2>3
  <1> QED
    BY <1>2, <1>7, StepsS DEF Look

\* What is taken over keeps the tries of the row it replaces.
LEMMA TakingOK ==
    ASSUME NEW table, NEW desk, TableOK(table), DeskOK(table, desk), NEW h \in Hubs, NEW o \in Offer,
           NEW new, new = Put(table, h, o.step, Taking(h, o, table[h][o.step]))
    PROVE  TableOK(new) /\ DeskOK(new, desk)
  <1>1. PICK s, old, row : s = o.step /\ old = table[h][s] /\ row = Taking(h, o, old)
    OBVIOUS
  <1>2. s \in Steps /\ GoodRow(old) /\ old \in Row
    BY <1>1 DEF Offer, TableOK, GoodRow
  <1>3. GoodRow(row) /\ row.tries = old.tries
    <2>1. CASE Accepted(h, o, old)
      <3>1. row = [status |-> "ok", tries |-> old.tries, ts |-> o.ts, of |-> o.of,
                   cites |-> o.cites, origin |-> o.peer, rev |-> 0]
        BY <1>1, <2>1 DEF Taking
      <3>2. row \in Row
        BY <1>2, <3>1 DEF Row, Offer
      <3> QED
        BY <3>1, <3>2 DEF GoodRow
    <2>2. CASE ~ Accepted(h, o, old)
      BY <1>1, <1>2, <2>2 DEF Taking
    <2> QED
      BY <2>1, <2>2
  <1>4. new = Put(table, h, s, row)
    BY <1>1
  <1>5. /\ TableOK(new) /\ new[h][s] = row
        /\ \A g \in Hubs, x \in Steps : ~ (g = h /\ x = s) => new[g][x] = table[g][x]
    BY <1>2, <1>3, <1>4, PutOK
  <1>6. desk[h].step = s => new[h][s].tries < MaxTries
    <2>1. s # 0
      BY <1>2, Sizes
    <2> QED
      BY <1>1, <1>3, <1>5, <2>1 DEF DeskOK
  <1>7. desk \in [Hubs -> Work] /\ \A g \in Hubs : desk[g] \in {desk[g], NoWork}
    BY DEF DeskOK
  <1>8. DeskOK(new, desk)
    BY <1>2, <1>5, <1>6, <1>7, DeskKept
  <1> QED
    BY <1>5, <1>8

LEMMA AcceptS ==
    ASSUME SInv, NEW h \in Hubs, Accept(h)
    PROVE  SInv'
  <1>1. GoodPuller(puller[h]) /\ puller[h].pc = "keep"
    BY DEF SInv, PullersInv, Accept
  <1>2. PICK o : o = puller[h].offer
    OBVIOUS
  <1>3. o \in Offer
    BY <1>1, <1>2 DEF GoodPuller
  <1>4. PullersInv'
    <2>1. GoodPuller(Decided(puller[h]))
      BY <1>1, <1>2, <1>3, DecidedTyped
    <2>2. puller' = [puller EXCEPT ![h] = Decided(puller[h])]
      BY DEF Accept
    <2> QED
      BY <2>1, <2>2, PullerS
  <1>5. /\ TableOK(orig) /\ DeskOK(orig, writing) /\ TableOK(tr) /\ DeskOK(tr, wording)
        /\ writing' = writing /\ wording' = wording
        /\ orig' = IF o.of = 0 THEN Put(orig, h, o.step, Taking(h, o, orig[h][o.step])) ELSE orig
        /\ tr' = IF o.of # 0 THEN Put(tr, h, o.step, Taking(h, o, tr[h][o.step])) ELSE tr
    BY <1>2 DEF SInv, OrigInv, TrInv, Accept
  <1>6. TableOK(orig') /\ DeskOK(orig', writing')
    <2>1. CASE o.of = 0
      <3>1. orig' = Put(orig, h, o.step, Taking(h, o, orig[h][o.step]))
        BY <1>5, <2>1
      <3> QED
        BY <1>3, <1>5, <3>1, TakingOK
    <2>2. CASE o.of # 0
      BY <1>5, <2>2
    <2> QED
      BY <2>1, <2>2
  <1>7. TableOK(tr') /\ DeskOK(tr', wording')
    <2>1. CASE o.of # 0
      <3>1. tr' = Put(tr, h, o.step, Taking(h, o, tr[h][o.step]))
        BY <1>5, <2>1
      <3> QED
        BY <1>3, <1>5, <3>1, TakingOK
    <2>2. CASE o.of = 0
      BY <1>5, <2>2
    <2> QED
      BY <2>1, <2>2
  <1>8. OrigInv' /\ TrInv'
    BY <1>6, <1>7 DEF OrigInv, TrInv, TableOK, DeskOK
  <1> QED
    BY <1>4, <1>8, KeptS DEF Accept, SInv

LEMMA AsideTyped ==
    ASSUME NEW queue \in Seq(Offer), NEW o \in Offer
    PROVE  SetAside(queue, o) \in Seq(Offer)
  <1> DEFINE laid == IF \E i \in DOMAIN queue : SameKey(queue[i], o)
                     THEN [i \in DOMAIN queue |->
                              IF SameKey(queue[i], o) /\ o.ts > queue[i].ts THEN o ELSE queue[i]]
                     ELSE Append(queue, o)
             K == {i \in DOMAIN laid :
                      laid[i].peer = o.peer =>
                          Cardinality({j \in DOMAIN laid : j > i /\ laid[j].peer = o.peer}) < PendingMax}
  <1>1. laid \in Seq(Offer)
    <2>1. CASE \E i \in DOMAIN queue : SameKey(queue[i], o)
      <3> DEFINE new == [i \in DOMAIN queue |->
                            IF SameKey(queue[i], o) /\ o.ts > queue[i].ts THEN o ELSE queue[i]]
      <3>1. Len(queue) \in Nat /\ DOMAIN queue = 1 .. Len(queue) /\ \A i \in DOMAIN queue : queue[i] \in Offer
        OBVIOUS
      <3>2. \A i \in DOMAIN queue : new[i] \in {o, queue[i]}
        OBVIOUS
      <3>3. new = [i \in 1 .. Len(queue) |-> new[i]]
        BY <3>1
      <3> HIDE DEF new
      <3>4. \A i \in 1 .. Len(queue) : new[i] \in Offer
        BY <3>1, <3>2
      <3>5. new \in Seq(Offer)
        BY <3>1, <3>3, <3>4
      <3>6. laid = new
        BY <2>1 DEF new
      <3> QED
        BY <3>5, <3>6
    <2>2. CASE ~ \E i \in DOMAIN queue : SameKey(queue[i], o)
      <3>1. Append(queue, o) \in Seq(Offer)
        BY EntriesOf
      <3> QED
        BY <2>2, <3>1
    <2> QED
      BY <2>1, <2>2
  <1>2. SetAside(queue, o) = Capped(laid, o.peer)
    BY DEF SetAside
  <1> HIDE DEF laid
  <1>3. Capped(laid, o.peer) = Picked(laid, K) /\ K \subseteq DOMAIN laid
    BY DEF Capped
  <1> HIDE DEF K
  <1> QED
    BY <1>1, <1>2, <1>3, PickedOf

LEMMA WaitingS ==
    ASSUME SInv, NEW h \in Hubs, Aside(h) \/ Drop(h)
    PROVE  SInv'
  <1>1. GoodPuller(puller[h]) /\ waiting[h] \in Seq(Offer) /\ puller[h].offer \in Offer
    BY DEF SInv, PullersInv, WaitInv, GoodPuller, Aside, Drop
  <1>2. PullersInv'
    <2>1. GoodPuller(Done(puller[h])) /\ puller' = [puller EXCEPT ![h] = Done(puller[h])]
      BY <1>1, DecidedTyped DEF Aside, Drop
    <2> QED
      BY <2>1, PullerS
  <1>3. \E queue \in Seq(Offer) : waiting' = [waiting EXCEPT ![h] = queue]
    <2>1. CASE Aside(h)
      <3>1. PICK o : o = [puller[h].offer EXCEPT !.rev = 0]
        OBVIOUS
      <3>2. o \in Offer
        BY <1>1, <3>1 DEF Offer
      <3>3. SetAside(waiting[h], o) \in Seq(Offer)
        BY <1>1, <3>2, AsideTyped
      <3> QED
        BY <2>1, <3>1, <3>3 DEF Aside
    <2>2. CASE Drop(h)
      <3>1. PICK K : K = {i \in DOMAIN waiting[h] : ~SameKey(waiting[h][i], puller[h].offer)}
        OBVIOUS
      <3>2. Picked(waiting[h], K) \in Seq(Offer)
        BY <1>1, <3>1, PickedOf
      <3>3. waiting' = [waiting EXCEPT ![h] = Picked(waiting[h], K)]
        BY <2>2, <3>1 DEF Drop
      <3> QED
        BY <3>2, <3>3
    <2> QED
      BY <2>1, <2>2
  <1>4. WaitInv'
    BY <1>3, QueueS
  <1>5. UNCHANGED <<posts, tables, cursor, writing, wording, clock>>
    BY DEF Aside, Drop
  <1> QED
    BY <1>2, <1>4, <1>5, KeptS DEF tables, SInv

LEMMA NextS == SInv /\ [Next]_vars => SInv'
  <1> SUFFICES ASSUME SInv, [Next]_vars PROVE SInv'
    OBVIOUS
  <1>1. CASE UNCHANGED vars
    BY <1>1, KeptS DEF vars, tables, taking, SInv
  <1>2. ASSUME NEW h \in Hubs,
               \/ CreateRoot(h) \/ DeleteRoot(h)
               \/ \E r \in Replies : CreateReply(h, r) \/ DeleteReply(h, r)
        PROVE  SInv'
    BY <1>2, PostsS
  <1>3. ASSUME NEW h \in Hubs,
               \/ \E s \in Steps : Read(h, s) \/ ReadWords(h, s)
               \/ Answers(h) \/ FailSummary(h) \/ NoSummary(h) \/ FailWords(h) \/ NoWords(h)
        PROVE  SInv'
    <2>1. Times[h] \subseteq Nat
      BY TimesAssumption
    <2>2. CASE Answers(h)
      <3>1. PICK t \in Times[h] : (\E cites : Summarize(h, cites, t)) \/ TranslateSummary(h, t)
        BY <2>2 DEF Answers
      <3>2. t \in Nat
        BY <2>1
      <3>3. ASSUME NEW cites, Summarize(h, cites, t) PROVE SInv'
        BY <3>2, <3>3, WritingS
      <3>4. ASSUME TranslateSummary(h, t) PROVE SInv'
        BY <3>2, <3>4, WordingS
      <3> QED
        BY <3>1, <3>3, <3>4
    <2>3. CASE ~ Answers(h)
      BY <1>3, <2>3, WritingS, WordingS
    <2> QED
      BY <2>2, <2>3
  <1>4. ASSUME NEW h \in Hubs,
               Resummarize(h) \/ Settle(h) \/ Restart(h) \/ \E p \in Pulls[h] : StartPull(h, p)
        PROVE  SInv'
    BY <1>4, ResummarizeS, SettleS, RoundS
  <1>5. ASSUME NEW h \in Hubs, Busy(h) PROVE SInv'
    BY <1>5, RoundS, FetchS, LookS, AcceptS, WaitingS DEF Busy
  <1> QED
    BY <1>1, <1>2, <1>3, <1>4, <1>5 DEF Next

-----------------------------------------------------------------------------
\* The tables hold what they should: no step is given more tries than there
\* are, whatever the models answer and whatever is taken over meanwhile.
THEOREM SummariesTyped == Spec => []TypeOK
  <1>1. SInv => TypeOK
    BY DEF SInv, PostsInv, OrigInv, TrInv, TableOK, DeskOK, NumbersInv, PullersInv, WaitInv, TypeOK
  <1> QED
    BY <1>1, InitS, NextS, PTL DEF Spec

-----------------------------------------------------------------------------
(* What a summary cites.                                                   *)

\* Where a reply stands in a queue of deletes.
Place(queue, r) == IF r \in Entries(queue) THEN CHOOSE i \in DOMAIN queue : queue[i] = r
                   ELSE Len(queue) + 1

\* Of the posts ps, and the deletes in queue: r stands in the thread, or
\* something it hangs from went, and before r if r went too.
Stands(ps, r) == r \in Replies /\ Climb(ps, r) \in 1 .. Levels
Fell(queue, r) ==
    \E q \in Above(r) : q \in Entries(queue) /\ (r \in Entries(queue) => Place(queue, q) < Place(queue, r))

\* A row of the hub's own.
Own(row) == row.status = "ok" /\ row.origin = Local
RowCites(h, row) == Own(row) => root[h] = "here" /\ \A r \in row.cites : Stands(Posted(h), r) \/ Fell(gone[h], r)

\* OwnCitesStand says nothing of a reply that is held: inductive is what is
\* said of every reply cited, with the root it hangs from.
CitesInv == \A h \in Hubs, s \in Steps : RowCites(h, orig[h][s])

PlacesKept(queue, longer, d) ==
    \A x \in Entries(queue) : /\ Place(longer, x) = Place(queue, x)
                              /\ Place(queue, x) < Place(longer, d) /\ Place(queue, x) \in Nat

LEMMA PlaceOf ==
    ASSUME NEW queue \in Seq(Replies), Distinct(queue), NEW d \in Replies, d \notin Entries(queue),
           NEW longer, longer = Append(queue, d)
    PROVE  Entries(longer) = Entries(queue) \cup {d} /\ PlacesKept(queue, longer, d)
  <1>1. /\ Len(queue) \in Nat /\ DOMAIN queue = 1 .. Len(queue) /\ DOMAIN longer = 1 .. Len(queue) + 1
        /\ \A i \in 1 .. Len(queue) : longer[i] = queue[i] /\ queue[i] # d
        /\ longer[Len(queue) + 1] = d
    BY AppendProperties DEF Entries
  <1>2. Entries(longer) = Entries(queue) \cup {d}
    BY EntriesOf
  <1>3. ASSUME NEW i \in 1 .. Len(queue) + 1 PROVE i = Len(queue) + 1 \/ i \in 1 .. Len(queue)
    BY <1>1
  <1>4. Place(longer, d) = Len(queue) + 1
    <2>1. \A i \in DOMAIN longer : longer[i] = d => i = Len(queue) + 1
      BY <1>1, <1>3
    <2>2. Len(queue) + 1 \in DOMAIN longer
      BY <1>1
    <2>3. (CHOOSE i \in DOMAIN longer : longer[i] = d) = Len(queue) + 1
      BY <1>1, <2>1, <2>2
    <2> QED
      BY <1>2, <2>3 DEF Place
  <1>5. ASSUME NEW x \in Entries(queue)
        PROVE  Place(longer, x) = Place(queue, x) /\ Place(queue, x) \in 1 .. Len(queue)
    <2>1. PICK j \in DOMAIN queue : queue[j] = x
      BY DEF Entries
    <2>2. \A i \in DOMAIN queue : queue[i] = x => i = j
      BY <2>1 DEF Distinct
    <2>3. j \in 1 .. Len(queue) /\ j \in DOMAIN longer /\ longer[j] = x /\ x # d
      BY <1>1, <2>1
    <2>4. \A i \in DOMAIN longer : longer[i] = x => i = j
      BY <1>1, <1>3, <2>2, <2>3
    <2>5. (CHOOSE i \in DOMAIN queue : queue[i] = x) = j
      BY <2>1, <2>2
    <2>6. (CHOOSE i \in DOMAIN longer : longer[i] = x) = j
      BY <2>3, <2>4
    <2> QED
      BY <1>2, <2>3, <2>5, <2>6 DEF Place
  <1>6. ASSUME NEW x \in Entries(queue)
        PROVE  /\ Place(longer, x) = Place(queue, x) /\ Place(queue, x) < Place(longer, d)
               /\ Place(queue, x) \in Nat
    BY <1>1, <1>4, <1>5
  <1> QED
    BY <1>2, <1>6 DEF PlacesKept

\* What fell from the thread stays so.
LEMMA FellKept ==
    ASSUME NEW queue \in Seq(Replies), Distinct(queue), NEW d \in Replies, d \notin Entries(queue),
           NEW r, Fell(queue, r)
    PROVE  Fell(Append(queue, d), r)
  <1>1. PICK longer : longer = Append(queue, d)
    OBVIOUS
  <1>2. /\ Entries(longer) = Entries(queue) \cup {d}
        /\ \A x \in Entries(queue) : Place(longer, x) = Place(queue, x) /\ Place(queue, x) < Place(longer, d)
    <2>1. Entries(longer) = Entries(queue) \cup {d} /\ PlacesKept(queue, longer, d)
      BY <1>1, PlaceOf, Zenon
    <2> QED
      BY <2>1 DEF PlacesKept
  <1>3. PICK q \in Above(r) : q \in Entries(queue) /\ (r \in Entries(queue) => Place(queue, q) < Place(queue, r))
    BY DEF Fell
  <1>4. r \in Entries(longer) => Place(longer, q) < Place(longer, r)
    BY <1>2, <1>3
  <1>5. Fell(longer, r)
    BY <1>2, <1>3, <1>4 DEF Fell
  <1> QED
    BY <1>1, <1>5

LEMMA PostedOf ==
    ASSUME PostsInv, NEW h \in Hubs
    PROVE  Posted(h) \subseteq Replies \cup {Root} /\ Held(h) \subseteq Replies
  <1>1. replies[h] \in Seq(Replies)
    BY DEF PostsInv
  <1> QED
    BY <1>1, EntriesOf DEF Held, Posted

\* A reply that stands in the thread is held, and has not gone.
LEMMA StandsHeld ==
    ASSUME PostsInv, NEW h \in Hubs, NEW r, Stands(Posted(h), r)
    PROVE  r \in Held(h) /\ r \notin Entries(gone[h])
  <1>1. r \in Replies /\ Climb(Posted(h), r) # 0
    BY Sizes DEF Stands
  <1>2. r \in Posted(h) /\ r # Root
    BY <1>1, ClimbHeld, Sizes
  <1>3. r \in Held(h)
    BY <1>2 DEF Posted
  <1> QED
    BY <1>3 DEF PostsInv

\* No post comes or goes; the rows there were stay, or are replaced by rows
\* that are not the hub's own.
LEMMA RowsC ==
    ASSUME CitesInv, UNCHANGED posts,
           \A h \in Hubs, s \in Steps : orig'[h][s] = orig[h][s] \/ ~ Own(orig'[h][s])
    PROVE  CitesInv'
  <1> SUFFICES ASSUME NEW h \in Hubs, NEW s \in Steps PROVE RowCites(h, orig[h][s])'
    BY DEF CitesInv
  <1>1. RowCites(h, orig[h][s])
    BY DEF CitesInv
  <1>2. root' = root /\ gone' = gone /\ replies' = replies
    BY DEF posts
  <1>3. orig'[h][s] = orig[h][s] \/ ~ Own(orig'[h][s])
    OBVIOUS
  <1> QED
    BY <1>1, <1>2, <1>3 DEF RowCites, Own, Posted, Held

\* A summary is written: every reply cited stands in the thread.
LEMMA SummarizeC ==
    ASSUME SInv, CitesInv, NEW h \in Hubs, NEW cites, NEW t, Summarize(h, cites, t)
    PROVE  CitesInv'
  <1>0. UNCHANGED posts
    BY DEF Summarize
  <1>1. CASE ~ MayWrite(h, cites)
    BY <1>0, <1>1, RowsC DEF Summarize
  <1>2. CASE MayWrite(h, cites)
    <2>1. PICK s, row : /\ s = writing[h].step /\ s # 0
                        /\ row = [status |-> "ok", tries |-> orig[h][s].tries + 1, ts |-> t, of |-> 0,
                                  cites |-> cites, origin |-> Local, rev |-> revs[h] + 1]
      BY DEF Summarize
    <2>2. s \in Steps /\ orig \in [Hubs -> [Steps -> Row]]
      BY <2>1 DEF SInv, OrigInv, DeskOK, TableOK, Work
    <2>3. orig' = Put(orig, h, s, row) /\ row.cites = cites
      BY <1>2, <2>1 DEF Summarize
    <2>4. orig'[h][s] = row
      BY <2>2, <2>3 DEF Put
    <2>5. \A g \in Hubs, x \in Steps : ~ (g = h /\ x = s) => orig'[g][x] = orig[g][x]
      BY <2>2, <2>3 DEF Put
    <2>6. root[h] = "here" /\ \A r \in row.cites : Stands(Posted(h), r)
      BY <1>2, <2>3 DEF MayWrite, InThread, Level, Stands
    <2>7. root' = root /\ gone' = gone /\ replies' = replies
      BY <1>0 DEF posts
    <2> SUFFICES ASSUME NEW g \in Hubs, NEW x \in Steps PROVE RowCites(g, orig[g][x])'
      BY DEF CitesInv
    <2>8. CASE g = h /\ x = s
      BY <2>4, <2>6, <2>7, <2>8 DEF RowCites, Posted, Held
    <2>9. CASE ~ (g = h /\ x = s)
      BY <2>5, <2>7, <2>9 DEF CitesInv, RowCites, Posted, Held
    <2> QED
      BY <2>8, <2>9
  <1> QED
    BY <1>1, <1>2

\* What may become of a row and of the posts of one hub, where nothing of it
\* goes: its root stays if it is here.
LEMMA GrowsC ==
    ASSUME SInv, CitesInv, NEW h \in Hubs, CreateRoot(h) \/ \E r \in Replies : CreateReply(h, r)
    PROVE  CitesInv'
  <1>1. gone' = gone /\ orig' = orig /\ \A g \in Hubs : root[g] = "here" => root'[g] = "here"
    BY DEF CreateRoot, CreateReply, tables, SInv, PostsInv
  <1>2. ASSUME NEW g \in Hubs PROVE Entries(replies[g]) \subseteq Entries(replies'[g])
    <2>1. CASE replies' = replies
      BY <2>1
    <2>2. CASE replies' # replies
      <3>1. PICK r \in Replies : replies' = [replies EXCEPT ![h] = Append(replies[h], r)]
        BY <2>2 DEF CreateRoot, CreateReply
      <3>2. replies \in [Hubs -> Seq(Replies)]
        BY DEF SInv, PostsInv
      <3>3. Entries(replies[h]) \subseteq Entries(Append(replies[h], r))
        BY <3>2, EntriesOf
      <3> QED
        BY <3>1, <3>2, <3>3
    <2> QED
      BY <2>1, <2>2
  <1> SUFFICES ASSUME NEW g \in Hubs, NEW s \in Steps, Own(orig[g][s]), NEW r \in orig[g][s].cites
               PROVE  root'[g] = "here" /\ (Stands(Posted(g)', r) \/ Fell(gone[g], r))
    BY <1>1 DEF CitesInv, RowCites, Own
  <1>3. root[g] = "here" /\ root'[g] = "here" /\ (Stands(Posted(g), r) \/ Fell(gone[g], r))
    BY <1>1 DEF CitesInv, RowCites
  <1>4. Posted(g) \subseteq Posted(g)'
    BY <1>2, <1>3 DEF Posted, Held
  <1>5. ASSUME Stands(Posted(g), r) PROVE Stands(Posted(g)', r)
    <2>1. r \in Replies /\ Climb(Posted(g), r) # 0 /\ Climb(Posted(g), r) \in 1 .. Levels
      BY <1>5, Sizes DEF Stands
    <2>2. PICK ps, qs : ps = Posted(g) /\ qs = Posted(g)'
      OBVIOUS
    <2>3. Climb(qs, r) = Climb(ps, r)
      BY <1>4, <2>1, <2>2, ClimbGrows
    <2>4. Stands(qs, r)
      BY <2>1, <2>2, <2>3 DEF Stands
    <2> QED
      BY <2>2, <2>4
  <1> QED
    BY <1>3, <1>5

\* The root's delete leaves no row of its hub.
LEMMA DeleteRootC ==
    ASSUME SInv, CitesInv, NEW h \in Hubs, DeleteRoot(h)
    PROVE  CitesInv'
  <1>1. /\ orig \in [Hubs -> [Steps -> Row]] /\ root \in [Hubs -> {"away", "here", "gone"}]
        /\ replies' = replies /\ gone' = gone /\ root' = [root EXCEPT ![h] = "gone"]
        /\ orig' = [orig EXCEPT ![h] = [s \in Steps |-> NoRow]]
    BY DEF DeleteRoot, SInv, PostsInv, OrigInv, TableOK
  <1> SUFFICES ASSUME NEW g \in Hubs, NEW s \in Steps PROVE RowCites(g, orig[g][s])'
    BY DEF CitesInv
  <1>2. CASE g = h
    <2>1. orig'[g][s] = NoRow
      BY <1>1, <1>2
    <2> QED
      BY <2>1, NoRowTyped DEF RowCites, Own
  <1>3. CASE g # h
    <2>1. orig'[g][s] = orig[g][s] /\ root'[g] = root[g]
      BY <1>1, <1>3
    <2>2. RowCites(g, orig[g][s])
      BY DEF CitesInv
    <2> QED
      BY <1>1, <2>1, <2>2 DEF RowCites, Own, Posted, Held
  <1> QED
    BY <1>2, <1>3

\* A reply's delete takes the rows that cite it while it stands; what hangs
\* from it falls before it goes.
LEMMA DeleteReplyC ==
    ASSUME SInv, CitesInv, NEW h \in Hubs, NEW d \in Replies, DeleteReply(h, d)
    PROVE  CitesInv'
  <1>0. PostsInv /\ orig \in [Hubs -> [Steps -> Row]] /\ root' = root
    BY DEF SInv, OrigInv, TableOK, DeleteReply
  <1>1. /\ d \in Held(h) /\ d \notin Entries(gone[h])
        /\ Entries(replies'[h]) = Held(h) \ {d} /\ gone'[h] = Append(gone[h], d)
        /\ \A g \in Hubs \ {h} : gone'[g] = gone[g] /\ replies'[g] = replies[g]
    BY <1>0, Deleted
  <1>2. PICK rows : rows = [s \in Steps |-> IF Taken(h, d, orig[h][s]) THEN NoRow ELSE orig[h][s]]
    OBVIOUS
  <1>3. orig' = [orig EXCEPT ![h] = rows]
    BY <1>2 DEF DeleteReply
  <1> SUFFICES ASSUME NEW g \in Hubs, NEW s \in Steps PROVE RowCites(g, orig[g][s])'
    BY DEF CitesInv
  <1>4. RowCites(g, orig[g][s])
    BY DEF CitesInv
  <1>5. CASE g # h
    <2>1. orig'[g][s] = orig[g][s] /\ gone'[g] = gone[g] /\ replies'[g] = replies[g]
      BY <1>0, <1>1, <1>3, <1>5
    <2> QED
      BY <1>0, <1>4, <2>1 DEF RowCites, Own, Posted, Held
  <1>6. CASE g = h /\ Taken(h, d, orig[h][s])
    <2>1. orig'[g][s] = NoRow
      BY <1>0, <1>2, <1>3, <1>6
    <2> QED
      BY <2>1, NoRowTyped DEF RowCites, Own
  <1>7. CASE g = h /\ ~ Taken(h, d, orig[h][s])
    <2>1. orig'[h][s] = orig[h][s]
      BY <1>0, <1>2, <1>3, <1>7
    <2>2. gone[h] \in Seq(Replies) /\ Distinct(gone[h])
      BY <1>0 DEF PostsInv
    <2>3. PICK ps : ps = Posted(h)
      OBVIOUS
    <2>4. Posted(h)' = ps \ {d} /\ ps \subseteq Replies \cup {Root}
      <3>1. d # Root
        BY Sizes
      <3>2. Posted(h)' = (Held(h) \ {d}) \cup {q \in {Root} : root[h] = "here"}
        BY <1>0, <1>1 DEF Posted, Held
      <3> QED
        BY <1>0, <2>3, <3>1, <3>2, PostedOf DEF Posted
    <2>5. ASSUME Own(orig[h][s]), NEW r \in orig[h][s].cites
          PROVE  Stands(ps \ {d}, r) \/ Fell(Append(gone[h], d), r)
      <3>1. Stands(ps, r) \/ Fell(gone[h], r)
        BY <1>4, <1>7, <2>3, <2>5 DEF RowCites
      <3>2. CASE Fell(gone[h], r)
        BY <1>1, <2>2, <3>2, FellKept
      <3>3. CASE Stands(ps, r)
        <4>1. r # d
          <5>1. SUFFICES ASSUME r = d PROVE FALSE
            OBVIOUS
          <5> QED
            BY <1>7, <2>3, <3>3, <5>1 DEF Taken, InThread, Level, Stands
        <4>2. r \in Replies /\ r \notin Entries(gone[h]) /\ Climb(ps, r) # 0 /\ Climb(ps, r) \in 1 .. Levels
          BY <1>0, <2>3, <3>3, StandsHeld, Sizes DEF Stands
        <4>3. CASE d \in Above(r)
          <5>1. Entries(Append(gone[h], d)) = Entries(gone[h]) \cup {d}
            BY <2>2, EntriesOf
          <5> QED
            BY <4>1, <4>2, <4>3, <5>1 DEF Fell
        <4>4. CASE d \notin Above(r)
          <5>1. Climb(ps \ {d}, r) = Climb(ps, r)
            BY <2>4, <4>1, <4>2, <4>4, ClimbKept
          <5> QED
            BY <4>2, <5>1 DEF Stands
        <4> QED
          BY <4>3, <4>4
      <3> QED
        BY <3>1, <3>2, <3>3
    <2>6. Own(orig[h][s]) => root[h] = "here"
      BY <1>4, <1>7 DEF RowCites
    <2>7. Own(orig'[h][s]) => root'[h] = "here" /\ \A r \in orig'[h][s].cites :
             Stands(Posted(h)', r) \/ Fell(gone'[h], r)
      BY <1>0, <1>1, <2>1, <2>4, <2>5, <2>6
    <2> QED
      BY <1>7, <2>7 DEF RowCites, Own, Stands, Fell
  <1> QED
    BY <1>5, <1>6, <1>7

\* What is taken over is a peer's: no row of the hub's own.
LEMMA AcceptC ==
    ASSUME SInv, CitesInv, NEW h \in Hubs, Accept(h)
    PROVE  CitesInv'
  <1>1. /\ orig \in [Hubs -> [Steps -> Row]] /\ UNCHANGED posts
        /\ GoodPuller(puller[h]) /\ puller[h].pc = "keep"
    BY DEF SInv, OrigInv, TableOK, PullersInv, Accept
  <1>2. PICK o, s, row : o = puller[h].offer /\ s = o.step /\ row = Taking(h, o, orig[h][s])
    OBVIOUS
  <1>3. o \in Offer /\ s \in Steps
    BY <1>1, <1>2 DEF GoodPuller, Offer
  <1>4. orig' = IF o.of = 0 THEN Put(orig, h, s, row) ELSE orig
    BY <1>2 DEF Accept
  <1>5. row = orig[h][s] \/ ~ Own(row)
    <2>1. o.peer # Local
      BY <1>3, Sizes DEF Offer
    <2> QED
      BY <1>2, <2>1 DEF Taking, Own
  <1>6. ASSUME NEW g \in Hubs, NEW x \in Steps PROVE orig'[g][x] = orig[g][x] \/ ~ Own(orig'[g][x])
    <2>1. CASE o.of = 0 /\ g = h /\ x = s
      <3>1. orig'[g][x] = row
        BY <1>1, <1>4, <2>1 DEF Put
      <3> QED
        BY <1>5, <2>1, <3>1
    <2>2. CASE ~ (o.of = 0 /\ g = h /\ x = s)
      BY <1>1, <1>4, <2>2 DEF Put
    <2> QED
      BY <2>1, <2>2
  <1> QED
    BY <1>1, <1>6, RowsC

\* An answer that is none, or an editor, leaves no row of the hub's own.
LEMMA FailedC ==
    ASSUME SInv, CitesInv, NEW h \in Hubs, FailSummary(h) \/ Resummarize(h)
    PROVE  CitesInv'
  <1>1. orig \in [Hubs -> [Steps -> Row]] /\ UNCHANGED posts
    BY DEF SInv, OrigInv, TableOK, FailSummary, Resummarize
  <1>2. PICK s, row : orig' \in {Put(orig, h, s, row), orig} /\ ~ Own(row)
    <2>1. CASE FailSummary(h)
      <3>1. PICK s, row : s = writing[h].step /\ row = Failed(orig[h][s])
        OBVIOUS
      <3>2. orig' \in {Put(orig, h, s, row), orig}
        BY <2>1, <3>1 DEF FailSummary
      <3>3. row.status = "failed"
        BY <3>1 DEF Failed, NoRow
      <3> QED
        BY <3>2, <3>3 DEF Own
    <2>2. CASE Resummarize(h)
      <3>1. PICK s : orig' = Put(orig, h, s, NoRow)
        BY <2>2 DEF Resummarize
      <3>2. ~ Own(NoRow)
        BY NoRowTyped DEF Own
      <3> QED
        BY <3>1, <3>2
    <2> QED
      BY <2>1, <2>2
  <1>3. ASSUME NEW g \in Hubs, NEW x \in Steps PROVE orig'[g][x] = orig[g][x] \/ ~ Own(orig'[g][x])
    <2>1. CASE orig' = orig
      BY <2>1
    <2>2. CASE orig' = Put(orig, h, s, row)
      <3>1. orig'[g][x] = IF g = h /\ x = s THEN row ELSE orig[g][x]
        BY <1>1, <2>2 DEF Put
      <3> QED
        BY <1>2, <3>1
    <2> QED
      BY <1>2, <2>1, <2>2
  <1> QED
    BY <1>1, <1>3, RowsC

LEMMA NextC == SInv /\ CitesInv /\ [Next]_vars => CitesInv'
  <1> SUFFICES ASSUME SInv, CitesInv, [Next]_vars PROVE CitesInv'
    OBVIOUS
  <1>1. ASSUME UNCHANGED posts, orig' = orig PROVE CitesInv'
    BY <1>1, RowsC
  <1>2. CASE UNCHANGED vars
    BY <1>1, <1>2 DEF vars, tables
  <1>3. ASSUME NEW h \in Hubs,
               \/ CreateRoot(h) \/ DeleteRoot(h)
               \/ \E r \in Replies : CreateReply(h, r) \/ DeleteReply(h, r)
        PROVE  CitesInv'
    BY <1>3, GrowsC, DeleteRootC, DeleteReplyC
  <1>4. ASSUME NEW h \in Hubs, Answers(h) PROVE CitesInv'
    <2>1. (\E cites, t : Summarize(h, cites, t)) \/ \E t : TranslateSummary(h, t)
      BY <1>4 DEF Answers
    <2>2. ASSUME NEW t, TranslateSummary(h, t) PROVE CitesInv'
      BY <1>1, <2>2 DEF TranslateSummary
    <2> QED
      BY <2>1, <2>2, SummarizeC
  <1>5. ASSUME NEW h \in Hubs,
               \/ \E s \in Steps : Read(h, s) \/ ReadWords(h, s)
               \/ NoSummary(h) \/ FailWords(h) \/ NoWords(h) \/ Settle(h) \/ Restart(h)
               \/ \E p \in Pulls[h] : StartPull(h, p)
        PROVE  CitesInv'
    BY <1>1, <1>5 DEF Read, ReadWords, NoSummary, FailWords, NoWords, Settle, Restart, StartPull, tables
  <1>6. ASSUME NEW h \in Hubs, FailSummary(h) \/ Resummarize(h) PROVE CitesInv'
    BY <1>6, FailedC
  <1>7. ASSUME NEW h \in Hubs, Busy(h) PROVE CitesInv'
    <2>1. CASE Accept(h)
      BY <2>1, AcceptC
    <2>2. CASE ~ Accept(h)
      BY <1>1, <1>7, <2>2 DEF Busy, FetchFails, Fetch, Look, Aside, Drop, PageDone, tables
    <2> QED
      BY <2>1, <2>2
  <1> QED
    BY <1>2, <1>3, <1>4, <1>5, <1>6, <1>7 DEF Next

-----------------------------------------------------------------------------
\* What a hub wrote from its thread cites no reply that is deleted, whenever
\* the delete came, but for one that had fallen out of the thread with a reply
\* above it first.
THEOREM CitesHold == Spec => []CitesStand
  <1>1. Init => CitesInv
    <2> SUFFICES ASSUME Init, NEW h \in Hubs, NEW s \in Steps PROVE RowCites(h, orig[h][s])
      BY DEF CitesInv
    <2>1. orig[h][s] = NoRow
      BY DEF Init
    <2> QED
      BY <2>1, NoRowTyped DEF RowCites, Own
  <1>2. SInv /\ CitesInv => OwnCitesStand
    <2> SUFFICES ASSUME SInv, CitesInv, NEW h \in Hubs, NEW s \in Steps, Own(orig[h][s]),
                        NEW r \in orig[h][s].cites, r \in Entries(gone[h])
                 PROVE  \E q \in Above(r) : WentAt(h, q) < WentAt(h, r)
      BY DEF OwnCitesStand, Own
    <2>1. Stands(Posted(h), r) \/ Fell(gone[h], r)
      BY DEF CitesInv, RowCites
    <2>2. ~ Stands(Posted(h), r)
      BY StandsHeld DEF SInv
    <2> QED
      BY <2>1, <2>2 DEF Fell, Place, WentAt
  <1>3. SInv => TypeOK
    BY DEF SInv, PostsInv, OrigInv, TrInv, TableOK, DeskOK, NumbersInv, PullersInv, WaitInv, TypeOK
  <1>4. SInv /\ CitesInv => CitesStand
    BY <1>2, <1>3 DEF CitesStand
  <1> QED
    BY <1>1, <1>4, InitS, NextS, NextC, PTL DEF Spec

-----------------------------------------------------------------------------
(* Readers: HubSummaries does what HubTexts promises.                      *)

\* What a hub has in hand of its peers', and the text an offer is.
InHand(h, o) ==
    \/ o \in puller[h].page
    \/ puller[h].pc # "next" /\ o = puller[h].offer
    \/ \E i \in DOMAIN waiting[h] : o = waiting[h][i]

KeyOf(o) == <<o.step, IF o.of = 0 THEN "orig" ELSE "tr">>
TextOf(o) == [by |-> o.peer, ts |-> o.ts, cites |-> o.cites]

Same(w, o) == /\ w.peer = o.peer /\ w.step = o.step /\ w.of = o.of
              /\ w.ts = o.ts /\ w.cites = o.cites

\* A text known to be made, by a hub that h pulls from.
Known(h, o) == o.peer \in Pulls[h] /\ TextOf(o) \in made[o.peer][KeyOf(o)]

\* What a hub has in hand was in its hand before, or is a row of a peer's own.
Theirs(h, o) ==
    /\ o.peer \in Pulls[h] /\ KeyOf(o) \in Keys
    /\ Own(RowOf(o.peer, KeyOf(o)))
    /\ RowOf(o.peer, KeyOf(o)).ts = o.ts /\ RowOf(o.peer, KeyOf(o)).cites = o.cites

From(h, o) == Theirs(h, o) \/ \E w : InHand(h, w) /\ Same(w, o)

\* A row served is the hub's own, in the table it is served as; what is read was made
\* some time.
GoodText(k, row) ==
    /\ row.rev # 0 => Own(row) /\ (k[2] = "orig") = (row.of = 0)
    /\ row.status = "ok" => row.ts # 0

TextsInv == \A h \in Hubs, k \in Keys : GoodText(k, RowOf(h, k))

\* Who works is a writer, and who translates has a summary at hand.
WorkersInv ==
    \A h \in Hubs : /\ writing[h].step # 0 \/ wording[h].step # 0 => h \in Writers
                    /\ wording[h].step # 0 => wording[h].of # 0

Pulling(h, s) == s.mode \in {"fetch", "pull"} => s.peer \in Pulls[h]
PeersInv == \A h \in Hubs : Pulling(h, puller[h])

\* What a step leaves in hand.
InHandFrom == PeersInv' /\ \A g \in Hubs : \A o : InHand(g, o)' => From(g, o)

\* The puller of h becomes s, the waiting entries stay.
LEMMA PullerFrom ==
    ASSUME SInv, PeersInv, NEW h \in Hubs, NEW s, puller' = [puller EXCEPT ![h] = s], waiting' = waiting,
           Pulling(h, s), \A x \in s.page : From(h, x), s.pc # "next" => From(h, s.offer)
    PROVE  InHandFrom
  <1>1. \A o : Same(o, o)
    BY DEF Same
  <1>2. puller'[h] = s /\ \A g \in Hubs : g # h => puller'[g] = puller[g]
    BY DEF SInv, PullersInv
  <1>3. PeersInv'
    BY <1>2 DEF PeersInv, Pulling
  <1>4. ASSUME NEW g \in Hubs, NEW o, InHand(g, o)' PROVE From(g, o)
    <2>1. CASE g # h
      BY <1>1, <1>2, <1>4, <2>1 DEF InHand, From
    <2>2. CASE g = h
      <3>1. CASE \E i \in DOMAIN waiting[h] : o = waiting[h][i]
        BY <1>1, <2>2, <3>1 DEF InHand, From
      <3>2. CASE o \in s.page \/ (s.pc # "next" /\ o = s.offer)
        BY <2>2, <3>2
      <3> QED
        BY <1>2, <1>4, <2>2, <3>1, <3>2 DEF InHand
    <2> QED
      BY <2>1, <2>2
  <1> QED
    BY <1>3, <1>4 DEF InHandFrom

\* ... and the waiting entries too.
LEMMA BothFrom ==
    ASSUME SInv, PeersInv, NEW h \in Hubs, NEW s, NEW queue,
           puller' = [puller EXCEPT ![h] = s], waiting' = [waiting EXCEPT ![h] = queue],
           Pulling(h, s), \A x \in s.page : From(h, x), s.pc # "next" => From(h, s.offer),
           \A i \in DOMAIN queue : From(h, queue[i])
    PROVE  InHandFrom
  <1>1. \A o : Same(o, o)
    BY DEF Same
  <1>2. /\ puller'[h] = s /\ \A g \in Hubs : g # h => puller'[g] = puller[g]
        /\ waiting'[h] = queue /\ \A g \in Hubs : g # h => waiting'[g] = waiting[g]
    BY DEF SInv, PullersInv, WaitInv
  <1>3. PeersInv'
    BY <1>2 DEF PeersInv, Pulling
  <1>4. ASSUME NEW g \in Hubs, NEW o, InHand(g, o)' PROVE From(g, o)
    <2>1. CASE g # h
      BY <1>1, <1>2, <1>4, <2>1 DEF InHand, From
    <2>2. CASE g = h
      <3>1. CASE \E i \in DOMAIN queue : o = queue[i]
        BY <2>2, <3>1
      <3>2. CASE o \in s.page \/ (s.pc # "next" /\ o = s.offer)
        BY <2>2, <3>2
      <3> QED
        BY <1>2, <1>4, <2>2, <3>1, <3>2 DEF InHand
    <2> QED
      BY <2>1, <2>2
  <1> QED
    BY <1>3, <1>4 DEF InHandFrom

\* Done or decided, the puller has nothing in hand it had not.
LEMMA DecidedFrom ==
    ASSUME NEW s, s \in Puller
    PROVE  /\ Done(s).page \subseteq s.page /\ Done(s).pc = "next"
           /\ Done(s).mode = s.mode /\ Done(s).peer = s.peer
           /\ Decided(s).page \subseteq s.page /\ (Decided(s).pc # "next" => Decided(s).offer = s.offer)
           /\ Decided(s).mode = s.mode /\ Decided(s).peer = s.peer
  <1>1. PICK u : u = [s EXCEPT !.pc = "next", !.page = s.page \ {s.offer}, !.offer = Local]
    OBVIOUS
  <1>2. u.page \subseteq s.page /\ u.pc = "next" /\ u.mode = s.mode /\ u.peer = s.peer
    BY <1>1 DEF Puller
  <1>3. Done(s) = u
    BY <1>1 DEF Done
  <1>4. CASE s.mode = "settle"
    <2>1. PICK v : v = [s EXCEPT !.pc = "drop"]
      OBVIOUS
    <2>2. v.page = s.page /\ v.offer = s.offer /\ v.mode = s.mode /\ v.peer = s.peer
      BY <2>1 DEF Puller
    <2>3. Decided(s) = v
      BY <1>4, <2>1 DEF Decided
    <2> QED
      BY <1>2, <1>3, <2>2, <2>3
  <1>5. CASE s.mode # "settle"
    BY <1>2, <1>3, <1>5 DEF Decided
  <1> QED
    BY <1>4, <1>5

LEMMA SameFrom ==
    ASSUME PeersInv, UNCHANGED <<puller, waiting>>
    PROVE  InHandFrom
  <1>1. \A o : Same(o, o)
    BY DEF Same
  <1>2. PeersInv'
    BY DEF PeersInv
  <1> QED
    BY <1>1, <1>2 DEF InHandFrom, InHand, From

\* A row past a rev is the hub's own.
LEMMA AfterTheirs ==
    ASSUME SInv, TextsInv, NEW h \in Hubs, NEW p \in Pulls[h], NEW n \in Nat, NEW o \in PageOf(p, n)
    PROVE  From(h, o)
  <1>1. p \in Hubs
    BY PullsHubs
  <1>2. ASSUME NEW s \in Steps, NEW b \in {"orig", "tr"}, NEW row, row = RowOf(p, <<s, b>>), row.rev > n,
               o = OfferOf(p, s, row)
        PROVE  Theirs(h, o)
    <2>1. <<s, b>> \in Keys
      BY DEF Keys
    <2>2. row \in Row
      BY <1>1, <1>2 DEF RowOf, SInv, OrigInv, TrInv, TableOK
    <2>3. row.rev # 0
      <3>1. row.rev \in Nat
        BY <2>2 DEF Row
      <3>2. row.rev > n
        BY <1>2
      <3> HIDE <1>2
      <3> QED
        BY <3>1, <3>2
    <2>4. GoodText(<<s, b>>, row)
      BY <1>1, <1>2, <2>1 DEF TextsInv
    <2>5. /\ o.peer = p /\ o.step = s /\ o.of = row.of /\ o.ts = row.ts /\ o.cites = row.cites
      BY <1>2 DEF OfferOf
    <2>6. KeyOf(o) = <<s, b>>
      BY <2>3, <2>4, <2>5 DEF GoodText, KeyOf
    <2> QED
      BY <1>2, <2>1, <2>3, <2>4, <2>5, <2>6 DEF Theirs, GoodText
  <1>3. \/ \E s \in Steps : orig[p][s].rev > n /\ o = OfferOf(p, s, orig[p][s])
        \/ \E s \in Steps : tr[p][s].rev > n /\ o = OfferOf(p, s, tr[p][s])
    BY DEF PageOf, After
  <1>4. \A s : RowOf(p, <<s, "orig">>) = orig[p][s] /\ RowOf(p, <<s, "tr">>) = tr[p][s]
    BY DEF RowOf
  <1>5. ASSUME NEW s \in Steps, orig[p][s].rev > n, o = OfferOf(p, s, orig[p][s]) PROVE Theirs(h, o)
    <2>1. PICK b \in {"orig", "tr"} : b = "orig"
      OBVIOUS
    <2>2. PICK row : row = orig[p][s]
      OBVIOUS
    <2> QED
      BY <1>2, <1>4, <1>5, <2>1, <2>2
  <1>6. ASSUME NEW s \in Steps, tr[p][s].rev > n, o = OfferOf(p, s, tr[p][s]) PROVE Theirs(h, o)
    <2>1. PICK b \in {"orig", "tr"} : b = "tr"
      OBVIOUS
    <2>2. PICK row : row = tr[p][s]
      OBVIOUS
    <2> QED
      BY <1>2, <1>4, <1>6, <2>1, <2>2
  <1> QED
    BY <1>3, <1>5, <1>6 DEF From

LEMMA FetchFrom ==
    ASSUME SInv, TextsInv, PeersInv, NEW h \in Hubs, Fetch(h)
    PROVE  InHandFrom
  <1>1. puller[h] \in Puller /\ puller[h].mode = "fetch" /\ puller[h].peer \in Pulls[h]
    BY DEF SInv, PullersInv, PeersInv, Pulling, Fetch
  <1>2. PICK page : page = PageOf(puller[h].peer, puller[h].cursor)
    OBVIOUS
  <1>3. PICK n : puller' = [puller EXCEPT ![h] = [@ EXCEPT !.mode = "pull", !.page = page, !.next = n]]
    BY <1>2 DEF Fetch
  <1>4. PICK s : s = [puller[h] EXCEPT !.mode = "pull", !.page = page, !.next = n]
    OBVIOUS
  <1>5. s.page = page /\ s.pc = puller[h].pc /\ s.offer = puller[h].offer /\ s.peer = puller[h].peer
    BY <1>1, <1>4 DEF Puller
  <1>6. \A o \in page : From(h, o)
    <2>1. puller[h].cursor \in Nat
      BY <1>1 DEF Puller
    <2> QED
      BY <1>1, <1>2, <2>1, AfterTheirs
  <1>7. s.pc # "next" => From(h, s.offer)
    BY <1>5 DEF InHand, From, Same
  <1>8. puller' = [puller EXCEPT ![h] = s] /\ waiting' = waiting
    BY <1>3, <1>4 DEF Fetch
  <1>9. Pulling(h, s)
    BY <1>1, <1>5 DEF Pulling
  <1> HIDE <1>2, <1>4
  <1> QED
    BY <1>5, <1>6, <1>7, <1>8, <1>9, PullerFrom

\* The waiting entries are in hand.
LEMMA WaitingFrom == ASSUME NEW h, NEW i \in DOMAIN waiting[h] PROVE From(h, waiting[h][i])
  BY DEF InHand, From, Same

LEMMA SettleFrom ==
    ASSUME SInv, PeersInv, NEW h \in Hubs, Settle(h)
    PROVE  InHandFrom
  <1>1. waiting[h] \in Seq(Offer)
    BY DEF SInv, WaitInv
  <1>2. PICK old \in {{}} \cup (IF h \in Lapsing THEN {{o} : o \in Entries(waiting[h])} ELSE {}) :
           LET left == Picked(waiting[h], {i \in DOMAIN waiting[h] : waiting[h][i] \notin old})
           IN  /\ waiting' = [waiting EXCEPT ![h] = left]
               /\ \E some \in SUBSET Entries(left) :
                     /\ Pending(left, some)
                     /\ puller' = [puller EXCEPT ![h] =
                         IF some = {} THEN Idle ELSE [Idle EXCEPT !.mode = "settle", !.page = some]]
    BY DEF Settle
  <1>3. PICK K : K = {i \in DOMAIN waiting[h] : waiting[h][i] \notin old}
    OBVIOUS
  <1>4. PICK left : left = Picked(waiting[h], K)
    OBVIOUS
  <1>5. PICK some \in SUBSET Entries(left) :
           puller' = [puller EXCEPT ![h] = IF some = {} THEN Idle ELSE [Idle EXCEPT !.mode = "settle", !.page = some]]
    BY <1>2, <1>3, <1>4
  <1>6. waiting' = [waiting EXCEPT ![h] = left]
    BY <1>2, <1>3, <1>4
  <1>7. K \subseteq DOMAIN waiting[h]
    BY <1>3
  <1> HIDE <1>3
  <1>8. \A n \in DOMAIN left : \E i \in K : left[n] = waiting[h][i]
    BY <1>1, <1>4, <1>7, PickedOf
  <1>9. \A n \in DOMAIN left : From(h, left[n])
    BY <1>7, <1>8, WaitingFrom
  <1>10. \A x \in some : From(h, x)
    <2>1. \A x \in some : \E n \in DOMAIN left : x = left[n]
      BY DEF Entries
    <2> QED
      BY <1>9, <2>1
  <1>11. PICK s : s = IF some = {} THEN Idle ELSE [Idle EXCEPT !.mode = "settle", !.page = some]
    OBVIOUS
  <1>12. s.page \subseteq some /\ s.pc = "next" /\ Pulling(h, s)
    <2>1. CASE some = {}
      BY <1>11, <2>1, IdleTyped DEF Pulling
    <2>2. CASE some # {}
      <3>1. s = [Idle EXCEPT !.mode = "settle", !.page = some]
        BY <1>11, <2>2
      <3>2. s.page = some /\ s.pc = "next" /\ s.mode = "settle"
        BY <3>1 DEF Idle
      <3> QED
        BY <3>2 DEF Pulling
    <2> QED
      BY <2>1, <2>2
  <1>13. puller' = [puller EXCEPT ![h] = s]
    BY <1>5, <1>11
  <1> HIDE <1>2, <1>4, <1>11
  <1> QED
    BY <1>6, <1>9, <1>10, <1>12, <1>13, BothFrom

LEMMA TakeFrom ==
    ASSUME SInv, PeersInv, NEW h \in Hubs, Look(h) \/ Accept(h)
    PROVE  InHandFrom
  <1>1. puller[h] \in Puller /\ Pulling(h, puller[h])
    BY DEF SInv, PullersInv, PeersInv
  <1>2. \A x \in puller[h].page : From(h, x)
    BY DEF InHand, From, Same
  <1>3. CASE Accept(h)
    <2>1. puller' = [puller EXCEPT ![h] = Decided(puller[h])] /\ waiting' = waiting /\ puller[h].pc # "next"
      BY <1>3 DEF Accept
    <2>2. From(h, puller[h].offer)
      BY <2>1 DEF InHand, From, Same
    <2>3. Pulling(h, Decided(puller[h]))
      BY <1>1, DecidedFrom DEF Pulling
    <2> QED
      BY <1>1, <1>2, <2>1, <2>2, <2>3, DecidedFrom, PullerFrom
  <1>4. CASE Look(h)
    <2>1. PICK o, s, u :
             /\ o \in puller[h].page /\ s = [puller[h] EXCEPT !.offer = o]
             /\ u \in {[s EXCEPT !.pc = "aside"], Decided(s), [s EXCEPT !.pc = "keep"]}
             /\ puller' = [puller EXCEPT ![h] = u]
      BY <1>4 DEF Look
    <2>2. o \in Offer
      BY <1>1, <2>1 DEF Puller
    <2>3. /\ s \in Puller /\ s.page = puller[h].page /\ s.offer = o
          /\ s.mode = puller[h].mode /\ s.peer = puller[h].peer
      BY <1>1, <2>1, <2>2 DEF Puller
    <2>4. \A c : LET v == [s EXCEPT !.pc = c] IN
             v.page = s.page /\ v.offer = s.offer /\ v.mode = s.mode /\ v.peer = s.peer
      BY <2>3 DEF Puller
    <2>5. u.page \subseteq puller[h].page /\ (u.pc # "next" => u.offer = o) /\ u.mode = s.mode /\ u.peer = s.peer
      <3>1. ASSUME NEW c, u = [s EXCEPT !.pc = c]
            PROVE  u.page = s.page /\ u.offer = s.offer /\ u.mode = s.mode /\ u.peer = s.peer
        BY <2>4, <3>1
      <3>2. /\ Decided(s).page \subseteq s.page /\ (Decided(s).pc # "next" => Decided(s).offer = s.offer)
            /\ Decided(s).mode = s.mode /\ Decided(s).peer = s.peer
        BY <2>3, DecidedFrom
      <3> QED
        BY <2>1, <2>3, <3>1, <3>2
    <2>6. Pulling(h, u)
      BY <1>1, <2>3, <2>5 DEF Pulling
    <2> QED
      BY <1>2, <1>4, <2>1, <2>5, <2>6, PullerFrom DEF Look
  <1> QED
    BY <1>3, <1>4

\* A queue made of entries of another and of one offer.
LEMMA AsideFrom ==
    ASSUME NEW queue, queue \in Seq(Offer), NEW o \in Offer, NEW i \in DOMAIN SetAside(queue, o)
    PROVE  SetAside(queue, o)[i] = o \/ \E n \in DOMAIN queue : SetAside(queue, o)[i] = queue[n]
  <1> DEFINE laid == IF \E n \in DOMAIN queue : SameKey(queue[n], o)
                     THEN [n \in DOMAIN queue |->
                              IF SameKey(queue[n], o) /\ o.ts > queue[n].ts THEN o ELSE queue[n]]
                     ELSE Append(queue, o)
             K == {n \in DOMAIN laid :
                      laid[n].peer = o.peer =>
                          Cardinality({j \in DOMAIN laid : j > n /\ laid[j].peer = o.peer}) < PendingMax}
  <1>1. SetAside(queue, o) = Picked(laid, K) /\ K \subseteq DOMAIN laid
    BY DEF SetAside, Capped
  <1>2. Len(queue) \in Nat /\ DOMAIN queue = 1 .. Len(queue)
    OBVIOUS
  <1>3. laid \in Seq(Offer) /\ \A n \in DOMAIN laid : laid[n] = o \/ \E m \in DOMAIN queue : laid[n] = queue[m]
    <2>1. CASE \E n \in DOMAIN queue : SameKey(queue[n], o)
      <3> DEFINE new == [n \in DOMAIN queue |->
                            IF SameKey(queue[n], o) /\ o.ts > queue[n].ts THEN o ELSE queue[n]]
      <3>1. DOMAIN new = DOMAIN queue /\ \A n \in DOMAIN queue : new[n] \in {o, queue[n]}
        OBVIOUS
      <3>2. new = [n \in 1 .. Len(queue) |-> new[n]]
        BY <1>2, <3>1
      <3>3. laid = new
        BY <2>1
      <3> HIDE DEF new, K, laid
      <3>4. \A n \in 1 .. Len(queue) : new[n] \in Offer
        BY <1>2, <3>1
      <3>5. new \in Seq(Offer)
        BY <1>2, <3>1, <3>2, <3>4
      <3> QED
        BY <3>1, <3>3, <3>5
    <2>2. CASE ~ \E n \in DOMAIN queue : SameKey(queue[n], o)
      <3>1. laid = Append(queue, o)
        BY <2>2
      <3> HIDE DEF K, laid
      <3> QED
        BY <1>2, <3>1
    <2> QED
      BY <2>1, <2>2
  <1> HIDE DEF K, laid
  <1>4. \A n \in DOMAIN Picked(laid, K) : \E m \in K : Picked(laid, K)[n] = laid[m]
    BY <1>1, <1>3, PickedOf
  <1>5. PICK m \in K : SetAside(queue, o)[i] = laid[m]
    BY <1>1, <1>4
  <1> QED
    BY <1>1, <1>3, <1>5

LEMMA QueuedFrom ==
    ASSUME SInv, PeersInv, NEW h \in Hubs, Aside(h) \/ Drop(h)
    PROVE  InHandFrom
  <1>1. /\ puller[h] \in Puller /\ waiting[h] \in Seq(Offer) /\ GoodPuller(puller[h])
        /\ Pulling(h, puller[h])
    BY DEF SInv, PullersInv, WaitInv, PeersInv
  <1>2. /\ puller' = [puller EXCEPT ![h] = Done(puller[h])] /\ puller[h].pc # "next"
        /\ Done(puller[h]).page \subseteq puller[h].page /\ Done(puller[h]).pc = "next"
        /\ Pulling(h, Done(puller[h]))
    BY <1>1, DecidedFrom DEF Aside, Drop, Pulling
  <1>3. \A x \in puller[h].page : From(h, x)
    BY DEF InHand, From, Same
  <1>4. \E queue : waiting' = [waiting EXCEPT ![h] = queue] /\ \A i \in DOMAIN queue : From(h, queue[i])
    <2>1. CASE Aside(h)
      <3>1. PICK o : o = [puller[h].offer EXCEPT !.rev = 0]
        OBVIOUS
      <3>2. puller[h].offer \in Offer
        BY <1>1, <1>2 DEF GoodPuller
      <3>3. o \in Offer /\ Same(puller[h].offer, o)
        BY <3>1, <3>2 DEF Offer, Same
      <3>4. From(h, o)
        BY <1>2, <3>3 DEF From, InHand
      <3>5. PICK queue : queue = SetAside(waiting[h], o)
        OBVIOUS
      <3>6. \A i \in DOMAIN queue : queue[i] = o \/ \E n \in DOMAIN waiting[h] : queue[i] = waiting[h][n]
        BY <1>1, <3>3, <3>5, AsideFrom
      <3>7. waiting' = [waiting EXCEPT ![h] = queue]
        BY <2>1, <3>1, <3>5 DEF Aside
      <3> QED
        BY <3>4, <3>6, <3>7, WaitingFrom
    <2>2. CASE Drop(h)
      <3>1. PICK K : K = {i \in DOMAIN waiting[h] : ~SameKey(waiting[h][i], puller[h].offer)}
        OBVIOUS
      <3>2. PICK queue : queue = Picked(waiting[h], K)
        OBVIOUS
      <3>3. K \subseteq DOMAIN waiting[h]
        BY <3>1
      <3>4. waiting' = [waiting EXCEPT ![h] = queue]
        BY <2>2, <3>1, <3>2 DEF Drop
      <3> HIDE <3>1
      <3>5. \A n \in DOMAIN queue : \E i \in K : queue[n] = waiting[h][i]
        BY <1>1, <3>2, <3>3, PickedOf
      <3> QED
        BY <3>3, <3>4, <3>5, WaitingFrom
    <2> QED
      BY <2>1, <2>2
  <1> QED
    BY <1>2, <1>3, <1>4, BothFrom

\* A round starts, ends, or stops: nothing is in hand but what waits.
LEMMA RoundFrom ==
    ASSUME SInv, PeersInv, NEW h \in Hubs,
           FetchFails(h) \/ Restart(h) \/ PageDone(h) \/ \E p \in Pulls[h] : StartPull(h, p)
    PROVE  InHandFrom
  <1>0. ASSUME NEW p \in Pulls[h], NEW n, NEW s, s = [Idle EXCEPT !.mode = "fetch", !.peer = p, !.cursor = n]
        PROVE  s.page = {} /\ s.pc = "next" /\ Pulling(h, s)
    <2>1. s.page = {} /\ s.pc = "next" /\ s.peer = p
      BY <1>0 DEF Idle
    <2> QED
      BY <2>1 DEF Pulling
  <1>1. PICK s : puller' = [puller EXCEPT ![h] = s] /\ s.page = {} /\ s.pc = "next" /\ Pulling(h, s)
    <2>0. ASSUME puller' = [puller EXCEPT ![h] = Idle]
          PROVE  \E s : puller' = [puller EXCEPT ![h] = s] /\ s.page = {} /\ s.pc = "next" /\ Pulling(h, s)
      BY <2>0, IdleTyped DEF Pulling
    <2>1. CASE FetchFails(h) \/ Restart(h)
      BY <2>0, <2>1 DEF FetchFails, Restart
    <2>2. CASE PageDone(h)
      <3>1. CASE puller[h].mode = "settle" \/ puller[h].next <= puller[h].cursor
        BY <2>0, <2>2, <3>1 DEF PageDone
      <3>2. CASE ~ (puller[h].mode = "settle" \/ puller[h].next <= puller[h].cursor)
        <4>1. PICK p, n : p = puller[h].peer /\ n = puller[h].next
          OBVIOUS
        <4>2. p \in Pulls[h]
          BY <2>2, <3>2, <4>1 DEF PageDone, PeersInv, Pulling
        <4>3. PICK s : s = [Idle EXCEPT !.mode = "fetch", !.peer = p, !.cursor = n]
          OBVIOUS
        <4>4. puller' = [puller EXCEPT ![h] = s]
          BY <2>2, <3>2, <4>1, <4>3 DEF PageDone
        <4> QED
          BY <1>0, <4>2, <4>3, <4>4
      <3> QED
        BY <3>1, <3>2
    <2>3. CASE \E p \in Pulls[h] : StartPull(h, p)
      <3>1. PICK p, n : /\ p \in Pulls[h]
                        /\ puller' = [puller EXCEPT ![h] = [Idle EXCEPT !.mode = "fetch", !.peer = p, !.cursor = n]]
        BY <2>3 DEF StartPull
      <3>2. PICK s : s = [Idle EXCEPT !.mode = "fetch", !.peer = p, !.cursor = n]
        OBVIOUS
      <3> QED
        BY <1>0, <3>1, <3>2
    <2> QED
      BY <2>1, <2>2, <2>3
  <1>2. waiting' = waiting
    BY DEF FetchFails, Restart, PageDone, StartPull
  <1> QED
    BY <1>1, <1>2, PullerFrom

LEMMA NextFrom ==
    ASSUME SInv, TextsInv, PeersInv, [Next]_vars
    PROVE  InHandFrom
  <1>1. ASSUME NEW h \in Hubs,
               \/ CreateRoot(h) \/ DeleteRoot(h)
               \/ \E r \in Replies : CreateReply(h, r) \/ DeleteReply(h, r)
        PROVE  UNCHANGED <<puller, waiting>>
    BY <1>1 DEF CreateRoot, DeleteRoot, CreateReply, DeleteReply, taking
  <1>2. ASSUME NEW h \in Hubs, \E s \in Steps : Read(h, s) \/ ReadWords(h, s)
        PROVE  UNCHANGED <<puller, waiting>>
    BY <1>2 DEF Read, ReadWords, taking
  <1>3. ASSUME NEW h \in Hubs, Answers(h) PROVE UNCHANGED <<puller, waiting>>
    BY <1>3 DEF Answers, Summarize, TranslateSummary, taking
  <1>4. ASSUME NEW h \in Hubs,
               FailSummary(h) \/ NoSummary(h) \/ FailWords(h) \/ NoWords(h) \/ Resummarize(h)
        PROVE  UNCHANGED <<puller, waiting>>
    BY <1>4 DEF FailSummary, NoSummary, FailWords, NoWords, Resummarize, taking
  <1>5. CASE UNCHANGED vars
    BY <1>5, SameFrom DEF vars, taking
  <1> QED
    BY <1>1, <1>2, <1>3, <1>4, <1>5, SameFrom, FetchFrom, SettleFrom, TakeFrom, QueuedFrom, RoundFrom DEF Next, Busy

-----------------------------------------------------------------------------
\* What is made of a hub, as HubTexts has it, but for the times there are.
Text == [by : Hubs, ts : Nat \ {0}, cites : SUBSET Replies]

\* What was made was made by its hub, not after its clock; what is shown of a hub's
\* own, and what its peers have in hand, was made.
MadeInv ==
    /\ made \in [Hubs -> [Keys -> SUBSET Text]]
    /\ \A h \in Hubs, k \in Keys : \A x \in made[h][k] : x.by = h /\ x.ts <= clock[h]
    /\ \A h \in Hubs, k \in Keys : By(h, shown[h][k]) \subseteq made[h][k]
    /\ \A h \in Hubs : \A o : InHand(h, o) => Known(h, o)

RInv == SInv /\ TextsInv /\ WorkersInv /\ PeersInv /\ MadeInv

LEMMA InitMade == MadeInit => TextsInv /\ WorkersInv /\ PeersInv /\ MadeInv
  <1> SUFFICES ASSUME MadeInit PROVE TextsInv /\ WorkersInv /\ PeersInv /\ MadeInv
    OBVIOUS
  <1>1. made = [h \in Hubs |-> [k \in Keys |-> {}]] /\ Init
    BY DEF MadeInit
  <1>2. \A h \in Hubs, k \in Keys : RowOf(h, k) = NoRow
    BY <1>1 DEF Init, RowOf, Keys
  <1>3. NoRow.rev = 0 /\ NoRow.status = "" /\ NoWork.step = 0
    BY NoWorkTyped DEF NoRow
  <1>4. \A h \in Hubs, k \in Keys : shown[h][k] = {}
    BY <1>2, <1>3 DEF shown, Seen
  <1>5. \A h \in Hubs : puller[h] = Idle /\ waiting[h] = <<>> /\ writing[h] = NoWork /\ wording[h] = NoWork
    BY <1>1 DEF Init
  <1>6. \A h \in Hubs : \A o : ~InHand(h, o)
    BY <1>5, IdleTyped DEF InHand
  <1>7. TextsInv /\ WorkersInv /\ PeersInv
    BY <1>2, <1>3, <1>5, IdleTyped DEF TextsInv, GoodText, WorkersInv, PeersInv, Pulling
  <1> QED
    BY <1>1, <1>4, <1>6, <1>7 DEF MadeInv, By

\* A hub's own text is shown as such.
LEMMA OwnShown ==
    ASSUME NEW h \in Hubs, NEW k \in Keys, NEW row, row = RowOf(h, k), Own(row)
    PROVE  [by |-> h, ts |-> row.ts, cites |-> row.cites] \in By(h, shown[h][k])
  BY DEF shown, Seen, By, Own

LEMMA KnownFrom ==
    ASSUME MadeInv, NEW h \in Hubs, NEW o, From(h, o)
    PROVE  Known(h, o)
  <1>1. CASE \E w : InHand(h, w) /\ Same(w, o)
    <2>1. PICK w : InHand(h, w) /\ Same(w, o)
      BY <1>1
    <2>2. Known(h, w)
      BY <2>1 DEF MadeInv
    <2>3. TextOf(w) = TextOf(o) /\ w.peer = o.peer /\ KeyOf(w) = KeyOf(o)
      BY <2>1 DEF TextOf, KeyOf, Same
    <2> QED
      BY <2>2, <2>3 DEF Known
  <1>2. CASE Theirs(h, o)
    <2>1. PICK p, k, row : p = o.peer /\ k = KeyOf(o) /\ row = RowOf(p, k)
      OBVIOUS
    <2>2. p \in Hubs /\ p \in Pulls[h] /\ k \in Keys /\ Own(row) /\ row.ts = o.ts /\ row.cites = o.cites
      BY <1>2, <2>1, PullsHubs DEF Theirs
    <2>3. [by |-> p, ts |-> row.ts, cites |-> row.cites] \in By(p, shown[p][k])
      BY <2>1, <2>2, OwnShown
    <2>4. TextOf(o) \in made[p][k]
      BY <2>1, <2>2, <2>3 DEF MadeInv, TextOf
    <2> QED
      BY <2>1, <2>2, <2>4 DEF Known
  <1> QED
    BY <1>1, <1>2 DEF From

-----------------------------------------------------------------------------
(* The tables of texts.                                                    *)

Table(table) == table = [g \in Hubs |-> [j \in Keys |-> table[g][j]]]

\* A table of texts, one of its entries changed.
LEMMA AtOf ==
    ASSUME NEW old, NEW new, Table(old), Table(new), NEW h \in Hubs, NEW k \in Keys, NEW Y,
           \A g \in Hubs, j \in Keys : new[g][j] = IF g = h /\ j = k THEN Y ELSE old[g][j]
    PROVE  new = Texts!At(old, h, k, Y)
  <1>1. old = [g \in Hubs |-> old[g]] /\ \A g \in Hubs : old[g] = [j \in Keys |-> old[g][j]]
    <2>1. PICK t : t = [g \in Hubs |-> [j \in Keys |-> old[g][j]]]
      OBVIOUS
    <2>2. t = [g \in Hubs |-> t[g]] /\ \A g \in Hubs : t[g] = [j \in Keys |-> old[g][j]]
      BY <2>1
    <2>3. t = old
      BY <2>1 DEF Table
    <2> QED
      BY <2>2, <2>3
  <1>2. [old[h] EXCEPT ![k] = Y] = [j \in Keys |-> IF j = k THEN Y ELSE old[h][j]]
    BY <1>1
  <1>3. [old EXCEPT ![h] = [@ EXCEPT ![k] = Y]] =
           [g \in Hubs |-> IF g = h THEN [j \in Keys |-> IF j = k THEN Y ELSE old[h][j]] ELSE old[g]]
    BY <1>1, <1>2
  <1>4. ASSUME NEW g \in Hubs
        PROVE  (IF g = h THEN [j \in Keys |-> IF j = k THEN Y ELSE old[h][j]] ELSE old[g]) =
                   [j \in Keys |-> IF g = h /\ j = k THEN Y ELSE old[g][j]]
    BY <1>1
  <1>5. [old EXCEPT ![h] = [@ EXCEPT ![k] = Y]] =
           [g \in Hubs |-> [j \in Keys |-> IF g = h /\ j = k THEN Y ELSE old[g][j]]]
    BY <1>3, <1>4
  <1>6. new = [g \in Hubs |-> [j \in Keys |-> IF g = h /\ j = k THEN Y ELSE old[g][j]]]
    <2>1. new = [g \in Hubs |-> [j \in Keys |-> new[g][j]]]
      BY DEF Table
    <2> QED
      BY <2>1
  <1> QED
    BY <1>5, <1>6 DEF Texts!At

LEMMA Tables ==
    /\ Table(shown) /\ Table(shown')
    /\ \A h \in Hubs, k \in Keys : shown[h][k] = Seen(h, RowOf(h, k)) /\ shown'[h][k] = Seen(h, RowOf(h, k)')
    /\ MadeInv => Table(made)
    /\ MadeNext => Table(made') /\ \A h \in Hubs, k \in Keys : made'[h][k] = made[h][k] \cup By(h, shown'[h][k])
  <1>1. shown = [h \in Hubs |-> [k \in Keys |-> Seen(h, RowOf(h, k))]]
    BY DEF shown
  <1>2. shown' = [h \in Hubs |-> [k \in Keys |-> Seen(h, RowOf(h, k)')]]
    BY DEF shown, Seen
  <1>3. ASSUME NEW table, table = [h \in Hubs |-> table[h]],
               \A h \in Hubs : table[h] = [k \in Keys |-> table[h][k]]
        PROVE  Table(table)
    BY <1>3 DEF Table
  <1>4. Table(shown) /\ \A h \in Hubs, k \in Keys : shown[h][k] = Seen(h, RowOf(h, k))
    <2>1. PICK t : t = [h \in Hubs |-> [k \in Keys |-> Seen(h, RowOf(h, k))]]
      OBVIOUS
    <2>2. /\ t = [h \in Hubs |-> t[h]] /\ \A h \in Hubs : t[h] = [k \in Keys |-> t[h][k]]
          /\ \A h \in Hubs, k \in Keys : t[h][k] = Seen(h, RowOf(h, k))
      BY <2>1
    <2>3. shown = t
      BY <1>1, <2>1
    <2> QED
      BY <1>3, <2>2, <2>3
  <1>5. Table(shown') /\ \A h \in Hubs, k \in Keys : shown'[h][k] = Seen(h, RowOf(h, k)')
    <2>1. PICK t : t = [h \in Hubs |-> [k \in Keys |-> Seen(h, RowOf(h, k)')]]
      OBVIOUS
    <2>2. /\ t = [h \in Hubs |-> t[h]] /\ \A h \in Hubs : t[h] = [k \in Keys |-> t[h][k]]
          /\ \A h \in Hubs, k \in Keys : t[h][k] = Seen(h, RowOf(h, k)')
      BY <2>1
    <2>3. shown' = t
      BY <1>2, <2>1
    <2> QED
      BY <1>3, <2>2, <2>3
  <1>6. ASSUME MadeInv PROVE Table(made)
    <2> DEFINE S == SUBSET Text
    <2>1. made \in [Hubs -> [Keys -> S]]
      BY <1>6 DEF MadeInv
    <2> HIDE DEF S
    <2>2. made = [h \in Hubs |-> made[h]] /\ \A h \in Hubs : made[h] = [k \in Keys |-> made[h][k]]
      BY <2>1
    <2> QED
      BY <1>3, <2>2
  <1>7. ASSUME MadeNext
        PROVE  Table(made') /\ \A h \in Hubs, k \in Keys : made'[h][k] = made[h][k] \cup By(h, shown'[h][k])
    <2>1. PICK t, seen : t = made' /\ seen = shown'
      OBVIOUS
    <2>2. t = [h \in Hubs |-> [k \in Keys |-> made[h][k] \cup By(h, seen[h][k])]]
      BY <1>7, <2>1 DEF MadeNext
    <2>3. /\ t = [h \in Hubs |-> t[h]] /\ \A h \in Hubs : t[h] = [k \in Keys |-> t[h][k]]
          /\ \A h \in Hubs, k \in Keys : t[h][k] = made[h][k] \cup By(h, seen[h][k])
      BY <2>2
    <2>4. Table(t)
      BY <1>3, <2>3
    <2> QED
      BY <2>1, <2>3, <2>4
  <1> QED
    BY <1>4, <1>5, <1>6, <1>7

\* The history, when what is shown of the hubs' own was made already.
LEMMA SameMade ==
    ASSUME MadeInv, MadeNext, \A h \in Hubs, k \in Keys : By(h, shown'[h][k]) \subseteq made[h][k]
    PROVE  made' = made
  <1>1. Table(made) /\ Table(made') /\ \A h \in Hubs, k \in Keys : made'[h][k] = made[h][k]
    <2>1. /\ Table(made) /\ Table(made')
          /\ \A h \in Hubs, k \in Keys : made'[h][k] = made[h][k] \cup By(h, shown'[h][k])
      BY Tables
    <2>2. ASSUME NEW h \in Hubs, NEW k \in Keys PROVE made'[h][k] = made[h][k]
      <3>1. PICK some : some = By(h, shown'[h][k])
        OBVIOUS
      <3>2. made'[h][k] = made[h][k] \cup some /\ some \subseteq made[h][k]
        BY <2>1, <3>1
      <3> QED
        BY <3>2
    <2> QED
      BY <2>1, <2>2
  <1>2. [h \in Hubs |-> [k \in Keys |-> made'[h][k]]] = [h \in Hubs |-> [k \in Keys |-> made[h][k]]]
    BY <1>1
  <1> QED
    BY <1>1, <1>2 DEF Table

\* The history stays, or grows by one text made by now.
Grown ==
    \/ made' = made
    \/ \E h \in Hubs, k \in Keys : \E x \in [by : {h}, ts : Nat \ {0}, cites : SUBSET Replies] :
          /\ x.ts <= clock'[h]
          /\ made' = Texts!At(made, h, k, made[h][k] \cup {x})

\* What a step is to the readers.
ReadersStep == Grown /\ (Texts!Next \/ UNCHANGED <<made, shown, away>>)

\* The rows of K on h change, and no others.
Rewrites(h, K) == \A g \in Hubs, k \in Keys : ~ (g = h /\ k \in K) => RowOf(g, k)' = RowOf(g, k)

\* The rows stay, and the posts that are gone.
LEMMA StillStep ==
    ASSUME TextsInv, MadeInv, MadeNext, UNCHANGED <<orig, tr, away>>
    PROVE  ReadersStep /\ TextsInv'
  <1>1. shown' = shown /\ TextsInv'
    BY DEF shown, Seen, RowOf, TextsInv, GoodText
  <1>2. made' = made
    BY <1>1, SameMade DEF MadeInv
  <1> QED
    BY <1>1, <1>2 DEF ReadersStep, Grown

\* Texts of h are taken away.
LEMMA LoseStep ==
    ASSUME TextsInv, MadeInv, MadeNext, NEW h \in Hubs, NEW K \in SUBSET Keys, Rewrites(h, K),
           \A k \in K : RowOf(h, k)'.status # "ok" /\ RowOf(h, k)'.rev = 0
    PROVE  made' = made /\ Texts!Without(h, K) /\ TextsInv'
  <1>1. \A g \in Hubs, k \in Keys : shown'[g][k] = IF g = h /\ k \in K THEN {} ELSE shown[g][k]
    <2>1. ASSUME NEW g \in Hubs, NEW k \in Keys
          PROVE  shown'[g][k] = IF g = h /\ k \in K THEN {} ELSE shown[g][k]
      <3>1. PICK old, new : old = RowOf(g, k) /\ new = RowOf(g, k)'
        OBVIOUS
      <3>2. shown[g][k] = Seen(g, old) /\ shown'[g][k] = Seen(g, new)
        BY <3>1, Tables
      <3>3. CASE g = h /\ k \in K
        BY <3>1, <3>2, <3>3 DEF Seen
      <3>4. CASE ~ (g = h /\ k \in K)
        <4>1. old = new
          BY <3>1, <3>4 DEF Rewrites
        <4> QED
          BY <3>2, <3>4, <4>1
      <3> QED
        BY <3>3, <3>4
    <2> QED
      BY <2>1
  <1>2. \A g \in Hubs, k \in Keys : By(g, shown'[g][k]) \subseteq made[g][k]
    BY <1>1 DEF MadeInv, By
  <1>3. made' = made
    BY <1>2, SameMade
  <1>4. PICK old, new : old = shown /\ new = shown'
    OBVIOUS
  <1>5. Table(old) /\ Table(new)
    BY <1>4, Tables
  <1>6. \A g \in Hubs, k \in Keys : new[g][k] = IF g = h /\ k \in K THEN {} ELSE old[g][k]
    BY <1>1, <1>4
  <1>7. new = [old EXCEPT ![h] = [k \in Keys |-> IF k \in K THEN {} ELSE old[h][k]]]
    <2>1. new = [g \in Hubs |-> [k \in Keys |-> IF g = h /\ k \in K THEN {} ELSE old[g][k]]]
      <3>1. new = [g \in Hubs |-> [k \in Keys |-> new[g][k]]]
        BY <1>5 DEF Table
      <3> QED
        BY <1>6, <3>1
    <2>2. old = [g \in Hubs |-> [k \in Keys |-> old[g][k]]]
      BY <1>5 DEF Table
    <2>3. [old EXCEPT ![h] = [k \in Keys |-> IF k \in K THEN {} ELSE old[h][k]]] =
             [g \in Hubs |-> IF g = h THEN [k \in Keys |-> IF k \in K THEN {} ELSE old[h][k]]
                             ELSE [k \in Keys |-> old[g][k]]]
      <3>1. DOMAIN old = Hubs /\ \A g \in Hubs : old[g] = [k \in Keys |-> old[g][k]]
        <4>1. PICK t : t = [g \in Hubs |-> [k \in Keys |-> old[g][k]]]
          OBVIOUS
        <4>2. DOMAIN t = Hubs /\ \A g \in Hubs : t[g] = [k \in Keys |-> old[g][k]]
          BY <4>1
        <4> QED
          BY <2>2, <4>1, <4>2
      <3> QED
        BY <3>1
    <2>4. ASSUME NEW g \in Hubs
          PROVE  (IF g = h THEN [k \in Keys |-> IF k \in K THEN {} ELSE old[h][k]]
                  ELSE [k \in Keys |-> old[g][k]]) =
                     [k \in Keys |-> IF g = h /\ k \in K THEN {} ELSE old[g][k]]
      OBVIOUS
    <2> QED
      BY <2>1, <2>3, <2>4
  <1>8. Texts!Without(h, K)
    BY <1>4, <1>7 DEF Texts!Without
  <1>9. TextsInv'
    <2>1. \A g \in Hubs, k \in Keys : GoodText(k, RowOf(g, k)')
      BY DEF TextsInv, Rewrites, GoodText
    <2> QED
      BY <2>1 DEF TextsInv, GoodText
  <1> QED
    BY <1>3, <1>8, <1>9

\* The root is not gone while it is here.
LEMMA RootStays ==
    ASSUME SInv, NEW h \in Hubs, root[h] = "here", NEW k \in Keys
    PROVE  [j \in Keys |-> Root][k] \notin away[h]
  <1>1. gone[h] \in Seq(Replies)
    BY DEF SInv, PostsInv
  <1>2. Entries(gone[h]) \subseteq Replies
    BY <1>1, EntriesOf
  <1>3. Root \notin Replies
    BY LocalAssumption
  <1>4. away[h] = Entries(gone[h]) \cup {q \in {Root} : root[h] = "gone"}
    BY DEF away
  <1> QED
    BY <1>2, <1>3, <1>4

\* A row of h changes: what is shown then.
LEMMA WrittenStep ==
    ASSUME NEW h \in Hubs, NEW k \in Keys, Rewrites(h, {k}), NEW Y, Seen(h, RowOf(h, k)') = Y
    PROVE  /\ shown' = Texts!At(shown, h, k, Y)
           /\ \A g \in Hubs, j \in Keys : shown'[g][j] = IF g = h /\ j = k THEN Y ELSE shown[g][j]
  <1>1. PICK old, new : old = shown /\ new = shown'
    OBVIOUS
  <1>2. Table(old) /\ Table(new)
    BY <1>1, Tables
  <1>3. ASSUME NEW g \in Hubs, NEW j \in Keys
        PROVE  new[g][j] = IF g = h /\ j = k THEN Y ELSE old[g][j]
    <2>1. PICK r, s : r = RowOf(g, j) /\ s = RowOf(g, j)'
      OBVIOUS
    <2>2. old[g][j] = Seen(g, r) /\ new[g][j] = Seen(g, s)
      BY <1>1, <2>1, Tables
    <2>3. CASE g = h /\ j = k
      BY <2>1, <2>2, <2>3
    <2>4. CASE ~ (g = h /\ j = k)
      <3>1. r = s
        BY <2>1, <2>4 DEF Rewrites
      <3> QED
        BY <2>2, <2>4, <3>1
    <2> QED
      BY <2>3, <2>4
  <1>4. new = Texts!At(old, h, k, Y)
    BY <1>2, <1>3, AtOf
  <1> QED
    BY <1>1, <1>3, <1>4

\* The rows are good if the new one is.
LEMMA TextKept ==
    ASSUME TextsInv, NEW h \in Hubs, NEW k \in Keys, Rewrites(h, {k}), GoodText(k, RowOf(h, k)')
    PROVE  TextsInv'
  <1>1. ASSUME NEW g \in Hubs, NEW j \in Keys PROVE GoodText(j, RowOf(g, j)')
    <2>1. CASE g = h /\ j = k
      BY <2>1
    <2>2. CASE ~ (g = h /\ j = k)
      <3>1. RowOf(g, j)' = RowOf(g, j)
        BY <2>2 DEF Rewrites
      <3>2. GoodText(j, RowOf(g, j))
        BY DEF TextsInv
      <3> QED
        BY <3>1, <3>2
    <2> QED
      BY <2>1, <2>2
  <1> QED
    BY <1>1 DEF TextsInv, GoodText

\* A text is made.
LEMMA MakeStep ==
    ASSUME SInv, TextsInv, MadeInv, MadeNext, NEW h \in Hubs, h \in Writers, NEW k \in Keys,
           NEW t \in Times[h], NEW cites \in SUBSET Replies,
           t > clock[h], clock' = [clock EXCEPT ![h] = t], root[h] = "here", UNCHANGED <<root, gone>>,
           Rewrites(h, {k}), NEW row, row = RowOf(h, k)', row.status = "ok", row.origin = Local,
           row.ts = t, row.cites = cites, (k[2] = "orig") = (row.of = 0)
    PROVE  ReadersStep /\ TextsInv'
  <1>1. clock \in [Hubs -> Nat] /\ t \in Nat /\ t \in Nat \ {0}
    BY TimesAssumption DEF SInv, NumbersInv
  <1>2. PICK x : x = [by |-> h, ts |-> t, cites |-> cites]
    OBVIOUS
  <1>3. Seen(h, row) = {x} /\ x \in Texts!TextsOf(h)
    BY <1>2 DEF Seen, Texts!TextsOf
  <1>4. /\ shown' = Texts!At(shown, h, k, {x})
        /\ \A g \in Hubs, j \in Keys : shown'[g][j] = IF g = h /\ j = k THEN {x} ELSE shown[g][j]
    <2>1. PICK Y : Y = {x}
      OBVIOUS
    <2>2. Seen(h, RowOf(h, k)') = Y
      BY <1>3, <2>1
    <2>3. /\ shown' = Texts!At(shown, h, k, Y)
          /\ \A g \in Hubs, j \in Keys : shown'[g][j] = IF g = h /\ j = k THEN Y ELSE shown[g][j]
      BY <2>2, WrittenStep
    <2> QED
      BY <2>1, <2>3
  <1>5. made' = Texts!At(made, h, k, made[h][k] \cup {x})
    <2>1. PICK old, new, seen : old = made /\ new = made' /\ seen = shown'
      OBVIOUS
    <2>2. /\ Table(old) /\ Table(new)
          /\ \A g \in Hubs, j \in Keys : new[g][j] = old[g][j] \cup By(g, seen[g][j])
      BY <2>1, Tables
    <2>3. PICK Y : Y = old[h][k] \cup {x}
      OBVIOUS
    <2>4. ASSUME NEW g \in Hubs, NEW j \in Keys
          PROVE  new[g][j] = IF g = h /\ j = k THEN Y ELSE old[g][j]
      <3>1. CASE g = h /\ j = k
        <4>1. By(h, {x}) = {x}
          BY <1>2 DEF By
        <4>2. seen[g][j] = {x}
          BY <1>4, <2>1, <3>1
        <4>3. By(g, seen[g][j]) = {x}
          BY <3>1, <4>1, <4>2
        <4>4. new[g][j] = old[g][j] \cup By(g, seen[g][j])
          BY <2>2
        <4> QED
          BY <2>3, <3>1, <4>3, <4>4
      <3>2. CASE ~ (g = h /\ j = k)
        <4>1. seen[g][j] = shown[g][j]
          BY <1>4, <2>1, <3>2
        <4>2. By(g, shown[g][j]) \subseteq old[g][j]
          BY <2>1 DEF MadeInv
        <4>3. new[g][j] = old[g][j]
          BY <2>2, <4>1, <4>2
        <4> QED
          BY <3>2, <4>3
      <3> QED
        BY <3>1, <3>2
    <2>5. new = Texts!At(old, h, k, Y)
      BY <2>2, <2>4, AtOf
    <2> QED
      BY <2>1, <2>3, <2>5
  <1>6. [j \in Keys |-> Root][k] \notin away[h] /\ away' = away
    BY RootStays DEF away
  <1>7. \A j \in Keys : \A y \in made[h][j] : y.ts < x.ts
    <2>1. ASSUME NEW j \in Keys, NEW y \in made[h][j] PROVE y.ts < x.ts
      <3>1. y.ts <= clock[h] /\ y.ts \in Nat /\ clock[h] \in Nat
        BY <1>1 DEF MadeInv, Text
      <3>2. x.ts = t
        BY <1>2
      <3> QED
        BY <1>1, <3>1, <3>2
    <2> QED
      BY <2>1
  <1>8. Texts!Make(h, k, x)
    BY <1>4, <1>5, <1>6, <1>7 DEF Texts!Make
  <1>9. Grown
    <2>1. x \in [by : {h}, ts : Nat \ {0}, cites : SUBSET Replies] /\ x.ts <= clock'[h]
      BY <1>1, <1>2
    <2> QED
      BY <1>5, <2>1 DEF Grown
  <1>10. TextsInv'
    <2>1. GoodText(k, row)
      <3>1. t # 0
        BY <1>1
      <3> QED
        BY <3>1 DEF GoodText, Own
    <2> QED
      BY <2>1, TextKept
  <1> QED
    BY <1>3, <1>8, <1>9, <1>10 DEF ReadersStep, Texts!Next

\* A peer's text is taken.
LEMMA TakeStep ==
    ASSUME SInv, TextsInv, MadeInv, MadeNext, NEW h \in Hubs, NEW o, Known(h, o), NEW k \in Keys, k = KeyOf(o),
           root[h] = "here", UNCHANGED <<root, gone>>,
           RowOf(h, k).status = "ok" => RowOf(h, k).ts < o.ts,
           Rewrites(h, {k}), NEW row, row = RowOf(h, k)', row.status = "ok", row.origin = o.peer,
           row.ts = o.ts, row.cites = o.cites, row.rev = 0
    PROVE  ReadersStep /\ TextsInv'
  <1>1. PICK x, p : x = TextOf(o) /\ p = o.peer
    OBVIOUS
  <1>2. p \in Hubs /\ p \in Pulls[h] /\ p # h /\ p # Local /\ x \in made[p][k]
    BY <1>1, PullsAssumption, LocalAssumption DEF Known
  <1>3. Seen(h, row) = {x} /\ x.by = p /\ x.ts = o.ts
    BY <1>1, <1>2 DEF Seen, TextOf
  <1>4. /\ shown' = Texts!At(shown, h, k, {x})
        /\ \A g \in Hubs, j \in Keys : shown'[g][j] = IF g = h /\ j = k THEN {x} ELSE shown[g][j]
    <2>1. PICK Y : Y = {x}
      OBVIOUS
    <2>2. Seen(h, RowOf(h, k)') = Y
      BY <1>3, <2>1
    <2>3. /\ shown' = Texts!At(shown, h, k, Y)
          /\ \A g \in Hubs, j \in Keys : shown'[g][j] = IF g = h /\ j = k THEN Y ELSE shown[g][j]
      BY <2>2, WrittenStep
    <2> QED
      BY <2>1, <2>3
  <1>5. made' = made
    <2>1. ASSUME NEW g \in Hubs, NEW j \in Keys PROVE By(g, shown'[g][j]) \subseteq made[g][j]
      <3>1. CASE g = h /\ j = k
        <4>1. shown'[g][j] = {x}
          BY <1>4, <3>1
        <4> QED
          BY <1>2, <1>3, <3>1, <4>1 DEF By
      <3>2. CASE ~ (g = h /\ j = k)
        <4>1. shown'[g][j] = shown[g][j]
          BY <1>4, <3>2
        <4> QED
          BY <4>1 DEF MadeInv
      <3> QED
        BY <3>1, <3>2
    <2> QED
      BY <2>1, SameMade
  <1>6. [j \in Keys |-> Root][k] \notin away[h] /\ away' = away
    BY RootStays DEF away
  <1>7. \A y \in shown[h][k] : y.ts < x.ts
    <2>1. PICK old : old = RowOf(h, k)
      OBVIOUS
    <2>2. shown[h][k] = Seen(h, old)
      BY <2>1, Tables
    <2>3. ASSUME NEW y \in shown[h][k] PROVE y.ts < x.ts
      <3>1. old.status = "ok" /\ y.ts = old.ts
        BY <2>2 DEF Seen
      <3> QED
        BY <1>3, <2>1, <3>1
    <2> QED
      BY <2>3
  <1>8. Texts!Take(h, p, k, x)
    BY <1>2, <1>4, <1>5, <1>6, <1>7 DEF Texts!Take
  <1>9. TextsInv'
    <2>1. x.ts # 0
      BY <1>2 DEF MadeInv, Text
    <2>2. GoodText(k, row)
      BY <1>3, <2>1 DEF GoodText
    <2> QED
      BY <2>2, TextKept
  <1> QED
    BY <1>2, <1>5, <1>8, <1>9 DEF ReadersStep, Grown, Texts!Next

-----------------------------------------------------------------------------
(* Each step that a reader may see.                                        *)

LEMMA PutRows ==
    ASSUME SInv, NEW h \in Hubs, NEW s \in Steps, NEW row
    PROVE  /\ orig' = Put(orig, h, s, row) /\ tr' = tr =>
                 <<s, "orig">> \in Keys /\ Rewrites(h, {<<s, "orig">>}) /\ RowOf(h, <<s, "orig">>)' = row
           /\ orig' = orig /\ tr' = Put(tr, h, s, row) =>
                 <<s, "tr">> \in Keys /\ Rewrites(h, {<<s, "tr">>}) /\ RowOf(h, <<s, "tr">>)' = row
           /\ orig' = Put(orig, h, s, row) /\ tr' = Put(tr, h, s, row) =>
                 /\ {<<s, "orig">>, <<s, "tr">>} \subseteq Keys /\ Rewrites(h, {<<s, "orig">>, <<s, "tr">>})
                 /\ RowOf(h, <<s, "orig">>)' = row /\ RowOf(h, <<s, "tr">>)' = row
  <1>1. orig \in [Hubs -> [Steps -> Row]] /\ tr \in [Hubs -> [Steps -> Row]]
    BY DEF SInv, OrigInv, TrInv, TableOK
  <1>2. ASSUME NEW table \in [Hubs -> [Steps -> Row]]
        PROVE  /\ Put(table, h, s, row)[h][s] = row
               /\ \A g \in Hubs, x \in Steps : ~ (g = h /\ x = s) => Put(table, h, s, row)[g][x] = table[g][x]
    BY DEF Put
  <1>3. <<s, "orig">> \in Keys /\ <<s, "tr">> \in Keys
    BY DEF Keys
  <1>4. \A g, x : /\ RowOf(g, <<x, "orig">>) = orig[g][x] /\ RowOf(g, <<x, "tr">>) = tr[g][x]
                  /\ RowOf(g, <<x, "orig">>)' = orig'[g][x] /\ RowOf(g, <<x, "tr">>)' = tr'[g][x]
    BY DEF RowOf
  <1>5. ASSUME NEW K, \A g \in Hubs, x \in Steps :
                          /\ ~ (g = h /\ <<x, "orig">> \in K) => orig'[g][x] = orig[g][x]
                          /\ ~ (g = h /\ <<x, "tr">> \in K) => tr'[g][x] = tr[g][x]
        PROVE  Rewrites(h, K)
    <2>1. ASSUME NEW g \in Hubs, NEW k \in Keys, ~ (g = h /\ k \in K) PROVE RowOf(g, k)' = RowOf(g, k)
      <3>1. PICK x \in Steps, b \in {"orig", "tr"} : k = <<x, b>>
        BY DEF Keys
      <3>2. CASE k = <<x, "orig">>
        <4>1. orig'[g][x] = orig[g][x]
          <5>1. ~ (g = h /\ <<x, "orig">> \in K)
            BY <2>1, <3>2
          <5> QED
            BY <1>5, <5>1
        <4> QED
          BY <1>4, <3>2, <4>1
      <3>3. CASE k = <<x, "tr">>
        <4>1. tr'[g][x] = tr[g][x]
          <5>1. ~ (g = h /\ <<x, "tr">> \in K)
            BY <2>1, <3>3
          <5> QED
            BY <1>5, <5>1
        <4> QED
          BY <1>4, <3>3, <4>1
      <3> QED
        BY <3>1, <3>2, <3>3
    <2> QED
      BY <2>1 DEF Rewrites
  <1>6. ASSUME orig' = Put(orig, h, s, row), tr' = tr
        PROVE  Rewrites(h, {<<s, "orig">>}) /\ RowOf(h, <<s, "orig">>)' = row
    <2>1. orig'[h][s] = row /\ \A g \in Hubs, x \in Steps : ~ (g = h /\ x = s) => orig'[g][x] = orig[g][x]
      BY <1>1, <1>2, <1>6
    <2>2. PICK K : K = {<<s, "orig">>}
      OBVIOUS
    <2>3. Rewrites(h, K)
      BY <1>5, <1>6, <2>1, <2>2
    <2> QED
      BY <1>4, <2>1, <2>2, <2>3
  <1>7. ASSUME orig' = orig, tr' = Put(tr, h, s, row)
        PROVE  Rewrites(h, {<<s, "tr">>}) /\ RowOf(h, <<s, "tr">>)' = row
    <2>1. tr'[h][s] = row /\ \A g \in Hubs, x \in Steps : ~ (g = h /\ x = s) => tr'[g][x] = tr[g][x]
      BY <1>1, <1>2, <1>7
    <2>2. PICK K : K = {<<s, "tr">>}
      OBVIOUS
    <2>3. Rewrites(h, K)
      BY <1>5, <1>7, <2>1, <2>2
    <2> QED
      BY <1>4, <2>1, <2>2, <2>3
  <1>8. ASSUME orig' = Put(orig, h, s, row), tr' = Put(tr, h, s, row)
        PROVE  /\ Rewrites(h, {<<s, "orig">>, <<s, "tr">>})
               /\ RowOf(h, <<s, "orig">>)' = row /\ RowOf(h, <<s, "tr">>)' = row
    <2>1. orig'[h][s] = row /\ \A g \in Hubs, x \in Steps : ~ (g = h /\ x = s) => orig'[g][x] = orig[g][x]
      BY <1>1, <1>2, <1>8
    <2>2. tr'[h][s] = row /\ \A g \in Hubs, x \in Steps : ~ (g = h /\ x = s) => tr'[g][x] = tr[g][x]
      BY <1>1, <1>2, <1>8
    <2>3. PICK K : K = {<<s, "orig">>, <<s, "tr">>}
      OBVIOUS
    <2>4. Rewrites(h, K)
      BY <1>5, <2>1, <2>2, <2>3
    <2> QED
      BY <1>4, <2>1, <2>2, <2>3, <2>4
  <1> QED
    BY <1>3, <1>6, <1>7, <1>8

LEMMA SameAway == ASSUME UNCHANGED <<root, gone>> PROVE away' = away
  BY DEF away

LEMMA SummarizeStep ==
    ASSUME SInv, TextsInv, WorkersInv, MadeInv, MadeNext, NEW h \in Hubs, NEW cites, NEW t \in Times[h],
           Summarize(h, cites, t)
    PROVE  ReadersStep /\ TextsInv'
  <1>1. PICK s : s = writing[h].step
    OBVIOUS
  <1>2. /\ s \in Steps /\ h \in Writers /\ cites \in SUBSET Replies
        /\ t > clock[h] /\ clock' = [clock EXCEPT ![h] = t] /\ UNCHANGED <<root, gone>> /\ tr' = tr
    BY <1>1 DEF Summarize, SInv, OrigInv, DeskOK, Work, WorkersInv, posts
  <1>3. CASE MayWrite(h, cites)
    <2>1. PICK row : row = [status |-> "ok", tries |-> orig[h][s].tries + 1, ts |-> t, of |-> 0,
                            cites |-> cites, origin |-> Local, rev |-> revs[h] + 1]
      OBVIOUS
    <2>2. orig' = Put(orig, h, s, row) /\ root[h] = "here"
      BY <1>1, <1>3, <2>1 DEF Summarize, MayWrite
    <2>3. PICK k : k = <<s, "orig">>
      OBVIOUS
    <2>4. k \in Keys /\ Rewrites(h, {k}) /\ row = RowOf(h, k)'
      BY <1>2, <2>2, <2>3, PutRows
    <2>5. row.status = "ok" /\ row.origin = Local /\ row.ts = t /\ row.cites = cites /\ (k[2] = "orig") = (row.of = 0)
      BY <2>1, <2>3
    <2> HIDE <2>1, <2>3
    <2> QED
      BY <1>2, <2>2, <2>4, <2>5, MakeStep
  <1>4. CASE ~ MayWrite(h, cites)
    <2>1. orig' = orig
      BY <1>4 DEF Summarize
    <2> QED
      BY <1>2, <2>1, SameAway, StillStep
  <1> QED
    BY <1>3, <1>4

LEMMA TranslateStep ==
    ASSUME SInv, TextsInv, WorkersInv, MadeInv, MadeNext, NEW h \in Hubs, NEW t \in Times[h],
           TranslateSummary(h, t)
    PROVE  ReadersStep /\ TextsInv'
  <1>1. PICK s, of, cites : s = wording[h].step /\ of = wording[h].of /\ cites = wording[h].read
    OBVIOUS
  <1>2. /\ s \in Steps /\ h \in Writers /\ of # 0 /\ cites \in SUBSET Replies
        /\ t > clock[h] /\ clock' = [clock EXCEPT ![h] = t] /\ UNCHANGED <<root, gone>> /\ orig' = orig
    BY <1>1 DEF TranslateSummary, SInv, TrInv, DeskOK, Work, WorkersInv, posts
  <1>3. CASE MayTranslate(h, s)
    <2>1. PICK row : row = [status |-> "ok", tries |-> tr[h][s].tries + 1, ts |-> t, of |-> of,
                            cites |-> cites, origin |-> Local, rev |-> revs[h] + 1]
      OBVIOUS
    <2>2. tr' = Put(tr, h, s, row) /\ root[h] = "here"
      BY <1>1, <1>3, <2>1 DEF TranslateSummary, MayTranslate
    <2>3. PICK k : k = <<s, "tr">>
      OBVIOUS
    <2>4. k \in Keys /\ Rewrites(h, {k}) /\ row = RowOf(h, k)'
      BY <1>2, <2>2, <2>3, PutRows
    <2>5. row.status = "ok" /\ row.origin = Local /\ row.ts = t /\ row.cites = cites /\ (k[2] = "orig") = (row.of = 0)
      BY <1>2, <2>1, <2>3
    <2> HIDE <2>1, <2>3
    <2> QED
      BY <1>2, <2>2, <2>4, <2>5, MakeStep
  <1>4. CASE ~ MayTranslate(h, s)
    <2>1. tr' = tr
      BY <1>1, <1>4 DEF TranslateSummary
    <2> QED
      BY <1>2, <2>1, SameAway, StillStep
  <1> QED
    BY <1>3, <1>4

\* Texts of a writer's or an editor's hub go, and no post does.
LEMMA WithdrawStep ==
    ASSUME TextsInv, MadeInv, MadeNext, NEW h \in Hubs, h \in Writers \cup Redoes, NEW K \in SUBSET Keys, Rewrites(h, K),
           \A k \in K : RowOf(h, k)'.status # "ok" /\ RowOf(h, k)'.rev = 0, UNCHANGED <<root, gone>>
    PROVE  ReadersStep /\ TextsInv'
  <1>1. made' = made /\ Texts!Without(h, K) /\ TextsInv'
    BY LoseStep
  <1>2. Texts!Withdraw(h, K)
    BY <1>1, SameAway DEF Texts!Withdraw
  <1> QED
    BY <1>1, <1>2 DEF ReadersStep, Grown, Texts!Next

LEMMA FailStep ==
    ASSUME SInv, TextsInv, WorkersInv, MadeInv, MadeNext, NEW h \in Hubs, FailSummary(h) \/ FailWords(h)
    PROVE  ReadersStep /\ TextsInv'
  <1>1. UNCHANGED <<root, gone>> /\ h \in Writers
    BY DEF FailSummary, FailWords, posts, WorkersInv
  <1>2. \A row : Failed(row).status # "ok" /\ Failed(row).rev = 0
    BY DEF Failed, NoRow
  <1>3. CASE FailSummary(h)
    <2>1. PICK s, row : s = writing[h].step /\ row = Failed(orig[h][s])
      OBVIOUS
    <2>2. s \in Steps /\ tr' = tr /\ orig' \in {Put(orig, h, s, row), orig}
      BY <1>3, <2>1 DEF FailSummary, SInv, OrigInv, DeskOK, Work
    <2>3. CASE orig' = orig
      BY <1>1, <2>2, <2>3, SameAway, StillStep
    <2>4. CASE orig' = Put(orig, h, s, row)
      <3>1. PICK k : k = <<s, "orig">>
        OBVIOUS
      <3>2. k \in Keys /\ Rewrites(h, {k}) /\ RowOf(h, k)' = row
        BY <2>2, <2>4, <3>1, PutRows
      <3>3. RowOf(h, k)'.status # "ok" /\ RowOf(h, k)'.rev = 0
        BY <1>2, <2>1, <3>2
      <3>4. PICK K : K = {k}
        OBVIOUS
      <3>5. K \in SUBSET Keys /\ Rewrites(h, K) /\ \A j \in K : RowOf(h, j)'.status # "ok" /\ RowOf(h, j)'.rev = 0
        BY <3>2, <3>3, <3>4
      <3> QED
        BY <1>1, <3>5, WithdrawStep
    <2> QED
      BY <2>2, <2>3, <2>4
  <1>4. CASE FailWords(h)
    <2>1. PICK s, row : s = wording[h].step /\ row = Failed(tr[h][s])
      OBVIOUS
    <2>2. s \in Steps /\ orig' = orig /\ tr' \in {Put(tr, h, s, row), tr}
      BY <1>4, <2>1 DEF FailWords, SInv, TrInv, DeskOK, Work
    <2>3. CASE tr' = tr
      BY <1>1, <2>2, <2>3, SameAway, StillStep
    <2>4. CASE tr' = Put(tr, h, s, row)
      <3>1. PICK k : k = <<s, "tr">>
        OBVIOUS
      <3>2. k \in Keys /\ Rewrites(h, {k}) /\ RowOf(h, k)' = row
        BY <2>2, <2>4, <3>1, PutRows
      <3>3. RowOf(h, k)'.status # "ok" /\ RowOf(h, k)'.rev = 0
        BY <1>2, <2>1, <3>2
      <3>4. PICK K : K = {k}
        OBVIOUS
      <3>5. K \in SUBSET Keys /\ Rewrites(h, K) /\ \A j \in K : RowOf(h, j)'.status # "ok" /\ RowOf(h, j)'.rev = 0
        BY <3>2, <3>3, <3>4
      <3> QED
        BY <1>1, <3>5, WithdrawStep
    <2> QED
      BY <2>2, <2>3, <2>4
  <1> QED
    BY <1>3, <1>4

LEMMA ResummarizeStep ==
    ASSUME SInv, TextsInv, MadeInv, MadeNext, NEW h \in Hubs, Resummarize(h)
    PROVE  ReadersStep /\ TextsInv'
  <1>1. PICK s \in Steps : orig' = Put(orig, h, s, NoRow) /\ tr' = Put(tr, h, s, NoRow)
    BY DEF Resummarize
  <1>2. h \in Redoes /\ UNCHANGED <<root, gone>>
    BY DEF Resummarize, posts
  <1>3. PICK K, row : K = {<<s, "orig">>, <<s, "tr">>} /\ row = NoRow
    OBVIOUS
  <1>4. row.status # "ok" /\ row.rev = 0
    BY <1>3 DEF NoRow
  <1>5. orig' = Put(orig, h, s, row) /\ tr' = Put(tr, h, s, row)
    BY <1>1, <1>3
  <1>6. /\ {<<s, "orig">>, <<s, "tr">>} \subseteq Keys /\ Rewrites(h, {<<s, "orig">>, <<s, "tr">>})
        /\ RowOf(h, <<s, "orig">>)' = row /\ RowOf(h, <<s, "tr">>)' = row
    BY <1>5, PutRows
  <1>7. K \in SUBSET Keys /\ Rewrites(h, K) /\ \A k \in K : RowOf(h, k)'.status # "ok" /\ RowOf(h, k)'.rev = 0
    BY <1>3, <1>4, <1>6
  <1> HIDE <1>3
  <1> QED
    BY <1>2, <1>7, WithdrawStep

\* A post goes from a hub, with the texts of K.
LEMMA GoneStep ==
    ASSUME made' = made, NEW h \in Hubs, NEW r \in Replies \cup {Root}, away' = [away EXCEPT ![h] = @ \cup {r}],
           NEW K \in SUBSET Keys, Texts!Without(h, K), r = Root => K = Keys,
           r # Root => \A k \in K : \E x \in shown[h][k] : r \in x.cites
    PROVE  ReadersStep
  <1>1. PICK About : About = [k \in Keys |-> Root]
    OBVIOUS
  <1>2. (\A k \in Keys : About[k] = Root) /\ Root \in {About[k] : k \in Keys}
    <2>1. \A k \in Keys : About[k] = Root
      BY <1>1
    <2>2. \E k : k \in Keys
      <3>1. PICK s \in Steps : TRUE
        BY LimitsAssumption
      <3>2. <<s, "orig">> \in Keys
        BY DEF Keys
      <3> QED
        BY <3>2
    <2> QED
      BY <2>1, <2>2
  <1>3. \A k \in Keys : About[k] = r => k \in K
    BY <1>2
  <1>4. \A k \in K : About[k] = r \/ \E x \in shown[h][k] : r \in x.cites
    BY <1>2
  <1>5. Texts!Delete(h, r)
    BY <1>1, <1>3, <1>4 DEF Texts!Delete
  <1>6. r \in Replies \cup {[j \in Keys |-> Root][k] : k \in Keys}
    BY <1>1, <1>2
  <1> QED
    BY <1>5, <1>6 DEF ReadersStep, Grown, Texts!Next

LEMMA DeleteRootStep ==
    ASSUME SInv, TextsInv, MadeInv, MadeNext, NEW h \in Hubs, DeleteRoot(h)
    PROVE  ReadersStep /\ TextsInv'
  <1>1. /\ orig \in [Hubs -> [Steps -> Row]] /\ tr \in [Hubs -> [Steps -> Row]]
        /\ root \in [Hubs -> {"away", "here", "gone"}]
    BY DEF SInv, PostsInv, OrigInv, TrInv, TableOK
  <1>2. /\ root' = [root EXCEPT ![h] = "gone"] /\ gone' = gone
        /\ orig' = [orig EXCEPT ![h] = [s \in Steps |-> NoRow]]
        /\ tr' = [tr EXCEPT ![h] = [s \in Steps |-> NoRow]]
    BY DEF DeleteRoot
  <1>3. /\ \A s \in Steps : orig'[h][s] = NoRow /\ tr'[h][s] = NoRow
        /\ \A g \in Hubs : g # h => orig'[g] = orig[g] /\ tr'[g] = tr[g]
    BY <1>1, <1>2
  <1>4. ASSUME NEW k \in Keys PROVE /\ RowOf(h, k)' = NoRow
                                    /\ \A g \in Hubs : g # h => RowOf(g, k)' = RowOf(g, k)
    <2>1. k[1] \in Steps
      BY DEF Keys
    <2> QED
      BY <1>3, <2>1 DEF RowOf
  <1>5. NoRow.status # "ok" /\ NoRow.rev = 0
    BY DEF NoRow
  <1>6. PICK K : K = Keys
    OBVIOUS
  <1>7. K \in SUBSET Keys /\ Rewrites(h, K) /\ \A k \in K : RowOf(h, k)'.status # "ok" /\ RowOf(h, k)'.rev = 0
    <2>1. Rewrites(h, K)
      BY <1>4, <1>6 DEF Rewrites
    <2>2. \A k \in K : RowOf(h, k)'.status # "ok" /\ RowOf(h, k)'.rev = 0
      BY <1>4, <1>5, <1>6
    <2> QED
      BY <1>6, <2>1, <2>2
  <1>8. made' = made /\ Texts!Without(h, K) /\ TextsInv'
    BY <1>7, LoseStep
  <1>9. away' = [away EXCEPT ![h] = @ \cup {Root}]
    <2>1. PICK E : E = [g \in Hubs |-> Entries(gone[g])]
      OBVIOUS
    <2>2. away = [g \in Hubs |-> E[g] \cup {q \in {Root} : root[g] = "gone"}]
      BY <2>1 DEF away
    <2>3. away' = [g \in Hubs |-> E[g] \cup {q \in {Root} : root'[g] = "gone"}]
      BY <1>2, <2>1 DEF away
    <2>4. \A g \in Hubs : E[g] \cup {q \in {Root} : root'[g] = "gone"} =
                              IF g = h THEN away[g] \cup {Root} ELSE away[g]
      BY <1>1, <1>2, <2>2
    <2> QED
      BY <2>2, <2>3, <2>4
  <1> QED
    BY <1>6, <1>8, <1>9, GoneStep

LEMMA DeleteReplyStep ==
    ASSUME SInv, TextsInv, MadeInv, MadeNext, NEW h \in Hubs, NEW r \in Replies, DeleteReply(h, r)
    PROVE  ReadersStep /\ TextsInv'
  <1>1. /\ orig \in [Hubs -> [Steps -> Row]] /\ tr \in [Hubs -> [Steps -> Row]]
        /\ gone \in [Hubs -> Seq(Replies)]
    BY DEF SInv, PostsInv, OrigInv, TrInv, TableOK
  <1>2. /\ root' = root /\ gone' = [gone EXCEPT ![h] = Append(gone[h], r)]
        /\ orig' = [orig EXCEPT ![h] = [s \in Steps |-> IF Taken(h, r, orig[h][s]) THEN NoRow ELSE orig[h][s]]]
        /\ tr' = [tr EXCEPT ![h] = [s \in Steps |-> IF Taken(h, r, tr[h][s]) THEN NoRow ELSE tr[h][s]]]
    BY DEF DeleteReply
  <1>3. /\ \A s \in Steps : /\ orig'[h][s] = IF Taken(h, r, orig[h][s]) THEN NoRow ELSE orig[h][s]
                            /\ tr'[h][s] = IF Taken(h, r, tr[h][s]) THEN NoRow ELSE tr[h][s]
        /\ \A g \in Hubs : g # h => orig'[g] = orig[g] /\ tr'[g] = tr[g]
    BY <1>1, <1>2
  <1>4. ASSUME NEW k \in Keys
        PROVE  /\ RowOf(h, k)' = IF Taken(h, r, RowOf(h, k)) THEN NoRow ELSE RowOf(h, k)
               /\ \A g \in Hubs : g # h => RowOf(g, k)' = RowOf(g, k)
    <2>1. k[1] \in Steps
      BY DEF Keys
    <2>2. CASE k[2] = "orig"
      BY <1>3, <2>1, <2>2 DEF RowOf
    <2>3. CASE k[2] # "orig"
      BY <1>3, <2>1, <2>3 DEF RowOf
    <2> QED
      BY <2>2, <2>3
  <1>5. NoRow.status # "ok" /\ NoRow.rev = 0
    BY DEF NoRow
  <1>6. PICK L : L = {k \in Keys : Taken(h, r, RowOf(h, k))}
    OBVIOUS
  <1>7. L \in SUBSET Keys /\ Rewrites(h, L) /\ \A k \in L : RowOf(h, k)'.status # "ok" /\ RowOf(h, k)'.rev = 0
    <2>1. Rewrites(h, L)
      BY <1>4, <1>6 DEF Rewrites
    <2>2. \A k \in L : RowOf(h, k)'.status # "ok" /\ RowOf(h, k)'.rev = 0
      BY <1>4, <1>5, <1>6
    <2> QED
      BY <1>6, <2>1, <2>2
  <1>8. made' = made /\ Texts!Without(h, L) /\ TextsInv'
    BY <1>7, LoseStep
  <1>9. PICK K : K = {k \in L : shown[h][k] # {}}
    OBVIOUS
  <1>10. K \in SUBSET Keys /\ \A k \in K : \E x \in shown[h][k] : r \in x.cites
    <2>1. ASSUME NEW k \in K PROVE \E x \in shown[h][k] : r \in x.cites
      <3>1. k \in Keys /\ shown[h][k] # {} /\ r \in RowOf(h, k).cites
        BY <1>6, <1>9, <2>1 DEF Taken
      <3>2. PICK row : row = RowOf(h, k)
        OBVIOUS
      <3>3. shown[h][k] = Seen(h, row)
        BY <3>1, <3>2, Tables
      <3>4. row.status = "ok"
        BY <3>1, <3>3 DEF Seen
      <3>5. PICK x : x = [by |-> IF row.origin = Local THEN h ELSE row.origin, ts |-> row.ts, cites |-> row.cites]
        OBVIOUS
      <3>6. x \in shown[h][k] /\ x.cites = row.cites
        BY <3>3, <3>4, <3>5 DEF Seen
      <3> QED
        BY <3>1, <3>2, <3>6
    <2> QED
      BY <1>6, <1>9, <2>1
  <1>11. Texts!Without(h, K)
    <2>1. PICK seen : seen = shown[h]
      OBVIOUS
    <2>2. \A k \in Keys : (IF k \in L THEN {} ELSE seen[k]) = (IF k \in K THEN {} ELSE seen[k])
      BY <1>9, <2>1
    <2>3. [k \in Keys |-> IF k \in L THEN {} ELSE seen[k]] = [k \in Keys |-> IF k \in K THEN {} ELSE seen[k]]
      BY <2>2
    <2>4. shown' = [shown EXCEPT ![h] = [k \in Keys |-> IF k \in L THEN {} ELSE seen[k]]]
      BY <1>8, <2>1 DEF Texts!Without
    <2>5. shown' = [shown EXCEPT ![h] = [k \in Keys |-> IF k \in K THEN {} ELSE seen[k]]]
      BY <2>3, <2>4
    <2> QED
      BY <2>1, <2>5 DEF Texts!Without
  <1>12. away' = [away EXCEPT ![h] = @ \cup {r}]
    <2>1. PICK E, F : /\ E = [g \in Hubs |-> Entries(gone[g])]
                      /\ F = [g \in Hubs |-> {q \in {Root} : root[g] = "gone"}]
      OBVIOUS
    <2>2. away = [g \in Hubs |-> E[g] \cup F[g]]
      BY <2>1 DEF away
    <2>3. \A g \in Hubs : Entries(gone'[g]) = IF g = h THEN E[g] \cup {r} ELSE E[g]
      <3>1. gone[h] \in Seq(Replies)
        BY <1>1
      <3>2. Entries(Append(gone[h], r)) = Entries(gone[h]) \cup {r}
        BY <3>1, EntriesOf
      <3>3. \A g \in Hubs : gone'[g] = IF g = h THEN Append(gone[h], r) ELSE gone[g]
        BY <1>1, <1>2
      <3> QED
        BY <2>1, <3>2, <3>3
    <2>4. away' = [g \in Hubs |-> Entries(gone'[g]) \cup F[g]]
      BY <1>2, <2>1 DEF away
    <2>5. \A g \in Hubs : Entries(gone'[g]) \cup F[g] = IF g = h THEN away[g] \cup {r} ELSE away[g]
      BY <2>2, <2>3
    <2> QED
      BY <2>2, <2>4, <2>5
  <1>13. r # Root
    BY LocalAssumption
  <1> QED
    BY <1>8, <1>10, <1>11, <1>12, <1>13, GoneStep

LEMMA AcceptStep ==
    ASSUME SInv, TextsInv, MadeInv, MadeNext, NEW h \in Hubs, Accept(h)
    PROVE  ReadersStep /\ TextsInv'
  <1>1. PICK o : o = puller[h].offer
    OBVIOUS
  <1>2. puller[h].pc = "keep" /\ UNCHANGED <<root, gone>>
    BY DEF Accept, posts
  <1>3. o \in Offer /\ Known(h, o)
    BY <1>1, <1>2 DEF SInv, PullersInv, GoodPuller, InHand, MadeInv
  <1>4. o.step \in Steps
    BY <1>3 DEF Offer
  <1>5. PICK k, s, old, row : /\ k = KeyOf(o) /\ s = o.step /\ old = RowOf(h, k)
                              /\ row = [status |-> "ok", tries |-> old.tries, ts |-> o.ts, of |-> o.of,
                                        cites |-> o.cites, origin |-> o.peer, rev |-> 0]
    OBVIOUS
  <1>6. CASE ~ Accepted(h, o, old)
    <2>1. orig \in [Hubs -> [Steps -> Row]] /\ tr \in [Hubs -> [Steps -> Row]]
      BY DEF SInv, OrigInv, TrInv, TableOK
    <2>2. \A table \in [Hubs -> [Steps -> Row]] : Put(table, h, s, table[h][s]) = table
      BY <1>4, <1>5 DEF Put
    <2>3. Taking(h, o, old) = old
      BY <1>6 DEF Taking
    <2>4. orig' = orig /\ tr' = tr
      <3>1. CASE o.of = 0
        <4>1. old = orig[h][s]
          BY <1>5, <3>1 DEF KeyOf, RowOf
        <4> QED
          BY <1>1, <1>5, <2>1, <2>2, <2>3, <3>1, <4>1 DEF Accept
      <3>2. CASE o.of # 0
        <4>1. old = tr[h][s]
          BY <1>5, <3>2 DEF KeyOf, RowOf
        <4> QED
          BY <1>1, <1>5, <2>1, <2>2, <2>3, <3>2, <4>1 DEF Accept
      <3> QED
        BY <3>1, <3>2
    <2> QED
      BY <1>2, <2>4, SameAway, StillStep
  <1>7. CASE Accepted(h, o, old)
    <2>1. Taking(h, o, old) = row
      BY <1>5, <1>7 DEF Taking
    <2>2. k \in Keys /\ Rewrites(h, {k}) /\ RowOf(h, k)' = row
      <3>1. CASE o.of = 0
        <4>1. k = <<s, "orig">> /\ old = orig[h][s]
          BY <1>5, <3>1 DEF KeyOf, RowOf
        <4>2. orig' = Put(orig, h, s, row) /\ tr' = tr
          BY <1>1, <1>5, <2>1, <3>1, <4>1 DEF Accept
        <4> QED
          BY <1>4, <1>5, <4>1, <4>2, PutRows
      <3>2. CASE o.of # 0
        <4>1. k = <<s, "tr">> /\ old = tr[h][s]
          BY <1>5, <3>2 DEF KeyOf, RowOf
        <4>2. tr' = Put(tr, h, s, row) /\ orig' = orig
          BY <1>1, <1>5, <2>1, <3>2, <4>1 DEF Accept
        <4> QED
          BY <1>4, <1>5, <4>1, <4>2, PutRows
      <3> QED
        BY <3>1, <3>2
    <2>3. row.status = "ok" /\ row.origin = o.peer /\ row.ts = o.ts /\ row.cites = o.cites /\ row.rev = 0
      BY <1>5
    <2>4. root[h] = "here" /\ (RowOf(h, k).status = "ok" => RowOf(h, k).ts < o.ts)
      BY <1>5, <1>7 DEF Accepted
    <2>5. k = KeyOf(o)
      BY <1>5
    <2> HIDE <1>1, <1>5
    <2> QED
      BY <1>2, <1>3, <2>2, <2>3, <2>4, <2>5, TakeStep
  <1> QED
    BY <1>6, <1>7

LEMMA ReadersSee ==
    ASSUME SInv, TextsInv, WorkersInv, MadeInv, MadeNext
    PROVE  ReadersStep /\ TextsInv'
  <1>0. Next
    BY DEF MadeNext
  <1>1. ASSUME UNCHANGED <<orig, tr, root, gone>> PROVE ReadersStep /\ TextsInv'
    BY <1>1, SameAway, StillStep
  <1>2. ASSUME NEW h \in Hubs, CreateRoot(h) PROVE ReadersStep /\ TextsInv'
    <2>1. UNCHANGED <<orig, tr, gone>> /\ root[h] = "away" /\ root' = [root EXCEPT ![h] = "here"]
      BY <1>2 DEF CreateRoot, tables
    <2>2. \A g \in Hubs : (root'[g] = "gone") = (root[g] = "gone")
      BY <2>1 DEF SInv, PostsInv
    <2>3. away' = away
      <3>1. \A g \in Hubs : {q \in {Root} : root'[g] = "gone"} = {q \in {Root} : root[g] = "gone"}
        BY <2>2
      <3>2. PICK E : E = [g \in Hubs |-> Entries(gone[g])]
        OBVIOUS
      <3>3. /\ away = [g \in Hubs |-> E[g] \cup {q \in {Root} : root[g] = "gone"}]
            /\ away' = [g \in Hubs |-> E[g] \cup {q \in {Root} : root'[g] = "gone"}]
        BY <2>1, <3>2 DEF away
      <3> QED
        BY <3>1, <3>3
    <2> QED
      BY <2>1, <2>3, StillStep
  <1>3. ASSUME NEW h \in Hubs,
               \/ \E r \in Replies : CreateReply(h, r)
               \/ \E s \in Steps : Read(h, s) \/ ReadWords(h, s)
               \/ NoSummary(h) \/ NoWords(h)
        PROVE  UNCHANGED <<orig, tr, root, gone>>
    BY <1>3 DEF CreateReply, Read, ReadWords, NoSummary, NoWords, tables, posts
  <1>4. ASSUME NEW h \in Hubs, Settle(h) \/ Restart(h) \/ \E p \in Pulls[h] : StartPull(h, p)
        PROVE  UNCHANGED <<orig, tr, root, gone>>
    BY <1>4 DEF Settle, Restart, StartPull, tables, posts
  <1>5. ASSUME NEW h \in Hubs, Busy(h) PROVE UNCHANGED <<orig, tr, root, gone>> \/ Accept(h)
    BY <1>5 DEF Busy, FetchFails, Fetch, Look, Aside, Drop, PageDone, tables, posts
  <1>6. ASSUME NEW h \in Hubs, Answers(h) PROVE ReadersStep /\ TextsInv'
    <2>1. PICK t \in Times[h] : (\E cites : Summarize(h, cites, t)) \/ TranslateSummary(h, t)
      BY <1>6 DEF Answers
    <2> QED
      BY <2>1, SummarizeStep, TranslateStep
  <1> QED
    BY <1>0, <1>1, <1>2, <1>3, <1>4, <1>5, <1>6, DeleteRootStep, DeleteReplyStep, FailStep,
       ResummarizeStep, AcceptStep DEF Next

\* The clocks, and who works.
WorkersGo == WorkersInv' /\ \A h \in Hubs : clock[h] <= clock'[h]

LEMMA WorkersStep ==
    ASSUME SInv, TextsInv, WorkersInv, [Next]_vars
    PROVE  WorkersGo
  <1>0. writing \in [Hubs -> Work] /\ wording \in [Hubs -> Work] /\ clock \in [Hubs -> Nat]
    BY DEF SInv, OrigInv, TrInv, DeskOK, NumbersInv
  <1>1. ASSUME \A h \in Hubs : writing'[h] \in {writing[h], NoWork} /\ wording'[h] \in {wording[h], NoWork}
        PROVE  WorkersInv'
    BY <1>1, NoWorkTyped DEF WorkersInv
  <1>2. ASSUME clock' = clock PROVE \A h \in Hubs : clock[h] <= clock'[h]
    BY <1>0, <1>2
  <1>3. ASSUME UNCHANGED clock,
               \A h \in Hubs : writing'[h] \in {writing[h], NoWork} /\ wording'[h] \in {wording[h], NoWork}
        PROVE  WorkersGo
    BY <1>1, <1>2, <1>3 DEF WorkersGo
  <1>4. ASSUME UNCHANGED <<writing, wording, clock>> PROVE WorkersGo
    BY <1>3, <1>4
  <1>5. ASSUME NEW h \in Hubs,
               \/ CreateRoot(h) \/ DeleteRoot(h)
               \/ \E r \in Replies : CreateReply(h, r) \/ DeleteReply(h, r)
               \/ Resummarize(h) \/ Settle(h) \/ \E p \in Pulls[h] : StartPull(h, p)
        PROVE  UNCHANGED <<writing, wording, clock>>
    BY <1>5 DEF CreateRoot, DeleteRoot, CreateReply, DeleteReply, Resummarize, Settle, StartPull
  <1>6. ASSUME NEW h \in Hubs, Busy(h) PROVE UNCHANGED <<writing, wording, clock>>
    BY <1>6 DEF Busy, FetchFails, Fetch, Look, Accept, Aside, Drop, PageDone
  <1>7. ASSUME NEW h \in Hubs, FailSummary(h) \/ NoSummary(h) \/ FailWords(h) \/ NoWords(h) \/ Restart(h)
        PROVE  WorkersGo
    <2>1. /\ UNCHANGED clock
          /\ \A g \in Hubs : writing'[g] \in {writing[g], NoWork} /\ wording'[g] \in {wording[g], NoWork}
      BY <1>0, <1>7 DEF FailSummary, NoSummary, FailWords, NoWords, Restart
    <2> QED
      BY <1>3, <2>1
  <1>8. ASSUME NEW h \in Hubs, NEW t \in Times[h], (\E cites : Summarize(h, cites, t)) \/ TranslateSummary(h, t)
        PROVE  WorkersGo
    <2>1. t \in Nat /\ t > clock[h] /\ clock' = [clock EXCEPT ![h] = t]
      BY <1>8, TimesAssumption DEF Summarize, TranslateSummary
    <2>2. \A g \in Hubs : clock[g] <= clock'[g]
      BY <1>0, <2>1
    <2>3. \A g \in Hubs : writing'[g] \in {writing[g], NoWork} /\ wording'[g] \in {wording[g], NoWork}
      BY <1>0, <1>8 DEF Summarize, TranslateSummary
    <2> QED
      BY <1>1, <2>2, <2>3 DEF WorkersGo
  <1>9. ASSUME NEW h \in Hubs, NEW s \in Steps, Read(h, s) PROVE WorkersGo
    <2>1. /\ h \in Writers /\ wording' = wording /\ clock' = clock
          /\ \A g \in Hubs : g # h => writing'[g] = writing[g]
      BY <1>0, <1>9 DEF Read
    <2>2. WorkersInv'
      BY <2>1 DEF WorkersInv
    <2> QED
      BY <1>2, <2>1, <2>2 DEF WorkersGo
  <1>10. ASSUME NEW h \in Hubs, NEW s \in Steps, ReadWords(h, s) PROVE WorkersGo
    <2>1. PICK w : w = [step |-> s, of |-> orig[h][s].ts, read |-> orig[h][s].cites]
      OBVIOUS
    <2>2. /\ h \in Writers /\ writing' = writing /\ clock' = clock /\ orig[h][s].status = "ok"
          /\ wording' = [wording EXCEPT ![h] = w]
      BY <1>10, <2>1 DEF ReadWords, OwedWords
    <2>3. w.of # 0
      <3>1. PICK k : k = <<s, "orig">>
        OBVIOUS
      <3>2. k \in Keys /\ RowOf(h, k) = orig[h][s]
        BY <3>1 DEF Keys, RowOf
      <3>3. GoodText(k, RowOf(h, k))
        BY <3>2 DEF TextsInv
      <3> QED
        BY <2>1, <2>2, <3>2, <3>3 DEF GoodText
    <2>4. wording'[h] = w /\ \A g \in Hubs : g # h => wording'[g] = wording[g]
      BY <1>0, <2>2
    <2>5. WorkersInv'
      BY <2>2, <2>3, <2>4 DEF WorkersInv
    <2> QED
      BY <1>2, <2>2, <2>5 DEF WorkersGo
  <1>11. CASE UNCHANGED vars
    BY <1>4, <1>11 DEF vars
  <1>12. ASSUME NEW h \in Hubs, Answers(h) PROVE WorkersGo
    BY <1>8, <1>12 DEF Answers
  <1>13. CASE Next
    <2>1. PICK h \in Hubs :
              \/ CreateRoot(h) \/ DeleteRoot(h)
              \/ \E r \in Replies : CreateReply(h, r) \/ DeleteReply(h, r)
              \/ \E s \in Steps : Read(h, s) \/ ReadWords(h, s)
              \/ Answers(h) \/ FailSummary(h) \/ NoSummary(h) \/ FailWords(h) \/ NoWords(h)
              \/ Resummarize(h) \/ (\E p \in Pulls[h] : StartPull(h, p))
              \/ Settle(h) \/ Busy(h) \/ Restart(h)
      BY <1>13 DEF Next
    <2>2. ASSUME UNCHANGED <<writing, wording, clock>> PROVE WorkersGo
      BY <1>4, <2>2
    <2> QED
      BY <2>1, <2>2, <1>5, <1>6, <1>7, <1>9, <1>10, <1>12
  <1> QED
    BY <1>4, <1>11, <1>13

LEMMA NextMade ==
    ASSUME RInv, MadeNext
    PROVE  RInv'
  <1>0. [Next]_vars /\ SInv' /\ TextsInv' /\ WorkersInv' /\ InHandFrom /\ ReadersStep
    BY NextS, NextFrom, WorkersStep, ReadersSee DEF MadeNext, RInv, WorkersGo
  <1>1. \A h \in Hubs, k \in Keys : made'[h][k] = made[h][k] \cup By(h, shown'[h][k])
    BY Tables
  <1>2. \A h \in Hubs : clock[h] <= clock'[h] /\ clock[h] \in Nat /\ clock'[h] \in Nat
    BY <1>0, WorkersStep DEF RInv, SInv, NumbersInv, WorkersGo
  <1>3. made \in [Hubs -> [Keys -> SUBSET Text]]
    BY DEF RInv, MadeInv
  <1>4. ASSUME NEW g \in Hubs, NEW j \in Keys, NEW x \in made[g][j]
        PROVE  x.by = g /\ x.ts <= clock'[g]
    <2>1. x.by = g /\ x.ts <= clock[g] /\ x.ts \in Nat
      BY <1>3 DEF RInv, MadeInv, Text
    <2> QED
      BY <1>2, <2>1
  <1>5. /\ made' \in [Hubs -> [Keys -> SUBSET Text]]
        /\ \A h \in Hubs, k \in Keys : \A x \in made'[h][k] : x.by = h /\ x.ts <= clock'[h]
    <2>1. CASE made' = made
      BY <1>3, <1>4, <2>1
    <2>2. ASSUME NEW h \in Hubs, NEW k \in Keys, NEW y \in [by : {h}, ts : Nat \ {0}, cites : SUBSET Replies],
                 y.ts <= clock'[h], made' = Texts!At(made, h, k, made[h][k] \cup {y})
          PROVE  /\ made' \in [Hubs -> [Keys -> SUBSET Text]]
                 /\ \A g \in Hubs, j \in Keys : \A x \in made'[g][j] : x.by = g /\ x.ts <= clock'[g]
      <3>1. y \in Text /\ y.by = h
        BY DEF Text
      <3>2. made' = [made EXCEPT ![h] = [@ EXCEPT ![k] = made[h][k] \cup {y}]]
        BY <2>2 DEF Texts!At
      <3>3. made[h][k] \cup {y} \in SUBSET Text
        BY <1>3, <3>1
      <3>4. /\ made' \in [Hubs -> [Keys -> SUBSET Text]]
            /\ \A g \in Hubs, j \in Keys :
                  made'[g][j] = IF g = h /\ j = k THEN made[h][k] \cup {y} ELSE made[g][j]
        BY <1>3, <3>2, <3>3
      <3>5. ASSUME NEW g \in Hubs, NEW j \in Keys, NEW x \in made'[g][j]
            PROVE  x.by = g /\ x.ts <= clock'[g]
        <4>1. CASE x \in made[g][j]
          BY <1>4, <4>1
        <4>2. CASE g = h /\ j = k /\ x = y
          BY <2>2, <3>1, <4>2
        <4> QED
          BY <3>4, <3>5, <4>1, <4>2
      <3> QED
        BY <3>4, <3>5
    <2> QED
      BY <1>0, <2>1, <2>2 DEF ReadersStep, Grown
  <1>6. \A h \in Hubs, k \in Keys : By(h, shown'[h][k]) \subseteq made'[h][k]
    BY <1>1
  <1>7. ASSUME NEW h \in Hubs, NEW o, InHand(h, o)' PROVE Known(h, o)'
    <2>1. Known(h, o)
      BY <1>0, <1>7, KnownFrom DEF RInv, InHandFrom
    <2>2. o \in Offer /\ o.peer \in Hubs /\ KeyOf(o) \in Keys
      <3>1. SInv'
        BY <1>0
      <3>2. o \in Offer
        <4>1. CASE o \in puller'[h].page
          BY <3>1, <4>1 DEF SInv, PullersInv, GoodPuller, Puller
        <4>2. CASE puller'[h].pc # "next" /\ o = puller'[h].offer
          BY <3>1, <4>2 DEF SInv, PullersInv, GoodPuller
        <4>3. CASE \E i \in DOMAIN waiting'[h] : o = waiting'[h][i]
          <5>1. waiting'[h] \in Seq(Offer)
            BY <3>1 DEF SInv, WaitInv
          <5> QED
            BY <4>3, <5>1
        <4> QED
          BY <1>7, <4>1, <4>2, <4>3 DEF InHand
      <3> QED
        BY <3>2 DEF Offer, KeyOf, Keys
    <2>3. TextOf(o) \in made'[o.peer][KeyOf(o)]
      BY <1>1, <2>1, <2>2 DEF Known
    <2> QED
      BY <2>1, <2>3 DEF Known
  <1>8. MadeInv'
    BY <1>5, <1>6, <1>7 DEF MadeInv
  <1> QED
    BY <1>0, <1>8 DEF RInv, InHandFrom

\* Nothing moves.
LEMMA SameStep ==
    ASSUME RInv, UNCHANGED <<vars, made>>
    PROVE  RInv' /\ UNCHANGED <<made, shown, away>>
  <1>1. SInv' /\ UNCHANGED <<root, gone, orig, tr, puller, waiting, writing, wording, clock>>
    BY NextS DEF RInv, vars, posts, tables, taking
  <1>2. shown' = shown /\ away' = away
    BY <1>1 DEF shown, Seen, RowOf, away
  <1>3. TextsInv' /\ WorkersInv' /\ PeersInv'
    BY <1>1 DEF RInv, TextsInv, GoodText, RowOf, WorkersInv, PeersInv
  <1>4. MadeInv'
    BY <1>1, <1>2 DEF RInv, MadeInv, InHand, Known
  <1> QED
    BY <1>1, <1>2, <1>3, <1>4 DEF RInv

LEMMA MadeHolds == MadeSpec => []RInv
  <1>1. RInv /\ [MadeNext]_<<vars, made>> => RInv'
    BY NextMade, SameStep
  <1>2. MadeInit => RInv
    BY InitS, InitMade DEF MadeInit, RInv
  <1> QED
    BY <1>1, <1>2, PTL DEF MadeSpec

-----------------------------------------------------------------------------
\* What a reader sees of the hubs' summaries is what HubTexts promises, for every
\* number of hubs, steps and replies, whoever pulls from whom, and whatever the
\* models answer (AcceptSummary, src/internal/store/summary.go:316; takeSummary,
\* src/internal/replicate/replicate.go:869).
THEOREM SummariesImplement == MadeSpec => TextsSpec
  <1>1. MadeInit => Texts!Init
    <2> SUFFICES ASSUME MadeInit PROVE Texts!Init
      OBVIOUS
    <2>1. made = [h \in Hubs |-> [k \in Keys |-> {}]]
      BY DEF MadeInit
    <2>2. \A h \in Hubs, k \in Keys : Seen(h, RowOf(h, k)) = {}
      BY DEF MadeInit, Init, Seen, RowOf, NoRow, Keys
    <2>3. shown = [h \in Hubs |-> [k \in Keys |-> {}]]
      BY <2>2 DEF shown
    <2>4. \A h \in Hubs : Entries(gone[h]) = {} /\ root[h] # "gone"
      BY DEF MadeInit, Init, Entries
    <2>5. \A h \in Hubs : Entries(gone[h]) \cup {q \in {Root} : root[h] = "gone"} = {}
      BY <2>4
    <2>6. away = [h \in Hubs |-> {}]
      BY <2>5 DEF away
    <2> QED
      BY <2>1, <2>3, <2>6 DEF Texts!Init
  <1>2. RInv /\ [MadeNext]_<<vars, made>> => [Texts!Next]_(Texts!textVars)
    BY ReadersSee, SameStep DEF RInv, ReadersStep, Texts!textVars
  <1> QED
    BY <1>1, <1>2, MadeHolds, PTL DEF MadeSpec, TextsSpec, Texts!Spec

\* No summary a hub wrote again, withdrew or lost is handed back to it by those who
\* took it: a text is taken from its maker only, and no hub pulls from itself.
THEOREM NotHandedBackHolds == MadeSpec => NotHandedBack
  <1> DEFINE Back == \A h \in Hubs, k \in Keys : \A x \in made[h][k] \ shown[h][k] : x \notin shown'[h][k]
  <1>1. ASSUME RInv, ReadersStep PROVE Back
    <2> SUFFICES ASSUME NEW g \in Hubs, NEW j \in Keys, NEW x \in made[g][j] \ shown[g][j], x \in shown'[g][j]
                 PROVE  FALSE
      OBVIOUS
    <2>0. /\ x.by = g /\ x.ts \in Nat
          /\ \A h \in Hubs : shown[h] = [k \in Keys |-> shown[h][k]]
          /\ shown = [h \in Hubs |-> shown[h]]
      BY <1>1 DEF RInv, MadeInv, shown, Text
    <2>1. ASSUME NEW h \in Hubs, NEW k \in Keys, NEW y, shown' = Texts!At(shown, h, k, {y})
          PROVE  x = y /\ g = h /\ j = k
      <3>1. shown' = [shown EXCEPT ![h] = [@ EXCEPT ![k] = {y}]]
        BY <2>1 DEF Texts!At
      <3>2. shown'[g][j] = IF g = h /\ j = k THEN {y} ELSE shown[g][j]
        BY <2>0, <3>1
      <3> QED
        BY <3>2
    <2>2. ASSUME NEW h \in Hubs, NEW k \in Keys, NEW y \in Texts!TextsOf(h), Texts!Make(h, k, y) PROVE FALSE
      <3>1. x = y /\ g = h /\ j = k
        BY <2>1, <2>2 DEF Texts!Make
      <3> QED
        BY <2>0, <2>2, <3>1 DEF Texts!Make
    <2>3. ASSUME NEW h \in Hubs, NEW k \in Keys, NEW p \in Pulls[h], NEW y \in made[p][k], Texts!Take(h, p, k, y)
          PROVE  FALSE
      <3>1. x = y /\ g = h
        BY <2>1, <2>3 DEF Texts!Take
      <3>2. p \in Hubs /\ p # h
        BY PullsAssumption
      <3>3. y.by = p
        BY <1>1, <3>2 DEF RInv, MadeInv
      <3> QED
        BY <2>0, <3>1, <3>2, <3>3
    <2>4. ASSUME NEW h \in Hubs, NEW K, Texts!Without(h, K) PROVE FALSE
      <3>1. shown' = [shown EXCEPT ![h] = [k \in Keys |-> IF k \in K THEN {} ELSE @[k]]]
        BY <2>4 DEF Texts!Without
      <3>2. shown'[g][j] \subseteq shown[g][j]
        BY <2>0, <3>1
      <3> QED
        BY <3>2
    <2> QED
      BY <1>1, <2>2, <2>3, <2>4 DEF ReadersStep, Texts!Next, Texts!Delete, Texts!Withdraw
  <1>2. RInv /\ [MadeNext]_<<vars, made>> => [Back]_(Texts!textVars)
    BY <1>1, ReadersSee, SameStep DEF RInv, Texts!textVars
  <1> QED
    BY <1>2, MadeHolds, PTL DEF MadeSpec, NotHandedBack, Texts!NotHandedBack
=============================================================================
