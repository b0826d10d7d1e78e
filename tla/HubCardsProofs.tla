----------------------------- MODULE HubCardsProofs -----------------------------
(***************************************************************************)
(* The queues, worklists and tries of the card worker and the archiver     *)
(* stay within their bounds, and a card has one round in flight at most,   *)
(* for any posts, links, limits and restarts.  The runs count the rounds   *)
(* of a post; here it is said which there cannot be two of, and the counts *)
(* follow.                                                                 *)
(***************************************************************************)
EXTENDS HubCards, HubInduction, SequenceTheorems

\* The worker has a post's links in hand while it works at them, none without
\* tries left.
WorkerInv ==
    /\ worker.pc # "idle" => worker.post \in Posts
    /\ worker.pc = "pictures" => worker.todo # <<>>
    /\ \A i \in DOMAIN worker.todo : worker.todo[i].tries < PictureTries

\* A round of the queue that goes on.
Begun(i) == rounds[i].at # "begin"

\* Of the rounds that go on, in the queue, at a timer or in hand, no two are of
\* one post, and the archiver's note has just their posts.
FlightInv ==
    /\ \A r \in timers : r.at # "begin" /\ r.post \in busy /\ r.post # archiver.post
    /\ archiver # Quiet => archiver.at # "begin" /\ archiver.post \in busy
    /\ \A i \in DOMAIN rounds : Begun(i) => rounds[i].post \in busy /\ rounds[i].post # archiver.post
    /\ \A i, j \in DOMAIN rounds : Begun(i) /\ Begun(j) /\ rounds[i].post = rounds[j].post => i = j
    /\ \A r, s \in timers : r.post = s.post => r = s
    /\ \A i \in DOMAIN rounds, r \in timers : Begun(i) => rounds[i].post # r.post
    /\ \A p \in busy : \/ archiver.post = p
                       \/ \E r \in timers : r.post = p
                       \/ \E i \in DOMAIN rounds : Begun(i) /\ rounds[i].post = p

HereInv == held \subseteq Posts /\ gone \subseteq Posts \ held /\ IsFiniteSet(held) /\ starts \in 0 .. Starts
TablesInv == cards \in [Posts -> Card] /\ pictures \in [Posts -> [Pictures -> Picture]]
DeriveInv == /\ queue \in Seq(Job) /\ Len(queue) <= QueueMax
             /\ worker \in Worker /\ WorkerInv /\ backfilled \in BOOLEAN
ArchiveInv == /\ rounds \in Seq(Round) /\ Len(rounds) <= QueueMax
              /\ timers \subseteq Round /\ archiver \in Round \cup {Quiet} /\ busy \subseteq Posts
              /\ FlightInv

CInv == HereInv /\ TablesInv /\ DeriveInv /\ ArchiveInv

-----------------------------------------------------------------------------
(* The queues.                                                             *)

LEMMA OfferedIs ==
    ASSUME NEW D, NEW q \in Seq(D), NEW more \in Seq(D), Len(q) <= QueueMax
    PROVE  /\ Offered(q, more) \in Seq(D)
           /\ Len(Offered(q, more)) \in Len(q) .. QueueMax
           /\ \A i \in 1 .. Len(q) : Offered(q, more)[i] = q[i]
           /\ \A i \in 1 .. Len(Offered(q, more)) :
                 i > Len(q) => \E j \in DOMAIN more : Offered(q, more)[i] = more[j]
  <1>1. QueueMax \in Nat /\ Len(q) \in Nat /\ Len(more) \in Nat /\ DOMAIN more = 1 .. Len(more)
    BY LimitsAssumption
  <1>2. PICK n : n = IF Len(more) < QueueMax - Len(q) THEN Len(more) ELSE QueueMax - Len(q)
    OBVIOUS
  <1>3. n \in Nat /\ n <= Len(more) /\ Len(q) + n <= QueueMax
    BY <1>1, <1>2
  <1>4. PICK fits : fits = SubSeq(more, 1, n)
    OBVIOUS
  <1>5. fits \in Seq(D) /\ Len(fits) = n /\ \A i \in 1 .. n : fits[i] = more[i]
    <2>1. \A i \in 1 .. n : more[i] \in D
      BY <1>1, <1>3
    <2>2. /\ SubSeq(more, 1, n) \in Seq(D)
          /\ Len(SubSeq(more, 1, n)) = IF 1 <= n THEN n - 1 + 1 ELSE 0
          /\ \A i \in 1 .. n - 1 + 1 : SubSeq(more, 1, n)[i] = more[1 + i - 1]
      <3>1. 1 \in Int /\ n \in Int
        BY <1>3
      <3> QED
        BY <2>1, <3>1, <1>3
    <2> QED
      BY <1>3, <1>4, <2>2
  <1>6. Offered(q, more) = q \o fits
    BY <1>2, <1>4 DEF Offered
  <1>7. /\ q \o fits \in Seq(D) /\ Len(q \o fits) = Len(q) + n
        /\ \A i \in 1 .. Len(q) + n : (q \o fits)[i] = IF i <= Len(q) THEN q[i] ELSE fits[i - Len(q)]
    BY <1>5, ConcatProperties
  <1>8. PICK all : all = Offered(q, more)
    OBVIOUS
  <1>9. all \in Seq(D) /\ Len(all) = Len(q) + n
    BY <1>6, <1>7, <1>8
  <1>10. \A i \in 1 .. Len(q) : all[i] = q[i]
    BY <1>1, <1>3, <1>6, <1>7, <1>8
  <1>11. ASSUME NEW i \in 1 .. Len(all), i > Len(q) PROVE \E j \in DOMAIN more : all[i] = more[j]
    <2>1. all[i] = fits[i - Len(q)] /\ i - Len(q) \in 1 .. n
      BY <1>1, <1>3, <1>6, <1>7, <1>8, <1>9, <1>11
    <2> QED
      BY <1>1, <1>3, <1>5, <2>1
  <1> QED
    BY <1>1, <1>3, <1>8, <1>9, <1>10, <1>11

LEMMA NewestFirstIs ==
    ASSUME NEW ps, ps \subseteq Posts, IsFiniteSet(ps)
    PROVE  NewestFirst(ps) \in Seq(ps)
  <1>1. PICK all : all = Ranked(ps)
    OBVIOUS
  <1>2. all \in Seq(ps)
    BY <1>1, PostsAssumption, RankedOf
  <1>3. NewestFirst(ps) = [i \in 1 .. Len(all) |-> all[Len(all) + 1 - i]]
    BY <1>1, <1>2 DEF NewestFirst
  <1>4. \A i \in 1 .. Len(all) : all[Len(all) + 1 - i] \in ps
    BY <1>2
  <1> QED
    BY <1>2, <1>3, <1>4

LEMMA JobsAre ==
    ASSUME NEW ps, ps \subseteq Posts, IsFiniteSet(ps), NEW card \in BOOLEAN, NEW redo \in BOOLEAN
    PROVE  Jobs(ps, card, redo) \in Seq(Job)
  <1>1. PICK some : some = {p \in ps : (card /\ Link[p] # None) \/ Linked[p] # <<>>}
    OBVIOUS
  <1>2. some \subseteq ps /\ IsFiniteSet(some)
    BY <1>1, FS_Subset
  <1>3. PICK worth : worth = NewestFirst(some)
    OBVIOUS
  <1>4. worth \in Seq(some)
    BY <1>2, <1>3, NewestFirstIs
  <1>5. Jobs(ps, card, redo) = [i \in 1 .. Len(worth) |-> [post |-> worth[i], card |-> card, redo |-> redo]]
    BY <1>1, <1>3, <1>4 DEF Jobs
  <1>6. \A i \in 1 .. Len(worth) : [post |-> worth[i], card |-> card, redo |-> redo] \in Job
    BY <1>2, <1>4 DEF Job
  <1> HIDE DEF Job
  <1> QED
    BY <1>4, <1>5, <1>6

\* The archiver is asked: rounds that have not begun come behind the others.
LEMMA AskIs ==
    ASSUME NEW q \in Seq(Round), Len(q) <= QueueMax, NEW ps, ps \subseteq Posts, IsFiniteSet(ps)
    PROVE  /\ Ask(q, ps) \in Seq(Round)
           /\ Len(Ask(q, ps)) \in Len(q) .. QueueMax
           /\ \A i \in 1 .. Len(q) : Ask(q, ps)[i] = q[i]
           /\ \A i \in 1 .. Len(Ask(q, ps)) : i > Len(q) => Ask(q, ps)[i].at = "begin"
  <1>1. PICK all : all = NewestFirst(ps)
    OBVIOUS
  <1>2. all \in Seq(ps)
    BY <1>1, NewestFirstIs
  <1>3. PICK more : more = [i \in DOMAIN all |-> [post |-> all[i], at |-> "begin", step |-> 0]]
    OBVIOUS
  <1>4. 0 \in 0 .. Retries + Polls
    BY LimitsAssumption
  <1>5. \A i \in 1 .. Len(all) : [post |-> all[i], at |-> "begin", step |-> 0] \in Round
    BY <1>2, <1>4 DEF Round
  <1>6. \A i \in DOMAIN more : more[i].at = "begin"
    BY <1>3
  <1> HIDE DEF Round
  <1>7. more \in Seq(Round)
    BY <1>2, <1>3, <1>5
  <1>8. Ask(q, ps) = Offered(q, more)
    BY <1>1, <1>3, Zenon DEF Ask
  <1> HIDE <1>1, <1>2, <1>3, <1>5
  <1>9. PICK asked : asked = Offered(q, more)
    OBVIOUS
  <1>10. /\ asked \in Seq(Round) /\ Len(asked) \in Len(q) .. QueueMax
         /\ \A i \in 1 .. Len(q) : asked[i] = q[i]
         /\ \A i \in 1 .. Len(asked) : i > Len(q) => \E j \in DOMAIN more : asked[i] = more[j]
    BY <1>7, <1>9, OfferedIs
  <1> QED
    BY <1>6, <1>8, <1>9, <1>10

-----------------------------------------------------------------------------
(* The rounds in flight.                                                   *)

\* Rounds that have not begun come behind the others.
LEMMA AskedFlight ==
    ASSUME FlightInv, rounds \in Seq(Round), rounds' \in Seq(Round), Len(rounds) <= Len(rounds'),
           \A i \in 1 .. Len(rounds) : rounds'[i] = rounds[i],
           \A i \in 1 .. Len(rounds') : i > Len(rounds) => rounds'[i].at = "begin",
           UNCHANGED <<timers, archiver, busy>>
    PROVE  FlightInv'
  <1>1. /\ DOMAIN rounds = 1 .. Len(rounds) /\ DOMAIN rounds' = 1 .. Len(rounds')
        /\ Len(rounds) \in Nat /\ Len(rounds') \in Nat
    OBVIOUS
  <1>2. ASSUME NEW i \in DOMAIN rounds', Begun(i)'
        PROVE  i \in DOMAIN rounds /\ Begun(i) /\ rounds'[i] = rounds[i]
    BY <1>1, <1>2 DEF Begun
  <1>3. ASSUME NEW i \in DOMAIN rounds, Begun(i)
        PROVE  i \in DOMAIN rounds' /\ Begun(i)' /\ rounds'[i] = rounds[i]
    BY <1>1, <1>3 DEF Begun
  <1> QED
    BY <1>2, <1>3 DEF FlightInv

\* The first of the queue is taken; it is in hand, or was not begun.
LEMMA TakenFlight ==
    ASSUME FlightInv, rounds \in Seq(Round), rounds # <<>>, archiver = Quiet, Quiet.post \notin Posts,
           rounds' = Tail(rounds), UNCHANGED timers, busy \subseteq Posts, timers \subseteq Round,
           LET r == rounds[1] IN
             \/ r.at # "begin" /\ archiver' = r /\ busy' = busy
             \/ /\ r.at = "begin" /\ r.post \notin busy
                /\ archiver' = [r EXCEPT !.at = "lookup"] /\ busy' = busy \cup {r.post}
             \/ r.at = "begin" /\ archiver' = archiver /\ busy' = busy
    PROVE  FlightInv'
  <1>1. /\ DOMAIN rounds = 1 .. Len(rounds) /\ Len(rounds) \in Nat /\ Len(rounds) > 0
        /\ Tail(rounds) \in Seq(Round) /\ Len(Tail(rounds)) = Len(rounds) - 1
        /\ \A i \in 1 .. Len(rounds) - 1 : Tail(rounds)[i] = rounds[i + 1]
    BY HeadTailProperties
  <1>2. DOMAIN rounds' = 1 .. Len(rounds) - 1
    BY <1>1
  <1>3. ASSUME NEW i \in DOMAIN rounds'
        PROVE  i + 1 \in DOMAIN rounds /\ rounds'[i] = rounds[i + 1] /\ i + 1 # 1 /\ i \in Nat
    BY <1>1, <1>2
  <1>4. ASSUME NEW j \in DOMAIN rounds, j # 1 PROVE \E i \in DOMAIN rounds' : i + 1 = j
    <2>1. j - 1 \in DOMAIN rounds' /\ j - 1 + 1 = j
      BY <1>1, <1>2, <1>4
    <2> QED
      BY <2>1
  <1>5. PICK r : r = rounds[1]
    OBVIOUS
  <1>6. r \in Round /\ 1 \in DOMAIN rounds /\ r.post \in Posts
    <2>1. r \in Round /\ 1 \in DOMAIN rounds
      BY <1>1, <1>5
    <2> QED
      BY <2>1 DEF Round
  <1> HIDE <1>1, <1>2
  <1>7. CASE r.at # "begin" /\ archiver' = r /\ busy' = busy
    <2>1. ASSUME NEW i \in DOMAIN rounds', Begun(i)'
          PROVE  rounds'[i].post \in busy' /\ rounds'[i].post # archiver'.post
      BY <1>3, <1>5, <1>6, <1>7, <2>1 DEF FlightInv, Begun
    <2>2. ASSUME NEW i \in DOMAIN rounds', NEW j \in DOMAIN rounds', Begun(i)', Begun(j)',
                 rounds'[i].post = rounds'[j].post
          PROVE  i = j
      <3>1. i + 1 = j + 1
        BY <1>3, <2>2 DEF FlightInv, Begun
      <3> QED
        BY <1>3, <3>1
    <2>3. ASSUME NEW i \in DOMAIN rounds', NEW s \in timers', Begun(i)' PROVE rounds'[i].post # s.post
      BY <1>3, <2>3 DEF FlightInv, Begun
    <2>4. \A s \in timers' : s.at # "begin" /\ s.post \in busy' /\ s.post # archiver'.post
      BY <1>5, <1>6, <1>7 DEF FlightInv, Begun
    <2>5. \A s, t \in timers' : s.post = t.post => s = t
      BY DEF FlightInv
    <2>6. archiver'.at # "begin" /\ archiver'.post \in busy'
      BY <1>5, <1>6, <1>7 DEF FlightInv, Begun
    <2>7. ASSUME NEW p \in busy'
          PROVE  \/ archiver'.post = p \/ \E s \in timers' : s.post = p
                 \/ \E i \in DOMAIN rounds' : Begun(i)' /\ rounds'[i].post = p
      <3>1. CASE \E s \in timers : s.post = p
        BY <3>1
      <3>2. CASE \E j \in DOMAIN rounds : Begun(j) /\ rounds[j].post = p
        <4>1. PICK j \in DOMAIN rounds : Begun(j) /\ rounds[j].post = p
          BY <3>2
        <4>2. CASE j = 1
          BY <1>5, <1>7, <4>1, <4>2
        <4>3. CASE j # 1
          BY <1>3, <1>4, <4>1, <4>3 DEF Begun
        <4> QED
          BY <4>2, <4>3
      <3> QED
        BY <1>7, <3>1, <3>2 DEF FlightInv
    <2> QED
      BY <2>1, <2>2, <2>3, <2>4, <2>5, <2>6, <2>7 DEF FlightInv
  <1>8. CASE r.at = "begin"
    <2>0. \/ archiver' = Quiet /\ busy' = busy
          \/ /\ archiver'.post = r.post /\ archiver'.at = "lookup" /\ busy' = busy \cup {r.post}
             /\ r.post \notin busy
      <3>1. [r EXCEPT !.at = "lookup"].post = r.post /\ [r EXCEPT !.at = "lookup"].at = "lookup"
        BY <1>6 DEF Round
      <3> QED
        BY <1>5, <1>8, <3>1
    <2>1. ASSUME NEW i \in DOMAIN rounds', Begun(i)'
          PROVE  rounds'[i].post \in busy' /\ rounds'[i].post # archiver'.post
      <3>1. rounds'[i].post \in busy /\ rounds'[i].post \in Posts
        BY <1>3, <2>1 DEF FlightInv, Begun
      <3> QED
        BY <2>0, <3>1
    <2>2. ASSUME NEW i \in DOMAIN rounds', NEW j \in DOMAIN rounds', Begun(i)', Begun(j)',
                 rounds'[i].post = rounds'[j].post
          PROVE  i = j
      <3>1. i + 1 = j + 1
        BY <1>3, <2>2 DEF FlightInv, Begun
      <3> QED
        BY <1>3, <3>1
    <2>3. ASSUME NEW i \in DOMAIN rounds', NEW s \in timers', Begun(i)' PROVE rounds'[i].post # s.post
      BY <1>3, <2>3 DEF FlightInv, Begun
    <2>4. \A s \in timers' : s.at # "begin" /\ s.post \in busy' /\ s.post # archiver'.post
      <3>1. \A s \in timers : s.at # "begin" /\ s.post \in busy /\ s.post \in Posts
        BY DEF FlightInv
      <3> QED
        BY <2>0, <3>1
    <2>5. \A s, t \in timers' : s.post = t.post => s = t
      BY DEF FlightInv
    <2>6. archiver' # Quiet => archiver'.at # "begin" /\ archiver'.post \in busy'
      BY <2>0
    <2>7. ASSUME NEW p \in busy'
          PROVE  \/ archiver'.post = p \/ \E s \in timers' : s.post = p
                 \/ \E i \in DOMAIN rounds' : Begun(i)' /\ rounds'[i].post = p
      <3>1. CASE p \notin busy
        BY <2>0, <2>7, <3>1
      <3>2. CASE p \in busy
        <4>1. archiver.post # p
          BY <3>2
        <4>2. CASE \E s \in timers : s.post = p
          BY <4>2
        <4>3. CASE \E j \in DOMAIN rounds : Begun(j) /\ rounds[j].post = p
          <5>1. PICK j \in DOMAIN rounds : Begun(j) /\ rounds[j].post = p
            BY <4>3
          <5>2. j # 1
            BY <1>5, <1>8, <5>1 DEF Begun
          <5> QED
            BY <1>3, <1>4, <5>1, <5>2 DEF Begun
        <4> QED
          BY <3>2, <4>1, <4>2, <4>3 DEF FlightInv
      <3> QED
        BY <3>1, <3>2
    <2> QED
      BY <2>1, <2>2, <2>3, <2>4, <2>5, <2>6, <2>7 DEF FlightInv
  <1> QED
    BY <1>5, <1>7, <1>8

\* The round in hand waits for its next step.
LEMMA LaterFlight ==
    ASSUME FlightInv, archiver # Quiet, NEW r, r.post = archiver.post, r.at # "begin",
           archiver' = Quiet, timers' = timers \cup {r}, UNCHANGED <<rounds, busy>>,
           busy \subseteq Posts, Quiet.post \notin Posts
    PROVE  FlightInv'
  <1>1. \A i : Begun(i)' <=> Begun(i)
    BY DEF Begun
  <1>2. /\ \A s \in timers' : s.at # "begin" /\ s.post \in busy' /\ s.post # archiver'.post
        /\ \A s, t \in timers' : s.post = t.post => s = t
    BY DEF FlightInv
  <1>3. \A i \in DOMAIN rounds' : Begun(i)' =>
            /\ rounds'[i].post \in busy' /\ rounds'[i].post # archiver'.post
            /\ \A s \in timers' : rounds'[i].post # s.post
    BY <1>1 DEF FlightInv
  <1>4. \A i, j \in DOMAIN rounds' : Begun(i)' /\ Begun(j)' /\ rounds'[i].post = rounds'[j].post => i = j
    BY <1>1 DEF FlightInv
  <1>5. \A p \in busy' : \/ \E s \in timers' : s.post = p
                        \/ \E i \in DOMAIN rounds' : Begun(i)' /\ rounds'[i].post = p
    BY <1>1 DEF FlightInv
  <1> QED
    BY <1>2, <1>3, <1>4, <1>5 DEF FlightInv

\* The round in hand is over.
LEMMA OverFlight ==
    ASSUME FlightInv, archiver' = Quiet, busy' = busy \ {archiver.post},
           UNCHANGED <<rounds, timers>>, busy \subseteq Posts, Quiet.post \notin Posts
    PROVE  FlightInv'
  <1>1. \A i : Begun(i)' <=> Begun(i)
    BY DEF Begun
  <1>2. /\ \A s \in timers' : s.at # "begin" /\ s.post \in busy' /\ s.post # archiver'.post
        /\ \A s, t \in timers' : s.post = t.post => s = t
    BY DEF FlightInv
  <1>3. \A i \in DOMAIN rounds' : Begun(i)' =>
            /\ rounds'[i].post \in busy' /\ rounds'[i].post # archiver'.post
            /\ \A s \in timers' : rounds'[i].post # s.post
    BY <1>1 DEF FlightInv
  <1>4. \A i, j \in DOMAIN rounds' : Begun(i)' /\ Begun(j)' /\ rounds'[i].post = rounds'[j].post => i = j
    BY <1>1 DEF FlightInv
  <1>5. \A p \in busy' : \/ \E s \in timers' : s.post = p
                        \/ \E i \in DOMAIN rounds' : Begun(i)' /\ rounds'[i].post = p
    BY <1>1 DEF FlightInv
  <1> QED
    BY <1>2, <1>3, <1>4, <1>5 DEF FlightInv

\* A timer's round comes back into the queue.
LEMMA DueFlight ==
    ASSUME FlightInv, rounds \in Seq(Round), NEW r \in timers, r \in Round,
           timers' = timers \ {r}, rounds' = Append(rounds, r), UNCHANGED <<archiver, busy>>
    PROVE  FlightInv'
  <1>1. /\ DOMAIN rounds = 1 .. Len(rounds) /\ Len(rounds) \in Nat
        /\ DOMAIN rounds' = 1 .. Len(rounds) + 1 /\ rounds'[Len(rounds) + 1] = r
        /\ \A i \in 1 .. Len(rounds) : rounds'[i] = rounds[i]
    OBVIOUS
  <1>2. PICK n : n = Len(rounds) + 1
    OBVIOUS
  <1>3. /\ n \in DOMAIN rounds' /\ n \notin DOMAIN rounds /\ rounds'[n] = r
        /\ \A i \in DOMAIN rounds' : i # n => i \in DOMAIN rounds
        /\ \A i \in DOMAIN rounds : i \in DOMAIN rounds' /\ rounds'[i] = rounds[i] /\ i # n
    BY <1>1, <1>2
  <1> HIDE <1>1, <1>2
  <1>4. \A i \in DOMAIN rounds' : IF i = n THEN Begun(i)' /\ rounds'[i] = r
                                 ELSE i \in DOMAIN rounds /\ rounds'[i] = rounds[i] /\ (Begun(i)' => Begun(i))
    BY <1>3 DEF FlightInv, Begun
  <1>5. \A s \in timers' : s.at # "begin" /\ s.post \in busy' /\ s.post # archiver'.post
    BY DEF FlightInv
  <1>6. \A s, t \in timers' : s.post = t.post => s = t
    BY DEF FlightInv
  <1>7. \A i \in DOMAIN rounds' : Begun(i)' => rounds'[i].post \in busy' /\ rounds'[i].post # archiver'.post
    BY <1>4 DEF FlightInv
  <1>8. \A i \in DOMAIN rounds', s \in timers' : Begun(i)' => rounds'[i].post # s.post
    BY <1>4 DEF FlightInv
  <1>9. \A i, j \in DOMAIN rounds' : Begun(i)' /\ Begun(j)' /\ rounds'[i].post = rounds'[j].post => i = j
    BY <1>4 DEF FlightInv
  <1>10. ASSUME NEW p \in busy'
         PROVE  \/ archiver'.post = p \/ \E s \in timers' : s.post = p
                \/ \E i \in DOMAIN rounds' : Begun(i)' /\ rounds'[i].post = p
    <2>1. CASE \E s \in timers : s.post = p
      BY <1>3, <1>4, <2>1
    <2>2. CASE \E i \in DOMAIN rounds : Begun(i) /\ rounds[i].post = p
      BY <1>3, <2>2 DEF Begun
    <2> QED
      BY <2>1, <2>2 DEF FlightInv
  <1> QED
    BY <1>5, <1>6, <1>7, <1>8, <1>9, <1>10 DEF FlightInv

\* A set in which no two differ has a member at most.
LEMMA AtMostOne ==
    ASSUME NEW S, \A x, y \in S : x = y
    PROVE  Cardinality(S) = IF S = {} THEN 0 ELSE 1
  <1>1. CASE S = {}
    BY <1>1, FS_EmptySet
  <1>2. CASE S # {}
    <2>1. PICK x : x \in S
      BY <1>2
    <2>2. S = {x}
      BY <2>1
    <2>3. Cardinality(S) = 1
      BY <2>2, FS_Singleton
    <2> QED
      BY <1>2, <2>3
  <1> QED
    BY <1>1, <1>2

\* The counts.
LEMMA FlightCounts ==
    ASSUME FlightInv, busy \subseteq Posts, timers \subseteq Round, archiver \in Round \cup {Quiet},
           Quiet.post \notin Posts
    PROVE  OneRound
  <1> SUFFICES ASSUME NEW p \in Posts
               PROVE  Cardinality({i \in DOMAIN rounds : rounds[i].post = p /\ rounds[i].at # "begin"})
                      + Cardinality({r \in timers : r.post = p})
                      + (IF archiver.post = p THEN 1 ELSE 0)
                      = (IF p \in busy THEN 1 ELSE 0)
    BY DEF OneRound
  <1>1. PICK I, T : /\ I = {i \in DOMAIN rounds : rounds[i].post = p /\ rounds[i].at # "begin"}
                    /\ T = {r \in timers : r.post = p}
    OBVIOUS
  <1>2. (\A i, j \in I : i = j) /\ (\A r, s \in T : r = s)
    BY <1>1 DEF FlightInv, Begun
  <1>3. Cardinality(I) = (IF I = {} THEN 0 ELSE 1) /\ Cardinality(T) = (IF T = {} THEN 0 ELSE 1)
    BY <1>2, AtMostOne
  <1>4. /\ I # {} => p \in busy /\ T = {} /\ archiver.post # p
        /\ T # {} => p \in busy /\ archiver.post # p
        /\ archiver.post = p => p \in busy
        /\ p \in busy => I # {} \/ T # {} \/ archiver.post = p
    <2>1. I # {} => p \in busy /\ T = {} /\ archiver.post # p
      BY <1>1 DEF FlightInv, Begun
    <2>2. T # {} => p \in busy /\ archiver.post # p
      BY <1>1 DEF FlightInv
    <2>3. archiver.post = p => p \in busy
      BY DEF FlightInv
    <2>4. p \in busy => I # {} \/ T # {} \/ archiver.post = p
      BY <1>1 DEF FlightInv, Begun
    <2> QED
      BY <2>1, <2>2, <2>3, <2>4
  <1>5. Cardinality(I) + Cardinality(T) + (IF archiver.post = p THEN 1 ELSE 0) = (IF p \in busy THEN 1 ELSE 0)
    BY <1>3, <1>4
  <1> QED
    BY <1>1, <1>5

-----------------------------------------------------------------------------
(* The steps.                                                              *)

LEMMA QuietPost == Quiet.post \notin Posts /\ Quiet.post = None
  BY PostsAssumption DEF Quiet

LEMMA IdleWorker == Idle \in Worker /\ Idle.pc = "idle" /\ Idle.todo = <<>>
  <1>1. <<>> \in Seq([link : Pictures, tries : 0 .. PictureTries])
    OBVIOUS
  <1> QED
    BY <1>1 DEF Idle, Worker

LEMMA NoRows == NoCard \in Card /\ Untried \in Picture
  <1>1. ArchiveTries \in Nat /\ PictureTries \in Nat
    BY LimitsAssumption
  <1> QED
    BY <1>1 DEF NoCard, Card, Untried, Picture

LEMMA InitC == Init => CInv
  <1> SUFFICES ASSUME Init PROVE CInv
    OBVIOUS
  <1>1. HereInv
    BY FS_EmptySet, LimitsAssumption DEF Init, HereInv
  <1>2. TablesInv
    BY NoRows DEF Init, TablesInv
  <1>3. DeriveInv
    <2>1. queue = <<>> /\ worker = Idle /\ backfilled = FALSE
      BY DEF Init
    <2>2. queue \in Seq(Job) /\ Len(queue) = 0
      BY <2>1
    <2>3. WorkerInv
      BY <2>1, IdleWorker DEF WorkerInv
    <2> QED
      <3>1. Len(queue) <= QueueMax
        BY <2>2, LimitsAssumption
      <3> QED
        BY <2>1, <2>2, <2>3, <3>1, IdleWorker DEF DeriveInv
  <1>4. ArchiveInv
    <2>1. rounds = <<>> /\ timers = {} /\ archiver = Quiet /\ busy = {}
      BY DEF Init
    <2>2. rounds \in Seq(Round) /\ Len(rounds) = 0 /\ DOMAIN rounds = {}
      BY <2>1
    <2>3. FlightInv
      BY <2>1, <2>2 DEF FlightInv
    <2> QED
      BY <2>1, <2>2, <2>3, LimitsAssumption DEF ArchiveInv
  <1> QED
    BY <1>1, <1>2, <1>3, <1>4 DEF CInv

LEMMA SameC ==
    ASSUME CInv
    PROVE  /\ UNCHANGED <<held, gone, starts>> => HereInv'
           /\ UNCHANGED <<cards, pictures>> => TablesInv'
           /\ UNCHANGED <<queue, worker, backfilled>> => DeriveInv'
           /\ UNCHANGED <<rounds, timers, archiver, busy>> => ArchiveInv'
  <1>1. UNCHANGED <<rounds, timers, archiver, busy>> => FlightInv'
    BY DEF CInv, ArchiveInv, FlightInv, Begun
  <1> QED
    BY <1>1 DEF CInv, HereInv, TablesInv, DeriveInv, WorkerInv, ArchiveInv

\* Jobs come to the worker, none is taken.
LEMMA QueuedC ==
    ASSUME CInv, NEW jobs \in Seq(Job), queue' = Offered(queue, jobs), worker' = worker, backfilled' \in BOOLEAN
    PROVE  DeriveInv'
  <1>1. queue \in Seq(Job) /\ Len(queue) <= QueueMax
    BY DEF CInv, DeriveInv
  <1>2. Offered(queue, jobs) \in Seq(Job) /\ Len(Offered(queue, jobs)) \in Len(queue) .. QueueMax
    BY <1>1, OfferedIs
  <1>3. queue' \in Seq(Job) /\ Len(queue') <= QueueMax
    BY <1>1, <1>2
  <1> QED
    BY <1>3 DEF CInv, DeriveInv, WorkerInv

\* The archiver is asked.
LEMMA AskedC ==
    ASSUME CInv, NEW ps, ps \subseteq Posts, IsFiniteSet(ps), rounds' = Ask(rounds, ps),
           UNCHANGED <<timers, archiver, busy>>
    PROVE  ArchiveInv'
  <1>1. rounds \in Seq(Round) /\ Len(rounds) <= QueueMax /\ FlightInv
    BY DEF CInv, ArchiveInv
  <1>2. /\ rounds' \in Seq(Round) /\ Len(rounds') \in Len(rounds) .. QueueMax
        /\ \A i \in 1 .. Len(rounds) : rounds'[i] = rounds[i]
        /\ \A i \in 1 .. Len(rounds') : i > Len(rounds) => rounds'[i].at = "begin"
    BY <1>1, AskIs
  <1>3. Len(rounds) <= Len(rounds') /\ Len(rounds') <= QueueMax
    BY <1>1, <1>2
  <1>4. FlightInv'
    BY <1>1, <1>2, <1>3, AskedFlight
  <1> QED
    BY <1>2, <1>3, <1>4 DEF CInv, ArchiveInv

LEMMA HeldFinite == ASSUME CInv, NEW ps, ps \subseteq held PROVE ps \subseteq Posts /\ IsFiniteSet(ps)
  BY FS_Subset DEF CInv, HereInv

LEMMA PostsC ==
    ASSUME CInv, NEW p \in Posts, Create(p) \/ Delete(p)
    PROVE  CInv'
  <1>1. CASE Create(p)
    <2>1. HereInv'
      <3>1. IsFiniteSet(held \cup {p})
        BY FS_AddElement DEF CInv, HereInv
      <3> QED
        BY <1>1, <3>1 DEF Create, CInv, HereInv
    <2>2. Jobs({p}, p \in Bare, FALSE) \in Seq(Job)
      <3>1. (p \in Bare) \in BOOLEAN
        OBVIOUS
      <3>2. {p} \subseteq Posts /\ IsFiniteSet({p})
        BY FS_Singleton
      <3> QED
        BY <3>1, <3>2, JobsAre, Zenon
    <2>3. queue' = Offered(queue, Jobs({p}, p \in Bare, FALSE)) /\ worker' = worker /\ backfilled' = backfilled
      BY <1>1 DEF Create
    <2>4. DeriveInv'
      <3>1. backfilled' \in BOOLEAN
        BY <2>3 DEF CInv, DeriveInv
      <3> QED
        BY <2>2, <2>3, <3>1, QueuedC
    <2> QED
      BY <1>1, <2>1, <2>4, SameC DEF Create, CInv, derived, archiving
  <1>2. CASE Delete(p)
    <2>1. HereInv'
      <3>1. IsFiniteSet(held \ {p})
        BY FS_RemoveElement DEF CInv, HereInv
      <3> QED
        BY <1>2, <3>1 DEF Delete, CInv, HereInv
    <2>2. cards' \in [Posts -> Card]
      BY <1>2, NoRows DEF Delete, CInv, TablesInv
    <2>3. pictures' \in [Posts -> [Pictures -> Picture]]
      <3>1. [l \in Pictures |-> Untried] \in [Pictures -> Picture]
        BY NoRows
      <3> QED
        BY <1>2, <3>1 DEF Delete, CInv, TablesInv
    <2> QED
      BY <1>2, <2>1, <2>2, <2>3, SameC DEF Delete, CInv, TablesInv, deriving, archiving
  <1> QED
    BY <1>1, <1>2

LEMMA HoursC ==
    ASSUME CInv, NEW p \in Posts
    PROVE  /\ HourOfCard(p) => CInv'
           /\ \A l \in Pictures : HourOfPicture(p, l) => CInv'
  <1>1. cards[p] \in Card /\ \A l \in Pictures : pictures[p][l] \in Picture
    BY DEF CInv, TablesInv
  <1>2. ASSUME HourOfCard(p) PROVE CInv'
    <2>1. PICK card : card = [cards[p] EXCEPT !.rested = TRUE]
      OBVIOUS
    <2>2. card \in Card
      BY <1>1, <2>1 DEF Card
    <2>3. cards' = [cards EXCEPT ![p] = card]
      BY <1>2, <2>1 DEF HourOfCard
    <2>4. TablesInv'
      BY <1>2, <2>2, <2>3 DEF HourOfCard, CInv, TablesInv
    <2> QED
      BY <1>2, <2>4, SameC DEF HourOfCard, CInv, deriving, archiving
  <1>3. ASSUME NEW l \in Pictures, HourOfPicture(p, l) PROVE CInv'
    <2>1. PICK picture : picture = [pictures[p][l] EXCEPT !.rested = TRUE]
      OBVIOUS
    <2>2. picture \in Picture
      BY <1>1, <2>1 DEF Picture
    <2>3. pictures' = [pictures EXCEPT ![p] = [pictures[p] EXCEPT ![l] = picture]]
      BY <1>3, <2>1 DEF HourOfPicture
    <2>4. pictures' \in [Posts -> [Pictures -> Picture]]
      <3>1. pictures \in [Posts -> [Pictures -> Picture]]
        BY DEF CInv, TablesInv
      <3>2. [pictures[p] EXCEPT ![l] = picture] \in [Pictures -> Picture]
        BY <2>2, <3>1
      <3> QED
        BY <2>3, <3>1, <3>2
    <2>5. TablesInv'
      BY <1>3, <2>4 DEF HourOfPicture, CInv, TablesInv
    <2> QED
      BY <1>3, <2>5, SameC DEF HourOfPicture, CInv, deriving, archiving
  <1> QED
    BY <1>2, <1>3

LEMMA SweepsC ==
    ASSUME CInv, Backfill \/ Sweep
    PROVE  CInv'
  <1>1. WithoutCards \subseteq held /\ Quotable \subseteq held /\ WithoutPictures \subseteq held /\ ToSweep \subseteq held
    BY DEF WithoutCards, Quotable, WithoutPictures, ToSweep
  <1>2. \A ps : Newest(ps) \subseteq ps
    BY DEF Newest
  <1>3. /\ Jobs(Newest(WithoutCards), TRUE, FALSE) \in Seq(Job) /\ Jobs(Quotable, TRUE, TRUE) \in Seq(Job)
        /\ Jobs(Newest(WithoutPictures), FALSE, FALSE) \in Seq(Job)
        /\ Jobs(Newest(ToSweep), FALSE, FALSE) \in Seq(Job)
    <2>1. \A ps \in {Newest(WithoutCards), Quotable, Newest(WithoutPictures), Newest(ToSweep)} :
              ps \subseteq Posts /\ IsFiniteSet(ps)
      BY <1>1, <1>2, HeldFinite
    <2> QED
      BY <2>1, JobsAre
  <1>4. \E jobs \in Seq(Job) : queue' = Offered(queue, jobs)
    <2>1. CASE Backfill
      <3>1. Jobs(Newest(WithoutCards), TRUE, FALSE) \o Jobs(Quotable, TRUE, TRUE)
            \o Jobs(Newest(WithoutPictures), FALSE, FALSE) \in Seq(Job)
        <4>1. PICK a, b, c : /\ a = Jobs(Newest(WithoutCards), TRUE, FALSE) /\ b = Jobs(Quotable, TRUE, TRUE)
                             /\ c = Jobs(Newest(WithoutPictures), FALSE, FALSE)
          OBVIOUS
        <4>2. a \in Seq(Job) /\ b \in Seq(Job) /\ c \in Seq(Job)
          BY <1>3, <4>1
        <4>3. a \o b \o c \in Seq(Job)
          BY <4>2, ConcatProperties
        <4> QED
          BY <4>1, <4>3
      <3> QED
        BY <2>1, <3>1 DEF Backfill
    <2>2. CASE Sweep
      BY <1>3, <2>2 DEF Sweep
    <2> QED
      BY <2>1, <2>2
  <1>5. backfilled' \in BOOLEAN /\ worker' = worker
    BY DEF Backfill, Sweep, CInv, DeriveInv
  <1>6. DeriveInv'
    BY <1>4, <1>5, QueuedC
  <1> QED
    BY <1>6, SameC DEF Backfill, Sweep, CInv, derived, archiving

\* The worker's steps.
LEMMA WorkC ==
    ASSUME CInv
    PROVE  /\ Take => CInv'
           /\ DeriveCard => CInv'
           /\ StoreCard => CInv'
  <1>1. /\ worker \in Worker /\ WorkerInv /\ queue \in Seq(Job) /\ Len(queue) <= QueueMax
        /\ held \subseteq Posts /\ backfilled \in BOOLEAN
    BY DEF CInv, HereInv, DeriveInv
  <1>2. ASSUME Take PROVE CInv'
    <2>1. Head(queue) \in Job /\ Tail(queue) \in Seq(Job) /\ Len(Tail(queue)) <= QueueMax
      BY <1>1, <1>2, HeadTailProperties, LimitsAssumption DEF Take
    <2>2. PICK post, pc : /\ post = Head(queue).post /\ pc \in {"card", "tries"}
                          /\ worker' = [Idle EXCEPT !.post = post, !.pc = pc]
      BY <1>2 DEF Take
    <2>3. post \in Posts
      BY <2>1, <2>2 DEF Job
    <2>4. PICK w : w = [Idle EXCEPT !.post = post, !.pc = pc]
      OBVIOUS
    <2>5. w \in Worker /\ w.post = post /\ w.pc = pc /\ w.todo = <<>>
      BY <2>2, <2>3, <2>4, IdleWorker DEF Worker
    <2>6. worker' = w /\ queue' = Tail(queue) /\ backfilled' = backfilled
      BY <1>2, <2>2, <2>4 DEF Take
    <2>7. DeriveInv'
      <3>0. /\ worker'.pc # "pictures" /\ worker'.post \in Posts
            /\ worker'.todo = <<>> /\ DOMAIN <<>> = {}
        <4>1. w.pc # "pictures"
          BY <2>2, <2>5
        <4> QED
          BY <2>3, <2>5, <2>6, <4>1
      <3>1. WorkerInv'
        BY <3>0 DEF WorkerInv
      <3> QED
        BY <1>1, <2>1, <2>5, <2>6, <3>1 DEF DeriveInv
    <2> QED
      BY <1>2, <2>7, SameC DEF Take, CInv, derived, archiving
  <1>3. ASSUME DeriveCard PROVE CInv'
    <2>1. worker.pc = "card" /\ worker.post \in Posts
      BY <1>1, <1>3 DEF DeriveCard, WorkerInv
    <2>2. \E found \in {"ok", "failed"}, quote \in Posts \cup {None} :
             worker' = [worker EXCEPT !.pc = "store", !.found = found, !.quote = quote]
      <3>1. CASE Link[worker.post] \in held
        BY <1>1, <1>3, <3>1 DEF DeriveCard
      <3>2. CASE Link[worker.post] \notin held
        <4>1. PICK found \in {"ok", "failed"} : worker' = [worker EXCEPT !.pc = "store", !.found = found]
          BY <1>3, <3>2 DEF DeriveCard, Fetch
        <4>2. worker.quote \in Posts \cup {None}
          BY <1>1 DEF Worker
        <4>3. worker' = [worker EXCEPT !.pc = "store", !.found = found, !.quote = worker.quote]
          BY <1>1, <4>1 DEF Worker
        <4> QED
          BY <4>2, <4>3
      <3> QED
        BY <3>1, <3>2
    <2>3. PICK w : /\ worker' = w
                   /\ w \in Worker /\ w.post = worker.post /\ w.pc = "store" /\ w.todo = worker.todo
      <3>0. PICK found \in {"ok", "failed"}, quote \in Posts \cup {None} :
               worker' = [worker EXCEPT !.pc = "store", !.found = found, !.quote = quote]
        BY <2>2
      <3>1. PICK w : /\ worker' = w
                     /\ w = [worker EXCEPT !.pc = "store", !.found = found, !.quote = quote]
        BY <3>0
      <3>2. w \in Worker /\ w.post = worker.post /\ w.pc = "store" /\ w.todo = worker.todo
        BY <1>1, <3>1 DEF Worker
      <3> QED
        BY <3>1, <3>2
    <2>4. queue' = queue /\ backfilled' = backfilled
      BY <1>3 DEF DeriveCard
    <2>5. DeriveInv'
      BY <1>1, <2>1, <2>3, <2>4 DEF DeriveInv, WorkerInv
    <2> QED
      BY <1>3, <2>5, SameC DEF DeriveCard, CInv, derived, archiving
  <1>4. ASSUME StoreCard PROVE CInv'
    <2>1. worker.pc = "store" /\ worker.post \in Posts
      BY <1>1, <1>4 DEF StoreCard, WorkerInv
    <2>2. PICK w : w = [worker EXCEPT !.pc = "tries", !.found = "none", !.quote = None]
      OBVIOUS
    <2>3. w \in Worker /\ w.post = worker.post /\ w.pc = "tries" /\ w.todo = worker.todo
      BY <1>1, <2>2 DEF Worker
    <2>4. worker' = w /\ queue' = queue /\ backfilled' = backfilled
      BY <1>4, <2>2 DEF StoreCard
    <2>5. DeriveInv'
      BY <1>1, <2>1, <2>3, <2>4 DEF DeriveInv, WorkerInv
    <2>6. TablesInv'
      <3>1. PICK card : card = [NoCard EXCEPT !.status = worker.found, !.quote = worker.quote]
        OBVIOUS
      <3>2. worker.found \in {"none", "ok", "failed"} /\ worker.quote \in Posts \cup {None}
        BY <1>1 DEF Worker
      <3>3. card \in Card
        BY <3>1, <3>2, NoRows DEF Card
      <3>4. cards' = [cards EXCEPT ![worker.post] = card] /\ pictures' = pictures
        BY <1>4, <3>1 DEF StoreCard
      <3> QED
        BY <2>1, <3>3, <3>4 DEF CInv, TablesInv
    <2>7. ArchiveInv'
      <3>1. UNCHANGED <<timers, archiver, busy>>
        BY <1>4 DEF StoreCard
      <3>2. CASE rounds' = rounds
        BY <3>1, <3>2, SameC
      <3>3. CASE rounds' = Ask(rounds, {worker.post})
        <4>1. {worker.post} \subseteq Posts /\ IsFiniteSet({worker.post})
          BY <2>1, FS_Singleton
        <4> QED
          BY <3>1, <3>3, <4>1, AskedC
      <3> QED
        BY <1>4, <3>2, <3>3 DEF StoreCard
    <2> QED
      BY <1>4, <2>5, <2>6, <2>7, SameC DEF StoreCard, CInv
  <1> QED
    BY <1>2, <1>3, <1>4

LEMMA PicturesC ==
    ASSUME CInv
    PROVE  /\ ReadTries => CInv'
           /\ TryPicture => CInv'
  <1> DEFINE Todo == [link : Pictures, tries : 0 .. PictureTries]
  <1>1. /\ worker \in Worker /\ WorkerInv /\ queue \in Seq(Job) /\ Len(queue) <= QueueMax
        /\ pictures \in [Posts -> [Pictures -> Picture]] /\ backfilled \in BOOLEAN
    BY DEF CInv, TablesInv, DeriveInv
  <1>2. worker.todo \in Seq(Todo)
    BY <1>1 DEF Worker
  <1>3. ASSUME ReadTries PROVE CInv'
    <2>1. worker.pc = "tries" /\ worker.post \in Posts
      BY <1>1, <1>3 DEF ReadTries, WorkerInv
    <2>2. PICK all, row : all = Linked[worker.post] /\ row = pictures[worker.post]
      OBVIOUS
    <2>3. all \in Seq(Pictures) /\ row \in [Pictures -> Picture]
      BY <1>1, <2>1, <2>2, LinksAssumption
    <2>4. PICK K : K = {i \in DOMAIN all : row[all[i]].status # "ok" /\ row[all[i]].tries < PictureTries}
      OBVIOUS
    <2>5. PICK left : left = Picked(all, K)
      OBVIOUS
    <2>6. left \in Seq(Pictures) /\ \A n \in DOMAIN left : row[left[n]].tries < PictureTries
      <3>1. K \subseteq DOMAIN all /\ \A i \in K : row[all[i]].tries < PictureTries
        BY <2>4
      <3>2. left \in Seq(Pictures) /\ \A n \in DOMAIN left : \E i \in K : left[n] = all[i]
        BY <2>3, <2>5, <3>1, PickedOf
      <3> QED
        BY <3>1, <3>2
    <2>7. PICK todo : todo = [i \in DOMAIN left |-> [link |-> left[i], tries |-> row[left[i]].tries]]
      OBVIOUS
    <2>8. worker' = IF left = <<>> THEN Idle ELSE [worker EXCEPT !.pc = "pictures", !.todo = todo]
      BY <1>3, <2>2, <2>4, <2>5, <2>7 DEF ReadTries
    <2>9. queue' = queue /\ backfilled' = backfilled
      BY <1>3 DEF ReadTries
    <2>10. CASE left = <<>>
      <3>1. WorkerInv' /\ worker' \in Worker
        BY <2>8, <2>10, IdleWorker DEF WorkerInv
      <3>2. DeriveInv'
        BY <1>1, <2>9, <3>1 DEF DeriveInv
      <3> QED
        BY <1>3, <3>2, SameC DEF ReadTries, CInv, derived, archiving
    <2>11. CASE left # <<>>
      <3>1. todo \in Seq(Todo) /\ todo # <<>> /\ \A i \in DOMAIN todo : todo[i].tries < PictureTries
        <4>1. DOMAIN left = 1 .. Len(left) /\ Len(left) \in Nat /\ Len(left) > 0
          BY <2>6, <2>11
        <4>2. ASSUME NEW i \in 1 .. Len(left)
              PROVE  [link |-> left[i], tries |-> row[left[i]].tries] \in Todo
          <5>1. left[i] \in Pictures /\ row[left[i]] \in Picture
            BY <2>3, <2>6, <4>1
          <5> QED
            BY <5>1 DEF Picture
        <4>3. \A i \in DOMAIN todo : i \in DOMAIN left /\ todo[i].tries = row[left[i]].tries
          BY <2>7
        <4> HIDE DEF Todo
        <4>4. todo = [i \in 1 .. Len(left) |-> [link |-> left[i], tries |-> row[left[i]].tries]]
          BY <2>7, <4>1
        <4>5. todo \in Seq(Todo) /\ Len(todo) = Len(left)
          BY <4>1, <4>2, <4>4
        <4>6. todo # <<>>
          BY <4>1, <4>5
        <4> QED
          BY <2>6, <4>3, <4>5, <4>6
      <3>2. PICK w : w = [worker EXCEPT !.pc = "pictures", !.todo = todo]
        OBVIOUS
      <3>3. w \in Worker /\ w.post = worker.post /\ w.pc = "pictures" /\ w.todo = todo
        BY <1>1, <3>1, <3>2 DEF Worker
      <3>4. worker' = w
        BY <2>8, <2>11, <3>2
      <3>5. WorkerInv'
        BY <2>1, <3>1, <3>3, <3>4 DEF WorkerInv
      <3>6. DeriveInv'
        BY <1>1, <2>9, <3>3, <3>4, <3>5 DEF DeriveInv
      <3> QED
        BY <1>3, <3>6, SameC DEF ReadTries, CInv, derived, archiving
    <2> QED
      BY <2>10, <2>11
  <1>4. ASSUME TryPicture PROVE CInv'
    <2>1. worker.pc = "pictures" /\ worker.post \in Posts /\ worker.todo # <<>>
      BY <1>1, <1>4 DEF TryPicture, WorkerInv
    <2>2. PICK todo : todo = worker.todo
      OBVIOUS
    <2>3. /\ todo \in Seq(Todo) /\ todo # <<>> /\ Len(todo) \in Nat /\ Len(todo) > 0
          /\ \A i \in 1 .. Len(todo) : todo[i].tries < PictureTries
      BY <1>1, <1>2, <2>1, <2>2 DEF WorkerInv
    <2>4. PICK try : try = Head(todo)
      OBVIOUS
    <2>5. try \in Todo /\ try.tries < PictureTries /\ try.link \in Pictures
      <3>1. try = todo[1] /\ 1 \in 1 .. Len(todo)
        BY <2>3, <2>4
      <3>2. try \in Todo /\ try.tries < PictureTries
        <4> HIDE DEF Todo
        <4> QED
          BY <2>3, <3>1
      <3> QED
        BY <3>2
    <2>6. PICK found \in {"ok", "silent", "other"} :
             pictures' = [pictures EXCEPT ![worker.post][try.link] = Tried(try.tries, found)]
      BY <1>4, <2>2, <2>4 DEF TryPicture
    <2>7. Tried(try.tries, found) \in Picture
      <3>1. try.tries + 1 \in 0 .. PictureTries /\ PictureTries \in 0 .. PictureTries
        BY <2>5, LimitsAssumption
      <3> QED
        BY <3>1 DEF Tried, Picture
    <2>8. TablesInv'
      <3>1. PICK picture \in Picture : picture = Tried(try.tries, found)
        BY <2>7
      <3>2. pictures' = [pictures EXCEPT ![worker.post] = [pictures[worker.post] EXCEPT ![try.link] = picture]]
        BY <2>6, <3>1
      <3>3. [pictures[worker.post] EXCEPT ![try.link] = picture] \in [Pictures -> Picture]
        BY <1>1, <2>1
      <3>4. pictures' \in [Posts -> [Pictures -> Picture]]
        BY <1>1, <3>2, <3>3
      <3>5. cards' = cards
        BY <1>4 DEF TryPicture
      <3> QED
        BY <3>4, <3>5 DEF CInv, TablesInv
    <2>9. WorkerInv' /\ worker' \in Worker
      <3>1. CASE Len(todo) = 1
        <4>1. worker' = Idle
          BY <1>4, <2>2, <3>1 DEF TryPicture
        <4> QED
          BY <4>1, IdleWorker DEF WorkerInv
      <3>2. CASE Len(todo) # 1
        <4>1. /\ Tail(todo) \in Seq(Todo) /\ Tail(todo) # <<>>
              /\ \A i \in DOMAIN Tail(todo) : Tail(todo)[i].tries < PictureTries
          <5> HIDE DEF Todo
          <5>1. /\ Tail(todo) \in Seq(Todo) /\ Len(Tail(todo)) = Len(todo) - 1
                /\ \A i \in 1 .. Len(Tail(todo)) : Tail(todo)[i] = todo[i + 1]
            BY <2>3, HeadTailProperties
          <5>2. DOMAIN Tail(todo) = 1 .. Len(todo) - 1
            BY <5>1
          <5>3. Tail(todo) # <<>>
            <6>1. PICK rest : rest = Tail(todo)
              OBVIOUS
            <6>2. Len(rest) = Len(todo) - 1
              BY <5>1, <6>1
            <6>3. Len(rest) # 0
              BY <2>3, <3>2, <6>2
            <6>4. rest # <<>>
              BY <6>3
            <6> QED
              BY <6>1, <6>4
          <5>4. ASSUME NEW i \in DOMAIN Tail(todo) PROVE Tail(todo)[i].tries < PictureTries
            <6>1. Tail(todo)[i] = todo[i + 1] /\ i + 1 \in 1 .. Len(todo)
              BY <2>3, <5>1, <5>2
            <6> QED
              BY <2>3, <6>1
          <5> QED
            BY <5>1, <5>3, <5>4
        <4>2. PICK rest : rest = Tail(todo)
          OBVIOUS
        <4>3. PICK w : w = [worker EXCEPT !.todo = rest]
          OBVIOUS
        <4>4. w \in Worker /\ w.post = worker.post /\ w.pc = worker.pc /\ w.todo = rest
          BY <1>1, <4>1, <4>2, <4>3 DEF Worker
        <4>5. worker' = w
          BY <1>4, <2>2, <3>2, <4>2, <4>3 DEF TryPicture
        <4> QED
          BY <2>1, <4>1, <4>2, <4>4, <4>5 DEF WorkerInv
      <3> QED
        BY <3>1, <3>2
    <2>10. DeriveInv'
      BY <1>1, <1>4, <2>9 DEF TryPicture, DeriveInv
    <2> QED
      BY <1>4, <2>8, <2>10, SameC DEF TryPicture, CInv, archiving
  <1> QED
    BY <1>3, <1>4

\* The archiver's steps.
LEMMA AskC == ASSUME CInv, ArchiveSweep PROVE CInv'
  <1>1. PICK ps \in SUBSET {p \in held : ToArchive(cards[p])} : rounds' = Ask(rounds, ps)
    BY DEF ArchiveSweep
  <1>2. ps \subseteq held /\ rounds' = Ask(rounds, ps) /\ UNCHANGED <<timers, archiver, busy>>
    BY <1>1 DEF ArchiveSweep
  <1>3. ps \subseteq Posts /\ IsFiniteSet(ps)
    BY <1>2, HeldFinite
  <1>4. ArchiveInv'
    BY <1>2, <1>3, AskedC
  <1> QED
    BY <1>4, SameC DEF ArchiveSweep, CInv, derived, deriving

LEMMA TakeRoundC == ASSUME CInv, TakeRound PROVE CInv'
  <1>1. /\ rounds \in Seq(Round) /\ Len(rounds) <= QueueMax /\ FlightInv /\ timers \subseteq Round
        /\ busy \subseteq Posts /\ cards \in [Posts -> Card]
        /\ archiver = Quiet /\ rounds # <<>> /\ rounds' = Tail(rounds) /\ timers' = timers
    BY DEF CInv, TablesInv, ArchiveInv, TakeRound
  <1>2. PICK r : r = rounds[1]
    OBVIOUS
  <1>3. r \in Round /\ r = Head(rounds) /\ Tail(rounds) \in Seq(Round) /\ Len(Tail(rounds)) <= QueueMax
    BY <1>1, <1>2, HeadTailProperties, LimitsAssumption
  <1>4. r.post \in Posts
    BY <1>3 DEF Round
  <1>5. \/ r.at # "begin" /\ archiver' = r /\ busy' = busy /\ cards' = cards
        \/ /\ r.at = "begin" /\ Begins(r.post)
           /\ archiver' = [r EXCEPT !.at = "lookup"] /\ busy' = busy \cup {r.post}
           /\ cards' = [cards EXCEPT ![r.post].tries = @ + 1, ![r.post].rested = FALSE]
        \/ r.at = "begin" /\ archiver' = archiver /\ busy' = busy /\ cards' = cards
    BY <1>3 DEF TakeRound
  <1>6. FlightInv'
    <2>1. \/ r.at # "begin" /\ archiver' = r /\ busy' = busy
          \/ /\ r.at = "begin" /\ r.post \notin busy
             /\ archiver' = [r EXCEPT !.at = "lookup"] /\ busy' = busy \cup {r.post}
          \/ r.at = "begin" /\ archiver' = archiver /\ busy' = busy
      BY <1>5 DEF Begins
    <2> QED
      BY <1>1, <1>2, <2>1, QuietPost, TakenFlight
  <1>7. archiver' \in Round \cup {Quiet} /\ busy' \subseteq Posts
    <2>1. [r EXCEPT !.at = "lookup"] \in Round
      BY <1>3 DEF Round
    <2> QED
      BY <1>1, <1>3, <1>4, <1>5, <2>1
  <1>8. ArchiveInv'
    BY <1>1, <1>3, <1>6, <1>7 DEF ArchiveInv
  <1>9. cards' \in [Posts -> Card]
    <2>1. CASE cards' = cards
      BY <1>1, <2>1
    <2>2. CASE /\ Begins(r.post)
               /\ cards' = [cards EXCEPT ![r.post].tries = @ + 1, ![r.post].rested = FALSE]
      <3>1. PICK card : card = cards[r.post]
        OBVIOUS
      <3>2. card \in Card /\ card.tries < ArchiveTries
        BY <1>1, <1>4, <2>2, <3>1 DEF Begins, ToArchive
      <3>3. PICK n : n = card.tries + 1
        OBVIOUS
      <3>4. n \in 0 .. ArchiveTries
        BY <3>2, <3>3, LimitsAssumption DEF Card
      <3>5. PICK counted : counted = [card EXCEPT !.tries = n, !.rested = FALSE]
        OBVIOUS
      <3>6. counted \in Card
        BY <3>2, <3>4, <3>5 DEF Card
      <3>7. cards' = [cards EXCEPT ![r.post] = counted]
        BY <1>1, <1>4, <2>2, <3>1, <3>3, <3>5
      <3> QED
        BY <1>1, <1>4, <3>6, <3>7
    <2> QED
      BY <1>5, <2>1, <2>2
  <1>10. TablesInv'
    BY <1>9 DEF TakeRound, CInv, TablesInv
  <1> QED
    BY <1>8, <1>10, SameC DEF TakeRound, CInv, deriving

LEMMA RoundC == ASSUME CInv, Lookup \/ Poll PROVE CInv'
  <1>1. /\ rounds \in Seq(Round) /\ Len(rounds) <= QueueMax /\ FlightInv /\ timers \subseteq Round
        /\ busy \subseteq Posts /\ cards \in [Posts -> Card] /\ archiver \in Round \cup {Quiet}
        /\ rounds' = rounds /\ pictures' = pictures
    BY DEF CInv, TablesInv, ArchiveInv, Lookup, Poll
  <1>2. archiver # Quiet /\ archiver.at # "begin"
    BY DEF Lookup, Poll, Quiet
  <1>3. archiver \in Round /\ archiver.post \in Posts
    <2>1. archiver \in Round
      BY <1>1, <1>2
    <2> QED
      BY <2>1 DEF Round
  <1>4. \/ \E r \in Round : r.post = archiver.post /\ r.at # "begin" /\ Later(r)
        \/ Land(archiver.post)
        \/ GiveUp(archiver.post)
    <2>1. archiver.step \in 0 .. Retries + Polls /\ Retries \in Nat /\ Polls \in Nat
      BY <1>3, LimitsAssumption DEF Round
    <2>2. ASSUME NEW at \in {"lookup", "poll"}, NEW n \in 0 .. Retries + Polls
          PROVE  /\ [archiver EXCEPT !.at = at, !.step = n] \in Round
                 /\ [archiver EXCEPT !.at = at, !.step = n].post = archiver.post
                 /\ [archiver EXCEPT !.at = at, !.step = n].at = at
      BY <1>3 DEF Round
    <2>3. ASSUME NEW n \in 0 .. Retries + Polls
          PROVE  /\ [archiver EXCEPT !.step = n] \in Round
                 /\ [archiver EXCEPT !.step = n].post = archiver.post
                 /\ [archiver EXCEPT !.step = n].at = archiver.at
      BY <1>3 DEF Round
    <2>4. CASE Lookup
      <3>1. \/ Land(archiver.post) \/ GiveUp(archiver.post)
            \/ archiver.step < Retries /\ Later([archiver EXCEPT !.step = @ + 1])
            \/ Later([archiver EXCEPT !.at = "poll", !.step = 0])
        BY <2>4 DEF Lookup
      <3>2. archiver.step < Retries => archiver.step + 1 \in 0 .. Retries + Polls
        BY <2>1
      <3>3. 0 \in 0 .. Retries + Polls
        BY <2>1
      <3> QED
        BY <1>2, <2>2, <2>3, <3>1, <3>2, <3>3
    <2>5. CASE Poll
      <3>1. \/ Land(archiver.post) \/ GiveUp(archiver.post)
            \/ archiver.step + 1 < Polls /\ Later([archiver EXCEPT !.step = @ + 1])
        BY <2>5 DEF Poll
      <3>2. archiver.step + 1 < Polls => archiver.step + 1 \in 0 .. Retries + Polls
        BY <2>1
      <3> QED
        BY <1>2, <2>3, <3>1, <3>2
    <2> QED
      BY <2>4, <2>5
  <1>5. ASSUME NEW r \in Round, r.post = archiver.post, r.at # "begin", Later(r)
        PROVE  ArchiveInv' /\ TablesInv'
    <2>1. archiver' = Quiet /\ timers' = timers \cup {r} /\ busy' = busy /\ cards' = cards
      BY <1>5 DEF Later
    <2>2. FlightInv'
      BY <1>1, <1>2, <1>5, <2>1, LaterFlight, QuietPost
    <2> QED
      BY <1>1, <2>1, <2>2 DEF ArchiveInv, CInv, TablesInv
  <1>6. ASSUME Land(archiver.post) \/ GiveUp(archiver.post) PROVE ArchiveInv' /\ TablesInv'
    <2>1. archiver' = Quiet /\ timers' = timers /\ busy' = busy \ {archiver.post}
      BY <1>6 DEF Land, GiveUp
    <2>2. FlightInv'
      BY <1>1, <2>1, OverFlight, QuietPost
    <2>3. ArchiveInv'
      BY <1>1, <2>1, <2>2 DEF ArchiveInv
    <2>4. cards' \in [Posts -> Card]
      <3>1. CASE cards' = cards
        BY <1>1, <3>1
      <3>2. CASE cards' # cards
        <4>1. PICK known \in BOOLEAN : known = (cards[archiver.post].status # "none")
          OBVIOUS
        <4>2. cards' = [cards EXCEPT ![archiver.post].copy = known]
          BY <1>6, <3>2, <4>1 DEF Land, GiveUp
        <4>3. PICK card : card = [cards[archiver.post] EXCEPT !.copy = known]
          OBVIOUS
        <4>4. card \in Card
          BY <1>1, <1>3, <4>3 DEF Card
        <4>5. cards' = [cards EXCEPT ![archiver.post] = card]
          BY <4>2, <4>3
        <4> QED
          BY <1>1, <1>3, <4>4, <4>5
      <3> QED
        BY <3>1, <3>2
    <2> QED
      BY <1>1, <2>3, <2>4 DEF CInv, TablesInv
  <1>7. ArchiveInv' /\ TablesInv'
    BY <1>4, <1>5, <1>6
  <1> QED
    BY <1>7, SameC DEF Lookup, Poll, CInv, deriving

LEMMA DueC == ASSUME CInv, NEW r \in timers, Due(r) PROVE CInv'
  <1>1. /\ rounds \in Seq(Round) /\ Len(rounds) < QueueMax /\ FlightInv /\ timers \subseteq Round
        /\ timers' = timers \ {r} /\ rounds' = Append(rounds, r) /\ UNCHANGED <<archiver, busy>>
    BY DEF CInv, ArchiveInv, Due
  <1>2. r \in Round
    BY <1>1
  <1>3. FlightInv'
    BY <1>1, <1>2, DueFlight
  <1>4. rounds' \in Seq(Round) /\ Len(rounds') <= QueueMax
    <2>1. rounds' \in Seq(Round) /\ Len(rounds') = Len(rounds) + 1 /\ Len(rounds) \in Nat
      BY <1>1, <1>2
    <2> QED
      BY <1>1, <2>1, LimitsAssumption
  <1>5. ArchiveInv'
    BY <1>1, <1>3, <1>4 DEF CInv, ArchiveInv
  <1> QED
    BY <1>5, SameC DEF Due, CInv, derived, deriving

LEMMA RestartC == ASSUME CInv, Restart PROVE CInv'
  <1>1. /\ queue' = <<>> /\ worker' = Idle /\ backfilled' = FALSE
        /\ rounds' = <<>> /\ timers' = {} /\ archiver' = Quiet /\ busy' = {}
    BY DEF Restart
  <1>2. QueueMax \in Nat /\ Len(<<>>) = 0 /\ DOMAIN <<>> = {}
    BY LimitsAssumption
  <1>3. WorkerInv'
    BY <1>1, <1>2, IdleWorker DEF WorkerInv
  <1>4. queue' \in Seq(Job) /\ Len(queue') <= QueueMax /\ rounds' \in Seq(Round) /\ Len(rounds') <= QueueMax
    BY <1>1, <1>2
  <1>5. DeriveInv'
    BY <1>1, <1>3, <1>4, IdleWorker DEF DeriveInv
  <1>6. FlightInv'
    BY <1>1, <1>2 DEF FlightInv
  <1>7. ArchiveInv'
    BY <1>1, <1>4, <1>6 DEF ArchiveInv
  <1>8. HereInv'
    BY LimitsAssumption DEF Restart, CInv, HereInv
  <1> QED
    BY <1>5, <1>7, <1>8, SameC DEF Restart, CInv, derived

LEMMA NextC == CInv /\ [Next]_vars => CInv'
  <1> SUFFICES ASSUME CInv, [Next]_vars PROVE CInv'
    OBVIOUS
  <1>1. CASE \E p \in Posts : Create(p) \/ Delete(p)
    BY <1>1, PostsC
  <1>2. CASE Hour
    BY <1>2, HoursC DEF Hour
  <1>3. CASE Backfill \/ Sweep \/ ArchiveSweep
    BY <1>3, SweepsC, AskC
  <1>4. CASE Work
    BY <1>4, WorkC, PicturesC DEF Work
  <1>5. CASE Archive
    BY <1>5, TakeRoundC, RoundC DEF Archive
  <1>6. CASE TimerDue
    BY <1>6, DueC DEF TimerDue
  <1>7. CASE Restart
    BY <1>7, RestartC
  <1>8. CASE UNCHANGED vars
    BY <1>8, SameC DEF vars, CInv, derived, deriving, archiving
  <1> QED
    BY <1>1, <1>2, <1>3, <1>4, <1>5, <1>6, <1>7, <1>8 DEF Next

-----------------------------------------------------------------------------
\* The queues stay within their bounds, the tries of a card and of a picture
\* within theirs, whatever is dropped, deleted, replaced or restarted; and of a
\* card's rounds one is in flight at most, the one the archiver's note says.
THEOREM RoundsHold == Spec => []Rounds
  <1>1. CInv => TypeOK
    <2>1. CInv => Len(queue) \in 0 .. QueueMax /\ Len(rounds) \in 0 .. QueueMax
      BY LimitsAssumption DEF CInv, DeriveInv, ArchiveInv
    <2> QED
      BY <2>1 DEF CInv, HereInv, TablesInv, DeriveInv, ArchiveInv, TypeOK
  <1>2. CInv => OneRound
    BY FlightCounts, QuietPost DEF CInv, ArchiveInv
  <1>3. CInv => Rounds
    BY <1>1, <1>2 DEF Rounds
  <1> QED
    BY <1>3, InitC, NextC, PTL DEF Spec
=============================================================================
