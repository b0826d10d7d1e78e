------------------------------ MODULE HubDoorProofs ------------------------------
(***************************************************************************)
(* The post window at the door, and the converter: a post is in the log    *)
(* once for any words, requests, losses and tries; a stranger leaves       *)
(* nothing; no video is too big for a converter that never tried x264.     *)
(***************************************************************************)
EXTENDS HubClients, FiniteSetTheorems, TLAPS

-----------------------------------------------------------------------------
(* The door's types.                                                       *)

\* A request past its start is of a message, and a place that is free of none;
\* one at kubo has bytes in hand; an answer says something.
Sound(q) ==
    /\ q.pc = "none" => q.msg = None
    /\ q.pc \notin {"none", "gate", "rpc", "verdict"} => q.msg \in Message
    /\ q.pc = "add" => q.hand \in Cids
    /\ q.pc = "answered" => q.said # ""

DoorOK ==
    /\ DoorTypeOK
    /\ IsFiniteSet(drafts)
    /\ \A r \in Reqs : Sound(reqs[r])

\* The requests, one of them changed.
Becomes(r, q) == reqs' = [reqs EXCEPT ![r] = q]

LEMMA ReqsTyped ==
    ASSUME DoorOK, NEW r \in Reqs, NEW q \in Request, Sound(q), Becomes(r, q)
    PROVE  reqs' \in [Reqs -> Request] /\ \A s \in Reqs : Sound(reqs'[s])
  BY DEF DoorOK, DoorTypeOK, Becomes

LEMMA FreeTyped == Free \in Request /\ Sound(Free)
  BY DEF Free, Request, Sound

\* A step of a request that touches nothing else but the cache.
LEMMA OnlyRequest ==
    ASSUME DoorOK, NEW r \in Reqs, NEW q \in Request, Sound(q), Becomes(r, q),
           UNCHANGED <<store, people, drafts>>,
           cache' \in [verdict : {"none", "pass", "below"}, fresh : BOOLEAN]
    PROVE  DoorOK'
  <1>1. reqs' \in [Reqs -> Request] /\ \A s \in Reqs : Sound(reqs'[s])
    BY ReqsTyped
  <1> QED
    BY <1>1 DEF DoorOK, DoorTypeOK, store, people

\* The types a request and the cache have.
LEMMA Parts ==
    ASSUME DoorOK, NEW r \in Reqs
    PROVE  /\ reqs \in [Reqs -> Request] /\ reqs[r] \in Request /\ Sound(reqs[r])
           /\ cache \in [verdict : {"none", "pass", "below"}, fresh : BOOLEAN]
  BY DEF DoorOK, DoorTypeOK

\* A request goes on, answers, or is judged.
Changes(r) == Becomes(r, reqs'[r]) /\ reqs'[r] \in Request /\ Sound(reqs'[r])

LEMMA GoesOn ==
    ASSUME DoorOK, NEW r \in Reqs, reqs[r].msg \in Message, Goes(r, "banned") \/ Goes(r, "cooldown")
           \/ Goes(r, "invited") \/ Goes(r, "seq") \/ Goes(r, "gate") \/ Goes(r, "ingest")
    PROVE  Changes(r)
  <1>1. reqs \in [Reqs -> Request] /\ reqs[r] \in Request
    BY Parts
  <1>2. PICK pc \in {"banned", "cooldown", "invited", "seq", "gate", "ingest"} : Goes(r, pc)
    OBVIOUS
  <1> QED
    BY <1>1, <1>2 DEF Goes, Changes, Becomes, Request, Sound

LEMMA AnswersOK ==
    ASSUME DoorOK, NEW r \in Reqs, reqs[r].msg \in Message,
           NEW said \in {"accepted", "duplicate", "forbidden", "wait", "stale", "no_pin", "fault"},
           Answers(r, said)
    PROVE  Changes(r)
  <1>1. reqs \in [Reqs -> Request] /\ reqs[r] \in Request
    BY Parts
  <1>2. reqs'[r] = [reqs[r] EXCEPT !.pc = "answered", !.said = said] /\ Becomes(r, reqs'[r])
    BY <1>1 DEF Answers, Becomes
  <1> QED
    BY <1>1, <1>2 DEF Changes, Request, Sound

LEMMA JudgedOK ==
    ASSUME DoorOK, NEW r \in Reqs, NEW verdict, reqs' = Judged(r, verdict)
    PROVE  Changes(r)
  <1>1. reqs \in [Reqs -> Request] /\ reqs[r] \in Request
    BY Parts
  <1>2. CASE reqs[r].msg = None
    <2>1. reqs' = [reqs EXCEPT ![r] = Free]
      BY <1>2 DEF Judged
    <2> QED
      BY <1>1, <2>1, FreeTyped DEF Changes, Becomes
  <1>3. CASE reqs[r].msg # None /\ verdict = "pass"
    <2>1. reqs[r].msg \in Message
      BY <1>1, <1>3 DEF Request
    <2>2. Goes(r, "seq")
      BY <1>3 DEF Judged, Goes
    <2> QED
      BY <2>1, <2>2, GoesOn
  <1>4. CASE reqs[r].msg # None /\ verdict # "pass"
    <2>1. reqs[r].msg \in Message
      BY <1>1, <1>4 DEF Request
    <2>2. Answers(r, "forbidden")
      BY <1>4 DEF Judged, Answers
    <2> QED
      BY <2>1, <2>2, AnswersOK
  <1> QED
    BY <1>2, <1>3, <1>4

LEMMA KnownChanges == ASSUME DoorOK, NEW r \in Reqs, Known(r) PROVE Changes(r)
  <1>1. reqs \in [Reqs -> Request] /\ reqs[r] \in Request /\ Sound(reqs[r])
    BY Parts
  <1>2. reqs[r].msg \in Message
    BY <1>1 DEF Known, At, Sound
  <1> QED
    BY <1>2, GoesOn, AnswersOK DEF Known

LEMMA BannedChanges == ASSUME DoorOK, NEW r \in Reqs, Banned(r) PROVE Changes(r)
  <1>1. reqs \in [Reqs -> Request] /\ reqs[r] \in Request /\ Sound(reqs[r])
    BY Parts
  <1>2. reqs[r].msg \in Message
    BY <1>1 DEF Banned, At, Sound
  <1> QED
    BY <1>2, GoesOn, AnswersOK DEF Banned

LEMMA LastPostChanges == ASSUME DoorOK, NEW r \in Reqs, LastPost(r) PROVE Changes(r)
  <1>1. reqs \in [Reqs -> Request] /\ reqs[r] \in Request /\ Sound(reqs[r])
    BY Parts
  <1>2. reqs[r].msg \in Message
    BY <1>1 DEF LastPost, At, Sound
  <1> QED
    BY <1>2, GoesOn, AnswersOK DEF LastPost

LEMMA InvitedChanges == ASSUME DoorOK, NEW r \in Reqs, Invited(r) PROVE Changes(r)
  <1>1. reqs \in [Reqs -> Request] /\ reqs[r] \in Request /\ Sound(reqs[r])
    BY Parts
  <1>2. reqs[r].msg \in Message
    BY <1>1 DEF Invited, At, Sound
  <1> QED
    BY <1>2, GoesOn DEF Invited

LEMMA PromotedChanges == ASSUME DoorOK, NEW r \in Reqs, Promoted(r) PROVE Changes(r)
  <1>1. reqs \in [Reqs -> Request] /\ reqs[r] \in Request /\ Sound(reqs[r])
    BY Parts
  <1>2. reqs[r].msg \in Message
    BY <1>1 DEF Promoted, At, Sound
  <1> QED
    BY <1>2, GoesOn DEF Promoted

LEMMA AddFailsChanges == ASSUME DoorOK, NEW r \in Reqs, AddFails(r) PROVE Changes(r)
  <1>1. reqs \in [Reqs -> Request] /\ reqs[r] \in Request /\ Sound(reqs[r])
    BY Parts
  <1>2. reqs[r].msg \in Message
    BY <1>1 DEF AddFails, At, Sound
  <1> QED
    BY <1>2, AnswersOK DEF AddFails

LEMMA LookChanges == ASSUME DoorOK, NEW r \in Reqs, Look(r) PROVE Changes(r)
  <1>1. reqs \in [Reqs -> Request] /\ reqs[r] \in Request /\ Sound(reqs[r])
    BY Parts
  <1> QED
    BY <1>1 DEF Look, Free, Changes, Becomes, Request, Sound

LEMMA CheckChanges == ASSUME DoorOK, NEW r \in Reqs, Check(r) PROVE Changes(r)
  <1>1. reqs \in [Reqs -> Request] /\ reqs[r] \in Request /\ Sound(reqs[r])
    BY Parts
  <1>2. CASE cache.fresh
    BY <1>2, JudgedOK DEF Check
  <1>3. CASE ~ cache.fresh
    <2>1. reqs' = [reqs EXCEPT ![r].pc = "rpc", ![r].seen = cache.verdict]
      BY <1>3 DEF Check
    <2>2. cache.verdict \in {"none", "pass", "below"}
      BY Parts
    <2>3. reqs'[r] = [reqs[r] EXCEPT !.pc = "rpc", !.seen = cache.verdict] /\ Becomes(r, reqs'[r])
      BY <1>1, <2>1 DEF Becomes
    <2> QED
      BY <1>1, <2>2, <2>3 DEF Changes, Request, Sound
  <1> QED
    BY <1>2, <1>3

LEMMA BalanceChanges == ASSUME DoorOK, NEW r \in Reqs, Balance(r) PROVE Changes(r)
  <1>1. reqs \in [Reqs -> Request] /\ reqs[r] \in Request /\ Sound(reqs[r])
    BY Parts
  <1>2. holds \in BOOLEAN
    BY DEF DoorOK, DoorTypeOK
  <1> QED
    BY <1>1, <1>2 DEF Balance, Changes, Becomes, Request, Sound

LEMMA RpcFailsChanges == ASSUME DoorOK, NEW r \in Reqs, RpcFails(r) PROVE Changes(r)
  <1>1. reqs \in [Reqs -> Request] /\ reqs[r] \in Request /\ Sound(reqs[r])
    BY Parts
  <1> QED
    BY JudgedOK DEF RpcFails

LEMMA VerdictChanges == ASSUME DoorOK, NEW r \in Reqs, Verdict(r) PROVE Changes(r)
  <1>1. reqs \in [Reqs -> Request] /\ reqs[r] \in Request /\ Sound(reqs[r])
    BY Parts
  <1> QED
    BY JudgedOK DEF Verdict

LEMMA LastSeqChanges == ASSUME DoorOK, NEW r \in Reqs, LastSeq(r) PROVE Changes(r)
  <1>1. reqs \in [Reqs -> Request] /\ reqs[r] \in Request /\ Sound(reqs[r])
    BY Parts
  <1>2. reqs[r].msg \in Message
    BY <1>1 DEF LastSeq, At, Sound
  <1> DEFINE left == IF reqs[r].msg.seq > seq THEN Pictures[reqs[r].msg.words] ELSE {}
  <1>3. left \subseteq Cids
    BY <1>2, WordsAssumption DEF Message
  <1>4. reqs' = [reqs EXCEPT ![r].pc = "promote", ![r].left = left]
    BY DEF LastSeq
  <1> HIDE DEF left
  <1> QED
    BY <1>1, <1>2, <1>3, <1>4 DEF Changes, Becomes, Request, Sound

LEMMA PromoteChanges == ASSUME DoorOK, NEW r \in Reqs, NEW c \in Cids, Promote(r, c) PROVE Changes(r)
  <1>1. reqs \in [Reqs -> Request] /\ reqs[r] \in Request /\ Sound(reqs[r]) /\ reqs[r].pc = "promote"
    BY Parts DEF Promote, At
  <1>2. CASE c \in drafts
    <2>1. reqs' = [reqs EXCEPT ![r].pc = "add", ![r].hand = c, ![r].left = reqs[r].left \ {c}]
      BY <1>1, <1>2 DEF Promote
    <2> QED
      BY <1>1, <2>1 DEF Changes, Becomes, Request, Sound
  <1>3. CASE c \notin drafts
    <2>1. reqs' = [reqs EXCEPT ![r].pc = "promote", ![r].hand = None, ![r].left = reqs[r].left \ {c}]
      BY <1>1, <1>3 DEF Promote
    <2> QED
      BY <1>1, <2>1 DEF Changes, Becomes, Request, Sound
  <1> QED
    BY <1>2, <1>3

LEMMA AddChanges == ASSUME DoorOK, NEW r \in Reqs, Add(r) PROVE Changes(r)
  <1>1. reqs \in [Reqs -> Request] /\ reqs[r] \in Request /\ Sound(reqs[r])
    BY Parts
  <1> QED
    BY <1>1 DEF Add, At, Changes, Becomes, Request, Sound

LEMMA IngestChanges == ASSUME DoorOK, NEW r \in Reqs, Ingest(r) PROVE Changes(r)
  <1>1. reqs \in [Reqs -> Request] /\ reqs[r] \in Request /\ Sound(reqs[r])
    BY Parts
  <1>2. reqs[r].msg \in Message
    BY <1>1 DEF Ingest, At, Sound
  <1>3. Taken(reqs[r].msg) \in {"accepted", "duplicate", "stale", "no_pin"}
    BY DEF Taken
  <1> QED
    BY <1>2, <1>3, AnswersOK DEF Ingest


-----------------------------------------------------------------------------
(* The door's types, step by step.                                         *)

\* What a step of a request leaves typed, but for the requests.
TablesOK ==
    /\ log \subseteq Message /\ seq \in 0 .. Seqs /\ cooling \in BOOLEAN
    /\ standing \in [banned : BOOLEAN, invited : BOOLEAN] /\ holds \in BOOLEAN
    /\ cache \in [verdict : {"none", "pass", "below"}, fresh : BOOLEAN]
    /\ drafts \subseteq Cids /\ IsFiniteSet(drafts) /\ Cardinality(drafts) <= DraftMax
    /\ pins \in [Cids -> {"none", "staged", "aged", "kept"}]

RequestsOK == reqs \in [Reqs -> Request] /\ \A r \in Reqs : Sound(reqs[r])

LEMMA DoorParts == DoorOK <=> TablesOK /\ RequestsOK
  BY DEF DoorOK, DoorTypeOK, TablesOK, RequestsOK

LEMMA DoorJoined == ASSUME TablesOK', RequestsOK' PROVE DoorOK'
  BY DEF DoorOK, DoorTypeOK, TablesOK, RequestsOK

LEMMA ChangesOK == ASSUME DoorOK, NEW r \in Reqs, Changes(r) PROVE RequestsOK'
  BY ReqsTyped DEF Changes, RequestsOK

LEMMA RequestsStay == ASSUME DoorOK, reqs' = reqs PROVE RequestsOK'
  BY DoorParts DEF RequestsOK

\* A draft is dropped.
LEMMA FewerDrafts ==
    ASSUME TablesOK, NEW c
    PROVE  /\ drafts \ {c} \subseteq Cids /\ IsFiniteSet(drafts \ {c})
           /\ Cardinality(drafts \ {c}) <= DraftMax
  <1>1. IsFiniteSet(drafts \ {c}) /\ Cardinality(drafts \ {c}) \in Nat /\ Cardinality(drafts) \in Nat
    BY FS_Subset, FS_CardinalityType DEF TablesOK
  <1>2. Cardinality(drafts \ {c}) <= Cardinality(drafts)
    BY FS_Subset DEF TablesOK
  <1>3. DraftMax \in Nat
    BY BoundsAssumption
  <1> QED
    BY <1>1, <1>2, <1>3 DEF TablesOK

LEMMA PutTyped ==
    ASSUME TablesOK, NEW c \in Cids, Put(c)
    PROVE  drafts' \subseteq Cids /\ IsFiniteSet(drafts') /\ Cardinality(drafts') <= DraftMax
  <1>1. drafts' = drafts \cup {c}
    BY DEF Put
  <1>2. Cardinality(drafts) \in Nat /\ DraftMax \in Nat
    BY FS_CardinalityType, BoundsAssumption DEF TablesOK
  <1>3. CASE c \in drafts
    <2>1. drafts' = drafts
      BY <1>1, <1>3
    <2> QED
      BY <2>1 DEF TablesOK
  <1>4. CASE c \notin drafts
    <2>1. IsFiniteSet(drafts \cup {c}) /\ Cardinality(drafts \cup {c}) = Cardinality(drafts) + 1
      BY <1>4, FS_AddElement DEF TablesOK
    <2>2. Cardinality(drafts) < DraftMax
      BY <1>4 DEF Put
    <2> QED
      BY <1>1, <1>2, <2>1, <2>2 DEF TablesOK
  <1> QED
    BY <1>3, <1>4

LEMMA HoldTyped == ASSUME TablesOK, NEW c \in Cids, Hold(c) PROVE TablesOK'
  <1>1. drafts' \subseteq Cids /\ IsFiniteSet(drafts') /\ Cardinality(drafts') <= DraftMax
    BY PutTyped DEF Hold, TablesOK
  <1> QED
    BY <1>1 DEF Hold, TablesOK, store, people

\* A request's own step.
LEMMA ServeOK == ASSUME DoorOK, NEW r \in Reqs, Serve(r) PROVE DoorOK'
  <1>1. TablesOK
    BY DoorParts
  <1>2. CASE Known(r) \/ Banned(r) \/ LastPost(r) \/ Invited(r) \/ Check(r) \/ Balance(r)
             \/ RpcFails(r) \/ LastSeq(r) \/ Promoted(r) \/ AddFails(r)
    <2>1. Changes(r)
      BY <1>2, KnownChanges, BannedChanges, LastPostChanges, InvitedChanges, CheckChanges,
         BalanceChanges, RpcFailsChanges, LastSeqChanges, PromotedChanges, AddFailsChanges
    <2>2. UNCHANGED <<store, people, cache, drafts>>
      BY <1>2 DEF Known, Banned, LastPost, Invited, Check, Balance, RpcFails, LastSeq, Promoted, AddFails
    <2>3. TablesOK'
      BY <1>1, <2>2 DEF TablesOK, store, people
    <2> QED
      BY <2>1, <2>3, ChangesOK, DoorJoined
  <1>3. CASE Verdict(r)
    <2>1. cache' \in [verdict : {"none", "pass", "below"}, fresh : BOOLEAN]
      BY <1>3 DEF Verdict
    <2>2. UNCHANGED <<store, people, drafts>>
      BY <1>3 DEF Verdict
    <2>3. TablesOK'
      BY <1>1, <2>1, <2>2 DEF TablesOK, store, people
    <2> QED
      BY <1>3, <2>3, VerdictChanges, ChangesOK, DoorJoined
  <1>4. ASSUME NEW c \in Cids, Promote(r, c) PROVE DoorOK'
    <2>1. TablesOK'
      BY <1>1, <1>4 DEF Promote, TablesOK, store, people
    <2> QED
      BY <1>4, <2>1, PromoteChanges, ChangesOK, DoorJoined
  <1>5. CASE Add(r)
    <2> DEFINE c == reqs[r].hand
    <2>1. pins' = [pins EXCEPT ![c] = IF pins[c] = "none" THEN "staged" ELSE pins[c]] /\ drafts' = drafts \ {c}
      BY <1>5 DEF Add
    <2> HIDE DEF c
    <2>2. drafts' \subseteq Cids /\ IsFiniteSet(drafts') /\ Cardinality(drafts') <= DraftMax
      BY <1>1, <2>1, FewerDrafts
    <2>3. UNCHANGED <<log, seq, cooling, people, cache>>
      BY <1>5 DEF Add
    <2>4. pins' \in [Cids -> {"none", "staged", "aged", "kept"}]
      BY <1>1, <2>1 DEF TablesOK
    <2>5. TablesOK'
      BY <1>1, <2>2, <2>3, <2>4 DEF TablesOK, people
    <2> QED
      BY <1>5, <2>5, AddChanges, ChangesOK, DoorJoined
  <1>6. CASE Ingest(r)
    <2> DEFINE m == reqs[r].msg
    <2>1. m \in Message
      BY <1>6 DEF Ingest, At, DoorOK, Sound
    <2>2. log' \subseteq Message /\ seq' \in 0 .. Seqs /\ cooling' \in BOOLEAN
          /\ pins' \in [Cids -> {"none", "staged", "aged", "kept"}]
      <3>1. CASE Taken(m) = "accepted"
        <4>1. /\ log' = log \cup {m} /\ seq' = m.seq /\ cooling' = Cooldown
              /\ pins' = [c \in Cids |-> IF c \in Pictures[m.words] THEN "kept" ELSE pins[c]]
          BY <1>6, <3>1 DEF Ingest
        <4>2. m.seq \in 1 .. Seqs /\ Seqs \in Nat
          BY <2>1, BoundsAssumption DEF Message
        <4>3. log \subseteq Message /\ pins \in [Cids -> {"none", "staged", "aged", "kept"}]
          BY <1>1 DEF TablesOK
        <4> HIDE DEF m
        <4> QED
          BY <2>1, <4>1, <4>2, <4>3, RulesAssumption
      <3>2. CASE Taken(m) # "accepted"
        <4>1. UNCHANGED store
          BY <1>6, <3>2 DEF Ingest
        <4> QED
          BY <1>1, <4>1 DEF TablesOK, store
      <3> QED
        BY <3>1, <3>2
    <2>3. UNCHANGED <<people, cache, drafts>>
      BY <1>6 DEF Ingest
    <2>4. TablesOK'
      BY <1>1, <2>2, <2>3 DEF TablesOK, people
    <2> QED
      BY <1>6, <2>4, IngestChanges, ChangesOK, DoorJoined
  <1> QED
    BY <1>2, <1>3, <1>4, <1>5, <1>6 DEF Serve

LEMMA MeanwhileOK == ASSUME DoorOK, Meanwhile PROVE DoorOK'
  <1>1. TablesOK /\ Seqs \in Nat
    BY DoorParts, BoundsAssumption
  <1>2. CASE Cool
    <2>1. TablesOK' /\ reqs' = reqs
      BY <1>1, <1>2 DEF Cool, TablesOK, people
    <2> QED
      BY <2>1, RequestsStay, DoorJoined
  <1>3. CASE Age
    <2>1. TablesOK' /\ reqs' = reqs
      BY <1>1, <1>3 DEF Age, TablesOK, store, people
    <2> QED
      BY <2>1, RequestsStay, DoorJoined
  <1>4. CASE Judge
    <2>1. TablesOK' /\ reqs' = reqs
      BY <1>1, <1>4 DEF Judge, TablesOK, store
    <2> QED
      BY <2>1, RequestsStay, DoorJoined
  <1>5. CASE Elsewhere
    <2>1. TablesOK' /\ reqs' = reqs
      BY <1>1, <1>5 DEF Elsewhere, TablesOK, people
    <2> QED
      BY <2>1, RequestsStay, DoorJoined
  <1>6. ASSUME NEW c \in Cids, Lapse(c) PROVE DoorOK'
    <2>1. drafts' = drafts \ {c} /\ UNCHANGED <<store, people, cache, reqs>>
      BY <1>6 DEF Lapse
    <2>2. drafts' \subseteq Cids /\ IsFiniteSet(drafts') /\ Cardinality(drafts') <= DraftMax
      BY <1>1, <2>1, FewerDrafts
    <2>3. TablesOK'
      BY <1>1, <2>1, <2>2 DEF TablesOK, store, people
    <2> QED
      BY <2>1, <2>3, RequestsStay, DoorJoined
  <1>7. ASSUME NEW c \in Cids, Linger(c) PROVE DoorOK'
    <2>1. TablesOK' /\ reqs' = reqs
      BY <1>1, <1>7 DEF Linger, TablesOK, people
    <2> QED
      BY <2>1, RequestsStay, DoorJoined
  <1>8. ASSUME NEW c \in Cids, SweepStaged(c) PROVE DoorOK'
    <2>1. TablesOK' /\ reqs' = reqs
      BY <1>1, <1>8 DEF SweepStaged, TablesOK, people
    <2> QED
      BY <2>1, RequestsStay, DoorJoined
  <1>9. ASSUME NEW r \in Reqs, Look(r) PROVE DoorOK'
    <2>1. TablesOK'
      BY <1>1, <1>9 DEF Look, TablesOK, store, people
    <2> QED
      BY <1>9, <2>1, LookChanges, ChangesOK, DoorJoined
  <1> QED
    BY <1>2, <1>3, <1>4, <1>5, <1>6, <1>7, <1>8, <1>9 DEF Meanwhile

-----------------------------------------------------------------------------
(* The window, seen from the door: it sends what it parks, hears answers,  *)
(* and holds drafts.                                                       *)

Asked(m) == [Free EXCEPT !.pc = "known", !.msg = m]

LEMMA AskedTyped == ASSUME NEW m \in Message PROVE Asked(m) \in Request /\ Sound(Asked(m))
  BY DEF Asked, Free, Request, Sound

\* Every place is as it was, freed, or asks for what is parked now.
Passes ==
    /\ reqs' \in [Reqs -> Request]
    /\ \A s \in Reqs : \/ reqs'[s] \in {reqs[s], Free}
                       \/ win'.parked \in Message /\ reqs'[s] = Asked(win'.parked)

WindowStep ==
    /\ TablesOK'
    /\ UNCHANGED <<store, people, cache>>
    /\ Passes

LEMMA WindowStepOK == ASSUME DoorOK, WindowStep PROVE DoorOK'
  <1>1. ASSUME NEW s \in Reqs PROVE Sound(reqs'[s])
    BY Parts, FreeTyped, AskedTyped DEF WindowStep, Passes
  <1>2. RequestsOK'
    BY <1>1 DEF RequestsOK, WindowStep, Passes
  <1> QED
    BY <1>2, DoorJoined DEF WindowStep

\* The window's own invariant.
WinOK ==
    /\ win \in Window /\ signs \in 0 .. Signs /\ dropped \subseteq Message
    /\ win.pc \in {"number", "sign"} => win.parked = None /\ win.words # 0
    /\ win.pc = "sign" => win.next # 0
    /\ win.pc \in {"sending", "again"} => win.parked \in Message /\ win.parked.words = win.words
    /\ win.pc = "sending" => win.req \in Reqs /\ reqs[win.req].msg = win.parked
    /\ win.pc = "earlier" => win.parked \in Message /\ win.parked.words # win.words /\ win.words # 0

\* The pictures are sent again once in a press, which is one turn more of its loop.
TriesOK ==
    /\ win.pc = "again" => ~ win.again
    /\ win.pc # "sending" \/ win.again => win.tries <= Tries

LEMMA SendsPasses ==
    ASSUME DoorOK, NEW r \in Reqs, NEW m \in Message, NEW w \in Window, w.parked = m, Sends(r, m, w)
    PROVE  /\ Passes /\ reqs' = [reqs EXCEPT ![r] = Asked(m)]
           /\ win' = [w EXCEPT !.pc = "sending", !.req = r]
  <1>1. reqs' = [reqs EXCEPT ![r] = Asked(m)] /\ win' = [w EXCEPT !.pc = "sending", !.req = r]
    BY DEF Sends, Send, Asked
  <1>2. win'.parked = m
    BY <1>1 DEF Window
  <1> QED
    BY <1>1, <1>2, Parts, AskedTyped DEF Passes

LEMMA NothingPasses == ASSUME DoorOK, reqs' = reqs PROVE Passes
  BY Parts DEF Passes, DoorOK, DoorTypeOK

LEMMA SameTables ==
    ASSUME DoorOK, UNCHANGED <<store, people, cache, drafts>> PROVE TablesOK'
  BY DoorParts DEF TablesOK, store, people

LEMMA DoorVars == ASSUME UNCHANGED door PROVE UNCHANGED <<store, people, cache, drafts>> /\ reqs' = reqs
  BY DEF door, store, people

LEMMA StageStep == ASSUME DoorOK, NEW c \in Cids, Stage(c) PROVE WindowStep
  <1>1. TablesOK' /\ UNCHANGED <<store, people, cache>>
    BY DoorParts, HoldTyped DEF Stage, Hold
  <1> QED
    BY <1>1, NothingPasses DEF Stage, WindowStep

LEMMA EditStep == ASSUME DoorOK, Edit \/ Earlier \/ Number PROVE WindowStep
  BY DoorVars, SameTables, NothingPasses DEF Edit, Earlier, Number, WindowStep

LEMMA DeclinesStep == ASSUME DoorOK, Declines PROVE WindowStep
  BY SameTables, NothingPasses DEF Declines, WindowStep

LEMMA PressStep == ASSUME DoorOK, WinOK, Press PROVE WindowStep
  <1>1. UNCHANGED <<store, people, cache, drafts>>
    BY DEF Press
  <1>2. Passes
    <2>1. CASE reqs' = reqs
      BY <2>1, NothingPasses
    <2>2. CASE /\ win.parked # None
               /\ \E r \in Reqs : Sends(r, win.parked, [win EXCEPT !.resend = TRUE, !.again = TRUE])
      <3> DEFINE w == [win EXCEPT !.resend = TRUE, !.again = TRUE]
      <3>1. PICK r \in Reqs : Sends(r, win.parked, w)
        BY <2>2
      <3>2. w \in Window /\ w.parked = win.parked /\ win.parked \in Message
        BY <2>2 DEF WinOK, Window
      <3> HIDE DEF w
      <3> QED
        BY <3>1, <3>2, SendsPasses
    <2> QED
      BY <2>1, <2>2 DEF Press
  <1> QED
    BY <1>1, <1>2, SameTables DEF WindowStep

\* What the wallet signs.
Signed == [words |-> win.words, seq |-> win.next, n |-> signs + 1]

LEMMA SignedTyped == ASSUME WinOK, Sign PROVE Signed \in Message /\ signs + 1 \in 1 .. Signs
  <1>1. win.words \in Words /\ win.next \in 0 .. Seqs + 1 /\ win.next # 0 /\ signs \in 0 .. Signs
    BY DEF WinOK, Sign, Window
  <1>2. win.next <= Seqs /\ signs < Signs
    BY DEF Sign
  <1>3. Seqs \in Nat /\ Signs \in Nat
    BY BoundsAssumption
  <1>4. win.next \in 1 .. Seqs /\ signs + 1 \in 1 .. Signs
    BY <1>1, <1>2, <1>3
  <1> QED
    BY <1>1, <1>4 DEF Signed, Message

LEMMA SignStep ==
    ASSUME DoorOK, WinOK, Sign
    PROVE  /\ WindowStep
           /\ \E r \in Reqs : reqs' = [reqs EXCEPT ![r] = Asked(Signed)]
                /\ win' = [win EXCEPT !.parked = Signed, !.next = 0, !.tries = 0, !.again = TRUE,
                                      !.pc = "sending", !.req = r]
  <1> DEFINE m == Signed
             w == [win EXCEPT !.parked = m, !.next = 0, !.tries = 0, !.again = TRUE]
  <1>1. UNCHANGED <<store, people, cache, drafts>>
    BY DEF Sign
  <1>2. PICK r \in Reqs : Sends(r, m, w)
    BY DEF Sign, Signed
  <1>3. m \in Message
    BY SignedTyped
  <1>4. win \in Window /\ Tries \in Nat /\ Seqs \in Nat
    BY TriesAssumption, BoundsAssumption DEF WinOK
  <1>5. w \in Window /\ w.parked = m
    <2>1. 0 \in 0 .. Tries + 1 /\ 0 \in 0 .. Seqs + 1
      BY <1>4
    <2> HIDE DEF m
    <2>2. [win EXCEPT !.parked = m, !.next = 0] \in Window
      BY <1>3, <1>4, <2>1 DEF Window
    <2>3. w \in Window
      BY <2>1, <2>2 DEF Window
    <2>4. w.parked = m
      BY <1>4 DEF Window
    <2> QED
      BY <2>3, <2>4
  <1>6. Passes /\ reqs' = [reqs EXCEPT ![r] = Asked(m)] /\ win' = [w EXCEPT !.pc = "sending", !.req = r]
    <2> HIDE DEF w, m
    <2> QED
      BY <1>2, <1>3, <1>5, SendsPasses
  <1> QED
    BY <1>1, <1>4, <1>6, SameTables DEF WindowStep, Window

LEMMA HearStep == ASSUME DoorOK, WinOK, Hear PROVE WindowStep
  <1>1. UNCHANGED <<store, people, cache, drafts>>
    BY DEF Hear
  <1>2. reqs' = [reqs EXCEPT ![win.req] = Free]
    BY DEF Hear
  <1>3. Passes
    BY <1>2, Parts, FreeTyped DEF Passes, DoorOK, DoorTypeOK
  <1> QED
    BY <1>1, <1>3, SameTables DEF WindowStep

LEMMA UnheardStep == ASSUME DoorOK, NEW r \in Reqs, Unheard(r) PROVE WindowStep
  <1>1. UNCHANGED <<store, people, cache, drafts>>
    BY DEF Unheard
  <1>2. reqs' = [reqs EXCEPT ![r] = Free]
    BY DEF Unheard
  <1>3. Passes
    BY <1>2, Parts, FreeTyped DEF Passes, DoorOK, DoorTypeOK
  <1> QED
    BY <1>1, <1>3, SameTables DEF WindowStep

LEMMA AgainStep ==
    ASSUME DoorOK, WinOK, TriesOK, Again
    PROVE  /\ WindowStep
           /\ \E r \in Reqs : reqs' = [reqs EXCEPT ![r] = Asked(win.parked)]
                /\ win' = [win EXCEPT !.tries = win.tries + 1, !.pc = "sending", !.req = r]
  <1>1. UNCHANGED <<store, people, cache>>
    BY DEF Again
  <1>2. win.parked \in Message /\ win.parked.words = win.words /\ win \in Window
    BY DEF Again, WinOK
  <1>3. Pictures[win.words] \subseteq Cids
    BY <1>2, WordsAssumption DEF Message
  <1>4. TablesOK
    BY DoorParts
  <1>5. PICK c \in Pictures[win.words] : IF Live(c) THEN UNCHANGED drafts ELSE Hold(c)
    BY DEF Again
  <1>6. TablesOK'
    <2>1. CASE Live(c)
      BY <1>1, <1>5, <2>1, SameTables
    <2>2. CASE ~ Live(c)
      BY <1>3, <1>4, <1>5, <2>2, HoldTyped
    <2> QED
      BY <2>1, <2>2
  <1> DEFINE w == [win EXCEPT !.tries = win.tries + 1]
  <1>7. PICK r \in Reqs : Sends(r, win.parked, w)
    BY DEF Again
  <1>8. w \in Window /\ w.parked = win.parked /\ w.words = win.words
    <2>1. win.tries \in 0 .. Tries
      BY <1>2, TriesAssumption DEF TriesOK, Again, Window
    <2>2. win.tries + 1 \in 0 .. Tries + 1
      BY <2>1, TriesAssumption
    <2> QED
      BY <1>2, <2>2 DEF Window
  <1>9. Passes /\ reqs' = [reqs EXCEPT ![r] = Asked(win.parked)] /\ win' = [w EXCEPT !.pc = "sending", !.req = r]
    <2> HIDE DEF w
    <2> QED
      BY <1>2, <1>7, <1>8, SendsPasses
  <1> QED
    BY <1>1, <1>6, <1>9 DEF WindowStep

\* An answer that is lost: the request is left, or never came.
LEMMA LostStep == ASSUME DoorOK, WinOK, Lost PROVE WindowStep
  <1>1. UNCHANGED <<store, people, cache, drafts>>
    BY DEF Lost
  <1>2. win.parked \in Message /\ win \in Window
    BY DEF Lost, WinOK
  <1>3. PICK left \in {reqs, [reqs EXCEPT ![win.req] = Free]} :
          IF win.tries < Tries
          THEN \E r \in Places(left) :
                  /\ reqs' = [left EXCEPT ![r] = [Free EXCEPT !.pc = "known", !.msg = win.parked]]
                  /\ win' = [win EXCEPT !.tries = win.tries + 1, !.req = r]
          ELSE reqs' = left /\ win' = Idle
    BY DEF Lost
  <1>4. left \in [Reqs -> Request] /\ \A s \in Reqs : left[s] \in {reqs[s], Free}
    <2>1. reqs \in [Reqs -> Request]
      BY DEF DoorOK, DoorTypeOK
    <2>2. CASE left = reqs
      BY <2>1, <2>2
    <2>3. CASE left = [reqs EXCEPT ![win.req] = Free]
      BY <2>1, <2>3, FreeTyped
    <2> QED
      BY <1>3, <2>2, <2>3
  <1>5. Passes
    <2>1. CASE win.tries < Tries
      <3>1. PICK r \in Places(left) : /\ reqs' = [left EXCEPT ![r] = Asked(win.parked)]
                                      /\ win' = [win EXCEPT !.tries = win.tries + 1, !.req = r]
        BY <1>3, <2>1 DEF Asked
      <3>2. r \in Reqs
        BY DEF Places
      <3>3. win'.parked = win.parked
        BY <1>2, <3>1 DEF Window
      <3> QED
        BY <1>2, <1>4, <3>1, <3>2, <3>3, AskedTyped DEF Passes
    <2>2. CASE ~ (win.tries < Tries)
      BY <1>3, <1>4, <2>2 DEF Passes
    <2> QED
      BY <2>1, <2>2
  <1> QED
    BY <1>1, <1>5, SameTables DEF WindowStep

-----------------------------------------------------------------------------
(* A stranger leaves nothing.                                              *)

\* What has been judged of the key was once so.
Judgements ==
    /\ ever \subseteq {"free", "in"} /\ Right(standing, holds) \subseteq ever
    /\ cache.verdict = "pass" => "in" \in ever
    /\ log # {} \/ (\E c \in Cids : pins[c] # "none") => ever = {"free", "in"}

\* A request past the ban was of a key that was free, and past the gate of one
\* that was in.
Passed(q, e) ==
    /\ q.seen = "pass" \/ q.read = TRUE => "in" \in e
    /\ q.pc \in {"cooldown", "invited"} => "free" \in e
    /\ q.pc \in {"gate", "rpc", "verdict"} /\ q.msg # None => "free" \in e
    /\ q.pc \in {"seq", "promote", "add", "ingest"} => e = {"free", "in"}

StrangersInv == Judgements /\ \A r \in Reqs : Passed(reqs[r], ever)

LEMMA FreePassed == \A e : Passed(Free, e)
  <1>1. Free.pc = "none" /\ Free.seen = "none" /\ Free.read = FALSE
    BY DEF Free
  <1> QED
    BY <1>1 DEF Passed

LEMMA AskedPassed == \A m, e : Passed(Asked(m), e)
  <1>1. \A m : Asked(m).pc = "known" /\ Asked(m).seen = "none" /\ Asked(m).read = FALSE
    BY DEF Asked, Free
  <1> QED
    BY <1>1 DEF Passed

LEMMA AnswersPassed ==
    ASSUME DoorOK, StrangersInv, NEW r \in Reqs, NEW said, Answers(r, said)
    PROVE  Passed(reqs'[r], ever)
  <1>1. reqs \in [Reqs -> Request] /\ reqs[r] \in Request /\ Passed(reqs[r], ever)
    BY Parts DEF StrangersInv
  <1>2. reqs'[r] = [reqs[r] EXCEPT !.pc = "answered", !.said = said]
    BY <1>1 DEF Answers
  <1> QED
    BY <1>1, <1>2 DEF Passed, Request

\* A request goes to where the key's standing lets it.
LEMMA GoesPassed ==
    ASSUME DoorOK, StrangersInv, NEW r \in Reqs, NEW pc, Goes(r, pc),
           pc \in {"cooldown", "invited", "gate"} => "free" \in ever,
           pc \in {"seq", "ingest"} => ever = {"free", "in"},
           pc \in {"banned", "cooldown", "invited", "gate", "seq", "ingest"}
    PROVE  Passed(reqs'[r], ever)
  <1>1. reqs \in [Reqs -> Request] /\ reqs[r] \in Request /\ Passed(reqs[r], ever)
    BY Parts DEF StrangersInv
  <1>2. reqs'[r] = [reqs[r] EXCEPT !.pc = pc]
    BY <1>1 DEF Goes
  <1> QED
    BY <1>1, <1>2 DEF Passed, Request

LEMMA WindowStrange ==
    ASSUME DoorOK, StrangersInv, WindowStep PROVE StrangersInv'
  <1>1. ever' = ever /\ Judgements'
    BY DEF StrangersInv, Judgements, WindowStep, store, people
  <1>2. ASSUME NEW s \in Reqs PROVE Passed(reqs'[s], ever')
    <2>1. CASE reqs'[s] = reqs[s]
      BY <1>1, <2>1 DEF StrangersInv, Passed
    <2>2. CASE reqs'[s] = Free
      BY <2>2, FreePassed
    <2>3. CASE reqs'[s] = Asked(win'.parked)
      BY <2>3, AskedPassed
    <2> QED
      BY <2>1, <2>2, <2>3 DEF WindowStep, Passes
  <1> QED
    BY <1>1, <1>2 DEF StrangersInv

\* A step of one request, which changes no judgement.
LEMMA OneStrange ==
    ASSUME DoorOK, StrangersInv, NEW r \in Reqs, Changes(r), UNCHANGED <<store, people>>,
           cache'.verdict = "pass" => "in" \in ever, Passed(reqs'[r], ever)
    PROVE  StrangersInv'
  <1>1. ever' = ever /\ Judgements'
    BY DEF StrangersInv, Judgements, store, people
  <1>2. ASSUME NEW s \in Reqs PROVE Passed(reqs'[s], ever')
    <2>1. CASE s = r
      BY <1>1, <2>1 DEF Passed
    <2>2. CASE s # r
      <3>1. reqs'[s] = reqs[s]
        BY <2>2, Parts DEF Changes, Becomes
      <3> QED
        BY <1>1, <3>1 DEF StrangersInv, Passed
    <2> QED
      BY <2>1, <2>2
  <1> QED
    BY <1>1, <1>2 DEF StrangersInv

\* What a verdict does to a request that had been let past the ban.
LEMMA JudgedStrange ==
    ASSUME DoorOK, StrangersInv, NEW r \in Reqs, NEW verdict, reqs' = Judged(r, verdict),
           reqs[r].pc \in {"gate", "rpc", "verdict"}, verdict = "pass" => "in" \in ever
    PROVE  Passed(reqs'[r], ever)
  <1>1. reqs \in [Reqs -> Request] /\ Passed(reqs[r], ever) /\ ever \subseteq {"free", "in"}
    BY Parts DEF StrangersInv, Judgements
  <1>2. CASE reqs[r].msg = None
    <2>1. reqs'[r] = Free
      BY <1>1, <1>2 DEF Judged
    <2> QED
      BY <2>1, FreePassed
  <1>3. CASE reqs[r].msg # None /\ verdict = "pass"
    <2>1. reqs'[r] = [reqs[r] EXCEPT !.pc = "seq"]
      BY <1>1, <1>3 DEF Judged
    <2>2. ever = {"free", "in"}
      BY <1>1, <1>3 DEF Passed
    <2> QED
      BY <1>1, <2>1, <2>2 DEF Passed
  <1>4. CASE reqs[r].msg # None /\ verdict # "pass"
    <2>1. reqs'[r] = [reqs[r] EXCEPT !.pc = "answered", !.said = "forbidden"]
      BY <1>1, <1>4 DEF Judged
    <2>2. reqs[r] \in Request
      BY Parts
    <2> QED
      BY <1>1, <2>1, <2>2 DEF Passed, Request
  <1> QED
    BY <1>2, <1>3, <1>4

LEMMA ServeStrange ==
    ASSUME RpcUnavailable = "deny", DoorOK, StrangersInv, NEW r \in Reqs, Serve(r)
    PROVE  StrangersInv'
  <1> DEFINE q == reqs[r]
  <1>1. /\ reqs \in [Reqs -> Request] /\ q \in Request /\ Sound(q) /\ Passed(q, ever)
        /\ ever \subseteq {"free", "in"} /\ Right(standing, holds) \subseteq ever
        /\ cache.verdict = "pass" => "in" \in ever
        /\ ~ standing.banned => "free" \in ever
        /\ holds \/ standing.invited => "in" \in ever
    BY Parts DEF StrangersInv, Judgements, Right
  <1>2. CASE Known(r) \/ Banned(r) \/ LastPost(r) \/ Invited(r) \/ LastSeq(r) \/ Promoted(r) \/ AddFails(r)
             \/ \E c \in Cids : Promote(r, c)
    <2>1. Changes(r)
      BY <1>2, KnownChanges, BannedChanges, LastPostChanges, InvitedChanges, LastSeqChanges,
         PromotedChanges, AddFailsChanges, PromoteChanges
    <2>2. UNCHANGED <<store, people, cache>>
      BY <1>2 DEF Known, Banned, LastPost, Invited, LastSeq, Promoted, AddFails, Promote
    <2>3. q.msg \in Message /\ q.msg # None
      BY <1>1, <1>2, NoneAssumption
         DEF Known, Banned, LastPost, Invited, LastSeq, Promoted, AddFails, Promote, At, Sound
    <2>4. Passed(reqs'[r], ever)
      <3>1. CASE Known(r)
        BY <1>1, <3>1, AnswersPassed, GoesPassed DEF Known, At, Passed
      <3>2. CASE Banned(r)
        BY <1>1, <3>2, AnswersPassed, GoesPassed DEF Banned, At, Passed
      <3>3. CASE LastPost(r)
        BY <1>1, <3>3, AnswersPassed, GoesPassed DEF LastPost, At, Passed
      <3>4. CASE Invited(r)
        BY <1>1, <3>4, AnswersPassed, GoesPassed DEF Invited, At, Passed
      <3>5. CASE LastSeq(r)
        BY <1>1, <3>5 DEF LastSeq, At, Passed, Request
      <3>6. CASE Promoted(r)
        BY <1>1, <3>6 DEF Promoted, At, Goes, Passed, Request
      <3>7. CASE AddFails(r)
        BY <1>1, <3>7 DEF AddFails, At, Answers, Passed, Request
      <3>8. ASSUME NEW c \in Cids, Promote(r, c) PROVE Passed(reqs'[r], ever)
        BY <1>1, <3>8 DEF Promote, At, Passed, Request
      <3> QED
        BY <1>2, <3>1, <3>2, <3>3, <3>4, <3>5, <3>6, <3>7, <3>8
    <2> HIDE DEF q
    <2> QED
      BY <1>1, <2>1, <2>2, <2>4, OneStrange
  <1>3. CASE Check(r)
    <2>1. UNCHANGED <<store, people, cache>> /\ q.pc = "gate"
      BY <1>3 DEF Check, At
    <2>2. Passed(reqs'[r], ever)
      <3>1. CASE cache.fresh
        <4>1. reqs' = Judged(r, cache.verdict)
          BY <1>3, <3>1 DEF Check
        <4> QED
          BY <1>1, <2>1, <4>1, JudgedStrange
      <3>2. CASE ~ cache.fresh
        <4>1. reqs'[r] = [q EXCEPT !.pc = "rpc", !.seen = cache.verdict]
          BY <1>1, <1>3, <3>2 DEF Check
        <4> QED
          BY <1>1, <2>1, <4>1 DEF Passed, Request
      <3> QED
        BY <3>1, <3>2
    <2> QED
      BY <1>1, <1>3, <2>1, <2>2, CheckChanges, OneStrange
  <1>4. CASE Balance(r)
    <2>1. UNCHANGED <<store, people, cache>> /\ q.pc = "rpc"
      BY <1>4 DEF Balance, At
    <2>2. reqs'[r] = [q EXCEPT !.pc = "verdict", !.read = holds]
      BY <1>1, <1>4 DEF Balance
    <2>3. reqs'[r].pc = "verdict" /\ reqs'[r].read = holds /\ reqs'[r].seen = q.seen /\ reqs'[r].msg = q.msg
      BY <1>1, <2>2 DEF Request
    <2>4. Passed(reqs'[r], ever)
      BY <1>1, <2>1, <2>3 DEF Passed
    <2> QED
      BY <1>1, <1>4, <2>1, <2>4, BalanceChanges, OneStrange
  <1>5. CASE RpcFails(r)
    <2>1. UNCHANGED <<store, people, cache>> /\ q.pc = "rpc" /\ reqs' = Judged(r, Unread(q.seen))
      BY <1>5 DEF RpcFails, At
    <2>2. Unread(q.seen) = "pass" => q.seen = "pass"
      BY DEF Unread
    <2>3. Passed(reqs'[r], ever)
      BY <1>1, <2>1, <2>2, JudgedStrange DEF Passed
    <2> QED
      BY <1>1, <1>5, <2>1, <2>3, RpcFailsChanges, OneStrange
  <1>6. CASE Verdict(r)
    <2> DEFINE v == IF q.read THEN "pass" ELSE "below"
    <2>1. UNCHANGED <<store, people>> /\ q.pc = "verdict" /\ reqs' = Judged(r, v) /\ cache'.verdict = v
      BY <1>6 DEF Verdict, At
    <2>2. v = "pass" => "in" \in ever
      BY <1>1 DEF Passed, Request
    <2> HIDE DEF v
    <2>3. Passed(reqs'[r], ever)
      BY <2>1, <2>2, JudgedStrange
    <2> QED
      BY <1>6, <2>1, <2>2, <2>3, VerdictChanges, OneStrange
  <1>7. CASE Add(r) \/ Ingest(r)
    <2>1. ever = {"free", "in"} /\ UNCHANGED <<people, cache>>
      BY <1>1, <1>7 DEF Add, Ingest, At, Passed
    <2>2. Changes(r)
      BY <1>7, AddChanges, IngestChanges
    <2>3. Judgements'
      BY <1>1, <2>1 DEF Judgements, people
    <2>4. ASSUME NEW s \in Reqs PROVE Passed(reqs'[s], ever')
      <3>1. ever' = {"free", "in"}
        BY <2>1 DEF people
      <3> QED
        BY <3>1 DEF Passed
    <2> QED
      BY <2>3, <2>4 DEF StrangersInv
  <1> QED
    BY <1>2, <1>3, <1>4, <1>5, <1>6, <1>7 DEF Serve

LEMMA MeanwhileStrange ==
    ASSUME DoorOK, StrangersInv, Meanwhile PROVE StrangersInv'
  <1>1. /\ ever \subseteq {"free", "in"} /\ Right(standing, holds) \subseteq ever
        /\ cache.verdict = "pass" => "in" \in ever
        /\ log # {} \/ (\E c \in Cids : pins[c] # "none") => ever = {"free", "in"}
        /\ \A s \in Reqs : Passed(reqs[s], ever)
    BY DEF StrangersInv, Judgements
  <1>2. CASE Cool \/ Age \/ Elsewhere \/ \E c \in Cids : Lapse(c)
    <2>1. UNCHANGED <<log, pins, people>> /\ cache'.verdict = cache.verdict /\ reqs' = reqs
      <3>1. cache \in [verdict : {"none", "pass", "below"}, fresh : BOOLEAN]
        BY DEF DoorOK, DoorTypeOK
      <3> QED
        BY <1>2, <3>1 DEF Cool, Age, Elsewhere, Lapse, store
    <2> QED
      BY <1>1, <2>1 DEF StrangersInv, Judgements, people
  <1>3. CASE Judge
    <2>1. ever' = ever \cup Right(standing', holds') /\ UNCHANGED <<log, pins, cache>> /\ reqs' = reqs
      BY <1>3 DEF Judge, store
    <2>2. Right(standing', holds') \subseteq {"free", "in"}
      BY DEF Right
    <2>3. Judgements'
      BY <1>1, <2>1, <2>2 DEF Judgements
    <2>4. ASSUME NEW s \in Reqs PROVE Passed(reqs'[s], ever')
      BY <1>1, <2>1, <2>2 DEF Passed
    <2> QED
      BY <2>3, <2>4 DEF StrangersInv
  <1>4. ASSUME NEW c \in Cids, Linger(c) \/ SweepStaged(c) PROVE StrangersInv'
    <2>1. UNCHANGED <<log, people, cache>> /\ reqs' = reqs
      BY <1>4 DEF Linger, SweepStaged
    <2>2. pins \in [Cids -> {"none", "staged", "aged", "kept"}]
      BY DEF DoorOK, DoorTypeOK
    <2>3. \A d \in Cids : pins'[d] # "none" => pins[d] # "none"
      BY <1>4, <2>2 DEF Linger, SweepStaged
    <2> QED
      BY <1>1, <2>1, <2>3 DEF StrangersInv, Judgements, people
  <1>5. ASSUME NEW r \in Reqs, Look(r) PROVE StrangersInv'
    <2>1. UNCHANGED <<store, people, cache>> /\ reqs' = [reqs EXCEPT ![r] = [Free EXCEPT !.pc = "gate"]]
      BY <1>5 DEF Look
    <2>2. reqs'[r].pc = "gate" /\ reqs'[r].msg = None /\ reqs'[r].seen = "none" /\ reqs'[r].read = FALSE
      BY <2>1, Parts DEF Free
    <2>3. Passed(reqs'[r], ever)
      BY <2>2 DEF Passed
    <2> QED
      BY <1>1, <1>5, <2>1, <2>3, LookChanges, OneStrange
  <1> QED
    BY <1>2, <1>3, <1>4, <1>5 DEF Meanwhile

-----------------------------------------------------------------------------
(* A post is in the log once.                                              *)

\* A message whose seq is over, and which is not in, does not come in.
Dead(m) == m \notin log /\ m.seq <= seq

\* Where a message may still come from, or has come in.
Out(m) == m \in log \/ win.parked = m \/ \E s \in Reqs : reqs[s].msg = m

Over(m) == m \in dropped \/ Dead(m)

StaleOK == \A s \in Reqs : reqs[s].said = "stale" => reqs[s].msg \in Message /\ Dead(reqs[s].msg)

\* Of the words in the window only the parked message may still come in; of the
\* words before them, one message.
OnceInv ==
    /\ StaleOK
    /\ \A m \in Message : Out(m) => win.words = 0 \/ m.words <= win.words
    /\ \A m \in Message : Out(m) /\ m.words = win.words => m = win.parked \/ Over(m)
    /\ \A m, k \in Message : Out(m) /\ Out(k) /\ m.words = k.words => m = k \/ Over(m) \/ Over(k)

LEMMA MessageParts == ASSUME NEW m \in Message PROVE m.words \in Words /\ m.words \in Nat \ {0} /\ m.seq \in Nat
  <1>1. m.words \in Words /\ m.seq \in 1 .. Seqs
    BY DEF Message
  <1>2. Words \subseteq Nat \ {0} /\ Seqs \in Nat
    BY WordsAssumption, BoundsAssumption
  <1>3. m.words \in Nat \ {0}
    BY <1>1, <1>2
  <1>4. m.seq \in Nat
    BY <1>1, <1>2
  <1> QED
    BY <1>1, <1>3, <1>4

LEMMA SeqTyped == ASSUME DoorOK PROVE seq \in Nat
  BY BoundsAssumption DEF DoorOK, DoorTypeOK

LEMMA SeqTypedThen == ASSUME DoorOK' PROVE seq' \in Nat
  BY BoundsAssumption DEF DoorOK, DoorTypeOK

\* A step of the hub's own: requests keep their messages, and only a message
\* with a later seq comes in.
Quiet ==
    /\ \A s \in Reqs : reqs'[s].msg = reqs[s].msg
    /\ \A m \in Message : m \in log => m \in log'
    /\ \A m \in Message : m \in log' => m \in log \/ (m.seq > seq /\ \E s \in Reqs : reqs[s].msg = m)
    /\ seq \in Nat /\ seq' \in Nat /\ seq <= seq'
    /\ \A s \in Reqs : reqs'[s].said = "stale" =>
          reqs[s].said = "stale" \/ (reqs[s].msg \in Message /\ Dead(reqs[s].msg))

LEMMA QuietDead == ASSUME Quiet, NEW m \in Message, Dead(m) PROVE Dead(m)'
  <1>1. m.seq \in Nat /\ m \notin log /\ m.seq <= seq
    BY MessageParts DEF Dead
  <1>2. seq \in Nat /\ seq' \in Nat /\ seq <= seq' /\ m \notin log'
    BY <1>1 DEF Quiet
  <1> QED
    BY <1>1, <1>2 DEF Dead

LEMMA QuietOnce ==
    ASSUME OnceInv, Quiet, UNCHANGED window PROVE OnceInv'
  <1>1. win' = win /\ signs' = signs /\ dropped' = dropped
    BY DEF window
  <1>2. ASSUME NEW m \in Message PROVE (Out(m)' => Out(m)) /\ (Over(m) => Over(m)')
    BY <1>1, QuietDead DEF Out, Over, Quiet
  <1>3. StaleOK'
    <2>1. ASSUME NEW s \in Reqs, reqs'[s].said = "stale"
          PROVE  reqs'[s].msg \in Message /\ reqs'[s].msg \notin log' /\ reqs'[s].msg.seq <= seq'
      <3>1. PICK m \in Message : Dead(m) /\ reqs'[s].msg = m
        BY <2>1 DEF Quiet, OnceInv, StaleOK
      <3>2. Dead(m)'
        BY <3>1, QuietDead
      <3>3. m \notin log' /\ m.seq <= seq'
        BY <3>2 DEF Dead
      <3> QED
        BY <3>1, <3>3
    <2> QED
      BY <2>1 DEF StaleOK, Dead
  <1>4. \A m \in Message : Out(m)' => win'.words = 0 \/ m.words <= win'.words
    BY <1>1, <1>2 DEF OnceInv
  <1>5. \A m \in Message : Out(m)' /\ m.words = win'.words => m = win'.parked \/ Over(m)'
    BY <1>1, <1>2 DEF OnceInv
  <1>6. \A m, k \in Message : Out(m)' /\ Out(k)' /\ m.words = k.words => m = k \/ Over(m)' \/ Over(k)'
    BY <1>2 DEF OnceInv
  <1> QED
    BY <1>3, <1>4, <1>5, <1>6 DEF OnceInv

\* A step of one request, which is not the one that takes a message in.
LEMMA OneQuiet ==
    ASSUME DoorOK, NEW r \in Reqs, Changes(r), log' = log, seq' = seq, reqs'[r].msg = reqs[r].msg,
           reqs'[r].said = "stale" => reqs[r].said = "stale"
    PROVE  Quiet
  <1>1. \A s \in Reqs : s # r => reqs'[s] = reqs[s]
    BY Parts DEF Changes, Becomes
  <1>2. seq \in Nat
    BY SeqTyped
  <1> QED
    BY <1>1, <1>2 DEF Quiet

LEMMA JudgedQuiet ==
    ASSUME DoorOK, NEW r \in Reqs, NEW verdict, reqs' = Judged(r, verdict)
    PROVE  reqs'[r].msg = reqs[r].msg /\ (reqs'[r].said = "stale" => reqs[r].said = "stale")
  <1>1. reqs \in [Reqs -> Request] /\ reqs[r] \in Request
    BY Parts
  <1>2. CASE reqs[r].msg = None
    <2>1. reqs'[r] = Free
      BY <1>1, <1>2 DEF Judged
    <2>2. Free.msg = None /\ Free.said = ""
      BY DEF Free
    <2> QED
      BY <1>2, <2>1, <2>2
  <1>3. CASE reqs[r].msg # None /\ verdict = "pass"
    <2>1. reqs'[r] = [reqs[r] EXCEPT !.pc = "seq"]
      BY <1>1, <1>3 DEF Judged
    <2> QED
      BY <1>1, <2>1 DEF Request
  <1>4. CASE reqs[r].msg # None /\ verdict # "pass"
    <2>1. reqs'[r] = [reqs[r] EXCEPT !.pc = "answered", !.said = "forbidden"]
      BY <1>1, <1>4 DEF Judged
    <2> QED
      BY <1>1, <2>1 DEF Request
  <1> QED
    BY <1>2, <1>3, <1>4

\* What a request says is stale says so of a message that is over.
LEMMA IngestQuiet == ASSUME DoorOK, NEW r \in Reqs, Ingest(r) PROVE Quiet
  <1> DEFINE m == reqs[r].msg
  <1>1. reqs \in [Reqs -> Request] /\ reqs[r] \in Request /\ m \in Message
    BY Parts DEF Ingest, At, Sound
  <1>2. reqs'[r] = [reqs[r] EXCEPT !.pc = "answered", !.said = Taken(m)]
    BY <1>1 DEF Ingest, Answers
  <1>3. reqs'[r].msg = m /\ reqs'[r].said = Taken(m)
    BY <1>1, <1>2 DEF Request
  <1>4. \A s \in Reqs : s # r => reqs'[s] = reqs[s]
    BY <1>1 DEF Ingest, Answers
  <1>5. m.seq \in Nat /\ seq \in Nat
    BY <1>1, MessageParts, SeqTyped
  <1>6. Taken(m) = "stale" => Dead(m)
    BY <1>5 DEF Taken, Dead
  <1>7. CASE Taken(m) = "accepted"
    <2>1. log' = log \cup {m} /\ seq' = m.seq
      BY <1>7 DEF Ingest
    <2>2. m \notin log /\ m.seq > seq
      <3>1. m \notin log /\ ~ (m.seq <= seq)
        BY <1>7 DEF Taken
      <3> QED
        BY <1>5, <3>1
    <2>3. \A s \in Reqs : reqs'[s].msg = reqs[s].msg
      BY <1>3, <1>4
    <2>4. \A s \in Reqs : reqs'[s].said = "stale" => reqs[s].said = "stale"
      BY <1>3, <1>4, <1>7
    <2>5. seq <= seq' /\ seq' \in Nat
      BY <1>5, <2>1, <2>2
    <2>6. reqs[r].msg = m
      OBVIOUS
    <2> HIDE DEF m
    <2> QED
      BY <1>5, <2>1, <2>2, <2>3, <2>4, <2>5, <2>6 DEF Quiet
  <1>8. CASE Taken(m) # "accepted"
    <2>1. log' = log /\ seq' = seq
      BY <1>8 DEF Ingest, store
    <2>2. \A s \in Reqs : reqs'[s].msg = reqs[s].msg
      BY <1>3, <1>4
    <2>3. \A s \in Reqs : reqs'[s].said = "stale" =>
             reqs[s].said = "stale" \/ (reqs[s].msg \in Message /\ Dead(reqs[s].msg))
      BY <1>1, <1>3, <1>4, <1>6
    <2> QED
      BY <1>5, <2>1, <2>2, <2>3 DEF Quiet
  <1> QED
    BY <1>7, <1>8

LEMMA ServeQuiet == ASSUME DoorOK, NEW r \in Reqs, Serve(r) PROVE Quiet
  <1>1. reqs \in [Reqs -> Request] /\ reqs[r] \in Request
    BY Parts
  <1>2. CASE Known(r) \/ Banned(r) \/ LastPost(r) \/ AddFails(r)
    <2>1. Changes(r) /\ log' = log /\ seq' = seq
      BY <1>2, KnownChanges, BannedChanges, LastPostChanges, AddFailsChanges
         DEF Known, Banned, LastPost, AddFails, store
    <2>2. PICK pc, said : Goes(r, pc) \/ (Answers(r, said) /\ said # "stale")
      BY <1>2 DEF Known, Banned, LastPost, AddFails
    <2>3. \/ reqs'[r] = [reqs[r] EXCEPT !.pc = pc]
          \/ reqs'[r] = [reqs[r] EXCEPT !.pc = "answered", !.said = said]
      BY <1>1, <2>2 DEF Goes, Answers
    <2>4. reqs'[r].msg = reqs[r].msg /\ (reqs'[r].said = "stale" => reqs[r].said = "stale")
      BY <1>1, <2>2, <2>3 DEF Request, Goes, Answers
    <2> QED
      BY <2>1, <2>4, OneQuiet
  <1>3. CASE Invited(r) \/ Promoted(r)
    <2>1. Changes(r) /\ log' = log /\ seq' = seq
      BY <1>3, InvitedChanges, PromotedChanges DEF Invited, Promoted, store
    <2>2. PICK pc : Goes(r, pc)
      BY <1>3 DEF Invited, Promoted
    <2>3. reqs'[r] = [reqs[r] EXCEPT !.pc = pc]
      BY <1>1, <2>2 DEF Goes
    <2> QED
      BY <1>1, <2>1, <2>3, OneQuiet DEF Request
  <1>4. CASE Check(r)
    <2>1. Changes(r) /\ log' = log /\ seq' = seq
      BY <1>4, CheckChanges DEF Check, store
    <2>2. CASE cache.fresh
      BY <1>4, <2>1, <2>2, JudgedQuiet, OneQuiet DEF Check
    <2>3. CASE ~ cache.fresh
      <3>1. reqs'[r] = [reqs[r] EXCEPT !.pc = "rpc", !.seen = cache.verdict]
        BY <1>1, <1>4, <2>3 DEF Check
      <3> QED
        BY <1>1, <2>1, <3>1, OneQuiet DEF Request
    <2> QED
      BY <2>2, <2>3
  <1>5. CASE Balance(r)
    <2>1. Changes(r) /\ log' = log /\ seq' = seq
      BY <1>5, BalanceChanges DEF Balance, store
    <2>2. reqs'[r] = [reqs[r] EXCEPT !.pc = "verdict", !.read = holds]
      BY <1>1, <1>5 DEF Balance
    <2> QED
      BY <1>1, <2>1, <2>2, OneQuiet DEF Request
  <1>6. CASE RpcFails(r)
    <2>1. Changes(r) /\ log' = log /\ seq' = seq
      BY <1>6, RpcFailsChanges DEF RpcFails, store
    <2> QED
      BY <1>6, <2>1, JudgedQuiet, OneQuiet DEF RpcFails
  <1>7. CASE Verdict(r)
    <2>1. Changes(r) /\ log' = log /\ seq' = seq
      BY <1>7, VerdictChanges DEF Verdict, store
    <2> QED
      BY <1>7, <2>1, JudgedQuiet, OneQuiet DEF Verdict
  <1>8. CASE LastSeq(r)
    <2>1. Changes(r) /\ log' = log /\ seq' = seq
      BY <1>8, LastSeqChanges DEF LastSeq, store
    <2>2. PICK left : reqs'[r] = [reqs[r] EXCEPT !.pc = "promote", !.left = left]
      BY <1>1, <1>8 DEF LastSeq
    <2> QED
      BY <1>1, <2>1, <2>2, OneQuiet DEF Request
  <1>9. ASSUME NEW c \in Cids, Promote(r, c) PROVE Quiet
    <2>1. Changes(r) /\ log' = log /\ seq' = seq
      BY <1>9, PromoteChanges DEF Promote, store
    <2>2. PICK pc, hand, left : reqs'[r] = [reqs[r] EXCEPT !.pc = pc, !.hand = hand, !.left = left]
      BY <1>1, <1>9 DEF Promote
    <2> QED
      BY <1>1, <2>1, <2>2, OneQuiet DEF Request
  <1>10. CASE Add(r)
    <2>1. Changes(r) /\ log' = log /\ seq' = seq
      BY <1>10, AddChanges DEF Add
    <2>2. reqs'[r] = [reqs[r] EXCEPT !.pc = "promote", !.hand = None]
      BY <1>1, <1>10 DEF Add
    <2> QED
      BY <1>1, <2>1, <2>2, OneQuiet DEF Request
  <1> QED
    BY <1>2, <1>3, <1>4, <1>5, <1>6, <1>7, <1>8, <1>9, <1>10, IngestQuiet DEF Serve

LEMMA MeanwhileQuiet == ASSUME DoorOK, Meanwhile PROVE Quiet
  <1>1. seq \in Nat
    BY SeqTyped
  <1>2. CASE Cool \/ Age \/ Judge \/ \E c \in Cids : Lapse(c) \/ Linger(c) \/ SweepStaged(c)
    <2>1. reqs' = reqs /\ log' = log /\ seq' = seq
      BY <1>2 DEF Cool, Age, Judge, Lapse, Linger, SweepStaged, store
    <2> QED
      BY <1>1, <2>1 DEF Quiet
  <1>3. CASE Elsewhere
    <2>1. reqs' = reqs /\ log' = log /\ seq' = seq + 1
      BY <1>3 DEF Elsewhere
    <2> QED
      BY <1>1, <2>1 DEF Quiet
  <1>4. ASSUME NEW r \in Reqs, Look(r) PROVE Quiet
    <2>1. reqs \in [Reqs -> Request] /\ log' = log /\ seq' = seq
      BY <1>4, Parts DEF Look, store, DoorOK, DoorTypeOK
    <2>2. reqs[r].pc = "none"
      BY <1>4 DEF Look, Places
    <2>3. reqs[r].msg = None
      BY <2>2, Parts DEF Sound
    <2>4. reqs'[r] = [Free EXCEPT !.pc = "gate"]
      BY <1>4, <2>1 DEF Look
    <2>5. reqs'[r].msg = reqs[r].msg /\ reqs'[r].said = ""
      BY <2>3, <2>4 DEF Free
    <2> QED
      BY <1>4, <2>1, <2>5, LookChanges, OneQuiet
  <1> QED
    BY <1>2, <1>3, <1>4 DEF Meanwhile

\* The window does not see what the hub does, but for its answers.
LEMMA QuietWin == ASSUME WinOK, Quiet, UNCHANGED window PROVE WinOK'
  BY DEF WinOK, Quiet, window

-----------------------------------------------------------------------------
(* ... step by step of the window.                                         *)

\* Nothing comes in with a step of the window, and of messages only what is parked.
LEMMA WindowOut ==
    ASSUME DoorOK, WindowStep, dropped \subseteq dropped', NEW m \in Message
    PROVE  /\ Dead(m)' <=> Dead(m)
           /\ Over(m) => Over(m)'
           /\ Out(m)' => Out(m) \/ win'.parked = m
  <1>1. log' = log /\ seq' = seq
    BY DEF WindowStep, store
  <1>2. ASSUME NEW s \in Reqs, reqs'[s].msg = m PROVE reqs[s].msg = m \/ win'.parked = m
    <2>1. Free.msg = None /\ m # None
      BY NoneAssumption DEF Free
    <2>2. Asked(win'.parked).msg = win'.parked
      BY DEF Asked, Free
    <2> QED
      BY <1>2, <2>1, <2>2 DEF WindowStep, Passes
  <1> QED
    BY <1>1, <1>2 DEF Dead, Over, Out

LEMMA WindowStale ==
    ASSUME DoorOK, StaleOK, WindowStep, dropped \subseteq dropped' PROVE StaleOK'
  <1>1. ASSUME NEW s \in Reqs, reqs'[s].said = "stale"
        PROVE  reqs'[s].msg \in Message /\ reqs'[s].msg \notin log' /\ reqs'[s].msg.seq <= seq'
    <2>1. Free.said = "" /\ Asked(win'.parked).said = ""
      BY DEF Free, Asked
    <2>2. reqs'[s] = reqs[s]
      BY <1>1, <2>1 DEF WindowStep, Passes
    <2> QED
      BY <1>1, <2>2 DEF StaleOK, Dead, WindowStep, store
  <1> QED
    BY <1>1 DEF StaleOK, Dead

\* The window goes on to its next words, or lets go of what is parked.
LEMMA WindowOnce ==
    ASSUME DoorOK, OnceInv, WindowStep, dropped \subseteq dropped',
           win.words \in Words \cup {0}, win'.parked \in {win.parked, None},
           win'.words = win.words \/ (win.words # 0 /\ win'.words = After(win.words)),
           \A m \in Message : m = win.parked /\ m.words = win'.words =>
              m = win'.parked \/ m \in dropped' \/ Dead(m)
    PROVE  OnceInv'
  <1>1. StaleOK'
    BY WindowStale DEF OnceInv
  <1>2. ASSUME NEW m \in Message PROVE (Out(m)' => Out(m)) /\ (Over(m) => Over(m)') /\ (Dead(m) => Over(m)')
    <2>1. win'.parked = m => win.parked = m
      BY NoneAssumption
    <2> QED
      BY <2>1, WindowOut DEF Out, Over
  <1>3. win.words \in Nat
    <2>1. Words \subseteq Nat
      BY WordsAssumption
    <2>2. win.words \in Words \/ win.words = 0
      OBVIOUS
    <2>3. CASE win.words \in Words
      BY <2>1, <2>3
    <2>4. CASE win.words = 0
      BY <2>4
    <2> QED
      BY <2>2, <2>3, <2>4
  <1>4. ASSUME NEW m \in Message, Out(m) PROVE win'.words = 0 \/ m.words <= win'.words
    <2>1. m.words \in Nat /\ (win.words = 0 \/ m.words <= win.words)
      BY <1>4, MessageParts DEF OnceInv
    <2>2. CASE win'.words = win.words
      BY <2>1, <2>2
    <2>3. CASE win.words # 0 /\ win'.words = After(win.words)
      <3>1. win'.words = 0 \/ win'.words = win.words + 1
        BY <2>3 DEF After
      <3> QED
        BY <1>3, <2>1, <2>3, <3>1
    <2> QED
      BY <2>2, <2>3
  <1>5. ASSUME NEW m \in Message, Out(m), m.words = win'.words PROVE m = win'.parked \/ Over(m)'
    <2>1. m.words \in Nat \ {0} /\ (win.words = 0 \/ m.words <= win.words)
      BY <1>5, MessageParts DEF OnceInv
    <2>2. CASE win'.words = win.words
      <3>1. m = win.parked \/ Over(m)
        BY <1>5, <2>2 DEF OnceInv
      <3>2. m = win.parked => m = win'.parked \/ m \in dropped' \/ Dead(m)
        BY <1>5
      <3>3. m \in dropped' => Over(m)'
        BY DEF Over
      <3> QED
        BY <1>2, <3>1, <3>2, <3>3
    <2>3. CASE win.words # 0 /\ win'.words = After(win.words)
      <3>1. win'.words = 0 \/ win'.words = win.words + 1
        BY <2>3 DEF After
      <3> QED
        BY <1>3, <1>5, <2>1, <2>3, <3>1
    <2> QED
      BY <2>2, <2>3
  <1>6. \A m \in Message : Out(m)' => win'.words = 0 \/ m.words <= win'.words
    BY <1>2, <1>4
  <1>7. \A m \in Message : Out(m)' /\ m.words = win'.words => m = win'.parked \/ Over(m)'
    BY <1>2, <1>5
  <1>8. \A m, k \in Message : Out(m)' /\ Out(k)' /\ m.words = k.words => m = k \/ Over(m)' \/ Over(k)'
    BY <1>2 DEF OnceInv
  <1> QED
    BY <1>1, <1>6, <1>7, <1>8 DEF OnceInv

\* What is signed is the one message of its words that may come in.
LEMMA SignOnce ==
    ASSUME DoorOK, WinOK, OnceInv, Sign PROVE OnceInv'
  <1> DEFINE m == Signed
  <1>1. WindowStep /\ m \in Message
    BY SignStep, SignedTyped
  <1>2. win'.parked = m /\ win'.words = win.words /\ dropped' = dropped
    BY SignStep DEF WinOK, Window, Sign
  <1>3. win.parked = None /\ win.words # 0
    BY DEF WinOK, Sign
  <1>4. m.words = win.words
    BY DEF Signed
  <1> HIDE DEF m
  <1>5. StaleOK'
    BY <1>1, <1>2, WindowStale DEF OnceInv
  <1>6. ASSUME NEW k \in Message PROVE (Out(k)' => Out(k) \/ k = m) /\ (Over(k) => Over(k)')
    BY <1>1, <1>2, WindowOut
  <1>7. ASSUME NEW k \in Message, Out(k), k.words = win.words PROVE Over(k)'
    BY <1>3, <1>6, <1>7, NoneAssumption DEF OnceInv
  <1>8. \A k \in Message : Out(k)' => win'.words = 0 \/ k.words <= win'.words
    <2>1. m.words \in Nat
      BY <1>1, MessageParts
    <2> QED
      BY <1>2, <1>4, <1>6, <2>1 DEF OnceInv
  <1>9. \A k \in Message : Out(k)' /\ k.words = win'.words => k = win'.parked \/ Over(k)'
    BY <1>2, <1>6, <1>7
  <1>10. ASSUME NEW k \in Message, NEW l \in Message, Out(k)', Out(l)', k.words = l.words
         PROVE  k = l \/ Over(k)' \/ Over(l)'
    <2>1. CASE Out(k) /\ Out(l)
      BY <1>6, <1>10, <2>1 DEF OnceInv
    <2>2. CASE k = m \/ l = m
      BY <1>4, <1>6, <1>7, <1>10, <2>2
    <2> QED
      BY <1>6, <1>10, <2>1, <2>2
  <1> QED
    BY <1>5, <1>8, <1>9, <1>10 DEF OnceInv

-----------------------------------------------------------------------------
(* The window's invariant, and what is in the log once, action by action.  *)

WindowInv == WinOK /\ OnceInv

LEMMA StageWin == ASSUME DoorOK, WindowInv, NEW c \in Cids, Stage(c) PROVE WindowInv'
  <1>1. WindowStep /\ reqs' = reqs /\ win' = win /\ signs' = signs /\ dropped' = dropped
    BY StageStep DEF Stage, window
  <1>2. WinOK'
    BY <1>1 DEF WindowInv, WinOK
  <1>3. win.words \in Words \cup {0}
    BY DEF WindowInv, WinOK, Window
  <1>4. OnceInv'
    BY <1>1, <1>3, WindowOnce DEF WindowInv
  <1> QED
    BY <1>2, <1>4 DEF WindowInv

LEMMA EditWin == ASSUME DoorOK, WindowInv, Edit PROVE WindowInv'
  <1>1. WindowStep /\ reqs' = reqs /\ signs' = signs /\ dropped' = dropped
    BY EditStep, DoorVars DEF Edit
  <1>2. win \in Window /\ win' = [win EXCEPT !.words = After(win.words)] /\ win.pc = "idle" /\ win.words # 0
        /\ After(win.words) # 0
    BY DEF WindowInv, WinOK, Edit
  <1>3. After(win.words) \in Words \cup {0}
    BY DEF After
  <1>4. win' \in Window /\ win'.pc = "idle" /\ win'.parked = win.parked /\ win'.words = After(win.words)
        /\ win.words \in Words \cup {0}
    BY <1>2, <1>3 DEF Window
  <1>5. WinOK'
    BY <1>1, <1>4 DEF WindowInv, WinOK
  <1>6. OnceInv'
    BY <1>1, <1>2, <1>4, WindowOnce DEF WindowInv
  <1> QED
    BY <1>5, <1>6 DEF WindowInv

LEMMA EarlierWin == ASSUME DoorOK, WindowInv, Earlier PROVE WindowInv'
  <1>1. WindowStep /\ reqs' = reqs /\ signs' = signs /\ dropped' = dropped \cup ({win.parked} \ log)
    BY EditStep, DoorVars DEF Earlier
  <1>2. /\ win \in Window /\ win.parked \in Message /\ win.parked.words # win.words /\ win.words # 0
        /\ dropped \subseteq Message /\ signs \in 0 .. Signs
    BY DEF WindowInv, WinOK, Earlier
  <1>3. PICK pc \in {"idle", "number"} : win' = [win EXCEPT !.parked = None, !.pc = pc]
    BY DEF Earlier
  <1>4. win' \in Window /\ win'.pc \in {"idle", "number"} /\ win'.parked = None /\ win'.words = win.words
        /\ win.words \in Words \cup {0}
    BY <1>2, <1>3 DEF Window
  <1>5. WinOK'
    BY <1>1, <1>2, <1>4 DEF WinOK
  <1>6. OnceInv'
    BY <1>1, <1>2, <1>4, WindowOnce DEF WindowInv
  <1> QED
    BY <1>5, <1>6 DEF WindowInv

LEMMA NumberWin == ASSUME DoorOK, WindowInv, Number PROVE WindowInv'
  <1>1. WindowStep /\ reqs' = reqs /\ signs' = signs /\ dropped' = dropped
    BY EditStep, DoorVars DEF Number
  <1>2. win \in Window /\ win.parked = None /\ win.words # 0
    BY DEF WindowInv, WinOK, Number
  <1>3. seq + 1 \in 0 .. Seqs + 1 /\ seq + 1 # 0
    BY BoundsAssumption DEF DoorOK, DoorTypeOK
  <1>4. win' = [win EXCEPT !.pc = "sign", !.next = seq + 1]
    BY DEF Number
  <1>5. win' \in Window /\ win'.pc = "sign" /\ win'.parked = None /\ win'.words = win.words /\ win'.next # 0
        /\ win.words \in Words \cup {0}
    BY <1>2, <1>3, <1>4 DEF Window
  <1>6. WinOK'
    BY <1>1, <1>2, <1>5 DEF WindowInv, WinOK
  <1>7. OnceInv'
    BY <1>1, <1>2, <1>5, WindowOnce DEF WindowInv
  <1> QED
    BY <1>6, <1>7 DEF WindowInv

LEMMA IdleTyped ==
    ASSUME win \in Window
    PROVE  Idle \in Window /\ Idle.pc = "idle" /\ Idle.parked = win.parked /\ Idle.words = win.words
  <1>1. 0 \in 0 .. Tries + 1 /\ 0 \in 0 .. Seqs + 1
    BY TriesAssumption, BoundsAssumption
  <1>2. [win EXCEPT !.pc = "idle", !.resend = FALSE, !.tries = 0] \in Window
    BY <1>1 DEF Window
  <1> QED
    BY <1>1, <1>2 DEF Idle, Window

LEMMA DeclinesWin == ASSUME DoorOK, WindowInv, Declines PROVE WindowInv'
  <1>1. WindowStep /\ reqs' = reqs /\ signs' = signs /\ dropped' = dropped /\ win' = Idle
    BY DeclinesStep DEF Declines
  <1>2. win \in Window
    BY DEF WindowInv, WinOK
  <1>3. win' \in Window /\ win'.pc = "idle" /\ win'.parked = win.parked /\ win'.words = win.words
        /\ win.words \in Words \cup {0}
    BY <1>1, <1>2, IdleTyped DEF Window
  <1>4. WinOK'
    BY <1>1, <1>3 DEF WindowInv, WinOK
  <1>5. OnceInv'
    BY <1>1, <1>3, WindowOnce DEF WindowInv
  <1> QED
    BY <1>4, <1>5 DEF WindowInv

\* A press or another try: the window waits for an answer to what is parked.
LEMMA SendingOK ==
    ASSUME WinOK, NEW r \in Reqs, win' \in Window, win'.pc = "sending", win'.req = r,
           win'.parked \in Message, win'.parked.words = win'.words, reqs'[r].msg = win'.parked,
           signs' \in 0 .. Signs, dropped' \subseteq Message
    PROVE  WinOK'
  BY DEF WinOK

LEMMA AskedMsg == \A m : Asked(m).msg = m
  BY DEF Asked, Free

LEMMA PressWin == ASSUME DoorOK, WindowInv, Press PROVE WindowInv'
  <1>1. WindowStep /\ signs' = signs /\ dropped' = dropped
    BY PressStep DEF Press, WindowInv
  <1>2. /\ win \in Window /\ win.words \in Words \cup {0} /\ win.words # 0
        /\ signs \in 0 .. Signs /\ dropped \subseteq Message
    BY DEF WindowInv, WinOK, Window, Press
  <1>3. WinOK' /\ win'.parked = win.parked /\ win'.words = win.words
    <2>1. CASE /\ win.parked # None /\ win.parked.words = win.words
               /\ \E r \in Reqs : Sends(r, win.parked, [win EXCEPT !.resend = TRUE, !.again = TRUE])
      <3> DEFINE w == [win EXCEPT !.resend = TRUE, !.again = TRUE]
      <3>1. PICK r \in Reqs : Sends(r, win.parked, w)
        BY <2>1
      <3>2. w \in Window /\ w.parked = win.parked /\ w.words = win.words /\ win.parked \in Message
        BY <1>2, <2>1 DEF Window
      <3> HIDE DEF w
      <3>3. reqs' = [reqs EXCEPT ![r] = Asked(win.parked)] /\ win' = [w EXCEPT !.pc = "sending", !.req = r]
        BY <3>1, <3>2, SendsPasses
      <3>4. win' \in Window /\ win'.pc = "sending" /\ win'.req = r /\ win'.parked = win.parked
            /\ win'.words = win.words
        BY <3>2, <3>3 DEF Window
      <3>5. reqs'[r].msg = win.parked
        BY <3>3, Parts, AskedMsg DEF DoorOK, DoorTypeOK
      <3> QED
        BY <1>1, <1>2, <2>1, <3>2, <3>4, <3>5, SendingOK DEF WindowInv
    <2>2. CASE win.parked # None /\ win.parked.words # win.words /\ win' = [win EXCEPT !.pc = "earlier"]
      <3>1. win' \in Window /\ win'.pc = "earlier" /\ win'.parked = win.parked /\ win'.words = win.words
            /\ win.parked \in Message
        BY <1>2, <2>2 DEF Window
      <3> QED
        BY <1>1, <1>2, <2>2, <3>1 DEF WinOK
    <2>3. CASE win.parked = None /\ win' = [win EXCEPT !.pc = "number"]
      <3>1. win' \in Window /\ win'.pc = "number" /\ win'.parked = win.parked /\ win'.words = win.words
        BY <1>2, <2>3 DEF Window
      <3> QED
        BY <1>1, <1>2, <2>3, <3>1 DEF WinOK
    <2> QED
      BY <2>1, <2>2, <2>3 DEF Press
  <1>4. OnceInv'
    BY <1>1, <1>2, <1>3, WindowOnce DEF WindowInv
  <1> QED
    BY <1>3, <1>4 DEF WindowInv

LEMMA SignWin == ASSUME DoorOK, WindowInv, Sign PROVE WindowInv'
  <1>1. OnceInv'
    BY SignOnce DEF WindowInv
  <1>2. /\ win \in Window /\ win.words \in Words /\ signs \in 0 .. Signs /\ dropped \subseteq Message
        /\ signs' = signs + 1 /\ dropped' = dropped /\ signs + 1 \in 0 .. Signs /\ Signed \in Message
    <2>1. signs + 1 \in 1 .. Signs /\ Signed \in Message
      BY SignedTyped DEF WindowInv
    <2>2. signs + 1 \in 0 .. Signs
      BY <2>1, BoundsAssumption
    <2> QED
      BY <2>1, <2>2 DEF WindowInv, WinOK, Window, Sign
  <1>3. PICK r \in Reqs : /\ reqs' = [reqs EXCEPT ![r] = Asked(Signed)]
                          /\ win' = [win EXCEPT !.parked = Signed, !.next = 0, !.tries = 0, !.again = TRUE,
                                                !.pc = "sending", !.req = r]
    BY SignStep DEF WindowInv
  <1>4. Signed.words = win.words
    BY DEF Signed
  <1>5. win' \in Window /\ win'.pc = "sending" /\ win'.req = r /\ win'.parked = Signed /\ win'.words = win.words
    <2>1. 0 \in 0 .. Tries + 1 /\ 0 \in 0 .. Seqs + 1
      BY TriesAssumption, BoundsAssumption
    <2>2. [win EXCEPT !.parked = Signed, !.next = 0] \in Window
      BY <1>2, <2>1 DEF Window
    <2> QED
      BY <1>2, <1>3, <2>1, <2>2 DEF Window
  <1>6. reqs'[r].msg = Signed
    BY <1>3, Parts, AskedMsg DEF DoorOK, DoorTypeOK
  <1>7. WinOK'
    BY <1>2, <1>4, <1>5, <1>6, SendingOK DEF WindowInv
  <1> QED
    BY <1>1, <1>7 DEF WindowInv

LEMMA AgainWin == ASSUME DoorOK, WindowInv, TriesOK, Again PROVE WindowInv'
  <1>1. WindowStep /\ signs' = signs /\ dropped' = dropped
    BY AgainStep DEF Again, WindowInv
  <1>2. /\ win \in Window /\ win.words \in Words \cup {0} /\ win.parked \in Message
        /\ win.parked.words = win.words /\ signs \in 0 .. Signs /\ dropped \subseteq Message
    BY DEF WindowInv, WinOK, Window, Again
  <1>3. PICK r \in Reqs : /\ reqs' = [reqs EXCEPT ![r] = Asked(win.parked)]
                          /\ win' = [win EXCEPT !.tries = win.tries + 1, !.pc = "sending", !.req = r]
    BY AgainStep DEF WindowInv
  <1>4. win' \in Window /\ win'.pc = "sending" /\ win'.req = r /\ win'.parked = win.parked
        /\ win'.words = win.words
    <2>1. win.tries \in 0 .. Tries
      BY <1>2, TriesAssumption DEF TriesOK, Again, Window
    <2>2. win.tries + 1 \in 0 .. Tries + 1
      BY <2>1, TriesAssumption
    <2> QED
      BY <1>2, <1>3, <2>2 DEF Window
  <1>5. reqs'[r].msg = win.parked
    BY <1>3, Parts, AskedMsg DEF DoorOK, DoorTypeOK
  <1>6. WinOK'
    BY <1>1, <1>2, <1>4, <1>5, SendingOK DEF WindowInv
  <1>7. OnceInv'
    BY <1>1, <1>2, <1>4, WindowOnce DEF WindowInv
  <1> QED
    BY <1>6, <1>7 DEF WindowInv

LEMMA LostWin == ASSUME DoorOK, WindowInv, Lost PROVE WindowInv'
  <1>1. WindowStep /\ signs' = signs /\ dropped' = dropped
    BY LostStep DEF Lost, WindowInv
  <1>2. /\ win \in Window /\ win.words \in Words \cup {0} /\ win.parked \in Message
        /\ win.parked.words = win.words /\ signs \in 0 .. Signs /\ dropped \subseteq Message
    BY DEF WindowInv, WinOK, Window, Lost
  <1>3. PICK left \in {reqs, [reqs EXCEPT ![win.req] = Free]} :
          IF win.tries < Tries
          THEN \E r \in Places(left) :
                  /\ reqs' = [left EXCEPT ![r] = [Free EXCEPT !.pc = "known", !.msg = win.parked]]
                  /\ win' = [win EXCEPT !.tries = win.tries + 1, !.req = r]
          ELSE reqs' = left /\ win' = Idle
    BY DEF Lost
  <1>4. WinOK' /\ win'.parked = win.parked /\ win'.words = win.words
    <2>1. CASE win.tries < Tries
      <3>1. PICK r \in Places(left) : /\ reqs' = [left EXCEPT ![r] = Asked(win.parked)]
                                      /\ win' = [win EXCEPT !.tries = win.tries + 1, !.req = r]
        BY <1>3, <2>1 DEF Asked
      <3>2. r \in Reqs /\ r \in DOMAIN left
        BY <1>3, Parts DEF Places, DoorOK, DoorTypeOK
      <3>3. win.tries + 1 \in 0 .. Tries + 1
        BY <1>2, <2>1, TriesAssumption DEF Window
      <3>4. win' \in Window /\ win'.pc = "sending" /\ win'.req = r /\ win'.parked = win.parked
            /\ win'.words = win.words
        BY <1>2, <3>1, <3>2, <3>3 DEF Window, Lost
      <3>5. reqs'[r].msg = win.parked
        BY <3>1, <3>2, AskedMsg
      <3> QED
        BY <1>1, <1>2, <3>2, <3>4, <3>5, SendingOK DEF WindowInv
    <2>2. CASE ~ (win.tries < Tries)
      <3>1. win' = Idle
        BY <1>3, <2>2
      <3>2. win' \in Window /\ win'.pc = "idle" /\ win'.parked = win.parked /\ win'.words = win.words
        BY <1>2, <3>1, IdleTyped
      <3> QED
        BY <1>1, <1>2, <3>2 DEF WinOK
    <2> QED
      BY <2>1, <2>2
  <1>5. OnceInv'
    BY <1>1, <1>2, <1>4, WindowOnce DEF WindowInv
  <1> QED
    BY <1>4, <1>5 DEF WindowInv

LEMMA UnheardWin == ASSUME DoorOK, WindowInv, NEW r \in Reqs, Unheard(r) PROVE WindowInv'
  <1>1. WindowStep /\ win' = win /\ signs' = signs /\ dropped' = dropped
    BY UnheardStep DEF Unheard, window
  <1>2. /\ win \in Window /\ win.words \in Words \cup {0}
    BY DEF WindowInv, WinOK, Window
  <1>3. \A s \in Reqs : s # r => reqs'[s] = reqs[s]
    BY Parts DEF Unheard, DoorOK, DoorTypeOK
  <1>4. win.req # r
    BY DEF Unheard
  <1>5. WinOK'
    BY <1>1, <1>3, <1>4 DEF WindowInv, WinOK
  <1>6. OnceInv'
    BY <1>1, <1>2, WindowOnce DEF WindowInv
  <1> QED
    BY <1>5, <1>6 DEF WindowInv

\* An answer settles a message that is in, is over, or is given up; of the rest
\* the window goes on waiting.
LEMMA HearWin == ASSUME DoorOK, WindowInv, Hear PROVE WindowInv'
  <1> DEFINE said == reqs[win.req].said
             settled == [Idle EXCEPT !.parked = IF Settles(said) THEN None ELSE Idle.parked]
  <1>1. WindowStep /\ signs' = signs
    BY HearStep DEF Hear, WindowInv
  <1>2. /\ win \in Window /\ win.words \in Words \cup {0} /\ win.parked \in Message /\ win.words # 0
        /\ win.parked.words = win.words /\ signs \in 0 .. Signs /\ dropped \subseteq Message
        /\ win.req \in Reqs /\ reqs[win.req].msg = win.parked /\ win.pc = "sending"
    <2>1. /\ win \in Window /\ win.words \in Words \cup {0} /\ win.parked \in Message
          /\ win.parked.words = win.words /\ signs \in 0 .. Signs /\ dropped \subseteq Message
          /\ win.req \in Reqs /\ reqs[win.req].msg = win.parked /\ win.pc = "sending"
      BY DEF WindowInv, WinOK, Window, Hear
    <2> QED
      BY <2>1, MessageParts
  <1>3. said \in {"accepted", "duplicate", "forbidden", "wait", "stale", "no_pin", "fault"}
    <2>1. reqs[win.req].pc = "answered" /\ reqs[win.req] \in Request /\ Sound(reqs[win.req])
      BY <1>2, Parts DEF Hear, At
    <2> QED
      BY <2>1 DEF Sound, Request
  <1>4. said = "stale" => Dead(win.parked)
    BY <1>2 DEF WindowInv, OnceInv, StaleOK
  <1>5. /\ Idle \in Window /\ Idle.pc = "idle" /\ Idle.parked = win.parked /\ Idle.words = win.words
    BY <1>2, IdleTyped
  <1>6. /\ settled \in Window /\ settled.pc = "idle" /\ settled.words = win.words
        /\ settled.parked = IF Settles(said) THEN None ELSE win.parked
    <2>1. CASE Settles(said)
      BY <1>5, <2>1 DEF Window
    <2>2. CASE ~ Settles(said)
      BY <1>5, <2>2 DEF Window
    <2> QED
      BY <2>1, <2>2
  <1>7. /\ win' = CASE said \in {"accepted", "duplicate"} -> [settled EXCEPT !.words = After(settled.words)]
                    [] said = "no_pin" /\ win.again ->
                           [win EXCEPT !.pc = "again", !.again = FALSE, !.req = None]
                    [] said = "stale" /\ win.resend ->
                           [settled EXCEPT !.pc = "number"]
                    [] OTHER -> settled
        /\ dropped' = IF said \in {"forbidden", "no_pin"} /\ win'.pc # "again"
                      THEN dropped \cup {win.parked} ELSE dropped
    BY DEF Hear
  <1>8. Settles(said) <=> said \notin {"wait", "fault"}
    BY DEF Settles
  <1> HIDE DEF said, settled
  <1>9. dropped \subseteq dropped' /\ dropped' \subseteq Message
    BY <1>2, <1>7
  <1> SUFFICES
        /\ WinOK' /\ win'.parked \in {win.parked, None}
        /\ win'.words = win.words \/ win'.words = After(win.words)
        /\ win.parked.words = win'.words =>
              win.parked = win'.parked \/ win.parked \in dropped' \/ Dead(win.parked)
    BY <1>1, <1>2, <1>9, WindowOnce DEF WindowInv
  <1>10. CASE said \in {"accepted", "duplicate"}
    <2>1. win' = [settled EXCEPT !.words = After(win.words)]
      BY <1>6, <1>7, <1>10
    <2>2. After(win.words) \in Words \cup {0} /\ After(win.words) # win.words
      <3>1. Words \subseteq Nat
        BY WordsAssumption
      <3>2. win.words \in Nat
        BY <1>2, <3>1
      <3> QED
        BY <1>2, <3>2 DEF After
    <2>3. win' \in Window /\ win'.pc = "idle" /\ win'.words = After(win.words) /\ win'.parked = None
      BY <1>6, <1>8, <1>10, <2>1, <2>2 DEF Window
    <2>4. WinOK'
      BY <1>1, <1>2, <1>9, <2>3 DEF WinOK
    <2> QED
      BY <1>2, <2>2, <2>3, <2>4
  <1>11. CASE said = "no_pin" /\ win.again
    <2>1. win' = [win EXCEPT !.pc = "again", !.again = FALSE, !.req = None]
      BY <1>7, <1>11
    <2>2. win' \in Window /\ win'.pc = "again" /\ win'.words = win.words /\ win'.parked = win.parked
      BY <1>2, <2>1 DEF Window
    <2>3. WinOK'
      BY <1>1, <1>2, <1>9, <2>2 DEF WinOK
    <2> QED
      BY <2>2, <2>3
  <1>12. CASE said = "stale" /\ win.resend
    <2>1. win' = [settled EXCEPT !.pc = "number"]
      BY <1>7, <1>12
    <2>2. win' \in Window /\ win'.pc = "number" /\ win'.words = win.words /\ win'.parked = None
      BY <1>6, <1>8, <1>12, <2>1 DEF Window
    <2>3. WinOK'
      BY <1>1, <1>2, <1>9, <2>2 DEF WinOK
    <2> QED
      BY <1>4, <1>12, <2>2, <2>3
  <1>13. CASE /\ said \notin {"accepted", "duplicate"} /\ ~ (said = "no_pin" /\ win.again)
              /\ ~ (said = "stale" /\ win.resend)
    <2>1. win' = settled
      BY <1>7, <1>13
    <2>2. win' \in Window /\ win'.pc = "idle" /\ win'.words = win.words
          /\ win'.parked = IF Settles(said) THEN None ELSE win.parked
      BY <1>6, <2>1
    <2>3. WinOK'
      BY <1>1, <1>2, <1>9, <2>2 DEF WinOK
    <2>4. said \in {"forbidden", "no_pin"} => win.parked \in dropped'
      BY <1>7, <2>2
    <2>5. said \in {"wait", "fault"} => win'.parked = win.parked
      BY <1>8, <2>2
    <2> QED
      BY <1>3, <1>4, <1>13, <2>2, <2>3, <2>4, <2>5
  <1> QED
    BY <1>10, <1>11, <1>12, <1>13

-----------------------------------------------------------------------------
(* The specification.                                                      *)

\* What every step keeps.
DoorInv == DoorOK /\ WindowInv /\ TriesOK

\* A press begins with no tries, and may send the pictures again while there are no
\* more than Tries.
LEMMA NextTries == ASSUME DoorOK, WindowInv, TriesOK, [Next]_vars PROVE TriesOK'
  <1>1. win \in Window /\ Tries \in Nat
    BY TriesAssumption DEF WindowInv, WinOK
  <1>2. win.tries \in Nat /\ win.again \in BOOLEAN
    BY <1>1 DEF Window
  <1>3. CASE win' = win
    BY <1>3 DEF TriesOK
  <1>4. ASSUME win.pc # "sending", win'.pc \notin {"sending", "again"}, win'.tries = win.tries
        PROVE  TriesOK'
    BY <1>4 DEF TriesOK
  <1>5. Idle.tries = 0 /\ Idle.pc = "idle"
    BY <1>1 DEF Idle, Window
  <1>6. CASE Press
    <2>1. CASE \E r \in Reqs : Sends(r, win.parked, [win EXCEPT !.resend = TRUE, !.again = TRUE])
      <3>1. win'.tries = win.tries /\ win'.pc = "sending" /\ win.pc = "idle"
        BY <1>1, <1>6, <2>1 DEF Press, Sends, Window
      <3> QED
        BY <3>1 DEF TriesOK
    <2>2. CASE \E pc \in {"earlier", "number"} : win' = [win EXCEPT !.pc = pc]
      <3>1. win'.pc \in {"earlier", "number"} /\ win'.tries = win.tries /\ win.pc = "idle"
        BY <1>1, <1>6, <2>2 DEF Press, Window
      <3> QED
        BY <1>4, <3>1
    <2> QED
      BY <1>6, <2>1, <2>2 DEF Press
  <1>7. CASE Earlier \/ Number \/ Edit
    <2>1. win.pc \in {"earlier", "number", "idle"}
      BY <1>7 DEF Earlier, Number, Edit
    <2>2. win'.pc \in {"idle", "number", "sign"} /\ win'.tries = win.tries
      BY <1>1, <1>7 DEF Earlier, Number, Edit, Window
    <2> QED
      BY <1>4, <2>1, <2>2
  <1>8. CASE Sign
    <2>1. PICK r \in Reqs : /\ reqs' = [reqs EXCEPT ![r] = Asked(Signed)]
                            /\ win' = [win EXCEPT !.parked = Signed, !.next = 0, !.tries = 0, !.again = TRUE,
                                                  !.pc = "sending", !.req = r]
      BY <1>8, SignStep DEF WindowInv
    <2>2. win'.tries = 0 /\ win'.pc = "sending"
      BY <1>1, <2>1 DEF Window
    <2> QED
      BY <1>1, <2>2 DEF TriesOK
  <1>9. CASE Declines
    BY <1>1, <1>5, <1>9 DEF Declines, TriesOK
  <1>10. CASE Hear
    <2> DEFINE said == reqs[win.req].said
               settled == [Idle EXCEPT !.parked = IF Settles(said) THEN None ELSE Idle.parked]
    <2>1. \/ win' = [settled EXCEPT !.words = After(settled.words)]
          \/ win.again /\ win' = [win EXCEPT !.pc = "again", !.again = FALSE, !.req = None]
          \/ win' = [settled EXCEPT !.pc = "number"]
          \/ win' = settled
      BY <1>10 DEF Hear
    <2>2. CASE win.again /\ win' = [win EXCEPT !.pc = "again", !.again = FALSE, !.req = None]
      <3>1. win'.tries = win.tries /\ win'.again = FALSE
        BY <1>1, <2>2 DEF Window
      <3> QED
        BY <2>2, <3>1 DEF TriesOK
    <2>3. CASE \/ win' = [settled EXCEPT !.words = After(settled.words)]
               \/ win' = [settled EXCEPT !.pc = "number"]
               \/ win' = settled
      <3>1. win'.tries = 0 /\ win'.pc \in {"idle", "number"}
        BY <1>1, <2>3 DEF Idle, Window
      <3> QED
        BY <1>1, <3>1 DEF TriesOK
    <2> QED
      BY <2>1, <2>2, <2>3
  <1>11. CASE Again
    <2>1. PICK r \in Reqs : win' = [win EXCEPT !.tries = win.tries + 1, !.pc = "sending", !.req = r]
      BY <1>11, AgainStep DEF WindowInv
    <2>2. win'.pc = "sending" /\ win'.again = win.again /\ win.pc = "again"
      BY <1>1, <1>11, <2>1 DEF Again, Window
    <2> QED
      BY <2>2 DEF TriesOK
  <1>12. CASE Lost
    <2>1. CASE win' = Idle
      BY <1>1, <1>5, <2>1 DEF TriesOK
    <2>2. CASE win.tries < Tries /\ \E r : win' = [win EXCEPT !.tries = win.tries + 1, !.req = r]
      <3>1. win'.tries = win.tries + 1 /\ win'.pc = "sending"
        BY <1>1, <1>12, <2>2 DEF Lost, Window
      <3> QED
        BY <1>1, <1>2, <2>2, <3>1 DEF TriesOK
    <2> QED
      BY <1>12, <2>1, <2>2 DEF Lost
  <1> QED
    BY <1>3, <1>6, <1>7, <1>8, <1>9, <1>10, <1>11, <1>12
       DEF Next, Handles, Persists, Unheard, Stage, window, vars

LEMMA InitDoor == Init => DoorInv
  <1> SUFFICES ASSUME Init PROVE DoorInv
    OBVIOUS
  <1>1. /\ log = {} /\ seq = 0 /\ cooling = FALSE /\ drafts = {} /\ reqs = [r \in Reqs |-> Free]
        /\ cache = [verdict |-> "none", fresh |-> FALSE] /\ pins = [c \in Cids |-> "none"]
    BY DEF Init, DoorInit
  <1>2. standing \in [banned : BOOLEAN, invited : BOOLEAN] /\ holds \in BOOLEAN
    BY KeysAssumption DEF Init, DoorInit
  <1>3. IsFiniteSet(drafts) /\ Cardinality(drafts) = 0 /\ 0 <= DraftMax
    BY <1>1, FS_EmptySet, BoundsAssumption
  <1>4. 0 \in 0 .. Seqs /\ 0 \in 0 .. Tries + 1 /\ 0 \in 0 .. Seqs + 1 /\ 0 \in 0 .. Signs
    BY BoundsAssumption, TriesAssumption
  <1>5. DoorOK
    BY <1>1, <1>2, <1>3, <1>4, FreeTyped DEF DoorOK, DoorTypeOK
  <1>6. win.pc = "idle" /\ win.words = 1 /\ win.parked = None /\ signs = 0 /\ dropped = {}
    BY DEF Init
  <1>7. win \in Window
    BY <1>4, FirstAssumption DEF Init, Window
  <1>8. WinOK
    BY <1>4, <1>6, <1>7 DEF WinOK
  <1>9. \A m \in Message : ~ Out(m)
    BY <1>1, <1>6, NoneAssumption DEF Out, Free
  <1>10. StaleOK
    BY <1>1 DEF StaleOK, Free
  <1>11. OnceInv
    BY <1>9, <1>10 DEF OnceInv
  <1>12. TriesOK
    BY TriesAssumption DEF Init, TriesOK
  <1> QED
    BY <1>5, <1>8, <1>11, <1>12 DEF DoorInv, WindowInv

LEMMA NextDoor == DoorInv /\ [Next]_vars => DoorInv'
  <1> SUFFICES ASSUME DoorInv, [Next]_vars PROVE DoorInv'
    OBVIOUS
  <1>0. DoorOK /\ WindowInv /\ TriesOK /\ TriesOK'
    BY NextTries DEF DoorInv
  <1>1. ASSUME NEW r \in Reqs, Serve(r), UNCHANGED window PROVE DoorInv'
    BY <1>0, <1>1, ServeOK, ServeQuiet, QuietOnce, QuietWin DEF DoorInv, WindowInv
  <1>2. ASSUME NEW r \in Reqs, Unheard(r) PROVE DoorInv'
    BY <1>0, <1>2, UnheardStep, WindowStepOK, UnheardWin DEF DoorInv
  <1>3. ASSUME Meanwhile, UNCHANGED window PROVE DoorInv'
    BY <1>0, <1>3, MeanwhileOK, MeanwhileQuiet, QuietOnce, QuietWin DEF DoorInv, WindowInv
  <1>4. ASSUME NEW c \in Cids, Stage(c) PROVE DoorInv'
    BY <1>0, <1>4, StageStep, WindowStepOK, StageWin DEF DoorInv
  <1>5. CASE Press
    BY <1>0, <1>5, PressStep, WindowStepOK, PressWin DEF DoorInv, WindowInv
  <1>6. CASE Earlier
    BY <1>0, <1>6, EditStep, WindowStepOK, EarlierWin DEF DoorInv
  <1>7. CASE Hear
    BY <1>0, <1>7, HearStep, WindowStepOK, HearWin DEF DoorInv, WindowInv
  <1>8. CASE Again
    BY <1>0, <1>8, AgainStep, WindowStepOK, AgainWin DEF DoorInv, WindowInv
  <1>9. CASE Edit
    BY <1>0, <1>9, EditStep, WindowStepOK, EditWin DEF DoorInv
  <1>10. CASE Number
    BY <1>0, <1>10, EditStep, WindowStepOK, NumberWin DEF DoorInv
  <1>11. CASE Sign
    BY <1>0, <1>11, SignStep, WindowStepOK, SignWin DEF DoorInv, WindowInv
  <1>12. CASE Declines
    BY <1>0, <1>12, DeclinesStep, WindowStepOK, DeclinesWin DEF DoorInv
  <1>13. CASE Lost
    BY <1>0, <1>13, LostStep, WindowStepOK, LostWin DEF DoorInv, WindowInv
  <1>14. CASE UNCHANGED vars
    <2>1. UNCHANGED <<log, seq, cooling, standing, holds, cache, drafts, pins, reqs, win, signs, dropped>>
      BY <1>14 DEF vars, door, window
    <2>2. DoorOK'
      BY <1>0, <2>1 DEF DoorOK, DoorTypeOK
    <2>3. WinOK' /\ OnceInv'
      BY <1>0, <2>1 DEF WindowInv, WinOK, OnceInv, StaleOK, Dead, Out, Over
    <2> QED
      BY <1>0, <2>2, <2>3 DEF DoorInv, WindowInv
  <1> QED
    BY <1>1, <1>2, <1>3, <1>4, <1>5, <1>6, <1>7, <1>8, <1>9, <1>10, <1>11, <1>12, <1>13, <1>14
       DEF Next, Handles, Persists

LEMMA DoorTypes == DoorInv => TypeOK
  BY DEF DoorInv, DoorOK, WindowInv, WinOK, TypeOK

LEMMA DoorInvHolds == Spec => []DoorInv
  BY InitDoor, NextDoor, PTL DEF Spec

\* The tables of the door, its requests and the window have their types whatever
\* the writer, the hub and the lost answers do (handleMsg, the gate, the drafts and
\* the window's script).
THEOREM WindowTyped == Spec => []TypeOK
  BY DoorTypes, DoorInvHolds, PTL

\* "Nothing will be posted twice" (the window's send and restage, at handleMsg): for
\* any number of words, pictures, requests, losses, tries and signatures.
THEOREM OnePostHolds == Spec => []OnePost
  <1>1. DoorInv => OnePost
    <2> SUFFICES ASSUME DoorInv, NEW m \in log, NEW k \in log, m.words = k.words
                 PROVE  m = k \/ {m, k} \cap dropped # {}
      BY DEF OnePost
    <2>1. m \in Message /\ k \in Message /\ Out(m) /\ Out(k)
      BY DEF DoorInv, DoorOK, DoorTypeOK, Out
    <2>2. m = k \/ Over(m) \/ Over(k)
      BY <2>1 DEF DoorInv, WindowInv, OnceInv
    <2> QED
      BY <2>2 DEF Over, Dead
  <1> QED
    BY <1>1, DoorInvHolds, PTL

LEMMA InitStrange == Init => StrangersInv
  <1> SUFFICES ASSUME Init PROVE StrangersInv
    OBVIOUS
  <1>1. /\ log = {} /\ reqs = [r \in Reqs |-> Free] /\ pins = [c \in Cids |-> "none"]
        /\ cache.verdict = "none" /\ ever = Right(standing, holds)
    BY DEF Init, DoorInit
  <1>2. Judgements
    BY <1>1 DEF Judgements, Right
  <1> QED
    BY <1>1, <1>2, FreePassed DEF StrangersInv

LEMMA NextStrange ==
    ASSUME RpcUnavailable = "deny"
    PROVE  DoorInv /\ StrangersInv /\ [Next]_vars => StrangersInv'
  <1> SUFFICES ASSUME DoorInv, StrangersInv, [Next]_vars PROVE StrangersInv'
    OBVIOUS
  <1>0. DoorOK /\ WinOK /\ TriesOK
    BY DEF DoorInv, WindowInv
  <1>1. ASSUME NEW r \in Reqs, Serve(r) PROVE StrangersInv'
    BY <1>0, <1>1, ServeStrange
  <1>2. CASE Meanwhile
    BY <1>0, <1>2, MeanwhileStrange
  <1>3. CASE \/ \E r \in Reqs : Unheard(r)
             \/ \E c \in Cids : Stage(c)
             \/ Press \/ Earlier \/ Hear \/ Again \/ Edit \/ Number \/ Sign \/ Declines \/ Lost
    <2>1. WindowStep
      BY <1>0, <1>3, UnheardStep, StageStep, PressStep, EditStep, HearStep, AgainStep, SignStep,
         DeclinesStep, LostStep
    <2> QED
      BY <1>0, <2>1, WindowStrange
  <1>4. CASE UNCHANGED vars
    <2>1. UNCHANGED <<log, standing, holds, cache, pins, reqs, ever>>
      BY <1>4 DEF vars, door
    <2> QED
      BY <2>1 DEF StrangersInv, Judgements, Passed
  <1> QED
    BY <1>1, <1>2, <1>3, <1>4 DEF Next, Handles, Persists

\* A key that was never free or never in leaves no post and no picture (policy and
\* Gate.Check, and promoteDrafts behind them), whichever of what they read was
\* read when, for any requests and pictures; where the RPC's silence is no pass.
THEOREM StrangersLeaveNothing == RpcUnavailable = "deny" => (Spec => []NothingOfStrangers)
  <1> SUFFICES ASSUME RpcUnavailable = "deny" PROVE Spec => []NothingOfStrangers
    OBVIOUS
  <1>1. DoorInv /\ StrangersInv /\ [Next]_vars => StrangersInv'
    BY NextStrange
  <1>2. StrangersInv => NothingOfStrangers
    BY DEF StrangersInv, Judgements, NothingOfStrangers
  <1> QED
    BY <1>1, <1>2, InitStrange, DoorInvHolds, PTL DEF Spec

-----------------------------------------------------------------------------
(* The converter.                                                          *)

\* A job that is not yet converted has missed nothing.
Unmissed(q) ==
    /\ q.status \in {"none", "uploading", "queued"} => q.misses = 0
    /\ q.why = "big" => q.misses >= 2

JobsInv == jobs \in [Jobs -> Job] /\ \A j \in Jobs : Unmissed(jobs[j])

\* The channel holds each job once, and only jobs marked as queued.
QueueInv ==
    /\ queue \in Seq(Jobs) /\ Len(queue) <= QueueMax
    /\ \A i \in 1 .. Len(queue) : jobs[queue[i]].status = "queued"
    /\ \A i, k \in 1 .. Len(queue) : queue[i] = queue[k] => i = k

\* The job in hand is marked; its misses are among the tries, and by the last try
\* NVENC has had its two.
ConvInv ==
    /\ conv \in Converter
    /\ conv.pc # "idle" => conv.job \in Jobs /\ jobs[conv.job].status = "converting"
    /\ conv.pc = "probe" => jobs[conv.job].misses = 0 /\ conv.try = 0
    /\ conv.pc = "run" => /\ jobs[conv.job].misses <= conv.try
                          /\ conv.try >= 2 => conv.nvenc = FALSE
                          /\ conv.try = 3 => jobs[conv.job].misses >= 1

Opened == {j \in Jobs : jobs[j].status # "none"}

\* Arrivals are of jobs that were opened; the rest of the state has its types.
CountInv ==
    /\ arrivals \in Nat /\ arrivals <= Cardinality(Opened)
    /\ restarts \in 0 .. Restarts
    /\ outputs \subseteq [job : Jobs, part : {"poster", "file"}]

MediaInv == JobsInv /\ QueueInv /\ ConvInv /\ CountInv

LEMMA OpenedBound == IsFiniteSet(Opened) /\ Cardinality(Opened) \in Nat /\ Cardinality(Jobs) \in Nat
                     /\ Cardinality(Opened) <= Cardinality(Jobs)
  <1>1. Opened \subseteq Jobs
    BY DEF Opened
  <1> QED
    BY <1>1, JobsAssumption, FS_Subset, FS_CardinalityType

LEMMA NoJobTyped == NoJob \in Job /\ Unmissed(NoJob)
  <1>1. 0 \in 0 .. Cardinality(Jobs)
    BY OpenedBound
  <1> QED
    BY <1>1 DEF NoJob, Job, Statuses, Unmissed

LEMMA DroppedTyped == \A q : Dropped(q) \in Job /\ Unmissed(Dropped(q)) /\ Dropped(q).status = "gone"
  <1> TAKE q
  <1> DEFINE d == [NoJob EXCEPT !.status = "gone"]
  <1>1. NoJob \in Job /\ NoJob.misses = 0 /\ NoJob.why = ""
    BY NoJobTyped DEF NoJob
  <1>2. d \in Job /\ d.misses = 0 /\ d.why = "" /\ d.status = "gone"
    BY <1>1 DEF Job, Statuses
  <1>3. Dropped(q) = d
    BY DEF Dropped
  <1> HIDE DEF d
  <1> QED
    BY <1>2, <1>3 DEF Unmissed

\* One job changes, and stays opened.
OneJob(j, q) == jobs' = [jobs EXCEPT ![j] = q] /\ q \in Job /\ Unmissed(q)

LEMMA OneJobInv ==
    ASSUME MediaInv, NEW j \in Jobs, NEW q, OneJob(j, q)
    PROVE  JobsInv' /\ jobs'[j] = q /\ \A o \in Jobs : o # j => jobs'[o] = jobs[o]
  BY DEF MediaInv, JobsInv, OneJob

LEMMA SameCount ==
    ASSUME MediaInv, \A o \in Jobs : jobs'[o].status = "none" <=> jobs[o].status = "none",
           UNCHANGED <<arrivals, restarts>>,
           outputs' \subseteq [job : Jobs, part : {"poster", "file"}]
    PROVE  CountInv'
  <1>1. Opened' = Opened
    BY DEF Opened
  <1> QED
    BY <1>1 DEF MediaInv, CountInv

\* The queue stays while none of its jobs changes.
LEMMA SameQueue ==
    ASSUME MediaInv, queue' = queue,
           \A o \in Jobs : jobs[o].status = "queued" => jobs'[o].status = "queued"
    PROVE  QueueInv'
  BY DEF MediaInv, QueueInv

\* So does the converter, while the job in its hand does not change.
LEMMA SameConv ==
    ASSUME MediaInv, conv' = conv,
           \A o \in Jobs : jobs[o].status = "converting" => jobs'[o] = jobs[o]
    PROVE  ConvInv'
  BY DEF MediaInv, ConvInv

LEMMA RestTyped == AtRest \in Converter /\ AtRest.pc = "idle"
  BY DEF AtRest, Converter

LEMMA RestConv == ASSUME conv' = AtRest PROVE ConvInv'
  BY RestTyped DEF ConvInv

LEMMA UploadingTyped ==
    ASSUME NEW a \in Uploaders, NEW n \in 0 .. Cardinality(Jobs), NEW new,
           new = [NoJob EXCEPT !.status = "uploading", !.by = a, !.seq = n]
    PROVE  new \in Job /\ Unmissed(new)
  <1>1. NoJob \in Job /\ NoJob.misses = 0 /\ NoJob.why = ""
    BY NoJobTyped DEF NoJob
  <1>2. new \in Job /\ new.misses = 0 /\ new.why = ""
    BY <1>1 DEF Job, Statuses
  <1> QED
    BY <1>2 DEF Unmissed

LEMMA ReserveOK == ASSUME MediaInv, NEW j \in Jobs, NEW a \in Uploaders, Reserve(j, a) PROVE MediaInv'
  <1>1. PICK old \in SUBSET {o \in Jobs : Ended(o)} :
          jobs' = [o \in Jobs |->
              IF o = j THEN [NoJob EXCEPT !.status = "uploading", !.by = a, !.seq = arrivals + 1]
              ELSE IF o \in old THEN Dropped(jobs[o])
              ELSE jobs[o]]
    BY DEF Reserve
  <1>2. UNCHANGED <<queue, conv, outputs, restarts>> /\ arrivals' = arrivals + 1
        /\ jobs[j].status = "none"
    BY DEF Reserve
  <1>3. Opened' = Opened \cup {j} /\ j \notin Opened
    <2>1. ASSUME NEW o \in Jobs PROVE jobs'[o].status # "none" <=> o = j \/ jobs[o].status # "none"
      <3>1. CASE o = j
        BY <1>1, <3>1 DEF NoJob
      <3>2. CASE o # j /\ o \in old
        BY <1>1, <3>2, DroppedTyped DEF Ended
      <3>3. CASE o # j /\ o \notin old
        BY <1>1, <3>3
      <3> QED
        BY <3>1, <3>2, <3>3
    <2> QED
      BY <1>2, <2>1 DEF Opened
  <1>4. Cardinality(Opened') = Cardinality(Opened) + 1 /\ Cardinality(Opened') <= Cardinality(Jobs)
    <2>1. Opened' \subseteq Jobs
      BY DEF Opened
    <2>2. Cardinality(Opened') <= Cardinality(Jobs)
      BY <2>1, JobsAssumption, FS_Subset
    <2> QED
      BY <1>3, <2>2, OpenedBound, FS_AddElement
  <1>5. arrivals \in Nat /\ arrivals + 1 \in 0 .. Cardinality(Jobs) /\ arrivals + 1 <= Cardinality(Opened')
    BY <1>4, OpenedBound DEF MediaInv, CountInv
  <1>6. JobsInv'
    <2> DEFINE new == [NoJob EXCEPT !.status = "uploading", !.by = a, !.seq = arrivals + 1]
    <2>1. new \in Job /\ Unmissed(new)
      BY <1>5, UploadingTyped
    <2> HIDE DEF new
    <2>2. jobs' = [o \in Jobs |-> IF o = j THEN new ELSE IF o \in old THEN Dropped(jobs[o]) ELSE jobs[o]]
      BY <1>1 DEF new
    <2>3. \A o \in Jobs : jobs[o] \in Job /\ Unmissed(jobs[o])
      BY DEF MediaInv, JobsInv
    <2> QED
      BY <2>1, <2>2, <2>3, DroppedTyped DEF JobsInv
  <1>7. \A o \in Jobs : jobs[o].status \in {"queued", "converting"} => jobs'[o] = jobs[o]
    BY <1>1, <1>2 DEF Ended
  <1>8. QueueInv' /\ ConvInv'
    BY <1>2, <1>7, SameQueue, SameConv
  <1>9. CountInv'
    BY <1>2, <1>5 DEF MediaInv, CountInv
  <1> QED
    BY <1>6, <1>8, <1>9 DEF MediaInv

LEMMA UploadFailsOK == ASSUME MediaInv, NEW j \in Jobs, UploadFails(j) PROVE MediaInv'
  <1>1. OneJob(j, Dropped(jobs[j])) /\ jobs[j].status = "uploading"
        /\ UNCHANGED <<queue, conv, outputs, arrivals, restarts>>
    BY DroppedTyped DEF UploadFails, OneJob
  <1>2. JobsInv' /\ jobs'[j].status = "gone" /\ \A o \in Jobs : o # j => jobs'[o] = jobs[o]
    BY <1>1, OneJobInv, DroppedTyped
  <1>3. QueueInv' /\ ConvInv'
    BY <1>1, <1>2, SameQueue, SameConv
  <1>4. CountInv'
    BY <1>1, <1>2, SameCount DEF MediaInv, CountInv
  <1> QED
    BY <1>2, <1>3, <1>4 DEF MediaInv

LEMMA UploadedOK == ASSUME MediaInv, NEW j \in Jobs, Uploaded(j) PROVE MediaInv'
  <1> DEFINE q == [jobs[j] EXCEPT !.status = "queued"]
  <1>1. jobs \in [Jobs -> Job] /\ jobs[j] \in Job /\ Unmissed(jobs[j]) /\ jobs[j].status = "uploading"
    BY DEF MediaInv, JobsInv, Uploaded
  <1>2. OneJob(j, q) /\ q.status = "queued" /\ UNCHANGED <<queue, conv, outputs, arrivals, restarts>>
    BY <1>1 DEF Uploaded, OneJob, Job, Statuses, Unmissed
  <1> HIDE DEF q
  <1>3. JobsInv' /\ jobs'[j].status = "queued" /\ \A o \in Jobs : o # j => jobs'[o] = jobs[o]
    BY <1>2, OneJobInv
  <1>4. QueueInv' /\ ConvInv'
    BY <1>1, <1>2, <1>3, SameQueue, SameConv
  <1>5. CountInv'
    BY <1>1, <1>2, <1>3, SameCount DEF MediaInv, CountInv
  <1> QED
    BY <1>3, <1>4, <1>5 DEF MediaInv

LEMMA EnqueueOK == ASSUME MediaInv, NEW j \in Jobs, Enqueue(j) PROVE MediaInv'
  <1>1. UNCHANGED <<conv, outputs, arrivals, restarts>> /\ jobs[j].status = "queued" /\ ~ InQueue(j)
    BY DEF Enqueue
  <1>2. queue \in Seq(Jobs) /\ Len(queue) \in Nat
    BY DEF MediaInv, QueueInv
  <1>3. \A i \in 1 .. Len(queue) : queue[i] # j
    BY <1>1, <1>2 DEF InQueue
  <1>4. CASE Room
    <2>1. queue' = Append(queue, j) /\ jobs' = jobs
      BY <1>4 DEF Enqueue
    <2>2. queue' \in Seq(Jobs) /\ Len(queue') = Len(queue) + 1 /\ queue'[Len(queue) + 1] = j
          /\ \A i \in 1 .. Len(queue) : queue'[i] = queue[i]
      BY <1>2, <2>1
    <2>3. Len(queue') <= QueueMax
      BY <1>2, <1>4, <2>2, QueueAssumption DEF Room
    <2>4. ASSUME NEW i \in 1 .. Len(queue') PROVE i = Len(queue) + 1 \/ i \in 1 .. Len(queue)
      BY <1>2, <2>2
    <2>5. \A i \in 1 .. Len(queue') : jobs'[queue'[i]].status = "queued"
      BY <1>1, <2>1, <2>2, <2>4 DEF MediaInv, QueueInv
    <2>6. \A i, k \in 1 .. Len(queue') : queue'[i] = queue'[k] => i = k
      BY <1>3, <2>2, <2>4 DEF MediaInv, QueueInv
    <2>7. QueueInv'
      BY <2>2, <2>3, <2>5, <2>6 DEF QueueInv
    <2> QED
      BY <1>1, <2>1, <2>7, SameConv, SameCount DEF MediaInv, JobsInv, CountInv
  <1>5. CASE ~ Room
    <2>1. OneJob(j, Dropped(jobs[j])) /\ queue' = queue
      BY <1>5, DroppedTyped DEF Enqueue, OneJob
    <2>2. JobsInv' /\ jobs'[j].status = "gone" /\ \A o \in Jobs : o # j => jobs'[o] = jobs[o]
      BY <2>1, OneJobInv, DroppedTyped
    <2>3. QueueInv'
      BY <1>3, <2>1, <2>2 DEF MediaInv, QueueInv
    <2>4. ConvInv' /\ CountInv'
      BY <1>1, <2>2, SameConv, SameCount DEF MediaInv, CountInv
    <2> QED
      BY <2>2, <2>3, <2>4 DEF MediaInv
  <1> QED
    BY <1>4, <1>5

LEMMA BeginOK == ASSUME MediaInv, Begin PROVE MediaInv'
  <1> DEFINE j == queue[1]
             q == [jobs[j] EXCEPT !.status = "converting"]
  <1>1. queue \in Seq(Jobs) /\ queue # <<>> /\ Len(queue) \in Nat \ {0} /\ Head(queue) = j /\ j \in Jobs
    BY DEF MediaInv, QueueInv, Begin
  <1>2. jobs \in [Jobs -> Job] /\ jobs[j] \in Job /\ Unmissed(jobs[j]) /\ jobs[j].status = "queued"
    BY <1>1 DEF MediaInv, JobsInv, QueueInv
  <1>3. OneJob(j, q) /\ q.status = "converting" /\ q.misses = 0
        /\ UNCHANGED <<outputs, arrivals, restarts>>
    BY <1>1, <1>2 DEF Begin, OneJob, Job, Statuses, Unmissed
  <1>4. conv' = [AtRest EXCEPT !.pc = "probe", !.job = j] /\ queue' = Tail(queue)
    BY <1>1 DEF Begin
  <1> HIDE DEF j, q
  <1>5. JobsInv' /\ jobs'[j] = q /\ \A o \in Jobs : o # j => jobs'[o] = jobs[o]
    BY <1>1, <1>3, OneJobInv
  <1>6. conv' \in Converter /\ conv'.pc = "probe" /\ conv'.job = j /\ conv'.try = 0
    <2>1. conv' = [pc |-> "probe", job |-> j, try |-> 0, gpu |-> FALSE, nvenc |-> FALSE]
      BY <1>4 DEF AtRest
    <2>2. j \in Jobs \cup {0} /\ 0 \in 0 .. 3
      BY <1>1
    <2>3. conv' \in Converter
      BY <2>1, <2>2 DEF Converter
    <2> QED
      BY <2>1, <2>3
  <1>7. ConvInv'
    BY <1>1, <1>3, <1>5, <1>6 DEF ConvInv
  <1>8. QueueInv'
    <2>1. queue' \in Seq(Jobs) /\ Len(queue') = Len(queue) - 1
          /\ \A i \in 1 .. Len(queue') : i + 1 \in 1 .. Len(queue) /\ queue'[i] = queue[i + 1]
      BY <1>1, <1>4
    <2>2. Len(queue') <= QueueMax
      BY <1>1, <2>1, QueueAssumption DEF MediaInv, QueueInv
    <2>3. ASSUME NEW i \in 1 .. Len(queue') PROVE queue'[i] # j
      <3>1. i + 1 \in 1 .. Len(queue) /\ 1 \in 1 .. Len(queue) /\ i + 1 # 1
        BY <1>1, <2>1
      <3> QED
        BY <2>1, <3>1 DEF MediaInv, QueueInv, j
    <2>4. \A i \in 1 .. Len(queue') : jobs'[queue'[i]].status = "queued"
      <3> TAKE i \in 1 .. Len(queue')
      <3>1. queue'[i] \in Jobs /\ queue'[i] # j /\ queue'[i] = queue[i + 1] /\ i + 1 \in 1 .. Len(queue)
        BY <2>1, <2>3
      <3> QED
        BY <1>5, <3>1 DEF MediaInv, QueueInv
    <2>5. ASSUME NEW i \in 1 .. Len(queue'), NEW k \in 1 .. Len(queue'), queue'[i] = queue'[k] PROVE i = k
      <3>1. i + 1 = k + 1
        BY <2>1, <2>5 DEF MediaInv, QueueInv
      <3> QED
        BY <3>1
    <2> QED
      BY <2>1, <2>2, <2>4, <2>5 DEF QueueInv
  <1>9. CountInv'
    BY <1>1, <1>2, <1>3, <1>5, SameCount DEF MediaInv, CountInv
  <1> QED
    BY <1>5, <1>7, <1>8, <1>9 DEF MediaInv

\* The job in hand fails, and the converter is at rest.
LEMMA FailsOK ==
    ASSUME MediaInv, conv.pc # "idle", NEW why \in {"big", "other"}, NEW n \in 0 .. 4,
           jobs[conv.job].misses <= n, why = "big" => n >= 2,
           jobs' = [jobs EXCEPT ![conv.job] =
                       [jobs[conv.job] EXCEPT !.status = "failed", !.why = why, !.misses = n]],
           conv' = AtRest, UNCHANGED <<queue, outputs, arrivals, restarts>>
    PROVE  MediaInv'
  <1> DEFINE j == conv.job
             q == [jobs[j] EXCEPT !.status = "failed", !.why = why, !.misses = n]
  <1>1. j \in Jobs /\ jobs[j] \in Job /\ jobs[j].status = "converting" /\ Unmissed(jobs[j])
    BY DEF MediaInv, JobsInv, ConvInv
  <1>2. OneJob(j, q) /\ q.status = "failed"
    <2>1. q \in Job /\ q.status = "failed" /\ q.why = why /\ q.misses = n
      BY <1>1 DEF Job, Statuses
    <2> QED
      BY <1>1, <2>1 DEF OneJob, Unmissed
  <1> HIDE DEF j, q
  <1>3. JobsInv' /\ jobs'[j] = q /\ \A o \in Jobs : o # j => jobs'[o] = jobs[o]
    BY <1>1, <1>2, OneJobInv
  <1>4. ConvInv'
    BY RestConv
  <1>5. QueueInv' /\ CountInv'
    BY <1>1, <1>2, <1>3, SameQueue, SameCount DEF MediaInv, CountInv
  <1> QED
    BY <1>3, <1>4, <1>5 DEF MediaInv

LEMMA OtherFails ==
    ASSUME MediaInv, conv.pc # "idle", Fails("other"), UNCHANGED <<queue, outputs, arrivals, restarts>>
    PROVE  MediaInv'
  <1> DEFINE n == jobs[conv.job].misses
  <1>1. jobs \in [Jobs -> Job] /\ conv.job \in Jobs /\ jobs[conv.job] \in Job
    BY DEF MediaInv, JobsInv, ConvInv
  <1>2. n \in 0 .. 4 /\ n <= n
    <2>1. n \in 0 .. 4
      BY <1>1 DEF Job
    <2> HIDE DEF n
    <2> QED
      BY <2>1
  <1>3. jobs' = [jobs EXCEPT ![conv.job] =
                    [jobs[conv.job] EXCEPT !.status = "failed", !.why = "other"]]
    BY <1>1 DEF Fails
  <1>4. [jobs[conv.job] EXCEPT !.status = "failed", !.why = "other"]
        = [jobs[conv.job] EXCEPT !.status = "failed", !.why = "other", !.misses = n]
    BY <1>1 DEF Job
  <1>5. jobs' = [jobs EXCEPT ![conv.job] =
                    [jobs[conv.job] EXCEPT !.status = "failed", !.why = "other", !.misses = n]]
    BY <1>3, <1>4
  <1> HIDE DEF n
  <1> QED
    BY <1>2, <1>5, FailsOK DEF Fails, n

\* Nothing but the converter and the outputs changes.
LEMMA ConvSteps ==
    ASSUME MediaInv, jobs' = jobs, UNCHANGED <<queue, arrivals, restarts>>,
           outputs' \subseteq [job : Jobs, part : {"poster", "file"}], ConvInv'
    PROVE  MediaInv'
  <1>1. JobsInv'
    BY DEF MediaInv, JobsInv
  <1>2. QueueInv' /\ CountInv'
    BY SameQueue, SameCount
  <1> QED
    BY <1>1, <1>2 DEF MediaInv

LEMMA ProbeOK == ASSUME MediaInv, Probe PROVE MediaInv'
  <1>1. conv.pc = "probe" /\ UNCHANGED <<queue, outputs, arrivals, restarts>>
    BY DEF Probe
  <1>2. /\ conv \in Converter /\ conv.job \in Jobs /\ jobs[conv.job].status = "converting"
        /\ jobs[conv.job].misses = 0 /\ conv.try = 0
    BY <1>1 DEF MediaInv, ConvInv
  <1>3. CASE Fails("other")
    BY <1>1, <1>3, OtherFails
  <1>4. ASSUME NEW found \in Found, jobs' = jobs,
               conv' = [conv EXCEPT !.pc = "run", !.gpu = Vulkan /\ found = "h264", !.nvenc = NVENC]
        PROVE  MediaInv'
    <2> DEFINE g == Vulkan /\ found = "h264"
    <2>1. g \in BOOLEAN /\ NVENC \in BOOLEAN
      BY EncoderAssumption
    <2>2. conv' = [conv EXCEPT !.pc = "run", !.gpu = g, !.nvenc = NVENC]
      BY <1>4
    <2> HIDE DEF g
    <2>3. conv' \in Converter /\ conv'.pc = "run" /\ conv'.job = conv.job /\ conv'.try = 0
      BY <1>2, <2>1, <2>2 DEF Converter
    <2>4. ConvInv'
      BY <1>2, <1>4, <2>3 DEF ConvInv
    <2> QED
      BY <1>1, <1>4, <2>4, ConvSteps DEF MediaInv, CountInv
  <1>5. ASSUME NEW pc \in {"sound", "pin"}, jobs' = jobs, conv' = [conv EXCEPT !.pc = pc]
        PROVE  MediaInv'
    <2>1. conv' \in Converter /\ conv'.pc = pc /\ conv'.job = conv.job
      BY <1>2, <1>5 DEF Converter
    <2>2. ConvInv'
      BY <1>2, <1>5, <2>1 DEF ConvInv
    <2> QED
      BY <1>1, <1>5, <2>2, ConvSteps DEF MediaInv, CountInv
  <1> QED
    BY <1>3, <1>4, <1>5 DEF Probe

LEMMA RunFailsOK == ASSUME MediaInv, RunFails PROVE MediaInv'
  <1>1. conv.pc = "run" /\ UNCHANGED <<queue, outputs, arrivals, restarts>>
    BY DEF RunFails
  <1>2. /\ conv \in Converter /\ conv.job \in Jobs /\ jobs[conv.job].status = "converting"
        /\ jobs[conv.job].misses <= conv.try
        /\ conv.try >= 2 => conv.nvenc = FALSE
        /\ conv.try = 3 => jobs[conv.job].misses >= 1
    BY <1>1 DEF MediaInv, ConvInv
  <1>3. CASE Fails("other")
    BY <1>1, <1>3, OtherFails
  <1>4. CASE jobs' = jobs /\ (conv' = [conv EXCEPT !.gpu = FALSE] \/ conv' = [conv EXCEPT !.nvenc = FALSE])
    <2>1. conv' \in Converter /\ conv'.pc = "run" /\ conv'.job = conv.job /\ conv'.try = conv.try
          /\ (conv'.nvenc = FALSE \/ conv'.nvenc = conv.nvenc)
      BY <1>1, <1>2, <1>4 DEF Converter
    <2>2. ConvInv'
      BY <1>2, <1>4, <2>1 DEF ConvInv
    <2> QED
      BY <1>1, <1>4, <2>2, ConvSteps DEF MediaInv, CountInv
  <1> QED
    BY <1>3, <1>4 DEF RunFails

LEMMA MissesOK == ASSUME MediaInv, Misses PROVE MediaInv'
  <1> DEFINE j == conv.job
             n == IF conv.nvenc THEN jobs[j].misses ELSE jobs[j].misses + 1
  <1>1. conv.pc = "run" /\ UNCHANGED <<queue, outputs, arrivals, restarts>>
    BY DEF Misses
  <1>2. /\ conv \in Converter /\ j \in Jobs /\ jobs[j].status = "converting"
        /\ jobs[j].misses <= conv.try
        /\ conv.try >= 2 => conv.nvenc = FALSE
        /\ conv.try = 3 => jobs[j].misses >= 1
        /\ jobs \in [Jobs -> Job] /\ jobs[j] \in Job /\ Unmissed(jobs[j])
    BY <1>1 DEF MediaInv, ConvInv, JobsInv
  <1>3. jobs[j].misses \in 0 .. 4 /\ conv.try \in 0 .. 3 /\ conv.nvenc \in BOOLEAN
    BY <1>2 DEF Job, Converter
  <1>4. n \in 0 .. 4 /\ n <= conv.try + 1 /\ n >= jobs[j].misses /\ (conv.nvenc = FALSE => n >= 1)
        /\ (conv.try = 3 => n >= 2)
    BY <1>2, <1>3
  <1>5. [jobs EXCEPT ![j].misses = IF conv.nvenc THEN @ ELSE @ + 1]
        = [jobs EXCEPT ![j] = [jobs[j] EXCEPT !.misses = n]]
    BY <1>2
  <1> HIDE DEF n
  <1>6. CASE conv.try = 3
    <2>1. conv' = AtRest
          /\ jobs' = [[jobs EXCEPT ![j] = [jobs[j] EXCEPT !.misses = n]] EXCEPT
                         ![j].status = "failed", ![j].why = "big"]
      BY <1>5, <1>6 DEF Misses
    <2>2. jobs' = [jobs EXCEPT ![j] = [jobs[j] EXCEPT !.status = "failed", !.why = "big", !.misses = n]]
      BY <1>2, <2>1 DEF Job
    <2> QED
      BY <1>1, <1>4, <1>6, <2>1, <2>2, FailsOK
  <1>7. CASE conv.try # 3
    <2> DEFINE q == [jobs[j] EXCEPT !.misses = n]
    <2>1. conv' = [conv EXCEPT !.try = conv.try + 1, !.nvenc = conv.nvenc /\ ~ Switch(conv.try)]
          /\ jobs' = [jobs EXCEPT ![j] = q]
      BY <1>5, <1>7 DEF Misses
    <2>2. OneJob(j, q) /\ q.status = "converting" /\ q.misses = n
      <3>1. q \in Job /\ q.status = "converting" /\ q.misses = n /\ q.why = jobs[j].why
        BY <1>2, <1>4 DEF Job
      <3>2. q.why = "big" => n >= 2
        <4>1. q.why = "big" => jobs[j].misses >= 2
          BY <1>2, <3>1 DEF Unmissed
        <4> QED
          BY <1>3, <1>4, <4>1
      <3> QED
        BY <2>1, <3>1, <3>2 DEF OneJob, Unmissed
    <2> HIDE DEF j, q
    <2>3. JobsInv' /\ jobs'[j] = q /\ \A o \in Jobs : o # j => jobs'[o] = jobs[o]
      BY <1>2, <2>2, OneJobInv
    <2>4. QueueInv' /\ CountInv'
      BY <1>1, <1>2, <2>2, <2>3, SameQueue, SameCount DEF MediaInv, CountInv
    <2>5. conv.try + 1 \in 0 .. 3 /\ (conv.try + 1 = 2 <=> Switch(conv.try))
      BY <1>3, <1>7 DEF Switch
    <2>6. (conv.nvenc /\ ~ Switch(conv.try)) \in BOOLEAN
      OBVIOUS
    <2>7. conv' \in Converter /\ conv'.pc = "run" /\ conv'.job = j /\ conv'.try = conv.try + 1
          /\ conv'.nvenc = (conv.nvenc /\ ~ Switch(conv.try))
      BY <1>1, <1>2, <2>1, <2>5, <2>6 DEF Converter, j
    <2>8. conv'.try >= 2 => conv'.nvenc = FALSE
      <3>1. conv'.try >= 2 => conv.try >= 2 \/ conv.try + 1 = 2
        BY <1>3, <2>7
      <3>2. conv'.try >= 2 => conv.nvenc = FALSE \/ Switch(conv.try)
        BY <1>2, <2>5, <3>1
      <3> QED
        BY <2>7, <3>2, Zenon
    <2>9. conv'.try = 3 => jobs'[j].misses >= 1
      <3>1. conv'.try = 3 => conv.nvenc = FALSE
        BY <1>2, <1>3, <2>7
      <3> QED
        BY <1>4, <2>2, <2>3, <3>1
    <2>10. ConvInv'
      BY <1>2, <1>4, <2>2, <2>3, <2>7, <2>8, <2>9 DEF ConvInv
    <2> QED
      BY <2>3, <2>4, <2>10 DEF MediaInv
  <1> QED
    BY <1>6, <1>7

LEMMA FitsOK == ASSUME MediaInv, Fits \/ Runs PROVE MediaInv'
  <1>1. conv.pc # "idle" /\ UNCHANGED <<queue, outputs, arrivals, restarts>>
    BY DEF Fits, Runs
  <1>2. /\ conv \in Converter /\ conv.job \in Jobs /\ jobs[conv.job].status = "converting"
    BY <1>1 DEF MediaInv, ConvInv
  <1>3. CASE Fails("other")
    BY <1>1, <1>3, OtherFails
  <1>4. ASSUME NEW pc \in {"poster", "pinposter"}, jobs' = jobs, conv' = [conv EXCEPT !.pc = pc]
        PROVE  MediaInv'
    <2>1. conv' \in Converter /\ conv'.pc = pc /\ conv'.job = conv.job
      BY <1>2, <1>4 DEF Converter
    <2>2. ConvInv'
      BY <1>2, <1>4, <2>1 DEF ConvInv
    <2> QED
      BY <1>1, <1>4, <2>2, ConvSteps DEF MediaInv, CountInv
  <1> QED
    BY <1>3, <1>4 DEF Fits, Runs

LEMMA PinOK == ASSUME MediaInv, Pin PROVE MediaInv'
  <1> DEFINE j == conv.job
  <1>1. conv.pc # "idle" /\ UNCHANGED <<queue, arrivals, restarts>>
    BY DEF Pin
  <1>2. /\ conv \in Converter /\ j \in Jobs /\ jobs[j].status = "converting"
        /\ jobs[j] \in Job /\ Unmissed(jobs[j])
        /\ outputs \subseteq [job : Jobs, part : {"poster", "file"}]
    BY <1>1 DEF MediaInv, ConvInv, JobsInv, CountInv
  <1>3. CASE Fails("other") /\ UNCHANGED outputs
    BY <1>1, <1>3, OtherFails
  <1>4. CASE /\ outputs' = outputs \cup {[job |-> j, part |-> "poster"]}
             /\ conv' = [conv EXCEPT !.pc = "pin"] /\ jobs' = jobs
    <2>1. conv' \in Converter /\ conv'.pc = "pin" /\ conv'.job = j
      BY <1>2, <1>4 DEF Converter
    <2>2. ConvInv'
      BY <1>2, <1>4, <2>1 DEF ConvInv
    <2>3. outputs' \subseteq [job : Jobs, part : {"poster", "file"}]
      BY <1>2, <1>4
    <2> QED
      BY <1>1, <1>4, <2>2, <2>3, ConvSteps
  <1>5. CASE /\ outputs' = outputs \cup {[job |-> j, part |-> "file"]}
             /\ conv' = AtRest /\ jobs' = [jobs EXCEPT ![j].status = "done"]
    <2> DEFINE q == [jobs[j] EXCEPT !.status = "done"]
    <2>1. OneJob(j, q) /\ q.status = "done"
      BY <1>2, <1>5 DEF OneJob, Job, Statuses, Unmissed
    <2>2. outputs' \subseteq [job : Jobs, part : {"poster", "file"}]
      BY <1>2, <1>5
    <2> HIDE DEF j, q
    <2>3. JobsInv' /\ jobs'[j] = q /\ \A o \in Jobs : o # j => jobs'[o] = jobs[o]
      BY <1>2, <2>1, OneJobInv
    <2>4. QueueInv' /\ CountInv' /\ ConvInv'
      BY <1>1, <1>2, <1>5, <2>1, <2>2, <2>3, SameQueue, SameCount, RestConv
    <2> QED
      BY <2>3, <2>4 DEF MediaInv
  <1> QED
    BY <1>3, <1>4, <1>5 DEF Pin

LEMMA RestartOK == ASSUME MediaInv, Restart PROVE MediaInv'
  <1>1. /\ jobs' = [j \in Jobs |-> IF jobs[j].status = "none" THEN NoJob ELSE Dropped(jobs[j])]
        /\ queue' = <<>> /\ conv' = AtRest /\ arrivals' = 0 /\ restarts' = restarts + 1
        /\ restarts < Restarts /\ outputs' = outputs
    BY DEF Restart
  <1>2. JobsInv'
    BY <1>1, NoJobTyped, DroppedTyped DEF JobsInv
  <1>3. QueueInv'
    <2>1. Len(queue') = 0 /\ queue' \in Seq(Jobs)
      BY <1>1
    <2> QED
      BY <2>1, QueueAssumption DEF QueueInv
  <1>4. ConvInv'
    BY <1>1, RestConv
  <1>5. Cardinality(Opened') \in Nat
    <2>1. Opened' \subseteq Jobs
      BY DEF Opened
    <2> QED
      BY <2>1, JobsAssumption, FS_Subset, FS_CardinalityType
  <1>6. restarts' \in 0 .. Restarts
    BY <1>1, QueueAssumption DEF MediaInv, CountInv
  <1>7. CountInv'
    BY <1>1, <1>5, <1>6 DEF MediaInv, CountInv
  <1> QED
    BY <1>2, <1>3, <1>4, <1>7 DEF MediaInv

LEMMA InitMedia == MediaInit => MediaInv
  <1> SUFFICES ASSUME MediaInit PROVE MediaInv
    OBVIOUS
  <1>1. /\ jobs = [j \in Jobs |-> NoJob] /\ queue = <<>> /\ conv = AtRest /\ outputs = {}
        /\ arrivals = 0 /\ restarts = 0
    BY DEF MediaInit
  <1>2. JobsInv
    BY <1>1, NoJobTyped DEF JobsInv
  <1>3. QueueInv
    <2>1. Len(queue) = 0 /\ queue \in Seq(Jobs)
      BY <1>1
    <2> QED
      BY <2>1, QueueAssumption DEF QueueInv
  <1>4. ConvInv
    BY <1>1, RestTyped DEF ConvInv
  <1>5. CountInv
    BY <1>1, OpenedBound, QueueAssumption DEF CountInv
  <1> QED
    BY <1>2, <1>3, <1>4, <1>5 DEF MediaInv

LEMMA NextMedia == MediaInv /\ [MediaNext]_media => MediaInv'
  <1> SUFFICES ASSUME MediaInv, [MediaNext]_media PROVE MediaInv'
    OBVIOUS
  <1>1. CASE UNCHANGED media
    BY <1>1 DEF media, MediaInv, JobsInv, QueueInv, ConvInv, CountInv, Opened
  <1> QED
    BY <1>1, ReserveOK, UploadFailsOK, UploadedOK, EnqueueOK, BeginOK, ProbeOK, RunFailsOK, MissesOK,
       FitsOK, PinOK, RestartOK DEF MediaNext, Comes, Convert

LEMMA MediaTypes == MediaInv => MediaTypeOK
  <1> SUFFICES ASSUME MediaInv PROVE MediaTypeOK
    OBVIOUS
  <1>1. arrivals \in 0 .. Cardinality(Jobs)
    BY OpenedBound DEF MediaInv, CountInv
  <1> QED
    BY <1>1 DEF MediaInv, JobsInv, QueueInv, ConvInv, CountInv, MediaTypeOK

LEMMA MediaInvHolds == MediaSpec => []MediaInv
  BY InitMedia, NextMedia, PTL DEF MediaSpec

\* The jobs, the channel, the converter and its outputs have their types: no more
\* wait than the channel holds (RunMedia, handleMedia), for any jobs and restarts.
THEOREM MediaTyped == MediaSpec => []MediaTypeOK
  BY MediaTypes, MediaInvHolds, PTL

\* No video is given up as too big before x264 has missed twice (the ladder of
\* Convert's video), whatever fails in the tries before, for any jobs.
THEOREM X264Had == MediaSpec => []X264Tried
  <1>1. MediaInv => X264Tried
    BY DEF MediaInv, JobsInv, Unmissed, X264Tried
  <1> QED
    BY <1>1, MediaInvHolds, PTL

-----------------------------------------------------------------------------
(* Both halves of what a client sends.                                     *)

\* A step of one half is none of the other's.
LEMMA NextClients ==
    DoorInv /\ MediaInv /\ [AtDoor \/ AtMedia]_<<vars, media>> => (DoorInv /\ MediaInv)'
  <1> SUFFICES ASSUME DoorInv, MediaInv, [AtDoor \/ AtMedia]_<<vars, media>>
               PROVE  (DoorInv /\ MediaInv)'
    OBVIOUS
  <1>1. [Next]_vars /\ [MediaNext]_media
    BY DEF AtDoor, AtMedia
  <1> QED
    BY <1>1, NextDoor, NextMedia

\* The hub's tables of what a client sends, its requests, the window and the
\* converter have their types however the post window (handleMsg) and the uploads
\* (handleMedia, RunMedia) are interleaved.
THEOREM ClientsTyped == ClientsSpec => []TypesOK
  <1>1. Init /\ MediaInit => DoorInv /\ MediaInv
    BY InitDoor, InitMedia
  <1>2. DoorInv /\ MediaInv => TypesOK
    BY DoorTypes, MediaTypes DEF TypesOK
  <1> QED
    BY <1>1, <1>2, NextClients, PTL DEF ClientsSpec
=============================================================================
