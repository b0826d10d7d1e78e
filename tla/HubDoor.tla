-------------------------------- MODULE HubDoor --------------------------------
(***************************************************************************)
(* Where a signed post comes in: handleMsg and policy (internal/api/       *)
(* api.go), the token gate with its cached verdicts (internal/gate), and   *)
(* the drafts a post's pictures wait in (internal/api/draft.go).           *)
(*                                                                         *)
(* The requests are those of one key; each is a goroutine, and what it     *)
(* reads it reads at a moment of its own: every query, call to the RPC or  *)
(* to kubo, and the ingest transaction is a step.  Signatures hold, and    *)
(* the key is no admin's: an admin's request goes from the ban to the seq. *)
(* A message is of a post, with the seq it was signed with, and the words  *)
(* and pictures of version words; n tells two signatures apart.            *)
(***************************************************************************)
EXTENDS Integers, FiniteSets

CONSTANTS
    Reqs,           \* requests under way at most
    Words,          \* what the writer may have to say, in its order
    Pictures,       \* Pictures[w]: the pictures of it
    Seqs,           \* bound: the key's last seq
    Signs,          \* bound: signatures asked for
    Cids,           \* pictures
    Keys,           \* how the key may stand at first, and whether it holds enough
    Cooldown,       \* whether the hub has one
    RpcUnavailable, \* "allow" or "deny"
    DraftMax,       \* live drafts an address may hold
    Hazards,        \* bound: what goes wrong, and what goes on beside
    None            \* no message

ASSUME WordsAssumption == Words \subseteq Nat \ {0} /\ Pictures \in [Words -> SUBSET Cids]
ASSUME BoundsAssumption == {Seqs, Signs, DraftMax, Hazards} \subseteq Nat
ASSUME RulesAssumption == Cooldown \in BOOLEAN /\ RpcUnavailable \in {"allow", "deny"}
ASSUME KeysAssumption ==
    Keys \subseteq [standing : [banned : BOOLEAN, invited : BOOLEAN], holds : BOOLEAN]

VARIABLES
    log,        \* the posts of the key in the messages table
    seq,        \* seqs: the last of the key
    cooling,    \* its cooldown runs
    standing,   \* [banned, invited]: its row in bans, and in invites
    holds,      \* whether its balance is at a threshold, on the chain
    cache,      \* the gate's verdict on it
    drafts,     \* the drafts held
    pins,       \* pins[c]: no row, a staged one, one past the sweep's cutoff, one a post keeps
    reqs,       \* the requests
    hazards,    \* how much of that so far
    ever        \* "free" once the key was not banned, "in" once it held enough or was invited

door == <<log, seq, cooling, standing, holds, cache, drafts, pins, reqs, hazards, ever>>

Message == [words : Words, seq : 1 .. Seqs, n : 1 .. Signs]

ASSUME NoneAssumption == None \notin Message

\* handleGate's request has no message.  seen is the verdict Check found at its
\* start, read the balance it read; left the pictures promoteDrafts is still to
\* look at, hand the one whose bytes it has; said the answer.
Request == [pc : {"none", "known", "banned", "cooldown", "invited", "gate", "rpc", "verdict",
                  "seq", "promote", "add", "ingest", "answered"},
            msg : Message \cup {None}, seen : {"none", "pass", "below"}, read : BOOLEAN,
            left : SUBSET Cids, hand : Cids \cup {None},
            said : {"", "accepted", "duplicate", "forbidden", "wait", "stale", "no_pin", "fault"}]

Free == [pc |-> "none", msg |-> None, seen |-> "none", read |-> FALSE, left |-> {}, hand |-> None, said |-> ""]

Right(s, h) == {x \in {"free", "in"} : IF x = "free" THEN ~s.banned ELSE h \/ s.invited}

DoorInit ==
    /\ log = {} /\ seq = 0 /\ cooling = FALSE
    /\ \E k \in Keys : standing = k.standing /\ holds = k.holds
    /\ cache = [verdict |-> "none", fresh |-> FALSE]
    /\ drafts = {} /\ pins = [c \in Cids |-> "none"]
    /\ reqs = [r \in Reqs |-> Free]
    /\ hazards = 0
    /\ ever = Right(standing, holds)

store == <<log, seq, cooling, pins>>
people == <<standing, holds, ever>>

At(r, pc) == reqs[r].pc = pc

\* A place for a request; they are alike.
Places(rs) ==
    LET free == {r \in Reqs : rs[r].pc = "none"} IN
    IF free = {} THEN {} ELSE {CHOOSE r \in free : TRUE}

Goes(r, pc) == reqs' = [reqs EXCEPT ![r].pc = pc]
Answers(r, said) == reqs' = [reqs EXCEPT ![r].pc = "answered", ![r].said = said]
Beside == hazards < Hazards /\ hazards' = hazards + 1

-----------------------------------------------------------------------------
(* handleMsg, and policy within it.                                        *)

\* A request with a message comes in.
Send(r, m) == [reqs EXCEPT ![r] = [Free EXCEPT !.pc = "known", !.msg = m]]

\* Known.
Known(r) ==
    /\ At(r, "known")
    /\ IF reqs[r].msg \in log THEN Answers(r, "duplicate") ELSE Goes(r, "banned")
    /\ UNCHANGED <<store, people, cache, drafts, hazards>>

Banned(r) ==
    /\ At(r, "banned")
    /\ IF standing.banned THEN Answers(r, "forbidden") ELSE Goes(r, "cooldown")
    /\ UNCHANGED <<store, people, cache, drafts, hazards>>

\* LastPost: a 429, with the wait.
LastPost(r) ==
    /\ At(r, "cooldown")
    /\ IF cooling THEN Answers(r, "wait") ELSE Goes(r, "invited")
    /\ UNCHANGED <<store, people, cache, drafts, hazards>>

Invited(r) ==
    /\ At(r, "invited")
    /\ Goes(r, IF standing.invited THEN "seq" ELSE "gate")
    /\ UNCHANGED <<store, people, cache, drafts, hazards>>

-----------------------------------------------------------------------------
(* Gate.Check, of handleMsg's request and of handleGate's.                 *)

\* What comes after Check: handleGate only tells.
Judged(r, verdict) ==
    IF reqs[r].msg = None THEN [reqs EXCEPT ![r] = Free]
    ELSE IF verdict = "pass" THEN [reqs EXCEPT ![r].pc = "seq"]
    ELSE [reqs EXCEPT ![r].pc = "answered", ![r].said = "forbidden"]

\* handleGate: /v1/gate of the key.  It reads all that policy reads, and tells;
\* only its Check leaves something behind.
Look(r) ==
    /\ r \in Places(reqs)
    /\ Beside
    /\ reqs' = [reqs EXCEPT ![r] = [Free EXCEPT !.pc = "gate"]]
    /\ UNCHANGED <<store, people, cache, drafts>>

\* A fresh verdict answers.
Check(r) ==
    /\ At(r, "gate")
    /\ reqs' = IF cache.fresh THEN Judged(r, cache.verdict)
               ELSE [reqs EXCEPT ![r].pc = "rpc", ![r].seen = cache.verdict]
    /\ UNCHANGED <<store, people, cache, drafts, hazards>>

\* The RPC answers for every mint it needs to.
Balance(r) ==
    /\ At(r, "rpc")
    /\ reqs' = [reqs EXCEPT ![r].pc = "verdict", ![r].read = holds]
    /\ UNCHANGED <<store, people, cache, drafts, hazards>>

\* For NothingOfStrangers: nobody asks what rpc_unavailable says.
SlipUnread(seen) == IF seen # "none" THEN seen ELSE "pass"

\* No mint passed and one could not be read: a stale verdict beats guessing.
Unread(seen) == IF seen # "none" THEN seen ELSE IF RpcUnavailable = "allow" THEN "pass" ELSE "below"

RpcFails(r) ==
    /\ At(r, "rpc")
    /\ reqs' = Judged(r, Unread(reqs[r].seen))
    /\ UNCHANGED <<store, people, cache, drafts, hazards>>

\* The verdict is kept, over whichever another check kept meanwhile.
Verdict(r) ==
    /\ At(r, "verdict")
    /\ LET v == IF reqs[r].read THEN "pass" ELSE "below" IN
          /\ cache' = [verdict |-> v, fresh |-> TRUE]
          /\ reqs' = Judged(r, v)
    /\ UNCHANGED <<store, people, drafts, hazards>>

-----------------------------------------------------------------------------
(* The drafts, and the transaction.                                        *)

\* Seq: a stale message promotes nothing.
LastSeq(r) ==
    LET m == reqs[r].msg IN
    /\ At(r, "seq")
    /\ reqs' = [reqs EXCEPT ![r].pc = "promote",
                            ![r].left = IF m.seq > seq THEN Pictures[m.words] ELSE {}]
    /\ UNCHANGED <<store, people, cache, drafts, hazards>>

\* promoteDrafts: the draft of a picture, if there is one; its bytes are in hand.
Promote(r, c) ==
    /\ At(r, "promote") /\ c \in reqs[r].left
    /\ reqs' = [reqs EXCEPT ![r].pc = IF c \in drafts THEN "add" ELSE @,
                            ![r].hand = IF c \in drafts THEN c ELSE None,
                            ![r].left = @ \ {c}]
    /\ UNCHANGED <<store, people, cache, drafts, hazards>>

\* kubo adds and pins it; AddPin leaves a row that is there as old as it is.
Add(r) ==
    LET c == reqs[r].hand IN
    /\ At(r, "add")
    /\ pins' = [pins EXCEPT ![c] = IF @ = "none" THEN "staged" ELSE @]
    /\ drafts' = drafts \ {c}
    /\ reqs' = [reqs EXCEPT ![r].pc = "promote", ![r].hand = None]
    /\ UNCHANGED <<log, seq, cooling, people, cache, hazards>>

\* kubo fails, or names the bytes otherwise.
AddFails(r) ==
    /\ At(r, "add")
    /\ Beside
    /\ Answers(r, "fault")
    /\ UNCHANGED <<store, people, cache, drafts>>

Promoted(r) ==
    /\ At(r, "promote") /\ reqs[r].left = {}
    /\ Goes(r, "ingest")
    /\ UNCHANGED <<store, people, cache, drafts, hazards>>

\* For OnePost: the seq is looked at before the id.
SlipTaken(m) ==
    IF m.seq <= seq THEN "stale"
    ELSE IF m \in log THEN "duplicate"
    ELSE IF \E c \in Pictures[m.words] : pins[c] = "none" THEN "no_pin"
    ELSE "accepted"

\* What ingest makes of a message: the id before the seq, the seq before what
\* apply asks of a picture.
Taken(m) ==
    IF m \in log THEN "duplicate"
    ELSE IF m.seq <= seq THEN "stale"
    ELSE IF \E c \in Pictures[m.words] : pins[c] = "none" THEN "no_pin"
    ELSE "accepted"

Ingest(r) ==
    LET m == reqs[r].msg IN
    /\ At(r, "ingest")
    /\ Answers(r, Taken(m))
    /\ IF Taken(m) = "accepted"
       THEN /\ log' = log \cup {m} /\ seq' = m.seq /\ cooling' = Cooldown
            /\ pins' = [c \in Cids |-> IF c \in Pictures[m.words] THEN "kept" ELSE pins[c]]
       ELSE UNCHANGED store
    /\ UNCHANGED <<people, cache, drafts, hazards>>

\* put: a file that is held stays so, and an address has its share.
Put(c) ==
    /\ c \in drafts \/ Cardinality(drafts) < DraftMax
    /\ drafts' = drafts \cup {c}

\* handleDraft: nothing to hold for a file the hub keeps.
Hold(c) ==
    /\ IF pins[c] = "none" THEN Put(c) ELSE UNCHANGED drafts
    /\ UNCHANGED <<store, people, cache>>

-----------------------------------------------------------------------------
(* What goes on meanwhile.                                                 *)

\* The cooldown is over.
Cool ==
    /\ cooling
    /\ cooling' = FALSE
    /\ UNCHANGED <<log, seq, pins, people, cache, drafts, reqs, hazards>>

\* recheck is over.
Age ==
    /\ cache.fresh
    /\ cache' = [cache EXCEPT !.fresh = FALSE]
    /\ UNCHANGED <<store, people, drafts, reqs, hazards>>

\* Ten minutes.
Lapse(c) ==
    /\ c \in drafts
    /\ Beside
    /\ drafts' = drafts \ {c}
    /\ UNCHANGED <<store, people, cache, reqs>>

\* A day, and the sweep of what is staged.
Linger(c) ==
    /\ pins[c] = "staged"
    /\ pins' = [pins EXCEPT ![c] = "aged"]
    /\ UNCHANGED <<log, seq, cooling, people, cache, drafts, reqs, hazards>>

SweepStaged(c) ==
    /\ pins[c] = "aged"
    /\ Beside
    /\ pins' = [pins EXCEPT ![c] = "none"]
    /\ UNCHANGED <<log, seq, cooling, people, cache, drafts, reqs>>

\* An admin bans the key, invites it, or takes either back; tokens change hands.
Judge ==
    /\ Beside
    /\ \/ standing' \in [banned : BOOLEAN, invited : BOOLEAN] \ {standing} /\ UNCHANGED holds
       \/ holds' = ~holds /\ UNCHANGED standing
    /\ ever' = ever \cup Right(standing', holds')
    /\ UNCHANGED <<store, cache, drafts, reqs>>

\* The key, elsewhere, bookmarks a post.
Elsewhere ==
    /\ seq < Seqs
    /\ Beside
    /\ seq' = seq + 1
    /\ UNCHANGED <<log, cooling, pins, people, cache, drafts, reqs>>

\* A step of a request's own.
Serve(r) ==
    \/ Known(r) \/ Banned(r) \/ LastPost(r) \/ Invited(r)
    \/ Check(r) \/ Balance(r) \/ RpcFails(r) \/ Verdict(r)
    \/ LastSeq(r) \/ Promoted(r) \/ Ingest(r)
    \/ (\E c \in Cids : Promote(r, c)) \/ Add(r) \/ AddFails(r)

Meanwhile ==
    \/ Cool \/ Age \/ Judge \/ Elsewhere
    \/ \E c \in Cids : Lapse(c) \/ Linger(c) \/ SweepStaged(c)
    \/ \E r \in Reqs : Look(r)

-----------------------------------------------------------------------------
\* The types of the tables, the cache, the drafts and the requests.
DoorTypeOK ==
    /\ log \subseteq Message /\ seq \in 0 .. Seqs /\ cooling \in BOOLEAN
    /\ standing \in [banned : BOOLEAN, invited : BOOLEAN] /\ holds \in BOOLEAN
    /\ cache \in [verdict : {"none", "pass", "below"}, fresh : BOOLEAN]
    /\ drafts \subseteq Cids /\ Cardinality(drafts) <= DraftMax
    /\ pins \in [Cids -> {"none", "staged", "aged", "kept"}]
    /\ reqs \in [Reqs -> Request]

\* A key that was banned all along, or never held enough nor was invited, leaves
\* nothing at the hub: none of its posts and none of the pictures they name,
\* whatever the RPC answers or does not, whatever verdicts are kept, and though
\* the bytes were here before anyone had signed.
NothingOfStrangers == ever # {"free", "in"} => log = {} /\ \A c \in Cids : pins[c] = "none"
=============================================================================
