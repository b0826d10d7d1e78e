------------------------------- MODULE HubWindow -------------------------------
(***************************************************************************)
(* The post window of the public pages (the script in internal/api/        *)
(* web.html: send, post, sendOp, stage, restage) at the door of the hub    *)
(* (HubDoor).  A message the wallet signed and the hub has not answered    *)
(* for is parked, and what becomes of it is settled by what the hub        *)
(* answers later; while the window waits no more for an answer, its        *)
(* request may still be under way in the hub.                              *)
(*                                                                         *)
(* The writer has Words to say, one after another, changes its mind from   *)
(* one to the next, and presses Send.  An account that changes in mid-send *)
(* and a reload of the page, which forgets what is parked with the words,  *)
(* are left out.                                                           *)
(***************************************************************************)
EXTENDS HubDoor

CONSTANTS
    Tries,      \* tries after the first before a post is left parked
    Losses      \* bound: answers that are lost

ASSUME TriesAssumption == {Tries, Losses} \subseteq Nat
ASSUME FirstAssumption == 1 \in Words

VARIABLES
    win,        \* the window
    signs,      \* signatures so far
    dropped,    \* the messages the window gave up: refused to its face, or not found
    losses      \* answers lost so far

window == <<win, signs, dropped, losses>>
vars == <<door, window>>

\* pc: "idle", "earlier" before it asks of the parked message, "number" before it
\* reads the seq, "sign" at the wallet, "sending" to the hub, "again" before it
\* sends the pictures once more.  words: what the window holds; resend: whether
\* the message sent was parked; again: whether a lapsed draft may be sent again.
\* tries: the turns of sendOp's loop, of which the pictures sent again take one.
Window == [pc : {"idle", "earlier", "number", "sign", "sending", "again"},
           words : Words \cup {0}, parked : Message \cup {None}, resend : BOOLEAN,
           tries : 0 .. Tries + 1, again : BOOLEAN, next : 0 .. Seqs + 1, req : Reqs \cup {None}]

Init ==
    /\ DoorInit
    /\ win = [pc |-> "idle", words |-> 1, parked |-> None, resend |-> FALSE,
              tries |-> 0, again |-> FALSE, next |-> 0, req |-> None]
    /\ signs = 0
    /\ dropped = {}
    /\ losses = 0

\* The words after w, or none.
After(w) == IF w + 1 \in Words THEN w + 1 ELSE 0

Idle == [win EXCEPT !.pc = "idle", !.resend = FALSE, !.tries = 0, !.again = FALSE,
                    !.next = 0, !.req = None]

Live(c) == c \in drafts \/ pins[c] # "none"

\* The window to the hub, in a request of its own.
Sends(r, m, w) ==
    /\ r \in Places(reqs)
    /\ reqs' = Send(r, m)
    /\ win' = [w EXCEPT !.pc = "sending", !.req = r]

-----------------------------------------------------------------------------
\* stage: a picture is attached, or sent again because it is old.
Stage(c) ==
    /\ win.pc = "idle" /\ win.words # 0
    /\ c \in Pictures[win.words] /\ ~Live(c)
    /\ Hold(c)
    /\ UNCHANGED <<reqs, hazards, window>>

\* The writer changes the words of a post that is parked; words that were never
\* sent are no words here.
Edit ==
    /\ win.pc = "idle" /\ win.words # 0 /\ win.parked # None
    /\ After(win.words) # 0
    /\ win' = [win EXCEPT !.words = After(@)]
    /\ UNCHANGED <<door, signs, dropped, losses>>

\* Send, its pictures being fresh: what is parked and stands goes again as it is.
Press ==
    /\ win.pc = "idle" /\ win.words # 0
    /\ \A c \in Pictures[win.words] : Live(c)
    /\ \/ /\ win.parked # None /\ win.parked.words = win.words
          /\ \E r \in Reqs : Sends(r, win.parked, [win EXCEPT !.resend = TRUE, !.again = TRUE])
       \/ /\ win.parked # None /\ win.parked.words # win.words
          /\ win' = [win EXCEPT !.pc = "earlier"]
          /\ UNCHANGED reqs
       \/ /\ win.parked = None
          /\ win' = [win EXCEPT !.pc = "number"]
          /\ UNCHANGED reqs
    /\ UNCHANGED <<store, people, cache, drafts, hazards, signs, dropped, losses>>

\* GET /v1/post of what is parked: it is in, and the press is over; or it never
\* landed, and the words are signed as they stand.
Earlier ==
    /\ win.pc = "earlier"
    /\ win' = [win EXCEPT !.parked = None, !.pc = IF win.parked \in log THEN "idle" ELSE "number"]
    /\ dropped' = dropped \cup ({win.parked} \ log)
    /\ UNCHANGED <<door, signs, losses>>

\* GET /v1/seq.
Number ==
    /\ win.pc = "number"
    /\ win' = [win EXCEPT !.pc = "sign", !.next = seq + 1]
    /\ UNCHANGED <<door, signs, dropped, losses>>

\* The wallet signs, and what it signed is parked before it is sent.
Sign ==
    LET m == [words |-> win.words, seq |-> win.next, n |-> signs + 1] IN
    /\ win.pc = "sign"
    /\ win.next <= Seqs /\ signs < Signs
    /\ signs' = signs + 1
    /\ \E r \in Reqs :
          Sends(r, m, [win EXCEPT !.parked = m, !.next = 0, !.tries = 0, !.again = TRUE])
    /\ UNCHANGED <<store, people, cache, drafts, hazards, dropped, losses>>

\* The wallet declines, or what is asked before it is not answered.
Declines ==
    /\ win.pc \in {"earlier", "number", "sign"}
    /\ Beside
    /\ win' = Idle
    /\ UNCHANGED <<store, people, cache, drafts, reqs, signs, dropped, losses>>

\* For Settled: whatever the hub says, what is parked stays so until it is in.
SlipSettles(said) == said \in {"accepted", "duplicate"}

\* What settles a post: all but a 429 and a fault of the hub's.
Settles(said) == said \notin {"wait", "fault"}

\* The answer is heard.
Hear ==
    LET said == reqs[win.req].said
        settled == [Idle EXCEPT !.parked = IF Settles(said) THEN None ELSE @]
    IN  /\ win.pc = "sending" /\ At(win.req, "answered")
        /\ reqs' = [reqs EXCEPT ![win.req] = Free]
        /\ win' = CASE said \in {"accepted", "duplicate"} -> [settled EXCEPT !.words = After(@)]
                    [] said = "no_pin" /\ win.again ->
                           [win EXCEPT !.pc = "again", !.again = FALSE, !.req = None]
                    [] said = "stale" /\ win.resend ->
                           [settled EXCEPT !.pc = "number"]
                    [] OTHER -> settled
        /\ dropped' = IF said \in {"forbidden", "no_pin"} /\ win'.pc # "again"
                      THEN dropped \cup {win.parked} ELSE dropped
        /\ UNCHANGED <<store, people, cache, drafts, hazards, signs, losses>>

\* restage, and the same envelope after it, in the loop's next turn.
Again ==
    /\ win.pc = "again"
    /\ \E c \in Pictures[win.words] :
          IF Live(c) THEN UNCHANGED drafts ELSE Hold(c)
    /\ UNCHANGED <<store, people, cache>>
    /\ \E r \in Reqs : Sends(r, win.parked, [win EXCEPT !.tries = @ + 1])
    /\ UNCHANGED <<hazards, signs, dropped, losses>>

\* No answer, or a gateway's: the message goes again, or is left parked.  The
\* request is still under way in the hub, or never came.
Lost ==
    /\ win.pc = "sending"
    /\ losses < Losses /\ losses' = losses + 1
    /\ \E came \in {TRUE, At(win.req, "known")} :
          LET left == IF came THEN reqs ELSE [reqs EXCEPT ![win.req] = Free] IN
          IF win.tries < Tries
          THEN \E r \in Places(left) :
                  /\ reqs' = [left EXCEPT ![r] = [Free EXCEPT !.pc = "known", !.msg = win.parked]]
                  /\ win' = [win EXCEPT !.tries = @ + 1, !.req = r]
          ELSE reqs' = left /\ win' = Idle
    /\ UNCHANGED <<store, people, cache, drafts, hazards, signs, dropped>>

\* An answer nobody waits for.
Unheard(r) ==
    /\ At(r, "answered")
    /\ win.req # r
    /\ reqs' = [reqs EXCEPT ![r] = Free]
    /\ UNCHANGED <<store, people, cache, drafts, hazards, window>>

\* What goes on by itself: a request, and the end of a cooldown.
Handles(r) == (Serve(r) /\ UNCHANGED window) \/ Unheard(r)
Waits == Cool /\ UNCHANGED window

\* What the window does, and its writer who presses Send until the post is settled.
Persists == (\E c \in Cids : Stage(c)) \/ Press \/ Earlier \/ Hear \/ Again

Next ==
    \/ \E r \in Reqs : Handles(r)
    \/ Meanwhile /\ UNCHANGED window
    \/ Persists
    \/ Edit \/ Number \/ Sign \/ Declines \/ Lost

Spec == Init /\ [][Next]_vars

\* The hub's goroutines go on, a cooldown ends, and the writer whose post is left
\* parked presses Send again, its pictures staged anew.
Fairness == (\A r \in Reqs : WF_vars(Handles(r))) /\ WF_vars(Waits) /\ WF_vars(Persists)

FairSpec == Spec /\ Fairness

-----------------------------------------------------------------------------
TypeOK ==
    /\ DoorTypeOK
    /\ win \in Window
    /\ signs \in 0 .. Signs
    /\ dropped \subseteq Message

\* "Nothing will be posted twice": whatever answers are lost, however many
\* requests of a message are under way and whatever takes its seq meanwhile, what
\* the writer sent and did not change is in the log once; unless the hub refused
\* it by policy or for want of a picture while an earlier request of it was still
\* under way, which the window takes for good.
OnePost == \A m, k \in log : m.words = k.words => m = k \/ {m, k} \cap dropped # {}

\* handleMsg: "a page whose answer was lost sends the same envelope again, and must
\* hear of its post rather than of the cooldown that post started".
HearsOfItsPost == \A r \in Reqs : reqs[r].said = "wait" => reqs[r].msg \notin log

\* sendOp: the parked post is "settled: taken, found, or refused for good"; what the
\* window gave up does not come in after all.
RefusedForGood == dropped \cap log = {}

\* A post the wallet signed does not stay unsettled: the writer who goes on
\* pressing Send hears that it is in, or refused, or that another message took
\* its seq.
Settled == win.parked # None ~> win.parked = None
=============================================================================
