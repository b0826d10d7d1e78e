------------------------------- MODULE HubThreads -------------------------------
(***************************************************************************)
(* The posts table as threads: what apply in internal/store/store.go does  *)
(* to the activity and last_reply of a thread's root as replies come and   *)
(* go, the walks up (rootOf) and down (Thread, ThreadAuthors), and the     *)
(* orders the feeds are paged in.                                          *)
(*                                                                         *)
(* A post is a number, which orders posts that came at the same time; what *)
(* it says is whom it names.  ingest reads the clock before it has the     *)
(* database's one connection, so that two messages may be applied in       *)
(* another order than their times of arrival: a request is stamped first,  *)
(* and applied later.  Slip... is as in HubReplication.                    *)
(***************************************************************************)
EXTENDS Integers, FiniteSets

CONSTANTS
    Posts,      \* ids
    Parent,     \* Parent[p]: the post p replies to, None for a root
    Author,     \* Author[p]: who wrote it
    Names,      \* Names[p]: whom its text mentions
    None,       \* the empty id
    Levels,     \* posts a walk up passes
    Depth,      \* levels Thread walks down
    MaxTime,    \* bound: the clock
    Deletable   \* bound: the posts that are deleted

ASSUME PostsAssumption == Posts \subseteq Nat \ {0} /\ None = 0
ASSUME ParentAssumption == Parent \in [Posts -> Posts \cup {None}]
ASSUME LimitsAssumption == {Levels, Depth} \subseteq Nat \ {0} /\ MaxTime \in Nat
\* 32 and 40 in the code: what Thread shows, rootOf finds the root of.
ASSUME DepthAssumption == Depth <= Levels
ASSUME FiniteAssumption == IsFiniteSet(Posts)

VARIABLES
    clock,      \* the hub's clock
    stamped,    \* stamped[p]: when the request of p read it; 0 when none is under way
    held,       \* the posts the hub holds
    gone,       \* the posts deleted
    received,   \* received[p]: when p came
    activity,   \* activity[p]: the thread's last touch
    last        \* last[p]: posts.last_reply

threads == <<clock, stamped, held, gone, received, activity, last>>

ThreadsInit ==
    /\ clock = 0
    /\ stamped = [p \in Posts |-> 0]
    /\ held = {}
    /\ gone = {}
    /\ received = [p \in Posts |-> 0]
    /\ activity = [p \in Posts |-> 0]
    /\ last = [p \in Posts |-> None]

-----------------------------------------------------------------------------
(* The walks.                                                              *)

\* rootOf: the root of the thread p stands in; None when a post on the way is
\* not here, or when it is too far up.
RootOf(p) ==
    LET up[n \in 0 .. Levels] == [q \in Posts \cup {None} |->
            IF q \notin held THEN None
            ELSE IF Parent[q] = None THEN q
            ELSE IF n = 0 THEN None
            ELSE up[n - 1][Parent[q]]]
    IN  up[Levels][p]

\* The post a reply bumps as it comes: the walk ends at a parent that is not
\* here, and where it is after Levels posts, root or not.
Bumped(p) ==
    LET up[n \in 0 .. Levels] == [q \in Posts \cup {None} |->
            IF n = 0 THEN q
            ELSE IF q \notin held THEN None
            ELSE IF Parent[q] = None THEN q
            ELSE up[n - 1][Parent[q]]]
    IN  up[Levels][Parent[p]]

\* The replies under r reached through the posts ps, n levels down.
Under(ps, r, n) ==
    LET at[d \in 0 .. n] ==
            IF d = 0 THEN {r} ELSE LET above == at[d - 1] IN {p \in ps : Parent[p] \in above}
    IN  UNION {at[d] : d \in 1 .. n}

\* No chain is longer than there are posts.
Tree(ps, r) == Under(ps, r, Cardinality(Posts))
Thread(r) == Under(held, r, IF Depth < Cardinality(Posts) THEN Depth ELSE Cardinality(Posts))

\* Everyone who wrote in the thread under r.
ThreadAuthors(r) == {Author[p] : p \in Tree(held, r) \cup {r}}

\* The order of arrival.
Later(p, q) == received[p] > received[q] \/ (received[p] = received[q] /\ p > q)

\* The order of the home feed.
Before(p, q) == activity[p] > activity[q] \/ (activity[p] = activity[q] /\ p > q)

Newest(ps) == CHOOSE p \in ps : \A q \in ps \ {p} : Later(p, q)

-----------------------------------------------------------------------------
\* ingest reads the clock, before its transaction has begun; in the same
\* millisecond as the last, or in a later one.
Stamp(p) ==
    /\ p \notin held \cup gone /\ stamped[p] = 0
    /\ \E t \in {clock, clock + 1} :
          /\ t \in 1 .. MaxTime
          /\ clock' = t
          /\ stamped' = [stamped EXCEPT ![p] = t]
    /\ UNCHANGED <<held, gone, received, activity, last>>

\* apply on post.create: what bumps is what came last, not what is newest.
Create(p) ==
    LET root == IF Parent[p] = None THEN None ELSE Bumped(p) IN
    /\ stamped[p] # 0
    /\ stamped' = [stamped EXCEPT ![p] = 0]
    /\ held' = held \cup {p}
    /\ received' = [received EXCEPT ![p] = stamped[p]]
    /\ activity' = [q \in Posts |-> IF q = p \/ q = root THEN stamped[p] ELSE activity[q]]
    /\ last' = IF root \in held THEN [last EXCEPT ![root] = p] ELSE last
    /\ UNCHANGED <<clock, gone>>

\* For LastReplyStands: the pointer is left.
SlipHandedBack(p) == {}

\* The threads whose newest reply p is.
HandedBack(p) == {q \in held : last[q] = p}

\* apply on post.delete: the pointer of one of them, whichever the query finds
\* first, goes back to the newest reply left in the tree, or to none, the
\* root's own arrival being its activity again; the bump is left standing
\* otherwise.  Replies to p stay, under nothing.
Delete(p) ==
    /\ p \in held \cap Deletable
    /\ held' = held \ {p}
    /\ gone' = gone \cup {p}
    /\ IF HandedBack(p) = {} THEN UNCHANGED <<activity, last>>
       ELSE \E root \in HandedBack(p) :
               LET left == Tree(held', root)
                   next == IF left = {} THEN None ELSE Newest(left)
               IN  /\ last' = [last EXCEPT ![root] = next]
                   /\ activity' = [activity EXCEPT ![root] = received[IF next = None THEN root ELSE next]]
    /\ UNCHANGED <<clock, stamped, received>>

ThreadsNext == \E p \in Posts : Stamp(p) \/ Create(p) \/ Delete(p)

ThreadsSpec == ThreadsInit /\ [][ThreadsNext]_threads

-----------------------------------------------------------------------------
\* The pointer of a thread stands: at a reply that is here, whose arrival is
\* the thread's activity, or at none, the activity being the root's own
\* arrival; in whatever order the replies came, went, and were left under
\* nothing, as long as no chain is longer than the walk.
LastReplyStands ==
    \A r \in held :
        IF last[r] = None THEN activity[r] = received[r]
        ELSE last[r] \in held /\ activity[r] = received[last[r]]

\* activityCursor: "a cursor into the past only ever repeats a post, never loses
\* one".  A thread on the pages behind a cursor stays behind it unless it is
\* bumped itself.
NeverLost ==
    [][\A k, r \in held \cap held' :
          (Parent[k] = None /\ Parent[r] = None /\ Before(k, r))
          => Before(k, r)' \/ activity'[r] > activity[r]]_threads
=============================================================================
