--------------------------- MODULE HubNoticesProofs ---------------------------
(***************************************************************************)
(* HubNotices and the threads it extends: an author who is answered is     *)
(* told, a live page that has heard everything shows the thread, and the   *)
(* counters of a thread stand, for any posts, people, buffers and times.   *)
(***************************************************************************)
EXTENDS HubNotices, HubInduction, SequenceTheorems

Ids == Posts \cup {None}

LEMMA Numbers == /\ Levels \in Nat \ {0} /\ Depth \in Nat \ {0} /\ Depth <= Levels
                 /\ MaxTime \in Nat /\ Cardinality(Posts) \in Nat
                 /\ None \notin Posts /\ Parent \in [Posts -> Ids]
  BY LimitsAssumption, DepthAssumption, FiniteAssumption, PostsAssumption, ParentAssumption,
     FS_CardinalityType DEF Ids

-----------------------------------------------------------------------------
(* The walk down.                                                          *)

\* The posts of ps that answer one of a set.
Children(ps, above) == {p \in ps : Parent[p] \in above}

\* f[d]: the posts d levels under r, through the posts ps.
Down(f, ps, r, k) ==
    /\ DOMAIN f = 0 .. k
    /\ f[0] = {r}
    /\ \A d \in 1 .. k : f[d] = Children(ps, f[d - 1])

Stands(ps, p, r, d) == \E f : Down(f, ps, r, d) /\ p \in f[d]

\* The function Under defines is a walk down.
LEMMA UnderWalks ==
    ASSUME NEW ps, NEW r, NEW n \in Nat
    PROVE  \E f : /\ Down(f, ps, r, n)
                  /\ \A p : p \in Under(ps, r, n) <=> \E d \in 1 .. n : p \in f[d]
  <1> DEFINE D == SUBSET (ps \cup {r})
             g == [x \in (1 .. n) \X D |-> Children(ps, x[2])]
             R(f) == [d \in 0 .. n |-> IF d = 0 THEN {r} ELSE Children(ps, f[d - 1])]
  <1>1. {r} \in D
    OBVIOUS
  <1>2. \A d \in 1 .. n, x \in D : g[<<d, x>>] = Children(ps, x) /\ g[<<d, x>>] \in D
    <2>1. \A x : Children(ps, x) \in D
      BY DEF Children
    <2> QED
      BY <2>1
  <1> HIDE DEF g
  <1>3. PICK f : Iterates(f, D, {r}, n, g)
    <2> HIDE DEF D
    <2> QED
      BY <1>1, <1>2, Iteration
  <1>4. ASSUME NEW d \in 1 .. n PROVE f[d] = Children(ps, f[d - 1])
    <2>1. f[d - 1] \in D
      <3>1. d - 1 \in 0 .. n
        OBVIOUS
      <3> HIDE DEF D
      <3> QED
        BY <1>3, <3>1 DEF Iterates
    <2>2. f[d] = g[<<d, f[d - 1]>>]
      BY <1>3 DEF Iterates
    <2> HIDE DEF D
    <2> QED
      BY <1>2, <2>1, <2>2
  <1>5. f = R(f)
    <2>1. DOMAIN f = 0 .. n /\ f = [d \in 0 .. n |-> f[d]] /\ f[0] = {r}
      <3> HIDE DEF D
      <3> QED
        BY <1>3 DEF Iterates
    <2>2. \A d \in 0 .. n : f[d] = IF d = 0 THEN {r} ELSE Children(ps, f[d - 1])
      <3> TAKE d \in 0 .. n
      <3>1. d = 0 \/ d \in 1 .. n
        OBVIOUS
      <3> QED
        BY <1>4, <2>1, <3>1
    <2> QED
      BY <2>1, <2>2
  <1> DEFINE a == CHOOSE h : h = R(h)
  <1>6. a = R(a)
    <2> HIDE DEF R
    <2> QED
      BY <1>5
  <1>7. Under(ps, r, n) = UNION {a[d] : d \in 1 .. n}
    BY DEF Under, Children
  <1> HIDE DEF a
  <1>8. DOMAIN a = 0 .. n /\ a[0] = {r} /\ \A d \in 1 .. n : a[d] = Children(ps, a[d - 1])
    <2>1. DOMAIN R(a) = 0 .. n
      OBVIOUS
    <2>2. DOMAIN a = 0 .. n
      BY <1>6, <2>1, Zenon
    <2>3. \A d \in 0 .. n : a[d] = IF d = 0 THEN {r} ELSE Children(ps, a[d - 1])
      BY <1>6
    <2>4. \A d \in 1 .. n : d \in 0 .. n /\ d # 0
      OBVIOUS
    <2>5. 0 \in 0 .. n
      OBVIOUS
    <2> QED
      BY <2>2, <2>3, <2>4, <2>5
  <1>9. Down(a, ps, r, n)
    BY <1>8 DEF Down
  <1>10. \A p : p \in Under(ps, r, n) <=> \E d \in 1 .. n : p \in a[d]
    BY <1>7
  <1> QED
    BY <1>9, <1>10

LEMMA DownIs == ASSUME NEW ps, NEW r, NEW n \in Nat PROVE \E f : Down(f, ps, r, n)
  BY UnderWalks

\* Two walks from one post agree as far as they both go.
LEMMA DownAgrees ==
    ASSUME NEW ps, NEW r, NEW k \in Nat, NEW m \in Nat, NEW f, NEW g,
           Down(f, ps, r, k), Down(g, ps, r, m)
    PROVE  \A d \in Nat : d <= k /\ d <= m => f[d] = g[d]
  <1> DEFINE S == {d \in Nat : d <= k /\ d <= m => f[d] = g[d]}
  <1>1. 0 \in S
    BY DEF Down
  <1>2. ASSUME NEW d \in Nat, d \in S PROVE d + 1 \in S
    <2> SUFFICES ASSUME d + 1 <= k, d + 1 <= m PROVE f[d + 1] = g[d + 1]
      OBVIOUS
    <2>1. f[d] = g[d]
      BY <1>2
    <2>2. d + 1 \in 1 .. k /\ d + 1 \in 1 .. m /\ (d + 1) - 1 = d
      OBVIOUS
    <2>3. f[d + 1] = Children(ps, f[d]) /\ g[d + 1] = Children(ps, g[d])
      BY <2>2 DEF Down
    <2> QED
      BY <2>1, <2>3
  <1>3. \A d \in Nat : d \in S
    <2> HIDE DEF S
    <2> QED
      BY <1>1, <1>2, Induction
  <1> QED
    BY <1>3

LEMMA StandsAtTop == ASSUME NEW ps, NEW p, NEW r PROVE Stands(ps, p, r, 0) <=> p = r
  <1>1. \E f : Down(f, ps, r, 0)
    BY DownIs
  <1>2. \A f : Down(f, ps, r, 0) => f[0] = {r}
    BY DEF Down
  <1> QED
    BY <1>1, <1>2 DEF Stands

LEMMA StandsUnder ==
    ASSUME NEW ps, NEW p, NEW r, NEW d \in Nat
    PROVE  Stands(ps, p, r, d + 1) <=> p \in ps /\ Stands(ps, Parent[p], r, d)
  <1>1. PICK f : Down(f, ps, r, d + 1)
    <2>1. d + 1 \in Nat
      OBVIOUS
    <2> QED
      BY <2>1, DownIs
  <1>2. PICK g : Down(g, ps, r, d)
    BY DownIs
  <1>3. f[d] = g[d] /\ d + 1 \in Nat
    BY <1>1, <1>2, DownAgrees
  <1>4. f[d + 1] = Children(ps, f[d])
    <2>1. d + 1 \in 1 .. d + 1 /\ (d + 1) - 1 = d
      OBVIOUS
    <2> QED
      BY <1>1, <2>1 DEF Down
  <1>5. \A h : Down(h, ps, r, d) => h[d] = g[d]
    BY <1>2, DownAgrees
  <1>6. \A h : Down(h, ps, r, d + 1) => h[d + 1] = f[d + 1]
    BY <1>1, <1>3, DownAgrees
  <1>7. Stands(ps, p, r, d + 1) <=> p \in f[d + 1]
    BY <1>1, <1>6 DEF Stands
  <1>8. Stands(ps, Parent[p], r, d) <=> Parent[p] \in g[d]
    BY <1>2, <1>5 DEF Stands
  <1> QED
    BY <1>3, <1>4, <1>7, <1>8 DEF Children

\* No post is None, and so none stands above a root.
LEMMA NoneStands ==
    ASSUME NEW ps, None \notin ps, NEW r, r # None, NEW d \in Nat
    PROVE  ~ Stands(ps, None, r, d)
  <1>1. CASE d = 0
    BY <1>1, StandsAtTop
  <1>2. CASE d # 0
    <2>1. d - 1 \in Nat /\ (d - 1) + 1 = d
      BY <1>2
    <2> QED
      BY <2>1, StandsUnder
  <1> QED
    BY <1>1, <1>2

LEMMA UnderIs ==
    ASSUME NEW ps, NEW r, NEW n \in Nat
    PROVE  \A p : p \in Under(ps, r, n) <=> \E d \in 1 .. n : Stands(ps, p, r, d)
  <1>1. PICK f : /\ Down(f, ps, r, n)
                 /\ \A p : p \in Under(ps, r, n) <=> \E d \in 1 .. n : p \in f[d]
    BY UnderWalks
  <1>2. ASSUME NEW p, NEW d \in 1 .. n PROVE Stands(ps, p, r, d) <=> p \in f[d]
    <2>1. d \in Nat
      OBVIOUS
    <2>2. PICK g : Down(g, ps, r, d)
      BY <2>1, DownIs
    <2>3. \A h : Down(h, ps, r, d) => h[d] = f[d]
      BY <1>1, <2>1, DownAgrees
    <2> QED
      BY <2>2, <2>3 DEF Stands
  <1> QED
    BY <1>1, <1>2

\* Two sets of posts that differ nowhere under r have the same tree there.
LEMMA SameUnder ==
    ASSUME NEW ps, NEW qs, NEW r, NEW k \in Nat,
           \A d \in Nat : \A q : d < k /\ Stands(ps, Parent[q], r, d) => (q \in ps <=> q \in qs)
    PROVE  Under(qs, r, k) = Under(ps, r, k)
  <1> DEFINE S == {d \in Nat : d <= k => \A q : Stands(qs, q, r, d) <=> Stands(ps, q, r, d)}
  <1>1. 0 \in S
    BY StandsAtTop
  <1>2. ASSUME NEW d \in Nat, d \in S PROVE d + 1 \in S
    <2> SUFFICES ASSUME d + 1 <= k, NEW q PROVE Stands(qs, q, r, d + 1) <=> Stands(ps, q, r, d + 1)
      OBVIOUS
    <2>1. Stands(qs, Parent[q], r, d) <=> Stands(ps, Parent[q], r, d)
      BY <1>2
    <2>2. Stands(ps, Parent[q], r, d) => (q \in ps <=> q \in qs)
      OBVIOUS
    <2>3. Stands(qs, q, r, d + 1) <=> q \in qs /\ Stands(qs, Parent[q], r, d)
      BY StandsUnder
    <2>4. Stands(ps, q, r, d + 1) <=> q \in ps /\ Stands(ps, Parent[q], r, d)
      BY StandsUnder
    <2> QED
      BY <2>1, <2>2, <2>3, <2>4
  <1>3. \A d \in Nat : d \in S
    <2> HIDE DEF S
    <2> QED
      BY <1>1, <1>2, Induction
  <1>4. \A q : q \in Under(qs, r, k) <=> q \in Under(ps, r, k)
    <2> TAKE q
    <2>1. \A d \in 1 .. k : Stands(qs, q, r, d) <=> Stands(ps, q, r, d)
      <3> TAKE d \in 1 .. k
      <3>1. d \in Nat /\ d <= k
        OBVIOUS
      <3> QED
        BY <1>3, <3>1
    <2> QED
      BY <2>1, UnderIs
  <1> QED
    BY <1>4


-----------------------------------------------------------------------------
(* The walks up.                                                           *)

\* up[n][q]: where a walk from q ends, n posts up at most.
Finds(up) ==
    \A n \in 0 .. Levels, q \in Ids :
        up[n][q] = IF q \notin held THEN None
                   ELSE IF Parent[q] = None THEN q
                   ELSE IF n = 0 THEN None
                   ELSE up[n - 1][Parent[q]]

Bumps(up) ==
    \A n \in 0 .. Levels, q \in Ids :
        up[n][q] = IF n = 0 THEN q
                   ELSE IF q \notin held THEN None
                   ELSE IF Parent[q] = None THEN q
                   ELSE up[n - 1][Parent[q]]

LEMMA RootWalks ==
    ASSUME held \subseteq Posts
    PROVE  \E up : /\ Finds(up)
                   /\ \A p \in Ids : up[Levels][p] \in Ids /\ RootOf(p) = up[Levels][p]
  <1> DEFINE D == [Ids -> Ids]
             First == [q \in Ids |-> IF q \notin held THEN None
                                     ELSE IF Parent[q] = None THEN q ELSE None]
             Step(x) == [q \in Ids |-> IF q \notin held THEN None
                                       ELSE IF Parent[q] = None THEN q ELSE x[Parent[q]]]
             g == [x \in (1 .. Levels) \X D |-> Step(x[2])]
             R(f) == [n \in 0 .. Levels |-> [q \in Ids |->
                        IF q \notin held THEN None
                        ELSE IF Parent[q] = None THEN q
                        ELSE IF n = 0 THEN None
                        ELSE f[n - 1][Parent[q]]]]
  <1>0. Levels \in Nat /\ None \in Ids /\ \A q \in held : q \in Ids /\ Parent[q] \in Ids
    BY Numbers DEF Ids
  <1>1. First \in D
    BY <1>0
  <1>2. ASSUME NEW x \in D PROVE Step(x) \in D
    BY <1>0
  <1>3. \A n \in 1 .. Levels, x \in D : g[<<n, x>>] = Step(x) /\ g[<<n, x>>] \in D
    <2> HIDE DEF D, Step
    <2> QED
      BY <1>2
  <1> HIDE DEF g
  <1>4. PICK f : Iterates(f, D, First, Levels, g)
    <2> HIDE DEF D, First, Step
    <2> QED
      BY <1>0, <1>1, <1>3, Iteration
  <1>5. \A n \in 1 .. Levels : f[n - 1] \in D /\ f[n] = Step(f[n - 1])
    <2> TAKE n \in 1 .. Levels
    <2>1. n - 1 \in 0 .. Levels
      BY <1>0
    <2> HIDE DEF D, Step, First
    <2>2. f[n - 1] \in D
      BY <1>4, <2>1 DEF Iterates
    <2>3. f[n] = g[<<n, f[n - 1]>>]
      BY <1>4 DEF Iterates
    <2> QED
      BY <1>3, <2>2, <2>3
  <1>6. f = R(f)
    <2>1. DOMAIN f = 0 .. Levels /\ f = [n \in 0 .. Levels |-> f[n]] /\ f[0] = First
      <3> HIDE DEF D, First
      <3> QED
        BY <1>4 DEF Iterates
    <2>2. \A n \in 0 .. Levels : f[n] = [q \in Ids |->
                        IF q \notin held THEN None
                        ELSE IF Parent[q] = None THEN q
                        ELSE IF n = 0 THEN None
                        ELSE f[n - 1][Parent[q]]]
      <3> TAKE n \in 0 .. Levels
      <3>1. CASE n = 0
        BY <2>1, <3>1
      <3>2. CASE n # 0
        <4>1. n \in 1 .. Levels
          BY <1>0, <3>2
        <4>2. f[n] = Step(f[n - 1])
          BY <1>5, <4>1
        <4> QED
          BY <3>2, <4>2
      <3> QED
        BY <3>1, <3>2
    <2> QED
      BY <2>1, <2>2
  <1> DEFINE a == CHOOSE h : h = R(h)
  <1>7. a = R(a)
    <2> HIDE DEF R
    <2> QED
      BY <1>6
  <1>8. \A p : RootOf(p) = a[Levels][p]
    BY DEF RootOf, Ids
  <1> HIDE DEF a
  <1>9. Finds(a)
    <2> SUFFICES ASSUME NEW n \in 0 .. Levels, NEW q \in Ids
                 PROVE  R(a)[n][q] = IF q \notin held THEN None
                                  ELSE IF Parent[q] = None THEN q
                                  ELSE IF n = 0 THEN None
                                  ELSE a[n - 1][Parent[q]]
      <3> HIDE DEF R
      <3> QED
        BY <1>7 DEF Finds
    <2> QED
      OBVIOUS
  <1> DEFINE S == {n \in Nat : n <= Levels => \A q \in Ids : a[n][q] \in Ids}
  <1>10. 0 \in S
    BY <1>0, <1>9 DEF Finds
  <1>11. ASSUME NEW n \in Nat, n \in S PROVE n + 1 \in S
    <2> SUFFICES ASSUME n + 1 <= Levels, NEW q \in Ids PROVE a[n + 1][q] \in Ids
      OBVIOUS
    <2>1. n + 1 \in 0 .. Levels /\ n + 1 # 0 /\ (n + 1) - 1 = n /\ \A u \in Ids : a[n][u] \in Ids
      BY <1>0, <1>11
    <2>2. a[n + 1][q] = IF q \notin held THEN None ELSE IF Parent[q] = None THEN q ELSE a[n][Parent[q]]
      BY <1>9, <2>1 DEF Finds
    <2> QED
      BY <1>0, <2>1, <2>2
  <1>12. \A n \in Nat : n \in S
    <2> HIDE DEF S
    <2> QED
      BY <1>10, <1>11, Induction
  <1>13. \A q \in Ids : a[Levels][q] \in Ids
    BY <1>0, <1>12
  <1> QED
    BY <1>8, <1>9, <1>13

LEMMA BumpWalks ==
    ASSUME held \subseteq Posts
    PROVE  \E up : Bumps(up) /\ \A p : Bumped(p) = up[Levels][Parent[p]]
  <1> DEFINE D == [Ids -> Ids]
             First == [q \in Ids |-> q]
             Step(x) == [q \in Ids |-> IF q \notin held THEN None
                                       ELSE IF Parent[q] = None THEN q ELSE x[Parent[q]]]
             g == [x \in (1 .. Levels) \X D |-> Step(x[2])]
             R(f) == [n \in 0 .. Levels |-> [q \in Ids |->
                        IF n = 0 THEN q
                        ELSE IF q \notin held THEN None
                        ELSE IF Parent[q] = None THEN q
                        ELSE f[n - 1][Parent[q]]]]
  <1>0. Levels \in Nat /\ None \in Ids /\ \A q \in held : q \in Ids /\ Parent[q] \in Ids
    BY Numbers DEF Ids
  <1>1. First \in D
    OBVIOUS
  <1>2. ASSUME NEW x \in D PROVE Step(x) \in D
    BY <1>0
  <1>3. \A n \in 1 .. Levels, x \in D : g[<<n, x>>] = Step(x) /\ g[<<n, x>>] \in D
    <2> HIDE DEF D, Step
    <2> QED
      BY <1>2
  <1> HIDE DEF g
  <1>4. PICK f : Iterates(f, D, First, Levels, g)
    <2> HIDE DEF D, First, Step
    <2> QED
      BY <1>0, <1>1, <1>3, Iteration
  <1>5. \A n \in 1 .. Levels : f[n - 1] \in D /\ f[n] = Step(f[n - 1])
    <2> TAKE n \in 1 .. Levels
    <2>1. n - 1 \in 0 .. Levels
      BY <1>0
    <2> HIDE DEF D, Step, First
    <2>2. f[n - 1] \in D
      BY <1>4, <2>1 DEF Iterates
    <2>3. f[n] = g[<<n, f[n - 1]>>]
      BY <1>4 DEF Iterates
    <2> QED
      BY <1>3, <2>2, <2>3
  <1>6. f = R(f)
    <2>1. DOMAIN f = 0 .. Levels /\ f = [n \in 0 .. Levels |-> f[n]] /\ f[0] = First
      <3> HIDE DEF D, First
      <3> QED
        BY <1>4 DEF Iterates
    <2>2. \A n \in 0 .. Levels : f[n] = [q \in Ids |->
                        IF n = 0 THEN q
                        ELSE IF q \notin held THEN None
                        ELSE IF Parent[q] = None THEN q
                        ELSE f[n - 1][Parent[q]]]
      <3> TAKE n \in 0 .. Levels
      <3>1. CASE n = 0
        BY <2>1, <3>1
      <3>2. CASE n # 0
        <4>1. n \in 1 .. Levels
          BY <1>0, <3>2
        <4>2. f[n] = Step(f[n - 1])
          BY <1>5, <4>1
        <4> QED
          BY <3>2, <4>2
      <3> QED
        BY <3>1, <3>2
    <2> QED
      BY <2>1, <2>2
  <1> DEFINE a == CHOOSE h : h = R(h)
  <1>7. a = R(a)
    <2> HIDE DEF R
    <2> QED
      BY <1>6
  <1>8. \A p : Bumped(p) = a[Levels][Parent[p]]
    BY DEF Bumped, Ids
  <1> HIDE DEF a
  <1>9. Bumps(a)
    <2> SUFFICES ASSUME NEW n \in 0 .. Levels, NEW q \in Ids
                 PROVE  R(a)[n][q] = IF n = 0 THEN q
                                  ELSE IF q \notin held THEN None
                                  ELSE IF Parent[q] = None THEN q
                                  ELSE a[n - 1][Parent[q]]
      <3> HIDE DEF R
      <3> QED
        BY <1>7 DEF Bumps
    <2> QED
      OBVIOUS
  <1> QED
    BY <1>8, <1>9

LEMMA RootTyped == ASSUME held \subseteq Posts PROVE \A p \in Ids : RootOf(p) \in Ids
  BY RootWalks

\* A post that stands under a root has it as its root.
LEMMA RootFound ==
    ASSUME held \subseteq Posts, NEW r \in held, Parent[r] = None
    PROVE  \A d \in Nat : \A p : d <= Levels /\ Stands(held, p, r, d) => RootOf(p) = r
  <1>1. PICK up : Finds(up) /\ \A p \in Ids : RootOf(p) = up[Levels][p]
    BY RootWalks
  <1>2. Levels \in Nat /\ None \notin held /\ held \subseteq Ids /\ \A q \in held : Parent[q] \in Ids
    BY Numbers DEF Ids
  <1> DEFINE Found(d) == \A p : Stands(held, p, r, d) =>
                            p \in Ids /\ \A n \in 0 .. Levels : d <= n => up[n][p] = r
             S == {d \in Nat : Found(d)}
  <1>3. 0 \in S
    <2> SUFFICES ASSUME NEW p, Stands(held, p, r, 0)
                 PROVE  p \in Ids /\ \A n \in 0 .. Levels : up[n][p] = r
      BY <1>2
    <2>1. p = r
      BY StandsAtTop
    <2> QED
      BY <1>1, <1>2, <2>1 DEF Finds
  <1>4. ASSUME NEW d \in Nat, d \in S PROVE d + 1 \in S
    <2> SUFFICES ASSUME NEW p, Stands(held, p, r, d + 1)
                 PROVE  p \in Ids /\ \A n \in 0 .. Levels : d + 1 <= n => up[n][p] = r
      OBVIOUS
    <2>1. p \in held /\ Stands(held, Parent[p], r, d)
      BY StandsUnder
    <2>2. Parent[p] # None
      BY <1>2, <2>1, NoneStands
    <2>3. ASSUME NEW n \in 0 .. Levels, d + 1 <= n PROVE up[n][p] = r
      <3>1. n # 0 /\ n - 1 \in 0 .. Levels /\ d <= n - 1
        BY <1>2, <2>3
      <3>2. up[n - 1][Parent[p]] = r
        BY <1>4, <2>1, <3>1
      <3>3. up[n][p] = up[n - 1][Parent[p]]
        BY <1>1, <1>2, <2>1, <2>2, <3>1 DEF Finds
      <3> QED
        BY <3>2, <3>3
    <2> QED
      BY <1>2, <2>1, <2>3
  <1>5. \A d \in Nat : d \in S
    <2> HIDE DEF S
    <2> QED
      BY <1>3, <1>4, Induction
  <1> QED
    BY <1>1, <1>2, <1>5
-----------------------------------------------------------------------------
(* The posts.                                                              *)

ThreadsOK ==
    /\ clock \in 0 .. MaxTime /\ stamped \in [Posts -> 0 .. MaxTime]
    /\ held \subseteq Posts /\ gone \subseteq Posts
    /\ received \in [Posts -> 0 .. MaxTime] /\ activity \in [Posts -> 0 .. MaxTime]
    /\ last \in [Posts -> Ids]
    /\ held \cap gone = {}
    /\ \A p \in Posts : stamped[p] # 0 => p \notin held \cup gone

\* A thread that has replies left has a newest one.
LEMMA NewestIs ==
    ASSUME ThreadsOK, NEW ps, ps \subseteq Posts, ps # {}
    PROVE  Newest(ps) \in ps
  <1>1. /\ Posts \subseteq Nat /\ IsFiniteSet(ps) /\ MaxTime \in Nat
        /\ \A p \in ps : received[p] \in 0 .. MaxTime
    BY PostsAssumption, FiniteAssumption, FS_Subset, LimitsAssumption DEF ThreadsOK
  <1> DEFINE times == {t \in 0 .. MaxTime : \E p \in ps : received[p] = t}
  <1>2. PICK t \in times : \A u \in times : u <= t
    <2>1. IsFiniteSet(times)
      <3>1. IsFiniteSet(0 .. MaxTime)
        BY <1>1, FS_Interval
      <3> QED
        BY <3>1, FS_Subset
    <2>2. times # {}
      BY <1>1
    <2>3. times \subseteq Nat
      OBVIOUS
    <2> QED
      BY <2>1, <2>2, <2>3, Greatest
  <1>3. \A p \in ps : received[p] <= t
    BY <1>1, <1>2
  <1> DEFINE latest == {p \in ps : received[p] = t}
  <1>4. PICK p \in latest : \A q \in latest : q <= p
    <2>1. latest # {} /\ latest \subseteq Nat /\ IsFiniteSet(latest)
      BY <1>1, <1>2, FS_Subset
    <2> QED
      BY <2>1, Greatest
  <1>5. p \in ps /\ \A q \in ps \ {p} : Later(p, q)
    <2>1. p \in ps /\ received[p] = t /\ t \in Nat /\ p \in Nat
      BY <1>1, <1>4
    <2>2. ASSUME NEW q \in ps \ {p} PROVE Later(p, q)
      <3>1. received[q] \in Nat /\ q \in Nat /\ received[q] <= t
        BY <1>1, <1>3
      <3>2. CASE received[q] = t
        BY <1>4, <2>1, <3>1, <3>2 DEF Later
      <3>3. CASE received[q] # t
        BY <2>1, <3>1, <3>3 DEF Later
      <3> QED
        BY <3>2, <3>3
    <2> QED
      BY <2>1, <2>2
  <1> QED
    BY <1>5 DEF Newest

LEMMA UnderOf == ASSUME NEW ps, NEW r, NEW n \in Nat PROVE Under(ps, r, n) \subseteq ps
  <1> SUFFICES ASSUME NEW p \in Under(ps, r, n) PROVE p \in ps
    OBVIOUS
  <1>1. PICK d \in 1 .. n : Stands(ps, p, r, d)
    BY UnderIs
  <1>2. d - 1 \in Nat /\ (d - 1) + 1 = d
    OBVIOUS
  <1> QED
    BY <1>1, <1>2, StandsUnder

LEMMA TreeOf == \A ps, r : Tree(ps, r) \subseteq ps
  BY Numbers, UnderOf DEF Tree

LEMMA StampThreads == ASSUME ThreadsOK, NEW p \in Posts, Stamp(p) PROVE ThreadsOK'
  BY DEF ThreadsOK, Stamp

LEMMA CreateThreads == ASSUME ThreadsOK, NEW p \in Posts, Create(p) PROVE ThreadsOK'
  <1>1. p \notin held \cup gone /\ held' = held \cup {p} /\ gone' = gone /\ clock' = clock
        /\ stamped' = [stamped EXCEPT ![p] = 0] /\ received' = [received EXCEPT ![p] = stamped[p]]
    BY DEF ThreadsOK, Create
  <1>2. PICK root : /\ activity' = [q \in Posts |-> IF q = p \/ q = root THEN stamped[p] ELSE activity[q]]
                    /\ last' = IF root \in held THEN [last EXCEPT ![root] = p] ELSE last
    BY DEF Create
  <1>3. activity' \in [Posts -> 0 .. MaxTime]
    BY <1>2 DEF ThreadsOK
  <1>4. last' \in [Posts -> Ids]
    BY <1>2 DEF ThreadsOK, Ids
  <1>5. stamped' \in [Posts -> 0 .. MaxTime] /\ received' \in [Posts -> 0 .. MaxTime]
    BY <1>1, Numbers DEF ThreadsOK
  <1>6. \A q \in Posts : stamped'[q] # 0 => q \notin held' \cup gone'
    BY <1>1 DEF ThreadsOK
  <1> QED
    BY <1>1, <1>3, <1>4, <1>5, <1>6 DEF ThreadsOK

\* What a delete makes of the counters.
LEMMA DeleteSteps ==
    ASSUME ThreadsOK, NEW p \in Posts, Delete(p), HandedBack(p) # {}
    PROVE  \E root \in HandedBack(p), next \in Ids :
              /\ last' = [last EXCEPT ![root] = next]
              /\ activity' = [activity EXCEPT ![root] = received[IF next = None THEN root ELSE next]]
              /\ next # None => next \in Tree(held \ {p}, root)
  <1>1. held' = held \ {p}
    BY DEF Delete
  <1>2. PICK root, left, next :
            /\ root \in HandedBack(p)
            /\ left = Tree(held', root) /\ next = IF left = {} THEN None ELSE Newest(left)
            /\ last' = [last EXCEPT ![root] = next]
            /\ activity' = [activity EXCEPT ![root] = received[IF next = None THEN root ELSE next]]
    BY <1>1 DEF Delete
  <1>3. left \subseteq Posts /\ left = Tree(held \ {p}, root)
    BY <1>1, <1>2, TreeOf DEF ThreadsOK
  <1>4. left # {} => next \in left
    BY <1>2, <1>3, NewestIs
  <1> QED
    BY <1>2, <1>3, <1>4 DEF Ids

LEMMA DeleteThreads == ASSUME ThreadsOK, NEW p \in Posts, Delete(p) PROVE ThreadsOK'
  <1>1. /\ p \in held /\ held' = held \ {p} /\ gone' = gone \cup {p}
        /\ clock' = clock /\ stamped' = stamped /\ received' = received
    BY DEF Delete
  <1>2. activity' \in [Posts -> 0 .. MaxTime] /\ last' \in [Posts -> Ids]
    <2>1. CASE HandedBack(p) = {}
      BY <2>1 DEF ThreadsOK, Delete
    <2>2. CASE HandedBack(p) # {}
      <3>1. PICK root \in HandedBack(p), next \in Ids :
              /\ last' = [last EXCEPT ![root] = next]
              /\ activity' = [activity EXCEPT ![root] = received[IF next = None THEN root ELSE next]]
        BY <2>2, DeleteSteps
      <3>2. root \in Posts /\ (IF next = None THEN root ELSE next) \in Posts
        BY <3>1 DEF HandedBack, ThreadsOK, Ids
      <3>3. received[IF next = None THEN root ELSE next] \in 0 .. MaxTime
        BY <3>2 DEF ThreadsOK
      <3> QED
        BY <3>1, <3>3 DEF ThreadsOK
    <2> QED
      BY <2>1, <2>2
  <1>3. held' \subseteq Posts /\ gone' \subseteq Posts /\ held' \cap gone' = {}
    BY <1>1 DEF ThreadsOK
  <1>4. \A q \in Posts : stamped'[q] # 0 => q \notin held' \cup gone'
    BY <1>1 DEF ThreadsOK
  <1> QED
    BY <1>1, <1>2, <1>3, <1>4 DEF ThreadsOK

LEMMA KeptThreads == ASSUME ThreadsOK, UNCHANGED threads PROVE ThreadsOK'
  BY DEF ThreadsOK, threads
-----------------------------------------------------------------------------
(* The bus.                                                                *)

Queued(b) == b \in Seq(Event) /\ Len(b) <= Buffer

BusOK == emits \subseteq Event /\ Queued(stream) /\ Queued(inbox)

PageOK == /\ line \in {"none", "served", "up", "down"} /\ page \in PageState
          /\ missed \subseteq {"page", "notifier"}
          /\ line # "none" => Page \in held \cup gone

PushOK == /\ notifier \in [id : Ids, subs : SUBSET People]
          /\ subs \subseteq People /\ joining \subseteq People
          /\ told \subseteq [post : Posts, who : People, why : {"reply", "mention", "thread"}]
          /\ due \subseteq [post : Posts, who : People]

LEMMA PutQueued ==
    ASSUME NEW b, Queued(b), NEW e \in Event
    PROVE  /\ Queued(Put(b, e))
           /\ \A i \in DOMAIN b : i \in DOMAIN Put(b, e) /\ Put(b, e)[i] = b[i]
           /\ Len(b) # Buffer => \E i \in DOMAIN Put(b, e) : Put(b, e)[i] = e
  <1>0. b \in Seq(Event) /\ Len(b) \in Nat /\ Len(b) <= Buffer /\ Buffer \in Nat
    BY BufferAssumption DEF Queued
  <1>1. CASE Len(b) < Buffer
    <2>1. Put(b, e) = Append(b, e)
      BY <1>1 DEF Put
    <2>2. /\ Append(b, e) \in Seq(Event) /\ Len(Append(b, e)) = Len(b) + 1
          /\ \A i \in 1 .. Len(b) : Append(b, e)[i] = b[i]
          /\ Append(b, e)[Len(b) + 1] = e
      BY <1>0, AppendProperties
    <2> QED
      BY <1>0, <1>1, <2>1, <2>2 DEF Queued
  <1>2. CASE ~ (Len(b) < Buffer)
    <2>1. Put(b, e) = b /\ Len(b) = Buffer
      BY <1>0, <1>2 DEF Put
    <2> QED
      BY <2>1
  <1> QED
    BY <1>1, <1>2

LEMMA TailQueued ==
    ASSUME NEW b, Queued(b), b # <<>>
    PROVE  /\ Queued(Tail(b)) /\ Head(b) \in Event
           /\ \A i \in DOMAIN b : b[i] = Head(b) \/ \E j \in DOMAIN Tail(b) : Tail(b)[j] = b[i]
  <1>0. b \in Seq(Event) /\ Len(b) \in Nat /\ Len(b) <= Buffer /\ Buffer \in Nat
    BY BufferAssumption DEF Queued
  <1>1. /\ Head(b) \in Event /\ Tail(b) \in Seq(Event) /\ Len(Tail(b)) = Len(b) - 1
        /\ \A i \in 1 .. Len(Tail(b)) : Tail(b)[i] = b[i + 1]
    BY <1>0, HeadTailProperties
  <1>2. Head(b) = b[1]
    BY <1>0
  <1>3. ASSUME NEW i \in DOMAIN b, i # 1 PROVE i - 1 \in DOMAIN Tail(b) /\ Tail(b)[i - 1] = b[i]
    <2>1. i \in 1 .. Len(b) /\ i - 1 \in 1 .. Len(Tail(b)) /\ (i - 1) + 1 = i
      BY <1>0, <1>1, <1>3
    <2> QED
      BY <1>1, <2>1
  <1>4. Len(Tail(b)) <= Buffer
    BY <1>0, <1>1
  <1>5. Queued(Tail(b))
    BY <1>1, <1>4 DEF Queued
  <1> QED
    BY <1>1, <1>2, <1>3, <1>5

LEMMA NoneQueued == Queued(<<>>)
  BY BufferAssumption DEF Queued

\* The bus, the page and the push tables are disturbed as follows.
LEMMA CreateBus == ASSUME ThreadsOK, BusOK, NEW p \in Posts, CommitCreate(p) PROVE BusOK'
  <1>1. Parent[p] \in Ids /\ None \in Ids
    BY Numbers DEF Ids
  <1>2. PICK root : root = IF Parent[p] = None THEN None ELSE RootOf(Parent[p])
    OBVIOUS
  <1>3. root \in Ids
    BY <1>1, <1>2, RootTyped DEF ThreadsOK
  <1>4. emits' = emits \cup {[type |-> "create", id |-> p, root |-> root]}
    BY <1>2 DEF CommitCreate
  <1>5. [type |-> "create", id |-> p, root |-> root] \in Event
    BY <1>3 DEF Event, Ids
  <1>6. stream' = stream /\ inbox' = inbox
    BY DEF CommitCreate, live
  <1> QED
    BY <1>4, <1>5, <1>6 DEF BusOK

LEMMA DeleteBus == ASSUME ThreadsOK, BusOK, NEW p \in Posts, CommitDelete(p) PROVE BusOK'
  <1>1. RootOf(p) \in Ids
    BY RootTyped DEF ThreadsOK, Ids
  <1>2. emits' = emits \cup {DeleteEvent(p)} /\ stream' = stream /\ inbox' = inbox
    BY DEF CommitDelete, live, pushing
  <1>3. DeleteEvent(p) \in Event
    BY <1>1 DEF DeleteEvent, Event, Ids
  <1> QED
    BY <1>2, <1>3 DEF BusOK

LEMMA EmitBus == ASSUME BusOK, NEW e \in emits, Emit(e) PROVE BusOK'
  <1>1. e \in Event
    BY DEF BusOK
  <1>2. Queued(Put(stream, e)) /\ Queued(Put(inbox, e))
    BY <1>1, PutQueued DEF BusOK
  <1> QED
    BY <1>2 DEF Emit, BusOK

LEMMA ThreadOf == \A r : Thread(r) \subseteq held
  <1>1. (IF Depth < Cardinality(Posts) THEN Depth ELSE Cardinality(Posts)) \in Nat
    BY Numbers
  <1> QED
    BY <1>1, UnderOf DEF Thread

OthersOK == ThreadsOK /\ BusOK /\ PageOK /\ PushOK

LEMMA CommitsTyped ==
    ASSUME OthersOK, NEW p \in Posts, CommitStamp(p) \/ CommitCreate(p) \/ CommitDelete(p)
    PROVE  OthersOK'
  <1>1. CASE CommitStamp(p)
    <2>1. ThreadsOK' /\ UNCHANGED <<held, gone>>
      BY <1>1, StampThreads DEF OthersOK, CommitStamp, Stamp
    <2>2. BusOK' /\ PageOK' /\ PushOK'
      BY <1>1, <2>1 DEF OthersOK, BusOK, PageOK, PushOK, CommitStamp, live, pushing, Queued
    <2> QED
      BY <2>1, <2>2 DEF OthersOK
  <1>2. CASE CommitCreate(p)
    <2>1. ThreadsOK' /\ BusOK'
      BY <1>2, CreateThreads, CreateBus DEF OthersOK, CommitCreate
    <2>2. held' = held \cup {p} /\ gone' = gone
      BY <1>2 DEF CommitCreate, Create
    <2>3. PageOK'
      BY <1>2, <2>2 DEF OthersOK, PageOK, CommitCreate, live
    <2>4. PICK S : /\ due' = due \cup S
                   /\ S = {[post |-> p, who |-> Author[q]] :
                           q \in {q \in {Parent[p]} \cap held : Author[q] \in subs \ {Author[p]}}}
      BY <1>2 DEF CommitCreate
    <2>5. S \subseteq [post : Posts, who : People]
      BY <2>4 DEF OthersOK, PushOK
    <2>6. UNCHANGED <<notifier, subs, joining, told>>
      BY <1>2 DEF CommitCreate
    <2>7. PushOK'
      BY <2>4, <2>5, <2>6 DEF OthersOK, PushOK
    <2> QED
      BY <2>1, <2>3, <2>7 DEF OthersOK
  <1>3. CASE CommitDelete(p)
    <2>1. ThreadsOK' /\ BusOK'
      BY <1>3, DeleteThreads, DeleteBus DEF OthersOK, CommitDelete
    <2>2. held' = held \ {p} /\ gone' = gone \cup {p}
      BY <1>3 DEF CommitDelete, Delete
    <2>3. PageOK' /\ PushOK'
      BY <1>3, <2>2 DEF OthersOK, PageOK, PushOK, CommitDelete, live, pushing
    <2> QED
      BY <2>1, <2>3 DEF OthersOK
  <1> QED
    BY <1>1, <1>2, <1>3

\* Another step leaves the posts.
PageStep == Serve \/ Open \/ Break \/ Reopen \/ Hear \/ Refresh \/ Draw \/ Swap \/ FetchFails
PushStep == (\E who \in People : Subscribe(who) \/ PushAdd(who) \/ Unsubscribe(who)) \/ Notice \/ Push

LEMMA PageKeeps == ASSUME PageStep PROVE UNCHANGED <<threads, emits, pushing>>
  BY DEF PageStep, Serve, Open, Break, Reopen, Hear, Refresh, Draw, Swap, FetchFails

LEMMA PushKeeps == ASSUME PushStep PROVE UNCHANGED <<threads, emits, live>>
  BY DEF PushStep, Subscribe, PushAdd, Unsubscribe, Notice, Push

LEMMA HeldKept == ASSUME UNCHANGED threads PROVE held' = held /\ gone' = gone
  BY DEF threads

LEMMA ClosedTyped == Closed \in PageState
  BY DEF Closed, PageState

LEMMA PageTyped == ASSUME OthersOK, PageStep PROVE OthersOK'
  <1>1. ThreadsOK' /\ held' = held /\ gone' = gone
    BY PageKeeps, KeptThreads, HeldKept DEF OthersOK
  <1>2. PushOK'
    BY PageKeeps DEF OthersOK, PushOK, pushing
  <1>3. BusOK'
    <2>1. emits' = emits /\ inbox' = inbox
      BY PageKeeps DEF pushing
    <2>2. stream' = stream \/ stream' = <<>> \/ (stream # <<>> /\ stream' = Tail(stream))
      BY DEF PageStep, Serve, Open, Break, Reopen, Hear, Refresh, Draw, Swap, FetchFails
    <2>3. Queued(stream')
      BY <2>2, NoneQueued, TailQueued DEF OthersOK, BusOK
    <2> QED
      BY <2>1, <2>3 DEF OthersOK, BusOK
  <1>4. page' \in PageState
    <2>1. CASE Serve
      <3>1. Thread(Page) \subseteq Posts
        BY ThreadOf DEF OthersOK, ThreadsOK
      <3> QED
        BY <2>1, <3>1 DEF Serve, Closed, PageState
    <2>2. CASE Open \/ Break
      BY <2>2 DEF OthersOK, PageOK, Open, Break
    <2>3. CASE Reopen \/ Hear \/ FetchFails
      BY <2>3 DEF OthersOK, PageOK, Reopen, Reopened, Hear, FetchFails, Failed, PageState
    <2>4. CASE Refresh
      BY <2>4 DEF OthersOK, PageOK, Refresh, PageState
    <2>5. CASE Draw
      <3>1. Thread(Page) \subseteq Posts
        BY ThreadOf DEF OthersOK, ThreadsOK
      <3> QED
        BY <2>5, <3>1, ClosedTyped DEF OthersOK, PageOK, Draw, PageState
    <2>6. CASE Swap
      BY <2>6 DEF OthersOK, PageOK, Swap, PageState
    <2> QED
      BY <2>1, <2>2, <2>3, <2>4, <2>5, <2>6 DEF PageStep
  <1>5. /\ line' \in {"none", "served", "up", "down"} /\ missed' \subseteq {"page", "notifier"}
        /\ line' # "none" => Page \in held \cup gone
    BY DEF OthersOK, PageOK, PageStep, Serve, Open, Break, Reopen, Hear, Refresh, Draw, Swap, FetchFails
  <1> QED
    BY <1>1, <1>2, <1>3, <1>4, <1>5 DEF OthersOK, PageOK

LEMMA EmitTyped == ASSUME OthersOK, NEW e \in emits, Emit(e) PROVE OthersOK'
  <1>1. BusOK'
    BY EmitBus DEF OthersOK
  <1>2. ThreadsOK' /\ held' = held /\ gone' = gone
    BY KeptThreads, HeldKept DEF OthersOK, Emit
  <1>3. PageOK' /\ PushOK'
    BY <1>2 DEF OthersOK, PageOK, PushOK, Emit
  <1> QED
    BY <1>1, <1>2, <1>3 DEF OthersOK

LEMMA WhyTyped == \A p, who : Why(p, who) \in {"skip", "reply", "mention", "thread"}
  BY DEF Why

LEMMA PushTyped == ASSUME OthersOK, PushStep PROVE OthersOK'
  <1>1. ThreadsOK' /\ held' = held /\ gone' = gone
    BY PushKeeps, KeptThreads, HeldKept DEF OthersOK
  <1>2. PageOK'
    BY <1>1, PushKeeps DEF OthersOK, PageOK, live
  <1>3. CASE \E who \in People : Subscribe(who) \/ PushAdd(who) \/ Unsubscribe(who)
    <2>1. BusOK'
      BY <1>3 DEF OthersOK, BusOK, Subscribe, PushAdd, Unsubscribe, live
    <2>2. PushOK'
      BY <1>3 DEF OthersOK, PushOK, Subscribe, PushAdd, Unsubscribe
    <2> QED
      BY <1>1, <1>2, <2>1, <2>2 DEF OthersOK
  <1>4. CASE Notice
    <2>1. inbox # <<>> /\ inbox' = Tail(inbox) /\ emits' = emits /\ stream' = stream
      BY <1>4 DEF Notice, live
    <2>2. BusOK' /\ Head(inbox) \in Event
      BY <2>1, TailQueued DEF OthersOK, BusOK
    <2>3. PICK e : e = Head(inbox) /\ e.id \in Ids
      BY <2>2 DEF Event, Ids
    <2>4. notifier' = IF e.type = "create" /\ subs # {} THEN [id |-> e.id, subs |-> subs] ELSE Nothing
      BY <1>4, <2>3 DEF Notice
    <2>5. UNCHANGED <<subs, joining, told, due>>
      BY <1>4 DEF Notice
    <2>6. PushOK'
      BY <2>3, <2>4, <2>5, Numbers DEF OthersOK, PushOK, Nothing, Ids
    <2> QED
      BY <1>1, <1>2, <2>2, <2>6 DEF OthersOK
  <1>5. CASE Push
    <2>1. BusOK'
      BY <1>5 DEF OthersOK, BusOK, Push, live
    <2>2. PICK p, to : /\ p = notifier.id
                       /\ to = IF p \in held THEN {w \in notifier.subs : Why(p, w) # "skip"} ELSE {}
      OBVIOUS
    <2>3. PICK lost : /\ lost \in Gone(to) /\ subs' = subs \ lost
                      /\ told' = told \cup {[post |-> p, who |-> w, why |-> Why(p, w)] : w \in to \ lost}
                      /\ due' = {d \in due : d.who \notin lost}
      BY <1>5, <2>2 DEF Push
    <2>4. notifier' = Nothing /\ joining' = joining
      BY <1>5 DEF Push
    <2>5. \A w \in to : p \in Posts /\ w \in People /\ Why(p, w) \in {"reply", "mention", "thread"}
      BY <2>2, WhyTyped DEF OthersOK, PushOK, ThreadsOK
    <2>6. told' \subseteq [post : Posts, who : People, why : {"reply", "mention", "thread"}]
      BY <2>3, <2>5 DEF OthersOK, PushOK
    <2>7. notifier' \in [id : Ids, subs : SUBSET People]
      BY <2>4 DEF Nothing, Ids
    <2>8. subs' \subseteq People /\ joining' \subseteq People /\ due' \subseteq [post : Posts, who : People]
      BY <2>3, <2>4 DEF OthersOK, PushOK
    <2>9. PushOK'
      BY <2>6, <2>7, <2>8 DEF PushOK
    <2> QED
      BY <1>1, <1>2, <2>1, <2>9 DEF OthersOK
  <1> QED
    BY <1>3, <1>4, <1>5 DEF PushStep
-----------------------------------------------------------------------------
(* What a subscriber is owed.                                              *)

IsCreate(e, p) == e.type = "create" /\ e.id = p

\* The notifier has the event of p before it.
Coming(p) == (\E e \in emits : IsCreate(e, p)) \/ (\E i \in DOMAIN inbox : IsCreate(inbox[i], p))

InHand(p, who) == notifier.id = p /\ who \in notifier.subs

Reply(d) == [post |-> d.post, who |-> d.who, why |-> "reply"]

\* An answer that is owed was committed, with the post it answers, to its author,
\* who subscribes still; and while both posts stand it is on its way to them.
Owing(d) ==
    /\ d.who \in subs /\ d.who = Author[Parent[d.post]] /\ d.who # Author[d.post]
    /\ d.post \in held \cup gone /\ Parent[d.post] \in held \cup gone
    /\ d.post \in held /\ Parent[d.post] \in held /\ "notifier" \notin missed
       => Coming(d.post) \/ InHand(d.post, d.who) \/ Reply(d) \in told

ToldInv == \A d \in due : Owing(d)

\* A step that leaves the bus, the notifier and what was told to it leaves
\* what is owed, if posts only go.
LEMMA OwedStill ==
    ASSUME NEW d, Owing(d),
           held \cup gone \subseteq held' \cup gone',
           d.post \in held' => d.post \in held, Parent[d.post] \in held' => Parent[d.post] \in held,
           d.who \in subs', emits \subseteq emits', inbox' = inbox, notifier' = notifier,
           told \subseteq told', "notifier" \notin missed' => "notifier" \notin missed
    PROVE  Owing(d)'
  <1>1. Coming(d.post) => Coming(d.post)'
    BY DEF Coming
  <1>2. InHand(d.post, d.who) => InHand(d.post, d.who)'
    BY DEF InHand
  <1> QED
    BY <1>1, <1>2 DEF Owing, Reply

LEMMA CommitsTold ==
    ASSUME OthersOK, ToldInv, NEW p \in Posts, CommitStamp(p) \/ CommitCreate(p) \/ CommitDelete(p)
    PROVE  ToldInv'
  <1>1. CASE CommitStamp(p)
    <2>1. UNCHANGED <<held, gone, emits, inbox, notifier, told, missed, due, subs>>
      BY <1>1 DEF CommitStamp, Stamp, live, pushing
    <2>2. \A d \in due : Owing(d)'
      BY <2>1, OwedStill DEF ToldInv, Owing
    <2> QED
      BY <2>1, <2>2 DEF ToldInv
  <1>2. CASE CommitCreate(p)
    <2>1. /\ held' = held \cup {p} /\ gone' = gone /\ p \notin held \cup gone
          /\ UNCHANGED <<inbox, notifier, told, missed, subs>>
      BY <1>2 DEF CommitCreate, Create, live, OthersOK, ThreadsOK
    <2>2. PICK e : emits' = emits \cup {e} /\ e.type = "create" /\ e.id = p
      <3>1. PICK root : emits' = emits \cup {[type |-> "create", id |-> p, root |-> root]}
        BY <1>2 DEF CommitCreate
      <3>2. PICK e : e = [type |-> "create", id |-> p, root |-> root]
        OBVIOUS
      <3>3. e.type = "create" /\ e.id = p
        BY <3>2
      <3> QED
        BY <3>1, <3>2, <3>3
    <2>3. ASSUME NEW d \in due PROVE Owing(d)'
      <3>1. d.post # p /\ Parent[d.post] # p /\ Owing(d)
        BY <2>1 DEF ToldInv, Owing
      <3>2. d.who \in subs'
        BY <2>1, <3>1 DEF Owing
      <3> QED
        BY <2>1, <2>2, <3>1, <3>2, OwedStill
    <2>4. PICK S : /\ due' = due \cup S
                   /\ S = {[post |-> p, who |-> Author[q]] :
                           q \in {q \in {Parent[p]} \cap held : Author[q] \in subs \ {Author[p]}}}
      BY <1>2 DEF CommitCreate
    <2>5. ASSUME NEW d \in S PROVE Owing(d)'
      <3>1. /\ d.post = p /\ d.who = Author[Parent[p]] /\ Parent[p] \in held
            /\ d.who \in subs /\ d.who # Author[p]
        BY <2>4
      <3>2. Coming(d.post)'
        BY <2>2, <3>1 DEF Coming, IsCreate
      <3> QED
        BY <2>1, <3>1, <3>2 DEF Owing
    <2> QED
      BY <2>3, <2>4, <2>5 DEF ToldInv
  <1>3. CASE CommitDelete(p)
    <2>1. /\ held' = held \ {p} /\ gone' = gone \cup {p}
          /\ UNCHANGED <<inbox, notifier, told, missed, due, subs>> /\ emits \subseteq emits'
      BY <1>3 DEF CommitDelete, Delete, live, pushing
    <2>2. ASSUME NEW d \in due PROVE Owing(d)'
      <3>1. Owing(d) /\ d.who \in subs'
        BY <2>1 DEF ToldInv, Owing
      <3> QED
        BY <2>1, <3>1, OwedStill
    <2> QED
      BY <2>1, <2>2 DEF ToldInv
  <1> QED
    BY <1>1, <1>2, <1>3

LEMMA EmitTold == ASSUME OthersOK, ToldInv, NEW e \in emits, Emit(e) PROVE ToldInv'
  <1>1. held' = held /\ gone' = gone /\ UNCHANGED <<notifier, subs, told, due>>
    BY HeldKept DEF Emit
  <1>2. inbox' = Put(inbox, e) /\ emits' = emits \ {e}
    BY DEF Emit
  <1>3. "notifier" \notin missed' => Len(inbox) # Buffer /\ "notifier" \notin missed
    BY DEF Emit
  <1>4. /\ \A i \in DOMAIN inbox : i \in DOMAIN inbox' /\ inbox'[i] = inbox[i]
        /\ Len(inbox) # Buffer => \E i \in DOMAIN inbox' : inbox'[i] = e
    BY <1>2, PutQueued DEF OthersOK, BusOK
  <1>5. ASSUME NEW q, "notifier" \notin missed', Coming(q) PROVE Coming(q)'
    <2>1. PICK i \in DOMAIN inbox' : inbox'[i] = e
      BY <1>3, <1>4, <1>5
    <2>2. CASE \E f \in emits : IsCreate(f, q)
      <3>1. PICK f \in emits : IsCreate(f, q)
        BY <2>2
      <3>2. CASE f = e
        BY <2>1, <3>1, <3>2 DEF Coming
      <3>3. CASE f # e
        BY <1>2, <3>1, <3>3 DEF Coming
      <3> QED
        BY <3>2, <3>3
    <2>3. CASE \E j \in DOMAIN inbox : IsCreate(inbox[j], q)
      <3>1. PICK j \in DOMAIN inbox : IsCreate(inbox[j], q)
        BY <2>3
      <3>2. j \in DOMAIN inbox' /\ IsCreate(inbox'[j], q)
        BY <1>4, <3>1
      <3> QED
        BY <3>2 DEF Coming
    <2> QED
      BY <1>5, <2>2, <2>3 DEF Coming
  <1>6. \A d \in due : Owing(d)'
    BY <1>1, <1>3, <1>5 DEF ToldInv, Owing, InHand, Reply
  <1> QED
    BY <1>1, <1>6 DEF ToldInv

LEMMA PageTold == ASSUME OthersOK, ToldInv, PageStep PROVE ToldInv'
  <1>1. /\ held' = held /\ gone' = gone /\ emits' = emits
        /\ UNCHANGED <<inbox, notifier, subs, told, due>>
    BY PageKeeps, HeldKept DEF pushing
  <1>2. "notifier" \notin missed' => "notifier" \notin missed
    BY DEF PageStep, Serve, Open, Break, Reopen, Hear, Refresh, Draw, Swap, FetchFails
  <1>3. ASSUME NEW d \in due PROVE Owing(d)'
    <2>1. Owing(d) /\ d.who \in subs'
      BY <1>1 DEF ToldInv, Owing
    <2> QED
      BY <1>1, <1>2, <2>1, OwedStill
  <1> QED
    BY <1>1, <1>3 DEF ToldInv

LEMMA NoticeTold == ASSUME OthersOK, ToldInv, Notice PROVE ToldInv'
  <1>1. /\ held' = held /\ gone' = gone /\ emits' = emits /\ missed' = missed
        /\ UNCHANGED <<subs, told, due>> /\ notifier = Nothing
    BY HeldKept DEF Notice, live
  <1>2. inbox # <<>> /\ inbox' = Tail(inbox)
    BY DEF Notice
  <1>3. PICK e : e = Head(inbox)
    OBVIOUS
  <1>4. notifier' = IF e.type = "create" /\ subs # {} THEN [id |-> e.id, subs |-> subs] ELSE Nothing
    BY <1>3 DEF Notice
  <1>5. \A i \in DOMAIN inbox : inbox[i] = e \/ \E j \in DOMAIN inbox' : inbox'[j] = inbox[i]
    BY <1>2, <1>3, TailQueued DEF OthersOK, BusOK
  <1>6. ASSUME NEW d \in due PROVE Owing(d)'
    <2>1. Owing(d) /\ d.who \in subs /\ d.post \in Posts
      BY DEF ToldInv, Owing, OthersOK, PushOK
    <2>2. ~ InHand(d.post, d.who)
      BY <1>1 DEF InHand, Nothing
    <2>3. ASSUME Coming(d.post) PROVE Coming(d.post)' \/ InHand(d.post, d.who)'
      <3>1. CASE \E f \in emits : IsCreate(f, d.post)
        BY <1>1, <3>1 DEF Coming
      <3>2. CASE \E i \in DOMAIN inbox : IsCreate(inbox[i], d.post)
        <4>1. PICK i \in DOMAIN inbox : IsCreate(inbox[i], d.post)
          BY <3>2
        <4>2. CASE inbox[i] = e
          <5>1. notifier' = [id |-> d.post, subs |-> subs]
            BY <1>4, <2>1, <4>1, <4>2 DEF IsCreate
          <5> QED
            BY <2>1, <5>1 DEF InHand
        <4>3. CASE \E j \in DOMAIN inbox' : inbox'[j] = inbox[i]
          BY <4>1, <4>3 DEF Coming
        <4> QED
          BY <1>5, <4>2, <4>3
      <3> QED
        BY <2>3, <3>1, <3>2 DEF Coming
    <2> QED
      BY <1>1, <2>1, <2>2, <2>3 DEF Owing, Reply
  <1> QED
    BY <1>1, <1>6 DEF ToldInv

LEMMA PushTold == ASSUME OthersOK, ToldInv, Push PROVE ToldInv'
  <1>1. /\ held' = held /\ gone' = gone /\ emits' = emits /\ missed' = missed /\ inbox' = inbox
    BY HeldKept DEF Push, live
  <1>2. PICK p, to : /\ p = notifier.id
                     /\ to = IF p \in held THEN {w \in notifier.subs : Why(p, w) # "skip"} ELSE {}
    OBVIOUS
  <1>3. PICK lost : /\ subs' = subs \ lost
                    /\ told' = told \cup {[post |-> p, who |-> w, why |-> Why(p, w)] : w \in to \ lost}
                    /\ due' = {d \in due : d.who \notin lost}
    BY <1>2 DEF Push
  <1>4. ASSUME NEW d \in due, d.who \notin lost PROVE Owing(d)'
    <2>1. Owing(d) /\ d.who \in subs'
      BY <1>3, <1>4 DEF ToldInv, Owing
    <2>2. Coming(d.post) => Coming(d.post)'
      BY <1>1 DEF Coming
    <2>3. ASSUME InHand(d.post, d.who), d.post \in held, Parent[d.post] \in held
          PROVE  Reply(d) \in told'
      <3>1. p = d.post /\ d.who \in notifier.subs
        BY <1>2, <2>3 DEF InHand
      <3>2. d.who \in Answered(p) /\ d.who # Author[p]
        BY <2>1, <2>3, <3>1 DEF Owing, Answered
      <3>3. Why(p, d.who) = "reply"
        BY <3>2 DEF Why
      <3>4. d.who \in to
        BY <1>2, <2>3, <3>1, <3>3
      <3>5. [post |-> p, who |-> d.who, why |-> Why(p, d.who)] \in told'
        BY <1>3, <1>4, <3>4
      <3> QED
        BY <3>1, <3>3, <3>5 DEF Reply
    <2>4. Reply(d) \in told => Reply(d) \in told'
      BY <1>3
    <2>5. Reply(d)' = Reply(d)
      BY DEF Reply
    <2> QED
      BY <1>1, <2>1, <2>2, <2>3, <2>4, <2>5 DEF Owing
  <1> QED
    BY <1>3, <1>4 DEF ToldInv

LEMMA PushStepTold == ASSUME OthersOK, ToldInv, PushStep PROVE ToldInv'
  <1>1. ASSUME NEW who \in People, Subscribe(who) \/ PushAdd(who) \/ Unsubscribe(who) PROVE ToldInv'
    <2>1. /\ held' = held /\ gone' = gone /\ emits' = emits /\ missed' = missed
          /\ UNCHANGED <<inbox, notifier, told>>
      BY <1>1, HeldKept DEF Subscribe, PushAdd, Unsubscribe, live
    <2>2. \A d \in due' : d \in due /\ (d.who \in subs => d.who \in subs')
      BY <1>1 DEF Subscribe, PushAdd, Unsubscribe
    <2>3. ASSUME NEW d \in due' PROVE Owing(d)'
      <3>1. Owing(d) /\ d.who \in subs'
        BY <2>2 DEF ToldInv, Owing
      <3> QED
        BY <2>1, <3>1, OwedStill
    <2> QED
      BY <2>3 DEF ToldInv
  <1> QED
    BY <1>1, NoticeTold, PushTold DEF PushStep
-----------------------------------------------------------------------------
(* What a live page shows.                                                 *)

LEMMA ThreadReach ==
    \E k \in 0 .. Levels : Thread(Page) = Under(held, Page, k) /\ Thread(Page)' = Under(held', Page, k)
  <1>1. PICK k : k = IF Depth < Cardinality(Posts) THEN Depth ELSE Cardinality(Posts)
    OBVIOUS
  <1>2. k \in 0 .. Levels
    BY <1>1, Numbers
  <1>3. Thread(Page) = Under(held, Page, k) /\ Thread(Page)' = Under(held', Page, k)
    BY <1>1 DEF Thread
  <1> QED
    BY <1>2, <1>3

\* A post that comes changes the thread of the page only if it is its root that
\* the event names.
LEMMA CreateThread ==
    ASSUME held \subseteq Posts, Page \in held, NEW p \in Posts, held' = held \cup {p},
           Parent[p] = None \/ RootOf(Parent[p]) # Page
    PROVE  Thread(Page)' = Thread(Page)
  <1>1. PICK k \in 0 .. Levels : Thread(Page) = Under(held, Page, k) /\ Thread(Page)' = Under(held', Page, k)
    BY ThreadReach
  <1>2. Levels \in Nat /\ k \in Nat /\ Parent[Page] = None /\ None \notin held /\ Page # None
    BY Numbers, PageAssumption
  <1>3. ASSUME NEW d \in Nat, NEW q, d < k, Stands(held, Parent[q], Page, d)
        PROVE  q \in held <=> q \in held \cup {p}
    <2>1. d <= Levels
      BY <1>2, <1>3
    <2>2. RootOf(Parent[q]) = Page
      BY <1>2, <1>3, <2>1, RootFound
    <2>3. Parent[q] # None
      BY <1>2, <1>3, NoneStands
    <2> QED
      BY <2>2, <2>3
  <1>4. Under(held \cup {p}, Page, k) = Under(held, Page, k)
    BY <1>2, <1>3, SameUnder
  <1> QED
    BY <1>1, <1>4

LEMMA DeleteThread ==
    ASSUME held \subseteq Posts, Page \in held, NEW p \in held, held' = held \ {p}, RootOf(p) # Page
    PROVE  Thread(Page)' = Thread(Page) /\ p # Page
  <1>1. PICK k \in 0 .. Levels : Thread(Page) = Under(held, Page, k) /\ Thread(Page)' = Under(held', Page, k)
    BY ThreadReach
  <1>2. Levels \in Nat /\ k \in Nat /\ Parent[Page] = None
    BY Numbers, PageAssumption
  <1>3. ASSUME NEW d \in Nat, NEW q, d < k, Stands(held, Parent[q], Page, d)
        PROVE  q \in held <=> q \in held \ {p}
    <2> SUFFICES ASSUME q = p PROVE FALSE
      OBVIOUS
    <2>1. d + 1 \in Nat /\ d + 1 <= Levels
      BY <1>2, <1>3
    <2>2. Stands(held, p, Page, d + 1)
      BY <1>3, StandsUnder
    <2> QED
      BY <1>2, <2>1, <2>2, RootFound
  <1>4. Under(held \ {p}, Page, k) = Under(held, Page, k)
    BY <1>2, <1>3, SameUnder
  <1>5. p # Page
    <2>1. 0 \in Nat /\ 0 <= Levels /\ Stands(held, Page, Page, 0)
      BY <1>2, StandsAtTop
    <2> QED
      BY <1>2, <2>1, RootFound
  <1> QED
    BY <1>1, <1>4, <1>5

Shows == IF page.busy = "drawn" THEN page.drawn ELSE page.shown

Current == Page \in held /\ Shows = Thread(Page)

\* A fetch is to come, whose answer will be drawn after this.
Catching == page.owed \/ page.busy = "asked" \/ (page.busy = "drawn" /\ page.wanted)

\* An event that names the page's thread is on its way to it.
Heralded == (\E e \in emits : e.root = Page) \/ (\E i \in DOMAIN stream : stream[i].root = Page)

LiveInv == (line \in {"served", "up"} /\ "page" \notin missed) => Catching \/ Heralded \/ Current

LEMMA CommitsLive ==
    ASSUME OthersOK, LiveInv, NEW p \in Posts, CommitStamp(p) \/ CommitCreate(p) \/ CommitDelete(p)
    PROVE  LiveInv'
  <1>1. UNCHANGED <<line, stream, page, missed>>
    BY DEF CommitStamp, CommitCreate, CommitDelete, live, pushing
  <1>2. emits \subseteq emits'
    BY DEF CommitStamp, CommitCreate, CommitDelete, live, pushing
  <1>3. (Catching => Catching') /\ (Heralded => Heralded')
    BY <1>1, <1>2 DEF Catching, Heralded
  <1> SUFFICES ASSUME line \in {"served", "up"}, "page" \notin missed, Current, ~ Heralded'
               PROVE  Current'
    BY <1>1, <1>3 DEF LiveInv
  <1>4. Page \in held /\ Shows = Thread(Page) /\ Shows' = Shows /\ held \subseteq Posts
    BY <1>1 DEF Current, Shows, OthersOK, ThreadsOK
  <1>5. CASE CommitStamp(p)
    <2>1. held' = held
      BY <1>5 DEF CommitStamp, Stamp
    <2>2. Thread(Page)' = Thread(Page)
      BY <2>1 DEF Thread
    <2> QED
      BY <1>4, <2>1, <2>2 DEF Current
  <1>6. CASE CommitCreate(p)
    <2>1. held' = held \cup {p}
      BY <1>6 DEF CommitCreate, Create
    <2>2. Parent[p] = None \/ RootOf(Parent[p]) # Page
      <3> SUFFICES ASSUME Parent[p] # None, RootOf(Parent[p]) = Page PROVE FALSE
        OBVIOUS
      <3>1. PICK e : e = [type |-> "create", id |-> p, root |-> Page]
        OBVIOUS
      <3>2. e \in emits' /\ e.root = Page
        BY <1>6, <3>1 DEF CommitCreate
      <3> QED
        BY <3>2 DEF Heralded
    <2>3. Thread(Page)' = Thread(Page)
      BY <1>4, <2>1, <2>2, CreateThread
    <2> QED
      BY <1>4, <2>1, <2>3 DEF Current
  <1>7. CASE CommitDelete(p)
    <2>1. held' = held \ {p} /\ p \in held
      BY <1>7 DEF CommitDelete, Delete
    <2>2. RootOf(p) # Page
      <3>1. DeleteEvent(p) \in emits' /\ DeleteEvent(p).root = RootOf(p)
        BY <1>7 DEF CommitDelete, DeleteEvent
      <3> QED
        BY <3>1 DEF Heralded
    <2>3. Thread(Page)' = Thread(Page) /\ p # Page
      BY <1>4, <2>1, <2>2, DeleteThread
    <2> QED
      BY <1>4, <2>1, <2>3 DEF Current
  <1> QED
    BY <1>5, <1>6, <1>7

LEMMA CurrentKept ==
    ASSUME held' = held, page' = page PROVE Current' = Current /\ Catching' = Catching
  <1>1. Thread(Page)' = Thread(Page)
    BY DEF Thread
  <1> QED
    BY <1>1 DEF Current, Catching, Shows

LEMMA EmitLive == ASSUME OthersOK, LiveInv, NEW e \in emits, Emit(e) PROVE LiveInv'
  <1>1. held' = held /\ page' = page /\ line' = line
    BY HeldKept DEF Emit
  <1>2. "page" \notin missed' => line # "served" /\ (line = "up" => Len(stream) # Buffer) /\ "page" \notin missed
    BY DEF Emit
  <1> SUFFICES ASSUME line = "up", "page" \notin missed', Heralded PROVE Heralded'
    BY <1>1, <1>2, CurrentKept DEF LiveInv
  <1>3. stream' = Put(stream, e) /\ emits' = emits \ {e}
    BY DEF Emit
  <1>4. /\ \A i \in DOMAIN stream : i \in DOMAIN stream' /\ stream'[i] = stream[i]
        /\ \E i \in DOMAIN stream' : stream'[i] = e
    BY <1>2, <1>3, PutQueued DEF OthersOK, BusOK
  <1>5. CASE \E f \in emits : f.root = Page
    <2>1. PICK f \in emits : f.root = Page
      BY <1>5
    <2>2. CASE f = e
      BY <1>4, <2>1, <2>2 DEF Heralded
    <2>3. CASE f # e
      BY <1>3, <2>1, <2>3 DEF Heralded
    <2> QED
      BY <2>2, <2>3
  <1>6. CASE \E i \in DOMAIN stream : stream[i].root = Page
    <2>1. PICK i \in DOMAIN stream : stream[i].root = Page
      BY <1>6
    <2>2. i \in DOMAIN stream' /\ stream'[i].root = Page
      BY <1>4, <2>1
    <2> QED
      BY <2>2 DEF Heralded
  <1> QED
    BY <1>5, <1>6 DEF Heralded

LEMMA HearLive == ASSUME OthersOK, LiveInv, Hear PROVE LiveInv'
  <1>1. held' = held /\ emits' = emits /\ line' = line /\ missed' = missed
    BY HeldKept DEF Hear
  <1>2. PICK e : e = Head(stream)
    OBVIOUS
  <1>3. stream # <<>> /\ stream' = Tail(stream) /\ page' = IF IsMine(e) THEN [page EXCEPT !.owed = TRUE] ELSE page
    BY <1>2 DEF Hear
  <1>4. CASE IsMine(e)
    <2>1. page'.owed = TRUE
      BY <1>3, <1>4 DEF OthersOK, PageOK, PageState
    <2> QED
      BY <2>1 DEF LiveInv, Catching
  <1>5. CASE ~ IsMine(e)
    <2>1. page' = page /\ e.root # Page
      BY <1>3, <1>5 DEF IsMine
    <2>2. Heralded => Heralded'
      <3>1. \A i \in DOMAIN stream : stream[i] = e \/ \E j \in DOMAIN stream' : stream'[j] = stream[i]
        BY <1>2, <1>3, TailQueued DEF OthersOK, BusOK
      <3>2. ASSUME NEW i \in DOMAIN stream, stream[i].root = Page PROVE Heralded'
        <4>1. PICK j \in DOMAIN stream' : stream'[j] = stream[i]
          BY <2>1, <3>1, <3>2
        <4>2. stream'[j].root = Page
          BY <3>2, <4>1
        <4> QED
          BY <4>2 DEF Heralded
      <3> QED
        BY <1>1, <3>2 DEF Heralded
    <2> QED
      BY <1>1, <2>1, <2>2, CurrentKept DEF LiveInv
  <1> QED
    BY <1>4, <1>5

LEMMA PageLive == ASSUME OthersOK, LiveInv, PageStep PROVE LiveInv'
  <1>1. held' = held /\ emits' = emits
    BY PageKeeps, HeldKept
  <1>2. Thread(Page)' = Thread(Page)
    BY <1>1 DEF Thread
  <1>3. CASE Serve
    <2>1. PICK t : t = Thread(Page)
      OBVIOUS
    <2>2. page' = [Closed EXCEPT !.shown = t] /\ Page \in held
      BY <1>3, <2>1 DEF Serve
    <2>3. page'.busy = "no" /\ page'.shown = t
      BY <2>2 DEF Closed
    <2>4. Current'
      BY <1>1, <1>2, <2>1, <2>2, <2>3 DEF Current, Shows
    <2> QED
      BY <2>4 DEF LiveInv
  <1>4. CASE Open
    <2>1. page' = page /\ stream' = stream /\ missed' = missed /\ line = "served"
      BY <1>4 DEF Open
    <2>2. Heralded' = Heralded
      BY <1>1, <2>1 DEF Heralded
    <2> QED
      BY <1>1, <2>1, <2>2, CurrentKept DEF LiveInv
  <1>5. CASE Break
    BY <1>5 DEF Break, LiveInv
  <1>6. CASE Reopen \/ FetchFails
    <2>1. page'.owed = TRUE
      BY <1>6 DEF OthersOK, PageOK, PageState, Reopen, Reopened, FetchFails, Failed
    <2> QED
      BY <2>1 DEF LiveInv, Catching
  <1>7. CASE Refresh
    <2>1. Catching'
      <3>1. CASE page.busy = "no"
        <4>1. page'.busy = "asked"
          BY <1>7, <3>1 DEF Refresh, OthersOK, PageOK, PageState
        <4> QED
          BY <4>1 DEF Catching
      <3>2. CASE page.busy # "no"
        <4>1. page'.busy = page.busy /\ page'.wanted = TRUE /\ page.busy \in {"asked", "drawn"}
          BY <1>7, <3>2 DEF Refresh, OthersOK, PageOK, PageState
        <4> QED
          BY <4>1 DEF Catching
      <3> QED
        BY <3>1, <3>2
    <2> QED
      BY <2>1 DEF LiveInv
  <1>8. CASE Draw
    <2>1. CASE Page \in held
      <3>1. PICK t : t = Thread(Page)
        OBVIOUS
      <3>2. page' = [page EXCEPT !.busy = "drawn", !.drawn = t]
        BY <1>8, <2>1, <3>1 DEF Draw
      <3>3. page'.busy = "drawn" /\ page'.drawn = t
        BY <3>2 DEF OthersOK, PageOK, PageState
      <3>4. Current'
        BY <1>1, <1>2, <2>1, <3>1, <3>3 DEF Current, Shows
      <3> QED
        BY <3>4 DEF LiveInv
    <2>2. CASE Page \notin held
      BY <1>8, <2>2 DEF Draw, LiveInv
    <2> QED
      BY <2>1, <2>2
  <1>9. CASE Swap
    <2>1. line' = line /\ missed' = missed /\ stream' = stream /\ page.busy = "drawn"
      BY <1>9 DEF Swap
    <2>2. /\ page'.shown = page.drawn /\ page'.busy = "no"
          /\ page'.owed = (page.owed \/ page.wanted)
      BY <1>9 DEF Swap, OthersOK, PageOK, PageState
    <2>3. Catching => Catching'
      BY <2>1, <2>2 DEF Catching
    <2>4. Current => Current'
      BY <1>1, <1>2, <2>1, <2>2 DEF Current, Shows
    <2>5. Heralded' = Heralded
      BY <1>1, <2>1 DEF Heralded
    <2> QED
      BY <2>1, <2>3, <2>4, <2>5 DEF LiveInv
  <1> QED
    BY <1>3, <1>4, <1>5, <1>6, <1>7, <1>8, <1>9, HearLive DEF PageStep

LEMMA PushLive == ASSUME OthersOK, LiveInv, PushStep PROVE LiveInv'
  <1>1. held' = held /\ emits' = emits /\ UNCHANGED <<line, stream, page, missed>>
    BY PushKeeps, HeldKept DEF live
  <1>2. Heralded' = Heralded
    BY <1>1 DEF Heralded
  <1> QED
    BY <1>1, <1>2, CurrentKept DEF LiveInv
-----------------------------------------------------------------------------
(* The counters of a thread.                                               *)

\* Every post stands in the tree of a root, no deeper than the walk up goes.
NoLongChain ==
    \A p \in Posts : \E r \in Posts : Parent[r] = None /\ p \in {r} \cup Under(Posts, r, Levels)

StandsIn(p, r) == \E d \in Nat : Stands(Posts, p, r, d)

LEMMA MoreStand ==
    ASSUME NEW ps, NEW qs, ps \subseteq qs, NEW r
    PROVE  \A d \in Nat : \A p : Stands(ps, p, r, d) => Stands(qs, p, r, d)
  <1> DEFINE S == {d \in Nat : \A p : Stands(ps, p, r, d) => Stands(qs, p, r, d)}
  <1>1. 0 \in S
    BY StandsAtTop
  <1>2. ASSUME NEW d \in Nat, d \in S PROVE d + 1 \in S
    <2> SUFFICES ASSUME NEW p, Stands(ps, p, r, d + 1) PROVE Stands(qs, p, r, d + 1)
      OBVIOUS
    <2>1. p \in ps /\ Stands(ps, Parent[p], r, d)
      BY StandsUnder
    <2>2. p \in qs /\ Stands(qs, Parent[p], r, d)
      BY <1>2, <2>1
    <2> QED
      BY <2>2, StandsUnder
  <1>3. \A d \in Nat : d \in S
    <2> HIDE DEF S
    <2> QED
      BY <1>1, <1>2, Induction
  <1> QED
    BY <1>3

\* No post stands in two threads.
LEMMA OneRoot ==
    ASSUME NEW r \in Posts, NEW s \in Posts, Parent[r] = None, Parent[s] = None,
           NEW p, StandsIn(p, r), StandsIn(p, s)
    PROVE  r = s
  <1>0. None \notin Posts
    BY Numbers
  <1> DEFINE S == {d \in Nat : \A q : \A e \in Nat : Stands(Posts, q, r, d) /\ Stands(Posts, q, s, e) => r = s}
  <1>1. 0 \in S
    <2> SUFFICES ASSUME NEW q, NEW e \in Nat, Stands(Posts, q, r, 0), Stands(Posts, q, s, e) PROVE r = s
      OBVIOUS
    <2>1. q = r
      BY StandsAtTop
    <2>2. CASE e = 0
      BY <2>1, <2>2, StandsAtTop
    <2>3. CASE e # 0
      <3>1. e - 1 \in Nat /\ (e - 1) + 1 = e
        BY <2>3
      <3>2. Stands(Posts, None, s, e - 1)
        BY <2>1, <3>1, StandsUnder
      <3> QED
        BY <1>0, <3>1, <3>2, NoneStands
    <2> QED
      BY <2>2, <2>3
  <1>2. ASSUME NEW d \in Nat, d \in S PROVE d + 1 \in S
    <2> SUFFICES ASSUME NEW q, NEW e \in Nat, Stands(Posts, q, r, d + 1), Stands(Posts, q, s, e) PROVE r = s
      OBVIOUS
    <2>1. Stands(Posts, Parent[q], r, d)
      BY StandsUnder
    <2>2. CASE e = 0
      <3>1. q = s
        BY <2>2, StandsAtTop
      <3> QED
        BY <1>0, <2>1, <3>1, NoneStands
    <2>3. CASE e # 0
      <3>1. e - 1 \in Nat /\ (e - 1) + 1 = e
        BY <2>3
      <3>2. Stands(Posts, Parent[q], s, e - 1)
        BY <3>1, StandsUnder
      <3> QED
        BY <1>2, <2>1, <3>1, <3>2
    <2> QED
      BY <2>2, <2>3
  <1>3. \A d \in Nat : d \in S
    <2> HIDE DEF S
    <2> QED
      BY <1>1, <1>2, Induction
  <1> QED
    BY <1>3 DEF StandsIn

\* What a reply bumps is the root of its thread.
LEMMA BumpedIs ==
    ASSUME held \subseteq Posts, NoLongChain, NEW p \in Posts, Parent[p] # None, Bumped(p) \in held
    PROVE  Parent[Bumped(p)] = None /\ StandsIn(p, Bumped(p))
  <1>0. Levels \in Nat /\ None \notin Posts
    BY Numbers
  <1>1. PICK r \in Posts : Parent[r] = None /\ p \in {r} \cup Under(Posts, r, Levels)
    BY DEF NoLongChain
  <1>2. PICK d \in 1 .. Levels : Stands(Posts, p, r, d)
    BY <1>0, <1>1, UnderIs
  <1>3. d - 1 \in Nat /\ (d - 1) + 1 = d /\ d \in Nat /\ d - 1 < Levels
    BY <1>0
  <1>4. Stands(Posts, Parent[p], r, d - 1)
    BY <1>2, <1>3, StandsUnder
  <1>5. PICK up : Bumps(up) /\ \A q : Bumped(q) = up[Levels][Parent[q]]
    BY BumpWalks
  <1> DEFINE S == {k \in Nat : \A q : Stands(Posts, q, r, k) =>
                                  \A n \in 0 .. Levels : k < n => up[n][q] \in {None, r}}
  <1>6. 0 \in S
    <2> SUFFICES ASSUME NEW q, Stands(Posts, q, r, 0), NEW n \in 0 .. Levels, 0 < n
                 PROVE  up[n][q] \in {None, r}
      OBVIOUS
    <2>1. q = r /\ q \in Ids
      BY StandsAtTop DEF Ids
    <2> QED
      BY <1>1, <1>5, <2>1 DEF Bumps
  <1>7. ASSUME NEW k \in Nat, k \in S PROVE k + 1 \in S
    <2> SUFFICES ASSUME NEW q, Stands(Posts, q, r, k + 1), NEW n \in 0 .. Levels, k + 1 < n
                 PROVE  up[n][q] \in {None, r}
      OBVIOUS
    <2>1. q \in Posts /\ q \in Ids /\ Stands(Posts, Parent[q], r, k)
      BY StandsUnder DEF Ids
    <2>2. Parent[q] # None
      BY <1>0, <2>1, NoneStands
    <2>3. n # 0 /\ n - 1 \in 0 .. Levels /\ k < n - 1
      BY <1>0
    <2>4. up[n - 1][Parent[q]] \in {None, r}
      BY <1>7, <2>1, <2>3
    <2>5. up[n][q] = IF q \notin held THEN None ELSE up[n - 1][Parent[q]]
      BY <1>5, <2>1, <2>2, <2>3 DEF Bumps
    <2> QED
      BY <2>4, <2>5
  <1>8. \A k \in Nat : k \in S
    <2> HIDE DEF S
    <2> QED
      BY <1>6, <1>7, Induction
  <1>9. up[Levels][Parent[p]] \in {None, r}
    <2>1. d - 1 \in S /\ Levels \in 0 .. Levels
      BY <1>0, <1>3, <1>8
    <2> QED
      BY <1>3, <1>4, <2>1
  <1>10. Bumped(p) = r
    BY <1>0, <1>5, <1>9
  <1> QED
    BY <1>1, <1>2, <1>3, <1>10 DEF StandsIn

\* A thread's pointer is at a post of that thread, and a post that has not come
\* has none.
CountersInv ==
    /\ \A p \in Posts : p \notin held \cup gone => last[p] = None
    /\ LastReplyStands
    /\ \A r \in held : last[r] # None => Parent[r] = None /\ StandsIn(last[r], r)

LEMMA CreateCounters ==
    ASSUME ThreadsOK, CountersInv, NoLongChain, NEW p \in Posts, Create(p) PROVE CountersInv'
  <1>1. /\ p \notin held \cup gone /\ held' = held \cup {p} /\ gone' = gone
        /\ received' = [received EXCEPT ![p] = stamped[p]] /\ held \subseteq Posts
    BY DEF ThreadsOK, Create
  <1>2. PICK root : /\ root = IF Parent[p] = None THEN None ELSE Bumped(p)
                    /\ activity' = [q \in Posts |-> IF q = p \/ q = root THEN stamped[p] ELSE activity[q]]
                    /\ last' = IF root \in held THEN [last EXCEPT ![root] = p] ELSE last
    BY DEF Create
  <1>3. root \in held => Parent[root] = None /\ StandsIn(p, root)
    <2>1. None \notin held
      BY <1>1, Numbers
    <2> QED
      BY <1>1, <1>2, <2>1, BumpedIs
  <1>4. last[p] = None /\ None \notin Posts
    BY <1>1, Numbers DEF CountersInv
  <1>5. /\ received' \in [Posts -> 0 .. MaxTime] /\ received'[p] = stamped[p]
        /\ \A q \in Posts : q # p => received'[q] = received[q]
    BY <1>1 DEF ThreadsOK
  <1>6. /\ \A q \in Posts : activity'[q] = IF q = p \/ q = root THEN stamped[p] ELSE activity[q]
        /\ \A q \in Posts : last'[q] = IF q = root /\ root \in held THEN p ELSE last[q]
    BY <1>2 DEF ThreadsOK
  <1>7. \A q \in Posts : q \notin held' \cup gone' => last'[q] = None
    BY <1>1, <1>6 DEF CountersInv
  <1>8. ASSUME NEW r \in held'
        PROVE  /\ IF last'[r] = None THEN activity'[r] = received'[r]
                  ELSE last'[r] \in held' /\ activity'[r] = received'[last'[r]]
               /\ last'[r] # None => Parent[r] = None /\ StandsIn(last'[r], r)
    <2>1. CASE r = p
      BY <1>1, <1>4, <1>5, <1>6, <2>1
    <2>2. CASE r = root /\ root \in held
      <3>1. last'[r] = p /\ activity'[r] = stamped[p]
        BY <1>1, <1>6, <2>2
      <3> QED
        BY <1>1, <1>3, <1>4, <1>5, <2>2, <3>1
    <2>3. CASE r # p /\ ~ (r = root /\ root \in held)
      <3>1. r \in held /\ r \in Posts /\ r # root
        BY <1>1, <2>3
      <3>2. last'[r] = last[r] /\ activity'[r] = activity[r] /\ received'[r] = received[r]
        BY <1>5, <1>6, <2>3, <3>1
      <3>3. /\ IF last[r] = None THEN activity[r] = received[r]
               ELSE last[r] \in held /\ activity[r] = received[last[r]]
            /\ last[r] # None => Parent[r] = None /\ StandsIn(last[r], r)
        BY <3>1 DEF CountersInv, LastReplyStands
      <3>4. last[r] # None => last[r] \in held' /\ received'[last[r]] = received[last[r]]
        BY <1>1, <1>5, <3>3
      <3> QED
        BY <3>2, <3>3, <3>4
    <2> QED
      BY <2>1, <2>2, <2>3
  <1>9. LastReplyStands'
    BY <1>8 DEF LastReplyStands
  <1>10. \A r \in held' : last'[r] # None => Parent[r] = None /\ StandsIn(last'[r], r)
    BY <1>8
  <1> QED
    BY <1>7, <1>9, <1>10 DEF CountersInv

LEMMA DeleteCounters ==
    ASSUME ThreadsOK, CountersInv, NEW p \in Posts, Delete(p) PROVE CountersInv'
  <1>1. /\ p \in held /\ held' = held \ {p} /\ gone' = gone \cup {p} /\ received' = received
        /\ held \subseteq Posts /\ None \notin Posts
    BY Numbers DEF ThreadsOK, Delete
  <1>2. CASE HandedBack(p) = {}
    <2>1. last' = last /\ activity' = activity
      BY <1>2 DEF Delete
    <2>2. \A r \in held : last[r] # p
      BY <1>2 DEF HandedBack
    <2>3. LastReplyStands'
      BY <1>1, <2>1, <2>2 DEF CountersInv, LastReplyStands
    <2> QED
      BY <1>1, <2>1, <2>3 DEF CountersInv
  <1>3. CASE HandedBack(p) # {}
    <2>1. PICK root \in HandedBack(p), next \in Ids :
              /\ last' = [last EXCEPT ![root] = next]
              /\ activity' = [activity EXCEPT ![root] = received[IF next = None THEN root ELSE next]]
              /\ next # None => next \in Tree(held \ {p}, root)
      BY <1>3, DeleteSteps
    <2>2. root \in held /\ root \in Posts /\ last[root] = p /\ Parent[root] = None /\ StandsIn(p, root)
      BY <1>1, <2>1 DEF HandedBack, CountersInv
    <2>3. /\ last'[root] = next /\ activity'[root] = received[IF next = None THEN root ELSE next]
          /\ \A q \in Posts : q # root => last'[q] = last[q] /\ activity'[q] = activity[q]
      BY <2>1, <2>2 DEF ThreadsOK
    <2>4. next # None => next \in held' /\ StandsIn(next, root)
      <3> SUFFICES ASSUME next # None PROVE next \in held' /\ StandsIn(next, root)
        OBVIOUS
      <3>1. PICK n \in Nat : next \in Under(held \ {p}, root, n)
        BY <2>1, Numbers DEF Tree
      <3>2. PICK d \in 1 .. n : Stands(held \ {p}, next, root, d)
        BY <3>1, UnderIs
      <3>3. d \in Nat /\ Stands(Posts, next, root, d)
        BY <1>1, <3>2, MoreStand
      <3>4. next \in held \ {p}
        BY <3>1, UnderOf
      <3> QED
        BY <1>1, <3>3, <3>4 DEF StandsIn
    <2>5. ASSUME NEW r \in held', r # root PROVE last[r] # p
      <3> SUFFICES ASSUME last[r] = p PROVE FALSE
        OBVIOUS
      <3>1. r \in held /\ r \in Posts /\ Parent[r] = None /\ StandsIn(p, r)
        BY <1>1 DEF CountersInv
      <3> QED
        BY <2>2, <2>5, <3>1, OneRoot
    <2>6. ASSUME NEW r \in held'
          PROVE  /\ IF last'[r] = None THEN activity'[r] = received'[r]
                    ELSE last'[r] \in held' /\ activity'[r] = received'[last'[r]]
                 /\ last'[r] # None => Parent[r] = None /\ StandsIn(last'[r], r)
      <3>1. CASE r = root
        BY <1>1, <2>2, <2>3, <2>4, <3>1
      <3>2. CASE r # root
        <4>1. r \in held /\ r \in Posts
          BY <1>1
        <4>2. last'[r] = last[r] /\ activity'[r] = activity[r]
          BY <2>3, <3>2, <4>1
        <4>3. /\ IF last[r] = None THEN activity[r] = received[r]
                 ELSE last[r] \in held /\ activity[r] = received[last[r]]
              /\ last[r] # None => Parent[r] = None /\ StandsIn(last[r], r)
          BY <4>1 DEF CountersInv, LastReplyStands
        <4>4. last[r] # p
          BY <2>5, <3>2
        <4> QED
          BY <1>1, <4>2, <4>3, <4>4
      <3> QED
        BY <3>1, <3>2
    <2>7. LastReplyStands'
      BY <2>6 DEF LastReplyStands
    <2>8. \A q \in Posts : q \notin held' \cup gone' => last'[q] = None
      BY <1>1, <2>2, <2>3 DEF CountersInv
    <2> QED
      BY <2>6, <2>7, <2>8 DEF CountersInv
  <1> QED
    BY <1>2, <1>3

-----------------------------------------------------------------------------
(* The invariants hold.                                                    *)

NInv == OthersOK /\ ToldInv /\ LiveInv

LEMMA InitN == Init => NInv /\ CountersInv
  <1> SUFFICES ASSUME Init PROVE NInv /\ CountersInv
    OBVIOUS
  <1>1. ThreadsOK
    BY Numbers DEF Init, ThreadsInit, ThreadsOK, Ids
  <1>2. BusOK
    BY NoneQueued DEF Init, BusOK
  <1>3. PageOK
    BY ClosedTyped DEF Init, PageOK
  <1>4. PushOK
    BY DEF Init, PushOK, Nothing, Ids
  <1>5. ToldInv
    BY DEF Init, ToldInv
  <1>6. LiveInv
    BY DEF Init, LiveInv
  <1>7. CountersInv
    <2>1. held = {} /\ \A p \in Posts : last[p] = None
      BY DEF Init, ThreadsInit
    <2> QED
      BY <2>1 DEF CountersInv, LastReplyStands
  <1> QED
    BY <1>1, <1>2, <1>3, <1>4, <1>5, <1>6, <1>7 DEF NInv, OthersOK

LEMMA Steps ==
    Next <=> \/ \E p \in Posts : CommitStamp(p) \/ CommitCreate(p) \/ CommitDelete(p)
             \/ \E e \in emits : Emit(e)
             \/ PageStep \/ PushStep
  BY DEF Next, PageStep, PushStep

LEMMA StutterN == NInv /\ UNCHANGED vars => NInv'
  <1> SUFFICES ASSUME NInv, UNCHANGED vars PROVE NInv'
    OBVIOUS
  <1>1. /\ UNCHANGED threads /\ held' = held /\ gone' = gone
        /\ UNCHANGED <<emits, line, stream, page, missed, inbox, notifier, subs, joining, told, due>>
    BY HeldKept DEF vars, live, pushing
  <1>2. OthersOK'
    BY <1>1, KeptThreads DEF NInv, OthersOK, BusOK, PageOK, PushOK, Queued
  <1>3. ASSUME NEW d \in due PROVE Owing(d)'
    BY <1>1, OwedStill DEF NInv, ToldInv, Owing
  <1>4. ToldInv'
    BY <1>1, <1>3 DEF ToldInv
  <1>5. LiveInv'
    BY <1>1, CurrentKept DEF NInv, LiveInv, Heralded
  <1> QED
    BY <1>2, <1>4, <1>5 DEF NInv

LEMMA NextN == NInv /\ [Next]_vars => NInv'
  <1> SUFFICES ASSUME NInv, Next PROVE NInv'
    BY StutterN
  <1>1. ASSUME NEW p \in Posts, CommitStamp(p) \/ CommitCreate(p) \/ CommitDelete(p) PROVE NInv'
    BY <1>1, CommitsTyped, CommitsTold, CommitsLive DEF NInv
  <1>2. ASSUME NEW e \in emits, Emit(e) PROVE NInv'
    BY <1>2, EmitTyped, EmitTold, EmitLive DEF NInv
  <1>3. ASSUME PageStep PROVE NInv'
    BY <1>3, PageTyped, PageTold, PageLive DEF NInv
  <1>4. ASSUME PushStep PROVE NInv'
    BY <1>4, PushTyped, PushStepTold, PushLive DEF NInv
  <1> QED
    BY <1>1, <1>2, <1>3, <1>4, Steps

LEMMA AlwaysN == Spec => []NInv
  BY InitN, NextN, PTL DEF Spec

LEMMA NextCounters == NoLongChain /\ NInv /\ CountersInv /\ [Next]_vars => CountersInv'
  <1> SUFFICES ASSUME NoLongChain, NInv, CountersInv, [Next]_vars PROVE CountersInv'
    OBVIOUS
  <1>1. ASSUME UNCHANGED <<held, gone, last, received, activity>> PROVE CountersInv'
    <2>1. LastReplyStands'
      BY <1>1 DEF CountersInv, LastReplyStands
    <2> QED
      BY <1>1, <2>1 DEF CountersInv
  <1>2. ASSUME NEW p \in Posts, CommitStamp(p) PROVE CountersInv'
    BY <1>1, <1>2 DEF CommitStamp, Stamp
  <1>3. ASSUME NEW p \in Posts, CommitCreate(p) PROVE CountersInv'
    BY <1>3, CreateCounters DEF CommitCreate, NInv, OthersOK
  <1>4. ASSUME NEW p \in Posts, CommitDelete(p) PROVE CountersInv'
    BY <1>4, DeleteCounters DEF CommitDelete, NInv, OthersOK
  <1>5. ASSUME UNCHANGED threads PROVE CountersInv'
    BY <1>1, <1>5 DEF threads
  <1>6. ASSUME NEW e \in emits, Emit(e) PROVE CountersInv'
    BY <1>5, <1>6 DEF Emit
  <1>7. CASE PageStep \/ PushStep \/ UNCHANGED vars
    BY <1>5, <1>7, PageKeeps, PushKeeps DEF vars
  <1> QED
    BY <1>2, <1>3, <1>4, <1>6, <1>7, Steps
-----------------------------------------------------------------------------
(* The pages of the notifications list.                                    *)

\* Later is an order of the posts.
LEMMA LaterOrder ==
    ASSUME ThreadsOK, NEW p \in Posts, NEW q \in Posts, NEW r \in Posts
    PROVE  /\ ~ (Later(p, q) /\ Later(q, p))
           /\ Later(p, q) /\ Later(q, r) => Later(p, r)
           /\ p = q \/ Later(p, q) \/ Later(q, p)
  <1>1. /\ p \in Nat /\ q \in Nat /\ r \in Nat
        /\ received[p] \in Nat /\ received[q] \in Nat /\ received[r] \in Nat
    <2>1. Posts \subseteq Nat /\ 0 .. MaxTime \subseteq Nat /\ received \in [Posts -> 0 .. MaxTime]
      BY PostsAssumption DEF ThreadsOK
    <2> QED
      BY <2>1
  <1> QED
    BY <1>1 DEF Later

\* The one of some posts that came first.
IsOldest(o, ps) == o \in ps /\ \A q \in ps \ {o} : Later(q, o)

LEMMA OldestIs ==
    ASSUME ThreadsOK, NEW ps, ps \subseteq Posts, ps # {}
    PROVE  \E o : IsOldest(o, ps)
  <1>1. Posts \subseteq Nat /\ \A p \in ps : received[p] \in Nat
    <2>1. Posts \subseteq Nat /\ 0 .. MaxTime \subseteq Nat /\ received \in [Posts -> 0 .. MaxTime]
      BY PostsAssumption DEF ThreadsOK
    <2> QED
      BY <2>1
  <1> DEFINE times == {received[p] : p \in ps}
  <1>2. PICK t \in times : \A u \in times : t <= u
    <2>1. times # {} /\ times \subseteq Nat
      BY <1>1
    <2> HIDE DEF times
    <2> QED
      BY <2>1, Least
  <1> DEFINE first == {p \in ps : received[p] = t}
  <1>3. PICK o \in first : \A q \in first : o <= q
    <2>1. first # {} /\ first \subseteq Nat
      BY <1>1, <1>2
    <2> HIDE DEF first
    <2> QED
      BY <2>1, Least
  <1>4. ASSUME NEW q \in ps \ {o} PROVE Later(q, o)
    <2>1. received[o] = t /\ t \in Nat /\ o \in Nat /\ received[q] \in Nat /\ q \in Nat /\ t <= received[q]
      BY <1>1, <1>2, <1>3
    <2>2. CASE received[q] = t
      BY <1>3, <2>1, <2>2 DEF Later
    <2>3. CASE received[q] # t
      BY <2>1, <2>3 DEF Later
    <2> QED
      BY <2>2, <2>3
  <1> QED
    BY <1>3, <1>4 DEF IsOldest

\* ... and the one that came last.
LEMMA LatestIs ==
    ASSUME ThreadsOK, NEW ps, ps \subseteq Posts, ps # {}
    PROVE  \E p \in ps : \A q \in ps : ~ Later(q, p)
  <1>1. Posts \subseteq Nat /\ IsFiniteSet(ps) /\ \A p \in ps : received[p] \in Nat
    <2>1. Posts \subseteq Nat /\ 0 .. MaxTime \subseteq Nat /\ received \in [Posts -> 0 .. MaxTime]
      BY PostsAssumption DEF ThreadsOK
    <2> QED
      BY <2>1, FiniteAssumption, FS_Subset
  <1> DEFINE After(p) == {q \in ps : Later(q, p)}
             sizes == {Cardinality(After(p)) : p \in ps}
  <1>2. \A p \in ps : IsFiniteSet(After(p)) /\ Cardinality(After(p)) \in Nat
    <2> TAKE p \in ps
    <2>1. After(p) \subseteq ps
      OBVIOUS
    <2> HIDE DEF After
    <2> QED
      BY <1>1, <2>1, FS_Subset, FS_CardinalityType
  <1>3. PICK n \in sizes : \A m \in sizes : n <= m
    <2>1. sizes # {} /\ sizes \subseteq Nat
      BY <1>2
    <2> HIDE DEF sizes
    <2> QED
      BY <2>1, Least
  <1>4. PICK p \in ps : n = Cardinality(After(p))
    OBVIOUS
  <1>5. ASSUME NEW q \in ps, Later(q, p) PROVE FALSE
    <2>1. After(q) \subseteq After(p)
      <3>1. ASSUME NEW r \in ps, Later(r, q) PROVE Later(r, p)
        <4>1. r \in Posts /\ q \in Posts /\ p \in Posts
          OBVIOUS
        <4> QED
          BY <1>5, <3>1, <4>1, LaterOrder
      <3> QED
        BY <3>1
    <2>2. q \in After(p) /\ q \notin After(q)
      BY <1>5, LaterOrder
    <2> DEFINE a == After(q) b == After(p)
    <2>3. Cardinality(a) < Cardinality(b)
      <3>1. IsFiniteSet(b) /\ a \subseteq b /\ a # b
        BY <1>2, <2>1, <2>2
      <3>2. a \in SUBSET b
        BY <3>1
      <3> HIDE DEF a, b
      <3>3. Cardinality(a) <= Cardinality(b) /\ Cardinality(a) \in Nat /\ Cardinality(b) \in Nat
        BY <3>1, FS_Subset, FS_CardinalityType
      <3>4. Cardinality(a) # Cardinality(b)
        BY <3>1, FS_Subset
      <3> QED
        BY <3>3, <3>4
    <2>4. Cardinality(After(p)) <= Cardinality(After(q)) /\ Cardinality(After(p)) \in Nat /\ Cardinality(After(q)) \in Nat
      BY <1>2, <1>3, <1>4
    <2> QED
      BY <2>3, <2>4
  <1> QED
    BY <1>5

\* What stands before a post of a set.
Ahead(ps, p) == {q \in ps : Later(q, p)}

LEMMA Counted ==
    ASSUME NEW ps, ps \subseteq Posts
    PROVE  IsFiniteSet(ps) /\ Cardinality(ps) \in Nat /\ Cardinality(ps) <= Cardinality(Posts)
  BY FiniteAssumption, FS_Subset, FS_CardinalityType

LEMMA Smaller ==
    ASSUME NEW ps, NEW qs, ps \subseteq qs, qs \subseteq Posts
    PROVE  /\ Cardinality(ps) \in Nat /\ Cardinality(qs) \in Nat
           /\ Cardinality(ps) <= Cardinality(qs)
           /\ ps # qs => Cardinality(ps) < Cardinality(qs)
  <1>1. IsFiniteSet(qs) /\ IsFiniteSet(ps) /\ ps \in SUBSET qs
    BY Counted
  <1>2. Cardinality(ps) <= Cardinality(qs) /\ Cardinality(ps) \in Nat /\ Cardinality(qs) \in Nat
    BY <1>1, FS_Subset, FS_CardinalityType
  <1>3. Cardinality(ps) = Cardinality(qs) => ps = qs
    BY <1>1, FS_Subset
  <1> QED
    BY <1>2, <1>3

LEMMA FirstsAre == \A ps, n, p : p \in Firsts(ps, n) <=> p \in ps /\ Cardinality(Ahead(ps, p)) < n
  BY DEF Firsts, Ahead

\* The firsts stand before the others.
LEMMA FirstsBefore ==
    ASSUME ThreadsOK, NEW ps, ps \subseteq Posts, NEW n \in Nat,
           NEW p \in Firsts(ps, n), NEW q \in ps \ Firsts(ps, n)
    PROVE  Later(p, q)
  <1>1. p \in ps /\ Cardinality(Ahead(ps, p)) < n /\ ~ (Cardinality(Ahead(ps, q)) < n)
    BY FirstsAre
  <1>2. ASSUME Later(q, p) PROVE FALSE
    <2>1. ASSUME NEW r \in ps, Later(r, q) PROVE Later(r, p)
      <3>1. r \in Posts /\ q \in Posts /\ p \in Posts
        BY <1>1
      <3> QED
        BY <1>2, <2>1, <3>1, LaterOrder
    <2>2. Ahead(ps, q) \subseteq Ahead(ps, p) /\ Ahead(ps, p) \subseteq Posts
      BY <2>1 DEF Ahead
    <2> QED
      BY <1>1, <2>2, Smaller
  <1>3. p # q /\ p \in Posts /\ q \in Posts
    BY <1>1
  <1> QED
    BY <1>2, <1>3, LaterOrder

\* A set that is not over n is its firsts.
LEMMA FirstsAll ==
    ASSUME NEW ps, ps \subseteq Posts, NEW n \in Nat, Cardinality(ps) < n
    PROVE  Firsts(ps, n) = ps
  <1>1. ASSUME NEW p \in ps PROVE p \in Firsts(ps, n)
    <2>1. Ahead(ps, p) \subseteq ps
      BY DEF Ahead
    <2>2. Cardinality(Ahead(ps, p)) < n
      BY <2>1, Smaller
    <2> QED
      BY <2>2, FirstsAre
  <1> QED
    BY <1>1, FirstsAre

\* Firsts that are fewer than n are all there are.
LEMMA FirstsFew ==
    ASSUME ThreadsOK, NEW ps, ps \subseteq Posts, NEW n \in Nat, Cardinality(Firsts(ps, n)) < n
    PROVE  Firsts(ps, n) = ps
  <1>1. Firsts(ps, n) \subseteq ps
    BY FirstsAre
  <1>2. SUFFICES ASSUME ps \ Firsts(ps, n) # {} PROVE FALSE
    BY <1>1
  <1>3. PICK p \in ps \ Firsts(ps, n) : \A q \in ps \ Firsts(ps, n) : ~ Later(q, p)
    <2>1. ps \ Firsts(ps, n) \subseteq Posts
      OBVIOUS
    <2> QED
      BY <1>2, <2>1, LatestIs
  <1>4. Ahead(ps, p) \subseteq Firsts(ps, n) /\ Firsts(ps, n) \subseteq Posts
    BY <1>1, <1>3 DEF Ahead
  <1>5. Cardinality(Ahead(ps, p)) < n
    BY <1>4, Smaller
  <1> QED
    BY <1>3, <1>5, FirstsAre

\* The firsts are n at most.
LEMMA FirstsOver ==
    ASSUME ThreadsOK, NEW ps, ps \subseteq Posts, NEW n \in Nat
    PROVE  Cardinality(Firsts(ps, n)) \in Nat /\ Cardinality(Firsts(ps, n)) <= n
  <1>1. Firsts(ps, n) \subseteq ps /\ Firsts(ps, n) \subseteq Posts
    BY FirstsAre
  <1>2. CASE Firsts(ps, n) = {}
    BY <1>2, FS_EmptySet
  <1>3. CASE Firsts(ps, n) # {}
    <2>1. PICK o : IsOldest(o, Firsts(ps, n))
      BY <1>1, <1>3, OldestIs
    <2>2. o \in Firsts(ps, n) /\ Cardinality(Ahead(ps, o)) < n
      BY <2>1, FirstsAre DEF IsOldest
    <2>3. Firsts(ps, n) \ {o} \subseteq Ahead(ps, o) /\ Ahead(ps, o) \subseteq Posts
      BY <1>1, <2>1 DEF IsOldest, Ahead
    <2>4. Cardinality(Firsts(ps, n) \ {o}) < n
      BY <2>2, <2>3, Smaller
    <2>5. IsFiniteSet(Firsts(ps, n)) /\ Cardinality(Firsts(ps, n)) \in Nat
      BY <1>1, Counted
    <2>6. Cardinality(Firsts(ps, n) \ {o}) = Cardinality(Firsts(ps, n)) - 1
      BY <2>2, <2>5, FS_RemoveElement
    <2> QED
      BY <2>4, <2>5, <2>6
  <1> QED
    BY <1>2, <1>3

\* Posts that came before all of a set that has n firsts make no difference.
LEMMA FirstsSame ==
    ASSUME ThreadsOK, NEW ps, NEW qs, ps \subseteq qs, qs \subseteq Posts, NEW n \in Nat,
           \A p \in ps, q \in qs \ ps : Later(p, q),
           ~ (Cardinality(Firsts(ps, n)) < n)
    PROVE  Firsts(qs, n) = Firsts(ps, n)
  <1>1. ASSUME NEW p \in ps PROVE Ahead(qs, p) = Ahead(ps, p)
    <2>1. ASSUME NEW q \in qs \ ps PROVE ~ Later(q, p)
      <3>1. p \in Posts /\ q \in Posts /\ Later(p, q)
        OBVIOUS
      <3> QED
        BY <3>1, LaterOrder
    <2> QED
      BY <2>1 DEF Ahead
  <1>2. ASSUME NEW q \in qs \ ps PROVE q \notin Firsts(qs, n)
    <2>1. Firsts(ps, n) \subseteq Ahead(qs, q) /\ Ahead(qs, q) \subseteq Posts
      BY FirstsAre DEF Ahead
    <2>2. ~ (Cardinality(Ahead(qs, q)) < n)
      BY <2>1, Smaller
    <2> QED
      BY <2>2, FirstsAre
  <1>3. ASSUME NEW p \in ps PROVE p \in Firsts(qs, n) <=> p \in Firsts(ps, n)
    BY <1>1, FirstsAre
  <1> QED
    BY <1>2, <1>3, FirstsAre

\* A page as the batches fill it.
Lists == [cursor : Ids, ids : SUBSET Posts, more : BOOLEAN]

\* After n batches that had more behind them, the page holds all that is listed
\* from before as far as the cursor; after the last one, the firsts of it.
Filled(list, rows, listed, before, n) ==
    IF list.more
    THEN /\ list.ids = Behind(listed, before) \ Behind(rows, list.cursor)
         /\ Cardinality(list.ids) < PageLimit
         /\ Behind(rows, list.cursor) \subseteq Behind(rows, before)
         /\ Cardinality(Behind(rows, list.cursor)) + n <= Cardinality(Posts)
    ELSE list.ids = Firsts(Behind(listed, before), PageLimit)

\* Behind the last of the rows of a batch is what is left of them.
LEMMA BehindOldest ==
    ASSUME ThreadsOK, NEW rows, rows \subseteq Posts, NEW cursor \in Ids, NEW n \in Nat,
           NEW left, left = Behind(rows, cursor), NEW batch, batch = Firsts(left, n)
    PROVE  \A o \in batch : IsOldest(o, batch) => Behind(rows, o) = left \ batch
  <1> SUFFICES ASSUME NEW o \in batch, IsOldest(o, batch) PROVE Behind(rows, o) = left \ batch
    OBVIOUS
  <1>1. /\ batch \subseteq Behind(rows, cursor) /\ Behind(rows, cursor) \subseteq rows
        /\ o \in batch /\ o \in Posts /\ o # None
    BY FirstsAre, Numbers DEF IsOldest, Behind
  <1>2. ASSUME NEW q \in rows, Later(o, q) PROVE q \in Behind(rows, cursor) \ batch
    <2>1. q \in Behind(rows, cursor)
      <3>1. CASE cursor = None
        BY <3>1 DEF Behind
      <3>2. CASE cursor # None
        <4>1. Later(cursor, o) /\ cursor \in Posts /\ q \in Posts
          BY <1>1, <3>2 DEF Behind, Ids
        <4>2. Later(cursor, q)
          BY <1>1, <1>2, <4>1, LaterOrder
        <4> QED
          BY <4>2 DEF Behind
      <3> QED
        BY <3>1, <3>2
    <2>2. ~ Later(q, o) /\ q # o
      <3>1. q \in Posts
        OBVIOUS
      <3> QED
        BY <1>1, <1>2, <3>1, LaterOrder
    <2>3. q \notin batch
      BY <2>2 DEF IsOldest
    <2> QED
      BY <2>1, <2>3
  <1>3. ASSUME NEW q \in Behind(rows, cursor) \ batch PROVE Later(o, q)
    <2>1. Behind(rows, cursor) \subseteq Posts
      BY <1>1
    <2> QED
      BY <1>1, <2>1, FirstsBefore
  <1>4. Behind(rows, o) = {q \in rows : Later(o, q)}
    BY <1>1 DEF Behind
  <1> QED
    BY <1>1, <1>2, <1>3, <1>4

\* What a batch lists is what is listed down to its last row, and the rest came
\* before all of it.
LEMMA BatchLists ==
    ASSUME ThreadsOK, NEW rows, rows \subseteq Posts, NEW cursor \in Ids, NEW n \in Nat,
           NEW listed, listed \subseteq rows,
           NEW left, left = Behind(rows, cursor),
           NEW batch, batch = Firsts(left, n),
           NEW upto, upto = listed \ (left \ batch)
    PROVE  \A p \in upto, q \in listed \ upto : Later(p, q)
  <1> SUFFICES ASSUME NEW p \in upto, NEW q \in listed \ upto PROVE Later(p, q)
    OBVIOUS
  <1>1. p \in Posts /\ q \in Posts /\ q \in left \ batch /\ left \subseteq Posts /\ p \in rows
    BY DEF Behind
  <1>2. CASE p \in batch
    BY <1>1, <1>2, FirstsBefore
  <1>3. CASE p \notin left
    <2>1. cursor # None /\ ~ Later(cursor, p) /\ Later(cursor, q) /\ cursor \in Posts
      BY <1>1, <1>3 DEF Behind, Ids
    <2>2. p = cursor \/ Later(p, cursor)
      BY <1>1, <2>1, LaterOrder
    <2> QED
      BY <1>1, <2>1, <2>2, LaterOrder
  <1> QED
    BY <1>2, <1>3

\* What a batch makes of a page.
BatchGives(next, list, batch, full) ==
    /\ next.ids = full
    /\ next.more <=> Cardinality(full) < PageLimit /\ Cardinality(batch) = PageLimit
    /\ next.more \in BOOLEAN
    /\ next.cursor = IF next.more THEN Oldest(batch) ELSE list.cursor
    /\ next = [cursor |-> next.cursor, ids |-> next.ids, more |-> next.more]

LEMMA BatchIs ==
    ASSUME NEW list, NEW rows, NEW listed, NEW batch, NEW full, NEW next,
           batch = Firsts(Behind(rows, list.cursor), PageLimit),
           full = Firsts(list.ids \cup (batch \cap listed), PageLimit),
           next = Batch(list, rows, listed, PageLimit)
    PROVE  BatchGives(next, list, batch, full)
  <1>1. PICK more : more = (Cardinality(full) < PageLimit /\ Cardinality(batch) = PageLimit)
    OBVIOUS
  <1>2. next = [cursor |-> IF more THEN Oldest(batch) ELSE list.cursor, ids |-> full, more |-> more]
    BY <1>1 DEF Batch, More
  <1>3. next.ids = full /\ next.more = more /\ next.cursor = IF more THEN Oldest(batch) ELSE list.cursor
    BY <1>2
  <1>4. more \in BOOLEAN /\ (more <=> Cardinality(full) < PageLimit /\ Cardinality(batch) = PageLimit)
    BY <1>1
  <1> QED
    BY <1>2, <1>3, <1>4 DEF BatchGives

LEMMA BatchTyped ==
    ASSUME ThreadsOK, NEW rows, rows \subseteq Posts, NEW listed, NEW list \in Lists
    PROVE  Batch(list, rows, listed, PageLimit) \in Lists
  <1>1. PICK batch : batch = Firsts(Behind(rows, list.cursor), PageLimit)
    OBVIOUS
  <1>2. PICK full : full = Firsts(list.ids \cup (batch \cap listed), PageLimit)
    OBVIOUS
  <1>3. PICK next : next = Batch(list, rows, listed, PageLimit)
    OBVIOUS
  <1>4. BatchGives(next, list, batch, full)
    BY <1>1, <1>2, <1>3, BatchIs
  <1>5. list.cursor \in Ids /\ list.ids \subseteq Posts /\ PageLimit \in Nat \ {0}
    BY BufferAssumption DEF Lists
  <1>6. batch \subseteq Posts
    BY <1>1, FirstsAre DEF Behind
  <1>7. full \subseteq Posts
    BY <1>2, <1>5, <1>6, FirstsAre
  <1>8. ASSUME next.more PROVE Oldest(batch) \in batch
    <2>1. batch # {}
      BY <1>4, <1>5, <1>8, FS_EmptySet DEF BatchGives
    <2>2. \E o : IsOldest(o, batch)
      BY <1>6, <2>1, OldestIs
    <2> QED
      BY <2>2 DEF IsOldest, Oldest
  <1>9. next.more \in BOOLEAN /\ next.ids \in SUBSET Posts /\ next.cursor \in Ids
    BY <1>4, <1>5, <1>6, <1>7, <1>8 DEF BatchGives, Ids
  <1> QED
    BY <1>3, <1>4, <1>9 DEF BatchGives, Lists

LEMMA BatchFills ==
    ASSUME ThreadsOK, NEW rows, rows \subseteq Posts, NEW listed, listed \subseteq rows,
           NEW before \in Ids, NEW list \in Lists, list.more, NEW n \in Nat,
           Filled(list, rows, listed, before, n),
           NEW next, next = Batch(list, rows, listed, PageLimit)
    PROVE  next \in Lists /\ Filled(next, rows, listed, before, n + 1)
  <1> DEFINE left == Behind(rows, list.cursor)
             all == Behind(listed, before)
             batch == Firsts(left, PageLimit)
             upto == all \ (left \ batch)
             full == Firsts(upto, PageLimit)
  <1>1. /\ list.cursor \in Ids /\ list.ids \subseteq Posts /\ PageLimit \in Nat \ {0}
        /\ list.ids = all \ left /\ left \subseteq Behind(rows, before)
        /\ Cardinality(left) + n <= Cardinality(Posts)
    BY BufferAssumption DEF Lists, Filled
  <1>2. left \subseteq rows /\ batch \subseteq left /\ full \subseteq upto /\ all \subseteq listed
    BY FirstsAre DEF Behind
  <1>3. list.ids \cup (batch \cap listed) = upto
    <2>1. \A p \in left \cap listed : p \in all
      BY <1>1 DEF Behind
    <2> QED
      BY <1>1, <1>2, <2>1
  <1>4. BatchGives(next, list, batch, full)
    <2>1. PICK b : b = batch
      OBVIOUS
    <2>2. b = Firsts(Behind(rows, list.cursor), PageLimit) /\ list.ids \cup (b \cap listed) = upto
      BY <1>3, <2>1
    <2>3. PICK f : f = Firsts(list.ids \cup (b \cap listed), PageLimit)
      OBVIOUS
    <2>4. f = full
      BY <2>2, <2>3
    <2> HIDE DEF upto, full, batch
    <2>5. BatchGives(next, list, b, f)
      BY <2>2, <2>3, BatchIs
    <2> QED
      BY <2>1, <2>4, <2>5
  <1>5. \A p \in upto, q \in all \ upto : Later(p, q)
    <2>1. all \subseteq rows
      BY <1>2
    <2>2. PICK l, b, u, m : l = left /\ b = batch /\ u = upto /\ m = all
      OBVIOUS
    <2>3. l = Behind(rows, list.cursor) /\ b = Firsts(l, PageLimit) /\ u = m \ (l \ b) /\ m \subseteq rows
      BY <2>1, <2>2
    <2>4. list.cursor \in Ids /\ PageLimit \in Nat
      BY <1>1
    <2> HIDE DEF left, batch, upto, all
    <2>5. \A p \in u, q \in m \ u : Later(p, q)
      BY <2>3, <2>4, BatchLists
    <2> QED
      BY <2>2, <2>5
  <1>6. CASE ~ next.more
    <2>1. full = Firsts(all, PageLimit)
      <3>1. CASE ~ (Cardinality(full) < PageLimit)
        <4>1. upto \subseteq all /\ all \subseteq Posts
          BY <1>2
        <4> HIDE DEF upto, all
        <4> QED
          BY <1>1, <1>5, <3>1, <4>1, FirstsSame
      <3>2. CASE Cardinality(full) < PageLimit
        <4>1. left \subseteq Posts
          BY <1>2
        <4>2. Cardinality(batch) # PageLimit
          BY <1>4, <1>6, <3>2 DEF BatchGives
        <4>3. Cardinality(batch) < PageLimit
          <5> HIDE DEF left
          <5>1. Cardinality(batch) \in Nat /\ Cardinality(batch) <= PageLimit
            BY <1>1, <4>1, FirstsOver
          <5> HIDE DEF batch
          <5> QED
            BY <1>1, <4>2, <5>1
        <4>4. batch = left
          <5> HIDE DEF left
          <5> QED
            BY <1>1, <4>1, <4>3, FirstsFew
        <4>5. upto = all
          BY <4>4
        <4> QED
          BY <4>5
      <3> QED
        BY <3>1, <3>2
    <2>2. next \in Lists
      <3>1. full \subseteq Posts
        BY <1>2
      <3>2. next.more \in BOOLEAN /\ next.cursor \in Ids /\ next.ids \in SUBSET Posts
        BY <1>1, <1>4, <1>6, <3>1 DEF BatchGives
      <3> QED
        BY <1>4, <3>2 DEF Lists, BatchGives
    <2> QED
      BY <1>4, <1>6, <2>1, <2>2 DEF Filled, BatchGives
  <1>7. CASE next.more
    <2>1. Cardinality(full) < PageLimit /\ Cardinality(batch) = PageLimit
      BY <1>4, <1>7 DEF BatchGives
    <2>2. PICK o : o = next.cursor
      OBVIOUS
    <2>3. IsOldest(o, batch)
      <3>1. batch \subseteq Posts
        BY <1>2
      <3>2. batch # {}
        <4> HIDE DEF batch
        <4> QED
          BY <1>1, <2>1, FS_EmptySet
      <3>3. \E p : IsOldest(p, batch)
        <4> HIDE DEF batch
        <4> QED
          BY <3>1, <3>2, OldestIs
      <3>4. o = Oldest(batch)
        BY <1>4, <1>7, <2>2 DEF BatchGives
      <3> HIDE DEF batch
      <3> QED
        BY <3>3, <3>4 DEF IsOldest, Oldest
    <2>4. o \in batch /\ o \in Posts
      BY <1>2, <2>3 DEF IsOldest
    <2>5. Behind(rows, o) = left \ batch
      <3>1. ASSUME NEW c \in Ids, NEW k \in Nat, NEW l, l = Behind(rows, c), NEW b, b = Firsts(l, k),
                   o \in b, IsOldest(o, b)
            PROVE  Behind(rows, o) = l \ b
        BY ONLY ThreadsOK, rows \subseteq Posts, <3>1, BehindOldest
      <3>2. PICK c, k, l, b : c = list.cursor /\ k = PageLimit /\ l = left /\ b = batch
        OBVIOUS
      <3>3. c \in Ids /\ k \in Nat /\ l = Behind(rows, c) /\ b = Firsts(l, k) /\ o \in b /\ IsOldest(o, b)
        BY <1>1, <2>3, <2>4, <3>2
      <3>4. Behind(rows, o) = l \ b
        <4> HIDE DEF left, batch
        <4> QED
          BY <3>1, <3>3
      <3> QED
        BY <3>2, <3>4
    <2>6. full = upto
      <3>1. upto \subseteq Posts
        BY <1>2
      <3> HIDE DEF upto
      <3> QED
        BY <1>1, <2>1, <3>1, FirstsFew
    <2>7. Cardinality(left \ batch) + (n + 1) <= Cardinality(Posts)
      <3>1. left \ batch \subseteq left /\ left \subseteq Posts /\ left \ batch # left
        BY <1>2, <2>4
      <3> DEFINE rest == left \ batch
      <3> HIDE DEF left, rest
      <3>2. /\ Cardinality(rest) \in Nat /\ Cardinality(left) \in Nat
            /\ Cardinality(rest) < Cardinality(left)
        BY <3>1, Smaller DEF rest
      <3> QED
        BY <1>1, <3>2, Numbers DEF rest
    <2>8. next \in Lists
      <3>1. full \subseteq Posts
        BY <1>2
      <3>2. next.more \in BOOLEAN /\ next.cursor \in Ids /\ next.ids \in SUBSET Posts
        BY <1>4, <1>7, <2>2, <2>4, <3>1 DEF Ids, BatchGives
      <3> QED
        BY <1>4, <3>2 DEF Lists, BatchGives
    <2>9. next.ids = all \ Behind(rows, next.cursor) /\ Cardinality(next.ids) < PageLimit
      BY <1>4, <2>1, <2>2, <2>5, <2>6 DEF BatchGives
    <2>10. Behind(rows, next.cursor) \subseteq Behind(rows, before)
      BY <1>1, <2>2, <2>5
    <2> QED
      BY <1>7, <2>2, <2>5, <2>7, <2>8, <2>9, <2>10 DEF Filled
  <1> QED
    BY <1>6, <1>7

\* What notifications makes of a page in a turn of its loop.
Turn(list, rows, listed) == IF list.more THEN Batch(list, rows, listed, PageLimit) ELSE list

\* The page is filled: after as many turns as there are posts, nothing is behind
\* the cursor.
LEMMA ListsFill ==
    ASSUME ThreadsOK, NEW rows, rows \subseteq Posts, NEW listed, listed \subseteq rows,
           NEW before \in Ids
    PROVE  Notifications(rows, listed, before, PageLimit) = Firsts(Behind(listed, before), PageLimit)
  <1> DEFINE N == Cardinality(Posts)
             first == [cursor |-> before, ids |-> {}, more |-> TRUE]
             OK(list, n) == list \in Lists /\ Filled(list, rows, listed, before, n)
             R(f) == [n \in 0 .. N |-> IF n = 0 THEN first
                          ELSE IF f[n - 1].more THEN Batch(f[n - 1], rows, listed, PageLimit)
                          ELSE f[n - 1]]
             a == CHOOSE f : f = R(f)
             S == {n \in Nat : n <= N => OK(a[n], n)}
  <1>1. N \in Nat /\ PageLimit \in Nat \ {0} /\ PageLimit \in Nat
    BY Numbers, BufferAssumption
  <1>2. ASSUME NEW f
        PROVE  R(f) = [n \in 0 .. N |-> IF n = 0 THEN first ELSE Turn(f[n - 1], rows, listed)]
    BY DEF Turn
  <1>3. \E f : f = R(f)
    <2> DEFINE g == [x \in (1 .. N) \X Lists |-> Turn(x[2], rows, listed)]
    <2>1. first \in Lists
      BY DEF Lists
    <2>2. \A n \in 1 .. N, x \in Lists : g[<<n, x>>] = Turn(x, rows, listed) /\ g[<<n, x>>] \in Lists
      <3> TAKE n \in 1 .. N, x \in Lists
      <3>1. Turn(x, rows, listed) \in Lists
        BY BatchTyped DEF Turn
      <3> QED
        BY <3>1
    <2> HIDE DEF g, first, N
    <2>3. PICK f : Iterates(f, Lists, first, N, g)
      BY <1>1, <2>1, <2>2, Iteration
    <2>4. f \in [0 .. N -> Lists] /\ f[0] = first /\ \A n \in 1 .. N : f[n] = g[<<n, f[n - 1]>>]
      BY <2>3 DEF Iterates
    <2>5. ASSUME NEW n \in 0 .. N
          PROVE  f[n] = IF n = 0 THEN first ELSE Turn(f[n - 1], rows, listed)
      <3>1. CASE n = 0
        BY <2>4, <3>1
      <3>2. CASE n # 0
        <4>1. n \in 1 .. N /\ n - 1 \in 0 .. N
          BY <1>1, <3>2
        <4> QED
          BY <2>2, <2>4, <3>2, <4>1
      <3> QED
        BY <3>1, <3>2
    <2>6. f = [n \in 0 .. N |-> IF n = 0 THEN first ELSE Turn(f[n - 1], rows, listed)]
      BY <2>4, <2>5
    <2>7. f = R(f)
      <3> USE DEF first, N
      <3> HIDE DEF R
      <3> QED
        BY <1>2, <2>6
    <2> HIDE DEF R
    <2> QED
      BY <2>7
  <1>4. a = R(a)
    <2> HIDE DEF R
    <2> QED
      BY <1>3
  <1>5. Notifications(rows, listed, before, PageLimit) = a[N].ids
    BY DEF Notifications
  <1> HIDE DEF a
  <1>6. a[0] = first /\ \A n \in 1 .. N : a[n] = Turn(a[n - 1], rows, listed)
    <2>1. a = [n \in 0 .. N |-> IF n = 0 THEN first ELSE Turn(a[n - 1], rows, listed)]
      <3> HIDE DEF R
      <3> QED
        BY <1>2, <1>4
    <2>2. ASSUME NEW n \in 0 .. N PROVE a[n] = IF n = 0 THEN first ELSE Turn(a[n - 1], rows, listed)
      BY <2>1
    <2>3. 0 \in 0 .. N /\ \A n \in 1 .. N : n \in 0 .. N /\ n # 0
      BY <1>1
    <2> HIDE DEF first, N
    <2> QED
      BY <2>2, <2>3
  <1>7. 0 \in S
    <2>1. first \in Lists
      BY DEF Lists
    <2>2. Filled(first, rows, listed, before, 0)
      <3>1. Behind(rows, before) \subseteq Posts /\ Behind(listed, before) \subseteq Behind(rows, before)
        BY DEF Behind
      <3>2. Cardinality(Behind(rows, before)) \in Nat /\ Cardinality(Behind(rows, before)) <= N
        BY <3>1, Counted
      <3>3. Cardinality({}) = 0
        BY FS_EmptySet
      <3> QED
        BY <1>1, <3>1, <3>2, <3>3 DEF Filled
    <2> QED
      BY <1>6, <2>1, <2>2
  <1>8. ASSUME NEW n \in Nat, n \in S PROVE n + 1 \in S
    <2> SUFFICES ASSUME n + 1 <= N PROVE OK(a[n + 1], n + 1)
      OBVIOUS
    <2>1. n <= N /\ n + 1 \in 1 .. N /\ (n + 1) - 1 = n
      BY <1>1
    <2>2. OK(a[n], n)
      BY <1>8, <2>1
    <2>3. a[n + 1] = Turn(a[n], rows, listed)
      BY <1>6, <2>1
    <2> HIDE DEF N, first
    <2>4. CASE a[n].more
      <3>1. a[n + 1] = Batch(a[n], rows, listed, PageLimit)
        BY <2>3, <2>4 DEF Turn
      <3> QED
        BY <2>2, <2>4, <3>1, BatchFills
    <2>5. CASE ~ a[n].more
      <3>1. a[n + 1] = a[n]
        BY <2>3, <2>5 DEF Turn
      <3> QED
        BY <2>2, <2>5, <3>1 DEF Filled
    <2> QED
      BY <2>4, <2>5
  <1>9. OK(a[N], N)
    <2>1. \A n \in Nat : n \in S
      <3> HIDE DEF S
      <3> QED
        BY <1>7, <1>8, Induction
    <2> QED
      BY <1>1, <2>1
  <1>10. a[N].ids = Firsts(Behind(listed, before), PageLimit)
    <2>1. CASE ~ a[N].more
      BY <1>9, <2>1 DEF Filled
    <2>2. CASE a[N].more
      <3> DEFINE left == Behind(rows, a[N].cursor)
      <3>1. /\ a[N].ids = Behind(listed, before) \ left /\ Cardinality(a[N].ids) < PageLimit
            /\ Cardinality(left) + N <= N
        BY <1>9, <2>2 DEF Filled
      <3>2. left \subseteq Posts /\ Behind(listed, before) \subseteq Posts
        BY DEF Behind
      <3>3. left = {}
        <4> HIDE DEF left
        <4>1. IsFiniteSet(left) /\ Cardinality(left) \in Nat
          BY <3>2, Counted
        <4>2. Cardinality(left) = 0
          BY <1>1, <3>1, <4>1
        <4> QED
          BY <4>1, <4>2, FS_EmptySet
      <3>4. a[N].ids = Behind(listed, before)
        BY <3>1, <3>3
      <3>5. Cardinality(Behind(listed, before)) < PageLimit
        BY <3>1, <3>4
      <3>6. Firsts(Behind(listed, before), PageLimit) = Behind(listed, before)
        BY <1>1, <3>2, <3>5, FirstsAll
      <3> QED
        BY <3>4, <3>6
    <2> QED
      BY <2>1, <2>2
  <1> QED
    BY <1>5, <1>10

-----------------------------------------------------------------------------
(* What the rows of a page are.                                            *)

LEMMA WholeOf == ASSUME NEW r \in held PROVE Whole(r) \subseteq held
  BY TreeOf DEF Whole

\* The time of a reader's first post in a thread is that of one of its posts there,
\* and of none later.
LEMMA SinceIs ==
    ASSUME ThreadsOK, NEW me, NEW r \in held, Mine(me, r) # {}
    PROVE  /\ \A q \in Mine(me, r) : Since(me, r) <= received[q]
           /\ \E q \in Mine(me, r) : Since(me, r) = received[q]
  <1> DEFINE times == {received[q] : q \in Mine(me, r)}
  <1>1. Mine(me, r) \subseteq Posts
    BY WholeOf DEF Mine, ThreadsOK
  <1>2. times \subseteq Nat /\ times # {}
    BY <1>1, Numbers DEF ThreadsOK
  <1>3. \E t \in times : \A q \in Mine(me, r) : t <= received[q]
    <2> HIDE DEF times
    <2>1. PICK t \in times : \A u \in times : t <= u
      BY <1>2, Least
    <2>2. \A q \in Mine(me, r) : received[q] \in times
      BY DEF times
    <2> QED
      BY <2>1, <2>2
  <1>4. Since(me, r) \in times /\ \A q \in Mine(me, r) : Since(me, r) <= received[q]
    BY <1>3 DEF Since
  <1> QED
    BY <1>4

\* In a thread means after a post of the reader's there: the least of their times
\* is as good as any.
LEMMA InThreadsIs ==
    ASSUME ThreadsOK, NEW me, NEW p \in held
    PROVE  p \in InThreads(me)
             <=> \E q \in held : Author[q] = me /\ received[q] < received[p] /\ Together(p, q)
  <1>1. p \in InThreads(me) <=> \E r \in Joined(me) : p \in Whole(r) /\ received[p] > Since(me, r)
    BY DEF InThreads
  <1>2. received[p] \in Nat /\ \A q \in held : received[q] \in Nat
    BY Numbers DEF ThreadsOK
  <1>3. ASSUME NEW r \in Joined(me), p \in Whole(r), received[p] > Since(me, r)
        PROVE  \E q \in held : Author[q] = me /\ received[q] < received[p] /\ Together(p, q)
    <2>1. r \in held /\ Parent[r] = None /\ Mine(me, r) # {}
      BY DEF Joined
    <2>2. PICK q \in Mine(me, r) : Since(me, r) = received[q]
      BY <2>1, SinceIs
    <2>3. q \in held /\ q \in Whole(r) /\ Author[q] = me
      BY <2>1, WholeOf DEF Mine
    <2>4. received[q] < received[p]
      BY <1>2, <1>3, <2>2, <2>3
    <2>5. Together(p, q)
      BY <1>3, <2>1, <2>3 DEF Together
    <2> QED
      BY <2>3, <2>4, <2>5
  <1>4. ASSUME NEW q \in held, Author[q] = me, received[q] < received[p], Together(p, q)
        PROVE  \E r \in Joined(me) : p \in Whole(r) /\ received[p] > Since(me, r)
    <2>1. PICK r \in held : Parent[r] = None /\ {p, q} \subseteq Whole(r)
      BY <1>4 DEF Together
    <2>2. q \in Mine(me, r)
      BY <1>4, <2>1 DEF Mine
    <2>3. r \in Joined(me)
      BY <2>1, <2>2 DEF Joined
    <2>4. Since(me, r) <= received[q]
      BY <2>2, SinceIs
    <2>5. PICK o \in Mine(me, r) : Since(me, r) = received[o]
      BY <2>2, SinceIs
    <2>6. Since(me, r) \in Nat
      BY <1>2, <2>1, <2>5, WholeOf DEF Mine
    <2>7. received[p] > Since(me, r)
      BY <1>2, <1>4, <2>4, <2>6
    <2> QED
      BY <2>1, <2>3, <2>7
  <1> QED
    BY <1>1, <1>3, <1>4

\* The rows that are listed are the posts that concern the reader: those the texts
\* are looked at for are among the candidates.
LEMMA ListedIs ==
    ASSUME ThreadsOK, NEW me PROVE Listed(me, Candidates(me)) = Concerns(me)
  <1>1. ASSUME NEW p \in held PROVE p \in Listed(me, Candidates(me)) <=> p \in Concerns(me)
    <2>1. Names[p] \subseteq Holds[p]
      BY HoldsAssumption DEF ThreadsOK
    <2>2. p \in Candidates(me) <=> /\ Author[p] # me
                                   /\ me \in Answered(p) \cup Holds[p] \/ p \in InThreads(me)
      BY DEF Candidates
    <2>3. p \in Listed(me, Candidates(me))
            <=> p \in Candidates(me) /\ (me \in Answered(p) \cup Names[p] \/ p \in InThreads(me))
      BY DEF Listed
    <2>4. p \in Concerns(me) <=> /\ Author[p] # me
                                 /\ me \in Answered(p) \cup Names[p] \/ p \in InThreads(me)
      BY InThreadsIs DEF Concerns
    <2> QED
      BY <2>1, <2>2, <2>3, <2>4
  <1>2. Listed(me, Candidates(me)) \subseteq held /\ Concerns(me) \subseteq held
    BY DEF Listed, Candidates, Concerns
  <1> QED
    BY <1>1, <1>2

-----------------------------------------------------------------------------
(* The theorems.                                                           *)

LEMMA TypedN == OthersOK => TypeOK
  BY DEF OthersOK, ThreadsOK, BusOK, PageOK, PushOK, Queued, TypeOK, Ids

\* The tables, the buffers of the bus, the page and the notifier keep their types;
\* a buffer never holds more than it has room for (Hub.Publish drops what does
\* not fit, src/internal/events/hub.go).
THEOREM NoticesTyped == Spec => []TypeOK
  <1>1. NInv => TypeOK
    BY TypedN DEF NInv
  <1> QED
    BY <1>1, AlwaysN, PTL

\* Once the notifier has read all there is, who was answered was told so as an
\* answer (notify and its why, src/internal/push/push.go), for any posts, people
\* and subscriptions, in whatever order events go out, browsers come and go and
\* posts are deleted; unless an event was dropped.
THEOREM AnsweredHold == Spec => []AnsweredTold
  <1>1. ASSUME NInv PROVE AnsweredTold
    <2> SUFFICES ASSUME inbox = <<>>, emits = {}, notifier = Nothing, "notifier" \notin missed,
                        NEW d \in due, {d.post, Parent[d.post]} \subseteq held
                 PROVE  [post |-> d.post, who |-> d.who, why |-> "reply"] \in told
      BY DEF AnsweredTold
    <2>1. d.post \in Posts /\ None \notin Posts
      BY <1>1, Numbers DEF NInv, OthersOK, PushOK
    <2>2. ~ Coming(d.post)
      <3>1. ~ \E i \in DOMAIN inbox : IsCreate(inbox[i], d.post)
        OBVIOUS
      <3> QED
        BY <3>1 DEF Coming
    <2>3. ~ InHand(d.post, d.who)
      BY <2>1 DEF InHand, Nothing
    <2> QED
      BY <1>1, <2>2, <2>3 DEF NInv, ToldInv, Owing, Reply
  <1> QED
    BY <1>1, AlwaysN, PTL

\* A thread page that has heard everything, and fetches nothing, shows the thread
\* (the stream of a thread page and the list it is drawn from), for any tree of
\* posts, any buffer and any times, in whatever order the events went out and whichever fetch they met; unless an event fell
\* between the page and its stream, or was dropped.
THEOREM LivePageHolds == Spec => []LivePageTrue
  <1>1. ASSUME NInv PROVE LivePageTrue
    <2> SUFFICES ASSUME line = "up", stream = <<>>, emits = {}, ~ page.owed, page.busy = "no",
                        "page" \notin missed
                 PROVE  page.shown = Thread(Page)
      BY DEF LivePageTrue
    <2>1. ~ Catching
      BY DEF Catching
    <2>2. ~ Heralded
      <3>1. ~ \E i \in DOMAIN stream : stream[i].root = Page
        OBVIOUS
      <3> QED
        BY <3>1 DEF Heralded
    <2>3. Current
      BY <1>1, <2>1, <2>2 DEF NInv, LiveInv
    <2> QED
      BY <2>3 DEF Current, Shows
  <1> QED
    BY <1>1, AlwaysN, PTL

\* A root points at a last reply that is here and whose arrival is its activity, or
\* at none (apply on post.create and post.delete, src/internal/store/store.go:531),
\* for any posts that come and go in any order, no chain of replies being longer
\* than the walk up, as LastReplyStands says.
THEOREM ThreadsStand == NoLongChain => (Spec => []ThreadsTrue)
  <1> SUFFICES ASSUME NoLongChain PROVE Spec => []ThreadsTrue
    OBVIOUS
  <1>1. NInv /\ CountersInv /\ [Next]_vars => CountersInv'
    BY NextCounters
  <1>2. NInv /\ CountersInv => ThreadsTrue
    BY TypedN DEF NInv, CountersInv, ThreadsTrue
  <1> QED
    BY <1>1, <1>2, InitN, AlwaysN, PTL DEF Spec

\* A page of the notifications list is the newest posts that concern the reader
\* behind the cursor, as many as a page holds (concernCTE and Store.notifications,
\* src/internal/store/store.go:2404, 2440): the answers, the mentions shown, and what
\* came in a thread after any post of theirs, its root too; for any posts and
\* readers, any order of arrivals and deletes, any limit and any cursor, however many
\* candidates the batches leave out.
THEOREM PagesHold == Spec => []PagesFilled
  <1>1. ASSUME NInv PROVE PagesFilled
    <2> SUFFICES ASSUME NEW me \in Readers, NEW before \in held \cup {None},
                        NEW rows, rows = Candidates(me), NEW listed, listed = Listed(me, rows)
                 PROVE  Notifications(rows, listed, before, PageLimit)
                            = Firsts(Behind(Concerns(me), before), PageLimit)
      BY DEF PagesFilled
    <2>1. ThreadsOK /\ held \subseteq Posts
      BY <1>1 DEF NInv, OthersOK, ThreadsOK
    <2>2. rows \subseteq Posts /\ listed \subseteq rows /\ before \in Ids
      BY <2>1 DEF Candidates, Listed, Ids
    <2>3. Notifications(rows, listed, before, PageLimit) = Firsts(Behind(listed, before), PageLimit)
      BY <2>1, <2>2, ListsFill
    <2>4. listed = Concerns(me)
      BY <2>1, ListedIs
    <2> QED
      BY <2>3, <2>4
  <1> QED
    BY <1>1, AlwaysN, PTL
=============================================================================
